----------------------------- MODULE CallLedger -----------------------------
(***************************************************************************)
(* What the side tasks promise about the books: a finished call is written *)
(* to the call log once, and its usage is added to the statistics of its   *)
(* user at most once and only when the call is in the log.                 *)
(***************************************************************************)
CONSTANT Calls      \* request_ids of the finished calls

VARIABLES
    recorded,       \* calls with a row in model_call_logs
    counted         \* calls whose usage is in user_model_usage_stats

lvars == <<recorded, counted>>

LInit == recorded = {} /\ counted = {}

Record(c) ==
    /\ c \notin recorded
    /\ recorded' = recorded \cup {c}
    /\ UNCHANGED counted

Count(c) ==
    /\ c \in recorded
    /\ c \notin counted
    /\ counted' = counted \cup {c}
    /\ UNCHANGED recorded

LNext == \E c \in Calls : Record(c) \/ Count(c)

LSpec == LInit /\ [][LNext]_lvars
=============================================================================
