----------------------------- MODULE Generation -----------------------------
(***************************************************************************)
(* What the chat service promises about answers: a session works on one    *)
(* request at a time, the answer of a request is placed while the session  *)
(* works on it, it is settled at most once and only by the request it      *)
(* belongs to, and after that it never changes.  ChatStream implements     *)
(* this specification while its locks are not allowed to lapse.            *)
(***************************************************************************)
CONSTANTS
    Requests,       \* the streaming requests
    Sessions,       \* the chat sessions
    SessionOf,      \* the session a request posts to
    NoRequest       \* "no request", the value of an idle session

Outcomes == {"completed", "failed", "cancelled"}

VARIABLES
    current,        \* current[s]: the request session s works on
    answer          \* answer[r]: "absent", "generating" or an outcome

gvars == <<current, answer>>

GInit ==
    /\ current = [s \in Sessions |-> NoRequest]
    /\ answer = [r \in Requests |-> "absent"]

\* The session is idle and takes up request r.
Start(r) ==
    /\ current[SessionOf[r]] = NoRequest
    /\ current' = [current EXCEPT ![SessionOf[r]] = r]
    /\ UNCHANGED answer

\* A placeholder for the answer of the current request is stored.
Place(r) ==
    /\ current[SessionOf[r]] = r
    /\ answer[r] = "absent"
    /\ answer' = [answer EXCEPT ![r] = "generating"]
    /\ UNCHANGED current

\* The answer of the current request gets its outcome.
Settle(r) ==
    /\ current[SessionOf[r]] = r
    /\ answer[r] = "generating"
    /\ \E v \in Outcomes : answer' = [answer EXCEPT ![r] = v]
    /\ UNCHANGED current

\* The session is done with its current request, settled or not.
Finish(r) ==
    /\ current[SessionOf[r]] = r
    /\ current' = [current EXCEPT ![SessionOf[r]] = NoRequest]
    /\ UNCHANGED answer

\* The server stops: no session works on anything any more.
Halt ==
    /\ current' = [s \in Sessions |-> NoRequest]
    /\ UNCHANGED answer

GNext ==
    \/ \E r \in Requests : Start(r) \/ Place(r) \/ Settle(r) \/ Finish(r)
    \/ Halt

GSpec == GInit /\ [][GNext]_gvars
=============================================================================
