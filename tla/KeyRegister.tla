----------------------------- MODULE KeyRegister -----------------------------
(***************************************************************************)
(* What the API keys of FlowChat's users promise: one register for each    *)
(* user and provider.  A call takes effect at one moment between its       *)
(* beginning and its reply, however many statements it takes.  A call that *)
(* fails may have taken effect.                                            *)
(***************************************************************************)
CONSTANTS
    Clients,
    Users,
    Providers,
    Calls,          \* records: op, user, and what the op needs
    NoKey,
    NoCall,
    NoReply,
    Suffix          \* Suffix[k]: what a list shows of a key, or of NoKey

VARIABLES
    key,            \* key[u][p]: the key of user u for provider p, or NoKey
    call,           \* call[c]: the call c waits for, or NoCall
    reply           \* reply[c]: the reply to the last call of c, or NoReply

vars == <<key, call, reply>>

Init ==
    /\ key = [u \in Users |-> [p \in Providers |-> NoKey]]
    /\ call = [c \in Clients |-> NoCall]
    /\ reply = [c \in Clients |-> NoReply]

Begin(c) ==
    /\ call[c] = NoCall
    /\ \E new \in Calls : call' = [call EXCEPT ![c] = new]
    /\ reply' = [reply EXCEPT ![c] = NoReply]
    /\ UNCHANGED key

Reply(c, r) ==
    /\ call' = [call EXCEPT ![c] = NoCall]
    /\ reply' = [reply EXCEPT ![c] = r]

Put(c, k) == key' = [key EXCEPT ![call[c].user][call[c].provider] = k]

\* The effect of the call of c, if it has any.
Effect(c) ==
    \/ call[c].op = "save" /\ Put(c, call[c].key)
    \/ call[c].op = "delete" /\ Put(c, NoKey)
    \/ call[c].op \in {"list", "read"} /\ UNCHANGED key

Answer(c) ==
    CASE call[c].op = "save" -> [saved |-> Suffix[call[c].key]]
      [] call[c].op = "delete" -> [deleted |-> TRUE]
      [] call[c].op = "list" ->
            [listed |-> [p \in Providers |-> Suffix[key[call[c].user][p]]]]
      [] call[c].op = "read" -> [read |-> key[call[c].user][call[c].provider]]

Succeed(c) == call[c] # NoCall /\ Effect(c) /\ Reply(c, Answer(c))

Fail(c) ==
    /\ call[c] # NoCall
    /\ Effect(c) \/ UNCHANGED key
    /\ Reply(c, [failed |-> TRUE])

\* The client drops what it was told.
Forget(c) ==
    /\ call[c] = NoCall
    /\ reply' = [reply EXCEPT ![c] = NoReply]
    /\ UNCHANGED <<key, call>>

Next == \E c \in Clients : Begin(c) \/ Succeed(c) \/ Fail(c) \/ Forget(c)

Spec == Init /\ [][Next]_vars
=============================================================================
