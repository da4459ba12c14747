--------------------------- MODULE MCEventPipeline ---------------------------
(* Instances of EventPipeline for TLC.                                      *)
EXTENDS EventPipeline, TLC

CONSTANTS c1, c2, s1, p1, p2

\* All calls belong to one session, so that two of them compete for its title.
OneSession == [c \in Calls |-> s1]

AllFaults == {"redis", "db", "dbreply", "crash"}
CleanDbFaults == {"db"}
NoFaults == {}
RedisFaults == {"redis"}
=============================================================================
