---------------------------- MODULE MCChatStream ----------------------------
(* Instances of ChatStream for TLC.                                         *)
EXTENDS ChatStream, TLC

CONSTANTS r1, r2, r3, s1, s2

\* Every request posts to the same session.
OneSession == [r \in Requests |-> s1]

\* r1 and r2 post to session s1, r3 to s2.
TwoSessions == [r \in Requests |-> IF r = r3 THEN s2 ELSE s1]

\* Requests of one session are interchangeable.
RequestSymmetry == Permutations(Requests)
PairSymmetry == Permutations({r1, r2})

\* Only the provider takes time: database, Redis and client answer within a
\* tick of the clock, and no summary is generated.
OnlyCalls == {"calling", "streaming"}

\* The summary call takes time too.
CallsAndSummary == {"loading", "calling", "streaming"}

\* Summary call, provider and a client that reads slowly.
AllSlow == {"loading", "calling", "streaming", "writing"}

AllFaults == {"redis", "db", "crash"}
NoFaults == {}
ServerFaults == {"redis", "crash"}
=============================================================================
