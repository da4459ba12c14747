--------------------------- MODULE MCConversation ---------------------------
(* Instances of Conversation for TLC.                                       *)
EXTENDS Conversation, TLC

CONSTANTS r1, r2, c1

\* Requests of one session are interchangeable.
RequestSymmetry == Permutations(Requests)
=============================================================================
