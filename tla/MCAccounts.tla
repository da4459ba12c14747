----------------------------- MODULE MCAccounts -----------------------------
(* Instances of Accounts for TLC.                                           *)
EXTENDS Accounts, TLC

CONSTANTS c1, c2, n1, n2, e1, e2, w1, w2, p1, p2, s1, s2

\* Clients, names, passwords, providers and suffixes are interchangeable.
Symmetry == Permutations(Clients) \cup Permutations(Names)
    \cup Permutations(Passwords) \cup Permutations(Providers)
    \cup Permutations(Suffixes)
=============================================================================
