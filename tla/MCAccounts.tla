------------------------------ MODULE MCAccounts ------------------------------
(* Two clients and two names; both are interchangeable. *)
EXTENDS Accounts, TLC
CONSTANTS c1, c2, n1, n2, own
TwoClients == {c1, c2}
TwoNicks == {n1, n2}
OneSecret == {own}

\* One cause at a time, and so many statements in the pool: one when a player has
\* left or renamed himself too early.
FewAtATime ==
  /\ Cardinality(happened) <= 1
  /\ Cardinality(jobs) <= IF \E h \in happened : h[1] \in {"deserted", "renamed", "rename"} THEN 1 ELSE 2
Symmetry == Permutations(TwoClients) \cup Permutations(TwoNicks)
=============================================================================
