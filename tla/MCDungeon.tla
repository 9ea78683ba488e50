----------------------------- MODULE MCDungeon -----------------------------
(* Dungeon with two clients. *)
EXTENDS Dungeon
CONSTANTS c1, c2
TwoClients == {c1, c2}
=============================================================================
