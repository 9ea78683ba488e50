------------------------------- MODULE IdPool -------------------------------
(***************************************************************************)
(* What CServer::SnapNewID and SnapFreeID promise the entities of the game  *)
(* world (src/src/game/server/entity.cpp): an identifier belongs to one      *)
(* owner from the call that returns it to the call that gives it back.       *)
(***************************************************************************)
EXTENDS Integers

CONSTANT Ids
VARIABLES inUse,        \* identifiers that have an owner
          outstanding   \* calls that returned one, less calls that gave one back

Init == inUse = {} /\ outstanding = 0

SnapNewID == /\ \E id \in Ids \ inUse : inUse' = inUse \cup {id}
             /\ outstanding' = outstanding + 1

SnapFreeID == /\ \E id \in inUse : inUse' = inUse \ {id}
              /\ outstanding' = outstanding - 1

Next == SnapNewID \/ SnapFreeID
Spec == Init /\ [][Next]_<<inUse, outstanding>>
=============================================================================
