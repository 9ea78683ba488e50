----------------------------- MODULE SnapIdPool -----------------------------
(***************************************************************************)
(* CSnapIDPool (src/src/engine/server/snapshot_ids_pool.cpp): identifiers    *)
(* for snapshot items, in two linked lists threaded through one array. A     *)
(* freed identifier goes to the end of the timed list and moves to the       *)
(* front of the free list when a later NewID finds it expired.               *)
(*                                                                         *)
(* The pool is used by the game thread only; op names the method under way,  *)
(* so that the loops of NewID and TimeoutIDs are repeated steps of           *)
(* RemoveFirstTimeout with nothing in between. freeSeq and timedSeq are      *)
(* history: the contents the two lists are meant to have.                    *)
(***************************************************************************)
EXTENDS Integers, Sequences, FiniteSets

CONSTANTS MaxIds,   \* MAX_IDS
          Freq,     \* time_freq(), ticks per second
          IntRange, \* number of values of an int (2^32)
          MaxNow    \* bound: the clock stops there

ASSUME PoolAssumption == /\ MaxIds \in Nat \ {0}
                         /\ Freq \in Nat
                         /\ IntRange \in Nat \ {0}
                         /\ MaxNow \in Nat

VARIABLES next, state, timeout,               \* m_aIDs
          firstFree, firstTimed, lastTimed,   \* heads and tail, -1 for none
          usage, inUsage,
          op, now,
          freeSeq, timedSeq

pool == <<next, state, timeout, firstFree, firstTimed, lastTimed, usage, inUsage, freeSeq, timedSeq>>
vars == <<pool, op, now>>

Ids == 0 .. MaxIds - 1
None == -1
Links == Ids \cup {None}

\* Storing a 64 bit time in the int m_Timeout keeps its low bits.
ToInt(x) == LET r == x % IntRange IN IF 2 * r >= IntRange THEN r - IntRange ELSE r

\* Variant: the last link is not set to -1.
InitOpenEnd ==
  /\ next = [i \in Ids |-> i + 1]
  /\ state = [i \in Ids |-> 0] /\ timeout = state
  /\ firstFree = 0 /\ firstTimed = None /\ lastTimed = None
  /\ usage = 0 /\ inUsage = 0
  /\ op = "none" /\ now = 0
  /\ freeSeq = [i \in 1..MaxIds |-> i - 1] /\ timedSeq = <<>>

\* Reset, called by the constructor.
Init == /\ next = [i \in Ids |-> IF i = MaxIds - 1 THEN None ELSE i + 1]
        /\ state = [i \in Ids |-> 0]
        /\ timeout = [i \in Ids |-> 0]
        /\ firstFree = 0 /\ firstTimed = None /\ lastTimed = None
        /\ usage = 0 /\ inUsage = 0
        /\ op = "none" /\ now = 0
        /\ freeSeq = [i \in 1..MaxIds |-> i - 1]
        /\ timedSeq = <<>>

Tick == /\ op = "none" /\ now < MaxNow
        /\ now' = now + 1
        /\ UNCHANGED <<pool, op>>

Begin(method) == op = "none" /\ op' = method /\ UNCHANGED <<pool, now>>

NewID == Begin("NewID")
TimeoutIDs == Begin("TimeoutIDs")

\* Variant: the comparison the wrong way round.
ExpiredSwapped == firstTimed # None /\ (op = "NewID" => timeout[firstTimed] > now)

Expired == firstTimed # None /\ (op = "NewID" => timeout[firstTimed] < now)

\* Variant: the tail is not reset when the timed list runs empty.
RemoveFirstTimeoutKeepsTail ==
  /\ op # "none" /\ Expired
  /\ next' = [next EXCEPT ![firstTimed] = firstFree]
  /\ state' = [state EXCEPT ![firstTimed] = 0]
  /\ firstFree' = firstTimed
  /\ firstTimed' = next[firstTimed]
  /\ usage' = usage - 1
  /\ freeSeq' = <<firstTimed>> \o freeSeq
  /\ timedSeq' = Tail(timedSeq)
  /\ UNCHANGED <<timeout, lastTimed, inUsage, op, now>>

RemoveFirstTimeout ==
  /\ op # "none" /\ Expired
  /\ next' = [next EXCEPT ![firstTimed] = firstFree]
  /\ state' = [state EXCEPT ![firstTimed] = 0]
  /\ firstFree' = firstTimed
  /\ firstTimed' = next[firstTimed]
  /\ lastTimed' = IF next[firstTimed] = None THEN None ELSE lastTimed
  /\ usage' = usage - 1
  /\ freeSeq' = <<firstTimed>> \o freeSeq
  /\ timedSeq' = Tail(timedSeq)
  /\ UNCHANGED <<timeout, inUsage, op, now>>

\* Variant: the identifier stays at the head of the free list.
TakeFreeAgain ==
  /\ op = "NewID" /\ ~Expired /\ firstFree # None
  /\ state' = [state EXCEPT ![firstFree] = 1]
  /\ usage' = usage + 1 /\ inUsage' = inUsage + 1
  /\ op' = "none"
  /\ UNCHANGED <<next, timeout, firstFree, firstTimed, lastTimed, now, freeSeq, timedSeq>>

\* The end of NewID.
TakeFree ==
  /\ op = "NewID" /\ ~Expired /\ firstFree # None
  /\ firstFree' = next[firstFree]
  /\ state' = [state EXCEPT ![firstFree] = 1]
  /\ usage' = usage + 1 /\ inUsage' = inUsage + 1
  /\ op' = "none"
  /\ freeSeq' = Tail(freeSeq)
  /\ UNCHANGED <<next, timeout, firstTimed, lastTimed, now, timedSeq>>

\* dbg_assert(ID != -1, "id error"): the server aborts.
Exhausted ==
  /\ op = "NewID" /\ ~Expired /\ firstFree = None
  /\ op' = "aborted"
  /\ UNCHANGED <<pool, now>>

TimeoutIDsEnd ==
  /\ op = "TimeoutIDs" /\ ~Expired
  /\ op' = "none"
  /\ UNCHANGED <<pool, now>>

\* Variant: m_Usage is counted down here as well.
FreeIDCountsUsage(id) ==
  /\ op = "none" /\ state[id] = 1
  /\ usage' = usage - 1 /\ inUsage' = inUsage - 1
  /\ state' = [state EXCEPT ![id] = 2]
  /\ timeout' = [timeout EXCEPT ![id] = ToInt(now + Freq * 5)]
  /\ next' = IF lastTimed # None THEN [next EXCEPT ![id] = None, ![lastTimed] = id]
                                 ELSE [next EXCEPT ![id] = None]
  /\ firstTimed' = IF lastTimed # None THEN firstTimed ELSE id
  /\ lastTimed' = id
  /\ timedSeq' = Append(timedSeq, id)
  /\ UNCHANGED <<firstFree, op, now, freeSeq>>

\* FreeID of an identifier its caller owns (dbg_assert m_State == 1).
FreeID(id) ==
  /\ op = "none" /\ state[id] = 1
  /\ inUsage' = inUsage - 1
  /\ state' = [state EXCEPT ![id] = 2]
  /\ timeout' = [timeout EXCEPT ![id] = ToInt(now + Freq * 5)]
  /\ next' = IF lastTimed # None THEN [next EXCEPT ![id] = None, ![lastTimed] = id]
                                 ELSE [next EXCEPT ![id] = None]
  /\ firstTimed' = IF lastTimed # None THEN firstTimed ELSE id
  /\ lastTimed' = id
  /\ timedSeq' = Append(timedSeq, id)
  /\ UNCHANGED <<firstFree, usage, op, now, freeSeq>>

Next == \/ Tick \/ NewID \/ TimeoutIDs
        \/ RemoveFirstTimeout \/ TakeFree \/ Exhausted \/ TimeoutIDsEnd
        \/ \E id \in Ids : FreeID(id)

Spec == Init /\ [][Next]_vars

-----------------------------------------------------------------------------
\* The links stay inside the array.
TypeOK == /\ next \in [Ids -> Links] /\ state \in [Ids -> 0..2]
          /\ timeout \in [Ids -> Int]
          /\ firstFree \in Links /\ firstTimed \in Links /\ lastTimed \in Links
          /\ usage \in Int /\ inUsage \in Int
          /\ op \in {"none", "NewID", "TimeoutIDs", "aborted"}
          /\ now \in Nat
          /\ freeSeq \in Seq(Ids) /\ timedSeq \in Seq(Ids)

\* The list that starts at head runs through s and ends.
Realizes(head, s) ==
  /\ head = IF s = <<>> THEN None ELSE s[1]
  /\ \A i \in 1..Len(s) : next[s[i]] = IF i = Len(s) THEN None ELSE s[i + 1]

\* Both lists are intact through any interleaving of NewID, FreeID and expiry:
\* no cycle, no identifier of the other list, and the tail is the tail.
ListsIntact ==
  /\ Realizes(firstFree, freeSeq)
  /\ Realizes(firstTimed, timedSeq)
  /\ lastTimed = IF timedSeq = <<>> THEN None ELSE timedSeq[Len(timedSeq)]

\* m_State says where an identifier is, and it is there once.
StateIsPlace ==
  /\ \A i, j \in 1..Len(freeSeq) : i # j => freeSeq[i] # freeSeq[j]
  /\ \A i, j \in 1..Len(timedSeq) : i # j => timedSeq[i] # timedSeq[j]
  /\ \A id \in Ids : /\ state[id] = 0 <=> \E i \in 1..Len(freeSeq) : freeSeq[i] = id
                     /\ state[id] = 2 <=> \E i \in 1..Len(timedSeq) : timedSeq[i] = id

\* The usage counters count.
CountersAgree == /\ inUsage = Cardinality({id \in Ids : state[id] = 1})
                 /\ usage = Cardinality({id \in Ids : state[id] # 0})

\* The pool hands an identifier to one owner at a time.
Owned == INSTANCE IdPool WITH inUse <- {id \in Ids : state[id] = 1}, outstanding <- inUsage
ImplementsIdPool == Owned!Spec

\* m_Timeout is an int while time_get() counts nanoseconds: once the clock has
\* passed the largest int, nothing on the timed list waits for five seconds any
\* more. Every NewID then empties the list before it takes an identifier.
LateTimeoutsNeverHold ==
  [][op = "NewID" /\ op' = "none" /\ 2 * now >= IntRange => timedSeq = <<>>]_vars
=============================================================================
