------------------------- MODULE InventorySave_proofs -------------------------
(***************************************************************************)
(* Proofs about InventorySave, for any items, amounts, number of workers,    *)
(* retries and saves: the type invariant, the entries of ms_PendingSerials,  *)
(* the saves that are not written, and the row of an item that is settled.   *)
(***************************************************************************)
EXTENDS InventorySave, FiniteSetTheorems, TLAPS

Starts(k) == starting # NoJob /\ starting.key = k

\* An entry is that of a save that is under way, unless one was dropped.
EntryHasSave ==
  \A k \in Keys : pending[k] # 0 /\ k \notin dropped =>
    \/ Starts(k) /\ starting.serial = pending[k]
    \/ \E j \in Of(k) : j.serial = pending[k]

\* Saves of a key are counted; the one that is starting is the youngest.
Counted ==
  /\ \A k \in Keys : last[k] <= born[k]
  /\ \A k \in Keys : \A j \in Of(k) : j.n <= born[k] /\ j.n # last[k]
  /\ \A k \in Keys : Starts(k) => /\ starting.n = born[k] /\ last[k] < born[k]
                                  /\ \A j \in Of(k) : j.n # born[k]

SameSave(i, j) == IsSave(i) /\ IsSave(j) /\ i.key = j.key /\ i.n = j.n

\* A save is in one place.
Apart ==
  /\ \A i, j \in 1..Len(fifo) : SameSave(fifo[i], fifo[j]) => i = j
  /\ \A i \in 1..Len(fifo), r \in running : ~SameSave(fifo[i], r.job)
  /\ \A r, s \in running : SameSave(r.job, s.job) => r = s

\* Without inversion the entry of a key is that of its youngest save, until that
\* is finalized.
EntryIsYoungest ==
  \A k \in Keys \ inverted :
    /\ \A j \in Of(k) : j.n > last[k] =>
         pending[k] # 0 /\ j.serial <= pending[k] /\ (j.serial = pending[k] <=> j.n = born[k])
    /\ Starts(k) => pending[k] = starting.serial /\ starting.serial # 0

Blamed == overlap \cup failed \cup dropped \cup misread
AsNew(it) == it.value = 0 \/ Stored(it).dur = Full

\* What is under way of an item that nothing is to blame for is what the player
\* has, and so is the row when it was written, up to a repair that has not come
\* to the item yet.
RowFollows ==
  \A k \in Keys \ Blamed :
    /\ \A j \in Of(k) : j.item = Stored(item[k])
    /\ Starts(k) => starting.item = Stored(item[k]) /\ Of(k) = {} /\ pending[k] = starting.serial
    /\ \A r \in running : /\ IsSave(r.job) /\ r.job.key = k /\ r.at = "callback"
                          /\ k \notin toMend
                          => SameItem(row[k], item[k])
    /\ Settled(k) => SameItem(row[k], item[k])
    /\ Repairing /\ k \notin toMend => AsNew(item[k])

\* No row and no statement is of a broken item.
Sound ==
  /\ \A k \in Keys : row[k].dur > 0 /\ \A j \in Of(k) : j.item.dur > 0
  /\ starting # NoJob => starting.item.dur > 0

\* Workers are finitely many, and only a save has a callback.
Workers == IsFiniteSet(running) /\ \A r \in running : r.at = "callback" => IsSave(r.job)

IInv == /\ TypeOK /\ Workers /\ Sound /\ EntryHasSave /\ Counted /\ Apart /\ EntryIsYoungest /\ RowFollows
        /\ SkipNeedsInversion

-----------------------------------------------------------------------------
Statements == Saves \cup Repairs

Alike(i, j) == i.key = j.key /\ i.item = j.item /\ i.serial = j.serial /\ i.n = j.n

LEMMA KindOf == \A j \in Statements : IsSave(j) <=> j \in Saves
<1>1. ASSUME NEW j \in Repairs PROVE ~IsSave(j)
  BY DEF Repairs, IsSave
<1>2. ASSUME NEW j \in Saves PROVE IsSave(j)
  BY DEF Saves, IsSave
<1> QED BY <1>1, <1>2 DEF Statements

\* A statement that is tried again is the same save.
LEMMA Again ==
  ASSUME NEW j \in Statements, NEW h, h = [j EXCEPT !.retry = @ + 1]
  PROVE  /\ h \in Statements /\ (IsSave(h) <=> IsSave(j))
         /\ IsSave(j) => Alike(j, h)
<1>1. CASE j \in Saves
  <2>1. h \in Saves /\ Alike(j, h)
    BY <1>1 DEF Saves, Alike
  <2>2. h \in Statements /\ j \in Statements
    BY <1>1, <2>1 DEF Statements
  <2>3. IsSave(h)
    BY <2>1, <2>2, KindOf
  <2>4. IsSave(j)
    BY <1>1, <2>2, KindOf
  <2> QED BY <2>1, <2>2, <2>3, <2>4
<1>2. CASE j \in Repairs
  <2>1. h \in Repairs
    BY <1>2 DEF Repairs
  <2> QED BY <1>2, <2>1, KindOf DEF Repairs, IsSave, Statements
<1> QED BY <1>1, <1>2 DEF Statements

\* What is in flight, and what of it are the saves of a key.
LEMMA Flight ==
  ASSUME TypeOK
  PROVE  /\ InFlight \subseteq Statements
         /\ \A i \in 1..Len(fifo) : fifo[i] \in InFlight
         /\ \A r \in running : r.job \in InFlight /\ r = [job |-> r.job, at |-> r.at]
         /\ \A k \in Keys : Of(k) = {j \in InFlight \cap Saves : j.key = k}
<1>1. fifo \in Seq(Statements) /\ running \subseteq [job : Statements, at : {"exec", "callback"}]
  BY DEF TypeOK, Statements
<1>2. /\ InFlight \subseteq Statements /\ \A i \in 1..Len(fifo) : fifo[i] \in InFlight
      /\ \A r \in running : r.job \in InFlight
  BY <1>1 DEF InFlight
<1>3. \A r \in running : r = [job |-> r.job, at |-> r.at]
  BY <1>1
<1>4. \A k \in Keys : Of(k) = {j \in InFlight \cap Saves : j.key = k}
  BY <1>2, KindOf DEF Of
<1> QED BY <1>2, <1>3, <1>4

\* The queue after Append and after Tail, position by position.
LEMMA Queue ==
  ASSUME NEW S, NEW q \in Seq(S), NEW s \in S
  PROVE  /\ Append(q, s) \in Seq(S) /\ Len(Append(q, s)) = Len(q) + 1 /\ Len(q) \in Nat
         /\ \A i \in 1..Len(Append(q, s)) : Append(q, s)[i] = IF i = Len(q) + 1 THEN s ELSE q[i]
         /\ q # <<>> => /\ Tail(q) \in Seq(S) /\ Len(Tail(q)) = Len(q) - 1 /\ Len(q) >= 1
                        /\ Head(q) = q[1] /\ Head(q) \in S
                        /\ \A i \in 1..Len(Tail(q)) : Tail(q)[i] = q[i + 1]
OBVIOUS

\* A statement is added to the queue.
LEMMA AppendFlight ==
  ASSUME TypeOK, NEW s \in Statements, fifo' = Append(fifo, s), running' = running
  PROVE  InFlight' = InFlight \cup {s}
<1> DEFINE q == Append(fifo, s)
<1>1. fifo \in Seq(Statements)
  BY DEF TypeOK, Statements
<1>2. /\ Len(q) = Len(fifo) + 1 /\ Len(fifo) \in Nat
      /\ \A i \in 1..Len(q) : q[i] = IF i = Len(fifo) + 1 THEN s ELSE fifo[i]
  BY <1>1, Queue
<1>3. fifo' = q
  OBVIOUS
<1> HIDE DEF q
<1>4. {fifo'[i] : i \in 1..Len(fifo')} = {fifo[i] : i \in 1..Len(fifo)} \cup {s}
  <2>1. ASSUME NEW i \in 1..Len(fifo) PROVE i \in 1..Len(q) /\ q[i] = fifo[i]
    BY <1>2
  <2>2. Len(q) \in 1..Len(q) /\ q[Len(q)] = s
    BY <1>2
  <2>3. ASSUME NEW i \in 1..Len(q), q[i] # s PROVE i \in 1..Len(fifo) /\ q[i] = fifo[i]
    BY <1>2, <2>3
  <2> QED BY <1>3, <2>1, <2>2, <2>3
<1> QED BY <1>4 DEF InFlight

\* A worker took a statement; nothing else is under way.
LEMMA PopFlight ==
  ASSUME TypeOK, Pop
  PROVE  InFlight' = InFlight
<1> DEFINE q == Tail(fifo)
<1>1. fifo \in Seq(Statements) /\ fifo # <<>>
  BY DEF TypeOK, Statements, Pop
<1>2. /\ Len(q) = Len(fifo) - 1 /\ Len(fifo) >= 1 /\ Len(fifo) \in Nat
      /\ Head(fifo) = fifo[1] /\ \A i \in 1..Len(q) : q[i] = fifo[i + 1]
  <2>1. Head(fifo) \in Statements
    BY <1>1
  <2> QED BY <1>1, <2>1, Queue
<1>3. fifo' = q /\ running' = running \cup {[job |-> Head(fifo), at |-> "exec"]}
  BY DEF Pop
<1> HIDE DEF q
<1>4. {fifo[i] : i \in 1..Len(fifo)} = {q[i] : i \in 1..Len(q)} \cup {Head(fifo)}
  <2>1. ASSUME NEW i \in 1..Len(q) PROVE i + 1 \in 1..Len(fifo) /\ q[i] = fifo[i + 1]
    BY <1>2
  <2>2. 1 \in 1..Len(fifo) /\ Head(fifo) = fifo[1]
    BY <1>2
  <2>3. ASSUME NEW i \in 1..Len(fifo), i # 1 PROVE i - 1 \in 1..Len(q) /\ q[i - 1] = fifo[i]
    <3>1. i - 1 \in 1..Len(q) /\ (i - 1) + 1 = i
      BY <1>2, <2>3
    <3> QED BY <1>2, <3>1
  <2>4. ASSUME NEW x \in {fifo[i] : i \in 1..Len(fifo)} PROVE x \in {q[i] : i \in 1..Len(q)} \cup {Head(fifo)}
    <3>1. PICK i \in 1..Len(fifo) : x = fifo[i]
      BY <2>4
    <3> QED BY <2>2, <2>3, <3>1
  <2> QED BY <2>1, <2>2, <2>4
<1>5. {r.job : r \in running'} = {r.job : r \in running} \cup {Head(fifo)}
  <2> DEFINE x == [job |-> Head(fifo), at |-> "exec"]
  <2>1. x.job = Head(fifo) /\ running' = running \cup {x}
    BY <1>3
  <2> HIDE DEF x
  <2> QED BY <2>1
<1> QED BY <1>3, <1>4, <1>5 DEF InFlight

\* A statement leaves its worker.
LEMMA LeaveFlight ==
  ASSUME TypeOK, NEW r \in running, fifo' = fifo, running' = running \ {r}
  PROVE  InFlight' \subseteq InFlight /\ \A j \in InFlight : j = r.job \/ j \in InFlight'
BY DEF InFlight

-----------------------------------------------------------------------------
(* What the steps come down to *)

Saved(k, it) ==
  /\ Save(k, it) /\ it \in Items
  /\ \/ toMend = {} /\ toMend' \in {{}, {k}}
     \/ toMend' = toMend \ {k} /\ it.dur = Full

Retried(r) == /\ r.job.retry < DmlRetries
              /\ fifo' = Append(fifo, [r.job EXCEPT !.retry = @ + 1])
              /\ running' = running \ {r} /\ failed' = failed
GivenUp(r) == Through(r) /\ failed' = failed \cup KeyOf(r.job) /\ fifo' = fifo

LEMMA StepKinds ==
  ASSUME TypeOK, [Next]_vars
  PROVE  \/ \E k \in Keys, it \in Items : Saved(k, it)
         \/ \E k \in Keys : Login(k)
         \/ RepairAll \/ Write \/ Pop \/ Crash
         \/ \E r \in running : Execute(r) \/ Break(r) \/ Fail(r) \/ Drop(r) \/ Finalize(r)
         \/ UNCHANGED vars
<1>1. ASSUME NEW k \in Keys, NEW v \in 0..MaxValue, SetValue(k, v)
      PROVE  \E it \in Items : Saved(k, it)
  <2>1. [item[k] EXCEPT !.value = v] \in Items
    BY DEF TypeOK, Items
  <2> QED BY <1>1, <2>1 DEF SetValue, Saved
<1>2. ASSUME NEW k \in Keys, Wear(k)
      PROVE  \E it \in Items : Saved(k, it)
  <2>1. [item[k] EXCEPT !.dur = @ - 1] \in Items
    BY <1>2, SaveAssumption DEF TypeOK, Items, Wear
  <2> QED BY <1>2, <2>1 DEF Wear, Saved
<1>3. ASSUME NEW k \in Keys, Mend(k)
      PROVE  \E it \in Items : Saved(k, it)
  <2>1. [item[k] EXCEPT !.dur = Full] \in Items /\ [item[k] EXCEPT !.dur = Full].dur = Full
    <3>1. item[k] \in Items /\ Full \in 0..Full
      BY SaveAssumption DEF TypeOK
    <3> QED BY <3>1 DEF Items
  <2> QED BY <1>3, <2>1 DEF Mend, Saved
<1> QED BY <1>1, <1>2, <1>3 DEF Next

\* A save of an item carries what is stored of it.
LEMMA SaveStarts ==
  ASSUME TypeOK, NEW k \in Keys, NEW it \in Items, Saved(k, it)
  PROVE  /\ Stored(it) \in Items /\ Stored(it).dur > 0
         /\ starting = NoJob /\ starting' # NoJob /\ starting' \in Saves
         /\ starting'.key = k /\ starting'.item = Stored(it)
         /\ starting'.serial = pending[k] + 1 /\ starting'.n = born[k] + 1
         /\ item' = [item EXCEPT ![k] = it]
         /\ pending' = [pending EXCEPT ![k] = @ + 1] /\ born' = [born EXCEPT ![k] = @ + 1]
         /\ InFlight' = InFlight /\ \A x \in Keys : Of(x)' = Of(x)
         /\ UNCHANGED <<fifo, running, row, repairs, last, inverted, failed, dropped, skipped, misread>>
<1> USE SaveAssumption
<1>1. Stored(it) \in Items /\ Stored(it).dur > 0
  BY DEF Stored, Items
<1>2. /\ pending' = [pending EXCEPT ![k] = @ + 1] /\ born' = [born EXCEPT ![k] = @ + 1]
      /\ starting' = [key |-> k, item |-> Stored(it), serial |-> pending'[k], n |-> born'[k], retry |-> 0]
  BY DEF Saved, Save
<1>3. pending'[k] = pending[k] + 1 /\ born'[k] = born[k] + 1 /\ pending'[k] \in Nat /\ born'[k] \in Nat
  BY <1>2 DEF TypeOK
<1>4. starting' \in Saves
  BY <1>1, <1>2, <1>3 DEF Saves
<1>5. InFlight' = InFlight /\ \A x \in Keys : Of(x)' = Of(x)
  BY DEF Saved, Save, InFlight, Of
<1>6. starting' # NoJob
  BY <1>4, NoJobAssumption
<1> QED BY <1>1, <1>2, <1>3, <1>4, <1>5, <1>6 DEF Saved, Save

LEMMA WrittenTypes ==
  ASSUME TypeOK, NEW j \in Statements, Written(j)
  PROVE  row' \in [Keys -> Items]
<1> USE SaveAssumption
<1>1. CASE IsSave(j)
  <2>1. j \in Saves /\ Absent \in Items
    BY <1>1, KindOf DEF Absent, Items
  <2>2. row' = [row EXCEPT ![j.key] = IF j.item.value = 0 THEN Absent ELSE j.item]
    BY <1>1 DEF Written
  <2> QED BY <2>1, <2>2 DEF TypeOK, Saves
<1>2. CASE ~IsSave(j)
  <2>1. row' = [k \in Keys |-> Repaired(row[k])]
    BY <1>2 DEF Written
  <2>2. \A k \in Keys : Repaired(row[k]) \in Items
    <3>1. row \in [Keys -> Items] /\ Full \in 0..Full
      BY DEF TypeOK
    <3> QED BY <3>1 DEF Items, Repaired
  <2> QED BY <2>1, <2>2
<1> QED BY <1>1, <1>2

\* The workers after a statement is through, or leaves.
LEMMA WorkersTypes ==
  ASSUME TypeOK, IsFiniteSet(running), NEW r \in running,
         running' = running \ {r} \/ Through(r)
  PROVE  /\ running' \subseteq [job : Statements, at : {"exec", "callback"}]
         /\ Cardinality(running') <= PoolSize /\ IsFiniteSet(running')
<1> DEFINE rest == running \ {r}
           y == [r EXCEPT !.at = "callback"]
<1>1. /\ IsFiniteSet(rest) /\ Cardinality(rest) = Cardinality(running) - 1
      /\ Cardinality(running) \in Nat /\ Cardinality(running) <= PoolSize
  BY FS_RemoveElement, FS_CardinalityType DEF TypeOK
<1>2. running \subseteq [job : Statements, at : {"exec", "callback"}]
  BY DEF TypeOK, Statements
<1>3. y \in [job : Statements, at : {"exec", "callback"}]
  BY <1>2
<1>4. /\ IsFiniteSet(rest \cup {y})
      /\ Cardinality(rest \cup {y}) = Cardinality(rest) \/ Cardinality(rest \cup {y}) = Cardinality(rest) + 1
  BY <1>1, FS_AddElement
<1>5. running' = rest \/ running' = rest \cup {y}
  BY DEF Through
<1> HIDE DEF rest, y
<1>6. Cardinality(running') <= PoolSize /\ IsFiniteSet(running')
  <2>1. CASE running' = rest
    BY <1>1, <2>1, SaveAssumption
  <2>2. CASE running' = rest \cup {y}
    BY <1>1, <1>4, <2>2, SaveAssumption
  <2> QED BY <1>5, <2>1, <2>2
<1> QED BY <1>2, <1>3, <1>5, <1>6 DEF rest

LEMMA StepTypes ==
  ASSUME TypeOK, Workers, [Next]_vars
  PROVE  TypeOK' /\ Workers'
<1> USE SaveAssumption
<1> DEFINE Ghosts == /\ repairs \in 0..MaxRepairs /\ born \in [Keys -> Nat] /\ last \in [Keys -> Nat]
                     /\ overlap \cup inverted \cup failed \cup dropped \cup skipped \cup misread \subseteq Keys
           Memory == /\ item \in [Keys -> Items] /\ row \in [Keys -> Items]
                     /\ pending \in [Keys -> Nat]
                     /\ starting \in Saves \cup {NoJob} /\ toMend \subseteq Keys
           Pool == /\ fifo \in Seq(Statements)
                   /\ running \subseteq [job : Statements, at : {"exec", "callback"}]
                   /\ Cardinality(running) <= PoolSize /\ Workers
<1>0. Ghosts /\ Memory /\ Pool
  BY DEF TypeOK, Statements
<1>s. SUFFICES Ghosts' /\ Memory' /\ Pool'
  BY DEF TypeOK, Statements
<1>1. ASSUME NEW k \in Keys, NEW it \in Items, Saved(k, it) PROVE Ghosts' /\ Memory' /\ Pool'
  <2>1. Ghosts'
    BY <1>0, <1>1 DEF Saved, Save
  <2>2. Memory'
    <3>1. /\ starting' \in Saves /\ item' = [item EXCEPT ![k] = it] /\ row' = row
          /\ pending' = [pending EXCEPT ![k] = @ + 1]
      BY <1>1, SaveStarts
    <3>2. toMend' \subseteq Keys
      BY <1>0, <1>1 DEF Saved
    <3> QED BY <1>0, <3>1, <3>2
  <2> QED BY <1>0, <1>1, <2>1, <2>2, SaveStarts DEF Workers
<1>2. ASSUME NEW k \in Keys, Login(k) PROVE Ghosts' /\ Memory' /\ Pool'
  <2>1. Absent \in Items
    BY DEF Absent, Items
  <2> QED BY <1>0, <1>2, <2>1 DEF Login, Workers
<1>3. CASE RepairAll
  <2>1. [set |-> "durability", retry |-> 0] \in Statements
    BY DEF Statements, Repairs
  <2>2. Pool'
    BY <1>0, <1>3, <2>1, Queue DEF RepairAll, Workers
  <2> QED BY <1>0, <1>3, <2>2 DEF RepairAll
<1>4. CASE Write
  <2>1. starting \in Statements
    BY <1>0, <1>4 DEF Write, Statements
  <2>2. fifo' = fifo \/ fifo' = Append(fifo, starting)
    BY <1>4 DEF Write
  <2>3. Pool'
    <3>1. Append(fifo, starting) \in Seq(Statements)
      BY <1>0, <2>1, Queue
    <3> QED BY <1>0, <1>4, <2>2, <3>1 DEF Write, Workers
  <2>4. skipped' \subseteq Keys
    BY <1>0, <1>4 DEF Write, Saves
  <2> QED BY <1>0, <1>4, <2>3, <2>4 DEF Write
<1>5. CASE Pop
  <2> DEFINE x == [job |-> Head(fifo), at |-> "exec"]
  <2>1. Head(fifo) \in Statements /\ Tail(fifo) \in Seq(Statements)
    BY <1>0, <1>5 DEF Pop
  <2>2. x \in [job : Statements, at : {"exec", "callback"}]
    BY <2>1
  <2>3. running' = running \cup {x} /\ fifo' = Tail(fifo) /\ Cardinality(running) < PoolSize
    BY <1>5 DEF Pop
  <2> HIDE DEF x
  <2>4. /\ IsFiniteSet(running \cup {x}) /\ Cardinality(running) \in Nat
        /\ Cardinality(running \cup {x}) = Cardinality(running) \/ Cardinality(running \cup {x}) = Cardinality(running) + 1
    BY <1>0, FS_AddElement, FS_CardinalityType DEF Workers
  <2>5. Pool'
    <3>1. x.at # "callback"
      BY DEF x
    <3> QED BY <1>0, <2>1, <2>2, <2>3, <2>4, <3>1 DEF Workers
  <2> QED BY <1>0, <1>5, <2>5 DEF Pop, ghosts
<1>6. CASE Crash
  <2>1. Pool'
    BY <1>6, FS_EmptySet, SaveAssumption DEF Crash, Workers
  <2> QED BY <1>0, <1>6, <2>1 DEF Crash, ghosts
<1>7. ASSUME NEW r \in running, Execute(r) \/ Break(r) \/ Fail(r) \/ Drop(r) \/ Finalize(r) PROVE Ghosts' /\ Memory' /\ Pool'
  <2>1. r.job \in Statements /\ KeyOf(r.job) \subseteq Keys
    BY <1>0 DEF KeyOf
  <2>2. running' = running \ {r} \/ Through(r)
    BY <1>7 DEF Execute, Break, Fail, Drop, Finalize
  <2>3. /\ running' \subseteq [job : Statements, at : {"exec", "callback"}]
        /\ Cardinality(running') <= PoolSize /\ Workers'
    <3>1. IsFiniteSet(running)
      BY <1>0 DEF Workers
    <3>2. /\ running' \subseteq [job : Statements, at : {"exec", "callback"}]
          /\ Cardinality(running') <= PoolSize /\ IsFiniteSet(running')
      BY <2>2, <3>1, WorkersTypes
    <3>3. \A x \in running' : x.at = "callback" => IsSave(x.job)
      BY <1>0, <2>2 DEF Through, Workers
    <3> QED BY <3>2, <3>3 DEF Workers
  <2>4. fifo' \in Seq(Statements)
    <3>1. [r.job EXCEPT !.retry = @ + 1] \in Statements
      BY <2>1, Again
    <3>2. fifo' = fifo \/ fifo' = Append(fifo, [r.job EXCEPT !.retry = @ + 1])
      BY <1>7 DEF Execute, Break, Fail, Drop, Finalize
    <3> DEFINE h == [r.job EXCEPT !.retry = @ + 1]
    <3> HIDE DEF h
    <3>3. Append(fifo, h) \in Seq(Statements)
      BY <1>0, <3>1, Queue DEF h
    <3> QED BY <1>0, <3>2, <3>3 DEF h
  <2>5. row' \in [Keys -> Items]
    <3>1. row' = row \/ Written(r.job)
      BY <1>7 DEF Execute, Break, Fail, Drop, Finalize
    <3> QED BY <1>0, <2>1, <3>1, WrittenTypes
  <2>6. CASE ~Finalize(r)
    BY <1>0, <1>7, <2>1, <2>3, <2>4, <2>5, <2>6 DEF Execute, Break, Fail, Drop, ghosts
  <2>7. CASE Finalize(r)
    <3>1. Memory'
      <4>1. pending' \in [Keys -> Nat]
        BY <1>0, <2>7 DEF Finalize, ConsumeLatest
      <4> QED BY <1>0, <2>5, <2>7, <4>1 DEF Finalize
    <3>2. r.job \in Saves
      BY <1>0, <2>1, <2>7, KindOf DEF Finalize, Workers
    <3>3. r.job.n \in Nat /\ r.job.key \in Keys
      BY <3>2 DEF Saves
    <3>4. Ghosts'
      BY <1>0, <2>7, <3>3 DEF Finalize
    <3> QED BY <2>3, <2>4, <3>1, <3>4
  <2> QED BY <2>6, <2>7
<1>8. CASE UNCHANGED vars
  BY <1>0, <1>8 DEF vars, ghosts, Workers
<1> QED BY <1>1, <1>2, <1>3, <1>4, <1>5, <1>6, <1>7, <1>8, StepKinds

-----------------------------------------------------------------------------
(* What is under way after a step *)

LEMMA WriteFlight ==
  ASSUME TypeOK, Write, NEW k \in Keys
  PROVE  Of(k)' = Of(k) \cup (IF Starts(k) /\ IsLatest(starting) THEN {starting} ELSE {})
<1>1. starting \in Saves /\ starting \in Statements /\ IsSave(starting)
  <2>1. starting \in Saves /\ starting \in Statements
    BY DEF Write, TypeOK, Statements
  <2> QED BY <2>1, KindOf
<1>2. CASE IsLatest(starting)
  <2>1. fifo' = Append(fifo, starting) /\ running' = running
    BY <1>2 DEF Write
  <2>2. InFlight' = InFlight \cup {starting}
    BY <1>1, <2>1, AppendFlight
  <2> QED BY <1>1, <1>2, <2>2 DEF Of, Starts, Write
<1>3. CASE ~IsLatest(starting)
  <2>1. InFlight' = InFlight
    BY <1>3 DEF Write, InFlight
  <2> QED BY <1>3, <2>1 DEF Of
<1> QED BY <1>2, <1>3

\* A statement that is tried again, or through, is the same save as before.
LEMMA TryFlight ==
  ASSUME TypeOK, NEW r \in running, Execute(r) \/ Break(r) \/ Fail(r), NEW k \in Keys
  PROVE  /\ \A j \in Of(k)' : \E i \in Of(k) : Alike(i, j)
         /\ \A i \in Of(k) : \E j \in Of(k)' : Alike(i, j)
         /\ Repairing' => Repairing
<1> DEFINE h == [r.job EXCEPT !.retry = @ + 1]
<1>0. r.job \in Statements /\ r.job \in InFlight /\ fifo \in Seq(Statements)
  BY Flight DEF TypeOK, Statements
<1>1. CASE Through(r) /\ fifo' = fifo
  <2> DEFINE y == [r EXCEPT !.at = "callback"]
  <2>0. y.job = r.job
    BY DEF TypeOK
  <2> HIDE DEF y
  <2>1. running' = (running \ {r}) \cup {x \in {y} : IsSave(r.job)}
    BY <1>1 DEF Through, y
  <2>2. ASSUME NEW j, IsSave(j) PROVE j \in {x.job : x \in running'} <=> j \in {x.job : x \in running}
    BY <2>0, <2>1, <2>2
  <2>3. ASSUME NEW j, IsSave(j) PROVE j \in InFlight' <=> j \in InFlight
    BY <1>1, <2>2, <2>3 DEF InFlight
  <2>4. Of(k)' = Of(k)
    BY <2>3 DEF Of
  <2>5. InFlight' \subseteq InFlight
    BY <1>1, <2>0, <2>1 DEF InFlight
  <2> QED BY <2>4, <2>5 DEF Alike, Repairing
<1>2. CASE running' = running \ {r} /\ fifo' = Append(fifo, h)
  <2>1. h \in Statements /\ (IsSave(h) <=> IsSave(r.job)) /\ (IsSave(r.job) => Alike(r.job, h))
    BY <1>0, Again
  <2> HIDE DEF h
  <2>2. /\ Len(fifo') = Len(fifo) + 1 /\ Len(fifo) \in Nat
        /\ \A i \in 1..Len(fifo') : fifo'[i] = IF i = Len(fifo) + 1 THEN h ELSE fifo[i]
    BY <1>0, <1>2, <2>1, Queue
  <2>3. {fifo'[i] : i \in 1..Len(fifo')} = {fifo[i] : i \in 1..Len(fifo)} \cup {h}
    <3>1. ASSUME NEW i \in 1..Len(fifo) PROVE i \in 1..Len(fifo') /\ fifo'[i] = fifo[i]
      BY <2>2
    <3>2. Len(fifo') \in 1..Len(fifo') /\ fifo'[Len(fifo')] = h
      BY <2>2
    <3>3. ASSUME NEW i \in 1..Len(fifo'), fifo'[i] # h PROVE i \in 1..Len(fifo) /\ fifo'[i] = fifo[i]
      BY <2>2, <3>3
    <3> QED BY <3>1, <3>2, <3>3
  <2>4. /\ InFlight' \subseteq InFlight \cup {h} /\ h \in InFlight'
        /\ \A i \in InFlight : i = r.job \/ i \in InFlight'
    BY <1>2, <2>3 DEF InFlight
  <2>5. ASSUME NEW j \in Of(k)' PROVE \E i \in Of(k) : Alike(i, j)
    <3>1. CASE j = h
      BY <1>0, <2>1, <2>5, <3>1 DEF Of, Alike
    <3>2. CASE j # h
      BY <2>4, <2>5, <3>2 DEF Of, Alike
    <3> QED BY <3>1, <3>2
  <2>6. ASSUME NEW i \in Of(k) PROVE \E j \in Of(k)' : Alike(i, j)
    <3>1. CASE i = r.job
      <4>1. h \in Of(k)' /\ Alike(i, h)
        BY <2>1, <2>4, <2>6, <3>1 DEF Of, Alike
      <4> QED BY <4>1
    <3>2. CASE i # r.job
      <4>1. i \in Of(k)'
        BY <2>4, <2>6, <3>2 DEF Of
      <4> QED BY <4>1 DEF Alike
    <3> QED BY <3>1, <3>2
  <2>7. Repairing' => Repairing
    BY <1>0, <2>1, <2>4 DEF Repairing
  <2> QED BY <2>5, <2>6, <2>7
<1> QED BY <1>1, <1>2 DEF Execute, Break, Fail

LEMMA LeaveOf ==
  ASSUME TypeOK, NEW r \in running, Drop(r) \/ Finalize(r), NEW k \in Keys
  PROVE  /\ Of(k)' \subseteq Of(k) /\ \A j \in Of(k) : j = r.job \/ j \in Of(k)'
         /\ Repairing' => Repairing
<1>1. InFlight' \subseteq InFlight /\ \A j \in InFlight : j = r.job \/ j \in InFlight'
  BY LeaveFlight DEF Drop, Finalize
<1> QED BY <1>1 DEF Of, Repairing

\* The other steps change nothing about the saves.
LEMMA SameOf ==
  ASSUME TypeOK, NEW k \in Keys,
         RepairAll \/ Pop \/ (\E x \in Keys : Login(x)) \/ UNCHANGED vars
  PROVE  Of(k)' = Of(k)
<1>1. CASE RepairAll
  <2> DEFINE s == [set |-> "durability", retry |-> 0]
  <2>1. s \in Repairs /\ s \in Statements
    BY DEF Repairs, Statements
  <2>2. ~IsSave(s)
    BY DEF IsSave
  <2>3. InFlight' = InFlight \cup {s}
    <3>1. fifo' = Append(fifo, s) /\ running' = running
      BY <1>1 DEF RepairAll
    <3> HIDE DEF s
    <3> QED BY <2>1, <3>1, AppendFlight
  <2> HIDE DEF s
  <2> QED BY <2>2, <2>3 DEF Of
<1>2. CASE Pop
  BY <1>2, PopFlight DEF Of
<1>3. ASSUME NEW x \in Keys, Login(x) PROVE Of(k)' = Of(k)
  BY <1>3 DEF Login, Of, InFlight
<1>4. CASE UNCHANGED vars
  BY <1>4 DEF vars, Of, InFlight
<1> QED BY <1>1, <1>2, <1>3, <1>4

LEMMA CrashOf ==
  ASSUME Crash, NEW k \in Keys
  PROVE  Of(k)' = {} /\ ~Repairing' /\ ~Starts(k)'
<1>1. InFlight' = {}
  BY DEF Crash, InFlight
<1> QED BY <1>1 DEF Crash, Of, Repairing, Starts

-----------------------------------------------------------------------------
\* The save that carries the entry changes its place, but stays under way until
\* the entry is removed. Only a save that is dropped leaves an entry behind.
LEMMA StepEntry ==
  ASSUME TypeOK, EntryHasSave, [Next]_vars
  PROVE  EntryHasSave'
<1> SUFFICES ASSUME NEW k \in Keys, pending'[k] # 0, k \notin dropped'
             PROVE  \/ Starts(k)' /\ starting'.serial = pending'[k]
                    \/ \E j \in Of(k)' : j.serial = pending'[k]
  BY DEF EntryHasSave
<1> DEFINE Goal == \/ Starts(k)' /\ starting'.serial = pending'[k]
                   \/ \E j \in Of(k)' : j.serial = pending'[k]
\* The entry is the one before, and the saves are alike.
<1>a. ASSUME pending'[k] = pending[k], dropped' = dropped, starting' = starting,
             \A i \in Of(k) : i.serial = pending[k] => \E j \in Of(k)' : Alike(i, j)
      PROVE  Goal
  <2>1. \/ Starts(k) /\ starting.serial = pending[k]
        \/ \E i \in Of(k) : i.serial = pending[k]
    BY <1>a DEF EntryHasSave
  <2>2. CASE Starts(k) /\ starting.serial = pending[k]
    BY <1>a, <2>2 DEF Starts
  <2>3. ASSUME NEW i \in Of(k), i.serial = pending[k] PROVE Goal
    BY <1>a, <2>3 DEF Alike
  <2> QED BY <2>1, <2>2, <2>3
<1>1. ASSUME NEW x \in Keys, NEW it \in Items, Saved(x, it) PROVE Goal
  <2>1. /\ starting = NoJob /\ starting' # NoJob /\ starting'.key = x /\ starting'.serial = pending[x] + 1
        /\ pending' = [pending EXCEPT ![x] = @ + 1] /\ dropped' = dropped /\ Of(k)' = Of(k)
    BY <1>1, SaveStarts
  <2>2. CASE k = x
    BY <2>1, <2>2 DEF Starts, TypeOK
  <2>3. CASE k # x
    <3>1. pending'[k] = pending[k]
      BY <2>1, <2>3 DEF TypeOK
    <3> QED BY <2>1, <3>1 DEF EntryHasSave, Starts
  <2> QED BY <2>2, <2>3
<1>2. CASE RepairAll \/ Pop \/ (\E x \in Keys : Login(x)) \/ UNCHANGED vars
  <2>1. Of(k)' = Of(k)
    BY <1>2, SameOf
  <2>2. pending' = pending /\ dropped' = dropped /\ starting' = starting
    BY <1>2 DEF RepairAll, Pop, Login, vars, ghosts
  <2> QED BY <1>a, <2>1, <2>2 DEF Alike
<1>3. CASE Write
  <2>1. pending' = pending /\ dropped' = dropped
    BY <1>3 DEF Write
  <2>2. CASE Starts(k) /\ starting.serial = pending[k]
    BY <1>3, <2>1, <2>2, WriteFlight DEF Starts, IsLatest
  <2>3. CASE \E i \in Of(k) : i.serial = pending[k]
    BY <1>3, <2>1, <2>3, WriteFlight
  <2> QED BY <2>1, <2>2, <2>3 DEF EntryHasSave
<1>4. CASE Crash
  BY <1>4 DEF Crash
<1>5. ASSUME NEW r \in running, Execute(r) \/ Break(r) \/ Fail(r) PROVE Goal
  <2>1. pending' = pending /\ dropped' = dropped /\ starting' = starting
    BY <1>5 DEF Execute, Break, Fail, ghosts
  <2> QED BY <1>5, <1>a, <2>1, TryFlight
<1>6. ASSUME NEW r \in running, Drop(r) PROVE Goal
  <2>1. pending' = pending /\ dropped' = dropped \cup KeyOf(r.job) /\ starting' = starting
    BY <1>6 DEF Drop
  <2>2. r.job \notin Of(k)
    BY <2>1 DEF KeyOf, Of
  <2>3. \A i \in Of(k) : i \in Of(k)'
    BY <1>6, <2>2, LeaveOf
  <2>4. \/ Starts(k) /\ starting.serial = pending[k]
        \/ \E i \in Of(k) : i.serial = pending[k]
    BY <2>1 DEF EntryHasSave
  <2> QED BY <2>1, <2>3, <2>4 DEF Starts
<1>7. ASSUME NEW r \in running, Finalize(r) PROVE Goal
  <2>1. dropped' = dropped /\ starting' = starting
    BY <1>7 DEF Finalize
  <2>2. pending'[k] = pending[k] /\ (r.job.key = k => r.job.serial # pending[k])
    BY <1>7 DEF Finalize, ConsumeLatest, TypeOK
  <2>3. \A i \in Of(k) : i = r.job \/ i \in Of(k)'
    BY <1>7, LeaveOf
  <2>4. \A i \in Of(k) : i.serial = pending[k] => i \in Of(k)'
    BY <2>2, <2>3 DEF Of
  <2> QED BY <1>a, <2>1, <2>2, <2>4 DEF Alike
<1> QED BY <1>1, <1>2, <1>3, <1>4, <1>5, <1>6, <1>7, StepKinds

\* A save is in one place: it is not among the others of the queue or the workers
\* when it is added to them.
LEMMA StepApart ==
  ASSUME TypeOK, Workers, Counted, Apart, [Next]_vars
  PROVE  Apart'
<1>a. fifo \in Seq(Statements) /\ running \subseteq [job : Statements, at : {"exec", "callback"}]
  BY DEF TypeOK, Statements
\* A statement is added that is the same save as none of those that stay.
<1>b. ASSUME NEW s \in Statements, fifo' = Append(fifo, s), running' \subseteq running,
             \A i \in 1..Len(fifo) : ~SameSave(fifo[i], s),
             \A r \in running' : ~SameSave(s, r.job)
      PROVE  Apart'
  <2>1. /\ Len(fifo') = Len(fifo) + 1 /\ Len(fifo) \in Nat
        /\ \A i \in 1..Len(fifo') : fifo'[i] = IF i = Len(fifo) + 1 THEN s ELSE fifo[i]
    BY <1>a, <1>b, Queue
  <2>2. ASSUME NEW i \in 1..Len(fifo'), NEW j \in 1..Len(fifo'), SameSave(fifo'[i], fifo'[j])
        PROVE  i = j
    <3>1. \A n \in 1..Len(fifo) : ~SameSave(s, fifo[n])
      BY <1>b DEF SameSave
    <3>2. CASE i \in 1..Len(fifo) /\ j \in 1..Len(fifo)
      BY <2>1, <2>2, <3>2 DEF Apart
    <3>3. CASE i = Len(fifo) + 1 /\ j \in 1..Len(fifo)
      BY <2>1, <2>2, <3>1, <3>3
    <3>4. CASE i \in 1..Len(fifo) /\ j = Len(fifo) + 1
      BY <1>b, <2>1, <2>2, <3>4
    <3> QED BY <2>1, <3>2, <3>3, <3>4
  <2>3. ASSUME NEW i \in 1..Len(fifo'), NEW r \in running' PROVE ~SameSave(fifo'[i], r.job)
    <3>1. CASE i \in 1..Len(fifo)
      BY <1>b, <2>1, <3>1 DEF Apart
    <3>2. CASE i = Len(fifo) + 1
      BY <1>b, <2>1, <3>2
    <3> QED BY <2>1, <3>1, <3>2
  <2>4. \A r, s_1 \in running' : SameSave(r.job, s_1.job) => r = s_1
    BY <1>b DEF Apart
  <2> QED BY <2>2, <2>3, <2>4 DEF Apart
<1>c. ASSUME fifo' = fifo, running' \subseteq running PROVE Apart'
  BY <1>c DEF Apart
<1>1. ASSUME NEW k \in Keys, NEW it \in Items, Saved(k, it) PROVE Apart'
  BY <1>1, <1>c, SaveStarts
<1>2. CASE RepairAll
  <2> DEFINE s == [set |-> "durability", retry |-> 0]
  <2>1. s \in Statements /\ ~IsSave(s)
    BY DEF Repairs, Statements, IsSave
  <2>2. fifo' = Append(fifo, s) /\ running' = running
    BY <1>2 DEF RepairAll
  <2> HIDE DEF s
  <2> QED BY <1>b, <2>1, <2>2 DEF SameSave
<1>3. CASE Write
  <2>1. starting \in Saves /\ starting \in Statements /\ starting # NoJob /\ running' = running
    BY <1>3 DEF Write, TypeOK, Statements
  <2>2. CASE fifo' = Append(fifo, starting)
    <3>1. \A j \in InFlight : ~SameSave(j, starting)
      <4>1. \A j \in Of(starting.key) : j.n # starting.n
        BY <2>1 DEF Counted, Starts, Saves
      <4> QED BY <4>1 DEF Of, SameSave
    <3>2. \A j \in InFlight : ~SameSave(starting, j)
      BY <3>1 DEF SameSave
    <3> QED BY <1>b, <2>1, <2>2, <3>1, <3>2, Flight
  <2> QED BY <1>3, <1>c, <2>1, <2>2 DEF Write
<1>4. CASE Pop
  <2> DEFINE x == [job |-> Head(fifo), at |-> "exec"]
  <2>1. fifo # <<>> /\ fifo' = Tail(fifo) /\ running' = running \cup {x}
    BY <1>4 DEF Pop
  <2>2. /\ Len(fifo') = Len(fifo) - 1 /\ Len(fifo) >= 1 /\ Len(fifo) \in Nat /\ Head(fifo) = fifo[1]
        /\ \A i \in 1..Len(fifo') : fifo'[i] = fifo[i + 1]
    <3>1. Head(fifo) \in Statements
      BY <1>a, <2>1
    <3> QED BY <1>a, <2>1, <3>1, Queue
  <2>3. x.job = fifo[1] /\ 1 \in 1..Len(fifo)
    BY <2>2
  <2> HIDE DEF x
  <2>4. ASSUME NEW i \in 1..Len(fifo') PROVE fifo'[i] = fifo[i + 1] /\ i + 1 \in 1..Len(fifo) /\ i + 1 # 1
    BY <2>2
  <2>5. ASSUME NEW i \in 1..Len(fifo'), NEW j \in 1..Len(fifo'), SameSave(fifo'[i], fifo'[j])
        PROVE  i = j
    <3>1. i + 1 = j + 1
      BY <2>4, <2>5 DEF Apart
    <3> QED BY <2>2, <3>1
  <2>6. ASSUME NEW i \in 1..Len(fifo'), NEW r \in running' PROVE ~SameSave(fifo'[i], r.job)
    BY <2>1, <2>3, <2>4 DEF Apart
  <2>7. ASSUME NEW r \in running, SameSave(r.job, x.job) \/ SameSave(x.job, r.job) PROVE FALSE
    <3>1. SameSave(fifo[1], r.job)
      BY <2>3, <2>7 DEF SameSave
    <3> QED BY <2>3, <3>1 DEF Apart
  <2>8. \A r, s \in running' : SameSave(r.job, s.job) => r = s
    BY <2>1, <2>7 DEF Apart
  <2> QED BY <2>5, <2>6, <2>8 DEF Apart
<1>5. CASE Crash
  BY <1>5 DEF Crash, Apart
<1>6. ASSUME NEW r \in running, Through(r), fifo' = fifo PROVE Apart'
  <2> DEFINE y == [r EXCEPT !.at = "callback"]
  <2>1. y.job = r.job
    BY <1>a
  <2> HIDE DEF y
  <2>2. running' \subseteq (running \ {r}) \cup {y}
    BY <1>6 DEF Through, y
  <2> QED BY <1>6, <2>1, <2>2 DEF Apart
<1>7. ASSUME NEW r \in running, running' = running \ {r}, fifo' = Append(fifo, [r.job EXCEPT !.retry = @ + 1])
      PROVE  Apart'
  <2> DEFINE h == [r.job EXCEPT !.retry = @ + 1]
  <2>1. h \in Statements /\ (IsSave(h) <=> IsSave(r.job)) /\ (IsSave(r.job) => Alike(r.job, h))
    BY <1>a, Again
  <2>2. fifo' = Append(fifo, h)
    BY <1>7
  <2> HIDE DEF h
  <2>3. \A i \in 1..Len(fifo) : ~SameSave(fifo[i], h)
    BY <2>1 DEF Apart, SameSave, Alike
  <2>4. \A x \in running' : ~SameSave(h, x.job)
    BY <1>7, <2>1 DEF Apart, SameSave, Alike
  <2> QED BY <1>7, <1>b, <2>1, <2>2, <2>3, <2>4
<1>8. ASSUME NEW r \in running, Execute(r) \/ Break(r) \/ Fail(r) \/ Drop(r) \/ Finalize(r) PROVE Apart'
  BY <1>6, <1>7, <1>8, <1>c DEF Execute, Break, Fail, Drop, Finalize
<1>9. ASSUME NEW k \in Keys, Login(k) PROVE Apart'
  BY <1>9, <1>c DEF Login
<1>10. CASE UNCHANGED vars
  BY <1>10, <1>c DEF vars
<1> QED BY <1>1, <1>2, <1>3, <1>4, <1>5, <1>8, <1>9, <1>10, StepKinds

-----------------------------------------------------------------------------
\* The numbers of what is under way.
LEMMA Numbers ==
  ASSUME TypeOK, NEW k \in Keys, NEW j \in Of(k)
  PROVE  j \in Saves /\ j.key = k /\ j.n \in Nat /\ j.serial \in Nat /\ j.item \in Items
BY Flight DEF Saves

LEMMA StepCounted ==
  ASSUME TypeOK, Workers, Counted, Apart, [Next]_vars
  PROVE  Counted'
<1> SUFFICES ASSUME NEW k \in Keys
             PROVE  /\ last'[k] <= born'[k]
                    /\ \A j \in Of(k)' : j.n <= born'[k] /\ j.n # last'[k]
                    /\ Starts(k)' => /\ starting'.n = born'[k] /\ last'[k] < born'[k]
                                     /\ \A j \in Of(k)' : j.n # born'[k]
  BY DEF Counted
<1> DEFINE Goal == /\ last'[k] <= born'[k]
                   /\ \A j \in Of(k)' : j.n <= born'[k] /\ j.n # last'[k]
                   /\ Starts(k)' => /\ starting'.n = born'[k] /\ last'[k] < born'[k]
                                    /\ \A j \in Of(k)' : j.n # born'[k]
<1>0. /\ last[k] \in Nat /\ born[k] \in Nat /\ last[k] <= born[k]
      /\ \A j \in Of(k) : j.n <= born[k] /\ j.n # last[k] /\ j.n \in Nat
      /\ Starts(k) => starting.n = born[k] /\ last[k] < born[k] /\ \A j \in Of(k) : j.n # born[k]
  BY Numbers DEF Counted, TypeOK
<1>a. ASSUME born' = born, last' = last, Starts(k)' => Starts(k) /\ starting' = starting,
             \A j \in Of(k)' : \E i \in Of(k) : Alike(i, j)
      PROVE  Goal
  BY <1>0, <1>a DEF Alike
<1>1. ASSUME NEW x \in Keys, NEW it \in Items, Saved(x, it) PROVE Goal
  <2>1. /\ starting = NoJob /\ starting'.key = x /\ starting'.n = born[x] + 1
        /\ born' = [born EXCEPT ![x] = @ + 1] /\ last' = last /\ Of(k)' = Of(k)
    BY <1>1, SaveStarts
  <2>2. born'[k] = IF k = x THEN born[k] + 1 ELSE born[k]
    BY <2>1 DEF TypeOK
  <2> QED BY <1>0, <2>1, <2>2 DEF Starts
<1>2. CASE RepairAll \/ Pop \/ (\E x \in Keys : Login(x)) \/ UNCHANGED vars
  <2>1. Of(k)' = Of(k)
    BY <1>2, SameOf
  <2>2. born' = born /\ last' = last /\ starting' = starting
    BY <1>2 DEF RepairAll, Pop, Login, vars, ghosts
  <2> QED BY <1>a, <2>1, <2>2 DEF Alike, Starts
<1>3. CASE Write
  <2>1. born' = born /\ last' = last /\ ~Starts(k)'
    BY <1>3 DEF Write, Starts
  <2>2. Of(k)' = Of(k) \/ (Starts(k) /\ Of(k)' = Of(k) \cup {starting})
    BY <1>3, WriteFlight
  <2> QED BY <1>0, <2>1, <2>2
<1>4. CASE Crash
  <2>1. Of(k)' = {} /\ ~Starts(k)'
    BY <1>4, CrashOf
  <2> QED BY <1>0, <1>4, <2>1 DEF Crash, ghosts
<1>5. ASSUME NEW r \in running, Execute(r) \/ Break(r) \/ Fail(r) PROVE Goal
  <2>1. born' = born /\ last' = last /\ starting' = starting
    BY <1>5 DEF Execute, Break, Fail, ghosts
  <2> QED BY <1>5, <1>a, <2>1, TryFlight DEF Starts
<1>6. ASSUME NEW r \in running, Drop(r) PROVE Goal
  <2>1. born' = born /\ last' = last /\ starting' = starting
    BY <1>6 DEF Drop
  <2> QED BY <1>6, <1>a, <2>1, LeaveOf DEF Starts, Alike
<1>7. ASSUME NEW r \in running, Finalize(r) PROVE Goal
  <2>0. IsSave(r.job) /\ r.job \in InFlight
    BY <1>7, Flight DEF Finalize, Workers
  <2>1. born' = born /\ starting' = starting
    BY <1>7 DEF Finalize
  <2>2. last'[k] = IF r.job.key = k /\ r.job.n > last[k] THEN r.job.n ELSE last[k]
    BY <1>7 DEF Finalize, TypeOK
  <2>3. r.job.key = k => r.job \in Of(k)
    BY <2>0 DEF Of
  <2>4. ASSUME NEW j \in Of(k)' PROVE j \in Of(k) /\ (r.job.key = k => j.n # r.job.n)
    <3>1. j \in Of(k)
      BY <1>7, LeaveOf
    <3>2. IsSave(j) /\ j.key = k /\ j \in InFlight'
      BY DEF Of
    <3>3. fifo' = fifo /\ running' = running \ {r}
      BY <1>7 DEF Finalize
    <3>4. (\E i \in 1..Len(fifo) : j = fifo[i]) \/ (\E s \in running \ {r} : j = s.job)
      BY <3>2, <3>3 DEF InFlight
    <3>5. ~SameSave(j, r.job)
      BY <3>4 DEF Apart
    <3> QED BY <2>0, <3>1, <3>2, <3>5 DEF SameSave
  <2> QED BY <1>0, <2>1, <2>2, <2>3, <2>4 DEF Starts
<1> QED BY <1>1, <1>2, <1>3, <1>4, <1>5, <1>6, <1>7, StepKinds

\* Only the removal of the entry by an older save than the last one finalized
\* makes its serial free while a younger save is under way.
LEMMA StepYoungest ==
  ASSUME TypeOK, Workers, Counted, EntryIsYoungest, [Next]_vars
  PROVE  EntryIsYoungest'
<1> SUFFICES ASSUME NEW k \in Keys, k \notin inverted'
             PROVE  /\ \A j \in Of(k)' : j.n > last'[k] =>
                         /\ pending'[k] # 0 /\ j.serial <= pending'[k]
                         /\ j.serial = pending'[k] <=> j.n = born'[k]
                    /\ Starts(k)' => pending'[k] = starting'.serial /\ starting'.serial # 0
  BY DEF EntryIsYoungest
<1> DEFINE Goal == /\ \A j \in Of(k)' : j.n > last'[k] =>
                         /\ pending'[k] # 0 /\ j.serial <= pending'[k]
                         /\ j.serial = pending'[k] <=> j.n = born'[k]
                   /\ Starts(k)' => pending'[k] = starting'.serial /\ starting'.serial # 0
<1>i. k \notin inverted
  <2>1. inverted \subseteq inverted'
    <3>1. ASSUME NEW r \in running, Finalize(r) PROVE inverted \subseteq inverted'
      BY <3>1 DEF Finalize
    <3>2. ASSUME NEW r \in running, Execute(r) \/ Break(r) \/ Fail(r) \/ Drop(r) PROVE inverted' = inverted
      BY <3>2 DEF Execute, Break, Fail, Drop, ghosts
    <3>3. ASSUME RepairAll \/ Write \/ Pop \/ Crash \/ UNCHANGED vars PROVE inverted' = inverted
      BY <3>3 DEF RepairAll, Write, Pop, Crash, vars, ghosts
    <3>4. ASSUME NEW x \in Keys, Login(x) \/ \E it \in Items : Saved(x, it) PROVE inverted' = inverted
      BY <3>4 DEF Login, Saved, Save
    <3> QED BY <3>1, <3>2, <3>3, <3>4, StepKinds
  <2> QED BY <2>1
<1>0. /\ last[k] \in Nat /\ born[k] \in Nat /\ pending[k] \in Nat /\ last[k] <= born[k]
      /\ \A j \in Of(k) : j.n <= born[k] /\ j.n # last[k] /\ j.n \in Nat /\ j.serial \in Nat
      /\ \A j \in Of(k) : j.n > last[k] =>
           /\ pending[k] # 0 /\ j.serial <= pending[k]
           /\ j.serial = pending[k] <=> j.n = born[k]
  BY <1>i, Numbers DEF Counted, TypeOK, EntryIsYoungest
<1>s. Starts(k) => /\ pending[k] = starting.serial /\ starting.serial # 0
                   /\ starting.n = born[k] /\ last[k] < born[k] /\ \A j \in Of(k) : j.n # born[k]
  BY <1>i DEF Counted, EntryIsYoungest
<1>a. ASSUME born' = born, last' = last, pending' = pending,
             Starts(k)' => Starts(k) /\ starting' = starting,
             \A j \in Of(k)' : \E i \in Of(k) : Alike(i, j)
      PROVE  Goal
  BY <1>0, <1>s, <1>a DEF Alike
<1>1. ASSUME NEW x \in Keys, NEW it \in Items, Saved(x, it) PROVE Goal
  <2>1. /\ starting = NoJob /\ starting'.key = x /\ starting'.serial = pending[x] + 1
        /\ born' = [born EXCEPT ![x] = @ + 1] /\ pending' = [pending EXCEPT ![x] = @ + 1]
        /\ last' = last /\ Of(k)' = Of(k)
    BY <1>1, SaveStarts
  <2>2. /\ born'[k] = IF k = x THEN born[k] + 1 ELSE born[k]
        /\ pending'[k] = IF k = x THEN pending[k] + 1 ELSE pending[k]
    BY <2>1 DEF TypeOK
  <2> QED BY <1>0, <2>1, <2>2 DEF Starts
<1>2. CASE RepairAll \/ Pop \/ (\E x \in Keys : Login(x)) \/ UNCHANGED vars
  <2>1. Of(k)' = Of(k)
    BY <1>2, SameOf
  <2>2. born' = born /\ last' = last /\ starting' = starting /\ pending' = pending
    BY <1>2 DEF RepairAll, Pop, Login, vars, ghosts
  <2> QED BY <1>a, <2>1, <2>2 DEF Alike, Starts
<1>3. CASE Write
  <2>1. born' = born /\ last' = last /\ pending' = pending /\ ~Starts(k)'
    BY <1>3 DEF Write, Starts
  <2>2. Of(k)' = Of(k) \/ (Starts(k) /\ Of(k)' = Of(k) \cup {starting})
    BY <1>3, WriteFlight
  <2>3. Starts(k) => starting.serial \in Nat
    BY DEF Starts, TypeOK, Saves
  <2> QED BY <1>0, <1>s, <2>1, <2>2, <2>3
<1>4. CASE Crash
  BY <1>4, CrashOf
<1>5. ASSUME NEW r \in running, Execute(r) \/ Break(r) \/ Fail(r) PROVE Goal
  <2>1. born' = born /\ last' = last /\ starting' = starting /\ pending' = pending
    BY <1>5 DEF Execute, Break, Fail, ghosts
  <2> QED BY <1>5, <1>a, <2>1, TryFlight DEF Starts
<1>6. ASSUME NEW r \in running, Drop(r) PROVE Goal
  <2>1. born' = born /\ last' = last /\ starting' = starting /\ pending' = pending
    BY <1>6 DEF Drop
  <2> QED BY <1>6, <1>a, <2>1, LeaveOf DEF Starts, Alike
<1>7. ASSUME NEW r \in running, Finalize(r) PROVE Goal
  <2>0. IsSave(r.job) /\ r.job \in InFlight
    BY <1>7, Flight DEF Finalize, Workers
  <2>1. born' = born /\ starting' = starting
    BY <1>7 DEF Finalize
  <2>2. Of(k)' \subseteq Of(k)
    BY <1>7, LeaveOf
  <2>3. CASE r.job.key # k
    <3>1. last'[k] = last[k] /\ pending'[k] = pending[k]
      BY <1>7, <2>3 DEF Finalize, ConsumeLatest, TypeOK
    <3> QED BY <1>0, <1>s, <2>1, <2>2, <3>1 DEF Starts
  <2>4. CASE r.job.key = k
    <3>1. r.job \in Of(k)
      BY <2>0, <2>4 DEF Of
    <3>2. r.job.n > last[k]
      <4>1. ~(r.job.n < last[k])
        BY <1>7, <2>4 DEF Finalize
      <4> QED BY <1>0, <3>1, <4>1
    <3>3. last'[k] = r.job.n
      BY <1>7, <2>4, <3>2 DEF Finalize, TypeOK
    <3>4. pending'[k] = IF r.job.serial = pending[k] THEN 0 ELSE pending[k]
      BY <1>7, <2>4 DEF Finalize, ConsumeLatest, TypeOK
    <3> QED BY <1>0, <1>s, <2>1, <2>2, <3>1, <3>2, <3>3, <3>4 DEF Starts
  <2> QED BY <2>3, <2>4
<1> QED BY <1>1, <1>2, <1>3, <1>4, <1>5, <1>6, <1>7, StepKinds

LEMMA StepSkip ==
  ASSUME TypeOK, EntryIsYoungest, SkipNeedsInversion, [Next]_vars
  PROVE  SkipNeedsInversion'
<1>1. ASSUME NEW k \in Keys, NEW it \in Items, Saved(k, it) PROVE SkipNeedsInversion'
  BY <1>1, SaveStarts DEF SkipNeedsInversion
<1>2. CASE Write
  <2>1. starting \in Saves /\ starting # NoJob /\ starting.key \in Keys /\ inverted' = inverted
    BY <1>2 DEF Write, TypeOK, Saves
  <2>2. CASE IsLatest(starting)
    BY <1>2, <2>1, <2>2 DEF Write, SkipNeedsInversion
  <2>3. CASE ~IsLatest(starting)
    <3>1. starting.key \in inverted
      BY <2>1, <2>3 DEF EntryIsYoungest, Starts, IsLatest
    <3> QED BY <1>2, <2>1, <3>1 DEF Write, SkipNeedsInversion
  <2> QED BY <2>2, <2>3
<1>3. ASSUME NEW r \in running, Finalize(r) PROVE SkipNeedsInversion'
  BY <1>3 DEF Finalize, SkipNeedsInversion
<1>4. ASSUME NEW r \in running, Execute(r) \/ Break(r) \/ Fail(r) \/ Drop(r) PROVE SkipNeedsInversion'
  BY <1>4 DEF Execute, Break, Fail, Drop, ghosts, SkipNeedsInversion
<1>5. ASSUME RepairAll \/ Pop \/ Crash \/ UNCHANGED vars PROVE SkipNeedsInversion'
  BY <1>5 DEF RepairAll, Pop, Crash, vars, ghosts, SkipNeedsInversion
<1>6. ASSUME NEW k \in Keys, Login(k) PROVE SkipNeedsInversion'
  BY <1>6 DEF Login, SkipNeedsInversion
<1> QED BY <1>1, <1>2, <1>3, <1>4, <1>5, <1>6, StepKinds

-----------------------------------------------------------------------------
(* The row *)

\* What a statement makes of the row of a key.
LEMMA WrittenRow ==
  ASSUME TypeOK, NEW j \in InFlight, Written(j), NEW k \in Keys
  PROVE  IF IsSave(j)
         THEN row'[k] = IF j.key = k THEN IF j.item.value = 0 THEN Absent ELSE j.item ELSE row[k]
         ELSE row'[k] = Repaired(row[k]) /\ Repairing
<1>1. CASE IsSave(j)
  <2>1. row' = [row EXCEPT ![j.key] = IF j.item.value = 0 THEN Absent ELSE j.item]
    BY <1>1 DEF Written
  <2> QED BY <1>1, <2>1 DEF TypeOK
<1>2. CASE ~IsSave(j)
  <2>1. row' = [x \in Keys |-> Repaired(row[x])]
    BY <1>2 DEF Written
  <2> QED BY <1>2, <2>1 DEF Repairing
<1> QED BY <1>1, <1>2

\* How rows and items compare.
LEMMA Compare ==
  ASSUME NEW r \in Items, NEW it \in Items, r.dur > 0
  PROVE  /\ SameItem(r, r)
         /\ Stored(it) \in Items /\ SameItem(IF it.value = 0 THEN Absent ELSE Stored(it), it)
         /\ Stored(it).value = it.value
         /\ SameItem(r, it) /\ AsNew(it) => AsNew(r) /\ SameItem(Repaired(r), it)
         /\ Repaired(r).dur > 0 /\ Absent.dur > 0
         /\ it.value = 0 \/ ~(it.dur < Full) => AsNew(it)
         /\ ~(it.value > 0 /\ Stored(it).dur < Full) => AsNew(it)
<1> USE SaveAssumption
<1>1. /\ r.dur \in 1..Full /\ r.value \in Nat /\ it.dur \in 0..Full /\ it.value \in Nat
  BY DEF Items
<1>2. /\ Stored(it).value = it.value /\ Stored(it).dur = (IF it.dur > 0 THEN it.dur ELSE Full)
      /\ Stored(it) \in Items
      /\ Stored(r).dur = r.dur
      /\ Repaired(r).value = r.value /\ Repaired(r).dur = Full
  BY <1>1 DEF Stored, Items, Repaired
<1>3. SameItem(r, r) /\ Stored(it).value = it.value /\ Stored(it) \in Items
  BY <1>1, <1>2 DEF SameItem
<1>4. SameItem(IF it.value = 0 THEN Absent ELSE Stored(it), it)
  BY <1>1, <1>2 DEF SameItem, Absent
<1>5. SameItem(r, it) /\ AsNew(it) => AsNew(r) /\ SameItem(Repaired(r), it)
  BY <1>1, <1>2 DEF SameItem, AsNew
<1>6. /\ Repaired(r).dur > 0 /\ Absent.dur > 0
      /\ it.value = 0 \/ ~(it.dur < Full) => AsNew(it)
      /\ ~(it.value > 0 /\ Stored(it).dur < Full) => AsNew(it)
  BY <1>1, <1>2 DEF AsNew, Absent
<1> QED BY <1>3, <1>4, <1>5, <1>6

LEMMA StepSound ==
  ASSUME TypeOK, Sound, [Next]_vars
  PROVE  Sound'
<1> SUFFICES /\ \A k \in Keys : row'[k].dur > 0 /\ \A j \in Of(k)' : j.item.dur > 0
             /\ starting' # NoJob => starting'.item.dur > 0
  BY DEF Sound
<1> DEFINE Goal == /\ \A k \in Keys : row'[k].dur > 0 /\ \A j \in Of(k)' : j.item.dur > 0
                   /\ starting' # NoJob => starting'.item.dur > 0
<1>0. /\ \A k \in Keys : row[k].dur > 0 /\ \A j \in Of(k) : j.item.dur > 0
      /\ starting # NoJob => starting.item.dur > 0
  BY DEF Sound
<1>1. ASSUME NEW x \in Keys, NEW it \in Items, Saved(x, it) PROVE Goal
  BY <1>0, <1>1, SaveStarts
<1>2. CASE RepairAll \/ Pop \/ (\E x \in Keys : Login(x)) \/ UNCHANGED vars
  <2>1. \A k \in Keys : Of(k)' = Of(k)
    BY <1>2, SameOf
  <2>2. row' = row /\ starting' = starting
    BY <1>2 DEF RepairAll, Pop, Login, vars
  <2> QED BY <1>0, <2>1, <2>2
<1>3. CASE Write
  <2>1. \A k \in Keys : Of(k)' \subseteq Of(k) \cup {starting}
    BY <1>3, WriteFlight
  <2> QED BY <1>0, <1>3, <2>1 DEF Write
<1>4. CASE Crash
  <2>1. \A k \in Keys : Of(k)' = {}
    BY <1>4, CrashOf
  <2> QED BY <1>0, <1>4, <2>1 DEF Crash
<1>5. ASSUME NEW r \in running, Execute(r) \/ Break(r) \/ Fail(r) PROVE Goal
  <2>1. starting' = starting /\ (row' = row \/ Written(r.job))
    BY <1>5 DEF Execute, Break, Fail
  <2>2. \A k \in Keys : \A j \in Of(k)' : j.item.dur > 0
    BY <1>0, <1>5, TryFlight DEF Alike
  <2>3. ASSUME NEW k \in Keys, Written(r.job) PROVE row'[k].dur > 0
    <3>1. r.job \in InFlight /\ row[k] \in Items /\ row[k].dur > 0
      BY <1>0, Flight DEF TypeOK
    <3>2. Repaired(row[k]).dur > 0 /\ Absent.dur > 0
      BY <3>1, Compare
    <3>3. IsSave(r.job) /\ r.job.key = k => r.job.item.dur > 0
      BY <1>0, <3>1 DEF Of
    <3> QED BY <2>3, <3>1, <3>2, <3>3, WrittenRow
  <2> QED BY <1>0, <2>1, <2>2, <2>3
<1>6. ASSUME NEW r \in running, Drop(r) \/ Finalize(r) PROVE Goal
  <2>1. starting' = starting /\ row' = row
    BY <1>6 DEF Drop, Finalize
  <2> QED BY <1>0, <1>6, <2>1, LeaveOf
<1> QED BY <1>1, <1>2, <1>3, <1>4, <1>5, <1>6, StepKinds

LEMMA BlamedGrows ==
  ASSUME TypeOK, [Next]_vars
  PROVE  Blamed \subseteq Blamed'
<1>1. ASSUME NEW k \in Keys, NEW it \in Items, Saved(k, it) PROVE Blamed \subseteq Blamed'
  BY <1>1 DEF Saved, Save, Blamed
<1>2. ASSUME NEW k \in Keys, Login(k) PROVE Blamed \subseteq Blamed'
  BY <1>2 DEF Login, Blamed
<1>3. ASSUME RepairAll \/ Write \/ Pop \/ Crash \/ UNCHANGED vars PROVE Blamed \subseteq Blamed'
  BY <1>3 DEF RepairAll, Write, Pop, Crash, vars, ghosts, Blamed
<1>4. ASSUME NEW r \in running, Execute(r) \/ Break(r) \/ Fail(r) \/ Drop(r) \/ Finalize(r) PROVE Blamed \subseteq Blamed'
  BY <1>4 DEF Execute, Break, Fail, Drop, Finalize, ghosts, Blamed
<1> QED BY <1>1, <1>2, <1>3, <1>4, StepKinds

\* What RowFollows says of one item.
Followed(k) ==
  /\ \A j \in Of(k) : j.item = Stored(item[k])
  /\ Starts(k) => starting.item = Stored(item[k]) /\ Of(k) = {} /\ pending[k] = starting.serial
  /\ \A r \in running : /\ IsSave(r.job) /\ r.job.key = k /\ r.at = "callback"
                        /\ k \notin toMend
                        => SameItem(row[k], item[k])
  /\ Settled(k) => SameItem(row[k], item[k])
  /\ Repairing /\ k \notin toMend => AsNew(item[k])

\* As long as nothing of the item is under way when it changes, what is under way
\* is what the player has. A repair finds the item as new, or is about to make it
\* so.
LEMMA StepRow ==
  ASSUME TypeOK, Workers, Sound, RowFollows, [Next]_vars
  PROVE  RowFollows'
<1> SUFFICES ASSUME NEW k \in Keys, k \notin Blamed' PROVE Followed(k)'
  BY DEF RowFollows, Followed
<1>0. /\ k \notin Blamed /\ Followed(k)
      /\ item[k] \in Items /\ row[k] \in Items /\ row[k].dur > 0
  BY BlamedGrows DEF RowFollows, Followed, TypeOK, Sound
<1>1. ASSUME NEW x \in Keys, NEW it \in Items, Saved(x, it) PROVE Followed(k)'
  <2>1. /\ starting = NoJob /\ starting'.key = x /\ starting'.item = Stored(it)
        /\ starting'.serial = pending[x] + 1 /\ starting' # NoJob
        /\ item' = [item EXCEPT ![x] = it] /\ pending' = [pending EXCEPT ![x] = @ + 1]
        /\ InFlight' = InFlight /\ Of(k)' = Of(k) /\ running' = running /\ row' = row
    BY <1>1, SaveStarts
  <2>2. Repairing' <=> Repairing
    BY <2>1 DEF Repairing
  <2>3. CASE k = x
    <3>1. item'[k] = it /\ pending'[k] = starting'.serial
      BY <2>1, <2>3 DEF TypeOK
    <3>2. Of(k) = {} /\ ~(Repairing /\ it.value > 0 /\ Stored(it).dur < Full)
      BY <1>1, <2>3 DEF Saved, Save, Blamed
    <3>3. Repairing => AsNew(it)
      BY <1>0, <3>2, Compare
    <3>4. \A r \in running : ~(IsSave(r.job) /\ r.job.key = k)
      BY <3>2, Flight DEF Of
    <3>5. Starts(k)' /\ ~Settled(k)'
      BY <2>1, <2>3 DEF Starts, Settled
    <3> QED BY <2>1, <2>2, <3>1, <3>2, <3>3, <3>4, <3>5 DEF Followed
  <2>4. CASE k # x
    <3>1. item'[k] = item[k] /\ ~Starts(k)' /\ (k \notin toMend' => k \notin toMend)
      BY <1>1, <2>1, <2>4 DEF TypeOK, Starts, Saved
    <3>2. Settled(k)' => Settled(k)
      BY <2>1, <3>1 DEF Settled
    <3> QED BY <1>0, <2>1, <2>2, <3>1, <3>2 DEF Followed
  <2> QED BY <2>3, <2>4
<1>2. CASE RepairAll
  <2>1. /\ toMend = {} /\ toMend' = {x \in Keys : item[x].value > 0 /\ item[x].dur < Full}
        /\ starting = NoJob /\ starting' = starting /\ item' = item /\ row' = row /\ running' = running
    BY <1>2 DEF RepairAll
  <2>2. Of(k)' = Of(k)
    BY <1>2, SameOf
  <2>3. k \notin toMend' => AsNew(item[k])
    <3>1. item[k].value \in Nat
      BY <1>0 DEF Items
    <3> QED BY <1>0, <2>1, <3>1, Compare
  <2>4. ~Starts(k)' /\ (Settled(k)' => Settled(k))
    BY <2>1, <2>2 DEF Settled, Starts
  <2> QED BY <1>0, <2>1, <2>2, <2>3, <2>4 DEF Followed
<1>3. CASE Write
  <2>1. /\ starting # NoJob /\ starting' = NoJob /\ pending' = pending /\ item' = item /\ toMend' = toMend
        /\ row' = row /\ running' = running
    BY <1>3 DEF Write
  <2>2. Of(k)' = Of(k) \cup (IF Starts(k) /\ IsLatest(starting) THEN {starting} ELSE {})
    BY <1>3, WriteFlight
  <2>3. Repairing' => Repairing
    <3>1. starting \in Statements /\ IsSave(starting)
      <4>1. starting \in Saves
        BY <2>1 DEF TypeOK
      <4> QED BY <4>1, KindOf DEF Statements
    <3>2. InFlight' \subseteq InFlight \cup {starting}
      <4>1. CASE fifo' = fifo
        BY <2>1, <4>1 DEF InFlight
      <4>2. CASE fifo' = Append(fifo, starting)
        BY <2>1, <3>1, <4>2, AppendFlight
      <4> QED BY <1>3, <4>1, <4>2 DEF Write
    <3> QED BY <3>1, <3>2 DEF Repairing
  <2>4. ~Starts(k)'
    BY <2>1 DEF Starts
  <2>5. CASE Starts(k)
    <3>1. IsLatest(starting) /\ Of(k)' = {starting} /\ starting.item = Stored(item[k])
      BY <1>0, <2>2, <2>5 DEF Followed, Starts, IsLatest
    <3>2. ~Settled(k)'
      BY <3>1 DEF Settled
    <3> QED BY <1>0, <2>1, <2>3, <2>4, <3>1, <3>2 DEF Followed
  <2>6. CASE ~Starts(k)
    <3>1. Of(k)' = Of(k) /\ (Settled(k)' => Settled(k))
      BY <2>1, <2>2, <2>6 DEF Settled, Starts
    <3> QED BY <1>0, <2>1, <2>3, <2>4, <3>1 DEF Followed
  <2> QED BY <2>5, <2>6
<1>4. CASE Pop
  <2>1. UNCHANGED <<item, pending, starting, toMend, row>> /\ Of(k)' = Of(k) /\ InFlight' = InFlight
    BY <1>4, PopFlight, SameOf DEF Pop
  <2>2. \A r \in running' : r \in running \/ r.at # "callback"
    BY <1>4 DEF Pop
  <2> QED BY <1>0, <2>1, <2>2 DEF Followed, Settled, Starts, Repairing
<1>5. CASE Crash
  <2>1. item' = row /\ row' = row /\ running' = {}
    BY <1>5 DEF Crash
  <2>2. Of(k)' = {} /\ ~Repairing' /\ ~Starts(k)'
    BY <1>5, CrashOf
  <2>3. SameItem(row[k], row[k])
    BY <1>0, Compare
  <2> QED BY <2>1, <2>2, <2>3 DEF Followed
<1>6. ASSUME NEW x \in Keys, Login(x) PROVE Followed(k)'
  <2>1. /\ starting = NoJob /\ toMend = {} /\ UNCHANGED <<pending, starting, toMend, fifo, running, row>>
        /\ Of(k)' = Of(k)
    BY <1>6, SameOf DEF Login
  <2>2. (Repairing' <=> Repairing) /\ ~Starts(k)'
    BY <2>1 DEF Repairing, InFlight, Starts
  <2>3. CASE k = x
    <3>1. item'[k] = row[k] /\ Of(k) = {}
      BY <1>6, <2>3 DEF Login, Blamed, TypeOK
    <3>2. Settled(k)
      BY <2>1, <3>1 DEF Settled
    <3>3. SameItem(row[k], row[k]) /\ (Repairing => AsNew(row[k]))
      BY <1>0, <2>1, <3>2, Compare DEF Followed
    <3> QED BY <2>1, <2>2, <3>1, <3>3 DEF Followed
  <2>4. CASE k # x
    <3>1. item'[k] = item[k] /\ (Settled(k)' => Settled(k))
      BY <1>6, <2>1, <2>4 DEF Login, Settled, TypeOK
    <3> QED BY <1>0, <2>1, <2>2, <3>1 DEF Followed
  <2> QED BY <2>3, <2>4
<1>7. ASSUME NEW r \in running, Execute(r) \/ Break(r) \/ Fail(r) PROVE Followed(k)'
  <2>1. UNCHANGED <<item, pending, starting, toMend>> /\ (row' = row \/ Written(r.job))
    BY <1>7 DEF Execute, Break, Fail, ghosts
  <2>2. /\ \A j \in Of(k)' : \E i \in Of(k) : Alike(i, j)
        /\ \A i \in Of(k) : \E j \in Of(k)' : Alike(i, j)
        /\ Repairing' => Repairing
    BY <1>7, TryFlight
  <2>3. r.job \in InFlight /\ (IsSave(r.job) /\ r.job.key = k => r.job \in Of(k) /\ r.job.item = Stored(item[k]))
    BY <1>0, Flight DEF Of, Followed
  <2>4. ASSUME SameItem(row[k], item[k]), k \notin toMend PROVE SameItem(row'[k], item[k])
    <3>1. CASE row' = row
      BY <2>4, <3>1
    <3>2. CASE Written(r.job) /\ ~IsSave(r.job)
      <4>1. row'[k] = Repaired(row[k]) /\ AsNew(item[k])
        BY <1>0, <2>3, <2>4, <3>2, WrittenRow DEF Followed
      <4> QED BY <1>0, <2>4, <4>1, Compare
    <3>3. CASE Written(r.job) /\ IsSave(r.job) /\ r.job.key # k
      BY <2>3, <2>4, <3>3, WrittenRow
    <3>4. CASE Written(r.job) /\ IsSave(r.job) /\ r.job.key = k
      <4>1. row'[k] = IF r.job.item.value = 0 THEN Absent ELSE r.job.item
        BY <2>3, <3>4, WrittenRow
      <4> QED BY <1>0, <2>3, <3>4, <4>1, Compare
    <3> QED BY <2>1, <3>1, <3>2, <3>3, <3>4
  <2>5. ASSUME IsSave(r.job), r.job.key = k, Written(r.job) PROVE SameItem(row'[k], item[k])
    <3>1. row'[k] = IF r.job.item.value = 0 THEN Absent ELSE r.job.item
      BY <2>3, <2>5, WrittenRow
    <3> QED BY <1>0, <2>3, <2>5, <3>1, Compare
  <2>6. ASSUME NEW s \in running', IsSave(s.job), s.job.key = k, s.at = "callback", k \notin toMend
        PROVE  SameItem(row'[k], item[k])
    <3>1. CASE s \in running
      BY <1>0, <2>4, <2>6, <3>1 DEF Followed
    <3>2. CASE s \notin running
      <4>1. Through(r) /\ s = [r EXCEPT !.at = "callback"]
        BY <1>7, <2>6, <3>2 DEF Execute, Break, Fail, Through
      <4>2. s.job = r.job
        BY <4>1 DEF TypeOK
      <4>3. CASE Execute(r)
        BY <2>5, <2>6, <4>2, <4>3 DEF Execute
      <4>4. CASE (Break(r) \/ Fail(r)) /\ failed' = failed \cup KeyOf(r.job)
        BY <2>6, <4>2, <4>4 DEF KeyOf, Blamed
      <4>5. CASE Break(r) /\ running' = running \ {r}
        BY <2>6, <3>2, <4>5
      <4> QED BY <1>7, <4>3, <4>4, <4>5 DEF Break, Fail
    <3> QED BY <3>1, <3>2
  <2>7. ASSUME Settled(k)' PROVE SameItem(row'[k], item[k])
    <3>1. Settled(k) /\ k \notin toMend
      BY <2>1, <2>2, <2>7 DEF Settled
    <3> QED BY <1>0, <2>4, <3>1 DEF Followed
  <2>8. /\ \A j \in Of(k)' : j.item = Stored(item[k])
        /\ Starts(k)' => starting.item = Stored(item[k]) /\ Of(k)' = {} /\ pending[k] = starting.serial
        /\ Repairing' /\ k \notin toMend => AsNew(item[k])
    BY <1>0, <2>1, <2>2 DEF Followed, Starts, Alike
  <2> QED BY <2>1, <2>6, <2>7, <2>8 DEF Followed, Starts
<1>8. ASSUME NEW r \in running, Drop(r) \/ Finalize(r) PROVE Followed(k)'
  <2>1. UNCHANGED <<item, starting, toMend, row>> /\ running' \subseteq running
    BY <1>8 DEF Drop, Finalize
  <2>2. /\ Of(k)' \subseteq Of(k) /\ \A j \in Of(k) : j = r.job \/ j \in Of(k)'
        /\ Repairing' => Repairing
    BY <1>8, LeaveOf
  <2>3. r.job \in Of(k) => r.at = "callback" /\ Finalize(r)
    BY <1>8 DEF Drop, Finalize, Blamed, KeyOf, Of
  <2>4. ASSUME Settled(k)' PROVE SameItem(row[k], item[k])
    <3>1. CASE Of(k) = {}
      <4>1. Settled(k)
        BY <2>1, <2>4, <3>1 DEF Settled
      <4> QED BY <1>0, <4>1 DEF Followed
    <3>2. CASE Of(k) # {}
      <4>1. r.job \in Of(k) /\ k \notin toMend
        BY <2>1, <2>2, <2>4, <3>2 DEF Settled
      <4>2. IsSave(r.job) /\ r.job.key = k
        BY <4>1 DEF Of
      <4> QED BY <1>0, <2>3, <4>1, <4>2 DEF Followed
    <3> QED BY <3>1, <3>2
  <2>5. Starts(k) => pending'[k] = pending[k]
    <3>1. ASSUME Starts(k), Finalize(r) PROVE pending'[k] = pending[k]
      <4>1. r.job.key # k
        <5>1. Of(k) = {}
          BY <1>0, <3>1 DEF Followed
        <5>2. r.job \in InFlight /\ IsSave(r.job)
          BY <3>1, Flight DEF Finalize, Workers
        <5> QED BY <5>1, <5>2 DEF Of
      <4> QED BY <3>1, <4>1 DEF Finalize, ConsumeLatest, TypeOK
    <3> QED BY <1>8, <3>1 DEF Drop
  <2> QED BY <1>0, <2>1, <2>2, <2>4, <2>5 DEF Followed, Starts
<1>9. CASE UNCHANGED vars
  <2>1. Of(k)' = Of(k) /\ UNCHANGED <<item, pending, starting, toMend, row, running>> /\ InFlight' = InFlight
    BY <1>9, SameOf DEF vars, InFlight
  <2> QED BY <1>0, <2>1 DEF Followed, Settled, Starts, Repairing
<1> QED BY <1>1, <1>2, <1>3, <1>4, <1>5, <1>6, <1>7, <1>8, <1>9, StepKinds

-----------------------------------------------------------------------------
LEMMA InitIInv == Init => IInv
<1> SUFFICES ASSUME Init PROVE IInv
  OBVIOUS
<1> USE SaveAssumption
<1>1. Absent \in Items /\ Absent.dur > 0
  BY DEF Absent, Items
<1>2. TypeOK
  BY <1>1, FS_EmptySet DEF Init, TypeOK
<1>3. Workers
  BY FS_EmptySet DEF Init, Workers
<1>4. InFlight = {} /\ starting = NoJob /\ running = {} /\ row = item /\ toMend = {}
  BY DEF Init, InFlight
<1>5. \A k \in Keys : row[k] = Absent /\ pending[k] = 0 /\ last[k] = 0 /\ born[k] = 0
  BY DEF Init
<1>6. \A k \in Keys : Of(k) = {} /\ ~Starts(k)
  BY <1>4 DEF Of, Starts
<1>7. ~Repairing
  BY <1>4 DEF Repairing
<1>8. Sound
  BY <1>1, <1>4, <1>5, <1>6 DEF Sound
<1>9. EntryHasSave /\ Counted /\ EntryIsYoungest
  BY <1>5, <1>6 DEF EntryHasSave, Counted, EntryIsYoungest
<1>10. Apart /\ SkipNeedsInversion
  BY DEF Init, Apart, SkipNeedsInversion
<1>11. SameItem(Absent, Absent)
  BY <1>1, Compare
<1>12. RowFollows
  BY <1>4, <1>5, <1>6, <1>7, <1>11 DEF RowFollows
<1> QED BY <1>2, <1>3, <1>8, <1>9, <1>10, <1>12 DEF IInv

\* The inductive invariant, from which the theorems below follow.
LEMMA Invariant == Spec => []IInv
<1>1. IInv /\ [Next]_vars => IInv'
  <2> SUFFICES ASSUME IInv, [Next]_vars PROVE IInv'
    OBVIOUS
  <2>1. TypeOK' /\ Workers' /\ EntryHasSave' /\ Apart' /\ Counted'
    BY StepTypes, StepEntry, StepApart, StepCounted DEF IInv
  <2>2. EntryIsYoungest' /\ SkipNeedsInversion' /\ Sound' /\ RowFollows'
    BY StepYoungest, StepSkip, StepSound, StepRow DEF IInv
  <2> QED BY <2>1, <2>2 DEF IInv
<1> QED BY <1>1, InitIInv, PTL DEF Spec

\* The variables have their types, and an entry of ms_PendingSerials is gone when
\* nothing of its item is under way, unless a worker without a connection dropped
\* the save together with its callback (DbInventorySave::OnFinalize, NextSerial).
THEOREM NoEntryIsLeaked == Spec => []NoLeakedSerial
<1>1. IInv => NoLeakedSerial
  BY DEF IInv, EntryHasSave, NoLeakedSerial, Settled, Starts
<1> QED BY <1>1, Invariant, PTL

\* DbInventorySave::OnWrite leaves a save out only when an older save of the same
\* item was finalized after a younger one, so that its serial was given again.
THEOREM SkipsNeedInversion == Spec => []SkipNeedsInversion
BY Invariant, PTL DEF IInv

\* The row of an item is what the player holds when nothing of the item is under
\* way, provided that no save of it started before the one before was through,
\* none was given up, and it was not loaded in between; repairs, which have no
\* serial and may be tried again at any time, change nothing about that.
THEOREM SettledRowsAreLatest == Spec => []SettledRowIsLatest
<1>1. IInv => SettledRowIsLatest
  BY DEF IInv, RowFollows, SettledRowIsLatest, Blamed
<1> QED BY <1>1, Invariant, PTL
=============================================================================
