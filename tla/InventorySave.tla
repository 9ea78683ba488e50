---------------------------- MODULE InventorySave ----------------------------
(***************************************************************************)
(* DbInventorySave of                                                       *)
(* src/src/game/server/core/components/inventory/item_data.cpp: how the     *)
(* item a player holds is written to tw_accounts_items. CPlayerItem::Save   *)
(* takes a serial for the (account, item) key, checks that it is still the  *)
(* latest, and hands an INSERT ... ON DUPLICATE KEY UPDATE or a DELETE to   *)
(* the SQL pool; the callback, on a worker thread, removes the serial.      *)
(* RepairDurabilityItems (inventory_manager.cpp) writes the durability of   *)
(* all rows of the account with an UPDATE of its own that has no serial,    *)
(* and then saves every worn item: toMend holds the items it, or the        *)
(* portable anvil, has not come to yet.                                     *)
(*                                                                         *)
(* The pool is what SqlPool shows it to be, without its locks: a queue that *)
(* several workers take from, whose statements finish in any order and go   *)
(* to the back of the queue when the connection breaks. Ghosts: born counts *)
(* the saves of a key, overlap and inverted record that two of its saves    *)
(* were under way at once, and that an older one was finalized after a      *)
(* younger one; failed and dropped that one was given up with and without   *)
(* its callback, skipped that one was not written, misread that the player  *)
(* was loaded from a row that was not up to date.                           *)
(***************************************************************************)
EXTENDS Naturals, Sequences, FiniteSets

CONSTANTS Keys,        \* (UserID, ItemID) pairs
          MaxValue,    \* bound: amounts of an item
          Full,        \* durability 100; the values in between stand for 1..99
          MaxSaves,    \* bound: saves of one key
          MaxRepairs,  \* bound: repairs of everything at the warehouse
          PoolSize,    \* worker threads, max(2, sv_sql_pool_size)
          DmlRetries,
          NoJob

ASSUME SaveAssumption == /\ MaxValue \in Nat /\ MaxSaves \in Nat /\ MaxRepairs \in Nat
                         /\ Full \in Nat \ {0}
                         /\ PoolSize \in Nat /\ DmlRetries \in Nat

VARIABLES item,     \* CPlayerItem: m_Value and m_Durability
          pending,  \* ms_PendingSerials; 0 when the key has no entry
          starting, \* the save the game thread is in, between serial and check
          toMend,   \* items whose durability it is about to set to 100
          fifo,     \* statements queued in the pool
          running,  \* statements on a worker: stage "exec", then "callback"
          row,      \* the youngest row of the key; Absent when there is none
          repairs, born, last, overlap, inverted, failed, dropped, skipped, misread

ghosts == <<repairs, born, last, overlap, inverted, failed, dropped, skipped, misread>>
vars == <<item, pending, starting, toMend, fifo, running, row, ghosts>>

Items == [value : 0..MaxValue, dur : 0..Full]
Saves == [key : Keys, item : Items, serial : Nat, n : Nat, retry : Nat]
Repairs == [set : {"durability"}, retry : Nat]
ASSUME NoJobAssumption == NoJob \notin Saves

Absent == [value |-> 0, dur |-> Full]

InFlight == {fifo[i] : i \in 1..Len(fifo)} \cup {r.job : r \in running}
IsSave(j) == "key" \in DOMAIN j
Of(k) == {j \in InFlight : IsSave(j) /\ j.key = k}
Repairing == \E j \in InFlight : ~IsSave(j)

\* The durability as Start writes it: an item that is broken is stored as new.
Stored(it) == [it EXCEPT !.dur = IF @ > 0 THEN @ ELSE Full]
\* The row says what the player has; of an item he does not have nothing is read.
SameItem(r, it) == r.value = it.value /\ (it.value > 0 => r.dur = Stored(it).dur)

Init == /\ item = [k \in Keys |-> Absent] /\ row = item
        /\ pending = [k \in Keys |-> 0]
        /\ starting = NoJob /\ toMend = {} /\ fifo = <<>> /\ running = {}
        /\ born = [k \in Keys |-> 0] /\ last = born /\ repairs = 0
        /\ overlap = {} /\ inverted = {} /\ failed = {} /\ dropped = {}
        /\ skipped = {} /\ misread = {}

-----------------------------------------------------------------------------
\* CPlayerItem changes and calls Save -> Start: NextSerial.
Save(k, it) ==
  /\ starting = NoJob /\ born[k] < MaxSaves
  /\ item' = [item EXCEPT ![k] = it]
  /\ pending' = [pending EXCEPT ![k] = @ + 1]
  /\ born' = [born EXCEPT ![k] = @ + 1]
  /\ starting' = [key |-> k, item |-> Stored(it), serial |-> pending'[k], n |-> born'[k], retry |-> 0]
  /\ overlap' = IF Of(k) # {} \/ (Repairing /\ it.value > 0 /\ Stored(it).dur < Full)
                THEN overlap \cup {k} ELSE overlap
  /\ UNCHANGED <<fifo, running, row, repairs, last, inverted, failed, dropped, skipped, misread>>

\* The amount changes, or a setting of the item does.
SetValue(k, v) ==
  /\ toMend = {}
  /\ Save(k, [item[k] EXCEPT !.value = v])
  /\ UNCHANGED toMend

\* A tool wears in use. When it breaks, the listener repairs it at once if the
\* portable anvil is equipped and there is material for it.
Wear(k) ==
  /\ toMend = {} /\ item[k].value > 0 /\ item[k].dur > 0
  /\ Save(k, [item[k] EXCEPT !.dur = @ - 1])
  /\ toMend' \in IF item[k].dur = 1 THEN {{}, {k}} ELSE {{}}

\* SetDurability(100) of an item that is next in the loop, or broken.
Mend(k) ==
  /\ k \in toMend
  /\ Save(k, [item[k] EXCEPT !.dur = Full])
  /\ toMend' = toMend \ {k}

\* Variant: the items in memory are not mended.
RepairRowsOnly ==
  /\ starting = NoJob /\ toMend = {} /\ repairs < MaxRepairs
  /\ repairs' = repairs + 1
  /\ fifo' = Append(fifo, [set |-> "durability", retry |-> 0])
  /\ toMend' = {}
  /\ UNCHANGED <<item, pending, starting, running, row, born, last, overlap,
                 inverted, failed, dropped, skipped, misread>>

\* RepairDurabilityItems: the UPDATE is queued, then the loop over the items.
\* SetDurability does nothing for an item the player has none of.
RepairAll ==
  /\ starting = NoJob /\ toMend = {} /\ repairs < MaxRepairs
  /\ repairs' = repairs + 1
  /\ fifo' = Append(fifo, [set |-> "durability", retry |-> 0])
  /\ toMend' = {k \in Keys : item[k].value > 0 /\ item[k].dur < Full}
  /\ UNCHANGED <<item, pending, starting, running, row, born, last, overlap,
                 inverted, failed, dropped, skipped, misread>>

IsLatest(j) == pending[j.key] = j.serial

\* OnWrite: a save that is not the latest of its key any more is not written.
Write ==
  /\ starting # NoJob
  /\ IF IsLatest(starting)
     THEN fifo' = Append(fifo, starting) /\ skipped' = skipped
     ELSE fifo' = fifo /\ skipped' = skipped \cup {starting.key}
  /\ starting' = NoJob
  /\ UNCHANGED <<item, pending, toMend, running, row, repairs, born, last, overlap, inverted,
                 failed, dropped, misread>>

-----------------------------------------------------------------------------
\* A worker takes the oldest statement.
Pop ==
  /\ fifo # <<>> /\ Cardinality(running) < PoolSize
  /\ running' = running \cup {[job |-> Head(fifo), at |-> "exec"]}
  /\ fifo' = Tail(fifo)
  /\ UNCHANGED <<item, pending, starting, toMend, row, ghosts>>

\* UPDATE ... SET Durability = 100, of a row there is.
Repaired(r) == [r EXCEPT !.dur = Full]

\* What the statement does to the youngest row of the key, the one a login
\* keeps. DELETE removes every row; INSERT ... ON DUPLICATE KEY UPDATE adds one,
\* as the table has no unique key but its ID (src/mmprpg_clean.sql:2290-2293).
Written(j) ==
  IF ~IsSave(j) THEN row' = [k \in Keys |-> Repaired(row[k])]
  ELSE row' = [row EXCEPT ![j.key] = IF j.item.value = 0 THEN Absent ELSE j.item]

\* The statement is through: a save still has its callback to come.
Through(r) ==
  running' = (running \ {r}) \cup {x \in {[r EXCEPT !.at = "callback"]} : IsSave(r.job)}

Execute(r) ==
  /\ r.at = "exec"
  /\ Written(r.job)
  /\ Through(r)
  /\ UNCHANGED <<item, pending, starting, toMend, fifo, ghosts>>

\* The saves a given up statement is: of a repair nothing is remembered.
KeyOf(j) == {k \in Keys : IsSave(j) /\ j.key = k}

\* The connection breaks, before or after the statement took effect: back to
\* the queue, or the callback with `false' when the retries are used up.
Break(r) ==
  /\ r.at = "exec"
  /\ UNCHANGED row \/ Written(r.job)
  /\ IF r.job.retry < DmlRetries
     THEN /\ fifo' = Append(fifo, [r.job EXCEPT !.retry = @ + 1])
          /\ running' = running \ {r} /\ failed' = failed
     ELSE /\ Through(r) /\ failed' = failed \cup KeyOf(r.job)
          /\ fifo' = fifo
  /\ UNCHANGED <<item, pending, starting, toMend, repairs, born, last, overlap, inverted,
                 dropped, skipped, misread>>

\* The statement fails for another reason than a lost connection: it is not
\* repeated, the callback gets `false' at once.
Fail(r) ==
  /\ r.at = "exec"
  /\ Through(r) /\ failed' = failed \cup KeyOf(r.job)
  /\ UNCHANGED <<item, pending, starting, toMend, fifo, row, repairs, born, last, overlap, inverted,
                 dropped, skipped, misread>>

\* A worker that gets no connection drops the statement without a callback.
Drop(r) ==
  /\ r.at = "exec" /\ r.job.retry >= DmlRetries
  /\ running' = running \ {r}
  /\ dropped' = dropped \cup KeyOf(r.job)
  /\ UNCHANGED <<item, pending, starting, toMend, fifo, row, repairs, born, last, overlap, inverted,
                 failed, skipped, misread>>

\* Variant: the entry is removed whoever's it is.
ConsumeAny(j) == pending' = [pending EXCEPT ![j.key] = 0]

\* Variant: a save that failed keeps its entry.
ConsumeIfWritten(j) ==
  pending' = IF pending[j.key] = j.serial /\ j.key \notin failed
             THEN [pending EXCEPT ![j.key] = 0] ELSE pending

\* The entry of the key is removed when it still carries this save's serial.
ConsumeLatest(j) ==
  pending' = IF pending[j.key] = j.serial THEN [pending EXCEPT ![j.key] = 0] ELSE pending

\* OnFinalize, on the worker thread.
Finalize(r) ==
  /\ r.at = "callback"
  /\ ConsumeLatest(r.job)
  /\ running' = running \ {r}
  /\ last' = [last EXCEPT ![r.job.key] = IF r.job.n > @ THEN r.job.n ELSE @]
  /\ inverted' = IF r.job.n < last[r.job.key] THEN inverted \cup {r.job.key} ELSE inverted
  /\ UNCHANGED <<item, starting, toMend, fifo, row, repairs, born, overlap, failed, dropped, skipped, misread>>

-----------------------------------------------------------------------------
\* CInventoryManager::OnPlayerLogin reads the rows with a synchronous SELECT that
\* does not wait for the statements in the pool, and that yields no rows when
\* the connection fails. Of several rows of a key the last one stays.
Login(k) ==
  /\ starting = NoJob /\ toMend = {}
  /\ \E found \in {row[k], Absent} :
       /\ item' = [item EXCEPT ![k] = found]
       /\ misread' = IF found = row[k] /\ Of(k) = {} THEN misread ELSE misread \cup {k}
  /\ UNCHANGED <<pending, starting, toMend, fifo, running, row, repairs, born, last, overlap, inverted,
                 failed, dropped, skipped>>

\* The server process dies; what the pool had not executed is gone, and the
\* player goes on with what the row says.
Crash ==
  /\ item' = row
  /\ pending' = [k \in Keys |-> 0]
  /\ starting' = NoJob /\ toMend' = {} /\ fifo' = <<>> /\ running' = {}
  /\ UNCHANGED <<row, ghosts>>

Next == \/ \E k \in Keys, v \in 0..MaxValue : SetValue(k, v)
        \/ \E k \in Keys : Wear(k) \/ Mend(k) \/ Login(k)
        \/ RepairAll
        \/ Write
        \/ Pop
        \/ Crash
        \/ \E r \in running : Execute(r) \/ Break(r) \/ Fail(r) \/ Drop(r) \/ Finalize(r)

Spec == Init /\ [][Next]_vars

-----------------------------------------------------------------------------
\* The variables have their types; at most one statement per worker runs.
TypeOK == /\ item \in [Keys -> Items] /\ row \in [Keys -> Items]
          /\ pending \in [Keys -> Nat]
          /\ starting \in Saves \cup {NoJob} /\ toMend \subseteq Keys
          /\ fifo \in Seq(Saves \cup Repairs)
          /\ running \subseteq [job : Saves \cup Repairs, at : {"exec", "callback"}]
          /\ Cardinality(running) <= PoolSize
          /\ repairs \in 0..MaxRepairs
          /\ born \in [Keys -> Nat] /\ last \in [Keys -> Nat]
          /\ overlap \cup inverted \cup failed \cup dropped \cup skipped \cup misread \subseteq Keys

\* Nothing of the item is under way.
Settled(k) == /\ Of(k) = {} /\ k \notin toMend
              /\ starting = NoJob \/ starting.key # k

\* Durability: as long as no save of an item starts before the previous one is
\* through, nor one of a worn item while a repair is under way, none is given
\* up, and the player is not loaded while one is under way, the row is what the
\* player holds as soon as the item's own statements are through (retried ones
\* included), and stays so while a repair is retried or given up.
SettledRowIsLatest ==
  \A k \in Keys : Settled(k) /\ k \notin overlap \cup failed \cup dropped \cup misread
                  => SameItem(row[k], item[k])

\* A save is dropped as "not the latest" although it is only if an older save
\* of the same item was finalized after a younger one: that older save carries
\* a serial number the younger one's removal made free for reuse.
SkipNeedsInversion == skipped \subseteq inverted

\* The variables have their types, and ms_PendingSerials does not grow for ever:
\* an entry always belongs to the youngest save of its key, so it is gone when
\* nothing of the item is under way.
NoLeakedSerial ==
  /\ TypeOK
  /\ \A k \in Keys : Settled(k) /\ k \notin dropped => pending[k] = 0
=============================================================================
