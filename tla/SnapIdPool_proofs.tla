-------------------------- MODULE SnapIdPool_proofs --------------------------
(***************************************************************************)
(* Proofs about SnapIdPool, for every number of identifiers and every clock: *)
(* the two lists stay intact, m_State tells where an identifier is, and the  *)
(* pool hands an identifier to one owner at a time. The inductive invariant  *)
(* is what makes the links of the array stand for the sequences freeSeq and  *)
(* timedSeq: neither TypeOK nor the refinement is inductive without it.      *)
(***************************************************************************)
EXTENDS SnapIdPool, FiniteSetTheorems, TLAPS

USE PoolAssumption

IInv == TypeOK /\ ListsIntact /\ StateIsPlace

-----------------------------------------------------------------------------
\* Indices of the sequences that the operations make.
LEMMA TailIndex ==
  ASSUME NEW S, NEW s \in Seq(S), s # <<>>
  PROVE  /\ Tail(s) \in Seq(S) /\ Len(s) \in Nat \ {0} /\ Len(Tail(s)) = Len(s) - 1
         /\ \A i \in 1 .. Len(s) - 1 : Tail(s)[i] = s[i + 1]
         /\ s[1] \in S
OBVIOUS

LEMMA ConsIndex ==
  ASSUME NEW S, NEW s \in Seq(S), NEW e \in S
  PROVE  /\ <<e>> \o s \in Seq(S) /\ Len(<<e>> \o s) = Len(s) + 1
         /\ (<<e>> \o s)[1] = e
         /\ \A i \in 2 .. Len(s) + 1 : (<<e>> \o s)[i] = s[i - 1]
         /\ <<e>> \o s # <<>>
OBVIOUS

LEMMA AppendIndex ==
  ASSUME NEW S, NEW s \in Seq(S), NEW e \in S
  PROVE  /\ Append(s, e) \in Seq(S) /\ Len(Append(s, e)) = Len(s) + 1
         /\ Append(s, e)[Len(s) + 1] = e
         /\ \A i \in 1 .. Len(s) : Append(s, e)[i] = s[i]
         /\ Append(s, e) # <<>>
OBVIOUS

LEMMA SeqElement ==
  ASSUME NEW S, NEW s \in Seq(S)
  PROVE  Len(s) \in Nat /\ (s = <<>> <=> Len(s) = 0) /\ \A i \in 1 .. Len(s) : s[i] \in S
OBVIOUS

-----------------------------------------------------------------------------
LEMMA InitIInv == Init => IInv
<1> SUFFICES ASSUME Init PROVE IInv
  OBVIOUS
<1>1. /\ MaxIds \in Nat \ {0} /\ Ids = 0 .. MaxIds - 1 /\ None = -1 /\ Links = Ids \cup {-1}
      /\ freeSeq \in Seq(Ids) /\ Len(freeSeq) = MaxIds /\ freeSeq # <<>>
      /\ \A i \in 1 .. MaxIds : freeSeq[i] = i - 1
  BY DEF Init, Ids, None, Links
<1>2. timedSeq = <<>> /\ timedSeq \in Seq(Ids) /\ Len(timedSeq) = 0
  BY DEF Init
<1>3. TypeOK
  <2>1. next \in [Ids -> Links]
    BY <1>1 DEF Init
  <2> QED
    BY <1>1, <1>2, <2>1 DEF Init, TypeOK
<1>4. ListsIntact
  BY <1>1, <1>2 DEF Init, ListsIntact, Realizes
<1>5. StateIsPlace
  <2>1. ASSUME NEW id \in Ids PROVE \E i \in 1 .. Len(freeSeq) : freeSeq[i] = id
    <3>1. id + 1 \in 1 .. Len(freeSeq) /\ freeSeq[id + 1] = id
      BY <1>1
    <3> QED
      BY <3>1
  <2> QED
    BY <1>1, <1>2, <2>1 DEF Init, StateIsPlace
<1> QED
  BY <1>3, <1>4, <1>5 DEF IInv

\* The first timed identifier goes to the front of the free list.
LEMMA RemoveFirstTimeoutKeepsIInv == IInv /\ RemoveFirstTimeout => IInv'
<1> SUFFICES ASSUME IInv, RemoveFirstTimeout PROVE IInv'
  OBVIOUS
<1> DEFINE h == firstTimed
<1> USE DEF IInv
<1>1. timedSeq # <<>> /\ h = timedSeq[1]
  BY DEF RemoveFirstTimeout, Expired, ListsIntact, Realizes
<1>2. /\ Tail(timedSeq) \in Seq(Ids) /\ Len(timedSeq) \in Nat \ {0}
      /\ Len(Tail(timedSeq)) = Len(timedSeq) - 1
      /\ \A i \in 1 .. Len(timedSeq) - 1 : Tail(timedSeq)[i] = timedSeq[i + 1]
      /\ h \in Ids
  BY <1>1, TailIndex DEF TypeOK
<1>3. /\ <<h>> \o freeSeq \in Seq(Ids) /\ Len(<<h>> \o freeSeq) = Len(freeSeq) + 1
      /\ (<<h>> \o freeSeq)[1] = h /\ <<h>> \o freeSeq # <<>>
      /\ \A i \in 2 .. Len(freeSeq) + 1 : (<<h>> \o freeSeq)[i] = freeSeq[i - 1]
  BY <1>2, ConsIndex DEF TypeOK
<1>4. /\ Len(freeSeq) \in Nat /\ (freeSeq = <<>> <=> Len(freeSeq) = 0)
      /\ \A i \in 1 .. Len(freeSeq) : freeSeq[i] \in Ids
      /\ \A i \in 1 .. Len(timedSeq) : timedSeq[i] \in Ids
      /\ (Tail(timedSeq) = <<>> <=> Len(Tail(timedSeq)) = 0)
  BY <1>2, SeqElement DEF TypeOK
<1>5. state[h] = 2 /\ \A i \in 1 .. Len(freeSeq) : freeSeq[i] # h
  BY <1>1, <1>2, <1>4 DEF StateIsPlace
<1>6. \A i \in 2 .. Len(timedSeq) : timedSeq[i] # h
  BY <1>1, <1>2 DEF StateIsPlace
<1>7. /\ next' = [next EXCEPT ![h] = firstFree] /\ state' = [state EXCEPT ![h] = 0]
      /\ firstFree' = h /\ firstTimed' = next[h]
      /\ lastTimed' = IF next[h] = None THEN None ELSE lastTimed
      /\ freeSeq' = <<h>> \o freeSeq /\ timedSeq' = Tail(timedSeq)
      /\ usage' = usage - 1 /\ UNCHANGED <<timeout, inUsage, op, now>>
  BY DEF RemoveFirstTimeout
<1>8. next \in [Ids -> Links] /\ state \in [Ids -> 0..2] /\ firstFree \in Links
  BY DEF TypeOK
<1>9. \A i \in Ids : /\ next'[i] = IF i = h THEN firstFree ELSE next[i]
                     /\ state'[i] = IF i = h THEN 0 ELSE state[i]
  BY <1>2, <1>7, <1>8
<1> HIDE DEF h
<1>10. TypeOK'
  <2>1. next' \in [Ids -> Links] /\ state' \in [Ids -> 0..2]
    BY <1>2, <1>7, <1>8
  <2>2. next[h] \in Links /\ h \in Links /\ None \in Links
    BY <1>2, <1>8 DEF Links
  <2> QED
    BY <1>2, <1>3, <1>7, <2>1, <2>2 DEF TypeOK
<1>11. ListsIntact'
  <2>1. /\ firstFree = IF freeSeq = <<>> THEN None ELSE freeSeq[1]
        /\ \A i \in 1 .. Len(freeSeq) : next[freeSeq[i]] = IF i = Len(freeSeq) THEN None ELSE freeSeq[i + 1]
        /\ \A i \in 1 .. Len(timedSeq) : next[timedSeq[i]] = IF i = Len(timedSeq) THEN None ELSE timedSeq[i + 1]
        /\ lastTimed = timedSeq[Len(timedSeq)]
    BY <1>1 DEF ListsIntact, Realizes
  <2>2. Realizes(firstFree, freeSeq)'
    <3>1. ASSUME NEW i \in 1 .. Len(freeSeq) + 1
          PROVE  next'[(<<h>> \o freeSeq)[i]] =
                   IF i = Len(freeSeq) + 1 THEN None ELSE (<<h>> \o freeSeq)[i + 1]
      <4>1. CASE i = 1
        <5>1. (<<h>> \o freeSeq)[i] = h /\ next'[h] = firstFree
          BY <4>1, <1>2, <1>3, <1>9
        <5>2. CASE freeSeq = <<>>
          BY <4>1, <5>1, <5>2, <1>4, <2>1
        <5>3. CASE freeSeq # <<>>
          <6>1. (<<h>> \o freeSeq)[2] = freeSeq[1]
            BY <5>3, <1>3, <1>4
          <6> QED
            BY <4>1, <5>1, <5>3, <6>1, <1>4, <2>1
        <5> QED
          BY <5>2, <5>3
      <4>2. CASE i # 1
        <5>1. i - 1 \in 1 .. Len(freeSeq) /\ i \in 2 .. Len(freeSeq) + 1
          BY <4>2, <1>4
        <5>2. (<<h>> \o freeSeq)[i] = freeSeq[i - 1] /\ freeSeq[i - 1] \in Ids /\ freeSeq[i - 1] # h
          BY <5>1, <1>3, <1>4, <1>5
        <5>3. next'[freeSeq[i - 1]] = IF i - 1 = Len(freeSeq) THEN None ELSE freeSeq[i]
          <6>1. next'[freeSeq[i - 1]] = next[freeSeq[i - 1]]
            BY <5>2, <1>9
          <6>2. next[freeSeq[i - 1]] = IF i - 1 = Len(freeSeq) THEN None ELSE freeSeq[(i - 1) + 1]
            BY <5>1, <2>1
          <6> QED
            BY <6>1, <6>2
        <5>4. i # Len(freeSeq) + 1 => (<<h>> \o freeSeq)[i + 1] = freeSeq[i]
          <6>1. i # Len(freeSeq) + 1 => i + 1 \in 2 .. Len(freeSeq) + 1 /\ (i + 1) - 1 = i
            BY <1>4
          <6> QED
            BY <6>1, <1>3
        <5> QED
          BY <5>2, <5>3, <5>4, <1>4
      <4> QED
        BY <4>1, <4>2
    <3> QED
      BY <3>1, <1>3, <1>7 DEF Realizes
  <2>3. Realizes(firstTimed, timedSeq)'
    <3>1. next[h] = IF Tail(timedSeq) = <<>> THEN None ELSE Tail(timedSeq)[1]
      <4>1. next[h] = IF 1 = Len(timedSeq) THEN None ELSE timedSeq[2]
        <5>1. 1 \in 1 .. Len(timedSeq) /\ 1 + 1 = 2
          BY <1>2
        <5>2. next[timedSeq[1]] = IF 1 = Len(timedSeq) THEN None ELSE timedSeq[1 + 1]
          BY <5>1, <2>1
        <5> QED
          BY <5>1, <5>2, <1>1 DEF h
      <4>2. 1 # Len(timedSeq) => Tail(timedSeq)[1] = timedSeq[2]
        BY <1>2
      <4> QED
        BY <4>1, <4>2, <1>2, <1>4
    <3>2. ASSUME NEW i \in 1 .. Len(timedSeq) - 1
          PROVE  next'[Tail(timedSeq)[i]] =
                   IF i = Len(timedSeq) - 1 THEN None ELSE Tail(timedSeq)[i + 1]
      <4>1. /\ i + 1 \in 2 .. Len(timedSeq) /\ i + 1 \in 1 .. Len(timedSeq)
            /\ Tail(timedSeq)[i] = timedSeq[i + 1]
        BY <1>2
      <4>2. next'[timedSeq[i + 1]] = next[timedSeq[i + 1]]
        BY <4>1, <1>4, <1>6, <1>9
      <4>3. next[timedSeq[i + 1]] = IF i + 1 = Len(timedSeq) THEN None ELSE timedSeq[(i + 1) + 1]
        BY <4>1, <2>1
      <4>4. i # Len(timedSeq) - 1 => Tail(timedSeq)[i + 1] = timedSeq[(i + 1) + 1]
        <5>1. i # Len(timedSeq) - 1 => i + 1 \in 1 .. Len(timedSeq) - 1
          BY <1>2
        <5> QED
          BY <5>1, <1>2
      <4>5. i + 1 = Len(timedSeq) <=> i = Len(timedSeq) - 1
        BY <1>2
      <4>6. next'[Tail(timedSeq)[i]] = IF i + 1 = Len(timedSeq) THEN None ELSE timedSeq[(i + 1) + 1]
        BY <4>1, <4>2, <4>3
      <4>7. CASE i = Len(timedSeq) - 1
        BY <4>5, <4>6, <4>7
      <4>8. CASE i # Len(timedSeq) - 1
        BY <4>4, <4>5, <4>6, <4>8
      <4> QED
        BY <4>7, <4>8
    <3> QED
      BY <3>1, <3>2, <1>2, <1>7 DEF Realizes
  <2>4. (lastTimed = IF timedSeq = <<>> THEN None ELSE timedSeq[Len(timedSeq)])'
    <3>1. CASE Len(timedSeq) = 1
      <4>1. next[h] = None /\ Tail(timedSeq) = <<>>
        BY <3>1, <1>1, <1>2, <1>4, <2>1
      <4> QED
        BY <4>1, <1>7
    <3>2. CASE Len(timedSeq) # 1
      <4>1. next[h] = timedSeq[2] /\ timedSeq[2] \in Ids
        <5>1. 1 \in 1 .. Len(timedSeq) /\ 2 \in 1 .. Len(timedSeq) /\ 1 + 1 = 2
          BY <3>2, <1>2
        <5>2. next[timedSeq[1]] = IF 1 = Len(timedSeq) THEN None ELSE timedSeq[1 + 1]
          BY <5>1, <2>1
        <5> QED
          BY <3>2, <5>1, <5>2, <1>1, <1>4 DEF h
      <4>2. next[h] # None
        BY <4>1 DEF Ids, None
      <4>3. Tail(timedSeq) # <<>> /\ Tail(timedSeq)[Len(timedSeq) - 1] = timedSeq[Len(timedSeq)]
        BY <3>2, <1>2, <1>4
      <4> QED
        BY <4>2, <4>3, <2>1, <1>2, <1>7
    <3> QED
      BY <3>1, <3>2
  <2> QED
    BY <2>2, <2>3, <2>4 DEF ListsIntact
<1>12. StateIsPlace'
  <2>1. \A i, j \in 1 .. Len(freeSeq) + 1 : i # j => (<<h>> \o freeSeq)[i] # (<<h>> \o freeSeq)[j]
    <3> SUFFICES ASSUME NEW i \in 1 .. Len(freeSeq) + 1, NEW j \in 1 .. Len(freeSeq) + 1, i < j
                 PROVE  (<<h>> \o freeSeq)[i] # (<<h>> \o freeSeq)[j]
      BY <1>4
    <3>1. j - 1 \in 1 .. Len(freeSeq) /\ j \in 2 .. Len(freeSeq) + 1
      BY <1>4
    <3>2. (<<h>> \o freeSeq)[j] = freeSeq[j - 1]
      BY <3>1, <1>3
    <3>3. CASE i = 1
      BY <3>1, <3>2, <3>3, <1>3, <1>5
    <3>4. CASE i # 1
      <4>1. i - 1 \in 1 .. Len(freeSeq) /\ i \in 2 .. Len(freeSeq) + 1 /\ i - 1 # j - 1
        BY <3>4, <1>4
      <4>2. (<<h>> \o freeSeq)[i] = freeSeq[i - 1]
        BY <4>1, <1>3
      <4> QED
        BY <3>1, <3>2, <4>1, <4>2 DEF StateIsPlace
    <3> QED
      BY <3>3, <3>4
  <2>2. \A i, j \in 1 .. Len(timedSeq) - 1 : i # j => Tail(timedSeq)[i] # Tail(timedSeq)[j]
    <3> SUFFICES ASSUME NEW i \in 1 .. Len(timedSeq) - 1, NEW j \in 1 .. Len(timedSeq) - 1, i # j
                 PROVE  Tail(timedSeq)[i] # Tail(timedSeq)[j]
      OBVIOUS
    <3>1. i + 1 \in 1 .. Len(timedSeq) /\ j + 1 \in 1 .. Len(timedSeq) /\ i + 1 # j + 1
      BY <1>2
    <3> QED
      BY <3>1, <1>2 DEF StateIsPlace
  <2>3. ASSUME NEW id \in Ids
        PROVE  state'[id] = 0 <=> \E i \in 1 .. Len(freeSeq) + 1 : (<<h>> \o freeSeq)[i] = id
    <3>1. (\E i \in 1 .. Len(freeSeq) + 1 : (<<h>> \o freeSeq)[i] = id)
          <=> id = h \/ \E i \in 1 .. Len(freeSeq) : freeSeq[i] = id
      <4>1. ASSUME NEW i \in 1 .. Len(freeSeq) + 1, (<<h>> \o freeSeq)[i] = id
            PROVE  id = h \/ \E k \in 1 .. Len(freeSeq) : freeSeq[k] = id
        <5>1. i = 1 \/ (i \in 2 .. Len(freeSeq) + 1 /\ i - 1 \in 1 .. Len(freeSeq))
          BY <1>4
        <5> QED
          BY <4>1, <5>1, <1>3
      <4>2. ASSUME NEW i \in 1 .. Len(freeSeq), freeSeq[i] = id
            PROVE  \E k \in 1 .. Len(freeSeq) + 1 : (<<h>> \o freeSeq)[k] = id
        <5>1. i + 1 \in 2 .. Len(freeSeq) + 1 /\ i + 1 \in 1 .. Len(freeSeq) + 1 /\ (i + 1) - 1 = i
          BY <1>4
        <5>2. (<<h>> \o freeSeq)[i + 1] = id
          BY <4>2, <5>1, <1>3
        <5> QED
          BY <5>1, <5>2
      <4>3. id = h => \E k \in 1 .. Len(freeSeq) + 1 : (<<h>> \o freeSeq)[k] = id
        <5>1. 1 \in 1 .. Len(freeSeq) + 1
          BY <1>4
        <5> QED
          BY <5>1, <1>3
      <4> QED
        BY <4>1, <4>2, <4>3
    <3> QED
      BY <3>1, <1>9 DEF StateIsPlace
  <2>4. ASSUME NEW id \in Ids
        PROVE  state'[id] = 2 <=> \E i \in 1 .. Len(timedSeq) - 1 : Tail(timedSeq)[i] = id
    <3>1. (\E i \in 1 .. Len(timedSeq) - 1 : Tail(timedSeq)[i] = id)
          <=> id # h /\ \E i \in 1 .. Len(timedSeq) : timedSeq[i] = id
      <4>1. ASSUME NEW i \in 1 .. Len(timedSeq) - 1, Tail(timedSeq)[i] = id
            PROVE  id # h /\ \E k \in 1 .. Len(timedSeq) : timedSeq[k] = id
        <5>1. i + 1 \in 2 .. Len(timedSeq) /\ i + 1 \in 1 .. Len(timedSeq) /\ timedSeq[i + 1] = id
          BY <4>1, <1>2
        <5> QED
          BY <5>1, <1>6
      <4>2. ASSUME NEW i \in 1 .. Len(timedSeq), timedSeq[i] = id, id # h
            PROVE  \E k \in 1 .. Len(timedSeq) - 1 : Tail(timedSeq)[k] = id
        <5>1. i # 1
          BY <4>2, <1>1
        <5>2. i - 1 \in 1 .. Len(timedSeq) - 1 /\ (i - 1) + 1 = i
          BY <5>1, <1>2
        <5>3. Tail(timedSeq)[i - 1] = timedSeq[i]
          BY <5>2, <1>2
        <5> QED
          BY <4>2, <5>2, <5>3
      <4> QED
        BY <4>1, <4>2
    <3> QED
      BY <3>1, <1>9 DEF StateIsPlace
  <2> QED
    BY <2>1, <2>2, <2>3, <2>4, <1>2, <1>3, <1>7 DEF StateIsPlace
<1> QED
  BY <1>10, <1>11, <1>12
\* NewID takes the first free identifier.
LEMMA TakeFreeKeepsIInv == IInv /\ TakeFree => IInv'
<1> SUFFICES ASSUME IInv, TakeFree PROVE IInv'
  OBVIOUS
<1> DEFINE f == firstFree
<1> USE DEF IInv
<1>1. freeSeq # <<>> /\ f = freeSeq[1]
  BY DEF TakeFree, ListsIntact, Realizes
<1>2. /\ Tail(freeSeq) \in Seq(Ids) /\ Len(freeSeq) \in Nat \ {0}
      /\ Len(Tail(freeSeq)) = Len(freeSeq) - 1
      /\ \A i \in 1 .. Len(freeSeq) - 1 : Tail(freeSeq)[i] = freeSeq[i + 1]
      /\ f \in Ids
  BY <1>1, TailIndex DEF TypeOK
<1>3. /\ Len(timedSeq) \in Nat
      /\ \A i \in 1 .. Len(freeSeq) : freeSeq[i] \in Ids
      /\ (Tail(freeSeq) = <<>> <=> Len(Tail(freeSeq)) = 0)
  BY <1>2, SeqElement DEF TypeOK
<1>4. state[f] = 0
  BY <1>1, <1>2 DEF StateIsPlace
<1>5. \A i \in 2 .. Len(freeSeq) : freeSeq[i] # f
  BY <1>1, <1>2 DEF StateIsPlace
<1>6. /\ firstFree' = next[f] /\ state' = [state EXCEPT ![f] = 1]
      /\ usage' = usage + 1 /\ inUsage' = inUsage + 1 /\ op' = "none"
      /\ freeSeq' = Tail(freeSeq)
      /\ UNCHANGED <<next, timeout, firstTimed, lastTimed, now, timedSeq>>
  BY DEF TakeFree
<1>7. next \in [Ids -> Links] /\ state \in [Ids -> 0..2]
  BY DEF TypeOK
<1>8. \A i \in Ids : state'[i] = IF i = f THEN 1 ELSE state[i]
  BY <1>2, <1>6, <1>7
<1> HIDE DEF f
<1>9. TypeOK'
  <2>1. state' \in [Ids -> 0..2] /\ next[f] \in Links
    BY <1>2, <1>6, <1>7
  <2> QED
    BY <1>2, <1>6, <2>1 DEF TypeOK
<1>10. ListsIntact'
  <2>1. \A i \in 1 .. Len(freeSeq) : next[freeSeq[i]] = IF i = Len(freeSeq) THEN None ELSE freeSeq[i + 1]
    BY DEF ListsIntact, Realizes
  <2>2. next[f] = IF Tail(freeSeq) = <<>> THEN None ELSE Tail(freeSeq)[1]
    <3>1. 1 \in 1 .. Len(freeSeq) /\ 1 + 1 = 2
      BY <1>2
    <3>2. next[f] = IF 1 = Len(freeSeq) THEN None ELSE freeSeq[1 + 1]
      BY <3>1, <2>1, <1>1 DEF f
    <3>3. 1 # Len(freeSeq) => Tail(freeSeq)[1] = freeSeq[1 + 1]
      BY <1>2
    <3> QED
      BY <3>2, <3>3, <1>2, <1>3
  <2>3. ASSUME NEW i \in 1 .. Len(freeSeq) - 1
        PROVE  next[Tail(freeSeq)[i]] = IF i = Len(freeSeq) - 1 THEN None ELSE Tail(freeSeq)[i + 1]
    <3>1. i + 1 \in 1 .. Len(freeSeq) /\ Tail(freeSeq)[i] = freeSeq[i + 1]
      BY <1>2
    <3>2. next[Tail(freeSeq)[i]] = IF i + 1 = Len(freeSeq) THEN None ELSE freeSeq[(i + 1) + 1]
      BY <3>1, <2>1
    <3>3. i # Len(freeSeq) - 1 => i + 1 \in 1 .. Len(freeSeq) - 1
      BY <1>2
    <3>4. i # Len(freeSeq) - 1 => Tail(freeSeq)[i + 1] = freeSeq[(i + 1) + 1]
      BY <3>3, <1>2
    <3>5. i + 1 = Len(freeSeq) <=> i = Len(freeSeq) - 1
      BY <1>2
    <3>6. CASE i = Len(freeSeq) - 1
      BY <3>2, <3>5, <3>6
    <3>7. CASE i # Len(freeSeq) - 1
      BY <3>2, <3>4, <3>5, <3>7
    <3> QED
      BY <3>6, <3>7
  <2>4. Realizes(firstFree, freeSeq)'
    BY <2>2, <2>3, <1>2, <1>6 DEF Realizes
  <2>5. Realizes(firstTimed, timedSeq)'
    BY <1>6 DEF ListsIntact, Realizes
  <2> QED
    BY <2>4, <2>5, <1>6 DEF ListsIntact
<1>11. StateIsPlace'
  <2>1. \A i, j \in 1 .. Len(freeSeq) - 1 : i # j => Tail(freeSeq)[i] # Tail(freeSeq)[j]
    <3> SUFFICES ASSUME NEW i \in 1 .. Len(freeSeq) - 1, NEW j \in 1 .. Len(freeSeq) - 1, i # j
                 PROVE  Tail(freeSeq)[i] # Tail(freeSeq)[j]
      OBVIOUS
    <3>1. i + 1 \in 1 .. Len(freeSeq) /\ j + 1 \in 1 .. Len(freeSeq) /\ i + 1 # j + 1
      BY <1>2
    <3> QED
      BY <3>1, <1>2 DEF StateIsPlace
  <2>2. ASSUME NEW id \in Ids
        PROVE  (\E i \in 1 .. Len(freeSeq) - 1 : Tail(freeSeq)[i] = id)
               <=> id # f /\ \E i \in 1 .. Len(freeSeq) : freeSeq[i] = id
    <3>1. ASSUME NEW i \in 1 .. Len(freeSeq) - 1, Tail(freeSeq)[i] = id
          PROVE  id # f /\ \E k \in 1 .. Len(freeSeq) : freeSeq[k] = id
      <4>1. i + 1 \in 2 .. Len(freeSeq) /\ i + 1 \in 1 .. Len(freeSeq) /\ freeSeq[i + 1] = id
        BY <3>1, <1>2
      <4> QED
        BY <4>1, <1>5
    <3>2. ASSUME NEW i \in 1 .. Len(freeSeq), freeSeq[i] = id, id # f
          PROVE  \E k \in 1 .. Len(freeSeq) - 1 : Tail(freeSeq)[k] = id
      <4>1. i # 1
        BY <3>2, <1>1 DEF f
      <4>2. i - 1 \in 1 .. Len(freeSeq) - 1 /\ (i - 1) + 1 = i
        BY <4>1, <1>2
      <4>3. Tail(freeSeq)[i - 1] = freeSeq[i]
        BY <4>2, <1>2
      <4> QED
        BY <3>2, <4>2, <4>3
    <3> QED
      BY <3>1, <3>2
  <2> QED
    BY <2>1, <2>2, <1>2, <1>4, <1>6, <1>8 DEF StateIsPlace
<1> QED
  BY <1>9, <1>10, <1>11
\* FreeID links the identifier behind the tail of the timed list.
LEMMA FreeIDKeepsIInv == ASSUME NEW id \in Ids PROVE IInv /\ FreeID(id) => IInv'
<1> SUFFICES ASSUME IInv, FreeID(id) PROVE IInv'
  OBVIOUS
<1> DEFINE n == Len(timedSeq)
           ts == Append(timedSeq, id)
<1> USE DEF IInv
<1>1. /\ ts \in Seq(Ids) /\ Len(ts) = n + 1 /\ ts[n + 1] = id /\ ts # <<>>
      /\ \A i \in 1 .. n : ts[i] = timedSeq[i]
  BY AppendIndex DEF TypeOK
<1>2. /\ n \in Nat /\ (timedSeq = <<>> <=> n = 0) /\ Len(freeSeq) \in Nat
      /\ \A i \in 1 .. n : timedSeq[i] \in Ids
      /\ \A i \in 1 .. Len(freeSeq) : freeSeq[i] \in Ids
  BY SeqElement DEF TypeOK
<1>3. /\ state[id] = 1
      /\ \A i \in 1 .. n : timedSeq[i] # id
      /\ \A i \in 1 .. Len(freeSeq) : freeSeq[i] # id
  <2>1. state[id] = 1
    BY DEF FreeID
  <2>2. /\ state[id] = 0 <=> \E i \in 1 .. Len(freeSeq) : freeSeq[i] = id
        /\ state[id] = 2 <=> \E i \in 1 .. n : timedSeq[i] = id
    BY DEF StateIsPlace
  <2> QED
    BY <2>1, <2>2
<1>4. /\ state' = [state EXCEPT ![id] = 2]
      /\ next' = IF lastTimed # None THEN [next EXCEPT ![id] = None, ![lastTimed] = id]
                                     ELSE [next EXCEPT ![id] = None]
      /\ firstTimed' = IF lastTimed # None THEN firstTimed ELSE id
      /\ lastTimed' = id /\ timedSeq' = ts /\ inUsage' = inUsage - 1
      /\ UNCHANGED <<firstFree, usage, op, now, freeSeq>>
  BY DEF FreeID
<1>5. timeout' \in [Ids -> Int]
  <2>1. ToInt(now + Freq * 5) \in Int
    <3>1. now + Freq * 5 \in Int /\ IntRange \in Int /\ IntRange > 0
      BY DEF TypeOK, PoolAssumption
    <3>2. (now + Freq * 5) % IntRange \in Int
      BY <3>1
    <3> QED
      BY <3>1, <3>2 DEF ToInt
  <2>2. timeout' = [timeout EXCEPT ![id] = ToInt(now + Freq * 5)] /\ timeout \in [Ids -> Int]
    BY DEF FreeID, TypeOK
  <2> QED
    BY <2>1, <2>2
<1> HIDE DEF ts
<1>6. next \in [Ids -> Links] /\ state \in [Ids -> 0..2] /\ lastTimed \in Links
  BY DEF TypeOK
<1>7. /\ lastTimed = IF n = 0 THEN None ELSE timedSeq[n]
      /\ n # 0 => n \in 1 .. n /\ lastTimed \in Ids /\ lastTimed # None
  <2>1. lastTimed = IF n = 0 THEN None ELSE timedSeq[n]
    BY <1>2 DEF ListsIntact
  <2>2. n # 0 => n \in 1 .. n
    BY <1>2
  <2>3. \A i \in Ids : i # None
    BY DEF Ids, None
  <2> QED
    BY <2>1, <2>2, <2>3, <1>2
<1>8. \A k \in Ids : state'[k] = IF k = id THEN 2 ELSE state[k]
  BY <1>4, <1>6
<1>9. \A k \in Ids : next'[k] = IF n # 0 /\ k = timedSeq[n] THEN id
                                ELSE IF k = id THEN None ELSE next[k]
  <2>1. CASE n = 0
    <3>1. next' = [next EXCEPT ![id] = None]
      BY <2>1, <1>4, <1>7
    <3> QED
      BY <2>1, <3>1, <1>6
  <2>2. CASE n # 0
    <3>1. next' = [next EXCEPT ![id] = None, ![lastTimed] = id] /\ lastTimed = timedSeq[n]
      BY <2>2, <1>4, <1>7
    <3> QED
      BY <2>2, <3>1, <1>6, <1>7
  <2> QED
    BY <2>1, <2>2
<1>10. TypeOK'
  <2>1. next' \in [Ids -> Links]
    <3>1. id \in Links /\ None \in Links
      BY DEF Links
    <3>2. CASE lastTimed # None
      BY <3>1, <3>2, <1>4, <1>6
    <3>3. CASE lastTimed = None
      BY <3>1, <3>3, <1>4, <1>6
    <3> QED
      BY <3>2, <3>3
  <2>2. state' \in [Ids -> 0..2]
    BY <1>4, <1>6
  <2>3. firstTimed' \in Links /\ lastTimed' \in Links
    BY <1>4 DEF TypeOK, Links
  <2>4. usage' \in Int /\ inUsage' \in Int
    BY <1>4 DEF TypeOK
  <2>5. timedSeq' \in Seq(Ids) /\ freeSeq' \in Seq(Ids) /\ firstFree' \in Links
    BY <1>1, <1>4 DEF TypeOK
  <2>6. op' \in {"none", "NewID", "TimeoutIDs", "aborted"} /\ now' \in Nat
    BY <1>4 DEF TypeOK
  <2> QED
    BY <1>5, <2>1, <2>2, <2>3, <2>4, <2>5, <2>6 DEF TypeOK
<1>11. ListsIntact'
  <2>1. Realizes(firstFree, freeSeq)'
    <3>1. ASSUME NEW i \in 1 .. Len(freeSeq)
          PROVE  next'[freeSeq[i]] = next[freeSeq[i]]
      <4>1. freeSeq[i] \in Ids /\ freeSeq[i] # id /\ state[freeSeq[i]] = 0
        BY <1>2, <1>3 DEF StateIsPlace
      <4>2. n # 0 => freeSeq[i] # timedSeq[n]
        <5>1. n # 0 => timedSeq[n] \in Ids /\ state[timedSeq[n]] = 2
          BY <1>2, <1>7 DEF StateIsPlace
        <5> QED
          BY <4>1, <5>1
      <4> QED
        BY <4>1, <4>2, <1>9
    <3> QED
      BY <3>1, <1>4 DEF ListsIntact, Realizes
  <2>2. \A i \in 1 .. n : next[timedSeq[i]] = IF i = n THEN None ELSE timedSeq[i + 1]
    BY DEF ListsIntact, Realizes
  <2>3. ASSUME NEW i \in 1 .. n + 1
        PROVE  next'[ts[i]] = IF i = n + 1 THEN None ELSE ts[i + 1]
    <3>1. CASE i = n + 1
      <4>1. ts[i] = id /\ (n # 0 => id # timedSeq[n])
        BY <3>1, <1>1, <1>3, <1>7
      <4> QED
        BY <3>1, <4>1, <1>9
    <3>2. CASE i = n
      <4>1. n # 0 /\ n \in 1 .. n /\ n # n + 1
        BY <3>2, <1>2
      <4>2. ts[i] = timedSeq[n] /\ timedSeq[n] \in Ids /\ ts[i + 1] = id
        BY <3>2, <4>1, <1>1, <1>2
      <4>3. next'[ts[i]] = id
        BY <4>1, <4>2, <1>9
      <4> QED
        BY <3>2, <4>1, <4>2, <4>3
    <3>3. CASE i # n /\ i # n + 1
      <4>1. i \in 1 .. n /\ i + 1 \in 1 .. n /\ n \in 1 .. n /\ n # 0
        BY <3>3, <1>2
      <4>2. ts[i] = timedSeq[i] /\ ts[i + 1] = timedSeq[i + 1] /\ timedSeq[i] \in Ids
        BY <4>1, <1>1, <1>2
      <4>3. timedSeq[i] # timedSeq[n] /\ timedSeq[i] # id
        BY <3>3, <4>1, <1>3 DEF StateIsPlace
      <4>4. next'[timedSeq[i]] = next[timedSeq[i]] /\ next[timedSeq[i]] = timedSeq[i + 1]
        BY <3>3, <4>1, <4>2, <4>3, <2>2, <1>9
      <4> QED
        BY <3>3, <4>2, <4>4
    <3> QED
      BY <3>1, <3>2, <3>3
  <2>4. firstTimed' = ts[1]
    <3>1. CASE n = 0
      <4>1. firstTimed' = id
        BY <3>1, <1>4, <1>7
      <4>2. ts[1] = id
        BY <3>1, <1>1
      <4> QED
        BY <4>1, <4>2
    <3>2. CASE n # 0
      <4>1. firstTimed' = firstTimed /\ firstTimed = timedSeq[1]
        BY <3>2, <1>2, <1>4, <1>7 DEF ListsIntact, Realizes
      <4>2. 1 \in 1 .. n
        BY <3>2, <1>2
      <4> QED
        BY <4>1, <4>2, <1>1
    <3> QED
      BY <3>1, <3>2
  <2>5. Realizes(firstTimed, timedSeq)'
    <3>1. \A i \in 1 .. Len(ts) : next'[ts[i]] = IF i = Len(ts) THEN None ELSE ts[i + 1]
      BY <2>3, <1>1
    <3>2. timedSeq' = ts /\ ts # <<>>
      BY <1>1, <1>4
    <3> HIDE DEF n
    <3> QED
      BY <3>1, <3>2, <2>4 DEF Realizes
  <2>6. lastTimed' = ts[Len(ts)]
    BY <1>1, <1>4
  <2> QED
    BY <2>1, <2>5, <2>6, <1>1, <1>4 DEF ListsIntact
<1>12. StateIsPlace'
  <2>1. \A i, j \in 1 .. n + 1 : i # j => ts[i] # ts[j]
    <3> SUFFICES ASSUME NEW i \in 1 .. n + 1, NEW j \in 1 .. n + 1, i < j
                 PROVE  ts[i] # ts[j]
      BY <1>2
    <3>1. i \in 1 .. n /\ ts[i] = timedSeq[i] /\ timedSeq[i] # id
      <4>1. i \in 1 .. n
        BY <1>2
      <4> QED
        BY <4>1, <1>1, <1>3
    <3>2. CASE j = n + 1
      BY <3>1, <3>2, <1>1
    <3>3. CASE j # n + 1
      <4>1. j \in 1 .. n /\ i # j
        BY <3>3, <1>2
      <4>2. ts[j] = timedSeq[j]
        BY <4>1, <1>1
      <4> QED
        BY <3>1, <4>1, <4>2 DEF StateIsPlace
    <3> QED
      BY <3>2, <3>3
  <2>2. ASSUME NEW k \in Ids
        PROVE  (\E i \in 1 .. n + 1 : ts[i] = k) <=> k = id \/ \E i \in 1 .. n : timedSeq[i] = k
    <3>1. ASSUME NEW i \in 1 .. n + 1, ts[i] = k
          PROVE  k = id \/ \E j \in 1 .. n : timedSeq[j] = k
      <4>1. i = n + 1 \/ i \in 1 .. n
        BY <1>2
      <4> QED
        BY <3>1, <4>1, <1>1
    <3>2. ASSUME NEW i \in 1 .. n, timedSeq[i] = k
          PROVE  \E j \in 1 .. n + 1 : ts[j] = k
      <4>1. i \in 1 .. n + 1
        BY <1>2
      <4> QED
        BY <3>2, <4>1, <1>1
    <3>3. k = id => \E j \in 1 .. n + 1 : ts[j] = k
      <4>1. n + 1 \in 1 .. n + 1
        BY <1>2
      <4> QED
        BY <4>1, <1>1
    <3> QED
      BY <3>1, <3>2, <3>3
  <2>3. ASSUME NEW k \in Ids
        PROVE  /\ state'[k] = 0 <=> \E i \in 1 .. Len(freeSeq) : freeSeq[i] = k
               /\ state'[k] = 2 <=> \E i \in 1 .. n + 1 : ts[i] = k
    BY <2>2, <1>3, <1>8 DEF StateIsPlace
  <2>4. freeSeq' = freeSeq /\ timedSeq' = ts /\ Len(ts) = n + 1
    BY <1>1, <1>4
  <2> HIDE DEF n
  <2>5. \A i, j \in 1 .. Len(freeSeq) : i # j => freeSeq[i] # freeSeq[j]
    BY DEF StateIsPlace
  <2> QED
    BY <2>1, <2>3, <2>4, <2>5 DEF StateIsPlace
<1> QED
  BY <1>10, <1>11, <1>12
LEMMA OtherStepsKeepIInv ==
  IInv /\ (UNCHANGED vars \/ Tick \/ NewID \/ TimeoutIDs \/ Exhausted \/ TimeoutIDsEnd) => IInv'
<1> SUFFICES ASSUME IInv, UNCHANGED vars \/ Tick \/ NewID \/ TimeoutIDs \/ Exhausted \/ TimeoutIDsEnd
             PROVE  IInv'
  OBVIOUS
<1>1. UNCHANGED pool
  BY DEF vars, Tick, NewID, TimeoutIDs, Begin, Exhausted, TimeoutIDsEnd
<1>2. op' \in {"none", "NewID", "TimeoutIDs", "aborted"} /\ now' \in Nat
  BY DEF vars, Tick, NewID, TimeoutIDs, Begin, Exhausted, TimeoutIDsEnd, IInv, TypeOK
<1> QED
  BY <1>1, <1>2 DEF pool, IInv, TypeOK, ListsIntact, Realizes, StateIsPlace

LEMMA NextKeepsIInv == IInv /\ [Next]_vars => IInv'
BY RemoveFirstTimeoutKeepsIInv, TakeFreeKeepsIInv, FreeIDKeepsIInv, OtherStepsKeepIInv DEF Next

THEOREM Invariant == Spec => []IInv
BY InitIInv, NextKeepsIInv, PTL DEF Spec

-----------------------------------------------------------------------------
\* The links never leave the array and the sequences the lists stand for hold
\* identifiers only.
THEOREM TypeCorrect == Spec => []TypeOK
BY Invariant, PTL DEF IInv

\* CSnapIDPool, through any sequence of NewID, FreeID and TimeoutIDs: both lists
\* are intact, end, and share no link.
THEOREM ListsStayIntact == Spec => []ListsIntact
BY Invariant, PTL DEF IInv

\* m_State, which FreeID asserts on, is where the identifier is.
THEOREM StateTellsThePlace == Spec => []StateIsPlace
BY Invariant, PTL DEF IInv

-----------------------------------------------------------------------------
\* NewID returns an identifier that nobody has, FreeID takes back one that
\* somebody has, and nothing else changes the owners: CSnapIDPool implements
\* what SnapNewID and SnapFreeID promise.
THEOREM PoolImplementsIdPool == Spec => ImplementsIdPool
<1> DEFINE owned == {id \in Ids : state[id] = 1}
<1>1. Init => Owned!Init
  BY DEF Init, Owned!Init
<1>2. IInv /\ [Next]_vars => [Owned!Next]_<<owned, inUsage>>
  <2> SUFFICES ASSUME IInv, [Next]_vars PROVE [Owned!Next]_<<owned, inUsage>>
    OBVIOUS
  <2> USE DEF IInv
  <2>1. state \in [Ids -> 0..2]
    BY DEF TypeOK
  <2>2. CASE RemoveFirstTimeout
    <3>1. state[firstTimed] = 2 /\ firstTimed \in Ids
      <4>1. timedSeq # <<>> /\ firstTimed = timedSeq[1]
        BY <2>2 DEF RemoveFirstTimeout, Expired, ListsIntact, Realizes
      <4>2. Len(timedSeq) \in Nat \ {0} /\ firstTimed \in Ids
        BY <4>1, TailIndex DEF TypeOK
      <4>3. 1 \in 1 .. Len(timedSeq)
        BY <4>2
      <4> QED
        BY <4>1, <4>2, <4>3 DEF StateIsPlace
    <3>2. state' = [state EXCEPT ![firstTimed] = 0] /\ inUsage' = inUsage
      BY <2>2 DEF RemoveFirstTimeout
    <3>3. owned' = owned
      BY <3>1, <3>2, <2>1
    <3> QED
      BY <3>2, <3>3
  <2>3. CASE TakeFree
    <3>1. state[firstFree] = 0 /\ firstFree \in Ids
      <4>1. freeSeq # <<>> /\ firstFree = freeSeq[1]
        BY <2>3 DEF TakeFree, ListsIntact, Realizes
      <4>2. Len(freeSeq) \in Nat \ {0} /\ firstFree \in Ids
        BY <4>1, TailIndex DEF TypeOK
      <4>3. 1 \in 1 .. Len(freeSeq)
        BY <4>2
      <4> QED
        BY <4>1, <4>2, <4>3 DEF StateIsPlace
    <3>2. state' = [state EXCEPT ![firstFree] = 1] /\ inUsage' = inUsage + 1
      BY <2>3 DEF TakeFree
    <3>3. firstFree \in Ids \ owned /\ owned' = owned \cup {firstFree}
      BY <3>1, <3>2, <2>1
    <3>4. Owned!SnapNewID
      BY <3>2, <3>3 DEF Owned!SnapNewID
    <3> QED
      BY <3>4 DEF Owned!Next
  <2>4. ASSUME NEW id \in Ids, FreeID(id) PROVE [Owned!Next]_<<owned, inUsage>>
    <3>1. state[id] = 1 /\ state' = [state EXCEPT ![id] = 2] /\ inUsage' = inUsage - 1
      BY <2>4 DEF FreeID
    <3>2. id \in owned /\ owned' = owned \ {id}
      BY <3>1, <2>1
    <3>3. Owned!SnapFreeID
      BY <3>1, <3>2 DEF Owned!SnapFreeID
    <3> QED
      BY <3>3 DEF Owned!Next
  <2>5. CASE UNCHANGED vars \/ Tick \/ NewID \/ TimeoutIDs \/ Exhausted \/ TimeoutIDsEnd
    <3>1. state' = state /\ inUsage' = inUsage
      BY <2>5 DEF vars, pool, Tick, NewID, TimeoutIDs, Begin, Exhausted, TimeoutIDsEnd
    <3> QED
      BY <3>1
  <2> QED
    BY <2>2, <2>3, <2>4, <2>5 DEF Next
<1> QED
  BY <1>1, <1>2, Invariant, PTL DEF Spec, ImplementsIdPool, Owned!Spec
-----------------------------------------------------------------------------
LEMMA IdsAreFinite ==
  /\ IsFiniteSet({id \in Ids : state[id] = 1})
  /\ IsFiniteSet({id \in Ids : state[id] # 0})
<1>1. IsFiniteSet(Ids)
  BY FS_Interval DEF Ids
<1> QED
  BY <1>1, FS_Subset

LEMMA StepCounts == IInv /\ CountersAgree /\ [Next]_vars => CountersAgree'
<1> SUFFICES ASSUME IInv, CountersAgree, [Next]_vars PROVE CountersAgree'
  OBVIOUS
<1> USE DEF IInv
<1> DEFINE owned == {id \in Ids : state[id] = 1}
           taken == {id \in Ids : state[id] # 0}
<1>1. /\ state \in [Ids -> 0..2]
      /\ inUsage = Cardinality(owned) /\ usage = Cardinality(taken)
      /\ IsFiniteSet(owned) /\ IsFiniteSet(taken)
  BY IdsAreFinite DEF TypeOK, CountersAgree
<1>2. Cardinality(owned) \in Nat /\ Cardinality(taken) \in Nat
  BY <1>1, FS_CardinalityType
<1>3. CASE RemoveFirstTimeout
  <2>1. state[firstTimed] = 2 /\ firstTimed \in Ids
    <3>1. timedSeq # <<>> /\ firstTimed = timedSeq[1]
      BY <1>3 DEF RemoveFirstTimeout, Expired, ListsIntact, Realizes
    <3>2. Len(timedSeq) \in Nat \ {0} /\ firstTimed \in Ids
      BY <3>1, TailIndex DEF TypeOK
    <3>3. 1 \in 1 .. Len(timedSeq)
      BY <3>2
    <3> QED
      BY <3>1, <3>2, <3>3 DEF StateIsPlace
  <2>2. state' = [state EXCEPT ![firstTimed] = 0] /\ inUsage' = inUsage /\ usage' = usage - 1
    BY <1>3 DEF RemoveFirstTimeout
  <2>3. owned' = owned /\ taken' = taken \ {firstTimed} /\ firstTimed \in taken
    BY <1>1, <2>1, <2>2
  <2>4. Cardinality(taken') = Cardinality(taken) - 1
    BY <1>1, <2>3, FS_RemoveElement
  <2> QED
    BY <1>1, <2>2, <2>3, <2>4 DEF CountersAgree
<1>4. CASE TakeFree
  <2>1. state[firstFree] = 0 /\ firstFree \in Ids
    <3>1. freeSeq # <<>> /\ firstFree = freeSeq[1]
      BY <1>4 DEF TakeFree, ListsIntact, Realizes
    <3>2. Len(freeSeq) \in Nat \ {0} /\ firstFree \in Ids
      BY <3>1, TailIndex DEF TypeOK
    <3>3. 1 \in 1 .. Len(freeSeq)
      BY <3>2
    <3> QED
      BY <3>1, <3>2, <3>3 DEF StateIsPlace
  <2>2. state' = [state EXCEPT ![firstFree] = 1] /\ inUsage' = inUsage + 1 /\ usage' = usage + 1
    BY <1>4 DEF TakeFree
  <2>3. /\ owned' = owned \cup {firstFree} /\ firstFree \notin owned
        /\ taken' = taken \cup {firstFree} /\ firstFree \notin taken
    BY <1>1, <2>1, <2>2
  <2>4. Cardinality(owned') = Cardinality(owned) + 1 /\ Cardinality(taken') = Cardinality(taken) + 1
    BY <1>1, <2>3, FS_AddElement
  <2> QED
    BY <1>1, <2>2, <2>4 DEF CountersAgree
<1>5. ASSUME NEW id \in Ids, FreeID(id) PROVE CountersAgree'
  <2>1. /\ state[id] = 1 /\ state' = [state EXCEPT ![id] = 2]
        /\ inUsage' = inUsage - 1 /\ usage' = usage
    BY <1>5 DEF FreeID
  <2>2. owned' = owned \ {id} /\ id \in owned /\ taken' = taken
    BY <1>1, <2>1
  <2>3. Cardinality(owned') = Cardinality(owned) - 1
    BY <1>1, <2>2, FS_RemoveElement
  <2> QED
    BY <1>1, <2>1, <2>2, <2>3 DEF CountersAgree
<1>6. CASE UNCHANGED vars \/ Tick \/ NewID \/ TimeoutIDs \/ Exhausted \/ TimeoutIDsEnd
  <2>1. state' = state /\ inUsage' = inUsage /\ usage' = usage
    BY <1>6 DEF vars, pool, Tick, NewID, TimeoutIDs, Begin, Exhausted, TimeoutIDsEnd
  <2> QED
    BY <2>1 DEF CountersAgree
<1> QED
  BY <1>3, <1>4, <1>5, <1>6 DEF Next

\* m_InUsage is the number of identifiers that have an owner, and m_Usage counts
\* those on the timed list as well.
THEOREM CountersCount == Spec => []CountersAgree
<1>1. Init => CountersAgree
  <2> SUFFICES ASSUME Init PROVE CountersAgree
    OBVIOUS
  <2>1. {id \in Ids : state[id] = 1} = {} /\ {id \in Ids : state[id] # 0} = {}
    BY DEF Init
  <2> QED
    BY <2>1, FS_EmptySet DEF Init, CountersAgree
<1> QED
  BY <1>1, StepCounts, Invariant, PTL DEF Spec
-----------------------------------------------------------------------------
TimeoutsFit == \A id \in Ids : 2 * timeout[id] < IntRange

LEMMA ToIntFits == \A x \in Int : ToInt(x) \in Int /\ 2 * ToInt(x) < IntRange
<1> SUFFICES ASSUME NEW x \in Int PROVE ToInt(x) \in Int /\ 2 * ToInt(x) < IntRange
  OBVIOUS
<1>1. IntRange \in Int /\ IntRange > 0
  BY DEF PoolAssumption
<1>2. x % IntRange \in 0 .. IntRange - 1
  BY <1>1
<1> DEFINE r == x % IntRange
<1>3. ToInt(x) = IF 2 * r >= IntRange THEN r - IntRange ELSE r
  BY DEF ToInt
<1> HIDE DEF r
<1>4. r \in 0 .. IntRange - 1
  BY <1>2 DEF r
<1> QED
  BY <1>1, <1>3, <1>4

LEMMA TimeoutsAlwaysFit == Spec => [](IInv /\ TimeoutsFit)
<1>1. Init => TimeoutsFit
  BY DEF Init, TimeoutsFit, PoolAssumption
<1>2. IInv /\ TimeoutsFit /\ [Next]_vars => TimeoutsFit'
  <2> SUFFICES ASSUME IInv, TimeoutsFit, [Next]_vars PROVE TimeoutsFit'
    OBVIOUS
  <2>1. CASE UNCHANGED timeout
    BY <2>1 DEF TimeoutsFit
  <2>2. ASSUME NEW id \in Ids, FreeID(id) PROVE TimeoutsFit'
    <3>1. now + Freq * 5 \in Int
      BY DEF IInv, TypeOK, PoolAssumption
    <3>2. timeout' = [timeout EXCEPT ![id] = ToInt(now + Freq * 5)] /\ timeout \in [Ids -> Int]
      BY <2>2 DEF FreeID, IInv, TypeOK
    <3>3. 2 * ToInt(now + Freq * 5) < IntRange
      BY <3>1, ToIntFits
    <3> HIDE DEF ToInt
    <3> QED
      BY <3>2, <3>3 DEF TimeoutsFit
  <2> QED
    BY <2>1, <2>2 DEF Next, vars, pool, Tick, NewID, TimeoutIDs, Begin, RemoveFirstTimeout,
       TakeFree, Exhausted, TimeoutIDsEnd
<1> QED
  BY <1>1, <1>2, Invariant, PTL DEF Spec

\* Once the clock is past the largest int, the five seconds that FreeID asks for
\* are over for every identifier before NewID takes one, whatever the frequency
\* of the clock.
THEOREM LateDelayIsVoid == Spec => LateTimeoutsNeverHold
<1>1. IInv /\ TimeoutsFit /\ [Next]_vars
        => [op = "NewID" /\ op' = "none" /\ 2 * now >= IntRange => timedSeq = <<>>]_vars
  <2> SUFFICES ASSUME IInv, TimeoutsFit, Next, op = "NewID", op' = "none", 2 * now >= IntRange
               PROVE  timedSeq = <<>>
    OBVIOUS
  <2>1. ~Expired
    BY DEF Next, Tick, NewID, TimeoutIDs, Begin, RemoveFirstTimeout, TakeFree, Exhausted,
       TimeoutIDsEnd, FreeID
  <2>2. firstTimed \in Ids => timeout[firstTimed] < now
    <3>1. timeout \in [Ids -> Int] /\ now \in Int /\ IntRange \in Int
      BY DEF IInv, TypeOK, PoolAssumption
    <3> QED
      BY <3>1 DEF TimeoutsFit
  <2>3. firstTimed = None
    BY <2>1, <2>2 DEF Expired, IInv, TypeOK, Links
  <2> QED
    <3>1. firstTimed = IF timedSeq = <<>> THEN None ELSE timedSeq[1]
      BY DEF IInv, ListsIntact, Realizes
    <3>2. timedSeq # <<>> => timedSeq[1] \in Ids
      BY TailIndex DEF IInv, TypeOK
    <3> QED
      BY <2>3, <3>1, <3>2 DEF Ids, None
<1> QED
  BY <1>1, TimeoutsAlwaysFit, PTL DEF Spec, LateTimeoutsNeverHold
=============================================================================
