---------------------------- MODULE Groups_proofs ----------------------------
(***************************************************************************)
(* Proofs about Groups, for any accounts, clients, group limit and number of *)
(* groups: who is a member, who leads, how many there may be, and what the   *)
(* table holds once the pool has executed everything.                        *)
(***************************************************************************)
EXTENDS Groups, FiniteSetTheorems, WellFoundedInduction, TLAPS

\* What a group of the program looks like in memory, in the table or in a statement.
Proper(r) == r.leader \in r.members /\ IsFiniteSet(r.members) /\ Cardinality(r.members) <= MaxMembers

\* What a statement writes: a DELETE no row, the others a group.
Meant(s) == IF s.op = "delete" THEN s.row = NoRow ELSE Proper(s.row)

\* What is not a group has no members.
AllProper ==
  /\ \A g \in GroupIDs : IF Live(g) THEN Proper(groups[g]) ELSE groups[g] = NoGroup
  /\ \A g \in GroupIDs : rows[g] # NoRow => Proper(rows[g])
  /\ \A i \in 1..Len(queue) : Meant(queue[i])

\* No object is made twice, and no two groups are the same one.
ObjectsApart ==
  /\ \A g \in GroupIDs : groups[g].obj <= made
  /\ \A c \in Clients : pointer[c] <= made
  /\ \A g, h \in GroupIDs : Live(g) /\ groups[g].obj = groups[h].obj => g = h

PointersHold == \A c \in Clients, g \in GroupIDs : Has(c, g) => on[c] \in groups[g].members

\* Statement s takes effect on row r.
Fits(s, r) == s.op # "delete" => (s.op = "insert" <=> r = NoRow)

\* Executed one after the other, the statements q turn the rows r into f, and
\* every one of them takes effect.
Follows(r, q, f) ==
  /\ \A i \in 1..Len(q) : q[i].id \in GroupIDs
  /\ \A i \in 1..Len(q) : (\A k \in 1..i-1 : q[k].id # q[i].id) => Fits(q[i], r[q[i].id])
  /\ \A i \in 1..Len(q) : \A j \in 1..i-1 :
       q[j].id = q[i].id /\ (\A k \in j+1..i-1 : q[k].id # q[i].id) => Fits(q[i], q[j].row)
  /\ \A g \in GroupIDs : (\A k \in 1..Len(q) : q[k].id # g) => r[g] = f[g]
  /\ \A j \in 1..Len(q) : (\A k \in j+1..Len(q) : q[k].id # q[j].id) => q[j].row = f[q[j].id]

InMemory == [g \in GroupIDs |-> Saved(g)]
Database == clean => Follows(rows, queue, InMemory)

IInv == TypeOK /\ AllProper /\ ObjectsApart /\ PointersHold /\ OneGroupEach /\ Database

-----------------------------------------------------------------------------
\* A set of numbers up to n that is not empty has a maximum.
LEMMA MaxExists ==
  ASSUME NEW n \in Nat, NEW S \in SUBSET (0..n), S # {}
  PROVE  Max(S) \in S /\ \A y \in S : Max(S) >= y
<1> DEFINE U == {m..n : m \in S}
<1>1. U \subseteq FiniteSubsetsOf(0..n)
  BY FS_Interval, FS_Subset DEF FiniteSubsetsOf
<1>2. \E x \in U : \A y \in U : ~ (<<y, x>> \in StrictSubsetOrdering(0..n))
  <2>1. U # {}
    OBVIOUS
  <2> QED BY <1>1, <2>1, WFMin, FS_StrictSubsetOrderingWellFounded
<1>3. PICK x \in S : \A y \in S : ~ (<<y..n, x..n>> \in StrictSubsetOrdering(0..n))
  BY <1>2
<1>4. ASSUME NEW y \in S, y > x PROVE FALSE
  <2>1. y..n \subseteq x..n /\ x \in x..n /\ x \notin y..n
    BY <1>4
  <2>2. y..n \in SUBSET (0..n) /\ x..n \in SUBSET (0..n)
    OBVIOUS
  <2>3. <<y..n, x..n>> \in StrictSubsetOrdering(0..n)
    BY <2>1, <2>2 DEF StrictSubsetOrdering
  <2> QED BY <1>3, <2>3
<1>5. \E z \in S : \A y \in S : z >= y
  BY <1>4
<1> QED BY <1>5 DEF Max

\* Two sequences joined, position by position.
LEMMA Joined ==
  ASSUME NEW S, NEW a \in Seq(S), NEW b \in Seq(S)
  PROVE  /\ a \o b \in Seq(S) /\ Len(a \o b) = Len(a) + Len(b)
         /\ \A j \in 1..(Len(a) + Len(b)) : (a \o b)[j] = IF j <= Len(a) THEN a[j] ELSE b[j - Len(a)]
OBVIOUS

\* What RemoveAt leaves of a sequence, position by position.
LEMMA Removed ==
  ASSUME NEW S, NEW q \in Seq(S), NEW i \in 1..Len(q)
  PROVE  /\ RemoveAt(q, i) \in Seq(S)
         /\ Len(RemoveAt(q, i)) = Len(q) - 1
         /\ \A j \in 1..(Len(q) - 1) : RemoveAt(q, i)[j] = IF j < i THEN q[j] ELSE q[j + 1]
<1> DEFINE a == SubSeq(q, 1, i - 1)
           b == SubSeq(q, i + 1, Len(q))
<1>1. /\ a \in Seq(S) /\ Len(a) = i - 1 /\ Len(q) \in Nat
      /\ \A j \in 1..i-1 : a[j] = q[j]
  OBVIOUS
<1>2. /\ b \in Seq(S) /\ Len(b) = Len(q) - i
      /\ \A j \in 1..(Len(q) - i) : b[j] = q[i + j]
  OBVIOUS
<1>3. RemoveAt(q, i) = a \o b
  BY DEF RemoveAt
<1> HIDE DEF a, b
<1>4. /\ a \o b \in Seq(S) /\ Len(a \o b) = Len(a) + Len(b)
      /\ \A j \in 1..(Len(a) + Len(b)) : (a \o b)[j] = IF j <= Len(a) THEN a[j] ELSE b[j - Len(a)]
  BY <1>1, <1>2, Joined
<1>5. Len(a) + Len(b) = Len(q) - 1
  BY <1>1, <1>2
<1>6. ASSUME NEW j \in 1..(Len(q) - 1)
      PROVE  (a \o b)[j] = IF j < i THEN q[j] ELSE q[j + 1]
  <2>1. CASE j < i
    BY <1>1, <1>4, <1>5, <2>1
  <2>2. CASE j >= i
    <3>1. j - (i - 1) \in 1..(Len(q) - i) /\ i + (j - (i - 1)) = j + 1
      BY <1>1, <2>2
    <3>2. b[j - (i - 1)] = q[j + 1]
      BY <1>2, <3>1
    <3> QED BY <1>1, <1>4, <1>5, <2>2, <3>2
  <2>3. j < i \/ j >= i
    BY <1>1
  <2> QED BY <2>1, <2>2, <2>3
<1> QED BY <1>3, <1>4, <1>5, <1>6

\* One more statement that takes effect on what the others lead to.
LEMMA AppendFollows ==
  ASSUME NEW S, NEW q \in Seq(S), NEW s \in S, NEW r, NEW f \in [GroupIDs -> Rows],
         Follows(r, q, f), s.id \in GroupIDs, Fits(s, f[s.id])
  PROVE  Follows(r, Append(q, s), [f EXCEPT ![s.id] = s.row])
<1> DEFINE p == Append(q, s)
           f2 == [f EXCEPT ![s.id] = s.row]
<1>1. /\ Len(q) \in Nat /\ Len(p) = Len(q) + 1 /\ p[Len(q) + 1] = s
      /\ \A i \in 1..Len(q) : p[i] = q[i]
  OBVIOUS
<1> HIDE DEF p
<1>2. \A i \in 1..Len(p) : p[i].id \in GroupIDs
  BY <1>1 DEF Follows
<1>3. ASSUME NEW i \in 1..Len(p), \A k \in 1..i-1 : p[k].id # p[i].id
      PROVE  Fits(p[i], r[p[i].id])
  <2>1. CASE i \in 1..Len(q)
    <3>1. \A k \in 1..i-1 : q[k].id # q[i].id
      BY <1>1, <1>3, <2>1
    <3> QED BY <1>1, <2>1, <3>1 DEF Follows
  <2>2. CASE i = Len(q) + 1
    BY <1>1, <1>3, <2>2 DEF Follows
  <2> QED BY <1>1, <2>1, <2>2
<1>4. ASSUME NEW i \in 1..Len(p), NEW j \in 1..i-1,
             p[j].id = p[i].id, \A k \in j+1..i-1 : p[k].id # p[i].id
      PROVE  Fits(p[i], p[j].row)
  <2>1. CASE i \in 1..Len(q)
    BY <1>1, <1>4, <2>1 DEF Follows
  <2>2. CASE i = Len(q) + 1
    BY <1>1, <1>4, <2>2 DEF Follows
  <2> QED BY <1>1, <2>1, <2>2
<1>5. ASSUME NEW g \in GroupIDs, \A k \in 1..Len(p) : p[k].id # g
      PROVE  r[g] = f2[g]
  BY <1>1, <1>5 DEF Follows
<1>6. ASSUME NEW j \in 1..Len(p), \A k \in j+1..Len(p) : p[k].id # p[j].id
      PROVE  p[j].row = f2[p[j].id]
  BY <1>1, <1>6 DEF Follows
<1>7. Follows(r, p, f2)
  BY <1>2, <1>3, <1>4, <1>5, <1>6 DEF Follows
<1> QED BY <1>7 DEF p

\* The first statement about its group is executed.
LEMMA RemoveFollows ==
  ASSUME NEW S, NEW q \in Seq(S), NEW r \in [GroupIDs -> Rows], NEW f,
         Follows(r, q, f), NEW n \in 1..Len(q), \A k \in 1..n-1 : q[k].id # q[n].id
  PROVE  Follows([r EXCEPT ![q[n].id] = q[n].row], RemoveAt(q, n), f)
<1> DEFINE p == RemoveAt(q, n)
           r2 == [r EXCEPT ![q[n].id] = q[n].row]
           old(j) == IF j < n THEN j ELSE j + 1
           new(k) == IF k < n THEN k ELSE k - 1
<1>1. \A i \in 1..Len(p) : /\ old(i) \in 1..Len(q) /\ old(i) # n /\ p[i] = q[old(i)]
                           /\ new(old(i)) = i /\ q[old(i)].id \in GroupIDs
  <2>1. ASSUME NEW i \in 1..Len(p)
        PROVE  old(i) \in 1..Len(q) /\ old(i) # n /\ p[i] = q[old(i)] /\ new(old(i)) = i
    <3>1. i \in 1..(Len(q) - 1) /\ Len(q) \in Nat
      BY Removed
    <3>2. p[i] = IF i < n THEN q[i] ELSE q[i + 1]
      BY Removed, <3>1
    <3> QED BY <3>1, <3>2
  <2>2. \A j \in 1..Len(q) : q[j].id \in GroupIDs
    BY DEF Follows
  <2> QED BY <2>1, <2>2
<1>2. \A k \in 1..Len(q) : k # n => new(k) \in 1..Len(p) /\ old(new(k)) = k
  BY Removed
<1>3. \A i, j \in 1..Len(p) : i < j <=> old(i) < old(j)
  BY Removed
<1>4. Len(q) \in Nat /\ Len(p) \in Nat
  BY Removed
<1> HIDE DEF p, old, new
<1>5. \A k \in 1..Len(q) : k # n => q[k] = p[new(k)]
  BY <1>1, <1>2
<1>6. ASSUME NEW i \in 1..Len(p), \A k \in 1..i-1 : p[k].id # p[i].id
      PROVE  Fits(p[i], r2[p[i].id])
  <2>1. ASSUME NEW k \in 1..(old(i) - 1), k # n PROVE q[k].id # q[old(i)].id
    <3>1. k \in 1..Len(q) /\ k < old(i)
      BY <1>1, <1>4
    <3>2. new(k) \in 1..Len(p) /\ new(k) < i
      BY <1>1, <1>2, <1>3, <2>1, <3>1
    <3>3. new(k) \in 1..i-1
      BY <1>4, <3>2
    <3>4. p[new(k)].id # p[i].id
      BY <1>6, <3>3
    <3>5. p[new(k)] = q[k] /\ p[i] = q[old(i)]
      BY <1>1, <1>5, <2>1, <3>1
    <3> QED BY <3>4, <3>5
  <2>2. CASE q[n].id = q[old(i)].id /\ n < old(i)
    <3>1. Fits(q[old(i)], q[n].row)
      <4>1. \A k \in n+1..old(i)-1 : q[k].id # q[old(i)].id
        BY <1>1, <1>4, <2>1
      <4>2. old(i) \in 1..Len(q) /\ n \in 1..old(i)-1
        BY <1>1, <1>4, <2>2
      <4> QED BY <2>2, <4>1, <4>2 DEF Follows
    <3> QED BY <1>1, <2>2, <3>1
  <2>3. CASE q[n].id = q[old(i)].id /\ n > old(i)
    BY <1>1, <1>4, <2>3
  <2>4. CASE q[n].id # q[old(i)].id
    <3>1. \A k \in 1..(old(i) - 1) : q[k].id # q[old(i)].id
      BY <2>1, <2>4
    <3>2. Fits(q[old(i)], r[q[old(i)].id])
      BY <1>1, <3>1 DEF Follows
    <3> QED BY <1>1, <2>4, <3>2
  <2> QED BY <1>1, <1>4, <2>2, <2>3, <2>4
<1>7. ASSUME NEW i \in 1..Len(p), NEW j \in 1..i-1,
             p[j].id = p[i].id, \A k \in j+1..i-1 : p[k].id # p[i].id
      PROVE  Fits(p[i], p[j].row)
  <2>1. j \in 1..Len(p) /\ j < i
    BY <1>4
  <2>2. old(j) \in 1..(old(i) - 1) /\ q[old(j)].id = q[old(i)].id
    BY <1>1, <1>3, <1>7, <2>1
  <2>3. ASSUME NEW k \in (old(j) + 1)..(old(i) - 1) PROVE q[k].id # q[old(i)].id
    <3>1. k \in 1..Len(q) /\ old(j) < k /\ k < old(i)
      BY <1>1, <1>4, <2>1
    <3>2. CASE k = n
      BY <1>1, <2>1, <2>2, <3>1, <3>2
    <3>3. CASE k # n
      <4>1. new(k) \in 1..Len(p) /\ j < new(k) /\ new(k) < i
        BY <1>2, <1>3, <2>1, <3>1, <3>3
      <4>2. new(k) \in j+1..i-1
        BY <1>4, <2>1, <4>1
      <4>3. p[new(k)].id # p[i].id
        BY <1>7, <4>2
      <4>4. p[new(k)] = q[k] /\ p[i] = q[old(i)]
        BY <1>1, <1>5, <3>1, <3>3
      <4> QED BY <4>3, <4>4
    <3> QED BY <3>2, <3>3
  <2>4. Fits(q[old(i)], q[old(j)].row)
    BY <1>1, <2>2, <2>3 DEF Follows
  <2> QED BY <1>1, <2>1, <2>4
<1>8. ASSUME NEW g \in GroupIDs, \A k \in 1..Len(p) : p[k].id # g
      PROVE  r2[g] = f[g]
  <2>1. \A k \in 1..Len(q) : k # n => q[k].id # g
    BY <1>2, <1>5, <1>8
  <2>2. CASE q[n].id = g
    <3>1. \A k \in n+1..Len(q) : q[k].id # q[n].id
      BY <1>4, <2>1, <2>2
    <3> QED BY <2>2, <3>1 DEF Follows
  <2>3. CASE q[n].id # g
    <3>1. \A k \in 1..Len(q) : q[k].id # g
      BY <2>1, <2>3
    <3> QED BY <2>3, <3>1 DEF Follows
  <2> QED BY <2>2, <2>3
<1>9. ASSUME NEW j \in 1..Len(p), \A k \in j+1..Len(p) : p[k].id # p[j].id
      PROVE  p[j].row = f[p[j].id]
  <2>1. ASSUME NEW k \in (old(j) + 1)..Len(q) PROVE q[k].id # q[old(j)].id
    <3>1. k \in 1..Len(q) /\ old(j) < k
      BY <1>1, <1>4
    <3>2. CASE k = n
      BY <1>1, <1>4, <3>1, <3>2
    <3>3. CASE k # n
      <4>1. new(k) \in 1..Len(p) /\ j < new(k)
        BY <1>2, <1>3, <3>1, <3>3
      <4>2. new(k) \in j+1..Len(p)
        BY <1>4, <4>1
      <4>3. p[new(k)].id # p[j].id
        BY <1>9, <4>2
      <4>4. p[new(k)] = q[k] /\ p[j] = q[old(j)]
        BY <1>1, <1>5, <3>1, <3>3
      <4> QED BY <4>3, <4>4
    <3> QED BY <3>2, <3>3
  <2> QED BY <1>1, <2>1 DEF Follows
<1>10. Follows(r2, p, f)
  BY <1>1, <1>6, <1>7, <1>8, <1>9 DEF Follows
<1> QED BY <1>10 DEF p

-----------------------------------------------------------------------------
Statements == [op : {"insert", "update", "delete"}, id : 0..MaxID, row : Rows]

\* What Submit does to the queue.
LEMMA SubmitOne ==
  ASSUME TypeOK, NEW s \in Statements, Submit(<<s>>)
  PROVE  queue' = Append(queue, s) /\ queue' \in Seq(Statements)
BY DEF TypeOK, Submit, Statements

LEMMA SubmitTwo ==
  ASSUME TypeOK, NEW s \in Statements, NEW t \in Statements, Submit(<<s, t>>)
  PROVE  queue' = Append(Append(queue, s), t) /\ queue' \in Seq(Statements)
BY DEF TypeOK, Submit, Statements

\* The statements of the game are statements.
LEMMA StatementTypes ==
  ASSUME NEW g \in GroupIDs, NEW l \in Accounts \cup {Nobody}, NEW m \in SUBSET Accounts
  PROVE  /\ Row(l, m) \in Rows /\ NoRow \in Rows
         /\ Insert(g, Row(l, m)) \in Statements /\ Update(g, Row(l, m)) \in Statements
         /\ Delete(g) \in Statements /\ Delete(0) \in Statements
BY GroupsAssumption DEF Row, Rows, NoRow, Insert, Update, Delete, Statements, GroupIDs

\* HighestID is a row's, if there is one, and no row's is higher.
LEMMA HighestIsMax ==
  HighestID \in 0..MaxID /\ \A g \in GroupIDs : rows[g] # NoRow => g <= HighestID
<1> DEFINE S == {0} \cup {g \in GroupIDs : rows[g] # NoRow}
<1>1. S \in SUBSET (0..MaxID) /\ S # {} /\ MaxID \in Nat
  BY GroupsAssumption DEF GroupIDs
<1> QED BY <1>1, MaxExists DEF HighestID, GroupIDs

\* What taking a member out leaves, whoever leads then, and what is submitted.
RemovedTo(g, a, l) ==
  LET rest == groups[g].members \ {a} IN
  /\ rest # {} /\ clean' = clean /\ l \in NextLeader(g, rest)
  /\ groups' = [groups EXCEPT ![g] = Group(@.obj, Row(l, rest))]
  /\ queue' \in {Append(queue, Update(g, Row(l, rest))),
                 Append(Append(queue, Update(g, Row(l, rest))), Update(g, Row(l, rest)))}

\* RemoveMember disbands the group, or leaves one with a leader.
LEMMA RemoveSplits ==
  ASSUME TypeOK, NEW g \in GroupIDs, NEW a \in Accounts, RemoveMember(g, a)
  PROVE  /\ a \in groups[g].members /\ Unlink(a) /\ \A c \in Clients : on[c] = a => Has(c, g)
         /\ \/ groups[g].members = {a} /\ Disband(g)
            \/ \E l \in groups[g].members \ {a} :
                 RemovedTo(g, a, l) /\ queue' \in Seq(Statements)
<1> DEFINE rest == groups[g].members \ {a}
           save(l) == Update(g, Row(l, rest))
<1>1. CASE rest # {}
  <2>1. /\ clean' = clean /\ a \in groups[g].members /\ Unlink(a)
        /\ \A c \in Clients : on[c] = a => Has(c, g)
    BY <1>1 DEF RemoveMember
  <2>2. PICK l \in NextLeader(g, rest) :
          /\ groups' = [groups EXCEPT ![g] = Group(@.obj, Row(l, rest))]
          /\ Submit(IF a = groups[g].leader THEN <<save(l), save(l)>> ELSE <<save(l)>>)
    BY <1>1 DEF RemoveMember
  <2>3. l \in rest /\ rest \in SUBSET Accounts
    BY <2>2 DEF NextLeader, TypeOK
  <2>4. save(l) \in Statements
    BY <2>3, StatementTypes
  <2>5. /\ queue' \in {Append(queue, save(l)), Append(Append(queue, save(l)), save(l))}
        /\ queue' \in Seq(Statements)
    BY <2>2, <2>4, SubmitOne, SubmitTwo
  <2> QED BY <1>1, <2>1, <2>2, <2>3, <2>5 DEF RemovedTo
<1>2. CASE rest = {}
  BY <1>2 DEF RemoveMember
<1> QED BY <1>1, <1>2

\* A disbanded group is gone, and so is its row, or one that does not exist.
LEMMA DisbandSplits ==
  ASSUME TypeOK, NEW g \in GroupIDs, Disband(g)
  PROVE  /\ groups' = [groups EXCEPT ![g] = NoGroup] /\ queue' \in Seq(Statements)
         /\ groups' \in [GroupIDs -> [obj : Nat, leader : Accounts \cup {Nobody}, members : SUBSET Accounts]]
         /\ clean' \in BOOLEAN
         /\ \/ queue' = Append(queue, Delete(g)) /\ clean' = clean
            \/ queue' = Append(queue, Delete(0)) /\ clean' = FALSE
<1>1. PICK id \in {g, 0} : Submit(<<Delete(id)>>) /\ clean' = (clean /\ id = g)
  BY DEF Disband
<1>2. Delete(id) \in Statements
  BY GroupsAssumption DEF Delete, Statements, GroupIDs, NoRow, Rows
<1>3. queue' = Append(queue, Delete(id)) /\ queue' \in Seq(Statements)
  BY <1>1, <1>2, SubmitOne
<1>4. g # 0
  BY GroupsAssumption DEF GroupIDs
<1>5. groups' = [groups EXCEPT ![g] = NoGroup]
  BY DEF Disband
<1>6. NoGroup \in [obj : Nat, leader : Accounts \cup {Nobody}, members : SUBSET Accounts]
  BY DEF NoGroup
<1>7. groups' \in [GroupIDs -> [obj : Nat, leader : Accounts \cup {Nobody}, members : SUBSET Accounts]]
  BY <1>5, <1>6 DEF TypeOK
<1>8. \/ queue' = Append(queue, Delete(g)) /\ clean' = clean
      \/ queue' = Append(queue, Delete(0)) /\ clean' = FALSE
  BY <1>1, <1>3, <1>4 DEF TypeOK
<1>9. clean' \in BOOLEAN
  BY <1>1
<1> QED BY <1>3, <1>5, <1>7, <1>8, <1>9

-----------------------------------------------------------------------------
\* Every action keeps the types.
LEMMA StepTypes == TypeOK /\ [Next]_vars => TypeOK'
<1> SUFFICES ASSUME TypeOK, [Next]_vars PROVE TypeOK'
  OBVIOUS
<1> USE GroupsAssumption
<1>1. ASSUME NEW c \in Clients, NEW a \in Accounts, Login(c, a) PROVE TypeOK'
  BY <1>1 DEF Login, TypeOK
<1>17. ASSUME NEW c \in Clients, OnPlayerLogin(c) PROVE TypeOK'
  <2>1. entering[c] \in GroupIDs
    BY <1>17 DEF OnPlayerLogin, TypeOK, GroupIDs
  <2>2. pointer' \in [Clients -> Nat] /\ entering' \in [Clients -> 0..MaxID]
    BY <1>17, <2>1 DEF OnPlayerLogin, TypeOK, GroupIDs
  <2>3. on[c] # Nobody
    BY <1>17 DEF OnPlayerLogin, TypeOK
  <2> QED BY <1>17, <2>1, <2>2, <2>3 DEF OnPlayerLogin, TypeOK
<1>2. ASSUME NEW c \in Clients, Logout(c) PROVE TypeOK'
  BY <1>2 DEF Logout, TypeOK
<1>3. ASSUME NEW c \in Clients, ShowGroupMenu(c) PROVE TypeOK'
  BY <1>3 DEF ShowGroupMenu, TypeOK
<1>4. ASSUME NEW c \in Clients, NEW d \in Clients, Invite(c, d) PROVE TypeOK'
  BY <1>4 DEF Invite, TypeOK
<1>5. ASSUME NEW c \in Clients, CloseVote(c) PROVE TypeOK'
  BY <1>5 DEF CloseVote, TypeOK
<1>6. ASSUME NEW c \in Clients, CreateGroup(c) PROVE TypeOK'
  <2>1. PICK id \in GroupIDs :
          /\ groups' = [groups EXCEPT ![id] = Group(made + 1, Row(on[c], {on[c]}))]
          /\ Submit(<<Insert(id, Row(on[c], {on[c]}))>>)
          /\ clean' = (clean /\ ~Live(id))
    BY <1>6 DEF CreateGroup
  <2>2. on[c] \in Accounts /\ clean' \in BOOLEAN
    BY <1>6, <2>1 DEF CreateGroup, TypeOK, Live
  <2>3. queue' \in Seq(Statements)
    <3>1. Insert(id, Row(on[c], {on[c]})) \in Statements
      BY <2>2, StatementTypes
    <3> QED BY <2>1, <3>1, SubmitOne
  <2>4. early' \in SUBSET Accounts
    BY <1>6, <2>2 DEF CreateGroup, JoinsEarly, TypeOK
  <2> QED BY <1>6, <2>1, <2>2, <2>3, <2>4 DEF CreateGroup, TypeOK, Group, Row, Statements
<1>7. ASSUME NEW c \in Clients, AcceptVote(c) PROVE TypeOK'
  <2>1. PICK g \in GroupIDs : Add(g, c)
    BY <1>7 DEF AcceptVote, TypeOK
  <2>2. on[c] \in Accounts
    BY <1>7 DEF AcceptVote, TypeOK
  <2>3. queue' \in Seq(Statements)
    <3> DEFINE m == groups[g].members \cup {on[c]}
    <3>1. groups[g].leader \in Accounts \cup {Nobody} /\ m \in SUBSET Accounts
      BY <2>2 DEF TypeOK
    <3>2. Update(g, Row(groups[g].leader, m)) \in Statements
      BY <3>1, StatementTypes
    <3>3. Submit(<<Update(g, Row(groups[g].leader, m))>>)
      BY <2>1 DEF Add
    <3> QED BY <3>2, <3>3, SubmitOne
  <2>4. groups' \in [GroupIDs -> [obj : Nat, leader : Accounts \cup {Nobody}, members : SUBSET Accounts]]
    BY <2>1, <2>2 DEF Add, TypeOK, Group, Row
  <2>5. pointer' \in [Clients -> Nat] /\ \A d \in Clients : on[d] = Nobody => pointer'[d] = 0
    BY <2>1, <2>2 DEF Add, TypeOK
  <2>6. UNCHANGED <<made, on, entering, menu, votes, aborted, rows, clean>> /\ early' \in SUBSET Accounts
    BY <1>7, <2>2 DEF AcceptVote, JoinsEarly, TypeOK
  <2> QED BY <2>3, <2>4, <2>5, <2>6 DEF TypeOK, Statements
<1>8. ASSUME NEW g \in GroupIDs, NEW a \in Accounts, RemoveMember(g, a),
             UNCHANGED <<made, on, entering, menu, votes, aborted, rows, early>>
      PROVE TypeOK'
  <2>1. /\ groups' \in [GroupIDs -> [obj : Nat, leader : Accounts \cup {Nobody}, members : SUBSET Accounts]]
        /\ queue' \in Seq(Statements) /\ clean' \in BOOLEAN
    <3>1. CASE Disband(g)
      BY <3>1, DisbandSplits
    <3>2. ASSUME NEW l \in groups[g].members \ {a}, RemovedTo(g, a, l), queue' \in Seq(Statements)
          PROVE  /\ groups' \in [GroupIDs -> [obj : Nat, leader : Accounts \cup {Nobody}, members : SUBSET Accounts]]
                 /\ queue' \in Seq(Statements) /\ clean' \in BOOLEAN
      BY <3>2 DEF RemovedTo, TypeOK, Group, Row
    <3> QED BY <1>8, <3>1, <3>2, RemoveSplits
  <2>2. pointer' \in [Clients -> Nat] /\ \A c \in Clients : pointer[c] = 0 => pointer'[c] = 0
    <3>1. pointer \in [Clients -> Nat]
      BY DEF TypeOK
    <3>2. pointer' = [c \in Clients |-> IF on[c] = a THEN 0 ELSE pointer[c]]
      BY <1>8, RemoveSplits DEF Unlink
    <3> QED BY <3>1, <3>2
  <2> QED BY <1>8, <2>1, <2>2 DEF TypeOK, Statements
<1>9. ASSUME NEW c \in Clients, DisbandGroup(c) PROVE TypeOK'
  <2>1. PICK g \in GroupIDs : Disband(g)
    BY <1>9 DEF DisbandGroup
  <2>2. /\ groups' \in [GroupIDs -> [obj : Nat, leader : Accounts \cup {Nobody}, members : SUBSET Accounts]]
        /\ queue' \in Seq(Statements) /\ clean' \in BOOLEAN
    BY <2>1, DisbandSplits
  <2> QED BY <1>9, <2>2 DEF DisbandGroup, TypeOK, Statements
<1>10. ASSUME NEW c \in Clients, NEW a \in Accounts, ChangeOwner(c, a) PROVE TypeOK'
  <2>1. CASE UNCHANGED <<groups, queue>>
    BY <1>10, <2>1 DEF ChangeOwner, TypeOK
  <2>2. ASSUME NEW g \in GroupIDs,
               groups' = [groups EXCEPT ![g] = Group(@.obj, Row(a, @.members))],
               Submit(<<Update(g, Row(a, groups[g].members))>>), aborted' = aborted
        PROVE  TypeOK'
    <3>1. Update(g, Row(a, groups[g].members)) \in Statements
      BY StatementTypes DEF TypeOK
    <3>2. queue' \in Seq(Statements)
      BY <2>2, <3>1, SubmitOne
    <3> QED BY <1>10, <2>2, <3>2 DEF ChangeOwner, TypeOK, Group, Row, Statements
  <2> QED BY <1>10, <2>1, <2>2 DEF ChangeOwner
<1>11. ASSUME NEW i \in 1..Len(queue), Execute(i) PROVE TypeOK'
  <2>1. queue' \in Seq(Statements) /\ queue[i] \in Statements
    <3>1. queue \in Seq(Statements)
      BY DEF TypeOK, Statements
    <3> QED BY <1>11, <3>1, Removed DEF Execute
  <2>2. rows' \in [GroupIDs -> Rows]
    BY <1>11, <2>1 DEF Execute, Effect, TypeOK, Statements
  <2> QED BY <1>11, <2>1, <2>2 DEF Execute, TypeOK, memory, Statements
<1>12. ASSUME NEW i \in 1..Len(queue), GiveUp(i) PROVE TypeOK'
  BY <1>12, Removed DEF GiveUp, TypeOK, memory
<1>13. CASE Restart
  <2>1. made' \in Nat
    BY <1>13, HighestIsMax DEF Restart
  <2>2. groups' \in [GroupIDs -> [obj : Nat, leader : Accounts \cup {Nobody}, members : SUBSET Accounts]]
    BY <1>13 DEF Restart, TypeOK, Group, NoGroup, Rows, GroupIDs
  <2> QED BY <1>13, <2>1, <2>2 DEF Restart, TypeOK
<1>14. CASE UNCHANGED vars
  BY <1>14 DEF vars, memory, TypeOK
<1>15. ASSUME NEW c \in Clients, Leave(c) PROVE TypeOK'
  BY <1>8, <1>15 DEF Leave, TypeOK
<1>16. ASSUME NEW c \in Clients, NEW a \in Accounts, Kick(c, a) PROVE TypeOK'
  BY <1>8, <1>16 DEF Kick
<1> QED BY <1>1, <1>2, <1>3, <1>4, <1>5, <1>6, <1>7, <1>9, <1>10, <1>11, <1>12, <1>13,
           <1>14, <1>15, <1>16, <1>17 DEF Next, Command

-----------------------------------------------------------------------------
(* What the commands of the players come down to *)

Created(c, id) ==
  /\ on[c] \in Accounts /\ ~HasGroup(c)
  /\ groups' = [groups EXCEPT ![id] = Group(made + 1, Row(on[c], {on[c]}))]
  /\ queue' = Append(queue, Insert(id, Row(on[c], {on[c]})))
  /\ clean' = (clean /\ ~Live(id))
  /\ pointer' = [pointer EXCEPT ![c] = made + 1] /\ made' = made + 1
  /\ JoinsEarly(c)
  /\ UNCHANGED <<on, entering, rows>>

Entered(d, g) ==
  LET row == Row(groups[g].leader, groups[g].members \cup {on[d]}) IN
  /\ on[d] \in Accounts /\ Live(g) /\ Admits(g, d)
  /\ groups' = [groups EXCEPT ![g] = Group(@.obj, row)]
  /\ queue' = Append(queue, Update(g, row))
  /\ pointer' = [pointer EXCEPT ![d] = groups[g].obj]
  /\ JoinsEarly(d)
  /\ UNCHANGED <<made, on, entering, rows, clean>>

Removes(g, a, l) ==
  /\ a \in groups[g].members /\ \A c \in Clients : on[c] = a => Has(c, g)
  /\ Unlink(a) /\ RemovedTo(g, a, l)
  /\ UNCHANGED <<made, on, entering, rows, early>>

\* By its leader, or with its last member a.
Disbanded(g) ==
  /\ \/ pointer' = pointer
     \/ \E a \in Accounts : groups[g].members = {a} /\ Unlink(a)
  /\ \/ queue' = Append(queue, Delete(g)) /\ clean' = clean
     \/ queue' = Append(queue, Delete(0)) /\ clean' = FALSE
  /\ groups' = [groups EXCEPT ![g] = NoGroup]
  /\ UNCHANGED <<made, on, entering, rows, early>>

Handed(g, a) ==
  LET row == Row(a, groups[g].members) IN
  /\ a \in groups[g].members
  /\ groups' = [groups EXCEPT ![g] = Group(@.obj, row)]
  /\ queue' = Append(queue, Update(g, row))
  /\ UNCHANGED <<made, on, pointer, entering, rows, clean, early>>

\* Nothing that concerns the groups, except who is logged in on a client and the
\* group his login finds.
Quiet ==
  /\ UNCHANGED <<groups, made, rows, queue, clean, early>>
  /\ \/ \E c \in Clients, a \in Accounts : Login(c, a)
     \/ \E c \in Clients : Logout(c) \/ OnPlayerLogin(c)
     \/ UNCHANGED <<on, pointer, entering>>

LEMMA StepKinds ==
  ASSUME TypeOK, [Next]_vars
  PROVE  \/ Quiet \/ Restart
         \/ \E c \in Clients, g \in GroupIDs : Created(c, g) \/ Entered(c, g)
         \/ \E g \in GroupIDs, a \in Accounts : \/ Handed(g, a)
                                               \/ \E l \in groups[g].members \ {a} : Removes(g, a, l)
         \/ \E g \in GroupIDs : Disbanded(g)
         \/ \E i \in 1..Len(queue) : Execute(i) \/ GiveUp(i)
<1> DEFINE Goal ==
         \/ Quiet \/ Restart
         \/ \E c \in Clients, g \in GroupIDs : Created(c, g) \/ Entered(c, g)
         \/ \E g \in GroupIDs, a \in Accounts : \/ Handed(g, a)
                                               \/ \E l \in groups[g].members \ {a} : Removes(g, a, l)
         \/ \E g \in GroupIDs : Disbanded(g)
         \/ \E i \in 1..Len(queue) : Execute(i) \/ GiveUp(i)
<1>1. ASSUME NEW c \in Clients,
             \/ \E a \in Accounts : Login(c, a)
             \/ OnPlayerLogin(c) \/ Logout(c)
             \/ ShowGroupMenu(c) \/ CloseVote(c) \/ \E d \in Clients : Invite(c, d)
      PROVE  Quiet
  BY <1>1 DEF Quiet, Login, OnPlayerLogin, Logout, ShowGroupMenu, CloseVote, Invite
<1>2. CASE UNCHANGED vars
  BY <1>2 DEF Quiet, vars, memory
<1>3. ASSUME NEW c \in Clients, CreateGroup(c) PROVE \E g \in GroupIDs : Created(c, g)
  <2>1. PICK id \in GroupIDs :
          /\ groups' = [groups EXCEPT ![id] = Group(made + 1, Row(on[c], {on[c]}))]
          /\ Submit(<<Insert(id, Row(on[c], {on[c]}))>>)
          /\ clean' = (clean /\ ~Live(id))
    BY <1>3 DEF CreateGroup
  <2>2. on[c] \in Accounts
    BY <1>3 DEF CreateGroup, TypeOK
  <2>3. Insert(id, Row(on[c], {on[c]})) \in Statements
    BY <2>2, StatementTypes
  <2>4. queue' = Append(queue, Insert(id, Row(on[c], {on[c]})))
    BY <2>1, <2>3, SubmitOne
  <2> QED BY <1>3, <2>1, <2>2, <2>4 DEF CreateGroup, Created
<1>4. ASSUME NEW d \in Clients, AcceptVote(d) PROVE \E g \in GroupIDs : Entered(d, g)
  <2>1. PICK g \in GroupIDs : Live(g) /\ Add(g, d)
    BY <1>4 DEF AcceptVote, TypeOK
  <2> DEFINE row == Row(groups[g].leader, groups[g].members \cup {on[d]})
  <2>2. on[d] \in Accounts /\ UNCHANGED <<made, on, entering, rows, clean>> /\ JoinsEarly(d)
    BY <1>4 DEF AcceptVote, TypeOK
  <2>3. groups[g].leader \in Accounts \cup {Nobody} /\ groups[g].members \cup {on[d]} \in SUBSET Accounts
    BY <2>2 DEF TypeOK
  <2>4. Update(g, row) \in Statements
    BY <2>3, StatementTypes
  <2>5. queue' = Append(queue, Update(g, row))
    BY <2>1, <2>4, SubmitOne DEF Add
  <2> QED BY <2>1, <2>2, <2>5 DEF Add, Entered
<1>5. ASSUME NEW g \in GroupIDs, NEW a \in Accounts, RemoveMember(g, a), UNCHANGED <<made, on, entering, rows, early>>
      PROVE  \/ \E l \in groups[g].members \ {a} : Removes(g, a, l)
             \/ Disbanded(g)
  <2>1. CASE groups[g].members = {a} /\ Disband(g)
    BY <1>5, <2>1, RemoveSplits, DisbandSplits DEF Disbanded
  <2> QED BY <1>5, <2>1, RemoveSplits DEF Removes
<1>6. ASSUME NEW c \in Clients, \/ Leave(c)
                               \/ \E a \in Accounts : Kick(c, a)
      PROVE  Goal
  <2>1. \E g \in GroupIDs, a \in Accounts : RemoveMember(g, a) /\ UNCHANGED <<made, on, entering, rows, early>>
    BY <1>6 DEF Leave, Kick, TypeOK
  <2>2. PICK g \in GroupIDs, a \in Accounts : RemoveMember(g, a) /\ UNCHANGED <<made, on, entering, rows, early>>
    BY <2>1
  <2>3. (\E l \in groups[g].members \ {a} : Removes(g, a, l)) \/ Disbanded(g)
    BY <1>5, <2>2
  <2> QED BY <2>3
<1>7. ASSUME NEW c \in Clients, DisbandGroup(c) PROVE \E g \in GroupIDs : Disbanded(g)
  <2>1. PICK g \in GroupIDs : Disband(g)
    BY <1>7 DEF DisbandGroup
  <2> QED BY <1>7, <2>1, DisbandSplits DEF DisbandGroup, Disbanded
<1>8. ASSUME NEW c \in Clients, NEW a \in Accounts, ChangeOwner(c, a) PROVE Goal
  <2>1. UNCHANGED <<made, on, pointer, entering, rows, clean, early>>
    BY <1>8 DEF ChangeOwner
  <2>2. CASE UNCHANGED <<groups, queue>>
    BY <2>1, <2>2 DEF Quiet
  <2>3. ASSUME NEW g \in GroupIDs, a \in groups[g].members,
               groups' = [groups EXCEPT ![g] = Group(@.obj, Row(a, @.members))],
               Submit(<<Update(g, Row(a, groups[g].members))>>)
        PROVE  Handed(g, a)
    <3>1. Update(g, Row(a, groups[g].members)) \in Statements
      BY StatementTypes DEF TypeOK
    <3> QED BY <2>1, <2>3, <3>1, SubmitOne DEF Handed
  <2> QED BY <1>8, <2>2, <2>3 DEF ChangeOwner
<1> QED BY <1>1, <1>2, <1>3, <1>4, <1>6, <1>7, <1>8 DEF Next, Command

-----------------------------------------------------------------------------
\* What one member more or less does to a group.
LEMMA ProperGroups ==
  ASSUME NEW m \in SUBSET Accounts, NEW l \in Accounts, NEW x \in Accounts
  PROVE  /\ Proper(Row(x, {x}))
         /\ IsFiniteSet(m) /\ l \in m /\ Cardinality(m) < MaxMembers =>
              Proper(Row(l, m \cup {x}))
         /\ IsFiniteSet(m) /\ Cardinality(m) <= MaxMembers /\ l \in m \ {x} =>
              Proper(Row(l, m \ {x}))
<1> USE GroupsAssumption
<1>1. Proper(Row(x, {x}))
  <2>1. IsFiniteSet({x}) /\ Cardinality({x}) = 1 /\ 1 <= MaxMembers
    BY FS_Singleton
  <2> QED BY <2>1 DEF Proper, Row
<1>2. ASSUME IsFiniteSet(m), l \in m, Cardinality(m) < MaxMembers
      PROVE  Proper(Row(l, m \cup {x}))
  <2>1. /\ IsFiniteSet(m \cup {x}) /\ Cardinality(m) \in Nat
        /\ Cardinality(m \cup {x}) = IF x \in m THEN Cardinality(m) ELSE Cardinality(m) + 1
    BY <1>2, FS_AddElement, FS_CardinalityType
  <2> QED BY <1>2, <2>1 DEF Proper, Row
<1>3. ASSUME IsFiniteSet(m), Cardinality(m) <= MaxMembers, l \in m \ {x}
      PROVE  Proper(Row(l, m \ {x}))
  <2>1. /\ IsFiniteSet(m \ {x}) /\ Cardinality(m) \in Nat
        /\ Cardinality(m \ {x}) = IF x \in m THEN Cardinality(m) - 1 ELSE Cardinality(m)
    BY <1>3, FS_RemoveElement, FS_CardinalityType
  <2> QED BY <1>3, <2>1 DEF Proper, Row
<1> QED BY <1>1, <1>2, <1>3

\* The queue after one statement, or the same one twice.
LEMMA QueueMeant ==
  ASSUME TypeOK, AllProper, NEW s \in Statements, Meant(s),
         queue' \in {Append(queue, s), Append(Append(queue, s), s)}
  PROVE  \A i \in 1..Len(queue') : Meant(queue'[i])
<1>1. queue \in Seq(Statements)
  BY DEF TypeOK, Statements
<1>2. ASSUME NEW q \in Seq(Statements), \A i \in 1..Len(q) : Meant(q[i])
      PROVE  \A i \in 1..Len(Append(q, s)) : Meant(Append(q, s)[i])
  <2>1. /\ Len(Append(q, s)) = Len(q) + 1 /\ Append(q, s)[Len(q) + 1] = s /\ Len(q) \in Nat
        /\ \A i \in 1..Len(q) : Append(q, s)[i] = q[i]
    OBVIOUS
  <2> QED BY <1>2, <2>1
<1>3. \A i \in 1..Len(queue) : Meant(queue[i])
  BY DEF AllProper
<1>4. Append(queue, s) \in Seq(Statements)
  BY <1>1
<1>5. \A i \in 1..Len(Append(queue, s)) : Meant(Append(queue, s)[i])
  BY <1>1, <1>2, <1>3
<1>6. \A i \in 1..Len(Append(Append(queue, s), s)) : Meant(Append(Append(queue, s), s)[i])
  BY <1>2, <1>4, <1>5
<1> QED BY <1>5, <1>6

LEMMA StepProper ==
  ASSUME TypeOK, AllProper, [Next]_vars
  PROVE  AllProper'
<1> USE GroupsAssumption
<1> DEFINE GroupsProper == \A g \in GroupIDs : IF Live(g) THEN Proper(groups[g]) ELSE groups[g] = NoGroup
           RowsProper == \A g \in GroupIDs : rows[g] # NoRow => Proper(rows[g])
           QueueProper == \A i \in 1..Len(queue) : Meant(queue[i])
<1>0. SUFFICES GroupsProper' /\ RowsProper' /\ QueueProper'
  BY DEF AllProper, Live
<1>a. GroupsProper /\ RowsProper /\ QueueProper
  BY DEF AllProper
\* One group and one statement change.
<1>b. ASSUME NEW g \in GroupIDs, NEW n \in Nat \ {0}, NEW l \in Accounts, NEW m \in SUBSET Accounts,
             NEW op \in {"insert", "update"}, Proper(Row(l, m)),
             groups' = [groups EXCEPT ![g] = Group(n, Row(l, m))],
             LET s == [op |-> op, id |-> g, row |-> Row(l, m)]
             IN  queue' \in {Append(queue, s), Append(Append(queue, s), s)},
             rows' = rows
      PROVE  GroupsProper' /\ RowsProper' /\ QueueProper'
  <2> DEFINE s == [op |-> op, id |-> g, row |-> Row(l, m)]
  <2>1. GroupsProper'
    <3>1. Proper(Group(n, Row(l, m))) /\ Group(n, Row(l, m)).obj # 0
      BY <1>b DEF Proper, Group, Row
    <3>2. ASSUME NEW h \in GroupIDs
          PROVE  IF groups'[h].obj # 0 THEN Proper(groups'[h]) ELSE groups'[h] = NoGroup
      BY <1>a, <1>b, <3>1 DEF TypeOK, Live
    <3> QED BY <3>2 DEF Live
  <2>2. QueueProper'
    <3>1. s \in Statements /\ Meant(s)
      BY <1>b DEF Statements, Row, Rows, Meant, GroupIDs
    <3>2. queue' \in {Append(queue, s), Append(Append(queue, s), s)}
      BY <1>b
    <3> HIDE DEF s
    <3> QED BY <3>1, <3>2, QueueMeant
  <2> QED BY <1>a, <1>b, <2>1, <2>2
<1>1. CASE Quiet
  BY <1>a, <1>1 DEF Quiet, Live
<1>2. CASE Restart
  <2>1. GroupsProper'
    <3>1. ASSUME NEW g \in GroupIDs
          PROVE  IF groups'[g].obj # 0 THEN Proper(groups'[g]) ELSE groups'[g] = NoGroup
      <4>1. groups'[g] = NoGroup \/ (rows[g] # NoRow /\ groups'[g] = Group(g, rows[g]))
        BY <1>2 DEF Restart
      <4>2. CASE groups'[g] = NoGroup
        BY <4>2 DEF NoGroup
      <4>3. CASE rows[g] # NoRow /\ groups'[g] = Group(g, rows[g])
        <5>1. Proper(rows[g]) /\ groups'[g].obj = g /\ g # 0
          BY <1>a, <4>3 DEF Group, GroupIDs
        <5> QED BY <4>3, <5>1 DEF Group, Proper
      <4> QED BY <4>1, <4>2, <4>3
    <3> QED BY <3>1 DEF Live
  <2> QED BY <1>a, <1>2, <2>1 DEF Restart
<1>3. ASSUME NEW c \in Clients, NEW g \in GroupIDs, Created(c, g)
      PROVE  GroupsProper' /\ RowsProper' /\ QueueProper'
  <2>2. made + 1 \in Nat \ {0} /\ on[c] \in Accounts /\ {on[c]} \in SUBSET Accounts
    BY <1>3 DEF Created, TypeOK
  <2>1. Proper(Row(on[c], {on[c]}))
    BY <2>2, ProperGroups
  <2> QED BY <1>3, <2>1, <2>2, <1>b DEF Created, Insert
<1>4. ASSUME NEW d \in Clients, NEW g \in GroupIDs, Entered(d, g)
      PROVE  GroupsProper' /\ RowsProper' /\ QueueProper'
  <2> DEFINE m == groups[g].members \cup {on[d]}
             l == groups[g].leader
  <2>1. Proper(groups[g]) /\ Cardinality(groups[g].members) < MaxMembers
    <3>1. Proper(groups[g])
      BY <1>a, <1>4 DEF Entered
    <3>2. Cardinality(groups[g].members) \in Nat
      BY <3>1, FS_CardinalityType DEF Proper
    <3> QED BY <1>4, <3>1, <3>2 DEF Entered, Admits, IsFull
  <2>3. groups[g].obj \in Nat \ {0} /\ l \in Accounts /\ m \in SUBSET Accounts
    BY <1>4, <2>1 DEF Entered, TypeOK, Live, Proper
  <2>2. Proper(Row(l, m))
    <3>1. groups[g].members \in SUBSET Accounts /\ on[d] \in Accounts
      BY <1>4 DEF Entered, TypeOK
    <3> QED BY <2>1, <2>3, <3>1, ProperGroups DEF Proper
  <2>4. /\ groups' = [groups EXCEPT ![g] = Group(groups[g].obj, Row(l, m))]
        /\ queue' = Append(queue, [op |-> "update", id |-> g, row |-> Row(l, m)]) /\ rows' = rows
    BY <1>4 DEF Entered, Update
  <2> QED BY <1>b, <2>2, <2>3, <2>4
<1>5. ASSUME NEW g \in GroupIDs, NEW a \in Accounts, NEW l \in groups[g].members \ {a}, Removes(g, a, l)
      PROVE  GroupsProper' /\ RowsProper' /\ QueueProper'
  <2> DEFINE m == groups[g].members \ {a}
  <2>1. Live(g) /\ Proper(groups[g])
    BY <1>a DEF NoGroup
  <2>3. groups[g].obj \in Nat \ {0} /\ l \in Accounts /\ m \in SUBSET Accounts
    BY <2>1 DEF TypeOK, Live
  <2>2. Proper(Row(l, m))
    <3>1. groups[g].members \in SUBSET Accounts
      BY DEF TypeOK
    <3> QED BY <2>1, <2>3, <3>1, ProperGroups DEF Proper
  <2>4. /\ groups' = [groups EXCEPT ![g] = Group(groups[g].obj, Row(l, m))] /\ rows' = rows
        /\ LET s == [op |-> "update", id |-> g, row |-> Row(l, m)]
           IN queue' \in {Append(queue, s), Append(Append(queue, s), s)}
    BY <1>5 DEF Removes, RemovedTo, Update
  <2> QED BY <1>b, <2>2, <2>3, <2>4
<1>6. ASSUME NEW g \in GroupIDs, NEW a \in Accounts, Handed(g, a)
      PROVE  GroupsProper' /\ RowsProper' /\ QueueProper'
  <2> DEFINE m == groups[g].members
  <2>1. Live(g) /\ Proper(groups[g]) /\ a \in m
    BY <1>a, <1>6 DEF NoGroup, Handed
  <2>2. Proper(Row(a, m))
    BY <2>1 DEF Proper, Row
  <2>3. groups[g].obj \in Nat \ {0} /\ m \in SUBSET Accounts
    BY <2>1 DEF TypeOK, Live
  <2>4. /\ groups' = [groups EXCEPT ![g] = Group(groups[g].obj, Row(a, m))]
        /\ queue' = Append(queue, [op |-> "update", id |-> g, row |-> Row(a, m)]) /\ rows' = rows
    BY <1>6 DEF Handed, Update
  <2> QED BY <1>b, <2>2, <2>3, <2>4
<1>7. ASSUME NEW g \in GroupIDs, Disbanded(g)
      PROVE  GroupsProper' /\ RowsProper' /\ QueueProper'
  <2>1. PICK id \in {g, 0} : queue' = Append(queue, Delete(id))
    BY <1>7 DEF Disbanded
  <2>2. Delete(id) \in Statements /\ Meant(Delete(id))
    BY StatementTypes DEF Meant, Delete, Statements, Rows, NoRow, GroupIDs
  <2>3. QueueProper'
    BY <2>1, <2>2, QueueMeant
  <2>4. ASSUME NEW h \in GroupIDs
        PROVE  IF groups'[h].obj # 0 THEN Proper(groups'[h]) ELSE groups'[h] = NoGroup
    BY <1>a, <1>7 DEF Disbanded, TypeOK, Live, NoGroup
  <2> QED BY <1>a, <1>7, <2>3, <2>4 DEF Disbanded, Live
<1>8. ASSUME NEW i \in 1..Len(queue), Execute(i) \/ GiveUp(i)
      PROVE  GroupsProper' /\ RowsProper' /\ QueueProper'
  <2>1. groups' = groups /\ queue' = RemoveAt(queue, i)
    BY <1>8 DEF Execute, GiveUp, memory
  <2>2. queue \in Seq(Statements) /\ Len(queue) \in Nat
    BY DEF TypeOK, Statements
  <2>3. /\ Len(queue') = Len(queue) - 1
        /\ \A j \in 1..(Len(queue) - 1) : queue'[j] = IF j < i THEN queue[j] ELSE queue[j + 1]
    BY <2>1, <2>2, Removed
  <2>4. QueueProper'
    BY <1>a, <2>2, <2>3
  <2>5. RowsProper'
    <3>1. CASE rows' = rows
      BY <1>a, <3>1
    <3>2. CASE rows' = [g \in GroupIDs |-> IF g = queue[i].id THEN queue[i].row ELSE rows[g]]
      BY <1>a, <3>2 DEF Meant
    <3> QED BY <1>8, <3>1, <3>2 DEF Execute, GiveUp, Effect
  <2> QED BY <1>a, <2>1, <2>4, <2>5 DEF Live
<1> QED BY <1>1, <1>2, <1>3, <1>4, <1>5, <1>6, <1>7, <1>8, StepKinds

-----------------------------------------------------------------------------
\* The end of a login gives the player the object of a group that lists him, or
\* leaves him what he has; the group it looked at, if it lists him, is his.
LEMMA LoginFinds ==
  ASSUME NEW c \in Clients, TypeOK, OnPlayerLogin(c)
  PROVE  LET g == entering[c] IN
         /\ g \in GroupIDs /\ on' = on
         /\ \/ /\ Live(g) /\ on[c] \in groups[g].members
               /\ pointer' = [pointer EXCEPT ![c] = groups[g].obj]
            \/ /\ ~(Live(g) /\ on[c] \in groups[g].members)
               /\ pointer' = pointer
         /\ entering' = [entering EXCEPT ![c] = IF g < MaxID THEN g + 1 ELSE 0]
BY GroupsAssumption DEF OnPlayerLogin, TypeOK, GroupIDs

LEMMA StepObjects ==
  ASSUME TypeOK, ObjectsApart, [Next]_vars
  PROVE  ObjectsApart'
<1> DEFINE Numbers == /\ \A g \in GroupIDs : groups[g].obj \in Nat
                      /\ \A c \in Clients : pointer[c] \in Nat
                      /\ made \in Nat
<1>0. Numbers /\ Numbers'
  BY StepTypes DEF TypeOK
<1>1. CASE Quiet
  <2>1. ASSUME NEW c \in Clients, OnPlayerLogin(c)
        PROVE  \A d \in Clients : pointer'[d] <= made
    <3>1. \A d \in Clients : pointer'[d] = pointer[d] \/ \E h \in GroupIDs : pointer'[d] = groups[h].obj
      BY <2>1, LoginFinds DEF TypeOK
    <3> QED BY <1>0, <3>1 DEF ObjectsApart
  <2>2. ASSUME NEW c \in Clients, Logout(c) \/ \E a \in Accounts : Login(c, a)
        PROVE  \A d \in Clients : pointer'[d] <= made
    <3>1. \A d \in Clients : pointer'[d] \in {0, pointer[d]}
      BY <2>2 DEF TypeOK, Logout, Login
    <3> QED BY <1>0, <3>1 DEF ObjectsApart
  <2>3. \A d \in Clients : pointer'[d] <= made
    BY <1>1, <2>1, <2>2 DEF ObjectsApart, Quiet
  <2> QED BY <1>1, <2>3 DEF ObjectsApart, Quiet, Live
<1>2. CASE Restart
  <2>1. \A g \in GroupIDs : groups'[g].obj = 0 \/ (rows[g] # NoRow /\ groups'[g].obj = g)
    <3>1. \A g \in GroupIDs : groups'[g] = NoGroup \/ (rows[g] # NoRow /\ groups'[g] = Group(g, rows[g]))
      BY <1>2 DEF Restart
    <3>2. \A g \in GroupIDs : NoGroup.obj = 0 /\ Group(g, rows[g]).obj = g
      BY DEF Group, NoGroup
    <3> QED BY <3>1, <3>2
  <2>2. \A g \in GroupIDs : groups'[g].obj <= made'
    BY <1>2, <2>1, HighestIsMax DEF Restart, GroupIDs
  <2>3. \A c \in Clients : pointer'[c] <= made'
    BY <1>2, HighestIsMax DEF Restart
  <2> QED BY <2>1, <2>2, <2>3 DEF ObjectsApart, Live, GroupIDs
<1>3. ASSUME NEW c \in Clients, NEW g \in GroupIDs, Created(c, g) PROVE ObjectsApart'
  <2>1. \A h \in GroupIDs : groups'[h].obj = IF h = g THEN made + 1 ELSE groups[h].obj
    BY <1>3 DEF Created, Group, TypeOK
  <2>2. \A d \in Clients : pointer'[d] = IF d = c THEN made + 1 ELSE pointer[d]
    BY <1>3 DEF Created, TypeOK
  <2>3. made' = made + 1
    BY <1>3 DEF Created
  <2> HIDE DEF Numbers
  <2>4. \A h \in GroupIDs : groups'[h].obj <= made'
    BY <1>0, <2>1, <2>3 DEF ObjectsApart, Numbers
  <2>5. \A d \in Clients : pointer'[d] <= made'
    BY <1>0, <2>2, <2>3 DEF ObjectsApart, Numbers
  <2>6. \A h \in GroupIDs : groups[h].obj # made + 1
    BY <1>0 DEF ObjectsApart, Numbers
  <2>7. ASSUME NEW h \in GroupIDs, NEW k \in GroupIDs, groups'[h].obj # 0, groups'[h].obj = groups'[k].obj
        PROVE  h = k
    BY <2>1, <2>6, <2>7 DEF ObjectsApart, Live
  <2> QED BY <2>4, <2>5, <2>7 DEF ObjectsApart, Live
\* Otherwise no group has another object than before, unless it is gone.
<1>4. ASSUME made' = made,
             \A g \in GroupIDs : groups'[g].obj \in {0, groups[g].obj},
             \A c \in Clients : \/ pointer'[c] \in {0, pointer[c]}
                                \/ \E g \in GroupIDs : pointer'[c] = groups[g].obj
      PROVE  ObjectsApart'
  <2>1. \A g \in GroupIDs : groups'[g].obj <= made'
    BY <1>0, <1>4 DEF ObjectsApart
  <2>2. \A c \in Clients : pointer'[c] <= made'
    BY <1>0, <1>4 DEF ObjectsApart
  <2>3. ASSUME NEW h \in GroupIDs, NEW k \in GroupIDs, groups'[h].obj # 0, groups'[h].obj = groups'[k].obj
        PROVE  h = k
    BY <1>4, <2>3 DEF ObjectsApart, Live
  <2> QED BY <2>1, <2>2, <2>3 DEF ObjectsApart, Live
<1>5. ASSUME NEW d \in Clients, NEW g \in GroupIDs, Entered(d, g) PROVE ObjectsApart'
  BY <1>4, <1>5 DEF Entered, Group, TypeOK
<1>6. ASSUME NEW g \in GroupIDs, NEW a \in Accounts, NEW l \in groups[g].members \ {a}, Removes(g, a, l)
      PROVE  ObjectsApart'
  BY <1>4, <1>6 DEF Removes, RemovedTo, Unlink, Group, TypeOK
<1>7. ASSUME NEW g \in GroupIDs, NEW a \in Accounts, Handed(g, a) PROVE ObjectsApart'
  BY <1>4, <1>7 DEF Handed, Group, TypeOK
<1>8. ASSUME NEW g \in GroupIDs, Disbanded(g) PROVE ObjectsApart'
  BY <1>4, <1>8 DEF Disbanded, NoGroup, Unlink, TypeOK
<1>9. ASSUME NEW i \in 1..Len(queue), Execute(i) \/ GiveUp(i) PROVE ObjectsApart'
  BY <1>4, <1>9 DEF Execute, GiveUp, memory
<1> QED BY <1>1, <1>2, <1>3, <1>5, <1>6, <1>7, <1>8, <1>9, StepKinds

LEMMA StepPointers ==
  ASSUME TypeOK, ObjectsApart, PointersHold, [Next]_vars
  PROVE  PointersHold'
<1> USE DEF Has
<1>0. SUFFICES ASSUME NEW c \in Clients, NEW g \in GroupIDs, pointer'[c] # 0, groups'[g].obj = pointer'[c]
      PROVE  on'[c] \in groups'[g].members
  BY DEF PointersHold
<1>1. CASE Quiet
  <2>1. ASSUME NEW d \in Clients, OnPlayerLogin(d)
        PROVE  on'[c] \in groups[g].members
    <3>1. /\ groups' = groups /\ on' = on /\ entering[d] \in GroupIDs
          /\ \/ /\ Live(entering[d]) /\ on[d] \in groups[entering[d]].members
                /\ pointer' = [pointer EXCEPT ![d] = groups[entering[d]].obj]
             \/ pointer' = pointer
      BY <1>1, <2>1, LoginFinds DEF Quiet
    <3>2. CASE pointer'[c] = pointer[c]
      BY <1>0, <3>1, <3>2 DEF PointersHold
    <3>3. CASE pointer'[c] # pointer[c]
      <4>1. /\ c = d /\ Live(entering[d]) /\ on[d] \in groups[entering[d]].members
            /\ pointer'[c] = groups[entering[d]].obj
        BY <3>1, <3>3 DEF TypeOK
      <4>2. g = entering[d]
        BY <1>0, <3>1, <4>1 DEF ObjectsApart
      <4> QED BY <3>1, <4>1, <4>2
    <3> QED BY <3>2, <3>3
  <2>2. ASSUME NEW d \in Clients, Logout(d) \/ \E a \in Accounts : Login(d, a)
        PROVE  on'[c] \in groups[g].members
    BY <1>0, <2>2 DEF PointersHold, TypeOK, Logout, Login
  <2> QED BY <1>0, <1>1, <2>1, <2>2 DEF PointersHold, Quiet
<1>2. CASE Restart
  BY <1>0, <1>2 DEF Restart
<1>3. ASSUME NEW d \in Clients, NEW h \in GroupIDs, Created(d, h) PROVE on'[c] \in groups'[g].members
  <2>1. /\ groups'[g] = IF g = h THEN Group(made + 1, Row(on[d], {on[d]})) ELSE groups[g]
        /\ pointer'[c] = IF c = d THEN made + 1 ELSE pointer[c]
        /\ on' = on
    BY <1>3 DEF Created, TypeOK
  <2>2. groups[g].obj # made + 1 /\ pointer[c] # made + 1
    BY DEF ObjectsApart, TypeOK
  <2> QED BY <1>0, <2>1, <2>2 DEF PointersHold, Group, Row
<1>4. ASSUME NEW d \in Clients, NEW h \in GroupIDs, Entered(d, h) PROVE on'[c] \in groups'[g].members
  BY <1>0, <1>4 DEF Entered, PointersHold, ObjectsApart, Live, Group, Row, TypeOK
<1>5. ASSUME NEW h \in GroupIDs, NEW a \in Accounts, NEW l \in groups[h].members \ {a}, Removes(h, a, l)
      PROVE  on'[c] \in groups'[g].members
  BY <1>0, <1>5 DEF Removes, RemovedTo, Unlink, PointersHold, Group, Row, TypeOK
<1>6. ASSUME NEW h \in GroupIDs, NEW a \in Accounts, Handed(h, a) PROVE on'[c] \in groups'[g].members
  BY <1>0, <1>6 DEF Handed, PointersHold, Group, Row, TypeOK
<1>7. ASSUME NEW h \in GroupIDs, Disbanded(h) PROVE on'[c] \in groups'[g].members
  BY <1>0, <1>7 DEF Disbanded, PointersHold, NoGroup, Unlink, TypeOK
<1>8. ASSUME NEW i \in 1..Len(queue), Execute(i) \/ GiveUp(i) PROVE on'[c] \in groups'[g].members
  BY <1>0, <1>8 DEF Execute, GiveUp, memory, PointersHold
<1> QED BY <1>1, <1>2, <1>3, <1>4, <1>5, <1>6, <1>7, <1>8, StepKinds

\* Restart needs the table to be what is in memory, which only the database's
\* part of the invariant says: a group of the table is one of the program.
LEMMA StepOne ==
  ASSUME TypeOK, AllProper, ObjectsApart, PointersHold, OneGroupEach, Database, [Next]_vars
  PROVE  OneGroupEach'
<1> USE DEF Has
<1>0. SUFFICES ASSUME clean'
      PROVE  /\ \A g, h \in GroupIDs : g # h => groups'[g].members \cap groups'[h].members \subseteq early'
             /\ \A c \in Clients, g \in GroupIDs :
                  on'[c] \in groups'[g].members \ early' /\ (entering'[c] = 0 \/ g < entering'[c])
                    => Has(c, g)'
  BY DEF OneGroupEach, LookedAt
<1> DEFINE Goal == /\ \A g, h \in GroupIDs : g # h => groups'[g].members \cap groups'[h].members \subseteq early'
                   /\ \A c \in Clients, g \in GroupIDs :
                        on'[c] \in groups'[g].members \ early' /\ (entering'[c] = 0 \/ g < entering'[c])
                          => Has(c, g)'
<1>a. clean => /\ \A g, h \in GroupIDs : g # h => groups[g].members \cap groups[h].members \subseteq early
               /\ \A c \in Clients, g \in GroupIDs :
                    on[c] \in groups[g].members \ early /\ (entering[c] = 0 \/ g < entering[c]) => Has(c, g)
  BY DEF OneGroupEach, LookedAt
<1>b. \A g \in GroupIDs : groups[g].members # {} => Live(g)
  BY DEF AllProper, NoGroup
<1>c. \A c \in Clients : on[c] \in Accounts \cup {Nobody} /\ (on[c] = Nobody => pointer[c] = 0)
  BY DEF TypeOK
<1>1. CASE Quiet
  <2>1. clean /\ groups' = groups /\ early' = early
    BY <1>0, <1>1 DEF Quiet
  <2>2. ASSUME NEW d \in Clients, OnPlayerLogin(d) PROVE Goal
    <3> DEFINE e == entering[d]
    <3>1. /\ e \in GroupIDs /\ on' = on
          /\ \/ /\ Live(e) /\ on[d] \in groups[e].members
                /\ pointer' = [pointer EXCEPT ![d] = groups[e].obj]
             \/ /\ ~(Live(e) /\ on[d] \in groups[e].members)
                /\ pointer' = pointer
          /\ entering' = [entering EXCEPT ![d] = IF e < MaxID THEN e + 1 ELSE 0]
      BY <2>2, LoginFinds
    <3> HIDE DEF e
    <3>2. ASSUME NEW c \in Clients, NEW g \in GroupIDs, on[c] \in groups[g].members \ early,
                 entering'[c] = 0 \/ g < entering'[c]
          PROVE  pointer'[c] # 0 /\ groups[g].obj = pointer'[c]
      <4>1. CASE c # d
        <5>1. entering'[c] = entering[c] /\ pointer'[c] = pointer[c]
          BY <3>1, <4>1 DEF TypeOK
        <5> QED BY <1>a, <2>1, <3>2, <5>1
      <4>2. CASE c = d /\ g = e
        <5>1. Live(e) /\ on[d] \in groups[e].members
          BY <1>b, <3>2, <4>2
        <5>2. pointer'[c] = groups[e].obj
          BY <3>1, <4>2, <5>1 DEF TypeOK
        <5> QED BY <4>2, <5>1, <5>2 DEF Live
      <4>3. CASE c = d /\ g # e
        <5>1. g < e
          <6>1. entering'[d] = IF e < MaxID THEN e + 1 ELSE 0
            BY <3>1 DEF TypeOK
          <6> QED BY <3>1, <3>2, <4>3, <6>1, GroupsAssumption DEF GroupIDs
        <5>2. pointer[c] # 0 /\ groups[g].obj = pointer[c]
          BY <1>a, <2>1, <3>2, <4>3, <5>1 DEF e
        <5>3. on[d] \notin groups[e].members
          <6>1. groups[g].members \cap groups[e].members \subseteq early
            BY <1>a, <2>1, <3>1, <4>3
          <6> QED BY <3>2, <4>3, <6>1
        <5>4. pointer' = pointer
          BY <3>1, <5>3
        <5> QED BY <5>2, <5>4
      <4> QED BY <4>1, <4>2, <4>3
    <3> QED BY <1>a, <2>1, <3>1, <3>2
  <2>3. ASSUME NEW d \in Clients, Logout(d) PROVE Goal
    <3>1. /\ \A c \in Clients : c # d => on'[c] = on[c] /\ pointer'[c] = pointer[c] /\ entering'[c] = entering[c]
          /\ \A g \in GroupIDs : on'[d] \notin groups[g].members
      BY <2>3, GroupsAssumption DEF Logout, TypeOK
    <3> QED BY <1>a, <2>1, <3>1
  <2>4. ASSUME NEW d \in Clients, NEW a \in Accounts, Login(d, a) PROVE Goal
    <3>1. /\ \A c \in Clients : c # d => on'[c] = on[c] /\ pointer'[c] = pointer[c] /\ entering'[c] = entering[c]
          /\ entering'[d] = 1 /\ \A g \in GroupIDs : ~ g < 1
      BY <2>4 DEF Login, TypeOK, GroupIDs
    <3> QED BY <1>a, <2>1, <3>1
  <2> QED BY <1>1, <1>a, <2>1, <2>2, <2>3, <2>4 DEF Quiet
<1>2. CASE Restart
  <2>1. clean /\ queue = <<>> /\ early' = early
    BY <1>0, <1>2 DEF Restart
  <2>2. \A g \in GroupIDs : rows[g] = Saved(g)
    BY <2>1 DEF Database, Follows, InMemory
  <2>3. \A g \in GroupIDs : groups'[g].members = groups[g].members
    <3>1. ASSUME NEW g \in GroupIDs
          PROVE  groups'[g].members = groups[g].members
      <4>1. groups'[g] = IF rows[g] # NoRow THEN Group(g, rows[g]) ELSE NoGroup
        BY <1>0, <1>2 DEF Restart
      <4>2. rows[g].members = groups[g].members
        <5>1. rows[g] = Saved(g)
          BY <2>2
        <5> QED BY <5>1 DEF Saved, Row
      <4>3. groups'[g].members = rows[g].members
        BY <4>1 DEF NoRow, NoGroup, Group
      <4> QED BY <4>2, <4>3
    <3> QED BY <3>1
  <2>4. \A c \in Clients, g \in GroupIDs : on'[c] \notin groups'[g].members
    BY <1>2, <2>3, GroupsAssumption DEF Restart, TypeOK
  <2> QED BY <1>a, <2>1, <2>3, <2>4
\* Who founds or joins a group has none, or one the login has yet to look at.
<1>d. ASSUME NEW d \in Clients, clean, ~HasGroup(d), on[d] \in Accounts, JoinsEarly(d)
      PROVE  /\ \A g \in GroupIDs : on[d] \in groups[g].members => on[d] \in early'
             /\ early \subseteq early' /\ early' \subseteq early \cup {on[d]}
  <2>1. early \subseteq early' /\ early' \subseteq early \cup {on[d]}
    BY <1>d DEF JoinsEarly
  <2>2. ASSUME NEW g \in GroupIDs, on[d] \in groups[g].members PROVE on[d] \in early'
    <3>1. CASE entering[d] = 0
      <4>1. on[d] \in early
        BY <1>a, <1>d, <2>2, <3>1 DEF HasGroup
      <4> QED BY <2>1, <4>1
    <3>2. CASE entering[d] # 0
      BY <1>d, <2>2, <3>2 DEF JoinsEarly
    <3> QED BY <3>1, <3>2
  <2> QED BY <2>1, <2>2
<1>3. ASSUME NEW d \in Clients, NEW h \in GroupIDs, Created(d, h) PROVE Goal
  <2>1. clean /\ ~HasGroup(d) /\ on[d] \in Accounts /\ on' = on /\ entering' = entering /\ JoinsEarly(d)
    BY <1>0, <1>3 DEF Created, TypeOK
  <2>2. \A g \in GroupIDs : groups'[g] = IF g = h THEN Group(made + 1, Row(on[d], {on[d]})) ELSE groups[g]
    BY <1>3 DEF Created, TypeOK
  <2>3. /\ \A c \in Clients : pointer'[c] = IF c = d THEN made + 1 ELSE pointer[c]
        /\ made + 1 # 0
    BY <1>3 DEF Created, TypeOK
  <2>4. /\ \A g \in GroupIDs : on[d] \in groups[g].members => on[d] \in early'
        /\ early \subseteq early'
    BY <1>d, <2>1
  <2>5. \A c \in Clients : c # d => on[c] # on[d]
    BY <2>1, GroupsAssumption DEF TypeOK
  <2>6. \A g \in GroupIDs : groups'[g].members = IF g = h THEN {on[d]} ELSE groups[g].members
    BY <2>2 DEF Group, Row
  <2>7. \A g, k \in GroupIDs : g # k => groups'[g].members \cap groups'[k].members \subseteq early'
    <3>1. \A g, k \in GroupIDs : g # k => groups[g].members \cap groups[k].members \subseteq early
      BY <1>a, <2>1
    <3> QED BY <2>4, <2>6, <3>1
  <2>8. ASSUME NEW c \in Clients, NEW g \in GroupIDs, on[c] \in groups'[g].members \ early',
               entering[c] = 0 \/ g < entering[c]
        PROVE  pointer'[c] # 0 /\ groups'[g].obj = pointer'[c]
    <3>1. CASE g = h
      <4>1. c = d
        BY <2>5, <2>6, <2>8, <3>1
      <4> QED BY <2>2, <2>3, <3>1, <4>1 DEF Group
    <3>2. CASE g # h
      <4>1. on[c] \in groups[g].members \ early
        BY <2>4, <2>6, <2>8, <3>2
      <4>2. c # d
        BY <2>4, <2>8, <4>1
      <4>3. pointer[c] # 0 /\ groups[g].obj = pointer[c]
        BY <1>a, <2>1, <2>8, <4>1
      <4> QED BY <2>2, <2>3, <3>2, <4>2, <4>3
    <3> QED BY <3>1, <3>2
  <2> QED BY <2>1, <2>7, <2>8
<1>4. ASSUME NEW d \in Clients, NEW h \in GroupIDs, Entered(d, h) PROVE Goal
  <2>1. /\ clean /\ ~HasGroup(d) /\ on[d] \in Accounts /\ on' = on /\ entering' = entering
        /\ Live(h) /\ JoinsEarly(d)
    BY <1>0, <1>4 DEF Entered, Admits
  <2>2. \A g \in GroupIDs : /\ groups'[g].obj = groups[g].obj
                            /\ groups'[g].members = IF g = h THEN groups[h].members \cup {on[d]} ELSE groups[g].members
    BY <1>4 DEF Entered, TypeOK, Group, Row
  <2>3. \A c \in Clients : pointer'[c] = IF c = d THEN groups[h].obj ELSE pointer[c]
    BY <1>4 DEF Entered, TypeOK
  <2>4. /\ \A g \in GroupIDs : on[d] \in groups[g].members => on[d] \in early'
        /\ early \subseteq early'
    BY <1>d, <2>1
  <2>5. \A c \in Clients : c # d => on[c] # on[d]
    BY <2>1, GroupsAssumption DEF TypeOK
  <2>6. \A g, k \in GroupIDs : g # k => groups'[g].members \cap groups'[k].members \subseteq early'
    <3>1. \A g, k \in GroupIDs : g # k => groups[g].members \cap groups[k].members \subseteq early
      BY <1>a, <2>1
    <3> QED BY <2>2, <2>4, <3>1
  <2>7. ASSUME NEW c \in Clients, NEW g \in GroupIDs, on[c] \in groups'[g].members \ early',
               entering[c] = 0 \/ g < entering[c]
        PROVE  pointer'[c] # 0 /\ groups'[g].obj = pointer'[c]
    <3>1. CASE c = d
      <4>1. g = h
        BY <2>2, <2>4, <2>7, <3>1
      <4> QED BY <2>1, <2>2, <2>3, <3>1, <4>1 DEF Live
    <3>2. CASE c # d
      <4>1. on[c] \in groups[g].members \ early
        BY <2>2, <2>4, <2>5, <2>7, <3>2
      <4>2. pointer[c] # 0 /\ groups[g].obj = pointer[c]
        BY <1>a, <2>1, <2>7, <4>1
      <4> QED BY <2>2, <2>3, <3>2, <4>2
    <3> QED BY <3>1, <3>2
  <2> QED BY <2>1, <2>6, <2>7
<1>5. ASSUME NEW h \in GroupIDs, NEW a \in Accounts, NEW l \in groups[h].members \ {a}, Removes(h, a, l)
      PROVE  Goal
  <2>1. clean /\ on' = on /\ entering' = entering /\ early' = early
    BY <1>0, <1>5 DEF Removes, RemovedTo
  <2>2. \A g \in GroupIDs : /\ groups'[g].obj = groups[g].obj
                            /\ groups'[g].members = IF g = h THEN groups[h].members \ {a} ELSE groups[g].members
    BY <1>5 DEF Removes, RemovedTo, TypeOK, Group, Row
  <2>3. /\ \A c \in Clients : pointer'[c] = IF on[c] = a THEN 0 ELSE pointer[c]
        /\ a \in groups[h].members /\ \A c \in Clients : on[c] = a => Has(c, h)
    BY <1>5 DEF Removes, Unlink
  <2>4. \A g, k \in GroupIDs : g # k => groups'[g].members \cap groups'[k].members \subseteq early
    BY <1>a, <2>1, <2>2
  <2>5. ASSUME NEW c \in Clients, NEW g \in GroupIDs, on[c] \in groups'[g].members \ early,
               entering[c] = 0 \/ g < entering[c]
        PROVE  pointer'[c] # 0 /\ groups'[g].obj = pointer'[c]
    <3>1. CASE on[c] # a
      <4>1. on[c] \in groups[g].members \ early
        BY <2>2, <2>5
      <4> QED BY <1>a, <2>1, <2>2, <2>3, <2>5, <3>1, <4>1
    <3>2. CASE on[c] = a
      <4>1. g # h /\ a \in groups[g].members /\ a \notin early
        BY <2>2, <2>5, <3>2
      <4> QED BY <1>a, <2>1, <2>3, <4>1
    <3> QED BY <3>1, <3>2
  <2> QED BY <2>1, <2>4, <2>5
<1>6. ASSUME NEW h \in GroupIDs, NEW a \in Accounts, Handed(h, a) PROVE Goal
  <2>1. clean /\ on' = on /\ pointer' = pointer /\ entering' = entering /\ early' = early
    BY <1>0, <1>6 DEF Handed
  <2>2. \A g \in GroupIDs : /\ groups'[g].obj = groups[g].obj
                            /\ groups'[g].members = groups[g].members
    BY <1>6 DEF Handed, TypeOK, Group, Row
  <2> QED BY <1>a, <2>1, <2>2
<1>7. ASSUME NEW h \in GroupIDs, Disbanded(h) PROVE Goal
  <2>1. clean /\ on' = on /\ entering' = entering /\ early' = early
    BY <1>0, <1>7 DEF Disbanded
  <2>2. \A g \in GroupIDs : groups'[g] = IF g = h THEN NoGroup ELSE groups[g]
    BY <1>7 DEF Disbanded, TypeOK
  <2>3. \A c \in Clients : \/ pointer'[c] = pointer[c]
                           \/ on[c] \in groups[h].members
    BY <1>7 DEF Disbanded, Unlink
  <2>4. \A g, k \in GroupIDs : g # k => groups'[g].members \cap groups'[k].members \subseteq early
    BY <1>a, <2>1, <2>2 DEF NoGroup
  <2>5. ASSUME NEW c \in Clients, NEW g \in GroupIDs, on[c] \in groups'[g].members \ early,
               entering[c] = 0 \/ g < entering[c]
        PROVE  pointer'[c] # 0 /\ groups'[g].obj = pointer'[c]
    <3>1. g # h /\ groups'[g] = groups[g] /\ on[c] \in groups[g].members \ early
      BY <2>2, <2>5 DEF NoGroup
    <3>2. on[c] \notin groups[h].members
      <4>1. groups[g].members \cap groups[h].members \subseteq early
        BY <1>a, <2>1, <3>1
      <4> QED BY <3>1, <4>1
    <3>3. pointer'[c] = pointer[c]
      BY <2>3, <3>2
    <3> QED BY <1>a, <2>1, <2>5, <3>1, <3>3
  <2> QED BY <2>1, <2>4, <2>5
<1>8. ASSUME NEW i \in 1..Len(queue), Execute(i) \/ GiveUp(i) PROVE Goal
  BY <1>0, <1>8, <1>a DEF Execute, GiveUp, memory
<1> QED BY <1>1, <1>2, <1>3, <1>4, <1>5, <1>6, <1>7, <1>8, StepKinds

-----------------------------------------------------------------------------
\* A group changes, and the statement that says so is submitted, once or twice.
LEMMA SubmitFollows ==
  ASSUME TypeOK, Follows(rows, queue, InMemory), NEW g \in GroupIDs, NEW s \in Statements,
         s.id = g, Fits(s, Saved(g)), NEW x, groups' = [groups EXCEPT ![g] = x], s.row = Row(x.leader, x.members),
         \/ queue' = Append(queue, s)
         \/ queue' = Append(Append(queue, s), s) /\ Fits(s, s.row),
         rows' = rows
  PROVE  Follows(rows, queue, InMemory)'
<1> DEFINE f == [InMemory EXCEPT ![s.id] = s.row]
<1>1. InMemory \in [GroupIDs -> Rows] /\ queue \in Seq(Statements)
  BY DEF TypeOK, InMemory, Saved, Row, Rows, Statements
<1>2. InMemory' = f
  <2>1. InMemory' = [h \in GroupIDs |-> Row(groups'[h].leader, groups'[h].members)]
    BY DEF InMemory, Saved
  <2>2. \A h \in GroupIDs : groups'[h] = IF h = g THEN x ELSE groups[h]
    BY DEF TypeOK
  <2> QED BY <2>1, <2>2 DEF InMemory, Saved
<1>3. InMemory[s.id] = Saved(g) /\ f[s.id] = s.row
  BY <1>1 DEF InMemory
<1>4. Follows(rows, Append(queue, s), f) /\ f \in [GroupIDs -> Rows] /\ Append(queue, s) \in Seq(Statements)
  <2>1. s.row \in Rows /\ Fits(s, InMemory[s.id])
    BY <1>3 DEF Statements
  <2>2. f \in [GroupIDs -> Rows] /\ Append(queue, s) \in Seq(Statements)
    BY <1>1, <2>1
  <2>3. Follows(rows, Append(queue, s), [InMemory EXCEPT ![s.id] = s.row])
    <3> DEFINE F == InMemory
    <3>1. F \in [GroupIDs -> Rows] /\ Follows(rows, queue, F) /\ Fits(s, F[s.id])
      BY <1>1, <2>1
    <3> HIDE DEF F
    <3>2. Follows(rows, Append(queue, s), [F EXCEPT ![s.id] = s.row])
      BY <1>1, <3>1, AppendFollows
    <3> QED BY <3>2 DEF F
  <2> QED BY <2>2, <2>3
<1>5. ASSUME queue' = Append(Append(queue, s), s), Fits(s, s.row)
      PROVE  Follows(rows, Append(Append(queue, s), s), f)
  <2>1. [f EXCEPT ![s.id] = s.row] = f
    BY <1>3, <1>4
  <2> HIDE DEF f
  <2>2. Fits(s, f[s.id])
    BY <1>3, <1>5
  <2>3. Follows(rows, Append(Append(queue, s), s), [f EXCEPT ![s.id] = s.row])
    BY <1>4, <2>2, AppendFollows
  <2> QED BY <2>1, <2>3
<1>6. Follows(rows', queue', InMemory')
  BY <1>2, <1>4, <1>5
<1> QED BY <1>6 DEF Follows

\* A statement of the game fits what the group is: an UPDATE a group that there
\* is, an INSERT one that there is not. The pool executes the first of a group.
LEMMA StepDatabase ==
  ASSUME TypeOK, AllProper, Database, [Next]_vars
  PROVE  Database'
<1> USE GroupsAssumption
<1>0. SUFFICES ASSUME clean' PROVE Follows(rows, queue, InMemory)'
  BY DEF Database
<1>a. queue \in Seq(Statements) /\ rows \in [GroupIDs -> Rows]
  BY DEF TypeOK, Statements
<1>b. \A g \in GroupIDs : IF Live(g) THEN Proper(groups[g]) ELSE groups[g] = NoGroup
  BY DEF AllProper
<1>1. CASE Quiet
  <2>1. clean /\ rows' = rows /\ queue' = queue /\ groups' = groups
    BY <1>0, <1>1 DEF Quiet
  <2>2. InMemory' = InMemory
    BY <2>1 DEF InMemory, Saved
  <2>3. Follows(rows', queue', InMemory')
    BY <2>1, <2>2 DEF Database
  <2> QED BY <2>3 DEF Follows
<1>2. CASE Restart
  <2>1. clean /\ queue = <<>> /\ queue' = <<>> /\ rows' = rows
    BY <1>0, <1>2 DEF Restart
  <2>2. ASSUME NEW g \in GroupIDs PROVE rows'[g] = InMemory'[g]
    <3>1. groups'[g] = IF rows[g] # NoRow THEN Group(g, rows[g]) ELSE NoGroup
      BY <1>0, <1>2 DEF Restart
    <3>2. rows[g] \in Rows
      BY <1>a
    <3>3. Row(groups'[g].leader, groups'[g].members) = rows[g]
      BY <3>1, <3>2 DEF Row, Rows, NoRow, NoGroup, Group
    <3> QED BY <2>1, <3>3 DEF InMemory, Saved
  <2> QED BY <2>1, <2>2 DEF Follows
<1>3. ASSUME NEW c \in Clients, NEW g \in GroupIDs, Created(c, g) PROVE Follows(rows, queue, InMemory)'
  <2> DEFINE r == Row(on[c], {on[c]})
             s == Insert(g, r)
             x == Group(made + 1, r)
  <2>1. clean /\ ~Live(g) /\ on[c] \in Accounts
    BY <1>0, <1>3 DEF Created
  <2>2. s \in Statements /\ s.id = g /\ s.row = Row(x.leader, x.members)
    BY <2>1, StatementTypes DEF Insert, Group, Row
  <2>3. Fits(s, Saved(g))
    BY <1>b, <2>1 DEF Fits, Insert, Saved, NoGroup, Row, NoRow
  <2>4. groups' = [groups EXCEPT ![g] = x] /\ queue' = Append(queue, s) /\ rows' = rows
    BY <1>3 DEF Created
  <2>5. Follows(rows, queue, InMemory)
    BY <2>1 DEF Database
  <2> HIDE DEF s, x
  <2> QED BY <2>2, <2>3, <2>4, <2>5, SubmitFollows
\* An UPDATE of a group that there is.
<1>4. ASSUME NEW g \in GroupIDs, NEW l \in Accounts, NEW m \in SUBSET Accounts, l \in m, clean,
             Live(g), Proper(groups[g]),
             groups' = [groups EXCEPT ![g] = Group(@.obj, Row(l, m))], rows' = rows,
             queue' \in {Append(queue, Update(g, Row(l, m))),
                         Append(Append(queue, Update(g, Row(l, m))), Update(g, Row(l, m)))}
      PROVE  Follows(rows, queue, InMemory)'
  <2> DEFINE s == Update(g, Row(l, m))
             x == Group(groups[g].obj, Row(l, m))
  <2>2. s \in Statements /\ s.id = g /\ s.row = Row(x.leader, x.members)
    BY StatementTypes DEF Update, Group, Row
  <2>3. Fits(s, Saved(g)) /\ Fits(s, s.row)
    <3>1. Saved(g) # NoRow
      BY <1>4 DEF Proper, Saved, Row, NoRow
    <3>2. s.row # NoRow
      BY <1>4 DEF Update, Row, NoRow
    <3> QED BY <3>1, <3>2 DEF Fits, Update
  <2>4. /\ groups' = [groups EXCEPT ![g] = x] /\ rows' = rows
        /\ \/ queue' = Append(queue, s)
           \/ queue' = Append(Append(queue, s), s) /\ Fits(s, s.row)
    BY <1>4, <2>3
  <2>5. Follows(rows, queue, InMemory)
    BY <1>4 DEF Database
  <2> HIDE DEF s, x
  <2> QED BY <2>2, <2>3, <2>4, <2>5, SubmitFollows
<1>5. ASSUME NEW d \in Clients, NEW g \in GroupIDs, Entered(d, g) PROVE Follows(rows, queue, InMemory)'
  <2>1. /\ clean /\ Live(g) /\ rows' = rows
        /\ groups' = [groups EXCEPT ![g] = Group(@.obj, Row(groups[g].leader, groups[g].members \cup {on[d]}))]
        /\ queue' = Append(queue, Update(g, Row(groups[g].leader, groups[g].members \cup {on[d]})))
    BY <1>0, <1>5 DEF Entered
  <2>2. /\ Proper(groups[g]) /\ groups[g].leader \in groups[g].members \cup {on[d]}
        /\ groups[g].members \cup {on[d]} \in SUBSET Accounts
    BY <1>5, <1>b, <2>1 DEF Proper, Entered, TypeOK
  <2>3. groups[g].leader \in Accounts
    BY <2>2 DEF Proper, TypeOK
  <2> DEFINE l == groups[g].leader
             m == groups[g].members \cup {on[d]}
  <2>4. /\ l \in Accounts /\ m \in SUBSET Accounts /\ l \in m /\ Proper(groups[g])
        /\ groups' = [groups EXCEPT ![g] = Group(@.obj, Row(l, m))]
        /\ queue' = Append(queue, Update(g, Row(l, m)))
    BY <2>1, <2>2, <2>3
  <2> HIDE DEF l, m
  <2> QED BY <1>4, <2>1, <2>4
<1>6. ASSUME NEW g \in GroupIDs, NEW a \in Accounts, NEW l \in groups[g].members \ {a}, Removes(g, a, l)
      PROVE  Follows(rows, queue, InMemory)'
  <2> DEFINE m == groups[g].members \ {a}
  <2>1. /\ clean /\ rows' = rows
        /\ groups' = [groups EXCEPT ![g] = Group(@.obj, Row(l, m))]
        /\ queue' \in {Append(queue, Update(g, Row(l, m))),
                       Append(Append(queue, Update(g, Row(l, m))), Update(g, Row(l, m)))}
    BY <1>0, <1>6 DEF Removes, RemovedTo
  <2>2. Live(g) /\ Proper(groups[g]) /\ l \in m /\ m \in SUBSET Accounts /\ l \in Accounts
    BY <1>b DEF NoGroup, TypeOK
  <2> HIDE DEF m
  <2> QED BY <1>4, <2>1, <2>2
<1>7. ASSUME NEW g \in GroupIDs, NEW a \in Accounts, Handed(g, a) PROVE Follows(rows, queue, InMemory)'
  <2> DEFINE m == groups[g].members
  <2>1. /\ clean /\ rows' = rows
        /\ groups' = [groups EXCEPT ![g] = Group(@.obj, Row(a, m))]
        /\ queue' = Append(queue, Update(g, Row(a, m)))
    BY <1>0, <1>7 DEF Handed
  <2>2. Live(g) /\ Proper(groups[g]) /\ a \in m /\ m \in SUBSET Accounts
    BY <1>7, <1>b DEF NoGroup, TypeOK, Handed
  <2> HIDE DEF m
  <2> QED BY <1>4, <2>1, <2>2
<1>8. ASSUME NEW g \in GroupIDs, Disbanded(g) PROVE Follows(rows, queue, InMemory)'
  <2> DEFINE s == Delete(g)
  <2>1. /\ clean /\ queue' = Append(queue, s)
        /\ groups' = [groups EXCEPT ![g] = NoGroup] /\ rows' = rows
    BY <1>0, <1>8 DEF Disbanded
  <2>2. s \in Statements /\ s.id = g /\ s.row = Row(NoGroup.leader, NoGroup.members) /\ Fits(s, Saved(g))
    <3>1. Nobody \in Accounts \cup {Nobody} /\ {} \in SUBSET Accounts
      OBVIOUS
    <3>2. s \in Statements
      BY <3>1, StatementTypes
    <3> QED BY <3>2 DEF Delete, NoGroup, NoRow, Row, Fits
  <2>5. Follows(rows, queue, InMemory)
    BY <2>1 DEF Database
  <2> HIDE DEF s
  <2> QED BY <2>1, <2>2, <2>5, SubmitFollows
<1>9. ASSUME NEW i \in 1..Len(queue), Execute(i) PROVE Follows(rows, queue, InMemory)'
  <2>1. /\ clean /\ groups' = groups /\ queue' = RemoveAt(queue, i) /\ rows' = Effect(queue[i])
        /\ \A k \in 1 .. i - 1 : queue[k].id # queue[i].id
    BY <1>0, <1>9 DEF Execute, memory
  <2>2. Follows(rows, queue, InMemory)
    BY <2>1 DEF Database
  <2>3. queue[i].id \in GroupIDs /\ Fits(queue[i], rows[queue[i].id])
    BY <2>1, <2>2 DEF Follows
  <2>4. rows' = [rows EXCEPT ![queue[i].id] = queue[i].row]
    <3>1. queue[i] \in Statements
      BY <1>a
    <3>2. rows' = [h \in GroupIDs |-> IF h = queue[i].id THEN queue[i].row ELSE rows[h]]
      BY <2>1, <2>3, <3>1 DEF Effect, Fits, Statements
    <3> QED BY <1>a, <3>2
  <2>5. Follows([rows EXCEPT ![queue[i].id] = queue[i].row], RemoveAt(queue, i), InMemory)
    BY <1>a, <2>1, <2>2, RemoveFollows
  <2>6. InMemory' = InMemory
    BY <2>1 DEF InMemory, Saved
  <2>7. Follows(rows', queue', InMemory')
    BY <2>1, <2>4, <2>5, <2>6
  <2> QED BY <2>7 DEF Follows
<1>10. ASSUME NEW i \in 1..Len(queue), GiveUp(i) PROVE Follows(rows, queue, InMemory)'
  BY <1>0, <1>10 DEF GiveUp
<1> QED BY <1>1, <1>2, <1>3, <1>5, <1>6, <1>7, <1>8, <1>9, <1>10, StepKinds

-----------------------------------------------------------------------------
LEMMA InitIInv == Init => IInv
<1> SUFFICES ASSUME Init PROVE IInv
  OBVIOUS
<1> USE GroupsAssumption
<1>1. TypeOK
  <2>1. /\ groups \in [GroupIDs -> [obj : Nat, leader : Accounts \cup {Nobody}, members : SUBSET Accounts]]
        /\ rows \in [GroupIDs -> Rows]
    BY DEF Init, NoGroup, NoRow, Rows
  <2>2. /\ on \in [Clients -> Accounts \cup {Nobody}] /\ pointer \in [Clients -> Nat]
        /\ menu \in [Clients -> SUBSET Accounts] /\ votes \in [Clients -> Seq(GroupIDs)]
        /\ queue \in Seq(Statements) /\ entering \in [Clients -> 0..MaxID] /\ early \in SUBSET Accounts
    BY DEF Init
  <2> QED BY <2>1, <2>2 DEF Init, TypeOK, Statements
<1>2. AllProper /\ ObjectsApart /\ PointersHold
  BY DEF Init, AllProper, ObjectsApart, PointersHold, Live, Has, NoGroup, NoRow
<1>3. OneGroupEach
  BY DEF Init, OneGroupEach, NoGroup
<1>4. Database
  BY DEF Init, Database, Follows, InMemory, Saved, NoGroup, NoRow, Row
<1> QED BY <1>1, <1>2, <1>3, <1>4 DEF IInv

\* The inductive invariant, from which the theorems below follow.
LEMMA Invariant == Spec => []IInv
<1>1. IInv /\ [Next]_vars => IInv'
  BY StepTypes, StepProper, StepObjects, StepPointers, StepOne, StepDatabase DEF IInv
<1> QED BY <1>1, InitIInv, PTL DEF Spec

\* Every group has a leader who is one of its members, in memory and in every
\* row of tw_groups, whoever leaves, is kicked or takes over, and after a restart
\* at any point (GroupData::Remove, ChangeOwner, GroupManager::OnPreInit).
THEOREM LeaderIsMemberHolds == Spec => []LeaderIsMember
<1>1. IInv => LeaderIsMember
  BY DEF IInv, AllProper, LeaderIsMember, Proper
<1> QED BY <1>1, Invariant, PTL

\* However many invitations are open, and whatever group has the ID one was made
\* for when it is accepted, no group grows past MAX_GROUP_MEMBERS (GroupData::Add).
THEOREM WithinLimitHolds == Spec => []WithinLimit
<1>1. IInv => WithinLimit
  <2>1. ASSUME IInv, NEW g \in GroupIDs PROVE Cardinality(groups[g].members) <= MaxMembers
    <3>1. IF Live(g) THEN Proper(groups[g]) ELSE groups[g] = NoGroup
      BY <2>1 DEF IInv, AllProper
    <3>2. Cardinality(NoGroup.members) = 0
      BY FS_EmptySet DEF NoGroup
    <3> QED BY <3>1, <3>2, GroupsAssumption DEF Proper
  <2> QED BY <2>1 DEF WithinLimit
<1> QED BY <1>1, Invariant, PTL

\* The variables have their types, and a player whose m_pGroupData is a group that
\* exists is one of its members: it is never the pointer of a player who was
\* kicked, and never that to a later group under the same ID.
THEOREM PointerIsMembershipHolds == Spec => []PointerIsMembership
<1>1. IInv => PointerIsMembership
  BY DEF IInv, PointersHold, PointerIsMembership
<1> QED BY <1>1, Invariant, PTL

\* As long as the pool executed the statements of each group in order, none was
\* given up, and no group was replaced in memory, nobody is in two groups, and a
\* player online whom a group lists is in it once his login has looked at it, but
\* for the accounts that got a group while CGroupManager::OnPlayerLogin, on its
\* worker, had yet to find the one that lists them. No other order of commands,
\* logins and statements puts an account in two groups.
THEOREM OneGroupEachHolds == Spec => []OneGroupEach
BY Invariant, PTL DEF IInv

\* Under the same condition tw_groups is what is in memory whenever the pool has
\* executed everything.
THEOREM TableFollowsHolds == Spec => []TableFollows
<1>1. IInv => TableFollows
  <2>1. ASSUME IInv, clean, queue = <<>>, NEW g \in GroupIDs PROVE rows[g] = Saved(g)
    BY <2>1 DEF IInv, Database, Follows, InMemory
  <2> QED BY <2>1 DEF TableFollows
<1> QED BY <1>1, Invariant, PTL

=============================================================================
