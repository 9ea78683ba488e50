----------------------------- MODULE Trade_proofs -----------------------------
(***************************************************************************)
(* Proofs about Trade, for any accounts, prices, amounts, rates and limits:  *)
(* nobody is in debt, the tables hold what is in memory once the pool has    *)
(* executed everything, and every step is one of Market or changes nothing   *)
(* there. For that, a bag is known by how often it holds a value: letters    *)
(* are rows without a queued DELETE and queued INSERTs, counted.             *)
(***************************************************************************)
EXTENDS Trade, FiniteSetTheorems, WellFoundedInduction, TLAPS

Fields == {"hand", "bank", "bag"}
Values(f) == IF f \in {"hand", "bank"} THEN Nat ELSE 0..1

LetterSet == [to : Accounts, gold : Nat, goods : 0..1]
Mails == [id : Nat, letter : LetterSet, read : BOOLEAN]
Tables == [acct : [Accounts -> Owned], slots : SUBSET Slots, house : Houses, next : Nat,
           mail : SUBSET Mails]

Saves == UNION {{Save(a, f, v) : a \in Accounts, v \in Values(f)} : f \in Fields}

Post(l) == Statement("send", <<"mail">>, l)
Mark(id) == Statement("read", <<"mail", id>>, id)
Erase(id) == Statement("remove", <<"mail", id>>, id)
Purge(a) == Statement("purge", <<"box", a>>, a)
Insert(slot) == Statement("insert", <<"slot", slot.id>>, slot)
Delete(id) == Statement("delete", <<"slot", id>>, id)

Statements ==
  UNION {Saves, {SaveHouse(h) : h \in Houses}, {SaveSafe(v) : v \in Nat},
         {Insert(slot) : slot \in Slots}, {Delete(id) : id \in Nat},
         {Post(l) : l \in LetterSet}, {Mark(id) : id \in Nat}, {Erase(id) : id \in Nat},
         {Purge(a) : a \in Accounts}}

Types == /\ TypeOK
         /\ table \in Tables /\ IsFiniteSet(table.slots)
         /\ queue \in Seq(Statements)

\* The smallest parts of tables and memory that statements write: a field of an
\* account, owner and safe of the house, and whether there is this slot.
Cells == [tag : Fields, of : Accounts] \cup [tag : {"owner", "safe"}, of : {Nobody}]
         \cup [tag : {"slot"}, of : Slots]

\* What cell x holds in t.
Cell(t, x) == IF x.tag \in Fields THEN t.acct[x.of][x.tag]
              ELSE IF x.tag = "owner" THEN t.house.owner
              ELSE IF x.tag = "safe" THEN t.house.safe
              ELSE x.of \in t.slots

Writes(s, x) == IF x.tag \in Fields THEN s.op = "set" /\ s.row = <<x.tag, x.of>>
                ELSE IF x.tag = "owner" THEN s.op = "set" /\ s.row = <<"house">>
                ELSE IF x.tag = "safe" THEN s.op \in {"set", "safe"} /\ s.row = <<"house">>
                ELSE \/ s.op = "insert" /\ s.val = x.of
                     \/ s.op = "delete" /\ s.val = x.of.id

Written(s, x) == IF x.tag \in Fields THEN s.val
                 ELSE IF x.tag = "owner" THEN s.val.owner
                 ELSE IF x.tag = "safe" THEN (IF s.op = "set" THEN s.val.safe ELSE s.val)
                 ELSE s.op = "insert"

\* The tables as they would be if they held what is in memory.
Memory == [table EXCEPT !.acct = acct, !.slots = ToSet(slots), !.house = house]

\* Executed one after the other, the statements q turn cell x from v into w.
Leads(q, x, v, w) ==
  /\ (\A i \in 1..Len(q) : ~Writes(q[i], x)) => v = w
  /\ \A i \in 1..Len(q) :
       Writes(q[i], x) /\ (\A j \in i+1..Len(q) : ~Writes(q[j], x)) => Written(q[i], x) = w

Database == clean => \A x \in Cells : Leads(queue, x, Cell(table, x), Cell(Memory, x))

\* No two slots have one ID.
SlotsApart == clean => \A i, j \in 1..Len(slots) : slots[i].id = slots[j].id => i = j

IInv == Types /\ Database /\ SlotsApart

-----------------------------------------------------------------------------
(* Statements *)

\* What there is for a statement to be.
LEMMA StatementKinds ==
  ASSUME NEW s \in Statements
  PROVE  \/ \E f \in Fields : \E a \in Accounts : \E v \in Values(f) : s = Save(a, f, v)
         \/ \E h \in Houses : s = SaveHouse(h)
         \/ \E v \in Nat : s = SaveSafe(v)
         \/ \E slot \in Slots : s = Insert(slot)
         \/ \E id \in Nat : s = Delete(id)
         \/ \E l \in LetterSet : s = Post(l)
         \/ \E id \in Nat : s = Mark(id)
         \/ \E id \in Nat : s = Erase(id)
         \/ \E a \in Accounts : s = Purge(a)
<1>1. ASSUME s \in Saves
      PROVE  \E f \in Fields : \E a \in Accounts : \E v \in Values(f) : s = Save(a, f, v)
  BY <1>1 DEF Saves
<1> QED BY <1>1 DEF Statements

\* Each of these is one.
LEMMA StatementsAre ==
  /\ \A f \in Fields : \A a \in Accounts : \A v \in Values(f) : Save(a, f, v) \in Statements
  /\ \A h \in Houses : SaveHouse(h) \in Statements
  /\ \A v \in Nat : SaveSafe(v) \in Statements
  /\ \A slot \in Slots : Insert(slot) \in Statements
  /\ \A id \in Nat : Delete(id) \in Statements
  /\ \A l \in LetterSet : Post(l) \in Statements
  /\ \A id \in Nat : Mark(id) \in Statements /\ Erase(id) \in Statements
  /\ \A a \in Accounts : Purge(a) \in Statements
<1>1. \A f \in Fields : \A a \in Accounts : \A v \in Values(f) : Save(a, f, v) \in Saves
  BY DEF Saves
<1> QED BY <1>1 DEF Statements

\* Statements that write one cell are on one row, and keep their order or spoil
\* the trade.
LEMMA OneRow ==
  ASSUME NEW s \in Statements, NEW x \in Cells, Writes(s, x)
  PROVE  /\ InOrder(s)
         /\ s.row = IF x.tag \in Fields THEN <<x.tag, x.of>>
                    ELSE IF x.tag = "slot" THEN <<"slot", x.of.id>> ELSE <<"house">>
<1> USE StatementKinds DEF Writes, InOrder, Cells, Fields, Statement, Save, SaveHouse, SaveSafe, Post, Mark, Erase, Purge, Insert, Delete, Slots
<1>1. CASE x.tag = "slot"
  BY <1>1
<1>2. CASE x.tag # "slot"
  BY <1>2
<1> QED BY <1>1, <1>2

\* What becomes of a cell when a statement is executed.
LEMMA AfterCell ==
  ASSUME NEW t \in Tables, NEW s \in Statements, NEW x \in Cells
  PROVE  Cell(After(t, s), x) = IF Writes(s, x) THEN Written(s, x) ELSE Cell(t, x)
<1> DEFINE Goal == Cell(After(t, s), x) = IF Writes(s, x) THEN Written(s, x) ELSE Cell(t, x)
<1>1. ASSUME NEW f \in Fields, NEW a \in Accounts, NEW v \in Values(f), s = Save(a, f, v) PROVE Goal
  <2>1. After(t, s) = [t EXCEPT !.acct[a][f] = v]
    BY <1>1 DEF After, Save, Statement
  <2>2. s.op = "set" /\ s.row = <<f, a>> /\ s.val = v
    BY <1>1 DEF Save, Statement
  <2> QED BY <2>1, <2>2 DEF Cell, Writes, Written, Cells, Fields, Tables, Owned
<1>2. ASSUME NEW h \in Houses, s = SaveHouse(h) PROVE Goal
  BY <1>2 DEF SaveHouse, Statement, After, Cell, Writes, Written, Cells, Fields, Tables
<1>3. ASSUME NEW v \in Nat, s = SaveSafe(v) PROVE Goal
  BY <1>3 DEF SaveSafe, Statement, After, Cell, Writes, Written, Cells, Fields, Tables, Houses
<1>4. ASSUME NEW slot \in Slots, s = Insert(slot) PROVE Goal
  BY <1>4 DEF Insert, Statement, After, Cell, Writes, Written, Cells, Fields, Tables
<1>5. ASSUME NEW id \in Nat, s = Delete(id) PROVE Goal
  BY <1>5 DEF Delete, Statement, After, Cell, Writes, Written, Cells, Fields, Tables
<1>6. ASSUME NEW l \in LetterSet, s = Post(l) PROVE Goal
  BY <1>6 DEF Post, Statement, After, Cell, Writes, Written, Cells, Fields, Tables
<1>7. ASSUME NEW id \in Nat, s = Mark(id) PROVE Goal
  BY <1>7 DEF Mark, Statement, After, Cell, Writes, Written, Cells, Fields, Tables
<1>8. ASSUME NEW id \in Nat, s = Erase(id) PROVE Goal
  BY <1>8 DEF Erase, Statement, After, Cell, Writes, Written, Cells, Fields, Tables
<1>9. ASSUME NEW a \in Accounts, s = Purge(a) PROVE Goal
  BY <1>9 DEF Purge, Statement, After, Cell, Writes, Written, Cells, Fields, Tables
<1> HIDE DEF Goal
<1>10. Goal
  BY <1>1, <1>2, <1>3, <1>4, <1>5, <1>6, <1>7, <1>8, <1>9, StatementKinds
<1> QED BY <1>10 DEF Goal

\* A statement leaves tables.
LEMMA AfterTypes ==
  ASSUME NEW t \in Tables, NEW s \in Statements, IsFiniteSet(t.slots)
  PROVE  After(t, s) \in Tables /\ IsFiniteSet(After(t, s).slots)
<1> DEFINE Goal == After(t, s) \in Tables /\ IsFiniteSet(After(t, s).slots)
<1>1. ASSUME NEW f \in Fields, NEW a \in Accounts, NEW v \in Values(f), s = Save(a, f, v) PROVE Goal
  <2>1. After(t, s) = [t EXCEPT !.acct[a][f] = v]
    BY <1>1 DEF After, Save, Statement
  <2>2. [t.acct[a] EXCEPT ![f] = v] \in Owned
    BY DEF Fields, Values, Tables, Owned
  <2> QED BY <2>1, <2>2 DEF Tables
<1>2. ASSUME NEW h \in Houses, s = SaveHouse(h) PROVE Goal
  BY <1>2 DEF SaveHouse, Statement, After, Tables
<1>3. ASSUME NEW v \in Nat, s = SaveSafe(v) PROVE Goal
  BY <1>3 DEF SaveSafe, Statement, After, Tables, Houses
<1>4. ASSUME NEW slot \in Slots, s = Insert(slot) PROVE Goal
  <2>1. After(t, s) = [t EXCEPT !.slots = @ \cup {slot}]
    BY <1>4 DEF Insert, Statement, After
  <2>2. t.slots \cup {slot} \in SUBSET Slots
    BY DEF Tables
  <2>3. IsFiniteSet(t.slots \cup {slot})
    BY FS_AddElement
  <2> QED BY <2>1, <2>2, <2>3 DEF Tables
<1>5. ASSUME NEW id \in Nat, s = Delete(id) PROVE Goal
  <2>1. After(t, s) = [t EXCEPT !.slots = {slot \in @ : slot.id # id}]
    BY <1>5 DEF Delete, Statement, After
  <2>2. /\ {slot \in t.slots : slot.id # id} \in SUBSET Slots
        /\ IsFiniteSet({slot \in t.slots : slot.id # id})
    <3> DEFINE left == {slot \in t.slots : slot.id # id}
    <3>1. left \subseteq t.slots /\ t.slots \subseteq Slots
      BY DEF Tables
    <3> HIDE DEF left
    <3>2. left \in SUBSET Slots /\ IsFiniteSet(left)
      BY <3>1, FS_Subset
    <3> QED BY <3>2 DEF left
  <2> QED BY <2>1, <2>2 DEF Tables
<1>6. ASSUME NEW l \in LetterSet, s = Post(l) PROVE Goal
  <2>1. PICK m \in Mails : m = [id |-> t.next, letter |-> l, read |-> FALSE]
    BY DEF Tables, Mails
  <2>2. After(t, s) = [t EXCEPT !.mail = t.mail \cup {m}, !.next = t.next + 1]
    BY <1>6, <2>1 DEF Post, Statement, After
  <2>3. /\ After(t, s).acct = t.acct /\ After(t, s).slots = t.slots /\ After(t, s).house = t.house
        /\ After(t, s).mail = t.mail \cup {m} /\ After(t, s).next = t.next + 1
        /\ After(t, s) = [acct |-> t.acct, slots |-> t.slots, house |-> t.house, next |-> t.next + 1,
                          mail |-> t.mail \cup {m}]
    BY <2>2 DEF Tables
  <2>4. t.mail \cup {m} \in SUBSET Mails
    BY DEF Tables
  <2>5. t.next + 1 \in Nat
    BY DEF Tables
  <2> QED BY <2>3, <2>4, <2>5 DEF Tables
<1>7. ASSUME NEW id \in Nat, s = Mark(id) PROVE Goal
  <2>1. After(t, s) = [t EXCEPT !.mail = {[m EXCEPT !.read = @ \/ m.id = id] : m \in t.mail}]
    BY <1>7 DEF Mark, Statement, After
  <2>2. ASSUME NEW m \in t.mail PROVE [m EXCEPT !.read = @ \/ m.id = id] \in Mails
    BY DEF Tables, Mails
  <2> QED BY <2>1, <2>2 DEF Tables
<1>8. ASSUME NEW id \in Nat, s = Erase(id) PROVE Goal
  <2>1. After(t, s) = [t EXCEPT !.mail = {m \in @ : m.id # id}]
    BY <1>8 DEF Erase, Statement, After
  <2> QED BY <2>1 DEF Tables
<1>9. ASSUME NEW a \in Accounts, s = Purge(a) PROVE Goal
  BY <1>9 DEF Purge, Statement, After, Tables
<1> HIDE DEF Goal
<1>10. Goal
  BY <1>1, <1>2, <1>3, <1>4, <1>5, <1>6, <1>7, <1>8, <1>9, StatementKinds
<1> QED BY <1>10 DEF Goal

-----------------------------------------------------------------------------
(* Statements that lead from one value of a cell to another *)

\* One after the other.
LEMMA LeadsOn ==
  ASSUME NEW q \in Seq(Statements), NEW r \in Seq(Statements), NEW x, NEW u, NEW v, NEW w,
         Leads(q, x, u, v), Leads(r, x, v, w)
  PROVE  Leads(q \o r, x, u, w)
<1> DEFINE c == q \o r
<1>1. /\ Len(c) = Len(q) + Len(r) /\ Len(q) \in Nat /\ Len(r) \in Nat
      /\ \A i \in 1..Len(q) : c[i] = q[i]
      /\ \A i \in 1..Len(r) : c[Len(q) + i] = r[i]
  OBVIOUS
<1> HIDE DEF c
<1>2. ASSUME \A i \in 1..Len(c) : ~Writes(c[i], x) PROVE u = w
  <2>1. \A i \in 1..Len(q) : ~Writes(q[i], x)
    BY <1>1, <1>2
  <2>2. \A i \in 1..Len(r) : ~Writes(r[i], x)
    <3>1. ASSUME NEW i \in 1..Len(r) PROVE ~Writes(r[i], x)
      <4>1. Len(q) + i \in 1..Len(c)
        BY <1>1
      <4> QED BY <1>1, <1>2, <4>1
    <3> QED BY <3>1
  <2> QED BY <2>1, <2>2 DEF Leads
<1>3. ASSUME NEW i \in 1..Len(c), Writes(c[i], x), \A j \in i+1..Len(c) : ~Writes(c[j], x)
      PROVE  Written(c[i], x) = w
  <2>1. CASE i <= Len(q)
    <3>1. i \in 1..Len(q) /\ Writes(q[i], x) /\ c[i] = q[i]
      BY <1>1, <1>3, <2>1
    <3>2. ASSUME NEW j \in i+1..Len(q) PROVE ~Writes(q[j], x)
      <4>1. j \in 1..Len(q) /\ j \in i+1..Len(c)
        BY <1>1
      <4> QED BY <1>1, <1>3, <4>1
    <3>3. ASSUME NEW j \in 1..Len(r) PROVE ~Writes(r[j], x)
      <4>1. Len(q) + j \in i+1..Len(c)
        BY <1>1, <2>1
      <4> QED BY <1>1, <1>3, <4>1
    <3> QED BY <3>1, <3>2, <3>3 DEF Leads
  <2>2. CASE i > Len(q)
    <3>1. PICK k \in 1..Len(r) : i = Len(q) + k
      <4>1. i - Len(q) \in 1..Len(r) /\ i = Len(q) + (i - Len(q))
        BY <1>1, <2>2
      <4> QED BY <4>1
    <3>2. c[i] = r[k] /\ Writes(r[k], x)
      BY <1>1, <1>3, <3>1
    <3>3. ASSUME NEW j \in k+1..Len(r) PROVE ~Writes(r[j], x)
      <4>1. Len(q) + j \in i+1..Len(c) /\ j \in 1..Len(r)
        BY <1>1, <3>1
      <4> QED BY <1>1, <1>3, <4>1
    <3> QED BY <3>2, <3>3 DEF Leads
  <2> QED BY <1>1, <2>1, <2>2
<1>4. Leads(c, x, u, w)
  BY <1>2, <1>3 DEF Leads
<1> QED BY <1>4 DEF c

\* None, and one.
LEMMA LeadsShort ==
  ASSUME NEW x, NEW v
  PROVE  /\ Leads(<<>>, x, v, v)
         /\ \A s : ~Writes(s, x) => Leads(<<s>>, x, v, v)
         /\ \A s : Writes(s, x) => Leads(<<s>>, x, v, Written(s, x))
<1>1. Leads(<<>>, x, v, v)
  BY DEF Leads
<1>2. ASSUME NEW s PROVE /\ ~Writes(s, x) => Leads(<<s>>, x, v, v)
                         /\ Writes(s, x) => Leads(<<s>>, x, v, Written(s, x))
  <2> DEFINE q == <<s>>
  <2>1. Len(q) = 1 /\ \A i \in 1..Len(q) : i = 1 /\ q[i] = s
    OBVIOUS
  <2> HIDE DEF q
  <2>2. /\ ~Writes(s, x) => Leads(q, x, v, v)
        /\ Writes(s, x) => Leads(q, x, v, Written(s, x))
    BY <2>1 DEF Leads
  <2> QED BY <2>2 DEF q
<1> QED BY <1>1, <1>2

\* Two sequences joined, position by position.
LEMMA Joined ==
  ASSUME NEW S, NEW a \in Seq(S), NEW b \in Seq(S)
  PROVE  /\ a \o b \in Seq(S) /\ Len(a \o b) = Len(a) + Len(b)
         /\ \A j \in 1..(Len(a) + Len(b)) : (a \o b)[j] = IF j <= Len(a) THEN a[j] ELSE b[j - Len(a)]
OBVIOUS

LEMMA Paired == \A s, t : <<s>> \o <<t>> = <<s, t>>
<1> SUFFICES ASSUME NEW s, NEW t PROVE <<s>> \o <<t>> = <<s, t>>
  OBVIOUS
<1> DEFINE S == {s, t}
           a == <<s>>
           b == <<t>>
<1>1. a \in Seq(S) /\ Len(a) = 1 /\ a[1] = s /\ b \in Seq(S) /\ Len(b) = 1 /\ b[1] = t
  OBVIOUS
<1> HIDE DEF a, b, S
<1>2. a \o b \in Seq(S) /\ Len(a \o b) = 2 /\ (a \o b)[1] = s /\ (a \o b)[2] = t
  <2>1. /\ a \o b \in Seq(S) /\ Len(a \o b) = Len(a) + Len(b)
        /\ \A j \in 1..(Len(a) + Len(b)) : (a \o b)[j] = IF j <= Len(a) THEN a[j] ELSE b[j - Len(a)]
    BY <1>1, Joined
  <2> QED BY <1>1, <2>1
<1> DEFINE c == a \o b
           d == <<s, t>>
<1>3. d \in Seq({s, t}) /\ Len(d) = 2 /\ d[1] = s /\ d[2] = t
  OBVIOUS
<1>4. c \in Seq({s, t}) /\ Len(c) = 2 /\ c[1] = s /\ c[2] = t
  BY <1>2 DEF S
<1> HIDE DEF c, d
<1>5. c = d
  <2>1. c \in [1..2 -> {s, t}] /\ d \in [1..2 -> {s, t}] /\ \A i \in 1..2 : c[i] = d[i]
    BY <1>3, <1>4
  <2> QED BY <2>1
<1> QED BY <1>5 DEF a, b, c, d

\* What RemoveAt leaves of a sequence, position by position.
LEMMA Removed ==
  ASSUME NEW S, NEW q \in Seq(S), NEW i \in 1..Len(q)
  PROVE  /\ RemoveAt(q, i) \in Seq(S)
         /\ Len(RemoveAt(q, i)) = Len(q) - 1
         /\ \A j \in 1..(Len(q) - 1) : RemoveAt(q, i)[j] = IF j < i THEN q[j] ELSE q[j + 1]
<1> DEFINE a == SubSeq(q, 1, i - 1)
           b == SubSeq(q, i + 1, Len(q))
<1>1. /\ a \in Seq(S) /\ Len(a) = i - 1 /\ Len(q) \in Nat
      /\ \A j \in 1..i-1 : a[j] = q[j]
  OBVIOUS
<1>2. /\ b \in Seq(S) /\ Len(b) = Len(q) - i
      /\ \A j \in 1..(Len(q) - i) : b[j] = q[i + j]
  OBVIOUS
<1>3. RemoveAt(q, i) = a \o b
  BY DEF RemoveAt
<1> HIDE DEF a, b
<1>4. /\ a \o b \in Seq(S) /\ Len(a \o b) = Len(a) + Len(b)
      /\ \A j \in 1..(Len(a) + Len(b)) : (a \o b)[j] = IF j <= Len(a) THEN a[j] ELSE b[j - Len(a)]
  BY <1>1, <1>2, Joined
<1>5. Len(a) + Len(b) = Len(q) - 1
  BY <1>1, <1>2
<1>6. ASSUME NEW j \in 1..(Len(q) - 1)
      PROVE  (a \o b)[j] = IF j < i THEN q[j] ELSE q[j + 1]
  <2>1. CASE j < i
    BY <1>1, <1>4, <1>5, <2>1
  <2>2. CASE j >= i
    <3>1. j - (i - 1) \in 1..(Len(q) - i) /\ i + (j - (i - 1)) = j + 1
      BY <1>1, <2>2
    <3>2. b[j - (i - 1)] = q[j + 1]
      BY <1>2, <3>1
    <3> QED BY <1>1, <1>4, <1>5, <2>2, <3>2
  <2>3. j < i \/ j >= i
    BY <1>1
  <2> QED BY <2>1, <2>2, <2>3
<1> QED BY <1>3, <1>4, <1>5, <1>6

\* The first statement that writes a cell is executed, or one that does not write it.
LEMMA LeadsAfter ==
  ASSUME NEW q \in Seq(Statements), NEW x, NEW u, NEW v, Leads(q, x, u, v), NEW i \in 1..Len(q),
         Writes(q[i], x) => \A j \in 1..i-1 : ~Writes(q[j], x)
  PROVE  Leads(RemoveAt(q, i), x, IF Writes(q[i], x) THEN Written(q[i], x) ELSE u, v)
<1> DEFINE r == RemoveAt(q, i)
           y == IF Writes(q[i], x) THEN Written(q[i], x) ELSE u
<1>1. /\ Len(r) = Len(q) - 1 /\ Len(q) \in Nat /\ i \in Nat
      /\ \A k \in 1..Len(r) : r[k] = IF k < i THEN q[k] ELSE q[k + 1]
  <2>1. Len(q) \in Nat
    OBVIOUS
  <2> QED BY <2>1, Removed
<1> HIDE DEF r
<1>2. ASSUME \A k \in 1..Len(r) : ~Writes(r[k], x) PROVE y = v
  <2>1. ASSUME NEW k \in 1..Len(q), k # i PROVE ~Writes(q[k], x)
    <3>1. CASE k < i
      <4>1. k \in 1..Len(r) /\ r[k] = q[k]
        BY <1>1, <3>1
      <4> QED BY <1>2, <4>1
    <3>2. CASE k > i
      <4>1. k - 1 \in 1..Len(r) /\ ~(k - 1 < i) /\ (k - 1) + 1 = k
        BY <1>1, <3>2
      <4>2. r[k - 1] = q[k]
        BY <1>1, <4>1
      <4> QED BY <1>2, <4>1, <4>2
    <3> QED BY <1>1, <2>1, <3>1, <3>2
  <2>2. CASE Writes(q[i], x)
    <3>1. \A j \in i+1..Len(q) : ~Writes(q[j], x)
      BY <1>1, <2>1
    <3> QED BY <2>2, <3>1 DEF Leads
  <2>3. CASE ~Writes(q[i], x)
    BY <2>1, <2>3 DEF Leads
  <2> QED BY <2>2, <2>3
<1>3. ASSUME NEW k \in 1..Len(r), Writes(r[k], x), \A j \in k+1..Len(r) : ~Writes(r[j], x)
      PROVE  Written(r[k], x) = v
  <2>1. PICK n \in 1..Len(q) : r[k] = q[n] /\ n = IF k < i THEN k ELSE k + 1
    <3>1. (IF k < i THEN k ELSE k + 1) \in 1..Len(q)
      BY <1>1
    <3> QED BY <1>1, <3>1
  <2>2. ASSUME NEW j \in n+1..Len(q), j # i PROVE ~Writes(q[j], x)
    <3>1. CASE j < i
      <4>1. j \in k+1..Len(r) /\ j \in 1..Len(r)
        BY <1>1, <2>1, <3>1
      <4>2. r[j] = q[j]
        BY <1>1, <3>1, <4>1
      <4> QED BY <1>3, <4>1, <4>2
    <3>2. CASE j > i
      <4>1. j - 1 \in k+1..Len(r) /\ j - 1 \in 1..Len(r) /\ ~(j - 1 < i) /\ (j - 1) + 1 = j
        BY <1>1, <2>1, <3>2
      <4>2. r[j - 1] = q[j]
        BY <1>1, <4>1
      <4> QED BY <1>3, <4>1, <4>2
    <3> QED BY <1>1, <2>2, <3>1, <3>2
  <2>3. Writes(q[i], x) => i < n
    <3>1. n # i
      BY <1>1, <2>1
    <3>2. n \in 1..i-1 => ~Writes(q[i], x)
      BY <1>3, <2>1
    <3> QED BY <1>1, <3>1, <3>2
  <2>4. \A j \in n+1..Len(q) : ~Writes(q[j], x)
    BY <1>1, <2>2, <2>3
  <2> QED BY <1>3, <2>1, <2>4 DEF Leads
<1>4. Leads(r, x, y, v)
  BY <1>2, <1>3 DEF Leads
<1> QED BY <1>4 DEF r

-----------------------------------------------------------------------------
(* The currency of an account *)

LEMMA MaxOfTwo == \A v, w \in Int : Max({v, w}) = IF v >= w THEN v ELSE w
<1> SUFFICES ASSUME NEW v \in Int, NEW w \in Int PROVE Max({v, w}) = IF v >= w THEN v ELSE w
  OBVIOUS
<1>1. PICK m \in {v, w} : \A y \in {v, w} : m >= y
  OBVIOUS
<1>2. \A y \in {v, w} : (\A z \in {v, w} : y >= z) => y = m
  BY <1>1
<1> QED BY <1>1, <1>2 DEF Max

LEMMA MinOfTwo == \A v, w \in Int : Min({v, w}) = IF v <= w THEN v ELSE w
<1> SUFFICES ASSUME NEW v \in Int, NEW w \in Int PROVE Min({v, w}) = IF v <= w THEN v ELSE w
  OBVIOUS
<1>1. PICK m \in {v, w} : \A y \in {v, w} : m <= y
  OBVIOUS
<1>2. \A y \in {v, w} : (\A z \in {v, w} : y <= z) => y = m
  BY <1>1
<1> QED BY <1>1, <1>2 DEF Min

\* A share of up to all, and the fee of an offer.
LEMMA Shares == /\ \A v \in Nat : Commission(v) \in 0..v
                /\ \A v \in Nat : GetTaxPrice(v) \in Nat \ {0}
<1>1. ASSUME NEW v \in Nat PROVE Commission(v) \in 0..v
  <2>1. CommissionRate \in Nat /\ CommissionRate <= 100
    BY TradeAssumption
  <2>2. v * CommissionRate \in Nat /\ v * CommissionRate <= v * 100
    BY <2>1
  <2> DEFINE k == v * CommissionRate
  <2> HIDE DEF k
  <2>3. k \div 100 \in Nat /\ k \div 100 <= v
    BY <2>2 DEF k
  <2> QED BY <2>3 DEF Commission, Percent, k
<1>2. ASSUME NEW v \in Nat PROVE GetTaxPrice(v) \in Nat \ {0}
  <2>1. TaxRate \in Nat
    BY TradeAssumption
  <2>2. v * TaxRate \in Nat
    BY <2>1
  <2> DEFINE k == v * TaxRate
  <2> HIDE DEF k
  <2>3. k \div 100 \in Nat
    BY <2>2 DEF k
  <2>4. Max({1, k \div 100}) \in Nat \ {0}
    BY <2>3, MaxOfTwo
  <2> QED BY <2>4 DEF GetTaxPrice, Percent, k
<1> QED BY <1>1, <1>2

\* An account in the middle of a command, and memory with it.
Purses == [hand : Nat, bank : Nat, bag : 0..1, sql : Seq(Saves)]
Owns(p) == [hand |-> p.hand, bank |-> p.bank, bag |-> p.bag]
With(a, p) == [Memory EXCEPT !.acct[a] = Owns(p)]

\* Its statements say what has become of it.
Follows(a, p) == /\ p \in Purses
                 /\ \A x \in Cells : Leads(p.sql, x, Cell(Memory, x), Cell(With(a, p), x))

Gold(p) == p.hand + p.bank

LEMMA MemoryTypes ==
  ASSUME Types
  PROVE  Memory \in Tables /\ \A a \in Accounts : \A p \in Purses : With(a, p) \in Tables
<1>1. ToSet(slots) \subseteq Slots
  BY DEF Types, TypeOK, ToSet
<1>2. Memory \in Tables
  BY <1>1 DEF Types, TypeOK, Tables, Memory
<1>3. ASSUME NEW a \in Accounts, NEW p \in Purses PROVE With(a, p) \in Tables
  <2>1. Owns(p) \in Owned
    BY DEF Owns, Owned, Purses
  <2> QED BY <1>2, <2>1 DEF Tables, With
<1> QED BY <1>2, <1>3

LEMMA SavesAre == Saves \subseteq Statements /\ Seq(Saves) \subseteq Seq(Statements)
<1>1. Saves \subseteq Statements
  BY DEF Statements
<1> QED BY <1>1

LEMMA PlayerFollows ==
  ASSUME Types, NEW a \in Accounts
  PROVE  /\ Follows(a, Player(a)) /\ Owns(Player(a)) = acct[a]
         /\ Gold(Player(a)) = acct[a].hand + acct[a].bank /\ Player(a).bag = acct[a].bag
<1>1. acct[a] \in Owned /\ acct \in [Accounts -> Owned]
  BY DEF Types, TypeOK
<1>2. /\ Player(a) \in Purses /\ Player(a).sql = <<>> /\ Owns(Player(a)) = acct[a]
      /\ Gold(Player(a)) = acct[a].hand + acct[a].bank /\ Player(a).bag = acct[a].bag
  BY <1>1 DEF Player, Purses, Owned, Owns, Gold
<1>3. With(a, Player(a)) = Memory
  <2>1. Memory \in Tables /\ Memory.acct = acct
    BY MemoryTypes DEF Memory, Types, Tables
  <2>2. [acct EXCEPT ![a] = acct[a]] = acct
    BY <1>1
  <2>3. [Memory EXCEPT !.acct[a] = acct[a]] = Memory
    BY <2>1, <2>2 DEF Tables
  <2> QED BY <1>2, <2>3 DEF With
<1> QED BY <1>2, <1>3, LeadsShort DEF Follows

\* Saving a field of an account writes it and nothing else.
LEMMA PutFollows ==
  ASSUME Types, NEW a \in Accounts, NEW p, Follows(a, p), NEW f \in Fields, NEW v \in Values(f)
  PROVE  Follows(a, Put(a, p, f, v))
<1> DEFINE s == Save(a, f, v)
           q == Put(a, p, f, v)
<1>1. s \in Saves /\ s \in Statements
  BY SavesAre DEF Saves
<1>2. p \in Purses /\ p.sql \in Seq(Saves)
  BY DEF Follows, Purses
<1>3. q \in Purses /\ q.sql = p.sql \o <<s>> /\ Owns(q) = [Owns(p) EXCEPT ![f] = v]
  <2>1. q = [p EXCEPT ![f] = v, !.sql = Append(p.sql, s)]
    BY <1>2 DEF Put, Purses, Fields
  <2>2. Append(p.sql, s) \in Seq(Saves) /\ Append(p.sql, s) = p.sql \o <<s>>
    BY <1>1, <1>2
  <2>3. v \in IF f \in {"hand", "bank"} THEN Nat ELSE 0..1
    BY DEF Values
  <2> DEFINE r == Append(p.sql, s)
  <2> HIDE DEF r, s
  <2>4. r \in Seq(Saves) /\ q = [p EXCEPT ![f] = v, !.sql = r]
    BY <2>1, <2>2 DEF r
  <2> HIDE DEF q
  <2>5. q \in Purses /\ q.sql = r /\ Owns(q) = [Owns(p) EXCEPT ![f] = v]
    <3>1. CASE f = "hand"
      <4>1. q = [hand |-> v, bank |-> p.bank, bag |-> p.bag, sql |-> r]
        BY <1>2, <2>4, <3>1 DEF Purses
      <4>2. q \in Purses /\ q.sql = r
        BY <1>2, <2>3, <2>4, <3>1, <4>1 DEF Purses
      <4>3. Owns(q) = [Owns(p) EXCEPT ![f] = v]
        BY <3>1, <4>1 DEF Owns
      <4> QED BY <4>2, <4>3
    <3>2. CASE f = "bank"
      <4>1. q = [hand |-> p.hand, bank |-> v, bag |-> p.bag, sql |-> r]
        BY <1>2, <2>4, <3>2 DEF Purses
      <4>2. q \in Purses /\ q.sql = r
        BY <1>2, <2>3, <2>4, <3>2, <4>1 DEF Purses
      <4>3. Owns(q) = [Owns(p) EXCEPT ![f] = v]
        BY <3>2, <4>1 DEF Owns
      <4> QED BY <4>2, <4>3
    <3>3. CASE f = "bag"
      <4>1. q = [hand |-> p.hand, bank |-> p.bank, bag |-> v, sql |-> r]
        BY <1>2, <2>4, <3>3 DEF Purses
      <4>2. q \in Purses /\ q.sql = r
        BY <1>2, <2>3, <2>4, <3>3, <4>1 DEF Purses
      <4>3. Owns(q) = [Owns(p) EXCEPT ![f] = v]
        BY <3>3, <4>1 DEF Owns
      <4> QED BY <4>2, <4>3
    <3> QED BY <3>1, <3>2, <3>3 DEF Fields
  <2> QED BY <2>2, <2>5 DEF r
<1>4. With(a, q) = After(With(a, p), s)
  <2>1. After(With(a, p), s) = [With(a, p) EXCEPT !.acct[a][f] = v]
    BY DEF After, Save, Statement
  <2>2. Memory \in Tables
    BY MemoryTypes
  <2>3. [[Memory EXCEPT !.acct[a] = Owns(p)] EXCEPT !.acct[a][f] = v]
          = [Memory EXCEPT !.acct[a] = [Owns(p) EXCEPT ![f] = v]]
    BY <2>2 DEF Tables
  <2> QED BY <1>3, <2>1, <2>3 DEF With
<1>5. ASSUME NEW x \in Cells PROVE Leads(q.sql, x, Cell(Memory, x), Cell(With(a, q), x))
  <2>1. Leads(p.sql, x, Cell(Memory, x), Cell(With(a, p), x))
    BY DEF Follows
  <2>2. Cell(With(a, q), x) = IF Writes(s, x) THEN Written(s, x) ELSE Cell(With(a, p), x)
    BY <1>1, <1>2, <1>4, MemoryTypes, AfterCell
  <2>3. Leads(<<s>>, x, Cell(With(a, p), x), Cell(With(a, q), x))
    BY <2>2, LeadsShort
  <2>4. p.sql \in Seq(Statements) /\ <<s>> \in Seq(Statements)
    BY <1>1, <1>2, SavesAre
  <2> HIDE DEF s, q
  <2> QED BY <1>3, <2>1, <2>3, <2>4, LeadsOn
<1> QED BY <1>3, <1>5 DEF Follows

\* AddGoldToBank with what may be negative.
LEMMA BankFollows ==
  ASSUME Types, NEW a \in Accounts, NEW p, Follows(a, p), NEW v \in Int, p.bank + v >= 0
  PROVE  LET q == AddGoldToBank(a, p, v) IN
         Follows(a, q) /\ q.hand = p.hand /\ q.bank = p.bank + v /\ q.bag = p.bag
<1>1. p.bank \in Nat /\ p \in Purses
  BY DEF Follows, Purses
<1>2. p.bank + v \in Values("bank") /\ "bank" \in Fields
  BY <1>1 DEF Values, Fields
<1>3. Follows(a, AddGoldToBank(a, p, v))
  BY <1>2, PutFollows DEF AddGoldToBank
<1> QED BY <1>1, <1>3 DEF AddGoldToBank, Put, Purses

\* Gold in the hand.
LEMMA HandFollows ==
  ASSUME Types, NEW a \in Accounts, NEW p, Follows(a, p), NEW v \in Nat
  PROVE  LET q == Put(a, p, "hand", v) IN
         Follows(a, q) /\ q.hand = v /\ q.bank = p.bank /\ q.bag = p.bag
<1>1. v \in Values("hand") /\ "hand" \in Fields
  BY DEF Values, Fields
<1>2. Follows(a, Put(a, p, "hand", v))
  BY <1>1, PutFollows
<1> QED BY <1>2 DEF Put, Follows, Purses

\* Goods in the bag.
LEMMA BagFollows ==
  ASSUME Types, NEW a \in Accounts, NEW p, Follows(a, p), NEW v \in 0..1
  PROVE  LET q == Put(a, p, "bag", v) IN Follows(a, q) /\ Gold(q) = Gold(p) /\ q.bag = v
<1>1. v \in Values("bag") /\ "bag" \in Fields
  BY DEF Values, Fields
<1>2. Follows(a, Put(a, p, "bag", v))
  BY <1>1, PutFollows
<1> QED BY <1>2 DEF Put, Follows, Purses, Gold

\* Gold that is received goes to the hand or to the bank, all of it.
LEMMA AddFollows ==
  ASSUME Types, NEW a \in Accounts, NEW p, Follows(a, p), NEW v \in Nat, NEW capacity \in Capacities
  PROVE  LET q == Add(a, p, v, capacity) IN Follows(a, q) /\ Gold(q) = Gold(p) + v /\ q.bag = p.bag
<1> DEFINE over == Max({0, p.hand + v - capacity})
           b == IF over > 0 THEN AddGoldToBank(a, p, over) ELSE p
           q == Put(a, b, "hand", p.hand + v - over)
<1>1. p.hand \in Nat /\ p.bank \in Nat /\ capacity \in Nat
  BY TradeAssumption DEF Follows, Purses
<1>2. over = (IF 0 >= p.hand + v - capacity THEN 0 ELSE p.hand + v - capacity) /\ over \in Nat
  BY <1>1, MaxOfTwo
<1> HIDE DEF over
<1>3. Follows(a, b) /\ b.hand = p.hand /\ b.bank = p.bank + over /\ b.bag = p.bag
  BY <1>1, <1>2, BankFollows
<1> HIDE DEF b
<1>4. p.hand + v - over \in Nat
  BY <1>1, <1>2
<1>5. Follows(a, q) /\ q.hand = p.hand + v - over /\ q.bank = p.bank + over /\ q.bag = p.bag
  BY <1>3, <1>4, HandFollows
<1>6. Add(a, p, v, capacity) = IF v < 1 THEN p ELSE q
  BY DEF Add, over, b
<1> HIDE DEF q
<1> QED BY <1>1, <1>2, <1>5, <1>6 DEF Gold

LEMMA RemoveFollows ==
  ASSUME Types, NEW a \in Accounts, NEW p, Follows(a, p), NEW v \in Nat
  PROVE  LET q == RemoveGold(a, p, v) IN
         /\ Follows(a, q) /\ q.hand = p.hand - (IF v <= p.hand THEN v ELSE p.hand)
         /\ q.bank = p.bank /\ q.bag = p.bag
<1> DEFINE w == Min({v, p.hand})
           q == Put(a, p, "hand", p.hand - w)
<1>1. p.hand \in Nat /\ p.bank \in Nat
  BY DEF Follows, Purses
<1>2. w = (IF v <= p.hand THEN v ELSE p.hand) /\ w \in 0..p.hand
  BY <1>1, MinOfTwo
<1> HIDE DEF w
<1>3. p.hand - w \in Nat
  BY <1>1, <1>2
<1>4. Follows(a, q) /\ q.hand = p.hand - w /\ q.bank = p.bank /\ q.bag = p.bag
  BY <1>3, HandFollows
<1>5. RemoveGold(a, p, v) = IF w < 1 THEN p ELSE q
  BY DEF RemoveGold, w
<1> HIDE DEF q
<1> QED BY <1>1, <1>2, <1>4, <1>5

\* What is over the capacity goes from the hand to the bank, all of it.
LEMMA LimitFollows ==
  ASSUME Types, NEW a \in Accounts, NEW over \in Nat, over <= acct[a].hand
  PROVE  LET q == RemoveGold(a, AddGoldToBank(a, Player(a), over), over) IN
         Follows(a, q) /\ Gold(q) = Gold(Player(a)) /\ q.bag = acct[a].bag
<1> DEFINE p == Player(a)
           b == AddGoldToBank(a, p, over)
           q == RemoveGold(a, b, over)
<1>1. Follows(a, p) /\ p.bag = acct[a].bag
  BY PlayerFollows
<1>2. p.hand = acct[a].hand /\ p.hand \in Nat /\ p.bank \in Nat
  <2>1. p.hand = acct[a].hand
    BY DEF Player
  <2> HIDE DEF p
  <2> QED BY <1>1, <2>1 DEF Follows, Purses
<1> HIDE DEF p
<1>3. Follows(a, b) /\ b.hand = p.hand /\ b.bank = p.bank + over /\ b.bag = p.bag
  <2>1. over \in Int /\ p.bank + over >= 0
    BY <1>2
  <2> QED BY <1>1, <2>1, BankFollows
<1> HIDE DEF b
<1>4. /\ Follows(a, q) /\ q.hand = b.hand - (IF over <= b.hand THEN over ELSE b.hand)
      /\ q.bank = b.bank /\ q.bag = b.bag
  BY <1>3, RemoveFollows
<1> HIDE DEF q
<1>5. Follows(a, q) /\ Gold(q) = Gold(p) /\ q.bag = acct[a].bag
  BY <1>1, <1>2, <1>3, <1>4 DEF Gold
<1> QED BY <1>5 DEF p, b, q

\* The price is paid, from the hand first.
LEMMA SpendFollows ==
  ASSUME Types, NEW a \in Accounts, NEW p, Follows(a, p), NEW v \in Nat, CanSpend(p, v)
  PROVE  LET q == SpendCurrency(a, p, v) IN Follows(a, q) /\ Gold(q) = Gold(p) - v /\ q.bag = p.bag
<1> DEFINE w == IF v <= p.hand THEN v ELSE p.hand
           r == RemoveGold(a, p, v)
<1>1. p.hand \in Nat /\ p.bank \in Nat /\ p.hand + p.bank >= v
  BY DEF Follows, Purses, CanSpend
<1>2. Min({v, p.hand}) = w /\ w \in 0..p.hand /\ w <= v
  BY <1>1, MinOfTwo
<1>3. Follows(a, r) /\ r.hand = p.hand - w /\ r.bank = p.bank /\ r.bag = p.bag
  BY RemoveFollows
<1> HIDE DEF r
<1>4. ASSUME v - w > 0
      PROVE  LET q == AddGoldToBank(a, r, -(v - w)) IN
             Follows(a, q) /\ q.hand = r.hand /\ q.bank = r.bank - (v - w) /\ q.bag = r.bag
  <2>1. -(v - w) \in Int /\ r.bank + (-(v - w)) >= 0 /\ r.bank + (-(v - w)) = r.bank - (v - w)
    BY <1>1, <1>2, <1>3
  <2> QED BY <1>3, <2>1, BankFollows
<1>5. SpendCurrency(a, p, v) = IF v - w > 0 THEN AddGoldToBank(a, r, -(v - w)) ELSE r
  BY <1>2 DEF SpendCurrency, r
<1> HIDE DEF w
<1> QED BY <1>1, <1>2, <1>3, <1>4, <1>5 DEF Gold

(* Numbers *)

\* A set of natural numbers that is not empty has a minimum.
LEMMA Least ==
  ASSUME NEW S \in SUBSET Nat, S # {}
  PROVE  Min(S) \in S /\ \A y \in S : Min(S) <= y
<1> DEFINE U == {0..m : m \in S}
<1>1. U \subseteq FiniteSubsetsOf(Nat)
  <2>1. ASSUME NEW m \in S PROVE 0..m \in SUBSET Nat /\ IsFiniteSet(0..m)
    BY FS_Interval
  <2> QED BY <2>1 DEF FiniteSubsetsOf
<1>2. \E x \in U : \A y \in U : ~ (<<y, x>> \in StrictSubsetOrdering(Nat))
  <2>1. U # {}
    OBVIOUS
  <2> QED BY <1>1, <2>1, WFMin, FS_StrictSubsetOrderingWellFounded
<1>3. PICK x \in S : \A y \in S : ~ (<<0..y, 0..x>> \in StrictSubsetOrdering(Nat))
  BY <1>2
<1>4. ASSUME NEW y \in S, y < x PROVE FALSE
  <2>1. 0..y \subseteq 0..x /\ x \in 0..x /\ x \notin 0..y
    BY <1>4
  <2>2. 0..y \in SUBSET Nat /\ 0..x \in SUBSET Nat
    OBVIOUS
  <2>3. <<0..y, 0..x>> \in StrictSubsetOrdering(Nat)
    BY <2>1, <2>2 DEF StrictSubsetOrdering
  <2> QED BY <1>3, <2>3
<1>5. ASSUME NEW y \in S PROVE x <= y
  <2>1. x \in Nat /\ y \in Nat
    OBVIOUS
  <2> QED BY <1>4, <2>1
<1> QED BY <1>5 DEF Min

\* A finite one has a maximum.
LEMMA Greatest ==
  ASSUME NEW S \in SUBSET Nat, S # {}, IsFiniteSet(S)
  PROVE  Max(S) \in S /\ \A y \in S : Max(S) >= y
<1> DEFINE Above(m) == {z \in S : z >= m}
           U == {Above(m) : m \in S}
<1>1. U \subseteq FiniteSubsetsOf(S)
  BY FS_Subset DEF FiniteSubsetsOf
<1>2. \E x \in U : \A y \in U : ~ (<<y, x>> \in StrictSubsetOrdering(S))
  <2>1. U # {}
    OBVIOUS
  <2> QED BY <1>1, <2>1, WFMin, FS_StrictSubsetOrderingWellFounded
<1>3. PICK x \in S : \A y \in S : ~ (<<Above(y), Above(x)>> \in StrictSubsetOrdering(S))
  BY <1>2
<1>4. ASSUME NEW y \in S, y > x PROVE FALSE
  <2>1. x \in Nat /\ y \in Nat
    OBVIOUS
  <2>2. \A z \in S : z \in Nat /\ (z >= y => z >= x)
    BY <1>4, <2>1
  <2>3. Above(y) \subseteq Above(x) /\ x \in Above(x) /\ x \notin Above(y)
    <3>1. Above(y) \subseteq Above(x)
      BY <2>2
    <3>2. x >= x /\ ~(x >= y)
      BY <1>4, <2>1
    <3> QED BY <3>1, <3>2
  <2>4. Above(y) \in SUBSET S /\ Above(x) \in SUBSET S
    OBVIOUS
  <2>5. <<Above(y), Above(x)>> \in StrictSubsetOrdering(S)
    BY <2>3, <2>4 DEF StrictSubsetOrdering
  <2> QED BY <1>3, <2>5
<1>5. \A y \in S : x >= y
  BY <1>4
<1>6. \E z \in S : \A y \in S : z >= y
  BY <1>5
<1> QED BY <1>6 DEF Max

\* Induction.

-----------------------------------------------------------------------------
(* Commands *)

\* Statements that write nothing to a cell leave it alone.
LEMMA LeadsNowhere ==
  ASSUME NEW q \in Seq(Statements), NEW x, NEW v, \A i \in 1..Len(q) : ~Writes(q[i], x)
  PROVE  Leads(q, x, v, v)
BY DEF Leads

\* No statement that writes a cell is pending: tables hold what memory holds.
LEMMA NothingPending ==
  ASSUME NEW q \in Seq(Statements), NEW x, NEW v, NEW w, Leads(q, x, v, w),
         \A i \in 1..Len(q) : ~Writes(q[i], x)
  PROVE  v = w
BY DEF Leads

\* Letters that are sent, and then one statement.
LEMMA SentThen ==
  ASSUME NEW q \in Seq(Statements), \A i \in 1..Len(q) : q[i].op = "send",
         NEW s \in Statements, NEW t \in Tables, NEW x \in Cells
  PROVE  q \o <<s>> \in Seq(Statements) /\ Leads(q \o <<s>>, x, Cell(t, x), Cell(After(t, s), x))
<1>1. Leads(q, x, Cell(t, x), Cell(t, x))
  <2>1. \A i \in 1..Len(q) : q[i] \in Statements
    OBVIOUS
  <2>2. \A i \in 1..Len(q) : ~Writes(q[i], x)
    BY <2>1, OneRow DEF InOrder
  <2> QED BY <2>2, LeadsNowhere
<1>2. Leads(<<s>>, x, Cell(t, x), Cell(After(t, s), x))
  <2>1. Cell(After(t, s), x) = IF Writes(s, x) THEN Written(s, x) ELSE Cell(t, x)
    BY AfterCell
  <2> QED BY <2>1, LeadsShort
<1>3. <<s>> \in Seq(Statements)
  OBVIOUS
<1> DEFINE r == <<s>>
           u == Cell(t, x)
           w == Cell(After(t, s), x)
<1> HIDE DEF r, u, w
<1>4. r \in Seq(Statements) /\ Leads(q, x, u, u) /\ Leads(r, x, u, w)
  BY <1>1, <1>2, <1>3 DEF r, u, w
<1>5. q \o r \in Seq(Statements)
  BY <1>4
<1>6. Leads(q \o r, x, u, w)
  BY <1>4, LeadsOn
<1> QED BY <1>5, <1>6 DEF r, u, w

\* What a command does to its account, and what it queues.
Commanded(a, p, more) ==
  /\ acct' \in [Accounts -> Owned] /\ acct' = With(a, p).acct
  /\ queue' \in Seq(Statements) /\ online' = online
  /\ \A x \in Cells : \A w :
       /\ Leads(queue, x, Cell(table, x), Cell(Memory, x))
       /\ Leads(more, x, Cell(With(a, p), x), w)
       => Leads(queue', x, Cell(table, x), w)

LEMMA DoneCommands ==
  ASSUME Types, NEW a \in Accounts, NEW p, Follows(a, p), NEW more \in Seq(Statements), Done(a, p, more)
  PROVE  Commanded(a, p, more)
<1>1. p \in Purses /\ p.sql \in Seq(Statements) /\ queue \in Seq(Statements)
  BY SavesAre DEF Follows, Purses, Types
<1>2. acct' = [acct EXCEPT ![a] = Owns(p)] /\ queue' = queue \o p.sql \o more /\ online' = online
  BY DEF Done, Owns
<1>3. Owns(p) \in Owned /\ acct \in [Accounts -> Owned]
  BY <1>1 DEF Owns, Owned, Purses, Types, TypeOK
<1>4. acct' \in [Accounts -> Owned]
  BY <1>2, <1>3
<1>5. acct' = With(a, p).acct
  <2>1. Memory \in Tables /\ Memory.acct = acct
    BY MemoryTypes DEF Memory, Types, Tables
  <2> QED BY <1>2, <2>1 DEF With, Tables
<1>6. queue \o p.sql \in Seq(Statements) /\ queue' \in Seq(Statements)
  BY <1>1, <1>2
<1>7. ASSUME NEW x \in Cells, NEW w, Leads(queue, x, Cell(table, x), Cell(Memory, x)),
             Leads(more, x, Cell(With(a, p), x), w)
      PROVE  Leads(queue', x, Cell(table, x), w)
  <2>1. Leads(p.sql, x, Cell(Memory, x), Cell(With(a, p), x))
    BY DEF Follows
  <2>2. Leads(queue \o p.sql, x, Cell(table, x), Cell(With(a, p), x))
    BY <1>1, <1>7, <2>1, LeadsOn
  <2> QED BY <1>2, <1>6, <1>7, <2>2, LeadsOn
<1> QED BY <1>2, <1>4, <1>5, <1>6, <1>7 DEF Commanded

\* n is what the memory has become.
Becomes(a, p, n) ==
  /\ n \in Tables /\ n.acct = With(a, p).acct /\ n.house = house' /\ (clean' => n.slots = ToSet(slots'))
  /\ house' \in Houses /\ slots' \in Seq(Slots) /\ table' = table
  /\ clean' \in BOOLEAN /\ (clean' => clean)

\* A command keeps tables and memory together when what it queues besides its
\* saves writes what it changes besides its account.
LEMMA CommandKeeps ==
  ASSUME Types, Database, NEW a \in Accounts, NEW p, Follows(a, p), NEW more \in Seq(Statements),
         Done(a, p, more), NEW n, Becomes(a, p, n),
         \A x \in Cells : Leads(more, x, Cell(With(a, p), x), Cell(n, x))
  PROVE  Types' /\ Database'
<1> USE DEF Becomes
<1>1. Commanded(a, p, more)
  BY DoneCommands
<1>2. Types'
  BY <1>1 DEF Commanded, Types, TypeOK
<1>3. ASSUME clean', NEW x \in Cells PROVE Cell(Memory', x) = Cell(n, x)
  <2>1. table' \in Tables
    BY <1>2 DEF Types
  <2>2. /\ Memory'.acct = n.acct /\ Memory'.house = n.house /\ Memory'.slots = n.slots
    BY <1>1, <1>3, <2>1 DEF Commanded, Memory, Tables
  <2> QED BY <2>2 DEF Cell
<1>4. ASSUME clean', NEW x \in Cells PROVE Leads(queue', x, Cell(table', x), Cell(Memory', x))
  <2>1. Leads(queue, x, Cell(table, x), Cell(Memory, x))
    BY <1>4 DEF Database
  <2>2. Leads(queue', x, Cell(table, x), Cell(n, x))
    BY <1>1, <2>1 DEF Commanded
  <2> QED BY <1>3, <1>4, <2>2
<1> QED BY <1>2, <1>4 DEF Database

\* A command that writes one thing besides its account.
LEMMA WritingKeeps ==
  ASSUME Types, Database, NEW a \in Accounts, NEW p, Follows(a, p),
         NEW q \in Seq(Statements), \A i \in 1..Len(q) : q[i].op = "send", NEW s \in Statements,
         Done(a, p, q \o <<s>>), Becomes(a, p, After(With(a, p), s))
  PROVE  Types' /\ Database'
<1>1. With(a, p) \in Tables
  BY MemoryTypes DEF Follows
<1>2. q \o <<s>> \in Seq(Statements)
  OBVIOUS
<1>3. ASSUME NEW x \in Cells
      PROVE  Leads(q \o <<s>>, x, Cell(With(a, p), x), Cell(After(With(a, p), s), x))
  BY <1>1, SentThen
<1> QED BY <1>2, <1>3, CommandKeeps

\* A command that writes nothing else.
LEMMA QuietKeeps ==
  ASSUME Types, Database, NEW a \in Accounts, NEW p, Follows(a, p), NEW q \in Seq(Statements),
         \A i \in 1..Len(q) : q[i].op \in {"send", "read", "remove", "purge"},
         Done(a, p, q), table' = table, house' = house, slots' = slots,
         clean' \in BOOLEAN, clean' => clean
  PROVE  Types' /\ Database'
<1>1. With(a, p) \in Tables /\ Memory \in Tables
  BY MemoryTypes DEF Follows
<1>2. With(a, p).house = house /\ With(a, p).slots = ToSet(slots)
  <2>1. Memory.house = house /\ Memory.slots = ToSet(slots)
    BY <1>1 DEF Memory, Tables, Types
  <2> QED BY <1>1, <2>1 DEF With, Tables
<1>3. Becomes(a, p, With(a, p))
  BY <1>1, <1>2 DEF Becomes, Types, TypeOK
<1>4. ASSUME NEW x \in Cells PROVE Leads(q, x, Cell(With(a, p), x), Cell(With(a, p), x))
  <2>1. \A i \in 1..Len(q) : q[i] \in Statements
    OBVIOUS
  <2>2. \A i \in 1..Len(q) : ~Writes(q[i], x)
    BY <2>1, OneRow DEF InOrder
  <2> QED BY <2>2, LeadsNowhere
<1> QED BY <1>3, <1>4, CommandKeeps

-----------------------------------------------------------------------------
(* Slots *)

\* Where the slot of an ID is.
LEMMA SlotIsAt ==
  ASSUME Types, NEW id \in Ids
  PROVE  /\ id \in Nat /\ GetSlot(id) \in 1..Len(slots)
         /\ slots[GetSlot(id)].id = id /\ slots[GetSlot(id)] \in Slots
<1> DEFINE I == {i \in 1..Len(slots) : slots[i].id = id}
<1>1. slots \in Seq(Slots) /\ Len(slots) \in Nat
  BY DEF Types, TypeOK
<1>2. I \in SUBSET Nat /\ I # {}
  BY <1>1 DEF Ids
<1>3. GetSlot(id) = Min(I)
  BY <1>2 DEF GetSlot, SelectInSeq
<1>4. Min(I) \in I
  BY <1>2, Least
<1>5. GetSlot(id) \in 1..Len(slots) /\ slots[GetSlot(id)].id = id
  BY <1>3, <1>4
<1>6. slots[GetSlot(id)] \in Slots
  BY <1>1, <1>5
<1> QED BY <1>5, <1>6 DEF Slots

\* RemoveSlotByID removes all there is of an ID when IDs are apart.
LEMMA SlotRemoved ==
  ASSUME Types, NEW id \in Ids, RemoveSlotByID(id)
  PROVE  /\ slots' \in Seq(Slots)
         /\ clean /\ SlotsApart => /\ ToSet(slots') = {slot \in ToSet(slots) : slot.id # id}
                                   /\ \A i, j \in 1..Len(slots') : slots'[i].id = slots'[j].id => i = j
<1> DEFINE g == GetSlot(id)
<1>1. g \in 1..Len(slots) /\ slots[g].id = id
  BY SlotIsAt
<1> HIDE DEF g
<1>2. /\ slots \in Seq(Slots) /\ Len(slots) \in Nat /\ slots' = RemoveAt(slots, g)
  BY DEF Types, TypeOK, RemoveSlotByID, g
<1>3. /\ slots' \in Seq(Slots) /\ Len(slots') = Len(slots) - 1
      /\ \A j \in 1..(Len(slots) - 1) : slots'[j] = IF j < g THEN slots[j] ELSE slots[j + 1]
  BY <1>1, <1>2, Removed
<1>4. ASSUME clean, SlotsApart PROVE \A i, j \in 1..Len(slots) : slots[i].id = slots[j].id => i = j
  BY <1>4 DEF SlotsApart
<1>5. ASSUME clean, SlotsApart, NEW slot \in ToSet(slots') PROVE slot \in ToSet(slots) /\ slot.id # id
  <2>1. PICK j \in 1..(Len(slots) - 1) : slot = slots'[j]
    BY <1>3, <1>5 DEF ToSet
  <2>2. CASE j < g
    BY <1>1, <1>2, <1>3, <1>4, <1>5, <2>1, <2>2 DEF ToSet
  <2>3. CASE j >= g
    <3>1. slot = slots[j + 1] /\ j + 1 \in 1..Len(slots) /\ j + 1 # g
      BY <1>1, <1>2, <1>3, <2>1, <2>3
    <3> QED BY <1>1, <1>2, <1>4, <1>5, <3>1 DEF ToSet
  <2> QED BY <1>1, <2>2, <2>3
<1>6. ASSUME NEW slot \in ToSet(slots), slot.id # id PROVE slot \in ToSet(slots')
  <2>1. PICK j \in 1..Len(slots) : slot = slots[j]
    BY <1>2 DEF ToSet
  <2>2. CASE j < g
    <3>1. j \in 1..(Len(slots) - 1) /\ slots'[j] = slot
      BY <1>1, <1>2, <1>3, <2>1, <2>2
    <3> QED BY <1>2, <1>3, <3>1 DEF ToSet
  <2>3. CASE j > g
    <3>1. j - 1 \in 1..(Len(slots) - 1) /\ ~(j - 1 < g) /\ (j - 1) + 1 = j
      BY <1>1, <1>2, <2>1, <2>3
    <3>2. slots'[j - 1] = slot
      BY <1>3, <2>1, <3>1
    <3> QED BY <1>2, <1>3, <3>1, <3>2 DEF ToSet
  <2>4. j # g
    BY <1>1, <1>6, <2>1
  <2> QED BY <1>1, <2>2, <2>3, <2>4
<1>7. ASSUME clean, SlotsApart, NEW i \in 1..Len(slots'), NEW j \in 1..Len(slots'), slots'[i].id = slots'[j].id
      PROVE  i = j
  <2> DEFINE At(k) == IF k < g THEN k ELSE k + 1
  <2>1. \A k \in 1..Len(slots') : At(k) \in 1..Len(slots) /\ slots'[k] = slots[At(k)]
    BY <1>1, <1>2, <1>3
  <2>2. At(i) = At(j)
    BY <1>4, <1>7, <2>1
  <2>3. i \in Nat /\ j \in Nat /\ g \in Nat
    BY <1>1, <1>2, <1>3
  <2> QED BY <2>2, <2>3
<1> QED BY <1>3, <1>5, <1>6, <1>7

\* The ID of a new slot.
LEMMA NewID ==
  ASSUME Types
  PROVE  1 + Max({0} \cup {slot.id : slot \in table.slots}) \in Nat
<1> DEFINE S == {slot.id : slot \in table.slots}
           T == {0} \cup S
<1>1. S \in SUBSET Nat /\ IsFiniteSet(S)
  <2>1. table.slots \subseteq Slots /\ IsFiniteSet(table.slots)
    BY DEF Types, TypeOK
  <2>2. IsFiniteSet(S)
    <3>1. PICK n \in Nat : \E f : f \in Surjection(1..n, table.slots)
      BY <2>1, FS_NatSurjection DEF ExistsSurjection
    <3>2. PICK f : f \in Surjection(1..n, table.slots)
      BY <3>1
    <3>3. [i \in 1..n |-> f[i].id] \in Surjection(1..n, S)
      BY <3>2 DEF Surjection
    <3> QED BY <3>3, FS_NatSurjection DEF ExistsSurjection
  <2> QED BY <2>1, <2>2 DEF Slots
<1> HIDE DEF S
<1>2. IsFiniteSet(S \cup {0})
  BY <1>1, FS_AddElement
<1>3. T \in SUBSET Nat /\ T # {} /\ IsFiniteSet(T)
  <2>1. T = S \cup {0}
    OBVIOUS
  <2> QED BY <1>1, <1>2, <2>1
<1>4. Max(T) \in T
  BY <1>3, Greatest
<1>5. 1 + Max(T) \in Nat
  BY <1>3, <1>4
<1> QED BY <1>5 DEF S

-----------------------------------------------------------------------------
(* The pool *)

Queued == queue \in Seq(Statements) /\ \A i \in 1..Len(queue) : queue[i] \in Statements

LEMMA QueueIs == ASSUME Types PROVE Queued /\ Len(queue) \in Nat
BY DEF Types, Queued

\* What the pool does: memory has not changed, and the tables still become it.
PoolStep ==
  /\ table' \in Tables /\ IsFiniteSet(table'.slots) /\ queue' \in Seq(Statements)
  /\ clean' \in BOOLEAN /\ (clean' => clean) /\ UNCHANGED <<acct, online, slots, house>>

Carried == clean' => \A x \in Cells : Leads(queue, x, Cell(table, x), Cell(Memory, x))
                                     => Leads(queue', x, Cell(table', x), Cell(Memory, x))

LEMMA PoolKeeps ==
  ASSUME Types, Database, PoolStep, Carried
  PROVE  Types' /\ Database'
<1> USE DEF PoolStep, Carried
<1>1. Types'
  BY DEF Types, TypeOK, Tables
<1>2. ASSUME clean', NEW x \in Cells PROVE Leads(queue', x, Cell(table', x), Cell(Memory', x))
  <2>1. Leads(queue, x, Cell(table, x), Cell(Memory, x))
    BY <1>2 DEF Database
  <2>2. Leads(queue', x, Cell(table', x), Cell(Memory, x))
    BY <1>2, <2>1
  <2>3. Cell(Memory', x) = Cell(Memory, x)
    <3>1. table \in Tables
      BY DEF Types
    <3>2. Memory'.acct = Memory.acct /\ Memory'.slots = Memory.slots /\ Memory'.house = Memory.house
      BY <3>1 DEF Memory, Tables
    <3> QED BY <3>2 DEF Cell
  <2> QED BY <2>2, <2>3
<1> QED BY <1>1, <1>2 DEF Database

LEMMA ExecuteKeeps ==
  ASSUME Types, Database, NEW i \in 1..Len(queue), Execute(i)
  PROVE  Types' /\ Database'
<1> DEFINE s == queue[i]
<1>1. /\ queue \in Seq(Statements) /\ s \in Statements /\ table \in Tables /\ IsFiniteSet(table.slots)
      /\ table' = After(table, s) /\ queue' = RemoveAt(queue, i)
  BY QueueIs DEF Types, Queued, Execute
<1>2. PoolStep
  <2>1. queue' \in Seq(Statements)
    BY <1>1, Removed
  <2>2. table' \in Tables /\ IsFiniteSet(table'.slots)
    BY <1>1, AfterTypes
  <2> QED BY <2>1, <2>2 DEF Execute, Types, TypeOK, PoolStep
<1>3. ASSUME clean', NEW x \in Cells, Leads(queue, x, Cell(table, x), Cell(Memory, x))
      PROVE  Leads(queue', x, Cell(table', x), Cell(Memory, x))
  <2>1. ASSUME Writes(s, x), NEW j \in 1..i-1 PROVE ~Writes(queue[j], x)
    <3>1. j \in 1..Len(queue) /\ queue[j] \in Statements
      BY QueueIs DEF Queued
    <3>2. InOrder(s) /\ queue[j].row # s.row
      BY <1>1, <1>3, <2>1, OneRow DEF Execute
    <3> QED BY <1>1, <2>1, <3>1, <3>2, OneRow
  <2>2. Cell(table', x) = IF Writes(s, x) THEN Written(s, x) ELSE Cell(table, x)
    BY <1>1, AfterCell
  <2> QED BY <1>1, <1>3, <2>1, <2>2, LeadsAfter
<1> QED BY <1>2, <1>3, PoolKeeps DEF Carried

LEMMA RetryKeeps ==
  ASSUME Types, Database, NEW i \in 1..Len(queue), Retry(i)
  PROVE  Types' /\ Database'
<1> DEFINE s == queue[i]
           r == RemoveAt(queue, i)
<1>1. PICK took \in BOOLEAN :
        /\ table' = IF took THEN After(table, s) ELSE table
        /\ clean' = (clean /\ ~(took /\ s.op = "send")
                           /\ ~(InOrder(s) /\ \E j \in 1..Len(queue) : j # i /\ queue[j].row = s.row))
  BY DEF Retry
<1>2. /\ queue \in Seq(Statements) /\ s \in Statements /\ table \in Tables /\ IsFiniteSet(table.slots)
      /\ r \in Seq(Statements) /\ queue' = Append(r, s)
  BY QueueIs, Removed DEF Types, Queued, Retry
<1>3. queue' = r \o <<s>> /\ <<s>> \in Seq(Statements)
  BY <1>2
<1>4. PoolStep
  <2>1. table' \in Tables /\ IsFiniteSet(table'.slots)
    BY <1>1, <1>2, AfterTypes
  <2>2. queue' \in Seq(Statements)
    BY <1>2
  <2> QED BY <1>1, <2>1, <2>2 DEF Retry, Types, TypeOK, PoolStep
<1>5. ASSUME clean', NEW x \in Cells, Leads(queue, x, Cell(table, x), Cell(Memory, x))
      PROVE  Leads(queue', x, Cell(table', x), Cell(Memory, x))
  <2> DEFINE y == Cell(table', x)
             v == Cell(Memory, x)
  <2>1. Cell(After(table, s), x) = IF Writes(s, x) THEN Written(s, x) ELSE Cell(table, x)
    BY <1>2, AfterCell
  <2>2. CASE Writes(s, x)
    <3>1. ASSUME NEW j \in 1..Len(queue), j # i PROVE ~Writes(queue[j], x)
      <4>1. queue[j] \in Statements
        BY QueueIs DEF Queued
      <4>2. InOrder(s) /\ queue[j].row # s.row
        BY <1>1, <1>2, <1>5, <2>2, <3>1, OneRow
      <4> QED BY <1>2, <2>2, <4>1, <4>2, OneRow
    <3>2. \A k \in 1..Len(r) : ~Writes(r[k], x)
      <4>1. /\ Len(r) = Len(queue) - 1 /\ Len(queue) \in Nat
            /\ \A j \in 1..(Len(queue) - 1) : r[j] = IF j < i THEN queue[j] ELSE queue[j + 1]
        BY <1>2, QueueIs, Removed
      <4>2. ASSUME NEW k \in 1..Len(r) PROVE ~Writes(r[k], x)
        <5>1. CASE k < i
          BY <3>1, <4>1, <5>1
        <5>2. CASE k >= i
          <6>1. k + 1 \in 1..Len(queue) /\ k + 1 # i /\ r[k] = queue[k + 1]
            BY <4>1, <5>2
          <6> QED BY <3>1, <6>1
        <5> QED BY <4>1, <5>1, <5>2
      <4> QED BY <4>2
    <3>3. Written(s, x) = v
      <4>1. \A j \in i+1..Len(queue) : ~Writes(queue[j], x)
        <5>1. \A j \in i+1..Len(queue) : j \in 1..Len(queue) /\ j # i
          BY QueueIs
        <5> QED BY <3>1, <5>1
      <4> QED BY <1>5, <2>2, <4>1 DEF Leads
    <3>4. Leads(r, x, y, y)
      BY <1>2, <3>2, LeadsNowhere
    <3>5. Leads(<<s>>, x, y, v)
      BY <2>2, <3>3, LeadsShort
    <3> HIDE DEF s, r, y, v
    <3>6. Leads(r \o <<s>>, x, y, v)
      BY <1>2, <1>3, <3>4, <3>5, LeadsOn
    <3> QED BY <1>3, <3>6 DEF y, v
  <2>3. CASE ~Writes(s, x)
    <3>1. y = Cell(table, x)
      BY <1>1, <2>1, <2>3
    <3>2. Leads(r, x, y, v)
      BY <1>2, <1>5, <2>3, <3>1, LeadsAfter
    <3>3. Leads(<<s>>, x, v, v)
      BY <2>3, LeadsShort
    <3> HIDE DEF s, r, y, v
    <3>4. Leads(r \o <<s>>, x, y, v)
      BY <1>2, <1>3, <3>2, <3>3, LeadsOn
    <3> QED BY <1>3, <3>4 DEF y, v
  <2> QED BY <2>2, <2>3
<1> QED BY <1>4, <1>5, PoolKeeps DEF Carried

LEMMA GiveUpKeeps ==
  ASSUME Types, Database, NEW i \in 1..Len(queue), GiveUp(i)
  PROVE  Types' /\ Database'
<1> DEFINE s == queue[i]
<1>1. queue \in Seq(Statements) /\ s \in Statements /\ queue' = RemoveAt(queue, i) /\ table' = table
  BY QueueIs DEF Types, Queued, GiveUp
<1>2. PoolStep
  <2>1. queue' \in Seq(Statements)
    BY <1>1, Removed
  <2> QED BY <1>1, <2>1 DEF GiveUp, Types, TypeOK, PoolStep
<1>3. ASSUME clean', NEW x \in Cells, Leads(queue, x, Cell(table, x), Cell(Memory, x))
      PROVE  Leads(queue', x, Cell(table', x), Cell(Memory, x))
  <2>1. ~Writes(s, x)
    BY <1>1, <1>3, OneRow DEF GiveUp, InOrder
  <2> QED BY <1>1, <1>3, <2>1, LeadsAfter
<1> QED BY <1>2, <1>3, PoolKeeps DEF Carried

-----------------------------------------------------------------------------
(* Steps *)

LEMMA WithHas ==
  ASSUME Types, NEW a \in Accounts, NEW p, Follows(a, p)
  PROVE  With(a, p) \in Tables /\ With(a, p).house = house /\ With(a, p).slots = ToSet(slots)
<1>1. With(a, p) \in Tables /\ Memory \in Tables
  BY MemoryTypes DEF Follows
<1>2. Memory.house = house /\ Memory.slots = ToSet(slots)
  BY <1>1 DEF Memory, Tables, Types
<1> QED BY <1>1, <1>2 DEF With, Tables

\* What commands write besides accounts: slots and the house.
LEMMA WithSlot ==
  ASSUME Types, NEW a \in Accounts, NEW p, Follows(a, p)
  PROVE  /\ \A slot \in Slots : After(With(a, p), Insert(slot)) = [With(a, p) EXCEPT !.slots = ToSet(slots) \cup {slot}]
         /\ \A id \in Nat : After(With(a, p), Delete(id))
                              = [With(a, p) EXCEPT !.slots = {slot \in ToSet(slots) : slot.id # id}]
BY WithHas DEF After, Insert, Delete, Statement

LEMMA WithHouse ==
  ASSUME Types, NEW a \in Accounts, NEW p, Follows(a, p)
  PROVE  /\ \A h \in Houses : After(With(a, p), SaveHouse(h)) = [With(a, p) EXCEPT !.house = h]
         /\ \A v \in Nat : After(With(a, p), SaveSafe(v)) = [With(a, p) EXCEPT !.house = [house EXCEPT !.safe = v]]
<1>1. \A h \in Houses : After(With(a, p), SaveHouse(h)) = [With(a, p) EXCEPT !.house = h]
  BY DEF After, SaveHouse, Statement
<1>2. ASSUME NEW v \in Nat
      PROVE  After(With(a, p), SaveSafe(v)) = [With(a, p) EXCEPT !.house = [house EXCEPT !.safe = v]]
  <2>1. After(With(a, p), SaveSafe(v)) = [With(a, p) EXCEPT !.house.safe = v]
    BY DEF After, SaveSafe, Statement
  <2> QED BY <2>1, WithHas DEF Tables
<1> QED BY <1>1, <1>2

LEMMA SlotsRest == ASSUME SlotsApart, slots' = slots, clean' => clean PROVE SlotsApart'
BY DEF SlotsApart

\* Letters that are sent.
LEMMA SendIs ==
  ASSUME NEW a \in Accounts, NEW gold \in Nat, NEW goods \in 0..1
  PROVE  Send(a, gold, goods) \in Statements /\ Send(a, gold, goods).op = "send"
<1>1. Letter(a, gold, goods) \in LetterSet
  BY DEF Letter, LetterSet
<1> QED BY <1>1, StatementsAre DEF Send, Post, Statement

\* The house, of which one field or everything is written.
LEMMA HouseKeeps ==
  ASSUME IInv, NEW a \in Accounts, NEW p, Follows(a, p), NEW s \in Statements,
         NEW q \in Seq(Statements), \A i \in 1..Len(q) : q[i].op = "send",
         house' \in Houses, s = SaveHouse(house') \/ (house' = [house EXCEPT !.safe = house'.safe] /\ s = SaveSafe(house'.safe)),
         Done(a, p, q \o <<s>>), UNCHANGED <<slots, table, clean>>
  PROVE  IInv'
<1> USE DEF IInv
<1> DEFINE n == After(With(a, p), s)
<1>1. n = [With(a, p) EXCEPT !.house = house']
  <2>1. house'.safe \in Nat
    BY DEF Houses
  <2> QED BY <2>1, WithHouse
<1>2. Becomes(a, p, n)
  <2>1. n \in Tables /\ n.acct = With(a, p).acct /\ n.house = house' /\ n.slots = ToSet(slots)
    BY <1>1, WithHas DEF Tables
  <2> HIDE DEF n
  <2> QED BY <2>1 DEF Becomes, Types, TypeOK
<1>3. Types' /\ Database'
  BY <1>2, WritingKeeps
<1> QED BY <1>3, SlotsRest

LEMMA CreateSlotKeeps ==
  ASSUME IInv, NEW a \in Accounts, NEW price \in Prices, CreateSlot(a, price)
  PROVE  IInv'
<1> DEFINE tax == GetTaxPrice(price)
           p == SpendCurrency(a, Player(a), tax)
<1>1. Types /\ Database /\ SlotsApart
  BY DEF IInv
<1>2. price \in Nat /\ tax \in Nat
  BY TradeAssumption, Shares
<1>3. Follows(a, p)
  <2>1. Follows(a, Player(a)) /\ CanSpend(Player(a), tax)
    BY <1>1, PlayerFollows DEF CreateSlot
  <2> HIDE DEF tax
  <2> QED BY <1>1, <1>2, <2>1, SpendFollows
<1>4. ASSUME p.bag < 1 PROVE IInv'
  <2>1. Done(a, p, <<>>) /\ UNCHANGED <<slots, clean, house, table>>
    BY <1>4 DEF CreateSlot
  <2> HIDE DEF p
  <2>2. Types' /\ Database'
    <3> DEFINE q == <<>>
    <3>1. q \in Seq(Statements) /\ \A i \in 1..Len(q) : q[i].op \in {"send", "read", "remove", "purge"}
      OBVIOUS
    <3>2. clean' \in BOOLEAN /\ (clean' => clean)
      BY <1>1, <2>1 DEF Types, TypeOK
    <3> QED BY <1>1, <1>3, <2>1, <3>1, <3>2, QuietKeeps
  <2> QED BY <1>1, <2>1, <2>2, SlotsRest DEF IInv
<1>5. ASSUME ~(p.bag < 1) PROVE IInv'
  <2>1. PICK ok \in BOOLEAN :
          LET id == IF ok THEN 1 + Max({0} \cup {slot.id : slot \in table.slots}) ELSE 1
              slot == [id |-> id, owner |-> a, price |-> price]
          IN /\ slots' = Append(slots, slot)
             /\ clean' = (clean /\ id \notin Ids)
             /\ Done(a, Put(a, p, "bag", 0), <<Statement("insert", <<"slot", id>>, slot)>>)
    BY <1>5 DEF CreateSlot
  <2> DEFINE id == IF ok THEN 1 + Max({0} \cup {slot.id : slot \in table.slots}) ELSE 1
             slot == [id |-> id, owner |-> a, price |-> price]
             w == Put(a, p, "bag", 0)
             s == Insert(slot)
             n == After(With(a, w), s)
  <2>2. UNCHANGED <<house, table>>
    BY DEF CreateSlot
  <2>3. id \in Nat
    BY <1>1, NewID
  <2>4. /\ slots' = Append(slots, slot) /\ clean' = (clean /\ id \notin Ids)
        /\ Done(a, w, <<s>>)
    BY <2>1 DEF Insert
  <2> HIDE DEF id, p
  <2>5. Follows(a, w)
    BY <1>1, <1>3, BagFollows
  <2>6. slot \in Slots /\ s \in Statements /\ slot.id = id
    <3>1. slot \in Slots
      BY <2>3 DEF Slots
    <3> QED BY <3>1, StatementsAre
  <2> HIDE DEF w, slot
  <2>7. slots \in Seq(Slots) /\ slots' \in Seq(Slots) /\ Len(slots) \in Nat /\ Len(slots') = Len(slots) + 1
        /\ \A i \in 1..Len(slots') : slots'[i] = IF i <= Len(slots) THEN slots[i] ELSE slot
    BY <1>1, <2>4, <2>6 DEF Types, TypeOK
  <2>8. ToSet(slots') = ToSet(slots) \cup {slot}
    BY <2>4, <2>6, <2>7 DEF ToSet
  <2>9. Becomes(a, w, n)
    <3>1. n = [With(a, w) EXCEPT !.slots = ToSet(slots) \cup {slot}]
      BY <1>1, <2>5, <2>6, WithSlot
    <3>2. /\ With(a, w) \in Tables /\ With(a, w).house = house
          /\ ToSet(slots') \subseteq Slots
      BY <1>1, <2>5, <2>7, WithHas DEF ToSet
    <3>3. n \in Tables /\ n.acct = With(a, w).acct /\ n.house = house /\ n.slots = ToSet(slots')
      BY <2>8, <3>1, <3>2 DEF Tables
    <3> HIDE DEF n
    <3> QED BY <1>1, <2>2, <2>4, <2>7, <3>3 DEF Becomes, Types, TypeOK
  <2>10. Types' /\ Database'
    <3> DEFINE q == <<>>
    <3>1. q \in Seq(Statements) /\ \A i \in 1..Len(q) : q[i].op = "send"
      OBVIOUS
    <3>2. Done(a, w, q \o <<s>>)
      <4>1. q \o <<s>> = <<s>>
        BY <2>6
      <4> QED BY <2>4, <4>1
    <3> HIDE DEF q, s
    <3> QED BY <1>1, <2>5, <2>6, <2>9, <3>1, <3>2, WritingKeeps
  <2>11. SlotsApart'
    <3>1. ASSUME clean', NEW i \in 1..Len(slots'), NEW j \in 1..Len(slots'), slots'[i].id = slots'[j].id PROVE i = j
      <4>1. \A k \in 1..Len(slots) : slots[k].id # id
        <5>1. id \notin Ids
          BY <2>4, <3>1
        <5>2. DOMAIN slots = 1..Len(slots)
          BY <2>7
        <5> QED BY <5>1, <5>2 DEF Ids
      <4>2. \A k, l \in 1..Len(slots) : slots[k].id = slots[l].id => k = l
        BY <1>1, <2>4, <3>1 DEF SlotsApart
      <4> QED BY <2>6, <2>7, <3>1, <4>1, <4>2
    <3> QED BY <3>1 DEF SlotsApart
  <2> QED BY <2>10, <2>11 DEF IInv
<1> QED BY <1>4, <1>5

\* A slot is gone, and so is its row.
LEMMA SlotGoneKeeps ==
  ASSUME IInv, NEW id \in Ids, RemoveSlotByID(id), NEW a \in Accounts, NEW p, Follows(a, p),
         NEW q \in Seq(Statements), \A i \in 1..Len(q) : q[i].op = "send",
         Done(a, p, q \o DeleteSlot(id)), UNCHANGED <<house, table, clean>>
  PROVE  IInv'
<1> DEFINE s == Delete(id)
           n == After(With(a, p), s)
<1>1. Types /\ Database /\ SlotsApart /\ id \in Nat
  BY SlotIsAt DEF IInv
<1>2. s \in Statements /\ DeleteSlot(id) = <<s>>
  BY <1>1, StatementsAre DEF DeleteSlot, Delete
<1>3. /\ slots' \in Seq(Slots)
      /\ clean => /\ ToSet(slots') = {slot \in ToSet(slots) : slot.id # id}
                  /\ \A i, j \in 1..Len(slots') : slots'[i].id = slots'[j].id => i = j
  BY <1>1, SlotRemoved
<1>4. Becomes(a, p, n)
  <2> DEFINE left == {slot \in ToSet(slots) : slot.id # id}
  <2>1. n = [With(a, p) EXCEPT !.slots = left]
    BY <1>1, WithSlot
  <2>2. With(a, p) \in Tables /\ With(a, p).house = house /\ left \subseteq Slots
    BY <1>1, WithHas DEF ToSet, Types, TypeOK
  <2> HIDE DEF left
  <2>3. n \in Tables /\ n.acct = With(a, p).acct /\ n.house = house /\ n.slots = left
    BY <2>1, <2>2 DEF Tables
  <2> HIDE DEF n
  <2> QED BY <1>1, <1>3, <2>3 DEF Becomes, Types, TypeOK, left
<1>5. Types' /\ Database'
  <2>1. Done(a, p, q \o <<s>>)
    BY <1>2
  <2> HIDE DEF s
  <2> QED BY <1>1, <1>2, <1>4, <2>1, WritingKeeps
<1>6. SlotsApart'
  BY <1>3 DEF SlotsApart
<1> QED BY <1>5, <1>6 DEF IInv

LEMMA CancelSlotKeeps ==
  ASSUME IInv, NEW a \in Accounts, NEW id \in Ids, CancelSlot(a, id)
  PROVE  IInv'
<1> DEFINE s == Send(a, 0, 1)
           q == <<s>>
<1>1. Follows(a, Player(a))
  BY PlayerFollows DEF IInv
<1>2. s \in Statements /\ s.op = "send"
  BY SendIs
<1>3. Done(a, Player(a), q \o DeleteSlot(id)) /\ UNCHANGED <<house, table, clean>> /\ RemoveSlotByID(id)
  BY DEF CancelSlot
<1> HIDE DEF s
<1>4. q \in Seq(Statements) /\ \A i \in 1..Len(q) : q[i].op = "send"
  BY <1>2
<1> HIDE DEF q
<1> QED BY <1>1, <1>3, <1>4, SlotGoneKeeps

LEMMA BuySlotKeeps ==
  ASSUME IInv, NEW a \in Accounts, NEW id \in Ids, BuySlot(a, id)
  PROVE  IInv'
<1> DEFINE slot == slots[GetSlot(id)]
           p == SpendCurrency(a, Player(a), slot.price)
           s == Send(slot.owner, slot.price, 0)
           t == Send(a, 0, 1)
           q == <<s, t>>
<1>1. Types /\ slot \in Slots
  BY SlotIsAt DEF IInv
<1>2. slot.price \in Nat /\ slot.owner \in Accounts
  BY <1>1, TradeAssumption DEF Slots
<1>3. /\ Done(a, p, q \o DeleteSlot(id)) /\ UNCHANGED <<house, table, clean>>
      /\ RemoveSlotByID(id) /\ CanSpend(Player(a), slot.price)
  BY DEF BuySlot
<1> HIDE DEF slot
<1>4. Follows(a, p)
  BY <1>1, <1>2, <1>3, PlayerFollows, SpendFollows
<1>5. s \in Statements /\ s.op = "send" /\ t \in Statements /\ t.op = "send"
  BY <1>2, SendIs
<1> HIDE DEF s, t
<1>6. q \in Seq(Statements) /\ \A i \in 1..Len(q) : q[i].op = "send"
  BY <1>5
<1> HIDE DEF q, p
<1> QED BY <1>3, <1>4, <1>6, SlotGoneKeeps

LEMMA AcceptMailKeeps ==
  ASSUME IInv, NEW a \in Accounts, NEW m \in table.mail, NEW capacity \in Capacities, AcceptMail(a, m, capacity)
  PROVE  IInv'
<1> DEFINE l == m.letter
           refused == l.goods = 1 /\ acct[a].bag = 1
           paid == Add(a, Player(a), l.gold, capacity)
           p == IF l.goods = 1 /\ ~refused THEN Put(a, paid, "bag", 1) ELSE paid
           s == Send(a, 0, 1)
           r == RemoveMail(m)
           q == (IF refused THEN <<s>> ELSE <<>>) \o <<r>>
<1>1. Types /\ Database /\ SlotsApart
  BY DEF IInv
<1>2. m \in Mails /\ l \in LetterSet /\ l.gold \in Nat /\ m.id \in Nat
  BY <1>1 DEF Types, Tables, Mails, LetterSet
<1>3. /\ Done(a, p, q) /\ clean' = (clean /\ ~Deleted(m)) /\ UNCHANGED <<slots, house, table>>
  BY DEF AcceptMail, DeleteMail
<1>4. s \in Statements /\ s.op = "send"
  BY SendIs
<1>5. r \in Statements /\ r.op = "remove"
  BY <1>2, StatementsAre DEF RemoveMail, Erase, Statement
<1>6. Follows(a, p)
  <2>1. Follows(a, paid)
    BY <1>1, <1>2, PlayerFollows, AddFollows
  <2> HIDE DEF paid, refused
  <2>2. Follows(a, Put(a, paid, "bag", 1))
    BY <1>1, <2>1, BagFollows
  <2> QED BY <2>1, <2>2
<1> HIDE DEF p, s, r, refused
<1>7. q \in Seq(Statements) /\ \A i \in 1..Len(q) : q[i].op \in {"send", "read", "remove", "purge"}
  <2>1. CASE refused
    <3>1. q = <<s, r>>
      <4>1. q = <<s>> \o <<r>>
        BY <2>1
      <4>2. <<s>> \o <<r>> = <<s, r>>
        BY Paired
      <4> QED BY <4>1, <4>2
    <3> HIDE DEF q
    <3> QED BY <1>4, <1>5, <3>1
  <2>2. CASE ~refused
    <3>1. q = <<r>>
      BY <1>5, <2>2
    <3> HIDE DEF q
    <3> QED BY <1>5, <3>1
  <2> QED BY <2>1, <2>2
<1> HIDE DEF q
<1>8. clean' \in BOOLEAN /\ (clean' => clean)
  BY <1>1, <1>3 DEF Types, TypeOK
<1>9. Types' /\ Database'
  BY <1>1, <1>3, <1>6, <1>7, <1>8, QuietKeeps
<1> QED BY <1>1, <1>3, <1>8, <1>9, SlotsRest DEF IInv

LEMMA ReadOrDeleteKeeps ==
  ASSUME IInv, NEW a \in Accounts, ReadOrDelete(a)
  PROVE  IInv'
<1>1. Types /\ Database /\ SlotsApart
  BY DEF IInv
<1>2. PICK s \in Statements : s.op \in {"read", "remove", "purge"} /\ Done(a, Player(a), <<s>>)
  <2>1. ASSUME NEW m \in table.mail PROVE m.id \in Nat
    BY <1>1 DEF Types, Tables, Mails
  <2>2. \A m \in table.mail : /\ Mark(m.id) \in Statements /\ Mark(m.id).op = "read"
                              /\ RemoveMail(m) \in Statements /\ RemoveMail(m).op = "remove"
    BY <2>1, StatementsAre DEF Mark, RemoveMail, Erase, Statement
  <2>3. Purge(a) \in Statements /\ Purge(a).op = "purge"
    BY StatementsAre DEF Purge, Statement
  <2>4. CASE \E m \in table.mail : \/ Done(a, Player(a), <<Mark(m.id)>>)
                                   \/ Done(a, Player(a), <<RemoveMail(m)>>)
    BY <2>2, <2>4
  <2>5. CASE Done(a, Player(a), <<Purge(a)>>)
    BY <2>3, <2>5
  <2> QED BY <2>4, <2>5 DEF ReadOrDelete, Mark, Purge
<1> DEFINE q == <<s>>
<1>3. q \in Seq(Statements) /\ \A i \in 1..Len(q) : q[i].op \in {"send", "read", "remove", "purge"}
  BY <1>2
<1>4. Done(a, Player(a), q)
  BY <1>2
<1> HIDE DEF q
<1>5. UNCHANGED <<slots, house, table, clean>> /\ clean' \in BOOLEAN /\ (clean' => clean)
  BY <1>1 DEF ReadOrDelete, Types, TypeOK
<1>6. Types' /\ Database'
  BY <1>1, <1>3, <1>4, <1>5, PlayerFollows, QuietKeeps
<1> QED BY <1>1, <1>5, <1>6, SlotsRest DEF IInv

LEMMA BankDepositKeeps ==
  ASSUME IInv, NEW a \in Accounts, NEW v \in Amounts, BankDeposit(a, v)
  PROVE  IInv'
<1> DEFINE r == RemoveGold(a, Player(a), v)
           p == AddGoldToBank(a, r, v - Commission(v))
           q == <<>>
<1>1. Types /\ Database /\ SlotsApart
  BY DEF IInv
<1>2. v \in Nat /\ v - Commission(v) \in Nat
  <2>1. v \in Nat
    BY TradeAssumption
  <2> QED BY <2>1, Shares
<1>3. Follows(a, r)
  BY <1>1, <1>2, PlayerFollows, RemoveFollows
<1>4. r.bank \in Nat
  BY <1>3 DEF Follows, Purses
<1> HIDE DEF r
<1>5. Follows(a, p)
  <2>1. v - Commission(v) \in Int /\ r.bank + (v - Commission(v)) >= 0
    BY <1>2, <1>4
  <2> QED BY <1>1, <1>3, <2>1, BankFollows
<1>6. Done(a, p, q) /\ UNCHANGED <<slots, house, table, clean>> /\ clean' \in BOOLEAN /\ (clean' => clean)
  BY <1>1 DEF BankDeposit, r, Types, TypeOK
<1>7. q \in Seq(Statements) /\ \A i \in 1..Len(q) : q[i].op \in {"send", "read", "remove", "purge"}
  OBVIOUS
<1> HIDE DEF p, q
<1>8. Types' /\ Database'
  BY <1>1, <1>5, <1>6, <1>7, QuietKeeps
<1> QED BY <1>1, <1>6, <1>8, SlotsRest DEF IInv

LEMMA UpdateEquippedStatsKeeps ==
  ASSUME IInv, NEW a \in Accounts, NEW capacity \in Capacities, UpdateEquippedStats(a, capacity)
  PROVE  IInv'
<1> DEFINE over == acct[a].hand - capacity
           p == RemoveGold(a, AddGoldToBank(a, Player(a), over), over)
           q == <<>>
<1>1. Types /\ Database /\ SlotsApart
  BY DEF IInv
<1>2. over \in Nat /\ over <= acct[a].hand
  <2>1. acct[a].hand \in Nat
    BY <1>1 DEF Types, TypeOK, Owned
  <2>2. capacity \in Nat /\ over > 0
    BY TradeAssumption DEF UpdateEquippedStats
  <2> QED BY <2>1, <2>2
<1>3. Follows(a, p)
  <2> HIDE DEF over
  <2> QED BY <1>1, <1>2, LimitFollows
<1>4. Done(a, p, q) /\ UNCHANGED <<slots, house, table, clean>> /\ clean' \in BOOLEAN /\ (clean' => clean)
  BY <1>1 DEF UpdateEquippedStats, Types, TypeOK
<1>5. q \in Seq(Statements) /\ \A i \in 1..Len(q) : q[i].op \in {"send", "read", "remove", "purge"}
  OBVIOUS
<1> HIDE DEF p, q
<1>6. Types' /\ Database'
  BY <1>1, <1>3, <1>4, <1>5, QuietKeeps
<1> QED BY <1>1, <1>4, <1>6, SlotsRest DEF IInv

\* The owner and the safe of the house, and nothing but the house besides an account.
LEMMA HouseOnly ==
  ASSUME IInv, NEW a \in Accounts, NEW p, Follows(a, p), NEW h \in Houses, house' = h,
         NEW s \in {SaveHouse(h), SaveSafe(h.safe)}, s = SaveSafe(h.safe) => h.owner = house.owner,
         Done(a, p, <<s>>), UNCHANGED <<slots, table, clean>>
  PROVE  IInv'
<1> DEFINE q == <<>>
<1>1. s \in Statements /\ h.safe \in Nat /\ house \in Houses
  BY StatementsAre DEF Houses, IInv, Types, TypeOK
<1>2. q \in Seq(Statements) /\ (\A i \in 1..Len(q) : q[i].op = "send") /\ q \o <<s>> = <<s>>
  BY <1>1
<1>3. s = SaveSafe(h.safe) => h = [house EXCEPT !.safe = h.safe]
  BY <1>1 DEF Houses
<1>4. \/ s = SaveHouse(house')
      \/ house' = [house EXCEPT !.safe = house'.safe] /\ s = SaveSafe(house'.safe)
  BY <1>3
<1>5. Done(a, p, q \o <<s>>)
  BY <1>2
<1> HIDE DEF q
<1> QED BY <1>1, <1>2, <1>4, <1>5, HouseKeeps

LEMMA BuyKeeps ==
  ASSUME IInv, NEW a \in Accounts, Buy(a)
  PROVE  IInv'
<1> DEFINE h == [owner |-> a, safe |-> 0]
           p == SpendCurrency(a, Player(a), InitialFee)
<1>1. Types /\ InitialFee \in Nat
  BY TradeAssumption DEF IInv
<1>2. h \in Houses
  BY DEF Houses
<1>3. Follows(a, p)
  BY <1>1, PlayerFollows, SpendFollows DEF Buy
<1>4. Done(a, p, <<SaveHouse(h)>>) /\ house' = h /\ UNCHANGED <<slots, table, clean>>
  BY DEF Buy
<1>5. SaveHouse(h) = SaveSafe(h.safe) => h.owner = house.owner
  BY DEF SaveHouse, SaveSafe, Statement
<1> HIDE DEF h, p
<1> QED BY <1>2, <1>3, <1>4, <1>5, HouseOnly

LEMMA SellKeeps ==
  ASSUME IInv, Sell
  PROVE  IInv'
<1> DEFINE a == house.owner
           h == Sold(house)
           s == Send(a, Max({1, house.safe}), 0)
           q == <<s>>
<1>1. Types /\ a \in Accounts /\ house.safe \in Nat
  BY DEF IInv, Types, TypeOK, Houses, Sell
<1>2. h \in Houses
  BY DEF Sold, Houses
<1>3. s \in Statements /\ s.op = "send"
  <2>1. Max({1, house.safe}) \in Nat
    BY <1>1, MaxOfTwo
  <2> QED BY <1>1, <2>1, SendIs
<1>4. SaveHouse(h) \in Statements
  BY <1>2, StatementsAre
<1>5. house' = h /\ UNCHANGED <<slots, table, clean>> /\ Done(a, Player(a), <<s, SaveHouse(h)>>)
  BY DEF Sell
<1> HIDE DEF s, a
<1>6. q \in Seq(Statements) /\ \A i \in 1..Len(q) : q[i].op = "send"
  BY <1>3
<1>7. q \o <<SaveHouse(h)>> = <<s, SaveHouse(h)>>
  BY Paired
<1> HIDE DEF q, h
<1>8. Done(a, Player(a), q \o <<SaveHouse(h)>>)
  BY <1>5, <1>7
<1> QED BY <1>1, <1>2, <1>4, <1>5, <1>6, <1>8, PlayerFollows, HouseKeeps

LEMMA SafeAddKeeps ==
  ASSUME IInv, NEW a \in Accounts, NEW v \in Amounts, SafeAdd(a, v)
  PROVE  IInv'
<1> DEFINE h == [house EXCEPT !.safe = @ + v]
           p == SpendCurrency(a, Player(a), v)
<1>1. Types /\ v \in Nat /\ house \in Houses
  BY TradeAssumption DEF IInv, Types, TypeOK
<1>2. h \in Houses /\ h.owner = house.owner /\ h.safe = house.safe + v
  BY <1>1 DEF Houses
<1>3. Follows(a, p)
  BY <1>1, PlayerFollows, SpendFollows DEF SafeAdd
<1>4. Done(a, p, <<SaveSafe(h.safe)>>) /\ house' = h /\ UNCHANGED <<slots, table, clean>>
  BY <1>2 DEF SafeAdd
<1> HIDE DEF h, p
<1> QED BY <1>2, <1>3, <1>4, HouseOnly

LEMMA SafeTakeKeeps ==
  ASSUME IInv, NEW a \in Accounts, NEW v \in Amounts, NEW capacity \in Capacities, SafeTake(a, v, capacity)
  PROVE  IInv'
<1> DEFINE w == Min({v, house.safe})
           h == [house EXCEPT !.safe = @ - w]
           p == Add(a, Player(a), w, capacity)
<1>1. Types /\ v \in Nat /\ house \in Houses /\ house.safe \in Nat
  BY TradeAssumption DEF IInv, Types, TypeOK, Houses
<1>2. w \in 0..house.safe
  BY <1>1, MinOfTwo
<1>3. w \in Nat
  BY <1>1, <1>2
<1>4. Done(a, p, <<SaveSafe(house.safe - w)>>) /\ house' = h /\ UNCHANGED <<slots, table, clean>>
  BY DEF SafeTake
<1> HIDE DEF w
<1>5. h \in Houses /\ h.owner = house.owner /\ h.safe = house.safe - w
  BY <1>1, <1>2 DEF Houses
<1>6. Follows(a, p)
  BY <1>1, <1>3, PlayerFollows, AddFollows
<1>7. Done(a, p, <<SaveSafe(h.safe)>>)
  BY <1>4, <1>5
<1> HIDE DEF h, p
<1> QED BY <1>4, <1>5, <1>6, <1>7, HouseOnly

LEMMA ExtendRentDaysKeeps ==
  ASSUME IInv, NEW a \in Accounts, NEW v \in Amounts, ExtendRentDays(a, v)
  PROVE  IInv'
<1> DEFINE price == RentPrice * v
           h == [house EXCEPT !.safe = @ - price]
<1>1. Types /\ house \in Houses /\ house.safe \in Nat
  BY DEF IInv, Types, TypeOK, Houses
<1>2. price \in Nat
  <2>1. RentPrice \in Nat /\ v \in Nat
    BY TradeAssumption
  <2> QED BY <2>1
<1>3. /\ Done(a, Player(a), <<SaveSafe(house.safe - price)>>) /\ house' = h
      /\ UNCHANGED <<slots, table, clean>> /\ house.safe >= price
  BY DEF ExtendRentDays
<1> HIDE DEF price
<1>4. h \in Houses /\ h.owner = house.owner /\ h.safe = house.safe - price
  BY <1>1, <1>2, <1>3 DEF Houses
<1>5. Done(a, Player(a), <<SaveSafe(h.safe)>>)
  BY <1>3, <1>4
<1> HIDE DEF h
<1> QED BY <1>1, <1>3, <1>4, <1>5, PlayerFollows, HouseOnly

LEMMA LeaveKeeps ==
  ASSUME IInv, NEW a \in Accounts, Leave(a)
  PROVE  IInv'
<1>1. Types /\ Database /\ SlotsApart
  BY DEF IInv
<1>2. UNCHANGED <<acct, slots, house, table, queue, clean>> /\ online' \subseteq online
  BY DEF Leave
<1>3. Types'
  BY <1>1, <1>2 DEF Types, TypeOK
<1>4. Database'
  <2>1. Memory' = Memory
    BY <1>2 DEF Memory
  <2> QED BY <1>1, <1>2, <2>1 DEF Database
<1> QED BY <1>1, <1>2, <1>3, <1>4, SlotsRest DEF IInv

LEMMA SameAccount ==
  ASSUME NEW o \in Owned, NEW r \in Owned, \A f \in Fields : o[f] = r[f]
  PROVE  o = r
<1>1. o.hand = r.hand /\ o.bank = r.bank /\ o.bag = r.bag
  BY DEF Fields
<1> QED BY <1>1 DEF Owned

\* Who has no save pending is loaded as remembered.
LEMMA LoadedAsLeft ==
  ASSUME Types, Database, NEW a \in Accounts, LogIn(a), clean'
  PROVE  acct' = acct /\ clean
<1>1. PICK ok \in BOOLEAN :
        /\ acct' = [acct EXCEPT ![a] = IF ok THEN table.acct[a] ELSE [table.acct[a] EXCEPT !.hand = 0, !.bag = 0]]
        /\ clean' = (clean /\ ok /\ ~\E field \in {"hand", "bank", "bag"} : Pending("set", <<field, a>>))
  BY DEF LogIn
<1>2. acct \in [Accounts -> Owned] /\ table.acct[a] \in Owned /\ acct[a] \in Owned
  BY DEF Types, TypeOK
<1>3. ASSUME NEW f \in Fields PROVE table.acct[a][f] = acct[a][f]
  <2>1. PICK x \in Cells : x = [tag |-> f, of |-> a]
    BY DEF Cells
  <2>2. \A i \in 1..Len(queue) : ~Writes(queue[i], x)
    BY <1>1, <2>1 DEF Pending, Writes, Fields
  <2>3. Leads(queue, x, Cell(table, x), Cell(Memory, x))
    BY <1>1 DEF Database
  <2>4. Cell(table, x) = Cell(Memory, x)
    BY <2>2, <2>3, NothingPending DEF Types
  <2>5. table \in Tables /\ Memory.acct = acct
    BY DEF Types, Tables, Memory
  <2> QED BY <2>1, <2>4, <2>5 DEF Cell
<1>4. table.acct[a] = acct[a]
  BY <1>2, <1>3, SameAccount
<1>5. acct' = [acct EXCEPT ![a] = acct[a]]
  BY <1>1, <1>4
<1> QED BY <1>1, <1>2, <1>5

LEMMA LogInKeeps ==
  ASSUME IInv, NEW a \in Accounts, LogIn(a)
  PROVE  IInv'
<1>1. Types /\ Database /\ SlotsApart
  BY DEF IInv
<1>2. PICK ok \in BOOLEAN :
        /\ acct' = [acct EXCEPT ![a] = IF ok THEN table.acct[a] ELSE [table.acct[a] EXCEPT !.hand = 0, !.bag = 0]]
        /\ clean' = (clean /\ ok /\ ~\E field \in {"hand", "bank", "bag"} : Pending("set", <<field, a>>))
  BY DEF LogIn
<1>3. UNCHANGED <<slots, house, table, queue>> /\ online' = online \cup {a}
  BY DEF LogIn
<1>4. acct \in [Accounts -> Owned] /\ table.acct \in [Accounts -> Owned] /\ table.acct[a] \in Owned /\ acct[a] \in Owned
  BY <1>1 DEF Types, TypeOK
<1>5. Types'
  <2>1. [table.acct[a] EXCEPT !.hand = 0, !.bag = 0] \in Owned
    <3> DEFINE r == table.acct[a]
    <3>1. r \in Owned
      BY <1>4
    <3> HIDE DEF r
    <3> DEFINE t == [r EXCEPT !.hand = 0]
    <3>2. t \in Owned
      BY <3>1 DEF Owned
    <3>3. [r EXCEPT !.hand = 0, !.bag = 0] = [t EXCEPT !.bag = 0]
      OBVIOUS
    <3> HIDE DEF t
    <3>4. [t EXCEPT !.bag = 0] \in Owned
      BY <3>2 DEF Owned
    <3> QED BY <3>3, <3>4 DEF r
  <2>2. acct' \in [Accounts -> Owned]
    BY <1>2, <1>4, <2>1
  <2>3. clean' \in BOOLEAN
    BY <1>1, <1>2 DEF Types, TypeOK
  <2> QED BY <1>1, <1>3, <2>2, <2>3 DEF Types, TypeOK
<1>6. ASSUME clean' PROVE acct' = acct
  BY <1>1, <1>6, LoadedAsLeft
<1>7. Database'
  <2>1. ASSUME clean' PROVE Memory' = Memory
    BY <1>3, <1>6, <2>1 DEF Memory
  <2>2. clean' => clean
    BY <1>2
  <2> QED BY <1>1, <1>3, <2>1, <2>2 DEF Database
<1>8. SlotsApart'
  BY <1>1, <1>2, <1>3, SlotsRest
<1> QED BY <1>5, <1>7, <1>8 DEF IInv

\* When nothing is pending that writes, the tables are what is in memory.
LEMMA TablesAreMemory ==
  ASSUME Types, Database, clean, \A x \in Cells : \A i \in 1..Len(queue) : ~Writes(queue[i], x)
  PROVE  table.acct = acct /\ table.house = house /\ table.slots = ToSet(slots)
<1>1. /\ table \in Tables /\ acct \in [Accounts -> Owned] /\ table.acct \in [Accounts -> Owned]
      /\ house \in Houses /\ table.house \in Houses /\ table.slots \subseteq Slots
      /\ ToSet(slots) \subseteq Slots /\ queue \in Seq(Statements)
  BY DEF Types, TypeOK, ToSet
<1>2. Memory.acct = acct /\ Memory.house = house /\ Memory.slots = ToSet(slots)
  BY <1>1 DEF Memory, Tables
<1>3. ASSUME NEW x \in Cells PROVE Cell(table, x) = Cell(Memory, x)
  BY <1>1, NothingPending DEF Database
<1>4. table.acct = acct
  <2>1. ASSUME NEW a \in Accounts, NEW f \in Fields PROVE table.acct[a][f] = acct[a][f]
    <3>1. PICK x \in Cells : x = [tag |-> f, of |-> a]
      BY DEF Cells
    <3> QED BY <1>2, <1>3, <3>1 DEF Cell
  <2>2. ASSUME NEW a \in Accounts PROVE table.acct[a] = acct[a]
    BY <1>1, <2>1, SameAccount
  <2> QED BY <1>1, <2>2
<1>5. table.house = house
  <2>1. PICK x \in Cells : x = [tag |-> "owner", of |-> Nobody]
    BY DEF Cells
  <2>2. PICK y \in Cells : y = [tag |-> "safe", of |-> Nobody]
    BY DEF Cells
  <2>3. table.house.owner = house.owner /\ table.house.safe = house.safe
    BY <1>2, <1>3, <2>1, <2>2 DEF Cell, Fields
  <2> QED BY <1>1, <2>3 DEF Houses
<1>6. table.slots = ToSet(slots)
  <2>1. ASSUME NEW slot \in Slots PROVE slot \in table.slots <=> slot \in ToSet(slots)
    <3>1. PICK x \in Cells : x = [tag |-> "slot", of |-> slot]
      BY DEF Cells
    <3>2. (x.of \in table.slots) = (x.of \in Memory.slots)
      BY <1>3, <3>1 DEF Cell, Fields
    <3> QED BY <1>2, <3>1, <3>2
  <2> QED BY <1>1, <2>1
<1> QED BY <1>4, <1>5, <1>6

\* Every slot once.
Once(q) == \A i, j \in 1..Len(q) : i # j => q[i] # q[j]

LEMMA RestartLoads ==
  ASSUME Types, Restart
  PROVE  /\ slots' \in Seq(table.slots) /\ slots' \in Seq(Slots)
         /\ Once(slots') /\ ToSet(slots') = table.slots
<1> DEFINE S == table.slots
           k == Cardinality(S)
<1>1. IsFiniteSet(S) /\ k \in Nat /\ S \subseteq Slots
  BY FS_CardinalityType DEF Types, TypeOK
<1>2. slots' \in [1..k -> S] /\ \A i, j \in 1..k : i # j => slots'[i] # slots'[j]
  BY DEF Restart, SetToSeqs
<1> HIDE DEF S, k
<1>3. slots' \in Seq(S) /\ Len(slots') = k /\ DOMAIN slots' = 1..k
  BY <1>1, <1>2
<1>4. ToSet(slots') = S
  <2> DEFINE T == ToSet(slots')
  <2>1. T \subseteq S
    BY <1>2 DEF ToSet
  <2>2. slots' \in Bijection(1..k, T)
    BY <1>2, <1>3 DEF Bijection, Injection, Surjection, IsInjective, ToSet
  <2>3. IsFiniteSet(T)
    BY <1>1, <2>1, FS_Subset
  <2>4. Cardinality(T) = k
    <3>1. ExistsBijection(1..k, T)
      BY <2>2 DEF ExistsBijection
    <3> QED BY <1>1, <2>3, <3>1, FS_CountingElements
  <2>5. k = Cardinality(S)
    BY DEF S, k
  <2> HIDE DEF T
  <2>6. T = S
    BY <1>1, <2>1, <2>4, <2>5, FS_Subset
  <2> QED BY <2>6 DEF T
<1> QED BY <1>1, <1>2, <1>3, <1>4 DEF S, Once

\* Nothing of the memory was waiting to be saved.
LEMMA NothingLost ==
  ASSUME Types, Database, Restart, clean'
  PROVE  clean /\ table.acct = acct /\ table.house = house /\ table.slots = ToSet(slots)
<1>1. clean /\ \A i \in 1..Len(queue) : queue[i].op \in {"read", "purge"}
  BY DEF Restart
<1>2. ASSUME NEW x \in Cells, NEW i \in 1..Len(queue) PROVE ~Writes(queue[i], x)
  <2>1. queue[i] \in Statements
    BY QueueIs DEF Queued
  <2> QED BY <1>1, <2>1, OneRow DEF InOrder
<1> QED BY <1>1, <1>2, TablesAreMemory

LEMMA RestartKeeps ==
  ASSUME IInv, Restart
  PROVE  IInv'
<1>1. Types /\ Database /\ SlotsApart
  BY DEF IInv
<1>2. /\ house' = table.house /\ slots' \in SetToSeqs(table.slots) /\ queue' = <<>> /\ online' = {}
      /\ clean' = (clean /\ \A i \in 1..Len(queue) : queue[i].op \in {"read", "purge"})
      /\ UNCHANGED <<acct, table>>
  BY DEF Restart
<1>3. /\ slots' \in Seq(table.slots) /\ slots' \in Seq(Slots)
      /\ Once(slots') /\ ToSet(slots') = table.slots
  BY <1>1, RestartLoads
<1>4. Types'
  <2>1. queue' \in Seq(Statements)
    BY <1>2
  <2>2. clean' \in BOOLEAN
    BY <1>1, <1>2 DEF Types, TypeOK
  <2> QED BY <1>1, <1>2, <1>3, <2>1, <2>2 DEF Types, TypeOK
<1>5. ASSUME clean' PROVE table.acct = acct /\ table.house = house /\ table.slots = ToSet(slots)
  BY <1>1, <1>5, NothingLost
<1>6. Database'
  <2>1. ASSUME clean', NEW x \in Cells PROVE Leads(queue', x, Cell(table', x), Cell(Memory', x))
    <3>1. Memory' = [table EXCEPT !.acct = table.acct, !.slots = table.slots, !.house = table.house]
      BY <1>2, <1>3, <1>5, <2>1 DEF Memory
    <3>2. table \in Tables
      BY <1>1 DEF Types
    <3>3. Memory' = table
      BY <3>1, <3>2 DEF Tables
    <3> QED BY <1>2, <3>3, LeadsShort
  <2> QED BY <2>1 DEF Database
<1>7. SlotsApart'
  <2>1. ASSUME clean', NEW i \in 1..Len(slots'), NEW j \in 1..Len(slots'), slots'[i].id = slots'[j].id PROVE i = j
    <3>1. slots'[i] \in ToSet(slots) /\ slots'[j] \in ToSet(slots)
      BY <1>3, <1>5, <2>1
    <3>2. \A k, l \in 1..Len(slots) : slots[k].id = slots[l].id => k = l
      BY <1>1, <1>2, <2>1 DEF SlotsApart
    <3>3. slots \in Seq(Slots)
      BY <1>1 DEF Types, TypeOK
    <3>4. slots'[i] = slots'[j]
      BY <2>1, <3>1, <3>2, <3>3 DEF ToSet
    <3> QED BY <1>3, <3>4 DEF Once
  <2> QED BY <2>1 DEF SlotsApart
<1> QED BY <1>4, <1>6, <1>7 DEF IInv

LEMMA SameState ==
  ASSUME IInv, UNCHANGED vars
  PROVE  IInv'
<1>1. /\ acct' = acct /\ online' = online /\ slots' = slots /\ house' = house /\ table' = table
      /\ queue' = queue /\ clean' = clean
  BY DEF vars
<1>2. Types' /\ SlotsApart'
  BY <1>1 DEF IInv, Types, TypeOK, SlotsApart
<1>3. Database'
  <2>1. Memory' = Memory
    BY <1>1 DEF Memory
  <2> QED BY <1>1, <2>1 DEF IInv, Database
<1> QED BY <1>2, <1>3 DEF IInv

-----------------------------------------------------------------------------
(* Theorems *)

THEOREM Start == Init => IInv
<1> SUFFICES ASSUME Init PROVE IInv
  OBVIOUS
<1>1. PICK a \in Accounts :
        table = [acct |-> acct, slots |-> {}, house |-> house, next |-> 2,
                 mail |-> {[id |-> 1, letter |-> Letter(a, 1, 1), read |-> FALSE]}]
  BY DEF Init
<1>2. acct \in [Accounts -> Owned]
  <2>1. Wealth \subseteq Owned
    BY TradeAssumption DEF Owned
  <2> QED BY <2>1 DEF Init
<1>3. house \in Houses
  BY DEF Init, Houses
<1>4. [id |-> 1, letter |-> Letter(a, 1, 1), read |-> FALSE] \in Mails
  BY DEF Mails, LetterSet, Letter
<1>5. table \in Tables /\ IsFiniteSet(table.slots) /\ table.acct = acct /\ table.house = house /\ table.slots = {}
  <2>1. IsFiniteSet({})
    BY FS_EmptySet
  <2> QED BY <1>1, <1>2, <1>3, <1>4, <2>1 DEF Tables
<1>6. slots = <<>> /\ queue = <<>> /\ clean = TRUE /\ online = Accounts
  BY DEF Init
<1>7. Types /\ SlotsApart
  BY <1>2, <1>3, <1>5, <1>6 DEF Types, TypeOK, SlotsApart
<1>8. Database
  <2>1. Memory = table
    <3>1. ToSet(slots) = {}
      BY <1>6 DEF ToSet
    <3> QED BY <1>5, <3>1 DEF Memory, Tables
  <2>2. \A x \in Cells : Leads(queue, x, Cell(table, x), Cell(Memory, x))
    BY <1>6, <2>1, LeadsShort
  <2> QED BY <2>2 DEF Database
<1> QED BY <1>7, <1>8 DEF IInv

\* What a player does.
LEMMA CommandsKeep ==
  ASSUME IInv, NEW a \in Accounts, Command(a)
  PROVE  IInv'
<1>1. ASSUME NEW price \in Prices, CreateSlot(a, price) PROVE IInv'
  BY <1>1, CreateSlotKeeps
<1>2. ASSUME NEW id \in Ids, CancelSlot(a, id) PROVE IInv'
  BY <1>2, CancelSlotKeeps
<1>3. ASSUME NEW id \in Ids, BuySlot(a, id) PROVE IInv'
  BY <1>3, BuySlotKeeps
<1>4. ASSUME NEW m \in table.mail, NEW capacity \in Capacities, AcceptMail(a, m, capacity) PROVE IInv'
  BY <1>4, AcceptMailKeeps
<1>5. CASE ReadOrDelete(a)
  BY <1>5, ReadOrDeleteKeeps
<1>6. ASSUME NEW v \in Amounts, BankDeposit(a, v) PROVE IInv'
  BY <1>6, BankDepositKeeps
<1>7. CASE Buy(a)
  BY <1>7, BuyKeeps
<1>8. ASSUME NEW v \in Amounts, SafeAdd(a, v) PROVE IInv'
  BY <1>8, SafeAddKeeps
<1>9. ASSUME NEW v \in Amounts, NEW capacity \in Capacities, SafeTake(a, v, capacity) PROVE IInv'
  BY <1>9, SafeTakeKeeps
<1>10. ASSUME NEW v \in Amounts, ExtendRentDays(a, v) PROVE IInv'
  BY <1>10, ExtendRentDaysKeeps
<1>11. ASSUME NEW capacity \in Capacities, UpdateEquippedStats(a, capacity) PROVE IInv'
  BY <1>11, UpdateEquippedStatsKeeps
<1> QED BY <1>1, <1>2, <1>3, <1>4, <1>5, <1>6, <1>7, <1>8, <1>9, <1>10, <1>11 DEF Command

THEOREM Keeps == IInv /\ [Next]_vars => IInv'
<1> SUFFICES ASSUME IInv, [Next]_vars PROVE IInv'
  OBVIOUS
<1>1. ASSUME NEW i \in 1..Len(queue), Execute(i) \/ Retry(i) \/ GiveUp(i) PROVE IInv'
  <2>1. Types' /\ Database'
    BY <1>1, ExecuteKeeps, RetryKeeps, GiveUpKeeps DEF IInv
  <2>2. slots' = slots /\ (clean' => clean)
    BY <1>1 DEF Execute, Retry, GiveUp
  <2> QED BY <2>1, <2>2, SlotsRest DEF IInv
<1>2. ASSUME NEW a \in online, Command(a) \/ Leave(a) PROVE IInv'
  <2>1. a \in Accounts
    BY DEF IInv, Types, TypeOK
  <2> QED BY <1>2, <2>1, CommandsKeep, LeaveKeeps
<1>3. ASSUME NEW a \in Accounts, LogIn(a) PROVE IInv'
  BY <1>3, LogInKeeps
<1>4. CASE Sell
  BY <1>4, SellKeeps
<1>5. CASE Restart
  BY <1>5, RestartKeeps
<1>6. CASE UNCHANGED vars
  BY <1>6, SameState
<1> QED BY <1>1, <1>2, <1>3, <1>4, <1>5, <1>6 DEF Next

\* Nobody is in debt, neither in memory nor in the tables, whatever SpendCurrency,
\* CPlayerItem::Add, UpdateEquippedStats, the bank and the safe of the house do,
\* whatever the capacity is at each of them and whatever has failed.
THEOREM TypesHold == Spec => []TypeOK
<1>1. IInv => TypeOK
  BY DEF IInv, Types
<1> QED BY <1>1, Start, Keeps, PTL DEF Spec

\* Once the pool has executed what commands have queued, the tables hold what is
\* in memory: every change of CAccountData, of the slots of CAuctionManager and of
\* CHouse has its statement, and the statements on one row say the latest of it.
THEOREM TableFollowsHolds == Spec => []TableFollows
<1>1. ASSUME IInv PROVE TableFollows
  <2>1. ASSUME clean, queue = <<>> PROVE table.acct = acct /\ table.house = house /\ table.slots = ToSet(slots)
    <3>1. \A x \in Cells : \A i \in 1..Len(queue) : ~Writes(queue[i], x)
      BY <2>1
    <3> QED BY <1>1, <2>1, <3>1, TablesAreMemory DEF IInv
  <2> QED BY <2>1 DEF TableFollows
<1> QED BY <1>1, Start, Keeps, PTL DEF Spec

-----------------------------------------------------------------------------
(* Bags, by how often they hold a value *)

Often(B, v) == IF v \in DOMAIN B THEN B[v] ELSE 0

Counts(B) == B \in [DOMAIN B -> Nat \ {0}]

\* How often f has the value v.
Times(f, v) == Cardinality({x \in DOMAIN f : f[x] = v})

LEMMA SameBag ==
  ASSUME NEW B, NEW C, Counts(B), Counts(C), \A v : Often(B, v) = Often(C, v)
  PROVE  B = C
<1>1. ASSUME NEW v PROVE v \in DOMAIN B <=> v \in DOMAIN C
  <2>1. Often(B, v) = Often(C, v)
    OBVIOUS
  <2> QED BY <2>1 DEF Often, Counts
<1>2. DOMAIN B = DOMAIN C
  BY <1>1
<1>3. ASSUME NEW v \in DOMAIN B PROVE B[v] = C[v]
  BY <1>2 DEF Often
<1> QED BY <1>2, <1>3 DEF Counts

\* One more, one less, and two bags in one.
LEMMA BagMore ==
  ASSUME NEW B, Counts(B), NEW x
  PROVE  /\ Counts(M!BagAdd(B, x))
         /\ \A v : Often(M!BagAdd(B, x), v) = Often(B, v) + (IF v = x THEN 1 ELSE 0)
<1> DEFINE C == M!BagAdd(B, x)
<1>0. \A e \in DOMAIN B : B[e] \in Nat /\ B[e] # 0
  BY DEF Counts
<1>1. CASE x \in DOMAIN B
  <2>1. C = [e \in DOMAIN B |-> IF e = x THEN B[e] + 1 ELSE B[e]]
    BY <1>1 DEF M!BagAdd
  <2> HIDE DEF C
  <2>2. DOMAIN C = DOMAIN B /\ Counts(C)
    BY <1>0, <1>1, <2>1 DEF Counts
  <2>3. ASSUME NEW v PROVE Often(C, v) = Often(B, v) + (IF v = x THEN 1 ELSE 0)
    BY <1>0, <1>1, <2>1, <2>2 DEF Often
  <2> QED BY <2>2, <2>3 DEF C
<1>2. CASE x \notin DOMAIN B
  <2>1. C = [e \in DOMAIN B \cup {x} |-> IF e = x THEN 1 ELSE B[e]]
    BY <1>2 DEF M!BagAdd
  <2> HIDE DEF C
  <2>2. DOMAIN C = DOMAIN B \cup {x} /\ Counts(C)
    BY <1>0, <1>2, <2>1 DEF Counts
  <2>3. ASSUME NEW v PROVE Often(C, v) = Often(B, v) + (IF v = x THEN 1 ELSE 0)
    BY <1>0, <1>2, <2>1, <2>2 DEF Often
  <2> QED BY <2>2, <2>3 DEF C
<1> QED BY <1>1, <1>2

LEMMA BagLess ==
  ASSUME NEW B, Counts(B), NEW x \in DOMAIN B
  PROVE  /\ Counts(M!BagRemove(B, x))
         /\ \A v : Often(M!BagRemove(B, x), v) = Often(B, v) - (IF v = x THEN 1 ELSE 0)
<1> DEFINE C == M!BagRemove(B, x)
<1>0. \A e \in DOMAIN B : B[e] \in Nat /\ B[e] # 0
  BY DEF Counts
<1>1. CASE B[x] = 1
  <2>1. C = [e \in DOMAIN B \ {x} |-> B[e]]
    BY <1>1 DEF M!BagRemove
  <2> HIDE DEF C
  <2>2. DOMAIN C = DOMAIN B \ {x} /\ Counts(C)
    BY <1>0, <1>1, <2>1 DEF Counts
  <2>3. ASSUME NEW v PROVE Often(C, v) = Often(B, v) - (IF v = x THEN 1 ELSE 0)
    BY <1>0, <1>1, <2>1, <2>2 DEF Often
  <2> QED BY <2>2, <2>3 DEF C
<1>2. CASE B[x] # 1
  <2>1. C = [e \in DOMAIN B |-> IF e = x THEN B[e] - 1 ELSE B[e]]
    BY <1>2 DEF M!BagRemove
  <2> HIDE DEF C
  <2>2. DOMAIN C = DOMAIN B /\ Counts(C)
    BY <1>0, <1>2, <2>1 DEF Counts
  <2>3. ASSUME NEW v PROVE Often(C, v) = Often(B, v) - (IF v = x THEN 1 ELSE 0)
    BY <1>0, <1>2, <2>1, <2>2 DEF Often
  <2> QED BY <2>2, <2>3 DEF C
<1> QED BY <1>1, <1>2

LEMMA BagSum ==
  ASSUME NEW B, Counts(B), NEW C, Counts(C)
  PROVE  Counts(B (+) C) /\ \A v : Often(B (+) C, v) = Often(B, v) + Often(C, v)
<1> DEFINE D == B (+) C
<1>1. D = [e \in (DOMAIN B) \cup (DOMAIN C) |->
             (IF e \in DOMAIN B THEN B[e] ELSE 0) + (IF e \in DOMAIN C THEN C[e] ELSE 0)]
  BY DEF (+)
<1> HIDE DEF D
<1>2. Counts(D) /\ \A v : Often(D, v) = Often(B, v) + Often(C, v)
  BY <1>1 DEF Counts, Often
<1> QED BY <1>2 DEF D

LEMMA BagCounts ==
  ASSUME NEW f, IsFiniteSet(DOMAIN f)
  PROVE  Counts(BagOf(f)) /\ \A v : Often(BagOf(f), v) = Times(f, v) /\ Times(f, v) \in Nat
<1>1. ASSUME NEW v
      PROVE  /\ Times(f, v) \in Nat /\ (Times(f, v) = 0 <=> v \notin Range(f))
  <2> DEFINE P == {x \in DOMAIN f : f[x] = v}
  <2>1. IsFiniteSet(P)
    BY FS_Subset
  <2>2. P = {} <=> v \notin Range(f)
    BY DEF Range
  <2> HIDE DEF P
  <2>3. Cardinality(P) \in Nat /\ (Cardinality(P) = 0 <=> P = {})
    BY <2>1, FS_CardinalityType, FS_EmptySet
  <2> QED BY <2>2, <2>3 DEF Times, P
<1>2. BagOf(f) = [v \in Range(f) |-> Times(f, v)]
  BY DEF BagOf, Times
<1> QED BY <1>1, <1>2 DEF Counts, Often

-----------------------------------------------------------------------------
(* Sequences, by how often they have an element *)

LEMMA TimesShort == \A s, v : Times(<<>>, v) = 0 /\ Times(<<s>>, v) = IF s = v THEN 1 ELSE 0
<1> SUFFICES ASSUME NEW s, NEW v PROVE Times(<<>>, v) = 0 /\ Times(<<s>>, v) = IF s = v THEN 1 ELSE 0
  OBVIOUS
<1>1. {x \in DOMAIN <<>> : <<>>[x] = v} = {}
  OBVIOUS
<1>2. {x \in DOMAIN <<s>> : <<s>>[x] = v} = IF s = v THEN {1} ELSE {}
  OBVIOUS
<1> QED BY <1>1, <1>2, FS_EmptySet, FS_Singleton DEF Times

LEMMA TimesType == ASSUME NEW S, NEW q \in Seq(S), NEW v PROVE Times(q, v) \in Nat
<1>1. Len(q) \in Nat /\ DOMAIN q = 1..Len(q)
  OBVIOUS
<1>2. IsFiniteSet(DOMAIN q)
  BY <1>1, FS_Interval
<1>3. IsFiniteSet({x \in DOMAIN q : q[x] = v})
  BY <1>2, FS_Subset
<1> QED BY <1>3, FS_CardinalityType DEF Times

LEMMA TimesJoined ==
  ASSUME NEW S, NEW a \in Seq(S), NEW b \in Seq(S), NEW v
  PROVE  Times(a \o b, v) = Times(a, v) + Times(b, v)
<1> DEFINE c == a \o b
           P == {x \in 1..Len(a) : a[x] = v}
           Q == {x \in 1..Len(b) : b[x] = v}
           R == {Len(a) + x : x \in Q}
           f == [x \in Q |-> Len(a) + x]
<1>1. /\ c \in Seq(S) /\ Len(c) = Len(a) + Len(b) /\ Len(a) \in Nat /\ Len(b) \in Nat
      /\ \A j \in 1..(Len(a) + Len(b)) : c[j] = IF j <= Len(a) THEN a[j] ELSE b[j - Len(a)]
  <2>1. Len(a) \in Nat /\ Len(b) \in Nat
    OBVIOUS
  <2> QED BY <2>1, Joined
<1>2. DOMAIN a = 1..Len(a) /\ DOMAIN b = 1..Len(b) /\ DOMAIN c = 1..Len(c)
  BY <1>1
<1> HIDE DEF c
<1>3. IsFiniteSet(P) /\ IsFiniteSet(Q)
  <2>1. IsFiniteSet(1..Len(a)) /\ IsFiniteSet(1..Len(b))
    BY <1>1, FS_Interval
  <2> QED BY <2>1, FS_Subset
<1>4. IsFiniteSet(R) /\ Cardinality(R) = Cardinality(Q)
  <2>1. \A x \in Q : x \in Nat
    BY <1>1
  <2>2. f \in Bijection(Q, R)
    <3>1. f \in [Q -> R] /\ \A t \in R : \E x \in Q : f[x] = t
      OBVIOUS
    <3>2. \A x, y \in Q : f[x] = f[y] => x = y
      BY <1>1, <2>1
    <3> HIDE DEF f, R, Q
    <3> QED BY <3>1, <3>2 DEF Bijection, Injection, Surjection, IsInjective
  <2> HIDE DEF f, R, Q
  <2> QED BY <1>3, <2>2, FS_Bijection DEF ExistsBijection
<1>5. {x \in DOMAIN c : c[x] = v} = P \cup R
  <2>1. ASSUME NEW x \in DOMAIN c, c[x] = v PROVE x \in P \cup R
    <3>1. x \in 1..(Len(a) + Len(b)) /\ x \in Nat
      BY <1>1, <1>2
    <3>2. CASE x <= Len(a)
      BY <1>1, <2>1, <3>1, <3>2
    <3>3. CASE x > Len(a)
      <4>1. x - Len(a) \in 1..Len(b) /\ x = Len(a) + (x - Len(a)) /\ ~(x <= Len(a))
        BY <1>1, <3>1, <3>3
      <4>2. b[x - Len(a)] = v
        BY <1>1, <2>1, <3>1, <4>1
      <4>3. x - Len(a) \in Q
        BY <4>1, <4>2
      <4> QED BY <4>1, <4>3
    <3> QED BY <1>1, <3>1, <3>2, <3>3
  <2>2. ASSUME NEW x \in P PROVE x \in DOMAIN c /\ c[x] = v
    BY <1>1, <1>2
  <2>3. ASSUME NEW y \in Q PROVE Len(a) + y \in DOMAIN c /\ c[Len(a) + y] = v
    <3>1. Len(a) + y \in 1..(Len(a) + Len(b)) /\ ~(Len(a) + y <= Len(a)) /\ (Len(a) + y) - Len(a) = y
      BY <1>1
    <3> QED BY <1>1, <1>2, <3>1
  <2> QED BY <2>1, <2>2, <2>3
<1>6. P \cap R = {}
  BY <1>1
<1>7. Cardinality(P \cup R) = Cardinality(P) + Cardinality(R)
  <2> HIDE DEF P, R
  <2>1. Cardinality(P) \in Nat /\ Cardinality(R) \in Nat
    BY <1>3, <1>4, FS_CardinalityType
  <2>2. Cardinality(P \cap R) = 0
    BY <1>6, FS_EmptySet
  <2>3. Cardinality(P \cup R) = Cardinality(P) + Cardinality(R) - Cardinality(P \cap R)
    BY <1>3, <1>4, FS_Union
  <2> QED BY <2>1, <2>2, <2>3
<1>8. Times(c, v) = Cardinality(P \cup R) /\ Times(a, v) = Cardinality(P) /\ Times(b, v) = Cardinality(Q)
  BY <1>2, <1>5 DEF Times
<1> HIDE DEF P, Q, R
<1> QED BY <1>4, <1>7, <1>8 DEF c

LEMMA TimesRemoved ==
  ASSUME NEW S, NEW q \in Seq(S), NEW i \in 1..Len(q), NEW v
  PROVE  Times(RemoveAt(q, i), v) = Times(q, v) - IF q[i] = v THEN 1 ELSE 0
<1> DEFINE a == SubSeq(q, 1, i - 1)
           b == SubSeq(q, i + 1, Len(q))
           e == <<q[i]>>
           d == a \o e
<1>1. /\ a \in Seq(S) /\ Len(a) = i - 1 /\ Len(q) \in Nat
      /\ \A j \in 1..i-1 : a[j] = q[j]
  OBVIOUS
<1>2. /\ b \in Seq(S) /\ Len(b) = Len(q) - i
      /\ \A j \in 1..(Len(q) - i) : b[j] = q[i + j]
  OBVIOUS
<1>3. e \in Seq(S) /\ Len(e) = 1 /\ e[1] = q[i]
  OBVIOUS
<1>4. RemoveAt(q, i) = a \o b
  BY DEF RemoveAt
<1>5. Times(e, v) = IF q[i] = v THEN 1 ELSE 0
  BY TimesShort
<1> HIDE DEF a, b, e
<1>6. /\ d \in Seq(S) /\ Len(d) = i
      /\ \A j \in 1..i : d[j] = q[j]
  <2>1. /\ d \in Seq(S) /\ Len(d) = Len(a) + Len(e)
        /\ \A j \in 1..(Len(a) + Len(e)) : d[j] = IF j <= Len(a) THEN a[j] ELSE e[j - Len(a)]
    BY <1>1, <1>3, Joined
  <2> HIDE DEF d
  <2>2. ASSUME NEW j \in 1..i PROVE d[j] = q[j]
    <3>1. CASE j <= i - 1
      BY <1>1, <1>3, <2>1, <3>1
    <3>2. CASE j = i
      BY <1>1, <1>3, <2>1, <3>2
    <3> QED BY <3>1, <3>2
  <2>3. Len(d) = i
    BY <1>1, <1>3, <2>1
  <2> QED BY <2>1, <2>2, <2>3
<1> HIDE DEF d
<1>7. q = d \o b
  <2> DEFINE c == d \o b
  <2>1. /\ c \in Seq(S) /\ Len(c) = Len(d) + Len(b)
        /\ \A j \in 1..(Len(d) + Len(b)) : c[j] = IF j <= Len(d) THEN d[j] ELSE b[j - Len(d)]
    BY <1>2, <1>6, Joined
  <2> HIDE DEF c
  <2>2. Len(c) = Len(q)
    BY <1>1, <1>2, <1>6, <2>1
  <2>3. ASSUME NEW j \in 1..Len(q) PROVE c[j] = q[j]
    <3>1. CASE j <= i
      <4>1. j \in 1..i /\ j <= Len(d) /\ j \in 1..(Len(d) + Len(b))
        BY <1>1, <1>2, <1>6, <3>1
      <4> QED BY <1>6, <2>1, <4>1
    <3>2. CASE j > i
      <4>1. j - i \in 1..(Len(q) - i) /\ i + (j - i) = j /\ ~(j <= Len(d)) /\ j \in 1..(Len(d) + Len(b))
        BY <1>1, <1>2, <1>6, <3>2
      <4>2. b[j - i] = q[j]
        BY <1>2, <4>1
      <4> QED BY <1>6, <2>1, <4>1, <4>2
    <3> QED BY <1>1, <3>1, <3>2
  <2>4. c \in [1..Len(q) -> S] /\ q \in [1..Len(q) -> S]
    BY <1>1, <2>1, <2>2
  <2>5. c = q
    BY <2>3, <2>4
  <2> QED BY <2>5 DEF c
<1>8. Times(q, v) = Times(d, v) + Times(b, v)
  BY <1>2, <1>6, <1>7, TimesJoined
<1>9. Times(d, v) = Times(a, v) + Times(e, v)
  BY <1>1, <1>3, TimesJoined DEF d
<1>10. Times(a \o b, v) = Times(a, v) + Times(b, v)
  BY <1>1, <1>2, TimesJoined
<1>11. Times(a, v) \in Nat /\ Times(b, v) \in Nat
  BY <1>1, <1>2, TimesType
<1> QED BY <1>4, <1>5, <1>8, <1>9, <1>10, <1>11

LEMMA TimesSome ==
  ASSUME NEW S, NEW q \in Seq(S), NEW v
  PROVE  /\ Times(q, v) # 0 <=> \E i \in 1..Len(q) : q[i] = v
         /\ v \notin S => Times(q, v) = 0
<1> DEFINE P == {x \in DOMAIN q : q[x] = v}
<1>1. Len(q) \in Nat /\ DOMAIN q = 1..Len(q)
  OBVIOUS
<1>2. IsFiniteSet(P)
  <2>1. IsFiniteSet(DOMAIN q)
    BY <1>1, FS_Interval
  <2> QED BY <2>1, FS_Subset
<1>3. P # {} <=> \E i \in 1..Len(q) : q[i] = v
  BY <1>1
<1>4. v \notin S => P = {}
  BY <1>1
<1>5. Times(q, v) = Cardinality(P)
  BY DEF Times
<1> HIDE DEF P
<1> QED BY <1>2, <1>3, <1>4, <1>5, FS_EmptySet

-----------------------------------------------------------------------------
(* The mailbox *)

\* The IDs of letters.
Boxed(t) ==
  /\ IsFiniteSet(t.mail)
  /\ \A m \in t.mail : m.id < t.next
  /\ \A m, n \in t.mail : m.id = n.id => m = n

Mailbox == Boxed(table) /\ \A id \in Nat : Times(queue, Erase(id)) # 0 => id < table.next

\* A statement, and what it does to the letters when it makes tables u of tables t.
MailAfter(t, s, u) ==
  \/ s \notin {Post(l) : l \in LetterSet} \cup {Mark(id) : id \in Nat}
              \cup {Erase(id) : id \in Nat} \cup {Purge(a) : a \in Accounts}
     /\ u.mail = t.mail /\ u.next = t.next
  \/ \E l \in LetterSet : /\ s = Post(l) /\ u.next = t.next + 1
                          /\ u.mail = t.mail \cup {[id |-> t.next, letter |-> l, read |-> FALSE]}
  \/ \E id \in Nat : /\ s = Mark(id) /\ u.next = t.next
                     /\ u.mail = {[m EXCEPT !.read = @ \/ m.id = id] : m \in t.mail}
  \/ \E id \in Nat : /\ s = Erase(id) /\ u.next = t.next
                     /\ u.mail = {m \in t.mail : m.id # id}
  \/ \E a \in Accounts : /\ s = Purge(a) /\ u.next = t.next
                         /\ u.mail = {m \in t.mail : ~(m.letter.to = a /\ m.read)}

LEMMA AfterMail ==
  ASSUME NEW t \in Tables, NEW s \in Statements
  PROVE  MailAfter(t, s, After(t, s))
<1> DEFINE u == After(t, s)
           Others == {Post(l) : l \in LetterSet} \cup {Mark(id) : id \in Nat}
                     \cup {Erase(id) : id \in Nat} \cup {Purge(a) : a \in Accounts}
           Rest == s \notin Others /\ u.mail = t.mail /\ u.next = t.next
<1>0. \A o \in Others : o.op \in {"send", "read", "remove", "purge"}
  BY DEF Post, Mark, Erase, Purge, Statement
<1>1. ASSUME NEW f \in Fields, NEW a \in Accounts, NEW v \in Values(f), s = Save(a, f, v) PROVE Rest
  <2>1. u = [t EXCEPT !.acct[a][f] = v] /\ s.op = "set"
    BY <1>1 DEF After, Save, Statement
  <2> QED BY <1>0, <2>1 DEF Tables
<1>2. ASSUME NEW h \in Houses, s = SaveHouse(h) PROVE Rest
  <2>1. u = [t EXCEPT !.house = h] /\ s.op = "set"
    BY <1>2 DEF After, SaveHouse, Statement
  <2> QED BY <1>0, <2>1 DEF Tables
<1>3. ASSUME NEW v \in Nat, s = SaveSafe(v) PROVE Rest
  <2>1. u = [t EXCEPT !.house.safe = v] /\ s.op = "safe"
    BY <1>3 DEF After, SaveSafe, Statement
  <2> QED BY <1>0, <2>1 DEF Tables
<1>4. ASSUME NEW slot \in Slots, s = Insert(slot) PROVE Rest
  <2>1. u = [t EXCEPT !.slots = @ \cup {slot}] /\ s.op = "insert"
    BY <1>4 DEF After, Insert, Statement
  <2> QED BY <1>0, <2>1 DEF Tables
<1>5. ASSUME NEW id \in Nat, s = Delete(id) PROVE Rest
  <2>1. u = [t EXCEPT !.slots = {slot \in @ : slot.id # id}] /\ s.op = "delete"
    BY <1>5 DEF After, Delete, Statement
  <2> QED BY <1>0, <2>1 DEF Tables
<1>6. ASSUME NEW l \in LetterSet, s = Post(l)
      PROVE  u.next = t.next + 1 /\ u.mail = t.mail \cup {[id |-> t.next, letter |-> l, read |-> FALSE]}
  <2> DEFINE m == [id |-> t.next, letter |-> l, read |-> FALSE]
  <2>1. u = [t EXCEPT !.mail = t.mail \cup {m}, !.next = t.next + 1]
    BY <1>6 DEF Post, Statement, After
  <2> HIDE DEF m, u
  <2>2. u.mail = t.mail \cup {m} /\ u.next = t.next + 1
    BY <2>1 DEF Tables
  <2> QED BY <2>2 DEF m
<1>7. ASSUME NEW id \in Nat, s = Mark(id)
      PROVE  u.next = t.next /\ u.mail = {[m EXCEPT !.read = @ \/ m.id = id] : m \in t.mail}
  BY <1>7 DEF Mark, Statement, After, Tables
<1>8. ASSUME NEW id \in Nat, s = Erase(id)
      PROVE  u.next = t.next /\ u.mail = {m \in t.mail : m.id # id}
  BY <1>8 DEF Erase, Statement, After, Tables
<1>9. ASSUME NEW a \in Accounts, s = Purge(a)
      PROVE  u.next = t.next /\ u.mail = {m \in t.mail : ~(m.letter.to = a /\ m.read)}
  BY <1>9 DEF Purge, Statement, After, Tables
<1> HIDE DEF u, Rest
<1>10. \/ Rest
       \/ \E l \in LetterSet : s = Post(l) \/ \E id \in Nat : s = Mark(id) \/ s = Erase(id)
       \/ \E id \in Nat : s = Mark(id) \/ s = Erase(id)
       \/ \E a \in Accounts : s = Purge(a)
  BY <1>1, <1>2, <1>3, <1>4, <1>5, StatementKinds
<1> QED BY <1>6, <1>7, <1>8, <1>9, <1>10 DEF u, Rest, MailAfter

LEMMA AfterBoxed ==
  ASSUME NEW t \in Tables, NEW s \in Statements, Boxed(t)
  PROVE  Boxed(After(t, s)) /\ After(t, s).next >= t.next
<1> DEFINE u == After(t, s)
<1>0. t.next \in Nat /\ t.mail \subseteq Mails /\ IsFiniteSet(t.mail)
  BY DEF Tables, Boxed
<1>1. CASE u.mail = t.mail /\ u.next = t.next
  BY <1>0, <1>1 DEF Boxed
<1>2. ASSUME NEW l \in LetterSet, u.next = t.next + 1,
             u.mail = t.mail \cup {[id |-> t.next, letter |-> l, read |-> FALSE]}
      PROVE  Boxed(u) /\ u.next >= t.next
  <2> DEFINE m == [id |-> t.next, letter |-> l, read |-> FALSE]
  <2>1. m.id = t.next /\ IsFiniteSet(t.mail \cup {m})
    BY <1>0, FS_AddElement
  <2> HIDE DEF m
  <2>2. u.mail = t.mail \cup {m}
    BY <1>2 DEF m
  <2>3. \A n \in t.mail : n.id \in Nat /\ n.id < t.next
    BY <1>0 DEF Boxed, Mails
  <2> HIDE DEF u
  <2>4. \A k \in u.mail : k = m \/ (k \in t.mail /\ k.id # m.id)
    BY <1>0, <2>1, <2>2, <2>3
  <2>5. \A k \in u.mail : k.id < u.next
    BY <1>0, <1>2, <2>1, <2>3, <2>4
  <2>6. \A k, n \in u.mail : k.id = n.id => k = n
    BY <2>4 DEF Boxed
  <2>7. IsFiniteSet(u.mail) /\ u.next >= t.next
    <3>1. IsFiniteSet(u.mail)
      BY <2>1, <2>2
    <3>2. u.next >= t.next
      BY <1>0, <1>2
    <3> QED BY <3>1, <3>2
  <2> QED BY <2>5, <2>6, <2>7 DEF Boxed
<1>3. ASSUME NEW id \in Nat, u.next = t.next,
             u.mail = {[m EXCEPT !.read = @ \/ m.id = id] : m \in t.mail}
      PROVE  Boxed(u) /\ u.next >= t.next
  <2> DEFINE f == [m \in t.mail |-> [m EXCEPT !.read = @ \/ m.id = id]]
  <2>1. \A m \in t.mail : f[m].id = m.id
    BY <1>0 DEF Mails
  <2>2. f \in Surjection(t.mail, u.mail)
    BY <1>3 DEF Surjection
  <2>3. IsFiniteSet(u.mail)
    <3>1. PICK n \in Nat : ExistsSurjection(1..n, t.mail)
      BY <1>0, FS_NatSurjection
    <3>2. PICK g : g \in Surjection(1..n, t.mail)
      BY <3>1 DEF ExistsSurjection
    <3>3. [i \in 1..n |-> f[g[i]]] \in Surjection(1..n, u.mail)
      <4> HIDE DEF f, u
      <4> QED BY <2>2, <3>2 DEF Surjection
    <3> HIDE DEF u
    <3> QED BY <3>3, FS_NatSurjection DEF ExistsSurjection
  <2>4. \A m \in u.mail : \E n \in t.mail : m = f[n]
    BY <2>2 DEF Surjection
  <2> HIDE DEF f, u
  <2> QED BY <1>0, <1>3, <2>1, <2>3, <2>4 DEF Boxed
<1>4. ASSUME u.next = t.next, u.mail \subseteq t.mail
      PROVE  Boxed(u) /\ u.next >= t.next
  <2>1. IsFiniteSet(u.mail)
    BY <1>0, <1>4, FS_Subset
  <2> QED BY <1>0, <1>4, <2>1 DEF Boxed
<1> HIDE DEF u
<1>5. Boxed(u) /\ u.next >= t.next
  <2>1. \/ u.mail = t.mail /\ u.next = t.next
        \/ \E l \in LetterSet : /\ u.next = t.next + 1
                                /\ u.mail = t.mail \cup {[id |-> t.next, letter |-> l, read |-> FALSE]}
        \/ \E id \in Nat : /\ u.next = t.next
                           /\ u.mail = {[m EXCEPT !.read = @ \/ m.id = id] : m \in t.mail}
        \/ u.next = t.next /\ u.mail \subseteq t.mail
    BY AfterMail DEF u, MailAfter
  <2>2. CASE u.mail = t.mail /\ u.next = t.next
    BY <1>0, <2>2 DEF Boxed
  <2> QED BY <1>2, <1>3, <1>4, <2>1, <2>2
<1> QED BY <1>5 DEF u

\* The letters by the IDs of their rows.
RowIds(mail, q, l) == {m.id : m \in {m \in mail : Times(q, Erase(m.id)) = 0 /\ m.letter = l}}
Letters(l) == Cardinality(RowIds(table.mail, queue, l)) + Times(queue, Post(l))

LettersBag == BagOf(Rows) (+) BagOf(Sent)
LettersCounted == Counts(LettersBag) /\ \A l : Often(LettersBag, l) = Letters(l)

OffersCounted == Counts(BagOf(Offers)) /\ \A o : Often(BagOf(Offers), o) = Times(Offers, o)

LEMMA QueueTimes ==
  ASSUME Types, NEW s
  PROVE  /\ Times(queue, s) \in Nat
         /\ Times(queue, s) # 0 <=> \E i \in 1..Len(queue) : queue[i] = s
BY TimesType, TimesSome DEF Types

LEMMA DeletedIs ==
  ASSUME Types, NEW m \in Mails
  PROVE  Deleted(m) <=> Times(queue, Erase(m.id)) # 0
<1>1. ASSUME NEW i \in 1..Len(queue)
      PROVE  queue[i].op = "remove" /\ queue[i].row = <<"mail", m.id>> <=> queue[i] = Erase(m.id)
  <2>1. queue[i] \in Statements
    BY QueueIs DEF Queued
  <2> QED BY <2>1, StatementKinds DEF Save, SaveHouse, SaveSafe, Insert, Delete, Post, Mark, Erase, Purge, Statement
<1> QED BY <1>1, QueueTimes DEF Deleted, Pending

LEMMA RowIdsCount ==
  ASSUME Types, Mailbox, NEW l
  PROVE  Times(Rows, l) = Cardinality(RowIds(table.mail, queue, l)) /\ IsFiniteSet(DOMAIN Rows)
         /\ IsFiniteSet(RowIds(table.mail, queue, l))
<1> DEFINE P == {m \in table.mail : Times(queue, Erase(m.id)) = 0 /\ m.letter = l}
           Q == {m.id : m \in P}
           f == [m \in P |-> m.id]
<1>1. table.mail \subseteq Mails /\ IsFiniteSet(table.mail)
  BY DEF Types, Tables, Mailbox, Boxed
<1>2. DOMAIN Rows = {m \in table.mail : ~Deleted(m)} /\ \A m \in DOMAIN Rows : Rows[m] = m.letter
  BY DEF Rows
<1>3. {m \in DOMAIN Rows : Rows[m] = l} = P
  BY <1>1, <1>2, DeletedIs
<1>4. IsFiniteSet(DOMAIN Rows) /\ IsFiniteSet(P)
  BY <1>1, <1>2, FS_Subset
<1>5. f \in Bijection(P, Q)
  <2>1. f \in [P -> Q] /\ \A t \in Q : \E m \in P : f[m] = t
    OBVIOUS
  <2>2. \A m, n \in P : f[m] = f[n] => m = n
    BY DEF Mailbox, Boxed
  <2> HIDE DEF f, P, Q
  <2> QED BY <2>1, <2>2 DEF Bijection, Injection, Surjection, IsInjective
<1>6. Q = RowIds(table.mail, queue, l)
  BY DEF RowIds
<1> HIDE DEF f, P, Q
<1> QED BY <1>3, <1>4, <1>5, <1>6, FS_Bijection DEF ExistsBijection, Times

LEMMA SentCount ==
  ASSUME Types, NEW l
  PROVE  Times(Sent, l) = Times(queue, Post(l)) /\ IsFiniteSet(DOMAIN Sent)
<1>1. Len(queue) \in Nat /\ DOMAIN queue = 1..Len(queue)
  BY DEF Types
<1>2. /\ DOMAIN Sent = {i \in 1..Len(queue) : queue[i].op = "send"}
      /\ \A i \in DOMAIN Sent : Sent[i] = queue[i].val
  BY DEF Sent
<1>3. IsFiniteSet(DOMAIN Sent)
  <2>1. IsFiniteSet(1..Len(queue))
    BY <1>1, FS_Interval
  <2> QED BY <1>2, <2>1, FS_Subset
<1>4. ASSUME NEW i \in 1..Len(queue) PROVE queue[i].op = "send" /\ queue[i].val = l <=> queue[i] = Post(l)
  <2>1. queue[i] \in Statements
    BY QueueIs DEF Queued
  <2> QED BY <2>1, StatementKinds DEF Save, SaveHouse, SaveSafe, Insert, Delete, Post, Mark, Erase, Purge, Statement
<1>5. {i \in DOMAIN Sent : Sent[i] = l} = {i \in DOMAIN queue : queue[i] = Post(l)}
  BY <1>1, <1>2, <1>4
<1> QED BY <1>3, <1>5 DEF Times

\* Counted by rows and statements, the letters are the letters of the market.
LEMMA LettersAre == Types /\ Mailbox => LettersCounted
<1> SUFFICES ASSUME Types, Mailbox PROVE LettersCounted
  OBVIOUS
<1>1. IsFiniteSet(DOMAIN Rows) /\ IsFiniteSet(DOMAIN Sent)
  BY RowIdsCount, SentCount
<1>2. /\ Counts(BagOf(Rows)) /\ \A l : Often(BagOf(Rows), l) = Times(Rows, l)
      /\ Counts(BagOf(Sent)) /\ \A l : Often(BagOf(Sent), l) = Times(Sent, l)
  BY <1>1, BagCounts
<1>3. Counts(LettersBag) /\ \A l : Often(LettersBag, l) = Often(BagOf(Rows), l) + Often(BagOf(Sent), l)
  BY <1>2, BagSum DEF LettersBag
<1> QED BY <1>2, <1>3, RowIdsCount, SentCount DEF LettersCounted, Letters

OfferSet == [owner : Accounts, price : Prices]
OfferOf(slot) == [owner |-> slot.owner, price |-> slot.price]

\* Counted by slots, the offers are those of the market.
LEMMA OffersAre == Types => OffersCounted /\ Offers \in Seq(OfferSet) /\ Len(Offers) = Len(slots)
<1> SUFFICES ASSUME Types PROVE OffersCounted /\ Offers \in Seq(OfferSet) /\ Len(Offers) = Len(slots)
  OBVIOUS
<1>1. slots \in Seq(Slots) /\ Len(slots) \in Nat
  BY DEF Types, TypeOK
<1>2. ASSUME NEW i \in 1..Len(slots) PROVE Offers[i] \in OfferSet
  <2>1. slots[i] \in Slots /\ Offers[i] = [owner |-> slots[i].owner, price |-> slots[i].price]
    BY <1>1 DEF Offers
  <2> QED BY <2>1 DEF OfferSet, Slots
<1>3. Offers \in Seq(OfferSet) /\ Len(Offers) = Len(slots) /\ DOMAIN Offers = 1..Len(slots)
  BY <1>1, <1>2 DEF Offers
<1>4. IsFiniteSet(DOMAIN Offers)
  BY <1>1, <1>3, FS_Interval
<1> QED BY <1>3, <1>4, BagCounts DEF OffersCounted

\* A statement that goes to the back is still there.
LEMMA TimesMoved ==
  ASSUME NEW S, NEW q \in Seq(S), NEW i \in 1..Len(q), NEW v
  PROVE  Times(Append(RemoveAt(q, i), q[i]), v) = Times(q, v)
<1> DEFINE r == RemoveAt(q, i)
           e == <<q[i]>>
<1>1. r \in Seq(S) /\ e \in Seq(S)
  <2>1. r \in Seq(S)
    BY Removed
  <2> QED BY <2>1
<1>2. Append(r, q[i]) = r \o e
  BY <1>1
<1>3. Times(r, v) = Times(q, v) - IF q[i] = v THEN 1 ELSE 0
  BY TimesRemoved
<1>4. Times(e, v) = IF q[i] = v THEN 1 ELSE 0
  BY TimesShort
<1> HIDE DEF r, e
<1>5. Times(r \o e, v) = Times(r, v) + Times(e, v)
  BY <1>1, TimesJoined
<1>6. Times(q, v) \in Nat
  BY TimesType
<1> QED BY <1>2, <1>3, <1>4, <1>5, <1>6 DEF r

\* Statements that are no saves of the account are those queued on purpose.
LEMMA CommandTimes ==
  ASSUME Types, NEW a \in Accounts, NEW p, Follows(a, p), NEW more \in Seq(Statements),
         Done(a, p, more), NEW s, s \notin Saves
  PROVE  Times(queue', s) = Times(queue, s) + Times(more, s) /\ Times(more, s) \in Nat
<1>1. p.sql \in Seq(Saves) /\ p.sql \in Seq(Statements) /\ queue \in Seq(Statements)
  BY SavesAre DEF Follows, Purses, Types
<1>2. queue' = (queue \o p.sql) \o more
  BY DEF Done
<1>3. queue \o p.sql \in Seq(Statements)
  BY <1>1
<1>4. Times(p.sql, s) = 0
  BY <1>1, TimesSome
<1>5. Times(queue', s) = Times(queue \o p.sql, s) + Times(more, s)
  BY <1>2, <1>3, TimesJoined
<1>6. Times(queue \o p.sql, s) = Times(queue, s) + Times(p.sql, s)
  BY <1>1, TimesJoined
<1>7. Times(queue, s) \in Nat /\ Times(more, s) \in Nat
  BY <1>1, TimesType
<1> QED BY <1>4, <1>5, <1>6, <1>7

LEMMA NoSaves ==
  /\ \A l : Post(l) \notin Saves
  /\ \A id : Erase(id) \notin Saves
<1>1. \A s \in Saves : s.op = "set"
  BY DEF Saves, Save, Statement
<1> QED BY <1>1 DEF Post, Erase, Statement

LEMMA PoolMailbox ==
  ASSUME Types, Mailbox, NEW i \in 1..Len(queue), Execute(i) \/ Retry(i) \/ GiveUp(i)
  PROVE  Mailbox'
<1> DEFINE s == queue[i]
<1>1. s \in Statements /\ queue \in Seq(Statements) /\ table \in Tables /\ Boxed(table) /\ table.next \in Nat
  BY QueueIs DEF Types, Queued, Mailbox, Tables
<1>2. table' = table \/ table' = After(table, s)
  BY DEF Execute, Retry, GiveUp
<1>3. Boxed(table') /\ table'.next >= table.next /\ table'.next \in Nat
  <2>1. CASE table' = table
    BY <1>1, <2>1
  <2>2. CASE table' = After(table, s)
    <3>1. After(table, s) \in Tables
      BY <1>1, AfterTypes DEF Types
    <3>2. After(table, s).next \in Nat
      BY <3>1 DEF Tables
    <3> HIDE DEF s
    <3> QED BY <1>1, <2>2, <3>2, AfterBoxed
  <2> QED BY <1>2, <2>1, <2>2
<1>4. ASSUME NEW id \in Nat, Times(queue', Erase(id)) # 0 PROVE Times(queue, Erase(id)) # 0
  <2>1. Times(queue, Erase(id)) \in Nat
    BY QueueTimes
  <2>2. CASE queue' = RemoveAt(queue, i)
    <3>1. Times(queue', Erase(id)) = Times(queue, Erase(id)) - IF s = Erase(id) THEN 1 ELSE 0
      BY <1>1, <2>2, TimesRemoved
    <3>2. s = Erase(id) => Times(queue, Erase(id)) # 0
      BY QueueTimes
    <3> QED BY <1>4, <2>1, <3>1, <3>2
  <2>3. CASE queue' = Append(RemoveAt(queue, i), s)
    BY <1>1, <1>4, <2>3, TimesMoved
  <2> QED BY <2>2, <2>3 DEF Execute, Retry, GiveUp
<1>5. ASSUME NEW id \in Nat, Times(queue', Erase(id)) # 0 PROVE id < table'.next
  BY <1>1, <1>3, <1>4, <1>5 DEF Mailbox
<1> QED BY <1>3, <1>5 DEF Mailbox

LEMMA CommandMailbox ==
  ASSUME Types, Mailbox, NEW a \in Accounts, NEW p, Follows(a, p), NEW more \in Seq(Statements),
         Done(a, p, more), table' = table,
         \A id \in Nat : Times(more, Erase(id)) # 0 => id < table.next
  PROVE  Mailbox'
<1>1. ASSUME NEW id \in Nat, Times(queue', Erase(id)) # 0 PROVE id < table'.next
  <2>1. /\ Times(queue', Erase(id)) = Times(queue, Erase(id)) + Times(more, Erase(id))
        /\ Times(more, Erase(id)) \in Nat /\ Times(queue, Erase(id)) \in Nat
    BY CommandTimes, NoSaves, QueueTimes
  <2>2. Times(queue, Erase(id)) # 0 \/ Times(more, Erase(id)) # 0
    BY <1>1, <2>1
  <2> QED BY <2>2 DEF Mailbox
<1> QED BY <1>1 DEF Mailbox

-----------------------------------------------------------------------------
(* Commands are steps of the market *)

Inv2 == IInv /\ Mailbox

LEMMA NextLettersAre == Types' /\ Mailbox' => LettersCounted'
BY LettersAre, PTL

LEMMA NextOffersAre == Types' => OffersCounted'
BY OffersAre, PTL

\* A bag that holds one more, or one less, of x.
LEMMA MoreIs ==
  ASSUME NEW B, NEW C, Counts(B), Counts(C), NEW x,
         \A v : Often(C, v) = Often(B, v) + (IF v = x THEN 1 ELSE 0)
  PROVE  C = M!BagAdd(B, x)
BY BagMore, SameBag

LEMMA LessIs ==
  ASSUME NEW B, NEW C, Counts(B), Counts(C), NEW x \in DOMAIN B,
         \A v : Often(C, v) = Often(B, v) - (IF v = x THEN 1 ELSE 0)
  PROVE  C = M!BagRemove(B, x)
BY BagLess, SameBag

\* The accounts as the market sees them.
Purse == [a \in Accounts |-> acct[a].hand + acct[a].bank]
Goods == [a \in Accounts |-> acct[a].bag]

\* What the account of a command has afterwards.
LEMMA PurseIs ==
  ASSUME Types, NEW a \in Accounts, NEW p, Follows(a, p), NEW more, Done(a, p, more)
  PROVE  Purse' = [Purse EXCEPT ![a] = Gold(p)] /\ Goods' = [Goods EXCEPT ![a] = p.bag]
         /\ Purse[a] = Gold(Player(a)) /\ Purse[a] \in Nat /\ Goods[a] = acct[a].bag
<1>1. acct' = [acct EXCEPT ![a] = [hand |-> p.hand, bank |-> p.bank, bag |-> p.bag]]
  BY DEF Done
<1>2. acct \in [Accounts -> Owned]
  BY DEF Types, TypeOK
<1>3. \A b \in Accounts : acct'[b] = IF b = a THEN [hand |-> p.hand, bank |-> p.bank, bag |-> p.bag] ELSE acct[b]
  BY <1>1, <1>2
<1>4. Purse' = [Purse EXCEPT ![a] = Gold(p)]
  <2>1. Purse' = [b \in Accounts |-> acct'[b].hand + acct'[b].bank]
    BY DEF Purse
  <2>2. ASSUME NEW b \in Accounts PROVE acct'[b].hand + acct'[b].bank = [Purse EXCEPT ![a] = Gold(p)][b]
    BY <1>3 DEF Purse, Gold
  <2>3. [Purse EXCEPT ![a] = Gold(p)] = [b \in Accounts |-> [Purse EXCEPT ![a] = Gold(p)][b]]
    BY DEF Purse
  <2> QED BY <2>1, <2>2, <2>3
<1>5. Goods' = [Goods EXCEPT ![a] = p.bag]
  <2>1. Goods' = [b \in Accounts |-> acct'[b].bag]
    BY DEF Goods
  <2>2. ASSUME NEW b \in Accounts PROVE acct'[b].bag = [Goods EXCEPT ![a] = p.bag][b]
    BY <1>3 DEF Goods
  <2>3. [Goods EXCEPT ![a] = p.bag] = [b \in Accounts |-> [Goods EXCEPT ![a] = p.bag][b]]
    BY DEF Goods
  <2> QED BY <2>1, <2>2, <2>3
<1>6. Purse[a] = Gold(Player(a)) /\ Purse[a] \in Nat /\ Goods[a] = acct[a].bag
  BY <1>2, PlayerFollows DEF Purse, Goods, Owned
<1> QED BY <1>4, <1>5, <1>6

\* A command that deletes no letter adds those it sends.
LEMMA LettersSent ==
  ASSUME Types, Mailbox, NEW a \in Accounts, NEW p, Follows(a, p), NEW more \in Seq(Statements),
         Done(a, p, more), table' = table,
         \A id \in Nat : Times(more, Erase(id)) = 0
  PROVE  \A l : Letters(l)' = Letters(l) + Times(more, Post(l)) /\ Letters(l) \in Nat
<1> SUFFICES ASSUME NEW l
             PROVE  Letters(l)' = Letters(l) + Times(more, Post(l)) /\ Letters(l) \in Nat
  OBVIOUS
<1>1. table.mail \subseteq Mails
  BY DEF Types, Tables
<1>2. \A id \in Nat : Times(queue', Erase(id)) = Times(queue, Erase(id))
  BY CommandTimes, NoSaves, QueueTimes
<1>3. RowIds(table.mail, queue', l) = RowIds(table.mail, queue, l)
  BY <1>1, <1>2 DEF RowIds, Mails
<1>4. Times(queue', Post(l)) = Times(queue, Post(l)) + Times(more, Post(l)) /\ Times(more, Post(l)) \in Nat
  BY CommandTimes, NoSaves
<1>5. Times(queue, Post(l)) \in Nat /\ Cardinality(RowIds(table.mail, queue, l)) \in Nat
  BY QueueTimes, RowIdsCount, FS_CardinalityType
<1> QED BY <1>3, <1>4, <1>5 DEF Letters

\* How often statement s is v.
Of(s, v) == IF s = v THEN 1 ELSE 0

\* Statements on letters that are one are on one letter.
LEMMA Different ==
  /\ \A l, k : Post(l) = Post(k) <=> l = k
  /\ \A i, j : Erase(i) = Erase(j) <=> i = j
  /\ \A l, i : Post(l) # Erase(i) /\ Erase(i) # Post(l)
  /\ \A s : s.op # "send" => \A l : s # Post(l)
  /\ \A s : s.op # "remove" => \A i : s # Erase(i)
BY DEF Post, Erase, Statement

\* Of two statements.
LEMMA TimesTwo == \A s, t, v : Times(<<s, t>>, v) = Of(s, v) + Of(t, v)
<1> SUFFICES ASSUME NEW s, NEW t, NEW v PROVE Times(<<s, t>>, v) = Of(s, v) + Of(t, v)
  OBVIOUS
<1> DEFINE S == {s, t}
           q == <<s>>
           r == <<t>>
<1>1. q \in Seq(S) /\ r \in Seq(S)
  OBVIOUS
<1>2. Times(q, v) = Of(s, v) /\ Times(r, v) = Of(t, v)
  BY TimesShort DEF Of
<1>3. q \o r = <<s, t>>
  BY Paired
<1> HIDE DEF S, q, r
<1>4. Times(q \o r, v) = Times(q, v) + Times(r, v)
  BY <1>1, TimesJoined
<1> QED BY <1>2, <1>3, <1>4

\* What of the letters a sequence of statements deletes and sends.
Keeping(q) == \A id : Times(q, Erase(id)) = 0
Sending(q, l) == Times(q, Post(l))

\* A command that deletes no letter.
Plain(a, p, more) == /\ Follows(a, p) /\ more \in Seq(Statements) /\ Keeping(more)
                     /\ Done(a, p, more) /\ table' = table

LEMMA PlainLetters ==
  ASSUME Types, Mailbox, Types', NEW a \in Accounts, NEW p, NEW more, Plain(a, p, more)
  PROVE  /\ Mailbox' /\ Counts(LettersBag) /\ Counts(LettersBag')
         /\ \A l : Often(LettersBag', l) = Often(LettersBag, l) + Sending(more, l)
         /\ \A l : Often(LettersBag, l) \in Nat
<1>1. Follows(a, p) /\ more \in Seq(Statements) /\ Done(a, p, more) /\ table' = table
      /\ \A id \in Nat : Times(more, Erase(id)) = 0
  BY DEF Plain, Keeping
<1>2. Mailbox'
  BY <1>1, CommandMailbox
<1>3. LettersCounted /\ LettersCounted'
  BY <1>2, LettersAre, NextLettersAre
<1>4. \A l : Letters(l)' = Letters(l) + Times(more, Post(l)) /\ Letters(l) \in Nat
  BY <1>1, LettersSent
<1> QED BY <1>2, <1>3, <1>4 DEF LettersCounted, Sending

LEMMA NoneSent ==
  ASSUME Types, Mailbox, Types', NEW a \in Accounts, NEW p, NEW more, Plain(a, p, more),
         \A l : Sending(more, l) = 0
  PROVE  Mailbox' /\ LettersBag' = LettersBag
<1>1. \A l : Often(LettersBag', l) = Often(LettersBag, l)
  BY PlainLetters
<1> QED BY <1>1, PlainLetters, SameBag

LEMMA OneSent ==
  ASSUME Types, Mailbox, Types', NEW a \in Accounts, NEW p, NEW more, Plain(a, p, more),
         NEW x, \A l : Sending(more, l) = Of(x, l)
  PROVE  Mailbox' /\ LettersBag' = M!BagAdd(LettersBag, x)
<1>1. \A l : Often(LettersBag', l) = Often(LettersBag, l) + (IF l = x THEN 1 ELSE 0)
  BY PlainLetters DEF Of
<1> QED BY <1>1, PlainLetters, MoreIs

LEMMA TwoSent ==
  ASSUME Types, Mailbox, Types', NEW a \in Accounts, NEW p, NEW more, Plain(a, p, more),
         NEW x, NEW y, \A l : Sending(more, l) = Of(x, l) + Of(y, l)
  PROVE  Mailbox' /\ LettersBag' = M!BagAdd(M!BagAdd(LettersBag, x), y)
<1> DEFINE B == M!BagAdd(LettersBag, x)
<1>1. Counts(B) /\ \A l : Often(B, l) = Often(LettersBag, l) + (IF l = x THEN 1 ELSE 0)
  BY PlainLetters, BagMore
<1> HIDE DEF B
<1>2. \A l : Often(LettersBag', l) = Often(B, l) + (IF l = y THEN 1 ELSE 0)
  BY <1>1, PlainLetters DEF Of
<1> QED BY <1>1, <1>2, PlainLetters, MoreIs DEF B

\* Sequences that send no letters.
LEMMA Wordless ==
  /\ Keeping(<<>>) /\ \A l : Sending(<<>>, l) = 0
  /\ \A s : s.op # "remove" => Keeping(<<s>>)
  /\ \A s : s.op # "send" => \A l : Sending(<<s>>, l) = 0
  /\ \A s, t : s.op # "remove" /\ t.op # "remove" => Keeping(<<s, t>>)
BY TimesShort, TimesTwo, Different DEF Keeping, Sending, Of

\* A letter, and a statement that is none.
LEMMA OneLetter ==
  ASSUME NEW x, NEW s, s.op # "send"
  PROVE  \A l : Sending(<<Post(x), s>>, l) = Of(x, l)
BY TimesTwo, Different DEF Sending, Of

-----------------------------------------------------------------------------
(* Commands on the bank and the house *)

\* A step of the market, or none.
Trades == M!Step \/ UNCHANGED <<Purse, Goods, BagOf(Offers), LettersBag, house>>
Promised == Mailbox' /\ (clean' => clean /\ Trades)

LEMMA SameOffers == slots' = slots => BagOf(Offers)' = BagOf(Offers)
BY DEF BagOf, Offers

LEMMA BankDepositPromised ==
  ASSUME Inv2, Types', NEW a \in Accounts, NEW v \in Amounts, BankDeposit(a, v)
  PROVE  Promised
<1> DEFINE r == RemoveGold(a, Player(a), v)
           p == AddGoldToBank(a, r, v - Commission(v))
           q == <<>>
<1>1. Types /\ Mailbox
  BY DEF Inv2, IInv
<1>2. v \in Nat /\ v >= 1 /\ Commission(v) \in 0..v
  <2>1. v \in Nat \ {0}
    BY TradeAssumption
  <2> QED BY <2>1, Shares
<1>3. /\ Done(a, p, q) /\ UNCHANGED <<slots, house, table, clean>> /\ acct[a].hand >= v
  BY DEF BankDeposit
<1>4. /\ Follows(a, Player(a)) /\ Player(a).hand = acct[a].hand /\ Gold(Player(a)) = acct[a].hand + acct[a].bank
      /\ Player(a).bag = acct[a].bag /\ acct[a].hand \in Nat /\ acct[a].bank \in Nat
      /\ Player(a).bank = acct[a].bank
  <2>1. /\ Follows(a, Player(a)) /\ Gold(Player(a)) = acct[a].hand + acct[a].bank
        /\ Player(a).bag = acct[a].bag
    BY <1>1, PlayerFollows
  <2>2. Player(a).hand = acct[a].hand /\ Player(a).bank = acct[a].bank
    BY DEF Player
  <2>3. acct[a].hand \in Nat /\ acct[a].bank \in Nat
    BY <1>1 DEF Types, TypeOK, Owned
  <2> QED BY <2>1, <2>2, <2>3
<1>5. Follows(a, r) /\ r.hand = acct[a].hand - v /\ r.bank = acct[a].bank /\ r.bag = acct[a].bag
  <2>1. /\ Follows(a, r) /\ r.hand = Player(a).hand - (IF v <= Player(a).hand THEN v ELSE Player(a).hand)
        /\ r.bank = Player(a).bank /\ r.bag = Player(a).bag
    BY <1>1, <1>2, <1>4, RemoveFollows
  <2> HIDE DEF r
  <2> QED BY <1>3, <1>4, <2>1
<1> HIDE DEF r
<1>6. Follows(a, p) /\ p.hand = r.hand /\ p.bank = r.bank + (v - Commission(v)) /\ p.bag = r.bag
  <2>1. v - Commission(v) \in Int /\ r.bank + (v - Commission(v)) >= 0
    BY <1>2, <1>4, <1>5
  <2> QED BY <1>1, <1>5, <2>1, BankFollows
<1>7. q \in Seq(Statements)
  OBVIOUS
<1> HIDE DEF p, q
<1>8. Plain(a, p, q) /\ \A l : Sending(q, l) = 0
  BY <1>3, <1>6, <1>7, Wordless DEF Plain, q
<1>9. Mailbox' /\ LettersBag' = LettersBag
  BY <1>1, <1>8, NoneSent
<1>10. Purse' = [Purse EXCEPT ![a] = Purse[a] - Commission(v)] /\ Goods' = Goods /\ v \in 1..Purse[a]
  <2>1. /\ Purse' = [Purse EXCEPT ![a] = Gold(p)] /\ Goods' = [Goods EXCEPT ![a] = p.bag]
        /\ Purse[a] = Gold(Player(a)) /\ Purse[a] \in Nat /\ Goods[a] = acct[a].bag
    BY <1>1, <1>3, <1>6, PurseIs
  <2>2. Gold(p) = Purse[a] - Commission(v)
    BY <1>2, <1>4, <1>5, <1>6, <2>1 DEF Gold
  <2>3. [Goods EXCEPT ![a] = Goods[a]] = Goods
    BY DEF Goods
  <2> QED BY <1>2, <1>3, <1>4, <1>5, <1>6, <2>1, <2>2, <2>3
<1>11. M!Deposit(a)
  BY <1>3, <1>9, <1>10, SameOffers DEF M!Deposit, Purse, Goods, LettersBag
<1>12. Trades
  BY <1>11 DEF Trades, M!Step
<1> QED BY <1>3, <1>9, <1>12 DEF Promised

\* Gold that goes from the hand to the bank is no step of the market.
LEMMA UpdateEquippedStatsPromised ==
  ASSUME Inv2, Types', NEW a \in Accounts, NEW capacity \in Capacities, UpdateEquippedStats(a, capacity)
  PROVE  Promised
<1> DEFINE over == acct[a].hand - capacity
           p == RemoveGold(a, AddGoldToBank(a, Player(a), over), over)
           q == <<>>
<1>1. Types /\ Mailbox
  BY DEF Inv2, IInv
<1>2. over \in Nat /\ over <= acct[a].hand
  <2>1. acct[a].hand \in Nat
    BY <1>1 DEF Types, TypeOK, Owned
  <2>2. capacity \in Nat /\ over > 0
    BY TradeAssumption DEF UpdateEquippedStats
  <2> QED BY <2>1, <2>2
<1>3. Follows(a, p) /\ Gold(p) = Gold(Player(a)) /\ p.bag = acct[a].bag
  <2> HIDE DEF over
  <2> QED BY <1>1, <1>2, LimitFollows
<1>4. Done(a, p, q) /\ UNCHANGED <<slots, house, table, clean>>
  BY DEF UpdateEquippedStats
<1>5. q \in Seq(Statements)
  OBVIOUS
<1> HIDE DEF p, q
<1>6. Plain(a, p, q) /\ \A l : Sending(q, l) = 0
  BY <1>3, <1>4, <1>5, Wordless DEF Plain, q
<1>7. Mailbox' /\ LettersBag' = LettersBag
  BY <1>1, <1>6, NoneSent
<1>8. Purse' = Purse /\ Goods' = Goods
  <2>1. /\ Purse' = [Purse EXCEPT ![a] = Gold(p)] /\ Goods' = [Goods EXCEPT ![a] = p.bag]
        /\ Purse[a] = Gold(Player(a)) /\ Goods[a] = acct[a].bag
    BY <1>1, <1>3, <1>4, PurseIs
  <2>2. [Goods EXCEPT ![a] = Goods[a]] = Goods /\ [Purse EXCEPT ![a] = Purse[a]] = Purse
    BY DEF Goods, Purse
  <2> QED BY <1>3, <2>1, <2>2
<1> QED BY <1>4, <1>7, <1>8, SameOffers DEF Promised, Trades

\* A command that is silent about letters and slots.
LEMMA SilentCommand ==
  ASSUME Types, Mailbox, Types', NEW a \in Accounts, NEW p, Follows(a, p), p.bag = acct[a].bag,
         NEW s \in Statements, s.op \notin {"send", "remove"}, Done(a, p, <<s>>), UNCHANGED <<slots, table>>
  PROVE  /\ Mailbox' /\ LettersBag' = LettersBag /\ BagOf(Offers)' = BagOf(Offers) /\ Goods' = Goods
         /\ Purse' = [Purse EXCEPT ![a] = Gold(p)]
         /\ Purse[a] = Gold(Player(a)) /\ Purse[a] \in Nat
<1> DEFINE q == <<s>>
<1>1. q \in Seq(Statements) /\ Keeping(q) /\ \A l : Sending(q, l) = 0
  BY Wordless
<1>2. Done(a, p, q)
  OBVIOUS
<1> HIDE DEF q
<1>3. Plain(a, p, q)
  BY <1>1, <1>2 DEF Plain
<1>4. Mailbox' /\ LettersBag' = LettersBag
  BY <1>1, <1>3, NoneSent
<1>5. /\ Purse' = [Purse EXCEPT ![a] = Gold(p)] /\ Goods' = [Goods EXCEPT ![a] = p.bag]
      /\ Purse[a] = Gold(Player(a)) /\ Purse[a] \in Nat /\ Goods[a] = acct[a].bag
  BY <1>2, PurseIs
<1>6. [Goods EXCEPT ![a] = Goods[a]] = Goods
  BY DEF Goods
<1> QED BY <1>4, <1>5, <1>6, SameOffers

LEMMA BuyPromised ==
  ASSUME Inv2, Types', NEW a \in Accounts, Buy(a)
  PROVE  Promised
<1> DEFINE h == [owner |-> a, safe |-> 0]
           p == SpendCurrency(a, Player(a), InitialFee)
           s == SaveHouse(h)
<1>1. Types /\ Mailbox /\ InitialFee \in Nat /\ h \in Houses
  BY TradeAssumption DEF Inv2, IInv, Houses
<1>2. /\ Done(a, p, <<s>>) /\ house' = h /\ UNCHANGED <<slots, table, clean>>
      /\ house.owner = Nobody /\ CanSpend(Player(a), InitialFee)
  BY DEF Buy
<1>3. Follows(a, p) /\ Gold(p) = Gold(Player(a)) - InitialFee /\ p.bag = acct[a].bag
  <2>1. Follows(a, Player(a)) /\ Player(a).bag = acct[a].bag
    BY <1>1, PlayerFollows
  <2> QED BY <1>1, <1>2, <2>1, SpendFollows
<1>4. s \in Statements /\ s.op = "set"
  BY <1>1, StatementsAre DEF SaveHouse, Statement
<1>5. Gold(Player(a)) >= InitialFee
  BY <1>2 DEF CanSpend, Gold
<1> HIDE DEF p, s
<1>6. /\ Mailbox' /\ LettersBag' = LettersBag /\ BagOf(Offers)' = BagOf(Offers) /\ Goods' = Goods
      /\ Purse' = [Purse EXCEPT ![a] = Gold(p)] /\ Purse[a] = Gold(Player(a))
  BY <1>1, <1>2, <1>3, <1>4, SilentCommand
<1>7. Purse' = [Purse EXCEPT ![a] = Purse[a] - InitialFee] /\ Purse[a] >= InitialFee
  BY <1>3, <1>5, <1>6
<1>8. M!Acquire(a)
  BY <1>2, <1>6, <1>7 DEF M!Acquire, Purse, Goods, LettersBag
<1> QED BY <1>2, <1>6, <1>8 DEF Promised, Trades, M!Step

LEMMA SafeAddPromised ==
  ASSUME Inv2, Types', NEW a \in Accounts, NEW v \in Amounts, SafeAdd(a, v)
  PROVE  Promised
<1> DEFINE p == SpendCurrency(a, Player(a), v)
           s == SaveSafe(house.safe + v)
<1>1. Types /\ Mailbox /\ v \in Nat /\ house.safe \in Nat
  BY TradeAssumption DEF Inv2, IInv, Types, TypeOK, Houses
<1>2. /\ Done(a, p, <<s>>) /\ house' = [house EXCEPT !.safe = @ + v] /\ UNCHANGED <<slots, table, clean>>
      /\ house.owner = a /\ CanSpend(Player(a), v)
  BY DEF SafeAdd
<1>3. Follows(a, p) /\ Gold(p) = Gold(Player(a)) - v /\ p.bag = acct[a].bag
  <2>1. Follows(a, Player(a)) /\ Player(a).bag = acct[a].bag
    BY <1>1, PlayerFollows
  <2> QED BY <1>1, <1>2, <2>1, SpendFollows
<1>4. s \in Statements /\ s.op = "safe"
  BY <1>1, StatementsAre DEF SaveSafe, Statement
<1>5. Gold(Player(a)) >= v
  BY <1>2 DEF CanSpend, Gold
<1> HIDE DEF p, s
<1>6. /\ Mailbox' /\ LettersBag' = LettersBag /\ BagOf(Offers)' = BagOf(Offers) /\ Goods' = Goods
      /\ Purse' = [Purse EXCEPT ![a] = Gold(p)] /\ Purse[a] = Gold(Player(a)) /\ Purse[a] \in Nat
  BY <1>1, <1>2, <1>3, <1>4, SilentCommand
<1>7. Purse' = [Purse EXCEPT ![a] = Purse[a] - v] /\ v \in (-house.safe)..Purse[a]
  BY <1>1, <1>3, <1>5, <1>6
<1>8. M!Move(a)
  BY <1>2, <1>6, <1>7 DEF M!Move, Purse, Goods, LettersBag
<1> QED BY <1>2, <1>6, <1>8 DEF Promised, Trades, M!Step

LEMMA SafeTakePromised ==
  ASSUME Inv2, Types', NEW a \in Accounts, NEW v \in Amounts, NEW capacity \in Capacities, SafeTake(a, v, capacity)
  PROVE  Promised
<1> DEFINE w == Min({v, house.safe})
           p == Add(a, Player(a), w, capacity)
           s == SaveSafe(house.safe - w)
           g == -w
<1>1. Types /\ Mailbox /\ v \in Nat /\ house.safe \in Nat /\ house \in Houses
  BY TradeAssumption DEF Inv2, IInv, Types, TypeOK, Houses
<1>2. w \in 0..house.safe
  BY <1>1, MinOfTwo
<1>3. /\ Done(a, p, <<s>>) /\ house' = [house EXCEPT !.safe = @ - w] /\ UNCHANGED <<slots, table, clean>>
      /\ house.owner = a
  BY DEF SafeTake
<1> HIDE DEF w
<1>4. Follows(a, p) /\ Gold(p) = Gold(Player(a)) + w /\ p.bag = acct[a].bag
  <2>1. Follows(a, Player(a)) /\ Player(a).bag = acct[a].bag
    BY <1>1, PlayerFollows
  <2>2. w \in Nat
    BY <1>1, <1>2
  <2> QED BY <1>1, <2>1, <2>2, AddFollows
<1>5. s \in Statements /\ s.op = "safe"
  <2>1. house.safe - w \in Nat
    BY <1>1, <1>2
  <2> QED BY <2>1, StatementsAre DEF SaveSafe, Statement
<1> HIDE DEF p, s
<1>6. /\ Mailbox' /\ LettersBag' = LettersBag /\ BagOf(Offers)' = BagOf(Offers) /\ Goods' = Goods
      /\ Purse' = [Purse EXCEPT ![a] = Gold(p)] /\ Purse[a] = Gold(Player(a)) /\ Purse[a] \in Nat
  BY <1>1, <1>3, <1>4, <1>5, SilentCommand
<1>7. /\ Purse' = [Purse EXCEPT ![a] = Purse[a] - g] /\ g \in (-house.safe)..Purse[a]
      /\ house' = [house EXCEPT !.safe = house.safe + g]
  <2>1. Purse[a] + w = Purse[a] - g /\ house.safe - w = house.safe + g /\ g \in (-house.safe)..Purse[a]
    BY <1>1, <1>2, <1>6
  <2> QED BY <1>3, <1>4, <1>6, <2>1
<1> HIDE DEF g
<1>8. M!Move(a)
  BY <1>3, <1>6, <1>7 DEF M!Move, Purse, Goods, LettersBag
<1> QED BY <1>3, <1>6, <1>8 DEF Promised, Trades, M!Step

\* A rent of nothing changes nothing.
LEMMA ExtendRentDaysPromised ==
  ASSUME Inv2, Types', NEW a \in Accounts, NEW v \in Amounts, ExtendRentDays(a, v)
  PROVE  Promised
<1> DEFINE price == RentPrice * v
           p == Player(a)
           s == SaveSafe(house.safe - price)
<1>1. Types /\ Mailbox /\ house.safe \in Nat /\ house \in Houses
  BY DEF Inv2, IInv, Types, TypeOK, Houses
<1>2. price \in Nat
  <2>1. RentPrice \in Nat /\ v \in Nat
    BY TradeAssumption
  <2> QED BY <2>1
<1>3. /\ Done(a, p, <<s>>) /\ house' = [house EXCEPT !.safe = @ - price] /\ UNCHANGED <<slots, table, clean>>
      /\ house.owner = a /\ house.safe >= price
  BY DEF ExtendRentDays
<1> HIDE DEF price
<1>4. Follows(a, p) /\ p.bag = acct[a].bag
  BY <1>1, PlayerFollows
<1>5. s \in Statements /\ s.op = "safe"
  <2>1. house.safe - price \in Nat
    BY <1>1, <1>2, <1>3
  <2> QED BY <2>1, StatementsAre DEF SaveSafe, Statement
<1> HIDE DEF p, s
<1>6. /\ Mailbox' /\ LettersBag' = LettersBag /\ BagOf(Offers)' = BagOf(Offers) /\ Goods' = Goods
      /\ Purse' = [Purse EXCEPT ![a] = Gold(p)] /\ Purse[a] = Gold(Player(a)) /\ Purse[a] \in Nat
  BY <1>1, <1>3, <1>4, <1>5, SilentCommand
<1>7. Purse' = Purse
  <2>1. [Purse EXCEPT ![a] = Purse[a]] = Purse
    BY DEF Purse
  <2> QED BY <1>6, <2>1 DEF p
<1>8. CASE price = 0
  <2>1. house' = house
    BY <1>1, <1>3, <1>8 DEF Houses
  <2> QED BY <1>3, <1>6, <1>7, <2>1 DEF Promised, Trades
<1>9. CASE price # 0
  <2>1. price \in 1..house.safe /\ house.owner # Nobody
    BY <1>1, <1>2, <1>3, <1>9, TradeAssumption
  <2>2. M!PayRent
    BY <1>3, <1>6, <1>7, <2>1 DEF M!PayRent, Purse, Goods, LettersBag
  <2> QED BY <1>3, <1>6, <2>2 DEF Promised, Trades, M!Step
<1> QED BY <1>8, <1>9

LEMMA SellPromised ==
  ASSUME Inv2, Types', Sell
  PROVE  Promised
<1> DEFINE a == house.owner
           p == Player(a)
           x == Letter(a, Max({1, house.safe}), 0)
           s == SaveHouse(Sold(house))
           q == <<Post(x), s>>
<1>1. Types /\ Mailbox /\ a \in Accounts /\ house.safe \in Nat
  BY DEF Inv2, IInv, Types, TypeOK, Houses, Sell
<1>2. x \in LetterSet
  <2>1. Max({1, house.safe}) \in Nat
    BY <1>1, MaxOfTwo
  <2> QED BY <1>1, <2>1 DEF LetterSet, Letter
<1>3. s \in Statements /\ s.op = "set" /\ Post(x) \in Statements /\ Post(x).op = "send"
  <2>1. Sold(house) \in Houses
    BY DEF Sold, Houses
  <2> QED BY <1>2, <2>1, StatementsAre DEF SaveHouse, Post, Statement
<1>4. /\ house' = Sold(house) /\ UNCHANGED <<slots, table, clean>> /\ Done(a, p, q) /\ house.owner # Nobody
  BY DEF Sell, Send, Post
<1>5. Follows(a, p) /\ p.bag = acct[a].bag
  BY <1>1, PlayerFollows
<1>6. q \in Seq(Statements) /\ Keeping(q) /\ \A l : Sending(q, l) = Of(x, l)
  <2>1. s.op # "send" /\ s.op # "remove" /\ Post(x).op # "remove"
    BY <1>3
  <2> HIDE DEF s, x
  <2>2. q \in Seq(Statements)
    BY <1>3
  <2>3. Keeping(q)
    BY <2>1, Wordless
  <2>4. \A l : Sending(q, l) = Of(x, l)
    BY <2>1, OneLetter
  <2> QED BY <2>2, <2>3, <2>4
<1> HIDE DEF q, p, s
<1>7. Plain(a, p, q)
  BY <1>4, <1>5, <1>6 DEF Plain
<1>8. Mailbox' /\ LettersBag' = M!BagAdd(LettersBag, x)
  BY <1>1, <1>6, <1>7, OneSent
<1>9. Purse' = Purse /\ Goods' = Goods
  <2>1. /\ Purse' = [Purse EXCEPT ![a] = Gold(p)] /\ Goods' = [Goods EXCEPT ![a] = p.bag]
        /\ Purse[a] = Gold(Player(a)) /\ Goods[a] = acct[a].bag
    BY <1>1, <1>4, <1>5, PurseIs
  <2>2. [Purse EXCEPT ![a] = Purse[a]] = Purse /\ [Goods EXCEPT ![a] = Goods[a]] = Goods
    BY DEF Purse, Goods
  <2> QED BY <1>5, <2>1, <2>2 DEF p
<1>10. x = M!Letter(house.owner, M!Max({1, house.safe}), 0)
  BY DEF M!Letter, M!Max, Letter, Max
<1>11. M!Release
  BY <1>4, <1>8, <1>9, <1>10, SameOffers DEF M!Release, Purse, Goods, LettersBag, Sold
<1> QED BY <1>4, <1>8, <1>11 DEF Promised, Trades, M!Step

-----------------------------------------------------------------------------
(* Commands on the auction *)

LEMMA OffersMore ==
  ASSUME Types, Types', NEW slot \in Slots, slots' = Append(slots, slot)
  PROVE  BagOf(Offers)' = M!BagAdd(BagOf(Offers), OfferOf(slot))
<1> DEFINE o == OfferOf(slot)
           q == <<o>>
<1>1. o \in OfferSet /\ OfferSet = OfferSet
  BY DEF OfferOf, OfferSet, Slots
<1>2. Offers \in Seq(OfferSet) /\ Len(Offers) = Len(slots) /\ OffersCounted /\ OffersCounted'
  BY OffersAre, NextOffersAre
<1>3. slots \in Seq(Slots) /\ Len(slots) \in Nat /\ Len(slots') = Len(slots) + 1
      /\ \A i \in 1..Len(slots) + 1 : slots'[i] = IF i <= Len(slots) THEN slots[i] ELSE slot
  BY DEF Types, TypeOK
<1>4. q \in Seq(OfferSet) /\ Len(q) = 1 /\ q[1] = o
  BY <1>1
<1> HIDE DEF q
<1>5. Offers' = Offers \o q
  <2> DEFINE c == Offers \o q
  <2>0. /\ c \in Seq(OfferSet) /\ Len(c) = Len(Offers) + Len(q)
        /\ \A i \in 1..(Len(Offers) + Len(q)) : c[i] = IF i <= Len(Offers) THEN Offers[i] ELSE q[i - Len(Offers)]
    BY <1>2, <1>4, Joined
  <2> HIDE DEF c
  <2>1. /\ c \in Seq(OfferSet) /\ Len(c) = Len(slots) + 1
        /\ \A i \in 1..Len(slots) + 1 : c[i] = IF i <= Len(slots) THEN Offers[i] ELSE q[i - Len(slots)]
    BY <1>2, <1>4, <2>0
  <2>2. Offers' = [i \in 1..Len(slots) + 1 |-> OfferOf(slots'[i])]
    BY <1>3 DEF Offers, OfferOf
  <2>3. ASSUME NEW i \in 1..Len(slots) + 1 PROVE c[i] = OfferOf(slots'[i])
    <3>1. CASE i <= Len(slots)
      <4>1. Offers[i] = OfferOf(slots[i])
        BY <1>3, <3>1 DEF Offers, OfferOf
      <4> QED BY <1>3, <2>1, <3>1, <4>1
    <3>2. CASE i = Len(slots) + 1
      BY <1>3, <1>4, <2>1, <3>2
    <3> QED BY <1>3, <3>1, <3>2
  <2>4. c = [i \in 1..Len(slots) + 1 |-> c[i]]
    BY <1>3, <2>1
  <2>5. Offers' = c
    BY <2>2, <2>3, <2>4
  <2> QED BY <2>5 DEF c
<1>6. ASSUME NEW v PROVE Times(Offers', v) = Times(Offers, v) + (IF v = o THEN 1 ELSE 0)
  <2>1. Times(Offers \o q, v) = Times(Offers, v) + Times(q, v)
    BY <1>2, <1>4, TimesJoined
  <2>2. Times(q, v) = IF o = v THEN 1 ELSE 0
    BY TimesShort DEF q
  <2> QED BY <1>5, <2>1, <2>2
<1> HIDE DEF o
<1>7. \A v : Often(BagOf(Offers)', v) = Often(BagOf(Offers), v) + (IF v = o THEN 1 ELSE 0)
  BY <1>2, <1>6 DEF OffersCounted
<1>8. BagOf(Offers)' = M!BagAdd(BagOf(Offers), o)
  BY <1>2, <1>7, MoreIs DEF OffersCounted
<1> QED BY <1>8 DEF o

LEMMA OffersLess ==
  ASSUME Types, Types', NEW k \in 1..Len(slots), slots' = RemoveAt(slots, k)
  PROVE  /\ OfferOf(slots[k]) \in DOMAIN BagOf(Offers)
         /\ BagOf(Offers)' = M!BagRemove(BagOf(Offers), OfferOf(slots[k]))
<1> DEFINE o == OfferOf(slots[k])
<1>2. Offers \in Seq(OfferSet) /\ Len(Offers) = Len(slots) /\ OffersCounted /\ OffersCounted'
  BY OffersAre, NextOffersAre
<1>3. slots \in Seq(Slots) /\ Len(slots) \in Nat
  BY DEF Types, TypeOK
<1>4. \A i \in 1..Len(slots) : Offers[i] = OfferOf(slots[i])
  BY DEF Offers, OfferOf
<1>5. Offers' = RemoveAt(Offers, k)
  <2> DEFINE c == RemoveAt(Offers, k)
             n == Len(slots) - 1
  <2>1. /\ c \in Seq(OfferSet) /\ Len(c) = n
        /\ \A i \in 1..n : c[i] = IF i < k THEN Offers[i] ELSE Offers[i + 1]
    BY <1>2, Removed
  <2>2. /\ Len(slots') = n
        /\ \A i \in 1..n : slots'[i] = IF i < k THEN slots[i] ELSE slots[i + 1]
    BY <1>3, Removed
  <2>3. n \in Nat
    BY <1>3
  <2> HIDE DEF c
  <2>4. Offers' = [i \in 1..n |-> OfferOf(slots'[i])]
    BY <2>2 DEF Offers, OfferOf
  <2>5. ASSUME NEW i \in 1..n PROVE c[i] = OfferOf(slots'[i])
    <3>1. i \in 1..Len(slots) /\ i + 1 \in 1..Len(slots)
      BY <1>3
    <3> QED BY <1>4, <2>1, <2>2, <3>1
  <2>6. c = [i \in 1..n |-> c[i]]
    BY <2>1, <2>3
  <2>7. Offers' = c
    BY <2>4, <2>5, <2>6
  <2> QED BY <2>7 DEF c
<1>6. ASSUME NEW v PROVE Times(Offers', v) = Times(Offers, v) - (IF v = o THEN 1 ELSE 0)
  <2>1. Times(RemoveAt(Offers, k), v) = Times(Offers, v) - IF Offers[k] = v THEN 1 ELSE 0
    BY <1>2, TimesRemoved
  <2>2. Offers[k] = o
    BY <1>4
  <2> HIDE DEF o
  <2> QED BY <1>5, <2>1, <2>2
<1>7. o \in DOMAIN BagOf(Offers)
  <2>1. DOMAIN Offers = 1..Len(slots)
    BY DEF Offers
  <2> QED BY <1>4, <2>1 DEF BagOf, Range
<1> HIDE DEF o
<1>8. \A v : Often(BagOf(Offers)', v) = Often(BagOf(Offers), v) - (IF v = o THEN 1 ELSE 0)
  BY <1>2, <1>6 DEF OffersCounted
<1>9. BagOf(Offers)' = M!BagRemove(BagOf(Offers), o)
  BY <1>2, <1>7, <1>8, LessIs DEF OffersCounted
<1> QED BY <1>7, <1>9 DEF o

LEMMA CreateSlotPromised ==
  ASSUME Inv2, Types', NEW a \in Accounts, NEW price \in Prices, CreateSlot(a, price)
  PROVE  Promised
<1> DEFINE tax == GetTaxPrice(price)
           p == SpendCurrency(a, Player(a), tax)
<1>1. Types /\ Mailbox /\ tax \in Nat
  <2>1. price \in Nat
    BY TradeAssumption
  <2> QED BY <2>1, Shares DEF Inv2, IInv
<1>2. acct[a].bag = 1 /\ CanSpend(Player(a), tax) /\ UNCHANGED <<house, table>>
  BY <1>1 DEF CreateSlot, MayOffer, Types, TypeOK, Owned
<1>3. Follows(a, p) /\ Gold(p) = Gold(Player(a)) - tax /\ p.bag = 1
  <2>1. Follows(a, Player(a)) /\ Player(a).bag = acct[a].bag
    BY <1>1, PlayerFollows
  <2> HIDE DEF tax
  <2> QED BY <1>1, <1>2, <2>1, SpendFollows
<1>4. PICK ok \in BOOLEAN :
          LET id == IF ok THEN 1 + Max({0} \cup {slot.id : slot \in table.slots}) ELSE 1
              slot == [id |-> id, owner |-> a, price |-> price]
          IN /\ slots' = Append(slots, slot)
             /\ clean' = (clean /\ id \notin Ids)
             /\ Done(a, Put(a, p, "bag", 0), <<Statement("insert", <<"slot", id>>, slot)>>)
  <2>1. ~(p.bag < 1)
    BY <1>3
  <2> QED BY <2>1 DEF CreateSlot
<1> DEFINE id == IF ok THEN 1 + Max({0} \cup {slot.id : slot \in table.slots}) ELSE 1
           slot == [id |-> id, owner |-> a, price |-> price]
           w == Put(a, p, "bag", 0)
           s == Insert(slot)
           q == <<s>>
<1>5. slot \in Slots /\ s \in Statements /\ s.op = "insert" /\ OfferOf(slot) = [owner |-> a, price |-> price]
  <2>1. slot \in Slots
    BY <1>1, NewID DEF Slots
  <2> QED BY <2>1, StatementsAre DEF Insert, Statement, OfferOf
<1>6. slots' = Append(slots, slot) /\ Done(a, w, q) /\ (clean' => clean)
  <2>1. clean' = (clean /\ id \notin Ids)
    BY <1>4
  <2>2. s = Statement("insert", <<"slot", id>>, slot)
    BY DEF Insert
  <2> HIDE DEF s, p
  <2> QED BY <1>4, <2>1, <2>2
<1>7. Follows(a, w) /\ Gold(w) = Gold(p) /\ w.bag = 0
  <2> HIDE DEF p
  <2> QED BY <1>1, <1>3, BagFollows
<1>8. Gold(Player(a)) >= tax
  BY <1>2 DEF CanSpend, Gold
<1> HIDE DEF tax, p, slot, s, w
<1>9. q \in Seq(Statements) /\ Keeping(q) /\ \A l : Sending(q, l) = 0
  BY <1>5, Wordless
<1> HIDE DEF q
<1>10. Plain(a, w, q)
  BY <1>2, <1>6, <1>7, <1>9 DEF Plain
<1>11. Mailbox' /\ LettersBag' = LettersBag
  BY <1>1, <1>9, <1>10, NoneSent
<1>12. BagOf(Offers)' = M!BagAdd(BagOf(Offers), [owner |-> a, price |-> price])
  BY <1>1, <1>5, <1>6, OffersMore
<1>13. /\ Purse' = [Purse EXCEPT ![a] = Purse[a] - tax] /\ Goods' = [Goods EXCEPT ![a] = 0]
       /\ Purse[a] >= tax /\ Goods[a] = 1
  <2>1. /\ Purse' = [Purse EXCEPT ![a] = Gold(w)] /\ Goods' = [Goods EXCEPT ![a] = w.bag]
        /\ Purse[a] = Gold(Player(a)) /\ Purse[a] \in Nat /\ Goods[a] = acct[a].bag
    BY <1>1, <1>6, <1>7, PurseIs
  <2> QED BY <1>2, <1>3, <1>7, <1>8, <2>1
<1>14. M!Offer(a, price)
  BY <1>2, <1>11, <1>12, <1>13 DEF M!Offer, Purse, Goods, LettersBag, tax
<1> QED BY <1>6, <1>11, <1>14 DEF Promised, Trades, M!Step

\* A letter that is sent, as the market writes it.
LEMMA LetterIs == \A a, gold, goods : /\ Send(a, gold, goods) = Post(Letter(a, gold, goods))
                                      /\ Letter(a, gold, goods) = M!Letter(a, gold, goods)
BY DEF Send, Post, Letter, M!Letter

LEMMA CancelSlotPromised ==
  ASSUME Inv2, Types', NEW a \in Accounts, NEW id \in Ids, CancelSlot(a, id)
  PROVE  Promised
<1> DEFINE k == GetSlot(id)
           o == OfferOf(slots[k])
           x == Letter(a, 0, 1)
           s == Post(x)
           t == Delete(id)
           q == <<s, t>>
           p == Player(a)
<1>1. Types /\ Mailbox /\ id \in Nat /\ k \in 1..Len(slots)
  BY SlotIsAt DEF Inv2, IInv
<1>2. s \in Statements /\ s.op = "send" /\ t \in Statements /\ t.op = "delete"
  <2>1. s \in Statements /\ s.op = "send"
    BY SendIs, LetterIs
  <2> QED BY <1>1, <2>1, StatementsAre DEF Delete, Statement
<1>3. /\ o.owner = a /\ slots' = RemoveAt(slots, k)
      /\ Done(a, p, q) /\ UNCHANGED <<house, table, clean>>
  <2>1. <<s>> \o <<t>> = q
    BY Paired
  <2>2. <<Send(a, 0, 1)>> \o DeleteSlot(id) = q
    BY <2>1, LetterIs DEF DeleteSlot, Delete
  <2> QED BY <2>2 DEF CancelSlot, RemoveSlotByID, OfferOf
<1>4. Follows(a, p) /\ p.bag = acct[a].bag
  BY <1>1, PlayerFollows
<1>5. q \in Seq(Statements) /\ Keeping(q) /\ \A l : Sending(q, l) = Of(x, l)
  <2>1. t.op # "send" /\ t.op # "remove" /\ s.op # "remove"
    BY <1>2
  <2> HIDE DEF t, x
  <2>2. q \in Seq(Statements)
    BY <1>2
  <2>3. Keeping(q)
    BY <2>1, Wordless
  <2>4. \A l : Sending(q, l) = Of(x, l)
    BY <2>1, OneLetter
  <2> QED BY <2>2, <2>3, <2>4
<1> HIDE DEF q, p
<1>6. Plain(a, p, q)
  BY <1>3, <1>4, <1>5 DEF Plain
<1> HIDE DEF x
<1>7. Mailbox' /\ LettersBag' = M!BagAdd(LettersBag, x)
  BY <1>1, <1>5, <1>6, OneSent
<1>8. Purse' = Purse /\ Goods' = Goods
  <2>1. /\ Purse' = [Purse EXCEPT ![a] = Gold(p)] /\ Goods' = [Goods EXCEPT ![a] = p.bag]
        /\ Purse[a] = Gold(Player(a)) /\ Goods[a] = acct[a].bag
    BY <1>1, <1>3, <1>4, PurseIs
  <2>2. [Purse EXCEPT ![a] = Purse[a]] = Purse /\ [Goods EXCEPT ![a] = Goods[a]] = Goods
    BY DEF Purse, Goods
  <2> QED BY <1>4, <2>1, <2>2 DEF p
<1>9. o \in DOMAIN BagOf(Offers) /\ BagOf(Offers)' = M!BagRemove(BagOf(Offers), o)
  BY <1>1, <1>3, OffersLess
<1>10. x = M!Letter(o.owner, 0, 1)
  BY <1>3, LetterIs DEF x
<1> HIDE DEF o
<1>11. M!Cancel(o)
  BY <1>3, <1>7, <1>8, <1>9, <1>10 DEF M!Cancel, Purse, Goods, LettersBag
<1>12. Trades
  BY <1>9, <1>11 DEF Trades, M!Step, M!BagToSet
<1> QED BY <1>3, <1>7, <1>12 DEF Promised

LEMMA BuySlotPromised ==
  ASSUME Inv2, Types', NEW a \in Accounts, NEW id \in Ids, BuySlot(a, id)
  PROVE  Promised
<1> DEFINE k == GetSlot(id)
           slot == slots[k]
           o == OfferOf(slot)
           x == Letter(slot.owner, slot.price, 0)
           y == Letter(a, 0, 1)
           t == Delete(id)
           r == <<Post(x), Post(y)>>
           u == <<t>>
           q == r \o u
           p == SpendCurrency(a, Player(a), slot.price)
<1>1. Types /\ Mailbox /\ id \in Nat /\ k \in 1..Len(slots) /\ slot \in Slots
  BY SlotIsAt DEF Inv2, IInv
<1>2. slot.owner \in Accounts /\ slot.price \in Nat
  BY <1>1, TradeAssumption DEF Slots
<1>3. /\ slots' = RemoveAt(slots, k) /\ CanSpend(Player(a), slot.price) /\ slot.owner # a
      /\ Done(a, p, q) /\ UNCHANGED <<house, table, clean>>
  BY LetterIs DEF BuySlot, RemoveSlotByID, DeleteSlot, Delete
<1>4. r \in Seq(Statements) /\ u \in Seq(Statements) /\ t.op = "delete"
  <2>1. Post(x) \in Statements
    BY <1>2, SendIs, LetterIs
  <2>2. Post(y) \in Statements
    BY SendIs, LetterIs
  <2>3. t \in Statements
    BY <1>1, StatementsAre
  <2> HIDE DEF x, y, t
  <2> QED BY <2>1, <2>2, <2>3 DEF t, Delete, Statement
<1>5. q \in Seq(Statements) /\ Keeping(q) /\ \A l : Sending(q, l) = Of(x, l) + Of(y, l)
  <2>1. t.op # "send" /\ t.op # "remove"
    BY <1>4
  <2> HIDE DEF t, x, y
  <2>2. \A v : Times(r, v) = Of(Post(x), v) + Of(Post(y), v)
    BY TimesTwo
  <2>3. (\A l : Times(u, Post(l)) = 0) /\ \A i : Times(u, Erase(i)) = 0
    BY <2>1, Wordless DEF Keeping, Sending
  <2> HIDE DEF r, u
  <2>4. q \in Seq(Statements) /\ \A v : Times(q, v) = Times(r, v) + Times(u, v)
    BY <1>4, TimesJoined
  <2> HIDE DEF q
  <2>5. Keeping(q)
    BY <2>2, <2>3, <2>4, Different DEF Keeping, Of
  <2>6. \A l : Sending(q, l) = Of(x, l) + Of(y, l)
    BY <2>2, <2>3, <2>4, Different DEF Sending, Of
  <2> QED BY <2>4, <2>5, <2>6
<1>6. Follows(a, p) /\ Gold(p) = Gold(Player(a)) - slot.price /\ p.bag = acct[a].bag
      /\ Gold(Player(a)) >= slot.price
  <2>1. Follows(a, Player(a)) /\ Player(a).bag = acct[a].bag
    BY <1>1, PlayerFollows
  <2> HIDE DEF slot
  <2>2. Follows(a, p) /\ Gold(p) = Gold(Player(a)) - slot.price /\ p.bag = acct[a].bag
    BY <1>1, <1>2, <1>3, <2>1, SpendFollows
  <2> QED BY <1>3, <2>2 DEF CanSpend, Gold
<1>7. /\ o.owner = slot.owner /\ o.price = slot.price
      /\ x = M!Letter(o.owner, o.price, 0) /\ y = M!Letter(a, 0, 1)
  BY LetterIs DEF OfferOf
<1>8. o \in DOMAIN BagOf(Offers) /\ BagOf(Offers)' = M!BagRemove(BagOf(Offers), o)
  BY <1>1, <1>3, OffersLess
<1> HIDE DEF q, p, x, y, o, slot
<1>9. Plain(a, p, q)
  BY <1>3, <1>5, <1>6 DEF Plain
<1>10. Mailbox' /\ LettersBag' = M!BagAdd(M!BagAdd(LettersBag, x), y)
  BY <1>1, <1>5, <1>9, TwoSent
<1>11. Purse' = [Purse EXCEPT ![a] = Purse[a] - o.price] /\ Goods' = Goods /\ Purse[a] >= o.price
  <2>1. /\ Purse' = [Purse EXCEPT ![a] = Gold(p)] /\ Goods' = [Goods EXCEPT ![a] = p.bag]
        /\ Purse[a] = Gold(Player(a)) /\ Goods[a] = acct[a].bag
    BY <1>1, <1>3, <1>6, PurseIs
  <2>2. [Goods EXCEPT ![a] = Goods[a]] = Goods
    BY DEF Goods
  <2> QED BY <1>6, <1>7, <2>1, <2>2
<1>12. PICK v : v = o
  OBVIOUS
<1>13. M!Buy(a, v) /\ v \in M!BagToSet(BagOf(Offers))
  BY <1>3, <1>7, <1>8, <1>10, <1>11, <1>12 DEF M!Buy, M!BagToSet, Purse, Goods, LettersBag
<1>14. Trades
  BY <1>13 DEF Trades, M!Step
<1> QED BY <1>3, <1>10, <1>14 DEF Promised

-----------------------------------------------------------------------------
(* Commands on the mailbox *)

\* A command that asks to delete the row of letter m.
Erasing(a, p, more, m) == /\ Follows(a, p) /\ more \in Seq(Statements) /\ Done(a, p, more) /\ table' = table
                          /\ \A id : Times(more, Erase(id)) = Of(m.id, id)

Lost(m, l) == IF ~Deleted(m) /\ l = m.letter THEN 1 ELSE 0

LEMMA LettersErased ==
  ASSUME Types, Mailbox, Types', NEW a \in Accounts, NEW p, NEW more, NEW m \in table.mail, Erasing(a, p, more, m)
  PROVE  /\ Mailbox' /\ Counts(LettersBag) /\ Counts(LettersBag')
         /\ \A l : Often(LettersBag', l) = Often(LettersBag, l) - Lost(m, l) + Sending(more, l)
         /\ \A l : Often(LettersBag, l) \in Nat
         /\ ~Deleted(m) => m.letter \in DOMAIN LettersBag
<1>1. Follows(a, p) /\ more \in Seq(Statements) /\ Done(a, p, more) /\ table' = table
      /\ \A id \in Nat : Times(more, Erase(id)) = Of(m.id, id)
  BY DEF Erasing
<1>2. table.mail \subseteq Mails /\ m \in Mails /\ m.id \in Nat /\ m.id < table.next
  BY DEF Types, Tables, Mailbox, Boxed, Mails
<1>3. Mailbox'
  <2>1. \A id \in Nat : Times(more, Erase(id)) # 0 => id < table.next
    BY <1>1, <1>2 DEF Of
  <2> QED BY <1>1, <2>1, CommandMailbox
<1>4. LettersCounted /\ LettersCounted'
  BY <1>3, LettersAre, NextLettersAre
<1>5. ASSUME NEW l
      PROVE  Letters(l)' = Letters(l) - Lost(m, l) + Sending(more, l) /\ Letters(l) \in Nat
             /\ (~Deleted(m) /\ l = m.letter => Letters(l) # 0)
  <2> DEFINE R == RowIds(table.mail, queue, l)
             T == RowIds(table.mail, queue', l)
  <2>1. ASSUME NEW n \in table.mail
        PROVE  Times(queue', Erase(n.id)) = 0 <=> Times(queue, Erase(n.id)) = 0 /\ n.id # m.id
    <3>1. n.id \in Nat
      BY <1>2 DEF Mails
    <3>2. /\ Times(queue', Erase(n.id)) = Times(queue, Erase(n.id)) + Times(more, Erase(n.id))
          /\ Times(queue, Erase(n.id)) \in Nat
      BY <1>1, CommandTimes, NoSaves, QueueTimes
    <3>3. Times(more, Erase(n.id)) = IF n.id = m.id THEN 1 ELSE 0
      BY <1>1, <3>1 DEF Of
    <3> QED BY <3>2, <3>3
  <2>2. T = R \ {m.id}
    BY <2>1 DEF RowIds
  <2>3. m.id \in R <=> ~Deleted(m) /\ l = m.letter
    <3>1. Deleted(m) <=> Times(queue, Erase(m.id)) # 0
      BY <1>2, DeletedIs
    <3>2. \A n \in table.mail : n.id = m.id => n = m
      BY DEF Mailbox, Boxed
    <3> QED BY <3>1, <3>2 DEF RowIds
  <2>4. IsFiniteSet(R)
    BY RowIdsCount
  <2>5. Cardinality(R) \in Nat /\ Cardinality(T) = Cardinality(R) - Lost(m, l) /\ (m.id \in R => Cardinality(R) # 0)
    <3> HIDE DEF R, T
    <3>1. Cardinality(R \ {m.id}) = IF m.id \in R THEN Cardinality(R) - 1 ELSE Cardinality(R)
      BY <2>4, FS_RemoveElement
    <3>2. Cardinality(R) \in Nat /\ (Cardinality(R) = 0 <=> R = {})
      BY <2>4, FS_CardinalityType, FS_EmptySet
    <3> QED BY <2>2, <2>3, <3>1, <3>2 DEF Lost
  <2>6. Times(queue', Post(l)) = Times(queue, Post(l)) + Sending(more, l) /\ Sending(more, l) \in Nat
    BY <1>1, CommandTimes, NoSaves DEF Sending
  <2>7. Times(queue, Post(l)) \in Nat
    BY QueueTimes
  <2>8. Letters(l) = Cardinality(R) + Times(queue, Post(l)) /\ Letters(l)' = Cardinality(T) + Times(queue', Post(l))
    BY <1>1 DEF Letters
  <2>9. Lost(m, l) \in {0, 1}
    BY DEF Lost
  <2> HIDE DEF R, T
  <2> QED BY <2>3, <2>5, <2>6, <2>7, <2>8, <2>9
<1>6. /\ Counts(LettersBag) /\ Counts(LettersBag')
      /\ \A l : Often(LettersBag, l) = Letters(l) /\ Often(LettersBag', l) = Letters(l)'
  BY <1>4 DEF LettersCounted
<1>7. ~Deleted(m) => m.letter \in DOMAIN LettersBag
  BY <1>5, <1>6 DEF Often
<1> QED BY <1>3, <1>5, <1>6, <1>7

LEMMA Discards ==
  ASSUME Counts(LettersBag), Counts(LettersBag'), NEW a,
         \A l : Often(LettersBag', l) <= Often(LettersBag, l),
         \A l : l.to # a => Often(LettersBag', l) = Often(LettersBag, l),
         UNCHANGED <<Purse, Goods, BagOf(Offers), house>>
  PROVE  M!Discard(a)
<1> DEFINE B == LettersBag
           C == LettersBag'
<1>1. /\ \A l \in DOMAIN B : B[l] \in Nat /\ B[l] # 0
      /\ \A l \in DOMAIN C : C[l] \in Nat /\ C[l] # 0
  BY DEF Counts
<1>2. M!\sqsubseteq(C, B)
  <2>1. ASSUME NEW l \in DOMAIN C PROVE l \in DOMAIN B /\ C[l] <= B[l]
    <3>1. Often(C, l) <= Often(B, l) /\ Often(C, l) = C[l]
      BY DEF Often
    <3> HIDE DEF B, C
    <3> QED BY <1>1, <3>1 DEF Often
  <2> HIDE DEF B, C
  <2> QED BY <2>1 DEF M!\sqsubseteq
<1>3. ASSUME NEW l \in M!BagToSet(B), l.to # a PROVE M!BagIn(l, C) /\ C[l] = B[l]
  <2>1. Often(C, l) = Often(B, l) /\ l \in DOMAIN B
    BY <1>3 DEF M!BagToSet
  <2> HIDE DEF B, C
  <2> QED BY <1>1, <2>1 DEF Often, M!BagIn, M!BagToSet
<1> HIDE DEF B, C
<1>4. M!\sqsubseteq(LettersBag', LettersBag)
  BY <1>2 DEF B, C
<1>5. \A l \in M!BagToSet(LettersBag) : l.to # a => M!BagIn(l, LettersBag') /\ LettersBag'[l] = LettersBag[l]
  BY <1>3 DEF B, C
<1> QED BY <1>4, <1>5 DEF M!Discard, Purse, Goods, LettersBag

LEMMA AcceptMailPromised ==
  ASSUME Inv2, Types', NEW a \in Accounts, NEW m \in table.mail, NEW capacity \in Capacities, AcceptMail(a, m, capacity)
  PROVE  Promised
<1> DEFINE l == m.letter
           refused == l.goods = 1 /\ acct[a].bag = 1
           paid == Add(a, Player(a), l.gold, capacity)
           p == IF l.goods = 1 /\ ~refused THEN Put(a, paid, "bag", 1) ELSE paid
           x == Letter(a, 0, 1)
           s == Send(a, 0, 1)
           r == Erase(m.id)
           q == (IF refused THEN <<s>> ELSE <<>>) \o <<r>>
           rest == M!BagRemove(LettersBag, l)
<1>1. Types /\ Mailbox /\ acct[a].bag \in 0..1
  BY DEF Inv2, IInv, Types, TypeOK, Owned
<1>2. m \in Mails /\ l \in LetterSet /\ l.gold \in Nat /\ l.goods \in 0..1 /\ m.id \in Nat
  BY <1>1 DEF Types, Tables, Mails, LetterSet
<1>3. /\ Done(a, p, q) /\ clean' = (clean /\ ~Deleted(m)) /\ UNCHANGED <<slots, house, table>> /\ l.to = a
  BY DEF AcceptMail, DeleteMail, RemoveMail, Erase
<1>4. s \in Statements /\ s = Post(x) /\ r \in Statements /\ r.op = "remove"
  BY <1>2, SendIs, LetterIs, StatementsAre DEF Erase, Statement
<1>5. Follows(a, p) /\ Gold(p) = Gold(Player(a)) + l.gold
      /\ p.bag = IF l.goods = 1 /\ ~refused THEN 1 ELSE acct[a].bag
  <2>1. Follows(a, Player(a)) /\ Player(a).bag = acct[a].bag
    BY <1>1, PlayerFollows
  <2>2. Follows(a, paid) /\ Gold(paid) = Gold(Player(a)) + l.gold /\ paid.bag = acct[a].bag
    BY <1>1, <1>2, <2>1, AddFollows
  <2> HIDE DEF paid, refused
  <2>3. /\ Follows(a, Put(a, paid, "bag", 1)) /\ Gold(Put(a, paid, "bag", 1)) = Gold(paid)
        /\ Put(a, paid, "bag", 1).bag = 1
    BY <1>1, <2>2, BagFollows
  <2> QED BY <2>2, <2>3
<1> HIDE DEF p, s, r
<1>6. /\ q \in Seq(Statements)
      /\ \A v : Times(q, v) = (IF refused THEN Of(s, v) ELSE 0) + Of(r, v)
  <2>1. CASE refused
    <3>1. q = <<s, r>>
      <4>1. q = <<s>> \o <<r>>
        BY <2>1
      <4>2. <<s>> \o <<r>> = <<s, r>>
        BY Paired
      <4> QED BY <4>1, <4>2
    <3> HIDE DEF q
    <3> QED BY <1>4, <2>1, <3>1, TimesTwo
  <2>2. CASE ~refused
    <3>1. q = <<r>>
      <4>1. r \in Statements
        BY <1>4
      <4>2. <<>> \o <<r>> = <<r>>
        BY <4>1
      <4> QED BY <2>2, <4>2
    <3>2. \A v : Of(r, v) \in {0, 1}
      BY DEF Of
    <3> HIDE DEF q
    <3> QED BY <1>4, <2>2, <3>1, <3>2, TimesShort DEF Of
  <2> QED BY <2>1, <2>2
<1> HIDE DEF q, refused
<1>7. /\ \A id : Times(q, Erase(id)) = Of(m.id, id)
      /\ \A k : Sending(q, k) = IF refused THEN Of(x, k) ELSE 0
  BY <1>4, <1>6, Different DEF Of, Sending, r
<1>8. Erasing(a, p, q, m)
  BY <1>3, <1>5, <1>6, <1>7 DEF Erasing
<1>9. /\ Mailbox' /\ Counts(LettersBag) /\ Counts(LettersBag')
      /\ \A k : Often(LettersBag', k) = Often(LettersBag, k) - Lost(m, k) + Sending(q, k)
      /\ \A k : Often(LettersBag, k) \in Nat
      /\ ~Deleted(m) => l \in DOMAIN LettersBag
  BY <1>1, <1>8, LettersErased
<1>10. /\ Purse' = [Purse EXCEPT ![a] = Purse[a] + l.gold] /\ Goods' = [Goods EXCEPT ![a] = p.bag]
       /\ Goods[a] = acct[a].bag /\ Goods = [Goods EXCEPT ![a] = Goods[a]]
  <2>1. /\ Purse' = [Purse EXCEPT ![a] = Gold(p)] /\ Goods' = [Goods EXCEPT ![a] = p.bag]
        /\ Purse[a] = Gold(Player(a)) /\ Goods[a] = acct[a].bag
    BY <1>1, <1>3, <1>5, PurseIs
  <2>2. [Goods EXCEPT ![a] = Goods[a]] = Goods
    BY DEF Goods
  <2> QED BY <1>5, <2>1, <2>2
<1>11. ASSUME clean' PROVE Trades
  <2>1. ~Deleted(m) /\ l \in DOMAIN LettersBag /\ \A k : Lost(m, k) = IF k = l THEN 1 ELSE 0
    BY <1>3, <1>9, <1>11 DEF Lost
  <2>2. Counts(rest) /\ \A k : Often(rest, k) = Often(LettersBag, k) - (IF k = l THEN 1 ELSE 0)
    BY <1>9, <2>1, BagLess
  <2>3. LettersBag' = IF refused THEN M!BagAdd(rest, x) ELSE rest
    <3> HIDE DEF rest
    <3>1. CASE refused
      <4>1. \A k : Often(LettersBag', k) = Often(rest, k) + (IF k = x THEN 1 ELSE 0)
        BY <1>7, <1>9, <2>1, <2>2, <3>1 DEF Of
      <4> QED BY <1>9, <2>2, <3>1, <4>1, MoreIs
    <3>2. CASE ~refused
      <4>1. \A k : Often(LettersBag', k) = Often(rest, k)
        BY <1>7, <1>9, <2>1, <2>2, <3>2
      <4> QED BY <1>9, <2>2, <3>2, <4>1, SameBag
    <3> QED BY <3>1, <3>2
  <2>4. BagOf(Offers)' = BagOf(Offers) /\ house' = house
    BY <1>3, SameOffers
  <2>5. x = M!Letter(a, 0, 1) /\ (refused <=> ~(Goods[a] = 0 \/ l.goods = 0)) /\ l.goods \in 0..1
    BY <1>1, <1>2, <1>10, LetterIs DEF refused
  <2>6. Goods' = IF Goods[a] = 0 THEN [Goods EXCEPT ![a] = l.goods] ELSE Goods
    <3>1. p.bag = IF Goods[a] = 0 THEN l.goods ELSE Goods[a]
      BY <1>1, <1>2, <1>5, <1>10 DEF refused
    <3> QED BY <1>10, <3>1
  <2>7. LettersBag' = IF Goods[a] = 0 \/ l.goods = 0 THEN rest ELSE M!BagAdd(rest, M!Letter(a, 0, l.goods))
    BY <2>3, <2>5
  <2>8. M!Claim(l)
    BY <1>3, <1>10, <2>4, <2>6, <2>7 DEF M!Claim, Purse, Goods, LettersBag
  <2>9. l \in M!BagToSet(LettersBag)
    BY <2>1 DEF M!BagToSet
  <2> QED BY <2>8, <2>9 DEF Trades, M!Step, LettersBag
<1> QED BY <1>3, <1>9, <1>11 DEF Promised

LEMMA ReadOrDeletePromised ==
  ASSUME Inv2, Types', NEW a \in Accounts, ReadOrDelete(a)
  PROVE  Promised
<1> DEFINE p == Player(a)
<1>1. Types /\ Mailbox
  BY DEF Inv2, IInv
<1>2. Follows(a, p) /\ p.bag = acct[a].bag
  BY <1>1, PlayerFollows
<1>3. UNCHANGED <<slots, house, table, clean>>
  BY DEF ReadOrDelete
<1>4. ASSUME NEW s \in Statements, s.op \notin {"send", "remove"}, Done(a, p, <<s>>) PROVE Promised
  <2>1. /\ Mailbox' /\ LettersBag' = LettersBag /\ BagOf(Offers)' = BagOf(Offers) /\ Goods' = Goods
        /\ Purse' = [Purse EXCEPT ![a] = Gold(p)] /\ Purse[a] = Gold(p)
    BY <1>1, <1>2, <1>3, <1>4, SilentCommand
  <2>2. [Purse EXCEPT ![a] = Purse[a]] = Purse
    BY DEF Purse
  <2> QED BY <1>3, <2>1, <2>2 DEF Promised, Trades
<1>5. ASSUME NEW m \in table.mail, m.letter.to = a, Done(a, p, <<RemoveMail(m)>>) PROVE Promised
  <2> DEFINE r == Erase(m.id)
             q == <<r>>
  <2>1. m.id \in Nat
    BY <1>1 DEF Types, Tables, Mails
  <2>2. r \in Statements /\ Done(a, p, q)
    BY <1>5, <2>1, StatementsAre DEF RemoveMail, Erase
  <2>3. (\A id : Times(q, Erase(id)) = Of(m.id, id)) /\ \A k : Sending(q, k) = 0
    BY TimesShort, Different DEF Of, Sending
  <2>4. q \in Seq(Statements)
    BY <2>2
  <2> HIDE DEF q, p
  <2>5. Erasing(a, p, q, m)
    BY <1>2, <1>3, <2>2, <2>3, <2>4 DEF Erasing
  <2>6. /\ Mailbox' /\ Counts(LettersBag) /\ Counts(LettersBag')
        /\ \A k : Often(LettersBag', k) = Often(LettersBag, k) - Lost(m, k) + Sending(q, k)
        /\ \A k : Often(LettersBag, k) \in Nat
    BY <1>1, <2>5, LettersErased
  <2>7. UNCHANGED <<Purse, Goods, BagOf(Offers), house>>
    <3>1. /\ Purse' = [Purse EXCEPT ![a] = Gold(p)] /\ Goods' = [Goods EXCEPT ![a] = p.bag]
          /\ Purse[a] = Gold(Player(a)) /\ Goods[a] = acct[a].bag
      BY <1>1, <1>2, <2>2, PurseIs
    <3>2. [Purse EXCEPT ![a] = Purse[a]] = Purse /\ [Goods EXCEPT ![a] = Goods[a]] = Goods
      BY DEF Purse, Goods
    <3> QED BY <1>2, <1>3, <3>1, <3>2, SameOffers DEF p
  <2>8. /\ \A k : Often(LettersBag', k) <= Often(LettersBag, k)
        /\ \A k : k.to # a => Often(LettersBag', k) = Often(LettersBag, k)
    BY <1>5, <2>3, <2>6 DEF Lost
  <2>9. M!Discard(a)
    BY <2>6, <2>7, <2>8, Discards
  <2> QED BY <1>3, <2>6, <2>9 DEF Promised, Trades, M!Step
<1>6. ASSUME NEW m \in table.mail, Done(a, p, <<Statement("read", <<"mail", m.id>>, m.id)>>) PROVE Promised
  <2>1. m.id \in Nat
    BY <1>1 DEF Types, Tables, Mails
  <2>2. Mark(m.id) \in Statements /\ Mark(m.id).op = "read" /\ Done(a, p, <<Mark(m.id)>>)
    BY <1>6, <2>1, StatementsAre DEF Mark, Statement
  <2> QED BY <1>4, <2>2
<1>7. ASSUME Done(a, p, <<Statement("purge", <<"box", a>>, a)>>) PROVE Promised
  <2>1. Purge(a) \in Statements /\ Purge(a).op = "purge" /\ Done(a, p, <<Purge(a)>>)
    BY <1>7, StatementsAre DEF Purge, Statement
  <2> QED BY <1>4, <2>1
<1> QED BY <1>5, <1>6, <1>7 DEF ReadOrDelete

-----------------------------------------------------------------------------
(* The pool, players and the server *)

\* What it is to be the row of an unclaimed letter.
LEMMA IsRow ==
  ASSUME NEW mail, NEW q, NEW l, NEW y
  PROVE  y \in RowIds(mail, q, l) <=> \E m \in mail : m.id = y /\ Times(q, Erase(y)) = 0 /\ m.letter = l
BY DEF RowIds

LEMMA SameLetters ==
  ASSUME Types, Mailbox, Types', Mailbox', \A l : Letters(l)' = Letters(l)
  PROVE  LettersBag' = LettersBag
<1>1. LettersCounted /\ LettersCounted'
  BY LettersAre, NextLettersAre
<1> QED BY <1>1, SameBag DEF LettersCounted

LEMMA FewerLetters ==
  ASSUME Types, Mailbox, Types', Mailbox', NEW a,
         \A l : Letters(l)' <= Letters(l) /\ (l.to # a => Letters(l)' = Letters(l)),
         UNCHANGED <<Purse, Goods, BagOf(Offers), house>>
  PROVE  M!Discard(a)
<1>1. LettersCounted /\ LettersCounted'
  BY LettersAre, NextLettersAre
<1>2. /\ Counts(LettersBag) /\ Counts(LettersBag')
      /\ \A l : Often(LettersBag, l) = Letters(l) /\ Often(LettersBag', l) = Letters(l)'
  BY <1>1 DEF LettersCounted
<1>3. /\ \A l : Often(LettersBag', l) <= Often(LettersBag, l)
      /\ \A l : l.to # a => Often(LettersBag', l) = Often(LettersBag, l)
  BY <1>2
<1> QED BY <1>2, <1>3, Discards

\* Statement s has been executed, and it is gone from the pool or has gone to its end.
Executed(s, gone) ==
  /\ table' = After(table, s)
  /\ \A v : Times(queue', v) = Times(queue, v) - (IF gone THEN Of(s, v) ELSE 0)

LEMMA ExecutedPost ==
  ASSUME Types, Mailbox, NEW l \in LetterSet, Executed(Post(l), TRUE),
         table'.mail = table.mail \cup {[id |-> table.next, letter |-> l, read |-> FALSE]},
         Times(queue, Post(l)) # 0, NEW k
  PROVE  Letters(k)' = Letters(k)
<1> DEFINE R == RowIds(table.mail, queue, k)
           T == RowIds(table'.mail, queue', k)
           n == table.next
<1>1. n \in Nat /\ \A m \in table.mail : m.id # n
  <2>1. n \in Nat /\ table.mail \subseteq Mails
    BY DEF Types, Tables
  <2> QED BY <2>1 DEF Mailbox, Boxed, Mails
<1>2. Times(queue, Erase(n)) = 0
  BY <1>1 DEF Mailbox
<1>3. /\ \A v : Times(queue', v) = Times(queue, v) - Of(Post(l), v)
      /\ \A v : Times(queue, v) \in Nat
  BY QueueTimes DEF Executed
<1>4. (\A y : Times(queue', Erase(y)) = Times(queue, Erase(y))) /\ Times(queue', Post(k)) = Times(queue, Post(k)) - Of(l, k)
  BY <1>3, Different DEF Of
<1>5. T = IF k = l THEN R \cup {n} ELSE R
  <2>1. ASSUME NEW y PROVE y \in T <=> y \in R \/ (k = l /\ y = n)
    <3> DEFINE m == [id |-> n, letter |-> l, read |-> FALSE]
    <3>1. m.id = n /\ m.letter = l /\ table'.mail = table.mail \cup {m}
      OBVIOUS
    <3> HIDE DEF m, n
    <3> QED BY <1>2, <1>4, <3>1, IsRow
  <2> QED BY <2>1
<1>6. n \notin R /\ IsFiniteSet(R)
  BY <1>1, IsRow, RowIdsCount
<1>7. Cardinality(R) \in Nat /\ Cardinality(T) = Cardinality(R) + Of(l, k)
  <2> HIDE DEF R, T, n
  <2>1. Cardinality(R) \in Nat /\ Cardinality(R \cup {n}) = Cardinality(R) + 1
    BY <1>6, FS_AddElement, FS_CardinalityType
  <2> QED BY <1>5, <2>1 DEF Of
<1>8. Letters(k) = Cardinality(R) + Times(queue, Post(k)) /\ Letters(k)' = Cardinality(T) + Times(queue', Post(k))
  BY DEF Letters
<1>9. Times(queue, Post(k)) \in Nat /\ Of(l, k) \in Nat
  BY <1>3 DEF Of
<1> HIDE DEF R, T
<1> QED BY <1>4, <1>7, <1>8, <1>9

\* To execute any other statement changes no letter, but for marked ones that are thrown away.
LEMMA ExecutedOther ==
  ASSUME Types, Mailbox, NEW s \in Statements, NEW gone \in BOOLEAN, Executed(s, gone), s.op # "send",
         Times(queue, s) # 0
  PROVE  \/ \A l : Letters(l)' = Letters(l)
         \/ \E a \in Accounts : \A l : Letters(l)' <= Letters(l) /\ (l.to # a => Letters(l)' = Letters(l))
<1> DEFINE R(l) == RowIds(table.mail, queue, l)
           T(l) == RowIds(table'.mail, queue', l)
<1>1. /\ \A v : Times(queue', v) = Times(queue, v) - (IF gone THEN Of(s, v) ELSE 0)
      /\ \A v : Times(queue, v) \in Nat
  BY QueueTimes DEF Executed
<1>2. \A l : Times(queue', Post(l)) = Times(queue, Post(l))
  BY <1>1, Different DEF Of
<1>3. ASSUME NEW l PROVE /\ Letters(l) = Cardinality(R(l)) + Times(queue, Post(l)) /\ Letters(l)' = Cardinality(T(l)) + Times(queue', Post(l))
                         /\ Times(queue, Post(l)) \in Nat /\ Cardinality(R(l)) \in Nat
  BY <1>1, RowIdsCount, FS_CardinalityType DEF Letters
<1>4. ASSUME \A l : T(l) = R(l) PROVE \A l : Letters(l)' = Letters(l)
  BY <1>2, <1>3, <1>4
<1>5. table \in Tables /\ table' = After(table, s) /\ table.mail \subseteq Mails
  BY DEF Types, Tables, Executed
<1>6. \/ s \notin {Post(l) : l \in LetterSet} \cup {Mark(id) : id \in Nat}
                     \cup {Erase(id) : id \in Nat} \cup {Purge(a) : a \in Accounts}
         /\ table'.mail = table.mail
      \/ \E id \in Nat : s = Mark(id) /\ table'.mail = {[m EXCEPT !.read = @ \/ m.id = id] : m \in table.mail}
      \/ \E id \in Nat : s = Erase(id) /\ table'.mail = {m \in table.mail : m.id # id}
      \/ \E a \in Accounts : s = Purge(a) /\ table'.mail = {m \in table.mail : ~(m.letter.to = a /\ m.read)}
  <2>1. \A l : s # Post(l)
    BY Different
  <2>2. MailAfter(table, s, table')
    BY <1>5, AfterMail
  <2> HIDE DEF R, T
  <2> QED BY <2>1, <2>2 DEF MailAfter
<1>7. ASSUME table'.mail = table.mail, \A id \in Nat : s # Erase(id) PROVE \A l : T(l) = R(l)
  <2>1. \A m \in table.mail : m.id \in Nat
    BY <1>5 DEF Mails
  <2>2. \A m \in table.mail : Times(queue', Erase(m.id)) = Times(queue, Erase(m.id))
    BY <1>1, <1>7, <2>1 DEF Of
  <2> QED BY <1>7, <2>2 DEF RowIds
<1>8. ASSUME NEW id \in Nat, s = Mark(id), table'.mail = {[m EXCEPT !.read = @ \/ m.id = id] : m \in table.mail}
      PROVE  \A l : T(l) = R(l)
  <2>1. \A y : Times(queue', Erase(y)) = Times(queue, Erase(y))
    <3>1. s.op # "remove"
      BY <1>8 DEF Mark, Statement
    <3> QED BY <1>1, <3>1, Different DEF Of
  <2> DEFINE f(m) == [m EXCEPT !.read = @ \/ m.id = id]
  <2>2. \A m \in table.mail : f(m).id = m.id /\ f(m).letter = m.letter
    BY <1>5 DEF Mails
  <2>3. table'.mail = {f(m) : m \in table.mail}
    BY <1>8
  <2> HIDE DEF f
  <2>4. ASSUME NEW l PROVE T(l) = R(l)
    <3>1. ASSUME NEW y PROVE y \in T(l) <=> y \in R(l)
      <4>1. (\E n \in table'.mail : n.id = y /\ n.letter = l) <=> \E m \in table.mail : m.id = y /\ m.letter = l
        BY <2>2, <2>3
      <4> QED BY <2>1, <4>1, IsRow
    <3> HIDE DEF R, T
    <3> QED BY <3>1
  <2> QED BY <2>4
<1>9. ASSUME NEW id \in Nat, s = Erase(id), table'.mail = {m \in table.mail : m.id # id}
      PROVE  \A l : T(l) = R(l)
  <2>1. ASSUME NEW y, y # id PROVE Times(queue', Erase(y)) = Times(queue, Erase(y))
    BY <1>1, <1>9, <2>1, Different DEF Of
  <2>2. Times(queue, Erase(id)) # 0
    BY <1>9
  <2>3. ASSUME NEW l PROVE T(l) = R(l)
    <3>1. ASSUME NEW y PROVE y \in T(l) <=> y \in R(l)
      <4>1. CASE y = id
        BY <1>9, <2>2, <4>1, IsRow
      <4>2. CASE y # id
        <5>1. (\E n \in table'.mail : n.id = y /\ n.letter = l) <=> \E m \in table.mail : m.id = y /\ m.letter = l
          BY <1>9, <4>2
        <5> QED BY <2>1, <4>2, <5>1, IsRow
      <4> QED BY <4>1, <4>2
    <3> HIDE DEF R, T
    <3> QED BY <3>1
  <2> QED BY <2>3
<1>10. ASSUME NEW a \in Accounts, s = Purge(a), table'.mail = {m \in table.mail : ~(m.letter.to = a /\ m.read)}
       PROVE  \A l : Letters(l)' <= Letters(l) /\ (l.to # a => Letters(l)' = Letters(l))
  <2>1. \A y : Times(queue', Erase(y)) = Times(queue, Erase(y))
    <3>1. s.op # "remove"
      BY <1>10 DEF Purge, Statement
    <3> QED BY <1>1, <3>1, Different DEF Of
  <2>2. ASSUME NEW l PROVE T(l) \subseteq R(l) /\ (l.to # a => T(l) = R(l))
    <3>1. ASSUME NEW y PROVE (y \in T(l) => y \in R(l)) /\ (l.to # a /\ y \in R(l) => y \in T(l))
      BY <1>10, <2>1, IsRow
    <3> HIDE DEF R, T
    <3> QED BY <3>1
  <2>3. ASSUME NEW l PROVE Letters(l)' <= Letters(l) /\ (l.to # a => Letters(l)' = Letters(l))
    <3>1. IsFiniteSet(R(l))
      BY RowIdsCount
    <3> HIDE DEF R, T
    <3>2. Cardinality(T(l)) <= Cardinality(R(l)) /\ Cardinality(T(l)) \in Nat
      BY <2>2, <3>1, FS_Subset, FS_CardinalityType
    <3>3. l.to # a => Cardinality(T(l)) = Cardinality(R(l))
      BY <2>2
    <3> QED BY <1>2, <1>3, <3>2, <3>3
  <2> QED BY <2>3
<1>11. CASE \E a \in Accounts : s = Purge(a) /\ table'.mail = {m \in table.mail : ~(m.letter.to = a /\ m.read)}
  BY <1>10, <1>11
<1>12. CASE \/ \E id \in Nat : s = Mark(id) /\ table'.mail = {[m EXCEPT !.read = @ \/ m.id = id] : m \in table.mail}
            \/ \E id \in Nat : s = Erase(id) /\ table'.mail = {m \in table.mail : m.id # id}
  <2>1. \A l : T(l) = R(l)
    BY <1>8, <1>9, <1>12
  <2> QED BY <1>4, <2>1
<1>13. CASE s \notin {Post(l) : l \in LetterSet} \cup {Mark(id) : id \in Nat}
                     \cup {Erase(id) : id \in Nat} \cup {Purge(a) : a \in Accounts}
            /\ table'.mail = table.mail
  <2>1. \A id \in Nat : s # Erase(id)
    BY <1>13
  <2>2. \A l : T(l) = R(l)
    BY <1>7, <1>13, <2>1
  <2> QED BY <1>4, <2>2
<1> QED BY <1>6, <1>11, <1>12, <1>13

LEMMA PoolPromised ==
  ASSUME Inv2, Types', NEW i \in 1..Len(queue), Execute(i) \/ Retry(i) \/ GiveUp(i)
  PROVE  Promised
<1> DEFINE s == queue[i]
<1>1. Types /\ Mailbox /\ Mailbox'
  BY PoolMailbox DEF Inv2, IInv
<1>2. queue \in Seq(Statements) /\ s \in Statements /\ Times(queue, s) # 0
  BY <1>1, QueueIs, QueueTimes DEF Queued
<1>3. UNCHANGED <<acct, slots, house>> /\ UNCHANGED <<Purse, Goods, BagOf(Offers), house>> /\ (clean' => clean)
  <2>1. UNCHANGED <<acct, slots, house>> /\ (clean' => clean)
    BY DEF Execute, Retry, GiveUp
  <2> QED BY <2>1, SameOffers DEF Purse, Goods
<1>4. ASSUME \A l : Letters(l)' = Letters(l) PROVE Promised
  BY <1>1, <1>3, <1>4, SameLetters DEF Promised, Trades
<1>5. ASSUME NEW gone \in BOOLEAN, Executed(s, gone), s.op # "send" PROVE Promised
  <2>1. \/ \A l : Letters(l)' = Letters(l)
        \/ \E a \in Accounts : \A l : Letters(l)' <= Letters(l) /\ (l.to # a => Letters(l)' = Letters(l))
    BY <1>1, <1>2, <1>5, ExecutedOther
  <2>2. ASSUME NEW a \in Accounts, \A l : Letters(l)' <= Letters(l) /\ (l.to # a => Letters(l)' = Letters(l))
        PROVE  Promised
    <3>1. M!Discard(a)
      BY <1>1, <1>3, <2>2, FewerLetters
    <3> QED BY <1>1, <1>3, <3>1 DEF Promised, Trades, M!Step
  <2> QED BY <1>4, <2>1, <2>2
<1>6. ASSUME queue' = RemoveAt(queue, i), NEW v PROVE Times(queue', v) = Times(queue, v) - Of(s, v)
  BY <1>2, <1>6, TimesRemoved DEF Of
<1>7. ASSUME queue' = Append(RemoveAt(queue, i), s), NEW v PROVE Times(queue', v) = Times(queue, v)
  BY <1>2, <1>7, TimesMoved
<1>8. ASSUME table' = table, \A l : Times(queue', Post(l)) = Times(queue, Post(l)),
             \A id : Times(queue', Erase(id)) = Times(queue, Erase(id))
      PROVE  Promised
  <2>1. ASSUME NEW l PROVE Letters(l)' = Letters(l)
    BY <1>8 DEF Letters, RowIds
  <2> QED BY <1>4, <2>1
<1>9. CASE Execute(i)
  <2>1. table' = After(table, s) /\ queue' = RemoveAt(queue, i)
    BY <1>9 DEF Execute
  <2>2. Executed(s, TRUE)
    BY <1>6, <2>1 DEF Executed
  <2>3. CASE s.op = "send"
    <3>1. PICK l \in LetterSet : s = Post(l)
      BY <1>2, <2>3, StatementKinds DEF Save, SaveHouse, SaveSafe, Insert, Delete, Mark, Erase, Purge, Statement
    <3>2. table'.mail = table.mail \cup {[id |-> table.next, letter |-> l, read |-> FALSE]}
      <4> DEFINE m == [id |-> table.next, letter |-> l, read |-> FALSE]
      <4>1. table \in Tables
        BY <1>1 DEF Types
      <4>2. table' = [table EXCEPT !.mail = table.mail \cup {m}, !.next = table.next + 1]
        BY <2>1, <3>1 DEF Post, Statement, After
      <4> HIDE DEF m
      <4>3. table'.mail = table.mail \cup {m}
        BY <4>1, <4>2 DEF Tables
      <4> QED BY <4>3 DEF m
    <3>3. Executed(Post(l), TRUE) /\ Times(queue, Post(l)) # 0
      BY <1>2, <2>2, <3>1
    <3>4. \A k : Letters(k)' = Letters(k)
      BY <1>1, <3>2, <3>3, ExecutedPost
    <3> QED BY <1>4, <3>4
  <2>4. CASE s.op # "send"
    BY <1>5, <2>2, <2>4
  <2> QED BY <2>3, <2>4
<1>10. CASE Retry(i)
  <2>1. PICK took \in BOOLEAN :
          /\ table' = IF took THEN After(table, s) ELSE table
          /\ clean' = (clean /\ ~(took /\ s.op = "send")
                             /\ ~(InOrder(s) /\ \E j \in 1..Len(queue) : j # i /\ queue[j].row = s.row))
    BY <1>10 DEF Retry
  <2>2. queue' = Append(RemoveAt(queue, i), s)
    BY <1>10 DEF Retry
  <2>3. \A v : Times(queue', v) = Times(queue, v)
    BY <1>7, <2>2
  <2>4. CASE took = FALSE
    BY <1>8, <2>1, <2>3, <2>4
  <2>5. CASE took = TRUE /\ s.op # "send"
    <3>1. \A v : Times(queue, v) \in Nat
      BY <1>1, QueueTimes
    <3>2. Executed(s, FALSE)
      BY <2>1, <2>3, <2>5, <3>1 DEF Executed
    <3> QED BY <1>5, <2>5, <3>2
  <2>6. CASE took = TRUE /\ s.op = "send"
    BY <1>1, <2>1, <2>6 DEF Promised
  <2> QED BY <2>4, <2>5, <2>6
<1>11. CASE GiveUp(i)
  <2>1. table' = table /\ queue' = RemoveAt(queue, i) /\ (clean' => s.op \in {"read", "purge"})
    BY <1>11 DEF GiveUp
  <2>2. CASE s.op \in {"read", "purge"}
    <3>1. \A v : Times(queue', v) = Times(queue, v) - Of(s, v) /\ Times(queue, v) \in Nat
      BY <1>1, <1>6, <2>1, QueueTimes
    <3>2. (\A l : s # Post(l)) /\ \A id : s # Erase(id)
      <4>1. s.op # "send" /\ s.op # "remove"
        BY <2>2
      <4> QED BY <4>1, Different
    <3>3. /\ \A l : Times(queue', Post(l)) = Times(queue, Post(l))
          /\ \A id : Times(queue', Erase(id)) = Times(queue, Erase(id))
      BY <3>1, <3>2 DEF Of
    <3> QED BY <1>8, <2>1, <3>3
  <2>3. CASE ~(s.op \in {"read", "purge"})
    BY <1>1, <2>1, <2>3 DEF Promised
  <2> QED BY <2>2, <2>3
<1> QED BY <1>9, <1>10, <1>11

\* Nothing of the trade is different.
LEMMA Stutters ==
  ASSUME Mailbox, UNCHANGED <<acct, slots, house, table, queue>>, clean' => clean
  PROVE  Promised
<1>1. Mailbox'
  BY DEF Mailbox
<1>2. LettersBag' = LettersBag
  BY DEF LettersBag, Rows, Sent, Deleted, Pending, BagOf
<1> QED BY <1>1, <1>2, SameOffers DEF Promised, Trades, Purse, Goods

LEMMA LogInPromised ==
  ASSUME Inv2, Types', NEW a \in Accounts, LogIn(a)
  PROVE  Promised
<1>1. Types /\ Database /\ Mailbox /\ UNCHANGED <<slots, house, table, queue>>
  BY DEF Inv2, IInv, LogIn
<1>2. CASE clean'
  <2>1. acct' = acct /\ clean
    BY <1>1, <1>2, LoadedAsLeft
  <2> QED BY <1>1, <2>1, Stutters
<1>3. CASE ~clean'
  <2>1. Mailbox'
    BY <1>1 DEF Mailbox
  <2> QED BY <1>3, <2>1 DEF Promised
<1> QED BY <1>2, <1>3

\* In whatever order the slots are, they are the same offers.
SlotsCounted == \A o : Times(Offers, o) = Cardinality({slot \in ToSet(slots) : OfferOf(slot) = o})

LEMMA SlotsAre == Types /\ Once(slots) => SlotsCounted
<1> SUFFICES ASSUME Types, Once(slots), NEW o
             PROVE  Times(Offers, o) = Cardinality({slot \in ToSet(slots) : OfferOf(slot) = o})
  BY DEF SlotsCounted
<1> DEFINE P == {i \in DOMAIN Offers : Offers[i] = o}
           Q == {slot \in ToSet(slots) : OfferOf(slot) = o}
           f == [i \in P |-> slots[i]]
<1>1. slots \in Seq(Slots) /\ DOMAIN slots = 1..Len(slots) /\ DOMAIN Offers = 1..Len(slots) /\ Len(slots) \in Nat
      /\ \A i \in 1..Len(slots) : Offers[i] = OfferOf(slots[i])
  BY DEF Types, TypeOK, Offers, OfferOf
<1>2. IsFiniteSet(P)
  <2>1. IsFiniteSet(1..Len(slots))
    BY <1>1, FS_Interval
  <2> QED BY <1>1, <2>1, FS_Subset
<1>3. f \in Bijection(P, Q)
  <2>1. \A i \in P : i \in 1..Len(slots) /\ slots[i] \in Q /\ f[i] = slots[i]
    BY <1>1 DEF ToSet
  <2>2. f \in [P -> Q] /\ \A t \in Q : \E i \in P : f[i] = t
    <3>1. ASSUME NEW t \in Q PROVE \E i \in P : f[i] = t
      <4>1. PICK i \in 1..Len(slots) : slots[i] = t
        BY <1>1 DEF ToSet
      <4> QED BY <1>1, <4>1
    <3> HIDE DEF P, Q
    <3> QED BY <2>1, <3>1
  <2>3. \A i, j \in P : f[i] = f[j] => i = j
    BY <2>1 DEF Once
  <2> HIDE DEF f, P, Q
  <2> QED BY <2>2, <2>3 DEF Bijection, Injection, Surjection, IsInjective
<1>4. Times(Offers, o) = Cardinality(P)
  BY DEF Times
<1> HIDE DEF f, P, Q
<1>5. Cardinality(P) = Cardinality(Q)
  BY <1>2, <1>3, FS_Bijection DEF ExistsBijection
<1> QED BY <1>4, <1>5 DEF Q

LEMMA NextSlotsAre == Types' /\ Once(slots)' => SlotsCounted'
BY SlotsAre, PTL

LEMMA RestartPromised ==
  ASSUME Inv2, Types', Restart
  PROVE  Promised
<1>1. /\ Types /\ Database /\ SlotsApart /\ Mailbox /\ queue' = <<>> /\ UNCHANGED <<acct, table>>
      /\ house' = table.house
  BY DEF Inv2, IInv, Restart
<1>2. \A v : Times(queue', v) = 0
  BY <1>1, TimesShort
<1>3. Mailbox'
  BY <1>1, <1>2 DEF Mailbox
<1>4. ASSUME clean' PROVE Trades /\ clean
  <2>1. clean /\ house' = house /\ ToSet(slots') = ToSet(slots) /\ Once(slots')
    BY <1>1, <1>4, NothingLost, RestartLoads
  <2>2. Once(slots)
    BY <1>1, <2>1 DEF SlotsApart, Once
  <2>3. BagOf(Offers)' = BagOf(Offers)
    <3>1. SlotsCounted /\ SlotsCounted' /\ OffersCounted /\ OffersCounted'
      BY <1>1, <2>1, <2>2, SlotsAre, NextSlotsAre, OffersAre, NextOffersAre
    <3>2. ASSUME NEW o PROVE Often(BagOf(Offers)', o) = Often(BagOf(Offers), o)
      <4>1. /\ Times(Offers, o) = Cardinality({slot \in ToSet(slots) : OfferOf(slot) = o})
            /\ Times(Offers', o) = Cardinality({slot \in ToSet(slots') : OfferOf(slot) = o})
        BY <3>1 DEF SlotsCounted
      <4> QED BY <2>1, <3>1, <4>1 DEF OffersCounted
    <3> QED BY <3>1, <3>2, SameBag DEF OffersCounted
  <2>4. LettersBag' = LettersBag
    <3>1. ASSUME NEW v, v.op \in {"send", "remove"} PROVE Times(queue', v) = Times(queue, v)
      <4>1. \A i \in 1..Len(queue) : queue[i].op \in {"read", "purge"}
        BY <1>4 DEF Restart
      <4>2. \A i \in 1..Len(queue) : queue[i] # v
        BY <3>1, <4>1
      <4> QED BY <1>1, <1>2, <4>2, QueueTimes
    <3>2. (\A l : Post(l).op = "send") /\ \A id : Erase(id).op = "remove"
      BY DEF Post, Erase, Statement
    <3>3. ASSUME NEW l PROVE Letters(l)' = Letters(l)
      <4>1. /\ \A id : Times(queue', Erase(id)) = Times(queue, Erase(id))
            /\ Times(queue', Post(l)) = Times(queue, Post(l))
        BY <3>1, <3>2
      <4> QED BY <1>1, <4>1 DEF Letters, RowIds
    <3> QED BY <1>1, <1>3, <3>3, SameLetters
  <2> QED BY <1>1, <2>1, <2>3, <2>4 DEF Trades, Purse, Goods
<1> QED BY <1>3, <1>4 DEF Promised

-----------------------------------------------------------------------------
(* The refinement *)

LEMMA CommandPromised ==
  ASSUME Inv2, Types', NEW a \in Accounts, Command(a)
  PROVE  Promised
<1>1. ASSUME NEW price \in Prices, CreateSlot(a, price) PROVE Promised
  BY <1>1, CreateSlotPromised
<1>2. ASSUME NEW id \in Ids, CancelSlot(a, id) PROVE Promised
  BY <1>2, CancelSlotPromised
<1>3. ASSUME NEW id \in Ids, BuySlot(a, id) PROVE Promised
  BY <1>3, BuySlotPromised
<1>4. ASSUME NEW m \in table.mail, NEW capacity \in Capacities, AcceptMail(a, m, capacity) PROVE Promised
  BY <1>4, AcceptMailPromised
<1>5. CASE ReadOrDelete(a)
  BY <1>5, ReadOrDeletePromised
<1>6. ASSUME NEW v \in Amounts, BankDeposit(a, v) PROVE Promised
  BY <1>6, BankDepositPromised
<1>7. CASE Buy(a)
  BY <1>7, BuyPromised
<1>8. ASSUME NEW v \in Amounts, SafeAdd(a, v) PROVE Promised
  BY <1>8, SafeAddPromised
<1>9. ASSUME NEW v \in Amounts, NEW capacity \in Capacities, SafeTake(a, v, capacity) PROVE Promised
  BY <1>9, SafeTakePromised
<1>10. ASSUME NEW v \in Amounts, ExtendRentDays(a, v) PROVE Promised
  BY <1>10, ExtendRentDaysPromised
<1>11. ASSUME NEW capacity \in Capacities, UpdateEquippedStats(a, capacity) PROVE Promised
  BY <1>11, UpdateEquippedStatsPromised
<1> QED BY <1>1, <1>2, <1>3, <1>4, <1>5, <1>6, <1>7, <1>8, <1>9, <1>10, <1>11 DEF Command

LEMMA NextPromised ==
  ASSUME Inv2, Types', [Next]_vars
  PROVE  Promised
<1>1. ASSUME NEW i \in 1..Len(queue), Execute(i) \/ Retry(i) \/ GiveUp(i) PROVE Promised
  BY <1>1, PoolPromised
<1>2. ASSUME NEW a \in online, Command(a) \/ Leave(a) PROVE Promised
  <2>1. a \in Accounts
    BY DEF Inv2, IInv, Types, TypeOK
  <2>2. CASE Leave(a)
    BY <2>2, Stutters DEF Inv2, Leave
  <2> QED BY <1>2, <2>1, <2>2, CommandPromised
<1>3. ASSUME NEW a \in Accounts, LogIn(a) PROVE Promised
  BY <1>3, LogInPromised
<1>4. CASE Sell
  BY <1>4, SellPromised
<1>5. CASE Restart
  BY <1>5, RestartPromised
<1>6. CASE UNCHANGED vars
  BY <1>6, Stutters DEF Inv2, vars
<1> QED BY <1>1, <1>2, <1>3, <1>4, <1>5, <1>6 DEF Next

\* The letters stay apart, and what is promised of a step holds of every step.
LEMMA KeepsMailbox == Inv2 /\ [Next]_vars => Inv2' /\ Promised
<1> SUFFICES ASSUME Inv2, [Next]_vars PROVE Inv2' /\ Promised
  OBVIOUS
<1>1. IInv'
  BY Keeps DEF Inv2
<1>2. Promised
  BY <1>1, NextPromised DEF IInv
<1> QED BY <1>1, <1>2 DEF Inv2, Promised

\* Whatever a handler of the auction, the mailbox, the bank or the house, the pool,
\* a player who comes or goes, or a restart does is a step of the market or changes
\* nothing there, until the first of the causes Trade lists, failures of the database
\* and orders of steps that no code guards against, has ended the trust in it.
THEOREM StepRefines == Inv2 /\ [Next]_vars => [M!Next]_(M!vars)
<1> SUFFICES ASSUME Inv2, [Next]_vars PROVE [M!Next]_(M!vars)
  OBVIOUS
<1>1. Promised /\ clean \in BOOLEAN /\ clean' \in BOOLEAN
  BY KeepsMailbox DEF Inv2, IInv, Types, TypeOK
<1>2. CASE ~clean'
  BY <1>2 DEF M!Next
<1>3. CASE clean'
  <2>1. clean /\ clean' = clean /\ Trades
    BY <1>1, <1>3 DEF Promised
  <2>2. CASE M!Step
    BY <1>3, <2>1, <2>2 DEF M!Next
  <2>3. CASE UNCHANGED <<Purse, Goods, BagOf(Offers), LettersBag, house>>
    BY <2>1, <2>3 DEF M!vars, M!market, Purse, Goods, LettersBag
  <2> QED BY <2>1, <2>2, <2>3 DEF Trades
<1> QED BY <1>2, <1>3

LEMMA StartRefines == Init => Inv2 /\ M!Init
<1> SUFFICES ASSUME Init PROVE Inv2 /\ M!Init
  OBVIOUS
<1>1. PICK a \in Accounts :
        table = [acct |-> acct, slots |-> {}, house |-> house, next |-> 2,
                 mail |-> {[id |-> 1, letter |-> Letter(a, 1, 1), read |-> FALSE]}]
  BY DEF Init
<1>2. IInv /\ Types /\ slots = <<>> /\ queue = <<>> /\ clean = TRUE /\ house = [owner |-> Nobody, safe |-> 0]
  BY Start DEF Init, IInv
<1>3. Mailbox
  <2> DEFINE m == [id |-> 1, letter |-> Letter(a, 1, 1), read |-> FALSE]
  <2>1. table.mail = {m} /\ table.next = 2 /\ m.id = 1
    BY <1>1
  <2> HIDE DEF m
  <2>2. IsFiniteSet(table.mail)
    BY <2>1, FS_Singleton
  <2>3. Boxed(table)
    BY <2>1, <2>2 DEF Boxed
  <2> QED BY <1>2, <2>3, TimesShort DEF Mailbox
<1>4. /\ Purse \in [Accounts -> Nat] /\ Goods \in [Accounts -> 0..1]
  BY <1>2 DEF Types, TypeOK, Owned, Purse, Goods
<1>5. ASSUME NEW o \in M!BagToSet(BagOf(Offers)) PROVE o.owner \in Accounts
  <2>1. Len(slots) = 0
    BY <1>2
  <2>2. DOMAIN BagOf(Offers) = {}
    BY <2>1 DEF BagOf, Range, Offers
  <2> QED BY <2>2 DEF M!BagToSet
<1>6. ASSUME NEW l \in M!BagToSet(LettersBag) PROVE l.to \in Accounts
  <2>1. LettersCounted
    BY <1>2, <1>3, LettersAre
  <2>2. Letters(l) # 0
    BY <2>1 DEF LettersCounted, Counts, Often, M!BagToSet
  <2>3. Times(queue, Post(l)) = 0
    BY <1>2, TimesShort
  <2>4. RowIds(table.mail, queue, l) # {}
    BY <2>2, <2>3, FS_EmptySet DEF Letters
  <2>5. PICK m \in table.mail : m.letter = l
    BY <2>4 DEF RowIds
  <2>6. m \in Mails
    BY <1>2 DEF Types, Tables
  <2> QED BY <2>5, <2>6 DEF Mails, LetterSet
<1>7. house.owner \in Accounts \cup {Nobody} /\ house.safe \in Nat
  BY <1>2
<1>8. M!Init
  BY <1>2, <1>4, <1>5, <1>6, <1>7 DEF M!Init, Purse, Goods, LettersBag
<1> QED BY <1>2, <1>3, <1>8 DEF Inv2

\* Gold and goods change hands as the market promises: no slot of CAuctionManager is
\* sold twice or lost, AcceptMail pays a letter out once, no tax is taken for
\* nothing, and nothing is lost between hand, bank, safe, slot and letter, in any
\* order of commands, statements, players who leave and restarts, until the first
\* of the causes Trade lists: a letter claimed again before its DELETE is executed,
\* a slot with the ID of another, a statement that overtakes, is dropped, sends a
\* letter twice or dies with the process, an account loaded too early or in part.
THEOREM TradeImplementsMarket == Spec => ImplementsMarket
<1>1. Inv2 /\ [Next]_vars => Inv2'
  BY KeepsMailbox
<1> QED BY <1>1, StartRefines, StepRefines, PTL DEF Spec, ImplementsMarket, M!Spec

==============================================================================
