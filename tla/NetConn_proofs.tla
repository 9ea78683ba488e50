---------------------------- MODULE NetConn_proofs ----------------------------
(***************************************************************************)
(* Proofs about NetConn, for any number of sequence numbers, any size of the *)
(* resend buffer and any bounds: vital chunks arrive once and in order, and  *)
(* are kept until they have, in a session that no named cause has spoilt.    *)
(***************************************************************************)
EXTENDS NetConn, FiniteSetTheorems, WellFoundedInduction, TLAPS

Kinds == {"connect", "connectaccept", "accept", "close", "keepalive", "data"}
Packets == [kind : Kinds, ack : Seqs, resend : BOOLEAN, chunks : Seq(Chunk),
            ses : Sessions \cup {0}, n : Nat]
Constructs == [resend : BOOLEAN, chunks : Seq(Chunk)]
Conns == [state : {"offline", "connect", "online", "error"},
          seq : Seqs, ack : Seqs, peerAck : Seqs,
          buffer : Seq(Chunk), construct : Constructs, out : SUBSET Packets]

Types ==
  /\ conn \in [Ends -> Conns] /\ rest \in [Ends -> Seq(Chunk)]
  /\ net \in [Ends -> SUBSET Packets]
  /\ budget \in Budgets /\ session \in 0..budget.sessions /\ opened \in 0..session
  /\ mine \in [Ends -> 0..session] /\ mine["server"] <= opened
  /\ sent \in [Ends -> [Sessions -> Nat]] /\ got \in [Ends -> [Sessions -> Nat]]
  /\ unkept \in [Ends -> SUBSET Nat]

\* Nothing is left to send but what is on the way, which is not too much.
Room ==
  \A e \in Ends : /\ conn[e].out = {}
                  /\ Len(conn[e].buffer) <= BufferCap
                  /\ Len(conn[e].construct.chunks) <= budget.packet
                  /\ IsFiniteSet(net[e]) /\ Cardinality(net[e]) <= MaxFlight(e)

\* A session nobody was in yet has no chunks.
Fresh ==
  /\ \A e \in Ends : \A s \in Sessions : s > session => sent[e][s] = 0 /\ got[e][s] = 0
  /\ \A s \in Sessions : s > opened => sent["server"][s] = 0 /\ got["server"][s] = 0

Promised(s) == s # 0 /\ s \notin spoilt

\* Chunk k is one of the first n of session s.
Numbered(k, s, n) == k.ses = s /\ k.id <= n /\ k.seq = k.id % MaxSeq

\* Chunks in the order in which they go into one packet: none is a window behind
\* an earlier one.
Line(q, s, n) ==
  /\ \A i \in 1..Len(q) : Numbered(q[i], s, n)
  /\ \A i \in 1..Len(q) : \A j \in i..Len(q) : q[i].id - q[j].id < MaxSeq - 1

\* What an end keeps: in order, and less than a window behind what it sent when
\* it can come after that in one packet.
Buffered(q, s, n) ==
  /\ \A i \in 1..Len(q) : Numbered(q[i], s, n)
  /\ \A i \in 1..Len(q) : \A j \in 1..Len(q) : i < j => q[i].id < q[j].id
  /\ budget.packet > 1 => \A i \in 1..Len(q) : n - q[i].id < MaxSeq - 1

\* A packet that end e has sent.
Genuine(e, p) ==
  /\ p.ses <= session
  /\ p.kind # "data" => p.chunks = <<>> /\ ~p.resend
  /\ p.kind = "connectaccept" => p.ses = 0
  /\ p.ses = 0 => p.kind = "connectaccept" /\ p.ack = 0 /\ p.n = 0
  /\ Promised(p.ses) => /\ p.n <= got[e][p.ses] /\ p.ack = p.n % MaxSeq
                        /\ Line(p.chunks, p.ses, sent[e][p.ses])

OnTheWay == \A e \in Ends : \A p \in net[e] : Genuine(Peer(e), p)

Ahead == \A e \in Ends : \A s \in Sessions : Promised(s) => sent[e][s] - got[Peer(e)][s] <= MaxSeq

\* An end is in a session unless it is offline. After it has closed a connection
\* in the middle of a packet nothing is promised for what it still fetches.
InSession(e) == /\ conn[e].state = "offline" <=> mine[e] = 0
                /\ mine[e] = 0 /\ rest[e] # <<>> => 0 \in spoilt

\* The numbers of a connection say what its end has got and, n, sent in session
\* s, modulo MaxSeq.
Right(e, c, s, n) ==
  /\ c.ack = got[e][s] % MaxSeq /\ c.seq = n % MaxSeq
  /\ Buffered(c.buffer, s, n) /\ Line(c.construct.chunks, s, n)

Numbers(e) == LET s == mine[e] IN Promised(s) => Right(e, conn[e], s, sent[e][s])

\* Chunks that an end works on are of its session, and not a window old.
InTime(e, q, s) == /\ Line(q, s, sent[Peer(e)][s])
                   /\ \A i \in 1..Len(q) : got[e][s] - q[i].id < MaxSeq - 1

Fetching(e) == LET s == mine[e] IN Promised(s) => InTime(e, rest[e], s)

Kept(e) ==
  LET s == mine[e] IN Promised(s) =>
    \A n \in (got[Peer(e)][s] + 1)..sent[e][s] :
      n \in unkept[e] \/ \E i \in 1..Len(conn[e].buffer) : conn[e].buffer[i].id = n

EndInv(e) == InSession(e) /\ Numbers(e) /\ Fetching(e) /\ Kept(e)

IInv == /\ Types /\ Room /\ Fresh /\ OnTheWay /\ Ahead /\ InOrderOnce
        /\ \A e \in Ends : EndInv(e)

-----------------------------------------------------------------------------
(* Numbers *)

\* A set of natural numbers that is not empty has a minimum.
LEMMA Least ==
  ASSUME NEW S \in SUBSET Nat, S # {}
  PROVE  Min(S) \in S /\ \A y \in S : Min(S) <= y
<1> DEFINE U == {0..m : m \in S}
<1>1. U \subseteq FiniteSubsetsOf(Nat)
  <2>1. ASSUME NEW m \in S PROVE 0..m \in SUBSET Nat /\ IsFiniteSet(0..m)
    BY FS_Interval
  <2> QED BY <2>1 DEF FiniteSubsetsOf
<1>2. \E x \in U : \A y \in U : ~ (<<y, x>> \in StrictSubsetOrdering(Nat))
  <2>1. U # {}
    OBVIOUS
  <2> QED BY <1>1, <2>1, WFMin, FS_StrictSubsetOrderingWellFounded
<1>3. PICK x \in S : \A y \in S : ~ (<<0..y, 0..x>> \in StrictSubsetOrdering(Nat))
  BY <1>2
<1>4. ASSUME NEW y \in S, y < x PROVE FALSE
  <2>1. 0..y \subseteq 0..x /\ x \in 0..x /\ x \notin 0..y
    BY <1>4
  <2>2. 0..y \in SUBSET Nat /\ 0..x \in SUBSET Nat
    OBVIOUS
  <2>3. <<0..y, 0..x>> \in StrictSubsetOrdering(Nat)
    BY <2>1, <2>2 DEF StrictSubsetOrdering
  <2> QED BY <1>3, <2>3
<1>5. ASSUME NEW y \in S PROVE x <= y
  <2>1. x \in Nat /\ y \in Nat
    OBVIOUS
  <2> QED BY <1>4, <2>1
<1> QED BY <1>5 DEF Min

\* A finite one has a maximum.
LEMMA Greatest ==
  ASSUME NEW S \in SUBSET Nat, S # {}, IsFiniteSet(S)
  PROVE  Max(S) \in S /\ \A y \in S : Max(S) >= y
<1> DEFINE Above(m) == {z \in S : z >= m}
           U == {Above(m) : m \in S}
<1>1. U \subseteq FiniteSubsetsOf(S)
  BY FS_Subset DEF FiniteSubsetsOf
<1>2. \E x \in U : \A y \in U : ~ (<<y, x>> \in StrictSubsetOrdering(S))
  <2>1. U # {}
    OBVIOUS
  <2> QED BY <1>1, <2>1, WFMin, FS_StrictSubsetOrderingWellFounded
<1>3. PICK x \in S : \A y \in S : ~ (<<Above(y), Above(x)>> \in StrictSubsetOrdering(S))
  BY <1>2
<1>4. ASSUME NEW y \in S, y > x PROVE FALSE
  <2>1. x \in Nat /\ y \in Nat
    OBVIOUS
  <2>2. \A z \in S : z \in Nat /\ (z >= y => z >= x)
    BY <1>4, <2>1
  <2>3. Above(y) \subseteq Above(x) /\ x \in Above(x) /\ x \notin Above(y)
    <3>1. Above(y) \subseteq Above(x)
      BY <2>2
    <3>2. x >= x /\ ~(x >= y)
      BY <1>4, <2>1
    <3> QED BY <3>1, <3>2
  <2>4. Above(y) \in SUBSET S /\ Above(x) \in SUBSET S
    OBVIOUS
  <2>5. <<Above(y), Above(x)>> \in StrictSubsetOrdering(S)
    BY <2>3, <2>4 DEF StrictSubsetOrdering
  <2> QED BY <1>3, <2>5
<1>5. \A y \in S : x >= y
  BY <1>4
<1>6. \E z \in S : \A y \in S : z >= y
  BY <1>5
<1> QED BY <1>6 DEF Max

\* Induction.
LEMMA AllNat ==
  ASSUME NEW P \in SUBSET Nat, 0 \in P, \A n \in P : n + 1 \in P
  PROVE  P = Nat
<1>1. ASSUME Nat \ P # {} PROVE FALSE
  <2>1. /\ Min(Nat \ P) \in Nat \ P
        /\ \A y \in Nat \ P : Min(Nat \ P) <= y
    BY <1>1, Least
  <2>2. PICK m \in Nat \ P : \A y \in Nat \ P : m <= y
    BY <2>1
  <2>3. m # 0 /\ m - 1 \in Nat
    BY <2>2
  <2>4. m - 1 \in P
    BY <2>2, <2>3
  <2> QED BY <2>2, <2>3, <2>4
<1> QED BY <1>1

-----------------------------------------------------------------------------
(* Resend, chunk by chunk *)

\* Resend keeps a connection in a set when repeating a chunk does.
LEMMA ResendKeeps ==
  ASSUME NEW e, NEW D, NEW c \in D, c.buffer \in Seq(Chunk),
         \A d \in D : \A i \in 1..Len(c.buffer) : ResendChunk(e, d, c.buffer[i]) \in D
  PROVE  Resend(e, c) \in D
<1> DEFINE b == c.buffer
           I == 1..Len(b)
           Level(n) == {s \in SUBSET I : Cardinality(s) <= n}
           Then(f, s) == IF s = {} THEN c ELSE ResendChunk(e, f[s \ {Max(s)}], b[Max(s)])
           Have(n) == \E f \in [Level(n) -> D] : \A s \in Level(n) : f[s] = Then(f, s)
           fold == CHOOSE f : f = [s \in SUBSET I |-> Then(f, s)]
<1>1. Len(b) \in Nat /\ DOMAIN b = I /\ IsFiniteSet(I) /\ Cardinality(I) = Len(b)
  BY FS_Interval
<1>2. ASSUME NEW s \in SUBSET I
      PROVE  /\ Cardinality(s) \in Nat /\ Cardinality(s) <= Len(b)
             /\ s # {} => /\ Max(s) \in I
                          /\ s \ {Max(s)} \in SUBSET I
                          /\ Cardinality(s) # 0 /\ Cardinality(s \ {Max(s)}) = Cardinality(s) - 1
  <2>1. IsFiniteSet(s) /\ Cardinality(s) \in Nat /\ Cardinality(s) <= Len(b)
    BY <1>1, FS_Subset, FS_CardinalityType
  <2>2. ASSUME s # {} PROVE Max(s) \in s
    BY <2>1, <2>2, Greatest
  <2>3. ASSUME s # {} PROVE Cardinality(s) # 0 /\ Cardinality(s \ {Max(s)}) = Cardinality(s) - 1
    BY <2>1, <2>2, <2>3, FS_EmptySet, FS_RemoveElement
  <2> QED BY <2>1, <2>2, <2>3
<1>3. /\ {} \in Level(0) /\ \A s \in Level(0) : s = {}
      /\ Level(Len(b)) = SUBSET I /\ I \in SUBSET I
  <2>1. ASSUME NEW s \in Level(0) PROVE s = {}
    <3>1. s \in SUBSET I /\ Cardinality(s) <= 0
      OBVIOUS
    <3>2. Cardinality(s) \in Nat /\ (s # {} => Cardinality(s) # 0)
      BY <1>2, <3>1
    <3> QED BY <3>1, <3>2
  <2>2. ASSUME NEW s \in SUBSET I PROVE s \in Level(Len(b))
    BY <1>2
  <2> QED BY <2>1, <2>2, FS_EmptySet
<1>4. ASSUME NEW n \in Nat
      PROVE  /\ Level(n) \subseteq Level(n + 1) /\ Level(n) \subseteq SUBSET I
             /\ \A s \in Level(n + 1) : s # {} => s \ {Max(s)} \in Level(n) /\ Max(s) \in I
  <2>1. ASSUME NEW s \in Level(n) PROVE s \in Level(n + 1)
    <3>1. s \in SUBSET I /\ Cardinality(s) <= n
      OBVIOUS
    <3>2. Cardinality(s) \in Nat
      BY <1>2, <3>1
    <3>3. Cardinality(s) <= n + 1
      BY <3>1, <3>2
    <3> QED BY <3>1, <3>3
  <2>2. ASSUME NEW s \in Level(n + 1), s # {} PROVE s \ {Max(s)} \in Level(n) /\ Max(s) \in I
    <3>1. s \in SUBSET I /\ Cardinality(s) <= n + 1
      OBVIOUS
    <3>2. /\ Cardinality(s) \in Nat /\ Max(s) \in I /\ s \ {Max(s)} \in SUBSET I
          /\ Cardinality(s \ {Max(s)}) = Cardinality(s) - 1
      BY <1>2, <2>2, <3>1
    <3> QED BY <3>1, <3>2
  <2> QED BY <2>1, <2>2
<1> HIDE DEF Level
<1>5. Have(0)
  <2>1. [s \in Level(0) |-> c] \in [Level(0) -> D]
    OBVIOUS
  <2> QED BY <1>3, <2>1
<1>6. ASSUME NEW n \in Nat, Have(n) PROVE Have(n + 1)
  <2>1. PICK f \in [Level(n) -> D] : \A s \in Level(n) : f[s] = Then(f, s)
    BY <1>6
  <2> DEFINE g == [s \in Level(n + 1) |-> Then(f, s)]
  <2>2. ASSUME NEW s \in Level(n + 1) PROVE Then(f, s) \in D
    BY <1>4
  <2>3. ASSUME NEW s \in Level(n) PROVE g[s] = f[s]
    <3>1. s \in Level(n + 1)
      BY <1>4
    <3> QED BY <2>1, <3>1
  <2>4. ASSUME NEW s \in Level(n + 1) PROVE g[s] = Then(g, s)
    <3>1. CASE s = {}
      BY <3>1
    <3>2. CASE s # {}
      <4>1. s \ {Max(s)} \in Level(n)
        BY <1>4, <3>2
      <4>2. g[s \ {Max(s)}] = f[s \ {Max(s)}]
        BY <2>3, <4>1
      <4>3. g[s] = Then(f, s)
        OBVIOUS
      <4> HIDE DEF g
      <4> QED BY <3>2, <4>2, <4>3
    <3> QED BY <3>1, <3>2
  <2>5. g \in [Level(n + 1) -> D]
    BY <2>2
  <2> QED BY <2>4, <2>5
<1>7. Have(Len(b))
  <2> HIDE DEF Have
  <2> DEFINE P == {n \in Nat : Have(n)}
  <2>1. 0 \in P /\ \A n \in P : n + 1 \in P
    BY <1>5, <1>6
  <2>2. P = Nat
    <3> HIDE DEF P
    <3>1. P \in SUBSET Nat
      BY DEF P
    <3> QED BY <2>1, <3>1, AllNat
  <2> QED BY <1>1, <2>2
<1>8. fold = [s \in SUBSET I |-> Then(fold, s)]
  <2>1. PICK f \in [Level(Len(b)) -> D] : \A s \in Level(Len(b)) : f[s] = Then(f, s)
    BY <1>7
  <2>2. f = [s \in SUBSET I |-> Then(f, s)]
    BY <1>3, <2>1
  <2> QED BY <2>2
<1> HIDE DEF fold
<1>9. fold[I] \in D
  <2> DEFINE P == {n \in Nat : \A s \in Level(n) : fold[s] \in D}
  <2>1. 0 \in P
    <3>1. fold[{}] = c
      BY <1>8
    <3> QED BY <1>3, <3>1
  <2>2. ASSUME NEW n \in P PROVE n + 1 \in P
    <3>1. ASSUME NEW s \in Level(n + 1) PROVE fold[s] \in D
      <4>1. s \in SUBSET I
        <5>1. n + 1 \in Nat
          OBVIOUS
        <5> QED BY <1>4, <5>1
      <4>2. fold[s] = Then(fold, s)
        BY <1>8, <4>1
      <4>3. s # {} => s \ {Max(s)} \in Level(n) /\ Max(s) \in I
        BY <1>4
      <4>4. s # {} => fold[s \ {Max(s)}] \in D
        BY <4>3
      <4> QED BY <4>2, <4>3, <4>4
    <3> QED BY <3>1
  <2>3. P = Nat
    <3> HIDE DEF P
    <3>1. P \in SUBSET Nat
      BY DEF P
    <3> QED BY <2>1, <2>2, <3>1, AllNat
  <2> QED BY <1>1, <1>3, <2>3
<1>10. Resend(e, c) = fold[I]
  BY <1>1 DEF Resend, FoldLeft, MapThenFoldSet, fold
<1> QED BY <1>9, <1>10

-----------------------------------------------------------------------------
(* Sequence numbers *)

\* How often a number has come round.
LEMMA Round ==
  ASSUME NEW n \in Nat
  PROVE  n % MaxSeq \in Seqs /\ \E q \in Int : n = MaxSeq * q + (n % MaxSeq)
<1>1. MaxSeq \in Nat /\ MaxSeq > 0
  BY SequenceAssumption
<1>2. n % MaxSeq \in 0..(MaxSeq - 1)
  BY <1>1
<1>3. n \div MaxSeq \in Int /\ n = MaxSeq * (n \div MaxSeq) + (n % MaxSeq)
  BY <1>1
<1> QED BY <1>2, <1>3 DEF Seqs

\* A number of whole windows.
Whole(t) == \/ t \in {0, MaxSeq, 0 - MaxSeq}
            \/ t >= 2 * MaxSeq
            \/ t <= 0 - 2 * MaxSeq

LEMMA Multiples ==
  ASSUME NEW d \in Int
  PROVE  MaxSeq * d \in Int /\ Whole(MaxSeq * d)
<1> DEFINE m == MaxSeq
<1>0. m \in Nat
  BY SequenceAssumption
<1> HIDE DEF m
<1>1. m * d \in Int /\ (m * d \in {0, m, 0 - m} \/ m * d >= 2 * m \/ m * d <= 0 - 2 * m)
  <2>1. CASE d \in {0, 1, 0 - 1}
    BY <1>0, <2>1
  <2>2. CASE d >= 2
    <3>1. m * d >= m * 2
      BY <1>0, <2>2
    <3> QED BY <1>0, <3>1
  <2>3. CASE d <= 0 - 2
    <3>1. m * (0 - d) >= m * 2
      BY <1>0, <2>3
    <3>2. m * (0 - d) = 0 - m * d
      BY <1>0
    <3> QED BY <1>0, <3>1, <3>2
  <2> QED BY <2>1, <2>2, <2>3
<1> QED BY <1>1 DEF m, Whole

\* Numbers differ as their residues do, up to windows.
LEMMA Windows ==
  ASSUME NEW a \in Nat, NEW b \in Nat
  PROVE  /\ a % MaxSeq \in 0..(MaxSeq - 1) /\ b % MaxSeq \in 0..(MaxSeq - 1)
         /\ MaxSeq \in Nat /\ MaxSeq >= 3
         /\ \E t \in Int : Whole(t) /\ a - b = t + (a % MaxSeq) - (b % MaxSeq)
<1>1. PICK p \in Int : a = MaxSeq * p + (a % MaxSeq)
  BY Round
<1>2. PICK q \in Int : b = MaxSeq * q + (b % MaxSeq)
  BY Round
<1>3. a % MaxSeq \in 0..(MaxSeq - 1) /\ b % MaxSeq \in 0..(MaxSeq - 1)
  BY Round DEF Seqs
<1>4. MaxSeq \in Nat /\ MaxSeq >= 3
  BY SequenceAssumption
<1>5. MaxSeq * (p - q) \in Int /\ Whole(MaxSeq * (p - q))
  BY Multiples
<1>6. a - b = MaxSeq * (p - q) + (a % MaxSeq) - (b % MaxSeq)
  <2>1. MaxSeq * (p - q) = MaxSeq * p - MaxSeq * q
    BY <1>4
  <2>2. MaxSeq * p \in Int /\ MaxSeq * q \in Int /\ a % MaxSeq \in Int /\ b % MaxSeq \in Int
    BY <1>3, <1>4
  <2> DEFINE x == MaxSeq * p
             y == MaxSeq * q
             u == a % MaxSeq
             v == b % MaxSeq
             w == MaxSeq * (p - q)
  <2>3. w = x - y /\ x \in Int /\ y \in Int /\ u \in Int /\ v \in Int /\ a = x + u /\ b = y + v
    BY <1>1, <1>2, <2>1, <2>2
  <2> HIDE DEF x, y, u, v, w
  <2>4. a - b = w + u - v
    BY <2>3
  <2> QED BY <2>4 DEF u, v, w
<1> QED BY <1>3, <1>4, <1>5, <1>6

\* Less than a window apart, equal numbers tell equal chunks.
LEMMA SameNumber ==
  ASSUME NEW a \in Nat, NEW b \in Nat, a % MaxSeq = b % MaxSeq,
         a - b < MaxSeq, b - a < MaxSeq
  PROVE  a = b
<1> DEFINE r == a % MaxSeq
           s == b % MaxSeq
<1>1. r = s /\ r \in Int /\ s \in Int /\ MaxSeq \in Nat /\ MaxSeq >= 3
  BY Windows
<1>2. PICK t \in Int : Whole(t) /\ a - b = t + r - s
  BY Windows
<1> HIDE DEF r, s
<1> QED BY <1>1, <1>2 DEF Whole

\* The next number.
LEMMA NextNumber ==
  ASSUME NEW n \in Nat
  PROVE  ((n % MaxSeq) + 1) % MaxSeq = (n + 1) % MaxSeq
<1> DEFINE a == n % MaxSeq
           b == (n + 1) % MaxSeq
<1>1. n + 1 \in Nat
  OBVIOUS
<1>2. a \in 0..(MaxSeq - 1) /\ b \in 0..(MaxSeq - 1) /\ MaxSeq \in Nat /\ MaxSeq >= 3
  BY <1>1, Windows
<1>3. PICK t \in Int : Whole(t) /\ n + 1 - n = t + b - a
  BY <1>1, Windows
<1> HIDE DEF a, b
<1>4. a + 1 = b \/ (a + 1 = MaxSeq /\ b = 0)
  <2>1. a \in Int /\ b \in Int /\ 0 <= a /\ a < MaxSeq /\ 0 <= b /\ b < MaxSeq /\ MaxSeq \in Int
    BY <1>2
  <2>2. a + 1 = t + b
    BY <1>3, <2>1
  <2>3. CASE t = 0
    BY <2>1, <2>2, <2>3
  <2>4. CASE t = MaxSeq
    BY <2>1, <2>2, <2>4
  <2>5. t = 0 \/ t = MaxSeq
    BY <1>2, <1>3, <2>1, <2>2 DEF Whole
  <2> QED BY <2>3, <2>4, <2>5
<1>5. \A x \in 0..(MaxSeq - 1) : x % MaxSeq = x
  BY <1>2
<1>6. MaxSeq % MaxSeq = 0
  BY <1>2
<1>7. (a + 1) % MaxSeq = b
  BY <1>2, <1>4, <1>5, <1>6
<1> QED BY <1>7 DEF a, b

\* What is ahead by less than half a window is not taken for old.
LEMMA NotOld ==
  ASSUME NEW b \in Nat, NEW n \in Nat, n < b, 2 * (b - n) < MaxSeq
  PROVE  ~IsSeqInBackroom(b % MaxSeq, n % MaxSeq)
<1> DEFINE s == b % MaxSeq
           a == n % MaxSeq
           h == MaxSeq \div 2
<1>1. s \in 0..(MaxSeq - 1) /\ a \in 0..(MaxSeq - 1) /\ MaxSeq \in Nat /\ MaxSeq >= 3
  BY Windows
<1>2. PICK t \in Int : Whole(t) /\ b - n = t + s - a
  BY Windows
<1>3. h \in Int /\ 2 * h <= MaxSeq /\ MaxSeq <= 2 * h + 1
  BY <1>1
<1>4. IsSeqInBackroom(s, a) <=> IF a - h < 0 THEN s <= a \/ s >= a - h + MaxSeq
                                ELSE s <= a /\ s >= a - h
  BY DEF IsSeqInBackroom
<1> HIDE DEF s, a, h
<1>5. ~(IF a - h < 0 THEN s <= a \/ s >= a - h + MaxSeq ELSE s <= a /\ s >= a - h)
  BY <1>1, <1>2, <1>3 DEF Whole
<1>6. ~IsSeqInBackroom(s, a)
  BY <1>4, <1>5
<1> QED BY <1>6 DEF s, a

-----------------------------------------------------------------------------
(* What an end does with its connection *)

\* A packet that end e sends in session s, of which it has sent n chunks; when
\* s is 0 nothing is promised.
Sent(e, p, s, n) ==
  /\ p.ses \in {0, mine[e]}
  /\ p.kind # "data" => p.chunks = <<>> /\ ~p.resend
  /\ p.kind = "connectaccept" => p.ses = 0
  /\ p.ses = 0 => p.kind = "connectaccept" /\ p.ack = 0 /\ p.n = 0
  /\ s # 0 /\ p.ses = s => p.n = got[e][s] /\ p.ack = p.n % MaxSeq /\ Line(p.chunks, s, n)

\* What the connection of end e is like between any two of its operations.
Fit(e, c, s, n) ==
  /\ c \in Conns /\ Len(c.buffer) <= BufferCap /\ Len(c.construct.chunks) <= budget.packet
  /\ IsFiniteSet(c.out) /\ \A p \in c.out : Sent(e, p, s, n)
  /\ s # 0 => Right(e, c, s, n)

\* End e is in a session; s is that session when it is promised, n a number of chunks.
Acts(e, s, n) ==
  /\ Types /\ e \in Ends /\ mine[e] # 0 /\ s \in {0, mine[e]} /\ n \in Nat

\* A connection is as it was but for what is to be sent.
Same(c, d) == /\ d.state = c.state /\ d.seq = c.seq /\ d.ack = c.ack
              /\ d.peerAck = c.peerAck /\ d.buffer = c.buffer

\* No bound has more sessions than there are in Sessions.
LEMMA SessionsReach ==
  ASSUME NEW b \in Budgets, NEW s \in 1..b.sessions
  PROVE  s \in Sessions
<1> DEFINE Above(m) == {x \in Budgets : x.sessions >= m.sessions}
           U == {Above(m) : m \in Budgets}
           S == {x.sessions : x \in Budgets}
<1>1. \A x \in Budgets : x.sessions \in Nat
  BY BoundsAssumption
<1>2. U \subseteq FiniteSubsetsOf(Budgets) /\ U # {}
  <2>1. IsFiniteSet(Budgets)
    BY BoundsAssumption
  <2>2. ASSUME NEW m \in Budgets PROVE Above(m) \in FiniteSubsetsOf(Budgets)
    <3>1. Above(m) \in SUBSET Budgets
      OBVIOUS
    <3> HIDE DEF Above
    <3> QED BY <2>1, <3>1, FS_Subset DEF FiniteSubsetsOf
  <2> QED BY <2>2
<1>3. PICK m \in Budgets : \A y \in Budgets : ~ (<<Above(y), Above(m)>> \in StrictSubsetOrdering(Budgets))
  <2>1. \E x \in U : \A y \in U : ~ (<<y, x>> \in StrictSubsetOrdering(Budgets))
    BY <1>2, WFMin, FS_StrictSubsetOrderingWellFounded
  <2> QED BY <2>1
<1>4. ASSUME NEW x \in Budgets, x.sessions > m.sessions PROVE FALSE
  <2>1. x.sessions \in Nat /\ m.sessions \in Nat
    BY <1>1
  <2>2. Above(x) \subseteq Above(m)
    <3>1. \A z \in Budgets : z.sessions \in Nat /\ (z.sessions >= x.sessions => z.sessions >= m.sessions)
      BY <1>1, <1>4, <2>1
    <3> QED BY <3>1
  <2>3. m \in Above(m) /\ m \notin Above(x)
    <3>1. m.sessions >= m.sessions /\ ~(m.sessions >= x.sessions)
      BY <1>4, <2>1
    <3> QED BY <3>1
  <2>4. Above(x) \in SUBSET Budgets /\ Above(m) \in SUBSET Budgets
    OBVIOUS
  <2>5. <<Above(x), Above(m)>> \in StrictSubsetOrdering(Budgets)
    BY <2>2, <2>3, <2>4 DEF StrictSubsetOrdering
  <2> QED BY <1>3, <2>5
<1>5. m.sessions \in S /\ \A y \in S : m.sessions >= y
  <2>1. ASSUME NEW x \in Budgets PROVE m.sessions >= x.sessions
    <3>1. x.sessions \in Nat /\ m.sessions \in Nat
      BY <1>1
    <3> QED BY <1>4, <3>1
  <2> QED BY <2>1
<1>6. b.sessions \in S /\ S \subseteq Nat
  BY <1>1
<1>7. Max(S) \in S /\ \A y \in S : Max(S) >= y
  <2> HIDE DEF S
  <2>1. \E z \in S : \A y \in S : z >= y
    BY <1>5
  <2> QED BY <2>1 DEF Max
<1>8. s \in 1..Max(S)
  <2> HIDE DEF S
  <2>1. Max(S) \in Nat /\ b.sessions \in Nat /\ Max(S) >= b.sessions
    BY <1>6, <1>7
  <2> QED BY <2>1
<1> QED BY <1>8 DEF S, Sessions

LEMMA TheSession ==
  ASSUME Types, NEW e \in Ends, mine[e] # 0
  PROVE  /\ mine[e] \in Sessions /\ mine[e] \in Nat /\ got[e][mine[e]] \in Nat /\ sent[e][mine[e]] \in Nat
         /\ Peer(e) \in Ends /\ Peer(e) # e /\ got[Peer(e)][mine[e]] \in Nat /\ sent[Peer(e)][mine[e]] \in Nat
<1>1. budget.sessions \in Nat
  BY BoundsAssumption DEF Types
<1>2. mine[e] \in 1..budget.sessions /\ mine[e] \in Nat
  BY <1>1 DEF Types
<1>3. mine[e] \in Sessions
  BY <1>2, SessionsReach DEF Types
<1>4. Peer(e) \in Ends /\ Peer(e) # e
  BY DEF Ends, Peer
<1> QED BY <1>2, <1>3, <1>4 DEF Types

LEMMA EmitFits ==
  ASSUME NEW e, NEW s, NEW n, Acts(e, s, n), NEW c, Fit(e, c, s, n),
         NEW kind \in Kinds \ {"connectaccept"}, NEW t \in Constructs,
         kind # "data" => t = EmptyConstruct, s # 0 => Line(t.chunks, s, n)
  PROVE  Fit(e, Emit(e, c, kind, t), s, n) /\ Same(c, Emit(e, c, kind, t))
         /\ Emit(e, c, kind, t).construct = c.construct
<1> DEFINE p == Packet(kind, c.ack, t.resend, t.chunks, mine[e], got[e][mine[e]])
           d == [c EXCEPT !.out = @ \cup {p}]
<1>1. mine[e] \in Sessions /\ mine[e] # 0 /\ got[e][mine[e]] \in Nat
  BY TheSession DEF Acts
<1>2. Emit(e, c, kind, t) = d
  BY <1>1 DEF Emit
<1>3. p \in Packets
  <2>1. c.ack \in Seqs /\ t.resend \in BOOLEAN /\ t.chunks \in Seq(Chunk)
    BY DEF Fit, Conns, Constructs
  <2> QED BY <1>1, <2>1 DEF Packet, Packets
<1>4. Sent(e, p, s, n)
  <2>1. /\ p.ses = mine[e] /\ p.kind = kind /\ p.chunks = t.chunks /\ p.ack = c.ack /\ p.n = got[e][mine[e]]
        /\ p.resend = t.resend
    BY DEF Packet
  <2>2. kind # "data" => p.chunks = <<>> /\ ~p.resend
    BY <2>1 DEF EmptyConstruct
  <2>3. s # 0 => s = mine[e] /\ c.ack = got[e][s] % MaxSeq
    BY DEF Fit, Right, Acts
  <2> HIDE DEF p
  <2> QED BY <1>1, <2>1, <2>2, <2>3 DEF Sent
<1>5. d \in Conns /\ d.out = c.out \cup {p} /\ Same(c, d) /\ d.construct = c.construct
  <2>1. c \in Conns
    BY DEF Fit
  <2> HIDE DEF p
  <2> QED BY <1>3, <2>1 DEF Conns, Same
<1>6. IsFiniteSet(d.out)
  BY <1>5, FS_AddElement DEF Fit
<1> HIDE DEF d, p
<1>7. Fit(e, d, s, n)
  BY <1>4, <1>5, <1>6 DEF Fit, Same, Right
<1> QED BY <1>2, <1>5, <1>7

LEMMA EmptyLine ==
  /\ EmptyConstruct \in Constructs /\ EmptyConstruct.chunks = <<>> /\ Len(<<>>) = 0
  /\ \A s, n : Line(<<>>, s, n) /\ Buffered(<<>>, s, n)
<1>1. EmptyConstruct \in Constructs /\ EmptyConstruct.chunks = <<>> /\ Len(<<>>) = 0
  BY DEF EmptyConstruct, Constructs
<1>2. \A s, n : Line(<<>>, s, n) /\ Buffered(<<>>, s, n)
  BY DEF Line, Buffered
<1> QED BY <1>1, <1>2

LEMMA LineAppend ==
  ASSUME NEW q \in Seq(Chunk), NEW k \in Chunk, NEW s, NEW n, Line(q, s, n), Numbered(k, s, n),
         \A i \in 1..Len(q) : q[i].id - k.id < MaxSeq - 1
  PROVE  Line(Append(q, k), s, n)
<1> DEFINE r == Append(q, k)
<1>1. /\ Len(r) = Len(q) + 1 /\ Len(q) \in Nat /\ r[Len(q) + 1] = k
      /\ \A i \in 1..Len(q) : r[i] = q[i]
  OBVIOUS
<1>2. k.id - k.id < MaxSeq - 1
  BY SequenceAssumption DEF Chunk
<1> HIDE DEF r
<1>3. \A i \in 1..Len(r) : Numbered(r[i], s, n)
  BY <1>1 DEF Line
<1>4. ASSUME NEW i \in 1..Len(r), NEW j \in i..Len(r) PROVE r[i].id - r[j].id < MaxSeq - 1
  <2>1. CASE j \in 1..Len(q)
    BY <1>1, <2>1 DEF Line
  <2>2. CASE j = Len(q) + 1 /\ i \in 1..Len(q)
    BY <1>1, <2>2
  <2>3. CASE j = Len(q) + 1 /\ i = Len(q) + 1
    BY <1>1, <1>2, <2>3
  <2> QED BY <1>1, <2>1, <2>2, <2>3
<1>5. Line(r, s, n)
  BY <1>3, <1>4 DEF Line
<1> QED BY <1>5 DEF r

LEMMA FlushFits ==
  ASSUME NEW e, NEW s, NEW n, Acts(e, s, n), NEW c, Fit(e, c, s, n)
  PROVE  /\ Fit(e, Flush(e, c), s, n) /\ Same(c, Flush(e, c))
         /\ Flush(e, c).construct = EmptyConstruct
<1>1. CASE c.construct = EmptyConstruct
  BY <1>1 DEF Flush, Same
<1>2. CASE c.construct # EmptyConstruct
  <2> DEFINE d == Emit(e, c, "data", c.construct)
             f == [d EXCEPT !.construct = EmptyConstruct]
  <2>1. Fit(e, d, s, n) /\ Same(c, d)
    <3>1. c.construct \in Constructs /\ (s # 0 => Line(c.construct.chunks, s, n))
      BY DEF Fit, Right, Conns
    <3>2. "data" \in Kinds \ {"connectaccept"}
      BY DEF Kinds
    <3> QED BY <3>1, <3>2, EmitFits
  <2>2. Flush(e, c) = f
    BY <1>2 DEF Flush
  <2> HIDE DEF d
  <2>3. f \in Conns /\ f.out = d.out /\ Same(d, f) /\ f.construct = EmptyConstruct
    BY <2>1, EmptyLine DEF Fit, Conns, Same
  <2> HIDE DEF f
  <2>4. Fit(e, f, s, n)
    <3>1. 0 <= budget.packet
      BY BoundsAssumption DEF Acts, Types
    <3> QED BY <2>1, <2>3, <3>1, EmptyLine DEF Fit, Right, Same
  <2>5. Same(c, f)
    BY <2>1, <2>3 DEF Same
  <2> QED BY <2>2, <2>3, <2>4, <2>5
<1> QED BY <1>1, <1>2

\* There is room for a chunk once Flush was called when there was none.
Roomy(e, c) == IF Len(c.construct.chunks) >= budget.packet THEN Flush(e, c) ELSE c

LEMMA RoomyFits ==
  ASSUME NEW e, NEW s, NEW n, Acts(e, s, n), NEW c, Fit(e, c, s, n)
  PROVE  /\ Fit(e, Roomy(e, c), s, n) /\ Same(c, Roomy(e, c))
         /\ Len(Roomy(e, c).construct.chunks) < budget.packet
<1>1. budget.packet \in Nat \ {0} /\ Len(c.construct.chunks) \in Nat
  BY BoundsAssumption DEF Acts, Types, Fit, Conns, Constructs
<1>2. CASE Len(c.construct.chunks) >= budget.packet
  BY <1>1, <1>2, FlushFits, EmptyLine DEF Roomy
<1>3. CASE ~(Len(c.construct.chunks) >= budget.packet)
  BY <1>1, <1>3 DEF Roomy, Same
<1> QED BY <1>2, <1>3

\* A chunk goes into the packet.
LEMMA AppendFits ==
  ASSUME NEW e, NEW s, NEW n, Acts(e, s, n), NEW f, Fit(e, f, s, n),
         Len(f.construct.chunks) < budget.packet, NEW k \in Chunk, NEW d,
         d = [f EXCEPT !.construct.chunks = Append(@, k)],
         s # 0 => Numbered(k, s, n) /\ (budget.packet > 1 => n - k.id < MaxSeq - 1)
  PROVE  Fit(e, d, s, n) /\ Same(f, d)
<1>1. /\ f \in Conns /\ f.construct \in Constructs /\ f.construct.chunks \in Seq(Chunk)
      /\ budget.packet \in Nat \ {0}
  BY BoundsAssumption DEF Acts, Types, Fit, Conns, Constructs
<1> DEFINE q == f.construct.chunks
           t == [f.construct EXCEPT !.chunks = Append(@, k)]
<1>2. /\ Append(q, k) \in Seq(Chunk) /\ Len(Append(q, k)) = Len(q) + 1 /\ Len(q) \in Nat
  BY <1>1
<1>3. t \in Constructs /\ t.chunks = Append(q, k)
  BY <1>1, <1>2 DEF Constructs
<1>4. d = [f EXCEPT !.construct = t]
  BY <1>1 DEF Conns
<1> HIDE DEF t
<1>5. d \in Conns /\ Same(f, d) /\ d.out = f.out /\ d.construct = t
  BY <1>1, <1>3, <1>4 DEF Conns, Same
<1>6. Len(t.chunks) <= budget.packet
  BY <1>1, <1>2, <1>3
<1>7. s # 0 => Line(t.chunks, s, n)
  <2>1. ASSUME s # 0, NEW i \in 1..Len(q) PROVE q[i].id - k.id < MaxSeq - 1
    <3>1. q[i] \in Chunk /\ q[i].id <= n
      BY <1>1, <2>1 DEF Fit, Right, Line, Numbered
    <3>2. q[i].id \in Nat /\ k.id \in Nat /\ n \in Nat
      BY <3>1 DEF Chunk, Acts
    <3>3. budget.packet > 1
      BY <1>1, <1>2
    <3>4. n - k.id < MaxSeq - 1
      BY <2>1, <3>3
    <3>5. MaxSeq \in Nat
      BY SequenceAssumption
    <3> QED BY <3>1, <3>2, <3>4, <3>5
  <2>2. s # 0 => Line(q, s, n)
    BY DEF Fit, Right
  <2> HIDE DEF q
  <2> QED BY <1>1, <1>3, <2>1, <2>2, LineAppend DEF q
<1> HIDE DEF q
<1>8. s # 0 => Right(e, d, s, n)
  BY <1>5, <1>7 DEF Fit, Right, Same
<1> QED BY <1>5, <1>6, <1>8 DEF Fit, Same

LEMMA ResendChunkFits ==
  ASSUME NEW e, NEW s, NEW n, Acts(e, s, n), NEW c, Fit(e, c, s, n), NEW k \in Chunk,
         s # 0 => Numbered(k, s, n) /\ (budget.packet > 1 => n - k.id < MaxSeq - 1)
  PROVE  Fit(e, ResendChunk(e, c, k), s, n) /\ Same(c, ResendChunk(e, c, k))
<1>1. CASE c.state \in {"offline", "error"}
  BY <1>1 DEF ResendChunk, QueueChunkEx, Same
<1>2. CASE c.state \notin {"offline", "error"}
  <2> DEFINE f == Roomy(e, c)
             d == [f EXCEPT !.construct.chunks = Append(@, k)]
  <2>1. Fit(e, f, s, n) /\ Same(c, f) /\ Len(f.construct.chunks) < budget.packet
    BY RoomyFits
  <2>2. ResendChunk(e, c, k) = [f EXCEPT !.construct.chunks = Append(@, k), !.buffer = @]
    BY <1>2 DEF ResendChunk, QueueChunkEx, Roomy
  <2> HIDE DEF f
  <2>3. ResendChunk(e, c, k) = d
    BY <2>1, <2>2 DEF Fit, Conns, Constructs
  <2>4. Fit(e, d, s, n) /\ Same(f, d)
    BY <2>1, AppendFits
  <2> HIDE DEF d
  <2> QED BY <2>1, <2>3, <2>4 DEF Same
<1> QED BY <1>1, <1>2

LEMMA ResendFits ==
  ASSUME NEW e, NEW s, NEW n, Acts(e, s, n), NEW c, Fit(e, c, s, n)
  PROVE  Fit(e, Resend(e, c), s, n) /\ Same(c, Resend(e, c))
<1> DEFINE D == {d \in Conns : Fit(e, d, s, n) /\ Same(c, d)}
<1>1. c \in D /\ c.buffer \in Seq(Chunk)
  BY DEF Fit, Same, Conns
<1>2. ASSUME NEW d \in D, NEW i \in 1..Len(c.buffer) PROVE ResendChunk(e, d, c.buffer[i]) \in D
  <2>1. c.buffer[i] \in Chunk
    BY <1>1
  <2>2. s # 0 => /\ Numbered(c.buffer[i], s, n)
                 /\ budget.packet > 1 => n - c.buffer[i].id < MaxSeq - 1
    BY DEF Fit, Right, Buffered
  <2>3. Fit(e, ResendChunk(e, d, c.buffer[i]), s, n) /\ Same(d, ResendChunk(e, d, c.buffer[i]))
    BY <2>1, <2>2, ResendChunkFits
  <2> QED BY <2>3 DEF Fit, Same
<1> HIDE DEF D
<1>3. Resend(e, c) \in D
  BY <1>1, <1>2, ResendKeeps
<1> QED BY <1>3 DEF D

\* A new chunk, the n-th, is ready to be queued.
Queues(e, c, s, n, k) ==
  /\ Acts(e, s, n) /\ Fit(e, c, s, n) /\ c.state \notin {"offline", "error"}
  /\ k \in Chunk /\ k.id = n
  /\ s # 0 => Numbered(k, s, n) /\ \A i \in 1..Len(c.buffer) : c.buffer[i].id < n

\* It was queued, and kept when there was room for it.
Queued(e, c, s, n, k, d) ==
  /\ Fit(e, d, s, n) /\ d.state = c.state
  /\ d.buffer = IF Len(c.buffer) < BufferCap THEN Append(c.buffer, k) ELSE c.buffer

LEMMA QueueFits ==
  ASSUME NEW e, NEW s, NEW n, NEW c, NEW k, Queues(e, c, s, n, k)
  PROVE  Queued(e, c, s, n, k, QueueChunkEx(e, c, k, FALSE))
<1> USE DEF Queues
<1> DEFINE f == Roomy(e, c)
           d == [f EXCEPT !.construct.chunks = Append(@, k)]
           b == IF Len(f.buffer) < BufferCap THEN Append(f.buffer, k) ELSE f.buffer
           g == [d EXCEPT !.buffer = b]
<1>1. Fit(e, f, s, n) /\ Same(c, f) /\ Len(f.construct.chunks) < budget.packet
  BY RoomyFits
<1>2. QueueChunkEx(e, c, k, FALSE) = [f EXCEPT !.construct.chunks = Append(@, k),
                                               !.buffer = IF Len(@) < BufferCap THEN Append(@, k) ELSE @]
  BY DEF QueueChunkEx, Roomy
<1> HIDE DEF f
<1>3. QueueChunkEx(e, c, k, FALSE) = g
  <2>1. f \in Conns
    BY <1>1 DEF Fit
  <2> QED BY <1>2, <2>1 DEF Conns, Constructs
<1>4. n - k.id < MaxSeq - 1
  BY SequenceAssumption DEF Acts
<1>5. Fit(e, d, s, n) /\ Same(f, d)
  BY <1>1, <1>4, AppendFits
<1> HIDE DEF d
<1>6. d.buffer = c.buffer /\ d.state = c.state /\ f.buffer = c.buffer /\ c.buffer \in Seq(Chunk) /\ d \in Conns
  BY <1>1, <1>5 DEF Same, Fit, Conns
<1>7. /\ Append(c.buffer, k) \in Seq(Chunk) /\ Len(Append(c.buffer, k)) = Len(c.buffer) + 1 /\ Len(c.buffer) \in Nat
      /\ \A i \in 1..Len(Append(c.buffer, k)) : Append(c.buffer, k)[i] = IF i = Len(c.buffer) + 1 THEN k ELSE c.buffer[i]
  BY <1>6
<1>8. b \in Seq(Chunk) /\ Len(b) <= BufferCap
  BY <1>1, <1>6, <1>7, SequenceAssumption DEF Fit
<1>9. s # 0 => Buffered(b, s, n)
  <2>1. CASE b = c.buffer
    BY <1>5, <1>6, <2>1 DEF Fit, Right
  <2>2. CASE b = Append(c.buffer, k)
    <3> HIDE DEF b
    <3>1. ASSUME s # 0 PROVE Buffered(c.buffer, s, n) /\ Numbered(k, s, n) /\ \A i \in 1..Len(c.buffer) : c.buffer[i].id < n
      BY <1>5, <1>6, <3>1 DEF Fit, Right
    <3>2. ASSUME s # 0, NEW i \in 1..Len(b) PROVE Numbered(b[i], s, n) /\ (budget.packet > 1 => n - b[i].id < MaxSeq - 1)
      <4>1. CASE i = Len(c.buffer) + 1
        BY <1>4, <1>7, <2>2, <3>1, <3>2, <4>1
      <4>2. CASE i # Len(c.buffer) + 1
        <5>1. i \in 1..Len(c.buffer) /\ b[i] = c.buffer[i]
          BY <1>7, <2>2, <4>2
        <5> QED BY <3>1, <3>2, <5>1 DEF Buffered
      <4> QED BY <4>1, <4>2
    <3>3. ASSUME s # 0, NEW i \in 1..Len(b), NEW j \in 1..Len(b), i < j PROVE b[i].id < b[j].id
      <4>1. i \in 1..Len(c.buffer) /\ b[i] = c.buffer[i]
        BY <1>7, <2>2, <3>3
      <4>2. CASE j = Len(c.buffer) + 1
        BY <1>7, <2>2, <3>1, <3>3, <4>1, <4>2
      <4>3. CASE j # Len(c.buffer) + 1
        <5>1. j \in 1..Len(c.buffer) /\ b[j] = c.buffer[j]
          BY <1>7, <2>2, <4>3
        <5> QED BY <3>1, <3>3, <4>1, <5>1 DEF Buffered
      <4> QED BY <4>2, <4>3
    <3> QED BY <3>2, <3>3 DEF Buffered
  <2> QED BY <1>6, <2>1, <2>2
<1>10. b = IF Len(c.buffer) < BufferCap THEN Append(c.buffer, k) ELSE c.buffer
  BY <1>6
<1> HIDE DEF b
<1>11. g \in Conns /\ g.buffer = b /\ g.state = c.state /\ g.out = d.out /\ g.construct = d.construct
       /\ g.ack = d.ack /\ g.seq = d.seq
  BY <1>6, <1>8 DEF Conns
<1> HIDE DEF g
<1>12. Fit(e, g, s, n)
  BY <1>5, <1>8, <1>9, <1>11 DEF Fit, Right
<1> QED BY <1>3, <1>10, <1>11, <1>12 DEF Queued

\* An acknowledgement of the first m chunks.
AckOf(a, m, n) == m \in Nat /\ a = m % MaxSeq /\ 2 * (n - m) < MaxSeq

\* What d keeps of the chunks after the first m that c keeps.
KeepsAfter(c, d, m) ==
  \A i \in 1..Len(c.buffer) : c.buffer[i].id > m => \E j \in 1..Len(d.buffer) : d.buffer[j] = c.buffer[i]

LEMMA AckFits ==
  ASSUME NEW e, NEW s, NEW n, Acts(e, s, n), NEW c, Fit(e, c, s, n), NEW a
  PROVE  /\ Fit(e, AckChunks(c, a), s, n) /\ AckChunks(c, a).state = c.state
         /\ \A m : s # 0 /\ AckOf(a, m, n) => KeepsAfter(c, AckChunks(c, a), m)
<1> DEFINE b == c.buffer
           kept == {i \in 1..Len(b) : ~IsSeqInBackroom(b[i].seq, a)}
           x == Min(kept)
           new == IF kept = {} THEN <<>> ELSE SubSeq(b, x, Len(b))
           d == [c EXCEPT !.buffer = new]
<1>1. c \in Conns /\ b \in Seq(Chunk) /\ Len(b) \in Nat /\ Len(b) <= BufferCap
  BY DEF Fit, Conns
<1>2. AckChunks(c, a) = d
  BY DEF AckChunks
<1>3. kept # {} => x \in kept /\ \A i \in kept : x <= i
  <2>1. kept \in SUBSET Nat
    OBVIOUS
  <2> HIDE DEF kept
  <2> QED BY <2>1, Least
<1>4. kept \subseteq 1..Len(b)
  OBVIOUS
<1>5. ASSUME kept # {}
      PROVE  /\ new \in Seq(Chunk) /\ Len(new) = Len(b) - x + 1 /\ x \in 1..Len(b)
             /\ \A i \in 1..Len(new) : new[i] = b[x + i - 1] /\ x + i - 1 \in 1..Len(b)
  <2>1. x \in 1..Len(b)
    BY <1>3, <1>4, <1>5
  <2>2. new = SubSeq(b, x, Len(b))
    BY <1>5
  <2> HIDE DEF new, x, b, kept
  <2> QED BY <1>1, <2>1, <2>2
<1>6. kept = {} => new = <<>>
  OBVIOUS
<1>7. new \in Seq(Chunk) /\ Len(new) <= BufferCap
  BY <1>1, <1>5, <1>6, SequenceAssumption
<1>8. s # 0 => Buffered(new, s, n)
  <2>1. CASE kept = {}
    BY <1>6, <2>1, EmptyLine
  <2>2. CASE kept # {}
    <3>1. s # 0 => Buffered(b, s, n)
      BY DEF Fit, Right
    <3> HIDE DEF new, x, b, kept
    <3>2. ASSUME s # 0, NEW i \in 1..Len(new) PROVE Numbered(new[i], s, n) /\ (budget.packet > 1 => n - new[i].id < MaxSeq - 1)
      BY <1>5, <2>2, <3>1, <3>2 DEF Buffered
    <3>3. ASSUME s # 0, NEW i \in 1..Len(new), NEW j \in 1..Len(new), i < j PROVE new[i].id < new[j].id
      <4>1. /\ x + i - 1 \in 1..Len(b) /\ x + j - 1 \in 1..Len(b) /\ x + i - 1 < x + j - 1
            /\ new[i] = b[x + i - 1] /\ new[j] = b[x + j - 1]
        BY <1>5, <2>2, <3>3
      <4> QED BY <3>1, <3>3, <4>1 DEF Buffered
    <3> QED BY <3>2, <3>3 DEF Buffered
  <2> QED BY <2>1, <2>2
<1>9. ASSUME NEW m, s # 0, AckOf(a, m, n), NEW i \in 1..Len(b), b[i].id > m
      PROVE  \E j \in 1..Len(new) : new[j] = b[i]
  <2>1. Numbered(b[i], s, n) /\ b[i].id \in Nat
    <3>1. b[i] \in Chunk /\ Buffered(b, s, n)
      BY <1>1, <1>9 DEF Fit, Right
    <3> HIDE DEF b
    <3> QED BY <1>9, <3>1 DEF Buffered, Chunk
  <2>2. ~IsSeqInBackroom(b[i].seq, a)
    <3>1. m \in Nat /\ a = m % MaxSeq /\ b[i].id <= n /\ b[i].seq = b[i].id % MaxSeq /\ n \in Nat
      BY <1>9, <2>1 DEF AckOf, Numbered, Acts
    <3>2. 2 * (b[i].id - m) < MaxSeq
      BY <1>9, <2>1, <3>1, SequenceAssumption DEF AckOf
    <3> QED BY <1>9, <2>1, <3>1, <3>2, NotOld
  <2>3. i \in kept
    BY <2>2
  <2>4. kept # {} /\ x <= i
    BY <1>3, <2>3
  <2> HIDE DEF new, x, b, kept
  <2>5. i - x + 1 \in 1..Len(new) /\ x + (i - x + 1) - 1 = i
    BY <1>1, <1>5, <2>4
  <2> QED BY <1>5, <2>4, <2>5
<1> HIDE DEF new, kept
<1>10. d \in Conns /\ d.buffer = new /\ d.state = c.state /\ d.out = c.out /\ d.construct = c.construct
       /\ d.ack = c.ack /\ d.seq = c.seq
  BY <1>1, <1>7 DEF Conns
<1> HIDE DEF d
<1>11. Fit(e, d, s, n)
  BY <1>7, <1>8, <1>10 DEF Fit, Right
<1>12. \A m : s # 0 /\ AckOf(a, m, n) => KeepsAfter(c, d, m)
  BY <1>9, <1>10 DEF KeepsAfter
<1> QED BY <1>2, <1>10, <1>11, <1>12

\* Fields that Fit does not speak of.
LEMMA StateFits ==
  ASSUME NEW e, NEW s, NEW n, NEW c, Fit(e, c, s, n),
         NEW z \in {"offline", "connect", "online", "error"}, NEW d, d = [c EXCEPT !.state = z]
  PROVE  Fit(e, d, s, n) /\ d.buffer = c.buffer /\ d.state = z
<1>1. d \in Conns /\ d.seq = c.seq /\ d.ack = c.ack /\ d.buffer = c.buffer /\ d.construct = c.construct /\ d.out = c.out
      /\ d.state = z
  BY DEF Fit, Conns
<1> QED BY <1>1 DEF Fit, Right

LEMMA PeerAckFits ==
  ASSUME NEW e, NEW s, NEW n, NEW c, Fit(e, c, s, n), NEW a \in Seqs, NEW d, d = [c EXCEPT !.peerAck = a]
  PROVE  Fit(e, d, s, n) /\ d.buffer = c.buffer /\ d.state = c.state
<1>1. d \in Conns /\ d.seq = c.seq /\ d.ack = c.ack /\ d.buffer = c.buffer /\ d.construct = c.construct /\ d.out = c.out
      /\ d.state = c.state
  BY DEF Fit, Conns
<1> QED BY <1>1 DEF Fit, Right

LEMMA ControlFits ==
  ASSUME NEW e, NEW s, NEW n, Acts(e, s, n), NEW c, Fit(e, c, s, n),
         NEW kind \in Kinds \ {"connectaccept"}
  PROVE  Fit(e, SendControl(e, c, kind), s, n) /\ Same(c, SendControl(e, c, kind))
BY EmitFits, EmptyLine DEF SendControl

LEMMA FeedFits ==
  ASSUME NEW e, NEW s, NEW n, Acts(e, s, n), NEW c, Fit(e, c, s, n), c.state # "offline", NEW p \in Packets
  PROVE  /\ Fit(e, Feed(e, c, p), s, n) /\ Feed(e, c, p).state # "offline"
         /\ s # 0 /\ AckOf(p.ack, p.n, n) => KeepsAfter(c, Feed(e, c, p), p.n)
<1> DEFINE a == [c EXCEPT !.peerAck = p.ack]
           r == IF p.resend THEN Resend(e, a) ELSE a
           o == IF p.kind = "connectaccept" /\ r.state = "connect"
                THEN [SendControl(e, r, "accept") EXCEPT !.state = "online"] ELSE r
           d == IF p.kind = "close" THEN [r EXCEPT !.state = "error"]
                ELSE IF o.state = "online" THEN AckChunks(o, p.ack) ELSE o
<1>1. Feed(e, c, p) = d
  BY DEF Feed
<1>2. Fit(e, a, s, n) /\ a.buffer = c.buffer /\ a.state = c.state
  <2>1. p.ack \in Seqs
    BY DEF Packets
  <2> QED BY <2>1, PeerAckFits
<1>3. Fit(e, r, s, n) /\ r.buffer = c.buffer /\ r.state = c.state
  <2> HIDE DEF a
  <2>1. Fit(e, Resend(e, a), s, n) /\ Same(a, Resend(e, a))
    BY <1>2, ResendFits
  <2>2. CASE p.resend
    BY <1>2, <2>1, <2>2 DEF Same
  <2>3. CASE ~p.resend
    BY <1>2, <2>3
  <2> QED BY <2>2, <2>3
<1>4. Fit(e, o, s, n) /\ o.buffer = c.buffer /\ o.state # "offline"
  <2> HIDE DEF r
  <2>1. CASE p.kind = "connectaccept" /\ r.state = "connect"
    <3> DEFINE t == SendControl(e, r, "accept")
    <3>1. "accept" \in Kinds \ {"connectaccept"}
      BY DEF Kinds
    <3>2. Fit(e, t, s, n) /\ Same(r, t)
      BY <1>3, <3>1, ControlFits
    <3>3. o = [t EXCEPT !.state = "online"]
      BY <2>1
    <3> HIDE DEF t, o
    <3>4. Fit(e, o, s, n) /\ o.buffer = t.buffer /\ o.state = "online"
      BY <3>2, <3>3, StateFits
    <3> QED BY <1>3, <3>2, <3>4 DEF Same
  <2>2. CASE ~(p.kind = "connectaccept" /\ r.state = "connect")
    BY <1>3, <2>2
  <2> QED BY <2>1, <2>2
<1>5. CASE p.kind = "close"
  <2>1. d = [r EXCEPT !.state = "error"]
    BY <1>5
  <2> HIDE DEF r, d
  <2>2. Fit(e, d, s, n) /\ d.buffer = r.buffer /\ d.state = "error"
    BY <1>3, <2>1, StateFits
  <2> QED BY <1>1, <1>3, <2>2 DEF KeepsAfter
<1>6. CASE p.kind # "close" /\ o.state = "online"
  <2>1. d = AckChunks(o, p.ack)
    BY <1>6
  <2> HIDE DEF o, d
  <2>2. /\ Fit(e, d, s, n) /\ d.state = o.state
        /\ s # 0 /\ AckOf(p.ack, p.n, n) => KeepsAfter(o, d, p.n)
    BY <1>4, <2>1, AckFits
  <2> QED BY <1>1, <1>4, <2>2 DEF KeepsAfter
<1>7. CASE p.kind # "close" /\ o.state # "online"
  <2>1. d = o
    BY <1>7
  <2> HIDE DEF o, d
  <2> QED BY <1>1, <1>4, <2>1 DEF KeepsAfter
<1> QED BY <1>5, <1>6, <1>7

LEMMA UpdateFits ==
  ASSUME NEW e, NEW s, NEW n, Acts(e, s, n), NEW c, Fit(e, c, s, n), NEW due
  PROVE  Fit(e, UpdateOpen(e, c, due), s, n) /\ Same(c, UpdateOpen(e, c, due))
<1> DEFINE r == IF "resend" \in due /\ c.buffer # <<>> THEN ResendChunk(e, c, Head(c.buffer)) ELSE c
           f == IF "silent" \in due THEN Flush(e, r) ELSE r
           d == IF c.state = "connect" THEN IF "silent" \in due THEN SendControl(e, c, "connect") ELSE c
                ELSE IF "quiet" \in due /\ f.out = {} THEN SendControl(e, f, "keepalive") ELSE f
<1>1. UpdateOpen(e, c, due) = d
  BY DEF UpdateOpen
<1>2. Same(c, c)
  BY DEF Same
<1>3. Fit(e, r, s, n) /\ Same(c, r)
  <2>1. CASE "resend" \in due /\ c.buffer # <<>>
    <3>1. c.buffer \in Seq(Chunk)
      BY DEF Fit, Conns
    <3>2. Head(c.buffer) = c.buffer[1] /\ 1 \in 1..Len(c.buffer) /\ Head(c.buffer) \in Chunk
      BY <2>1, <3>1
    <3>3. s # 0 => /\ Numbered(c.buffer[1], s, n)
                   /\ budget.packet > 1 => n - c.buffer[1].id < MaxSeq - 1
      BY <3>2 DEF Fit, Right, Buffered
    <3>4. Fit(e, ResendChunk(e, c, Head(c.buffer)), s, n) /\ Same(c, ResendChunk(e, c, Head(c.buffer)))
      BY <3>2, <3>3, ResendChunkFits
    <3> QED BY <2>1, <3>4
  <2>2. CASE ~("resend" \in due /\ c.buffer # <<>>)
    BY <1>2, <2>2
  <2> QED BY <2>1, <2>2
<1> HIDE DEF r
<1>4. Fit(e, f, s, n) /\ Same(c, f)
  <2>1. Fit(e, Flush(e, r), s, n) /\ Same(r, Flush(e, r))
    BY <1>3, FlushFits
  <2> QED BY <1>3, <2>1 DEF Same
<1> HIDE DEF f
<1>5. "connect" \in Kinds \ {"connectaccept"} /\ "keepalive" \in Kinds \ {"connectaccept"}
  BY DEF Kinds
<1>6. Fit(e, SendControl(e, c, "connect"), s, n) /\ Same(c, SendControl(e, c, "connect"))
  BY <1>5, ControlFits
<1>7. Fit(e, SendControl(e, f, "keepalive"), s, n) /\ Same(f, SendControl(e, f, "keepalive"))
  BY <1>4, <1>5, ControlFits
<1>8. Same(c, SendControl(e, f, "keepalive"))
  BY <1>4, <1>7 DEF Same
<1> QED BY <1>1, <1>2, <1>4, <1>6, <1>7, <1>8

-----------------------------------------------------------------------------
(* Steps *)

\* What is counted never gets less.
Grows ==
  /\ session <= session' /\ budget' = budget /\ spoilt \subseteq spoilt'
  /\ \A e \in Ends : \A s \in Sessions : sent[e][s] <= sent'[e][s] /\ got[e][s] <= got'[e][s]

\* The step is one of end e.
StepOf(e) ==
  LET o == Peer(e) IN
  /\ conn'[o] = conn[o] /\ rest'[o] = rest[o] /\ mine'[o] = mine[o] /\ unkept'[o] = unkept[o]
  /\ sent'[o] = sent[o] /\ got'[o] = got[o]

LEMMA Peers ==
  ASSUME NEW e \in Ends
  PROVE  Peer(e) \in Ends /\ Peer(e) # e /\ Peer(Peer(e)) = e /\ Ends = {e, Peer(e)}
BY DEF Peer, Ends

LEMMA LineStays ==
  ASSUME NEW q \in Seq(Chunk), NEW s, NEW n \in Nat, NEW m \in Nat, n <= m, Line(q, s, n)
  PROVE  Line(q, s, m)
<1>1. ASSUME NEW i \in 1..Len(q) PROVE Numbered(q[i], s, m)
  <2>1. q[i] \in Chunk /\ Numbered(q[i], s, n)
    BY DEF Line
  <2> QED BY <2>1 DEF Numbered, Chunk
<1> QED BY <1>1 DEF Line

LEMMA GenuineStays ==
  ASSUME Types, Types', Grows, NEW e \in Ends, NEW p \in Packets, Genuine(e, p)
  PROVE  Genuine(e, p)'
<1>1. session \in Nat /\ session' \in Nat /\ session <= session'
  BY BoundsAssumption DEF Types, Grows
<1>2. p.ses <= session'
  BY <1>1 DEF Genuine, Packets, Sessions
<1>3. ASSUME Promised(p.ses)'
      PROVE  /\ p.n <= got'[e][p.ses] /\ p.ack = p.n % MaxSeq
             /\ Line(p.chunks, p.ses, sent'[e][p.ses])
  <2>1. Promised(p.ses) /\ p.ses \in Sessions
    BY <1>3 DEF Promised, Grows, Packets
  <2>2. /\ p.n <= got[e][p.ses] /\ p.ack = p.n % MaxSeq
        /\ Line(p.chunks, p.ses, sent[e][p.ses])
    BY <2>1 DEF Genuine
  <2>3. /\ got[e][p.ses] \in Nat /\ got'[e][p.ses] \in Nat /\ got[e][p.ses] <= got'[e][p.ses]
        /\ sent[e][p.ses] \in Nat /\ sent'[e][p.ses] \in Nat /\ sent[e][p.ses] <= sent'[e][p.ses]
        /\ p.n \in Nat /\ p.chunks \in Seq(Chunk)
    BY <2>1 DEF Types, Grows, Packets
  <2> QED BY <2>2, <2>3, LineStays
<1> QED BY <1>2, <1>3 DEF Genuine

\* The end that does not move.
LEMMA Bystander ==
  ASSUME Types, Types', Grows, NEW e \in Ends, StepOf(e), EndInv(Peer(e))
  PROVE  EndInv(Peer(e))'
<1> DEFINE o == Peer(e)
           s == mine[o]
<1>1. o \in Ends /\ Peer(o) = e
  BY Peers
<1>2. /\ conn'[o] = conn[o] /\ rest'[o] = rest[o] /\ mine'[o] = s /\ unkept'[o] = unkept[o]
      /\ sent'[o] = sent[o] /\ got'[o] = got[o] /\ budget' = budget /\ spoilt \subseteq spoilt'
  BY DEF StepOf, Grows
<1>3. EndInv(o)
  OBVIOUS
<1> HIDE DEF o
<1>4. InSession(o)'
  BY <1>2, <1>3 DEF EndInv, InSession
<1>5. ASSUME Promised(s)'
      PROVE  /\ Promised(s) /\ s \in Sessions
             /\ sent[e][s] \in Nat /\ sent'[e][s] \in Nat /\ sent[e][s] <= sent'[e][s]
             /\ got[e][s] \in Nat /\ got'[e][s] \in Nat /\ got[e][s] <= got'[e][s] /\ got[o][s] \in Nat
             /\ sent[o][s] \in Nat
  <2>1. Promised(s) /\ s # 0
    BY <1>2, <1>5 DEF Promised
  <2>2. s \in Sessions
    BY <1>1, <2>1, TheSession
  <2> QED BY <1>1, <2>1, <2>2 DEF Types, Grows
<1>6. ASSUME Promised(s)' PROVE Right(o, conn[o], s, sent[o][s])'
  <2>1. Right(o, conn[o], s, sent[o][s])
    BY <1>3, <1>5, <1>6 DEF EndInv, Numbers
  <2> QED BY <1>2, <2>1 DEF Right, Buffered, Line
<1>7. ASSUME Promised(s)' PROVE InTime(o, rest[o], s)'
  <2>1. Line(rest[o], s, sent[e][s]) /\ \A i \in 1..Len(rest[o]) : got[o][s] - rest[o][i].id < MaxSeq - 1
    BY <1>1, <1>3, <1>5, <1>7 DEF EndInv, Fetching, InTime
  <2>2. rest[o] \in Seq(Chunk)
    BY <1>1 DEF Types
  <2>3. Line(rest[o], s, sent'[e][s])
    BY <1>5, <1>7, <2>1, <2>2, LineStays
  <2> QED BY <1>1, <1>2, <2>1, <2>3 DEF InTime
<1>8. ASSUME Promised(s)', NEW n \in (got'[e][s] + 1)..sent'[o][s]
      PROVE  n \in unkept'[o] \/ \E i \in 1..Len(conn'[o].buffer) : conn'[o].buffer[i].id = n
  <2>1. n \in (got[e][s] + 1)..sent[o][s]
    BY <1>2, <1>5, <1>8
  <2>2. n \in unkept[o] \/ \E i \in 1..Len(conn[o].buffer) : conn[o].buffer[i].id = n
    BY <1>1, <1>3, <1>5, <1>8, <2>1 DEF EndInv, Kept
  <2> QED BY <1>2, <2>2
<1>9. Numbers(o)'
  BY <1>2, <1>6 DEF Numbers, Right, Promised
<1>10. Fetching(o)'
  BY <1>2, <1>7 DEF Fetching, InTime, Promised
<1>11. Kept(o)'
  BY <1>1, <1>2, <1>8 DEF Kept, Promised
<1>12. EndInv(o)'
  BY <1>4, <1>9, <1>10, <1>11 DEF EndInv
<1> QED BY <1>12 DEF o

\* A step of an end keeps the invariant when it keeps what is said of that end.
LEMMA StepHolds ==
  ASSUME IInv, NEW e \in Ends, Grows, StepOf(e), Types', Room', Fresh', odd' \subseteq spoilt', EndInv(e)',
         \A s \in Sessions : Promised(s)' => sent'[e][s] - got[Peer(e)][s] <= MaxSeq,
         net'[e] \subseteq net[e], \A p \in net'[Peer(e)] : p \in net[Peer(e)] \/ Genuine(e, p)'
  PROVE  IInv'
<1>1. Types /\ Ahead /\ OnTheWay /\ EndInv(Peer(e)) /\ EndInv(e)
  BY Peers DEF IInv
<1>2. Peer(e) \in Ends /\ Peer(Peer(e)) = e /\ Ends = {e, Peer(e)}
  BY Peers
<1>3. EndInv(Peer(e))'
  BY <1>1, Bystander
<1>4. ASSUME NEW x \in Ends PROVE EndInv(x)'
  BY <1>2, <1>3
<1>5. OnTheWay'
  <2>1. ASSUME NEW o \in Ends, NEW p \in net[o] PROVE Genuine(Peer(o), p)'
    <3>1. Peer(o) \in Ends /\ p \in Packets /\ Genuine(Peer(o), p)
      BY <1>1, Peers DEF OnTheWay, Types
    <3> QED BY <1>1, <3>1, GenuineStays
  <2>2. ASSUME NEW p \in net'[e] PROVE Genuine(Peer(e), p)'
    BY <2>1, <2>2
  <2>3. ASSUME NEW p \in net'[Peer(e)] PROVE Genuine(e, p)'
    BY <1>2, <2>1, <2>3
  <2>4. ASSUME NEW o \in Ends, NEW p \in net'[o] PROVE Genuine(Peer(o), p)'
    <3>1. CASE o = e
      BY <2>2, <2>4, <3>1
    <3>2. CASE o = Peer(e)
      BY <1>2, <2>3, <2>4, <3>2
    <3> QED BY <1>2, <3>1, <3>2
  <2> QED BY <2>4 DEF OnTheWay
<1>6. Ahead'
  <2>1. ASSUME NEW s \in Sessions, Promised(s)' PROVE sent'[e][s] - got'[Peer(e)][s] <= MaxSeq
    BY <2>1 DEF StepOf
  <2>2. ASSUME NEW s \in Sessions, Promised(s)' PROVE sent'[Peer(e)][s] - got'[e][s] <= MaxSeq
    <3>1. Promised(s)
      BY <2>2 DEF Promised, Grows
    <3>2. sent[Peer(e)][s] - got[e][s] <= MaxSeq
      BY <1>1, <1>2, <3>1 DEF Ahead
    <3>3. sent'[Peer(e)][s] = sent[Peer(e)][s] /\ got[e][s] <= got'[e][s]
      BY DEF StepOf, Grows
    <3>4. sent[Peer(e)][s] \in Nat /\ got[e][s] \in Nat /\ got'[e][s] \in Nat /\ MaxSeq \in Nat
      BY <1>1, <1>2, SequenceAssumption DEF Types
    <3> QED BY <3>2, <3>3, <3>4
  <2>3. ASSUME NEW o \in Ends, NEW s \in Sessions, Promised(s)' PROVE sent'[o][s] - got'[Peer(o)][s] <= MaxSeq
    BY <1>2, <2>1, <2>2, <2>3
  <2> QED BY <2>3 DEF Ahead
<1>7. InOrderOnce'
  BY DEF InOrderOnce
<1> QED BY <1>4, <1>5, <1>6, <1>7 DEF IInv

\* What is sent is on the way, or lost at once.
LEMMA TransmitFits ==
  ASSUME Types, Room, NEW e \in Ends, NEW c \in Conns, IsFiniteSet(c.out), Len(c.buffer) <= BufferCap,
         Len(c.construct.chunks) <= budget.packet, Transmit(e, c, net), budget' = budget
  PROVE  /\ conn' \in [Ends -> Conns] /\ net' \in [Ends -> SUBSET Packets] /\ Room'
         /\ conn'[Peer(e)] = conn[Peer(e)]
         /\ conn'[e].state = c.state /\ conn'[e].seq = c.seq /\ conn'[e].ack = c.ack
         /\ conn'[e].buffer = c.buffer /\ conn'[e].construct = c.construct
         /\ net'[e] = net[e] /\ \A p \in net'[Peer(e)] : p \in net[Peer(e)] \/ p \in c.out
<1> DEFINE o == Peer(e)
           new == c.out \ net[o]
           room == MaxFlight(o) - Cardinality(net[o])
           k == Min({room, Cardinality(new)})
           d == [c EXCEPT !.out = {}]
<1>1. o \in Ends /\ o # e /\ Ends = {e, o} /\ conn \in [Ends -> Conns] /\ net \in [Ends -> SUBSET Packets]
  BY Peers DEF Types
<1>2. conn' = [conn EXCEPT ![e] = d]
  BY DEF Transmit
<1>3. PICK some \in kSubset(k, new) : net' = [net EXCEPT ![o] = @ \cup some]
  BY DEF Transmit
<1>4. some \in SUBSET new /\ Cardinality(some) = k
  BY <1>3 DEF kSubset
<1>5. IsFiniteSet(new) /\ Cardinality(new) \in Nat
  BY FS_Difference, FS_CardinalityType
<1>6. MaxFlight(o) \in Nat /\ Cardinality(net[o]) \in Nat /\ IsFiniteSet(net[o]) /\ Cardinality(net[o]) <= MaxFlight(o)
  <2>1. budget.toServer \in Nat /\ budget.toClient \in Nat
    BY BoundsAssumption DEF Types
  <2> QED BY <1>1, <2>1, FS_CardinalityType DEF Room, MaxFlight
<1>7. k <= room /\ room \in Nat
  <2>1. room \in Nat
    BY <1>6
  <2>2. {room, Cardinality(new)} \in SUBSET Nat
    BY <1>5, <2>1
  <2> HIDE DEF room
  <2> QED BY <2>1, <2>2, Least
<1> HIDE DEF k
<1>8. IsFiniteSet(some)
  BY <1>4, <1>5, FS_Subset
<1>9. IsFiniteSet(net[o] \cup some) /\ Cardinality(net[o] \cup some) <= MaxFlight(o)
  <2>1. /\ IsFiniteSet(net[o] \cup some) /\ Cardinality(net[o] \cap some) \in Nat
        /\ Cardinality(net[o] \cup some) = Cardinality(net[o]) + Cardinality(some) - Cardinality(net[o] \cap some)
    <3>1. IsFiniteSet(net[o] \cap some)
      BY <1>8, FS_Subset
    <3> QED BY <1>6, <1>8, <3>1, FS_Union, FS_CardinalityType
  <2>2. Cardinality(some) \in Nat /\ Cardinality(some) <= room
    BY <1>4, <1>7, <1>8, FS_CardinalityType
  <2> QED BY <1>6, <2>1, <2>2
<1>10. d \in Conns /\ d.out = {} /\ d.state = c.state /\ d.seq = c.seq /\ d.ack = c.ack /\ d.buffer = c.buffer
       /\ d.construct = c.construct
  BY DEF Conns
<1>11. some \subseteq Packets /\ some \subseteq c.out
  BY <1>4 DEF Conns
<1>12. /\ net'[o] = net[o] \cup some /\ net'[e] = net[e] /\ net' \in [Ends -> SUBSET Packets]
       /\ conn'[e] = d /\ conn'[o] = conn[o] /\ conn' \in [Ends -> Conns]
  <2> HIDE DEF d, o
  <2> QED BY <1>1, <1>2, <1>3, <1>10, <1>11
<1>13. ASSUME NEW x \in Ends
       PROVE  /\ conn'[x].out = {} /\ Len(conn'[x].buffer) <= BufferCap
              /\ Len(conn'[x].construct.chunks) <= budget'.packet
              /\ IsFiniteSet(net'[x]) /\ Cardinality(net'[x]) <= MaxFlight(x)'
  <2>1. MaxFlight(x)' = MaxFlight(x)
    BY DEF MaxFlight
  <2>2. CASE x = e
    <3>1. IsFiniteSet(net[e]) /\ Cardinality(net[e]) <= MaxFlight(e)
      BY DEF Room
    <3> HIDE DEF d, o
    <3> QED BY <1>10, <1>12, <2>1, <2>2, <3>1
  <2>3. CASE x = o
    <3>1. conn[o].out = {} /\ Len(conn[o].buffer) <= BufferCap /\ Len(conn[o].construct.chunks) <= budget.packet
      BY <1>1 DEF Room
    <3> HIDE DEF d, o
    <3> QED BY <1>9, <1>12, <2>1, <2>3, <3>1
  <2> QED BY <1>1, <2>2, <2>3
<1>14. Room'
  BY <1>13 DEF Room
<1> HIDE DEF d
<1> QED BY <1>10, <1>11, <1>12, <1>14

\* What an end sends in its session is genuine.
LEMMA SentIsGenuine ==
  ASSUME Types, Types', Grows, NEW e \in Ends, mine[e] # 0, NEW p \in Packets, NEW s, NEW n \in Nat, Sent(e, p, s, n),
         mine[e] \notin spoilt' => s = mine[e] /\ n <= sent'[e][s]
  PROVE  Genuine(e, p)'
<1> DEFINE m == mine[e]
<1>1. m \in Sessions /\ got[e][m] \in Nat /\ mine[e] <= session
  <2>1. mine[e] \in 0..session
    BY DEF Types
  <2> QED BY <2>1, TheSession
<1>2. session \in Nat /\ session' \in Nat /\ session <= session'
  BY BoundsAssumption DEF Types, Grows
<1>3. p.ses <= session'
  BY <1>1, <1>2 DEF Sent, Sessions
<1>4. ASSUME Promised(p.ses)'
      PROVE  /\ p.n <= got'[e][p.ses] /\ p.ack = p.n % MaxSeq
             /\ Line(p.chunks, p.ses, sent'[e][p.ses])
  <2>1. p.ses = m /\ m \notin spoilt' /\ s = m /\ s # 0 /\ n <= sent'[e][s]
    <3>1. p.ses # 0
      BY <1>4 DEF Promised
    <3>2. p.ses = m
      BY <3>1 DEF Sent
    <3>3. m \notin spoilt'
      BY <1>4, <3>2 DEF Promised
    <3> QED BY <3>1, <3>2, <3>3
  <2>2. p.n = got[e][m] /\ p.ack = p.n % MaxSeq /\ Line(p.chunks, m, n)
    BY <2>1 DEF Sent
  <2>3. got'[e][m] \in Nat /\ got[e][m] <= got'[e][m] /\ sent'[e][m] \in Nat /\ p.chunks \in Seq(Chunk)
    BY <1>1 DEF Types, Grows, Packets
  <2>4. Line(p.chunks, m, sent'[e][m])
    BY <2>1, <2>2, <2>3, LineStays
  <2> QED BY <1>1, <2>1, <2>2, <2>3, <2>4
<1> QED BY <1>3, <1>4 DEF Genuine, Sent

\* A connection that is on the invariant's side is fit for any operation.
LEMMA ConnFits ==
  ASSUME IInv, NEW e \in Ends, mine[e] # 0, NEW s \in {0, mine[e]}, s # 0 => s \notin spoilt
  PROVE  Acts(e, s, sent[e][mine[e]]) /\ Fit(e, conn[e], s, sent[e][mine[e]])
<1>1. Acts(e, s, sent[e][mine[e]])
  BY TheSession DEF IInv, Acts
<1>2. conn[e] \in Conns /\ conn[e].out = {} /\ Len(conn[e].buffer) <= BufferCap
      /\ Len(conn[e].construct.chunks) <= budget.packet
  BY DEF IInv, Types, Room
<1>3. IsFiniteSet(conn[e].out) /\ \A p \in conn[e].out : Sent(e, p, s, sent[e][mine[e]])
  BY <1>2, FS_EmptySet
<1>4. s # 0 => Right(e, conn[e], s, sent[e][mine[e]])
  BY DEF IInv, EndInv, Numbers, Promised
<1> QED BY <1>1, <1>2, <1>3, <1>4 DEF Fit

-----------------------------------------------------------------------------
(* Four kinds of steps *)

\* An end works in its session: it goes on with connection c, has sent n chunks
\* and has still to fetch q. When s is 0 nothing is promised any more.
Work(e, s, n, c, q) ==
  /\ mine[e] # 0 /\ s = (IF mine[e] \in spoilt' THEN 0 ELSE mine[e])
  /\ n \in Nat /\ sent[e][mine[e]] <= n /\ sent' = [sent EXCEPT ![e][mine[e]] = n]
  /\ Fit(e, c, s, n) /\ c.state # "offline" /\ Transmit(e, c, net)
  /\ q \in Seq(Chunk) /\ rest' = [rest EXCEPT ![e] = q] /\ (s # 0 => InTime(e, q, s))
  /\ spoilt \subseteq spoilt' /\ UNCHANGED <<session, budget, mine, opened, got, odd>>
  /\ unkept' \in [Ends -> SUBSET Nat] /\ unkept'[Peer(e)] = unkept[Peer(e)]
  /\ s # 0 => n - got[Peer(e)][s] <= MaxSeq
  /\ s # 0 => \A m \in (got[Peer(e)][s] + 1)..n :
                m \in unkept'[e] \/ \E i \in 1..Len(c.buffer) : c.buffer[i].id = m

LEMMA Works ==
  ASSUME IInv, NEW e \in Ends, NEW s, NEW n, NEW c, NEW q, Work(e, s, n, c, q)
  PROVE  IInv'
<1> USE DEF Work
<1> DEFINE o == Peer(e)
           t == mine[e]
<1>1. /\ Types /\ Room /\ Fresh /\ odd \subseteq spoilt /\ EndInv(e) /\ Ahead
      /\ t \in Sessions /\ t \in Nat /\ got[e][t] \in Nat /\ sent[e][t] \in Nat
      /\ o \in Ends /\ o # e
  BY TheSession DEF IInv, InOrderOnce
<1>2. /\ conn' \in [Ends -> Conns] /\ net' \in [Ends -> SUBSET Packets] /\ Room' /\ conn'[o] = conn[o]
      /\ conn'[e].state = c.state /\ conn'[e].seq = c.seq /\ conn'[e].ack = c.ack
      /\ conn'[e].buffer = c.buffer /\ conn'[e].construct = c.construct
      /\ net'[e] = net[e] /\ \A p \in net'[o] : p \in net[o] \/ p \in c.out
  <2>1. /\ c \in Conns /\ Len(c.buffer) <= BufferCap /\ Len(c.construct.chunks) <= budget.packet
        /\ IsFiniteSet(c.out) /\ budget' = budget
    BY DEF Fit
  <2> QED BY <1>1, <2>1, TransmitFits
<1>3. /\ sent' \in [Ends -> [Sessions -> Nat]] /\ sent'[o] = sent[o] /\ sent'[e][t] = n
      /\ \A x \in Sessions \ {t} : sent'[e][x] = sent[e][x]
  <2>1. sent \in [Ends -> [Sessions -> Nat]]
    BY <1>1 DEF Types
  <2> QED BY <1>1, <2>1
<1>4. rest' \in [Ends -> Seq(Chunk)] /\ rest'[e] = q /\ rest'[o] = rest[o]
  <2>1. rest \in [Ends -> Seq(Chunk)]
    BY <1>1 DEF Types
  <2> QED BY <1>1, <2>1
<1>5. Types'
  BY <1>1, <1>2, <1>3, <1>4 DEF Types
<1>6. Grows
  <2>1. ASSUME NEW x \in Ends, NEW y \in Sessions PROVE sent[x][y] <= sent'[x][y] /\ got[x][y] <= got'[x][y]
    <3>1. sent[x][y] \in Nat /\ got[x][y] \in Nat /\ got' = got
      BY <1>1, <2>1 DEF Types
    <3>2. CASE x = e /\ y = t
      BY <1>3, <3>1, <3>2
    <3>3. CASE ~(x = e /\ y = t)
      <4>1. sent'[x][y] = sent[x][y]
        <5>1. x = o \/ (x = e /\ y # t)
          BY <2>1, <3>3, Peers
        <5> QED BY <1>3, <2>1, <5>1
      <4> QED BY <3>1, <4>1
    <3> QED BY <3>2, <3>3
  <2>2. session <= session'
    BY <1>1, BoundsAssumption DEF Types
  <2> QED BY <2>1, <2>2 DEF Grows
<1>7. StepOf(e)
  BY <1>2, <1>3, <1>4 DEF StepOf
<1>8. Fresh'
  <2>1. t <= session /\ (e = "server" => t <= opened) /\ session \in Nat /\ opened \in Nat
    BY <1>1, BoundsAssumption DEF Types
  <2>2. ASSUME NEW x \in Ends, NEW y \in Sessions, y > session PROVE sent'[x][y] = 0 /\ got'[x][y] = 0
    <3>1. y # t /\ sent[x][y] = 0 /\ got[x][y] = 0
      BY <1>1, <2>1, <2>2 DEF Fresh
    <3>2. x = o \/ x = e
      BY <2>2, Peers
    <3> QED BY <1>3, <2>2, <3>1, <3>2
  <2>3. ASSUME NEW y \in Sessions, y > opened PROVE sent'["server"][y] = 0 /\ got'["server"][y] = 0
    <3>1. sent["server"][y] = 0 /\ got["server"][y] = 0
      BY <1>1, <2>3 DEF Fresh
    <3>2. e = "server" => y # t
      BY <1>1, <2>1, <2>3
    <3>3. o = "server" \/ e = "server"
      BY Peers DEF Ends
    <3> QED BY <1>3, <2>3, <3>1, <3>2, <3>3
  <2> QED BY <2>2, <2>3 DEF Fresh
<1>9. InSession(e)'
  BY <1>2 DEF InSession
<1>10. mine'[e] = t /\ (Promised(t)' => s = t /\ s # 0)
  BY DEF Promised
<1>11. Numbers(e)'
  <2>1. ASSUME s = t, s # 0 PROVE Right(e, conn[e], s, sent[e][s])'
    <3>1. Right(e, c, s, n)
      BY <2>1 DEF Fit
    <3>2. c.ack = got'[e][s] % MaxSeq /\ c.seq = n % MaxSeq /\ Buffered(c.buffer, s, n) /\ Line(c.construct.chunks, s, n)
      BY <3>1 DEF Right
    <3>3. sent'[e][s] = n
      BY <1>3, <2>1
    <3> QED BY <1>2, <3>2, <3>3 DEF Right, Buffered, Line
  <2> QED BY <1>10, <2>1 DEF Numbers, Promised
<1>12. Fetching(e)'
  <2>1. ASSUME s = t, s # 0 PROVE InTime(e, rest[e], s)'
    BY <1>3, <1>4, <2>1 DEF InTime
  <2> QED BY <1>10, <2>1 DEF Fetching, Promised
<1>13. Kept(e)'
  <2>1. ASSUME s = t, s # 0, NEW m \in (got'[o][s] + 1)..sent'[e][s]
        PROVE  m \in unkept'[e] \/ \E i \in 1..Len(conn'[e].buffer) : conn'[e].buffer[i].id = m
    BY <1>2, <1>3, <2>1
  <2> QED BY <1>10, <2>1 DEF Kept, Promised
<1>14. EndInv(e)'
  BY <1>9, <1>11, <1>12, <1>13 DEF EndInv
<1>15. ASSUME NEW y \in Sessions, Promised(y)' PROVE sent'[e][y] - got[o][y] <= MaxSeq
  <2>1. CASE y = t
    <3>1. s = t /\ s # 0
      BY <1>15, <2>1 DEF Promised
    <3> QED BY <1>3, <2>1, <3>1
  <2>2. CASE y # t
    <3>1. Promised(y)
      BY <1>15 DEF Promised
    <3> QED BY <1>1, <1>3, <2>2, <3>1 DEF Ahead
  <2> QED BY <2>1, <2>2
<1>16. ASSUME NEW p \in net'[o] PROVE p \in net[o] \/ Genuine(e, p)'
  <2>1. CASE p \in c.out
    <3>1. Sent(e, p, s, n) /\ p \in Packets
      BY <2>1 DEF Fit, Conns
    <3>2. t \notin spoilt' => s = t /\ n <= sent'[e][s]
      BY <1>3
    <3> QED BY <1>1, <1>5, <1>6, <3>1, <3>2, SentIsGenuine
  <2> QED BY <1>2, <1>16, <2>1
<1>17. odd' \subseteq spoilt' /\ net'[e] \subseteq net[e]
  BY <1>1, <1>2
<1> QED BY <1>2, <1>5, <1>6, <1>7, <1>8, <1>14, <1>15, <1>16, <1>17, StepHolds

\* Nothing is counted.
LEMMA NothingCounted ==
  ASSUME Types, UNCHANGED <<sent, got>>
  PROVE  \A x \in Ends : \A y \in Sessions : sent[x][y] <= sent'[x][y] /\ got[x][y] <= got'[x][y]
<1>1. ASSUME NEW x \in Ends, NEW y \in Sessions PROVE sent[x][y] \in Nat /\ got[x][y] \in Nat
  BY DEF Types
<1>2. sent' = sent /\ got' = got
  OBVIOUS
<1>3. ASSUME NEW x \in Ends, NEW y \in Sessions PROVE sent[x][y] <= sent[x][y] /\ got[x][y] <= got[x][y]
  BY <1>1
<1> QED BY <1>2, <1>3

\* An end closes its connection, after it has said something in its session.
LEMMA Leaves ==
  ASSUME IInv, NEW e \in Ends, mine[e] # 0, NEW s, s = (IF mine[e] \in spoilt' THEN 0 ELSE mine[e]),
         NEW c, Fit(e, c, s, sent[e][mine[e]]), Transmit(e, Reset(c), net), mine' = [mine EXCEPT ![e] = 0],
         spoilt \subseteq spoilt', rest[e] # <<>> => 0 \in spoilt',
         UNCHANGED <<rest, session, budget, opened, sent, got, unkept, odd>>
  PROVE  IInv'
<1> DEFINE o == Peer(e)
           t == mine[e]
           d == Reset(c)
<1>1. /\ Types /\ Room /\ Fresh /\ odd \subseteq spoilt /\ Ahead
      /\ t \in Sessions /\ t \in Nat /\ got[e][t] \in Nat /\ sent[e][t] \in Nat
      /\ o \in Ends /\ o # e
  BY TheSession DEF IInv, InOrderOnce
<1>2. c \in Conns /\ IsFiniteSet(c.out) /\ \A p \in c.out : Sent(e, p, s, sent[e][t])
  BY DEF Fit
<1>3. /\ d \in Conns /\ d.out = c.out /\ d.state = "offline" /\ d.buffer = <<>> /\ d.construct = EmptyConstruct
  <2>1. 0 \in Seqs
    BY SequenceAssumption DEF Seqs
  <2>2. <<>> \in Seq(Chunk) /\ {} \in SUBSET Packets
    OBVIOUS
  <2>3. Offline \in Conns /\ Offline.state = "offline" /\ Offline.buffer = <<>> /\ Offline.construct = EmptyConstruct
    BY <2>1, <2>2, EmptyLine DEF Offline, Conns
  <2>4. d = [Offline EXCEPT !.out = c.out] /\ c.out \in SUBSET Packets
    BY <1>2 DEF Reset, Conns
  <2> HIDE DEF d
  <2> QED BY <2>3, <2>4 DEF Conns
<1>4. /\ conn' \in [Ends -> Conns] /\ net' \in [Ends -> SUBSET Packets] /\ Room' /\ conn'[o] = conn[o]
      /\ conn'[e].state = "offline" /\ net'[e] = net[e]
      /\ \A p \in net'[o] : p \in net[o] \/ p \in c.out
  <2>1. Len(d.buffer) <= BufferCap /\ Len(d.construct.chunks) <= budget.packet
    BY <1>1, <1>3, EmptyLine, SequenceAssumption, BoundsAssumption DEF Types
  <2> HIDE DEF d
  <2>2. budget' = budget
    OBVIOUS
  <2> QED BY <1>1, <1>2, <1>3, <2>1, <2>2, TransmitFits DEF d
<1> HIDE DEF d
<1>5. mine' \in [Ends -> 0..session'] /\ mine'[e] = 0 /\ mine'[o] = mine[o] /\ mine'["server"] <= opened'
  <2>1. mine \in [Ends -> 0..session] /\ session \in Nat /\ mine["server"] <= opened /\ opened \in Nat
    BY <1>1, BoundsAssumption DEF Types
  <2>2. mine' \in [Ends -> 0..session'] /\ mine'[e] = 0 /\ mine'[o] = mine[o]
    BY <1>1, <2>1
  <2>3. e = "server" \/ o = "server"
    BY Peers DEF Ends
  <2> QED BY <2>1, <2>2, <2>3
<1>6. Types'
  BY <1>1, <1>4, <1>5 DEF Types
<1>7. Grows
  <2>1. \A x \in Ends : \A y \in Sessions : sent[x][y] <= sent'[x][y] /\ got[x][y] <= got'[x][y]
    BY <1>1, NothingCounted
  <2>2. session <= session'
    BY <1>1, BoundsAssumption DEF Types
  <2> QED BY <2>1, <2>2 DEF Grows
<1>8. StepOf(e)
  BY <1>4, <1>5 DEF StepOf
<1>9. Fresh'
  BY <1>1 DEF Fresh
<1>10. EndInv(e)'
  BY <1>4, <1>5 DEF EndInv, InSession, Numbers, Fetching, Kept, Promised
<1>11. ASSUME NEW y \in Sessions, Promised(y)' PROVE sent'[e][y] - got[o][y] <= MaxSeq
  <2>1. Promised(y)
    BY <1>11 DEF Promised
  <2> QED BY <1>1, <2>1 DEF Ahead
<1>12. ASSUME NEW p \in net'[o] PROVE p \in net[o] \/ Genuine(e, p)'
  <2>1. CASE p \in c.out
    <3>1. Sent(e, p, s, sent[e][t]) /\ p \in Packets
      BY <1>2, <2>1 DEF Conns
    <3>2. t \notin spoilt' => s = t /\ sent[e][t] <= sent'[e][s]
      BY <1>1
    <3> QED BY <1>1, <1>6, <1>7, <3>1, <3>2, SentIsGenuine
  <2> QED BY <1>4, <1>12, <2>1
<1>13. odd' \subseteq spoilt' /\ net'[e] \subseteq net[e]
  BY <1>1, <1>4
<1> QED BY <1>4, <1>6, <1>7, <1>8, <1>9, <1>10, <1>11, <1>12, <1>13, StepHolds

\* An end enters session s with a connection as good as new. When it was in that
\* session before, the session is spoilt.
Begin(e, s, c) ==
  /\ s \in Nat \ {0} /\ mine' = [mine EXCEPT ![e] = s] /\ s <= session'
  /\ session' \in 0..budget.sessions /\ session <= session'
  /\ opened' \in 0..session' /\ opened <= opened' /\ (e = "server" => s <= opened') /\ Fresh'
  /\ c \in Conns /\ c.ack = 0 /\ c.seq = 0 /\ c.buffer = <<>> /\ c.construct = EmptyConstruct
  /\ c.state # "offline" /\ IsFiniteSet(c.out) /\ (\A p \in c.out : Genuine(e, p)') /\ Transmit(e, c, net)
  /\ rest' = rest /\ rest[e] = <<>> /\ unkept' = [unkept EXCEPT ![e] = {}]
  /\ spoilt \subseteq spoilt' /\ (s \notin spoilt' => sent[e][s] = 0 /\ got[e][s] = 0)
  /\ UNCHANGED <<budget, sent, got, odd>>

LEMMA Enters ==
  ASSUME IInv, NEW e \in Ends, NEW s, NEW c, Begin(e, s, c)
  PROVE  IInv'
<1> USE DEF Begin
<1> DEFINE o == Peer(e)
<1>1. /\ Types /\ Room /\ odd \subseteq spoilt /\ Ahead /\ o \in Ends /\ o # e
  BY Peers DEF IInv, InOrderOnce
<1>2. budget.sessions \in Nat /\ session \in Nat /\ session' \in Nat /\ opened \in Nat /\ opened' \in Nat
  BY <1>1, BoundsAssumption DEF Types
<1>3. /\ conn' \in [Ends -> Conns] /\ net' \in [Ends -> SUBSET Packets] /\ Room' /\ conn'[o] = conn[o]
      /\ conn'[e].state # "offline" /\ conn'[e].seq = 0 /\ conn'[e].ack = 0
      /\ conn'[e].buffer = <<>> /\ conn'[e].construct = EmptyConstruct
      /\ net'[e] = net[e] /\ \A p \in net'[o] : p \in net[o] \/ p \in c.out
  <2>1. Len(c.buffer) <= BufferCap /\ Len(c.construct.chunks) <= budget.packet
    BY <1>1, EmptyLine, SequenceAssumption, BoundsAssumption DEF Types
  <2> QED BY <1>1, <2>1, TransmitFits
<1>4. mine' \in [Ends -> 0..session'] /\ mine'[e] = s /\ mine'[o] = mine[o] /\ mine'["server"] <= opened'
  <2>1. mine \in [Ends -> 0..session] /\ mine["server"] <= opened /\ mine["server"] \in Nat
    <3>1. mine \in [Ends -> 0..session] /\ mine["server"] <= opened
      BY <1>1 DEF Types
    <3> QED BY <1>2, <3>1 DEF Ends
  <2>2. mine \in [Ends -> 0..session'] /\ s \in 0..session'
    BY <1>2, <2>1
  <2>3. mine' \in [Ends -> 0..session'] /\ mine'[e] = s /\ mine'[o] = mine[o]
    BY <1>1, <2>2
  <2>4. e = "server" \/ o = "server"
    BY Peers DEF Ends
  <2>5. mine["server"] <= opened'
    BY <1>2, <2>1
  <2> QED BY <2>3, <2>4, <2>5
<1>5. unkept' \in [Ends -> SUBSET Nat] /\ unkept'[o] = unkept[o]
  BY <1>1 DEF Types
<1>6. Types'
  BY <1>1, <1>3, <1>4, <1>5 DEF Types
<1>7. Grows
  <2>1. \A x \in Ends : \A y \in Sessions : sent[x][y] <= sent'[x][y] /\ got[x][y] <= got'[x][y]
    BY <1>1, NothingCounted
  <2> QED BY <2>1 DEF Grows
<1>8. StepOf(e)
  BY <1>3, <1>4, <1>5 DEF StepOf
<1>9. s \in Sessions /\ got[o][s] \in Nat /\ MaxSeq \in Nat /\ MaxSeq > 1
  <2>1. s \in 1..budget.sessions
    BY <1>2
  <2>2. s \in Sessions
    BY <1>1, <2>1, SessionsReach DEF Types
  <2> QED BY <1>1, <2>2, SequenceAssumption DEF Types
<1>10. EndInv(e)'
  <2>1. InSession(e)'
    BY <1>3, <1>4 DEF InSession
  <2>2. s \notin spoilt' => sent'[e][s] = 0 /\ got'[e][s] = 0
    OBVIOUS
  <2>3. ASSUME s \notin spoilt' PROVE Right(e, conn[e], s, sent[e][s])'
    <3>1. 0 % MaxSeq = 0
      BY <1>9
    <3>2. /\ Buffered(<<>>, s, 0)' /\ Line(<<>>, s, 0) /\ EmptyConstruct.chunks = <<>>
      BY EmptyLine DEF Buffered
    <3> QED BY <1>3, <2>2, <2>3, <3>1, <3>2 DEF Right, Buffered
  <2>4. Numbers(e)'
    BY <1>4, <2>3 DEF Numbers, Promised
  <2>5. InTime(e, rest[e], s)'
    <3>1. Line(<<>>, s, sent'[o][s])
      BY EmptyLine
    <3> QED BY <3>1, EmptyLine DEF InTime
  <2>6. Fetching(e)'
    BY <1>4, <2>5 DEF Fetching, Promised
  <2>7. ASSUME s \notin spoilt', NEW m \in (got'[o][s] + 1)..sent'[e][s] PROVE FALSE
    BY <1>9, <2>2, <2>7
  <2>8. Kept(e)'
    BY <1>4, <2>7 DEF Kept, Promised
  <2> QED BY <2>1, <2>4, <2>6, <2>8 DEF EndInv
<1>11. ASSUME NEW y \in Sessions, Promised(y)' PROVE sent'[e][y] - got[o][y] <= MaxSeq
  <2>1. Promised(y)
    BY <1>11 DEF Promised
  <2> QED BY <1>1, <2>1 DEF Ahead
<1>12. odd' \subseteq spoilt' /\ net'[e] \subseteq net[e]
  BY <1>1, <1>3
<1> QED BY <1>3, <1>6, <1>7, <1>8, <1>10, <1>11, <1>12, StepHolds

\* Packets come or go, and nothing else.
LEMMA Says ==
  ASSUME IInv, NEW e \in Ends, Types', Room', conn'[Peer(e)] = conn[Peer(e)],
         conn'[e].state = conn[e].state, conn'[e].seq = conn[e].seq, conn'[e].ack = conn[e].ack,
         conn'[e].buffer = conn[e].buffer, conn'[e].construct = conn[e].construct,
         net'[e] \subseteq net[e], \A p \in net'[Peer(e)] : p \in net[Peer(e)] \/ Genuine(e, p)',
         UNCHANGED <<rest, session, ghosts>>
  PROVE  IInv'
<1>1. Types /\ Ahead /\ Fresh /\ EndInv(e) /\ odd \subseteq spoilt
  BY DEF IInv, InOrderOnce
<1>2. /\ budget' = budget /\ mine' = mine /\ opened' = opened /\ sent' = sent /\ got' = got
      /\ unkept' = unkept /\ odd' = odd /\ spoilt' = spoilt /\ rest' = rest /\ session' = session
  BY DEF ghosts
<1>3. Grows
  <2>1. \A x \in Ends : \A y \in Sessions : sent[x][y] <= sent'[x][y] /\ got[x][y] <= got'[x][y]
    BY <1>1, <1>2, NothingCounted
  <2>2. session <= session'
    BY <1>1, <1>2, BoundsAssumption DEF Types
  <2> QED BY <1>2, <2>1, <2>2 DEF Grows
<1>4. StepOf(e)
  BY <1>2 DEF StepOf
<1>5. Fresh'
  BY <1>1, <1>2 DEF Fresh
<1>6. InSession(e)'
  BY <1>1, <1>2 DEF EndInv, InSession
<1>7. Numbers(e)'
  BY <1>1, <1>2 DEF EndInv, Numbers, Right, Promised, Buffered, Line
<1>8. Fetching(e)'
  BY <1>1, <1>2 DEF EndInv, Fetching, InTime, Promised
<1>9. Kept(e)'
  BY <1>1, <1>2 DEF EndInv, Kept, Promised
<1>10. EndInv(e)'
  BY <1>6, <1>7, <1>8, <1>9 DEF EndInv
<1>11. \A y \in Sessions : Promised(y)' => sent'[e][y] - got[Peer(e)][y] <= MaxSeq
  BY <1>1, <1>2 DEF Ahead, Promised
<1> QED BY <1>1, <1>2, <1>3, <1>4, <1>5, <1>10, <1>11, StepHolds

-----------------------------------------------------------------------------
(* Chunks that are fetched *)

\* In a session that is not spoilt, what has the next number is the next chunk.
LEMMA NextIsNext ==
  ASSUME IInv, NEW e \in Ends, Promised(mine[e]), NEW i \in 1..Len(rest[e]), InSequence(conn[e], rest[e][i])
  PROVE  LET k == rest[e][i] IN k.ses = mine[e] /\ k.id = got[e][mine[e]] + 1
<1> DEFINE o == Peer(e)
           s == mine[e]
           k == rest[e][i]
           g == got[e][s]
<1>1. /\ Types /\ Ahead /\ EndInv(e) /\ o \in Ends /\ Peer(o) = e /\ s \in Sessions /\ g \in Nat /\ sent[o][s] \in Nat
  BY TheSession, Peers DEF IInv, Promised
<1>2. k \in Chunk
  BY <1>1 DEF Types
<1>3. k.id \in Nat
  BY <1>2 DEF Chunk
<1>4. InTime(e, rest[e], s) /\ conn[e].ack = g % MaxSeq
  BY <1>1 DEF EndInv, Fetching, Numbers, Right
<1>5. Numbered(k, s, sent[o][s]) /\ g - k.id < MaxSeq - 1
  BY <1>4 DEF InTime, Line
<1>6. sent[o][s] - g <= MaxSeq
  BY <1>1 DEF Ahead
<1>7. k.id % MaxSeq = (g + 1) % MaxSeq
  <2>1. k.seq = (conn[e].ack + 1) % MaxSeq
    BY DEF InSequence
  <2>2. ((g % MaxSeq) + 1) % MaxSeq = (g + 1) % MaxSeq
    BY <1>1, NextNumber
  <2> QED BY <1>4, <1>5, <2>1, <2>2 DEF Numbered
<1>8. k.ses = s /\ k.id <= sent[o][s] /\ MaxSeq \in Nat
  BY <1>5, SequenceAssumption DEF Numbered
<1> HIDE DEF k, g, s, o
<1>9. k.id - (g + 1) < MaxSeq /\ (g + 1) - k.id < MaxSeq /\ g + 1 \in Nat
  BY <1>1, <1>3, <1>5, <1>6, <1>8
<1>10. k.id = g + 1
  BY <1>3, <1>7, <1>9, SameNumber
<1> QED BY <1>8, <1>10 DEF k, g, s

LEMMA FetchHolds ==
  ASSUME IInv, NEW e \in Ends, FetchChunk(e)
  PROVE  IInv'
<1> DEFINE o == Peer(e)
           c == conn[e]
           r == rest[e]
           s == mine[e]
           next == {i \in 1..Len(r) : InSequence(c, r[i])}
           last == IF next = {} THEN Len(r) + 1 ELSE Min(next)
           d == IF \E i \in 1..(last - 1) : ~IsSeqInBackroom(r[i].seq, c.ack) THEN SignalResend(c) ELSE c
           q == SubSeq(r, last + 1, Len(r))
           k == r[last]
           ack == IF next = {} THEN c.ack ELSE k.seq
           count == next # {} /\ s # 0 /\ k.ses = s /\ k.id = got[e][s] + 1
<1>1. /\ Types /\ Room /\ Fresh /\ odd \subseteq spoilt /\ Ahead /\ EndInv(e)
      /\ o \in Ends /\ o # e /\ c \in Conns /\ r \in Seq(Chunk) /\ Len(r) \in Nat
  BY Peers DEF IInv, InOrderOnce, Types
<1>2. /\ r # <<>> /\ rest' = [rest EXCEPT ![e] = q]
      /\ next = {} => conn' = [conn EXCEPT ![e] = d] /\ UNCHANGED <<got, odd>>
      /\ next # {} => conn' = [conn EXCEPT ![e] = [d EXCEPT !.ack = k.seq]]
      /\ count => got' = [got EXCEPT ![e][s] = @ + 1] /\ UNCHANGED odd
      /\ next # {} /\ ~count => odd' = odd \cup {s} /\ UNCHANGED got
      /\ UNCHANGED <<net, session, budget, mine, opened, sent, unkept, spoilt>>
  BY DEF FetchChunk
<1>3. next # {} => last \in next
  <2>1. next \in SUBSET Nat
    OBVIOUS
  <2> HIDE DEF next
  <2> QED BY <2>1, Least
<1>4. next # {} => last \in 1..Len(r) /\ InSequence(c, k) /\ k \in Chunk
  <2>1. \A i \in next : i \in 1..Len(r) /\ InSequence(c, r[i])
    OBVIOUS
  <2> HIDE DEF last, next, c, r
  <2> QED BY <1>1, <1>3, <2>1
<1>5. last \in Nat /\ last >= 1
  BY <1>1, <1>4
<1>6. next # {} => k.seq \in Seqs
  BY <1>4 DEF Chunk
<1>7. d \in Conns /\ d.out = c.out /\ d.state = c.state /\ d.seq = c.seq /\ d.ack = c.ack /\ d.buffer = c.buffer
      /\ d.construct.chunks = c.construct.chunks
  <2> DEFINE u == SignalResend(c)
             t == [c.construct EXCEPT !.resend = TRUE]
  <2>1. c.construct \in Constructs
    BY <1>1 DEF Conns
  <2>2. t \in Constructs /\ t.chunks = c.construct.chunks
    BY <2>1 DEF Constructs
  <2>3. u = [c EXCEPT !.construct = t]
    BY <1>1 DEF SignalResend, Conns
  <2> HIDE DEF t
  <2>4. u \in Conns /\ u.out = c.out /\ u.state = c.state /\ u.seq = c.seq /\ u.ack = c.ack /\ u.buffer = c.buffer
        /\ u.construct.chunks = c.construct.chunks
    BY <1>1, <2>2, <2>3 DEF Conns
  <2>5. d = u \/ d = c
    OBVIOUS
  <2> HIDE DEF d, u
  <2> QED BY <1>1, <2>4, <2>5
<1> HIDE DEF d
<1>8. /\ q \in Seq(Chunk) /\ Len(q) \in Nat
      /\ \A i \in 1..Len(q) : next # {} /\ q[i] = r[last + i] /\ last + i \in last..Len(r) /\ last + i \in 1..Len(r)
  <2>1. CASE next = {}
    <3>1. q = <<>>
      BY <1>1, <2>1
    <3> HIDE DEF q
    <3> QED BY <3>1, EmptyLine
  <2>2. CASE next # {}
    <3>1. last \in 1..Len(r)
      BY <1>4, <2>2
    <3> HIDE DEF next, last, r
    <3>2. q = SubSeq(r, last + 1, Len(r))
      OBVIOUS
    <3> HIDE DEF q
    <3> QED BY <1>1, <2>2, <3>1, <3>2
  <2> QED BY <2>1, <2>2
<1> HIDE DEF next, last, q
<1>9. /\ conn' \in [Ends -> Conns] /\ conn'[o] = conn[o] /\ conn'[e].out = c.out /\ conn'[e].state = c.state
      /\ conn'[e].seq = c.seq /\ conn'[e].ack = ack /\ conn'[e].buffer = c.buffer
      /\ conn'[e].construct.chunks = c.construct.chunks
  <2>1. conn \in [Ends -> Conns]
    BY <1>1 DEF Types
  <2>2. CASE next = {}
    <3> HIDE DEF c, o
    <3> QED BY <1>1, <1>2, <1>7, <2>1, <2>2
  <2>3. CASE next # {}
    <3> DEFINE f == [d EXCEPT !.ack = k.seq]
    <3>1. f \in Conns /\ f.out = d.out /\ f.state = d.state /\ f.seq = d.seq /\ f.ack = k.seq /\ f.buffer = d.buffer
          /\ f.construct = d.construct
      BY <1>6, <1>7, <2>3 DEF Conns
    <3>2. conn' = [conn EXCEPT ![e] = f]
      BY <1>2, <2>3
    <3> HIDE DEF c, o, f, k
    <3> QED BY <1>1, <1>7, <2>1, <2>3, <3>1, <3>2
  <2> QED BY <2>2, <2>3
<1>10. rest' \in [Ends -> Seq(Chunk)] /\ rest'[e] = q /\ rest'[o] = rest[o]
  <2>1. rest \in [Ends -> Seq(Chunk)]
    BY <1>1 DEF Types
  <2> QED BY <1>1, <1>2, <1>8, <2>1
<1>11. count => s \in Sessions /\ got[e][s] \in Nat
  BY <1>1, TheSession
<1>12. /\ got' \in [Ends -> [Sessions -> Nat]] /\ got'[o] = got[o]
       /\ \A y \in Sessions : got'[e][y] = IF count /\ y = s THEN got[e][y] + 1 ELSE got[e][y]
  <2>1. got \in [Ends -> [Sessions -> Nat]]
    BY <1>1 DEF Types
  <2>2. CASE count
    <3>1. got' = [got EXCEPT ![e] = [got[e] EXCEPT ![s] = got[e][s] + 1]]
      BY <1>2, <2>2
    <3> HIDE DEF count, s
    <3> QED BY <1>1, <1>11, <2>1, <2>2, <3>1
  <2>3. CASE ~count
    <3>1. got' = got
      BY <1>2, <2>3
    <3> HIDE DEF count, s
    <3> QED BY <1>1, <2>1, <2>3, <3>1
  <2> QED BY <2>2, <2>3
<1>13. Types'
  BY <1>1, <1>2, <1>9, <1>10, <1>12 DEF Types
<1>14. Room'
  <2>1. ASSUME NEW x \in Ends
        PROVE  /\ conn'[x].out = {} /\ Len(conn'[x].buffer) <= BufferCap
               /\ Len(conn'[x].construct.chunks) <= budget.packet
               /\ IsFiniteSet(net[x]) /\ Cardinality(net[x]) <= MaxFlight(x)
    <3>1. /\ conn[x].out = {} /\ Len(conn[x].buffer) <= BufferCap /\ Len(conn[x].construct.chunks) <= budget.packet
          /\ IsFiniteSet(net[x]) /\ Cardinality(net[x]) <= MaxFlight(x)
      BY <1>1 DEF Room
    <3>2. x = e \/ x = o
      BY Peers
    <3> QED BY <1>9, <3>1, <3>2
  <2>2. \A x \in Ends : MaxFlight(x)' = MaxFlight(x)
    BY <1>2 DEF MaxFlight
  <2> QED BY <1>2, <2>1, <2>2 DEF Room
<1>15. Grows
  <2>1. ASSUME NEW x \in Ends, NEW y \in Sessions PROVE sent[x][y] <= sent'[x][y] /\ got[x][y] <= got'[x][y]
    <3>1. sent[x][y] \in Nat /\ got[x][y] \in Nat /\ sent'[x][y] = sent[x][y]
      BY <1>1, <1>2, <2>1 DEF Types
    <3>2. got'[x][y] = got[x][y] \/ got'[x][y] = got[x][y] + 1
      <4>1. x = e \/ x = o
        BY Peers
      <4> QED BY <1>12, <2>1, <4>1
    <3> QED BY <3>1, <3>2
  <2>2. session <= session'
    BY <1>1, <1>2, BoundsAssumption DEF Types
  <2> QED BY <1>2, <2>1, <2>2 DEF Grows
<1>16. StepOf(e)
  BY <1>2, <1>9, <1>10, <1>12 DEF StepOf
<1>17. Fresh'
  <2>1. s <= session /\ (e = "server" => s <= opened) /\ session \in Nat /\ opened \in Nat /\ s \in Nat
    BY <1>1, BoundsAssumption DEF Types
  <2>2. ASSUME NEW x \in Ends, NEW y \in Sessions, y > session PROVE sent[x][y] = 0 /\ got'[x][y] = 0
    <3>1. y # s /\ sent[x][y] = 0 /\ got[x][y] = 0
      BY <1>1, <2>1, <2>2 DEF Fresh
    <3>2. x = o \/ x = e
      BY Peers
    <3> QED BY <1>12, <3>1, <3>2
  <2>3. ASSUME NEW y \in Sessions, y > opened PROVE sent["server"][y] = 0 /\ got'["server"][y] = 0
    <3>1. sent["server"][y] = 0 /\ got["server"][y] = 0
      BY <1>1, <2>3 DEF Fresh
    <3>2. e = "server" => y # s
      BY <1>1, <2>1, <2>3
    <3>3. o = "server" \/ e = "server"
      BY Peers DEF Ends
    <3> QED BY <1>12, <3>1, <3>2, <3>3
  <2> QED BY <1>2, <2>2, <2>3 DEF Fresh
<1>18. ASSUME Promised(s), next # {}
       PROVE  count /\ s \in Sessions /\ got[e][s] \in Nat /\ got'[e][s] = got[e][s] + 1 /\ k.id = got'[e][s]
  <2>1. k.ses = s /\ k.id = got[e][s] + 1
    BY <1>1, <1>4, <1>18, NextIsNext
  <2>2. s # 0
    BY <1>18 DEF Promised
  <2>3. count
    BY <1>18, <2>1, <2>2
  <2> QED BY <1>11, <1>12, <2>1, <2>3
<1>19. ASSUME Promised(s), next = {} PROVE s \in Sessions /\ got[e][s] \in Nat /\ got'[e][s] = got[e][s]
  <2>1. s # 0
    BY <1>19 DEF Promised
  <2> QED BY <1>1, <1>12, <1>19, <2>1, TheSession
<1>20. odd' \subseteq spoilt'
  <2>1. CASE Promised(s)
    BY <1>1, <1>2, <1>18, <2>1
  <2>2. CASE ~Promised(s)
    <3>1. s \in spoilt
      <4>1. s = 0 => 0 \in spoilt
        BY <1>1, <1>2 DEF EndInv, InSession
      <4> QED BY <2>2, <4>1 DEF Promised
    <3> QED BY <1>1, <1>2, <3>1
  <2> QED BY <2>1, <2>2
<1>21. InSession(e)'
  <2>1. InSession(e)
    BY <1>1 DEF EndInv
  <2> QED BY <1>2, <1>9, <1>10, <2>1 DEF InSession
<1>22. Numbers(e)'
  <2>1. ASSUME Promised(s) PROVE Right(e, conn[e], s, sent[e][s])'
    <3>1. Right(e, c, s, sent[e][s])
      BY <1>1, <2>1 DEF EndInv, Numbers
    <3>2. ack = got'[e][s] % MaxSeq
      <4>1. CASE next = {}
        BY <1>19, <2>1, <3>1, <4>1 DEF Right
      <4>2. CASE next # {}
        <5>1. k.seq = k.id % MaxSeq
          <6>1. InTime(e, r, s) /\ last \in 1..Len(r)
            BY <1>1, <1>4, <2>1, <4>2 DEF EndInv, Fetching
          <6> QED BY <6>1 DEF InTime, Line, Numbered
        <5> QED BY <1>18, <2>1, <4>2, <5>1
      <4> QED BY <4>1, <4>2
    <3> QED BY <1>2, <1>9, <3>1, <3>2 DEF Right, Buffered, Line
  <2> QED BY <1>2, <2>1 DEF Numbers, Promised, Right
<1>23. Fetching(e)'
  <2>1. ASSUME Promised(s)
        PROVE  /\ Line(q, s, sent[o][s])
               /\ \A i \in 1..Len(q) : got'[e][s] - q[i].id < MaxSeq - 1
    <3>1. InTime(e, r, s)
      BY <1>1, <2>1 DEF EndInv, Fetching
    <3>2. Line(q, s, sent[o][s])
      <4>1. ASSUME NEW i \in 1..Len(q) PROVE Numbered(q[i], s, sent[o][s])
        BY <1>8, <3>1 DEF InTime, Line
      <4>2. ASSUME NEW i \in 1..Len(q), NEW j \in i..Len(q) PROVE q[i].id - q[j].id < MaxSeq - 1
        <5>1. j \in 1..Len(q) /\ last + j \in (last + i)..Len(r)
          BY <1>5, <1>8
        <5> QED BY <1>8, <3>1, <5>1 DEF InTime, Line
      <4> QED BY <4>1, <4>2 DEF Line
    <3>3. ASSUME NEW i \in 1..Len(q) PROVE got'[e][s] - q[i].id < MaxSeq - 1
      <4>1. next # {} /\ q[i] = r[last + i] /\ last + i \in last..Len(r) /\ last \in 1..Len(r)
        BY <1>4, <1>8
      <4>2. k.id - q[i].id < MaxSeq - 1
        BY <3>1, <4>1 DEF InTime, Line
      <4> QED BY <1>18, <2>1, <4>1, <4>2
    <3> QED BY <3>2, <3>3
  <2> QED BY <1>2, <1>10, <2>1 DEF Fetching, Promised, InTime
<1>24. Kept(e)'
  <2>1. ASSUME Promised(s), NEW n \in (got'[o][s] + 1)..sent'[e][s]
        PROVE  n \in unkept'[e] \/ \E i \in 1..Len(conn'[e].buffer) : conn'[e].buffer[i].id = n
    <3>1. /\ \A m \in (got[o][s] + 1)..sent[e][s] : m \in unkept[e] \/ \E i \in 1..Len(c.buffer) : c.buffer[i].id = m
          /\ n \in (got[o][s] + 1)..sent[e][s]
      BY <1>1, <1>2, <1>12, <2>1 DEF EndInv, Kept
    <3>2. n \in unkept[e] \/ \E i \in 1..Len(c.buffer) : c.buffer[i].id = n
      BY <3>1
    <3> QED BY <1>2, <1>9, <3>2
  <2> QED BY <1>2, <2>1 DEF Kept, Promised
<1>25. EndInv(e)'
  BY <1>21, <1>22, <1>23, <1>24 DEF EndInv
<1>26. ASSUME NEW y \in Sessions, Promised(y)' PROVE sent'[e][y] - got[o][y] <= MaxSeq
  BY <1>1, <1>2, <1>26 DEF Ahead, Promised
<1>27. net'[e] \subseteq net[e] /\ \A p \in net'[o] : p \in net[o]
  BY <1>2
<1> QED BY <1>13, <1>14, <1>15, <1>16, <1>17, <1>20, <1>25, <1>26, <1>27, StepHolds

-----------------------------------------------------------------------------
(* The actions *)

\* An end works in its session and submits nothing.
LEMMA WorksOn ==
  ASSUME IInv, NEW e \in Ends, mine[e] # 0, NEW s, s = (IF mine[e] \in spoilt' THEN 0 ELSE mine[e]),
         NEW c, Fit(e, c, s, sent[e][mine[e]]), c.state # "offline", Transmit(e, c, net),
         NEW q \in Seq(Chunk), rest' = [rest EXCEPT ![e] = q], s # 0 => InTime(e, q, s),
         s # 0 => KeepsAfter(conn[e], c, got[Peer(e)][s]), spoilt \subseteq spoilt',
         UNCHANGED <<session, budget, mine, opened, sent, got, unkept, odd>>
  PROVE  IInv'
<1> DEFINE t == mine[e]
           o == Peer(e)
           n == sent[e][t]
<1>1. Types /\ Ahead /\ EndInv(e) /\ t \in Sessions /\ n \in Nat /\ o \in Ends /\ got[o][t] \in Nat
  BY TheSession DEF IInv
<1>2. sent' = [sent EXCEPT ![e][t] = n]
  <2>1. sent \in [Ends -> [Sessions -> Nat]]
    BY <1>1 DEF Types
  <2>2. sent[e] = [sent[e] EXCEPT ![t] = n]
    BY <1>1, <2>1
  <2>3. sent = [sent EXCEPT ![e] = [sent[e] EXCEPT ![t] = n]]
    BY <2>1, <2>2
  <2> QED BY <2>3
<1>3. unkept' \in [Ends -> SUBSET Nat] /\ unkept'[o] = unkept[o]
  BY <1>1 DEF Types
<1>4. ASSUME s # 0 PROVE s = t /\ Promised(t)
  BY <1>4 DEF Promised
<1>5. s # 0 => n - got[o][s] <= MaxSeq
  BY <1>1, <1>4 DEF Ahead
<1>6. ASSUME s # 0, NEW m \in (got[o][s] + 1)..n
      PROVE  m \in unkept'[e] \/ \E i \in 1..Len(c.buffer) : c.buffer[i].id = m
  <2>1. CASE m \in unkept[e]
    BY <2>1
  <2>2. CASE m \notin unkept[e]
    <3>1. PICK i \in 1..Len(conn[e].buffer) : conn[e].buffer[i].id = m
      BY <1>1, <1>4, <1>6, <2>2 DEF EndInv, Kept
    <3>2. conn[e].buffer[i].id > got[o][s]
      BY <1>1, <1>4, <1>6, <3>1
    <3>3. PICK j \in 1..Len(c.buffer) : c.buffer[j] = conn[e].buffer[i]
      BY <1>6, <3>2 DEF KeepsAfter
    <3> QED BY <3>1, <3>3
  <2> QED BY <2>1, <2>2
<1>7. n \in Nat /\ sent[e][t] <= n /\ Fit(e, c, s, n)
  BY <1>1
<1>8. UNCHANGED <<session, budget, mine, opened, got, odd>>
  OBVIOUS
<1>9. s # 0 => \A m \in (got[o][s] + 1)..n :
                 m \in unkept'[e] \/ \E i \in 1..Len(c.buffer) : c.buffer[i].id = m
  BY <1>6
<1> HIDE DEF n
<1>10. Work(e, s, n, c, q)
  BY <1>2, <1>3, <1>5, <1>7, <1>8, <1>9 DEF Work
<1> QED BY <1>10, Works

\* What a connection that is as it was keeps.
LEMMA SameKeeps ==
  ASSUME NEW c, NEW d, Same(c, d)
  PROVE  /\ \A m : KeepsAfter(c, d, m)
         /\ \A x, m : KeepsAfter(d, x, m) => KeepsAfter(c, x, m)
BY DEF Same, KeepsAfter

\* A packet that is not stale: its acknowledgement is one of chunks of the
\* session, and its chunks are of that session and in time.
LEMMA Received ==
  ASSUME IInv, NEW e \in Ends, Promised(mine[e]), NEW p \in net[e], ~Stale(e, p)
  PROVE  LET s == mine[e] IN
         /\ AckOf(p.ack, p.n, sent[e][s]) /\ p.n <= got[Peer(e)][s] /\ InTime(e, p.chunks, s)
<1> DEFINE s == mine[e]
           o == Peer(e)
<1>1. /\ Types /\ s \in Sessions /\ sent[e][s] \in Nat /\ o \in Ends /\ got[o][s] \in Nat /\ got[e][s] \in Nat
  BY TheSession DEF IInv, Promised
<1>2. Genuine(o, p) /\ p \in Packets
  BY DEF IInv, OnTheWay, Types
<1>3. /\ p.kind = "connectaccept" \/ p.ses = s
      /\ \A i \in 1..Len(p.chunks) : ~(got[e][s] - p.chunks[i].id >= MaxSeq - 1)
      /\ ~(2 * (sent[e][s] - p.n) >= MaxSeq)
  BY DEF Stale, Promised
<1>4. p.n \in Nat /\ p.chunks \in Seq(Chunk) /\ MaxSeq \in Nat /\ MaxSeq > 0
  BY <1>2, SequenceAssumption DEF Packets
<1>5. 2 * (sent[e][s] - p.n) < MaxSeq
  BY <1>1, <1>3, <1>4
<1>6. ASSUME NEW i \in 1..Len(p.chunks) PROVE got[e][s] - p.chunks[i].id < MaxSeq - 1
  <2>1. p.chunks[i] \in Chunk
    BY <1>4
  <2>2. p.chunks[i].id \in Nat
    BY <2>1 DEF Chunk
  <2> QED BY <1>1, <1>3, <1>4, <2>2
<1>7. p.n <= got[o][s] /\ p.ack = p.n % MaxSeq /\ Line(p.chunks, s, sent[o][s])
  <2>1. CASE p.kind = "connectaccept"
    <3>1. p.ses = 0
      BY <1>2, <2>1 DEF Genuine
    <3>2. p.ack = 0 /\ p.n = 0
      BY <1>2, <3>1 DEF Genuine
    <3>3. p.chunks = <<>>
      BY <1>2, <2>1 DEF Genuine
    <3>4. 0 % MaxSeq = 0
      BY <1>4
    <3> QED BY <1>1, <3>2, <3>3, <3>4, EmptyLine
  <2>2. CASE p.ses = s
    BY <1>2, <2>2 DEF Genuine
  <2> QED BY <1>3, <2>1, <2>2
<1> QED BY <1>4, <1>5, <1>6, <1>7 DEF AckOf, InTime

LEMMA TakeHolds ==
  ASSUME IInv, NEW e \in Ends, mine[e] # 0, NEW s, s = (IF mine[e] \in spoilt' THEN 0 ELSE mine[e]),
         NEW p \in net[e], NEW c, Same(conn[e], c), Fit(e, c, s, sent[e][mine[e]]),
         rest[e] = <<>>, Take(e, c, p), MarkStale(e, p),
         UNCHANGED <<session, budget, mine, opened, sent, got, unkept, odd>>
  PROVE  IInv'
<1> DEFINE t == mine[e]
           n == sent[e][t]
<1>1. /\ Types /\ EndInv(e) /\ t \in Sessions /\ n \in Nat /\ Peer(e) \in Ends /\ got[Peer(e)][t] \in Nat
  BY TheSession DEF IInv
<1>2. c.state # "offline" /\ Acts(e, s, n) /\ p \in Packets
  BY <1>1 DEF EndInv, InSession, Same, Acts, Types
<1>3. AckIsValid(c, p.ack) <=> AckIsValid(conn[e], p.ack)
  BY DEF AckIsValid, Same
<1>4. spoilt \subseteq spoilt'
  BY DEF MarkStale
<1>5. s # 0 => InTime(e, <<>>, s)
  BY EmptyLine DEF InTime
<1>6. CASE ~AckIsValid(c, p.ack)
  <2>1. Transmit(e, c, net) /\ rest' = rest
    BY <1>6 DEF Take
  <2>2. <<>> \in Seq(Chunk) /\ rest' = [rest EXCEPT ![e] = <<>>]
    BY <1>1, <2>1 DEF Types
  <2>3. KeepsAfter(conn[e], c, got[Peer(e)][s])
    BY SameKeeps
  <2> QED BY <1>2, <1>4, <1>5, <2>1, <2>2, <2>3, WorksOn
<1>7. CASE AckIsValid(c, p.ack)
  <2> DEFINE d == Feed(e, c, p)
             q == IF p.kind = "close" THEN <<>> ELSE p.chunks
  <2>1. Transmit(e, d, net) /\ rest' = [rest EXCEPT ![e] = q]
    BY <1>7 DEF Take
  <2>2. Fit(e, d, s, n) /\ d.state # "offline" /\ (s # 0 /\ AckOf(p.ack, p.n, n) => KeepsAfter(c, d, p.n))
    BY <1>2, FeedFits
  <2> HIDE DEF d
  <2>3. q \in Seq(Chunk)
    BY <1>2 DEF Packets
  <2>4. ASSUME s # 0
        PROVE  s = t /\ AckOf(p.ack, p.n, n) /\ p.n <= got[Peer(e)][s] /\ p.n \in Nat /\ InTime(e, p.chunks, s)
    <3>1. s = t /\ t \notin spoilt' /\ Promised(t)
      BY <1>4, <2>4 DEF Promised
    <3>2. ~Stale(e, p)
      BY <1>3, <1>7, <3>1 DEF MarkStale
    <3>3. p.n \in Nat
      BY <1>2 DEF Packets
    <3> QED BY <3>1, <3>2, <3>3, Received
  <2>5. s # 0 => InTime(e, q, s)
    BY <1>5, <2>4
  <2>6. s # 0 => KeepsAfter(conn[e], d, got[Peer(e)][s])
    <3>1. ASSUME s # 0, NEW i \in 1..Len(c.buffer), c.buffer[i].id > got[Peer(e)][s]
          PROVE  \E j \in 1..Len(d.buffer) : d.buffer[j] = c.buffer[i]
      <4>1. c.buffer \in Seq(Chunk)
        BY DEF Fit, Conns
      <4>2. c.buffer[i] \in Chunk
        BY <4>1
      <4>3. c.buffer[i].id > p.n
        BY <1>1, <2>4, <3>1, <4>2 DEF Chunk
      <4> QED BY <2>2, <2>4, <3>1, <4>3 DEF KeepsAfter
    <3>2. s # 0 => KeepsAfter(c, d, got[Peer(e)][s])
      BY <3>1 DEF KeepsAfter
    <3> QED BY <3>2, SameKeeps
  <2> HIDE DEF q
  <2> QED BY <1>4, <2>1, <2>2, <2>3, <2>5, <2>6, WorksOn
<1> QED BY <1>6, <1>7

\* What end e may count on while it works in its session.
LEMMA AtWork ==
  ASSUME IInv, NEW e \in Ends, mine[e] # 0, spoilt \subseteq spoilt',
         NEW s, s = (IF mine[e] \in spoilt' THEN 0 ELSE mine[e])
  PROVE  /\ Acts(e, s, sent[e][mine[e]]) /\ Fit(e, conn[e], s, sent[e][mine[e]]) /\ conn[e].state # "offline"
         /\ s # 0 => Promised(s) /\ s = mine[e]
         /\ rest[e] \in Seq(Chunk)
         /\ rest' = rest => rest' = [rest EXCEPT ![e] = rest[e]]
         /\ s # 0 => InTime(e, rest[e], s)
<1>1. Types /\ EndInv(e)
  BY DEF IInv
<1>2. s \in {0, mine[e]} /\ (s # 0 => s \notin spoilt /\ s = mine[e] /\ Promised(s))
  BY DEF Promised
<1>3. Acts(e, s, sent[e][mine[e]]) /\ Fit(e, conn[e], s, sent[e][mine[e]])
  BY <1>2, ConnFits
<1>4. conn[e].state # "offline"
  BY <1>1 DEF EndInv, InSession
<1>5. rest[e] \in Seq(Chunk) /\ rest = [rest EXCEPT ![e] = rest[e]]
  BY <1>1 DEF Types
<1>6. s # 0 => InTime(e, rest[e], s)
  BY <1>1, <1>2 DEF EndInv, Fetching
<1> QED BY <1>2, <1>3, <1>4, <1>5, <1>6

\* An end that says something, repeats something or flushes.
LEMMA SpeaksHolds ==
  ASSUME IInv, NEW e \in Ends, mine[e] # 0, NEW c, Transmit(e, c, net), Same(conn[e], c),
         UNCHANGED <<rest, session, budget, mine, opened, sent, got, unkept, odd, spoilt>>,
         \A s : Acts(e, s, sent[e][mine[e]]) /\ Fit(e, conn[e], s, sent[e][mine[e]])
                => Fit(e, c, s, sent[e][mine[e]])
  PROVE  IInv'
<1> DEFINE s == IF mine[e] \in spoilt' THEN 0 ELSE mine[e]
           q == rest[e]
<1>1. spoilt \subseteq spoilt'
  OBVIOUS
<1>2. /\ Acts(e, s, sent[e][mine[e]]) /\ Fit(e, conn[e], s, sent[e][mine[e]]) /\ conn[e].state # "offline"
      /\ q \in Seq(Chunk) /\ rest' = [rest EXCEPT ![e] = q]
      /\ s # 0 => InTime(e, q, s)
  BY <1>1, AtWork
<1>3. Fit(e, c, s, sent[e][mine[e]]) /\ c.state # "offline"
  BY <1>2 DEF Same
<1>4. KeepsAfter(conn[e], c, got[Peer(e)][s])
  BY SameKeeps
<1> QED BY <1>1, <1>2, <1>3, <1>4, WorksOn

LEMMA FlushNowHolds ==
  ASSUME IInv, NEW e \in Ends, FlushNow(e)
  PROVE  IInv'
<1>1. Transmit(e, Flush(e, conn[e]), net) /\ UNCHANGED <<rest, session, ghosts>> /\ conn[e].state = "online"
  BY DEF FlushNow
<1>2. mine[e] # 0
  BY <1>1 DEF IInv, EndInv, InSession
<1>3. ASSUME NEW s, Acts(e, s, sent[e][mine[e]]), Fit(e, conn[e], s, sent[e][mine[e]])
      PROVE  Fit(e, Flush(e, conn[e]), s, sent[e][mine[e]]) /\ Same(conn[e], Flush(e, conn[e]))
  BY <1>3, FlushFits
<1>4. Same(conn[e], Flush(e, conn[e]))
  <2>1. 0 \in {0, mine[e]}
    OBVIOUS
  <2> QED BY <1>2, <1>3, <2>1, ConnFits
<1> QED BY <1>1, <1>2, <1>3, <1>4, SpeaksHolds DEF ghosts

LEMMA UpdateHolds ==
  ASSUME IInv, NEW e \in Ends, NEW due, Update(e, due)
  PROVE  IInv'
<1> DEFINE over == conn[e].state = "error" \/ (conn[e].state = "online" /\ "dead" \in due)
<1>1. /\ rest[e] = <<>> /\ conn[e].state # "offline"
      /\ Transmit(e, IF over THEN Reset(conn[e]) ELSE UpdateOpen(e, conn[e], due), net)
      /\ mine' = IF over THEN [mine EXCEPT ![e] = 0] ELSE mine
      /\ UNCHANGED <<rest, session, budget, opened, sent, got, unkept, odd, spoilt>>
  BY DEF Update, BetweenPackets
<1>2. mine[e] # 0
  BY <1>1 DEF IInv, EndInv, InSession
<1> HIDE DEF over
<1>3. CASE over
  <2> DEFINE s == IF mine[e] \in spoilt' THEN 0 ELSE mine[e]
  <2>1. Fit(e, conn[e], s, sent[e][mine[e]])
    BY <1>1, <1>2, AtWork
  <2>2. Transmit(e, Reset(conn[e]), net) /\ mine' = [mine EXCEPT ![e] = 0]
    BY <1>1, <1>3
  <2> QED BY <1>1, <1>2, <2>1, <2>2, Leaves
<1>4. CASE ~over
  <2> DEFINE c == UpdateOpen(e, conn[e], due)
  <2>1. Transmit(e, c, net) /\ mine' = mine
    BY <1>1, <1>4
  <2>2. ASSUME NEW s, Acts(e, s, sent[e][mine[e]]), Fit(e, conn[e], s, sent[e][mine[e]])
        PROVE  Fit(e, c, s, sent[e][mine[e]]) /\ Same(conn[e], c)
    BY <2>2, UpdateFits
  <2>3. Same(conn[e], c)
    <3>1. 0 \in {0, mine[e]}
      OBVIOUS
    <3> QED BY <1>2, <2>2, <3>1, ConnFits
  <2> HIDE DEF c
  <2> QED BY <1>1, <1>2, <2>1, <2>2, <2>3, SpeaksHolds
<1> QED BY <1>3, <1>4

LEMMA DisconnectHolds ==
  ASSUME IInv, NEW e \in Ends, Disconnect(e)
  PROVE  IInv'
<1> DEFINE c == IF conn[e].state = "online" THEN SendControl(e, conn[e], "close") ELSE conn[e]
           s == IF mine[e] \in spoilt' THEN 0 ELSE mine[e]
<1>1. /\ conn[e].state # "offline" /\ Transmit(e, Reset(c), net) /\ mine' = [mine EXCEPT ![e] = 0]
      /\ spoilt' = (IF rest[e] = <<>> THEN spoilt ELSE spoilt \cup {0})
      /\ UNCHANGED <<rest, session, budget, opened, sent, got, unkept, odd>>
  BY DEF Disconnect
<1>2. mine[e] # 0 /\ spoilt \subseteq spoilt' /\ (rest[e] # <<>> => 0 \in spoilt')
  BY <1>1 DEF IInv, EndInv, InSession
<1>3. Acts(e, s, sent[e][mine[e]]) /\ Fit(e, conn[e], s, sent[e][mine[e]])
  BY <1>2, AtWork
<1>4. Fit(e, c, s, sent[e][mine[e]])
  <2>1. "close" \in Kinds \ {"connectaccept"}
    BY DEF Kinds
  <2> HIDE DEF s
  <2>2. Fit(e, SendControl(e, conn[e], "close"), s, sent[e][mine[e]])
    BY <1>3, <2>1, ControlFits
  <2> QED BY <1>3, <2>2
<1> HIDE DEF c
<1> QED BY <1>1, <1>2, <1>4, Leaves

LEMMA SubmitHolds ==
  ASSUME IInv, NEW e \in Ends, Submit(e)
  PROVE  IInv'
<1> DEFINE t == mine[e]
           o == Peer(e)
           n == sent[e][t] + 1
           s == IF t \in spoilt' THEN 0 ELSE t
           seq == (conn[e].seq + 1) % MaxSeq
           c == [conn[e] EXCEPT !.seq = seq]
           k == [seq |-> seq, id |-> n, ses |-> t]
           d == QueueChunkEx(e, c, k, FALSE)
           q == rest[e]
<1>1. /\ t # 0 /\ conn[e].state = "online" /\ Transmit(e, d, net)
      /\ sent' = [sent EXCEPT ![e][t] = n]
      /\ unkept' = IF Len(conn[e].buffer) < BufferCap THEN unkept ELSE [unkept EXCEPT ![e] = @ \cup {n}]
      /\ spoilt' = IF Overrun(e, n) THEN spoilt \cup {t} ELSE spoilt
      /\ UNCHANGED <<rest, session, budget, mine, opened, got, odd>>
  BY DEF Submit
<1>2. /\ Types /\ EndInv(e) /\ t \in Sessions /\ sent[e][t] \in Nat /\ o \in Ends /\ o # e /\ got[o][t] \in Nat
      /\ conn[e] \in Conns /\ spoilt \subseteq spoilt'
  BY <1>1, TheSession DEF IInv, Types
<1>3. /\ Acts(e, s, sent[e][t]) /\ Fit(e, conn[e], s, sent[e][t])
      /\ s # 0 => Promised(s) /\ s = t
      /\ q \in Seq(Chunk) /\ rest' = [rest EXCEPT ![e] = q]
      /\ s # 0 => InTime(e, q, s)
  BY <1>1, <1>2, AtWork
<1>4. n \in Nat \ {0} /\ sent[e][t] <= n /\ n = sent[e][t] + 1
  BY <1>2
<1>5. seq \in Seqs /\ k \in Chunk /\ k.seq = seq /\ k.id = n /\ k.ses = t
  <2>1. conn[e].seq \in Nat
    BY <1>2 DEF Conns, Seqs
  <2>2. conn[e].seq + 1 \in Nat
    BY <2>1
  <2>3. seq \in Seqs
    BY <2>2, Round
  <2> HIDE DEF n, seq, t
  <2> QED BY <1>2, <1>4, <2>3 DEF Chunk
<1>6. c \in Conns /\ c.seq = seq /\ c.ack = conn[e].ack /\ c.buffer = conn[e].buffer /\ c.out = conn[e].out
      /\ c.construct = conn[e].construct /\ c.state = "online"
  <2> HIDE DEF seq
  <2> QED BY <1>1, <1>2, <1>5 DEF Conns
<1> HIDE DEF c, k
<1>7. s # 0 => s = t /\ conn[e].seq = sent[e][t] % MaxSeq /\ ~Overrun(e, n)
               /\ Buffered(conn[e].buffer, s, sent[e][t]) /\ Line(conn[e].construct.chunks, s, sent[e][t])
  BY <1>1, <1>3 DEF Fit, Right
<1>8. s # 0 => seq = n % MaxSeq
  <2>1. ((sent[e][t] % MaxSeq) + 1) % MaxSeq = n % MaxSeq
    BY <1>2, NextNumber
  <2> QED BY <1>7, <2>1
<1> HIDE DEF seq, n
<1>9. s # 0 => n - got[o][t] <= MaxSeq
  <2>1. s # 0 => ~(n - got[o][t] > MaxSeq)
    BY <1>7 DEF Overrun
  <2> QED BY <1>2, <1>4, <2>1, SequenceAssumption
<1>10. \A i \in 1..Len(conn[e].buffer) : conn[e].buffer[i] \in Chunk
  BY <1>2 DEF Conns
<1>11. ASSUME s # 0, NEW i \in 1..Len(conn[e].buffer)
       PROVE  /\ Numbered(conn[e].buffer[i], s, n) /\ conn[e].buffer[i].id < n
              /\ budget.packet > 1 => n - conn[e].buffer[i].id < MaxSeq - 1
  <2> DEFINE b == conn[e].buffer
  <2>1. b \in Seq(Chunk) /\ Buffered(b, s, sent[e][t]) /\ ~Overrun(e, n)
    BY <1>2, <1>7, <1>11 DEF Conns
  <2>2. 1 \in 1..Len(b) /\ b # <<>> /\ Head(b) = b[1]
    BY <1>11, <2>1
  <2>3. budget.packet > 1 => ~(n - b[1].id >= MaxSeq - 1)
    BY <2>1, <2>2 DEF Overrun
  <2>4. b[i] \in Chunk /\ b[1] \in Chunk
    BY <1>10, <1>11, <2>2
  <2>5. b[1].id <= b[i].id
    <3>1. CASE i = 1
      BY <2>4, <3>1 DEF Chunk
    <3>2. CASE i # 1
      <4>1. b[1].id < b[i].id
        BY <1>11, <2>1, <2>2, <3>2 DEF Buffered
      <4> QED BY <2>4, <4>1 DEF Chunk
    <3> QED BY <3>1, <3>2
  <2>6. Numbered(b[i], s, sent[e][t])
    BY <1>11, <2>1 DEF Buffered
  <2> HIDE DEF b
  <2>7. b[i].id <= sent[e][t] /\ b[i].id \in Nat /\ b[1].id \in Nat /\ MaxSeq \in Nat
    BY <2>4, <2>6, SequenceAssumption DEF Numbered, Chunk
  <2>8. b[i].id < n /\ b[i].id <= n /\ (budget.packet > 1 => n - b[i].id < MaxSeq - 1)
    <3> DEFINE x == b[i].id
               y == b[1].id
               z == sent[e][t]
    <3>1. x \in Nat /\ y \in Nat /\ z \in Nat /\ n \in Nat /\ x <= z /\ n = z + 1 /\ y <= x /\ MaxSeq \in Nat
      BY <1>2, <1>4, <2>5, <2>7
    <3>2. budget.packet > 1 => ~(n - y >= MaxSeq - 1)
      BY <2>3
    <3> HIDE DEF x, y, z
    <3>3. x < n /\ x <= n /\ (~(n - y >= MaxSeq - 1) => n - x < MaxSeq - 1)
      BY <3>1
    <3> QED BY <3>2, <3>3 DEF x
  <2> QED BY <2>6, <2>8 DEF Numbered, b
<1>12. Acts(e, s, n)
  BY <1>3, <1>4 DEF Acts
<1>13. Fit(e, c, s, n)
  <2>1. s # 0 => Buffered(c.buffer, s, n)
    BY <1>6, <1>7, <1>11 DEF Buffered
  <2>2. s # 0 => Line(c.construct.chunks, s, n)
    <3>1. conn[e].construct.chunks \in Seq(Chunk)
      BY <1>2 DEF Conns, Constructs
    <3> QED BY <1>2, <1>4, <1>6, <1>7, <3>1, LineStays
  <2>3. s # 0 => c.ack = got[e][s] % MaxSeq /\ c.seq = n % MaxSeq
    BY <1>3, <1>6, <1>8 DEF Fit, Right
  <2>4. conn[e].out = {} /\ Len(conn[e].buffer) <= BufferCap /\ Len(conn[e].construct.chunks) <= budget.packet
    BY DEF IInv, Room
  <2>5. IsFiniteSet(c.out) /\ \A p \in c.out : Sent(e, p, s, n)
    BY <1>6, <2>4, FS_EmptySet
  <2> QED BY <1>6, <2>1, <2>2, <2>3, <2>4, <2>5 DEF Fit, Right
<1>14. /\ Fit(e, d, s, n) /\ d.state = "online"
       /\ d.buffer = IF Len(conn[e].buffer) < BufferCap THEN Append(conn[e].buffer, k) ELSE conn[e].buffer
  <2>1. s # 0 => Numbered(k, s, n)
    BY <1>4, <1>5, <1>7, <1>8 DEF Numbered
  <2>2. s # 0 => \A i \in 1..Len(c.buffer) : c.buffer[i].id < n
    BY <1>6, <1>11
  <2> HIDE DEF s, t
  <2>3. Queues(e, c, s, n, k)
    BY <1>4, <1>5, <1>6, <1>12, <1>13, <2>1, <2>2 DEF Queues
  <2>4. Queued(e, c, s, n, k, d)
    BY <2>3, QueueFits
  <2> HIDE DEF d
  <2> QED BY <1>6, <2>4 DEF Queued
<1> HIDE DEF d
<1>15. unkept' \in [Ends -> SUBSET Nat] /\ unkept'[o] = unkept[o] /\ unkept[e] \subseteq unkept'[e]
       /\ (~(Len(conn[e].buffer) < BufferCap) => n \in unkept'[e])
  <2>1. unkept \in [Ends -> SUBSET Nat]
    BY <1>2 DEF Types
  <2> QED BY <1>1, <1>2, <1>4, <2>1
<1>16. /\ \A i \in 1..Len(conn[e].buffer) : i \in 1..Len(d.buffer) /\ d.buffer[i] = conn[e].buffer[i]
       /\ Len(conn[e].buffer) < BufferCap => \E i \in 1..Len(d.buffer) : d.buffer[i] = k
  <2> DEFINE b == conn[e].buffer
  <2>1. b \in Seq(Chunk)
    BY <1>2 DEF Conns
  <2>2. /\ Len(Append(b, k)) = Len(b) + 1 /\ Len(b) \in Nat /\ Append(b, k)[Len(b) + 1] = k
        /\ \A i \in 1..Len(b) : Append(b, k)[i] = b[i]
    BY <2>1
  <2> HIDE DEF b
  <2>3. /\ Len(b) + 1 \in 1..Len(Append(b, k))
        /\ \A i \in 1..Len(b) : i \in 1..Len(Append(b, k))
    BY <2>2
  <2> QED BY <1>14, <2>2, <2>3 DEF b
<1>17. ASSUME s # 0, NEW m \in (got[o][s] + 1)..n
       PROVE  m \in unkept'[e] \/ \E i \in 1..Len(d.buffer) : d.buffer[i].id = m
  <2>1. CASE m = n
    BY <1>5, <1>15, <1>16, <2>1
  <2>2. CASE m # n
    <3>1. s = t /\ Promised(t) /\ m \in (got[o][t] + 1)..sent[e][t]
      BY <1>2, <1>3, <1>4, <1>17, <2>2
    <3>2. m \in unkept[e] \/ \E i \in 1..Len(conn[e].buffer) : conn[e].buffer[i].id = m
      BY <1>2, <3>1 DEF EndInv, Kept
    <3> QED BY <1>15, <1>16, <3>2
  <2> QED BY <2>1, <2>2
<1>18. s # 0 => n - got[o][s] <= MaxSeq
  BY <1>7, <1>9
<1>19. Work(e, s, n, d, q)
  <2>1. d.state # "offline" /\ UNCHANGED <<session, budget, mine, opened, got, odd>>
    BY <1>1, <1>14
  <2>2. s # 0 => \A m \in (got[o][s] + 1)..n :
                   m \in unkept'[e] \/ \E i \in 1..Len(d.buffer) : d.buffer[i].id = m
    BY <1>17
  <2> QED BY <1>1, <1>2, <1>3, <1>4, <1>14, <1>15, <1>18, <2>1, <2>2 DEF Work
<1> QED BY <1>19, Works

LEMMA ClientRecvHolds ==
  ASSUME IInv, NEW p \in net["client"], ClientRecv(p)
  PROVE  IInv'
<1> DEFINE e == "client"
           s == IF mine[e] \in spoilt' THEN 0 ELSE mine[e]
<1>1. /\ rest[e] = <<>> /\ conn[e].state # "offline" /\ e \in Ends
      /\ Take(e, conn[e], p) /\ MarkStale(e, p)
      /\ UNCHANGED <<session, budget, mine, opened, sent, got, unkept, odd>>
  BY DEF ClientRecv, BetweenPackets, Open, Ends
<1>2. mine[e] # 0 /\ spoilt \subseteq spoilt' /\ Same(conn[e], conn[e])
  BY <1>1 DEF IInv, EndInv, InSession, MarkStale, Same
<1> HIDE DEF e
<1>3. Fit(e, conn[e], s, sent[e][mine[e]])
  BY <1>1, <1>2, AtWork
<1> QED BY <1>1, <1>2, <1>3, TakeHolds DEF e

\* The answer to CONNECT is the same in any session.
LEMMA AnswerIs ==
  ASSUME NEW c \in Conns, IsFiniteSet(c.out)
  PROVE  /\ Answer(c) \in Conns /\ Same(c, Answer(c)) /\ Answer(c).construct = c.construct
         /\ IsFiniteSet(Answer(c).out)
         /\ \A p \in Answer(c).out : p \in c.out \/ p = Packet("connectaccept", 0, FALSE, <<>>, 0, 0)
<1> DEFINE p == Packet("connectaccept", 0, FALSE, <<>>, 0, 0)
<1>1. p \in Packets
  <2>1. 0 \in Seqs /\ <<>> \in Seq(Chunk) /\ "connectaccept" \in Kinds
    BY SequenceAssumption DEF Seqs, Kinds
  <2> QED BY <2>1 DEF Packet, Packets
<1>2. Answer(c) = [c EXCEPT !.out = @ \cup {p}] /\ IsFiniteSet(c.out \cup {p})
  BY FS_AddElement DEF Answer
<1> HIDE DEF p
<1>3. Answer(c) \in Conns /\ Same(c, Answer(c)) /\ Answer(c).out = c.out \cup {p} /\ Answer(c).construct = c.construct
  BY <1>1, <1>2 DEF Conns, Same
<1> QED BY <1>2, <1>3 DEF p

LEMMA AnswerPacket ==
  LET p == Packet("connectaccept", 0, FALSE, <<>>, 0, 0) IN
  /\ p.ses = 0 /\ p.kind = "connectaccept" /\ p.ack = 0 /\ p.n = 0 /\ p.chunks = <<>> /\ ~p.resend
BY DEF Packet

LEMMA ServerRecvHolds ==
  ASSUME IInv, NEW p \in net["server"], ServerRecv(p)
  PROVE  IInv'
<1> DEFINE e == "server"
           s == IF mine[e] \in spoilt' THEN 0 ELSE mine[e]
<1>1. /\ rest[e] = <<>> /\ conn[e].state # "offline" /\ e \in Ends
      /\ Take(e, conn[e], p) /\ MarkStale(e, p)
      /\ UNCHANGED <<session, budget, mine, opened, sent, got, unkept, odd>>
  BY DEF ServerRecv, BetweenPackets, Open, Ends
<1>2. mine[e] # 0 /\ spoilt \subseteq spoilt' /\ Same(conn[e], conn[e])
  BY <1>1 DEF IInv, EndInv, InSession, MarkStale, Same
<1> HIDE DEF e
<1>3. Fit(e, conn[e], s, sent[e][mine[e]])
  BY <1>1, <1>2, AtWork
<1> QED BY <1>1, <1>2, <1>3, TakeHolds DEF e

LEMMA ServerAnswersHolds ==
  ASSUME IInv, NEW p \in net["server"], ServerAnswers(p)
  PROVE  IInv'
<1> DEFINE e == "server"
           c == conn[e]
           a == Answer(c)
<1>1. /\ Transmit(e, a, net) /\ UNCHANGED <<rest, session, ghosts>> /\ e \in Ends
      /\ Types /\ Room /\ c \in Conns /\ c.out = {}
  BY DEF ServerAnswers, Ends, IInv, Types, Room
<1>2. budget' = budget /\ UNCHANGED <<mine, opened, sent, got, unkept>>
  BY <1>1 DEF ghosts
<1> HIDE DEF e
<1>3. /\ a \in Conns /\ Same(c, a) /\ a.construct = c.construct /\ IsFiniteSet(a.out)
      /\ \A x \in a.out : x = Packet("connectaccept", 0, FALSE, <<>>, 0, 0)
  <2>1. IsFiniteSet(c.out)
    BY <1>1, FS_EmptySet
  <2> QED BY <1>1, <2>1, AnswerIs
<1>4. Len(c.buffer) <= BufferCap /\ Len(c.construct.chunks) <= budget.packet
  BY <1>1 DEF Room
<1> HIDE DEF c, a
<1>5. /\ conn' \in [Ends -> Conns] /\ net' \in [Ends -> SUBSET Packets] /\ Room'
      /\ conn'[Peer(e)] = conn[Peer(e)]
      /\ conn'[e].state = c.state /\ conn'[e].seq = c.seq /\ conn'[e].ack = c.ack
      /\ conn'[e].buffer = c.buffer /\ conn'[e].construct = c.construct
      /\ net'[e] = net[e] /\ \A x \in net'[Peer(e)] : x \in net[Peer(e)] \/ x \in a.out
  <2>1. Len(a.buffer) <= BufferCap /\ Len(a.construct.chunks) <= budget.packet
    BY <1>3, <1>4 DEF Same
  <2>2. /\ conn' \in [Ends -> Conns] /\ net' \in [Ends -> SUBSET Packets] /\ Room'
        /\ conn'[Peer(e)] = conn[Peer(e)]
        /\ conn'[e].state = a.state /\ conn'[e].seq = a.seq /\ conn'[e].ack = a.ack
        /\ conn'[e].buffer = a.buffer /\ conn'[e].construct = a.construct
        /\ net'[e] = net[e] /\ \A x \in net'[Peer(e)] : x \in net[Peer(e)] \/ x \in a.out
    BY <1>1, <1>2, <1>3, <2>1, TransmitFits
  <2> QED BY <1>3, <2>2 DEF Same
<1>6. Types'
  BY <1>1, <1>2, <1>5 DEF Types
<1>7. Genuine(e, Packet("connectaccept", 0, FALSE, <<>>, 0, 0))'
  <2>1. session' \in Nat
    BY <1>6, BoundsAssumption DEF Types
  <2>2. ~Promised(0)'
    BY DEF Promised
  <2>3. PICK x : x = Packet("connectaccept", 0, FALSE, <<>>, 0, 0)
    OBVIOUS
  <2>4. x.ses = 0 /\ x.kind = "connectaccept" /\ x.ack = 0 /\ x.n = 0 /\ x.chunks = <<>> /\ ~x.resend
    BY <2>3, AnswerPacket
  <2>5. Genuine(e, x)'
    BY <2>1, <2>2, <2>4 DEF Genuine
  <2> QED BY <2>3, <2>5
<1>8. \A x \in net'[Peer(e)] : x \in net[Peer(e)] \/ Genuine(e, x)'
  BY <1>3, <1>5, <1>7
<1> QED BY <1>1, <1>5, <1>6, <1>8, Says DEF c

LEMMA LoseHolds ==
  ASSUME IInv, NEW o \in Ends, NEW p \in net[o], Lose(o, p)
  PROVE  IInv'
<1>1. /\ net' = [net EXCEPT ![o] = @ \ {p}] /\ UNCHANGED <<conn, rest, session, ghosts>>
      /\ Types /\ Room
  BY DEF Lose, IInv
<1>2. budget' = budget /\ UNCHANGED <<mine, opened, sent, got, unkept>>
  BY <1>1 DEF ghosts
<1>3. net' \in [Ends -> SUBSET Packets] /\ \A x \in Ends : net'[x] \subseteq net[x]
  BY <1>1 DEF Types
<1>4. Types'
  BY <1>1, <1>2, <1>3 DEF Types
<1>5. ASSUME NEW x \in Ends PROVE IsFiniteSet(net'[x]) /\ Cardinality(net'[x]) <= MaxFlight(x)'
  <2>1. IsFiniteSet(net[x]) /\ Cardinality(net[x]) <= MaxFlight(x)
    BY <1>1 DEF Room
  <2>2. IsFiniteSet(net'[x]) /\ Cardinality(net'[x]) <= Cardinality(net[x])
    BY <1>3, <2>1, FS_Subset
  <2>3. Cardinality(net'[x]) \in Nat /\ Cardinality(net[x]) \in Nat /\ MaxFlight(x) \in Nat
    <3>1. budget.toServer \in Nat /\ budget.toClient \in Nat
      BY <1>1, BoundsAssumption DEF Types
    <3> QED BY <2>1, <2>2, <3>1, FS_CardinalityType DEF MaxFlight
  <2>4. MaxFlight(x)' = MaxFlight(x)
    BY <1>2 DEF MaxFlight
  <2> QED BY <2>1, <2>2, <2>3, <2>4
<1>6. Room'
  BY <1>1, <1>2, <1>5 DEF Room
<1>7. net'[o] \subseteq net[o] /\ \A x \in net'[Peer(o)] : x \in net[Peer(o)]
  BY <1>3, Peers
<1> QED BY <1>1, <1>4, <1>6, <1>7, Says

LEMMA ConnectHolds ==
  ASSUME IInv, Connect
  PROVE  IInv'
<1> DEFINE e == "client"
           s == session + 1
           p == Packet("connect", 0, FALSE, <<>>, s, 0)
           c == [[Reset(conn[e]) EXCEPT !.state = "connect"] EXCEPT !.out = {p}]
<1>1. /\ rest[e] = <<>> /\ session < budget.sessions /\ session' = s /\ mine' = [mine EXCEPT ![e] = s]
      /\ unkept' = [unkept EXCEPT ![e] = {}] /\ Transmit(e, c, net)
      /\ UNCHANGED <<rest, budget, opened, sent, got, odd, spoilt>> /\ e \in Ends /\ e # "server"
  BY DEF Connect, BetweenPackets, Ends
<1>2. /\ Types /\ Fresh /\ session \in Nat /\ budget.sessions \in Nat /\ budget \in Budgets
      /\ opened \in 0..session
  BY BoundsAssumption DEF IInv, Types
<1>3. s \in 1..budget.sessions
  BY <1>1, <1>2
<1>4. s \in Sessions /\ s \in Nat /\ s > session
  BY <1>2, <1>3, SessionsReach
<1>5. p \in Packets /\ p.ses = s /\ p.kind = "connect" /\ p.n = 0 /\ p.ack = 0 /\ p.chunks = <<>> /\ ~p.resend
  <2>1. 0 \in Seqs /\ <<>> \in Seq(Chunk) /\ "connect" \in Kinds
    BY SequenceAssumption DEF Seqs, Kinds
  <2> HIDE DEF s
  <2> QED BY <1>4, <2>1 DEF Packet, Packets
<1> HIDE DEF s, p
<1>6. /\ c \in Conns /\ c.ack = 0 /\ c.seq = 0 /\ c.buffer = <<>> /\ c.construct = EmptyConstruct
      /\ c.state = "connect" /\ c.out = {p}
  <2> DEFINE r == Reset(conn[e])
             t == [r EXCEPT !.state = "connect"]
  <2>1. 0 \in Seqs /\ <<>> \in Seq(Chunk)
    BY SequenceAssumption DEF Seqs
  <2>2. Offline \in Conns /\ Offline.ack = 0 /\ Offline.seq = 0 /\ Offline.buffer = <<>> /\ Offline.construct = EmptyConstruct
    BY <2>1, EmptyLine DEF Offline, Conns
  <2>3. conn[e].out \in SUBSET Packets
    BY <1>1, <1>2 DEF Types, Conns
  <2>4. r = [Offline EXCEPT !.out = conn[e].out]
    BY DEF Reset
  <2> HIDE DEF r
  <2>5. r \in Conns /\ r.ack = 0 /\ r.seq = 0 /\ r.buffer = <<>> /\ r.construct = EmptyConstruct
    BY <2>2, <2>3, <2>4 DEF Conns
  <2>6. t \in Conns /\ t.ack = 0 /\ t.seq = 0 /\ t.buffer = <<>> /\ t.construct = EmptyConstruct /\ t.state = "connect"
    BY <2>5 DEF Conns
  <2>7. c = [t EXCEPT !.out = {p}]
    BY DEF r
  <2> HIDE DEF t, c
  <2> QED BY <1>5, <2>6, <2>7 DEF Conns
<1> HIDE DEF c, e
<1>7. got[e][s] = 0 /\ sent[e][s] = 0
  BY <1>1, <1>2, <1>4 DEF Fresh
<1>8. Fresh'
  <2>1. \A y \in Sessions : y \in Nat
    BY DEF Sessions
  <2>2. \A y \in Sessions : y > session' => y > session
    BY <1>1, <1>2, <2>1 DEF s
  <2> QED BY <1>1, <1>2, <2>2 DEF Fresh
<1>9. ASSUME NEW x \in c.out PROVE Genuine(e, x)'
  <2>1. x.ses = s /\ x.kind = "connect" /\ x.n = 0 /\ x.ack = 0 /\ x.chunks = <<>> /\ ~x.resend
    BY <1>5, <1>6, <1>9
  <2>2. x.ses # 0 /\ x.ses <= session'
    BY <1>1, <1>2, <1>4, <2>1 DEF s
  <2>3. 0 <= got'[e][x.ses] /\ 0 = 0 % MaxSeq
    BY <1>1, <1>7, <2>1, SequenceAssumption
  <2>4. Line(<<>>, x.ses, sent'[e][x.ses])
    BY EmptyLine
  <2> QED BY <2>1, <2>2, <2>3, <2>4 DEF Genuine
<1>10. IsFiniteSet(c.out)
  <2>1. IsFiniteSet({} \cup {p})
    BY FS_EmptySet, FS_AddElement
  <2> QED BY <1>6, <2>1
<1>11. Begin(e, s, c)
  <2>1. s \in Nat \ {0} /\ s <= session' /\ session' \in 0..budget.sessions /\ session <= session'
    BY <1>1, <1>2, <1>3 DEF s
  <2>2. opened' \in 0..session' /\ opened <= opened'
    BY <1>1, <1>2, <2>1
  <2>3. c.state # "offline"
    BY <1>6
  <2> QED BY <1>1, <1>6, <1>7, <1>8, <1>9, <1>10, <2>1, <2>2, <2>3 DEF Begin
<1> QED BY <1>1, <1>11, Enters

\* The client's ACCEPT is of a session, and Enter has spoilt that one if it is
\* not newer than all that were entered before.
LEMMA Accepted ==
  ASSUME IInv, NEW p \in net["server"], p.kind = "accept", Enter(p)
  PROVE  /\ p \in Packets /\ p.ses \in Sessions /\ p.ses \in Nat \ {0} /\ p.ses <= session /\ p.chunks = <<>> /\ ~p.resend
         /\ opened' \in 0..session' /\ opened <= opened' /\ p.ses <= opened' /\ Fresh'
         /\ spoilt \subseteq spoilt' /\ session' \in 0..budget.sessions /\ session <= session'
         /\ p.ses \notin spoilt' => sent["server"][p.ses] = 0 /\ got["server"][p.ses] = 0
<1>1. /\ Types /\ Fresh /\ p \in Packets /\ Genuine("client", p)
  BY DEF IInv, OnTheWay, Types, Ends, Peer
<1>2. p.ses <= session /\ p.ses # 0 /\ p.chunks = <<>> /\ ~p.resend
  BY <1>1 DEF Genuine
<1>3. p.ses \in Sessions /\ p.ses \in Nat
  BY <1>1, <1>2 DEF Packets, Sessions
<1>4. opened' = Max({opened, p.ses}) /\ session' = session /\ sent' = sent /\ got' = got
      /\ spoilt' = IF p.ses <= opened THEN spoilt \cup {p.ses} ELSE spoilt
  BY DEF Enter
<1>5. session \in Nat /\ budget.sessions \in Nat /\ opened \in Nat /\ opened <= session /\ session <= budget.sessions
  BY <1>1, BoundsAssumption DEF Types
<1>6. opened' \in {opened, p.ses} /\ opened' >= opened /\ opened' >= p.ses
  <2>1. {opened, p.ses} \in SUBSET Nat
    BY <1>3, <1>5
  <2>2. IsFiniteSet(({} \cup {opened}) \cup {p.ses})
    BY FS_EmptySet, FS_AddElement
  <2>3. IsFiniteSet({opened, p.ses})
    <3>1. ({} \cup {opened}) \cup {p.ses} = {opened, p.ses}
      OBVIOUS
    <3> QED BY <2>2, <3>1
  <2> QED BY <1>4, <2>1, <2>3, Greatest
<1>7. opened' \in 0..session' /\ opened <= opened' /\ p.ses <= opened'
  BY <1>2, <1>3, <1>4, <1>5, <1>6
<1>8. Fresh'
  <2>1. \A y \in Sessions : y > opened' => y > opened
    BY <1>3, <1>5, <1>6 DEF Sessions
  <2> QED BY <1>1, <1>4, <2>1 DEF Fresh
<1>9. p.ses \notin spoilt' => sent["server"][p.ses] = 0 /\ got["server"][p.ses] = 0
  <2>1. p.ses \notin spoilt' => p.ses > opened
    BY <1>3, <1>4, <1>5
  <2> QED BY <1>1, <1>3, <2>1 DEF Fresh
<1>10. session' \in 0..budget.sessions /\ session <= session' /\ spoilt \subseteq spoilt'
  BY <1>4, <1>5
<1> QED BY <1>1, <1>2, <1>3, <1>7, <1>8, <1>9, <1>10

\* A connection that is as good as new, and open.
Renewed(c) ==
  /\ c \in Conns /\ c.ack = 0 /\ c.seq = 0 /\ c.buffer = <<>> /\ c.construct = EmptyConstruct
  /\ c.state # "offline" /\ c.out = {}

LEMMA ResetRenews ==
  ASSUME NEW r \in Conns, r.out = {}, NEW z \in {"connect", "online", "error"}
  PROVE  Renewed([Reset(r) EXCEPT !.state = z])
<1> DEFINE t == Reset(r)
<1>1. 0 \in Seqs /\ <<>> \in Seq(Chunk)
  BY SequenceAssumption DEF Seqs
<1>2. Offline \in Conns /\ Offline.ack = 0 /\ Offline.seq = 0 /\ Offline.buffer = <<>> /\ Offline.construct = EmptyConstruct
  BY <1>1, EmptyLine DEF Offline, Conns
<1>3. t = [Offline EXCEPT !.out = r.out] /\ r.out \in SUBSET Packets
  BY DEF Reset
<1> HIDE DEF t
<1>4. t \in Conns /\ t.ack = 0 /\ t.seq = 0 /\ t.buffer = <<>> /\ t.construct = EmptyConstruct /\ t.out = {}
  BY <1>2, <1>3 DEF Conns
<1>5. Renewed([t EXCEPT !.state = z])
  BY <1>4 DEF Renewed, Conns
<1> QED BY <1>5 DEF t

\* The server's end enters the session of an ACCEPT.
LEMMA AcceptHolds ==
  ASSUME IInv, NEW p \in net["server"], p.kind = "accept", Enter(p), rest["server"] = <<>>, rest' = rest,
         NEW c, Renewed(c), Transmit("server", c, net)
  PROVE  IInv'
<1> DEFINE e == "server"
           s == p.ses
<1>1. /\ s \in Nat \ {0} /\ s <= session
      /\ opened' \in 0..session' /\ opened <= opened' /\ s <= opened' /\ Fresh'
      /\ spoilt \subseteq spoilt' /\ session' \in 0..budget.sessions /\ session <= session'
      /\ s \notin spoilt' => sent[e][s] = 0 /\ got[e][s] = 0
  BY Accepted
<1>2. /\ mine' = [mine EXCEPT ![e] = s] /\ unkept' = [unkept EXCEPT ![e] = {}] /\ session' = session
      /\ UNCHANGED <<budget, sent, got, odd>> /\ e \in Ends
  BY DEF Enter, Ends
<1>3. IsFiniteSet(c.out) /\ (\A x \in c.out : Genuine(e, x)')
  BY FS_EmptySet DEF Renewed
<1>4. Begin(e, s, c)
  BY <1>1, <1>2, <1>3 DEF Begin, Renewed
<1> HIDE DEF s, e
<1> QED BY <1>2, <1>4, Enters

LEMMA TryAcceptClientHolds ==
  ASSUME IInv, NEW p \in net["server"], TryAcceptClient(p)
  PROVE  IInv'
<1> DEFINE c == [Reset(conn["server"]) EXCEPT !.state = "online"]
<1>1. /\ p.kind = "accept" /\ Enter(p) /\ rest["server"] = <<>> /\ rest' = rest
      /\ Transmit("server", c, net)
  BY DEF TryAcceptClient, BetweenPackets
<1>2. conn["server"] \in Conns /\ conn["server"].out = {}
  BY DEF IInv, Types, Room, Ends
<1>3. Renewed(c)
  <2>1. "online" \in {"connect", "online", "error"}
    OBVIOUS
  <2> QED BY <1>2, <2>1, ResetRenews
<1> HIDE DEF c
<1> QED BY <1>1, <1>3, AcceptHolds

LEMMA RejoinHolds ==
  ASSUME IInv, NEW p \in net["server"], Rejoin(p)
  PROVE  IInv'
<1> DEFINE e == "server"
           c == [Reset(conn[e]) EXCEPT !.state = conn[e].state]
           d == Feed(e, c, p)
<1>1. /\ p.kind = "accept" /\ Enter(p) /\ rest[e] = <<>> /\ conn[e].state \notin {"offline", "error"}
      /\ Take(e, c, p)
  BY DEF Rejoin, BetweenPackets, Open
<1>2. conn[e] \in Conns /\ conn[e].out = {} /\ rest \in [Ends -> Seq(Chunk)] /\ e \in Ends
  BY DEF IInv, Types, Room, Ends
<1>3. p \in Packets /\ p.chunks = <<>> /\ ~p.resend
  BY <1>1, Accepted
<1>4. Renewed(c)
  <2>1. conn[e].state \in {"connect", "online", "error"}
    BY <1>1, <1>2 DEF Conns
  <2> QED BY <1>2, <2>1, ResetRenews
<1> HIDE DEF c
<1>5. CASE ~AckIsValid(c, p.ack)
  <2>1. Transmit(e, c, net) /\ rest' = rest
    BY <1>1, <1>5 DEF Take
  <2> QED BY <1>1, <1>4, <2>1, AcceptHolds
<1>6. CASE AckIsValid(c, p.ack)
  <2>1. Transmit(e, d, net) /\ rest' = rest
    <3>1. Transmit(e, d, net) /\ rest' = [rest EXCEPT ![e] = p.chunks]
      BY <1>1, <1>6 DEF Take
    <3> QED BY <1>1, <1>2, <1>3, <3>1
  <2>2. Renewed(d)
    <3> DEFINE a == [c EXCEPT !.peerAck = p.ack]
    <3>1. Renewed(a)
      <4>1. p.ack \in Seqs
        BY <1>3 DEF Packets
      <4> QED BY <1>4, <4>1 DEF Renewed, Conns
    <3>2. d = IF a.state = "online" THEN AckChunks(a, p.ack) ELSE a
      BY <1>1, <1>3 DEF Feed
    <3> HIDE DEF a, d
    <3>3. AckChunks(a, p.ack) = a
      <4>1. {i \in 1..Len(a.buffer) : ~IsSeqInBackroom(a.buffer[i].seq, p.ack)} = {}
        BY <3>1, EmptyLine DEF Renewed
      <4>2. AckChunks(a, p.ack) = [a EXCEPT !.buffer = <<>>]
        BY <4>1 DEF AckChunks
      <4> QED BY <3>1, <4>2 DEF Renewed, Conns
    <3> QED BY <3>1, <3>2, <3>3
  <2> HIDE DEF d
  <2> QED BY <1>1, <2>1, <2>2, AcceptHolds
<1> QED BY <1>5, <1>6

-----------------------------------------------------------------------------
(* The theorems *)

LEMMA InitHolds ==
  ASSUME Init
  PROVE  IInv
<1>1. /\ conn = [e \in Ends |-> Offline] /\ rest = [e \in Ends |-> <<>>] /\ net = [e \in Ends |-> {}]
      /\ session = 0 /\ budget \in Budgets /\ mine = [e \in Ends |-> 0] /\ opened = 0
      /\ sent = [e \in Ends |-> [s \in Sessions |-> 0]] /\ got = [e \in Ends |-> [s \in Sessions |-> 0]]
      /\ unkept = [e \in Ends |-> {}] /\ odd = {} /\ spoilt = {}
  BY DEF Init
<1>2. /\ Offline \in Conns /\ Offline.state = "offline" /\ Offline.buffer = <<>> /\ Offline.construct.chunks = <<>>
      /\ Offline.out = {}
  <2>1. 0 \in Seqs /\ <<>> \in Seq(Chunk)
    BY SequenceAssumption DEF Seqs
  <2> QED BY <2>1, EmptyLine DEF Offline, Conns
<1>3. budget.sessions \in Nat /\ budget.packet \in Nat /\ MaxSeq \in Nat /\ BufferCap \in Nat
      /\ \A e \in Ends : MaxFlight(e) \in Nat
  BY <1>1, BoundsAssumption, SequenceAssumption DEF MaxFlight
<1>4. Types
  BY <1>1, <1>2, <1>3 DEF Types, Ends
<1>5. Room
  BY <1>1, <1>2, <1>3, EmptyLine, FS_EmptySet DEF Room
<1>6. Fresh /\ InOrderOnce
  BY <1>1 DEF Fresh, InOrderOnce, Ends
<1>7. OnTheWay
  BY <1>1 DEF OnTheWay, Peer, Ends
<1>8. Ahead
  <2>1. \A e \in Ends : \A s \in Sessions : sent[e][s] = 0 /\ got[Peer(e)][s] = 0
    BY <1>1, Peers
  <2> QED BY <1>3, <2>1 DEF Ahead
<1>9. ASSUME NEW e \in Ends PROVE EndInv(e)
  BY <1>1, <1>2 DEF EndInv, InSession, Numbers, Fetching, Kept, Promised
<1> QED BY <1>4, <1>5, <1>6, <1>7, <1>8, <1>9 DEF IInv

LEMMA NextHolds ==
  ASSUME IInv, [Next]_vars
  PROVE  IInv'
<1>1. CASE Connect
  BY <1>1, ConnectHolds
<1>2. CASE Receive
  <2>1. ASSUME NEW p \in net["client"], ClientRecv(p) PROVE IInv'
    BY <2>1, ClientRecvHolds
  <2>2. ASSUME NEW p \in net["server"], ServerAnswers(p) PROVE IInv'
    BY <2>2, ServerAnswersHolds
  <2>3. ASSUME NEW p \in net["server"], TryAcceptClient(p) PROVE IInv'
    BY <2>3, TryAcceptClientHolds
  <2>4. ASSUME NEW p \in net["server"], Rejoin(p) PROVE IInv'
    BY <2>4, RejoinHolds
  <2>5. ASSUME NEW p \in net["server"], ServerRecv(p) PROVE IInv'
    BY <2>5, ServerRecvHolds
  <2> QED BY <1>2, <2>1, <2>2, <2>3, <2>4, <2>5 DEF Receive
<1>3. ASSUME NEW e \in Ends, Disconnect(e) PROVE IInv'
  BY <1>3, DisconnectHolds
<1>4. ASSUME NEW e \in Ends, Submit(e) PROVE IInv'
  BY <1>4, SubmitHolds
<1>5. ASSUME NEW e \in Ends, FlushNow(e) PROVE IInv'
  BY <1>5, FlushNowHolds
<1>6. ASSUME NEW e \in Ends, FetchChunk(e) PROVE IInv'
  BY <1>6, FetchHolds
<1>7. ASSUME NEW e \in Ends, NEW due \in Due, Update(e, due) PROVE IInv'
  BY <1>7, UpdateHolds
<1>8. ASSUME NEW e \in Ends, NEW p \in net[e], Lose(e, p) PROVE IInv'
  BY <1>8, LoseHolds
<1>9. CASE UNCHANGED vars
  <2>1. Types' /\ Room' /\ \A p \in net'["client"] : p \in net["client"]
    BY <1>9 DEF vars, ghosts, IInv, Types, Room, MaxFlight
  <2> QED BY <1>9, <2>1, Says DEF vars, Ends, Peer
<1> QED BY <1>1, <1>2, <1>3, <1>4, <1>5, <1>6, <1>7, <1>8, <1>9 DEF Next

\* The game gets the vital chunks of a session in order and each once, whatever
\* the network does, unless one of the named causes has spoilt the session: for
\* every number of sequence numbers, every size of the resend buffer and any
\* number of packets on the way (FetchChunk, Feed).
THEOREM InOrderOnceHolds == Spec => []InOrderOnce
<1>1. Init => IInv
  BY InitHolds
<1>2. IInv /\ [Next]_vars => IInv'
  BY NextHolds
<1>3. IInv => InOrderOnce
  BY DEF IInv
<1> QED BY <1>1, <1>2, <1>3, PTL DEF Spec

\* What the other end has not handed to the game is still in the resend buffer,
\* unless it never was (QueueChunkEx), and the numbers stay in their bounds
\* (AckChunks).
THEOREM KeptUntilDeliveredHolds == Spec => []KeptUntilDelivered
<1>1. Init => IInv
  BY InitHolds
<1>2. IInv /\ [Next]_vars => IInv'
  BY NextHolds
<1>3. ASSUME IInv PROVE KeptUntilDelivered
  <2>1. ASSUME NEW e \in Ends
        PROVE  /\ conn[e].state \in {"offline", "connect", "online", "error"}
               /\ {conn[e].seq, conn[e].ack, conn[e].peerAck} \subseteq Seqs
               /\ conn[e].buffer \in Seq(Chunk) /\ Len(conn[e].buffer) <= BufferCap
               /\ conn[e].construct.chunks \in Seq(Chunk) /\ rest[e] \in Seq(Chunk)
               /\ conn[e].out = {}
               /\ conn[e].state \in {"connect", "online"} => mine[e] # 0
               /\ Cardinality(net[e]) <= MaxFlight(e)
    <3>1. conn[e] \in Conns /\ rest[e] \in Seq(Chunk)
      BY <1>3 DEF IInv, Types
    <3>2. conn[e].out = {} /\ Len(conn[e].buffer) <= BufferCap /\ Cardinality(net[e]) <= MaxFlight(e)
      BY <1>3 DEF IInv, Room
    <3>3. conn[e].state \in {"connect", "online"} => mine[e] # 0
      BY <1>3 DEF IInv, EndInv, InSession
    <3> QED BY <3>1, <3>2, <3>3 DEF Conns, Constructs
  <2>2. TypeOK
    BY <2>1 DEF TypeOK
  <2>3. ASSUME NEW e \in Ends, NEW s \in Sessions, Together(s), NEW n \in (got[Peer(e)][s] + 1)..sent[e][s]
        PROVE  n \in unkept[e] \/ \E i \in 1..Len(conn[e].buffer) : conn[e].buffer[i].id = n
    <3>1. mine[e] = s /\ Promised(s) /\ Kept(e)
      BY <1>3, <2>3 DEF Together, Promised, Sessions, Ends, IInv, EndInv
    <3> QED BY <2>3, <3>1 DEF Kept
  <2> QED BY <2>2, <2>3 DEF KeptUntilDelivered
<1> QED BY <1>1, <1>2, <1>3, PTL DEF Spec

=============================================================================
