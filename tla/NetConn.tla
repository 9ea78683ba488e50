------------------------------- MODULE NetConn -------------------------------
(***************************************************************************)
(* A connection between a client (CNetClient) and the server (CNetServer):   *)
(* CNetConnection at both ends, the handshake with tokens, and a network     *)
(* that loses, repeats and reorders packets.                                 *)
(*                                                                         *)
(* Only vital chunks are modelled: others have neither number nor promise. A *)
(* packet carries the acknowledgement, the resend flag and chunks. Time is   *)
(* which timers are due when Update runs. A slot of the server in state      *)
(* ERROR is no longer found by its address and says nothing more before it   *)
(* is dropped, so one record stands for "the slot of this address".          *)
(*                                                                         *)
(* Ghosts. A session is one Connect of the client; mine is the session an    *)
(* end believes to be in, sent and got count vital chunks of a session in    *)
(* the order of submission. Chunks and packets carry these numbers unseen by *)
(* the code. odd are the sessions in which a chunk was handed up that was    *)
(* not the next one of that session; spoilt are those for which one of the   *)
(* named causes occurred, each the arrival of a packet or a call, never its  *)
(* effect.                                                                   *)
(***************************************************************************)
EXTENDS Integers, Sequences, FiniteSetsExt, SequencesExt, Functions

CONSTANTS MaxSeq,       \* NET_MAX_SEQUENCE
          BufferCap,    \* chunks that fit into m_Buffer
          Budgets       \* bounds: a behaviour has one of these numbers of times the
                        \* client connects, of vital chunks each end submits, of such
                        \* chunks that fit into a packet, and of packets on the way

\* The smallest chunk takes 72 bytes of the 32 kB buffer: it holds 455, fewer
\* than half of the 1024 sequence numbers.
ASSUME SequenceAssumption ==
  /\ MaxSeq \in Nat /\ BufferCap \in Nat \ {0}
  /\ 2 * BufferCap < MaxSeq

ASSUME BoundsAssumption ==
  /\ Budgets \subseteq [sessions : Nat, server : Nat, client : Nat, packet : Nat \ {0},
                       toServer : Nat, toClient : Nat]
  /\ Budgets # {} /\ IsFiniteSet(Budgets)

Ends == {"server", "client"}
Peer(e) == IF e = "server" THEN "client" ELSE "server"
Sessions == 1..Max({b.sessions : b \in Budgets})

VARIABLES conn,    \* the CNetConnection of an end
          rest,    \* chunks of the packet its m_RecvUnpacker works on
          net,     \* packets on the way to an end
          session, \* times the client has connected
          budget,  \* the bounds of this behaviour
          mine, opened, sent, got, unkept, odd, spoilt

MaxFlight(e) == IF e = "server" THEN budget.toServer ELSE budget.toClient

ghosts == <<budget, mine, opened, sent, got, unkept, odd, spoilt>>
vars == <<conn, rest, net, session, ghosts>>

-----------------------------------------------------------------------------
(* Sequence numbers *)

IsSeqInBackroom(s, a) ==
  LET bottom == a - MaxSeq \div 2
  IN IF bottom < 0 THEN s <= a \/ s >= bottom + MaxSeq
                   ELSE s <= a /\ s >= bottom

AckIsValid(c, a) ==
  IF c.seq >= c.peerAck THEN a >= c.peerAck /\ a <= c.seq
                        ELSE a >= c.peerAck \/ a <= c.seq

-----------------------------------------------------------------------------
(* A connection, as the code's operations change it; out collects packets *)

EmptyConstruct == [resend |-> FALSE, chunks |-> <<>>]
Offline == [state |-> "offline", seq |-> 0, ack |-> 0, peerAck |-> 0,
            buffer |-> <<>>, construct |-> EmptyConstruct, out |-> {}]

Reset(c) == [Offline EXCEPT !.out = c.out]

Packet(kind, ack, r, chunks, s, n) ==
  [kind |-> kind, ack |-> ack, resend |-> r, chunks |-> chunks, ses |-> s, n |-> n]

Emit(e, c, kind, construct) ==
  [c EXCEPT !.out = @ \cup {Packet(kind, c.ack, construct.resend, construct.chunks, mine[e],
                                   IF mine[e] = 0 THEN 0 ELSE got[e][mine[e]])}]

SendControl(e, c, kind) == Emit(e, c, kind, EmptyConstruct)

Flush(e, c) ==
  IF c.construct = EmptyConstruct THEN c
  ELSE [Emit(e, c, "data", c.construct) EXCEPT !.construct = EmptyConstruct]

SignalResend(c) == [c EXCEPT !.construct.resend = TRUE]

\* A chunk that does not fit into the buffer is sent and not kept.
QueueChunkEx(e, c, chunk, resend) ==
  IF c.state \in {"offline", "error"} THEN c
  ELSE LET f == IF Len(c.construct.chunks) >= budget.packet THEN Flush(e, c) ELSE c
       IN [f EXCEPT !.construct.chunks = Append(@, chunk),
                    !.buffer = IF ~resend /\ Len(@) < BufferCap THEN Append(@, chunk) ELSE @]

ResendChunk(e, c, chunk) == QueueChunkEx(e, c, chunk, TRUE)

Resend(e, c) == FoldLeft(LAMBDA d, chunk : ResendChunk(e, d, chunk), c, c.buffer)

\* Variant: whatever the number, the first chunk goes too.
AckChunksOneMore(c, a) ==
  [c EXCEPT !.buffer = IF @ = <<>> THEN @ ELSE Tail(SelectSeq(@, LAMBDA k : ~IsSeqInBackroom(k.seq, a)))]

\* PopFirst while the first one is acknowledged.
AckChunks(c, a) ==
  LET kept == {i \in 1..Len(c.buffer) : ~IsSeqInBackroom(c.buffer[i].seq, a)}
  IN [c EXCEPT !.buffer = IF kept = {} THEN <<>> ELSE SubSeq(@, Min(kept), Len(@))]

-----------------------------------------------------------------------------
Init ==
  /\ conn = [e \in Ends |-> Offline]
  /\ rest = [e \in Ends |-> <<>>]
  /\ net = [e \in Ends |-> {}]
  /\ session = 0 /\ budget \in Budgets
  /\ mine = [e \in Ends |-> 0] /\ opened = 0
  /\ sent = [e \in Ends |-> [s \in Sessions |-> 0]]
  /\ got = [e \in Ends |-> [s \in Sessions |-> 0]]
  /\ unkept = [e \in Ends |-> {}]
  /\ odd = {} /\ spoilt = {}

\* The packets of c go out, as many as there is room for on the way.
Transmit(e, c, pool) ==
  LET new == c.out \ pool[Peer(e)]
      room == MaxFlight(Peer(e)) - Cardinality(pool[Peer(e)])
  IN
  /\ conn' = [conn EXCEPT ![e] = [c EXCEPT !.out = {}]]
  /\ \E some \in kSubset(Min({room, Cardinality(new)}), new) :
       net' = [pool EXCEPT ![Peer(e)] = @ \cup some]

\* Another named cause: with chunk n the sender is more than a whole window ahead
\* of what the other end has, so that two chunks that it may get have the number
\* of the next one; or it is a window ahead of a chunk it still repeats, and both
\* may come in one packet. It takes chunks that were not kept.
Overrun(e, n) ==
  \/ n - got[Peer(e)][mine[e]] > MaxSeq
  \/ budget.packet > 1 /\ conn[e].buffer # <<>> /\ n - Head(conn[e].buffer).id >= MaxSeq - 1

\* Between two packets an end does what it likes; while it works on the chunks
\* of one it can only call what a message handler calls.
BetweenPackets(e) == rest[e] = <<>>

\* CNetClient::Connect
Connect ==
  /\ BetweenPackets("client") /\ conn["client"].state = "offline"
  /\ session < budget.sessions
  /\ session' = session + 1
  /\ mine' = [mine EXCEPT !["client"] = session + 1]
  /\ unkept' = [unkept EXCEPT !["client"] = {}]
  /\ LET c == [Reset(conn["client"]) EXCEPT !.state = "connect"]
     IN Transmit("client", [c EXCEPT !.out = {Packet("connect", 0, FALSE, <<>>, session + 1, 0)}], net)
  /\ UNCHANGED <<rest, budget, opened, sent, got, odd, spoilt>>

\* Disconnect, by the game or by a message handler. What is left of a packet
\* is still fetched. A client that was not answered yet has no peer to tell.
Disconnect(e) ==
  LET c == conn[e] IN
  /\ c.state # "offline"
  /\ Transmit(e, Reset(IF c.state = "online" THEN SendControl(e, c, "close") ELSE c), net)
  /\ mine' = [mine EXCEPT ![e] = 0]
  /\ spoilt' = IF rest[e] = <<>> THEN spoilt ELSE spoilt \cup {0}
  /\ UNCHANGED <<rest, session, budget, opened, sent, got, unkept, odd>>

Submit(e) ==
  LET s == mine[e]
      n == sent[e][s] + 1
      c == conn[e]
      seq == (c.seq + 1) % MaxSeq
      chunk == [seq |-> seq, id |-> n, ses |-> s]
  IN
  /\ s # 0 /\ SumFunction(sent[e]) < budget[e]
  /\ c.state = "online"
  /\ Transmit(e, QueueChunkEx(e, [c EXCEPT !.seq = seq], chunk, FALSE), net)
  /\ sent' = [sent EXCEPT ![e][s] = n]
  /\ unkept' = IF Len(c.buffer) < BufferCap THEN unkept ELSE [unkept EXCEPT ![e] = @ \cup {n}]
  /\ spoilt' = IF Overrun(e, n) THEN spoilt \cup {s} ELSE spoilt
  /\ UNCHANGED <<rest, session, budget, mine, opened, got, odd>>

\* The game flushes: Flush, or a message with NETSENDFLAG_FLUSH.
FlushNow(e) ==
  /\ conn[e].state = "online" /\ conn[e].construct # EmptyConstruct
  /\ Transmit(e, Flush(e, conn[e]), net)
  /\ UNCHANGED <<rest, session, ghosts>>

-----------------------------------------------------------------------------
(* Receiving *)

\* The named causes for which a session is spoilt: the packet belongs to another
\* one (the answer to CONNECT belongs to none), is a whole window of chunks or
\* acknowledgements late.
Stale(e, p) ==
  LET s == mine[e] IN
  \/ p.kind # "connectaccept" /\ p.ses # s
  \/ s # 0 /\ \E i \in 1..Len(p.chunks) : got[e][s] - p.chunks[i].id >= MaxSeq - 1
  \/ s # 0 /\ 2 * (sent[e][s] - p.n) >= MaxSeq

\* CNetConnection::Feed after the checks of address, token and acknowledgement.
Feed(e, c, p) ==
  LET a == [c EXCEPT !.peerAck = p.ack]
      r == IF p.resend THEN Resend(e, a) ELSE a
      o == IF p.kind = "connectaccept" /\ r.state = "connect"
           THEN [SendControl(e, r, "accept") EXCEPT !.state = "online"] ELSE r
  IN IF p.kind = "close" THEN [r EXCEPT !.state = "error"]
     ELSE IF o.state = "online" THEN AckChunks(o, p.ack) ELSE o

\* A packet for a connection that is open; c is the connection after what the
\* server does with a control packet before it feeds it.
Take(e, c, p) ==
  IF AckIsValid(c, p.ack)
  THEN /\ Transmit(e, Feed(e, c, p), net)
       /\ rest' = [rest EXCEPT ![e] = IF p.kind = "close" THEN <<>> ELSE p.chunks]
  ELSE Transmit(e, c, net) /\ UNCHANGED rest

MarkStale(e, p) ==
  spoilt' = IF AckIsValid(conn[e], p.ack) /\ Stale(e, p) THEN spoilt \cup {mine[e]} ELSE spoilt

Open(e) == conn[e].state \notin {"offline", "error"}

\* CNetClient::Recv
ClientRecv(p) ==
  /\ BetweenPackets("client") /\ Open("client")
  /\ Take("client", conn["client"], p) /\ MarkStale("client", p)
  /\ UNCHANGED <<session, budget, mine, opened, sent, got, unkept, odd>>

Answer(c) == [c EXCEPT !.out = @ \cup {Packet("connectaccept", 0, FALSE, <<>>, 0, 0)}]

\* CNetServer::Recv: CONNECT is answered by OnTokenCtrlMsg when nobody has a slot
\* at this address, and by OnConnCtrlMsg when it is taken. It carries no token,
\* so that Feed then refuses it and the slot stays as it is.
ServerAnswers(p) ==
  /\ BetweenPackets("server")
  /\ p.kind = "connect"
  /\ Transmit("server", Answer(conn["server"]), net)
  /\ UNCHANGED <<rest, session, ghosts>>

\* A session that was entered before and is entered again is spoilt.
Enter(p) ==
  /\ mine' = [mine EXCEPT !["server"] = p.ses]
  /\ opened' = Max({opened, p.ses})
  /\ unkept' = [unkept EXCEPT !["server"] = {}]
  /\ spoilt' = IF p.ses <= opened THEN spoilt \cup {p.ses} ELSE spoilt
  /\ UNCHANGED <<session, budget, sent, got, odd>>

\* TryAcceptClient, DirectInit
TryAcceptClient(p) ==
  /\ BetweenPackets("server") /\ ~Open("server")
  /\ p.kind = "accept"
  /\ Transmit("server", [Reset(conn["server"]) EXCEPT !.state = "online"], net)
  /\ Enter(p)
  /\ UNCHANGED rest

\* OnConnCtrlMsg: an ACCEPT for a slot that is taken resets its connection.
Rejoin(p) ==
  /\ BetweenPackets("server") /\ Open("server")
  /\ p.kind = "accept"
  /\ Take("server", [Reset(conn["server"]) EXCEPT !.state = conn["server"].state], p)
  /\ Enter(p)

\* CNetServer::Recv for a slot that is taken: a packet with its token.
ServerRecv(p) ==
  /\ BetweenPackets("server") /\ Open("server")
  /\ p.kind \notin {"connect", "accept"}
  /\ Take("server", conn["server"], p)
  /\ MarkStale("server", p)
  /\ UNCHANGED <<session, budget, mine, opened, sent, got, unkept, odd>>

\* The packet may come again: it stays until it is lost.
Receive ==
  \/ \E p \in net["client"] : ClientRecv(p)
  \/ \E p \in net["server"] :
       ServerAnswers(p) \/ TryAcceptClient(p) \/ Rejoin(p) \/ ServerRecv(p)

\* Nothing is lost in the moment in which the receiver handles the chunks of
\* another packet.
Lose(e, p) ==
  /\ BetweenPackets(e) /\ p \in net[e]
  /\ net' = [net EXCEPT ![e] = @ \ {p}]
  /\ UNCHANGED <<conn, rest, session, ghosts>>

\* Variant: whatever is not old is next.
InSequenceIfNew(c, k) == ~IsSeqInBackroom(k.seq, c.ack)

InSequence(c, k) == k.seq = (c.ack + 1) % MaxSeq

\* CNetRecvUnpacker::FetchChunk: the next chunk in sequence, if any is left, goes
\* to the game; chunks passed over are old, or make it ask for a resend.
FetchChunk(e) ==
  LET c == conn[e]
      r == rest[e]
      s == mine[e]
      next == {i \in 1..Len(r) : InSequence(c, r[i])}
      last == IF next = {} THEN Len(r) + 1 ELSE Min(next)
      d == IF \E i \in 1..(last - 1) : ~IsSeqInBackroom(r[i].seq, c.ack)
           THEN SignalResend(c) ELSE c
  IN
  /\ r # <<>>
  /\ rest' = [rest EXCEPT ![e] = SubSeq(r, last + 1, Len(r))]
  /\ IF next = {}
     THEN conn' = [conn EXCEPT ![e] = d] /\ UNCHANGED <<got, odd>>
     ELSE /\ conn' = [conn EXCEPT ![e] = [d EXCEPT !.ack = r[last].seq]]
          /\ IF s # 0 /\ r[last].ses = s /\ r[last].id = got[e][s] + 1
             THEN got' = [got EXCEPT ![e][s] = @ + 1] /\ UNCHANGED odd
             ELSE odd' = odd \cup {s} /\ UNCHANGED got
  /\ UNCHANGED <<net, session, budget, mine, opened, sent, unkept, spoilt>>

-----------------------------------------------------------------------------
(* Timers *)

\* 10 s without a packet or with the oldest chunk unacknowledged; 1 s since the
\* oldest chunk was sent; 0.5 s and 1 s since anything was sent.
Due == {d \in SUBSET {"dead", "resend", "silent", "quiet"} : "quiet" \in d => "silent" \in d}

\* Variant: nothing is repeated unasked.
UpdateOpenNoResend(e, c, due) ==
  LET f == IF "silent" \in due THEN Flush(e, c) ELSE c
  IN IF c.state = "connect" THEN IF "silent" \in due THEN SendControl(e, c, "connect") ELSE c
     ELSE IF "quiet" \in due /\ f.out = {} THEN SendControl(e, f, "keepalive") ELSE f

UpdateOpen(e, c, due) ==
  LET r == IF "resend" \in due /\ c.buffer # <<>> THEN ResendChunk(e, c, Head(c.buffer)) ELSE c
      f == IF "silent" \in due THEN Flush(e, r) ELSE r
  IN IF c.state = "connect" THEN IF "silent" \in due THEN SendControl(e, c, "connect") ELSE c
     ELSE IF "quiet" \in due /\ f.out = {} THEN SendControl(e, f, "keepalive") ELSE f

\* CNetConnection::Update; CNetServer::Update drops a connection in error and
\* CNetClient::Update disconnects, without a word.
Update(e, due) ==
  LET over == conn[e].state = "error" \/ (conn[e].state = "online" /\ "dead" \in due) IN
  /\ BetweenPackets(e) /\ conn[e].state # "offline"
  /\ Transmit(e, IF over THEN Reset(conn[e]) ELSE UpdateOpen(e, conn[e], due), net)
  /\ mine' = IF over THEN [mine EXCEPT ![e] = 0] ELSE mine
  /\ UNCHANGED <<rest, session, budget, opened, sent, got, unkept, odd, spoilt>>

Next ==
  \/ Connect \/ Receive
  \/ \E e \in Ends :
       \/ Disconnect(e) \/ Submit(e) \/ FlushNow(e) \/ FetchChunk(e)
       \/ \E due \in Due : Update(e, due)
       \/ \E p \in net[e] : Lose(e, p)

Spec == Init /\ [][Next]_vars

(* Fairness: timers run out, packets do not stay on the way for ever, and the   *)
(* network does not lose everything: what is sent again and again gets out, and *)
(* arrives, again and again.                                                 *)
Recv(e, p) == IF e = "client" THEN ClientRecv(p) ELSE ServerRecv(p)

Brings(e, p) ==
  \/ \E i \in 1..Len(p.chunks) : InSequence(conn[e], p.chunks[i])
  \/ conn[e].buffer # <<>> /\ p.n >= Head(conn[e].buffer).id

SendsAgain(e) ==
  /\ Update(e, {"resend", "silent", "quiet"})
  /\ \E p \in net'[Peer(e)] \ net[Peer(e)] : Brings(Peer(e), p)

Arrives(e) == \E p \in net[e] : Brings(e, p) /\ Recv(e, p)
Passes(e) == \E p \in net[e] : Lose(e, p)

FairSpec ==
  /\ Spec
  /\ \A e \in Ends : WF_vars(FetchChunk(e)) /\ SF_vars(Passes(e))
                     /\ SF_vars(SendsAgain(e)) /\ SF_vars(Arrives(e))

-----------------------------------------------------------------------------
Seqs == 0..(MaxSeq - 1)
Chunk == [seq : Seqs, id : Nat \ {0}, ses : Sessions]

\* Numbers stay below NET_MAX_SEQUENCE, the resend buffer within its size, and
\* no connection is open without a session (Feed, QueueChunk, Reset).
TypeOK ==
  /\ \A e \in Ends :
       /\ conn[e].state \in {"offline", "connect", "online", "error"}
       /\ {conn[e].seq, conn[e].ack, conn[e].peerAck} \subseteq Seqs
       /\ conn[e].buffer \in Seq(Chunk) /\ Len(conn[e].buffer) <= BufferCap
       /\ conn[e].construct.chunks \in Seq(Chunk) /\ rest[e] \in Seq(Chunk)
       /\ conn[e].out = {}
       /\ conn[e].state \in {"connect", "online"} => mine[e] # 0
       /\ Cardinality(net[e]) <= MaxFlight(e)

\* The game gets the vital chunks of a session in the order in which they were
\* submitted, each once, whatever the network repeats or reorders (FetchChunk),
\* unless a named cause occurred: a packet of another session or of a whole
\* window ago, a sender a whole window ahead of the other end or of a chunk it
\* repeats, a session that is entered twice by a repeated ACCEPT, a connection
\* closed in the middle of a packet.
InOrderOnce == odd \subseteq spoilt

\* Both ends are in session s, and nothing has spoilt it.
Together(s) == mine["server"] = s /\ mine["client"] = s /\ s \notin spoilt

Sends(e) == 1..Max({b[e] : b \in Budgets})

Waits(e, s, n) ==
  /\ Together(s) /\ unkept[e] = {}
  /\ got[Peer(e)][s] < n /\ n <= sent[e][s]

\* A vital chunk that was submitted arrives, unless an end leaves the session or
\* the resend buffer was once too full to keep a chunk (QueueChunkEx): the timer
\* of the oldest chunk is enough, with a network that does not lose everything.
EverySentArrives ==
  \A e \in Ends : \A s \in Sessions : \A n \in Sends(e) :
    Waits(e, s, n) ~> ~Waits(e, s, n)

\* The variables have their types, and a chunk leaves the resend buffer only when
\* the other end has handed it to the game (AckChunks): what is not delivered is
\* still kept, or never was.
KeptUntilDelivered ==
  /\ TypeOK
  /\ \A e \in Ends : \A s \in Sessions :
       Together(s) =>
         \A n \in (got[Peer(e)][s] + 1)..sent[e][s] :
           n \in unkept[e] \/ \E i \in 1..Len(conn[e].buffer) : conn[e].buffer[i].id = n

=============================================================================
