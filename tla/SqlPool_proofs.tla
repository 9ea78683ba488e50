--------------------------- MODULE SqlPool_proofs ---------------------------
(***************************************************************************)
(* Proofs about SqlPool, for every number of threads, tasks, retries and    *)
(* every queue limit: types, that tasks are neither duplicated nor lost on   *)
(* their way between threads and queue, what the pool owes its callers, and  *)
(* that it implements TaskLife.                                              *)
(***************************************************************************)
EXTENDS SqlPool, TLAPS

Carrying == {"popped", "run", "enq", "enqHold", "enqWait"}

\* A thread holds a task exactly between taking it and passing it on; the queue
\* only holds tasks.
HandsMatch ==
  /\ \A th \in Threads : hand[th].task # NoTask <=> pc[th] \in Carrying
  /\ \A i \in 1..Len(queue) : queue[i].task # NoTask

IInv == TypeOK /\ HandsMatch /\ OnePlace /\ NoTaskVanishes

-----------------------------------------------------------------------------
\* The steps that move no task: only positions and the destructor change.
PassTask == <<hand, queue, todo, outcome>>

\* If no task moves, and no thread starts or stops carrying one, the places
\* stay what they are.
LEMMA NothingMoves ==
  ASSUME IInv, TypeOK', UNCHANGED PassTask,
         \A th \in Threads : pc'[th] \in Carrying <=> pc[th] \in Carrying
  PROVE  IInv'
BY DEF IInv, PassTask, HandsMatch, OnePlace, NoTaskVanishes, Queued, Carried

\* What a push and a pop do to the queue, position by position.
LEMMA PushedQueue ==
  ASSUME NEW S, NEW q \in Seq(S), NEW e \in S
  PROVE  /\ Append(q, e) \in Seq(S)
         /\ Len(Append(q, e)) = Len(q) + 1
         /\ \A i \in 1..Len(q) : Append(q, e)[i] = q[i]
         /\ Append(q, e)[Len(q) + 1] = e
OBVIOUS

LEMMA PoppedQueue ==
  ASSUME NEW S, NEW q \in Seq(S), q # <<>>
  PROVE  /\ Tail(q) \in Seq(S)
         /\ Head(q) \in S /\ Head(q) = q[1]
         /\ Len(q) \in Nat /\ Len(q) >= 1
         /\ Len(Tail(q)) = Len(q) - 1
         /\ \A i \in 1..Len(q) - 1 : Tail(q)[i] = q[i + 1]
OBVIOUS

\* Counting up one entry of a table of counters (also of an entry it has not).
LEMMA CountUp ==
  ASSUME NEW S, NEW f \in [S -> Nat], NEW t, NEW n \in Nat
  PROVE  [f EXCEPT ![t] = @ + n] \in [S -> Nat]
<1>1. CASE t \in S
  <2>1. f[t] + n \in Nat
    BY <1>1
  <2> QED BY <2>1
<1>2. CASE t \notin S
  BY <1>2
<1> QED BY <1>1, <1>2

-----------------------------------------------------------------------------
\* Types
USE ThreadAssumption, TaskAssumption, ConfigAssumption

LEMMA InitType == Init => TypeOK
BY DEF Init, TypeOK, Home, Threads, Enqueueing, ProducerAt, WorkerAt, Outcomes,
       CTasks, Nothing, CTask

LEMMA TypeInvariant == TypeOK /\ [Next]_vars => TypeOK'
<1> SUFFICES ASSUME TypeOK, [Next]_vars PROVE TypeOK'
  OBVIOUS
<1> USE DEF TypeOK, Threads, Enqueueing, ProducerAt, WorkerAt, ghosts
<1>1. ASSUME NEW p \in Producers, NEW t \in Tasks, Submit(p, t) PROVE TypeOK'
  BY <1>1 DEF Submit, CTask, CTasks
<1>2. ASSUME NEW th \in Threads, TryEnqueue(th) PROVE TypeOK'
  <2>1. CASE EnqueueRefused(th)
    BY <2>1 DEF EnqueueRefused, Home, Nothing, CTask, CTasks, Outcomes
  <2>2. CASE EnqueueFull(th)
    BY <2>2 DEF EnqueueFull
  <2>3. CASE EnqueuePush(th)
    <3>1. queue' \in Seq(CTasks) /\ Len(queue') = Len(queue) + 1 /\ Len(queue) \in Nat
      BY <2>3, PushedQueue DEF EnqueuePush
    <3>2. Len(queue') <= MaxQueue
      BY <2>3, <3>1 DEF EnqueuePush
    <3> QED BY <2>3, <3>1, <3>2 DEF EnqueuePush, Nothing, CTask, CTasks
  <2> QED BY <1>2, <2>1, <2>2, <2>3 DEF TryEnqueue
<1>3. ASSUME NEW th \in Threads, Sleep(th) PROVE TypeOK'
  BY <1>3 DEF Sleep
<1>4. ASSUME NEW th \in Threads, Timeout(th) PROVE TypeOK'
  BY <1>4 DEF Timeout, Sleepers, Awake
<1>5. ASSUME NEW th \in Threads, NotifyOne(th) PROVE TypeOK'
  BY <1>5 DEF NotifyOne, Sleepers, Awake, Home
<1>6. ASSUME NEW w \in Workers, Fetch(w) PROVE TypeOK'
  <2>1. CASE FetchExit(w)
    BY <2>1 DEF FetchExit
  <2>2. CASE FetchEmpty(w)
    BY <2>2 DEF FetchEmpty
  <2>3. CASE FetchPop(w)
    <3>1. /\ Head(queue) \in CTasks /\ queue' \in Seq(CTasks)
          /\ Len(queue) \in Nat /\ Len(queue') = Len(queue) - 1
      BY <2>3, PoppedQueue DEF FetchPop
    <3>2. Len(queue') <= MaxQueue
      BY <3>1
    <3> QED BY <2>3, <3>1, <3>2 DEF FetchPop
  <2> QED BY <1>6, <2>1, <2>2, <2>3 DEF Fetch
<1>7. ASSUME NEW w \in Workers, NotifyAll(w) PROVE TypeOK'
  BY <1>7 DEF NotifyAll, Sleepers, Awake
<1>8. ASSUME NEW w \in Workers, Run(w) PROVE TypeOK'
  <2> DEFINE HandAndPc == /\ DOMAIN pc' = Threads
                          /\ \A p \in Producers : pc'[p] \in ProducerAt
                          /\ \A v \in Workers : pc'[v] \in WorkerAt
                          /\ hand' \in [Threads -> CTasks]
  <2>a. Again(w) => HandAndPc /\ todo' = todo /\ outcome' = outcome /\ logged' = logged
    BY DEF Again, CTask, CTasks
  <2>b. ASSUME NEW how \in {"ok", "failed", "lost"}, End(w, how)
        PROVE  outcome' \in [Tasks -> Outcomes] /\ logged' \in [Tasks -> Nat]
    <3>1. outcome' \in [Tasks -> Outcomes]
      BY <2>b DEF End, Outcomes
    <3>2. [logged EXCEPT ![Held(w)] = @ + 1] \in [Tasks -> Nat]
      BY CountUp
    <3> QED BY <2>b, <3>1, <3>2 DEF End
  <2>c. Release(w) => HandAndPc /\ todo' = todo
    BY DEF Release, Nothing, CTask, CTasks
  <2>d. ASSUME NEW n \in Nat, NEW t
        PROVE  /\ Call(t, n) => calls' \in [Tasks -> Nat]
               /\ Apply(t, n) => applied' \in [Tasks -> Nat]
    <3>1. calls \in [Tasks -> Nat] /\ applied \in [Tasks -> Nat]
      OBVIOUS
    <3> HIDE DEF TypeOK
    <3>2. [calls EXCEPT ![t] = @ + n] \in [Tasks -> Nat]
      BY <3>1, CountUp
    <3>3. [applied EXCEPT ![t] = @ + n] \in [Tasks -> Nat]
      BY <3>1, CountUp
    <3> QED BY <3>2, <3>3 DEF Call, Apply
  <2>e. ASSUME NEW f \in todo, hand' = [hand EXCEPT ![w] = CTask(f, 0)],
               pc' = [pc EXCEPT ![w] = "enq"]
        PROVE  HandAndPc
    BY <2>e DEF CTask, CTasks
  <2> HIDE DEF HandAndPc
  <2>f. HandAndPc <=> /\ DOMAIN pc' = Threads
                      /\ \A p \in Producers : pc'[p] \in ProducerAt
                      /\ \A v \in Workers : pc'[v] \in WorkerAt
                      /\ hand' \in [Threads -> CTasks]
    BY DEF HandAndPc
  <2>g. Answered(w) => HandAndPc /\ todo' \subseteq Tasks
    BY <2>c, <2>e DEF Answered
  <2>1. CASE NoConnection(w)
    BY <2>1, <2>a, <2>b, <2>c, <2>f DEF NoConnection
  <2>2. CASE SelectOk(w)
    BY <2>2, <2>b, <2>d, <2>f, <2>g DEF SelectOk
  <2>3. CASE SelectLost(w)
    <3> PICK n \in {0, 1} :
           \/ Again(w) /\ Call(Held(w), n)
           \/ End(w, "failed") /\ Answered(w) /\ Call(Held(w), n + 1)
      BY <2>3 DEF SelectLost
    <3>1. n \in Nat /\ n + 1 \in Nat
      OBVIOUS
    <3>2. calls' \in [Tasks -> Nat]
      BY <2>d, <3>1
    <3> QED BY <2>3, <3>2, <2>a, <2>b, <2>f, <2>g DEF SelectLost
  <2>4. CASE SelectError(w)
    BY <2>4, <2>b, <2>d, <2>f, <2>g DEF SelectError
  <2>5. CASE DmlOk(w)
    BY <2>5, <2>b, <2>d, <2>f, <2>g DEF DmlOk
  <2>6. CASE DmlLost(w)
    <3>1. applied' \in [Tasks -> Nat]
      BY <2>6, <2>d DEF DmlLost
    <3> QED BY <2>6, <3>1, <2>a, <2>b, <2>d, <2>f, <2>g DEF DmlLost
  <2>7. CASE DmlError(w)
    BY <2>7, <2>b, <2>d, <2>f, <2>g DEF DmlError
  <2> QED BY <1>8, <2>1, <2>2, <2>3, <2>4, <2>5, <2>6, <2>7 DEF Run
<1>9. CASE StopStore
  BY <1>9 DEF StopStore
<1>10. CASE Destructor
  BY <1>10 DEF Destructor, StopNotify, Joined, Sleepers, Awake
<1>11. CASE UNCHANGED vars
  BY <1>11 DEF vars
<1> QED BY <1>1, <1>2, <1>3, <1>4, <1>5, <1>6, <1>7, <1>8, <1>9, <1>10, <1>11 DEF Next

\* CThreadPool: every variable of the pool keeps its type, and the queue keeps
\* within its limit whoever enqueues.
THEOREM TypeCorrect == Spec => []TypeOK
BY InitType, TypeInvariant, PTL DEF Spec

-----------------------------------------------------------------------------
\* Places
LEMMA InitPlaces == Init => IInv
<1> SUFFICES ASSUME Init PROVE HandsMatch /\ OnePlace /\ NoTaskVanishes
  BY InitType DEF IInv
<1>1. queue = <<>> /\ Len(queue) = 0 /\ \A th \in Threads : hand[th].task = NoTask
  BY DEF Init, Nothing, CTask
<1>2. \A th \in Threads : pc[th] \notin Carrying
  BY DEF Init, Home, Carrying
<1> QED BY <1>1, <1>2 DEF Init, HandsMatch, OnePlace, NoTaskVanishes, Queued, Carried

\* A task nobody asked for yet gets into the hand of a thread whose hand is
\* empty, or which just finished the task it held (its callback).
LEMMA TakeNew ==
  ASSUME IInv, TypeOK', NEW th \in Threads, NEW f \in todo,
         hand' = [hand EXCEPT ![th] = CTask(f, 0)],
         pc' = [pc EXCEPT ![th] = "enq"],
         todo' = todo \ {f}, queue' = queue,
         \/ hand[th].task = NoTask /\ outcome' = outcome
         \/ hand[th].task # NoTask
            /\ \E how \in Outcomes \ {"open"} : outcome' = [outcome EXCEPT ![hand[th].task] = how]
  PROVE  IInv'
<1> USE DEF IInv
<1>1. /\ hand'[th].task = f /\ f \in Tasks /\ f # NoTask
      /\ \A o \in Threads : o # th => hand'[o] = hand[o]
      /\ pc'[th] = "enq" /\ \A o \in Threads : o # th => pc'[o] = pc[o]
  BY DEF TypeOK, CTask
<1>2. /\ outcome[f] = "open" /\ ~Queued(f) /\ ~Carried(f)
  BY <1>1 DEF OnePlace, NoTaskVanishes, TypeOK
<1>3. HandsMatch'
  BY <1>1 DEF HandsMatch, Carrying
<1>4. \A t \in Tasks : /\ Queued(t)' <=> Queued(t)
                       /\ Carried(t)' <=> t = f \/ (Carried(t) /\ t # hand[th].task)
  BY <1>1, <1>2 DEF Queued, Carried, OnePlace
<1>5. \A t \in Tasks : t # hand[th].task => outcome'[t] = outcome[t]
  BY DEF TypeOK
<1>6. ASSUME NEW t \in Tasks, t = hand[th].task
      PROVE  Carried(t) /\ ~Queued(t) /\ outcome'[t] # "open"
  <2>1. t # NoTask /\ Carried(t)
    BY <1>6, TaskAssumption DEF Carried
  <2>2. ~Queued(t)
    BY <2>1 DEF OnePlace
  <2>3. PICK how \in Outcomes \ {"open"} : outcome' = [outcome EXCEPT ![t] = how]
    BY <1>6, <2>1
  <2> QED BY <2>1, <2>2, <2>3 DEF TypeOK
<1>7. OnePlace'
  <2>1. \A i, j \in 1..Len(queue') : i # j => queue'[i].task # queue'[j].task
    BY DEF OnePlace
  <2>2. \A o, p \in Threads : o # p /\ hand'[o].task # NoTask => hand'[o].task # hand'[p].task
    BY <1>1, <1>2 DEF OnePlace, Carried
  <2>3. \A t \in Tasks : Queued(t)' => ~Carried(t)'
    BY <1>2, <1>4 DEF OnePlace
  <2>4. \A t \in Tasks : Queued(t)' \/ Carried(t)' => outcome'[t] = "open" /\ t \notin todo'
    BY <1>1, <1>2, <1>4, <1>5, <1>6 DEF OnePlace
  <2>5. \A t \in todo' : outcome'[t] = "open"
    BY <1>5, <1>6 DEF OnePlace, TypeOK
  <2> QED BY <2>1, <2>2, <2>3, <2>4, <2>5 DEF OnePlace
<1>8. NoTaskVanishes'
  BY <1>1, <1>2, <1>4, <1>5, <1>6 DEF NoTaskVanishes
<1> QED BY <1>3, <1>7, <1>8

\* The task a thread holds ends, and nothing else moves.
LEMMA EndOfTask ==
  ASSUME IInv, TypeOK', NEW th \in Threads, NEW how \in Outcomes \ {"open"},
         hand[th].task # NoTask,
         outcome' = [outcome EXCEPT ![hand[th].task] = how],
         hand' = [hand EXCEPT ![th] = Nothing],
         pc' = [pc EXCEPT ![th] = Home(th)],
         todo' = todo, queue' = queue
  PROVE  IInv'
<1> USE DEF IInv
<1>1. /\ hand'[th].task = NoTask
      /\ \A o \in Threads : o # th => hand'[o] = hand[o]
      /\ pc'[th] \notin Carrying /\ \A o \in Threads : o # th => pc'[o] = pc[o]
  BY DEF TypeOK, Nothing, CTask, Home, Carrying
<1>2. HandsMatch'
  BY <1>1 DEF HandsMatch
<1>3. \A t \in Tasks : /\ Queued(t)' <=> Queued(t)
                       /\ Carried(t)' <=> Carried(t) /\ t # hand[th].task
  BY <1>1 DEF Queued, Carried, OnePlace
<1>4. \A t \in Tasks : IF t = hand[th].task THEN outcome'[t] # "open" ELSE outcome'[t] = outcome[t]
  BY DEF TypeOK
<1>5. OnePlace'
  <2>1. \A i, j \in 1..Len(queue') : i # j => queue'[i].task # queue'[j].task
    BY DEF OnePlace
  <2>2. \A o, p \in Threads : o # p /\ hand'[o].task # NoTask => hand'[o].task # hand'[p].task
    BY <1>1 DEF OnePlace
  <2>3. \A t \in Tasks : Queued(t)' => ~Carried(t)'
    BY <1>3 DEF OnePlace
  <2>4. \A t \in Tasks : Queued(t)' \/ Carried(t)' => outcome'[t] = "open" /\ t \notin todo'
    BY <1>3, <1>4 DEF OnePlace, Carried
  <2>5. ASSUME NEW t \in todo' PROVE outcome'[t] = "open"
    <3>1. t \in Tasks /\ t \in todo /\ outcome[t] = "open"
      BY DEF TypeOK, OnePlace
    <3>2. t # hand[th].task
      BY <3>1 DEF OnePlace, Carried
    <3> QED BY <1>4, <3>1, <3>2
  <2> QED BY <2>1, <2>2, <2>3, <2>4, <2>5 DEF OnePlace
<1>6. NoTaskVanishes'
  BY <1>3, <1>4 DEF NoTaskVanishes
<1> QED BY <1>2, <1>5, <1>6

\* The task stays in the thread's hand; only its retry count changes.
LEMMA SameHand ==
  ASSUME IInv, TypeOK', NEW w \in Workers, pc[w] = "run", Again(w), queue' = queue
  PROVE  IInv'
<1> USE DEF IInv
<1>1. w \in Threads
  BY DEF Threads
<1>2. /\ \A o \in Threads : hand'[o].task = hand[o].task
      /\ \A o \in Threads : pc'[o] \in Carrying <=> pc[o] \in Carrying
  BY <1>1 DEF TypeOK, Again, CTask, Carrying
<1> QED BY <1>2 DEF Again, HandsMatch, OnePlace, NoTaskVanishes, Queued, Carried

\* EnqueueTask appends what the thread holds.
LEMMA PushMoves ==
  ASSUME IInv, TypeOK', NEW th \in Threads, EnqueuePush(th)
  PROVE  IInv'
<1> USE DEF IInv
<1> DEFINE e == hand[th]
<1>1. /\ e \in CTasks /\ e.task # NoTask
      /\ hand'[th].task = NoTask /\ \A o \in Threads : o # th => hand'[o] = hand[o]
      /\ pc'[th] \notin Carrying /\ \A o \in Threads : o # th => pc'[o] = pc[o]
  BY DEF TypeOK, EnqueuePush, Nothing, CTask, HandsMatch, Carrying
<1>2. /\ Len(queue) \in Nat /\ Len(queue') = Len(queue) + 1
      /\ \A i \in 1..Len(queue) : queue'[i] = queue[i]
      /\ queue'[Len(queue) + 1] = e
  BY <1>1, PushedQueue DEF TypeOK, EnqueuePush
<1>3. Carried(e.task) /\ ~Queued(e.task)
  BY <1>1 DEF Carried, OnePlace, TypeOK, CTasks
<1>4. \A t : /\ Queued(t)' <=> Queued(t) \/ t = e.task
  BY <1>2 DEF Queued
<1>5. \A t \in Tasks : Carried(t)' <=> Carried(t) /\ t # e.task
  BY <1>1 DEF Carried, OnePlace
<1>6. HandsMatch'
  BY <1>1, <1>2 DEF HandsMatch
<1>7. OnePlace'
  <2>1. \A i, j \in 1..Len(queue') : i # j => queue'[i].task # queue'[j].task
    BY <1>2, <1>3 DEF OnePlace, Queued
  <2>2. \A o, p \in Threads : o # p /\ hand'[o].task # NoTask => hand'[o].task # hand'[p].task
    BY <1>1 DEF OnePlace
  <2>3. outcome' = outcome /\ todo' = todo
    BY DEF EnqueuePush, ghosts
  <2>4. \A t \in Tasks : Queued(t)' => ~Carried(t)'
    BY <1>4, <1>5 DEF OnePlace
  <2>5. \A t \in Tasks : Queued(t)' \/ Carried(t)' => outcome'[t] = "open" /\ t \notin todo'
    BY <1>3, <1>4, <1>5, <2>3 DEF OnePlace
  <2>6. \A t \in todo' : outcome'[t] = "open"
    BY <2>3 DEF OnePlace
  <2> QED BY <2>1, <2>2, <2>4, <2>5, <2>6 DEF OnePlace
<1>8. NoTaskVanishes'
  BY <1>4, <1>5 DEF NoTaskVanishes, EnqueuePush, ghosts
<1> QED BY <1>6, <1>7, <1>8

\* WorkerThread takes the first task of the queue into an empty hand.
LEMMA PopMoves ==
  ASSUME IInv, TypeOK', NEW w \in Workers, FetchPop(w)
  PROVE  IInv'
<1> USE DEF IInv
<1> DEFINE e == Head(queue)
<1>1. /\ w \in Threads /\ hand[w].task = NoTask
      /\ hand'[w] = e /\ \A o \in Threads : o # w => hand'[o] = hand[o]
      /\ pc'[w] \in Carrying /\ \A o \in Threads : o # w => pc'[o] = pc[o]
  BY DEF TypeOK, FetchPop, HandsMatch, Carrying, Threads
<1>2. /\ Len(queue) \in Nat /\ Len(queue) >= 1 /\ e = queue[1] /\ e \in CTasks
      /\ Len(queue') = Len(queue) - 1
      /\ \A i \in 1..Len(queue) - 1 : queue'[i] = queue[i + 1]
  BY PoppedQueue DEF TypeOK, FetchPop
<1>3. Queued(e.task) /\ ~Carried(e.task) /\ e.task # NoTask
  <2>1. 1 \in 1..Len(queue)
    BY <1>2
  <2> QED BY <1>2, <2>1 DEF Queued, HandsMatch, OnePlace, CTasks
<1>4. \A t : Queued(t)' <=> Queued(t) /\ t # e.task
  <2>1. ASSUME NEW t, Queued(t)' PROVE Queued(t) /\ t # e.task
    <3>1. PICK i \in 1..Len(queue') : queue'[i].task = t
      BY <2>1 DEF Queued
    <3>2. i + 1 \in 1..Len(queue) /\ 1 \in 1..Len(queue) /\ i + 1 # 1 /\ queue[i + 1].task = t
      BY <1>2, <3>1
    <3> QED BY <1>2, <3>2 DEF Queued, OnePlace
  <2>2. ASSUME NEW t, Queued(t), t # e.task PROVE Queued(t)'
    <3>1. PICK i \in 1..Len(queue) : queue[i].task = t
      BY <2>2 DEF Queued
    <3>2. i # 1
      BY <1>2, <2>2, <3>1
    <3>3. i - 1 \in 1..Len(queue') /\ queue'[i - 1].task = t
      BY <1>2, <3>1, <3>2
    <3> QED BY <3>3 DEF Queued
  <2> QED BY <2>1, <2>2
<1>5. \A t \in Tasks : Carried(t)' <=> Carried(t) \/ t = e.task
  BY <1>1, TaskAssumption DEF Carried
<1>6. HandsMatch'
  BY <1>1, <1>2, <1>3 DEF HandsMatch
<1>7. outcome' = outcome /\ todo' = todo
  BY DEF FetchPop, ghosts
<1>8. OnePlace'
  <2>1. \A i, j \in 1..Len(queue') : i # j => queue'[i].task # queue'[j].task
    <3> SUFFICES ASSUME NEW i \in 1..Len(queue'), NEW j \in 1..Len(queue'), i # j
                 PROVE  queue'[i].task # queue'[j].task
      OBVIOUS
    <3>1. i + 1 \in 1..Len(queue) /\ j + 1 \in 1..Len(queue) /\ i + 1 # j + 1
      BY <1>2
    <3> QED BY <1>2, <3>1 DEF OnePlace
  <2>2. \A o, p \in Threads : o # p /\ hand'[o].task # NoTask => hand'[o].task # hand'[p].task
    BY <1>1, <1>3 DEF OnePlace, Carried
  <2>3. \A t \in Tasks : Queued(t)' => ~Carried(t)'
    BY <1>4, <1>5 DEF OnePlace
  <2>4. \A t \in Tasks : Queued(t)' \/ Carried(t)' => outcome'[t] = "open" /\ t \notin todo'
    BY <1>3, <1>4, <1>5, <1>7 DEF OnePlace
  <2>5. \A t \in todo' : outcome'[t] = "open"
    BY <1>7 DEF OnePlace
  <2> QED BY <2>1, <2>2, <2>3, <2>4, <2>5 DEF OnePlace
<1>9. NoTaskVanishes'
  BY <1>4, <1>5, <1>7 DEF NoTaskVanishes
<1> QED BY <1>6, <1>8, <1>9

LEMMA PlacesStep == IInv /\ [Next]_vars => IInv'
<1> SUFFICES ASSUME IInv, [Next]_vars PROVE IInv'
  OBVIOUS
<1>t. TypeOK'
  BY TypeInvariant DEF IInv
<1>1. ASSUME NEW p \in Producers, NEW t \in Tasks, Submit(p, t) PROVE IInv'
  <2>1. p \in Threads /\ hand[p].task = NoTask
    BY <1>1 DEF Submit, IInv, HandsMatch, Carrying, Threads
  <2> QED BY <1>1, <1>t, <2>1, TakeNew DEF Submit, ghosts
<1>2. ASSUME NEW th \in Threads, TryEnqueue(th) PROVE IInv'
  <2>1. CASE EnqueueRefused(th)
    <3>1. hand[th].task # NoTask
      BY <2>1 DEF EnqueueRefused, IInv, HandsMatch, Carrying
    <3>2. IF hand[th].retry = 0 THEN "refused" \in Outcomes \ {"open"}
                                      ELSE "abandoned" \in Outcomes \ {"open"}
      BY DEF Outcomes
    <3>3. PICK how \in Outcomes \ {"open"} : outcome' = [outcome EXCEPT ![hand[th].task] = how]
      BY <2>1, <3>2 DEF EnqueueRefused
    <3> QED BY <2>1, <1>t, <3>1, <3>3, EndOfTask DEF EnqueueRefused
  <2>2. CASE EnqueueFull(th)
    BY <2>2, <1>t, NothingMoves DEF EnqueueFull, PassTask, Carrying, ghosts, IInv, TypeOK
  <2>3. CASE EnqueuePush(th)
    BY <2>3, <1>t, PushMoves
  <2> QED BY <1>2, <2>1, <2>2, <2>3 DEF TryEnqueue
<1>3. ASSUME NEW th \in Threads, Sleep(th) PROVE IInv'
  BY <1>3, <1>t, NothingMoves DEF Sleep, PassTask, Carrying, ghosts, IInv, TypeOK
<1>4. ASSUME NEW th \in Threads, Timeout(th) PROVE IInv'
  BY <1>4, <1>t, NothingMoves
     DEF Timeout, Sleepers, Awake, PassTask, Carrying, ghosts, IInv, TypeOK
<1>5. ASSUME NEW th \in Threads, NotifyOne(th) PROVE IInv'
  BY <1>5, <1>t, NothingMoves
     DEF NotifyOne, Sleepers, Awake, Home, PassTask, Carrying, ghosts, IInv, TypeOK
<1>6. ASSUME NEW w \in Workers, Fetch(w) PROVE IInv'
  <2>1. CASE FetchExit(w)
    BY <2>1, <1>t, NothingMoves DEF FetchExit, PassTask, Carrying, ghosts, IInv, TypeOK, Threads
  <2>2. CASE FetchEmpty(w)
    BY <2>2, <1>t, NothingMoves DEF FetchEmpty, PassTask, Carrying, ghosts, IInv, TypeOK, Threads
  <2>3. CASE FetchPop(w)
    BY <2>3, <1>t, PopMoves
  <2> QED BY <1>6, <2>1, <2>2, <2>3 DEF Fetch
<1>7. ASSUME NEW w \in Workers, NotifyAll(w) PROVE IInv'
  BY <1>7, <1>t, NothingMoves
     DEF NotifyAll, Sleepers, Awake, PassTask, Carrying, ghosts, IInv, TypeOK
<1>8. ASSUME NEW w \in Workers, Run(w) PROVE IInv'
  <2>1. w \in Threads /\ pc[w] = "run" /\ hand[w].task # NoTask /\ Home(w) = "fetch" /\ queue' = queue
    BY <1>8 DEF Run, NoConnection, SelectOk, SelectLost, SelectError, DmlOk, DmlLost, DmlError,
                IInv, HandsMatch, Carrying, Threads, Home
  <2>2. CASE Again(w)
    BY <1>t, <2>1, <2>2, SameHand
  <2>3. ASSUME NEW how \in Outcomes \ {"open"}, End(w, how), Release(w) PROVE IInv'
    BY <1>t, <2>1, <2>3, EndOfTask DEF End, Release, Held
  <2>4. ASSUME NEW how \in Outcomes \ {"open"}, End(w, how), Answered(w), ~Release(w)
        PROVE  IInv'
    <3>1. PICK f \in todo : /\ hand' = [hand EXCEPT ![w] = CTask(f, 0)]
                            /\ pc' = [pc EXCEPT ![w] = "enq"]
                            /\ todo' = todo \ {f}
      BY <2>4 DEF Answered
    <3>2. outcome' = [outcome EXCEPT ![hand[w].task] = how]
      BY <2>4 DEF End, Held
    <3> QED BY <1>t, <2>1, <3>1, <3>2, TakeNew
  <2>5. \/ Again(w)
        \/ \E how \in Outcomes \ {"open"} : End(w, how) /\ (Release(w) \/ Answered(w))
    BY <1>8 DEF Run, NoConnection, SelectOk, SelectLost, SelectError, DmlOk, DmlLost, DmlError, Outcomes
  <2> QED BY <2>2, <2>3, <2>4, <2>5
<1>9. CASE StopStore
  BY <1>9, <1>t, NothingMoves DEF StopStore, PassTask, ghosts
<1>10. CASE Destructor
  BY <1>10, <1>t, NothingMoves
     DEF Destructor, StopNotify, Joined, Sleepers, Awake, PassTask, Carrying, ghosts, IInv, TypeOK
<1>11. CASE UNCHANGED vars
  BY <1>11, <1>t, NothingMoves DEF vars, PassTask
<1> QED BY <1>1, <1>2, <1>3, <1>4, <1>5, <1>6, <1>7, <1>8, <1>9, <1>10, <1>11 DEF Next

LEMMA PlacesInvariant == Spec => []IInv
BY InitPlaces, PlacesStep, PTL DEF Spec

\* CThreadPool: no task is ever in two places.
THEOREM NeverInTwoPlaces == Spec => []OnePlace
BY PlacesInvariant, PTL DEF IInv

\* CThreadPool: no task handed over disappears before it ended.
THEOREM NoTaskIsLost == Spec => []NoTaskVanishes
BY PlacesInvariant, PTL DEF IInv

-----------------------------------------------------------------------------
\* Accounts
\* A held task is open, so whatever ends it is the first and only thing to.
LEMMA HeldIsOpen ==
  ASSUME IInv, NEW th \in Threads, pc[th] \in Carrying
  PROVE  hand[th].task \in Tasks /\ outcome[hand[th].task] = "open"
<1>1. hand[th].task \in Tasks
  BY DEF IInv, HandsMatch, TypeOK, CTasks
<1> QED BY <1>1 DEF IInv, OnePlace, Carried

LEMMA ToldStep == IInv /\ ToldOnce /\ [Next]_vars => ToldOnce'
<1> SUFFICES ASSUME IInv, ToldOnce, [Next]_vars, NEW t \in Tasks \ Throwing
             PROVE  calls'[t] = IF outcome'[t] \in {"ok", "failed"} THEN 1 ELSE 0
  BY DEF ToldOnce
<1> DEFINE Goal == calls'[t] = IF outcome'[t] \in {"ok", "failed"} THEN 1 ELSE 0
<1>1. CASE UNCHANGED <<outcome, calls>>
  BY <1>1 DEF ToldOnce
<1>2. ASSUME NEW th \in Threads, EnqueueRefused(th) PROVE Goal
  <2>1. outcome[hand[th].task] = "open"
    BY <1>2, HeldIsOpen DEF EnqueueRefused, Carrying
  <2>2. calls' = calls /\ outcome'[t] \in {outcome[t], "refused", "abandoned"}
        /\ (outcome'[t] # outcome[t] => t = hand[th].task)
    BY <1>2 DEF EnqueueRefused, IInv, TypeOK
  <2> QED BY <2>1, <2>2 DEF ToldOnce
<1>3. ASSUME NEW w \in Workers, Run(w) PROVE Goal
  <2>1. Held(w) \in Tasks /\ outcome[Held(w)] = "open"
    BY <1>3, HeldIsOpen
       DEF Held, Run, NoConnection, SelectOk, SelectLost, SelectError, DmlOk, DmlLost, DmlError,
           Carrying, Threads
  <2>2. CASE t # Held(w)
    <3>1. calls'[t] = calls[t] /\ outcome'[t] = outcome[t]
      BY <1>3, <2>2 DEF Run, NoConnection, SelectOk, SelectLost, SelectError, DmlOk, DmlLost, DmlError,
                 Again, End, Call, IInv, TypeOK
    <3> QED BY <3>1 DEF ToldOnce
  <2>3. CASE t = Held(w)
    <3>1. calls[t] = 0 /\ outcome[t] = "open"
      BY <2>1, <2>3 DEF ToldOnce
    <3>2. \A n \in Nat : Call(Held(w), n) => calls'[t] = n
      BY <2>3, <3>1 DEF Call, IInv, TypeOK
    <3>3. \A how : End(w, how) => outcome'[t] = how
      BY <2>3 DEF End, IInv, TypeOK
    <3>4. Again(w) => outcome'[t] = "open"
      BY <3>1 DEF Again
    <3>5. Held(w) \notin Throwing
      BY <2>3
    <3> HIDE DEF Goal
    <3>6. (outcome'[t] \in {"ok", "failed"} /\ calls'[t] = 1)
          \/ (outcome'[t] \notin {"ok", "failed"} /\ calls'[t] = 0)
      <4>1. CASE NoConnection(w)
        BY <4>1, <3>1, <3>3, <3>4 DEF NoConnection
      <4>2. CASE SelectLost(w)
        BY <4>2, <3>2, <3>3, <3>4, <3>5 DEF SelectLost
      <4>3. CASE DmlLost(w)
        BY <4>3, <3>1, <3>2, <3>3, <3>4 DEF DmlLost
      <4>4. CASE SelectOk(w) \/ SelectError(w) \/ DmlOk(w) \/ DmlError(w)
        BY <4>4, <3>2, <3>3, <3>5 DEF SelectOk, SelectError, DmlOk, DmlError
      <4> QED BY <1>3, <4>1, <4>2, <4>3, <4>4 DEF Run
    <3> QED BY <3>6 DEF Goal
  <2> QED BY <2>2, <2>3
<1>4. \/ UNCHANGED <<outcome, calls>>
      \/ \E th \in Threads : EnqueueRefused(th)
      \/ \E w \in Workers : Run(w)
  BY DEF Next, vars, ghosts, Submit, TryEnqueue, EnqueueFull, EnqueuePush, Sleep, Timeout, NotifyOne,
         Fetch, FetchExit, FetchEmpty, FetchPop, NotifyAll, StopStore, Destructor, StopNotify, Joined
<1> QED BY <1>1, <1>2, <1>3, <1>4

\* CreateAsyncSelectTask, CreateAsyncDmlTask, EnqueueRetry: a callback that does
\* not raise is entered once when its statement ended, and never otherwise.
THEOREM CallbackIsToldOnce == Spec => []ToldOnce
<1>1. Init => ToldOnce
  BY DEF Init, ToldOnce
<1> QED BY <1>1, PlacesInvariant, ToldStep, PTL DEF Spec

-----------------------------------------------------------------------------
(* What the pool owes its callers: how often a statement is tried, that a     *)
(* loss is logged, that the destructor leaves nothing behind, and that        *)
(* SqlPool implements TaskLife.                                               *)

\* A task on its way was not tried more often than its retry count says.
WithinRetries(c) ==
  /\ c.retry <= MaxRetries(c.task)
  /\ applied[c.task] <= c.retry
  /\ c.task \in Throwing => calls[c.task] <= c.retry

Budget ==
  /\ \A th \in Threads : hand[th].task # NoTask => WithinRetries(hand[th])
  /\ \A i \in 1..Len(queue) : WithinRetries(queue[i])
  /\ \A t \in todo : applied[t] = 0 /\ calls[t] = 0
  /\ \A t \in Selects : applied[t] = 0
  /\ \A t \in Tasks \ Selects : applied[t] <= DmlRetries + 1

\* The log has an entry for what failed or was lost, and something applied for
\* every change that is reported to be done.
LogMatches ==
  /\ \A t \in Tasks : logged[t] = IF outcome[t] \in {"failed", "lost"} THEN 1 ELSE 0
  /\ \A t \in Tasks \ Selects : outcome[t] = "ok" => applied[t] > 0
  /\ \A t \in Tasks : outcome[t] \in {"refused", "abandoned"} => Stop

-----------------------------------------------------------------------------
\* What a worker may do to the task it holds, one way for each branch of Run.
LEMMA RunHolds ==
  ASSUME IInv, NEW w \in Workers, pc[w] = "run"
  PROVE  /\ w \in Threads
         /\ Held(w) \in Tasks /\ Held(w) # NoTask /\ hand[w].task = Held(w)
         /\ hand[w].retry \in Nat
         /\ outcome[Held(w)] = "open" /\ Held(w) \notin todo
         /\ ~Queued(Held(w))
         /\ \A o \in Threads : o # w => hand[o].task # Held(w)
<1>1. w \in Threads /\ pc[w] \in Carrying
  BY DEF Threads, Carrying
<1>2. Held(w) \in Tasks /\ outcome[Held(w)] = "open"
  BY <1>1, HeldIsOpen DEF Held
<1>3. hand[w].retry \in Nat
  BY <1>1 DEF IInv, TypeOK, CTasks
<1>4. Carried(Held(w))
  BY <1>1 DEF Carried, Held
<1>5. Held(w) # NoTask
  BY <1>2, TaskAssumption
<1>6. Held(w) \notin todo /\ ~Queued(Held(w))
  BY <1>2, <1>4 DEF IInv, OnePlace
<1>7. \A o \in Threads : o # w => hand[o].task # Held(w)
  BY <1>1, <1>5 DEF IInv, OnePlace, Held
<1> QED BY <1>1, <1>2, <1>3, <1>5, <1>6, <1>7 DEF Held

LEMMA RunPosition ==
  ASSUME NEW w \in Workers, Run(w)
  PROVE  pc[w] = "run" /\ queue' = queue /\ dtor' = dtor
BY DEF Run, NoConnection, SelectOk, SelectLost, SelectError, DmlOk, DmlLost, DmlError

\* The branches of Run, by what they do to the counters.
LEMMA RunCounts ==
  ASSUME IInv, NEW w \in Workers, Run(w)
  PROVE  /\ \A t \in Tasks : t # Held(w) => /\ applied'[t] = applied[t]
                                            /\ calls'[t] = calls[t]
                                            /\ logged'[t] = logged[t]
                                            /\ outcome'[t] = outcome[t]
         /\ applied'[Held(w)] \in {applied[Held(w)], applied[Held(w)] + 1}
         /\ Held(w) \in Selects => applied'[Held(w)] = applied[Held(w)]
         /\ DOMAIN applied' = Tasks /\ DOMAIN calls' = Tasks
         /\ DOMAIN logged' = Tasks /\ DOMAIN outcome' = Tasks
<1>1. pc[w] = "run"
  BY RunPosition
<1>2. Held(w) \in Tasks
  BY <1>1, RunHolds
<1>3. applied \in [Tasks -> Nat] /\ calls \in [Tasks -> Nat]
      /\ logged \in [Tasks -> Nat] /\ outcome \in [Tasks -> Outcomes]
  BY DEF IInv, TypeOK
<1>4. \A n : Apply(Held(w), n) =>
        /\ DOMAIN applied' = Tasks /\ applied'[Held(w)] = applied[Held(w)] + n
        /\ \A t \in Tasks : t # Held(w) => applied'[t] = applied[t]
  BY <1>2, <1>3 DEF Apply
<1>5. \A n : Call(Held(w), n) =>
        /\ DOMAIN calls' = Tasks
        /\ \A t \in Tasks : t # Held(w) => calls'[t] = calls[t]
  BY <1>2, <1>3 DEF Call
<1>6. \A how : End(w, how) =>
        /\ DOMAIN logged' = Tasks /\ DOMAIN outcome' = Tasks
        /\ \A t \in Tasks : t # Held(w) => logged'[t] = logged[t] /\ outcome'[t] = outcome[t]
  BY <1>2, <1>3 DEF End
<1>7. Again(w) => logged' = logged /\ outcome' = outcome
  BY DEF Again
<1>8. applied[Held(w)] + 0 = applied[Held(w)]
  BY <1>2, <1>3
<1>9. CASE NoConnection(w)
  BY <1>9, <1>3, <1>6, <1>7 DEF NoConnection
<1>10. CASE SelectOk(w)
  BY <1>10, <1>3, <1>5, <1>6 DEF SelectOk
<1>11. CASE SelectLost(w)
  BY <1>11, <1>3, <1>5, <1>6, <1>7 DEF SelectLost
<1>12. CASE SelectError(w)
  BY <1>12, <1>3, <1>5, <1>6 DEF SelectError
<1>13. CASE DmlOk(w)
  BY <1>13, <1>4, <1>5, <1>6 DEF DmlOk
<1>14. CASE DmlLost(w)
  BY <1>14, <1>3, <1>4, <1>5, <1>6, <1>7, <1>8 DEF DmlLost
<1>15. CASE DmlError(w)
  BY <1>15, <1>3, <1>5, <1>6 DEF DmlError
<1> QED BY <1>9, <1>10, <1>11, <1>12, <1>13, <1>14, <1>15 DEF Run

-----------------------------------------------------------------------------
\* Retries
\* A hand that did not change carries what it carried, when the counters of its
\* task did not change either.
LEMMA SameWithin ==
  ASSUME NEW c \in CTasks, WithinRetries(c),
         applied'[c.task] = applied[c.task], calls'[c.task] = calls[c.task]
  PROVE  WithinRetries(c)'
BY DEF WithinRetries, MaxRetries

\* A new task is within its retries.
LEMMA NewWithin ==
  ASSUME NEW t \in Tasks, applied'[t] = 0, calls'[t] = 0
  PROVE  WithinRetries(CTask(t, 0))'
BY DEF WithinRetries, MaxRetries, CTask

\* Steps that neither try nor tell.
LEMMA BudgetQuiet ==
  ASSUME IInv, Budget, IInv', UNCHANGED <<applied, calls>>, todo' \subseteq todo,
         \A th \in Threads : \/ hand'[th].task = NoTask
                             \/ hand'[th] = hand[th]
                             \/ \E i \in 1..Len(queue) : hand'[th] = queue[i]
                             \/ \E t \in todo : hand'[th] = CTask(t, 0),
         \A i \in 1..Len(queue') :
                             \/ \E j \in 1..Len(queue) : queue'[i] = queue[j]
                             \/ \E th \in Threads : hand[th].task # NoTask /\ queue'[i] = hand[th]
  PROVE  Budget'
<1>1. \A c : WithinRetries(c)' <=> WithinRetries(c)
  BY DEF WithinRetries, MaxRetries
<1>2. \A t \in todo : WithinRetries(CTask(t, 0))'
  BY NewWithin DEF Budget, IInv, TypeOK
<1>3. ASSUME NEW th \in Threads, hand'[th].task # NoTask PROVE WithinRetries(hand[th])'
  BY <1>1, <1>2, <1>3 DEF Budget, WithinRetries
<1>4. ASSUME NEW i \in 1..Len(queue') PROVE WithinRetries(queue[i])'
  BY <1>1, <1>4 DEF Budget, WithinRetries
<1>5. /\ \A t \in todo' : applied'[t] = 0 /\ calls'[t] = 0
      /\ \A t \in Selects : applied'[t] = 0
      /\ \A t \in Tasks \ Selects : applied'[t] <= DmlRetries + 1
  BY DEF Budget
<1> QED BY <1>3, <1>4, <1>5 DEF Budget

\* Run: the task in hand goes on with one retry more, or leaves the hand.
LEMMA BudgetRun ==
  ASSUME IInv, Budget, NEW w \in Workers, Run(w)
  PROVE  Budget'
<1>1. pc[w] = "run" /\ queue' = queue
  BY RunPosition
<1>2. /\ w \in Threads /\ Held(w) \in Tasks /\ hand[w].task = Held(w)
      /\ hand[w].retry \in Nat /\ Held(w) # NoTask
      /\ Held(w) \notin todo /\ ~Queued(Held(w))
      /\ \A o \in Threads : o # w => hand[o].task # Held(w)
  BY <1>1, RunHolds
<1>3. /\ \A t \in Tasks : t # Held(w) => applied'[t] = applied[t] /\ calls'[t] = calls[t]
      /\ applied'[Held(w)] \in {applied[Held(w)], applied[Held(w)] + 1}
      /\ Held(w) \in Selects => applied'[Held(w)] = applied[Held(w)]
  BY RunCounts
<1>4. /\ WithinRetries(hand[w])
      /\ applied[Held(w)] \in Nat /\ calls[Held(w)] \in Nat
      /\ MaxRetries(Held(w)) \in Nat
      /\ Held(w) \notin Selects => MaxRetries(Held(w)) = DmlRetries
  BY <1>2 DEF Budget, IInv, TypeOK, MaxRetries
<1>5. todo' \subseteq todo
  BY DEF Run, NoConnection, SelectOk, SelectLost, SelectError, DmlOk, DmlLost, DmlError,
         Again, Release, Answered
<1>6. /\ \A t \in todo' : applied'[t] = 0 /\ calls'[t] = 0
      /\ \A t \in Selects : applied'[t] = 0
      /\ \A t \in Tasks \ Selects : applied'[t] <= DmlRetries + 1
  <2>1. \A t \in todo' : applied'[t] = 0 /\ calls'[t] = 0
    BY <1>2, <1>3, <1>5 DEF Budget, IInv, TypeOK
  <2>2. \A t \in Selects : applied'[t] = 0
    BY <1>3 DEF Budget
  <2>3. Held(w) \notin Selects => applied'[Held(w)] <= DmlRetries + 1
    BY <1>2, <1>3, <1>4 DEF WithinRetries
  <2>4. \A t \in Tasks \ Selects : applied'[t] <= DmlRetries + 1
    BY <1>3, <2>3 DEF Budget
  <2> QED BY <2>1, <2>2, <2>4
<1>7. ASSUME NEW i \in 1..Len(queue') PROVE WithinRetries(queue[i])'
  <2>1. i \in 1..Len(queue) /\ queue'[i] = queue[i] /\ queue[i] \in CTasks
    BY <1>1, <1>7 DEF IInv, TypeOK
  <2>2. queue[i].task \in Tasks /\ queue[i].task # Held(w)
    BY <1>2, <2>1 DEF Queued, IInv, HandsMatch, CTasks
  <2>3. WithinRetries(queue[i])
    BY <2>1 DEF Budget
  <2> QED BY <1>3, <2>1, <2>2, <2>3 DEF WithinRetries, MaxRetries
<1>8. ASSUME NEW th \in Threads, th # w, hand'[th].task # NoTask PROVE WithinRetries(hand[th])'
  <2>1. hand'[th] = hand[th]
    BY <1>2, <1>8 DEF Run, NoConnection, SelectOk, SelectLost, SelectError, DmlOk, DmlLost, DmlError,
                      Again, Release, Answered, IInv, TypeOK
  <2>2. hand[th].task \in Tasks /\ hand[th].task # Held(w)
    BY <1>2, <1>8, <2>1 DEF IInv, TypeOK, CTasks
  <2>3. WithinRetries(hand[th])
    BY <1>8, <2>1 DEF Budget
  <2> QED BY <1>3, <2>1, <2>2, <2>3 DEF WithinRetries, MaxRetries
<1>9. ASSUME hand'[w].task # NoTask PROVE WithinRetries(hand[w])'
  <2>1. CASE Again(w) /\ CanRetry(w)
    <3>1. hand'[w] = CTask(Held(w), hand[w].retry + 1)
      BY <1>2, <2>1 DEF Again, Held, IInv, TypeOK
    <3>2. hand[w].retry + 1 <= MaxRetries(Held(w))
      BY <1>2, <1>4, <2>1 DEF CanRetry
    <3>3. Held(w) \in Throwing => calls'[Held(w)] \in {calls[Held(w)], calls[Held(w)] + 1}
      <4>1. calls[Held(w)] + 0 = calls[Held(w)]
        BY <1>4
      <4>2. \A n : Call(Held(w), n) => calls'[Held(w)] = calls[Held(w)] + n
        BY <1>2 DEF Call, IInv, TypeOK
      <4>3. End(w, "ok") \/ End(w, "failed") \/ End(w, "lost") => outcome'[Held(w)] # "open"
        BY <1>2 DEF End, IInv, TypeOK
      <4>4. outcome'[Held(w)] = "open"
        BY <1>1, <2>1, RunHolds DEF Again
      <4> QED BY <4>1, <4>2, <4>3, <4>4, TaskAssumption
              DEF Run, NoConnection, SelectOk, SelectLost, SelectError, DmlOk, DmlLost, DmlError
    <3>4. hand'[w].task = Held(w) /\ hand'[w].retry = hand[w].retry + 1
      BY <3>1 DEF CTask
    <3>5. /\ hand'[w].retry <= MaxRetries(hand'[w].task)
          /\ applied'[Held(w)] <= hand'[w].retry
          /\ Held(w) \in Throwing => calls'[Held(w)] <= hand'[w].retry
      BY <1>2, <1>3, <1>4, <3>2, <3>3, <3>4 DEF WithinRetries
    <3> QED BY <3>4, <3>5 DEF WithinRetries, MaxRetries
  <2>2. CASE Release(w)
    BY <1>2, <1>9, <2>2 DEF Release, Nothing, CTask, IInv, TypeOK
  <2>3. ASSUME NEW f \in todo, hand' = [hand EXCEPT ![w] = CTask(f, 0)]
        PROVE  WithinRetries(hand[w])'
    <3>1. hand'[w] = CTask(f, 0) /\ f \in Tasks /\ f # Held(w)
      BY <1>2, <2>3 DEF IInv, TypeOK
    <3>2. applied'[f] = 0 /\ calls'[f] = 0
      BY <1>3, <3>1 DEF Budget
    <3>3. WithinRetries(CTask(f, 0))'
      BY <3>1, <3>2, NewWithin
    <3> QED BY <3>1, <3>3 DEF WithinRetries
  <2>4. \/ Again(w) /\ CanRetry(w)
        \/ Release(w)
        \/ \E f \in todo : hand' = [hand EXCEPT ![w] = CTask(f, 0)]
    BY DEF Run, NoConnection, SelectOk, SelectLost, SelectError, DmlOk, DmlLost, DmlError, Answered
  <2> QED BY <2>1, <2>2, <2>3, <2>4
<1>10. \A th \in Threads : hand'[th].task # NoTask => WithinRetries(hand[th])'
  BY <1>8, <1>9
<1> QED BY <1>6, <1>7, <1>10 DEF Budget

LEMMA BudgetStep == IInv /\ Budget /\ [Next]_vars => Budget'
<1> SUFFICES ASSUME IInv, Budget, [Next]_vars PROVE Budget'
  OBVIOUS
<1>i. IInv'
  BY PlacesStep
<1>1. ASSUME NEW p \in Producers, NEW t \in Tasks, Submit(p, t) PROVE Budget'
  BY <1>1, <1>i, BudgetQuiet DEF Submit, ghosts, IInv, TypeOK, Threads
<1>2. ASSUME NEW th \in Threads, EnqueueRefused(th) PROVE Budget'
  <2>1. hand'[th].task = NoTask /\ \A o \in Threads : o # th => hand'[o] = hand[o]
    BY <1>2 DEF EnqueueRefused, Nothing, CTask, IInv, TypeOK
  <2> QED BY <1>2, <1>i, <2>1, BudgetQuiet DEF EnqueueRefused
<1>3. ASSUME NEW th \in Threads, EnqueuePush(th) PROVE Budget'
  <2>1. hand'[th].task = NoTask /\ \A o \in Threads : o # th => hand'[o] = hand[o]
    BY <1>3 DEF EnqueuePush, Nothing, CTask, IInv, TypeOK
  <2>2. /\ Len(queue) \in Nat /\ Len(queue') = Len(queue) + 1
        /\ \A i \in 1..Len(queue) : queue'[i] = queue[i]
        /\ queue'[Len(queue) + 1] = hand[th]
    BY <1>3, PushedQueue DEF EnqueuePush, IInv, TypeOK
  <2>3. hand[th].task # NoTask
    BY <1>3 DEF EnqueuePush, IInv, HandsMatch, Carrying
  <2>4. \A i \in 1..Len(queue') : i \in 1..Len(queue) \/ i = Len(queue) + 1
    BY <2>2
  <2> QED BY <1>3, <1>i, <2>1, <2>2, <2>3, <2>4, BudgetQuiet DEF EnqueuePush, ghosts
<1>4. ASSUME NEW w \in Workers, FetchPop(w) PROVE Budget'
  <2>1. /\ Len(queue) \in Nat /\ Len(queue) >= 1 /\ Head(queue) = queue[1]
        /\ Len(queue') = Len(queue) - 1
        /\ \A i \in 1..Len(queue) - 1 : queue'[i] = queue[i + 1]
    BY <1>4, PoppedQueue DEF FetchPop, IInv, TypeOK
  <2>2. \A i \in 1..Len(queue') : i + 1 \in 1..Len(queue) /\ queue'[i] = queue[i + 1]
    BY <2>1
  <2>3. 1 \in 1..Len(queue)
    BY <2>1
  <2>4. w \in Threads /\ hand'[w] = queue[1] /\ \A o \in Threads : o # w => hand'[o] = hand[o]
    BY <1>4, <2>1 DEF FetchPop, IInv, TypeOK, Threads
  <2>5. /\ \A th \in Threads : hand'[th] = hand[th] \/ \E i \in 1..Len(queue) : hand'[th] = queue[i]
        /\ \A i \in 1..Len(queue') : \E j \in 1..Len(queue) : queue'[i] = queue[j]
    BY <2>2, <2>3, <2>4
  <2> QED BY <1>4, <1>i, <2>5, BudgetQuiet DEF FetchPop, ghosts
<1>5. ASSUME NEW w \in Workers, Run(w) PROVE Budget'
  BY <1>5, BudgetRun
<1>6. CASE UNCHANGED <<hand, queue, todo, applied, calls>>
  BY <1>6, <1>i, BudgetQuiet
<1>7. \/ \E p \in Producers, t \in Tasks : Submit(p, t)
      \/ \E th \in Threads : EnqueueRefused(th) \/ EnqueuePush(th)
      \/ \E w \in Workers : FetchPop(w) \/ Run(w)
      \/ UNCHANGED <<hand, queue, todo, applied, calls>>
  BY DEF Next, vars, ghosts, TryEnqueue, EnqueueFull, Sleep, Timeout, NotifyOne,
         Fetch, FetchExit, FetchEmpty, NotifyAll, StopStore, Destructor, StopNotify, Joined
<1> QED BY <1>1, <1>2, <1>3, <1>4, <1>5, <1>6, <1>7

LEMMA InitBudget == Init => Budget /\ LogMatches
<1> SUFFICES ASSUME Init PROVE Budget /\ LogMatches
  OBVIOUS
<1>1. queue = <<>> /\ Len(queue) = 0 /\ \A th \in Threads : hand[th].task = NoTask
  BY DEF Init, Nothing, CTask
<1>2. Budget
  BY <1>1 DEF Init, Budget
<1>3. LogMatches
  BY DEF Init, LogMatches
<1> QED BY <1>2, <1>3

-----------------------------------------------------------------------------
\* The log
LEMMA LogRun ==
  ASSUME IInv, LogMatches, NEW w \in Workers, Run(w)
  PROVE  LogMatches'
<1>1. pc[w] = "run" /\ dtor' = dtor
  BY RunPosition
<1>2. Held(w) \in Tasks /\ outcome[Held(w)] = "open" /\ logged[Held(w)] = 0
  BY <1>1, RunHolds DEF LogMatches
<1>3. \A t \in Tasks : t # Held(w) => /\ applied'[t] = applied[t]
                                      /\ logged'[t] = logged[t]
                                      /\ outcome'[t] = outcome[t]
  BY RunCounts
<1>4. /\ logged'[Held(w)] = IF outcome'[Held(w)] \in {"failed", "lost"} THEN 1 ELSE 0
      /\ Held(w) \notin Selects /\ outcome'[Held(w)] = "ok" => applied'[Held(w)] > 0
      /\ outcome'[Held(w)] \notin {"refused", "abandoned"}
  <2>1. CASE Again(w)
    BY <1>2, <2>1 DEF Again
  <2>2. ASSUME NEW how \in {"failed", "lost"}, End(w, how)
        PROVE  logged'[Held(w)] = 1 /\ outcome'[Held(w)] = how
    BY <1>2, <2>2 DEF End, IInv, TypeOK
  <2>3. ASSUME End(w, "ok")
        PROVE  logged'[Held(w)] = 0 /\ outcome'[Held(w)] = "ok"
    BY <1>2, <2>3 DEF End, IInv, TypeOK
  <2>4. CASE End(w, "ok") /\ Held(w) \in Selects
    BY <2>3, <2>4
  <2>5. CASE End(w, "ok") /\ Apply(Held(w), 1)
    <3>1. applied'[Held(w)] = applied[Held(w)] + 1 /\ applied[Held(w)] \in Nat
      BY <1>2, <2>5 DEF Apply, IInv, TypeOK
    <3> QED BY <2>3, <2>5, <3>1
  <2>6. \/ Again(w)
        \/ End(w, "failed") \/ End(w, "lost")
        \/ End(w, "ok") /\ Held(w) \in Selects
        \/ End(w, "ok") /\ Apply(Held(w), 1)
    BY DEF Run, NoConnection, SelectOk, SelectLost, SelectError, DmlOk, DmlLost, DmlError
  <2> QED BY <2>1, <2>2, <2>4, <2>5, <2>6
<1> QED BY <1>1, <1>2, <1>3, <1>4 DEF LogMatches, Stop

LEMMA LogStep == IInv /\ LogMatches /\ [Next]_vars => LogMatches'
<1> SUFFICES ASSUME IInv, LogMatches, [Next]_vars PROVE LogMatches'
  OBVIOUS
<1>1. ASSUME NEW th \in Threads, EnqueueRefused(th) PROVE LogMatches'
  <2>1. hand[th].task \in Tasks /\ outcome[hand[th].task] = "open"
    BY <1>1, HeldIsOpen DEF EnqueueRefused, Carrying
  <2>2. /\ outcome'[hand[th].task] \in {"refused", "abandoned"}
        /\ \A t \in Tasks : t # hand[th].task => outcome'[t] = outcome[t]
    BY <1>1, <2>1 DEF EnqueueRefused, IInv, TypeOK
  <2>3. applied' = applied /\ logged' = logged /\ dtor' = dtor /\ Stop
    BY <1>1 DEF EnqueueRefused
  <2>4. \A t \in Tasks : logged'[t] = IF outcome'[t] \in {"failed", "lost"} THEN 1 ELSE 0
    BY <2>1, <2>2, <2>3 DEF LogMatches
  <2>5. \A t \in Tasks \ Selects : outcome'[t] = "ok" => applied'[t] > 0
    BY <2>2, <2>3 DEF LogMatches
  <2>6. Stop'
    BY <2>3 DEF Stop
  <2> QED BY <2>4, <2>5, <2>6 DEF LogMatches
<1>2. ASSUME NEW w \in Workers, Run(w) PROVE LogMatches'
  BY <1>2, LogRun
<1>3. CASE UNCHANGED <<outcome, applied, logged>> /\ (Stop => Stop')
  BY <1>3 DEF LogMatches
<1>4. \/ \E th \in Threads : EnqueueRefused(th)
      \/ \E w \in Workers : Run(w)
      \/ UNCHANGED <<outcome, applied, logged>> /\ (Stop => Stop')
  BY DEF Next, vars, ghosts, Submit, TryEnqueue, EnqueueFull, EnqueuePush, Sleep, Timeout, NotifyOne,
         Fetch, FetchExit, FetchEmpty, FetchPop, NotifyAll, StopStore, Destructor, StopNotify, Joined, Stop
<1> QED BY <1>1, <1>2, <1>3, <1>4

LEMMA AccountsInvariant == Spec => [](IInv /\ Budget /\ LogMatches)
BY InitPlaces, InitBudget, PlacesStep, BudgetStep, LogStep, PTL DEF Spec

\* EnqueueRetry, CreateAsyncDmlTask: a change that did not reach the database is
\* in the lost-query log unless the pool was stopping.
THEOREM LossesAreLogged == Spec => []LossIsLogged
<1>1. IInv /\ Budget /\ LogMatches => LossIsLogged
  BY DEF LogMatches, LossIsLogged, IInv, TypeOK
<1> QED BY <1>1, AccountsInvariant, PTL

\* EnqueueRetry, CreateAsyncDmlTask: worker and task count the same retries, so
\* no change is applied more often than its retries allow, and none is logged
\* twice.
THEOREM TriesAreBounded == Spec => []BoundedTries
<1>1. ASSUME IInv, Budget, LogMatches, NEW t \in Tasks
      PROVE  applied[t] <= DmlRetries + 1 /\ logged[t] <= 1
  <2>1. logged[t] <= 1
    BY <1>1 DEF LogMatches
  <2>2. t \in Selects => applied[t] <= DmlRetries + 1
    BY <1>1 DEF Budget
  <2>3. t \notin Selects => applied[t] <= DmlRetries + 1
    BY <1>1 DEF Budget
  <2> QED BY <2>1, <2>2, <2>3
<1>2. IInv /\ Budget /\ LogMatches => BoundedTries
  BY <1>1 DEF BoundedTries
<1> QED BY <1>2, AccountsInvariant, PTL

-----------------------------------------------------------------------------
\* The destructor
\* A worker exits when the pool stops and nothing is queued; from then on nothing
\* can be queued any more.
Drained ==
  /\ \A w \in Workers : pc[w] = "exit" => Stop /\ queue = <<>>
  /\ dtor = "joined" => \A w \in Workers : pc[w] = "exit"

LEMMA DrainedStep == IInv /\ Drained /\ [Next]_vars => Drained'
<1> SUFFICES ASSUME IInv, Drained, [Next]_vars PROVE Drained'
  OBVIOUS
<1>p. /\ DOMAIN pc = Threads /\ Workers \subseteq Threads /\ Producers \subseteq Threads
      /\ \A th \in Producers : th \notin Workers
  BY DEF IInv, TypeOK, Threads
<1>2. ASSUME NEW p \in Producers, NEW t \in Tasks, Submit(p, t) PROVE Drained'
  BY <1>2, <1>p DEF Submit, Drained, Stop
<1>3. ASSUME NEW th \in Threads, TryEnqueue(th) PROVE Drained'
  <2>1. CASE EnqueueRefused(th) \/ EnqueueFull(th)
    BY <1>p, <2>1 DEF EnqueueRefused, EnqueueFull, Home, Drained, Stop
  <2>2. CASE EnqueuePush(th)
    BY <1>p, <2>2 DEF EnqueuePush, Drained, Stop
  <2> QED BY <1>3, <2>1, <2>2 DEF TryEnqueue
<1>4. ASSUME NEW th \in Threads, Sleep(th) \/ Timeout(th) \/ NotifyOne(th) PROVE Drained'
  BY <1>4, <1>p DEF Sleep, Timeout, NotifyOne, Sleepers, Awake, Home, Drained, Stop
<1>5. ASSUME NEW w \in Workers, Fetch(w) PROVE Drained'
  <2>1. CASE FetchExit(w) \/ FetchEmpty(w)
    BY <1>p, <2>1 DEF FetchExit, FetchEmpty, Drained, Stop
  <2>2. CASE FetchPop(w)
    BY <1>p, <2>2 DEF FetchPop, Drained, Stop
  <2> QED BY <1>5, <2>1, <2>2 DEF Fetch
<1>6. ASSUME NEW w \in Workers, NotifyAll(w) PROVE Drained'
  BY <1>6, <1>p DEF NotifyAll, Sleepers, Awake, Drained, Stop
<1>7. ASSUME NEW w \in Workers, Run(w) PROVE Drained'
  <2>1. pc[w] = "run" /\ queue' = queue /\ dtor' = dtor
    BY <1>7, RunPosition
  <2>2. pc' = [pc EXCEPT ![w] = "enq"] \/ pc' = [pc EXCEPT ![w] = "fetch"]
    BY <1>7 DEF Run, NoConnection, SelectOk, SelectLost, SelectError, DmlOk, DmlLost, DmlError,
                Again, Release, Answered
  <2> QED BY <1>p, <2>1, <2>2 DEF Drained, Stop
<1>8. CASE StopStore \/ StopNotify \/ Joined
  BY <1>8, <1>p DEF StopStore, StopNotify, Joined, Sleepers, Awake, Drained, Stop
<1>9. CASE UNCHANGED vars
  BY <1>9 DEF vars, Drained, Stop
<1> QED BY <1>2, <1>3, <1>4, <1>5, <1>6, <1>7, <1>8, <1>9 DEF Next, Destructor

\* ~CThreadPool: when it returns nothing is queued and no worker holds a task.
THEOREM DestructorDrains == Spec => []JoinedIsDrained
<1>1. Init => Drained
  BY DEF Init, Drained, Home, Threads
<1>2. IInv /\ Drained => JoinedIsDrained
  BY DEF IInv, Drained, JoinedIsDrained, HandsMatch, Carrying, Threads
<1> QED BY <1>1, <1>2, PlacesInvariant, DrainedStep, PTL DEF Spec

-----------------------------------------------------------------------------
\* Refinement
\* How phase changes when a task ends, is handed over, or both.
LEMMA PhaseStays ==
  ASSUME UNCHANGED <<outcome, todo>>
  PROVE  Phase' = Phase
BY DEF Phase

LEMMA PhaseEnds ==
  ASSUME IInv, NEW t \in Tasks, t \notin todo, NEW how \in Outcomes \ {"open"},
         outcome' = [outcome EXCEPT ![t] = how], todo' = todo
  PROVE  Phase' = [Phase EXCEPT ![t] = how]
<1>1. \A u \in Tasks : outcome'[u] = IF u = t THEN how ELSE outcome[u]
  BY DEF IInv, TypeOK
<1> QED BY <1>1 DEF Phase

LEMMA PhaseBegins ==
  ASSUME IInv, NEW t \in todo, outcome' = outcome, todo' = todo \ {t}
  PROVE  Phase[t] = "unsent" /\ Phase' = [Phase EXCEPT ![t] = "pending"]
<1>1. t \in Tasks /\ outcome[t] = "open"
  BY DEF IInv, TypeOK, OnePlace
<1> QED BY <1>1 DEF Phase

LEMMA PhasePasses ==
  ASSUME IInv, NEW t \in Tasks, t \notin todo, NEW f \in todo, NEW how \in Outcomes \ {"open"},
         outcome' = [outcome EXCEPT ![t] = how], todo' = todo \ {f}
  PROVE  /\ f \in Tasks \ {t} /\ Phase[f] = "unsent"
         /\ Phase' = [Phase EXCEPT ![t] = how, ![f] = "pending"]
<1>1. f \in Tasks /\ outcome[f] = "open" /\ f # t
  BY DEF IInv, TypeOK, OnePlace
<1>2. \A u \in Tasks : outcome'[u] = IF u = t THEN how ELSE outcome[u]
  BY DEF IInv, TypeOK
<1> QED BY <1>1, <1>2 DEF Phase

\* What a worker does with the task it holds is a step of the task's life.
LEMMA RunIsLife ==
  ASSUME IInv, Budget, NEW w \in Workers, Run(w)
  PROVE  Life!Next \/ UNCHANGED <<Phase, applied, calls>>
<1> DEFINE t == Held(w)
<1>1. pc[w] = "run"
  BY RunPosition
<1>2. /\ w \in Threads /\ t \in Tasks /\ t \notin todo /\ outcome[t] = "open"
      /\ hand[w].task = t /\ hand[w].task # NoTask /\ hand[w].retry \in Nat
  BY <1>1, RunHolds
<1>3. Phase[t] = "pending"
  BY <1>2 DEF Phase
<1>4. /\ applied[t] \in Nat /\ calls[t] \in Nat /\ MaxRetries(t) \in Nat
      /\ applied[t] <= hand[w].retry /\ (t \in Throwing => calls[t] <= hand[w].retry)
  BY <1>2 DEF Budget, WithinRetries, IInv, TypeOK, MaxRetries
<1>5. Again(w) => Phase' = Phase
  BY PhaseStays DEF Again
<1>6. \A how \in {"ok", "failed", "lost"} :
        End(w, how) /\ Release(w) => Phase' = [Phase EXCEPT ![t] = how]
  BY <1>2, PhaseEnds DEF End, Release, Outcomes
<1>e. ASSUME NEW how \in {"ok", "failed"}, End(w, how), Answered(w)
      PROVE  Life!EndAs(t, how)
  <2>1. outcome' = [outcome EXCEPT ![t] = how] /\ how \in Outcomes \ {"open"}
    BY <1>e DEF End, Outcomes
  <2>2. CASE Release(w)
    BY <1>6, <1>e, <2>2 DEF Life!EndAs
  <2>3. ASSUME NEW f \in todo, todo' = todo \ {f} PROVE Life!EndAs(t, how)
    BY <1>2, <2>1, <2>3, PhasePasses DEF Life!EndAs
  <2> QED BY <1>e, <2>2, <2>3 DEF Answered
<1>7. CanRetry(w) => /\ applied[t] < MaxRetries(t)
                     /\ t \in Throwing => calls[t] < MaxRetries(t)
  BY <1>2, <1>4 DEF CanRetry
<1>8. /\ Apply(t, 0) => applied' = applied
      /\ Call(t, 0) => calls' = calls
  BY <1>4 DEF Apply, Call, IInv, TypeOK
<1>9. CASE NoConnection(w)
  <2>1. CASE Again(w)
    BY <1>5, <1>9, <2>1 DEF NoConnection
  <2>2. CASE End(w, "lost") /\ Release(w)
    <3>1. Life!GiveUp(t)
      BY <1>3, <1>6, <1>9, <2>2 DEF NoConnection, Life!GiveUp
    <3> QED BY <1>2, <3>1 DEF Life!Next
  <2> QED BY <1>9, <2>1, <2>2 DEF NoConnection
<1>10. CASE SelectOk(w)
  <2>1. /\ t \in Selects /\ applied' = applied /\ Call(t, 1)
        /\ applied' = [applied EXCEPT ![t] = IF t \in Selects THEN @ ELSE @ + 1]
    BY <1>10, <1>2 DEF SelectOk, IInv, TypeOK
  <2>2. Life!Succeed(t)
    BY <1>3, <1>e, <1>10, <2>1 DEF SelectOk, Call, Life!Succeed
  <2> QED BY <1>2, <2>2 DEF Life!Next
<1>11. CASE SelectLost(w)
  <2>1. PICK n \in IF t \in Throwing THEN {0, 1} ELSE {0} :
          \/ CanRetry(w) /\ Again(w) /\ Call(t, n)
          \/ End(w, "failed") /\ Answered(w) /\ Call(t, n + 1)
    BY <1>11 DEF SelectLost
  <2>2. t \in Selects /\ applied' = applied /\ applied' = [applied EXCEPT ![t] = @ + 0]
    BY <1>2, <1>4, <1>11 DEF SelectLost, IInv, TypeOK
  <2>3. CASE CanRetry(w) /\ Again(w) /\ Call(t, n) /\ n = 0
    BY <1>5, <1>8, <2>2, <2>3
  <2>4. CASE CanRetry(w) /\ Again(w) /\ Call(t, n) /\ n = 1
    <3>1. t \in Throwing
      BY <2>1, <2>4
    <3>2. Life!Try(t)
      BY <1>3, <1>5, <1>7, <2>2, <2>4, <3>1 DEF Call, Life!Try
    <3> QED BY <1>2, <3>2 DEF Life!Next
  <2>5. CASE End(w, "failed") /\ Answered(w) /\ Call(t, n + 1)
    <3>1. n + 1 \in IF t \in Throwing THEN {1, 2} ELSE {1}
      BY <2>1
    <3>2. Life!Fail(t)
      BY <1>3, <1>e, <2>2, <2>5, <3>1 DEF Call, Life!Fail
    <3> QED BY <1>2, <3>2 DEF Life!Next
  <2>6. n = 0 \/ n = 1
    BY <2>1
  <2> QED BY <2>1, <2>3, <2>4, <2>5, <2>6
<1>12. CASE SelectError(w)
  <2>1. t \in Selects /\ applied' = [applied EXCEPT ![t] = @ + 0]
    BY <1>2, <1>4, <1>12 DEF SelectError, IInv, TypeOK
  <2>2. Life!Fail(t)
    BY <1>3, <1>e, <1>12, <2>1 DEF SelectError, Call, Life!Fail
  <2> QED BY <1>2, <2>2 DEF Life!Next
<1>13. CASE DmlOk(w)
  <2>1. t \notin Selects /\ applied' = [applied EXCEPT ![t] = IF t \in Selects THEN @ ELSE @ + 1]
    BY <1>2, <1>13 DEF DmlOk, Apply
  <2>2. Life!Succeed(t)
    BY <1>3, <1>e, <1>13, <2>1 DEF DmlOk, Call, Life!Succeed
  <2> QED BY <1>2, <2>2 DEF Life!Next
<1>14. CASE DmlLost(w)
  <2>1. PICK n \in {0, 1} : Apply(t, n)
    BY <1>14 DEF DmlLost
  <2>2. t \notin Selects /\ t \notin Throwing
    BY <1>14, TaskAssumption DEF DmlLost
  <2>3. CASE CanRetry(w) /\ Again(w) /\ calls' = calls /\ n = 0
    BY <1>5, <1>8, <2>1, <2>3
  <2>4. CASE CanRetry(w) /\ Again(w) /\ calls' = calls /\ n = 1
    <3>1. Life!Try(t)
      BY <1>3, <1>5, <1>7, <2>1, <2>2, <2>4 DEF Apply, Life!Try
    <3> QED BY <1>2, <3>1 DEF Life!Next
  <2>5. CASE End(w, "failed") /\ Answered(w) /\ Call(t, 1)
    <3>1. Life!Fail(t)
      BY <1>3, <1>e, <2>1, <2>2, <2>5 DEF Call, Apply, Life!Fail
    <3> QED BY <1>2, <3>1 DEF Life!Next
  <2> QED BY <1>14, <2>1, <2>3, <2>4, <2>5 DEF DmlLost
<1>15. CASE DmlError(w)
  <2>1. t \notin Selects /\ t \notin Throwing /\ applied' = [applied EXCEPT ![t] = @ + 0]
    BY <1>2, <1>4, <1>15, TaskAssumption DEF DmlError, IInv, TypeOK
  <2>2. Life!Fail(t)
    BY <1>3, <1>e, <1>15, <2>1 DEF DmlError, Call, Life!Fail
  <2> QED BY <1>2, <2>2 DEF Life!Next
<1> QED BY <1>9, <1>10, <1>11, <1>12, <1>13, <1>14, <1>15 DEF Run

LEMMA StepIsLife ==
  IInv /\ Budget /\ [Next]_vars => Life!Next \/ UNCHANGED <<Phase, applied, calls>>
<1> SUFFICES ASSUME IInv, Budget, [Next]_vars
             PROVE  Life!Next \/ UNCHANGED <<Phase, applied, calls>>
  OBVIOUS
<1>1. ASSUME NEW p \in Producers, NEW t \in Tasks, Submit(p, t) PROVE Life!Next
  <2>1. Phase[t] = "unsent" /\ Phase' = [Phase EXCEPT ![t] = "pending"]
    BY <1>1, PhaseBegins DEF Submit, ghosts
  <2> QED BY <1>1, <2>1 DEF Submit, ghosts, Life!Next, Life!Submit
<1>2. ASSUME NEW th \in Threads, EnqueueRefused(th) PROVE Life!Next
  <2> DEFINE t == hand[th].task
  <2>1. t \in Tasks /\ outcome[t] = "open" /\ pc[th] \in Carrying
    BY <1>2, HeldIsOpen DEF EnqueueRefused, Carrying
  <2>2. t \notin todo
    BY <2>1 DEF IInv, OnePlace, Carried
  <2>3. PICK how \in {"refused", "abandoned"} : outcome' = [outcome EXCEPT ![t] = how]
    BY <1>2 DEF EnqueueRefused
  <2>4. todo' = todo /\ applied' = applied /\ calls' = calls
    BY <1>2 DEF EnqueueRefused
  <2>5. Phase' = [Phase EXCEPT ![t] = how]
    BY <2>1, <2>2, <2>3, <2>4, PhaseEnds DEF Outcomes
  <2>6. Phase[t] = "pending"
    BY <2>1, <2>2 DEF Phase
  <2> QED BY <2>1, <2>4, <2>5, <2>6 DEF Life!Next, Life!GiveUp
<1>3. ASSUME NEW w \in Workers, Run(w) PROVE Life!Next \/ UNCHANGED <<Phase, applied, calls>>
  BY <1>3, RunIsLife
<1>4. CASE UNCHANGED <<outcome, todo, applied, calls>>
  BY <1>4, PhaseStays
<1>5. \/ \E p \in Producers, t \in Tasks : Submit(p, t)
      \/ \E th \in Threads : EnqueueRefused(th)
      \/ \E w \in Workers : Run(w)
      \/ UNCHANGED <<outcome, todo, applied, calls>>
  BY DEF Next, vars, ghosts, TryEnqueue, EnqueueFull, EnqueuePush, Sleep, Timeout, NotifyOne,
         Fetch, FetchExit, FetchEmpty, FetchPop, NotifyAll, StopStore, Destructor, StopNotify, Joined
<1> QED BY <1>1, <1>2, <1>3, <1>4, <1>5

\* CThreadPool keeps the promise of AtExecute: one hand-over, bounded tries, one
\* final outcome for every statement.
THEOREM PoolImplementsTaskLife == Spec => ImplementsTaskLife
<1>1. Init => Life!Init
  BY DEF Init, Life!Init, Phase
<1>2. IInv /\ Budget /\ LogMatches /\ [Next]_vars => [Life!Next]_<<Phase, applied, calls>>
  BY StepIsLife
<1> QED BY <1>1, <1>2, AccountsInvariant, PTL DEF Spec, ImplementsTaskLife, Life!Spec, Life!lifeVars

=============================================================================
