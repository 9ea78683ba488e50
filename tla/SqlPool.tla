------------------------------ MODULE SqlPool ------------------------------
(***************************************************************************)
(* CThreadPool of src/src/engine/server/sql_connect_pool.cpp: the queue of  *)
(* asynchronous SQL tasks, the worker threads that execute them, the        *)
(* threads that enqueue them (the game thread is MainThread) and the        *)
(* destructor that stops the pool.                                          *)
(*                                                                         *)
(* m_mxQueue is held only inside EnqueueTask and at the head of WorkerThread *)
(* and is not modelled as a variable: a critical section is one action,     *)
(* except where a thread goes to sleep. There the predicate is evaluated    *)
(* under the lock ("...Hold") before the thread is in the wait set          *)
(* ("...Wait"), and the destructor, which takes no lock, can come between.  *)
(*                                                                         *)
(* A worker's connection is not a variable: whether one is usable is the    *)
(* network's choice at every task. applied, calls, logged and outcome are   *)
(* history: they record what became of a task and guard nothing.            *)
(***************************************************************************)
EXTENDS Naturals, Sequences, FiniteSets

CONSTANTS Workers, Producers, MainThread,
          Tasks, Selects, Throwing, NoTask,
          MaxQueue,        \* sv_sql_queue_max_size, when there is a limit
          SelectRetries,   \* sv_sql_select_max_retries
          DmlRetries       \* sv_sql_dml_max_retries

ASSUME ThreadAssumption == /\ Workers # {}
                           /\ Workers \cap Producers = {}
                           /\ MainThread \in Producers
ASSUME TaskAssumption == /\ Selects \subseteq Tasks
                         /\ Throwing \subseteq Selects
                         /\ NoTask \notin Tasks
ASSUME ConfigAssumption == /\ MaxQueue \in Nat \ {0}
                           /\ SelectRetries \in Nat
                           /\ DmlRetries \in Nat

VARIABLES pc,       \* where each thread is
          hand,     \* the CTask a thread is executing or enqueueing
          queue,    \* m_qTasks (m_QueueSize is its length)
          dtor,     \* progress of ~CThreadPool; m_bStop is set once it began
          todo,     \* tasks nobody has asked for yet
          outcome,  \* "open", or how the task ended
          applied,  \* how often a DML task changed the database
          calls,    \* how often its callback was entered
          logged    \* how often LogLostQuery recorded it

ghosts == <<outcome, applied, calls, logged>>
vars == <<pc, hand, queue, dtor, todo, outcome, applied, calls, logged>>

Threads == Workers \cup Producers
MaxRetries(t) == IF t \in Selects THEN SelectRetries ELSE DmlRetries
CTask(t, n) == [task |-> t, retry |-> n]
Nothing == CTask(NoTask, 0)
Stop == dtor # "no"
Outcomes == {"open", "ok", "failed", "lost", "refused", "abandoned"}

\* Where a thread goes on when EnqueueTask returns.
Home(th) == IF th \in Workers THEN "fetch" ELSE "idle"

LockFree == \A th \in Threads : pc[th] \notin {"fetchHold", "enqHold"}
Sleepers == {th \in Threads : pc[th] \in {"fetchWait", "enqWait"}}
Awake(th) == IF pc[th] = "fetchWait" THEN "fetch" ELSE "enq"

Init == /\ pc = [th \in Threads |-> Home(th)]
        /\ hand = [th \in Threads |-> Nothing]
        /\ queue = <<>>
        /\ dtor = "no"
        /\ todo = Tasks
        /\ outcome = [t \in Tasks |-> "open"]
        /\ applied = [t \in Tasks |-> 0]
        /\ calls = [t \in Tasks |-> 0]
        /\ logged = [t \in Tasks |-> 0]

-----------------------------------------------------------------------------
\* AtExecute -> Enqueue -> EnqueueWithRetry with retry count 0, on any thread.
Submit(p, t) ==
  /\ pc[p] = "idle"
  /\ t \in todo
  /\ p = MainThread => ~Stop
  /\ todo' = todo \ {t}
  /\ hand' = [hand EXCEPT ![p] = CTask(t, 0)]
  /\ pc' = [pc EXCEPT ![p] = "enq"]
  /\ UNCHANGED <<queue, dtor, ghosts>>

\* EnqueueTask: the pool is stopping, the task is forgotten.
EnqueueRefused(th) ==
  /\ pc[th] = "enq" /\ LockFree
  /\ Stop
  /\ outcome' = [outcome EXCEPT ![hand[th].task] =
                   IF hand[th].retry = 0 THEN "refused" ELSE "abandoned"]
  /\ hand' = [hand EXCEPT ![th] = Nothing]
  /\ pc' = [pc EXCEPT ![th] = Home(th)]
  /\ UNCHANGED <<queue, dtor, todo, applied, calls, logged>>

\* EnqueueTask: the queue is full, the thread decides to wait for room.
EnqueueFull(th) ==
  /\ pc[th] = "enq" /\ LockFree
  /\ ~Stop
  /\ Len(queue) >= MaxQueue
  /\ pc' = [pc EXCEPT ![th] = "enqHold"]
  /\ UNCHANGED <<hand, queue, dtor, todo, ghosts>>

\* Variant: one task too many.
EnqueuePushOneMore(th) ==
  /\ pc[th] = "enq" /\ LockFree
  /\ ~Stop
  /\ Len(queue) <= MaxQueue
  /\ queue' = Append(queue, hand[th])
  /\ hand' = [hand EXCEPT ![th] = Nothing]
  /\ pc' = [pc EXCEPT ![th] = "notify"]
  /\ UNCHANGED <<dtor, todo, ghosts>>

\* EnqueueTask: there is room.
EnqueuePush(th) ==
  /\ pc[th] = "enq" /\ LockFree
  /\ ~Stop
  /\ Len(queue) < MaxQueue
  /\ queue' = Append(queue, hand[th])
  /\ hand' = [hand EXCEPT ![th] = Nothing]
  /\ pc' = [pc EXCEPT ![th] = "notify"]
  /\ UNCHANGED <<dtor, todo, ghosts>>

TryEnqueue(th) == EnqueueRefused(th) \/ EnqueueFull(th) \/ EnqueuePush(th)

\* wait_for: the thread enters the wait set and releases the lock.
Sleep(th) ==
  /\ pc[th] \in {"fetchHold", "enqHold"}
  /\ pc' = [pc EXCEPT ![th] = IF @ = "fetchHold" THEN "fetchWait" ELSE "enqWait"]
  /\ UNCHANGED <<hand, queue, dtor, todo, ghosts>>

\* Variant: workers wait without a timeout.
TimeoutEnqueueOnly(th) ==
  /\ pc[th] = "enqWait"
  /\ pc' = [pc EXCEPT ![th] = "enq"]
  /\ UNCHANGED <<hand, queue, dtor, todo, ghosts>>

\* The wait ends by itself: sv_sql_queue_wait_timeout_ms for a thread that
\* enqueues, 60 seconds for a worker, or a spurious wakeup.
Timeout(th) ==
  /\ th \in Sleepers
  /\ pc' = [pc EXCEPT ![th] = Awake(th)]
  /\ UNCHANGED <<hand, queue, dtor, todo, ghosts>>

\* EnqueueTask, after the lock is released: notify_one wakes some sleeper,
\* whatever it sleeps for.
NotifyOne(th) ==
  /\ pc[th] = "notify"
  /\ \/ Sleepers = {} /\ pc' = [pc EXCEPT ![th] = Home(th)]
     \/ \E s \in Sleepers : pc' = [pc EXCEPT ![th] = Home(th), ![s] = Awake(s)]
  /\ UNCHANGED <<hand, queue, dtor, todo, ghosts>>

-----------------------------------------------------------------------------
\* Variant: a stopping worker leaves the queue behind.
FetchExitEarly(w) ==
  /\ pc[w] = "fetch" /\ LockFree
  /\ Stop
  /\ pc' = [pc EXCEPT ![w] = "exit"]
  /\ UNCHANGED <<hand, queue, dtor, todo, ghosts>>

\* WorkerThread: stop requested and nothing left to do.
FetchExit(w) ==
  /\ pc[w] = "fetch" /\ LockFree
  /\ Stop /\ queue = <<>>
  /\ pc' = [pc EXCEPT ![w] = "exit"]
  /\ UNCHANGED <<hand, queue, dtor, todo, ghosts>>

\* WorkerThread: nothing to do, decide to sleep.
FetchEmpty(w) ==
  /\ pc[w] = "fetch" /\ LockFree
  /\ ~Stop /\ queue = <<>>
  /\ pc' = [pc EXCEPT ![w] = "fetchHold"]
  /\ UNCHANGED <<hand, queue, dtor, todo, ghosts>>

\* Variant: the task is read but not popped.
FetchPeek(w) ==
  /\ pc[w] = "fetch" /\ LockFree
  /\ queue # <<>>
  /\ hand' = [hand EXCEPT ![w] = Head(queue)]
  /\ pc' = [pc EXCEPT ![w] = "popped"]
  /\ UNCHANGED <<queue, dtor, todo, ghosts>>

\* WorkerThread: take the oldest task, also while stopping.
FetchPop(w) ==
  /\ pc[w] = "fetch" /\ LockFree
  /\ queue # <<>>
  /\ hand' = [hand EXCEPT ![w] = Head(queue)]
  /\ queue' = Tail(queue)
  /\ pc' = [pc EXCEPT ![w] = "popped"]
  /\ UNCHANGED <<dtor, todo, ghosts>>

Fetch(w) == FetchExit(w) \/ FetchEmpty(w) \/ FetchPop(w)

\* WorkerThread: notify_all after the pop, outside the lock.
NotifyAll(w) ==
  /\ pc[w] = "popped"
  /\ pc' = [th \in Threads |-> IF th = w THEN "run"
                               ELSE IF th \in Sleepers THEN Awake(th) ELSE pc[th]]
  /\ UNCHANGED <<hand, queue, dtor, todo, ghosts>>

-----------------------------------------------------------------------------
\* The ways a task leaves a worker.
Held(w) == hand[w].task

\* Variant: the task is not handed back to the queue.
AgainForgotten(w) ==
  /\ hand' = [hand EXCEPT ![w] = Nothing]
  /\ pc' = [pc EXCEPT ![w] = "fetch"]
  /\ UNCHANGED <<todo, outcome, logged>>

\* Variant: a retry goes through Enqueue, which starts counting at 0.
AgainFromZero(w) ==
  /\ hand' = [hand EXCEPT ![w] = CTask(@.task, 0)]
  /\ pc' = [pc EXCEPT ![w] = "enq"]
  /\ UNCHANGED <<todo, outcome, logged>>

\* EnqueueRetry and the retry branch of a DML task: once more, at the back.
Again(w) ==
  /\ hand' = [hand EXCEPT ![w] = CTask(@.task, @.retry + 1)]
  /\ pc' = [pc EXCEPT ![w] = "enq"]
  /\ UNCHANGED <<todo, outcome, logged>>

\* Variant: LogLostQuery is not called.
EndSilently(w, how) ==
  /\ outcome' = [outcome EXCEPT ![Held(w)] = how]
  /\ UNCHANGED logged

End(w, how) ==
  /\ outcome' = [outcome EXCEPT ![Held(w)] = how]
  /\ logged' = IF how = "ok" THEN logged ELSE [logged EXCEPT ![Held(w)] = @ + 1]

Release(w) ==
  /\ hand' = [hand EXCEPT ![w] = Nothing]
  /\ pc' = [pc EXCEPT ![w] = "fetch"]
  /\ UNCHANGED todo

\* The callback has run on the worker. Whatever it was told, it may hand a further
\* task to the pool, as the login and registration chains do (of a callback that
\* is entered twice, one of the two).
Answered(w) ==
  \/ Release(w)
  \/ \E f \in todo : /\ hand' = [hand EXCEPT ![w] = CTask(f, 0)]
                     /\ pc' = [pc EXCEPT ![w] = "enq"]
                     /\ todo' = todo \ {f}

Call(t, n) == calls' = [calls EXCEPT ![t] = @ + n]
Apply(t, n) == applied' = [applied EXCEPT ![t] = @ + n]
\* Variant: one retry too many.
CanRetryOnceMore(w) == hand[w].retry <= MaxRetries(Held(w))
CanRetry(w) == hand[w].retry < MaxRetries(Held(w))

\* No usable connection and none could be made: EnqueueRetry, which drops the
\* task without a callback once its retries are used up.
NoConnection(w) ==
  /\ pc[w] = "run"
  /\ \/ CanRetry(w) /\ Again(w)
     \/ ~CanRetry(w) /\ End(w, "lost") /\ Release(w)
  /\ UNCHANGED <<queue, dtor, applied, calls>>

\* A SELECT answers.
SelectOk(w) ==
  /\ pc[w] = "run" /\ Held(w) \in Selects
  /\ End(w, "ok") /\ Answered(w)
  /\ Call(Held(w), 1)
  /\ UNCHANGED <<queue, dtor, applied>>

\* The connection breaks during a SELECT: rethrown to the worker while retries
\* are left, otherwise the callback gets the empty result. n is 1 when it broke
\* while the callback was reading the rows.
SelectLost(w) ==
  /\ pc[w] = "run" /\ Held(w) \in Selects
  /\ \E n \in IF Held(w) \in Throwing THEN {0, 1} ELSE {0} :
       \/ CanRetry(w) /\ Again(w) /\ Call(Held(w), n)
       \/ ~CanRetry(w) /\ End(w, "failed") /\ Answered(w) /\ Call(Held(w), n + 1)
  /\ UNCHANGED <<queue, dtor, applied>>

\* Any other failure of a SELECT: of the statement (one call, with the empty
\* result), of the callback with an SQLException (a second call), or of the
\* callback with another std::exception (only logged, by the worker).
SelectError(w) ==
  /\ pc[w] = "run" /\ Held(w) \in Selects
  /\ End(w, "failed") /\ Answered(w)
  /\ \E n \in IF Held(w) \in Throwing THEN {1, 2} ELSE {1} : Call(Held(w), n)
  /\ UNCHANGED <<queue, dtor, applied>>

DmlOk(w) ==
  /\ pc[w] = "run" /\ Held(w) \in Tasks \ Selects
  /\ End(w, "ok") /\ Answered(w)
  /\ Apply(Held(w), 1) /\ Call(Held(w), 1)
  /\ UNCHANGED <<queue, dtor>>

\* Variant: no return after the retry was enqueued, so the callback is told too.
DmlLostFallsThrough(w) ==
  /\ pc[w] = "run" /\ Held(w) \in Tasks \ Selects
  /\ \E n \in {0, 1} : Apply(Held(w), n)
  /\ \/ CanRetry(w) /\ Again(w)
     \/ ~CanRetry(w) /\ End(w, "failed") /\ Answered(w)
  /\ Call(Held(w), 1)
  /\ UNCHANGED <<queue, dtor>>

\* The connection breaks during a DML statement, before or after the server
\* applied it.
DmlLost(w) ==
  /\ pc[w] = "run" /\ Held(w) \in Tasks \ Selects
  /\ \E n \in {0, 1} : Apply(Held(w), n)
  /\ \/ CanRetry(w) /\ Again(w) /\ UNCHANGED calls
     \/ ~CanRetry(w) /\ End(w, "failed") /\ Answered(w) /\ Call(Held(w), 1)
  /\ UNCHANGED <<queue, dtor>>

DmlError(w) ==
  /\ pc[w] = "run" /\ Held(w) \in Tasks \ Selects
  /\ End(w, "failed") /\ Answered(w)
  /\ Call(Held(w), 1)
  /\ UNCHANGED <<queue, dtor, applied>>

Run(w) == \/ NoConnection(w)
          \/ SelectOk(w) \/ SelectLost(w) \/ SelectError(w)
          \/ DmlOk(w) \/ DmlLost(w) \/ DmlError(w)

-----------------------------------------------------------------------------
\* ~CThreadPool runs on the main thread at process exit: m_bStop is stored
\* without the lock, then notify_all, then every worker is joined.
StopStore == /\ dtor = "no" /\ pc[MainThread] = "idle"
             /\ dtor' = "storing"
             /\ UNCHANGED <<pc, hand, queue, todo, ghosts>>

StopNotify == /\ dtor = "storing"
              /\ dtor' = "joining"
              /\ pc' = [th \in Threads |-> IF th \in Sleepers THEN Awake(th) ELSE pc[th]]
              /\ UNCHANGED <<hand, queue, todo, ghosts>>

Joined == /\ dtor = "joining"
          /\ \A w \in Workers : pc[w] = "exit"
          /\ dtor' = "joined"
          /\ UNCHANGED <<pc, hand, queue, todo, ghosts>>

Destructor == StopNotify \/ Joined

Next == \/ \E p \in Producers, t \in Tasks : Submit(p, t)
        \/ \E th \in Threads : TryEnqueue(th) \/ Sleep(th) \/ Timeout(th) \/ NotifyOne(th)
        \/ \E w \in Workers : Fetch(w) \/ NotifyAll(w) \/ Run(w)
        \/ StopStore
        \/ Destructor

Spec == Init /\ [][Next]_vars

(***************************************************************************)
(* Every thread runs (weak fairness), timed waits end, and the mutex does   *)
(* not starve a thread that keeps asking for it (strong fairness; waits are *)
(* a second or more apart). Nobody is obliged to submit a task or to stop.  *)
(***************************************************************************)
Fairness == /\ \A th \in Threads : /\ SF_vars(TryEnqueue(th))
                                   /\ WF_vars(Sleep(th))
                                   /\ WF_vars(Timeout(th))
                                   /\ WF_vars(NotifyOne(th))
            /\ \A w \in Workers : SF_vars(Fetch(w)) /\ WF_vars(NotifyAll(w)) /\ WF_vars(Run(w))
            /\ WF_vars(Destructor)

FairSpec == Spec /\ Fairness

-----------------------------------------------------------------------------
CTasks == [task : Tasks \cup {NoTask}, retry : Nat]
Enqueueing == {"enq", "enqHold", "enqWait", "notify"}
ProducerAt == Enqueueing \cup {"idle"}
WorkerAt == Enqueueing \cup {"fetch", "fetchHold", "fetchWait", "popped", "run", "exit"}

\* The variables of the pool have their types, and m_qTasks keeps within
\* sv_sql_queue_max_size, whoever enqueues, and after whatever wait: callers,
\* retries on the workers, and callbacks that hand over the next task.
TypeOK == /\ DOMAIN pc = Threads
          /\ \A p \in Producers : pc[p] \in ProducerAt
          /\ \A w \in Workers : pc[w] \in WorkerAt
          /\ hand \in [Threads -> CTasks]
          /\ queue \in Seq(CTasks) /\ Len(queue) <= MaxQueue
          /\ dtor \in {"no", "storing", "joining", "joined"}
          /\ todo \subseteq Tasks
          /\ outcome \in [Tasks -> Outcomes]
          /\ applied \in [Tasks -> Nat]
          /\ calls \in [Tasks -> Nat]
          /\ logged \in [Tasks -> Nat]

Queued(t) == \E i \in 1..Len(queue) : queue[i].task = t
Carried(t) == \E th \in Threads : hand[th].task = t

\* Through pops, retries from two places of the code, follow-up submissions and
\* shutdown, a task is never in two places: not twice in m_qTasks, not with two
\* threads, not both queued and executing, and nowhere once it has ended.
OnePlace ==
  /\ \A i, j \in 1..Len(queue) : i # j => queue[i].task # queue[j].task
  /\ \A th, o \in Threads :
       th # o /\ hand[th].task # NoTask => hand[th].task # hand[o].task
  /\ \A t \in Tasks : Queued(t) => ~Carried(t)
  /\ \A t \in Tasks : Queued(t) \/ Carried(t) => outcome[t] = "open" /\ t \notin todo
  /\ \A t \in todo : outcome[t] = "open"

\* No task evaporates: one that was handed over and has not ended is in the
\* queue or with a thread (EnqueueTask moves it, EnqueueRetry moves it back).
NoTaskVanishes ==
  \A t \in Tasks : outcome[t] = "open" => t \in todo \/ Queued(t) \/ Carried(t)

\* The caller is told exactly once about a task that ended "ok" or "failed",
\* and never about one the pool gave up, whatever mix of worker-level and
\* task-level retries it went through (callbacks that raise excepted).
ToldOnce ==
  \A t \in Tasks \ Throwing :
    calls[t] = IF outcome[t] \in {"ok", "failed"} THEN 1 ELSE 0

\* A change that did not reach the database is in the lost-query log, unless
\* the pool refused or abandoned the task because it was stopping.
LossIsLogged ==
  \A t \in Tasks \ Selects :
    /\ outcome[t] \in {"ok", "failed", "lost"} /\ applied[t] = 0 => logged[t] = 1
    /\ outcome[t] \in {"refused", "abandoned"} => Stop

\* A statement is executed at most once more than its retries allow, although
\* the worker and the task both count them: a non-idempotent change is applied
\* at most 1 + sv_sql_dml_max_retries times.
BoundedTries ==
  \A t \in Tasks : applied[t] <= DmlRetries + 1 /\ logged[t] <= 1

\* Once its destructor returned the pool has executed or accounted for all it
\* accepted: the queue is empty and no worker holds a task.
JoinedIsDrained ==
  dtor = "joined" => queue = <<>> /\ \A w \in Workers : hand[w].task = NoTask

\* The promise to the caller (module TaskLife): one hand-over, bounded tries,
\* one final outcome.
Phase == [t \in Tasks |-> IF outcome[t] # "open" THEN outcome[t]
                          ELSE IF t \in todo THEN "unsent" ELSE "pending"]
Life == INSTANCE TaskLife WITH phase <- Phase
ImplementsTaskLife == Life!Spec

\* Every task handed over ends (liveness of the whole pool).
EverySubmittedTaskEnds == \A t \in Tasks : t \notin todo ~> outcome[t] # "open"

\* The destructor returns, wherever the workers were when it was called.
DestructorReturns == Stop ~> dtor = "joined"
=============================================================================
