----------------------------- MODULE ThreadPool ----------------------------
(***************************************************************************)
(* ThreadPool (_sources/thread_pool) over SafeQueue: its constructor and   *)
(* destructor, run by the thread Main that owns the pool, and the work()   *)
(* loop of every worker.  A task is a value; what running it does to the   *)
(* pool is to submit any tasks that have not been submitted before, so     *)
(* every task body is covered.  A task ends without throwing, as Crowler's *)
(* parseOnePage does by catching everything.                               *)
(***************************************************************************)
EXTENDS SafeQueue, FiniteSets

CONSTANTS
  Worker,  \* the threads of _pool: hardware_concurrency() of them
  Main     \* the thread that constructs, uses and destroys the pool

ASSUME PoolConstants ==
  /\ Thread = Worker \cup {Main}
  /\ Main \notin Worker
  /\ IsFiniteSet(Worker)

VARIABLES
  ctl,        \* where each thread is in the pool's code
  stop,       \* _stoper.stop_requested()
  task,       \* the task each worker is running: tmp in work()
  submitted,  \* history: the tasks passed to submit()
  executed    \* history: the tasks that have run to their end

pvars == <<ctl, stop, task, submitted, executed>>
vars == <<queue, emptyFlag, owner, op, slot, ctl, stop, task, submitted, executed>>

-----------------------------------------------------------------------------
Init ==
  /\ QueueInit
  /\ ctl = [t \in Thread |-> IF t = Main THEN "ctor" ELSE "unborn"]
  /\ stop = FALSE
  /\ task = [w \in Worker |-> NoItem]
  /\ submitted = {}
  /\ executed = {}

Move(t, from, to) ==
  /\ ctl[t] = from
  /\ ctl' = [ctl EXCEPT ![t] = to]

-----------------------------------------------------------------------------
(* ThreadPool::ThreadPool: one jthread after the other.                    *)
Create(w) ==
  /\ ctl[Main] = "ctor"
  /\ Move(w, "unborn", "starting")
  /\ UNCHANGED <<qvars, stop, task, submitted, executed>>

Constructed ==
  /\ \A w \in Worker : ctl[w] # "unborn"
  /\ Move(Main, "ctor", "open")
  /\ UNCHANGED <<qvars, stop, task, submitted, executed>>

(* A jthread cannot be created: the exception leaves the constructor, and
   the members built so far are destroyed; ~vector joins the threads that
   _pool holds already.                                                    *)
CreateFails ==
  /\ \E w \in Worker : ctl[w] = "unborn"
  /\ Move(Main, "ctor", "unwinding")
  /\ UNCHANGED <<qvars, stop, task, submitted, executed>>

Unwound ==
  /\ \A w \in Worker : ctl[w] \in {"unborn", "exited"}
  /\ Move(Main, "unwinding", "failed")
  /\ UNCHANGED <<qvars, stop, task, submitted, executed>>

-----------------------------------------------------------------------------
(* _waitCores.arrive_and_wait(): the latch counts down from _cores, so it
   is open when every worker has arrived.                                  *)
LatchOpen == \A w \in Worker : ctl[w] \notin {"unborn", "starting"}

Arrive(w) ==
  /\ Move(w, "starting", "latched")
  /\ UNCHANGED <<qvars, stop, task, submitted, executed>>

PassLatch(w) ==
  /\ LatchOpen
  /\ Move(w, "latched", "loop")
  /\ UNCHANGED <<qvars, stop, task, submitted, executed>>

(* auto tmp = _tasks.pop();  The steps of the call are QueueStep(w).       *)
CallPop(w) ==
  /\ Move(w, "loop", "popping")
  /\ PopLock(w)
  /\ UNCHANGED <<stop, task, submitted, executed>>

(* Slip: if (tmp) is missing.                                              *)
RunWhatever(w) ==
  /\ op[w] = "idle"
  /\ Move(w, "popping", "running")
  /\ task' = [task EXCEPT ![w] = slot[w]]
  /\ UNCHANGED <<qvars, stop, submitted, executed>>

(* pop() has returned: if (tmp) tmp();                                     *)
RunTask(w) ==
  /\ op[w] = "idle"
  /\ slot[w] # NoItem
  /\ Move(w, "popping", "running")
  /\ task' = [task EXCEPT ![w] = slot[w]]
  /\ UNCHANGED <<qvars, stop, submitted, executed>>

(* Slip: once stop is requested, what pop() returned is not run.           *)
SkipWhenStopped(w) ==
  /\ op[w] = "idle"
  /\ slot[w] = NoItem \/ stop
  /\ Move(w, "popping", "yielded")
  /\ UNCHANGED <<qvars, stop, task, submitted, executed>>

NoTaskYet(w) ==
  /\ op[w] = "idle"
  /\ slot[w] = NoItem
  /\ Move(w, "popping", "yielded")
  /\ UNCHANGED <<qvars, stop, task, submitted, executed>>

FinishTask(w) ==
  /\ op[w] = "idle"
  /\ Move(w, "running", "yielded")
  /\ task' = [task EXCEPT ![w] = NoItem]
  /\ executed' = executed \cup {task[w]}
  /\ UNCHANGED <<qvars, stop, submitted>>

(* stop.stop_requested() && _tasks.empty(): two reads, in this order.      *)
CheckStop(w) ==
  /\ Move(w, "yielded", IF stop THEN "leaving" ELSE "loop")
  /\ UNCHANGED <<qvars, stop, task, submitted, executed>>

(* Slip: stop alone ends the loop.                                         *)
LeaveAtOnce(w) ==
  /\ Move(w, "leaving", "exited")
  /\ UNCHANGED <<qvars, stop, task, submitted, executed>>

CheckEmpty(w) ==
  /\ Move(w, "leaving", IF Empty THEN "exited" ELSE "loop")
  /\ UNCHANGED <<qvars, stop, task, submitted, executed>>

-----------------------------------------------------------------------------
(* submit(): called by the pool's owner, or by the task a worker runs.     *)
Submit(t, x) ==
  /\ ctl[t] \in {"open", "running"}
  /\ x \in Item \ submitted
  /\ PushLock(t, x)
  /\ submitted' = submitted \cup {x}
  /\ UNCHANGED <<ctl, stop, task, executed>>

InQueue(t) == QueueStep(t) /\ UNCHANGED pvars

-----------------------------------------------------------------------------
(* ThreadPool::~ThreadPool: request_stop, then join every thread.          *)
RequestStop ==
  /\ op[Main] = "idle"
  /\ Move(Main, "open", "joining")
  /\ stop' = TRUE
  /\ UNCHANGED <<qvars, task, submitted, executed>>

(* Slip: the threads are detached instead of joined.                       *)
Detached ==
  /\ Move(Main, "joining", "gone")
  /\ UNCHANGED <<qvars, stop, task, submitted, executed>>

Joined ==
  /\ \A w \in Worker : ctl[w] = "exited"
  /\ Move(Main, "joining", "gone")
  /\ UNCHANGED <<qvars, stop, task, submitted, executed>>

-----------------------------------------------------------------------------
WorkerStep(w) ==
  \/ Arrive(w) \/ PassLatch(w) \/ CallPop(w) \/ RunTask(w) \/ NoTaskYet(w)
  \/ FinishTask(w) \/ CheckStop(w) \/ CheckEmpty(w)

Next ==
  \/ \E w \in Worker : Create(w) \/ WorkerStep(w)
  \/ \E t \in Thread : InQueue(t) \/ \E x \in Item : Submit(t, x)
  \/ Constructed \/ CreateFails \/ Unwound \/ RequestStop \/ Joined

Spec == Init /\ [][Next]_vars

(* Every thread that can run keeps running and the constructor goes on.
   The deadline of a wait is fixed when pop() is called, so a thread cannot
   be woken and put back to sleep for ever: its wait expires (the strong
   fairness).  Nothing forces the owner to destroy the pool or a task to
   submit, nothing forces a wake-up, and the mutex is not fair: a thread
   may lose every race for it while others keep taking it.                 *)
Progress(w) ==
  \/ WorkerStep(w)
  \/ (PushStep(w) \/ PopStep(w)) /\ UNCHANGED pvars

Fairness ==
  /\ \A w \in Worker :
       /\ WF_vars(Create(w))
       /\ WF_vars(Progress(w))
       /\ SF_vars(PopTimeout(w) /\ UNCHANGED pvars)
  /\ WF_vars(PushStep(Main) /\ UNCHANGED pvars)
  /\ WF_vars(Constructed) /\ WF_vars(Unwound) /\ WF_vars(Joined)

FairSpec == Spec /\ Fairness

-----------------------------------------------------------------------------
MainStates == {"ctor", "open", "unwinding", "failed", "joining", "gone"}
WorkerStates == {"unborn", "starting", "latched", "loop", "popping", "running",
                 "yielded", "leaving", "exited"}

PoolTypeOK ==
  /\ QueueTypeOK
  /\ ctl \in [Thread -> MainStates \cup WorkerStates]
  /\ ctl[Main] \in MainStates
  /\ \A w \in Worker : ctl[w] \in WorkerStates
  /\ stop \in BOOLEAN
  /\ task \in [Worker -> Item \cup {NoItem}]
  /\ submitted \in SUBSET Item
  /\ executed \in SUBSET Item

(* What a thread has taken off the queue or has not yet put on it.         *)
Carried(t) ==
  IF ctl[t] = "popping" \/ op[t] = "enqueue" THEN slot[t] ELSE NoItem

Queued == {queue[i] : i \in DOMAIN queue}
CarriedItems == {Carried(t) : t \in Thread} \ {NoItem}
TasksRun == {task[w] : w \in Worker} \ {NoItem}

(* No submitted task is ever lost: it is on its way into the queue, in the
   queue, on its way to a worker, being run, or done.                      *)
NothingLost ==
  submitted = Queued \cup CarriedItems \cup TasksRun \cup executed

(* No task is in two of those places, or twice in one: none runs twice.    *)
NothingDoubled ==
  /\ \A i, j \in DOMAIN queue : i # j => queue[i] # queue[j]
  /\ \A t, u \in Thread : t # u /\ Carried(t) # NoItem => Carried(t) # Carried(u)
  /\ \A w, v \in Worker : w # v /\ task[w] # NoItem => task[w] # task[v]
  /\ Queued \cap CarriedItems = {}
  /\ Queued \cap TasksRun = {}
  /\ Queued \cap executed = {}
  /\ CarriedItems \cap TasksRun = {}
  /\ CarriedItems \cap executed = {}
  /\ TasksRun \cap executed = {}

(* While the queue holds a task some worker is still there to run it, even
   though a worker leaves on the word of a flag it reads without the mutex
   while other workers may be pushing (thread_pool.cpp:24-27).             *)
SomeoneStays ==
  Worker # {} /\ queue # <<>> => \E w \in Worker : ctl[w] # "exited"

(* When the destructor returns, every task ever submitted has been run to
   its end, those submitted by the last tasks included: Crowler's fields
   may be destroyed (crowler.h:77-78).                                     *)
Drained ==
  Worker # {} /\ ctl[Main] = "gone" => executed = submitted

-----------------------------------------------------------------------------
(* The pool's constructor ends, with or without an exception.              *)
ConstructionEnds == <>(ctl[Main] \notin {"ctor", "unwinding"})

(* The destructor returns: idle workers sit in a timed wait that nothing
   notifies when stop is requested, and must still see it.                 *)
DestructorReturns == ctl[Main] = "joining" ~> ctl[Main] = "gone"

(* A submitted task is eventually run.                                     *)
EveryTaskRuns == \A x \in Item : x \in submitted ~> x \in executed

(* The pool implements TaskPool.                                           *)
Pool == INSTANCE TaskPool
  WITH Task <- Item, NoTask <- NoItem,
       pending <- submitted \ (executed \cup TasksRun),
       running <- task, finished <- executed,
       life <- IF ctl[Main] = "joining" THEN "closing"
               ELSE IF ctl[Main] = "gone" THEN "closed"
               ELSE "open"

ImplementsTaskPool == Pool!Spec

SafelyATaskPool == Pool!Safe
=============================================================================
