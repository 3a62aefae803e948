-------------------------- MODULE ThreadPoolProofs -------------------------
(***************************************************************************)
(* What is proved of ThreadPool for any number of workers and any tasks,   *)
(* whatever the tasks submit.                                              *)
(***************************************************************************)
EXTENDS ThreadPool, SafeQueueProofs

(* Where a thread's call of the queue was made from, and what the two
   history-free flags of the pool say about the threads.                   *)
ControlInv ==
  /\ \A t \in Thread : op[t] \in {"enqueue", "clear", "release", "notify"}
       => ctl[t] \in {"open", "running"}
  /\ \A t \in Thread : op[t] \in {"test", "waiting", "woken", "expired", "lastTest",
                                  "take", "mark", "unlock"}
       => ctl[t] = "popping"
  /\ \A w \in Worker : task[w] # NoItem <=> ctl[w] = "running"
  /\ stop <=> ctl[Main] \in {"joining", "gone"}
  /\ \A w \in Worker : ctl[w] \in {"leaving", "exited"} => stop
  /\ ctl[Main] = "gone" => \A w \in Worker : ctl[w] = "exited"

BaseInv == QueueInv /\ PoolTypeOK /\ ControlInv

PoolInv == BaseInv /\ NothingLost /\ NothingDoubled /\ SomeoneStays

-----------------------------------------------------------------------------
LEMMA BaseInvInit == Init => BaseInv
<1> SUFFICES ASSUME Init PROVE BaseInv
  OBVIOUS
<1>1. QueueInv
  BY QueueInvInit DEF Init
<1>2. PoolTypeOK
  BY <1>1, PoolConstants DEF Init, PoolTypeOK, QueueInv, MainStates, WorkerStates
<1>3. ControlInv
  BY PoolConstants DEF Init, QueueInit, ControlInv
<1> QED BY <1>1, <1>2, <1>3 DEF BaseInv

(* The pool uses the queue as any client may: a step of the pool is a call
   of the queue, a step inside one, or nothing to the queue.               *)
LEMMA PoolCallsQueue == [Next]_vars => [QueueNext]_qvars
<1> SUFFICES ASSUME [Next]_vars PROVE QueueNext \/ UNCHANGED qvars
  OBVIOUS
<1>1. ASSUME NEW w \in Worker, Create(w) \/ WorkerStep(w)
      PROVE  QueueNext \/ UNCHANGED qvars
  <2>1. CASE CallPop(w)
    BY <2>1, PoolConstants DEF CallPop, QueueCall, QueueNext
  <2> QED BY <1>1, <2>1
          DEF WorkerStep, Create, Arrive, PassLatch, RunTask, NoTaskYet, FinishTask,
              CheckStop, CheckEmpty
<1>2. ASSUME NEW t \in Thread, InQueue(t) PROVE QueueNext
  BY <1>2 DEF InQueue, QueueNext
<1>3. ASSUME NEW t \in Thread, NEW x \in Item, Submit(t, x) PROVE QueueNext
  BY <1>3 DEF Submit, QueueCall, QueueNext
<1> QED BY <1>1, <1>2, <1>3
        DEF Next, vars, qvars, Constructed, CreateFails, Unwound, RequestStop, Joined

(* So the queue inside the pool is the linearizable FIFO that SafeQueue is
   for every client, and what is proved of SafeQueue holds in the pool.    *)
THEOREM PoolQueueIsLinearizable == Spec => Linearizable
<1>1. Init => QueueInit
  BY DEF Init
<1>2. Spec => QueueSpec
  BY <1>1, PoolCallsQueue, PTL DEF Spec, QueueSpec
<1> QED BY <1>2, QueueIsLinearizable, PTL

LEMMA QueueInvStep == BaseInv /\ [Next]_vars => QueueInv'
BY PoolCallsQueue, QueueNextInv DEF BaseInv

LEMMA BaseInvStep == BaseInv /\ [Next]_vars => BaseInv'
<1> SUFFICES ASSUME BaseInv, [Next]_vars PROVE BaseInv'
  OBVIOUS
<1>0. QueueInv' /\ QueueTypeOK'
  BY QueueInvStep DEF QueueInv
<1> SUFFICES PoolTypeOK' /\ ControlInv'
  BY <1>0 DEF BaseInv
<1> USE <1>0, PoolConstants
    DEF BaseInv, PoolTypeOK, ControlInv, MainStates, WorkerStates, Move
<1>1. ASSUME NEW w \in Worker, Create(w) PROVE PoolTypeOK' /\ ControlInv'
  BY <1>1 DEF Create, qvars
<1>2. ASSUME NEW w \in Worker, WorkerStep(w) PROVE PoolTypeOK' /\ ControlInv'
  <2>1. CASE Arrive(w) BY <2>1 DEF Arrive, qvars
  <2>2. CASE PassLatch(w) BY <2>2 DEF PassLatch, qvars
  <2>3. CASE CallPop(w)
    BY <2>3 DEF CallPop, PopLock, Goto, QueueInv, QueueTypeOK
  <2>4. CASE RunTask(w)
    BY <2>4 DEF RunTask, qvars, QueueInv, QueueTypeOK
  <2>5. CASE NoTaskYet(w) BY <2>5 DEF NoTaskYet, qvars
  <2>6. CASE FinishTask(w)
    BY <2>6 DEF FinishTask, qvars
  <2>7. CASE CheckStop(w) BY <2>7 DEF CheckStop, qvars
  <2>8. CASE CheckEmpty(w) BY <2>8 DEF CheckEmpty, qvars
  <2> QED BY <1>2, <2>1, <2>2, <2>3, <2>4, <2>5, <2>6, <2>7, <2>8 DEF WorkerStep
<1>3. ASSUME NEW t \in Thread, InQueue(t) PROVE PoolTypeOK' /\ ControlInv'
  <2>1. PoolTypeOK'
    BY <1>3 DEF InQueue, pvars
  <2>2. ControlInv'
    BY <1>3 DEF InQueue, pvars, QueueStep, PushStep, PopStep, PushEnqueue, PushClear,
         PushUnlock, PushNotify, PopReady, PopWait, PopGiveUp, PopSpurious, PopTimeout,
         PopRelock, PopTake, PopMark, PopUnlock, Goto, QueueTypeOK, QueueInv
  <2> QED BY <2>1, <2>2
<1>4. ASSUME NEW t \in Thread, NEW x \in Item, Submit(t, x)
      PROVE  PoolTypeOK' /\ ControlInv'
  BY <1>4 DEF Submit, PushLock, Goto, QueueTypeOK, QueueInv
<1>5. CASE Constructed BY <1>5 DEF Constructed, qvars
<1>6. CASE CreateFails BY <1>6 DEF CreateFails, qvars
<1>7. CASE Unwound BY <1>7 DEF Unwound, qvars
<1>8. CASE RequestStop BY <1>8 DEF RequestStop, qvars
<1>9. CASE Joined BY <1>9 DEF Joined, qvars
<1>10. CASE UNCHANGED vars BY <1>10 DEF vars
<1> QED BY <1>1, <1>2, <1>3, <1>4, <1>5, <1>6, <1>7, <1>8, <1>9, <1>10 DEF Next

-----------------------------------------------------------------------------
(* Some worker stays while the queue holds a task.  A push that has not
   cleared the flag yet is made by the owner, and then stop has not been
   requested, or by a worker, and then that worker has not left.           *)
LEMMA StayStep == BaseInv /\ SomeoneStays /\ [Next]_vars => SomeoneStays'
<1> SUFFICES ASSUME BaseInv, SomeoneStays, [Next]_vars, Worker # {}, queue' # <<>>
             PROVE  \E w \in Worker : ctl'[w] # "exited"
  BY DEF SomeoneStays
<1> USE PoolConstants DEF BaseInv, PoolTypeOK, ControlInv, SomeoneStays, Move
<1>1. ASSUME NEW t \in Thread, InQueue(t)
      PROVE  \E w \in Worker : ctl'[w] # "exited"
  <2>1. CASE PushEnqueue(t)
    <3>1. ctl[t] \in {"open", "running"}
      BY <2>1 DEF PushEnqueue, Goto
    <3>2. CASE t = Main
      BY <1>1, <3>1, <3>2 DEF InQueue, pvars, MainStates
    <3>3. CASE t \in Worker
      BY <1>1, <3>1, <3>3 DEF InQueue, pvars, WorkerStates
    <3> QED BY <3>2, <3>3
  <2>2. CASE PopTake(t)
    <3>1. queue # <<>>
      BY <2>2, TakeFindsItem DEF PopTake, Goto, NeverTakeFromEmpty
    <3> QED BY <1>1, <3>1 DEF InQueue, pvars
  <2>3. CASE UNCHANGED queue
    BY <1>1, <2>3 DEF InQueue, pvars
  <2> QED BY <1>1, <2>1, <2>2, <2>3
          DEF InQueue, QueueStep, PushStep, PopStep, PushClear, PushUnlock, PushNotify,
              PopReady, PopWait, PopGiveUp, PopSpurious, PopTimeout, PopRelock, PopMark,
              PopUnlock
<1>2. ASSUME NEW w \in Worker, CheckEmpty(w)
      PROVE  \E v \in Worker : ctl'[v] # "exited"
  <2>1. CASE ~Empty
    BY <1>2, <2>1 DEF CheckEmpty
  <2>2. CASE Empty
    <3>1. PICK t \in Thread : op[t] = "clear"
      BY <1>2, <2>2, FlagIsTruthful DEF CheckEmpty, qvars, Empty, FlagTruthful
    <3>2. ctl[t] \in {"open", "running"} /\ ctl[w] = "leaving" /\ stop
      BY <1>2, <3>1 DEF CheckEmpty
    <3>3. t \in Worker /\ t # w
      BY <3>2 DEF MainStates
    <3> QED BY <1>2, <3>2, <3>3 DEF CheckEmpty
  <2> QED BY <2>1, <2>2
<1>3. ASSUME NEW w \in Worker,
             Create(w) \/ Arrive(w) \/ PassLatch(w) \/ CallPop(w) \/ RunTask(w)
             \/ NoTaskYet(w) \/ FinishTask(w) \/ CheckStop(w)
      PROVE  \E v \in Worker : ctl'[v] # "exited"
  BY <1>3 DEF Create, Arrive, PassLatch, CallPop, RunTask, NoTaskYet, FinishTask,
              CheckStop, PopLock, qvars
<1>4. ASSUME NEW t \in Thread, NEW x \in Item, Submit(t, x)
      PROVE  \E v \in Worker : ctl'[v] # "exited"
  BY <1>4 DEF Submit, PushLock
<1>5. CASE Constructed \/ CreateFails \/ Unwound \/ RequestStop \/ Joined
  BY <1>5 DEF Constructed, CreateFails, Unwound, RequestStop, Joined, qvars
<1>6. CASE UNCHANGED vars
  BY <1>6 DEF vars
<1> QED BY <1>1, <1>2, <1>3, <1>4, <1>5, <1>6 DEF Next, WorkerStep

-----------------------------------------------------------------------------
(* Accounting.  Most steps leave every task where it is.                   *)
LEMMA FrameLost ==
  ASSUME BaseInv, NothingLost, NothingDoubled, queue' = queue, task' = task,
         submitted' = submitted, executed' = executed,
         \A t \in Thread : Carried(t)' = Carried(t)
  PROVE  NothingLost' /\ NothingDoubled'
<1>1. Queued' = Queued /\ CarriedItems' = CarriedItems /\ TasksRun' = TasksRun
  BY DEF Queued, CarriedItems, TasksRun
<1> QED BY <1>1 DEF NothingLost, NothingDoubled

(* submit() takes a fresh task.                                            *)
LEMMA SubmitAccounts ==
  ASSUME BaseInv, NothingLost, NothingDoubled,
         NEW t \in Thread, NEW x \in Item, Submit(t, x)
  PROVE  NothingLost' /\ NothingDoubled'
<1> USE QueueConstants, PoolConstants DEF BaseInv, PoolTypeOK, QueueInv, QueueTypeOK
<1>1. Queued' = Queued /\ TasksRun' = TasksRun /\ executed' = executed
  BY DEF Submit, PushLock, Queued, TasksRun
<1>2. /\ \A u \in Thread : u # t => Carried(u)' = Carried(u)
      /\ Carried(t)' = x
      /\ Carried(t) = NoItem
  BY DEF Submit, PushLock, Goto, Carried, MainStates, WorkerStates
<1>3. CarriedItems' = CarriedItems \cup {x}
  BY <1>2 DEF CarriedItems
<1>4. x \notin submitted /\ submitted' = submitted \cup {x}
  BY DEF Submit
<1>5. \A u \in Thread : Carried(u) # NoItem => Carried(u) \in submitted
  BY DEF NothingLost, CarriedItems
<1>6. NothingLost'
  BY <1>1, <1>3, <1>4 DEF NothingLost
<1>7. \A u, v \in Thread : u # v /\ Carried(u)' # NoItem => Carried(u)' # Carried(v)'
  BY <1>2, <1>4, <1>5 DEF NothingDoubled
<1>8. queue' = queue /\ task' = task
  BY DEF Submit, PushLock
<1> QED BY <1>1, <1>3, <1>4, <1>6, <1>7, <1>8 DEF NothingDoubled, NothingLost

(* _queue.push moves the pushed task into the queue.                       *)
LEMMA EnqueueAccounts ==
  ASSUME BaseInv, NothingLost, NothingDoubled,
         NEW t \in Thread, PushEnqueue(t), UNCHANGED pvars
  PROVE  NothingLost' /\ NothingDoubled'
<1> USE QueueConstants, PoolConstants
    DEF BaseInv, PoolTypeOK, QueueInv, QueueTypeOK, pvars
<1>1. slot[t] \in Item /\ op[t] = "enqueue" /\ queue' = Append(queue, slot[t])
  BY DEF PushEnqueue, Goto, SlotMatchesOp
<1>2. ctl[t] # "popping"
  BY <1>1 DEF ControlInv
<1>3. /\ \A u \in Thread : u # t => Carried(u)' = Carried(u)
      /\ Carried(t)' = NoItem
      /\ Carried(t) = slot[t]
  BY <1>1, <1>2 DEF PushEnqueue, Goto, Carried
<1>4. CarriedItems' = CarriedItems \ {slot[t]} /\ slot[t] \in CarriedItems
  BY <1>1, <1>3 DEF CarriedItems, NothingDoubled
<1>5. slot[t] \notin Queued
  BY <1>4 DEF NothingDoubled
<1>6. Queued' = Queued \cup {slot[t]}
  <2>1. DOMAIN queue' = 1 .. Len(queue) + 1 /\ DOMAIN queue = 1 .. Len(queue)
    BY <1>1
  <2>2. /\ \A i \in 1 .. Len(queue) : queue'[i] = queue[i]
        /\ queue'[Len(queue) + 1] = slot[t]
    BY <1>1
  <2> QED BY <2>1, <2>2 DEF Queued
<1>7. \A i, j \in DOMAIN queue' : i # j => queue'[i] # queue'[j]
  BY <1>1, <1>5 DEF NothingDoubled, Queued
<1>8. TasksRun' = TasksRun /\ executed' = executed /\ submitted' = submitted /\ task' = task
  BY DEF TasksRun
<1>9. NothingLost'
  BY <1>4, <1>6, <1>8 DEF NothingLost
<1>10. \A u, v \in Thread : u # v /\ Carried(u)' # NoItem => Carried(u)' # Carried(v)'
  BY <1>3 DEF NothingDoubled
<1> QED BY <1>4, <1>6, <1>7, <1>8, <1>9, <1>10 DEF NothingDoubled

(* _queue.pop moves the oldest task to the worker.                         *)
LEMMA TakeAccounts ==
  ASSUME BaseInv, NothingLost, NothingDoubled,
         NEW t \in Thread, PopTake(t), UNCHANGED pvars
  PROVE  NothingLost' /\ NothingDoubled'
<1> USE QueueConstants, PoolConstants
    DEF BaseInv, PoolTypeOK, QueueInv, QueueTypeOK, pvars
<1> DEFINE x == Head(queue)
<1>1. queue # <<>> /\ op[t] = "take"
  BY TakeFindsItem DEF PopTake, Goto, NeverTakeFromEmpty
<1>2. queue' = Tail(queue) /\ x \in Item
  BY <1>1 DEF PopTake
<1>3. ctl[t] = "popping" /\ slot[t] = NoItem
  BY <1>1 DEF ControlInv, SlotMatchesOp
<1>4. /\ \A u \in Thread : u # t => Carried(u)' = Carried(u)
      /\ Carried(t)' = x
      /\ Carried(t) = NoItem
  BY <1>1, <1>3 DEF PopTake, Goto, Carried
<1>5. CarriedItems' = CarriedItems \cup {x}
  BY <1>2, <1>4 DEF CarriedItems
<1>6. /\ x \in Queued
      /\ Queued' = Queued \ {x}
      /\ \A i, j \in DOMAIN queue' : i # j => queue'[i] # queue'[j]
  <2>1. Len(queue) \in Nat \ {0} /\ DOMAIN queue = 1 .. Len(queue) /\ x = queue[1]
    BY <1>1
  <2>2. /\ DOMAIN queue' = 1 .. Len(queue) - 1
        /\ \A i \in 1 .. Len(queue) - 1 : queue'[i] = queue[i + 1]
    BY <1>1, <1>2, <2>1
  <2>3. \A i, j \in DOMAIN queue : i # j => queue[i] # queue[j]
    BY DEF NothingDoubled
  <2>4. \A i \in DOMAIN queue : i # 1 => i - 1 \in DOMAIN queue' /\ queue'[i - 1] = queue[i]
    BY <2>1, <2>2
  <2>5. x \in Queued
    BY <2>1 DEF Queued
  <2>6. \A i, j \in DOMAIN queue' : i # j => queue'[i] # queue'[j]
    <3>1. SUFFICES ASSUME NEW i \in DOMAIN queue', NEW j \in DOMAIN queue', i # j
                   PROVE  queue'[i] # queue'[j]
      OBVIOUS
    <3>2. i + 1 \in DOMAIN queue /\ j + 1 \in DOMAIN queue /\ i + 1 # j + 1
      BY <2>1, <2>2, <3>1
    <3>3. queue'[i] = queue[i + 1] /\ queue'[j] = queue[j + 1]
      BY <2>2
    <3> QED BY <2>3, <3>2, <3>3
  <2>7. Queued' = Queued \ {x}
    <3>1. ASSUME NEW y \in Queued' PROVE y \in Queued \ {x}
      <4>1. PICK i \in DOMAIN queue' : y = queue'[i]
        BY DEF Queued
      <4>2. i + 1 \in DOMAIN queue /\ i + 1 # 1 /\ y = queue[i + 1]
        BY <2>1, <2>2, <4>1
      <4> QED BY <2>1, <2>3, <4>2 DEF Queued
    <3>2. ASSUME NEW y \in Queued \ {x} PROVE y \in Queued'
      <4>1. PICK i \in DOMAIN queue : y = queue[i]
        BY DEF Queued
      <4>2. i # 1
        BY <2>1, <4>1
      <4> QED BY <2>4, <4>1, <4>2 DEF Queued
    <3> QED BY <3>1, <3>2
  <2> QED BY <2>5, <2>6, <2>7
<1>7. TasksRun' = TasksRun /\ executed' = executed /\ submitted' = submitted /\ task' = task
  BY DEF TasksRun
<1>8. NothingLost'
  BY <1>5, <1>6, <1>7 DEF NothingLost
<1>9. \A u, v \in Thread : u # v /\ Carried(u)' # NoItem => Carried(u)' # Carried(v)'
  BY <1>4, <1>6 DEF NothingDoubled, CarriedItems
<1> QED BY <1>5, <1>6, <1>7, <1>8, <1>9 DEF NothingDoubled

(* The worker starts the task it has taken, and ends it.                   *)
LEMMA RunAccounts ==
  ASSUME BaseInv, NothingLost, NothingDoubled, NEW w \in Worker, RunTask(w)
  PROVE  NothingLost' /\ NothingDoubled'
<1> USE QueueConstants, PoolConstants DEF BaseInv, PoolTypeOK, QueueInv, QueueTypeOK
<1>1. /\ slot[w] \in Item
      /\ ctl[w] = "popping"
      /\ task[w] = NoItem
      /\ task' = [task EXCEPT ![w] = slot[w]]
  BY DEF RunTask, Move, ControlInv
<1>2. /\ \A u \in Thread : u # w => Carried(u)' = Carried(u)
      /\ Carried(w)' = NoItem
      /\ Carried(w) = slot[w]
  BY <1>1 DEF RunTask, Move, Carried, qvars
<1>3. CarriedItems' = CarriedItems \ {slot[w]} /\ slot[w] \in CarriedItems
  BY <1>1, <1>2 DEF CarriedItems, NothingDoubled
<1>4. TasksRun' = TasksRun \cup {slot[w]}
  BY <1>1 DEF TasksRun
<1>5. Queued' = Queued /\ queue' = queue /\ executed' = executed /\ submitted' = submitted
  BY DEF RunTask, qvars, Queued
<1>6. NothingLost'
  BY <1>3, <1>4, <1>5 DEF NothingLost
<1>7. \A u, v \in Thread : u # v /\ Carried(u)' # NoItem => Carried(u)' # Carried(v)'
  BY <1>2 DEF NothingDoubled
<1>8. \A v, u \in Worker : v # u /\ task'[v] # NoItem => task'[v] # task'[u]
  BY <1>1, <1>3 DEF NothingDoubled, TasksRun
<1> QED BY <1>3, <1>4, <1>5, <1>6, <1>7, <1>8 DEF NothingDoubled

LEMMA FinishAccounts ==
  ASSUME BaseInv, NothingLost, NothingDoubled, NEW w \in Worker, FinishTask(w)
  PROVE  NothingLost' /\ NothingDoubled'
<1> USE QueueConstants, PoolConstants DEF BaseInv, PoolTypeOK, QueueInv, QueueTypeOK
<1>1. /\ task[w] # NoItem
      /\ task' = [task EXCEPT ![w] = NoItem]
      /\ executed' = executed \cup {task[w]}
  BY DEF FinishTask, Move, ControlInv
<1>2. \A u \in Thread : Carried(u)' = Carried(u)
  BY DEF FinishTask, Move, Carried, qvars
<1>3. CarriedItems' = CarriedItems
  BY <1>2 DEF CarriedItems
<1>4. TasksRun' = TasksRun \ {task[w]} /\ task[w] \in TasksRun
  BY <1>1 DEF TasksRun, NothingDoubled
<1>5. Queued' = Queued /\ queue' = queue /\ submitted' = submitted
  BY DEF FinishTask, qvars, Queued
<1>6. NothingLost'
  BY <1>1, <1>3, <1>4, <1>5 DEF NothingLost
<1>7. \A v, u \in Worker : v # u /\ task'[v] # NoItem => task'[v] # task'[u]
  BY <1>1 DEF NothingDoubled
<1> QED BY <1>1, <1>2, <1>3, <1>4, <1>5, <1>6, <1>7 DEF NothingDoubled

(* The other steps move no task.                                           *)
LEMMA AccountStep ==
  ASSUME BaseInv, NothingLost, NothingDoubled, [Next]_vars
  PROVE  NothingLost' /\ NothingDoubled'
<1> USE QueueConstants, PoolConstants DEF BaseInv, PoolTypeOK, QueueInv, QueueTypeOK
<1>1. ASSUME NEW t \in Thread, InQueue(t) PROVE NothingLost' /\ NothingDoubled'
  <2>1. CASE PushEnqueue(t)
    BY <1>1, <2>1, EnqueueAccounts DEF InQueue
  <2>2. CASE PopTake(t)
    BY <1>1, <2>2, TakeAccounts DEF InQueue
  <2>3. CASE \/ PushClear(t) \/ PushUnlock(t) \/ PushNotify(t)
             \/ PopReady(t) \/ PopWait(t) \/ PopGiveUp(t) \/ PopSpurious(t)
             \/ PopTimeout(t) \/ PopRelock(t) \/ PopMark(t) \/ PopUnlock(t)
    <3>1. slot' = slot /\ ctl' = ctl /\ \A u \in Thread : op[u] = "enqueue" <=> op'[u] = "enqueue"
      BY <1>1, <2>3 DEF InQueue, pvars, PushClear, PushUnlock, PushNotify, PopReady,
         PopWait, PopGiveUp, PopSpurious, PopTimeout, PopRelock, PopMark, PopUnlock, Goto
    <3>2. \A u \in Thread : Carried(u)' = Carried(u)
      BY <3>1 DEF Carried
    <3>3. queue' = queue
      BY <2>3 DEF PushClear, PushUnlock, PushNotify, PopReady, PopWait, PopGiveUp,
         PopSpurious, PopTimeout, PopRelock, PopMark, PopUnlock
    <3> QED BY <1>1, <3>2, <3>3, FrameLost DEF InQueue, pvars
  <2> QED BY <1>1, <2>1, <2>2, <2>3 DEF InQueue, QueueStep, PushStep, PopStep
<1>2. ASSUME NEW w \in Worker, CallPop(w) PROVE NothingLost' /\ NothingDoubled'
  <2>1. \A u \in Thread : Carried(u)' = Carried(u)
    BY <1>2 DEF CallPop, Move, PopLock, Goto, Carried
  <2> QED BY <1>2, <2>1, FrameLost DEF CallPop, PopLock
<1>3. ASSUME NEW w \in Worker,
             \/ Create(w) \/ Arrive(w) \/ PassLatch(w) \/ NoTaskYet(w)
             \/ CheckStop(w) \/ CheckEmpty(w)
      PROVE  NothingLost' /\ NothingDoubled'
  <2>1. \A u \in Thread : Carried(u)' = Carried(u)
    BY <1>3 DEF Create, Arrive, PassLatch, NoTaskYet, CheckStop, CheckEmpty, Move,
                Carried, qvars, ControlInv
  <2> QED BY <1>3, <2>1, FrameLost
          DEF Create, Arrive, PassLatch, NoTaskYet, CheckStop, CheckEmpty, qvars
<1>4. CASE Constructed \/ CreateFails \/ Unwound \/ RequestStop \/ Joined
  <2>1. \A u \in Thread : Carried(u)' = Carried(u)
    BY <1>4 DEF Constructed, CreateFails, Unwound, RequestStop, Joined, Move, Carried, qvars
  <2> QED BY <1>4, <2>1, FrameLost
          DEF Constructed, CreateFails, Unwound, RequestStop, Joined, qvars
<1>5. CASE UNCHANGED vars
  <2>1. \A u \in Thread : Carried(u)' = Carried(u)
    BY <1>5 DEF vars, Carried
  <2> QED BY <1>5, <2>1, FrameLost DEF vars
<1> QED BY <1>1, <1>2, <1>3, <1>4, <1>5, SubmitAccounts, RunAccounts, FinishAccounts
        DEF Next, WorkerStep

-----------------------------------------------------------------------------
(* The inductive invariant of the pool.                                    *)
LEMMA PoolInvInit == Init => PoolInv
<1> SUFFICES ASSUME Init PROVE PoolInv
  OBVIOUS
<1> USE QueueConstants, PoolConstants DEF Init, QueueInit
<1>1. Queued = {} /\ CarriedItems = {} /\ TasksRun = {}
  BY DEF Queued, CarriedItems, Carried, TasksRun
<1>2. NothingLost
  BY <1>1 DEF NothingLost
<1>3. NothingDoubled
  <2>1. \A t \in Thread : Carried(t) = NoItem
    BY DEF Carried
  <2> QED BY <1>1, <2>1 DEF NothingDoubled
<1>4. SomeoneStays
  BY DEF SomeoneStays
<1> QED BY <1>2, <1>3, <1>4, BaseInvInit DEF PoolInv

LEMMA PoolInvariant == Spec => []PoolInv
<1>1. PoolInv /\ [Next]_vars => PoolInv'
  BY BaseInvStep, StayStep, AccountStep DEF PoolInv
<1> QED BY <1>1, PoolInvInit, PTL DEF Spec

(* The variables keep their types.                                         *)
THEOREM PoolTypeCorrect == Spec => []PoolTypeOK
<1>1. PoolInv => PoolTypeOK
  BY DEF PoolInv, BaseInv
<1> QED BY <1>1, PoolInvariant, PTL

(* No task is lost between submit() and its end, ...                       *)
THEOREM PoolLosesNothing == Spec => []NothingLost
<1>1. PoolInv => NothingLost
  BY DEF PoolInv
<1> QED BY <1>1, PoolInvariant, PTL

(* ... and none is in two places.                                          *)
THEOREM PoolDoublesNothing == Spec => []NothingDoubled
<1>1. PoolInv => NothingDoubled
  BY DEF PoolInv
<1> QED BY <1>1, PoolInvariant, PTL

(* Workers never all leave while the queue holds a task.                   *)
THEOREM PoolIsServed == Spec => []SomeoneStays
<1>1. PoolInv => SomeoneStays
  BY DEF PoolInv
<1> QED BY <1>1, PoolInvariant, PTL

(* The destructor returns only when every submitted task has been run.     *)
LEMMA DrainedFollows == PoolInv => Drained
<1> SUFFICES ASSUME PoolInv, Worker # {}, ctl[Main] = "gone"
             PROVE  executed = submitted
  BY DEF Drained
<1> USE PoolConstants DEF PoolInv, BaseInv, PoolTypeOK, ControlInv
<1>1. \A w \in Worker : ctl[w] = "exited"
  OBVIOUS
<1>2. queue = <<>>
  BY <1>1 DEF SomeoneStays
<1>3. TasksRun = {}
  BY <1>1 DEF TasksRun
<1>4. CarriedItems = {}
  BY <1>1 DEF CarriedItems, Carried
<1>5. Queued = {}
  BY <1>2 DEF Queued
<1> QED BY <1>3, <1>4, <1>5 DEF NothingLost

THEOREM PoolDrains == Spec => []Drained
BY DrainedFollows, PoolInvariant, PTL

-----------------------------------------------------------------------------
(* The pool implements TaskPool, as far as safety goes.                    *)
PoolPending == submitted \ (executed \cup TasksRun)
PoolLife == IF ctl[Main] = "joining" THEN "closing"
            ELSE IF ctl[Main] = "gone" THEN "closed"
            ELSE "open"

LEMMA PoolKnows == PoolInv => Pool!Running = TasksRun /\ Pool!Known = submitted
<1> SUFFICES ASSUME PoolInv PROVE Pool!Running = TasksRun /\ Pool!Known = submitted
  OBVIOUS
<1>1. Pool!Running = TasksRun
  BY DEF Pool!Running, Pool!Busy, TasksRun
<1>2. Pool!Known = submitted
  BY <1>1 DEF Pool!Known, PoolInv, NothingLost
<1> QED BY <1>1, <1>2

LEMMA PoolSimulation ==
  ASSUME PoolInv, [Next]_vars, Worker # {}
  PROVE  Pool!TaskNext \/ UNCHANGED Pool!tvars
<1> USE PoolConstants DEF PoolInv, BaseInv, PoolTypeOK, ControlInv
<1>1. ASSUME NEW t \in Thread, NEW x \in Item, Submit(t, x) PROVE Pool!Submit(x)
  <2>1. x \in Item \ Pool!Known
    BY <1>1, PoolKnows DEF Submit
  <2>2. ctl[Main] = "open" \/ Pool!Busy # {}
    <3>1. CASE t = Main
      BY <1>1, <3>1 DEF Submit, MainStates
    <3>2. CASE t \in Worker
      BY <1>1, <3>2 DEF Submit, WorkerStates, Pool!Busy
    <3> QED BY <3>1, <3>2
  <2>3. UNCHANGED <<task, executed, ctl>> /\ submitted' = submitted \cup {x}
    BY <1>1 DEF Submit
  <2>4. PoolPending' = PoolPending \cup {x}
    BY <2>1, <2>3, PoolKnows DEF PoolPending, TasksRun, Pool!Known
  <2> QED BY <2>1, <2>2, <2>3, <2>4 DEF Pool!Submit, PoolPending
<1>2. ASSUME NEW w \in Worker, RunTask(w) PROVE Pool!Start(w, slot[w])
  <2>1. /\ slot[w] # NoItem
        /\ Carried(w) = slot[w]
        /\ task[w] = NoItem
        /\ task' = [task EXCEPT ![w] = slot[w]]
        /\ submitted' = submitted /\ executed' = executed /\ ctl'[Main] = ctl[Main]
    BY <1>2 DEF RunTask, Move, Carried
  <2>2. slot[w] \in CarriedItems
    BY <2>1 DEF CarriedItems
  <2>3. slot[w] \in PoolPending
    BY <2>2 DEF PoolPending, NothingLost, NothingDoubled
  <2>4. TasksRun' = TasksRun \cup {slot[w]}
    BY <2>1 DEF TasksRun
  <2>5. PoolPending' = PoolPending \ {slot[w]}
    BY <2>1, <2>4 DEF PoolPending
  <2> QED BY <2>1, <2>3, <2>5 DEF Pool!Start, PoolPending
<1>3. ASSUME NEW w \in Worker, FinishTask(w) PROVE Pool!Finish(w)
  <2>1. /\ task[w] # NoItem
        /\ task' = [task EXCEPT ![w] = NoItem]
        /\ executed' = executed \cup {task[w]}
        /\ submitted' = submitted /\ ctl'[Main] = ctl[Main]
    BY <1>3 DEF FinishTask, Move
  <2>2. TasksRun' = TasksRun \ {task[w]} /\ task[w] \in TasksRun
    BY <2>1 DEF TasksRun, NothingDoubled
  <2>3. PoolPending' = PoolPending
    BY <2>1, <2>2 DEF PoolPending
  <2> QED BY <2>1, <2>3 DEF Pool!Finish, PoolPending
<1>4. ASSUME RequestStop PROVE Pool!Close
  <2>1. UNCHANGED <<submitted, executed, task>> /\ ctl[Main] = "open" /\ ctl'[Main] = "joining"
    BY <1>4 DEF RequestStop, Move
  <2> QED BY <2>1 DEF Pool!Close, TasksRun
<1>5. ASSUME Joined PROVE Pool!Return
  <2>1. /\ UNCHANGED <<submitted, executed, task>>
        /\ ctl[Main] = "joining" /\ ctl'[Main] = "gone"
        /\ \A w \in Worker : ctl[w] = "exited"
    BY <1>5 DEF Joined, Move
  <2>2. Pool!Busy = {} /\ TasksRun = {}
    BY <2>1 DEF Pool!Busy, TasksRun
  <2>3. Queued = {} /\ CarriedItems = {}
    BY <2>1 DEF Queued, SomeoneStays, CarriedItems, Carried
  <2>4. PoolPending = {}
    BY <2>2, <2>3 DEF PoolPending, NothingLost
  <2> QED BY <2>1, <2>2, <2>4 DEF Pool!Return, PoolPending, TasksRun
<1>6. ASSUME NEW t \in Thread, InQueue(t) PROVE UNCHANGED Pool!tvars
  BY <1>6 DEF InQueue, pvars, Pool!tvars, TasksRun
<1>7. ASSUME NEW w \in Worker,
             \/ Create(w) \/ Arrive(w) \/ PassLatch(w) \/ CallPop(w) \/ NoTaskYet(w)
             \/ CheckStop(w) \/ CheckEmpty(w)
      PROVE  UNCHANGED Pool!tvars
  <2>1. UNCHANGED <<task, submitted, executed>> /\ ctl'[Main] = ctl[Main]
    BY <1>7 DEF Create, Arrive, PassLatch, CallPop, NoTaskYet, CheckStop, CheckEmpty, Move
  <2> QED BY <2>1 DEF Pool!tvars, TasksRun
<1>8. CASE Constructed \/ CreateFails \/ Unwound
  <2>1. UNCHANGED <<task, submitted, executed>> /\ PoolLife' = PoolLife
    BY <1>8 DEF Constructed, CreateFails, Unwound, Move, PoolLife
  <2> QED BY <2>1 DEF Pool!tvars, TasksRun, PoolLife
<1>9. CASE UNCHANGED vars
  BY <1>9 DEF vars, Pool!tvars, TasksRun
<1>10. ASSUME NEW w \in Worker, RunTask(w) PROVE slot[w] \in Item
  BY <1>10 DEF RunTask, QueueTypeOK
<1> QED
  BY <1>1, <1>2, <1>3, <1>4, <1>5, <1>6, <1>7, <1>8, <1>9, <1>10
     DEF Next, WorkerStep, Pool!TaskNext

(* A pool with at least one worker never runs a task that was not
   submitted or has been started before, and its destructor returns only
   with nothing pending and nobody busy.                                   *)
THEOREM PoolIsATaskPool ==
  ASSUME Worker # {}
  PROVE  Spec => SafelyATaskPool
<1>1. Init => Pool!TaskInit
  BY PoolConstants DEF Init, Pool!TaskInit, TasksRun
<1>2. PoolInv /\ [Next]_vars => [Pool!TaskNext]_(Pool!tvars)
  BY PoolSimulation
<1> QED BY <1>1, <1>2, PoolInvariant, PTL DEF Spec, SafelyATaskPool, Pool!Safe
=============================================================================
