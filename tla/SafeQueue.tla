----------------------------- MODULE SafeQueue -----------------------------
(***************************************************************************)
(* SafeQueue<T> (_sources/safe_queue): a std::queue behind a mutex, a      *)
(* condition variable with a timed wait, and an atomic flag that mirrors   *)
(* emptiness so that empty() can be answered without the mutex.            *)
(*                                                                         *)
(* A call is a sequence of steps of its thread, one per access to shared   *)
(* state, so that the steps of concurrent calls interleave as they may in  *)
(* the program.  Calling and acquiring the mutex is one step: nothing the  *)
(* caller does before it owns the mutex is visible to anyone.              *)
(***************************************************************************)
EXTENDS Naturals, Sequences

CONSTANTS Thread,     \* the threads that call the queue
          NoThread,   \* "nobody holds the mutex"
          Item,       \* the values of type T that are pushed
          NoItem      \* a default-constructed T

ASSUME QueueConstants == NoThread \notin Thread /\ NoItem \notin Item

VARIABLES
  queue,      \* _queue
  emptyFlag,  \* _empty
  owner,      \* holder of _m
  op,         \* next step of the call each thread is in, "idle" outside calls
  slot        \* the call's local: obj in push(), tmp in pop()

qvars == <<queue, emptyFlag, owner, op, slot>>

-----------------------------------------------------------------------------
(* SafeQueue::SafeQueue.                                                   *)
QueueInit ==
  /\ queue = <<>>
  /\ emptyFlag = TRUE
  /\ owner = NoThread
  /\ op = [t \in Thread |-> "idle"]
  /\ slot = [t \in Thread |-> NoItem]

Goto(t, from, to) ==
  /\ op[t] = from
  /\ op' = [op EXCEPT ![t] = to]

Acquire(t) ==
  /\ owner = NoThread
  /\ owner' = t

-----------------------------------------------------------------------------
(* push(): everything but the notification happens under the mutex.        *)
PushLock(t, obj) ==
  /\ Goto(t, "idle", "enqueue")
  /\ Acquire(t)
  /\ slot' = [slot EXCEPT ![t] = obj]
  /\ UNCHANGED <<queue, emptyFlag>>

(* Slip: the task is pushed after it has been moved from.                  *)
EnqueueMovedFrom(t) ==
  /\ Goto(t, "enqueue", "clear")
  /\ queue' = Append(queue, NoItem)
  /\ UNCHANGED <<emptyFlag, owner, slot>>

PushEnqueue(t) ==
  /\ Goto(t, "enqueue", "clear")
  /\ queue' = Append(queue, slot[t])
  /\ UNCHANGED <<emptyFlag, owner, slot>>

(* Slip: push() forgets the flag.                                          *)
ClearNothing(t) ==
  /\ Goto(t, "clear", "release")
  /\ UNCHANGED <<queue, emptyFlag, owner, slot>>

PushClear(t) ==
  /\ Goto(t, "clear", "release")
  /\ emptyFlag' = FALSE
  /\ UNCHANGED <<queue, owner, slot>>

PushUnlock(t) ==
  /\ Goto(t, "release", "notify")
  /\ owner' = NoThread
  /\ UNCHANGED <<queue, emptyFlag, slot>>

(* notify_all: every thread now in the condition variable is woken.        *)
PushNotify(t) ==
  /\ op[t] = "notify"
  /\ op' = [u \in Thread |-> IF u = t THEN "idle"
                             ELSE IF op[u] = "waiting" THEN "woken"
                             ELSE op[u]]
  /\ UNCHANGED <<queue, emptyFlag, owner, slot>>

-----------------------------------------------------------------------------
(* pop(): wait_for(ul, 1s, pred) tests pred, sleeps with the mutex         *)
(* released, and tests again whenever it wakes; once the second is over it *)
(* tests a last time and gives up.                                         *)
PopLock(t) ==
  /\ Goto(t, "idle", "test")
  /\ Acquire(t)
  /\ slot' = [slot EXCEPT ![t] = NoItem]
  /\ UNCHANGED <<queue, emptyFlag>>

PopReady(t) ==
  /\ op[t] \in {"test", "lastTest"}
  /\ ~emptyFlag
  /\ op' = [op EXCEPT ![t] = "take"]
  /\ UNCHANGED <<queue, emptyFlag, owner, slot>>

PopWait(t) ==
  /\ emptyFlag
  /\ Goto(t, "test", "waiting")
  /\ owner' = NoThread
  /\ UNCHANGED <<queue, emptyFlag, slot>>

PopGiveUp(t) ==
  /\ emptyFlag
  /\ Goto(t, "lastTest", "unlock")
  /\ UNCHANGED <<queue, emptyFlag, owner, slot>>

(* A wait may end without a notification.                                  *)
PopSpurious(t) ==
  /\ Goto(t, "waiting", "woken")
  /\ UNCHANGED <<queue, emptyFlag, owner, slot>>

(* Slip: wait() instead of wait_for().                                     *)
NeverExpires(t) == Goto(t, "waiting", "expired") /\ FALSE

PopTimeout(t) ==
  /\ Goto(t, "waiting", "expired")
  /\ UNCHANGED <<queue, emptyFlag, owner, slot>>

(* Slip: the predicate is not tested again after a wake-up.                *)
RelockAndTake(t) ==
  /\ \/ Goto(t, "woken", "take")
     \/ Goto(t, "expired", "lastTest")
  /\ Acquire(t)
  /\ UNCHANGED <<queue, emptyFlag, slot>>

(* Slip: an expired wait gives up without a last test.                     *)
RelockAndGiveUp(t) ==
  /\ \/ Goto(t, "woken", "test")
     \/ Goto(t, "expired", "unlock")
  /\ Acquire(t)
  /\ UNCHANGED <<queue, emptyFlag, slot>>

PopRelock(t) ==
  /\ \/ Goto(t, "woken", "test")
     \/ Goto(t, "expired", "lastTest")
  /\ Acquire(t)
  /\ UNCHANGED <<queue, emptyFlag, slot>>

(* Slip: front() without pop().                                            *)
TakeCopy(t) ==
  /\ Goto(t, "take", "mark")
  /\ slot' = [slot EXCEPT ![t] = Head(queue)]
  /\ UNCHANGED <<queue, emptyFlag, owner>>

(* front() and pop() of an empty std::queue are undefined: NeverTakeFromEmpty
   below says that this step is never reached with an empty queue.         *)
PopTake(t) ==
  /\ Goto(t, "take", "mark")
  /\ slot' = [slot EXCEPT ![t] = Head(queue)]
  /\ queue' = Tail(queue)
  /\ UNCHANGED <<emptyFlag, owner>>

(* Slip: pop() forgets the flag.                                           *)
MarkNothing(t) ==
  /\ Goto(t, "mark", "unlock")
  /\ UNCHANGED <<queue, emptyFlag, owner, slot>>

PopMark(t) ==
  /\ Goto(t, "mark", "unlock")
  /\ emptyFlag' = (emptyFlag \/ queue = <<>>)
  /\ UNCHANGED <<queue, owner, slot>>

PopUnlock(t) ==
  /\ Goto(t, "unlock", "idle")
  /\ owner' = NoThread
  /\ UNCHANGED <<queue, emptyFlag, slot>>

(* empty(): one atomic read, no mutex.                                     *)
Empty == emptyFlag

-----------------------------------------------------------------------------
(* The steps of a thread inside a call.                                    *)
PushStep(t) == PushEnqueue(t) \/ PushClear(t) \/ PushUnlock(t) \/ PushNotify(t)
PopStep(t) == \/ PopReady(t) \/ PopWait(t) \/ PopGiveUp(t) \/ PopTimeout(t)
              \/ PopRelock(t) \/ PopTake(t) \/ PopMark(t) \/ PopUnlock(t)

QueueStep(t) == PushStep(t) \/ PopStep(t) \/ PopSpurious(t)

(* Threads that call whenever they like, and whatever they push.           *)
QueueCall(t) == PopLock(t) \/ \E x \in Item : PushLock(t, x)

QueueNext == \E t \in Thread : QueueCall(t) \/ QueueStep(t)

QueueSpec == QueueInit /\ [][QueueNext]_qvars

-----------------------------------------------------------------------------
Ops == {"idle", "enqueue", "clear", "release", "notify", "test", "lastTest",
        "take", "mark", "unlock", "waiting", "woken", "expired"}

(* The steps that run with the mutex held.                                 *)
Critical == {"enqueue", "clear", "release", "test", "lastTest", "take", "mark",
             "unlock"}

QueueTypeOK ==
  /\ queue \in Seq(Item)
  /\ emptyFlag \in BOOLEAN
  /\ owner \in Thread \cup {NoThread}
  /\ op \in [Thread -> Ops]
  /\ slot \in [Thread -> Item \cup {NoItem}]

(* pop() never calls front() on an empty std::queue, however many waiters
   one notify_all wakes for one element (safe_queue.cpp:25-28).            *)
NeverTakeFromEmpty == \A t \in Thread : op[t] = "take" => queue # <<>>

(* Between calls the flag that empty() reads tells the truth, and it is
   wrong inside a call only in the one direction push() opens between
   _queue.push and _empty.clear, or pop() between _queue.pop and
   test_and_set (safe_queue.cpp:14-15, 28-31).                             *)
FlagTruthful ==
  /\ owner = NoThread => (emptyFlag <=> queue = <<>>)
  /\ emptyFlag /\ queue # <<>> => \E t \in Thread : op[t] = "clear"
  /\ ~emptyFlag /\ queue = <<>> => \E t \in Thread : op[t] = "mark"

-----------------------------------------------------------------------------
(* The call of thread t seen from outside.                                 *)
Returning == {"clear", "release", "notify", "mark", "unlock"}

Phase(t) == IF op[t] = "idle" THEN "idle"
            ELSE IF op[t] = "enqueue" THEN "pushing"
            ELSE IF op[t] \in Returning THEN "returning"
            ELSE "popping"

(* SafeQueue is linearizable: push takes effect at _queue.push, pop at
   _queue.pop or, when it returns a default T, at its last test of the
   flag, where the queue itself and not only the flag must be empty.       *)
Atomic == INSTANCE AtomicQueue
            WITH items <- queue, phase <- [t \in Thread |-> Phase(t)], hand <- slot

Linearizable == Atomic!Spec
=============================================================================
