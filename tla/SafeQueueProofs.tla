-------------------------- MODULE SafeQueueProofs --------------------------
(***************************************************************************)
(* What is proved of SafeQueue for any number of threads that call it at   *)
(* will, any items and a queue of any length.                              *)
(***************************************************************************)
EXTENDS SafeQueue, TLAPS

(* A thread is in a critical step exactly while it holds the mutex.        *)
MutexHeld == \A t \in Thread : op[t] \in Critical <=> owner = t

(* The flag mirrors the queue except inside the two windows.               *)
FlagMirrors ==
  /\ (\A t \in Thread : op[t] \notin {"clear", "mark"}) => (emptyFlag <=> queue = <<>>)
  /\ \A t \in Thread : op[t] = "clear" => queue # <<>>
  /\ \A t \in Thread : op[t] \in {"take", "mark"} => ~emptyFlag

(* A push in progress has an item, a pop has none before it takes one.     *)
SlotMatchesOp ==
  /\ \A t \in Thread : op[t] \in {"enqueue", "mark"} => slot[t] \in Item
  /\ \A t \in Thread :
       op[t] \in {"test", "waiting", "woken", "expired", "lastTest", "take"}
         => slot[t] = NoItem

QueueInv == QueueTypeOK /\ MutexHeld /\ FlagMirrors /\ SlotMatchesOp

-----------------------------------------------------------------------------
(* The queue starts in the invariant.                                      *)
LEMMA QueueInvInit == QueueInit => QueueInv
BY QueueConstants
   DEF QueueInit, QueueInv, QueueTypeOK, MutexHeld, FlagMirrors, SlotMatchesOp,
       Ops, Critical

(* front() is never called on an empty std::queue: the thread about to take
   holds the mutex, so no other thread is inside one of the two windows in
   which the flag may lie.                                                 *)
LEMMA TakeFindsItem == QueueInv => NeverTakeFromEmpty
BY DEF QueueInv, MutexHeld, FlagMirrors, NeverTakeFromEmpty, Critical

(* What empty() may answer, from the invariant.                            *)
LEMMA FlagIsTruthful == QueueInv => FlagTruthful
<1> SUFFICES ASSUME QueueInv PROVE FlagTruthful
  OBVIOUS
<1> USE DEF QueueInv, MutexHeld, FlagMirrors, Critical, QueueTypeOK
<1>1. owner = NoThread => (emptyFlag <=> queue = <<>>)
  BY QueueConstants
<1>2. emptyFlag /\ queue # <<>> => \E t \in Thread : op[t] = "clear"
  OBVIOUS
<1>3. ~emptyFlag /\ queue = <<>> => \E t \in Thread : op[t] = "mark"
  OBVIOUS
<1> QED BY <1>1, <1>2, <1>3 DEF FlagTruthful

-----------------------------------------------------------------------------
(* The invariant is preserved by a call and by every step inside a call.   *)
LEMMA QueueCallInv ==
  ASSUME QueueInv, NEW t \in Thread, QueueCall(t)
  PROVE  QueueInv'
<1> USE QueueConstants
    DEF QueueInv, QueueTypeOK, MutexHeld, FlagMirrors, SlotMatchesOp, Ops,
        Critical, Goto, Acquire
<1>1. CASE PopLock(t)
  BY <1>1 DEF PopLock
<1>2. ASSUME NEW x \in Item, PushLock(t, x) PROVE QueueInv'
  BY <1>2 DEF PushLock
<1> QED BY <1>1, <1>2 DEF QueueCall

LEMMA PushStepInv ==
  ASSUME QueueInv, NEW t \in Thread, PushStep(t)
  PROVE  QueueInv'
<1> USE QueueConstants
    DEF QueueInv, QueueTypeOK, MutexHeld, FlagMirrors, SlotMatchesOp, Ops,
        Critical, Goto
<1>1. CASE PushEnqueue(t)
  BY <1>1 DEF PushEnqueue
<1>2. CASE PushClear(t)
  BY <1>2 DEF PushClear
<1>3. CASE PushUnlock(t)
  BY <1>3 DEF PushUnlock
<1>4. CASE PushNotify(t)
  BY <1>4 DEF PushNotify
<1> QED BY <1>1, <1>2, <1>3, <1>4 DEF PushStep

LEMMA PopStepInv ==
  ASSUME QueueInv, NEW t \in Thread, PopStep(t) \/ PopSpurious(t)
  PROVE  QueueInv'
<1> USE QueueConstants
    DEF QueueInv, QueueTypeOK, MutexHeld, FlagMirrors, SlotMatchesOp, Ops,
        Critical, Goto, Acquire
<1>1. CASE PopReady(t)
  BY <1>1 DEF PopReady
<1>2. CASE PopWait(t)
  BY <1>2 DEF PopWait
<1>3. CASE PopGiveUp(t)
  BY <1>3 DEF PopGiveUp
<1>4. CASE PopSpurious(t)
  BY <1>4 DEF PopSpurious
<1>5. CASE PopTimeout(t)
  BY <1>5 DEF PopTimeout
<1>6. CASE PopRelock(t)
  BY <1>6 DEF PopRelock
<1>7. CASE PopTake(t)
  BY <1>7 DEF PopTake
<1>8. CASE PopMark(t)
  BY <1>8 DEF PopMark
<1>9. CASE PopUnlock(t)
  BY <1>9 DEF PopUnlock
<1> QED BY <1>1, <1>2, <1>3, <1>4, <1>5, <1>6, <1>7, <1>8, <1>9 DEF PopStep

LEMMA QueueStepInv ==
  ASSUME QueueInv, NEW t \in Thread, QueueStep(t)
  PROVE  QueueInv'
BY PushStepInv, PopStepInv DEF QueueStep

-----------------------------------------------------------------------------
(* The strengthening is an invariant of every use of the queue.            *)
LEMMA QueueNextInv == QueueInv /\ [QueueNext]_qvars => QueueInv'
<1> SUFFICES ASSUME QueueInv, [QueueNext]_qvars PROVE QueueInv'
  OBVIOUS
<1>1. ASSUME NEW t \in Thread, QueueCall(t) PROVE QueueInv'
  BY <1>1, QueueCallInv
<1>2. ASSUME NEW t \in Thread, QueueStep(t) PROVE QueueInv'
  BY <1>2, QueueStepInv
<1>3. CASE UNCHANGED qvars
  BY <1>3 DEF qvars, QueueInv, QueueTypeOK, MutexHeld, FlagMirrors, SlotMatchesOp
<1> QED BY <1>1, <1>2, <1>3 DEF QueueNext

LEMMA QueueInvariant == QueueSpec => []QueueInv
BY QueueInvInit, QueueNextInv, PTL DEF QueueSpec

(* The variables keep their types.                                         *)
THEOREM QueueTypeCorrect == QueueSpec => []QueueTypeOK
<1>1. QueueInv => QueueTypeOK
  BY DEF QueueInv
<1> QED BY <1>1, QueueInvariant, PTL

(* pop() never takes from an empty std::queue.                             *)
THEOREM TakeIsDefined == QueueSpec => []NeverTakeFromEmpty
BY QueueInvariant, TakeFindsItem, PTL

(* empty() is right between calls, and inside a call wrong only in the
   window of a push.                                                       *)
THEOREM FlagCorrect == QueueSpec => []FlagTruthful
BY QueueInvariant, FlagIsTruthful, PTL

-----------------------------------------------------------------------------
(* The initial state is one of AtomicQueue.                                *)
LEMMA AtomicInit == QueueInit => Atomic!Init
BY DEF QueueInit, Atomic!Init, Phase

(* A call or a step inside a call is the abstract step it stands for, or
   none.                                                                   *)
LEMMA AtomicCall ==
  ASSUME QueueInv, NEW t \in Thread, QueueCall(t)
  PROVE  Atomic!Next
<1> USE DEF QueueInv, QueueTypeOK, Ops, Goto, Phase, Returning
<1>1. ASSUME NEW x \in Item, PushLock(t, x) PROVE Atomic!CallPush(t, x)
  BY <1>1 DEF PushLock, Atomic!CallPush
<1>2. CASE PopLock(t)
  <2>1. Atomic!CallPop(t)
    BY <1>2 DEF PopLock, Atomic!CallPop
  <2> QED BY <2>1 DEF Atomic!Next
<1> QED BY <1>1, <1>2 DEF QueueCall, Atomic!Next

LEMMA AtomicPush ==
  ASSUME QueueInv, NEW t \in Thread, PushStep(t)
  PROVE  Atomic!Next \/ UNCHANGED Atomic!vars
<1> USE DEF QueueInv, QueueTypeOK, Ops, Goto, Phase, Returning
<1>1. CASE PushEnqueue(t)
  <2>1. Atomic!Put(t)
    BY <1>1 DEF PushEnqueue, Atomic!Put
  <2> QED BY <2>1 DEF Atomic!Next
<1>2. CASE PushClear(t)
  BY <1>2 DEF PushClear, Atomic!vars
<1>3. CASE PushUnlock(t)
  BY <1>3 DEF PushUnlock, Atomic!vars
<1>4. CASE PushNotify(t)
  <2>1. Atomic!Return(t)
    BY <1>4 DEF PushNotify, Atomic!Return
  <2> QED BY <2>1 DEF Atomic!Next
<1> QED BY <1>1, <1>2, <1>3, <1>4 DEF PushStep

(* A pop that gives up really found the queue empty, and one that takes
   found its oldest item.                                                  *)
LEMMA AtomicPop ==
  ASSUME QueueInv, NEW t \in Thread, PopStep(t) \/ PopSpurious(t)
  PROVE  Atomic!Next \/ UNCHANGED Atomic!vars
<1> USE DEF QueueInv, QueueTypeOK, Ops, Goto, Phase, Returning
<1>1. CASE PopReady(t)
  BY <1>1 DEF PopReady, Atomic!vars
<1>2. CASE PopWait(t)
  BY <1>2 DEF PopWait, Atomic!vars
<1>3. CASE PopGiveUp(t)
  <2>1. \A u \in Thread : op[u] \notin {"clear", "mark"}
    BY <1>3 DEF PopGiveUp, MutexHeld, Critical
  <2>2. queue = <<>>
    BY <1>3, <2>1 DEF PopGiveUp, FlagMirrors
  <2>3. Atomic!Miss(t)
    BY <1>3, <2>2 DEF PopGiveUp, Atomic!Miss
  <2> QED BY <2>3 DEF Atomic!Next
<1>4. CASE PopSpurious(t)
  BY <1>4 DEF PopSpurious, Atomic!vars
<1>5. CASE PopTimeout(t)
  BY <1>5 DEF PopTimeout, Atomic!vars
<1>6. CASE PopRelock(t)
  BY <1>6 DEF PopRelock, Atomic!vars
<1>7. CASE PopTake(t)
  <2>1. queue # <<>>
    BY <1>7, TakeFindsItem DEF PopTake, NeverTakeFromEmpty
  <2>2. Atomic!Get(t)
    BY <1>7, <2>1 DEF PopTake, Atomic!Get
  <2> QED BY <2>2 DEF Atomic!Next
<1>8. CASE PopMark(t)
  BY <1>8 DEF PopMark, Atomic!vars
<1>9. CASE PopUnlock(t)
  <2>1. Atomic!Return(t)
    BY <1>9 DEF PopUnlock, Atomic!Return
  <2> QED BY <2>1 DEF Atomic!Next
<1> QED BY <1>1, <1>2, <1>3, <1>4, <1>5, <1>6, <1>7, <1>8, <1>9 DEF PopStep

(* SafeQueue is a linearizable FIFO queue.                                 *)
THEOREM QueueIsLinearizable == QueueSpec => Linearizable
<1>1. QueueInv /\ [QueueNext]_qvars => [Atomic!Next]_(Atomic!vars)
  <2> SUFFICES ASSUME QueueInv, [QueueNext]_qvars
               PROVE  Atomic!Next \/ UNCHANGED Atomic!vars
    OBVIOUS
  <2>1. ASSUME NEW t \in Thread, QueueCall(t) PROVE Atomic!Next
    BY <2>1, AtomicCall
  <2>2. ASSUME NEW t \in Thread, QueueStep(t)
        PROVE  Atomic!Next \/ UNCHANGED Atomic!vars
    BY <2>2, AtomicPush, AtomicPop DEF QueueStep
  <2>3. CASE UNCHANGED qvars
    BY <2>3 DEF qvars, Atomic!vars, Phase
  <2> QED BY <2>1, <2>2, <2>3 DEF QueueNext
<1> QED BY <1>1, AtomicInit, QueueInvariant, PTL DEF QueueSpec, Linearizable, Atomic!Spec
=============================================================================
