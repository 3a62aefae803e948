-------------------------- MODULE SafeQueueClients --------------------------
(***************************************************************************)
(* QueueSpec of SafeQueue, its calls so limited that the states can be     *)
(* enumerated: MaxLength bounds the queue, which the program does not.     *)
(***************************************************************************)
EXTENDS SafeQueue

CONSTANT MaxLength

ASSUME MaxLengthAssumption == MaxLength \in Nat

Call(t) ==
  \/ Len(queue) < MaxLength /\ \E x \in Item : PushLock(t, x)
  \/ PopLock(t)

Next == \E t \in Thread : Call(t) \/ QueueStep(t)

Spec == QueueInit /\ [][Next]_qvars
=============================================================================
