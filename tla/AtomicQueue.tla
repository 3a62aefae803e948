---------------------------- MODULE AtomicQueue ----------------------------
(***************************************************************************)
(* What SafeQueue<T> promises its callers: a linearizable FIFO queue.      *)
(* Every call takes effect in one atomic step between its invocation and   *)
(* its return.  push() appends, pop() hands out the oldest element, or the *)
(* default-constructed T (NoItem) if the queue is empty at the moment the  *)
(* call takes effect.                                                      *)
(***************************************************************************)
EXTENDS Naturals, Sequences

CONSTANTS Thread,   \* the threads that call the queue
          Item,     \* the values of type T that are pushed
          NoItem    \* a default-constructed T

VARIABLES items,    \* the queue's content, oldest first
          phase,    \* how far each thread's call has come
          hand      \* argument of a push, result of a pop

vars == <<items, phase, hand>>

Init ==
  /\ items = <<>>
  /\ phase = [t \in Thread |-> "idle"]
  /\ hand = [t \in Thread |-> NoItem]

(* A thread invokes push(x) or pop().                                      *)
CallPush(t, x) ==
  /\ phase[t] = "idle"
  /\ phase' = [phase EXCEPT ![t] = "pushing"]
  /\ hand' = [hand EXCEPT ![t] = x]
  /\ UNCHANGED items

CallPop(t) ==
  /\ phase[t] = "idle"
  /\ phase' = [phase EXCEPT ![t] = "popping"]
  /\ hand' = [hand EXCEPT ![t] = NoItem]
  /\ UNCHANGED items

(* The call takes effect.                                                  *)
Put(t) ==
  /\ phase[t] = "pushing"
  /\ items' = Append(items, hand[t])
  /\ phase' = [phase EXCEPT ![t] = "returning"]
  /\ UNCHANGED hand

Get(t) ==
  /\ phase[t] = "popping"
  /\ items # <<>>
  /\ hand' = [hand EXCEPT ![t] = Head(items)]
  /\ items' = Tail(items)
  /\ phase' = [phase EXCEPT ![t] = "returning"]

Miss(t) ==
  /\ phase[t] = "popping"
  /\ items = <<>>
  /\ phase' = [phase EXCEPT ![t] = "returning"]
  /\ UNCHANGED <<items, hand>>

Return(t) ==
  /\ phase[t] = "returning"
  /\ phase' = [phase EXCEPT ![t] = "idle"]
  /\ UNCHANGED <<items, hand>>

Next ==
  \E t \in Thread :
    \/ \E x \in Item : CallPush(t, x)
    \/ CallPop(t)
    \/ Put(t)
    \/ Get(t)
    \/ Miss(t)
    \/ Return(t)

Spec == Init /\ [][Next]_vars
=============================================================================
