----------------------------- MODULE TaskPool ------------------------------
(***************************************************************************)
(* What ThreadPool promises Crowler: every task that is submitted is run   *)
(* to its end exactly once by one of the workers, tasks submitted by       *)
(* running tasks included, and the destructor returns only when nothing is *)
(* left to run.  Nothing is promised about the order.                      *)
(***************************************************************************)
EXTENDS FiniteSets

CONSTANTS Worker,  \* the pool's threads
          Task,    \* the tasks that may be submitted
          NoTask   \* "not running anything"

VARIABLES
  pending,   \* submitted and not started
  running,   \* the task each worker runs
  finished,  \* the tasks that have run to their end
  life       \* of the pool: "open", "closing" in the destructor, "closed"

tvars == <<pending, running, finished, life>>

Busy == {w \in Worker : running[w] # NoTask}
Running == {running[w] : w \in Busy}
Known == pending \cup Running \cup finished

TaskInit ==
  /\ pending = {}
  /\ running = [w \in Worker |-> NoTask]
  /\ finished = {}
  /\ life = "open"

(* The owner submits while the pool is open, a running task at any time.   *)
Submit(x) ==
  /\ life = "open" \/ Busy # {}
  /\ x \in Task \ Known
  /\ pending' = pending \cup {x}
  /\ UNCHANGED <<running, finished, life>>

Start(w, x) ==
  /\ running[w] = NoTask
  /\ x \in pending
  /\ pending' = pending \ {x}
  /\ running' = [running EXCEPT ![w] = x]
  /\ UNCHANGED <<finished, life>>

Finish(w) ==
  /\ running[w] # NoTask
  /\ finished' = finished \cup {running[w]}
  /\ running' = [running EXCEPT ![w] = NoTask]
  /\ UNCHANGED <<pending, life>>

(* The destructor begins, and returns.                                     *)
Close ==
  /\ life = "open"
  /\ life' = "closing"
  /\ UNCHANGED <<pending, running, finished>>

Return ==
  /\ life = "closing"
  /\ pending = {}
  /\ Busy = {}
  /\ life' = "closed"
  /\ UNCHANGED <<pending, running, finished>>

TaskNext ==
  \/ \E x \in Task : Submit(x)
  \/ \E w \in Worker : Finish(w) \/ \E x \in Task : Start(w, x)
  \/ Close
  \/ Return

(* A submitted task is started, a started one ends, and then the
   destructor returns.                                                     *)
TaskFairness ==
  /\ \A x \in Task : WF_tvars(\E w \in Worker : Start(w, x))
  /\ \A w \in Worker : WF_tvars(Finish(w))
  /\ WF_tvars(Return)

Safe == TaskInit /\ [][TaskNext]_tvars
Spec == Safe /\ TaskFairness
=============================================================================
