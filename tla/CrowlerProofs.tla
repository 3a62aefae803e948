--------------------------- MODULE CrowlerProofs ---------------------------
(***************************************************************************)
(* What is proved of the crawler program for any web, any depth, any       *)
(* number of workers and any of the faults.                                *)
(***************************************************************************)
EXTENDS Crowler, FiniteSetTheorems, TLAPS

(* A worker holds a visit exactly while it is in parseOnePage, and in the
   loop over the links the visit is one whose links count.                 *)
ControlInv ==
  /\ \A w \in Worker : running[w] = NoTask <=> pc[w] = "idle"
  /\ \A w \in Worker : pc[w] = "send" => running[w].depth > 1

(* The pool while main() goes on: empty before start(), open until the
   destructor, empty again once it has returned.                           *)
LifeInv ==
  /\ mpc = "configure" => Known = {}
  /\ mpc \notin {"draining", "gone"} => life = "open"
  /\ life = "closed" => pending = {} /\ \A w \in Worker : running[w] = NoTask
  /\ mpc = "gone" => life = "closed"

BaseInv == CrowlerTypeOK /\ ControlInv /\ LifeInv

CrowlerInv == BaseInv /\ WorkingExact /\ EveryVisitOnTrail

-----------------------------------------------------------------------------
(* What a step of the pool does to the set of known visits: submit() adds
   one, nothing removes any.                                               *)
LEMMA KnownAfterSubmit ==
  ASSUME CrowlerTypeOK, NEW x \in Visit, Pool!Submit(x)
  PROVE  Known' = Known \cup {x}
BY DEF Pool!Submit, Known

LEMMA KnownAfterStart ==
  ASSUME CrowlerTypeOK, NEW w \in Worker, NEW x \in pending, Pool!Start(w, x)
  PROVE  Known' = Known
<1>1. x # NoTask /\ running \in [Worker -> Visit \cup {NoTask}]
  BY NoTaskIsNoVisit DEF CrowlerTypeOK
<1>2. running[w] = NoTask /\ running' = [running EXCEPT ![w] = x]
      /\ pending' = pending \ {x} /\ finished' = finished
  BY DEF Pool!Start
<1>3. \A u \in Worker : running'[u] = IF u = w THEN x ELSE running[u]
  BY <1>1, <1>2
<1>4. {running'[u] : u \in {v \in Worker : running'[v] # NoTask}}
       = {running[u] : u \in {v \in Worker : running[v] # NoTask}} \cup {x}
  BY <1>1, <1>2, <1>3
<1> QED BY <1>2, <1>4 DEF Known

LEMMA KnownAfterFinish ==
  ASSUME CrowlerTypeOK, NEW w \in Worker, Pool!Finish(w)
  PROVE  Known' = Known
<1>1. running \in [Worker -> Visit \cup {NoTask}]
  BY DEF CrowlerTypeOK
<1>2. running[w] # NoTask /\ running' = [running EXCEPT ![w] = NoTask]
      /\ pending' = pending /\ finished' = finished \cup {running[w]}
  BY DEF Pool!Finish
<1>3. \A u \in Worker : running'[u] = IF u = w THEN NoTask ELSE running[u]
  BY <1>1, <1>2
<1>4. {running[u] : u \in {v \in Worker : running[v] # NoTask}}
       = {running'[u] : u \in {v \in Worker : running'[v] # NoTask}} \cup {running[w]}
  BY <1>1, <1>2, <1>3
<1> QED BY <1>2, <1>4 DEF Known

LEMMA KnownAfterNothing ==
  ASSUME UNCHANGED <<pending, running, finished>>
  PROVE  Known' = Known
BY DEF Known

LEMMA RunningVisit ==
  ASSUME BaseInv, NEW w \in Worker, pc[w] # "idle"
  PROVE  running[w] \in Visit /\ running[w] \in Known
<1>1. running[w] # NoTask /\ running \in [Worker -> Visit \cup {NoTask}]
  BY DEF BaseInv, ControlInv, CrowlerTypeOK
<1> QED BY <1>1 DEF Known

LEMMA ChildIsVisit ==
  ASSUME NEW v \in Visit, NEW n \in Nat, n \in DOMAIN Web[v.url].links
  PROVE  Child(v, n) \in Visit
<1>1. Web[v.url].links \in Seq(Url) /\ v.trail \in Seq([page : Url, nth : Nat])
  BY CrowlerConstants DEF Visit, Trail
<1>2. Append(v.trail, [page |-> v.url, nth |-> n]) \in Seq([page : Url, nth : Nat])
  BY <1>1 DEF Visit
<1> QED BY <1>1, <1>2 DEF Child, Visit, Trail

-----------------------------------------------------------------------------
LEMMA BaseInvInit == Init => BaseInv
BY CrowlerConstants
   DEF Init, Pool!TaskInit, BaseInv, CrowlerTypeOK, ControlInv, LifeInv, Known

(* Every step of a worker other than taking and returning a visit leaves
   the pool alone or submits a child of the worker's visit.                *)
LEMMA SubmittedIsChild ==
  ASSUME BaseInv, NEW w \in Worker, FetchRedirect(w) \/ SendLink(w)
  PROVE  \/ UNCHANGED tvars
         \/ /\ running[w].depth > 1
            /\ \E n \in Nat : /\ n \in DOMAIN Page(w).links
                              /\ Child(running[w], n) \in Visit
                              /\ Pool!Submit(Child(running[w], n))
<1>1. pc[w] # "idle"
  BY DEF FetchRedirect, SendLink, Goto
<1>2. running[w] \in Visit
  BY <1>1, RunningVisit
<1>3. Page(w).links \in Seq(Url) /\ running[w].url \in Url
  BY <1>2, CrowlerConstants DEF Page, Visit
<1>4. CASE FetchRedirect(w)
  <2>1. 1 \in DOMAIN Page(w).links
    BY <1>2, <1>3, <1>4, CrowlerConstants DEF FetchRedirect, Page
  <2>2. Child(running[w], 1) \in Visit
    BY <1>2, <2>1, ChildIsVisit DEF Page
  <2> QED BY <1>4, <2>1, <2>2 DEF FetchRedirect
<1>5. CASE SendLink(w)
  <2>1. sent[w] + 1 \in Nat /\ sent[w] + 1 \in DOMAIN Page(w).links
    BY <1>3, <1>5 DEF SendLink, BaseInv, CrowlerTypeOK
  <2>2. Child(running[w], sent[w] + 1) \in Visit
    BY <1>2, <2>1, ChildIsVisit DEF Page
  <2>3. running[w].depth > 1
    BY <1>5 DEF SendLink, BaseInv, ControlInv
  <2> QED BY <1>5, <2>1, <2>2, <2>3 DEF SendLink
<1> QED BY <1>4, <1>5

LEMMA TypeStep == BaseInv /\ [Next]_vars => CrowlerTypeOK'
<1> SUFFICES ASSUME BaseInv, [Next]_vars PROVE CrowlerTypeOK'
  OBVIOUS
<1> USE DEF BaseInv, CrowlerTypeOK
<1>1. ASSUME NEW d \in Depths, Start(d) PROVE CrowlerTypeOK'
  <2>1. [url |-> StartUrl, depth |-> d, trail |-> <<>>] \in Visit
    BY <1>1, CrowlerConstants DEF Visit, Trail
  <2> QED BY <1>1, <2>1, CrowlerConstants DEF Start, Pool!Submit
<1>2. CASE (\E d \in Depths : RejectDepth(d)) \/ Announce \/ DestroyPool
           \/ PoolDestroyed \/ DestroyFields
  BY <1>2 DEF RejectDepth, Announce, DestroyPool, PoolDestroyed, DestroyFields,
              Pool!Close, Pool!Return, tvars
<1>3. ASSUME NEW w \in Worker, NEW v \in pending, Take(w, v) PROVE CrowlerTypeOK'
  BY <1>3 DEF Take, Goto, Pool!Start
<1>4. ASSUME NEW w \in Worker, VisitStep(w) PROVE CrowlerTypeOK'
  <2>1. CASE FetchRedirect(w) \/ SendLink(w)
    <3>1. pending' \subseteq Visit /\ UNCHANGED <<running, finished, life>>
      BY <2>1, SubmittedIsChild DEF Pool!Submit, tvars
    <3>2. CASE FetchRedirect(w)
      BY <3>1, <3>2 DEF FetchRedirect, Goto, Counted
    <3>3. CASE SendLink(w)
      <4>1. sent' \in [Worker -> Nat]
        BY <3>3 DEF SendLink
      <4> QED BY <3>1, <3>3, <4>1 DEF SendLink
    <3> QED BY <2>1, <3>2, <3>3
  <2>2. CASE Enter(w) \/ Malformed(w) \/ FetchPage(w) \/ Drop(w) \/ Extract(w)
             \/ LastLevel(w) \/ AllSent(w) \/ Leave(w)
    BY <2>2 DEF Enter, Malformed, FetchPage, Drop, Extract, LastLevel, AllSent, Leave,
                Goto, Counted, tvars
  <2>3. CASE FetchNothing(w) \/ Hang(w) \/ ExtractThrows(w) \/ StoreFails(w)
    <3>1. pc[w] # "idle" /\ UNCHANGED tvars
      BY <2>3 DEF FetchNothing, Hang, ExtractThrows, StoreFails, Goto
    <3>2. running[w] \in Visit
      BY <3>1, RunningVisit
    <3>3. UNCHANGED failed \/ \E f \in AllFaults :
            failed' = failed \cup {[visit |-> running[w], fault |-> f]}
      BY <2>3, CrowlerConstants
         DEF FetchNothing, Hang, ExtractThrows, StoreFails, Fail, AllFaults
    <3>4. failed' \subseteq [visit : Visit, fault : AllFaults]
      BY <3>2, <3>3
    <3> QED BY <2>3, <3>1, <3>4
            DEF FetchNothing, Hang, ExtractThrows, StoreFails, Goto, Counted, tvars
  <2>4. CASE Store(w)
    <3>1. running[w] \in Visit
      BY <2>4, RunningVisit DEF Store, Goto
    <3> QED BY <2>4, <3>1 DEF Store, Goto, Counted, tvars, Visit
  <2>5. CASE Return(w)
    <3>1. running[w] \in Visit
      BY <2>5, RunningVisit DEF Return, Goto
    <3> QED BY <2>5, <3>1 DEF Return, Goto, Pool!Finish
  <2> QED BY <1>4, <2>1, <2>2, <2>3, <2>4, <2>5 DEF VisitStep
<1>5. CASE UNCHANGED vars
  BY <1>5 DEF vars
<1> QED BY <1>1, <1>2, <1>3, <1>4, <1>5 DEF Next, MainStep

LEMMA ControlStep == BaseInv /\ [Next]_vars => ControlInv'
<1> SUFFICES ASSUME BaseInv, [Next]_vars PROVE ControlInv'
  OBVIOUS
<1> USE DEF BaseInv, CrowlerTypeOK, ControlInv
<1>1. CASE MainStep
  BY <1>1 DEF MainStep, Start, RejectDepth, Announce, DestroyPool, PoolDestroyed,
              DestroyFields, Pool!Submit, Pool!Close, Pool!Return, tvars
<1>2. ASSUME NEW w \in Worker, NEW v \in pending, Take(w, v) PROVE ControlInv'
  <2>1. v # NoTask
    BY NoTaskIsNoVisit
  <2> QED BY <1>2, <2>1 DEF Take, Goto, Pool!Start
<1>3. ASSUME NEW w \in Worker, VisitStep(w) PROVE ControlInv'
  <2>1. CASE FetchRedirect(w)
    <3>1. UNCHANGED running
      BY <2>1, SubmittedIsChild DEF Pool!Submit, tvars
    <3> QED BY <2>1, <3>1 DEF FetchRedirect, Goto
  <2>2. CASE SendLink(w)
    <3>1. UNCHANGED running
      BY <2>2, SubmittedIsChild DEF Pool!Submit, tvars
    <3> QED BY <2>2, <3>1 DEF SendLink
  <2>3. CASE Enter(w) \/ Malformed(w) \/ FetchPage(w) \/ Drop(w) \/ Extract(w)
             \/ LastLevel(w) \/ AllSent(w) \/ Leave(w)
    BY <2>3 DEF Enter, Malformed, FetchPage, Drop, Extract, LastLevel, AllSent, Leave,
                Goto, tvars
  <2>4. CASE FetchNothing(w) \/ Hang(w) \/ ExtractThrows(w) \/ Store(w) \/ StoreFails(w)
    BY <2>4 DEF FetchNothing, Hang, ExtractThrows, Store, StoreFails, Goto, tvars
  <2>5. CASE Return(w)
    BY <2>5 DEF Return, Goto, Pool!Finish
  <2> QED BY <1>3, <2>1, <2>2, <2>3, <2>4, <2>5 DEF VisitStep
<1>4. CASE UNCHANGED vars
  BY <1>4 DEF vars
<1> QED BY <1>1, <1>2, <1>3, <1>4 DEF Next

(* Where the known visits of the next state come from.                     *)
LEMMA KnownStep ==
  ASSUME BaseInv, [Next]_vars
  PROVE  \/ Known' = Known
         \/ \E d \in Depths :
              /\ Start(d)
              /\ Known' = Known \cup {[url |-> StartUrl, depth |-> d, trail |-> <<>>]}
         \/ \E w \in Worker : \E n \in Nat :
              /\ VisitStep(w)
              /\ pc[w] # "idle"
              /\ running[w].depth > 1
              /\ n \in DOMAIN Page(w).links
              /\ Known' = Known \cup {Child(running[w], n)}
<1> USE DEF BaseInv
<1>1. ASSUME NEW d \in Depths, Start(d)
      PROVE  Known' = Known \cup {[url |-> StartUrl, depth |-> d, trail |-> <<>>]}
  <2>1. [url |-> StartUrl, depth |-> d, trail |-> <<>>] \in Visit
    BY CrowlerConstants DEF Visit, Trail
  <2> QED BY <1>1, <2>1, KnownAfterSubmit DEF Start
<1>2. CASE UNCHANGED <<pending, running, finished>>
  BY <1>2, KnownAfterNothing
<1>3. ASSUME NEW w \in Worker, NEW v \in pending, Take(w, v) PROVE Known' = Known
  BY <1>3, KnownAfterStart DEF Take
<1>4. ASSUME NEW w \in Worker, Return(w) PROVE Known' = Known
  BY <1>4, KnownAfterFinish DEF Return
<1>5. ASSUME NEW w \in Worker, FetchRedirect(w) \/ SendLink(w),
             ~UNCHANGED <<pending, running, finished>>
      PROVE  \E n \in Nat :
              /\ VisitStep(w)
              /\ pc[w] # "idle"
              /\ running[w].depth > 1
              /\ n \in DOMAIN Page(w).links
              /\ Known' = Known \cup {Child(running[w], n)}
  <2>1. PICK n \in Nat : /\ n \in DOMAIN Page(w).links
                         /\ Child(running[w], n) \in Visit
                         /\ Pool!Submit(Child(running[w], n))
    BY <1>5, SubmittedIsChild DEF tvars
  <2>2. running[w].depth > 1
    BY <1>5, SubmittedIsChild DEF tvars
  <2>3. VisitStep(w) /\ pc[w] # "idle"
    BY <1>5 DEF VisitStep, FetchRedirect, SendLink, Goto
  <2>4. Known' = Known \cup {Child(running[w], n)}
    BY <2>1, KnownAfterSubmit
  <2> QED BY <2>1, <2>2, <2>3, <2>4
<1>6. ASSUME NEW w \in Worker, VisitStep(w)
      PROVE  FetchRedirect(w) \/ SendLink(w) \/ Return(w)
             \/ UNCHANGED <<pending, running, finished>>
  BY <1>6 DEF VisitStep, Enter, Malformed, FetchPage, FetchNothing, Hang, Drop, Extract,
       LastLevel, ExtractThrows, AllSent, Store, StoreFails, Leave, tvars
<1>7. MainStep => \/ \E d \in Depths : Start(d)
                  \/ UNCHANGED <<pending, running, finished>>
  BY DEF MainStep, RejectDepth, Announce, DestroyPool, PoolDestroyed, DestroyFields,
         Pool!Close, Pool!Return, tvars
<1> QED BY <1>1, <1>2, <1>3, <1>4, <1>5, <1>6, <1>7 DEF Next, vars

LEMMA LifeStep == BaseInv /\ [Next]_vars => LifeInv'
<1> SUFFICES ASSUME BaseInv, [Next]_vars PROVE LifeInv'
  OBVIOUS
<1> USE DEF BaseInv, LifeInv
<1>1. mpc' = "configure" => Known' = {}
  <2>1. SUFFICES ASSUME mpc' = "configure" PROVE Known' = {}
    OBVIOUS
  <2>2. mpc = "configure" \/ \E w \in Worker : VisitStep(w) \/ \E v \in pending : Take(w, v)
    BY <2>1 DEF Next, vars, MainStep, Start, RejectDepth, Announce, DestroyPool,
                PoolDestroyed, DestroyFields
  <2>3. mpc = "configure"
    BY <2>1, <2>2 DEF VisitStep, Take, Enter, Malformed, FetchPage, FetchRedirect,
         FetchNothing, Hang, Drop, Extract, LastLevel, ExtractThrows, SendLink, AllSent,
         Store, StoreFails, Leave, Return
  <2>4. ~\E d \in Depths : Start(d)
    BY <2>1 DEF Start
  <2>5. ASSUME NEW w \in Worker, pc[w] # "idle" PROVE FALSE
    BY <2>3, <2>5, RunningVisit
  <2> QED BY <2>3, <2>4, <2>5, KnownStep
<1> SUFFICES /\ mpc' \notin {"draining", "gone"} => life' = "open"
             /\ life' = "closed" => pending' = {} /\ \A w \in Worker : running'[w] = NoTask
             /\ mpc' = "gone" => life' = "closed"
  BY <1>1
<1>2. CASE MainStep
  BY <1>2 DEF MainStep, Start, RejectDepth, Announce, DestroyPool, PoolDestroyed,
              DestroyFields, Pool!Submit, Pool!Close, Pool!Return, Pool!Busy, tvars
<1>3. ASSUME NEW w \in Worker, NEW v \in pending, Take(w, v) PROVE LifeInv'
  BY <1>1, <1>3 DEF Take, Pool!Start
<1>4. ASSUME NEW w \in Worker, VisitStep(w) PROVE LifeInv'
  <2>1. mpc' = mpc
    BY <1>4 DEF VisitStep, Enter, Malformed, FetchPage, FetchRedirect, FetchNothing, Hang,
         Drop, Extract, LastLevel, ExtractThrows, SendLink, AllSent, Store, StoreFails,
         Leave, Return
  <2>2. life' = life
    BY <1>4 DEF VisitStep, Enter, Malformed, FetchPage, FetchRedirect, FetchNothing, Hang,
         Drop, Extract, LastLevel, ExtractThrows, SendLink, AllSent, Store, StoreFails,
         Leave, Return, Pool!Submit, Pool!Finish, tvars
  <2>3. pc[w] # "idle"
    BY <1>4 DEF VisitStep, Enter, Malformed, FetchPage, FetchRedirect, FetchNothing, Hang,
         Drop, Extract, LastLevel, ExtractThrows, SendLink, AllSent, Store, StoreFails,
         Leave, Return, Goto
  <2>4. life # "closed"
    BY <2>3 DEF ControlInv
  <2> QED BY <1>1, <2>1, <2>2, <2>4
<1>5. CASE UNCHANGED vars
  BY <1>1, <1>5 DEF vars
<1> QED BY <1>2, <1>3, <1>4, <1>5, <1>1 DEF Next

LEMMA BaseInvStep == BaseInv /\ [Next]_vars => BaseInv'
BY TypeStep, ControlStep, LifeStep DEF BaseInv

-----------------------------------------------------------------------------
Inside == {w \in Worker : pc[w] \in Counted}

(* How a step of one worker changes the number of workers inside.          *)
LEMMA InsideStep ==
  ASSUME BaseInv, NEW w \in Worker, NEW from, NEW to, Goto(w, from, to)
  PROVE  /\ (from \in Counted <=> to \in Counted) => Cardinality(Inside') = Cardinality(Inside)
         /\ from \notin Counted /\ to \in Counted
              => Cardinality(Inside') = Cardinality(Inside) + 1
         /\ from \in Counted /\ to \notin Counted
              => Cardinality(Inside') = Cardinality(Inside) - 1
<1> DEFINE S == Inside
           T == Inside'
<1>1. pc[w] = from /\ pc' = [pc EXCEPT ![w] = to] /\ DOMAIN pc = Worker
  BY DEF Goto, BaseInv, CrowlerTypeOK
<1>2. \A u \in Worker : pc'[u] = IF u = w THEN to ELSE pc[u]
  BY <1>1
<1>3. IsFiniteSet(S)
  <2>1. S \subseteq Worker
    BY DEF Inside
  <2> QED BY <2>1, CrowlerConstants, FS_Subset
<1>4. (from \in Counted <=> to \in Counted) => T = S
  BY <1>1, <1>2 DEF Inside
<1>5. ASSUME from \notin Counted, to \in Counted
      PROVE  Cardinality(T) = Cardinality(S) + 1
  <2>1. T = S \cup {w} /\ w \notin S
    BY <1>1, <1>2, <1>5 DEF Inside
  <2> HIDE DEF S, T
  <2> QED BY <2>1, <1>3, FS_AddElement
<1>6. ASSUME from \in Counted, to \notin Counted
      PROVE  Cardinality(T) = Cardinality(S) - 1
  <2>1. T = S \ {w} /\ w \in S
    BY <1>1, <1>2, <1>6 DEF Inside
  <2> HIDE DEF S, T
  <2> QED BY <2>1, <1>3, FS_RemoveElement
<1> QED BY <1>4, <1>5, <1>6

LEMMA InsideIsInt == BaseInv => Cardinality(Inside) \in Int
<1> SUFFICES ASSUME BaseInv PROVE Cardinality(Inside) \in Int
  OBVIOUS
<1>1. Inside \subseteq Worker
  BY DEF Inside
<1>2. IsFiniteSet(Inside)
  BY <1>1, CrowlerConstants, FS_Subset
<1> QED BY <1>2, FS_CardinalityType

LEMMA WorkingStep == BaseInv /\ WorkingExact /\ [Next]_vars => WorkingExact'
<1> SUFFICES ASSUME BaseInv, WorkingExact, [Next]_vars PROVE WorkingExact'
  OBVIOUS
<1>0. working = Cardinality(Inside) /\ (WorkingExact' <=> working' = Cardinality(Inside'))
  BY DEF WorkingExact, Inside
<1>a. Cardinality(Inside) \in Int
  BY InsideIsInt
<1>1. CASE UNCHANGED <<pc, working>>
  BY <1>1 DEF WorkingExact
<1>2. ASSUME NEW w \in Worker, NEW v \in pending, Take(w, v) PROVE WorkingExact'
  BY <1>0, <1>2, InsideStep DEF Take, Counted
<1>3. ASSUME NEW w \in Worker, VisitStep(w) PROVE WorkingExact'
  <2>1. CASE Enter(w)
    BY <1>0, <1>a, <2>1, InsideStep DEF Enter, Counted
  <2>2. CASE Drop(w) \/ Leave(w)
    BY <1>0, <1>a, <2>2, InsideStep DEF Drop, Leave, Counted
  <2>3. CASE Malformed(w) \/ FetchPage(w) \/ FetchRedirect(w) \/ FetchNothing(w)
             \/ Hang(w)
    BY <1>0, <2>3, InsideStep
       DEF Malformed, FetchPage, FetchRedirect, FetchNothing, Hang, Counted
  <2>4. CASE Extract(w) \/ LastLevel(w) \/ ExtractThrows(w) \/ AllSent(w) \/ Store(w)
             \/ StoreFails(w)
    BY <1>0, <2>4, InsideStep
       DEF Extract, LastLevel, ExtractThrows, AllSent, Store, StoreFails, Counted
  <2>5. CASE SendLink(w)
    BY <1>1, <2>5 DEF SendLink
  <2>6. CASE Return(w)
    BY <1>0, <2>6, InsideStep DEF Return, Counted
  <2> QED BY <1>3, <2>1, <2>2, <2>3, <2>4, <2>5, <2>6 DEF VisitStep
<1>4. CASE MainStep
  BY <1>1, <1>4 DEF MainStep, Start, RejectDepth, Announce, DestroyPool, PoolDestroyed,
                    DestroyFields
<1> QED BY <1>1, <1>2, <1>3, <1>4 DEF Next, vars

LEMMA WorkingInit == Init => WorkingExact
<1> SUFFICES ASSUME Init PROVE WorkingExact
  OBVIOUS
<1>1. {w \in Worker : pc[w] \in Counted} = {}
  BY DEF Init, Counted
<1> QED BY <1>1, FS_EmptySet DEF Init, WorkingExact

-----------------------------------------------------------------------------
(* A visit to a link of a page on the trail is on the trail.               *)
LEMMA ChildOnTrail ==
  ASSUME NEW v \in Visit, NEW n \in Nat, n \in DOMAIN Web[v.url].links,
         OnTrail(v), v.depth > 1, depth \in Nat
  PROVE  OnTrail(Child(v, n))
<1> DEFINE c == Child(v, n)
           L == Len(v.trail)
<1>1. /\ v.trail \in Seq([page : Url, nth : Nat]) /\ v.url \in Url /\ v.depth \in Int
      /\ L \in Nat
  BY DEF Visit, Trail
<1>2. /\ c.url = Web[v.url].links[n]
      /\ c.depth = v.depth - 1
      /\ c.trail = Append(v.trail, [page |-> v.url, nth |-> n])
  BY DEF Child
<1> HIDE DEF c
<1>3. /\ Len(c.trail) = L + 1
      /\ \A i \in 1..L : c.trail[i] = v.trail[i]
      /\ c.trail[L + 1] = [page |-> v.url, nth |-> n]
  BY <1>1, <1>2
<1>4. /\ \A i \in 1..(L + 1) : Stop(c, i) = Stop(v, i)
      /\ Stop(c, L + 2) = Web[v.url].links[n]
  BY <1>1, <1>2, <1>3 DEF Stop
<1>5. c.depth > 0 /\ c.depth + Len(c.trail) = depth
  <2>1. v.depth + L = depth
    BY DEF OnTrail
  <2> QED BY <1>1, <1>2, <1>3, <2>1
<1>6. Stop(c, 1) = StartUrl
  BY <1>1, <1>4 DEF OnTrail
<1>7. ASSUME NEW i \in 1..Len(c.trail)
      PROVE  /\ c.trail[i].nth \in DOMAIN Web[Stop(c, i)].links
             /\ Stop(c, i + 1) = Web[Stop(c, i)].links[c.trail[i].nth]
  <2>1. CASE i \in 1..L
    <3>1. Stop(c, i) = Stop(v, i) /\ Stop(c, i + 1) = Stop(v, i + 1)
      BY <1>1, <1>4, <2>1
    <3>2. c.trail[i].nth = v.trail[i].nth
      BY <1>3, <2>1
    <3>3. /\ v.trail[i].nth \in DOMAIN Web[Stop(v, i)].links
          /\ Stop(v, i + 1) = Web[Stop(v, i)].links[v.trail[i].nth]
      BY <2>1 DEF OnTrail
    <3> QED BY <3>1, <3>2, <3>3
  <2>2. CASE i = L + 1
    <3>1. Stop(c, i) = v.url
      BY <1>1, <1>4, <2>2 DEF Stop
    <3>2. c.trail[i].nth = n /\ Stop(c, i + 1) = Web[v.url].links[n]
      BY <1>1, <1>3, <1>4, <2>2
    <3> QED BY <3>1, <3>2
  <2>3. i \in 1..L \/ i = L + 1
    BY <1>1, <1>3
  <2> QED BY <2>1, <2>2, <2>3
<1>8. OnTrail(c)
  BY <1>5, <1>6, <1>7 DEF OnTrail
<1> QED BY <1>8 DEF c

LEMMA TrailStep == BaseInv /\ EveryVisitOnTrail /\ [Next]_vars => EveryVisitOnTrail'
<1> SUFFICES ASSUME BaseInv, EveryVisitOnTrail, [Next]_vars,
                    NEW v \in Known'
             PROVE  OnTrail(v)'
  BY DEF EveryVisitOnTrail
<1>1. ASSUME NEW d \in Depths, Start(d),
             Known' = Known \cup {[url |-> StartUrl, depth |-> d, trail |-> <<>>]}
      PROVE  OnTrail(v)'
  <2>1. Known = {}
    BY <1>1 DEF BaseInv, LifeInv, Start
  <2>2. v.url = StartUrl /\ v.depth = d /\ v.trail = <<>>
    BY <1>1, <2>1
  <2>3. d \in Int /\ d > 0 /\ depth' = d
    BY <1>1, CrowlerConstants DEF Start
  <2> QED BY <2>2, <2>3 DEF OnTrail, Stop
<1>2. ASSUME ~\E d \in Depths : Start(d) PROVE depth' = depth
  BY <1>2 DEF Next, vars, MainStep, RejectDepth, Announce, DestroyPool, PoolDestroyed,
       DestroyFields, VisitStep, Take, Enter, Malformed, FetchPage, FetchRedirect,
       FetchNothing, Hang, Drop, Extract, LastLevel, ExtractThrows, SendLink, AllSent,
       Store, StoreFails, Leave, Return
<1>3. ASSUME depth' = depth, v \in Known PROVE OnTrail(v)'
  <2>1. OnTrail(v)
    BY <1>3 DEF EveryVisitOnTrail
  <2> QED BY <1>3, <2>1 DEF OnTrail
<1>4. ASSUME NEW w \in Worker, NEW n \in Nat, depth' = depth,
             pc[w] # "idle", running[w].depth > 1, n \in DOMAIN Page(w).links,
             v = Child(running[w], n)
      PROVE  OnTrail(v)'
  <2>1. running[w] \in Visit /\ OnTrail(running[w])
    BY <1>4, RunningVisit DEF EveryVisitOnTrail
  <2>2. OnTrail(Child(running[w], n))
    BY <1>4, <2>1, ChildOnTrail DEF Page, BaseInv, CrowlerTypeOK
  <2> HIDE DEF OnTrail
  <2>3. OnTrail(v)
    BY <1>4, <2>2
  <2> QED BY <1>4, <2>3 DEF OnTrail
<1>5. CASE \E d \in Depths : Start(d)
  <2>1. PICK d \in Depths : Start(d)
    BY <1>5
  <2>2. [url |-> StartUrl, depth |-> d, trail |-> <<>>] \in Visit
    BY CrowlerConstants DEF Visit, Trail
  <2>3. Known' = Known \cup {[url |-> StartUrl, depth |-> d, trail |-> <<>>]}
    BY <2>1, <2>2, KnownAfterSubmit DEF Start, BaseInv
  <2> QED BY <1>1, <2>1, <2>3
<1>6. CASE ~\E d \in Depths : Start(d)
  BY <1>2, <1>3, <1>4, <1>6, KnownStep
<1> QED BY <1>5, <1>6

LEMMA TrailInit == Init => EveryVisitOnTrail
BY DEF Init, Pool!TaskInit, EveryVisitOnTrail, Known

-----------------------------------------------------------------------------
LEMMA CrowlerInvInductive == /\ Init => CrowlerInv
                             /\ CrowlerInv /\ [Next]_vars => CrowlerInv'
BY BaseInvInit, BaseInvStep, WorkingInit, WorkingStep, TrailInit, TrailStep
   DEF CrowlerInv

(* Every variable of the crawler program keeps its type.                   *)
THEOREM CrowlerTypeCorrect == Spec => []CrowlerTypeOK
<1>1. CrowlerInv => CrowlerTypeOK
  BY DEF CrowlerInv, BaseInv
<1> QED BY <1>1, CrowlerInvInductive, PTL DEF Spec

(* isWorking() counts the workers inside parseOnePage, whatever fails.     *)
THEOREM WorkingCounts == Spec => []WorkingExact
<1>1. CrowlerInv => WorkingExact
  BY DEF CrowlerInv
<1> QED BY <1>1, CrowlerInvInductive, PTL DEF Spec

(* No visit leaves the trail of links or goes deeper than CROWLER.depth.   *)
THEOREM VisitsStayOnTrail == Spec => []EveryVisitOnTrail
<1>1. CrowlerInv => EveryVisitOnTrail
  BY DEF CrowlerInv
<1> QED BY <1>1, CrowlerInvInductive, PTL DEF Spec

(* Crowler's members are destroyed only when no task can touch them.       *)
THEOREM FieldsAreSafe == Spec => []FieldsOutliveTasks
<1>1. CrowlerInv => FieldsOutliveTasks
  BY DEF CrowlerInv, BaseInv, ControlInv, LifeInv, FieldsOutliveTasks
<1> QED BY <1>1, CrowlerInvInductive, PTL DEF Spec

-----------------------------------------------------------------------------
(* That the crawl is complete.  Each visit is run once, so what can go
   wrong in it is known once it is past the places where it may.           *)
OneRun ==
  /\ pending \cap finished = {}
  /\ \A w \in Worker : running[w] # NoTask => running[w] \notin pending \cup finished
  /\ \A u, w \in Worker : running[u] = running[w] /\ running[u] # NoTask => u = w

(* No fault can befall v any more, and none that costs it its links.       *)
Past(v) ==
  \/ v \in finished
  \/ \E w \in Worker : running[w] = v /\ pc[w] \in {"hung", "drop", "leave", "return"}

Resolved(v) == Past(v) \/ \E w \in Worker : running[w] = v /\ pc[w] \in {"send", "index"}

FaultsPast == \A e \in failed : Past(e.visit)

(* What a visit has done of its duties when its worker is at each place.   *)
DutiesAt(w) ==
  LET v == running[w] IN
  /\ pc[w] \in {"extract", "send", "index"} => Web[v.url].kind = "page"
  /\ pc[w] = "send" => \A n \in 1..sent[w] : Child(v, n) \in Known
  /\ pc[w] \in {"index", "drop", "leave", "return"} => Followed(v) \subseteq Known
  /\ pc[w] = "drop" => ~Read(v)
  /\ pc[w] \in {"leave", "return"} => (Read(v) => v.url \in indexed)

Duties == \A w \in Worker : DutiesAt(w)

DutiesDone == \A v \in finished : Followed(v) \subseteq Known /\ (Read(v) => v.url \in indexed)

IndexedByVisits == \A u \in indexed : \E v \in Known : Past(v) /\ v.url = u /\ Read(v)

Referred == \A v \in Known \ {FirstVisit} : \E r \in Known : Resolved(r) /\ v \in Followed(r)

FirstKnown == Known # {} => FirstVisit \in Known

CompleteInv ==
  /\ OneRun /\ FaultsPast /\ Duties /\ DutiesDone
  /\ IndexedByVisits /\ Referred /\ FirstKnown

LEMMA OneRunStep == BaseInv /\ OneRun /\ [Next]_vars => OneRun'
<1> SUFFICES ASSUME BaseInv, OneRun, [Next]_vars PROVE OneRun'
  OBVIOUS
<1> USE DEF BaseInv, CrowlerTypeOK
<1>1. CASE UNCHANGED <<pending, running, finished>>
  BY <1>1 DEF OneRun
<1>2. ASSUME NEW x \in Visit, Pool!Submit(x) PROVE OneRun'
  BY <1>2, NoTaskIsNoVisit DEF OneRun, Pool!Submit, Pool!Known, Pool!Running, Pool!Busy
<1>3. ASSUME NEW w \in Worker, NEW v \in pending, Take(w, v) PROVE OneRun'
  <2>1. /\ running' = [running EXCEPT ![w] = v] /\ running[w] = NoTask
        /\ pending' = pending \ {v} /\ finished' = finished
    BY <1>3 DEF Take, Pool!Start
  <2>2. \A u \in Worker : running'[u] = IF u = w THEN v ELSE running[u]
    BY <2>1
  <2> QED BY <2>1, <2>2 DEF OneRun
<1>4. ASSUME NEW w \in Worker, Return(w) PROVE OneRun'
  <2>1. /\ running' = [running EXCEPT ![w] = NoTask] /\ running[w] # NoTask
        /\ pending' = pending /\ finished' = finished \cup {running[w]}
    BY <1>4 DEF Return, Pool!Finish
  <2>2. \A u \in Worker : running'[u] = IF u = w THEN NoTask ELSE running[u]
    BY <2>1
  <2> QED BY <2>1, <2>2 DEF OneRun
<1>5. ASSUME NEW d \in Depths, Start(d) PROVE OneRun'
  <2>1. [url |-> StartUrl, depth |-> d, trail |-> <<>>] \in Visit
    BY CrowlerConstants DEF Visit, Trail
  <2> QED BY <1>2, <1>5, <2>1 DEF Start
<1>6. ASSUME NEW w \in Worker, FetchRedirect(w) \/ SendLink(w) PROVE OneRun'
  BY <1>1, <1>2, <1>6, SubmittedIsChild DEF tvars
<1> QED
  BY <1>1, <1>3, <1>4, <1>5, <1>6
     DEF Next, vars, tvars, MainStep, RejectDepth, Announce, DestroyPool, PoolDestroyed,
         DestroyFields, Pool!Close, Pool!Return, VisitStep, Enter, Malformed, FetchPage,
         FetchNothing, Hang, Drop, Extract, LastLevel, ExtractThrows, AllSent, Store,
         StoreFails, Leave

(* A worker that moves on, but not back, leaves Past and Resolved standing. *)
PastPlaces == {"hung", "drop", "leave", "return"}

LEMMA MovesOn ==
  ASSUME BaseInv, NEW w \in Worker, NEW from, NEW to, Goto(w, from, to),
         UNCHANGED <<running, finished>>,
         from \in PastPlaces => to \in PastPlaces,
         from \in {"send", "index"} => to \in PastPlaces \cup {"send", "index"}
  PROVE  \A v : /\ Past(v) => Past(v)'
                /\ Resolved(v) => Resolved(v)'
<1>1. \A u \in Worker : pc'[u] = IF u = w THEN to ELSE pc[u]
  BY DEF Goto, BaseInv, CrowlerTypeOK
<1>2. pc[w] = from
  BY DEF Goto
<1> QED BY <1>1, <1>2 DEF Past, Resolved, PastPlaces

LEMMA PastGrows ==
  ASSUME BaseInv, [Next]_vars, NEW v, v # NoTask
  PROVE  /\ Past(v) => Past(v)'
         /\ Resolved(v) => Resolved(v)'
<1> USE DEF BaseInv, CrowlerTypeOK, PastPlaces
<1>1. CASE UNCHANGED <<running, finished, pc>>
  BY <1>1 DEF Past, Resolved
<1>2. CASE MainStep
  BY <1>1, <1>2 DEF MainStep, Start, RejectDepth, Announce, DestroyPool, PoolDestroyed,
              DestroyFields, Pool!Submit, Pool!Close, Pool!Return, tvars
<1>3. ASSUME NEW w \in Worker, NEW x \in pending, Take(w, x)
      PROVE  (Past(v) => Past(v)') /\ (Resolved(v) => Resolved(v)')
  <2>1. /\ pc[w] = "idle" /\ pc' = [pc EXCEPT ![w] = "enter"]
        /\ running' = [running EXCEPT ![w] = x] /\ finished' = finished
    BY <1>3 DEF Take, Goto, Pool!Start
  <2>2. \A u \in Worker \ {w} : pc'[u] = pc[u] /\ running'[u] = running[u]
    BY <2>1
  <2> QED BY <2>1, <2>2 DEF Past, Resolved
<1>4. ASSUME NEW w \in Worker, VisitStep(w)
      PROVE  (Past(v) => Past(v)') /\ (Resolved(v) => Resolved(v)')
  <2>1. CASE Return(w)
    <3>1. /\ pc[w] = "return" /\ pc' = [pc EXCEPT ![w] = "idle"]
          /\ running' = [running EXCEPT ![w] = NoTask]
          /\ finished' = finished \cup {running[w]}
      BY <2>1 DEF Return, Goto, Pool!Finish
    <3>2. \A u \in Worker \ {w} : pc'[u] = pc[u] /\ running'[u] = running[u]
      BY <3>1
    <3> QED BY <3>1, <3>2 DEF Past, Resolved
  <2>2. CASE SendLink(w)
    BY <1>1, <2>2 DEF SendLink, Pool!Submit
  <2>3. CASE FetchRedirect(w)
    BY <2>3, MovesOn DEF FetchRedirect, Pool!Submit, tvars
  <2>4. CASE Enter(w) \/ Malformed(w) \/ FetchPage(w) \/ FetchNothing(w) \/ Hang(w) \/ Drop(w)
    BY <2>4, MovesOn DEF Enter, Malformed, FetchPage, FetchNothing, Hang, Drop, tvars
  <2>5. CASE Extract(w) \/ LastLevel(w) \/ ExtractThrows(w) \/ AllSent(w) \/ Store(w)
             \/ StoreFails(w) \/ Leave(w)
    BY <2>5, MovesOn DEF Extract, LastLevel, ExtractThrows, AllSent, Store, StoreFails, Leave,
       tvars
  <2> QED BY <1>4, <2>1, <2>2, <2>3, <2>4, <2>5 DEF VisitStep
<1> QED BY <1>1, <1>2, <1>3, <1>4 DEF Next, vars

(* Faults only befall visits that are not past them, and none of a link
   befalls one whose links are resolved.                                   *)
LEMMA NewFaults ==
  ASSUME BaseInv, OneRun, [Next]_vars, NEW e \in failed' \ failed
  PROVE  /\ ~Past(e.visit) /\ Past(e.visit)'
         /\ e.fault \in {"network", "hang", "links"} => ~Resolved(e.visit)
<1> USE DEF BaseInv, CrowlerTypeOK
<1>1. PICK w \in Worker : FetchNothing(w) \/ Hang(w) \/ ExtractThrows(w) \/ StoreFails(w)
  BY DEF Next, vars, MainStep, Start, RejectDepth, Announce, DestroyPool, PoolDestroyed,
       DestroyFields, VisitStep, Take, Enter, Malformed, FetchPage, FetchRedirect,
       Drop, Extract, LastLevel, SendLink, AllSent, Store, Leave, Return
<1>2. PICK f : /\ e = [visit |-> running[w], fault |-> f]
               /\ pc[w] = "index" => f \in {"text", "database"}
  BY <1>1 DEF FetchNothing, Hang, ExtractThrows, StoreFails, Fail, Goto
<1>3. /\ pc[w] \in {"fetch", "extract", "index"} /\ pc'[w] \in {"drop", "hung", "leave"}
      /\ UNCHANGED <<running, finished>>
  BY <1>1 DEF FetchNothing, Hang, ExtractThrows, StoreFails, Goto, tvars
<1>4. running[w] # NoTask /\ running[w] \notin finished
      /\ \A u \in Worker : running[u] = running[w] => u = w
  BY <1>3 DEF ControlInv, OneRun
<1> QED BY <1>2, <1>3, <1>4 DEF Past, Resolved

(* What every step leaves standing.                                        *)
LEMMA StepGrows ==
  ASSUME BaseInv, [Next]_vars
  PROVE  /\ Known \subseteq Known'
         /\ indexed \subseteq indexed'
         /\ failed \subseteq failed'
         /\ Known # {} => depth' = depth
<1>1. Known \subseteq Known'
  BY KnownStep
<1>2. indexed \subseteq indexed' /\ failed \subseteq failed'
  BY DEF Next, vars, MainStep, Start, RejectDepth, Announce, DestroyPool, PoolDestroyed,
       DestroyFields, VisitStep, Take, Enter, Malformed, FetchPage, FetchRedirect, Fail,
       FetchNothing, Hang, Drop, Extract, LastLevel, ExtractThrows, SendLink, AllSent,
       Store, StoreFails, Leave, Return
<1>3. Known # {} => depth' = depth
  BY DEF Next, vars, MainStep, Start, RejectDepth, Announce, DestroyPool, PoolDestroyed,
       DestroyFields, VisitStep, Take, Enter, Malformed, FetchPage, FetchRedirect,
       FetchNothing, Hang, Drop, Extract, LastLevel, ExtractThrows, SendLink, AllSent,
       Store, StoreFails, Leave, Return, BaseInv, LifeInv
<1> QED BY <1>1, <1>2, <1>3

(* So what is known of a visit that is past its faults stays known.        *)
LEMMA Settled ==
  ASSUME BaseInv, OneRun, [Next]_vars, NEW v
  PROVE  /\ Resolved(v) => Followed(v)' = Followed(v)
         /\ Past(v) => (Read(v)' <=> Read(v))
<1>1. \A F : FailedBy(v, F) => FailedBy(v, F)'
  BY StepGrows DEF FailedBy
<1>2. ASSUME Resolved(v), FailedBy(v, {"network", "hang", "links"})'
      PROVE  FailedBy(v, {"network", "hang", "links"})
  BY <1>2, NewFaults DEF FailedBy
<1>3. ASSUME Past(v), FailedBy(v, AllFaults)'
      PROVE  FailedBy(v, AllFaults)
  BY <1>3, NewFaults DEF FailedBy
<1>4. Resolved(v) => Followed(v)' = Followed(v)
  BY <1>1, <1>2 DEF Followed
<1>5. Past(v) => (Read(v)' <=> Read(v))
  BY <1>1, <1>3 DEF Read
<1> QED BY <1>4, <1>5

LEMMA FaultsPastStep == BaseInv /\ OneRun /\ FaultsPast /\ [Next]_vars => FaultsPast'
<1> SUFFICES ASSUME BaseInv, OneRun, FaultsPast, [Next]_vars, NEW e \in failed'
             PROVE  Past(e.visit)'
  BY DEF FaultsPast
<1>1. CASE e \in failed
  <2>1. e.visit # NoTask
    BY <1>1, NoTaskIsNoVisit DEF BaseInv, CrowlerTypeOK
  <2> QED BY <1>1, <2>1, PastGrows DEF FaultsPast
<1>2. CASE e \notin failed
  BY <1>2, NewFaults
<1> QED BY <1>1, <1>2

(* A worker that stays where it is has done no less than before.           *)
LEMMA DutiesFrame ==
  ASSUME BaseInv, OneRun, [Next]_vars, NEW u \in Worker, DutiesAt(u),
         UNCHANGED <<running[u], pc[u], sent[u]>>
  PROVE  DutiesAt(u)'
<1>0. PICK v : v = running[u] /\ v = running'[u]
  OBVIOUS
<1>1. pc[u] \in {"index", "drop", "leave", "return"} => Followed(v)' = Followed(v)
  <2>1. pc[u] \in {"index", "drop", "leave", "return"} => Resolved(v)
    BY <1>0 DEF Resolved, Past
  <2> QED BY <2>1, Settled
<1>2. pc[u] \in {"drop", "leave", "return"} => (Read(v)' <=> Read(v))
  <2>1. pc[u] \in {"drop", "leave", "return"} => Past(v)
    BY <1>0 DEF Past
  <2> QED BY <2>1, Settled
<1>3. Known \subseteq Known' /\ indexed \subseteq indexed'
  BY StepGrows
<1>4. \A n : Child(v, n)' = Child(v, n)
  BY DEF Child
<1> QED BY <1>0, <1>1, <1>2, <1>3, <1>4 DEF DutiesAt

(* The steps of a visit in which the duties are done.                      *)
LEMMA DutiesOfVisit ==
  ASSUME BaseInv, OneRun, [Next]_vars, NEW w \in Worker, DutiesAt(w), VisitStep(w)
  PROVE  DutiesAt(w)'
<1> USE DEF BaseInv, CrowlerTypeOK
<1>0. pc[w] # "idle"
  BY DEF VisitStep, Enter, Malformed, FetchPage, FetchRedirect, FetchNothing, Hang, Drop,
       Extract, LastLevel, ExtractThrows, SendLink, AllSent, Store, StoreFails, Leave,
       Return, Goto
<1>1. PICK v \in Visit : v = running[w]
  BY <1>0, RunningVisit
<1>2. v.url \in Url /\ Web[v.url].links \in Seq(Url) /\ v.depth \in Int /\ sent[w] \in Nat
  BY CrowlerConstants DEF Visit
<1>3. Known \subseteq Known' /\ indexed \subseteq indexed'
  BY StepGrows
<1>4. pc[w] \in {"send", "index", "drop", "leave", "return"} => Followed(v)' = Followed(v)
  <2>1. pc[w] \in {"send", "index", "drop", "leave", "return"} => Resolved(v)
    BY <1>1 DEF Resolved, Past
  <2> QED BY <2>1, Settled
<1>5. pc[w] \in {"drop", "leave", "return"} => (Read(v)' <=> Read(v))
  <2>1. pc[w] \in {"drop", "leave", "return"} => Past(v)
    BY <1>1 DEF Past
  <2> QED BY <2>1, Settled
<1>6. \A n : Child(v, n)' = Child(v, n)
  BY DEF Child
<1>7. CASE Enter(w) \/ FetchPage(w) \/ Hang(w) \/ Drop(w) \/ Leave(w)
  BY <1>1, <1>3, <1>4, <1>5, <1>7
     DEF DutiesAt, Enter, FetchPage, Hang, Drop, Leave, Goto, tvars, Page
<1>8. CASE Return(w)
  BY <1>8 DEF DutiesAt, Return, Goto
<1>9. CASE Malformed(w)
  <2>1. Followed(v)' = {} /\ ~Read(v)'
    BY <1>1, <1>9 DEF Malformed, Page, Followed, Read
  <2> QED BY <1>1, <1>9, <2>1 DEF DutiesAt, Malformed, Goto, tvars
<1>10. CASE FetchRedirect(w)
  <2>1. Web[v.url].kind = "redirect" /\ DOMAIN Web[v.url].links = {1}
    BY <1>1, <1>2, <1>10, CrowlerConstants DEF FetchRedirect, Page
  <2>2. ~Read(v)'
    BY <2>1 DEF Read
  <2>3. v.depth > 1 => Child(v, 1) \in Known'
    BY <1>1, <1>10 DEF FetchRedirect, Pool!Submit, Known
  <2>4. Followed(v)' \subseteq Known'
    BY <1>2, <1>6, <2>1, <2>3 DEF Followed
  <2>5. running'[w] = v
    BY <1>1, <1>10 DEF FetchRedirect, Pool!Submit, tvars
  <2> QED BY <1>10, <2>2, <2>4, <2>5 DEF DutiesAt, FetchRedirect, Goto
<1>11. CASE FetchNothing(w)
  <2>1. running'[w] = v /\ pc'[w] = "drop"
    BY <1>1, <1>11 DEF FetchNothing, tvars, Goto
  <2>2. Web[v.url].kind = "nothing"
        \/ [visit |-> v, fault |-> "network"] \in failed'
    BY <1>1, <1>11 DEF FetchNothing, Fail, Page
  <2>3. Followed(v)' = {} /\ ~Read(v)'
    BY <2>2 DEF Followed, Read, FailedBy, AllFaults
  <2> QED BY <2>1, <2>3 DEF DutiesAt
<1>12. CASE Extract(w)
  <2>1. running'[w] = v /\ pc'[w] = "send" /\ sent'[w] = 0
    BY <1>1, <1>12 DEF Extract, tvars, Goto
  <2> QED BY <1>1, <1>12, <2>1 DEF DutiesAt, Extract, Goto
<1>13. CASE LastLevel(w)
  <2>1. running'[w] = v /\ pc'[w] = "index" /\ pc[w] = "extract" /\ v.depth <= 1
    BY <1>1, <1>2, <1>13 DEF LastLevel, tvars, Goto
  <2>2. Followed(v)' = {}
    BY <2>1 DEF Followed
  <2> QED BY <1>1, <2>1, <2>2 DEF DutiesAt
<1>14. CASE ExtractThrows(w)
  <2>1. /\ running'[w] = v /\ pc'[w] = "leave"
        /\ [visit |-> v, fault |-> "links"] \in failed'
    BY <1>1, <1>14 DEF ExtractThrows, tvars, Goto, Fail
  <2>2. Followed(v)' = {} /\ ~Read(v)'
    BY <2>1 DEF Followed, Read, FailedBy, AllFaults
  <2> QED BY <2>1, <2>2 DEF DutiesAt
<1>15. CASE SendLink(w)
  <2>1. /\ running'[w] = v /\ pc'[w] = "send" /\ pc[w] = "send" /\ sent'[w] = sent[w] + 1
        /\ Child(v, sent[w] + 1) \in Known'
    BY <1>1, <1>15 DEF SendLink, Pool!Submit, Known
  <2>2. \A n \in 1..(sent[w] + 1) : n = sent[w] + 1 \/ n \in 1..sent[w]
    BY <1>2
  <2> QED BY <1>1, <1>3, <1>6, <2>1, <2>2 DEF DutiesAt
<1>16. CASE AllSent(w)
  <2>1. /\ running'[w] = v /\ pc'[w] = "index" /\ pc[w] = "send"
        /\ sent[w] = Len(Web[v.url].links)
    BY <1>1, <1>16 DEF AllSent, tvars, Goto, Page
  <2>2. Followed(v) \subseteq Known
    BY <1>1, <1>2, <2>1 DEF DutiesAt, Followed
  <2> QED BY <1>1, <1>3, <1>4, <2>1, <2>2 DEF DutiesAt
<1>17. CASE Store(w)
  <2>1. /\ running'[w] = v /\ pc'[w] = "leave" /\ pc[w] = "index"
        /\ v.url \in indexed'
    BY <1>1, <1>17 DEF Store, tvars, Goto
  <2> QED BY <1>1, <1>3, <1>4, <2>1 DEF DutiesAt
<1>18. CASE StoreFails(w)
  <2>1. PICK g \in AllFaults : [visit |-> v, fault |-> g] \in failed'
    BY <1>1, <1>18 DEF StoreFails, Fail, AllFaults
  <2>2. running'[w] = v /\ pc'[w] = "leave" /\ pc[w] = "index"
    BY <1>1, <1>18 DEF StoreFails, tvars, Goto
  <2>3. ~Read(v)'
    BY <2>1 DEF Read, FailedBy
  <2> QED BY <1>1, <1>3, <1>4, <2>2, <2>3 DEF DutiesAt
<1> QED BY <1>7, <1>8, <1>9, <1>10, <1>11, <1>12, <1>13, <1>14, <1>15, <1>16, <1>17, <1>18
        DEF VisitStep

LEMMA DutiesStep == BaseInv /\ OneRun /\ Duties /\ [Next]_vars => Duties'
<1> SUFFICES ASSUME BaseInv, OneRun, Duties, [Next]_vars, NEW u \in Worker
             PROVE  DutiesAt(u)'
  BY DEF Duties
<1> USE DEF BaseInv, CrowlerTypeOK
<1>1. CASE UNCHANGED <<running[u], pc[u], sent[u]>>
  BY <1>1, DutiesFrame DEF Duties
<1>2. CASE MainStep
  BY <1>1, <1>2 DEF MainStep, Start, RejectDepth, Announce, DestroyPool, PoolDestroyed,
              DestroyFields, Pool!Submit, Pool!Close, Pool!Return, tvars
<1>3. ASSUME NEW w \in Worker, NEW v \in pending, Take(w, v) PROVE DutiesAt(u)'
  <2>1. CASE u = w
    BY <1>3, <2>1 DEF Take, Goto, DutiesAt
  <2>2. CASE u # w
    BY <1>1, <1>3, <2>2 DEF Take, Goto, Pool!Start
  <2> QED BY <2>1, <2>2
<1>4. ASSUME NEW w \in Worker, VisitStep(w) PROVE DutiesAt(u)'
  <2>1. CASE u = w
    BY <1>4, <2>1, DutiesOfVisit DEF Duties
  <2>2. CASE u # w
    <3>1. UNCHANGED running[u]
      BY <1>4, <2>2, SubmittedIsChild
         DEF VisitStep, Enter, Malformed, FetchPage, FetchNothing, Hang, Drop, Extract,
             LastLevel, ExtractThrows, AllSent, Store, StoreFails, Leave, Return, tvars,
             Pool!Submit, Pool!Finish
    <3>2. UNCHANGED <<pc[u], sent[u]>>
      BY <1>4, <2>2
         DEF VisitStep, Enter, Malformed, FetchPage, FetchRedirect, FetchNothing, Hang, Drop,
             Extract, LastLevel, ExtractThrows, SendLink, AllSent, Store, StoreFails, Leave,
             Return, Goto
    <3> QED BY <1>1, <3>1, <3>2
  <2> QED BY <2>1, <2>2
<1> QED BY <1>1, <1>2, <1>3, <1>4 DEF Next, vars

LEMMA DutiesDoneStep ==
  BaseInv /\ OneRun /\ Duties /\ DutiesDone /\ [Next]_vars => DutiesDone'
<1> SUFFICES ASSUME BaseInv, OneRun, Duties, DutiesDone, [Next]_vars, NEW v \in finished'
             PROVE  Followed(v)' \subseteq Known' /\ (Read(v)' => v.url \in indexed')
  BY DEF DutiesDone
<1>1. v \in finished \/ \E w \in Worker : running[w] = v /\ pc[w] = "return"
  BY DEF Next, vars, tvars, MainStep, Start, RejectDepth, Announce, DestroyPool, PoolDestroyed,
       DestroyFields, Pool!Close, Pool!Return, Pool!Submit, Pool!Start, Pool!Finish, VisitStep,
       Take, Enter, Malformed, FetchPage, FetchRedirect, FetchNothing, Hang, Drop, Extract,
       LastLevel, ExtractThrows, SendLink, AllSent, Store, StoreFails, Leave, Return, Goto
<1>2. Followed(v) \subseteq Known /\ (Read(v) => v.url \in indexed)
  BY <1>1 DEF DutiesDone, Duties, DutiesAt
<1>3. Past(v) /\ Resolved(v)
  BY <1>1 DEF Past, Resolved
<1> QED BY <1>2, <1>3, Settled, StepGrows

LEMMA IndexedStep ==
  BaseInv /\ OneRun /\ FaultsPast /\ Duties /\ IndexedByVisits /\ [Next]_vars => IndexedByVisits'
<1> SUFFICES ASSUME BaseInv, OneRun, FaultsPast, Duties, IndexedByVisits, [Next]_vars,
                    NEW u \in indexed'
             PROVE  \E v \in Known' : Past(v)' /\ v.url = u /\ Read(v)'
  BY DEF IndexedByVisits
<1> USE DEF BaseInv, CrowlerTypeOK
<1>1. CASE u \in indexed
  <2>1. PICK v \in Known : Past(v) /\ v.url = u /\ Read(v)
    BY <1>1 DEF IndexedByVisits
  <2>2. v # NoTask
    BY <2>1, NoTaskIsNoVisit DEF Known
  <2> QED BY <2>1, <2>2, PastGrows, Settled, StepGrows
<1>2. CASE u \notin indexed
  <2>1. PICK w \in Worker : Store(w) /\ u = running[w].url
    BY <1>2 DEF Next, vars, MainStep, Start, RejectDepth, Announce, DestroyPool, PoolDestroyed,
       DestroyFields, VisitStep, Take, Enter, Malformed, FetchPage, FetchRedirect,
       FetchNothing, Hang, Drop, Extract, LastLevel, ExtractThrows, SendLink, AllSent,
       Store, StoreFails, Leave, Return
  <2>2. /\ pc[w] = "index" /\ pc'[w] = "leave" /\ UNCHANGED <<running, finished, failed>>
    BY <2>1 DEF Store, Goto, tvars
  <2>3. PICK v \in Visit : v = running[w] /\ v \in Known
    BY <2>2, RunningVisit
  <2>4. v \notin finished /\ \A x \in Worker : running[x] = v => x = w
    BY <2>3, NoTaskIsNoVisit DEF OneRun
  <2>5. ~Past(v)
    BY <2>2, <2>4 DEF Past
  <2>6. \A e \in failed : e.visit # v
    BY <2>5 DEF FaultsPast
  <2>7. Read(v)'
    BY <2>2, <2>3, <2>6 DEF Read, FailedBy, Duties, DutiesAt
  <2>8. Past(v)'
    BY <2>2, <2>3 DEF Past
  <2> QED BY <2>1, <2>3, <2>7, <2>8, StepGrows
<1> QED BY <1>1, <1>2

LEMMA ReferredStep ==
  ASSUME BaseInv, BaseInv', OneRun, FaultsPast, Duties, Referred, [Next]_vars
  PROVE  Referred'
<1> USE DEF BaseInv, CrowlerTypeOK
<1> SUFFICES ASSUME NEW v \in Known', v # FirstVisit'
             PROVE  \E r \in Known' : Resolved(r)' /\ v \in Followed(r)'
  BY DEF Referred
<1>1. CASE v \in Known
  <2>1. v # FirstVisit
    BY <1>1, StepGrows DEF FirstVisit
  <2>2. PICK r \in Known : Resolved(r) /\ v \in Followed(r)
    BY <1>1, <2>1 DEF Referred
  <2>3. r # NoTask
    BY <2>2, NoTaskIsNoVisit DEF Known
  <2> QED BY <2>2, <2>3, PastGrows, Settled, StepGrows
<1>2. CASE v \notin Known
  <2>1. ASSUME NEW d \in Depths, Start(d) PROVE FALSE
    <3>1. [url |-> StartUrl, depth |-> d, trail |-> <<>>] \in Visit
      BY CrowlerConstants DEF Visit, Trail
    <3>2. Known' = Known \cup {[url |-> StartUrl, depth |-> d, trail |-> <<>>]}
      BY <2>1, <3>1, KnownAfterSubmit DEF Start
    <3> QED BY <1>2, <2>1, <3>2 DEF Start, FirstVisit
  <2>2. PICK w \in Worker : FetchRedirect(w) \/ SendLink(w)
    <3>1. ~UNCHANGED <<pending, running, finished>>
      BY <1>2, KnownAfterNothing
    <3>2. ASSUME NEW w \in Worker, Return(w) \/ \E x \in pending : Take(w, x) PROVE FALSE
      BY <1>2, <3>2, KnownAfterStart, KnownAfterFinish DEF Take, Return
    <3>3. ~MainStep
      BY <2>1, <3>1 DEF MainStep, RejectDepth, Announce, DestroyPool, PoolDestroyed,
         DestroyFields, Pool!Close, Pool!Return, tvars
    <3>4. PICK w \in Worker : VisitStep(w)
      BY <3>1, <3>2, <3>3 DEF Next, vars
    <3>5. FetchRedirect(w) \/ SendLink(w)
      BY <3>1, <3>2, <3>4
         DEF VisitStep, Enter, Malformed, FetchPage, FetchNothing, Hang, Drop, Extract,
             LastLevel, ExtractThrows, AllSent, Store, StoreFails, Leave, tvars
    <3> QED BY <3>5
  <2>3. pc[w] \in {"fetch", "send"} /\ pc'[w] \in {"drop", "send"}
    BY <2>2 DEF FetchRedirect, SendLink, Goto
  <2>4. PICK r \in Visit : r = running[w] /\ r \in Known
    BY <2>3, RunningVisit
  <2>5. /\ r.depth > 1
        /\ \E n \in Nat : n \in DOMAIN Web[r.url].links /\ Pool!Submit(Child(r, n))
    <3>1. ~UNCHANGED tvars
      BY <1>2, KnownAfterNothing DEF tvars
    <3> QED BY <2>2, <2>4, <3>1, SubmittedIsChild DEF Page
  <2>6. PICK n \in Nat : n \in DOMAIN Web[r.url].links /\ Pool!Submit(Child(r, n))
    BY <2>5
  <2>7. v = Child(r, n) /\ UNCHANGED <<running, finished>>
    BY <1>2, <2>6 DEF Pool!Submit, Known
  <2>8. Resolved(r)'
    BY <2>3, <2>4, <2>7 DEF Resolved, Past
  <2>9. UNCHANGED failed /\ Web[r.url].kind \in {"page", "redirect"}
    BY <2>2, <2>4 DEF FetchRedirect, SendLink, Page, Duties, DutiesAt
  <2>10. \A e \in failed : e.visit = r => e.fault \notin {"network", "hang", "links"}
    <3>1. r \notin finished /\ \A x \in Worker : running[x] = r => x = w
      BY <2>4, NoTaskIsNoVisit DEF OneRun
    <3>2. ~Past(r)
      BY <2>3, <3>1 DEF Past
    <3> QED BY <3>2 DEF FaultsPast
  <2>11. ~FailedBy(r, {"network", "hang", "links"})'
    BY <2>9, <2>10 DEF FailedBy
  <2>12. ~(r.depth <= 1)
    BY <2>5 DEF Visit
  <2>13. v \in Followed(r)'
    BY <2>6, <2>7, <2>9, <2>11, <2>12 DEF Followed, Child
  <2> QED BY <2>4, <2>8, <2>13, StepGrows
<1> QED BY <1>1, <1>2

LEMMA FirstStep == BaseInv /\ FirstKnown /\ [Next]_vars => FirstKnown'
<1> SUFFICES ASSUME BaseInv, FirstKnown, [Next]_vars, Known' # {}
             PROVE  FirstVisit' \in Known'
  BY DEF FirstKnown
<1>1. CASE Known # {}
  BY <1>1, StepGrows DEF FirstKnown, FirstVisit
<1>2. CASE Known = {}
  <2>1. \A w \in Worker : pc[w] = "idle"
    BY <1>2, RunningVisit
  <2>2. PICK d \in Depths : /\ Start(d)
                            /\ Known' = Known \cup {[url |-> StartUrl, depth |-> d, trail |-> <<>>]}
    BY <1>2, <2>1, KnownStep
  <2> QED BY <2>2 DEF Start, FirstVisit
<1> QED BY <1>1, <1>2

LEMMA CompleteInvInductive ==
  /\ Init => CompleteInv
  /\ BaseInv /\ BaseInv' /\ CompleteInv /\ [Next]_vars => CompleteInv'
<1>1. Init => CompleteInv
  <2> SUFFICES ASSUME Init PROVE CompleteInv
    OBVIOUS
  <2>1. Known = {}
    BY DEF Init, Pool!TaskInit, Known
  <2> QED BY <2>1 DEF Init, Pool!TaskInit, CompleteInv, OneRun, FaultsPast, Duties, DutiesAt,
                      DutiesDone, IndexedByVisits, Referred, FirstKnown
<1>2. BaseInv /\ BaseInv' /\ CompleteInv /\ [Next]_vars => CompleteInv'
  BY OneRunStep, FaultsPastStep, DutiesStep, DutiesDoneStep, IndexedStep, ReferredStep,
     FirstStep DEF CompleteInv
<1> QED BY <1>1, <1>2

(* When the program is done, the visits it has made are the start page's
   and those that follow from each other by the links of pages that did not
   fail, all of them and no others, and the URLs it has indexed are those
   of the visits that read a page: for any web and whatever fails.         *)
THEOREM CrawlIsComplete == Spec => []CrawlComplete
<1>1. BaseInv /\ CompleteInv => CrawlComplete
  <2> SUFFICES ASSUME BaseInv, CompleteInv, mpc = "gone", finished # {}
               PROVE  /\ FirstVisit \in finished
                      /\ \A v \in finished : Followed(v) \subseteq finished
                      /\ \A v \in finished \ {FirstVisit} : \E r \in finished : v \in Followed(r)
                      /\ indexed = {v.url : v \in {r \in finished : Read(r)}}
    BY DEF CrawlComplete
  <2>1. Known = finished
    BY DEF BaseInv, LifeInv, Known
  <2> QED BY <2>1 DEF CompleteInv, DutiesDone, IndexedByVisits, Referred, FirstKnown
<1> QED BY <1>1, CompleteInvInductive, BaseInvInit, BaseInvStep, PTL DEF Spec
=============================================================================
