------------------------------ MODULE Crowler ------------------------------
(***************************************************************************)
(* The crawler program: Crowler (_sources/crowler), its parseOnePage tasks *)
(* on the ThreadPool, and the main() that starts it, polls it and destroys *)
(* it (_crowler_project/main.cpp).  The pool is what ThreadPool is shown   *)
(* to implement, TaskPool.                                                 *)
(*                                                                         *)
(* A task is a visit: the arguments url and depth of parseOnePage, and the *)
(* trail of links that led to it, which the code does not keep and which   *)
(* only tells two visits of one page apart.  What the Internet answers is  *)
(* the constant Web; what may go wrong meanwhile is the constant Faults.   *)
(***************************************************************************)
EXTENDS Integers, Sequences, FiniteSets

CONSTANTS
  Worker,    \* the pool's threads
  NoTask,    \* "running no visit"
  Url,
  StartUrl,  \* CROWLER.startPage
  Depths,    \* the values CROWLER.depth may have
  Web,       \* what a request for each URL yields, and the links in it
  Faults     \* what may fail

Kinds == {"page",       \* 200 and html: links are those its anchors resolve to
          "redirect",   \* 300-303, 307: links is the one Location
          "nothing",    \* any other code, not html, no such host
          "malformed"}  \* boost::url_view rejects the URL

AllFaults == {"network",   \* getHtmlContent throws inside and returns ""
              "hang",      \* a blocking read or shutdown never returns
              "links",     \* resolving the page's links throws
              "text",      \* cleaning its text throws
              "database"}  \* addOnePageData gives up and returns true

ASSUME CrowlerConstants ==
  /\ IsFiniteSet(Worker)
  /\ StartUrl \in Url
  /\ Depths \subseteq Int
  /\ Web \in [Url -> [kind : Kinds, links : Seq(Url)]]
  /\ \A u \in Url : Web[u].kind = "redirect" => Len(Web[u].links) = 1
  /\ Faults \subseteq AllFaults

Trail == Seq([page : Url, nth : Nat])

Visit == [url : Url, depth : Int, trail : Trail]

ASSUME NoTaskIsNoVisit == NoTask \notin Visit

VARIABLES
  pending, running, finished, life,  \* _pool: see TaskPool
  depth,    \* _depth
  working,  \* _working
  pc,       \* where each worker is in parseOnePage, "idle" outside
  sent,     \* how many of its page's links each worker has submitted
  mpc,      \* where main() is
  indexed,  \* history: the URLs whose page addOnePageData stored
  failed    \* history: what went wrong in which visit

vars == <<pending, running, finished, life, depth, working, pc, sent, mpc, indexed, failed>>
tvars == <<pending, running, finished, life>>

Pool == INSTANCE TaskPool WITH Task <- Visit

Page(w) == Web[running[w].url]

-----------------------------------------------------------------------------
(* Crowler::Crowler; _depth is 1 until setDepth.                           *)
Init ==
  /\ Pool!TaskInit
  /\ depth = 1
  /\ working = 0
  /\ pc = [w \in Worker |-> "idle"]
  /\ sent = [w \in Worker |-> 0]
  /\ mpc = "configure"
  /\ indexed = {}
  /\ failed = {}

Goto(w, from, to) ==
  /\ pc[w] = from
  /\ pc' = [pc EXCEPT ![w] = to]

(* The visit of worker w fails; f is noted.                                *)
Fail(w, f) ==
  /\ f \in Faults
  /\ failed' = failed \cup {[visit |-> running[w], fault |-> f]}

-----------------------------------------------------------------------------
(* Slip: setDepth lets 0 pass.                                             *)
StartAtZero(d) ==
  /\ mpc = "configure"
  /\ d >= 0
  /\ depth' = d
  /\ Pool!Submit([url |-> StartUrl, depth |-> d, trail |-> <<>>])
  /\ mpc' = "polling"
  /\ UNCHANGED <<working, pc, sent, indexed, failed>>

(* main(): setDepth throws unless d > 0, which unwinds ~Crowler; setDatabase,
   setStartUrl and start() follow, before which no task exists.            *)
Start(d) ==
  /\ mpc = "configure"
  /\ d > 0
  /\ depth' = d
  /\ Pool!Submit([url |-> StartUrl, depth |-> d, trail |-> <<>>])
  /\ mpc' = "polling"
  /\ UNCHANGED <<working, pc, sent, indexed, failed>>

RejectDepth(d) ==
  /\ mpc = "configure"
  /\ d <= 0
  /\ mpc' = "leaving"
  /\ UNCHANGED <<tvars, depth, working, pc, sent, indexed, failed>>

(* while (crowler.isWorking()) sleep; then "Crowler: finished" is printed. *)
Announce ==
  /\ mpc = "polling"
  /\ ~(working > 0)
  /\ mpc' = "finished"
  /\ UNCHANGED <<tvars, depth, working, pc, sent, indexed, failed>>

(* ~Crowler: members go in reverse order, _pool, the last one, first.      *)
DestroyPool ==
  /\ mpc \in {"finished", "leaving"}
  /\ Pool!Close
  /\ mpc' = "draining"
  /\ UNCHANGED <<depth, working, pc, sent, indexed, failed>>

PoolDestroyed ==
  /\ Pool!Return
  /\ UNCHANGED <<depth, working, pc, sent, mpc, indexed, failed>>

(* Slip: the members declared after _pool go before it.                    *)
DestroyFieldsFirst ==
  /\ mpc = "draining"
  /\ mpc' = "gone"
  /\ UNCHANGED <<tvars, depth, working, pc, sent, indexed, failed>>

DestroyFields ==
  /\ mpc = "draining"
  /\ life = "closed"
  /\ mpc' = "gone"
  /\ UNCHANGED <<tvars, depth, working, pc, sent, indexed, failed>>

-----------------------------------------------------------------------------
(* A worker takes a visit, and enters parseOnePage with fetch_add.         *)
Take(w, v) ==
  /\ Goto(w, "idle", "enter")
  /\ Pool!Start(w, v)
  /\ UNCHANGED <<depth, working, sent, mpc, indexed, failed>>

Enter(w) ==
  /\ Goto(w, "enter", "fetch")
  /\ working' = working + 1
  /\ UNCHANGED <<tvars, depth, sent, mpc, indexed, failed>>

(* url_view(url) throws: parseOnePage's own catch.                         *)
Malformed(w) ==
  /\ Goto(w, "fetch", "leave")
  /\ Page(w).kind = "malformed"
  /\ UNCHANGED <<tvars, depth, working, sent, mpc, indexed, failed>>

(* getHtmlContent and httpCodeHandle, by what comes back.                  *)
FetchPage(w) ==
  /\ Goto(w, "fetch", "extract")
  /\ Page(w).kind = "page"
  /\ UNCHANGED <<tvars, depth, working, sent, mpc, indexed, failed>>

(* Slip: a link is visited at its page's own depth.                        *)
ChildAsDeep(v, n) == [url |-> Web[v.url].links[n],
                      depth |-> v.depth,
                      trail |-> Append(v.trail, [page |-> v.url, nth |-> n])]

(* Location is followed as one more level of depth.  A failing shutdown
   after the answer has been handled changes nothing.                      *)
Child(v, n) == [url |-> Web[v.url].links[n],
                depth |-> v.depth - 1,
                trail |-> Append(v.trail, [page |-> v.url, nth |-> n])]

FetchRedirect(w) ==
  /\ Goto(w, "fetch", "drop")
  /\ Page(w).kind = "redirect"
  /\ IF running[w].depth > 1 THEN Pool!Submit(Child(running[w], 1))
                             ELSE UNCHANGED tvars
  /\ UNCHANGED <<depth, working, sent, mpc, indexed, failed>>

FetchNothing(w) ==
  /\ Goto(w, "fetch", "drop")
  /\ \/ Page(w).kind = "nothing" /\ UNCHANGED failed
     \/ Page(w).kind # "malformed" /\ Fail(w, "network")
  /\ UNCHANGED <<tvars, depth, working, sent, mpc, indexed>>

(* expires_after bounds asynchronous operations only, and every operation
   here is a blocking one: nothing ends this wait.                         *)
Hang(w) ==
  /\ Goto(w, "fetch", "hung")
  /\ Page(w).kind # "malformed"
  /\ Fail(w, "hang")
  /\ UNCHANGED <<tvars, depth, working, sent, mpc, indexed>>

(* Slip: the early return forgets the fetch_sub.                           *)
DropUncounted(w) ==
  /\ Goto(w, "drop", "return")
  /\ UNCHANGED <<tvars, depth, working, sent, mpc, indexed, failed>>

(* The page is empty: fetch_sub and return.                                *)
Drop(w) ==
  /\ Goto(w, "drop", "return")
  /\ working' = working - 1
  /\ UNCHANGED <<tvars, depth, sent, mpc, indexed, failed>>

(* All links are resolved before the first is submitted.                   *)
Extract(w) ==
  /\ Goto(w, "extract", "send")
  /\ running[w].depth > 1
  /\ sent' = [sent EXCEPT ![w] = 0]
  /\ UNCHANGED <<tvars, depth, working, mpc, indexed, failed>>

LastLevel(w) ==
  /\ Goto(w, "extract", "index")
  /\ ~(running[w].depth > 1)
  /\ UNCHANGED <<tvars, depth, working, sent, mpc, indexed, failed>>

ExtractThrows(w) ==
  /\ Goto(w, "extract", "leave")
  /\ running[w].depth > 1
  /\ Fail(w, "links")
  /\ UNCHANGED <<tvars, depth, working, sent, mpc, indexed>>

SendLink(w) ==
  /\ pc[w] = "send"
  /\ sent[w] < Len(Page(w).links)
  /\ Pool!Submit(Child(running[w], sent[w] + 1))
  /\ sent' = [sent EXCEPT ![w] = @ + 1]
  /\ UNCHANGED <<depth, working, pc, mpc, indexed, failed>>

(* Slip: the loop over the links stops before the last one.                *)
AllButOneSent(w) ==
  /\ Goto(w, "send", "index")
  /\ sent[w] + 1 = Len(Page(w).links)
  /\ UNCHANGED <<tvars, depth, working, sent, mpc, indexed, failed>>

AllSent(w) ==
  /\ Goto(w, "send", "index")
  /\ sent[w] = Len(Page(w).links)
  /\ UNCHANGED <<tvars, depth, working, sent, mpc, indexed, failed>>

(* Text to words, words to the database; the result of addOnePageData is
   ignored.                                                                *)
Store(w) ==
  /\ Goto(w, "index", "leave")
  /\ indexed' = indexed \cup {running[w].url}
  /\ UNCHANGED <<tvars, depth, working, sent, mpc, failed>>

StoreFails(w) ==
  /\ Goto(w, "index", "leave")
  /\ \E f \in {"text", "database"} : Fail(w, f)
  /\ UNCHANGED <<tvars, depth, working, sent, mpc, indexed>>

(* The fetch_sub after the catch clauses.                                  *)
Leave(w) ==
  /\ Goto(w, "leave", "return")
  /\ working' = working - 1
  /\ UNCHANGED <<tvars, depth, sent, mpc, indexed, failed>>

Return(w) ==
  /\ Goto(w, "return", "idle")
  /\ Pool!Finish(w)
  /\ UNCHANGED <<depth, working, sent, mpc, indexed, failed>>

-----------------------------------------------------------------------------
MainStep ==
  \/ \E d \in Depths : Start(d) \/ RejectDepth(d)
  \/ Announce \/ DestroyPool \/ PoolDestroyed \/ DestroyFields

VisitStep(w) ==
  \/ Enter(w) \/ Malformed(w) \/ FetchPage(w) \/ FetchRedirect(w) \/ FetchNothing(w)
  \/ Hang(w) \/ Drop(w) \/ Extract(w) \/ LastLevel(w) \/ ExtractThrows(w)
  \/ SendLink(w) \/ AllSent(w) \/ Store(w) \/ StoreFails(w) \/ Leave(w) \/ Return(w)

Next ==
  \/ MainStep
  \/ \E w \in Worker : VisitStep(w) \/ \E v \in pending : Take(w, v)

Spec == Init /\ [][Next]_vars

(* main() and every worker inside a visit go on; a submitted visit is
   taken, which is what EveryTaskRuns of ThreadPool says.  A request that
   does not hang ends: the peer answers, or the connection breaks.         *)
Fairness ==
  /\ WF_vars(MainStep)
  /\ \A w \in Worker : WF_vars(VisitStep(w))
  /\ WF_vars(\E w \in Worker : \E v \in pending : Take(w, v))

FairSpec == Spec /\ Fairness

-----------------------------------------------------------------------------
Known == pending \cup {running[w] : w \in {u \in Worker : running[u] # NoTask}} \cup finished

(* The steps between a visit's fetch_add and its fetch_sub.                *)
Counted == {"fetch", "hung", "drop", "extract", "send", "index", "leave"}

CrowlerTypeOK ==
  /\ pending \subseteq Visit
  /\ running \in [Worker -> Visit \cup {NoTask}]
  /\ finished \subseteq Visit
  /\ life \in {"open", "closing", "closed"}
  /\ depth \in Nat \ {0}
  /\ working \in Int
  /\ pc \in [Worker -> Counted \cup {"idle", "enter", "return"}]
  /\ sent \in [Worker -> Nat]
  /\ mpc \in {"configure", "polling", "finished", "leaving", "draining", "gone"}
  /\ indexed \subseteq Url
  /\ failed \subseteq [visit : Visit, fault : AllFaults]

(* Whichever way a visit ends, an empty page, an exception or success,
   what its fetch_add added its fetch_sub takes away, once: isWorking()
   counts the workers inside (crowler.cpp:58, 77, 224).                    *)
WorkingExact == working = Cardinality({w \in Worker : pc[w] \in Counted})

(* Every visit follows a chain of links and redirects from the start page,
   one level of depth per link, and no deeper than CROWLER.depth: what was
   submitted, by whichever worker, is what some page on the chain held.    *)
Stop(v, i) == IF i <= Len(v.trail) THEN v.trail[i].page ELSE v.url

OnTrail(v) ==
  /\ v.depth > 0
  /\ v.depth + Len(v.trail) = depth
  /\ Stop(v, 1) = StartUrl
  /\ \A i \in 1..Len(v.trail) :
       LET links == Web[Stop(v, i)].links IN
       v.trail[i].nth \in DOMAIN links /\ Stop(v, i + 1) = links[v.trail[i].nth]

EveryVisitOnTrail == \A v \in Known : OnTrail(v)

(* Crowler's members outlive its tasks (crowler.h:77-79): no task is
   running or waiting to run once they are destroyed, although main()
   begins to destroy them while tasks are queued.                          *)
FieldsOutliveTasks ==
  mpc = "gone" => pending = {} /\ \A w \in Worker : pc[w] = "idle"

(* When the program is done it has visited all that is within reach, and
   nothing else, and indexed each of its pages, but for what failed: a
   failed visit costs its own page and what only it leads to.  (Depth falls
   from a page to its links, so what is closed under Followed and has a
   referrer for each visit is the least such set.)                         *)
FailedBy(v, F) == \E f \in F : [visit |-> v, fault |-> f] \in failed

Followed(v) ==
  IF \/ v.depth <= 1
     \/ FailedBy(v, {"network", "hang", "links"})
     \/ Web[v.url].kind \notin {"page", "redirect"}
  THEN {}
  ELSE {Child(v, n) : n \in DOMAIN Web[v.url].links}

FirstVisit == [url |-> StartUrl, depth |-> depth, trail |-> <<>>]

Read(v) == Web[v.url].kind = "page" /\ ~FailedBy(v, AllFaults)

CrawlComplete ==
  mpc = "gone" /\ finished # {} =>
    /\ FirstVisit \in finished
    /\ \A v \in finished : Followed(v) \subseteq finished
    /\ \A v \in finished \ {FirstVisit} : \E r \in finished : v \in Followed(r)
    /\ indexed = {v.url : v \in {r \in finished : Read(r)}}

(* The program ends, unless a request never does: main() sees isWorking()
   false, and the destructor that it then runs drains the pool.            *)
ProgramEnds == <>(mpc = "gone") \/ <>(\E w \in Worker : pc[w] = "hung")

-----------------------------------------------------------------------------
(* What main.cpp:66 reports, "Crowler: finished", after waiting for
   isWorking() to turn false: nothing is left to visit.  That the first
   visit has begun by then is left to the two seconds main() sleeps before
   it looks; said here is what holds of a crawl that has made a visit.     *)
FinishedMeansDone ==
  [][Announce /\ finished # {} =>
       pending = {} /\ \A w \in Worker : running[w] = NoTask]_vars
=============================================================================
