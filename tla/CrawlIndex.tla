---------------------------- MODULE CrawlIndex -----------------------------
(***************************************************************************)
(* The crawler program and its index: Crowler, whose visits end in a call  *)
(* of addOnePageData, over PageIndex, which CrowlerDatabase is shown to    *)
(* implement.  Where Crowler alone stores a page in one step, here a call  *)
(* begins, puts the page word by word while other visits, of the same page *)
(* perhaps, do the same, and reports; parseOnePage does not look at what.  *)
(* The index may hold what earlier programs left, and a page may read      *)
(* differently each time it is fetched.                                    *)
(***************************************************************************)
EXTENDS Crowler

CONSTANTS
  Title, Word,
  Texts,           \* what parseOnePage may make of the html of each URL
  Earlier,         \* what earlier programs may have left in the index
  NoPage, NoTitle  \* see PageIndex

(* A count has its row in links: that is inserted first.                   *)
ASSUME TextConstants ==
  /\ \A u \in Url : \A t \in Texts[u] :
       /\ t.title \in Title
       /\ DOMAIN t.words \subseteq Word
       /\ \A x \in DOMAIN t.words : t.words[x] \in Nat \ {0}
  /\ NoTitle \notin Title
  /\ Earlier \subseteq [found : [Url -> [Word -> Nat]], title : [Url -> Title \cup {NoTitle}]]
  /\ \A e \in Earlier, u \in Url, x \in Word : e.found[u][x] # 0 => e.title[u] # NoTitle

VARIABLES
  found, title, call, doc, rest,  \* see PageIndex, whose page is doc
  before,  \* history: what the index held when the program began
  given,   \* history: the pages that addOnePageData was called with
  kept     \* history: those it reported as stored

ivars == <<found, title, call, doc, rest, before, given, kept>>
cvars == <<vars, ivars>>

PageOf(u, t) == [link |-> u, title |-> t.title, words |-> t.words]

AllPages == UNION {{PageOf(u, t) : t \in Texts[u]} : u \in Url}

Index == INSTANCE PageIndex WITH Link <- Url, Pages <- AllPages, page <- doc

CrawlInit ==
  /\ Init
  /\ Index!IndexInit
  /\ before = [found |-> found, title |-> title]
  /\ given = {} /\ kept = {}

-----------------------------------------------------------------------------
(* _database->addOnePageData(url, linkDescription, words)                  *)
IndexPage(w) ==
  /\ pc[w] = "index"
  /\ call[w] = "idle"
  /\ \E t \in Texts[running[w].url] :
       LET p == PageOf(running[w].url, t) IN
       /\ Index!Begin(w, p)
       /\ given' = given \cup {p}
  /\ UNCHANGED <<vars, before, kept>>

Storing(w) ==
  /\ Index!IndexStep(w)
  /\ call'[w] = "failed" => "database" \in Faults
  /\ UNCHANGED <<vars, before, given, kept>>

(* The call returns, its arguments are gone and its result is dropped.     *)
Returned(w, result) ==
  /\ call[w] = result
  /\ call' = [call EXCEPT ![w] = "idle"]
  /\ doc' = [doc EXCEPT ![w] = NoPage]
  /\ UNCHANGED <<found, title, rest, before, given>>

PageStored(w) == Store(w) /\ Returned(w, "stored") /\ kept' = kept \cup {doc[w]}

PageNotStored(w) ==
  /\ StoreFails(w)
  /\ Fail(w, "database")
  /\ Returned(w, "failed")
  /\ UNCHANGED kept

(* Cleaning the text throws before the call.                               *)
TextThrows(w) ==
  /\ StoreFails(w)
  /\ Fail(w, "text")
  /\ call[w] = "idle"
  /\ UNCHANGED ivars

OtherVisitStep(w) ==
  /\ pc[w] # "index"
  /\ VisitStep(w)
  /\ UNCHANGED ivars

-----------------------------------------------------------------------------
CrawlVisitStep(w) ==
  \/ OtherVisitStep(w)
  \/ IndexPage(w) \/ Storing(w) \/ PageStored(w) \/ PageNotStored(w) \/ TextThrows(w)

CrawlNext ==
  \/ MainStep /\ UNCHANGED ivars
  \/ \E w \in Worker : \/ CrawlVisitStep(w)
                       \/ \E v \in pending : Take(w, v) /\ UNCHANGED ivars

CrawlSpec == CrawlInit /\ [][CrawlNext]_cvars

(* As for Crowler: main() and the workers go on, and visits are taken.     *)
CrawlFairness ==
  /\ WF_cvars(MainStep /\ UNCHANGED ivars)
  /\ \A w \in Worker : WF_cvars(CrawlVisitStep(w))
  /\ WF_cvars(\E w \in Worker : \E v \in pending : Take(w, v) /\ UNCHANGED ivars)

FairCrawlSpec == CrawlSpec /\ CrawlFairness

-----------------------------------------------------------------------------
CrawlTypeOK ==
  /\ CrowlerTypeOK
  /\ found \in [Url -> [Word -> Nat]]
  /\ title \in [Url -> Title \cup {NoTitle}]
  /\ call \in [Worker -> {"idle", "storing", "stored", "failed"}]
  /\ doc \in [Worker -> AllPages \cup {NoPage}]
  /\ rest \in [Worker -> SUBSET Word]
  /\ before \in Earlier
  /\ given \subseteq AllPages /\ kept \subseteq given

(* What this program's visits have read of a URL.                          *)
TitlesRead(u) == {p.title : p \in {q \in given : q.link = u}}

CountsRead(u, x) == {p.words[x] : p \in {q \in given : q.link = u /\ x \in DOMAIN q.words}}

(* When the program is done, every page that a visit has read without
   failing has been stored, and every page reported as stored can be found:
   it has a title, and under each of its words a count that a visit of this
   program has read, whatever was there before, though other visits stored
   the same words or the same page meanwhile, perhaps with other counts,
   and though a call for the same page broke off half way.                 *)
CrawledIsFound ==
  mpc = "gone" =>
    /\ \A v \in finished : Read(v) => \E p \in kept : p.link = v.url
    /\ \A p \in kept : /\ title[p.link] # NoTitle
                       /\ \A x \in DOMAIN p.words : found[p.link][x] \in CountsRead(p.link, x)

(* Beside what earlier programs left, the index never holds what no visit
   has read: a title and a count are the old ones or those that some visit
   has read of that very URL, an old title stays and a count has a title;
   and where something is new, some visit is storing the page or has stored
   it, or the database has failed a visit of it and left it in part.       *)
FoundIsCrawled ==
  \A u \in Url :
    /\ IF before.title[u] = NoTitle THEN title[u] \in TitlesRead(u) \cup {NoTitle}
       ELSE title[u] = before.title[u]
    /\ \A x \in Word : /\ found[u][x] \in CountsRead(u, x) \cup {before.found[u][x]}
                       /\ found[u][x] # 0 => title[u] # NoTitle
    /\ <<title[u], found[u]>> # <<before.title[u], before.found[u]>> =>
         \/ u \in indexed
         \/ \E w \in Worker : pc[w] = "index" /\ call[w] # "idle" /\ running[w].url = u
         \/ \E e \in failed : e.fault = "database" /\ e.visit.url = u
=============================================================================
