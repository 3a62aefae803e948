-------------------------- MODULE CrawlIndexProofs --------------------------
(***************************************************************************)
(* What is proved of the crawler together with its index: it is still the  *)
(* crawler of Crowler, so that what is proved there holds here, and what   *)
(* it has read is in the index, for any web, texts, workers and faults.    *)
(***************************************************************************)
EXTENDS CrawlIndex, CrowlerProofs

(* A call belongs to the visit its worker is in, and so does its page.     *)
CallOfVisit ==
  \A w \in Worker : call[w] # "idle" =>
    /\ pc[w] = "index"
    /\ doc[w] \in given /\ doc[w].link = running[w].url
    /\ rest[w] \subseteq DOMAIN doc[w].words

(* Under this word a search finds what a visit of the URL has read.        *)
Current(u, x) == found[u][x] \in CountsRead(u, x)

CanBeFound(p) ==
  title[p.link] # NoTitle /\ \A x \in DOMAIN p.words : Current(p.link, x)

(* What a call has behind it is in the index, whoever else is putting.     *)
PutSoFar ==
  \A w \in Worker :
    /\ call[w] = "storing" => \A x \in DOMAIN doc[w].words \ rest[w] : Current(doc[w].link, x)
    /\ call[w] = "stored" => CanBeFound(doc[w])

(* The parts of FoundIsCrawled.                                            *)
TitleIsRead(u) ==
  IF before.title[u] = NoTitle THEN title[u] \in TitlesRead(u) \cup {NoTitle}
  ELSE title[u] = before.title[u]

CountIsRead(u, x) ==
  /\ found[u][x] \in CountsRead(u, x) \cup {before.found[u][x]}
  /\ found[u][x] # 0 => title[u] # NoTitle

AllIsRead(u) == TitleIsRead(u) /\ \A x \in Word : CountIsRead(u, x)

BeingStored(u) ==
  \E w \in Worker : pc[w] = "index" /\ call[w] # "idle" /\ running[w].url = u

GivenUp(u) == \E e \in failed : e.fault = "database" /\ e.visit.url = u

Old(u) == <<title[u], found[u]>> = <<before.title[u], before.found[u]>>

Accounted(u) == Old(u) \/ u \in indexed \/ BeingStored(u) \/ GivenUp(u)

IndexInv ==
  /\ CrawlTypeOK /\ CallOfVisit /\ PutSoFar
  /\ \A u \in Url : AllIsRead(u) /\ Accounted(u)
  /\ \A p \in kept : CanBeFound(p)
  /\ \A u \in indexed : \E p \in kept : p.link = u

-----------------------------------------------------------------------------
(* Every step of the whole is a step of the crawler, or none.              *)
LEMMA CrawlerStep == [CrawlNext]_cvars => [Next]_vars
<1> SUFFICES ASSUME [CrawlNext]_cvars PROVE [Next]_vars
  OBVIOUS
<1>1. CASE UNCHANGED cvars
  BY <1>1 DEF cvars
<1>2. CASE MainStep
  BY <1>2 DEF Next
<1>3. ASSUME NEW w \in Worker, NEW v \in pending, Take(w, v) PROVE [Next]_vars
  BY <1>3 DEF Next
<1>4. ASSUME NEW w \in Worker, CrawlVisitStep(w) PROVE [Next]_vars
  <2>1. CASE OtherVisitStep(w)
    BY <2>1 DEF OtherVisitStep, Next
  <2>2. CASE IndexPage(w) \/ Storing(w)
    BY <2>2 DEF IndexPage, Storing
  <2>3. CASE PageStored(w) \/ PageNotStored(w) \/ TextThrows(w)
    BY <2>3 DEF PageStored, PageNotStored, TextThrows, VisitStep, Next
  <2> QED BY <1>4, <2>1, <2>2, <2>3 DEF CrawlVisitStep
<1> QED BY <1>1, <1>2, <1>3, <1>4 DEF CrawlNext

(* The crawler with its index is the crawler of Crowler.                   *)
THEOREM CrawlIsACrowler == CrawlSpec => Spec
<1>1. CrawlInit => Init
  BY DEF CrawlInit
<1> QED BY <1>1, CrawlerStep, PTL DEF CrawlSpec, Spec

-----------------------------------------------------------------------------
(* What the steps outside the index leave to the calls in it.              *)
LEMMA OutsideIndex ==
  ASSUME BaseInv,
         \/ MainStep
         \/ \E w \in Worker : \E v \in pending : Take(w, v)
         \/ \E w \in Worker : pc[w] # "index" /\ VisitStep(w)
  PROVE  /\ \A w \in Worker : pc[w] = "index" => pc'[w] = "index" /\ running'[w] = running[w]
         /\ indexed' = indexed
         /\ failed \subseteq failed'
<1> USE DEF BaseInv, CrowlerTypeOK
<1>1. CASE MainStep
  BY <1>1 DEF MainStep, Start, RejectDepth, Announce, DestroyPool, PoolDestroyed,
              DestroyFields, Pool!Submit, Pool!Close, Pool!Return, tvars
<1>2. ASSUME NEW w \in Worker, NEW v \in pending, Take(w, v)
      PROVE  /\ \A u \in Worker : pc[u] = "index" => pc'[u] = "index" /\ running'[u] = running[u]
             /\ indexed' = indexed /\ failed \subseteq failed'
  BY <1>2 DEF Take, Goto, Pool!Start
<1>3. ASSUME NEW w \in Worker, pc[w] # "index", VisitStep(w)
      PROVE  /\ \A u \in Worker : pc[u] = "index" => pc'[u] = "index" /\ running'[u] = running[u]
             /\ indexed' = indexed /\ failed \subseteq failed'
  <2>1. \A u \in Worker : u # w => pc'[u] = pc[u]
    BY <1>3 DEF VisitStep, Goto, Enter, Malformed, FetchPage, FetchRedirect, FetchNothing,
         Hang, Drop, Extract, LastLevel, ExtractThrows, SendLink, AllSent, Store,
         StoreFails, Leave, Return
  <2>2. \A u \in Worker : u # w => running'[u] = running[u]
    BY <1>3 DEF VisitStep, Enter, Malformed, FetchPage, FetchRedirect, FetchNothing,
         Hang, Drop, Extract, LastLevel, ExtractThrows, SendLink, AllSent, Store,
         StoreFails, Leave, Return, Pool!Submit, Pool!Finish, tvars
  <2>3. indexed' = indexed /\ failed \subseteq failed'
    BY <1>3 DEF VisitStep, Goto, Fail, Enter, Malformed, FetchPage, FetchRedirect, FetchNothing,
         Hang, Drop, Extract, LastLevel, ExtractThrows, SendLink, AllSent, Store,
         StoreFails, Leave, Return
  <2> QED BY <1>3, <2>1, <2>2, <2>3
<1> QED BY <1>1, <1>2, <1>3

LEMMA PageFacts ==
  ASSUME NEW p \in AllPages
  PROVE  /\ p.link \in Url /\ p.title \in Title /\ DOMAIN p.words \subseteq Word
         /\ \A x \in DOMAIN p.words : p.words[x] \in Nat \ {0}
<1>1. PICK u \in Url : \E t \in Texts[u] : p = PageOf(u, t)
  BY DEF AllPages
<1> QED BY <1>1, TextConstants DEF PageOf

LEMMA CallIs ==
  ASSUME IndexInv, NEW w \in Worker, call[w] # "idle"
  PROVE  /\ pc[w] = "index" /\ doc[w] \in given /\ doc[w] \in AllPages
         /\ doc[w].link \in Url /\ doc[w].link = running[w].url
         /\ doc[w].title \in Title /\ doc[w].title # NoTitle
         /\ rest[w] \subseteq DOMAIN doc[w].words /\ DOMAIN doc[w].words \subseteq Word
<1>1. /\ pc[w] = "index" /\ doc[w] \in given /\ doc[w].link = running[w].url
      /\ rest[w] \subseteq DOMAIN doc[w].words
  BY DEF IndexInv, CallOfVisit
<1>2. doc[w] \in AllPages
  BY <1>1 DEF IndexInv, CrawlTypeOK
<1> QED BY <1>1, <1>2, PageFacts, TextConstants

(* How a step of the index moves its call.                                 *)
LEMMA CallMoves ==
  ASSUME IndexInv, NEW w \in Worker, Index!IndexStep(w)
  PROVE  /\ call[w] = "storing" /\ UNCHANGED doc
         /\ call' \in [Worker -> {"idle", "storing", "stored", "failed"}]
         /\ rest' \in [Worker -> SUBSET Word]
         /\ \A v \in Worker \ {w} : call'[v] = call[v] /\ rest'[v] = rest[v]
         /\ call'[w] \in {"storing", "stored", "failed"}
         /\ rest'[w] \subseteq rest[w]
         /\ call'[w] = "stored" => Index!Succeed(w)
         /\ call'[w] = "storing" =>
              \A x \in Word : x \in rest[w] /\ x \notin rest'[w] => Index!PutWord(w, x)
<1>1. /\ call \in [Worker -> {"idle", "storing", "stored", "failed"}]
      /\ rest \in [Worker -> SUBSET Word]
  BY DEF IndexInv, CrawlTypeOK
<1>2. CASE Index!PutTitle(w)
  BY <1>1, <1>2 DEF Index!PutTitle, Index!Put, Index!End
<1>3. ASSUME NEW x \in Word, Index!PutWord(w, x)
      PROVE  /\ call[w] = "storing" /\ UNCHANGED doc
             /\ \/ rest' = [rest EXCEPT ![w] = @ \ {x}] /\ UNCHANGED call
                \/ call' = [call EXCEPT ![w] = "failed"] /\ rest' = [rest EXCEPT ![w] = {}]
  BY <1>1, <1>3 DEF Index!PutWord, Index!Put, Index!End
<1>4. CASE Index!Succeed(w)
  BY <1>1, <1>4 DEF Index!Succeed, Index!End
<1>5. CASE Index!GiveUp(w)
  BY <1>1, <1>5 DEF Index!GiveUp, Index!End
<1>6. ASSUME NEW x \in Word, Index!PutWord(w, x)
      PROVE  /\ call' \in [Worker -> {"idle", "storing", "stored", "failed"}]
             /\ rest' \in [Worker -> SUBSET Word]
             /\ \A v \in Worker \ {w} : call'[v] = call[v] /\ rest'[v] = rest[v]
             /\ call'[w] \in {"storing", "failed"}
             /\ rest'[w] \subseteq rest[w]
             /\ call'[w] = "storing" => rest'[w] = rest[w] \ {x}
  BY <1>1, <1>3, <1>6
<1>7. ASSUME NEW x \in Word, Index!PutWord(w, x), call'[w] = "storing",
             NEW y \in Word, y \in rest[w], y \notin rest'[w]
      PROVE  Index!PutWord(w, y)
  <2>1. y = x
    BY <1>6, <1>7
  <2> QED BY <1>7, <2>1
<1>8. ASSUME NEW x \in Word, Index!PutWord(w, x)
      PROVE  call'[w] = "storing" =>
               \A y \in Word : y \in rest[w] /\ y \notin rest'[w] => Index!PutWord(w, y)
  BY <1>7, <1>8
<1> QED BY <1>2, <1>3, <1>4, <1>5, <1>6, <1>8 DEF Index!IndexStep

(* What a step of the index changes: for the page being stored a title may
   come, and a count is put as the visit has read it.                      *)
LEMMA IndexChange ==
  ASSUME IndexInv, NEW w \in Worker, Index!IndexStep(w)
  PROVE  /\ call[w] = "storing" /\ UNCHANGED doc
         /\ title' \in [Url -> Title \cup {NoTitle}]
         /\ found' \in [Url -> [Word -> Nat]]
         /\ \A u \in Url \ {doc[w].link} : title'[u] = title[u] /\ found'[u] = found[u]
         /\ \A u \in Url : /\ title'[u] \in TitlesRead(u) \cup {title[u]}
                           /\ title[u] # NoTitle => title'[u] = title[u]
         /\ \A u \in Url, x \in Word :
              \/ found'[u][x] = found[u][x]
              \/ found'[u][x] \in CountsRead(u, x) /\ title[u] # NoTitle
<1> DEFINE p == doc[w]
<1>1. call[w] = "storing" /\ UNCHANGED doc
  BY DEF Index!IndexStep, Index!PutTitle, Index!PutWord, Index!Succeed, Index!GiveUp,
         Index!Put, Index!End
<1>2. /\ p \in given /\ p.link \in Url /\ p.title \in Title
      /\ DOMAIN p.words \subseteq Word /\ rest[w] \subseteq DOMAIN p.words
      /\ \A x \in DOMAIN p.words : p.words[x] \in Nat
  BY <1>1, CallIs, PageFacts
<1>3. title \in [Url -> Title \cup {NoTitle}] /\ found \in [Url -> [Word -> Nat]]
  BY DEF IndexInv, CrawlTypeOK
<1>4. CASE Index!PutTitle(w)
  <2>1. /\ title' = [title EXCEPT ![p.link] = IF @ = NoTitle THEN p.title ELSE @]
        /\ found' = found
    BY <1>4 DEF Index!PutTitle
  <2>2. p.title \in TitlesRead(p.link)
    BY <1>2 DEF TitlesRead
  <2> DEFINE l == p.link
             t == p.title
  <2>3. /\ l \in Url /\ t \in Title /\ t \in TitlesRead(l)
        /\ title' = [title EXCEPT ![l] = IF @ = NoTitle THEN t ELSE @]
    BY <1>2, <2>1, <2>2
  <2> HIDE DEF l, t
  <2>4. /\ title' \in [Url -> Title \cup {NoTitle}]
        /\ \A u \in Url \ {l} : title'[u] = title[u]
        /\ title'[l] \in {t, title[l]} /\ (title[l] # NoTitle => title'[l] = title[l])
    BY <1>3, <2>3
  <2> QED BY <1>1, <1>3, <2>1, <2>3, <2>4 DEF l
<1>5. ASSUME NEW x \in Word, Index!PutWord(w, x)
      PROVE  /\ title' = title /\ found' \in [Url -> [Word -> Nat]]
             /\ \A u \in Url \ {p.link} : found'[u] = found[u]
             /\ \A u \in Url, y \in Word : \/ found'[u][y] = found[u][y]
                                           \/ found'[u][y] \in CountsRead(u, y) /\ title[u] # NoTitle
  <2>1. /\ title' = title /\ found' = [found EXCEPT ![p.link][x] = p.words[x]]
        /\ x \in DOMAIN p.words /\ title[p.link] # NoTitle
    BY <1>2, <1>5 DEF Index!PutWord, Index!HasTitle
  <2>2. p.words[x] \in CountsRead(p.link, x)
    BY <1>2, <2>1 DEF CountsRead
  <2> DEFINE n == p.words[x]
             l == p.link
  <2>3. n \in Nat /\ l \in Url /\ found' = [found EXCEPT ![l][x] = n]
        /\ n \in CountsRead(l, x) /\ title[l] # NoTitle
    BY <1>2, <2>1, <2>2
  <2> HIDE DEF n, l
  <2>4. /\ found' \in [Url -> [Word -> Nat]]
        /\ \A u \in Url \ {l} : found'[u] = found[u]
        /\ \A y \in Word : found'[l][y] = IF y = x THEN n ELSE found[l][y]
    BY <1>3, <2>3
  <2> QED BY <2>1, <2>3, <2>4 DEF l
<1>6. CASE Index!Succeed(w) \/ Index!GiveUp(w)
  BY <1>1, <1>3, <1>6 DEF Index!Succeed, Index!GiveUp
<1>7. ASSUME NEW x \in Word, Index!PutWord(w, x)
      PROVE  /\ \A u \in Url : /\ title'[u] \in TitlesRead(u) \cup {title[u]}
                               /\ title[u] # NoTitle => title'[u] = title[u]
             /\ title' \in [Url -> Title \cup {NoTitle}]
  BY <1>3, <1>5, <1>7
<1>8. CASE \E x \in Word : Index!PutWord(w, x)
  BY <1>1, <1>5, <1>7, <1>8
<1> QED BY <1>4, <1>6, <1>8 DEF Index!IndexStep

(* More is read, nothing is forgotten.                                     *)
LEMMA ReadGrows ==
  ASSUME given \subseteq given', NEW u, NEW x
  PROVE  TitlesRead(u) \subseteq TitlesRead(u)' /\ CountsRead(u, x) \subseteq CountsRead(u, x)'
BY DEF TitlesRead, CountsRead

(* A call that succeeds leaves its page to be found.                       *)
LEMMA SuccessCanBeFound ==
  ASSUME IndexInv, NEW w \in Worker, Index!Succeed(w)
  PROVE  CanBeFound(doc[w])
<1>1. call[w] = "storing" /\ title[doc[w].link] # NoTitle /\ rest[w] = {}
  BY DEF Index!Succeed, Index!HasTitle
<1>2. \A x \in DOMAIN doc[w].words : Current(doc[w].link, x)
  BY <1>1 DEF IndexInv, PutSoFar
<1> QED BY <1>1, <1>2 DEF CanBeFound

LEMMA StoringStep ==
  ASSUME BaseInv, IndexInv, NEW w \in Worker, Storing(w), CrowlerTypeOK'
  PROVE  IndexInv'
<1>1. Index!IndexStep(w) /\ UNCHANGED <<pc, running, indexed, failed, before, given, kept>>
  BY DEF Storing, vars
<1>2. /\ call[w] = "storing" /\ doc' = doc
      /\ pc[w] = "index" /\ doc[w] \in given /\ doc[w].link = running[w].url
  BY <1>1, CallMoves, CallIs
<1>3. /\ \A v \in Worker \ {w} : call'[v] = call[v] /\ rest'[v] = rest[v]
      /\ call' \in [Worker -> {"idle", "storing", "stored", "failed"}]
      /\ rest' \in [Worker -> SUBSET Word]
      /\ call'[w] \in {"storing", "stored", "failed"}
      /\ rest'[w] \subseteq rest[w]
  BY <1>1, CallMoves
<1>4. \A u, x : TitlesRead(u)' = TitlesRead(u) /\ CountsRead(u, x)' = CountsRead(u, x)
  BY <1>1 DEF TitlesRead, CountsRead
<1>5. CrawlTypeOK'
  BY <1>1, <1>2, <1>3, IndexChange DEF IndexInv, CrawlTypeOK
<1>6. CallOfVisit'
  BY <1>1, <1>2, <1>3 DEF IndexInv, CallOfVisit
<1>7. ASSUME NEW u \in Url, NEW x \in Word, Current(u, x) PROVE Current(u, x)'
  BY <1>1, <1>4, <1>7, IndexChange DEF Current
<1>8. ASSUME NEW p \in AllPages, CanBeFound(p) PROVE CanBeFound(p)'
  <2>1. p.link \in Url /\ DOMAIN p.words \subseteq Word
    BY PageFacts
  <2>2. title'[p.link] # NoTitle
    BY <1>1, <1>8, <2>1, IndexChange DEF CanBeFound
  <2>3. \A x \in DOMAIN p.words : Current(p.link, x)'
    BY <1>7, <1>8, <2>1 DEF CanBeFound
  <2> QED BY <2>2, <2>3 DEF CanBeFound
<1>9. PutSoFar'
  <2> SUFFICES ASSUME NEW v \in Worker
               PROVE  /\ call'[v] = "storing" =>
                           \A x \in DOMAIN doc'[v].words \ rest'[v] : Current(doc[v].link, x)'
                      /\ call'[v] = "stored" => CanBeFound(doc[v])'
    BY DEF PutSoFar
  <2>1. ASSUME call'[v] = "stored" PROVE CanBeFound(doc[v])'
    <3>1. CanBeFound(doc[v]) /\ doc[v] \in AllPages
      <4>1. CASE v # w
        BY <1>3, <2>1, <4>1, CallIs DEF IndexInv, PutSoFar
      <4>2. CASE v = w
        BY <1>1, <1>2, <2>1, <4>2, CallMoves, CallIs, SuccessCanBeFound
      <4> QED BY <4>1, <4>2
    <3>2. PICK p \in AllPages : p = doc[v] /\ p = doc'[v]
      BY <1>2, <3>1
    <3>3. CanBeFound(p)'
      BY <1>8, <3>1, <3>2
    <3> QED BY <3>2, <3>3 DEF CanBeFound, Current, CountsRead
  <2>2. ASSUME call'[v] = "storing", NEW x \in DOMAIN doc'[v].words \ rest'[v]
        PROVE  Current(doc[v].link, x)'
    <3>1. call[v] = "storing"
      BY <1>2, <1>3, <2>2
    <3>2. PICK l \in Url : l = doc[v].link /\ l = doc'[v].link
      BY <1>2, <3>1, CallIs
    <3>3. x \in Word /\ x \in DOMAIN doc[v].words
      BY <1>2, <2>2, <3>1, CallIs
    <3>4. CASE x \notin rest[v]
      <4>1. Current(l, x)
        BY <3>1, <3>2, <3>3, <3>4 DEF IndexInv, PutSoFar
      <4>2. Current(l, x)'
        BY <1>7, <3>3, <4>1
      <4> QED BY <3>2, <4>2 DEF Current, CountsRead
    <3>5. CASE x \in rest[v]
      <4>1. v = w /\ Index!PutWord(w, x)
        BY <1>1, <1>3, <2>2, <3>3, <3>5, CallMoves
      <4>2. found' = [found EXCEPT ![l][x] = doc[w].words[x]]
        BY <3>2, <4>1 DEF Index!PutWord
      <4>3. found \in [Url -> [Word -> Nat]]
        BY DEF IndexInv, CrawlTypeOK
      <4>4. found'[l][x] = doc[w].words[x]
        BY <3>3, <4>2, <4>3
      <4>5. doc[w].words[x] \in CountsRead(l, x)
        BY <1>2, <3>2, <3>3, <4>1 DEF CountsRead
      <4>6. Current(l, x)'
        BY <1>4, <4>4, <4>5 DEF Current
      <4> QED BY <3>2, <4>6 DEF Current, CountsRead
    <3> QED BY <3>4, <3>5
  <2> QED BY <2>1, <2>2
<1>10. ASSUME NEW u \in Url PROVE AllIsRead(u)' /\ Accounted(u)'
  <2>1. AllIsRead(u) /\ Accounted(u)
    BY DEF IndexInv
  <2>2. TitleIsRead(u)'
    BY <1>1, <1>4, <2>1, IndexChange DEF AllIsRead, TitleIsRead
  <2>3. ASSUME NEW x \in Word PROVE CountIsRead(u, x)'
    BY <1>1, <1>4, <2>1, IndexChange DEF AllIsRead, CountIsRead
  <2>4. CASE u = doc[w].link
    <3>1. BeingStored(u)'
      BY <1>1, <1>2, <1>3, <2>4 DEF BeingStored
    <3> QED BY <2>2, <2>3, <3>1 DEF AllIsRead, Accounted
  <2>5. CASE u # doc[w].link
    <3>1. Old(u) => Old(u)'
      BY <1>1, <2>5, IndexChange DEF Old
    <3>2. BeingStored(u) => BeingStored(u)'
      BY <1>1, <1>2, <1>3, <2>5 DEF BeingStored
    <3>3. GivenUp(u) => GivenUp(u)'
      BY <1>1 DEF GivenUp
    <3> QED BY <1>1, <2>1, <2>2, <2>3, <3>1, <3>2, <3>3 DEF AllIsRead, Accounted
  <2> QED BY <2>4, <2>5
<1>11. \A p \in kept' : CanBeFound(p)'
  BY <1>1, <1>8 DEF IndexInv, CrawlTypeOK
<1>12. \A u \in indexed' : \E p \in kept' : p.link = u
  BY <1>1 DEF IndexInv
<1> QED BY <1>5, <1>6, <1>9, <1>10, <1>11, <1>12 DEF IndexInv

-----------------------------------------------------------------------------
(* What stays true of an index that no step has touched.                   *)
LEMMA IndexUntouched ==
  ASSUME IndexInv, UNCHANGED <<found, title, before>>, given \subseteq given'
  PROVE  /\ \A u \in Url : AllIsRead(u)'
         /\ \A u \in Url : Old(u) => Old(u)'
         /\ \A p : CanBeFound(p) => CanBeFound(p)'
         /\ \A u, x : Current(u, x) => Current(u, x)'
<1>1. ASSUME NEW u, NEW x, Current(u, x) PROVE Current(u, x)'
  BY <1>1, ReadGrows DEF Current
<1>2. ASSUME NEW p, CanBeFound(p) PROVE CanBeFound(p)'
  BY <1>1, <1>2 DEF CanBeFound
<1>3. ASSUME NEW u \in Url PROVE AllIsRead(u)'
  <2>1. AllIsRead(u)
    BY DEF IndexInv
  <2>2. TitleIsRead(u)'
    BY <2>1, ReadGrows DEF AllIsRead, TitleIsRead
  <2>3. ASSUME NEW x \in Word PROVE CountIsRead(u, x)'
    BY <2>1, ReadGrows DEF AllIsRead, CountIsRead
  <2> QED BY <2>2, <2>3 DEF AllIsRead
<1> QED BY <1>1, <1>2, <1>3 DEF Old

LEMMA CallingStep ==
  ASSUME BaseInv, IndexInv, NEW w \in Worker, IndexPage(w), CrowlerTypeOK'
  PROVE  IndexInv'
<1> DEFINE u0 == running[w].url
<1>1. PICK t \in Texts[u0] :
        /\ pc[w] = "index" /\ call[w] = "idle"
        /\ UNCHANGED <<pc, running, indexed, failed, found, title, before, kept>>
        /\ call' = [call EXCEPT ![w] = "storing"]
        /\ doc' = [doc EXCEPT ![w] = PageOf(u0, t)]
        /\ rest' = [rest EXCEPT ![w] = DOMAIN PageOf(u0, t).words]
        /\ given' = given \cup {PageOf(u0, t)}
  BY DEF IndexPage, Index!Begin, vars
<1> DEFINE p == PageOf(u0, t)
<1>2. u0 \in Url
  BY <1>1, RunningVisit DEF Visit
<1>3. p \in AllPages
  BY <1>2 DEF AllPages
<1>4. p.link = u0 /\ DOMAIN p.words \in SUBSET Word
  BY <1>3, PageFacts DEF PageOf
<1> HIDE DEF p
<1>5. CrawlTypeOK'
  BY <1>1, <1>3, <1>4 DEF IndexInv, CrawlTypeOK, p
<1>6. \A v \in Worker : /\ call'[v] = IF v = w THEN "storing" ELSE call[v]
                        /\ doc'[v] = IF v = w THEN p ELSE doc[v]
                        /\ rest'[v] = IF v = w THEN DOMAIN p.words ELSE rest[v]
  BY <1>1 DEF IndexInv, CrawlTypeOK, p
<1>7. p \in given' /\ given \subseteq given'
  BY <1>1 DEF p
<1>8. CallOfVisit'
  BY <1>1, <1>4, <1>6, <1>7 DEF IndexInv, CallOfVisit
<1>9. /\ \A u \in Url : AllIsRead(u)'
      /\ \A u \in Url : Old(u) => Old(u)'
      /\ \A q : CanBeFound(q) => CanBeFound(q)'
      /\ \A u, x : Current(u, x) => Current(u, x)'
  BY <1>1, <1>7, IndexUntouched
<1>10. PutSoFar'
  <2> SUFFICES ASSUME NEW v \in Worker
               PROVE  /\ call'[v] = "storing" =>
                           \A x \in DOMAIN doc'[v].words \ rest'[v] : Current(doc[v].link, x)'
                      /\ call'[v] = "stored" => CanBeFound(doc[v])'
    BY DEF PutSoFar
  <2>1. CASE v = w
    BY <1>6, <2>1
  <2>2. CASE v # w
    <3>1. PICK q : q = doc[v] /\ q = doc'[v]
      BY <1>6, <2>2
    <3>2. call'[v] = call[v] /\ rest'[v] = rest[v]
      BY <1>6, <2>2
    <3>3. /\ call[v] = "storing" => \A x \in DOMAIN q.words \ rest[v] : Current(q.link, x)
          /\ call[v] = "stored" => CanBeFound(q)
      BY <3>1 DEF IndexInv, PutSoFar
    <3>4. call'[v] = "storing" => \A x \in DOMAIN doc'[v].words \ rest'[v] : Current(doc[v].link, x)'
      BY <1>9, <3>1, <3>2, <3>3 DEF Current, CountsRead
    <3>5. call'[v] = "stored" => CanBeFound(doc[v])'
      BY <1>9, <3>1, <3>2, <3>3 DEF CanBeFound, Current, CountsRead
    <3> QED BY <3>4, <3>5
  <2> QED BY <2>1, <2>2
<1>11. ASSUME NEW u \in Url PROVE Accounted(u)'
  <2>1. BeingStored(u) => BeingStored(u)'
    BY <1>1, <1>6 DEF BeingStored
  <2>2. GivenUp(u) => GivenUp(u)'
    BY <1>1 DEF GivenUp
  <2> QED BY <1>1, <1>9, <2>1, <2>2 DEF IndexInv, Accounted
<1>12. /\ \A q \in kept' : CanBeFound(q)'
       /\ \A u \in indexed' : \E q \in kept' : q.link = u
  BY <1>1, <1>9 DEF IndexInv
<1> QED BY <1>5, <1>8, <1>9, <1>10, <1>11, <1>12 DEF IndexInv

(* A call that has returned leaves its page to the history.                *)
LEMMA ReturnedStep ==
  ASSUME BaseInv, IndexInv, CrowlerTypeOK', NEW w \in Worker,
         NEW result \in {"stored", "failed"}, Returned(w, result),
         \A v \in Worker \ {w} : pc'[v] = pc[v] /\ running'[v] = running[v],
         indexed \subseteq indexed', failed \subseteq failed', kept \subseteq kept',
         \/ running[w].url \in indexed'
         \/ \E e \in failed' : e.fault = "database" /\ e.visit.url = running[w].url,
         \A p \in kept' \ kept : p = doc[w] /\ result = "stored",
         \A u \in indexed' \ indexed : \E p \in kept' : p.link = u
  PROVE  IndexInv'
<1>1. /\ call[w] = result /\ call[w] # "idle" /\ UNCHANGED <<found, title, rest, before, given>>
      /\ call' = [call EXCEPT ![w] = "idle"]
      /\ doc' = [doc EXCEPT ![w] = NoPage]
  BY DEF Returned
<1>2. doc[w] \in given
  BY <1>1, CallIs
<1>3. CrawlTypeOK'
  <2>1. kept' \subseteq given'
    BY <1>1, <1>2 DEF IndexInv, CrawlTypeOK
  <2> QED BY <1>1, <2>1 DEF IndexInv, CrawlTypeOK
<1>4. \A v \in Worker : /\ call'[v] = IF v = w THEN "idle" ELSE call[v]
                        /\ v # w => doc'[v] = doc[v]
  BY <1>1 DEF IndexInv, CrawlTypeOK
<1>5. CallOfVisit'
  BY <1>1, <1>4 DEF IndexInv, CallOfVisit
<1>6. /\ \A u \in Url : AllIsRead(u)'
      /\ \A u \in Url : Old(u) => Old(u)'
      /\ \A q : CanBeFound(q) => CanBeFound(q)'
      /\ \A u, x : Current(u, x) => Current(u, x)'
  BY <1>1, IndexUntouched
<1>7. PutSoFar'
  BY <1>1, <1>4 DEF IndexInv, PutSoFar, CanBeFound, Current, CountsRead
<1>8. ASSUME NEW u \in Url PROVE Accounted(u)'
  <2>1. CASE u = running[w].url
    BY <2>1 DEF Accounted, GivenUp
  <2>2. CASE u # running[w].url
    <3>1. BeingStored(u) => BeingStored(u)'
      BY <1>4, <2>2 DEF BeingStored
    <3>2. GivenUp(u) => GivenUp(u)'
      BY DEF GivenUp
    <3> QED BY <1>6, <3>1, <3>2 DEF IndexInv, Accounted
  <2> QED BY <2>1, <2>2
<1>9. ASSUME NEW p \in kept' PROVE CanBeFound(p)'
  <2>1. CASE p \in kept
    BY <1>6, <2>1 DEF IndexInv
  <2>2. CASE p \notin kept
    <3>1. p = doc[w] /\ call[w] = "stored"
      BY <1>1, <2>2
    <3>2. CanBeFound(p)
      BY <3>1 DEF IndexInv, PutSoFar
    <3> QED BY <1>6, <3>2
  <2> QED BY <2>1, <2>2
<1>10. \A u \in indexed' : \E p \in kept' : p.link = u
  BY DEF IndexInv
<1> QED BY <1>3, <1>5, <1>6, <1>7, <1>8, <1>9, <1>10 DEF IndexInv

(* Steps that leave the index alone.                                       *)
LEMMA AsideStep ==
  ASSUME BaseInv, IndexInv, CrowlerTypeOK', UNCHANGED ivars,
         \A w \in Worker : call[w] # "idle" => pc'[w] = "index" /\ running'[w] = running[w],
         indexed' = indexed, failed \subseteq failed'
  PROVE  IndexInv'
<1>1. UNCHANGED <<found, title, call, doc, rest, before, given, kept>>
  BY DEF ivars
<1>2. CrawlTypeOK'
  BY <1>1 DEF IndexInv, CrawlTypeOK
<1>3. CallOfVisit' /\ PutSoFar'
  BY <1>1 DEF IndexInv, CallOfVisit, PutSoFar, CanBeFound, Current, CountsRead
<1>4. /\ \A u \in Url : AllIsRead(u)'
      /\ \A u \in Url : Old(u) => Old(u)'
      /\ \A q : CanBeFound(q) => CanBeFound(q)'
  BY <1>1, IndexUntouched
<1>5. ASSUME NEW u \in Url PROVE Accounted(u)'
  <2>1. BeingStored(u) => BeingStored(u)'
    BY <1>1 DEF BeingStored, IndexInv, CallOfVisit
  <2>2. GivenUp(u) => GivenUp(u)'
    BY DEF GivenUp
  <2> QED BY <1>4, <2>1, <2>2 DEF IndexInv, Accounted
<1>6. /\ \A p \in kept' : CanBeFound(p)'
      /\ \A u \in indexed' : \E p \in kept' : p.link = u
  BY <1>1, <1>4 DEF IndexInv
<1> QED BY <1>2, <1>3, <1>4, <1>5, <1>6 DEF IndexInv

LEMMA IndexInvStep == BaseInv /\ IndexInv /\ [CrawlNext]_cvars => IndexInv'
<1> SUFFICES ASSUME BaseInv, IndexInv, [CrawlNext]_cvars PROVE IndexInv'
  OBVIOUS
<1>1. CrowlerTypeOK'
  BY CrawlerStep, TypeStep
<1>2. \A w \in Worker : call[w] # "idle" => pc[w] = "index"
  BY DEF IndexInv, CallOfVisit
<1>3. CASE UNCHANGED cvars
  BY <1>1, <1>2, <1>3, AsideStep DEF cvars, vars
<1>4. CASE /\ UNCHANGED ivars
           /\ \/ MainStep
              \/ \E w \in Worker : \E v \in pending : Take(w, v)
              \/ \E w \in Worker : pc[w] # "index" /\ VisitStep(w)
  BY <1>1, <1>2, <1>4, OutsideIndex, AsideStep
<1>5. ASSUME NEW w \in Worker, IndexPage(w) \/ Storing(w) PROVE IndexInv'
  BY <1>1, <1>5, CallingStep, StoringStep
<1>6. ASSUME NEW w \in Worker, PageStored(w) \/ PageNotStored(w) \/ TextThrows(w)
      PROVE  /\ \A v \in Worker \ {w} : pc'[v] = pc[v] /\ running'[v] = running[v]
             /\ failed \subseteq failed'
             /\ pc[w] = "index"
  BY <1>6 DEF PageStored, PageNotStored, TextThrows, Store, StoreFails, Fail, Goto, tvars,
              BaseInv, CrowlerTypeOK
<1>7. ASSUME NEW w \in Worker, PageStored(w) PROVE IndexInv'
  <2>1. /\ indexed' = indexed \cup {running[w].url} /\ Returned(w, "stored")
        /\ kept' = kept \cup {doc[w]}
    BY <1>7 DEF PageStored, Store
  <2>2. doc[w].link = running[w].url
    BY <2>1, CallIs DEF Returned
  <2>3. \A u \in indexed' \ indexed : \E p \in kept' : p.link = u
    BY <2>1, <2>2
  <2> QED BY <1>1, <1>6, <1>7, <2>1, <2>3, ReturnedStep
<1>8. ASSUME NEW w \in Worker, PageNotStored(w) PROVE IndexInv'
  <2>1. indexed' = indexed /\ Returned(w, "failed") /\ kept' = kept
    BY <1>8 DEF PageNotStored, StoreFails
  <2>2. failed' = failed \cup {[visit |-> running[w], fault |-> "database"]}
    BY <1>8 DEF PageNotStored, Fail
  <2>3. \E e \in failed' : e.fault = "database" /\ e.visit.url = running[w].url
    <3>1. [visit |-> running[w], fault |-> "database"] \in failed'
      BY <2>2
    <3> QED BY <3>1
  <2> QED BY <1>1, <1>6, <1>8, <2>1, <2>3, ReturnedStep
<1>9. ASSUME NEW w \in Worker, TextThrows(w) PROVE IndexInv'
  <2>1. UNCHANGED ivars /\ call[w] = "idle" /\ indexed' = indexed
    BY <1>9 DEF TextThrows, StoreFails
  <2> QED BY <1>1, <1>2, <1>6, <1>9, <2>1, AsideStep
<1> QED BY <1>3, <1>4, <1>5, <1>7, <1>8, <1>9 DEF CrawlNext, CrawlVisitStep, OtherVisitStep

LEMMA IndexInvInit == CrawlInit => IndexInv
<1> SUFFICES ASSUME CrawlInit PROVE IndexInv
  OBVIOUS
<1>1. CrowlerTypeOK
  BY BaseInvInit DEF CrawlInit, BaseInv
<1>2. PICK e \in Earlier : found = e.found /\ title = e.title
  BY DEF CrawlInit, Index!IndexInit
<1>3. /\ found \in [Url -> [Word -> Nat]] /\ title \in [Url -> Title \cup {NoTitle}]
      /\ \A u \in Url, x \in Word : found[u][x] # 0 => title[u] # NoTitle
  BY <1>2, TextConstants
<1>4. before.found = found /\ before.title = title
  BY DEF CrawlInit
<1>5. before \in Earlier
  BY <1>2, TextConstants DEF CrawlInit
<1>6. /\ call = [w \in Worker |-> "idle"] /\ doc = [w \in Worker |-> NoPage]
      /\ rest = [w \in Worker |-> {}] /\ given = {} /\ kept = {} /\ indexed = {}
  BY DEF CrawlInit, Init, Index!IndexInit
<1>7. CrawlTypeOK
  BY <1>1, <1>3, <1>5, <1>6 DEF CrawlTypeOK
<1>8. \A u \in Url : AllIsRead(u) /\ Accounted(u)
  BY <1>3, <1>4 DEF AllIsRead, TitleIsRead, CountIsRead, Accounted, Old
<1> QED BY <1>6, <1>7, <1>8 DEF IndexInv, CallOfVisit, PutSoFar

-----------------------------------------------------------------------------
(* Every variable of the crawler and its index keeps its type.             *)
THEOREM CrawlTypeCorrect == CrawlSpec => []CrawlTypeOK
<1>1. IndexInv => CrawlTypeOK
  BY DEF IndexInv
<1>2. CrawlInit => BaseInv /\ IndexInv
  BY BaseInvInit, IndexInvInit DEF CrawlInit
<1>3. BaseInv /\ IndexInv /\ [CrawlNext]_cvars => BaseInv' /\ IndexInv'
  BY CrawlerStep, BaseInvStep, IndexInvStep
<1> QED BY <1>1, <1>2, <1>3, PTL DEF CrawlSpec

(* Whatever earlier programs left in the index: beside it there is nothing
   but what visits of this one have read, and where something is new of a
   page, a visit stores it, has stored it or was failed by the database
   (crowler.cpp:205): for any web, any texts, any number of workers.       *)
THEOREM IndexHoldsWhatWasRead == CrawlSpec => []FoundIsCrawled
<1>1. IndexInv => FoundIsCrawled
  BY DEF IndexInv, AllIsRead, TitleIsRead, CountIsRead, Accounted, Old, BeingStored,
         GivenUp, FoundIsCrawled
<1>2. CrawlInit => BaseInv /\ IndexInv
  BY BaseInvInit, IndexInvInit DEF CrawlInit
<1>3. BaseInv /\ IndexInv /\ [CrawlNext]_cvars => BaseInv' /\ IndexInv'
  BY CrawlerStep, BaseInvStep, IndexInvStep
<1> QED BY <1>1, <1>2, <1>3, PTL DEF CrawlSpec

(* Whatever earlier programs left in the index: when this one is done, each
   page that a visit has read without failing has been stored, and whatever
   was stored is found by each of its words, with a count that a visit has
   read, although visits overlap, read differently and fail.               *)
THEOREM WhatWasReadIsFound == CrawlSpec => []CrawledIsFound
<1>1. IndexInv /\ CrawlComplete => CrawledIsFound
  BY DEF IndexInv, CrawlComplete, CrawledIsFound, CanBeFound, Current
<1>2. CrawlInit => BaseInv /\ IndexInv
  BY BaseInvInit, IndexInvInit DEF CrawlInit
<1>3. BaseInv /\ IndexInv /\ [CrawlNext]_cvars => BaseInv' /\ IndexInv'
  BY CrawlerStep, BaseInvStep, IndexInvStep
<1>4. CrawlSpec => [](BaseInv /\ IndexInv)
  BY <1>2, <1>3, PTL DEF CrawlSpec
<1>5. CrawlSpec => []CrawlComplete
  BY CrawlIsACrowler, CrawlIsComplete
<1> QED BY <1>1, <1>4, <1>5, PTL
=============================================================================
