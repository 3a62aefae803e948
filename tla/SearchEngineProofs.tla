------------------------- MODULE SearchEngineProofs -------------------------
(***************************************************************************)
(* Theorems about SearchEngine, for any number of connections, workers and *)
(* requests, any dictionary of words and any limit: what the server's      *)
(* answers may hold while the crawlers go on writing the tables.           *)
(***************************************************************************)
EXTENDS SearchHistory, CrowlerDatabaseProofs, FiniteSetTheorems

-----------------------------------------------------------------------------
(* Every set of numbers has a least one; every family of subsets of a finite
   set has a smallest one.  What fails somewhere fails there first: the two
   stand in for induction in the lemmas below.                             *)
LEMMA LeastNumber ==
  ASSUME NEW T, T \subseteq Nat, T # {}
  PROVE  \E n \in T : \A m \in T : n <= m
<1>1. PICK n \in T : \A m \in T : ~ (<<m, n>> \in OpToRel(<, Nat))
  BY NatLessThanWellFounded, WFMin
<1>2. ASSUME NEW m \in T PROVE n <= m
  <2>1. m \in Nat /\ n \in Nat
    OBVIOUS
  <2>2. ~ (<<m, n>> \in {ss \in Nat \X Nat : ss[1] < ss[2]})
    BY <1>1 DEF OpToRel
  <2> QED
    BY <2>1, <2>2
<1> QED
  BY <1>2

LEMMA LeastSubset ==
  ASSUME NEW S, IsFiniteSet(S), NEW F, F \subseteq SUBSET S, F # {}
  PROVE  \E T \in F : \A U \in F : U \subseteq T => U = T
<1>1. F \subseteq FiniteSubsetsOf(S)
  BY FS_FiniteSubsetsOfFinite
<1>2. PICK T \in F : \A U \in F : ~ (<<U, T>> \in StrictSubsetOrdering(S))
  BY <1>1, FS_StrictSubsetOrderingWellFounded, WFMin
<1> QED
  BY <1>2 DEF StrictSubsetOrdering

(* The sum of f over S, as SumFunctionOnSet adds it up: one element after
   another, each picked out of those that are left.                        *)
Any(s) == CHOOSE x \in s : TRUE

SumBody(g, f, s) == IF s = {} THEN 0 ELSE f[Any(s)] + g[s \ {Any(s)}]

IsSum(g, f, S) == g = [s \in SUBSET S |-> SumBody(g, f, s)]

LEMMA SumUnfold ==
  ASSUME NEW f, NEW S
  PROVE  SumFunctionOnSet(f, S) = (CHOOSE g : IsSum(g, f, S))[S]
BY DEF SumFunctionOnSet, FoldFunctionOnSet, MapThenFoldSet, IsSum, SumBody, Any

LEMMA AnyIsIn == ASSUME NEW s, s # {} PROVE Any(s) \in s
BY DEF Any

(* The recursion has a solution, and on each subset only one.              *)
LEMMA SumExists ==
  ASSUME NEW f, NEW S, IsFiniteSet(S)
  PROVE  \E g : IsSum(g, f, S)
<1> DEFINE Upto(n) == {s \in SUBSET S : Cardinality(s) <= n}
           Solved(n) == \E g : g = [s \in SUBSET S |-> g[s]]
                           /\ \A s \in Upto(n) : g[s] = SumBody(g, f, s)
           Bad == {n \in Nat : ~ Solved(n)}
<1>1. \A s \in SUBSET S : Cardinality(s) \in Nat /\ IsFiniteSet(s)
                          /\ Cardinality(s) <= Cardinality(S)
  BY FS_Subset, FS_CardinalityType
<1>2. Solved(0)
  <2> DEFINE g == [s \in SUBSET S |-> 0]
  <2>1. ASSUME NEW s \in Upto(0) PROVE g[s] = SumBody(g, f, s)
    <3>1. s = {} BY <1>1, FS_EmptySet
    <3> QED
      BY <3>1 DEF SumBody
  <2>2. g = [s \in SUBSET S |-> g[s]]
    OBVIOUS
  <2> HIDE DEF g
  <2> QED
    BY <2>1, <2>2
<1>3. ASSUME NEW n \in Nat, Solved(n) PROVE Solved(n + 1)
  <2>1. PICK g : /\ g = [s \in SUBSET S |-> g[s]]
                 /\ \A s \in Upto(n) : g[s] = SumBody(g, f, s)
    BY <1>3
  <2> DEFINE h == [s \in SUBSET S |-> SumBody(g, f, s)]
  <2>2. ASSUME NEW s \in Upto(n + 1) PROVE h[s] = SumBody(h, f, s)
    <3>1. CASE s = {} BY <3>1 DEF SumBody
    <3>2. CASE s # {}
      <4> DEFINE r == s \ {Any(s)}
      <4>1. r \in Upto(n)
        <5>1. Cardinality(r) = Cardinality(s) - 1
          BY <1>1, <3>2, AnyIsIn, FS_RemoveElement
        <5> QED
          BY <5>1, <1>1
      <4>2. h[r] = g[r]
        BY <4>1, <2>1
      <4>3. h[s] = SumBody(g, f, s)
        OBVIOUS
      <4> HIDE DEF h
      <4> QED
        BY <4>2, <4>3, <3>2 DEF SumBody
    <3> QED
      BY <3>1, <3>2
  <2>3. h = [s \in SUBSET S |-> h[s]]
    OBVIOUS
  <2> HIDE DEF h
  <2> QED
    BY <2>2, <2>3
<1>4. Bad = {}
  <2>1. SUFFICES ASSUME Bad # {} PROVE FALSE
    OBVIOUS
  <2>2. PICK n \in Bad : \A m \in Bad : n <= m
    BY <2>1, LeastNumber
  <2>3. n # 0 BY <1>2, <2>2
  <2>4. n - 1 \in Nat /\ ~ (n <= n - 1) /\ (n - 1) + 1 = n BY <2>3
  <2>5. Solved(n - 1) BY <2>4, <2>2
  <2>6. Solved((n - 1) + 1)
    <3> HIDE DEF Solved
    <3> QED
      BY <1>3, <2>4, <2>5
  <2> HIDE DEF Solved
  <2> QED
    BY <2>4, <2>6
<1>5. Solved(Cardinality(S))
  BY <1>4, <1>1
<1>6. PICK g : /\ g = [s \in SUBSET S |-> g[s]]
               /\ \A s \in Upto(Cardinality(S)) : g[s] = SumBody(g, f, s)
  BY <1>5
<1>7. g = [s \in SUBSET S |-> SumBody(g, f, s)]
  BY <1>6, <1>1
<1> QED
  BY <1>7 DEF IsSum

LEMMA SumUnique ==
  ASSUME NEW f, NEW S, IsFiniteSet(S), NEW T \in SUBSET S,
         NEW g, IsSum(g, f, S), NEW h, IsSum(h, f, T)
  PROVE  g[T] = h[T]
<1> DEFINE Differ == {s \in SUBSET T : g[s] # h[s]}
<1>1. SUFFICES ASSUME Differ # {} PROVE FALSE
  OBVIOUS
<1>2. IsFiniteSet(T)
  BY FS_Subset
<1>3. PICK s \in Differ : \A r \in Differ : r \subseteq s => r = s
  <2>1. Differ \subseteq SUBSET T
    OBVIOUS
  <2> HIDE DEF Differ
  <2> QED
    BY <1>1, <1>2, <2>1, LeastSubset
<1>4. g[s] = SumBody(g, f, s) /\ h[s] = SumBody(h, f, s)
  BY <1>3 DEF IsSum
<1>5. s # {}
  BY <1>3, <1>4 DEF SumBody
<1>6. g[s \ {Any(s)}] = h[s \ {Any(s)}]
  BY <1>3, <1>5, AnyIsIn
<1> QED
  BY <1>3, <1>4, <1>6, <1>5 DEF SumBody

(* So the sum is what its recursion says, of numbers it is a number ..     *)
LEMMA SumStep ==
  ASSUME NEW f, NEW S, IsFiniteSet(S)
  PROVE  SumFunctionOnSet(f, S) =
           IF S = {} THEN 0 ELSE f[Any(S)] + SumFunctionOnSet(f, S \ {Any(S)})
<1> DEFINE T == S \ {Any(S)}
<1>1. IsFiniteSet(T)
  BY FS_Subset
<1>2. PICK g : g = (CHOOSE k : IsSum(k, f, S)) /\ IsSum(g, f, S)
  BY SumExists
<1>3. PICK h : h = (CHOOSE k : IsSum(k, f, T)) /\ IsSum(h, f, T)
  BY SumExists, <1>1
<1>4. SumFunctionOnSet(f, S) = g[S] /\ SumFunctionOnSet(f, T) = h[T]
  BY <1>2, <1>3, SumUnfold
<1>5. g[T] = h[T]
  BY <1>2, <1>3, SumUnique
<1>6. g[S] = SumBody(g, f, S)
  BY <1>2 DEF IsSum
<1> QED
  BY <1>4, <1>5, <1>6 DEF SumBody

LEMMA SumType ==
  ASSUME NEW S, IsFiniteSet(S), NEW f, \A x \in S : f[x] \in Nat
  PROVE  SumFunctionOnSet(f, S) \in Nat
<1> DEFINE Bad == {s \in SUBSET S : SumFunctionOnSet(f, s) \notin Nat}
<1>1. SUFFICES ASSUME Bad # {} PROVE FALSE
  OBVIOUS
<1>2. PICK s \in Bad : \A r \in Bad : r \subseteq s => r = s
  <2>1. Bad \subseteq SUBSET S
    OBVIOUS
  <2> HIDE DEF Bad
  <2> QED
    BY <1>1, <2>1, LeastSubset
<1>3. IsFiniteSet(s)
  BY FS_Subset
<1>4. s # {}
  <2>1. s = {} => SumFunctionOnSet(f, s) = 0
    BY <1>3, SumStep
  <2> QED
    BY <1>2, <2>1
<1>5. Any(s) \in s
  BY <1>4, AnyIsIn
<1>6. SumFunctionOnSet(f, s \ {Any(s)}) \in Nat
  BY <1>2, <1>5
<1>7. f[Any(s)] \in Nat
  BY <1>5
<1>8. SumFunctionOnSet(f, s) = f[Any(s)] + SumFunctionOnSet(f, s \ {Any(s)})
  BY <1>3, <1>4, SumStep
<1> QED
  BY <1>2, <1>6, <1>7, <1>8

(* .. and any element may be the first.                                    *)
LEMMA SumAny ==
  ASSUME NEW S, IsFiniteSet(S), NEW f, \A x \in S : f[x] \in Nat, NEW y \in S
  PROVE  SumFunctionOnSet(f, S) = f[y] + SumFunctionOnSet(f, S \ {y})
<1> DEFINE Total(s) == SumFunctionOnSet(f, s)
           Bad == {s \in SUBSET S : \E z \in s : Total(s) # f[z] + Total(s \ {z})}
<1>1. SUFFICES ASSUME Bad # {} PROVE FALSE
  OBVIOUS
<1>2. PICK s \in Bad : \A r \in Bad : r \subseteq s => r = s
  <2>1. Bad \subseteq SUBSET S
    OBVIOUS
  <2> HIDE DEF Bad
  <2> QED
    BY <1>1, <2>1, LeastSubset
<1>3. PICK z \in s : Total(s) # f[z] + Total(s \ {z})
  BY <1>2
<1> DEFINE x == Any(s)
<1>4. x \in s
  BY <1>3, AnyIsIn
<1>5. \A r \in SUBSET S : IsFiniteSet(r) /\ Total(r) \in Nat
  BY FS_Subset, SumType
<1>6. Total(s) = f[x] + Total(s \ {x})
  BY <1>5, <1>3, SumStep
<1>7. z # x
  BY <1>3, <1>6
<1>8. Total(s \ {x}) = f[z] + Total((s \ {x}) \ {z})
  <2>1. s \ {x} \in SUBSET S /\ s \ {x} \subseteq s /\ s \ {x} # s /\ z \in s \ {x}
    BY <1>2, <1>3, <1>4, <1>7
  <2> QED
    BY <1>2, <2>1
<1>9. Total(s \ {z}) = f[x] + Total((s \ {z}) \ {x})
  <2>1. s \ {z} \in SUBSET S /\ s \ {z} \subseteq s /\ s \ {z} # s /\ x \in s \ {z}
    BY <1>2, <1>3, <1>4, <1>7
  <2> QED
    BY <1>2, <2>1
<1>10. (s \ {z}) \ {x} = (s \ {x}) \ {z}
  OBVIOUS
<1>11. /\ f[z] \in Nat /\ f[x] \in Nat
       /\ Total(s) \in Nat /\ Total(s \ {x}) \in Nat /\ Total(s \ {z}) \in Nat
       /\ Total((s \ {x}) \ {z}) \in Nat
  BY <1>4, <1>5
<1> HIDE DEF Total, x
<1> QED
  BY <1>3, <1>6, <1>8, <1>9, <1>10, <1>11

(* Numbers that stand, each at a place of its own, among others have no
   greater sum.                                                            *)
LEMMA SumOfInjection ==
  ASSUME NEW T, IsFiniteSet(T), NEW g, \A x \in T : g[x] \in Nat,
         NEW S, IsFiniteSet(S), NEW f, \A y \in S : f[y] \in Nat,
         NEW at \in [T -> S], \A x, z \in T : at[x] = at[z] => x = z,
         \A x \in T : f[at[x]] >= g[x]
  PROVE  SumFunctionOnSet(g, T) <= SumFunctionOnSet(f, S)
<1> DEFINE Of(t) == {at[x] : x \in t}
           Less(t) == \A s \in SUBSET S : Of(t) \subseteq s =>
                        SumFunctionOnSet(g, t) <= SumFunctionOnSet(f, s)
           Bad == {t \in SUBSET T : ~ Less(t)}
<1>1. SUFFICES ASSUME Bad # {} PROVE FALSE
  <2>1. T \in SUBSET T /\ S \in SUBSET S /\ Of(T) \subseteq S
    OBVIOUS
  <2> HIDE DEF Of
  <2> QED
    BY <2>1
<1>2. PICK t \in Bad : \A r \in Bad : r \subseteq t => r = t
  <2>1. Bad \subseteq SUBSET T
    OBVIOUS
  <2> HIDE DEF Bad
  <2> QED
    BY <1>1, <2>1, LeastSubset
<1>3. PICK s \in SUBSET S : /\ Of(t) \subseteq s
                            /\ ~ (SumFunctionOnSet(g, t) <= SumFunctionOnSet(f, s))
  BY <1>2
<1>4. IsFiniteSet(t) /\ IsFiniteSet(s)
  BY FS_Subset
<1>5. SumFunctionOnSet(f, s) \in Nat
  BY <1>4, SumType
<1>6. t # {}
  <2>1. SUFFICES ASSUME t = {} PROVE FALSE
    OBVIOUS
  <2>2. SumFunctionOnSet(g, t) = 0
    BY <1>4, <2>1, SumStep
  <2> QED
    BY <1>3, <1>5, <2>2
<1>7. PICK x \in t : TRUE
  BY <1>6
<1>8. at[x] \in s
  BY <1>3
<1>9. Of(t \ {x}) \subseteq s \ {at[x]}
  BY <1>3, <1>7
<1>10. Less(t \ {x})
  <2> HIDE DEF Less
  <2> QED
    BY <1>2, <1>7
<1>11. SumFunctionOnSet(g, t \ {x}) <= SumFunctionOnSet(f, s \ {at[x]})
  <2> HIDE DEF Of
  <2> QED
    BY <1>9, <1>10
<1>12. SumFunctionOnSet(g, t) = g[x] + SumFunctionOnSet(g, t \ {x})
  BY <1>4, <1>7, SumAny
<1>13. SumFunctionOnSet(f, s) = f[at[x]] + SumFunctionOnSet(f, s \ {at[x]})
  BY <1>4, <1>8, SumAny
<1>14. /\ SumFunctionOnSet(g, t \ {x}) \in Nat
       /\ SumFunctionOnSet(f, s \ {at[x]}) \in Nat
       /\ g[x] \in Nat /\ f[at[x]] \in Nat /\ f[at[x]] >= g[x]
  <2>1. IsFiniteSet(t \ {x}) /\ IsFiniteSet(s \ {at[x]})
    BY <1>4, FS_Subset
  <2> QED
    BY <2>1, SumType
<1> HIDE DEF Of
<1> QED
  BY <1>3, <1>11, <1>12, <1>13, <1>14

-----------------------------------------------------------------------------
(* The crawlers' side of a step is a step of CrowlerDatabase.              *)
LEMMA CrawlersGoOn == SearchSpec => Spec
<1>1. SearchInit => Init
  BY DEF SearchInit
<1>2. [SearchNext]_<<svars, vars>> => [Next]_vars
  BY DEF SearchNext, QueryStep, Search, SearchFails
<1> QED
  BY <1>1, <1>2, PTL DEF SearchSpec, Spec

(* A query ranks the links of finitely many crawls.                        *)
FewCrawled == IsFiniteSet(crawled)

LEMMA FewCrawledInvariant == Spec => []FewCrawled
<1>1. Init => FewCrawled
  BY FS_EmptySet DEF Init, FewCrawled
<1>2. FewCrawled /\ [Next]_vars => FewCrawled'
  <2> SUFFICES ASSUME FewCrawled, [Next]_vars
               PROVE  FewCrawled'
    OBVIOUS
  <2>1. ASSUME NEW w \in Worker, NEW p \in Page, AddOnePageData(w, p)
        PROVE  FewCrawled'
    BY <2>1, FS_AddElement DEF FewCrawled, AddOnePageData
  <2>2. ASSUME UNCHANGED crawled
        PROVE  FewCrawled'
    BY <2>2 DEF FewCrawled
  <2> QED
    BY <2>1, <2>2 DEF Next, vars, history, CreateTables, NextWord, StoreLink, PutLink,
       StoreWord, PutWord, StoreCount, PutCounts, ReturnFalse, IdTooLarge, DatabaseFails
<1> QED
  BY <1>1, <1>2, PTL DEF Spec

-----------------------------------------------------------------------------
(* Building an answer.                                                     *)
Parts == Files \cup Messages \cup {"Search results for", "list"}

Whole(a) == a.status # "ok" => a.links = <<>> /\ \E m \in Messages : a.body = <<m>>

LEMMA BodyFits ==
  ASSUME NEW a \in Answer, NEW b \in Seq(Parts), NEW a1, a1 = [a EXCEPT !.body = b]
  PROVE  a1 \in Answer /\ a1.links = a.links /\ a1.body = b
BY DEF Answer, Parts

LEMMA LinksFit ==
  ASSUME NEW a \in Answer, NEW k \in Seq(Link), NEW a1, a1 = [a EXCEPT !.links = k]
  PROVE  a1 \in Answer /\ a1.links = k /\ a1.body = a.body
BY DEF Answer

LEMMA FailureFits ==
  ASSUME NEW a \in Answer, NEW m \in Messages
  PROVE  /\ CreateResponseFailure(a, m) \in Answer
         /\ CreateResponseFailure(a, m).links = <<>>
         /\ CreateResponseFailure(a, m).body = <<m>>
<1>1. m \in Parts
  BY DEF Parts
<1>2. <<m>> \in Seq(Parts) /\ <<>> \in Seq(Link)
  BY <1>1
<1>3. PICK b \in Seq(Parts) : b = <<m>>
  BY <1>2
<1>4. PICK k \in Seq(Link) : k = <<>>
  BY <1>2
<1>5. PICK a1 : a1 = [a EXCEPT !.body = b]
  OBVIOUS
<1>6. PICK a2 : a2 = [a1 EXCEPT !.links = k]
  OBVIOUS
<1>7. a1 \in Answer /\ a1.body = b
  BY <1>5, BodyFits
<1>8. a2 \in Answer /\ a2.links = k /\ a2.body = a1.body
  BY <1>6, <1>7, LinksFit
<1>9. CreateResponseFailure(a, m) = a2
  BY <1>3, <1>4, <1>5, <1>6 DEF CreateResponseFailure
<1> QED
  BY <1>3, <1>4, <1>7, <1>8, <1>9

LEMMA WriteFits ==
  ASSUME NEW a \in Answer, NEW part \in Parts
  PROVE  Write(a, part) \in Answer /\ Write(a, part).links = a.links
<1>1. a.body \in Seq(Parts)
  BY DEF Answer, Parts
<1>2. Append(a.body, part) \in Seq(Parts)
  BY <1>1
<1>3. PICK b \in Seq(Parts) : b = Append(a.body, part)
  BY <1>2
<1>4. Write(a, part) = [a EXCEPT !.body = b]
  BY <1>3 DEF Write
<1> QED
  BY <1>4, BodyFits

LEMMA ResultFits ==
  ASSUME NEW a \in Answer, NEW s \in {"ok", "bad_request", "internal_server_error"}
  PROVE  /\ Result(a, s) \in Answer
         /\ Result(a, s).links = a.links
         /\ Result(a, s).body = a.body
         /\ Result(a, s).status = s
BY DEF Answer, Result

LEMMA OkFits == Ok \in Answer /\ Ok.links = <<>> /\ Ok.status = "ok"
BY DEF Answer, Ok

LEMMA FileFits ==
  ASSUME NEW a \in Answer, NEW name \in Files
  PROVE  /\ GetContentFromFile(a, name) \in Answer
         /\ GetContentFromFile(a, name).links \in {a.links, <<>>}
         /\ name \notin files => /\ GetContentFromFile(a, name).links = <<>>
                                 /\ GetContentFromFile(a, name).body
                                      = <<"Internal server error">>
         /\ name \in files => GetContentFromFile(a, name).links = a.links
BY WriteFits, FailureFits DEF GetContentFromFile, Messages, Parts

LEMMA WholePageFits ==
  ASSUME NEW name \in Files
  PROVE  WholePage(name) \in Answer /\ Whole(WholePage(name)) /\ WholePage(name).links = <<>>
<1> DEFINE a == GetContentFromFile(Ok, name)
           s == IF name \in files THEN "ok" ELSE "internal_server_error"
<1>1. /\ a \in Answer
      /\ a.links = <<>>
      /\ name \notin files => a.body = <<"Internal server error">>
  BY FileFits, OkFits
<1>2. s \in {"ok", "bad_request", "internal_server_error"}
  OBVIOUS
<1> HIDE DEF a, s
<1>3. Result(a, s) \in Answer /\ Result(a, s).links = <<>> /\ Result(a, s).status = s
      /\ Result(a, s).body = a.body
  BY <1>1, <1>2, ResultFits
<1>4. s # "ok" => name \notin files
  BY DEF s
<1>5. WholePage(name) = Result(a, s)
  BY DEF WholePage, a, s
<1> QED
  BY <1>1, <1>3, <1>4, <1>5 DEF Whole, Messages

LEMMA GetFits ==
  ASSUME NEW r \in Request
  PROVE  /\ CreateResponseGet(r) \in Answer
         /\ Whole(CreateResponseGet(r))
         /\ CreateResponseGet(r).links = <<>>
<1>1. CASE r.target = "/"
  BY <1>1, WholePageFits DEF CreateResponseGet, Files
<1>2. CASE r.target = "/style.css"
  BY <1>2, WholePageFits DEF CreateResponseGet, Files
<1>3. CASE r.target \notin {"/", "/style.css"}
  <2>1. CreateResponseGet(r) = CreateResponseFailure(Ok, "Page not found")
    BY <1>3 DEF CreateResponseGet
  <2>2. CreateResponseFailure(Ok, "Page not found").body = <<"Page not found">>
    BY OkFits, FailureFits DEF Messages
  <2> QED
    BY <2>1, <2>2, OkFits, FailureFits DEF Whole, Messages
<1> QED
  BY <1>1, <1>2, <1>3

(* A request without a search is answered with a page, without links.      *)
LEMMA PlainAnswerFits ==
  ASSUME NEW r \in Request
  PROVE  PlainAnswer(r) \in Answer /\ Whole(PlainAnswer(r)) /\ PlainAnswer(r).links = <<>>
<1> DEFINE F(m) == CreateResponseFailure(Ok, m)
           Bad(m) == Result(F(m), "bad_request")
<1>1. ASSUME NEW m \in Messages
      PROVE  /\ F(m) \in Answer /\ F(m).links = <<>> /\ Whole(F(m))
             /\ Bad(m) \in Answer /\ Bad(m).links = <<>> /\ Whole(Bad(m))
  <2>1. F(m) \in Answer /\ F(m).links = <<>> /\ F(m).body = <<m>>
    BY OkFits, FailureFits
  <2>2. Bad(m) \in Answer /\ Bad(m).links = <<>> /\ Bad(m).body = <<m>>
    BY <2>1, ResultFits
  <2> QED
    BY <2>1, <2>2 DEF Whole
<1>2. \/ PlainAnswer(r) = CreateResponseGet(r)
      \/ \E m \in Messages : PlainAnswer(r) \in {F(m), Bad(m)}
  BY DEF PlainAnswer, Messages
<1> QED
  BY <1>1, <1>2, GetFits
LEMMA ResultPageFits ==
  ASSUME NEW found \in Seq(Link)
  PROVE  /\ ResultPage(found) \in Answer
         /\ Whole(ResultPage(found))
         /\ ResultPage(found).links \in {found, <<>>}
         /\ ResultPage(found).status = "ok" => ResultPage(found).links = found
<1>1. PICK first : first = Write(GetContentFromFile(Ok, "result_page_1"), "Search results for")
  OBVIOUS
<1>2. PICK second : second = Write(GetContentFromFile(first, "result_page_2"), "list")
  OBVIOUS
<1>3. PICK listed : listed = [second EXCEPT !.links = found]
  OBVIOUS
<1>4. PICK third : third = GetContentFromFile(listed, "result_page_3")
  OBVIOUS
<1>5. PICK s \in {"ok", "bad_request", "internal_server_error"} :
        s = IF "result_page_3" \in files THEN "ok" ELSE "internal_server_error"
  OBVIOUS
<1>6. first \in Answer
  BY <1>1, OkFits, FileFits, WriteFits DEF Files, Parts
<1>7. second \in Answer
  BY <1>2, <1>6, FileFits, WriteFits DEF Files, Parts
<1>8. listed \in Answer /\ listed.links = found
  BY <1>3, <1>7, LinksFit
<1>9. /\ third \in Answer
      /\ third.links \in {found, <<>>}
      /\ s # "ok" => third.links = <<>> /\ third.body = <<"Internal server error">>
      /\ s = "ok" => third.links = found
  BY <1>4, <1>5, <1>8, FileFits DEF Files
<1>10. /\ Result(third, s) \in Answer /\ Result(third, s).status = s
       /\ Result(third, s).links = third.links /\ Result(third, s).body = third.body
  BY <1>9, ResultFits
<1>11. ResultPage(found) = Result(third, s)
  BY <1>1, <1>2, <1>3, <1>4, <1>5 DEF ResultPage
<1> QED
  BY <1>9, <1>10, <1>11 DEF Whole, Messages

(* A search is answered with links the query returned and no others.       *)
LEMMA SearchAnswerFits ==
  ASSUME NEW found \in Seq(Link)
  PROVE  /\ SearchAnswer(found) \in Answer
         /\ Whole(SearchAnswer(found))
         /\ SearchAnswer(found).links \in {found, <<>>}
         /\ SearchAnswer(found).status = "ok" => SearchAnswer(found).links = found
<1>1. CASE found # <<>>
  BY <1>1, ResultPageFits DEF SearchAnswer
<1>2. CASE found = <<>>
  <2>1. SearchAnswer(found) = CreateResponseFailure(Ok, "did not match any documents")
    BY <1>2 DEF SearchAnswer
  <2>2. SearchAnswer(found).links = found
    BY <1>2, <2>1, OkFits, FailureFits DEF Messages
  <2> QED
    BY <2>1, <2>2, OkFits, FailureFits DEF Whole, Messages
<1> QED
  BY <1>1, <1>2

-----------------------------------------------------------------------------
(* What the query returns.                                                 *)
LEMMA RowsHaveCrawls ==
  ASSUME DatabaseTypeOK, IndexFromCrawls, NEW ws, NEW l \in Matching(ws)
  PROVE  \E p \in crawled : p.link = l /\ DOMAIN p.words \cap Like(ws) # {}
<1>1. PICK r \in RowsOf(l, ws) : TRUE
  BY DEF Matching
<1>2. l \in Link /\ linkId[l] # 0 /\ r \in counts /\ r.id_link = linkId[l]
  BY <1>1 DEF Matching, RowsOf
<1>3. PICK x \in Like(ws) : wordId[x] # 0 /\ r.id_word = wordId[x]
  BY <1>1 DEF RowsOf
<1>4. x \in Word
  BY <1>3 DEF Like
<1>5. r \in Entries(l, x)
  BY <1>2, <1>3 DEF Entries
<1>6. PICK p \in crawled : p.link = l /\ x \in DOMAIN p.words
  BY <1>2, <1>4, <1>5 DEF IndexFromCrawls
<1> QED
  BY <1>3, <1>6

LEMMA FewMatch ==
  ASSUME DatabaseTypeOK, IndexFromCrawls, FewCrawled, NEW ws
  PROVE  IsFiniteSet(Matching(ws)) /\ Shown(ws) \in Nat
<1>1. IsFiniteSet(Matching(ws))
  <2> DEFINE links == {p.link : p \in crawled}
             linkOf == [p \in crawled |-> p.link]
  <2>1. linkOf \in Surjection(crawled, links)
    BY DEF Surjection
  <2>2. IsFiniteSet(links)
    BY <2>1, FS_Surjection DEF FewCrawled
  <2>3. Matching(ws) \subseteq links
    BY RowsHaveCrawls
  <2> QED
    BY <2>2, <2>3, FS_Subset
<1> QED
  BY <1>1, FS_CardinalityType, SearchConstants DEF Shown

LEMMA QueryReturnsMatches ==
  ASSUME DatabaseTypeOK, IndexFromCrawls, FewCrawled, NEW ws,
         NEW found \in GetLinksOnWordsRelevance(ws)
  PROVE  found \in Seq(Link) /\ Listed(found) \subseteq Matching(ws)
<1>1. PICK n \in Nat : n = Shown(ws)
  BY FewMatch
<1>2. found \in [1..n -> Matching(ws)]
  BY <1>1 DEF GetLinksOnWordsRelevance
<1>3. found \in Seq(Matching(ws))
  BY <1>1, <1>2
<1>4. Matching(ws) \subseteq Link
  BY DEF Matching
<1> QED
  BY <1>2, <1>3, <1>4 DEF Listed

-----------------------------------------------------------------------------
(* The server's part of the invariant, and what it needs of the tables.    *)
ServerInv == ServerTypeOK /\ ErrorsAreWhole /\ FoundWasCrawled

TablesInv == IdInv /\ IndexFromCrawls /\ FewCrawled

(* The steps that leave each answer alone, with its request, or drop it,
   and wait for nothing new.                                               *)
LEMMA FrameAnswers ==
  ASSUME ErrorsAreWhole, FoundWasCrawled, crawled \subseteq crawled',
         \A c \in Connection :
           \/ answer'[c] = NoAnswer
           \/ answer'[c] = answer[c] /\ request'[c] = request[c]
  PROVE  ErrorsAreWhole' /\ FoundWasCrawled'
<1>1. ErrorsAreWhole'
  BY DEF ErrorsAreWhole
<1>2. ASSUME NEW c \in Connection, answer'[c] # NoAnswer, NEW l \in Listed(answer'[c].links)
      PROVE  \E p \in crawled' : p.link = l /\ DOMAIN p.words \cap Like(request'[c].words) # {}
  <2>1. answer'[c] = answer[c] /\ request'[c] = request[c]
    BY <1>2
  <2>2. PICK p \in crawled : p.link = l /\ DOMAIN p.words \cap Like(request[c].words) # {}
    BY <1>2, <2>1 DEF FoundWasCrawled
  <2> QED
    BY <2>1, <2>2
<1> QED
  BY <1>1, <1>2 DEF FoundWasCrawled, Listed, Like

(* A new answer to one connection.                                         *)
LEMMA NewAnswer ==
  ASSUME ErrorsAreWhole, FoundWasCrawled, UNCHANGED crawled,
         NEW c \in Connection, NEW a, answer \in [Connection -> Answer \cup {NoAnswer}],
         answer' = [answer EXCEPT ![c] = a], Whole(a),
         \A d \in Connection \ {c} : request'[d] = request[d],
         \A l \in Listed(a.links) :
           \E p \in crawled : p.link = l /\ DOMAIN p.words \cap Like(request'[c].words) # {}
  PROVE  ErrorsAreWhole' /\ FoundWasCrawled'
<1>1. answer'[c] = a /\ \A d \in Connection \ {c} : answer'[d] = answer[d]
  OBVIOUS
<1>2. ASSUME NEW d \in Connection, answer'[d] # NoAnswer
      PROVE  Whole(answer'[d])
  BY <1>1, <1>2 DEF ErrorsAreWhole, Whole
<1>3. ASSUME NEW d \in Connection, answer'[d] # NoAnswer, NEW l \in Listed(answer'[d].links)
      PROVE  \E p \in crawled' : p.link = l /\ DOMAIN p.words \cap Like(request'[d].words) # {}
  BY <1>1, <1>3 DEF FoundWasCrawled
<1> QED
  BY <1>2, <1>3 DEF ErrorsAreWhole, FoundWasCrawled, Whole, Listed, Like

LEMMA ServerInvInit == SearchInit => ServerInv
<1> SUFFICES ASSUME SearchInit
             PROVE  ServerInv
  OBVIOUS
<1>1. ServerTypeOK
  BY ServerConstants DEF SearchInit, ServerInit, ServerTypeOK
<1>2. \A c \in Connection : answer[c] = NoAnswer
  BY DEF SearchInit, ServerInit
<1> QED
  BY <1>1, <1>2 DEF ServerInv, ErrorsAreWhole, FoundWasCrawled

LEMMA ReadRequestKeeps ==
  ASSUME ServerInv, NEW c \in Connection, NEW r \in Requests, ReadRequest(c, r), UNCHANGED vars
  PROVE  ServerInv'
<1> USE DEF ServerInv
<1>1. /\ Free /\ conn[c] = "reading"
      /\ request' = [request EXCEPT ![c] = r]
      /\ UNCHANGED <<life, accepting, files, crawled>>
      /\ r \in Request
  BY ServerConstants DEF ReadRequest, vars
<1>2. CASE IsSearch(r)
  <2>1. /\ conn' = [conn EXCEPT ![c] = "searching"] /\ querying' = c
        /\ UNCHANGED answer
    BY <1>2 DEF ReadRequest
  <2>2. ServerTypeOK'
    BY <1>1, <2>1, ServerConstants DEF ServerTypeOK, Free
  <2>3. answer'[c] = NoAnswer
    BY <1>1, <2>1 DEF ServerTypeOK
  <2>4. \A d \in Connection \ {c} : answer'[d] = answer[d] /\ request'[d] = request[d]
    BY <1>1, <2>1 DEF ServerTypeOK
  <2> QED
    BY <1>1, <2>2, <2>3, <2>4, FrameAnswers
<1>3. CASE ~IsSearch(r)
  <2>1. PICK a : a = PlainAnswer(r)
    OBVIOUS
  <2>2. /\ conn' = [conn EXCEPT ![c] = "writing"]
        /\ answer' = [answer EXCEPT ![c] = a]
        /\ UNCHANGED querying
    BY <1>3, <2>1 DEF ReadRequest
  <2>3. a \in Answer /\ Whole(a) /\ a.links = <<>>
    BY <1>1, <2>1, PlainAnswerFits
  <2>4. ServerTypeOK'
    BY <1>1, <2>2, <2>3, ServerConstants DEF ServerTypeOK, Free
  <2>5. Listed(a.links) = {}
    BY <2>3 DEF Listed
  <2>6. \A d \in Connection \ {c} : request'[d] = request[d]
    BY <1>1 DEF ServerTypeOK
  <2> QED
    BY <1>1, <2>2, <2>3, <2>4, <2>5, <2>6, NewAnswer DEF ServerTypeOK
<1> QED
  BY <1>2, <1>3

LEMMA SearchedKeeps ==
  ASSUME ServerInv, NEW c \in Connection, NEW found \in Seq(Link), Searched(c, found),
         UNCHANGED vars,
         \A l \in Listed(found) :
           \E p \in crawled : p.link = l /\ DOMAIN p.words \cap Like(request[c].words) # {}
  PROVE  ServerInv'
<1> USE DEF ServerInv
<1>1. PICK a : a = SearchAnswer(found)
  OBVIOUS
<1>2. /\ life = "running" /\ querying = c /\ querying' = NoConnection
      /\ conn' = [conn EXCEPT ![c] = "writing"]
      /\ answer' = [answer EXCEPT ![c] = a]
      /\ UNCHANGED <<life, accepting, files, request, crawled>>
  BY <1>1 DEF Searched, vars
<1>3. a \in Answer /\ Whole(a) /\ a.links \in {found, <<>>}
  BY <1>1, SearchAnswerFits
<1>4. ServerTypeOK'
  BY <1>2, <1>3, ServerConstants DEF ServerTypeOK
<1>5. Listed(a.links) \subseteq Listed(found)
  BY <1>3 DEF Listed
<1>6. answer \in [Connection -> Answer \cup {NoAnswer}]
  BY DEF ServerTypeOK
<1>7. ErrorsAreWhole' /\ FoundWasCrawled'
  BY <1>2, <1>3, <1>5, <1>6, NewAnswer
<1> QED
  BY <1>4, <1>7

LEMMA ServerStepKeeps ==
  ASSUME ServerInv, ServerStep, UNCHANGED vars
  PROVE  ServerInv'
<1> USE DEF ServerInv
<1>1. UNCHANGED crawled
  BY DEF vars
<1>2. CASE Listen \/ AcceptFails \/ RunReturns
  <2>1. ServerTypeOK'
    BY <1>2 DEF ServerTypeOK, Listen, AcceptFails, RunReturns
  <2>2. UNCHANGED <<answer, request>>
    BY <1>2 DEF Listen, AcceptFails, RunReturns
  <2> QED
    BY <1>1, <2>1, <2>2, FrameAnswers
<1>3. ASSUME NEW c \in Connection, Accept(c)
      PROVE  ServerInv'
  <2>1. ServerTypeOK'
    BY <1>3 DEF ServerTypeOK, Accept
  <2>2. UNCHANGED <<answer, request>>
    BY <1>3 DEF Accept
  <2> QED
    BY <1>1, <2>1, <2>2, FrameAnswers
<1>4. ASSUME NEW c \in Connection, Broken(c) \/ Written(c)
      PROVE  ServerInv'
  <2>1. PICK how \in {"broken", "answered"} : Done(c, how)
    BY <1>4 DEF Broken, Written
  <2>2. Free
    BY <1>4 DEF Broken, Written
  <2>3. ServerTypeOK'
    BY <2>1, <2>2, ServerConstants DEF ServerTypeOK, Done, Free
  <2>4. \A d \in Connection :
          \/ answer'[d] = NoAnswer
          \/ answer'[d] = answer[d] /\ request'[d] = request[d]
    BY <2>1 DEF Done, ServerTypeOK
  <2> QED
    BY <1>1, <2>3, <2>4, FrameAnswers
<1>5. ASSUME NEW c \in Connection, HandlerThrows(c)
      PROVE  ServerInv'
  <2>1. ServerTypeOK'
    BY <1>5, ServerConstants DEF ServerTypeOK, HandlerThrows, Destroyed, Free
  <2>2. \A d \in Connection : answer'[d] = NoAnswer
    BY <1>5 DEF HandlerThrows, Destroyed
  <2> QED
    BY <1>1, <2>1, <2>2, FrameAnswers
<1> QED
  BY <1>2, <1>3, <1>4, <1>5, ReadRequestKeeps DEF ServerStep

LEMMA ServerInvStep ==
  ServerInv /\ TablesInv /\ [SearchNext]_<<svars, vars>> => ServerInv'
<1> SUFFICES ASSUME ServerInv, TablesInv, [SearchNext]_<<svars, vars>>
             PROVE  ServerInv'
  OBVIOUS
<1>1. CASE UNCHANGED svars /\ [Next]_vars
  <2>1. crawled \subseteq crawled'
    BY <1>1, IdsStay DEF TablesInv
  <2>2. ServerTypeOK'
    BY <1>1 DEF ServerInv, ServerTypeOK, svars
  <2>3. UNCHANGED <<answer, request>>
    BY <1>1 DEF svars
  <2> QED
    BY <2>1, <2>2, <2>3, FrameAnswers DEF ServerInv
<1>2. ASSUME NEW c \in Connection, Search(c)
      PROVE  ServerInv'
  <2>1. PICK found \in GetLinksOnWordsRelevance(request[c].words) : Searched(c, found)
    BY <1>2 DEF Search
  <2>2. /\ found \in Seq(Link)
        /\ Listed(found) \subseteq Matching(request[c].words)
    BY QueryReturnsMatches DEF TablesInv, IdInv, BaseInv
  <2>3. \A l \in Listed(found) :
          \E p \in crawled : p.link = l /\ DOMAIN p.words \cap Like(request[c].words) # {}
    BY <2>2, RowsHaveCrawls DEF TablesInv, IdInv, BaseInv
  <2>4. UNCHANGED vars
    BY <1>2 DEF Search
  <2> QED
    BY <2>1, <2>2, <2>3, <2>4, SearchedKeeps
<1>3. ASSUME NEW c \in Connection, SearchFails(c)
      PROVE  ServerInv'
  <2>1. <<>> \in Seq(Link)
    OBVIOUS
  <2>2. PICK found \in Seq(Link) : found = <<>>
    BY <2>1
  <2>3. Listed(found) = {}
    BY <2>2 DEF Listed
  <2> QED
    BY <1>3, <2>2, <2>3, SearchedKeeps DEF SearchFails
<1> QED
  BY <1>1, <1>2, <1>3, ServerStepKeeps DEF SearchNext, QueryStep

LEMMA ServerInvariant == SearchSpec => [](ServerInv /\ TablesInv)
<1>1. IdInv /\ IndexFromCrawls /\ FewCrawled => TablesInv
  BY DEF TablesInv
<1> QED
  BY <1>1, ServerInvInit, ServerInvStep, CrawlersGoOn, IdInvariant, IndexIsFromCrawls,
     FewCrawledInvariant, PTL DEF SearchSpec

(* The server's state, its answers and the tables have their types, and a
   connection waits for a query exactly while that query blocks the thread.*)
THEOREM SearchTypeCorrect == SearchSpec => []SearchTypeOK
<1>1. ServerInv /\ TablesInv => SearchTypeOK
  BY DEF ServerInv, TablesInv, IdInv, BaseInv, SearchTypeOK
<1> QED
  BY <1>1, ServerInvariant, PTL

(* Whichever page files are missing, an answer with an error status is one
   message, and no half of a result page.                                  *)
THEOREM ErrorPagesAreWhole == SearchSpec => []ErrorsAreWhole
<1>1. ServerInv => ErrorsAreWhole
  BY DEF ServerInv
<1> QED
  BY <1>1, ServerInvariant, PTL

(* Every link in every answer is one on which a crawl has found a word that
   contains a searched one, although the query reads the tables between any
   two transactions of any number of calls.                                *)
THEOREM FoundIsFromCrawls == SearchSpec => []FoundWasCrawled
<1>1. ServerInv => FoundWasCrawled
  BY DEF ServerInv
<1> QED
  BY <1>1, ServerInvariant, PTL

-----------------------------------------------------------------------------
(* What is stored is found.  The tables never hold more rows than there were
   transactions.                                                           *)
FewRows == IsFiniteSet(counts)

LEMMA FewRowsInvariant == Spec => []FewRows
<1>1. Init => FewRows
  BY FS_EmptySet DEF Init, FewRows
<1>2. FewRows /\ [Next]_vars => FewRows'
  <2> SUFFICES ASSUME FewRows, [Next]_vars
               PROVE  FewRows'
    OBVIOUS
  <2>1. ASSUME NEW w \in Worker, StoreCount(w)
        PROVE  FewRows'
    <3>1. IsFiniteSet(counts \ AtKey(w))
      BY FS_Subset DEF FewRows
    <3> QED
      BY <2>1, <3>1, FS_AddElement DEF FewRows, StoreCount, PutCounts
  <2>2. ASSUME UNCHANGED counts
        PROVE  FewRows'
    BY <2>2 DEF FewRows
  <2> QED
    BY <2>1, <2>2 DEF Next, vars, rows, CreateTables, AddOnePageData, NextWord, StoreLink,
       PutLink, StoreWord, PutWord, ReturnFalse, IdTooLarge, DatabaseFails
<1> QED
  BY <1>1, <1>2, PTL DEF Spec

LEMMA RelevanceType ==
  ASSUME DatabaseTypeOK, FewRows, NEW l, NEW ws
  PROVE  Relevance(l, ws) \in Nat
<1> DEFINE S == RowsOf(l, ws)
           f == [r \in S |-> r.count_words]
<1>1. IsFiniteSet(S)
  BY FS_Subset DEF RowsOf, FewRows
<1>2. \A r \in S : f[r] \in Nat
  BY DEF RowsOf, DatabaseTypeOK, Row
<1>3. Relevance(l, ws) = SumFunctionOnSet(f, S)
  BY DEF Relevance, SumFunction
<1> HIDE DEF f, S
<1> QED
  BY <1>1, <1>2, <1>3, SumType

(* What a page that was reported as stored still has in the tables: a row
   for each of its words, with its own count while the history says so.    *)
InTables(p) ==
  \A x \in DOMAIN p.words :
    \E r \in Entries(p.link, x) : p \in lasting => r.count_words = p.words[x]

HistoryInv ==
  /\ reported \subseteq Page /\ lasting \subseteq reported
  /\ \A p \in reported : InTables(p)
  /\ \A p \in lasting : p.link \notin Touched

(* What has just been reported is in the tables.                           *)
NewInTables ==
  \A p \in Reports : (p \in lasting => p \in LoneReports) => p \in Page /\ InTables(p)

LEMMA ReportsInTables == IdInv /\ TodoShrinks /\ WordsKept => NewInTables
<1> SUFFICES ASSUME IdInv, TodoShrinks, WordsKept,
                    NEW p \in Reports, p \in lasting => p \in LoneReports
             PROVE  p \in Page /\ InTables(p)
  BY DEF NewInTables
<1>1. ASSUME NEW w \in Worker, pc[w] = "stored"
      PROVE  /\ page[w] \in Page
             /\ \A x \in DOMAIN page[w].words : \E r \in Entries(page[w].link, x) :
                  alone[w] => r.count_words = page[w].words[x]
  <2>1. page[w] \in Page
    BY <1>1 DEF IdInv, BaseInv, CallsHavePages, DatabaseTypeOK
  <2>2. StoredWhenReported
    BY DEF TodoShrinks, WordsKept, StoredWhenReported, Stored, AtHand, Kept, Entries
  <2> QED
    BY <1>1, <2>1, <2>2 DEF StoredWhenReported
<1>2. CASE p \in LoneReports
  <2>1. PICK w \in Worker : pc[w] = "stored" /\ alone[w] /\ p = page[w]
    BY <1>2 DEF LoneReports
  <2> QED
    BY <1>1, <2>1 DEF InTables
<1>3. CASE p \notin lasting
  <2>1. PICK w \in Worker : pc[w] = "stored" /\ p = page[w]
    BY DEF Reports
  <2> QED
    BY <1>1, <1>3, <2>1 DEF InTables
<1> QED
  BY <1>2, <1>3

(* A row stays where it is, and only a call for its link replaces it.      *)
LEMMA RowStays ==
  ASSUME IdInv, [Next]_vars, NEW l \in Link, NEW x \in Word, NEW r \in Entries(l, x)
  PROVE  \E s \in Entries(l, x)' : l \in Touched \/ s = r
<1> USE DEF IdInv, BaseInv, DatabaseTypeOK
<1>1. r.id_link = linkId'[l] /\ r.id_word = wordId'[x]
  BY IdsStay DEF Entries
<1>2. CASE r \in counts'
  BY <1>1, <1>2 DEF Entries
<1>3. ASSUME NEW w \in Worker, StoreCount(w), r \notin counts'
      PROVE  l \in Touched /\ Entries(l, x)' # {}
  <2>1. PICK n : n = CountRow(w, GivenCount(w))
    OBVIOUS
  <2>2. counts' = (counts \ AtKey(w)) \cup {n} /\ pc[w] = "count"
    BY <1>3, <2>1 DEF StoreCount, PutCounts, Committed
  <2>3. r \in AtKey(w)
    BY <1>3, <2>2 DEF Entries
  <2>4. n.id_link = r.id_link /\ n.id_word = r.id_word
    BY <2>1, <2>3 DEF AtKey, CountRow
  <2>5. Entries(l, x)' # {}
    BY <1>1, <2>2, <2>4 DEF Entries
  <2>6. page[w].link \in Link
    BY <2>2, PageFacts DEF CallsHavePages
  <2>7. linkId[page[w].link] = linkId[l] /\ linkId[l] # 0
    BY <2>2, <2>3 DEF AtKey, Entries, IdsNameRows
  <2>8. page[w].link = l
    BY <2>6, <2>7 DEF IdsNameRows, SameId
  <2> QED
    BY <2>2, <2>5, <2>8 DEF Touched, Inside
<1>4. CASE counts' = counts
  BY <1>1, <1>4 DEF Entries
<1> QED
  BY <1>2, <1>3, <1>4 DEF Next, vars, rows, CreateTables, AddOnePageData, NextWord, StoreLink,
     PutLink, StoreWord, PutWord, ReturnFalse, IdTooLarge, DatabaseFails

LEMMA HistoryInvStep ==
  ASSUME HistoryInv, HistoryNext, [Next]_vars, IdInv, NewInTables'
  PROVE  HistoryInv'
<1>1. /\ reported' = reported \cup Reports'
      /\ lasting' = {p \in lasting \cup LoneReports' : p.link \notin Touched'}
  BY DEF HistoryNext
<1>2. LoneReports' \subseteq Reports'
  BY DEF LoneReports, Reports
<1>3. ASSUME NEW p \in Reports', p \in lasting' => p \in LoneReports'
      PROVE  p \in Page /\ InTables(p)'
  BY <1>3 DEF NewInTables
<1>4. ASSUME NEW p \in reported, p \in lasting' => p \in lasting
      PROVE  InTables(p)'
  <2>1. p \in Page /\ InTables(p)
    BY DEF HistoryInv
  <2>2. p.link \in Link /\ DOMAIN p.words \subseteq Word
    BY <2>1, PageFacts
  <2>3. p \in lasting' => p.link \notin Touched
    BY <1>4 DEF HistoryInv
  <2>4. ASSUME NEW x \in DOMAIN p.words
        PROVE  \E r \in Entries(p.link, x)' : p \in lasting' => r.count_words = p.words[x]
    <3>1. PICK r \in Entries(p.link, x) : p \in lasting => r.count_words = p.words[x]
      BY <2>1 DEF InTables
    <3>2. PICK s \in Entries(p.link, x)' : p.link \in Touched \/ s = r
      BY <2>2, RowStays
    <3> QED
      BY <1>4, <2>3, <3>1, <3>2
  <2> QED
    BY <2>4 DEF InTables
<1>5. ASSUME NEW p \in reported' PROVE p \in Page /\ InTables(p)'
  <2>1. p \in lasting' => p \in lasting \/ p \in LoneReports'
    BY <1>1
  <2>2. p \in lasting => p \in reported
    BY DEF HistoryInv
  <2>3. p \in reported \/ p \in Reports'
    BY <1>1
  <2>4. p \in reported => p \in Page
    BY DEF HistoryInv
  <2>5. p \in LoneReports' => p \in Reports'
    BY <1>2
  <2> QED
    BY <1>3, <1>4, <2>1, <2>2, <2>3, <2>4, <2>5
<1>6. lasting' \subseteq reported'
  BY <1>1, <1>2 DEF HistoryInv
<1>7. \A p \in lasting' : p.link \notin Touched'
  BY <1>1
<1> QED
  BY <1>5, <1>6, <1>7 DEF HistoryInv

(* The history is put beside SearchEngine and keeps nothing from happening.*)
LEMMA HistoryOfSearch == HistorySpec => SearchSpec
<1>1. HistoryInit => SearchInit
  BY DEF HistoryInit
<1>2. [HistoryNext]_hvars => [SearchNext]_<<svars, vars>>
  BY DEF HistoryNext, hvars
<1> QED
  BY <1>1, <1>2, PTL DEF HistorySpec, SearchSpec

LEMMA HistoryInvariant == HistorySpec => []HistoryInv
<1>1. HistoryInit => HistoryInv
  BY DEF HistoryInit, HistoryInv
<1>2. HistoryInv /\ IdInv /\ NewInTables' /\ [HistoryNext]_hvars => HistoryInv'
  <2> SUFFICES ASSUME HistoryInv, IdInv, NewInTables', [HistoryNext]_hvars
               PROVE  HistoryInv'
    OBVIOUS
  <2>1. CASE HistoryNext
    <3>1. [Next]_vars
      BY <2>1 DEF HistoryNext, SearchNext, QueryStep, Search, SearchFails
    <3> QED
      BY <2>1, <3>1, HistoryInvStep
  <2>2. CASE UNCHANGED hvars
    BY <2>2 DEF hvars, vars, HistoryInv, InTables, Entries, Touched, Inside
  <2> QED
    BY <2>1, <2>2
<1> QED
  BY <1>1, <1>2, ReportsInTables, HistoryOfSearch, CrawlersGoOn, IdInvariant, KeptInvariant, PTL
  DEF HistorySpec

(* A page that was reported as stored: the rows of its words are among
   those the query sums up for its link, one for each.                     *)
LEMMA StoredCounts ==
  ASSUME IdInv, FewRows, HistoryInv, NEW p \in reported, NEW ws,
         NEW hit, hit = DOMAIN p.words \cap Like(ws)
  PROVE  /\ IsFiniteSet(hit)
         /\ \A x \in hit : Due(p)[x] \in Nat
         /\ hit # {} => p.link \in Matching(ws)
         /\ SumFunctionOnSet(Due(p), hit) <= Relevance(p.link, ws)
<1> USE DEF IdInv, BaseInv
<1> DEFINE l == p.link
           g == Due(p)
           S == RowsOf(l, ws)
           f == [r \in S |-> r.count_words]
           Rows(x) == {r \in S : r.id_word = wordId[x] /\ wordId[x] # 0 /\ f[r] >= g[x]}
           at == [x \in hit |-> CHOOSE r \in Rows(x) : TRUE]
<1>1. p \in Page /\ InTables(p)
  BY DEF HistoryInv
<1>2. l \in Link /\ hit \subseteq Word /\ \A x \in hit : p.words[x] \in Nat
  BY <1>1, PageFacts
<1>15. \A x \in hit : g[x] = IF p \in lasting THEN p.words[x] ELSE 1
  BY DEF Due
<1>16. \A x \in hit : g[x] \in Nat
  BY <1>2, <1>15
<1> HIDE DEF g
<1>3. ASSUME NEW x \in hit PROVE Rows(x) # {}
  <2>1. PICK r \in Entries(l, x) : p \in lasting => r.count_words = p.words[x]
    BY <1>1 DEF InTables
  <2>2. r \in S /\ r.id_word = wordId[x] /\ wordId[x] # 0
    BY <1>2, <2>1 DEF RowsOf, Entries
  <2>3. r.count_words \in Nat \ {0}
    BY <2>1 DEF Entries, DatabaseTypeOK, Row
  <2>4. r.count_words >= g[x]
    BY <1>15, <2>1, <2>3
  <2> QED
    BY <2>2, <2>4
<1>4. \A x \in hit : at[x] \in Rows(x)
  BY <1>3
<1>5. at \in [hit -> S]
  BY <1>4
<1>6. \A x, z \in hit : at[x] = at[z] => x = z
  <2> SUFFICES ASSUME NEW x \in hit, NEW z \in hit, at[x] = at[z]
               PROVE  x = z
    OBVIOUS
  <2>1. wordId[x] = wordId[z] /\ wordId[x] # 0
    <3> HIDE DEF at
    <3> QED
      BY <1>4
  <2> QED
    BY <1>2, <2>1 DEF IdsNameRows, SameId
<1>7. \A x \in hit : f[at[x]] >= g[x]
  BY <1>4
<1>8. IsFiniteSet(S)
  BY FS_Subset DEF RowsOf, FewRows
<1>9. \A r \in S : f[r] \in Nat
  BY DEF RowsOf, DatabaseTypeOK, Row
<1>10. IsFiniteSet(hit)
  <2> HIDE DEF at
  <2>1. at \in Injection(hit, S)
    BY <1>5, <1>6 DEF Injection, IsInjective
  <2> QED
    BY <2>1, <1>8, FS_Injection
<1>11. Relevance(l, ws) = SumFunctionOnSet(f, S)
  BY DEF Relevance, SumFunction
<1>12. hit # {} => S # {}
  BY <1>5
<1>13. hit # {} => l \in Matching(ws)
  BY <1>2, <1>12 DEF Matching
<1>14. SumFunctionOnSet(g, hit) <= SumFunctionOnSet(f, S)
  <2> HIDE DEF at, f, S
  <2> QED
    BY <1>16, <1>5, <1>6, <1>7, <1>8, <1>9, <1>10, SumOfInjection
<1> QED
  BY <1>10, <1>11, <1>13, <1>14, <1>16 DEF g

(* The query leaves a matching link out only for Limit others, none of them
   less relevant.                                                          *)
LEMMA LeftOut ==
  ASSUME DatabaseTypeOK, IndexFromCrawls, FewCrawled, NEW ws,
         NEW found \in GetLinksOnWordsRelevance(ws), NEW l \in Matching(ws)
  PROVE  \/ l \in Listed(found)
         \/ /\ Cardinality(Listed(found)) = Limit
            /\ \A k \in Listed(found) : Relevance(k, ws) >= Relevance(l, ws)
<1>1. PICK n \in Nat : n = Shown(ws)
  BY FewMatch
<1>2. /\ found \in [1..n -> Matching(ws)]
      /\ Distinct(found)
      /\ \A i \in DOMAIN found : \A k \in Matching(ws) \ {found[j] : j \in 1..i} :
           Relevance(found[i], ws) >= Relevance(k, ws)
  BY <1>1 DEF GetLinksOnWordsRelevance
<1>3. /\ IsFiniteSet(Listed(found))
      /\ Cardinality(Listed(found)) = n
  <2>1. found \in Surjection(1..n, Listed(found)) /\ found \in Injection(1..n, Listed(found))
    BY <1>2 DEF Surjection, Injection, IsInjective, Listed, Distinct
  <2>2. IsFiniteSet(1..n) /\ Cardinality(1..n) = n
    BY FS_Interval
  <2> QED
    BY <2>1, <2>2, FS_Surjection
<1>4. Listed(found) \subseteq Matching(ws)
  BY <1>2 DEF Listed
<1>5. ASSUME l \notin Listed(found)
      PROVE  n = Limit
  <2>1. Listed(found) # Matching(ws)
    BY <1>5
  <2>2. Cardinality(Listed(found)) # Cardinality(Matching(ws))
    BY <1>4, <2>1, FewMatch, FS_Subset
  <2> QED
    BY <1>1, <1>3, <2>2 DEF Shown
<1>6. ASSUME l \notin Listed(found), NEW k \in Listed(found)
      PROVE  Relevance(k, ws) >= Relevance(l, ws)
  <2>1. PICK i \in 1..n : k = found[i]
    BY <1>2 DEF Listed
  <2>2. l \notin {found[j] : j \in 1..i}
    BY <1>2, <1>6, <2>1 DEF Listed
  <2> QED
    BY <1>2, <2>1, <2>2
<1> QED
  BY <1>3, <1>5, <1>6

LEMMA StoredLinkIsShown ==
  ASSUME ServerInv, TablesInv, FewRows, HistoryInv,
         NEW c \in Connection, NEW p \in reported, Search(c),
         NEW hit, hit = DOMAIN p.words \cap Like(request[c].words),
         hit # {}, answer'[c].status = "ok"
  PROVE  \/ p.link \in Listed(answer'[c].links)
         \/ /\ Cardinality(Listed(answer'[c].links)) = Limit
            /\ \A l \in Listed(answer'[c].links) :
                 Relevance(l, request[c].words) >= SumFunctionOnSet(Due(p), hit)
<1> USE DEF TablesInv
<1>1. DatabaseTypeOK
  BY DEF IdInv, BaseInv
<1>2. PICK ws : ws = request[c].words
  OBVIOUS
<1>3. PICK found \in GetLinksOnWordsRelevance(ws) : Searched(c, found)
  BY <1>2 DEF Search
<1>4. found \in Seq(Link)
  BY <1>1, QueryReturnsMatches
<1>5. answer'[c] = SearchAnswer(found)
  BY <1>3 DEF Searched, ServerInv, ServerTypeOK
<1>6. answer'[c].links = found
  BY <1>4, <1>5, SearchAnswerFits
<1> DEFINE l == p.link
           sum == SumFunctionOnSet(Due(p), hit)
<1>7. l \in Matching(ws) /\ sum <= Relevance(l, ws)
  BY <1>2, StoredCounts
<1>8. sum \in Nat
  BY <1>2, StoredCounts, SumType
<1>9. \A k : Relevance(k, ws) \in Nat
  BY <1>1, RelevanceType
<1> HIDE DEF l, sum
<1>10. \/ l \in Listed(found)
       \/ /\ Cardinality(Listed(found)) = Limit
          /\ \A k \in Listed(found) : Relevance(k, ws) >= Relevance(l, ws)
  BY <1>1, <1>7, LeftOut
<1>11. \A k : Relevance(k, ws) >= Relevance(l, ws) => Relevance(k, ws) >= sum
  BY <1>7, <1>8, <1>9
<1> QED
  BY <1>2, <1>6, <1>10, <1>11 DEF l, sum

(* Once addOnePageData has reported a page as stored, every later search
   for a word of it, however many calls came in between, shows its link, or
   else as many others as are shown at all, none of them less relevant than
   the page must be: by its own counts as long as no other call for its
   link came, by one for each of its words for ever.                       *)
THEOREM StoredPagesAreFound == HistorySpec => StoredIsFound
<1> DEFINE Shows == \A c \in Connection, p \in reported :
       LET hit == DOMAIN p.words \cap Like(request[c].words)
           shown == Listed(answer'[c].links)
       IN Search(c) /\ answer'[c].status = "ok" /\ hit # {} =>
            \/ p.link \in shown
            \/ /\ Cardinality(shown) = Limit
               /\ \A l \in shown : Relevance(l, request[c].words)
                                     >= SumFunctionOnSet(Due(p), hit)
<1>1. ServerInv /\ TablesInv /\ FewRows /\ HistoryInv => Shows
  BY StoredLinkIsShown
<1>2. StoredIsFound <=> [][Shows]_hvars
  BY DEF StoredIsFound
<1> HIDE DEF Shows
<1> QED
  BY <1>1, <1>2, ServerInvariant, FewRowsInvariant, HistoryInvariant, HistoryOfSearch,
     CrawlersGoOn, PTL
=============================================================================
