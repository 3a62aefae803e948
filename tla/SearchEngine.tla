---------------------------- MODULE SearchEngine ----------------------------
(***************************************************************************)
(* The whole system: crawlers fill the index, transaction by transaction   *)
(* (CrowlerDatabase), while the search engine answers requests from it     *)
(* (HttpServerCoro).  Added here is what they meet in, the query           *)
(* getLinksOnWordsRelevance: one SELECT, so one view of the tables.        *)
(***************************************************************************)
EXTENDS CrowlerDatabase, HttpServerCoro, FiniteSets, Functions

CONSTANTS
  Contains,  \* the pairs <<a, b>> of words such that b is a part of a
  Limit      \* LIMIT 50

ASSUME SearchConstants == Contains \subseteq Word \X Word /\ Limit \in Nat

SearchInit ==
  /\ ServerInit
  /\ Init

-----------------------------------------------------------------------------
(* word LIKE ANY (ARRAY['%..%', ..]): words that contain a searched word.  *)
Like(ws) == {x \in Word : \E y \in ws : <<x, y>> \in Contains}

(* Slip: links is not joined by its id.                                    *)
RowsOfAny(l, ws) ==
  {r \in counts : linkId[l] # 0 /\ \E x \in Like(ws) : wordId[x] # 0 /\ r.id_word = wordId[x]}

(* The rows of the join that belong to a link.                             *)
RowsOf(l, ws) ==
  {r \in counts : /\ linkId[l] # 0 /\ r.id_link = linkId[l]
                  /\ \E x \in Like(ws) : wordId[x] # 0 /\ r.id_word = wordId[x]}

(* sum(count_words) of its group.                                          *)
Relevance(l, ws) == SumFunction([r \in RowsOf(l, ws) |-> r.count_words])

Matching(ws) == {l \in Link : RowsOf(l, ws) # {}}

Distinct(s) == \A i, j \in DOMAIN s : s[i] = s[j] => i = j

Listed(s) == {s[i] : i \in DOMAIN s}

Shown(ws) == LET n == Cardinality(Matching(ws)) IN IF n < Limit THEN n ELSE Limit

(* Slip: ORDER BY without DESC.                                            *)
LeastRelevant(ws) ==
  {s \in [1..Shown(ws) -> Matching(ws)] :
     /\ Distinct(s)
     /\ \A i \in DOMAIN s : \A l \in Matching(ws) \ {s[j] : j \in 1..i} :
          Relevance(s[i], ws) <= Relevance(l, ws)}

(* ORDER BY sum(count_words) DESC LIMIT 50: equal ones in any order.       *)
GetLinksOnWordsRelevance(ws) ==
  {s \in [1..Shown(ws) -> Matching(ws)] :
     /\ Distinct(s)
     /\ \A i \in DOMAIN s : \A l \in Matching(ws) \ {s[j] : j \in 1..i} :
          Relevance(s[i], ws) >= Relevance(l, ws)}

(* The query of a search with words succeeds ..                            *)
Search(c) ==
  /\ querying = c
  /\ tables
  /\ request[c].words # {}
  /\ \E found \in GetLinksOnWordsRelevance(request[c].words) : Searched(c, found)
  /\ UNCHANGED vars

(* .. or it fails, and no result is returned: no connection, no tables, an
   ARRAY[] without a word in it.                                           *)
SearchFails(c) ==
  /\ Searched(c, <<>>)
  /\ UNCHANGED vars

QueryStep == \E c \in Connection : Search(c) \/ SearchFails(c)

-----------------------------------------------------------------------------
SearchNext ==
  \/ ServerStep /\ UNCHANGED vars
  \/ QueryStep
  \/ Next /\ UNCHANGED svars

SearchSpec == SearchInit /\ [][SearchNext]_<<svars, vars>>

(* The server's thread runs while it can, and a query ends.  Nothing makes
   a client connect or send, and nothing makes the acceptor fail.          *)
Fairness ==
  /\ WF_<<svars, vars>>(QueryStep)
  /\ \A c \in Connection : WF_<<svars, vars>>(Written(c) /\ UNCHANGED vars)

FairSearchSpec == SearchSpec /\ Fairness

-----------------------------------------------------------------------------
(* The variables of both parts.                                            *)
SearchTypeOK ==
  /\ ServerTypeOK
  /\ DatabaseTypeOK

(* A search leads only to links on which a crawl has found a word that
   contains a searched one, although it may read the tables between the
   transactions of any number of calls.                                    *)
FoundWasCrawled ==
  \A c \in Connection :
    answer[c] # NoAnswer =>
      \A l \in Listed(answer[c].links) :
        \E p \in crawled : p.link = l /\ DOMAIN p.words \cap Like(request[c].words) # {}
=============================================================================
