--------------------------- MODULE SearchHistory ----------------------------
(***************************************************************************)
(* What a search owes to the calls of addOnePageData that came before it,  *)
(* at any time before: SearchEngine, and with it a history of the pages    *)
(* that some call has reported as stored.                                  *)
(***************************************************************************)
EXTENDS SearchEngine

VARIABLES
  reported,  \* the pages that a call has ever reported as stored
  lasting    \* those of them whose link no other call has touched in the
             \* meantime, nor since

hvars == <<svars, vars, reported, lasting>>

(* What has just been reported, by whom nobody came in the way, and the
   links that some call is at work on.                                     *)
Reports == {page[w] : w \in {v \in Worker : pc[v] = "stored"}}

LoneReports == {page[w] : w \in {v \in Worker : pc[v] = "stored" /\ alone[v]}}

Touched == {page[w].link : w \in Inside}

HistoryInit == SearchInit /\ reported = {} /\ lasting = {}

HistoryNext ==
  /\ SearchNext
  /\ reported' = reported \cup Reports'
  /\ lasting' = {p \in lasting \cup LoneReports' : p.link \notin Touched'}

HistorySpec == HistoryInit /\ [][HistoryNext]_hvars

(* The counts under which a page must still be found: its own, or at least
   one for each of its words when other calls may have replaced them.      *)
Due(p) == IF p \in lasting THEN p.words ELSE [x \in DOMAIN p.words |-> 1]

(* Once addOnePageData has reported a page as stored, every later search
   for a word of it shows its link, whatever calls came in between, also
   for the same link, with fewer words, or broken off: or else it shows
   Limit other links, none of which is less relevant than the page must be
   by the counts it is due (crowler_database.cpp:188-217).                 *)
StoredIsFound ==
  [][\A c \in Connection, p \in reported :
       LET hit == DOMAIN p.words \cap Like(request[c].words)
           shown == Listed(answer'[c].links)
       IN Search(c) /\ answer'[c].status = "ok" /\ hit # {} =>
            \/ p.link \in shown
            \/ /\ Cardinality(shown) = Limit
               /\ \A l \in shown : Relevance(l, request[c].words)
                                     >= SumFunctionOnSet(Due(p), hit)]_hvars
=============================================================================
