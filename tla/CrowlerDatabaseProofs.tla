----------------------- MODULE CrowlerDatabaseProofs -----------------------
(***************************************************************************)
(* Theorems about CrowlerDatabase, for any number of workers, pages and    *)
(* words: the ids that calls carry over their transactions, and what the   *)
(* rows of the index say.                                                  *)
(***************************************************************************)
EXTENDS CrowlerDatabase, TLAPS

(* A call works on its page, and its words are the page's.                 *)
CallsHavePages ==
  \A w \in Worker :
    /\ pc[w] # "idle" => page[w] \in Page /\ page[w] \in crawled
                         /\ todo[w] \subseteq DOMAIN page[w].words
    /\ pc[w] \in {"word", "count"} => word[w] \in DOMAIN page[w].words

(* What a BIGSERIAL gives next has never been given.                       *)
SerialsAhead ==
  /\ \A l \in Link : linkId[l] < linkSerial
  /\ \A x \in Word : wordId[x] < wordSerial

BaseInv == DatabaseTypeOK /\ CallsHavePages

IdInv == BaseInv /\ SerialsAhead /\ IdsNameRows

-----------------------------------------------------------------------------
LEMMA BoundFacts == IntMax \in Nat
BY DatabaseConstants

LEMMA BaseInvInit == Init => BaseInv
<1> SUFFICES ASSUME Init PROVE BaseInv
  OBVIOUS
<1>1. DatabaseTypeOK
  <2>1. /\ idLink \in [Worker -> 0..IntMax] /\ idWord \in [Worker -> 0..IntMax]
        /\ linkId \in [Link -> Nat] /\ wordId \in [Word -> Nat]
    BY BoundFacts DEF Init
  <2>2. /\ alone \in [Worker -> BOOLEAN] /\ faulty \in [Worker -> BOOLEAN]
        /\ tables \in BOOLEAN
    BY DEF Init
  <2> QED
    BY <2>1, <2>2 DEF Init, DatabaseTypeOK
<1>2. CallsHavePages
  BY DEF Init, CallsHavePages
<1> QED
  BY <1>1, <1>2 DEF BaseInv

LEMMA PageFacts == ASSUME NEW p \in Page
                   PROVE  /\ p.link \in Link
                          /\ p.title \in Title
                          /\ DOMAIN p.words \subseteq Word
                          /\ \A x \in DOMAIN p.words : p.words[x] \in Nat \ {0}
BY DatabaseConstants

LEMMA BaseInvStep == BaseInv /\ [Next]_vars => BaseInv'
<1> SUFFICES ASSUME BaseInv, [Next]_vars
             PROVE  BaseInv'
  OBVIOUS
<1> USE DEF BaseInv, DatabaseTypeOK, CallsHavePages
<1>1. CASE CreateTables
  BY <1>1 DEF CreateTables, rows, serials, history
<1>2. ASSUME NEW w \in Worker, NEW p \in Page, AddOnePageData(w, p)
      PROVE  BaseInv'
  <2> DEFINE others == {v \in Worker \ {w} : page[v] # NoPage /\ page[v].link = p.link}
  <2>a. alone' = [v \in Worker |-> IF v = w THEN others \cap Inside = {}
                                  ELSE alone[v] /\ v \notin others]
    BY <1>2 DEF AddOnePageData
  <2>b. \A v \in Worker : (IF v = w THEN others \cap Inside = {}
                           ELSE alone[v] /\ v \notin others) \in BOOLEAN
    OBVIOUS
  <2>c. alone' \in [Worker -> BOOLEAN]
    BY <2>a, <2>b, Zenon
  <2>d. page' \in [Worker -> Page \cup {NoPage}]
    BY <1>2 DEF AddOnePageData
  <2>e. todo' \in [Worker -> SUBSET Word]
    BY <1>2, PageFacts DEF AddOnePageData
  <2>f. /\ idLink' \in [Worker -> 0..IntMax] /\ idWord' \in [Worker -> 0..IntMax]
        /\ faulty' \in [Worker -> BOOLEAN]
        /\ crawled' \subseteq Page
    BY <1>2, BoundFacts DEF AddOnePageData
  <2>g. pc' \in [Worker -> {"idle", "link", "next", "word", "count", "stored", "failed"}]
    BY <1>2 DEF AddOnePageData
  <2>1. DatabaseTypeOK'
    BY <1>2, <2>c, <2>d, <2>e, <2>f, <2>g DEF AddOnePageData, rows, serials
  <2>2. CallsHavePages'
    BY <1>2 DEF AddOnePageData, rows, serials
  <2> QED
    BY <2>1, <2>2
<1>3. ASSUME NEW w \in Worker, NEW x \in Word, NextWord(w, x)
      PROVE  BaseInv'
  <2>1. DatabaseTypeOK'
    BY <1>3, BoundFacts DEF NextWord, Goto, rows, serials, history
  <2>2. CallsHavePages'
    BY <1>3 DEF NextWord, Goto, rows, serials, history
  <2> QED
    BY <2>1, <2>2
<1>4. ASSUME NEW w \in Worker, StoreLink(w)
      PROVE  BaseInv'
  <2>1. page[w].link \in Link /\ page[w].title \in Title
    BY <1>4, PageFacts DEF StoreLink, PutLink, Committed
  <2>2. IdOfLink(w) \in 0..IntMax
    BY <1>4, <2>1, BoundFacts DEF IdOfLink, StoreLink
  <2>a. /\ pc' \in [Worker -> {"idle", "link", "next", "word", "count", "stored", "failed"}]
        /\ faulty' \in [Worker -> BOOLEAN]
    BY <1>4 DEF StoreLink, PutLink, Committed
  <2>b. linkId' \in [Link -> Nat] /\ idLink' \in [Worker -> 0..IntMax]
    BY <1>4, <2>1, <2>2, BoundFacts DEF StoreLink, PutLink
  <2>c. title' \in [Link -> Title \cup {NoTitle}]
    BY <1>4, <2>1 DEF StoreLink, PutLink
  <2>3. DatabaseTypeOK'
    BY <1>4, <2>a, <2>b, <2>c DEF StoreLink, PutLink
  <2>4. CallsHavePages'
    BY <1>4 DEF StoreLink, PutLink, Committed
  <2> QED
    BY <2>3, <2>4
<1>5. ASSUME NEW w \in Worker, StoreWord(w)
      PROVE  BaseInv'
  <2>1. word[w] \in Word
    BY <1>5, PageFacts DEF StoreWord, PutWord, Committed
  <2>2. IdOfWord(w) \in 0..IntMax
    BY <1>5, <2>1, BoundFacts DEF IdOfWord, StoreWord, PutWord
  <2>a. /\ pc' \in [Worker -> {"idle", "link", "next", "word", "count", "stored", "failed"}]
        /\ faulty' \in [Worker -> BOOLEAN]
    BY <1>5 DEF StoreWord, PutWord, Committed
  <2>b. wordId' \in [Word -> Nat] /\ idWord' \in [Worker -> 0..IntMax]
    BY <1>5, <2>1, <2>2, BoundFacts DEF StoreWord, PutWord
  <2>3. DatabaseTypeOK'
    BY <1>5, <2>a, <2>b DEF StoreWord, PutWord
  <2>4. CallsHavePages'
    BY <1>5 DEF StoreWord, PutWord, Committed
  <2> QED
    BY <2>3, <2>4
<1>6. ASSUME NEW w \in Worker, StoreCount(w)
      PROVE  BaseInv'
  <2>1. GivenCount(w) \in Nat \ {0}
    BY <1>6, PageFacts DEF StoreCount, PutCounts, Committed, GivenCount
  <2>2. idLink[w] \in Nat /\ idWord[w] \in Nat
    BY BoundFacts
  <2>3. CountRow(w, GivenCount(w)) \in Row
    BY <2>1, <2>2 DEF CountRow, Row
  <2>4. DatabaseTypeOK'
    BY <1>6, <2>3 DEF StoreCount, PutCounts, Committed, serials
  <2>5. CallsHavePages'
    BY <1>6 DEF StoreCount, PutCounts, Committed, serials
  <2> QED
    BY <2>4, <2>5
<1>7. ASSUME NEW w \in Worker, ReturnFalse(w)
      PROVE  BaseInv'
  BY <1>7 DEF ReturnFalse, Goto, rows, serials, history
<1>8. ASSUME NEW w \in Worker, IdTooLarge(w)
      PROVE  BaseInv'
  BY <1>8 DEF IdTooLarge, Goto, DrawSerial, rows, history
<1>9. ASSUME NEW w \in Worker, DatabaseFails(w)
      PROVE  BaseInv'
  BY <1>9 DEF DatabaseFails, Inside, DrawSerial, rows, serials
<1>10. CASE UNCHANGED vars
  BY <1>10 DEF vars
<1> QED
  BY <1>1, <1>2, <1>3, <1>4, <1>5, <1>6, <1>7, <1>8, <1>9, <1>10 DEF Next

-----------------------------------------------------------------------------
(* A step that writes no row and hands no id from one transaction to the
   next keeps the ids right.                                               *)
LEMMA FrameIds ==
  ASSUME IdInv, DatabaseTypeOK', UNCHANGED rows,
         linkSerial' >= linkSerial, wordSerial' >= wordSerial,
         \A w \in Worker : pc'[w] \in {"next", "word", "count"} =>
           pc[w] \in {"next", "word", "count"} /\ UNCHANGED <<page[w], idLink[w]>>,
         \A w \in Worker : pc'[w] = "count" =>
           pc[w] = "count" /\ UNCHANGED <<word[w], idWord[w]>>
  PROVE  SerialsAhead' /\ IdsNameRows'
<1>1. SerialsAhead'
  BY DEF IdInv, BaseInv, DatabaseTypeOK, SerialsAhead, rows
<1>2. IdsNameRows'
  BY DEF IdInv, IdsNameRows, SameId, rows
<1> QED
  BY <1>1, <1>2

(* An insert gives a key an id that no other has, or leaves the ids alone. *)
LEMMA StoreLinkIds ==
  ASSUME IdInv, NEW w \in Worker, StoreLink(w)
  PROVE  SerialsAhead' /\ IdsNameRows'
<1> DEFINE l == page[w].link
           id == IdOfLink(w)
<1> USE DEF IdInv, BaseInv, DatabaseTypeOK
<1>1. l \in Link
  BY PageFacts DEF StoreLink, PutLink, Committed, CallsHavePages
<1>2. id \in Nat \ {0} /\ id <= linkSerial
  BY <1>1 DEF IdOfLink, SerialsAhead
<1>3. /\ linkId' = [linkId EXCEPT ![l] = id]
      /\ linkSerial' = linkSerial + 1
      /\ idLink' = [idLink EXCEPT ![w] = id]
      /\ UNCHANGED <<wordId, wordSerial, counts, page, word, idWord>>
  BY DEF StoreLink, PutLink
<1>4. /\ pc[w] = "link"
      /\ pc'[w] \in {"next", "failed"}
      /\ \A v \in Worker \ {w} : pc'[v] = pc[v]
  BY DEF StoreLink, PutLink, Committed
<1>5. /\ linkId'[l] = id
      /\ \A k \in Link \ {l} : linkId'[k] = linkId[k]
      /\ \A k \in Link : linkId[k] # 0 => linkId'[k] = linkId[k]
  BY <1>1, <1>3 DEF IdOfLink
<1>6. SerialsAhead'
  BY <1>2, <1>3, <1>5 DEF SerialsAhead
<1>7. \A a, b \in Link : SameId(linkId, a, b)'
  <2>1. \A k \in Link \ {l} : linkId[k] # 0 => linkId[k] # id
    BY <1>1 DEF IdOfLink, IdsNameRows, SameId, SerialsAhead
  <2> QED
    BY <1>1, <1>5, <2>1 DEF IdsNameRows, SameId
<1>8. \A v \in Worker : pc'[v] \in {"next", "word", "count"} =>
        idLink'[v] # 0 /\ idLink'[v] = linkId'[page'[v].link]
  <2> SUFFICES ASSUME NEW v \in Worker, pc'[v] \in {"next", "word", "count"}
               PROVE  idLink'[v] # 0 /\ idLink'[v] = linkId'[page'[v].link]
    OBVIOUS
  <2>1. CASE v = w
    BY <1>2, <1>3, <1>5, <2>1
  <2>2. CASE v # w
    <3>1. pc[v] \in {"next", "word", "count"}
      BY <1>4, <2>2
    <3>2. page[v].link \in Link
      BY <3>1, PageFacts DEF CallsHavePages
    <3> QED
      BY <1>3, <1>5, <2>2, <3>1, <3>2 DEF IdsNameRows
  <2> QED
    BY <2>1, <2>2
<1>9. \A v \in Worker : pc'[v] = "count" => idWord'[v] # 0 /\ idWord'[v] = wordId'[word'[v]]
  BY <1>3, <1>4 DEF IdsNameRows
<1>10. \A r \in counts' : /\ \E k \in Link : linkId'[k] = r.id_link /\ r.id_link # 0
                          /\ \E x \in Word : wordId'[x] = r.id_word /\ r.id_word # 0
  BY <1>3, <1>5 DEF IdsNameRows
<1>11. \A a, b \in Word : SameId(wordId, a, b)'
  BY <1>3 DEF IdsNameRows, SameId
<1> QED
  BY <1>6, <1>7, <1>8, <1>9, <1>10, <1>11 DEF IdsNameRows

LEMMA StoreWordIds ==
  ASSUME IdInv, NEW w \in Worker, StoreWord(w)
  PROVE  SerialsAhead' /\ IdsNameRows'
<1> DEFINE x == word[w]
           id == IdOfWord(w)
<1> USE DEF IdInv, BaseInv, DatabaseTypeOK
<1>1. x \in Word
  BY PageFacts DEF StoreWord, PutWord, Committed, CallsHavePages
<1>2. id \in Nat \ {0} /\ id <= wordSerial
  BY <1>1 DEF IdOfWord, SerialsAhead
<1>3. /\ wordId' = [wordId EXCEPT ![x] = id]
      /\ wordSerial' = wordSerial + 1
      /\ idWord' = [idWord EXCEPT ![w] = id]
      /\ UNCHANGED <<linkId, linkSerial, counts, page, word, idLink>>
  BY DEF StoreWord, PutWord
<1>4. /\ pc[w] = "word"
      /\ pc'[w] \in {"count", "failed"}
      /\ \A v \in Worker \ {w} : pc'[v] = pc[v]
  BY DEF StoreWord, PutWord, Committed
<1>5. /\ wordId'[x] = id
      /\ \A y \in Word \ {x} : wordId'[y] = wordId[y]
      /\ \A y \in Word : wordId[y] # 0 => wordId'[y] = wordId[y]
  BY <1>1, <1>3 DEF IdOfWord
<1>6. SerialsAhead'
  BY <1>2, <1>3, <1>5 DEF SerialsAhead
<1>7. \A a, b \in Word : SameId(wordId, a, b)'
  <2>1. \A y \in Word \ {x} : wordId[y] # 0 => wordId[y] # id
    BY <1>1 DEF IdOfWord, IdsNameRows, SameId, SerialsAhead
  <2> QED
    BY <1>1, <1>5, <2>1 DEF IdsNameRows, SameId
<1>8. \A v \in Worker : pc'[v] \in {"next", "word", "count"} =>
        idLink'[v] # 0 /\ idLink'[v] = linkId'[page'[v].link]
  BY <1>3, <1>4 DEF IdsNameRows
<1>9. \A v \in Worker : pc'[v] = "count" => idWord'[v] # 0 /\ idWord'[v] = wordId'[word'[v]]
  <2> SUFFICES ASSUME NEW v \in Worker, pc'[v] = "count"
               PROVE  idWord'[v] # 0 /\ idWord'[v] = wordId'[word'[v]]
    OBVIOUS
  <2>1. CASE v = w
    BY <1>2, <1>3, <1>5, <2>1
  <2>2. CASE v # w
    <3>1. pc[v] = "count"
      BY <1>4, <2>2
    <3>2. word[v] \in Word
      BY <3>1, PageFacts DEF CallsHavePages
    <3> QED
      BY <1>3, <1>5, <2>2, <3>1, <3>2 DEF IdsNameRows
  <2> QED
    BY <2>1, <2>2
<1>10. \A r \in counts' : /\ \E k \in Link : linkId'[k] = r.id_link /\ r.id_link # 0
                          /\ \E y \in Word : wordId'[y] = r.id_word /\ r.id_word # 0
  BY <1>3, <1>5 DEF IdsNameRows
<1>11. \A a, b \in Link : SameId(linkId, a, b)'
  BY <1>3 DEF IdsNameRows, SameId
<1> QED
  BY <1>6, <1>7, <1>8, <1>9, <1>10, <1>11 DEF IdsNameRows

(* The row of a count refers to the rows its call has inserted or found.   *)
LEMMA StoreCountIds ==
  ASSUME IdInv, NEW w \in Worker, StoreCount(w)
  PROVE  SerialsAhead' /\ IdsNameRows'
<1> USE DEF IdInv, BaseInv, DatabaseTypeOK
<1>1. /\ pc[w] = "count"
      /\ pc'[w] \in {"next", "failed"}
      /\ \A v \in Worker \ {w} : pc'[v] = pc[v]
      /\ counts' = (counts \ AtKey(w)) \cup {CountRow(w, GivenCount(w))}
      /\ UNCHANGED <<linkId, wordId, serials, page, word, idLink, idWord>>
  BY DEF StoreCount, PutCounts, Committed
<1>2. page[w].link \in Link /\ word[w] \in Word
  BY <1>1, PageFacts DEF CallsHavePages
<1>3. /\ linkId[page[w].link] = idLink[w] /\ idLink[w] # 0
      /\ wordId[word[w]] = idWord[w] /\ idWord[w] # 0
  BY <1>1 DEF IdsNameRows
<1>4. \A r \in counts' : /\ \E k \in Link : linkId[k] = r.id_link /\ r.id_link # 0
                         /\ \E y \in Word : wordId[y] = r.id_word /\ r.id_word # 0
  BY <1>1, <1>2, <1>3 DEF CountRow, IdsNameRows
<1>5. SerialsAhead'
  BY <1>1 DEF SerialsAhead, serials
<1>6. \A v \in Worker : pc'[v] \in {"next", "word", "count"} =>
        idLink'[v] # 0 /\ idLink'[v] = linkId'[page'[v].link]
  BY <1>1 DEF IdsNameRows
<1>7. \A v \in Worker : pc'[v] = "count" => idWord'[v] # 0 /\ idWord'[v] = wordId'[word'[v]]
  BY <1>1 DEF IdsNameRows
<1> QED
  BY <1>1, <1>4, <1>5, <1>6, <1>7 DEF IdsNameRows, SameId

LEMMA IdInvStep == IdInv /\ [Next]_vars => IdInv'
<1> SUFFICES ASSUME IdInv, [Next]_vars
             PROVE  IdInv'
  OBVIOUS
<1>1. BaseInv'
  BY BaseInvStep DEF IdInv
<1>2. DatabaseTypeOK /\ DatabaseTypeOK'
  BY <1>1 DEF IdInv, BaseInv
<1>3. linkSerial \in Nat /\ wordSerial \in Nat /\ DOMAIN pc = Worker
  BY <1>2 DEF DatabaseTypeOK
<1>4. ASSUME CreateTables \/ UNCHANGED vars
      PROVE  SerialsAhead' /\ IdsNameRows'
  BY <1>2, <1>3, <1>4, FrameIds DEF CreateTables, vars, rows, serials, history
<1>5. ASSUME NEW w \in Worker, NEW p \in Page, AddOnePageData(w, p)
      PROVE  SerialsAhead' /\ IdsNameRows'
  <2>1. /\ pc' = [pc EXCEPT ![w] = "link"]
        /\ \A v \in Worker \ {w} : UNCHANGED <<page[v], idLink[v], idWord[v], word[v]>>
    BY <1>2, <1>5 DEF AddOnePageData, DatabaseTypeOK
  <2> QED
    BY <1>2, <1>3, <1>5, <2>1, FrameIds DEF AddOnePageData, serials
<1>6. ASSUME NEW w \in Worker, NEW x \in Word, NextWord(w, x)
      PROVE  SerialsAhead' /\ IdsNameRows'
  <2>1. /\ pc[w] = "next" /\ pc' = [pc EXCEPT ![w] = "word"]
        /\ \A v \in Worker \ {w} : UNCHANGED <<idWord[v], word[v]>>
    BY <1>2, <1>6 DEF NextWord, Goto, DatabaseTypeOK
  <2> QED
    BY <1>2, <1>3, <1>6, <2>1, FrameIds DEF NextWord, serials
<1>7. ASSUME NEW w \in Worker, ReturnFalse(w)
      PROVE  SerialsAhead' /\ IdsNameRows'
  BY <1>2, <1>3, <1>7, FrameIds DEF ReturnFalse, Goto, serials
<1>8. ASSUME NEW w \in Worker, IdTooLarge(w) \/ DatabaseFails(w)
      PROVE  SerialsAhead' /\ IdsNameRows'
  <2>1. /\ pc' = [pc EXCEPT ![w] = "failed"]
        /\ UNCHANGED <<rows, page, idLink, idWord, word>>
        /\ linkSerial' >= linkSerial /\ wordSerial' >= wordSerial
    BY <1>3, <1>8 DEF IdTooLarge, DatabaseFails, Goto, DrawSerial, serials
  <2> QED
    BY <1>2, <1>3, <2>1, FrameIds
<1> QED
  BY <1>1, <1>4, <1>5, <1>6, <1>7, <1>8, StoreLinkIds, StoreWordIds, StoreCountIds
     DEF IdInv, Next

LEMMA IdInvInit == Init => IdInv
BY BaseInvInit DEF Init, IdInv, BaseInv, DatabaseTypeOK, SerialsAhead, IdsNameRows, SameId, Inside

LEMMA IdInvariant == Spec => []IdInv
BY IdInvInit, IdInvStep, PTL DEF Spec

(* The tables, the calls of addOnePageData and the values they carry have
   their types in every reachable state.                                   *)
THEOREM DatabaseTypeCorrect == Spec => []DatabaseTypeOK
<1>1. IdInv => DatabaseTypeOK
  BY DEF IdInv, BaseInv
<1> QED
  BY <1>1, IdInvariant, PTL

(* The ids a call of addOnePageData reads in one transaction are still
   those of its link and word in the later ones, whoever else inserts and
   whatever is rolled back, and every entry refers to rows that exist.     *)
THEOREM IdsAreStable == Spec => []IdsNameRows
<1>1. IdInv => IdsNameRows
  BY DEF IdInv
<1> QED
  BY <1>1, IdInvariant, PTL

-----------------------------------------------------------------------------
(* links_words_count holds one row per link and word: each pair of ids is
   the key of one row.                                                     *)
KeysAreUnique ==
  \A r, s \in counts : r.id_link = s.id_link /\ r.id_word = s.id_word => r = s

LEMMA KeysStep == IdInv /\ KeysAreUnique /\ [Next]_vars => KeysAreUnique'
<1> SUFFICES ASSUME IdInv, KeysAreUnique, [Next]_vars
             PROVE  KeysAreUnique'
  OBVIOUS
<1>1. CASE UNCHANGED counts
  BY <1>1 DEF KeysAreUnique
<1>2. ASSUME NEW w \in Worker, StoreCount(w)
      PROVE  KeysAreUnique'
  <2>1. counts' = (counts \ AtKey(w)) \cup {CountRow(w, GivenCount(w))}
    BY <1>2 DEF StoreCount, PutCounts
  <2> QED
    BY <2>1 DEF KeysAreUnique, AtKey, CountRow
<1> QED
  BY <1>1, <1>2 DEF Next, vars, rows, CreateTables, AddOnePageData, NextWord, StoreLink, PutLink,
     StoreWord, PutWord, ReturnFalse, IdTooLarge, DatabaseFails

LEMMA KeysInvariant == Spec => []KeysAreUnique
<1>1. Init => KeysAreUnique
  BY DEF Init, KeysAreUnique
<1> QED
  BY <1>1, KeysStep, IdInvariant, PTL DEF Spec

(* However calls for the same link interleave, links_words_count never
   holds two counts of one word for one link.                              *)
THEOREM OneCountPerWord == Spec => []OneEntryPerWord
<1>1. KeysAreUnique => OneEntryPerWord
  BY DEF KeysAreUnique, OneEntryPerWord, Entries
<1> QED
  BY <1>1, KeysInvariant, PTL

-----------------------------------------------------------------------------
(* IndexFromCrawls said of the rows themselves: each one is the count of a
   word in a crawled page, at the ids of the page's link and the word.     *)
Backed(r, p, x) ==
  /\ r.id_link = linkId[p.link] /\ r.id_link # 0
  /\ r.id_word = wordId[x] /\ r.id_word # 0
  /\ r.count_words = p.words[x]

RowsFromCrawls == \A r \in counts : \E p \in crawled : \E x \in DOMAIN p.words : Backed(r, p, x)

TitlesFromCrawls ==
  \A l \in Link : title[l] # NoTitle => \E p \in crawled : p.link = l /\ p.title = title[l]

(* No row moves: an id once given stays.                                   *)
LEMMA IdsStay ==
  ASSUME IdInv, [Next]_vars
  PROVE  /\ \A l \in Link : linkId[l] # 0 => linkId'[l] = linkId[l]
         /\ \A x \in Word : wordId[x] # 0 => wordId'[x] = wordId[x]
         /\ crawled \subseteq crawled'
<1> USE DEF IdInv, BaseInv, DatabaseTypeOK
<1>1. ASSUME NEW w \in Worker, StoreLink(w)
      PROVE  /\ \A l \in Link : linkId[l] # 0 => linkId'[l] = linkId[l]
             /\ UNCHANGED <<wordId, crawled>>
  BY <1>1 DEF StoreLink, PutLink, IdOfLink
<1>2. ASSUME NEW w \in Worker, StoreWord(w)
      PROVE  /\ \A x \in Word : wordId[x] # 0 => wordId'[x] = wordId[x]
             /\ UNCHANGED <<linkId, crawled>>
  BY <1>2 DEF StoreWord, PutWord, IdOfWord
<1>3. CASE UNCHANGED <<linkId, wordId>> /\ crawled \subseteq crawled'
  BY <1>3
<1> QED
  BY <1>1, <1>2, <1>3 DEF Next, vars, rows, history, CreateTables, AddOnePageData, NextWord,
     StoreCount, PutCounts, ReturnFalse, IdTooLarge, DatabaseFails

LEMMA RowsStep == IdInv /\ RowsFromCrawls /\ [Next]_vars => RowsFromCrawls'
<1> SUFFICES ASSUME IdInv, RowsFromCrawls, [Next]_vars
             PROVE  RowsFromCrawls'
  OBVIOUS
<1>1. ASSUME NEW r \in counts
      PROVE  \E p \in crawled' : \E x \in DOMAIN p.words : Backed(r, p, x)'
  <2>1. PICK p \in crawled : \E x \in DOMAIN p.words : Backed(r, p, x)
    BY DEF RowsFromCrawls
  <2>2. PICK x \in DOMAIN p.words : Backed(r, p, x)
    BY <2>1
  <2>3. p.link \in Link /\ x \in Word
    BY PageFacts DEF IdInv, BaseInv, DatabaseTypeOK
  <2>4. Backed(r, p, x)'
    BY <2>2, <2>3, IdsStay DEF Backed
  <2> QED
    BY <2>4, IdsStay
<1>2. CASE UNCHANGED counts
  BY <1>1, <1>2 DEF RowsFromCrawls
<1>3. ASSUME NEW w \in Worker, StoreCount(w)
      PROVE  RowsFromCrawls'
  <2>1. PICK n, p, x : n = CountRow(w, GivenCount(w)) /\ p = page[w] /\ x = word[w]
    OBVIOUS
  <2>2. /\ counts' = (counts \ AtKey(w)) \cup {n}
        /\ pc[w] = "count"
        /\ UNCHANGED <<linkId, wordId, crawled>>
    BY <1>3, <2>1 DEF StoreCount, PutCounts, Committed
  <2>3. p \in crawled /\ x \in DOMAIN p.words
    BY <2>1, <2>2 DEF IdInv, BaseInv, CallsHavePages
  <2>4. Backed(n, p, x)
    BY <2>1, <2>2 DEF IdInv, IdsNameRows, Backed, CountRow, GivenCount
  <2>5. Backed(n, p, x)'
    BY <2>2, <2>4 DEF Backed
  <2> QED
    BY <1>1, <2>2, <2>3, <2>5 DEF RowsFromCrawls
<1> QED
  BY <1>2, <1>3 DEF Next, vars, rows, CreateTables, AddOnePageData, NextWord, StoreLink, PutLink,
     StoreWord, PutWord, ReturnFalse, IdTooLarge, DatabaseFails

LEMMA TitlesStep == IdInv /\ TitlesFromCrawls /\ [Next]_vars => TitlesFromCrawls'
<1> SUFFICES ASSUME IdInv, TitlesFromCrawls, [Next]_vars
             PROVE  TitlesFromCrawls'
  OBVIOUS
<1>1. CASE UNCHANGED title
  BY <1>1, IdsStay DEF TitlesFromCrawls
<1>2. ASSUME NEW w \in Worker, StoreLink(w)
      PROVE  TitlesFromCrawls'
  <2>1. /\ title' = [title EXCEPT ![page[w].link] = IF @ = NoTitle THEN page[w].title ELSE @]
        /\ pc[w] = "link"
        /\ crawled' = crawled
    BY <1>2 DEF StoreLink, PutLink, Committed
  <2>2. page[w] \in crawled
    BY <2>1 DEF IdInv, BaseInv, CallsHavePages
  <2>3. title \in [Link -> Title \cup {NoTitle}]
    BY DEF IdInv, BaseInv, DatabaseTypeOK
  <2> QED
    BY <2>1, <2>2, <2>3 DEF TitlesFromCrawls
<1> QED
  BY <1>1, <1>2 DEF Next, vars, rows, CreateTables, AddOnePageData, NextWord, StoreCount, PutCounts,
     StoreWord, PutWord, ReturnFalse, IdTooLarge, DatabaseFails

(* Whatever calls interleave or break off half way, the search can find a
   word for a link only with a count, and a title, that a crawl of that
   link passed to addOnePageData.                                          *)
THEOREM IndexIsFromCrawls == Spec => []IndexFromCrawls
<1>1. Init => RowsFromCrawls /\ TitlesFromCrawls
  BY DEF Init, RowsFromCrawls, TitlesFromCrawls
<1>2. IdInv /\ RowsFromCrawls /\ TitlesFromCrawls => IndexFromCrawls
  <2> SUFFICES ASSUME IdInv, RowsFromCrawls, TitlesFromCrawls
               PROVE  IndexFromCrawls
    OBVIOUS
  <2>1. ASSUME NEW l \in Link, NEW x \in Word, NEW r \in Entries(l, x)
        PROVE  \E p \in crawled : p.link = l /\ x \in DOMAIN p.words
                                  /\ p.words[x] = r.count_words
    <3>1. PICK p \in crawled : \E y \in DOMAIN p.words : Backed(r, p, y)
      BY <2>1 DEF Entries, RowsFromCrawls
    <3>2. PICK y \in DOMAIN p.words : Backed(r, p, y)
      BY <3>1
    <3>3. p.link \in Link /\ y \in Word
      BY PageFacts DEF IdInv, BaseInv, DatabaseTypeOK
    <3>4. p.link = l /\ y = x
      BY <2>1, <3>2, <3>3 DEF Entries, Backed, IdInv, IdsNameRows, SameId
    <3> QED
      BY <3>2, <3>4 DEF Backed
  <2> QED
    BY <2>1 DEF IndexFromCrawls, TitlesFromCrawls
<1> QED
  BY <1>1, <1>2, RowsStep, TitlesStep, IdInvariant, PTL DEF Spec

-----------------------------------------------------------------------------
(* The words of its page that a call has stored so far.                    *)
Stored(w) == DOMAIN page[w].words \ (todo[w] \cup AtHand(w))

TodoShrinks ==
  \A w \in Worker : /\ pc[w] = "link" => todo[w] = DOMAIN page[w].words
                    /\ pc[w] = "stored" => todo[w] = {}

(* A call that is alone has no rival that may still write.                 *)
AloneHasNoRival ==
  \A w \in Worker : alone[w] =>
    /\ page[w] # NoPage
    /\ \A v \in Worker \ {w} : page[v] # NoPage /\ page[v].link = page[w].link => v \notin Inside

(* The row that the search finds for a word that w has stored.             *)
Kept(r, w, x) ==
  /\ r.id_link = linkId[page[w].link] /\ r.id_link # 0
  /\ r.id_word = wordId[x] /\ r.id_word # 0
  /\ alone[w] => r.count_words = page[w].words[x]

WordsKept ==
  \A w \in Worker : pc[w] \in {"next", "word", "count", "stored"} =>
    \A x \in Stored(w) : \E r \in counts : Kept(r, w, x)

LEMMA TodoStep == IdInv /\ TodoShrinks /\ [Next]_vars => TodoShrinks'
<1> USE DEF TodoShrinks, IdInv, BaseInv, DatabaseTypeOK
<1> SUFFICES ASSUME IdInv, TodoShrinks, [Next]_vars
             PROVE  TodoShrinks'
  OBVIOUS
<1>1. CASE CreateTables \/ UNCHANGED vars
  BY <1>1 DEF CreateTables, vars
<1>2. ASSUME NEW w \in Worker, NEW p \in Page, AddOnePageData(w, p)
      PROVE  TodoShrinks'
  BY <1>2 DEF AddOnePageData
<1>3. ASSUME NEW w \in Worker, NEW x \in Word, NextWord(w, x)
      PROVE  TodoShrinks'
  BY <1>3 DEF NextWord, Goto
<1>4. ASSUME NEW w \in Worker, \/ StoreLink(w) \/ StoreWord(w) \/ StoreCount(w)
      PROVE  TodoShrinks'
  BY <1>4 DEF StoreLink, StoreWord, StoreCount, PutLink, PutWord, PutCounts, Committed
<1>5. ASSUME NEW w \in Worker, \/ ReturnFalse(w) \/ IdTooLarge(w) \/ DatabaseFails(w)
      PROVE  TodoShrinks'
  BY <1>5 DEF ReturnFalse, IdTooLarge, DatabaseFails, Goto
<1> QED
  BY <1>1, <1>2, <1>3, <1>4, <1>5 DEF Next

LEMMA AloneStep == IdInv /\ AloneHasNoRival /\ [Next]_vars => AloneHasNoRival'
<1> SUFFICES ASSUME IdInv, AloneHasNoRival, [Next]_vars
             PROVE  AloneHasNoRival'
  OBVIOUS
<1> USE DEF IdInv, BaseInv, DatabaseTypeOK
<1>1. CASE UNCHANGED <<page, alone>> /\ Inside' \subseteq Inside
  BY <1>1 DEF AloneHasNoRival
<1>2. ASSUME NEW w \in Worker, NEW p \in Page, AddOnePageData(w, p)
      PROVE  AloneHasNoRival'
  <2> DEFINE others == {v \in Worker \ {w} : page[v] # NoPage /\ page[v].link = p.link}
  <2>1. /\ page' = [page EXCEPT ![w] = p]
        /\ pc' = [pc EXCEPT ![w] = "link"]
        /\ alone' = [v \in Worker |-> IF v = w THEN others \cap Inside = {}
                                      ELSE alone[v] /\ v \notin others]
    BY <1>2 DEF AddOnePageData
  <2>2. ASSUME NEW u \in Worker, NEW v \in Worker, u # v, alone'[v], page'[u] # NoPage,
               page'[u].link = page'[v].link
        PROVE  u \notin Inside'
    <3>1. CASE v = w
      <4>1. page'[v] = p /\ page'[u] = page[u] /\ u \in others
        BY <2>1, <2>2, <3>1
      <4>2. u \notin Inside
        BY <2>1, <2>2, <3>1, <4>1
      <4> QED
        BY <2>1, <2>2, <3>1, <4>2 DEF Inside
    <3>2. CASE v # w /\ u = w
      <4>1. page'[u] = p /\ page'[v] = page[v] /\ v \notin others /\ alone[v]
        BY <2>1, <2>2, <3>2
      <4> QED
        BY <2>2, <3>2, <4>1 DEF AloneHasNoRival
    <3>3. CASE v # w /\ u # w
      BY <2>1, <2>2, <3>3 DEF AloneHasNoRival, Inside
    <3> QED
      BY <3>1, <3>2, <3>3
  <2>3. \A v \in Worker : alone'[v] => page'[v] # NoPage
    BY <2>1, DatabaseConstants DEF AloneHasNoRival
  <2> QED
    BY <2>2, <2>3 DEF AloneHasNoRival
<1>3. ASSUME NEW w \in Worker, w \in Inside, UNCHANGED <<page, alone>>,
             \E place \in {"link", "next", "word", "count", "stored", "failed"} :
               pc' = [pc EXCEPT ![w] = place]
      PROVE  AloneHasNoRival'
  BY <1>1, <1>3 DEF Inside
<1>4. CASE CreateTables \/ UNCHANGED vars
  BY <1>1, <1>4 DEF CreateTables, vars, history, Inside
<1>5. ASSUME NEW w \in Worker, NEW x \in Word, NextWord(w, x)
      PROVE  AloneHasNoRival'
  BY <1>3, <1>5 DEF NextWord, Goto, Inside, history
<1>6. ASSUME NEW w \in Worker, StoreLink(w) \/ StoreWord(w) \/ StoreCount(w)
      PROVE  AloneHasNoRival'
  BY <1>3, <1>6 DEF StoreLink, StoreWord, StoreCount, PutLink, PutWord, PutCounts, Committed, Inside
<1>7. ASSUME NEW w \in Worker, ReturnFalse(w) \/ IdTooLarge(w) \/ DatabaseFails(w)
      PROVE  AloneHasNoRival'
  BY <1>3, <1>7 DEF ReturnFalse, IdTooLarge, DatabaseFails, Goto, Inside, history
<1> QED
  BY <1>2, <1>4, <1>5, <1>6, <1>7 DEF Next

Storing(w) == pc[w] \in {"next", "word", "count", "stored"}

LEMMA KeptStays ==
  ASSUME IdInv, [Next]_vars, NEW w \in Worker, Storing(w),
         page'[w] = page[w], alone'[w] => alone[w],
         NEW x \in Stored(w), NEW r, Kept(r, w, x)
  PROVE  Kept(r, w, x)'
<1>1. page[w].link \in Link /\ x \in Word
  BY PageFacts DEF Storing, Stored, IdInv, BaseInv, CallsHavePages
<1> QED
  BY <1>1, IdsStay DEF Kept

(* A step that writes no count, and takes no word off a call's list
   without having it at hand, leaves the stored words stored.              *)
LEMMA FrameKept ==
  ASSUME IdInv, WordsKept, [Next]_vars, UNCHANGED counts,
         \A w \in Worker : Storing(w)' /\ Stored(w)' # {} =>
           /\ Storing(w)
           /\ page'[w] = page[w]
           /\ alone'[w] => alone[w]
           /\ Stored(w)' \subseteq Stored(w)
  PROVE  WordsKept'
<1> SUFFICES ASSUME NEW w \in Worker, Storing(w)', NEW x \in Stored(w)'
             PROVE  \E r \in counts' : Kept(r, w, x)'
  BY DEF WordsKept, Storing
<1>1. /\ Storing(w)
      /\ page'[w] = page[w]
      /\ alone'[w] => alone[w]
      /\ x \in Stored(w)
  OBVIOUS
<1>2. PICK r \in counts : Kept(r, w, x)
  BY <1>1 DEF WordsKept, Storing
<1>3. Kept(r, w, x)'
  BY <1>1, <1>2, KeptStays
<1> QED
  BY <1>3

(* A count that is stored is kept, and takes the place of no other that a
   call which is alone relies on.                                          *)
LEMMA StoreCountKept ==
  ASSUME IdInv, AloneHasNoRival, WordsKept, NEW w \in Worker, StoreCount(w)
  PROVE  WordsKept'
<1> USE DEF IdInv, BaseInv, DatabaseTypeOK
<1>1. PICK n : n = CountRow(w, GivenCount(w))
  OBVIOUS
<1>2. /\ counts' = (counts \ AtKey(w)) \cup {n}
      /\ pc[w] = "count" /\ pc'[w] \in {"next", "failed"}
      /\ \A v \in Worker \ {w} : pc'[v] = pc[v]
      /\ UNCHANGED <<linkId, wordId, page, todo, word, alone>>
  BY <1>1 DEF StoreCount, PutCounts, Committed
<1>3. [Next]_vars
  BY DEF Next
<1>4. Kept(n, w, word[w])
  BY <1>1, <1>2 DEF Kept, CountRow, GivenCount, IdsNameRows
<1>5. SUFFICES ASSUME NEW v \in Worker, Storing(v)', NEW x \in Stored(v)'
               PROVE  \E r \in counts' : Kept(r, v, x)'
  BY DEF WordsKept, Storing
<1>6. Storing(v) /\ page'[v] = page[v] /\ (alone'[v] => alone[v])
  BY <1>2, <1>5 DEF Storing
<1>7. CASE v = w /\ x = word[w]
  BY <1>2, <1>4, <1>7 DEF Kept
<1>8. CASE ~(v = w /\ x = word[w])
  <2>1. x \in Stored(v)
    BY <1>2, <1>5, <1>8 DEF Stored, AtHand
  <2>2. PICK r \in counts : Kept(r, v, x)
    BY <1>6, <2>1 DEF WordsKept, Storing
  <2>3. Kept(r, v, x)'
    BY <1>3, <1>6, <2>1, <2>2, KeptStays
  <2>4. CASE r \notin AtKey(w)
    BY <1>2, <2>3, <2>4
  <2>5. CASE r \in AtKey(w)
    <3>1. /\ page[v].link \in Link /\ page[w].link \in Link
          /\ x \in Word /\ word[w] \in Word
      BY <1>2, <1>6, <2>1, PageFacts DEF Storing, Stored, CallsHavePages
    <3>2. page[v].link = page[w].link /\ x = word[w]
      BY <1>2, <2>2, <2>5, <3>1 DEF AtKey, Kept, IdsNameRows, SameId
    <3>3. v # w /\ page[w] # NoPage
      BY <1>2, <1>8, <3>2, DatabaseConstants DEF CallsHavePages
    <3>4. ~alone[v]
      BY <1>2, <3>2, <3>3 DEF AloneHasNoRival, Inside
    <3>5. Kept(n, v, x)'
      BY <1>2, <1>4, <3>2, <3>4 DEF Kept
    <3> QED
      BY <1>2, <3>5
  <2> QED
    BY <2>4, <2>5
<1> QED
  BY <1>7, <1>8

LEMMA KeptStep ==
  IdInv /\ TodoShrinks /\ AloneHasNoRival /\ WordsKept /\ [Next]_vars => WordsKept'
<1> SUFFICES ASSUME IdInv, TodoShrinks, AloneHasNoRival, WordsKept, [Next]_vars
             PROVE  WordsKept'
  OBVIOUS
<1> USE DEF IdInv, BaseInv, DatabaseTypeOK
<1>1. CASE CreateTables \/ UNCHANGED vars
  BY <1>1, FrameKept DEF CreateTables, vars, rows, history, Storing, Stored, AtHand
<1>2. ASSUME NEW w \in Worker, NEW p \in Page, AddOnePageData(w, p)
      PROVE  WordsKept'
  <2>1. /\ ~Storing(w)'
        /\ \A v \in Worker \ {w} :
             /\ pc'[v] = pc[v] /\ page'[v] = page[v] /\ todo'[v] = todo[v]
             /\ alone'[v] => alone[v]
        /\ UNCHANGED <<counts, word>>
    BY <1>2 DEF AddOnePageData, Storing, rows
  <2> QED
    BY <2>1, FrameKept DEF Storing, Stored, AtHand
<1>3. ASSUME NEW w \in Worker, NEW x \in Word, NextWord(w, x)
      PROVE  WordsKept'
  <2>1. /\ pc[w] = "next" /\ pc'[w] = "word"
        /\ todo'[w] = todo[w] \ {x} /\ word'[w] = x
        /\ \A v \in Worker \ {w} : UNCHANGED <<pc[v], todo[v], word[v]>>
        /\ UNCHANGED <<counts, page, alone>>
    BY <1>3 DEF NextWord, Goto, rows, history
  <2> QED
    BY <2>1, FrameKept DEF Storing, Stored, AtHand
<1>4. ASSUME NEW w \in Worker, StoreLink(w)
      PROVE  WordsKept'
  <2>1. /\ pc[w] = "link" /\ pc'[w] \in {"next", "failed"}
        /\ \A v \in Worker \ {w} : pc'[v] = pc[v]
        /\ UNCHANGED <<counts, page, todo, word, alone>>
    BY <1>4 DEF StoreLink, PutLink, Committed
  <2>2. Storing(w)' => Stored(w)' = {}
    BY <2>1 DEF Storing, Stored, AtHand, TodoShrinks
  <2> QED
    BY <2>1, <2>2, FrameKept DEF Storing, Stored, AtHand
<1>5. ASSUME NEW w \in Worker, StoreWord(w)
      PROVE  WordsKept'
  <2>1. /\ pc[w] = "word" /\ pc'[w] \in {"count", "failed"}
        /\ \A v \in Worker \ {w} : pc'[v] = pc[v]
        /\ UNCHANGED <<counts, page, todo, word, alone>>
    BY <1>5 DEF StoreWord, PutWord, Committed
  <2> QED
    BY <2>1, FrameKept DEF Storing, Stored, AtHand
<1>6. ASSUME NEW w \in Worker, ReturnFalse(w) \/ IdTooLarge(w) \/ DatabaseFails(w)
      PROVE  WordsKept'
  <2>1. /\ pc'[w] = "failed" \/ (pc[w] = "next" /\ pc'[w] = "stored")
        /\ \A v \in Worker \ {w} : pc'[v] = pc[v]
        /\ UNCHANGED <<counts, page, todo, word, alone>>
    BY <1>6 DEF ReturnFalse, IdTooLarge, DatabaseFails, Goto, rows, history
  <2> QED
    BY <2>1, FrameKept DEF Storing, Stored, AtHand
<1> QED
  BY <1>1, <1>2, <1>3, <1>4, <1>5, <1>6, StoreCountKept DEF Next

LEMMA KeptInvariant == Spec => [](TodoShrinks /\ AloneHasNoRival /\ WordsKept)
<1>1. Init => TodoShrinks /\ AloneHasNoRival /\ WordsKept
  BY DEF Init, TodoShrinks, AloneHasNoRival, WordsKept
<1> QED
  BY <1>1, TodoStep, AloneStep, KeptStep, IdInvariant, PTL DEF Spec

(* When addOnePageData has returned without an error, the search finds the
   link under every word of the page, with the page's own count unless
   another call for the same link has overlapped or followed.              *)
THEOREM ReportedIsStored == Spec => []StoredWhenReported
<1>1. IdInv /\ TodoShrinks /\ WordsKept => StoredWhenReported
  BY DEF TodoShrinks, WordsKept, StoredWhenReported, Stored, AtHand, Kept, Entries
<1> QED
  BY <1>1, KeptInvariant, IdInvariant, PTL

(* No step takes away the last entry of a word for a link: what has been
   found once is found from then on.                                       *)
THEOREM IndexNeverShrinks == Spec => IndexOnlyGrows
<1>1. IdInv /\ [Next]_vars =>
        [\A l \in Link, x \in Word : Entries(l, x) # {} => Entries(l, x)' # {}]_vars
  <2> SUFFICES ASSUME IdInv, [Next]_vars, NEW l \in Link, NEW x \in Word, NEW r \in Entries(l, x)
               PROVE  Entries(l, x)' # {}
    OBVIOUS
  <2>1. r.id_link = linkId'[l] /\ r.id_word = wordId'[x]
    BY IdsStay DEF Entries
  <2>2. CASE r \in counts'
    BY <2>1, <2>2 DEF Entries
  <2>3. ASSUME NEW w \in Worker, StoreCount(w), r \notin counts'
        PROVE  Entries(l, x)' # {}
    <3>1. PICK n : n = CountRow(w, GivenCount(w))
      OBVIOUS
    <3>2. counts' = (counts \ AtKey(w)) \cup {n}
      BY <2>3, <3>1 DEF StoreCount, PutCounts
    <3>3. n.id_link = r.id_link /\ n.id_word = r.id_word
      BY <2>3, <3>1, <3>2 DEF AtKey, CountRow, Entries
    <3> QED
      BY <2>1, <3>2, <3>3 DEF Entries
  <2> QED
    BY <2>2, <2>3 DEF Entries, Next, vars, rows, CreateTables, AddOnePageData, NextWord, StoreLink,
       PutLink, StoreWord, PutWord, ReturnFalse, IdTooLarge, DatabaseFails
<1> QED
  BY <1>1, IdInvariant, PTL DEF Spec, IndexOnlyGrows

-----------------------------------------------------------------------------
(* The refinement of PageIndex.  What a call still has to store is its own,
   and it is past the link only when the link has its title.               *)
CallsInOrder ==
  \A w \in Worker :
    /\ pc[w] \in {"next", "word", "count"} => title[page[w].link] # NoTitle
    /\ pc[w] \in {"word", "count"} => word[w] \notin todo[w]

LEMMA OrderStep == IdInv /\ CallsInOrder /\ [Next]_vars => CallsInOrder'
<1> SUFFICES ASSUME IdInv, CallsInOrder, [Next]_vars
             PROVE  CallsInOrder'
  OBVIOUS
<1> USE DEF IdInv, BaseInv, DatabaseTypeOK
<1>1. CASE CreateTables \/ UNCHANGED vars
  BY <1>1 DEF CallsInOrder, CreateTables, vars, rows
<1>2. ASSUME NEW w \in Worker, NEW p \in Page, AddOnePageData(w, p)
      PROVE  CallsInOrder'
  BY <1>2 DEF CallsInOrder, AddOnePageData, rows
<1>3. ASSUME NEW w \in Worker, NEW x \in Word, NextWord(w, x)
      PROVE  CallsInOrder'
  BY <1>3 DEF CallsInOrder, NextWord, Goto, rows
<1>4. ASSUME NEW w \in Worker, StoreLink(w)
      PROVE  CallsInOrder'
  <2>1. page[w] \in Page /\ page[w].link \in Link /\ page[w].title # NoTitle
    BY <1>4, PageFacts, DatabaseConstants DEF StoreLink, PutLink, Committed, CallsHavePages
  <2>2. /\ title' = [title EXCEPT ![page[w].link] = IF @ = NoTitle THEN page[w].title ELSE @]
        /\ pc[w] = "link" /\ pc'[w] \in {"next", "failed"}
        /\ \A v \in Worker \ {w} : pc'[v] = pc[v]
        /\ UNCHANGED <<page, todo, word>>
    BY <1>4 DEF StoreLink, PutLink, Committed
  <2>3. title'[page[w].link] # NoTitle
        /\ \A l \in Link : title[l] # NoTitle => title'[l] # NoTitle
    BY <2>1, <2>2
  <2>4. \A v \in Worker : pc[v] # "idle" => page[v].link \in Link
    BY PageFacts DEF CallsHavePages
  <2> QED
    BY <2>2, <2>3, <2>4 DEF CallsInOrder
<1>5. ASSUME NEW w \in Worker, StoreWord(w) \/ StoreCount(w)
      PROVE  CallsInOrder'
  BY <1>5 DEF CallsInOrder, StoreWord, StoreCount, PutWord, PutCounts, Committed
<1>6. ASSUME NEW w \in Worker, ReturnFalse(w) \/ IdTooLarge(w) \/ DatabaseFails(w)
      PROVE  CallsInOrder'
  BY <1>6 DEF CallsInOrder, ReturnFalse, IdTooLarge, DatabaseFails, Goto, rows
<1> QED
  BY <1>1, <1>2, <1>3, <1>4, <1>5, <1>6 DEF Next

(* A step that writes no count leaves what is found as it was: a link or a
   word that gets its id has no entry yet.                                 *)
LEMMA FoundStays ==
  ASSUME IdInv, IdInv', [Next]_vars, UNCHANGED counts
  PROVE  FoundIn' = FoundIn
<1>1. ASSUME NEW l \in Link, NEW x \in Word
      PROVE  Entries(l, x)' = Entries(l, x)
  <2>1. /\ linkId[l] # 0 => linkId'[l] = linkId[l]
        /\ wordId[x] # 0 => wordId'[x] = wordId[x]
    BY IdsStay
  <2>2. ASSUME NEW r \in counts, r.id_link = linkId'[l], r.id_link # 0
        PROVE  linkId[l] = r.id_link
    <3>1. PICK k \in Link : linkId[k] = r.id_link
      BY DEF IdInv, IdsNameRows
    <3>2. linkId'[k] = linkId'[l]
      BY <2>2, <3>1, IdsStay
    <3>3. k = l
      BY <2>2, <3>2 DEF IdInv, IdsNameRows, SameId
    <3> QED
      BY <3>1, <3>3
  <2>3. ASSUME NEW r \in counts, r.id_word = wordId'[x], r.id_word # 0
        PROVE  wordId[x] = r.id_word
    <3>1. PICK y \in Word : wordId[y] = r.id_word
      BY DEF IdInv, IdsNameRows
    <3>2. wordId'[y] = wordId'[x]
      BY <2>3, <3>1, IdsStay
    <3>3. y = x
      BY <2>3, <3>2 DEF IdInv, IdsNameRows, SameId
    <3> QED
      BY <3>1, <3>3
  <2> QED
    BY <2>1, <2>2, <2>3 DEF Entries
<1> QED
  BY <1>1 DEF FoundIn

(* A count that is stored is found from now on, for its link and word.     *)
LEMMA FoundAfterCount ==
  ASSUME IdInv, NEW w \in Worker, StoreCount(w)
  PROVE  FoundIn' = [FoundIn EXCEPT ![page[w].link][word[w]] = page[w].words[word[w]]]
<1> USE DEF IdInv, BaseInv, DatabaseTypeOK
<1>0. PICK n, a, b, c : /\ n = CountRow(w, c)
                       /\ a = page[w].link
                       /\ b = word[w]
                       /\ c = page[w].words[word[w]]
  OBVIOUS
<1>1. /\ counts' = (counts \ AtKey(w)) \cup {n}
      /\ pc[w] = "count"
      /\ UNCHANGED <<linkId, wordId>>
  BY <1>0 DEF StoreCount, PutCounts, Committed, GivenCount
<1>2. a \in Link /\ b \in Word
  BY <1>0, <1>1, PageFacts DEF CallsHavePages
<1>3. /\ idLink[w] = linkId[a] /\ idLink[w] # 0
      /\ idWord[w] = wordId[b] /\ idWord[w] # 0
  BY <1>0, <1>1 DEF IdsNameRows
<1>4. Entries(a, b)' = {n}
  BY <1>0, <1>1, <1>3 DEF Entries, AtKey, CountRow
<1>5. CountIn(Entries(a, b)') = c
  BY <1>0, <1>4 DEF CountIn, CountRow
<1>6. ASSUME NEW l \in Link, NEW x \in Word, l # a \/ x # b
      PROVE  Entries(l, x)' = Entries(l, x)
  <2>1. \A r \in AtKey(w) \cup {n} :
          ~(r.id_link = linkId[l] /\ r.id_word = wordId[x])
    BY <1>0, <1>2, <1>3, <1>6 DEF AtKey, CountRow, IdsNameRows, SameId
  <2> QED
    BY <1>1, <2>1 DEF Entries
<1>7. FoundIn' = [l \in Link |-> [x \in Word |-> CountIn(Entries(l, x)')]]
  BY DEF FoundIn, CountIn
<1>8. \A l \in Link, x \in Word :
        CountIn(Entries(l, x)') = IF l = a /\ x = b THEN c ELSE CountIn(Entries(l, x))
  BY <1>5, <1>6
<1>9. [FoundIn EXCEPT ![a][b] = c]
        = [l \in Link |-> [x \in Word |->
             IF l = a /\ x = b THEN c ELSE CountIn(Entries(l, x))]]
  BY <1>2 DEF FoundIn
<1>10. FoundIn' = [FoundIn EXCEPT ![a][b] = c]
  BY <1>7, <1>8, <1>9
<1> QED
  BY <1>0, <1>10

(* How the caller sees its call, before and after a step of it.            *)
Places == {"link", "next", "word", "count"}

LEMMA CallNow ==
  ASSUME NEW w \in Worker
  PROVE  /\ pc[w] \in Places => CallOf[w] = "storing" /\ RestOf[w] = todo[w] \cup AtHand(w)
         /\ pc[w] \notin Places => CallOf[w] = pc[w] /\ RestOf[w] = {}
BY DEF CallOf, RestOf, Inside, Places

LEMMA CallSame ==
  ASSUME NEW w \in Worker
  PROVE  /\ [CallOf EXCEPT ![w] = CallOf[w]] = CallOf
         /\ [RestOf EXCEPT ![w] = RestOf[w]] = RestOf
BY DEF CallOf, RestOf

LEMMA CallOthers ==
  ASSUME IdInv, NEW w \in Worker, NEW to, pc' = [pc EXCEPT ![w] = to],
         \A v \in Worker \ {w} : todo'[v] = todo[v] /\ word'[v] = word[v]
  PROVE  \A v \in Worker \ {w} : CallOf'[v] = CallOf[v] /\ RestOf'[v] = RestOf[v]
<1> SUFFICES ASSUME NEW v \in Worker \ {w}
             PROVE  CallOf'[v] = CallOf[v] /\ RestOf'[v] = RestOf[v]
  OBVIOUS
<1>1. pc'[v] = pc[v] /\ todo'[v] = todo[v] /\ word'[v] = word[v]
  BY DEF IdInv, BaseInv, DatabaseTypeOK
<1>2. v \in Inside' <=> v \in Inside
  BY <1>1 DEF Inside
<1>3. AtHand(v)' = AtHand(v)
  BY <1>1 DEF AtHand
<1> QED
  BY <1>1, <1>2, <1>3 DEF CallOf, RestOf

LEMMA CallGoesOn ==
  ASSUME IdInv, NEW w \in Worker, NEW to \in Places, pc' = [pc EXCEPT ![w] = to],
         \A v \in Worker \ {w} : todo'[v] = todo[v] /\ word'[v] = word[v]
  PROVE  /\ CallOf' = [CallOf EXCEPT ![w] = "storing"]
         /\ RestOf' = [RestOf EXCEPT ![w] = (todo[w] \cup AtHand(w))']
<1>1. pc'[w] = to
  BY DEF IdInv, BaseInv, DatabaseTypeOK
<1>2. w \in Inside'
  BY <1>1 DEF Inside, Places
<1>3. CallOf'[w] = "storing" /\ RestOf'[w] = (todo[w] \cup AtHand(w))'
  BY <1>2 DEF CallOf, RestOf
<1>4. \A v \in Worker \ {w} : CallOf'[v] = CallOf[v] /\ RestOf'[v] = RestOf[v]
  BY CallOthers
<1>5. /\ CallOf = [v \in Worker |-> CallOf[v]] /\ CallOf' = [v \in Worker |-> CallOf'[v]]
      /\ RestOf = [v \in Worker |-> RestOf[v]] /\ RestOf' = [v \in Worker |-> RestOf'[v]]
  BY DEF CallOf, RestOf
<1> QED
  BY <1>3, <1>4, <1>5

LEMMA CallEnds ==
  ASSUME IdInv, NEW w \in Worker, NEW to, to \notin Places, pc' = [pc EXCEPT ![w] = to],
         \A v \in Worker \ {w} : todo'[v] = todo[v] /\ word'[v] = word[v]
  PROVE  /\ CallOf' = [CallOf EXCEPT ![w] = to]
         /\ RestOf' = [RestOf EXCEPT ![w] = {}]
<1>1. pc'[w] = to
  BY DEF IdInv, BaseInv, DatabaseTypeOK
<1>2. w \notin Inside'
  BY <1>1 DEF Inside, Places
<1>3. CallOf'[w] = to /\ RestOf'[w] = {}
  BY <1>1, <1>2 DEF CallOf, RestOf
<1>4. \A v \in Worker \ {w} : CallOf'[v] = CallOf[v] /\ RestOf'[v] = RestOf[v]
  BY CallOthers
<1>5. /\ CallOf = [v \in Worker |-> CallOf[v]] /\ CallOf' = [v \in Worker |-> CallOf'[v]]
      /\ RestOf = [v \in Worker |-> RestOf[v]] /\ RestOf' = [v \in Worker |-> RestOf'[v]]
  BY DEF CallOf, RestOf
<1> QED
  BY <1>3, <1>4, <1>5

LEMMA AbstractInit == Init => Abstract!IndexInit
<1> SUFFICES ASSUME Init PROVE Abstract!IndexInit
  OBVIOUS
<1>1. Inside = {}
  BY DEF Init, Inside
<1>2. \A l \in Link, x \in Word : CountIn(Entries(l, x)) = 0
  BY DEF Init, Entries, CountIn
<1>3. FoundIn = NothingYet.found /\ title = NothingYet.title
  BY <1>2 DEF FoundIn, NothingYet, Init
<1>4. CallOf = [w \in Worker |-> "idle"] /\ RestOf = [w \in Worker |-> {}]
  BY <1>1 DEF Init, CallOf, RestOf
<1> QED
  BY <1>3, <1>4 DEF Init, Abstract!IndexInit

LEMMA AbstractStep ==
  IdInv /\ IdInv' /\ CallsInOrder /\ [Next]_vars => [Abstract!IndexNext]_(Abstract!ivars)
<1> SUFFICES ASSUME IdInv, IdInv', CallsInOrder, [Next]_vars
             PROVE  Abstract!IndexNext \/ UNCHANGED Abstract!ivars
  OBVIOUS
<1> USE DEF Places
<1>1. CASE CreateTables \/ UNCHANGED vars
  <2>1. UNCHANGED <<counts, title, page, pc, todo, word>>
    BY <1>1 DEF CreateTables, vars, rows
  <2>2. UNCHANGED FoundIn
    BY <2>1, FoundStays
  <2>3. UNCHANGED CallOf /\ UNCHANGED RestOf
    BY <2>1 DEF CallOf, RestOf, Inside, AtHand
  <2> QED
    BY <2>1, <2>2, <2>3 DEF Abstract!ivars
<1>2. ASSUME NEW w \in Worker, NEW p \in Page, AddOnePageData(w, p)
      PROVE  Abstract!Begin(w, p)
  <2>1. /\ pc' = [pc EXCEPT ![w] = "link"] /\ pc[w] \in {"idle", "stored", "failed"}
        /\ page' = [page EXCEPT ![w] = p]
        /\ todo' = [todo EXCEPT ![w] = DOMAIN p.words]
        /\ UNCHANGED <<counts, title, word>>
    BY <1>2 DEF AddOnePageData, rows
  <2>2. todo'[w] = DOMAIN p.words /\ \A v \in Worker \ {w} : todo'[v] = todo[v]
    BY <2>1 DEF IdInv, BaseInv, DatabaseTypeOK
  <2>3. UNCHANGED FoundIn
    BY <2>1, FoundStays
  <2>4. /\ CallOf' = [CallOf EXCEPT ![w] = "storing"] /\ CallOf[w] # "storing"
        /\ RestOf' = [RestOf EXCEPT ![w] = DOMAIN p.words]
    <3>1. (todo[w] \cup AtHand(w))' = DOMAIN p.words
      BY <2>1, <2>2 DEF AtHand, IdInv, BaseInv, DatabaseTypeOK
    <3> QED
      BY <2>1, <2>2, <3>1, CallNow, CallGoesOn
  <2> QED
    BY <2>1, <2>3, <2>4 DEF Abstract!Begin
<1>3. ASSUME NEW w \in Worker, NEW x \in Word, NextWord(w, x)
      PROVE  UNCHANGED Abstract!ivars
  <2>1. /\ pc' = [pc EXCEPT ![w] = "word"] /\ pc[w] = "next"
        /\ x \in todo[w] /\ todo' = [todo EXCEPT ![w] = @ \ {x}]
        /\ word' = [word EXCEPT ![w] = x]
        /\ UNCHANGED <<counts, title, page>>
    BY <1>3 DEF NextWord, Goto, rows
  <2>2. /\ todo'[w] = todo[w] \ {x} /\ word'[w] = x
        /\ \A v \in Worker \ {w} : todo'[v] = todo[v] /\ word'[v] = word[v]
    BY <2>1 DEF IdInv, BaseInv, DatabaseTypeOK
  <2>3. UNCHANGED FoundIn
    BY <2>1, FoundStays
  <2>4. (todo[w] \cup AtHand(w))' = todo[w] /\ AtHand(w) = {}
    BY <2>1, <2>2 DEF AtHand, IdInv, BaseInv, DatabaseTypeOK
  <2>5. UNCHANGED CallOf /\ UNCHANGED RestOf
    <3>1. /\ CallOf' = [CallOf EXCEPT ![w] = "storing"]
          /\ RestOf' = [RestOf EXCEPT ![w] = (todo[w] \cup AtHand(w))']
      BY <2>1, <2>2, CallGoesOn
    <3>2. CallOf[w] = "storing" /\ RestOf[w] = todo[w]
      BY <2>1, <2>4, CallNow
    <3> QED
      BY <2>4, <3>1, <3>2, CallSame
  <2> QED
    BY <2>1, <2>3, <2>5 DEF Abstract!ivars
<1>4. ASSUME NEW w \in Worker, StoreLink(w)
      PROVE  Abstract!PutTitle(w)
  <2>1. PICK to : /\ to \in {"next", "failed"} /\ pc' = [pc EXCEPT ![w] = to]
                  /\ pc[w] = "link"
                  /\ UNCHANGED <<counts, page, todo, word>>
    BY <1>4 DEF StoreLink, PutLink, Committed
  <2>2. title' = [title EXCEPT ![page[w].link] = IF @ = NoTitle THEN page[w].title ELSE @]
    BY <1>4 DEF StoreLink, PutLink
  <2>3. UNCHANGED FoundIn
    BY <2>1, FoundStays
  <2>4. CallOf[w] = "storing" /\ RestOf[w] = todo[w]
    BY <2>1, CallNow DEF AtHand
  <2>5. CASE to = "next"
    <3>1. (todo[w] \cup AtHand(w))' = todo[w]
      BY <2>1, <2>5 DEF AtHand, IdInv, BaseInv, DatabaseTypeOK
    <3>2. UNCHANGED CallOf /\ RestOf' = [RestOf EXCEPT ![w] = RestOf[w]]
      <4>1. /\ CallOf' = [CallOf EXCEPT ![w] = "storing"]
            /\ RestOf' = [RestOf EXCEPT ![w] = (todo[w] \cup AtHand(w))']
        BY <2>1, <2>5, CallGoesOn
      <4> QED
        BY <2>4, <3>1, <4>1, CallSame
    <3> QED
      BY <2>1, <2>2, <2>3, <2>4, <3>2 DEF Abstract!PutTitle, Abstract!Put
  <2>6. CASE to = "failed"
    BY <2>1, <2>2, <2>3, <2>4, <2>6, CallEnds
       DEF Abstract!PutTitle, Abstract!Put, Abstract!End
  <2> QED
    BY <2>1, <2>5, <2>6
<1>5. ASSUME NEW w \in Worker, StoreWord(w)
      PROVE  UNCHANGED Abstract!ivars \/ Abstract!GiveUp(w)
  <2>1. PICK to : /\ to \in {"count", "failed"} /\ pc' = [pc EXCEPT ![w] = to]
                  /\ pc[w] = "word"
                  /\ UNCHANGED <<counts, title, page, todo, word>>
    BY <1>5 DEF StoreWord, PutWord, Committed
  <2>2. UNCHANGED FoundIn
    BY <2>1, FoundStays
  <2>3. CallOf[w] = "storing" /\ RestOf[w] = todo[w] \cup AtHand(w)
    BY <2>1, CallNow
  <2>4. CASE to = "count"
    <3>1. (todo[w] \cup AtHand(w))' = RestOf[w]
      BY <2>1, <2>3, <2>4 DEF AtHand, IdInv, BaseInv, DatabaseTypeOK
    <3>2. UNCHANGED CallOf /\ UNCHANGED RestOf
      <4>1. /\ CallOf' = [CallOf EXCEPT ![w] = "storing"]
            /\ RestOf' = [RestOf EXCEPT ![w] = (todo[w] \cup AtHand(w))']
        BY <2>1, <2>4, CallGoesOn
      <4> QED
        BY <2>3, <3>1, <4>1, CallSame
    <3> QED
      BY <2>1, <2>2, <3>2 DEF Abstract!ivars
  <2>5. CASE to = "failed"
    BY <2>1, <2>2, <2>3, <2>5, CallEnds DEF Abstract!GiveUp, Abstract!End
  <2> QED
    BY <2>1, <2>4, <2>5
<1>6. ASSUME NEW w \in Worker, StoreCount(w)
      PROVE  word[w] \in Word /\ Abstract!PutWord(w, word[w])
  <2>1. PICK to : /\ to \in {"next", "failed"} /\ pc' = [pc EXCEPT ![w] = to]
                  /\ pc[w] = "count"
                  /\ UNCHANGED <<title, page, todo, word>>
    BY <1>6 DEF StoreCount, PutCounts, Committed
  <2>2. word[w] \in Word
    BY <2>1, PageFacts DEF IdInv, BaseInv, CallsHavePages
  <2>3. FoundIn' = [FoundIn EXCEPT ![page[w].link][word[w]] = page[w].words[word[w]]]
    BY <1>6, FoundAfterCount
  <2>4. CallOf[w] = "storing" /\ RestOf[w] = todo[w] \cup {word[w]}
    BY <2>1, CallNow DEF AtHand
  <2>5. title[page[w].link] # NoTitle /\ todo[w] = RestOf[w] \ {word[w]}
    BY <2>1, <2>4 DEF CallsInOrder
  <2>6. Abstract!Put(w, RestOf[w] \ {word[w]})
    <3>1. CASE to = "next"
      <4>1. (todo[w] \cup AtHand(w))' = todo[w]
        BY <2>1, <3>1 DEF AtHand, IdInv, BaseInv, DatabaseTypeOK
      <4>2. UNCHANGED CallOf /\ RestOf' = [RestOf EXCEPT ![w] = todo[w]]
        <5>1. /\ CallOf' = [CallOf EXCEPT ![w] = "storing"]
              /\ RestOf' = [RestOf EXCEPT ![w] = (todo[w] \cup AtHand(w))']
          BY <2>1, <3>1, CallGoesOn
        <5> QED
          BY <2>4, <4>1, <5>1, CallSame
      <4> QED
        BY <2>1, <2>4, <2>5, <4>2 DEF Abstract!Put
    <3>2. CASE to = "failed"
      BY <2>1, <2>4, <3>2, CallEnds DEF Abstract!Put, Abstract!End
    <3> QED
      BY <2>1, <3>1, <3>2
  <2> QED
    BY <2>1, <2>2, <2>3, <2>4, <2>5, <2>6 DEF Abstract!PutWord, Abstract!HasTitle
<1>7. ASSUME NEW w \in Worker, ReturnFalse(w)
      PROVE  Abstract!Succeed(w)
  <2>1. /\ pc' = [pc EXCEPT ![w] = "stored"] /\ pc[w] = "next" /\ todo[w] = {}
        /\ UNCHANGED <<counts, title, page, todo, word>>
    BY <1>7 DEF ReturnFalse, Goto, rows
  <2>2. UNCHANGED FoundIn
    BY <2>1, FoundStays
  <2>3. /\ CallOf' = [CallOf EXCEPT ![w] = "stored"] /\ CallOf[w] = "storing"
        /\ RestOf' = [RestOf EXCEPT ![w] = {}] /\ RestOf[w] = {}
    BY <2>1, CallNow, CallEnds DEF AtHand
  <2>4. title[page[w].link] # NoTitle
    BY <2>1 DEF CallsInOrder
  <2> QED
    BY <2>1, <2>2, <2>3, <2>4 DEF Abstract!Succeed, Abstract!HasTitle, Abstract!End
<1>8. ASSUME NEW w \in Worker, IdTooLarge(w) \/ DatabaseFails(w)
      PROVE  Abstract!GiveUp(w)
  <2>1. /\ pc' = [pc EXCEPT ![w] = "failed"] /\ pc[w] \in Places
        /\ UNCHANGED <<counts, title, page, todo, word>>
    BY <1>8 DEF IdTooLarge, DatabaseFails, Goto, rows, Inside
  <2>2. UNCHANGED FoundIn
    BY <2>1, FoundStays
  <2>3. /\ CallOf' = [CallOf EXCEPT ![w] = "failed"] /\ CallOf[w] = "storing"
        /\ RestOf' = [RestOf EXCEPT ![w] = {}]
    BY <2>1, CallNow, CallEnds
  <2> QED
    BY <2>1, <2>2, <2>3 DEF Abstract!GiveUp, Abstract!End
<1> QED
  BY <1>1, <1>2, <1>3, <1>4, <1>5, <1>6, <1>7, <1>8
     DEF Next, Abstract!IndexNext, Abstract!IndexStep

(* addOnePageData, in 2n+1 transactions over three tables, is for its
   callers the index of PageIndex: whatever interleaves, conflicts or is
   rolled back, each transaction puts one title or one word or nothing.    *)
THEOREM IndexIsAPageIndex == Spec => ImplementsPageIndex
<1>1. Init => CallsInOrder
  BY DEF Init, CallsInOrder
<1> QED
  BY <1>1, OrderStep, AbstractInit, AbstractStep, IdInvStep, IdInvariant, PTL
     DEF Spec, ImplementsPageIndex, Abstract!IndexSpec
=============================================================================
