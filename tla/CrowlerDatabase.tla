-------------------------- MODULE CrowlerDatabase --------------------------
(***************************************************************************)
(* CrowlerDatabase (_sources/crowler_database) as the crawler uses it:     *)
(* createTables() by main(), then addOnePageData() by the workers of the   *)
(* pool, at the same time.  Indexing a page takes one transaction for the  *)
(* link, then two for each word, over three PostgreSQL tables.             *)
(*                                                                         *)
(* A transaction is one step.  It writes one row; another one that inserts *)
(* the same key waits until it ends (unique index, READ COMMITTED), so its *)
(* statements interleave with no one's.  A BIGSERIAL value is drawn before *)
(* the conflict is noticed and is never given back.                        *)
(*                                                                         *)
(* A behaviour begins with an empty database and goes through any number   *)
(* of runs of the program: createTables leaves tables that exist as they   *)
(* are, and a run that is killed has failed the calls it was in.           *)
(***************************************************************************)
EXTENDS Integers, Vocabulary

CONSTANTS
  Worker,                 \* the threads that call
  Title,
  Page,                   \* what may be crawled: a link, its title, its words' counts
  NoPage, NoTitle, NoWord,
  IntMax,                 \* the largest int
  MaxSerial               \* bound on the serials drawn for links

ASSUME DatabaseConstants ==
  /\ \A p \in Page :
       /\ p.link \in Link
       /\ p.title \in Title
       /\ DOMAIN p.words \subseteq Word
       /\ \A x \in DOMAIN p.words : p.words[x] \in Nat \ {0}
  /\ NoPage \notin Page
  /\ NoTitle \notin Title
  /\ NoWord \notin Word
  /\ IntMax \in Nat
  /\ MaxSerial \in Nat

VARIABLES
  tables,   \* do the three tables exist?
  linkId,   \* links: the id_link of each link, 0 for "no row"
  title,    \* links: link_description
  wordId,   \* words: the id_word of each word, 0 for "no row"
  counts,   \* links_words_count
  linkSerial, wordSerial,  \* what the BIGSERIALs give next
  pc,       \* where each worker is in addOnePageData, "idle" before its first
  page,     \* its arguments
  todo,     \* the words its loop has not reached
  word,     \* the word its loop is at
  idLink, idWord,
  crawled,  \* history: the arguments of all calls
  alone,    \* history: has no other call for its link overlapped or followed?
  faulty    \* history: did the database fail the call?

rows == <<linkId, title, wordId, counts>>
serials == <<linkSerial, wordSerial>>
history == <<crawled, alone, faulty>>
vars == <<tables, linkId, title, wordId, counts, linkSerial, wordSerial,
          pc, page, todo, word, idLink, idWord, crawled, alone, faulty>>

Inside == {w \in Worker : pc[w] \in {"link", "next", "word", "count"}}

Init ==
  /\ tables = FALSE
  /\ linkId = [l \in Link |-> 0]
  /\ title = [l \in Link |-> NoTitle]
  /\ wordId = [x \in Word |-> 0]
  /\ counts = {}
  /\ linkSerial = 1
  /\ wordSerial = 1
  /\ pc = [w \in Worker |-> "idle"]
  /\ page = [w \in Worker |-> NoPage]
  /\ todo = [w \in Worker |-> {}]
  /\ word = [w \in Worker |-> NoWord]
  /\ idLink = [w \in Worker |-> 0]
  /\ idWord = [w \in Worker |-> 0]
  /\ crawled = {}
  /\ alone = [w \in Worker |-> FALSE]
  /\ faulty = [w \in Worker |-> FALSE]

Goto(w, from, to) ==
  /\ pc[w] = from
  /\ pc' = [pc EXCEPT ![w] = to]

-----------------------------------------------------------------------------
(* createTables: CREATE TABLE IF NOT EXISTS.  main() ignores its result, so
   the workers may find no tables.                                         *)
CreateTables ==
  /\ ~tables
  /\ tables' = TRUE
  /\ UNCHANGED <<rows, serials, pc, page, todo, word, idLink, idWord, history>>

(* addOnePageData(link, linkDescription, words) is called.                 *)
AddOnePageData(w, p) ==
  /\ linkSerial <= MaxSerial
  /\ pc[w] \in {"idle", "stored", "failed"}
  /\ pc' = [pc EXCEPT ![w] = "link"]
  /\ page' = [page EXCEPT ![w] = p]
  /\ todo' = [todo EXCEPT ![w] = DOMAIN p.words]
  /\ idLink' = [idLink EXCEPT ![w] = 0]
  /\ idWord' = [idWord EXCEPT ![w] = 0]
  /\ crawled' = crawled \cup {p}
  /\ LET others == {v \in Worker \ {w} : page[v] # NoPage /\ page[v].link = p.link} IN
     alone' = [v \in Worker |-> IF v = w THEN others \cap Inside = {}
                                ELSE alone[v] /\ v \notin others]
  /\ faulty' = [faulty EXCEPT ![w] = FALSE]
  /\ UNCHANGED <<tables, rows, serials, word>>

(* A transaction of w has been committed; unless the connection breaks
   before the server says so, the call goes on.                            *)
Committed(w, from, to) ==
  /\ pc[w] = from
  /\ \/ pc' = [pc EXCEPT ![w] = to] /\ UNCHANGED faulty
     \/ pc' = [pc EXCEPT ![w] = "failed"] /\ faulty' = [faulty EXCEPT ![w] = TRUE]

(* INSERT INTO links .. ON CONFLICT DO NOTHING; SELECT id_link, as an int.  *)
IdOfLink(w) == LET l == page[w].link IN IF linkId[l] = 0 THEN linkSerial ELSE linkId[l]

PutLink(w, new) ==
  /\ tables
  /\ Committed(w, "link", "next")
  /\ linkSerial' = linkSerial + 1
  /\ idLink' = [idLink EXCEPT ![w] = IdOfLink(w)]
  /\ linkId' = [linkId EXCEPT ![page[w].link] = IdOfLink(w)]
  /\ title' = [title EXCEPT ![page[w].link] = IF @ = NoTitle THEN page[w].title ELSE @]
  /\ counts' = new
  /\ UNCHANGED <<tables, wordId, wordSerial, page, todo, word, idWord, crawled, alone>>

(* Slip: the id is read as if it always fitted.                            *)
StoreLinkUnchecked(w) == PutLink(w, counts)

(* Slip: a page's old entries are deleted when it is crawled again.        *)
StoreLinkAnew(w) ==
  /\ pc[w] = "link"
  /\ PutLink(w, {r \in counts : r.id_link # IdOfLink(w)})
  /\ IdOfLink(w) <= IntMax

StoreLink(w) ==
  /\ PutLink(w, counts)
  /\ IdOfLink(w) <= IntMax

(* The loop over the words, an unordered_map: any order.                   *)
NextWord(w, x) ==
  /\ Goto(w, "next", "word")
  /\ x \in todo[w]
  /\ todo' = [todo EXCEPT ![w] = @ \ {x}]
  /\ word' = [word EXCEPT ![w] = x]
  /\ idWord' = [idWord EXCEPT ![w] = 0]
  /\ UNCHANGED <<tables, rows, serials, page, idLink, history>>

IdOfWord(w) == IF wordId[word[w]] = 0 THEN wordSerial ELSE wordId[word[w]]

PutWord(w, id) ==
  /\ Committed(w, "word", "count")
  /\ id <= IntMax
  /\ wordSerial' = wordSerial + 1
  /\ idWord' = [idWord EXCEPT ![w] = id]
  /\ wordId' = [wordId EXCEPT ![word[w]] = IdOfWord(w)]
  /\ UNCHANGED <<tables, linkId, title, counts, linkSerial, page, todo, word, idLink,
                 crawled, alone>>

(* Slip: the serial drawn is taken for the id, conflict or not.            *)
StoreWordBySerial(w) == PutWord(w, wordSerial)

StoreWord(w) == PutWord(w, IdOfWord(w))

AtKey(w) == {r \in counts : r.id_link = idLink[w] /\ r.id_word = idWord[w]}

CountRow(w, n) == [id_link |-> idLink[w], id_word |-> idWord[w], count_words |-> n]

PutCounts(w, new) ==
  /\ Committed(w, "count", "next")
  /\ counts' = new
  /\ UNCHANGED <<tables, linkId, title, wordId, serials, page, todo, word, idLink,
                 idWord, crawled, alone>>

GivenCount(w) == page[w].words[word[w]]

(* Slip: ON CONFLICT DO NOTHING, as in the line that is commented out.     *)
StoreFirstCount(w) ==
  PutCounts(w, IF AtKey(w) # {} THEN counts ELSE counts \cup {CountRow(w, GivenCount(w))})

(* Slip: SET count_words = count_words + $3.                               *)
AddToCount(w) ==
  \E old \in IF AtKey(w) = {} THEN {0} ELSE {r.count_words : r \in AtKey(w)} :
    PutCounts(w, (counts \ AtKey(w)) \cup {CountRow(w, old + GivenCount(w))})

(* Slip: a plain INSERT, and no primary key that would refuse it.          *)
InsertCount(w) == PutCounts(w, counts \cup {CountRow(w, GivenCount(w))})

(* links_words_count_insert: ON CONFLICT DO UPDATE SET count_words.        *)
StoreCount(w) == PutCounts(w, (counts \ AtKey(w)) \cup {CountRow(w, GivenCount(w))})

(* All words are stored: false, no failure, is returned.                   *)
ReturnFalse(w) ==
  /\ Goto(w, "next", "stored")
  /\ todo[w] = {}
  /\ UNCHANGED <<tables, rows, serials, page, todo, word, idLink, idWord, history>>

-----------------------------------------------------------------------------
(* Exceptions end the call with true: the transaction at hand is rolled
   back, the ones before it are not.                                       *)
DrawSerial(w) ==
  /\ linkSerial' = IF pc[w] = "link" THEN linkSerial + 1 ELSE linkSerial
  /\ wordSerial' = IF pc[w] = "word" THEN wordSerial + 1 ELSE wordSerial

(* query_value<int> of an id that is no int.                               *)
IdTooLarge(w) ==
  /\ \/ Goto(w, "link", "failed") /\ tables /\ IdOfLink(w) > IntMax
     \/ Goto(w, "word", "failed") /\ IdOfWord(w) > IntMax
  /\ DrawSerial(w)
  /\ UNCHANGED <<tables, rows, page, todo, word, idLink, idWord, history>>

(* No connection, no tables, or the server fails or is stopped.            *)
DatabaseFails(w) ==
  /\ w \in Inside
  /\ pc' = [pc EXCEPT ![w] = "failed"]
  /\ faulty' = [faulty EXCEPT ![w] = TRUE]
  /\ UNCHANGED serials \/ (tables /\ DrawSerial(w))
  /\ UNCHANGED <<tables, rows, page, todo, word, idLink, idWord, crawled, alone>>

-----------------------------------------------------------------------------
Next ==
  \/ CreateTables
  \/ \E w \in Worker :
       \/ \E p \in Page : AddOnePageData(w, p)
       \/ \E x \in Word : NextWord(w, x)
       \/ StoreLink(w) \/ StoreWord(w) \/ StoreCount(w) \/ ReturnFalse(w)
       \/ IdTooLarge(w) \/ DatabaseFails(w)

Spec == Init /\ [][Next]_vars

-----------------------------------------------------------------------------
Row == [id_link : Nat, id_word : Nat, count_words : Nat \ {0}]

DatabaseTypeOK ==
  /\ tables \in BOOLEAN
  /\ linkId \in [Link -> Nat]
  /\ title \in [Link -> Title \cup {NoTitle}]
  /\ wordId \in [Word -> Nat]
  /\ counts \subseteq Row
  /\ linkSerial \in Nat \ {0} /\ wordSerial \in Nat \ {0}
  /\ pc \in [Worker -> {"idle", "link", "next", "word", "count", "stored", "failed"}]
  /\ page \in [Worker -> Page \cup {NoPage}]
  /\ todo \in [Worker -> SUBSET Word]
  /\ word \in [Worker -> Word \cup {NoWord}]
  /\ idLink \in [Worker -> 0..IntMax] /\ idWord \in [Worker -> 0..IntMax]
  /\ crawled \subseteq Page
  /\ alone \in [Worker -> BOOLEAN] /\ faulty \in [Worker -> BOOLEAN]

(* The ids that a call carries from one transaction to the next still name
   the rows of its link and its word when it uses them, two keys never
   share an id, and so every row of links_words_count refers to a link and
   a word that exist: the foreign keys never fail a call, whoever else
   inserts the same keys and whatever was rolled back in between.          *)
SameId(id, a, b) == id[a] = id[b] /\ id[a] # 0 => a = b

IdsNameRows ==
  /\ \A a, b \in Link : SameId(linkId, a, b)
  /\ \A a, b \in Word : SameId(wordId, a, b)
  /\ \A w \in Worker : pc[w] \in {"next", "word", "count"} =>
       idLink[w] # 0 /\ idLink[w] = linkId[page[w].link]
  /\ \A w \in Worker : pc[w] = "count" =>
       idWord[w] # 0 /\ idWord[w] = wordId[word[w]]
  /\ \A r \in counts : /\ \E l \in Link : linkId[l] = r.id_link /\ r.id_link # 0
                       /\ \E x \in Word : wordId[x] = r.id_word /\ r.id_word # 0

(* The index entries of a link for a word.                                 *)
Entries(l, x) == {r \in counts : r.id_link = linkId[l] /\ r.id_word = wordId[x]
                                 /\ r.id_link # 0 /\ r.id_word # 0}

(* What a caller sees of a call, and the words it has still to store.      *)
CallOf == [w \in Worker |-> IF w \in Inside THEN "storing" ELSE pc[w]]

AtHand(w) == IF pc[w] \in {"word", "count"} THEN {word[w]} ELSE {}

RestOf == [w \in Worker |-> IF w \in Inside THEN todo[w] \cup AtHand(w) ELSE {}]

CountIn(E) == IF E = {} THEN 0 ELSE (CHOOSE r \in E : TRUE).count_words

FoundIn == [l \in Link |-> [x \in Word |-> CountIn(Entries(l, x))]]

NothingYet ==
  [found |-> [l \in Link |-> [x \in Word |-> 0]], title |-> [l \in Link |-> NoTitle]]

Abstract == INSTANCE PageIndex WITH
  Pages <- Page, Earlier <- {NothingYet}, found <- FoundIn, call <- CallOf, rest <- RestOf

(* Through ids, serials, conflicts and rollbacks shines the simple index of
   PageIndex: each transaction of addOnePageData puts one title or one word
   for its own link, in place of what was there, or puts nothing.          *)
ImplementsPageIndex == Abstract!IndexSpec

(* When addOnePageData reports success, every word of the page leads to it:
   with exactly this page's count as long as no other call for the link has
   overlapped or followed it.                                              *)
StoredWhenReported ==
  \A w \in Worker : pc[w] = "stored" =>
    LET p == page[w] IN
    \A x \in DOMAIN p.words :
      \E r \in Entries(p.link, x) : alone[w] => r.count_words = p.words[x]

(* Nothing is in the index that no crawl has found: each entry is a word
   and a count that some call was given for that link, however calls
   interleave or break off; the title is that of a crawl of the link.      *)
IndexFromCrawls ==
  /\ \A l \in Link, x \in Word : \A r \in Entries(l, x) :
       \E p \in crawled : /\ p.link = l
                          /\ x \in DOMAIN p.words
                          /\ p.words[x] = r.count_words
  /\ \A l \in Link : title[l] # NoTitle =>
       \E p \in crawled : p.link = l /\ p.title = title[l]

(* A link has at most one entry per word, so that no count is summed twice
   by the search (crowler_database.cpp:196).                               *)
OneEntryPerWord ==
  \A l \in Link, x \in Word : \A r, s \in Entries(l, x) : r = s

(* Rows are updated, never dropped: a word once found on a page keeps
   leading to it, even when later crawls no longer find it.                *)
IndexOnlyGrows ==
  [][\A l \in Link, x \in Word : Entries(l, x) # {} => Entries(l, x)' # {}]_vars

-----------------------------------------------------------------------------
(* crowler_database.cpp:36, 42 declare the ids BIGSERIAL: the index may
   grow beyond an int, and a page that the database accepts is stored.     *)
SoundCallsSucceed == \A w \in Worker : pc[w] = "failed" => faulty[w]
=============================================================================
