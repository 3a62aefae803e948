----------------------------- MODULE PageIndex -----------------------------
(***************************************************************************)
(* What CrowlerDatabase promises the workers of the crawler.  Indexing a   *)
(* page is a call that puts the title, then the words one by one, and      *)
(* reports what came of it.  A title once put stays, a count is replaced.  *)
(* A call that fails has put any part of its page, and takes nothing back. *)
(* The tables outlive a program (CREATE TABLE IF NOT EXISTS): the index    *)
(* begins with what earlier ones have left in it, once nothing at all.     *)
(* Ids, serials, tables and rows are not spoken of.                        *)
(***************************************************************************)
EXTENDS Integers

CONSTANTS Worker, Link, Title, Word,
          Pages,    \* [link, title, words: the count of each word]
          Earlier,  \* [found, title]: what earlier programs may have left
          NoPage, NoTitle

VARIABLES
  found,  \* what the search finds: the count of a word for a link, or 0
  title,  \* the title of each link
  call,   \* of each worker: "idle", "storing", then "stored" or "failed"
  page,   \* the page it stores or has stored
  rest    \* the words it has still to put

ivars == <<found, title, call, page, rest>>

IndexInit ==
  /\ \E e \in Earlier : found = e.found /\ title = e.title
  /\ call = [w \in Worker |-> "idle"]
  /\ page = [w \in Worker |-> NoPage]
  /\ rest = [w \in Worker |-> {}]

Begin(w, p) ==
  /\ call[w] # "storing"
  /\ call' = [call EXCEPT ![w] = "storing"]
  /\ page' = [page EXCEPT ![w] = p]
  /\ rest' = [rest EXCEPT ![w] = DOMAIN p.words]
  /\ UNCHANGED <<found, title>>

(* The call comes to its end.                                              *)
End(w, result) ==
  /\ call[w] = "storing"
  /\ call' = [call EXCEPT ![w] = result]
  /\ rest' = [rest EXCEPT ![w] = {}]

(* Something is in the index for good, and the call goes on, or never
   learns of it.                                                           *)
Put(w, left) ==
  /\ call[w] = "storing"
  /\ UNCHANGED page
  /\ \/ rest' = [rest EXCEPT ![w] = left] /\ UNCHANGED call
     \/ End(w, "failed")

PutTitle(w) ==
  /\ Put(w, rest[w])
  /\ title' = [title EXCEPT ![page[w].link] = IF @ = NoTitle THEN page[w].title ELSE @]
  /\ UNCHANGED found

HasTitle(w) == call[w] = "storing" /\ title[page[w].link] # NoTitle

(* Slip: the count is added to the one that is there.                      *)
PutWordAdded(w, x) ==
  /\ HasTitle(w)
  /\ x \in rest[w]
  /\ Put(w, rest[w] \ {x})
  /\ found' = [found EXCEPT ![page[w].link][x] = @ + page[w].words[x]]
  /\ UNCHANGED title

PutWord(w, x) ==
  /\ HasTitle(w)
  /\ x \in rest[w]
  /\ Put(w, rest[w] \ {x})
  /\ found' = [found EXCEPT ![page[w].link][x] = page[w].words[x]]
  /\ UNCHANGED title

(* Slip: a call reports before it has put all its words.                   *)
SucceedEarly(w) ==
  /\ HasTitle(w)
  /\ End(w, "stored")
  /\ UNCHANGED <<found, title, page>>

Succeed(w) ==
  /\ HasTitle(w)
  /\ rest[w] = {}
  /\ End(w, "stored")
  /\ UNCHANGED <<found, title, page>>

GiveUp(w) ==
  /\ End(w, "failed")
  /\ UNCHANGED <<found, title, page>>

IndexStep(w) ==
  \/ PutTitle(w) \/ Succeed(w) \/ GiveUp(w)
  \/ \E x \in Word : PutWord(w, x)

IndexNext == \E w \in Worker : IndexStep(w) \/ \E p \in Pages : Begin(w, p)

IndexSpec == IndexInit /\ [][IndexNext]_ivars
=============================================================================
