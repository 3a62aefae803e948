--------------------------- MODULE MCCrawlIndex ----------------------------
(***************************************************************************)
(* A small web for the crawler and its index: a redirect to a page, which  *)
(* links to itself, to a URL that cannot be parsed and to one that yields  *)
(* nothing.  The page is visited twice, at two depths, at the same time,   *)
(* and may have lost a word in between.  The index is new, or has an old   *)
(* title of the page, an old count and a word that is no longer there.     *)
(***************************************************************************)
EXTENDS CrawlIndex, TLC

CONSTANTS moved, home, bad, dead, t0, t1, cat, dog, eel

SmallWeb == [u \in {moved, home, bad, dead} |->
  IF u = moved THEN [kind |-> "redirect", links |-> <<home>>]
  ELSE IF u = home THEN [kind |-> "page", links |-> <<home, bad, dead>>]
  ELSE IF u = bad THEN [kind |-> "malformed", links |-> <<>>]
  ELSE [kind |-> "nothing", links |-> <<>>]]

SmallTexts == [u \in {moved, home, bad, dead} |->
  IF u = home THEN {[title |-> t1, words |-> (cat :> 1) @@ (dog :> 2)],
                    [title |-> t1, words |-> (cat :> 2)]}
  ELSE {}]

Nothing == [x \in {cat, dog, eel} |-> 0]

Index0 == [found |-> [u \in Url |-> Nothing], title |-> [u \in Url |-> NoTitle]]

Index1 ==
  [found |-> [u \in Url |-> IF u = home THEN (cat :> 3) @@ (eel :> 1) @@ Nothing ELSE Nothing],
   title |-> [u \in Url |-> IF u = home THEN t0 ELSE NoTitle]]

NewOrOld == {Index0, Index1}
=============================================================================
