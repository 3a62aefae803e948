-------------------------- MODULE MCSearchHistory --------------------------
(***************************************************************************)
(* Two crawlers and one search.  A link is crawled twice, one call after   *)
(* the other or both at once, and has a word twice or only once, or another *)
(* link competes for the one that is shown.                                *)
(***************************************************************************)
EXTENDS SearchHistory, TLC

CONSTANTS w1, w2, l1, l2, t1, cat, catfish

FewReadings == {[link |-> l1, title |-> t1, words |-> cat :> 2],
                [link |-> l1, title |-> t1, words |-> cat :> 1],
                [link |-> l2, title |-> t1, words |-> catfish :> 2]}

Parts == {<<cat, cat>>, <<catfish, catfish>>, <<catfish, cat>>}

OneSearch == {[method |-> "post", target |-> "/", form |-> "search", words |-> {cat}]}

AllFiles == {Files}

Crawlers == Permutations({w1, w2})
=============================================================================
