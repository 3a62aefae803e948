------------------------- MODULE MCCrowlerDatabase -------------------------
(***************************************************************************)
(* Two links; the first page is crawled before and after it has changed.   *)
(***************************************************************************)
EXTENDS CrowlerDatabase, TLC

CONSTANTS l1, l2, t1, t2, cat, dog

FewPages == {[link |-> l1, title |-> t1, words |-> cat :> 1],
             [link |-> l1, title |-> t2, words |-> (cat :> 2) @@ (dog :> 1)],
             [link |-> l2, title |-> t1, words |-> dog :> 1]}

Symmetric == Permutations(Worker)
=============================================================================
