--------------------------- MODULE MCSearchEngine ---------------------------
(***************************************************************************)
(* Two links, one with the word cat, one with catfish, which contains it;  *)
(* one link is shown per search.                                           *)
(***************************************************************************)
EXTENDS SearchEngine, TLC

CONSTANTS l1, l2, t1, t2, cat, catfish

FewPages == {[link |-> l1, title |-> t1, words |-> cat :> 1],
             [link |-> l2, title |-> t2, words |-> catfish :> 2]}

Parts == {<<cat, cat>>, <<catfish, catfish>>, <<catfish, cat>>}

Get(t) == [method |-> "get", target |-> t, form |-> "empty", words |-> {}]
Post(f, ws) == [method |-> "post", target |-> "/", form |-> f, words |-> ws]

FewRequests == {Get("/"), Post("wrong key", {}),
                Post("search", {}), Post("search", {cat}), Post("search", {catfish})}

SomeFiles == {Files \ {"search_page"}, Files \ {"result_page_3"}}

MissingFiles == {Files \ {"result_page_1"}}
=============================================================================
