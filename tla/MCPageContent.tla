--------------------------- MODULE MCPageContent ---------------------------
(***************************************************************************)
(* Small pages: up to two elements with every kind of link, or up to four  *)
(* of the other kinds, their markup nested in scripts as it may be.        *)
(***************************************************************************)
EXTENDS PageContent

Names == {"http:", "httpd", "mailto:", ":8080", ".", "..", "Site", "site", "dir", "page", "Cat", "cat", "ox"}

InLowerCase == [n \in Names |-> CASE n = "Site" -> "site" [] n = "Cat" -> "cat" [] OTHER -> n]

On(path) == <<<<"http:">>, <<>>, <<"Site">>>> \o path

Urls == {On(p) : p \in {<<>>, <<<<>>>>, <<<<"page">>>>, <<<<"dir">>, <<>>>>,
                         <<<<"dir">>, <<"page">>>>, <<<<"dir">>, <<"dir">>, <<>>>>}}
          \cup {<<<<"http:">>, <<>>, <<"Site", ":8080">>, <<"dir">>, <<>>>>}

Links == {<<<<>>>>,                              \* only a fragment
          On(<<<<"page">>>>), <<<<"httpd">>>>,   \* http..
          <<<<"mailto:", "cat">>>>,              \* another scheme
          <<<<>>, <<>>, <<"site">>, <<"page">>>>,
          <<Up, <<"cat">>>>, <<Up, Up, <<"cat">>>>, <<Up, Up, Up, <<>>>>, <<Up>>,
          <<<<".">>, <<>>>>, <<<<".">>, <<"cat">>>>,
          <<<<>>, <<"dir">>, <<"cat">>>>, <<<<"cat">>>>, <<<<"dir">>, <<>>>>}

Anchor(l) == [kind |-> "anchor", href |-> l]
With(k, ws) == [kind |-> k, words |-> ws]

(* A script that writes an anchor.                                         *)
Writing(l) == [kind |-> "script", words |-> <<"cat", "<", ">", "page">>, href |-> l]

Elements == {With("text", <<"Cat", ">", "ox">>), With("title", <<"cat">>), With("tag", <<"dir", "cat">>),
             [kind |-> "script", words |-> <<"page", "<", "cat", "<style">>, href |-> <<<<>>>>], With("style", <<"<script", "page", ">">>)}

FewHtmls ==
  BoundedSeq({Anchor(l) : l \in Links}, 2)
    \cup {<<Anchor(l), e, Anchor(k)>> : l \in Links, k \in Links,
             e \in {With("text", <<"Cat">>), Writing(<<<<>>, <<"page">>>>)}}
    \cup BoundedSeq(Elements, 4)
=============================================================================
