---------------------------- MODULE PageContent ----------------------------
(***************************************************************************)
(* What parseOnePage (crowler.cpp:89-205) makes of a page it has got: the  *)
(* visits it submits and the words it hands to addOnePageData.  Crowler    *)
(* takes both as data, Web[u].links and Text[u]; here they come about.     *)
(*                                                                         *)
(* A URL or a link is its text cut at every "/", a sequence of pieces; a   *)
(* piece is the sequence of names it is glued together from, so that       *)
(* "http://site/dir/" is <<http:>>, <<>>, <<site>>, <<dir>>, <<>>.         *)
(* A page is a sequence of elements, and its html their tokens in a row.   *)
(***************************************************************************)
EXTENDS Integers, Sequences, SequencesExt

CONSTANTS
  Name,         \* names in URLs and words of pages
  HttpNames,    \* the names whose text begins with "http"
  Schemes,      \* the names that are a scheme and its ":"
  Aside,        \* the names of users and ports, which are not part of a host
  LowerOf,      \* each name in lower case
  Long,         \* the names of more than two bytes
  PageUrls,     \* the pages that may be visited
  Htmls,        \* the html that may come back
  NoWords

Markup == {"<", ">", "<script", "</script", "<style", "</style"}

Token == Name \cup Markup

Piece == Seq(Name)
Text == Seq(Piece) \ {<<>>}

(* An anchor has its href, up to its '#'; a script or a style sheet goes as
   far as to what ends it, and a tag to its ">".  A script may have an
   anchor among its words, or an empty href for none.                      *)
Element ==
  [kind : {"anchor"}, href : Text]
    \cup [kind : {"text"}, words : Seq(Name \cup {">"})]
    \cup [kind : {"title", "tag"}, words : Seq(Name)]
    \cup [kind : {"script"}, words : Seq(Token \ {"</script"}), href : Text]
    \cup [kind : {"style"}, words : Seq(Token \ {"</style"})]

WithHref == {"anchor", "script"}

(* Of URLs, that they were fetched, from one host; of the links, that "../"
   stands in front only: elsewhere rfind makes the code count characters.   *)
Up == <<"..">>

ASSUME ContentConstants ==
  /\ HttpNames \subseteq Name \ {".", ".."} /\ Schemes \subseteq Name \ {".", ".."}
  /\ Long \subseteq Name /\ Markup \cap Name = {}
  /\ LowerOf \in [Name -> Name] /\ \A n \in Name : LowerOf[LowerOf[n]] = LowerOf[n]
  /\ PageUrls \subseteq Text /\ Htmls \subseteq Seq(Element)
  /\ \A u \in PageUrls :
       /\ Len(u) >= 3 /\ u[1] \in {<<n>> : n \in HttpNames \cap Schemes} /\ u[2] = <<>>
       /\ \E i \in DOMAIN u[3] : \A j \in DOMAIN u[3] : u[3][j] \notin Aside <=> j = i
  /\ \A h \in Htmls : \A i \in DOMAIN h : h[i].kind \in WithHref =>
       \A k \in 2..Len(h[i].href) - 1 : h[i].href[k] = Up => h[i].href[k - 1] = Up

VARIABLES
  url, depth,  \* the arguments
  html,        \* page
  pc,          \* where parseOnePage is
  next,        \* the element of the page that the iterator is at
  links,       \* the links resolved so far
  submitted,   \* what went to the pool, in order
  text,        \* pageWoTag
  words,       \* the words and their counts
  stored       \* what addOnePageData was called with

vars == <<url, depth, html, pc, next, links, submitted, text, words, stored>>

-----------------------------------------------------------------------------
(* The links of a page                                                     *)

(* What _rxRef matches, in the raw page; an empty match is no link.        *)
HasLink(e) == e.kind \in WithHref /\ e.href # <<<<>>>>

(* a + b: the last piece of a and the first of b are one.                  *)
Glued(a, b) == Front(a) \o <<Last(a) \o Head(b)>> \o Tail(b)

(* n times urlCopy.erase(urlCopy.rfind("/")), which throws without a "/".  *)
Cut(u, n) == SubSeq(u, 1, Len(u) - n)
CutThrows(u, n) == n >= Len(u)

(* What the substr(0, n) comparisons tell; "./" is compared with three
   characters, so only the link "./" passes.                               *)
StartsHttp(l) == l[1] # <<>> /\ l[1][1] \in HttpNames
StartsTwoSlashes(l) == Len(l) > 2 /\ l[1] = <<>> /\ l[2] = <<>>
StartsUp(l) == Len(l) > 1 /\ l[1] = Up
IsHere(l) == l = <<<<".">>, <<>>>>
StartsSlash(l) == Len(l) > 1 /\ l[1] = <<>> /\ ~StartsTwoSlashes(l)

(* (last - first + 3) / 3, up to the last "../" that rfind finds.          *)
Ups(l) == Max({k \in 1..Len(l) - 1 : l[k] = Up})

Lower(p) == [i \in DOMAIN p |-> LowerOf[p[i]]]

(* urlView.host(): without user and port.                                  *)
Host(p) == <<p[CHOOSE i \in DOMAIN p : p[i] \notin Aside]>>

Throws(u, l) == StartsUp(l) /\ CutThrows(u, Ups(l) + 1)

AfterUps(l) == SubSeq(l, Ups(l) + 1, Len(l))

(* Slip: a level is cut for each "../", and none for the page itself.      *)
ClimbedTooLow(u, l) == Cut(u, Ups(l)) \o AfterUps(l)

Climbed(u, l) == Cut(u, Ups(l) + 1) \o AfterUps(l)

Resolved(u, l) ==
  CASE StartsHttp(l) -> l
    [] StartsTwoSlashes(l) -> <<u[1]>> \o Tail(l)
    [] StartsUp(l) -> Climbed(u, l)
    [] IsHere(l) -> Cut(u, 1) \o Tail(l)
    [] StartsSlash(l) -> <<u[1], <<>>, Lower(Host(u[3]))>> \o Tail(l)
    [] OTHER -> Glued(u, l)

-----------------------------------------------------------------------------
(* The text of a page                                                      *)

Written(e) ==
  CASE e.kind = "anchor" -> <<"<", ">">>
    [] e.kind = "text" -> e.words
    [] e.kind = "tag" -> <<"<">> \o e.words \o <<">">>
    [] e.kind = "title" -> <<"<", ">">> \o e.words \o <<"<", ">">>
    [] e.kind = "script" -> <<"<script", ">">> \o e.words \o <<"</script", ">">>
    [] e.kind = "style" -> <<"<style", ">">> \o e.words \o <<"</style", ">">>

Tokens(h) == FlattenSeq([i \in DOMAIN h |-> Written(h[i])])

(* std::regex_replace, shortest match: whatever begins with the one token
   of such a pair and ends with the next other one goes.                   *)
Without(t, pairs) ==
  LET Ends(i) == {j \in i + 1..Len(t) : <<t[i], t[j]>> \in pairs}
      rest[i \in 1..Len(t) + 1] ==
        IF i > Len(t) THEN <<>>
        ELSE IF Ends(i) # {} THEN rest[Min(Ends(i)) + 1]
        ELSE <<t[i]>> \o rest[i + 1]
  IN rest[1]

Blocks == {<<"<script", "</script">>, <<"<style", "</style">>}
Tags == {<<a, ">">> : a \in Markup \ {">"}}

WithoutScript(t) == Without(t, Blocks)
WithoutTag(t) == Without(t, Tags)

(* Punctuation becomes blank; words longer than two bytes are counted.     *)
At(t, x) == {i \in DOMAIN t : t[i] \in Name /\ LowerOf[t[i]] = x}

Counted(t) == [x \in {y \in Long : At(t, y) # {}} |-> Cardinality(At(t, x))]

Title(h) ==
  LET titles == {i \in DOMAIN h : h[i].kind = "title"}
  IN IF titles = {} THEN <<>> ELSE h[Min(titles)].words

-----------------------------------------------------------------------------
Init ==
  /\ url \in PageUrls
  /\ depth \in {1, 2}
  /\ html \in Htmls
  /\ pc = "links"
  /\ next = 1
  /\ links = <<>>
  /\ submitted = <<>>
  /\ text = <<>>
  /\ words = NoWords
  /\ stored = NoWords

Goto(from, to) == pc = from /\ pc' = to

Deep == depth > 1

LastLevel ==
  /\ ~Deep
  /\ Goto("links", "clean")
  /\ UNCHANGED <<url, depth, html, next, links, submitted, text, words, stored>>

(* One turn of the loop over the page, at an element ..                    *)
AtElement == pc = "links" /\ Deep /\ next <= Len(html)

(* .. without a link.                                                      *)
SkipElement ==
  /\ AtElement
  /\ ~HasLink(html[next])
  /\ next' = next + 1
  /\ UNCHANGED <<url, depth, html, pc, links, submitted, text, words, stored>>

(* .. with one.                                                            *)
AtLink == AtElement /\ HasLink(html[next])

NextLink ==
  /\ AtLink
  /\ ~Throws(url, html[next].href)
  /\ next' = next + 1
  /\ links' = Append(links, Resolved(url, html[next].href))
  /\ UNCHANGED <<url, depth, html, pc, text, words, stored>>

(* Slip: each link is submitted when it has been resolved.                 *)
SubmitAtOnce == NextLink /\ submitted' = links'

ResolveLink == NextLink /\ UNCHANGED submitted

(* std::out_of_range from erase: the visit ends in the catch clause.       *)
ResolveThrows ==
  /\ Goto("links", "caught")
  /\ AtLink
  /\ Throws(url, html[next].href)
  /\ UNCHANGED <<url, depth, html, next, links, submitted, text, words, stored>>

(* _pool.submit for each, at depth - 1.                                    *)
SubmitLinks ==
  /\ Goto("links", "clean")
  /\ Deep /\ next > Len(html)
  /\ submitted' = links
  /\ UNCHANGED <<url, depth, html, next, links, text, words, stored>>

(* Slip: the tags go first, and with them what marks a script's end.       *)
CleanTagsFirst ==
  /\ Goto("clean", "count")
  /\ text' = WithoutScript(WithoutTag(Tokens(html)))
  /\ UNCHANGED <<url, depth, html, next, links, submitted, words, stored>>

CleanText ==
  /\ Goto("clean", "count")
  /\ text' = WithoutTag(WithoutScript(Tokens(html)))
  /\ UNCHANGED <<url, depth, html, next, links, submitted, words, stored>>

(* std::locale throws where ru_RU.UTF-8 is not installed.                  *)
CleaningThrows ==
  /\ Goto("clean", "caught")
  /\ UNCHANGED <<url, depth, html, next, links, submitted, text, words, stored>>

(* Slip: a new word is inserted with 0, and counted from its next one on.  *)
CountFromZero ==
  /\ Goto("count", "store")
  /\ words' = [x \in DOMAIN Counted(text) |-> Counted(text)[x] - 1]
  /\ UNCHANGED <<url, depth, html, next, links, submitted, text, stored>>

CountWords ==
  /\ Goto("count", "store")
  /\ words' = Counted(text)
  /\ UNCHANGED <<url, depth, html, next, links, submitted, text, stored>>

AddOnePageData ==
  /\ Goto("store", "done")
  /\ stored' = [title |-> Title(html), words |-> words]
  /\ UNCHANGED <<url, depth, html, next, links, submitted, text, words>>

Next ==
  \/ LastLevel \/ SkipElement \/ ResolveLink \/ ResolveThrows \/ SubmitLinks
  \/ CleanText \/ CleaningThrows \/ CountWords \/ AddOnePageData

Spec == Init /\ [][Next]_vars

-----------------------------------------------------------------------------
AreCounts(c) == DOMAIN c \subseteq Long /\ \A x \in DOMAIN c : c[x] \in Nat \ {0}

(* Types; what Crowler takes for granted of links and counts.              *)
ContentTypeOK ==
  /\ url \in PageUrls /\ depth \in {1, 2} /\ html \in Htmls
  /\ pc \in {"links", "clean", "count", "store", "done", "caught"}
  /\ next \in 1..Len(html) + 1
  /\ {links, submitted} \subseteq Seq(Text)
  /\ text \in Seq(Token)
  /\ words # NoWords => AreCounts(words)
  /\ stored # NoWords => stored.title \in Seq(Name) /\ AreCounts(stored.words)

(* What a browser makes of a link (RFC 3986, 5.2): the path of the page up
   to its last "/", then the link, "." and ".." walked; a host has no case.  *)
Walk(path, p) ==
  IF p = <<".">> THEN path
  ELSE IF p # Up THEN Append(path, p)
  ELSE IF path = <<>> THEN path ELSE Front(path)

Walked(path) ==
  LET open == IF path # <<>> /\ Last(path) \in {Up, <<".">>} THEN <<<<>>>> ELSE <<>>
  IN FoldLeft(Walk, <<>>, path) \o open

Normal(u) == <<u[1], u[2], Lower(u[3])>> \o Walked(SubSeq(u, 4, Len(u)))

HasScheme(l) == l[1] # <<>> /\ l[1][1] \in Schemes

IsAbsolute(l) ==
  l[1] \in {<<n>> : n \in HttpNames \cap Schemes} /\ Len(l) > 2 /\ l[2] = <<>>

Target(u, l) ==
  CASE IsAbsolute(l) -> Normal(l)
    [] HasScheme(l) /\ ~IsAbsolute(l) -> l
    [] StartsTwoSlashes(l) -> Normal(<<u[1]>> \o Tail(l))
    [] StartsSlash(l) -> Normal(SubSeq(u, 1, 3) \o Tail(l))
    [] OTHER -> Normal(SubSeq(u, 1, 3) \o SubSeq(u, 4, Len(u) - 1) \o l)

(* The links the branches of parseOnePage are right about: one from the
   root when the authority is a host and no more; a relative one when the
   page is a directory, or with "../" at most once per level of a path
   without dots; no link of another scheme (mailto:, javascript:), and no
   name that begins with "http" by chance.                                 *)
Sound(u, l) ==
  \/ IsAbsolute(l) \/ StartsTwoSlashes(l)
  \/ StartsSlash(l) /\ Host(u[3]) = u[3]
  \/ /\ StartsUp(l) /\ Ups(l) + 4 <= Len(u)
     /\ \A k \in 4..Len(u) : u[k] \notin {Up, <<".">>}
  \/ ~StartsUp(l) /\ ~StartsSlash(l) /\ ~StartsHttp(l) /\ ~HasScheme(l)
     /\ Len(u) > 3 /\ Last(u) = <<>>

(* The links of the page, and the place of each among them.                *)
Given == {i \in DOMAIN html : HasLink(html[i])}

Rank(i) == Cardinality({j \in Given : j <= i})

(* Every sound link of a page becomes a visit of the URL a browser would
   go to, in the page's order, whatever other links stand beside it, those
   a reader does not see because a script writes them (lines 99-158).      *)
SoundLinksLead ==
  submitted # <<>> =>
    \A i \in Given : Sound(url, html[i].href) =>
      Normal(submitted[Rank(i)]) = Target(url, html[i].href)

(* A page's links are submitted all or none, before its words are stored,
   and none are only when one climbs past the top (lines 129, 154-158).    *)
AllLinksOrNone ==
  LET all == Len(submitted) = Cardinality(Given) IN
  /\ submitted # <<>> => all
  /\ stored # NoWords /\ Deep => all
  /\ pc = "caught" /\ Deep /\ ~all =>
       submitted = <<>> /\ \E i \in Given : ~Sound(url, html[i].href) /\ StartsUp(html[i].href)

(* The index gets each word as often as a reader sees it, in its title or
   its text, and none that stands in a tag, a script or a style sheet,
   whatever looks like markup inside those (lines 161-206).                *)
Places(e, x) == {i \in DOMAIN e.words : e.words[i] \in Name /\ LowerOf[e.words[i]] = x}

Seen(x) ==
  UNION {{<<i, j>> : j \in Places(html[i], x)} :
           i \in {k \in DOMAIN html : html[k].kind \in {"text", "title"}}}

VisibleWordsCount ==
  stored # NoWords =>
    /\ DOMAIN stored.words = {x \in Long : Seen(x) # {}}
    /\ \A x \in DOMAIN stored.words : stored.words[x] = Cardinality(Seen(x))
=============================================================================
