----------------------------- MODULE MCCrowler -----------------------------
(***************************************************************************)
(* Small webs for Crowler: a page, a page that links back to it and to a   *)
(* URL that cannot be parsed, a redirect, and a URL that yields nothing.   *)
(***************************************************************************)
EXTENDS Crowler

CONSTANTS home, news, moved, bad, dead

Html(l) == [kind |-> "page", links |-> l]

SmallWeb == [u \in {home, news, moved, bad, dead} |->
  IF u = home THEN Html(<<news, moved>>)
  ELSE IF u = news THEN Html(<<home, bad>>)
  ELSE IF u = moved THEN [kind |-> "redirect", links |-> <<dead>>]
  ELSE IF u = bad THEN [kind |-> "malformed", links |-> <<>>]
  ELSE [kind |-> "nothing", links |-> <<>>]]
=============================================================================
