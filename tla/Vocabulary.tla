----------------------------- MODULE Vocabulary -----------------------------
(***************************************************************************)
(* What the crawler's index and the search engine's answers are made of.   *)
(* Strings in the code: a link is "protocol//host/target", a word is what  *)
(* stands between the separators of a page in lower case.                  *)
(***************************************************************************)
CONSTANTS Link, Word
=============================================================================
