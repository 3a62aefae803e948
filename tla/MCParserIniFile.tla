-------------------------- MODULE MCParserIniFile --------------------------
(***************************************************************************)
(* Files of up to MaxLines lines, and some of one more, of two sections    *)
(* and two variables, for a program that asks for a text of the one and a  *)
(* number of the other.                                                    *)
(***************************************************************************)
EXTENDS ParserIniFile

CONSTANTS MaxLines, database, DATABASE, crowler, host, depth, local, empty, two

LowerCase == [n \in {database, DATABASE, crowler} |->
                IF n = DATABASE THEN database ELSE n]

TextKey == [section |-> DATABASE, variable |-> host, numeric |-> FALSE]
NumberKey == [section |-> crowler, variable |-> depth, numeric |-> TRUE]
TwoKeys == <<TextKey, NumberKey>>

Is(v, t, b, n) == [kind |-> "variable", var |-> v,
                   value |-> [text |-> t, blank |-> b, number |-> n]]

FewLines ==
  {[kind |-> "empty"], [kind |-> "brackets"],
   [kind |-> "variable", var |-> host, value |-> NoValue],
   Is(host, local, TRUE, NotANumber), Is(host, empty, FALSE, NotANumber),
   Is(depth, local, TRUE, NotANumber), Is(depth, two, TRUE, 2)}
  \cup {[kind |-> "header", name |-> n] : n \in {database, DATABASE, crowler}}

WithNumber == <<[kind |-> "header", name |-> crowler], Is(depth, two, TRUE, 2)>>

SmallFiles ==
  UNION {[lines : [1..n -> FewLines], newline : BOOLEAN] : n \in 0..MaxLines}
  \cup [lines : {ls \o WithNumber : ls \in [1..(MaxLines - 1) -> FewLines]}, newline : BOOLEAN]
=============================================================================
