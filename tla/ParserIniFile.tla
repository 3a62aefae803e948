--------------------------- MODULE ParserIniFile ---------------------------
(***************************************************************************)
(* ParserIniFile (_sources/parser_ini_file) as main() of both programs     *)
(* uses it: setFile() once, then one getValue() per parameter, the first   *)
(* exception ending the program.  getValue() rewinds the file and reads it *)
(* to its end, line by line, on a stream that throws when it fails.        *)
(*                                                                         *)
(* A line is what is left of it without its comment and its outer blanks.  *)
(* Its kind is what the search for brackets and "=" makes of it.           *)
(***************************************************************************)
EXTENDS Integers, Sequences

CONSTANTS
  Name,        \* spellings of section names
  Lower,       \* their lower case
  NoName,      \* the empty string
  Var,         \* names of variables
  Text,        \* values without outer blanks, the empty one included
  NotANumber,  \* what stoi throws at, or does not take to its end
  NoValue,     \* nothing after "=", or no "="
  File,        \* what the ini file may hold
  Keys         \* the parameters main() asks for, in its order

Value == [text : Text, blank : BOOLEAN, number : Int \cup {NotANumber}]

Line == [kind : {"empty",      \* blank, or only a comment
                 "brackets"}]  \* "[" or "]" alone, or "]" before "["
        \cup [kind : {"header"}, name : Name]
        \cup [kind : {"variable"}, var : Var, value : Value \cup {NoValue}]

(* What getValue returns: a std::string or an int.                         *)
Result == [text : Text, blank : BOOLEAN] \cup [number : Int]

Key == [section : Name, variable : Var, numeric : BOOLEAN]

ASSUME IniConstants ==
  /\ Lower \in [Name -> Name]
  /\ NoName \notin Name
  /\ NotANumber \notin Int
  /\ NoValue \notin Value \cup Result
  /\ File \subseteq [lines : Seq(Line), newline : BOOLEAN]
  /\ Keys \in Seq(Key)

VARIABLES
  file,        \* the content; newline: does its last line end in one?
  phase,       \* of main(): "start", "open", "reading" in getValue, the end
  pos,         \* lines read by this getValue
  currentSec,
  findSec,     \* ~notFindSec
  result,      \* resultValue, NoValue while notFindVar
  values       \* what the getValue calls so far have returned

vars == <<file, phase, pos, currentSec, findSec, result, values>>

-----------------------------------------------------------------------------
Init ==
  /\ file \in File
  /\ phase = "start"
  /\ pos = 0
  /\ currentSec = NoName
  /\ findSec = FALSE
  /\ result = NoValue
  /\ values = <<>>

(* An exception: main() reports it and returns.                            *)
Throw == phase' = "failed" /\ UNCHANGED <<file, pos, currentSec, findSec, result, values>>

SetFile ==
  /\ phase = "start"
  /\ phase' \in {"open", "unopened"}
  /\ UNCHANGED <<file, pos, currentSec, findSec, result, values>>

key == Keys[Len(values) + 1]
secName == Lower[key.section]

(* getValue begins.  The checks of its argument pass: main() calls it with
   literals of the form section.variable.                                  *)
GetValue ==
  /\ phase = "open"
  /\ Len(values) < Len(Keys)
  /\ phase' = "reading"
  /\ pos' = 0
  /\ currentSec' = NoName
  /\ findSec' = FALSE
  /\ result' = NoValue
  /\ UNCHANGED <<file, values>>

-----------------------------------------------------------------------------
(* while (!_file.eof()): eof is set by the getline that meets the end of
   the file in the last line, and so not by one that meets its newline.    *)
AtEnd == pos = Len(file.lines)
Eof == AtEnd /\ pos > 0 /\ ~file.newline

(* getline finds nothing to extract: failbit, and exceptions() has it.     *)
ReadPastEnd ==
  /\ phase = "reading"
  /\ AtEnd /\ ~Eof
  /\ Throw

line == file.lines[pos + 1]

Read(kind) ==
  /\ phase = "reading"
  /\ ~AtEnd
  /\ line.kind = kind

Scanned(sec, found, res) ==
  /\ pos' = pos + 1
  /\ currentSec' = sec
  /\ findSec' = found
  /\ result' = res
  /\ UNCHANGED <<file, phase, values>>

EmptyLine == Read("empty") /\ Scanned(currentSec, findSec, result)

BadBrackets == Read("brackets") /\ Throw

(* Slip: section names are compared as they are written.                   *)
HeaderAsWritten ==
  /\ Read("header")
  /\ Scanned(line.name, findSec \/ line.name = key.section, result)

Header ==
  /\ Read("header")
  /\ LET sec == Lower[line.name] IN Scanned(sec, findSec \/ sec = secName, result)

Concerned == currentSec = secName /\ line.var = key.variable

(* A line outside the section, or of another variable.                     *)
OtherLine ==
  /\ Read("variable")
  /\ ~Concerned
  /\ Scanned(currentSec, findSec, result)

(* Slip: a variable without a value is passed over.                        *)
PassMissing ==
  /\ Read("variable")
  /\ Concerned
  /\ line.value = NoValue
  /\ Scanned(currentSec, findSec, result)

MissingValue ==
  /\ Read("variable")
  /\ Concerned
  /\ line.value = NoValue
  /\ Throw

BadNumber ==
  /\ Read("variable")
  /\ Concerned /\ key.numeric
  /\ line.value # NoValue /\ line.value.number = NotANumber
  /\ Throw

SetNumber ==
  /\ Read("variable")
  /\ Concerned /\ key.numeric
  /\ line.value # NoValue /\ line.value.number # NotANumber
  /\ Scanned(currentSec, findSec, [number |-> line.value.number])

(* Slip: the first assignment counts.                                      *)
SetTextOnce ==
  /\ Read("variable")
  /\ Concerned /\ ~key.numeric
  /\ line.value # NoValue
  /\ Scanned(currentSec, findSec,
           IF result # NoValue THEN result
           ELSE [text |-> line.value.text, blank |-> line.value.blank])

(* The value is cut out of the line once more, with the blanks after "=".  *)
SetText ==
  /\ Read("variable")
  /\ Concerned /\ ~key.numeric
  /\ line.value # NoValue
  /\ Scanned(currentSec, findSec, [text |-> line.value.text, blank |-> line.value.blank])

NotFound ==
  /\ phase = "reading"
  /\ Eof
  /\ ~findSec \/ result = NoValue
  /\ Throw

(* Slip: a section found is taken for a variable found.                    *)
ReturnUnset ==
  /\ phase = "reading"
  /\ Eof
  /\ findSec
  /\ values' = Append(values, result)
  /\ phase' = "open"
  /\ UNCHANGED <<file, pos, currentSec, findSec, result>>

Return ==
  /\ phase = "reading"
  /\ Eof
  /\ findSec /\ result # NoValue
  /\ values' = Append(values, result)
  /\ phase' = "open"
  /\ UNCHANGED <<file, pos, currentSec, findSec, result>>

(* main() has all it asked for.                                            *)
Configured ==
  /\ phase = "open"
  /\ Len(values) = Len(Keys)
  /\ phase' = "configured"
  /\ UNCHANGED <<file, pos, currentSec, findSec, result, values>>

-----------------------------------------------------------------------------
ReadLine ==
  \/ ReadPastEnd \/ EmptyLine \/ BadBrackets \/ Header \/ OtherLine
  \/ MissingValue \/ BadNumber \/ SetNumber \/ SetText

Next == SetFile \/ GetValue \/ ReadLine \/ NotFound \/ Return \/ Configured

Spec == Init /\ [][Next]_vars

-----------------------------------------------------------------------------
IniTypeOK ==
  /\ file \in [lines : Seq(Line), newline : BOOLEAN]
  /\ phase \in {"start", "unopened", "open", "reading", "configured", "failed"}
  /\ pos \in 0..Len(file.lines)
  /\ currentSec \in Name \cup {NoName}
  /\ findSec \in BOOLEAN
  /\ result \in Result \cup {NoValue}
  /\ values \in Seq(Result)
  /\ Len(values) <= Len(Keys)
  /\ phase = "reading" => Len(values) < Len(Keys)

(* What an ini file means, line by line and without a scanner.             *)
IsHeader(ls, i, k) ==
  /\ ls[i].kind = "header"
  /\ Lower[ls[i].name] = Lower[k.section]

(* Line i of ls assigns to parameter k: k's section is the last one opened.      *)
Assigns(ls, i, k) ==
  /\ ls[i].kind = "variable"
  /\ ls[i].var = k.variable
  /\ \E h \in 1..(i - 1) :
       /\ IsHeader(ls, h, k)
       /\ \A j \in (h + 1)..(i - 1) : ls[j].kind # "header"

Given(ls, i, k) ==
  LET v == ls[i].value IN
  IF k.numeric THEN [number |-> v.number] ELSE [text |-> v.text, blank |-> v.blank]

(* A line that cannot be read as an assignment to k.                       *)
Faulty(ls, i, k) ==
  \/ ls[i].kind = "brackets"
  \/ /\ Assigns(ls, i, k)
     /\ \/ ls[i].value = NoValue
        \/ k.numeric /\ ls[i].value.number = NotANumber

Lines == DOMAIN file.lines

(* A parameter is given the value of its last assignment in the file, in
   whichever of the sections of that name, spelled in whichever case; a
   text with the blanks that stand before it.                              *)
LastAssignmentCounts ==
  \A n \in DOMAIN values :
    \E i \in Lines :
      /\ Assigns(file.lines, i, Keys[n])
      /\ values[n] = Given(file.lines, i, Keys[n])
      /\ \A j \in Lines : Assigns(file.lines, j, Keys[n]) => j <= i

(* A program that has its parameters has read no faulty line, not even
   before or after the ones it asked for, and a file that ends in a newline
   gives it none.                                                          *)
ConfiguredMeansSound ==
  phase = "configured" =>
    \A k \in {Keys[n] : n \in DOMAIN Keys} :
      ~file.newline /\ \A i \in Lines : ~Faulty(file.lines, i, k)

(* Once open, a file is refused only for a reason in it: a faulty line, a
   parameter missing, or the newline at its end.                           *)
RefusedForCause ==
  phase = "failed" =>
    /\ Len(values) < Len(Keys)
    /\ \/ file.newline
       \/ \E i \in Lines : Faulty(file.lines, i, key)
       \/ ~\E i \in Lines : Assigns(file.lines, i, key)

=============================================================================
