------------------------ MODULE ParserIniFileProofs ------------------------
(***************************************************************************)
(* What is proved of ParserIniFile for any file, of any length, and any    *)
(* parameters.  The argument is that of a loop: Scanned relates the state  *)
(* of getValue to the lines it has read, which at the end are all of them. *)
(***************************************************************************)
EXTENDS ParserIniFile, TLAPS

(* The section that line i + 1 is in.                                      *)
SectionRead ==
  \/ /\ currentSec = NoName
     /\ \A h \in 1..pos : file.lines[h].kind # "header"
  \/ \E h \in 1..pos :
       /\ file.lines[h].kind = "header"
       /\ currentSec = Lower[file.lines[h].name]
       /\ \A j \in (h + 1)..pos : file.lines[j].kind # "header"

HeadersSeen == \A h \in 1..pos : IsHeader(file.lines, h, key) => findSec

ResultRead ==
  \/ result = NoValue /\ \A i \in 1..pos : ~Assigns(file.lines, i, key)
  \/ /\ result # NoValue
     /\ \E i \in 1..pos :
          /\ Assigns(file.lines, i, key)
          /\ result = Given(file.lines, i, key)
          /\ \A j \in 1..pos : Assigns(file.lines, j, key) => j <= i

SoundSoFar == \A i \in 1..pos : ~Faulty(file.lines, i, key)

LoopInv == phase = "reading" => SectionRead /\ HeadersSeen /\ ResultRead /\ SoundSoFar

(* What a getValue that has returned leaves behind.                        *)
ReturnedSound ==
  \A n \in DOMAIN values : ~file.newline /\ \A i \in Lines : ~Faulty(file.lines, i, Keys[n])

EndInv == phase = "configured" => Len(values) = Len(Keys)

IniInv == /\ IniTypeOK /\ LoopInv /\ EndInv
          /\ LastAssignmentCounts /\ ReturnedSound /\ RefusedForCause

-----------------------------------------------------------------------------
LEMMA IniInit == Init => IniInv
<1> SUFFICES ASSUME Init PROVE IniInv
  OBVIOUS
<1>1. IniTypeOK
  <2>1. file \in [lines : Seq(Line), newline : BOOLEAN]
    BY IniConstants DEF Init
  <2>2. 0 \in 0..Len(file.lines) /\ Len(Keys) \in Nat
    BY <2>1, IniConstants
  <2>3. values = <<>> /\ values \in Seq(Result) /\ Len(values) = 0
    BY DEF Init
  <2>4. phase = "start" /\ pos = 0 /\ currentSec = NoName /\ findSec = FALSE /\ result = NoValue
    BY DEF Init
  <2>5. pos \in 0..Len(file.lines) /\ Len(values) <= Len(Keys)
    BY <2>2, <2>3, <2>4
  <2>6. result \in Result \cup {NoValue} /\ currentSec \in Name \cup {NoName}
    BY <2>4
  <2> QED BY <2>1, <2>3, <2>4, <2>5, <2>6 DEF IniTypeOK
<1> QED BY <1>1 DEF Init, IniInv, LoopInv, EndInv, LastAssignmentCounts, ReturnedSound,
            RefusedForCause

(* A line that getValue takes: the loop invariant is kept.                 *)
LEMMA ScanTypes ==
  ASSUME IniTypeOK, phase = "reading", ~AtEnd
  PROVE  /\ pos + 1 \in DOMAIN file.lines
         /\ pos + 1 \in 1..Len(file.lines)
         /\ line \in Line
         /\ key \in Key
         /\ secName \in Name
         /\ pos \in Nat
         /\ 1..(pos + 1) = (1..pos) \cup {pos + 1}
<1>1. file.lines \in Seq(Line) /\ Len(file.lines) \in Nat
  BY DEF IniTypeOK
<1>2. pos \in Nat /\ pos < Len(file.lines)
  BY <1>1 DEF IniTypeOK, AtEnd
<1>3. pos + 1 \in 1..Len(file.lines) /\ DOMAIN file.lines = 1..Len(file.lines)
  BY <1>1, <1>2
<1>4. line \in Line
  BY <1>1, <1>3 DEF line
<1>5. key \in Key
  <2>1. Keys \in Seq(Key) /\ Len(values) \in Nat /\ Len(values) < Len(Keys)
    BY IniConstants DEF IniTypeOK
  <2>2. Len(values) + 1 \in 1..Len(Keys)
    BY <2>1
  <2> QED BY <2>1, <2>2 DEF key
<1>6. secName \in Name
  BY <1>5, IniConstants DEF secName, Key
<1> QED BY <1>2, <1>3, <1>4, <1>5, <1>6

(* The scanner's idea of the current section is the right one.             *)
LEMMA ConcernedIsAssigned ==
  ASSUME IniTypeOK, phase = "reading", ~AtEnd, SectionRead, line.kind = "variable"
  PROVE  Assigns(file.lines, pos + 1, key) <=> Concerned
<1>1. pos \in Nat /\ secName \in Name
  BY ScanTypes
<1>2. CASE currentSec = NoName /\ \A h \in 1..pos : file.lines[h].kind # "header"
  <2>1. ~Concerned
    BY <1>1, <1>2, IniConstants DEF Concerned
  <2>2. ~Assigns(file.lines, pos + 1, key)
    BY <1>1, <1>2 DEF Assigns, IsHeader
  <2> QED BY <2>1, <2>2
<1>3. ASSUME NEW h \in 1..pos,
             file.lines[h].kind = "header",
             currentSec = Lower[file.lines[h].name],
             \A j \in (h + 1)..pos : file.lines[j].kind # "header"
      PROVE  Assigns(file.lines, pos + 1, key) <=> Concerned
  <2>1. ASSUME Concerned PROVE Assigns(file.lines, pos + 1, key)
    <3>1. IsHeader(file.lines, h, key)
      BY <1>3, <2>1 DEF Concerned, IsHeader, secName
    <3>2. h \in 1..(pos + 1 - 1) /\ (pos + 1) - 1 = pos
      BY <1>1
    <3> QED BY <1>3, <2>1, <3>1, <3>2 DEF Assigns, Concerned, line
  <2>2. ASSUME Assigns(file.lines, pos + 1, key) PROVE Concerned
    <3>1. PICK g \in 1..pos : /\ IsHeader(file.lines, g, key)
                              /\ \A j \in (g + 1)..pos : file.lines[j].kind # "header"
      <4>1. (pos + 1) - 1 = pos
        BY <1>1
      <4> QED BY <2>2, <4>1 DEF Assigns
    <3>2. g = h
      <4>1. ~(g < h) /\ ~(h < g)
        BY <1>1, <1>3, <3>1 DEF IsHeader
      <4> QED BY <1>1, <4>1
    <3> QED BY <1>3, <2>2, <3>1, <3>2 DEF Concerned, Assigns, IsHeader, secName, line
  <2> QED BY <2>1, <2>2
<1> QED BY <1>2, <1>3 DEF SectionRead

(* A line read without an exception keeps the loop invariant: the section
   follows headers, the result follows assignments.                        *)
LEMMA ScanStep ==
  ASSUME IniInv, EmptyLine \/ Header \/ OtherLine \/ SetNumber \/ SetText
  PROVE  IniInv'
<1>1. /\ phase = "reading" /\ phase' = "reading"
      /\ ~AtEnd /\ pos' = pos + 1 /\ UNCHANGED <<file, values>>
  BY DEF EmptyLine, Header, OtherLine, SetNumber, SetText, Read, Scanned
<1>2. IniTypeOK /\ SectionRead /\ HeadersSeen /\ ResultRead /\ SoundSoFar
  BY <1>1 DEF IniInv, LoopInv
<1>3. key' = key /\ secName' = secName /\ Lines' = Lines
  BY <1>1 DEF key, secName, Lines
<1>4. /\ pos + 1 \in DOMAIN file.lines /\ pos + 1 \in 1..Len(file.lines)
      /\ line \in Line /\ key \in Key /\ secName \in Name /\ pos \in Nat
      /\ 1..(pos + 1) = (1..pos) \cup {pos + 1}
  BY <1>1, <1>2, ScanTypes
<1>5. LastAssignmentCounts' /\ ReturnedSound' /\ RefusedForCause' /\ EndInv'
  BY <1>1, <1>3 DEF IniInv, LastAssignmentCounts, ReturnedSound, RefusedForCause, EndInv, Lines
<1>6. CASE Header
  <2>1. /\ line.kind = "header" /\ line = file.lines[pos + 1]
        /\ currentSec' = Lower[line.name] /\ result' = result
        /\ findSec' = (findSec \/ Lower[line.name] = secName)
        /\ line.name \in Name
    BY <1>4, <1>6 DEF Header, Read, Scanned, line, Line
  <2>2. IniTypeOK'
    <3>1. Lower[line.name] \in Name
      BY <2>1, IniConstants
    <3>2. findSec' \in BOOLEAN
      BY <2>1
    <3> QED BY <1>1, <1>2, <1>4, <2>1, <3>1, <3>2 DEF IniTypeOK
  <2>3. SectionRead'
    BY <1>1, <1>4, <2>1 DEF SectionRead
  <2>4. HeadersSeen'
    BY <1>1, <1>2, <1>3, <1>4, <2>1 DEF HeadersSeen, IsHeader, secName
  <2>5. ~Assigns(file.lines, pos + 1, key) /\ ~Faulty(file.lines, pos + 1, key)
    BY <2>1 DEF Assigns, Faulty
  <2>6. ResultRead' /\ SoundSoFar'
    BY <1>1, <1>2, <1>3, <1>4, <2>1, <2>5
       DEF ResultRead, SoundSoFar
  <2> QED BY <1>5, <2>2, <2>3, <2>4, <2>6 DEF IniInv, LoopInv
<1>7. CASE EmptyLine \/ OtherLine \/ SetNumber \/ SetText
  <2>1. /\ line.kind # "header" /\ line = file.lines[pos + 1]
        /\ currentSec' = currentSec /\ findSec' = findSec
    BY <1>7 DEF EmptyLine, OtherLine, SetNumber, SetText, Read, Scanned, line
  <2>2. SectionRead' /\ HeadersSeen'
    BY <1>1, <1>2, <1>3, <1>4, <2>1 DEF SectionRead, HeadersSeen, IsHeader
  <2>3. CASE EmptyLine \/ OtherLine
    <3>1. result' = result
      BY <2>3 DEF EmptyLine, OtherLine, Scanned
    <3>2. ~Assigns(file.lines, pos + 1, key) /\ ~Faulty(file.lines, pos + 1, key)
      <4>1. CASE EmptyLine
        BY <2>1, <4>1 DEF EmptyLine, Read, Assigns, Faulty
      <4>2. CASE OtherLine
        BY <1>1, <1>2, <2>1, <4>2, ConcernedIsAssigned DEF OtherLine, Read, Faulty
      <4> QED BY <2>3, <4>1, <4>2
    <3>3. ResultRead' /\ SoundSoFar'
      BY <1>1, <1>2, <1>3, <1>4, <3>1, <3>2
         DEF ResultRead, SoundSoFar
    <3>4. IniTypeOK'
      BY <1>1, <1>2, <1>4, <2>1, <3>1 DEF IniTypeOK
    <3> QED BY <1>5, <2>2, <3>3, <3>4 DEF IniInv, LoopInv
  <2>4. CASE SetNumber \/ SetText
    <3>1. line.kind = "variable" /\ Concerned /\ line.value # NoValue
      BY <2>4 DEF SetNumber, SetText, Read
    <3>2. line.value \in Value
      BY <1>4, <3>1 DEF Line
    <3>3. Assigns(file.lines, pos + 1, key)
      BY <1>1, <1>2, <3>1, ConcernedIsAssigned
    <3>4. result' = Given(file.lines, pos + 1, key) /\ ~Faulty(file.lines, pos + 1, key)
      BY <2>1, <2>4, <3>1 DEF SetNumber, SetText, Scanned, Read, Given, Faulty
    <3>5. result' \in Result
      BY <2>4, <3>2 DEF SetNumber, SetText, Scanned, Result, Value
    <3>6. IniTypeOK'
      BY <1>1, <1>2, <1>4, <2>1, <3>5 DEF IniTypeOK
    <3>7. ResultRead'
      <4>1. Assigns(file'.lines, pos', key') /\ result' = Given(file'.lines, pos', key')
        BY <1>1, <1>3, <3>3, <3>4
      <4>2. pos' \in 1..pos' /\ \A j \in 1..pos' : j <= pos'
        BY <1>1, <1>4
      <4>3. result' # NoValue
        BY <3>5, IniConstants
      <4> QED BY <1>1, <4>1, <4>2, <4>3 DEF ResultRead
    <3>8. SoundSoFar'
      BY <1>1, <1>2, <1>3, <1>4, <3>4 DEF SoundSoFar
    <3> QED BY <1>5, <2>2, <3>6, <3>7, <3>8 DEF IniInv, LoopInv
  <2> QED BY <1>7, <2>3, <2>4
<1> QED BY <1>6, <1>7

(* An exception while reading has a cause in the file.                     *)
LEMMA ThrowStep ==
  ASSUME IniInv, ReadPastEnd \/ BadBrackets \/ MissingValue \/ BadNumber \/ NotFound
  PROVE  IniInv'
<1>1. /\ phase = "reading" /\ phase' = "failed"
      /\ UNCHANGED <<file, pos, currentSec, findSec, result, values>>
  BY DEF ReadPastEnd, BadBrackets, MissingValue, BadNumber, NotFound, Read, Throw
<1>2. IniTypeOK /\ SectionRead /\ HeadersSeen /\ ResultRead /\ SoundSoFar
  BY <1>1 DEF IniInv, LoopInv
<1>3. IniTypeOK' /\ LoopInv' /\ EndInv' /\ LastAssignmentCounts' /\ ReturnedSound'
  BY <1>1 DEF IniInv, IniTypeOK, LoopInv, EndInv, LastAssignmentCounts, ReturnedSound, Lines
<1>4. \/ file.newline
      \/ \E i \in Lines : Faulty(file.lines, i, key)
      \/ ~\E i \in Lines : Assigns(file.lines, i, key)
  <2>1. CASE ReadPastEnd
    <3>1. pos = Len(file.lines) /\ (pos > 0 => file.newline) /\ pos \in Nat
      BY <1>2, <2>1 DEF ReadPastEnd, AtEnd, Eof, IniTypeOK
    <3>2. CASE pos = 0
      <4>1. file.lines \in Seq(Line)
        BY <1>2 DEF IniTypeOK
      <4>2. DOMAIN file.lines = 1..Len(file.lines)
        BY <4>1
      <4>3. ASSUME NEW i \in Lines PROVE FALSE
        <5>1. Len(file.lines) = 0
          BY <3>1, <3>2
        <5>2. i \in 1..Len(file.lines)
          BY <4>2 DEF Lines
        <5> QED BY <5>1, <5>2
      <4> QED BY <4>3
    <3> QED BY <3>1, <3>2
  <2>2. CASE BadBrackets \/ MissingValue \/ BadNumber
    <3>1. ~AtEnd /\ line = file.lines[pos + 1]
      BY <2>2 DEF BadBrackets, MissingValue, BadNumber, Read, line
    <3>2. pos + 1 \in Lines
      BY <1>1, <1>2, <3>1, ScanTypes DEF Lines
    <3>3. Faulty(file.lines, pos + 1, key)
      <4>1. CASE BadBrackets
        BY <3>1, <4>1 DEF BadBrackets, Read, Faulty
      <4>2. CASE MissingValue \/ BadNumber
        <5>1. line.kind = "variable" /\ Concerned
          BY <4>2 DEF MissingValue, BadNumber, Read
        <5>2. Assigns(file.lines, pos + 1, key)
          BY <1>1, <1>2, <3>1, <5>1, ConcernedIsAssigned
        <5> QED BY <3>1, <4>2, <5>2 DEF MissingValue, BadNumber, Faulty
      <4> QED BY <2>2, <4>1, <4>2
    <3> QED BY <3>2, <3>3
  <2>3. CASE NotFound
    <3>1. pos = Len(file.lines) /\ Lines = 1..pos
      BY <1>2, <2>3 DEF NotFound, Eof, AtEnd, IniTypeOK, Lines
    <3>2. ~\E i \in 1..pos : Assigns(file.lines, i, key)
      <4>1. CASE result = NoValue
        BY <1>2, <4>1 DEF ResultRead
      <4>2. CASE ~findSec
        <5>1. \A h \in 1..pos : ~IsHeader(file.lines, h, key)
          BY <1>2, <4>2 DEF HeadersSeen
        <5>2. \A i \in 1..pos : 1..(i - 1) \subseteq 1..pos
          BY <1>2 DEF IniTypeOK
        <5> QED BY <5>1, <5>2 DEF Assigns
      <4> QED BY <2>3, <4>1, <4>2 DEF NotFound
    <3> QED BY <3>1, <3>2
  <2> QED BY <2>1, <2>2, <2>3
<1>5. RefusedForCause'
  <2>1. Len(values) < Len(Keys)
    BY <1>1, <1>2 DEF IniTypeOK
  <2> QED BY <1>1, <1>4, <2>1 DEF RefusedForCause, Lines, key
<1> QED BY <1>3, <1>5 DEF IniInv

(* getValue ends, and what the loop has established is what it returns.    *)
LEMMA ReturnStep ==
  ASSUME IniInv, Return
  PROVE  IniInv'
<1>1. /\ phase = "reading" /\ phase' = "open" /\ Eof /\ findSec /\ result # NoValue
      /\ values' = Append(values, result)
      /\ UNCHANGED <<file, pos, currentSec, findSec, result>>
  BY DEF Return
<1>2. IniTypeOK /\ ResultRead /\ SoundSoFar /\ LastAssignmentCounts /\ ReturnedSound
  BY <1>1 DEF IniInv, LoopInv
<1>3. result \in Result /\ values \in Seq(Result) /\ Len(values) < Len(Keys)
  BY <1>1, <1>2 DEF IniTypeOK
<1>4. /\ values' \in Seq(Result) /\ Len(values') = Len(values) + 1
      /\ DOMAIN values' = DOMAIN values \cup {Len(values) + 1}
      /\ values'[Len(values) + 1] = result
      /\ \A n \in DOMAIN values : values'[n] = values[n]
  BY <1>1, <1>3
<1>5. Lines = 1..pos /\ ~file.newline
  BY <1>1, <1>2 DEF Eof, AtEnd, IniTypeOK, Lines
<1>6. IniTypeOK'
  <2>1. Len(Keys) \in Nat
    BY IniConstants
  <2> QED BY <1>1, <1>2, <1>3, <1>4, <2>1 DEF IniTypeOK
<1>7. LastAssignmentCounts'
  <2>1. Lines' = Lines
    BY <1>1 DEF Lines
  <2>2. ASSUME NEW n \in DOMAIN values'
        PROVE  \E i \in Lines :
                 /\ Assigns(file.lines, i, Keys[n])
                 /\ values'[n] = Given(file.lines, i, Keys[n])
                 /\ \A j \in Lines : Assigns(file.lines, j, Keys[n]) => j <= i
    <3>1. CASE n \in DOMAIN values
      BY <1>2, <1>4, <3>1 DEF LastAssignmentCounts
    <3>2. CASE n = Len(values) + 1
      BY <1>1, <1>2, <1>4, <1>5, <3>2 DEF ResultRead, key
    <3> QED BY <1>4, <3>1, <3>2
  <2> QED BY <1>1, <2>1, <2>2 DEF LastAssignmentCounts
<1>8. ReturnedSound'
  <2>1. Lines' = Lines
    BY <1>1 DEF Lines
  <2> QED BY <1>1, <1>2, <1>4, <1>5, <2>1 DEF ReturnedSound, SoundSoFar, key
<1>9. LoopInv' /\ EndInv' /\ RefusedForCause'
  BY <1>1 DEF LoopInv, EndInv, RefusedForCause
<1> QED BY <1>6, <1>7, <1>8, <1>9 DEF IniInv

LEMMA IniStep == IniInv /\ [Next]_vars => IniInv'
<1> SUFFICES ASSUME IniInv, [Next]_vars PROVE IniInv'
  OBVIOUS
<1> USE DEF IniInv
<1>1. CASE SetFile
  BY <1>1 DEF SetFile, IniTypeOK, LoopInv, EndInv, LastAssignmentCounts, ReturnedSound,
     RefusedForCause, Lines
<1>2. CASE GetValue
  <2>1. /\ phase = "open" /\ phase' = "reading" /\ pos' = 0 /\ currentSec' = NoName
        /\ findSec' = FALSE /\ result' = NoValue /\ UNCHANGED <<file, values>>
        /\ Len(values) < Len(Keys)
    BY <1>2 DEF GetValue
  <2>2. LoopInv'
    BY <2>1 DEF LoopInv, SectionRead, HeadersSeen, ResultRead, SoundSoFar
  <2>3. IniTypeOK'
    <3>1. Len(file.lines) \in Nat
      BY DEF IniTypeOK
    <3>2. pos' \in 0..Len(file'.lines)
      BY <2>1, <3>1
    <3> QED BY <2>1, <3>2 DEF IniTypeOK
  <2>4. LastAssignmentCounts' /\ ReturnedSound' /\ RefusedForCause' /\ EndInv'
    BY <2>1 DEF LastAssignmentCounts, ReturnedSound, RefusedForCause, EndInv, Lines
  <2> QED BY <2>2, <2>3, <2>4
<1>3. CASE EmptyLine \/ Header \/ OtherLine \/ SetNumber \/ SetText
  BY <1>3, ScanStep
<1>4. CASE ReadPastEnd \/ BadBrackets \/ MissingValue \/ BadNumber \/ NotFound
  BY <1>4, ThrowStep
<1>5. CASE Return
  BY <1>5, ReturnStep
<1>6. CASE Configured
  BY <1>6 DEF Configured, IniTypeOK, LoopInv, EndInv, LastAssignmentCounts, ReturnedSound,
     RefusedForCause, Lines
<1>7. CASE UNCHANGED vars
  BY <1>7 DEF vars, IniTypeOK, LoopInv, EndInv, LastAssignmentCounts, ReturnedSound,
     RefusedForCause, Lines, SectionRead, HeadersSeen, ResultRead, SoundSoFar, key, secName
<1> QED BY <1>1, <1>2, <1>3, <1>4, <1>5, <1>6, <1>7 DEF Next, ReadLine

LEMMA IniInvariant == Spec => []IniInv
BY IniInit, IniStep, PTL DEF Spec

-----------------------------------------------------------------------------
(* The variables keep their types.                                         *)
THEOREM IniTypeCorrect == Spec => []IniTypeOK
<1>1. IniInv => IniTypeOK
  BY DEF IniInv
<1> QED BY <1>1, IniInvariant, PTL

(* getValue returns what the last assignment of the parameter says.        *)
THEOREM ValueIsLastAssignment == Spec => []LastAssignmentCounts
<1>1. IniInv => LastAssignmentCounts
  BY DEF IniInv
<1> QED BY <1>1, IniInvariant, PTL

(* A program that goes on with its parameters has read a sound file.       *)
THEOREM ConfiguredIsSound == Spec => []ConfiguredMeansSound
<1>1. IniInv => ConfiguredMeansSound
  <2> SUFFICES ASSUME IniInv, phase = "configured", NEW n \in DOMAIN Keys
               PROVE  ~file.newline /\ \A i \in Lines : ~Faulty(file.lines, i, Keys[n])
    BY DEF ConfiguredMeansSound
  <2>1. Len(values) = Len(Keys) /\ values \in Seq(Result) /\ Keys \in Seq(Key)
    BY IniConstants DEF IniInv, EndInv, IniTypeOK
  <2>2. n \in DOMAIN values
    BY <2>1
  <2> QED BY <2>2 DEF IniInv, ReturnedSound
<1> QED BY <1>1, IniInvariant, PTL

(* A file that was opened is refused only for a reason in it.              *)
THEOREM RefusalHasCause == Spec => []RefusedForCause
<1>1. IniInv => RefusedForCause
  BY DEF IniInv
<1> QED BY <1>1, IniInvariant, PTL
=============================================================================
