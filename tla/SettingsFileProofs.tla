-------------------------- MODULE SettingsFileProofs --------------------------
(***************************************************************************)
(* Proofs about SettingsFile, for any dictionary, any texts and any tables *)
(* saved: of several lines that give a parameter the last one counts, no   *)
(* line is dropped without a word, and a file that was saved gives back    *)
(* what was in the table.                                                  *)
(*                                                                         *)
(* The reader keeps the section it is in, and the promises are about the   *)
(* section a line is in by the text; FileInv says that these agree, and    *)
(* that each line read is accounted for.                                   *)
(*                                                                         *)
(* That a saved file reads back rests on three things: where its lines     *)
(* stand (each section's name and lines between those of its neighbours,   *)
(* no two things on one line), that each value's text is a value of the    *)
(* type and the same, and that no two lines give one parameter.  The last  *)
(* is what a dictionary must see to: NamesReadBack.                        *)
(***************************************************************************)
EXTENDS SettingsFile, FiniteSetTheorems, WellFoundedInduction, TLAPS

\* The line's text is in a section that was not recognised, and the operator
\* has been told of that.
SectionNoted(l) == \E k \in noted : k < l /\ file[k] = Unrecognised

\* A line read is one of the header, one the operator is told of, or the one
\* its parameter is taken from.
Accounted(l) ==
  \/ l \in header \cup noted
  \/ SectionOf(l) = "" /\ SectionNoted(l)
  \/ \E key \in DOMAIN parameters : parameters[key].line = l

\* What matching made of the parameters.
Found == {o \in Object : Key(o) \in DOMAIN parameters}
Made == [o \in Found |-> ParseValue(o, parameters[Key(o)].value)]
Taken == {o \in Found \cap Loadable : Made[o] # NoValue}
Matched ==
  /\ line = Len(file)
  /\ file_values = [o \in Taken |-> Made[o]]
  /\ {parameters[key].line : key \in DOMAIN parameters \ {Key(o) : o \in Taken}} \subseteq noted

\* The inductive invariant: the section the reader keeps is the one its next
\* line is in by the text, and no line read so far is unaccounted for.
FileInv ==
  /\ at \in {"idle", "reading", "matched"}
  /\ file \in Seq(Line)
  /\ line \in 0 .. Len(file)
  /\ noted \subseteq Nat
  /\ at = "idle" => line = 0 /\ section = NoSection /\ parameters = << >>
  /\ section = SectionOf(line + 1)
  /\ section = "" => SectionNoted(line + 1)
  /\ LastLineCounts
  /\ \A l \in 1 .. line : file[l].kind \in {"entry", "junk"} => Accounted(l)
  /\ at = "matched" => Matched

-----------------------------------------------------------------------------
\* A line of one kind.
LEMMA KindsOfLines ==
  ASSUME NEW l \in Line
  PROVE  /\ l.kind \in {"blank", "section", "entry", "junk"}
         /\ l.kind = "section" => (l.name \in DOMAIN Trim \cup {""} /\ (l.name = "" <=> l = Unrecognised))
         /\ l.kind = "entry" => l.key \in DOMAIN Trim
<1>1. CASE l \in [kind : {"blank", "junk"}]
  BY <1>1
<1>2. CASE l \in [kind : {"section"}, name : DOMAIN Trim \cup {""}]
  <2>1. l.kind = "section" /\ l.name \in DOMAIN Trim \cup {""}
    BY <1>2
  <2>2. l = [kind |-> "section", name |-> l.name]
    BY <1>2
  <2>3. (l.name = "") <=> (l = Unrecognised)
    <3>1. Unrecognised = [kind |-> "section", name |-> ""] /\ Unrecognised.name = ""
      BY DEF Unrecognised, SectionLine
    <3>2. l.name = "" => l = Unrecognised
      BY <2>2, <3>1
    <3>3. l = Unrecognised => l.name = ""
      BY <3>1
    <3> QED
      BY <3>2, <3>3
  <2> QED
    BY <2>1, <2>3
<1>3. CASE l \in [kind : {"entry"}, key : DOMAIN Trim, value : ValueText]
  BY <1>3
<1> QED
  BY <1>1, <1>2, <1>3 DEF Line

\* The sections begun before a line.
Begun(l) == {k \in 1 .. l - 1 : file[k].kind = "section"}
LastOf(ks) == CHOOSE k \in ks : \A j \in ks : j <= k

LEMMA SectionByText ==
  ASSUME NEW l
  PROVE  SectionOf(l) = IF Begun(l) = {} THEN NoSection
                        ELSE IF file[LastOf(Begun(l))] = Unrecognised THEN ""
                        ELSE Trim[file[LastOf(Begun(l))].name]
  BY DEF SectionOf, Begun, LastOf

\* The next line is in the same section, unless this one begins another.
LEMMA SectionGoesOn ==
  ASSUME NEW l \in Nat, l > 0, file[l].kind # "section"
  PROVE  SectionOf(l + 1) = SectionOf(l)
<1>1. Begun(l + 1) = Begun(l)
  BY DEF Begun
<1> QED
  BY <1>1, SectionByText

LEMMA SectionBegins ==
  ASSUME NEW l \in Nat, l > 0, file[l].kind = "section"
  PROVE  SectionOf(l + 1) = IF file[l] = Unrecognised THEN "" ELSE Trim[file[l].name]
<1>1. l \in Begun(l + 1) /\ \A j \in Begun(l + 1) : j <= l /\ j \in Nat
  BY DEF Begun
<1>2. LastOf(Begun(l + 1)) = l
  <2>1. PICK last : last = LastOf(Begun(l + 1))
    OBVIOUS
  <2>2. last \in Begun(l + 1) /\ \A j \in Begun(l + 1) : j <= last
    BY <1>1, <2>1 DEF LastOf
  <2>3. last <= l /\ l <= last /\ last \in Nat
    BY <1>1, <2>2
  <2> QED
    BY <2>1, <2>3
<1> QED
  BY <1>1, <1>2, SectionByText

\* Whatever is read of the same text, a line stays in its section.
LEMMA SectionStays ==
  ASSUME file' = file, NEW l
  PROVE  SectionOf(l)' = SectionOf(l)
  BY DEF SectionOf

-----------------------------------------------------------------------------
\* One line more is read.
LEMMA LineIsRead ==
  ASSUME FileInv, NEW kind, ReadsLine(kind)
  PROVE  /\ line + 1 \in DOMAIN file /\ line + 1 \in 1 .. Len(file) /\ line \in Nat
         /\ file[line + 1] \in Line /\ file[line + 1].kind = kind
         /\ line' = line + 1 /\ at = "reading" /\ at' = at /\ file' = file
         /\ saved' = saved /\ file_values' = file_values
         /\ line' \in 0 .. Len(file')
<1>0. line \in 0 .. Len(file) /\ file \in Seq(Line)
  BY DEF FileInv
<1>1. line \in 0 .. Len(file) /\ Len(file) \in Nat /\ file \in Seq(Line) /\ DOMAIN file = 1 .. Len(file)
  BY <1>0
<1>2. line < Len(file) /\ line' = line + 1 /\ file[line + 1].kind = kind /\ at = "reading"
      /\ UNCHANGED <<at, saved, file, file_values>>
  BY DEF ReadsLine
<1>3. line + 1 \in 1 .. Len(file) /\ line \in Nat
  BY <1>1, <1>2
<1>4. file[line + 1] \in Line
  BY <1>1, <1>3
<1> QED
  BY <1>1, <1>2, <1>3, <1>4

LEMMA NextLine ==
  ASSUME FileInv, NEW kind, ReadsLine(kind)
  PROVE  /\ line \in Nat /\ line' = line + 1 /\ line + 1 \in Nat /\ line + 1 > 0
         /\ line + 1 + 1 = line + 2 /\ line' + 1 = line + 2
<1>1. line \in Nat /\ line' = line + 1
  BY LineIsRead
<1> QED
  BY ONLY <1>1

\* The lines that give a parameter, after one more.
LEMMA ParameterLinesGrow ==
  ASSUME FileInv, NEW kind, ReadsLine(kind)
  PROVE  ParameterLines' = ParameterLines \cup
           (IF kind = "entry" /\ section \notin {NoSection, ""} THEN {line + 1} ELSE {})
<1>1. line \in Nat /\ line' = line + 1 /\ file' = file /\ file[line + 1].kind = kind
  BY LineIsRead
<1>2. \A l : SectionOf(l)' = SectionOf(l)
  BY <1>1, SectionStays
<1>3. section = SectionOf(line + 1)
  BY DEF FileInv
<1>4. ParameterLines' = {l \in 1 .. line + 1 : file[l].kind = "entry" /\ SectionOf(l) \notin {NoSection, ""}}
  BY <1>1, <1>2 DEF ParameterLines
<1>5. 1 .. line + 1 = (1 .. line) \cup {line + 1}
  BY <1>1
<1> QED
  BY <1>1, <1>3, <1>4, <1>5 DEF ParameterLines

LEMMA LinesOfParameters ==
  ASSUME FileInv
  PROVE  /\ \A l \in ParameterLines : l \in Nat /\ l <= line
         /\ \A key \in DOMAIN parameters : parameters[key].line \in Nat
<1>1. line \in Nat
  <2>1. file \in Seq(Line) /\ line \in 0 .. Len(file)
    BY DEF FileInv
  <2> QED
    BY <2>1
<1>2. \A l \in 1 .. line : l \in Nat /\ l <= line
  BY ONLY <1>1
<1>3. \A l \in ParameterLines : l \in 1 .. line
  BY DEF ParameterLines
<1>4. \A key \in DOMAIN parameters : parameters[key].line \in ParameterLines
  BY DEF FileInv, LastLineCounts
<1> QED
  BY <1>2, <1>3, <1>4

\* A line that gives no parameter leaves them as they were.
LEMMA SameParametersCount ==
  ASSUME LastLineCounts, file' = file, parameters' = parameters, ParameterLines' = ParameterLines
  PROVE  LastLineCounts'
<1>1. \A l : KeyOf(l)' = KeyOf(l)
  BY SectionStays DEF KeyOf
<1> QED
  BY <1>1 DEF LastLineCounts

\* What is accounted for stays so while notes are added.
LEMMA StaysAccounted ==
  ASSUME NEW l, Accounted(l), file' = file, header \subseteq header', noted \subseteq noted',
         parameters' = parameters
  PROVE  Accounted(l)'
  BY SectionStays DEF Accounted, SectionNoted

LEMMA StaysNoted ==
  ASSUME NEW l \in Nat, SectionNoted(l), file' = file, noted \subseteq noted', noted \subseteq Nat
  PROVE  SectionNoted(l)' /\ SectionNoted(l + 1)'
  BY DEF SectionNoted

-----------------------------------------------------------------------------
LEMMA InitReads == FileInit => FileInv
<1> SUFFICES ASSUME FileInit PROVE FileInv
  OBVIOUS
<1>1. /\ at = "idle" /\ file = << >> /\ Len(file) = 0 /\ file \in Seq(Line) /\ line = 0
      /\ section = NoSection /\ parameters = << >> /\ DOMAIN parameters = {} /\ noted = {}
  BY DEF FileInit
<1>2. SectionOf(line + 1) = NoSection
  <2>1. Begun(line + 1) = {}
    BY <1>1 DEF Begun
  <2> QED
    BY <2>1, SectionByText
<1>3. LastLineCounts
  BY <1>1 DEF LastLineCounts, ParameterLines
<1>4. 1 .. line = {} /\ line \in 0 .. Len(file)
  BY <1>1
<1>5. section # ""
  BY <1>1, FileAssumption
<1> QED
  BY <1>1, <1>2, <1>3, <1>4, <1>5 DEF FileInv

LEMMA ReturnReads == ASSUME FileInv, Return PROVE FileInv'
<1>1. /\ at' = "idle" /\ file' = << >> /\ Len(file') = 0 /\ file' \in Seq(Line) /\ line' = 0
      /\ section' = NoSection /\ parameters' = << >> /\ DOMAIN parameters' = {} /\ noted' = {}
  BY DEF Return
<1>2. SectionOf(line + 1)' = NoSection
  <2>1. Begun(line + 1)' = {}
    BY <1>1 DEF Begun
  <2> QED
    BY <1>1, <2>1 DEF SectionOf, Begun
<1>3. LastLineCounts'
  BY <1>1 DEF LastLineCounts, ParameterLines
<1>4. 1 .. line' = {} /\ line' \in 0 .. Len(file')
  BY <1>1
<1>5. section' # ""
  BY <1>1, FileAssumption
<1> QED
  BY <1>1, <1>2, <1>3, <1>4, <1>5 DEF FileInv

\* A file is opened at its first line, before any section.
LEMMA OpenReads ==
  ASSUME FileInv, OpenFile, \A table \in Tables : Save(table) \in Seq(Line)
  PROVE  FileInv'
<1>1. /\ at = "idle" /\ at' = "reading"
      /\ line = 0 /\ section = NoSection /\ parameters = << >> /\ noted \subseteq Nat
      /\ UNCHANGED <<line, section, header, parameters, noted, file_values>>
  BY DEF FileInv, OpenFile
<1>2. file' \in Seq(Line)
  BY FileAssumption DEF OpenFile
<1>3. Len(file') \in Nat /\ line' \in 0 .. Len(file') /\ DOMAIN parameters' = {}
  BY <1>1, <1>2
<1>4. SectionOf(line + 1)' = NoSection
  <2>1. Begun(line + 1)' = {}
    BY <1>1 DEF Begun
  <2> QED
    BY <1>1, <2>1 DEF SectionOf, Begun
<1>5. LastLineCounts'
  <2>1. ParameterLines' = {}
    BY <1>1 DEF ParameterLines
  <2> QED
    BY <1>3, <2>1 DEF LastLineCounts
<1>6. NoSection # ""
  BY FileAssumption
<1>7. 1 .. line' = {}
  BY <1>1
<1> QED
  BY <1>1, <1>2, <1>3, <1>4, <1>5, <1>6, <1>7 DEF FileInv

\* What reading any line keeps, once the next line's section and the line
\* itself have been looked at.
LEMMA ReadingKeeps ==
  ASSUME FileInv, NEW kind, ReadsLine(kind), NEW n, n = line + 1,
         noted' \in SUBSET Nat,
         section' = SectionOf(n + 1),
         section' = "" => SectionNoted(n + 1)',
         LastLineCounts',
         \A l \in 1 .. line : file[l].kind \in {"entry", "junk"} => Accounted(l)',
         kind \in {"entry", "junk"} => Accounted(n)'
  PROVE  FileInv'
<1>0. line \in Nat /\ line' = n
  BY NextLine
<1>1. /\ file' = file /\ at = "reading" /\ at' = at
      /\ line' \in 0 .. Len(file') /\ file[n].kind = kind
  BY LineIsRead
<1>2. section' = SectionOf(line + 1)'
  <2>1. SectionOf(n + 1)' = SectionOf(n + 1)
    BY <1>1, SectionStays
  <2>2. SectionOf(line + 1)' = SectionOf(n + 1)'
    BY <1>0
  <2> QED
    BY <2>1, <2>2
<1>3. section' = "" => SectionNoted(line + 1)'
  BY <1>0
<1>4. \A l \in 1 .. line' : file'[l].kind \in {"entry", "junk"} => Accounted(l)'
  <2>1. \A l \in 1 .. line' : l = n \/ l \in 1 .. line
    BY ONLY <1>0, n = line + 1
  <2> QED
    BY <1>1, <2>1
<1>5. file' \in Seq(Line) /\ noted' \subseteq Nat
  BY <1>1 DEF FileInv
<1> QED
  BY <1>1, <1>2, <1>3, <1>4, <1>5 DEF FileInv

LEMMA BlankReads == ASSUME FileInv, ReadBlank PROVE FileInv'
<1>1. ReadsLine("blank") /\ UNCHANGED <<section, header, parameters, noted>>
  BY DEF ReadBlank
<1>2. PICK n \in Nat : n = line + 1 /\ n > 0
  BY <1>1, NextLine
<1>3. file' = file /\ file[n].kind = "blank" /\ noted \subseteq Nat /\ section = SectionOf(n)
  BY <1>1, <1>2, LineIsRead DEF FileInv
<1>4. section' = SectionOf(n + 1)
  BY <1>1, <1>2, <1>3, SectionGoesOn
<1>5. section' = "" => SectionNoted(n + 1)'
  <2>1. section = "" => SectionNoted(n)
    BY <1>2 DEF FileInv
  <2> QED
    BY <1>1, <1>3, <2>1, StaysNoted
<1>6. LastLineCounts'
  BY <1>1, <1>3, ParameterLinesGrow, SameParametersCount DEF FileInv
<1>7. \A l \in 1 .. line : file[l].kind \in {"entry", "junk"} => Accounted(l)'
  BY <1>1, <1>3, StaysAccounted DEF FileInv
<1> QED
  BY <1>1, <1>2, <1>3, <1>4, <1>5, <1>6, <1>7, ReadingKeeps

LEMMA SectionReads == ASSUME FileInv, ReadSection PROVE FileInv'
<1>1. ReadsLine("section") /\ UNCHANGED <<header, parameters>>
  BY DEF ReadSection
<1>2. PICK n \in Nat : n = line + 1 /\ n > 0
  BY <1>1, NextLine
<1>3. /\ section' = IF file[n].name = "" THEN "" ELSE Trim[file[n].name]
      /\ noted' = IF file[n].name = "" THEN noted \cup {n} ELSE noted
  BY <1>2 DEF ReadSection
<1>4. file' = file /\ file[n] \in Line /\ file[n].kind = "section" /\ noted \subseteq Nat
  BY <1>1, <1>2, LineIsRead DEF FileInv
<1>5. (file[n].name = "") <=> (file[n] = Unrecognised)
  BY <1>4, KindsOfLines
<1>6. section' = SectionOf(n + 1)
  BY <1>2, <1>3, <1>4, <1>5, SectionBegins
<1>7. section' = "" => SectionNoted(n + 1)'
  <2>1. file[n].name # "" => section' # ""
    BY <1>3, <1>4, KindsOfLines, FileAssumption
  <2>2. n < n + 1
    BY <1>2
  <2>3. file[n].name = "" => n \in noted' /\ file'[n] = Unrecognised
    BY <1>3, <1>4, <1>5
  <2> QED
    BY <2>1, <2>2, <2>3 DEF SectionNoted
<1>8. LastLineCounts'
  BY <1>1, <1>4, ParameterLinesGrow, SameParametersCount DEF FileInv
<1>9. noted \subseteq noted' /\ noted' \in SUBSET Nat
  BY <1>3, <1>4
<1>10. \A l \in 1 .. line : file[l].kind \in {"entry", "junk"} => Accounted(l)'
  BY <1>1, <1>4, <1>9, StaysAccounted DEF FileInv
<1>11. "section" \notin {"entry", "junk"}
  OBVIOUS
<1> QED
  BY <1>1, <1>2, <1>6, <1>7, <1>8, <1>9, <1>10, <1>11, ReadingKeeps

LEMMA JunkReads == ASSUME FileInv, ReadJunk PROVE FileInv'
<1>1. ReadsLine("junk") /\ UNCHANGED <<section, header, parameters>>
  BY DEF ReadJunk
<1>2. PICK n \in Nat : n = line + 1 /\ n > 0
  BY <1>1, NextLine
<1>3. noted' = IF section = "" THEN noted ELSE noted \cup {n}
  BY <1>2 DEF ReadJunk
<1>4. /\ file' = file /\ file[n].kind = "junk" /\ noted \subseteq Nat /\ section = SectionOf(n)
      /\ section = "" => SectionNoted(n)
  BY <1>1, <1>2, LineIsRead DEF FileInv
<1>5. noted \subseteq noted' /\ noted' \in SUBSET Nat
  BY <1>3, <1>4
<1>6. section' = SectionOf(n + 1)
  BY <1>1, <1>2, <1>4, SectionGoesOn
<1>7. section' = "" => SectionNoted(n + 1)'
  BY <1>1, <1>4, <1>5, StaysNoted
<1>8. LastLineCounts'
  BY <1>1, <1>4, ParameterLinesGrow, SameParametersCount DEF FileInv
<1>9. \A l \in 1 .. line : file[l].kind \in {"entry", "junk"} => Accounted(l)'
  BY <1>1, <1>4, <1>5, StaysAccounted DEF FileInv
<1>10. Accounted(n)'
  <2>1. CASE section = ""
    <3>1. Accounted(n)
      BY <1>4, <2>1 DEF Accounted
    <3> QED
      BY <1>1, <1>4, <1>5, <3>1, StaysAccounted
  <2>2. CASE section # ""
    BY <1>3, <2>2 DEF Accounted
  <2> QED
    BY <2>1, <2>2
<1> QED
  BY <1>1, <1>2, <1>5, <1>6, <1>7, <1>8, <1>9, <1>10, ReadingKeeps

\* The last of several lines that give a parameter takes the place of the
\* others.
LEMMA ParameterIsRead ==
  ASSUME FileInv, ReadsLine("entry"), section \notin {NoSection, ""},
         NEW n \in Nat, n = line + 1, NEW key, key = KeyOf(n),
         parameters' = [k \in DOMAIN parameters \cup {key} |->
                          IF k = key THEN [value |-> file[n].value, line |-> n] ELSE parameters[k]]
  PROVE  LastLineCounts'
<1>1. ParameterLines' = ParameterLines \cup {n}
  BY ParameterLinesGrow
<1>2. file' = file /\ LastLineCounts
  BY LineIsRead DEF FileInv
<1>3. \A l : KeyOf(l)' = KeyOf(l)
  BY <1>2, SectionStays DEF KeyOf
<1>4. \A l \in ParameterLines : l \in Nat /\ l <= n
  <2>1. line \in Nat
    BY NextLine
  <2>2. \A l \in ParameterLines : l \in Nat /\ l <= line
    BY LinesOfParameters
  <2> QED
    BY ONLY <2>1, <2>2, n = line + 1
<1>5. DOMAIN parameters' = DOMAIN parameters \cup {key}
  OBVIOUS
<1>6. DOMAIN parameters' = {KeyOf(l)' : l \in ParameterLines'}
  <2>1. DOMAIN parameters = {KeyOf(l) : l \in ParameterLines}
    BY <1>2 DEF LastLineCounts
  <2> QED
    BY <1>1, <1>3, <1>5, <2>1
<1>7. ASSUME NEW k \in DOMAIN parameters'
      PROVE  /\ parameters'[k].line \in ParameterLines'
             /\ KeyOf(parameters'[k].line) = k
             /\ parameters'[k].value = file[parameters'[k].line].value
             /\ \A later \in ParameterLines' : KeyOf(later) = k => later <= parameters'[k].line
  <2>1. CASE k = key
    <3>1. PICK given : given = [value |-> file[n].value, line |-> n]
      OBVIOUS
    <3>2. given.line = n /\ given.value = file[n].value
      BY ONLY <3>1
    <3>3. parameters'[k] = given
      BY <2>1, <3>1
    <3>4. n <= n
      BY ONLY n \in Nat
    <3> QED
      BY <1>1, <1>4, <2>1, <3>2, <3>3, <3>4
  <2>2. CASE k # key
    <3>1. k \in DOMAIN parameters /\ parameters'[k] = parameters[k]
      BY <1>5, <2>2
    <3>2. /\ parameters[k].line \in ParameterLines
          /\ KeyOf(parameters[k].line) = k
          /\ parameters[k].value = file[parameters[k].line].value
          /\ \A later \in ParameterLines : KeyOf(later) = k => later <= parameters[k].line
      BY <1>2, <3>1 DEF LastLineCounts
    <3> QED
      BY <1>1, <2>2, <3>1, <3>2
  <2> QED
    BY <2>1, <2>2
<1> QED
  BY <1>2, <1>3, <1>6, <1>7 DEF LastLineCounts

LEMMA EntryReads == ASSUME FileInv, ReadEntry PROVE FileInv'
<1>1. ReadsLine("entry") /\ UNCHANGED section
  BY DEF ReadEntry
<1>2. PICK n \in Nat : n = line + 1 /\ n > 0
  BY <1>1, NextLine
<1>3. /\ file' = file /\ file[n].kind = "entry" /\ noted \subseteq Nat /\ section = SectionOf(n)
      /\ section = "" => SectionNoted(n)
  BY <1>1, <1>2, LineIsRead DEF FileInv
<1>4. section' = SectionOf(n + 1)
  BY <1>1, <1>2, <1>3, SectionGoesOn
<1>5. PICK key : key = KeyOf(n) /\ key = <<section, Trim[file[n].key]>>
  BY <1>3 DEF KeyOf
<1>6. CASE section = NoSection \/ section = ""
  <2>1. /\ UNCHANGED <<parameters, noted>> /\ header \subseteq header'
        /\ section # "" => n \in header'
    BY <1>2, <1>6, FileAssumption DEF ReadEntry
  <2>2. LastLineCounts'
    BY <1>1, <1>3, <1>6, <2>1, ParameterLinesGrow, SameParametersCount DEF FileInv
  <2>3. \A l \in 1 .. line : file[l].kind \in {"entry", "junk"} => Accounted(l)'
    BY <1>3, <2>1, StaysAccounted DEF FileInv
  <2>4. section' = "" => SectionNoted(n + 1)'
    BY <1>1, <1>3, <2>1, StaysNoted
  <2>5. Accounted(n)'
    <3>1. CASE section = ""
      <4>1. Accounted(n)
        BY <1>3, <3>1 DEF Accounted
      <4> QED
        BY <1>3, <2>1, <4>1, StaysAccounted
    <3>2. CASE section # ""
      BY <2>1, <3>2 DEF Accounted
    <3> QED
      BY <3>1, <3>2
  <2>6. noted' \in SUBSET Nat
    BY <1>3, <2>1
  <2> QED
    BY <1>1, <1>2, <1>4, <2>2, <2>3, <2>4, <2>5, <2>6, ReadingKeeps
<1>7. CASE section \notin {NoSection, ""}
  <2>1. /\ parameters' = [k \in DOMAIN parameters \cup {key} |->
                            IF k = key THEN [value |-> file[n].value, line |-> n]
                            ELSE parameters[k]]
        /\ noted' = IF key \in DOMAIN parameters THEN noted \cup {parameters[key].line} ELSE noted
        /\ UNCHANGED header
    BY <1>2, <1>5, <1>7 DEF ReadEntry
  <2>2. LastLineCounts'
    BY <1>1, <1>2, <1>5, <1>7, <2>1, ParameterIsRead
  <2>3. noted \subseteq noted' /\ noted' \in SUBSET Nat
    <3>1. key \in DOMAIN parameters => parameters[key].line \in Nat
      BY LinesOfParameters
    <3> QED
      BY <1>3, <2>1, <3>1
  <2>4. ASSUME NEW l \in 1 .. line, Accounted(l) PROVE Accounted(l)'
    <3>1. CASE l \in header \cup noted
      BY <2>1, <2>3, <3>1 DEF Accounted
    <3>2. CASE SectionOf(l) = "" /\ SectionNoted(l)
      BY <1>3, <2>3, <3>2, SectionStays DEF Accounted, SectionNoted
    <3>3. CASE \E k \in DOMAIN parameters : parameters[k].line = l
      <4>1. PICK k \in DOMAIN parameters : parameters[k].line = l
        BY <3>3
      <4>2. CASE k = key
        BY <2>1, <4>1, <4>2 DEF Accounted
      <4>3. CASE k # key
        <5>1. k \in DOMAIN parameters' /\ parameters'[k].line = l
          BY <2>1, <4>1, <4>3
        <5> QED
          BY <5>1 DEF Accounted
      <4> QED
        BY <4>2, <4>3
    <3> QED
      BY <2>4, <3>1, <3>2, <3>3 DEF Accounted
  <2>5. \A l \in 1 .. line : file[l].kind \in {"entry", "junk"} => Accounted(l)'
    BY <2>4 DEF FileInv
  <2>6. Accounted(n)'
    <3>1. key \in DOMAIN parameters' /\ parameters'[key].line = n
      BY <2>1
    <3> QED
      BY <3>1 DEF Accounted
  <2>7. section' # ""
    BY <1>1, <1>7
  <2> QED
    BY <1>1, <1>2, <1>4, <2>2, <2>3, <2>5, <2>6, <2>7, ReadingKeeps
<1> QED
  BY <1>6, <1>7

LEMMA MatchReads == ASSUME FileInv, MatchFile PROVE FileInv'
<1>1. /\ at = "reading" /\ line = Len(file) /\ at' = "matched"
      /\ UNCHANGED <<saved, file, line, section, header, parameters>>
  BY DEF MatchFile
<1>2. /\ file_values' = [o \in Taken |-> Made[o]]
      /\ noted' = noted \cup {parameters[key].line : key \in DOMAIN parameters \ {Key(o) : o \in Taken}}
  BY DEF MatchFile, Taken, Made, Found
<1>3. noted \subseteq noted' /\ noted' \subseteq Nat
  <2>1. \A key \in DOMAIN parameters : parameters[key].line \in Nat
    BY LinesOfParameters
  <2>2. noted \subseteq Nat
    BY DEF FileInv
  <2> QED
    BY <1>2, <2>1, <2>2
<1>4. Taken' = Taken /\ Made' = Made
  BY <1>1 DEF Taken, Made, Found
<1>5. Matched'
  BY <1>1, <1>2, <1>4 DEF Matched
<1>6. ParameterLines' = ParameterLines
  <2>1. \A l : SectionOf(l)' = SectionOf(l)
    BY <1>1, SectionStays
  <2> QED
    BY <1>1, <2>1 DEF ParameterLines
<1>7. LastLineCounts'
  BY <1>1, <1>6, SameParametersCount DEF FileInv
<1>8. \A l \in 1 .. line : file[l].kind \in {"entry", "junk"} => Accounted(l)'
  BY <1>1, <1>3, StaysAccounted DEF FileInv
<1>9. section' = SectionOf(line + 1)' /\ (section' = "" => SectionNoted(line + 1)')
  <2>1. PICK n : n = line + 1
    OBVIOUS
  <2>2. SectionOf(n)' = SectionOf(n) /\ (SectionNoted(n) => SectionNoted(n)')
    BY <1>1, <1>3, SectionStays DEF SectionNoted
  <2>3. section = SectionOf(n) /\ (section = "" => SectionNoted(n))
    BY <2>1 DEF FileInv
  <2>4. line' + 1 = n
    BY <1>1, <2>1
  <2> QED
    BY <1>1, <2>2, <2>3, <2>4
<1> QED
  BY <1>1, <1>3, <1>5, <1>7, <1>8, <1>9 DEF FileInv

LEMMA NextReads ==
  ASSUME FileInv, [FileNext]_filevars, \A table \in Tables : Save(table) \in Seq(Line)
  PROVE  FileInv'
<1>1. CASE UNCHANGED filevars
  <2>1. UNCHANGED <<at, file, line, section, header, parameters, noted, file_values>>
    BY <1>1 DEF filevars
  <2>2. \A l : SectionOf(l)' = SectionOf(l)
    BY <2>1, SectionStays
  <2>3. LastLineCounts'
    <3>1. ParameterLines' = ParameterLines
      BY <2>1, <2>2 DEF ParameterLines
    <3> QED
      BY <2>1, <3>1, SameParametersCount DEF FileInv
  <2>4. \A l \in 1 .. line : file[l].kind \in {"entry", "junk"} => Accounted(l)'
    BY <2>1, StaysAccounted DEF FileInv
  <2>5. section = SectionOf(line + 1)' /\ (section = "" => SectionNoted(line + 1)')
    <3>1. PICK n : n = line + 1
      OBVIOUS
    <3>2. SectionOf(n)' = SectionOf(n) /\ (SectionNoted(n) => SectionNoted(n)')
      BY <2>1, <2>2 DEF SectionNoted
    <3>3. section = SectionOf(n) /\ (section = "" => SectionNoted(n))
      BY <3>1 DEF FileInv
    <3>4. line' + 1 = n
      BY <2>1, <3>1
    <3> QED
      BY <3>2, <3>3, <3>4
  <2>6. Matched => Matched'
    <3>1. Taken' = Taken /\ Made' = Made
      BY <2>1 DEF Taken, Made, Found
    <3> QED
      BY <2>1, <3>1 DEF Matched
  <2> QED
    BY <2>1, <2>3, <2>4, <2>5, <2>6 DEF FileInv
<1> QED
  BY <1>1, OpenReads, BlankReads, SectionReads, JunkReads, EntryReads, MatchReads, ReturnReads
  DEF FileNext

\* Once the file is matched, what is accounted for is a row or noted.
LEMMA NothingIsDropped == FileInv => NothingDroppedSilently
<1> SUFFICES ASSUME FileInv, at = "matched", NEW l \in DOMAIN file,
                    file[l].kind \in {"entry", "junk"}
             PROVE  \/ l \in header \cup noted
                    \/ /\ SectionOf(l) = ""
                       /\ \E k \in noted : k < l /\ file[k] = Unrecognised
                    \/ \E o \in DOMAIN file_values : parameters[Key(o)].line = l
  BY DEF NothingDroppedSilently
<1>1. Matched /\ file \in Seq(Line)
  BY DEF FileInv
<1>2. Accounted(l)
  <2>1. l \in 1 .. line
    BY <1>1 DEF Matched
  <2> QED
    BY <2>1 DEF FileInv
<1>3. CASE \E key \in DOMAIN parameters : parameters[key].line = l
  <2>1. PICK key \in DOMAIN parameters : parameters[key].line = l
    BY <1>3
  <2>2. CASE \E o \in Taken : key = Key(o)
    <3>1. DOMAIN file_values = Taken
      BY <1>1 DEF Matched
    <3> QED
      BY <2>1, <2>2, <3>1
  <2>3. CASE ~\E o \in Taken : key = Key(o)
    BY <1>1, <2>1, <2>3 DEF Matched
  <2> QED
    BY <2>2, <2>3
<1> QED
  BY <1>2, <1>3 DEF Accounted, SectionNoted

-----------------------------------------------------------------------------
(* Where the lines of a saved file stand.                                  *)

SubOf(k) == Subcategory[Objects[k]]

LEMMA ObjectsInOrder ==
  /\ Len(Objects) \in Nat /\ DOMAIN Objects = 1 .. Len(Objects) /\ IsFiniteSet(DOMAIN Objects)
  /\ Cardinality(DOMAIN Objects) = Len(Objects)
  /\ \A k \in DOMAIN Objects : Objects[k] \in Object /\ k \in Nat /\ k > 0
<1>1. Objects \in Seq(Object)
  BY FileAssumption
<1>2. Len(Objects) \in Nat /\ DOMAIN Objects = 1 .. Len(Objects)
  BY <1>1
<1>3. IsFiniteSet(1 .. Len(Objects)) /\ Cardinality(1 .. Len(Objects)) = Len(Objects)
  <2>0. Len(Objects) \in Nat
    BY <1>2
  <2>1. PICK n \in Int : n = Len(Objects) /\ n >= 0
    BY ONLY <2>0
  <2>2. IsFiniteSet(1 .. n) /\ Cardinality(1 .. n) = IF 1 > n THEN 0 ELSE n - 1 + 1
    BY FS_Interval
  <2>3. Cardinality(1 .. n) = n
    BY ONLY <2>1, <2>2
  <2> QED
    BY <2>1, <2>2, <2>3
<1>4. \A k \in DOMAIN Objects : Objects[k] \in Object
  BY <1>1
<1> QED
  BY <1>2, <1>3, <1>4

\* Some object is the first of its subcategory.
LEMMA FirstIs ==
  ASSUME NEW k \in DOMAIN Objects
  PROVE  /\ First(k) \in DOMAIN Objects /\ First(k) <= k
         /\ SubOf(First(k)) = SubOf(k)
         /\ \A j \in 1 .. First(k) - 1 : SubOf(j) # SubOf(k)
<1> DEFINE Alike == {i \in DOMAIN Objects : SubOf(i) = SubOf(k)}
<1>1. \A j \in DOMAIN Objects : j \in Nat /\ j > 0
  BY ObjectsInOrder
<1>2. PICK i \in Alike : \A j \in Alike : ~(<<j, i>> \in OpToRel(<, Nat))
  <2>1. Alike \subseteq Nat /\ k \in Alike
    BY <1>1
  <2> QED
    BY <2>1, NatLessThanWellFounded, WFMin
<1>3. \A j \in Alike : i <= j
  <2> TAKE j \in Alike
  <2>1. i \in Nat /\ j \in Nat
    BY <1>1
  <2>2. ~(j < i)
    BY <1>2, <2>1 DEF OpToRel
  <2> QED
    BY ONLY <2>1, <2>2
<1>4. \A j \in 1 .. i - 1 : SubOf(j) # SubOf(k)
  <2> TAKE j \in 1 .. i - 1
  <2>1. i \in 1 .. Len(Objects) /\ Len(Objects) \in Nat
    BY ObjectsInOrder
  <2>2. j \in 1 .. Len(Objects) /\ ~(i <= j)
    BY ONLY <2>1, j \in 1 .. i - 1
  <2>3. j \in DOMAIN Objects
    BY <2>2, ObjectsInOrder
  <2> QED
    BY <1>3, <2>2, <2>3
<1>5. PICK first : first = First(k)
  OBVIOUS
<1>6. first \in DOMAIN Objects /\ SubOf(first) = SubOf(k) /\ \A j \in 1 .. first - 1 : SubOf(j) # SubOf(k)
  BY <1>4, <1>5 DEF First, SubOf
<1>7. first <= k
  <2>1. first \in Nat /\ k \in Nat /\ k > 0
    BY <1>1, <1>6
  <2>2. k < first => k \in 1 .. first - 1
    BY ONLY <2>1
  <2>3. ~(k < first)
    BY <1>6, <2>2
  <2> QED
    BY ONLY <2>1, <2>3
<1> QED
  BY <1>5, <1>6, <1>7

LEMMA SameFirst ==
  ASSUME NEW j \in DOMAIN Objects, NEW k \in DOMAIN Objects
  PROVE  (First(j) = First(k)) <=> (SubOf(j) = SubOf(k))
<1>1. First(j) = First(k) => SubOf(j) = SubOf(k)
  BY FirstIs
<1>2. SubOf(j) = SubOf(k) => First(j) = First(k)
  BY DEF First, SubOf
<1> QED
  BY <1>1, <1>2

LEMMA FirstIsFirst ==
  ASSUME NEW k \in DOMAIN Objects
  PROVE  First(k) \in Firsts
  BY FirstIs, SameFirst DEF Firsts

-----------------------------------------------------------------------------
\* What is counted for the places of the lines.
NamesBefore(i) == {f \in Firsts : f < i}
LinesBefore(i) == {j \in DOMAIN Objects : First(j) < i}
UpTo(k) == {j \in DOMAIN Objects : First(j) = First(k) /\ j <= k}

LEMMA Places ==
  ASSUME NEW k \in DOMAIN Objects
  PROVE  /\ HeadingAt(k) = 3 + Cardinality(NamesBefore(k)) + Cardinality(LinesBefore(k))
         /\ LineAt(k) = HeadingAt(First(k)) + Cardinality(UpTo(k))
  BY DEF HeadingAt, LineAt, NamesBefore, LinesBefore, UpTo

\* Sets of objects are finite, and count as they should.
LEMMA CountOfPart ==
  ASSUME NEW S \in SUBSET DOMAIN Objects, NEW T \in SUBSET S
  PROVE  /\ Cardinality(S) \in Nat /\ Cardinality(T) \in Nat /\ IsFiniteSet(S)
         /\ Cardinality(T) <= Cardinality(S)
         /\ T # S => Cardinality(T) < Cardinality(S)
<1>1. IsFiniteSet(S) /\ IsFiniteSet(T)
  BY ObjectsInOrder, FS_Subset
<1>2. Cardinality(S) \in Nat /\ Cardinality(T) \in Nat
  BY <1>1, FS_CardinalityType
<1>3. Cardinality(T) <= Cardinality(S) /\ (Cardinality(S) = Cardinality(T) => S = T)
  BY <1>1, FS_Subset
<1> QED
  BY <1>1, <1>2, <1>3

LEMMA CountOfParts ==
  ASSUME NEW U \in SUBSET DOMAIN Objects, NEW S \in SUBSET U, NEW T \in SUBSET U, S \cap T = {}
  PROVE  Cardinality(S) + Cardinality(T) <= Cardinality(U)
<1>1. IsFiniteSet(S) /\ IsFiniteSet(T) /\ IsFiniteSet(U)
  BY ObjectsInOrder, FS_Subset
<1>2. Cardinality(S) \in Nat /\ Cardinality(T) \in Nat /\ Cardinality(U) \in Nat
  BY <1>1, FS_CardinalityType
<1>3. Cardinality(S \cup T) = Cardinality(S) + Cardinality(T) - Cardinality(S \cap T)
  BY <1>1, FS_Union
<1>4. Cardinality(S \cap T) = 0
  BY FS_EmptySet
<1>5. Cardinality(S \cup T) <= Cardinality(U)
  <2>1. S \cup T \in SUBSET U
    OBVIOUS
  <2> QED
    BY <1>1, <2>1, FS_Subset
<1> QED
  BY <1>2, <1>3, <1>4, <1>5

LEMMA Parts ==
  ASSUME NEW k \in DOMAIN Objects
  PROVE  /\ Firsts \in SUBSET DOMAIN Objects
         /\ NamesBefore(k) \in SUBSET DOMAIN Objects /\ NamesBefore(k) \in SUBSET Firsts
         /\ LinesBefore(k) \in SUBSET DOMAIN Objects /\ UpTo(k) \in SUBSET DOMAIN Objects
         /\ Cardinality(Firsts) \in Nat /\ Cardinality(NamesBefore(k)) \in Nat
         /\ Cardinality(LinesBefore(k)) \in Nat /\ Cardinality(UpTo(k)) \in Nat
         /\ Cardinality(UpTo(k)) > 0
         /\ HeadingAt(k) \in Nat /\ HeadingAt(k) >= 3
<1>1. /\ Firsts \in SUBSET DOMAIN Objects
      /\ NamesBefore(k) \in SUBSET DOMAIN Objects /\ NamesBefore(k) \in SUBSET Firsts
      /\ LinesBefore(k) \in SUBSET DOMAIN Objects /\ UpTo(k) \in SUBSET DOMAIN Objects
  BY DEF Firsts, NamesBefore, LinesBefore, UpTo
<1>2. /\ Cardinality(Firsts) \in Nat /\ Cardinality(NamesBefore(k)) \in Nat
      /\ Cardinality(LinesBefore(k)) \in Nat /\ Cardinality(UpTo(k)) \in Nat
  BY <1>1, CountOfPart
<1>3. Cardinality(UpTo(k)) > 0
  <2>1. k \in UpTo(k)
    BY ObjectsInOrder DEF UpTo
  <2>2. IsFiniteSet(UpTo(k))
    BY <1>1, CountOfPart
  <2>3. Cardinality(UpTo(k)) # 0
    BY <2>1, <2>2, FS_EmptySet
  <2> QED
    BY <1>2, <2>3
<1>4. HeadingAt(k) \in Nat /\ HeadingAt(k) >= 3
  BY <1>2, Places
<1> QED
  BY <1>1, <1>2, <1>3, <1>4

\* A section's lines stand between its name and the next one's.
LEMMA SectionsApart ==
  ASSUME NEW k \in DOMAIN Objects, NEW f \in Firsts, First(k) < f
  PROVE  LineAt(k) < HeadingAt(f)
<1>1. PICK i : i = First(k)
  OBVIOUS
<1>2. /\ i \in DOMAIN Objects /\ i \in Firsts /\ f \in DOMAIN Objects /\ i < f
      /\ i \in Nat /\ f \in Nat
  BY <1>1, FirstIs, FirstIsFirst, ObjectsInOrder DEF Firsts
<1>3. Cardinality(NamesBefore(i)) < Cardinality(NamesBefore(f))
  <2>1. NamesBefore(i) \in SUBSET NamesBefore(f)
    <3>1. \A n \in Firsts : n \in Nat
      BY ObjectsInOrder DEF Firsts
    <3> QED
      BY <1>2, <3>1 DEF NamesBefore
  <2>2. i \in NamesBefore(f) /\ i \notin NamesBefore(i)
    BY <1>2 DEF NamesBefore
  <2> QED
    BY <1>2, <2>1, <2>2, Parts, CountOfPart
<1>4. Cardinality(LinesBefore(i)) + Cardinality(UpTo(k)) <= Cardinality(LinesBefore(f))
  <2>0. \A j \in DOMAIN Objects : First(j) \in Nat
    BY FirstIs, ObjectsInOrder
  <2>1. LinesBefore(i) \in SUBSET LinesBefore(f) /\ UpTo(k) \in SUBSET LinesBefore(f)
    BY <1>1, <1>2, <2>0 DEF LinesBefore, UpTo
  <2>2. LinesBefore(i) \cap UpTo(k) = {}
    BY <1>1, <1>2, <2>0 DEF LinesBefore, UpTo
  <2> QED
    BY <1>2, <2>1, <2>2, Parts, CountOfParts
<1>5. /\ HeadingAt(f) = 3 + Cardinality(NamesBefore(f)) + Cardinality(LinesBefore(f))
      /\ LineAt(k) = 3 + Cardinality(NamesBefore(i)) + Cardinality(LinesBefore(i)) + Cardinality(UpTo(k))
  BY <1>1, <1>2, Places
<1>6. /\ Cardinality(NamesBefore(i)) \in Nat /\ Cardinality(NamesBefore(f)) \in Nat
      /\ Cardinality(LinesBefore(i)) \in Nat /\ Cardinality(LinesBefore(f)) \in Nat
      /\ Cardinality(UpTo(k)) \in Nat
  BY <1>2, Parts
<1> QED
  BY ONLY <1>3, <1>4, <1>5, <1>6

LEMMA LinesApart ==
  ASSUME NEW j \in DOMAIN Objects, NEW k \in DOMAIN Objects, First(j) = First(k), j < k
  PROVE  LineAt(j) < LineAt(k)
<1>1. UpTo(j) \in SUBSET UpTo(k) /\ k \in UpTo(k) /\ k \notin UpTo(j)
  BY ObjectsInOrder DEF UpTo
<1>2. Cardinality(UpTo(j)) < Cardinality(UpTo(k))
  BY <1>1, Parts, CountOfPart
<1>3. HeadingAt(First(k)) \in Nat /\ Cardinality(UpTo(j)) \in Nat /\ Cardinality(UpTo(k)) \in Nat
  BY FirstIs, Parts
<1>4. /\ LineAt(j) = HeadingAt(First(k)) + Cardinality(UpTo(j))
      /\ LineAt(k) = HeadingAt(First(k)) + Cardinality(UpTo(k))
  BY Places
<1> QED
  BY ONLY <1>2, <1>3, <1>4

LEMMA LineInSection ==
  ASSUME NEW k \in DOMAIN Objects
  PROVE  /\ LineAt(k) \in Nat /\ HeadingAt(First(k)) \in Nat
         /\ HeadingAt(First(k)) < LineAt(k) /\ HeadingAt(First(k)) >= 3
<1>1. HeadingAt(First(k)) \in Nat /\ HeadingAt(First(k)) >= 3
  BY FirstIs, Parts
<1>2. Cardinality(UpTo(k)) \in Nat /\ Cardinality(UpTo(k)) > 0
  BY Parts
<1>3. LineAt(k) = HeadingAt(First(k)) + Cardinality(UpTo(k))
  BY Places
<1> QED
  BY ONLY <1>1, <1>2, <1>3

\* No two things are written to one line, and the file is long enough.
LEMMA NamesDiffer ==
  ASSUME NEW i \in Firsts, NEW f \in Firsts, HeadingAt(i) = HeadingAt(f)
  PROVE  i = f
<1>1. i \in DOMAIN Objects /\ f \in DOMAIN Objects /\ First(i) = i /\ First(f) = f
  BY DEF Firsts
<1>2. i \in Nat /\ f \in Nat
  BY <1>1, ObjectsInOrder
<1>3. i < f => HeadingAt(i) < LineAt(i) /\ LineAt(i) < HeadingAt(f)
  BY <1>1, LineInSection, SectionsApart
<1>4. f < i => HeadingAt(f) < LineAt(f) /\ LineAt(f) < HeadingAt(i)
  BY <1>1, LineInSection, SectionsApart
<1>5. HeadingAt(i) \in Nat /\ LineAt(i) \in Nat /\ LineAt(f) \in Nat
  BY <1>1, LineInSection
<1> QED
  BY ONLY <1>2, <1>3, <1>4, <1>5, HeadingAt(i) = HeadingAt(f)

LEMMA NamesAreNotLines ==
  ASSUME NEW i \in Firsts, NEW k \in DOMAIN Objects
  PROVE  HeadingAt(i) # LineAt(k)
<1>1. i \in DOMAIN Objects /\ First(i) = i /\ First(k) \in DOMAIN Objects /\ First(First(k)) = First(k)
  BY FirstIs, FirstIsFirst DEF Firsts
<1>2. i \in Nat /\ First(k) \in Nat
  BY <1>1, ObjectsInOrder
<1>3. /\ HeadingAt(i) \in Nat /\ LineAt(i) \in Nat /\ LineAt(k) \in Nat /\ HeadingAt(First(k)) \in Nat
      /\ HeadingAt(i) < LineAt(i) /\ HeadingAt(First(k)) < LineAt(k)
  BY <1>1, LineInSection
<1>4. i < First(k) => LineAt(i) < HeadingAt(First(k))
  BY <1>1, SectionsApart, FirstIsFirst
<1>5. First(k) < i => LineAt(k) < HeadingAt(i)
  BY SectionsApart
<1>6. CASE i = First(k)
  BY <1>3, <1>6
<1>7. CASE i # First(k)
  BY ONLY <1>2, <1>3, <1>4, <1>5, <1>7
<1> QED
  BY <1>6, <1>7

LEMMA LinesDiffer ==
  ASSUME NEW j \in DOMAIN Objects, NEW k \in DOMAIN Objects, LineAt(j) = LineAt(k)
  PROVE  j = k
<1>1. First(j) \in Nat /\ First(k) \in Nat /\ j \in Nat /\ k \in Nat
  BY FirstIs, ObjectsInOrder
<1>2. LineAt(j) \in Nat /\ LineAt(k) \in Nat
  BY LineInSection
<1>3. First(j) < First(k) => LineAt(j) < LineAt(k)
  <2> SUFFICES ASSUME First(j) < First(k) PROVE LineAt(j) < LineAt(k)
    OBVIOUS
  <2>1. LineAt(j) < HeadingAt(First(k))
    BY SectionsApart, FirstIsFirst
  <2>2. HeadingAt(First(k)) < LineAt(k) /\ HeadingAt(First(k)) \in Nat
    BY LineInSection
  <2> QED
    BY ONLY <1>2, <2>1, <2>2
<1>4. First(k) < First(j) => LineAt(k) < LineAt(j)
  <2> SUFFICES ASSUME First(k) < First(j) PROVE LineAt(k) < LineAt(j)
    OBVIOUS
  <2>1. LineAt(k) < HeadingAt(First(j))
    BY SectionsApart, FirstIsFirst
  <2>2. HeadingAt(First(j)) < LineAt(j) /\ HeadingAt(First(j)) \in Nat
    BY LineInSection
  <2> QED
    BY ONLY <1>2, <2>1, <2>2
<1>5. First(j) = First(k)
  BY ONLY <1>1, <1>2, <1>3, <1>4, LineAt(j) = LineAt(k)
<1>6. (j < k => LineAt(j) < LineAt(k)) /\ (k < j => LineAt(k) < LineAt(j))
  BY <1>5, LinesApart
<1> QED
  BY ONLY <1>1, <1>2, <1>6, LineAt(j) = LineAt(k)

LEMMA LongEnough ==
  ASSUME NEW k \in DOMAIN Objects
  PROVE  LineAt(k) <= 2 + Cardinality(Firsts) + Len(Objects)
<1>1. PICK i : i = First(k)
  OBVIOUS
<1>2. i \in DOMAIN Objects /\ i \in Firsts /\ i \in Nat
  BY <1>1, FirstIs, FirstIsFirst, ObjectsInOrder
<1>3. Cardinality(NamesBefore(i)) < Cardinality(Firsts)
  <2>1. i \notin NamesBefore(i)
    BY <1>2 DEF NamesBefore
  <2> QED
    BY <1>2, <2>1, Parts, CountOfPart
<1>4. Cardinality(LinesBefore(i)) + Cardinality(UpTo(k)) <= Len(Objects)
  <2>1. LinesBefore(i) \cap UpTo(k) = {}
    BY <1>1, <1>2 DEF LinesBefore, UpTo
  <2>2. DOMAIN Objects \in SUBSET DOMAIN Objects
    OBVIOUS
  <2> QED
    BY <1>2, <2>1, <2>2, Parts, CountOfParts, ObjectsInOrder
<1>5. LineAt(k) = 3 + Cardinality(NamesBefore(i)) + Cardinality(LinesBefore(i)) + Cardinality(UpTo(k))
  BY <1>1, <1>2, Places
<1>6. /\ Cardinality(NamesBefore(i)) \in Nat /\ Cardinality(LinesBefore(i)) \in Nat
      /\ Cardinality(UpTo(k)) \in Nat /\ Cardinality(Firsts) \in Nat /\ Len(Objects) \in Nat
  BY <1>2, Parts, ObjectsInOrder
<1> QED
  BY ONLY <1>3, <1>4, <1>5, <1>6

-----------------------------------------------------------------------------
(* Values and their texts.                                                 *)

\* Remainders, as the types take them.
LEMMA Remainder ==
  ASSUME NEW a \in Int, NEW size \in Nat, size > 0
  PROVE  a % size \in 0 .. size - 1
  OBVIOUS

LEMMA RemainderOfSmall ==
  ASSUME NEW size \in Nat, NEW b \in Int, 0 <= b, b < size
  PROVE  b % size = b
  OBVIOUS

LEMMA RemainderOfNegative ==
  ASSUME NEW size \in Nat, NEW b \in Int, 0 <= b, b < size
  PROVE  (b - size) % size = b
  OBVIOUS

LEMMA Halves ==
  ASSUME NEW half \in Nat, NEW size \in Nat, size = 2 * half
  PROVE  size \div 2 = half
  OBVIOUS

LEMMA TypeOfObject ==
  ASSUME NEW o \in Object
  PROVE  /\ TypeOf[o].kind \in {"bool", "signed", "unsigned", "float"}
         /\ TypeOf[o].size \in Nat
         /\ \E half \in Nat : half > 0 /\ TypeOf[o].size = 2 * half
         /\ TypeOf[o].kind = "float" => Infinity + 1 < TypeOf[o].size
         /\ Infinity \in Nat
<1>1. TypeOf[o] \in [kind : {"bool", "signed", "unsigned", "float"}, size : Nat]
  BY TypeAssumption
<1>2. PICK size \in Nat : size = TypeOf[o].size
  BY <1>1
<1>3. PICK half \in 1 .. size : size = 2 * half
  BY <1>2, TypeAssumption
<1>4. half \in Nat /\ half > 0
  BY ONLY <1>2, <1>3
<1>5. TypeOf[o].kind = "float" => Infinity + 1 < TypeOf[o].size
  BY TypeAssumption
<1> QED
  BY <1>1, <1>2, <1>3, <1>4, <1>5, TypeAssumption

\* The text of a value, and what it is read as.
ReadsBack(o, pattern) ==
  /\ FormatValue(o, pattern) \in ValueText
  /\ ParseValue(o, FormatValue(o, pattern)) # NoValue
  /\ SameValue(o, pattern, ParseValue(o, FormatValue(o, pattern)))

LEMMA BoolReadsBack ==
  ASSUME NEW o \in Object, NEW pattern \in Nat, TypeOf[o].kind = "bool"
  PROVE  ReadsBack(o, pattern)
<1>1. PICK size \in Nat : size = TypeOf[o].size /\ size > 1
  BY TypeOfObject
<1>2. PICK bytes \in Nat : bytes = pattern % size
  BY <1>1, Remainder
<1>3. FormatValue(o, pattern) = Text(IF bytes # 0 THEN "true" ELSE "false")
  BY <1>1, <1>2 DEF FormatValue
<1>4. PICK text : text = FormatValue(o, pattern)
  OBVIOUS
<1>5. /\ text \in ValueText
      /\ text.form = "word"
      /\ text.word = IF bytes # 0 THEN "true" ELSE "false"
  BY <1>3, <1>4 DEF Text, ValueText, Word
<1>6. ParseValue(o, text) = IF bytes # 0 THEN 1 ELSE 0
  <2>1. ParseValue(o, text) =
          IF text \in {Text("true"), Text("on"), Number("plain", 1)} THEN 1
          ELSE IF text \in {Text("false"), Text("off"), Number("plain", 0)} THEN 0 ELSE NoValue
    BY DEF ParseValue
  <2>2. CASE bytes # 0
    BY <1>3, <1>4, <2>1, <2>2
  <2>3. CASE bytes = 0
    <3>1. text = Text("false")
      BY <1>3, <1>4, <2>3
    <3>2. text # Text("true") /\ text # Text("on")
      BY <1>5, <2>3 DEF Text
    <3>3. text # Number("plain", 1)
      BY <1>5 DEF Number
    <3> QED
      BY <2>1, <2>3, <3>1, <3>2, <3>3
  <2> QED
    BY <2>2, <2>3
<1>7. 1 % size = 1 /\ 0 % size = 0
  BY ONLY <1>1, RemainderOfSmall
<1>8. PICK value \in {0, 1} : value = ParseValue(o, text) /\ (value = 0 <=> bytes = 0)
  BY ONLY <1>6
<1>9. value % size = value
  BY <1>7, <1>8
<1>10. SameValue(o, pattern, value)
  <2>1. SameValue(o, pattern, value) <=> ((bytes # 0) = (value % size # 0))
    BY <1>1, <1>2 DEF SameValue
  <2> QED
    BY <1>8, <1>9, <2>1
<1>11. value # NoValue
  <2>1. value \in Nat
    OBVIOUS
  <2> QED
    BY <2>1, FileAssumption
<1> QED
  BY <1>4, <1>5, <1>8, <1>10, <1>11 DEF ReadsBack

LEMMA SignedReadsBack ==
  ASSUME NEW o \in Object, NEW pattern \in Nat, TypeOf[o].kind = "signed"
  PROVE  ReadsBack(o, pattern)
<1>1. PICK half \in Nat : half > 0 /\ TypeOf[o].size = 2 * half
  BY TypeOfObject
<1>2. PICK size \in Nat : size = TypeOf[o].size /\ size = 2 * half /\ size > 0
  BY <1>1, TypeOfObject
<1>3. PICK bytes : bytes = pattern % size
  OBVIOUS
<1>4. bytes \in Int /\ 0 <= bytes /\ bytes < size
  BY ONLY <1>2, <1>3, Remainder, pattern \in Nat
<1>5. size \div 2 = half
  BY ONLY <1>2, Halves
<1>6. PICK number \in Int :
        /\ number = Signed(bytes, size)
        /\ number \in -half .. half - 1
        /\ number = bytes \/ number = bytes - size
  <2>1. Signed(bytes, size) = IF bytes < half THEN bytes ELSE bytes - size
    BY <1>5 DEF Signed
  <2>2. PICK number : number = IF bytes < half THEN bytes ELSE bytes - size
    OBVIOUS
  <2>3. number \in Int /\ number \in -half .. half - 1 /\ (number = bytes \/ number = bytes - size)
    BY ONLY <1>2, <1>4, <2>2, half \in Nat
  <2> QED
    BY <2>1, <2>2, <2>3
<1>7. number % size = bytes
  BY <1>4, <1>6, RemainderOfSmall, RemainderOfNegative
<1>8. PICK text : text = FormatValue(o, pattern)
  OBVIOUS
<1>9. text = Number("plain", number)
  BY <1>2, <1>3, <1>6, <1>8 DEF FormatValue
<1>10. text \in ValueText /\ text.form = "plain" /\ text.number = number
  BY <1>9 DEF Number, ValueText
<1>11. ParseValue(o, text) = bytes
  <2>1. InForm(text, {"plain"}, -half .. half - 1)
    BY <1>6, <1>10 DEF InForm
  <2>2. ParseValue(o, text) = IF \/ InForm(text, {"plain"}, -(size \div 2) .. size \div 2 - 1)
                                 \/ InForm(text, {"plus"}, 0 .. size \div 2 - 1)
                              THEN text.number % size ELSE NoValue
    BY <1>2 DEF ParseValue
  <2> QED
    BY <1>5, <1>7, <1>10, <2>1, <2>2
<1>12. SameValue(o, pattern, bytes)
  <2>1. bytes % size = bytes
    BY <1>4, RemainderOfSmall
  <2> QED
    BY <1>2, <1>3, <2>1 DEF SameValue
<1>13. bytes # NoValue
  <2>1. bytes \in Nat
    BY <1>4
  <2> QED
    BY <2>1, FileAssumption
<1> QED
  BY <1>8, <1>10, <1>11, <1>12, <1>13 DEF ReadsBack

LEMMA UnsignedReadsBack ==
  ASSUME NEW o \in Object, NEW pattern \in Nat, TypeOf[o].kind = "unsigned"
  PROVE  ReadsBack(o, pattern)
<1>2. PICK size \in Nat : size = TypeOf[o].size /\ size > 0
  BY TypeOfObject
<1>3. PICK bytes : bytes = pattern % size
  OBVIOUS
<1>4. bytes \in Int /\ 0 <= bytes /\ bytes < size
  BY ONLY <1>2, <1>3, Remainder, pattern \in Nat
<1>8. PICK text : text = FormatValue(o, pattern)
  OBVIOUS
<1>9. PICK form \in {"plain", "hex"} : text = Number(form, bytes)
  BY <1>2, <1>3, <1>8 DEF FormatValue
<1>10. text \in ValueText /\ text.form = form /\ text.number = bytes
  BY <1>4, <1>9 DEF Number, ValueText
<1>11. ParseValue(o, text) = bytes
  <2>1. bytes \in 0 .. size - 1
    BY ONLY <1>2, <1>4
  <2>2. InForm(text, {"plain", "plus", "hex"}, 0 .. size - 1)
    BY <1>10, <2>1 DEF InForm
  <2>3. ParseValue(o, text) = IF InForm(text, {"plain", "plus", "hex"}, 0 .. size - 1)
                              THEN text.number ELSE NoValue
    BY <1>2 DEF ParseValue
  <2> QED
    BY <1>10, <2>2, <2>3
<1>12. SameValue(o, pattern, bytes)
  <2>1. bytes % size = bytes
    BY <1>4, RemainderOfSmall
  <2> QED
    BY <1>2, <1>3, <2>1 DEF SameValue
<1>13. bytes # NoValue
  <2>1. bytes \in Nat
    BY <1>4
  <2> QED
    BY <2>1, FileAssumption
<1> QED
  BY <1>8, <1>10, <1>11, <1>12, <1>13 DEF ReadsBack

LEMMA FloatReadsBack ==
  ASSUME NEW o \in Object, NEW pattern \in Nat, TypeOf[o].kind = "float"
  PROVE  ReadsBack(o, pattern)
<1>1. Infinity \in Nat /\ Infinity + 1 < TypeOf[o].size
  BY TypeOfObject
<1>2. PICK size \in Nat : size = TypeOf[o].size /\ size > 0 /\ Infinity + 1 < size
  BY <1>1, TypeOfObject
<1>3. PICK bytes : bytes = pattern % size
  OBVIOUS
<1>4. bytes \in Int /\ 0 <= bytes /\ bytes < size /\ bytes \in Nat
  BY ONLY <1>2, <1>3, Remainder, pattern \in Nat
<1>5. PICK text : text = FormatValue(o, pattern)
  OBVIOUS
<1>6. text = IF bytes < Infinity THEN Number("plain", bytes)
             ELSE Text(IF bytes = Infinity THEN "inf" ELSE "nan")
  BY <1>2, <1>3, <1>5 DEF FormatValue
<1>7. ParseValue(o, text) =
        IF InForm(text, {"plain", "plus"}, 0 .. Infinity - 1) THEN text.number
        ELSE IF text = Text("inf") THEN Infinity
        ELSE IF text = Text("nan") THEN Infinity + 1 ELSE NoValue
  BY DEF ParseValue
<1>8. ASSUME NEW value \in Nat, value < size, ParseValue(o, text) = value, text \in ValueText,
             bytes = value \/ (bytes > Infinity /\ value > Infinity)
      PROVE  ReadsBack(o, pattern)
  <2>1. value % size = value
    BY <1>2, <1>8, RemainderOfSmall
  <2>2. SameValue(o, pattern, value)
    BY <1>2, <1>3, <1>8, <2>1 DEF SameValue
  <2>3. value # NoValue
    BY FileAssumption
  <2> QED
    BY <1>5, <1>8, <2>2, <2>3 DEF ReadsBack
<1>9. CASE bytes < Infinity
  <2>1. text = Number("plain", bytes)
    BY <1>6, <1>9
  <2>2. text \in ValueText /\ text.form = "plain" /\ text.number = bytes
    BY <1>4, <2>1 DEF Number, ValueText
  <2>3. bytes \in 0 .. Infinity - 1
    BY ONLY <1>1, <1>4, <1>9
  <2>4. ParseValue(o, text) = bytes
    BY <1>7, <2>2, <2>3 DEF InForm
  <2> QED
    BY <1>4, <1>8, <2>2, <2>4
<1>10. CASE bytes = Infinity
  <2>1. text = Text("inf")
    BY <1>1, <1>6, <1>10
  <2>2. text \in ValueText /\ text.form = "word"
    BY <2>1 DEF Text, ValueText, Word
  <2>3. ParseValue(o, text) = Infinity
    BY <1>7, <2>1, <2>2 DEF InForm
  <2> QED
    BY <1>1, <1>4, <1>8, <1>10, <2>2, <2>3
<1>11. CASE bytes > Infinity
  <2>1. text = Text("nan")
    BY <1>1, <1>4, <1>6, <1>11
  <2>2. text \in ValueText /\ text.form = "word" /\ text.word = "nan"
    BY <2>1 DEF Text, ValueText, Word
  <2>3. text # Text("inf")
    BY <2>2 DEF Text
  <2>4. ParseValue(o, text) = Infinity + 1
    BY <1>7, <2>1, <2>2, <2>3 DEF InForm
  <2>5. Infinity + 1 \in Nat /\ Infinity + 1 > Infinity
    BY ONLY <1>1
  <2> QED
    BY <1>2, <1>8, <1>11, <2>2, <2>4, <2>5
<1>12. bytes < Infinity \/ bytes = Infinity \/ bytes > Infinity
  BY ONLY <1>1, <1>4
<1> QED
  BY <1>9, <1>10, <1>11, <1>12

\* Whatever the type, a value is read back the same from its text.
LEMMA ValueReadsBack ==
  ASSUME NEW o \in Object, NEW pattern \in Nat
  PROVE  ReadsBack(o, pattern)
  BY TypeOfObject, BoolReadsBack, SignedReadsBack, UnsignedReadsBack, FloatReadsBack

-----------------------------------------------------------------------------
\* What stands where in a file that was saved.
LEMMA PlacesInFile ==
  /\ Length \in Nat /\ 2 \in 1 .. Length
  /\ \A k \in DOMAIN Objects : LineAt(k) \in 1 .. Length /\ LineAt(k) # 2
  /\ \A i \in Firsts : HeadingAt(i) \in 1 .. Length /\ HeadingAt(i) # 2
<1>1. Len(Objects) \in Nat
  BY ObjectsInOrder
<1>2. Cardinality(Firsts) \in Nat
  <2>1. Firsts \in SUBSET DOMAIN Objects
    BY DEF Firsts
  <2> QED
    BY <2>1, CountOfPart
<1>3. Length \in Nat /\ Length >= 2 /\ 2 \in 1 .. Length
  BY <1>1, <1>2 DEF Length
<1>4. ASSUME NEW k \in DOMAIN Objects
      PROVE  LineAt(k) \in 1 .. Length /\ LineAt(k) # 2 /\ LineAt(k) \in Nat
  <2>1. LineAt(k) \in Nat /\ HeadingAt(First(k)) \in Nat /\ HeadingAt(First(k)) < LineAt(k)
        /\ HeadingAt(First(k)) >= 3
    BY LineInSection
  <2>2. LineAt(k) <= Length
    BY LongEnough DEF Length
  <2> QED
    BY ONLY <1>3, <2>1, <2>2
<1>5. ASSUME NEW i \in Firsts
      PROVE  HeadingAt(i) \in 1 .. Length /\ HeadingAt(i) # 2
  <2>1. i \in DOMAIN Objects /\ First(i) = i
    BY DEF Firsts
  <2>2. LineAt(i) \in Nat /\ HeadingAt(i) \in Nat /\ HeadingAt(i) < LineAt(i) /\ HeadingAt(i) >= 3
    BY <2>1, LineInSection
  <2>3. LineAt(i) <= Length
    BY <2>1, LongEnough DEF Length
  <2> QED
    BY ONLY <1>3, <2>2, <2>3
<1> QED
  BY <1>3, <1>4, <1>5

LEMMA SavedLines ==
  ASSUME NEW table
  PROVE  /\ DOMAIN Save(table) = 1 .. Length
         /\ Save(table)[2] = EntryLine("server", Text("name"))
         /\ \A i \in Firsts : Save(table)[HeadingAt(i)] = SectionLine(SubOf(i))
         /\ \A k \in DOMAIN Objects : Save(table)[LineAt(k)] = SavedLine(table, Objects[k])
         /\ \A l \in 1 .. Length :
              \/ l = 2
              \/ \E i \in Firsts : l = HeadingAt(i)
              \/ \E k \in DOMAIN Objects : l = LineAt(k)
              \/ Save(table)[l] = Blank
<1>1. DOMAIN Save(table) = 1 .. Length
  BY DEF Save
<1>2. Save(table)[2] = EntryLine("server", Text("name"))
  <2>1. 2 \in 1 .. Length
    BY PlacesInFile
  <2>2. Save(table)[2] = WrittenAt(table, 2)
    BY <2>1 DEF Save
  <2>3. /\ ~\E i \in Firsts : HeadingAt(i) = 2
        /\ ~\E k \in DOMAIN Objects : LineAt(k) = 2
    BY PlacesInFile
  <2>4. WrittenAt(table, 2) = EntryLine("server", Text("name"))
    BY <2>3 DEF WrittenAt
  <2> QED
    BY <2>2, <2>4
<1>3. ASSUME NEW i \in Firsts PROVE Save(table)[HeadingAt(i)] = SectionLine(SubOf(i))
  <2>1. PICK l \in 1 .. Length : l = HeadingAt(i) /\ l # 2
    BY PlacesInFile
  <2>2. PICK f : f = CHOOSE n \in Firsts : HeadingAt(n) = l
    OBVIOUS
  <2>3. f \in Firsts /\ HeadingAt(f) = l
    BY <2>1, <2>2
  <2>4. f = i
    BY <2>1, <2>3, NamesDiffer
  <2>7. ~\E k \in DOMAIN Objects : LineAt(k) = l
    BY <2>1, NamesAreNotLines
  <2>5. Save(table)[l] = WrittenAt(table, l)
    BY <2>1 DEF Save
  <2>6. WrittenAt(table, l) = SectionLine(Subcategory[Objects[f]])
    BY <2>1, <2>2, <2>3, <2>7 DEF WrittenAt
  <2> QED
    BY <2>1, <2>4, <2>5, <2>6 DEF SubOf
<1>4. ASSUME NEW k \in DOMAIN Objects PROVE Save(table)[LineAt(k)] = SavedLine(table, Objects[k])
  <2>1. PICK l \in 1 .. Length : l = LineAt(k) /\ l # 2
    BY PlacesInFile
  <2>2. PICK j : j = CHOOSE n \in DOMAIN Objects : LineAt(n) = l
    OBVIOUS
  <2>3. j \in DOMAIN Objects /\ LineAt(j) = l
    BY <2>1, <2>2
  <2>4. j = k
    BY <2>1, <2>3, LinesDiffer
  <2>5. ~\E i \in Firsts : HeadingAt(i) = l
    BY <2>1, NamesAreNotLines
  <2>6. Save(table)[l] = WrittenAt(table, l)
    BY <2>1 DEF Save
  <2>7. WrittenAt(table, l) = SavedLine(table, Objects[j])
    BY <2>1, <2>2, <2>3, <2>5 DEF WrittenAt
  <2> QED
    BY <2>1, <2>4, <2>6, <2>7
<1>5. ASSUME NEW l \in 1 .. Length, l # 2, ~\E i \in Firsts : l = HeadingAt(i),
             ~\E k \in DOMAIN Objects : l = LineAt(k)
      PROVE  Save(table)[l] = Blank
  BY <1>5 DEF Save, WrittenAt
<1> QED
  BY <1>1, <1>2, <1>3, <1>4, <1>5

LEMMA LinesFormed ==
  /\ Blank \in Line
  /\ \A name \in DOMAIN Trim : SectionLine(name) \in Line
  /\ \A name \in DOMAIN Trim, text \in ValueText : EntryLine(name, text) \in Line
<1>1. Blank \in Line
  BY DEF Blank, Line
<1>2. ASSUME NEW name \in DOMAIN Trim PROVE SectionLine(name) \in Line
  BY DEF SectionLine, Line
<1>3. ASSUME NEW name \in DOMAIN Trim, NEW text \in ValueText PROVE EntryLine(name, text) \in Line
  BY DEF EntryLine, Line
<1> QED
  BY <1>1, <1>2, <1>3

\* A file that is saved is a text like others.
LEMMA SavedIsText ==
  ASSUME NEW table \in Tables
  PROVE  Save(table) \in Seq(Line)
<1>1. \A k \in DOMAIN Objects :
        /\ Objects[k] \in Object
        /\ SubOf(k) \in DOMAIN Trim /\ ParamName[Objects[k]] \in DOMAIN Trim
  BY ObjectsInOrder, FileAssumption DEF SubOf
<1>2. \A l \in 1 .. Length : Save(table)[l] \in Line
  <2> TAKE l \in 1 .. Length
  <2>1. CASE l = 2
    <3>1. "server" \in DOMAIN Trim /\ Text("name") \in ValueText
      BY FileAssumption DEF Text, ValueText, Word
    <3> QED
      BY <2>1, <3>1, SavedLines, LinesFormed
  <2>2. CASE \E i \in Firsts : l = HeadingAt(i)
    BY <1>1, <2>2, SavedLines, LinesFormed DEF Firsts
  <2>3. CASE \E k \in DOMAIN Objects : l = LineAt(k)
    <3>1. PICK k \in DOMAIN Objects : l = LineAt(k)
      BY <2>3
    <3>2. PICK o \in Object : o = Objects[k]
      BY <1>1
    <3>3. Save(table)[l] = SavedLine(table, o)
      BY <3>1, <3>2, SavedLines
    <3>4. table[o] # NoValue => table[o] \in Nat
      <4>1. table \in [Object -> Nat \cup {NoValue}]
        BY FileAssumption
      <4> QED
        BY <4>1
    <3>5. table[o] # NoValue => FormatValue(o, table[o]) \in ValueText
      BY <3>4, ValueReadsBack DEF ReadsBack
    <3>6. ParamName[o] \in DOMAIN Trim
      BY <1>1, <3>2
    <3> QED
      BY <3>3, <3>5, <3>6, LinesFormed DEF SavedLine
  <2>4. CASE Save(table)[l] = Blank
    BY <2>4, LinesFormed
  <2> QED
    BY <2>1, <2>2, <2>3, <2>4, SavedLines
<1>3. PICK text : text = Save(table)
  OBVIOUS
<1>4. text = [l \in 1 .. Length |-> text[l]]
  BY <1>3 DEF Save
<1>5. \A l \in 1 .. Length : text[l] \in Line
  BY <1>2, <1>3
<1>6. Length \in Nat
  BY PlacesInFile
<1>7. text \in Seq(Line)
  BY ONLY <1>4, <1>5, <1>6
<1> QED
  BY <1>3, <1>7

LEMMA FileInvariance == FileSpec => []FileInv
<1>1. FileInit => FileInv
  BY InitReads
<1>2. FileInv /\ [FileNext]_filevars => FileInv'
  BY NextReads, SavedIsText
<1> QED
  BY <1>1, <1>2, PTL DEF FileSpec

\* "Each subcategory and name once": of several lines that give a parameter,
\* in whatever sections of the same name, config_file::read keeps the last,
\* for any dictionary, texts and saved tables.
THEOREM LastLineCountsAlways == FileSpec => []LastLineCounts
<1>1. FileInv => LastLineCounts
  BY DEF FileInv
<1> QED
  BY FileInvariance, <1>1, PTL

\* "Lines skipped or overridden, and why": once _load_file has matched a text
\* with the dictionary, each line that gave a parameter or tried to is a row's
\* value, one of the header, or the operator is told of it or of its section.
THEOREM NothingDroppedAlways == FileSpec => []NothingDroppedSilently
  BY FileInvariance, NothingIsDropped, PTL

-----------------------------------------------------------------------------
\* What is written of a table to be loaded.
ActiveIn(table) == {o \in Loadable : table[o] # NoValue}

\* Names that read back are names.
LEMMA NamesAsRead ==
  ASSUME NamesReadBack, NEW k \in DOMAIN Objects
  PROVE  /\ Objects[k] \in Object /\ SubOf(k) \notin {NoSection, ""}
         /\ Trim[SubOf(k)] = SubOf(k) /\ Trim[ParamName[Objects[k]]] = ParamName[Objects[k]]
<1>1. PICK o \in Object : o = Objects[k]
  BY ObjectsInOrder
<1>2. Subcategory[o] \in DOMAIN Trim /\ Trim[Subcategory[o]] = Subcategory[o]
      /\ Trim[ParamName[o]] = ParamName[o]
  BY FileAssumption DEF NamesReadBack
<1>3. Trim[Subcategory[o]] \notin {NoSection, ""}
  BY <1>2, FileAssumption
<1> QED
  BY <1>1, <1>2, <1>3 DEF SubOf

\* The lines that begin sections in a file that was saved.
LEMMA SectionsSaved ==
  ASSUME NEW table, file = Save(table), NEW l \in 1 .. Length, file[l].kind = "section"
  PROVE  \E i \in Firsts : l = HeadingAt(i) /\ file[l] = SectionLine(SubOf(i))
<1>1. file[2].kind = "entry" /\ Blank.kind = "blank"
  BY SavedLines DEF EntryLine, Blank
<1>2. \A k \in DOMAIN Objects : file[LineAt(k)].kind \in {"entry", "blank"}
  <2> TAKE k \in DOMAIN Objects
  <2>1. file[LineAt(k)] = SavedLine(table, Objects[k])
    BY SavedLines
  <2> QED
    BY <2>1 DEF SavedLine, EntryLine, Blank
<1> QED
  BY <1>1, <1>2, SavedLines

\* A saved file has no other lines.
LEMMA KindsSaved ==
  ASSUME NEW table, file = Save(table), NEW l \in 1 .. Length
  PROVE  /\ file[l].kind # "junk"
         /\ file[l].kind = "entry" =>
              \/ l = 2
              \/ \E k \in DOMAIN Objects :
                   /\ l = LineAt(k) /\ Objects[k] \in ActiveIn(table)
                   /\ file[l] = EntryLine(ParamName[Objects[k]],
                                          FormatValue(Objects[k], table[Objects[k]]))
<1>1. file[2].kind = "entry" /\ Blank.kind = "blank"
  BY SavedLines DEF EntryLine, Blank
<1>2. \A i \in Firsts : file[HeadingAt(i)].kind = "section"
  <2> TAKE i \in Firsts
  <2>1. file[HeadingAt(i)] = SectionLine(SubOf(i))
    BY SavedLines
  <2> QED
    BY <2>1 DEF SectionLine
<1>3. ASSUME NEW k \in DOMAIN Objects
      PROVE  /\ file[LineAt(k)].kind \in {"entry", "blank"}
             /\ file[LineAt(k)].kind = "entry" =>
                  /\ Objects[k] \in ActiveIn(table)
                  /\ file[LineAt(k)] = EntryLine(ParamName[Objects[k]],
                                                 FormatValue(Objects[k], table[Objects[k]]))
  <2>1. file[LineAt(k)] = SavedLine(table, Objects[k])
    BY SavedLines
  <2> QED
    BY <2>1 DEF SavedLine, EntryLine, Blank, ActiveIn
<1> QED
  BY <1>1, <1>2, <1>3, SavedLines

\* The first section's name comes after the header's line.
LEMMA HeaderSaved ==
  ASSUME NEW table, file = Save(table)
  PROVE  SectionOf(2) = NoSection
<1>1. \A k \in 1 .. 1 : k = 1
  OBVIOUS
<1>2. 1 \in 1 .. Length
  <2>1. Length \in Nat /\ 2 \in 1 .. Length
    BY PlacesInFile
  <2> QED
    BY ONLY <2>1
<1>3. file[1].kind # "section"
  <2>1. \A i \in Firsts : HeadingAt(i) # 1
    <3> TAKE i \in Firsts
    <3>1. HeadingAt(i) \in Nat /\ HeadingAt(i) >= 3
      BY Parts DEF Firsts
    <3> QED
      BY <3>1
  <2> QED
    BY <1>2, <2>1, SectionsSaved
<1>4. Begun(2) = {}
  <2>1. 2 - 1 = 1
    OBVIOUS
  <2> QED
    BY <1>1, <1>3, <2>1 DEF Begun
<1> QED
  BY <1>4, SectionByText

\* An object's line stands in the section of its subcategory.
LEMMA SectionSaved ==
  ASSUME NamesReadBack, NEW table, file = Save(table), NEW k \in DOMAIN Objects
  PROVE  SectionOf(LineAt(k)) = SubOf(k)
<1>1. PICK i : i = First(k)
  OBVIOUS
<1>2. i \in Firsts /\ i \in DOMAIN Objects /\ i \in Nat /\ SubOf(i) = SubOf(k) /\ First(i) = i
  BY <1>1, FirstIs, FirstIsFirst, ObjectsInOrder DEF Firsts
<1>3. PICK l, h : l = LineAt(k) /\ h = HeadingAt(i)
  OBVIOUS
<1>4. l \in Nat /\ h \in Nat /\ h < l /\ h >= 3 /\ l \in 1 .. Length /\ Length \in Nat
  BY <1>1, <1>3, LineInSection, PlacesInFile
<1>5. file[h] = SectionLine(SubOf(k))
  BY <1>2, <1>3, SavedLines
<1>6. h \in Begun(l)
  <2>1. h \in 1 .. l - 1
    BY ONLY <1>4
  <2> QED
    BY <1>5, <2>1 DEF Begun, SectionLine
<1>7. ASSUME NEW j \in Begun(l) PROVE j <= h /\ j \in Nat
  <2>1. j \in 1 .. l - 1 /\ file[j].kind = "section"
    BY DEF Begun
  <2>2. j \in 1 .. Length /\ j \in Nat /\ j < l
    BY ONLY <1>4, <2>1
  <2>3. PICK f \in Firsts : j = HeadingAt(f)
    BY <2>1, <2>2, SectionsSaved
  <2>4. f \in DOMAIN Objects /\ f \in Nat /\ First(f) = f
    BY ObjectsInOrder DEF Firsts
  <2>5. ~(i < f)
    <3>1. i < f => l < j
      BY <1>1, <1>3, <2>3, SectionsApart
    <3> QED
      BY ONLY <1>4, <2>2, <3>1
  <2>6. f < i => j < h
    <3>1. f < i => LineAt(f) < h
      BY <1>2, <1>3, <2>4, SectionsApart
    <3>2. j < LineAt(f) /\ LineAt(f) \in Nat
      BY <2>3, <2>4, LineInSection
    <3> QED
      BY ONLY <1>4, <2>2, <3>1, <3>2
  <2>7. f = i => j = h
    BY <1>3, <2>3
  <2> QED
    BY ONLY <1>2, <1>4, <2>2, <2>4, <2>5, <2>6, <2>7
<1>8. LastOf(Begun(l)) = h
  <2>1. PICK last : last = LastOf(Begun(l))
    OBVIOUS
  <2>2. last \in Begun(l) /\ \A j \in Begun(l) : j <= last
    BY <1>6, <1>7, <2>1 DEF LastOf
  <2>3. last <= h /\ h <= last /\ last \in Nat
    BY <1>6, <1>7, <2>2
  <2> QED
    BY <1>4, <2>1, <2>3
<1>9. file[h] # Unrecognised /\ file[h].name = SubOf(k)
  <2>1. SubOf(k) # ""
    BY NamesAsRead
  <2>2. file[h].name = SubOf(k)
    BY <1>5 DEF SectionLine
  <2>3. Unrecognised.name = ""
    BY DEF Unrecognised, SectionLine
  <2> QED
    BY <2>1, <2>2, <2>3
<1>10. SectionOf(l) = Trim[SubOf(k)]
  BY <1>6, <1>8, <1>9, SectionByText
<1> QED
  BY <1>3, <1>10, NamesAsRead

\* A line that gives a parameter is an object's, and gives its name and value.
GivesObject(l, k, table) ==
  /\ k \in DOMAIN Objects /\ l = LineAt(k)
  /\ Objects[k] \in ActiveIn(table)
  /\ KeyOf(l) = Key(Objects[k])
  /\ file[l].value = FormatValue(Objects[k], table[Objects[k]])

LEMMA EntrySaved ==
  ASSUME NamesReadBack, NEW table, file = Save(table), NEW l \in 1 .. Length,
         file[l].kind = "entry", SectionOf(l) # NoSection
  PROVE  \E k : GivesObject(l, k, table)
<1>1. l # 2
  BY HeaderSaved
<1>2. PICK k \in DOMAIN Objects :
        /\ l = LineAt(k) /\ Objects[k] \in ActiveIn(table)
        /\ file[l] = EntryLine(ParamName[Objects[k]], FormatValue(Objects[k], table[Objects[k]]))
  BY <1>1, KindsSaved
<1>3. SectionOf(l) = SubOf(k) /\ Trim[ParamName[Objects[k]]] = ParamName[Objects[k]]
  BY <1>2, SectionSaved, NamesAsRead
<1>4. file[l].key = ParamName[Objects[k]]
      /\ file[l].value = FormatValue(Objects[k], table[Objects[k]])
  BY <1>2 DEF EntryLine
<1>5. KeyOf(l) = Key(Objects[k])
  BY <1>3, <1>4 DEF KeyOf, Key, SubOf
<1> QED
  BY <1>2, <1>4, <1>5 DEF GivesObject

\* Each object has such a line if it is to be loaded.
LEMMA ObjectSaved ==
  ASSUME NamesReadBack, NEW table, file = Save(table), NEW o \in ActiveIn(table)
  PROVE  \E l \in 1 .. Length :
           /\ file[l].kind = "entry" /\ SectionOf(l) \notin {NoSection, ""}
           /\ KeyOf(l) = Key(o)
<1>1. o \in Object
  BY FileAssumption DEF ActiveIn
<1>2. PICK k \in DOMAIN Objects : Objects[k] = o
  BY <1>1, FileAssumption
<1>3. PICK l \in 1 .. Length : l = LineAt(k)
  BY PlacesInFile
<1>4. file[l] = EntryLine(ParamName[o], FormatValue(o, table[o]))
  <2>1. file[l] = SavedLine(table, o)
    BY <1>2, <1>3, SavedLines
  <2> QED
    BY <2>1 DEF SavedLine, ActiveIn
<1>5. file[l].kind = "entry"
  BY <1>4 DEF EntryLine
<1>6. SectionOf(l) \notin {NoSection, ""}
  BY <1>3, SectionSaved, NamesAsRead
<1>7. PICK j : GivesObject(l, j, table)
  BY <1>5, <1>6, EntrySaved
<1>8. j = k /\ KeyOf(l) = Key(o)
  BY <1>2, <1>3, <1>7, LinesDiffer DEF GivesObject
<1> QED
  BY <1>5, <1>6, <1>8

\* No line gives what another gave.
LEMMA GivenOnce ==
  ASSUME NamesReadBack, NEW table, NEW l, NEW m, NEW j, NEW k, GivesObject(l, j, table), GivesObject(m, k, table),
         KeyOf(l) = KeyOf(m)
  PROVE  l = m /\ j = k
<1>1. Objects[j] \in Object /\ Objects[k] \in Object /\ j \in DOMAIN Objects /\ k \in DOMAIN Objects
  BY ObjectsInOrder DEF GivesObject
<1>2. Key(Objects[j]) = Key(Objects[k])
  BY DEF GivesObject
<1>3. Objects[j] = Objects[k]
  BY <1>1, <1>2 DEF NamesReadBack
<1>4. j = k
  BY <1>1, <1>3, FileAssumption
<1> QED
  BY <1>4 DEF GivesObject

-----------------------------------------------------------------------------
\* What is read back of a table.
Restored ==
  /\ DOMAIN file_values = {o \in Loadable : saved[o] # NoValue}
  /\ \A o \in DOMAIN file_values : SameValue(o, saved[o], file_values[o])
  /\ noted = {}

\* A file that was saved has given no cause for a note yet.
SavedInv ==
  /\ at = "idle" => saved = NoValue /\ noted = {}
  /\ saved # NoValue =>
       /\ saved \in Tables
       /\ file = Save(saved)
       /\ at = "reading" => noted = {}
       /\ at = "matched" => Restored

LEMMA SavedOpens == ASSUME SavedInv, OpenFile PROVE SavedInv'
<1>1. at = "idle" /\ at' = "reading" /\ noted' = noted /\ noted = {} /\ saved = NoValue
  BY DEF SavedInv, OpenFile
<1>2. saved' # NoValue => saved' \in Tables /\ file' = Save(saved')
  BY <1>1 DEF OpenFile
<1> QED
  BY <1>1, <1>2 DEF SavedInv

LEMMA SavedReturns == ASSUME SavedInv, Return PROVE SavedInv'
  BY DEF SavedInv, Return

\* What reading a line keeps if nothing is noted.
LEMMA SavedReading ==
  ASSUME SavedInv, FileInv, NEW kind, ReadsLine(kind), saved # NoValue => noted' = noted
  PROVE  SavedInv'
<1>1. at = "reading" /\ at' = at /\ file' = file /\ saved' = saved
  BY LineIsRead
<1> QED
  BY <1>1 DEF SavedInv

LEMMA SavedNextLine ==
  ASSUME SavedInv, FileInv, NEW kind, ReadsLine(kind), saved # NoValue
  PROVE  /\ saved \in Tables /\ file = Save(saved) /\ line + 1 \in 1 .. Length
         /\ file[line + 1].kind = kind
<1>1. saved \in Tables /\ file = Save(saved)
  BY DEF SavedInv
<1>2. line + 1 \in DOMAIN file /\ file[line + 1].kind = kind
  BY LineIsRead
<1> QED
  BY <1>1, <1>2, SavedLines

LEMMA SavedSection == ASSUME NamesReadBack, SavedInv, FileInv, ReadSection PROVE SavedInv'
<1>1. ReadsLine("section")
  BY DEF ReadSection
<1>2. ASSUME saved # NoValue PROVE noted' = noted
  <2>1. PICK n : n = line + 1
    OBVIOUS
  <2>2. file = Save(saved) /\ n \in 1 .. Length /\ file[n].kind = "section"
    BY <1>1, <1>2, <2>1, SavedNextLine
  <2>3. PICK i \in Firsts : file[n] = SectionLine(SubOf(i))
    BY <2>2, SectionsSaved
  <2>4. SubOf(i) # ""
    BY NamesAsRead DEF Firsts
  <2>5. file[n].name # ""
    <3>1. file[n].name = SubOf(i)
      BY <2>3 DEF SectionLine
    <3> QED
      BY <2>4, <3>1
  <2> QED
    BY <2>1, <2>5 DEF ReadSection
<1> QED
  BY <1>1, <1>2, SavedReading

LEMMA SavedJunk == ASSUME SavedInv, FileInv, ReadJunk PROVE SavedInv'
<1>1. ReadsLine("junk")
  BY DEF ReadJunk
<1>2. ~(saved # NoValue)
  <2> SUFFICES ASSUME saved # NoValue PROVE FALSE
    OBVIOUS
  <2>1. PICK n : n = line + 1
    OBVIOUS
  <2>2. file = Save(saved) /\ n \in 1 .. Length /\ file[n].kind = "junk"
    BY <1>1, <2>1, SavedNextLine
  <2> QED
    BY <2>2, KindsSaved
<1> QED
  BY <1>1, <1>2, SavedReading

LEMMA SavedEntry == ASSUME NamesReadBack, SavedInv, FileInv, ReadEntry PROVE SavedInv'
<1>1. ReadsLine("entry")
  BY DEF ReadEntry
<1>2. ASSUME saved # NoValue PROVE noted' = noted
  <2>1. PICK n \in Nat : n = line + 1
    BY <1>1, NextLine
  <2>2. file = Save(saved) /\ n \in 1 .. Length /\ file[n].kind = "entry" /\ section = SectionOf(n)
        /\ LastLineCounts /\ line \in Nat
    BY <1>1, <1>2, <2>1, SavedNextLine, NextLine DEF FileInv
  <2>3. CASE section = NoSection \/ section = ""
    BY <2>3, FileAssumption DEF ReadEntry
  <2>4. CASE section \notin {NoSection, ""}
    <3>1. PICK key : key = KeyOf(n) /\ key = <<section, Trim[file[n].key]>>
      BY <2>2 DEF KeyOf
    <3>2. key \notin DOMAIN parameters
      <4> SUFFICES ASSUME key \in DOMAIN parameters PROVE FALSE
        OBVIOUS
      <4>1. PICK l \in ParameterLines : KeyOf(l) = key
        BY <2>2 DEF LastLineCounts
      <4>2. l \in 1 .. line /\ file[l].kind = "entry" /\ SectionOf(l) # NoSection
        BY DEF ParameterLines
      <4>3. l \in 1 .. Length /\ l # n
        <5>1. Length \in Nat
          BY PlacesInFile
        <5> QED
          BY ONLY <2>1, <2>2, <4>2, <5>1
      <4>4. PICK j : GivesObject(l, j, saved)
        BY <2>2, <4>2, <4>3, EntrySaved
      <4>5. PICK k : GivesObject(n, k, saved)
        BY <2>2, <2>4, EntrySaved
      <4> QED
        BY <3>1, <4>1, <4>3, <4>4, <4>5, GivenOnce
    <3> QED
      BY <2>1, <2>4, <3>1, <3>2 DEF ReadEntry
  <2> QED
    BY <2>3, <2>4
<1> QED
  BY <1>1, <1>2, SavedReading

\* All of a saved file is read: its parameters are what was written to be
\* loaded.
LEMMA AllIsGiven ==
  ASSUME NamesReadBack, FileInv, NEW table \in Tables, file = Save(table), line = Len(file)
  PROVE  /\ DOMAIN parameters = {Key(o) : o \in ActiveIn(table)}
         /\ \A o \in ActiveIn(table) :
              parameters[Key(o)].value = FormatValue(o, table[o])
<1>1. line = Length
  <2>1. file \in Seq(Line) /\ DOMAIN file = 1 .. Length /\ Length \in Nat
    BY SavedLines, PlacesInFile DEF FileInv
  <2>2. Len(file) \in Nat /\ DOMAIN file = 1 .. Len(file)
    BY <2>1
  <2>3. PICK n \in Nat, m \in Nat : n = Len(file) /\ m = Length /\ 1 .. n = 1 .. m
    BY <2>1, <2>2
  <2>4. n = m
    <3>1. n > m => n \in 1 .. n /\ n \notin 1 .. m
      BY ONLY n \in Nat, m \in Nat
    <3>2. m > n => m \in 1 .. m /\ m \notin 1 .. n
      BY ONLY n \in Nat, m \in Nat
    <3>3. ~(n > m) /\ ~(m > n)
      BY <2>3, <3>1, <3>2
    <3> QED
      BY ONLY n \in Nat, m \in Nat, <3>3
  <2> QED
    BY <2>3, <2>4
<1>2. LastLineCounts
  BY DEF FileInv
<1>3. ASSUME NEW l \in ParameterLines PROVE \E k : GivesObject(l, k, table)
  <2>1. l \in 1 .. Length /\ file[l].kind = "entry" /\ SectionOf(l) # NoSection
    BY <1>1 DEF ParameterLines
  <2> QED
    BY <2>1, EntrySaved
<1>4. ASSUME NEW o \in ActiveIn(table) PROVE \E l \in ParameterLines : KeyOf(l) = Key(o)
  <2>1. PICK l \in 1 .. Length : file[l].kind = "entry" /\ SectionOf(l) \notin {NoSection, ""} /\ KeyOf(l) = Key(o)
    BY ObjectSaved
  <2>2. l \in ParameterLines
    BY <1>1, <2>1 DEF ParameterLines
  <2> QED
    BY <2>1, <2>2
<1>5. DOMAIN parameters = {Key(o) : o \in ActiveIn(table)}
  <2>1. DOMAIN parameters = {KeyOf(l) : l \in ParameterLines}
    BY <1>2 DEF LastLineCounts
  <2>2. \A l \in ParameterLines : KeyOf(l) \in {Key(o) : o \in ActiveIn(table)}
    <3> TAKE l \in ParameterLines
    <3>1. PICK k : GivesObject(l, k, table)
      BY <1>3
    <3>2. Objects[k] \in ActiveIn(table) /\ KeyOf(l) = Key(Objects[k])
      BY <3>1 DEF GivesObject
    <3> QED
      BY <3>2
  <2>3. \A o \in ActiveIn(table) : Key(o) \in {KeyOf(l) : l \in ParameterLines}
    <3> TAKE o \in ActiveIn(table)
    <3>1. PICK l \in ParameterLines : KeyOf(l) = Key(o)
      BY <1>4
    <3> QED
      BY <3>1
  <2> QED
    BY <2>1, <2>2, <2>3
<1>6. ASSUME NEW o \in ActiveIn(table)
      PROVE  parameters[Key(o)].value = FormatValue(o, table[o])
  <2>1. Key(o) \in DOMAIN parameters
    BY <1>5
  <2>2. PICK l : l = parameters[Key(o)].line
    OBVIOUS
  <2>3. l \in ParameterLines /\ KeyOf(l) = Key(o) /\ parameters[Key(o)].value = file[l].value
    BY <1>2, <2>1, <2>2 DEF LastLineCounts
  <2>4. PICK k : GivesObject(l, k, table)
    BY <1>3, <2>3
  <2>5. o = Objects[k]
    <3>1. o \in Object /\ Objects[k] \in Object /\ Key(Objects[k]) = Key(o)
      BY <2>3, <2>4, FileAssumption DEF GivesObject, ActiveIn
    <3> QED
      BY <3>1 DEF NamesReadBack
  <2> QED
    BY <2>3, <2>4, <2>5 DEF GivesObject
<1> QED
  BY <1>5, <1>6

\* It is made out again, and is the same.
LEMMA TableIsTaken ==
  ASSUME NamesReadBack, FileInv, NEW table \in Tables, file = Save(table), line = Len(file)
  PROVE  /\ Taken = ActiveIn(table)
         /\ DOMAIN parameters = {Key(o) : o \in Taken}
         /\ \A o \in Taken : SameValue(o, table[o], Made[o])
<1>0. /\ DOMAIN parameters = {Key(o) : o \in ActiveIn(table)}
      /\ \A o \in ActiveIn(table) : parameters[Key(o)].value = FormatValue(o, table[o])
  BY AllIsGiven
<1>1. Found = ActiveIn(table)
  <2>1. \A o \in Found : o \in ActiveIn(table)
    <3> TAKE o \in Found
    <3>1. o \in Object /\ Key(o) \in DOMAIN parameters
      BY DEF Found
    <3>2. PICK p \in ActiveIn(table) : Key(o) = Key(p)
      BY <3>1, <1>0
    <3>3. p \in Object
      BY FileAssumption DEF ActiveIn
    <3> QED
      BY <3>1, <3>2, <3>3 DEF NamesReadBack
  <2>2. \A o \in ActiveIn(table) : o \in Found
    BY <1>0, FileAssumption DEF Found, ActiveIn
  <2> QED
    BY <2>1, <2>2
<1>2. ASSUME NEW o \in ActiveIn(table)
      PROVE  o \in Loadable /\ Made[o] # NoValue /\ SameValue(o, table[o], Made[o])
  <2>1. o \in Loadable /\ o \in Object /\ table[o] # NoValue
    BY FileAssumption DEF ActiveIn
  <2>2. table[o] \in Nat
    <3>1. table \in [Object -> Nat \cup {NoValue}]
      BY FileAssumption
    <3> QED
      BY <2>1, <3>1
  <2>3. Made[o] = ParseValue(o, FormatValue(o, table[o]))
    <3>1. Made[o] = ParseValue(o, parameters[Key(o)].value)
      BY <1>1 DEF Made
    <3> QED
      BY <3>1, <1>0
  <2> QED
    BY <2>1, <2>2, <2>3, ValueReadsBack DEF ReadsBack
<1>3. Taken = ActiveIn(table)
  BY <1>1, <1>2 DEF Taken
<1> QED
  BY <1>0, <1>2, <1>3

LEMMA SavedMatches == ASSUME NamesReadBack, SavedInv, FileInv, MatchFile PROVE SavedInv'
<1>1. /\ at = "reading" /\ line = Len(file) /\ at' = "matched"
      /\ UNCHANGED <<saved, file, line, section, header, parameters>>
  BY DEF MatchFile
<1>2. /\ file_values' = [o \in Taken |-> Made[o]]
      /\ noted' = noted \cup {parameters[key].line : key \in DOMAIN parameters \ {Key(o) : o \in Taken}}
  BY DEF MatchFile, Taken, Made, Found
<1>3. ASSUME saved # NoValue
      PROVE  saved \in Tables /\ file = Save(saved) /\ Restored'
  <2>1. PICK table : table = saved
    OBVIOUS
  <2>2. table \in Tables /\ file = Save(table) /\ noted = {}
    BY <1>1, <1>3, <2>1 DEF SavedInv
  <2>3. /\ Taken = ActiveIn(table)
        /\ DOMAIN parameters = {Key(o) : o \in Taken}
        /\ \A o \in Taken : SameValue(o, table[o], Made[o])
    BY <1>1, <2>2, TableIsTaken
  <2>4. noted' = {}
    BY <1>2, <2>2, <2>3
  <2>5. DOMAIN file_values' = ActiveIn(table) /\ \A o \in Taken : file_values'[o] = Made[o]
    BY <1>2, <2>3
  <2>6. saved' = table
    BY <1>1, <2>1
  <2> QED
    BY <2>1, <2>2, <2>3, <2>4, <2>5, <2>6 DEF Restored, ActiveIn
<1> QED
  BY <1>1, <1>3 DEF SavedInv

LEMMA SavedNext ==
  ASSUME NamesReadBack, SavedInv, FileInv, [FileNext]_filevars
  PROVE  SavedInv'
<1>1. CASE UNCHANGED filevars
  BY <1>1 DEF filevars, SavedInv, Restored
<1>2. CASE ReadBlank
  BY <1>2, SavedReading DEF ReadBlank
<1> QED
  BY <1>1, <1>2, SavedOpens, SavedSection, SavedJunk, SavedEntry, SavedMatches, SavedReturns
  DEF FileNext

\* "Values are written the way they read back": a file that was saved gives
\* back every value that can be written, the same as it was, nothing else, and
\* no note, for any dictionary whose names read back, types and values.  Of one
\* whose names do not it is false, as the file of such a dictionary shows.
THEOREM SavedReadsBackAlways ==
  ASSUME NamesReadBack
  PROVE  FileSpec => []SavedReadsBack
<1>1. FileInit => SavedInv
  BY DEF FileInit, SavedInv
<1>2. SavedInv /\ FileInv /\ [FileNext]_filevars => SavedInv'
  BY SavedNext
<1>3. SavedInv => SavedReadsBack
  BY DEF SavedInv, SavedReadsBack, Restored
<1> QED
  BY FileInvariance, <1>1, <1>2, <1>3, PTL DEF FileSpec
=============================================================================
