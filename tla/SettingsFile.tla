----------------------------- MODULE SettingsFile -----------------------------
(***************************************************************************)
(* config_file and its use by ServerSetupPanel: a table of values saved as *)
(* a text, and a text, saved or written by hand, read line by line and     *)
(* matched with the dictionary.                                            *)
(*                                                                         *)
(* A line stands for what its characters make it: "blank" (also a          *)
(* comment), "section", "entry" (name = value) or "junk".  A value's text  *)
(* is a word or a number in one of the forms people write.  charconv is    *)
(* modelled by what it promises: a number is read exactly or refused, and  *)
(* a float's shortest text gives the same float back.  Floats are their    *)
(* patterns, in order; their sign is left out.                             *)
(***************************************************************************)
EXTENDS Integers, Sequences, FiniteSets

CONSTANTS
  Object,       \* the readable parameters of the dictionary
  Objects,      \* the same in the dictionary's order
  Subcategory,  \* the subcategory of each
  ParamName,    \* the name of each
  TypeOf,       \* the data_type of each: its kind, and the number of its values
  Hex,          \* those whose unit is "hex"
  Loadable,     \* those with write permission
  Trim,         \* trim, as a function on names
  Infinity,     \* the float pattern of infinity; what is above is not a number
  Tolerance,    \* the patterns by which same floats may differ
  HandWritten,  \* the texts people write
  Tables,       \* the tables saved: what was read of each object
  NoValue,      \* a value that was not read, or cannot be made out
  NoSection     \* the section of the header's lines

\* The kinds of lines, and of values' texts: the words some type knows, and
\* the server's name for all others.
Word == {"true", "on", "false", "off", "inf", "nan", "name"}
ValueText == [form : {"plain", "plus", "hex"}, number : Int] \cup [form : {"word"}, word : Word]
Line ==
  [kind : {"blank", "junk"}] \cup [kind : {"section"}, name : DOMAIN Trim \cup {""}]
  \cup [kind : {"entry"}, key : DOMAIN Trim, value : ValueText]

ASSUME FileAssumption ==
  /\ Loadable \subseteq Object
  /\ NoSection # ""
  /\ \A name \in DOMAIN Trim : Trim[name] \notin {NoSection, ""}
  /\ Objects \in Seq(Object)
  /\ \A o \in Object : \E k \in DOMAIN Objects : Objects[k] = o
  /\ \A j, k \in DOMAIN Objects : Objects[j] = Objects[k] => j = k
  /\ {Subcategory, ParamName} \subseteq [Object -> DOMAIN Trim]
  /\ "server" \in DOMAIN Trim
  /\ HandWritten \subseteq Seq(Line)
  /\ Tables \subseteq [Object -> Nat \cup {NoValue}]
  /\ NoValue \notin Nat

\* A type has as many negative values as others, and a float's pattern of a
\* number that is none.
ASSUME TypeAssumption ==
  /\ Infinity \in Nat
  /\ Tolerance \in Nat
  /\ \A o \in Object :
       /\ TypeOf[o] \in [kind : {"bool", "signed", "unsigned", "float"}, size : Nat]
       /\ \E half \in 1 .. TypeOf[o].size : TypeOf[o].size = 2 * half
       /\ TypeOf[o].kind = "float" => Infinity + 1 < TypeOf[o].size

VARIABLES
  at,          \* "idle", "reading" the file, or "matched" with the dictionary
  saved,       \* history: the table the file was saved from, or NoValue
  file,        \* the lines
  line,        \* how many of them have been read
  section,     \* the section they end in
  header,      \* the lines taken for the header
  parameters,  \* contents.parameters, by subcategory and name
  noted,        \* the lines the operator is told are not taken, and why
  file_values  \* the rows of the table: the file's value for each object it has

filevars == <<at, saved, file, line, section, header, parameters, noted, file_values>>

Blank == [kind |-> "blank"]
Junk == [kind |-> "junk"]
SectionLine(name) == [kind |-> "section", name |-> name]
EntryLine(key, value) == [kind |-> "entry", key |-> key, value |-> value]

\* A line that begins a section without a name: it is not recognised.
Unrecognised == SectionLine("")

-----------------------------------------------------------------------------
(* Values as texts.                                                        *)

Number(form, number) == [form |-> form, number |-> number]
Text(word) == [form |-> "word", word |-> word]

Signed(pattern, size) == IF pattern < size \div 2 THEN pattern ELSE pattern - size

\* format_value looks at the bytes of the type alone.
FormatValue(o, pattern) ==
  LET bytes == pattern % TypeOf[o].size IN
    CASE TypeOf[o].kind = "bool" -> Text(IF bytes # 0 THEN "true" ELSE "false")
      [] TypeOf[o].kind = "signed" -> Number("plain", Signed(bytes, TypeOf[o].size))
      [] TypeOf[o].kind = "unsigned" -> Number(IF o \in Hex THEN "hex" ELSE "plain", bytes)
      [] TypeOf[o].kind = "float" ->
           IF bytes < Infinity THEN Number("plain", bytes)
           ELSE Text(IF bytes = Infinity THEN "inf" ELSE "nan")

\* A number in one of the forms, within the range, or nothing.
InForm(text, forms, range) == text.form \in forms /\ text.number \in range

\* parse_value: the whole text must be a value of the type.  A plus sign goes
\* before a number without a sign.
ParseValue(o, text) ==
  LET size == TypeOf[o].size IN
    CASE TypeOf[o].kind = "bool" ->
           IF text \in {Text("true"), Text("on"), Number("plain", 1)} THEN 1
           ELSE IF text \in {Text("false"), Text("off"), Number("plain", 0)} THEN 0 ELSE NoValue
      [] TypeOf[o].kind = "signed" ->
           IF \/ InForm(text, {"plain"}, -(size \div 2) .. size \div 2 - 1)
              \/ InForm(text, {"plus"}, 0 .. size \div 2 - 1)
           THEN text.number % size ELSE NoValue
      [] TypeOf[o].kind = "unsigned" ->
           IF InForm(text, {"plain", "plus", "hex"}, 0 .. size - 1) THEN text.number ELSE NoValue
      [] TypeOf[o].kind = "float" ->
           IF InForm(text, {"plain", "plus"}, 0 .. Infinity - 1) THEN text.number
           ELSE IF text = Text("inf") THEN Infinity
           ELSE IF text = Text("nan") THEN Infinity + 1 ELSE NoValue

\* same_value: also by the bytes of the type, floats with a tolerance.
SameValue(o, a, b) ==
  LET x == a % TypeOf[o].size
      y == b % TypeOf[o].size
  IN CASE TypeOf[o].kind = "bool" -> (x # 0) = (y # 0)
       [] TypeOf[o].kind \in {"signed", "unsigned"} -> x = y
       [] TypeOf[o].kind = "float" ->
            \/ x = y
            \/ x < Infinity /\ y < Infinity /\ x - y \in -Tolerance .. Tolerance
            \/ x > Infinity /\ y > Infinity

-----------------------------------------------------------------------------
(* Saving.                                                                 *)

\* The subcategories come in the order of their first objects, from which they
\* are told here.
First(k) ==
  CHOOSE i \in DOMAIN Objects :
    /\ Subcategory[Objects[i]] = Subcategory[Objects[k]]
    /\ \A j \in 1 .. i - 1 : Subcategory[Objects[j]] # Subcategory[Objects[k]]
Firsts == {i \in DOMAIN Objects : First(i) = i}

\* A section follows those before it; its objects follow its name.
HeadingAt(i) ==
  3 + Cardinality({f \in Firsts : f < i}) + Cardinality({j \in DOMAIN Objects : First(j) < i})
LineAt(k) ==
  HeadingAt(First(k)) + Cardinality({j \in DOMAIN Objects : First(j) = First(k) /\ j <= k})

\* Mutant: what is for reading only is saved like everything else.
SavedLineActive(table, o) ==
  IF table[o] # NoValue THEN EntryLine(ParamName[o], FormatValue(o, table[o])) ELSE Blank

\* Read-only parameters and those not read go in as comments.
SavedLine(table, o) ==
  IF table[o] # NoValue /\ o \in Loadable
  THEN EntryLine(ParamName[o], FormatValue(o, table[o]))
  ELSE Blank

Length == 2 + Cardinality(Firsts) + Len(Objects)

\* write, after its own comment and the header (of which the server's name
\* stands for all), by the places of the lines
WrittenAt(table, l) ==
  CASE l = 2 -> EntryLine("server", Text("name"))
    [] \E i \in Firsts : HeadingAt(i) = l ->
         SectionLine(Subcategory[Objects[CHOOSE i \in Firsts : HeadingAt(i) = l]])
    [] \E k \in DOMAIN Objects : LineAt(k) = l ->
         SavedLine(table, Objects[CHOOSE k \in DOMAIN Objects : LineAt(k) = l])
    [] OTHER -> Blank
Save(table) == [l \in 1 .. Length |-> WrittenAt(table, l)]

-----------------------------------------------------------------------------
(* Reading.                                                                *)

FileInit ==
  /\ at = "idle"
  /\ saved = NoValue
  /\ file = << >>
  /\ line = 0
  /\ section = NoSection
  /\ header = {}
  /\ parameters = << >>
  /\ noted = {}
  /\ file_values = << >>

\* The operator loads a file, one that was saved from a table or not.
OpenFile ==
  /\ at = "idle"
  /\ at' = "reading"
  /\ \/ \E table \in Tables : saved' = table /\ file' = Save(table)
     \/ \E text \in HandWritten : file' = text /\ UNCHANGED saved
  /\ UNCHANGED <<line, section, header, parameters, noted, file_values>>

\* getline
ReadsLine(kind) ==
  /\ at = "reading"
  /\ line < Len(file)
  /\ file[line + 1].kind = kind
  /\ line' = line + 1
  /\ UNCHANGED <<at, saved, file, file_values>>

ReadBlank == ReadsLine("blank") /\ UNCHANGED <<section, header, parameters, noted>>

\* A line that begins with a bracket; one not recognised takes what follows
\* with it.
ReadSection ==
  /\ ReadsLine("section")
  /\ LET name == file[line + 1].name IN
       /\ section' = IF name = "" THEN "" ELSE Trim[name]
       /\ noted' = IF name = "" THEN noted \cup {line + 1} ELSE noted
  /\ UNCHANGED <<header, parameters>>

ReadJunk ==
  /\ ReadsLine("junk")
  /\ noted' = IF section = "" THEN noted ELSE noted \cup {line + 1}
  /\ UNCHANGED <<section, header, parameters>>

\* Mutant: the first line of a parameter counts.
ReadEntryFirst ==
  /\ ReadsLine("entry")
  /\ LET key == <<section, Trim[file[line + 1].key]>> IN
       CASE section = NoSection ->
              header' = header \cup {line + 1} /\ UNCHANGED <<parameters, noted>>
         [] section = "" -> UNCHANGED <<header, parameters, noted>>
         [] section \notin {NoSection, ""} ->
              /\ IF key \in DOMAIN parameters
                 THEN noted' = noted \cup {line + 1} /\ UNCHANGED parameters
                 ELSE /\ parameters' = [k \in DOMAIN parameters \cup {key} |->
                           IF k = key THEN [value |-> file[line + 1].value, line |-> line + 1]
                           ELSE parameters[k]]
                      /\ UNCHANGED noted
              /\ UNCHANGED header
  /\ UNCHANGED section

\* A line of the header, of a section not recognised, or a parameter: one that
\* came before is overridden, and the operator is told of it.
ReadEntry ==
  /\ ReadsLine("entry")
  /\ LET key == <<section, Trim[file[line + 1].key]>> IN
       CASE section = NoSection ->
              header' = header \cup {line + 1} /\ UNCHANGED <<parameters, noted>>
         [] section = "" -> UNCHANGED <<header, parameters, noted>>
         [] section \notin {NoSection, ""} ->
              /\ parameters' = [k \in DOMAIN parameters \cup {key} |->
                   IF k = key THEN [value |-> file[line + 1].value, line |-> line + 1]
                   ELSE parameters[k]]
              /\ noted' = IF key \in DOMAIN parameters
                         THEN noted \cup {parameters[key].line} ELSE noted
              /\ UNCHANGED header
  /\ UNCHANGED section

Key(o) == <<Subcategory[o], ParamName[o]>>

\* Mutant: what the dictionary does not have is passed over.
MatchQuietly ==
  /\ at = "reading"
  /\ line = Len(file)
  /\ LET found == {o \in Object : Key(o) \in DOMAIN parameters}
         value == [o \in found |-> ParseValue(o, parameters[Key(o)].value)]
         good == {o \in found \cap Loadable : value[o] # NoValue}
     IN /\ file_values' = [o \in good |-> value[o]]
        /\ noted' = noted \cup {parameters[Key(o)].line : o \in found \ good}
  /\ at' = "matched"
  /\ UNCHANGED <<saved, file, line, section, header, parameters>>

\* _load_file: the rows are what the dictionary has, lets be written and can
\* make out; the rest is noted.
MatchFile ==
  /\ at = "reading"
  /\ line = Len(file)
  /\ LET found == {o \in Object : Key(o) \in DOMAIN parameters}
         value == [o \in found |-> ParseValue(o, parameters[Key(o)].value)]
         good == {o \in found \cap Loadable : value[o] # NoValue}
     IN /\ file_values' = [o \in good |-> value[o]]
        /\ noted' = noted \cup {parameters[key].line :
                                key \in DOMAIN parameters \ {Key(o) : o \in good}}
  /\ at' = "matched"
  /\ UNCHANGED <<saved, file, line, section, header, parameters>>

\* The contents of the file are gone when _load_file returns.
Return ==
  /\ at = "matched"
  /\ at' = "idle"
  /\ saved' = NoValue
  /\ file' = << >>
  /\ line' = 0
  /\ section' = NoSection
  /\ header' = {}
  /\ parameters' = << >>
  /\ noted' = {}
  /\ file_values' = << >>

FileNext == OpenFile \/ ReadBlank \/ ReadSection \/ ReadJunk \/ ReadEntry \/ MatchFile \/ Return

FileSpec == FileInit /\ [][FileNext]_filevars
-----------------------------------------------------------------------------
\* The section a line is in, by the text alone: the last one begun before it.
SectionOf(l) ==
  LET before == {k \in 1 .. l - 1 : file[k].kind = "section"}
      last == CHOOSE k \in before : \A j \in before : j <= k
  IN IF before = {} THEN NoSection
     ELSE IF file[last] = Unrecognised THEN "" ELSE Trim[file[last].name]

KeyOf(l) == <<SectionOf(l), Trim[file[l].key]>>

\* The lines so far that give a parameter.
ParameterLines ==
  {l \in 1 .. line : file[l].kind = "entry" /\ SectionOf(l) \notin {NoSection, ""}}

\* "each subcategory and name once", and of several lines that give it, in
\* whatever sections of the same name, the last one counts.
LastLineCounts ==
  /\ DOMAIN parameters = {KeyOf(l) : l \in ParameterLines}
  /\ \A key \in DOMAIN parameters :
       LET l == parameters[key].line IN
         /\ l \in ParameterLines
         /\ KeyOf(l) = key
         /\ parameters[key].value = file[l].value
         /\ \A later \in ParameterLines : KeyOf(later) = key => later <= l

\* Names as the file gives them back: with no blanks at their ends, and each
\* once in its subcategory.  A dictionary whose names are not, is not read back.
NamesReadBack ==
  /\ \A o \in Object : Trim[Subcategory[o]] = Subcategory[o] /\ Trim[ParamName[o]] = ParamName[o]
  /\ \A o, p \in Object : Key(o) = Key(p) => o = p

\* "Values are written the way they read back", "read-only parameters and those
\* that could not be read are there to be seen, not to be loaded": a file that
\* was saved gives back every value that can be written, the same as it was,
\* nothing else, and no note.
SavedReadsBack ==
  (at = "matched" /\ saved # NoValue) =>
    /\ DOMAIN file_values = {o \in Loadable : saved[o] # NoValue}
    /\ \A o \in DOMAIN file_values : SameValue(o, saved[o], file_values[o])
    /\ noted = {}

\* "lines skipped or overridden, and why": a line that gives a parameter, or
\* tries to, becomes a row's value or the operator is told of it, or of the
\* section it stands in.
NothingDroppedSilently ==
  at = "matched" => \A l \in DOMAIN file :
    file[l].kind \in {"entry", "junk"} =>
      \/ l \in header \cup noted
      \/ /\ SectionOf(l) = ""
         /\ \E k \in noted : k < l /\ file[k] = Unrecognised
      \/ \E o \in DOMAIN file_values : parameters[Key(o)].line = l
=============================================================================
