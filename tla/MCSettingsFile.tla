---------------------------- MODULE MCSettingsFile ----------------------------
(***************************************************************************)
(* SettingsFile with four parameters in two subcategories that take turns  *)
(* in the dictionary, patterns of three bits, and every text of up to four *)
(* lines from a small set.                                                 *)
(***************************************************************************)
EXTENDS SettingsFile

CONSTANTS inverted, magic, torque, mask

MCObject == {inverted, magic, torque, mask}
MCObjects == <<inverted, magic, torque, mask>>
MCLoadable == MCObject \ {magic}
MCHex == {mask}
MCSubcategory == [o \in MCObject |-> IF o \in {inverted, torque} THEN "drive" ELSE "nvm"]
MCParamName ==
  [o \in MCObject |->
     CASE o = inverted -> "inverted" [] o = magic -> "magic"
       [] o = torque -> "torque" [] o = mask -> "mask"]
MCTypeOf ==
  [o \in MCObject |->
     CASE o = inverted -> [kind |-> "bool", size |-> 4]
       [] o = magic -> [kind |-> "signed", size |-> 8]
       [] o = torque -> [kind |-> "float", size |-> 8]
       [] o = mask -> [kind |-> "unsigned", size |-> 4]]

MCNames == {"server", "drive", "nvm"} \cup {MCParamName[o] : o \in MCObject}
MCTrim == [name \in MCNames \cup {"mask "} |-> IF name = "mask " THEN "mask" ELSE name]

\* shm80's field_current has a blank at its end.
MCParamNameBlank == [MCParamName EXCEPT ![mask] = "mask "]

Patterns == {0, 3, 5, 6, 7, NoValue}
MCTables == [MCObject -> Patterns]
FewTables == [MCObject -> {5, NoValue}]

MCLines ==
  { Blank, Junk, Unrecognised, SectionLine("drive"), SectionLine("nvm"),
    EntryLine("mask", Number("plain", 2)), EntryLine("mask ", Number("hex", 3)),
    EntryLine("mask", Number("plain", 4)), EntryLine("magic", Number("plus", 1)) }
MCHandWritten == UNION {[1 .. n -> MCLines] : n \in 0 .. 4}
NoTexts == {}
=============================================================================
