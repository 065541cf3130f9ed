----------------------------- MODULE MCOdReaders -----------------------------
(***************************************************************************)
(* OdReaders with a string of two pieces, a number the dictionary does not *)
(* have and two parameters, which nothing but their names tells apart.     *)
(***************************************************************************)
EXTENDS OdReaders, TLC

CONSTANTS name, serial, gain, limit, low, high

MCTexts == {name}
MCAbout == <<name, serial>>
MCNumbers == {serial}
MCParam == {gain, limit}
MCPieces == [o \in MCTexts |-> 2]
MCData == {low, high}
MCSymmetry == Permutations(MCParam)
=============================================================================
