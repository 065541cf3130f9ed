------------------------------ MODULE MCPduPanel ------------------------------
(***************************************************************************)
(* PduPanel with the command RPDO alone, one contactor, two modes.         *)
(***************************************************************************)
EXTENDS PduPanel

CONSTANTS command

Main == {"fuelcell_main"}
OneContactor == <<"fuelcell_main">>
MCRpdo == {command}
MCMode == {idle, purge}
=============================================================================
