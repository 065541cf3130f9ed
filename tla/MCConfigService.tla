--------------------------- MODULE MCConfigService ---------------------------
(***************************************************************************)
(* ConfigService on a small dictionary: a parameter that can be read and   *)
(* written, one that can only be read and one that can only be written.    *)
(***************************************************************************)
EXTENDS ConfigService

CONSTANTS gain, serial, password, v1, v2

MCEntry == {gain, serial, password}
MCReadable == {gain, serial}
MCWritable == {gain, password}
MCData == {v1, v2}

ReadOf(e) == [entry |-> e, write_value |-> NoData]
WriteOf(e, v) == [entry |-> e, write_value |-> v]

\* The lists the setup panel builds: everything read (_read_all, _load_file),
\* writes each followed by its read-back (_write_selected), nothing at all,
\* and lists the dictionary refuses parts of.
MCPlans ==
  { << >>,
    <<ReadOf(gain), ReadOf(serial), ReadOf(gain), ReadOf(serial)>>,
    <<WriteOf(gain, v1), ReadOf(gain), WriteOf(gain, v2), ReadOf(gain)>>,
    <<ReadOf(gain), ReadOf(password), WriteOf(serial, v1), ReadOf(serial), ReadOf(gain)>>,
    <<WriteOf(password, v2), ReadOf(password)>> }
=============================================================================
