---------------------------- MODULE MCConfigOnBus ----------------------------
(***************************************************************************)
(* ConfigOnBus with two parameters and the lists the setup panel builds    *)
(* for them: reading both, and writing both from a file with a read-back   *)
(* each.  `serial` cannot be written.                                      *)
(***************************************************************************)
EXTENDS ConfigOnBus

CONSTANTS gain, serial, v1, v2

MCEntry == {gain, serial}
MCReadable == {gain, serial}
MCWritable == {gain}
MCData == {v1, v2}

ReadOf(e) == [entry |-> e, write_value |-> NoData]
WriteOf(e, v) == [entry |-> e, write_value |-> v]

MCPlans ==
  { <<ReadOf(gain), ReadOf(serial)>>,
    <<WriteOf(gain, v2), ReadOf(gain), WriteOf(serial, v1)>> }

=============================================================================
