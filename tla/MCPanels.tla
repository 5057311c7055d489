------------------------------ MODULE MCPanels ------------------------------
(* The panel of lifts, of a building map of one lift.                      *)
EXTENDS Panels

OneLift    == << <<"a">> >>
ItsLevels  == << [a |-> <<"L1", "L2">>] >>
=============================================================================
