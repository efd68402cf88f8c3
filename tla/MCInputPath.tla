---------------------------- MODULE MCInputPath ----------------------------
(* InputPath on a board with a button and a trigger on two ports, so that a  *)
(* press can fall between the reads of two pins and the main thread between  *)
(* the stores of two fields.  There is no right trigger.                     *)
EXTENDS InputPath

CONSTANTS south, portA, portB

MCPins == {south, L2}

MCPort == [p \in MCPins |-> IF p = south THEN portA ELSE portB]
=============================================================================
