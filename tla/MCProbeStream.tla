---------------------------- MODULE MCProbeStream ----------------------------
(***************************************************************************)
(* A host of one address, or two, or none, at one port.                    *)
(***************************************************************************)
EXTENDS ProbeStream

CONSTANTS x, y
=============================================================================
