---------------------------- MODULE MCOLSRTopology --------------------------
(***************************************************************************)
(* Instances of OLSRTopology for TLC.                                      *)
(***************************************************************************)
EXTENDS OLSRTopology

CONSTANTS selA, selB, slot1

=============================================================================
