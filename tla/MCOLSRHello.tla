---------------------------- MODULE MCOLSRHello -----------------------------
(***************************************************************************)
(* Instances of OLSRHello for TLC.                                         *)
(***************************************************************************)
EXTENDS OLSRHello

=============================================================================
