--------------------------- MODULE MCOLSRTimerQueue -------------------------
(***************************************************************************)
(* Instances of OLSRTimerQueue for TLC.                                    *)
(***************************************************************************)
EXTENDS OLSRTimerQueue

CONSTANTS hello, tc, mid, passA, passB

=============================================================================
