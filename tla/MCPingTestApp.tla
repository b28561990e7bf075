---------------------------- MODULE MCPingTestApp ----------------------------
(***************************************************************************)
(* Instances of PingTestApp for TLC.                                       *)
(***************************************************************************)
EXTENDS PingTestApp

NoLimitOrTwo == {-1, 2}

=============================================================================
