---------------------------- MODULE MCNodeMonitor ----------------------------
(* Instances of NodeMonitor for TLC.                                         *)
EXTENDS NodeMonitor

CONSTANTS p1, p2
=============================================================================
