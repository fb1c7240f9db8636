---------------------------- MODULE MCCodexClient ----------------------------
(* Instances of CodexClient for TLC.                                         *)
EXTENDS CodexClient

CONSTANTS k1, k2, k3
=============================================================================
