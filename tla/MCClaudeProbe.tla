---------------------------- MODULE MCClaudeProbe ----------------------------
(* Instances of ClaudeProbe for TLC.                                         *)
EXTENDS ClaudeProbe

OnePhrase == {"not_authenticated"}
=============================================================================
