----------------------------- MODULE MCLocalScan -----------------------------
(* Instances of LocalScan for TLC.                                           *)
EXTENDS LocalScan, TLC

CONSTANTS f1, f2

LogSymmetry == Permutations(Files)

\* Bound: three lines in all while no log is rewritten; a log is rewritten only
\* while the other has never existed.
SomeWork ==
    LET lines == Len(log[f1].text) + Len(log[f2].text)
        epochs == {log[f1].epoch, log[f2].epoch}
    IN  \/ lines <= 3 /\ epochs \subseteq {0, 1}
        \/ 0 \in epochs
=============================================================================
