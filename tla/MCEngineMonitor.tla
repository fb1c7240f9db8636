--------------------------- MODULE MCEngineMonitor ---------------------------
(* Instances of EngineMonitor for TLC.                                       *)
EXTENDS EngineMonitor, TLC

CONSTANTS p1, p2

\* The quota jobs of every provider.
QuotaJobs == [kind : {"quota"}, provider : {p1, p2}]

\* Every kind of job, of one provider.
AllKinds == [kind : {"quota", "health", "local"}, provider : {p1}]

\* The quota job of one provider.
QuotaOnly == [kind : {"quota"}, provider : {p1}]

\* No action tells the two providers apart, and the run that uses this checks
\* safety only.
Interchangeable == Permutations({p1, p2})
=============================================================================
