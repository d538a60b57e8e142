---------------------------- MODULE MCJobManager ----------------------------
(* Instances of JobManager for TLC: two daemons and a one-shot job, or one *)
(* daemon and no list_jobs.                                                *)
EXTENDS JobManager, TLC

TwoDaemons == <<"prices", "news">>
OneDaemon == <<"prices">>
NoOneShot == <<>>
OneOneShot == <<"train">>
NoList == {"start", "stop", "stopall"}
EveryOp == AllOps
Symmetry == Permutations(Caller)
=============================================================================
