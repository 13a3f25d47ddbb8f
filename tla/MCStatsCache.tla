----------------------------- MODULE MCStatsCache -----------------------------
(* Instances of StatsCache for TLC.                                        *)
EXTENDS StatsCache

CONSTANTS j1, j2, r1, r2

TwoJobs == {j1, j2}
TwoReaders == {r1, r2}
=============================================================================
