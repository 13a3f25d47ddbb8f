------------------------------ MODULE MCJobList ------------------------------
(* An instance of JobList for TLC.                                         *)
EXTENDS JobList

CONSTANTS j1, j2

TwoJobs == {j1, j2}
TwoStatuses == <<"pending", "completed">>
=============================================================================
