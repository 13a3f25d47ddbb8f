--------------------------- MODULE MCJobProcessing ---------------------------
(* Instances of JobProcessing for TLC.                                     *)
EXTENDS JobProcessing

CONSTANTS j1, j2, w1, w2

OneJob == {j1}
TwoJobs == {j1, j2}
OneWorker == {w1}
TwoWorkers == {w1, w2}

InputFaults == {"s3", "csv"}
=============================================================================
