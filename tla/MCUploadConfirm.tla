--------------------------- MODULE MCUploadConfirm ---------------------------
(* Instances of UploadConfirm for TLC.                                     *)
EXTENDS UploadConfirm, TLC

CONSTANTS k1, k2, r1, r2, b1, b2

TwoKeys == {k1, k2}
TwoRequests == {r1, r2}

(* Single confirms without and with a batchId, batches that name the keys   *)
(* in opposite orders, and one that names a key twice; every batch can be  *)
(* confirmed again.  Whether a size is declared rightly depends on what was *)
(* PUT.                                                                    *)
File(k) == [key |-> k, size |-> 1]
SomeConfirms ==
  {[files |-> <<File(k1)>>, batch |-> NoBatch],
   [files |-> <<File(k1)>>, batch |-> b1],
   [files |-> <<File(k1), File(k2)>>, batch |-> b1],
   [files |-> <<File(k2), File(k1)>>, batch |-> b2],
   [files |-> <<File(k1), File(k1)>>, batch |-> b1]}

RequestSymmetry == Permutations(Requests)
=============================================================================
