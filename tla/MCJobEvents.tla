----------------------------- MODULE MCJobEvents -----------------------------
(* Instances of DashboardRooms and JobEvents for TLC.                      *)
EXTENDS JobEvents

CONSTANTS j1, dash

OneJob == {j1}
=============================================================================
