-------------------------- MODULE MCDashboardUploads --------------------------
(* An instance of DashboardUploads for TLC.                                *)
EXTENDS DashboardUploads

CONSTANTS u1, u2

TwoUploads == {u1, u2}
=============================================================================
