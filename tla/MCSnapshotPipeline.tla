------------------------- MODULE MCSnapshotPipeline -------------------------
(* Instances of SnapshotPipeline for TLC. *)
EXTENDS SnapshotPipeline, TLC

CONSTANTS history, shadow, e1, e2, catalog

DashboardEdits == {e1, e2}
EditSymmetry == Permutations(DashboardEdits)
=============================================================================
