---------------------------- MODULE MCRepairApply ---------------------------
(* RepairApply for TLC. *)
EXTENDS RepairApply, TLC

BundleSymmetry == Permutations(Bundles)
=============================================================================
