-------------------------- MODULE MCDashboardServer --------------------------
(***************************************************************************)
(* Threads and objects are interchangeable.                                *)
(***************************************************************************)
EXTENDS DashboardServerProps, TLC

ServerSymmetry == Permutations(Manuals) \cup Permutations(Objects)
=============================================================================
