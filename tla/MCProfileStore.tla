--------------------------- MODULE MCProfileStore ---------------------------
(* Two objects, in one process or in two.                                  *)
EXTENDS ProfileStoreProps, TLC

CONSTANTS live, mock, vehicle, dashboard

Swaps == Permutations({live, mock}) \cup Permutations({vehicle, dashboard})
=============================================================================
