--------------------------- MODULE MCRegistration ---------------------------
(* Two requests at once.                                                   *)
EXTENDS RegistrationProps, TLC

CONSTANTS upload, other

Swap == Permutations(Request)
=============================================================================
