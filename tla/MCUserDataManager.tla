------------------------- MODULE MCUserDataManager -------------------------
(* Small instances of UserDataManager for TLC.                             *)
EXTENDS UserDataManager

CONSTANTS a1, a2

=============================================================================
