--------------------------- MODULE MCProfileSync ---------------------------
(***************************************************************************)
(* Profiles are alike.                                                     *)
(***************************************************************************)
EXTENDS ProfileSync, TLC

ProfilesAlike == Permutations(Profile)
=============================================================================
