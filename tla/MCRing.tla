------------------------------- MODULE MCRing -------------------------------
(* Ring on small instances.                                                *)
EXTENDS Ring, TLC

(* No action tells user data apart.                                        *)
UserDataSymmetry == Permutations(UserData)
=============================================================================
