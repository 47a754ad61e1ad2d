---------------------------- MODULE MCGuestCart -----------------------------
(***************************************************************************)
(* GuestCart with two variants.                                            *)
(***************************************************************************)
EXTENDS GuestCart, TLC

CONSTANTS v1, v2

MCSymmetry == Permutations(Choices)
=============================================================================
