---------------------------- MODULE MCCatalogue -----------------------------
(***************************************************************************)
(* Catalogue with two administrators.                                      *)
(***************************************************************************)
EXTENDS Catalogue, TLC

MCMarks == {<<"no">>, <<"unset", "yes">>}

MCSymmetry == Permutations(Clients) \cup Permutations(Variants) \cup Permutations(Images)
                \cup Permutations(Products) \cup Permutations(Skus) \cup Permutations(Categories)
=============================================================================
