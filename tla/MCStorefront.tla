---------------------------- MODULE MCStorefront ----------------------------
(***************************************************************************)
(* Storefront with a few calls on a cart of two lines.                     *)
(***************************************************************************)
EXTENDS Storefront

CONSTANT MaxCalls  \* bound on the calls of the page, its fetches aside

MCCalls == 1..MaxCalls
=============================================================================
