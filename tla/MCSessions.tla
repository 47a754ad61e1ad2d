----------------------------- MODULE MCSessions -----------------------------
(***************************************************************************)
(* Sessions with three concurrent calls, one of which signs out.           *)
(***************************************************************************)
EXTENDS Sessions

CONSTANTS c1, c2, c3
=============================================================================
