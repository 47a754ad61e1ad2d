----------------------------- MODULE MCTxRetry ------------------------------
(***************************************************************************)
(* TxRetry with a pool smaller than the clients, and requests that lock    *)
(* the same rows in opposite orders.                                       *)
(***************************************************************************)
EXTENDS TxRetry

CONSTANTS c1, c2, c3, a, b

MCRequests == {<<a, b>>, <<b, a>>, <<a>>}
=============================================================================
