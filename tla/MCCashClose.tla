----------------------------- MODULE MCCashClose -----------------------------
(* The names of the instance.                                              *)
EXTENDS CashClose

CONSTANTS w1, w2
=============================================================================
