--------------------------- MODULE MCTigerVoucher ---------------------------
(* Attempts of one bill.                                                    *)
EXTENDS TigerVoucher

OneBill == [a \in Attempts |-> "bill"]
=============================================================================
