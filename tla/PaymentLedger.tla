---------------------------- MODULE PaymentLedger ----------------------------
(***************************************************************************)
(* What Tiger Pay promises the shop about its bills: attempts are opened,  *)
(* and each ends paid, cancelled or failed for good, except that a failed  *)
(* one may turn out to be paid.  A bill is paid at most once, and nothing  *)
(* is opened on a bill that is already paid.                               *)
(***************************************************************************)
CONSTANTS Attempts, BillOf

VARIABLE book    \* [Attempts -> {"none", "open", "paid", "cancelled", "failed"}]

BillPaid(a) == \E b \in Attempts : BillOf[b] = BillOf[a] /\ book[b] = "paid"

LedgerInit == book = [a \in Attempts |-> "none"]

OpenAttempt(a) ==
    /\ book[a] = "none"
    /\ ~BillPaid(a)
    /\ book' = [book EXCEPT ![a] = "open"]

Pay(a) ==
    /\ book[a] \in {"open", "failed"}
    /\ ~BillPaid(a)
    /\ book' = [book EXCEPT ![a] = "paid"]

GiveUp(a) ==
    /\ book[a] = "open"
    /\ \E end \in {"cancelled", "failed"} : book' = [book EXCEPT ![a] = end]

LedgerNext == \E a \in Attempts : OpenAttempt(a) \/ Pay(a) \/ GiveUp(a)

LedgerSpec == LedgerInit /\ [][LedgerNext]_book
==============================================================================
