--------------------------- MODULE MCTigerPayment ---------------------------
(***************************************************************************)
(* Instances of TigerPayment for TLC.                                      *)
(***************************************************************************)
EXTENDS TigerPayment, TLC

CONSTANTS a1, a2, w1, w2, b1, b2

OneBill  == [a \in {a1, a2} |-> b1]
Solo     == (a1 :> b1)

Migrated == {"api", "webhook", "polling"}
Widened  == Migrated \union {"manual"}

Paid     == {"pending", "success"}
QrRaws   == {"pending", "pending_approval", "fail", "success"}
Stop     == {"pending", "pending_approval", "other", "cancel", "success"}
Cash     == {"pending", "other", "fail", "success"}

\* A restarted process finds a1 unknown, as an earlier one left it after it polled
\* a status KCW does not know; the device waits for approval now.  A webhook may
\* have come in just before.  Nothing was sent for a2 yet.
Restarted ==
    /\ row = [a \in Attempts |-> IF a = a1 THEN "unknown" ELSE "absent"]
    /\ tid = [a \in Attempts |-> a = a1]
    /\ stale = [a \in Attempts |-> FALSE]
    /\ dev = [a \in Attempts |-> IF a = a1 THEN "pending_approval" ELSE "none"]
    /\ seen = [a \in Attempts |-> IF a = a1 THEN {"pending", "pending_approval", "other"} ELSE {}]
    /\ qr = [a \in Attempts |-> {}]
    /\ job = [p \in Threads |-> NoJob]
    /\ poller = [booted |-> FALSE, phase |-> "start", todo |-> {}, old |-> {}]
    /\ quiet \in BOOLEAN /\ forced = {} /\ crashes = 0 /\ hooks = 0

RestartedSpec == Restarted /\ [][Next]_vars /\ Fairness

AttemptSymmetry == Permutations(Attempts)
WorkerSymmetry  == Permutations(Workers)
Symmetry        == AttemptSymmetry \union WorkerSymmetry
=============================================================================
