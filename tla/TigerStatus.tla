----------------------------- MODULE TigerStatus -----------------------------
(***************************************************************************)
(* The payment statuses of Tiger Pay: what the cash box reports, how KCW   *)
(* names it, and the two guards that keep a settled payment settled, one   *)
(* in Python (can_replace_status) and one in SQL (update_payment_attempt). *)
(***************************************************************************)

ACTIVE_STATUSES ==
    {"sending", "pending", "pendingapproval", "paying", "changing", "cancelling"}

TERMINAL_STATUSES == {"success", "cancelled", "failed"}

KNOWN_STATUSES == ACTIVE_STATUSES \union TERMINAL_STATUSES \union {"ready", "unknown"}

\* The rows of the partial unique index payment_attempt_one_blocking_per_bill_idx.
BLOCKING_STATUSES ==
    {"sending", "pending", "paying", "changing", "cancelling", "success"}

\* What the device reports.  "mismatch" is a "fail" whose remark says that the
\* status "does not match the expected value"; "other" is a word KCW does not know.
LiveRaws  == {"pending", "paying", "change", "pending_approval", "other"}
FinalRaws == {"success", "cancel", "fail", "mismatch"}
RawStatuses == LiveRaws \union FinalRaws

\* Mutant: a word KCW does not know is kept as it came.
normalize_status_verbatim(raw) ==
    IF raw \in {"fail", "mismatch"} THEN "failed" ELSE raw

normalize_status(raw) ==
    CASE raw \in {"pending", "paying", "success"} -> raw
      [] raw = "change"             -> "changing"
      [] raw = "pending_approval"   -> "pendingapproval"
      [] raw = "cancel"             -> "cancelled"
      [] raw \in {"fail", "mismatch"} -> "failed"
      [] OTHER                      -> "unknown"

can_replace_status(current, incoming) ==
    current \in TERMINAL_STATUSES => incoming = current

\* Mutant: the UPDATE without its CASE.
StoredUnguarded(current, new, recover) == new

\* The CASE expression of the UPDATE: the status column after writing new.
StoredStatus(current, new, recover) ==
    IF current \in TERMINAL_STATUSES /\ ~(recover /\ current = "failed" /\ new = "success")
    THEN current ELSE new

\* What a payment says of its QR: the dynamicQR itself is paid, and the totalPay
\* covers the amount.  The three tests of the code ask for different ones.
QrFacts == {"paid", "covered"}

dynamic_qr_is_paid(qr) == "paid" \in qr
paid_qr_settled(qr) == QrFacts \subseteq qr

\* Mutant: every failure of a QR is taken for the confirm race.
IncomingOptimistic(raw, settled) ==
    IF normalize_status(raw) = "failed" THEN "success" ELSE normalize_status(raw)

\* A QR that is paid in full settles the payment even when the device says "fail".
IncomingStatus(raw, settled) ==
    IF normalize_status(raw) = "failed" /\ settled THEN "success" ELSE normalize_status(raw)

\* Either fact is enough to confirm.
should_confirm_qr_payment(raw, qr) ==
    qr # {} /\ normalize_status(raw) \notin TERMINAL_STATUSES

\* The device answered a rejected confirm: was the QR paid all the same?
confirm_mismatch_already_paid(raw, qr) ==
    raw = "success" \/ (raw = "mismatch" /\ dynamic_qr_is_paid(qr))
==============================================================================
