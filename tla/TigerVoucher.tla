---------------------------- MODULE TigerVoucher ----------------------------
(***************************************************************************)
(* Vouchers of Tiger's cloud by which the cash box pays a credit note out: *)
(* src/tiger_pay/voucher_service.py over tiger_pay.voucher_attempt.  A     *)
(* request runs in a thread of its own and calls the cloud between its     *)
(* writes; any call on the cloud may raise before or after it took effect, *)
(* and a customer may use a voucher at any time.                           *)
(***************************************************************************)
EXTENDS Naturals, FiniteSets

CONSTANTS
  Attempts, BillOf,  \* voucher attempts, and the bill each is for
  Threads,           \* threads of requests
  Sweepers,          \* background threads that refresh the active attempts
  NoAttempt, Nobody,
  MaxFaults,         \* bound: answers of the cloud that are lost or unreadable
  MaxCrashes         \* bound: threads that end half-way

ASSUME VoucherAssumption ==
  /\ NoAttempt \notin Attempts /\ Nobody \notin Sweepers
  /\ Threads \cap Sweepers = {}
  /\ MaxFaults \in Nat /\ MaxCrashes \in Nat

VARIABLES
  row,    \* voucher_attempt: status, and whether it has the voucher's number
  cloud,  \* the voucher of each attempt at Tiger
  job,    \* what each thread is doing
  gate,   \* the sweeper that holds the gate of refresh_active_vouchers
  faults, crashes

vars == <<row, cloud, job, gate, faults, crashes>>

VOUCHER_ACTIVE_STATUSES == {"creating", "pending"}
VOUCHER_TERMINAL_STATUSES == {"used", "cancelled", "expired", "failed"}

Idle == [pc |-> "idle", a |-> NoAttempt, answer |-> "none", todo |-> {}]
At(h, pc) == job[h].pc = pc
Answered(h, pc, answer) == job' = [job EXCEPT ![h].pc = pc, ![h].answer = answer]
\* The voucher of the thread is dealt with; a sweeper goes on with its list.
Done(h) == job' = [job EXCEPT ![h] =
  IF h \in Sweepers THEN [Idle EXCEPT !.pc = "sweep", !.todo = job[h].todo] ELSE Idle]

\* A call on the cloud raises, or its answer cannot be made out.
Blinded == faults < MaxFaults /\ faults' = faults + 1

Init ==
  /\ row = [a \in Attempts |-> [status |-> "none", num |-> FALSE]]
  /\ cloud = [a \in Attempts |-> "none"]
  /\ job = [h \in Threads \cup Sweepers |-> Idle]
  /\ gate = Nobody
  /\ faults = 0 /\ crashes = 0

(***************************************************************************)
(* The rows.                                                               *)
(***************************************************************************)
SameBill(a) == {b \in Attempts : BillOf[b] = BillOf[a]}
\* The statuses of voucher_attempt_one_blocking_per_bill_idx.
Blocking(b) == row[b].status \in VOUCHER_ACTIVE_STATUSES \cup {"used"}

\* Mutant: a terminal status is overwritten.
update_any_status(a, status, num) ==
  row' = [row EXCEPT ![a].status = status, ![a].num = @ \/ num]

\* A terminal status is never overwritten.
update_voucher_attempt(a, status, num) ==
  row' = [row EXCEPT
    ![a].status = IF @ \in VOUCHER_TERMINAL_STATUSES THEN @ ELSE status,
    ![a].num = @ \/ num]

(***************************************************************************)
(* What the cloud shows of a voucher, and how it is read.  "1" is used,    *)
(* "0" is not; a cancelled voucher is used with the note "cancelled"; the  *)
(* cloud may say of an expired one that it is, or just that it was not     *)
(* used.                                                                   *)
(***************************************************************************)
Shown(a) ==
  CASE cloud[a] = "live" -> {[used |-> "0", note |-> "CN"]}
    [] cloud[a] = "used" -> {[used |-> "1", note |-> "CN"]}
    [] cloud[a] = "cancelled" -> {[used |-> "1", note |-> "cancelled"]}
    [] cloud[a] = "expired" -> [used : {"0", "expired"}, note : {"CN"}]
    [] OTHER -> {}

\* Mutant: the note is taken for the status.
display_note_first(shown) == shown.note

\* raw_status of extract_voucher_display.
extract_voucher_display(shown) ==
  IF shown.note = "cancelled" THEN "cancelled" ELSE shown.used

normalize_voucher_status(raw) ==
  CASE raw = "1" -> "used" [] raw = "0" -> "pending"
    [] raw \in {"cancelled", "expired"} -> raw [] OTHER -> "unknown"

(***************************************************************************)
(* Creating a voucher.                                                     *)
(***************************************************************************)
Fresh(a) == row[a].status = "none" /\ \A g \in Threads : job[g].a # a

\* get_active_voucher_for_bill and get_used_voucher_for_bill find nothing.
CreateRead(h, a) ==
  /\ At(h, "idle") /\ Fresh(a)
  /\ \A b \in SameBill(a) : ~Blocking(b)
  /\ job' = [job EXCEPT ![h].pc = "insert", ![h].a = a]
  /\ UNCHANGED <<row, cloud, gate, faults, crashes>>

\* Mutant: without the unique index.
create_unchecked(h) ==
  LET a == job[h].a
  IN  /\ At(h, "insert")
      /\ row' = [row EXCEPT ![a].status = "creating"]
      /\ job' = [job EXCEPT ![h].pc = "create"]
      /\ UNCHANGED <<cloud, gate, faults, crashes>>

\* The insert, or the IntegrityError of the unique index.
create_voucher_attempt(h) ==
  LET a == job[h].a
  IN  /\ At(h, "insert")
      /\ IF \E b \in SameBill(a) : Blocking(b)
         THEN Done(h) /\ UNCHANGED row
         ELSE /\ row' = [row EXCEPT ![a].status = "creating"]
              /\ job' = [job EXCEPT ![h].pc = "create"]
      /\ UNCHANGED <<cloud, gate, faults, crashes>>

\* Tiger makes a voucher; or says that it did not, with status 200 and without a number,
\* in a word for failed or in another; or the call raises, and nobody can tell.
CloudCreate(h) ==
  LET a == job[h].a
      made == [cloud EXCEPT ![a] = "live"]
  IN  /\ At(h, "create")
      /\ \/ cloud' = made /\ Answered(h, "created", "number") /\ UNCHANGED faults
         \/ UNCHANGED <<cloud, faults>> /\ Answered(h, "created", "failed")
         \/ Blinded /\ Answered(h, "created", "no number") /\ UNCHANGED cloud
         \/ Blinded /\ Answered(h, "created", "raised") /\ cloud' \in {cloud, made}
      /\ UNCHANGED <<row, gate, crashes>>

\* Whatever raised, the attempt has failed; any answer but that makes it pending.
CreateSave(h) ==
  /\ At(h, "created") /\ Done(h)
  /\ IF job[h].answer \in {"raised", "failed"}
     THEN update_voucher_attempt(job[h].a, "failed", FALSE)
     ELSE update_voucher_attempt(job[h].a, "pending", job[h].answer = "number")
  /\ UNCHANGED <<cloud, gate, faults, crashes>>

(***************************************************************************)
(* Refreshing one attempt: asked for by the detail page, or by a sweep.    *)
(***************************************************************************)
Refreshable(a) == row[a].status \in VOUCHER_ACTIVE_STATUSES /\ row[a].num

get_voucher_attempt_detail(h, a) ==
  /\ At(h, "idle") /\ Refreshable(a)
  /\ job' = [job EXCEPT ![h].pc = "show", ![h].a = a]
  /\ UNCHANGED <<row, cloud, gate, faults, crashes>>

\* The show of refresh_voucher_attempt; a failed one leaves the status alone.
RefreshShow(h) ==
  /\ At(h, "show")
  /\ \/ /\ \E shown \in Shown(job[h].a) :
             Answered(h, "shown", normalize_voucher_status(extract_voucher_display(shown)))
        /\ UNCHANGED faults
     \/ Blinded /\ Answered(h, "shown", "unknown")
     \/ Blinded /\ Done(h)
  /\ UNCHANGED <<row, cloud, gate, crashes>>

RefreshSave(h) ==
  /\ At(h, "shown") /\ Done(h)
  /\ update_voucher_attempt(job[h].a,
       IF job[h].answer = "unknown" THEN "pending" ELSE job[h].answer, FALSE)
  /\ UNCHANGED <<cloud, gate, faults, crashes>>

(***************************************************************************)
(* refresh_active_vouchers: one at a time over all worker processes.       *)
(***************************************************************************)
_try_acquire_cross_process_gate(s) ==
  /\ At(s, "idle") /\ gate = Nobody
  /\ gate' = s
  /\ job' = [job EXCEPT ![s].pc = "sweep",
       ![s].todo = {a \in Attempts : row[a].status \in VOUCHER_ACTIVE_STATUSES}]
  /\ UNCHANGED <<row, cloud, faults, crashes>>

\* The next of the list, read again; no longer active, or without a number: none.
SweepNext(s) ==
  /\ At(s, "sweep")
  /\ \E a \in job[s].todo :
       LET rest == [job[s] EXCEPT !.todo = @ \ {a}]
       IN  job' = [job EXCEPT ![s] =
             IF Refreshable(a) THEN [rest EXCEPT !.pc = "show", !.a = a] ELSE rest]
  /\ UNCHANGED <<row, cloud, gate, faults, crashes>>

_release_cross_process_gate(s) ==
  /\ At(s, "sweep") /\ job[s].todo = {}
  /\ gate' = Nobody /\ job' = [job EXCEPT ![s] = Idle]
  /\ UNCHANGED <<row, cloud, faults, crashes>>

(***************************************************************************)
(* Cancelling a voucher.                                                   *)
(***************************************************************************)
CancelRead(h, a) ==
  /\ At(h, "idle") /\ Refreshable(a)
  /\ job' = [job EXCEPT ![h].pc = "cancel", ![h].a = a]
  /\ UNCHANGED <<row, cloud, gate, faults, crashes>>

\* The cloud cancels what was not used; it answers, or the call raises.
CloudCancel(h) ==
  LET a == job[h].a
      ended == IF cloud[a] = "live" THEN [cloud EXCEPT ![a] = "cancelled"] ELSE cloud
  IN  /\ At(h, "cancel")
      /\ \/ cloud' = ended /\ Answered(h, "canceled", "none") /\ UNCHANGED faults
         \/ cloud' \in {cloud, ended} /\ Blinded /\ Done(h)
      /\ UNCHANGED <<row, gate, crashes>>

\* Mutant: the answer of the cancel is believed, the voucher is not shown.
CancelShowSkipped(h) ==
  /\ At(h, "canceled") /\ Answered(h, "confirmed", "cancelled")
  /\ UNCHANGED <<row, cloud, gate, faults, crashes>>

\* What the cloud shows after that; when it cannot, nothing is written.
CancelShow(h) ==
  /\ At(h, "canceled")
  /\ \/ /\ \E shown \in Shown(job[h].a) :
             Answered(h, "confirmed", normalize_voucher_status(extract_voucher_display(shown)))
        /\ UNCHANGED faults
     \/ Blinded /\ Answered(h, "confirmed", "unknown")
     \/ Blinded /\ Done(h)
  /\ UNCHANGED <<row, cloud, gate, crashes>>

\* What cannot be made out counts as cancelled; a voucher that was not used after
\* all stays as it was, "unconfirmed".
CancelSave(h) ==
  /\ At(h, "confirmed") /\ Done(h)
  /\ CASE job[h].answer = "used" -> update_voucher_attempt(job[h].a, "used", FALSE)
       [] job[h].answer = "pending" -> UNCHANGED row
       [] OTHER -> update_voucher_attempt(job[h].a, "cancelled", FALSE)
  /\ UNCHANGED <<cloud, gate, faults, crashes>>

(***************************************************************************)
(* The customer, the clock and a thread that ends.                         *)
(***************************************************************************)
Use(a) ==
  /\ cloud[a] = "live" /\ cloud' = [cloud EXCEPT ![a] = "used"]
  /\ UNCHANGED <<row, job, gate, faults, crashes>>

\* TIGER_VOUCHER_EXPIRE_HOURS.
Expire(a) ==
  /\ cloud[a] = "live" /\ cloud' = [cloud EXCEPT ![a] = "expired"]
  /\ UNCHANGED <<row, job, gate, faults, crashes>>

\* The process dies or the database raises: the lock of the gate is gone with it.
Crash(h) ==
  /\ ~At(h, "idle") /\ crashes < MaxCrashes /\ crashes' = crashes + 1
  /\ job' = [job EXCEPT ![h] = Idle]
  /\ gate' = IF gate = h THEN Nobody ELSE gate
  /\ UNCHANGED <<row, cloud, faults>>

Step(h) ==
  \/ create_voucher_attempt(h) \/ CloudCreate(h) \/ CreateSave(h)
  \/ RefreshShow(h) \/ RefreshSave(h)
  \/ CloudCancel(h) \/ CancelShow(h) \/ CancelSave(h)

Sweep(s) == SweepNext(s) \/ _release_cross_process_gate(s)

Next ==
  \/ \E h \in Threads \cup Sweepers : Step(h) \/ Crash(h)
  \/ \E h \in Threads, a \in Attempts :
       CreateRead(h, a) \/ CancelRead(h, a) \/ get_voucher_attempt_detail(h, a)
  \/ \E s \in Sweepers : _try_acquire_cross_process_gate(s) \/ Sweep(s)
  \/ \E a \in Attempts : Use(a) \/ Expire(a)

Spec == Init /\ [][Next]_vars

\* A thread goes on, and the list of bills is looked at again and again, which is
\* what starts a sweep.
FairSpec ==
  /\ Spec
  /\ WF_vars(\E s \in Sweepers : _try_acquire_cross_process_gate(s))
  /\ \A h \in Threads : WF_vars(Step(h))
  /\ \A s \in Sweepers : WF_vars(Sweep(s) \/ Step(s))

-----------------------------------------------------------------------------
\* A row says used only when the customer was paid.
UsedIsPaid == \A a \in Attempts : row[a].status = "used" => cloud[a] = "used"

\* The voucher of an attempt that failed was made after all, or that of one that was
\* cancelled is not: an answer was lost or could not be made out.
Payable(a) == cloud[a] \in {"live", "used"}
Astray(a) == row[a].status \in {"failed", "cancelled"} /\ Payable(a)

\* "Unique constraints that block double-voucher" (migration 20260920061000): a bill
\* has two vouchers only where an answer of the cloud was lost.
PaidOnce ==
  \A a \in Attempts : \A b \in SameBill(a) \ {a} :
    Payable(a) /\ Payable(b) => Astray(a) \/ Astray(b)

\* No voucher goes astray while every answer of the cloud arrives, whatever a
\* customer and other threads do meanwhile and whoever dies.
NothingAstray == faults = 0 => \A a \in Attempts : ~Astray(a)

RowsAreTrue == UsedIsPaid /\ NothingAstray

\* The rows keep the ledger that payments keep: one attempt of a bill is paid, ends
\* are final, and no attempt is opened on a bill that is paid.
Book == [a \in Attempts |->
  CASE row[a].status = "none" -> "none"
    [] row[a].status \in VOUCHER_ACTIVE_STATUSES -> "open"
    [] row[a].status = "used" -> "paid"
    [] row[a].status = "failed" -> "failed"
    [] OTHER -> "cancelled"]
Ledger == INSTANCE PaymentLedger WITH book <- Book
LedgerKept == Ledger!LedgerSpec

\* A voucher that was used or cancelled at the cloud is so in the end in the table,
\* when the service has its number.
VoucherSettles ==
  \A a \in Attempts : cloud[a] \in {"used", "cancelled"} /\ row[a].num
    ~> row[a].status \in VOUCHER_TERMINAL_STATUSES
=============================================================================
