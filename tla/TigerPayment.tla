---------------------------- MODULE TigerPayment ----------------------------
(***************************************************************************)
(* Collecting a bill with Tiger Pay.  Request threads send, cancel, force  *)
(* and take webhooks; one poller recovers and polls; the cash box moves on *)
(* its own.  Every database statement and every device call is a step, so  *)
(* whatever a thread read may be stale when it writes.                     *)
(***************************************************************************)
EXTENDS TigerStatus, Naturals

CONSTANTS
    Attempts,       \* payment attempts that may be created
    NoAttempt,      \* the attempt of an idle thread
    BillOf,         \* [Attempts -> bills]
    QrAttempts,     \* attempts collected by QR; the others are cash
    Mismatched,     \* attempts whose device amount is not the bill's
    Workers,        \* request and background threads of the API
    Poller,         \* the poller thread that holds the leader lock
    EventSources,   \* what payment_event_source_check lets in
    DeviceRaws,     \* what the device may report here, besides "mismatch"
    MaxCrashes,     \* bound: threads killed
    MaxHooks        \* bound: webhook deliveries

ASSUME AttemptsAssumption == NoAttempt \notin Attempts /\ QrAttempts \subseteq Attempts
                             /\ Mismatched \subseteq Attempts
ASSUME ThreadsAssumption  == Poller \notin Workers
ASSUME DeviceAssumption   == {"pending", "success"} \subseteq DeviceRaws
                             /\ DeviceRaws \subseteq RawStatuses
ASSUME BoundsAssumption   == MaxCrashes \in Nat /\ MaxHooks \in Nat

Threads == Workers \union {Poller}

VARIABLES
    row,     \* payment_attempt.status, "absent" before the insert
    tid,     \* payment_attempt.tiger_payment_id is set
    stale,   \* the row is older than tiger_pay_sending_stale_seconds
    dev,     \* the device's transaction with refNo2 = attempt, or "none"
    seen,    \* every status the device has reported for it
    qr,      \* the QrFacts its payment shows; a cash payment shows none
    job,     \* what each thread is doing
    poller,  \* the poller's place in its cycle
    quiet,   \* a webhook arrived less than tiger_pay_poll_webhook_quiet_seconds ago
    forced,  \* attempts an admin completed by hand (history)
    crashes, hooks

dbVars  == <<row, tid, stale>>
devVars == <<dev, seen, qr>>
vars    == <<row, tid, stale, dev, seen, qr, job, poller, quiet, forced, crashes, hooks>>

RowStatuses == KNOWN_STATUSES \union {"absent"}
NoJob == [op |-> "none", pc |-> "idle", a |-> NoAttempt, obs |-> "none",
          paid |-> FALSE, to |-> "none", rec |-> FALSE]

Init ==
    /\ row = [a \in Attempts |-> "absent"]
    /\ tid = [a \in Attempts |-> FALSE]
    /\ stale = [a \in Attempts |-> FALSE]
    /\ dev = [a \in Attempts |-> "none"]
    /\ seen = [a \in Attempts |-> {}]
    /\ qr = [a \in Attempts |-> {}]
    /\ job = [p \in Threads |-> NoJob]
    /\ poller = [booted |-> FALSE, phase |-> "start", todo |-> {}, old |-> {}]
    /\ quiet = FALSE
    /\ forced = {}
    /\ crashes = 0
    /\ hooks = 0

----------------------------------------------------------------------------
\* Database: one UPDATE under the unique index, one thread's next step.

SameBill(a, b) == BillOf[a] = BillOf[b]

\* Mutant: the index before the safety migration, which let go of paid bills.
IndexBeforeSafety(r) == \A a, b \in Attempts :
    a # b /\ SameBill(a, b)
       => ~({r[a], r[b]} \subseteq BLOCKING_STATUSES \ {"success"})

\* payment_attempt_one_blocking_per_bill_idx accepts these rows.
IndexOK(r) == \A a, b \in Attempts :
    a # b /\ SameBill(a, b) => ~(r[a] \in BLOCKING_STATUSES /\ r[b] \in BLOCKING_STATUSES)

Written(a, new, recover) == [row EXCEPT ![a] = StoredStatus(row[a], new, recover)]

At(p, op, pc) == job[p].op = op /\ job[p].pc = pc
Goto(p, pc) == job' = [job EXCEPT ![p].pc = pc]
Finish(p) == job' = [job EXCEPT ![p] = NoJob]
Start(p, op, pc, a) == job' = [job EXCEPT ![p] = [NoJob EXCEPT !.op = op, !.pc = pc, !.a = a]]

\* The source a reconcile writes to payment_event.
Source(op) == CASE op = "hook" -> "webhook" [] op = "force" -> "manual" [] OTHER -> "polling"

\* reconcile_from_tiger_payment returned: force goes on to its own write.
Reconciled(p) ==
    IF job[p].op = "force" THEN Goto(p, "manual_paid") ELSE Finish(p)

\* It raised: force falls back to the local branch, the poll cycle is abandoned.
Raised(p) ==
    /\ IF job[p].op = "force" THEN Goto(p, "manual_local") ELSE Finish(p)
    /\ poller' = IF p = Poller
                 THEN [booted |-> TRUE, phase |-> "start", todo |-> {}, old |-> {}]
                 ELSE poller

----------------------------------------------------------------------------
\* send_payment_for_bill.  get_current runs on a thread beside the two reads.

SendStart(w, a) ==
    /\ job[w] = NoJob
    /\ row[a] = "absent"
    /\ \A v \in Workers : job[v].op = "send" => job[v].a # a
    /\ Start(w, "send", "read_success", a)
    /\ UNCHANGED <<dbVars, devVars, poller, quiet, forced, crashes, hooks>>

SendReading(w) == job[w].op = "send" /\ job[w].pc \in {"read_success", "read_active", "insert"}

DeviceBusy == \E a \in Attempts : dev[a] \in LiveRaws

SendPeek(w) ==
    /\ SendReading(w)
    /\ job[w].obs = "none"
    /\ \E answer \in {IF DeviceBusy THEN "busy" ELSE "free", "error"} :
          job' = [job EXCEPT ![w].obs = answer]
    /\ UNCHANGED <<dbVars, devVars, poller, quiet, forced, crashes, hooks>>

SendReadSuccess(w) ==
    /\ At(w, "send", "read_success")
    /\ IF \E b \in Attempts : SameBill(b, job[w].a) /\ row[b] = "success"
       THEN Finish(w)
       ELSE Goto(w, "read_active")
    /\ UNCHANGED <<dbVars, devVars, poller, quiet, forced, crashes, hooks>>

SendReadActive(w) ==
    /\ At(w, "send", "read_active")
    /\ IF \E b \in Attempts : SameBill(b, job[w].a) /\ row[b] \in ACTIVE_STATUSES
       THEN Finish(w)
       ELSE Goto(w, "insert")
    /\ UNCHANGED <<dbVars, devVars, poller, quiet, forced, crashes, hooks>>

SendRefused(w) ==
    /\ At(w, "send", "insert")
    /\ job[w].obs \in {"busy", "error"}
    /\ Finish(w)
    /\ UNCHANGED <<dbVars, devVars, poller, quiet, forced, crashes, hooks>>

SendInsert(w) ==
    /\ At(w, "send", "insert")
    /\ job[w].obs = "free"
    /\ LET a == job[w].a
           inserted == [row EXCEPT ![a] = "sending"]
       IN IF row[a] = "absent" /\ IndexOK(inserted)
          THEN row' = inserted /\ Goto(w, "create")
          ELSE row' = row /\ Finish(w)
    /\ UNCHANGED <<tid, stale, devVars, poller, quiet, forced, crashes, hooks>>

\* The device opens the transaction and reports it pending.
Opened(a) ==
    /\ ~DeviceBusy
    /\ dev' = [dev EXCEPT ![a] = "pending"]
    /\ seen' = [seen EXCEPT ![a] = @ \union {"pending"}]
    /\ qr' = qr

\* create_payment answered with the new transaction.
SendCreateAnswered(w) ==
    /\ At(w, "send", "create")
    /\ Opened(job[w].a)
    /\ job' = [job EXCEPT ![w].pc = "store", ![w].obs = "pending"]
    /\ UNCHANGED <<dbVars, poller, quiet, forced, crashes, hooks>>

\* No response: the request or its answer was lost; the row stays sending.
SendCreateUnconfirmed(w) ==
    /\ At(w, "send", "create")
    /\ Opened(job[w].a) \/ UNCHANGED devVars
    /\ Finish(w)
    /\ UNCHANGED <<dbVars, poller, quiet, forced, crashes, hooks>>

\* An error response.  _raw_request repeats a POST that timed out, so the
\* rejected request may be the second one and the first one live.
SendCreateRejected(w) ==
    /\ At(w, "send", "create")
    /\ Opened(job[w].a) \/ UNCHANGED devVars
    /\ Goto(w, "store_failed")
    /\ UNCHANGED <<dbVars, poller, quiet, forced, crashes, hooks>>

SendStoreFailed(w) ==
    /\ At(w, "send", "store_failed")
    /\ row' = Written(job[w].a, "failed", FALSE)
    /\ Finish(w)
    /\ UNCHANGED <<tid, stale, devVars, poller, quiet, forced, crashes, hooks>>

SendStore(w) ==
    /\ At(w, "send", "store")
    /\ LET a == job[w].a
           stored == Written(a, normalize_status(job[w].obs), FALSE)
       IN IF IndexOK(stored)
          THEN row' = stored /\ tid' = [tid EXCEPT ![a] = TRUE]
          ELSE UNCHANGED <<row, tid>>
    /\ Finish(w)
    /\ UNCHANGED <<stale, devVars, poller, quiet, forced, crashes, hooks>>

----------------------------------------------------------------------------
\* cancel_payment_attempt

CancelRead(w, a) ==
    /\ job[w] = NoJob
    /\ row[a] \in ACTIVE_STATUSES
    /\ tid[a]
    /\ Start(w, "cancel", "mark", a)
    /\ UNCHANGED <<dbVars, devVars, poller, quiet, forced, crashes, hooks>>

\* Mutant: the row is cancelled as soon as the device is asked.
WriteCancelled(w, next) ==
    row' = Written(job[w].a, "cancelled", FALSE) /\ Finish(w)

\* status = 'cancelling', before the device is asked and again after it agreed.
WriteCancelling(w, next) ==
    LET marked == Written(job[w].a, "cancelling", FALSE)
    IN IF IndexOK(marked)
       THEN row' = marked /\ (IF next = "done" THEN Finish(w) ELSE Goto(w, next))
       ELSE row' = row /\ Finish(w)

CancelMark(w) ==
    /\ At(w, "cancel", "mark")
    /\ WriteCancelling(w, "device")
    /\ UNCHANGED <<tid, stale, devVars, poller, quiet, forced, crashes, hooks>>

Reports(a, raw) ==
    /\ dev' = [dev EXCEPT ![a] = raw]
    /\ seen' = [seen EXCEPT ![a] = @ \union {raw}]
    /\ qr' = qr

\* The device may cancel at once or later; the call may fail either way.
CancelDevice(w) ==
    /\ At(w, "cancel", "device")
    /\ \/ dev[job[w].a] \in LiveRaws /\ "cancel" \in DeviceRaws /\ Reports(job[w].a, "cancel")
       \/ UNCHANGED devVars
    /\ Goto(w, "confirm_mark") \/ Finish(w)
    /\ UNCHANGED <<dbVars, poller, quiet, forced, crashes, hooks>>

CancelConfirm(w) ==
    /\ At(w, "cancel", "confirm_mark")
    /\ WriteCancelling(w, "done")
    /\ UNCHANGED <<tid, stale, devVars, poller, quiet, forced, crashes, hooks>>

----------------------------------------------------------------------------
\* persist_accepted_webhook.  A status ever reported may be delivered, late,
\* twice or never.  Its payload has no dynamicQR.  A duplicate does not count
\* as fresh traffic, and neither does one whose ingest failed.

HookReceive(w, a, raw) ==
    /\ job[w] = NoJob
    /\ raw \in seen[a]
    /\ hooks < MaxHooks
    /\ hooks' = hooks + 1
    /\ quiet' \in {quiet, TRUE}
    /\ job' = [job EXCEPT ![w] = [NoJob EXCEPT !.op = "hook", !.pc = "reconcile",
                                               !.a = a, !.obs = raw]]
    /\ UNCHANGED <<dbVars, devVars, poller, forced, crashes>>

----------------------------------------------------------------------------
\* reconcile_from_tiger_payment: read the row and decide, then write.  A status
\* that is not applied is only recorded as an event of its source.

\* Mutant: the amounts are not compared.
amount_unchecked(a) == TRUE

tiger_amount_compatible(a) == a \notin Mismatched

ReconcileRead(p) ==
    /\ job[p].pc = "reconcile"
    /\ LET j == job[p]
           incoming == IncomingStatus(j.obs, j.paid)
           recover == row[j.a] = "failed" /\ incoming = "success" /\ j.paid
           ignored == ~can_replace_status(row[j.a], incoming) /\ ~recover
           mismatch == incoming = "success" /\ ~tiger_amount_compatible(j.a)
       IN IF ignored \/ mismatch
          THEN IF Source(j.op) \in EventSources
               THEN Reconciled(p) /\ poller' = poller
               ELSE Raised(p)
          ELSE /\ job' = [job EXCEPT ![p].pc = "apply", ![p].to = incoming, ![p].rec = recover]
               /\ poller' = poller
    /\ UNCHANGED <<dbVars, devVars, quiet, forced, crashes, hooks>>

ReconcileWrite(p) ==
    /\ job[p].pc = "apply"
    /\ LET j == job[p]
           stored == Written(j.a, j.to, j.rec)
       IN IF IndexOK(stored) /\ Source(j.op) \in EventSources
          THEN /\ row' = stored
               /\ tid' = [tid EXCEPT ![j.a] = TRUE]
               /\ Reconciled(p)
               /\ poller' = poller
          ELSE UNCHANGED <<row, tid>> /\ Raised(p)
    /\ UNCHANGED <<stale, devVars, quiet, forced, crashes, hooks>>

----------------------------------------------------------------------------
\* _confirm_qr_if_paid, for the poller and for force.

\* confirm_payment: the device completes a live payment, or finds another
\* status than it expects and may mark the settled payment failed.
DeviceConfirms(a) == dev[a] \in LiveRaws /\ Reports(a, "success")
DeviceDisagrees(a) == dev[a] = "success" /\ Reports(a, "mismatch")

ConfirmAnswered(p) ==
    /\ job[p].pc = "confirm"
    /\ DeviceConfirms(job[p].a)
    /\ job' = [job EXCEPT ![p].pc = "reconcile", ![p].obs = "success"]
    /\ UNCHANGED <<dbVars, poller, quiet, forced, crashes, hooks>>

ConfirmFailed(p) ==
    /\ job[p].pc = "confirm"
    /\ DeviceConfirms(job[p].a) \/ DeviceDisagrees(job[p].a) \/ UNCHANGED devVars
    /\ Goto(p, "refresh")
    /\ UNCHANGED <<dbVars, poller, quiet, forced, crashes, hooks>>

\* get_payment after the failed confirm; if it fails too the old snapshot stays.
ConfirmRefresh(p) ==
    /\ job[p].pc = "refresh"
    /\ \/ /\ confirm_mismatch_already_paid(dev[job[p].a], qr[job[p].a])
          /\ job' = [job EXCEPT ![p].pc = "race", ![p].obs = "success",
                                 ![p].paid = paid_qr_settled(qr[job[p].a])]
       \/ Goto(p, "reconcile")
    /\ UNCHANGED <<dbVars, devVars, poller, quiet, forced, crashes, hooks>>

\* The recovered success is written at once, with no amount check.
ConfirmRaceWrite(p) ==
    /\ job[p].pc = "race"
    /\ LET a == job[p].a
           stored == Written(a, "success", TRUE)
       IN IF IndexOK(stored)
          THEN /\ row' = stored
               /\ tid' = [tid EXCEPT ![a] = TRUE]
               /\ Goto(p, "reconcile")
               /\ poller' = poller
          ELSE UNCHANGED <<row, tid>> /\ Raised(p)
    /\ UNCHANGED <<stale, devVars, quiet, forced, crashes, hooks>>

----------------------------------------------------------------------------
\* force_complete_payment_attempt

ForceRead(w, a) ==
    /\ job[w] = NoJob
    /\ row[a] = "pendingapproval"
    /\ Start(w, "force", "get", a)
    /\ UNCHANGED <<dbVars, devVars, poller, quiet, forced, crashes, hooks>>

ForceGet(w) ==
    /\ At(w, "force", "get")
    /\ LET a == job[w].a
       IN \/ /\ tid[a]
             /\ should_confirm_qr_payment(dev[a], qr[a])
             /\ job' = [job EXCEPT ![w].pc = "confirm", ![w].obs = dev[a],
                                   ![w].paid = paid_qr_settled(qr[a])]
          \/ Goto(w, "manual_local")   \* unpaid, or get_payment failed
    /\ UNCHANGED <<dbVars, devVars, poller, quiet, forced, crashes, hooks>>

ForcePcs == {"manual_paid", "manual_local", "manual_cleared"}

\* _write_manual_success_records: its event needs the source 'manual'.
ForceWrite(w) ==
    /\ job[w].op = "force"
    /\ job[w].pc \in ForcePcs
    /\ LET a == job[w].a
           stored == Written(a, "success", FALSE)
       IN IF "manual" \in EventSources /\ IndexOK(stored)
          THEN /\ row' = stored
               /\ forced' = forced \union {a}
               /\ IF job[w].pc = "manual_local" /\ tid[a] THEN Goto(w, "clear") ELSE Finish(w)
          ELSE UNCHANGED <<row, forced>> /\ Finish(w)
    /\ UNCHANGED <<tid, stale, devVars, poller, quiet, crashes, hooks>>

\* The unpaid branch confirms afterwards, only to clear the cash box.
ForceClear(w) ==
    /\ At(w, "force", "clear")
    /\ \/ DeviceConfirms(job[w].a) /\ Goto(w, "manual_cleared")
       \/ (DeviceDisagrees(job[w].a) \/ UNCHANGED devVars) /\ Finish(w)
    /\ UNCHANGED <<dbVars, poller, quiet, forced, crashes, hooks>>

----------------------------------------------------------------------------
\* PaymentStatusPoller: a startup recovery, then cycles of poll and sweep.

PollerIdle(phase) == job[Poller] = NoJob /\ poller.phase = phase

\* What the cycle will poll.  Rows without a Tiger id are skipped by poll_attempt_once.
PollList ==
    /\ PollerIdle("start")
    /\ LET listed == ACTIVE_STATUSES \union (IF poller.booted THEN {} ELSE {"unknown"})
           skip == poller.booted /\ quiet
       IN poller' = [poller EXCEPT !.phase = "poll",
                        !.todo = IF skip THEN {} ELSE {a \in Attempts : row[a] \in listed /\ tid[a]}]
    /\ UNCHANGED <<dbVars, devVars, job, quiet, forced, crashes, hooks>>

PollGet(a) ==
    /\ PollerIdle("poll")
    /\ a \in poller.todo
    /\ poller' = [poller EXCEPT !.todo = @ \ {a}]
    /\ job' = [job EXCEPT ![Poller] =
                 [NoJob EXCEPT !.op = "poll", !.a = a, !.obs = dev[a],
                               !.paid = paid_qr_settled(qr[a]),
                               !.pc = IF should_confirm_qr_payment(dev[a], qr[a])
                                      THEN "confirm" ELSE "reconcile"]]
    /\ UNCHANGED <<dbVars, devVars, quiet, forced, crashes, hooks>>

PollGetFailed(a) ==
    /\ PollerIdle("poll")
    /\ a \in poller.todo
    /\ poller' = [poller EXCEPT !.todo = @ \ {a}]
    /\ UNCHANGED <<dbVars, devVars, job, quiet, forced, crashes, hooks>>

\* recover_sending_attempts takes its clock and its list together.
SweepList ==
    /\ PollerIdle("poll")
    /\ poller.todo = {}
    /\ LET unconfirmed == {a \in Attempts : row[a] = "sending" /\ ~tid[a]}
       IN poller' = [poller EXCEPT !.phase = "sweep", !.todo = unconfirmed,
                                   !.old = {a \in unconfirmed : stale[a]}]
    /\ UNCHANGED <<dbVars, devVars, job, quiet, forced, crashes, hooks>>

\* Mutant: an empty lookup is taken for an answer.
SweepFoundNothing(a) ==
    /\ PollerIdle("sweep")
    /\ a \in poller.todo
    /\ poller' = [poller EXCEPT !.todo = @ \ {a}]
    /\ job' = [job EXCEPT ![Poller] =
                 [NoJob EXCEPT !.op = "sweep", !.pc = "reconcile", !.a = a, !.obs = dev[a]]]
    /\ UNCHANGED <<dbVars, devVars, quiet, forced, crashes, hooks>>

SweepFound(a) ==
    /\ PollerIdle("sweep")
    /\ a \in poller.todo
    /\ dev[a] # "none"
    /\ poller' = [poller EXCEPT !.todo = @ \ {a}]
    /\ job' = [job EXCEPT ![Poller] =
                 [NoJob EXCEPT !.op = "sweep", !.pc = "reconcile", !.a = a,
                               !.obs = dev[a], !.paid = paid_qr_settled(qr[a])]]
    /\ UNCHANGED <<dbVars, devVars, quiet, forced, crashes, hooks>>

\* Mutant: a row that was not found is left for the next sweep, for ever.
SweepMissedForever(a) ==
    /\ PollerIdle("sweep")
    /\ a \in poller.todo
    /\ poller' = [poller EXCEPT !.todo = @ \ {a}]
    /\ UNCHANGED <<dbVars, devVars, job, quiet, forced, crashes, hooks>>

\* Not found, or the lookup failed: the code does not tell these apart.
SweepMissed(a) ==
    /\ PollerIdle("sweep")
    /\ a \in poller.todo
    /\ poller' = [poller EXCEPT !.todo = @ \ {a}]
    /\ IF a \in poller.old THEN Start(Poller, "sweep", "expire", a) ELSE job' = job
    /\ UNCHANGED <<dbVars, devVars, quiet, forced, crashes, hooks>>

SweepExpire ==
    /\ At(Poller, "sweep", "expire")
    /\ row' = Written(job[Poller].a, "failed", FALSE)
    /\ Finish(Poller)
    /\ UNCHANGED <<tid, stale, devVars, poller, quiet, forced, crashes, hooks>>

SweepEnd ==
    /\ PollerIdle("sweep")
    /\ poller.todo = {}
    /\ poller' = [booted |-> TRUE, phase |-> "start", todo |-> {}, old |-> {}]
    /\ UNCHANGED <<dbVars, devVars, job, quiet, forced, crashes, hooks>>

----------------------------------------------------------------------------
\* The world: the clock, the device, and processes that die.

Tick(a) ==
    /\ row[a] = "sending"
    /\ ~stale[a]
    /\ stale' = [stale EXCEPT ![a] = TRUE]
    /\ UNCHANGED <<row, tid, devVars, job, poller, quiet, forced, crashes, hooks>>

QuietElapsed ==
    /\ quiet
    /\ quiet' = FALSE
    /\ UNCHANGED <<dbVars, devVars, job, poller, forced, crashes, hooks>>

DeviceMoves(a) ==
    /\ dev[a] \in LiveRaws
    /\ \E raw \in (LiveRaws \intersect DeviceRaws) \ {dev[a]} : Reports(a, raw)
    /\ UNCHANGED <<dbVars, job, poller, quiet, forced, crashes, hooks>>

DeviceSettles(a) ==
    /\ dev[a] \in LiveRaws
    /\ \E raw \in (FinalRaws \intersect DeviceRaws) \ {"mismatch"} : Reports(a, raw)
    /\ UNCHANGED <<dbVars, job, poller, quiet, forced, crashes, hooks>>

QrPaid(a) ==
    /\ a \in QrAttempts
    /\ dev[a] \in LiveRaws
    /\ \E fact \in QrFacts \ qr[a] : qr' = [qr EXCEPT ![a] = @ \union {fact}]
    /\ UNCHANGED <<dbVars, dev, seen, job, poller, quiet, forced, crashes, hooks>>

\* A killed thread forgets everything; a restarted poller recovers again.
Crash(p) ==
    /\ crashes < MaxCrashes
    /\ crashes' = crashes + 1
    /\ job[p] # NoJob \/ p = Poller
    /\ Finish(p)
    /\ poller' = IF p = Poller
                 THEN [booted |-> FALSE, phase |-> "start", todo |-> {}, old |-> {}]
                 ELSE poller
    /\ UNCHANGED <<dbVars, devVars, quiet, forced, hooks>>

----------------------------------------------------------------------------
WorkerStep(w) ==
    \/ \E a \in Attempts : SendStart(w, a) \/ CancelRead(w, a) \/ ForceRead(w, a)
    \/ \E a \in Attempts, raw \in RawStatuses : HookReceive(w, a, raw)
    \/ SendPeek(w) \/ SendReadSuccess(w) \/ SendReadActive(w) \/ SendRefused(w)
    \/ SendInsert(w) \/ SendCreateAnswered(w) \/ SendCreateUnconfirmed(w)
    \/ SendCreateRejected(w) \/ SendStore(w) \/ SendStoreFailed(w)
    \/ CancelMark(w) \/ CancelDevice(w) \/ CancelConfirm(w)
    \/ ForceGet(w) \/ ForceWrite(w) \/ ForceClear(w)

SharedStep(p) ==
    \/ ReconcileRead(p) \/ ReconcileWrite(p)
    \/ ConfirmAnswered(p) \/ ConfirmFailed(p) \/ ConfirmRefresh(p) \/ ConfirmRaceWrite(p)

PollerStep ==
    \/ PollList \/ SweepList \/ SweepExpire \/ SweepEnd
    \/ \E a \in Attempts : PollGet(a) \/ PollGetFailed(a) \/ SweepFound(a) \/ SweepMissed(a)

World ==
    \/ \E a \in Attempts : Tick(a) \/ DeviceMoves(a) \/ DeviceSettles(a) \/ QrPaid(a)
    \/ QuietElapsed
    \/ \E p \in Threads : Crash(p)

Next ==
    \/ \E w \in Workers : WorkerStep(w)
    \/ \E p \in Threads : SharedStep(p)
    \/ PollerStep
    \/ World

Spec == Init /\ [][Next]_vars

\* The poller runs forever, each call it makes sometimes gets through, a
\* request that started runs on, and the device does not sit on a payment.
Fairness ==
    /\ WF_vars(PollList) /\ WF_vars(SweepList) /\ WF_vars(SweepExpire) /\ WF_vars(SweepEnd)
    /\ \A a \in Attempts :
          /\ SF_vars(PollGet(a)) /\ WF_vars(PollGetFailed(a))
          /\ SF_vars(SweepFound(a)) /\ WF_vars(SweepMissed(a))
          /\ WF_vars(Tick(a)) /\ WF_vars(DeviceSettles(a))
    /\ \A p \in Threads : WF_vars(SharedStep(p))
    /\ \A w \in Workers :
          WF_vars(job[w] # NoJob /\ WorkerStep(w))
    /\ WF_vars(QuietElapsed)

FairSpec == Spec /\ Fairness

----------------------------------------------------------------------------
\* Properties.

JobType ==
    [op : {"none", "send", "cancel", "hook", "force", "poll", "sweep"},
     pc : {"idle", "read_success", "read_active", "insert", "create", "store",
           "store_failed", "mark", "device", "confirm_mark", "reconcile", "apply",
           "confirm", "refresh", "race", "get", "clear", "expire"} \union ForcePcs,
     a : Attempts \union {NoAttempt},
     obs : RawStatuses \union {"none", "free", "busy", "error"},
     paid : BOOLEAN, to : KNOWN_STATUSES \union {"none"}, rec : BOOLEAN]

\* Every variable has its type.
TypeOK ==
    /\ row \in [Attempts -> RowStatuses]
    /\ tid \in [Attempts -> BOOLEAN]
    /\ stale \in [Attempts -> BOOLEAN]
    /\ dev \in [Attempts -> RawStatuses \union {"none"}]
    /\ seen \in [Attempts -> SUBSET RawStatuses]
    /\ qr \in [Attempts -> SUBSET QrFacts]
    /\ job \in [Threads -> JobType]
    /\ poller \in [booted : BOOLEAN, phase : {"start", "poll", "sweep"},
                   todo : SUBSET Attempts, old : SUBSET Attempts]
    /\ quiet \in BOOLEAN
    /\ forced \subseteq Attempts
    /\ crashes \in Nat
    /\ hooks \in Nat

\* A bill is shown as paid only if the device said so, its dynamicQR was paid, or an
\* admin completed it: no order of polls, late webhooks and confirm races
\* (reconcile_from_tiger_payment, _confirm_qr_if_paid) invents a payment.
SuccessIsPaid == \A a \in Attempts :
    row[a] = "success" =>
        "success" \in seen[a] \/ dynamic_qr_is_paid(qr[a]) \/ a \in forced

\* cancel_payment_attempt asks; only the device's word makes a row cancelled.
CancelledByDevice == \A a \in Attempts : row[a] = "cancelled" => "cancel" \in seen[a]

\* Two sends of one bill that both passed the two reads never both hold it:
\* one blocking row per bill, whatever later writes move the rows.
OneBlockingPerBill == \A a, b \in Attempts :
    /\ SameBill(a, b)
    /\ row[a] \in BLOCKING_STATUSES
    /\ row[b] \in BLOCKING_STATUSES
    => a = b

\* A row carries a Tiger id only for a transaction the device opened.
IdMeansTransaction == \A a \in Attempts : tid[a] => dev[a] # "none"

\* tiger_amount_compatible: a payment of another amount than the bill's is
\* collected only by an admin, however often the device reports it, or by the
\* one write that compares no amounts, the confirm race of a QR that is paid or
\* covered (_confirm_qr_if_paid).  A cash payment has no such way round.
MismatchNotCollected == \A a \in Mismatched :
    row[a] = "success" => a \in forced \/ (a \in QrAttempts /\ qr[a] # {})

\* A settled row never changes, except that a QR that is paid, or whose total
\* covers the amount, turns failed into success: a write computed from an old
\* read cannot reopen a bill.
SettledStays ==
    [][\A a \in Attempts :
         row[a] \in TERMINAL_STATUSES /\ row'[a] # row[a]
            => row[a] = "failed" /\ row'[a] = "success" /\ qr[a] # {}]_vars

\* What may keep an attempt from being settled for ever: its row is unknown, which
\* the poller's cycle no longer lists; the device collected another amount in
\* cash, which reconcile refuses each time.
Parked(a) == row[a] = "unknown"
Refused(a) == a \in Mismatched /\ dev[a] = "success"

\* A row outside the index that another attempt of its bill keeps out.  The write
\* that would bring it in raises, and abandons the rest of the poller's cycle, so
\* one such row may keep any other attempt waiting.
Barred(a) ==
    /\ row[a] \in ACTIVE_STATUSES \ BLOCKING_STATUSES
    /\ \E b \in Attempts \ {a} : SameBill(a, b) /\ row[b] \in BLOCKING_STATUSES

\* An attempt in flight is settled in the end, through lost answers, crashes and
\* webhooks that keep the poller quiet, or it is parked or refused itself, or an
\* attempt is barred: there is no fourth way to wait for ever.
ActiveSettles == \A a \in Attempts :
    row[a] \in ACTIVE_STATUSES ~>
        \/ row[a] \in TERMINAL_STATUSES
        \/ Parked(a) \/ Refused(a)
        \/ \E b \in Attempts : Barred(b)

----------------------------------------------------------------------------
\* The rows, read as the shop's book of attempts.
BookOf(status) ==
    CASE status = "absent"    -> "none"
      [] status = "success"   -> "paid"
      [] status \in {"cancelled", "failed"} -> status
      [] OTHER                -> "open"

Ledger == INSTANCE PaymentLedger WITH book <- [a \in Attempts |-> BookOf(row[a])]

\* Every step of every thread is a legal entry of the ledger or leaves it alone:
\* paid once per bill, nothing opened after that, no settled attempt reopened.
LedgerKept == Ledger!LedgerSpec
==============================================================================
