----------------------------- MODULE CashClose -----------------------------
(***************************************************************************)
(* The money in the cash box, day by day: snapshots of the hopper, the     *)
(* close of each day with its report, and the poller that makes both, on   *)
(* command of the office or by itself in the evening                       *)
(* (src/tiger_pay/poller.py, cash_inventory.py, cash_repos.py).  Every     *)
(* payment puts one piece into the hopper, every voucher takes one out.    *)
(***************************************************************************)
EXTENDS Integers, FiniteSets

CONSTANTS
  Processes,     \* worker processes of the Tiger Pay service
  MaxDay, MaxPayments, MaxPayouts, MaxCommands,  \* bounds: days, cash payments,
                                                 \* vouchers paid, commands
  MaxTroubles,   \* bound: calls that raise and processes that die, together
  Nobody

ASSUME CashAssumption ==
  /\ MaxDay \in Nat \ {0} /\ MaxPayments \in Nat /\ MaxPayouts \in Nat
  /\ MaxCommands \in Nat
  /\ MaxTroubles \in Nat /\ Nobody \notin Processes

Days == 1..MaxDay
Payments == 1..MaxPayments   \* in the order they are made
Commands == 1..MaxCommands   \* in the order of requested_at
None == -1                   \* no count was taken

VARIABLES
  day, late,  \* the day in Bangkok, and whether tiger_pay_eod_hour has come
  hopper,     \* pieces in the hopper
  payment,    \* how far each payment is, and the day it was made
  paidout,    \* vouchers the cash box has paid, up to each day
  first,      \* the count of the first cash_snapshot of each day
  close,      \* daily_close
  command,    \* cash_command
  leader, up, \* the process that holds the poller's lock; the processes running
  poller,     \* the point of its cycle the poller is at
  troubles

till == <<hopper, payment, paidout>>
vars == <<day, late, till, first, close, command, leader, up, poller, troubles>>

Unpaid == [state |-> "none", day |-> 0]
NoCommand == [kind |-> "none", day |-> 0, status |-> "none"]
NotClosed == [opening |-> None, closing |-> None, in |-> 0]
\* command: the one being served, 0 for the close of the evening; closing: the day to
\* close; firstOf: the day whose first snapshot is the one just taken; opening, listed:
\* what freeze_daily_close has read so far.
Rest == [pc |-> "down", command |-> 0, closing |-> 0, count |-> None, firstOf |-> 0,
         opening |-> 0, listed |-> {}]
Cycle == [Rest EXCEPT !.pc = "poll"]
Eod == [Rest EXCEPT !.pc = "eod"]

At(pc) == poller.pc = pc
Goto(pc) == poller' = [poller EXCEPT !.pc = pc]
Serving == poller.command # 0
Trouble == troubles < MaxTroubles /\ troubles' = troubles + 1
In(p, states) == payment[p].state \in states
get_current == {p \in Payments : In(p, {"paying"})}

Init ==
  /\ day = 1 /\ late = FALSE
  /\ hopper = 0 /\ payment = [p \in Payments |-> Unpaid] /\ paidout = [d \in Days |-> 0]
  /\ first = [d \in Days |-> None] /\ close = [d \in Days |-> NotClosed]
  /\ command = [c \in Commands |-> NoCommand]
  /\ leader = Nobody /\ up = {} /\ poller = Rest
  /\ troubles = 0

(***************************************************************************)
(* The cash box, the office and the clock.                                 *)
(***************************************************************************)
Insert(p) ==
  /\ In(p, {"none"}) /\ \A q \in 1..p-1 : ~In(q, {"none", "paying"})
  /\ payment' = [payment EXCEPT ![p] = [state |-> "paying", day |-> day]]
  /\ hopper' = hopper + 1
  /\ UNCHANGED <<day, late, paidout, first, close, command, leader, up, poller, troubles>>

Complete(p) ==
  /\ In(p, {"paying"})
  /\ payment' = [payment EXCEPT ![p].state = "paid"]
  /\ UNCHANGED <<day, late, hopper, paidout, first, close, command, leader, up, poller, troubles>>

PayOut ==
  /\ hopper > 0 /\ get_current = {} /\ paidout[MaxDay] < MaxPayouts
  /\ hopper' = hopper - 1
  /\ paidout' = [d \in Days |-> paidout[d] + IF d >= day THEN 1 ELSE 0]
  /\ UNCHANGED <<day, late, payment, first, close, command, leader, up, poller, troubles>>

Evening ==
  /\ ~late /\ late' = TRUE
  /\ UNCHANGED <<day, till, first, close, command, leader, up, poller, troubles>>

\* (Bound: the last day does not end.)
Midnight ==
  /\ late /\ day < MaxDay
  /\ day' = day + 1 /\ late' = FALSE
  /\ UNCHANGED <<till, first, close, command, leader, up, poller, troubles>>

\* A row of cash_command: to take a snapshot, or to close a day that has begun.
Request(c, kind, d) ==
  /\ command[c].kind = "none" /\ \A b \in 1..c-1 : command[b].kind # "none"
  /\ kind = "refresh" => d = day
  /\ command' = [command EXCEPT ![c] = [kind |-> kind, day |-> d, status |-> "pending"]]
  /\ UNCHANGED <<day, late, till, first, close, leader, up, poller, troubles>>

(***************************************************************************)
(* Snapshots.                                                              *)
(***************************************************************************)
insert_cash_snapshot == first' = [first EXCEPT ![day] = IF @ = None THEN hopper ELSE @]

\* payment_transaction gets its row; the webhook may come late, or never.  The
\* snapshot after it does not ask whether the box is busy, and may fail.
ingest_webhook(p) ==
  /\ In(p, {"paid"}) /\ up # {}
  /\ payment' = [payment EXCEPT ![p].state = "ingested"]
  /\ insert_cash_snapshot \/ UNCHANGED first
  /\ UNCHANGED <<day, late, hopper, paidout, close, command, leader, up, poller, troubles>>

\* The companion asks for a live count.
cached_or_live_cash ==
  /\ up # {} /\ get_current = {} /\ insert_cash_snapshot /\ first' # first
  /\ UNCHANGED <<day, late, till, close, command, leader, up, poller, troubles>>

(***************************************************************************)
(* The poller's cycle.                                                     *)
(***************************************************************************)
\* The snapshot of the start is skipped when the box is busy.
Start(p) ==
  /\ p \notin up /\ up' = up \cup {p}
  /\ IF leader = Nobody
     THEN /\ leader' = p /\ poller' = Cycle
          /\ IF get_current = {} THEN insert_cash_snapshot ELSE UNCHANGED first
     ELSE UNCHANGED <<leader, poller, first>>
  /\ UNCHANGED <<day, late, till, close, command, troubles>>

\* The other processes asked for the lock when they started, and do not ask again.
Die(p) ==
  /\ p \in up /\ Trouble
  /\ up' = up \ {p}
  /\ IF leader = p THEN leader' = Nobody /\ poller' = Rest ELSE UNCHANGED <<leader, poller>>
  /\ UNCHANGED <<day, late, till, first, close, command>>

\* The attempts are polled and the unconfirmed sends looked for; an exception of
\* any of them leaves out the rest of the cycle.
_poll_active_once ==
  /\ At("poll")
  /\ \/ Goto("claim") /\ UNCHANGED troubles
     \/ Trouble /\ poller' = Cycle
  /\ UNCHANGED <<day, late, till, first, close, command, leader, up>>

Pending == {c \in Commands : command[c].status = "pending"}

\* The oldest pending command; when the answer is lost nobody serves it.
claim_next_cash_command ==
  /\ At("claim")
  /\ \/ Pending = {} /\ poller' = Eod /\ UNCHANGED <<command, troubles>>
     \/ \E c \in Pending :
          /\ \A b \in Pending : c <= b
          /\ command' = [command EXCEPT ![c].status = "running"]
          /\ \/ poller' = [poller EXCEPT !.pc = "busy", !.command = c, !.closing = command[c].day] /\ UNCHANGED troubles
             \/ Trouble /\ poller' = Eod
  /\ UNCHANGED <<day, late, till, first, close, leader, up>>

\* At the hour, and again in every cycle until the day is closed.
maybe_run_eod ==
  /\ At("eod")
  /\ IF late /\ close[day] = NotClosed
     THEN poller' = [Cycle EXCEPT !.pc = "busy", !.closing = day]
     ELSE poller' = Cycle
  /\ UNCHANGED <<day, late, till, first, close, command, leader, up, troubles>>

\* A command has its answer: what was read for it is forgotten.
Answer(pc) ==
  poller' = [Rest EXCEPT !.pc = pc, !.command = poller.command, !.closing = poller.closing]

\* Mutant: a command without a count is done.
no_snapshot_done == IF Serving THEN Answer("done") ELSE poller' = Cycle

\* A command without a snapshot has failed; the evening's close is tried again.
NoSnapshot == IF Serving THEN Answer("failed") ELSE poller' = Cycle

\* capture_snapshot asks first whether a payment is in flight.
SnapshotBusy ==
  /\ At("busy")
  /\ IF get_current # {} THEN NoSnapshot ELSE Goto("count")
  /\ UNCHANGED <<day, late, till, first, close, command, leader, up, troubles>>

\* The count, or a GET that failed.
capture_snapshot ==
  /\ At("count")
  /\ \/ /\ insert_cash_snapshot /\ UNCHANGED troubles
        /\ IF Serving /\ command[poller.command].kind = "refresh" THEN Answer("done")
           ELSE poller' = [poller EXCEPT !.pc = "freeze", !.count = hopper,
                             !.firstOf = IF first[day] = None THEN day ELSE 0]
     \/ Trouble /\ NoSnapshot /\ UNCHANGED first
  /\ UNCHANGED <<day, late, till, close, command, leader, up>>

Earlier(d) == {e \in 1..d-1 : close[e] # NotClosed}

\* The closing count of the day closed last before d, else the first of d unless it
\* is the closing count itself, else nothing.
Opening(d) ==
  IF Earlier(d) # {} THEN close[CHOOSE e \in Earlier(d) : \A f \in Earlier(d) : f <= e].closing
  ELSE IF first[d] # None /\ poller.firstOf # d THEN first[d]
  ELSE 0

\* The day is closed: the command is done, the evening's cycle is over.
Closed == IF Serving THEN Answer("done") ELSE poller' = Cycle

\* A day is closed once.  A closed day ends the matter; of the reads for the others no
\* other process writes the rows: the closes are the poller's, and a day has its first
\* snapshot when it is counted, or has ended.
freeze_daily_close ==
  /\ At("freeze")
  /\ \/ close[poller.closing] # NotClosed /\ Closed /\ UNCHANGED troubles
     \/ /\ close[poller.closing] = NotClosed /\ UNCHANGED troubles
        /\ poller' = [poller EXCEPT !.pc = "list", !.opening = Opening(poller.closing)]
     \/ Trouble /\ NoSnapshot
  /\ UNCHANGED <<day, late, till, first, close, command, leader, up>>

\* Mutant: the transactions of every day are listed.
list_payment_transactions(d) == {p \in Payments : In(p, {"ingested"})}

list_payment_transactions_for_day(d) ==
  {p \in Payments : In(p, {"ingested"}) /\ payment[p].day = d}

\* A payment whose webhook comes after this is not in the report.
ListPayments ==
  /\ At("list")
  /\ \/ /\ poller' = [poller EXCEPT !.pc = "insert",
                       !.listed = list_payment_transactions_for_day(poller.closing)]
        /\ UNCHANGED troubles
     \/ Trouble /\ NoSnapshot
  /\ UNCHANGED <<day, late, till, first, close, command, leader, up>>

build_daily_report ==
  [opening |-> poller.opening, closing |-> poller.count, in |-> Cardinality(poller.listed)]

\* On conflict do nothing.  When the call raises the insert may have been made.
insert_daily_close ==
  LET inserted == [close EXCEPT ![poller.closing] =
                    IF @ = NotClosed THEN build_daily_report ELSE @]
  IN  /\ At("insert")
      /\ \/ close' = inserted /\ Closed /\ UNCHANGED troubles
         \/ Trouble /\ close' \in {close, inserted} /\ NoSnapshot
      /\ UNCHANGED <<day, late, till, first, command, leader, up>>

\* Mutant: only success is written.
finish_if_done ==
  /\ poller.pc \in {"done", "failed"} /\ poller' = Eod
  /\ command' = IF At("done") THEN [command EXCEPT ![poller.command].status = "done"]
                ELSE command
  /\ UNCHANGED <<day, late, till, first, close, leader, up, troubles>>

\* The command is done; when that raises it has failed; when that raises, too, it
\* stays as it is.
finish_cash_command ==
  LET status == [command EXCEPT ![poller.command].status = poller.pc]
  IN  /\ poller.pc \in {"done", "failed"}
      /\ \/ command' = status /\ poller' = Eod /\ UNCHANGED troubles
         \/ /\ Trouble /\ command' \in {command, status}
            /\ IF At("done") THEN Answer("failed") ELSE poller' = Eod
      /\ UNCHANGED <<day, late, till, first, close, leader, up>>

Poll ==
  \/ _poll_active_once \/ claim_next_cash_command \/ SnapshotBusy \/ capture_snapshot
  \/ freeze_daily_close \/ ListPayments \/ insert_daily_close
  \/ finish_cash_command \/ maybe_run_eod

Next ==
  \/ Poll
  \/ \E p \in Payments : Insert(p) \/ Complete(p) \/ ingest_webhook(p)
  \/ PayOut \/ Evening \/ Midnight \/ cached_or_live_cash
  \/ \E c \in Commands, kind \in {"refresh", "close"}, d \in 1..day : Request(c, kind, d)
  \/ \E p \in Processes : Start(p) \/ Die(p)

Spec == Init /\ [][Next]_vars

\* The poller goes on, a dead process is started again, a payment comes to its end.
FairSpec ==
  /\ Spec /\ WF_vars(Poll)
  /\ \A p \in Processes : WF_vars(Start(p))
  /\ \A p \in Payments : WF_vars(Complete(p))

-----------------------------------------------------------------------------
\* A close the office is told was done was done.
DoneIsClosed ==
  \A c \in Commands : command[c].kind = "close" /\ command[c].status = "done"
    => close[command[c].day] # NotClosed

\* The report of a closed day never changes.
ClosesStay == [][\A d \in Days : close[d] # NotClosed => close'[d] = close[d]]_close

\* hopper_actual - hopper_expected.
Variance(d) == close[d].closing - close[d].opening - close[d].in

PaidUpTo(d) == IF d = 0 THEN 0 ELSE paidout[d]

\* The money the box holds that came in and went out before d.
Before(d) == Cardinality({p \in Payments : payment[p].day \in 1..d-1}) - PaidUpTo(d-1)

\* The payments of the day whose webhook came after the list, or has yet to come.
Unlisted(d) == {p \in Payments : payment[p].day = d} \ poller.listed

\* The close of today balances to the counts: the box holds what was counted, and
\* the day before was closed on what the box held at its end.
OnTheCount(d) ==
  d = day /\ poller.count = hopper /\ d-1 \in Earlier(d) /\ close[d-1].closing = Before(d)

\* The variance of such a close is the payments the list had not heard of, less what
\* vouchers took out of the box.
CountedDayBalances ==
  [][\A d \in Days : close[d] = NotClosed /\ close'[d] # NotClosed /\ OnTheCount(d)
       => Variance(d)' = Cardinality(Unlisted(d)) - (PaidUpTo(d) - PaidUpTo(d-1))]_close

ReportsHold == ClosesStay /\ CountedDayBalances

\* A command is answered, unless a call raised or the poller died on it.
CommandServed ==
  \A c \in Commands : command[c].status = "pending" ~>
    \/ command[c].status \in {"done", "failed"}
    \/ command[c].status = "running" /\ troubles > 0

\* Every evening the day is closed, unless midnight comes first.
EveningCloses == late /\ close[day] = NotClosed ~> ~late \/ close[day] # NotClosed

Served == CommandServed /\ EveningCloses
=============================================================================
