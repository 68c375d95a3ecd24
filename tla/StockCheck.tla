----------------------------- MODULE StockCheck -----------------------------
(***************************************************************************)
(* The stock count of one branch: sessions lease products, count them,     *)
(* and another person audits each count before it is posted to PARTS9      *)
(* (src/stock_check/service.py).  Handlers run in threads.  Every method   *)
(* of LocalStore is a SQLite transaction of its own, and PARTS9 is another *)
(* database: a handler is a sequence of such calls, one action each; the   *)
(* reads it makes in a row are one action.  The work events and the two    *)
(* mirrors, which decide nothing here, are left out.                       *)
(***************************************************************************)
EXTENDS Integers, FiniteSets, SequencesExt

CONSTANTS
  Threads,     \* handlers that can be in progress at once
  People,      \* LINE users
  Sessions,    \* session ids (a new link opens a new session)
  Products,
  Drafts,      \* draft ids
  Opening,     \* QTYBEG2 plus the bills before the model begins
  MaxCount,    \* bound: the largest quantity counted
  MaxDay,      \* bound: days that pass
  MaxBills,    \* bound: bills that others write to PARTS9
  MaxCrashes,  \* bound: handlers that die between two calls
  Nobody, NoSession, NoProduct, NoDraft

ASSUME StockAssumption ==
  /\ Opening \in Int /\ MaxCount \in Nat /\ MaxDay \in Nat
  /\ MaxBills \in Nat /\ MaxCrashes \in Nat
  /\ Nobody \notin People /\ NoSession \notin Sessions
  /\ NoProduct \notin Products /\ NoDraft \notin Drafts

VARIABLES
  who,       \* sessions.line_user_id; Nobody while the session does not exist
  live,      \* the sessions with no ended_at
  lease,     \* leases.status of each session and product; "stale" is a row
             \* that is leased and past its expires_at
  draft,     \* the drafts table
  rejected,  \* the drafts that have a draft_rejections row
  audits,    \* audit_outbox rows written for each draft
  onhand,    \* PARTS9: ICMAS.QTYOH2
  moved,     \* PARTS9: net quantity of the bills dated up to each day
  bills,     \* PARTS9: the variances of the SA bills posted for each draft
  day,
  job,       \* the handler each thread runs
  others,    \* bills written by others so far
  late,      \* products one of those bills reached before QTYOH2 did
  alone,     \* so far no two handlers overlapped, and no bill of others fell
             \* between a read of QTYOH2 and the write that depends on it
  crashes

local == <<who, live, lease, draft, rejected, audits>>
parts9 == <<onhand, moved, bills>>
outside == <<day, others, late>>
vars == <<local, parts9, outside, job, alone, crashes>>

Statuses == {"none", "pending", "recheck", "rejected", "posted", "completed",
             "completed_unexplained"}
Open == {"pending", "recheck"}
Final == Statuses \ (Open \cup {"none"})
LeaseStates == {"none", "leased", "stale", "done", "released"}
Held == {"leased", "stale"}
Days == 0..MaxDay
Counts == 0..MaxCount
QtyRead == {"sync.write", "submit.draft", "edit.write", "recount.write", "approve.post"}

NoRow == [b |-> NoProduct, op |-> Nobody, appr |-> Nobody, status |-> "none",
          counted |-> 0, sys |-> 0, var |-> 0, edited |-> FALSE,
          made |-> 0, updated |-> 0]
Idle == [pc |-> "idle", s |-> NoSession, b |-> NoProduct, d |-> NoDraft,
         picked |-> {}, seen |-> [p \in Products |-> 0], counted |-> 0,
         sys |-> 0, var |-> 0, odd |-> FALSE]

(***************************************************************************)
(* Leases.                                                                 *)
(***************************************************************************)
expire_stale_leases ==
  [s \in Sessions |-> [b \in Products |->
    IF lease[s][b] = "stale" THEN "released" ELSE lease[s][b]]]

active_leased_bcodes(l) == {b \in Products : \E s \in Sessions : l[s][b] \in Held}
open_bcodes == {draft[d].b : d \in {e \in Drafts : draft[e].status \in Open}}
get_active_lease_for_bcode(l, b) == {s \in Sessions : l[s][b] = "leased"}

Settle(l, s, bs, status) ==
  [l EXCEPT ![s] = [b \in Products |-> IF b \in bs /\ @[b] \in Held
                                       THEN status ELSE @[b]]]
mark_lease_done(l, s, b) == Settle(l, s, {b}, "done")

\* Mutant: the UPDATE does not ask for status = 'leased'.
extend_any(l, s) ==
  [l EXCEPT ![s] = [b \in Products |-> IF @[b] \in {"none", "done"} THEN @[b]
                                       ELSE "leased"]]
extend_leases(l, s) == Settle(l, s, Products, "leased")

(***************************************************************************)
(* Stock.                                                                  *)
(***************************************************************************)
\* A bill of today brings n units.
Dated(b, n) == [moved EXCEPT ![b] = [k \in Days |-> IF k >= day THEN @[k] + n ELSE @[k]]]

\* The bills of the day first and later.
Since(b, first) == moved[b][MaxDay] - IF first = 0 THEN 0 ELSE moved[b][first - 1]

\* QTYBEG2 + purchases - sales.
Ledger(b) == Opening + Since(b, 0)

\* BILLDATE is the midnight of the day and is compared with a time of that
\* day, so that a bill of the day itself is never listed.
list_stock_movements(b, since) == Since(b, since + 1)

_drift_since_ts(d) == IF draft[d].edited THEN draft[d].updated ELSE draft[d].made

_analyze_drift(d) ==
  LET drift == onhand[draft[d].b] - draft[d].sys
  IN  drift # 0 /\ drift # list_stock_movements(draft[d].b, _drift_since_ts(d))

(***************************************************************************)
(* Control.                                                                *)
(***************************************************************************)
Free(t) == job[t].pc = "idle"
Go(t, rec) == job' = [job EXCEPT ![t] = rec]
Goto(t, pc) == job' = [job EXCEPT ![t].pc = pc]
Return(t) == Go(t, Idle)

\* A handler begins; alone says whether the handlers ran one after another.
Begin(t, rec) ==
  /\ Free(t)
  /\ Go(t, rec)
  /\ alone' = (alone /\ \A u \in Threads : Free(u))

Init ==
  /\ who = [s \in Sessions |-> Nobody] /\ live = {}
  /\ lease = [s \in Sessions |-> [b \in Products |-> "none"]]
  /\ draft = [d \in Drafts |-> NoRow]
  /\ rejected = {} /\ audits = [d \in Drafts |-> 0]
  /\ onhand = [b \in Products |-> Opening]
  /\ moved = [b \in Products |-> [k \in Days |-> 0]]
  /\ bills = [d \in Drafts |-> <<>>]
  /\ day = 0 /\ others = 0 /\ late = {}
  /\ job = [t \in Threads |-> Idle]
  /\ alone = TRUE /\ crashes = 0

(***************************************************************************)
(* Sessions and the passing of time.                                       *)
(***************************************************************************)
\* The user's earlier sessions end and their leases are released.
create_session(p, s) ==
  LET prior == {r \in live : who[r] = p}
  IN  /\ who[s] = Nobody
      /\ who' = [who EXCEPT ![s] = p]
      /\ live' = (live \ prior) \cup {s}
      /\ lease' = [r \in Sessions |->
                    IF r \in prior THEN Settle(lease, r, Products, "released")[r]
                    ELSE lease[r]]
      /\ UNCHANGED <<draft, rejected, audits, parts9, outside, job, alone, crashes>>

end_session(s) ==
  /\ s \in live
  /\ live' = live \ {s}
  /\ lease' = Settle(lease, s, Products, "released")
  /\ UNCHANGED <<who, draft, rejected, audits, parts9, outside, job, alone, crashes>>

\* The idle time of a lease runs out.
Lapse(s, b) ==
  /\ lease[s][b] = "leased"
  /\ lease' = [lease EXCEPT ![s][b] = "stale"]
  /\ UNCHANGED <<who, live, draft, rejected, audits, parts9, outside, job, alone, crashes>>

\* Heartbeat, queue and product pages: expire, then extend what is left.
bump_leases(s) ==
  /\ s \in live
  /\ lease' = extend_leases(expire_stale_leases, s)
  /\ lease' # lease
  /\ UNCHANGED <<who, live, draft, rejected, audits, parts9, outside, job, alone, crashes>>

skip_item(s, b) ==
  /\ s \in live /\ lease[s][b] \in Held
  /\ lease' = [r \in Sessions |-> [c \in Products |->
                 IF r = s /\ c = b THEN "released"
                 ELSE IF lease[r][c] = "stale" THEN "released" ELSE lease[r][c]]]
  /\ UNCHANGED <<who, live, draft, rejected, audits, parts9, outside, job, alone, crashes>>

NextDay ==
  /\ day < MaxDay
  /\ day' = day + 1
  /\ UNCHANGED <<local, parts9, others, late, job, alone, crashes>>

\* A sale, a purchase or a transfer.  PARTS9 moves QTYOH2 with the bill, or
\* leaves it behind until somebody has the product recomputed.
Bill(b, n, applied) ==
  /\ others < MaxBills
  /\ others' = others + 1
  /\ moved' = Dated(b, n)
  /\ onhand' = IF applied THEN [onhand EXCEPT ![b] = @ + n] ELSE onhand
  /\ late' = IF applied THEN late ELSE late \cup {b}
  /\ alone' = (alone /\ \A t \in Threads : job[t].pc \notin QtyRead)
  /\ UNCHANGED <<local, bills, day, job, crashes>>

(***************************************************************************)
(* Take N: pick, lease, and recompute QTYOH2 of what was leased.           *)
(***************************************************************************)
\* pick_daily_products may pick any products that are not held or open.
TakeRead(t, s, picked) ==
  /\ s \in live
  /\ lease' = expire_stale_leases
  /\ picked # {}
  /\ picked \cap (active_leased_bcodes(lease') \cup open_bcodes) = {}
  /\ Begin(t, [Idle EXCEPT !.pc = "take.held", !.s = s, !.picked = picked])
  /\ UNCHANGED <<who, live, draft, rejected, audits, parts9, outside, crashes>>

\* The SELECT of claim_leases runs before the transaction of its INSERTs.
TakeHeld(t) ==
  /\ job[t].pc = "take.held"
  /\ Go(t, [job[t] EXCEPT !.pc = "take.claim",
                          !.picked = @ \ active_leased_bcodes(lease)])
  /\ UNCHANGED <<local, parts9, outside, alone, crashes>>

\* UNIQUE (session_id, bcode): a product the session had before is skipped.
claim_leases(t) ==
  /\ job[t].pc = "take.claim"
  /\ LET s == job[t].s
         claimed == {b \in job[t].picked : lease[s][b] = "none"}
     IN  /\ lease' = extend_leases([lease EXCEPT ![s] = [b \in Products |->
                       IF b \in claimed THEN "leased" ELSE @[b]]], s)
         /\ IF claimed = {} THEN Return(t)
            ELSE Go(t, [job[t] EXCEPT !.pc = "sync.read", !.picked = claimed])
  /\ UNCHANGED <<who, live, draft, rejected, audits, parts9, outside, alone, crashes>>

\* A search, or a product page.
lookup(t, s, b) ==
  /\ s \in live
  /\ lease' = expire_stale_leases
  /\ Begin(t, [Idle EXCEPT !.pc = "sync.read", !.s = s, !.picked = {b}])
  /\ UNCHANGED <<who, live, draft, rejected, audits, parts9, outside, crashes>>

\* sync_qtyoh2_for_bcodes sums the bills, then writes what differs.
SyncRead(t) ==
  /\ job[t].pc = "sync.read"
  /\ Go(t, [job[t] EXCEPT !.pc = "sync.write",
                          !.seen = [b \in Products |-> Ledger(b)]])
  /\ UNCHANGED <<local, parts9, outside, alone, crashes>>

SyncWrite(t) ==
  /\ job[t].pc = "sync.write"
  /\ onhand' = [b \in Products |->
                 IF b \in job[t].picked THEN job[t].seen[b] ELSE onhand[b]]
  /\ Return(t)
  /\ UNCHANGED <<local, moved, bills, outside, alone, crashes>>

(***************************************************************************)
(* Submit a count.                                                         *)
(***************************************************************************)
\* QTYOH2 is read, then _assert_can_submit looks for an open draft and for a
\* lease of another session.
SubmitRead(t, s, b, counted) ==
  /\ s \in live
  /\ lease' = expire_stale_leases
  /\ b \notin open_bcodes
  /\ get_active_lease_for_bcode(lease', b) \subseteq {s}
  /\ Begin(t, [Idle EXCEPT !.pc = "submit.draft", !.s = s, !.b = b,
                           !.seen = onhand, !.counted = counted])
  /\ UNCHANGED <<who, live, draft, rejected, audits, parts9, outside, crashes>>

\* The leases are bumped before.  A count that agrees with QTYOH2 is complete.
create_draft(t, d) ==
  LET j == job[t]
      sys == j.seen[j.b]
  IN  /\ j.pc = "submit.draft" /\ draft[d].status = "none"
      /\ draft' = [draft EXCEPT ![d] =
           [NoRow EXCEPT !.b = j.b, !.op = who[j.s], !.sys = sys,
                         !.counted = j.counted, !.var = j.counted - sys,
                         !.status = IF j.counted = sys THEN "completed" ELSE "pending",
                         !.made = day, !.updated = day]]
      /\ lease' = extend_leases(expire_stale_leases, j.s)
      /\ Go(t, [j EXCEPT !.pc = "submit.done", !.d = d])
      /\ UNCHANGED <<who, live, rejected, audits, parts9, outside, alone, crashes>>

\* mark_lease_done; a completed count goes on to its audit row.
SubmitDone(t) ==
  LET j == job[t]
  IN  /\ j.pc = "submit.done"
      /\ lease' = mark_lease_done(lease, j.s, j.b)
      /\ IF j.counted = j.seen[j.b] THEN Goto(t, "audit") ELSE Return(t)
      /\ UNCHANGED <<who, live, draft, rejected, audits, parts9, outside, alone, crashes>>

\* upsert_local_audit and the row of audit_outbox.
_enqueue_mirror(t) ==
  /\ job[t].pc = "audit"
  /\ audits' = [audits EXCEPT ![job[t].d] = @ + 1]
  /\ Return(t)
  /\ UNCHANGED <<who, live, lease, draft, rejected, parts9, outside, alone, crashes>>

(***************************************************************************)
(* The operator edits, withdraws or recounts; somebody else sends back.    *)
(* The status is checked on the row read; the write is by id alone.        *)
(***************************************************************************)
Mine(s, d) == s \in live /\ who[s] = draft[d].op
Theirs(s, d) == s \in live /\ who[s] # draft[d].op
ReadDraft(t, s, d, pc, counted) ==
  Begin(t, [Idle EXCEPT !.pc = pc, !.s = s, !.d = d, !.b = draft[d].b,
                        !.seen = onhand, !.counted = counted])

EditRead(t, s, d, counted) ==
  /\ draft[d].status = "pending" /\ Mine(s, d)
  /\ ReadDraft(t, s, d, "edit.write", counted)
  /\ UNCHANGED <<local, parts9, outside, crashes>>

ResubmitRead(t, s, d, counted) ==
  /\ draft[d].status = "recheck" /\ Mine(s, d)
  /\ ReadDraft(t, s, d, "recount.write", counted)
  /\ UNCHANGED <<local, parts9, outside, crashes>>

\* The new count against the QTYOH2 the handler read.
Recounted(t) ==
  LET j == job[t]
  IN  [draft[j.d] EXCEPT !.counted = j.counted, !.sys = j.seen[j.b],
                         !.var = j.counted - j.seen[j.b], !.updated = day]

edit_pending_draft(t) ==
  /\ job[t].pc = "edit.write"
  /\ draft' = [draft EXCEPT ![job[t].d] = [Recounted(t) EXCEPT !.edited = TRUE]]
  /\ Return(t)
  /\ UNCHANGED <<who, live, lease, rejected, audits, parts9, outside, alone, crashes>>

resubmit_recheck(t) ==
  /\ job[t].pc = "recount.write"
  /\ draft' = [draft EXCEPT ![job[t].d] = [Recounted(t) EXCEPT !.status = "pending"]]
  /\ Return(t)
  /\ UNCHANGED <<who, live, lease, rejected, audits, parts9, outside, alone, crashes>>

\* Mutant: the owner withdraws whatever the status is.
WithdrawAny(t, s, d) ==
  /\ draft[d].status # "none" /\ Mine(s, d)
  /\ ReadDraft(t, s, d, "withdraw.write", 0)
  /\ UNCHANGED <<local, parts9, outside, crashes>>

WithdrawRead(t, s, d) ==
  /\ draft[d].status \in Open /\ Mine(s, d)
  /\ ReadDraft(t, s, d, "withdraw.write", 0)
  /\ UNCHANGED <<local, parts9, outside, crashes>>

_withdraw_draft(t) ==
  /\ job[t].pc = "withdraw.write"
  /\ draft' = [draft EXCEPT ![job[t].d].status = "rejected",
                            ![job[t].d].appr = who[job[t].s],
                            ![job[t].d].updated = day]
  /\ Return(t)
  /\ UNCHANGED <<who, live, lease, rejected, audits, parts9, outside, alone, crashes>>

RejectRead(t, s, d) ==
  /\ draft[d].status = "pending" /\ Theirs(s, d)
  /\ ReadDraft(t, s, d, "reject.reason", 0)
  /\ UNCHANGED <<local, parts9, outside, crashes>>

add_rejection(t) ==
  /\ job[t].pc = "reject.reason"
  /\ rejected' = rejected \cup {job[t].d}
  /\ Goto(t, "reject.write")
  /\ UNCHANGED <<who, live, lease, draft, audits, parts9, outside, alone, crashes>>

reject_draft(t) ==
  /\ job[t].pc = "reject.write"
  /\ draft' = [draft EXCEPT ![job[t].d].status = "recheck",
                            ![job[t].d].appr = who[job[t].s],
                            ![job[t].d].updated = day]
  /\ Return(t)
  /\ UNCHANGED <<who, live, lease, rejected, audits, parts9, outside, alone, crashes>>

(***************************************************************************)
(* Approve: complete the draft when the stock agrees by now, or post the   *)
(* difference to PARTS9 and then close the draft.                          *)
(***************************************************************************)
\* A drift has to be confirmed, an unexplained one twice: a call without the
\* flags it needs changes nothing.
ApproveRead(t, s, d) ==
  LET row == draft[d]
      stock == onhand[row.b]
      done == row.counted = stock
  IN  /\ row.status = "pending" /\ Theirs(s, d)
      /\ Begin(t, [Idle EXCEPT
           !.pc = IF done THEN "approve.complete" ELSE "approve.begin",
           !.s = s, !.d = d, !.b = row.b,
           !.sys = IF done THEN row.sys ELSE stock,
           !.var = IF done THEN row.var ELSE row.counted - stock,
           !.odd = _analyze_drift(d)])
      /\ UNCHANGED <<local, parts9, outside, crashes>>

\* Mutant: the variance as it was counted.
closed_as_counted(t, status) ==
  [draft EXCEPT ![job[t].d].status = status, ![job[t].d].sys = job[t].sys,
                ![job[t].d].appr = who[job[t].s], ![job[t].d].updated = day]
Closed(t, status) ==
  [draft EXCEPT ![job[t].d].status = status,
                ![job[t].d].sys = job[t].sys, ![job[t].d].var = job[t].var,
                ![job[t].d].appr = who[job[t].s], ![job[t].d].updated = day]

\* The stock agrees with the count by now: no bill.
ApproveComplete(t) ==
  /\ job[t].pc = "approve.complete"
  /\ draft' = Closed(t, IF job[t].odd THEN "completed_unexplained" ELSE "completed")
  /\ Goto(t, "audit")
  /\ UNCHANGED <<who, live, lease, rejected, audits, parts9, outside, alone, crashes>>

\* The PARTS9 transaction reads QTYOH2 again, without a lock that lasts.
PostBegin(t) ==
  /\ job[t].pc = "approve.begin"
  /\ Go(t, [job[t] EXCEPT !.pc = "approve.post", !.seen = onhand])
  /\ UNCHANGED <<local, parts9, outside, alone, crashes>>

\* Mutant: SIDET.QTY is written with the opposite sign.
post_sale_sign(t) ==
  LET j == job[t]
  IN  /\ j.pc = "approve.post"
      /\ moved' = Dated(j.b, -j.var)
      /\ onhand' = [onhand EXCEPT ![j.b] = j.seen[j.b] + j.var]
      /\ bills' = [bills EXCEPT ![j.d] = Append(@, j.var)]
      /\ Goto(t, "approve.write")
      /\ UNCHANGED <<local, outside, alone, crashes>>

\* SIMAS and SIDET (QTY is minus the variance, MTP is 1), then QTYOH2, and the
\* commit.
post_stock_adjustment(t) ==
  LET j == job[t]
  IN  /\ j.pc = "approve.post"
      /\ moved' = Dated(j.b, j.var)
      /\ onhand' = [onhand EXCEPT ![j.b] = j.seen[j.b] + j.var]
      /\ bills' = [bills EXCEPT ![j.d] = Append(@, j.var)]
      /\ Goto(t, "approve.write")
      /\ UNCHANGED <<local, outside, alone, crashes>>

\* Mutant: the error of the writer does not end the handler.
post_error_ignored(t) ==
  /\ job[t].pc \in {"approve.begin", "approve.post"}
  /\ Goto(t, "approve.write")
  /\ UNCHANGED <<local, parts9, outside, alone, crashes>>

\* Rolled back: post_error is set, which also sets updated_at.
PostFails(t) ==
  /\ job[t].pc \in {"approve.begin", "approve.post"}
  /\ draft' = [draft EXCEPT ![job[t].d].updated = day]
  /\ Return(t)
  /\ UNCHANGED <<who, live, lease, rejected, audits, parts9, outside, alone, crashes>>

ApprovePosted(t) ==
  /\ job[t].pc = "approve.write"
  /\ draft' = Closed(t, "posted")
  /\ Goto(t, "audit")
  /\ UNCHANGED <<who, live, lease, rejected, audits, parts9, outside, alone, crashes>>

\* The process dies, or a call of the handler raises.
Crash(t) ==
  /\ ~Free(t) /\ crashes < MaxCrashes
  /\ crashes' = crashes + 1
  /\ Return(t)
  /\ UNCHANGED <<local, parts9, outside, alone>>

Handler(t) ==
  \/ TakeHeld(t) \/ claim_leases(t) \/ SyncRead(t) \/ SyncWrite(t)
  \/ \E d \in Drafts : create_draft(t, d)
  \/ SubmitDone(t) \/ _enqueue_mirror(t)
  \/ edit_pending_draft(t) \/ resubmit_recheck(t) \/ _withdraw_draft(t)
  \/ add_rejection(t) \/ reject_draft(t)
  \/ ApproveComplete(t) \/ PostBegin(t) \/ post_stock_adjustment(t)
  \/ PostFails(t) \/ ApprovePosted(t) \/ Crash(t)

Request(t, s) ==
  \/ \E picked \in SUBSET Products : TakeRead(t, s, picked)
  \/ \E b \in Products : lookup(t, s, b)
  \/ \E b \in Products, n \in Counts : SubmitRead(t, s, b, n)
  \/ \E d \in Drafts, n \in Counts : EditRead(t, s, d, n) \/ ResubmitRead(t, s, d, n)
  \/ \E d \in Drafts : WithdrawRead(t, s, d) \/ RejectRead(t, s, d) \/ ApproveRead(t, s, d)

Environment ==
  \/ \E p \in People, s \in Sessions : create_session(p, s)
  \/ \E s \in Sessions : end_session(s) \/ bump_leases(s)
  \/ \E s \in Sessions, b \in Products : Lapse(s, b) \/ skip_item(s, b)
  \/ NextDay
  \/ \E b \in Products, n \in {-1, 1}, applied \in BOOLEAN : Bill(b, n, applied)

Next ==
  \/ Environment
  \/ \E t \in Threads : Handler(t) \/ \E s \in Sessions : Request(t, s)

Spec == Init /\ [][Next]_vars

-----------------------------------------------------------------------------
\* Maker-checker: whatever races, a draft that was posted was approved by
\* somebody who is not its operator (_assert_can_approve, made on the row read).
MakerChecker ==
  \A d \in Drafts : draft[d].status \in {"posted", "completed_unexplained", "recheck"}
                     => draft[d].appr \in People \ {draft[d].op}

\* A posted draft has its SA bill in PARTS9, whatever races or dies
\* (post_stock_adjustment before update_draft).
PostedHasBill ==
  \A d \in Drafts : draft[d].status = "posted" => bills[d] # <<>>

\* A draft is never sent back without the reason its operator is to read.
SentBackWithReason ==
  \A d \in Drafts : draft[d].status = "recheck" => d \in rejected

\* Whatever races or dies, drafts are closed the way they should be.
ClosedProperly == MakerChecker /\ PostedHasBill /\ SentBackWithReason

\* While handlers run one after another, and even if they die half-way, a
\* product has one open draft (_assert_can_submit, open_bcodes).
OneOpenDraft ==
  alone => \A d, e \in Drafts :
             /\ draft[d].status \in Open /\ draft[e].status \in Open
             /\ draft[d].b = draft[e].b
             => d = e

\* ... a product is leased to one session (claim_leases, the expiry sweep).
LeasedToOne ==
  alone => \A s, r \in Sessions, b \in Products :
             lease[s][b] \in Held /\ lease[r][b] \in Held => s = r

OneHolder == OneOpenDraft /\ LeasedToOne

\* ... QTYOH2 is what the bills sum to, unless a bill of others reached it late
\* (the sign of SIDET.QTY, the snapshot the variance is applied to).
StockIsLedger ==
  alone => \A b \in Products : b \notin late => onhand[b] = Ledger(b)

\* ... a posted draft says what its bill says.
BillIsVariance ==
  alone => \A d \in Drafts : draft[d].status = "posted" =>
             /\ draft[d].var = draft[d].counted - draft[d].sys
             /\ Last(bills[d]) = draft[d].var

\* ... and, when none of them died, a draft has at most one bill, and exactly
\* one audit row once it is closed by a count.
ClosedOnce ==
  alone /\ crashes = 0 => \A d \in Drafts :
    /\ Len(bills[d]) <= 1
    /\ (\A t \in Threads : job[t].d # d) =>
         /\ audits[d] = IF draft[d].status \in Final \ {"rejected"} THEN 1 ELSE 0
         /\ (bills[d] # <<>>) <=> (draft[d].status = "posted")

CountedOnce == BillIsVariance /\ ClosedOnce

\* While handlers run one after another a closed draft is never reopened or
\* closed otherwise.
ClosedStaysClosed ==
  [][alone' => \A d \in Drafts : draft[d].status \in Final
                                  => draft'[d].status = draft[d].status]_vars

=============================================================================
