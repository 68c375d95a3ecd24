------------------------------ MODULE Transfer ------------------------------
(***************************************************************************)
(* One HQ <-> SYP transfer request: the draft, its submission, the ship    *)
(* bill, the receipts and the cancellation, as the handlers of             *)
(* app/routers/transfer.py run them.  A handler is a sequence of calls on  *)
(* two databases (Supabase `transfer.*`, and the PARTS9 of a branch), and  *)
(* nothing holds a lock across them: each call is an action here, and the  *)
(* reads a handler makes in a row before its first write are one action.   *)
(* A job is one handler in progress for one user.                          *)
(***************************************************************************)
EXTENDS Naturals, FiniteSets

CONSTANTS
  Users,        \* people (or threads of the two boxes) calling the handlers
  Lines,        \* the products of the request; one line per product
  Tokens,       \* client_token values
  MaxQty,       \* bound: the largest quantity asked for
  MaxEdits,     \* bound: how many times the lines are written
  MaxAborts,    \* bound: handlers that die between two calls
  ReuseTokens,  \* TRUE when a caller may repeat a client_token
  Stamping,     \* TRUE when TRANSFER_ICLOW_STAMP_ENABLED, at SYP
  NoToken, NoLine

ASSUME TransferAssumption ==
  /\ MaxQty \in Nat \ {0} /\ MaxEdits \in Nat \ {0} /\ MaxAborts \in Nat
  /\ IsFiniteSet(Users) /\ IsFiniteSet(Tokens)
  /\ ReuseTokens \in BOOLEAN /\ Stamping \in BOOLEAN
  /\ NoToken \notin Tokens /\ NoLine \notin Lines

VARIABLES
  status,    \* transfer.requests.status; "absent" once the draft is deleted
  line,      \* transfer.lines: the row of each product
  ship,      \* transfer.shipments and shipment_lines, by client_token
  receipts,  \* the client_tokens of transfer.receipts
  iclow,     \* the SYP low-stock (ICLOW) row of each product
  shipped,   \* PARTS9: quantity on the ship bills (SIMAS) of this request
  taken,     \* PARTS9: quantity on its receive bills (PIMAS)
  bills,     \* PARTS9: how many ship bills this request has
  edits,     \* edits begun so far; the rows of an edit have its number as id
  used,      \* client_tokens a handler was called with
  job,       \* the handler each user has in progress
  aborts

vars == <<status, line, ship, receipts, iclow, shipped, taken, bills, edits,
          used, job, aborts>>
parts9 == <<shipped, taken, bills>>
supabase == <<status, line, ship, receipts, edits>>

Quantity == [Lines -> 0..MaxQty]
None == [l \in Lines |-> 0]
NoRow == [id |-> 0, req |-> 0, prep |-> 0, recv |-> 0, link |-> FALSE]
NoShip == [made |-> FALSE, qty |-> None, got |-> None, posted |-> FALSE]
Idle == [pc |-> "idle", tok |-> NoToken, sid |-> NoToken, want |-> None,
         ids |-> None, left |-> {}, cur |-> NoLine, marks |-> {},
         seen |-> "absent"]

(***************************************************************************)
(* Helpers.                                                                *)
(***************************************************************************)
Present == {l \in Lines : line[l].id # 0}
Body(want) == {l \in Lines : want[l] > 0}
HasShipments == \E t \in Tokens : ship[t].made
HasLines(t) == \E l \in Lines : ship[t].qty[l] > 0
Ids == [l \in Lines |-> line[l].id]

\* The row a job read is still there (an edit deletes rows and inserts others).
StillThere(u, l) == line[l].id # 0 /\ line[l].id = job[u].ids[l]

Plus(total, want) == [l \in Lines |-> total[l] + want[l]]

Go(u, rec) == job' = [job EXCEPT ![u] = rec]
Goto(u, pc) == job' = [job EXCEPT ![u].pc = pc]
Return(u) == Go(u, Idle)

\* Line l of the job is done: on to the next one, or to pc when it was the last.
Done(u, l, again, pc) ==
  LET rest == job[u].left \ {l}
  IN  Go(u, IF rest # {} THEN [job[u] EXCEPT !.pc = again, !.left = rest,
                                             !.cur = NoLine]
            ELSE IF pc = "idle" THEN Idle
            ELSE [job[u] EXCEPT !.pc = pc, !.left = {}, !.cur = NoLine])

\* Mutant: the final status of before the three-status migration.
derive_with_complete(header) ==
  IF header = "cancelled" THEN "cancelled"
  ELSE IF \E l \in Lines : line[l].recv > 0 THEN "complete" ELSE "requested"

\* No code sets lines.cancelled_at, so every line of the request is considered.
derive_request_status(header) ==
  LET prepared == {l \in Lines : line[l].prep > 0}
      open == {l \in Lines : line[l].recv < line[l].prep}
  IN  CASE header \in {"absent", "draft"} -> "draft"
        [] header = "cancelled" -> "cancelled"
        [] OTHER -> IF open # {} \/ (HasShipments /\ prepared = {})
                    THEN "prepared"
                    ELSE IF prepared # {} THEN "received" ELSE "requested"

Init ==
  /\ status = "draft"
  /\ line = [l \in Lines |-> NoRow]
  /\ ship = [t \in Tokens |-> NoShip]
  /\ receipts = {}
  /\ iclow \in [Lines -> {"none", "open"}]
  /\ shipped = None /\ taken = None /\ bills = 0
  /\ edits = 0 /\ used = {} /\ aborts = 0
  /\ job = [u \in Users |-> Idle]

(***************************************************************************)
(* Edit a draft: delete every line, insert the new ones.                   *)
(***************************************************************************)
EditRead(u, want) ==
  /\ job[u] = Idle /\ status = "draft" /\ edits < MaxEdits
  /\ edits' = edits + 1
  /\ Go(u, [Idle EXCEPT !.pc = "edit.delete", !.want = want,
                        !.ids = [l \in Lines |-> edits + 1]])
  /\ UNCHANGED <<status, line, ship, receipts, parts9, iclow, used, aborts>>

\* shipment_lines reference lines ON DELETE CASCADE.
EditDelete(u) ==
  /\ job[u].pc = "edit.delete"
  /\ line' = [l \in Lines |-> NoRow]
  /\ ship' = [t \in Tokens |-> [ship[t] EXCEPT !.qty = None, !.got = None]]
  /\ IF Body(job[u].want) = {} THEN Return(u) ELSE Goto(u, "edit.insert")
  /\ UNCHANGED <<status, receipts, edits, parts9, iclow, used, aborts>>

\* The rows get fresh ids.  The insert fails on a product that another edit
\* inserted first, and on a request that is gone.
EditInsert(u) ==
  /\ job[u].pc = "edit.insert"
  /\ line' = IF status = "absent" \/ Body(job[u].want) \cap Present # {} THEN line
             ELSE [l \in Lines |->
                    IF job[u].want[l] = 0 THEN line[l]
                    ELSE [NoRow EXCEPT !.id = job[u].ids[l], !.req = job[u].want[l]]]
  /\ Return(u)
  /\ UNCHANGED <<status, ship, receipts, edits, parts9, iclow, used, aborts>>

\* DELETE ... WHERE status = 'draft'; lines and shipments cascade.
DeleteDraft(u) ==
  /\ job[u] = Idle /\ status = "draft"
  /\ status' = "absent"
  /\ line' = [l \in Lines |-> NoRow]
  /\ ship' = [t \in Tokens |-> NoShip]
  /\ UNCHANGED <<receipts, edits, parts9, iclow, used, job, aborts>>

(***************************************************************************)
(* Submit, then stamp the ICLOW row of each line it read.                  *)
(***************************************************************************)
SubmitRead(u) ==
  /\ job[u] = Idle /\ status # "absent" /\ Present # {}
  /\ Go(u, [Idle EXCEPT !.pc = "submit.write", !.ids = Ids, !.left = Present])
  /\ UNCHANGED <<supabase, parts9, iclow, used, aborts>>

\* UPDATE ... WHERE status = 'draft'.
SubmitWrite(u) ==
  /\ job[u].pc = "submit.write"
  /\ IF status # "draft" THEN status' = status /\ Return(u)
     ELSE /\ status' = derive_request_status("requested")
          /\ IF Stamping THEN Goto(u, "submit.stamp") ELSE Return(u)
  /\ UNCHANGED <<line, ship, receipts, edits, parts9, iclow, used, aborts>>

stamp_on_submit(u, l) ==
  /\ job[u].pc = "submit.stamp" /\ l \in job[u].left
  /\ IF iclow[l] # "open" THEN iclow' = iclow /\ Done(u, l, "submit.stamp", "idle")
     ELSE /\ iclow' = [iclow EXCEPT ![l] = "ordered"]
          /\ Go(u, [job[u] EXCEPT !.pc = "submit.link", !.cur = l,
                                  !.marks = @ \cup {l}])
  /\ UNCHANGED <<supabase, parts9, used, aborts>>

\* The line remembers which ICLOW row carries its stamp.
StampLink(u) ==
  /\ job[u].pc = "submit.link"
  /\ line' = [line EXCEPT ![job[u].cur].link = @ \/ StillThere(u, job[u].cur)]
  /\ Done(u, job[u].cur, "submit.stamp", "idle")
  /\ UNCHANGED <<status, ship, receipts, edits, parts9, iclow, used, aborts>>

\* PARTS9 refuses a stamp: the rows stamped so far are to be reverted.  The
\* request stays submitted.
StampFails(u) ==
  /\ job[u].pc = "submit.stamp"
  /\ IF job[u].marks = {} THEN Return(u)
     ELSE Go(u, [job[u] EXCEPT !.pc = "submit.undo", !.left = job[u].marks])
  /\ UNCHANGED <<supabase, parts9, iclow, used, aborts>>

\* RECEIVED is left alone, so a received row stays received.
revert_on_cancel(l) ==
  iclow' = [iclow EXCEPT ![l] = IF @ = "ordered" THEN "open" ELSE @]

StampUndo(u, l) ==
  /\ job[u].pc = "submit.undo" /\ l \in job[u].left
  /\ revert_on_cancel(l) \/ iclow' = iclow    \* a second failure is ignored
  /\ Done(u, l, "submit.undo", "idle")
  /\ UNCHANGED <<supabase, parts9, used, aborts>>

(***************************************************************************)
(* Prepare: one ship bill in the PARTS9 of the branch that ships, then the *)
(* shipment, its lines, and the prepared quantity of each line.            *)
(***************************************************************************)
\* Mutant: the lines that are not prepared yet get a ship bill of their own.
PrepareRestRead(u, t, want) ==
  /\ job[u] = Idle /\ t \notin used /\ Body(want) # {}
  /\ status \in {"requested", "prepared"}
  /\ \A l \in Body(want) : line[l].id # 0 /\ line[l].prep + want[l] <= line[l].req
  /\ used' = used \cup {t}
  /\ Go(u, [Idle EXCEPT !.pc = "prepare.post", !.tok = t, !.want = want,
                        !.ids = Ids, !.left = Body(want)])
  /\ UNCHANGED <<supabase, parts9, iclow, aborts>>

TokenFor(t) == ReuseTokens \/ t \notin used

PrepareRead(u, t, want) ==
  /\ job[u] = Idle /\ TokenFor(t) /\ Body(want) # {}
  /\ ~HasShipments /\ status = "requested"
  /\ \A l \in Body(want) :
       line[l].id # 0 /\ line[l].prep = 0 /\ want[l] <= line[l].req
  /\ used' = used \cup {t}
  /\ Go(u, [Idle EXCEPT !.pc = "prepare.post", !.tok = t, !.want = want,
                        !.ids = Ids, !.left = Body(want)])
  /\ UNCHANGED <<supabase, parts9, iclow, aborts>>

\* Mutant: an error of the writer is swallowed and the handler goes on.
post_swallowing_errors(u) ==
  /\ job[u].pc = "prepare.post"
  /\ \/ shipped' = Plus(shipped, job[u].want) /\ bills' = bills + 1
     \/ UNCHANGED <<shipped, bills>>
  /\ Goto(u, "prepare.shipment")
  /\ UNCHANGED <<supabase, taken, iclow, used, aborts>>

\* One PARTS9 transaction, unless the token has a shipment by now.
post_transfer_ship(u) ==
  /\ job[u].pc = "prepare.post"
  /\ IF ship[job[u].tok].made
     THEN UNCHANGED <<shipped, bills>> /\ Goto(u, "prepare.lines")
     ELSE /\ shipped' = Plus(shipped, job[u].want)
          /\ bills' = bills + 1
          /\ Goto(u, "prepare.shipment")
  /\ UNCHANGED <<supabase, taken, iclow, used, aborts>>

create_shipment(u) ==
  /\ job[u].pc = "prepare.shipment"
  /\ IF ship[job[u].tok].made \/ status = "absent"
     THEN ship' = ship /\ Return(u)
     ELSE ship' = [ship EXCEPT ![job[u].tok].made = TRUE] /\ Goto(u, "prepare.lines")
  /\ UNCHANGED <<status, line, receipts, edits, parts9, iclow, used, aborts>>

add_shipment_lines(u) ==
  /\ job[u].pc = "prepare.lines"
  /\ IF HasLines(job[u].tok) THEN ship' = ship /\ Goto(u, "prepare.bump")
     ELSE IF ship[job[u].tok].made /\ \A l \in job[u].left : StillThere(u, l)
     THEN ship' = [ship EXCEPT ![job[u].tok].qty = job[u].want]
          /\ Goto(u, "prepare.bump")
     ELSE ship' = ship /\ Return(u)
  /\ UNCHANGED <<status, line, receipts, edits, parts9, iclow, used, aborts>>

\* Mutant: the handler returns after the last line, without a refresh.
bump_without_refresh(u, l) ==
  /\ job[u].pc = "prepare.bump" /\ l \in job[u].left
  /\ line' = [line EXCEPT ![l].prep = @ + job[u].want[l]]
  /\ Done(u, l, "prepare.bump", "idle")
  /\ UNCHANGED <<status, ship, receipts, edits, parts9, iclow, used, aborts>>

\* UPDATE ... WHERE qty_prepared + p_qty <= qty_requested, or the handler fails.
bump_line_prepared(u, l) ==
  /\ job[u].pc = "prepare.bump" /\ l \in job[u].left
  /\ IF StillThere(u, l) /\ line[l].prep + job[u].want[l] <= line[l].req
     THEN /\ line' = [line EXCEPT ![l].prep = @ + job[u].want[l]]
          /\ Done(u, l, "prepare.bump", "refresh.read")
     ELSE line' = line /\ Return(u)
  /\ UNCHANGED <<status, ship, receipts, edits, parts9, iclow, used, aborts>>

(***************************************************************************)
(* Receive: one receive bill in the PARTS9 of the branch that asked.       *)
(***************************************************************************)
ReceiveRead(u, s, t, want) ==
  /\ job[u] = Idle /\ TokenFor(t) /\ Body(want) # {}
  /\ ship[s].made /\ t \notin receipts
  /\ \A l \in Body(want) :
       /\ want[l] + ship[s].got[l] <= ship[s].qty[l]
       /\ want[l] + line[l].recv <= line[l].prep
  /\ used' = used \cup {t}
  /\ Go(u, [Idle EXCEPT !.pc = "receive.post", !.tok = t, !.sid = s,
                        !.want = want, !.ids = Ids, !.left = Body(want),
                        !.marks = {l \in Body(want) : Stamping /\ line[l].link}])
  /\ UNCHANGED <<supabase, parts9, iclow, aborts>>

\* With a receipt for the token the existing bill is returned, and the insert
\* of the receipt then fails.
post_transfer_receive(u) ==
  /\ job[u].pc = "receive.post"
  /\ IF job[u].tok \in receipts THEN taken' = taken /\ Return(u)
     ELSE taken' = Plus(taken, job[u].want) /\ Goto(u, "receive.receipt")
  /\ UNCHANGED <<supabase, shipped, bills, iclow, used, aborts>>

create_receipt(u) ==
  /\ job[u].pc = "receive.receipt"
  /\ IF job[u].tok \in receipts \/ ~ship[job[u].sid].made
     THEN receipts' = receipts /\ Return(u)
     ELSE receipts' = receipts \cup {job[u].tok} /\ Goto(u, "receive.line")
  /\ UNCHANGED <<status, line, ship, edits, parts9, iclow, used, aborts>>

\* Mutant: the UPDATE has lost its guard.
bump_received_unguarded(u, l) ==
  /\ job[u].pc = "receive.line" /\ l \in job[u].left
  /\ line' = [line EXCEPT ![l].recv = @ + job[u].want[l]]
  /\ Go(u, [job[u] EXCEPT !.pc = "receive.shipline", !.cur = l])
  /\ UNCHANGED <<status, ship, receipts, edits, parts9, iclow, used, aborts>>

\* UPDATE ... WHERE qty_received + p_qty <= qty_prepared.
bump_line_received(u, l) ==
  /\ job[u].pc = "receive.line" /\ l \in job[u].left
  /\ IF StillThere(u, l) /\ line[l].recv + job[u].want[l] <= line[l].prep
     THEN /\ line' = [line EXCEPT ![l].recv = @ + job[u].want[l]]
          /\ Go(u, [job[u] EXCEPT !.pc = "receive.shipline", !.cur = l])
     ELSE line' = line /\ Return(u)
  /\ UNCHANGED <<status, ship, receipts, edits, parts9, iclow, used, aborts>>

\* UPDATE ... WHERE qty_received + p_qty <= qty_shipped.
bump_shipment_line_received(u) ==
  LET l == job[u].cur
      s == job[u].sid
  IN  /\ job[u].pc = "receive.shipline"
      /\ IF StillThere(u, l) /\ ship[s].got[l] + job[u].want[l] <= ship[s].qty[l]
         THEN /\ ship' = [ship EXCEPT ![s].got[l] = @ + job[u].want[l]]
              /\ IF l \in job[u].marks THEN Goto(u, "receive.mark")
                 ELSE Done(u, l, "receive.line", "receive.posted")
         ELSE ship' = ship /\ Return(u)
      /\ UNCHANGED <<status, line, receipts, edits, parts9, iclow, used, aborts>>

\* A failure here is a warning in the answer, and the handler goes on.
mark_received(u) ==
  /\ job[u].pc = "receive.mark"
  /\ \/ iclow' = [iclow EXCEPT ![job[u].cur] = IF @ = "none" THEN @ ELSE "received"]
     \/ iclow' = iclow
  /\ Done(u, job[u].cur, "receive.line", "receive.posted")
  /\ UNCHANGED <<supabase, parts9, used, aborts>>

\* Mutant: one received line is enough.
shipment_partly_received(t) == \E l \in Lines : ship[t].got[l] > 0

shipment_lines_fully_received(t) ==
  HasLines(t) /\ \A l \in Lines : ship[t].got[l] >= ship[t].qty[l]

\* The lines are read again, and posted_at is written when nothing is left.
ReceivePosted(u) ==
  /\ job[u].pc = "receive.posted"
  /\ ship' = [ship EXCEPT ![job[u].sid].posted =
                            @ \/ shipment_lines_fully_received(job[u].sid)]
  /\ Goto(u, "refresh.read")
  /\ UNCHANGED <<status, line, receipts, edits, parts9, iclow, used, aborts>>

(***************************************************************************)
(* The end of prepare and receive: the status is read, derived, written.   *)
(***************************************************************************)
RefreshRead(u) ==
  /\ job[u].pc = "refresh.read"
  /\ Go(u, [Idle EXCEPT !.pc = "refresh.write",
                        !.seen = derive_request_status(status)])
  /\ UNCHANGED <<supabase, parts9, iclow, used, aborts>>

RefreshWrite(u) ==
  /\ job[u].pc = "refresh.write"
  /\ status' = IF status = "absent" THEN "absent" ELSE job[u].seen
  /\ Return(u)
  /\ UNCHANGED <<line, ship, receipts, edits, parts9, iclow, used, aborts>>

(***************************************************************************)
(* Cancel: revert the stamps of the linked lines, then write the status.   *)
(***************************************************************************)
\* Mutant: the stamps are left on the rows.
CancelReadNoRevert(u) ==
  /\ job[u] = Idle
  /\ ~HasShipments /\ status \notin {"absent", "draft", "received", "cancelled"}
  /\ Go(u, [Idle EXCEPT !.pc = "cancel.write"])
  /\ UNCHANGED <<supabase, parts9, iclow, used, aborts>>

CancelRead(u) ==
  LET linked == {l \in Lines : Stamping /\ line[l].link}
  IN  /\ job[u] = Idle
      /\ ~HasShipments /\ status \notin {"absent", "draft", "received", "cancelled"}
      /\ Go(u, [Idle EXCEPT !.left = linked,
                  !.pc = IF linked = {} THEN "cancel.write" ELSE "cancel.revert"])
      /\ UNCHANGED <<supabase, parts9, iclow, used, aborts>>

CancelRevert(u, l) ==
  /\ job[u].pc = "cancel.revert" /\ l \in job[u].left
  /\ revert_on_cancel(l)
  /\ Done(u, l, "cancel.revert", "cancel.write")
  /\ UNCHANGED <<supabase, parts9, used, aborts>>

cancel_request(u) ==
  /\ job[u].pc = "cancel.write"
  /\ status' = IF status = "absent" THEN "absent" ELSE "cancelled"
  /\ Return(u)
  /\ UNCHANGED <<line, ship, receipts, edits, parts9, iclow, used, aborts>>

\* The process dies, or a call fails with an error that ends the handler: what
\* was done stays done.
Abort(u) ==
  /\ job[u] # Idle /\ aborts < MaxAborts
  /\ aborts' = aborts + 1
  /\ Return(u)
  /\ UNCHANGED <<supabase, parts9, iclow, used>>

Draft(u) ==
  \/ \E want \in Quantity : EditRead(u, want)
  \/ EditDelete(u) \/ EditInsert(u) \/ DeleteDraft(u)
Submit(u) ==
  \/ SubmitRead(u) \/ SubmitWrite(u) \/ StampLink(u) \/ StampFails(u)
  \/ \E l \in Lines : stamp_on_submit(u, l) \/ StampUndo(u, l)
Prepare(u) ==
  \/ \E t \in Tokens, want \in Quantity : PrepareRead(u, t, want)
  \/ post_transfer_ship(u) \/ create_shipment(u) \/ add_shipment_lines(u)
  \/ \E l \in Lines : bump_line_prepared(u, l)
Receive(u) ==
  \/ \E s, t \in Tokens, want \in Quantity : ReceiveRead(u, s, t, want)
  \/ post_transfer_receive(u) \/ create_receipt(u)
  \/ \E l \in Lines : bump_line_received(u, l)
  \/ bump_shipment_line_received(u) \/ mark_received(u) \/ ReceivePosted(u)
Refresh(u) == RefreshRead(u) \/ RefreshWrite(u)
Cancel(u) ==
  \/ CancelRead(u) \/ cancel_request(u)
  \/ \E l \in Lines : CancelRevert(u, l)

Next ==
  \E u \in Users :
    Draft(u) \/ Submit(u) \/ Prepare(u) \/ Receive(u) \/ Refresh(u)
      \/ Cancel(u) \/ Abort(u)

Spec == Init /\ [][Next]_vars

(***************************************************************************)
(* Properties.                                                             *)
(***************************************************************************)
Quiet == \A u \in Users : job[u] = Idle
\* The sum of the counts of S, unit by unit: a count is at most MaxQty.
Total(S, count) ==
  Cardinality({unit \in S \X (1..MaxQty) : unit[2] <= count[unit[1]]})
Got(l) == Total(Tokens, [t \in Tokens |-> ship[t].got[l]])
Carried(l) == Total(Tokens, [t \in Tokens |-> ship[t].qty[l]])

\* Every variable has its type: the columns of transfer.*, and the job record.
TypeOK ==
  /\ status \in {"absent", "draft", "requested", "prepared", "received", "cancelled"}
  /\ line \in [Lines -> [id : 0..MaxEdits, req : 0..MaxQty, prep : 0..MaxQty,
                         recv : 0..MaxQty, link : BOOLEAN]]
  /\ ship \in [Tokens -> [made : BOOLEAN, qty : Quantity, got : Quantity,
                          posted : BOOLEAN]]
  /\ receipts \subseteq Tokens /\ used \subseteq Tokens
  /\ iclow \in [Lines -> {"none", "open", "ordered", "received"}]
  /\ shipped \in [Lines -> Nat] /\ taken \in [Lines -> Nat] /\ bills \in Nat
  /\ edits \in 0..MaxEdits /\ aborts \in 0..MaxAborts

\* Supabase never claims a movement PARTS9 has not posted: the prepared and the
\* received quantity of a line are covered by its ship and its receive bills,
\* whatever interleaves, dies or fails between the two databases (api_prepare
\* and api_receive post first and count after).
CountsBehindBills ==
  \A l \in Lines : line[l].prep <= shipped[l] /\ line[l].recv <= taken[l]

\* The counters of one line are nested: what its shipment lines have received is
\* at most what the line has received, that at most what was prepared, and that
\* at most what its shipment lines carry and what was asked for (the guarded
\* UPDATEs of the bump functions, and the order the handlers call them in).
CountsNested ==
  \A l \in Lines :
    /\ Got(l) <= line[l].recv
    /\ line[l].recv <= line[l].prep
    /\ line[l].prep <= line[l].req
    /\ line[l].prep <= Carried(l)

\* A shipment marked posted has nothing left to receive (posted_at is written
\* once all its lines are in).
PostedIsComplete ==
  \A t \in Tokens : ship[t].posted => ship[t].got = ship[t].qty

\* With no handler in progress the two databases agree: what is prepared is what
\* was shipped, what is received is what was taken in, and the status is the one
\* the lines give.
BooksAgree ==
  Quiet => /\ \A l \in Lines : line[l].prep = shipped[l] /\ line[l].recv = taken[l]
           /\ status # "absent" => status = derive_request_status(status)

\* A request has at most one ship bill in PARTS9 (prepare is refused once there
\* is a shipment).
SingleBill == bills <= 1

\* A request that will not come leaves no low-stock row waiting for it: with no
\* handler in progress, no ICLOW row is ordered for a cancelled request.
StampReturned == Quiet /\ status = "cancelled" => \A l \in Lines : iclow[l] # "ordered"

=============================================================================
