------------------------------ MODULE HqOrders ------------------------------
(***************************************************************************)
(* Purchase orders of the head office and their receiving.  The low-stock  *)
(* rows (ICLOW) are in PARTS9 and are the stock department's list; orders, *)
(* their lines and the receipts are in Supabase.  A handler is a sequence  *)
(* of calls: every function of stamp.py and the posting of a receipt is    *)
(* one PARTS9 transaction, every request to Supabase one step, and the     *)
(* reads a handler makes in a row are one step.  Handlers overlap, fail    *)
(* and die (src/hq_po, src/hq_receive).                                    *)
(***************************************************************************)
EXTENDS Integers, FiniteSets, SequencesExt

CONSTANTS
  Threads,    \* handlers that can be in progress at once
  Waiting,    \* ICLOW rows PARTS9 has opened
  Inserted,   \* ids of the rows that confirm_order inserts itself
  Docs,       \* order numbers; an order and its DOCNO are one
  Receipts,
  Portions,   \* how much of a row a receipt can take: "all", "some"
  Product,    \* the product of each row
  MaxFaults,  \* bound: calls that raise and are handled
  MaxCrashes, \* bound: handlers that die or end by a call that raised, answers that are lost
  NoDoc, NoReceipt

Rows == Waiting \cup Inserted
New == {Product[i] : i \in Inserted}

ASSUME HqAssumption ==
  /\ Waiting \cap Inserted = {} /\ IsFiniteSet(Inserted)
  /\ Portions \subseteq {"all", "some"} /\ "none" \notin Portions
  /\ MaxFaults \in Nat /\ MaxCrashes \in Nat
  /\ NoDoc \notin Docs /\ NoReceipt \notin Receipts

VARIABLES
  iclow,    \* PARTS9: the low-stock rows
  order,    \* hq_po.orders.status; "none" while there is no such order
  line,     \* hq_po.lines: "none", open as "stamped" or "created", "canceled"
  receipt,  \* hq_receive.receipts and its lines
  bills,    \* PARTS9: the PIMAS bills posted for each receipt
  job,      \* the handler each thread runs
  alone,    \* so far no two handlers overlapped, nor PARTS9 one of them
  faults, crashes

supabase == <<order, line, receipt>>
parts9 == <<iclow, bills>>
counters == <<alone, faults, crashes>>
vars == <<supabase, parts9, job, counters>>

Absent == [there |-> FALSE, ordered |-> "N", doc |-> NoDoc,
           got |-> "none", canceled |-> FALSE]
NothingTaken == [i \in Rows |-> "none"]
NoDraft == [status |-> "none", takes |-> NothingTaken]
Idle == [op |-> "none", pc |-> "idle", doc |-> NoDoc, rows |-> {}, made |-> {},
         back |-> {}, want |-> {}, tries |-> 0, r |-> NoReceipt,
         takes |-> NothingTaken]

(***************************************************************************)
(* Guards.                                                                 *)
(***************************************************************************)
Received(i) == iclow[i].got # "none"
Incoming(i) == /\ iclow[i].there /\ iclow[i].ordered = "Y"
               /\ ~Received(i) /\ ~iclow[i].canceled
IsOpen(d, i) == line[d][i] \in {"stamped", "created"}
OpenLines(d) == {i \in Rows : IsOpen(d, i)}
open_lines_for_iclow(S) == {l \in Docs \X S : IsOpen(l[1], l[2])}

can_stamp_row(i) == ~iclow[i].canceled /\ ~Received(i) /\ iclow[i].ordered # "Y"

\* A row released by PARTS9 (X) may be ordered again in spite of its open line.
skip_already_open(S) ==
  {i \in S : \/ iclow[i].ordered = "X"
             \/ can_stamp_row(i) /\ \A d \in Docs : ~IsOpen(d, i)}

can_revert_row(i, d) ==
  /\ ~Received(i)
  /\ iclow[i].doc = d \/ (iclow[i].ordered # "Y" /\ iclow[i].doc = NoDoc)

plan_cancel(S, d) == \A i \in S : can_revert_row(i, d)

(***************************************************************************)
(* Control.                                                                *)
(***************************************************************************)
Free(t) == job[t].pc = "idle"
Quiet == \A t \in Threads : Free(t)
Go(t, rec) == job' = [job EXCEPT ![t] = rec]
Goto(t, pc) == job' = [job EXCEPT ![t].pc = pc]
Return(t) == Go(t, Idle)
Begin(t, rec) ==
  /\ Free(t) /\ Go(t, rec)
  /\ alone' = (alone /\ Quiet)

Init ==
  /\ iclow = [i \in Rows |->
       IF i \in Waiting THEN [Absent EXCEPT !.there = TRUE] ELSE Absent]
  /\ order = [d \in Docs |-> "none"]
  /\ line = [d \in Docs |-> [i \in Rows |-> "none"]]
  /\ receipt = [r \in Receipts |-> NoDraft]
  /\ bills = [r \in Receipts |-> <<>>]
  /\ job = [t \in Threads |-> Idle]
  /\ alone = TRUE /\ faults = 0 /\ crashes = 0

(***************************************************************************)
(* confirm_order.                                                          *)
(***************************************************************************)
\* Lines without an ICLOW row are looked up once the others are settled.
Resolve(want) == IF want = {} THEN "insert" ELSE "resolve"

\* A returned row that was received or canceled meanwhile is refused, but
\* only after its old line was released.
ConfirmRead(t, S, want) ==
  LET kept == skip_already_open(S)
      back == open_lines_for_iclow({i \in kept : iclow[i].ordered = "X"})
      refused == (\E i \in kept : ~can_stamp_row(i)) \/ (kept = {} /\ want = {})
  IN  /\ \A i \in S : iclow[i].there
      /\ S # {} \/ want # {}
      /\ ~(refused /\ back = {})
      /\ Begin(t, [Idle EXCEPT !.op = IF refused THEN "refused" ELSE "confirm",
                               !.pc = IF back = {} THEN Resolve(want) ELSE "line",
                               !.rows = kept, !.back = back, !.want = want])
      /\ UNCHANGED <<supabase, parts9, faults, crashes>>

\* A product that is on the waiting list is ordered from its row.
_resolve_created(t) ==
  LET held == \E i \in Rows : /\ iclow[i].there /\ Product[i] \in job[t].want
                             /\ iclow[i].ordered # "Y" /\ ~iclow[i].canceled
  IN  /\ job[t].pc = "resolve"
      /\ IF held THEN Return(t) ELSE Goto(t, "insert")
      /\ UNCHANGED <<supabase, parts9, counters>>

\* The rows of products that had none; the number may be one already taken.
insert_ordered_lines(t, d, S) ==
  /\ job[t].pc = "insert"
  /\ \A i \in S : ~iclow[i].there
  /\ {Product[i] : i \in S} = job[t].want /\ Cardinality(S) = Cardinality(job[t].want)
  /\ iclow' = [i \in Rows |->
       IF i \in S THEN [Absent EXCEPT !.there = TRUE, !.ordered = "Y", !.doc = d]
       ELSE iclow[i]]
  /\ Go(t, [job[t] EXCEPT !.pc = "header", !.doc = d, !.made = S])
  /\ UNCHANGED <<supabase, bills, counters>>

\* Three numbers are tried.
Again(t) == IF job[t].tries < 2
            THEN [job[t] EXCEPT !.pc = "insert", !.tries = @ + 1, !.made = {}]
            ELSE Idle

\* UNIQUE (docno): the rows inserted under the number are canceled first.
insert_order(t) ==
  LET j == job[t]
  IN  /\ j.pc = "header"
      /\ IF order[j.doc] = "none"
         THEN /\ order' = [order EXCEPT ![j.doc] = "ordered"]
              /\ Goto(t, "lines")
         ELSE /\ Go(t, IF j.made = {} THEN Again(t) ELSE [j EXCEPT !.pc = "retry"])
              /\ UNCHANGED order
      /\ UNCHANGED <<line, receipt, parts9, counters>>

\* What is left of an order that could not be written.
Unwind(t) == IF job[t].made = {} THEN Return(t) ELSE Goto(t, "undo")

\* One open line for a row (hq_po_lines_open_iclow_idx); without its lines the
\* header is deleted.
insert_lines(t) ==
  LET j == job[t]
      S == j.rows \cup j.made
  IN  /\ j.pc = "lines"
      /\ IF \A i \in S, d \in Docs : ~IsOpen(d, i)
         THEN /\ line' = [line EXCEPT ![j.doc] = [i \in Rows |->
                   IF i \in j.made THEN "created"
                   ELSE IF i \in j.rows THEN "stamped" ELSE @[i]]]
              /\ IF j.rows = {} THEN Return(t) ELSE Goto(t, "stamp")
              /\ UNCHANGED order
         ELSE /\ order' = [order EXCEPT ![j.doc] = "none"]
              /\ Unwind(t)
              /\ UNCHANGED line
      /\ UNCHANGED <<receipt, parts9, counters>>

\* Mutant: the header stays when its lines raise.
insert_fails_keeping_header(t) ==
  /\ job[t].pc \in {"header", "lines"} /\ faults < MaxFaults
  /\ faults' = faults + 1
  /\ Unwind(t)
  /\ UNCHANGED <<order, line, receipt, parts9, alone, crashes>>

\* Supabase raises on the header, or on the lines.
InsertFails(t) ==
  LET j == job[t]
  IN  /\ j.pc \in {"header", "lines"} /\ faults < MaxFaults
      /\ faults' = faults + 1
      /\ order' = IF j.pc = "lines" THEN [order EXCEPT ![j.doc] = "none"] ELSE order
      /\ Unwind(t)
      /\ UNCHANGED <<line, receipt, parts9, alone, crashes>>

\* The header was written and the answer is lost, or the DELETE that is to take it back
\* raises: it stays, without lines.
HeaderLeft(t) ==
  LET j == job[t]
  IN  /\ j.pc \in {"header", "lines"} /\ crashes < MaxCrashes
      /\ crashes' = crashes + 1
      /\ j.pc = "header" => order[j.doc] = "none"
      /\ order' = [order EXCEPT ![j.doc] = "ordered"]
      /\ Unwind(t)
      /\ UNCHANGED <<line, receipt, parts9, alone, faults>>

\* Mutant: the UPDATE does not ask whether the row is ordered.
stamp_any(t) ==
  LET j == job[t]
  IN  /\ j.pc = "stamp"
      /\ IF \A i \in j.rows : ~iclow[i].canceled /\ ~Received(i)
         THEN /\ iclow' = [i \in Rows |-> IF i \in j.rows
                   THEN [iclow[i] EXCEPT !.ordered = "Y", !.doc = j.doc] ELSE iclow[i]]
              /\ Return(t)
         ELSE UNCHANGED iclow /\ Goto(t, "void")
      /\ UNCHANGED <<supabase, bills, counters>>

\* All the rows or none.
stamp_ordered(t) ==
  LET j == job[t]
  IN  /\ j.pc = "stamp"
      /\ IF \A i \in j.rows : can_stamp_row(i)
         THEN /\ iclow' = [i \in Rows |-> IF i \in j.rows
                   THEN [iclow[i] EXCEPT !.ordered = "Y", !.doc = j.doc] ELSE iclow[i]]
              /\ Return(t)
         ELSE UNCHANGED iclow /\ Goto(t, "void")
      /\ UNCHANGED <<supabase, bills, counters>>

StampFails(t) ==
  /\ job[t].pc = "stamp" /\ faults < MaxFaults
  /\ faults' = faults + 1
  /\ Goto(t, "void")
  /\ UNCHANGED <<supabase, parts9, alone, crashes>>

\* The rows were stamped and the answer is lost: the order is voided all the same.
StampAnswerLost(t) ==
  LET j == job[t]
  IN  /\ j.pc = "stamp" /\ crashes < MaxCrashes
      /\ crashes' = crashes + 1
      /\ \A i \in j.rows : can_stamp_row(i)
      /\ iclow' = [i \in Rows |-> IF i \in j.rows
           THEN [iclow[i] EXCEPT !.ordered = "Y", !.doc = j.doc] ELSE iclow[i]]
      /\ Goto(t, "void")
      /\ UNCHANGED <<supabase, bills, alone, faults>>

\* mark_order_canceled, its lines and then its header.
mark_lines(t) ==
  LET d == job[t].doc
  IN  /\ job[t].pc = "void"
      /\ line' = [line EXCEPT ![d] = [i \in Rows |->
                   IF IsOpen(d, i) THEN "canceled" ELSE @[i]]]
      /\ Goto(t, "void.order")
      /\ UNCHANGED <<order, receipt, parts9, counters>>

mark_order_canceled(t) ==
  /\ job[t].pc = "void.order"
  /\ order' = [order EXCEPT ![job[t].doc] = "canceled"]
  /\ IF job[t].op = "confirm" THEN Unwind(t) ELSE Return(t)
  /\ UNCHANGED <<line, receipt, parts9, counters>>

\* Mutant: only the DOCNO is asked for.
cancel_created_any(t) ==
  LET j == job[t]
      ours == \A i \in j.made : iclow[i].doc = j.doc
  IN  /\ j.pc \in {"undo", "retry", "retire"}
      /\ iclow' = IF ours THEN [i \in Rows |->
             IF i \in j.made THEN [iclow[i] EXCEPT !.canceled = TRUE] ELSE iclow[i]]
           ELSE iclow
      /\ Go(t, CASE j.pc = "retire" /\ ours -> [j EXCEPT !.pc = "void"]
                 [] j.pc = "retry" /\ ours -> Again(t)
                 [] OTHER -> Idle)
      /\ UNCHANGED <<supabase, bills, counters>>

\* The inserted rows must not fall back to the waiting list.  All or none; a
\* row that was received, or carries another DOCNO, ends the handler.
cancel_created(t) ==
  LET j == job[t]
      ours == \A i \in j.made : iclow[i].doc = j.doc /\ ~Received(i)
  IN  /\ j.pc \in {"undo", "retry", "retire"}
      /\ iclow' = IF ours THEN [i \in Rows |->
             IF i \in j.made THEN [iclow[i] EXCEPT !.canceled = TRUE] ELSE iclow[i]]
           ELSE iclow
      /\ Go(t, CASE j.pc = "retire" /\ ours -> [j EXCEPT !.pc = "void"]
                 [] j.pc = "retry" /\ ours -> Again(t)
                 [] OTHER -> Idle)
      /\ UNCHANGED <<supabase, bills, counters>>

(***************************************************************************)
(* Cancel an order or a line of it; give a row back, or drop it.           *)
(***************************************************************************)
\* A row that already went back (no DOCNO) is not touched again.
cancel_order(t, d) ==
  LET ours == {i \in OpenLines(d) : iclow[i].doc = d}
      made == {i \in ours : line[d][i] = "created"}
  IN  /\ order[d] = "ordered" /\ OpenLines(d) # {} /\ plan_cancel(OpenLines(d), d)
      /\ Begin(t, [Idle EXCEPT !.op = "cancel", !.doc = d,
                     !.pc = IF ours # made THEN "revert"
                            ELSE IF made # {} THEN "retire" ELSE "void",
                     !.rows = ours \ made, !.made = made])
      /\ UNCHANGED <<supabase, parts9, faults, crashes>>

cancel_order_line(t, d, i) ==
  /\ order[d] = "ordered" /\ IsOpen(d, i) /\ plan_cancel({i}, d)
  /\ Begin(t, [Idle EXCEPT !.op = "cancel_line", !.pc = "revert", !.doc = d,
                           !.rows = {i}, !.back = {<<d, i>>}])
  /\ UNCHANGED <<supabase, parts9, faults, crashes>>

\* The vendor has none: the row goes back as a line of its order, which is
\* read again, or by itself.
mark_product_unavailable(t, i) ==
  LET held == open_lines_for_iclow({i})
  IN  /\ Incoming(i)
      /\ \/ /\ held = {}
            /\ Begin(t, [Idle EXCEPT !.op = "release", !.pc = "release", !.rows = {i}])
         \/ \E l \in held :
              Begin(t, [Idle EXCEPT !.op = "cancel_line", !.pc = "recheck",
                                    !.doc = l[1], !.rows = {i}, !.back = {l}])
      /\ UNCHANGED <<supabase, parts9, faults, crashes>>

Recheck(t) ==
  LET j == job[t]
  IN  /\ j.pc = "recheck"
      /\ IF /\ order[j.doc] = "ordered"
            /\ \A i \in j.rows : IsOpen(j.doc, i) /\ can_revert_row(i, j.doc)
         THEN Goto(t, "revert") ELSE Return(t)
      /\ UNCHANGED <<supabase, parts9, counters>>

revert_ordered(t) ==
  LET j == job[t]
  IN  /\ j.pc = "revert"
      /\ IF \A i \in j.rows : iclow[i].doc = j.doc /\ ~Received(i)
         THEN /\ iclow' = [i \in Rows |-> IF i \in j.rows
                   THEN [iclow[i] EXCEPT !.ordered = "N", !.doc = NoDoc] ELSE iclow[i]]
              /\ Goto(t, IF j.op = "cancel_line" THEN "line"
                         ELSE IF j.made # {} THEN "retire" ELSE "void")
         ELSE UNCHANGED iclow /\ Return(t)
      /\ UNCHANGED <<supabase, bills, counters>>

\* mark_line_canceled of the next of the lines to close; a line that is no
\* longer open ends the handler.
mark_line_canceled(t, l) ==
  /\ job[t].pc = "line" /\ l \in job[t].back
  /\ IF IsOpen(l[1], l[2])
     THEN /\ line' = [line EXCEPT ![l[1]][l[2]] = "canceled"]
          /\ Go(t, [job[t] EXCEPT !.pc = "close", !.doc = l[1], !.back = @ \ {l}])
     ELSE UNCHANGED line /\ Return(t)
  /\ UNCHANGED <<order, receipt, parts9, counters>>

AfterLines(op, want) ==
  CASE op = "confirm" -> Resolve(want) [] op = "release" -> "release"
    [] op = "drop" -> "drop" [] OTHER -> "idle"

\* The last line closes the order.
CloseOrder(t) ==
  LET j == job[t]
      next == IF j.back # {} THEN "line" ELSE AfterLines(j.op, j.want)
  IN  /\ j.pc = "close"
      /\ order' = IF OpenLines(j.doc) = {} /\ order[j.doc] = "ordered"
                  THEN [order EXCEPT ![j.doc] = "canceled"] ELSE order
      /\ IF next = "idle" THEN Return(t) ELSE Goto(t, next)
      /\ UNCHANGED <<line, receipt, parts9, counters>>

GiveUp(t, i, op) ==
  LET held == open_lines_for_iclow({i})
  IN  /\ Incoming(i)
      /\ Begin(t, [Idle EXCEPT !.op = op, !.pc = IF held = {} THEN op ELSE "line",
                               !.rows = {i}, !.back = held])
      /\ UNCHANGED <<supabase, parts9, faults, crashes>>

release_incoming(t, i) == GiveUp(t, i, "release")
drop_incoming(t, i) == GiveUp(t, i, "drop")

\* The WHERE of both asks whether the row is incoming, not whose it is.
release_to_waiting(t, i) ==
  /\ job[t].pc = "release" /\ i \in job[t].rows
  /\ iclow' = IF Incoming(i)
              THEN [iclow EXCEPT ![i].ordered = "N", ![i].doc = NoDoc] ELSE iclow
  /\ Return(t)
  /\ UNCHANGED <<supabase, bills, counters>>

cancel_incoming(t, i) ==
  /\ job[t].pc = "drop" /\ i \in job[t].rows
  /\ iclow' = IF Incoming(i) THEN [iclow EXCEPT ![i].canceled = TRUE] ELSE iclow
  /\ Return(t)
  /\ UNCHANGED <<supabase, bills, counters>>

\* Every waiting row of the product is dropped.
dismiss_waiting(i) ==
  /\ iclow[i].there /\ can_stamp_row(i)
  /\ iclow' = [k \in Rows |->
       IF iclow[k].there /\ Product[k] = Product[i] /\ can_stamp_row(k)
       THEN [iclow[k] EXCEPT !.canceled = TRUE] ELSE iclow[k]]
  /\ alone' = (alone /\ Quiet)
  /\ UNCHANGED <<supabase, bills, job, faults, crashes>>

\* PARTS9 sends an ordered row back; the DOCNO stays on it.
LegacyRelease(i) ==
  /\ Incoming(i)
  /\ iclow' = [iclow EXCEPT ![i].ordered = "X"]
  /\ alone' = (alone /\ Quiet)
  /\ UNCHANGED <<supabase, bills, job, faults, crashes>>

(***************************************************************************)
(* Receiving.                                                              *)
(***************************************************************************)
\* What the page lists as incoming can be entered.
Entered(takes) == /\ takes # NothingTaken
                  /\ \A i \in Rows : takes[i] # "none" => Incoming(i)

\* The header and then the lines; a header alone is what SaveDelete leaves.
create_receipt(r, takes) ==
  /\ receipt[r].status = "none" /\ Entered(takes)
  /\ receipt' = [receipt EXCEPT ![r] = [status |-> "draft", takes |-> takes]]
  /\ UNCHANGED <<order, line, parts9, job, counters>>

SaveRead(t, r, takes) ==
  /\ receipt[r].status = "draft" /\ Entered(takes)
  /\ Begin(t, [Idle EXCEPT !.op = "save", !.pc = "save.delete", !.r = r, !.takes = takes])
  /\ UNCHANGED <<supabase, parts9, faults, crashes>>

SaveDelete(t) ==
  /\ job[t].pc = "save.delete"
  /\ receipt' = [receipt EXCEPT ![job[t].r].takes = NothingTaken]
  /\ Goto(t, "save.insert")
  /\ UNCHANGED <<order, line, parts9, counters>>

SaveInsert(t) ==
  /\ job[t].pc = "save.insert"
  /\ receipt' = [receipt EXCEPT ![job[t].r].takes = job[t].takes]
  /\ Return(t)
  /\ UNCHANGED <<order, line, parts9, counters>>

confirm_receipt(t, r) ==
  /\ receipt[r].status = "draft" /\ receipt[r].takes # NothingTaken
  /\ Begin(t, [Idle EXCEPT !.op = "receive", !.pc = "post", !.r = r,
                           !.takes = receipt[r].takes])
  /\ UNCHANGED <<supabase, parts9, faults, crashes>>

\* The bill takes every line in; whether the stamp found its row is not asked.
post_vendor_receive(t) ==
  LET j == job[t]
  IN  /\ j.pc = "post"
      /\ bills' = [bills EXCEPT ![j.r] = Append(@, j.takes)]
      /\ iclow' = [i \in Rows |-> IF j.takes[i] # "none" /\ Incoming(i)
             THEN [iclow[i] EXCEPT !.got = j.takes[i]] ELSE iclow[i]]
      /\ Goto(t, "mark")
      /\ UNCHANGED <<supabase, counters>>

\* Mutant: confirmed although the posting raised.
post_error_confirms(t) ==
  /\ job[t].pc = "post" /\ crashes < MaxCrashes
  /\ crashes' = crashes + 1
  /\ Goto(t, "mark")
  /\ UNCHANGED <<supabase, parts9, alone, faults>>

mark_confirmed(t) ==
  /\ job[t].pc = "mark"
  /\ receipt' = [receipt EXCEPT ![job[t].r].status = "confirmed"]
  /\ Return(t)
  /\ UNCHANGED <<order, line, parts9, counters>>

\* PARTS9 refuses the posting, and rolls it back.
PostFails(t) ==
  /\ job[t].pc = "post" /\ crashes < MaxCrashes
  /\ crashes' = crashes + 1
  /\ Return(t)
  /\ UNCHANGED <<supabase, parts9, alone, faults>>

\* The process dies, or a call that no handler of errors surrounds raises.
Crash(t) ==
  /\ ~Free(t) /\ crashes < MaxCrashes
  /\ crashes' = crashes + 1
  /\ Return(t)
  /\ UNCHANGED <<supabase, parts9, alone, faults>>

Step(t) ==
  \/ _resolve_created(t)
  \/ \E d \in Docs, S \in SUBSET Inserted : insert_ordered_lines(t, d, S)
  \/ insert_order(t) \/ insert_lines(t) \/ InsertFails(t) \/ HeaderLeft(t)
  \/ stamp_ordered(t) \/ StampFails(t) \/ StampAnswerLost(t)
  \/ mark_lines(t) \/ mark_order_canceled(t) \/ cancel_created(t)
  \/ Recheck(t) \/ revert_ordered(t)
  \/ \E l \in Docs \X Rows : mark_line_canceled(t, l)
  \/ CloseOrder(t)
  \/ \E i \in Rows : release_to_waiting(t, i) \/ cancel_incoming(t, i)
  \/ SaveDelete(t) \/ SaveInsert(t)
  \/ post_vendor_receive(t) \/ mark_confirmed(t) \/ PostFails(t)
  \/ Crash(t)

Takes == [Rows -> Portions \cup {"none"}]

Request(t) ==
  \/ \E S \in SUBSET Rows, want \in SUBSET New : ConfirmRead(t, S, want)
  \/ \E d \in Docs : cancel_order(t, d)
  \/ \E d \in Docs, i \in Rows : cancel_order_line(t, d, i)
  \/ \E i \in Rows : release_incoming(t, i) \/ drop_incoming(t, i)
                   \/ mark_product_unavailable(t, i)
  \/ \E r \in Receipts : confirm_receipt(t, r)
  \/ \E r \in Receipts, takes \in Takes : SaveRead(t, r, takes)

Next ==
  \/ \E t \in Threads : Step(t) \/ Request(t)
  \/ \E i \in Rows : dismiss_waiting(i) \/ LegacyRelease(i)
  \/ \E r \in Receipts, takes \in Takes : create_receipt(r, takes)

Spec == Init /\ [][Next]_vars

-----------------------------------------------------------------------------
\* Whatever overlaps or dies, a received row was ordered and not canceled: no
\* order is voided under goods that came in (_RECEIVED_N in every UPDATE).
ReceivedWasOrdered ==
  \A i \in Rows : Received(i) => iclow[i].ordered = "Y" /\ ~iclow[i].canceled

\* A canceled order has no open line left that would block its rows from being
\* ordered again (mark_order_canceled, mark_line_canceled).
CanceledIsEmpty ==
  \A d \in Docs : order[d] = "canceled" => OpenLines(d) = {}

OrdersHold == ReceivedWasOrdered /\ CanceledIsEmpty

\* When nobody overlapped or died, no answer was lost and nothing is in progress, errors
\* that were handled included, the two databases agree: a row is incoming for an order
\* iff that order has an open line for it, and an order without lines is closed.
BooksAgree ==
  alone /\ crashes = 0 /\ Quiet =>
    /\ \A d \in Docs, i \in Rows :
         /\ Incoming(i) /\ iclow[i].doc = d => IsOpen(d, i)
         /\ IsOpen(d, i) => /\ iclow[i].doc = d /\ iclow[i].ordered \in {"Y", "X"}
                            /\ iclow[i].canceled => iclow[i].ordered = "X"
    /\ \A d \in Docs : order[d] = "ordered" => OpenLines(d) # {}

\* A confirmed receipt has its bill in PARTS9, whatever overlaps or dies
\* (post_vendor_receive before mark_confirmed).
ConfirmedHasBill ==
  \A r \in Receipts : receipt[r].status = "confirmed" => bills[r] # <<>>

\* While handlers run one after another it shows what its bill took in, even
\* if one of them died in between, and without a death it is billed once.
BilledAsShown ==
  alone => \A r \in Receipts :
    /\ receipt[r].status = "confirmed" => Last(bills[r]) = receipt[r].takes
    /\ crashes = 0 => Len(bills[r]) <= 1

ReceiptsHold == ConfirmedHasBill /\ BilledAsShown

\* A row's life, as PARTS9 shows it.
RowState == [i \in Rows |->
  IF ~iclow[i].there THEN "absent"
  ELSE IF Received(i) THEN "received"
  ELSE IF iclow[i].canceled THEN "dropped"
  ELSE IF iclow[i].ordered = "Y" THEN "incoming" ELSE "waiting"]
RowOwner == [i \in Rows |-> IF RowState[i] = "incoming" THEN iclow[i].doc ELSE NoDoc]
Life == INSTANCE RowLife WITH state <- RowState, owner <- RowOwner

\* The rows live as RowLife says, under every overlap, fault and death.
RowsLive == Life!RowSpec

=============================================================================
