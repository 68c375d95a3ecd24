-------------------------- MODULE HqOrders_proofs --------------------------
(***************************************************************************)
(* What holds of HqOrders for every set of handlers, rows, orders and      *)
(* receipts, however handlers overlap, raise and die: orders and rows hold *)
(* together, the rows live as RowLife says, and a confirmed receipt has    *)
(* its bill; and while handlers run one after another, the two databases   *)
(* agree whatever errors were handled.                                     *)
(***************************************************************************)
EXTENDS HqOrders, SequenceTheorems, TLAPS

USE HqAssumption

----------------------------------------------------------------------------
\* The inductive invariant.

RowType == [there : BOOLEAN, ordered : {"N", "Y", "X"}, doc : Docs \cup {NoDoc},
            got : {"none", "all", "some"}, canceled : BOOLEAN]
TakesType == [Rows -> {"none", "all", "some"}]
Ops == {"none", "refused", "confirm", "cancel", "cancel_line", "release", "drop", "save",
        "receive"}
Pcs == {"idle", "resolve", "insert", "header", "lines", "stamp", "void", "void.order",
        "undo", "retry", "retire", "recheck", "revert", "line", "close", "release", "drop",
        "save.delete", "save.insert", "post", "mark"}
JobType ==
  [op : Ops, pc : Pcs, doc : Docs \cup {NoDoc}, rows : SUBSET Rows, made : SUBSET Rows,
   back : SUBSET (Docs \X Rows), want : SUBSET New, tries : 0..2,
   r : Receipts \cup {NoReceipt}, takes : TakesType]

\* Every variable has its type (stamp.py, hq_po/db.py, hq_receive/db.py).
TypeOK ==
  /\ iclow \in [Rows -> RowType]
  /\ order \in [Docs -> {"none", "ordered", "canceled"}]
  /\ line \in [Docs -> [Rows -> {"none", "stamped", "created", "canceled"}]]
  /\ receipt \in [Receipts -> [status : {"none", "draft", "confirmed"}, takes : TakesType]]
  /\ bills \in [Receipts -> Seq(TakesType)]
  /\ job \in [Threads -> JobType]
  /\ alone \in BOOLEAN /\ faults \in 0..MaxFaults /\ crashes \in 0..MaxCrashes


\* The points of confirm_order, and those at which the order has its lines.
ConfirmPcs == {"resolve", "insert", "header", "lines", "stamp", "retry"}
LinedPcs == {"stamp", "void", "void.order", "close", "revert", "retire", "recheck"}

Lined(d) == \E i \in Rows : line[d][i] # "none"

\* The rows a handler orders or inserted are there.
RowJob(j) ==
  /\ j.pc \in ConfirmPcs => j.op = "confirm"
  /\ j.op = "confirm" => \A i \in j.rows : iclow[i].there
  /\ \A i \in j.made : iclow[i].there

\* An order has no line before its handler inserts them, and its lines are closed before it.
LineJob(j) ==
  /\ j.pc = "header" => j.doc \in Docs
  /\ j.pc \in LinedPcs => j.doc \in Docs /\ Lined(j.doc)
  /\ j.pc = "lines" => j.doc \in Docs /\ order[j.doc] = "ordered" /\ ~Lined(j.doc)
  /\ j.pc = "void.order" => OpenLines(j.doc) = {}

RowOK(i) ==
  /\ ~iclow[i].there => iclow[i] = Absent
  /\ Received(i) => iclow[i].ordered = "Y" /\ ~iclow[i].canceled

OrderOK(d) ==
  /\ order[d] = "none" => ~Lined(d)
  /\ order[d] = "canceled" => OpenLines(d) = {}

\* UNIQUE (docno): one handler inserts the lines of an order.
OneWriter ==
  \A t \in Threads : \A u \in Threads \ {t} :
    job[t].pc = "lines" /\ job[u].pc = "lines" => job[t].doc # job[u].doc

JobsOK == \A t \in Threads : RowJob(job[t]) /\ LineJob(job[t])
RowsOK == \A i \in Rows : RowOK(i)
OrdersOK == \A d \in Docs : OrderOK(d)

IInv == TypeOK /\ JobsOK /\ RowsOK /\ OrdersOK /\ OneWriter

----------------------------------------------------------------------------
\* The pieces of state.

LEMMA IdleFacts ==
  /\ Idle \in JobType /\ Idle.pc = "idle" /\ Idle.op = "none" /\ Idle.made = {}
  /\ NothingTaken \in TakesType
BY DEF Idle, JobType, NothingTaken, TakesType, Ops, Pcs

LEMMA IdleOK == RowJob(Idle) /\ LineJob(Idle)
BY IdleFacts DEF RowJob, LineJob, ConfirmPcs, LinedPcs

LEMMA Typed ==
  ASSUME IInv
  PROVE  /\ iclow \in [Rows -> RowType]
         /\ order \in [Docs -> {"none", "ordered", "canceled"}]
         /\ line \in [Docs -> [Rows -> {"none", "stamped", "created", "canceled"}]]
         /\ job \in [Threads -> JobType]
         /\ \A t \in Threads : job[t] \in JobType /\ RowJob(job[t]) /\ LineJob(job[t])
         /\ \A i \in Rows : iclow[i] \in RowType /\ RowOK(i)
         /\ \A d \in Docs : OrderOK(d) /\ line[d] \in [Rows -> {"none", "stamped", "created", "canceled"}]
BY DEF IInv, TypeOK, JobsOK, RowsOK, OrdersOK

LEMMA InitInv == Init => IInv
<1> SUFFICES ASSUME Init PROVE IInv
  OBVIOUS
<1>1. Absent \in RowType /\ \A b \in BOOLEAN : [Absent EXCEPT !.there = b] \in RowType
  BY DEF Absent, RowType
<1>2. NoDraft \in [status : {"none", "draft", "confirmed"}, takes : TakesType]
  BY IdleFacts DEF NoDraft
<1>3. <<>> \in Seq(TakesType)
  BY EmptySeq
<1>4. ASSUME NEW i \in Rows
      PROVE  /\ iclow[i] \in RowType /\ iclow[i].got = "none"
             /\ ~iclow[i].there => iclow[i] = Absent
  <2>1. iclow[i] = [Absent EXCEPT !.there = TRUE] \/ iclow[i] = Absent
    BY DEF Init
  <2>2. PICK w : w = [Absent EXCEPT !.there = TRUE]
    OBVIOUS
  <2>4. w \in RowType /\ w.got = "none" /\ w.there
    BY <2>2 DEF Absent, RowType
  <2>3. Absent.got = "none"
    BY DEF Absent
  <2> QED
    BY <1>1, <2>1, <2>2, <2>3, <2>4
<1>5. iclow \in [Rows -> RowType]
  <2>1. iclow = [i \in Rows |-> iclow[i]]
    BY DEF Init
  <2> QED
    BY <1>4, <2>1
<1>6. TypeOK
  <2>1. /\ order \in [Docs -> {"none", "ordered", "canceled"}]
        /\ line \in [Docs -> [Rows -> {"none", "stamped", "created", "canceled"}]]
        /\ alone \in BOOLEAN /\ faults \in 0..MaxFaults /\ crashes \in 0..MaxCrashes
    BY DEF Init
  <2>2. /\ receipt \in [Receipts -> [status : {"none", "draft", "confirmed"}, takes : TakesType]]
        /\ bills \in [Receipts -> Seq(TakesType)]
    BY <1>2, <1>3 DEF Init
  <2>3. job \in [Threads -> JobType]
    BY IdleFacts DEF Init
  <2> QED
    BY <1>5, <2>1, <2>2, <2>3 DEF TypeOK
<1>7. JobsOK /\ OneWriter
  BY IdleFacts, IdleOK DEF Init, JobsOK, OneWriter
<1>8. RowsOK
  <2> SUFFICES ASSUME NEW i \in Rows PROVE RowOK(i)
    BY DEF RowsOK
  <2> QED
    BY <1>4 DEF RowOK, Received
<1>9. OrdersOK
  BY DEF Init, OrdersOK, OrderOK, Lined, OpenLines, IsOpen
<1> QED
  BY <1>6, <1>7, <1>8, <1>9 DEF IInv

\* What no step takes back.
Onward ==
  /\ \A i \in Rows : iclow[i].there => iclow'[i].there
  /\ \A d \in Docs : Lined(d) => Lined(d)' /\ (OpenLines(d) = {} => OpenLines(d)' = {})

\* t leaves alone the orders whose lines other handlers are about to insert.
Apart(t) ==
  \A u \in Threads \ {t} : job[u].pc = "lines" =>
    /\ order'[job[u].doc] = order[job[u].doc] /\ line'[job[u].doc] = line[job[u].doc]
    /\ job'[t].pc = "lines" => job'[t].doc # job[u].doc

LEMMA JobStays ==
  ASSUME IInv, Onward, NEW j \in JobType, RowJob(j), LineJob(j),
         j.pc = "lines" => order'[j.doc] = order[j.doc] /\ line'[j.doc] = line[j.doc]
  PROVE  RowJob(j)' /\ LineJob(j)'
<1>1. RowJob(j)'
  BY DEF RowJob, Onward, JobType
<1>2. LineJob(j)'
  BY DEF LineJob, Onward, LinedPcs, Lined, OpenLines
<1> QED
  BY <1>1, <1>2

\* The variables the invariant says no more of than their types.
RestOK ==
  /\ receipt \in [Receipts -> [status : {"none", "draft", "confirmed"}, takes : TakesType]]
  /\ bills \in [Receipts -> Seq(TakesType)]
  /\ alone \in BOOLEAN /\ faults \in 0..MaxFaults /\ crashes \in 0..MaxCrashes

\* What is to be shown of a step of t that leaves it with the job j.
LEMMA StepInv ==
  ASSUME IInv, NEW t \in Threads, NEW j \in JobType, job' = [job EXCEPT ![t] = j],
         Onward, Apart(t), RowJob(j)', LineJob(j)', RowsOK', OrdersOK',
         iclow' \in [Rows -> RowType], order' \in [Docs -> {"none", "ordered", "canceled"}],
         line' \in [Docs -> [Rows -> {"none", "stamped", "created", "canceled"}]],
         RestOK'
  PROVE  IInv'
<1>1. /\ job' \in [Threads -> JobType] /\ job'[t] = j
      /\ \A u \in Threads \ {t} : job'[u] = job[u]
  BY Typed
<1>2. TypeOK'
  BY <1>1 DEF TypeOK, RestOK
<1>3. JobsOK'
  <2> SUFFICES ASSUME NEW u \in Threads PROVE RowJob(job[u])' /\ LineJob(job[u])'
    BY DEF JobsOK
  <2>1. CASE u = t
    BY <1>1, <2>1 DEF RowJob, LineJob
  <2>2. CASE u # t
    <3>1. PICK k \in JobType : k = job[u] /\ k = job'[u] /\ RowJob(k) /\ LineJob(k)
      BY <1>1, <2>2, Typed
    <3>2. k.pc = "lines" => order'[k.doc] = order[k.doc] /\ line'[k.doc] = line[k.doc]
      BY <2>2, <3>1 DEF Apart
    <3>3. RowJob(k)' /\ LineJob(k)'
      BY <3>1, <3>2, JobStays
    <3> QED
      BY <3>1, <3>3 DEF RowJob, LineJob
  <2> QED
    BY <2>1, <2>2
<1>4. OneWriter'
  BY <1>1 DEF OneWriter, IInv, Apart
<1> QED
  BY <1>2, <1>3, <1>4 DEF IInv

\* Counters go up below their bounds.
LEMMA RestStays ==
  ASSUME IInv, UNCHANGED <<receipt, bills>>, alone' = alone \/ alone' = (alone /\ Quiet),
         faults' = faults \/ (faults < MaxFaults /\ faults' = faults + 1),
         crashes' = crashes \/ (crashes < MaxCrashes /\ crashes' = crashes + 1)
  PROVE  RestOK'
<1>1. alone' \in BOOLEAN
  BY DEF IInv, TypeOK
<1> QED
  BY <1>1 DEF IInv, TypeOK, RestOK

\* A step of t that writes no row and no order.
LEMMA QuietInv ==
  ASSUME IInv, NEW t \in Threads, NEW j \in JobType, job' = [job EXCEPT ![t] = j],
         RowJob(j), LineJob(j), j.pc # "lines", UNCHANGED <<iclow, order, line>>, RestOK'
  PROVE  IInv'
<1>1. /\ job'[t] = j
      /\ \A u \in Threads \ {t} : job'[u] = job[u]
  BY Typed
<1>2. Onward
  BY DEF Onward, Lined, OpenLines, IsOpen
<1>3. Apart(t)
  BY <1>1 DEF Apart
<1>4. RowJob(j)' /\ LineJob(j)'
  BY <1>2, JobStays
<1>5. RowsOK' /\ OrdersOK'
  <2>1. RowsOK'
    BY DEF IInv, RowsOK, RowOK, Received
  <2>2. OrdersOK'
    BY DEF IInv, OrdersOK, OrderOK, Lined, OpenLines, IsOpen
  <2> QED
    BY <2>1, <2>2
<1>6. /\ iclow' \in [Rows -> RowType]
      /\ order' \in [Docs -> {"none", "ordered", "canceled"}]
      /\ line' \in [Docs -> [Rows -> {"none", "stamped", "created", "canceled"}]]
  BY Typed
<1> QED
  BY <1>2, <1>3, <1>4, <1>5, <1>6, StepInv

----------------------------------------------------------------------------
\* The control of a handler.

LEMMA GotoFacts ==
  ASSUME IInv, NEW t \in Threads, NEW pc \in Pcs, Goto(t, pc)
  PROVE  \E j \in JobType :
           /\ job' = [job EXCEPT ![t] = j] /\ j.pc = pc /\ j.op = job[t].op
           /\ j.doc = job[t].doc /\ j.rows = job[t].rows /\ j.made = job[t].made
<1>1. PICK k \in JobType : k = job[t]
  BY Typed
<1>2. PICK j \in JobType : j = [k EXCEPT !.pc = pc]
  BY <1>1 DEF JobType
<1>3. j.pc = pc /\ j.op = k.op /\ j.doc = k.doc /\ j.rows = k.rows /\ j.made = k.made
  BY <1>2 DEF JobType
<1>4. job' = [job EXCEPT ![t] = j]
  BY <1>1, <1>2 DEF Goto
<1> QED
  BY <1>1, <1>3, <1>4

LEMMA ReturnFacts ==
  ASSUME NEW t \in Threads, Return(t)
  PROVE  job' = [job EXCEPT ![t] = Idle]
BY DEF Return, Go

\* A handler that ends, or goes on where nothing is asked of it.
LEMMA ReturnInv ==
  ASSUME IInv, NEW t \in Threads, Return(t), UNCHANGED <<iclow, order, line>>, RestOK'
  PROVE  IInv'
BY IdleFacts, IdleOK, ReturnFacts, QuietInv

FreePcs == Pcs \ (ConfirmPcs \cup LinedPcs)

LEMMA GotoInv ==
  ASSUME IInv, NEW t \in Threads, NEW pc \in Pcs, Goto(t, pc),
         UNCHANGED <<iclow, order, line>>, RestOK',
         \/ pc \in FreePcs
         \/ pc \in ConfirmPcs \ {"header", "lines", "stamp"} /\ job[t].op = "confirm"
         \/ /\ pc \in LinedPcs \ {"stamp", "void.order"}
            /\ job[t].doc \in Docs /\ Lined(job[t].doc)
  PROVE  IInv'
<1>1. PICK j \in JobType :
           /\ job' = [job EXCEPT ![t] = j] /\ j.pc = pc /\ j.op = job[t].op
           /\ j.doc = job[t].doc /\ j.rows = job[t].rows /\ j.made = job[t].made
  BY GotoFacts
<1>2. RowJob(job[t])
  BY Typed
<1>3. RowJob(j)
  BY <1>1, <1>2 DEF RowJob, FreePcs, LinedPcs, ConfirmPcs
<1>4. LineJob(j) /\ pc # "lines"
  BY <1>1 DEF LineJob, FreePcs, LinedPcs, ConfirmPcs
<1> QED
  BY <1>1, <1>3, <1>4, QuietInv

----------------------------------------------------------------------------
\* Steps that write neither rows nor orders.

LEMMA ControlInv ==
  ASSUME IInv, NEW t \in Threads,
         _resolve_created(t) \/ StampFails(t) \/ Recheck(t) \/ PostFails(t) \/ Crash(t)
  PROVE  IInv'
<1>1. RowJob(job[t]) /\ LineJob(job[t])
  BY Typed
<1>2. UNCHANGED <<iclow, order, line>> /\ RestOK'
  BY RestStays DEF _resolve_created, StampFails, Recheck, PostFails, Crash, supabase, parts9,
       counters
<1>3. CASE Return(t)
  BY <1>2, <1>3, ReturnInv
<1>4. CASE _resolve_created(t) /\ Goto(t, "insert")
  BY <1>1, <1>2, <1>4, GotoInv DEF _resolve_created, RowJob, ConfirmPcs, Pcs
<1>5. CASE StampFails(t)
  BY <1>1, <1>2, <1>5, GotoInv DEF StampFails, LineJob, LinedPcs, Pcs
<1>6. CASE Recheck(t) /\ Goto(t, "revert")
  BY <1>1, <1>2, <1>6, GotoInv DEF Recheck, LineJob, LinedPcs, Pcs
<1> QED
  BY <1>3, <1>4, <1>5, <1>6 DEF _resolve_created, Recheck, PostFails, Crash

LEMMA ReceiptInv ==
  ASSUME IInv, NEW t \in Threads, SaveDelete(t) \/ SaveInsert(t) \/ mark_confirmed(t)
  PROVE  IInv'
<1>1. job[t] \in JobType /\ job[t].takes \in TakesType
  BY Typed DEF JobType
<1>2. UNCHANGED <<iclow, order, line, bills, alone, faults, crashes>>
  BY DEF SaveDelete, SaveInsert, mark_confirmed, parts9, counters
<1>3. receipt' \in [Receipts -> [status : {"none", "draft", "confirmed"}, takes : TakesType]]
  BY <1>1, IdleFacts DEF SaveDelete, SaveInsert, mark_confirmed, IInv, TypeOK
<1>4. RestOK'
  BY <1>2, <1>3 DEF IInv, TypeOK, RestOK
<1>5. Return(t) \/ Goto(t, "save.insert")
  BY DEF SaveDelete, SaveInsert, mark_confirmed
<1> QED
  BY <1>2, <1>4, <1>5, ReturnInv, GotoInv DEF FreePcs, Pcs, ConfirmPcs, LinedPcs

----------------------------------------------------------------------------
\* Requests.

LEMMA BeginInv ==
  ASSUME IInv, NEW t \in Threads, NEW j \in JobType, Begin(t, j), RowJob(j), LineJob(j),
         j.pc # "lines", UNCHANGED <<supabase, parts9, faults, crashes>>
  PROVE  IInv'
<1>1. UNCHANGED <<iclow, order, line, receipt, bills, faults, crashes>>
  BY DEF supabase, parts9
<1>2. RestOK'
  BY <1>1, RestStays DEF Begin
<1>3. job' = [job EXCEPT ![t] = j]
  BY DEF Begin, Go
<1> QED
  BY <1>1, <1>2, <1>3, QuietInv

\* A handler that works on the rows S of the order d, or gives rows back.
LEMMA WorkInv ==
  ASSUME IInv, NEW t \in Threads, NEW j \in JobType, Begin(t, j),
         j.op # "confirm", j.pc \notin ConfirmPcs, j.pc # "void.order",
         j.pc \in LinedPcs => j.doc \in Docs /\ Lined(j.doc),
         \A i \in j.made : iclow[i].there,
         UNCHANGED <<supabase, parts9, faults, crashes>>
  PROVE  IInv'
<1>1. RowJob(j)
  BY DEF RowJob
<1>2. LineJob(j) /\ j.pc # "lines"
  BY DEF LineJob, ConfirmPcs
<1> QED
  BY <1>1, <1>2, BeginInv

LEMMA ConfirmReadInv ==
  ASSUME IInv, NEW t \in Threads, NEW S \in SUBSET Rows, NEW want \in SUBSET New,
         ConfirmRead(t, S, want)
  PROVE  IInv'
<1> DEFINE kept == skip_already_open(S)
           back == open_lines_for_iclow({i \in kept : iclow[i].ordered = "X"})
<1>1. PICK op \in {"refused", "confirm"}, pc \in {"insert", "resolve", "line"} :
        /\ Begin(t, [Idle EXCEPT !.op = op, !.pc = pc, !.rows = kept, !.back = back, !.want = want])
        /\ op = "refused" => pc = "line"
  BY DEF ConfirmRead, Resolve
<1>2. kept \in SUBSET Rows /\ back \in SUBSET (Docs \X Rows) /\ \A i \in kept : iclow[i].there
  BY <1>1 DEF skip_already_open, open_lines_for_iclow, ConfirmRead
<1> HIDE DEF kept, back
<1>3. PICK j : j = [Idle EXCEPT !.op = op, !.pc = pc, !.rows = kept, !.back = back, !.want = want]
  OBVIOUS
<1>4. op \in Ops /\ pc \in Pcs
  BY DEF Ops, Pcs
<1>5. j \in JobType
  BY <1>2, <1>3, <1>4, IdleFacts DEF JobType
<1>6. j.op = op /\ j.pc = pc /\ j.rows = kept /\ j.made = {}
  BY <1>3 DEF Idle
<1>7. RowJob(j)
  BY <1>1, <1>2, <1>6 DEF RowJob, ConfirmPcs
<1>8. LineJob(j)
  BY <1>6 DEF LineJob, LinedPcs
<1> QED
  BY <1>1, <1>3, <1>5, <1>6, <1>7, <1>8, BeginInv DEF ConfirmRead

LEMMA OpenIsLined ==
  ASSUME NEW d \in Docs, NEW i \in Rows, IsOpen(d, i)
  PROVE  Lined(d)
BY DEF IsOpen, Lined

LEMMA CancelReadInv ==
  ASSUME IInv, NEW t \in Threads, NEW d \in Docs, cancel_order(t, d)
  PROVE  IInv'
<1> DEFINE ours == {i \in OpenLines(d) : iclow[i].doc = d}
           made == {i \in ours : line[d][i] = "created"}
<1>1. Lined(d)
  BY OpenIsLined DEF cancel_order, OpenLines
<1>2. \A i \in made : iclow[i].there
  BY Typed DEF RowOK, Absent, OpenLines
<1>3. ours \ made \in SUBSET Rows /\ made \in SUBSET Rows
  BY DEF OpenLines
<1>4. PICK pc \in {"revert", "retire", "void"} :
        Begin(t, [Idle EXCEPT !.op = "cancel", !.doc = d, !.pc = pc,
                              !.rows = ours \ made, !.made = made])
  BY DEF cancel_order
<1> HIDE DEF ours, made
<1>5. PICK j : j = [Idle EXCEPT !.op = "cancel", !.doc = d, !.pc = pc,
                                !.rows = ours \ made, !.made = made]
  OBVIOUS
<1>6. pc \in Pcs /\ pc \notin ConfirmPcs /\ pc # "void.order" /\ "cancel" \in Ops
  BY DEF Pcs, ConfirmPcs, Ops
<1>7. j \in JobType /\ j.op = "cancel" /\ j.pc = pc /\ j.doc = d /\ j.made = made
  BY <1>3, <1>5, <1>6, IdleFacts DEF JobType, Idle
<1>8. UNCHANGED <<supabase, parts9, faults, crashes>>
  BY DEF cancel_order
<1> QED
  BY <1>1, <1>2, <1>4, <1>5, <1>6, <1>7, <1>8, WorkInv

LEMMA RowRequestInv ==
  ASSUME IInv, NEW t \in Threads, NEW i \in Rows,
         \/ \E d \in Docs : cancel_order_line(t, d, i)
         \/ release_incoming(t, i) \/ drop_incoming(t, i) \/ mark_product_unavailable(t, i)
  PROVE  IInv'
<1>1. UNCHANGED <<supabase, parts9, faults, crashes>>
  BY DEF cancel_order_line, release_incoming, drop_incoming, mark_product_unavailable, GiveUp
<1>2. ASSUME NEW d \in Docs, NEW l \in Docs \X Rows, NEW pc \in {"revert", "recheck"}, Lined(d),
             Begin(t, [Idle EXCEPT !.op = "cancel_line", !.pc = pc, !.doc = d,
                                   !.rows = {i}, !.back = {l}])
      PROVE  IInv'
  <2>1. PICK j : j = [Idle EXCEPT !.op = "cancel_line", !.pc = pc, !.doc = d,
                                  !.rows = {i}, !.back = {l}]
    OBVIOUS
  <2>2. /\ {i} \in SUBSET Rows /\ {l} \in SUBSET (Docs \X Rows) /\ pc \in Pcs
        /\ pc \notin ConfirmPcs /\ pc # "void.order" /\ "cancel_line" \in Ops
    BY DEF Pcs, ConfirmPcs, Ops
  <2>3. j \in JobType /\ j.op = "cancel_line" /\ j.pc = pc /\ j.doc = d /\ j.made = {}
    BY <2>1, <2>2, IdleFacts DEF JobType, Idle
  <2> QED
    BY <1>1, <1>2, <2>1, <2>2, <2>3, WorkInv
<1>3. ASSUME NEW op \in {"release", "drop"}, NEW pc \in {"release", "drop", "line"},
             NEW back \in SUBSET (Docs \X Rows),
             Begin(t, [Idle EXCEPT !.op = op, !.pc = pc, !.rows = {i}, !.back = back])
      PROVE  IInv'
  <2>1. PICK j : j = [Idle EXCEPT !.op = op, !.pc = pc, !.rows = {i}, !.back = back]
    OBVIOUS
  <2>2. /\ {i} \in SUBSET Rows /\ pc \in Pcs /\ op \in Ops \ {"confirm"} /\ pc \notin LinedPcs
        /\ pc \notin ConfirmPcs /\ pc # "void.order"
    BY DEF Pcs, ConfirmPcs, Ops, LinedPcs
  <2>3. j \in JobType /\ j.op = op /\ j.pc = pc /\ j.made = {}
    BY <2>1, <2>2, IdleFacts DEF JobType, Idle
  <2> QED
    BY <1>1, <1>3, <2>1, <2>2, <2>3, WorkInv
<1>4. open_lines_for_iclow({i}) \in SUBSET (Docs \X Rows)
  BY DEF open_lines_for_iclow
<1>5. CASE \E d \in Docs : cancel_order_line(t, d, i)
  BY <1>2, <1>5, OpenIsLined DEF cancel_order_line
<1>6. CASE release_incoming(t, i) \/ drop_incoming(t, i)
  BY <1>3, <1>4, <1>6 DEF release_incoming, drop_incoming, GiveUp
<1>7. CASE mark_product_unavailable(t, i)
  <2>1. CASE Begin(t, [Idle EXCEPT !.op = "release", !.pc = "release", !.rows = {i}])
    <3>1. PICK j : j = [Idle EXCEPT !.op = "release", !.pc = "release", !.rows = {i}]
      OBVIOUS
    <3>2. /\ {i} \in SUBSET Rows /\ "release" \in Pcs /\ "release" \in Ops
          /\ "release" \notin LinedPcs /\ "release" \notin ConfirmPcs
      BY DEF Pcs, ConfirmPcs, Ops, LinedPcs
    <3>3. j \in JobType /\ j.op = "release" /\ j.pc = "release" /\ j.made = {}
      BY <3>1, <3>2, IdleFacts DEF JobType, Idle
    <3> QED
      BY <1>1, <2>1, <3>1, <3>2, <3>3, WorkInv
  <2>2. CASE \E l \in open_lines_for_iclow({i}) :
               Begin(t, [Idle EXCEPT !.op = "cancel_line", !.pc = "recheck",
                                     !.doc = l[1], !.rows = {i}, !.back = {l}])
    <3>1. PICK l \in Docs \X {i} : IsOpen(l[1], l[2]) /\
               Begin(t, [Idle EXCEPT !.op = "cancel_line", !.pc = "recheck",
                                     !.doc = l[1], !.rows = {i}, !.back = {l}])
      BY <2>2 DEF open_lines_for_iclow
    <3>2. l \in Docs \X Rows /\ l[1] \in Docs /\ l[2] \in Rows /\ Lined(l[1])
      BY <3>1, OpenIsLined
    <3> QED
      BY <1>2, <3>1, <3>2
  <2> QED
    BY <1>7, <2>1, <2>2 DEF mark_product_unavailable
<1> QED
  BY <1>5, <1>6, <1>7

LEMMA TakesTyped == Takes \subseteq TakesType
BY DEF Takes, TakesType

LEMMA ReceiptRequestInv ==
  ASSUME IInv, NEW t \in Threads, NEW r \in Receipts,
         confirm_receipt(t, r) \/ \E takes \in Takes : SaveRead(t, r, takes)
  PROVE  IInv'
<1>1. UNCHANGED <<supabase, parts9, faults, crashes>>
  BY DEF confirm_receipt, SaveRead
<1>2. PICK op \in {"save", "receive"}, pc \in {"save.delete", "post"}, takes \in TakesType :
        Begin(t, [Idle EXCEPT !.op = op, !.pc = pc, !.r = r, !.takes = takes])
  BY TakesTyped DEF confirm_receipt, SaveRead, IInv, TypeOK
<1>3. PICK j : j = [Idle EXCEPT !.op = op, !.pc = pc, !.r = r, !.takes = takes]
  OBVIOUS
<1>4. op \in Ops /\ pc \in Pcs /\ pc \notin ConfirmPcs \cup LinedPcs
  BY DEF Ops, Pcs, ConfirmPcs, LinedPcs
<1>5. j \in JobType /\ j.pc = pc /\ j.op = op /\ j.made = {}
  BY <1>3, <1>4, IdleFacts DEF JobType, Idle
<1>6. RowJob(j) /\ LineJob(j) /\ pc # "lines"
  BY <1>4, <1>5 DEF RowJob, LineJob, ConfirmPcs, LinedPcs
<1> QED
  BY <1>1, <1>2, <1>3, <1>5, <1>6, BeginInv

LEMMA CreateReceiptInv ==
  ASSUME IInv, NEW r \in Receipts, NEW takes \in Takes, create_receipt(r, takes)
  PROVE  IInv'
<1>1. UNCHANGED <<iclow, order, line, bills, job, alone, faults, crashes>>
  BY DEF create_receipt, parts9, counters
<1>2. TypeOK'
  BY <1>1, TakesTyped DEF create_receipt, IInv, TypeOK
<1>3. JobsOK' /\ RowsOK' /\ OrdersOK' /\ OneWriter'
  BY <1>1 DEF IInv, JobsOK, RowJob, LineJob, RowsOK, RowOK, Received, OrdersOK, OrderOK,
       OneWriter, Lined, OpenLines, IsOpen
<1> QED
  BY <1>2, <1>3 DEF IInv

----------------------------------------------------------------------------
\* Steps that write the order d and its lines.

LEMMA BookInv ==
  ASSUME IInv, NEW t \in Threads, NEW j \in JobType, job' = [job EXCEPT ![t] = j],
         NEW d \in Docs, \A e \in Docs \ {d} : order'[e] = order[e] /\ line'[e] = line[e],
         \/ Lined(d) \/ order[d] # "ordered"
         \/ job[t].pc = "lines" /\ job[t].doc = d,
         Lined(d) => Lined(d)' /\ (OpenLines(d) = {} => OpenLines(d)' = {}),
         OrderOK(d)', RowJob(j), LineJob(j)', j.pc = "lines" => j.doc = d,
         order' \in [Docs -> {"none", "ordered", "canceled"}],
         line' \in [Docs -> [Rows -> {"none", "stamped", "created", "canceled"}]],
         UNCHANGED iclow, RestOK'
  PROVE  IInv'
<1>1. job'[t] = j /\ \A u \in Threads \ {t} : job'[u] = job[u]
  BY Typed
<1>2. \A u \in Threads \ {t} : job[u].pc = "lines" => job[u].doc \in Docs \ {d}
  BY Typed DEF LineJob, IInv, OneWriter
<1>3. Apart(t)
  BY <1>1, <1>2 DEF Apart
<1>4. \A e \in Docs \ {d} : /\ Lined(e)' <=> Lined(e)
                            /\ OpenLines(e)' = OpenLines(e)
  BY DEF Lined, OpenLines, IsOpen
<1>5. Onward
  BY <1>4 DEF Onward
<1>6. OrdersOK'
  <2> SUFFICES ASSUME NEW e \in Docs PROVE OrderOK(e)'
    BY DEF OrdersOK
  <2>1. CASE e = d
    BY <2>1
  <2>2. CASE e # d
    BY <1>4, <2>2, Typed DEF OrderOK
  <2> QED
    BY <2>1, <2>2
<1>7. RowsOK' /\ RowJob(j)'
  BY DEF IInv, RowsOK, RowOK, Received, RowJob
<1>8. iclow' \in [Rows -> RowType]
  BY Typed
<1> QED
  BY <1>3, <1>5, <1>6, <1>7, <1>8, StepInv

LEMMA AgainFacts ==
  ASSUME IInv, NEW t \in Threads, job[t].op = "confirm"
  PROVE  /\ Again(t) \in JobType /\ RowJob(Again(t)) /\ LineJob(Again(t))
         /\ Again(t).pc \in {"insert", "idle"} /\ Again(t).made = {}
         /\ Again(t).op = "confirm" => Again(t).rows = job[t].rows
<1>1. PICK k \in JobType : k = job[t] /\ RowJob(k) /\ k.op = "confirm"
  BY Typed
<1>2. "insert" \in Pcs
  BY DEF Pcs
<1>3. CASE job[t].tries < 2
  <2>1. PICK j : j = [k EXCEPT !.pc = "insert", !.tries = k.tries + 1, !.made = {}]
    OBVIOUS
  <2>2. k.tries + 1 \in 0..2
    BY <1>1, <1>3 DEF JobType
  <2>3. j \in JobType /\ j.pc = "insert" /\ j.op = "confirm" /\ j.made = {} /\ j.rows = k.rows
    BY <1>1, <1>2, <2>1, <2>2 DEF JobType
  <2>4. RowJob(j) /\ LineJob(j)
    BY <1>1, <2>3 DEF RowJob, LineJob, LinedPcs
  <2>5. Again(t) = j
    BY <1>1, <1>3, <2>1 DEF Again
  <2> QED
    BY <1>1, <2>3, <2>4, <2>5
<1>4. CASE ~(job[t].tries < 2)
  BY <1>4, IdleFacts, IdleOK DEF Again
<1> QED
  BY <1>3, <1>4

\* A handler unwinds, with or without rows to cancel.
LEMMA UnwindFacts ==
  ASSUME IInv, NEW t \in Threads, Unwind(t) \/ Return(t)
  PROVE  \E j \in JobType : /\ job' = [job EXCEPT ![t] = j] /\ j.pc \in {"idle", "undo"}
                            /\ RowJob(j)
<1>1. CASE Return(t)
  BY <1>1, ReturnFacts, IdleFacts, IdleOK
<1>2. CASE Goto(t, "undo")
  <2>1. "undo" \in Pcs /\ RowJob(job[t])
    BY Typed DEF Pcs
  <2>2. PICK j \in JobType :
           /\ job' = [job EXCEPT ![t] = j] /\ j.pc = "undo" /\ j.op = job[t].op
           /\ j.doc = job[t].doc /\ j.rows = job[t].rows /\ j.made = job[t].made
    BY <1>2, <2>1, GotoFacts
  <2>3. RowJob(j)
    BY <2>1, <2>2 DEF RowJob, ConfirmPcs
  <2> QED
    BY <2>2, <2>3
<1> QED
  BY <1>1, <1>2 DEF Unwind

LEMMA InsertOrderInv ==
  ASSUME IInv, NEW t \in Threads, insert_order(t)
  PROVE  IInv'
<1>1. PICK d \in Docs : /\ d = job[t].doc /\ job[t].pc = "header" /\ job[t].op = "confirm"
                        /\ RowJob(job[t]) /\ OrderOK(d)
  BY Typed DEF insert_order, LineJob, RowJob, ConfirmPcs
<1>2. UNCHANGED <<iclow, line>> /\ RestOK'
  BY RestStays DEF insert_order, parts9, counters
<1>3. CASE order[d] = "none"
  <2>1. "lines" \in Pcs
    BY DEF Pcs
  <2>2. PICK j \in JobType :
           /\ job' = [job EXCEPT ![t] = j] /\ j.pc = "lines" /\ j.op = job[t].op
           /\ j.doc = d /\ j.rows = job[t].rows /\ j.made = job[t].made
    BY <1>1, <1>3, <2>1, GotoFacts DEF insert_order
  <2>3. order' = [order EXCEPT ![d] = "ordered"]
    BY <1>1, <1>3 DEF insert_order
  <2>4. /\ order' \in [Docs -> {"none", "ordered", "canceled"}] /\ order'[d] = "ordered"
        /\ \A e \in Docs \ {d} : order'[e] = order[e] /\ line'[e] = line[e]
    BY <1>2, <2>3, Typed
  <2>5. ~Lined(d) /\ ~Lined(d)'
    BY <1>1, <1>2, <1>3 DEF OrderOK, Lined
  <2>6. OrderOK(d)' /\ LineJob(j)' /\ RowJob(j)
    BY <1>1, <2>2, <2>4, <2>5 DEF OrderOK, LineJob, RowJob, LinedPcs
  <2>7. line' \in [Docs -> [Rows -> {"none", "stamped", "created", "canceled"}]]
    BY <1>2, Typed
  <2> QED
    BY <1>2, <1>3, <2>2, <2>4, <2>5, <2>6, <2>7, BookInv
<1>4. CASE order[d] # "none"
  <2>1. UNCHANGED order /\ (Go(t, Again(t)) \/ Go(t, [job[t] EXCEPT !.pc = "retry"]))
    BY <1>1, <1>4 DEF insert_order
  <2>2. CASE Go(t, Again(t))
    <3>1. PICK j \in JobType : j = Again(t) /\ RowJob(j) /\ LineJob(j) /\ j.pc # "lines"
      BY <1>1, AgainFacts
    <3> QED
      BY <1>2, <2>1, <2>2, <3>1, QuietInv DEF Go
  <2>3. CASE Go(t, [job[t] EXCEPT !.pc = "retry"])
    <3>1. "retry" \in Pcs /\ "retry" \in ConfirmPcs \ {"header", "lines", "stamp"}
      BY DEF Pcs, ConfirmPcs
    <3>2. Goto(t, "retry")
      BY <2>3 DEF Go, Goto
    <3> QED
      BY <1>1, <1>2, <2>1, <3>1, <3>2, GotoInv
  <2> QED
    BY <2>1, <2>2, <2>3
<1> QED
  BY <1>3, <1>4

\* The header of an order without lines is deleted, or stays.
LEMMA InsertFailsInv ==
  ASSUME IInv, NEW t \in Threads,
         job[t].pc \in {"header", "lines"}, Unwind(t), UNCHANGED <<iclow, line>>, RestOK',
         order' = IF job[t].pc = "lines" THEN [order EXCEPT ![job[t].doc] = "none"] ELSE order
  PROVE  IInv'
<1>1. PICK j \in JobType : /\ job' = [job EXCEPT ![t] = j] /\ j.pc \in {"idle", "undo"}
                           /\ RowJob(j)
  BY UnwindFacts
<1>2. LineJob(j) /\ LineJob(j)' /\ j.pc # "lines"
  BY <1>1 DEF LineJob, LinedPcs
<1>3. CASE job[t].pc = "header"
  <2>1. UNCHANGED order
    BY <1>3
  <2> QED
    BY <1>1, <1>2, <2>1, QuietInv
<1>4. CASE job[t].pc = "lines"
  <2>1. PICK d \in Docs : d = job[t].doc /\ ~Lined(d)
    BY <1>4, Typed DEF LineJob
  <2>2. /\ order' \in [Docs -> {"none", "ordered", "canceled"}] /\ order'[d] = "none"
        /\ \A e \in Docs \ {d} : order'[e] = order[e] /\ line'[e] = line[e]
    BY <1>4, <2>1, Typed
  <2>3. OrderOK(d)'
    BY <2>1, <2>2 DEF OrderOK, Lined
  <2>4. line' \in [Docs -> [Rows -> {"none", "stamped", "created", "canceled"}]]
    BY Typed
  <2> QED
    BY <1>1, <1>2, <1>4, <2>1, <2>2, <2>3, <2>4, BookInv
<1> QED
  BY <1>3, <1>4

\* The lines of an order are its first.
LEMMA LinesWrittenInv ==
  ASSUME IInv, NEW t \in Threads, job[t].pc = "lines",
         line' = [line EXCEPT ![job[t].doc] = [i \in Rows |->
                   IF i \in job[t].made THEN "created"
                   ELSE IF i \in job[t].rows THEN "stamped" ELSE @[i]]],
         IF job[t].rows = {} THEN Return(t) ELSE Goto(t, "stamp"),
         UNCHANGED <<iclow, order>>, RestOK'
  PROVE  IInv'
<1>1. PICK d \in Docs : d = job[t].doc /\ ~Lined(d) /\ order[d] = "ordered"
  BY Typed DEF LineJob
<1>2. PICK f : f = [i \in Rows |-> IF i \in job[t].made THEN "created"
                     ELSE IF i \in job[t].rows THEN "stamped" ELSE line[job[t].doc][i]]
  OBVIOUS
<1>3. f \in [Rows -> {"none", "stamped", "created", "canceled"}]
  BY <1>1, <1>2, Typed
<1>4. line' = [line EXCEPT ![d] = f]
  <2>1. line' = [line EXCEPT ![job[t].doc] = f]
    BY <1>2
  <2> QED
    BY <1>1, <2>1
<1>5. /\ line' \in [Docs -> [Rows -> {"none", "stamped", "created", "canceled"}]]
      /\ line'[d] = f
      /\ \A e \in Docs \ {d} : order'[e] = order[e] /\ line'[e] = line[e]
  <2>1. line \in [Docs -> [Rows -> {"none", "stamped", "created", "canceled"}]]
    BY Typed
  <2> QED
    BY ONLY <1>1, <1>3, <1>4, <2>1, UNCHANGED <<iclow, order>>
<1>6. OrderOK(d)'
  BY <1>1 DEF OrderOK
<1>7. job[t] \in JobType /\ RowJob(job[t]) /\ job[t].op = "confirm"
  BY Typed DEF RowJob, ConfirmPcs
<1>8. order' \in [Docs -> {"none", "ordered", "canceled"}]
  BY Typed
<1>9. CASE Return(t)
  <2>1. job' = [job EXCEPT ![t] = Idle] /\ LineJob(Idle)' /\ RowJob(Idle) /\ Idle.pc # "lines"
    BY <1>9, ReturnFacts, IdleFacts, IdleOK DEF LineJob, LinedPcs
  <2> QED
    BY <1>1, <1>5, <1>6, <1>8, <2>1, IdleFacts, BookInv
<1>10. CASE job[t].rows # {} /\ Goto(t, "stamp")
  <2>1. "stamp" \in Pcs
    BY DEF Pcs
  <2>2. PICK j \in JobType :
           /\ job' = [job EXCEPT ![t] = j] /\ j.pc = "stamp" /\ j.op = job[t].op
           /\ j.doc = job[t].doc /\ j.rows = job[t].rows /\ j.made = job[t].made
    BY <1>10, <2>1, GotoFacts
  <2>3. PICK i \in Rows : i \in job[t].rows
    BY <1>7, <1>10 DEF JobType
  <2>4. line'[d][i] # "none"
    BY <1>2, <1>5, <2>3
  <2>5. LineJob(j)'
    BY <1>1, <2>2, <2>4 DEF LineJob, Lined, LinedPcs
  <2>6. RowJob(j)
    BY <1>7, <2>2 DEF RowJob, ConfirmPcs
  <2> QED
    BY <1>1, <1>5, <1>6, <1>8, <2>2, <2>5, <2>6, BookInv
<1> QED
  BY <1>9, <1>10

LEMMA InsertLinesInv ==
  ASSUME IInv, NEW t \in Threads, insert_lines(t) \/ InsertFails(t)
  PROVE  IInv'
<1>1. UNCHANGED iclow /\ RestOK'
  BY RestStays DEF insert_lines, InsertFails, parts9, counters
<1>2. CASE InsertFails(t)
  BY <1>1, <1>2, InsertFailsInv DEF InsertFails, parts9
<1>3. CASE insert_lines(t)
  <2>1. \/ /\ order' = [order EXCEPT ![job[t].doc] = "none"] /\ Unwind(t) /\ UNCHANGED line
        \/ /\ line' = [line EXCEPT ![job[t].doc] = [i \in Rows |->
                   IF i \in job[t].made THEN "created"
                   ELSE IF i \in job[t].rows THEN "stamped" ELSE @[i]]]
           /\ (IF job[t].rows = {} THEN Return(t) ELSE Goto(t, "stamp")) /\ UNCHANGED order
    BY <1>3 DEF insert_lines
  <2>2. job[t].pc = "lines"
    BY <1>3 DEF insert_lines
  <2> QED
    BY <1>1, <2>1, <2>2, InsertFailsInv, LinesWrittenInv
<1> QED
  BY <1>2, <1>3

\* A header that stays without lines.
LEMMA HeaderLeftInv ==
  ASSUME IInv, NEW t \in Threads, HeaderLeft(t)
  PROVE  IInv'
<1>1. UNCHANGED <<iclow, line>> /\ RestOK' /\ Unwind(t) /\ job[t].pc \in {"header", "lines"}
  BY RestStays DEF HeaderLeft, parts9
<1>2. PICK j \in JobType : /\ job' = [job EXCEPT ![t] = j] /\ j.pc \in {"idle", "undo"}
                           /\ RowJob(j)
  BY <1>1, UnwindFacts
<1>3. LineJob(j)' /\ j.pc # "lines"
  BY <1>2 DEF LineJob, LinedPcs
<1>4. PICK d \in Docs : d = job[t].doc /\ OrderOK(d) /\ ~Lined(d)
  BY <1>1, Typed DEF HeaderLeft, LineJob, OrderOK
<1>5. order' = [order EXCEPT ![d] = "ordered"]
  BY <1>4 DEF HeaderLeft
<1>6. /\ order' \in [Docs -> {"none", "ordered", "canceled"}] /\ order'[d] = "ordered"
      /\ \A e \in Docs \ {d} : order'[e] = order[e] /\ line'[e] = line[e]
  BY <1>1, <1>5, Typed
<1>7. OrderOK(d)'
  BY <1>6 DEF OrderOK
<1>8. order[d] # "ordered" \/ (job[t].pc = "lines" /\ job[t].doc = d)
  BY <1>1, <1>4 DEF HeaderLeft
<1>9. line' \in [Docs -> [Rows -> {"none", "stamped", "created", "canceled"}]]
  BY <1>1, Typed
<1> QED
  BY <1>1, <1>2, <1>3, <1>4, <1>6, <1>7, <1>8, <1>9, BookInv

LEMMA VoidInv ==
  ASSUME IInv, NEW t \in Threads, mark_lines(t) \/ mark_order_canceled(t)
  PROVE  IInv'
<1>1. PICK d \in Docs : d = job[t].doc /\ Lined(d) /\ OrderOK(d) /\ LineJob(job[t])
  BY Typed DEF mark_lines, mark_order_canceled, LineJob, LinedPcs
<1>2. UNCHANGED iclow /\ RestOK' /\ RowJob(job[t])
  BY RestStays, Typed DEF mark_lines, mark_order_canceled, parts9, counters
<1>3. CASE mark_lines(t)
  <2>1. PICK f : f = [i \in Rows |-> IF IsOpen(d, i) THEN "canceled" ELSE line[d][i]]
    OBVIOUS
  <2>2. f \in [Rows -> {"none", "stamped", "created", "canceled"}]
    BY <2>1, Typed
  <2>3. line' = [line EXCEPT ![d] = f] /\ UNCHANGED order
    BY <1>1, <1>3, <2>1, Typed DEF mark_lines
  <2>4. /\ line' \in [Docs -> [Rows -> {"none", "stamped", "created", "canceled"}]]
        /\ line'[d] = f
        /\ \A e \in Docs \ {d} : order'[e] = order[e] /\ line'[e] = line[e]
    BY <2>2, <2>3, Typed
  <2>5. OpenLines(d)' = {}
    BY <2>1, <2>4 DEF OpenLines, IsOpen
  <2>6. Lined(d)'
    BY <1>1, <2>1, <2>4 DEF Lined
  <2>7. "void.order" \in Pcs
    BY DEF Pcs
  <2>8. PICK j \in JobType :
           /\ job' = [job EXCEPT ![t] = j] /\ j.pc = "void.order" /\ j.op = job[t].op
           /\ j.doc = job[t].doc /\ j.rows = job[t].rows /\ j.made = job[t].made
    BY <1>3, <2>7, GotoFacts DEF mark_lines
  <2>9. LineJob(j)' /\ RowJob(j)
    BY <1>1, <1>2, <2>5, <2>6, <2>8 DEF LineJob, RowJob, ConfirmPcs
  <2>10. OrderOK(d)' /\ order' \in [Docs -> {"none", "ordered", "canceled"}]
    BY <1>1, <2>3, <2>5, Typed DEF OrderOK
  <2> QED
    BY <1>1, <1>2, <2>4, <2>5, <2>6, <2>8, <2>9, <2>10, BookInv
<1>4. CASE mark_order_canceled(t)
  <2>1. OpenLines(d) = {} /\ UNCHANGED line /\ order' = [order EXCEPT ![d] = "canceled"]
    BY <1>1, <1>4 DEF mark_order_canceled, LineJob
  <2>2. PICK j \in JobType : /\ job' = [job EXCEPT ![t] = j] /\ j.pc \in {"idle", "undo"}
                             /\ RowJob(j)
    BY <1>4, UnwindFacts DEF mark_order_canceled
  <2>3. LineJob(j)' /\ j.pc # "lines"
    BY <2>2 DEF LineJob, LinedPcs
  <2>4. /\ order' \in [Docs -> {"none", "ordered", "canceled"}] /\ order'[d] = "canceled"
        /\ \A e \in Docs \ {d} : order'[e] = order[e] /\ line'[e] = line[e]
        /\ line' \in [Docs -> [Rows -> {"none", "stamped", "created", "canceled"}]]
    BY <2>1, Typed
  <2>5. Lined(d)' /\ OpenLines(d)' = {}
    BY <1>1, <2>1 DEF Lined, OpenLines, IsOpen
  <2>6. OrderOK(d)'
    BY <2>4, <2>5 DEF OrderOK
  <2> QED
    BY <1>1, <1>2, <2>2, <2>3, <2>4, <2>5, <2>6, BookInv
<1> QED
  BY <1>3, <1>4

LEMMA LineInv ==
  ASSUME IInv, NEW t \in Threads, NEW l \in Docs \X Rows, mark_line_canceled(t, l)
  PROVE  IInv'
<1>1. PICK d \in Docs, i \in Rows : l[1] = d /\ l[2] = i
  OBVIOUS
<1>2. UNCHANGED <<iclow, order>> /\ RestOK'
  BY RestStays DEF mark_line_canceled, parts9, counters
<1>3. CASE Return(t) /\ UNCHANGED line
  BY <1>2, <1>3, ReturnInv
<1>4. CASE /\ IsOpen(d, i) /\ line' = [line EXCEPT ![d][i] = "canceled"]
           /\ Go(t, [job[t] EXCEPT !.pc = "close", !.doc = d, !.back = @ \ {l}])
  <2>1. PICK k \in JobType : k = job[t] /\ RowJob(k)
    BY Typed
  <2>2. PICK j : j = [k EXCEPT !.pc = "close", !.doc = d, !.back = k.back \ {l}]
    OBVIOUS
  <2>3. "close" \in Pcs /\ "close" \notin ConfirmPcs
    BY DEF Pcs, ConfirmPcs
  <2>4. /\ j \in JobType /\ j.pc = "close" /\ j.doc = d /\ j.op = k.op
        /\ j.rows = k.rows /\ j.made = k.made
    BY <2>1, <2>2, <2>3 DEF JobType
  <2>5. job' = [job EXCEPT ![t] = j]
    BY <1>4, <2>1, <2>2 DEF Go
  <2>6. PICK f : f = [line[d] EXCEPT ![i] = "canceled"]
    OBVIOUS
  <2>7. /\ f \in [Rows -> {"none", "stamped", "created", "canceled"}] /\ f[i] = "canceled"
        /\ \A n \in Rows \ {i} : f[n] = line[d][n]
    BY <2>6, Typed
  <2>8. line' = [line EXCEPT ![d] = f]
    BY <1>4, <2>6
  <2>9. /\ line' \in [Docs -> [Rows -> {"none", "stamped", "created", "canceled"}]]
        /\ line'[d] = f
        /\ \A e \in Docs \ {d} : order'[e] = order[e] /\ line'[e] = line[e]
    BY <1>2, <2>7, <2>8, Typed
  <2>10. Lined(d) /\ Lined(d)' /\ OpenLines(d)' \subseteq OpenLines(d)
    BY <1>4, <2>7, <2>9, OpenIsLined DEF Lined, OpenLines, IsOpen
  <2>11. LineJob(j)' /\ RowJob(j)
    BY <2>1, <2>3, <2>4, <2>10 DEF LineJob, RowJob
  <2>12. OrderOK(d)' /\ order' \in [Docs -> {"none", "ordered", "canceled"}]
    BY <1>2, <2>10, Typed DEF OrderOK
  <2>13. OpenLines(d) = {} => OpenLines(d)' = {}
    BY <2>10
  <2>14. j.pc # "lines"
    BY <2>4
  <2> QED
    BY <1>2, <2>4, <2>5, <2>9, <2>10, <2>11, <2>12, <2>13, <2>14, BookInv
<1> QED
  BY <1>1, <1>3, <1>4 DEF mark_line_canceled

LEMMA CloseInv ==
  ASSUME IInv, NEW t \in Threads, CloseOrder(t)
  PROVE  IInv'
<1>1. PICK d \in Docs : /\ d = job[t].doc /\ Lined(d) /\ OrderOK(d) /\ job[t].pc = "close"
                        /\ RowJob(job[t])
  BY Typed DEF CloseOrder, LineJob, LinedPcs
<1>2. UNCHANGED <<iclow, line>> /\ RestOK'
  BY RestStays DEF CloseOrder, parts9, counters
<1>3. /\ order' \in [Docs -> {"none", "ordered", "canceled"}]
      /\ \A e \in Docs \ {d} : order'[e] = order[e] /\ line'[e] = line[e]
      /\ order'[d] = order[d] \/ (order'[d] = "canceled" /\ OpenLines(d) = {})
  BY <1>1, <1>2, Typed DEF CloseOrder
<1>4. Lined(d)' /\ OpenLines(d)' = OpenLines(d)
  BY <1>1, <1>2 DEF Lined, OpenLines, IsOpen
<1>5. OrderOK(d)'
  BY <1>1, <1>3, <1>4 DEF OrderOK
<1>6. line' \in [Docs -> [Rows -> {"none", "stamped", "created", "canceled"}]]
  BY <1>2, Typed
<1>7. PICK j \in JobType : /\ job' = [job EXCEPT ![t] = j] /\ RowJob(j)
                           /\ j.pc \in {"idle", "line", "resolve", "insert", "release", "drop"}
  <2>1. CASE Return(t)
    BY <2>1, ReturnFacts, IdleFacts, IdleOK
  <2>2. ASSUME NEW pc \in {"line", "release", "drop", "resolve", "insert"}, Goto(t, pc),
               pc \in {"resolve", "insert"} => job[t].op = "confirm"
        PROVE  \E j \in JobType :
                 /\ job' = [job EXCEPT ![t] = j] /\ RowJob(j)
                 /\ j.pc \in {"idle", "line", "resolve", "insert", "release", "drop"}
    <3>1. pc \in Pcs
      BY DEF Pcs
    <3>2. PICK j \in JobType :
           /\ job' = [job EXCEPT ![t] = j] /\ j.pc = pc /\ j.op = job[t].op
           /\ j.doc = job[t].doc /\ j.rows = job[t].rows /\ j.made = job[t].made
      BY <2>2, <3>1, GotoFacts
    <3>3. RowJob(j)
      BY <1>1, <2>2, <3>2 DEF RowJob, ConfirmPcs
    <3> QED
      BY <3>2, <3>3
  <2>3. PICK n : /\ n = AfterLines(job[t].op, job[t].want)
                 /\ Return(t) \/ Goto(t, "line") \/ (n # "idle" /\ Goto(t, n))
    BY DEF CloseOrder
  <2>4. \/ n \in {"release", "drop", "idle"}
        \/ job[t].op = "confirm" /\ n \in {"resolve", "insert"}
    BY <2>3 DEF AfterLines, Resolve
  <2> QED
    BY <2>1, <2>2, <2>3, <2>4
<1>8. LineJob(j)' /\ j.pc # "lines"
  BY <1>7 DEF LineJob, LinedPcs
<1> QED
  BY <1>1, <1>2, <1>3, <1>4, <1>5, <1>6, <1>7, <1>8, BookInv

----------------------------------------------------------------------------
\* What becomes of a row in a step.

Kind(w) == IF ~w.there THEN "absent" ELSE IF w.got # "none" THEN "received"
           ELSE IF w.canceled THEN "dropped" ELSE IF w.ordered = "Y" THEN "incoming" ELSE "waiting"
Owner(w) == IF Kind(w) = "incoming" THEN w.doc ELSE NoDoc
Whole(w) == /\ w \in RowType /\ (~w.there => w = Absent)
            /\ w.got # "none" => w.ordered = "Y" /\ ~w.canceled

Became(v, w, From, to, d) ==
  /\ Whole(w) /\ (v.there => w.there)
  /\ \/ Kind(w) = Kind(v) /\ Owner(w) = Owner(v)
     \/ Kind(v) \in From /\ Kind(w) = to /\ Owner(w) = d

Turned(From, to, d) ==
  /\ iclow' = [i \in Rows |-> iclow'[i]]
  /\ \A i \in Rows : Became(iclow[i], iclow'[i], From, to, d)

\* A step of RowLife, or none.
RowsTurn ==
  \/ \E d \in Docs : Turned({"waiting"}, "incoming", d) \/ Turned({"absent"}, "incoming", d)
  \/ Turned({"incoming"}, "waiting", NoDoc)
  \/ Turned({"incoming", "waiting"}, "dropped", NoDoc)
  \/ Turned({"incoming"}, "received", NoDoc)

LEMMA WholeRows ==
  ASSUME IInv
  PROVE  \A i \in Rows : Whole(iclow[i])
BY Typed DEF Whole, RowOK, Received

LEMMA Stays ==
  ASSUME NEW v, Whole(v), NEW From, NEW to, NEW d
  PROVE  Became(v, v, From, to, d)
BY DEF Became

LEMMA OrderedRow ==
  ASSUME NEW v, Whole(v), v.there, ~v.canceled, v.got = "none", v.ordered # "Y", NEW d \in Docs,
         NEW w, w = [v EXCEPT !.ordered = "Y", !.doc = d]
  PROVE  Became(v, w, {"waiting"}, "incoming", d)
<1>1. /\ w \in RowType /\ w.there /\ w.ordered = "Y" /\ w.doc = d /\ w.got = "none" /\ ~w.canceled
  BY DEF Whole, RowType
<1> QED
  BY <1>1 DEF Became, Whole, Kind, Owner

LEMMA InsertedRow ==
  ASSUME NEW v, Whole(v), ~v.there, NEW d \in Docs,
         NEW w, w = [Absent EXCEPT !.there = TRUE, !.ordered = "Y", !.doc = d]
  PROVE  Became(v, w, {"absent"}, "incoming", d)
<1>1. /\ w \in RowType /\ w.there /\ w.ordered = "Y" /\ w.doc = d /\ w.got = "none" /\ ~w.canceled
  BY DEF Absent, RowType
<1> QED
  BY <1>1 DEF Became, Whole, Kind, Owner

LEMMA ReturnedRow ==
  ASSUME NEW v, Whole(v), v.there, v.got = "none", v.ordered # "N" \/ v.doc # NoDoc,
         NEW w, \/ w = [v EXCEPT !.ordered = "N", !.doc = NoDoc]
                \/ w = [v EXCEPT !.ordered = "X"]
  PROVE  Became(v, w, {"incoming"}, "waiting", NoDoc)
<1>1. /\ w \in RowType /\ w.there /\ w.ordered \in {"N", "X"} /\ w.got = "none"
      /\ w.canceled = v.canceled
  BY DEF Whole, RowType
<1> QED
  BY <1>1 DEF Became, Whole, Kind, Owner

LEMMA CanceledRow ==
  ASSUME NEW v, Whole(v), v.there, v.got = "none", NEW w, w = [v EXCEPT !.canceled = TRUE]
  PROVE  Became(v, w, {"incoming", "waiting"}, "dropped", NoDoc)
<1>1. /\ w \in RowType /\ w.there /\ w.got = "none" /\ w.canceled
  BY DEF Whole, RowType
<1> QED
  BY <1>1 DEF Became, Whole, Kind, Owner

LEMMA ReceivedRow ==
  ASSUME NEW v, Whole(v), v.there, v.got = "none", v.ordered = "Y", ~v.canceled,
         NEW k \in {"all", "some"}, NEW w, w = [v EXCEPT !.got = k]
  PROVE  Became(v, w, {"incoming"}, "received", NoDoc)
<1>1. /\ w \in RowType /\ w.there /\ w.got # "none" /\ w.ordered = "Y" /\ ~w.canceled
  BY DEF Whole, RowType
<1> QED
  BY <1>1 DEF Became, Whole, Kind, Owner

\* Rows of the type stay there and hold together.
LEMMA TurnFacts ==
  ASSUME IInv, RowsTurn, UNCHANGED <<order, line>>
  PROVE  /\ iclow' \in [Rows -> RowType] /\ RowsOK' /\ Onward
         /\ OrdersOK' /\ UNCHANGED <<order, line>>
<1>1. /\ iclow' = [i \in Rows |-> iclow'[i]]
      /\ \A i \in Rows : Whole(iclow'[i]) /\ (iclow[i].there => iclow'[i].there)
  BY DEF RowsTurn, Turned, Became
<1>2. iclow' \in [Rows -> RowType]
  BY <1>1 DEF Whole
<1>3. RowsOK'
  BY <1>1 DEF RowsOK, RowOK, Received, Whole
<1>4. Onward
  BY <1>1 DEF Onward, Lined, OpenLines, IsOpen
<1>5. OrdersOK'
  BY DEF IInv, OrdersOK, OrderOK, Lined, OpenLines, IsOpen
<1> QED
  BY <1>2, <1>3, <1>4, <1>5

\* A step of t that writes rows and no order.
LEMMA RowsInv ==
  ASSUME IInv, NEW t \in Threads, NEW j \in JobType, job' = [job EXCEPT ![t] = j],
         RowsTurn, UNCHANGED <<order, line>>, RowJob(j)', LineJob(j), j.pc # "lines", RestOK'
  PROVE  IInv'
<1>1. /\ iclow' \in [Rows -> RowType] /\ RowsOK' /\ Onward /\ OrdersOK'
  BY TurnFacts
<1>2. job'[t] = j /\ \A u \in Threads \ {t} : job'[u] = job[u]
  BY Typed
<1>3. Apart(t)
  BY <1>2 DEF Apart
<1>4. LineJob(j)'
  BY DEF LineJob, Lined, OpenLines, IsOpen
<1>5. /\ order' \in [Docs -> {"none", "ordered", "canceled"}]
      /\ line' \in [Docs -> [Rows -> {"none", "stamped", "created", "canceled"}]]
  BY Typed
<1> QED
  BY <1>1, <1>3, <1>4, <1>5, StepInv

\* A row step of PARTS9 itself.
LEMMA OutsideInv ==
  ASSUME IInv, RowsTurn, UNCHANGED <<order, line, job>>, RestOK'
  PROVE  IInv'
<1>1. /\ iclow' \in [Rows -> RowType] /\ RowsOK' /\ Onward /\ OrdersOK'
  BY TurnFacts
<1>2. JobsOK'
  <2> SUFFICES ASSUME NEW u \in Threads PROVE RowJob(job[u])' /\ LineJob(job[u])'
    BY DEF JobsOK
  <2>1. PICK k \in JobType : k = job[u] /\ k = job'[u] /\ RowJob(k) /\ LineJob(k)
    BY Typed
  <2>2. RowJob(k)' /\ LineJob(k)'
    BY <1>1, <2>1, JobStays
  <2> QED
    BY <2>1, <2>2 DEF RowJob, LineJob
<1>3. TypeOK'
  BY <1>1 DEF IInv, TypeOK, RestOK
<1>4. OneWriter'
  BY DEF IInv, OneWriter
<1> QED
  BY <1>1, <1>2, <1>3, <1>4 DEF IInv

----------------------------------------------------------------------------
\* Steps that write rows.

LEMMA OutsideTurn ==
  ASSUME IInv, NEW i \in Rows, dismiss_waiting(i) \/ LegacyRelease(i)
  PROVE  RowsTurn
<1>1. CASE dismiss_waiting(i)
  <2>1. iclow' = [k \in Rows |-> iclow'[k]]
    BY <1>1 DEF dismiss_waiting
  <2>2. ASSUME NEW k \in Rows
        PROVE  Became(iclow[k], iclow'[k], {"incoming", "waiting"}, "dropped", NoDoc)
    <3>1. CASE iclow'[k] = iclow[k]
      BY <3>1, WholeRows, Stays
    <3>2. CASE /\ iclow[k].there /\ iclow[k].got = "none"
               /\ iclow'[k] = [iclow[k] EXCEPT !.canceled = TRUE]
      BY <3>2, WholeRows, CanceledRow
    <3> QED
      BY <1>1, <3>1, <3>2 DEF dismiss_waiting, can_stamp_row, Received
  <2> QED
    BY <2>1, <2>2 DEF RowsTurn, Turned
<1>2. CASE LegacyRelease(i)
  <2>1. iclow' = [k \in Rows |-> iclow'[k]]
    BY <1>2, Typed DEF LegacyRelease
  <2>2. ASSUME NEW k \in Rows
        PROVE  Became(iclow[k], iclow'[k], {"incoming"}, "waiting", NoDoc)
    <3>1. CASE iclow'[k] = iclow[k]
      BY <3>1, WholeRows, Stays
    <3>2. CASE /\ iclow[k].there /\ iclow[k].got = "none" /\ iclow[k].ordered = "Y"
               /\ iclow'[k] = [iclow[k] EXCEPT !.ordered = "X"]
      BY <3>2, WholeRows, ReturnedRow
    <3> QED
      BY <1>2, <3>1, <3>2, Typed DEF LegacyRelease, Incoming, Received
  <2> QED
    BY <2>1, <2>2 DEF RowsTurn, Turned
<1> QED
  BY <1>1, <1>2

LEMMA OutsideStepInv ==
  ASSUME IInv, NEW i \in Rows, dismiss_waiting(i) \/ LegacyRelease(i)
  PROVE  IInv'
<1>1. UNCHANGED <<order, line, job, receipt, bills, faults, crashes>>
  BY DEF dismiss_waiting, LegacyRelease, supabase
<1>2. RestOK'
  BY <1>1, RestStays DEF dismiss_waiting, LegacyRelease
<1> QED
  BY <1>1, <1>2, OutsideTurn, OutsideInv

LEMMA InsertTurn ==
  ASSUME IInv, NEW t \in Threads, NEW d \in Docs, NEW S \in SUBSET Inserted,
         insert_ordered_lines(t, d, S)
  PROVE  RowsTurn
<1>1. iclow' = [k \in Rows |-> iclow'[k]]
  BY DEF insert_ordered_lines
<1>2. ASSUME NEW k \in Rows
      PROVE  Became(iclow[k], iclow'[k], {"absent"}, "incoming", d)
  <2>1. CASE iclow'[k] = iclow[k]
    BY <2>1, WholeRows, Stays
  <2>2. CASE /\ ~iclow[k].there
             /\ iclow'[k] = [Absent EXCEPT !.there = TRUE, !.ordered = "Y", !.doc = d]
    BY <2>2, WholeRows, InsertedRow
  <2> QED
    BY <2>1, <2>2 DEF insert_ordered_lines
<1> QED
  BY <1>1, <1>2 DEF RowsTurn, Turned

LEMMA StampTurn ==
  ASSUME IInv, NEW t \in Threads, stamp_ordered(t) \/ StampAnswerLost(t), iclow' # iclow
  PROVE  RowsTurn
<1>1. PICK d \in Docs : d = job[t].doc
  BY Typed DEF stamp_ordered, StampAnswerLost, LineJob, LinedPcs
<1>2. \A k \in job[t].rows : can_stamp_row(k) /\ iclow[k].there
  BY Typed DEF stamp_ordered, StampAnswerLost, RowJob, ConfirmPcs
<1>3. iclow' = [k \in Rows |-> IF k \in job[t].rows
                 THEN [iclow[k] EXCEPT !.ordered = "Y", !.doc = d] ELSE iclow[k]]
  BY <1>1 DEF stamp_ordered, StampAnswerLost
<1>4. ASSUME NEW k \in Rows
      PROVE  Became(iclow[k], iclow'[k], {"waiting"}, "incoming", d)
  <2>1. CASE iclow'[k] = iclow[k]
    BY <2>1, WholeRows, Stays
  <2>2. CASE /\ k \in job[t].rows
             /\ iclow'[k] = [iclow[k] EXCEPT !.ordered = "Y", !.doc = d]
    BY <1>2, <2>2, WholeRows, OrderedRow DEF can_stamp_row, Received
  <2> QED
    BY <1>3, <2>1, <2>2
<1> QED
  BY <1>3, <1>4 DEF RowsTurn, Turned

LEMMA CancelTurn ==
  ASSUME IInv, NEW t \in Threads, cancel_created(t) \/ \E i \in Rows : cancel_incoming(t, i)
  PROVE  RowsTurn
<1>1. iclow' = [k \in Rows |-> iclow'[k]]
  BY Typed DEF cancel_created, cancel_incoming
<1>2. ASSUME NEW k \in Rows
      PROVE  Became(iclow[k], iclow'[k], {"incoming", "waiting"}, "dropped", NoDoc)
  <2>1. CASE iclow'[k] = iclow[k]
    BY <2>1, WholeRows, Stays
  <2>2. CASE /\ iclow[k].there /\ iclow[k].got = "none"
             /\ iclow'[k] = [iclow[k] EXCEPT !.canceled = TRUE]
    BY <2>2, WholeRows, CanceledRow
  <2>3. CASE cancel_created(t)
    <3>1. \/ iclow'[k] = iclow[k]
          \/ /\ k \in job[t].made /\ ~Received(k)
             /\ iclow'[k] = [iclow[k] EXCEPT !.canceled = TRUE]
      BY <2>3 DEF cancel_created
    <3>2. k \in job[t].made => iclow[k].there
      BY Typed DEF RowJob
    <3> QED
      BY <2>1, <2>2, <3>1, <3>2 DEF Received
  <2>4. CASE \E i \in Rows : cancel_incoming(t, i)
    BY <2>1, <2>2, <2>4, Typed DEF cancel_incoming, Incoming, Received
  <2> QED
    BY <2>3, <2>4
<1> QED
  BY <1>1, <1>2 DEF RowsTurn, Turned

LEMMA RevertTurn ==
  ASSUME IInv, NEW t \in Threads, revert_ordered(t) \/ \E i \in Rows : release_to_waiting(t, i)
  PROVE  RowsTurn
<1>1. iclow' = [k \in Rows |-> iclow'[k]]
  BY Typed DEF revert_ordered, release_to_waiting
<1>2. ASSUME NEW k \in Rows
      PROVE  Became(iclow[k], iclow'[k], {"incoming"}, "waiting", NoDoc)
  <2>1. CASE iclow'[k] = iclow[k]
    BY <2>1, WholeRows, Stays
  <2>2. CASE /\ iclow[k].there /\ iclow[k].got = "none"
             /\ iclow[k].ordered # "N" \/ iclow[k].doc # NoDoc
             /\ iclow'[k] = [iclow[k] EXCEPT !.ordered = "N", !.doc = NoDoc]
    BY <2>2, WholeRows, ReturnedRow
  <2>3. CASE revert_ordered(t)
    <3>1. job[t].doc \in Docs
      BY <2>3, Typed DEF revert_ordered, LineJob, LinedPcs
    <3>2. iclow[k].doc = job[t].doc => iclow[k].there
      BY <3>1, Typed DEF RowOK, Absent
    <3>3. \/ iclow'[k] = iclow[k]
          \/ /\ iclow[k].doc = job[t].doc /\ ~Received(k)
             /\ iclow'[k] = [iclow[k] EXCEPT !.ordered = "N", !.doc = NoDoc]
      BY <2>3 DEF revert_ordered
    <3>4. iclow[k].doc = job[t].doc => iclow[k].doc # NoDoc
      BY <3>1, HqAssumption
    <3> QED
      BY ONLY <2>1, <2>2, <3>2, <3>3, <3>4 DEF Received
  <2>4. CASE \E i \in Rows : release_to_waiting(t, i)
    <3>1. PICK i \in Rows : release_to_waiting(t, i)
      BY <2>4
    <3>2. CASE iclow' = iclow
      BY <2>1, <3>2
    <3>3. CASE /\ Incoming(i)
               /\ iclow' = [iclow EXCEPT ![i].ordered = "N", ![i].doc = NoDoc]
      <4>1. CASE k = i
        <5>1. iclow'[k] = [iclow[k] EXCEPT !.ordered = "N", !.doc = NoDoc]
          BY <3>3, <4>1, Typed
        <5> QED
          BY <2>2, <3>3, <4>1, <5>1 DEF Incoming, Received
      <4>2. CASE k # i
        BY <2>1, <3>3, <4>2, Typed
      <4> QED
        BY <4>1, <4>2
    <3> QED
      BY <3>1, <3>2, <3>3 DEF release_to_waiting
  <2> QED
    BY <2>3, <2>4
<1> QED
  BY <1>1, <1>2 DEF RowsTurn, Turned

LEMMA PostTurn ==
  ASSUME IInv, NEW t \in Threads, post_vendor_receive(t)
  PROVE  RowsTurn
<1>1. iclow' = [k \in Rows |-> iclow'[k]]
  BY DEF post_vendor_receive
<1>2. job[t].takes \in [Rows -> {"none", "all", "some"}]
  BY Typed DEF JobType, TakesType
<1>3. ASSUME NEW k \in Rows
      PROVE  Became(iclow[k], iclow'[k], {"incoming"}, "received", NoDoc)
  <2>1. CASE iclow'[k] = iclow[k]
    BY <2>1, WholeRows, Stays
  <2>2. CASE /\ job[t].takes[k] \in {"all", "some"} /\ Incoming(k)
             /\ iclow'[k] = [iclow[k] EXCEPT !.got = job[t].takes[k]]
    BY <2>2, WholeRows, ReceivedRow DEF Incoming, Received
  <2> QED
    BY <1>2, <2>1, <2>2 DEF post_vendor_receive
<1> QED
  BY <1>1, <1>3 DEF RowsTurn, Turned

LEMMA InsertRowsInv ==
  ASSUME IInv, NEW t \in Threads, NEW d \in Docs, NEW S \in SUBSET Inserted,
         insert_ordered_lines(t, d, S)
  PROVE  IInv'
<1>1. UNCHANGED <<order, line>> /\ RestOK' /\ RowsTurn
  BY RestStays, InsertTurn DEF insert_ordered_lines, supabase, counters
<1>2. PICK k \in JobType : k = job[t] /\ RowJob(k) /\ k.op = "confirm"
  BY Typed DEF insert_ordered_lines, RowJob, ConfirmPcs
<1>3. PICK j : j = [k EXCEPT !.pc = "header", !.doc = d, !.made = S]
  OBVIOUS
<1>4. "header" \in Pcs /\ S \in SUBSET Rows
  BY DEF Pcs, Rows
<1>5. /\ j \in JobType /\ j.pc = "header" /\ j.doc = d /\ j.op = "confirm" /\ j.made = S
      /\ j.rows = k.rows
  BY <1>2, <1>3, <1>4 DEF JobType
<1>6. job' = [job EXCEPT ![t] = j]
  BY <1>2, <1>3 DEF insert_ordered_lines, Go
<1>7. \A i \in S : iclow'[i].there
  BY <1>4 DEF insert_ordered_lines, Absent
<1>8. \A i \in k.rows : iclow'[i].there
  BY <1>1, <1>2, TurnFacts DEF RowJob, Onward, JobType
<1>9. RowJob(j)'
  BY <1>5, <1>7, <1>8 DEF RowJob
<1>10. LineJob(j) /\ j.pc # "lines"
  BY <1>5 DEF LineJob, LinedPcs
<1> QED
  BY <1>1, <1>5, <1>6, <1>9, <1>10, RowsInv

\* A step that writes rows, and a job that was sound in the rows before it.
LEMMA OldRowsInv ==
  ASSUME IInv, NEW t \in Threads, NEW j \in JobType, job' = [job EXCEPT ![t] = j],
         RowsTurn, UNCHANGED <<order, line>>, RowJob(j), LineJob(j), j.pc # "lines", RestOK'
  PROVE  IInv'
<1>1. RowJob(j)'
  BY TurnFacts DEF RowJob, Onward, JobType
<1> QED
  BY <1>1, RowsInv

LEMMA RowsGotoInv ==
  ASSUME IInv, NEW t \in Threads, RowsTurn, UNCHANGED <<order, line>>, RestOK',
         \/ Return(t)
         \/ \E pc \in {"line", "mark"} : Goto(t, pc)
         \/ \E pc \in {"void", "retire"} : Goto(t, pc) /\ job[t].doc \in Docs /\ Lined(job[t].doc)
  PROVE  IInv'
<1>1. CASE Return(t)
  BY <1>1, ReturnFacts, IdleFacts, IdleOK, OldRowsInv
<1>2. ASSUME NEW pc \in {"line", "mark", "void", "retire"}, Goto(t, pc),
             pc \in {"void", "retire"} => job[t].doc \in Docs /\ Lined(job[t].doc)
      PROVE  IInv'
  <2>1. pc \in Pcs
    BY DEF Pcs
  <2>2. PICK j \in JobType :
           /\ job' = [job EXCEPT ![t] = j] /\ j.pc = pc /\ j.op = job[t].op
           /\ j.doc = job[t].doc /\ j.rows = job[t].rows /\ j.made = job[t].made
    BY <1>2, <2>1, GotoFacts
  <2>3. RowJob(job[t])
    BY Typed
  <2>4. RowJob(j) /\ LineJob(j) /\ j.pc # "lines"
    BY <1>2, <2>2, <2>3 DEF RowJob, LineJob, ConfirmPcs, LinedPcs
  <2> QED
    BY <2>2, <2>4, OldRowsInv
<1> QED
  BY <1>1, <1>2

LEMMA StampInv ==
  ASSUME IInv, NEW t \in Threads,
         \/ stamp_ordered(t) \/ revert_ordered(t)
         \/ \E i \in Rows : release_to_waiting(t, i) \/ cancel_incoming(t, i)
  PROVE  IInv'
<1>1. UNCHANGED <<order, line>> /\ RestOK'
  BY RestStays DEF stamp_ordered, revert_ordered, release_to_waiting, cancel_incoming,
       supabase, counters
<1>2. CASE stamp_ordered(t)
  <2>1. CASE Return(t)
    <3>1. CASE iclow' = iclow
      BY <1>1, <2>1, <3>1, ReturnInv
    <3>2. CASE iclow' # iclow
      BY <1>1, <1>2, <2>1, <3>2, StampTurn, RowsGotoInv
    <3> QED
      BY <3>1, <3>2
  <2>2. CASE UNCHANGED iclow /\ Goto(t, "void")
    <3>1. job[t].doc \in Docs /\ Lined(job[t].doc) /\ "void" \in Pcs
          /\ "void" \in LinedPcs \ {"stamp", "void.order"}
      BY <1>2, Typed DEF stamp_ordered, LineJob, LinedPcs, Pcs
    <3> QED
      BY <1>1, <2>2, <3>1, GotoInv
  <2> QED
    BY <1>2, <2>1, <2>2 DEF stamp_ordered
<1>3. CASE revert_ordered(t)
  <2>1. RowsTurn /\ job[t].doc \in Docs /\ Lined(job[t].doc)
    BY <1>3, RevertTurn, Typed DEF revert_ordered, LineJob, LinedPcs
  <2>2. Return(t) \/ Goto(t, "line") \/ Goto(t, "retire") \/ Goto(t, "void")
    BY <1>3 DEF revert_ordered
  <2> QED
    BY <1>1, <2>1, <2>2, RowsGotoInv
<1>4. CASE \E i \in Rows : release_to_waiting(t, i) \/ cancel_incoming(t, i)
  <2>1. RowsTurn /\ Return(t)
    BY <1>4, RevertTurn, CancelTurn DEF release_to_waiting, cancel_incoming
  <2> QED
    BY <1>1, <2>1, RowsGotoInv
<1> QED
  BY <1>2, <1>3, <1>4

LEMMA StampAnswerLostInv ==
  ASSUME IInv, NEW t \in Threads, StampAnswerLost(t)
  PROVE  IInv'
<1>1. UNCHANGED <<order, line>> /\ RestOK' /\ Goto(t, "void")
  BY RestStays DEF StampAnswerLost, supabase
<1>2. /\ job[t].doc \in Docs /\ Lined(job[t].doc) /\ "void" \in Pcs
      /\ "void" \in LinedPcs \ {"stamp", "void.order"}
  BY Typed DEF StampAnswerLost, LineJob, LinedPcs, Pcs
<1>3. CASE iclow' = iclow
  BY <1>1, <1>2, <1>3, GotoInv
<1>4. CASE iclow' # iclow
  BY <1>1, <1>2, <1>4, StampTurn, RowsGotoInv
<1> QED
  BY <1>3, <1>4

LEMMA CancelCreatedInv ==
  ASSUME IInv, NEW t \in Threads, cancel_created(t)
  PROVE  IInv'
<1>1. UNCHANGED <<order, line>> /\ RestOK' /\ RowsTurn
  BY RestStays, CancelTurn DEF cancel_created, supabase, counters
<1>2. \/ Return(t)
      \/ job[t].pc = "retire" /\ Goto(t, "void")
      \/ job[t].pc = "retry" /\ Go(t, Again(t))
  BY DEF cancel_created, Return, Goto, Go
<1>3. CASE Return(t)
  BY <1>1, <1>3, RowsGotoInv
<1>4. CASE job[t].pc = "retire" /\ Goto(t, "void")
  <2>1. job[t].doc \in Docs /\ Lined(job[t].doc)
    BY <1>4, Typed DEF LineJob, LinedPcs
  <2> QED
    BY <1>1, <1>4, <2>1, RowsGotoInv
<1>5. CASE job[t].pc = "retry" /\ Go(t, Again(t))
  <2>1. job[t].op = "confirm"
    BY <1>5, Typed DEF RowJob, ConfirmPcs
  <2>2. PICK j \in JobType : j = Again(t) /\ RowJob(j) /\ LineJob(j) /\ j.pc # "lines"
    BY <2>1, AgainFacts
  <2> QED
    BY <1>1, <1>5, <2>2, OldRowsInv DEF Go
<1> QED
  BY <1>2, <1>3, <1>4, <1>5

LEMMA PostInv ==
  ASSUME IInv, NEW t \in Threads, post_vendor_receive(t)
  PROVE  IInv'
<1>1. UNCHANGED <<order, line, receipt, alone, faults, crashes>> /\ RowsTurn
  BY PostTurn DEF post_vendor_receive, supabase, counters
<1>2. job[t].takes \in TakesType
  BY Typed DEF JobType
<1>3. \A r \in Receipts : Append(bills[r], job[t].takes) \in Seq(TakesType)
  BY <1>2, AppendProperties DEF IInv, TypeOK
<1>4. bills' \in [Receipts -> Seq(TakesType)]
  BY <1>3 DEF post_vendor_receive, IInv, TypeOK
<1>5. RestOK'
  BY <1>1, <1>4 DEF IInv, TypeOK, RestOK
<1>6. Goto(t, "mark")
  BY DEF post_vendor_receive
<1> QED
  BY <1>1, <1>5, <1>6, RowsGotoInv

----------------------------------------------------------------------------
\* The theorems.

LEMMA NextInv == IInv /\ [Next]_vars => IInv'
<1> SUFFICES ASSUME IInv, [Next]_vars PROVE IInv'
  OBVIOUS
<1>1. CASE UNCHANGED vars
  BY <1>1 DEF vars, supabase, parts9, counters, IInv, TypeOK, JobsOK, RowJob, LineJob, RowsOK,
       RowOK, Received, OrdersOK, OrderOK, OneWriter, Lined, OpenLines, IsOpen
<1>2. ASSUME NEW t \in Threads, Step(t) PROVE IInv'
  BY <1>2, ControlInv, InsertRowsInv, InsertOrderInv, InsertLinesInv, HeaderLeftInv, VoidInv,
     LineInv, CloseInv, StampInv, StampAnswerLostInv, CancelCreatedInv, PostInv, ReceiptInv DEF Step
<1>3. ASSUME NEW t \in Threads, Request(t) PROVE IInv'
  BY <1>3, ConfirmReadInv, CancelReadInv, RowRequestInv, ReceiptRequestInv DEF Request
<1>4. ASSUME NEW i \in Rows, dismiss_waiting(i) \/ LegacyRelease(i) PROVE IInv'
  BY <1>4, OutsideStepInv
<1>5. ASSUME NEW r \in Receipts, NEW takes \in Takes, create_receipt(r, takes) PROVE IInv'
  BY <1>5, CreateReceiptInv
<1> QED
  BY <1>1, <1>2, <1>3, <1>4, <1>5 DEF Next

LEMMA Invariance == Spec => []IInv
BY InitInv, NextInv, PTL DEF Spec

\* Every variable has its type: stamp.py's columns, the statuses of hq_po/db.py
\* and hq_receive/db.py, and the handlers' local state.
THEOREM TypeCorrect == Spec => []TypeOK
<1>1. IInv => TypeOK
  BY DEF IInv
<1> QED
  BY <1>1, Invariance, PTL

\* Whatever overlaps, raises or dies, a received row was ordered and is not
\* canceled, and a canceled order has no open line (stamp.py, hq_po/db.py).
THEOREM RowsAndOrders == Spec => []OrdersHold
<1>1. IInv => OrdersHold
  BY DEF IInv, RowsOK, RowOK, OrdersOK, OrderOK, OrdersHold, ReceivedWasOrdered, CanceledIsEmpty
<1> QED
  BY <1>1, Invariance, PTL

----------------------------------------------------------------------------
\* Refinement: HqOrders implements RowLife.

LEMMA LifeState ==
  /\ RowState = [i \in Rows |-> Kind(iclow[i])]
  /\ RowOwner = [i \in Rows |-> Owner(iclow[i])]
BY DEF RowState, RowOwner, Kind, Owner, Received

LEMMA LifeStatePrimed ==
  /\ RowState' = [i \in Rows |-> Kind(iclow'[i])]
  /\ RowOwner' = [i \in Rows |-> Owner(iclow'[i])]
BY DEF RowState, RowOwner, Kind, Owner, Received

LEMMA LifeInit == Init => Life!Init
<1> SUFFICES ASSUME Init PROVE Life!Init
  OBVIOUS
<1>1. ASSUME NEW i \in Rows
      PROVE  Kind(iclow[i]) \in {"absent", "waiting"} /\ Owner(iclow[i]) = NoDoc
  <2>1. iclow[i] = [Absent EXCEPT !.there = TRUE] \/ iclow[i] = Absent
    BY DEF Init
  <2>2. PICK w : w = iclow[i]
    OBVIOUS
  <2>3. w.got = "none" /\ ~w.canceled /\ w.ordered = "N"
    BY <2>1, <2>2 DEF Absent
  <2> QED
    BY <2>2, <2>3 DEF Kind, Owner
<1> QED
  BY <1>1, LifeState DEF Life!Init

\* The rows whose state changes are those that move.
LEMMA TurnMoves ==
  ASSUME NEW From, NEW to, NEW d, Turned(From, to, d)
  PROVE  \E S \in SUBSET Rows : Life!Move(S, From, to, d)
<1> DEFINE S == {i \in Rows : /\ Kind(iclow[i]) \in From /\ Kind(iclow'[i]) = to
                              /\ Owner(iclow'[i]) = d}
<1>1. \A i \in Rows \ S : /\ Kind(iclow'[i]) = Kind(iclow[i])
                          /\ Owner(iclow'[i]) = Owner(iclow[i])
  BY DEF Turned, Became
<1>2. \A i \in S : RowState[i] \in From
  BY LifeState
<1>3. RowState' = [i \in Rows |-> IF i \in S THEN to ELSE RowState[i]]
  BY <1>1, LifeState, LifeStatePrimed
<1>4. RowOwner' = [i \in Rows |-> IF i \in S THEN d ELSE RowOwner[i]]
  BY <1>1, LifeState, LifeStatePrimed
<1>5. Life!Move(S, From, to, d)
  BY <1>2, <1>3, <1>4 DEF Life!Move
<1> QED
  BY <1>5

LEMMA LifeTurn == RowsTurn => Life!Next
BY TurnMoves DEF RowsTurn, Life!Next

\* A step moves rows, or leaves them all.
LEMMA StepTurns ==
  ASSUME IInv, Next
  PROVE  RowsTurn \/ UNCHANGED iclow
<1>1. ASSUME NEW t \in Threads, Step(t) PROVE RowsTurn \/ UNCHANGED iclow
  <2>1. CASE \/ \E d \in Docs, S \in SUBSET Inserted : insert_ordered_lines(t, d, S)
             \/ stamp_ordered(t) \/ StampAnswerLost(t) \/ cancel_created(t) \/ revert_ordered(t)
             \/ \E i \in Rows : release_to_waiting(t, i) \/ cancel_incoming(t, i)
             \/ post_vendor_receive(t)
    BY <2>1, InsertTurn, StampTurn, CancelTurn, RevertTurn, PostTurn
  <2>2. CASE \/ _resolve_created(t) \/ insert_order(t) \/ insert_lines(t) \/ InsertFails(t)
             \/ HeaderLeft(t) \/ StampFails(t) \/ mark_lines(t) \/ mark_order_canceled(t) \/ Recheck(t)
             \/ \E l \in Docs \X Rows : mark_line_canceled(t, l)
             \/ CloseOrder(t) \/ SaveDelete(t) \/ SaveInsert(t) \/ mark_confirmed(t)
             \/ PostFails(t) \/ Crash(t)
    BY <2>2 DEF parts9, _resolve_created, insert_order, insert_lines, InsertFails, HeaderLeft,
         StampFails, mark_lines, mark_order_canceled, Recheck, mark_line_canceled, CloseOrder, SaveDelete,
         SaveInsert, mark_confirmed, PostFails, Crash
  <2> QED
    BY <1>1, <2>1, <2>2 DEF Step
<1>2. ASSUME NEW t \in Threads, Request(t) PROVE UNCHANGED iclow
  BY <1>2 DEF Request, parts9, ConfirmRead, cancel_order, cancel_order_line, release_incoming,
     drop_incoming, GiveUp, mark_product_unavailable, confirm_receipt, SaveRead
<1>3. ASSUME NEW i \in Rows, dismiss_waiting(i) \/ LegacyRelease(i) PROVE RowsTurn
  BY <1>3, OutsideTurn
<1>4. ASSUME NEW r \in Receipts, NEW takes \in Takes, create_receipt(r, takes)
      PROVE  UNCHANGED iclow
  BY <1>4 DEF create_receipt, parts9
<1> QED
  BY <1>1, <1>2, <1>3, <1>4 DEF Next

LEMMA LifeStep == IInv /\ [Next]_vars => [Life!Next]_(Life!vars)
<1> SUFFICES ASSUME IInv, [Next]_vars PROVE [Life!Next]_(Life!vars)
  OBVIOUS
<1>1. RowsTurn \/ UNCHANGED iclow
  BY StepTurns DEF vars, parts9
<1>2. CASE UNCHANGED iclow
  <2>1. UNCHANGED <<RowState, RowOwner>>
    BY <1>2, LifeState, LifeStatePrimed
  <2> QED
    BY <2>1 DEF Life!vars
<1> QED
  BY <1>1, <1>2, LifeTurn

\* The rows live as RowLife says: what each UPDATE of stamp.py and
\* receive_pimas.py does to a row is a move of the abstract row, under every
\* overlap, fault and death.
THEOREM RowsLiveTheirLife == Spec => RowsLive
BY LifeInit, LifeStep, Invariance, PTL DEF Spec, RowsLive, Life!RowSpec

----------------------------------------------------------------------------
\* What is billed is what the receipt shows.

\* While alone holds, handlers run one after another.
OneAtATime ==
  alone => \A t \in Threads : \A u \in Threads \ {t} : Free(t) \/ Free(u)

ReceiptPcs == {"save.delete", "save.insert", "post", "mark"}

\* A posting handler has its bill before it marks the receipt, and the receipt
\* it read is the one PARTS9 was given, unless another handler wrote it.
ReceiptJob(j) ==
  /\ j.pc \in ReceiptPcs => j.r \in Receipts
  /\ j.pc = "mark" => bills[j.r] # <<>>
  /\ alone => /\ j.pc \in ReceiptPcs => receipt[j.r].status = "draft"
              /\ j.pc \in {"post", "mark"} => receipt[j.r].takes = j.takes
              /\ j.pc = "mark" => Last(bills[j.r]) = j.takes

\* A bill without a death is that of a confirmed receipt, or of one about to be.
Billed(r) ==
  /\ receipt[r].status = "confirmed" =>
       bills[r] # <<>> /\ (alone => Last(bills[r]) = receipt[r].takes)
  /\ alone /\ crashes = 0 =>
       /\ Len(bills[r]) <= 1
       /\ bills[r] # <<>> => \/ receipt[r].status = "confirmed"
                             \/ \E t \in Threads : job[t].pc = "mark" /\ job[t].r = r

ReceiptInvs ==
  /\ OneAtATime
  /\ \A t \in Threads : ReceiptJob(job[t])
  /\ \A r \in Receipts : Billed(r)

LEMMA ReceiptInvsInit == Init => ReceiptInvs
<1> SUFFICES ASSUME Init PROVE ReceiptInvs
  OBVIOUS
<1>1. \A t \in Threads : job[t] = Idle
  BY DEF Init
<1>2. OneAtATime /\ \A t \in Threads : ReceiptJob(job[t])
  BY <1>1, IdleFacts DEF OneAtATime, Free, ReceiptJob, ReceiptPcs
<1>3. ASSUME NEW r \in Receipts PROVE Billed(r)
  <2>1. receipt[r].status = "none" /\ bills[r] = <<>> /\ Len(<<>>) = 0
    BY DEF Init, NoDraft
  <2> QED
    BY <2>1 DEF Billed
<1> QED
  BY <1>2, <1>3 DEF ReceiptInvs

\* A handler moves on: only its job changes, and a second one ends alone.
OneMoves(t) ==
  /\ \A u \in Threads \ {t} : job'[u] = job[u]
  /\ alone' => alone /\ \A u \in Threads \ {t} : Free(u)

LEMMA MovesAlone ==
  ASSUME IInv, ReceiptInvs, NEW t \in Threads, NEW j, job' = [job EXCEPT ![t] = j],
         \/ ~Free(t) /\ alone' = alone
         \/ Free(t) /\ alone' = (alone /\ Quiet)
  PROVE  OneMoves(t) /\ job'[t] = j
<1>1. job'[t] = j /\ \A u \in Threads \ {t} : job'[u] = job[u]
  BY Typed
<1>2. CASE ~Free(t) /\ alone' = alone
  BY <1>1, <1>2 DEF OneMoves, ReceiptInvs, OneAtATime
<1>3. CASE Free(t) /\ alone' = (alone /\ Quiet)
  BY <1>1, <1>3 DEF OneMoves, Quiet
<1> QED
  BY <1>1, <1>2, <1>3

LEMMA ReceiptMove ==
  ASSUME IInv, ReceiptInvs, NEW t \in Threads, OneMoves(t), ReceiptJob(job[t])',
         \A r \in Receipts : bills[r] # <<>> => bills'[r] # <<>>,
         \A r \in Receipts : Billed(r)'
  PROVE  ReceiptInvs'
<1>1. OneAtATime'
  BY DEF OneMoves, OneAtATime, Free
<1>2. ASSUME NEW u \in Threads PROVE ReceiptJob(job[u])'
  <2>1. CASE u = t
    BY <2>1
  <2>2. CASE u # t
    BY <2>2 DEF OneMoves, ReceiptInvs, ReceiptJob, Free, ReceiptPcs
  <2> QED
    BY <2>1, <2>2
<1> QED
  BY <1>1, <1>2 DEF ReceiptInvs

\* A step that is not about receipts, or that gives up one in progress.
LEMMA OtherMove ==
  ASSUME IInv, ReceiptInvs, NEW t \in Threads, OneMoves(t), UNCHANGED <<receipt, bills>>,
         job'[t].pc \notin ReceiptPcs, crashes' = crashes \/ crashes' = crashes + 1,
         job[t].pc = "mark" => crashes' = crashes + 1
  PROVE  ReceiptInvs'
<1>1. crashes \in Nat
  BY DEF IInv, TypeOK
<1>2. ReceiptJob(job[t])'
  BY DEF ReceiptJob, ReceiptPcs
<1>3. ASSUME NEW r \in Receipts PROVE Billed(r)'
  <2>1. Billed(r)
    BY DEF ReceiptInvs
  <2>2. (alone' => alone) /\ (crashes' = 0 => crashes = 0 /\ job[t].pc # "mark")
    BY <1>1 DEF OneMoves
  <2>3. \A u \in Threads : job[u].pc = "mark" /\ crashes' = 0 => job'[u] = job[u]
    BY <2>2 DEF OneMoves
  <2> QED
    BY <2>1, <2>2, <2>3 DEF Billed
<1> QED
  BY <1>2, <1>3, ReceiptMove

LEMMA BeginOther ==
  ASSUME IInv, ReceiptInvs, NEW t \in Threads, NEW j, Begin(t, j), j.pc \notin ReceiptPcs,
         UNCHANGED <<supabase, parts9, faults, crashes>>
  PROVE  ReceiptInvs'
<1>1. OneMoves(t) /\ job'[t] = j
  BY MovesAlone DEF Begin, Go
<1>2. job[t].pc = "idle" /\ UNCHANGED <<receipt, bills, crashes>>
  BY DEF Begin, Free, supabase, parts9
<1> QED
  BY <1>1, <1>2, OtherMove

LEMMA RequestOther ==
  ASSUME IInv, ReceiptInvs, NEW t \in Threads,
         \/ \E S \in SUBSET Rows, want \in SUBSET New : ConfirmRead(t, S, want)
         \/ \E d \in Docs : cancel_order(t, d)
         \/ \E d \in Docs, i \in Rows : cancel_order_line(t, d, i)
         \/ \E i \in Rows : release_incoming(t, i) \/ drop_incoming(t, i)
                          \/ mark_product_unavailable(t, i)
  PROVE  ReceiptInvs'
<1>1. UNCHANGED <<supabase, parts9, faults, crashes>>
  BY DEF ConfirmRead, cancel_order, cancel_order_line, release_incoming, drop_incoming,
     mark_product_unavailable, GiveUp
<1>2. \E j : Begin(t, j) /\ j.pc \notin ReceiptPcs
  <2>1. CASE \E S \in SUBSET Rows, want \in SUBSET New : ConfirmRead(t, S, want)
    <3>1. PICK S \in SUBSET Rows, want \in SUBSET New : ConfirmRead(t, S, want)
      BY <2>1
    <3> DEFINE kept == skip_already_open(S)
               back == open_lines_for_iclow({i \in kept : iclow[i].ordered = "X"})
    <3>2. PICK op \in {"refused", "confirm"}, pc \in {"insert", "resolve", "line"} :
            Begin(t, [Idle EXCEPT !.op = op, !.pc = pc, !.rows = kept, !.back = back,
                                  !.want = want])
      BY <3>1 DEF ConfirmRead, Resolve
    <3> HIDE DEF kept, back
    <3>3. PICK j : j = [Idle EXCEPT !.op = op, !.pc = pc, !.rows = kept, !.back = back,
                                    !.want = want]
      OBVIOUS
    <3>4. j.pc = pc
      BY <3>3 DEF Idle
    <3> QED
      BY <3>2, <3>3, <3>4 DEF ReceiptPcs
  <2>2. CASE \E d \in Docs : cancel_order(t, d)
    <3>1. PICK d \in Docs : cancel_order(t, d)
      BY <2>2
    <3>2. PICK pc \in {"revert", "retire", "void"}, rows \in SUBSET Rows, made \in SUBSET Rows :
            Begin(t, [Idle EXCEPT !.op = "cancel", !.doc = d, !.pc = pc, !.rows = rows,
                                  !.made = made])
      BY <3>1 DEF cancel_order, OpenLines
    <3>3. PICK j : j = [Idle EXCEPT !.op = "cancel", !.doc = d, !.pc = pc, !.rows = rows,
                                    !.made = made]
      OBVIOUS
    <3>4. j.pc = pc
      BY <3>3 DEF Idle
    <3> QED
      BY <3>2, <3>3, <3>4 DEF ReceiptPcs
  <2>3. ASSUME NEW d, NEW i, NEW back, NEW pc \in {"revert", "recheck"},
               Begin(t, [Idle EXCEPT !.op = "cancel_line", !.pc = pc, !.doc = d,
                                     !.rows = {i}, !.back = back])
        PROVE  \E j : Begin(t, j) /\ j.pc \notin ReceiptPcs
    <3>1. PICK j : j = [Idle EXCEPT !.op = "cancel_line", !.pc = pc, !.doc = d,
                                     !.rows = {i}, !.back = back]
      OBVIOUS
    <3>2. j.pc = pc
      BY <3>1 DEF Idle
    <3> QED
      BY <2>3, <3>1, <3>2 DEF ReceiptPcs
  <2>4. ASSUME NEW i, NEW op, NEW back, NEW pc \in {"release", "drop", "line"},
               Begin(t, [Idle EXCEPT !.op = op, !.pc = pc, !.rows = {i}, !.back = back])
        PROVE  \E j : Begin(t, j) /\ j.pc \notin ReceiptPcs
    <3>1. PICK j : j = [Idle EXCEPT !.op = op, !.pc = pc, !.rows = {i}, !.back = back]
      OBVIOUS
    <3>2. j.pc = pc
      BY <3>1 DEF Idle
    <3> QED
      BY <2>4, <3>1, <3>2 DEF ReceiptPcs
  <2>5. ASSUME NEW i, Begin(t, [Idle EXCEPT !.op = "release", !.pc = "release", !.rows = {i}])
        PROVE  \E j : Begin(t, j) /\ j.pc \notin ReceiptPcs
    <3>1. PICK j : j = [Idle EXCEPT !.op = "release", !.pc = "release", !.rows = {i}]
      OBVIOUS
    <3>2. j.pc = "release"
      BY <3>1 DEF Idle
    <3> QED
      BY <2>5, <3>1, <3>2 DEF ReceiptPcs
  <2>6. CASE \E d \in Docs, i \in Rows : cancel_order_line(t, d, i)
    BY <2>3, <2>6 DEF cancel_order_line
  <2>7. CASE \E i \in Rows : release_incoming(t, i) \/ drop_incoming(t, i)
    BY <2>4, <2>7 DEF release_incoming, drop_incoming, GiveUp
  <2>8. CASE \E i \in Rows : mark_product_unavailable(t, i)
    BY <2>3, <2>5, <2>8 DEF mark_product_unavailable
  <2> QED
    BY <2>1, <2>2, <2>6, <2>7, <2>8
<1> QED
  BY <1>1, <1>2, BeginOther

LEMMA GotoJob ==
  ASSUME IInv, NEW t \in Threads, NEW pc, Goto(t, pc)
  PROVE  \E j : /\ job' = [job EXCEPT ![t] = j] /\ j.pc = pc /\ j.op = job[t].op
                /\ j.r = job[t].r /\ j.takes = job[t].takes
<1>1. PICK k \in JobType : k = job[t]
  BY Typed
<1>2. PICK j : j = [k EXCEPT !.pc = pc]
  OBVIOUS
<1>3. j.pc = pc /\ j.op = k.op /\ j.r = k.r /\ j.takes = k.takes
  BY <1>2 DEF JobType
<1> QED
  BY <1>1, <1>2, <1>3 DEF Goto

LEMMA ReturnOther ==
  ASSUME IInv, ReceiptInvs, NEW t \in Threads, ~Free(t), UNCHANGED <<receipt, bills, alone>>,
         Return(t) \/ \E pc : pc \notin ReceiptPcs /\ Goto(t, pc),
         crashes' = crashes \/ crashes' = crashes + 1,
         job[t].pc = "mark" => crashes' = crashes + 1
  PROVE  ReceiptInvs'
<1>1. PICK j : job' = [job EXCEPT ![t] = j] /\ j.pc \notin ReceiptPcs
  BY ReturnFacts, IdleFacts, GotoJob DEF ReceiptPcs
<1> QED
  BY <1>1, MovesAlone, OtherMove

LEMMA StepOther ==
  ASSUME IInv, ReceiptInvs, NEW t \in Threads,
         \/ _resolve_created(t) \/ insert_order(t) \/ insert_lines(t) \/ InsertFails(t)
         \/ HeaderLeft(t) \/ StampAnswerLost(t)
         \/ stamp_ordered(t) \/ StampFails(t) \/ mark_lines(t) \/ mark_order_canceled(t)
         \/ cancel_created(t) \/ Recheck(t) \/ revert_ordered(t)
         \/ \E l \in Docs \X Rows : mark_line_canceled(t, l)
         \/ \E d \in Docs, S \in SUBSET Inserted : insert_ordered_lines(t, d, S)
         \/ CloseOrder(t)
         \/ \E i \in Rows : release_to_waiting(t, i) \/ cancel_incoming(t, i)
         \/ PostFails(t) \/ Crash(t)
  PROVE  ReceiptInvs'
<1>1. UNCHANGED <<receipt, bills, alone>> /\ ~Free(t)
      /\ (crashes' = crashes \/ crashes' = crashes + 1)
      /\ (job[t].pc = "mark" => crashes' = crashes + 1)
  BY DEF _resolve_created, insert_order, insert_lines, InsertFails, HeaderLeft, stamp_ordered,
     StampFails, StampAnswerLost, mark_lines, mark_order_canceled, cancel_created, Recheck, revert_ordered,
     mark_line_canceled, insert_ordered_lines, CloseOrder, release_to_waiting, cancel_incoming,
     PostFails, Crash, supabase, parts9, counters, Free
<1>2. PICK k \in JobType : k = job[t]
  BY Typed
<1>3. CASE Return(t) \/ \E pc : pc \notin ReceiptPcs /\ Goto(t, pc)
  BY <1>1, <1>3, ReturnOther
<1>4. CASE Go(t, Again(t)) /\ job[t].op = "confirm"
  <2>1. Again(t).pc \in {"insert", "idle"}
    BY <1>4, AgainFacts
  <2>2. OneMoves(t) /\ job'[t] = Again(t)
    BY <1>1, <1>4, MovesAlone DEF Go
  <2> QED
    BY <1>1, <2>1, <2>2, OtherMove DEF ReceiptPcs
<1>5. CASE \E d, S : Go(t, [job[t] EXCEPT !.pc = "header", !.doc = d, !.made = S])
  <2>1. PICK d, S : Go(t, [job[t] EXCEPT !.pc = "header", !.doc = d, !.made = S])
    BY <1>5
  <2>2. PICK j : j = [k EXCEPT !.pc = "header", !.doc = d, !.made = S]
    OBVIOUS
  <2>3. j.pc = "header"
    BY <2>2 DEF JobType
  <2> QED
    BY <1>1, <1>2, <2>1, <2>2, <2>3, MovesAlone, OtherMove DEF Go, ReceiptPcs
<1>6. CASE \E d, back : Go(t, [job[t] EXCEPT !.pc = "close", !.doc = d, !.back = back])
  <2>1. PICK d, back : Go(t, [job[t] EXCEPT !.pc = "close", !.doc = d, !.back = back])
    BY <1>6
  <2>2. PICK j : j = [k EXCEPT !.pc = "close", !.doc = d, !.back = back]
    OBVIOUS
  <2>3. j.pc = "close"
    BY <2>2 DEF JobType
  <2> QED
    BY <1>1, <1>2, <2>1, <2>2, <2>3, MovesAlone, OtherMove DEF Go, ReceiptPcs
<1>7. CASE \/ _resolve_created(t) \/ insert_lines(t) \/ InsertFails(t)
           \/ HeaderLeft(t) \/ StampAnswerLost(t)
           \/ stamp_ordered(t) \/ StampFails(t) \/ mark_lines(t) \/ mark_order_canceled(t)
           \/ Recheck(t) \/ revert_ordered(t)
           \/ \E i \in Rows : release_to_waiting(t, i) \/ cancel_incoming(t, i)
           \/ PostFails(t) \/ Crash(t)
  BY <1>3, <1>7 DEF _resolve_created, insert_lines, InsertFails, HeaderLeft, StampAnswerLost,
     stamp_ordered, StampFails,
     mark_lines, mark_order_canceled, Recheck, revert_ordered, release_to_waiting,
     cancel_incoming, PostFails, Crash, Unwind, ReceiptPcs
<1>8. CASE CloseOrder(t)
  <2>1. AfterLines(job[t].op, job[t].want) \notin ReceiptPcs
    BY DEF AfterLines, Resolve, ReceiptPcs
  <2> QED
    BY <1>3, <1>8, <2>1 DEF CloseOrder, ReceiptPcs
<1>9. CASE insert_order(t)
  <2>1. job[t].op = "confirm"
    BY <1>9, Typed DEF insert_order, RowJob, ConfirmPcs
  <2>2. Goto(t, "lines") \/ Go(t, Again(t)) \/ Goto(t, "retry")
    BY <1>9 DEF insert_order, Go, Goto
  <2> QED
    BY <1>3, <1>4, <2>1, <2>2 DEF ReceiptPcs
<1>10. CASE cancel_created(t)
  <2>1. job[t].pc = "retry" => job[t].op = "confirm"
    BY Typed DEF RowJob, ConfirmPcs
  <2>2. Return(t) \/ Goto(t, "void") \/ (job[t].pc = "retry" /\ Go(t, Again(t)))
    BY <1>10 DEF cancel_created, Go, Goto, Return
  <2> QED
    BY <1>3, <1>4, <2>1, <2>2 DEF ReceiptPcs
<1>11. CASE \E d \in Docs, S \in SUBSET Inserted : insert_ordered_lines(t, d, S)
  BY <1>5, <1>11 DEF insert_ordered_lines
<1>12. CASE \E l \in Docs \X Rows : mark_line_canceled(t, l)
  BY <1>3, <1>6, <1>12 DEF mark_line_canceled
<1> QED
  BY <1>7, <1>8, <1>9, <1>10, <1>11, <1>12

LEMMA OutsideOther ==
  ASSUME IInv, ReceiptInvs, UNCHANGED <<receipt, bills, job, crashes>>,
         alone' => alone
  PROVE  ReceiptInvs'
<1>1. OneAtATime' /\ \A t \in Threads : ReceiptJob(job[t])'
  BY DEF ReceiptInvs, OneAtATime, ReceiptJob, Free
<1>2. \A r \in Receipts : Billed(r)'
  BY DEF ReceiptInvs, Billed
<1> QED
  BY <1>1, <1>2 DEF ReceiptInvs

LEMMA CreateReceipts ==
  ASSUME IInv, ReceiptInvs, NEW r \in Receipts, NEW takes \in Takes, create_receipt(r, takes)
  PROVE  ReceiptInvs'
<1>1. UNCHANGED <<bills, job, alone, crashes>>
  BY DEF create_receipt, parts9, counters
<1>2. /\ receipt[r].status = "none" /\ receipt'[r].status = "draft"
      /\ \A q \in Receipts \ {r} : receipt'[q] = receipt[q]
  BY DEF create_receipt, IInv, TypeOK
<1>3. OneAtATime' /\ \A t \in Threads : ReceiptJob(job[t])'
  BY <1>1, <1>2 DEF ReceiptInvs, OneAtATime, ReceiptJob, Free, ReceiptPcs
<1>4. \A q \in Receipts : Billed(q)'
  BY <1>1, <1>2 DEF ReceiptInvs, Billed
<1> QED
  BY <1>1, <1>3, <1>4 DEF ReceiptInvs

LEMMA ReceiptRequests ==
  ASSUME IInv, ReceiptInvs, NEW t \in Threads, NEW r \in Receipts,
         confirm_receipt(t, r) \/ \E takes \in Takes : SaveRead(t, r, takes)
  PROVE  ReceiptInvs'
<1>1. UNCHANGED <<receipt, bills, crashes>> /\ receipt[r].status = "draft"
  BY DEF confirm_receipt, SaveRead, supabase, parts9
<1>2. PICK op \in {"save", "receive"}, pc \in {"save.delete", "post"}, takes \in TakesType :
        /\ Begin(t, [Idle EXCEPT !.op = op, !.pc = pc, !.r = r, !.takes = takes])
        /\ pc = "post" => takes = receipt[r].takes
  BY TakesTyped DEF confirm_receipt, SaveRead, IInv, TypeOK
<1>3. PICK j : j = [Idle EXCEPT !.op = op, !.pc = pc, !.r = r, !.takes = takes]
  OBVIOUS
<1>4. j.pc = pc /\ j.r = r /\ j.takes = takes
  BY <1>3 DEF Idle
<1>5. OneMoves(t) /\ job'[t] = j /\ job[t].pc = "idle"
  BY <1>2, <1>3, MovesAlone DEF Begin, Go, Free
<1>6. ReceiptJob(job[t])'
  BY <1>1, <1>2, <1>4, <1>5 DEF ReceiptJob, ReceiptPcs
<1>7. ASSUME NEW q \in Receipts PROVE Billed(q)'
  <2>1. \A u \in Threads : job[u].pc = "mark" => job'[u] = job[u]
    BY <1>5 DEF OneMoves
  <2>2. Billed(q) /\ (alone' => alone)
    BY <1>5 DEF ReceiptInvs, OneMoves
  <2> QED
    BY <1>1, <2>1, <2>2 DEF Billed
<1> QED
  BY <1>1, <1>5, <1>6, <1>7, ReceiptMove

LEMMA SaveMoves ==
  ASSUME IInv, ReceiptInvs, NEW t \in Threads, SaveDelete(t) \/ SaveInsert(t)
  PROVE  ReceiptInvs'
<1>1. PICK r \in Receipts : r = job[t].r
  BY DEF ReceiptInvs, ReceiptJob, ReceiptPcs, SaveDelete, SaveInsert
<1>2. UNCHANGED <<bills, alone, crashes>> /\ ~Free(t) /\ job[t].pc \in {"save.delete", "save.insert"}
  BY DEF SaveDelete, SaveInsert, parts9, counters, Free
<1>3. /\ receipt'[r].status = receipt[r].status
      /\ \A q \in Receipts \ {r} : receipt'[q] = receipt[q]
  <2>1. /\ receipt = [q \in Receipts |-> receipt[q]]
        /\ receipt[r] = [status |-> receipt[r].status, takes |-> receipt[r].takes]
    BY DEF IInv, TypeOK
  <2>2. PICK w : receipt' = [receipt EXCEPT ![r].takes = w]
    BY <1>1 DEF SaveDelete, SaveInsert
  <2> QED
    BY <2>1, <2>2
<1>4. PICK j : /\ job' = [job EXCEPT ![t] = j] /\ j.pc \in {"idle", "save.insert"}
               /\ j.pc # "idle" => j.r = r
  BY <1>1, GotoJob, ReturnFacts, IdleFacts DEF SaveDelete, SaveInsert
<1>5. OneMoves(t) /\ job'[t] = j
  BY <1>2, <1>4, MovesAlone
<1>6. ReceiptJob(job[t])'
  BY <1>1, <1>2, <1>3, <1>4, <1>5 DEF ReceiptJob, ReceiptPcs, ReceiptInvs
<1>7. ASSUME NEW q \in Receipts PROVE Billed(q)'
  <2>1. \A u \in Threads : job[u].pc = "mark" => job'[u] = job[u]
    BY <1>2, <1>5 DEF OneMoves
  <2>2. Billed(q) /\ (q = r /\ alone => receipt[q].status = "draft")
    BY <1>1, <1>2 DEF ReceiptInvs, ReceiptJob, ReceiptPcs
  <2> QED
    BY <1>2, <1>3, <2>1, <2>2 DEF Billed
<1> QED
  BY <1>2, <1>5, <1>6, <1>7, ReceiptMove

LEMMA PostMoves ==
  ASSUME IInv, ReceiptInvs, NEW t \in Threads, post_vendor_receive(t)
  PROVE  ReceiptInvs'
<1>1. PICK r \in Receipts : r = job[t].r
  BY DEF ReceiptInvs, ReceiptJob, ReceiptPcs, post_vendor_receive
<1>2. UNCHANGED <<receipt, alone, crashes>> /\ ~Free(t) /\ job[t].pc = "post"
  BY DEF post_vendor_receive, supabase, counters, Free
<1>3. PICK takes \in TakesType : takes = job[t].takes
  BY Typed DEF JobType
<1>4. /\ bills'[r] = Append(bills[r], takes)
      /\ \A q \in Receipts \ {r} : bills'[q] = bills[q]
  BY <1>1, <1>3 DEF post_vendor_receive, IInv, TypeOK
<1>5. /\ bills[r] \in Seq(TakesType) /\ Len(bills[r]) \in Nat
      /\ bills'[r] # <<>> /\ Len(bills'[r]) = Len(bills[r]) + 1 /\ Last(bills'[r]) = takes
      /\ bills[r] = <<>> => Len(bills[r]) = 0
  <2>1. bills[r] \in Seq(TakesType)
    BY DEF IInv, TypeOK
  <2> QED
    BY <1>3, <1>4, <2>1, AppendProperties, LenProperties DEF Last
<1>6. PICK j : /\ job' = [job EXCEPT ![t] = j] /\ j.pc = "mark" /\ j.r = r /\ j.takes = takes
  BY <1>1, <1>3, GotoJob DEF post_vendor_receive
<1>7. OneMoves(t) /\ job'[t] = j
  BY <1>2, <1>6, MovesAlone
<1>8. ReceiptJob(job[t]) /\ Billed(r)
  BY DEF ReceiptInvs
<1>9. ReceiptJob(job[t])'
  BY <1>1, <1>2, <1>3, <1>5, <1>6, <1>7, <1>8 DEF ReceiptJob, ReceiptPcs
<1>10. alone => receipt[r].status = "draft" /\ \A u \in Threads \ {t} : job[u].pc # "mark"
  BY <1>1, <1>2, <1>8 DEF ReceiptJob, ReceiptPcs, ReceiptInvs, OneAtATime, Free
<1>11. alone /\ crashes = 0 => bills[r] = <<>>
  BY <1>2, <1>8, <1>10 DEF Billed
<1>12. ASSUME NEW q \in Receipts PROVE Billed(q)'
  <2>1. Billed(q)
    BY DEF ReceiptInvs
  <2>2. CASE q = r
    <3>1. receipt'[r].status = "confirmed" =>
            bills'[r] # <<>> /\ (alone' => Last(bills'[r]) = receipt'[r].takes)
      BY <1>2, <1>5, <1>10
    <3>2. alone' /\ crashes' = 0 => Len(bills'[r]) <= 1
      BY <1>2, <1>5, <1>11
    <3>3. job'[t].pc = "mark" /\ job'[t].r = r
      BY <1>6, <1>7
    <3> QED
      BY <2>2, <3>1, <3>2, <3>3 DEF Billed
  <2>3. CASE q # r
    <3>1. \A u \in Threads : job[u].pc = "mark" => job'[u] = job[u]
      BY <1>2, <1>7 DEF OneMoves
    <3> QED
      BY <1>2, <1>4, <2>1, <2>3, <3>1 DEF Billed
  <2> QED
    BY <2>2, <2>3
<1>13. \A q \in Receipts : bills[q] # <<>> => bills'[q] # <<>>
  BY <1>4, <1>5
<1> QED
  BY <1>7, <1>9, <1>12, <1>13, ReceiptMove

LEMMA MarkMoves ==
  ASSUME IInv, ReceiptInvs, NEW t \in Threads, mark_confirmed(t)
  PROVE  ReceiptInvs'
<1>1. PICK r \in Receipts : r = job[t].r
  BY DEF ReceiptInvs, ReceiptJob, ReceiptPcs, mark_confirmed
<1>2. UNCHANGED <<bills, alone, crashes>> /\ ~Free(t) /\ job[t].pc = "mark"
  BY DEF mark_confirmed, parts9, counters, Free
<1>3. /\ receipt'[r].status = "confirmed" /\ receipt'[r].takes = receipt[r].takes
      /\ \A q \in Receipts \ {r} : receipt'[q] = receipt[q]
  BY <1>1 DEF mark_confirmed, IInv, TypeOK
<1>4. OneMoves(t) /\ job'[t] = Idle
  BY <1>2, ReturnFacts, MovesAlone DEF mark_confirmed
<1>5. ReceiptJob(job[t])'
  BY <1>4, IdleFacts DEF ReceiptJob, ReceiptPcs
<1>6. ReceiptJob(job[t])
  BY DEF ReceiptInvs
<1>7. ASSUME NEW q \in Receipts PROVE Billed(q)'
  <2>1. Billed(q)
    BY DEF ReceiptInvs
  <2>2. CASE q = r
    <3>1. bills[r] # <<>> /\ (alone => Last(bills[r]) = receipt[r].takes)
      BY <1>1, <1>2, <1>6 DEF ReceiptJob
    <3> QED
      BY <1>2, <1>3, <2>1, <2>2, <3>1 DEF Billed
  <2>3. CASE q # r
    <3>1. \A u \in Threads : job[u].pc = "mark" /\ job[u].r = q => job'[u] = job[u]
      BY <1>1, <1>4, <2>3 DEF OneMoves
    <3> QED
      BY <1>2, <1>3, <2>1, <2>3, <3>1 DEF Billed
  <2> QED
    BY <2>2, <2>3
<1> QED
  BY <1>2, <1>4, <1>5, <1>7, ReceiptMove

LEMMA ReceiptInvsNext == IInv /\ ReceiptInvs /\ [Next]_vars => ReceiptInvs'
<1> SUFFICES ASSUME IInv, ReceiptInvs, [Next]_vars PROVE ReceiptInvs'
  OBVIOUS
<1>1. CASE UNCHANGED vars
  BY <1>1, OutsideOther DEF vars, supabase, parts9, counters
<1>2. ASSUME NEW t \in Threads, Step(t) PROVE ReceiptInvs'
  BY <1>2, StepOther, SaveMoves, PostMoves, MarkMoves DEF Step
<1>3. ASSUME NEW t \in Threads, Request(t) PROVE ReceiptInvs'
  BY <1>3, RequestOther, ReceiptRequests DEF Request
<1>4. ASSUME NEW i \in Rows, dismiss_waiting(i) \/ LegacyRelease(i) PROVE ReceiptInvs'
  <2>1. UNCHANGED <<receipt, bills, job, crashes>> /\ (alone' => alone)
    BY <1>4 DEF dismiss_waiting, LegacyRelease, supabase
  <2> QED
    BY <2>1, OutsideOther
<1>5. ASSUME NEW r \in Receipts, NEW takes \in Takes, create_receipt(r, takes)
      PROVE  ReceiptInvs'
  BY <1>5, CreateReceipts
<1> QED
  BY <1>1, <1>2, <1>3, <1>4, <1>5 DEF Next

LEMMA ReceiptInvariance == Spec => []ReceiptInvs
BY ReceiptInvsInit, ReceiptInvsNext, Invariance, PTL DEF Spec

\* A confirmed receipt has its bill, whatever overlaps or dies; while handlers
\* run one after another the bill took in what the receipt shows, and without a
\* death there is one (confirm_receipt: post_vendor_receive, then mark_confirmed).
THEOREM ReceiptsAreBilled == Spec => []ReceiptsHold
<1>1. ReceiptInvs => ReceiptsHold
  BY DEF ReceiptInvs, Billed, ReceiptsHold, ConfirmedHasBill, BilledAsShown
<1> QED
  BY <1>1, ReceiptInvariance, PTL

----------------------------------------------------------------------------
\* The two databases agree: the invariant of handlers that run one after
\* another, under the errors they handle.  Between two calls the books differ by
\* what the handler in progress, j, still has to write.

LossPcs == {"header", "retry", "lines", "void.order", "undo"}
DropPcs == {"line", "close", "release", "drop"}

\* j owes the incoming row i its line, or its return.
Owed(j, d, i) ==
  \/ j.op = "confirm" /\ j.pc \in LossPcs /\ j.doc = d /\ i \in j.made
  \/ j.op \in {"release", "drop"} /\ j.pc \in DropPcs /\ i \in j.rows

\* j has to close the line, or to stamp its row.
Closing(j, d, i) ==
  \/ j.op = "confirm" /\ j.pc \in {"stamp", "void"} /\ j.doc = d /\ i \in j.rows
  \/ j.op = "cancel" /\ j.pc \in {"retire", "void"} /\ j.doc = d
  \/ j.op = "cancel_line" /\ j.pc \in {"line", "close"} /\ <<d, i>> \in j.back

\* j has to write the lines of the order, or to close it.
Emptied(j, d) == j.pc \in {"lines", "void.order", "close"} /\ j.doc = d

Agreed(d, i) == /\ iclow[i].doc = d /\ iclow[i].ordered \in {"Y", "X"}
                /\ iclow[i].canceled => iclow[i].ordered = "X"

RowsAgree(j) ==
  \A d \in Docs, i \in Rows :
    Incoming(i) /\ iclow[i].doc = d => IsOpen(d, i) \/ Owed(j, d, i)
LinesAgree(j) ==
  \A d \in Docs, i \in Rows : IsOpen(d, i) => Agreed(d, i) \/ Closing(j, d, i)
OrdersAgree(j) ==
  \A d \in Docs : order[d] = "ordered" => OpenLines(d) # {} \/ Emptied(j, d)

\* Which operation is at which point.
Control(j) ==
  /\ j.pc \in {"undo", "stamp"} => j.op = "confirm"
  /\ j.pc \in {"void", "void.order"} => j.op \in {"confirm", "cancel"}
  /\ j.pc = "retire" => j.op = "cancel"
  /\ j.pc = "revert" => j.op \in {"cancel", "cancel_line"}
  /\ j.pc = "recheck" => j.op = "cancel_line"
  /\ j.pc \in {"line", "close"} =>
       j.op \in {"confirm", "refused", "cancel_line", "release", "drop"}
  /\ j.pc \in {"release", "drop"} => j.op = j.pc

\* The rows a confirmation takes are free until their lines are written, but
\* for the lines it closes first; it takes or inserts some.
Unordered(j) ==
  j.op = "confirm" /\ j.pc \in {"line", "close", "resolve", "insert", "header", "retry", "lines"} =>
    /\ j.rows # {} \/ j.want # {}
    /\ j.pc \in {"header", "retry", "lines"} => j.rows # {} \/ j.made # {}
    /\ \A i \in j.rows :
         /\ can_stamp_row(i)
         /\ \A d \in Docs : IsOpen(d, i) => j.pc \in {"line", "close"} /\ <<d, i>> \in j.back

\* The rows it inserted are incoming for its order.
MadeRows(j) ==
  j.op = "confirm" /\ j.pc \in LossPcs \cup {"stamp", "void"} =>
    \A i \in j.made : /\ Incoming(i) /\ iclow[i].doc = j.doc
                      /\ j.pc \in LossPcs => \A d \in Docs : ~IsOpen(d, i)

\* The lines of the order it stamps are those of its rows.
Stamping(j) ==
  j.pc = "stamp" =>
    /\ OpenLines(j.doc) \subseteq j.rows \cup j.made /\ j.rows \subseteq OpenLines(j.doc)
    /\ \A i \in j.rows : can_stamp_row(i) /\ \A d \in Docs : IsOpen(d, i) => d = j.doc

\* An order is voided once no row is incoming for it but those it inserted.
Voiding(j) ==
  /\ j.pc = "void" => \A i \in Rows : Incoming(i) /\ iclow[i].doc = j.doc =>
                                        j.op = "confirm" /\ i \in j.made
  /\ j.op = "cancel" /\ j.pc = "revert" =>
       OpenLines(j.doc) \subseteq j.rows \cup j.made /\ j.rows \cap j.made = {}
  /\ j.op = "cancel" /\ j.pc \in {"revert", "retire"} =>
       \A i \in j.made : iclow[i].doc = j.doc /\ ~Received(i)
  /\ j.pc = "retire" => \A i \in Rows : Incoming(i) /\ iclow[i].doc = j.doc => i \in j.made

\* The lines a handler goes on to close are open, and their rows back or going.
Backing(j) ==
  /\ j.pc \in {"line", "close", "revert", "recheck"} => \A l \in j.back : IsOpen(l[1], l[2])
  /\ j.pc \in {"line", "close"} => \A l \in j.back :
       \/ j.op \in {"release", "drop"} /\ l[2] \in j.rows
       \/ j.op \notin {"release", "drop"} /\ iclow[l[2]].ordered # "Y"
  /\ j.op = "cancel_line" /\ j.pc \in {"revert", "recheck"} => j.back = {j.doc} \X j.rows
  /\ j.op \in {"release", "drop"} /\ j.pc \in DropPcs =>
       /\ \A i, k \in j.rows : i = k
       /\ \A i \in j.rows, d \in Docs : IsOpen(d, i) => <<d, i>> \in j.back
  /\ j.pc \in {"release", "drop"} => j.back = {}

JobBooks(j) ==
  Control(j) /\ Unordered(j) /\ MadeRows(j) /\ Stamping(j) /\ Voiding(j) /\ Backing(j)
Books(j) == RowsAgree(j) /\ LinesAgree(j) /\ OrdersAgree(j) /\ JobBooks(j)

BooksInv ==
  alone /\ crashes = 0 =>
    /\ Quiet => Books(Idle)
    /\ \A t \in Threads : ~Free(t) => Books(job[t])

\* Points at which the handler owes nothing.
EvenPcs == Pcs \ (LossPcs \cup DropPcs \cup {"stamp", "void", "retire"})

LEMMA EvenBooks ==
  ASSUME NEW j, Books(j), j.pc \in EvenPcs
  PROVE  RowsAgree(Idle) /\ LinesAgree(Idle) /\ OrdersAgree(Idle)
BY IdleFacts DEF Books, RowsAgree, LinesAgree, OrdersAgree, Owed, Closing, Emptied, EvenPcs,
   LossPcs, DropPcs

\* What is open and agreed stays so for a handler that owes nothing yet.
LEMMA FromIdle ==
  ASSUME NEW j
  PROVE  /\ RowsAgree(Idle) => RowsAgree(j)
         /\ LinesAgree(Idle) => LinesAgree(j)
         /\ OrdersAgree(Idle) => OrdersAgree(j)
BY IdleFacts DEF RowsAgree, LinesAgree, OrdersAgree, Owed, Closing, Emptied, LossPcs, DropPcs

LEMMA IdleJob ==
  ASSUME NEW j, j.pc = "idle"
  PROVE  JobBooks(j)
BY DEF JobBooks, Control, Unordered, MadeRows, Stamping, Voiding, Backing, LossPcs, DropPcs

LEMMA IdleBooks ==
  ASSUME NEW j, j.pc = "idle", Books(j)
  PROVE  Books(Idle)
BY EvenBooks, IdleJob, IdleFacts DEF Books, EvenPcs, LossPcs, DropPcs, Pcs

\* What is to be shown of a step of t that leaves it with the job j.
LEMMA BooksMove ==
  ASSUME IInv, ReceiptInvs, NEW t \in Threads, NEW j, job' = [job EXCEPT ![t] = j],
         \/ ~Free(t) /\ alone' = alone
         \/ Free(t) /\ alone' = (alone /\ Quiet),
         alone' /\ crashes' = 0 => Books(j)'
  PROVE  BooksInv'
<1>1. OneMoves(t) /\ job'[t] = j
  BY MovesAlone
<1>2. Quiet' => j.pc = "idle"
  BY <1>1 DEF Quiet, Free
<1>3. j.pc = "idle" /\ Books(j)' => Books(Idle)'
  <2>1. Books(j)' /\ j.pc = "idle" => RowsAgree(Idle)' /\ LinesAgree(Idle)' /\ OrdersAgree(Idle)'
    BY IdleFacts DEF Books, RowsAgree, LinesAgree, OrdersAgree, Owed, Closing, Emptied, LossPcs,
       DropPcs
  <2>2. JobBooks(Idle)'
    BY IdleFacts DEF JobBooks, Control, Unordered, MadeRows, Stamping, Voiding, Backing,
       LossPcs, DropPcs
  <2> QED
    BY <2>1, <2>2 DEF Books
<1>4. \A u \in Threads \ {t} : alone' => Free(u)'
  BY <1>1 DEF OneMoves, Free
<1>5. ~Free(t)' /\ Books(j)' => Books(job[t])'
  BY <1>1 DEF Books, RowsAgree, LinesAgree, OrdersAgree, Owed, Closing, Emptied, JobBooks,
     Control, Unordered, MadeRows, Stamping, Voiding, Backing
<1> QED
  BY <1>2, <1>3, <1>4, <1>5 DEF BooksInv

\* A handler that runs alone, with its books.
LEMMA Working ==
  ASSUME IInv, BooksInv, alone, crashes = 0, NEW t \in Threads, ~Free(t)
  PROVE  \E k \in JobType : k = job[t] /\ Books(k) /\ LineJob(k) /\ RowJob(k)
BY Typed DEF BooksInv

LEMMA GotoWhole ==
  ASSUME IInv, NEW t \in Threads, NEW pc \in Pcs, Goto(t, pc)
  PROVE  \E j \in JobType :
           /\ job' = [job EXCEPT ![t] = j] /\ j.pc = pc /\ j.op = job[t].op
           /\ j.doc = job[t].doc /\ j.rows = job[t].rows /\ j.made = job[t].made
           /\ j.back = job[t].back /\ j.want = job[t].want
<1>1. PICK k \in JobType : k = job[t]
  BY Typed
<1>2. PICK j \in JobType : j = [k EXCEPT !.pc = pc]
  BY <1>1 DEF JobType
<1>3. /\ j.pc = pc /\ j.op = k.op /\ j.doc = k.doc /\ j.rows = k.rows /\ j.made = k.made
      /\ j.back = k.back /\ j.want = k.want
  BY <1>2 DEF JobType
<1>4. job' = [job EXCEPT ![t] = j]
  BY <1>1, <1>2 DEF Goto
<1> QED
  BY <1>1, <1>3, <1>4

\* What a step that writes no row and no order leaves as it was.
LEMMA SameBooks ==
  ASSUME UNCHANGED <<iclow, order, line>>, NEW j
  PROVE  Books(j)' <=> Books(j)
BY DEF Books, RowsAgree, LinesAgree, OrdersAgree, Owed, Closing, Emptied, JobBooks,
   Control, Unordered, MadeRows, Stamping, Voiding, Backing, Incoming, Received, IsOpen, OpenLines,
   can_stamp_row, Agreed

----------------------------------------------------------------------------
\* A handler that ends at a point where it owes nothing, or begins.

LEMMA EvenReturn ==
  ASSUME IInv, ReceiptInvs, BooksInv, NEW t \in Threads, job[t].pc \in EvenPcs, ~Free(t), Return(t),
         UNCHANGED <<iclow, order, line, alone>>, crashes' = crashes \/ crashes' = crashes + 1
  PROVE  BooksInv'
<1>1. job' = [job EXCEPT ![t] = Idle]
  BY ReturnFacts
<1>2. ASSUME alone', crashes' = 0 PROVE Books(Idle)'
  <2>1. alone /\ crashes = 0
    BY <1>2 DEF IInv, TypeOK
  <2>2. Books(job[t])
    BY <2>1 DEF BooksInv
  <2>3. Books(Idle)
    BY <2>2, EvenBooks, IdleJob, IdleFacts DEF Books
  <2> QED
    BY <2>3, SameBooks
<1> QED
  BY <1>1, <1>2, BooksMove

LEMMA BeginBooks ==
  ASSUME IInv, ReceiptInvs, BooksInv, NEW t \in Threads, NEW j, Begin(t, j),
         Books(Idle) => JobBooks(j), UNCHANGED <<supabase, parts9, faults, crashes>>
  PROVE  BooksInv'
<1>1. UNCHANGED <<iclow, order, line, crashes>> /\ job' = [job EXCEPT ![t] = j] /\ Free(t)
      /\ alone' = (alone /\ Quiet)
  BY DEF Begin, Go, supabase, parts9
<1>2. ASSUME alone', crashes' = 0 PROVE Books(j)'
  <2>1. Books(Idle)
    BY <1>1, <1>2 DEF BooksInv
  <2>2. Books(j)
    BY <2>1, FromIdle DEF Books
  <2> QED
    BY <1>1, <2>2, SameBooks
<1> QED
  BY <1>1, <1>2, BooksMove

LEMMA ConfirmReadBooks ==
  ASSUME IInv, ReceiptInvs, BooksInv, NEW t \in Threads, NEW S \in SUBSET Rows,
         NEW want \in SUBSET New, ConfirmRead(t, S, want)
  PROVE  BooksInv'
<1> DEFINE kept == skip_already_open(S)
           back == open_lines_for_iclow({i \in kept : iclow[i].ordered = "X"})
<1>1. PICK op \in {"refused", "confirm"}, pc \in {"insert", "resolve", "line"} :
        /\ Begin(t, [Idle EXCEPT !.op = op, !.pc = pc, !.rows = kept, !.back = back, !.want = want])
        /\ op = "refused" => pc = "line"
        /\ op = "confirm" => /\ \A i \in kept : can_stamp_row(i)
                             /\ kept # {} \/ want # {}
        /\ pc # "line" => back = {}
  BY DEF ConfirmRead, Resolve
<1>2. /\ kept \in SUBSET Rows
      /\ \A l \in back : l[1] \in Docs /\ l[2] \in kept /\ IsOpen(l[1], l[2])
                         /\ iclow[l[2]].ordered = "X"
  BY DEF skip_already_open, open_lines_for_iclow
<1>3. \A i \in kept, d \in Docs : IsOpen(d, i) => <<d, i>> \in back
  BY DEF skip_already_open, open_lines_for_iclow
<1> HIDE DEF kept, back
<1>4. PICK j : j = [Idle EXCEPT !.op = op, !.pc = pc, !.rows = kept, !.back = back, !.want = want]
  OBVIOUS
<1>5. j.op = op /\ j.pc = pc /\ j.rows = kept /\ j.back = back /\ j.want = want
  BY <1>4 DEF Idle
<1>6. JobBooks(j)
  BY <1>1, <1>2, <1>3, <1>5 DEF JobBooks, Control, Unordered, MadeRows, Stamping, Voiding,
     Backing, LossPcs, DropPcs
<1> QED
  BY <1>1, <1>4, <1>6, BeginBooks DEF ConfirmRead

LEMMA CancelReadBooks ==
  ASSUME IInv, ReceiptInvs, BooksInv, NEW t \in Threads, NEW d \in Docs, cancel_order(t, d)
  PROVE  BooksInv'
<1> DEFINE ours == {i \in OpenLines(d) : iclow[i].doc = d}
           made == {i \in ours : line[d][i] = "created"}
<1>1. PICK pc \in {"revert", "retire", "void"} :
        /\ Begin(t, [Idle EXCEPT !.op = "cancel", !.doc = d, !.pc = pc,
                                 !.rows = ours \ made, !.made = made])
        /\ pc # "revert" => ours = made
        /\ pc = "void" => made = {}
  BY DEF cancel_order
<1>2. \A i \in ours : i \in OpenLines(d) /\ iclow[i].doc = d /\ ~Received(i)
  BY DEF cancel_order, plan_cancel, can_revert_row
<1>3. made \subseteq ours /\ OpenLines(d) \subseteq Rows
  BY DEF OpenLines
<1>4. Books(Idle) => OpenLines(d) = ours
  BY IdleFacts DEF Books, LinesAgree, OpenLines, Closing, Agreed
<1>5. Books(Idle) => \A i \in Rows : Incoming(i) /\ iclow[i].doc = d => i \in OpenLines(d)
  BY IdleFacts DEF Books, RowsAgree, OpenLines, Owed
<1> HIDE DEF ours, made
<1>6. PICK j : j = [Idle EXCEPT !.op = "cancel", !.doc = d, !.pc = pc,
                                !.rows = ours \ made, !.made = made]
  OBVIOUS
<1>7. j.op = "cancel" /\ j.pc = pc /\ j.doc = d /\ j.rows = ours \ made /\ j.made = made
      /\ j.back = {}
  BY <1>6 DEF Idle
<1>8. Books(Idle) => JobBooks(j)
  <2> SUFFICES ASSUME Books(Idle) PROVE JobBooks(j)
    OBVIOUS
  <2>1. Control(j) /\ Unordered(j) /\ MadeRows(j) /\ Stamping(j) /\ Backing(j)
    BY <1>1, <1>7 DEF Control, Unordered, MadeRows, Stamping, Backing, LossPcs, DropPcs
  <2>2. Voiding(j)
    BY <1>1, <1>2, <1>3, <1>4, <1>5, <1>7 DEF Voiding
  <2> QED
    BY <2>1, <2>2 DEF JobBooks
<1> QED
  BY <1>1, <1>6, <1>8, BeginBooks DEF cancel_order

LEMMA RowRequestBooks ==
  ASSUME IInv, ReceiptInvs, BooksInv, NEW t \in Threads, NEW i \in Rows,
         \/ \E d \in Docs : cancel_order_line(t, d, i)
         \/ release_incoming(t, i) \/ drop_incoming(t, i) \/ mark_product_unavailable(t, i)
  PROVE  BooksInv'
<1>1. UNCHANGED <<supabase, parts9, faults, crashes>>
  BY DEF cancel_order_line, release_incoming, drop_incoming, mark_product_unavailable, GiveUp
<1>2. ASSUME NEW d \in Docs, NEW pc \in {"revert", "recheck"}, IsOpen(d, i),
             Begin(t, [Idle EXCEPT !.op = "cancel_line", !.pc = pc, !.doc = d,
                                   !.rows = {i}, !.back = {<<d, i>>}])
      PROVE  BooksInv'
  <2>1. PICK j : j = [Idle EXCEPT !.op = "cancel_line", !.pc = pc, !.doc = d,
                                  !.rows = {i}, !.back = {<<d, i>>}]
    OBVIOUS
  <2>2. j.op = "cancel_line" /\ j.pc = pc /\ j.doc = d /\ j.rows = {i} /\ j.back = {<<d, i>>}
    BY <2>1 DEF Idle
  <2>3. JobBooks(j)
    <3>1. Control(j) /\ Unordered(j) /\ MadeRows(j) /\ Stamping(j) /\ Voiding(j)
      BY <2>2 DEF Control, Unordered, MadeRows, Stamping, Voiding, LossPcs
    <3>2. j.back = {j.doc} \X j.rows
      BY <2>2
    <3>3. Backing(j)
      BY <1>2, <2>2, <3>2 DEF Backing, DropPcs
    <3> QED
      BY <3>1, <3>3 DEF JobBooks
  <2> QED
    BY <1>1, <1>2, <2>1, <2>3, BeginBooks
<1>3. ASSUME NEW op \in {"release", "drop"}, NEW j, Begin(t, j), j.op = op, j.rows = {i},
             j.pc \in {op, "line"}, j.back = open_lines_for_iclow({i}),
             j.pc # "line" => j.back = {}
      PROVE  BooksInv'
  <2>1. /\ \A l \in j.back : IsOpen(l[1], l[2]) /\ l[2] = i
        /\ \A d \in Docs : IsOpen(d, i) => <<d, i>> \in j.back
    BY <1>3 DEF open_lines_for_iclow
  <2>2. Control(j) /\ Unordered(j) /\ MadeRows(j) /\ Stamping(j) /\ Voiding(j)
    BY <1>3 DEF Control, Unordered, MadeRows, Stamping, Voiding, LossPcs
  <2>3. Backing(j)
    BY <1>3, <2>1 DEF Backing, DropPcs
  <2> QED
    BY <1>1, <1>3, <2>2, <2>3, BeginBooks DEF JobBooks
<1>4. CASE \E d \in Docs : cancel_order_line(t, d, i)
  BY <1>2, <1>4 DEF cancel_order_line
<1>5. CASE release_incoming(t, i) \/ drop_incoming(t, i)
  <2>1. PICK op \in {"release", "drop"} : GiveUp(t, i, op)
    BY <1>5 DEF release_incoming, drop_incoming
  <2> DEFINE back == open_lines_for_iclow({i})
             pc == IF back = {} THEN op ELSE "line"
  <2>2. Begin(t, [Idle EXCEPT !.op = op, !.pc = pc, !.rows = {i}, !.back = back])
    BY <2>1 DEF GiveUp
  <2>3. pc \in {op, "line"} /\ (pc # "line" => back = {})
    OBVIOUS
  <2>4. back = open_lines_for_iclow({i})
    OBVIOUS
  <2> HIDE DEF back, pc
  <2>5. PICK j : j = [Idle EXCEPT !.op = op, !.pc = pc, !.rows = {i}, !.back = back]
    OBVIOUS
  <2>6. j.op = op /\ j.pc = pc /\ j.rows = {i} /\ j.back = back
    BY <2>5 DEF Idle
  <2> QED
    BY <1>3, <2>2, <2>3, <2>4, <2>5, <2>6
<1>6. CASE mark_product_unavailable(t, i)
  <2>1. CASE /\ open_lines_for_iclow({i}) = {}
             /\ Begin(t, [Idle EXCEPT !.op = "release", !.pc = "release", !.rows = {i}])
    <3>1. PICK j : j = [Idle EXCEPT !.op = "release", !.pc = "release", !.rows = {i}]
      OBVIOUS
    <3>2. j.op = "release" /\ j.pc = "release" /\ j.rows = {i} /\ j.back = {}
      BY <3>1 DEF Idle
    <3> QED
      BY <1>3, <2>1, <3>1, <3>2
  <2>2. CASE \E l \in open_lines_for_iclow({i}) :
               Begin(t, [Idle EXCEPT !.op = "cancel_line", !.pc = "recheck",
                                     !.doc = l[1], !.rows = {i}, !.back = {l}])
    <3>1. PICK l \in Docs \X {i} : IsOpen(l[1], l[2]) /\
               Begin(t, [Idle EXCEPT !.op = "cancel_line", !.pc = "recheck",
                                     !.doc = l[1], !.rows = {i}, !.back = {l}])
      BY <2>2 DEF open_lines_for_iclow
    <3>2. l[1] \in Docs /\ l[2] = i /\ l = <<l[1], i>>
      BY <3>1
    <3> QED
      BY <1>2, <3>1, <3>2
  <2> QED
    BY <1>6, <2>1, <2>2 DEF mark_product_unavailable
<1> QED
  BY <1>4, <1>5, <1>6

LEMMA ReceiptRequestBooks ==
  ASSUME IInv, ReceiptInvs, BooksInv, NEW t \in Threads, NEW r \in Receipts,
         confirm_receipt(t, r) \/ \E takes \in Takes : SaveRead(t, r, takes)
  PROVE  BooksInv'
<1>1. UNCHANGED <<supabase, parts9, faults, crashes>>
  BY DEF confirm_receipt, SaveRead
<1>2. PICK op \in {"save", "receive"}, pc \in {"save.delete", "post"}, takes \in TakesType :
        Begin(t, [Idle EXCEPT !.op = op, !.pc = pc, !.r = r, !.takes = takes])
  BY TakesTyped DEF confirm_receipt, SaveRead, IInv, TypeOK
<1>3. PICK j : j = [Idle EXCEPT !.op = op, !.pc = pc, !.r = r, !.takes = takes]
  OBVIOUS
<1>4. j.pc = pc /\ j.op = op
  BY <1>3 DEF Idle
<1>5. JobBooks(j)
  BY <1>4 DEF JobBooks, Control, Unordered, MadeRows, Stamping, Voiding, Backing, LossPcs, DropPcs
<1> QED
  BY <1>1, <1>2, <1>3, <1>5, BeginBooks

----------------------------------------------------------------------------
\* Outside handlers: only what happens while nothing runs leaves alone true.

LEMMA OutsideBooks ==
  ASSUME IInv, BooksInv, NEW i \in Rows, dismiss_waiting(i) \/ LegacyRelease(i)
  PROVE  BooksInv'
<1>1. UNCHANGED <<order, line, job, crashes>> /\ alone' = (alone /\ Quiet)
  BY DEF dismiss_waiting, LegacyRelease, supabase
<1> SUFFICES ASSUME alone', crashes' = 0 PROVE Books(Idle)'
  BY <1>1 DEF BooksInv, Quiet, Free
<1>2. Books(Idle)
  BY <1>1 DEF BooksInv
<1>3. ASSUME NEW k \in Rows
      PROVE  /\ iclow'[k].doc = iclow[k].doc
             /\ Incoming(k)' => Incoming(k)
             /\ \A d \in Docs : Agreed(d, k) => Agreed(d, k)'
  <2>1. PICK w \in RowType : w = iclow[k]
    BY Typed
  <2>2. CASE iclow'[k] = iclow[k]
    BY <2>2 DEF Incoming, Agreed, Received
  <2>3. CASE iclow'[k] = [iclow[k] EXCEPT !.canceled = TRUE] /\ can_stamp_row(k)
    <3>1. PICK x : x = [w EXCEPT !.canceled = TRUE]
      OBVIOUS
    <3>2. /\ x.canceled /\ x.doc = w.doc /\ x.ordered = w.ordered /\ x.got = w.got
          /\ x.there = w.there
      BY <3>1 DEF RowType
    <3> QED
      BY <2>1, <2>3, <3>1, <3>2 DEF Incoming, Agreed, Received, can_stamp_row
  <2>4. CASE iclow'[k] = [iclow[k] EXCEPT !.ordered = "X"] /\ Incoming(k)
    <3>1. PICK x : x = [w EXCEPT !.ordered = "X"]
      OBVIOUS
    <3>2. /\ x.ordered = "X" /\ x.doc = w.doc /\ x.canceled = w.canceled /\ x.got = w.got
          /\ x.there = w.there
      BY <3>1 DEF RowType
    <3> QED
      BY <2>1, <2>4, <3>1, <3>2 DEF Incoming, Agreed, Received
  <2>5. CASE dismiss_waiting(i)
    BY <2>2, <2>3, <2>5 DEF dismiss_waiting
  <2>6. CASE LegacyRelease(i)
    BY <2>2, <2>4, <2>6, Typed DEF LegacyRelease
  <2> QED
    BY <2>5, <2>6
<1>4. \A d \in Docs, k \in Rows : IsOpen(d, k)' <=> IsOpen(d, k)
  BY <1>1 DEF IsOpen
<1>5. RowsAgree(Idle)' /\ LinesAgree(Idle)'
  BY <1>2, <1>3, <1>4, IdleFacts DEF Books, RowsAgree, LinesAgree, Owed, Closing
<1>6. OrdersAgree(Idle)'
  BY <1>1, <1>2 DEF Books, OrdersAgree, OpenLines, IsOpen, Emptied
<1>7. JobBooks(Idle)'
  BY IdleFacts DEF JobBooks, Control, Unordered, MadeRows, Stamping, Voiding, Backing,
     LossPcs, DropPcs
<1> QED
  BY <1>5, <1>6, <1>7 DEF Books

LEMMA SameTables ==
  ASSUME BooksInv, UNCHANGED <<iclow, order, line, job, alone, crashes>>
  PROVE  BooksInv'
<1>1. \A t \in Threads : ~Free(t) => (Books(job[t])' <=> Books(job[t]))
  BY SameBooks
<1>2. Books(Idle)' <=> Books(Idle)
  BY SameBooks
<1> QED
  BY <1>1, <1>2 DEF BooksInv, Quiet, Free

----------------------------------------------------------------------------
\* Steps that write neither rows nor orders.

LEMMA QuietBooks ==
  ASSUME IInv, ReceiptInvs, BooksInv, NEW t \in Threads, NEW j, job' = [job EXCEPT ![t] = j],
         ~Free(t), UNCHANGED <<iclow, order, line, alone>>,
         crashes' = crashes \/ crashes' = crashes + 1,
         Books(job[t]) /\ LineJob(job[t]) => Books(j)
  PROVE  BooksInv'
<1>1. ASSUME alone', crashes' = 0 PROVE Books(j)'
  <2>1. alone /\ crashes = 0
    BY <1>1 DEF IInv, TypeOK
  <2>2. Books(j)
    BY <2>1, Typed DEF BooksInv
  <2> QED
    BY <2>2, SameBooks
<1> QED
  BY <1>1, BooksMove

\* A handler that dies, or ends by a call that raised, or loses an answer: crashes counts it.
LEMMA DeathBooks ==
  ASSUME IInv, ReceiptInvs, NEW t \in Threads,
         PostFails(t) \/ Crash(t) \/ HeaderLeft(t) \/ StampAnswerLost(t)
  PROVE  BooksInv'
<1>1. crashes' = crashes + 1
  BY DEF PostFails, Crash, HeaderLeft, StampAnswerLost
<1>2. crashes \in Nat
  BY HqAssumption DEF IInv, TypeOK
<1>3. crashes' # 0
  BY ONLY <1>1, <1>2
<1> QED
  BY <1>3 DEF BooksInv

LEMMA StampFailsBooks ==
  ASSUME NEW k, NEW j, Books(k), k.pc = "stamp", k.doc \in Docs, j.pc = "void",
         j.op = k.op, j.doc = k.doc, j.rows = k.rows, j.made = k.made
  PROVE  Books(j)
<1>1. k.op = "confirm"
  BY DEF Books, JobBooks, Control
<1>2. RowsAgree(j) /\ LinesAgree(j) /\ OrdersAgree(j)
  BY <1>1 DEF Books, RowsAgree, LinesAgree, OrdersAgree, Owed, Closing, Emptied, LossPcs, DropPcs
<1>3. Control(j) /\ Unordered(j) /\ MadeRows(j) /\ Stamping(j) /\ Backing(j)
  BY <1>1 DEF Books, JobBooks, Control, Unordered, MadeRows, Stamping, Backing, LossPcs, DropPcs
<1>4. Voiding(j)
  <2>1. ASSUME NEW i \in Rows, Incoming(i), iclow[i].doc = k.doc PROVE i \in k.made
    <3>1. IsOpen(k.doc, i)
      BY <1>1, <2>1 DEF Books, RowsAgree, Owed, LossPcs
    <3>2. i \notin k.rows
      BY <2>1 DEF Books, JobBooks, Stamping, can_stamp_row, Incoming
    <3> QED
      BY <3>1, <3>2 DEF Books, JobBooks, Stamping, OpenLines
  <2> QED
    BY <1>1, <2>1 DEF Voiding
<1> QED
  BY <1>2, <1>3, <1>4 DEF Books, JobBooks

LEMMA ControlBooks ==
  ASSUME IInv, ReceiptInvs, BooksInv, NEW t \in Threads,
         _resolve_created(t) \/ StampFails(t) \/ Recheck(t) \/ SaveDelete(t) \/ SaveInsert(t)
         \/ mark_confirmed(t)
  PROVE  BooksInv'
<1>1. UNCHANGED <<iclow, order, line, alone, crashes>> /\ ~Free(t)
      /\ (job[t].pc \in EvenPcs \/ StampFails(t))
  BY DEF _resolve_created, StampFails, Recheck, SaveDelete, SaveInsert, mark_confirmed,
     supabase, parts9, counters, Free, EvenPcs, Pcs, LossPcs, DropPcs
<1>2. CASE Return(t) /\ job[t].pc \in EvenPcs
  BY <1>1, <1>2, EvenReturn
<1>3. PICK k \in JobType : k = job[t]
  BY Typed
<1>4. ASSUME NEW pc \in {"insert", "void", "revert", "save.insert"}, Goto(t, pc),
             k.pc = CASE pc = "insert" -> "resolve" [] pc = "void" -> "stamp"
                      [] pc = "revert" -> "recheck" [] OTHER -> "save.delete"
      PROVE  BooksInv'
  <2>1. pc \in Pcs
    BY DEF Pcs
  <2>2. PICK j \in JobType :
          /\ job' = [job EXCEPT ![t] = j] /\ j.pc = pc /\ j.op = k.op
          /\ j.doc = k.doc /\ j.rows = k.rows /\ j.made = k.made
          /\ j.back = k.back /\ j.want = k.want
    BY <1>3, <1>4, <2>1, GotoWhole
  <2>3. CASE pc = "void"
    <3>1. Books(k) /\ LineJob(k) => Books(j)
      BY <1>4, <2>2, <2>3, StampFailsBooks DEF LineJob, LinedPcs
    <3> QED
      BY <1>1, <1>3, <2>2, <3>1, QuietBooks
  <2>4. CASE pc # "void"
    <3>1. k.pc \in EvenPcs
      BY <1>4, <2>4 DEF EvenPcs, Pcs, LossPcs, DropPcs
    <3>2. ASSUME Books(k) PROVE Books(j)
      <4>1. RowsAgree(j) /\ LinesAgree(j) /\ OrdersAgree(j)
        BY <3>1, <3>2, EvenBooks, FromIdle
      <4>2. Control(j)
        BY <1>4, <2>2, <2>4, <3>2 DEF Books, JobBooks, Control
      <4>3. Unordered(j)
        BY <1>4, <2>2, <2>4, <3>2 DEF Books, JobBooks, Unordered
      <4>4. MadeRows(j) /\ Stamping(j)
        BY <1>4, <2>2, <2>4 DEF MadeRows, Stamping, LossPcs
      <4>5. Voiding(j) /\ Backing(j)
        BY <1>4, <2>2, <2>4, <3>2 DEF Books, JobBooks, Control, Voiding, Backing, DropPcs
      <4> QED
        BY <4>1, <4>2, <4>3, <4>4, <4>5 DEF Books, JobBooks
    <3> QED
      BY <1>1, <1>3, <2>2, <3>2, QuietBooks
  <2> QED
    BY <2>3, <2>4
<1> QED
  BY <1>1, <1>2, <1>3, <1>4 DEF _resolve_created, StampFails, Recheck, SaveDelete, SaveInsert,
     mark_confirmed

----------------------------------------------------------------------------
\* What each UPDATE leaves in a row.

LEMMA RowFields ==
  ASSUME NEW w \in RowType, NEW d, NEW q
  PROVE  /\ LET x == [w EXCEPT !.canceled = TRUE]
            IN  /\ x.canceled /\ x.doc = w.doc /\ x.ordered = w.ordered /\ x.got = w.got
                /\ x.there = w.there
         /\ LET x == [w EXCEPT !.ordered = "N", !.doc = NoDoc]
            IN  /\ x.ordered = "N" /\ x.doc = NoDoc /\ x.canceled = w.canceled /\ x.got = w.got
                /\ x.there = w.there
         /\ LET x == [w EXCEPT !.ordered = "Y", !.doc = d]
            IN  /\ x.ordered = "Y" /\ x.doc = d /\ x.canceled = w.canceled /\ x.got = w.got
                /\ x.there = w.there
         /\ LET x == [w EXCEPT !.got = q]
            IN  /\ x.got = q /\ x.doc = w.doc /\ x.ordered = w.ordered /\ x.there = w.there
                /\ x.canceled = w.canceled
         /\ LET x == [Absent EXCEPT !.there = TRUE, !.ordered = "Y", !.doc = d]
            IN  /\ x.there /\ x.ordered = "Y" /\ x.doc = d /\ ~x.canceled /\ x.got = "none"
<1>1. PICK x : x = [w EXCEPT !.canceled = TRUE]
  OBVIOUS
<1>2. PICK x2 : x2 = [w EXCEPT !.ordered = "N", !.doc = NoDoc]
  OBVIOUS
<1>3. PICK x3 : x3 = [w EXCEPT !.ordered = "Y", !.doc = d]
  OBVIOUS
<1>4. PICK x4 : x4 = [w EXCEPT !.got = q]
  OBVIOUS
<1>5. PICK x5 : x5 = [Absent EXCEPT !.there = TRUE, !.ordered = "Y", !.doc = d]
  OBVIOUS
<1>6. /\ x.canceled /\ x.doc = w.doc /\ x.ordered = w.ordered /\ x.got = w.got
      /\ x.there = w.there
  BY <1>1 DEF RowType
<1>7. /\ x2.ordered = "N" /\ x2.doc = NoDoc /\ x2.canceled = w.canceled /\ x2.got = w.got
      /\ x2.there = w.there
  BY <1>2 DEF RowType
<1>8. /\ x3.ordered = "Y" /\ x3.doc = d /\ x3.canceled = w.canceled /\ x3.got = w.got
      /\ x3.there = w.there
  BY <1>3 DEF RowType
<1>9. /\ x4.got = q /\ x4.doc = w.doc /\ x4.ordered = w.ordered /\ x4.there = w.there
      /\ x4.canceled = w.canceled
  BY <1>4 DEF RowType
<1>10. x5.there /\ x5.ordered = "Y" /\ x5.doc = d /\ ~x5.canceled /\ x5.got = "none"
  BY <1>5 DEF Absent
<1> QED
  BY <1>1, <1>2, <1>3, <1>4, <1>5, <1>6, <1>7, <1>8, <1>9, <1>10

\* A row a step left alone.
Kept(i) == iclow'[i] = iclow[i]

LEMMA KeptRow ==
  ASSUME NEW i, Kept(i)
  PROVE  /\ Incoming(i)' <=> Incoming(i)
         /\ can_stamp_row(i)' <=> can_stamp_row(i)
         /\ Received(i)' <=> Received(i)
         /\ iclow'[i].doc = iclow[i].doc /\ iclow'[i].ordered = iclow[i].ordered
         /\ \A d : Agreed(d, i)' <=> Agreed(d, i)
BY DEF Kept, Incoming, can_stamp_row, Received, Agreed

\* A step of a handler that runs alone.
LEMMA StepBooks ==
  ASSUME IInv, ReceiptInvs, BooksInv, NEW t \in Threads, NEW j, job' = [job EXCEPT ![t] = j],
         ~Free(t), UNCHANGED <<alone, crashes>>,
         NEW k \in JobType, k = job[t],
         Books(k) /\ LineJob(k) /\ RowJob(k) => Books(j)'
  PROVE  BooksInv'
<1>1. alone /\ crashes = 0 => Books(k) /\ LineJob(k) /\ RowJob(k)
  BY Typed DEF BooksInv
<1> QED
  BY <1>1, BooksMove

LEMMA ReturnBooks ==
  ASSUME IInv, ReceiptInvs, BooksInv, NEW t \in Threads, ~Free(t), Return(t),
         UNCHANGED <<alone, crashes>>, NEW k \in JobType, k = job[t],
         Books(k) /\ LineJob(k) /\ RowJob(k) =>
           RowsAgree(Idle)' /\ LinesAgree(Idle)' /\ OrdersAgree(Idle)'
  PROVE  BooksInv'
<1>1. PICK j : j = Idle /\ job' = [job EXCEPT ![t] = j] /\ j.pc = "idle"
  BY ReturnFacts, IdleFacts
<1>2. RowsAgree(Idle)' /\ LinesAgree(Idle)' /\ OrdersAgree(Idle)' =>
        RowsAgree(j)' /\ LinesAgree(j)' /\ OrdersAgree(j)'
  BY <1>1, IdleFacts DEF RowsAgree, LinesAgree, OrdersAgree, Owed, Closing, Emptied, LossPcs, DropPcs
<1>3. JobBooks(j)'
  BY <1>1 DEF JobBooks, Control, Unordered, MadeRows, Stamping, Voiding, Backing, LossPcs, DropPcs
<1> QED
  BY <1>1, <1>2, <1>3, StepBooks DEF Books

LEMMA InsertRowsBooks ==
  ASSUME IInv, ReceiptInvs, BooksInv, NEW t \in Threads, NEW d \in Docs,
         NEW S \in SUBSET Inserted, insert_ordered_lines(t, d, S)
  PROVE  BooksInv'
<1>1. UNCHANGED <<order, line, alone, crashes>> /\ ~Free(t) /\ S \subseteq Rows
  BY DEF insert_ordered_lines, supabase, counters, Free, Rows
<1>2. PICK k \in JobType : k = job[t] /\ k.pc = "insert"
  BY Typed DEF insert_ordered_lines
<1>3. PICK j : j = [k EXCEPT !.pc = "header", !.doc = d, !.made = S]
  OBVIOUS
<1>4. /\ j.pc = "header" /\ j.doc = d /\ j.made = S /\ j.op = k.op /\ j.rows = k.rows
      /\ j.want = k.want
  BY <1>3 DEF JobType
<1>5. job' = [job EXCEPT ![t] = j]
  BY <1>2, <1>3 DEF insert_ordered_lines, Go
<1> SUFFICES ASSUME Books(k), LineJob(k), RowJob(k) PROVE Books(j)'
  BY <1>1, <1>2, <1>5, StepBooks
<1>6. k.op = "confirm" /\ \A i \in k.rows : i \notin S
  BY <1>2 DEF RowJob, ConfirmPcs, insert_ordered_lines
<1>7. \A i \in Rows \ S : Kept(i)
  BY DEF insert_ordered_lines, Kept
<1>8. ASSUME NEW i \in S PROVE /\ Incoming(i)' /\ iclow'[i].doc = d
                               /\ \A e \in Docs : ~IsOpen(e, i)
  <2>1. iclow'[i] = [Absent EXCEPT !.there = TRUE, !.ordered = "Y", !.doc = d]
    BY <1>1 DEF insert_ordered_lines
  <2>2. Incoming(i)' /\ iclow'[i].doc = d
    BY <1>1, <2>1, RowFields, Typed DEF Incoming, Received
  <2>3. iclow[i].doc = NoDoc
    BY <1>1, Typed DEF RowOK, Absent, insert_ordered_lines
  <2>4. \A e \in Docs : ~IsOpen(e, i)
    BY <1>1, <1>2, <2>3, HqAssumption DEF Books, LinesAgree, Agreed, Closing
  <2> QED
    BY <2>2, <2>4
<1>9. \A e \in Docs, i \in Rows : IsOpen(e, i)' <=> IsOpen(e, i)
  BY <1>1 DEF IsOpen
<1>10. RowsAgree(j)'
  BY <1>2, <1>4, <1>6, <1>7, <1>8, <1>9, KeptRow DEF Books, RowsAgree, Owed, LossPcs, DropPcs
<1>11. LinesAgree(j)'
  BY <1>2, <1>7, <1>8, <1>9, KeptRow DEF Books, LinesAgree, Closing
<1>12. OrdersAgree(j)'
  BY <1>1, <1>2 DEF Books, OrdersAgree, Emptied, OpenLines, IsOpen
<1>13. Control(j) /\ Stamping(j)' /\ Voiding(j)' /\ Backing(j)'
  BY <1>4, <1>6 DEF Control, Stamping, Voiding, Backing, DropPcs
<1>14. MadeRows(j)'
  BY <1>4, <1>8, <1>9, <1>1 DEF MadeRows
<1>15. Unordered(j)'
  <2>1. k.rows # {} \/ k.want # {}
    BY <1>2, <1>6 DEF Books, JobBooks, Unordered
  <2>2. k.want # {} => S # {}
    BY <1>2 DEF insert_ordered_lines
  <2>3. \A i \in k.rows : can_stamp_row(i) /\ (\A e \in Docs : ~IsOpen(e, i)) /\ i \in Rows
    BY <1>2, <1>6 DEF Books, JobBooks, Unordered, JobType
  <2> QED
    BY <1>4, <1>6, <1>7, <1>9, <2>1, <2>2, <2>3, KeptRow DEF Unordered
<1> QED
  BY <1>10, <1>11, <1>12, <1>13, <1>14, <1>15 DEF Books, JobBooks, Control

\* The next try, with nothing inserted under the last number.
LEMMA AgainBooks ==
  ASSUME NEW t \in Threads, NEW k \in JobType, k = job[t], k.op = "confirm",
         Unordered(k), k.pc \in {"header", "retry"}, UNCHANGED line,
         RowsAgree(Idle)', LinesAgree(Idle)', OrdersAgree(Idle)',
         \A i \in k.rows : can_stamp_row(i)',
         NEW j, j = Again(t)
  PROVE  Books(j)'
<1>1. CASE k.tries < 2
  <2>1. j = [k EXCEPT !.pc = "insert", !.tries = k.tries + 1, !.made = {}]
    BY <1>1 DEF Again
  <2>2. /\ j.pc = "insert" /\ j.op = "confirm" /\ j.made = {} /\ j.rows = k.rows
        /\ j.want = k.want
    BY <2>1 DEF JobType
  <2>3. RowsAgree(j)' /\ LinesAgree(j)' /\ OrdersAgree(j)'
    BY <2>2, IdleFacts DEF RowsAgree, LinesAgree, OrdersAgree, Owed, Closing, Emptied, LossPcs,
       DropPcs
  <2>4. Unordered(j)'
    BY <2>2 DEF Unordered, IsOpen
  <2>5. Control(j)' /\ MadeRows(j)' /\ Stamping(j)' /\ Voiding(j)' /\ Backing(j)'
    BY <2>2 DEF Control, MadeRows, Stamping, Voiding, Backing, LossPcs, DropPcs
  <2> QED
    BY <2>3, <2>4, <2>5 DEF Books, JobBooks
<1>2. CASE ~(k.tries < 2)
  <2>1. j.pc = "idle"
    BY <1>2, IdleFacts DEF Again
  <2>2. RowsAgree(j)' /\ LinesAgree(j)' /\ OrdersAgree(j)'
    BY <2>1, IdleFacts DEF RowsAgree, LinesAgree, OrdersAgree, Owed, Closing, Emptied, LossPcs,
       DropPcs
  <2>3. JobBooks(j)'
    BY <2>1 DEF JobBooks, Control, Unordered, MadeRows, Stamping, Voiding, Backing,
       LossPcs, DropPcs
  <2> QED
    BY <2>2, <2>3 DEF Books
<1> QED
  BY <1>1, <1>2

LEMMA InsertOrderBooks ==
  ASSUME IInv, ReceiptInvs, BooksInv, NEW t \in Threads, insert_order(t)
  PROVE  BooksInv'
<1>1. UNCHANGED <<iclow, line, alone, crashes>> /\ ~Free(t)
  BY DEF insert_order, parts9, counters, Free
<1>2. PICK k \in JobType : /\ k = job[t] /\ k.pc = "header" /\ k.doc \in Docs
                           /\ k.op = "confirm" /\ RowJob(k) /\ LineJob(k)
  BY Typed DEF insert_order, LineJob, RowJob, ConfirmPcs
<1>3. CASE order[k.doc] = "none"
  <2>1. "lines" \in Pcs
    BY DEF Pcs
  <2>2. PICK j \in JobType :
          /\ job' = [job EXCEPT ![t] = j] /\ j.pc = "lines" /\ j.op = k.op
          /\ j.doc = k.doc /\ j.rows = k.rows /\ j.made = k.made
          /\ j.back = k.back /\ j.want = k.want
    BY <1>2, <1>3, <2>1, GotoWhole DEF insert_order
  <2>3. \A d \in Docs \ {k.doc} : order'[d] = order[d]
    BY <1>2, <1>3, Typed DEF insert_order
  <2> SUFFICES ASSUME Books(k) PROVE Books(j)'
    BY <1>1, <1>2, <2>2, StepBooks
  <2>4. RowsAgree(j)' /\ LinesAgree(j)'
    BY <1>1, <1>2, <2>2 DEF Books, RowsAgree, LinesAgree, Owed, Closing, LossPcs, DropPcs,
       Incoming, Received, Agreed, IsOpen
  <2>5. OrdersAgree(j)'
    BY <1>1, <1>2, <2>2, <2>3 DEF Books, OrdersAgree, Emptied, OpenLines, IsOpen
  <2>6. Unordered(j)' /\ MadeRows(j)'
    BY <1>1, <1>2, <2>2 DEF Books, JobBooks, Unordered, MadeRows, LossPcs, can_stamp_row,
       Incoming, Received, IsOpen
  <2>7. Control(j)' /\ Stamping(j)' /\ Voiding(j)' /\ Backing(j)'
    BY <1>2, <2>2 DEF Control, Stamping, Voiding, Backing, DropPcs
  <2> QED
    BY <2>4, <2>5, <2>6, <2>7 DEF Books, JobBooks
<1>4. CASE order[k.doc] # "none"
  <2>1. UNCHANGED order
        /\ IF k.made = {} THEN Go(t, Again(t)) ELSE Goto(t, "retry")
    BY <1>2, <1>4 DEF insert_order, Go, Goto
  <2>2. CASE k.made = {}
    <3>4. PICK j : j = Again(t) /\ job' = [job EXCEPT ![t] = j]
      BY <2>1, <2>2 DEF Go
    <3> SUFFICES ASSUME Books(k) PROVE Books(j)'
      BY <1>1, <1>2, <3>4, StepBooks
    <3>1. RowsAgree(Idle) /\ LinesAgree(Idle) /\ OrdersAgree(Idle)
      BY <1>2, <2>2, IdleFacts DEF Books, RowsAgree, LinesAgree, OrdersAgree, Owed, Closing,
         Emptied, LossPcs, DropPcs
    <3>2. RowsAgree(Idle)' /\ LinesAgree(Idle)' /\ OrdersAgree(Idle)'
      BY <1>1, <2>1, <3>1 DEF RowsAgree, LinesAgree, OrdersAgree, Owed, Closing, Emptied, Incoming,
         Received, Agreed, IsOpen, OpenLines
    <3>3. Unordered(k) /\ \A i \in k.rows : can_stamp_row(i)'
      BY <1>1, <1>2 DEF Books, JobBooks, Unordered, can_stamp_row, Received
    <3> QED
      BY <1>1, <1>2, <3>2, <3>3, <3>4, AgainBooks
  <2>3. CASE k.made # {}
    <3>1. "retry" \in Pcs
      BY DEF Pcs
    <3>2. PICK j \in JobType :
            /\ job' = [job EXCEPT ![t] = j] /\ j.pc = "retry" /\ j.op = k.op
            /\ j.doc = k.doc /\ j.rows = k.rows /\ j.made = k.made
            /\ j.back = k.back /\ j.want = k.want
      BY <1>2, <2>1, <2>3, <3>1, GotoWhole
    <3>3. ASSUME Books(k) PROVE Books(j)
      <4>1. RowsAgree(j) /\ LinesAgree(j) /\ OrdersAgree(j)
        BY <1>2, <3>2, <3>3 DEF Books, RowsAgree, LinesAgree, OrdersAgree, Owed, Closing, Emptied,
           LossPcs, DropPcs
      <4>2. Unordered(j) /\ MadeRows(j)
        BY <1>2, <3>2, <3>3 DEF Books, JobBooks, Unordered, MadeRows, LossPcs
      <4>3. Control(j) /\ Stamping(j) /\ Voiding(j) /\ Backing(j)
        BY <1>2, <3>2 DEF Control, Stamping, Voiding, Backing, DropPcs
      <4> QED
        BY <4>1, <4>2, <4>3 DEF Books, JobBooks
    <3> QED
      BY <1>1, <1>2, <2>1, <3>2, <3>3, QuietBooks
  <2> QED
    BY <2>2, <2>3
<1> QED
  BY <1>3, <1>4

\* The handler unwinds: with rows it inserted to cancel, or it ends.
LEMMA UnwindJob ==
  ASSUME IInv, NEW t \in Threads, Unwind(t)
  PROVE  \E j : /\ job' = [job EXCEPT ![t] = j]
                /\ \/ j = Idle /\ job[t].made = {}
                   \/ /\ j.pc = "undo" /\ j.op = job[t].op /\ j.doc = job[t].doc
                      /\ j.made = job[t].made
<1>1. CASE job[t].made = {}
  BY <1>1, ReturnFacts DEF Unwind
<1>2. CASE job[t].made # {}
  BY <1>2, GotoWhole DEF Unwind, Pcs
<1> QED
  BY <1>1, <1>2

LEMMA UnwindBooks ==
  ASSUME NEW k, NEW j,
         \/ j = Idle /\ k.made = {}
         \/ j.pc = "undo" /\ j.op = k.op /\ j.doc = k.doc /\ j.made = k.made,
         Books(k), k.op = "confirm", k.pc \in {"header", "lines", "void.order"},
         k.pc = "lines" => k.doc \in Docs /\ OpenLines(k.doc) = {},
         UNCHANGED <<iclow, line>>,
         \A d \in Docs : order'[d] = order[d] \/ order'[d] # "ordered",
         k.pc # "header" => order'[k.doc] # "ordered"
  PROVE  Books(j)'
<1>1. RowsAgree(j)' /\ LinesAgree(j)'
  BY IdleFacts DEF Books, RowsAgree, LinesAgree, Owed, Closing, LossPcs, DropPcs,
     Incoming, Received, Agreed, IsOpen
<1>2. OrdersAgree(j)'
  BY IdleFacts DEF Books, OrdersAgree, Emptied, OpenLines, IsOpen
<1>3. MadeRows(j)'
  BY IdleFacts DEF Books, JobBooks, MadeRows, LossPcs, Incoming, Received, IsOpen
<1>4. Control(j)' /\ Unordered(j)' /\ Stamping(j)' /\ Voiding(j)' /\ Backing(j)'
  BY IdleFacts DEF Control, Unordered, Stamping, Voiding, Backing, DropPcs
<1> QED
  BY <1>1, <1>2, <1>3, <1>4 DEF Books, JobBooks

LEMMA InsertFailsBooks ==
  ASSUME IInv, ReceiptInvs, BooksInv, NEW t \in Threads, InsertFails(t)
  PROVE  BooksInv'
<1>1. UNCHANGED <<iclow, line, alone, crashes>> /\ ~Free(t) /\ Unwind(t)
  BY DEF InsertFails, parts9, Free
<1>2. PICK k \in JobType : /\ k = job[t] /\ k.pc \in {"header", "lines"} /\ k.doc \in Docs
                           /\ k.op = "confirm" /\ (k.pc = "lines" => ~Lined(k.doc))
  BY Typed DEF InsertFails, LineJob, RowJob, ConfirmPcs
<1>3. PICK j : /\ job' = [job EXCEPT ![t] = j]
               /\ \/ j = Idle /\ k.made = {}
                  \/ j.pc = "undo" /\ j.op = k.op /\ j.doc = k.doc /\ j.made = k.made
  BY <1>1, <1>2, UnwindJob
<1>4. /\ \A d \in Docs : order'[d] = order[d] \/ order'[d] # "ordered"
      /\ k.pc # "header" => order'[k.doc] # "ordered"
  BY <1>2, Typed DEF InsertFails
<1>5. k.pc = "lines" => k.doc \in Docs /\ OpenLines(k.doc) = {}
  BY <1>2 DEF Lined, OpenLines, IsOpen
<1>6. Books(k) => Books(j)'
  BY <1>1, <1>2, <1>3, <1>4, <1>5, UnwindBooks
<1> QED
  BY <1>1, <1>2, <1>3, <1>6, StepBooks

LEMMA InsertLinesBooks ==
  ASSUME IInv, ReceiptInvs, BooksInv, NEW t \in Threads, insert_lines(t)
  PROVE  BooksInv'
<1>1. UNCHANGED <<iclow, alone, crashes>> /\ ~Free(t)
  BY DEF insert_lines, parts9, counters, Free
<1>2. PICK k \in JobType : /\ k = job[t] /\ k.pc = "lines" /\ k.doc \in Docs
                           /\ k.op = "confirm" /\ ~Lined(k.doc)
  BY Typed DEF insert_lines, LineJob, RowJob, ConfirmPcs
<1> DEFINE S == k.rows \cup k.made
           free == \A i \in S, d \in Docs : ~IsOpen(d, i)
<1>3. S \subseteq Rows
  BY <1>2 DEF JobType
<1>4. Books(k) => free
  BY <1>2 DEF Books, JobBooks, Unordered, MadeRows, LossPcs
<1>5. CASE ~free
  <2>1. alone => crashes # 0
    BY <1>1, <1>2, <1>4, <1>5 DEF BooksInv
  <2> QED
    BY <1>1, <2>1 DEF BooksInv
<1>6. CASE free
  <2>1. /\ line' = [line EXCEPT ![k.doc] = [i \in Rows |->
              IF i \in k.made THEN "created"
              ELSE IF i \in k.rows THEN "stamped" ELSE @[i]]]
        /\ IF k.rows = {} THEN Return(t) ELSE Goto(t, "stamp")
        /\ UNCHANGED order
    BY <1>2, <1>6 DEF insert_lines
  <2>2. PICK j : /\ job' = [job EXCEPT ![t] = j]
                 /\ \/ j = Idle /\ k.rows = {}
                    \/ /\ j.pc = "stamp" /\ j.op = k.op /\ j.doc = k.doc
                       /\ j.rows = k.rows /\ j.made = k.made
    BY <1>2, <2>1, ReturnFacts, GotoWhole DEF Pcs
  <2>3. \A d \in Docs, i \in Rows :
          IsOpen(d, i)' <=> IsOpen(d, i) \/ (d = k.doc /\ i \in S)
    BY <1>2, <2>1, Typed DEF IsOpen
  <2>4. \A i \in Rows : ~IsOpen(k.doc, i)
    BY <1>2 DEF Lined, IsOpen
  <2>5. \A i \in Rows : Kept(i)
    BY <1>1 DEF Kept
  <2> SUFFICES ASSUME Books(k) PROVE Books(j)'
    BY <1>1, <1>2, <2>2, StepBooks
  <2>6. /\ \A i \in k.made : Incoming(i) /\ iclow[i].doc = k.doc
        /\ \A i \in k.rows : can_stamp_row(i)
        /\ S # {}
    BY <1>2 DEF Books, JobBooks, Unordered, MadeRows, LossPcs
  <2>7. RowsAgree(j)'
    BY <1>2, <2>2, <2>3, <2>5, KeptRow DEF Books, RowsAgree, Owed, DropPcs
  <2>8. LinesAgree(j)'
    <3>1. \A i \in k.made : Agreed(k.doc, i)
      BY <2>6 DEF Agreed, Incoming
    <3> QED
      BY <1>2, <2>2, <2>3, <2>5, <3>1, KeptRow DEF Books, LinesAgree, Closing
  <2>9. OrdersAgree(j)'
    <3>1. \A d \in Docs : OpenLines(d) # {} => OpenLines(d)' # {}
      BY <2>3 DEF OpenLines
    <3>2. OpenLines(k.doc)' # {}
      BY <1>2, <1>3, <2>3, <2>6 DEF OpenLines
    <3> QED
      BY <1>2, <2>1, <3>1, <3>2 DEF Books, OrdersAgree, Emptied
  <2>10. MadeRows(j)'
    BY <1>3, <2>2, <2>5, <2>6, KeptRow, IdleFacts DEF MadeRows, LossPcs
  <2>11. Stamping(j)'
    <3>1. OpenLines(k.doc)' = S
      BY <1>2, <1>3, <2>3, <2>4 DEF OpenLines
    <3>2. \A i \in S, d \in Docs : IsOpen(d, i)' => d = k.doc
      BY <1>3, <1>6, <2>3
    <3> QED
      BY <1>3, <2>2, <2>5, <2>6, <3>1, <3>2, KeptRow, IdleFacts DEF Stamping
  <2>12. Control(j)' /\ Unordered(j)' /\ Voiding(j)' /\ Backing(j)'
    BY <1>2, <2>2, IdleFacts DEF Control, Unordered, Voiding, Backing, DropPcs
  <2> QED
    BY <2>7, <2>8, <2>9, <2>10, <2>11, <2>12 DEF Books, JobBooks
<1> QED
  BY <1>5, <1>6

LEMMA StampBooks ==
  ASSUME IInv, ReceiptInvs, BooksInv, NEW t \in Threads, stamp_ordered(t)
  PROVE  BooksInv'
<1>1. UNCHANGED <<order, line, alone, crashes>> /\ ~Free(t)
  BY DEF stamp_ordered, supabase, counters, Free
<1>2. PICK k \in JobType : k = job[t] /\ k.pc = "stamp" /\ k.doc \in Docs
  BY Typed DEF stamp_ordered, LineJob, LinedPcs
<1>3. Books(k) => \A i \in k.rows : can_stamp_row(i)
  BY <1>2 DEF Books, JobBooks, Stamping
<1>4. CASE ~\A i \in k.rows : can_stamp_row(i)
  <2>1. alone => crashes # 0
    BY <1>1, <1>2, <1>3, <1>4 DEF BooksInv
  <2> QED
    BY <1>1, <2>1 DEF BooksInv
<1>5. CASE \A i \in k.rows : can_stamp_row(i)
  <2>1. Return(t) /\ iclow' = [i \in Rows |-> IF i \in k.rows
                   THEN [iclow[i] EXCEPT !.ordered = "Y", !.doc = k.doc] ELSE iclow[i]]
    BY <1>2, <1>5 DEF stamp_ordered
  <2> SUFFICES ASSUME Books(k)
               PROVE  RowsAgree(Idle)' /\ LinesAgree(Idle)' /\ OrdersAgree(Idle)'
    BY <1>1, <1>2, <2>1, ReturnBooks
  <2>3. \A i \in Rows \ k.rows : Kept(i)
    BY <2>1 DEF Kept
  <2>4. ASSUME NEW i \in k.rows PROVE iclow'[i].doc = k.doc /\ Agreed(k.doc, i)'
    <3>1. iclow'[i] = [iclow[i] EXCEPT !.ordered = "Y", !.doc = k.doc] /\ iclow[i] \in RowType
      BY <1>2, <2>1, Typed DEF JobType
    <3>2. iclow'[i].ordered = "Y" /\ iclow'[i].doc = k.doc /\ iclow'[i].canceled = iclow[i].canceled
      BY <3>1, RowFields
    <3> QED
      BY <1>5, <3>2 DEF Agreed, can_stamp_row
  <2>5. \A d \in Docs, i \in Rows : IsOpen(d, i)' <=> IsOpen(d, i)
    BY <1>1 DEF IsOpen
  <2>6. /\ \A i \in k.rows : IsOpen(k.doc, i)
        /\ \A i \in k.rows, d \in Docs : IsOpen(d, i) => d = k.doc
    BY <1>2 DEF Books, JobBooks, Stamping, OpenLines
  <2>7. RowsAgree(Idle)'
    BY <1>2, <2>3, <2>4, <2>5, <2>6, KeptRow DEF Books, RowsAgree, Owed, LossPcs, DropPcs
  <2>8. LinesAgree(Idle)'
    BY <1>2, <2>3, <2>4, <2>5, <2>6, KeptRow DEF Books, LinesAgree, Closing
  <2>9. OrdersAgree(Idle)'
    BY <1>1, <1>2 DEF Books, OrdersAgree, Emptied, OpenLines, IsOpen
  <2> QED
    BY <2>7, <2>8, <2>9
<1> QED
  BY <1>4, <1>5

LEMMA VoidBooks ==
  ASSUME IInv, ReceiptInvs, BooksInv, NEW t \in Threads, mark_lines(t)
  PROVE  BooksInv'
<1>1. UNCHANGED <<iclow, order, alone, crashes>> /\ ~Free(t)
  BY DEF mark_lines, parts9, counters, Free
<1>2. PICK k \in JobType : k = job[t] /\ k.pc = "void" /\ k.doc \in Docs
  BY Typed DEF mark_lines, LineJob, LinedPcs
<1>3. "void.order" \in Pcs
  BY DEF Pcs
<1>4. PICK j \in JobType : /\ job' = [job EXCEPT ![t] = j] /\ j.pc = "void.order" /\ j.op = k.op
                           /\ j.doc = k.doc /\ j.rows = k.rows /\ j.made = k.made
  BY <1>2, <1>3, GotoWhole DEF mark_lines
<1>5. \A d \in Docs, i \in Rows : IsOpen(d, i)' <=> IsOpen(d, i) /\ d # k.doc
  BY <1>2, Typed DEF IsOpen, mark_lines
<1>6. \A i \in Rows : Kept(i)
  BY <1>1 DEF Kept
<1> SUFFICES ASSUME Books(k) PROVE Books(j)'
  BY <1>1, <1>2, <1>4, StepBooks
<1>7. k.op \in {"confirm", "cancel"}
  BY <1>2 DEF Books, JobBooks, Control
<1>8. RowsAgree(j)'
  <2>1. \A i \in Rows : Incoming(i) /\ iclow[i].doc = k.doc => k.op = "confirm" /\ i \in k.made
    BY <1>2 DEF Books, JobBooks, Voiding
  <2>2. \A d \in Docs, i \in Rows : ~Owed(k, d, i)
    BY <1>2, <1>7 DEF Owed, LossPcs
  <2> QED
    BY <1>4, <1>5, <1>6, <2>1, <2>2, KeptRow DEF Books, RowsAgree, Owed, LossPcs
<1>9. LinesAgree(j)'
  BY <1>2, <1>4, <1>5, <1>6, <1>7, KeptRow DEF Books, LinesAgree, Closing
<1>10. OrdersAgree(j)'
  <2>1. \A d \in Docs \ {k.doc} : OpenLines(d)' = OpenLines(d)
    BY <1>5 DEF OpenLines
  <2> QED
    BY <1>1, <1>2, <1>4, <2>1 DEF Books, OrdersAgree, Emptied
<1>11. MadeRows(j)'
  <2>1. ASSUME NEW i \in k.made, k.op = "confirm"
        PROVE  Incoming(i) /\ iclow[i].doc = k.doc /\ i \in Rows
    BY <1>2, <2>1 DEF Books, JobBooks, MadeRows, JobType
  <2>2. ASSUME NEW i \in k.made, k.op = "confirm", NEW d \in Docs
        PROVE  ~IsOpen(d, i)'
    BY <1>2, <1>5, <1>7, <2>1, <2>2 DEF Books, LinesAgree, Agreed, Closing
  <2> QED
    BY <1>4, <1>6, <2>1, <2>2, KeptRow DEF MadeRows
<1>12. Control(j)' /\ Unordered(j)' /\ Stamping(j)' /\ Voiding(j)' /\ Backing(j)'
  BY <1>4, <1>7 DEF Control, Unordered, Stamping, Voiding, Backing, DropPcs
<1> QED
  BY <1>8, <1>9, <1>10, <1>11, <1>12 DEF Books, JobBooks

LEMMA VoidOrderBooks ==
  ASSUME IInv, ReceiptInvs, BooksInv, NEW t \in Threads, mark_order_canceled(t)
  PROVE  BooksInv'
<1>1. UNCHANGED <<iclow, line, alone, crashes>> /\ ~Free(t)
  BY DEF mark_order_canceled, parts9, counters, Free
<1>2. PICK k \in JobType : /\ k = job[t] /\ k.pc = "void.order"
  BY Typed DEF mark_order_canceled
<1>3. /\ \A d \in Docs : order'[d] = order[d] \/ order'[d] # "ordered"
      /\ k.doc \in Docs => order'[k.doc] # "ordered"
  BY <1>2, Typed DEF mark_order_canceled
<1>4. CASE k.op = "confirm"
  <2>1. PICK j : /\ job' = [job EXCEPT ![t] = j]
               /\ \/ j = Idle /\ k.made = {}
                  \/ j.pc = "undo" /\ j.op = k.op /\ j.doc = k.doc /\ j.made = k.made
    BY <1>2, <1>4, UnwindJob DEF mark_order_canceled
  <2>2. Books(k) /\ k.doc \in Docs => Books(j)'
    BY <1>1, <1>2, <1>3, <1>4, <2>1, UnwindBooks
  <2> QED
    BY <1>1, <1>2, <2>1, <2>2, StepBooks DEF LineJob, LinedPcs
<1>5. CASE k.op # "confirm"
  <2>1. PICK j : j = Idle /\ job' = [job EXCEPT ![t] = j]
    BY <1>2, <1>5, ReturnFacts DEF mark_order_canceled
  <2> SUFFICES ASSUME Books(k), k.doc \in Docs PROVE Books(j)'
    BY <1>1, <1>2, <2>1, StepBooks DEF LineJob, LinedPcs
  <2>2. RowsAgree(j)' /\ LinesAgree(j)'
    BY <1>1, <1>2, <1>5, <2>1, IdleFacts DEF Books, RowsAgree, LinesAgree, Owed, Closing, LossPcs,
       DropPcs, Incoming, Received, Agreed, IsOpen
  <2>3. OrdersAgree(j)'
    BY <1>1, <1>2, <1>3, <2>1 DEF Books, OrdersAgree, Emptied, OpenLines, IsOpen
  <2>4. JobBooks(j)'
    BY <2>1, IdleFacts DEF JobBooks, Control, Unordered, MadeRows, Stamping, Voiding, Backing,
       LossPcs, DropPcs
  <2> QED
    BY <2>2, <2>3, <2>4 DEF Books
<1> QED
  BY <1>4, <1>5

LEMMA CancelCreatedBooks ==
  ASSUME IInv, ReceiptInvs, BooksInv, NEW t \in Threads, cancel_created(t)
  PROVE  BooksInv'
<1>1. UNCHANGED <<order, line, alone, crashes>> /\ ~Free(t)
  BY DEF cancel_created, supabase, counters, Free
<1>2. PICK k \in JobType : /\ k = job[t] /\ k.pc \in {"undo", "retry", "retire"}
                           /\ RowJob(k) /\ LineJob(k)
  BY Typed DEF cancel_created
<1> DEFINE ours == \A i \in k.made : iclow[i].doc = k.doc /\ ~Received(i)
<1>3. Books(k) => ours /\ k.op = IF k.pc = "retire" THEN "cancel" ELSE "confirm"
  BY <1>2 DEF Books, JobBooks, MadeRows, Voiding, Control, Incoming, LossPcs, RowJob, ConfirmPcs
<1>4. CASE ~ours
  <2>1. alone => crashes # 0
    BY <1>1, <1>2, <1>3, <1>4 DEF BooksInv
  <2> QED
    BY <1>1, <2>1 DEF BooksInv
<1>5. CASE ours
  <2>1. /\ iclow' = [i \in Rows |-> IF i \in k.made THEN [iclow[i] EXCEPT !.canceled = TRUE]
                                    ELSE iclow[i]]
        /\ \/ k.pc = "undo" /\ Return(t)
           \/ k.pc = "retry" /\ Go(t, Again(t))
           \/ k.pc = "retire" /\ Goto(t, "void")
    BY <1>2, <1>5 DEF cancel_created, Return, Goto, Go
  <2>2. \A i \in Rows \ k.made : Kept(i)
    BY <2>1 DEF Kept
  <2>3. \A i \in k.made : ~Incoming(i)' /\ iclow'[i].doc = iclow[i].doc
    BY <1>2, <2>1, RowFields, Typed DEF JobType, Incoming
  <2>4. \A d \in Docs, i \in Rows : IsOpen(d, i)' <=> IsOpen(d, i)
    BY <1>1 DEF IsOpen
  <2>5. ASSUME Books(k), k.pc # "retire"
        PROVE  RowsAgree(Idle)' /\ LinesAgree(Idle)' /\ OrdersAgree(Idle)'
    <3>1. k.op = "confirm" /\ k.pc \in LossPcs
      BY <1>2, <1>3, <2>5 DEF LossPcs
    <3>2. \A i \in k.made, d \in Docs : ~IsOpen(d, i)
      BY <2>5, <3>1 DEF Books, JobBooks, MadeRows
    <3>3. RowsAgree(Idle)'
      BY <1>2, <2>2, <2>3, <2>4, <2>5, <3>1, KeptRow DEF Books, RowsAgree, Owed
    <3>4. LinesAgree(Idle)'
      BY <1>2, <2>2, <2>4, <2>5, <3>1, <3>2, KeptRow DEF Books, LinesAgree, Closing
    <3>5. OrdersAgree(Idle)'
      BY <1>1, <1>2, <2>5 DEF Books, OrdersAgree, Emptied, OpenLines, IsOpen
    <3> QED
      BY <3>3, <3>4, <3>5
  <2>6. CASE k.pc = "undo"
    BY <1>1, <1>2, <2>1, <2>5, <2>6, ReturnBooks
  <2>7. CASE k.pc = "retry"
    <3>1. PICK j : j = Again(t) /\ job' = [job EXCEPT ![t] = j]
      BY <2>1, <2>7 DEF Go
    <3> SUFFICES ASSUME Books(k) PROVE Books(j)'
      BY <1>1, <1>2, <3>1, StepBooks
    <3>2. k.op = "confirm" /\ Unordered(k)
      BY <1>3, <2>7 DEF Books, JobBooks
    <3>3. \A i \in k.rows : i \in Rows /\ can_stamp_row(i)
      BY <1>2, <2>7, <3>2 DEF Unordered, JobType
    <3>4. \A i \in k.rows : i \notin k.made
      BY <2>7, <3>2, <3>3 DEF Books, JobBooks, MadeRows, LossPcs, Incoming, can_stamp_row
    <3>5. \A i \in k.rows : can_stamp_row(i)'
      BY <2>2, <3>3, <3>4, KeptRow
    <3> QED
      BY <1>1, <1>2, <2>5, <2>7, <3>1, <3>2, <3>5, AgainBooks
  <2>8. CASE k.pc = "retire"
    <3>1. PICK j \in JobType : /\ job' = [job EXCEPT ![t] = j] /\ j.pc = "void" /\ j.op = k.op
                             /\ j.doc = k.doc /\ j.rows = k.rows /\ j.made = k.made
      BY <1>2, <2>1, <2>8, GotoWhole DEF Pcs
    <3> SUFFICES ASSUME Books(k) PROVE Books(j)'
      BY <1>1, <1>2, <3>1, StepBooks
    <3>2. k.op = "cancel" /\ k.doc \in Docs
      BY <1>2, <1>3, <2>8 DEF LineJob, LinedPcs
    <3>3. RowsAgree(j)'
      BY <2>2, <2>3, <2>4, <2>8, <3>2, KeptRow DEF Books, RowsAgree, Owed
    <3>4. LinesAgree(j)'
      BY <1>5, <2>2, <2>4, <2>8, <3>1, <3>2, KeptRow DEF Books, LinesAgree, Closing, Agreed
    <3>5. OrdersAgree(j)'
      BY <1>1, <2>8 DEF Books, OrdersAgree, Emptied, OpenLines, IsOpen
    <3>6. Voiding(j)'
      <4>1. \A i \in Rows : Incoming(i) /\ iclow[i].doc = k.doc => i \in k.made
        BY <2>8 DEF Books, JobBooks, Voiding
      <4> QED
        BY <2>2, <2>3, <3>1, <4>1, KeptRow DEF Voiding
    <3>7. Control(j)' /\ Unordered(j)' /\ MadeRows(j)' /\ Stamping(j)' /\ Backing(j)'
      BY <3>1, <3>2 DEF Control, Unordered, MadeRows, Stamping, Backing, DropPcs
    <3> QED
      BY <3>3, <3>4, <3>5, <3>6, <3>7 DEF Books, JobBooks
  <2> QED
    BY <1>2, <2>6, <2>7, <2>8
<1> QED
  BY <1>4, <1>5

LEMMA RevertBooks ==
  ASSUME IInv, ReceiptInvs, BooksInv, NEW t \in Threads, revert_ordered(t)
  PROVE  BooksInv'
<1>1. UNCHANGED <<order, line, alone, crashes>> /\ ~Free(t)
  BY DEF revert_ordered, supabase, counters, Free
<1>2. PICK k \in JobType : /\ k = job[t] /\ k.pc = "revert" /\ k.doc \in Docs
  BY Typed DEF revert_ordered, LineJob, LinedPcs
<1>3. CASE UNCHANGED iclow /\ Return(t)
  BY <1>1, <1>2, <1>3, EvenReturn DEF EvenPcs, Pcs, LossPcs, DropPcs
<1>4. CASE /\ \A i \in k.rows : iclow[i].doc = k.doc /\ ~Received(i)
           /\ iclow' = [i \in Rows |-> IF i \in k.rows
                THEN [iclow[i] EXCEPT !.ordered = "N", !.doc = NoDoc] ELSE iclow[i]]
           /\ Goto(t, IF k.op = "cancel_line" THEN "line"
                      ELSE IF k.made # {} THEN "retire" ELSE "void")
  <2>1. PICK pc \in {"line", "retire", "void"} :
          /\ Goto(t, pc)
          /\ pc = "line" <=> k.op = "cancel_line"
          /\ pc = "void" => k.made = {}
    BY <1>4
  <2>2. PICK j \in JobType : /\ job' = [job EXCEPT ![t] = j] /\ j.pc = pc /\ j.op = k.op
                             /\ j.doc = k.doc /\ j.rows = k.rows /\ j.made = k.made
                             /\ j.back = k.back
    BY <1>2, <2>1, GotoWhole DEF Pcs
  <2> SUFFICES ASSUME Books(k) PROVE Books(j)'
    BY <1>1, <1>2, <2>2, StepBooks
  <2>3. \A i \in Rows \ k.rows : Kept(i)
    BY <1>4 DEF Kept
  <2>4. ASSUME NEW i \in k.rows PROVE i \in Rows /\ ~Incoming(i)' /\ iclow'[i].ordered = "N"
    <3>1. /\ i \in Rows /\ iclow[i] \in RowType
          /\ iclow'[i] = [iclow[i] EXCEPT !.ordered = "N", !.doc = NoDoc]
      BY <1>2, <1>4, Typed DEF JobType
    <3>2. iclow'[i].ordered = "N"
      BY <3>1, RowFields
    <3> QED
      BY <3>1, <3>2 DEF Incoming
  <2>5. \A d \in Docs, i \in Rows : IsOpen(d, i)' <=> IsOpen(d, i)
    BY <1>1 DEF IsOpen
  <2>6. k.op \in {"cancel", "cancel_line"}
    BY <1>2 DEF Books, JobBooks, Control
  <2>7. k.op = "cancel_line" =>
          k.back = {k.doc} \X k.rows /\ \A l \in k.back : IsOpen(l[1], l[2])
    BY <1>2 DEF Books, JobBooks, Backing
  <2>8. \A i \in Rows, d \in Docs : IsOpen(d, i) => iclow[i].doc = d /\ Agreed(d, i)
    BY <1>2 DEF Books, LinesAgree, Closing, Agreed
  <2>9. \A i \in Rows, d \in Docs :
          Incoming(i)' /\ iclow'[i].doc = d => i \notin k.rows /\ Incoming(i) /\ IsOpen(d, i)
    BY <1>2, <2>3, <2>4, KeptRow DEF Books, RowsAgree, Owed, LossPcs, DropPcs
  <2>10. RowsAgree(j)'
    BY <2>5, <2>9 DEF RowsAgree
  <2>11. LinesAgree(j)'
    <3>1. ASSUME NEW d \in Docs, NEW i \in k.rows, IsOpen(d, i) PROVE Closing(j, d, i)
      <4>1. d = k.doc
        BY <1>4, <2>4, <2>8, <3>1
      <4>2. k.op = "cancel_line" => <<d, i>> \in k.back
        BY <2>7, <4>1
      <4> QED
        BY <2>1, <2>2, <2>6, <4>1, <4>2 DEF Closing
    <3> QED
      BY <2>3, <2>5, <2>8, <3>1, KeptRow DEF LinesAgree, Closing
  <2>12. OrdersAgree(j)'
    BY <1>1, <1>2 DEF Books, OrdersAgree, Emptied, OpenLines, IsOpen
  <2>13. Voiding(j)'
    <3>1. CASE k.op = "cancel_line"
      BY <2>1, <2>2, <3>1 DEF Voiding
    <3>2. CASE k.op = "cancel"
      <4>1. OpenLines(k.doc) \subseteq k.rows \cup k.made /\ k.rows \cap k.made = {}
            /\ \A i \in k.made : i \in Rows /\ iclow[i].doc = k.doc /\ ~Received(i)
        BY <1>2, <3>2 DEF Books, JobBooks, Voiding, JobType
      <4>2. \A i \in Rows : Incoming(i)' /\ iclow'[i].doc = k.doc => i \in k.made
        BY <1>2, <2>9, <4>1 DEF OpenLines
      <4>3. \A i \in k.made : iclow'[i].doc = k.doc /\ ~Received(i)'
        BY <2>3, <4>1, KeptRow
      <4> QED
        BY <2>1, <2>2, <3>2, <4>2, <4>3 DEF Voiding
    <3> QED
      BY <2>6, <3>1, <3>2
  <2>14. Backing(j)'
    <3>1. k.op = "cancel_line" =>
            \A l \in k.back : l[1] \in Docs /\ l[2] \in k.rows
      BY <1>2, <2>7
    <3> QED
      BY <1>2, <2>1, <2>2, <2>4, <2>5, <2>6, <2>7, <3>1 DEF Backing, DropPcs
  <2>15. Control(j)' /\ Unordered(j)' /\ MadeRows(j)' /\ Stamping(j)'
    BY <2>1, <2>2, <2>6 DEF Control, Unordered, MadeRows, Stamping
  <2> QED
    BY <2>10, <2>11, <2>12, <2>13, <2>14, <2>15 DEF Books, JobBooks
<1> QED
  BY <1>2, <1>3, <1>4 DEF revert_ordered

LEMMA LineBooks ==
  ASSUME IInv, ReceiptInvs, BooksInv, NEW t \in Threads, NEW l \in Docs \X Rows,
         mark_line_canceled(t, l)
  PROVE  BooksInv'
<1>1. UNCHANGED <<iclow, order, alone, crashes>> /\ ~Free(t)
  BY DEF mark_line_canceled, parts9, counters, Free
<1>2. PICK k \in JobType : k = job[t] /\ k.pc = "line" /\ l \in k.back
  BY Typed DEF mark_line_canceled
<1>3. Books(k) => IsOpen(l[1], l[2])
  BY <1>2 DEF Books, JobBooks, Backing
<1>4. CASE ~IsOpen(l[1], l[2])
  <2>1. alone => crashes # 0
    BY <1>1, <1>2, <1>3, <1>4 DEF BooksInv
  <2> QED
    BY <1>1, <2>1 DEF BooksInv
<1>5. CASE IsOpen(l[1], l[2])
  <2>1. PICK d \in Docs, i \in Rows : l = <<d, i>> /\ l[1] = d /\ l[2] = i
    OBVIOUS
  <2>2. PICK j : j = [k EXCEPT !.pc = "close", !.doc = d, !.back = k.back \ {l}]
    OBVIOUS
  <2>3. /\ j.pc = "close" /\ j.doc = d /\ j.back = k.back \ {l} /\ j.op = k.op
        /\ j.rows = k.rows /\ j.want = k.want
    BY <2>2 DEF JobType
  <2>4. job' = [job EXCEPT ![t] = j] /\ line' = [line EXCEPT ![d][i] = "canceled"]
    BY <1>2, <1>5, <2>1, <2>2 DEF mark_line_canceled, Go
  <2>5. \A e \in Docs, k0 \in Rows : IsOpen(e, k0)' <=> IsOpen(e, k0) /\ <<e, k0>> # l
    BY <2>1, <2>4, Typed DEF IsOpen
  <2>6. \A k0 \in Rows : Kept(k0)
    BY <1>1 DEF Kept
  <2> SUFFICES ASSUME Books(k) PROVE Books(j)'
    BY <1>1, <1>2, <2>4, StepBooks
  <2>7. /\ k.op \in {"confirm", "refused", "cancel_line", "release", "drop"}
        /\ \/ k.op \in {"release", "drop"} /\ i \in k.rows
           \/ k.op \notin {"release", "drop"} /\ iclow[i].ordered # "Y"
    BY <1>2, <2>1 DEF Books, JobBooks, Control, Backing
  <2>8. RowsAgree(j)'
    <3>1. ASSUME NEW e \in Docs, NEW k0 \in Rows, Incoming(k0), iclow[k0].doc = e,
                 ~IsOpen(e, k0)'
          PROVE  Owed(j, e, k0)
      <4>1. CASE <<e, k0>> = l
        BY <2>1, <2>3, <2>7, <3>1, <4>1 DEF Owed, Incoming, DropPcs
      <4>2. CASE <<e, k0>> # l
        <5>1. Owed(k, e, k0)
          BY <2>5, <3>1, <4>2 DEF Books, RowsAgree
        <5> QED
          BY <1>2, <2>3, <5>1 DEF Owed, DropPcs, LossPcs
      <4> QED
        BY <4>1, <4>2
    <3> QED
      BY <2>6, <3>1, KeptRow DEF RowsAgree, Owed
  <2>9. LinesAgree(j)'
    BY <1>2, <2>3, <2>5, <2>6, KeptRow DEF Books, LinesAgree, Closing
  <2>10. OrdersAgree(j)'
    <3>1. \A e \in Docs \ {d} : OpenLines(e)' = OpenLines(e)
      BY <2>1, <2>5 DEF OpenLines
    <3> QED
      BY <1>1, <1>2, <2>3, <3>1 DEF Books, OrdersAgree, Emptied
  <2>11. Unordered(j)'
    <3>1. \A k0 \in k.rows : k0 \in Rows
      BY DEF JobType
    <3> QED
      BY <1>2, <2>3, <2>5, <2>6, <3>1, KeptRow DEF Books, JobBooks, Unordered
  <2>12. Backing(j)'
    <3>1. \A m \in k.back : m[1] \in Docs /\ m[2] \in Rows /\ m = <<m[1], m[2]>>
      BY DEF JobType
    <3>2. \A k0 \in k.rows : k0 \in Rows
      BY DEF JobType
    <3>3. \A m \in k.back \ {l} : IsOpen(m[1], m[2])'
      BY <1>2, <2>5, <3>1 DEF Books, JobBooks, Backing
    <3>4. \A m \in k.back : \/ k.op \in {"release", "drop"} /\ m[2] \in k.rows
                            \/ k.op \notin {"release", "drop"} /\ iclow'[m[2]].ordered # "Y"
      BY <1>1, <1>2 DEF Books, JobBooks, Backing
    <3>5. k.op \in {"release", "drop"} =>
            /\ \A a, b \in k.rows : a = b
            /\ \A a \in k.rows, e \in Docs : IsOpen(e, a)' => <<e, a>> \in k.back \ {l}
      BY <1>2, <2>5, <3>2 DEF Books, JobBooks, Backing, DropPcs
    <3> QED
      BY <2>3, <2>7, <3>3, <3>4, <3>5 DEF Backing
  <2>13. Control(j)' /\ MadeRows(j)' /\ Stamping(j)' /\ Voiding(j)'
    BY <2>3, <2>7 DEF Control, MadeRows, Stamping, Voiding, LossPcs
  <2> QED
    BY <2>8, <2>9, <2>10, <2>11, <2>12, <2>13 DEF Books, JobBooks
<1> QED
  BY <1>4, <1>5

LEMMA CloseBooks ==
  ASSUME IInv, ReceiptInvs, BooksInv, NEW t \in Threads, CloseOrder(t)
  PROVE  BooksInv'
<1>1. UNCHANGED <<iclow, line, alone, crashes>> /\ ~Free(t)
  BY DEF CloseOrder, parts9, counters, Free
<1>2. PICK k \in JobType : k = job[t] /\ k.pc = "close" /\ k.doc \in Docs
  BY Typed DEF CloseOrder, LineJob, LinedPcs
<1> DEFINE next == IF k.back # {} THEN "line" ELSE AfterLines(k.op, k.want)
<1>3. IF next = "idle" THEN Return(t) ELSE Goto(t, next)
  BY <1>2 DEF CloseOrder
<1>4. \A d \in Docs : /\ order'[d] = "ordered" => order[d] = "ordered"
                      /\ order'[k.doc] = "ordered" => OpenLines(k.doc) # {}
  BY <1>2, Typed DEF CloseOrder
<1>5. \A d \in Docs, i \in Rows : IsOpen(d, i)' <=> IsOpen(d, i)
  BY <1>1 DEF IsOpen
<1>6. \A i \in Rows : Kept(i)
  BY <1>1 DEF Kept
<1>7. Books(k) => \A d \in Docs : order'[d] = "ordered" => OpenLines(d)' # {}
  BY <1>1, <1>2, <1>4 DEF Books, OrdersAgree, Emptied, OpenLines, IsOpen
<1>8. Books(k) => k.op \in {"confirm", "refused", "cancel_line", "release", "drop"}
  BY <1>2 DEF Books, JobBooks, Control
<1>9. CASE next = "idle"
  <2>1. Return(t) /\ k.back = {} /\ k.op \notin {"confirm", "release", "drop"}
    BY <1>3, <1>9 DEF AfterLines, Resolve
  <2> SUFFICES ASSUME Books(k)
               PROVE  RowsAgree(Idle)' /\ LinesAgree(Idle)' /\ OrdersAgree(Idle)'
    BY <1>1, <1>2, <2>1, ReturnBooks
  <2>2. RowsAgree(Idle)'
    BY <1>2, <1>5, <1>6, <2>1, KeptRow DEF Books, RowsAgree, Owed, LossPcs
  <2>3. LinesAgree(Idle)'
    BY <1>2, <1>5, <1>6, <2>1, KeptRow DEF Books, LinesAgree, Closing
  <2> QED
    BY <1>7, <2>2, <2>3 DEF OrdersAgree
<1>10. CASE next # "idle"
  <2>1. next \in {"line", "resolve", "insert", "release", "drop"} /\ Goto(t, next)
        /\ (next # "line" => k.back = {})
        /\ (next \in {"resolve", "insert"} => k.op = "confirm")
        /\ (next \in {"release", "drop"} => k.op = next)
    BY <1>3, <1>10 DEF AfterLines, Resolve
  <2> HIDE DEF next
  <2>2. next \in Pcs
    BY <2>1 DEF Pcs
  <2>3. PICK j \in JobType : /\ job' = [job EXCEPT ![t] = j] /\ j.pc = next /\ j.op = k.op
                             /\ j.doc = k.doc /\ j.rows = k.rows /\ j.made = k.made
                             /\ j.back = k.back /\ j.want = k.want
    BY <1>2, <2>1, <2>2, GotoWhole
  <2> SUFFICES ASSUME Books(k) PROVE Books(j)'
    BY <1>1, <1>2, <2>3, StepBooks
  <2>4. next \in {"line"} \/ k.op # "cancel_line"
    BY <2>1
  <2>5. RowsAgree(j)'
    <3>1. \A d \in Docs, i \in Rows : Owed(k, d, i) => Owed(j, d, i) \/ IsOpen(d, i)
      BY <1>2, <2>1, <2>3 DEF Owed, LossPcs, DropPcs
    <3> QED
      BY <1>5, <1>6, <3>1, KeptRow DEF Books, RowsAgree, Owed
  <2>6. LinesAgree(j)'
    BY <1>2, <1>5, <1>6, <2>1, <2>3, KeptRow DEF Books, LinesAgree, Closing
  <2>7. Unordered(j)'
    <3>1. \A i \in k.rows : i \in Rows
      BY DEF JobType
    <3> QED
      BY <1>2, <1>5, <1>6, <2>1, <2>3, <3>1, KeptRow DEF Books, JobBooks, Unordered
  <2>8. Backing(j)'
    <3>1. \A m \in k.back : m[1] \in Docs /\ m[2] \in Rows
      BY DEF JobType
    <3>2. \A i \in k.rows : i \in Rows
      BY DEF JobType
    <3>3. \A m \in k.back : IsOpen(m[1], m[2])'
      BY <1>2, <1>5, <3>1 DEF Books, JobBooks, Backing
    <3>4. \A m \in k.back : \/ k.op \in {"release", "drop"} /\ m[2] \in k.rows
                            \/ k.op \notin {"release", "drop"} /\ iclow'[m[2]].ordered # "Y"
      BY <1>1, <1>2 DEF Books, JobBooks, Backing
    <3>5. k.op \in {"release", "drop"} =>
            /\ \A a, b \in k.rows : a = b
            /\ \A a \in k.rows, e \in Docs : IsOpen(e, a)' => <<e, a>> \in k.back
      BY <1>2, <1>5, <3>2 DEF Books, JobBooks, Backing, DropPcs
    <3> QED
      BY <2>1, <2>3, <3>3, <3>4, <3>5 DEF Backing
  <2>9. Control(j)' /\ MadeRows(j)' /\ Stamping(j)' /\ Voiding(j)'
    BY <1>8, <2>1, <2>3 DEF Control, MadeRows, Stamping, Voiding, LossPcs
  <2> QED
    BY <1>7, <2>5, <2>6, <2>7, <2>8, <2>9 DEF Books, JobBooks, OrdersAgree
<1> QED
  BY <1>9, <1>10

LEMMA ReleaseBooks ==
  ASSUME IInv, ReceiptInvs, BooksInv, NEW t \in Threads, NEW i \in Rows,
         release_to_waiting(t, i) \/ cancel_incoming(t, i)
  PROVE  BooksInv'
<1>1. UNCHANGED <<order, line, alone, crashes>> /\ ~Free(t) /\ Return(t)
  BY DEF release_to_waiting, cancel_incoming, supabase, counters, Free
<1>2. PICK k \in JobType : k = job[t] /\ k.pc \in {"release", "drop"} /\ i \in k.rows
  BY Typed DEF release_to_waiting, cancel_incoming
<1> SUFFICES ASSUME Books(k)
             PROVE  RowsAgree(Idle)' /\ LinesAgree(Idle)' /\ OrdersAgree(Idle)'
  BY <1>1, <1>2, ReturnBooks
<1>3. /\ k.op \in {"release", "drop"} /\ \A n \in k.rows : n = i
      /\ \A d \in Docs : ~IsOpen(d, i)
  BY <1>2 DEF Books, JobBooks, Control, Backing, DropPcs
<1>4. \A n \in Rows \ {i} : Kept(n)
  BY Typed DEF Kept, release_to_waiting, cancel_incoming
<1>5. ~Incoming(i)'
  <2>1. iclow[i] \in RowType
    BY Typed
  <2>2. CASE iclow' = iclow /\ ~Incoming(i)
    BY <2>2 DEF Incoming, Received
  <2>3. CASE iclow'[i] = [iclow[i] EXCEPT !.ordered = "N", !.doc = NoDoc]
    <3>1. iclow'[i].ordered = "N"
      BY <2>1, <2>3, RowFields
    <3> QED
      BY <3>1 DEF Incoming
  <2>4. CASE iclow'[i] = [iclow[i] EXCEPT !.canceled = TRUE]
    <3>1. iclow'[i].canceled
      BY <2>1, <2>4, RowFields
    <3> QED
      BY <3>1 DEF Incoming
  <2> QED
    BY <2>2, <2>3, <2>4, Typed DEF release_to_waiting, cancel_incoming
<1>6. \A d \in Docs, n \in Rows : IsOpen(d, n)' <=> IsOpen(d, n)
  BY <1>1 DEF IsOpen
<1>7. RowsAgree(Idle)'
  BY <1>2, <1>3, <1>4, <1>5, <1>6, KeptRow DEF Books, RowsAgree, Owed
<1>8. LinesAgree(Idle)'
  BY <1>2, <1>3, <1>4, <1>6, KeptRow DEF Books, LinesAgree, Closing
<1>9. OrdersAgree(Idle)'
  BY <1>1, <1>2 DEF Books, OrdersAgree, Emptied, OpenLines, IsOpen
<1> QED
  BY <1>7, <1>8, <1>9

LEMMA PostBooks ==
  ASSUME IInv, ReceiptInvs, BooksInv, NEW t \in Threads, post_vendor_receive(t)
  PROVE  BooksInv'
<1>1. UNCHANGED <<order, line, alone, crashes>> /\ ~Free(t)
  BY DEF post_vendor_receive, supabase, counters, Free
<1>2. PICK k \in JobType : k = job[t] /\ k.pc = "post"
  BY Typed DEF post_vendor_receive
<1>3. PICK j \in JobType : job' = [job EXCEPT ![t] = j] /\ j.pc = "mark"
  BY GotoWhole DEF post_vendor_receive, Pcs
<1> SUFFICES ASSUME Books(k) PROVE Books(j)'
  BY <1>1, <1>2, <1>3, StepBooks
<1>4. ASSUME NEW n \in Rows
      PROVE  /\ Incoming(n)' => Incoming(n)
             /\ iclow'[n].doc = iclow[n].doc
             /\ \A d : Agreed(d, n) => Agreed(d, n)'
  <2>1. CASE Kept(n)
    BY <2>1, KeptRow
  <2>2. CASE Incoming(n) /\ iclow'[n] = [iclow[n] EXCEPT !.got = k.takes[n]]
    <3>1. /\ iclow'[n].doc = iclow[n].doc /\ iclow'[n].ordered = iclow[n].ordered
          /\ iclow'[n].canceled = iclow[n].canceled
      BY <2>2, RowFields, Typed
    <3> QED
      BY <2>2, <3>1 DEF Agreed
  <2> QED
    BY <1>2, <2>1, <2>2 DEF post_vendor_receive, Kept
<1>5. \A d \in Docs, n \in Rows : IsOpen(d, n)' <=> IsOpen(d, n)
  BY <1>1 DEF IsOpen
<1>6. k.pc \in EvenPcs
  BY <1>2 DEF EvenPcs, Pcs, LossPcs, DropPcs
<1>7. RowsAgree(Idle) /\ LinesAgree(Idle) /\ OrdersAgree(Idle)
  BY <1>6, EvenBooks
<1>8. RowsAgree(j)' /\ LinesAgree(j)'
  BY <1>4, <1>5, <1>7, IdleFacts DEF RowsAgree, LinesAgree, Owed, Closing
<1>9. OrdersAgree(j)'
  BY <1>1, <1>7, IdleFacts DEF OrdersAgree, Emptied, OpenLines, IsOpen
<1>10. JobBooks(j)'
  BY <1>3 DEF JobBooks, Control, Unordered, MadeRows, Stamping, Voiding, Backing, LossPcs, DropPcs
<1> QED
  BY <1>8, <1>9, <1>10 DEF Books

LEMMA BooksInit == Init => BooksInv
<1> SUFFICES ASSUME Init PROVE BooksInv
  OBVIOUS
<1>1. \A d \in Docs, i \in Rows : ~IsOpen(d, i)
  BY DEF Init, IsOpen
<1>2. ASSUME NEW i \in Rows PROVE ~Incoming(i)
  <2>1. iclow[i] = [Absent EXCEPT !.there = TRUE] \/ iclow[i] = Absent
    BY DEF Init
  <2>2. PICK w : w = iclow[i]
    OBVIOUS
  <2>3. w.ordered = "N"
    BY <2>1, <2>2 DEF Absent
  <2> QED
    BY <2>2, <2>3 DEF Incoming
<1>3. \A d \in Docs : order[d] # "ordered"
  BY DEF Init
<1>4. RowsAgree(Idle) /\ LinesAgree(Idle) /\ OrdersAgree(Idle)
  BY <1>1, <1>2, <1>3 DEF RowsAgree, LinesAgree, OrdersAgree
<1>5. Books(Idle) /\ \A t \in Threads : Free(t)
  BY <1>4, IdleJob, IdleFacts DEF Books, Init, Free
<1> QED
  BY <1>5 DEF BooksInv

LEMMA BooksNext == IInv /\ ReceiptInvs /\ BooksInv /\ [Next]_vars => BooksInv'
<1> SUFFICES ASSUME IInv, ReceiptInvs, BooksInv, [Next]_vars PROVE BooksInv'
  OBVIOUS
<1>1. CASE UNCHANGED vars
  BY <1>1, SameTables DEF vars, supabase, parts9, counters
<1>2. ASSUME NEW t \in Threads, Step(t) PROVE BooksInv'
  BY <1>2, ControlBooks, DeathBooks, InsertRowsBooks, InsertOrderBooks, InsertLinesBooks,
     InsertFailsBooks, StampBooks, VoidBooks, VoidOrderBooks, CancelCreatedBooks, RevertBooks,
     LineBooks, CloseBooks, ReleaseBooks, PostBooks DEF Step
<1>3. ASSUME NEW t \in Threads, Request(t) PROVE BooksInv'
  BY <1>3, ConfirmReadBooks, CancelReadBooks, RowRequestBooks, ReceiptRequestBooks DEF Request
<1>4. ASSUME NEW i \in Rows, dismiss_waiting(i) \/ LegacyRelease(i) PROVE BooksInv'
  BY <1>4, OutsideBooks
<1>5. ASSUME NEW r \in Receipts, NEW takes \in Takes, create_receipt(r, takes) PROVE BooksInv'
  BY <1>5, SameTables DEF create_receipt, parts9, counters
<1> QED
  BY <1>1, <1>2, <1>3, <1>4, <1>5 DEF Next

\* While handlers run one after another, none dies and no answer is lost,
\* whatever errors they handle, PARTS9 and Supabase agree between handlers on which row is on which
\* order, and an open order has an open line (confirm_order, cancel_order,
\* cancel_order_line, release_incoming and drop_incoming of hq_po/service.py).
THEOREM TheBooksAgree == Spec => []BooksAgree
<1>1. BooksInv => BooksAgree
  BY IdleFacts DEF BooksInv, Books, RowsAgree, LinesAgree, OrdersAgree, Owed, Closing, Emptied,
     Agreed, BooksAgree, LossPcs, DropPcs
<1> QED
  BY <1>1, BooksInit, BooksNext, Invariance, ReceiptInvariance, PTL DEF Spec
=============================================================================
