-------------------------- MODULE Transfer_proofs --------------------------
(***************************************************************************)
(* What holds of Transfer for every set of users, products and tokens,     *)
(* whatever the bounds: for handlers that overlap and die, and, in the     *)
(* last part, for handlers that run one after another.                     *)
(***************************************************************************)
EXTENDS Transfer, FiniteSetTheorems, TLAPS

USE TransferAssumption

----------------------------------------------------------------------------
\* The inductive invariant.

Statuses == {"absent", "draft", "requested", "prepared", "received", "cancelled"}
CurPcs == {"submit.link", "receive.shipline", "receive.mark"}
PreparePcs == {"prepare.post", "prepare.shipment", "prepare.lines", "prepare.bump"}
ReceivePcs == {"receive.post", "receive.receipt", "receive.line",
               "receive.shipline", "receive.mark", "receive.posted"}
OtherPcs == {"idle", "edit.delete", "edit.insert", "submit.write", "submit.stamp",
             "submit.link", "submit.undo", "refresh.read", "refresh.write",
             "cancel.revert", "cancel.write"}
Pcs == PreparePcs \cup ReceivePcs \cup OtherPcs

Rows == [id : 0..MaxEdits, req : 0..MaxQty, prep : 0..MaxQty, recv : 0..MaxQty,
         link : BOOLEAN]
Ships == [made : BOOLEAN, qty : Quantity, got : Quantity, posted : BOOLEAN]
JobType == [pc : Pcs, tok : Tokens \cup {NoToken}, sid : Tokens \cup {NoToken},
            want : Quantity, ids : [Lines -> 0..MaxEdits], left : SUBSET Lines,
            cur : Lines \cup {NoLine}, marks : SUBSET Lines, seen : Statuses]

\* What a handler carries: a product in hand where it works on one, its
\* client_token, and the shipment it receives.
JobOK(j) ==
  /\ j \in JobType
  /\ j.pc \in CurPcs => j.cur \in Lines
  /\ j.pc \in PreparePcs \cup ReceivePcs => j.tok \in Tokens
  /\ j.pc \in ReceivePcs => j.sid \in Tokens

JobsOK == job \in [Users -> JobType] /\ \A u \in Users : JobOK(job[u])

\* The guarded UPDATEs: each counter of a row is bounded by the one before it.
RowsNested == \A l \in Lines :
  line[l].recv <= line[l].prep /\ line[l].prep <= line[l].req
ShipsNested == \A t \in Tokens, l \in Lines : ship[t].got[l] <= ship[t].qty[l]

IInv == TypeOK /\ JobsOK /\ RowsNested /\ ShipsNested

----------------------------------------------------------------------------
\* The pieces of state.

LEMMA IdleFacts == Idle \in JobType /\ Idle.pc = "idle" /\ JobOK(Idle)
BY DEF Idle, JobType, JobOK, None, Quantity, Statuses, Pcs, OtherPcs, CurPcs,
       PreparePcs, ReceivePcs

LEMMA RowFacts == NoRow \in Rows /\ NoRow.recv = 0 /\ NoRow.prep = 0 /\ NoRow.req = 0
BY DEF NoRow, Rows

LEMMA ShipFacts == /\ None \in Quantity /\ NoShip \in Ships
                   /\ \A l \in Lines : NoShip.got[l] = 0 /\ NoShip.qty[l] = 0
BY DEF NoShip, Ships, None, Quantity

\* A handler's next step leaves the others' jobs alone.
LEMMA GoStep ==
  ASSUME JobsOK, NEW u \in Users, NEW j, JobOK(j), Go(u, j)
  PROVE  JobsOK'
BY DEF JobsOK, JobOK, Go

LEMMA ReturnStep ==
  ASSUME JobsOK, NEW u \in Users, Return(u)
  PROVE  JobsOK'
BY GoStep, IdleFacts DEF Return

LEMMA GotoStep ==
  ASSUME JobsOK, NEW u \in Users, NEW pc \in Pcs, Goto(u, pc),
         pc \in CurPcs => job[u].cur \in Lines,
         pc \in PreparePcs \cup ReceivePcs => job[u].tok \in Tokens,
         pc \in ReceivePcs => job[u].sid \in Tokens
  PROVE  JobsOK'
<1> DEFINE j == [job[u] EXCEPT !.pc = pc]
<1>1. job[u] \in JobType
  BY DEF JobsOK
<1>2. JobOK(j)
  BY <1>1 DEF JobOK, JobType
<1>3. Go(u, j)
  BY <1>1 DEF Goto, Go, JobsOK
<1> QED
  BY <1>2, <1>3, GoStep

LEMMA DoneStep ==
  ASSUME JobsOK, NEW u \in Users, NEW l, NEW again \in Pcs \ CurPcs,
         NEW pc \in Pcs \ CurPcs, Done(u, l, again, pc),
         again \in PreparePcs \cup ReceivePcs => job[u].tok \in Tokens,
         pc \in PreparePcs \cup ReceivePcs => job[u].tok \in Tokens,
         again \in ReceivePcs \/ pc \in ReceivePcs => job[u].sid \in Tokens
  PROVE  JobsOK'
<1> DEFINE rest == job[u].left \ {l}
           j1 == [job[u] EXCEPT !.pc = again, !.left = rest, !.cur = NoLine]
           j2 == [job[u] EXCEPT !.pc = pc, !.left = {}, !.cur = NoLine]
<1>1. job[u] \in JobType /\ rest \in SUBSET Lines
  BY DEF JobsOK, JobType
<1>2. JobOK(j1) /\ JobOK(j2)
  BY <1>1 DEF JobOK, JobType
<1>3. Go(u, j1) \/ Go(u, Idle) \/ Go(u, j2)
  BY DEF Done
<1> QED
  BY <1>2, <1>3, GoStep, IdleFacts

LEMMA DeriveFacts ==
  ASSUME NEW header
  PROVE  derive_request_status(header)
           \in {"draft", "requested", "prepared", "received", "cancelled"}
BY DEF derive_request_status

----------------------------------------------------------------------------
\* The steps of each handler.

LEMMA InitInv == Init => IInv
<1> SUFFICES ASSUME Init PROVE IInv
  OBVIOUS
<1>1. TypeOK
  BY ShipFacts, RowFacts DEF Init, TypeOK, Rows, Ships, Quantity, None
<1>2. JobsOK
  BY IdleFacts DEF Init, JobsOK
<1>3. RowsNested /\ ShipsNested
  BY RowFacts, ShipFacts DEF Init, RowsNested, ShipsNested
<1> QED
  BY <1>1, <1>2, <1>3 DEF IInv

\* Editing or deleting a draft writes whole rows, with their counters at zero.
LEMMA EditSteps ==
  ASSUME IInv, NEW u \in Users,
         \/ \E want \in Quantity : EditRead(u, want)
         \/ EditDelete(u) \/ EditInsert(u) \/ DeleteDraft(u)
  PROVE  IInv'
<1> USE RowFacts, ShipFacts, IdleFacts
<1>0. job[u] \in JobType
  BY DEF IInv, JobsOK
<1>1. ASSUME NEW want \in Quantity, EditRead(u, want) PROVE IInv'
  <2> DEFINE j == [Idle EXCEPT !.pc = "edit.delete", !.want = want,
                               !.ids = [l \in Lines |-> edits + 1]]
  <2>1. edits + 1 \in 0..MaxEdits
    <3>1. edits \in 0..MaxEdits /\ edits < MaxEdits
      BY <1>1 DEF EditRead, IInv, TypeOK
    <3> QED
      BY <3>1
  <2>2. JobOK(j)
    BY <2>1 DEF JobOK, JobType, CurPcs, PreparePcs, ReceivePcs, OtherPcs, Pcs
  <2>3. JobsOK'
    BY <1>1, <2>2, GoStep DEF EditRead, IInv
  <2>4. TypeOK'
    BY <1>1, <2>1 DEF EditRead, IInv, TypeOK, parts9
  <2> QED
    BY <1>1, <2>3, <2>4 DEF EditRead, IInv, RowsNested, ShipsNested
<1>2. CASE EditDelete(u)
  <2>1. JobsOK'
    <3>1. CASE Body(job[u].want) = {}
      BY <1>2, <3>1, ReturnStep DEF EditDelete, IInv
    <3>2. CASE Body(job[u].want) # {}
      BY <1>2, <3>2, GotoStep
      DEF EditDelete, IInv, Pcs, OtherPcs, CurPcs, PreparePcs, ReceivePcs
    <3> QED
      BY <3>1, <3>2
  <2>2. /\ line' \in [Lines -> Rows] /\ ship' \in [Tokens -> Ships]
        /\ \A t \in Tokens, l \in Lines : ship'[t].got[l] = 0 /\ ship'[t].qty[l] = 0
    BY <1>2 DEF EditDelete, IInv, TypeOK, Ships, None
  <2>3. TypeOK'
    BY <1>2, <2>2 DEF EditDelete, IInv, TypeOK, parts9, Rows, Ships
  <2>4. RowsNested' /\ ShipsNested'
    <3>1. \A l \in Lines : line'[l] = NoRow
      BY <1>2 DEF EditDelete
    <3>2. RowsNested'
      BY <3>1 DEF RowsNested
    <3>3. ShipsNested'
      BY <2>2 DEF ShipsNested
    <3> QED
      BY <3>2, <3>3
  <2> QED
    BY <2>1, <2>3, <2>4 DEF IInv
<1>3. CASE EditInsert(u)
  <2>1. JobsOK'
    BY <1>3, ReturnStep DEF EditInsert, IInv
  <2>2. /\ line' \in [Lines -> Rows]
        /\ \A l \in Lines : line'[l] = line[l] \/ (line'[l].recv = 0 /\ line'[l].prep = 0)
    BY <1>0, <1>3 DEF EditInsert, IInv, TypeOK, Rows, NoRow, JobType, Quantity
  <2>3. TypeOK'
    BY <1>3, <2>2 DEF EditInsert, IInv, TypeOK, parts9, Rows
  <2>4. RowsNested'
    <3> SUFFICES ASSUME NEW l \in Lines
                 PROVE  line'[l].recv <= line'[l].prep /\ line'[l].prep <= line'[l].req
      BY DEF RowsNested
    <3>1. line'[l].req \in Nat
      BY <2>2 DEF Rows
    <3> QED
      BY <2>2, <3>1 DEF IInv, RowsNested
  <2>5. ShipsNested'
    BY <1>3 DEF EditInsert, IInv, ShipsNested
  <2> QED
    BY <2>1, <2>3, <2>4, <2>5 DEF IInv
<1>4. CASE DeleteDraft(u)
  <2>1. TypeOK'
    BY <1>4 DEF DeleteDraft, IInv, TypeOK, parts9, Rows, Ships
  <2>2. RowsNested' /\ ShipsNested' /\ JobsOK'
    BY <1>4 DEF DeleteDraft, IInv, RowsNested, ShipsNested, JobsOK, JobOK
  <2> QED
    BY <2>1, <2>2 DEF IInv
<1> QED
  BY <1>1, <1>2, <1>3, <1>4

LEMMA SubmitSteps ==
  ASSUME IInv, NEW u \in Users, Submit(u)
  PROVE  IInv'
<1> USE IdleFacts DEF Pcs, OtherPcs, CurPcs, PreparePcs, ReceivePcs
<1>0. job[u] \in JobType /\ JobOK(job[u]) /\ JobsOK
  BY DEF IInv, JobsOK
<1>1. CASE SubmitRead(u)
  <2> DEFINE j == [Idle EXCEPT !.pc = "submit.write", !.ids = Ids, !.left = Present]
  <2>1. Ids \in [Lines -> 0..MaxEdits] /\ Present \in SUBSET Lines
    BY DEF Ids, Present, IInv, TypeOK
  <2>2. JobOK(j)
    BY <2>1 DEF JobOK, JobType
  <2>3. JobsOK'
    BY <1>0, <1>1, <2>2, GoStep DEF SubmitRead
  <2> QED
    BY <1>1, <2>3 DEF SubmitRead, IInv, TypeOK, RowsNested, ShipsNested, supabase, parts9
<1>2. CASE SubmitWrite(u)
  <2>1. JobsOK'
    <3>1. CASE Return(u)
      BY <1>0, <3>1, ReturnStep
    <3>2. CASE Goto(u, "submit.stamp")
      BY <1>0, <3>2, GotoStep
    <3> QED
      BY <1>2, <3>1, <3>2 DEF SubmitWrite
  <2> QED
    BY <1>2, <2>1, DeriveFacts
    DEF SubmitWrite, IInv, TypeOK, RowsNested, ShipsNested, parts9
<1>3. ASSUME NEW l \in Lines, stamp_on_submit(u, l) PROVE IInv'
  <2> DEFINE j == [job[u] EXCEPT !.pc = "submit.link", !.cur = l, !.marks = @ \cup {l}]
  <2>1. JobsOK'
    <3>1. CASE Done(u, l, "submit.stamp", "idle")
      BY <1>0, <3>1, DoneStep
    <3>2. CASE Go(u, j)
      <4>1. JobOK(j)
        BY <1>0 DEF JobOK, JobType
      <4> QED
        BY <1>0, <3>2, <4>1, GoStep
    <3> QED
      BY <1>3, <3>1, <3>2 DEF stamp_on_submit
  <2> QED
    BY <1>3, <2>1
    DEF stamp_on_submit, IInv, TypeOK, RowsNested, ShipsNested, supabase, parts9
<1>4. CASE StampLink(u)
  <2>1. JobsOK'
    BY <1>0, <1>4, DoneStep DEF StampLink
  <2>2. job[u].cur \in Lines
    BY <1>0, <1>4 DEF StampLink, JobOK
  <2>3. /\ line' \in [Lines -> Rows]
        /\ \A l \in Lines : /\ line'[l].prep = line[l].prep /\ line'[l].recv = line[l].recv
                            /\ line'[l].req = line[l].req
    <3>1. StillThere(u, job[u].cur) \in BOOLEAN /\ line \in [Lines -> Rows]
      BY DEF StillThere, IInv, TypeOK, Rows
    <3>2. PICK c \in Lines, b \in BOOLEAN : line' = [line EXCEPT ![c].link = b]
      BY <1>4, <2>2, <3>1 DEF StampLink, Rows
    <3> DEFINE row == [line[c] EXCEPT !.link = b]
    <3>3. line' = [line EXCEPT ![c] = row]
      BY <3>2
    <3>4. /\ row \in Rows /\ row.prep = line[c].prep /\ row.recv = line[c].recv
          /\ row.req = line[c].req
      BY <3>1 DEF Rows
    <3> HIDE DEF row
    <3>5. line' \in [Lines -> Rows]
      BY <3>1, <3>3, <3>4
    <3>6. \A l \in Lines : line'[l] = IF l = c THEN row ELSE line[l]
      BY <3>1, <3>3
    <3> QED
      BY <3>4, <3>5, <3>6, Zenon
  <2> QED
    BY <1>4, <2>1, <2>3 DEF StampLink, IInv, TypeOK, RowsNested, ShipsNested, parts9, Rows
<1>5. CASE StampFails(u)
  <2> DEFINE j == [job[u] EXCEPT !.pc = "submit.undo", !.left = job[u].marks]
  <2>1. JobOK(j)
    <3>1. j \in JobType /\ j.pc = "submit.undo"
      BY <1>0 DEF JobType
    <3> QED
      BY <3>1 DEF JobOK
  <2>2. JobsOK'
    BY <1>0, <1>5, <2>1, GoStep, ReturnStep DEF StampFails
  <2> QED
    BY <1>5, <2>2 DEF StampFails, IInv, TypeOK, RowsNested, ShipsNested, supabase, parts9
<1>6. ASSUME NEW l \in Lines, StampUndo(u, l) PROVE IInv'
  <2>1. JobsOK'
    BY <1>0, <1>6, DoneStep DEF StampUndo
  <2> QED
    BY <1>6, <2>1 DEF StampUndo, revert_on_cancel, IInv, TypeOK, RowsNested, ShipsNested,
                      supabase, parts9
<1> QED
  BY <1>1, <1>2, <1>3, <1>4, <1>5, <1>6 DEF Submit

LEMMA PrepareSteps ==
  ASSUME IInv, NEW u \in Users, Prepare(u)
  PROVE  IInv'
<1> USE IdleFacts DEF Pcs, OtherPcs, CurPcs, PreparePcs, ReceivePcs
<1>0. job[u] \in JobType /\ JobOK(job[u]) /\ JobsOK
  BY DEF IInv, JobsOK
<1>1. ASSUME NEW t \in Tokens, NEW want \in Quantity, PrepareRead(u, t, want) PROVE IInv'
  <2> DEFINE j == [Idle EXCEPT !.pc = "prepare.post", !.tok = t, !.want = want,
                               !.ids = Ids, !.left = Body(want)]
  <2>1. Ids \in [Lines -> 0..MaxEdits] /\ Body(want) \in SUBSET Lines
    BY DEF Ids, Body, IInv, TypeOK
  <2>2. JobOK(j)
    BY <2>1 DEF JobOK, JobType
  <2>3. JobsOK'
    BY <1>0, <1>1, <2>2, GoStep DEF PrepareRead
  <2> QED
    BY <1>1, <2>3 DEF PrepareRead, IInv, TypeOK, RowsNested, ShipsNested, supabase, parts9
<1>2. CASE post_transfer_ship(u)
  <2>1. JobsOK'
    <3>1. job[u].tok \in Tokens
      BY <1>0, <1>2 DEF JobOK, post_transfer_ship
    <3>2. CASE Goto(u, "prepare.lines")
      BY <1>0, <3>1, <3>2, GotoStep
    <3>3. CASE Goto(u, "prepare.shipment")
      BY <1>0, <3>1, <3>3, GotoStep
    <3> QED
      BY <1>2, <3>2, <3>3 DEF post_transfer_ship
  <2>2. shipped' \in [Lines -> Nat] /\ bills' \in Nat
    BY <1>0, <1>2 DEF post_transfer_ship, Plus, IInv, TypeOK, JobType, Quantity
  <2> QED
    BY <1>2, <2>1, <2>2
    DEF post_transfer_ship, IInv, TypeOK, RowsNested, ShipsNested, supabase
<1>3. CASE create_shipment(u)
  <2>1. job[u].tok \in Tokens
    BY <1>0, <1>3 DEF JobOK, create_shipment
  <2>2. JobsOK'
    <3>1. CASE Return(u)
      BY <1>0, <3>1, ReturnStep
    <3>2. CASE Goto(u, "prepare.lines")
      BY <1>0, <2>1, <3>2, GotoStep
    <3> QED
      BY <1>3, <3>1, <3>2 DEF create_shipment
  <2>3. /\ ship' \in [Tokens -> Ships]
        /\ \A t \in Tokens : ship'[t].got = ship[t].got /\ ship'[t].qty = ship[t].qty
    <3>1. ship \in [Tokens -> Ships]
      BY DEF IInv, TypeOK, Ships
    <3>2. CASE ship' = [ship EXCEPT ![job[u].tok].made = TRUE]
      BY <2>1, <3>1, <3>2 DEF Ships
    <3> QED
      BY <1>3, <3>1, <3>2 DEF create_shipment
  <2> QED
    BY <1>3, <2>2, <2>3
    DEF create_shipment, IInv, TypeOK, RowsNested, ShipsNested, parts9, Ships
<1>4. CASE add_shipment_lines(u)
  <2>1. job[u].tok \in Tokens /\ job[u].want \in Quantity
    BY <1>0, <1>4 DEF JobOK, JobType, add_shipment_lines
  <2>2. JobsOK'
    <3>1. CASE Return(u)
      BY <1>0, <3>1, ReturnStep
    <3>2. CASE Goto(u, "prepare.bump")
      BY <1>0, <2>1, <3>2, GotoStep
    <3> QED
      BY <1>4, <3>1, <3>2 DEF add_shipment_lines
  <2>3. CASE ship' = ship
    BY <1>4, <2>2, <2>3 DEF add_shipment_lines, IInv, TypeOK, RowsNested, ShipsNested, parts9
  <2>4. CASE /\ ~HasLines(job[u].tok)
             /\ ship' = [ship EXCEPT ![job[u].tok].qty = job[u].want]
    <3>1. \A l \in Lines : ship[job[u].tok].qty[l] = 0
      BY <2>1, <2>4 DEF HasLines, IInv, TypeOK, Quantity
    <3>2. \A l \in Lines : ship[job[u].tok].got[l] = 0
      BY <2>1, <3>1 DEF IInv, ShipsNested, TypeOK, Quantity
    <3>3. ship' \in [Tokens -> Ships]
      BY <2>1, <2>4 DEF IInv, TypeOK, Ships
    <3>4. ShipsNested'
      <4> SUFFICES ASSUME NEW t \in Tokens, NEW l \in Lines
                   PROVE  ship'[t].got[l] <= ship'[t].qty[l]
        BY DEF ShipsNested
      <4>1. CASE t = job[u].tok
        BY <2>1, <2>4, <3>2, <4>1 DEF IInv, TypeOK, Quantity
      <4>2. CASE t # job[u].tok
        BY <2>1, <2>4, <4>2 DEF IInv, TypeOK, ShipsNested
      <4> QED
        BY <4>1, <4>2
    <3> QED
      BY <1>4, <2>2, <3>3, <3>4 DEF add_shipment_lines, IInv, TypeOK, RowsNested, parts9, Ships
  <2> QED
    BY <1>4, <2>3, <2>4 DEF add_shipment_lines
<1>5. ASSUME NEW l \in Lines, bump_line_prepared(u, l) PROVE IInv'
  <2>1. JobsOK'
    <3>1. CASE Return(u)
      BY <1>0, <3>1, ReturnStep
    <3>2. CASE Done(u, l, "prepare.bump", "refresh.read")
      <4>1. job[u].tok \in Tokens
        BY <1>0, <1>5 DEF JobOK, bump_line_prepared
      <4> QED
        BY <1>0, <3>2, <4>1, DoneStep
    <3> QED
      BY <1>5, <3>1, <3>2 DEF bump_line_prepared
  <2>2. line' \in [Lines -> Rows] /\ RowsNested'
    <3>1. job[u].want[l] \in 0..MaxQty /\ line \in [Lines -> Rows]
      BY <1>0 DEF JobType, Quantity, IInv, TypeOK, Rows
    <3>2. CASE line' = line
      BY <3>1, <3>2 DEF IInv, RowsNested
    <3>3. CASE /\ line[l].prep + job[u].want[l] <= line[l].req
               /\ line' = [line EXCEPT ![l].prep = @ + job[u].want[l]]
      <4>1. line[l].prep + job[u].want[l] \in 0..MaxQty
        BY <3>1, <3>3 DEF Rows
      <4> QED
        BY <3>1, <3>3, <4>1 DEF Rows, IInv, RowsNested
    <3> QED
      BY <1>5, <3>2, <3>3 DEF bump_line_prepared
  <2> QED
    BY <1>5, <2>1, <2>2 DEF bump_line_prepared, IInv, TypeOK, ShipsNested, parts9, Rows
<1> QED
  BY <1>1, <1>2, <1>3, <1>4, <1>5 DEF Prepare
LEMMA ReceiveSteps ==
  ASSUME IInv, NEW u \in Users, Receive(u)
  PROVE  IInv'
<1> USE IdleFacts DEF Pcs, OtherPcs, CurPcs, PreparePcs, ReceivePcs
<1>0. job[u] \in JobType /\ JobOK(job[u]) /\ JobsOK
  BY DEF IInv, JobsOK
<1>1. ASSUME NEW s \in Tokens, NEW t \in Tokens, NEW want \in Quantity,
             ReceiveRead(u, s, t, want)
      PROVE  IInv'
  <2> DEFINE marks == {l \in Body(want) : Stamping /\ line[l].link}
             j == [Idle EXCEPT !.pc = "receive.post", !.tok = t, !.sid = s,
                               !.want = want, !.ids = Ids, !.left = Body(want),
                               !.marks = marks]
  <2>1. Ids \in [Lines -> 0..MaxEdits] /\ Body(want) \in SUBSET Lines
        /\ marks \in SUBSET Lines
    BY DEF Ids, Body, IInv, TypeOK
  <2>2. JobOK(j)
    BY <2>1 DEF JobOK, JobType
  <2>3. JobsOK'
    BY <1>0, <1>1, <2>2, GoStep DEF ReceiveRead
  <2> QED
    BY <1>1, <2>3 DEF ReceiveRead, IInv, TypeOK, RowsNested, ShipsNested, supabase, parts9
<1>2. CASE post_transfer_receive(u)
  <2>1. JobsOK'
    <3>1. job[u].tok \in Tokens /\ job[u].sid \in Tokens
      BY <1>0, <1>2 DEF JobOK, post_transfer_receive
    <3>2. CASE Return(u)
      BY <1>0, <3>2, ReturnStep
    <3>3. CASE Goto(u, "receive.receipt")
      BY <1>0, <3>1, <3>3, GotoStep
    <3> QED
      BY <1>2, <3>2, <3>3 DEF post_transfer_receive
  <2>2. taken' \in [Lines -> Nat]
    BY <1>0, <1>2 DEF post_transfer_receive, Plus, IInv, TypeOK, JobType, Quantity
  <2> QED
    BY <1>2, <2>1, <2>2
    DEF post_transfer_receive, IInv, TypeOK, RowsNested, ShipsNested, supabase
<1>3. CASE create_receipt(u)
  <2>1. job[u].tok \in Tokens /\ job[u].sid \in Tokens
    BY <1>0, <1>3 DEF JobOK, create_receipt
  <2>2. JobsOK'
    <3>1. CASE Return(u)
      BY <1>0, <3>1, ReturnStep
    <3>2. CASE Goto(u, "receive.line")
      BY <1>0, <2>1, <3>2, GotoStep
    <3> QED
      BY <1>3, <3>1, <3>2 DEF create_receipt
  <2>3. receipts' \subseteq Tokens
    BY <1>3, <2>1 DEF create_receipt, IInv, TypeOK
  <2> QED
    BY <1>3, <2>2, <2>3 DEF create_receipt, IInv, TypeOK, RowsNested, ShipsNested, parts9
<1>4. ASSUME NEW l \in Lines, bump_line_received(u, l) PROVE IInv'
  <2> DEFINE j == [job[u] EXCEPT !.pc = "receive.shipline", !.cur = l]
  <2>1. JobsOK'
    <3>1. CASE Return(u)
      BY <1>0, <3>1, ReturnStep
    <3>2. CASE Go(u, j)
      <4>1. job[u].tok \in Tokens /\ job[u].sid \in Tokens
        BY <1>0, <1>4 DEF JobOK, bump_line_received
      <4>2. JobOK(j)
        BY <1>0, <4>1 DEF JobOK, JobType
      <4> QED
        BY <1>0, <3>2, <4>2, GoStep
    <3> QED
      BY <1>4, <3>1, <3>2 DEF bump_line_received
  <2>2. line' \in [Lines -> Rows] /\ RowsNested'
    <3>1. job[u].want[l] \in 0..MaxQty /\ line \in [Lines -> Rows]
      BY <1>0 DEF JobType, Quantity, IInv, TypeOK, Rows
    <3>2. CASE line' = line
      BY <3>1, <3>2 DEF IInv, RowsNested
    <3>3. CASE /\ line[l].recv + job[u].want[l] <= line[l].prep
               /\ line' = [line EXCEPT ![l].recv = @ + job[u].want[l]]
      <4>1. line[l].recv + job[u].want[l] \in 0..MaxQty
        BY <3>1, <3>3 DEF Rows
      <4> QED
        BY <3>1, <3>3, <4>1 DEF Rows, IInv, RowsNested
    <3> QED
      BY <1>4, <3>2, <3>3 DEF bump_line_received
  <2> QED
    BY <1>4, <2>1, <2>2 DEF bump_line_received, IInv, TypeOK, ShipsNested, parts9, Rows
<1>5. CASE bump_shipment_line_received(u)
  <2> DEFINE l == job[u].cur
             s == job[u].sid
  <2>1. l \in Lines /\ s \in Tokens /\ job[u].tok \in Tokens
    BY <1>0, <1>5 DEF JobOK, bump_shipment_line_received
  <2>2. JobsOK'
    <3>1. CASE Return(u)
      BY <1>0, <3>1, ReturnStep
    <3>2. CASE Goto(u, "receive.mark")
      BY <1>0, <2>1, <3>2, GotoStep
    <3>3. CASE Done(u, l, "receive.line", "receive.posted")
      BY <1>0, <2>1, <3>3, DoneStep
    <3> QED
      BY <1>5, <3>1, <3>2, <3>3 DEF bump_shipment_line_received
  <2>3. ship' \in [Tokens -> Ships] /\ ShipsNested'
    <3>1. job[u].want[l] \in 0..MaxQty /\ ship \in [Tokens -> Ships]
      BY <1>0, <2>1 DEF JobType, Quantity, IInv, TypeOK, Ships
    <3>2. CASE ship' = ship
      BY <3>1, <3>2 DEF IInv, ShipsNested
    <3>3. CASE /\ ship[s].got[l] + job[u].want[l] <= ship[s].qty[l]
               /\ ship' = [ship EXCEPT ![s].got[l] = @ + job[u].want[l]]
      <4>1. ship[s].got[l] + job[u].want[l] \in 0..MaxQty
        BY <2>1, <3>1, <3>3 DEF Ships, Quantity
      <4>2. ship' \in [Tokens -> Ships]
        BY <2>1, <3>1, <3>3, <4>1 DEF Ships, Quantity
      <4>3. ShipsNested'
        <5> SUFFICES ASSUME NEW t \in Tokens, NEW m \in Lines
                     PROVE  ship'[t].got[m] <= ship'[t].qty[m]
          BY DEF ShipsNested
        <5>1. ship[t].got[m] <= ship[t].qty[m]
          BY DEF IInv, ShipsNested
        <5>2. CASE t = s /\ m = l
          BY <2>1, <3>1, <3>3, <5>2 DEF Ships, Quantity
        <5>3. CASE t # s \/ m # l
          BY <2>1, <3>1, <3>3, <5>1, <5>3 DEF Ships, Quantity
        <5> QED
          BY <5>2, <5>3
      <4> QED
        BY <4>2, <4>3
    <3> QED
      BY <1>5, <3>2, <3>3 DEF bump_shipment_line_received
  <2> QED
    BY <1>5, <2>2, <2>3
    DEF bump_shipment_line_received, IInv, TypeOK, RowsNested, parts9, Ships
<1>6. CASE mark_received(u)
  <2>1. JobsOK'
    <3>1. job[u].tok \in Tokens /\ job[u].sid \in Tokens
      BY <1>0, <1>6 DEF JobOK, mark_received
    <3> QED
      BY <1>0, <1>6, <3>1, DoneStep DEF mark_received
  <2> QED
    BY <1>6, <2>1
    DEF mark_received, IInv, TypeOK, RowsNested, ShipsNested, supabase, parts9
<1>7. CASE ReceivePosted(u)
  <2>1. job[u].sid \in Tokens
    BY <1>0, <1>7 DEF JobOK, ReceivePosted
  <2>2. JobsOK'
    BY <1>0, <1>7, GotoStep DEF ReceivePosted
  <2>3. /\ ship' \in [Tokens -> Ships]
        /\ \A t \in Tokens : ship'[t].got = ship[t].got /\ ship'[t].qty = ship[t].qty
    <3>1. ship \in [Tokens -> Ships]
      BY DEF IInv, TypeOK, Ships
    <3>2. shipment_lines_fully_received(job[u].sid) \in BOOLEAN
      BY DEF shipment_lines_fully_received, HasLines
    <3> QED
      BY <1>7, <2>1, <3>1, <3>2 DEF ReceivePosted, Ships
  <2> QED
    BY <1>7, <2>2, <2>3
    DEF ReceivePosted, IInv, TypeOK, RowsNested, ShipsNested, parts9, Ships
<1> QED
  BY <1>1, <1>2, <1>3, <1>4, <1>5, <1>6, <1>7 DEF Receive

LEMMA RefreshCancelSteps ==
  ASSUME IInv, NEW u \in Users, Refresh(u) \/ Cancel(u) \/ Abort(u)
  PROVE  IInv'
<1> USE IdleFacts DEF Pcs, OtherPcs, CurPcs, PreparePcs, ReceivePcs
<1>0. job[u] \in JobType /\ JobOK(job[u]) /\ JobsOK
  BY DEF IInv, JobsOK
<1>1. CASE RefreshRead(u)
  <2> DEFINE j == [Idle EXCEPT !.pc = "refresh.write",
                               !.seen = derive_request_status(status)]
  <2>1. JobOK(j)
    BY DeriveFacts DEF JobOK, JobType, Statuses
  <2>2. JobsOK'
    BY <1>0, <1>1, <2>1, GoStep DEF RefreshRead
  <2> QED
    BY <1>1, <2>2 DEF RefreshRead, IInv, TypeOK, RowsNested, ShipsNested, supabase, parts9
<1>2. CASE RefreshWrite(u)
  <2>1. JobsOK'
    BY <1>0, <1>2, ReturnStep DEF RefreshWrite
  <2>2. job[u].seen \in Statuses
    BY <1>0 DEF JobType
  <2> QED
    BY <1>2, <2>1, <2>2
    DEF RefreshWrite, IInv, TypeOK, RowsNested, ShipsNested, parts9, Statuses
<1>3. CASE CancelRead(u)
  <2> DEFINE linked == {l \in Lines : Stamping /\ line[l].link}
             j == [Idle EXCEPT !.left = linked,
                     !.pc = IF linked = {} THEN "cancel.write" ELSE "cancel.revert"]
  <2>1. JobOK(j)
    BY DEF JobOK, JobType
  <2>2. JobsOK'
    BY <1>0, <1>3, <2>1, GoStep DEF CancelRead
  <2> QED
    BY <1>3, <2>2 DEF CancelRead, IInv, TypeOK, RowsNested, ShipsNested, supabase, parts9
<1>4. ASSUME NEW l \in Lines, CancelRevert(u, l) PROVE IInv'
  <2>1. JobsOK'
    BY <1>0, <1>4, DoneStep DEF CancelRevert
  <2> QED
    BY <1>4, <2>1 DEF CancelRevert, revert_on_cancel, IInv, TypeOK, RowsNested,
                      ShipsNested, supabase, parts9
<1>5. CASE cancel_request(u)
  <2>1. JobsOK'
    BY <1>0, <1>5, ReturnStep DEF cancel_request
  <2> QED
    BY <1>5, <2>1 DEF cancel_request, IInv, TypeOK, RowsNested, ShipsNested, parts9
<1>6. CASE Abort(u)
  <2>1. JobsOK'
    BY <1>0, <1>6, ReturnStep DEF Abort
  <2>2. aborts' \in 0..MaxAborts
    <3>1. aborts \in 0..MaxAborts
      BY DEF IInv, TypeOK
    <3> QED
      BY <1>6, <3>1 DEF Abort
  <2> QED
    BY <1>6, <2>1, <2>2 DEF Abort, IInv, TypeOK, RowsNested, ShipsNested, supabase, parts9
<1> QED
  BY <1>1, <1>2, <1>3, <1>4, <1>5, <1>6 DEF Refresh, Cancel

----------------------------------------------------------------------------
\* The theorems.

LEMMA Inductive == IInv /\ [Next]_vars => IInv'
<1> SUFFICES ASSUME IInv, [Next]_vars PROVE IInv'
  OBVIOUS
<1>1. ASSUME NEW u \in Users, Draft(u) PROVE IInv'
  BY <1>1, EditSteps DEF Draft
<1>2. ASSUME NEW u \in Users, \/ Submit(u) \/ Prepare(u) \/ Receive(u)
                              \/ Refresh(u) \/ Cancel(u) \/ Abort(u)
      PROVE  IInv'
  BY <1>2, SubmitSteps, PrepareSteps, ReceiveSteps, RefreshCancelSteps
<1>3. CASE UNCHANGED vars
  BY <1>3 DEF vars, IInv, TypeOK, JobsOK, JobOK, RowsNested, ShipsNested
<1> QED
  BY <1>1, <1>2, <1>3 DEF Next

\* Every column and every handler's record keeps its type: the quantities never
\* leave 0..MaxQty, so the guarded UPDATEs are the only thing that limits them.
THEOREM TypeCorrect == Spec => []TypeOK
<1>1. IInv => TypeOK
  BY DEF IInv
<1> QED
  BY InitInv, Inductive, <1>1, PTL DEF Spec

\* On every line received <= prepared <= requested, and on every shipment line
\* received <= shipped, whoever runs what together, whatever dies in between and
\* whichever client_tokens are repeated: the WHERE clause of each UPDATE is
\* enough by itself, although the handlers check on a row read earlier.
THEOREM CountersNested == Spec => [](RowsNested /\ ShipsNested)
<1>1. IInv => RowsNested /\ ShipsNested
  BY DEF IInv
<1> QED
  BY InitInv, Inductive, <1>1, PTL DEF Spec

----------------------------------------------------------------------------
(***************************************************************************)
(* A shipment marked posted has nothing left to receive, for every set of  *)
(* users, products and tokens, when each call has a token of its own.      *)
(***************************************************************************)

\* The inductive invariant: a token belongs to one handler, and until that
\* handler has written the lines of its shipment nobody has marked it posted.

Unshipped == {"prepare.post", "prepare.shipment", "prepare.lines"}
Blank(t) == ~ship[t].posted /\ \A l \in Lines : ship[t].qty[l] = 0

HeldUsed == \A u \in Users : job[u].tok # NoToken => job[u].tok \in used
HeldApart == \A u, v \in Users :
  u # v /\ job[u].tok # NoToken => job[u].tok # job[v].tok
UnusedBlank == \A t \in Tokens : t \notin used => Blank(t)
UnshippedBlank == \A u \in Users : job[u].pc \in Unshipped => Blank(job[u].tok)

FreshInv == /\ HeldUsed /\ HeldApart /\ UnusedBlank /\ UnshippedBlank
            /\ PostedIsComplete

\* The next job of u works on the same token or on none, and it has not gone
\* back before the lines of its shipment.
Moves(u) == \E j : /\ Go(u, j)
                   /\ j.tok \in {job[u].tok, NoToken}
                   /\ j.pc \in Unshipped => /\ job[u].pc \in Unshipped
                                            /\ j.tok = job[u].tok

----------------------------------------------------------------------------
LEMMA IdleToken == Idle.tok = NoToken /\ Idle.pc \notin Unshipped
BY DEF Idle, Unshipped

LEMMA ReturnMoves ==
  ASSUME NEW u \in Users, Return(u)
  PROVE  Moves(u)
BY IdleToken DEF Return, Moves

LEMMA GotoMoves ==
  ASSUME JobsOK, NEW u \in Users, NEW pc, Goto(u, pc),
         pc \in Unshipped => job[u].pc \in Unshipped
  PROVE  Moves(u)
<1> DEFINE j == [job[u] EXCEPT !.pc = pc]
<1>1. job[u] \in JobType
  BY DEF JobsOK
<1>2. Go(u, j)
  BY <1>1 DEF Goto, Go, JobsOK
<1>3. j.tok = job[u].tok /\ j.pc = pc
  BY <1>1 DEF JobType
<1> QED
  BY <1>2, <1>3 DEF Moves

LEMMA DoneMoves ==
  ASSUME JobsOK, NEW u \in Users, NEW l, NEW again, NEW pc, Done(u, l, again, pc),
         again \notin Unshipped, pc \notin Unshipped
  PROVE  Moves(u)
<1> DEFINE rest == job[u].left \ {l}
           j1 == [job[u] EXCEPT !.pc = again, !.left = rest, !.cur = NoLine]
           j2 == [job[u] EXCEPT !.pc = pc, !.left = {}, !.cur = NoLine]
<1>1. job[u] \in JobType
  BY DEF JobsOK
<1>2. /\ j1.tok = job[u].tok /\ j1.pc = again
      /\ j2.tok = job[u].tok /\ j2.pc = pc
  BY <1>1 DEF JobType
<1>3. Go(u, j1) \/ Go(u, Idle) \/ Go(u, j2)
  BY DEF Done
<1> QED
  BY <1>2, <1>3, IdleToken DEF Moves

\* A step that moves one job and fills no blank shipment.
LEMMA MovesKeep ==
  ASSUME IInv, FreshInv, NEW u \in Users, Moves(u), used' = used,
         \A t \in Tokens : Blank(t) => Blank(t)', PostedIsComplete'
  PROVE  FreshInv'
<1>1. PICK j : /\ Go(u, j) /\ j.tok \in {job[u].tok, NoToken}
               /\ j.pc \in Unshipped => /\ job[u].pc \in Unshipped
                                        /\ j.tok = job[u].tok
  BY DEF Moves
<1>2. /\ job'[u] = j
      /\ \A v \in Users : v # u => job'[v] = job[v]
  BY <1>1 DEF Go, IInv, JobsOK
<1>3. HeldUsed' /\ HeldApart'
  BY <1>1, <1>2 DEF FreshInv, HeldUsed, HeldApart
<1>4. UnusedBlank'
  BY DEF FreshInv, UnusedBlank
<1>5. UnshippedBlank'
  <2> SUFFICES ASSUME NEW v \in Users, job'[v].pc \in Unshipped
               PROVE  Blank(job[v].tok)'
    BY DEF UnshippedBlank
  <2>1. job[v].pc \in Unshipped /\ job'[v].tok = job[v].tok
    BY <1>1, <1>2
  <2>2. job[v].tok \in Tokens
    BY <2>1 DEF IInv, JobsOK, JobOK, Unshipped, PreparePcs
  <2>3. Blank(job[v].tok)
    BY <2>1 DEF FreshInv, UnshippedBlank
  <2>4. ~ship'[job[v].tok].posted /\ \A l \in Lines : ship'[job[v].tok].qty[l] = 0
    BY <2>2, <2>3 DEF Blank
  <2> QED
    BY <2>1, <2>4 DEF Blank
<1> QED
  BY <1>3, <1>4, <1>5 DEF FreshInv

\* The same for a step that leaves the shipments alone.
LEMMA MovesOnly ==
  ASSUME IInv, FreshInv, NEW u \in Users, Moves(u), used' = used, ship' = ship
  PROVE  FreshInv'
BY MovesKeep DEF FreshInv, Blank, PostedIsComplete

\* A step that starts a handler with a token nobody has used.
LEMMA StartKeeps ==
  ASSUME IInv, FreshInv, NEW u \in Users, NEW t \in Tokens, t \notin used,
         used' = used \cup {t}, NEW j, j.tok = t, Go(u, j), ship' = ship
  PROVE  FreshInv'
<1>1. /\ job'[u] = j
      /\ \A v \in Users : v # u => job'[v] = job[v]
  BY DEF Go, IInv, JobsOK
<1>2. HeldUsed'
  BY <1>1 DEF FreshInv, HeldUsed
<1>3. HeldApart'
  BY <1>1 DEF FreshInv, HeldUsed, HeldApart
<1>4. UnusedBlank' /\ PostedIsComplete'
  BY DEF FreshInv, UnusedBlank, Blank, PostedIsComplete
<1>5. UnshippedBlank'
  <2> SUFFICES ASSUME NEW v \in Users, job'[v].pc \in Unshipped
               PROVE  Blank(job[v].tok)'
    BY DEF UnshippedBlank
  <2>1. CASE v = u
    <3>1. Blank(t)
      BY DEF FreshInv, UnusedBlank
    <3> QED
      BY <1>1, <2>1, <3>1 DEF Blank
  <2>2. CASE v # u
    BY <1>1, <2>2 DEF FreshInv, UnshippedBlank, Blank
  <2> QED
    BY <2>1, <2>2
<1> QED
  BY <1>2, <1>3, <1>4, <1>5 DEF FreshInv

----------------------------------------------------------------------------
\* The steps of each handler.

LEMMA FreshInit == Init => FreshInv
<1> SUFFICES ASSUME Init PROVE FreshInv
  OBVIOUS
<1>1. \A t \in Tokens : Blank(t) /\ ~ship[t].posted
  BY DEF Init, Blank, NoShip, None
<1>2. \A u \in Users : job[u].tok = NoToken /\ job[u].pc \notin Unshipped
  BY IdleToken DEF Init
<1> QED
  BY <1>1, <1>2 DEF FreshInv, HeldUsed, HeldApart, UnusedBlank, UnshippedBlank,
                    PostedIsComplete

LEMMA FreshEdit ==
  ASSUME IInv, FreshInv, NEW u \in Users, Draft(u)
  PROVE  FreshInv'
<1>0. JobsOK /\ ship \in [Tokens -> Ships]
  BY DEF IInv, TypeOK, Ships
<1>1. ASSUME NEW want \in Quantity, EditRead(u, want) PROVE FreshInv'
  <2> DEFINE j == [Idle EXCEPT !.pc = "edit.delete", !.want = want,
                               !.ids = [l \in Lines |-> edits + 1]]
  <2>1. Moves(u)
    <3>1. j.tok = NoToken /\ j.pc = "edit.delete"
      BY DEF Idle
    <3>2. Go(u, j)
      BY <1>1 DEF EditRead
    <3> QED
      BY <3>1, <3>2 DEF Moves, Unshipped
  <2> QED
    BY <1>1, <2>1, MovesOnly DEF EditRead
<1>2. CASE EditDelete(u)
  <2>1. Moves(u)
    BY <1>0, <1>2, ReturnMoves, GotoMoves DEF EditDelete, Unshipped
  <2>2. \A t \in Tokens : /\ ship'[t].posted = ship[t].posted
                          /\ ship'[t].qty = None /\ ship'[t].got = None
    BY <1>0, <1>2 DEF EditDelete, Ships
  <2>3. /\ \A t \in Tokens : Blank(t) => Blank(t)'
        /\ PostedIsComplete'
    BY <2>2 DEF Blank, None, PostedIsComplete
  <2> QED
    BY <1>2, <2>1, <2>3, MovesKeep DEF EditDelete
<1>3. CASE EditInsert(u)
  BY <1>3, ReturnMoves, MovesOnly DEF EditInsert
<1>4. CASE DeleteDraft(u)
  <2>1. /\ \A t \in Tokens : Blank(t)'
        /\ PostedIsComplete'
    BY <1>4 DEF DeleteDraft, Blank, NoShip, None, PostedIsComplete
  <2>2. UnshippedBlank'
    <3> SUFFICES ASSUME NEW v \in Users, job'[v].pc \in Unshipped
                 PROVE  Blank(job[v].tok)'
      BY DEF UnshippedBlank
    <3>1. job' = job /\ job'[v].tok \in Tokens
      BY <1>4 DEF DeleteDraft, IInv, JobsOK, JobOK, Unshipped, PreparePcs
    <3> QED
      BY <1>4, <3>1 DEF DeleteDraft, Blank, NoShip, None
  <2> QED
    BY <1>4, <2>1, <2>2 DEF DeleteDraft, FreshInv, HeldUsed, HeldApart, UnusedBlank
<1> QED
  BY <1>1, <1>2, <1>3, <1>4 DEF Draft

LEMMA FreshSubmit ==
  ASSUME IInv, FreshInv, NEW u \in Users, Submit(u)
  PROVE  FreshInv'
<1>0. JobsOK /\ job[u] \in JobType
  BY DEF IInv, JobsOK
<1>1. ship' = ship /\ used' = used
  BY DEF Submit, SubmitRead, SubmitWrite, StampLink, StampFails, stamp_on_submit,
         StampUndo, supabase
<1>2. Moves(u)
  <2>1. CASE SubmitRead(u)
    <3> DEFINE j == [Idle EXCEPT !.pc = "submit.write", !.ids = Ids, !.left = Present]
    <3>1. j.tok = NoToken /\ j.pc = "submit.write"
      BY DEF Idle
    <3>2. Go(u, j)
      BY <2>1 DEF SubmitRead
    <3> QED
      BY <3>1, <3>2 DEF Moves, Unshipped
  <2>2. CASE SubmitWrite(u)
    BY <1>0, <2>2, ReturnMoves, GotoMoves DEF SubmitWrite, Unshipped
  <2>3. ASSUME NEW l \in Lines, stamp_on_submit(u, l) PROVE Moves(u)
    <3>1. CASE Done(u, l, "submit.stamp", "idle")
      BY <1>0, <3>1, DoneMoves DEF Unshipped
    <3> DEFINE j == [job[u] EXCEPT !.pc = "submit.link", !.cur = l,
                                   !.marks = @ \cup {l}]
    <3>2. CASE Go(u, j)
      <4>1. j.tok = job[u].tok /\ j.pc = "submit.link"
        BY <1>0 DEF JobType
      <4> QED
        BY <3>2, <4>1 DEF Moves, Unshipped
    <3> QED
      BY <2>3, <3>1, <3>2 DEF stamp_on_submit
  <2>4. CASE StampLink(u)
    BY <1>0, <2>4, DoneMoves DEF StampLink, Unshipped
  <2>5. CASE StampFails(u)
    <3> DEFINE j == [job[u] EXCEPT !.pc = "submit.undo", !.left = job[u].marks]
    <3>1. CASE Go(u, j)
      <4>1. j.tok = job[u].tok /\ j.pc = "submit.undo"
        BY <1>0 DEF JobType
      <4> QED
        BY <3>1, <4>1 DEF Moves, Unshipped
    <3> QED
      BY <2>5, <3>1, ReturnMoves DEF StampFails
  <2>6. ASSUME NEW l \in Lines, StampUndo(u, l) PROVE Moves(u)
    BY <1>0, <2>6, DoneMoves DEF StampUndo, Unshipped
  <2> QED
    BY <2>1, <2>2, <2>3, <2>4, <2>5, <2>6 DEF Submit
<1> QED
  BY <1>1, <1>2, MovesOnly

LEMMA FreshPrepare ==
  ASSUME ~ReuseTokens, IInv, FreshInv, NEW u \in Users, Prepare(u)
  PROVE  FreshInv'
<1>0. JobsOK /\ job[u] \in JobType /\ JobOK(job[u]) /\ ship \in [Tokens -> Ships]
  BY DEF IInv, JobsOK, TypeOK, Ships
<1>1. ASSUME NEW t \in Tokens, NEW want \in Quantity, PrepareRead(u, t, want)
      PROVE  FreshInv'
  <2> DEFINE j == [Idle EXCEPT !.pc = "prepare.post", !.tok = t, !.want = want,
                               !.ids = Ids, !.left = Body(want)]
  <2>1. Go(u, j) /\ t \notin used /\ used' = used \cup {t} /\ ship' = ship
    BY <1>1 DEF PrepareRead, TokenFor, supabase
  <2>2. j.tok = t
    BY DEF Idle
  <2> QED
    BY <2>1, <2>2, StartKeeps
<1>2. CASE post_transfer_ship(u)
  <2>1. Moves(u)
    BY <1>0, <1>2, GotoMoves DEF post_transfer_ship, Unshipped
  <2> QED
    BY <1>2, <2>1, MovesOnly DEF post_transfer_ship, supabase
<1>3. CASE create_shipment(u)
  <2>1. Moves(u)
    BY <1>0, <1>3, ReturnMoves, GotoMoves DEF create_shipment, Unshipped
  <2>2. \A t \in Tokens : /\ ship'[t].posted = ship[t].posted
                          /\ ship'[t].qty = ship[t].qty /\ ship'[t].got = ship[t].got
    <3>1. job[u].tok \in Tokens
      BY <1>0, <1>3 DEF JobOK, create_shipment, PreparePcs
    <3> QED
      BY <1>0, <1>3, <3>1 DEF create_shipment, Ships
  <2>3. /\ \A t \in Tokens : Blank(t) => Blank(t)'
        /\ PostedIsComplete'
    BY <2>2 DEF Blank, PostedIsComplete, FreshInv
  <2> QED
    BY <1>3, <2>1, <2>3, MovesKeep DEF create_shipment
<1>4. CASE add_shipment_lines(u)
  <2> DEFINE t == job[u].tok
  <2>1. t \in Tokens /\ Blank(t) /\ t \in used
    BY <1>0, <1>4 DEF add_shipment_lines, JobOK, PreparePcs, Unshipped, FreshInv,
                      UnshippedBlank, HeldUsed
  <2>2. Moves(u)
    BY <1>0, <1>4, ReturnMoves, GotoMoves DEF add_shipment_lines, Unshipped
  <2>3. CASE ship' = ship
    BY <1>4, <2>2, <2>3, MovesOnly DEF add_shipment_lines
  <2>4. CASE ship' = [ship EXCEPT ![t].qty = job[u].want] /\ Goto(u, "prepare.bump")
    <3>1. \A s \in Tokens : s # t => ship'[s] = ship[s]
      BY <1>0, <2>1, <2>4
    <3>2. ~ship'[t].posted
      BY <1>0, <2>1, <2>4 DEF Ships, Blank
    <3>3. PostedIsComplete'
      BY <3>1, <3>2 DEF PostedIsComplete, FreshInv
    <3>4. /\ used' = used /\ job'[u].pc = "prepare.bump" /\ job'[u].tok = t
          /\ \A v \in Users : v # u => job'[v] = job[v]
      BY <1>0, <1>4, <2>4 DEF add_shipment_lines, Goto, JobsOK, JobType
    <3>5. HeldUsed' /\ HeldApart'
      BY <3>4 DEF FreshInv, HeldUsed, HeldApart
    <3>6. UnusedBlank'
      BY <2>1, <3>1, <3>4 DEF FreshInv, UnusedBlank, Blank
    <3>7. UnshippedBlank'
      <4> SUFFICES ASSUME NEW v \in Users, job'[v].pc \in Unshipped
                   PROVE  Blank(job[v].tok)'
        BY DEF UnshippedBlank
      <4>1. v # u /\ job'[v] = job[v]
        BY <3>4 DEF Unshipped
      <4>2. job[v].tok \in Tokens /\ Blank(job[v].tok)
        BY <4>1 DEF FreshInv, UnshippedBlank, IInv, JobsOK, JobOK, Unshipped, PreparePcs
      <4>3. job[v].tok # t
        BY <2>1, <4>1 DEF FreshInv, HeldApart
      <4>4. ship'[job[v].tok] = ship[job[v].tok]
        BY <3>1, <4>2, <4>3
      <4> QED
        BY <4>1, <4>2, <4>4 DEF Blank
    <3> QED
      BY <3>3, <3>5, <3>6, <3>7 DEF FreshInv
  <2> QED
    BY <1>4, <2>3, <2>4 DEF add_shipment_lines
<1>5. ASSUME NEW l \in Lines, bump_line_prepared(u, l) PROVE FreshInv'
  <2>1. Moves(u)
    BY <1>0, <1>5, ReturnMoves, DoneMoves DEF bump_line_prepared, Unshipped
  <2> QED
    BY <1>5, <2>1, MovesOnly DEF bump_line_prepared
<1> QED
  BY <1>1, <1>2, <1>3, <1>4, <1>5 DEF Prepare

LEMMA FreshReceive ==
  ASSUME ~ReuseTokens, IInv, FreshInv, NEW u \in Users, Receive(u)
  PROVE  FreshInv'
<1>0. JobsOK /\ job[u] \in JobType /\ JobOK(job[u]) /\ ship \in [Tokens -> Ships]
  BY DEF IInv, JobsOK, TypeOK, Ships
<1>1. ASSUME NEW s \in Tokens, NEW t \in Tokens, NEW want \in Quantity,
             ReceiveRead(u, s, t, want)
      PROVE  FreshInv'
  <2> DEFINE j == [Idle EXCEPT !.pc = "receive.post", !.tok = t, !.sid = s,
                     !.want = want, !.ids = Ids, !.left = Body(want),
                     !.marks = {l \in Body(want) : Stamping /\ line[l].link}]
  <2>1. Go(u, j) /\ t \notin used /\ used' = used \cup {t} /\ ship' = ship
    BY <1>1 DEF ReceiveRead, TokenFor, supabase
  <2>2. j.tok = t
    BY DEF Idle
  <2> QED
    BY <2>1, <2>2, StartKeeps
<1>2. CASE post_transfer_receive(u)
  <2>1. Moves(u)
    BY <1>0, <1>2, ReturnMoves, GotoMoves DEF post_transfer_receive, Unshipped
  <2> QED
    BY <1>2, <2>1, MovesOnly DEF post_transfer_receive, supabase
<1>3. CASE create_receipt(u)
  <2>1. Moves(u)
    BY <1>0, <1>3, ReturnMoves, GotoMoves DEF create_receipt, Unshipped
  <2> QED
    BY <1>3, <2>1, MovesOnly DEF create_receipt
<1>4. ASSUME NEW l \in Lines, bump_line_received(u, l) PROVE FreshInv'
  <2> DEFINE j == [job[u] EXCEPT !.pc = "receive.shipline", !.cur = l]
  <2>1. Moves(u)
    <3>1. CASE Go(u, j)
      <4>1. j.tok = job[u].tok /\ j.pc = "receive.shipline"
        BY <1>0 DEF JobType
      <4> QED
        BY <3>1, <4>1 DEF Moves, Unshipped
    <3> QED
      BY <1>4, <3>1, ReturnMoves DEF bump_line_received
  <2> QED
    BY <1>4, <2>1, MovesOnly DEF bump_line_received
<1>5. CASE bump_shipment_line_received(u)
  <2> DEFINE l == job[u].cur
             s == job[u].sid
  <2>1. l \in Lines /\ s \in Tokens /\ job[u].want[l] \in 0..MaxQty
    BY <1>0, <1>5 DEF JobOK, JobType, Quantity, CurPcs, ReceivePcs,
                      bump_shipment_line_received
  <2>2. Moves(u)
    BY <1>0, <1>5, ReturnMoves, GotoMoves, DoneMoves
    DEF bump_shipment_line_received, Unshipped
  <2>3. CASE ship' = ship
    BY <1>5, <2>2, <2>3, MovesOnly DEF bump_shipment_line_received
  <2>4. CASE /\ ship[s].got[l] + job[u].want[l] <= ship[s].qty[l]
             /\ ship' = [ship EXCEPT ![s].got[l] = @ + job[u].want[l]]
    <3>1. \A t \in Tokens : ship'[t].qty = ship[t].qty /\ ship'[t].posted = ship[t].posted
      BY <1>0, <2>1, <2>4 DEF Ships
    <3>2. \A t \in Tokens : t # s => ship'[t] = ship[t]
      BY <1>0, <2>1, <2>4
    <3>3. ASSUME ship[s].posted PROVE ship'[s].got = ship[s].got
      <4>1. ship[s].got[l] = ship[s].qty[l] /\ ship[s].got \in Quantity
        BY <1>0, <2>1, <3>3 DEF FreshInv, PostedIsComplete, Ships
      <4>2. job[u].want[l] = 0
        BY <2>1, <2>4, <4>1 DEF Quantity
      <4>3. ship'[s].got = [ship[s].got EXCEPT ![l] = @ + job[u].want[l]]
        BY <1>0, <2>1, <2>4 DEF Ships
      <4> QED
        BY <2>1, <4>1, <4>2, <4>3 DEF Quantity
    <3>4. /\ \A t \in Tokens : Blank(t) => Blank(t)'
          /\ PostedIsComplete'
      BY <3>1, <3>2, <3>3 DEF Blank, PostedIsComplete, FreshInv
    <3> QED
      BY <1>5, <2>2, <3>4, MovesKeep DEF bump_shipment_line_received
  <2> QED
    BY <1>5, <2>3, <2>4 DEF bump_shipment_line_received
<1>6. CASE mark_received(u)
  <2>1. Moves(u)
    BY <1>0, <1>6, DoneMoves DEF mark_received, Unshipped
  <2> QED
    BY <1>6, <2>1, MovesOnly DEF mark_received, supabase
<1>7. CASE ReceivePosted(u)
  <2> DEFINE s == job[u].sid
             full == shipment_lines_fully_received(s)
  <2>1. s \in Tokens /\ full \in BOOLEAN
    BY <1>0, <1>7 DEF JobOK, ReceivePosted, ReceivePcs,
                      shipment_lines_fully_received, HasLines
  <2>2. Moves(u)
    BY <1>0, <1>7, GotoMoves DEF ReceivePosted, Unshipped
  <2>3. \A t \in Tokens : /\ ship'[t].qty = ship[t].qty /\ ship'[t].got = ship[t].got
                          /\ ship'[t].posted => ship[t].posted \/ (t = s /\ full)
    BY <1>0, <1>7, <2>1 DEF ReceivePosted, Ships
  <2>4. ASSUME full PROVE ~Blank(s) /\ ship[s].got = ship[s].qty
    <3>1. /\ ship[s].got \in Quantity /\ ship[s].qty \in Quantity
          /\ \A l \in Lines : ship[s].got[l] <= ship[s].qty[l]
      BY <1>0, <2>1 DEF Ships, IInv, ShipsNested
    <3>2. \A l \in Lines : ship[s].got[l] = ship[s].qty[l]
      BY <2>4, <3>1 DEF shipment_lines_fully_received, Quantity
    <3>3. ~Blank(s)
      BY <2>4, <3>1 DEF shipment_lines_fully_received, HasLines, Blank, Quantity
    <3> QED
      BY <3>1, <3>2, <3>3 DEF Quantity
  <2>5. PostedIsComplete'
    BY <2>3, <2>4 DEF PostedIsComplete, FreshInv
  <2>6. \A t \in Tokens : Blank(t) => Blank(t)'
    BY <2>3, <2>4 DEF Blank
  <2> QED
    BY <1>7, <2>2, <2>5, <2>6, MovesKeep DEF ReceivePosted
<1> QED
  BY <1>1, <1>2, <1>3, <1>4, <1>5, <1>6, <1>7 DEF Receive

LEMMA FreshRefreshCancel ==
  ASSUME IInv, FreshInv, NEW u \in Users, Refresh(u) \/ Cancel(u) \/ Abort(u)
  PROVE  FreshInv'
<1>0. JobsOK /\ job[u] \in JobType
  BY DEF IInv, JobsOK
<1>1. ship' = ship /\ used' = used
  BY DEF Refresh, RefreshRead, RefreshWrite, Cancel, CancelRead, CancelRevert,
         cancel_request, Abort, supabase
<1>2. Moves(u)
  <2>1. CASE RefreshRead(u)
    <3> DEFINE j == [Idle EXCEPT !.pc = "refresh.write",
                                 !.seen = derive_request_status(status)]
    <3>1. j.tok = NoToken /\ j.pc = "refresh.write"
      BY DEF Idle
    <3>2. Go(u, j)
      BY <2>1 DEF RefreshRead
    <3> QED
      BY <3>1, <3>2 DEF Moves, Unshipped
  <2>2. CASE CancelRead(u)
    <3> DEFINE linked == {l \in Lines : Stamping /\ line[l].link}
               j == [Idle EXCEPT !.left = linked,
                       !.pc = IF linked = {} THEN "cancel.write" ELSE "cancel.revert"]
    <3>1. j.tok = NoToken /\ j.pc \in {"cancel.write", "cancel.revert"}
      BY DEF Idle
    <3>2. Go(u, j)
      BY <2>2 DEF CancelRead
    <3> QED
      BY <3>1, <3>2 DEF Moves, Unshipped
  <2>3. ASSUME NEW l \in Lines, CancelRevert(u, l) PROVE Moves(u)
    BY <1>0, <2>3, DoneMoves DEF CancelRevert, Unshipped
  <2>4. CASE RefreshWrite(u) \/ cancel_request(u) \/ Abort(u)
    BY <2>4, ReturnMoves DEF RefreshWrite, cancel_request, Abort
  <2> QED
    BY <2>1, <2>2, <2>3, <2>4 DEF Refresh, Cancel
<1> QED
  BY <1>1, <1>2, MovesOnly

----------------------------------------------------------------------------
LEMMA FreshInductive ==
  ASSUME ~ReuseTokens
  PROVE  IInv /\ FreshInv /\ [Next]_vars => FreshInv'
<1> SUFFICES ASSUME IInv, FreshInv, [Next]_vars PROVE FreshInv'
  OBVIOUS
<1>1. ASSUME NEW u \in Users, \/ Draft(u) \/ Submit(u) \/ Prepare(u) \/ Receive(u)
                              \/ Refresh(u) \/ Cancel(u) \/ Abort(u)
      PROVE  FreshInv'
  BY <1>1, FreshEdit, FreshSubmit, FreshPrepare, FreshReceive, FreshRefreshCancel
<1>2. CASE UNCHANGED vars
  BY <1>2 DEF vars, FreshInv, HeldUsed, HeldApart, UnusedBlank, UnshippedBlank,
              Blank, PostedIsComplete
<1> QED
  BY <1>1, <1>2 DEF Next

\* posted_at says what it seems to say: a shipment marked posted has received
\* all it carries, whoever edits, ships, receives and cancels together and
\* whatever dies in between, as long as each call has a client_token of its own
\* (api_receive marks it after it counted its own receipt, with
\* those of the others half counted).
THEOREM PostedShipmentsComplete ==
  ASSUME ~ReuseTokens
  PROVE  Spec => []PostedIsComplete
<1>1. FreshInv => PostedIsComplete
  BY DEF FreshInv
<1> QED
  BY <1>1, InitInv, FreshInit, Inductive, FreshInductive, PTL DEF Spec
-----------------------------------------------------------------------------
(***************************************************************************)
(* The sums: what Supabase counts is covered by the bills of PARTS9, and   *)
(* the counters of the shipments by those of the lines.                    *)
(***************************************************************************)
\* The row a handler read, with this id, has not been replaced.
Alive(j, l, id) == id # 0 /\ id = j.ids[l]

\* What a handler has posted in PARTS9 and has not counted yet ...
ToShip(j, l) ==
  IF j.pc \in {"prepare.shipment", "prepare.lines", "prepare.bump"} /\ l \in j.left
  THEN j.want[l] ELSE 0
ToTake(j, l) ==
  IF \/ j.pc \in {"receive.receipt", "receive.line"} /\ l \in j.left
     \/ j.pc \in {"receive.shipline", "receive.mark"} /\ l \in j.left /\ l # j.cur
  THEN j.want[l] ELSE 0
\* ... and what it has put on a shipment line or a line, and not yet on the other.
ToPrepare(j, l, id) ==
  IF j.pc = "prepare.bump" /\ l \in j.left /\ Alive(j, l, id) THEN j.want[l] ELSE 0
ToGot(j, l, id) ==
  IF j.pc = "receive.shipline" /\ l = j.cur /\ Alive(j, l, id) THEN j.want[l] ELSE 0

ShipInv == \A l \in Lines :
  line[l].prep + Total(Users, [u \in Users |-> ToShip(job[u], l)]) <= shipped[l]
TakeInv == \A l \in Lines :
  line[l].recv + Total(Users, [u \in Users |-> ToTake(job[u], l)]) <= taken[l]
PrepareInv == \A l \in Lines :
  line[l].prep + Total(Users, [u \in Users |-> ToPrepare(job[u], l, line[l].id)])
    <= Carried(l)
GotInv == \A l \in Lines :
  Got(l) + Total(Users, [u \in Users |-> ToGot(job[u], l, line[l].id)])
    <= line[l].recv
SumInv == ShipInv /\ TakeInv /\ PrepareInv /\ GotInv

\* A shipment is made once, by the handler that has its token.
MadeInv ==
  /\ \A t \in Tokens : t \notin used => ~ship[t].made
  /\ \A u \in Users : job[u].pc \in {"prepare.post", "prepare.shipment"} => ~ship[job[u].tok].made

\* A row that is replaced does not come back: the ids of an edit are its own until it has
\* inserted them.
Editing(u) == job[u].pc \in {"edit.delete", "edit.insert"}
IdsInv ==
  /\ \A l \in Lines : line[l].id <= edits /\ (line[l].id = 0 => line[l].prep = 0 /\ line[l].recv = 0)
  /\ \A u \in Users, l \in Lines : job[u].ids[l] <= edits
  /\ \A u \in Users : Editing(u) =>
       /\ \A l \in Lines : job[u].ids[l] # 0
       /\ \A l, m \in Lines : line[m].id # job[u].ids[l]
       /\ \A l, m \in Lines, v \in Users \ {u} : job[v].ids[m] # job[u].ids[l]
\* The sum of the counts of a finite set, and what one of them adds to it.
Units(S, c) == {unit \in S \X (1..MaxQty) : unit[2] <= c[unit[1]]}
Column(x, k) == {x} \X (1..k)

LEMMA TotalUnits ==
  ASSUME NEW S, IsFiniteSet(S), NEW c
  PROVE  /\ IsFiniteSet(Units(S, c)) /\ Total(S, c) = Cardinality(Units(S, c))
         /\ Total(S, c) \in Nat
<1>1. IsFiniteSet(1..MaxQty)
  BY FS_Interval
<1>2. IsFiniteSet(S \X (1..MaxQty))
  BY <1>1, FS_Product
<1>3. Units(S, c) \in SUBSET (S \X (1..MaxQty))
  BY DEF Units
<1>4. IsFiniteSet(Units(S, c))
  BY <1>2, <1>3, FS_Subset
<1> QED
  BY <1>4, FS_CardinalityType DEF Total, Units

LEMMA ColumnSize ==
  ASSUME NEW x, NEW k \in Nat
  PROVE  IsFiniteSet(Column(x, k)) /\ Cardinality(Column(x, k)) = k
<1>1. IsFiniteSet(1..k) /\ Cardinality(1..k) = k
  BY FS_Interval
<1>2. IsFiniteSet({x}) /\ Cardinality({x}) = 1
  BY FS_Singleton
<1>3. IsFiniteSet({x} \X (1..k)) /\ Cardinality({x} \X (1..k)) = 1 * k
  BY <1>1, <1>2, FS_Product
<1> QED
  BY <1>3 DEF Column

LEMMA TotalSplit ==
  ASSUME NEW S, IsFiniteSet(S), NEW c \in [S -> 0..MaxQty], NEW x \in S
  PROVE  Total(S, c) = Cardinality({unit \in Units(S, c) : unit[1] # x}) + c[x]
<1> DEFINE rest == {unit \in Units(S, c) : unit[1] # x}
           col == Column(x, c[x])
<1>1. c[x] \in Nat /\ c[x] <= MaxQty
  OBVIOUS
<1>2. IsFiniteSet(col) /\ Cardinality(col) = c[x]
  BY <1>1, ColumnSize
<1>3. IsFiniteSet(rest) /\ Cardinality(rest) \in Nat
  BY TotalUnits, FS_Subset, FS_CardinalityType
<1>4. Units(S, c) = rest \cup col
  <2>1. ASSUME NEW p \in col PROVE p \in Units(S, c)
    <3>1. PICK k \in 1..c[x] : p = <<x, k>>
      BY DEF Column
    <3>2. k \in 1..MaxQty
      BY <1>1
    <3> QED
      BY <3>1, <3>2 DEF Units
  <2>2. ASSUME NEW p \in Units(S, c), p \notin rest PROVE p \in col
    <3>1. PICK k \in 1..MaxQty : p = <<x, k>> /\ k <= c[x]
      BY <2>2 DEF Units
    <3>2. k \in 1..c[x]
      BY <1>1, <3>1
    <3> QED
      BY <3>1, <3>2 DEF Column
  <2> QED
    BY <2>1, <2>2
<1>5. rest \cap col = {}
  BY DEF Column
<1>6. Cardinality(Units(S, c)) = Cardinality(rest) + Cardinality(col) - Cardinality(rest \cap col)
  BY <1>2, <1>3, <1>4, FS_Union
<1>7. Cardinality(rest \cap col) = 0
  BY <1>5, FS_EmptySet
<1>8. Total(S, c) = Cardinality(Units(S, c))
  BY TotalUnits
<1> HIDE DEF rest, col
<1>9. Total(S, c) = Cardinality(rest) + c[x]
  BY <1>1, <1>2, <1>3, <1>6, <1>7, <1>8
<1> QED
  BY <1>9 DEF rest

\* One count changes: so does the sum.
LEMMA TotalMove ==
  ASSUME NEW S, IsFiniteSet(S), NEW c \in [S -> 0..MaxQty], NEW d \in [S -> 0..MaxQty],
         NEW x \in S, \A y \in S \ {x} : d[y] = c[y]
  PROVE  /\ Total(S, c) \in Nat /\ Total(S, d) \in Nat /\ Total(S, c) >= c[x]
         /\ Total(S, d) + c[x] = Total(S, c) + d[x]
<1> DEFINE rest(e) == {unit \in Units(S, e) : unit[1] # x}
<1>1. rest(c) = rest(d)
  BY DEF Units
<1>2. Total(S, c) = Cardinality(rest(c)) + c[x] /\ Total(S, d) = Cardinality(rest(d)) + d[x]
  BY TotalSplit
<1>3. Cardinality(rest(c)) \in Nat
  BY TotalUnits, FS_Subset, FS_CardinalityType
<1> HIDE DEF rest
<1>4. c[x] \in Nat /\ d[x] \in Nat
  OBVIOUS
<1> QED
  BY <1>1, <1>2, <1>3, <1>4

\* No count grows: nor does the sum.
LEMMA TotalLess ==
  ASSUME NEW S, IsFiniteSet(S), NEW c \in [S -> 0..MaxQty], NEW d \in [S -> 0..MaxQty],
         \A x \in S : d[x] <= c[x]
  PROVE  Total(S, d) <= Total(S, c) /\ Total(S, d) \in Nat /\ Total(S, c) \in Nat
<1>1. Units(S, d) \subseteq Units(S, c)
  BY DEF Units
<1> QED
  BY <1>1, TotalUnits, FS_Subset

LEMMA TotalZero ==
  ASSUME NEW S, IsFiniteSet(S), NEW c, \A x \in S : c[x] = 0
  PROVE  Total(S, c) = 0
<1>1. Units(S, c) = {}
  BY DEF Units
<1> QED
  BY <1>1, TotalUnits, FS_EmptySet
\* Counts that are covered stay covered, when the others owe no more and what x owes
\* makes up for what moves.
LEMMA TotalCovered ==
  ASSUME NEW S, IsFiniteSet(S), NEW c \in [S -> 0..MaxQty], NEW d \in [S -> 0..MaxQty],
         NEW x \in S, \A y \in S \ {x} : d[y] <= c[y],
         NEW a \in Nat, NEW b \in Nat, NEW m \in Nat, NEW n \in Nat,
         a + Total(S, c) <= b, m + d[x] + b <= a + c[x] + n
  PROVE  m + Total(S, d) <= n
<1> DEFINE e == [c EXCEPT ![x] = d[x]]
<1>1. e \in [S -> 0..MaxQty] /\ e[x] = d[x] /\ \A y \in S \ {x} : e[y] = c[y]
  OBVIOUS
<1>2. \A y \in S : d[y] <= e[y]
  <2> SUFFICES ASSUME NEW y \in S PROVE d[y] <= e[y]
    OBVIOUS
  <2>1. CASE y = x
    <3>1. d[x] \in 0..MaxQty
      OBVIOUS
    <3> QED
      BY <1>1, <2>1, <3>1
  <2>2. CASE y # x
    BY <1>1, <2>2
  <2> QED
    BY <2>1, <2>2
<1> HIDE DEF e
<1>3. /\ Total(S, c) \in Nat /\ Total(S, e) \in Nat
      /\ Total(S, e) + c[x] = Total(S, c) + e[x]
  BY <1>1, TotalMove
<1>4. Total(S, d) <= Total(S, e) /\ Total(S, d) \in Nat
  BY <1>1, <1>2, TotalLess
<1>5. c[x] \in Nat /\ d[x] \in Nat
  OBVIOUS
<1> QED
  BY <1>1, <1>3, <1>4, <1>5

Others(u) == \A v \in Users \ {u} : job'[v] = job[v]

LEMMA AmountTypes ==
  ASSUME NEW j \in JobType, NEW l \in Lines, NEW id
  PROVE  /\ ToShip(j, l) \in 0..MaxQty /\ ToTake(j, l) \in 0..MaxQty
         /\ ToPrepare(j, l, id) \in 0..MaxQty /\ ToGot(j, l, id) \in 0..MaxQty
<1>1. j.want[l] \in 0..MaxQty /\ 0 \in 0..MaxQty
  BY DEF JobType, Quantity
<1> QED
  BY <1>1 DEF ToShip, ToTake, ToPrepare, ToGot

LEMMA CountTypes ==
  ASSUME IInv
  PROVE  /\ \A l \in Lines : /\ line[l].prep \in Nat /\ line[l].recv \in Nat
                             /\ shipped[l] \in Nat /\ taken[l] \in Nat
                             /\ Carried(l) \in Nat /\ Got(l) \in Nat
         /\ \A u \in Users : job[u] \in JobType
<1>1. \A l \in Lines : line[l].prep \in Nat /\ line[l].recv \in Nat
  BY DEF IInv, TypeOK
<1>2. \A l \in Lines : Carried(l) \in Nat /\ Got(l) \in Nat
  BY TotalUnits DEF Carried, Got
<1> QED
  BY <1>1, <1>2 DEF IInv, TypeOK, JobsOK

LEMMA CountTypesNext ==
  ASSUME IInv'
  PROVE  /\ \A l \in Lines : /\ line'[l].prep \in Nat /\ line'[l].recv \in Nat
                             /\ shipped'[l] \in Nat /\ taken'[l] \in Nat
                             /\ Carried(l)' \in Nat /\ Got(l)' \in Nat
         /\ \A u \in Users : job'[u] \in JobType
<1>1. \A l \in Lines : line'[l].prep \in Nat /\ line'[l].recv \in Nat
  BY DEF IInv, TypeOK
<1>2. \A l \in Lines : Carried(l)' \in Nat /\ Got(l)' \in Nat
  BY TotalUnits DEF Carried, Got
<1> QED
  BY <1>1, <1>2 DEF IInv, TypeOK, JobsOK

LEMMA ShipStep ==
  ASSUME IInv, IInv', ShipInv, NEW u \in Users, Others(u),
         \A l \in Lines : line'[l].prep + ToShip(job'[u], l) + shipped[l]
                            <= line[l].prep + ToShip(job[u], l) + shipped'[l]
  PROVE  ShipInv'
<1> SUFFICES ASSUME NEW l \in Lines
             PROVE  line'[l].prep + Total(Users, [v \in Users |-> ToShip(job'[v], l)])
                      <= shipped'[l]
  BY DEF ShipInv
<1> DEFINE c == [v \in Users |-> ToShip(job[v], l)]
           d == [v \in Users |-> ToShip(job'[v], l)]
<1>1. /\ line[l].prep \in Nat /\ shipped[l] \in Nat
      /\ line'[l].prep \in Nat /\ shipped'[l] \in Nat
      /\ \A v \in Users : job[v] \in JobType /\ job'[v] \in JobType
  BY CountTypes, CountTypesNext
<1>2. c \in [Users -> 0..MaxQty] /\ d \in [Users -> 0..MaxQty]
  BY <1>1, AmountTypes
<1>3. \A v \in Users \ {u} : d[v] <= c[v]
  BY <1>2 DEF Others
<1>4. line[l].prep + Total(Users, c) <= shipped[l]
  BY DEF ShipInv
<1>5. line'[l].prep + d[u] + shipped[l] <= line[l].prep + c[u] + shipped'[l]
  OBVIOUS
<1> HIDE DEF c, d
<1>6. line'[l].prep + Total(Users, d) <= shipped'[l]
  BY <1>1, <1>2, <1>3, <1>4, <1>5, TotalCovered
<1> QED
  BY <1>6 DEF d

LEMMA TakeStep ==
  ASSUME IInv, IInv', TakeInv, NEW u \in Users, Others(u),
         \A l \in Lines : line'[l].recv + ToTake(job'[u], l) + taken[l]
                            <= line[l].recv + ToTake(job[u], l) + taken'[l]
  PROVE  TakeInv'
<1> SUFFICES ASSUME NEW l \in Lines
             PROVE  line'[l].recv + Total(Users, [v \in Users |-> ToTake(job'[v], l)])
                      <= taken'[l]
  BY DEF TakeInv
<1> DEFINE c == [v \in Users |-> ToTake(job[v], l)]
           d == [v \in Users |-> ToTake(job'[v], l)]
<1>1. /\ line[l].recv \in Nat /\ taken[l] \in Nat
      /\ line'[l].recv \in Nat /\ taken'[l] \in Nat
      /\ \A v \in Users : job[v] \in JobType /\ job'[v] \in JobType
  BY CountTypes, CountTypesNext
<1>2. c \in [Users -> 0..MaxQty] /\ d \in [Users -> 0..MaxQty]
  BY <1>1, AmountTypes
<1>3. \A v \in Users \ {u} : d[v] <= c[v]
  BY <1>2 DEF Others
<1>4. line[l].recv + Total(Users, c) <= taken[l]
  BY DEF TakeInv
<1>5. line'[l].recv + d[u] + taken[l] <= line[l].recv + c[u] + taken'[l]
  OBVIOUS
<1> HIDE DEF c, d
<1>6. line'[l].recv + Total(Users, d) <= taken'[l]
  BY <1>1, <1>2, <1>3, <1>4, <1>5, TotalCovered
<1> QED
  BY <1>6 DEF d

LEMMA PrepareStep ==
  ASSUME IInv, IInv', PrepareInv, NEW u \in Users, Others(u),
         \A l \in Lines :
           /\ \A v \in Users \ {u} : ToPrepare(job[v], l, line'[l].id)
                                       <= ToPrepare(job[v], l, line[l].id)
           /\ line'[l].prep + ToPrepare(job'[u], l, line'[l].id) + Carried(l)
                <= line[l].prep + ToPrepare(job[u], l, line[l].id) + Carried(l)'
  PROVE  PrepareInv'
<1> SUFFICES ASSUME NEW l \in Lines
             PROVE  line'[l].prep
                      + Total(Users, [v \in Users |-> ToPrepare(job'[v], l, line'[l].id)])
                    <= Carried(l)'
  BY DEF PrepareInv
<1> DEFINE c == [v \in Users |-> ToPrepare(job[v], l, line[l].id)]
           d == [v \in Users |-> ToPrepare(job'[v], l, line'[l].id)]
<1>1. /\ line[l].prep \in Nat /\ Carried(l) \in Nat
      /\ line'[l].prep \in Nat /\ Carried(l)' \in Nat
      /\ \A v \in Users : job[v] \in JobType /\ job'[v] \in JobType
  BY CountTypes, CountTypesNext
<1>2. c \in [Users -> 0..MaxQty] /\ d \in [Users -> 0..MaxQty]
  BY <1>1, AmountTypes
<1>3. \A v \in Users \ {u} : d[v] <= c[v]
  BY <1>2 DEF Others
<1>4. line[l].prep + Total(Users, c) <= Carried(l)
  BY DEF PrepareInv
<1>5. line'[l].prep + d[u] + Carried(l) <= line[l].prep + c[u] + Carried(l)'
  OBVIOUS
<1> HIDE DEF c, d
<1>6. line'[l].prep + Total(Users, d) <= Carried(l)'
  BY <1>1, <1>2, <1>3, <1>4, <1>5, TotalCovered
<1> QED
  BY <1>6 DEF d

LEMMA GotStep ==
  ASSUME IInv, IInv', GotInv, NEW u \in Users, Others(u),
         \A l \in Lines :
           /\ \A v \in Users \ {u} : ToGot(job[v], l, line'[l].id)
                                       <= ToGot(job[v], l, line[l].id)
           /\ Got(l)' + ToGot(job'[u], l, line'[l].id) + line[l].recv
                <= Got(l) + ToGot(job[u], l, line[l].id) + line'[l].recv
  PROVE  GotInv'
<1> SUFFICES ASSUME NEW l \in Lines
             PROVE  Got(l)'
                      + Total(Users, [v \in Users |-> ToGot(job'[v], l, line'[l].id)])
                    <= line'[l].recv
  BY DEF GotInv
<1> DEFINE c == [v \in Users |-> ToGot(job[v], l, line[l].id)]
           d == [v \in Users |-> ToGot(job'[v], l, line'[l].id)]
<1>1. /\ line[l].recv \in Nat /\ Got(l) \in Nat
      /\ line'[l].recv \in Nat /\ Got(l)' \in Nat
      /\ \A v \in Users : job[v] \in JobType /\ job'[v] \in JobType
  BY CountTypes, CountTypesNext
<1>2. c \in [Users -> 0..MaxQty] /\ d \in [Users -> 0..MaxQty]
  BY <1>1, AmountTypes
<1>3. \A v \in Users \ {u} : d[v] <= c[v]
  BY <1>2 DEF Others
<1>4. Got(l) + Total(Users, c) <= line[l].recv
  BY DEF GotInv
<1>5. Got(l)' + d[u] + line[l].recv <= Got(l) + c[u] + line'[l].recv
  OBVIOUS
<1> HIDE DEF c, d
<1>6. Got(l)' + Total(Users, d) <= line'[l].recv
  BY <1>1, <1>2, <1>3, <1>4, <1>5, TotalCovered
<1> QED
  BY <1>6 DEF d
-----------------------------------------------------------------------------
\* What a handler's next record is, field by field.
LEMMA GoFacts ==
  ASSUME JobsOK, NEW u \in Users, NEW j, Go(u, j)
  PROVE  Others(u) /\ job'[u] = j
BY DEF JobsOK, Go, Others

Keeps(u) ==
  /\ job'[u].tok = job[u].tok /\ job'[u].sid = job[u].sid
  /\ job'[u].want = job[u].want /\ job'[u].ids = job[u].ids

LEMMA GotoFacts ==
  ASSUME JobsOK, NEW u \in Users, NEW pc, Goto(u, pc)
  PROVE  /\ Others(u) /\ Keeps(u) /\ job'[u].pc = pc
         /\ job'[u].left = job[u].left /\ job'[u].cur = job[u].cur
<1> DEFINE j == [job[u] EXCEPT !.pc = pc]
<1>1. job[u] \in JobType
  BY DEF JobsOK
<1>2. /\ j.pc = pc /\ j.left = job[u].left /\ j.cur = job[u].cur /\ j.tok = job[u].tok
      /\ j.sid = job[u].sid /\ j.want = job[u].want /\ j.ids = job[u].ids
  BY <1>1 DEF JobType
<1>3. Go(u, j)
  BY DEF Goto, Go, JobsOK
<1>4. Others(u) /\ job'[u] = j
  BY <1>3, GoFacts
<1> QED
  BY <1>2, <1>4 DEF Keeps

LEMMA IdleShape ==
  /\ Idle.pc = "idle" /\ Idle.tok = NoToken /\ Idle.left = {} /\ Idle.cur = NoLine
  /\ \A l \in Lines : Idle.ids[l] = 0 /\ Idle.want[l] = 0
BY DEF Idle, None

\* The line in hand is done: the others stay to be done, or there are none.
LEMMA DoneFacts ==
  ASSUME JobsOK, NEW u \in Users, NEW l, NEW again, NEW pc, Done(u, l, again, pc)
  PROVE  /\ Others(u)
         /\ \/ Keeps(u) /\ job'[u].pc = again /\ job'[u].left = job[u].left \ {l}
            \/ /\ job[u].left \subseteq {l}
               /\ \/ pc = "idle" /\ job'[u] = Idle
                  \/ Keeps(u) /\ job'[u].pc = pc /\ job'[u].left = {}
<1> DEFINE rest == job[u].left \ {l}
           j1 == [job[u] EXCEPT !.pc = again, !.left = rest, !.cur = NoLine]
           j2 == [job[u] EXCEPT !.pc = pc, !.left = {}, !.cur = NoLine]
<1>1. job[u] \in JobType
  BY DEF JobsOK
<1>2. /\ j1.pc = again /\ j1.left = rest /\ j1.tok = job[u].tok
      /\ j1.sid = job[u].sid /\ j1.want = job[u].want /\ j1.ids = job[u].ids
  BY <1>1 DEF JobType
<1>3. /\ j2.pc = pc /\ j2.left = {} /\ j2.tok = job[u].tok
      /\ j2.sid = job[u].sid /\ j2.want = job[u].want /\ j2.ids = job[u].ids
  BY <1>1 DEF JobType
<1>4. CASE rest # {}
  <2>1. Go(u, j1)
    BY <1>4 DEF Done
  <2> QED
    BY <1>2, <2>1, GoFacts DEF Keeps
<1>5. CASE rest = {} /\ pc = "idle"
  <2>1. Go(u, Idle)
    BY <1>5 DEF Done
  <2> QED
    BY <1>5, <2>1, GoFacts
<1>6. CASE rest = {} /\ pc # "idle"
  <2>1. Go(u, j2)
    BY <1>6 DEF Done
  <2> QED
    BY <1>3, <1>6, <2>1, GoFacts DEF Keeps
<1> QED
  BY <1>4, <1>5, <1>6

-----------------------------------------------------------------------------
\* One shipment per token, and rows that do not come back.
RowsInv == MadeInv /\ IdsInv

Posting == {"prepare.post", "prepare.shipment"}
Inserting == {"edit.delete", "edit.insert"}

\* A step that starts no prepare and no edit.
Follows(u) ==
  /\ Others(u)
  /\ job'[u].pc \in Posting => job[u].pc \in Posting /\ job'[u].tok = job[u].tok
  /\ job'[u].pc \in Inserting => job[u].pc \in Inserting /\ job'[u].ids = job[u].ids
  /\ \A l \in Lines : job'[u].ids[l] \in {0, job[u].ids[l], line[l].id}

LEMMA FollowsMade ==
  ASSUME IInv, MadeInv, NEW u \in Users, Follows(u), used \subseteq used',
         \A t \in Tokens : ship'[t].made => ship[t].made
  PROVE  MadeInv'
<1>1. \A t \in Tokens : t \notin used' => ~ship'[t].made
  BY DEF MadeInv
<1>2. ASSUME NEW v \in Users, job'[v].pc \in Posting PROVE ~ship'[job'[v].tok].made
  <2>1. job[v].pc \in Posting /\ job'[v].tok = job[v].tok
    BY <1>2 DEF Follows, Others
  <2>2. job[v].tok \in Tokens
    BY <2>1 DEF IInv, JobsOK, JobOK, Posting, PreparePcs
  <2>3. ~ship[job[v].tok].made
    BY <2>1 DEF MadeInv, Posting
  <2> QED
    BY <2>1, <2>2, <2>3
<1> QED
  BY <1>1, <1>2 DEF MadeInv, Posting

LEMMA FollowsIds ==
  ASSUME IInv, IdsInv, NEW u \in Users, Follows(u), edits' = edits,
         \A l \in Lines : /\ line'[l].id \in {line[l].id, 0}
                          /\ line'[l].id = 0 => line'[l].prep = 0 /\ line'[l].recv = 0
  PROVE  IdsInv'
<1>0. edits \in Nat
  BY DEF IInv, TypeOK
<1>1. \A l \in Lines : line'[l].id <= edits
  BY <1>0 DEF IdsInv
<1>2. ASSUME NEW v \in Users, NEW l \in Lines PROVE job'[v].ids[l] <= edits
  <2>1. job[v].ids[l] <= edits /\ line[l].id <= edits /\ 0 <= edits
    BY <1>0 DEF IdsInv
  <2> QED
    BY <2>1 DEF Follows, Others
<1>3. ASSUME NEW v \in Users, job'[v].pc \in Inserting
      PROVE  /\ \A l \in Lines : job'[v].ids[l] # 0
             /\ \A l, m \in Lines : line'[m].id # job'[v].ids[l]
             /\ \A l, m \in Lines, w \in Users \ {v} : job'[w].ids[m] # job'[v].ids[l]
  <2>1. job[v].pc \in Inserting /\ job'[v].ids = job[v].ids
    BY <1>3 DEF Follows, Others
  <2>2. /\ \A l \in Lines : job[v].ids[l] # 0
        /\ \A l, m \in Lines : line[m].id # job[v].ids[l]
        /\ \A l, m \in Lines, w \in Users \ {v} : job[w].ids[m] # job[v].ids[l]
    BY <2>1 DEF IdsInv, Editing, Inserting
  <2>3. ASSUME NEW m \in Lines, NEW w \in Users \ {v}
        PROVE  job'[w].ids[m] \in {0, job[w].ids[m], line[m].id}
    BY DEF Follows, Others
  <2> QED
    BY <2>1, <2>2, <2>3
<1> QED
  BY <1>1, <1>2, <1>3 DEF IdsInv, Editing, Inserting

LEMMA RowsFollow ==
  ASSUME IInv, RowsInv, NEW u \in Users, Follows(u), used \subseteq used',
         edits' = edits,
         \A t \in Tokens : ship'[t].made => ship[t].made,
         \A l \in Lines : /\ line'[l].id \in {line[l].id, 0}
                          /\ line'[l].id = 0 => line'[l].prep = 0 /\ line'[l].recv = 0
  PROVE  RowsInv'
BY FollowsMade, FollowsIds DEF RowsInv

\* The same when the lines and the shipments are left alone.
LEMMA RowsAlone ==
  ASSUME IInv, RowsInv, NEW u \in Users, Follows(u), used \subseteq used',
         edits' = edits, line' = line, ship' = ship
  PROVE  RowsInv'
BY RowsFollow DEF RowsInv, IdsInv

LEMMA ReturnFollows ==
  ASSUME JobsOK, NEW u \in Users, Return(u)
  PROVE  Follows(u)
BY GoFacts, IdleShape DEF Return, Follows, Posting, Inserting

LEMMA GotoFollows ==
  ASSUME JobsOK, NEW u \in Users, NEW pc, Goto(u, pc),
         pc \in Posting => job[u].pc \in Posting,
         pc \in Inserting => job[u].pc \in Inserting
  PROVE  Follows(u)
BY GotoFacts DEF Follows, Keeps

LEMMA DoneFollows ==
  ASSUME JobsOK, NEW u \in Users, NEW l, NEW again, NEW pc, Done(u, l, again, pc),
         again \notin Posting \cup Inserting, pc \notin Posting \cup Inserting
  PROVE  Follows(u)
<1>1. Others(u)
  BY DoneFacts
<1>2. CASE Keeps(u) /\ job'[u].pc \in {again, pc}
  BY <1>1, <1>2 DEF Follows, Keeps
<1>3. CASE job'[u] = Idle
  BY <1>1, <1>3, IdleShape DEF Follows, Posting, Inserting
<1> QED
  BY <1>2, <1>3, DoneFacts
LEMMA RowsInit == Init => RowsInv
<1> SUFFICES ASSUME Init PROVE RowsInv
  OBVIOUS
<1>1. \A l \in Lines : line[l].id = 0 /\ line[l].prep = 0 /\ line[l].recv = 0
  BY DEF Init, NoRow
<1>2. \A t \in Tokens : ~ship[t].made
  BY DEF Init, NoShip
<1>3. \A u \in Users : job[u].pc = "idle" /\ \A l \in Lines : job[u].ids[l] = 0
  BY IdleShape DEF Init
<1>4. edits = 0
  BY DEF Init
<1> QED
  BY <1>1, <1>2, <1>3, <1>4 DEF RowsInv, MadeInv, IdsInv, Editing

LEMMA RowsEdit ==
  ASSUME IInv, RowsInv, NEW u \in Users, Draft(u)
  PROVE  RowsInv'
<1>0. JobsOK /\ edits \in Nat /\ ship \in [Tokens -> Ships] /\ job[u] \in JobType
  BY DEF IInv, TypeOK, Ships, JobsOK
<1>1. ASSUME NEW want \in Quantity, EditRead(u, want) PROVE RowsInv'
  <2> DEFINE j == [Idle EXCEPT !.pc = "edit.delete", !.want = want,
                               !.ids = [l \in Lines |-> edits + 1]]
  <2>1. /\ j.pc = "edit.delete" /\ j.ids = [l \in Lines |-> edits + 1]
    BY DEF Idle
  <2>2. Others(u) /\ job'[u] = j
    BY <1>0, <1>1, GoFacts DEF EditRead
  <2> HIDE DEF j
  <2>3. /\ edits' = edits + 1 /\ line' = line /\ ship' = ship /\ used' = used
    BY <1>1 DEF EditRead
  <2>4. \A l \in Lines : job'[u].ids[l] = edits + 1
    BY <2>1, <2>2
  <2>5. MadeInv'
    BY <2>1, <2>2, <2>3 DEF RowsInv, MadeInv, Others
  <2>6. ASSUME NEW l \in Lines
        PROVE  line'[l].id <= edits' /\ (line'[l].id = 0 => line'[l].prep = 0 /\ line'[l].recv = 0)
    <3>1. line[l].id \in Nat /\ line[l].id <= edits
      BY DEF RowsInv, IdsInv, IInv, TypeOK
    <3>2. line[l].id <= edits + 1
      BY <1>0, <3>1
    <3> QED
      BY <2>3, <3>2 DEF RowsInv, IdsInv
  <2>7. \A v \in Users \ {u}, l \in Lines :
          job'[v].ids = job[v].ids /\ job[v].ids[l] \in Nat /\ job[v].ids[l] <= edits
    BY <2>2 DEF Others, RowsInv, IdsInv, IInv, JobsOK, JobType
  <2>8. ASSUME NEW v \in Users, NEW l \in Lines PROVE job'[v].ids[l] <= edits'
    <3>1. CASE v = u
      BY <1>0, <2>3, <2>4, <3>1
    <3>2. CASE v # u
      <4>1. job[v].ids[l] <= edits + 1
        BY <1>0, <2>7, <3>2
      <4> QED
        BY <2>3, <2>7, <3>2, <4>1
    <3> QED
      BY <3>1, <3>2
  <2>9. ASSUME NEW v \in Users, Editing(v)'
        PROVE  /\ \A l \in Lines : job'[v].ids[l] # 0
               /\ \A l, m \in Lines : line'[m].id # job'[v].ids[l]
               /\ \A l, m \in Lines, w \in Users \ {v} : job'[w].ids[m] # job'[v].ids[l]
    <3>1. CASE v = u
      <4>1. \A l \in Lines : job'[v].ids[l] = edits + 1 /\ edits + 1 # 0
        BY <1>0, <2>4, <3>1
      <4>2. \A m \in Lines : line'[m].id # edits + 1
        <5>1. \A m \in Lines : line[m].id \in Nat /\ line[m].id <= edits
          BY DEF RowsInv, IdsInv, IInv, TypeOK
        <5> QED
          BY <1>0, <2>3, <5>1
      <4>3. \A m \in Lines, w \in Users \ {v} : job'[w].ids[m] # edits + 1
        BY <1>0, <2>7, <3>1
      <4> QED
        BY <4>1, <4>2, <4>3
    <3>2. CASE v # u
      <4>1. Editing(v) /\ job'[v].ids = job[v].ids
        BY <2>9, <2>2, <3>2 DEF Editing, Others
      <4>2. /\ \A l \in Lines : job[v].ids[l] # 0
            /\ \A l, m \in Lines : line[m].id # job[v].ids[l]
            /\ \A l, m \in Lines, w \in Users \ {v} : job[w].ids[m] # job[v].ids[l]
        BY <4>1 DEF RowsInv, IdsInv
      <4>3. \A l \in Lines : job[v].ids[l] # edits + 1
        BY <1>0, <2>7, <3>2
      <4>4. ASSUME NEW l \in Lines, NEW m \in Lines, NEW w \in Users \ {v}
            PROVE  job'[w].ids[m] # job'[v].ids[l]
        <5>1. CASE w = u
          BY <2>4, <4>1, <4>3, <5>1
        <5>2. CASE w # u
          BY <2>7, <4>1, <4>2, <5>2
        <5> QED
          BY <5>1, <5>2
      <4> QED
        BY <2>3, <4>1, <4>2, <4>4
    <3> QED
      BY <3>1, <3>2
  <2>10. IdsInv'
    BY <2>6, <2>8, <2>9 DEF IdsInv
  <2> QED
    BY <2>5, <2>10 DEF RowsInv
<1>2. CASE EditDelete(u)
  <2>1. Follows(u)
    BY <1>0, <1>2, ReturnFollows, GotoFollows DEF EditDelete, Posting, Inserting
  <2>2. \A l \in Lines : line'[l].id = 0 /\ line'[l].prep = 0 /\ line'[l].recv = 0
    BY <1>2 DEF EditDelete, NoRow
  <2>3. \A t \in Tokens : ship'[t].made = ship[t].made
    BY <1>0, <1>2 DEF EditDelete, Ships
  <2>4. used' = used /\ edits' = edits
    BY <1>2 DEF EditDelete
  <2> QED
    BY <2>1, <2>2, <2>3, <2>4, RowsFollow
<1>3. CASE EditInsert(u)
  <2>1. Follows(u) /\ Return(u) /\ job[u].pc = "edit.insert"
    BY <1>0, <1>3, ReturnFollows DEF EditInsert
  <2>2. /\ job'[u] = Idle /\ Others(u)
    BY <1>0, <2>1, GoFacts DEF Return
  <2>3. edits' = edits /\ used' = used /\ ship' = ship
    BY <1>3 DEF EditInsert
  <2>4. MadeInv'
    BY <2>1, <2>3, FollowsMade DEF RowsInv
  <2>5. /\ \A l \in Lines : job[u].ids[l] # 0 /\ job[u].ids[l] <= edits
        /\ \A l, m \in Lines, w \in Users \ {u} : job[w].ids[m] # job[u].ids[l]
    BY <2>1 DEF RowsInv, IdsInv, Editing
  <2>6. \A l \in Lines : \/ line'[l] = line[l]
                         \/ line'[l].id = job[u].ids[l]
    BY <1>3 DEF EditInsert, NoRow
  <2>7. ASSUME NEW l \in Lines
        PROVE  line'[l].id <= edits' /\ (line'[l].id = 0 => line'[l].prep = 0 /\ line'[l].recv = 0)
    BY <2>3, <2>5, <2>6 DEF RowsInv, IdsInv
  <2>8. ASSUME NEW v \in Users, NEW l \in Lines PROVE job'[v].ids[l] <= edits'
    <3>1. 0 <= edits
      BY <1>0
    <3> QED
      BY <2>2, <2>3, <3>1, IdleShape DEF Others, RowsInv, IdsInv
  <2>9. ASSUME NEW v \in Users, Editing(v)'
        PROVE  /\ \A l \in Lines : job'[v].ids[l] # 0
               /\ \A l, m \in Lines : line'[m].id # job'[v].ids[l]
               /\ \A l, m \in Lines, w \in Users \ {v} : job'[w].ids[m] # job'[v].ids[l]
    <3>1. v # u /\ Editing(v) /\ job'[v].ids = job[v].ids
      BY <2>2, <2>9, IdleShape DEF Editing, Others
    <3>2. /\ \A l \in Lines : job[v].ids[l] # 0
          /\ \A l, m \in Lines : line[m].id # job[v].ids[l]
          /\ \A l, m \in Lines, w \in Users \ {v} : job[w].ids[m] # job[v].ids[l]
      BY <3>1 DEF RowsInv, IdsInv
    <3>3. ASSUME NEW l \in Lines, NEW m \in Lines PROVE line'[m].id # job'[v].ids[l]
      BY <2>6, <3>1, <3>2
    <3>4. ASSUME NEW l \in Lines, NEW m \in Lines, NEW w \in Users \ {v}
          PROVE  job'[w].ids[m] # job'[v].ids[l]
      <4>1. CASE w = u
        BY <2>2, <3>1, <3>2, <4>1, IdleShape
      <4>2. CASE w # u
        BY <2>2, <3>1, <3>2, <4>2 DEF Others
      <4> QED
        BY <4>1, <4>2
    <3> QED
      BY <3>1, <3>2, <3>3, <3>4
  <2>10. IdsInv'
    BY <2>7, <2>8, <2>9 DEF IdsInv
  <2> QED
    BY <2>4, <2>10 DEF RowsInv
<1>4. CASE DeleteDraft(u)
  <2>1. Follows(u)
    BY <1>4 DEF DeleteDraft, Follows, Others
  <2>2. \A l \in Lines : line'[l].id = 0 /\ line'[l].prep = 0 /\ line'[l].recv = 0
    BY <1>4 DEF DeleteDraft, NoRow
  <2>3. \A t \in Tokens : ~ship'[t].made
    BY <1>4 DEF DeleteDraft, NoShip
  <2>4. used' = used /\ edits' = edits
    BY <1>4 DEF DeleteDraft
  <2> QED
    BY <2>1, <2>2, <2>3, <2>4, RowsFollow
<1> QED
  BY <1>1, <1>2, <1>3, <1>4 DEF Draft

LEMMA RowsSubmit ==
  ASSUME IInv, RowsInv, NEW u \in Users, Submit(u)
  PROVE  RowsInv'
<1> USE DEF Posting, Inserting
<1>0. JobsOK /\ job[u] \in JobType /\ line \in [Lines -> Rows]
  BY DEF IInv, TypeOK, JobsOK, Rows
<1>1. CASE SubmitRead(u)
  <2> DEFINE j == [Idle EXCEPT !.pc = "submit.write", !.ids = Ids, !.left = Present]
  <2>1. j.pc = "submit.write" /\ \A l \in Lines : j.ids[l] = line[l].id
    BY DEF Idle, Ids
  <2>2. Others(u) /\ job'[u] = j
    BY <1>0, <1>1, GoFacts DEF SubmitRead
  <2>3. Follows(u)
    BY <2>1, <2>2 DEF Follows
  <2> QED
    BY <1>1, <2>3, RowsAlone DEF SubmitRead, supabase
<1>2. CASE SubmitWrite(u)
  <2>1. Follows(u)
    BY <1>0, <1>2, ReturnFollows, GotoFollows DEF SubmitWrite
  <2> QED
    BY <1>2, <2>1, RowsAlone DEF SubmitWrite
<1>3. ASSUME NEW l \in Lines, stamp_on_submit(u, l) PROVE RowsInv'
  <2> DEFINE j == [job[u] EXCEPT !.pc = "submit.link", !.cur = l, !.marks = @ \cup {l}]
  <2>1. Follows(u)
    <3>1. CASE Done(u, l, "submit.stamp", "idle")
      BY <1>0, <3>1, DoneFollows
    <3>2. CASE Go(u, j)
      <4>1. j.pc = "submit.link" /\ j.ids = job[u].ids
        BY <1>0 DEF JobType
      <4> QED
        BY <1>0, <3>2, <4>1, GoFacts DEF Follows
    <3> QED
      BY <1>3, <3>1, <3>2 DEF stamp_on_submit
  <2> QED
    BY <1>3, <2>1, RowsAlone DEF stamp_on_submit, supabase
<1>4. CASE StampLink(u)
  <2>1. Follows(u)
    BY <1>0, <1>4, DoneFollows DEF StampLink
  <2>2. \A l \in Lines : /\ line'[l].id = line[l].id /\ line'[l].prep = line[l].prep
                         /\ line'[l].recv = line[l].recv
    BY <1>0, <1>4 DEF StampLink, Rows
  <2>3. ship' = ship /\ edits' = edits /\ used' = used
    BY <1>4 DEF StampLink
  <2> QED
    BY <2>1, <2>2, <2>3, RowsFollow DEF RowsInv, IdsInv
<1>5. CASE StampFails(u)
  <2> DEFINE j == [job[u] EXCEPT !.pc = "submit.undo", !.left = job[u].marks]
  <2>1. j.pc = "submit.undo" /\ j.ids = job[u].ids
    BY <1>0 DEF JobType
  <2>2. ASSUME Go(u, j) PROVE Follows(u)
    BY <1>0, <2>1, <2>2, GoFacts DEF Follows
  <2>3. Follows(u)
    BY <1>0, <1>5, <2>2, ReturnFollows DEF StampFails
  <2> QED
    BY <1>5, <2>3, RowsAlone DEF StampFails, supabase
<1>6. ASSUME NEW l \in Lines, StampUndo(u, l) PROVE RowsInv'
  <2>1. Follows(u)
    BY <1>0, <1>6, DoneFollows DEF StampUndo
  <2> QED
    BY <1>6, <2>1, RowsAlone DEF StampUndo, supabase
<1> QED
  BY <1>1, <1>2, <1>3, <1>4, <1>5, <1>6 DEF Submit
LEMMA RowsPrepare ==
  ASSUME ~ReuseTokens, IInv, FreshInv, RowsInv, NEW u \in Users, Prepare(u)
  PROVE  RowsInv'
<1> USE DEF Posting, Inserting
<1>0. /\ JobsOK /\ job[u] \in JobType /\ line \in [Lines -> Rows]
      /\ ship \in [Tokens -> Ships]
  BY DEF IInv, TypeOK, JobsOK, Rows, Ships
<1>1. ASSUME NEW t \in Tokens, NEW want \in Quantity, PrepareRead(u, t, want) PROVE RowsInv'
  <2> DEFINE j == [Idle EXCEPT !.pc = "prepare.post", !.tok = t, !.want = want,
                               !.ids = Ids, !.left = Body(want)]
  <2>1. j.pc = "prepare.post" /\ j.tok = t /\ \A l \in Lines : j.ids[l] = line[l].id
    BY DEF Idle, Ids
  <2>2. Others(u) /\ job'[u] = j
    BY <1>0, <1>1, GoFacts DEF PrepareRead
  <2> HIDE DEF j
  <2>3. /\ line' = line /\ ship' = ship /\ edits' = edits
        /\ t \notin used /\ used' = used \cup {t}
    BY <1>1 DEF PrepareRead, TokenFor, supabase
  <2>4. MadeInv'
    BY <2>1, <2>2, <2>3 DEF RowsInv, MadeInv, Others
  <2>5. \A v \in Users : \/ job'[v] = job[v]
                         \/ ~Editing(v)' /\ \A l \in Lines : job'[v].ids[l] = line[l].id
    BY <2>1, <2>2 DEF Editing, Others
  <2>6. ASSUME NEW v \in Users, Editing(v)'
        PROVE  /\ \A l \in Lines : job'[v].ids[l] # 0
               /\ \A l, m \in Lines : line'[m].id # job'[v].ids[l]
               /\ \A l, m \in Lines, w \in Users \ {v} : job'[w].ids[m] # job'[v].ids[l]
    <3>1. Editing(v) /\ job'[v] = job[v]
      BY <2>5, <2>6 DEF Editing
    <3>2. /\ \A l \in Lines : job[v].ids[l] # 0
          /\ \A l, m \in Lines : line[m].id # job[v].ids[l]
          /\ \A l, m \in Lines, w \in Users \ {v} : job[w].ids[m] # job[v].ids[l]
      BY <3>1 DEF RowsInv, IdsInv
    <3> QED
      BY <2>3, <2>5, <3>1, <3>2
  <2>7. \A v \in Users, l \in Lines : job'[v].ids[l] <= edits'
    BY <2>3, <2>5 DEF RowsInv, IdsInv
  <2>8. IdsInv'
    BY <2>3, <2>6, <2>7 DEF RowsInv, IdsInv
  <2> QED
    BY <2>4, <2>8 DEF RowsInv
<1>2. CASE post_transfer_ship(u)
  <2>1. Follows(u)
    BY <1>0, <1>2, GotoFollows DEF post_transfer_ship
  <2> QED
    BY <1>2, <2>1, RowsAlone DEF post_transfer_ship, supabase
<1>3. CASE create_shipment(u)
  <2>1. Follows(u)
    BY <1>0, <1>3, ReturnFollows, GotoFollows DEF create_shipment
  <2>2. line' = line /\ edits' = edits /\ used' = used
    BY <1>3 DEF create_shipment
  <2>3. IdsInv'
    BY <2>1, <2>2, FollowsIds DEF RowsInv, IdsInv
  <2>4. job[u].tok \in Tokens /\ job[u].tok # NoToken /\ job[u].tok \in used
    <3>1. job[u].tok \in Tokens
      BY <1>0, <1>3 DEF create_shipment, JobsOK, JobOK, PreparePcs
    <3> QED
      BY <3>1 DEF FreshInv, HeldUsed
  <2>5. job'[u].pc \notin Posting
    BY <1>0, <1>3, GotoFacts, GoFacts, IdleShape DEF create_shipment, Return
  <2>6. \A t \in Tokens : t # job[u].tok => ship'[t].made = ship[t].made
    BY <1>0, <1>3 DEF create_shipment
  <2>7. \A t \in Tokens : t \notin used => ~ship'[t].made
    BY <2>4, <2>6 DEF RowsInv, MadeInv
  <2>8. ASSUME NEW v \in Users, job'[v].pc \in Posting PROVE ~ship'[job'[v].tok].made
    <3>1. v # u /\ job'[v] = job[v]
      BY <2>1, <2>5, <2>8 DEF Follows, Others
    <3>2. job[v].tok \in Tokens /\ job[v].tok # job[u].tok
      <4>1. job[v].tok \in Tokens
        BY <1>0, <2>8, <3>1 DEF JobsOK, JobOK, PreparePcs
      <4> QED
        BY <2>4, <3>1, <4>1 DEF FreshInv, HeldApart
    <3> QED
      BY <2>6, <2>8, <3>1, <3>2 DEF RowsInv, MadeInv
  <2> QED
    BY <2>2, <2>3, <2>7, <2>8 DEF RowsInv, MadeInv
<1>4. CASE add_shipment_lines(u)
  <2>1. Follows(u)
    BY <1>0, <1>4, ReturnFollows, GotoFollows DEF add_shipment_lines
  <2>2. \A t \in Tokens : ship'[t].made = ship[t].made
    BY <1>0, <1>4 DEF add_shipment_lines, Ships
  <2>3. line' = line /\ edits' = edits /\ used' = used
    BY <1>4 DEF add_shipment_lines
  <2> QED
    BY <2>1, <2>2, <2>3, RowsFollow DEF RowsInv, IdsInv
<1>5. ASSUME NEW l \in Lines, bump_line_prepared(u, l) PROVE RowsInv'
  <2>1. Follows(u)
    BY <1>0, <1>5, ReturnFollows, DoneFollows DEF bump_line_prepared
  <2>2. ship' = ship /\ edits' = edits /\ used' = used
    BY <1>5 DEF bump_line_prepared
  <2>3. \A m \in Lines : line'[m].id = line[m].id /\ line'[m].recv = line[m].recv
    BY <1>0, <1>5 DEF bump_line_prepared, Rows
  <2>4. \A m \in Lines : line[m].id = 0 => line'[m].prep = line[m].prep
    BY <1>0, <1>5 DEF bump_line_prepared, StillThere, Rows
  <2> QED
    BY <2>1, <2>2, <2>3, <2>4, RowsFollow DEF RowsInv, IdsInv
<1> QED
  BY <1>1, <1>2, <1>3, <1>4, <1>5 DEF Prepare

LEMMA RowsReceive ==
  ASSUME IInv, RowsInv, NEW u \in Users, Receive(u)
  PROVE  RowsInv'
<1> USE DEF Posting, Inserting
<1>0. /\ JobsOK /\ job[u] \in JobType /\ line \in [Lines -> Rows]
      /\ ship \in [Tokens -> Ships]
  BY DEF IInv, TypeOK, JobsOK, Rows, Ships
<1>1. ASSUME NEW s \in Tokens, NEW t \in Tokens, NEW want \in Quantity,
             ReceiveRead(u, s, t, want)
      PROVE  RowsInv'
  <2> DEFINE j == [Idle EXCEPT !.pc = "receive.post", !.tok = t, !.sid = s,
                     !.want = want, !.ids = Ids, !.left = Body(want),
                     !.marks = {l \in Body(want) : Stamping /\ line[l].link}]
  <2>1. j.pc = "receive.post" /\ \A l \in Lines : j.ids[l] = line[l].id
    BY DEF Idle, Ids
  <2>2. Others(u) /\ job'[u] = j
    BY <1>0, <1>1, GoFacts DEF ReceiveRead
  <2>3. Follows(u)
    BY <2>1, <2>2 DEF Follows
  <2>4. used \subseteq used' /\ edits' = edits /\ line' = line /\ ship' = ship
    BY <1>1 DEF ReceiveRead, supabase
  <2> QED
    BY <2>3, <2>4, RowsAlone
<1>2. CASE post_transfer_receive(u)
  <2>1. Follows(u)
    BY <1>0, <1>2, ReturnFollows, GotoFollows DEF post_transfer_receive
  <2> QED
    BY <1>2, <2>1, RowsAlone DEF post_transfer_receive, supabase
<1>3. CASE create_receipt(u)
  <2>1. Follows(u)
    BY <1>0, <1>3, ReturnFollows, GotoFollows DEF create_receipt
  <2> QED
    BY <1>3, <2>1, RowsAlone DEF create_receipt
<1>4. ASSUME NEW l \in Lines, bump_line_received(u, l) PROVE RowsInv'
  <2> DEFINE j == [job[u] EXCEPT !.pc = "receive.shipline", !.cur = l]
  <2>1. Follows(u)
    <3>1. j.pc = "receive.shipline" /\ j.ids = job[u].ids
      BY <1>0 DEF JobType
    <3>2. ASSUME Go(u, j) PROVE Follows(u)
      BY <1>0, <3>1, <3>2, GoFacts DEF Follows
    <3> QED
      BY <1>0, <1>4, <3>2, ReturnFollows DEF bump_line_received
  <2>2. ship' = ship /\ edits' = edits /\ used' = used
    BY <1>4 DEF bump_line_received
  <2>3. \A m \in Lines : line'[m].id = line[m].id /\ line'[m].prep = line[m].prep
    BY <1>0, <1>4 DEF bump_line_received, Rows
  <2>4. \A m \in Lines : line[m].id = 0 => line'[m].recv = line[m].recv
    BY <1>0, <1>4 DEF bump_line_received, StillThere, Rows
  <2> QED
    BY <2>1, <2>2, <2>3, <2>4, RowsFollow DEF RowsInv, IdsInv
<1>5. CASE bump_shipment_line_received(u)
  <2>1. Follows(u)
    BY <1>0, <1>5, ReturnFollows, GotoFollows, DoneFollows DEF bump_shipment_line_received
  <2>2. \A t \in Tokens : ship'[t].made = ship[t].made
    BY <1>0, <1>5 DEF bump_shipment_line_received, Ships
  <2>3. line' = line /\ edits' = edits /\ used' = used
    BY <1>5 DEF bump_shipment_line_received
  <2> QED
    BY <2>1, <2>2, <2>3, RowsFollow DEF RowsInv, IdsInv
<1>6. CASE mark_received(u)
  <2>1. Follows(u)
    BY <1>0, <1>6, DoneFollows DEF mark_received
  <2> QED
    BY <1>6, <2>1, RowsAlone DEF mark_received, supabase
<1>7. CASE ReceivePosted(u)
  <2>1. Follows(u)
    BY <1>0, <1>7, GotoFollows DEF ReceivePosted
  <2>2. \A t \in Tokens : ship'[t].made = ship[t].made
    BY <1>0, <1>7 DEF ReceivePosted, Ships
  <2>3. line' = line /\ edits' = edits /\ used' = used
    BY <1>7 DEF ReceivePosted
  <2> QED
    BY <2>1, <2>2, <2>3, RowsFollow DEF RowsInv, IdsInv
<1> QED
  BY <1>1, <1>2, <1>3, <1>4, <1>5, <1>6, <1>7 DEF Receive

LEMMA RowsRefreshCancel ==
  ASSUME IInv, RowsInv, NEW u \in Users, Refresh(u) \/ Cancel(u) \/ Abort(u)
  PROVE  RowsInv'
<1> USE DEF Posting, Inserting
<1>0. JobsOK /\ job[u] \in JobType
  BY DEF IInv, JobsOK
<1>1. CASE RefreshRead(u)
  <2> DEFINE j == [Idle EXCEPT !.pc = "refresh.write",
                               !.seen = derive_request_status(status)]
  <2>1. j.pc = "refresh.write" /\ \A l \in Lines : j.ids[l] = 0
    BY DEF Idle, None
  <2>2. Others(u) /\ job'[u] = j
    BY <1>0, <1>1, GoFacts DEF RefreshRead
  <2>3. Follows(u)
    BY <2>1, <2>2 DEF Follows
  <2> QED
    BY <1>1, <2>3, RowsAlone DEF RefreshRead, supabase
<1>2. CASE CancelRead(u)
  <2> DEFINE linked == {l \in Lines : Stamping /\ line[l].link}
             j == [Idle EXCEPT !.left = linked,
                    !.pc = IF linked = {} THEN "cancel.write" ELSE "cancel.revert"]
  <2>1. j.pc \in {"cancel.write", "cancel.revert"} /\ \A l \in Lines : j.ids[l] = 0
    BY DEF Idle, None
  <2>2. Others(u) /\ job'[u] = j
    BY <1>0, <1>2, GoFacts DEF CancelRead
  <2> HIDE DEF j
  <2>3. Follows(u)
    BY <2>1, <2>2 DEF Follows
  <2> QED
    BY <1>2, <2>3, RowsAlone DEF CancelRead, supabase
<1>3. ASSUME NEW l \in Lines, CancelRevert(u, l) PROVE RowsInv'
  <2>1. Follows(u)
    BY <1>0, <1>3, DoneFollows DEF CancelRevert
  <2> QED
    BY <1>3, <2>1, RowsAlone DEF CancelRevert, supabase
<1>4. CASE RefreshWrite(u) \/ cancel_request(u) \/ Abort(u)
  <2>1. Return(u)
    BY <1>4 DEF RefreshWrite, cancel_request, Abort
  <2>2. /\ used \subseteq used' /\ edits' = edits /\ line' = line /\ ship' = ship
    BY <1>4 DEF RefreshWrite, cancel_request, Abort, supabase
  <2> QED
    BY <1>0, <2>1, <2>2, ReturnFollows, RowsAlone
<1> QED
  BY <1>1, <1>2, <1>3, <1>4 DEF Refresh, Cancel
-----------------------------------------------------------------------------
\* The sums under a step.
OwingPcs == {"prepare.shipment", "prepare.lines", "prepare.bump", "receive.receipt",
             "receive.line", "receive.shipline", "receive.mark"}

LEMMA OwesNothing ==
  ASSUME NEW j, j.pc \notin OwingPcs
  PROVE  \A l \in Lines, id \in Nat : ToShip(j, l) = 0 /\ ToTake(j, l) = 0
                                      /\ ToPrepare(j, l, id) = 0 /\ ToGot(j, l, id) = 0
BY DEF OwingPcs, ToShip, ToTake, ToPrepare, ToGot

\* A row that is gone is nobody's.
LEMMA NoRowNothing ==
  \A j, l : ToPrepare(j, l, 0) = 0 /\ ToGot(j, l, 0) = 0
BY DEF ToPrepare, ToGot, Alive

\* A handler goes on with the same lines, or with fewer.
LEMMA OwesAmounts ==
  ASSUME IInv, NEW u \in Users, NEW l \in Lines
  PROVE  /\ ToShip(job[u], l) \in Nat /\ ToTake(job[u], l) \in Nat
         /\ ToPrepare(job[u], l, line[l].id) \in Nat /\ ToGot(job[u], l, line[l].id) \in Nat
         /\ job[u].want[l] \in Nat
<1>1. job[u] \in JobType
  BY CountTypes
<1>2. job[u].want[l] \in Nat
  BY <1>1 DEF JobType, Quantity
<1> QED
  BY <1>1, <1>2, AmountTypes

SameRows == /\ shipped' = shipped /\ taken' = taken
            /\ \A l \in Lines : /\ line'[l].id = line[l].id /\ line'[l].prep = line[l].prep
                                /\ line'[l].recv = line[l].recv
SameLoads == \A t \in Tokens : ship'[t].qty = ship[t].qty /\ ship'[t].got = ship[t].got

LEMMA SameTotals ==
  ASSUME SameLoads
  PROVE  \A l \in Lines : Carried(l)' = Carried(l) /\ Got(l)' = Got(l)
<1> SUFFICES ASSUME NEW l \in Lines PROVE Carried(l)' = Carried(l) /\ Got(l)' = Got(l)
  OBVIOUS
<1>1. [t \in Tokens |-> ship'[t].qty[l]] = [t \in Tokens |-> ship[t].qty[l]]
  BY DEF SameLoads
<1>2. [t \in Tokens |-> ship'[t].got[l]] = [t \in Tokens |-> ship[t].got[l]]
  BY DEF SameLoads
<1> QED
  BY <1>1, <1>2 DEF Carried, Got

\* Nothing is counted, and u owes no more than before.
LEMMA SumsKept ==
  ASSUME IInv, IInv', SumInv, NEW u \in Users, Others(u), SameRows, SameLoads,
         \A l \in Lines :
           /\ ToShip(job'[u], l) <= ToShip(job[u], l)
           /\ ToTake(job'[u], l) <= ToTake(job[u], l)
           /\ ToPrepare(job'[u], l, line[l].id) <= ToPrepare(job[u], l, line[l].id)
           /\ ToGot(job'[u], l, line[l].id) <= ToGot(job[u], l, line[l].id)
  PROVE  SumInv'
<1>1. ASSUME NEW l \in Lines
      PROVE  /\ line[l].prep \in Nat /\ line[l].recv \in Nat
             /\ shipped[l] \in Nat /\ taken[l] \in Nat
             /\ Carried(l) \in Nat /\ Got(l) \in Nat
             /\ job[u] \in JobType /\ job'[u] \in JobType
  BY CountTypes, CountTypesNext
<1>2. ASSUME NEW l \in Lines, NEW v \in Users
      PROVE  /\ ToPrepare(job[v], l, line[l].id) \in Nat /\ ToGot(job[v], l, line[l].id) \in Nat
             /\ ToShip(job[v], l) \in Nat /\ ToTake(job[v], l) \in Nat
  BY OwesAmounts
<1>3. ASSUME NEW l \in Lines
      PROVE  /\ ToPrepare(job'[u], l, line[l].id) \in Nat /\ ToGot(job'[u], l, line[l].id) \in Nat
             /\ ToShip(job'[u], l) \in Nat /\ ToTake(job'[u], l) \in Nat
  BY <1>1, AmountTypes
<1>4. ShipInv'
  <2>1. ASSUME NEW l \in Lines
        PROVE  line'[l].prep + ToShip(job'[u], l) + shipped[l]
                 <= line[l].prep + ToShip(job[u], l) + shipped'[l]
    BY <1>1, <1>2, <1>3 DEF SameRows
  <2> QED
    BY <2>1, ShipStep DEF SumInv
<1>5. TakeInv'
  <2>1. ASSUME NEW l \in Lines
        PROVE  line'[l].recv + ToTake(job'[u], l) + taken[l]
                 <= line[l].recv + ToTake(job[u], l) + taken'[l]
    BY <1>1, <1>2, <1>3 DEF SameRows
  <2> QED
    BY <2>1, TakeStep DEF SumInv
<1>6. PrepareInv'
  <2>1. ASSUME NEW l \in Lines
        PROVE  /\ \A v \in Users \ {u} : ToPrepare(job[v], l, line'[l].id)
                                           <= ToPrepare(job[v], l, line[l].id)
               /\ line'[l].prep + ToPrepare(job'[u], l, line'[l].id) + Carried(l)
                    <= line[l].prep + ToPrepare(job[u], l, line[l].id) + Carried(l)'
    <3>1. line'[l].id = line[l].id /\ line'[l].prep = line[l].prep /\ Carried(l)' = Carried(l)
      BY SameTotals DEF SameRows
    <3>2. \A v \in Users : ToPrepare(job[v], l, line[l].id) \in Nat
      BY <1>2
    <3> QED
      BY <1>1, <1>3, <3>1, <3>2
  <2> QED
    BY <2>1, PrepareStep DEF SumInv
<1>7. GotInv'
  <2>1. ASSUME NEW l \in Lines
        PROVE  /\ \A v \in Users \ {u} : ToGot(job[v], l, line'[l].id)
                                           <= ToGot(job[v], l, line[l].id)
               /\ Got(l)' + ToGot(job'[u], l, line'[l].id) + line[l].recv
                    <= Got(l) + ToGot(job[u], l, line[l].id) + line'[l].recv
    <3>1. line'[l].id = line[l].id /\ line'[l].recv = line[l].recv /\ Got(l)' = Got(l)
      BY SameTotals DEF SameRows
    <3>2. \A v \in Users : ToGot(job[v], l, line[l].id) \in Nat
      BY <1>2
    <3> QED
      BY <1>1, <1>3, <3>1, <3>2
  <2> QED
    BY <2>1, GotStep DEF SumInv
<1> QED
  BY <1>4, <1>5, <1>6, <1>7 DEF SumInv

\* Nothing is counted, and u ends up owing nothing: most steps are of this kind.
LEMMA SumsSettled ==
  ASSUME IInv, IInv', SumInv, NEW u \in Users, Others(u), SameRows, SameLoads,
         job'[u].pc \notin OwingPcs
  PROVE  SumInv'
<1>1. ASSUME NEW l \in Lines
      PROVE  /\ ToShip(job'[u], l) <= ToShip(job[u], l)
             /\ ToTake(job'[u], l) <= ToTake(job[u], l)
             /\ ToPrepare(job'[u], l, line[l].id) <= ToPrepare(job[u], l, line[l].id)
             /\ ToGot(job'[u], l, line[l].id) <= ToGot(job[u], l, line[l].id)
  <2>1. line[l].id \in Nat
    BY DEF IInv, TypeOK
  <2>2. /\ ToShip(job'[u], l) = 0 /\ ToTake(job'[u], l) = 0
        /\ ToPrepare(job'[u], l, line[l].id) = 0 /\ ToGot(job'[u], l, line[l].id) = 0
    BY <2>1, OwesNothing
  <2> QED
    BY <2>2, OwesAmounts
<1> QED
  BY <1>1, SumsKept

LEMMA SumsReturn ==
  ASSUME IInv, IInv', SumInv, NEW u \in Users, Return(u), SameRows, SameLoads
  PROVE  SumInv'
BY SumsSettled, GoFacts, IdleShape DEF Return, OwingPcs, IInv
\* What is to prepare is part of what is to ship.
LEMMA ShipAmounts ==
  ASSUME IInv, IInv', SumInv, NEW u \in Users, Others(u),
         NEW pc \in {"prepare.shipment", "prepare.lines"},
         job'[u].pc = pc, job'[u].want = job[u].want, job'[u].left = job[u].left,
         \A l \in Lines : line'[l] = line[l], SameLoads, taken' = taken,
         \A l \in Lines : shipped[l] + ToShip(job'[u], l) <= shipped'[l] + ToShip(job[u], l)
  PROVE  SumInv'
<1>1. ASSUME NEW l \in Lines
      PROVE  /\ line[l].prep \in Nat /\ line[l].recv \in Nat /\ line[l].id \in Nat
             /\ shipped[l] \in Nat /\ taken[l] \in Nat /\ shipped'[l] \in Nat
             /\ Carried(l) \in Nat /\ Got(l) \in Nat
             /\ job'[u] \in JobType
  BY CountTypes, CountTypesNext DEF IInv, TypeOK
<1>2. ASSUME NEW l \in Lines
      PROVE  /\ ToTake(job'[u], l) = 0
             /\ ToPrepare(job'[u], l, line[l].id) = 0 /\ ToGot(job'[u], l, line[l].id) = 0
             /\ ToShip(job'[u], l) \in Nat
  <2>1. ToShip(job'[u], l) \in Nat
    BY <1>1, AmountTypes
  <2> QED
    BY <2>1 DEF ToTake, ToPrepare, ToGot
<1>3. ASSUME NEW l \in Lines, NEW v \in Users
      PROVE  /\ ToPrepare(job[v], l, line[l].id) \in Nat /\ ToGot(job[v], l, line[l].id) \in Nat
             /\ ToShip(job[v], l) \in Nat /\ ToTake(job[v], l) \in Nat
  BY OwesAmounts
<1>4. ShipInv'
  <2>1. ASSUME NEW l \in Lines
        PROVE  line'[l].prep + ToShip(job'[u], l) + shipped[l]
                 <= line[l].prep + ToShip(job[u], l) + shipped'[l]
    <3>1. shipped[l] + ToShip(job'[u], l) <= shipped'[l] + ToShip(job[u], l)
      OBVIOUS
    <3> QED
      BY <1>1, <1>2, <1>3, <3>1
  <2> QED
    BY <2>1, ShipStep DEF SumInv
<1>5. TakeInv'
  <2>1. ASSUME NEW l \in Lines
        PROVE  line'[l].recv + ToTake(job'[u], l) + taken[l]
                 <= line[l].recv + ToTake(job[u], l) + taken'[l]
    BY <1>1, <1>2, <1>3
  <2> QED
    BY <2>1, TakeStep DEF SumInv
<1>6. PrepareInv'
  <2>1. ASSUME NEW l \in Lines
        PROVE  /\ \A v \in Users \ {u} : ToPrepare(job[v], l, line'[l].id)
                                           <= ToPrepare(job[v], l, line[l].id)
               /\ line'[l].prep + ToPrepare(job'[u], l, line'[l].id) + Carried(l)
                    <= line[l].prep + ToPrepare(job[u], l, line[l].id) + Carried(l)'
    <3>1. Carried(l)' = Carried(l)
      BY SameTotals
    <3>2. \A v \in Users : ToPrepare(job[v], l, line[l].id) \in Nat
      BY <1>3
    <3> QED
      BY <1>1, <1>2, <3>1, <3>2
  <2> QED
    BY <2>1, PrepareStep DEF SumInv
<1>7. GotInv'
  <2>1. ASSUME NEW l \in Lines
        PROVE  /\ \A v \in Users \ {u} : ToGot(job[v], l, line'[l].id)
                                           <= ToGot(job[v], l, line[l].id)
               /\ Got(l)' + ToGot(job'[u], l, line'[l].id) + line[l].recv
                    <= Got(l) + ToGot(job[u], l, line[l].id) + line'[l].recv
    <3>1. Got(l)' = Got(l)
      BY SameTotals
    <3>2. \A v \in Users : ToGot(job[v], l, line[l].id) \in Nat
      BY <1>3
    <3> QED
      BY <1>1, <1>2, <3>1, <3>2
  <2> QED
    BY <2>1, GotStep DEF SumInv
<1> QED
  BY <1>4, <1>5, <1>6, <1>7 DEF SumInv

LEMMA SumsPost ==
  ASSUME IInv, IInv', RowsInv, SumInv, NEW u \in Users, post_transfer_ship(u)
  PROVE  SumInv'
<1>1. ~ship[job[u].tok].made
  BY DEF post_transfer_ship, RowsInv, MadeInv
<1>2. /\ shipped' = Plus(shipped, job[u].want) /\ Goto(u, "prepare.shipment")
      /\ line' = line /\ ship' = ship /\ taken' = taken /\ job[u].pc = "prepare.post"
  BY <1>1 DEF post_transfer_ship, supabase
<1>3. /\ Others(u) /\ job'[u].pc = "prepare.shipment" /\ job'[u].want = job[u].want
      /\ job'[u].left = job[u].left
  BY <1>2, GotoFacts DEF IInv, Keeps
<1>4. ASSUME NEW l \in Lines
      PROVE  shipped[l] + ToShip(job'[u], l) <= shipped'[l] + ToShip(job[u], l)
  <2>1. shipped'[l] = shipped[l] + job[u].want[l] /\ shipped[l] \in Nat
    BY <1>2, CountTypes DEF Plus
  <2>2. ToShip(job[u], l) = 0
    BY <1>2 DEF ToShip
  <2>3. job[u].want[l] \in Nat
    BY OwesAmounts
  <2>4. ToShip(job'[u], l) \in {0, job[u].want[l]}
    BY <1>3 DEF ToShip
  <2> QED
    BY <2>1, <2>2, <2>3, <2>4
<1>5. SameLoads
  BY <1>2 DEF SameLoads
<1> QED
  BY <1>2, <1>3, <1>4, <1>5, ShipAmounts

LEMMA SumsCreate ==
  ASSUME IInv, IInv', SumInv, NEW u \in Users, create_shipment(u)
  PROVE  SumInv'
<1>1. ship \in [Tokens -> Ships]
  BY DEF IInv, TypeOK, Ships
<1>2. SameLoads
  BY <1>1 DEF create_shipment, SameLoads, Ships
<1>3. /\ line' = line /\ taken' = taken /\ shipped' = shipped
      /\ job[u].pc = "prepare.shipment"
  BY DEF create_shipment, parts9
<1>4. CASE Return(u)
  BY <1>2, <1>3, <1>4, SumsReturn DEF SameRows
<1>5. CASE Goto(u, "prepare.lines")
  <2>1. /\ Others(u) /\ job'[u].pc = "prepare.lines" /\ job'[u].want = job[u].want
        /\ job'[u].left = job[u].left
    BY <1>5, GotoFacts DEF IInv, Keeps
  <2>2. ASSUME NEW l \in Lines
        PROVE  shipped[l] + ToShip(job'[u], l) <= shipped'[l] + ToShip(job[u], l)
    <3>1. ToShip(job'[u], l) = ToShip(job[u], l)
      BY <1>3, <2>1 DEF ToShip
    <3>2. shipped[l] \in Nat /\ ToShip(job[u], l) \in Nat
      BY CountTypes, OwesAmounts
    <3> QED
      BY <1>3, <3>1, <3>2
  <2> QED
    BY <1>2, <1>3, <2>1, <2>2, ShipAmounts
<1> QED
  BY <1>4, <1>5 DEF create_shipment

\* The lines of the shipment are written: it was empty, so they add up.
LEMMA SumsLines ==
  ASSUME IInv, IInv', FreshInv, SumInv, NEW u \in Users, add_shipment_lines(u)
  PROVE  SumInv'
<1>0. /\ ship \in [Tokens -> Ships] /\ job[u] \in JobType /\ job[u].pc = "prepare.lines"
  BY CountTypes DEF IInv, TypeOK, Ships, add_shipment_lines
<1>1. job[u].tok \in Tokens
  BY <1>0 DEF IInv, JobsOK, JobOK, PreparePcs
<1>2. \A l \in Lines : ship[job[u].tok].qty[l] = 0
  BY <1>0 DEF FreshInv, UnshippedBlank, Unshipped, Blank
<1>3. ~HasLines(job[u].tok)
  BY <1>2 DEF HasLines
<1>4. /\ line' = line /\ taken' = taken /\ shipped' = shipped
  BY DEF add_shipment_lines, parts9
<1>5. CASE ship' = ship /\ Return(u)
  BY <1>4, <1>5, SumsReturn DEF SameRows, SameLoads
<1>6. CASE ship' = [ship EXCEPT ![job[u].tok].qty = job[u].want] /\ Goto(u, "prepare.bump")
  <2>1. /\ Others(u) /\ job'[u].pc = "prepare.bump" /\ job'[u].want = job[u].want
        /\ job'[u].left = job[u].left
    BY <1>6, GotoFacts DEF IInv, Keeps
  <2>2. /\ \A t \in Tokens : ship'[t].got = ship[t].got
        /\ \A t \in Tokens \ {job[u].tok} : ship'[t].qty = ship[t].qty
        /\ ship'[job[u].tok].qty = job[u].want
    BY <1>0, <1>1, <1>6 DEF Ships
  <2>3. ASSUME NEW l \in Lines
        PROVE  /\ line[l].prep \in Nat /\ line[l].recv \in Nat /\ line[l].id \in Nat
               /\ shipped[l] \in Nat /\ taken[l] \in Nat /\ job[u].want[l] \in Nat
               /\ Carried(l) \in Nat /\ Got(l) \in Nat
    BY CountTypes, OwesAmounts DEF IInv, TypeOK
  <2>4. ASSUME NEW l \in Lines
        PROVE  /\ ToTake(job'[u], l) = 0 /\ ToTake(job[u], l) = 0
               /\ ToGot(job'[u], l, line[l].id) = 0 /\ ToGot(job[u], l, line[l].id) = 0
               /\ ToShip(job'[u], l) = ToShip(job[u], l)
               /\ ToPrepare(job[u], l, line[l].id) = 0
               /\ ToPrepare(job'[u], l, line[l].id) \in {0, job[u].want[l]}
    BY <1>0, <2>1 DEF ToTake, ToPrepare, ToGot, ToShip
  <2>5. ASSUME NEW l \in Lines
        PROVE  Carried(l)' = Carried(l) + job[u].want[l]
    <3> DEFINE c == [t \in Tokens |-> ship[t].qty[l]]
               d == [t \in Tokens |-> ship'[t].qty[l]]
    <3>1. c \in [Tokens -> 0..MaxQty]
      BY <1>0 DEF Ships, Quantity
    <3>2. d \in [Tokens -> 0..MaxQty]
      <4>1. ship' \in [Tokens -> Ships]
        BY DEF IInv, TypeOK, Ships
      <4> QED
        BY <4>1 DEF Ships, Quantity
    <3>3. c[job[u].tok] = 0 /\ d[job[u].tok] = job[u].want[l]
      BY <1>1, <1>2, <2>2
    <3>4. \A t \in Tokens \ {job[u].tok} : d[t] = c[t]
      BY <2>2
    <3>5. Carried(l) = Total(Tokens, c) /\ Carried(l)' = Total(Tokens, d)
      BY DEF Carried
    <3> HIDE DEF c, d
    <3>6. /\ Total(Tokens, c) \in Nat /\ Total(Tokens, d) \in Nat
          /\ Total(Tokens, d) + c[job[u].tok] = Total(Tokens, c) + d[job[u].tok]
      BY <1>1, <3>1, <3>2, <3>4, TotalMove
    <3> QED
      BY <2>3, <3>3, <3>5, <3>6
  <2>6. ASSUME NEW l \in Lines PROVE Got(l)' = Got(l)
    <3>1. [t \in Tokens |-> ship'[t].got[l]] = [t \in Tokens |-> ship[t].got[l]]
      BY <2>2
    <3> QED
      BY <3>1 DEF Got
  <2>7. ASSUME NEW l \in Lines, NEW v \in Users
        PROVE  /\ ToPrepare(job[v], l, line[l].id) \in Nat /\ ToGot(job[v], l, line[l].id) \in Nat
               /\ ToShip(job[v], l) \in Nat
    BY OwesAmounts
  <2>8. ShipInv'
    <3>1. ASSUME NEW l \in Lines
          PROVE  line'[l].prep + ToShip(job'[u], l) + shipped[l]
                   <= line[l].prep + ToShip(job[u], l) + shipped'[l]
      BY <1>4, <2>3, <2>4, <2>7
    <3> QED
      BY <2>1, <3>1, ShipStep DEF SumInv
  <2>9. TakeInv'
    <3>1. ASSUME NEW l \in Lines
          PROVE  line'[l].recv + ToTake(job'[u], l) + taken[l]
                   <= line[l].recv + ToTake(job[u], l) + taken'[l]
      BY <1>4, <2>3, <2>4
    <3> QED
      BY <2>1, <3>1, TakeStep DEF SumInv
  <2>10. PrepareInv'
    <3>1. ASSUME NEW l \in Lines
          PROVE  /\ \A v \in Users \ {u} : ToPrepare(job[v], l, line'[l].id)
                                             <= ToPrepare(job[v], l, line[l].id)
                 /\ line'[l].prep + ToPrepare(job'[u], l, line'[l].id) + Carried(l)
                      <= line[l].prep + ToPrepare(job[u], l, line[l].id) + Carried(l)'
      <4>1. \A v \in Users : ToPrepare(job[v], l, line[l].id) \in Nat
        BY <2>7
      <4>2. line[l].prep + ToPrepare(job'[u], l, line[l].id) + Carried(l)
              <= line[l].prep + 0 + (Carried(l) + job[u].want[l])
        BY <2>3, <2>4
      <4> QED
        BY <1>4, <2>4, <2>5, <4>1, <4>2
    <3> QED
      BY <2>1, <3>1, PrepareStep DEF SumInv
  <2>11. GotInv'
    <3>1. ASSUME NEW l \in Lines
          PROVE  /\ \A v \in Users \ {u} : ToGot(job[v], l, line'[l].id)
                                             <= ToGot(job[v], l, line[l].id)
                 /\ Got(l)' + ToGot(job'[u], l, line'[l].id) + line[l].recv
                      <= Got(l) + ToGot(job[u], l, line[l].id) + line'[l].recv
      <4>1. \A v \in Users : ToGot(job[v], l, line[l].id) \in Nat
        BY <2>7
      <4> QED
        BY <1>4, <2>3, <2>4, <2>6, <4>1
    <3> QED
      BY <2>1, <3>1, GotStep DEF SumInv
  <2> QED
    BY <2>8, <2>9, <2>10, <2>11 DEF SumInv
<1> QED
  BY <1>3, <1>5, <1>6 DEF add_shipment_lines
LEMMA SumsBump ==
  ASSUME IInv, IInv', SumInv, NEW u \in Users, NEW k \in Lines, bump_line_prepared(u, k)
  PROVE  SumInv'
<1>0. /\ line \in [Lines -> Rows] /\ job[u] \in JobType /\ job[u].pc = "prepare.bump"
      /\ k \in job[u].left /\ ship' = ship /\ shipped' = shipped /\ taken' = taken
  BY CountTypes DEF IInv, TypeOK, Rows, bump_line_prepared, parts9
<1>1. SameLoads
  BY <1>0 DEF SameLoads
<1>2. CASE line' = line /\ Return(u)
  BY <1>0, <1>1, <1>2, SumsReturn DEF SameRows
<1>3. CASE /\ StillThere(u, k) /\ Done(u, k, "prepare.bump", "refresh.read")
           /\ line' = [line EXCEPT ![k].prep = @ + job[u].want[k]]
  <2>1. /\ \A l \in Lines : line'[l].id = line[l].id /\ line'[l].recv = line[l].recv
        /\ \A l \in Lines \ {k} : line'[l].prep = line[l].prep
        /\ line'[k].prep = line[k].prep + job[u].want[k]
    BY <1>0, <1>3 DEF Rows
  <2>2. /\ Others(u)
        /\ \/ /\ Keeps(u) /\ job'[u].pc = "prepare.bump"
              /\ job'[u].left = job[u].left \ {k}
           \/ job'[u].pc \notin OwingPcs
    BY <1>3, DoneFacts, IdleShape DEF IInv, OwingPcs
  <2>3. ASSUME NEW l \in Lines
        PROVE  /\ line[l].prep \in Nat /\ line[l].recv \in Nat /\ line[l].id \in Nat
               /\ shipped[l] \in Nat /\ taken[l] \in Nat /\ job[u].want[l] \in Nat
               /\ Carried(l) \in Nat /\ Got(l) \in Nat
    BY CountTypes, OwesAmounts DEF IInv, TypeOK
  <2>4. ASSUME NEW l \in Lines, NEW v \in Users
        PROVE  /\ ToPrepare(job[v], l, line[l].id) \in Nat /\ ToGot(job[v], l, line[l].id) \in Nat
               /\ ToShip(job[v], l) \in Nat /\ ToTake(job[v], l) \in Nat
    BY OwesAmounts
  <2>5. ASSUME NEW l \in Lines
        PROVE  /\ ToTake(job'[u], l) = 0 /\ ToGot(job'[u], l, line[l].id) = 0
               /\ ToShip(job'[u], l) \in {0, ToShip(job[u], l)}
               /\ ToPrepare(job'[u], l, line[l].id) \in {0, ToPrepare(job[u], l, line[l].id)}
               /\ l = k => ToShip(job'[u], l) = 0 /\ ToPrepare(job'[u], l, line[l].id) = 0
    <3>1. CASE job'[u].pc \notin OwingPcs
      BY <2>3, <3>1, OwesNothing
    <3>2. CASE Keeps(u) /\ job'[u].pc = "prepare.bump" /\ job'[u].left = job[u].left \ {k}
      BY <1>0, <3>2 DEF Keeps, ToTake, ToGot, ToShip, ToPrepare, Alive
    <3> QED
      BY <2>2, <3>1, <3>2
  <2>6. /\ ToShip(job[u], k) = job[u].want[k]
        /\ ToPrepare(job[u], k, line[k].id) = job[u].want[k]
    BY <1>0, <1>3 DEF ToShip, ToPrepare, Alive, StillThere
  <2>7. ShipInv'
    <3>1. ASSUME NEW l \in Lines
          PROVE  line'[l].prep + ToShip(job'[u], l) + shipped[l]
                   <= line[l].prep + ToShip(job[u], l) + shipped'[l]
      <4>1. CASE l = k
        BY <1>0, <2>1, <2>3, <2>5, <2>6, <4>1
      <4>2. CASE l # k
        BY <1>0, <2>1, <2>3, <2>4, <2>5, <4>2
      <4> QED
        BY <4>1, <4>2
    <3> QED
      BY <2>2, <3>1, ShipStep DEF SumInv
  <2>8. TakeInv'
    <3>1. ASSUME NEW l \in Lines
          PROVE  line'[l].recv + ToTake(job'[u], l) + taken[l]
                   <= line[l].recv + ToTake(job[u], l) + taken'[l]
      BY <1>0, <2>1, <2>3, <2>4, <2>5
    <3> QED
      BY <2>2, <3>1, TakeStep DEF SumInv
  <2>9. PrepareInv'
    <3>1. ASSUME NEW l \in Lines
          PROVE  /\ \A v \in Users \ {u} : ToPrepare(job[v], l, line'[l].id)
                                             <= ToPrepare(job[v], l, line[l].id)
                 /\ line'[l].prep + ToPrepare(job'[u], l, line'[l].id) + Carried(l)
                      <= line[l].prep + ToPrepare(job[u], l, line[l].id) + Carried(l)'
      <4>0. Carried(l)' = Carried(l) /\ \A v \in Users : ToPrepare(job[v], l, line[l].id) \in Nat
        BY <1>1, <2>4, SameTotals
      <4>1. CASE l = k
        BY <2>1, <2>3, <2>5, <2>6, <4>0, <4>1
      <4>2. CASE l # k
        BY <2>1, <2>3, <2>5, <4>0, <4>2
      <4> QED
        BY <4>1, <4>2
    <3> QED
      BY <2>2, <3>1, PrepareStep DEF SumInv
  <2>10. GotInv'
    <3>1. ASSUME NEW l \in Lines
          PROVE  /\ \A v \in Users \ {u} : ToGot(job[v], l, line'[l].id)
                                             <= ToGot(job[v], l, line[l].id)
                 /\ Got(l)' + ToGot(job'[u], l, line'[l].id) + line[l].recv
                      <= Got(l) + ToGot(job[u], l, line[l].id) + line'[l].recv
      <4>1. Got(l)' = Got(l) /\ \A v \in Users : ToGot(job[v], l, line[l].id) \in Nat
        BY <1>1, <2>4, SameTotals
      <4> QED
        BY <2>1, <2>3, <2>5, <4>1
    <3> QED
      BY <2>2, <3>1, GotStep DEF SumInv
  <2> QED
    BY <2>7, <2>8, <2>9, <2>10 DEF SumInv
<1> QED
  BY <1>2, <1>3 DEF bump_line_prepared

LEMMA SumsPrepare ==
  ASSUME IInv, IInv', FreshInv, RowsInv, SumInv, NEW u \in Users, Prepare(u)
  PROVE  SumInv'
<1>1. ASSUME NEW t \in Tokens, NEW want \in Quantity, PrepareRead(u, t, want) PROVE SumInv'
  <2> DEFINE j == [Idle EXCEPT !.pc = "prepare.post", !.tok = t, !.want = want,
                               !.ids = Ids, !.left = Body(want)]
  <2>1. j.pc = "prepare.post"
    BY DEF Idle
  <2>2. Others(u) /\ job'[u] = j
    BY <1>1, GoFacts DEF PrepareRead, IInv
  <2> HIDE DEF j
  <2>3. SameRows /\ SameLoads
    BY <1>1 DEF PrepareRead, SameRows, SameLoads, supabase, parts9
  <2> QED
    BY <2>1, <2>2, <2>3, SumsSettled DEF OwingPcs
<1> QED
  BY <1>1, SumsPost, SumsCreate, SumsLines, SumsBump DEF Prepare

-----------------------------------------------------------------------------
\* A receipt is posted, or written down: what is to take is what was wanted.
LEMMA TakeAmounts ==
  ASSUME IInv, IInv', SumInv, NEW u \in Users, Others(u),
         NEW pc \in {"receive.receipt", "receive.line"},
         job'[u].pc = pc, job'[u].want = job[u].want, job'[u].left = job[u].left,
         \A l \in Lines : line'[l] = line[l], SameLoads, shipped' = shipped,
         \A l \in Lines : taken[l] + ToTake(job'[u], l) <= taken'[l] + ToTake(job[u], l)
  PROVE  SumInv'
<1>1. ASSUME NEW l \in Lines
      PROVE  /\ line[l].prep \in Nat /\ line[l].recv \in Nat /\ line[l].id \in Nat
             /\ shipped[l] \in Nat /\ taken[l] \in Nat /\ taken'[l] \in Nat
             /\ Carried(l) \in Nat /\ Got(l) \in Nat
             /\ job'[u] \in JobType
  BY CountTypes, CountTypesNext DEF IInv, TypeOK
<1>2. ASSUME NEW l \in Lines
      PROVE  /\ ToShip(job'[u], l) = 0
             /\ ToPrepare(job'[u], l, line[l].id) = 0 /\ ToGot(job'[u], l, line[l].id) = 0
             /\ ToTake(job'[u], l) \in Nat
  <2>1. ToTake(job'[u], l) \in Nat
    BY <1>1, AmountTypes
  <2> QED
    BY <2>1 DEF ToShip, ToPrepare, ToGot
<1>3. ASSUME NEW l \in Lines, NEW v \in Users
      PROVE  /\ ToPrepare(job[v], l, line[l].id) \in Nat /\ ToGot(job[v], l, line[l].id) \in Nat
             /\ ToShip(job[v], l) \in Nat /\ ToTake(job[v], l) \in Nat
  BY OwesAmounts
<1>4. ShipInv'
  <2>1. ASSUME NEW l \in Lines
        PROVE  line'[l].prep + ToShip(job'[u], l) + shipped[l]
                 <= line[l].prep + ToShip(job[u], l) + shipped'[l]
    BY <1>1, <1>2, <1>3
  <2> QED
    BY <2>1, ShipStep DEF SumInv
<1>5. TakeInv'
  <2>1. ASSUME NEW l \in Lines
        PROVE  line'[l].recv + ToTake(job'[u], l) + taken[l]
                 <= line[l].recv + ToTake(job[u], l) + taken'[l]
    <3>1. taken[l] + ToTake(job'[u], l) <= taken'[l] + ToTake(job[u], l)
      OBVIOUS
    <3> QED
      BY <1>1, <1>2, <1>3, <3>1
  <2> QED
    BY <2>1, TakeStep DEF SumInv
<1>6. PrepareInv'
  <2>1. ASSUME NEW l \in Lines
        PROVE  /\ \A v \in Users \ {u} : ToPrepare(job[v], l, line'[l].id)
                                           <= ToPrepare(job[v], l, line[l].id)
               /\ line'[l].prep + ToPrepare(job'[u], l, line'[l].id) + Carried(l)
                    <= line[l].prep + ToPrepare(job[u], l, line[l].id) + Carried(l)'
    <3>1. Carried(l)' = Carried(l) /\ \A v \in Users : ToPrepare(job[v], l, line[l].id) \in Nat
      BY <1>3, SameTotals
    <3> QED
      BY <1>1, <1>2, <3>1
  <2> QED
    BY <2>1, PrepareStep DEF SumInv
<1>7. GotInv'
  <2>1. ASSUME NEW l \in Lines
        PROVE  /\ \A v \in Users \ {u} : ToGot(job[v], l, line'[l].id)
                                           <= ToGot(job[v], l, line[l].id)
               /\ Got(l)' + ToGot(job'[u], l, line'[l].id) + line[l].recv
                    <= Got(l) + ToGot(job[u], l, line[l].id) + line'[l].recv
    <3>1. Got(l)' = Got(l) /\ \A v \in Users : ToGot(job[v], l, line[l].id) \in Nat
      BY <1>3, SameTotals
    <3> QED
      BY <1>1, <1>2, <3>1
  <2> QED
    BY <2>1, GotStep DEF SumInv
<1> QED
  BY <1>4, <1>5, <1>6, <1>7 DEF SumInv

LEMMA SumsTake ==
  ASSUME IInv, IInv', SumInv, NEW u \in Users,
         post_transfer_receive(u) \/ create_receipt(u)
  PROVE  SumInv'
<1>1. /\ line' = line /\ ship' = ship /\ shipped' = shipped
      /\ job[u].pc \in {"receive.post", "receive.receipt"}
  BY DEF post_transfer_receive, create_receipt, supabase, parts9
<1>2. SameLoads
  BY <1>1 DEF SameLoads
<1>3. CASE Return(u) /\ taken' = taken
  BY <1>1, <1>2, <1>3, SumsReturn DEF SameRows
<1>4. CASE /\ job[u].pc = "receive.post" /\ Goto(u, "receive.receipt")
           /\ taken' = Plus(taken, job[u].want)
  <2>1. /\ Others(u) /\ job'[u].pc = "receive.receipt" /\ job'[u].want = job[u].want
        /\ job'[u].left = job[u].left
    BY <1>4, GotoFacts DEF IInv, Keeps
  <2>2. ASSUME NEW l \in Lines
        PROVE  taken[l] + ToTake(job'[u], l) <= taken'[l] + ToTake(job[u], l)
    <3>1. taken'[l] = taken[l] + job[u].want[l] /\ taken[l] \in Nat
      BY <1>4, CountTypes DEF Plus
    <3>2. ToTake(job[u], l) = 0
      BY <1>4 DEF ToTake
    <3>3. job[u].want[l] \in Nat
      BY OwesAmounts
    <3>4. ToTake(job'[u], l) \in {0, job[u].want[l]}
      BY <2>1 DEF ToTake
    <3> QED
      BY <3>1, <3>2, <3>3, <3>4
  <2> QED
    BY <1>1, <1>2, <2>1, <2>2, TakeAmounts
<1>5. CASE job[u].pc = "receive.receipt" /\ Goto(u, "receive.line") /\ taken' = taken
  <2>1. /\ Others(u) /\ job'[u].pc = "receive.line" /\ job'[u].want = job[u].want
        /\ job'[u].left = job[u].left
    BY <1>5, GotoFacts DEF IInv, Keeps
  <2>2. ASSUME NEW l \in Lines
        PROVE  taken[l] + ToTake(job'[u], l) <= taken'[l] + ToTake(job[u], l)
    <3>1. ToTake(job'[u], l) = ToTake(job[u], l)
      BY <1>5, <2>1 DEF ToTake
    <3>2. taken[l] \in Nat /\ ToTake(job[u], l) \in Nat
      BY CountTypes, OwesAmounts
    <3> QED
      BY <1>5, <3>1, <3>2
  <2> QED
    BY <1>1, <1>2, <2>1, <2>2, TakeAmounts
<1> QED
  BY <1>3, <1>4, <1>5 DEF post_transfer_receive, create_receipt, parts9
LEMMA SumsGotLine ==
  ASSUME IInv, IInv', SumInv, NEW u \in Users, NEW k \in Lines, bump_line_received(u, k)
  PROVE  SumInv'
<1>0. /\ line \in [Lines -> Rows] /\ job[u] \in JobType /\ job[u].pc = "receive.line"
      /\ k \in job[u].left /\ ship' = ship /\ shipped' = shipped /\ taken' = taken
  BY CountTypes DEF IInv, TypeOK, Rows, bump_line_received, parts9
<1>1. SameLoads
  BY <1>0 DEF SameLoads
<1>2. CASE line' = line /\ Return(u)
  BY <1>0, <1>1, <1>2, SumsReturn DEF SameRows
<1> DEFINE j == [job[u] EXCEPT !.pc = "receive.shipline", !.cur = k]
<1>3. CASE /\ StillThere(u, k) /\ Go(u, j)
           /\ line' = [line EXCEPT ![k].recv = @ + job[u].want[k]]
  <2>1. /\ \A l \in Lines : line'[l].id = line[l].id /\ line'[l].prep = line[l].prep
        /\ \A l \in Lines \ {k} : line'[l].recv = line[l].recv
        /\ line'[k].recv = line[k].recv + job[u].want[k]
    BY <1>0, <1>3 DEF Rows
  <2>2. /\ Others(u) /\ job'[u].pc = "receive.shipline" /\ job'[u].cur = k
        /\ job'[u].want = job[u].want /\ job'[u].left = job[u].left /\ job'[u].ids = job[u].ids
    <3>1. /\ j.pc = "receive.shipline" /\ j.cur = k
          /\ j.want = job[u].want /\ j.left = job[u].left /\ j.ids = job[u].ids
      BY <1>0 DEF JobType
    <3> HIDE DEF j
    <3> QED
      BY <1>3, <3>1, GoFacts DEF IInv
  <2>3. ASSUME NEW l \in Lines
        PROVE  /\ line[l].prep \in Nat /\ line[l].recv \in Nat /\ line[l].id \in Nat
               /\ shipped[l] \in Nat /\ taken[l] \in Nat /\ job[u].want[l] \in Nat
               /\ Carried(l) \in Nat /\ Got(l) \in Nat
    BY CountTypes, OwesAmounts DEF IInv, TypeOK
  <2>4. ASSUME NEW l \in Lines, NEW v \in Users
        PROVE  /\ ToPrepare(job[v], l, line[l].id) \in Nat /\ ToGot(job[v], l, line[l].id) \in Nat
               /\ ToShip(job[v], l) \in Nat /\ ToTake(job[v], l) \in Nat
    BY OwesAmounts
  <2>5. ASSUME NEW l \in Lines
        PROVE  /\ ToShip(job'[u], l) = 0 /\ ToPrepare(job'[u], l, line[l].id) = 0
               /\ ToTake(job'[u], l) = IF l = k THEN 0 ELSE ToTake(job[u], l)
               /\ ToGot(job'[u], l, line[l].id) = IF l = k THEN job[u].want[k] ELSE 0
    BY <1>0, <1>3, <2>2 DEF ToShip, ToPrepare, ToTake, ToGot, Alive, StillThere
  <2>6. ToTake(job[u], k) = job[u].want[k]
    BY <1>0 DEF ToTake
  <2>7. ShipInv'
    <3>1. ASSUME NEW l \in Lines
          PROVE  line'[l].prep + ToShip(job'[u], l) + shipped[l]
                   <= line[l].prep + ToShip(job[u], l) + shipped'[l]
      BY <1>0, <2>1, <2>3, <2>4, <2>5
    <3> QED
      BY <2>2, <3>1, ShipStep DEF SumInv
  <2>8. TakeInv'
    <3>1. ASSUME NEW l \in Lines
          PROVE  line'[l].recv + ToTake(job'[u], l) + taken[l]
                   <= line[l].recv + ToTake(job[u], l) + taken'[l]
      <4>1. CASE l = k
        BY <1>0, <2>1, <2>3, <2>5, <2>6, <4>1
      <4>2. CASE l # k
        BY <1>0, <2>1, <2>3, <2>4, <2>5, <4>2
      <4> QED
        BY <4>1, <4>2
    <3> QED
      BY <2>2, <3>1, TakeStep DEF SumInv
  <2>9. PrepareInv'
    <3>1. ASSUME NEW l \in Lines
          PROVE  /\ \A v \in Users \ {u} : ToPrepare(job[v], l, line'[l].id)
                                             <= ToPrepare(job[v], l, line[l].id)
                 /\ line'[l].prep + ToPrepare(job'[u], l, line'[l].id) + Carried(l)
                      <= line[l].prep + ToPrepare(job[u], l, line[l].id) + Carried(l)'
      <4>1. Carried(l)' = Carried(l) /\ \A v \in Users : ToPrepare(job[v], l, line[l].id) \in Nat
        BY <1>1, <2>4, SameTotals
      <4> QED
        BY <2>1, <2>3, <2>5, <4>1
    <3> QED
      BY <2>2, <3>1, PrepareStep DEF SumInv
  <2>10. GotInv'
    <3>1. ASSUME NEW l \in Lines
          PROVE  /\ \A v \in Users \ {u} : ToGot(job[v], l, line'[l].id)
                                             <= ToGot(job[v], l, line[l].id)
                 /\ Got(l)' + ToGot(job'[u], l, line'[l].id) + line[l].recv
                      <= Got(l) + ToGot(job[u], l, line[l].id) + line'[l].recv
      <4>0. Got(l)' = Got(l) /\ \A v \in Users : ToGot(job[v], l, line[l].id) \in Nat
        BY <1>1, <2>4, SameTotals
      <4>1. CASE l = k
        BY <2>1, <2>3, <2>5, <4>0, <4>1
      <4>2. CASE l # k
        BY <2>1, <2>3, <2>5, <4>0, <4>2
      <4> QED
        BY <4>1, <4>2
    <3> QED
      BY <2>2, <3>1, GotStep DEF SumInv
  <2> QED
    BY <2>7, <2>8, <2>9, <2>10 DEF SumInv
<1> QED
  BY <1>2, <1>3 DEF bump_line_received

\* The line in hand is done: what is left to take is what was left beside it.
LEMMA TakeDone ==
  ASSUME IInv, NEW u \in Users, NEW k \in Lines, k = job[u].cur,
         job[u].pc \in {"receive.shipline", "receive.mark"},
         Done(u, k, "receive.line", "receive.posted")
  PROVE  /\ Others(u)
         /\ \A l \in Lines : /\ ToTake(job'[u], l) \in {0, ToTake(job[u], l)}
                             /\ ToShip(job'[u], l) = 0
                             /\ ToPrepare(job'[u], l, line[l].id) = 0
                             /\ ToGot(job'[u], l, line[l].id) = 0
<1>1. /\ Others(u)
      /\ \/ Keeps(u) /\ job'[u].pc = "receive.line" /\ job'[u].left = job[u].left \ {k}
         \/ job'[u].pc \notin OwingPcs
  BY DoneFacts, IdleShape DEF IInv, OwingPcs
<1>2. \A l \in Lines : line[l].id \in Nat
  BY DEF IInv, TypeOK
<1>3. CASE job'[u].pc \notin OwingPcs
  BY <1>1, <1>2, <1>3, OwesNothing
<1>4. CASE Keeps(u) /\ job'[u].pc = "receive.line" /\ job'[u].left = job[u].left \ {k}
  BY <1>1, <1>4 DEF Keeps, ToTake, ToShip, ToPrepare, ToGot
<1> QED
  BY <1>1, <1>3, <1>4

LEMMA SumsGotShip ==
  ASSUME IInv, IInv', SumInv, NEW u \in Users, bump_shipment_line_received(u)
  PROVE  SumInv'
<1>0. /\ ship \in [Tokens -> Ships] /\ job[u] \in JobType /\ job[u].pc = "receive.shipline"
      /\ line' = line /\ shipped' = shipped /\ taken' = taken
  BY CountTypes DEF IInv, TypeOK, Ships, bump_shipment_line_received, parts9
<1>1. PICK k \in Lines, s \in Tokens : k = job[u].cur /\ s = job[u].sid
  BY <1>0 DEF IInv, JobsOK, JobOK, CurPcs, ReceivePcs
<1>2. CASE ship' = ship /\ Return(u)
  BY <1>0, <1>2, SumsReturn DEF SameRows, SameLoads
<1>3. CASE /\ StillThere(u, k) /\ ship' = [ship EXCEPT ![s].got[k] = @ + job[u].want[k]]
           /\ \/ Goto(u, "receive.mark")
              \/ Done(u, k, "receive.line", "receive.posted")
  <2>1. /\ \A t \in Tokens : ship'[t].qty = ship[t].qty
        /\ \A t \in Tokens, l \in Lines : t # s \/ l # k => ship'[t].got[l] = ship[t].got[l]
        /\ ship'[s].got[k] = ship[s].got[k] + job[u].want[k]
    BY <1>0, <1>1, <1>3 DEF Ships, Quantity
  <2>2. /\ Others(u)
        /\ \A l \in Lines : /\ ToTake(job'[u], l) \in {0, ToTake(job[u], l)}
                            /\ ToShip(job'[u], l) = 0
                            /\ ToPrepare(job'[u], l, line[l].id) = 0
                            /\ ToGot(job'[u], l, line[l].id) = 0
    <3>1. CASE Goto(u, "receive.mark")
      <4>1. /\ Others(u) /\ Keeps(u) /\ job'[u].pc = "receive.mark"
            /\ job'[u].left = job[u].left /\ job'[u].cur = job[u].cur
        BY <3>1, GotoFacts DEF IInv
      <4> QED
        BY <1>0, <4>1 DEF Keeps, ToTake, ToShip, ToPrepare, ToGot
    <3>2. CASE Done(u, k, "receive.line", "receive.posted")
      BY <1>0, <1>1, <3>2, TakeDone
    <3> QED
      BY <1>3, <3>1, <3>2
  <2>3. ASSUME NEW l \in Lines
        PROVE  /\ line[l].prep \in Nat /\ line[l].recv \in Nat /\ line[l].id \in Nat
               /\ shipped[l] \in Nat /\ taken[l] \in Nat /\ job[u].want[l] \in Nat
               /\ Carried(l) \in Nat /\ Got(l) \in Nat
    BY CountTypes, OwesAmounts DEF IInv, TypeOK
  <2>4. ASSUME NEW l \in Lines, NEW v \in Users
        PROVE  /\ ToPrepare(job[v], l, line[l].id) \in Nat /\ ToGot(job[v], l, line[l].id) \in Nat
               /\ ToShip(job[v], l) \in Nat /\ ToTake(job[v], l) \in Nat
    BY OwesAmounts
  <2>5. ToGot(job[u], k, line[k].id) = job[u].want[k]
    BY <1>0, <1>1, <1>3 DEF ToGot, Alive, StillThere
  <2>6. Got(k)' = Got(k) + job[u].want[k]
    <3> DEFINE c == [t \in Tokens |-> ship[t].got[k]]
               d == [t \in Tokens |-> ship'[t].got[k]]
    <3>1. c \in [Tokens -> 0..MaxQty]
      BY <1>0, <1>1 DEF Ships, Quantity
    <3>2. d \in [Tokens -> 0..MaxQty]
      <4>1. ship' \in [Tokens -> Ships]
        BY DEF IInv, TypeOK, Ships
      <4> QED
        BY <1>1, <4>1 DEF Ships, Quantity
    <3>3. /\ c[s] = ship[s].got[k] /\ d[s] = ship[s].got[k] + job[u].want[k]
          /\ c[s] \in Nat
      BY <1>1, <2>1, <3>1
    <3>4. \A t \in Tokens \ {s} : d[t] = c[t]
      BY <1>1, <2>1
    <3>5. Got(k) = Total(Tokens, c) /\ Got(k)' = Total(Tokens, d)
      BY DEF Got
    <3> HIDE DEF c, d
    <3>8. /\ Total(Tokens, c) \in Nat /\ Total(Tokens, d) \in Nat
          /\ Total(Tokens, d) + c[s] = Total(Tokens, c) + d[s]
      BY <1>1, <3>1, <3>2, <3>4, TotalMove
    <3> QED
      BY <1>1, <2>3, <3>3, <3>5, <3>8
  <2>7. ASSUME NEW l \in Lines
        PROVE  Carried(l)' = Carried(l) /\ (l # k => Got(l)' = Got(l))
    <3>1. [t \in Tokens |-> ship'[t].qty[l]] = [t \in Tokens |-> ship[t].qty[l]]
      BY <2>1
    <3>2. l # k => [t \in Tokens |-> ship'[t].got[l]] = [t \in Tokens |-> ship[t].got[l]]
      BY <2>1
    <3> QED
      BY <3>1, <3>2 DEF Carried, Got
  <2>8. ShipInv'
    <3>1. ASSUME NEW l \in Lines
          PROVE  line'[l].prep + ToShip(job'[u], l) + shipped[l]
                   <= line[l].prep + ToShip(job[u], l) + shipped'[l]
      BY <1>0, <2>2, <2>3, <2>4
    <3> QED
      BY <2>2, <3>1, ShipStep DEF SumInv
  <2>9. TakeInv'
    <3>1. ASSUME NEW l \in Lines
          PROVE  line'[l].recv + ToTake(job'[u], l) + taken[l]
                   <= line[l].recv + ToTake(job[u], l) + taken'[l]
      BY <1>0, <2>2, <2>3, <2>4
    <3> QED
      BY <2>2, <3>1, TakeStep DEF SumInv
  <2>10. PrepareInv'
    <3>1. ASSUME NEW l \in Lines
          PROVE  /\ \A v \in Users \ {u} : ToPrepare(job[v], l, line'[l].id)
                                             <= ToPrepare(job[v], l, line[l].id)
                 /\ line'[l].prep + ToPrepare(job'[u], l, line'[l].id) + Carried(l)
                      <= line[l].prep + ToPrepare(job[u], l, line[l].id) + Carried(l)'
      <4>1. \A v \in Users : ToPrepare(job[v], l, line[l].id) \in Nat
        BY <2>4
      <4> QED
        BY <1>0, <2>2, <2>3, <2>7, <4>1
    <3> QED
      BY <2>2, <3>1, PrepareStep DEF SumInv
  <2>11. GotInv'
    <3>1. ASSUME NEW l \in Lines
          PROVE  /\ \A v \in Users \ {u} : ToGot(job[v], l, line'[l].id)
                                             <= ToGot(job[v], l, line[l].id)
                 /\ Got(l)' + ToGot(job'[u], l, line'[l].id) + line[l].recv
                      <= Got(l) + ToGot(job[u], l, line[l].id) + line'[l].recv
      <4>0. \A v \in Users : ToGot(job[v], l, line[l].id) \in Nat
        BY <2>4
      <4>1. CASE l = k
        BY <1>0, <2>2, <2>3, <2>5, <2>6, <4>0, <4>1
      <4>2. CASE l # k
        BY <1>0, <2>2, <2>3, <2>7, <4>0, <4>2
      <4> QED
        BY <4>1, <4>2
    <3> QED
      BY <2>2, <3>1, GotStep DEF SumInv
  <2> QED
    BY <2>8, <2>9, <2>10, <2>11 DEF SumInv
<1> QED
  BY <1>1, <1>2, <1>3 DEF bump_shipment_line_received

LEMMA SumsMark ==
  ASSUME IInv, IInv', SumInv, NEW u \in Users, mark_received(u)
  PROVE  SumInv'
<1>1. /\ job[u].pc = "receive.mark" /\ SameRows /\ SameLoads
      /\ Done(u, job[u].cur, "receive.line", "receive.posted")
  BY DEF mark_received, SameRows, SameLoads, supabase, parts9
<1>2. job[u].cur \in Lines
  BY <1>1 DEF IInv, JobsOK, JobOK, CurPcs
<1>3. /\ Others(u)
      /\ \A l \in Lines : /\ ToTake(job'[u], l) \in {0, ToTake(job[u], l)}
                          /\ ToShip(job'[u], l) = 0
                          /\ ToPrepare(job'[u], l, line[l].id) = 0
                          /\ ToGot(job'[u], l, line[l].id) = 0
  BY <1>1, <1>2, TakeDone
<1>4. ASSUME NEW l \in Lines
      PROVE  /\ ToShip(job'[u], l) <= ToShip(job[u], l)
             /\ ToTake(job'[u], l) <= ToTake(job[u], l)
             /\ ToPrepare(job'[u], l, line[l].id) <= ToPrepare(job[u], l, line[l].id)
             /\ ToGot(job'[u], l, line[l].id) <= ToGot(job[u], l, line[l].id)
  BY <1>3, OwesAmounts
<1> QED
  BY <1>1, <1>3, <1>4, SumsKept

LEMMA SumsReceive ==
  ASSUME IInv, IInv', SumInv, NEW u \in Users, Receive(u)
  PROVE  SumInv'
<1>0. ship \in [Tokens -> Ships]
  BY DEF IInv, TypeOK, Ships
<1>1. ASSUME NEW s \in Tokens, NEW t \in Tokens, NEW want \in Quantity,
             ReceiveRead(u, s, t, want)
      PROVE  SumInv'
  <2> DEFINE j == [Idle EXCEPT !.pc = "receive.post", !.tok = t, !.sid = s,
                     !.want = want, !.ids = Ids, !.left = Body(want),
                     !.marks = {l \in Body(want) : Stamping /\ line[l].link}]
  <2>1. j.pc = "receive.post"
    BY DEF Idle
  <2>2. Others(u) /\ job'[u] = j
    BY <1>1, GoFacts DEF ReceiveRead, IInv
  <2> HIDE DEF j
  <2>3. SameRows /\ SameLoads
    BY <1>1 DEF ReceiveRead, SameRows, SameLoads, supabase, parts9
  <2> QED
    BY <2>1, <2>2, <2>3, SumsSettled DEF OwingPcs
<1>2. CASE ReceivePosted(u)
  <2>1. SameRows /\ SameLoads
    BY <1>0, <1>2 DEF ReceivePosted, SameRows, SameLoads, Ships, parts9
  <2>2. Others(u) /\ job'[u].pc = "refresh.read"
    BY <1>2, GotoFacts DEF ReceivePosted, IInv
  <2> QED
    BY <2>1, <2>2, SumsSettled DEF OwingPcs
<1> QED
  BY <1>1, <1>2, SumsTake, SumsGotLine, SumsGotShip, SumsMark DEF Receive
LEMMA SumsInit == Init => SumInv
<1> SUFFICES ASSUME Init PROVE SumInv
  OBVIOUS
<1>1. \A u \in Users : job[u] = Idle
  BY DEF Init
<1>2. \A l \in Lines : line[l].id = 0 /\ line[l].prep = 0 /\ line[l].recv = 0
                       /\ shipped[l] = 0 /\ taken[l] = 0
  BY DEF Init, NoRow, None
<1>3. ASSUME NEW l \in Lines
      PROVE  /\ Total(Users, [u \in Users |-> ToShip(job[u], l)]) = 0
             /\ Total(Users, [u \in Users |-> ToTake(job[u], l)]) = 0
             /\ Total(Users, [u \in Users |-> ToPrepare(job[u], l, line[l].id)]) = 0
             /\ Total(Users, [u \in Users |-> ToGot(job[u], l, line[l].id)]) = 0
  <2>1. \A u \in Users : /\ ToShip(job[u], l) = 0 /\ ToTake(job[u], l) = 0
                         /\ ToPrepare(job[u], l, line[l].id) = 0
                         /\ ToGot(job[u], l, line[l].id) = 0
    BY <1>1, <1>2, IdleShape, OwesNothing DEF OwingPcs
  <2> QED
    BY <2>1, TotalZero
<1>4. ASSUME NEW l \in Lines PROVE Got(l) = 0 /\ Carried(l) = 0
  <2>1. \A t \in Tokens : ship[t].got[l] = 0 /\ ship[t].qty[l] = 0
    BY ShipFacts DEF Init
  <2> QED
    BY <2>1, TotalZero DEF Got, Carried
<1>5. ASSUME NEW l \in Lines
      PROVE  /\ line[l].prep + Total(Users, [u \in Users |-> ToShip(job[u], l)]) <= shipped[l]
             /\ line[l].recv + Total(Users, [u \in Users |-> ToTake(job[u], l)]) <= taken[l]
             /\ line[l].prep + Total(Users, [u \in Users |-> ToPrepare(job[u], l, line[l].id)])
                  <= Carried(l)
             /\ Got(l) + Total(Users, [u \in Users |-> ToGot(job[u], l, line[l].id)])
                  <= line[l].recv
  <2> DEFINE a == Total(Users, [u \in Users |-> ToShip(job[u], l)])
             b == Total(Users, [u \in Users |-> ToTake(job[u], l)])
             c == Total(Users, [u \in Users |-> ToPrepare(job[u], l, line[l].id)])
             d == Total(Users, [u \in Users |-> ToGot(job[u], l, line[l].id)])
  <2>1. a = 0 /\ b = 0 /\ c = 0 /\ d = 0
    BY <1>3
  <2> HIDE DEF a, b, c, d
  <2>2. /\ line[l].prep + a <= shipped[l] /\ line[l].recv + b <= taken[l]
        /\ line[l].prep + c <= Carried(l) /\ Got(l) + d <= line[l].recv
    BY <1>2, <1>4, <2>1
  <2> QED
    BY <2>2 DEF a, b, c, d
<1> QED
  BY <1>5 DEF SumInv, ShipInv, TakeInv, PrepareInv, GotInv

\* The lines go, with their counters and those of their shipments.
LEMMA SumsWiped ==
  ASSUME IInv, IInv', SumInv, NEW u \in Users, Others(u),
         job'[u].pc \notin OwingPcs, shipped' = shipped, taken' = taken,
         \A l \in Lines : line'[l] = NoRow,
         \A t \in Tokens, l \in Lines : ship'[t].qty[l] = 0 /\ ship'[t].got[l] = 0
  PROVE  SumInv'
<1>0. \A l \in Lines : line'[l].id = 0 /\ line'[l].prep = 0 /\ line'[l].recv = 0
  BY DEF NoRow
<1>1. ASSUME NEW l \in Lines
      PROVE  /\ line[l].prep \in Nat /\ line[l].recv \in Nat
             /\ shipped[l] \in Nat /\ taken[l] \in Nat
             /\ ToShip(job[u], l) \in Nat /\ ToTake(job[u], l) \in Nat
             /\ ToShip(job'[u], l) = 0 /\ ToTake(job'[u], l) = 0
  BY CountTypes, OwesAmounts, OwesNothing
<1>2. ShipInv'
  <2>1. ASSUME NEW l \in Lines
        PROVE  line'[l].prep + ToShip(job'[u], l) + shipped[l]
                 <= line[l].prep + ToShip(job[u], l) + shipped'[l]
    BY <1>0, <1>1
  <2> QED
    BY <2>1, ShipStep DEF SumInv
<1>3. TakeInv'
  <2>1. ASSUME NEW l \in Lines
        PROVE  line'[l].recv + ToTake(job'[u], l) + taken[l]
                 <= line[l].recv + ToTake(job[u], l) + taken'[l]
    BY <1>0, <1>1
  <2> QED
    BY <2>1, TakeStep DEF SumInv
<1>4. ASSUME NEW l \in Lines
      PROVE  /\ Got(l)' = 0 /\ Carried(l)' = 0
             /\ Total(Users, [v \in Users |-> ToPrepare(job'[v], l, line'[l].id)]) = 0
             /\ Total(Users, [v \in Users |-> ToGot(job'[v], l, line'[l].id)]) = 0
  <2>1. Got(l)' = 0 /\ Carried(l)' = 0
    BY TotalZero DEF Got, Carried
  <2>2. \A v \in Users : /\ ToPrepare(job'[v], l, line'[l].id) = 0
                         /\ ToGot(job'[v], l, line'[l].id) = 0
    BY <1>0, NoRowNothing
  <2> QED
    BY <2>1, <2>2, TotalZero
<1>5. PrepareInv' /\ GotInv'
  <2>1. ASSUME NEW l \in Lines
        PROVE  /\ line'[l].prep
                    + Total(Users, [v \in Users |-> ToPrepare(job'[v], l, line'[l].id)])
                  <= Carried(l)'
               /\ Got(l)' + Total(Users, [v \in Users |-> ToGot(job'[v], l, line'[l].id)])
                  <= line'[l].recv
    <3> DEFINE c == Total(Users, [v \in Users |-> ToPrepare(job'[v], l, line'[l].id)])
               d == Total(Users, [v \in Users |-> ToGot(job'[v], l, line'[l].id)])
    <3>1. c = 0 /\ d = 0
      BY <1>4
    <3> HIDE DEF c, d
    <3>2. line'[l].prep = 0 /\ line'[l].recv = 0 /\ Carried(l)' = 0 /\ Got(l)' = 0
      BY <1>0, <1>4
    <3>3. line'[l].prep + c <= Carried(l)' /\ Got(l)' + d <= line'[l].recv
      BY <3>1, <3>2
    <3> QED
      BY <3>3 DEF c, d
  <2> QED
    BY <2>1 DEF PrepareInv, GotInv
<1> QED
  BY <1>2, <1>3, <1>5 DEF SumInv

\* Rows are inserted where there are none, under ids nobody has read.
LEMMA SumsInsert ==
  ASSUME IInv, IInv', RowsInv, SumInv, NEW u \in Users, EditInsert(u)
  PROVE  SumInv'
<1>0. /\ job[u].pc = "edit.insert" /\ Return(u)
      /\ ship' = ship /\ shipped' = shipped /\ taken' = taken
  BY DEF EditInsert, parts9
<1>1. CASE line' = line
  BY <1>0, <1>1, SumsReturn DEF SameRows, SameLoads
<1>2. CASE /\ Body(job[u].want) \cap Present = {}
           /\ line' = [l \in Lines |->
                        IF job[u].want[l] = 0 THEN line[l]
                        ELSE [NoRow EXCEPT !.id = job[u].ids[l], !.req = job[u].want[l]]]
  <2>1. ASSUME NEW l \in Lines
        PROVE  /\ line'[l].prep = line[l].prep /\ line'[l].recv = line[l].recv
               /\ line'[l].id = line[l].id
                  \/ \A v \in Users \ {u} : line'[l].id # job[v].ids[l]
    <3>1. CASE job[u].want[l] = 0
      BY <1>2, <3>1
    <3>2. CASE job[u].want[l] # 0
      <4>1. job[u].want[l] > 0
        BY <3>2, OwesAmounts
      <4>2. line[l].id = 0
        BY <1>2, <4>1 DEF Body, Present
      <4>3. line'[l].id = job[u].ids[l] /\ line'[l].prep = 0 /\ line'[l].recv = 0
        BY <1>2, <3>2 DEF NoRow
      <4>4. line[l].prep = 0 /\ line[l].recv = 0
        BY <4>2 DEF RowsInv, IdsInv
      <4>5. \A v \in Users \ {u} : job[v].ids[l] # job[u].ids[l]
        BY <1>0 DEF RowsInv, IdsInv, Editing
      <4> QED
        BY <4>3, <4>4, <4>5
    <3> QED
      BY <3>1, <3>2
  <2>2. Others(u) /\ job'[u].pc \notin OwingPcs
    BY <1>0, GoFacts, IdleShape DEF Return, IInv, OwingPcs
  <2>3. ASSUME NEW l \in Lines
        PROVE  /\ line[l].prep \in Nat /\ line[l].recv \in Nat
               /\ line'[l].id \in Nat /\ shipped[l] \in Nat /\ taken[l] \in Nat
               /\ Carried(l) \in Nat /\ Got(l) \in Nat
    BY CountTypes DEF IInv, TypeOK
  <2>4. ASSUME NEW l \in Lines, NEW v \in Users
        PROVE  /\ ToPrepare(job[v], l, line[l].id) \in Nat /\ ToGot(job[v], l, line[l].id) \in Nat
               /\ ToShip(job[v], l) \in Nat /\ ToTake(job[v], l) \in Nat
    BY OwesAmounts
  <2>5. ASSUME NEW l \in Lines
        PROVE  /\ ToShip(job'[u], l) = 0 /\ ToTake(job'[u], l) = 0
               /\ ToPrepare(job'[u], l, line'[l].id) = 0 /\ ToGot(job'[u], l, line'[l].id) = 0
    BY <2>2, <2>3, OwesNothing
  <2>6. ASSUME NEW l \in Lines, NEW v \in Users \ {u}
        PROVE  /\ ToPrepare(job[v], l, line'[l].id) <= ToPrepare(job[v], l, line[l].id)
               /\ ToGot(job[v], l, line'[l].id) <= ToGot(job[v], l, line[l].id)
    <3>1. CASE line'[l].id = line[l].id
      BY <2>4, <3>1
    <3>2. CASE line'[l].id # job[v].ids[l]
      <4>1. ToPrepare(job[v], l, line'[l].id) = 0 /\ ToGot(job[v], l, line'[l].id) = 0
        BY <3>2 DEF ToPrepare, ToGot, Alive
      <4> QED
        BY <2>4, <4>1
    <3> QED
      BY <2>1, <3>1, <3>2
  <2>7. ASSUME NEW l \in Lines PROVE Carried(l)' = Carried(l) /\ Got(l)' = Got(l)
    BY <1>0, SameTotals DEF SameLoads
  <2>8. ShipInv'
    <3>1. ASSUME NEW l \in Lines
          PROVE  line'[l].prep + ToShip(job'[u], l) + shipped[l]
                   <= line[l].prep + ToShip(job[u], l) + shipped'[l]
      BY <1>0, <2>1, <2>3, <2>4, <2>5
    <3> QED
      BY <2>2, <3>1, ShipStep DEF SumInv
  <2>9. TakeInv'
    <3>1. ASSUME NEW l \in Lines
          PROVE  line'[l].recv + ToTake(job'[u], l) + taken[l]
                   <= line[l].recv + ToTake(job[u], l) + taken'[l]
      BY <1>0, <2>1, <2>3, <2>4, <2>5
    <3> QED
      BY <2>2, <3>1, TakeStep DEF SumInv
  <2>10. PrepareInv'
    <3>1. ASSUME NEW l \in Lines
          PROVE  /\ \A v \in Users \ {u} : ToPrepare(job[v], l, line'[l].id)
                                             <= ToPrepare(job[v], l, line[l].id)
                 /\ line'[l].prep + ToPrepare(job'[u], l, line'[l].id) + Carried(l)
                      <= line[l].prep + ToPrepare(job[u], l, line[l].id) + Carried(l)'
      BY <2>1, <2>3, <2>4, <2>5, <2>6, <2>7
    <3> QED
      BY <2>2, <3>1, PrepareStep DEF SumInv
  <2>11. GotInv'
    <3>1. ASSUME NEW l \in Lines
          PROVE  /\ \A v \in Users \ {u} : ToGot(job[v], l, line'[l].id)
                                             <= ToGot(job[v], l, line[l].id)
                 /\ Got(l)' + ToGot(job'[u], l, line'[l].id) + line[l].recv
                      <= Got(l) + ToGot(job[u], l, line[l].id) + line'[l].recv
      BY <2>1, <2>3, <2>4, <2>5, <2>6, <2>7
    <3> QED
      BY <2>2, <3>1, GotStep DEF SumInv
  <2> QED
    BY <2>8, <2>9, <2>10, <2>11 DEF SumInv
<1> QED
  BY <1>1, <1>2 DEF EditInsert

LEMMA SumsEdit ==
  ASSUME IInv, IInv', RowsInv, SumInv, NEW u \in Users, Draft(u)
  PROVE  SumInv'
<1>0. JobsOK /\ ship \in [Tokens -> Ships]
  BY DEF IInv, TypeOK, Ships
<1>1. ASSUME NEW want \in Quantity, EditRead(u, want) PROVE SumInv'
  <2> DEFINE j == [Idle EXCEPT !.pc = "edit.delete", !.want = want,
                               !.ids = [l \in Lines |-> edits + 1]]
  <2>1. j.pc = "edit.delete"
    BY DEF Idle
  <2>2. Others(u) /\ job'[u] = j
    BY <1>0, <1>1, GoFacts DEF EditRead
  <2> HIDE DEF j
  <2>3. SameRows /\ SameLoads
    BY <1>1 DEF EditRead, SameRows, SameLoads, parts9
  <2> QED
    BY <2>1, <2>2, <2>3, SumsSettled DEF OwingPcs
<1>2. CASE EditDelete(u)
  <2>1. Others(u) /\ job'[u].pc \notin OwingPcs
    <3>1. ASSUME Return(u) PROVE Others(u) /\ job'[u].pc \notin OwingPcs
      BY <1>0, <3>1, GoFacts, IdleShape DEF Return, OwingPcs
    <3>2. ASSUME Goto(u, "edit.insert") PROVE Others(u) /\ job'[u].pc \notin OwingPcs
      BY <1>0, <3>2, GotoFacts DEF OwingPcs
    <3> QED
      BY <1>2, <3>1, <3>2 DEF EditDelete
  <2>2. shipped' = shipped /\ taken' = taken /\ \A l \in Lines : line'[l] = NoRow
    BY <1>2 DEF EditDelete, parts9
  <2>3. \A t \in Tokens, l \in Lines : ship'[t].qty[l] = 0 /\ ship'[t].got[l] = 0
    BY <1>0, <1>2 DEF EditDelete, Ships, None
  <2> QED
    BY <2>1, <2>2, <2>3, SumsWiped
<1>3. CASE EditInsert(u)
  BY <1>3, SumsInsert
<1>4. CASE DeleteDraft(u)
  <2>1. Others(u) /\ job'[u].pc \notin OwingPcs
    BY <1>4, IdleShape DEF DeleteDraft, Others, OwingPcs
  <2>2. shipped' = shipped /\ taken' = taken /\ \A l \in Lines : line'[l] = NoRow
    BY <1>4 DEF DeleteDraft, parts9
  <2>3. \A t \in Tokens, l \in Lines : ship'[t].qty[l] = 0 /\ ship'[t].got[l] = 0
    BY <1>4, ShipFacts DEF DeleteDraft
  <2> QED
    BY <2>1, <2>2, <2>3, SumsWiped
<1> QED
  BY <1>1, <1>2, <1>3, <1>4 DEF Draft

LEMMA SumsSubmit ==
  ASSUME IInv, IInv', SumInv, NEW u \in Users, Submit(u)
  PROVE  SumInv'
<1> USE DEF OwingPcs
<1>0. JobsOK /\ job[u] \in JobType /\ line \in [Lines -> Rows]
  BY DEF IInv, TypeOK, JobsOK, Rows
<1>1. SameLoads
  BY DEF Submit, SubmitRead, SubmitWrite, stamp_on_submit, StampLink, StampFails,
         StampUndo, SameLoads, supabase
<1>2. SameRows
  <2>1. CASE StampLink(u)
    BY <1>0, <2>1 DEF StampLink, SameRows, Rows, parts9
  <2>2. CASE \/ SubmitRead(u) \/ SubmitWrite(u) \/ StampFails(u)
             \/ \E l \in Lines : stamp_on_submit(u, l) \/ StampUndo(u, l)
    BY <2>2 DEF SubmitRead, SubmitWrite, stamp_on_submit, StampFails, StampUndo,
                SameRows, supabase, parts9
  <2> QED
    BY <2>1, <2>2 DEF Submit
<1>3. Others(u) /\ job'[u].pc \notin OwingPcs
  <2>1. CASE SubmitRead(u)
    <3> DEFINE j == [Idle EXCEPT !.pc = "submit.write", !.ids = Ids, !.left = Present]
    <3>1. j.pc = "submit.write"
      BY DEF Idle
    <3> QED
      BY <1>0, <2>1, <3>1, GoFacts DEF SubmitRead
  <2>2. CASE SubmitWrite(u)
    <3>1. ASSUME Return(u) PROVE Others(u) /\ job'[u].pc \notin OwingPcs
      BY <1>0, <3>1, GoFacts, IdleShape DEF Return
    <3>2. ASSUME Goto(u, "submit.stamp") PROVE Others(u) /\ job'[u].pc \notin OwingPcs
      BY <1>0, <3>2, GotoFacts
    <3> QED
      BY <2>2, <3>1, <3>2 DEF SubmitWrite
  <2>3. ASSUME NEW l, Done(u, l, "submit.stamp", "idle") \/ Done(u, l, "submit.undo", "idle")
        PROVE  Others(u) /\ job'[u].pc \notin OwingPcs
    BY <1>0, <2>3, DoneFacts, IdleShape
  <2>4. ASSUME NEW l \in Lines, stamp_on_submit(u, l)
        PROVE  Others(u) /\ job'[u].pc \notin OwingPcs
    <3> DEFINE j == [job[u] EXCEPT !.pc = "submit.link", !.cur = l, !.marks = @ \cup {l}]
    <3>1. ASSUME Go(u, j) PROVE Others(u) /\ job'[u].pc \notin OwingPcs
      <4>1. j.pc = "submit.link"
        BY <1>0 DEF JobType
      <4> QED
        BY <1>0, <3>1, <4>1, GoFacts
    <3> QED
      BY <2>3, <2>4, <3>1 DEF stamp_on_submit
  <2>5. CASE StampFails(u)
    <3> DEFINE j == [job[u] EXCEPT !.pc = "submit.undo", !.left = job[u].marks]
    <3>1. ASSUME Go(u, j) PROVE Others(u) /\ job'[u].pc \notin OwingPcs
      <4>1. j.pc = "submit.undo"
        BY <1>0 DEF JobType
      <4> QED
        BY <1>0, <3>1, <4>1, GoFacts
    <3>2. ASSUME Return(u) PROVE Others(u) /\ job'[u].pc \notin OwingPcs
      BY <1>0, <3>2, GoFacts, IdleShape DEF Return
    <3> QED
      BY <2>5, <3>1, <3>2 DEF StampFails
  <2> QED
    BY <2>1, <2>2, <2>3, <2>4, <2>5 DEF Submit, StampLink, StampUndo
<1> QED
  BY <1>1, <1>2, <1>3, SumsSettled

LEMMA SumsRefreshCancel ==
  ASSUME IInv, IInv', SumInv, NEW u \in Users, Refresh(u) \/ Cancel(u) \/ Abort(u)
  PROVE  SumInv'
<1> USE DEF OwingPcs
<1>0. JobsOK
  BY DEF IInv
<1>1. SameRows /\ SameLoads
  BY DEF Refresh, Cancel, Abort, RefreshRead, RefreshWrite, CancelRead, cancel_request,
         CancelRevert, SameRows, SameLoads, supabase, parts9
<1>2. CASE RefreshRead(u)
  <2> DEFINE j == [Idle EXCEPT !.pc = "refresh.write",
                               !.seen = derive_request_status(status)]
  <2>1. j.pc = "refresh.write"
    BY DEF Idle
  <2> HIDE DEF j
  <2>2. Go(u, j)
    BY <1>2 DEF RefreshRead, j
  <2> QED
    BY <1>0, <1>1, <2>1, <2>2, GoFacts, SumsSettled
<1>3. CASE CancelRead(u)
  <2> DEFINE linked == {l \in Lines : Stamping /\ line[l].link}
             j == [Idle EXCEPT !.left = linked,
                    !.pc = IF linked = {} THEN "cancel.write" ELSE "cancel.revert"]
  <2>1. j.pc \in {"cancel.write", "cancel.revert"}
    BY DEF Idle
  <2> HIDE DEF j
  <2>2. Go(u, j)
    BY <1>3 DEF CancelRead, j
  <2> QED
    BY <1>0, <1>1, <2>1, <2>2, GoFacts, SumsSettled
<1>4. ASSUME NEW l \in Lines, CancelRevert(u, l) PROVE SumInv'
  <2>1. Others(u) /\ job'[u].pc \notin OwingPcs
    BY <1>0, <1>4, DoneFacts, IdleShape DEF CancelRevert
  <2> QED
    BY <1>1, <2>1, SumsSettled
<1>5. CASE RefreshWrite(u) \/ cancel_request(u) \/ Abort(u)
  BY <1>1, <1>5, SumsReturn DEF RefreshWrite, cancel_request, Abort
<1> QED
  BY <1>2, <1>3, <1>4, <1>5 DEF Refresh, Cancel

-----------------------------------------------------------------------------
LEMMA SumsInductive ==
  ASSUME ~ReuseTokens
  PROVE  IInv /\ FreshInv /\ RowsInv /\ SumInv /\ [Next]_vars /\ IInv' => RowsInv' /\ SumInv'
<1> SUFFICES ASSUME IInv, FreshInv, RowsInv, SumInv, [Next]_vars, IInv'
             PROVE  RowsInv' /\ SumInv'
  OBVIOUS
<1>1. ASSUME NEW u \in Users, \/ Draft(u) \/ Submit(u) \/ Prepare(u) \/ Receive(u)
                              \/ Refresh(u) \/ Cancel(u) \/ Abort(u)
      PROVE  RowsInv' /\ SumInv'
  <2>1. RowsInv'
    BY <1>1, RowsEdit, RowsSubmit, RowsPrepare, RowsReceive, RowsRefreshCancel
  <2>2. SumInv'
    BY <1>1, SumsEdit, SumsSubmit, SumsPrepare, SumsReceive, SumsRefreshCancel
  <2> QED
    BY <2>1, <2>2
<1>2. CASE UNCHANGED vars
  <2>1. RowsInv'
    BY <1>2 DEF vars, RowsInv, MadeInv, IdsInv, Editing
  <2>2. SumInv'
    BY <1>2 DEF vars, SumInv, ShipInv, TakeInv, PrepareInv, GotInv, Got, Carried
  <2> QED
    BY <2>1, <2>2
<1> QED
  BY <1>1, <1>2 DEF Next

\* What the sums say of the counters alone: what a handler still owes is not
\* negative.
LEMMA SumsCover ==
  ASSUME IInv, SumInv
  PROVE  CountsBehindBills /\ CountsNested
<1>1. ASSUME NEW l \in Lines
      PROVE  /\ line[l].prep <= shipped[l] /\ line[l].recv <= taken[l]
             /\ line[l].prep <= Carried(l) /\ Got(l) <= line[l].recv
  <2> DEFINE a == Total(Users, [u \in Users |-> ToShip(job[u], l)])
             b == Total(Users, [u \in Users |-> ToTake(job[u], l)])
             c == Total(Users, [u \in Users |-> ToPrepare(job[u], l, line[l].id)])
             d == Total(Users, [u \in Users |-> ToGot(job[u], l, line[l].id)])
  <2>1. /\ line[l].prep + a <= shipped[l] /\ line[l].recv + b <= taken[l]
        /\ line[l].prep + c <= Carried(l) /\ Got(l) + d <= line[l].recv
    BY DEF SumInv, ShipInv, TakeInv, PrepareInv, GotInv
  <2>2. a \in Nat /\ b \in Nat /\ c \in Nat /\ d \in Nat
    BY TotalUnits
  <2> HIDE DEF a, b, c, d
  <2> QED
    BY <2>1, <2>2, CountTypes
<1>2. \A l \in Lines : line[l].recv <= line[l].prep /\ line[l].prep <= line[l].req
  BY DEF IInv, RowsNested
<1> QED
  BY <1>1, <1>2 DEF CountsBehindBills, CountsNested

\* What Supabase claims to have been prepared and received is covered by the ship
\* bills and the receive bills of PARTS9, whoever edits, ships, receives and cancels
\* together and whatever dies between the two databases, as long as each call has a
\* client_token of its own (api_prepare and api_receive post first, count after).
THEOREM CountsAreCovered ==
  ASSUME ~ReuseTokens
  PROVE  Spec => []CountsBehindBills
<1>1. IInv /\ SumInv => CountsBehindBills
  BY SumsCover
<1> QED
  BY <1>1, InitInv, FreshInit, RowsInit, SumsInit, Inductive, FreshInductive, SumsInductive,
     PTL DEF Spec

\* The counters of a line stay nested: what its shipment lines have received is
\* covered by what the line has received, that by what was prepared, and that by what
\* its shipment lines carry and by what was asked for, in every interleaving of the
\* handlers and with handlers that die between the two updates of a line.
THEOREM CountersCovered ==
  ASSUME ~ReuseTokens
  PROVE  Spec => []CountsNested
<1>1. IInv /\ SumInv => CountsNested
  BY SumsCover
<1> QED
  BY <1>1, InitInv, FreshInit, RowsInit, SumsInit, Inductive, FreshInductive, SumsInductive,
     PTL DEF Spec
----------------------------------------------------------------------------
(***************************************************************************)
(* Requests that come one after another, and no handler that dies: the     *)
(* ship bill, the books and the stamps.  The next predicates say where the *)
(* handler in progress, with record j, has got to (Idle when there is      *)
(* none).                                                                  *)
(***************************************************************************)
Submitted == status \notin {"draft", "absent"}
StampPcs == {"submit.stamp", "submit.link", "submit.undo"}
UnderWay == {"prepare.lines", "prepare.bump", "refresh.read", "refresh.write"} \cup ReceivePcs

BillsBy(j) ==
  /\ bills <= 1
  /\ bills # 0 => HasShipments \/ j.pc = "prepare.shipment"
  /\ bills # 0 \/ HasShipments => Submitted
  /\ j.pc \in Posting => ~HasShipments
  /\ j.pc \in PreparePcs => status = "requested"
  /\ j.pc = "prepare.lines" => ship[j.tok].made
  /\ j.pc \in ReceivePcs => ship[j.sid].made
  /\ j.pc \in Inserting => status = "draft"
  /\ j.pc \in {"refresh.read", "refresh.write"} => Submitted
  /\ j.pc = "refresh.write" => j.seen = derive_request_status(status)

\* The lines a handler still has to count can be counted: their rows are those it
\* read, and its guards still hold of them.
ReadyBy(j) ==
  /\ \A l \in Lines : line[l].id = 0 => line[l].prep = 0
  /\ j.pc \in {"prepare.post", "receive.post"} => j.left = Body(j.want)
  /\ j.pc \in PreparePcs =>
       \A l \in j.left : Alive(j, l, line[l].id) /\ line[l].prep + j.want[l] <= line[l].req
  /\ j.pc \in {"receive.post", "receive.receipt"} => j.tok \notin receipts
  /\ j.pc \in ReceivePcs => \A l \in j.left : Alive(j, l, line[l].id)
  /\ j.pc \in {"receive.post", "receive.receipt", "receive.line"} =>
       \A l \in j.left : line[l].recv + j.want[l] <= line[l].prep
                         /\ ship[j.sid].got[l] + j.want[l] <= ship[j.sid].qty[l]
  /\ j.pc \in {"receive.shipline", "receive.mark"} =>
       /\ j.cur \in j.left
       /\ \A l \in j.left \ {j.cur} : line[l].recv + j.want[l] <= line[l].prep
                         /\ ship[j.sid].got[l] + j.want[l] <= ship[j.sid].qty[l]
  /\ j.pc = "receive.shipline" =>
       ship[j.sid].got[j.cur] + j.want[j.cur] <= ship[j.sid].qty[j.cur]

BooksBy(j) ==
  /\ \A l \in Lines : /\ line[l].prep + ToShip(j, l) = shipped[l]
                      /\ line[l].recv + ToTake(j, l) = taken[l]
  /\ ~Submitted => \A l \in Lines : shipped[l] = 0 /\ taken[l] = 0
  /\ j.pc \notin UnderWay /\ status # "absent" => status = derive_request_status(status)

NoneOrdered == \A l \in Lines : iclow[l] # "ordered"

StampsBy(j) ==
  /\ \A l \in Lines : iclow[l] = "ordered" =>
       Stamping /\ (line[l].link \/ (j.pc = "submit.link" /\ j.cur = l))
  /\ ~Submitted \/ status = "cancelled" => NoneOrdered
  /\ j.pc \in StampPcs => Submitted /\ status # "cancelled" /\ Stamping
  /\ j.pc \in {"submit.write", "submit.stamp", "submit.link"} =>
       \A l \in j.left : Alive(j, l, line[l].id)
  /\ j.pc = "submit.link" => j.cur \in j.left
  /\ j.pc = "cancel.revert" => \A l \in Lines : iclow[l] = "ordered" => l \in j.left
  /\ j.pc = "cancel.write" => NoneOrdered

SerialBy(j) == BillsBy(j) /\ ReadyBy(j) /\ BooksBy(j) /\ StampsBy(j)
----------------------------------------------------------------------------
\* What a step that leaves most of the state alone keeps.
SameMade == \A t \in Tokens : ship'[t].made = ship[t].made
SameCounts == \A l \in Lines : line'[l].prep = line[l].prep /\ line'[l].recv = line[l].recv

LEMMA SameHas ==
  ASSUME SameMade
  PROVE  HasShipments' <=> HasShipments
BY DEF SameMade, HasShipments

LEMMA DeriveSame ==
  ASSUME SameMade, SameCounts, NEW header
  PROVE  derive_request_status(header)' = derive_request_status(header)
<1>1. /\ {l \in Lines : line'[l].prep > 0} = {l \in Lines : line[l].prep > 0}
      /\ {l \in Lines : line'[l].recv < line'[l].prep} = {l \in Lines : line[l].recv < line[l].prep}
  BY DEF SameCounts
<1>2. HasShipments' <=> HasShipments
  BY SameHas
<1> QED
  BY <1>1, <1>2 DEF derive_request_status

\* The status that is derived is derived again the same, and a submitted request
\* stays submitted.
LEMMA DeriveTwice ==
  ASSUME NEW header, header \notin {"draft", "absent"}
  PROVE  /\ derive_request_status(derive_request_status(header)) = derive_request_status(header)
         /\ derive_request_status(header) \notin {"draft", "absent"}
         /\ header # "cancelled" => derive_request_status(header) # "cancelled"
         /\ derive_request_status("cancelled") = "cancelled"
         /\ derive_request_status("draft") = "draft"
<1>1. CASE header = "cancelled"
  BY <1>1 DEF derive_request_status
<1>2. CASE header # "cancelled"
  <2>1. derive_request_status(header) \in {"prepared", "received", "requested"}
    BY <1>2 DEF derive_request_status
  <2>2. \A other \in {"prepared", "received", "requested"} :
          derive_request_status(other) = derive_request_status(header)
    BY <1>2 DEF derive_request_status
  <2>3. derive_request_status("cancelled") = "cancelled" /\ derive_request_status("draft") = "draft"
    BY DEF derive_request_status
  <2> QED
    BY <2>1, <2>2, <2>3
<1> QED
  BY <1>1, <1>2

\* A handler that prepares or receives works on a submitted request.
LEMMA Working ==
  ASSUME NEW k, k.sid \in Tokens \/ k.pc \notin ReceivePcs, BillsBy(k),
         k.pc \in PreparePcs \cup ReceivePcs
  PROVE  Submitted
<1>1. CASE k.pc \in PreparePcs
  BY <1>1 DEF BillsBy, Submitted
<1>2. CASE k.pc \in ReceivePcs
  <2>1. HasShipments
    BY <1>2 DEF BillsBy, HasShipments
  <2> QED
    BY <2>1 DEF BillsBy
<1> QED
  BY <1>1, <1>2

LEMMA BillsKept ==
  ASSUME NEW k, NEW j, BillsBy(k), k.sid \in Tokens \/ k.pc \notin ReceivePcs,
         status' = status, bills' = bills, SameMade,
         k.pc # "prepare.shipment",
         j.pc \notin Posting \cup {"prepare.lines", "refresh.write"},
         j.pc \in PreparePcs => k.pc \in PreparePcs,
         j.pc \in ReceivePcs => k.pc \in ReceivePcs /\ j.sid = k.sid,
         j.pc \in Inserting => k.pc \in Inserting,
         j.pc = "refresh.read" => k.pc \in PreparePcs \cup ReceivePcs
  PROVE  BillsBy(j)'
<1>1. HasShipments' <=> HasShipments
  BY SameHas
<1>2. Submitted' <=> Submitted
  BY DEF Submitted
<1>3. j.pc = "refresh.read" => Submitted
  BY Working
<1>4. j.pc \in ReceivePcs => ship'[j.sid].made
  BY DEF BillsBy, SameMade
<1> QED
  BY <1>1, <1>2, <1>3, <1>4 DEF BillsBy, Posting

LEMMA ReadyFree ==
  ASSUME NEW j, j.pc \notin PreparePcs \cup ReceivePcs,
         \A l \in Lines : line'[l].id = 0 => line'[l].prep = 0
  PROVE  ReadyBy(j)'
BY DEF ReadyBy, PreparePcs, ReceivePcs

LEMMA BooksKept ==
  ASSUME NEW k, NEW j, BooksBy(k), status' = status, SameMade, SameCounts,
         shipped' = shipped, taken' = taken,
         \A l \in Lines : ToShip(j, l) = ToShip(k, l) /\ ToTake(j, l) = ToTake(k, l),
         j.pc \notin UnderWay => k.pc \notin UnderWay
  PROVE  BooksBy(j)'
<1>1. derive_request_status(status)' = derive_request_status(status)
  <2>1. PICK h : h = status
    OBVIOUS
  <2>2. derive_request_status(h)' = derive_request_status(h)
    BY DeriveSame
  <2> QED
    BY <2>1, <2>2
<1>2. Submitted' <=> Submitted
  BY DEF Submitted
<1>3. \A l \in Lines : /\ line'[l].prep + ToShip(j, l) = shipped'[l]
                       /\ line'[l].recv + ToTake(j, l) = taken'[l]
  BY DEF BooksBy, SameCounts
<1>4. j.pc \notin UnderWay /\ status' # "absent" => status' = derive_request_status(status)'
  BY <1>1 DEF BooksBy
<1>5. ~Submitted' => \A l \in Lines : shipped'[l] = 0 /\ taken'[l] = 0
  BY <1>2 DEF BooksBy
<1> QED
  BY <1>3, <1>4, <1>5 DEF BooksBy

\* Most pcs owe nothing, so that a step between two of them keeps the books.
LEMMA NothingOwed ==
  ASSUME NEW j, j.pc \notin OwingPcs
  PROVE  \A l \in Lines : ToShip(j, l) = 0 /\ ToTake(j, l) = 0
BY DEF OwingPcs, ToShip, ToTake

CalmPcs == Pcs \ (StampPcs \cup {"submit.write", "cancel.revert", "cancel.write"})

LEMMA StampsLess ==
  ASSUME NEW k, NEW j, StampsBy(k), k.pc # "submit.link", j.pc \in CalmPcs,
         status' = status, \A l \in Lines : iclow'[l] = "ordered" => iclow[l] = "ordered",
         \A l \in Lines : line'[l].link = line[l].link
  PROVE  StampsBy(j)'
<1>1. NoneOrdered => NoneOrdered'
  BY DEF NoneOrdered
<1>2. Submitted' <=> Submitted
  BY DEF Submitted
<1>3. \A l \in Lines : iclow'[l] = "ordered" => Stamping /\ line'[l].link
  BY DEF StampsBy
<1>4. j.pc \notin StampPcs \cup {"submit.write", "submit.link", "submit.stamp", "cancel.revert",
                                 "cancel.write"}
  BY DEF CalmPcs, StampPcs
<1> QED
  BY <1>1, <1>2, <1>3, <1>4 DEF StampsBy

LEMMA StampsKept ==
  ASSUME NEW k, NEW j, StampsBy(k), k.pc # "submit.link", j.pc \in CalmPcs,
         status' = status, iclow' = iclow, \A l \in Lines : line'[l].link = line[l].link
  PROVE  StampsBy(j)'
BY StampsLess

LEMMA SerialInit == Init => SerialBy(Idle)
<1> SUFFICES ASSUME Init PROVE SerialBy(Idle)
  OBVIOUS
<1>1. Idle.pc = "idle"
  BY IdleShape
<1>2. status = "draft" /\ ~Submitted /\ bills = 0
  BY DEF Init, Submitted
<1>3. ~HasShipments
  BY DEF Init, HasShipments, NoShip
<1>4. \A l \in Lines : line[l].prep = 0 /\ line[l].recv = 0 /\ shipped[l] = 0 /\ taken[l] = 0
  BY DEF Init, NoRow, None
<1>5. NoneOrdered
  BY DEF Init, NoneOrdered
<1> HIDE DEF Init
<1>6. BillsBy(Idle)
  BY <1>1, <1>2, <1>3 DEF BillsBy, Posting, PreparePcs, ReceivePcs, Inserting
<1>7. ReadyBy(Idle)
  BY <1>1, <1>4 DEF ReadyBy, PreparePcs, ReceivePcs
<1>8. BooksBy(Idle)
  <2>1. \A l \in Lines : ToShip(Idle, l) = 0 /\ ToTake(Idle, l) = 0
    BY <1>1, NothingOwed DEF OwingPcs
  <2>2. status = derive_request_status(status)
    BY <1>2 DEF derive_request_status
  <2> QED
    BY <1>4, <2>1, <2>2 DEF BooksBy
<1>9. StampsBy(Idle)
  BY <1>1, <1>5 DEF StampsBy, NoneOrdered, StampPcs
<1> QED
  BY <1>1, <1>6, <1>7, <1>8, <1>9 DEF SerialBy
\* A draft has nothing shipped, nothing stamped and no shipment: its lines may go.
LEMMA SerialEdit ==
  ASSUME IInv, NEW u \in Users, NEW k, k = job[u], SerialBy(k), Draft(u), NEW j, j = job'[u]
  PROVE  SerialBy(j)'
<1> USE DEF Inserting, Posting, PreparePcs, ReceivePcs, OwingPcs
<1>0. /\ JobsOK /\ ship \in [Tokens -> Ships] /\ k \in JobType
      /\ BillsBy(k) /\ ReadyBy(k) /\ BooksBy(k) /\ StampsBy(k)
  BY DEF IInv, TypeOK, Ships, JobsOK, SerialBy
<1>1. ASSUME NEW want \in Quantity, EditRead(u, want) PROVE SerialBy(j)'
  <2> DEFINE i == [Idle EXCEPT !.pc = "edit.delete", !.want = want,
                               !.ids = [l \in Lines |-> edits + 1]]
  <2>1. i.pc = "edit.delete"
    BY DEF Idle
  <2>2. j = i
    BY <1>0, <1>1, GoFacts DEF EditRead
  <2> HIDE DEF i
  <2>3. j.pc = "edit.delete" /\ k.pc = "idle"
    BY <1>0, <1>1, <2>1, <2>2, IdleShape DEF EditRead
  <2>4. /\ status' = status /\ bills' = bills /\ ship' = ship /\ line' = line
        /\ shipped' = shipped /\ taken' = taken /\ iclow' = iclow /\ status = "draft"
    BY <1>1 DEF EditRead, parts9
  <2>5. SameMade /\ SameCounts
    BY <2>4 DEF SameMade, SameCounts
  <2>6. BillsBy(j)'
    <3>1. HasShipments' <=> HasShipments
      BY <2>5, SameHas
    <3>2. Submitted' <=> Submitted
      BY <2>4 DEF Submitted
    <3> QED
      BY <1>0, <2>3, <2>4, <3>1, <3>2 DEF BillsBy
  <2>7. ReadyBy(j)'
    BY <1>0, <2>3, <2>4, ReadyFree DEF ReadyBy
  <2>8. BooksBy(j)'
    BY <1>0, <2>3, <2>4, <2>5, BooksKept, NothingOwed DEF UnderWay
  <2>9. StampsBy(j)'
    BY <1>0, <2>3, <2>4, StampsKept DEF CalmPcs, Pcs, OtherPcs, StampPcs
  <2> QED
    BY <2>6, <2>7, <2>8, <2>9 DEF SerialBy
<1>2. CASE EditDelete(u)
  <2>1. j.pc \in {"idle", "edit.insert"}
    <3>1. ASSUME Return(u) PROVE j.pc = "idle"
      BY <1>0, <3>1, GoFacts, IdleShape DEF Return
    <3>2. ASSUME Goto(u, "edit.insert") PROVE j.pc = "edit.insert"
      BY <1>0, <3>2, GotoFacts
    <3> QED
      BY <1>2, <3>1, <3>2 DEF EditDelete
  <2>2. /\ status' = status /\ bills' = bills /\ iclow' = iclow
        /\ shipped' = shipped /\ taken' = taken /\ k.pc = "edit.delete"
    BY <1>2 DEF EditDelete, parts9
  <2>3. SameMade
    BY <1>0, <1>2 DEF EditDelete, Ships, SameMade
  <2>4. \A l \in Lines : line'[l].prep = 0 /\ line'[l].recv = 0
    BY <1>2 DEF EditDelete, NoRow
  <2>5. status = "draft" /\ ~Submitted
    BY <1>0, <2>2 DEF BillsBy, Submitted
  <2>6. BillsBy(j)'
    BY <1>0, <2>1, <2>2, <2>3, BillsKept
  <2>7. ReadyBy(j)'
    BY <2>1, <2>4, ReadyFree
  <2>8. BooksBy(j)'
    <3>1. \A l \in Lines : ToShip(j, l) = 0 /\ ToTake(j, l) = 0
      BY <2>1, NothingOwed
    <3>2. \A l \in Lines : shipped'[l] = 0 /\ taken'[l] = 0
      BY <1>0, <2>2, <2>5 DEF BooksBy
    <3>3. derive_request_status(status)' = "draft"
      BY <2>2, <2>5 DEF derive_request_status
    <3> QED
      BY <2>2, <2>4, <2>5, <3>1, <3>2, <3>3 DEF BooksBy
  <2>9. StampsBy(j)'
    <3>1. NoneOrdered /\ (NoneOrdered' <=> NoneOrdered)
      BY <1>0, <2>2, <2>5 DEF StampsBy, NoneOrdered
    <3> QED
      BY <2>1, <3>1 DEF StampsBy, NoneOrdered, StampPcs
  <2> QED
    BY <2>6, <2>7, <2>8, <2>9 DEF SerialBy
<1>3. CASE EditInsert(u)
  <2>1. j.pc = "idle" /\ k.pc = "edit.insert"
    BY <1>0, <1>3, GoFacts, IdleShape DEF EditInsert, Return
  <2>2. /\ status' = status /\ bills' = bills /\ iclow' = iclow /\ ship' = ship
        /\ shipped' = shipped /\ taken' = taken
    BY <1>3 DEF EditInsert, parts9
  <2>3. SameMade
    BY <2>2 DEF SameMade
  <2>4. status = "draft" /\ ~Submitted
    BY <1>0, <2>1 DEF BillsBy, Submitted
  <2>5. \A l \in Lines : shipped[l] = 0 /\ taken[l] = 0 /\ ToShip(k, l) = 0 /\ ToTake(k, l) = 0
    BY <1>0, <2>1, <2>4, NothingOwed DEF BooksBy
  <2>6. ASSUME NEW l \in Lines PROVE line'[l].prep = 0 /\ line'[l].recv = 0
    <3>1. line[l].prep \in Nat /\ line[l].recv \in Nat
      BY CountTypes
    <3>2. line[l].prep = 0 /\ line[l].recv = 0
      BY <1>0, <2>5, <3>1 DEF BooksBy
    <3> QED
      BY <1>3, <3>2 DEF EditInsert, NoRow
  <2>7. BillsBy(j)'
    BY <1>0, <2>1, <2>2, <2>3, BillsKept
  <2>8. ReadyBy(j)'
    BY <2>1, <2>6, ReadyFree
  <2>9. BooksBy(j)'
    <3>1. \A l \in Lines : ToShip(j, l) = 0 /\ ToTake(j, l) = 0
      BY <2>1, NothingOwed
    <3>2. derive_request_status(status)' = "draft"
      BY <2>2, <2>4 DEF derive_request_status
    <3> QED
      BY <2>2, <2>4, <2>5, <2>6, <3>1, <3>2 DEF BooksBy
  <2>10. StampsBy(j)'
    <3>1. NoneOrdered /\ (NoneOrdered' <=> NoneOrdered)
      BY <1>0, <2>2, <2>4 DEF StampsBy, NoneOrdered
    <3> QED
      BY <2>1, <3>1 DEF StampsBy, NoneOrdered, StampPcs
  <2> QED
    BY <2>7, <2>8, <2>9, <2>10 DEF SerialBy
<1>4. CASE DeleteDraft(u)
  <2>1. j = k /\ k.pc = "idle"
    BY <1>4, IdleShape DEF DeleteDraft
  <2>2. /\ status = "draft" /\ status' = "absent" /\ bills' = bills /\ iclow' = iclow
        /\ shipped' = shipped /\ taken' = taken
    BY <1>4 DEF DeleteDraft, parts9
  <2>3. ~Submitted /\ ~Submitted'
    BY <2>2 DEF Submitted
  <2>4. ~HasShipments'
    BY <1>4 DEF DeleteDraft, HasShipments, NoShip
  <2>5. bills = 0
    BY <1>0, <2>3 DEF BillsBy
  <2>6. \A l \in Lines : line'[l].prep = 0 /\ line'[l].recv = 0
    BY <1>4 DEF DeleteDraft, NoRow
  <2>7. BillsBy(j)'
    BY <2>1, <2>2, <2>4, <2>5 DEF BillsBy
  <2>8. ReadyBy(j)'
    BY <2>1, <2>6, ReadyFree
  <2>9. BooksBy(j)'
    <3>1. \A l \in Lines : ToShip(j, l) = 0 /\ ToTake(j, l) = 0
      BY <2>1, NothingOwed
    <3>2. \A l \in Lines : shipped'[l] = 0 /\ taken'[l] = 0
      BY <1>0, <2>2, <2>3 DEF BooksBy
    <3> QED
      BY <2>2, <2>6, <3>1, <3>2 DEF BooksBy
  <2>10. StampsBy(j)'
    <3>1. NoneOrdered /\ (NoneOrdered' <=> NoneOrdered)
      BY <1>0, <2>2, <2>3 DEF StampsBy, NoneOrdered
    <3> QED
      BY <2>1, <3>1 DEF StampsBy, NoneOrdered, StampPcs
  <2> QED
    BY <2>7, <2>8, <2>9, <2>10 DEF SerialBy
<1> QED
  BY <1>1, <1>2, <1>3, <1>4 DEF Draft
\* Submitting stamps the rows of lines that stay where they are.
LEMMA SerialSubmit ==
  ASSUME IInv, NEW u \in Users, NEW k, k = job[u], SerialBy(k), Submit(u), NEW j, j = job'[u]
  PROVE  SerialBy(j)'
<1> USE DEF Inserting, Posting, PreparePcs, ReceivePcs, OwingPcs
<1>0. /\ JobsOK /\ line \in [Lines -> Rows] /\ k \in JobType
      /\ BillsBy(k) /\ ReadyBy(k) /\ BooksBy(k) /\ StampsBy(k)
  BY DEF IInv, TypeOK, Rows, JobsOK, SerialBy
<1>1. CASE SubmitRead(u)
  <2> DEFINE i == [Idle EXCEPT !.pc = "submit.write", !.ids = Ids, !.left = Present]
  <2>1. i.pc = "submit.write" /\ i.left = Present /\ i.ids = Ids
    BY DEF Idle
  <2>2. j = i
    BY <1>0, <1>1, GoFacts DEF SubmitRead
  <2> HIDE DEF i
  <2>3. /\ j.pc = "submit.write" /\ k.pc = "idle"
        /\ \A l \in j.left : l \in Lines /\ Alive(j, l, line[l].id)
    <3>1. k.pc = "idle"
      BY <1>1, IdleShape DEF SubmitRead
    <3> QED
      BY <2>1, <2>2, <3>1 DEF Present, Ids, Alive
  <2>4. /\ status' = status /\ bills' = bills /\ ship' = ship /\ line' = line
        /\ shipped' = shipped /\ taken' = taken /\ iclow' = iclow
    BY <1>1 DEF SubmitRead, parts9, supabase
  <2>5. SameMade /\ SameCounts
    BY <2>4 DEF SameMade, SameCounts
  <2>6. BillsBy(j)'
    BY <1>0, <2>3, <2>4, <2>5, BillsKept
  <2>7. ReadyBy(j)'
    BY <1>0, <2>3, <2>4, ReadyFree DEF ReadyBy
  <2>8. BooksBy(j)'
    BY <1>0, <2>3, <2>4, <2>5, BooksKept, NothingOwed DEF UnderWay
  <2>9. StampsBy(j)'
    <3>1. (NoneOrdered' <=> NoneOrdered) /\ (Submitted' <=> Submitted)
      BY <2>4 DEF NoneOrdered, Submitted
    <3>2. \A l \in j.left : Alive(j, l, line'[l].id)
      BY <2>3, <2>4
    <3> QED
      BY <1>0, <2>3, <2>4, <3>1, <3>2 DEF StampsBy, StampPcs
  <2> QED
    BY <2>6, <2>7, <2>8, <2>9 DEF SerialBy
<1>2. CASE SubmitWrite(u)
  <2>1. /\ bills' = bills /\ ship' = ship /\ line' = line /\ k.pc = "submit.write"
        /\ shipped' = shipped /\ taken' = taken /\ iclow' = iclow
    BY <1>2 DEF SubmitWrite, parts9
  <2>2. SameMade /\ SameCounts
    BY <2>1 DEF SameMade, SameCounts
  <2>3. \/ status' = status /\ j.pc = "idle"
        \/ /\ status = "draft" /\ status' = derive_request_status("requested")
           /\ \/ j.pc = "idle"
              \/ Stamping /\ j.pc = "submit.stamp" /\ j.left = k.left /\ j.ids = k.ids
    <3>1. ASSUME Return(u) PROVE j.pc = "idle"
      BY <1>0, <3>1, GoFacts, IdleShape DEF Return
    <3>2. ASSUME Goto(u, "submit.stamp")
          PROVE  j.pc = "submit.stamp" /\ j.left = k.left /\ j.ids = k.ids
      BY <1>0, <3>2, GotoFacts DEF Keeps
    <3> QED
      BY <1>2, <3>1, <3>2 DEF SubmitWrite
  <2>4. ReadyBy(j)'
    BY <1>0, <2>1, <2>3, ReadyFree DEF ReadyBy
  <2>5. \A l \in Lines : ToShip(j, l) = 0 /\ ToTake(j, l) = 0
    BY <2>3, NothingOwed
  <2>6. CASE status' = status /\ j.pc = "idle"
    <3>1. BillsBy(j)'
      BY <1>0, <2>1, <2>2, <2>6, BillsKept
    <3>2. BooksBy(j)'
      BY <1>0, <2>1, <2>2, <2>6, BooksKept, NothingOwed DEF UnderWay
    <3>3. StampsBy(j)'
      BY <1>0, <2>1, <2>6, StampsKept DEF CalmPcs, Pcs, OtherPcs, StampPcs
    <3> QED
      BY <2>4, <3>1, <3>2, <3>3 DEF SerialBy
  <2>7. CASE /\ status = "draft" /\ status' = derive_request_status("requested")
             /\ \/ j.pc = "idle"
                \/ Stamping /\ j.pc = "submit.stamp" /\ j.left = k.left /\ j.ids = k.ids
    <3>1. /\ ~Submitted /\ Submitted' /\ status' # "cancelled"
      BY <2>7, DeriveTwice DEF Submitted
    <3>2. bills = 0 /\ ~HasShipments /\ NoneOrdered
      BY <1>0, <3>1 DEF BillsBy, StampsBy
    <3>3. ~HasShipments' /\ NoneOrdered'
      BY <2>1, <2>2, <3>2, SameHas DEF NoneOrdered
    <3>4. BillsBy(j)'
      BY <2>1, <2>7, <3>2, <3>3 DEF BillsBy
    <3>5. BooksBy(j)'
      <4>1. PICK h : h = derive_request_status("requested")
        OBVIOUS
      <4>2. derive_request_status(h)' = derive_request_status(h)
        BY <2>2, DeriveSame
      <4>3. derive_request_status(h) = h
        BY <4>1, DeriveTwice
      <4>4. derive_request_status(status)' = status'
        BY <2>7, <4>1, <4>2, <4>3
      <4>5. \A l \in Lines : /\ line'[l].prep + ToShip(j, l) = shipped'[l]
                             /\ line'[l].recv + ToTake(j, l) = taken'[l]
        <5>1. \A l \in Lines : ToShip(k, l) = 0 /\ ToTake(k, l) = 0
          BY <2>1, NothingOwed
        <5> QED
          BY <1>0, <2>1, <2>5, <5>1 DEF BooksBy
      <4> QED
        BY <3>1, <4>4, <4>5 DEF BooksBy
    <3>6. StampsBy(j)'
      <4>1. j.pc = "submit.stamp" => \A l \in j.left : Alive(j, l, line'[l].id)
        BY <1>0, <2>1, <2>7 DEF StampsBy, Alive
      <4> QED
        BY <2>7, <3>1, <3>3, <4>1 DEF StampsBy, NoneOrdered, StampPcs
    <3> QED
      BY <2>4, <3>4, <3>5, <3>6 DEF SerialBy
  <2> QED
    BY <2>3, <2>6, <2>7
\* The stamps: the row of a line is ordered, and then linked.
<1>3. ASSUME k.pc \in StampPcs, j.pc \in StampPcs \cup {"idle"},
             UNCHANGED <<status, bills, ship, shipped, taken>>, StampsBy(j)',
             SameCounts, \A l \in Lines : line'[l].id = line[l].id
      PROVE  SerialBy(j)'
  <2> USE DEF StampPcs
  <2>1. SameMade
    BY <1>3 DEF SameMade
  <2>2. BillsBy(j)'
    BY <1>0, <1>3, <2>1, BillsKept
  <2>3. ReadyBy(j)'
    BY <1>0, <1>3, ReadyFree DEF ReadyBy, SameCounts
  <2>4. BooksBy(j)'
    BY <1>0, <1>3, <2>1, BooksKept, NothingOwed DEF UnderWay
  <2> QED
    BY <1>3, <2>2, <2>3, <2>4 DEF SerialBy
<1>4. ASSUME NEW l \in Lines, stamp_on_submit(u, l) PROVE SerialBy(j)'
  <2> USE DEF StampPcs
  <2>1. /\ UNCHANGED <<status, bills, ship, shipped, taken, line>>
        /\ k.pc = "submit.stamp" /\ l \in k.left
    BY <1>4 DEF stamp_on_submit, supabase, parts9
  <2>2. Submitted' /\ status' # "cancelled" /\ Stamping
    BY <1>0, <2>1 DEF StampsBy, Submitted
  <2>3. CASE iclow' = iclow /\ Done(u, l, "submit.stamp", "idle")
    <3>1. /\ j.pc \in {"idle", "submit.stamp"}
          /\ j.pc = "submit.stamp" => j.ids = k.ids /\ j.left \subseteq k.left
      BY <1>0, <2>3, DoneFacts, IdleShape DEF Keeps
    <3>2. StampsBy(j)'
      BY <1>0, <2>1, <2>2, <2>3, <3>1 DEF StampsBy, Alive
    <3> QED
      BY <1>3, <2>1, <3>1, <3>2 DEF SameCounts
  <2> DEFINE i == [job[u] EXCEPT !.pc = "submit.link", !.cur = l, !.marks = @ \cup {l}]
  <2>4. CASE iclow' = [iclow EXCEPT ![l] = "ordered"] /\ Go(u, i)
    <3>1. /\ i.pc = "submit.link" /\ i.cur = l /\ i.left = k.left /\ i.ids = k.ids
      BY <1>0 DEF JobType
    <3> HIDE DEF i
    <3>2. /\ j.pc = "submit.link" /\ j.cur = l /\ j.left = k.left /\ j.ids = k.ids
      BY <1>0, <2>4, <3>1, GoFacts
    <3>3. \A m \in Lines : m # l => iclow'[m] = iclow[m]
      BY <2>4 DEF IInv, TypeOK
    <3>4. \A m \in Lines : iclow'[m] = "ordered" =>
            Stamping /\ (line'[m].link \/ (j.pc = "submit.link" /\ j.cur = m))
      BY <1>0, <2>1, <2>2, <3>2, <3>3 DEF StampsBy
    <3>5. StampsBy(j)'
      BY <1>0, <2>1, <2>2, <3>2, <3>4 DEF StampsBy, Alive
    <3> QED
      BY <1>3, <2>1, <3>2, <3>5 DEF SameCounts
  <2> QED
    BY <1>4, <2>3, <2>4 DEF stamp_on_submit
<1>5. CASE StampLink(u)
  <2> USE DEF StampPcs
  <2>1. /\ UNCHANGED <<status, bills, ship, shipped, taken, iclow>>
        /\ k.pc = "submit.link" /\ Done(u, k.cur, "submit.stamp", "idle")
    BY <1>5 DEF StampLink, parts9
  <2>2. Submitted' /\ status' # "cancelled" /\ Stamping
    BY <1>0, <2>1 DEF StampsBy, Submitted
  <2>3. k.cur \in Lines /\ k.cur \in k.left
    BY <1>0, <2>1 DEF StampsBy, JobsOK, JobOK, CurPcs
  <2>4. StillThere(u, k.cur)
    BY <1>0, <2>1, <2>3 DEF StampsBy, Alive, StillThere
  <2>5. /\ SameCounts /\ \A l \in Lines : line'[l].id = line[l].id
        /\ \A l \in Lines : line[l].link => line'[l].link
        /\ line'[k.cur].link
    BY <1>0, <1>5, <2>3, <2>4 DEF StampLink, Rows, SameCounts
  <2>6. /\ j.pc \in {"idle", "submit.stamp"}
        /\ j.pc = "submit.stamp" => j.ids = k.ids /\ j.left \subseteq k.left
    BY <1>0, <2>1, DoneFacts, IdleShape DEF Keeps
  <2>7. StampsBy(j)'
    <3>1. \A l \in Lines : iclow'[l] = "ordered" => Stamping /\ line'[l].link
      BY <1>0, <2>1, <2>2, <2>5 DEF StampsBy
    <3>2. j.pc = "submit.stamp" => \A l \in j.left : Alive(j, l, line'[l].id)
      <4>1. k.left \subseteq Lines
        BY <1>0 DEF JobType
      <4> QED
        BY <1>0, <2>1, <2>5, <2>6, <4>1 DEF StampsBy, Alive
    <3> QED
      BY <2>2, <2>6, <3>1, <3>2 DEF StampsBy
  <2> QED
    BY <1>3, <2>1, <2>5, <2>6, <2>7
<1>6. CASE StampFails(u)
  <2> USE DEF StampPcs
  <2>1. /\ UNCHANGED <<status, bills, ship, shipped, taken, iclow, line>>
        /\ k.pc = "submit.stamp"
    BY <1>6 DEF StampFails, supabase, parts9
  <2>2. j.pc \in {"idle", "submit.undo"}
    <3> DEFINE i == [job[u] EXCEPT !.pc = "submit.undo", !.left = job[u].marks]
    <3>1. ASSUME Return(u) PROVE j.pc = "idle"
      BY <1>0, <3>1, GoFacts, IdleShape DEF Return
    <3>2. ASSUME Go(u, i) PROVE j.pc = "submit.undo"
      <4>1. i.pc = "submit.undo"
        BY <1>0 DEF JobType
      <4> QED
        BY <1>0, <3>2, <4>1, GoFacts
    <3> QED
      BY <1>6, <3>1, <3>2 DEF StampFails
  <2>3. Submitted' /\ status' # "cancelled" /\ Stamping
    BY <1>0, <2>1 DEF StampsBy, Submitted
  <2>4. StampsBy(j)'
    BY <1>0, <2>1, <2>2, <2>3 DEF StampsBy
  <2> QED
    BY <1>3, <2>1, <2>2, <2>4 DEF SameCounts
<1>7. ASSUME NEW l \in Lines, StampUndo(u, l) PROVE SerialBy(j)'
  <2> USE DEF StampPcs
  <2>1. /\ UNCHANGED <<status, bills, ship, shipped, taken, line>>
        /\ k.pc = "submit.undo"
    BY <1>7 DEF StampUndo, supabase, parts9
  <2>2. j.pc \in {"idle", "submit.undo"}
    BY <1>0, <1>7, DoneFacts, IdleShape DEF StampUndo
  <2>3. Submitted' /\ status' # "cancelled" /\ Stamping
    BY <1>0, <2>1 DEF StampsBy, Submitted
  <2>4. \A m \in Lines : iclow'[m] = "ordered" => iclow[m] = "ordered"
    BY <1>7 DEF StampUndo, revert_on_cancel, IInv, TypeOK
  <2>5. StampsBy(j)'
    BY <1>0, <2>1, <2>2, <2>3, <2>4 DEF StampsBy
  <2> QED
    BY <1>3, <2>1, <2>2, <2>5 DEF SameCounts
<1> QED
  BY <1>1, <1>2, <1>4, <1>5, <1>6, <1>7 DEF Submit
\* The ship bill: one is posted when there is no shipment, and what it carries is
\* what the handler then counts.
LEMMA SerialPrepareRead ==
  ASSUME IInv, NEW u \in Users, NEW k, k = job[u], SerialBy(k),
         NEW t \in Tokens, NEW want \in Quantity, PrepareRead(u, t, want), NEW j, j = job'[u]
  PROVE  SerialBy(j)'
<1> USE DEF Inserting, Posting, PreparePcs, ReceivePcs, OwingPcs
<1>0. /\ JobsOK /\ line \in [Lines -> Rows] /\ k \in JobType
      /\ BillsBy(k) /\ ReadyBy(k) /\ BooksBy(k) /\ StampsBy(k)
  BY DEF IInv, TypeOK, Rows, JobsOK, SerialBy
<1> DEFINE i == [Idle EXCEPT !.pc = "prepare.post", !.tok = t, !.want = want,
                             !.ids = Ids, !.left = Body(want)]
<1>1. i.pc = "prepare.post" /\ i.ids = Ids /\ i.left = Body(want) /\ i.want = want
  BY DEF Idle
<1>2. j = i
  BY <1>0, GoFacts DEF PrepareRead
<1> HIDE DEF i
<1>3. /\ j.pc = "prepare.post" /\ k.pc = "idle" /\ j.left = Body(j.want) /\ j.ids = Ids
      /\ j.want = want
  <2>1. k.pc = "idle"
    BY IdleShape DEF PrepareRead
  <2> QED
    BY <1>1, <1>2, <2>1
<1>4. /\ UNCHANGED <<status, bills, ship, line, shipped, taken, iclow>>
      /\ status = "requested" /\ ~HasShipments
  BY DEF PrepareRead, parts9, supabase
<1>5. SameMade /\ SameCounts
  BY <1>4 DEF SameMade, SameCounts
<1>6. BillsBy(j)'
  <2>1. ~HasShipments'
    BY <1>4, <1>5, SameHas
  <2> QED
    BY <1>0, <1>3, <1>4, <2>1 DEF BillsBy
<1>7. ReadyBy(j)'
  <2>1. ASSUME NEW l \in j.left
        PROVE  Alive(j, l, line'[l].id) /\ line'[l].prep + j.want[l] <= line'[l].req
    <3>1. l \in Lines /\ l \in Body(want)
      BY <1>3 DEF Body
    <3>2. line[l].id # 0 /\ line[l].prep = 0 /\ want[l] <= line[l].req /\ want[l] \in Nat
      BY <3>1 DEF PrepareRead, Quantity
    <3>3. j.ids[l] = line[l].id
      BY <1>3, <3>1 DEF Ids
    <3>4. Alive(j, l, line'[l].id)
      BY <1>4, <3>2, <3>3 DEF Alive
    <3>5. line'[l].prep + j.want[l] <= line'[l].req
      BY <1>3, <1>4, <3>2
    <3> QED
      BY <3>4, <3>5
  <2> QED
    BY <1>0, <1>3, <1>4, <2>1 DEF ReadyBy
<1>8. BooksBy(j)'
  BY <1>0, <1>3, <1>4, <1>5, BooksKept, NothingOwed DEF UnderWay
<1>9. StampsBy(j)'
  BY <1>0, <1>3, <1>4, StampsKept DEF CalmPcs, Pcs, OtherPcs, StampPcs
<1> QED
  BY <1>6, <1>7, <1>8, <1>9 DEF SerialBy

LEMMA SerialShip ==
  ASSUME IInv, NEW u \in Users, NEW k, k = job[u], SerialBy(k), post_transfer_ship(u),
         NEW j, j = job'[u]
  PROVE  SerialBy(j)'
<1> USE DEF Inserting, Posting, PreparePcs, ReceivePcs, OwingPcs
<1>0. /\ JobsOK /\ k \in JobType /\ k.pc = "prepare.post" /\ k.tok \in Tokens
      /\ BillsBy(k) /\ ReadyBy(k) /\ BooksBy(k) /\ StampsBy(k)
  BY DEF IInv, JobsOK, JobOK, SerialBy, post_transfer_ship
<1>1. ~HasShipments /\ bills = 0 /\ status = "requested" /\ k.left = Body(k.want)
  BY <1>0 DEF BillsBy, ReadyBy
<1>2. ~ship[k.tok].made
  BY <1>0, <1>1 DEF HasShipments
<1>3. /\ UNCHANGED <<status, ship, line, taken, iclow>>
      /\ shipped' = Plus(shipped, k.want) /\ bills' = bills + 1 /\ Goto(u, "prepare.shipment")
  BY <1>2 DEF post_transfer_ship, supabase
<1>4. /\ j.pc = "prepare.shipment" /\ j.left = k.left /\ j.want = k.want /\ j.ids = k.ids
  BY <1>0, <1>3, GotoFacts DEF Keeps
<1>5. SameMade /\ SameCounts
  BY <1>3 DEF SameMade, SameCounts
<1>6. BillsBy(j)'
  <2>1. ~HasShipments'
    BY <1>1, <1>5, SameHas
  <2> QED
    BY <1>1, <1>3, <1>4, <2>1 DEF BillsBy, Submitted
<1>7. ReadyBy(j)'
  BY <1>0, <1>3, <1>4 DEF ReadyBy, Alive
<1>8. BooksBy(j)'
  <2>1. ASSUME NEW l \in Lines
        PROVE  /\ line'[l].prep + ToShip(j, l) = shipped'[l]
               /\ line'[l].recv + ToTake(j, l) = taken'[l]
    <3>1. line[l].prep \in Nat /\ shipped[l] \in Nat /\ k.want[l] \in Nat
      BY <1>0, CountTypes DEF JobType, Quantity
    <3>2. ToShip(k, l) = 0 /\ ToTake(k, l) = 0 /\ ToTake(j, l) = 0
      BY <1>0, <1>4 DEF ToShip, ToTake
    <3>3. ToShip(j, l) = k.want[l]
      BY <1>0, <1>1, <1>4, <3>1 DEF ToShip, Body
    <3>4. shipped'[l] = shipped[l] + k.want[l]
      BY <1>3 DEF Plus
    <3>5. line[l].prep + 0 = shipped[l] /\ line[l].recv + 0 = taken[l]
      BY <1>0, <3>2 DEF BooksBy
    <3>6. line'[l].prep + ToShip(j, l) = shipped'[l]
      BY <1>3, <3>1, <3>3, <3>4, <3>5
    <3>7. line'[l].recv + ToTake(j, l) = taken'[l]
      BY <1>3, <3>2, <3>5
    <3> QED
      BY <3>6, <3>7
  <2>2. status' = derive_request_status(status)'
    <3>1. PICK h : h = status
      OBVIOUS
    <3>2. derive_request_status(h)' = derive_request_status(h)
      BY <1>5, DeriveSame
    <3>3. status = derive_request_status(status)
      BY <1>0, <1>1 DEF BooksBy, UnderWay
    <3> QED
      BY <1>3, <3>1, <3>2, <3>3
  <2> QED
    BY <1>1, <1>3, <1>4, <2>1, <2>2 DEF BooksBy, Submitted
<1>9. StampsBy(j)'
  BY <1>0, <1>3, <1>4, StampsKept DEF CalmPcs, Pcs, OtherPcs, StampPcs
<1> QED
  BY <1>6, <1>7, <1>8, <1>9 DEF SerialBy

LEMMA SerialCreate ==
  ASSUME IInv, NEW u \in Users, NEW k, k = job[u], SerialBy(k), create_shipment(u),
         NEW j, j = job'[u]
  PROVE  SerialBy(j)'
<1> USE DEF Inserting, Posting, PreparePcs, ReceivePcs, OwingPcs
<1>0. /\ JobsOK /\ ship \in [Tokens -> Ships] /\ k.pc = "prepare.shipment" /\ k.tok \in Tokens
      /\ BillsBy(k) /\ ReadyBy(k) /\ BooksBy(k) /\ StampsBy(k)
  BY DEF IInv, TypeOK, Ships, JobsOK, JobOK, SerialBy, create_shipment
<1>1. ~HasShipments /\ status = "requested" /\ ~ship[k.tok].made
  BY <1>0 DEF BillsBy, HasShipments
<1>2. /\ UNCHANGED <<status, bills, line, shipped, taken, iclow>>
      /\ ship' = [ship EXCEPT ![k.tok].made = TRUE] /\ Goto(u, "prepare.lines")
  BY <1>1 DEF create_shipment, parts9
<1>3. /\ j.pc = "prepare.lines" /\ j.left = k.left /\ j.want = k.want /\ j.ids = k.ids
      /\ j.tok = k.tok
  BY <1>0, <1>2, GotoFacts DEF Keeps
<1>4. ship'[k.tok].made
  BY <1>0, <1>2 DEF Ships
<1>5. BillsBy(j)'
  <2>1. HasShipments' /\ Submitted'
    BY <1>0, <1>1, <1>2, <1>4 DEF HasShipments, Submitted
  <2> QED
    BY <1>0, <1>1, <1>2, <1>3, <1>4, <2>1 DEF BillsBy
<1>6. ReadyBy(j)'
  BY <1>0, <1>2, <1>3 DEF ReadyBy, Alive
<1>7. BooksBy(j)'
  <2>1. \A l \in Lines : ToShip(j, l) = ToShip(k, l) /\ ToTake(j, l) = ToTake(k, l)
    BY <1>0, <1>3 DEF ToShip, ToTake
  <2> QED
    BY <1>0, <1>1, <1>2, <1>3, <2>1 DEF BooksBy, UnderWay, Submitted
<1>8. StampsBy(j)'
  BY <1>0, <1>2, <1>3, StampsKept DEF CalmPcs, Pcs, OtherPcs, StampPcs
<1> QED
  BY <1>5, <1>6, <1>7, <1>8 DEF SerialBy

LEMMA SerialLines ==
  ASSUME IInv, NEW u \in Users, NEW k, k = job[u], SerialBy(k), add_shipment_lines(u),
         NEW j, j = job'[u]
  PROVE  SerialBy(j)'
<1> USE DEF Inserting, Posting, PreparePcs, ReceivePcs, OwingPcs
<1>0. /\ JobsOK /\ ship \in [Tokens -> Ships] /\ k.pc = "prepare.lines" /\ k.tok \in Tokens
      /\ BillsBy(k) /\ ReadyBy(k) /\ BooksBy(k) /\ StampsBy(k) /\ k.left \subseteq Lines
  BY DEF IInv, TypeOK, Ships, JobsOK, JobOK, SerialBy, add_shipment_lines, JobType
<1>1. ship[k.tok].made /\ \A l \in k.left : StillThere(u, l)
  BY <1>0 DEF BillsBy, ReadyBy, Alive, StillThere
<1>2. /\ UNCHANGED <<status, bills, line, shipped, taken, iclow>>
      /\ ship' = ship \/ ship' = [ship EXCEPT ![k.tok].qty = k.want]
      /\ Goto(u, "prepare.bump")
  BY <1>1 DEF add_shipment_lines, parts9
<1>3. /\ j.pc = "prepare.bump" /\ j.left = k.left /\ j.want = k.want /\ j.ids = k.ids
  BY <1>0, <1>2, GotoFacts DEF Keeps
<1>4. SameMade /\ SameCounts
  BY <1>0, <1>2 DEF SameMade, SameCounts, Ships
<1>5. BillsBy(j)'
  BY <1>0, <1>2, <1>3, <1>4, BillsKept
<1>6. ReadyBy(j)'
  BY <1>0, <1>2, <1>3 DEF ReadyBy, Alive
<1>7. BooksBy(j)'
  <2>1. \A l \in Lines : ToShip(j, l) = ToShip(k, l) /\ ToTake(j, l) = ToTake(k, l)
    BY <1>0, <1>3 DEF ToShip, ToTake
  <2> QED
    BY <1>0, <1>2, <1>3, <1>4, <2>1, BooksKept DEF UnderWay
<1>8. StampsBy(j)'
  BY <1>0, <1>2, <1>3, StampsKept DEF CalmPcs, Pcs, OtherPcs, StampPcs
<1> QED
  BY <1>5, <1>6, <1>7, <1>8 DEF SerialBy
LEMMA SerialBump ==
  ASSUME IInv, NEW u \in Users, NEW k, k = job[u], SerialBy(k),
         NEW c \in Lines, bump_line_prepared(u, c), NEW j, j = job'[u]
  PROVE  SerialBy(j)'
<1> USE DEF Inserting, Posting, PreparePcs, ReceivePcs, OwingPcs
<1>0. /\ JobsOK /\ line \in [Lines -> Rows] /\ k \in JobType
      /\ k.pc = "prepare.bump" /\ c \in k.left
      /\ BillsBy(k) /\ ReadyBy(k) /\ BooksBy(k) /\ StampsBy(k)
  BY DEF IInv, TypeOK, Rows, JobsOK, JobOK, SerialBy, bump_line_prepared
<1>1. Alive(k, c, line[c].id) /\ line[c].prep + k.want[c] <= line[c].req /\ status = "requested"
  BY <1>0 DEF ReadyBy, BillsBy
<1>2. /\ UNCHANGED <<status, bills, ship, shipped, taken, iclow>>
      /\ line' = [line EXCEPT ![c].prep = @ + k.want[c]]
      /\ Done(u, c, "prepare.bump", "refresh.read")
  BY <1>1 DEF bump_line_prepared, parts9, Alive, StillThere
<1>3. /\ \A l \in Lines \ {c} : line'[l] = line[l]
      /\ \A l \in Lines : line'[l].id = line[l].id /\ line'[l].link = line[l].link
                          /\ line'[l].recv = line[l].recv
      /\ line'[c].prep = line[c].prep + k.want[c]
  BY <1>0, <1>2 DEF Rows
<1>4. /\ j.pc \in {"prepare.bump", "refresh.read"}
      /\ j.pc = "prepare.bump" => /\ j.left = k.left \ {c} /\ j.want = k.want
                                  /\ j.ids = k.ids
      /\ j.pc = "refresh.read" => k.left \subseteq {c}
  BY <1>0, <1>2, DoneFacts DEF Keeps
<1>5. SameMade
  BY <1>2 DEF SameMade
<1>6. BillsBy(j)'
  BY <1>0, <1>2, <1>4, <1>5, BillsKept
<1>7. ReadyBy(j)'
  <2>1. \A l \in Lines : line'[l].id = 0 => line'[l].prep = 0
    BY <1>0, <1>1, <1>3 DEF ReadyBy, Alive
  <2>2. ASSUME j.pc = "prepare.bump", NEW l \in j.left
        PROVE  Alive(j, l, line'[l].id) /\ line'[l].prep + j.want[l] <= line'[l].req
    <3>1. l \in k.left /\ l \in Lines \ {c} /\ line'[l] = line[l]
      BY <1>0, <1>3, <1>4, <2>2 DEF JobType
    <3> QED
      BY <1>0, <1>4, <2>2, <3>1 DEF ReadyBy, Alive
  <2> QED
    BY <1>4, <2>1, <2>2 DEF ReadyBy
<1>8. BooksBy(j)'
  <2>1. ASSUME NEW l \in Lines
        PROVE  /\ line'[l].prep + ToShip(j, l) = shipped'[l]
               /\ line'[l].recv + ToTake(j, l) = taken'[l]
    <3>1. /\ line[l].prep \in Nat /\ k.want[l] \in Nat /\ ToShip(k, l) \in Nat
          /\ line[l].prep + ToShip(k, l) = shipped[l] /\ line[l].recv + ToTake(k, l) = taken[l]
      <4>1. line[l].prep \in Nat /\ k.want[l] \in 0..MaxQty
        BY <1>0, CountTypes DEF JobType, Quantity
      <4>2. ToShip(k, l) \in 0..MaxQty
        BY <1>0, AmountTypes
      <4>3. line[l].prep + ToShip(k, l) = shipped[l] /\ line[l].recv + ToTake(k, l) = taken[l]
        BY <1>0 DEF BooksBy
      <4> QED
        BY <4>1, <4>2, <4>3
    <3>2. ToTake(k, l) = 0 /\ ToTake(j, l) = 0
      BY <1>0, <1>4 DEF ToTake
    <3>3. ToShip(j, l) = IF l = c THEN 0 ELSE ToShip(k, l)
      BY <1>0, <1>4 DEF ToShip
    <3>4. ToShip(k, c) = k.want[c]
      BY <1>0 DEF ToShip
    <3>5. line'[l].prep + ToShip(j, l) = shipped'[l]
      <4>1. CASE l = c
        BY <1>2, <1>3, <3>1, <3>3, <3>4, <4>1
      <4>2. CASE l # c
        BY <1>2, <1>3, <3>1, <3>3, <4>2
      <4> QED
        BY <4>1, <4>2
    <3>6. line'[l].recv + ToTake(j, l) = taken'[l]
      BY <1>2, <1>3, <3>1, <3>2
    <3> QED
      BY <3>5, <3>6
  <2> QED
    BY <1>1, <1>2, <1>4, <2>1 DEF BooksBy, UnderWay, Submitted
<1>9. StampsBy(j)'
  BY <1>0, <1>2, <1>3, <1>4, StampsKept DEF CalmPcs, Pcs, OtherPcs, StampPcs
<1> QED
  BY <1>6, <1>7, <1>8, <1>9 DEF SerialBy

LEMMA SerialPrepare ==
  ASSUME IInv, NEW u \in Users, NEW k, k = job[u], SerialBy(k), Prepare(u), NEW j, j = job'[u]
  PROVE  SerialBy(j)'
BY SerialPrepareRead, SerialShip, SerialCreate, SerialLines, SerialBump DEF Prepare
\* A receipt counts what was shipped, line by line, on rows that are still there.
LEMMA SerialReceiveRead ==
  ASSUME IInv, NEW u \in Users, NEW k, k = job[u], SerialBy(k), NEW s \in Tokens,
         NEW t \in Tokens, NEW want \in Quantity, ReceiveRead(u, s, t, want), NEW j, j = job'[u]
  PROVE  SerialBy(j)'
<1> USE DEF Inserting, Posting, PreparePcs, ReceivePcs, OwingPcs
<1>0. /\ JobsOK /\ BillsBy(k) /\ ReadyBy(k) /\ BooksBy(k) /\ StampsBy(k)
  BY DEF IInv, SerialBy
<1> DEFINE i == [Idle EXCEPT !.pc = "receive.post", !.tok = t, !.sid = s,
                   !.want = want, !.ids = Ids, !.left = Body(want),
                   !.marks = {l \in Body(want) : Stamping /\ line[l].link}]
<1>1. /\ i.pc = "receive.post" /\ i.ids = Ids /\ i.left = Body(want) /\ i.want = want
      /\ i.tok = t /\ i.sid = s
  BY DEF Idle
<1>2. j = i
  BY <1>0, GoFacts DEF ReceiveRead
<1> HIDE DEF i
<1>3. /\ j.pc = "receive.post" /\ k.pc = "idle" /\ j.left = Body(j.want) /\ j.ids = Ids
      /\ j.want = want /\ j.tok = t /\ j.sid = s
  <2>1. k.pc = "idle"
    BY IdleShape DEF ReceiveRead
  <2> QED
    BY <1>1, <1>2, <2>1
<1>4. /\ UNCHANGED <<status, bills, ship, line, shipped, taken, iclow, receipts>>
      /\ ship[s].made /\ t \notin receipts
  BY DEF ReceiveRead, parts9, supabase
<1>5. SameMade /\ SameCounts
  BY <1>4 DEF SameMade, SameCounts
<1>6. BillsBy(j)'
  <2>1. HasShipments /\ HasShipments' /\ Submitted
    BY <1>0, <1>4 DEF HasShipments, BillsBy
  <2>2. Submitted' /\ ship'[j.sid].made /\ bills' <= 1
    BY <1>0, <1>3, <1>4, <2>1 DEF Submitted, BillsBy
  <2> QED
    BY <1>3, <2>1, <2>2 DEF BillsBy
<1>7. ReadyBy(j)'
  <2>1. ASSUME NEW l \in j.left
        PROVE  /\ Alive(j, l, line'[l].id) /\ line'[l].recv + j.want[l] <= line'[l].prep
               /\ ship'[j.sid].got[l] + j.want[l] <= ship'[j.sid].qty[l]
    <3>1. l \in Lines /\ l \in Body(want) /\ want[l] > 0
      BY <1>3 DEF Body
    <3>2. /\ want[l] + ship[s].got[l] <= ship[s].qty[l] /\ want[l] + line[l].recv <= line[l].prep
      BY <3>1 DEF ReceiveRead
    <3>3. /\ want[l] \in Nat /\ line[l].recv \in Nat /\ line[l].prep \in Nat
          /\ ship[s].got[l] \in Nat /\ ship[s].qty[l] \in Nat
      <4>1. want[l] \in Nat
        BY <3>1 DEF Quantity
      <4>2. ship[s].got \in Quantity /\ ship[s].qty \in Quantity
        BY DEF IInv, TypeOK
      <4> QED
        BY <3>1, <4>1, <4>2, CountTypes DEF Quantity
    <3>4. /\ line[l].recv + want[l] <= line[l].prep /\ line[l].prep # 0
          /\ ship[s].got[l] + want[l] <= ship[s].qty[l]
      BY <3>1, <3>2, <3>3
    <3>5. line[l].id # 0
      BY <1>0, <3>1, <3>4 DEF ReadyBy
    <3>6. j.ids[l] = line[l].id
      BY <1>3, <3>1 DEF Ids
    <3> QED
      BY <1>3, <1>4, <3>4, <3>5, <3>6 DEF Alive
  <2> QED
    BY <1>0, <1>3, <1>4, <2>1 DEF ReadyBy
<1>8. BooksBy(j)'
  BY <1>0, <1>3, <1>4, <1>5, BooksKept, NothingOwed DEF UnderWay
<1>9. StampsBy(j)'
  BY <1>0, <1>3, <1>4, StampsKept DEF CalmPcs, Pcs, OtherPcs, StampPcs
<1> QED
  BY <1>6, <1>7, <1>8, <1>9 DEF SerialBy

LEMMA SerialTake ==
  ASSUME IInv, NEW u \in Users, NEW k, k = job[u], SerialBy(k),
         post_transfer_receive(u) \/ create_receipt(u), NEW j, j = job'[u]
  PROVE  SerialBy(j)'
<1> USE DEF Inserting, Posting, PreparePcs, ReceivePcs, OwingPcs
<1>0. /\ JobsOK /\ k \in JobType /\ k.pc \in {"receive.post", "receive.receipt"}
      /\ k.tok \in Tokens /\ k.sid \in Tokens
      /\ BillsBy(k) /\ ReadyBy(k) /\ BooksBy(k) /\ StampsBy(k)
  BY DEF IInv, JobsOK, JobOK, SerialBy, post_transfer_receive, create_receipt
<1>1. k.tok \notin receipts /\ ship[k.sid].made /\ Submitted
  BY <1>0, Working DEF BillsBy, ReadyBy
<1>2. /\ UNCHANGED <<status, bills, ship, line, shipped, iclow>>
      /\ \/ /\ k.pc = "receive.post" /\ taken' = Plus(taken, k.want) /\ receipts' = receipts
            /\ Goto(u, "receive.receipt")
         \/ k.pc = "receive.receipt" /\ taken' = taken /\ Goto(u, "receive.line")
  BY <1>1 DEF post_transfer_receive, create_receipt, parts9, supabase
<1>3. /\ j.left = k.left /\ j.want = k.want /\ j.ids = k.ids /\ j.tok = k.tok /\ j.sid = k.sid
      /\ \/ /\ k.pc = "receive.post" /\ taken' = Plus(taken, k.want) /\ receipts' = receipts
            /\ j.pc = "receive.receipt"
         \/ k.pc = "receive.receipt" /\ taken' = taken /\ j.pc = "receive.line"
  BY <1>0, <1>2, GotoFacts DEF Keeps
<1>4. SameMade /\ SameCounts
  BY <1>2 DEF SameMade, SameCounts
<1>5. BillsBy(j)'
  BY <1>0, <1>2, <1>3, <1>4, BillsKept
<1>6. ReadyBy(j)'
  BY <1>0, <1>2, <1>3 DEF ReadyBy, Alive
<1>7. BooksBy(j)'
  <2>1. ASSUME NEW l \in Lines
        PROVE  /\ line'[l].prep + ToShip(j, l) = shipped'[l]
               /\ line'[l].recv + ToTake(j, l) = taken'[l]
    <3>1. line[l].recv \in Nat /\ taken[l] \in Nat /\ k.want[l] \in Nat
      BY <1>0, CountTypes DEF JobType, Quantity
    <3>2. ToShip(k, l) = 0 /\ ToShip(j, l) = 0
      BY <1>0, <1>3 DEF ToShip
    <3>3. line[l].prep + ToShip(k, l) = shipped[l] /\ line[l].recv + ToTake(k, l) = taken[l]
      BY <1>0 DEF BooksBy
    <3>4. line'[l].recv + ToTake(j, l) = taken'[l]
      <4>1. CASE k.pc = "receive.receipt"
        <5>1. ToTake(j, l) = ToTake(k, l)
          BY <1>3, <4>1 DEF ToTake
        <5> QED
          BY <1>2, <1>3, <3>3, <4>1, <5>1
      <4>2. CASE k.pc = "receive.post"
        <5>1. ToTake(k, l) = 0 /\ k.left = Body(k.want)
          BY <1>0, <4>2 DEF ToTake, ReadyBy
        <5>2. ToTake(j, l) = k.want[l]
          BY <1>3, <3>1, <4>2, <5>1 DEF ToTake, Body
        <5>3. taken'[l] = taken[l] + k.want[l]
          BY <1>3, <4>2 DEF Plus
        <5>4. line[l].recv + 0 = taken[l]
          BY <3>3, <5>1
        <5> QED
          BY <1>2, <3>1, <5>2, <5>3, <5>4
      <4> QED
        BY <1>0, <4>1, <4>2
    <3> QED
      BY <1>2, <3>2, <3>3, <3>4
  <2> QED
    BY <1>1, <1>2, <1>3, <2>1 DEF BooksBy, UnderWay, Submitted
<1>8. StampsBy(j)'
  BY <1>0, <1>2, <1>3, StampsKept DEF CalmPcs, Pcs, OtherPcs, StampPcs
<1> QED
  BY <1>5, <1>6, <1>7, <1>8 DEF SerialBy
LEMMA SerialTakeLine ==
  ASSUME IInv, NEW u \in Users, NEW k, k = job[u], SerialBy(k),
         NEW c \in Lines, bump_line_received(u, c), NEW j, j = job'[u]
  PROVE  SerialBy(j)'
<1> USE DEF Inserting, Posting, PreparePcs, ReceivePcs, OwingPcs
<1>0. /\ JobsOK /\ line \in [Lines -> Rows] /\ k \in JobType /\ k.sid \in Tokens
      /\ k.pc = "receive.line" /\ c \in k.left
      /\ BillsBy(k) /\ ReadyBy(k) /\ BooksBy(k) /\ StampsBy(k)
  BY DEF IInv, TypeOK, Rows, JobsOK, JobOK, SerialBy, bump_line_received
<1>1. Alive(k, c, line[c].id) /\ line[c].recv + k.want[c] <= line[c].prep /\ Submitted
  BY <1>0, Working DEF ReadyBy
<1> DEFINE i == [job[u] EXCEPT !.pc = "receive.shipline", !.cur = c]
<1>2. /\ UNCHANGED <<status, bills, ship, shipped, taken, iclow>>
      /\ line' = [line EXCEPT ![c].recv = @ + k.want[c]] /\ Go(u, i)
  BY <1>1 DEF bump_line_received, parts9, Alive, StillThere
<1>3. /\ i.pc = "receive.shipline" /\ i.cur = c /\ i.left = k.left /\ i.want = k.want
      /\ i.ids = k.ids /\ i.sid = k.sid
  BY <1>0 DEF JobType
<1> HIDE DEF i
<1>4. /\ j.pc = "receive.shipline" /\ j.cur = c /\ j.left = k.left /\ j.want = k.want
      /\ j.ids = k.ids /\ j.sid = k.sid
  BY <1>0, <1>2, <1>3, GoFacts
<1>5. /\ \A l \in Lines \ {c} : line'[l] = line[l]
      /\ \A l \in Lines : line'[l].id = line[l].id /\ line'[l].link = line[l].link
                          /\ line'[l].prep = line[l].prep
      /\ line'[c].recv = line[c].recv + k.want[c]
  BY <1>0, <1>2 DEF Rows
<1>6. SameMade
  BY <1>2 DEF SameMade
<1>7. BillsBy(j)'
  BY <1>0, <1>2, <1>4, <1>6, BillsKept
<1>8. ReadyBy(j)'
  <2>1. k.left \subseteq Lines
    BY <1>0 DEF JobType
  <2>2. \A l \in j.left : Alive(j, l, line'[l].id)
    BY <1>0, <1>4, <1>5, <2>1 DEF ReadyBy, Alive
  <2>3. \A l \in j.left : ship'[j.sid].got[l] + j.want[l] <= ship'[j.sid].qty[l]
    BY <1>0, <1>2, <1>4 DEF ReadyBy
  <2>4. \A l \in j.left \ {j.cur} : line'[l].recv + j.want[l] <= line'[l].prep
    BY <1>0, <1>4, <1>5, <2>1 DEF ReadyBy
  <2>5. \A l \in Lines : line'[l].id = 0 => line'[l].prep = 0
    BY <1>0, <1>5 DEF ReadyBy
  <2> QED
    BY <1>0, <1>4, <2>2, <2>3, <2>4, <2>5 DEF ReadyBy
<1>9. BooksBy(j)'
  <2>1. ASSUME NEW l \in Lines
        PROVE  /\ line'[l].prep + ToShip(j, l) = shipped'[l]
               /\ line'[l].recv + ToTake(j, l) = taken'[l]
    <3>1. line[l].recv \in Nat /\ taken[l] \in Nat /\ k.want[l] \in Nat
      BY <1>0, CountTypes DEF JobType, Quantity
    <3>2. ToShip(k, l) = 0 /\ ToShip(j, l) = 0
      BY <1>0, <1>4 DEF ToShip
    <3>3. line[l].prep + ToShip(k, l) = shipped[l] /\ line[l].recv + ToTake(k, l) = taken[l]
      BY <1>0 DEF BooksBy
    <3>4. ToTake(j, l) = IF l = c THEN 0 ELSE ToTake(k, l)
      BY <1>0, <1>4 DEF ToTake
    <3>5. ToTake(k, c) = k.want[c]
      BY <1>0 DEF ToTake
    <3>6. line'[l].recv + ToTake(j, l) = taken'[l]
      <4>1. CASE l = c
        BY <1>2, <1>5, <3>1, <3>3, <3>4, <3>5, <4>1
      <4>2. CASE l # c
        BY <1>2, <1>5, <3>3, <3>4, <4>2
      <4> QED
        BY <4>1, <4>2
    <3> QED
      BY <1>2, <1>5, <3>2, <3>3, <3>6
  <2> QED
    BY <1>1, <1>2, <1>4, <2>1 DEF BooksBy, UnderWay, Submitted
<1>10. StampsBy(j)'
  BY <1>0, <1>2, <1>4, <1>5, StampsKept DEF CalmPcs, Pcs, OtherPcs, StampPcs
<1> QED
  BY <1>7, <1>8, <1>9, <1>10 DEF SerialBy

\* The line in hand is counted, and none, one or more are left.
LEMMA SerialNextLine ==
  ASSUME IInv, NEW u \in Users, NEW k, k = job[u], BillsBy(k), ReadyBy(k), BooksBy(k),
         StampsBy(k), k.pc \in {"receive.shipline", "receive.mark"},
         Done(u, k.cur, "receive.line", "receive.posted"), NEW j, j = job'[u],
         UNCHANGED <<status, bills, line, shipped, taken>>, SameMade,
         \A l \in Lines : iclow'[l] = "ordered" => iclow[l] = "ordered",
         \A l \in Lines \ {k.cur} : ship'[k.sid].got[l] = ship[k.sid].got[l],
         ship'[k.sid].qty = ship[k.sid].qty
  PROVE  SerialBy(j)'
<1> USE DEF Inserting, Posting, PreparePcs, ReceivePcs, OwingPcs
<1>0. /\ JobsOK /\ k \in JobType /\ k.sid \in Tokens /\ k.cur \in Lines /\ k.left \subseteq Lines
  BY DEF IInv, JobsOK, JobOK, JobType, CurPcs
<1>1. /\ j.pc \in {"receive.line", "receive.posted"} /\ j.sid = k.sid /\ j.ids = k.ids
      /\ j.want = k.want
      /\ j.pc = "receive.line" => j.left = k.left \ {k.cur}
      /\ j.pc = "receive.posted" => j.left = {} /\ k.left \subseteq {k.cur}
  BY <1>0, DoneFacts DEF Keeps
<1>2. SameCounts
  BY DEF SameCounts
<1>3. BillsBy(j)'
  BY <1>0, <1>1, BillsKept
<1>4. ReadyBy(j)'
  <2>1. ASSUME NEW l \in j.left
        PROVE  /\ Alive(j, l, line'[l].id) /\ line'[l].recv + j.want[l] <= line'[l].prep
               /\ ship'[j.sid].got[l] + j.want[l] <= ship'[j.sid].qty[l]
    <3>1. l \in k.left \ {k.cur} /\ l \in Lines \ {k.cur}
      BY <1>0, <1>1, <2>1
    <3> QED
      BY <1>1, <3>1 DEF ReadyBy, Alive
  <2>2. \A l \in Lines : line'[l].id = 0 => line'[l].prep = 0
    BY DEF ReadyBy
  <2> QED
    BY <1>1, <2>1, <2>2 DEF ReadyBy
<1>5. BooksBy(j)'
  <2>1. ASSUME NEW l \in Lines
        PROVE  ToShip(j, l) = ToShip(k, l) /\ ToTake(j, l) = ToTake(k, l)
    BY <1>1 DEF ToShip, ToTake
  <2> QED
    BY <1>1, <1>2, <2>1, BooksKept DEF UnderWay
<1>6. StampsBy(j)'
  BY <1>1, StampsLess DEF CalmPcs, Pcs, OtherPcs, StampPcs
<1> QED
  BY <1>3, <1>4, <1>5, <1>6 DEF SerialBy
LEMMA SerialGot ==
  ASSUME IInv, NEW u \in Users, NEW k, k = job[u], SerialBy(k),
         bump_shipment_line_received(u), NEW j, j = job'[u]
  PROVE  SerialBy(j)'
<1> USE DEF Inserting, Posting, PreparePcs, ReceivePcs, OwingPcs
<1>0. /\ JobsOK /\ ship \in [Tokens -> Ships] /\ k \in JobType /\ k.sid \in Tokens
      /\ k.cur \in Lines /\ k.pc = "receive.shipline"
      /\ BillsBy(k) /\ ReadyBy(k) /\ BooksBy(k) /\ StampsBy(k)
  BY DEF IInv, TypeOK, Ships, JobsOK, JobOK, CurPcs, SerialBy, bump_shipment_line_received
<1>1. /\ Alive(k, k.cur, line[k.cur].id)
      /\ ship[k.sid].got[k.cur] + k.want[k.cur] <= ship[k.sid].qty[k.cur]
  BY <1>0 DEF ReadyBy
<1>2. /\ UNCHANGED <<status, bills, line, shipped, taken, iclow>>
      /\ ship' = [ship EXCEPT ![k.sid].got[k.cur] = @ + k.want[k.cur]]
      /\ \/ Goto(u, "receive.mark")
         \/ Done(u, k.cur, "receive.line", "receive.posted")
  BY <1>1 DEF bump_shipment_line_received, parts9, Alive, StillThere
<1>3. /\ \A t \in Tokens : ship'[t].made = ship[t].made
      /\ ship'[k.sid].qty = ship[k.sid].qty
      /\ \A l \in Lines \ {k.cur} : ship'[k.sid].got[l] = ship[k.sid].got[l]
  BY <1>0, <1>2 DEF Ships, Quantity
<1>4. SameMade /\ SameCounts
  BY <1>2, <1>3 DEF SameMade, SameCounts
<1>5. CASE Done(u, k.cur, "receive.line", "receive.posted")
  BY <1>0, <1>2, <1>3, <1>4, <1>5, SerialNextLine
<1>6. CASE Goto(u, "receive.mark")
  <2>1. /\ j.pc = "receive.mark" /\ j.sid = k.sid /\ j.ids = k.ids /\ j.want = k.want
        /\ j.left = k.left /\ j.cur = k.cur
    BY <1>0, <1>6, GotoFacts DEF Keeps
  <2>2. BillsBy(j)'
    BY <1>0, <1>2, <1>4, <2>1, BillsKept
  <2>3. ReadyBy(j)'
    <3>1. ASSUME NEW l \in j.left \ {j.cur}
          PROVE  /\ line'[l].recv + j.want[l] <= line'[l].prep
                 /\ ship'[j.sid].got[l] + j.want[l] <= ship'[j.sid].qty[l]
      <4>1. l \in k.left \ {k.cur} /\ l \in Lines \ {k.cur}
        BY <1>0, <2>1 DEF JobType
      <4>2. /\ line[l].recv + k.want[l] <= line[l].prep
            /\ ship[k.sid].got[l] + k.want[l] <= ship[k.sid].qty[l]
        BY <1>0, <4>1 DEF ReadyBy
      <4>3. line' = line /\ ship'[k.sid].got[l] = ship[k.sid].got[l]
        BY <1>2, <1>3, <4>1
      <4> QED
        BY <1>3, <2>1, <4>2, <4>3
    <3>2. \A l \in j.left : Alive(j, l, line'[l].id)
      BY <1>0, <1>2, <2>1 DEF ReadyBy, Alive
    <3>3. j.cur \in j.left /\ \A l \in Lines : line'[l].id = 0 => line'[l].prep = 0
      BY <1>0, <1>2, <2>1 DEF ReadyBy
    <3> QED
      BY <2>1, <3>1, <3>2, <3>3 DEF ReadyBy
  <2>4. BooksBy(j)'
    <3>1. \A l \in Lines : ToShip(j, l) = ToShip(k, l) /\ ToTake(j, l) = ToTake(k, l)
      BY <1>0, <2>1 DEF ToShip, ToTake
    <3> QED
      BY <1>0, <1>2, <1>4, <2>1, <3>1, BooksKept DEF UnderWay
  <2>5. StampsBy(j)'
    BY <1>0, <1>2, <2>1, StampsKept DEF CalmPcs, Pcs, OtherPcs, StampPcs
  <2> QED
    BY <2>2, <2>3, <2>4, <2>5 DEF SerialBy
<1> QED
  BY <1>2, <1>5, <1>6

LEMMA SerialMark ==
  ASSUME IInv, NEW u \in Users, NEW k, k = job[u], SerialBy(k), mark_received(u),
         NEW j, j = job'[u]
  PROVE  SerialBy(j)'
<1>0. /\ k.pc = "receive.mark" /\ k.cur \in Lines /\ iclow \in [Lines -> {"none", "open", "ordered", "received"}]
      /\ BillsBy(k) /\ ReadyBy(k) /\ BooksBy(k) /\ StampsBy(k)
  BY DEF IInv, TypeOK, JobsOK, JobOK, CurPcs, SerialBy, mark_received
<1>1. /\ UNCHANGED <<status, bills, line, shipped, taken, ship>>
      /\ Done(u, k.cur, "receive.line", "receive.posted")
  BY DEF mark_received, supabase, parts9
<1>2. \A l \in Lines : iclow'[l] = "ordered" => iclow[l] = "ordered"
  BY <1>0 DEF mark_received
<1>3. SameMade
  BY <1>1 DEF SameMade
<1> QED
  BY <1>0, <1>1, <1>2, <1>3, SerialNextLine

LEMMA SerialReceive ==
  ASSUME IInv, NEW u \in Users, NEW k, k = job[u], SerialBy(k), Receive(u), NEW j, j = job'[u]
  PROVE  SerialBy(j)'
<1>1. CASE ReceivePosted(u)
  <2> USE DEF Inserting, Posting, PreparePcs, ReceivePcs, OwingPcs
  <2>0. /\ JobsOK /\ ship \in [Tokens -> Ships] /\ k.sid \in Tokens /\ k.pc = "receive.posted"
        /\ BillsBy(k) /\ ReadyBy(k) /\ BooksBy(k) /\ StampsBy(k)
    BY <1>1 DEF IInv, TypeOK, Ships, JobsOK, JobOK, SerialBy, ReceivePosted
  <2>1. /\ UNCHANGED <<status, bills, line, shipped, taken, iclow>>
        /\ j.pc = "refresh.read"
    BY <1>1, <2>0, GotoFacts DEF ReceivePosted, parts9
  <2>2. SameMade
    BY <1>1, <2>0 DEF ReceivePosted, Ships, SameMade
  <2>3. SameCounts
    BY <2>1 DEF SameCounts
  <2>4. BillsBy(j)'
    BY <2>0, <2>1, <2>2, BillsKept
  <2>5. ReadyBy(j)'
    BY <2>0, <2>1, ReadyFree DEF ReadyBy
  <2>6. BooksBy(j)'
    BY <2>0, <2>1, <2>2, <2>3, BooksKept, NothingOwed DEF UnderWay
  <2>7. StampsBy(j)'
    BY <2>0, <2>1, StampsKept DEF CalmPcs, Pcs, OtherPcs, StampPcs
  <2> QED
    BY <2>4, <2>5, <2>6, <2>7 DEF SerialBy
<1> QED
  BY <1>1, SerialReceiveRead, SerialTake, SerialTakeLine, SerialGot, SerialMark DEF Receive
\* The refresh writes the status the lines give; a request is cancelled when no
\* stamp of it is left.
LEMMA SerialRefresh ==
  ASSUME IInv, NEW u \in Users, NEW k, k = job[u], SerialBy(k), Refresh(u), NEW j, j = job'[u]
  PROVE  SerialBy(j)'
<1> USE DEF Inserting, Posting, PreparePcs, ReceivePcs, OwingPcs
<1>0. /\ JobsOK /\ BillsBy(k) /\ ReadyBy(k) /\ BooksBy(k) /\ StampsBy(k)
  BY DEF IInv, SerialBy
<1>1. CASE RefreshRead(u)
  <2>1. PICK h : h = status
    OBVIOUS
  <2> DEFINE i == [Idle EXCEPT !.pc = "refresh.write", !.seen = derive_request_status(h)]
  <2>2. i.pc = "refresh.write" /\ i.seen = derive_request_status(h)
    BY DEF Idle
  <2>3. j = i
    BY <1>0, <1>1, <2>1, GoFacts DEF RefreshRead
  <2> HIDE DEF i
  <2>4. j.pc = "refresh.write" /\ j.seen = derive_request_status(h) /\ k.pc = "refresh.read"
    BY <1>1, <2>2, <2>3 DEF RefreshRead
  <2>5. UNCHANGED <<status, bills, ship, line, shipped, taken, iclow>>
    BY <1>1 DEF RefreshRead, parts9, supabase
  <2>6. SameMade /\ SameCounts
    BY <2>5 DEF SameMade, SameCounts
  <2>7. BillsBy(j)'
    <3>1. (HasShipments' <=> HasShipments) /\ (Submitted' <=> Submitted)
      BY <2>5, <2>6, SameHas DEF Submitted
    <3>2. derive_request_status(h)' = derive_request_status(h)
      BY <2>6, DeriveSame
    <3>3. j.seen = derive_request_status(status)'
      BY <2>1, <2>4, <2>5, <3>2
    <3> QED
      BY <1>0, <2>4, <2>5, <3>1, <3>3 DEF BillsBy
  <2>8. ReadyBy(j)'
    BY <1>0, <2>4, <2>5, ReadyFree DEF ReadyBy
  <2>9. BooksBy(j)'
    BY <1>0, <2>4, <2>5, <2>6, BooksKept, NothingOwed DEF UnderWay
  <2>10. StampsBy(j)'
    BY <1>0, <2>4, <2>5, StampsKept DEF CalmPcs, Pcs, OtherPcs, StampPcs
  <2> QED
    BY <2>7, <2>8, <2>9, <2>10 DEF SerialBy
<1>2. CASE RefreshWrite(u)
  <2>1. PICK h : h = status
    OBVIOUS
  <2>2. PICK d : d = derive_request_status(h)
    OBVIOUS
  <2>3. Submitted /\ h \notin {"draft", "absent"} /\ k.pc = "refresh.write" /\ k.seen = d
    BY <1>0, <1>2, <2>1, <2>2 DEF RefreshWrite, BillsBy, Submitted
  <2>4. /\ UNCHANGED <<bills, ship, line, shipped, taken, iclow>>
        /\ status' = d /\ j.pc = "idle"
    BY <1>0, <1>2, <2>1, <2>3, GoFacts, IdleShape DEF RefreshWrite, Return, parts9
  <2>5. /\ derive_request_status(d) = d /\ d \notin {"draft", "absent"}
        /\ d = "cancelled" => h = "cancelled"
    BY <2>2, <2>3, DeriveTwice
  <2>6. SameMade /\ SameCounts
    BY <2>4 DEF SameMade, SameCounts
  <2>7. Submitted'
    BY <2>4, <2>5 DEF Submitted
  <2>8. BillsBy(j)'
    <3>1. HasShipments' <=> HasShipments
      BY <2>6, SameHas
    <3> QED
      BY <1>0, <2>3, <2>4, <2>7, <3>1 DEF BillsBy
  <2>9. ReadyBy(j)'
    BY <1>0, <2>4, ReadyFree DEF ReadyBy
  <2>10. BooksBy(j)'
    <3>1. derive_request_status(status)' = status'
      <4>1. derive_request_status(d)' = derive_request_status(d)
        BY <2>6, DeriveSame
      <4> QED
        BY <2>4, <2>5, <4>1
    <3>2. \A l \in Lines : /\ line'[l].prep + ToShip(j, l) = shipped'[l]
                           /\ line'[l].recv + ToTake(j, l) = taken'[l]
      <4>1. \A l \in Lines : /\ ToShip(k, l) = 0 /\ ToTake(k, l) = 0
                             /\ ToShip(j, l) = 0 /\ ToTake(j, l) = 0
        BY <2>3, <2>4, NothingOwed
      <4> QED
        BY <1>0, <2>4, <4>1 DEF BooksBy
    <3> QED
      BY <2>7, <3>1, <3>2 DEF BooksBy
  <2>11. StampsBy(j)'
    <3>1. NoneOrdered' <=> NoneOrdered
      BY <2>4 DEF NoneOrdered
    <3>2. \A l \in Lines : iclow'[l] = "ordered" => Stamping /\ line'[l].link
      BY <1>0, <2>3, <2>4 DEF StampsBy
    <3> QED
      BY <1>0, <2>1, <2>4, <2>5, <2>7, <3>1, <3>2 DEF StampsBy, StampPcs
  <2> QED
    BY <2>8, <2>9, <2>10, <2>11 DEF SerialBy
<1> QED
  BY <1>1, <1>2 DEF Refresh

LEMMA SerialCancel ==
  ASSUME IInv, NEW u \in Users, NEW k, k = job[u], SerialBy(k), Cancel(u), NEW j, j = job'[u]
  PROVE  SerialBy(j)'
<1> USE DEF Inserting, Posting, PreparePcs, ReceivePcs, OwingPcs
<1>0. /\ JobsOK /\ BillsBy(k) /\ ReadyBy(k) /\ BooksBy(k) /\ StampsBy(k)
  BY DEF IInv, SerialBy
\* The status and the counts stay: what is left to say is where the stamps are.
<1>1. ASSUME k.pc \in {"idle", "cancel.revert"}, j.pc \in {"cancel.revert", "cancel.write"},
             UNCHANGED <<status, bills, ship, line, shipped, taken>>,
             \A l \in Lines : iclow'[l] = "ordered" => iclow[l] = "ordered",
             \A l \in Lines : iclow'[l] = "ordered" => j.pc = "cancel.revert" /\ l \in j.left
      PROVE  SerialBy(j)'
  <2>1. SameMade /\ SameCounts
    BY <1>1 DEF SameMade, SameCounts
  <2>2. BillsBy(j)'
    BY <1>0, <1>1, <2>1, BillsKept
  <2>3. ReadyBy(j)'
    BY <1>0, <1>1, ReadyFree DEF ReadyBy
  <2>4. BooksBy(j)'
    BY <1>0, <1>1, <2>1, BooksKept, NothingOwed DEF UnderWay
  <2>5. StampsBy(j)'
    <3>1. (Submitted' <=> Submitted) /\ (NoneOrdered => NoneOrdered')
      BY <1>1 DEF Submitted, NoneOrdered
    <3>2. j.pc = "cancel.write" => NoneOrdered'
      BY <1>1 DEF NoneOrdered
    <3>3. \A l \in Lines : iclow'[l] = "ordered" => Stamping /\ line'[l].link
      BY <1>0, <1>1 DEF StampsBy
    <3> QED
      BY <1>0, <1>1, <3>1, <3>2, <3>3 DEF StampsBy, StampPcs
  <2> QED
    BY <2>2, <2>3, <2>4, <2>5 DEF SerialBy
<1>2. CASE CancelRead(u)
  <2> DEFINE linked == {l \in Lines : Stamping /\ line[l].link}
             i == [Idle EXCEPT !.left = linked,
                     !.pc = IF linked = {} THEN "cancel.write" ELSE "cancel.revert"]
  <2>1. i.left = linked /\ i.pc = IF linked = {} THEN "cancel.write" ELSE "cancel.revert"
    BY DEF Idle
  <2>2. j = i
    BY <1>0, <1>2, GoFacts DEF CancelRead
  <2> HIDE DEF i
  <2>3. /\ k.pc = "idle" /\ j.left = linked
        /\ j.pc = IF linked = {} THEN "cancel.write" ELSE "cancel.revert"
    BY <1>2, <2>1, <2>2, IdleShape DEF CancelRead
  <2>4. UNCHANGED <<status, bills, ship, line, shipped, taken, iclow>>
    BY <1>2 DEF CancelRead, parts9, supabase
  <2>5. \A l \in Lines : iclow[l] = "ordered" => l \in linked
    BY <1>0, <2>3 DEF StampsBy
  <2> QED
    BY <1>1, <2>3, <2>4, <2>5
<1>3. ASSUME NEW c \in Lines, CancelRevert(u, c) PROVE SerialBy(j)'
  <2>1. /\ UNCHANGED <<status, bills, ship, line, shipped, taken>> /\ k.pc = "cancel.revert"
    BY <1>3 DEF CancelRevert, parts9, supabase
  <2>2. \A l \in Lines : iclow'[l] = "ordered" => iclow[l] = "ordered" /\ l # c
    BY <1>3 DEF CancelRevert, revert_on_cancel, IInv, TypeOK
  <2>3. \/ j.pc = "cancel.revert" /\ j.left = k.left \ {c}
        \/ j.pc = "cancel.write" /\ k.left \subseteq {c}
    BY <1>0, <1>3, DoneFacts DEF CancelRevert
  <2>4. \A l \in Lines : iclow[l] = "ordered" => l \in k.left
    BY <1>0, <2>1 DEF StampsBy
  <2> QED
    BY <1>1, <2>1, <2>2, <2>3, <2>4
<1>4. CASE cancel_request(u)
  <2>1. /\ UNCHANGED <<bills, ship, line, shipped, taken, iclow>> /\ k.pc = "cancel.write"
        /\ status' = IF status = "absent" THEN "absent" ELSE "cancelled"
        /\ j.pc = "idle"
    BY <1>0, <1>4, GoFacts, IdleShape DEF cancel_request, Return, parts9
  <2>2. SameMade /\ SameCounts
    BY <2>1 DEF SameMade, SameCounts
  <2>3. Submitted => Submitted'
    BY <2>1 DEF Submitted
  <2>4. ~Submitted' => ~Submitted /\ status' = "absent"
    BY <2>1 DEF Submitted
  <2>5. BillsBy(j)'
    <3>1. HasShipments' <=> HasShipments
      BY <2>2, SameHas
    <3> QED
      BY <1>0, <2>1, <2>3, <3>1 DEF BillsBy
  <2>6. ReadyBy(j)'
    BY <1>0, <2>1, ReadyFree DEF ReadyBy
  <2>7. BooksBy(j)'
    <3>1. status' # "absent" => status' = derive_request_status(status)'
      BY <2>1 DEF derive_request_status
    <3>2. \A l \in Lines : /\ line'[l].prep + ToShip(j, l) = shipped'[l]
                           /\ line'[l].recv + ToTake(j, l) = taken'[l]
      <4>1. \A l \in Lines : /\ ToShip(k, l) = 0 /\ ToTake(k, l) = 0
                             /\ ToShip(j, l) = 0 /\ ToTake(j, l) = 0
        BY <2>1, NothingOwed
      <4> QED
        BY <1>0, <2>1, <4>1 DEF BooksBy
    <3> QED
      BY <1>0, <2>1, <2>4, <3>1, <3>2 DEF BooksBy
  <2>8. StampsBy(j)'
    BY <1>0, <2>1 DEF StampsBy, NoneOrdered, StampPcs
  <2> QED
    BY <2>5, <2>6, <2>7, <2>8 DEF SerialBy
<1> QED
  BY <1>2, <1>3, <1>4 DEF Cancel
LEMMA OthersWait ==
  ASSUME NEW u \in Users, JobsOK,
         Draft(u) \/ Submit(u) \/ Prepare(u) \/ Receive(u) \/ Refresh(u) \/ Cancel(u)
  PROVE  Others(u)
<1>1. \A r : Go(u, r) => Others(u)
  BY DEF Go, Others
<1>2. \A pc : Goto(u, pc) => Others(u)
  BY DEF Goto, Others
<1>3. \A l, again, pc : Done(u, l, again, pc) => Others(u)
  BY <1>1 DEF Done
<1>4. Return(u) => Others(u)
  BY <1>1 DEF Return
<1>5. CASE Draft(u)
  BY <1>1, <1>2, <1>4, <1>5 DEF Draft, EditRead, EditDelete, EditInsert, DeleteDraft, Others
<1>6. CASE Submit(u)
  BY <1>1, <1>2, <1>3, <1>4, <1>6
  DEF Submit, SubmitRead, SubmitWrite, StampLink, StampFails, stamp_on_submit, StampUndo
<1>7. CASE Prepare(u)
  BY <1>1, <1>2, <1>3, <1>4, <1>7
  DEF Prepare, PrepareRead, post_transfer_ship, create_shipment, add_shipment_lines,
      bump_line_prepared
<1>8. CASE Receive(u)
  BY <1>1, <1>2, <1>3, <1>4, <1>8
  DEF Receive, ReceiveRead, post_transfer_receive, create_receipt, bump_line_received,
      bump_shipment_line_received, mark_received, ReceivePosted
<1>9. CASE Refresh(u)
  BY <1>1, <1>2, <1>4, <1>9 DEF Refresh, RefreshRead, RefreshWrite
<1>10. CASE Cancel(u)
  BY <1>1, <1>3, <1>4, <1>10 DEF Cancel, CancelRead, cancel_request, CancelRevert
<1> QED
  BY <1>5, <1>6, <1>7, <1>8, <1>9, <1>10

\* Requests that come one after another: a handler starts when no other is in
\* progress, and it runs to its end.
Alone(u) == \A v \in Users \ {u} : job[v] = Idle
SerialNext == \E u \in Users :
  Alone(u) /\ (Draft(u) \/ Submit(u) \/ Prepare(u) \/ Receive(u) \/ Refresh(u) \/ Cancel(u))
SerialSpec == Init /\ [][SerialNext]_vars

SerialInv == \/ Quiet /\ SerialBy(Idle)
             \/ \E u \in Users : Alone(u) /\ SerialBy(job[u])

LEMMA SerialStarts == Init => SerialInv
BY SerialInit DEF SerialInv, Quiet, Init

LEMMA SerialInductive ==
  IInv /\ SerialInv /\ [SerialNext]_vars => SerialInv'
<1>1. ASSUME IInv, SerialInv, NEW u \in Users, Alone(u),
             Draft(u) \/ Submit(u) \/ Prepare(u) \/ Receive(u) \/ Refresh(u) \/ Cancel(u)
      PROVE  SerialInv'
  <2>1. SerialBy(job[u])
    BY <1>1 DEF SerialInv, Quiet, Alone
  <2>2. PICK k : k = job[u]
    OBVIOUS
  <2>3. PICK j : j = job'[u]
    OBVIOUS
  <2>4. SerialBy(k)
    BY <2>1, <2>2
  <2>5. SerialBy(j)'
    BY <1>1, <2>2, <2>3, <2>4, SerialEdit, SerialSubmit, SerialPrepare, SerialReceive,
       SerialRefresh, SerialCancel
  <2>6. SerialBy(job[u])'
    BY <2>3, <2>5
  <2>7. Alone(u)'
    BY <1>1, OthersWait DEF Alone, Others, IInv
  <2> QED
    BY <2>6, <2>7 DEF SerialInv
<1>2. ASSUME SerialInv, UNCHANGED vars PROVE SerialInv'
  <2>1. \A r : SerialBy(r)' <=> SerialBy(r)
    BY <1>2 DEF vars, parts9, SerialBy, BillsBy, ReadyBy, BooksBy, StampsBy, Submitted, HasShipments,
                Alive, NoneOrdered, derive_request_status
  <2>2. job' = job
    BY <1>2 DEF vars
  <2> QED
    BY <1>2, <2>1, <2>2 DEF SerialInv, Quiet, Alone
<1> QED
  BY <1>1, <1>2 DEF SerialNext

LEMMA SerialIsNext == [SerialNext]_vars => [Next]_vars
BY DEF SerialNext, Next

LEMMA SerialMeans ==
  ASSUME IInv, SerialInv
  PROVE  SingleBill /\ BooksAgree /\ StampReturned
<1>1. PICK k : SerialBy(k) /\ (Quiet => k = Idle)
  BY DEF SerialInv, Quiet
<1>2. SingleBill
  BY <1>1 DEF SerialBy, BillsBy, SingleBill
<1>3. BooksAgree
  <2> SUFFICES ASSUME Quiet
               PROVE  /\ \A l \in Lines : line[l].prep = shipped[l] /\ line[l].recv = taken[l]
                      /\ status # "absent" => status = derive_request_status(status)
    BY DEF BooksAgree
  <2>1. BooksBy(k) /\ k.pc = "idle"
    BY <1>1, IdleShape DEF SerialBy
  <2>2. \A l \in Lines : ToShip(k, l) = 0 /\ ToTake(k, l) = 0
    BY <2>1, NothingOwed DEF OwingPcs
  <2>3. \A l \in Lines : line[l].prep \in Nat /\ line[l].recv \in Nat
    BY CountTypes
  <2>4. ASSUME NEW l \in Lines PROVE line[l].prep = shipped[l] /\ line[l].recv = taken[l]
    <3>1. line[l].prep + 0 = shipped[l] /\ line[l].recv + 0 = taken[l]
      BY <2>1, <2>2 DEF BooksBy
    <3> QED
      BY <2>3, <3>1
  <2> QED
    BY <2>1, <2>4 DEF BooksBy, UnderWay, ReceivePcs
<1>4. StampReturned
  BY <1>1 DEF SerialBy, StampsBy, NoneOrdered, StampReturned
<1> QED
  BY <1>2, <1>3, <1>4

\* The calls of one user, none of which dies, are such requests.
THEOREM OneUserIsSerial ==
  ASSUME NEW u \in Users, Users = {u}, MaxAborts = 0
  PROVE  Spec => SerialSpec
<1>1. IInv /\ [Next]_vars => [SerialNext]_vars
  <2>1. ASSUME IInv, NEW v \in Users, Abort(v) PROVE FALSE
    <3>1. aborts \in 0..MaxAborts /\ aborts < MaxAborts
      BY <2>1 DEF IInv, TypeOK, Abort
    <3> QED
      BY <3>1
  <2>2. \A v \in Users : Alone(v)
    BY DEF Alone
  <2> QED
    BY <2>1, <2>2 DEF Next, SerialNext
<1> QED
  BY <1>1, InitInv, Inductive, PTL DEF Spec, SerialSpec

\* Requests one after another post one ship bill, whatever they are: edits, retries with
\* an old client_token, receipts and refusals on the way (api_prepare refuses a request
\* that has a shipment).
THEOREM OneShipBill == SerialSpec => []SingleBill
<1>1. IInv /\ SerialInv => SingleBill
  BY SerialMeans
<1> QED
  BY <1>1, InitInv, SerialStarts, Inductive, SerialIsNext, SerialInductive, PTL DEF SerialSpec

\* After each such request the two databases agree: what was shipped and taken in is what
\* Supabase counts, and the status is the one the lines give (refresh_request_status runs last
\* in api_prepare and api_receive).
THEOREM TheBooksAgree == SerialSpec => []BooksAgree
<1>1. IInv /\ SerialInv => BooksAgree
  BY SerialMeans
<1> QED
  BY <1>1, InitInv, SerialStarts, Inductive, SerialIsNext, SerialInductive, PTL DEF SerialSpec

\* No low-stock row is left ordered for a request that such a cancel ended, whether its
\* stamps were all made, or some refused and taken back (stamp_on_submit and
\* revert_on_cancel).
THEOREM StampsAreReturned == SerialSpec => []StampReturned
<1>1. IInv /\ SerialInv => StampReturned
  BY SerialMeans
<1> QED
  BY <1>1, InitInv, SerialStarts, Inductive, SerialIsNext, SerialInductive, PTL DEF SerialSpec
=============================================================================
