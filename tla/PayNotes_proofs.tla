-------------------------- MODULE PayNotes_proofs --------------------------
(***************************************************************************)
(* What holds of PayNotes for every set of operators, labels and bills:    *)
(* however their requests overlap and whatever dies or raises, a paid bill *)
(* stays paid under its voucher; as long as requests come one after        *)
(* another, notes, vouchers and reminders agree.                           *)
(***************************************************************************)
EXTENDS PayNotes, FiniteSetTheorems, TLAPS

USE PayAssumption

----------------------------------------------------------------------------
\* The inductive invariant.

\* Where a request works on a row of PVMAS that it found.
RowPcs == {"cancel", "list", "update", "voucher"}
Pcs == RowPcs \cup {"idle", "recover", "resolve", "fetch", "insert", "remind", "header",
                    "forget", "find", "pay"}

BillType == [noteno : Notes \cup {NoNote}, voucno : Nat, paid : BOOLEAN]
NoteType == [noteno : Notes, billamt : SUBSET Bills, netamt : SUBSET Bills, voucno : Nat,
             vouced : BOOLEAN, canceled : BOOLEAN]
LineType == [voucno : Nat, chkamt : SUBSET Bills]
JobType == [pc : Pcs, note : Notes \cup {NoNote}, bills : SUBSET Bills, row : Nat,
            read : SUBSET Bills, discount : SUBSET Bills, voucno : Nat, recovered : BOOLEAN, cancelling : BOOLEAN]

\* Every variable has its type (writer.py, pay_notes.py).
TypeOK ==
  /\ pimas \in [Bills -> BillType] /\ pvmas \in Seq(NoteType)
  /\ bpdet \subseteq LineType /\ reminder \subseteq Notes
  /\ job \in [Users -> JobType]
  /\ calls \in 0..MaxCalls /\ troubles \in 0..MaxTroubles
  /\ alone \in BOOLEAN /\ astray \in BOOLEAN

\* A request has a note; the row it found is a row of that note; a voucher has a number,
\* and pays nothing only when nothing is due.
JobOK(j) ==
  /\ j.pc # "idle" => j.note \in Notes
  /\ j.pc \in RowPcs => j.row \in Rows /\ pvmas[j.row].noteno = j.note
  /\ j.pc = "voucher" => j.voucno # 0 /\ (j.read = {} => j.bills \ j.discount = {})
JobsOK == \A u \in Users : JobOK(job[u])

PaidNumbered == \A b \in Bills : pimas[b].paid => pimas[b].voucno # 0

IInv == TypeOK /\ JobsOK /\ PaidNumbered /\ PaidHasVoucher

----------------------------------------------------------------------------
\* The pieces of state.

LEMMA IdleFacts == Idle \in JobType /\ Idle.pc = "idle"
BY DEF Idle, JobType, Pcs, RowPcs

LEMMA FreeFacts == Free \in BillType /\ ~Free.paid
BY DEF Free, BillType

LEMMA RowFacts ==
  ASSUME TypeOK
  PROVE  Rows \subseteq Nat /\ \A i \in Rows : pvmas[i] \in NoteType
BY DEF TypeOK, Rows

\* No row of PVMAS goes away or changes its name.
RowsKept == \A i \in Rows : i \in Rows' /\ pvmas'[i].noteno = pvmas[i].noteno

\* A request's next step leaves the others' alone.
LEMMA JobStep ==
  ASSUME IInv, RowsKept, NEW u \in Users, NEW j \in JobType,
         job' = [job EXCEPT ![u] = j], JobOK(j)'
  PROVE  (job \in [Users -> JobType])' /\ JobsOK'
<1>1. (job \in [Users -> JobType])'
  BY DEF IInv, TypeOK
<1>2. ASSUME NEW v \in Users \ {u} PROVE JobOK(job[v])'
  BY DEF IInv, TypeOK, JobsOK, JobOK, RowsKept
<1>3. JobOK(job[u])'
  BY DEF IInv, TypeOK
<1> QED
  BY <1>1, <1>2, <1>3 DEF JobsOK

LEMMA DoneStep ==
  ASSUME IInv, RowsKept, NEW u \in Users, Done(u)
  PROVE  (job \in [Users -> JobType])' /\ JobsOK'
<1>1. JobOK(Idle)'
  BY IdleFacts DEF JobOK, RowPcs
<1> QED
  BY <1>1, JobStep, IdleFacts DEF Done

LEMMA GotoStep ==
  ASSUME IInv, RowsKept, NEW u \in Users, NEW pc \in Pcs, Goto(u, pc),
         job[u].pc # "idle", pc # "voucher", pc \in RowPcs => job[u].pc \in RowPcs
  PROVE  (job \in [Users -> JobType])' /\ JobsOK'
<1>1. job[u] \in JobType /\ JobOK(job[u])
  BY DEF IInv, TypeOK, JobsOK
<1>2. PICK j \in JobType : j = [job[u] EXCEPT !.pc = pc]
  BY <1>1 DEF JobType
<1>3. j.pc = pc /\ j.note = job[u].note /\ j.row = job[u].row
  BY <1>1, <1>2 DEF JobType
<1>4. JobOK(j)'
  BY <1>1, <1>3 DEF JobOK, RowsKept
<1>5. job' = [job EXCEPT ![u] = j]
  BY <1>2 DEF Goto
<1> QED
  BY <1>4, <1>5, JobStep

\* A step that writes nothing in KSS.
LEMMA ReadStep ==
  ASSUME IInv, UNCHANGED kss, reminder' \subseteq Notes,
         (job \in [Users -> JobType])' /\ JobsOK',
         calls' \in 0..MaxCalls, troubles' \in 0..MaxTroubles,
         alone' \in BOOLEAN, astray' \in BOOLEAN
  PROVE  IInv'
BY DEF IInv, TypeOK, kss, PaidNumbered, PaidHasVoucher, Named, Rows

LEMMA QuietFacts ==
  ASSUME IInv, Quiet
  PROVE  /\ calls' \in 0..MaxCalls /\ troubles' \in 0..MaxTroubles
         /\ alone' \in BOOLEAN /\ astray' \in BOOLEAN
BY DEF IInv, TypeOK, Quiet, ghosts

LEMMA InitInv == Init => IInv
<1> SUFFICES ASSUME Init PROVE IInv
  OBVIOUS
<1>1. TypeOK
  <2>1. pimas \in [Bills -> BillType] /\ job \in [Users -> JobType]
    BY IdleFacts, FreeFacts DEF Init
  <2>2. pvmas \in Seq(NoteType)
    BY DEF Init
  <2>3. bpdet \subseteq LineType /\ reminder \subseteq Notes
    BY DEF Init
  <2>4. calls \in 0..MaxCalls /\ troubles \in 0..MaxTroubles
    BY DEF Init
  <2>5. alone \in BOOLEAN /\ astray \in BOOLEAN
    BY DEF Init
  <2> QED
    BY <2>1, <2>2, <2>3, <2>4, <2>5 DEF TypeOK
<1>2. JobsOK
  BY IdleFacts DEF Init, JobsOK, JobOK, RowPcs
<1>3. PaidNumbered /\ PaidHasVoucher
  BY FreeFacts DEF Init, PaidNumbered, PaidHasVoucher
<1> QED
  BY <1>1, <1>2, <1>3 DEF IInv

LEMMA KeptWhenUnchanged == UNCHANGED kss => RowsKept
BY DEF kss, RowsKept, Rows

\* A request that comes in.
LEMMA RequestInv ==
  ASSUME IInv, NEW u \in Users, NEW j \in JobType, Request(u, j),
         j.note \in Notes, j.pc \notin RowPcs
  PROVE  IInv'
<1>1. UNCHANGED kss /\ job' = [job EXCEPT ![u] = j]
  BY DEF Request
<1>2. JobOK(j)'
  BY DEF JobOK, RowPcs
<1>3. (job \in [Users -> JobType])' /\ JobsOK'
  BY <1>1, <1>2, KeptWhenUnchanged, JobStep
<1>4. /\ reminder' \subseteq Notes /\ calls' \in 0..MaxCalls /\ troubles' \in 0..MaxTroubles
      /\ alone' \in BOOLEAN /\ astray' \in BOOLEAN
  BY DEF Request, IInv, TypeOK
<1> QED
  BY <1>1, <1>3, <1>4, ReadStep

LEMMA OpenIsLive ==
  ASSUME IInv, NEW n, NEW i \in Live(n)
  PROVE  i \in Rows /\ i \in Nat /\ pvmas[i] \in NoteType /\ pvmas[i].noteno = n
BY RowFacts DEF IInv, Live, Named

\* A payment that comes in pays what its note comes to, less a discount, or a part of it.
LEMMA PayRequest ==
  ASSUME IInv, NEW u \in Users, NEW n \in Notes, api_create_voucher(u, n)
  PROVE  \E j \in JobType : /\ Request(u, j) /\ j.pc = "pay" /\ j.note = n
                            /\ \E i \in Live(n) : j.read \subseteq pvmas[i].billamt \ j.discount
<1>1. PICK i \in Live(n) : \E discount \in SUBSET pvmas[i].billamt :
        \E amount \in SUBSET (pvmas[i].billamt \ discount) :
          Request(u, [Idle EXCEPT !.pc = "pay", !.note = n, !.read = amount, !.discount = discount])
  BY DEF api_create_voucher
<1>2. PICK discount \in SUBSET pvmas[i].billamt : \E amount \in SUBSET (pvmas[i].billamt \ discount) :
        Request(u, [Idle EXCEPT !.pc = "pay", !.note = n, !.read = amount, !.discount = discount])
  BY <1>1
<1>3. PICK amount \in SUBSET (pvmas[i].billamt \ discount) :
        Request(u, [Idle EXCEPT !.pc = "pay", !.note = n, !.read = amount, !.discount = discount])
  BY <1>2
<1>4. discount \in SUBSET Bills /\ amount \in SUBSET Bills
  BY OpenIsLive DEF NoteType
<1>5. PICK j \in JobType : j = [Idle EXCEPT !.pc = "pay", !.note = n, !.read = amount,
                                            !.discount = discount]
  BY <1>4, IdleFacts DEF JobType, Pcs
<1>6. j.pc = "pay" /\ j.note = n /\ j.read = amount /\ j.discount = discount
  BY <1>5, IdleFacts DEF JobType
<1>7. Request(u, j)
  BY <1>3, <1>5
<1> QED
  BY <1>6, <1>7

LEMMA RequestsInv ==
  ASSUME IInv, NEW u \in Users, NEW l \in Labels, NEW n \in Notes, NEW bills \in SUBSET Bills,
         \/ api_create_note(u, l, bills) \/ api_cancel_note(u, n)
         \/ api_create_voucher(u, n) \/ api_update_note(u, n, bills)
  PROVE  IInv'
<1>1. Bare(l) \in Notes
  BY DEF Bare, Notes
<1>2. CASE api_create_note(u, l, bills)
  <2>1. PICK pc \in {"recover", "resolve"} :
               Request(u, [Idle EXCEPT !.note = Bare(l), !.bills = bills, !.pc = pc])
    BY <1>2 DEF api_create_note
  <2> DEFINE j == [Idle EXCEPT !.note = Bare(l), !.bills = bills, !.pc = pc]
  <2>2. j \in JobType /\ j.note \in Notes /\ j.pc \notin RowPcs
    BY <1>1, IdleFacts DEF JobType, Pcs, RowPcs
  <2> QED
    BY <2>1, <2>2, RequestInv
<1>3. CASE api_cancel_note(u, n)
  <2>1. PICK pc \in {"header", "forget"} :
               Request(u, [Idle EXCEPT !.pc = pc, !.note = n, !.cancelling = TRUE])
    BY <1>3 DEF api_cancel_note
  <2> DEFINE j == [Idle EXCEPT !.pc = pc, !.note = n, !.cancelling = TRUE]
  <2>2. j \in JobType /\ j.note \in Notes /\ j.pc \notin RowPcs
    BY IdleFacts DEF JobType, Pcs, RowPcs
  <2> QED
    BY <2>1, <2>2, RequestInv
<1>4. CASE api_create_voucher(u, n)
  <2>1. PICK j \in JobType : Request(u, j) /\ j.pc = "pay" /\ j.note = n
    BY <1>4, PayRequest
  <2> QED
    BY <2>1, RequestInv DEF RowPcs
<1>5. CASE api_update_note(u, n, bills)
  <2> DEFINE j == [Idle EXCEPT !.pc = "find", !.note = n, !.bills = bills]
  <2>1. Request(u, j)
    BY <1>5 DEF api_update_note
  <2>2. j \in JobType /\ j.note \in Notes /\ j.pc \notin RowPcs
    BY IdleFacts DEF JobType, Pcs, RowPcs
  <2> QED
    BY <2>1, <2>2, RequestInv
<1> QED
  BY <1>2, <1>3, <1>4, <1>5

\* The steps of a request that only read, and those of the reminders.
LEMMA AfterRead ==
  ASSUME IInv, NEW u \in Users, UNCHANGED kss, Quiet, reminder' \subseteq Notes,
         \/ Done(u)
         \/ \E pc \in Pcs \ RowPcs : Goto(u, pc) /\ ~At(u, "idle")
         \/ \E j \in JobType : job' = [job EXCEPT ![u] = j] /\ JobOK(j)
  PROVE  IInv'
<1>1. RowsKept /\ Rows' = Rows /\ pvmas' = pvmas
  BY KeptWhenUnchanged DEF kss, Rows
<1>2. CASE Done(u)
  BY <1>1, <1>2, DoneStep, QuietFacts, ReadStep
<1>3. CASE \E pc \in Pcs \ RowPcs : Goto(u, pc) /\ ~At(u, "idle")
  <2>1. (job \in [Users -> JobType])' /\ JobsOK'
    BY <1>1, <1>3, GotoStep DEF At, RowPcs
  <2> QED
    BY <2>1, QuietFacts, ReadStep
<1>4. CASE \E j \in JobType : job' = [job EXCEPT ![u] = j] /\ JobOK(j)
  <2>1. PICK j \in JobType : job' = [job EXCEPT ![u] = j] /\ JobOK(j)
    BY <1>4
  <2>2. JobOK(j)'
    BY <1>1, <2>1 DEF JobOK
  <2>3. (job \in [Users -> JobType])' /\ JobsOK'
    BY <1>1, <2>1, <2>2, JobStep
  <2> QED
    BY <2>3, QuietFacts, ReadStep
<1> QED
  BY <1>2, <1>3, <1>4

LEMMA CreateReads ==
  ASSUME IInv, NEW u \in Users,
         \/ recover_note(u) \/ resolve_stored_noteno(u) \/ fetch_bills_for_note(u)
         \/ refuse_discount(u)
  PROVE  IInv'
<1>1. UNCHANGED kss /\ Quiet /\ UNCHANGED reminder /\ reminder' \subseteq Notes
  BY DEF recover_note, resolve_stored_noteno, fetch_bills_for_note, refuse_discount, IInv, TypeOK
<1>2. job[u] \in JobType /\ JobOK(job[u])
  BY DEF IInv, TypeOK, JobsOK
<1>3. CASE recover_note(u)
  <2>1. CASE Done(u)
    BY <1>1, <2>1, AfterRead
  <2>2. CASE job' = [job EXCEPT ![u].pc = "remind", ![u].recovered = TRUE]
    <3>1. PICK j \in JobType : j = [job[u] EXCEPT !.pc = "remind", !.recovered = TRUE]
      BY <1>2 DEF JobType, Pcs
    <3>2. j.pc = "remind" /\ j.note = job[u].note /\ job[u].pc = "recover"
      BY <1>2, <1>3, <3>1 DEF JobType, recover_note, At
    <3>3. JobOK(j)
      BY <1>2, <3>2 DEF JobOK, RowPcs
    <3>4. job' = [job EXCEPT ![u] = j]
      BY <2>2, <3>1
    <3> QED
      BY <1>1, <3>3, <3>4, AfterRead
  <2> QED
    BY <1>3, <2>1, <2>2 DEF recover_note
<1>4. CASE resolve_stored_noteno(u)
  <2>1. job[u].note \in Notes
    BY <1>2, <1>4 DEF resolve_stored_noteno, At, JobOK
  <2>2. ASSUME NEW k \in 0..MaxSuffix,
               job' = [job EXCEPT ![u].note = <<job[u].note[1], k>>, ![u].pc = "fetch"]
        PROVE  IInv'
    <3>1. PICK n \in Notes : n = <<job[u].note[1], k>>
      BY <2>1 DEF Notes
    <3>2. PICK j \in JobType : j = [job[u] EXCEPT !.note = n, !.pc = "fetch"]
      BY <1>2 DEF JobType, Pcs
    <3>3. j.pc = "fetch" /\ j.note = n
      BY <1>2, <3>2 DEF JobType
    <3>4. JobOK(j)
      BY <3>1, <3>3 DEF JobOK, RowPcs
    <3>5. job' = [job EXCEPT ![u] = j]
      BY <2>2, <3>1, <3>2
    <3> QED
      BY <1>1, <3>4, <3>5, AfterRead
  <2>3. CASE Done(u)
    BY <1>1, <2>3, AfterRead
  <2> QED
    BY <1>4, <2>2, <2>3 DEF resolve_stored_noteno
<1>5. CASE fetch_bills_for_note(u)
  <2>1. Done(u) \/ (Goto(u, "insert") /\ ~At(u, "idle"))
    BY <1>5 DEF fetch_bills_for_note, At
  <2> QED
    BY <1>1, <2>1, AfterRead DEF Pcs, RowPcs
<1>6. CASE refuse_discount(u)
  <2>1. Done(u) \/ (Goto(u, "header") /\ ~At(u, "idle"))
    BY <1>6 DEF refuse_discount, GiveUp, At
  <2> QED
    BY <1>1, <2>1, AfterRead DEF Pcs, RowPcs
<1> QED
  BY <1>3, <1>4, <1>5, <1>6

\* Troubles: the request ends, or goes on to undo what it did.
LEMMA TroubleInv ==
  ASSUME IInv, NEW u \in Users,
         insert_reminder(u) \/ unreadable_date(u) \/ Raise(u) \/ Die(u)
  PROVE  IInv'
<1>1. UNCHANGED kss /\ RowsKept
  BY KeptWhenUnchanged DEF insert_reminder, unreadable_date, Raise, Die
<1>2. job[u] \in JobType /\ JobOK(job[u])
  BY DEF IInv, TypeOK, JobsOK
<1>3. /\ calls' \in 0..MaxCalls /\ troubles' \in 0..MaxTroubles
      /\ alone' \in BOOLEAN /\ astray' \in BOOLEAN
  <2>1. calls' = calls /\ alone' = alone /\ (troubles' = troubles \/ Trouble)
    BY DEF insert_reminder, unreadable_date, Raise, Die, Quiet, ghosts
  <2>2. calls' \in 0..MaxCalls /\ troubles' \in 0..MaxTroubles
    BY <2>1 DEF Trouble, IInv, TypeOK
  <2>3. astray' = astray \/ astray' = TRUE
        \/ astray' = (astray \/ At(u, "forget")
                      \/ (job[u].pc \in {"header", "cancel"} /\ ~job[u].cancelling))
    BY DEF insert_reminder, unreadable_date, Raise, Die, Quiet, ghosts
  <2>4. alone' \in BOOLEAN /\ astray' \in BOOLEAN
    BY <2>1, <2>3 DEF IInv, TypeOK
  <2> QED
    BY <2>2, <2>4
<1>4. reminder' \subseteq Notes
  BY <1>2 DEF insert_reminder, unreadable_date, Raise, Die, IInv, TypeOK, JobOK, At
<1>5. Done(u) \/ (Goto(u, "header") /\ job[u].pc # "idle")
  BY DEF insert_reminder, unreadable_date, Raise, Die, GiveUp, At
<1>6. (job \in [Users -> JobType])' /\ JobsOK'
  BY <1>1, <1>5, DoneStep, GotoStep DEF Pcs, RowPcs
<1> QED
  BY <1>1, <1>3, <1>4, <1>6, ReadStep

LEMMA OtherReads ==
  ASSUME IInv, NEW u \in Users,
         \/ cancel_header(u) \/ delete_reminder(u) \/ update_header(u)
         \/ list_note_bills(u) \/ next_voucno(u)
  PROVE  IInv'
<1>1. UNCHANGED kss /\ Quiet /\ reminder' \subseteq Notes
  BY DEF cancel_header, delete_reminder, update_header, list_note_bills, next_voucno, IInv, TypeOK
<1>2. job[u] \in JobType /\ JobOK(job[u])
  BY DEF IInv, TypeOK, JobsOK
<1>3. Rows \subseteq Nat /\ \A i \in Rows : pvmas[i] \in NoteType
  BY RowFacts DEF IInv
<1>4. ASSUME NEW pc \in {"cancel", "list"}, NEW i \in Named(job[u].note), ~At(u, "idle"),
             job' = [job EXCEPT ![u].pc = pc, ![u].row = i]
      PROVE  IInv'
  <2>1. i \in Rows /\ pvmas[i].noteno = job[u].note
    BY DEF Named
  <2>2. PICK j \in JobType : j = [job[u] EXCEPT !.pc = pc, !.row = i]
    BY <1>2, <1>3, <2>1 DEF JobType, Pcs, RowPcs
  <2>3. j.pc = pc /\ j.row = i /\ j.note = job[u].note
    BY <1>2, <2>2 DEF JobType
  <2>4. JobOK(j)
    BY <1>2, <1>4, <2>1, <2>3 DEF JobOK, At
  <2>5. job' = [job EXCEPT ![u] = j]
    BY <1>4, <2>2
  <2> QED
    BY <1>1, <2>4, <2>5, AfterRead
<1>5. CASE Done(u)
  BY <1>1, <1>5, AfterRead
<1>6. CASE Goto(u, "forget") /\ ~At(u, "idle")
  BY <1>1, <1>6, AfterRead DEF Pcs, RowPcs
<1>7. CASE cancel_header(u)
  <2>1. \/ Done(u) \/ (Goto(u, "forget") /\ ~At(u, "idle"))
        \/ /\ ~At(u, "idle")
           /\ \E i \in Named(job[u].note) : job' = [job EXCEPT ![u].pc = "cancel", ![u].row = i]
    BY <1>7 DEF cancel_header, AfterCancel, At
  <2> QED
    BY <1>4, <1>5, <1>6, <2>1
<1>8. CASE update_header(u)
  <2>1. \/ Done(u)
        \/ /\ ~At(u, "idle")
           /\ \E i \in Named(job[u].note) : job' = [job EXCEPT ![u].pc = "list", ![u].row = i]
    BY <1>8 DEF update_header, Live, At
  <2> QED
    BY <1>4, <1>5, <2>1
<1>9. CASE list_note_bills(u)
  <2> DEFINE read == {b \in Stamped(job[u].note) : Unpaid(b)}
  <2>1. CASE job' = [job EXCEPT ![u].pc = "update", ![u].read = read]
    <3>1. read \in SUBSET Bills
      BY DEF Stamped
    <3>2. PICK j \in JobType : j = [job[u] EXCEPT !.pc = "update", !.read = read]
      BY <1>2, <3>1 DEF JobType, Pcs, RowPcs
    <3>3. j.pc = "update" /\ j.row = job[u].row /\ j.note = job[u].note /\ job[u].pc = "list"
      BY <1>2, <1>9, <3>2 DEF JobType, list_note_bills, At
    <3>4. JobOK(j)
      BY <1>2, <3>3 DEF JobOK, RowPcs
    <3>5. job' = [job EXCEPT ![u] = j]
      BY <2>1, <3>2
    <3> QED
      BY <1>1, <3>4, <3>5, AfterRead
  <2> QED
    BY <1>5, <1>9, <2>1 DEF list_note_bills
<1>10. CASE next_voucno(u)
  <2>1. ASSUME NEW i \in Live(job[u].note), NEW v \in Unissued,
               job[u].read = {} => pvmas[i].billamt \ job[u].discount = {},
               job' = [job EXCEPT ![u].pc = "voucher", ![u].row = i,
                                  ![u].bills = pvmas[i].billamt, ![u].voucno = v]
        PROVE  IInv'
    <3>1. i \in Rows /\ pvmas[i].noteno = job[u].note
      BY DEF Live, Named
    <3>2. v \in Nat /\ v # 0
      BY DEF Unissued, IInv, TypeOK
    <3>3. PICK bills \in SUBSET Bills : bills = pvmas[i].billamt
      BY <1>3, <3>1 DEF NoteType
    <3>4. PICK j \in JobType : j = [job[u] EXCEPT !.pc = "voucher", !.row = i, !.bills = bills,
                                                  !.voucno = v]
      BY <1>2, <1>3, <3>1, <3>2 DEF JobType, Pcs, RowPcs
    <3>5. /\ j.pc = "voucher" /\ j.row = i /\ j.note = job[u].note /\ j.voucno = v
          /\ j.bills = pvmas[i].billamt /\ j.read = job[u].read /\ j.discount = job[u].discount
      BY <3>3, <1>2, <3>4 DEF JobType
    <3>6. JobOK(j)
      BY <1>2, <1>10, <2>1, <3>1, <3>2, <3>5 DEF JobOK, next_voucno, At
    <3>7. job' = [job EXCEPT ![u] = j]
      BY <2>1, <3>3, <3>4
    <3> QED
      BY <1>1, <3>6, <3>7, AfterRead
  <2> QED
    BY <1>5, <1>10, <2>1 DEF next_voucno
<1>11. CASE delete_reminder(u)
  BY <1>5, <1>11 DEF delete_reminder
<1> QED
  BY <1>7, <1>8, <1>9, <1>10, <1>11

----------------------------------------------------------------------------
\* The writes.

\* A write that pays nothing: the paid bills and the vouchers stay as they are.
Settled ==
  /\ \A b \in Bills : /\ pimas[b].paid => pimas'[b] = pimas[b]
                      /\ pimas'[b].paid => pimas'[b] = pimas[b]
  /\ \A i \in Rows : /\ i \in Rows' /\ pvmas'[i].noteno = pvmas[i].noteno
                     /\ pvmas'[i].vouced = pvmas[i].vouced /\ pvmas'[i].voucno = pvmas[i].voucno
                     /\ pvmas[i].vouced => pvmas'[i] = pvmas[i]

LEMMA SettledStep ==
  ASSUME IInv, NEW u \in Users, Settled, Quiet, bpdet' = bpdet, reminder' = reminder,
         (pimas \in [Bills -> BillType])', (pvmas \in Seq(NoteType))',
         \/ Done(u)
         \/ \E pc \in Pcs \ RowPcs : Goto(u, pc) /\ ~At(u, "idle")
  PROVE  IInv'
<1>1. RowsKept
  BY DEF Settled, RowsKept
<1>2. (job \in [Users -> JobType])' /\ JobsOK'
  <2>1. CASE Done(u)
    BY <1>1, <2>1, DoneStep
  <2>2. CASE \E pc \in Pcs \ RowPcs : Goto(u, pc) /\ ~At(u, "idle")
    <3>1. PICK pc \in Pcs \ RowPcs : Goto(u, pc) /\ job[u].pc # "idle"
      BY <2>2 DEF At
    <3>2. pc # "voucher"
      BY DEF RowPcs
    <3> QED
      BY <1>1, <3>1, <3>2, GotoStep
  <2> QED
    BY <2>1, <2>2
<1>3. TypeOK'
  BY <1>2, QuietFacts DEF IInv, TypeOK
<1>4. PaidNumbered'
  BY DEF IInv, PaidNumbered, Settled
<1>5. ASSUME NEW b \in Bills, pimas'[b].paid
      PROVE  \E i \in Named(pimas[b].noteno)' :
               /\ pvmas'[i].vouced /\ pvmas'[i].voucno = pimas'[b].voucno
               /\ pvmas'[i].netamt # {} => \E line \in bpdet' : line.voucno = pimas'[b].voucno
  <2>1. pimas'[b] = pimas[b] /\ pimas[b].paid
    BY <1>5 DEF Settled
  <2>2. PICK i \in Named(pimas[b].noteno) :
           /\ pvmas[i].vouced /\ pvmas[i].voucno = pimas[b].voucno
           /\ pvmas[i].netamt # {} => \E line \in bpdet : line.voucno = pimas[b].voucno
    BY <2>1 DEF IInv, PaidHasVoucher
  <2>3. i \in Named(pimas[b].noteno)' /\ pvmas'[i] = pvmas[i]
    BY <2>1, <2>2 DEF Named, Settled
  <2> QED
    BY <2>1, <2>2, <2>3
<1>6. PaidHasVoucher'
  BY <1>5 DEF PaidHasVoucher
<1> QED
  BY <1>2, <1>3, <1>4, <1>6 DEF IInv

LEMMA BillsTyped == ASSUME IInv PROVE \A b \in Bills : pimas[b] \in BillType
BY DEF IInv, TypeOK

\* What the guards of the UPDATEs of PIMAS keep.
LEMMA StampFacts ==
  ASSUME IInv, NEW note \in Notes, NEW bills, NEW from
  PROVE  /\ Stamp(note, bills, from) \in [Bills -> BillType]
         /\ \A b \in Bills :
              /\ pimas[b].paid => Stamp(note, bills, from)[b] = pimas[b]
              /\ Stamp(note, bills, from)[b].paid => Stamp(note, bills, from)[b] = pimas[b]
<1> DEFINE new(b) == [pimas[b] EXCEPT !.noteno = note]
<1>1. \A b \in Bills : new(b) \in BillType /\ new(b).paid = pimas[b].paid
  BY BillsTyped DEF BillType
<1>2. \A b \in Bills : Stamp(note, bills, from)[b] =
        IF b \in bills /\ Unpaid(b) /\ pimas[b].noteno \in from THEN new(b) ELSE pimas[b]
  BY DEF Stamp
<1>3. Stamp(note, bills, from) = [b \in Bills |-> Stamp(note, bills, from)[b]]
  BY DEF Stamp
<1> HIDE DEF new
<1>4. \A b \in Bills : Stamp(note, bills, from)[b] \in BillType
  BY <1>1, <1>2, BillsTyped
<1> QED
  BY <1>1, <1>2, <1>3, <1>4 DEF Unpaid

LEMMA CreateSettles ==
  ASSUME IInv, NEW u \in Users, create_pay_note(u)
  PROVE  IInv' /\ Settled
<1>1. job[u] \in JobType /\ job[u].note \in Notes
  BY DEF create_pay_note, At, IInv, TypeOK, JobsOK, JobOK
<1> DEFINE row == [noteno |-> job[u].note, billamt |-> job[u].bills, netamt |-> {},
                   voucno |-> 0, vouced |-> FALSE, canceled |-> FALSE]
<1>2. row \in NoteType
  BY <1>1 DEF NoteType, JobType
<1>3. pvmas' = Append(pvmas, row) /\ pimas' = Stamp(job[u].note, job[u].bills, {NoNote})
  BY DEF create_pay_note
<1> HIDE DEF row
<1>4. /\ (pvmas \in Seq(NoteType))' /\ Rows' = Rows \cup {Len(pvmas) + 1}
      /\ \A i \in Rows : pvmas'[i] = pvmas[i]
  BY <1>2, <1>3 DEF IInv, TypeOK, Rows
<1>5. /\ (pimas \in [Bills -> BillType])'
      /\ \A b \in Bills : /\ pimas[b].paid => pimas'[b] = pimas[b]
                          /\ pimas'[b].paid => pimas'[b] = pimas[b]
  BY <1>1, <1>3, StampFacts
<1>6. Settled
  BY <1>4, <1>5 DEF Settled
<1>7. Quiet /\ bpdet' = bpdet /\ reminder' = reminder /\ Goto(u, "remind") /\ ~At(u, "idle")
  BY DEF create_pay_note, At
<1> QED
  BY <1>4, <1>5, <1>6, <1>7, SettledStep DEF Pcs, RowPcs

LEMMA CancelSettles ==
  ASSUME IInv, NEW u \in Users, cancel_unvouchered_pay_note(u)
  PROVE  IInv' /\ Settled
<1> DEFINE i == job[u].row
           row == [pvmas[i] EXCEPT !.canceled = pvmas[i].canceled \/ ~pvmas[i].vouced]
           new(b) == [pimas[b] EXCEPT !.noteno = NoNote]
<1>1. i \in Rows /\ pvmas[i] \in NoteType /\ pvmas \in Seq(NoteType)
  BY RowFacts DEF cancel_unvouchered_pay_note, At, IInv, TypeOK, JobsOK, JobOK, RowPcs
<1>2. /\ row \in NoteType /\ row.noteno = pvmas[i].noteno /\ row.vouced = pvmas[i].vouced
      /\ row.voucno = pvmas[i].voucno /\ (pvmas[i].vouced => row = pvmas[i])
  BY <1>1 DEF NoteType
<1>3. pvmas' = [pvmas EXCEPT ![i] = row]
  BY <1>1 DEF cancel_unvouchered_pay_note
<1>4. /\ (pvmas \in Seq(NoteType))' /\ Rows' = Rows
      /\ pvmas'[i] = row /\ \A k \in Rows \ {i} : pvmas'[k] = pvmas[k]
  BY <1>1, <1>2, <1>3 DEF Rows
<1>5. \A b \in Bills : new(b) \in BillType /\ new(b).paid = pimas[b].paid
  BY BillsTyped DEF BillType
<1>6. pimas' = [b \in Bills |-> IF b \in Stamped(job[u].note) /\ pimas[b].voucno = 0
                               THEN new(b) ELSE pimas[b]]
  BY DEF cancel_unvouchered_pay_note
<1> HIDE DEF new, row
<1>7. /\ (pimas \in [Bills -> BillType])'
      /\ \A b \in Bills : /\ pimas[b].paid => pimas'[b] = pimas[b]
                          /\ pimas'[b].paid => pimas'[b] = pimas[b]
  BY <1>5, <1>6, BillsTyped DEF IInv, PaidNumbered
<1>8. Settled
  BY <1>2, <1>4, <1>7 DEF Settled
<1>9. /\ Quiet /\ bpdet' = bpdet /\ reminder' = reminder /\ ~At(u, "idle")
      /\ Done(u) \/ Goto(u, "forget")
  BY DEF cancel_unvouchered_pay_note, AfterCancel, At
<1> QED
  BY <1>4, <1>7, <1>8, <1>9, SettledStep DEF Pcs, RowPcs

LEMMA UpdateSettles ==
  ASSUME IInv, NEW u \in Users, update_pay_note(u)
  PROVE  IInv' /\ Settled
<1> DEFINE i == job[u].row
           n == job[u].note
           added == Stamp(n, job[u].bills \ job[u].read, {NoNote, n})
           drop == {b \in job[u].read \ job[u].bills : pimas[b].noteno = n /\ Unpaid(b)}
           row == [pvmas[i] EXCEPT !.billamt = IF pvmas[i].vouced THEN pvmas[i].billamt
                                               ELSE job[u].bills]
<1>1. /\ i \in Rows /\ pvmas[i] \in NoteType /\ pvmas \in Seq(NoteType)
      /\ n \in Notes /\ job[u] \in JobType
  BY RowFacts DEF update_pay_note, At, IInv, TypeOK, JobsOK, JobOK, RowPcs
<1>2. /\ row \in NoteType /\ row.noteno = pvmas[i].noteno /\ row.vouced = pvmas[i].vouced
      /\ row.voucno = pvmas[i].voucno /\ (pvmas[i].vouced => row = pvmas[i])
  BY <1>1 DEF NoteType, JobType
<1>3. pvmas' = [pvmas EXCEPT ![i] = row]
  BY <1>1 DEF update_pay_note
<1>4. /\ (pvmas \in Seq(NoteType))' /\ Rows' = Rows
      /\ pvmas'[i] = row /\ \A k \in Rows \ {i} : pvmas'[k] = pvmas[k]
  BY <1>1, <1>2, <1>3 DEF Rows
<1>5. pimas' = [b \in Bills |-> IF b \in drop THEN Free ELSE added[b]]
  BY DEF update_pay_note
<1>6. \A b \in drop : ~pimas[b].paid
  BY DEF Unpaid
<1>7. /\ added \in [Bills -> BillType]
      /\ \A b \in Bills : /\ pimas[b].paid => added[b] = pimas[b]
                          /\ added[b].paid => added[b] = pimas[b]
  BY <1>1, StampFacts
<1> HIDE DEF added, drop, row
<1>8. /\ (pimas \in [Bills -> BillType])'
      /\ \A b \in Bills : /\ pimas[b].paid => pimas'[b] = pimas[b]
                          /\ pimas'[b].paid => pimas'[b] = pimas[b]
  BY <1>5, <1>6, <1>7, FreeFacts
<1>9. Settled
  BY <1>2, <1>4, <1>8 DEF Settled
<1>10. Quiet /\ bpdet' = bpdet /\ reminder' = reminder /\ Done(u)
  BY DEF update_pay_note
<1> QED
  BY <1>4, <1>8, <1>9, <1>10, SettledStep

Paid ==
  /\ \A b \in Bills : pimas'[b].noteno = pimas[b].noteno /\ (pimas[b].paid => pimas'[b].paid)
  /\ \A i \in Rows : /\ pvmas'[i].canceled = pvmas[i].canceled
                     /\ pvmas'[i].billamt = pvmas[i].billamt
                     /\ pvmas[i].vouced => pvmas'[i].vouced

\* The payment: the bills of the note, whatever they are by now, get its number.
LEMMA VoucherInv ==
  ASSUME IInv, NEW u \in Users, create_voucher(u)
  PROVE  IInv' /\ Paid
<1> DEFINE i == job[u].row
           n == job[u].note
           v == job[u].voucno
           net == job[u].bills \ job[u].discount
           row == [pvmas[i] EXCEPT !.vouced = TRUE, !.voucno = v, !.netamt = net]
           new(b) == [pimas[b] EXCEPT !.voucno = v, !.paid = TRUE]
<1>1. /\ i \in Rows /\ pvmas[i] \in NoteType /\ pvmas \in Seq(NoteType)
      /\ pvmas[i].noteno = n /\ v \in Nat /\ v # 0 /\ job[u] \in JobType
      /\ job[u].read = {} => net = {}
  BY RowFacts DEF create_voucher, At, IInv, TypeOK, JobsOK, JobOK, RowPcs, JobType
<1>2. /\ row \in NoteType /\ row.noteno = n /\ row.vouced = TRUE /\ row.voucno = v
      /\ row.canceled = pvmas[i].canceled /\ row.billamt = pvmas[i].billamt /\ row.netamt = net
  BY <1>1 DEF NoteType, JobType
<1>3. pvmas' = [pvmas EXCEPT ![i] = row]
  BY <1>1 DEF create_voucher
<1>4. /\ (pvmas \in Seq(NoteType))' /\ Rows' = Rows
      /\ pvmas'[i] = row /\ \A k \in Rows \ {i} : pvmas'[k] = pvmas[k]
  BY <1>1, <1>2, <1>3 DEF Rows
<1>5. \A b \in Bills : /\ new(b) \in BillType /\ new(b).paid = TRUE /\ new(b).voucno = v
                      /\ new(b).noteno = pimas[b].noteno
  BY <1>1, BillsTyped DEF BillType
<1>6. pimas' = [b \in Bills |-> IF b \in Stamped(n) THEN new(b) ELSE pimas[b]]
  BY DEF create_voucher
<1>7. bpdet' = IF job[u].read = {} THEN bpdet
               ELSE bpdet \cup {[voucno |-> v, chkamt |-> job[u].read]}
  BY DEF create_voucher
<1> HIDE DEF new, row, net
<1>8. /\ (pimas \in [Bills -> BillType])'
      /\ \A b \in Bills : \/ pimas'[b] = pimas[b] /\ b \notin Stamped(n)
                          \/ b \in Stamped(n) /\ pimas'[b] = new(b)
  BY <1>5, <1>6, BillsTyped
<1>9. [voucno |-> v, chkamt |-> job[u].read] \in LineType
  BY <1>1 DEF LineType, JobType
<1>10. RowsKept
  BY <1>1, <1>2, <1>4 DEF RowsKept
<1>11. TypeOK' /\ JobsOK'
  <2>1. (job \in [Users -> JobType])' /\ JobsOK'
    BY <1>10, DoneStep DEF create_voucher
  <2>2. /\ calls' \in 0..MaxCalls /\ troubles' \in 0..MaxTroubles
        /\ alone' \in BOOLEAN /\ astray' \in BOOLEAN /\ reminder' = reminder
    BY QuietFacts DEF create_voucher
  <2> QED
    BY <1>4, <1>7, <1>8, <1>9, <2>1, <2>2 DEF IInv, TypeOK
<1>12. PaidNumbered'
  BY <1>1, <1>5, <1>8 DEF IInv, PaidNumbered
<1>13. PaidHasVoucher'
  <2>1. ASSUME NEW b \in Bills, pimas'[b].paid
        PROVE  \E k \in Named(pimas[b].noteno)' :
                 /\ pvmas'[k].vouced /\ pvmas'[k].voucno = pimas'[b].voucno
                 /\ pvmas'[k].netamt # {} => \E line \in bpdet' : line.voucno = pimas'[b].voucno
    <3>1. CASE b \in Stamped(n)
      <4>1. pimas'[b].noteno = n /\ pimas'[b].voucno = v
        BY <1>5, <1>8, <3>1 DEF Stamped
      <4>2. i \in Named(pimas[b].noteno)' /\ pvmas'[i].vouced /\ pvmas'[i].voucno = v
        BY <1>1, <1>2, <1>4, <4>1 DEF Named
      <4>3. pvmas'[i].netamt # {} => \E line \in bpdet' : line.voucno = v
        <5>1. [voucno |-> v, chkamt |-> job[u].read].voucno = v
          OBVIOUS
        <5> QED
          BY <1>1, <1>2, <1>4, <1>7, <5>1
      <4> QED
        BY <4>1, <4>2, <4>3
    <3>2. CASE b \notin Stamped(n)
      <4>1. pimas'[b] = pimas[b] /\ pimas[b].paid /\ pimas[b].noteno # n
        BY <1>8, <2>1, <3>2 DEF Stamped
      <4>2. PICK k \in Named(pimas[b].noteno) :
               /\ pvmas[k].vouced /\ pvmas[k].voucno = pimas[b].voucno
               /\ pvmas[k].netamt # {} => \E line \in bpdet : line.voucno = pimas[b].voucno
        BY <4>1 DEF IInv, PaidHasVoucher
      <4>3. k \in Rows \ {i} /\ pvmas[k].noteno = pimas[b].noteno
        BY <1>1, <4>1, <4>2 DEF Named
      <4>4. k \in Named(pimas[b].noteno)' /\ pvmas'[k] = pvmas[k]
        BY <1>4, <4>1, <4>2, <4>3 DEF Named
      <4>5. \A line \in bpdet : line \in bpdet'
        BY <1>7
      <4> QED
        BY <4>1, <4>2, <4>4, <4>5
    <3> QED
      BY <3>1, <3>2
  <2> QED
    BY <2>1 DEF PaidHasVoucher
<1>14. ASSUME NEW b \in Bills
       PROVE  pimas'[b].noteno = pimas[b].noteno /\ (pimas[b].paid => pimas'[b].paid)
  BY <1>5, <1>8
<1>15. ASSUME NEW k \in Rows
       PROVE  /\ pvmas'[k].canceled = pvmas[k].canceled /\ pvmas'[k].billamt = pvmas[k].billamt
              /\ pvmas[k].vouced => pvmas'[k].vouced
  BY <1>2, <1>4
<1>16. IInv'
  BY <1>11, <1>12, <1>13 DEF IInv
<1>17. Paid
  BY <1>14, <1>15 DEF Paid
<1> QED
  BY <1>16, <1>17

----------------------------------------------------------------------------
\* The theorems.

Writes(u) == create_pay_note(u) \/ cancel_unvouchered_pay_note(u) \/ update_pay_note(u)

LEMMA NextCases ==
  ASSUME IInv, Next
  PROVE  \E u \in Users : Writes(u) \/ create_voucher(u) \/ (IInv' /\ UNCHANGED kss)
<1>1. PICK u \in Users :
        \/ Writes(u) \/ create_voucher(u)
        \/ \E l \in Labels, n \in Notes, bills \in SUBSET Bills :
             \/ api_create_note(u, l, bills) \/ api_cancel_note(u, n)
             \/ api_create_voucher(u, n) \/ api_update_note(u, n, bills)
        \/ recover_note(u) \/ resolve_stored_noteno(u) \/ fetch_bills_for_note(u)
        \/ refuse_discount(u)
        \/ insert_reminder(u) \/ unreadable_date(u) \/ Raise(u) \/ Die(u)
        \/ cancel_header(u) \/ delete_reminder(u) \/ update_header(u)
        \/ list_note_bills(u) \/ next_voucno(u)
  <2>1. \A l \in Labels : Bare(l) \in Notes
    BY DEF Bare, Notes
  <2>2. \A n \in Notes : n[1] \in Labels
    BY DEF Notes
  <2> QED
    BY <2>1, <2>2 DEF Next, Writes
<1>2. CASE \E l \in Labels, n \in Notes, bills \in SUBSET Bills :
             \/ api_create_note(u, l, bills) \/ api_cancel_note(u, n)
             \/ api_create_voucher(u, n) \/ api_update_note(u, n, bills)
  BY <1>2, RequestsInv DEF api_create_note, api_cancel_note, api_create_voucher,
                          api_update_note, Request
<1>3. CASE recover_note(u) \/ resolve_stored_noteno(u) \/ fetch_bills_for_note(u)
           \/ refuse_discount(u)
  BY <1>3, CreateReads DEF recover_note, resolve_stored_noteno, fetch_bills_for_note, refuse_discount
<1>4. CASE insert_reminder(u) \/ unreadable_date(u) \/ Raise(u) \/ Die(u)
  BY <1>4, TroubleInv DEF insert_reminder, unreadable_date, Raise, Die
<1>5. CASE cancel_header(u) \/ delete_reminder(u) \/ update_header(u)
           \/ list_note_bills(u) \/ next_voucno(u)
  BY <1>5, OtherReads DEF cancel_header, delete_reminder, update_header, list_note_bills,
                         next_voucno
<1> QED
  BY <1>1, <1>2, <1>3, <1>4, <1>5

LEMMA WritesSettle ==
  ASSUME IInv, NEW u \in Users, Writes(u)
  PROVE  IInv' /\ Settled
BY CreateSettles, CancelSettles, UpdateSettles DEF Writes

LEMMA NextInv == IInv /\ [Next]_vars => IInv'
<1>1. CASE UNCHANGED vars
  BY <1>1 DEF vars, kss, ghosts, IInv, TypeOK, JobsOK, JobOK, PaidNumbered, PaidHasVoucher,
              Named, Rows
<1>2. CASE Next
  BY <1>2, NextCases, WritesSettle, VoucherInv
<1> QED
  BY <1>1, <1>2

LEMMA Invariance == Spec => []IInv
<1> QED
  BY InitInv, NextInv, PTL DEF Spec

\* Every variable of the notes keeps its type, and a note keeps its name.
THEOREM TypeCorrect == Spec => []TypeOK
<1>1. IInv => TypeOK
  BY DEF IInv
<1> QED
  BY <1>1, Invariance, PTL

\* A paid bill carries the number of a voucher made of a note of its name, and of a payment,
\* however requests overlap, die and raise (create_voucher, writer.py).
THEOREM PaidByVoucher == Spec => []PaidHasVoucher
<1>1. IInv => PaidHasVoucher
  BY DEF IInv
<1> QED
  BY <1>1, Invariance, PTL

\* No edit and no cancel that was decided before the payment undoes it: the guards of their
\* UPDATEs keep the paid bills and the note (update_pay_note, cancel_unvouchered_pay_note).
THEOREM PaymentStays == Spec => PaidStays
<1>1. IInv /\ [Next]_vars =>
        [/\ \A b \in Bills : pimas[b].paid => pimas'[b].paid /\ pimas'[b].noteno = pimas[b].noteno
         /\ \A i \in Rows : pvmas[i].vouced /\ ~pvmas[i].canceled
              => pvmas'[i].vouced /\ ~pvmas'[i].canceled /\ pvmas'[i].billamt = pvmas[i].billamt]_vars
  <2>1. ASSUME IInv, NEW u \in Users, Writes(u) \/ create_voucher(u) \/ UNCHANGED kss
        PROVE  /\ \A b \in Bills : pimas[b].paid => pimas'[b].paid /\ pimas'[b].noteno = pimas[b].noteno
               /\ \A i \in Rows : pvmas[i].vouced /\ ~pvmas[i].canceled
                    => pvmas'[i].vouced /\ ~pvmas'[i].canceled /\ pvmas'[i].billamt = pvmas[i].billamt
    <3>1. CASE Writes(u)
      <4>1. Settled
        BY <2>1, <3>1, WritesSettle
      <4> QED
        BY <4>1 DEF Settled
    <3>2. CASE create_voucher(u)
      <4>1. Paid
        BY <2>1, <3>2, VoucherInv
      <4> QED
        BY <4>1 DEF Paid
    <3>3. CASE UNCHANGED kss
      BY <3>3 DEF kss
    <3> QED
      BY <2>1, <3>1, <3>2, <3>3
  <2> QED
    BY <2>1, NextCases
<1> QED
  BY <1>1, Invariance, PTL DEF Spec, PaidStays
----------------------------------------------------------------------------
(***************************************************************************)
(* Requests one after another.                                             *)
(***************************************************************************)
\* As long as no two requests overlapped, one operator at a time has a request.
OneAtATime == alone => \A u, v \in Users : u # v => At(u, "idle") \/ At(v, "idle")

\* Bills are paid under a number, and rows of PVMAS are vouchered under one: their own,
\* as long as the numbers have digits.
Numbers ==
  /\ \A b \in Bills : pimas[b].voucno # 0 => pimas[b].paid
  /\ \A i \in Rows : pvmas[i].vouced <=> pvmas[i].voucno # 0
  /\ \A i, k \in Rows : pvmas[i].vouced /\ pvmas[i].voucno <= Widest
                         /\ pvmas[i].voucno = pvmas[k].voucno => i = k
  /\ \A line \in bpdet : \E i \in Rows : pvmas[i].voucno = line.voucno /\ pvmas[i].vouced
VouchersKept == \A i \in Rows : pvmas[i].vouced => ~pvmas[i].canceled

OneLive == \A i, k \in Rows :
  pvmas[i].noteno = pvmas[k].noteno /\ ~pvmas[i].canceled /\ ~pvmas[k].canceled => i = k
Totals == \A i \in Rows : ~pvmas[i].canceled => Stamped(pvmas[i].noteno) = pvmas[i].billamt
PaidInFull == \A i \in Rows : pvmas[i].vouced =>
  /\ pvmas[i].netamt \subseteq pvmas[i].billamt
  /\ pvmas[i].voucno <= Widest =>
       /\ \A b \in Bills : pimas[b].voucno = pvmas[i].voucno <=> b \in pvmas[i].billamt
       /\ PaysOnce(pvmas[i])
OnLiveNote == \A b \in Bills : pimas[b].noteno # NoNote => Live(pimas[b].noteno) # {}

BooksOK == Numbers /\ VouchersKept /\ OneLive /\ Totals /\ PaidInFull /\ OnLiveNote

\* What the one request under way read is still so.
StillSo(j) ==
  /\ j.pc \in {"fetch", "insert"} => Live(j.note) = {} /\ Stamped(j.note) = {}
  /\ j.pc = "insert" => \A b \in j.bills : Unpaid(b) /\ pimas[b].noteno = NoNote
  /\ j.pc \in RowPcs => ~pvmas[j.row].vouced /\ ~pvmas[j.row].canceled
  /\ j.pc = "update" => /\ j.read = Stamped(j.note)
                        /\ \A b \in j.bills : Unpaid(b) /\ pimas[b].noteno \in {NoNote, j.note}
  /\ j.pc = "pay" => \A i \in Live(j.note) : j.read \subseteq pvmas[i].billamt \ j.discount
  /\ j.pc = "voucher" => /\ j.bills = pvmas[j.row].billamt /\ j.read \subseteq j.bills \ j.discount
                         /\ j.voucno <= Widest => \A i \in Rows : pvmas[i].voucno # j.voucno

BooksInv == alone => BooksOK /\ \A u \in Users : StillSo(job[u])

\* The reminders, as long as requests also end.  A request that is taking a new note back
\* answers for one without a reminder, a request that forgets it for one without a note.
TakingBack(j) == ~j.cancelling /\ \/ j.pc = "remind" /\ ~j.recovered
                                  \/ j.pc \in {"header", "cancel"}
Waits(n) == open_unvouchered_note_exists(n) /\ Live(n) = Named(n)
Reminded == \A n \in Notes :
  /\ Waits(n) => n \in reminder \/ \E u \in Users : job[u].note = n /\ TakingBack(job[u])
  /\ n \in reminder => Live(n) # {} \/ \E u \in Users : job[u].note = n /\ At(u, "forget")
RemindJob(j) ==
  /\ j.pc \in {"recover", "resolve", "fetch", "insert", "remind"} => ~j.cancelling
  /\ j.pc \in {"resolve", "fetch", "insert"} => ~j.recovered
  /\ j.pc = "remind" => Live(j.note) # {}
  /\ TakingBack(j) => j.note \notin reminder
  /\ j.pc = "forget" => ~Waits(j.note)
RemindInv == alone /\ ~astray => Reminded /\ \A u \in Users : RemindJob(job[u])
\* The step of one operator.
Step(u) ==
  \/ \E l \in Labels, bills \in (SUBSET Bills) \ {{}} : api_create_note(u, l, bills)
  \/ recover_note(u) \/ resolve_stored_noteno(u) \/ fetch_bills_for_note(u)
  \/ create_pay_note(u) \/ refuse_discount(u) \/ unreadable_date(u)
  \/ insert_reminder(u)
  \/ \E n \in Notes : api_cancel_note(u, n) \/ api_create_voucher(u, n)
  \/ cancel_header(u) \/ cancel_unvouchered_pay_note(u) \/ delete_reminder(u)
  \/ \E n \in Notes, bills \in (SUBSET Bills) \ {{}} : api_update_note(u, n, bills)
  \/ update_header(u) \/ list_note_bills(u) \/ update_pay_note(u)
  \/ next_voucno(u) \/ create_voucher(u)
  \/ Raise(u) \/ Die(u)

LEMMA Steps == Next => \E u \in Users : Step(u)
BY DEF Next, Step

\* A request comes in, or the one under way goes on.
LEMMA RequestOrNot ==
  ASSUME NEW u \in Users, Step(u)
  PROVE  \/ \E j : Request(u, j)
         \/ /\ ~At(u, "idle") /\ alone' = alone /\ (astray => astray')
            /\ \E j : job' = [job EXCEPT ![u] = j]
<1>1. ASSUME NEW l \in Labels, NEW n \in Notes, NEW bills \in SUBSET Bills,
             \/ api_create_note(u, l, bills) \/ api_cancel_note(u, n)
             \/ api_create_voucher(u, n) \/ api_update_note(u, n, bills)
      PROVE  \E j : Request(u, j)
  BY <1>1 DEF api_create_note, api_cancel_note, api_create_voucher, api_update_note
<1>2. CASE \E l \in Labels, bills \in (SUBSET Bills) \ {{}} : api_create_note(u, l, bills)
  BY <1>2 DEF api_create_note
<1>3. CASE \E n \in Notes : api_cancel_note(u, n) \/ api_create_voucher(u, n)
  BY <1>3 DEF api_cancel_note, api_create_voucher
<1>4. CASE \E n \in Notes, bills \in (SUBSET Bills) \ {{}} : api_update_note(u, n, bills)
  BY <1>4 DEF api_update_note
<1> DEFINE Goes == /\ ~At(u, "idle") /\ alone' = alone /\ (astray => astray')
                   /\ \E j : job' = [job EXCEPT ![u] = j]
<1>5. CASE recover_note(u) \/ resolve_stored_noteno(u) \/ fetch_bills_for_note(u)
  <2>1. ~At(u, "idle") /\ alone' = alone /\ astray' = astray
    BY <1>5 DEF recover_note, resolve_stored_noteno, fetch_bills_for_note, At, Quiet, ghosts
  <2>2. \E j : job' = [job EXCEPT ![u] = j]
    BY <1>5 DEF recover_note, resolve_stored_noteno, fetch_bills_for_note, Done, Goto
  <2> QED
    BY <2>1, <2>2
<1>6. CASE create_pay_note(u) \/ refuse_discount(u) \/ unreadable_date(u) \/ insert_reminder(u)
  <2>1. ~At(u, "idle") /\ alone' = alone /\ (astray => astray')
    BY <1>6 DEF create_pay_note, refuse_discount, unreadable_date, insert_reminder, At, Quiet, ghosts
  <2>2. \E j : job' = [job EXCEPT ![u] = j]
    BY <1>6 DEF create_pay_note, refuse_discount, unreadable_date, insert_reminder, GiveUp, Done, Goto
  <2> QED
    BY <2>1, <2>2
<1>7. CASE cancel_header(u) \/ cancel_unvouchered_pay_note(u) \/ delete_reminder(u)
  <2>1. ~At(u, "idle") /\ alone' = alone /\ astray' = astray
    BY <1>7 DEF cancel_header, cancel_unvouchered_pay_note, delete_reminder, At, Quiet, ghosts
  <2>2. \E j : job' = [job EXCEPT ![u] = j]
    BY <1>7 DEF cancel_header, cancel_unvouchered_pay_note, delete_reminder, AfterCancel, Done, Goto
  <2> QED
    BY <2>1, <2>2
<1>8. CASE update_header(u) \/ list_note_bills(u) \/ update_pay_note(u) \/ next_voucno(u)
           \/ create_voucher(u)
  <2>1. ~At(u, "idle") /\ alone' = alone /\ astray' = astray
    BY <1>8 DEF update_header, list_note_bills, update_pay_note, next_voucno, create_voucher, At,
                Quiet, ghosts
  <2>2. \E j : job' = [job EXCEPT ![u] = j]
    BY <1>8 DEF update_header, list_note_bills, update_pay_note, next_voucno, create_voucher, Done
  <2> QED
    BY <2>1, <2>2
<1>9. CASE Raise(u) \/ Die(u)
  BY <1>9 DEF Raise, Die, At, Done
<1> QED
  BY <1>2, <1>3, <1>4, <1>5, <1>6, <1>7, <1>8, <1>9 DEF Step

\* While requests come one after another only the operator who moves has one.
LEMMA Others ==
  ASSUME IInv, OneAtATime, NEW u \in Users, Step(u)
  PROVE  /\ \A v \in Users \ {u} : job'[v] = job[v]
         /\ alone' => alone /\ \A v \in Users \ {u} : At(v, "idle")
         /\ ~astray' => ~astray
<1>1. job \in [Users -> JobType]
  BY DEF IInv, TypeOK
<1>2. CASE \E j : Request(u, j)
  <2>1. PICK j : Request(u, j)
    BY <1>2
  <2>2. \A v \in Users \ {u} : job'[v] = job[v]
    BY <1>1, <2>1 DEF Request
  <2>3. alone' = (alone /\ \A v \in Users : At(v, "idle")) /\ astray' = astray
    BY <2>1 DEF Request
  <2> QED
    BY <2>2, <2>3
<1>3. CASE /\ ~At(u, "idle") /\ alone' = alone /\ (astray => astray')
           /\ \E j : job' = [job EXCEPT ![u] = j]
  BY <1>1, <1>3 DEF OneAtATime
<1> QED
  BY <1>2, <1>3, RequestOrNot

LEMMA OneAtATimeStep ==
  ASSUME IInv, OneAtATime, [Next]_vars
  PROVE  OneAtATime'
<1>1. CASE UNCHANGED vars
  BY <1>1 DEF vars, ghosts, OneAtATime, At
<1>2. ASSUME NEW u \in Users, Step(u)
      PROVE  OneAtATime'
  BY <1>2, Others DEF OneAtATime, At
<1> QED
  BY <1>1, <1>2, Steps

-----------------------------------------------------------------------------
(***************************************************************************)
(* What was read is still so.                                              *)
(***************************************************************************)
EasyPcs == {"idle", "recover", "resolve", "remind", "header", "forget", "find"}

LEMMA StillEasy ==
  ASSUME NEW j, j.pc \in EasyPcs
  PROVE  StillSo(j)
BY DEF StillSo, EasyPcs, RowPcs

\* The record of a request that goes on to its next call, or is done.
LEMMA Gone ==
  ASSUME IInv, NEW u \in Users, NEW pc \in Pcs, Goto(u, pc)
  PROVE  /\ job'[u].pc = pc /\ job'[u].note = job[u].note /\ job'[u].bills = job[u].bills
         /\ job'[u].row = job[u].row /\ job'[u].read = job[u].read
         /\ job'[u].recovered = job[u].recovered /\ job'[u].cancelling = job[u].cancelling
BY DEF IInv, TypeOK, JobType, Goto

LEMMA Ended ==
  ASSUME IInv, NEW u \in Users, Done(u)
  PROVE  job'[u] = Idle /\ job'[u].pc = "idle"
BY IdleFacts DEF IInv, TypeOK, Done

\* The bills of a note that waits for payment are unpaid.
LEMMA UnpaidOnOpen ==
  ASSUME IInv, BooksOK, NEW i \in Rows, ~pvmas[i].canceled, ~pvmas[i].vouced,
         NEW b \in Stamped(pvmas[i].noteno)
  PROVE  Unpaid(b)
<1>1. b \in Bills /\ pimas[b].noteno = pvmas[i].noteno
  BY DEF Stamped
<1>2. SUFFICES ASSUME pimas[b].paid
               PROVE  FALSE
  BY <1>1 DEF Unpaid, BooksOK, Numbers
<1>3. PICK k \in Named(pvmas[i].noteno) : pvmas[k].vouced
  BY <1>1, <1>2 DEF IInv, PaidHasVoucher
<1>4. k \in Rows /\ pvmas[k].noteno = pvmas[i].noteno /\ ~pvmas[k].canceled
  BY <1>3 DEF Named, BooksOK, VouchersKept
<1> QED
  BY <1>3, <1>4 DEF BooksOK, OneLive

\* The bills of a voucher are on a live note.
LEMMA PaidOnVouched ==
  ASSUME IInv, BooksOK, NEW b \in Bills, pimas[b].voucno # 0
  PROVE  \E k \in Rows : /\ pvmas[k].vouced /\ pvmas[k].voucno = pimas[b].voucno
                         /\ pvmas[k].noteno = pimas[b].noteno /\ ~pvmas[k].canceled
<1>1. pimas[b].paid
  BY DEF BooksOK, Numbers
<1>2. PICK k \in Named(pimas[b].noteno) : pvmas[k].vouced /\ pvmas[k].voucno = pimas[b].voucno
  BY <1>1 DEF IInv, PaidHasVoucher
<1> QED
  BY <1>2 DEF Named, BooksOK, VouchersKept
LEMMA StillEasyNext ==
  ASSUME NEW j, j.pc \in EasyPcs
  PROVE  StillSo(j)'
BY DEF StillSo, EasyPcs, RowPcs

LEMMA StillSame ==
  ASSUME UNCHANGED kss, NEW j, StillSo(j)
  PROVE  StillSo(j)'
BY DEF StillSo, kss, Live, Named, Stamped, Unpaid, Rows

\* The payments of a voucher that keeps its row are those of its number.
LEMMA PaysStill ==
  ASSUME NEW k, pvmas'[k] = pvmas[k], PaysOnce(pvmas[k]),
         {line \in bpdet' : line.voucno = pvmas[k].voucno}
           = {line \in bpdet : line.voucno = pvmas[k].voucno}
  PROVE  PaysOnce(pvmas[k])'
<1>1. PICK row : row = pvmas[k]
  OBVIOUS
<1>2. PaysOnce(row)'
  BY <1>1 DEF PaysOnce
<1> QED
  BY <1>1, <1>2 DEF PaysOnce

\* A row that is paid in full is so as long as it, its bills' numbers and the payments stay.
LEMMA PaidStill ==
  ASSUME PaidInFull, bpdet' = bpdet, \A b \in Bills : pimas'[b].voucno = pimas[b].voucno,
         \A k \in Rows' : pvmas'[k].vouced => k \in Rows /\ pvmas'[k] = pvmas[k]
  PROVE  PaidInFull'
<1>1. ASSUME NEW k \in Rows', pvmas'[k].vouced
      PROVE  /\ pvmas'[k].netamt \subseteq pvmas'[k].billamt
             /\ pvmas'[k].voucno <= Widest =>
                  \A b \in Bills : pimas'[b].voucno = pvmas'[k].voucno <=> b \in pvmas'[k].billamt
  BY <1>1 DEF PaidInFull
<1>2. ASSUME NEW k \in Rows', pvmas'[k].vouced, pvmas'[k].voucno <= Widest
      PROVE  PaysOnce(pvmas[k])'
  <2>1. pvmas'[k] = pvmas[k] /\ PaysOnce(pvmas[k])
    BY <1>2 DEF PaidInFull
  <2> QED
    BY <2>1, PaysStill
<1> QED
  BY <1>1, <1>2 DEF PaidInFull

LEMMA BooksSame ==
  ASSUME UNCHANGED kss, BooksOK
  PROVE  BooksOK'
<1>1. Numbers' /\ VouchersKept' /\ OneLive' /\ Totals' /\ OnLiveNote'
  BY DEF BooksOK, Numbers, VouchersKept, OneLive, Totals, OnLiveNote, kss, Live, Named, Stamped,
         Rows
<1>2. PaidInFull'
  BY PaidStill DEF BooksOK, kss, Rows
<1> QED
  BY <1>1, <1>2 DEF BooksOK

\* A step keeps the books when it keeps them for the one who moves.
LEMMA BooksKept ==
  ASSUME IInv, OneAtATime, BooksInv, NEW u \in Users, Step(u), NEW j, j = job'[u],
         alone /\ BooksOK /\ StillSo(job[u]) => BooksOK' /\ StillSo(j)'
  PROVE  BooksInv'
<1> SUFFICES ASSUME alone'
             PROVE  BooksOK' /\ \A v \in Users : StillSo(job[v])'
  BY DEF BooksInv
<1>1. alone /\ \A v \in Users \ {u} : job'[v] = job[v] /\ At(v, "idle")
  BY Others
<1>2. BooksOK' /\ StillSo(j)'
  BY <1>1 DEF BooksInv
<1>3. ASSUME NEW v \in Users
      PROVE  StillSo(job[v])'
  <2>1. CASE v = u
    <3>1. StillSo(job[u])' <=> StillSo(j)'
      BY DEF StillSo
    <3> QED
      BY <1>2, <2>1, <3>1
  <2>2. CASE v # u
    <3>1. job'[v].pc \in EasyPcs
      BY <1>1, <2>2 DEF At, EasyPcs
    <3> QED
      BY <3>1 DEF StillSo, EasyPcs, RowPcs
  <2> QED
    BY <2>1, <2>2
<1> QED
  BY <1>2, <1>3

\* A step that writes nothing in KSS.
LEMMA ReadKept ==
  ASSUME IInv, OneAtATime, BooksInv, NEW u \in Users, Step(u), UNCHANGED kss,
         NEW j, j = job'[u], alone /\ BooksOK /\ StillSo(job[u]) => StillSo(j)
  PROVE  BooksInv'
<1>1. alone /\ BooksOK /\ StillSo(job[u]) => BooksOK' /\ StillSo(j)'
  BY StillSame, BooksSame
<1> QED
  BY <1>1, BooksKept

LEMMA EasyKept ==
  ASSUME IInv, OneAtATime, BooksInv, NEW u \in Users, Step(u), UNCHANGED kss,
         job'[u].pc \in EasyPcs
  PROVE  BooksInv'
<1>1. PICK j : j = job'[u]
  OBVIOUS
<1>2. StillSo(j)
  BY <1>1, StillEasy
<1> QED
  BY <1>1, <1>2, ReadKept

LEMMA DoneKept ==
  ASSUME IInv, OneAtATime, BooksInv, NEW u \in Users, Step(u), UNCHANGED kss, Done(u)
  PROVE  BooksInv'
BY Ended, EasyKept DEF EasyPcs

LEMMA GotoKept ==
  ASSUME IInv, OneAtATime, BooksInv, NEW u \in Users, Step(u), UNCHANGED kss,
         NEW pc \in EasyPcs, Goto(u, pc)
  PROVE  BooksInv'
<1>1. pc \in Pcs
  BY DEF EasyPcs, Pcs, RowPcs
<1> QED
  BY <1>1, Gone, EasyKept

\* A row is the only live one of its note.
LEMMA TheLive ==
  ASSUME IInv, BooksOK, NEW n, NEW i \in Live(n), NEW k \in Live(n)
  PROVE  i = k
BY DEF BooksOK, OneLive, Live, Named

\* A request that comes in has read nothing, or what its note comes to.
LEMMA RequestKept ==
  ASSUME IInv, OneAtATime, BooksInv, NEW u \in Users, Step(u), NEW j \in JobType,
         Request(u, j),
         \/ j.pc \in EasyPcs
         \/ j.pc = "pay" /\ \E i \in Live(j.note) : j.read \subseteq pvmas[i].billamt \ j.discount
  PROVE  BooksInv'
<1>1. UNCHANGED kss /\ job'[u] = j
  BY DEF Request, IInv, TypeOK
<1>2. CASE j.pc = "pay" /\ \E i \in Live(j.note) : j.read \subseteq pvmas[i].billamt \ j.discount
  <2>1. ASSUME BooksOK
        PROVE  StillSo(j)
    <3>1. \A i \in Live(j.note) : j.read \subseteq pvmas[i].billamt \ j.discount
      BY <1>2, <2>1, TheLive
    <3> QED
      BY <1>2, <3>1 DEF StillSo, RowPcs
  <2> QED
    BY <1>1, <2>1, ReadKept
<1> QED
  BY <1>1, <1>2, EasyKept
LEMMA RequestsKept ==
  ASSUME IInv, OneAtATime, BooksInv, NEW u \in Users, Step(u),
         NEW l \in Labels, NEW n \in Notes, NEW bills \in SUBSET Bills,
         \/ api_create_note(u, l, bills) \/ api_cancel_note(u, n)
         \/ api_create_voucher(u, n) \/ api_update_note(u, n, bills)
  PROVE  BooksInv'
<1>1. Bare(l) \in Notes
  BY DEF Bare, Notes
<1>2. CASE api_create_note(u, l, bills)
  <2>1. PICK pc \in {"recover", "resolve"} :
               Request(u, [Idle EXCEPT !.note = Bare(l), !.bills = bills, !.pc = pc])
    BY <1>2 DEF api_create_note
  <2>2. PICK j \in JobType : j = [Idle EXCEPT !.note = Bare(l), !.bills = bills, !.pc = pc]
    BY <1>1, IdleFacts DEF JobType, Pcs
  <2>3. j.pc \in EasyPcs
    BY <2>2, IdleFacts DEF JobType, EasyPcs
  <2> QED
    BY <2>1, <2>2, <2>3, RequestKept
<1>3. CASE api_cancel_note(u, n)
  <2>1. PICK pc \in {"header", "forget"} :
               Request(u, [Idle EXCEPT !.pc = pc, !.note = n, !.cancelling = TRUE])
    BY <1>3 DEF api_cancel_note
  <2>2. PICK j \in JobType : j = [Idle EXCEPT !.pc = pc, !.note = n, !.cancelling = TRUE]
    BY IdleFacts DEF JobType, Pcs
  <2>3. j.pc \in EasyPcs
    BY <2>2, IdleFacts DEF JobType, EasyPcs
  <2> QED
    BY <2>1, <2>2, <2>3, RequestKept
<1>4. CASE api_create_voucher(u, n)
  BY <1>4, PayRequest, RequestKept
<1>5. CASE api_update_note(u, n, bills)
  <2>1. PICK j \in JobType : j = [Idle EXCEPT !.pc = "find", !.note = n, !.bills = bills]
    BY IdleFacts DEF JobType, Pcs
  <2>2. j.pc \in EasyPcs
    BY <2>1, IdleFacts DEF JobType, EasyPcs
  <2>3. Request(u, j)
    BY <1>5, <2>1 DEF api_update_note
  <2> QED
    BY <2>2, <2>3, RequestKept
<1> QED
  BY <1>2, <1>3, <1>4, <1>5

LEMMA EasyReads ==
  ASSUME IInv, OneAtATime, BooksInv, NEW u \in Users, Step(u),
         \/ recover_note(u) \/ refuse_discount(u) \/ unreadable_date(u) \/ insert_reminder(u)
         \/ delete_reminder(u) \/ Raise(u) \/ Die(u)
  PROVE  BooksInv'
<1>1. UNCHANGED kss
  BY DEF recover_note, refuse_discount, unreadable_date, insert_reminder, delete_reminder, Raise, Die
<1>2. CASE Done(u)
  BY <1>1, <1>2, DoneKept
<1>3. CASE recover_note(u)
  <2>1. CASE job' = [job EXCEPT ![u].pc = "remind", ![u].recovered = TRUE]
    <3>1. job'[u].pc = "remind"
      BY <2>1 DEF IInv, TypeOK, JobType
    <3> QED
      BY <1>1, <3>1, EasyKept DEF EasyPcs
  <2> QED
    BY <1>2, <1>3, <2>1 DEF recover_note
<1>4. CASE refuse_discount(u) \/ insert_reminder(u)
  <2>1. Done(u) \/ Goto(u, "header")
    BY <1>4 DEF refuse_discount, insert_reminder, GiveUp
  <2> QED
    BY <1>1, <1>2, <2>1, GotoKept DEF EasyPcs
<1> QED
  BY <1>2, <1>3, <1>4 DEF unreadable_date, delete_reminder, Raise, Die

LEMMA ResolveKept ==
  ASSUME IInv, OneAtATime, BooksInv, NEW u \in Users, Step(u), resolve_stored_noteno(u)
  PROVE  BooksInv'
<1>1. UNCHANGED kss
  BY DEF resolve_stored_noteno
<1>2. ASSUME NEW k \in 0..MaxSuffix, ~noteno_label_in_use(<<job[u].note[1], k>>),
             job' = [job EXCEPT ![u].note = <<job[u].note[1], k>>, ![u].pc = "fetch"]
      PROVE  BooksInv'
  <2>1. PICK j : j = [job[u] EXCEPT !.note = <<job[u].note[1], k>>, !.pc = "fetch"]
    OBVIOUS
  <2>2. j.pc = "fetch" /\ j.note = <<job[u].note[1], k>>
    BY <2>1 DEF IInv, TypeOK, JobType
  <2>3. j = job'[u]
    BY <1>2, <2>1 DEF IInv, TypeOK
  <2>4. StillSo(j)
    BY <1>2, <2>2 DEF StillSo, RowPcs, noteno_label_in_use
  <2> QED
    BY <1>1, <2>3, <2>4, ReadKept
<1>3. CASE Done(u)
  BY <1>1, <1>3, DoneKept
<1> QED
  BY <1>2, <1>3 DEF resolve_stored_noteno

LEMMA FetchKept ==
  ASSUME IInv, OneAtATime, BooksInv, NEW u \in Users, Step(u), fetch_bills_for_note(u)
  PROVE  BooksInv'
<1>1. UNCHANGED kss /\ job[u].pc = "fetch"
  BY DEF fetch_bills_for_note, At
<1>2. CASE Goto(u, "insert") /\ \A b \in job[u].bills : Unpaid(b) /\ pimas[b].noteno = NoNote
  <2>1. PICK j : j = job'[u]
    OBVIOUS
  <2>2. j.pc = "insert" /\ j.note = job[u].note /\ j.bills = job[u].bills
    BY <1>2, <2>1, Gone DEF Pcs
  <2>3. StillSo(job[u]) => StillSo(j)
    BY <1>1, <1>2, <2>2 DEF StillSo, RowPcs
  <2> QED
    BY <1>1, <2>1, <2>3, ReadKept
<1>3. CASE Done(u)
  BY <1>1, <1>3, DoneKept
<1> QED
  BY <1>2, <1>3 DEF fetch_bills_for_note

LEMMA HeaderKept ==
  ASSUME IInv, OneAtATime, BooksInv, NEW u \in Users, Step(u),
         cancel_header(u) \/ update_header(u)
  PROVE  BooksInv'
<1>1. UNCHANGED kss
  BY DEF cancel_header, update_header
<1>2. ASSUME NEW pc \in {"cancel", "list"}, NEW i \in Named(job[u].note),
             ~pvmas[i].vouced, ~pvmas[i].canceled,
             job' = [job EXCEPT ![u].pc = pc, ![u].row = i]
      PROVE  BooksInv'
  <2>1. PICK j : j = [job[u] EXCEPT !.pc = pc, !.row = i]
    OBVIOUS
  <2>2. j.pc = pc /\ j.row = i
    BY <2>1 DEF IInv, TypeOK, JobType
  <2>3. j = job'[u]
    BY <1>2, <2>1 DEF IInv, TypeOK
  <2>4. StillSo(j)
    BY <1>2, <2>2 DEF StillSo
  <2> QED
    BY <1>1, <2>3, <2>4, ReadKept
<1>3. CASE Done(u)
  BY <1>1, <1>3, DoneKept
<1>4. CASE cancel_header(u)
  <2>1. \/ Done(u) \/ Goto(u, "forget")
        \/ \E i \in Named(job[u].note) :
             /\ ~pvmas[i].vouced /\ ~pvmas[i].canceled
             /\ job' = [job EXCEPT ![u].pc = "cancel", ![u].row = i]
    BY <1>4 DEF cancel_header, AfterCancel
  <2>2. CASE Goto(u, "forget")
    BY <1>1, <2>2, GotoKept DEF EasyPcs
  <2> QED
    BY <1>2, <1>3, <2>1, <2>2
<1>5. CASE update_header(u)
  <2>1. \/ Done(u)
        \/ \E i \in Live(job[u].note) :
             ~pvmas[i].vouced /\ job' = [job EXCEPT ![u].pc = "list", ![u].row = i]
    BY <1>5 DEF update_header
  <2>2. \A i \in Live(job[u].note) : i \in Named(job[u].note) /\ ~pvmas[i].canceled
    BY DEF Live
  <2> QED
    BY <1>2, <1>3, <2>1, <2>2
<1> QED
  BY <1>4, <1>5

LEMMA ListKept ==
  ASSUME IInv, OneAtATime, BooksInv, NEW u \in Users, Step(u), list_note_bills(u)
  PROVE  BooksInv'
<1>1. /\ UNCHANGED kss /\ job[u].pc = "list"
      /\ job[u].row \in Rows /\ pvmas[job[u].row].noteno = job[u].note
  BY DEF list_note_bills, At, IInv, JobsOK, JobOK, RowPcs
<1> DEFINE read == {b \in Stamped(job[u].note) : Unpaid(b)}
<1>2. CASE /\ \A b \in job[u].bills : Unpaid(b) /\ pimas[b].noteno \in {NoNote, job[u].note}
           /\ job' = [job EXCEPT ![u].pc = "update", ![u].read = read]
  <2>1. PICK j : j = [job[u] EXCEPT !.pc = "update", !.read = read]
    OBVIOUS
  <2>2. /\ j.pc = "update" /\ j.read = read /\ j.note = job[u].note /\ j.bills = job[u].bills
        /\ j.row = job[u].row
    BY <2>1 DEF IInv, TypeOK, JobType
  <2>3. j = job'[u]
    BY <1>2, <2>1 DEF IInv, TypeOK
  <2>4. ASSUME BooksOK, StillSo(job[u])
        PROVE  StillSo(j)
    <3>1. ~pvmas[j.row].vouced /\ ~pvmas[j.row].canceled
      BY <1>1, <2>2, <2>4 DEF StillSo, RowPcs
    <3>2. j.read = Stamped(j.note)
      BY <1>1, <2>2, <2>4, <3>1, UnpaidOnOpen
    <3> QED
      BY <1>2, <2>2, <3>1, <3>2 DEF StillSo
  <2> QED
    BY <1>1, <2>3, <2>4, ReadKept
<1>3. CASE Done(u)
  BY <1>1, <1>3, DoneKept
<1> QED
  BY <1>2, <1>3 DEF list_note_bills

LEMMA PayKept ==
  ASSUME IInv, OneAtATime, BooksInv, NEW u \in Users, Step(u), next_voucno(u)
  PROVE  BooksInv'
<1>1. UNCHANGED kss /\ job[u].pc = "pay"
  BY DEF next_voucno, At
<1>2. ASSUME NEW i \in Live(job[u].note), ~pvmas[i].vouced, NEW v \in Unissued,
             job' = [job EXCEPT ![u].pc = "voucher", ![u].row = i,
                                ![u].bills = pvmas[i].billamt, ![u].voucno = v]
      PROVE  BooksInv'
  <2>1. PICK j : j = [job[u] EXCEPT !.pc = "voucher", !.row = i,
                                    !.bills = pvmas[i].billamt, !.voucno = v]
    OBVIOUS
  <2>2. /\ j.pc = "voucher" /\ j.row = i /\ j.bills = pvmas[i].billamt /\ j.voucno = v
        /\ j.read = job[u].read /\ j.discount = job[u].discount
    BY <2>1 DEF IInv, TypeOK, JobType
  <2>3. j = job'[u]
    BY <1>2, <2>1 DEF IInv, TypeOK
  <2>4. StillSo(job[u]) => StillSo(j)
    <3>1. v \in 1..Widest + 1 /\ \A k \in Rows : pvmas[k].voucno <= Widest => pvmas[k].voucno < v
      BY DEF Unissued
    <3>2. v <= Widest => \A k \in Rows : pvmas[k].voucno # v
      BY <3>1
    <3> QED
      BY <1>1, <1>2, <2>2, <3>2 DEF StillSo, Live
  <2> QED
    BY <1>1, <2>3, <2>4, ReadKept
<1>3. CASE Done(u)
  BY <1>1, <1>3, DoneKept
<1> QED
  BY <1>2, <1>3 DEF next_voucno
-----------------------------------------------------------------------------
(***************************************************************************)
(* The writes of one request leave books that agree.                       *)
(***************************************************************************)
LEMMA NamesAreNotes ==
  ASSUME IInv, NEW i \in Rows
  PROVE  pvmas[i].noteno \in Notes /\ pvmas[i].noteno # NoNote /\ pvmas[i] \in NoteType
BY RowFacts DEF IInv, NoteType, Notes

\* What a new note adds.
LEMMA CreateWrites ==
  ASSUME IInv, NEW u \in Users, create_pay_note(u), BooksOK, StillSo(job[u])
  PROVE  \E new \in NoteType :
           /\ new.noteno = job[u].note /\ new.billamt = job[u].bills
           /\ new.voucno = 0 /\ ~new.vouced /\ ~new.canceled
           /\ Len(pvmas) + 1 \notin Rows /\ Rows' = Rows \cup {Len(pvmas) + 1}
           /\ pvmas'[Len(pvmas) + 1] = new /\ \A i \in Rows : pvmas'[i] = pvmas[i]
           /\ \A b \in Bills :
                /\ pimas'[b].voucno = pimas[b].voucno /\ pimas'[b].paid = pimas[b].paid
                /\ pimas'[b].noteno = IF b \in job[u].bills THEN job[u].note ELSE pimas[b].noteno
<1>1. job[u] \in JobType /\ job[u].note \in Notes /\ job[u].pc = "insert"
  BY DEF create_pay_note, At, IInv, TypeOK, JobsOK, JobOK
<1>2. PICK new \in NoteType :
         new = [noteno |-> job[u].note, billamt |-> job[u].bills, netamt |-> {},
                voucno |-> 0, vouced |-> FALSE, canceled |-> FALSE]
  BY <1>1 DEF NoteType, JobType
<1>3. /\ new.noteno = job[u].note /\ new.billamt = job[u].bills
      /\ new.voucno = 0 /\ ~new.vouced /\ ~new.canceled
  BY <1>2
<1>4. pvmas' = Append(pvmas, new)
  BY <1>2 DEF create_pay_note
<1>5. /\ Len(pvmas) + 1 \notin Rows /\ Rows' = Rows \cup {Len(pvmas) + 1}
      /\ pvmas'[Len(pvmas) + 1] = new /\ \A i \in Rows : pvmas'[i] = pvmas[i]
  BY <1>2, <1>4 DEF IInv, TypeOK, Rows
<1>6. ASSUME NEW b \in Bills
      PROVE  /\ pimas'[b].voucno = pimas[b].voucno /\ pimas'[b].paid = pimas[b].paid
             /\ pimas'[b].noteno = IF b \in job[u].bills THEN job[u].note ELSE pimas[b].noteno
  <2>1. b \in job[u].bills => Unpaid(b) /\ pimas[b].noteno \in {NoNote}
    BY <1>1 DEF StillSo
  <2>2. pimas'[b] = IF b \in job[u].bills THEN [pimas[b] EXCEPT !.noteno = job[u].note]
                    ELSE pimas[b]
    BY <2>1 DEF create_pay_note, Stamp
  <2> QED
    BY <2>2, BillsTyped DEF BillType
<1> QED
  BY <1>3, <1>5, <1>6

LEMMA CreateKeepsBooks ==
  ASSUME IInv, NEW u \in Users, create_pay_note(u), BooksOK, StillSo(job[u])
  PROVE  BooksOK'
<1>0. PICK n, bs, m : n = job[u].note /\ bs = job[u].bills /\ m = Len(pvmas) + 1
  OBVIOUS
<1>1. n \in Notes /\ n # NoNote /\ job[u].pc = "insert" /\ bs \subseteq Bills
  BY <1>0 DEF create_pay_note, At, IInv, TypeOK, JobsOK, JobOK, JobType, Notes
<1>2. /\ Live(n) = {} /\ Stamped(n) = {}
      /\ \A b \in bs : Unpaid(b) /\ pimas[b].noteno = NoNote
  BY <1>0, <1>1 DEF StillSo
<1>3. PICK new \in NoteType :
           /\ new.noteno = n /\ new.billamt = bs
           /\ new.voucno = 0 /\ ~new.vouced /\ ~new.canceled
           /\ m \notin Rows /\ Rows' = Rows \cup {m}
           /\ pvmas'[m] = new /\ \A i \in Rows : pvmas'[i] = pvmas[i]
           /\ \A b \in Bills :
                /\ pimas'[b].voucno = pimas[b].voucno /\ pimas'[b].paid = pimas[b].paid
                /\ pimas'[b].noteno = IF b \in bs THEN n ELSE pimas[b].noteno
  BY <1>0, CreateWrites
<1>4. bpdet' = bpdet
  BY DEF create_pay_note
<1>5. ASSUME NEW i \in Rows, ~pvmas[i].canceled
      PROVE  pvmas[i].noteno # n
  BY <1>2, <1>5 DEF Live, Named
<1>6. Numbers'
  BY <1>3, <1>4 DEF BooksOK, Numbers
<1>7. VouchersKept'
  BY <1>3 DEF BooksOK, VouchersKept
<1>8. OneLive'
  BY <1>3, <1>5 DEF BooksOK, OneLive
<1>9. Totals'
  <2>1. ASSUME NEW i \in Rows, ~pvmas[i].canceled
        PROVE  Stamped(pvmas[i].noteno)' = pvmas'[i].billamt
    <3>1. Stamped(pvmas[i].noteno) = pvmas[i].billamt
      BY <2>1 DEF BooksOK, Totals
    <3>2. \A b \in Bills : pimas'[b].noteno = pvmas[i].noteno <=> pimas[b].noteno = pvmas[i].noteno
      BY <1>2, <1>3, <1>5, <2>1, NamesAreNotes
    <3> QED
      BY <1>3, <3>1, <3>2 DEF Stamped
  <2>2. Stamped(pvmas[m].noteno)' = pvmas'[m].billamt
    <3>1. \A b \in Bills : pimas'[b].noteno = n <=> b \in bs
      BY <1>2, <1>3 DEF Stamped
    <3> QED
      BY <1>1, <1>3, <3>1 DEF Stamped
  <2> QED
    BY <1>3, <2>1, <2>2 DEF Totals
<1>10. PaidInFull'
  BY <1>3, <1>4, PaidStill DEF BooksOK
<1>11. OnLiveNote'
  <2>1. ASSUME NEW b \in Bills, pimas'[b].noteno # NoNote
        PROVE  Live(pimas[b].noteno)' # {}
    <3>1. CASE b \in bs
      BY <1>3, <3>1 DEF Live, Named
    <3>2. CASE b \notin bs
      <4>1. PICK i : i \in Live(pimas[b].noteno)
        BY <1>3, <2>1, <3>2 DEF BooksOK, OnLiveNote
      <4>2. i \in Rows /\ pvmas[i].noteno = pimas[b].noteno /\ ~pvmas[i].canceled
        BY <4>1 DEF Live, Named
      <4>3. i \in Live(pimas[b].noteno)'
        BY <1>3, <3>2, <4>2 DEF Live, Named
      <4> QED
        BY <4>3
    <3> QED
      BY <3>1, <3>2
  <2> QED
    BY <2>1 DEF OnLiveNote
<1> QED
  BY <1>6, <1>7, <1>8, <1>9, <1>10, <1>11 DEF BooksOK
\* A write on one live row that nobody has paid: how it leaves the bills decides the rest.
LEMMA CancelWrites ==
  ASSUME IInv, NEW u \in Users, cancel_unvouchered_pay_note(u), BooksOK, StillSo(job[u]),
         NEW n, NEW i, n = job[u].note, i = job[u].row
  PROVE  /\ n \in Notes /\ i \in Rows /\ pvmas[i].noteno = n
         /\ ~pvmas[i].vouced /\ ~pvmas[i].canceled
         /\ Rows' = Rows /\ \A k \in Rows \ {i} : pvmas'[k] = pvmas[k]
         /\ pvmas'[i].noteno = n /\ pvmas'[i].vouced = pvmas[i].vouced
         /\ pvmas'[i].voucno = pvmas[i].voucno /\ pvmas'[i].canceled
         /\ \A b \in Bills :
              /\ pimas'[b].voucno = pimas[b].voucno /\ pimas'[b].paid = pimas[b].paid
              /\ pimas'[b].noteno = IF b \in Stamped(n) THEN NoNote ELSE pimas[b].noteno
<1>1. job[u].pc = "cancel" /\ n \in Notes /\ i \in Rows /\ pvmas[i].noteno = n
  BY DEF cancel_unvouchered_pay_note, At, IInv, JobsOK, JobOK, RowPcs
<1>2. ~pvmas[i].vouced /\ ~pvmas[i].canceled
  BY <1>1 DEF StillSo, RowPcs
<1>3. pvmas[i] \in NoteType
  BY <1>1, NamesAreNotes
<1>4. pvmas' = [pvmas EXCEPT ![i] = [pvmas[i] EXCEPT !.canceled = @ \/ ~pvmas[i].vouced]]
  BY DEF cancel_unvouchered_pay_note
<1>5. Rows' = Rows /\ \A k \in Rows \ {i} : pvmas'[k] = pvmas[k]
  BY <1>1, <1>4 DEF Rows
<1>6. pvmas'[i] = [pvmas[i] EXCEPT !.canceled = @ \/ ~pvmas[i].vouced]
  BY <1>1, <1>4 DEF Rows
<1>7. /\ pvmas'[i].noteno = n /\ pvmas'[i].vouced = pvmas[i].vouced
      /\ pvmas'[i].voucno = pvmas[i].voucno /\ pvmas'[i].canceled
  BY <1>1, <1>2, <1>3, <1>6 DEF NoteType
<1>8. ASSUME NEW b \in Bills
      PROVE  /\ pimas'[b].voucno = pimas[b].voucno /\ pimas'[b].paid = pimas[b].paid
             /\ pimas'[b].noteno = IF b \in Stamped(n) THEN NoNote ELSE pimas[b].noteno
  <2>1. b \in Stamped(n) => pimas[b].voucno = 0
    BY <1>1, <1>2, UnpaidOnOpen DEF Unpaid
  <2>2. pimas'[b] = IF b \in Stamped(n) THEN [pimas[b] EXCEPT !.noteno = NoNote] ELSE pimas[b]
    BY <2>1 DEF cancel_unvouchered_pay_note
  <2> QED
    BY <2>2, BillsTyped DEF BillType
<1> QED
  BY <1>1, <1>2, <1>5, <1>7, <1>8

LEMMA CancelKeepsBooks ==
  ASSUME IInv, NEW u \in Users, cancel_unvouchered_pay_note(u), BooksOK, StillSo(job[u])
  PROVE  BooksOK'
<1>0. PICK n, i : n = job[u].note /\ i = job[u].row
  OBVIOUS
<1>1. /\ n \in Notes /\ i \in Rows /\ pvmas[i].noteno = n
      /\ ~pvmas[i].vouced /\ ~pvmas[i].canceled
      /\ Rows' = Rows /\ \A k \in Rows \ {i} : pvmas'[k] = pvmas[k]
      /\ pvmas'[i].noteno = n /\ pvmas'[i].vouced = pvmas[i].vouced
      /\ pvmas'[i].voucno = pvmas[i].voucno /\ pvmas'[i].canceled
      /\ \A b \in Bills :
           /\ pimas'[b].voucno = pimas[b].voucno /\ pimas'[b].paid = pimas[b].paid
           /\ pimas'[b].noteno = IF b \in Stamped(n) THEN NoNote ELSE pimas[b].noteno
  BY <1>0, CancelWrites
<1>2. bpdet' = bpdet
  BY DEF cancel_unvouchered_pay_note
<1>3. ASSUME NEW k \in Rows, ~pvmas'[k].canceled
      PROVE  k # i /\ pvmas[k].noteno # n /\ pvmas'[k] = pvmas[k]
  BY <1>1, <1>3 DEF BooksOK, OneLive
<1>4. Numbers'
  BY <1>1, <1>2 DEF BooksOK, Numbers
<1>5. VouchersKept'
  BY <1>1 DEF BooksOK, VouchersKept
<1>6. OneLive'
  BY <1>1, <1>3 DEF BooksOK, OneLive
<1>7. Totals'
  <2>1. ASSUME NEW k \in Rows, ~pvmas'[k].canceled
        PROVE  Stamped(pvmas[k].noteno)' = pvmas'[k].billamt
    <3>1. Stamped(pvmas[k].noteno) = pvmas[k].billamt
      BY <1>3, <2>1 DEF BooksOK, Totals
    <3>2. \A b \in Bills : pimas'[b].noteno = pvmas[k].noteno <=> pimas[b].noteno = pvmas[k].noteno
      BY <1>1, <1>3, <2>1, NamesAreNotes DEF Stamped
    <3> QED
      BY <1>3, <2>1, <3>1, <3>2 DEF Stamped
  <2> QED
    BY <1>1, <2>1 DEF Totals
<1>8. PaidInFull'
  <2>1. ASSUME NEW k \in Rows, pvmas'[k].vouced
        PROVE  k # i /\ pvmas'[k] = pvmas[k]
    BY <1>1, <2>1
  <2> QED
    BY <1>1, <1>2, <2>1, PaidStill DEF BooksOK
<1>9. OnLiveNote'
  <2>1. ASSUME NEW b \in Bills, pimas'[b].noteno # NoNote
        PROVE  Live(pimas[b].noteno)' # {}
    <3>1. pimas[b].noteno # n /\ pimas'[b].noteno = pimas[b].noteno
      BY <1>1, <2>1 DEF Stamped
    <3>2. PICK k : k \in Live(pimas[b].noteno)
      BY <2>1, <3>1 DEF BooksOK, OnLiveNote
    <3>3. k \in Rows \ {i} /\ pvmas[k].noteno = pimas[b].noteno /\ ~pvmas[k].canceled
      BY <1>1, <3>1, <3>2 DEF Live, Named
    <3>4. k \in Live(pimas[b].noteno)'
      BY <1>1, <3>1, <3>3 DEF Live, Named
    <3> QED
      BY <3>4
  <2> QED
    BY <2>1 DEF OnLiveNote
<1> QED
  BY <1>4, <1>5, <1>6, <1>7, <1>8, <1>9 DEF BooksOK

LEMMA UpdateWrites ==
  ASSUME IInv, NEW u \in Users, update_pay_note(u), BooksOK, StillSo(job[u]),
         NEW n, NEW i, NEW bs, n = job[u].note, i = job[u].row, bs = job[u].bills
  PROVE  /\ n \in Notes /\ i \in Rows /\ pvmas[i].noteno = n
         /\ ~pvmas[i].vouced /\ ~pvmas[i].canceled
         /\ Rows' = Rows /\ \A k \in Rows \ {i} : pvmas'[k] = pvmas[k]
         /\ pvmas'[i].noteno = n /\ pvmas'[i].vouced = pvmas[i].vouced
         /\ pvmas'[i].voucno = pvmas[i].voucno /\ pvmas'[i].canceled = pvmas[i].canceled
         /\ pvmas'[i].billamt = bs /\ bs \subseteq Bills
         /\ \A b \in Bills :
              /\ pimas'[b].voucno = pimas[b].voucno /\ pimas'[b].paid = pimas[b].paid
              /\ b \in bs => pimas[b].noteno \in {NoNote, n} /\ pimas'[b].noteno = n
              /\ b \in Stamped(n) \ bs => pimas'[b].noteno = NoNote
              /\ b \notin Stamped(n) \cup bs => pimas'[b].noteno = pimas[b].noteno
<1>1. /\ job[u].pc = "update" /\ n \in Notes /\ i \in Rows /\ pvmas[i].noteno = n
      /\ bs \subseteq Bills
  BY DEF update_pay_note, At, IInv, TypeOK, JobType, JobsOK, JobOK, RowPcs
<1>2. /\ ~pvmas[i].vouced /\ ~pvmas[i].canceled /\ job[u].read = Stamped(n)
      /\ \A b \in bs : Unpaid(b) /\ pimas[b].noteno \in {NoNote, n}
  BY <1>1 DEF StillSo, RowPcs
<1>3. pvmas[i] \in NoteType
  BY <1>1, NamesAreNotes
<1>4. pvmas' = [pvmas EXCEPT ![i] = [pvmas[i] EXCEPT !.billamt = bs]]
  BY <1>2 DEF update_pay_note
<1>5. Rows' = Rows /\ \A k \in Rows \ {i} : pvmas'[k] = pvmas[k]
  BY <1>1, <1>4 DEF Rows
<1>6. pvmas'[i] = [pvmas[i] EXCEPT !.billamt = bs]
  BY <1>1, <1>4 DEF Rows
<1>7. /\ pvmas'[i].noteno = n /\ pvmas'[i].vouced = pvmas[i].vouced
      /\ pvmas'[i].voucno = pvmas[i].voucno /\ pvmas'[i].canceled = pvmas[i].canceled
      /\ pvmas'[i].billamt = bs
  BY <1>1, <1>2, <1>3, <1>6 DEF NoteType
<1>8. ASSUME NEW b \in Bills
      PROVE  /\ pimas'[b].voucno = pimas[b].voucno /\ pimas'[b].paid = pimas[b].paid
             /\ b \in bs => pimas[b].noteno \in {NoNote, n} /\ pimas'[b].noteno = n
             /\ b \in Stamped(n) \ bs => pimas'[b].noteno = NoNote
             /\ b \notin Stamped(n) \cup bs => pimas'[b].noteno = pimas[b].noteno
  <2> DEFINE drop == {d \in job[u].read \ job[u].bills : pimas[d].noteno = n /\ Unpaid(d)}
  <2>1. pimas'[b] = IF b \in drop THEN Free
                    ELSE Stamp(n, job[u].bills \ job[u].read, {NoNote, n})[b]
    BY DEF update_pay_note
  <2>2. b \in drop <=> b \in Stamped(n) \ bs
    BY <1>1, <1>2, UnpaidOnOpen DEF Stamped
  <2>3. CASE b \in Stamped(n) \ bs
    <3>1. pimas'[b] = Free
      BY <2>1, <2>2, <2>3
    <3>2. Unpaid(b) /\ pimas[b].paid \in BOOLEAN
      BY <1>1, <1>2, <2>3, UnpaidOnOpen, BillsTyped DEF BillType
    <3>3. pimas'[b].voucno = 0 /\ pimas'[b].paid = FALSE /\ pimas'[b].noteno = NoNote
      BY <3>1 DEF Free
    <3> QED
      BY <2>3, <3>2, <3>3 DEF Unpaid
  <2>4. CASE b \notin Stamped(n) \ bs
    <3>1. pimas'[b] = IF b \in bs \ Stamped(n) THEN [pimas[b] EXCEPT !.noteno = n] ELSE pimas[b]
      BY <1>2, <2>1, <2>2, <2>4 DEF Stamp
    <3>2. b \in Stamped(n) <=> pimas[b].noteno = n
      BY DEF Stamped
    <3>3. pimas[b] \in BillType
      BY BillsTyped
    <3>4. /\ pimas'[b].voucno = pimas[b].voucno /\ pimas'[b].paid = pimas[b].paid
          /\ pimas'[b].noteno = IF b \in bs \ Stamped(n) THEN n ELSE pimas[b].noteno
      BY <3>1, <3>3 DEF BillType
    <3> QED
      BY <1>2, <2>4, <3>2, <3>4
  <2> QED
    BY <2>3, <2>4
<1> QED
  BY <1>1, <1>2, <1>5, <1>7, <1>8

LEMMA UpdateKeepsBooks ==
  ASSUME IInv, NEW u \in Users, update_pay_note(u), BooksOK, StillSo(job[u])
  PROVE  BooksOK'
<1>0. PICK n, i, bs : n = job[u].note /\ i = job[u].row /\ bs = job[u].bills
  OBVIOUS
<1>1. /\ n \in Notes /\ i \in Rows /\ pvmas[i].noteno = n
      /\ ~pvmas[i].vouced /\ ~pvmas[i].canceled
      /\ Rows' = Rows /\ \A k \in Rows \ {i} : pvmas'[k] = pvmas[k]
      /\ pvmas'[i].noteno = n /\ pvmas'[i].vouced = pvmas[i].vouced
      /\ pvmas'[i].voucno = pvmas[i].voucno /\ pvmas'[i].canceled = pvmas[i].canceled
      /\ pvmas'[i].billamt = bs /\ bs \subseteq Bills
  BY <1>0, UpdateWrites
<1>2. \A b \in Bills :
           /\ pimas'[b].voucno = pimas[b].voucno /\ pimas'[b].paid = pimas[b].paid
           /\ b \in bs => pimas[b].noteno \in {NoNote, n} /\ pimas'[b].noteno = n
           /\ b \in Stamped(n) \ bs => pimas'[b].noteno = NoNote
           /\ b \notin Stamped(n) \cup bs => pimas'[b].noteno = pimas[b].noteno
  BY <1>0, UpdateWrites
<1>3. bpdet' = bpdet
  BY DEF update_pay_note
<1>4. n # NoNote
  BY <1>1 DEF Notes
<1>5. Numbers'
  BY <1>1, <1>2, <1>3 DEF BooksOK, Numbers
<1>6. VouchersKept'
  BY <1>1 DEF BooksOK, VouchersKept
<1>7. OneLive'
  BY <1>1 DEF BooksOK, OneLive
<1>8. Totals'
  <2>1. ASSUME NEW k \in Rows \ {i}, ~pvmas[k].canceled
        PROVE  Stamped(pvmas[k].noteno)' = pvmas'[k].billamt
    <3>1. Stamped(pvmas[k].noteno) = pvmas[k].billamt
      BY <2>1 DEF BooksOK, Totals
    <3>2. pvmas[k].noteno # n /\ pvmas[k].noteno # NoNote
      BY <1>1, <2>1, NamesAreNotes DEF BooksOK, OneLive
    <3>3. \A b \in Bills : pimas'[b].noteno = pvmas[k].noteno <=> pimas[b].noteno = pvmas[k].noteno
      BY <1>2, <3>2 DEF Stamped
    <3> QED
      BY <1>1, <3>1, <3>3 DEF Stamped
  <2>2. Stamped(pvmas[i].noteno)' = pvmas'[i].billamt
    <3>1. \A b \in Bills : pimas'[b].noteno = n <=> b \in bs
      BY <1>2, <1>4 DEF Stamped
    <3> QED
      BY <1>1, <3>1 DEF Stamped
  <2> QED
    BY <1>1, <2>1, <2>2 DEF Totals
<1>9. PaidInFull'
  <2>1. ASSUME NEW k \in Rows, pvmas'[k].vouced
        PROVE  k # i /\ pvmas'[k] = pvmas[k]
    BY <1>1, <2>1
  <2> QED
    BY <1>1, <1>2, <1>3, <2>1, PaidStill DEF BooksOK
<1>10. OnLiveNote'
  <2>1. ASSUME NEW b \in Bills, pimas'[b].noteno # NoNote
        PROVE  Live(pimas[b].noteno)' # {}
    <3>1. CASE pimas'[b].noteno = n
      <4>1. i \in Live(pimas[b].noteno)'
        BY <1>1, <3>1 DEF Live, Named
      <4> QED
        BY <4>1
    <3>2. CASE pimas'[b].noteno # n
      <4>1. pimas[b].noteno # n /\ pimas'[b].noteno = pimas[b].noteno
        BY <1>2, <2>1, <3>2 DEF Stamped
      <4>2. PICK k : k \in Live(pimas[b].noteno)
        BY <2>1, <4>1 DEF BooksOK, OnLiveNote
      <4>3. k \in Rows \ {i} /\ pvmas[k].noteno = pimas[b].noteno /\ ~pvmas[k].canceled
        BY <1>1, <4>1, <4>2 DEF Live, Named
      <4>4. k \in Live(pimas[b].noteno)'
        BY <1>1, <4>1, <4>3 DEF Live, Named
      <4> QED
        BY <4>4
    <3> QED
      BY <3>1, <3>2
  <2> QED
    BY <2>1 DEF OnLiveNote
<1> QED
  BY <1>5, <1>6, <1>7, <1>8, <1>9, <1>10 DEF BooksOK
LEMMA VoucherWrites ==
  ASSUME IInv, NEW u \in Users, create_voucher(u), BooksOK, StillSo(job[u]),
         NEW n, NEW i, NEW v, NEW net, NEW amount,
         n = job[u].note, i = job[u].row, v = job[u].voucno,
         net = job[u].bills \ job[u].discount, amount = job[u].read
  PROVE  /\ n \in Notes /\ i \in Rows /\ pvmas[i].noteno = n /\ v \in Nat /\ v # 0
         /\ ~pvmas[i].vouced /\ ~pvmas[i].canceled
         /\ v <= Widest => \A k \in Rows : pvmas[k].voucno # v
         /\ Rows' = Rows /\ \A k \in Rows \ {i} : pvmas'[k] = pvmas[k]
         /\ pvmas'[i].noteno = n /\ pvmas'[i].vouced /\ pvmas'[i].voucno = v
         /\ ~pvmas'[i].canceled /\ pvmas'[i].billamt = pvmas[i].billamt
         /\ pvmas'[i].netamt = net /\ net \subseteq pvmas[i].billamt
         /\ amount \subseteq net /\ (amount = {} => net = {})
         /\ bpdet' = IF amount = {} THEN bpdet ELSE bpdet \cup {[voucno |-> v, chkamt |-> amount]}
         /\ \A b \in Bills :
              /\ pimas'[b].noteno = pimas[b].noteno
              /\ b \in Stamped(n) => pimas'[b].voucno = v /\ pimas'[b].paid
              /\ b \notin Stamped(n) => pimas'[b] = pimas[b]
<1>1. /\ job[u].pc = "voucher" /\ n \in Notes /\ i \in Rows /\ pvmas[i].noteno = n
      /\ v \in Nat /\ v # 0 /\ (amount = {} => net = {})
  BY DEF create_voucher, At, IInv, TypeOK, JobType, JobsOK, JobOK, RowPcs
<1>2. /\ ~pvmas[i].vouced /\ ~pvmas[i].canceled
      /\ net \subseteq pvmas[i].billamt /\ amount \subseteq net
      /\ v <= Widest => \A k \in Rows : pvmas[k].voucno # v
  BY <1>1 DEF StillSo, RowPcs
<1>3. pvmas[i] \in NoteType
  BY <1>1, NamesAreNotes
<1>4. PICK row : row = [pvmas[i] EXCEPT !.vouced = TRUE, !.voucno = v, !.netamt = net]
  OBVIOUS
<1>5. pvmas' = [pvmas EXCEPT ![i] = row]
  BY <1>4 DEF create_voucher
<1>6. Rows' = Rows /\ pvmas'[i] = row /\ \A k \in Rows \ {i} : pvmas'[k] = pvmas[k]
  BY <1>1, <1>5 DEF Rows
<1>7. /\ row.noteno = n /\ row.vouced /\ row.voucno = v
      /\ row.canceled = pvmas[i].canceled /\ row.billamt = pvmas[i].billamt
      /\ row.netamt = net
  BY <1>1, <1>2, <1>3, <1>4 DEF NoteType
<1>8. bpdet' = IF amount = {} THEN bpdet ELSE bpdet \cup {[voucno |-> v, chkamt |-> amount]}
  BY DEF create_voucher
<1>9. ASSUME NEW b \in Bills
      PROVE  /\ pimas'[b].noteno = pimas[b].noteno
             /\ b \in Stamped(n) => pimas'[b].voucno = v /\ pimas'[b].paid
             /\ b \notin Stamped(n) => pimas'[b] = pimas[b]
  <2>1. pimas'[b] = IF b \in Stamped(n) THEN [pimas[b] EXCEPT !.voucno = v, !.paid = TRUE]
                    ELSE pimas[b]
    BY DEF create_voucher
  <2>2. pimas[b] \in BillType
    BY BillsTyped
  <2> QED
    BY <2>1, <2>2 DEF BillType
<1> QED
  BY <1>1, <1>2, <1>6, <1>7, <1>8, <1>9

LEMMA VoucherKeepsBooks ==
  ASSUME IInv, NEW u \in Users, create_voucher(u), BooksOK, StillSo(job[u])
  PROVE  BooksOK'
<1>0. PICK n, i, v, net, amount :
        /\ n = job[u].note /\ i = job[u].row /\ v = job[u].voucno
        /\ net = job[u].bills \ job[u].discount /\ amount = job[u].read
  OBVIOUS
<1>1. /\ n \in Notes /\ i \in Rows /\ pvmas[i].noteno = n /\ v \in Nat /\ v # 0
      /\ ~pvmas[i].vouced /\ ~pvmas[i].canceled
      /\ v <= Widest => \A k \in Rows : pvmas[k].voucno # v
      /\ Rows' = Rows /\ \A k \in Rows \ {i} : pvmas'[k] = pvmas[k]
      /\ pvmas'[i].noteno = n /\ pvmas'[i].vouced /\ pvmas'[i].voucno = v
      /\ ~pvmas'[i].canceled /\ pvmas'[i].billamt = pvmas[i].billamt
      /\ pvmas'[i].netamt = net /\ net \subseteq pvmas[i].billamt
      /\ amount \subseteq net /\ (amount = {} => net = {})
  BY <1>0, VoucherWrites
<1>2. bpdet' = IF amount = {} THEN bpdet ELSE bpdet \cup {[voucno |-> v, chkamt |-> amount]}
  BY <1>0, VoucherWrites
<1>3. \A b \in Bills :
        /\ pimas'[b].noteno = pimas[b].noteno
        /\ b \in Stamped(n) => pimas'[b].voucno = v /\ pimas'[b].paid
        /\ b \notin Stamped(n) => pimas'[b] = pimas[b]
  BY <1>0, VoucherWrites
<1>4. \A b \in Stamped(n) : Unpaid(b)
  BY <1>1, UnpaidOnOpen
<1>5. \A k \in Rows : pvmas[k].voucno \in Nat
  BY NamesAreNotes DEF NoteType
<1>6. ASSUME v <= Widest
      PROVE  \A b \in Bills : pimas[b].voucno # v
  <2>1. ASSUME NEW b \in Bills, pimas[b].voucno = v
        PROVE  FALSE
    BY <1>1, <1>6, <2>1, PaidOnVouched
  <2> QED
    BY <2>1
<1>7. v <= Widest => \A line \in bpdet : line.voucno # v
  BY <1>1 DEF BooksOK, Numbers
<1>8. Numbers'
  <2>1. \A b \in Bills : pimas'[b].voucno # 0 => pimas'[b].paid
    BY <1>3 DEF BooksOK, Numbers
  <2>2. \A k \in Rows : pvmas'[k].vouced <=> pvmas'[k].voucno # 0
    BY <1>1 DEF BooksOK, Numbers
  <2>3. ASSUME NEW k \in Rows, NEW m \in Rows, pvmas'[k].vouced, pvmas'[k].voucno <= Widest,
               pvmas'[k].voucno = pvmas'[m].voucno
        PROVE  k = m
    BY <1>1, <1>5, <2>3 DEF BooksOK, Numbers
  <2>4. ASSUME NEW line \in bpdet'
        PROVE  \E k \in Rows : pvmas'[k].voucno = line.voucno /\ pvmas'[k].vouced
    <3>1. CASE line \in bpdet
      <4>1. PICK k \in Rows : pvmas[k].voucno = line.voucno /\ pvmas[k].vouced
        BY <3>1 DEF BooksOK, Numbers
      <4> QED
        BY <1>1, <4>1
    <3>2. CASE line = [voucno |-> v, chkamt |-> amount]
      <4>1. line.voucno = v
        BY <3>2
      <4> QED
        BY <1>1, <4>1
    <3> QED
      BY <1>2, <2>4, <3>1, <3>2
  <2> QED
    BY <1>1, <2>1, <2>2, <2>3, <2>4 DEF Numbers
<1>9. VouchersKept'
  BY <1>1 DEF BooksOK, VouchersKept
<1>10. OneLive'
  BY <1>1 DEF BooksOK, OneLive
<1>11. \A k \in Rows : /\ pvmas'[k].noteno = pvmas[k].noteno
                       /\ pvmas'[k].canceled <=> pvmas[k].canceled
                       /\ pvmas'[k].billamt = pvmas[k].billamt
  BY <1>1
<1>12. Totals'
  <2>1. \A k \in Rows : Stamped(pvmas[k].noteno)' = Stamped(pvmas[k].noteno)
    BY <1>3, <1>11 DEF Stamped
  <2> QED
    BY <1>1, <1>11, <2>1 DEF BooksOK, Totals
<1>13. PaidInFull'
  <2>1. ASSUME v <= Widest
        PROVE  /\ \A b \in Bills : pimas'[b].voucno = v <=> b \in pvmas[i].billamt
               /\ PaysOnce(pvmas[i])'
    <3>1. Stamped(n) = pvmas[i].billamt
      BY <1>1 DEF BooksOK, Totals
    <3>2. \A b \in Bills : pimas'[b].voucno = v <=> b \in pvmas[i].billamt
      BY <1>3, <1>6, <2>1, <3>1 DEF Stamped
    <3>3. [voucno |-> v, chkamt |-> amount].voucno = v
      OBVIOUS
    <3>4. {line \in bpdet' : line.voucno = v} =
            IF amount = {} THEN {} ELSE {[voucno |-> v, chkamt |-> amount]}
      BY <1>2, <1>7, <2>1, <3>3
    <3>5. PaysOnce(pvmas[i])'
      <4>1. CASE net = {}
        <5>1. {line \in bpdet' : line.voucno = pvmas'[i].voucno} = {}
          BY <1>1, <3>4, <4>1
        <5> QED
          BY <1>1, <4>1, <5>1 DEF PaysOnce
      <4>2. CASE net # {}
        <5>1. amount \in (SUBSET net) \ {{}}
          BY <1>1, <4>2
        <5>2. {line \in bpdet' : line.voucno = v} = {[voucno |-> v, chkamt |-> amount]}
          BY <3>4, <5>1
        <5> QED
          BY <1>1, <4>2, <5>1, <5>2 DEF PaysOnce
      <4> QED
        BY <4>1, <4>2
    <3> QED
      BY <3>2, <3>5
  <2>2. ASSUME NEW k \in Rows \ {i}, pvmas[k].vouced, pvmas[k].voucno <= Widest
        PROVE  /\ \A b \in Bills : pimas'[b].voucno = pvmas[k].voucno <=> b \in pvmas[k].billamt
               /\ PaysOnce(pvmas[k])'
    <3>1. /\ \A b \in Bills : pimas[b].voucno = pvmas[k].voucno <=> b \in pvmas[k].billamt
          /\ PaysOnce(pvmas[k])
      BY <2>2 DEF BooksOK, PaidInFull
    <3>2. pvmas[k].voucno # 0 /\ pvmas[k].voucno # v
      BY <1>1, <1>5, <2>2 DEF BooksOK, Numbers
    <3>3. \A b \in Bills : pimas'[b].voucno = pvmas[k].voucno <=> pimas[b].voucno = pvmas[k].voucno
      BY <1>3, <1>4, <3>2 DEF Unpaid
    <3>4. [voucno |-> v, chkamt |-> amount].voucno # pvmas[k].voucno
      BY <3>2
    <3>5. {line \in bpdet' : line.voucno = pvmas[k].voucno}
            = {line \in bpdet : line.voucno = pvmas[k].voucno}
      BY <1>2, <3>4
    <3>6. PaysOnce(pvmas[k])'
      BY <1>1, <3>1, <3>5, PaysStill
    <3> QED
      BY <3>1, <3>3, <3>6
  <2>3. ASSUME NEW k \in Rows, pvmas'[k].vouced, pvmas'[k].voucno <= Widest
        PROVE  /\ \A b \in Bills : pimas'[b].voucno = pvmas'[k].voucno <=> b \in pvmas'[k].billamt
               /\ PaysOnce(pvmas[k])'
    <3>1. CASE k = i
      BY <1>1, <2>1, <2>3, <3>1
    <3>2. CASE k # i
      <4>1. pvmas'[k] = pvmas[k] /\ pvmas[k].vouced /\ pvmas[k].voucno <= Widest
        BY <1>1, <2>3, <3>2
      <4> QED
        BY <2>2, <3>2, <4>1
    <3> QED
      BY <3>1, <3>2
  <2>4. ASSUME NEW k \in Rows, pvmas'[k].vouced
        PROVE  pvmas'[k].netamt \subseteq pvmas'[k].billamt
    BY <1>1, <2>4 DEF BooksOK, PaidInFull
  <2> QED
    BY <1>1, <2>3, <2>4 DEF PaidInFull
<1>14. OnLiveNote'
  <2>1. \A b \in Bills : Live(pimas[b].noteno)' = Live(pimas[b].noteno)
    BY <1>1, <1>3, <1>11 DEF Live, Named
  <2> QED
    BY <1>3, <2>1 DEF BooksOK, OnLiveNote
<1> QED
  BY <1>8, <1>9, <1>10, <1>12, <1>13, <1>14 DEF BooksOK

LEMMA WritesKept ==
  ASSUME IInv, OneAtATime, BooksInv, NEW u \in Users, Step(u), Writes(u) \/ create_voucher(u)
  PROVE  BooksInv'
<1>1. BooksOK /\ StillSo(job[u]) => BooksOK'
  BY CreateKeepsBooks, CancelKeepsBooks, UpdateKeepsBooks, VoucherKeepsBooks DEF Writes
<1>2. Done(u) \/ Goto(u, "remind") \/ Goto(u, "forget")
  BY DEF Writes, create_pay_note, cancel_unvouchered_pay_note, update_pay_note, create_voucher,
         AfterCancel
<1>3. PICK j : j = job'[u]
  OBVIOUS
<1>4. j.pc \in EasyPcs
  BY <1>2, <1>3, Gone, Ended DEF EasyPcs, Pcs
<1> QED
  BY <1>1, <1>3, <1>4, StillEasyNext, BooksKept

LEMMA BooksStep ==
  ASSUME IInv, OneAtATime, BooksInv, NEW u \in Users, Step(u)
  PROVE  BooksInv'
<1>1. CASE \E l \in Labels, bills \in (SUBSET Bills) \ {{}} : api_create_note(u, l, bills)
  <2>1. PICK l \in Labels, bills \in (SUBSET Bills) \ {{}} : api_create_note(u, l, bills)
    BY <1>1
  <2>2. Bare(l) \in Notes
    BY DEF Bare, Notes
  <2> QED
    BY <2>1, <2>2, RequestsKept
<1>2. CASE \E n \in Notes : api_cancel_note(u, n) \/ api_create_voucher(u, n)
  <2>1. PICK n \in Notes : api_cancel_note(u, n) \/ api_create_voucher(u, n)
    BY <1>2
  <2>2. n[1] \in Labels /\ {} \in SUBSET Bills
    BY DEF Notes
  <2> QED
    BY <2>1, <2>2, RequestsKept
<1>3. CASE \E n \in Notes, bills \in (SUBSET Bills) \ {{}} : api_update_note(u, n, bills)
  <2>1. PICK n \in Notes, bills \in (SUBSET Bills) \ {{}} : api_update_note(u, n, bills)
    BY <1>3
  <2>2. n[1] \in Labels
    BY DEF Notes
  <2> QED
    BY <2>1, <2>2, RequestsKept
<1>4. CASE \/ recover_note(u) \/ refuse_discount(u) \/ unreadable_date(u) \/ insert_reminder(u)
           \/ delete_reminder(u) \/ Raise(u) \/ Die(u)
  BY <1>4, EasyReads
<1>5. CASE \/ resolve_stored_noteno(u) \/ fetch_bills_for_note(u) \/ cancel_header(u)
           \/ update_header(u) \/ list_note_bills(u) \/ next_voucno(u)
  BY <1>5, ResolveKept, FetchKept, HeaderKept, ListKept, PayKept
<1>6. CASE Writes(u) \/ create_voucher(u)
  BY <1>6, WritesKept
<1> QED
  BY <1>1, <1>2, <1>3, <1>4, <1>5, <1>6 DEF Step, Writes

LEMMA BooksNext ==
  ASSUME IInv, OneAtATime, BooksInv, [Next]_vars
  PROVE  BooksInv'
<1>1. CASE UNCHANGED vars
  <2>1. UNCHANGED kss /\ job' = job /\ alone' = alone
    BY <1>1 DEF vars, ghosts
  <2>2. BooksOK => BooksOK'
    BY <2>1, BooksSame
  <2>3. ASSUME NEW u \in Users, StillSo(job[u])
        PROVE  StillSo(job[u])'
    <3>1. PICK j : j = job[u]
      OBVIOUS
    <3>2. StillSo(j)'
      BY <2>1, <2>3, <3>1, StillSame
    <3> QED
      BY <2>1, <3>1, <3>2 DEF StillSo
  <2> QED
    BY <2>1, <2>2, <2>3 DEF BooksInv
<1> QED
  BY <1>1, Steps, BooksStep

LEMMA BooksInit == Init => OneAtATime /\ BooksInv
<1> SUFFICES ASSUME Init PROVE OneAtATime /\ BooksInv
  OBVIOUS
<1>1. Rows = {} /\ bpdet = {}
  BY DEF Init, Rows
<1>2. \A u \in Users : job[u].pc = "idle"
  BY IdleFacts DEF Init
<1>3. BooksOK
  BY <1>1 DEF Init, BooksOK, Numbers, VouchersKept, OneLive, Totals, PaidInFull, OnLiveNote, Free
<1>4. \A u \in Users : StillSo(job[u])
  BY <1>2 DEF StillSo, RowPcs
<1> QED
  BY <1>2, <1>3, <1>4 DEF OneAtATime, At, BooksInv

LEMMA BooksInvariance == Spec => [](IInv /\ OneAtATime /\ BooksInv)
<1>1. Init => IInv /\ OneAtATime /\ BooksInv
  BY InitInv, BooksInit
<1>2. IInv /\ OneAtATime /\ BooksInv /\ [Next]_vars => (IInv /\ OneAtATime /\ BooksInv)'
  BY NextInv, OneAtATimeStep, BooksNext
<1> QED
  BY <1>1, <1>2, PTL DEF Spec

\* As long as requests come one after another: no two live notes have one name, a note
\* comes to its bills, no bill is on a canceled note, and up to the number Widest a voucher
\* pays all its bills and once, under a number of its own, whichever requests die on the
\* way (writer.py: create_pay_note, update_pay_note, cancel_unvouchered_pay_note,
\* next_voucno, create_voucher).
THEOREM TheBooksAgree == Spec => []NotesAgree
<1>1. ASSUME IInv, BooksInv
      PROVE  NotesAgree
  <2> SUFFICES ASSUME alone PROVE NotesAgree
    BY DEF NotesAgree
  <2>1. BooksOK
    BY <1>1 DEF BooksInv
  <2>2. ASSUME NEW n \in Notes
        PROVE  Cardinality(Live(n)) <= 1
    <3>1. CASE Live(n) = {}
      BY <3>1, FS_EmptySet
    <3>2. CASE Live(n) # {}
      <4>1. PICK i : i \in Live(n)
        BY <3>2
      <4>2. Live(n) = {i}
        BY <1>1, <2>1, <4>1, TheLive
      <4> QED
        BY <4>2, FS_Singleton
    <3> QED
      BY <3>1, <3>2
  <2>3. ASSUME NEW i \in Rows, pvmas[i].vouced, pvmas[i].voucno <= Widest
        PROVE  {b \in Bills : pimas[b].voucno = pvmas[i].voucno} = pvmas[i].billamt
    <3>1. pvmas[i].billamt \subseteq Bills
      BY <1>1, NamesAreNotes DEF NoteType
    <3> QED
      BY <2>1, <2>3, <3>1 DEF BooksOK, PaidInFull
  <2> QED
    BY <2>1, <2>2, <2>3 DEF NotesAgree, BooksOK, Totals, PaidInFull, OnLiveNote
<1> QED
  BY <1>1, BooksInvariance, PTL
-----------------------------------------------------------------------------
(***************************************************************************)
(* The reminders.                                                          *)
(***************************************************************************)
\* The reminders agree with the notes, but for what this request still has to do.
RemindedBy(j) == \A n \in Notes :
  /\ Waits(n) => n \in reminder \/ (j.note = n /\ TakingBack(j))
  /\ n \in reminder => Live(n) # {} \/ (j.note = n /\ j.pc = "forget")
Calm(j) == ~TakingBack(j) /\ j.pc # "forget"
QuietPcs == {"idle", "find", "list", "update", "pay", "voucher"}

LEMMA QuietCalm ==
  ASSUME NEW j, j.pc \in QuietPcs
  PROVE  Calm(j) /\ RemindJob(j)
BY DEF Calm, RemindJob, TakingBack, QuietPcs

LEMMA CalmAgree ==
  ASSUME NEW j, Calm(j), RemindedBy(j), NEW k
  PROVE  RemindedBy(k)
BY DEF Calm, RemindedBy

LEMMA RemindSame ==
  ASSUME UNCHANGED <<kss, reminder>>, NEW j, RemindedBy(j), RemindJob(j)
  PROVE  RemindedBy(j)' /\ RemindJob(j)'
BY DEF RemindedBy, RemindJob, TakingBack, Waits, open_unvouchered_note_exists, kss, Live, Named,
       Rows

\* While requests come one after another it is the one under way that answers.
LEMMA RemindBy ==
  ASSUME NEW u \in Users, \A v \in Users \ {u} : At(v, "idle")
  PROVE  Reminded <=> RemindedBy(job[u])
BY DEF Reminded, RemindedBy, TakingBack, At

LEMMA RemindKept ==
  ASSUME IInv, OneAtATime, BooksInv, RemindInv, NEW u \in Users, Step(u), NEW j, j = job'[u],
         alone /\ ~astray /\ ~astray' /\ BooksOK /\ StillSo(job[u])
           /\ RemindedBy(job[u]) /\ RemindJob(job[u])
         => RemindedBy(j)' /\ RemindJob(j)'
  PROVE  RemindInv'
<1> SUFFICES ASSUME alone', ~astray'
             PROVE  Reminded' /\ \A v \in Users : RemindJob(job[v])'
  BY DEF RemindInv
<1>1. /\ alone /\ ~astray /\ \A v \in Users \ {u} : job'[v] = job[v] /\ At(v, "idle")
  BY Others
<1>2. RemindedBy(job[u]) /\ RemindJob(job[u])
  BY <1>1, RemindBy DEF RemindInv
<1>3. BooksOK /\ StillSo(job[u])
  BY <1>1 DEF BooksInv
<1>4. RemindedBy(j)' /\ RemindJob(j)'
  BY <1>1, <1>2, <1>3
<1>5. Reminded'
  <2>1. RemindedBy(job[u])'
    BY <1>4 DEF RemindedBy, TakingBack
  <2>2. \A v \in Users \ {u} : job'[v].pc = "idle"
    BY <1>1 DEF At
  <2> QED
    BY <2>1, <2>2 DEF Reminded, RemindedBy, TakingBack, At
<1>6. ASSUME NEW v \in Users
      PROVE  RemindJob(job[v])'
  <2>1. CASE v = u
    BY <1>4, <2>1 DEF RemindJob, TakingBack
  <2>2. CASE v # u
    <3>1. job'[v].pc = "idle"
      BY <1>1, <2>2 DEF At
    <3> QED
      BY <3>1 DEF RemindJob, TakingBack
  <2> QED
    BY <2>1, <2>2
<1> QED
  BY <1>5, <1>6

\* A step that writes neither notes nor reminders.
LEMMA StillReminded ==
  ASSUME IInv, OneAtATime, BooksInv, RemindInv, NEW u \in Users, Step(u),
         UNCHANGED <<kss, reminder>>, NEW j, j = job'[u],
         alone /\ ~astray /\ ~astray' /\ BooksOK /\ StillSo(job[u])
           /\ RemindedBy(job[u]) /\ RemindJob(job[u])
         => RemindedBy(j) /\ RemindJob(j)
  PROVE  RemindInv'
<1>1. RemindedBy(j) /\ RemindJob(j) => RemindedBy(j)' /\ RemindJob(j)'
  BY RemindSame
<1> QED
  BY <1>1, RemindKept

\* A request that owed nothing goes on, and owes nothing.
LEMMA CalmStep ==
  ASSUME IInv, OneAtATime, BooksInv, RemindInv, NEW u \in Users, Step(u),
         UNCHANGED <<kss, reminder>>, NEW j, j = job'[u],
         RemindJob(job[u]) => Calm(job[u]) /\ RemindJob(j)
  PROVE  RemindInv'
<1>1. RemindedBy(job[u]) /\ RemindJob(job[u]) => RemindedBy(j) /\ RemindJob(j)
  BY CalmAgree
<1> QED
  BY <1>1, StillReminded

LEMMA CalmQuiet ==
  ASSUME IInv, OneAtATime, BooksInv, RemindInv, NEW u \in Users, Step(u),
         UNCHANGED <<kss, reminder>>, job'[u].pc \in QuietPcs,
         RemindJob(job[u]) => Calm(job[u])
  PROVE  RemindInv'
<1>1. PICK j : j = job'[u]
  OBVIOUS
<1> QED
  BY <1>1, QuietCalm, CalmStep

LEMMA RequestReminds ==
  ASSUME IInv, OneAtATime, BooksInv, RemindInv, NEW u \in Users, Step(u), NEW j \in JobType,
         Request(u, j), RemindJob(j)
  PROVE  RemindInv'
<1>1. UNCHANGED <<kss, reminder>> /\ job'[u] = j /\ job[u].pc = "idle"
  BY DEF Request, At, IInv, TypeOK
<1>2. Calm(job[u])
  BY <1>1, QuietCalm DEF QuietPcs
<1> QED
  BY <1>1, <1>2, CalmStep

LEMMA RequestsRemind ==
  ASSUME IInv, OneAtATime, BooksInv, RemindInv, NEW u \in Users, Step(u),
         NEW l \in Labels, NEW n \in Notes, NEW bills \in SUBSET Bills,
         \/ api_create_note(u, l, bills) \/ api_cancel_note(u, n)
         \/ api_create_voucher(u, n) \/ api_update_note(u, n, bills)
  PROVE  RemindInv'
<1>1. Bare(l) \in Notes
  BY DEF Bare, Notes
<1>2. CASE api_create_note(u, l, bills)
  <2>1. PICK pc \in {"recover", "resolve"} :
               Request(u, [Idle EXCEPT !.note = Bare(l), !.bills = bills, !.pc = pc])
    BY <1>2 DEF api_create_note
  <2>2. PICK j \in JobType : j = [Idle EXCEPT !.note = Bare(l), !.bills = bills, !.pc = pc]
    BY <1>1, IdleFacts DEF JobType, Pcs
  <2>3. j.pc = pc /\ j.cancelling = FALSE /\ j.recovered = FALSE
    BY <2>2 DEF Idle
  <2>4. RemindJob(j)
    BY <2>3 DEF RemindJob, TakingBack
  <2> QED
    BY <2>1, <2>2, <2>4, RequestReminds
<1>3. CASE api_cancel_note(u, n)
  <2>1. PICK pc \in {"header", "forget"} :
               /\ Request(u, [Idle EXCEPT !.pc = pc, !.note = n, !.cancelling = TRUE])
               /\ pc = "forget" => Live(n) = {}
    BY <1>3 DEF api_cancel_note
  <2>2. PICK j \in JobType : j = [Idle EXCEPT !.pc = pc, !.note = n, !.cancelling = TRUE]
    BY IdleFacts DEF JobType, Pcs
  <2>3. j.pc = pc /\ j.note = n /\ j.cancelling = TRUE
    BY <2>2 DEF Idle
  <2>4. RemindJob(j)
    BY <2>1, <2>3 DEF RemindJob, TakingBack, Waits, open_unvouchered_note_exists
  <2> QED
    BY <2>1, <2>2, <2>4, RequestReminds
<1>4. CASE api_create_voucher(u, n)
  <2>1. PICK j \in JobType : Request(u, j) /\ j.pc = "pay"
    BY <1>4, PayRequest
  <2>2. RemindJob(j)
    BY <2>1, QuietCalm DEF QuietPcs
  <2> QED
    BY <2>1, <2>2, RequestReminds
<1>5. CASE api_update_note(u, n, bills)
  <2>1. PICK j \in JobType : j = [Idle EXCEPT !.pc = "find", !.note = n, !.bills = bills]
    BY IdleFacts DEF JobType, Pcs
  <2>2. j.pc = "find"
    BY <2>1, IdleFacts DEF JobType
  <2>3. RemindJob(j)
    BY <2>2, QuietCalm DEF QuietPcs
  <2>4. Request(u, j)
    BY <1>5, <2>1 DEF api_update_note
  <2> QED
    BY <2>3, <2>4, RequestReminds
<1> QED
  BY <1>2, <1>3, <1>4, <1>5

\* The steps before a note is written, those of an edit, and the first of a payment.
LEMMA CalmReads ==
  ASSUME IInv, OneAtATime, BooksInv, RemindInv, NEW u \in Users, Step(u),
         \/ recover_note(u) \/ resolve_stored_noteno(u) \/ fetch_bills_for_note(u)
         \/ update_header(u) \/ list_note_bills(u) \/ next_voucno(u)
  PROVE  RemindInv'
<1>1. UNCHANGED <<kss, reminder>>
  BY DEF recover_note, resolve_stored_noteno, fetch_bills_for_note, update_header,
         list_note_bills, next_voucno
<1>2. job[u].pc \in {"recover", "resolve", "fetch", "find", "list", "pay"}
  BY DEF recover_note, resolve_stored_noteno, fetch_bills_for_note, update_header,
         list_note_bills, next_voucno, At
<1>3. Calm(job[u])
  BY <1>2 DEF Calm, TakingBack
<1>4. CASE Done(u)
  BY <1>1, <1>3, <1>4, Ended, CalmQuiet DEF QuietPcs
<1>5. CASE job' = [job EXCEPT ![u].pc = "remind", ![u].recovered = TRUE] /\ recover_note(u)
  <2>1. PICK j : j = [job[u] EXCEPT !.pc = "remind", !.recovered = TRUE]
    OBVIOUS
  <2>2. /\ j.pc = "remind" /\ j.recovered = TRUE /\ j.note = job[u].note
        /\ j.cancelling = job[u].cancelling
    BY <2>1 DEF IInv, TypeOK, JobType
  <2>3. j = job'[u]
    BY <1>5, <2>1 DEF IInv, TypeOK
  <2>4. job[u].pc = "recover" /\ Live(job[u].note) # {}
    <3>1. job[u].pc = "recover" /\ ~Done(u)
      BY <1>5, <2>2, <2>3, Ended DEF recover_note, At
    <3> QED
      BY <1>5, <3>1 DEF recover_note
  <2>5. RemindJob(job[u]) => RemindJob(j)
    BY <2>2, <2>4 DEF RemindJob, TakingBack
  <2> QED
    BY <1>1, <1>3, <2>3, <2>5, CalmStep
<1>6. CASE resolve_stored_noteno(u) /\ ~Done(u)
  <2>1. PICK k \in 0..MaxSuffix :
          job' = [job EXCEPT ![u].note = <<job[u].note[1], k>>, ![u].pc = "fetch"]
    BY <1>6 DEF resolve_stored_noteno
  <2>2. PICK j : j = [job[u] EXCEPT !.note = <<job[u].note[1], k>>, !.pc = "fetch"]
    OBVIOUS
  <2>3. j.pc = "fetch" /\ j.cancelling = job[u].cancelling /\ j.recovered = job[u].recovered
    BY <2>2 DEF IInv, TypeOK, JobType
  <2>4. j = job'[u]
    BY <2>1, <2>2 DEF IInv, TypeOK
  <2>5. job[u].pc = "resolve"
    BY <1>6 DEF resolve_stored_noteno, At
  <2>6. RemindJob(job[u]) => RemindJob(j)
    BY <2>3, <2>5 DEF RemindJob, TakingBack
  <2> QED
    BY <1>1, <1>3, <2>4, <2>6, CalmStep
<1>7. CASE Goto(u, "insert") /\ fetch_bills_for_note(u)
  <2>1. PICK j : j = job'[u]
    OBVIOUS
  <2>2. j.pc = "insert" /\ j.cancelling = job[u].cancelling /\ j.recovered = job[u].recovered
    BY <1>7, <2>1, Gone DEF Pcs
  <2>3. job[u].pc = "fetch"
    BY <1>7 DEF fetch_bills_for_note, At
  <2>4. RemindJob(job[u]) => RemindJob(j)
    BY <2>2, <2>3 DEF RemindJob, TakingBack
  <2> QED
    BY <1>1, <1>3, <2>1, <2>4, CalmStep
<1>8. CASE (update_header(u) \/ list_note_bills(u) \/ next_voucno(u)) /\ ~Done(u)
  <2>1. \/ \E i : job' = [job EXCEPT ![u].pc = "list", ![u].row = i]
        \/ \E read : job' = [job EXCEPT ![u].pc = "update", ![u].read = read]
        \/ \E i, bills, v : job' = [job EXCEPT ![u].pc = "voucher", ![u].row = i,
                                    ![u].bills = bills, ![u].voucno = v]
    BY <1>8 DEF update_header, list_note_bills, next_voucno
  <2>2. job \in [Users -> JobType]
    BY DEF IInv, TypeOK
  <2>3. CASE \E i : job' = [job EXCEPT ![u].pc = "list", ![u].row = i]
    <3>1. job'[u].pc = "list"
      BY <2>2, <2>3 DEF JobType
    <3> QED
      BY <1>1, <1>3, <3>1, CalmQuiet DEF QuietPcs
  <2>4. CASE \E read : job' = [job EXCEPT ![u].pc = "update", ![u].read = read]
    <3>1. job'[u].pc = "update"
      BY <2>2, <2>4 DEF JobType
    <3> QED
      BY <1>1, <1>3, <3>1, CalmQuiet DEF QuietPcs
  <2>5. CASE \E i, bills, v : job' = [job EXCEPT ![u].pc = "voucher", ![u].row = i,
                                    ![u].bills = bills, ![u].voucno = v]
    <3>1. job'[u].pc = "voucher"
      BY <2>2, <2>5 DEF JobType
    <3> QED
      BY <1>1, <1>3, <3>1, CalmQuiet DEF QuietPcs
  <2> QED
    BY <2>1, <2>3, <2>4, <2>5
<1>9. recover_note(u) => Done(u) \/ job' = [job EXCEPT ![u].pc = "remind", ![u].recovered = TRUE]
  BY DEF recover_note
<1>10. fetch_bills_for_note(u) => Done(u) \/ Goto(u, "insert")
  BY DEF fetch_bills_for_note
<1> QED
  BY <1>4, <1>5, <1>6, <1>7, <1>8, <1>9, <1>10
\* No reminder yet for a note that is about to be written; one to write, or the note to go.
LEMMA CreateReminds ==
  ASSUME IInv, OneAtATime, BooksInv, RemindInv, NEW u \in Users, Step(u), create_pay_note(u)
  PROVE  RemindInv'
<1>1. PICK j, n, bs, m : /\ j = job'[u] /\ n = job[u].note /\ bs = job[u].bills
                         /\ m = Len(pvmas) + 1
  OBVIOUS
<1>2. job[u].pc = "insert" /\ n \in Notes
  BY <1>1 DEF create_pay_note, At, IInv, JobsOK, JobOK
<1>3. /\ j.pc = "remind" /\ j.note = n /\ j.recovered = job[u].recovered
      /\ j.cancelling = job[u].cancelling
  BY <1>1, Gone DEF create_pay_note, Pcs
<1>4. ASSUME BooksOK, StillSo(job[u]), RemindedBy(job[u]), RemindJob(job[u])
      PROVE  RemindedBy(j)' /\ RemindJob(j)'
  <2>1. PICK new \in NoteType :
           /\ new.noteno = n /\ ~new.vouced /\ ~new.canceled
           /\ m \notin Rows /\ Rows' = Rows \cup {m}
           /\ pvmas'[m] = new /\ \A i \in Rows : pvmas'[i] = pvmas[i]
    BY <1>1, <1>4, CreateWrites
  <2>2. reminder' = reminder
    BY DEF create_pay_note
  <2>3. Live(n) = {} /\ n \notin reminder
    BY <1>1, <1>2, <1>4 DEF StillSo, RemindedBy
  <2>4. TakingBack(j)
    BY <1>2, <1>3, <1>4 DEF RemindJob, TakingBack
  <2>5. m \in Live(n)'
    BY <2>1 DEF Live, Named
  <2>6. ASSUME NEW k \in Notes \ {n}
        PROVE  Named(k)' = Named(k) /\ Live(k)' = Live(k) /\ (Waits(k)' <=> Waits(k))
    <3>1. Named(k)' = Named(k)
      BY <2>1 DEF Named
    <3>2. Live(k)' = Live(k)
      BY <2>1 DEF Live, Named
    <3> QED
      BY <2>1, <3>1, <3>2 DEF Waits, open_unvouchered_note_exists, Live, Named
  <2>7. RemindedBy(j)'
    <3>1. ASSUME NEW k \in Notes
          PROVE  /\ Waits(k)' => k \in reminder' \/ (j.note = k /\ TakingBack(j))
                 /\ k \in reminder' => Live(k)' # {} \/ (j.note = k /\ j.pc = "forget")
      <4>1. CASE k = n
        BY <1>3, <2>4, <2>5, <4>1
      <4>2. CASE k # n
        BY <1>2, <1>4, <2>2, <2>6, <4>2 DEF RemindedBy, TakingBack
      <4> QED
        BY <4>1, <4>2
    <3> QED
      BY <3>1 DEF RemindedBy
  <2>8. RemindJob(j)'
    BY <1>2, <1>3, <1>4, <2>2, <2>3, <2>5 DEF RemindJob, TakingBack
  <2> QED
    BY <2>7, <2>8
<1> QED
  BY <1>1, <1>4, RemindKept

\* The reminder is not written: the note is taken back, unless it was there before.
LEMMA GiveUpReminds ==
  ASSUME IInv, OneAtATime, BooksInv, RemindInv, NEW u \in Users, Step(u),
         UNCHANGED <<kss, reminder>>, At(u, "remind"), GiveUp(u)
  PROVE  RemindInv'
<1>1. PICK j : j = job'[u]
  OBVIOUS
<1>2. CASE job[u].recovered
  <2>1. j.pc = "idle"
    BY <1>1, <1>2, Ended DEF GiveUp
  <2>2. Calm(job[u])
    BY <1>2 DEF Calm, TakingBack, At
  <2> QED
    BY <1>1, <2>1, <2>2, CalmQuiet DEF QuietPcs
<1>3. CASE ~job[u].recovered
  <2>1. /\ j.pc = "header" /\ j.note = job[u].note /\ j.recovered = job[u].recovered
        /\ j.cancelling = job[u].cancelling
    BY <1>1, <1>3, Gone DEF GiveUp, Pcs
  <2>2. RemindedBy(job[u]) /\ RemindJob(job[u]) => RemindedBy(j) /\ RemindJob(j)
    BY <1>3, <2>1 DEF RemindedBy, RemindJob, TakingBack, At
  <2> QED
    BY <1>1, <2>2, StillReminded
<1> QED
  BY <1>2, <1>3

LEMMA InsertReminds ==
  ASSUME IInv, OneAtATime, BooksInv, RemindInv, NEW u \in Users, Step(u),
         refuse_discount(u) \/ insert_reminder(u) \/ unreadable_date(u)
  PROVE  RemindInv'
<1>1. CASE astray'
  BY <1>1 DEF RemindInv
<1>2. CASE At(u, "remind") /\ GiveUp(u) /\ UNCHANGED <<kss, reminder>>
  BY <1>2, GiveUpReminds
<1>3. CASE /\ At(u, "remind") /\ Done(u) /\ UNCHANGED kss
           /\ reminder' = reminder \cup {job[u].note}
  <2>1. PICK j, n : j = job'[u] /\ n = job[u].note
    OBVIOUS
  <2>2. j.pc = "idle" /\ job[u].pc = "remind"
    BY <1>3, <2>1, Ended DEF At
  <2>3. Calm(j) /\ RemindJob(j)'
    BY <2>2, QuietCalm DEF QuietPcs, RemindJob, TakingBack
  <2>4. \A k \in Notes : Live(k)' = Live(k) /\ (Waits(k)' <=> Waits(k))
    BY <1>3 DEF kss, Waits, open_unvouchered_note_exists, Live, Named, Rows
  <2>5. ASSUME RemindedBy(job[u]), RemindJob(job[u])
        PROVE  RemindedBy(j)'
    <3>1. Live(n) # {}
      BY <2>1, <2>2, <2>5 DEF RemindJob
    <3>2. ASSUME NEW k \in Notes
          PROVE  /\ Waits(k)' => k \in reminder'
                 /\ k \in reminder' => Live(k)' # {}
      <4>1. Waits(k) => k \in reminder \/ n = k
        BY <2>1, <2>5 DEF RemindedBy
      <4>2. k \in reminder => Live(k) # {}
        BY <2>1, <2>2, <2>5 DEF RemindedBy
      <4>3. k \in reminder' <=> k \in reminder \/ k = n
        BY <1>3, <2>1
      <4> QED
        BY <2>4, <3>1, <4>1, <4>2, <4>3
    <3> QED
      BY <3>2 DEF RemindedBy
  <2> QED
    BY <2>1, <2>3, <2>5, RemindKept
<1> QED
  BY <1>1, <1>2, <1>3 DEF refuse_discount, insert_reminder, unreadable_date

\* The end of a request that takes nothing back any more.
LEMMA EndReminds ==
  ASSUME IInv, OneAtATime, BooksInv, RemindInv, NEW u \in Users, Step(u),
         UNCHANGED <<kss, reminder>>, Done(u),
         At(u, "header"), BooksOK /\ ~job[u].cancelling => ~Waits(job[u].note)
  PROVE  RemindInv'
<1>1. PICK j : j = job'[u]
  OBVIOUS
<1>2. j.pc = "idle"
  BY <1>1, Ended
<1>3. RemindJob(j)
  BY <1>2, QuietCalm DEF QuietPcs
<1>4. ASSUME BooksOK, RemindedBy(job[u])
      PROVE  RemindedBy(j)
  BY <1>4 DEF RemindedBy, TakingBack, At
<1> QED
  BY <1>1, <1>3, <1>4, StillReminded

LEMMA HeaderReminds ==
  ASSUME IInv, OneAtATime, BooksInv, RemindInv, NEW u \in Users, Step(u), cancel_header(u)
  PROVE  RemindInv'
<1>1. UNCHANGED <<kss, reminder>> /\ At(u, "header")
  BY DEF cancel_header
<1>2. PICK j : j = job'[u]
  OBVIOUS
<1>3. ASSUME AfterCancel(u), ~Waits(job[u].note)
      PROVE  RemindInv'
  <2>1. CASE ~job[u].cancelling
    BY <1>1, <1>3, <2>1, EndReminds DEF AfterCancel
  <2>2. CASE job[u].cancelling
    <3>1. /\ j.pc = "forget" /\ j.note = job[u].note /\ j.cancelling = job[u].cancelling
      BY <1>2, <1>3, <2>2, Gone DEF AfterCancel, Pcs
    <3>2. RemindJob(j)
      BY <1>3, <2>2, <3>1 DEF RemindJob, TakingBack
    <3>3. Calm(job[u])
      BY <1>1, <2>2 DEF Calm, TakingBack, At
    <3> QED
      BY <1>1, <1>2, <3>2, <3>3, CalmStep
  <2> QED
    BY <2>1, <2>2
<1>4. CASE Named(job[u].note) = {} /\ AfterCancel(u)
  <2>1. ~Waits(job[u].note)
    BY <1>4 DEF Waits, open_unvouchered_note_exists, Live
  <2> QED
    BY <1>3, <1>4, <2>1
<1>5. ASSUME NEW i \in Named(job[u].note), pvmas[i].vouced, Done(u)
      PROVE  RemindInv'
  <2>1. ASSUME BooksOK, Waits(job[u].note)
        PROVE  FALSE
    <3>1. i \in Live(job[u].note)
      BY <1>5, <2>1 DEF Waits
    <3> QED
      BY <1>5, <2>1, <3>1, TheLive DEF Waits, open_unvouchered_note_exists
  <2> QED
    BY <1>1, <1>5, <2>1, EndReminds
<1>6. ASSUME NEW i \in Named(job[u].note), pvmas[i].canceled, AfterCancel(u)
      PROVE  RemindInv'
  <2>1. i \notin Live(job[u].note)
    BY <1>6 DEF Live
  <2>2. ~Waits(job[u].note)
    BY <1>6, <2>1 DEF Waits
  <2> QED
    BY <1>3, <1>6, <2>2
<1>7. ASSUME NEW i, job' = [job EXCEPT ![u].pc = "cancel", ![u].row = i]
      PROVE  RemindInv'
  <2>1. /\ j.pc = "cancel" /\ j.note = job[u].note /\ j.cancelling = job[u].cancelling
    BY <1>2, <1>7 DEF IInv, TypeOK, JobType
  <2>2. RemindedBy(job[u]) /\ RemindJob(job[u]) => RemindedBy(j) /\ RemindJob(j)
    BY <1>1, <2>1 DEF RemindedBy, RemindJob, TakingBack, At
  <2> QED
    BY <1>1, <1>2, <2>2, StillReminded
<1>8. \/ Named(job[u].note) = {} /\ AfterCancel(u)
      \/ \E i \in Named(job[u].note) :
           \/ pvmas[i].vouced /\ Done(u)
           \/ pvmas[i].canceled /\ AfterCancel(u)
           \/ job' = [job EXCEPT ![u].pc = "cancel", ![u].row = i]
  BY DEF cancel_header
<1> QED
  BY <1>4, <1>5, <1>6, <1>7, <1>8

LEMMA CancelReminds ==
  ASSUME IInv, OneAtATime, BooksInv, RemindInv, NEW u \in Users, Step(u),
         cancel_unvouchered_pay_note(u)
  PROVE  RemindInv'
<1>1. PICK j, n, i : j = job'[u] /\ n = job[u].note /\ i = job[u].row
  OBVIOUS
<1>2. job[u].pc = "cancel" /\ n \in Notes /\ reminder' = reminder
  BY <1>1 DEF cancel_unvouchered_pay_note, At, IInv, JobsOK, JobOK
<1>3. /\ j.pc = IF job[u].cancelling THEN "forget" ELSE "idle"
      /\ job[u].cancelling => j.note = n /\ j.cancelling = job[u].cancelling
  BY <1>1, Gone, Ended DEF cancel_unvouchered_pay_note, AfterCancel, Pcs
<1>4. ASSUME BooksOK, StillSo(job[u]), RemindedBy(job[u]), RemindJob(job[u])
      PROVE  RemindedBy(j)' /\ RemindJob(j)'
  <2>1. /\ i \in Rows /\ pvmas[i].noteno = n /\ ~pvmas[i].canceled
        /\ Rows' = Rows /\ \A k \in Rows \ {i} : pvmas'[k] = pvmas[k]
        /\ pvmas'[i].noteno = n /\ pvmas'[i].canceled
    BY <1>1, <1>4, CancelWrites
  <2>2. Live(n)' = {}
    <3>1. ASSUME NEW k \in Rows, pvmas'[k].noteno = n, ~pvmas'[k].canceled
          PROVE  FALSE
      <4>1. k # i /\ pvmas'[k] = pvmas[k]
        BY <2>1, <3>1
      <4> QED
        BY <1>4, <2>1, <3>1, <4>1 DEF BooksOK, OneLive
    <3> QED
      BY <2>1, <3>1 DEF Live, Named
  <2>3. ~Waits(n)'
    BY <2>2 DEF Waits, open_unvouchered_note_exists
  <2>4. ASSUME NEW k \in Notes \ {n}
        PROVE  Live(k)' = Live(k) /\ (Waits(k)' <=> Waits(k))
    <3>1. Named(k)' = Named(k)
      BY <2>1 DEF Named
    <3>2. Live(k)' = Live(k)
      BY <2>1 DEF Live, Named
    <3>3. \A m \in Live(k) : pvmas'[m] = pvmas[m]
      BY <2>1 DEF Live, Named
    <3> QED
      BY <3>1, <3>2, <3>3 DEF Waits, open_unvouchered_note_exists
  <2>5. RemindedBy(j)'
    <3>1. ASSUME NEW k \in Notes
          PROVE  /\ Waits(k)' => k \in reminder' \/ (j.note = k /\ TakingBack(j))
                 /\ k \in reminder' => Live(k)' # {} \/ (j.note = k /\ j.pc = "forget")
      <4>1. CASE k = n
        <5>1. k \in reminder => job[u].cancelling
          BY <1>1, <1>2, <1>4, <4>1 DEF RemindJob, TakingBack
        <5> QED
          BY <1>2, <1>3, <2>3, <4>1, <5>1
      <4>2. CASE k # n
        <5>1. Waits(k) => k \in reminder
          BY <1>1, <1>4, <4>2 DEF RemindedBy
        <5>2. k \in reminder => Live(k) # {}
          BY <1>1, <1>4, <4>2 DEF RemindedBy
        <5> QED
          BY <1>2, <2>4, <4>2, <5>1, <5>2
      <4> QED
        BY <4>1, <4>2
    <3> QED
      BY <3>1 DEF RemindedBy
  <2>6. RemindJob(j)'
    BY <1>3, <2>3 DEF RemindJob, TakingBack
  <2> QED
    BY <2>5, <2>6
<1> QED
  BY <1>1, <1>4, RemindKept
LEMMA ForgetReminds ==
  ASSUME IInv, OneAtATime, BooksInv, RemindInv, NEW u \in Users, Step(u), delete_reminder(u)
  PROVE  RemindInv'
<1>1. PICK j, n : j = job'[u] /\ n = job[u].note
  OBVIOUS
<1>2. job[u].pc = "forget" /\ UNCHANGED kss /\ reminder' = reminder \ {n}
  BY <1>1 DEF delete_reminder, At
<1>3. j.pc = "idle"
  BY <1>1, Ended DEF delete_reminder
<1>4. \A k \in Notes : Live(k)' = Live(k) /\ (Waits(k)' <=> Waits(k))
  BY <1>2 DEF kss, Waits, open_unvouchered_note_exists, Live, Named, Rows
<1>5. ASSUME RemindedBy(job[u]), RemindJob(job[u])
      PROVE  RemindedBy(j)'
  <2>1. ASSUME NEW k \in Notes
        PROVE  /\ Waits(k) => k # n /\ k \in reminder
               /\ k \in reminder /\ k # n => Live(k) # {}
    BY <1>1, <1>2, <1>5 DEF RemindedBy, RemindJob, TakingBack
  <2> QED
    BY <1>2, <1>4, <2>1 DEF RemindedBy
<1>6. RemindJob(j)'
  BY <1>3 DEF RemindJob, TakingBack
<1> QED
  BY <1>1, <1>5, <1>6, RemindKept

\* An edit and a payment leave a waiting note its name, and no note waits that did not.
LEMMA PayReminds ==
  ASSUME IInv, OneAtATime, BooksInv, RemindInv, NEW u \in Users, Step(u),
         update_pay_note(u) \/ create_voucher(u)
  PROVE  RemindInv'
<1>1. PICK j, n, i : j = job'[u] /\ n = job[u].note /\ i = job[u].row
  OBVIOUS
<1>2. job[u].pc \in {"update", "voucher"} /\ reminder' = reminder
  BY DEF update_pay_note, create_voucher, At
<1>3. j.pc = "idle"
  BY <1>1, Ended DEF update_pay_note, create_voucher
<1>4. ASSUME BooksOK, StillSo(job[u]), RemindedBy(job[u])
      PROVE  RemindedBy(j)'
  <2>1. /\ i \in Rows /\ pvmas[i].noteno = n /\ ~pvmas[i].vouced /\ ~pvmas[i].canceled
        /\ Rows' = Rows /\ \A k \in Rows \ {i} : pvmas'[k] = pvmas[k]
        /\ pvmas'[i].noteno = n /\ ~pvmas'[i].canceled
    <3>1. PICK bs, v, net, amount :
            /\ bs = job[u].bills /\ v = job[u].voucno
            /\ net = job[u].bills \ job[u].discount /\ amount = job[u].read
      OBVIOUS
    <3>2. CASE update_pay_note(u)
      BY <1>1, <1>4, <3>1, <3>2, UpdateWrites
    <3>3. CASE create_voucher(u)
      BY <1>1, <1>4, <3>1, <3>3, VoucherWrites
    <3> QED
      BY <3>2, <3>3
  <2>2. ASSUME NEW k \in Notes
        PROVE  Live(k)' = Live(k) /\ (Waits(k)' => Waits(k))
    <3>1. Named(k)' = Named(k)
      BY <2>1 DEF Named
    <3>2. Live(k)' = Live(k)
      BY <2>1 DEF Live, Named
    <3>3. \A m \in Live(k) : ~pvmas'[m].vouced => ~pvmas[m].vouced
      BY <2>1 DEF Live, Named
    <3> QED
      BY <3>1, <3>2, <3>3 DEF Waits, open_unvouchered_note_exists
  <2>3. ASSUME NEW k \in Notes
        PROVE  (Waits(k) => k \in reminder) /\ (k \in reminder => Live(k) # {})
    BY <1>2, <1>4 DEF RemindedBy, TakingBack
  <2> QED
    BY <1>2, <2>2, <2>3 DEF RemindedBy
<1>5. RemindJob(j)'
  BY <1>3 DEF RemindJob, TakingBack
<1> QED
  BY <1>1, <1>4, <1>5, RemindKept

\* A request that was taking a note back, or forgetting it, leaves it astray.
LEMMA RaiseReminds ==
  ASSUME IInv, OneAtATime, BooksInv, RemindInv, NEW u \in Users, Step(u), Raise(u) \/ Die(u)
  PROVE  RemindInv'
<1>1. CASE astray'
  BY <1>1 DEF RemindInv
<1>2. CASE Raise(u) /\ ~astray'
  <2>1. Done(u) /\ UNCHANGED <<kss, reminder>>
    BY <1>2 DEF Raise
  <2>2. Calm(job[u])
    BY <1>2 DEF Raise, Calm, TakingBack, At
  <2>3. job'[u].pc \in QuietPcs
    BY <2>1, Ended DEF QuietPcs
  <2> QED
    BY <2>1, <2>2, <2>3, CalmQuiet
<1> QED
  BY <1>1, <1>2 DEF Die

LEMMA RemindStep ==
  ASSUME IInv, OneAtATime, BooksInv, RemindInv, NEW u \in Users, Step(u)
  PROVE  RemindInv'
<1>1. CASE \E l \in Labels, bills \in (SUBSET Bills) \ {{}} : api_create_note(u, l, bills)
  <2>1. PICK l \in Labels, bills \in (SUBSET Bills) \ {{}} : api_create_note(u, l, bills)
    BY <1>1
  <2>2. Bare(l) \in Notes
    BY DEF Bare, Notes
  <2> QED
    BY <2>1, <2>2, RequestsRemind
<1>2. CASE \E n \in Notes : api_cancel_note(u, n) \/ api_create_voucher(u, n)
  <2>1. PICK n \in Notes : api_cancel_note(u, n) \/ api_create_voucher(u, n)
    BY <1>2
  <2>2. n[1] \in Labels /\ {} \in SUBSET Bills
    BY DEF Notes
  <2> QED
    BY <2>1, <2>2, RequestsRemind
<1>3. CASE \E n \in Notes, bills \in (SUBSET Bills) \ {{}} : api_update_note(u, n, bills)
  <2>1. PICK n \in Notes, bills \in (SUBSET Bills) \ {{}} : api_update_note(u, n, bills)
    BY <1>3
  <2>2. n[1] \in Labels
    BY DEF Notes
  <2> QED
    BY <2>1, <2>2, RequestsRemind
<1>4. CASE \/ recover_note(u) \/ resolve_stored_noteno(u) \/ fetch_bills_for_note(u)
           \/ update_header(u) \/ list_note_bills(u) \/ next_voucno(u)
  BY <1>4, CalmReads
<1>5. CASE create_pay_note(u) \/ refuse_discount(u) \/ insert_reminder(u) \/ unreadable_date(u)
  BY <1>5, CreateReminds, InsertReminds
<1>6. CASE cancel_header(u) \/ cancel_unvouchered_pay_note(u) \/ delete_reminder(u)
  BY <1>6, HeaderReminds, CancelReminds, ForgetReminds
<1>7. CASE update_pay_note(u) \/ create_voucher(u) \/ Raise(u) \/ Die(u)
  BY <1>7, PayReminds, RaiseReminds
<1> QED
  BY <1>1, <1>2, <1>3, <1>4, <1>5, <1>6, <1>7 DEF Step

LEMMA RemindNext ==
  ASSUME IInv, OneAtATime, BooksInv, RemindInv, [Next]_vars
  PROVE  RemindInv'
<1>1. CASE UNCHANGED vars
  <2>1. /\ pvmas' = pvmas /\ reminder' = reminder /\ job' = job /\ alone' = alone
        /\ astray' = astray
    BY <1>1 DEF vars, kss, ghosts
  <2>2. \A n \in Notes : Live(n)' = Live(n) /\ (Waits(n)' <=> Waits(n))
    BY <2>1 DEF Waits, open_unvouchered_note_exists, Live, Named, Rows
  <2>3. Reminded => Reminded'
    BY <2>1, <2>2 DEF Reminded, TakingBack, At
  <2>4. ASSUME NEW u \in Users, RemindJob(job[u])
        PROVE  RemindJob(job[u])'
    BY <2>1, <2>4 DEF RemindJob, TakingBack, Waits, open_unvouchered_note_exists, Live, Named, Rows
  <2> QED
    BY <2>1, <2>3, <2>4 DEF RemindInv
<1> QED
  BY <1>1, Steps, RemindStep

LEMMA RemindInit == Init => RemindInv
<1> SUFFICES ASSUME Init PROVE RemindInv
  OBVIOUS
<1>1. Rows = {} /\ reminder = {}
  BY DEF Init, Rows
<1>2. \A u \in Users : job[u].pc = "idle"
  BY IdleFacts DEF Init
<1>3. Reminded
  BY <1>1 DEF Reminded, Waits, open_unvouchered_note_exists, Live, Named
<1>4. \A u \in Users : RemindJob(job[u])
  BY <1>2 DEF RemindJob, TakingBack
<1> QED
  BY <1>3, <1>4 DEF RemindInv

\* As long as requests come one after another and end: a note that waits for payment has
\* its reminder and a reminder has its note, also when the reminder was refused and the
\* note taken back (api_create_note, recover_note, cancel_unvouchered_pay_note).
THEOREM RemindersAgree == Spec => []LiveHasReminder
<1>1. Init => IInv /\ OneAtATime /\ BooksInv /\ RemindInv
  BY InitInv, BooksInit, RemindInit
<1>2. IInv /\ OneAtATime /\ BooksInv /\ RemindInv /\ [Next]_vars
        => (IInv /\ OneAtATime /\ BooksInv /\ RemindInv)'
  BY NextInv, OneAtATimeStep, BooksNext, RemindNext
<1>3. RemindInv => LiveHasReminder
  BY DEF RemindInv, Reminded, LiveHasReminder, TakingBack, Waits, At
<1> QED
  BY <1>1, <1>2, <1>3, PTL DEF Spec
=============================================================================
