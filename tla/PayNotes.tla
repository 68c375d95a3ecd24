----------------------------- MODULE PayNotes -----------------------------
(***************************************************************************)
(* The pay notes of one vendor: purchase bills gathered on a note, paid by *)
(* a voucher or let go again (app/routers/pay_notes.py and                 *)
(* src/pay_notes/writer.py).  KSS holds the bills, the notes and the       *)
(* payments, Supabase a reminder beside each note; no transaction spans    *)
(* the two, and none of those in KSS locks what it reads.                  *)
(***************************************************************************)
EXTENDS Naturals, Sequences, FiniteSets

CONSTANTS
  Users, Labels, Bills,    \* operators; the numbers on the vendor's papers; its bills
  NoNote,                  \* a bill on no note
  MaxSuffix,               \* the code tries up to 999 suffixes of a label
  Widest,                  \* the last voucher number that its three digits hold: 999
  MaxCalls, MaxTroubles    \* bounds: requests; requests that die and calls that raise

ASSUME PayAssumption ==
  /\ MaxSuffix \in Nat /\ Widest \in Nat /\ MaxCalls \in Nat /\ MaxTroubles \in Nat
  /\ NoNote \notin Labels \X (0..MaxSuffix)

Notes == Labels \X (0..MaxSuffix)   \* NOTENO: a label, or label_1, label_2 ...
Bare(l) == <<l, 0>>

VARIABLES
  pimas,     \* PIMAS: the note, the voucher and PAID of each bill
  pvmas,     \* PVMAS: the notes, in the order they were inserted
  bpdet,     \* BPDET: the payments.  An amount is the set of the bills it is the sum of.
  reminder,  \* pay_note.reminder: the notes that have one
  job,       \* the request each operator has under way
  calls, troubles,
  alone,     \* no two requests have been under way at once
  astray     \* a request died, or ended without undoing or finishing what it had begun

kss == <<pimas, pvmas, bpdet>>
ghosts == <<alone, astray>>
vars == <<kss, reminder, job, calls, troubles, ghosts>>

Free == [noteno |-> NoNote, voucno |-> 0, paid |-> FALSE]
\* read: the bills of the note as an edit read them, or the amount a voucher pays.
Idle == [pc |-> "idle", note |-> NoNote, bills |-> {}, row |-> 0, read |-> {}, discount |-> {},
         voucno |-> 0, recovered |-> FALSE, cancelling |-> FALSE]
Rows == DOMAIN pvmas

Init ==
  /\ pimas = [b \in Bills |-> Free] /\ pvmas = <<>> /\ bpdet = {} /\ reminder = {}
  /\ job = [u \in Users |-> Idle] /\ calls = 0 /\ troubles = 0
  /\ alone = TRUE /\ astray = FALSE

At(u, pc) == job[u].pc = pc
Goto(u, pc) == job' = [job EXCEPT ![u].pc = pc]
Done(u) == job' = [job EXCEPT ![u] = Idle]

\* The rows a SELECT TOP 1 on a note may come upon.
Named(n) == {i \in Rows : pvmas[i].noteno = n}
Live(n) == {i \in Named(n) : ~pvmas[i].canceled}
open_unvouchered_note_exists(n) == \E i \in Live(n) : ~pvmas[i].vouced
Stamped(n) == {b \in Bills : pimas[b].noteno = n}
Unpaid(b) == pimas[b].voucno = 0 /\ ~pimas[b].paid
\* Mutant: only the open notes are asked.
open_label_in_use(n) == open_unvouchered_note_exists(n)
noteno_label_in_use(n) == Live(n) # {} \/ Stamped(n) # {}

\* A request comes in.  (Bound: MaxCalls of them.)
Request(u, j) ==
  /\ At(u, "idle") /\ calls < MaxCalls /\ calls' = calls + 1
  /\ job' = [job EXCEPT ![u] = j]
  /\ alone' = (alone /\ \A v \in Users : At(v, "idle"))
  /\ UNCHANGED <<kss, reminder, troubles, astray>>
Quiet == UNCHANGED <<calls, troubles, ghosts>>
Trouble == troubles < MaxTroubles /\ troubles' = troubles + 1

(***************************************************************************)
(* A new note: its header and the stamps of its bills, then the reminder.  *)
(***************************************************************************)
\* An open note of that label may be one whose reminder was never written.
api_create_note(u, l, bills) ==
  Request(u, [Idle EXCEPT !.note = Bare(l), !.bills = bills,
     !.pc = IF open_unvouchered_note_exists(Bare(l)) THEN "recover" ELSE "resolve"])

recover_note(u) ==
  /\ At(u, "recover")
  /\ IF job[u].note \in reminder \/ Live(job[u].note) = {} THEN Done(u)
     ELSE job' = [job EXCEPT ![u].pc = "remind", ![u].recovered = TRUE]
  /\ Quiet /\ UNCHANGED <<kss, reminder>>

resolve_stored_noteno(u) ==
  /\ At(u, "resolve")
  /\ LET l == job[u].note[1]
         unused == {k \in 0..MaxSuffix : ~noteno_label_in_use(<<l, k>>)} IN
     IF open_unvouchered_note_exists(Bare(l)) \/ unused = {} THEN Done(u)
     ELSE \E k \in unused :
            /\ \A i \in unused : k <= i
            /\ job' = [job EXCEPT ![u].note = <<l, k>>, ![u].pc = "fetch"]
  /\ Quiet /\ UNCHANGED <<kss, reminder>>

fetch_bills_for_note(u) ==
  /\ At(u, "fetch")
  /\ IF \A b \in job[u].bills : Unpaid(b) /\ pimas[b].noteno = NoNote
     THEN Goto(u, "insert") ELSE Done(u)
  /\ Quiet /\ UNCHANGED <<kss, reminder>>

\* Mutant: the UPDATE does not ask again.
stamp_unasked(note, bills, from) ==
  [b \in Bills |-> IF b \in bills THEN [pimas[b] EXCEPT !.noteno = note] ELSE pimas[b]]
\* Each UPDATE of PIMAS asks again whether the bill is free; nobody asks how many were.
Stamp(note, bills, from) ==
  [b \in Bills |-> IF b \in bills /\ Unpaid(b) /\ pimas[b].noteno \in from
                   THEN [pimas[b] EXCEPT !.noteno = note] ELSE pimas[b]]

create_pay_note(u) ==
  /\ At(u, "insert")
  /\ pvmas' = Append(pvmas, [noteno |-> job[u].note, billamt |-> job[u].bills,
                             netamt |-> {}, voucno |-> 0, vouced |-> FALSE, canceled |-> FALSE])
  /\ pimas' = Stamp(job[u].note, job[u].bills, {NoNote})
  /\ Goto(u, "remind") /\ Quiet /\ UNCHANGED <<bpdet, reminder>>

\* Mutant: the note is left as it is.
give_up_at_once(u) == Done(u)
\* What is left to do when a new note cannot have its reminder.
GiveUp(u) == IF job[u].recovered THEN Done(u) ELSE Goto(u, "header")

\* The discount is larger than the note.
refuse_discount(u) ==
  /\ At(u, "remind") /\ GiveUp(u) /\ Quiet /\ UNCHANGED <<kss, reminder>>

\* A date that cannot be read raises where nothing is caught: the note is left as it is.
unreadable_date(u) ==
  /\ At(u, "remind") /\ Done(u) /\ astray' = TRUE
  /\ UNCHANGED <<kss, reminder, calls, troubles, alone>>

insert_reminder(u) ==
  /\ At(u, "remind")
  /\ \/ /\ job[u].note \notin reminder
        /\ reminder' = reminder \cup {job[u].note} /\ Done(u) /\ Quiet
     \/ /\ job[u].note \in reminder   \* its primary key
        /\ GiveUp(u) /\ Quiet /\ UNCHANGED reminder
     \/ /\ Trouble /\ GiveUp(u) /\ UNCHANGED <<reminder, calls, ghosts>>
     \/ /\ Trouble /\ GiveUp(u)       \* written, and the answer is lost
        /\ reminder' = reminder \cup {job[u].note} /\ astray' = TRUE
        /\ UNCHANGED <<calls, alone>>
  /\ UNCHANGED kss

(***************************************************************************)
(* Letting a note go: at the operator's word, or because its reminder was  *)
(* not written.                                                            *)
(***************************************************************************)
api_cancel_note(u, n) ==
  \/ \E i \in Live(n) : ~pvmas[i].vouced
                        /\ Request(u, [Idle EXCEPT !.pc = "header", !.note = n, !.cancelling = TRUE])
  \/ Live(n) = {} /\ n \in reminder
     /\ Request(u, [Idle EXCEPT !.pc = "forget", !.note = n, !.cancelling = TRUE])

AfterCancel(u) == IF job[u].cancelling THEN Goto(u, "forget") ELSE Done(u)

\* The header is looked for among the canceled ones too: a label may be used again.
cancel_header(u) ==
  /\ At(u, "header")
  /\ \/ Named(job[u].note) = {} /\ AfterCancel(u)
     \/ \E i \in Named(job[u].note) :
          IF pvmas[i].vouced THEN Done(u)
          ELSE IF pvmas[i].canceled THEN AfterCancel(u)
          ELSE job' = [job EXCEPT ![u].pc = "cancel", ![u].row = i]
  /\ Quiet /\ UNCHANGED <<kss, reminder>>

\* Mutant: the UPDATE of the header without its guard.
cancel_unguarded(u) ==
  /\ At(u, "cancel")
  /\ pimas' = [b \in Bills |-> IF b \in Stamped(job[u].note) /\ pimas[b].voucno = 0
                               THEN [pimas[b] EXCEPT !.noteno = NoNote] ELSE pimas[b]]
  /\ pvmas' = [pvmas EXCEPT ![job[u].row].canceled = TRUE]
  /\ AfterCancel(u) /\ Quiet /\ UNCHANGED <<bpdet, reminder>>

cancel_unvouchered_pay_note(u) ==
  /\ At(u, "cancel")
  /\ pimas' = [b \in Bills |-> IF b \in Stamped(job[u].note) /\ pimas[b].voucno = 0
                               THEN [pimas[b] EXCEPT !.noteno = NoNote] ELSE pimas[b]]
  /\ pvmas' = [pvmas EXCEPT ![job[u].row].canceled = @ \/ ~pvmas[job[u].row].vouced]
  /\ AfterCancel(u) /\ Quiet /\ UNCHANGED <<bpdet, reminder>>

delete_reminder(u) ==
  /\ At(u, "forget")
  /\ reminder' = reminder \ {job[u].note}
  /\ Done(u) /\ Quiet /\ UNCHANGED kss

(***************************************************************************)
(* Other bills on an open note.                                            *)
(***************************************************************************)
api_update_note(u, n, bills) ==
  /\ n \in reminder /\ \E i \in Live(n) : ~pvmas[i].vouced
  /\ Request(u, [Idle EXCEPT !.pc = "find", !.note = n, !.bills = bills])

update_header(u) ==
  /\ At(u, "find")
  /\ \/ Live(job[u].note) = {} /\ Done(u)
     \/ \E i \in Live(job[u].note) :
          IF pvmas[i].vouced THEN Done(u)
          ELSE job' = [job EXCEPT ![u].pc = "list", ![u].row = i]
  /\ Quiet /\ UNCHANGED <<kss, reminder>>

list_note_bills(u) ==
  /\ At(u, "list")
  /\ IF \A b \in job[u].bills : Unpaid(b) /\ pimas[b].noteno \in {NoNote, job[u].note}
     THEN job' = [job EXCEPT ![u].pc = "update",
                  ![u].read = {b \in Stamped(job[u].note) : Unpaid(b)}]
     ELSE Done(u)
  /\ Quiet /\ UNCHANGED <<kss, reminder>>

update_pay_note(u) ==
  /\ At(u, "update")
  /\ LET n == job[u].note
         drop == {b \in job[u].read \ job[u].bills : pimas[b].noteno = n /\ Unpaid(b)} IN
     pimas' = [b \in Bills |-> IF b \in drop THEN Free
                               ELSE Stamp(n, job[u].bills \ job[u].read, {NoNote, n})[b]]
  /\ pvmas' = [pvmas EXCEPT ![job[u].row].billamt = IF pvmas[job[u].row].vouced THEN @
                                                    ELSE job[u].bills]
  /\ Done(u) /\ Quiet /\ UNCHANGED <<bpdet, reminder>>

(***************************************************************************)
(* The payment.                                                            *)
(***************************************************************************)
\* The operator pays what the note comes to less its discount, or a part of it; the code
\* refuses more, and refuses nothing unless nothing is due.
api_create_voucher(u, n) ==
  /\ n \in reminder
  /\ \E i \in Live(n) : \E discount \in SUBSET pvmas[i].billamt :
       \E amount \in SUBSET (pvmas[i].billamt \ discount) :
         /\ amount = {} => discount = pvmas[i].billamt
         /\ Request(u, [Idle EXCEPT !.pc = "pay", !.note = n, !.read = amount,
                                    !.discount = discount])

\* MAX(VOUCNO) plus one, of strings: a number with more digits than the others sorts before
\* them, so that the number after Widest is given again and again.
Unissued == {v \in 1..Widest + 1 :
  /\ \A i \in Rows : pvmas[i].voucno <= Widest => pvmas[i].voucno < v
  /\ v = 1 \/ \E i \in Rows : pvmas[i].voucno = v - 1}

\* The header again, and MAX + 1, in the transaction that writes.  By now the discount may
\* be more than the note, and a note that nothing was due on may come to something.
next_voucno(u) ==
  /\ At(u, "pay")
  /\ \/ Live(job[u].note) = {} /\ Done(u)
     \/ \E i \in Live(job[u].note) :
          LET net == pvmas[i].billamt \ job[u].discount IN
          IF pvmas[i].vouced \/ ~(job[u].discount \subseteq pvmas[i].billamt)
             \/ (job[u].read = {} /\ net # {}) THEN Done(u)
          ELSE \E v \in Unissued :
                 job' = [job EXCEPT ![u].pc = "voucher", ![u].row = i,
                                    ![u].bills = pvmas[i].billamt, ![u].voucno = v]
  /\ Quiet /\ UNCHANGED <<kss, reminder>>

\* A payment of nothing has no line in BPDET.
create_voucher(u) ==
  /\ At(u, "voucher")
  /\ LET v == job[u].voucno IN
     /\ pvmas' = [pvmas EXCEPT ![job[u].row].vouced = TRUE, ![job[u].row].voucno = v,
                               ![job[u].row].netamt = job[u].bills \ job[u].discount]
     /\ pimas' = [b \in Bills |-> IF b \in Stamped(job[u].note)
                  THEN [pimas[b] EXCEPT !.voucno = v, !.paid = TRUE] ELSE pimas[b]]
     /\ bpdet' = IF job[u].read = {} THEN bpdet
                 ELSE bpdet \cup {[voucno |-> v, chkamt |-> job[u].read]}
  /\ Done(u) /\ Quiet /\ UNCHANGED reminder

(***************************************************************************)
(* What can go wrong.                                                      *)
(***************************************************************************)
\* A call to KSS or to Supabase raises: its transaction is rolled back, the request ends.
\* The exception of a rollback is swallowed.
Raise(u) ==
  /\ job[u].pc \notin {"idle", "remind"} /\ Trouble
  /\ astray' = (astray \/ At(u, "forget")
                \/ (job[u].pc \in {"header", "cancel"} /\ ~job[u].cancelling))
  /\ Done(u) /\ UNCHANGED <<kss, reminder, calls, alone>>

Die(u) ==
  /\ ~At(u, "idle") /\ Trouble /\ astray' = TRUE
  /\ Done(u) /\ UNCHANGED <<kss, reminder, calls, alone>>

Next ==
  \E u \in Users :
    \/ \E l \in Labels, bills \in (SUBSET Bills) \ {{}} : api_create_note(u, l, bills)
    \/ recover_note(u) \/ resolve_stored_noteno(u) \/ fetch_bills_for_note(u)
    \/ create_pay_note(u) \/ refuse_discount(u) \/ unreadable_date(u)
    \/ insert_reminder(u)
    \/ \E n \in Notes : api_cancel_note(u, n) \/ api_create_voucher(u, n)
    \/ cancel_header(u) \/ cancel_unvouchered_pay_note(u) \/ delete_reminder(u)
    \/ \E n \in Notes, bills \in (SUBSET Bills) \ {{}} : api_update_note(u, n, bills)
    \/ update_header(u) \/ list_note_bills(u) \/ update_pay_note(u)
    \/ next_voucno(u) \/ create_voucher(u)
    \/ Raise(u) \/ Die(u)

Spec == Init /\ [][Next]_vars

(***************************************************************************)
(* Properties.                                                             *)
(***************************************************************************)
\* However requests overlap: a paid bill stays paid and on its note, and the note a
\* voucher was made of is never canceled and keeps its amount.  Edits and cancels act on
\* what they read before the payment; the guards of their UPDATEs are what keeps it.
PaidStays ==
  [][/\ \A b \in Bills : pimas[b].paid => pimas'[b].paid /\ pimas'[b].noteno = pimas[b].noteno
     /\ \A i \in Rows : pvmas[i].vouced /\ ~pvmas[i].canceled
          => pvmas'[i].vouced /\ ~pvmas'[i].canceled /\ pvmas'[i].billamt = pvmas[i].billamt]_vars

\* However requests overlap: a paid bill carries the number of a voucher that was made of
\* a note of its name, and money was paid under that number if anything was due.
PaidHasVoucher ==
  \A b \in Bills : pimas[b].paid =>
    \E i \in Named(pimas[b].noteno) :
      /\ pvmas[i].vouced /\ pvmas[i].voucno = pimas[b].voucno
      /\ pvmas[i].netamt # {} => \E line \in bpdet : line.voucno = pimas[b].voucno

\* The payments under a voucher's number: one of no more than is due, none of nothing.
PaysOnce(row) ==
  LET lines == {line \in bpdet : line.voucno = row.voucno} IN
  IF row.netamt = {} THEN lines = {}
  ELSE \E amount \in (SUBSET row.netamt) \ {{}} : lines = {[voucno |-> row.voucno, chkamt |-> amount]}

\* As long as requests come one after another, whichever of them die: no two live notes
\* have one name; a note comes to its bills, no more and no fewer; a bill is on no canceled
\* note; and as long as the numbers have digits, a voucher pays its bills, all of them and
\* once, under a number of its own.
NotesAgree ==
  alone =>
    /\ \A n \in Notes : Cardinality(Live(n)) <= 1
    /\ \A i \in Rows : ~pvmas[i].canceled =>
         /\ Stamped(pvmas[i].noteno) = pvmas[i].billamt
         /\ pvmas[i].vouced => pvmas[i].netamt \subseteq pvmas[i].billamt
         /\ pvmas[i].vouced /\ pvmas[i].voucno <= Widest =>
              /\ {b \in Bills : pimas[b].voucno = pvmas[i].voucno} = pvmas[i].billamt
              /\ PaysOnce(pvmas[i])
    /\ \A b \in Bills : pimas[b].noteno # NoNote => Live(pimas[b].noteno) # {}

\* As long as requests come one after another and end: a note waiting for payment has its
\* reminder, and a reminder has its note, also when the reminder was refused and the note
\* taken back.  Not so for a name that was canceled before: the canceled row may be found
\* in place of the live one.
LiveHasReminder ==
  alone /\ ~astray /\ (\A u \in Users : At(u, "idle")) =>
    \A n \in Notes :
      /\ open_unvouchered_note_exists(n) /\ Live(n) = Named(n) => n \in reminder
      /\ n \in reminder => Live(n) # {}
=============================================================================
