------------------------- MODULE StockCheck_proofs -------------------------
(***************************************************************************)
(* What holds of StockCheck for every set of handlers, people, products    *)
(* and drafts.  However handlers overlap and die, drafts are closed the    *)
(* way they should be; while handlers run one after another, one session   *)
(* holds a product, a draft is counted once and stock is what the bills    *)
(* sum to.                                                                 *)
(***************************************************************************)
EXTENDS StockCheck, SequenceTheorems, TLAPS

USE StockAssumption

----------------------------------------------------------------------------
\* The inductive invariant.  Quantities are left untyped: they decide nothing here.

IsRow(r) ==
  r \in [b : {r.b}, op : {r.op}, appr : {r.appr}, status : {r.status}, counted : {r.counted},
        sys : {r.sys}, var : {r.var}, edited : {r.edited}, made : {r.made},
        updated : {r.updated}]
IsJob(j) ==
  j \in [pc : {j.pc}, s : {j.s}, b : {j.b}, d : {j.d}, picked : {j.picked}, seen : {j.seen},
        counted : {j.counted}, sys : {j.sys}, var : {j.var}, odd : {j.odd}]
IsList(l) == \E S : l \in Seq(S)

\* Handlers that read a draft as its auditor, and as its operator.
Auditing == {"reject.reason", "reject.write", "approve.complete", "approve.begin",
             "approve.post", "approve.write"}
Owning == {"edit.write", "recount.write", "withdraw.write"}

Shape ==
  /\ who \in [Sessions -> People \cup {Nobody}]
  /\ live \subseteq Sessions /\ \A s \in live : who[s] # Nobody
  /\ draft = [d \in Drafts |-> draft[d]] /\ \A d \in Drafts : IsRow(draft[d])
  /\ bills = [d \in Drafts |-> bills[d]] /\ \A d \in Drafts : IsList(bills[d])
  /\ job = [t \in Threads |-> job[t]] /\ \A t \in Threads : IsJob(job[t])

\* An auditor is somebody else than the operator of the draft, and stays so; the bill and
\* the reason come before the status.
JobOK(j) ==
  /\ j.pc \in Auditing \cup Owning => j.d \in Drafts /\ draft[j.d].status # "none"
  /\ j.pc \in Auditing => /\ j.s \in Sessions /\ who[j.s] # Nobody
                          /\ who[j.s] # draft[j.d].op
  /\ j.pc = "approve.write" => bills[j.d] # <<>>
  /\ j.pc = "reject.write" => j.d \in rejected

RowOK(d) ==
  /\ draft[d].status \in {"posted", "completed_unexplained", "recheck"}
       => draft[d].appr \in People \ {draft[d].op}
  /\ draft[d].status = "posted" => bills[d] # <<>>
  /\ draft[d].status = "recheck" => d \in rejected

JobsOK == \A t \in Threads : JobOK(job[t])
RowsOK == \A d \in Drafts : RowOK(d)

IInv == Shape /\ JobsOK /\ RowsOK

----------------------------------------------------------------------------
\* The pieces of state.

LEMMA IdleFacts == IsJob(Idle) /\ Idle.pc = "idle"
BY DEF Idle, IsJob

LEMMA IdleOK == JobOK(Idle)
BY IdleFacts DEF JobOK, Auditing, Owning

LEMMA AppendFacts ==
  ASSUME NEW l, IsList(l), NEW e
  PROVE  IsList(Append(l, e)) /\ Append(l, e) # <<>>
<1>1. PICK S : l \in Seq(S)
  BY DEF IsList
<1>2. l \in Seq(S \cup {e}) /\ e \in S \cup {e}
  BY <1>1
<1>3. Append(l, e) \in Seq(S \cup {e}) /\ Append(l, e) # <<>>
  BY <1>2, AppendProperties
<1> QED
  BY <1>3 DEF IsList

LEMMA InitInv == Init => IInv
<1> SUFFICES ASSUME Init PROVE IInv
  OBVIOUS
<1>1. \A d \in Drafts : bills[d] = <<>> /\ draft[d] = NoRow
  BY DEF Init
<1>2. \A d \in Drafts : IsList(bills[d]) /\ IsRow(draft[d]) /\ draft[d].status = "none"
  <2>1. IsList(<<>>)
    <3>1. <<>> \in Seq({})
      BY EmptySeq
    <3> QED
      BY <3>1 DEF IsList
  <2>2. IsRow(NoRow) /\ NoRow.status = "none"
    BY DEF IsRow, NoRow
  <2> QED
    BY <1>1, <2>1, <2>2
<1>3. Shape
  BY <1>2, IdleFacts DEF Init, Shape
<1>4. JobsOK
  BY IdleOK DEF Init, JobsOK
<1>5. RowsOK
  BY <1>2 DEF RowsOK, RowOK
<1> QED
  BY <1>3, <1>4, <1>5 DEF IInv

\* What no step takes back.
Onward ==
  /\ \A d \in Drafts : draft[d].status # "none" =>
       draft'[d].status # "none" /\ draft'[d].op = draft[d].op
  /\ \A d \in Drafts : bills[d] # <<>> => bills'[d] # <<>>
  /\ \A s \in Sessions : who[s] # Nobody => who'[s] = who[s]
  /\ rejected \subseteq rejected'

LEMMA JobStays ==
  ASSUME IInv, Onward, NEW j, JobOK(j)
  PROVE  JobOK(j)'
BY DEF JobOK, Onward, Auditing, Owning

\* What is to be shown of a step of t that leaves it with the job j.
LEMMA StepInv ==
  ASSUME IInv, Onward, NEW t \in Threads, NEW j, IsJob(j), JobOK(j)',
         job' = [job EXCEPT ![t] = j], RowsOK', UNCHANGED <<who, live>>,
         draft' = [d \in Drafts |-> draft'[d]], \A d \in Drafts : IsRow(draft'[d]),
         bills' = [d \in Drafts |-> bills'[d]], \A d \in Drafts : IsList(bills'[d])
  PROVE  IInv'
<1>1. job = [u \in Threads |-> job[u]] /\ \A u \in Threads : IsJob(job[u]) /\ JobOK(job[u])
  BY DEF IInv, Shape, JobsOK
<1>2. /\ job' = [u \in Threads |-> job'[u]] /\ job'[t] = j
      /\ \A u \in Threads \ {t} : job'[u] = job[u]
  BY <1>1
<1>3. Shape'
  BY <1>1, <1>2 DEF IInv, Shape
<1>4. JobsOK'
  <2> SUFFICES ASSUME NEW u \in Threads PROVE JobOK(job[u])'
    BY DEF JobsOK
  <2>1. CASE u = t
    BY <1>2, <2>1 DEF JobOK
  <2>2. CASE u # t
    <3>1. PICK k : k = job[u] /\ k = job'[u] /\ JobOK(k)
      BY <1>1, <1>2, <2>2
    <3>2. JobOK(k)'
      BY <3>1, JobStays
    <3> QED
      BY <3>1, <3>2 DEF JobOK
  <2> QED
    BY <2>1, <2>2
<1> QED
  BY <1>3, <1>4 DEF IInv

\* A step of t that touches neither the drafts nor their bills.
LEMMA QuietInv ==
  ASSUME IInv, NEW t \in Threads, NEW j, IsJob(j), JobOK(j), job' = [job EXCEPT ![t] = j],
         UNCHANGED <<who, live, draft, rejected, bills>>
  PROVE  IInv'
<1>1. Onward
  BY DEF Onward
<1>2. JobOK(j)' /\ RowsOK'
  BY DEF JobOK, IInv, RowsOK, RowOK
<1>3. /\ draft' = [d \in Drafts |-> draft'[d]] /\ \A d \in Drafts : IsRow(draft'[d])
      /\ bills' = [d \in Drafts |-> bills'[d]] /\ \A d \in Drafts : IsList(bills'[d])
  BY DEF IInv, Shape
<1> QED
  BY <1>1, <1>2, <1>3, StepInv

----------------------------------------------------------------------------
\* The control of a handler.

LEMMA Current ==
  ASSUME IInv, NEW t \in Threads
  PROVE  IsJob(job[t]) /\ JobOK(job[t])
BY DEF IInv, Shape, JobsOK

LEMMA GotoFacts ==
  ASSUME IInv, NEW t \in Threads, NEW pc, Goto(t, pc)
  PROVE  \E j : /\ IsJob(j) /\ job' = [job EXCEPT ![t] = j]
                /\ j.pc = pc /\ j.d = job[t].d /\ j.s = job[t].s
<1>1. PICK j : j = [job[t] EXCEPT !.pc = pc]
  OBVIOUS
<1>2. IsJob(j) /\ j.pc = pc /\ j.d = job[t].d /\ j.s = job[t].s
  BY <1>1, Current DEF IsJob
<1>3. job' = [job EXCEPT ![t] = j]
  BY <1>1 DEF Goto
<1> QED
  BY <1>2, <1>3

\* Handlers that neither audit nor own a draft.
LEMMA OtherInv ==
  ASSUME IInv, NEW t \in Threads, NEW j, IsJob(j), job' = [job EXCEPT ![t] = j],
         j.pc \notin Auditing \cup Owning, UNCHANGED <<who, live, draft, rejected, bills>>
  PROVE  IInv'
<1>1. JobOK(j)
  BY DEF JobOK, Auditing
<1> QED
  BY <1>1, QuietInv

LEMMA ReturnInv ==
  ASSUME IInv, NEW t \in Threads, Return(t), UNCHANGED <<who, live, draft, rejected, bills>>
  PROVE  IInv'
BY IdleFacts, IdleOK, QuietInv DEF Return, Go

----------------------------------------------------------------------------
\* Handlers and requests that leave the drafts alone.

\* A handler goes on at a point where it neither audits nor owns a draft.
LEMMA GoInv ==
  ASSUME IInv, NEW t \in Threads, NEW j, IsJob(j), Go(t, j), j.pc \notin Auditing \cup Owning,
         UNCHANGED <<who, live, draft, rejected, bills>>
  PROVE  IInv'
BY OtherInv DEF Go

LEMMA LeaseInv ==
  ASSUME IInv, NEW t \in Threads,
         TakeHeld(t) \/ claim_leases(t) \/ SyncRead(t) \/ SyncWrite(t) \/ SubmitDone(t)
         \/ _enqueue_mirror(t) \/ Crash(t)
  PROVE  IInv'
<1>1. PICK k : k = job[t] /\ IsJob(k)
  BY Current
<1>2. UNCHANGED <<who, live, draft, rejected, bills>>
  BY DEF TakeHeld, claim_leases, SyncRead, SyncWrite, SubmitDone, _enqueue_mirror, Crash,
         local, parts9
<1>3. CASE Return(t)
  BY <1>2, <1>3, ReturnInv
<1>4. ASSUME NEW pc \in {"take.claim", "sync.read"}, NEW picked,
             Go(t, [k EXCEPT !.pc = pc, !.picked = picked])
      PROVE  IInv'
  <2>1. PICK j : j = [k EXCEPT !.pc = pc, !.picked = picked]
    OBVIOUS
  <2>2. IsJob(j) /\ j.pc = pc
    BY <1>1, <2>1 DEF IsJob
  <2> QED
    BY <1>2, <1>4, <2>1, <2>2, GoInv DEF Auditing, Owning
<1>5. CASE SyncRead(t)
  <2>1. PICK j : j = [k EXCEPT !.pc = "sync.write", !.seen = [b \in Products |-> Ledger(b)]]
    OBVIOUS
  <2>2. IsJob(j) /\ j.pc = "sync.write"
    BY <1>1, <2>1 DEF IsJob
  <2>3. Go(t, j)
    BY <1>1, <1>5, <2>1 DEF SyncRead
  <2> QED
    BY <1>2, <2>2, <2>3, GoInv DEF Auditing, Owning
<1>6. CASE Goto(t, "audit")
  BY <1>2, <1>6, GotoFacts, OtherInv DEF Auditing, Owning
<1>7. CASE TakeHeld(t)
  <2>1. Go(t, [k EXCEPT !.pc = "take.claim", !.picked = k.picked \ active_leased_bcodes(lease)])
    BY <1>1, <1>7 DEF TakeHeld
  <2> QED
    BY <1>4, <2>1
<1>8. CASE claim_leases(t)
  <2>1. \/ Return(t)
        \/ \E claimed : Go(t, [k EXCEPT !.pc = "sync.read", !.picked = claimed])
    BY <1>1, <1>8 DEF claim_leases
  <2> QED
    BY <1>3, <1>4, <2>1
<1>9. CASE SyncWrite(t) \/ SubmitDone(t) \/ _enqueue_mirror(t) \/ Crash(t)
  BY <1>3, <1>6, <1>9 DEF SyncWrite, SubmitDone, _enqueue_mirror, Crash
<1> QED
  BY <1>5, <1>7, <1>8, <1>9

\* Requests that only look at leases and stock.
LEMMA LookInv ==
  ASSUME IInv, NEW t \in Threads, NEW s \in Sessions,
         \/ \E picked \in SUBSET Products : TakeRead(t, s, picked)
         \/ \E b \in Products : lookup(t, s, b)
         \/ \E b \in Products, n \in Counts : SubmitRead(t, s, b, n)
  PROVE  IInv'
<1>1. UNCHANGED <<who, live, draft, rejected, bills>>
  BY DEF TakeRead, lookup, SubmitRead, parts9
<1>2. ASSUME NEW pc \in {"take.held", "sync.read"}, NEW picked,
             Go(t, [Idle EXCEPT !.pc = pc, !.s = s, !.picked = picked])
      PROVE  IInv'
  <2>1. PICK j : j = [Idle EXCEPT !.pc = pc, !.s = s, !.picked = picked]
    OBVIOUS
  <2>2. IsJob(j) /\ j.pc = pc
    BY <2>1, IdleFacts DEF IsJob, Idle
  <2> QED
    BY <1>1, <1>2, <2>1, <2>2, GoInv DEF Auditing, Owning
<1>3. ASSUME NEW b, NEW n,
             Go(t, [Idle EXCEPT !.pc = "submit.draft", !.s = s, !.b = b,
                                !.seen = onhand, !.counted = n])
      PROVE  IInv'
  <2>1. PICK j : j = [Idle EXCEPT !.pc = "submit.draft", !.s = s, !.b = b,
                                  !.seen = onhand, !.counted = n]
    OBVIOUS
  <2>2. IsJob(j) /\ j.pc = "submit.draft"
    BY <2>1, IdleFacts DEF IsJob, Idle
  <2> QED
    BY <1>1, <1>3, <2>1, <2>2, GoInv DEF Auditing, Owning
<1>4. CASE \E picked \in SUBSET Products : TakeRead(t, s, picked)
  BY <1>2, <1>4 DEF TakeRead, Begin
<1>5. CASE \E b \in Products : lookup(t, s, b)
  BY <1>2, <1>5 DEF lookup, Begin
<1>6. CASE \E b \in Products, n \in Counts : SubmitRead(t, s, b, n)
  BY <1>3, <1>6 DEF SubmitRead, Begin
<1> QED
  BY <1>4, <1>5, <1>6

\* A draft is read by its operator, or by somebody else.
LEMMA ReadInv ==
  ASSUME IInv, NEW t \in Threads, NEW s \in Sessions, NEW d \in Drafts, NEW n \in Counts,
         EditRead(t, s, d, n) \/ ResubmitRead(t, s, d, n) \/ WithdrawRead(t, s, d)
         \/ RejectRead(t, s, d)
  PROVE  IInv'
<1>1. UNCHANGED <<who, live, draft, rejected, bills>> /\ draft[d].status # "none"
  BY DEF EditRead, ResubmitRead, WithdrawRead, RejectRead, local, parts9, Open
<1>0. \E count : \E pc \in Owning \cup {"reject.reason"} :
        /\ ReadDraft(t, s, d, pc, count)
        /\ pc = "reject.reason" => Theirs(s, d)
  BY DEF EditRead, ResubmitRead, WithdrawRead, RejectRead, Owning
<1>a. PICK count : \E pc \in Owning \cup {"reject.reason"} :
        /\ ReadDraft(t, s, d, pc, count)
        /\ pc = "reject.reason" => Theirs(s, d)
  BY <1>0
<1>2. PICK pc \in Owning \cup {"reject.reason"} :
        /\ ReadDraft(t, s, d, pc, count)
        /\ pc = "reject.reason" => Theirs(s, d)
  BY <1>a
<1>3. PICK j : j = [Idle EXCEPT !.pc = pc, !.s = s, !.d = d, !.b = draft[d].b,
                                !.seen = onhand, !.counted = count]
  OBVIOUS
<1>4. IsJob(j) /\ j.pc = pc /\ j.s = s /\ j.d = d
  BY <1>3, IdleFacts DEF IsJob, Idle
<1>5. job' = [job EXCEPT ![t] = j]
  BY <1>2, <1>3 DEF ReadDraft, Begin, Go
<1>6. pc = "reject.reason" => who[s] # Nobody /\ who[s] # draft[d].op
  BY <1>2 DEF Theirs, IInv, Shape
<1>7. JobOK(j)
  BY <1>1, <1>2, <1>4, <1>6 DEF JobOK, Owning, Auditing
<1> QED
  BY <1>1, <1>4, <1>5, <1>7, QuietInv

LEMMA ApproveReadInv ==
  ASSUME IInv, NEW t \in Threads, NEW s \in Sessions, NEW d \in Drafts, ApproveRead(t, s, d)
  PROVE  IInv'
<1>1. /\ UNCHANGED <<who, live, draft, rejected, bills>> /\ draft[d].status # "none"
      /\ who[s] # Nobody /\ who[s] # draft[d].op
  BY DEF ApproveRead, local, parts9, Theirs, IInv, Shape
<1> DEFINE done == draft[d].counted = onhand[draft[d].b]
           sys == IF done THEN draft[d].sys ELSE onhand[draft[d].b]
           var == IF done THEN draft[d].var ELSE draft[d].counted - onhand[draft[d].b]
           odd == _analyze_drift(d)
<1>2. PICK pc \in {"approve.complete", "approve.begin"} :
        Go(t, [Idle EXCEPT !.pc = pc, !.s = s, !.d = d, !.b = draft[d].b,
                           !.sys = sys, !.var = var, !.odd = odd])
  BY DEF ApproveRead, Begin
<1> HIDE DEF sys, var, odd
<1>3. PICK j : j = [Idle EXCEPT !.pc = pc, !.s = s, !.d = d, !.b = draft[d].b,
                                !.sys = sys, !.var = var, !.odd = odd]
  OBVIOUS
<1>4. IsJob(j) /\ j.pc = pc /\ j.s = s /\ j.d = d
  BY <1>3, IdleFacts DEF IsJob, Idle
<1>5. job' = [job EXCEPT ![t] = j]
  BY <1>2, <1>3 DEF Go
<1>6. JobOK(j)
  BY <1>1, <1>2, <1>4 DEF JobOK, Auditing
<1> QED
  BY <1>1, <1>4, <1>5, <1>6, QuietInv

\* An auditor goes on.
LEMMA AuditInv ==
  ASSUME IInv, NEW t \in Threads, add_rejection(t) \/ PostBegin(t)
  PROVE  IInv'
<1>1. PICK k : k = job[t] /\ IsJob(k) /\ JobOK(k)
  BY Current
<1>2. CASE add_rejection(t)
  <2>1. PICK j : /\ IsJob(j) /\ job' = [job EXCEPT ![t] = j]
                 /\ j.pc = "reject.write" /\ j.d = k.d /\ j.s = k.s
    BY <1>1, <1>2, GotoFacts DEF add_rejection
  <2>2. k.pc = "reject.reason" /\ rejected' = rejected \cup {k.d}
        /\ UNCHANGED <<who, live, draft, bills>>
    BY <1>1, <1>2 DEF add_rejection, parts9
  <2>3. Onward
    BY <2>2 DEF Onward
  <2>4. JobOK(j)'
    BY <1>1, <2>1, <2>2 DEF JobOK, Auditing
  <2>5. RowsOK'
    BY <2>2 DEF IInv, RowsOK, RowOK
  <2>6. /\ draft' = [d \in Drafts |-> draft'[d]] /\ \A d \in Drafts : IsRow(draft'[d])
        /\ bills' = [d \in Drafts |-> bills'[d]] /\ \A d \in Drafts : IsList(bills'[d])
    BY <2>2 DEF IInv, Shape
  <2> QED
    BY <2>1, <2>2, <2>3, <2>4, <2>5, <2>6, StepInv
<1>3. CASE PostBegin(t)
  <2>1. PICK j : j = [k EXCEPT !.pc = "approve.post", !.seen = onhand]
    OBVIOUS
  <2>2. IsJob(j) /\ j.pc = "approve.post" /\ j.d = k.d /\ j.s = k.s
    BY <1>1, <2>1 DEF IsJob
  <2>3. /\ job' = [job EXCEPT ![t] = j] /\ k.pc = "approve.begin"
        /\ UNCHANGED <<who, live, draft, rejected, bills>>
    BY <1>1, <1>3, <2>1 DEF PostBegin, Go, local, parts9
  <2>4. JobOK(j)
    BY <1>1, <2>2, <2>3 DEF JobOK, Auditing
  <2> QED
    BY <2>2, <2>3, <2>4, QuietInv
<1> QED
  BY <1>2, <1>3

----------------------------------------------------------------------------
\* Writes of a draft.

\* The row r of the draft d is written; t is left with a job that neither audits nor owns.
LEMMA WriteInv ==
  ASSUME IInv, NEW t \in Threads, NEW j, IsJob(j), j.pc \notin Auditing \cup Owning,
         job' = [job EXCEPT ![t] = j],
         NEW d \in Drafts, NEW r, IsRow(r), draft' = [draft EXCEPT ![d] = r],
         r.status # "none", draft[d].status # "none" => r.op = draft[d].op,
         r.status \in {"posted", "completed_unexplained", "recheck"}
           => r.appr \in People \ {r.op},
         r.status = "posted" => bills[d] # <<>>,
         r.status = "recheck" => d \in rejected,
         UNCHANGED <<who, live, rejected, bills>>
  PROVE  IInv'
<1>1. draft = [e \in Drafts |-> draft[e]] /\ \A e \in Drafts : IsRow(draft[e])
  BY DEF IInv, Shape
<1>2. /\ draft' = [e \in Drafts |-> draft'[e]] /\ draft'[d] = r
      /\ \A e \in Drafts \ {d} : draft'[e] = draft[e]
  BY <1>1
<1>3. \A e \in Drafts : IsRow(draft'[e])
  BY <1>1, <1>2
<1>4. Onward
  BY <1>2 DEF Onward
<1>5. JobOK(j)'
  BY DEF JobOK, Auditing
<1>6. RowsOK'
  <2> SUFFICES ASSUME NEW e \in Drafts PROVE RowOK(e)'
    BY DEF RowsOK
  <2>1. RowOK(e)
    BY DEF IInv, RowsOK
  <2>2. CASE e = d
    BY <1>2, <2>2 DEF RowOK
  <2>3. CASE e # d
    BY <1>2, <2>1, <2>3 DEF RowOK
  <2> QED
    BY <2>2, <2>3
<1>7. bills' = [e \in Drafts |-> bills'[e]] /\ \A e \in Drafts : IsList(bills'[e])
  BY DEF IInv, Shape
<1> QED
  BY <1>2, <1>3, <1>4, <1>5, <1>6, <1>7, StepInv

\* The draft of a handler that audits or owns it.
LEMMA HeldRow ==
  ASSUME IInv, NEW t \in Threads, job[t].pc \in Auditing \cup Owning
  PROVE  \E d \in Drafts : \E r :
           /\ d = job[t].d /\ r = draft[d] /\ IsRow(r) /\ r.status # "none" /\ RowOK(d)
           /\ job[t].pc \in Auditing => who[job[t].s] \in People \ {r.op}
BY Current DEF JobOK, IInv, Shape, RowsOK

LEMMA OperatorInv ==
  ASSUME IInv, NEW t \in Threads,
         edit_pending_draft(t) \/ resubmit_recheck(t) \/ _withdraw_draft(t)
  PROVE  IInv'
<1>1. job[t].pc \in Owning /\ job' = [job EXCEPT ![t] = Idle]
      /\ UNCHANGED <<who, live, rejected, bills>>
  BY DEF edit_pending_draft, resubmit_recheck, _withdraw_draft, Owning, Return, Go, parts9
<1>2. PICK d, r : d \in Drafts /\ d = job[t].d /\ r = draft[d] /\ IsRow(r)
                   /\ r.status # "none" /\ RowOK(d)
  BY <1>1, HeldRow
<1>3. draft = [e \in Drafts |-> draft[e]]
  BY DEF IInv, Shape
<1>4. CASE edit_pending_draft(t) \/ resubmit_recheck(t)
  <2>1. PICK w : w = [r EXCEPT !.counted = job[t].counted, !.sys = job[t].seen[job[t].b],
                        !.var = job[t].counted - job[t].seen[job[t].b], !.updated = day]
    OBVIOUS
  <2>2. IsRow(w) /\ w.status = r.status /\ w.op = r.op /\ w.appr = r.appr
    BY <1>2, <2>1 DEF IsRow
  <2>3. Recounted(t) = w
    BY <1>2, <2>1 DEF Recounted
  <2>4. PICK q : /\ draft' = [draft EXCEPT ![d] = q] /\ IsRow(q) /\ q.op = r.op /\ q.appr = r.appr
                 /\ q.status \in {r.status, "pending"}
    <3>1. CASE edit_pending_draft(t)
      <4>1. PICK q : q = [w EXCEPT !.edited = TRUE]
        OBVIOUS
      <4>2. IsRow(q) /\ q.status = r.status /\ q.op = r.op /\ q.appr = r.appr
        BY <2>2, <4>1 DEF IsRow
      <4>3. draft' = [draft EXCEPT ![d] = q]
        BY <1>2, <2>3, <3>1, <4>1 DEF edit_pending_draft
      <4> QED
        BY <4>2, <4>3
    <3>2. CASE resubmit_recheck(t)
      <4>1. PICK q : q = [w EXCEPT !.status = "pending"]
        OBVIOUS
      <4>2. IsRow(q) /\ q.status = "pending" /\ q.op = r.op /\ q.appr = r.appr
        BY <2>2, <4>1 DEF IsRow
      <4>3. draft' = [draft EXCEPT ![d] = q]
        BY <1>2, <2>3, <3>2, <4>1 DEF resubmit_recheck
      <4> QED
        BY <4>2, <4>3
    <3> QED
      BY <1>4, <3>1, <3>2
  <2> QED
    BY <1>1, <1>2, <2>4, IdleFacts, WriteInv DEF RowOK, Auditing, Owning
<1>5. CASE _withdraw_draft(t)
  <2>1. PICK q : q = [r EXCEPT !.status = "rejected", !.appr = who[job[t].s], !.updated = day]
    OBVIOUS
  <2>2. IsRow(q) /\ q.status = "rejected" /\ q.op = r.op
    BY <1>2, <2>1 DEF IsRow
  <2>3. draft' = [draft EXCEPT ![d] = q]
    BY <1>2, <1>3, <1>5, <2>1 DEF _withdraw_draft, IsRow
  <2> QED
    BY <1>1, <1>2, <2>2, <2>3, IdleFacts, WriteInv DEF Auditing, Owning
<1> QED
  BY <1>4, <1>5

\* The writes of an auditor.
LEMMA AuditorInv ==
  ASSUME IInv, NEW t \in Threads,
         reject_draft(t) \/ PostFails(t) \/ ApproveComplete(t) \/ ApprovePosted(t)
  PROVE  IInv'
<1>1. /\ job[t].pc \in {"reject.write", "approve.complete", "approve.begin", "approve.post",
                        "approve.write"}
      /\ UNCHANGED <<who, live, rejected, bills>> /\ (Return(t) \/ Goto(t, "audit"))
  BY DEF reject_draft, PostFails, ApproveComplete, ApprovePosted, parts9
<1>2. PICK d, r :
        /\ d \in Drafts /\ d = job[t].d /\ r = draft[d] /\ IsRow(r) /\ r.status # "none" /\ RowOK(d)
        /\ who[job[t].s] \in People \ {r.op}
  BY <1>1, HeldRow DEF Auditing
<1>3. draft = [e \in Drafts |-> draft[e]]
  BY DEF IInv, Shape
<1>4. PICK j : IsJob(j) /\ job' = [job EXCEPT ![t] = j] /\ j.pc \in {"idle", "audit"}
  <2>1. CASE Return(t)
    BY <2>1, IdleFacts DEF Return, Go
  <2>2. CASE Goto(t, "audit")
    BY <2>2, GotoFacts
  <2> QED
    BY <1>1, <2>1, <2>2
<1>5. j.pc \notin Auditing \cup Owning
  BY <1>4 DEF Auditing, Owning
<1>6. CASE reject_draft(t)
  <2>1. PICK q : q = [r EXCEPT !.status = "recheck", !.appr = who[job[t].s], !.updated = day]
    OBVIOUS
  <2>2. IsRow(q) /\ q.status = "recheck" /\ q.op = r.op /\ q.appr = who[job[t].s]
    BY <1>2, <2>1 DEF IsRow
  <2>3. draft' = [draft EXCEPT ![d] = q]
    BY <1>2, <1>3, <1>6, <2>1 DEF reject_draft, IsRow
  <2>4. d \in rejected
    BY <1>2, <1>6, Current DEF reject_draft, JobOK
  <2> QED
    BY <1>1, <1>2, <1>4, <1>5, <2>2, <2>3, <2>4, WriteInv
<1>7. CASE PostFails(t)
  <2>1. PICK q : q = [r EXCEPT !.updated = day]
    OBVIOUS
  <2>2. IsRow(q) /\ q.status = r.status /\ q.op = r.op /\ q.appr = r.appr
    BY <1>2, <2>1 DEF IsRow
  <2>3. draft' = [draft EXCEPT ![d] = q]
    BY <1>2, <1>3, <1>7, <2>1 DEF PostFails, IsRow
  <2> QED
    BY <1>1, <1>2, <1>4, <1>5, <2>2, <2>3, WriteInv DEF RowOK
<1>8. ASSUME NEW status \in {"completed", "completed_unexplained", "posted"},
             draft' = Closed(t, status), status = "posted" => bills[d] # <<>>
      PROVE  IInv'
  <2>1. PICK q : q = [r EXCEPT !.status = status, !.sys = job[t].sys, !.var = job[t].var,
                               !.appr = who[job[t].s], !.updated = day]
    OBVIOUS
  <2>2. IsRow(q) /\ q.status = status /\ q.op = r.op /\ q.appr = who[job[t].s]
    BY <1>2, <2>1 DEF IsRow
  <2>3. draft' = [draft EXCEPT ![d] = q]
    BY <1>2, <1>3, <1>8, <2>1 DEF Closed, IsRow
  <2> QED
    BY <1>1, <1>2, <1>4, <1>5, <1>8, <2>2, <2>3, WriteInv
<1>9. CASE ApproveComplete(t)
  BY <1>8, <1>9 DEF ApproveComplete
<1>10. CASE ApprovePosted(t)
  <2>1. bills[d] # <<>>
    BY <1>2, <1>10, Current DEF ApprovePosted, JobOK
  <2> QED
    BY <1>8, <1>10, <2>1 DEF ApprovePosted
<1> QED
  BY <1>6, <1>7, <1>9, <1>10

LEMMA CreateInv ==
  ASSUME IInv, NEW t \in Threads, NEW d \in Drafts, create_draft(t, d)
  PROVE  IInv'
<1>1. PICK k : k = job[t] /\ IsJob(k)
  BY Current
<1>2. PICK j : j = [k EXCEPT !.pc = "submit.done", !.d = d]
  OBVIOUS
<1>3. IsJob(j) /\ j.pc = "submit.done"
  BY <1>1, <1>2 DEF IsJob
<1>4. PICK status \in {"completed", "pending"} :
        status = IF k.counted = k.seen[k.b] THEN "completed" ELSE "pending"
  OBVIOUS
<1>5. PICK q : q = [NoRow EXCEPT !.b = k.b, !.op = who[k.s], !.sys = k.seen[k.b],
                      !.counted = k.counted, !.var = k.counted - k.seen[k.b],
                      !.status = status, !.made = day, !.updated = day]
  OBVIOUS
<1>6. /\ IsRow(q) /\ q.status = status /\ q.status \in {"completed", "pending"}
      /\ draft' = [draft EXCEPT ![d] = q]
  <2>1. IsRow(q) /\ q.status = status
    BY <1>5 DEF IsRow, NoRow
  <2>2. draft' = [draft EXCEPT ![d] = q]
    BY <1>1, <1>4, <1>5 DEF create_draft
  <2> QED
    BY <1>4, <2>1, <2>2
<1>7. /\ job' = [job EXCEPT ![t] = j] /\ draft[d].status = "none"
      /\ UNCHANGED <<who, live, rejected, bills>>
  BY <1>1, <1>2 DEF create_draft, Go, parts9
<1> QED
  BY <1>3, <1>4, <1>5, <1>6, <1>7, WriteInv DEF Auditing, Owning

\* The bill is written before the draft is closed.
LEMMA PostInv ==
  ASSUME IInv, NEW t \in Threads, post_stock_adjustment(t)
  PROVE  IInv'
<1>1. PICK k : k = job[t] /\ IsJob(k) /\ JobOK(k)
  BY Current
<1>2. PICK d \in Drafts : k.pc = "approve.post" /\ k.d = d /\ draft[d].status # "none"
  BY <1>1 DEF post_stock_adjustment, JobOK, Auditing
<1>3. PICK j : /\ IsJob(j) /\ job' = [job EXCEPT ![t] = j]
               /\ j.pc = "approve.write" /\ j.d = k.d /\ j.s = k.s
  BY <1>1, GotoFacts DEF post_stock_adjustment
<1>4. PICK l : l = Append(bills[d], k.var)
  OBVIOUS
<1>5. /\ bills' = [bills EXCEPT ![d] = l]
      /\ bills = [e \in Drafts |-> bills[e]] /\ \A e \in Drafts : IsList(bills[e])
      /\ UNCHANGED <<who, live, draft, rejected>>
  BY <1>1, <1>2, <1>4 DEF post_stock_adjustment, IInv, Shape, local
<1>6. IsList(l) /\ l # <<>>
  BY <1>4, <1>5, AppendFacts
<1>7. /\ bills' = [e \in Drafts |-> bills'[e]] /\ bills'[d] = l
      /\ \A e \in Drafts \ {d} : bills'[e] = bills[e]
  BY <1>5
<1>8. Onward
  BY <1>5, <1>6, <1>7 DEF Onward
<1>9. JobOK(j)'
  BY <1>1, <1>2, <1>3, <1>5, <1>6, <1>7 DEF JobOK, Auditing, Owning
<1>10. RowsOK'
  <2> SUFFICES ASSUME NEW e \in Drafts PROVE RowOK(e)'
    BY DEF RowsOK
  <2>1. RowOK(e) /\ (bills[e] # <<>> => bills'[e] # <<>>)
    BY <1>8 DEF IInv, RowsOK, Onward
  <2> QED
    BY <1>5, <2>1 DEF RowOK
<1>11. \A e \in Drafts : IsList(bills'[e])
  BY <1>5, <1>6, <1>7
<1>12. draft' = [e \in Drafts |-> draft'[e]] /\ \A e \in Drafts : IsRow(draft'[e])
  BY <1>5 DEF IInv, Shape
<1> QED
  BY <1>3, <1>5, <1>7, <1>8, <1>9, <1>10, <1>11, <1>12, StepInv

----------------------------------------------------------------------------
\* Every step.

\* Sessions come and go; nobody takes over one that exists.
LEMMA EnvironmentInv ==
  ASSUME IInv, Environment
  PROVE  IInv'
<1>1. UNCHANGED <<draft, rejected, bills, job>>
  BY DEF Environment, create_session, end_session, bump_leases, Lapse, skip_item, NextDay, Bill,
         local, parts9
<1>2. /\ who' \in [Sessions -> People \cup {Nobody}]
      /\ live' \subseteq Sessions /\ \A s \in live' : who'[s] # Nobody
      /\ \A s \in Sessions : who[s] # Nobody => who'[s] = who[s]
  <2>1. who \in [Sessions -> People \cup {Nobody}] /\ live \subseteq Sessions
        /\ \A s \in live : who[s] # Nobody
    BY DEF IInv, Shape
  <2>2. CASE \E p \in People, s \in Sessions : create_session(p, s)
    BY <2>1, <2>2 DEF create_session
  <2>3. CASE who' = who /\ live' \subseteq live
    BY <2>1, <2>3
  <2> QED
    BY <2>2, <2>3 DEF Environment, end_session, bump_leases, Lapse, skip_item, NextDay, Bill, local
<1>3. Onward
  BY <1>1, <1>2 DEF Onward
<1>4. Shape'
  BY <1>1, <1>2 DEF IInv, Shape
<1>5. JobsOK'
  <2> SUFFICES ASSUME NEW t \in Threads PROVE JobOK(job[t])'
    BY DEF JobsOK
  <2>1. PICK k : k = job[t] /\ JobOK(k)
    BY Current
  <2>2. JobOK(k)' /\ job'[t] = k
    BY <1>1, <1>3, <2>1, JobStays
  <2> QED
    BY <2>2 DEF JobOK
<1>6. RowsOK'
  BY <1>1 DEF IInv, RowsOK, RowOK
<1> QED
  BY <1>4, <1>5, <1>6 DEF IInv

LEMMA NextInv == IInv /\ [Next]_vars => IInv'
<1> SUFFICES ASSUME IInv, [Next]_vars PROVE IInv'
  OBVIOUS
<1>1. CASE Environment
  BY <1>1, EnvironmentInv
<1>2. ASSUME NEW t \in Threads, Handler(t) PROVE IInv'
  BY <1>2, LeaseInv, CreateInv, OperatorInv, AuditInv, AuditorInv, PostInv DEF Handler
<1>3. ASSUME NEW t \in Threads, NEW s \in Sessions, Request(t, s) PROVE IInv'
  <2>1. CASE \/ \E picked \in SUBSET Products : TakeRead(t, s, picked)
             \/ \E b \in Products : lookup(t, s, b)
             \/ \E b \in Products, n \in Counts : SubmitRead(t, s, b, n)
    BY <2>1, LookInv
  <2>2. 0 \in Counts
    BY DEF Counts
  <2>3. CASE \/ \E d \in Drafts, n \in Counts : EditRead(t, s, d, n) \/ ResubmitRead(t, s, d, n)
             \/ \E d \in Drafts : WithdrawRead(t, s, d) \/ RejectRead(t, s, d)
    BY <2>2, <2>3, ReadInv
  <2>4. CASE \E d \in Drafts : ApproveRead(t, s, d)
    BY <2>4, ApproveReadInv
  <2> QED
    BY <1>3, <2>1, <2>3, <2>4 DEF Request
<1>4. CASE UNCHANGED vars
  <2>1. UNCHANGED <<who, live, draft, rejected, bills, job>>
    BY <1>4 DEF vars, local, parts9
  <2>2. Shape' /\ JobsOK' /\ RowsOK'
    BY <2>1 DEF IInv, Shape, JobsOK, JobOK, RowsOK, RowOK
  <2> QED
    BY <2>2 DEF IInv
<1> QED
  BY <1>1, <1>2, <1>3, <1>4 DEF Next

LEMMA Invariance == Spec => []IInv
BY InitInv, NextInv, PTL DEF Spec

----------------------------------------------------------------------------
\* Whatever overlaps or dies, a draft that was posted, closed unexplained or sent back was
\* so by somebody who is not its operator, a posted one has its bill in PARTS9, and one that
\* was sent back has its reason (service.py, approve and reject).
THEOREM DraftsClosedProperly == Spec => []ClosedProperly
<1>1. IInv => ClosedProperly
  BY DEF IInv, RowsOK, RowOK, ClosedProperly, MakerChecker, PostedHasBill, SentBackWithReason
<1> QED
  BY <1>1, Invariance, PTL
----------------------------------------------------------------------------
\* What a step does to the drafts.

\* A draft written by the handler that read it.
Rewrites(t) ==
  \/ edit_pending_draft(t) \/ resubmit_recheck(t) \/ _withdraw_draft(t) \/ reject_draft(t)
  \/ PostFails(t) \/ ApproveComplete(t) \/ ApprovePosted(t)

\* The row w takes the place of the row r.
Rewritten(t, r, w) ==
  /\ w.b = r.b
  /\ edit_pending_draft(t) => w.status = r.status /\ w.counted = job[t].counted
  /\ resubmit_recheck(t) => w.status = "pending" /\ w.counted = job[t].counted
  /\ _withdraw_draft(t) => w.status = "rejected" /\ w.counted = r.counted
  /\ reject_draft(t) => w.status = "recheck" /\ w.counted = r.counted
  /\ PostFails(t) => w.status = r.status /\ w.counted = r.counted
  /\ ApproveComplete(t) => /\ w.status \in {"completed", "completed_unexplained"}
                           /\ w.counted = r.counted
  /\ ApprovePosted(t) => /\ w.status = "posted" /\ w.counted = r.counted
                         /\ w.sys = job[t].sys /\ w.var = job[t].var

\* The conjuncts of Rewritten are read with the step at hand only.
LEMMA OneKind ==
  ASSUME NEW t \in Threads, Rewrites(t)
  PROVE  /\ edit_pending_draft(t) => job[t].pc = "edit.write"
         /\ resubmit_recheck(t) => job[t].pc = "recount.write"
         /\ _withdraw_draft(t) => job[t].pc = "withdraw.write"
         /\ reject_draft(t) => job[t].pc = "reject.write"
         /\ ApproveComplete(t) => job[t].pc = "approve.complete"
         /\ PostFails(t) => job[t].pc \in {"approve.begin", "approve.post"}
         /\ ApprovePosted(t) => job[t].pc = "approve.write"
         /\ UNCHANGED <<who, live, lease, rejected, parts9, outside, alone, crashes>>
         /\ _withdraw_draft(t) \/ edit_pending_draft(t) \/ resubmit_recheck(t) \/ reject_draft(t)
            \/ PostFails(t) => Return(t)
         /\ ApproveComplete(t) \/ ApprovePosted(t) => Goto(t, "audit")
         /\ UNCHANGED audits
BY DEF Rewrites, edit_pending_draft, resubmit_recheck, _withdraw_draft, reject_draft, PostFails,
       ApproveComplete, ApprovePosted

LEMMA RewriteFacts ==
  ASSUME IInv, NEW t \in Threads, Rewrites(t)
  PROVE  \E d \in Drafts :
           /\ d = job[t].d /\ draft[d].status # "none"
           /\ \A e \in Drafts \ {d} : draft'[e] = draft[e]
           /\ Rewritten(t, draft[d], draft'[d])
<1>1. job[t].pc \in Auditing \cup Owning
  BY OneKind DEF Rewrites, Auditing, Owning
<1>2. PICK d, r : d \in Drafts /\ d = job[t].d /\ r = draft[d] /\ IsRow(r) /\ r.status # "none"
  BY <1>1, HeldRow
<1>3. draft = [e \in Drafts |-> draft[e]]
  BY DEF IInv, Shape
<1>4. ASSUME NEW w, draft' = [draft EXCEPT ![d] = w], Rewritten(t, r, w)
      PROVE  \E c \in Drafts :
           /\ c = job[t].d /\ draft[c].status # "none"
           /\ \A e \in Drafts \ {c} : draft'[e] = draft[e]
           /\ Rewritten(t, draft[c], draft'[c])
  <2>1. draft'[d] = w /\ \A e \in Drafts \ {d} : draft'[e] = draft[e]
    BY <1>2, <1>3, <1>4
  <2> QED
    BY <1>2, <1>4, <2>1
<1>5. CASE edit_pending_draft(t)
  <2>1. PICK w : w = [r EXCEPT !.counted = job[t].counted, !.sys = job[t].seen[job[t].b],
                        !.var = job[t].counted - job[t].seen[job[t].b], !.updated = day]
    OBVIOUS
  <2>2. IsRow(w) /\ w.b = r.b /\ w.status = r.status /\ w.counted = job[t].counted
    BY <1>2, <2>1 DEF IsRow
  <2>3. PICK q : q = [w EXCEPT !.edited = TRUE]
    OBVIOUS
  <2>4. IsRow(q) /\ q.b = w.b /\ q.status = w.status /\ q.counted = w.counted
    BY <2>2, <2>3 DEF IsRow
  <2>5. draft' = [draft EXCEPT ![d] = q]
    BY <1>2, <1>5, <2>1, <2>3 DEF edit_pending_draft, Recounted
  <2>6. Rewritten(t, r, q)
    BY <1>5, <2>2, <2>4, OneKind DEF Rewritten, Rewrites
  <2> QED
    BY <1>4, <2>5, <2>6
<1>6. CASE resubmit_recheck(t)
  <2>1. PICK w : w = [r EXCEPT !.counted = job[t].counted, !.sys = job[t].seen[job[t].b],
                        !.var = job[t].counted - job[t].seen[job[t].b], !.updated = day]
    OBVIOUS
  <2>2. IsRow(w) /\ w.b = r.b /\ w.status = r.status /\ w.counted = job[t].counted
    BY <1>2, <2>1 DEF IsRow
  <2>3. PICK q : q = [w EXCEPT !.status = "pending"]
    OBVIOUS
  <2>4. IsRow(q) /\ q.b = w.b /\ q.status = "pending" /\ q.counted = w.counted
    BY <2>2, <2>3 DEF IsRow
  <2>5. draft' = [draft EXCEPT ![d] = q]
    BY <1>2, <1>6, <2>1, <2>3 DEF resubmit_recheck, Recounted
  <2>6. Rewritten(t, r, q)
    BY <1>6, <2>2, <2>4, OneKind DEF Rewritten, Rewrites
  <2> QED
    BY <1>4, <2>5, <2>6
<1>7. ASSUME NEW status,
             \/ _withdraw_draft(t) /\ status = "rejected"
             \/ reject_draft(t) /\ status = "recheck"
      PROVE  \E w : draft' = [draft EXCEPT ![d] = w] /\ Rewritten(t, r, w)
  <2>1. PICK w : w = [r EXCEPT !.status = status, !.appr = who[job[t].s], !.updated = day]
    OBVIOUS
  <2>2. w.b = r.b /\ w.status = status /\ w.counted = r.counted
    BY <1>2, <2>1 DEF IsRow
  <2>3. draft' = [draft EXCEPT ![d] = w]
    BY <1>2, <1>3, <1>7, <2>1 DEF _withdraw_draft, reject_draft, IsRow
  <2>4. Rewritten(t, r, w)
    BY <1>7, <2>2, OneKind DEF Rewritten, Rewrites
  <2> QED
    BY <2>3, <2>4
<1>8. CASE PostFails(t)
  <2>1. PICK w : w = [r EXCEPT !.updated = day]
    OBVIOUS
  <2>2. w.b = r.b /\ w.status = r.status /\ w.counted = r.counted
    BY <1>2, <2>1 DEF IsRow
  <2>3. draft' = [draft EXCEPT ![d] = w]
    BY <1>2, <1>3, <1>8, <2>1 DEF PostFails, IsRow
  <2>4. Rewritten(t, r, w)
    BY <1>8, <2>2, OneKind DEF Rewritten, Rewrites
  <2> QED
    BY <1>4, <2>3, <2>4
<1>9. ASSUME NEW status, draft' = Closed(t, status),
             \/ ApprovePosted(t) /\ status = "posted"
             \/ ApproveComplete(t) /\ status \in {"completed", "completed_unexplained"}
      PROVE  \E w : draft' = [draft EXCEPT ![d] = w] /\ Rewritten(t, r, w)
  <2>1. PICK w : w = [r EXCEPT !.status = status, !.sys = job[t].sys, !.var = job[t].var,
                               !.appr = who[job[t].s], !.updated = day]
    OBVIOUS
  <2>2. /\ w.b = r.b /\ w.status = status /\ w.counted = r.counted
        /\ w.sys = job[t].sys /\ w.var = job[t].var
    BY <1>2, <2>1 DEF IsRow
  <2>3. draft' = [draft EXCEPT ![d] = w]
    BY <1>2, <1>3, <1>9, <2>1 DEF Closed, IsRow
  <2>4. Rewritten(t, r, w)
    BY <1>9, <2>2, OneKind DEF Rewritten, Rewrites
  <2> QED
    BY <2>3, <2>4
<1>10. CASE _withdraw_draft(t) \/ reject_draft(t)
  BY <1>4, <1>7, <1>10
<1>11. CASE ApprovePosted(t)
  BY <1>4, <1>9, <1>11 DEF ApprovePosted
<1>12. CASE ApproveComplete(t)
  BY <1>4, <1>9, <1>12 DEF ApproveComplete
<1> QED
  BY <1>5, <1>6, <1>8, <1>10, <1>11, <1>12 DEF Rewrites

LEMMA CreateFacts ==
  ASSUME IInv, NEW t \in Threads, NEW d \in Drafts, create_draft(t, d)
  PROVE  /\ \A e \in Drafts \ {d} : draft'[e] = draft[e]
         /\ draft'[d].b = job[t].b /\ draft'[d].counted = job[t].counted
         /\ draft'[d].status = IF job[t].counted = job[t].seen[job[t].b]
                               THEN "completed" ELSE "pending"
<1>1. PICK k : k = job[t]
  OBVIOUS
<1>2. PICK q : q = [NoRow EXCEPT !.b = k.b, !.op = who[k.s], !.sys = k.seen[k.b],
             !.counted = k.counted, !.var = k.counted - k.seen[k.b],
             !.status = IF k.counted = k.seen[k.b] THEN "completed" ELSE "pending",
             !.made = day, !.updated = day]
  OBVIOUS
<1>3. /\ q.b = k.b /\ q.counted = k.counted
      /\ q.status = IF k.counted = k.seen[k.b] THEN "completed" ELSE "pending"
  BY <1>2 DEF NoRow
<1>4. draft' = [draft EXCEPT ![d] = q]
  BY <1>1, <1>2 DEF create_draft
<1>5. draft = [e \in Drafts |-> draft[e]]
  BY DEF IInv, Shape
<1> QED
  BY <1>1, <1>3, <1>4, <1>5

\* Every other step leaves the drafts as they are.
LEMMA HandlerDrafts ==
  ASSUME NEW t \in Threads, Handler(t)
  PROVE  UNCHANGED draft \/ Rewrites(t) \/ \E d \in Drafts : create_draft(t, d)
BY DEF Handler, Rewrites, TakeHeld, claim_leases, SyncRead, SyncWrite, SubmitDone,
   _enqueue_mirror, add_rejection, PostBegin, post_stock_adjustment, Crash, local

LEMMA DraftSteps ==
  ASSUME Next
  PROVE  \/ UNCHANGED draft
         \/ \E t \in Threads : Rewrites(t)
         \/ \E t \in Threads, d \in Drafts : create_draft(t, d)
<1>1. CASE Environment
  BY <1>1 DEF Environment, create_session, end_session, bump_leases, Lapse, skip_item, NextDay,
     Bill, local
<1>2. ASSUME NEW t \in Threads, NEW s \in Sessions, Request(t, s) PROVE UNCHANGED draft
  BY <1>2 DEF Request, TakeRead, lookup, SubmitRead, EditRead, ResubmitRead, WithdrawRead,
     RejectRead, ApproveRead, local
<1>3. ASSUME NEW t \in Threads, Handler(t)
      PROVE  UNCHANGED draft \/ Rewrites(t) \/ \E d \in Drafts : create_draft(t, d)
  BY <1>3, HandlerDrafts
<1> QED
  BY <1>1, <1>2, <1>3 DEF Next
----------------------------------------------------------------------------
\* Handlers that run one after another: what the one in progress has read is still so, a
\* product has one open draft, and a closed draft stays as it was closed.

OneAtATime ==
  alone => \A t, u \in Threads : job[t].pc # "idle" /\ job[u].pc # "idle" => t = u

StillSo(j) ==
  /\ j.pc = "submit.draft" => j.b \notin open_bcodes
  /\ j.pc \in Auditing \cup {"edit.write"} => draft[j.d].status = "pending"
  /\ j.pc = "recount.write" => draft[j.d].status = "recheck"
  /\ j.pc = "withdraw.write" => draft[j.d].status \in Open

AloneInv ==
  /\ OneAtATime
  /\ alone => \A t \in Threads : StillSo(job[t])
  /\ OneOpenDraft

\* A step that moves the handler t, if it is the only one or handlers have overlapped.
Moves(t) ==
  /\ \E j : job' = [job EXCEPT ![t] = j]
  /\ alone' => alone /\ \A u \in Threads \ {t} : job[u].pc = "idle"

LEMMA InitAlone == Init => AloneInv
<1> SUFFICES ASSUME Init PROVE AloneInv
  OBVIOUS
<1>1. \A t \in Threads : job[t].pc = "idle"
  BY IdleFacts DEF Init
<1>2. \A d \in Drafts : draft[d].status = "none"
  BY DEF Init, NoRow
<1> QED
  BY <1>1, <1>2 DEF AloneInv, OneAtATime, StillSo, Auditing, OneOpenDraft, Open

LEMMA HandlerMoves ==
  ASSUME OneAtATime, NEW t \in Threads, Handler(t)
  PROVE  Moves(t) /\ job[t].pc # "idle"
<1>1. job[t].pc # "idle" /\ alone' = alone
  BY DEF Handler, TakeHeld, claim_leases, SyncRead, SyncWrite, create_draft, SubmitDone,
     _enqueue_mirror, edit_pending_draft, resubmit_recheck, _withdraw_draft, add_rejection,
     reject_draft, ApproveComplete, PostBegin, post_stock_adjustment, PostFails, ApprovePosted,
     Crash, Free
<1>2. \E j : job' = [job EXCEPT ![t] = j]
  BY DEF Handler, TakeHeld, claim_leases, SyncRead, SyncWrite, create_draft, SubmitDone,
     _enqueue_mirror, edit_pending_draft, resubmit_recheck, _withdraw_draft, add_rejection,
     reject_draft, ApproveComplete, PostBegin, post_stock_adjustment, PostFails, ApprovePosted,
     Crash, Return, Go, Goto
<1> QED
  BY <1>1, <1>2 DEF Moves, OneAtATime

LEMMA RequestMoves ==
  ASSUME NEW t \in Threads, NEW s \in Sessions, Request(t, s)
  PROVE  /\ Moves(t) /\ job[t].pc = "idle"
         /\ UNCHANGED <<who, live, draft, rejected, audits, parts9, outside, crashes>>
<1>1. PICK rec : Begin(t, rec)
  BY DEF Request, TakeRead, lookup, SubmitRead, EditRead, ResubmitRead, WithdrawRead, RejectRead,
     ApproveRead, ReadDraft
<1>2. UNCHANGED <<who, live, draft, rejected, audits, parts9, outside, crashes>>
  BY DEF Request, TakeRead, lookup, SubmitRead, EditRead, ResubmitRead, WithdrawRead, RejectRead,
     ApproveRead, local
<1> QED
  BY <1>1, <1>2 DEF Begin, Go, Free, Moves

LEMMA EnvironmentMoves ==
  ASSUME Environment
  PROVE  UNCHANGED <<draft, rejected, audits, bills, job, crashes>> /\ (alone' => alone)
<1>1. UNCHANGED <<draft, rejected, audits, bills, job, crashes>>
  BY DEF Environment, create_session, end_session, bump_leases, Lapse, skip_item, NextDay, Bill,
     local, parts9
<1>2. CASE \E b \in Products, n \in {-1, 1}, applied \in BOOLEAN : Bill(b, n, applied)
  <2>1. alone' => alone
    BY <1>2 DEF Bill
  <2> QED
    BY <1>1, <2>1
<1>3. CASE UNCHANGED alone
  BY <1>1, <1>3
<1> QED
  BY <1>2, <1>3 DEF Environment, create_session, end_session, bump_leases, Lapse, skip_item, NextDay

\* After a move of t the others are idle.
LEMMA AfterMove ==
  ASSUME IInv, OneAtATime, NEW t \in Threads, Moves(t)
  PROVE  /\ OneAtATime'
         /\ alone' => \A u \in Threads \ {t} : job'[u].pc = "idle"
         /\ \A u \in Threads \ {t} : job'[u] = job[u]
<1>1. job = [u \in Threads |-> job[u]]
  BY DEF IInv, Shape
<1>2. \A u \in Threads \ {t} : job'[u] = job[u]
  BY <1>1 DEF Moves
<1>3. alone' => \A u \in Threads \ {t} : job'[u].pc = "idle"
  BY <1>2 DEF Moves
<1> QED
  BY <1>2, <1>3 DEF OneAtATime

LEMMA AloneMove ==
  ASSUME IInv, AloneInv, NEW t \in Threads, Moves(t),
         alone' => StillSo(job[t])' /\ OneOpenDraft'
  PROVE  AloneInv'
<1>1. OneAtATime' /\ (alone' => \A u \in Threads \ {t} : job'[u].pc = "idle")
  BY AfterMove DEF AloneInv
<1>2. alone' => \A u \in Threads : StillSo(job[u])'
  BY <1>1 DEF StillSo, Auditing
<1> QED
  BY <1>1, <1>2 DEF AloneInv, OneOpenDraft

----------------------------------------------------------------------------
\* The steps.

LEMMA AloneEnvironment ==
  ASSUME IInv, AloneInv, Environment \/ UNCHANGED vars
  PROVE  AloneInv'
<1>1. UNCHANGED <<draft, job>> /\ (alone' => alone)
  BY EnvironmentMoves DEF vars, local
<1> QED
  BY <1>1 DEF AloneInv, OneAtATime, StillSo, OneOpenDraft, open_bcodes

LEMMA AloneRequest ==
  ASSUME IInv, AloneInv, NEW t \in Threads, NEW s \in Sessions, Request(t, s)
  PROVE  AloneInv'
<1>1. Moves(t) /\ UNCHANGED draft /\ (alone' => alone)
  BY RequestMoves DEF Moves
<1>2. OneOpenDraft' /\ open_bcodes' = open_bcodes
  BY <1>1 DEF AloneInv, OneOpenDraft, open_bcodes
<1>3. job = [u \in Threads |-> job[u]]
  BY DEF IInv, Shape
<1>4. ASSUME NEW j, job' = [job EXCEPT ![t] = j],
             /\ j.pc = "submit.draft" => j.b \notin open_bcodes
             /\ j.pc \in Auditing \cup {"edit.write"} => draft[j.d].status = "pending"
             /\ j.pc = "recount.write" => draft[j.d].status = "recheck"
             /\ j.pc = "withdraw.write" => draft[j.d].status \in Open
      PROVE  AloneInv'
  <2>1. job'[t] = j
    BY <1>3, <1>4
  <2>2. StillSo(job[t])'
    BY <1>1, <1>2, <1>4, <2>1 DEF StillSo
  <2> QED
    BY <1>1, <1>2, <2>2, AloneMove
<1>5. CASE \E picked \in SUBSET Products : TakeRead(t, s, picked)
  <2>1. PICK picked : Begin(t, [Idle EXCEPT !.pc = "take.held", !.s = s, !.picked = picked])
    BY <1>5 DEF TakeRead
  <2>2. PICK j : j = [Idle EXCEPT !.pc = "take.held", !.s = s, !.picked = picked]
    OBVIOUS
  <2>3. j.pc = "take.held" /\ job' = [job EXCEPT ![t] = j]
    BY <2>1, <2>2 DEF Idle, Begin, Go
  <2> QED
    BY <1>4, <2>3 DEF Auditing
<1>6. CASE \E b \in Products : lookup(t, s, b)
  <2>1. PICK b : Begin(t, [Idle EXCEPT !.pc = "sync.read", !.s = s, !.picked = {b}])
    BY <1>6 DEF lookup
  <2>2. PICK j : j = [Idle EXCEPT !.pc = "sync.read", !.s = s, !.picked = {b}]
    OBVIOUS
  <2>3. j.pc = "sync.read" /\ job' = [job EXCEPT ![t] = j]
    BY <2>1, <2>2 DEF Idle, Begin, Go
  <2> QED
    BY <1>4, <2>3 DEF Auditing
<1>7. CASE \E b \in Products, n \in Counts : SubmitRead(t, s, b, n)
  <2>1. PICK b \in Products, n \in Counts :
          /\ b \notin open_bcodes
          /\ Begin(t, [Idle EXCEPT !.pc = "submit.draft", !.s = s, !.b = b,
                                   !.seen = onhand, !.counted = n])
    BY <1>7 DEF SubmitRead
  <2>2. PICK j : j = [Idle EXCEPT !.pc = "submit.draft", !.s = s, !.b = b,
                                   !.seen = onhand, !.counted = n]
    OBVIOUS
  <2>3. j.pc = "submit.draft" /\ j.b = b /\ job' = [job EXCEPT ![t] = j]
    BY <2>1, <2>2 DEF Idle, Begin, Go
  <2> QED
    BY <1>4, <2>1, <2>3 DEF Auditing
<1>8. ASSUME NEW d \in Drafts, NEW n \in Counts, NEW pc \in Owning \cup {"reject.reason"},
             ReadDraft(t, s, d, pc, n),
             pc \in {"edit.write", "reject.reason"} => draft[d].status = "pending",
             pc = "recount.write" => draft[d].status = "recheck",
             pc = "withdraw.write" => draft[d].status \in Open
      PROVE  AloneInv'
  <2>1. PICK j : j = [Idle EXCEPT !.pc = pc, !.s = s, !.d = d, !.b = draft[d].b,
                                  !.seen = onhand, !.counted = n]
    OBVIOUS
  <2>2. j.pc = pc /\ j.d = d /\ job' = [job EXCEPT ![t] = j]
    BY <1>8, <2>1 DEF Idle, ReadDraft, Begin, Go
  <2> QED
    BY <1>4, <1>8, <2>2 DEF Auditing, Owning
<1>0. 0 \in Counts
  BY StockAssumption DEF Counts
<1>9. CASE \E d \in Drafts, n \in Counts : EditRead(t, s, d, n) \/ ResubmitRead(t, s, d, n)
  <2>1. PICK d \in Drafts, n \in Counts : EditRead(t, s, d, n) \/ ResubmitRead(t, s, d, n)
    BY <1>9
  <2>2. CASE EditRead(t, s, d, n)
    <3>1. ReadDraft(t, s, d, "edit.write", n) /\ draft[d].status = "pending"
      BY <2>2 DEF EditRead
    <3> QED
      BY <1>0, <1>8, <3>1 DEF Owning
  <2>3. CASE ResubmitRead(t, s, d, n)
    <3>1. ReadDraft(t, s, d, "recount.write", n) /\ draft[d].status = "recheck"
      BY <2>3 DEF ResubmitRead
    <3> QED
      BY <1>0, <1>8, <3>1 DEF Owning
  <2> QED
    BY <2>1, <2>2, <2>3
<1>10. CASE \E d \in Drafts : WithdrawRead(t, s, d) \/ RejectRead(t, s, d)
  <2>1. PICK d \in Drafts : WithdrawRead(t, s, d) \/ RejectRead(t, s, d)
    BY <1>10
  <2>2. CASE WithdrawRead(t, s, d)
    <3>1. ReadDraft(t, s, d, "withdraw.write", 0) /\ draft[d].status \in Open
      BY <2>2 DEF WithdrawRead
    <3> QED
      BY <1>0, <1>8, <3>1 DEF Owning
  <2>3. CASE RejectRead(t, s, d)
    <3>1. ReadDraft(t, s, d, "reject.reason", 0) /\ draft[d].status = "pending"
      BY <2>3 DEF RejectRead
    <3> QED
      BY <1>0, <1>8, <3>1 DEF Owning
  <2> QED
    BY <2>1, <2>2, <2>3
<1>11. CASE \E d \in Drafts : ApproveRead(t, s, d)
  <2>1. PICK d \in Drafts : ApproveRead(t, s, d)
    BY <1>11
  <2> DEFINE done == draft[d].counted = onhand[draft[d].b]
             sys == IF done THEN draft[d].sys ELSE onhand[draft[d].b]
             var == IF done THEN draft[d].var ELSE draft[d].counted - onhand[draft[d].b]
             odd == _analyze_drift(d)
  <2>2. PICK pc \in {"approve.complete", "approve.begin"} :
          Begin(t, [Idle EXCEPT !.pc = pc, !.s = s, !.d = d, !.b = draft[d].b,
                                !.sys = sys, !.var = var, !.odd = odd])
    BY <2>1 DEF ApproveRead
  <2> HIDE DEF sys, var, odd
  <2>3. PICK j : j = [Idle EXCEPT !.pc = pc, !.s = s, !.d = d, !.b = draft[d].b,
                                  !.sys = sys, !.var = var, !.odd = odd]
    OBVIOUS
  <2>4. j.pc = pc /\ j.d = d /\ job' = [job EXCEPT ![t] = j]
    BY <2>2, <2>3 DEF Idle, Begin, Go
  <2>5. draft[d].status = "pending"
    BY <2>1 DEF ApproveRead
  <2> QED
    BY <1>4, <2>2, <2>4, <2>5 DEF Auditing
<1> QED
  BY <1>5, <1>6, <1>7, <1>9, <1>10, <1>11 DEF Request

\* Handlers that go on without writing a draft.
LEMMA AloneGoesOn ==
  ASSUME IInv, AloneInv, NEW t \in Threads, Handler(t), UNCHANGED draft
  PROVE  AloneInv'
<1>1. Moves(t) /\ (alone' => alone)
  BY HandlerMoves DEF AloneInv, Moves
<1>2. OneOpenDraft' /\ open_bcodes' = open_bcodes
  BY <1>1 DEF AloneInv, OneOpenDraft, open_bcodes
<1>3. job = [u \in Threads |-> job[u]] /\ IsJob(job[t])
  BY DEF IInv, Shape
<1>4. ASSUME NEW j, job' = [job EXCEPT ![t] = j],
             \/ j.pc \in {"idle", "audit", "take.claim", "sync.read", "sync.write", "submit.done"}
             \/ j.d = job[t].d /\ j.pc \in Auditing /\ job[t].pc \in Auditing
      PROVE  AloneInv'
  <2>1. job'[t] = j
    BY <1>3, <1>4
  <2>2. alone' => StillSo(job[t])'
    BY <1>1, <1>4, <2>1 DEF StillSo, AloneInv, Auditing
  <2> QED
    BY <1>1, <1>2, <2>2, AloneMove
<1>5. CASE Return(t)
  BY <1>4, <1>5, IdleFacts DEF Return, Go
<1>6. ASSUME NEW pc \in {"audit", "reject.write", "approve.write"}, Goto(t, pc),
             pc # "audit" => job[t].pc \in Auditing
      PROVE  AloneInv'
  BY <1>4, <1>6, GotoFacts DEF Auditing
<1>7. CASE TakeHeld(t)
  <2>1. PICK j : j = [job[t] EXCEPT !.pc = "take.claim",
                                    !.picked = @ \ active_leased_bcodes(lease)]
    OBVIOUS
  <2> QED
    BY <1>3, <1>4, <1>7, <2>1 DEF TakeHeld, Go, IsJob
<1>8. CASE claim_leases(t)
  <2>1. PICK claimed :
          Return(t) \/ Go(t, [job[t] EXCEPT !.pc = "sync.read", !.picked = claimed])
    BY <1>8 DEF claim_leases
  <2>2. PICK j : j = [job[t] EXCEPT !.pc = "sync.read", !.picked = claimed]
    OBVIOUS
  <2> QED
    BY <1>3, <1>4, <1>5, <2>1, <2>2 DEF Go, IsJob
<1>9. CASE SyncRead(t)
  <2>1. PICK j : j = [job[t] EXCEPT !.pc = "sync.write", !.seen = [b \in Products |-> Ledger(b)]]
    OBVIOUS
  <2> QED
    BY <1>3, <1>4, <1>9, <2>1 DEF SyncRead, Go, IsJob
<1>10. CASE SyncWrite(t) \/ SubmitDone(t) \/ _enqueue_mirror(t) \/ Crash(t)
  <2>1. Return(t) \/ Goto(t, "audit")
    BY <1>10 DEF SyncWrite, SubmitDone, _enqueue_mirror, Crash
  <2> QED
    BY <1>5, <1>6, <2>1
<1>11. CASE add_rejection(t) \/ post_stock_adjustment(t)
  BY <1>6, <1>11 DEF add_rejection, post_stock_adjustment, Auditing
<1>12. CASE PostBegin(t)
  <2>1. PICK j : j = [job[t] EXCEPT !.pc = "approve.post", !.seen = onhand]
    OBVIOUS
  <2> QED
    BY <1>3, <1>4, <1>12, <2>1 DEF PostBegin, Go, IsJob, Auditing
<1>13. CASE \E d \in Drafts : create_draft(t, d)
  <2>1. PICK d \in Drafts : create_draft(t, d)
    BY <1>13
  <2>2. PICK j : j = [job[t] EXCEPT !.pc = "submit.done", !.d = d]
    OBVIOUS
  <2> QED
    BY <1>3, <1>4, <2>1, <2>2 DEF create_draft, Go, IsJob
<1>14. CASE Rewrites(t)
  <2>1. Return(t) \/ Goto(t, "audit")
    BY <1>14, OneKind DEF Rewrites
  <2> QED
    BY <1>5, <1>6, <2>1
<1> QED
  BY <1>7, <1>8, <1>9, <1>10, <1>11, <1>12, <1>13, <1>14 DEF Handler, Rewrites

\* Handlers that write the draft they read.
LEMMA AloneRewrites ==
  ASSUME IInv, AloneInv, NEW t \in Threads, Rewrites(t)
  PROVE  AloneInv'
<1>1. Moves(t) /\ (alone' => alone)
  BY HandlerMoves DEF AloneInv, Moves, Handler, Rewrites
<1>2. PICK d \in Drafts : /\ d = job[t].d
                          /\ \A e \in Drafts \ {d} : draft'[e] = draft[e]
                          /\ Rewritten(t, draft[d], draft'[d])
  BY RewriteFacts
<1>3. /\ draft'[d].b = draft[d].b
      /\ alone' /\ draft'[d].status \in Open => draft[d].status \in Open
  <2>1. alone' => StillSo(job[t])
    BY <1>1 DEF AloneInv
  <2> QED
    BY <1>2, <2>1, OneKind DEF Rewritten, Rewrites, StillSo, Auditing, Open
<1>4. alone' => OneOpenDraft'
  <2> SUFFICES ASSUME alone', NEW c \in Drafts, NEW e \in Drafts,
                      draft'[c].status \in Open, draft'[e].status \in Open,
                      draft'[c].b = draft'[e].b
               PROVE  c = e
    BY DEF OneOpenDraft
  <2>1. draft[c].status \in Open /\ draft[c].b = draft'[c].b
    BY <1>2, <1>3
  <2>2. draft[e].status \in Open /\ draft[e].b = draft'[e].b
    BY <1>2, <1>3
  <2> QED
    BY <1>1, <2>1, <2>2 DEF AloneInv, OneOpenDraft
<1>5. job'[t].pc \in {"idle", "audit"}
  <2>1. CASE Return(t)
    BY <2>1, IdleFacts DEF Return, Go, IInv, Shape
  <2>2. CASE Goto(t, "audit")
    <3>1. PICK j : job' = [job EXCEPT ![t] = j] /\ j.pc = "audit"
      BY <2>2, GotoFacts
    <3> QED
      BY <3>1 DEF IInv, Shape
  <2> QED
    BY <2>1, <2>2, OneKind DEF Rewrites
<1>6. StillSo(job[t])'
  BY <1>5 DEF StillSo, Auditing
<1> QED
  BY <1>1, <1>4, <1>6, AloneMove

LEMMA AloneCreates ==
  ASSUME IInv, AloneInv, NEW t \in Threads, NEW d \in Drafts, create_draft(t, d)
  PROVE  AloneInv'
<1>1. Moves(t) /\ (alone' => alone) /\ job[t].pc = "submit.draft"
  BY HandlerMoves DEF AloneInv, Moves, Handler, create_draft
<1>2. /\ \A e \in Drafts \ {d} : draft'[e] = draft[e]
      /\ draft'[d].b = job[t].b
  BY CreateFacts
<1>3. alone' => \A e \in Drafts : draft[e].status \in Open => draft[e].b # job[t].b
  BY <1>1 DEF AloneInv, StillSo, open_bcodes
<1>4. alone' => OneOpenDraft'
  <2> SUFFICES ASSUME alone', NEW c \in Drafts, NEW e \in Drafts,
                      draft'[c].status \in Open, draft'[e].status \in Open,
                      draft'[c].b = draft'[e].b
               PROVE  c = e
    BY DEF OneOpenDraft
  <2>1. CASE c = d \/ e = d
    BY <1>2, <1>3, <2>1
  <2>2. CASE c # d /\ e # d
    BY <1>1, <1>2, <2>2 DEF AloneInv, OneOpenDraft
  <2> QED
    BY <2>1, <2>2
<1>5. job'[t].pc = "submit.done"
  <2>1. PICK j : j = [job[t] EXCEPT !.pc = "submit.done", !.d = d]
    OBVIOUS
  <2>2. j.pc = "submit.done" /\ job' = [job EXCEPT ![t] = j]
    BY <2>1, Current DEF create_draft, Go, IsJob
  <2> QED
    BY <2>2 DEF IInv, Shape
<1>6. StillSo(job[t])'
  BY <1>5 DEF StillSo, Auditing
<1> QED
  BY <1>1, <1>4, <1>6, AloneMove

LEMMA NextAlone == IInv /\ AloneInv /\ [Next]_vars => AloneInv'
<1> SUFFICES ASSUME IInv, AloneInv, [Next]_vars PROVE AloneInv'
  OBVIOUS
<1>1. CASE Environment \/ UNCHANGED vars
  BY <1>1, AloneEnvironment
<1>2. ASSUME NEW t \in Threads, Handler(t) PROVE AloneInv'
  <2>1. CASE UNCHANGED draft
    BY <1>2, <2>1, AloneGoesOn
  <2>2. CASE Rewrites(t)
    BY <2>2, AloneRewrites
  <2>3. CASE \E d \in Drafts : create_draft(t, d)
    BY <2>3, AloneCreates
  <2> QED
    BY <1>2, <2>1, <2>2, <2>3, HandlerDrafts
<1>3. ASSUME NEW t \in Threads, NEW s \in Sessions, Request(t, s) PROVE AloneInv'
  BY <1>3, AloneRequest
<1> QED
  BY <1>1, <1>2, <1>3 DEF Next

LEMMA AloneInvariance == Spec => [](IInv /\ AloneInv)
<1>1. Init => IInv /\ AloneInv
  BY InitInv, InitAlone
<1>2. IInv /\ AloneInv /\ [Next]_vars => (IInv /\ AloneInv)'
  BY NextInv, NextAlone
<1> QED
  BY <1>1, <1>2, PTL DEF Spec

----------------------------------------------------------------------------
\* While handlers run one after another a draft that is closed is never reopened or closed
\* otherwise: what the handler read of it is still so when it writes (service.py, the checks
\* of the status before edit_pending_draft, resubmit_recheck, update_draft).
THEOREM ClosedDraftsStayClosed == Spec => ClosedStaysClosed
<1>1. ASSUME IInv, AloneInv, Next, alone', NEW d \in Drafts, draft[d].status \in Final
      PROVE  draft'[d].status = draft[d].status
  <2>1. CASE UNCHANGED draft
    BY <2>1
  <2>2. ASSUME NEW t \in Threads, Rewrites(t) PROVE draft'[d].status = draft[d].status
    <3>0. alone
      BY <1>1, <2>2, OneKind
    <3>1. PICK c \in Drafts : /\ c = job[t].d /\ \A e \in Drafts \ {c} : draft'[e] = draft[e]
      BY <1>1, <2>2, RewriteFacts
    <3>2. draft[c].status \in Open
      BY <1>1, <2>2, <3>0, <3>1, OneKind DEF AloneInv, StillSo, Rewrites, Auditing, Open
    <3>3. c # d
      BY <1>1, <3>2 DEF Final
    <3> QED
      BY <3>1, <3>3
  <2>3. ASSUME NEW t \in Threads, NEW c \in Drafts, create_draft(t, c)
        PROVE  draft'[d].status = draft[d].status
    <3>1. c # d
      BY <1>1, <2>3 DEF create_draft, Final
    <3> QED
      BY <1>1, <2>3, <3>1, CreateFacts
  <2> QED
    BY <1>1, <2>1, <2>2, <2>3, DraftSteps
<1>2. IInv /\ AloneInv /\ [Next]_vars
        => [alone' => \A d \in Drafts : draft[d].status \in Final
                                         => draft'[d].status = draft[d].status]_vars
  BY <1>1
<1> QED
  BY <1>2, AloneInvariance, PTL DEF Spec, ClosedStaysClosed
----------------------------------------------------------------------------
\* The job a step leaves its handler with.

LEMMA Gone ==
  ASSUME IInv, NEW t \in Threads, NEW j, Go(t, j)
  PROVE  job'[t] = j
BY DEF IInv, Shape, Go

LEMMA Returned ==
  ASSUME IInv, NEW t \in Threads, Return(t)
  PROVE  job'[t].pc = "idle"
BY IdleFacts, Gone DEF Return

LEMMA Went ==
  ASSUME IInv, NEW t \in Threads, NEW pc, Goto(t, pc)
  PROVE  /\ job'[t].pc = pc /\ job'[t].d = job[t].d /\ job'[t].b = job[t].b
         /\ job'[t].counted = job[t].counted /\ job'[t].seen = job[t].seen
         /\ job'[t].sys = job[t].sys /\ job'[t].var = job[t].var
<1>1. PICK k : k = job[t] /\ IsJob(k)
  BY Current
<1>2. PICK j : j = [k EXCEPT !.pc = pc]
  OBVIOUS
<1>3. /\ j.pc = pc /\ j.d = k.d /\ j.b = k.b /\ j.counted = k.counted /\ j.seen = k.seen
      /\ j.sys = k.sys /\ j.var = k.var
  BY <1>1, <1>2 DEF IsJob
<1>4. job'[t] = j
  BY <1>1, <1>2 DEF Goto, IInv, Shape
<1> QED
  BY <1>1, <1>3, <1>4

\* What a request reads.
Asked(j) ==
  \/ j.pc = "take.held" /\ j.picked \cap active_leased_bcodes(lease') = {}
  \/ j.pc = "sync.read"
  \/ j.pc = "submit.draft" /\ j.b \in Products /\ j.counted \in Counts
  \/ j.pc \in Owning \cup {"reject.reason"} /\ j.counted \in Counts
  \/ j.pc = "approve.complete"
  \/ /\ j.pc = "approve.begin" /\ j.d \in Drafts /\ j.b = draft[j.d].b
     /\ j.sys = onhand[j.b] /\ j.var = draft[j.d].counted - j.sys
     /\ draft[j.d].status # "none"

LEMMA RequestJob ==
  ASSUME IInv, NEW t \in Threads, NEW s \in Sessions, Request(t, s)
  PROVE  Asked(job'[t])
<1>1. ASSUME NEW j, Begin(t, j), Asked(j) PROVE Asked(job'[t])
  BY <1>1, Gone DEF Begin
<1>2. CASE \E picked \in SUBSET Products : TakeRead(t, s, picked)
  <2>1. PICK picked : /\ Begin(t, [Idle EXCEPT !.pc = "take.held", !.s = s, !.picked = picked])
                      /\ picked \cap active_leased_bcodes(lease') = {}
    BY <1>2 DEF TakeRead
  <2>2. PICK j : j = [Idle EXCEPT !.pc = "take.held", !.s = s, !.picked = picked]
    OBVIOUS
  <2>3. j.pc = "take.held" /\ j.picked = picked /\ Begin(t, j)
    BY <2>1, <2>2 DEF Idle
  <2>4. Asked(j)
    BY <2>1, <2>3 DEF Asked
  <2> QED
    BY <1>1, <2>3, <2>4
<1>3. CASE \E b \in Products : lookup(t, s, b)
  <2>1. PICK b : Begin(t, [Idle EXCEPT !.pc = "sync.read", !.s = s, !.picked = {b}])
    BY <1>3 DEF lookup
  <2>2. PICK j : j = [Idle EXCEPT !.pc = "sync.read", !.s = s, !.picked = {b}]
    OBVIOUS
  <2>3. j.pc = "sync.read" /\ Begin(t, j)
    BY <2>1, <2>2 DEF Idle
  <2>4. Asked(j)
    BY <2>3 DEF Asked
  <2> QED
    BY <1>1, <2>3, <2>4
<1>4. CASE \E b \in Products, n \in Counts : SubmitRead(t, s, b, n)
  <2>1. PICK b \in Products, n \in Counts :
          Begin(t, [Idle EXCEPT !.pc = "submit.draft", !.s = s, !.b = b,
                                !.seen = onhand, !.counted = n])
    BY <1>4 DEF SubmitRead
  <2>2. PICK j : j = [Idle EXCEPT !.pc = "submit.draft", !.s = s, !.b = b,
                                  !.seen = onhand, !.counted = n]
    OBVIOUS
  <2>3. j.pc = "submit.draft" /\ j.b = b /\ j.counted = n /\ Begin(t, j)
    BY <2>1, <2>2 DEF Idle
  <2>4. Asked(j)
    BY <2>3 DEF Asked
  <2> QED
    BY <1>1, <2>3, <2>4
<1>5. ASSUME NEW d \in Drafts, NEW n \in Counts, NEW pc \in Owning \cup {"reject.reason"},
             ReadDraft(t, s, d, pc, n)
      PROVE  Asked(job'[t])
  <2>1. PICK j : j = [Idle EXCEPT !.pc = pc, !.s = s, !.d = d, !.b = draft[d].b,
                                  !.seen = onhand, !.counted = n]
    OBVIOUS
  <2>2. j.pc = pc /\ j.counted = n /\ Begin(t, j)
    BY <1>5, <2>1 DEF Idle, ReadDraft
  <2>3. Asked(j)
    BY <1>5, <2>2 DEF Asked
  <2> QED
    BY <1>1, <2>2, <2>3
<1>0. 0 \in Counts
  BY StockAssumption DEF Counts
<1>6. CASE \E d \in Drafts, n \in Counts : EditRead(t, s, d, n) \/ ResubmitRead(t, s, d, n)
  <2>1. PICK d \in Drafts, n \in Counts : EditRead(t, s, d, n) \/ ResubmitRead(t, s, d, n)
    BY <1>6
  <2>2. ReadDraft(t, s, d, "edit.write", n) \/ ReadDraft(t, s, d, "recount.write", n)
    BY <2>1 DEF EditRead, ResubmitRead
  <2> QED
    BY <1>5, <2>2 DEF Owning
<1>7. CASE \E d \in Drafts : WithdrawRead(t, s, d) \/ RejectRead(t, s, d)
  <2>1. PICK d \in Drafts : WithdrawRead(t, s, d) \/ RejectRead(t, s, d)
    BY <1>7
  <2>2. ReadDraft(t, s, d, "withdraw.write", 0) \/ ReadDraft(t, s, d, "reject.reason", 0)
    BY <2>1 DEF WithdrawRead, RejectRead
  <2> QED
    BY <1>0, <1>5, <2>2 DEF Owning
<1>8. CASE \E d \in Drafts : ApproveRead(t, s, d)
  <2>1. PICK d \in Drafts : ApproveRead(t, s, d)
    BY <1>8
  <2> DEFINE done == draft[d].counted = onhand[draft[d].b]
             sys == IF done THEN draft[d].sys ELSE onhand[draft[d].b]
             var == IF done THEN draft[d].var ELSE draft[d].counted - onhand[draft[d].b]
             odd == _analyze_drift(d)
  <2>2. PICK pc \in {"approve.complete", "approve.begin"} :
          /\ Begin(t, [Idle EXCEPT !.pc = pc, !.s = s, !.d = d, !.b = draft[d].b,
                                   !.sys = sys, !.var = var, !.odd = odd])
          /\ pc = "approve.begin" => ~done
    BY <2>1 DEF ApproveRead
  <2>3. PICK n, v : /\ n = sys /\ v = var
                    /\ ~done => n = onhand[draft[d].b] /\ v = draft[d].counted - n
    OBVIOUS
  <2> HIDE DEF done, sys, var, odd
  <2>4. PICK j : j = [Idle EXCEPT !.pc = pc, !.s = s, !.d = d, !.b = draft[d].b,
                                  !.sys = sys, !.var = var, !.odd = odd]
    OBVIOUS
  <2>5. j.pc = pc /\ j.d = d /\ j.b = draft[d].b /\ j.sys = n /\ j.var = v /\ Begin(t, j)
    BY <2>2, <2>3, <2>4 DEF Idle
  <2>6. draft[d].status # "none"
    BY <2>1 DEF ApproveRead
  <2>7. Asked(j)
    BY <2>2, <2>3, <2>5, <2>6 DEF Asked
  <2> QED
    BY <1>1, <2>5, <2>7
<1> QED
  BY <1>2, <1>3, <1>4, <1>6, <1>7, <1>8 DEF Request

\* The control of a handler, action by action.
LEMMA HandlerJob ==
  ASSUME IInv, NEW t \in Threads
  PROVE  /\ TakeHeld(t) => /\ job'[t].pc = "take.claim"
                           /\ job'[t].picked = job[t].picked \ active_leased_bcodes(lease)
         /\ claim_leases(t) => job'[t].pc \in {"idle", "sync.read"}
         /\ SyncRead(t) => /\ job'[t].pc = "sync.write"
                           /\ job'[t].seen = [b \in Products |-> Ledger(b)]
         /\ \A d \in Drafts : create_draft(t, d) =>
              /\ job'[t].pc = "submit.done" /\ job'[t].d = d /\ job'[t].b = job[t].b
              /\ job'[t].counted = job[t].counted /\ job'[t].seen = job[t].seen
         /\ SubmitDone(t) => job'[t].pc = "idle"
                             \/ /\ job[t].counted = job[t].seen[job[t].b]
                                /\ Goto(t, "audit")
         /\ PostBegin(t) => /\ job'[t].pc = "approve.post" /\ job'[t].seen = onhand
                            /\ job'[t].d = job[t].d /\ job'[t].b = job[t].b
                            /\ job'[t].sys = job[t].sys /\ job'[t].var = job[t].var
         /\ SyncWrite(t) \/ _enqueue_mirror(t) \/ Crash(t) => job'[t].pc = "idle"
<1>1. PICK k : k = job[t] /\ IsJob(k)
  BY Current
<1>2. ASSUME TakeHeld(t)
      PROVE  /\ job'[t].pc = "take.claim"
             /\ job'[t].picked = job[t].picked \ active_leased_bcodes(lease)
  <2>1. PICK j : j = [k EXCEPT !.pc = "take.claim",
                               !.picked = k.picked \ active_leased_bcodes(lease)]
    OBVIOUS
  <2>2. Go(t, j)
    BY <1>1, <1>2, <2>1 DEF TakeHeld
  <2>3. j.pc = "take.claim" /\ j.picked = k.picked \ active_leased_bcodes(lease)
    BY <1>1, <2>1 DEF IsJob
  <2> QED
    BY <1>1, <2>2, <2>3, Gone
<1>3. ASSUME claim_leases(t) PROVE job'[t].pc \in {"idle", "sync.read"}
  <2>1. PICK claimed : Return(t) \/ Go(t, [k EXCEPT !.pc = "sync.read", !.picked = claimed])
    BY <1>1, <1>3 DEF claim_leases
  <2>2. PICK j : j = [k EXCEPT !.pc = "sync.read", !.picked = claimed]
    OBVIOUS
  <2>3. j.pc = "sync.read"
    BY <1>1, <2>2 DEF IsJob
  <2>4. Return(t) \/ Go(t, j)
    BY <2>1, <2>2
  <2> QED
    BY <2>3, <2>4, Gone, Returned
<1>4. ASSUME SyncRead(t)
      PROVE  job'[t].pc = "sync.write" /\ job'[t].seen = [b \in Products |-> Ledger(b)]
  <2>1. PICK j : j = [k EXCEPT !.pc = "sync.write", !.seen = [b \in Products |-> Ledger(b)]]
    OBVIOUS
  <2>2. j.pc = "sync.write" /\ j.seen = [b \in Products |-> Ledger(b)]
    BY <1>1, <2>1 DEF IsJob
  <2>3. Go(t, j)
    BY <1>1, <1>4, <2>1 DEF SyncRead
  <2> QED
    BY <2>2, <2>3, Gone
<1>5. ASSUME NEW d \in Drafts, create_draft(t, d)
      PROVE  /\ job'[t].pc = "submit.done" /\ job'[t].d = d /\ job'[t].b = job[t].b
             /\ job'[t].counted = job[t].counted /\ job'[t].seen = job[t].seen
  <2>1. PICK j : j = [k EXCEPT !.pc = "submit.done", !.d = d]
    OBVIOUS
  <2>2. Go(t, j)
    BY <1>1, <1>5, <2>1 DEF create_draft
  <2>3. /\ j.pc = "submit.done" /\ j.d = d /\ j.b = k.b /\ j.counted = k.counted
        /\ j.seen = k.seen
    BY <1>1, <2>1 DEF IsJob
  <2> QED
    BY <1>1, <2>2, <2>3, Gone
<1>6. ASSUME SubmitDone(t)
      PROVE  job'[t].pc = "idle" \/ /\ job[t].counted = job[t].seen[job[t].b]
                                    /\ Goto(t, "audit")
  BY <1>6, Returned DEF SubmitDone
<1>7. ASSUME PostBegin(t)
      PROVE  /\ job'[t].pc = "approve.post" /\ job'[t].seen = onhand
             /\ job'[t].d = job[t].d /\ job'[t].b = job[t].b
             /\ job'[t].sys = job[t].sys /\ job'[t].var = job[t].var
  <2>1. PICK j : j = [k EXCEPT !.pc = "approve.post", !.seen = onhand]
    OBVIOUS
  <2>2. /\ j.pc = "approve.post" /\ j.seen = onhand /\ j.d = k.d /\ j.b = k.b
        /\ j.sys = k.sys /\ j.var = k.var
    BY <1>1, <2>1 DEF IsJob
  <2>3. Go(t, j)
    BY <1>1, <1>7, <2>1 DEF PostBegin
  <2> QED
    BY <1>1, <2>2, <2>3, Gone
<1>8. SyncWrite(t) \/ _enqueue_mirror(t) \/ Crash(t) => job'[t].pc = "idle"
  BY Returned DEF SyncWrite, _enqueue_mirror, Crash
<1> QED
  BY <1>2, <1>3, <1>4, <1>5, <1>6, <1>7, <1>8

LEMMA RewriterJob ==
  ASSUME IInv, NEW t \in Threads, Rewrites(t)
  PROVE  \/ job'[t].pc = "idle" /\ ~ApproveComplete(t) /\ ~ApprovePosted(t)
         \/ Goto(t, "audit") /\ (ApproveComplete(t) \/ ApprovePosted(t))
<1>1. CASE ApproveComplete(t) \/ ApprovePosted(t)
  BY <1>1, OneKind
<1>2. CASE ~ApproveComplete(t) /\ ~ApprovePosted(t)
  BY <1>2, OneKind, Returned DEF Rewrites
<1> QED
  BY <1>1, <1>2
----------------------------------------------------------------------------
\* While handlers run one after another a product is leased to one session: every step but
\* claim_leases only gives leases up, and claim_leases takes what nobody holds.

LeaseTable == lease = [s \in Sessions |-> [b \in Products |-> lease[s][b]]]

Unheld(j) ==
  j.pc \in {"take.held", "take.claim"} => j.picked \cap active_leased_bcodes(lease) = {}

LeasesInv ==
  /\ LeaseTable
  /\ alone => \A t \in Threads : Unheld(job[t])
  /\ LeasedToOne

\* Nobody comes to hold what he did not.
Shrinks ==
  \A s \in Sessions, b \in Products : lease'[s][b] \in Held => lease[s][b] \in Held

LEMMA InitLeases == Init => LeasesInv
<1> SUFFICES ASSUME Init PROVE LeasesInv
  OBVIOUS
<1>1. \A s \in Sessions, b \in Products : lease[s][b] \notin Held
  BY DEF Init, Held
<1>2. \A t \in Threads : job[t].pc = "idle"
  BY IdleFacts DEF Init
<1>3. LeaseTable
  BY DEF Init, LeaseTable
<1> QED
  BY <1>1, <1>2, <1>3 DEF LeasesInv, Unheld, LeasedToOne

LEMMA SettleFacts ==
  ASSUME NEW l, l = [s \in Sessions |-> [b \in Products |-> l[s][b]]], NEW s, NEW bs, NEW status
  PROVE  Settle(l, s, bs, status) =
           [r \in Sessions |-> [b \in Products |->
             IF r = s /\ b \in bs /\ l[r][b] \in Held THEN status ELSE l[r][b]]]
<1>1. PICK row : row = [b \in Products |->
                          IF b \in bs /\ l[s][b] \in Held THEN status ELSE l[s][b]]
  OBVIOUS
<1>2. Settle(l, s, bs, status) = [l EXCEPT ![s] = row]
  BY <1>1 DEF Settle
<1>3. [l EXCEPT ![s] = row] = [r \in Sessions |-> IF r = s THEN row ELSE l[r]]
  OBVIOUS
<1>4. ASSUME NEW r \in Sessions
      PROVE  (IF r = s THEN row ELSE l[r]) =
               [b \in Products |-> IF r = s /\ b \in bs /\ l[r][b] \in Held THEN status
                                   ELSE l[r][b]]
  <2>1. l[r] = [b \in Products |-> l[r][b]]
    OBVIOUS
  <2> QED
    BY <1>1, <2>1
<1> QED
  BY <1>2, <1>3, <1>4

LEMMA ExpireFacts ==
  ASSUME NEW s \in Sessions, NEW b \in Products
  PROVE  /\ expire_stale_leases[s][b] \in Held => lease[s][b] \in Held
         /\ expire_stale_leases = [r \in Sessions |-> [c \in Products |-> expire_stale_leases[r][c]]]
BY DEF expire_stale_leases, Held

\* Sweeping, then extending what a session has left.
LEMMA SweepFacts ==
  ASSUME NEW s, lease' = extend_leases(expire_stale_leases, s)
  PROVE  LeaseTable' /\ Shrinks
<1> DEFINE l == expire_stale_leases
<1>1. /\ l = [r \in Sessions |-> [b \in Products |-> l[r][b]]]
      /\ \A r \in Sessions, b \in Products : l[r][b] \in Held => lease[r][b] \in Held
  BY DEF expire_stale_leases, Held
<1> HIDE DEF l
<1>2. lease' = [r \in Sessions |-> [b \in Products |->
                 IF r = s /\ b \in Products /\ l[r][b] \in Held THEN "leased" ELSE l[r][b]]]
  BY <1>1, SettleFacts DEF extend_leases, l
<1> QED
  BY <1>1, <1>2 DEF LeaseTable, Shrinks

\* What every step but claim_leases does to the leases.
LEMMA EnvironmentShrinks ==
  ASSUME LeaseTable, Environment
  PROVE  LeaseTable' /\ Shrinks
<1>1. CASE \E p \in People, s \in Sessions : create_session(p, s)
  <2>1. PICK p \in People, s \in Sessions : create_session(p, s)
    BY <1>1
  <2> DEFINE prior == {r \in live : who[r] = p}
  <2>2. \A r \in Sessions : Settle(lease, r, Products, "released") =
          [q \in Sessions |-> [b \in Products |->
             IF q = r /\ b \in Products /\ lease[q][b] \in Held THEN "released"
             ELSE lease[q][b]]]
    BY SettleFacts DEF LeaseTable
  <2>3. lease' = [r \in Sessions |-> IF r \in prior THEN Settle(lease, r, Products, "released")[r]
                                     ELSE lease[r]]
    BY <2>1 DEF create_session
  <2>4. \A r \in Sessions : lease[r] = [b \in Products |-> lease[r][b]]
    BY DEF LeaseTable
  <2> HIDE DEF prior
  <2>5. ASSUME NEW r \in Sessions
        PROVE  \/ lease'[r] = lease[r]
               \/ lease'[r] = [b \in Products |->
                    IF lease[r][b] \in Held THEN "released" ELSE lease[r][b]]
    <3>1. Settle(lease, r, Products, "released")[r] =
            [b \in Products |-> IF b \in Products /\ lease[r][b] \in Held THEN "released"
                                ELSE lease[r][b]]
      BY <2>2
    <3>2. [b \in Products |-> IF b \in Products /\ lease[r][b] \in Held THEN "released"
                              ELSE lease[r][b]]
            = [b \in Products |-> IF lease[r][b] \in Held THEN "released" ELSE lease[r][b]]
      OBVIOUS
    <3>3. lease'[r] = IF r \in prior THEN Settle(lease, r, Products, "released")[r] ELSE lease[r]
      BY <2>3
    <3> QED
      BY <3>1, <3>2, <3>3
  <2>6. ASSUME NEW r \in Sessions
        PROVE  /\ lease'[r] = [b \in Products |-> lease'[r][b]]
               /\ \A b \in Products : lease'[r][b] \in Held => lease[r][b] \in Held
    <3>1. CASE lease'[r] = lease[r]
      BY <2>4, <3>1
    <3>2. CASE lease'[r] = [b \in Products |->
                 IF lease[r][b] \in Held THEN "released" ELSE lease[r][b]]
      BY <3>2 DEF Held
    <3> QED
      BY <2>5, <3>1, <3>2
  <2>7. LeaseTable'
    BY <2>3, <2>6 DEF LeaseTable
  <2> QED
    BY <2>6, <2>7 DEF Shrinks
<1>2. CASE \E s \in Sessions : end_session(s)
  <2>1. PICK s \in Sessions : lease' = Settle(lease, s, Products, "released")
    BY <1>2 DEF end_session
  <2>4. \A r \in Sessions : Settle(lease, r, Products, "released") =
          [q \in Sessions |-> [b \in Products |->
             IF q = r /\ b \in Products /\ lease[q][b] \in Held THEN "released"
             ELSE lease[q][b]]]
    BY SettleFacts DEF LeaseTable
  <2>2. lease' = [r \in Sessions |-> [b \in Products |->
             IF r = s /\ b \in Products /\ lease[r][b] \in Held THEN "released"
             ELSE lease[r][b]]]
    BY <2>1, <2>4
  <2> QED
    BY <2>2 DEF LeaseTable, Shrinks, Held
<1>3. CASE \E s \in Sessions : bump_leases(s)
  BY <1>3, SweepFacts DEF bump_leases
<1>4. CASE \E s \in Sessions, b \in Products : Lapse(s, b)
  <2>1. PICK s \in Sessions, b \in Products :
          lease[s][b] = "leased" /\ lease' = [lease EXCEPT ![s][b] = "stale"]
    BY <1>4 DEF Lapse
  <2>2. /\ \A r \in Sessions, c \in Products :
             lease'[r][c] = IF r = s /\ c = b THEN "stale" ELSE lease[r][c]
        /\ LeaseTable'
    BY <2>1 DEF LeaseTable
  <2> QED
    BY <2>1, <2>2 DEF Shrinks, Held
<1>5. CASE \E s \in Sessions, b \in Products : skip_item(s, b)
  <2>1. PICK s \in Sessions, b \in Products :
          lease' = [r \in Sessions |-> [c \in Products |->
                     IF r = s /\ c = b THEN "released"
                     ELSE IF lease[r][c] = "stale" THEN "released" ELSE lease[r][c]]]
    BY <1>5 DEF skip_item
  <2> QED
    BY <2>1 DEF LeaseTable, Shrinks, Held
<1>6. CASE NextDay \/ \E b \in Products, n \in {-1, 1}, applied \in BOOLEAN : Bill(b, n, applied)
  <2>1. UNCHANGED lease
    BY <1>6 DEF NextDay, Bill, local
  <2> QED
    BY <2>1 DEF LeaseTable, Shrinks
<1> QED
  BY <1>1, <1>2, <1>3, <1>4, <1>5, <1>6 DEF Environment

LEMMA HandlerShrinks ==
  ASSUME LeaseTable, NEW t \in Threads, Handler(t), ~claim_leases(t)
  PROVE  LeaseTable' /\ Shrinks
<1>1. CASE UNCHANGED lease
  BY <1>1 DEF LeaseTable, Shrinks
<1>2. CASE SubmitDone(t)
  <2>1. lease' = Settle(lease, job[t].s, {job[t].b}, "done")
    BY <1>2 DEF SubmitDone, mark_lease_done
  <2>2. lease' = [r \in Sessions |-> [b \in Products |->
             IF r = job[t].s /\ b \in {job[t].b} /\ lease[r][b] \in Held THEN "done"
             ELSE lease[r][b]]]
    BY <2>1, SettleFacts DEF LeaseTable
  <2> QED
    BY <2>2 DEF LeaseTable, Shrinks, Held
<1>3. CASE \E d \in Drafts : create_draft(t, d)
  BY <1>3, SweepFacts DEF create_draft
<1>4. CASE Rewrites(t)
  BY <1>1, <1>4, OneKind
<1>5. CASE TakeHeld(t) \/ SyncRead(t) \/ SyncWrite(t) \/ _enqueue_mirror(t) \/ add_rejection(t)
           \/ PostBegin(t) \/ post_stock_adjustment(t) \/ Crash(t)
  <2>1. UNCHANGED lease
    BY <1>5 DEF TakeHeld, SyncRead, SyncWrite, _enqueue_mirror, add_rejection, PostBegin,
       post_stock_adjustment, Crash, local
  <2> QED
    BY <1>1, <2>1
<1> QED
  BY <1>2, <1>3, <1>4, <1>5 DEF Handler, Rewrites

LEMMA RequestShrinks ==
  ASSUME LeaseTable, NEW t \in Threads, NEW s \in Sessions, Request(t, s)
  PROVE  LeaseTable' /\ Shrinks
<1>1. UNCHANGED lease \/ lease' = expire_stale_leases
  BY DEF Request, TakeRead, lookup, SubmitRead, EditRead, ResubmitRead, WithdrawRead, RejectRead,
     ApproveRead, local
<1>2. CASE UNCHANGED lease
  BY <1>2 DEF LeaseTable, Shrinks
<1>3. CASE lease' = expire_stale_leases
  BY <1>3 DEF LeaseTable, Shrinks, expire_stale_leases, Held
<1> QED
  BY <1>1, <1>2, <1>3

----------------------------------------------------------------------------

LEMMA StillUnheld ==
  ASSUME Shrinks, NEW j, Unheld(j)
  PROVE  Unheld(j)'
BY DEF Shrinks, Unheld, active_leased_bcodes

LEMMA OneHolderShrinks ==
  ASSUME LeasesInv, Shrinks, alone' => alone
  PROVE  LeasedToOne'
BY DEF LeasesInv, LeasedToOne, Shrinks

LEMMA LeasesMove ==
  ASSUME IInv, AloneInv, NEW t \in Threads, Moves(t), LeaseTable', LeasedToOne',
         alone' => Unheld(job[t])'
  PROVE  LeasesInv'
<1>1. alone' => \A u \in Threads \ {t} : job'[u].pc = "idle"
  BY AfterMove DEF AloneInv
<1> QED
  BY <1>1 DEF LeasesInv, Unheld

LEMMA ClaimLeases ==
  ASSUME IInv, AloneInv, LeasesInv, NEW t \in Threads, claim_leases(t)
  PROVE  LeasesInv'
<1>1. Moves(t) /\ job'[t].pc \in {"idle", "sync.read"} /\ alone' = alone
      /\ job[t].pc = "take.claim"
  BY HandlerMoves, HandlerJob DEF AloneInv, Handler, claim_leases
<1>2. PICK s, claimed :
        /\ claimed = {b \in job[t].picked : lease[s][b] = "none"}
        /\ lease' = extend_leases([lease EXCEPT ![s] = [b \in Products |->
                       IF b \in claimed THEN "leased" ELSE @[b]]], s)
  BY DEF claim_leases
<1> DEFINE l == [r \in Sessions |-> [b \in Products |->
                   IF r = s /\ b \in claimed THEN "leased" ELSE lease[r][b]]]
<1>3. [lease EXCEPT ![s] = [b \in Products |-> IF b \in claimed THEN "leased" ELSE @[b]]] = l
  <2>1. \A r \in Sessions : lease[r] = [b \in Products |-> lease[r][b]]
    BY DEF LeasesInv, LeaseTable
  <2>2. lease = [r \in Sessions |-> lease[r]]
    BY DEF LeasesInv, LeaseTable
  <2>3. PICK row : row = [b \in Products |-> IF b \in claimed THEN "leased" ELSE lease[s][b]]
    OBVIOUS
  <2>4. [lease EXCEPT ![s] = row] = [r \in Sessions |-> IF r = s THEN row ELSE lease[r]]
    BY <2>2
  <2>5. \A r \in Sessions : (IF r = s THEN row ELSE lease[r]) =
          [b \in Products |-> IF r = s /\ b \in claimed THEN "leased" ELSE lease[r][b]]
    BY <2>1, <2>3
  <2>6. [lease EXCEPT ![s] = [b \in Products |-> IF b \in claimed THEN "leased" ELSE @[b]]]
          = [lease EXCEPT ![s] = row]
    BY <2>3
  <2>7. [lease EXCEPT ![s] = row] = l
    BY <2>4, <2>5
  <2> QED
    BY <2>6, <2>7
<1>4. /\ l = [r \in Sessions |-> [b \in Products |-> l[r][b]]]
      /\ \A r \in Sessions, b \in Products :
           l[r][b] \in Held => lease[r][b] \in Held \/ (r = s /\ b \in claimed)
  BY DEF Held
<1>5. lease' = extend_leases(l, s)
  BY <1>2, <1>3
<1> HIDE DEF l
<1>6. lease' = [r \in Sessions |-> [b \in Products |->
                 IF r = s /\ b \in Products /\ l[r][b] \in Held THEN "leased" ELSE l[r][b]]]
  BY <1>4, <1>5, SettleFacts DEF extend_leases
<1>7. LeaseTable' /\ \A r \in Sessions, b \in Products :
           lease'[r][b] \in Held => lease[r][b] \in Held \/ (r = s /\ b \in claimed)
  BY <1>4, <1>6 DEF LeaseTable
<1>8. alone => \A r \in Sessions, b \in Products : b \in claimed => lease[r][b] \notin Held
  BY <1>1, <1>2 DEF LeasesInv, Unheld, active_leased_bcodes
<1>9. LeasedToOne'
  <2> SUFFICES ASSUME alone, NEW r \in Sessions, NEW q \in Sessions, NEW b \in Products,
                      lease'[r][b] \in Held, lease'[q][b] \in Held
               PROVE  r = q
    BY <1>1 DEF LeasedToOne
  <2>1. CASE b \in claimed
    BY <1>7, <1>8, <2>1
  <2>2. CASE b \notin claimed
    BY <1>7, <2>2 DEF LeasesInv, LeasedToOne
  <2> QED
    BY <2>1, <2>2
<1>10. Unheld(job[t])'
  BY <1>1 DEF Unheld
<1> QED
  BY <1>1, <1>7, <1>9, <1>10, LeasesMove

LEMMA HandlerLeases ==
  ASSUME IInv, AloneInv, LeasesInv, NEW t \in Threads, Handler(t), ~claim_leases(t)
  PROVE  LeasesInv'
<1>1. Moves(t) /\ (alone' => alone)
  BY HandlerMoves DEF AloneInv, Moves
<1>2. LeaseTable' /\ Shrinks
  BY HandlerShrinks DEF LeasesInv
<1>3. LeasedToOne'
  BY <1>1, <1>2, OneHolderShrinks
<1>4. Unheld(job[t])'
  <2>1. CASE TakeHeld(t)
    <3>1. UNCHANGED lease /\ job'[t].picked = job[t].picked \ active_leased_bcodes(lease)
      BY <2>1, HandlerJob DEF TakeHeld, local
    <3> QED
      BY <3>1 DEF Unheld, active_leased_bcodes
  <2>2. CASE job'[t].pc \notin {"take.held", "take.claim"}
    BY <2>2 DEF Unheld
  <2>3. CASE Rewrites(t)
    BY <2>2, <2>3, RewriterJob, Went
  <2>4. CASE SubmitDone(t)
    <3>1. job'[t].pc = "idle" \/ Goto(t, "audit")
      BY <2>4, HandlerJob
    <3>2. Goto(t, "audit") => job'[t].pc = "audit"
      BY Went
    <3> QED
      BY <2>2, <3>1, <3>2
  <2>5. CASE add_rejection(t) \/ post_stock_adjustment(t)
    BY <2>2, <2>5, Went DEF add_rejection, post_stock_adjustment
  <2>6. CASE \/ SyncRead(t) \/ SyncWrite(t) \/ _enqueue_mirror(t) \/ PostBegin(t) \/ Crash(t)
             \/ \E d \in Drafts : create_draft(t, d)
    BY <2>2, <2>6, HandlerJob
  <2> QED
    BY <2>1, <2>3, <2>4, <2>5, <2>6 DEF Handler, Rewrites
<1> QED
  BY <1>1, <1>2, <1>3, <1>4, LeasesMove

LEMMA NextLeases == IInv /\ AloneInv /\ LeasesInv /\ [Next]_vars => LeasesInv'
<1> SUFFICES ASSUME IInv, AloneInv, LeasesInv, [Next]_vars PROVE LeasesInv'
  OBVIOUS
<1>1. CASE Environment
  <2>1. LeaseTable' /\ Shrinks /\ UNCHANGED job /\ (alone' => alone)
    BY <1>1, EnvironmentShrinks, EnvironmentMoves DEF LeasesInv
  <2>2. ASSUME NEW t \in Threads, alone' PROVE Unheld(job[t])'
    <3>1. PICK j : j = job[t] /\ Unheld(j)
      BY <2>1, <2>2 DEF LeasesInv
    <3>2. Unheld(j)'
      BY <2>1, <3>1, StillUnheld
    <3> QED
      BY <2>1, <3>1, <3>2 DEF Unheld
  <2> QED
    BY <2>1, <2>2, OneHolderShrinks DEF LeasesInv
<1>2. ASSUME NEW t \in Threads, Handler(t) PROVE LeasesInv'
  BY <1>2, ClaimLeases, HandlerLeases
<1>3. ASSUME NEW t \in Threads, NEW s \in Sessions, Request(t, s) PROVE LeasesInv'
  <2>1. Moves(t) /\ (alone' => alone)
    BY <1>3, RequestMoves DEF Moves
  <2>2. LeaseTable' /\ Shrinks
    BY <1>3, RequestShrinks DEF LeasesInv
  <2>3. Unheld(job[t])'
    BY <1>3, RequestJob DEF Asked, Unheld, Owning, active_leased_bcodes
  <2> QED
    BY <2>1, <2>2, <2>3, OneHolderShrinks, LeasesMove
<1>4. CASE UNCHANGED vars
  <2>1. UNCHANGED <<lease, job, alone>>
    BY <1>4 DEF vars, local
  <2> QED
    BY <2>1 DEF LeasesInv, LeaseTable, Unheld, LeasedToOne, active_leased_bcodes
<1> QED
  BY <1>1, <1>2, <1>3, <1>4 DEF Next

----------------------------------------------------------------------------
\* While handlers run one after another, even if they die half-way, a product has one open
\* draft and is leased to one session (service.py, _assert_can_submit; local_store.py,
\* claim_leases).
THEOREM OneHolds == Spec => []OneHolder
<1>1. Init => LeasesInv
  BY InitLeases
<1>2. IInv /\ AloneInv /\ LeasesInv => OneHolder
  BY DEF AloneInv, LeasesInv, OneHolder
<1> QED
  BY <1>1, <1>2, NextLeases, AloneInvariance, PTL DEF Spec
----------------------------------------------------------------------------
\* While handlers run one after another a posted draft says what its bill says; when none of
\* them died, a draft has at most one bill and one audit row.

BillNow(j) ==
  /\ j.pc \in {"approve.begin", "approve.post", "approve.write"}
       => j.var = draft[j.d].counted - j.sys
  /\ j.pc = "approve.write" => Last(bills[j.d]) = j.var

Auditable(j) ==
  /\ j.pc = "submit.done" => /\ j.d \in Drafts
                             /\ draft[j.d].status = IF j.counted = j.seen[j.b]
                                                    THEN "completed" ELSE "pending"
  /\ j.pc = "audit" => j.d \in Drafts /\ draft[j.d].status \in Final \ {"rejected"}

\* What the handler in progress still owes the draft d: its audit row, its status.
Unaudited(d) == \E t \in Threads : job[t].pc \in {"submit.done", "audit"} /\ job[t].d = d
Unwritten(d) == \E t \in Threads : job[t].pc = "approve.write" /\ job[t].d = d

OnceOK(d) ==
  /\ Len(bills[d]) <= 1
  /\ audits[d] = IF draft[d].status \in Final \ {"rejected"} /\ ~Unaudited(d) THEN 1 ELSE 0
  /\ bills[d] # <<>> <=> draft[d].status = "posted" \/ Unwritten(d)

VarianceOK(d) ==
  draft[d].status = "posted" => /\ draft[d].var = draft[d].counted - draft[d].sys
                                /\ Last(bills[d]) = draft[d].var

BillsInv ==
  /\ crashes \in Nat /\ audits = [d \in Drafts |-> audits[d]]
  /\ alone => \A t \in Threads : BillNow(job[t]) /\ Auditable(job[t])
  /\ alone => \A d \in Drafts : VarianceOK(d)
  /\ alone /\ crashes = 0 => \A d \in Drafts : OnceOK(d)

LEMMA InitBills == Init => BillsInv
<1> SUFFICES ASSUME Init PROVE BillsInv
  OBVIOUS
<1>1. \A t \in Threads : job[t].pc = "idle"
  BY IdleFacts DEF Init
<1>2. \A d \in Drafts : draft[d].status = "none" /\ bills[d] = <<>> /\ audits[d] = 0
  BY DEF Init, NoRow
<1>3. crashes = 0 /\ audits = [d \in Drafts |-> audits[d]]
  BY DEF Init
<1>4. \A d \in Drafts : VarianceOK(d)
  BY <1>2 DEF VarianceOK
<1>5. \A d \in Drafts : OnceOK(d)
  BY <1>1, <1>2 DEF OnceOK, Unaudited, Unwritten, Final, Statuses
<1> QED
  BY <1>1, <1>3, <1>4, <1>5 DEF BillsInv, BillNow, Auditable

\* What is to be shown of a move of t that leaves the drafts but d, and their bills and audit
\* rows, as they are.
LEMMA BillsMove ==
  ASSUME IInv, AloneInv, BillsInv, NEW t \in Threads, Moves(t), NEW d,
         \A e \in Drafts \ {d} : /\ draft'[e] = draft[e] /\ bills'[e] = bills[e]
                                 /\ audits'[e] = audits[e],
         crashes' \in Nat, crashes' = 0 => crashes = 0, audits' = [e \in Drafts |-> audits'[e]],
         job[t].pc \in {"submit.done", "audit", "approve.write"} => job[t].d = d,
         job'[t].pc \in {"submit.done", "audit", "approve.write"} => job'[t].d = d,
         alone' => BillNow(job[t])' /\ Auditable(job[t])',
         alone' /\ d \in Drafts => VarianceOK(d)',
         alone' /\ crashes' = 0 /\ d \in Drafts => OnceOK(d)'
  PROVE  BillsInv'
<1>1. /\ alone' => \A u \in Threads \ {t} : job'[u].pc = "idle"
      /\ \A u \in Threads \ {t} : job'[u] = job[u]
  BY AfterMove DEF AloneInv
<1>2. alone' => \A u \in Threads : BillNow(job[u])' /\ Auditable(job[u])'
  BY <1>1 DEF BillNow, Auditable
<1>3. ASSUME alone', NEW e \in Drafts \ {d} PROVE VarianceOK(e)'
  BY <1>3 DEF BillsInv, Moves, VarianceOK
<1>4. ASSUME alone', crashes' = 0, NEW e \in Drafts \ {d} PROVE OnceOK(e)'
  <2>1. OnceOK(e)
    BY <1>4 DEF BillsInv, Moves
  <2>2. Unaudited(e)' <=> Unaudited(e)
    BY <1>1 DEF Unaudited
  <2>3. Unwritten(e)' <=> Unwritten(e)
    BY <1>1 DEF Unwritten
  <2> QED
    BY <2>1, <2>2, <2>3 DEF OnceOK
<1> QED
  BY <1>2, <1>3, <1>4 DEF BillsInv

\* A move that neither owes nor pays a draft anything.
LEMMA BillsQuiet ==
  ASSUME IInv, AloneInv, BillsInv, NEW t \in Threads, Moves(t), UNCHANGED <<draft, bills, audits>>,
         crashes' \in Nat, crashes' = 0 => crashes = 0,
         job[t].pc \notin {"submit.done", "audit", "approve.write"} \/ crashes' # 0,
         job'[t].pc \notin {"submit.done", "audit", "approve.write"},
         alone' => BillNow(job[t])'
  PROVE  BillsInv'
<1>1. /\ alone' => \A u \in Threads \ {t} : job'[u].pc = "idle"
      /\ \A u \in Threads \ {t} : job'[u] = job[u]
  BY AfterMove DEF AloneInv
<1>2. alone' => \A u \in Threads : BillNow(job[u])' /\ Auditable(job[u])'
  BY <1>1 DEF BillNow, Auditable
<1>3. alone' => \A e \in Drafts : VarianceOK(e)'
  BY DEF BillsInv, Moves, VarianceOK
<1>4. ASSUME alone', crashes' = 0, NEW e \in Drafts PROVE OnceOK(e)'
  <2>1. OnceOK(e)
    BY <1>4 DEF BillsInv, Moves
  <2>2. Unaudited(e)' <=> Unaudited(e)
    BY <1>1, <1>4 DEF Unaudited
  <2>3. Unwritten(e)' <=> Unwritten(e)
    BY <1>1, <1>4 DEF Unwritten
  <2> QED
    BY <2>1, <2>2, <2>3 DEF OnceOK
<1> QED
  BY <1>2, <1>3, <1>4 DEF BillsInv

----------------------------------------------------------------------------
\* The steps.

LEMMA BillsRequest ==
  ASSUME IInv, AloneInv, BillsInv, NEW t \in Threads, NEW s \in Sessions, Request(t, s)
  PROVE  BillsInv'
<1>1. Moves(t) /\ UNCHANGED <<draft, bills, audits, crashes>> /\ job[t].pc = "idle"
  BY RequestMoves DEF parts9
<1>2. job'[t].pc \notin {"submit.done", "audit", "approve.write"} /\ BillNow(job[t])'
  BY <1>1, RequestJob DEF Asked, Owning, BillNow
<1> QED
  BY <1>1, <1>2, BillsQuiet DEF BillsInv

LEMMA BillsGoOn ==
  ASSUME IInv, AloneInv, BillsInv, NEW t \in Threads,
         TakeHeld(t) \/ claim_leases(t) \/ SyncRead(t) \/ SyncWrite(t) \/ add_rejection(t)
         \/ PostBegin(t)
  PROVE  BillsInv'
<1>1. /\ Moves(t) /\ UNCHANGED <<draft, bills, audits, alone, crashes>>
      /\ job[t].pc \notin {"submit.done", "audit", "approve.write"}
  <2>1. Handler(t)
    BY DEF Handler
  <2>2. Moves(t)
    BY <2>1, HandlerMoves DEF AloneInv
  <2> QED
    BY <2>2 DEF TakeHeld, claim_leases, SyncRead, SyncWrite, add_rejection, PostBegin, local, parts9
<1>2. CASE TakeHeld(t) \/ claim_leases(t) \/ SyncRead(t) \/ SyncWrite(t)
  <2>1. job'[t].pc \in {"take.claim", "idle", "sync.read", "sync.write"}
    BY <1>2, HandlerJob
  <2> QED
    BY <1>1, <2>1, BillsQuiet DEF BillsInv, BillNow
<1>3. CASE add_rejection(t)
  <2>1. job'[t].pc = "reject.write"
    BY <1>3, Went DEF add_rejection
  <2> QED
    BY <1>1, <2>1, BillsQuiet DEF BillsInv, BillNow
<1>4. CASE PostBegin(t)
  <2>1. /\ job'[t].pc = "approve.post" /\ job[t].pc = "approve.begin"
        /\ job'[t].d = job[t].d /\ job'[t].sys = job[t].sys /\ job'[t].var = job[t].var
    BY <1>4, HandlerJob DEF PostBegin
  <2>2. alone' => BillNow(job[t])'
    BY <1>1, <2>1 DEF BillsInv, BillNow
  <2> QED
    BY <1>1, <2>1, <2>2, BillsQuiet DEF BillsInv
<1> QED
  BY <1>2, <1>3, <1>4

LEMMA BillsCrash ==
  ASSUME IInv, AloneInv, BillsInv, NEW t \in Threads, Crash(t)
  PROVE  BillsInv'
<1>1. /\ Moves(t) /\ UNCHANGED <<draft, bills, audits>> /\ crashes' = crashes + 1
      /\ job'[t].pc = "idle"
  BY HandlerMoves, HandlerJob DEF AloneInv, Handler, Crash, local, parts9
<1> QED
  BY <1>1, BillsQuiet DEF BillsInv, BillNow

LEMMA BillsCreate ==
  ASSUME IInv, AloneInv, BillsInv, NEW t \in Threads, NEW d \in Drafts, create_draft(t, d)
  PROVE  BillsInv'
<1>1. /\ Moves(t) /\ UNCHANGED <<bills, audits, alone, crashes>> /\ job[t].pc = "submit.draft"
      /\ draft[d].status = "none"
  BY HandlerMoves DEF AloneInv, Handler, create_draft, parts9
<1>2. /\ \A e \in Drafts \ {d} : draft'[e] = draft[e]
      /\ draft'[d].status = IF job[t].counted = job[t].seen[job[t].b]
                            THEN "completed" ELSE "pending"
  BY CreateFacts
<1>3. /\ job'[t].pc = "submit.done" /\ job'[t].d = d /\ job'[t].b = job[t].b
      /\ job'[t].counted = job[t].counted /\ job'[t].seen = job[t].seen
  BY HandlerJob
<1>4. BillNow(job[t])' /\ Auditable(job[t])'
  BY <1>2, <1>3 DEF BillNow, Auditable
<1>5. VarianceOK(d)'
  BY <1>2 DEF VarianceOK
<1>6. alone' /\ crashes' = 0 => OnceOK(d)'
  <2> SUFFICES ASSUME alone', crashes' = 0 PROVE OnceOK(d)'
    OBVIOUS
  <2>1. Unaudited(d)'
    BY <1>3 DEF Unaudited
  <2>2. ~Unwritten(d)'
    BY <1>1, <1>3, AfterMove DEF Unwritten, AloneInv
  <2>3. ~Unwritten(d)
    BY <1>1 DEF Unwritten, Moves
  <2>4. OnceOK(d)
    BY <1>1 DEF BillsInv
  <2>5. audits'[d] = 0 /\ bills'[d] = <<>> /\ Len(bills'[d]) <= 1
    BY <1>1, <2>3, <2>4 DEF OnceOK, Final
  <2> QED
    BY <1>2, <2>1, <2>2, <2>5 DEF OnceOK
<1> QED
  BY <1>1, <1>2, <1>3, <1>4, <1>5, <1>6, BillsMove DEF BillsInv

LEMMA BillsSubmitDone ==
  ASSUME IInv, AloneInv, BillsInv, NEW t \in Threads, SubmitDone(t)
  PROVE  BillsInv'
<1>1. /\ Moves(t) /\ UNCHANGED <<draft, bills, audits, alone, crashes>>
      /\ job[t].pc = "submit.done"
  BY HandlerMoves DEF AloneInv, Handler, SubmitDone, parts9
<1>2. \/ job'[t].pc = "idle" /\ job[t].counted # job[t].seen[job[t].b]
      \/ /\ job[t].counted = job[t].seen[job[t].b]
         /\ job'[t].pc = "audit" /\ job'[t].d = job[t].d
  BY Returned, Went DEF SubmitDone
<1>3. PICK d : d = job[t].d
  OBVIOUS
<1>4. alone' => d \in Drafts /\ draft[d].status = IF job[t].counted = job[t].seen[job[t].b]
                                                  THEN "completed" ELSE "pending"
  BY <1>1, <1>3 DEF BillsInv, Auditable
<1>5. alone' => BillNow(job[t])' /\ Auditable(job[t])'
  BY <1>1, <1>2, <1>3, <1>4 DEF BillNow, Auditable, Final, Statuses, Open
<1>6. alone' /\ d \in Drafts => VarianceOK(d)'
  BY <1>1 DEF BillsInv, VarianceOK
<1>7. alone' /\ crashes' = 0 /\ d \in Drafts => OnceOK(d)'
  <2> SUFFICES ASSUME alone', crashes' = 0, d \in Drafts PROVE OnceOK(d)'
    OBVIOUS
  <2>1. OnceOK(d) /\ Unaudited(d) /\ ~Unwritten(d)
    BY <1>1, <1>3 DEF BillsInv, Unaudited, Unwritten, Moves
  <2>2. ~Unwritten(d)'
    BY <1>1, <1>2, AfterMove DEF Unwritten, AloneInv
  <2>3. job'[t].pc = "audit" => Unaudited(d)'
    BY <1>2, <1>3 DEF Unaudited
  <2>4. job'[t].pc = "idle" => draft[d].status = "pending"
    BY <1>2, <1>4
  <2> QED
    BY <1>1, <1>2, <2>1, <2>2, <2>3, <2>4 DEF OnceOK, Final, Open
<1> QED
  BY <1>1, <1>2, <1>3, <1>5, <1>6, <1>7, BillsMove DEF BillsInv

LEMMA BillsAudit ==
  ASSUME IInv, AloneInv, BillsInv, NEW t \in Threads, _enqueue_mirror(t)
  PROVE  BillsInv'
<1>1. PICK d : d = job[t].d
  OBVIOUS
<1>2. /\ Moves(t) /\ UNCHANGED <<draft, bills, alone, crashes>> /\ job[t].pc = "audit"
      /\ audits' = [audits EXCEPT ![d] = @ + 1] /\ job'[t].pc = "idle"
  BY <1>1, HandlerMoves, HandlerJob DEF AloneInv, Handler, _enqueue_mirror, parts9
<1>3. /\ audits' = [e \in Drafts |-> audits'[e]]
      /\ \A e \in Drafts \ {d} : audits'[e] = audits[e]
      /\ d \in Drafts => audits'[d] = audits[d] + 1
  BY <1>2 DEF BillsInv
<1>4. BillNow(job[t])' /\ Auditable(job[t])'
  BY <1>2 DEF BillNow, Auditable
<1>5. alone' /\ d \in Drafts => VarianceOK(d)'
  BY <1>2 DEF BillsInv, VarianceOK
<1>6. alone' /\ crashes' = 0 /\ d \in Drafts => OnceOK(d)'
  <2> SUFFICES ASSUME alone', crashes' = 0, d \in Drafts PROVE OnceOK(d)'
    OBVIOUS
  <2>1. OnceOK(d) /\ Unaudited(d) /\ ~Unwritten(d)
    BY <1>1, <1>2 DEF BillsInv, Unaudited, Unwritten, Moves
  <2>2. ~Unwritten(d)' /\ ~Unaudited(d)'
    BY <1>2, AfterMove DEF Unwritten, Unaudited, AloneInv
  <2>3. draft[d].status \in Final \ {"rejected"}
    BY <1>1, <1>2 DEF BillsInv, Auditable
  <2> QED
    BY <1>2, <1>3, <2>1, <2>2, <2>3 DEF OnceOK
<1> QED
  BY <1>1, <1>2, <1>3, <1>4, <1>5, <1>6, BillsMove DEF BillsInv

LEMMA BillsPost ==
  ASSUME IInv, AloneInv, BillsInv, NEW t \in Threads, post_stock_adjustment(t)
  PROVE  BillsInv'
<1>1. PICK d \in Drafts : d = job[t].d
  BY Current DEF post_stock_adjustment, JobOK, Auditing
<1>2. /\ Moves(t) /\ UNCHANGED <<draft, audits, alone, crashes>> /\ job[t].pc = "approve.post"
      /\ bills' = [bills EXCEPT ![d] = Append(@, job[t].var)]
  BY <1>1, HandlerMoves DEF AloneInv, Handler, post_stock_adjustment, local
<1>3. /\ job'[t].pc = "approve.write" /\ job'[t].d = d /\ job'[t].sys = job[t].sys
      /\ job'[t].var = job[t].var
  BY <1>1, Went DEF post_stock_adjustment
<1>4. /\ \A e \in Drafts \ {d} : bills'[e] = bills[e]
      /\ bills'[d] = Append(bills[d], job[t].var) /\ IsList(bills[d])
  BY <1>2 DEF IInv, Shape
<1>5. Len(bills'[d]) = Len(bills[d]) + 1 /\ Last(bills'[d]) = job[t].var /\ bills'[d] # <<>>
      /\ (bills[d] = <<>> => Len(bills[d]) = 0)
  <2>1. PICK S : bills[d] \in Seq(S)
    BY <1>4 DEF IsList
  <2>2. bills[d] \in Seq(S \cup {job[t].var}) /\ job[t].var \in S \cup {job[t].var}
    BY <2>1
  <2>3. /\ Len(Append(bills[d], job[t].var)) = Len(bills[d]) + 1
        /\ Append(bills[d], job[t].var)[Len(bills[d]) + 1] = job[t].var
        /\ Append(bills[d], job[t].var) # <<>>
    BY <2>2, AppendProperties
  <2> QED
    BY <1>4, <2>3 DEF Last
<1>6. alone => draft[d].status = "pending" /\ BillNow(job[t])
  BY <1>1, <1>2 DEF AloneInv, StillSo, Auditing, BillsInv
<1>7. alone' => BillNow(job[t])' /\ Auditable(job[t])'
  BY <1>1, <1>2, <1>3, <1>5, <1>6 DEF BillNow, Auditable
<1>8. alone' => VarianceOK(d)'
  BY <1>2, <1>6 DEF VarianceOK
<1>9. alone' /\ crashes' = 0 => OnceOK(d)'
  <2> SUFFICES ASSUME alone', crashes' = 0 PROVE OnceOK(d)'
    OBVIOUS
  <2>1. OnceOK(d) /\ ~Unaudited(d) /\ ~Unwritten(d)
    BY <1>2 DEF BillsInv, Unaudited, Unwritten, Moves
  <2>2. Unwritten(d)' /\ ~Unaudited(d)'
    BY <1>2, <1>3, AfterMove DEF Unwritten, Unaudited, AloneInv
  <2>3. bills[d] = <<>> /\ audits[d] = 0
    BY <1>2, <1>6, <2>1 DEF OnceOK, Final, Open
  <2>4. draft'[d].status = "pending" /\ audits'[d] = 0 /\ Len(bills'[d]) = 1
    BY <1>2, <1>5, <1>6, <2>3
  <2>5. bills'[d] # <<>> /\ "pending" \notin Final
    BY <1>5 DEF Final, Open
  <2> QED
    BY <2>2, <2>4, <2>5 DEF OnceOK
<1> QED
  BY <1>1, <1>2, <1>3, <1>4, <1>7, <1>8, <1>9, BillsMove DEF BillsInv

LEMMA BillsRewrite ==
  ASSUME IInv, AloneInv, BillsInv, NEW t \in Threads, Rewrites(t)
  PROVE  BillsInv'
<1>1. Moves(t) /\ UNCHANGED <<bills, audits, alone, crashes>>
  <2>1. Handler(t)
    BY DEF Handler, Rewrites
  <2> QED
    BY <2>1, HandlerMoves, OneKind DEF AloneInv, parts9
<1>2. PICK d \in Drafts : /\ d = job[t].d
                          /\ \A e \in Drafts \ {d} : draft'[e] = draft[e]
                          /\ Rewritten(t, draft[d], draft'[d])
  BY RewriteFacts
<1>3. job[t].pc \notin {"submit.done", "audit"}
  BY OneKind DEF Rewrites
<1>4. CASE ApproveComplete(t) \/ ApprovePosted(t)
  <2>1. Goto(t, "audit") /\ job[t].pc \in {"approve.complete", "approve.write"}
        /\ (job[t].pc = "approve.write" <=> ApprovePosted(t))
    BY <1>4, OneKind
  <2>2. job'[t].pc = "audit" /\ job'[t].d = d
    BY <1>2, <2>1, Went
  <2>3. /\ draft'[d].status \in {"completed", "completed_unexplained", "posted"}
        /\ draft'[d].status = "posted" <=> ApprovePosted(t)
        /\ draft'[d].counted = draft[d].counted
        /\ ApprovePosted(t) => draft'[d].sys = job[t].sys /\ draft'[d].var = job[t].var
    <3>1. CASE ApprovePosted(t)
      BY <1>2, <3>1 DEF Rewritten
    <3>2. CASE ApproveComplete(t) /\ ~ApprovePosted(t)
      BY <1>2, <3>2 DEF Rewritten
    <3> QED
      BY <1>4, <3>1, <3>2
  <2>4. alone => BillNow(job[t]) /\ draft[d].status = "pending"
    BY <1>2, <2>1 DEF BillsInv, AloneInv, StillSo, Auditing
  <2>5. BillNow(job[t])' /\ Auditable(job[t])'
    BY <2>2, <2>3 DEF BillNow, Auditable, Final, Statuses, Open
  <2>6. alone' => VarianceOK(d)'
    BY <1>1, <1>2, <2>1, <2>3, <2>4 DEF VarianceOK, BillNow
  <2>7. alone' /\ crashes' = 0 => OnceOK(d)'
    <3> SUFFICES ASSUME alone', crashes' = 0 PROVE OnceOK(d)'
      OBVIOUS
    <3>1. OnceOK(d) /\ ~Unaudited(d) /\ (Unwritten(d) <=> ApprovePosted(t))
      BY <1>1, <1>2, <1>3, <2>1 DEF BillsInv, Unaudited, Unwritten, Moves
    <3>2. Unaudited(d)' /\ ~Unwritten(d)'
      BY <1>1, <2>2, AfterMove DEF Unwritten, Unaudited, AloneInv
    <3> QED
      BY <1>1, <2>3, <2>4, <3>1, <3>2 DEF OnceOK, Final, Open
  <2> QED
    BY <1>1, <1>2, <1>3, <2>1, <2>2, <2>5, <2>6, <2>7, BillsMove DEF BillsInv
<1>5. CASE ~ApproveComplete(t) /\ ~ApprovePosted(t)
  <2>1. job'[t].pc = "idle" /\ job[t].pc # "approve.write"
    BY <1>5, RewriterJob, OneKind DEF Rewrites
  <2>2. alone => draft[d].status \in Open /\ draft'[d].status \in Open \cup {"rejected"}
    BY <1>2, <1>5, OneKind DEF AloneInv, StillSo, Rewrites, Rewritten, Auditing, Open
  <2>3. BillNow(job[t])' /\ Auditable(job[t])'
    BY <2>1 DEF BillNow, Auditable
  <2>4. alone' => VarianceOK(d)'
    BY <1>1, <2>2 DEF VarianceOK, Open
  <2>5. alone' /\ crashes' = 0 => OnceOK(d)'
    <3> SUFFICES ASSUME alone', crashes' = 0 PROVE OnceOK(d)'
      OBVIOUS
    <3>1. OnceOK(d) /\ ~Unaudited(d) /\ ~Unwritten(d)
      BY <1>1, <1>3, <2>1 DEF BillsInv, Unaudited, Unwritten, Moves
    <3>2. ~Unaudited(d)' /\ ~Unwritten(d)'
      BY <1>1, <2>1, AfterMove DEF Unwritten, Unaudited, AloneInv
    <3> QED
      BY <1>1, <2>2, <3>1, <3>2 DEF OnceOK, Final, Open
  <2> QED
    BY <1>1, <1>2, <1>3, <2>1, <2>3, <2>4, <2>5, BillsMove DEF BillsInv
<1> QED
  BY <1>4, <1>5

LEMMA NextBills == IInv /\ AloneInv /\ BillsInv /\ [Next]_vars => BillsInv'
<1> SUFFICES ASSUME IInv, AloneInv, BillsInv, [Next]_vars PROVE BillsInv'
  OBVIOUS
<1>1. CASE Environment \/ UNCHANGED vars
  <2>1. UNCHANGED <<draft, audits, bills, job, crashes>> /\ (alone' => alone)
    BY <1>1, EnvironmentMoves DEF vars, local, parts9
  <2> QED
    BY <2>1 DEF BillsInv, BillNow, Auditable, VarianceOK, OnceOK, Unaudited, Unwritten
<1>2. ASSUME NEW t \in Threads, Handler(t) PROVE BillsInv'
  BY <1>2, BillsGoOn, BillsCrash, BillsCreate, BillsSubmitDone, BillsAudit, BillsPost,
     BillsRewrite DEF Handler, Rewrites
<1>3. ASSUME NEW t \in Threads, NEW s \in Sessions, Request(t, s) PROVE BillsInv'
  BY <1>3, BillsRequest
<1> QED
  BY <1>1, <1>2, <1>3 DEF Next

----------------------------------------------------------------------------
\* While handlers run one after another a posted draft says what its bill says, and, when
\* none of them died, a draft has at most one bill and exactly one audit row once a count
\* closed it (service.py, approve: the bill, the draft, the audit row, in this order).
THEOREM DraftsCountedOnce == Spec => []CountedOnce
<1>1. IInv /\ AloneInv /\ BillsInv => CountedOnce
  <2> SUFFICES ASSUME BillsInv PROVE CountedOnce
    OBVIOUS
  <2>1. BillIsVariance
    BY DEF BillsInv, VarianceOK, BillIsVariance
  <2>2. ClosedOnce
    <3> SUFFICES ASSUME alone, crashes = 0, NEW d \in Drafts,
                        \A t \in Threads : job[t].d # d
                 PROVE  /\ audits[d] = IF draft[d].status \in Final \ {"rejected"} THEN 1 ELSE 0
                        /\ (bills[d] # <<>>) <=> (draft[d].status = "posted")
      BY DEF BillsInv, ClosedOnce, OnceOK
    <3> QED
      BY DEF BillsInv, OnceOK, Unaudited, Unwritten
  <2> QED
    BY <2>1, <2>2 DEF CountedOnce
<1> QED
  BY <1>1, InitBills, NextBills, AloneInvariance, PTL DEF Spec
----------------------------------------------------------------------------
\* While handlers run one after another QTYOH2 is what the bills sum to: what a handler read
\* of it, or of the bills, is still so when it writes.

QuantityJob(j) ==
  /\ j.pc \in {"submit.draft", "edit.write", "recount.write"} => j.counted \in Int
  /\ j.pc = "submit.draft" => j.b \in Products
  /\ j.pc = "sync.write" => j.seen \in [Products -> Int]
  /\ j.pc \in {"approve.begin", "approve.post"} => j.b \in Products /\ j.var \in Int
  /\ j.pc = "approve.post" => j.seen \in [Products -> Int]

Summed(j) ==
  /\ j.pc = "sync.write" => \A b \in Products : j.seen[b] = Ledger(b)
  /\ j.pc = "approve.post" => j.seen = onhand

QuantityRow(d) == draft[d].status # "none" => draft[d].b \in Products /\ draft[d].counted \in Int

StockInv ==
  /\ onhand \in [Products -> Int] /\ moved \in [Products -> [Days -> Int]] /\ day \in Days
  /\ \A d \in Drafts : QuantityRow(d)
  /\ \A t \in Threads : QuantityJob(job[t])
  /\ alone => \A t \in Threads : Summed(job[t])
  /\ StockIsLedger

LEMMA DayFacts == 0 \in Days /\ MaxDay \in Days /\ \A n \in Days : n + 1 <= MaxDay => n + 1 \in Days
BY StockAssumption DEF Days

LEMMA LedgerTyped ==
  ASSUME StockInv, NEW b \in Products
  PROVE  Ledger(b) \in Int
<1>1. moved[b][MaxDay] \in Int
  BY DayFacts DEF StockInv
<1>2. Since(b, 0) \in Int
  BY <1>1 DEF Since
<1> QED
  BY <1>2, StockAssumption DEF Ledger

\* A bill of today adds n to the ledger of b.
LEMMA DatedFacts ==
  ASSUME StockInv, NEW b \in Products, NEW n \in Int, moved' = Dated(b, n)
  PROVE  /\ moved' \in [Products -> [Days -> Int]]
         /\ \A c \in Products : Ledger(c)' = IF c = b THEN Ledger(c) + n ELSE Ledger(c)
<1>1. PICK row : row = [k \in Days |-> IF k >= day THEN moved[b][k] + n ELSE moved[b][k]]
  OBVIOUS
<1>2. moved' = [moved EXCEPT ![b] = row]
  BY <1>1 DEF Dated
<1>3. \A k \in Days : moved[b][k] \in Int
  BY DEF StockInv
<1>4. row \in [Days -> Int] /\ row[MaxDay] = moved[b][MaxDay] + n
  <2>1. MaxDay >= day
    BY StockAssumption DEF StockInv, Days
  <2> QED
    BY <1>1, <1>3, <2>1, DayFacts
<1>5. /\ moved' \in [Products -> [Days -> Int]]
      /\ moved'[b] = row /\ \A c \in Products \ {b} : moved'[c] = moved[c]
  BY <1>2, <1>4 DEF StockInv
<1>6. ASSUME NEW c \in Products
      PROVE  Ledger(c)' = IF c = b THEN Ledger(c) + n ELSE Ledger(c)
  <2>1. Ledger(c) = Opening + (moved[c][MaxDay] - 0) /\ Ledger(c)' = Opening + (moved'[c][MaxDay] - 0)
    BY DEF Ledger, Since
  <2>2. moved[c][MaxDay] \in Int /\ moved'[c][MaxDay] \in Int
    BY <1>5, DayFacts DEF StockInv
  <2>3. CASE c = b
    <3>1. moved'[c][MaxDay] = moved[c][MaxDay] + n
      BY <1>4, <1>5, <2>3
    <3> QED
      BY <2>1, <2>2, <2>3, <3>1, StockAssumption
  <2>4. CASE c # b
    <3>1. moved'[c] = moved[c]
      BY <1>5, <2>4
    <3> QED
      BY <2>1, <2>4, <3>1
  <2> QED
    BY <2>3, <2>4
<1> QED
  BY <1>5, <1>6

LEMMA LedgerSame ==
  ASSUME UNCHANGED moved, NEW b
  PROVE  Ledger(b)' = Ledger(b)
BY DEF Ledger, Since

LEMMA InitStock == Init => StockInv
<1> SUFFICES ASSUME Init PROVE StockInv
  OBVIOUS
<1>1. \A t \in Threads : job[t].pc = "idle"
  BY IdleFacts DEF Init
<1>2. \A d \in Drafts : draft[d].status = "none"
  BY DEF Init, NoRow
<1>3. /\ onhand = [b \in Products |-> Opening] /\ moved = [b \in Products |-> [k \in Days |-> 0]]
      /\ day = 0
  BY DEF Init
<1>4. onhand \in [Products -> Int] /\ moved \in [Products -> [Days -> Int]] /\ day \in Days
  BY <1>3, DayFacts, StockAssumption
<1>5. \A b \in Products : onhand[b] = Ledger(b)
  <2> SUFFICES ASSUME NEW b \in Products PROVE onhand[b] = Ledger(b)
    OBVIOUS
  <2>1. moved[b][MaxDay] = 0
    BY <1>3, DayFacts
  <2>2. Ledger(b) = Opening + (0 - 0)
    BY <2>1 DEF Ledger, Since
  <2> QED
    BY <1>3, <2>2, StockAssumption
<1> QED
  BY <1>1, <1>2, <1>4, <1>5 DEF StockInv, QuantityRow, QuantityJob, Summed, StockIsLedger

\* A move of t that leaves stock and bills as they are.
LEMMA StockMove ==
  ASSUME IInv, AloneInv, StockInv, NEW t \in Threads, Moves(t),
         UNCHANGED <<onhand, moved, day, late>>,
         \A d \in Drafts : QuantityRow(d)', QuantityJob(job[t])', alone' => Summed(job[t])'
  PROVE  StockInv'
<1>1. /\ alone' => \A u \in Threads \ {t} : job'[u].pc = "idle"
      /\ \A u \in Threads \ {t} : job'[u] = job[u]
  BY AfterMove DEF AloneInv
<1>2. alone' => \A u \in Threads : Summed(job[u])'
  BY <1>1 DEF Summed
<1>3. \A u \in Threads : QuantityJob(job[u])'
  BY <1>1 DEF StockInv, QuantityJob
<1>4. StockIsLedger'
  BY LedgerSame DEF StockInv, StockIsLedger, Moves
<1> QED
  BY <1>2, <1>3, <1>4 DEF StockInv

LEMMA RowsSame ==
  ASSUME StockInv, UNCHANGED draft
  PROVE  \A d \in Drafts : QuantityRow(d)'
BY DEF StockInv, QuantityRow

----------------------------------------------------------------------------
\* The steps.

LEMMA StockRequest ==
  ASSUME IInv, AloneInv, StockInv, NEW t \in Threads, NEW s \in Sessions, Request(t, s)
  PROVE  StockInv'
<1>1. Moves(t) /\ UNCHANGED <<draft, onhand, moved, day, late>>
  BY RequestMoves DEF parts9, outside
<1>2. PICK j : j = job'[t] /\ Asked(j)
  BY RequestJob
<1>3. Counts \subseteq Int
  BY StockAssumption DEF Counts
<1>4. j.pc = "approve.begin" => j.b \in Products /\ j.var \in Int
  <2> SUFFICES ASSUME j.pc = "approve.begin" PROVE j.b \in Products /\ j.var \in Int
    OBVIOUS
  <2>1. /\ j.d \in Drafts /\ j.b = draft[j.d].b /\ j.sys = onhand[j.b]
        /\ j.var = draft[j.d].counted - j.sys /\ draft[j.d].status # "none"
    BY <1>2 DEF Asked, Owning
  <2>2. j.b \in Products /\ draft[j.d].counted \in Int
    BY <2>1 DEF StockInv, QuantityRow
  <2> QED
    BY <2>1, <2>2 DEF StockInv
<1>5. QuantityJob(j) /\ j.pc \notin {"sync.write", "approve.post"}
  BY <1>2, <1>3, <1>4 DEF QuantityJob, Asked, Owning
<1>6. QuantityJob(job[t])' /\ Summed(job[t])'
  BY <1>2, <1>5 DEF QuantityJob, Summed
<1> QED
  BY <1>1, <1>6, RowsSame, StockMove

LEMMA StockGoesOn ==
  ASSUME IInv, AloneInv, StockInv, NEW t \in Threads, UNCHANGED <<draft, onhand, moved, day, late>>,
         TakeHeld(t) \/ claim_leases(t) \/ SyncRead(t) \/ SubmitDone(t) \/ _enqueue_mirror(t)
         \/ add_rejection(t) \/ PostBegin(t) \/ Crash(t)
  PROVE  StockInv'
<1>1. Moves(t)
  BY HandlerMoves DEF AloneInv, Handler
<1>2. CASE job'[t].pc \in {"take.claim", "idle", "sync.read", "audit", "reject.write"}
  <2>1. QuantityJob(job[t])' /\ Summed(job[t])'
    BY <1>2 DEF QuantityJob, Summed
  <2> QED
    BY <1>1, <2>1, RowsSame, StockMove
<1>3. CASE TakeHeld(t) \/ claim_leases(t) \/ _enqueue_mirror(t) \/ Crash(t)
  BY <1>2, <1>3, HandlerJob
<1>4. CASE SubmitDone(t) \/ add_rejection(t)
  <2>1. job'[t].pc = "idle" \/ Goto(t, "audit") \/ Goto(t, "reject.write")
    BY <1>4, HandlerJob DEF add_rejection
  <2>2. /\ Goto(t, "audit") => job'[t].pc = "audit"
        /\ Goto(t, "reject.write") => job'[t].pc = "reject.write"
    BY Went
  <2> QED
    BY <1>2, <2>1, <2>2
<1>5. CASE SyncRead(t)
  <2>1. job'[t].pc = "sync.write" /\ job'[t].seen = [b \in Products |-> Ledger(b)]
    BY <1>5, HandlerJob
  <2>2. job'[t].seen \in [Products -> Int]
    BY <2>1, LedgerTyped
  <2>3. QuantityJob(job[t])' /\ Summed(job[t])'
    BY <2>1, <2>2, LedgerSame DEF QuantityJob, Summed
  <2> QED
    BY <1>1, <2>3, RowsSame, StockMove
<1>6. CASE PostBegin(t)
  <2>1. /\ job'[t].pc = "approve.post" /\ job'[t].seen = onhand /\ job[t].pc = "approve.begin"
        /\ job'[t].b = job[t].b /\ job'[t].var = job[t].var
    BY <1>6, HandlerJob DEF PostBegin
  <2>2. QuantityJob(job[t])' /\ Summed(job[t])'
    BY <2>1 DEF QuantityJob, Summed, StockInv
  <2> QED
    BY <1>1, <2>2, RowsSame, StockMove
<1> QED
  BY <1>3, <1>4, <1>5, <1>6

LEMMA StockSync ==
  ASSUME IInv, AloneInv, StockInv, NEW t \in Threads, SyncWrite(t)
  PROVE  StockInv'
<1>1. /\ Moves(t) /\ job'[t].pc = "idle" /\ job[t].pc = "sync.write"
      /\ UNCHANGED <<draft, moved, day, late>>
      /\ onhand' = [b \in Products |-> IF b \in job[t].picked THEN job[t].seen[b] ELSE onhand[b]]
  BY HandlerMoves, HandlerJob DEF AloneInv, Handler, SyncWrite, local, outside
<1>2. /\ alone' => \A u \in Threads \ {t} : job'[u].pc = "idle"
      /\ \A u \in Threads \ {t} : job'[u] = job[u]
  BY <1>1, AfterMove DEF AloneInv
<1>3. job[t].seen \in [Products -> Int] /\ onhand \in [Products -> Int]
  BY <1>1 DEF StockInv, QuantityJob
<1>4. onhand' \in [Products -> Int]
  BY <1>1, <1>3
<1>5. \A u \in Threads : QuantityJob(job[u])'
  BY <1>1, <1>2 DEF StockInv, QuantityJob
<1>6. alone' => \A u \in Threads : Summed(job[u])'
  BY <1>1, <1>2 DEF Summed
<1>7. alone => \A b \in Products : job[t].seen[b] = Ledger(b)
  BY <1>1 DEF StockInv, Summed
<1>8. StockIsLedger'
  BY <1>1, <1>7, LedgerSame DEF StockInv, StockIsLedger, Moves
<1> QED
  BY <1>1, <1>4, <1>5, <1>6, <1>8, RowsSame DEF StockInv

\* The bill and QTYOH2 move by the same variance.
LEMMA StockPost ==
  ASSUME IInv, AloneInv, StockInv, NEW t \in Threads, post_stock_adjustment(t)
  PROVE  StockInv'
<1>1. PICK b \in Products, v \in Int : b = job[t].b /\ v = job[t].var
  BY DEF post_stock_adjustment, StockInv, QuantityJob
<1>2. /\ Moves(t) /\ job[t].pc = "approve.post" /\ UNCHANGED <<draft, day, late>>
      /\ moved' = Dated(b, v) /\ onhand' = [onhand EXCEPT ![b] = job[t].seen[b] + v]
      /\ job'[t].pc = "approve.write"
  BY <1>1, HandlerMoves, Went DEF AloneInv, Handler, post_stock_adjustment, local, outside
<1>3. /\ alone' => \A u \in Threads \ {t} : job'[u].pc = "idle"
      /\ \A u \in Threads \ {t} : job'[u] = job[u]
  BY <1>2, AfterMove DEF AloneInv
<1>4. PICK n \in Int : n = job[t].seen[b]
  BY <1>2 DEF StockInv, QuantityJob
<1>5. /\ onhand' \in [Products -> Int]
      /\ onhand'[b] = n + v /\ \A c \in Products \ {b} : onhand'[c] = onhand[c]
  BY <1>2, <1>4 DEF StockInv
<1>6. /\ moved' \in [Products -> [Days -> Int]]
      /\ \A c \in Products : Ledger(c)' = IF c = b THEN Ledger(c) + v ELSE Ledger(c)
  BY <1>2, DatedFacts
<1>7. \A u \in Threads : QuantityJob(job[u])'
  BY <1>2, <1>3 DEF StockInv, QuantityJob
<1>8. alone' => \A u \in Threads : Summed(job[u])'
  BY <1>2, <1>3 DEF Summed
<1>9. StockIsLedger'
  <2> SUFFICES ASSUME alone', NEW c \in Products, c \notin late' PROVE onhand'[c] = Ledger(c)'
    BY DEF StockIsLedger
  <2>1. onhand[c] = Ledger(c)
    BY <1>2 DEF StockInv, StockIsLedger, Moves
  <2>2. CASE c = b
    <3>1. n = onhand[b]
      BY <1>2, <1>4 DEF StockInv, Summed, Moves
    <3> QED
      BY <1>5, <1>6, <2>1, <2>2, <3>1
  <2>3. CASE c # b
    BY <1>5, <1>6, <2>1, <2>3
  <2> QED
    BY <2>2, <2>3
<1> QED
  BY <1>2, <1>5, <1>6, <1>7, <1>8, <1>9, RowsSame DEF StockInv

LEMMA StockRewrite ==
  ASSUME IInv, AloneInv, StockInv, NEW t \in Threads, Rewrites(t)
  PROVE  StockInv'
<1>1. Moves(t) /\ UNCHANGED <<onhand, moved, day, late>>
  <2>1. Handler(t)
    BY DEF Handler, Rewrites
  <2> QED
    BY <2>1, HandlerMoves, OneKind DEF AloneInv, parts9, outside
<1>2. PICK d \in Drafts : /\ d = job[t].d /\ draft[d].status # "none"
                          /\ \A e \in Drafts \ {d} : draft'[e] = draft[e]
                          /\ Rewritten(t, draft[d], draft'[d])
  BY RewriteFacts
<1>3. draft'[d].b \in Products
  BY <1>2 DEF Rewritten, StockInv, QuantityRow
<1>4. draft'[d].counted \in Int
  <2>1. draft[d].counted \in Int
    BY <1>2 DEF StockInv, QuantityRow
  <2>2. CASE edit_pending_draft(t) \/ resubmit_recheck(t)
    <3>1. job[t].counted \in Int
      BY <2>2, OneKind DEF StockInv, QuantityJob
    <3> QED
      BY <1>2, <2>2, <3>1 DEF Rewritten
  <2>3. CASE ~edit_pending_draft(t) /\ ~resubmit_recheck(t)
    BY <1>2, <2>1, <2>3 DEF Rewritten, Rewrites
  <2> QED
    BY <2>2, <2>3
<1>5. \A e \in Drafts : QuantityRow(e)'
  BY <1>2, <1>3, <1>4 DEF StockInv, QuantityRow
<1>6. job'[t].pc \in {"idle", "audit"}
  BY RewriterJob, Went
<1>7. QuantityJob(job[t])' /\ Summed(job[t])'
  BY <1>6 DEF QuantityJob, Summed
<1> QED
  BY <1>1, <1>5, <1>7, StockMove

LEMMA StockCreate ==
  ASSUME IInv, AloneInv, StockInv, NEW t \in Threads, NEW d \in Drafts, create_draft(t, d)
  PROVE  StockInv'
<1>1. Moves(t) /\ UNCHANGED <<onhand, moved, day, late>> /\ job[t].pc = "submit.draft"
  BY HandlerMoves DEF AloneInv, Handler, create_draft, parts9, outside
<1>2. job[t].b \in Products /\ job[t].counted \in Int
  BY <1>1 DEF StockInv, QuantityJob
<1>3. \A e \in Drafts : QuantityRow(e)'
  BY <1>2, CreateFacts DEF StockInv, QuantityRow
<1>4. QuantityJob(job[t])' /\ Summed(job[t])'
  BY HandlerJob DEF QuantityJob, Summed
<1> QED
  BY <1>1, <1>3, <1>4, StockMove

\* Nobody who read QTYOH2 or the bills is in progress when a bill of others is written.
LEMMA StockEnvironment ==
  ASSUME IInv, AloneInv, StockInv, Environment
  PROVE  StockInv'
<1>1. UNCHANGED <<draft, job>> /\ (alone' => alone)
  BY EnvironmentMoves
<1>2. \A u \in Threads : QuantityJob(job[u])'
  BY <1>1 DEF StockInv, QuantityJob
<1>3. CASE \E b \in Products, n \in {-1, 1}, applied \in BOOLEAN : Bill(b, n, applied)
  <2>1. PICK b \in Products, n \in {-1, 1}, applied \in BOOLEAN : Bill(b, n, applied)
    BY <1>3
  <2>2. n \in Int
    OBVIOUS
  <2>3. /\ moved' = Dated(b, n) /\ UNCHANGED day
        /\ onhand' = IF applied THEN [onhand EXCEPT ![b] = @ + n] ELSE onhand
        /\ late' = IF applied THEN late ELSE late \cup {b}
        /\ alone' => \A t \in Threads : job[t].pc \notin QtyRead
    BY <2>1 DEF Bill
  <2>4. /\ moved' \in [Products -> [Days -> Int]]
        /\ \A c \in Products : Ledger(c)' = IF c = b THEN Ledger(c) + n ELSE Ledger(c)
    BY <2>2, <2>3, DatedFacts
  <2>5. /\ onhand' \in [Products -> Int]
        /\ \A c \in Products : onhand'[c] = IF applied /\ c = b THEN onhand[c] + n ELSE onhand[c]
    BY <2>2, <2>3 DEF StockInv
  <2>6. alone' => \A u \in Threads : Summed(job[u])'
    BY <1>1, <2>3 DEF Summed, QtyRead
  <2>7. StockIsLedger'
    <3> SUFFICES ASSUME alone', NEW c \in Products, c \notin late' PROVE onhand'[c] = Ledger(c)'
      BY DEF StockIsLedger
    <3>1. onhand[c] = Ledger(c) /\ (c = b => applied)
      BY <1>1, <2>3 DEF StockInv, StockIsLedger
    <3>2. CASE c = b
      BY <2>4, <2>5, <3>1, <3>2
    <3>3. CASE c # b
      BY <2>4, <2>5, <3>1, <3>3
    <3> QED
      BY <3>2, <3>3
  <2> QED
    BY <1>1, <1>2, <2>3, <2>4, <2>5, <2>6, <2>7, RowsSame DEF StockInv
<1>4. CASE UNCHANGED <<onhand, moved, late>> /\ day' \in Days
  <2>1. StockIsLedger'
    BY <1>1, <1>4, LedgerSame DEF StockInv, StockIsLedger
  <2>2. alone' => \A u \in Threads : Summed(job[u])'
    BY <1>1, <1>4, LedgerSame DEF StockInv, Summed
  <2> QED
    BY <1>1, <1>2, <1>4, <2>1, <2>2, RowsSame DEF StockInv
<1>5. CASE NextDay
  <2>1. day' \in Days
    BY <1>5, StockAssumption DEF NextDay, StockInv, Days
  <2> QED
    BY <1>4, <1>5, <2>1 DEF NextDay, parts9
<1>6. CASE \/ \E p \in People, s \in Sessions : create_session(p, s)
           \/ \E s \in Sessions : end_session(s) \/ bump_leases(s)
           \/ \E s \in Sessions, b \in Products : Lapse(s, b) \/ skip_item(s, b)
  <2>1. UNCHANGED <<onhand, moved, late, day>>
    BY <1>6 DEF create_session, end_session, bump_leases, Lapse, skip_item, parts9, outside
  <2> QED
    BY <1>4, <2>1 DEF StockInv
<1> QED
  BY <1>3, <1>5, <1>6 DEF Environment

LEMMA NextStock == IInv /\ AloneInv /\ StockInv /\ [Next]_vars => StockInv'
<1> SUFFICES ASSUME IInv, AloneInv, StockInv, [Next]_vars PROVE StockInv'
  OBVIOUS
<1>1. CASE Environment
  BY <1>1, StockEnvironment
<1>2. ASSUME NEW t \in Threads, Handler(t) PROVE StockInv'
  <2>1. CASE TakeHeld(t) \/ claim_leases(t) \/ SyncRead(t) \/ SubmitDone(t) \/ _enqueue_mirror(t)
             \/ add_rejection(t) \/ PostBegin(t) \/ Crash(t)
    <3>1. UNCHANGED <<draft, onhand, moved, day, late>>
      BY <2>1 DEF TakeHeld, claim_leases, SyncRead, SubmitDone, _enqueue_mirror, add_rejection,
         PostBegin, Crash, local, parts9, outside
    <3> QED
      BY <2>1, <3>1, StockGoesOn
  <2> QED
    BY <1>2, <2>1, StockSync, StockPost, StockRewrite, StockCreate DEF Handler, Rewrites
<1>3. ASSUME NEW t \in Threads, NEW s \in Sessions, Request(t, s) PROVE StockInv'
  BY <1>3, StockRequest
<1>4. CASE UNCHANGED vars
  <2>1. UNCHANGED <<draft, job, onhand, moved, day, late, alone>>
    BY <1>4 DEF vars, local, parts9, outside
  <2> QED
    BY <2>1, LedgerSame DEF StockInv, QuantityRow, QuantityJob, Summed, StockIsLedger
<1> QED
  BY <1>1, <1>2, <1>3, <1>4 DEF Next

----------------------------------------------------------------------------
\* While handlers run one after another, and even if they die half-way, QTYOH2 is what the
\* bills sum to, unless a bill of others reached it late (stock_posting.py, the snapshot of
\* QTYOH2 and the sign of SIDET.QTY; qtyoh2_sync.py).
THEOREM StockFollowsLedger == Spec => []StockIsLedger
<1>1. StockInv => StockIsLedger
  BY DEF StockInv
<1> QED
  BY <1>1, InitStock, NextStock, AloneInvariance, PTL DEF Spec
=============================================================================
