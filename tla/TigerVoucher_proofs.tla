------------------------ MODULE TigerVoucher_proofs ------------------------
(***************************************************************************)
(* What holds of TigerVoucher for every set of attempts, bills, threads    *)
(* and sweepers, whatever answers are lost and whichever threads end.      *)
(***************************************************************************)
EXTENDS TigerVoucher, TLAPS

USE VoucherAssumption

----------------------------------------------------------------------------
\* The inductive invariant.

All == Threads \cup Sweepers
CreatePcs == {"insert", "create", "created"}
WorkPcs == {"show", "shown", "cancel", "canceled", "confirmed"}
Ends == {"used", "cancelled", "expired"}
RowType == [status : {"none"} \cup VOUCHER_ACTIVE_STATUSES \cup VOUCHER_TERMINAL_STATUSES,
            num : BOOLEAN]
JobType == [pc : CreatePcs \cup WorkPcs \cup {"idle", "sweep"}, a : Attempts \cup {NoAttempt},
            answer : {"none", "number", "no number", "failed", "raised", "unknown", "pending"}
                       \cup Ends,
            todo : SUBSET Attempts]

\* Every variable has its type (voucher_repos.py, voucher_service.py).
TypeOK ==
  /\ row \in [Attempts -> RowType]
  /\ cloud \in [Attempts -> {"none", "live"} \cup Ends]
  /\ job \in [All -> JobType]
  /\ gate \in Sweepers \cup {Nobody}
  /\ faults \in 0..MaxFaults /\ crashes \in 0..MaxCrashes

\* An attempt that a thread is creating has no number yet and no other thread; one that
\* is worked on has its number.
JobOK(h) ==
  LET a == job[h].a  pc == job[h].pc  answer == job[h].answer IN
  /\ pc \in CreatePcs \cup WorkPcs => a \in Attempts
  /\ pc \in CreatePcs =>
       /\ ~row[a].num
       /\ \A g \in All \ {h} : job[g].pc \in CreatePcs => job[g].a # a
       /\ pc = "insert" => row[a].status = "none"
       /\ pc \in {"create", "created"} => row[a].status = "creating"
       /\ pc = "create" => cloud[a] = "none"
       /\ pc = "created" /\ answer = "raised" => faults > 0
       /\ pc = "created" /\ answer = "failed" => cloud[a] = "none"
  /\ pc \in CreatePcs => h \in Threads
  /\ pc \in WorkPcs => row[a].status # "none" /\ row[a].num
  /\ pc \in {"shown", "confirmed"} =>
       /\ answer \in {"unknown", "pending"} \cup Ends
       /\ answer \in Ends => cloud[a] = answer
       /\ answer = "unknown" => faults > 0

\* What a row says of the voucher is so, but for what a lost answer left behind.
RowOK(a) ==
  /\ row[a].status = "none" => cloud[a] = "none" /\ ~row[a].num
  /\ row[a].status \in {"used", "expired"} => cloud[a] = row[a].status
  /\ row[a].status = "failed" => faults > 0 \/ cloud[a] = "none"
  /\ row[a].status = "cancelled" => faults > 0 \/ cloud[a] \in {"cancelled", "expired"}

\* The unique index.
OneBlocking ==
  \A a \in Attempts : \A b \in SameBill(a) \ {a} : ~(Blocking(a) /\ Blocking(b))

JobsOK == \A h \in All : JobOK(h)
RowsOK == \A a \in Attempts : RowOK(a)

IInv == TypeOK /\ JobsOK /\ RowsOK /\ OneBlocking

----------------------------------------------------------------------------
\* The pieces of state.

LEMMA IdleFacts == Idle \in JobType /\ Idle.pc = "idle"
BY DEF Idle, JobType

LEMMA Typed ==
  ASSUME IInv
  PROVE  /\ \A h \in All : job[h] \in JobType /\ JobOK(h)
         /\ \A a \in Attempts : row[a] \in RowType /\ RowOK(a)
                               /\ cloud[a] \in {"none", "live"} \cup Ends
BY DEF IInv, TypeOK, JobsOK, RowsOK

LEMMA InitInv == Init => IInv
<1> SUFFICES ASSUME Init PROVE IInv
  OBVIOUS
<1>1. TypeOK
  BY IdleFacts DEF Init, TypeOK, RowType, All
<1>2. JobsOK
  BY IdleFacts DEF Init, JobsOK, JobOK, All, CreatePcs, WorkPcs
<1>3. RowsOK /\ OneBlocking
  BY DEF Init, RowsOK, RowOK, OneBlocking, Blocking, SameBill, VOUCHER_ACTIVE_STATUSES
<1> QED
  BY <1>1, <1>2, <1>3 DEF IInv

\* Only the job of h changes.
Mine(h) == /\ job' \in [All -> JobType]
           /\ \A g \in All \ {h} : job'[g] = job[g]

LEMMA AnsweredFacts ==
  ASSUME IInv, NEW h \in All, NEW pc \in CreatePcs \cup WorkPcs,
         NEW answer \in {"none", "number", "no number", "failed", "raised", "unknown", "pending"}
                          \cup Ends,
         Answered(h, pc, answer)
  PROVE  /\ Mine(h)
         /\ job'[h].pc = pc /\ job'[h].answer = answer /\ job'[h].a = job[h].a
<1> DEFINE j == [job[h] EXCEPT !.pc = pc, !.answer = answer]
<1>1. job \in [All -> JobType] /\ job[h] \in JobType
  BY DEF IInv, TypeOK
<1>2. j \in JobType /\ j.pc = pc /\ j.answer = answer /\ j.a = job[h].a
  BY <1>1 DEF JobType
<1>3. job' = [job EXCEPT ![h] = j]
  BY DEF Answered
<1> QED
  BY <1>1, <1>2, <1>3 DEF Mine

LEMMA TakeFacts ==
  ASSUME IInv, NEW h \in All, NEW pc \in CreatePcs \cup WorkPcs, NEW a \in Attempts,
         job' = [job EXCEPT ![h].pc = pc, ![h].a = a]
  PROVE  Mine(h) /\ job'[h].pc = pc /\ job'[h].a = a /\ job'[h].answer = job[h].answer
<1> DEFINE j == [job[h] EXCEPT !.pc = pc, !.a = a]
<1>1. job \in [All -> JobType] /\ job[h] \in JobType
  BY DEF IInv, TypeOK
<1>2. j \in JobType /\ j.pc = pc /\ j.a = a /\ j.answer = job[h].answer
  BY <1>1 DEF JobType
<1>3. job' = [job EXCEPT ![h] = j]
  OBVIOUS
<1> QED
  BY <1>1, <1>2, <1>3 DEF Mine

LEMMA DoneFacts ==
  ASSUME IInv, NEW h \in All, Done(h)
  PROVE  Mine(h) /\ job'[h].pc \in {"idle", "sweep"}
<1> DEFINE j == [Idle EXCEPT !.pc = "sweep", !.todo = job[h].todo]
<1>1. job \in [All -> JobType] /\ job[h] \in JobType
  BY DEF IInv, TypeOK
<1>2. j \in JobType /\ j.pc = "sweep"
  BY <1>1, IdleFacts DEF JobType
<1>3. job' = [job EXCEPT ![h] = j] \/ job' = [job EXCEPT ![h] = Idle]
  BY DEF Done
<1> QED
  BY <1>1, <1>2, <1>3, IdleFacts DEF Mine

\* What no step takes back.
Onward ==
  /\ \A a \in Attempts :
       /\ row[a].status # "none" => row'[a].status # "none"
       /\ row[a].num => row'[a].num
       /\ cloud[a] \in Ends => cloud'[a] = cloud[a]
  /\ faults > 0 => faults' > 0

\* h leaves alone the attempts that other threads are creating.
Apart(h) ==
  \A g \in All \ {h} : job[g].pc \in CreatePcs =>
    /\ row'[job[g].a] = row[job[g].a]
    /\ job[g].pc \in {"create", "created"} => cloud'[job[g].a] = cloud[job[g].a]
    /\ job'[h].pc \in CreatePcs => job'[h].a # job[g].a

LEMMA OthersKeep ==
  ASSUME IInv, NEW h \in All, Mine(h), Onward, Apart(h), NEW g \in All \ {h}
  PROVE  JobOK(g)'
<1>1. job'[g] = job[g] /\ JobOK(g) /\ job[g] \in JobType
  BY Typed DEF Mine
<1>2. job[g].pc \in CreatePcs =>
        \A f \in All \ {g} : job'[f].pc \in CreatePcs => job'[f].a # job[g].a
  BY <1>1 DEF Mine, Apart, JobOK
<1>3. CASE job[g].pc \in CreatePcs
  <2>1. /\ row'[job[g].a] = row[job[g].a]
        /\ job[g].pc \in {"create", "created"} => cloud'[job[g].a] = cloud[job[g].a]
    BY <1>3 DEF Apart
  <2> QED
    BY <1>1, <1>2, <1>3, <2>1 DEF JobOK, Onward, CreatePcs, WorkPcs
<1>4. CASE job[g].pc \in WorkPcs
  BY <1>1, <1>4 DEF JobOK, Onward, CreatePcs, WorkPcs
<1>5. CASE job[g].pc \in {"idle", "sweep"}
  BY <1>1, <1>5 DEF JobOK, CreatePcs, WorkPcs
<1> QED
  BY <1>1, <1>3, <1>4, <1>5 DEF JobType

\* What is to be shown of a step of h.
LEMMA StepInv ==
  ASSUME IInv, NEW h \in All, Mine(h), Onward, Apart(h), JobOK(h)', RowsOK', OneBlocking',
         row' \in [Attempts -> RowType], cloud' \in [Attempts -> {"none", "live"} \cup Ends],
         gate' \in Sweepers \cup {Nobody}, faults' \in 0..MaxFaults, crashes' \in 0..MaxCrashes
  PROVE  IInv'
<1>1. JobsOK'
  BY OthersKeep DEF JobsOK
<1>2. TypeOK'
  BY DEF TypeOK, Mine
<1> QED
  BY <1>1, <1>2 DEF IInv

\* A step of h that writes neither the table nor the cloud, and takes no attempt to create.
LEMMA LookInv ==
  ASSUME IInv, NEW h \in All, Mine(h), UNCHANGED <<row, cloud>>,
         job'[h].pc \in CreatePcs => job'[h].a = job[h].a /\ job[h].pc \in CreatePcs,
         JobOK(h)', gate' \in Sweepers \cup {Nobody},
         faults' \in 0..MaxFaults, faults > 0 => faults' > 0, crashes' \in 0..MaxCrashes
  PROVE  IInv'
<1>1. Onward
  BY DEF Onward
<1>2. Apart(h)
  BY Typed DEF Apart, JobOK
<1>3. RowsOK' /\ OneBlocking'
  BY DEF IInv, RowsOK, RowOK, OneBlocking, Blocking
<1>4. row' \in [Attempts -> RowType] /\ cloud' \in [Attempts -> {"none", "live"} \cup Ends]
  BY DEF IInv, TypeOK
<1> QED
  BY <1>1, <1>2, <1>3, <1>4, StepInv

LEMMA UnchangedTypes ==
  ASSUME IInv
  PROVE  /\ gate' = gate => gate' \in Sweepers \cup {Nobody}
         /\ UNCHANGED faults \/ Blinded => faults' \in 0..MaxFaults /\ (faults > 0 => faults' > 0)
         /\ Blinded => faults' > 0
         /\ crashes' = crashes => crashes' \in 0..MaxCrashes
         /\ row' = row => row' \in [Attempts -> RowType]
         /\ cloud' = cloud => cloud' \in [Attempts -> {"none", "live"} \cup Ends]
BY DEF IInv, TypeOK, Blinded

----------------------------------------------------------------------------
\* Steps that only look.

LEMMA TakeInv ==
  ASSUME IInv, NEW h \in Threads, NEW a \in Attempts,
         CancelRead(h, a) \/ get_voucher_attempt_detail(h, a)
  PROVE  IInv'
<1>1. PICK pc \in {"cancel", "show"} : job' = [job EXCEPT ![h].pc = pc, ![h].a = a]
  BY DEF CancelRead, get_voucher_attempt_detail
<1>2. h \in All /\ pc \in WorkPcs
  BY DEF All, WorkPcs
<1>3. Mine(h) /\ job'[h].pc = pc /\ job'[h].a = a
  BY <1>1, <1>2, TakeFacts
<1>4. row[a].num /\ row[a].status # "none" /\ UNCHANGED <<row, cloud, gate, faults, crashes>>
  BY DEF CancelRead, get_voucher_attempt_detail, Refreshable, VOUCHER_ACTIVE_STATUSES
<1>5. JobOK(h)'
  BY <1>3, <1>4 DEF JobOK, CreatePcs, WorkPcs
<1> QED
  BY <1>2, <1>3, <1>4, <1>5, LookInv, UnchangedTypes DEF CreatePcs, WorkPcs

LEMMA CreateReadInv ==
  ASSUME IInv, NEW h \in Threads, NEW a \in Attempts, CreateRead(h, a)
  PROVE  IInv'
<1>1. h \in All /\ "insert" \in CreatePcs
  BY DEF All, CreatePcs
<1>2. Mine(h) /\ job'[h].pc = "insert" /\ job'[h].a = a
  BY <1>1, TakeFacts DEF CreateRead
<1>3. /\ row[a].status = "none" /\ \A g \in Threads : job[g].a # a
      /\ UNCHANGED <<row, cloud, gate, faults, crashes>>
  BY DEF CreateRead, Fresh
<1>4. ~row[a].num
  BY <1>3, Typed DEF RowOK
<1>5. Onward
  BY <1>3 DEF Onward
<1>6. Apart(h)
  BY <1>2, <1>3, Typed DEF Apart, JobOK, All
<1>7. JobOK(h)'
  BY <1>2, <1>3, <1>4, Typed DEF JobOK, CreatePcs, WorkPcs, Mine, All
<1>8. RowsOK' /\ OneBlocking'
  BY <1>3 DEF IInv, RowsOK, RowOK, OneBlocking, Blocking
<1> QED
  BY <1>1, <1>2, <1>3, <1>5, <1>6, <1>7, <1>8, StepInv, UnchangedTypes

LEMMA ShowInv ==
  ASSUME IInv, NEW h \in All, RefreshShow(h) \/ CancelShow(h)
  PROVE  IInv'
<1>1. /\ job[h].pc \in {"show", "canceled"} /\ job[h].a \in Attempts
      /\ row[job[h].a].status # "none" /\ row[job[h].a].num
  BY Typed DEF RefreshShow, CancelShow, At, JobOK, WorkPcs
<1>2. UNCHANGED <<row, cloud, gate, crashes>> /\ (UNCHANGED faults \/ Blinded)
  BY DEF RefreshShow, CancelShow
<1>3. CASE Done(h)
  <2>1. Mine(h) /\ job'[h].pc \in {"idle", "sweep"}
    BY <1>3, DoneFacts
  <2>2. JobOK(h)'
    BY <2>1 DEF JobOK, CreatePcs, WorkPcs
  <2> QED
    BY <1>2, <2>1, <2>2, LookInv, UnchangedTypes DEF CreatePcs
<1>4. ASSUME NEW pc \in {"shown", "confirmed"}, NEW answer \in {"unknown", "pending"} \cup Ends,
             answer \in Ends => cloud[job[h].a] = answer, answer = "unknown" => faults' > 0,
             Answered(h, pc, answer)
      PROVE  IInv'
  <2>1. Mine(h) /\ job'[h].pc = pc /\ job'[h].answer = answer /\ job'[h].a = job[h].a
    BY <1>4, AnsweredFacts DEF WorkPcs
  <2>2. JobOK(h)'
    BY <1>1, <1>2, <1>4, <2>1 DEF JobOK, CreatePcs, WorkPcs
  <2> QED
    BY <1>2, <2>1, <2>2, LookInv, UnchangedTypes DEF CreatePcs
<1>5. ASSUME NEW shown \in Shown(job[h].a)
      PROVE  LET answer == normalize_voucher_status(extract_voucher_display(shown))
             IN  /\ answer \in {"pending"} \cup Ends
                 /\ answer \in Ends => cloud[job[h].a] = answer
  <2>1. cloud[job[h].a] \in {"none", "live"} \cup Ends
    BY <1>1, Typed
  <2> QED
    BY <1>5, <2>1 DEF Shown, extract_voucher_display, normalize_voucher_status, Ends
<1>6. \/ Done(h)
      \/ \E pc \in {"shown", "confirmed"} : Blinded /\ Answered(h, pc, "unknown")
      \/ \E pc \in {"shown", "confirmed"}, shown \in Shown(job[h].a) :
           Answered(h, pc, normalize_voucher_status(extract_voucher_display(shown)))
  BY DEF RefreshShow, CancelShow
<1> QED
  BY <1>3, <1>4, <1>5, <1>6, UnchangedTypes DEF Ends

LEMMA SweepInv ==
  ASSUME IInv, NEW h \in Sweepers, _try_acquire_cross_process_gate(h) \/ Sweep(h)
  PROVE  IInv'
<1>1. /\ UNCHANGED <<row, cloud, faults, crashes>> /\ gate' \in Sweepers \cup {Nobody}
      /\ h \in All /\ job \in [All -> JobType] /\ job[h] \in JobType
  BY DEF _try_acquire_cross_process_gate, Sweep, SweepNext, _release_cross_process_gate, All,
         IInv, TypeOK
<1>2. ASSUME NEW j \in JobType, job' = [job EXCEPT ![h] = j],
             \/ j.pc \in {"idle", "sweep"}
             \/ j.pc = "show" /\ j.a \in Attempts /\ Refreshable(j.a)
      PROVE  IInv'
  <2>1. Mine(h) /\ job'[h] = j
    BY <1>1, <1>2 DEF Mine
  <2>2. JobOK(h)'
    BY <1>1, <1>2, <2>1 DEF JobOK, CreatePcs, WorkPcs, Refreshable, VOUCHER_ACTIVE_STATUSES
  <2> QED
    BY <1>1, <1>2, <2>1, <2>2, LookInv, UnchangedTypes DEF CreatePcs
<1>3. CASE _try_acquire_cross_process_gate(h)
  <2> DEFINE active == {a \in Attempts : row[a].status \in VOUCHER_ACTIVE_STATUSES}
  <2>1. PICK j \in JobType : j = [job[h] EXCEPT !.pc = "sweep", !.todo = active]
    BY <1>1 DEF JobType
  <2>2. j.pc = "sweep"
    BY <1>1, <2>1 DEF JobType
  <2>3. job' = [job EXCEPT ![h] = j]
    BY <1>3, <2>1 DEF _try_acquire_cross_process_gate
  <2> QED
    BY <1>2, <2>2, <2>3
<1>4. CASE SweepNext(h)
  <2>1. PICK a \in job[h].todo :
          LET rest == [job[h] EXCEPT !.todo = @ \ {a}]
          IN  job' = [job EXCEPT ![h] =
                IF Refreshable(a) THEN [rest EXCEPT !.pc = "show", !.a = a] ELSE rest]
    BY <1>4 DEF SweepNext
  <2>2. a \in Attempts /\ job[h].todo \ {a} \in SUBSET Attempts /\ job[h].pc = "sweep"
    BY <1>1, <1>4 DEF JobType, SweepNext, At
  <2>3. PICK rest \in JobType : rest = [job[h] EXCEPT !.todo = job[h].todo \ {a}]
    BY <1>1, <2>2 DEF JobType
  <2>4. rest.pc = "sweep"
    BY <1>1, <2>2, <2>3 DEF JobType
  <2>5. PICK j \in JobType : j = IF Refreshable(a) THEN [rest EXCEPT !.pc = "show", !.a = a] ELSE rest
    BY <2>2, <2>3 DEF JobType, WorkPcs
  <2>6. \/ j.pc = "sweep"
        \/ j.pc = "show" /\ j.a = a /\ Refreshable(a)
    BY <2>3, <2>4, <2>5 DEF JobType
  <2>7. job' = [job EXCEPT ![h] = j]
    BY <2>1, <2>3, <2>5
  <2> QED
    BY <1>2, <2>2, <2>6, <2>7
<1>5. CASE _release_cross_process_gate(h)
  BY <1>2, <1>5, IdleFacts DEF _release_cross_process_gate
<1> QED
  BY <1>3, <1>4, <1>5 DEF Sweep

\* A thread that ends leaves everything but the gate as it is.
LEMMA CrashInv ==
  ASSUME IInv, NEW h \in All, Crash(h)
  PROVE  IInv'
<1>1. Mine(h) /\ job'[h] = Idle
  BY IdleFacts DEF Crash, Mine, IInv, TypeOK
<1>2. JobOK(h)'
  BY <1>1, IdleFacts DEF JobOK, CreatePcs, WorkPcs
<1>3. /\ UNCHANGED <<row, cloud, faults>> /\ gate' \in Sweepers \cup {Nobody}
      /\ crashes' \in 0..MaxCrashes
  BY DEF Crash, IInv, TypeOK
<1> QED
  BY <1>1, <1>2, <1>3, LookInv, IdleFacts, UnchangedTypes DEF CreatePcs

----------------------------------------------------------------------------
\* Steps of the cloud.

\* A voucher that goes from one state to a later one leaves the rows true.
LEMMA CloudRows ==
  ASSUME IInv, NEW a \in Attempts, NEW c \in {"live"} \cup Ends,
         cloud' = cloud \/ cloud' = [cloud EXCEPT ![a] = c],
         cloud[a] = "live" \/ (cloud[a] = "none" /\ row[a].status = "creating"),
         row' = row, faults > 0 => faults' > 0
  PROVE  /\ RowsOK' /\ OneBlocking' /\ Onward
         /\ cloud' \in [Attempts -> {"none", "live"} \cup Ends]
         /\ \A b \in Attempts \ {a} : cloud'[b] = cloud[b]
<1>1. /\ cloud' \in [Attempts -> {"none", "live"} \cup Ends]
      /\ \A b \in Attempts \ {a} : cloud'[b] = cloud[b]
  BY DEF IInv, TypeOK
<1>2. \A b \in Attempts : RowOK(b)'
  BY <1>1, Typed DEF RowOK, Ends
<1>3. OneBlocking'
  BY DEF IInv, OneBlocking, Blocking
<1>4. Onward
  BY <1>1 DEF Onward, Ends
<1> QED
  BY <1>1, <1>2, <1>3, <1>4 DEF RowsOK

LEMMA CustomerInv ==
  ASSUME IInv, NEW a \in Attempts, Use(a) \/ Expire(a)
  PROVE  IInv'
<1>1. PICK c \in Ends : cloud' = [cloud EXCEPT ![a] = c]
  BY DEF Use, Expire, Ends
<1>2. cloud[a] = "live" /\ UNCHANGED <<row, job, gate, faults, crashes>>
  BY DEF Use, Expire
<1>3. /\ RowsOK' /\ OneBlocking' /\ Onward
      /\ cloud' \in [Attempts -> {"none", "live"} \cup Ends]
      /\ \A b \in Attempts \ {a} : cloud'[b] = cloud[b]
  BY <1>1, <1>2, CloudRows
<1>4. \A h \in All : JobOK(h)'
  BY <1>2, <1>3, Typed DEF JobOK, CreatePcs, WorkPcs, Ends
<1>5. TypeOK'
  BY <1>2, <1>3 DEF IInv, TypeOK
<1> QED
  BY <1>3, <1>4, <1>5 DEF IInv, JobsOK

LEMMA CloudCreateInv ==
  ASSUME IInv, NEW h \in All, CloudCreate(h)
  PROVE  IInv'
<1> DEFINE a == job[h].a
<1>1. /\ a \in Attempts /\ job[h].pc = "create" /\ row[a].status = "creating"
      /\ cloud[a] = "none" /\ ~row[a].num /\ h \in Threads
      /\ \A g \in All \ {h} : job[g].pc \in CreatePcs => job[g].a # a
  BY Typed DEF CloudCreate, At, JobOK, CreatePcs
<1>2. /\ cloud' = cloud \/ cloud' = [cloud EXCEPT ![a] = "live"]
      /\ UNCHANGED <<row, gate, crashes>> /\ (UNCHANGED faults \/ Blinded)
  BY DEF CloudCreate
<1>3. PICK answer \in {"number", "no number", "failed", "raised"} :
        /\ Answered(h, "created", answer)
        /\ answer = "raised" => faults' > 0
        /\ answer = "failed" => UNCHANGED cloud
  BY UnchangedTypes DEF CloudCreate
<1>4. /\ RowsOK' /\ OneBlocking' /\ Onward
      /\ cloud' \in [Attempts -> {"none", "live"} \cup Ends]
      /\ \A b \in Attempts \ {a} : cloud'[b] = cloud[b]
  BY <1>1, <1>2, CloudRows, UnchangedTypes
<1>5. /\ Mine(h) /\ job'[h].pc = "created" /\ job'[h].answer = answer /\ job'[h].a = a
  BY <1>3, AnsweredFacts DEF CreatePcs
<1>6. JobOK(h)'
  BY <1>1, <1>2, <1>3, <1>5 DEF JobOK, CreatePcs, WorkPcs, Mine
<1>7. Apart(h)
  BY <1>1, <1>2, <1>4, <1>5, Typed DEF Apart, JobOK
<1> QED
  BY <1>2, <1>4, <1>5, <1>6, <1>7, StepInv, UnchangedTypes

LEMMA CloudCancelInv ==
  ASSUME IInv, NEW h \in All, CloudCancel(h)
  PROVE  IInv'
<1> DEFINE a == job[h].a
<1>1. /\ a \in Attempts /\ job[h].pc = "cancel" /\ row[a].status # "none" /\ row[a].num
  BY Typed DEF CloudCancel, At, JobOK, WorkPcs
<1>2. /\ cloud' = cloud \/ (cloud[a] = "live" /\ cloud' = [cloud EXCEPT ![a] = "cancelled"])
      /\ UNCHANGED <<row, gate, crashes>> /\ (UNCHANGED faults \/ Blinded)
  BY DEF CloudCancel
<1>3. /\ RowsOK' /\ OneBlocking' /\ Onward
      /\ cloud' \in [Attempts -> {"none", "live"} \cup Ends]
      /\ \A b \in Attempts \ {a} : cloud'[b] = cloud[b]
  <2>1. CASE cloud' = cloud
    BY <1>2, <2>1, UnchangedTypes
       DEF IInv, RowsOK, RowOK, OneBlocking, Blocking, Onward
  <2>2. CASE cloud[a] = "live" /\ cloud' = [cloud EXCEPT ![a] = "cancelled"]
    BY <1>1, <1>2, <2>2, CloudRows, UnchangedTypes DEF Ends
  <2> QED
    BY <1>2, <2>1, <2>2
<1>4. Mine(h) /\ job'[h].pc \in {"canceled", "idle", "sweep"}
              /\ (job'[h].pc = "canceled" => job'[h].a = a)
  BY AnsweredFacts, DoneFacts DEF CloudCancel, WorkPcs
<1>5. JobOK(h)'
  BY <1>1, <1>2, <1>4 DEF JobOK, CreatePcs, WorkPcs
<1>6. Apart(h)
  BY <1>1, <1>2, <1>3, <1>4, Typed DEF Apart, JobOK, CreatePcs
<1> QED
  BY <1>2, <1>3, <1>4, <1>5, <1>6, StepInv, UnchangedTypes

----------------------------------------------------------------------------
\* Steps of the table.

LEMMA UpdateFacts ==
  ASSUME IInv, NEW a \in Attempts, NEW num \in BOOLEAN,
         NEW status \in VOUCHER_ACTIVE_STATUSES \cup VOUCHER_TERMINAL_STATUSES,
         update_voucher_attempt(a, status, num), row[a].status # "none"
  PROVE  /\ row' \in [Attempts -> RowType] /\ row'[a].status # "none"
         /\ row'[a].num = (row[a].num \/ num)
         /\ \/ row'[a].status = row[a].status
            \/ row'[a].status = status /\ row[a].status \in VOUCHER_ACTIVE_STATUSES
         /\ \A b \in Attempts \ {a} : row'[b] = row[b]
         /\ OneBlocking'
<1> DEFINE end == IF row[a].status \in VOUCHER_TERMINAL_STATUSES THEN row[a].status ELSE status
           r == [row[a] EXCEPT !.status = end, !.num = row[a].num \/ num]
<1>1. row \in [Attempts -> RowType] /\ row[a] \in RowType
  BY DEF IInv, TypeOK
<1>2. end \in VOUCHER_ACTIVE_STATUSES \cup VOUCHER_TERMINAL_STATUSES
  BY <1>1 DEF RowType
<1>3. r \in RowType /\ r.status = end /\ r.num = (row[a].num \/ num)
  BY <1>1, <1>2 DEF RowType
<1>4. row' = [row EXCEPT ![a] = r]
  BY <1>1 DEF update_voucher_attempt, RowType
<1> HIDE DEF r
<1>5. /\ row' \in [Attempts -> RowType] /\ row'[a] = r
      /\ \A b \in Attempts \ {a} : row'[b] = row[b]
  BY <1>1, <1>3, <1>4
<1>6. end = row[a].status \/ (end = status /\ row[a].status \in VOUCHER_ACTIVE_STATUSES)
  BY <1>1 DEF RowType
<1>7. Blocking(a)' => Blocking(a)
  BY <1>3, <1>5, <1>6 DEF Blocking
<1>8. OneBlocking'
  BY <1>5, <1>7 DEF IInv, OneBlocking, Blocking, SameBill
<1> QED
  BY <1>2, <1>3, <1>5, <1>6, <1>8 DEF VOUCHER_ACTIVE_STATUSES, VOUCHER_TERMINAL_STATUSES

LEMMA SaveInv ==
  ASSUME IInv, NEW h \in All, CreateSave(h) \/ RefreshSave(h) \/ CancelSave(h)
  PROVE  IInv'
<1>1. Mine(h) /\ job'[h].pc \in {"idle", "sweep"}
  BY DoneFacts DEF CreateSave, RefreshSave, CancelSave
<1>2. PICK a \in Attempts :
        /\ a = job[h].a /\ row[a].status # "none"
        /\ \A g \in All \ {h} : job[g].pc \in CreatePcs => job[g].a # a
  <2>1. job[h].pc \in {"created", "shown", "confirmed"}
    BY DEF CreateSave, RefreshSave, CancelSave, At
  <2>2. \A g \in All \ {h} : job[g].pc \in CreatePcs => ~row[job[g].a].num
    BY Typed DEF JobOK
  <2> QED
    BY <2>1, <2>2, Typed DEF JobOK, CreatePcs, WorkPcs
<1>3. UNCHANGED <<cloud, gate, faults, crashes>>
  BY DEF CreateSave, RefreshSave, CancelSave
<1>4. \/ UNCHANGED row
      \/ \E num \in BOOLEAN, status \in VOUCHER_ACTIVE_STATUSES \cup VOUCHER_TERMINAL_STATUSES :
           /\ update_voucher_attempt(a, status, num)
           /\ status \in {"used", "expired"} => cloud[a] = status
           /\ status = "failed" => faults > 0 \/ cloud[a] = "none"
           /\ status = "cancelled" => faults > 0 \/ cloud[a] \in {"cancelled", "expired"}
  <2>1. CASE CreateSave(h)
    <3>1. /\ job[h].answer = "raised" => faults > 0
          /\ job[h].answer = "failed" => cloud[a] = "none"
      BY <1>2, <2>1, Typed DEF CreateSave, At, JobOK, CreatePcs
    <3> QED
      BY <1>2, <2>1, <3>1 DEF CreateSave, VOUCHER_ACTIVE_STATUSES, VOUCHER_TERMINAL_STATUSES
  <2>2. CASE RefreshSave(h)
    <3>1. /\ job[h].answer \in {"unknown", "pending"} \cup Ends
          /\ job[h].answer \in Ends => cloud[a] = job[h].answer
      BY <1>2, <2>2, Typed DEF RefreshSave, At, JobOK
    <3> QED
      BY <1>2, <2>2, <3>1 DEF RefreshSave, Ends, VOUCHER_ACTIVE_STATUSES, VOUCHER_TERMINAL_STATUSES
  <2>3. CASE CancelSave(h)
    <3>1. /\ job[h].answer \in {"unknown", "pending"} \cup Ends
          /\ job[h].answer \in Ends => cloud[a] = job[h].answer
          /\ job[h].answer = "unknown" => faults > 0
      BY <1>2, <2>3, Typed DEF CancelSave, At, JobOK
    <3>2. \/ UNCHANGED row
          \/ job[h].answer = "used" /\ update_voucher_attempt(a, "used", FALSE)
          \/ /\ job[h].answer \notin {"used", "pending"}
             /\ update_voucher_attempt(a, "cancelled", FALSE)
      BY <1>2, <2>3 DEF CancelSave
    <3>3. {"used", "cancelled"} \subseteq VOUCHER_ACTIVE_STATUSES \cup VOUCHER_TERMINAL_STATUSES
      BY DEF VOUCHER_TERMINAL_STATUSES
    <3>4. job[h].answer \notin {"used", "pending"} =>
            faults > 0 \/ cloud[a] \in {"cancelled", "expired"}
      BY <1>2, <3>1 DEF Ends
    <3> QED
      BY <1>2, <3>1, <3>2, <3>3, <3>4 DEF Ends
  <2> QED
    BY <2>1, <2>2, <2>3
<1>5. /\ row' \in [Attempts -> RowType] /\ OneBlocking' /\ RowsOK' /\ Onward
      /\ \A b \in Attempts \ {a} : row'[b] = row[b]
  <2>1. CASE UNCHANGED row
    BY <1>3, <2>1, UnchangedTypes DEF IInv, RowsOK, RowOK, OneBlocking, Blocking, Onward
  <2>2. ASSUME NEW num \in BOOLEAN,
               NEW status \in VOUCHER_ACTIVE_STATUSES \cup VOUCHER_TERMINAL_STATUSES,
               update_voucher_attempt(a, status, num),
               status \in {"used", "expired"} => cloud[a] = status,
               status = "failed" => faults > 0 \/ cloud[a] = "none",
               status = "cancelled" => faults > 0 \/ cloud[a] \in {"cancelled", "expired"}
        PROVE  /\ row' \in [Attempts -> RowType] /\ OneBlocking' /\ RowsOK' /\ Onward
               /\ \A b \in Attempts \ {a} : row'[b] = row[b]
    <3>1. /\ row' \in [Attempts -> RowType] /\ OneBlocking' /\ row'[a].status # "none"
          /\ row'[a].num = (row[a].num \/ num)
          /\ row'[a].status = row[a].status \/ row'[a].status = status
          /\ \A b \in Attempts \ {a} : row'[b] = row[b]
      BY <1>2, <2>2, UpdateFacts
    <3>2. RowOK(a)'
      BY <1>2, <1>3, <2>2, <3>1, Typed DEF RowOK
    <3>3. \A b \in Attempts \ {a} : RowOK(b)'
      BY <1>3, <3>1, Typed DEF RowOK
    <3>4. Onward
      BY <1>3, <3>1 DEF Onward
    <3> QED
      BY <3>1, <3>2, <3>3, <3>4 DEF RowsOK
  <2> QED
    BY <1>4, <2>1, <2>2
<1>6. JobOK(h)'
  BY <1>1 DEF JobOK, CreatePcs, WorkPcs
<1>7. Apart(h)
  BY <1>1, <1>2, <1>3, <1>5, Typed DEF Apart, JobOK, CreatePcs
<1> QED
  BY <1>1, <1>3, <1>5, <1>6, <1>7, StepInv, UnchangedTypes

LEMMA InsertInv ==
  ASSUME IInv, NEW h \in All, create_voucher_attempt(h)
  PROVE  IInv'
<1>1. PICK a \in Attempts :
      /\ a = job[h].a /\ row[a].status = "none" /\ ~row[a].num /\ cloud[a] = "none"
      /\ job[h].pc = "insert" /\ h \in Threads /\ job[h] \in JobType
      /\ \A g \in All \ {h} : job[g].pc \in CreatePcs => job[g].a # a
  BY Typed DEF create_voucher_attempt, At, JobOK, CreatePcs, RowOK
<1>2. UNCHANGED <<cloud, gate, faults, crashes>>
  BY DEF create_voucher_attempt
<1>3. CASE Done(h) /\ UNCHANGED row
  <2>1. Mine(h) /\ job'[h].pc \in {"idle", "sweep"}
    BY <1>3, DoneFacts
  <2>2. JobOK(h)'
    BY <2>1 DEF JobOK, CreatePcs, WorkPcs
  <2> QED
    BY <1>2, <1>3, <2>1, <2>2, LookInv, UnchangedTypes DEF CreatePcs
<1>4. CASE /\ \A b \in SameBill(a) : ~Blocking(b)
           /\ row' = [row EXCEPT ![a].status = "creating"]
           /\ job' = [job EXCEPT ![h].pc = "create"]
  <2>1. PICK j \in JobType : j = [job[h] EXCEPT !.pc = "create"]
    BY <1>1 DEF JobType, CreatePcs
  <2>2. j.pc = "create" /\ j.a = a
    BY <1>1, <2>1 DEF JobType
  <2>3. Mine(h) /\ job'[h] = j
    BY <1>4, <2>1 DEF Mine, IInv, TypeOK
  <2> DEFINE r == [row[a] EXCEPT !.status = "creating"]
  <2>4. r \in RowType /\ r.status = "creating" /\ r.num = row[a].num
    BY <1>1, Typed DEF RowType, VOUCHER_ACTIVE_STATUSES
  <2>5. row' = [row EXCEPT ![a] = r]
    BY <1>1, <1>4
  <2> HIDE DEF r
  <2>6. /\ row' \in [Attempts -> RowType] /\ row'[a].status = "creating" /\ row'[a].num = row[a].num
        /\ \A b \in Attempts \ {a} : row'[b] = row[b]
    BY <1>1, <2>4, <2>5 DEF IInv, TypeOK
  <2>7. RowsOK'
    <3>1. RowOK(a)'
      BY <2>6 DEF RowOK
    <3>2. \A b \in Attempts \ {a} : RowOK(b)'
      BY <1>2, <2>6, Typed DEF RowOK
    <3> QED
      BY <3>1, <3>2 DEF RowsOK
  <2>8. OneBlocking'
    BY <1>1, <1>4, <2>6 DEF IInv, OneBlocking, Blocking, SameBill
  <2>9. Onward
    BY <1>1, <1>2, <2>6 DEF Onward
  <2>10. JobOK(h)'
    BY <1>1, <1>2, <2>2, <2>3, <2>6 DEF JobOK, CreatePcs, WorkPcs, Mine
  <2>11. Apart(h)
    BY <1>1, <1>2, <2>2, <2>3, <2>6, Typed DEF Apart, JobOK
  <2> QED
    BY <1>2, <2>3, <2>6, <2>7, <2>8, <2>9, <2>10, <2>11, StepInv, UnchangedTypes
<1> QED
  BY <1>1, <1>3, <1>4 DEF create_voucher_attempt

----------------------------------------------------------------------------
\* Every step.

LEMMA NextInv == IInv /\ [Next]_vars => IInv'
<1> SUFFICES ASSUME IInv, [Next]_vars PROVE IInv'
  OBVIOUS
<1>1. CASE \E h \in All : Step(h)
  BY <1>1, InsertInv, CloudCreateInv, SaveInv, ShowInv, CloudCancelInv DEF Step
<1>2. CASE \E h \in All : Crash(h)
  BY <1>2, CrashInv
<1>3. CASE \E h \in Threads, a \in Attempts :
             CreateRead(h, a) \/ CancelRead(h, a) \/ get_voucher_attempt_detail(h, a)
  BY <1>3, CreateReadInv, TakeInv
<1>4. CASE \E s \in Sweepers : _try_acquire_cross_process_gate(s) \/ Sweep(s)
  BY <1>4, SweepInv
<1>5. CASE \E a \in Attempts : Use(a) \/ Expire(a)
  BY <1>5, CustomerInv
<1>6. CASE UNCHANGED vars
  <2>1. UNCHANGED <<row, cloud, job, gate, faults, crashes>>
    BY <1>6 DEF vars
  <2>2. TypeOK' /\ JobsOK' /\ RowsOK' /\ OneBlocking'
    BY <2>1 DEF IInv, TypeOK, JobsOK, JobOK, RowsOK, RowOK, OneBlocking, Blocking
  <2> QED
    BY <2>2 DEF IInv
<1> QED
  BY <1>1, <1>2, <1>3, <1>4, <1>5, <1>6 DEF Next, All

LEMMA Invariance == Spec => []IInv
BY InitInv, NextInv, PTL DEF Spec

----------------------------------------------------------------------------
\* Every variable of the voucher service has its type at all times (voucher_repos.py,
\* voucher_service.py).
THEOREM TypeCorrect == Spec => []TypeOK
<1>1. IInv => TypeOK
  BY DEF IInv
<1> QED
  BY <1>1, Invariance, PTL

\* A row says used only when the customer was paid, and while every answer of the cloud
\* arrives no attempt that failed or was cancelled leaves a voucher that pays: the final
\* statuses that voucher_service.py writes are what the cloud showed.
THEOREM RowsTrue == Spec => []RowsAreTrue
<1>1. IInv => RowsAreTrue
  <2> SUFFICES ASSUME IInv PROVE RowsAreTrue
    OBVIOUS
  <2>1. UsedIsPaid
    BY Typed DEF UsedIsPaid, RowOK
  <2>2. faults = 0 => ~(faults > 0)
    OBVIOUS
  <2>3. NothingAstray
    BY <2>2, Typed DEF NothingAstray, Astray, Payable, RowOK
  <2> QED
    BY <2>1, <2>3 DEF RowsAreTrue
<1> QED
  BY <1>1, Invariance, PTL

\* A voucher that can pay, or has paid, belongs to an attempt that blocks its bill or went
\* astray.
LEMMA PayableBlocks ==
  ASSUME IInv, NEW a \in Attempts, Payable(a)
  PROVE  Blocking(a) \/ Astray(a)
<1>1. RowOK(a) /\ row[a] \in RowType /\ cloud[a] \in {"live", "used"}
  BY Typed DEF Payable
<1>2. row[a].status \notin {"none", "expired"}
  BY <1>1 DEF RowOK
<1>3. row[a].status \in {"creating", "pending", "used", "failed", "cancelled"}
  BY <1>1, <1>2 DEF RowType, VOUCHER_ACTIVE_STATUSES, VOUCHER_TERMINAL_STATUSES
<1> QED
  BY <1>3 DEF Blocking, Astray, VOUCHER_ACTIVE_STATUSES

\* A bill has two vouchers that can pay only where an answer of the cloud was lost (the
\* unique index, and create_voucher of voucher_service.py).
THEOREM NoDoubleVoucher == Spec => []PaidOnce
<1>1. IInv => PaidOnce
  BY PayableBlocks DEF PaidOnce, IInv, OneBlocking, SameBill
<1> QED
  BY <1>1, Invariance, PTL

----------------------------------------------------------------------------
\* The rows as a ledger.

\* How a step changes the status of one attempt, and no other.
Entry(a) ==
  /\ \A b \in Attempts \ {a} : row'[b].status = row[b].status
  /\ \/ /\ row[a].status = "none" /\ row'[a].status = "creating"
        /\ \A b \in SameBill(a) : ~Blocking(b)
     \/ /\ row[a].status \in VOUCHER_ACTIVE_STATUSES
        /\ row'[a].status \in VOUCHER_ACTIVE_STATUSES \cup VOUCHER_TERMINAL_STATUSES
     \/ row'[a].status = row[a].status

LEMMA SaveEntry ==
  ASSUME IInv, NEW h \in All, CreateSave(h) \/ RefreshSave(h) \/ CancelSave(h)
  PROVE  UNCHANGED row \/ \E a \in Attempts : Entry(a)
<1>1. PICK a \in Attempts : a = job[h].a /\ row[a].status # "none"
  <2>1. job[h].pc \in {"created", "shown", "confirmed"}
    BY DEF CreateSave, RefreshSave, CancelSave, At
  <2> QED
    BY <2>1, Typed DEF JobOK, CreatePcs, WorkPcs
<1>2. \/ UNCHANGED row
      \/ \E num \in BOOLEAN, status \in VOUCHER_ACTIVE_STATUSES \cup VOUCHER_TERMINAL_STATUSES :
           update_voucher_attempt(a, status, num)
  <2>1. CASE CreateSave(h)
    BY <1>1, <2>1 DEF CreateSave, VOUCHER_ACTIVE_STATUSES, VOUCHER_TERMINAL_STATUSES
  <2>2. CASE RefreshSave(h)
    <3>1. job[h].answer \in {"unknown", "pending"} \cup Ends
      BY <2>2, Typed DEF RefreshSave, At, JobOK
    <3> QED
      BY <1>1, <2>2, <3>1
         DEF RefreshSave, Ends, VOUCHER_ACTIVE_STATUSES, VOUCHER_TERMINAL_STATUSES
  <2>3. CASE CancelSave(h)
    <3>1. \/ UNCHANGED row
          \/ update_voucher_attempt(a, "used", FALSE)
          \/ update_voucher_attempt(a, "cancelled", FALSE)
      BY <1>1, <2>3 DEF CancelSave
    <3> QED
      BY <3>1 DEF VOUCHER_TERMINAL_STATUSES
  <2> QED
    BY <2>1, <2>2, <2>3
<1>3. ASSUME NEW num \in BOOLEAN,
             NEW status \in VOUCHER_ACTIVE_STATUSES \cup VOUCHER_TERMINAL_STATUSES,
             update_voucher_attempt(a, status, num)
      PROVE  Entry(a)
  BY <1>1, <1>3, UpdateFacts DEF Entry
<1> QED
  BY <1>2, <1>3

LEMMA InsertEntry ==
  ASSUME IInv, NEW h \in All, create_voucher_attempt(h)
  PROVE  UNCHANGED row \/ \E a \in Attempts : Entry(a)
<1>1. PICK a \in Attempts : a = job[h].a /\ row[a].status = "none" /\ row[a] \in RowType
  BY Typed DEF create_voucher_attempt, At, JobOK, CreatePcs
<1>2. CASE /\ \A b \in SameBill(a) : ~Blocking(b)
           /\ row' = [row EXCEPT ![a].status = "creating"]
  <2>1. row \in [Attempts -> RowType]
    BY DEF IInv, TypeOK
  <2>2. row'[a].status = "creating" /\ \A b \in Attempts \ {a} : row'[b].status = row[b].status
    BY <1>1, <1>2, <2>1 DEF RowType
  <2> QED
    BY <1>1, <1>2, <2>2 DEF Entry
<1> QED
  BY <1>1, <1>2 DEF create_voucher_attempt

LEMMA NextEntry ==
  ASSUME IInv, [Next]_vars
  PROVE  UNCHANGED row \/ \E a \in Attempts : Entry(a)
<1>1. CASE \E h \in All : Step(h)
  <2>1. PICK h \in All : Step(h)
    BY <1>1
  <2>2. CASE CloudCreate(h) \/ RefreshShow(h) \/ CloudCancel(h) \/ CancelShow(h)
    BY <2>2 DEF CloudCreate, RefreshShow, CloudCancel, CancelShow
  <2> QED
    BY <2>1, <2>2, InsertEntry, SaveEntry DEF Step
<1>2. CASE UNCHANGED row
  BY <1>2
<1> QED
  BY <1>1, <1>2 DEF Next, All, Crash, CreateRead, CancelRead, get_voucher_attempt_detail,
       _try_acquire_cross_process_gate, Sweep, SweepNext, _release_cross_process_gate,
       Use, Expire, vars

\* The bill is paid in the ledger where one of its attempts is used.
LEMMA BookFacts ==
  ASSUME NEW a \in Attempts, IInv
  PROVE  /\ Ledger!BillPaid(a) <=> \E b \in SameBill(a) : row[b].status = "used"
         /\ Book[a] = "none" <=> row[a].status = "none"
         /\ Book[a] = "open" <=> row[a].status \in VOUCHER_ACTIVE_STATUSES
<1>1. \A b \in Attempts : Book[b] = "paid" <=> row[b].status = "used"
  BY DEF Book, VOUCHER_ACTIVE_STATUSES
<1>2. Ledger!BillPaid(a) <=> \E b \in SameBill(a) : Book[b] = "paid"
  BY DEF Ledger!BillPaid, SameBill
<1> QED
  BY <1>1, <1>2 DEF Book, VOUCHER_ACTIVE_STATUSES, SameBill

LEMMA EntryIsLedgerStep ==
  ASSUME IInv, NEW a \in Attempts, Entry(a)
  PROVE  Ledger!LedgerNext \/ UNCHANGED Book
<1> DEFINE end == Book'[a]
<1>1. Book' = [Book EXCEPT ![a] = end]
  <2>1. \A b \in Attempts \ {a} : row'[b].status = row[b].status
    BY DEF Entry
  <2>2. \A b \in Attempts \ {a} : Book'[b] = Book[b]
    BY <2>1 DEF Book
  <2>3. Book = [b \in Attempts |-> Book[b]] /\ Book' = [b \in Attempts |-> Book'[b]]
    BY DEF Book
  <2> HIDE DEF end
  <2>4. end = Book'[a]
    BY DEF end
  <2> QED
    BY <2>2, <2>3, <2>4
<1>2. row[a] \in RowType
  BY Typed
<1>3. CASE row'[a].status = row[a].status
  <2>1. \A b \in Attempts : row'[b].status = row[b].status
    BY <1>3 DEF Entry
  <2> QED
    BY <2>1 DEF Book
<1>4. CASE /\ row[a].status = "none" /\ row'[a].status = "creating"
           /\ \A b \in SameBill(a) : ~Blocking(b)
  <2>1. Book[a] = "none" /\ end = "open" /\ ~Ledger!BillPaid(a)
    BY <1>4, BookFacts DEF Book, Blocking, VOUCHER_ACTIVE_STATUSES
  <2>2. Ledger!OpenAttempt(a)
    BY <1>1, <2>1 DEF Ledger!OpenAttempt
  <2> QED
    BY <2>2 DEF Ledger!LedgerNext
<1>5. CASE /\ row[a].status \in VOUCHER_ACTIVE_STATUSES
           /\ row'[a].status \in VOUCHER_ACTIVE_STATUSES
  BY <1>1, <1>5 DEF Book, VOUCHER_ACTIVE_STATUSES
<1>6. CASE row[a].status \in VOUCHER_ACTIVE_STATUSES /\ row'[a].status = "used"
  <2>1. Blocking(a) /\ row[a].status # "used"
    BY <1>6 DEF Blocking, VOUCHER_ACTIVE_STATUSES
  <2>2. \A b \in SameBill(a) : row[b].status # "used"
    BY <2>1 DEF IInv, OneBlocking, SameBill, Blocking
  <2>3. Book[a] = "open" /\ end = "paid" /\ ~Ledger!BillPaid(a)
    BY <1>6, <2>2, BookFacts DEF Book, VOUCHER_ACTIVE_STATUSES
  <2>4. Ledger!Pay(a)
    BY <1>1, <2>3 DEF Ledger!Pay
  <2> QED
    BY <2>4 DEF Ledger!LedgerNext
<1>7. CASE /\ row[a].status \in VOUCHER_ACTIVE_STATUSES
           /\ row'[a].status \in {"cancelled", "expired", "failed"}
  <2>1. Book[a] = "open" /\ end \in {"cancelled", "failed"}
    BY <1>7, BookFacts DEF Book, VOUCHER_ACTIVE_STATUSES
  <2>2. Ledger!GiveUp(a)
    BY <1>1, <2>1 DEF Ledger!GiveUp
  <2> QED
    BY <2>2 DEF Ledger!LedgerNext
<1> QED
  BY <1>3, <1>4, <1>5, <1>6, <1>7 DEF Entry, VOUCHER_TERMINAL_STATUSES

\* The rows keep the ledger of PaymentLedger: one attempt of a bill is used, an end is for
\* good, and no attempt is opened on a bill that is paid (update_voucher_attempt and the
\* unique index).
THEOREM KeepsLedger == Spec => LedgerKept
<1>1. Init => Ledger!LedgerInit
  <2>1. Init => \A a \in Attempts : row[a].status = "none"
    BY DEF Init
  <2>2. (\A a \in Attempts : row[a].status = "none") => Ledger!LedgerInit
    <3> SUFFICES ASSUME \A a \in Attempts : row[a].status = "none" PROVE Ledger!LedgerInit
      OBVIOUS
    <3>1. \A a \in Attempts : Book[a] = "none"
      BY DEF Book, VOUCHER_ACTIVE_STATUSES
    <3>2. Book = [a \in Attempts |-> Book[a]]
      BY DEF Book, VOUCHER_ACTIVE_STATUSES
    <3> QED
      BY <3>1, <3>2 DEF Ledger!LedgerInit
  <2> QED
    BY <2>1, <2>2
<1>2. IInv /\ [Next]_vars => [Ledger!LedgerNext]_Book
  BY NextEntry, EntryIsLedgerStep DEF Book
<1> QED
  BY <1>1, <1>2, Invariance, PTL DEF Spec, LedgerKept, Ledger!LedgerSpec
=============================================================================
