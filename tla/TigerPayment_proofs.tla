------------------------ MODULE TigerPayment_proofs ------------------------
(***************************************************************************)
(* What holds of TigerPayment for every set of attempts, bills, threads    *)
(* and event sources.                                                      *)
(***************************************************************************)
EXTENDS TigerPayment, TLAPS

USE AttemptsAssumption, ThreadsAssumption DEF dynamic_qr_is_paid

----------------------------------------------------------------------------
\* The status algebra.

\* Every device status has a known name, and only the device's own success
\* and cancel are called success and cancelled.
LEMMA NormalFacts ==
    ASSUME NEW raw \in RawStatuses
    PROVE  /\ normalize_status(raw) \in KNOWN_STATUSES
           /\ normalize_status(raw) = "success" => raw = "success"
           /\ normalize_status(raw) = "cancelled" => raw = "cancel"
BY DEF normalize_status, RawStatuses, LiveRaws, FinalRaws, KNOWN_STATUSES,
       ACTIVE_STATUSES, TERMINAL_STATUSES

\* Reconciling calls a payment a success only if the device or a paid QR does.
LEMMA IncomingFacts ==
    ASSUME NEW raw \in RawStatuses, NEW settled \in BOOLEAN
    PROVE  /\ IncomingStatus(raw, settled) \in KNOWN_STATUSES
           /\ IncomingStatus(raw, settled) = "success" => raw = "success" \/ settled
           /\ IncomingStatus(raw, settled) = "cancelled" => raw = "cancel"
BY NormalFacts DEF IncomingStatus, KNOWN_STATUSES, TERMINAL_STATUSES

\* The UPDATE writes the new status or keeps the old one; a terminal one is
\* replaced only when a recovery turns failed into success.
LEMMA StoredFacts ==
    ASSUME NEW current, NEW new, NEW r \in BOOLEAN
    PROVE  /\ StoredStatus(current, new, r) \in {current, new}
           /\ current \in TERMINAL_STATUSES /\ StoredStatus(current, new, r) # current
                => r /\ current = "failed" /\ new = "success"
BY DEF StoredStatus

\* A settled QR is paid; one that may be confirmed shows something.
LEMMA QrSettled ==
    ASSUME NEW q \in SUBSET QrFacts
    PROVE  paid_qr_settled(q) \in BOOLEAN /\ (paid_qr_settled(q) => "paid" \in q)
BY DEF paid_qr_settled, QrFacts

----------------------------------------------------------------------------
\* The inductive invariant.

WritingPcs == {"create", "store", "store_failed", "mark", "device", "confirm_mark",
               "reconcile", "apply", "confirm", "refresh", "race", "get", "clear",
               "expire"} \union ForcePcs

\* What a thread carries between two steps: an attempt whose row exists, a
\* device status the device did report, a paid mark only of a paid QR.
JobOK(j) ==
    /\ j.pc # "idle" => j.a \in Attempts
    /\ j.pc \in WritingPcs => row[j.a] # "absent"
    /\ j.pc \in {"store", "reconcile", "apply", "confirm", "refresh", "race"}
          => dev[j.a] # "none"
    /\ j.pc \in {"store", "reconcile", "confirm", "refresh", "race"}
          => /\ j.obs \in RawStatuses
             /\ j.obs \in seen[j.a] \/ (j.obs = "success" /\ "paid" \in qr[j.a])
    /\ j.pc = "apply"
          => /\ j.to \in KNOWN_STATUSES
             /\ j.to = "success" => "success" \in seen[j.a] \/ "paid" \in qr[j.a]
             /\ j.to = "cancelled" => "cancel" \in seen[j.a]
    /\ j.pc \in {"confirm", "refresh", "race"} => qr[j.a] # {}
    /\ j.pc = "race" => j.obs = "success"
    /\ j.pc # "idle" /\ (j.paid \/ j.rec) => "paid" \in qr[j.a]

JobInv == \A p \in Threads : JobOK(job[p])

\* The device forgets nothing it reported; a Tiger id and a paid QR are of a
\* transaction it opened, for a row that exists.
DeviceInv == \A a \in Attempts :
    /\ dev[a] # "none" => dev[a] \in seen[a] /\ row[a] # "absent"
    /\ seen[a] # {} => dev[a] # "none"
    /\ qr[a] # {} => dev[a] # "none"
    /\ tid[a] => dev[a] # "none"

PollerType == poller \in [booted : BOOLEAN, phase : {"start", "poll", "sweep"},
                          todo : SUBSET Attempts, old : SUBSET Attempts]

\* What the poller has listed is still there when it gets to it.
PollerInv ==
    /\ PollerType
    /\ poller.phase = "poll" => \A a \in poller.todo : tid[a]
    /\ poller.phase = "sweep" => \A a \in poller.todo : row[a] # "absent"

CountType == quiet \in BOOLEAN /\ crashes \in Nat /\ hooks \in Nat

PaidInv == SuccessIsPaid /\ CancelledByDevice

IInv == TypeOK /\ JobInv /\ DeviceInv /\ PollerInv /\ PaidInv

LEMMA NoJobFacts == NoJob \in JobType /\ NoJob.pc = "idle" /\ JobOK(NoJob)
BY DEF NoJob, JobType, JobOK, WritingPcs, ForcePcs

LEMMA WrittenFacts ==
    ASSUME TypeOK, NEW a \in Attempts, NEW new \in KNOWN_STATUSES, NEW r \in BOOLEAN
    PROVE  /\ Written(a, new, r) \in [Attempts -> RowStatuses]
           /\ \A b \in Attempts \ {a} : Written(a, new, r)[b] = row[b]
           /\ Written(a, new, r)[a] \in {row[a], new}
           /\ row[a] \in TERMINAL_STATUSES /\ Written(a, new, r)[a] # row[a]
                => r /\ row[a] = "failed" /\ Written(a, new, r)[a] = "success"
<1>1. StoredStatus(row[a], new, r) \in {row[a], new}
  BY StoredFacts
<1>2. StoredStatus(row[a], new, r) \in RowStatuses
  BY <1>1 DEF TypeOK, RowStatuses
<1>3. /\ Written(a, new, r) = [row EXCEPT ![a] = StoredStatus(row[a], new, r)]
      /\ row \in [Attempts -> RowStatuses]
  BY DEF Written, TypeOK
<1>4. Written(a, new, r)[a] = StoredStatus(row[a], new, r)
  BY <1>3
<1>5. Written(a, new, r) \in [Attempts -> RowStatuses]
  BY <1>2, <1>3
<1>6. \A b \in Attempts \ {a} : Written(a, new, r)[b] = row[b]
  BY <1>3
<1>7. row[a] \in TERMINAL_STATUSES /\ StoredStatus(row[a], new, r) # row[a]
        => r /\ row[a] = "failed" /\ StoredStatus(row[a], new, r) = "success"
  BY StoredFacts, <1>1
<1>. QED
  BY <1>1, <1>4, <1>5, <1>6, <1>7

LEMMA InitInv == Init => IInv
<1>. SUFFICES ASSUME Init PROVE IInv
  OBVIOUS
<1>1. TypeOK
  BY NoJobFacts DEF Init, TypeOK, RowStatuses
<1>2. JobInv
  BY NoJobFacts DEF Init, JobInv
<1>3. DeviceInv /\ PollerInv /\ PaidInv
  BY DEF Init, DeviceInv, PollerInv, PollerType, PaidInv, SuccessIsPaid, CancelledByDevice
<1>. QED
  BY <1>1, <1>2, <1>3 DEF IInv

----------------------------------------------------------------------------
\* Steps of one thread.

\* What every step leaves true of the past: rows stay, the device forgets nothing.
Monotone == \A a \in Attempts :
    /\ row[a] # "absent" => row'[a] # "absent"
    /\ dev[a] # "none" => dev'[a] # "none"
    /\ seen[a] \subseteq seen'[a]
    /\ qr[a] \subseteq qr'[a]
    /\ tid[a] => tid'[a]

\* A job stays good while the world moves on.
LEMMA JobStays ==
    ASSUME NEW j \in JobType, JobOK(j), Monotone
    PROVE  JobOK(j)'
<1>1. CASE j.pc = "idle"
  BY <1>1 DEF JobOK, WritingPcs, ForcePcs
<1>2. CASE j.pc # "idle"
  BY <1>2 DEF JobOK, Monotone
<1>. QED
  BY <1>1, <1>2

LEMMA ThreadStep ==
    ASSUME IInv, Monotone, NEW p \in Threads, NEW j \in JobType,
           job' = [job EXCEPT ![p] = j], JobOK(j)'
    PROVE  JobInv' /\ job' \in [Threads -> JobType]
<1>1. job \in [Threads -> JobType] /\ JobInv
  BY DEF IInv, TypeOK
<1>2. job' \in [Threads -> JobType]
  BY <1>1
<1>3. ASSUME NEW q \in Threads PROVE JobOK(job[q])'
  <2>1. CASE q = p
    <3>1. job'[q] = j
      BY <1>1, <2>1
    <3>. QED
      BY <3>1 DEF JobOK
  <2>2. CASE q # p
    <3>1. PICK i : i = job[q]
      OBVIOUS
    <3>2. i \in JobType /\ JobOK(i)
      BY <1>1, <3>1 DEF JobInv
    <3>3. JobOK(i)'
      BY <3>2, JobStays
    <3>4. job'[q] = i
      BY <1>1, <2>2, <3>1
    <3>. QED
      BY <3>3, <3>4 DEF JobOK
  <2>. QED
    BY <2>1, <2>2
<1>. QED
  BY <1>2, <1>3 DEF JobInv

\* The thread that moves only changes what it carries.
LEMMA JobOnly ==
    ASSUME IInv, NEW p \in Threads, NEW j \in JobType, JobOK(j),
           job' = [job EXCEPT ![p] = j],
           UNCHANGED <<dbVars, devVars, forced>>, PollerInv', CountType'
    PROVE  IInv'
<1>. USE DEF dbVars, devVars
<1>1. Monotone
  BY DEF Monotone
<1>2. JobOK(j)'
  BY JobStays, <1>1
<1>3. JobInv' /\ job' \in [Threads -> JobType]
  BY ThreadStep, <1>1, <1>2
<1>4. TypeOK'
  BY <1>3 DEF IInv, TypeOK, PollerInv, PollerType, CountType
<1>5. DeviceInv' /\ PaidInv'
  BY DEF IInv, DeviceInv, PaidInv, SuccessIsPaid, CancelledByDevice
<1>. QED
  BY <1>3, <1>4, <1>5 DEF IInv

LEMMA SameCounts == ASSUME IInv PROVE CountType /\ PollerInv
BY DEF IInv, TypeOK, CountType

\* It goes on to its next step, or is done.
LEMMA GotoStep ==
    ASSUME IInv, NEW p \in Threads, NEW pc, Goto(p, pc),
           [job[p] EXCEPT !.pc = pc] \in JobType, JobOK([job[p] EXCEPT !.pc = pc]),
           UNCHANGED <<dbVars, devVars, forced>>, PollerInv', CountType'
    PROVE  IInv'
<1>1. PICK j : j = [job[p] EXCEPT !.pc = pc]
  OBVIOUS
<1>2. job' = [job EXCEPT ![p] = j]
  BY <1>1 DEF Goto, IInv, TypeOK
<1>3. j \in JobType /\ JobOK(j)
  BY <1>1
<1>. QED
  BY <1>2, <1>3, JobOnly

LEMMA FinishStep ==
    ASSUME IInv, NEW p \in Threads, Finish(p),
           UNCHANGED <<dbVars, devVars, forced>>, PollerInv', CountType'
    PROVE  IInv'
<1>1. PICK j : j = NoJob
  OBVIOUS
<1>. QED
  BY <1>1, NoJobFacts, JobOnly DEF Finish

LEMMA Still ==
    ASSUME IInv, Monotone, UNCHANGED <<poller, quiet, crashes, hooks>>
    PROVE  PollerInv' /\ CountType'
BY DEF IInv, TypeOK, PollerInv, PollerType, CountType, Monotone

LEMMA StillDb ==
    ASSUME IInv, UNCHANGED <<dbVars, devVars, poller, quiet, crashes, hooks>>
    PROVE  PollerInv' /\ CountType'
<1>1. Monotone
  BY DEF Monotone, dbVars, devVars
<1>. QED
  BY <1>1, Still

\* A thread takes up an attempt.
LEMMA StartStep ==
    ASSUME IInv, NEW p \in Threads, NEW a \in Attempts, NEW op \in {"send", "cancel", "force", "sweep"},
           NEW pc \in {"read_success", "mark", "get", "expire"},
           pc # "read_success" => row[a] # "absent", Start(p, op, pc, a),
           UNCHANGED <<dbVars, devVars, forced>>, PollerInv', CountType'
    PROVE  IInv'
<1>1. PICK j : j = [NoJob EXCEPT !.op = op, !.pc = pc, !.a = a]
  OBVIOUS
<1>2. j \in JobType /\ j.pc = pc /\ j.a = a /\ j.paid = FALSE /\ j.rec = FALSE
  BY <1>1 DEF NoJob, JobType
<1>3. JobOK(j)
  BY <1>2 DEF JobOK, WritingPcs, ForcePcs
<1>. QED
  BY <1>1, <1>2, <1>3, JobOnly DEF Start

LEMMA JobFacts ==
    ASSUME IInv, NEW p \in Threads
    PROVE  job[p] \in JobType /\ JobOK(job[p])
BY DEF IInv, TypeOK, JobInv

----------------------------------------------------------------------------
\* Steps that touch neither the rows nor the device.

LEMMA SendReads ==
    ASSUME IInv, NEW w \in Workers,
           \/ \E a \in Attempts : SendStart(w, a)
           \/ SendPeek(w) \/ SendReadSuccess(w) \/ SendReadActive(w) \/ SendRefused(w)
    PROVE  IInv'
<1>0. w \in Threads
  BY DEF Threads
<1>1. UNCHANGED <<dbVars, devVars, forced, poller, quiet, crashes, hooks>>
  BY DEF SendStart, SendPeek, SendReadSuccess, SendReadActive, SendRefused
<1>2. PollerInv' /\ CountType'
  BY <1>1, StillDb
<1>3. CASE \E a \in Attempts : SendStart(w, a)
  BY <1>0, <1>1, <1>2, <1>3, StartStep DEF SendStart
<1>4. CASE SendPeek(w)
  <2>1. PICK answer \in {"busy", "free", "error"} : job' = [job EXCEPT ![w].obs = answer]
    BY <1>4 DEF SendPeek
  <2>2. PICK j : j = [job[w] EXCEPT !.obs = answer]
    OBVIOUS
  <2>3. job[w] \in JobType /\ JobOK(job[w])
    BY <1>0, JobFacts
  <2>4. j \in JobType /\ JobOK(j)
    BY <1>4, <2>2, <2>3 DEF JobType, JobOK, SendPeek, SendReading, WritingPcs, ForcePcs
  <2>5. job' = [job EXCEPT ![w] = j]
    BY <1>0, <2>1, <2>2 DEF IInv, TypeOK
  <2>. QED
    BY <1>0, <1>1, <1>2, <2>4, <2>5, JobOnly
<1>5. CASE Finish(w)
  BY <1>0, <1>1, <1>2, <1>5, FinishStep
<1>6. ASSUME NEW pc \in {"read_active", "insert"}, Goto(w, pc),
             SendReadSuccess(w) \/ SendReadActive(w)
      PROVE  IInv'
  <2>1. job[w] \in JobType /\ JobOK(job[w]) /\ job[w].pc \in {"read_success", "read_active"}
    BY <1>0, <1>6, JobFacts DEF SendReadSuccess, SendReadActive, At
  <2>2. [job[w] EXCEPT !.pc = pc] \in JobType
    BY <2>1 DEF JobType
  <2>3. JobOK([job[w] EXCEPT !.pc = pc])
    BY <2>1, <2>2 DEF JobOK, WritingPcs, ForcePcs, JobType
  <2>. QED
    BY <1>0, <1>1, <1>2, <1>6, <2>2, <2>3, GotoStep
<1>. QED
  BY <1>3, <1>4, <1>5, <1>6 DEF SendReadSuccess, SendReadActive, SendRefused

LEMMA ActiveExists == "absent" \notin ACTIVE_STATUSES
BY DEF ACTIVE_STATUSES

LEMMA WorkerReads ==
    ASSUME IInv, NEW w \in Workers, NEW a \in Attempts,
           CancelRead(w, a) \/ ForceRead(w, a) \/ ForceGet(w)
    PROVE  IInv'
<1>0. w \in Threads
  BY DEF Threads
<1>1. UNCHANGED <<dbVars, devVars, forced, poller, quiet, crashes, hooks>>
  BY DEF CancelRead, ForceRead, ForceGet
<1>2. PollerInv' /\ CountType'
  BY <1>1, StillDb
<1>3. CASE CancelRead(w, a)
  BY <1>0, <1>1, <1>2, <1>3, StartStep, ActiveExists DEF CancelRead
<1>4. CASE ForceRead(w, a)
  BY <1>0, <1>1, <1>2, <1>4, StartStep DEF ForceRead
<1>5. CASE ForceGet(w)
  <2>. DEFINE b == job[w].a
  <2>1. job[w] \in JobType /\ JobOK(job[w]) /\ job[w].pc = "get" /\ b \in Attempts
    BY <1>0, <1>5, JobFacts DEF ForceGet, At, JobOK
  <2>2. CASE Goto(w, "manual_local")
    <3>1. [job[w] EXCEPT !.pc = "manual_local"] \in JobType
      BY <2>1 DEF JobType, ForcePcs
    <3>2. JobOK([job[w] EXCEPT !.pc = "manual_local"])
      BY <2>1, <3>1 DEF JobOK, WritingPcs, ForcePcs, JobType
    <3>. QED
      BY <1>0, <1>1, <1>2, <2>2, <3>1, <3>2, GotoStep
  <2>3. CASE /\ tid[b] /\ should_confirm_qr_payment(dev[b], qr[b])
             /\ job' = [job EXCEPT ![w].pc = "confirm", ![w].obs = dev[b],
                                  ![w].paid = paid_qr_settled(qr[b])]
    <3>. DEFINE s == paid_qr_settled(qr[b])
    <3>0. s \in BOOLEAN /\ (s => "paid" \in qr[b])
      BY <2>1, QrSettled DEF IInv, TypeOK
    <3>1. PICK j : j = [job[w] EXCEPT !.pc = "confirm", !.obs = dev[b], !.paid = s]
      OBVIOUS
    <3>. HIDE DEF s
    <3>2. qr[b] # {} /\ dev[b] # "none" /\ dev[b] \in seen[b] /\ dev[b] \in RawStatuses
      BY <2>1, <2>3 DEF IInv, DeviceInv, TypeOK, should_confirm_qr_payment
    <3>3. j \in JobType /\ j.pc = "confirm" /\ j.a = b /\ j.obs = dev[b] /\ j.paid = s
          /\ j.rec = job[w].rec
      BY <2>1, <3>0, <3>1, <3>2 DEF JobType
    <3>4. JobOK(j)
      BY <2>1, <3>0, <3>2, <3>3 DEF JobOK, WritingPcs, ForcePcs
    <3>5. job' = [job EXCEPT ![w] = j]
      BY <1>0, <2>3, <3>1 DEF IInv, TypeOK, s
    <3>. QED
      BY <1>0, <1>1, <1>2, <3>3, <3>4, <3>5, JobOnly
  <2>. QED
    BY <1>5, <2>2, <2>3 DEF ForceGet
<1>. QED
  BY <1>3, <1>4, <1>5

LEMMA HookStep ==
    ASSUME IInv, NEW w \in Workers, NEW a \in Attempts, NEW raw \in RawStatuses,
           HookReceive(w, a, raw)
    PROVE  IInv'
<1>0. w \in Threads
  BY DEF Threads
<1>1. PICK j : j = [NoJob EXCEPT !.op = "hook", !.pc = "reconcile", !.a = a, !.obs = raw]
  OBVIOUS
<1>2. j \in JobType /\ j.pc = "reconcile" /\ j.a = a /\ j.obs = raw /\ j.paid = FALSE /\ j.rec = FALSE
  BY <1>1 DEF NoJob, JobType
<1>3. dev[a] # "none" /\ row[a] # "absent" /\ raw \in seen[a]
  BY DEF HookReceive, IInv, DeviceInv
<1>4. JobOK(j)
  BY <1>2, <1>3 DEF JobOK, WritingPcs, ForcePcs
<1>5. PollerInv'
  BY DEF HookReceive, IInv, PollerInv, PollerType, dbVars
<1>6. quiet' \in BOOLEAN
  BY Zenon DEF HookReceive, IInv, TypeOK
<1>7. crashes' \in Nat /\ hooks' \in Nat
  BY DEF HookReceive, IInv, TypeOK
<1>. QED
  BY <1>0, <1>1, <1>2, <1>4, <1>5, <1>6, <1>7, JobOnly DEF HookReceive, CountType

\* A poll or a sweep carries what the device says at that moment.
LEMMA ObserveStep ==
    ASSUME IInv, NEW a \in Attempts, dev[a] # "none",
           NEW op \in {"poll", "sweep"}, NEW pc \in {"reconcile", "confirm"},
           pc = "confirm" => qr[a] # {},
           NEW s \in BOOLEAN, s => "paid" \in qr[a],
           job' = [job EXCEPT ![Poller] = [NoJob EXCEPT !.op = op, !.a = a, !.obs = dev[a],
                                                       !.paid = s, !.pc = pc]],
           UNCHANGED <<dbVars, devVars, forced>>, PollerInv', CountType'
    PROVE  IInv'
<1>1. PICK j : j = [NoJob EXCEPT !.op = op, !.a = a, !.obs = dev[a], !.paid = s, !.pc = pc]
  OBVIOUS
<1>2. dev[a] \in RawStatuses /\ dev[a] \in seen[a] /\ row[a] # "absent"
  BY DEF IInv, DeviceInv, TypeOK
<1>3. /\ j \in JobType /\ j.pc = pc /\ j.a = a /\ j.obs = dev[a]
      /\ j.paid = s /\ j.rec = FALSE
  BY <1>1, <1>2 DEF NoJob, JobType
<1>4. JobOK(j)
  BY <1>2, <1>3 DEF JobOK, WritingPcs, ForcePcs
<1>. QED
  BY <1>1, <1>3, <1>4, JobOnly DEF Threads

LEMMA PollerReads ==
    ASSUME IInv, NEW a,
           \/ PollList \/ SweepList \/ SweepEnd
           \/ /\ a \in Attempts
              /\ PollGet(a) \/ PollGetFailed(a) \/ SweepFound(a) \/ SweepMissed(a)
    PROVE  IInv'
<1>0. /\ UNCHANGED <<dbVars, devVars, forced, quiet, crashes, hooks>>
      /\ CountType'
  BY SameCounts DEF PollList, SweepList, SweepEnd, PollGet, PollGetFailed, SweepFound,
     SweepMissed, CountType
<1>1. UNCHANGED <<row, tid, dev, qr>>
  BY <1>0 DEF dbVars, devVars
<1>2. PollerInv /\ PollerType
  BY DEF IInv, PollerInv
<1>3. PollerInv'
  <2>1. CASE PollList
    <3>1. PICK T \in SUBSET Attempts :
             poller' = [poller EXCEPT !.phase = "poll", !.todo = T] /\ \A b \in T : tid[b]
      <4>1. CASE poller.booted /\ quiet
        <5>. DEFINE T == {b \in Attempts : FALSE}
        <5>1. poller' = [poller EXCEPT !.phase = "poll", !.todo = {}] /\ T = {}
          BY <2>1, <4>1, Zenon DEF PollList
        <5>2. T \in SUBSET Attempts /\ \A b \in T : tid[b]
          BY Zenon
        <5>. QED
          BY <5>1, <5>2
      <4>2. CASE ~(poller.booted /\ quiet)
        <5>. DEFINE T == {b \in Attempts :
                 row[b] \in ACTIVE_STATUSES \union (IF poller.booted THEN {} ELSE {"unknown"})
                 /\ tid[b]}
        <5>1. poller' = [poller EXCEPT !.phase = "poll", !.todo = T]
          BY <2>1, <4>2, Zenon DEF PollList
        <5>2. T \in SUBSET Attempts /\ \A b \in T : tid[b]
          BY Zenon
        <5>. QED
          BY <5>1, <5>2
      <4>. QED
        BY <4>1, <4>2
    <3>. QED
      BY <1>1, <1>2, <3>1 DEF PollerInv, PollerType
  <2>3. CASE SweepList
    <3>. DEFINE U == {b \in Attempts : row[b] = "sending" /\ ~tid[b]}
                V == {b \in U : stale[b]}
    <3>1. poller' = [poller EXCEPT !.phase = "sweep", !.todo = U, !.old = V]
      BY <2>3, Zenon DEF SweepList
    <3>2. U \in SUBSET Attempts /\ V \in SUBSET Attempts /\ \A b \in U : row[b] # "absent"
      OBVIOUS
    <3>. HIDE DEF U, V
    <3>. QED
      BY <1>1, <1>2, <3>1, <3>2 DEF PollerInv, PollerType
  <2>4. CASE SweepEnd
    BY <2>4 DEF SweepEnd, PollerInv, PollerType
  <2>2. CASE a \in Attempts /\ (PollGet(a) \/ PollGetFailed(a) \/ SweepFound(a) \/ SweepMissed(a))
    BY <1>1, <1>2, <2>2 DEF PollGet, PollGetFailed, SweepFound, SweepMissed, PollerInv,
       PollerType, PollerIdle
  <2>. QED
    BY <2>1, <2>2, <2>3, <2>4
<1>4. CASE job' = job
  <2>1. PICK j : j = job[Poller]
    OBVIOUS
  <2>2. j \in JobType /\ JobOK(j) /\ job' = [job EXCEPT ![Poller] = j]
    BY <1>4, <2>1, JobFacts DEF IInv, TypeOK, Threads
  <2>. QED
    BY <1>0, <1>3, <2>2, JobOnly DEF Threads
<1>5. CASE a \in Attempts /\ PollGet(a)
  <2>1. dev[a] # "none"
    BY <1>2, <1>5 DEF PollGet, PollerIdle, PollerInv, IInv, DeviceInv
  <2>2. should_confirm_qr_payment(dev[a], qr[a]) => qr[a] # {}
    BY DEF should_confirm_qr_payment
  <2>3. /\ paid_qr_settled(qr[a]) \in BOOLEAN
        /\ paid_qr_settled(qr[a]) => "paid" \in qr[a]
    BY <1>5, QrSettled DEF IInv, TypeOK
  <2>. QED
    BY <1>0, <1>3, <1>5, <2>1, <2>2, <2>3, ObserveStep DEF PollGet
<1>6. CASE a \in Attempts /\ SweepFound(a)
  <2>1. /\ paid_qr_settled(qr[a]) \in BOOLEAN
        /\ paid_qr_settled(qr[a]) => "paid" \in qr[a]
    BY <1>6, QrSettled DEF IInv, TypeOK
  <2>. QED
    BY <1>0, <1>3, <1>6, <2>1, ObserveStep DEF SweepFound
<1>7. CASE a \in Attempts /\ SweepMissed(a)
  <2>1. row[a] # "absent"
    BY <1>2, <1>7 DEF SweepMissed, PollerIdle, PollerInv
  <2>2. CASE Start(Poller, "sweep", "expire", a)
    BY <1>0, <1>3, <1>7, <2>1, <2>2, StartStep DEF Threads
  <2>. QED
    BY <1>4, <1>7, <2>2 DEF SweepMissed
<1>. QED
  BY <1>4, <1>5, <1>6, <1>7 DEF PollList, SweepList, SweepEnd, PollGetFailed

\* The next step of a thread that is done with a status, or goes on with the same one.
LEMMA NextJob ==
    ASSUME IInv, NEW p \in Threads, job[p].pc \in WritingPcs,
           NEW pc \in ForcePcs \union {"clear", "device", "confirm_mark", "store_failed",
                                       "refresh", "reconcile"},
           pc \in {"refresh", "reconcile"} => job[p].pc \in {"confirm", "refresh", "race"},
           Reconciled(p) \/ Finish(p) \/ Goto(p, pc)
    PROVE  \E j \in JobType : JobOK(j) /\ job' = [job EXCEPT ![p] = j]
<1>1. job[p] \in JobType /\ JobOK(job[p]) /\ job[p].pc # "idle" /\ job \in [Threads -> JobType]
  BY JobFacts DEF WritingPcs, ForcePcs, IInv, TypeOK
<1>2. CASE Finish(p)
  BY <1>2, NoJobFacts DEF Finish
<1>3. ASSUME NEW q \in ForcePcs \union {"clear", "device", "confirm_mark", "store_failed",
                                       "refresh", "reconcile"},
             q \in {"refresh", "reconcile"} => job[p].pc \in {"confirm", "refresh", "race"},
             Goto(p, q)
      PROVE  \E j \in JobType : JobOK(j) /\ job' = [job EXCEPT ![p] = j]
  <2>1. PICK j : j = [job[p] EXCEPT !.pc = q]
    OBVIOUS
  <2>2. j \in JobType /\ job' = [job EXCEPT ![p] = j]
    BY <1>1, <1>3, <2>1 DEF JobType, ForcePcs, Goto
  <2>3. /\ j.pc = q /\ j.a = job[p].a /\ j.obs = job[p].obs
        /\ j.paid = job[p].paid /\ j.rec = job[p].rec
    BY <1>1, <2>1 DEF JobType
  <2>4. JobOK(j)
    BY <1>1, <1>3, <2>3 DEF JobOK, WritingPcs, ForcePcs
  <2>. QED
    BY <2>2, <2>4
<1>4. CASE Reconciled(p)
  BY <1>2, <1>3, <1>4 DEF Reconciled, ForcePcs
<1>. QED
  BY <1>2, <1>3, <1>4

LEMMA RaisedStep ==
    ASSUME IInv, NEW p \in Threads, job[p].pc \in WritingPcs, Raised(p),
           UNCHANGED <<dbVars, devVars, forced, quiet, crashes, hooks>>
    PROVE  IInv'
<1>1. PollerInv'
  BY DEF Raised, IInv, PollerInv, PollerType, dbVars
<1>2. CountType'
  BY SameCounts DEF CountType
<1>3. \E j \in JobType : JobOK(j) /\ job' = [job EXCEPT ![p] = j]
  BY NextJob DEF Raised, ForcePcs
<1>. QED
  BY <1>1, <1>2, <1>3, JobOnly

LEMMA Reconciles ==
    ASSUME IInv, NEW p \in Threads, ReconcileRead(p) \/ ConfirmRefresh(p)
    PROVE  IInv'
<1>. DEFINE a == job[p].a
<1>1. UNCHANGED <<dbVars, devVars, forced, quiet, crashes, hooks>>
  BY DEF ReconcileRead, ConfirmRefresh
<1>2. poller' = poller => PollerInv' /\ CountType'
  BY <1>1, StillDb
<1>3. /\ job[p] \in JobType /\ JobOK(job[p]) /\ job \in [Threads -> JobType]
      /\ job[p].pc \in {"reconcile", "refresh"} /\ a \in Attempts
      /\ qr[a] \in SUBSET QrFacts /\ job[p].paid \in BOOLEAN /\ job[p].obs \in RawStatuses
  BY JobFacts DEF ReconcileRead, ConfirmRefresh, IInv, TypeOK, JobOK, JobType
<1>4. CASE ReconcileRead(p)
  <2>. DEFINE incoming == IncomingStatus(job[p].obs, job[p].paid)
              recover == row[a] = "failed" /\ incoming = "success" /\ job[p].paid
  <2>1. CASE Reconciled(p) /\ poller' = poller
    <3>1. \E j \in JobType : JobOK(j) /\ job' = [job EXCEPT ![p] = j]
      BY <1>3, <2>1, NextJob DEF WritingPcs, ForcePcs
    <3>. QED
      BY <1>1, <1>2, <2>1, <3>1, JobOnly
  <2>2. CASE /\ job' = [job EXCEPT ![p].pc = "apply", ![p].to = incoming, ![p].rec = recover]
             /\ poller' = poller
    <3>1. PICK r \in BOOLEAN : r = recover
      OBVIOUS
    <3>2. PICK t : t = incoming
      OBVIOUS
    <3>3. /\ t \in KNOWN_STATUSES
          /\ t = "success" => job[p].obs = "success" \/ job[p].paid
          /\ t = "cancelled" => job[p].obs = "cancel"
      BY <1>3, <3>2, IncomingFacts
    <3>4. PICK j : j = [job[p] EXCEPT !.pc = "apply", !.to = t, !.rec = r]
      OBVIOUS
    <3>5. /\ j \in JobType /\ j.pc = "apply" /\ j.a = a /\ j.to = t
          /\ j.paid = job[p].paid /\ j.rec = r
      BY <1>3, <3>3, <3>4 DEF JobType
    <3>6. JobOK(j)
      BY <1>3, <1>4, <3>1, <3>3, <3>5 DEF JobOK, WritingPcs, ForcePcs, ReconcileRead
    <3>7. job' = [job EXCEPT ![p] = j]
      BY <1>3, <2>2, <3>1, <3>2, <3>4
    <3>. QED
      BY <1>1, <1>2, <2>2, <3>5, <3>6, <3>7, JobOnly
  <2>3. CASE Raised(p)
    BY <1>1, <1>3, <2>3, RaisedStep DEF WritingPcs
  <2>. QED
    BY <1>4, <2>1, <2>2, <2>3 DEF ReconcileRead
<1>5. CASE ConfirmRefresh(p)
  <2>. DEFINE s == paid_qr_settled(qr[a])
  <2>0. /\ job[p].pc = "refresh" /\ qr[a] # {} /\ poller' = poller /\ row[a] # "absent"
        /\ dev[a] # "none" /\ dev[a] \in seen[a] /\ s \in BOOLEAN /\ (s => "paid" \in qr[a])
    BY <1>3, <1>5, QrSettled DEF ConfirmRefresh, JobOK, IInv, DeviceInv, WritingPcs
  <2>1. CASE Goto(p, "reconcile")
    <3>1. \E j \in JobType : JobOK(j) /\ job' = [job EXCEPT ![p] = j]
      BY <2>0, <2>1, NextJob DEF WritingPcs, ForcePcs
    <3>. QED
      BY <1>1, <1>2, <2>0, <3>1, JobOnly
  <2>2. CASE /\ confirm_mismatch_already_paid(dev[a], qr[a])
             /\ job' = [job EXCEPT ![p].pc = "race", ![p].obs = "success", ![p].paid = s]
    <3>0. "success" \in seen[a] \/ "paid" \in qr[a]
      BY <2>0, <2>2 DEF confirm_mismatch_already_paid
    <3>1. PICK j : j = [job[p] EXCEPT !.pc = "race", !.obs = "success", !.paid = s]
      OBVIOUS
    <3>4. job' = [job EXCEPT ![p] = j]
      BY <1>3, <2>2, <3>1
    <3>. HIDE DEF s
    <3>2. /\ j \in JobType /\ j.pc = "race" /\ j.a = a /\ j.obs = "success"
          /\ j.paid = s /\ j.rec = job[p].rec
      BY <1>3, <2>0, <3>1 DEF JobType, RawStatuses, FinalRaws
    <3>3. JobOK(j)
      BY <1>3, <2>0, <3>0, <3>2 DEF JobOK, WritingPcs, ForcePcs, RawStatuses, FinalRaws
    <3>. QED
      BY <1>1, <1>2, <2>0, <3>2, <3>3, <3>4, JobOnly
  <2>. QED
    BY <1>5, <2>1, <2>2 DEF ConfirmRefresh
<1>. QED
  BY <1>4, <1>5

----------------------------------------------------------------------------
\* Steps that change the device.

LEMMA DeviceChange ==
    ASSUME IInv, NEW a \in Attempts, row[a] # "absent", NEW raw \in RawStatuses,
           dev' = [dev EXCEPT ![a] = raw], seen' = [seen EXCEPT ![a] = @ \union {raw}], qr' = qr,
           UNCHANGED <<dbVars, forced, poller, quiet, crashes, hooks>>
    PROVE  /\ Monotone /\ DeviceInv' /\ PaidInv' /\ PollerInv' /\ CountType'
           /\ dev' \in [Attempts -> RawStatuses \union {"none"}]
           /\ seen' \in [Attempts -> SUBSET RawStatuses]
<1>1. /\ dev \in [Attempts -> RawStatuses \union {"none"}]
      /\ seen \in [Attempts -> SUBSET RawStatuses]
      /\ DeviceInv /\ PaidInv /\ raw # "none"
  BY DEF IInv, TypeOK, RawStatuses, LiveRaws, FinalRaws
<1>2. /\ dev' \in [Attempts -> RawStatuses \union {"none"}]
      /\ seen' \in [Attempts -> SUBSET RawStatuses]
  BY <1>1
<1>3. Monotone
  BY <1>1 DEF Monotone, dbVars
<1>4. DeviceInv'
  BY <1>1 DEF DeviceInv, dbVars
<1>5. PaidInv'
  BY <1>1 DEF PaidInv, SuccessIsPaid, CancelledByDevice, dbVars
<1>. QED
  BY <1>2, <1>3, <1>4, <1>5, Still

LEMMA DeviceStep ==
    ASSUME IInv, NEW a \in Attempts, row[a] # "absent", NEW raw \in RawStatuses,
           dev' = [dev EXCEPT ![a] = raw], seen' = [seen EXCEPT ![a] = @ \union {raw}], qr' = qr,
           UNCHANGED <<dbVars, forced, poller, quiet, crashes, hooks>>,
           NEW p \in Threads, NEW j \in JobType, JobOK(j)', job' = [job EXCEPT ![p] = j]
    PROVE  IInv'
<1>1. /\ Monotone /\ DeviceInv' /\ PaidInv' /\ PollerInv' /\ CountType'
      /\ dev' \in [Attempts -> RawStatuses \union {"none"}]
      /\ seen' \in [Attempts -> SUBSET RawStatuses]
  BY DeviceChange
<1>2. JobInv' /\ job' \in [Threads -> JobType]
  BY <1>1, ThreadStep
<1>3. TypeOK'
  BY <1>1, <1>2 DEF TypeOK, IInv, dbVars, PollerInv, PollerType, CountType
<1>. QED
  BY <1>1, <1>2, <1>3 DEF IInv

\* The thread carries nothing new of the device.
LEMMA DeviceStepOld ==
    ASSUME IInv, NEW a \in Attempts, row[a] # "absent", NEW raw \in RawStatuses,
           dev' = [dev EXCEPT ![a] = raw], seen' = [seen EXCEPT ![a] = @ \union {raw}], qr' = qr,
           UNCHANGED <<dbVars, forced, poller, quiet, crashes, hooks>>,
           NEW p \in Threads, \E j \in JobType : JobOK(j) /\ job' = [job EXCEPT ![p] = j]
    PROVE  IInv'
<1>1. PICK j \in JobType : JobOK(j) /\ job' = [job EXCEPT ![p] = j]
  OBVIOUS
<1>2. JobOK(j)'
  BY <1>1, DeviceChange, JobStays
<1>. QED
  BY <1>1, <1>2, DeviceStep

LEMMA LiveExists ==
    ASSUME IInv, NEW a \in Attempts, dev[a] # "none" PROVE row[a] # "absent"
BY DEF IInv, DeviceInv

LEMMA RawFacts == /\ "pending" \in RawStatuses /\ "success" \in RawStatuses
                  /\ "cancel" \in RawStatuses /\ "mismatch" \in RawStatuses
                  /\ LiveRaws \subseteq RawStatuses /\ FinalRaws \subseteq RawStatuses
                  /\ "none" \notin RawStatuses
BY DEF RawStatuses, LiveRaws, FinalRaws

LEMMA SendCreates ==
    ASSUME IInv, NEW w \in Workers,
           SendCreateAnswered(w) \/ SendCreateUnconfirmed(w) \/ SendCreateRejected(w)
    PROVE  IInv'
<1>. DEFINE a == job[w].a
<1>0. w \in Threads
  BY DEF Threads
<1>1. /\ UNCHANGED <<dbVars, forced, poller, quiet, crashes, hooks>>
      /\ job[w].pc = "create"
  BY DEF SendCreateAnswered, SendCreateUnconfirmed, SendCreateRejected, At
<1>2. /\ job[w] \in JobType /\ JobOK(job[w]) /\ a \in Attempts /\ row[a] # "absent"
      /\ job \in [Threads -> JobType]
  BY <1>0, <1>1, JobFacts DEF JobOK, WritingPcs, IInv, TypeOK
<1>3. CASE SendCreateAnswered(w)
  <2>1. PICK j : j = [job[w] EXCEPT !.pc = "store", !.obs = "pending"]
    OBVIOUS
  <2>2. /\ j \in JobType /\ j.pc = "store" /\ j.obs = "pending" /\ j.a = a
        /\ j.paid = job[w].paid /\ j.rec = job[w].rec
    BY <1>2, <2>1, RawFacts DEF JobType
  <2>3. job' = [job EXCEPT ![w] = j]
    BY <1>0, <1>2, <1>3, <2>1 DEF SendCreateAnswered
  <2>4. /\ dev' = [dev EXCEPT ![a] = "pending"]
        /\ seen' = [seen EXCEPT ![a] = @ \union {"pending"}]
        /\ qr' = qr
    BY <1>3 DEF SendCreateAnswered, Opened
  <2>5. Monotone /\ DeviceInv' /\ "pending" \in seen'[a] /\ dev'[a] = "pending"
    BY <1>1, <1>2, <2>4, DeviceChange, RawFacts DEF IInv, TypeOK
  <2>6. JobOK(j)'
    BY <1>1, <1>2, <2>2, <2>4, <2>5, RawFacts DEF JobOK, WritingPcs, ForcePcs, dbVars
  <2>. QED
    BY <1>0, <1>1, <1>2, <2>2, <2>3, <2>4, <2>6, DeviceStep, RawFacts
<1>4. CASE SendCreateUnconfirmed(w) \/ SendCreateRejected(w)
  <2>1. \E j \in JobType : JobOK(j) /\ job' = [job EXCEPT ![w] = j]
    BY <1>0, <1>1, <1>4, NextJob DEF SendCreateUnconfirmed, SendCreateRejected, WritingPcs
  <2>2. CASE Opened(a)
    BY <1>0, <1>1, <1>2, <2>1, <2>2, DeviceStepOld, RawFacts DEF Opened
  <2>3. CASE UNCHANGED devVars
    BY <1>0, <1>1, <2>1, <2>3, JobOnly, StillDb
  <2>. QED
    BY <1>4, <2>2, <2>3 DEF SendCreateUnconfirmed, SendCreateRejected
<1>. QED
  BY <1>3, <1>4

LEMMA DeviceCalls ==
    ASSUME IInv, NEW p \in Threads,
           ConfirmFailed(p) \/ (p \in Workers /\ (CancelDevice(p) \/ ForceClear(p)))
    PROVE  IInv'
<1>. DEFINE a == job[p].a
<1>1. /\ UNCHANGED <<dbVars, forced, poller, quiet, crashes, hooks>>
      /\ job[p].pc \in {"confirm", "device", "clear"}
  BY DEF ConfirmFailed, CancelDevice, ForceClear, At
<1>2. /\ job[p] \in JobType /\ JobOK(job[p]) /\ a \in Attempts /\ row[a] # "absent"
  BY <1>1, JobFacts DEF JobOK, WritingPcs
<1>3. \E j \in JobType : JobOK(j) /\ job' = [job EXCEPT ![p] = j]
  <2>1. CASE ConfirmFailed(p)
    BY <2>1, NextJob DEF ConfirmFailed, WritingPcs
  <2>2. CASE CancelDevice(p)
    BY <1>1, <2>2, NextJob DEF CancelDevice, WritingPcs
  <2>3. CASE ForceClear(p)
    BY <1>1, <2>3, NextJob DEF ForceClear, WritingPcs, ForcePcs
  <2>. QED
    BY <2>1, <2>2, <2>3
<1>4. CASE UNCHANGED devVars
  BY <1>1, <1>3, <1>4, JobOnly, StillDb
<1>5. ASSUME NEW raw \in RawStatuses, Reports(a, raw) PROVE IInv'
  BY <1>1, <1>2, <1>3, <1>5, DeviceStepOld DEF Reports
<1>. QED
  BY <1>4, <1>5, RawFacts DEF ConfirmFailed, CancelDevice, ForceClear, DeviceConfirms,
     DeviceDisagrees

LEMMA ConfirmAnswers ==
    ASSUME IInv, NEW p \in Threads, ConfirmAnswered(p)
    PROVE  IInv'
<1>. DEFINE a == job[p].a
<1>1. /\ UNCHANGED <<dbVars, forced, poller, quiet, crashes, hooks>>
      /\ job[p].pc = "confirm"
  BY DEF ConfirmAnswered
<1>2. /\ job[p] \in JobType /\ JobOK(job[p]) /\ a \in Attempts /\ row[a] # "absent"
      /\ job \in [Threads -> JobType]
  BY <1>1, JobFacts DEF JobOK, WritingPcs, IInv, TypeOK
<1>3. PICK j : j = [job[p] EXCEPT !.pc = "reconcile", !.obs = "success"]
  OBVIOUS
<1>4. /\ j \in JobType /\ j.pc = "reconcile" /\ j.obs = "success" /\ j.a = a
      /\ j.paid = job[p].paid /\ j.rec = job[p].rec
  BY <1>2, <1>3, RawFacts DEF JobType
<1>5. job' = [job EXCEPT ![p] = j]
  BY <1>2, <1>3 DEF ConfirmAnswered
<1>6. /\ dev' = [dev EXCEPT ![a] = "success"]
      /\ seen' = [seen EXCEPT ![a] = @ \union {"success"}]
      /\ qr' = qr
  BY DEF ConfirmAnswered, DeviceConfirms, Reports
<1>7. "success" \in seen'[a] /\ dev'[a] = "success"
  BY <1>2, <1>6 DEF IInv, TypeOK
<1>8. JobOK(j)'
  BY <1>1, <1>2, <1>4, <1>6, <1>7, RawFacts DEF JobOK, WritingPcs, ForcePcs, dbVars
<1>. QED
  BY <1>1, <1>2, <1>4, <1>5, <1>6, <1>8, DeviceStep, RawFacts

\* The device moves while every thread stays where it is.
LEMMA DeviceAlone ==
    ASSUME IInv, NEW a \in Attempts, DeviceMoves(a) \/ DeviceSettles(a)
    PROVE  IInv'
<1>1. /\ UNCHANGED <<dbVars, forced, poller, quiet, crashes, hooks>>
      /\ dev[a] \in LiveRaws /\ job' = job
  BY DEF DeviceMoves, DeviceSettles
<1>2. row[a] # "absent"
  BY <1>1, RawFacts, LiveExists
<1>3. PICK raw \in RawStatuses : Reports(a, raw)
  BY RawFacts DEF DeviceMoves, DeviceSettles
<1>4. PICK j : j = job[Poller]
  OBVIOUS
<1>5. j \in JobType /\ JobOK(j) /\ job' = [job EXCEPT ![Poller] = j]
  BY <1>1, <1>4, JobFacts DEF Threads, IInv, TypeOK
<1>. QED
  BY <1>1, <1>2, <1>3, <1>5, DeviceStepOld DEF Reports, Threads

LEMMA QrPays ==
    ASSUME IInv, NEW a \in Attempts, QrPaid(a)
    PROVE  IInv'
<1>1. /\ UNCHANGED <<dbVars, dev, seen, job, forced, poller, quiet, crashes, hooks>>
      /\ dev[a] # "none" /\ qr \in [Attempts -> SUBSET QrFacts]
  BY RawFacts DEF QrPaid, IInv, TypeOK
<1>0. PICK fact \in QrFacts : qr' = [qr EXCEPT ![a] = @ \union {fact}]
  BY DEF QrPaid
<1>2. Monotone
  BY <1>0, <1>1 DEF Monotone, dbVars
<1>3. qr' \in [Attempts -> SUBSET QrFacts]
  BY <1>0, <1>1
<1>4. PICK j : j = job[Poller]
  OBVIOUS
<1>5. j \in JobType /\ JobOK(j) /\ job' = [job EXCEPT ![Poller] = j]
  BY <1>1, <1>4, JobFacts DEF Threads, IInv, TypeOK
<1>6. JobInv'
  BY <1>2, <1>5, JobStays, ThreadStep DEF Threads
<1>7. TypeOK'
  BY <1>1, <1>3 DEF IInv, TypeOK, dbVars
<1>8. DeviceInv' /\ PaidInv'
  BY <1>0, <1>1 DEF IInv, DeviceInv, PaidInv, SuccessIsPaid, CancelledByDevice, dbVars
<1>. QED
  BY <1>1, <1>2, <1>6, <1>7, <1>8, Still DEF IInv

LEMMA WorldSteps ==
    ASSUME IInv, NEW a, NEW p \in Threads,
           (a \in Attempts /\ Tick(a)) \/ QuietElapsed \/ Crash(p)
    PROVE  IInv'
<1>1. CASE a \in Attempts /\ Tick(a)
  <2>1. /\ UNCHANGED <<row, tid, devVars, job, forced, poller, quiet, crashes, hooks>>
        /\ stale' = [stale EXCEPT ![a] = TRUE] /\ stale \in [Attempts -> BOOLEAN]
    BY <1>1 DEF Tick, IInv, TypeOK
  <2>2. stale' \in [Attempts -> BOOLEAN]
    BY <2>1
  <2>3. TypeOK'
    BY <2>1, <2>2 DEF IInv, TypeOK, devVars
  <2>4. JobInv'
    BY <2>1 DEF IInv, JobInv, JobOK, devVars
  <2>5. DeviceInv' /\ PollerInv' /\ PaidInv'
    BY <2>1 DEF IInv, DeviceInv, PollerInv, PollerType, PaidInv, SuccessIsPaid,
       CancelledByDevice, devVars
  <2>. QED
    BY <2>3, <2>4, <2>5 DEF IInv
<1>2. CASE QuietElapsed
  <2>1. UNCHANGED <<dbVars, devVars, job, forced, poller, crashes, hooks>> /\ quiet' = FALSE
    BY <1>2 DEF QuietElapsed
  <2>2. PICK j : j = job[Poller]
    OBVIOUS
  <2>3. j \in JobType /\ JobOK(j) /\ job' = [job EXCEPT ![Poller] = j]
    BY <2>1, <2>2, JobFacts DEF Threads, IInv, TypeOK
  <2>4. PollerInv'
    BY <2>1 DEF IInv, PollerInv, PollerType, dbVars
  <2>5. CountType'
    BY <2>1 DEF IInv, TypeOK, CountType
  <2>. QED
    BY <2>1, <2>3, <2>4, <2>5, JobOnly DEF Threads
<1>3. CASE Crash(p)
  <2>1. UNCHANGED <<dbVars, devVars, quiet, forced, hooks>> /\ Finish(p) /\ crashes' = crashes + 1
    BY <1>3 DEF Crash
  <2>2. PollerInv'
    BY <1>3, <2>1 DEF Crash, IInv, PollerInv, PollerType, dbVars
  <2>3. CountType'
    BY <2>1 DEF IInv, TypeOK, CountType
  <2>. QED
    BY <2>1, <2>2, <2>3, FinishStep
<1>. QED
  BY <1>1, <1>2, <1>3

----------------------------------------------------------------------------
\* Steps that write a row.

LEMMA RowStep ==
    ASSUME IInv, NEW a \in Attempts, NEW s \in KNOWN_STATUSES,
           row' = [row EXCEPT ![a] = s],
           s = "success" => row[a] = "success" \/ "success" \in seen[a]
               \/ "paid" \in qr[a] \/ a \in forced',
           s = "cancelled" => row[a] = "cancelled" \/ "cancel" \in seen[a],
           forced \subseteq forced', forced' \subseteq Attempts,
           tid' = tid \/ (dev[a] # "none" /\ tid' = [tid EXCEPT ![a] = TRUE]),
           UNCHANGED <<stale, devVars, poller, quiet, crashes, hooks>>,
           NEW p \in Threads, NEW j \in JobType, job' = [job EXCEPT ![p] = j],
           Monotone => JobOK(j)'
    PROVE  IInv'
<1>1. /\ row \in [Attempts -> RowStatuses] /\ tid \in [Attempts -> BOOLEAN]
      /\ DeviceInv /\ PaidInv /\ s # "absent"
  BY DEF IInv, TypeOK, KNOWN_STATUSES, ACTIVE_STATUSES, TERMINAL_STATUSES
<1>2. row' \in [Attempts -> RowStatuses] /\ row'[a] = s
  BY <1>1 DEF RowStatuses
<1>3. tid' \in [Attempts -> BOOLEAN] /\ \A b \in Attempts : tid[b] => tid'[b]
  BY <1>1
<1>4. Monotone
  BY <1>1, <1>3 DEF Monotone, devVars
<1>5. JobInv' /\ job' \in [Threads -> JobType]
  BY <1>4, ThreadStep
<1>6. TypeOK'
  BY <1>2, <1>3, <1>5 DEF IInv, TypeOK, devVars
<1>7. DeviceInv'
  BY <1>1, <1>4 DEF DeviceInv, Monotone, devVars
<1>8. PaidInv'
  BY <1>1, <1>2 DEF PaidInv, SuccessIsPaid, CancelledByDevice, devVars
<1>. QED
  BY <1>4, <1>5, <1>6, <1>7, <1>8, Still DEF IInv

\* update_payment_attempt on a row that exists.
LEMMA WriteStep ==
    ASSUME IInv, NEW a \in Attempts, row[a] # "absent", NEW new \in KNOWN_STATUSES,
           NEW r \in BOOLEAN, row' = Written(a, new, r),
           new = "success" => "success" \in seen[a] \/ "paid" \in qr[a] \/ a \in forced',
           new = "cancelled" => "cancel" \in seen[a],
           forced \subseteq forced', forced' \subseteq Attempts,
           tid' = tid \/ (dev[a] # "none" /\ tid' = [tid EXCEPT ![a] = TRUE]),
           UNCHANGED <<stale, devVars, poller, quiet, crashes, hooks>>,
           NEW p \in Threads, \E j \in JobType : JobOK(j) /\ job' = [job EXCEPT ![p] = j]
    PROVE  IInv'
<1>1. PICK s : s = StoredStatus(row[a], new, r)
  OBVIOUS
<1>2. s \in {row[a], new} /\ row' = [row EXCEPT ![a] = s]
  BY <1>1, StoredFacts DEF Written
<1>3. row[a] \in KNOWN_STATUSES
  BY DEF IInv, TypeOK, RowStatuses
<1>4. s \in KNOWN_STATUSES
  BY <1>2, <1>3
<1>5. PICK j \in JobType : JobOK(j) /\ job' = [job EXCEPT ![p] = j]
  OBVIOUS
<1>6. Monotone => JobOK(j)'
  BY <1>5, JobStays
<1>. QED
  BY <1>2, <1>4, <1>5, <1>6, RowStep

LEMMA ForcedType == ASSUME IInv PROVE forced \subseteq Attempts
BY DEF IInv, TypeOK

LEMMA KnownFacts == {"sending", "failed", "cancelling", "success"} \subseteq KNOWN_STATUSES
BY DEF KNOWN_STATUSES, ACTIVE_STATUSES, TERMINAL_STATUSES

\* Where a thread writes, its row exists.
LEMMA WriterFacts ==
    ASSUME IInv, NEW p \in Threads, job[p].pc \in WritingPcs
    PROVE  /\ job[p] \in JobType /\ JobOK(job[p]) /\ job[p].a \in Attempts
           /\ row[job[p].a] # "absent" /\ job[p].rec \in BOOLEAN
BY JobFacts DEF JobOK, WritingPcs, ForcePcs, JobType

LEMMA InsertStep ==
    ASSUME IInv, NEW w \in Workers, SendInsert(w)
    PROVE  IInv'
<1>. DEFINE a == job[w].a
<1>0. w \in Threads
  BY DEF Threads
<1>1. /\ UNCHANGED <<tid, stale, devVars, forced, poller, quiet, crashes, hooks>>
      /\ job[w].pc = "insert"
  BY DEF SendInsert, At
<1>2. /\ job[w] \in JobType /\ JobOK(job[w]) /\ a \in Attempts
      /\ job \in [Threads -> JobType]
  BY <1>0, <1>1, JobFacts DEF JobOK, IInv, TypeOK
<1>3. CASE row' = row /\ Finish(w)
  BY <1>0, <1>1, <1>3, FinishStep, StillDb DEF dbVars
<1>4. CASE row' = [row EXCEPT ![a] = "sending"] /\ Goto(w, "create")
  <2>1. PICK j : j = [job[w] EXCEPT !.pc = "create"]
    OBVIOUS
  <2>2. /\ j \in JobType /\ j.pc = "create" /\ j.a = a
        /\ j.paid = job[w].paid /\ j.rec = job[w].rec
    BY <1>2, <2>1 DEF JobType
  <2>3. job' = [job EXCEPT ![w] = j]
    BY <1>2, <1>4, <2>1 DEF Goto
  <2>4. row'[a] = "sending"
    BY <1>2, <1>4 DEF IInv, TypeOK
  <2>5. JobOK(j)'
    BY <1>1, <1>2, <2>2, <2>4 DEF JobOK, WritingPcs, ForcePcs, devVars
  <2>. QED
    BY <1>0, <1>1, <1>2, <1>4, <2>2, <2>3, <2>5, RowStep, KnownFacts, ForcedType
<1>. QED
  BY <1>3, <1>4 DEF SendInsert

LEMMA WorkerWrites ==
    ASSUME IInv, NEW w \in Workers,
           SendStore(w) \/ SendStoreFailed(w) \/ CancelMark(w) \/ CancelConfirm(w) \/ ForceWrite(w)
    PROVE  IInv'
<1>. DEFINE a == job[w].a
<1>0. w \in Threads
  BY DEF Threads
<1>1. /\ UNCHANGED <<stale, devVars, poller, quiet, crashes, hooks>>
      /\ job[w].pc \in WritingPcs
  BY DEF SendStore, SendStoreFailed, CancelMark, CancelConfirm, ForceWrite, At, WritingPcs
<1>2. /\ JobOK(job[w]) /\ a \in Attempts /\ row[a] # "absent"
  BY <1>0, <1>1, WriterFacts
<1>3. CASE SendStore(w)
  <2>1. /\ job[w].obs \in RawStatuses /\ dev[a] # "none"
        /\ job[w].obs \in seen[a] \/ (job[w].obs = "success" /\ "paid" \in qr[a])
        /\ Finish(w) /\ forced' = forced
    BY <1>2, <1>3 DEF SendStore, At, JobOK
  <2>2. \E j \in JobType : JobOK(j) /\ job' = [job EXCEPT ![w] = j]
    BY <2>1, NoJobFacts DEF Finish
  <2>3. PICK t : t = normalize_status(job[w].obs)
    OBVIOUS
  <2>4. /\ t \in KNOWN_STATUSES /\ (t = "success" => "success" \in seen[a] \/ "paid" \in qr[a])
        /\ (t = "cancelled" => "cancel" \in seen[a])
    BY <2>1, <2>3, NormalFacts
  <2>5. CASE row' = Written(a, t, FALSE) /\ tid' = [tid EXCEPT ![a] = TRUE]
    BY <1>0, <1>1, <1>2, <2>1, <2>2, <2>4, <2>5, WriteStep, ForcedType
  <2>6. CASE UNCHANGED <<row, tid>>
    BY <1>0, <1>1, <2>1, <2>6, FinishStep, StillDb DEF dbVars
  <2>. QED
    BY <1>3, <2>3, <2>5, <2>6 DEF SendStore
<1>4. CASE SendStoreFailed(w)
  <2>1. \E j \in JobType : JobOK(j) /\ job' = [job EXCEPT ![w] = j]
    BY <1>4, NoJobFacts DEF SendStoreFailed, Finish
  <2>. QED
    BY <1>0, <1>1, <1>2, <1>4, <2>1, WriteStep, KnownFacts, ForcedType DEF SendStoreFailed
<1>5. CASE CancelMark(w) \/ CancelConfirm(w)
  <2>1. \E j \in JobType : JobOK(j) /\ job' = [job EXCEPT ![w] = j]
    BY <1>0, <1>1, <1>5, NextJob DEF CancelMark, CancelConfirm, WriteCancelling
  <2>2. CASE row' = Written(a, "cancelling", FALSE)
    BY <1>0, <1>1, <1>2, <1>5, <2>1, <2>2, WriteStep, KnownFacts, ForcedType
       DEF CancelMark, CancelConfirm
  <2>3. CASE row' = row
    BY <1>0, <1>1, <1>5, <2>1, <2>3, JobOnly, StillDb DEF CancelMark, CancelConfirm, dbVars
  <2>. QED
    BY <1>5, <2>2, <2>3 DEF CancelMark, CancelConfirm, WriteCancelling
<1>6. CASE ForceWrite(w)
  <2>1. \E j \in JobType : JobOK(j) /\ job' = [job EXCEPT ![w] = j]
    BY <1>0, <1>1, <1>6, NextJob DEF ForceWrite
  <2>2. CASE row' = Written(a, "success", FALSE) /\ forced' = forced \union {a}
    BY <1>0, <1>1, <1>2, <1>6, <2>1, <2>2, WriteStep, KnownFacts, ForcedType DEF ForceWrite
  <2>3. CASE UNCHANGED <<row, forced>>
    BY <1>0, <1>1, <1>6, <2>1, <2>3, JobOnly, StillDb DEF ForceWrite, dbVars
  <2>. QED
    BY <1>6, <2>2, <2>3 DEF ForceWrite
<1>. QED
  BY <1>3, <1>4, <1>5, <1>6

LEMMA SharedWrites ==
    ASSUME IInv, NEW p \in Threads,
           ReconcileWrite(p) \/ ConfirmRaceWrite(p) \/ (p = Poller /\ SweepExpire)
    PROVE  IInv'
<1>. DEFINE a == job[p].a
<1>1. /\ UNCHANGED <<stale, devVars, quiet, forced, crashes, hooks>>
      /\ job[p].pc \in WritingPcs
  BY DEF ReconcileWrite, ConfirmRaceWrite, SweepExpire, At, WritingPcs
<1>2. JobOK(job[p]) /\ a \in Attempts /\ row[a] # "absent" /\ job[p].rec \in BOOLEAN
  BY <1>1, WriterFacts
<1>3. CASE UNCHANGED <<row, tid>> /\ Raised(p)
  BY <1>1, <1>3, RaisedStep DEF dbVars
<1>4. CASE ReconcileWrite(p) /\ ~(UNCHANGED <<row, tid>> /\ Raised(p))
  <2>1. /\ row' = Written(a, job[p].to, job[p].rec) /\ tid' = [tid EXCEPT ![a] = TRUE]
        /\ Reconciled(p) /\ poller' = poller
    BY <1>4 DEF ReconcileWrite
  <2>2. \E j \in JobType : JobOK(j) /\ job' = [job EXCEPT ![p] = j]
    BY <1>1, <2>1, NextJob DEF ForcePcs
  <2>3. /\ job[p].to \in KNOWN_STATUSES /\ dev[a] # "none"
        /\ job[p].to = "success" => "success" \in seen[a] \/ "paid" \in qr[a]
        /\ job[p].to = "cancelled" => "cancel" \in seen[a]
    BY <1>2, <1>4 DEF ReconcileWrite, JobOK
  <2>. QED
    BY <1>1, <1>2, <2>1, <2>2, <2>3, WriteStep, ForcedType
<1>5. CASE ConfirmRaceWrite(p) /\ ~(UNCHANGED <<row, tid>> /\ Raised(p))
  <2>1. /\ row' = Written(a, "success", TRUE) /\ tid' = [tid EXCEPT ![a] = TRUE]
        /\ Goto(p, "reconcile") /\ poller' = poller /\ job[p].pc = "race"
    BY <1>5 DEF ConfirmRaceWrite
  <2>2. \E j \in JobType : JobOK(j) /\ job' = [job EXCEPT ![p] = j]
    BY <1>1, <2>1, NextJob
  <2>3. ("success" \in seen[a] \/ "paid" \in qr[a]) /\ dev[a] # "none"
    BY <1>2, <2>1 DEF JobOK
  <2>. QED
    BY <1>1, <1>2, <2>1, <2>2, <2>3, WriteStep, KnownFacts, ForcedType
<1>6. CASE p = Poller /\ SweepExpire
  <2>1. /\ row' = Written(a, "failed", FALSE) /\ UNCHANGED <<tid, poller>>
        /\ \E j \in JobType : JobOK(j) /\ job' = [job EXCEPT ![p] = j]
    BY <1>6, NoJobFacts DEF SweepExpire, Finish
  <2>. QED
    BY <1>1, <1>2, <2>1, WriteStep, KnownFacts, ForcedType
<1>. QED
  BY <1>3, <1>4, <1>5, <1>6

----------------------------------------------------------------------------
\* The invariant, and the safety of the rows that follows from it.

LEMMA StepInv == IInv /\ [Next]_vars => IInv'
<1>. SUFFICES ASSUME IInv, [Next]_vars PROVE IInv'
  OBVIOUS
<1>1. CASE UNCHANGED vars
  <2>1. TypeOK' /\ PollerInv' /\ DeviceInv' /\ PaidInv'
    BY <1>1 DEF vars, dbVars, devVars, IInv, TypeOK, PollerInv, PollerType, DeviceInv, PaidInv,
       SuccessIsPaid, CancelledByDevice
  <2>2. JobInv'
    BY <1>1 DEF vars, IInv, JobInv, JobOK
  <2>. QED
    BY <2>1, <2>2 DEF IInv
<1>2. ASSUME NEW w \in Workers, WorkerStep(w) PROVE IInv'
  <2>0. w \in Threads
    BY DEF Threads
  <2>1. CASE \E a \in Attempts : SendStart(w, a) \/ CancelRead(w, a) \/ ForceRead(w, a)
    BY <2>1, SendReads, WorkerReads
  <2>2. CASE \E a \in Attempts, raw \in RawStatuses : HookReceive(w, a, raw)
    BY <2>2, HookStep
  <2>3. CASE SendPeek(w) \/ SendReadSuccess(w) \/ SendReadActive(w) \/ SendRefused(w)
    BY <2>3, SendReads
  <2>4. CASE SendInsert(w)
    BY <2>4, InsertStep
  <2>5. CASE SendCreateAnswered(w) \/ SendCreateUnconfirmed(w) \/ SendCreateRejected(w)
    BY <2>5, SendCreates
  <2>6. CASE \/ SendStore(w) \/ SendStoreFailed(w) \/ CancelMark(w) \/ CancelConfirm(w)
             \/ ForceWrite(w)
    BY <2>6, WorkerWrites
  <2>7. CASE CancelDevice(w) \/ ForceClear(w)
    BY <2>0, <2>7, DeviceCalls
  <2>8. CASE ForceGet(w)
    <3>1. job[w].a \in Attempts
      BY <2>0, <2>8, WriterFacts DEF ForceGet, At, WritingPcs
    <3>. QED
      BY <2>8, <3>1, WorkerReads
  <2>. QED
    BY <1>2, <2>1, <2>2, <2>3, <2>4, <2>5, <2>6, <2>7, <2>8 DEF WorkerStep
<1>3. ASSUME NEW p \in Threads, SharedStep(p) PROVE IInv'
  BY <1>3, Reconciles, SharedWrites, ConfirmAnswers, DeviceCalls DEF SharedStep
<1>4. CASE PollerStep
  <2>1. CASE SweepExpire
    BY <2>1, SharedWrites DEF Threads
  <2>2. CASE PollList \/ SweepList \/ SweepEnd
    BY <2>2, PollerReads
  <2>3. CASE \E a \in Attempts :
               PollGet(a) \/ PollGetFailed(a) \/ SweepFound(a) \/ SweepMissed(a)
    BY <2>3, PollerReads
  <2>. QED
    BY <1>4, <2>1, <2>2, <2>3 DEF PollerStep
<1>5. CASE World
  <2>1. CASE \E a \in Attempts : Tick(a) \/ DeviceMoves(a) \/ DeviceSettles(a) \/ QrPaid(a)
    BY <2>1, WorldSteps, DeviceAlone, QrPays DEF Threads
  <2>2. CASE QuietElapsed \/ \E p \in Threads : Crash(p)
    BY <2>2, WorldSteps DEF Threads
  <2>. QED
    BY <1>5, <2>1, <2>2 DEF World
<1>. QED
  BY <1>1, <1>2, <1>3, <1>4, <1>5 DEF Next

----------------------------------------------------------------------------
\* The three things a step can do to the rows: nothing, insert one that the
\* index accepts, or UPDATE one that exists, again under the index.

Inserted(a) ==
    /\ row[a] = "absent"
    /\ row' = [row EXCEPT ![a] = "sending"]
    /\ IndexOK(row')

Updated(a, new, r) ==
    /\ row[a] # "absent"
    /\ row' = Written(a, new, r)
    /\ r => qr[a] # {}
    /\ IndexOK(row') \/ new = "failed"

RowsMove ==
    \/ row' = row
    \/ \E a \in Attempts : Inserted(a)
    \/ \E a \in Attempts, new \in KNOWN_STATUSES, r \in BOOLEAN : Updated(a, new, r)

LEMMA UpdatedMoves ==
    ASSUME NEW a \in Attempts, NEW new \in KNOWN_STATUSES, NEW r \in BOOLEAN, Updated(a, new, r)
    PROVE  RowsMove
BY DEF RowsMove

LEMMA WorkerRows ==
    ASSUME IInv, NEW w \in Workers, WorkerStep(w)
    PROVE  RowsMove
<1>. DEFINE a == job[w].a
<1>0. w \in Threads
  BY DEF Threads
<1>1. CASE SendInsert(w)
  <2>1. row' = row \/ Inserted(a)
    BY <1>1 DEF SendInsert, Inserted
  <2>2. a \in Attempts
    BY <1>0, <1>1, JobFacts DEF SendInsert, At, JobOK
  <2>. QED
    BY <2>1, <2>2 DEF RowsMove
<1>2. CASE SendStore(w)
  <2>1. /\ a \in Attempts /\ row[a] # "absent"
        /\ normalize_status(job[w].obs) \in KNOWN_STATUSES
    BY <1>0, <1>2, WriterFacts, NormalFacts DEF SendStore, At, WritingPcs, JobOK
  <2>2. row' = row \/ Updated(a, normalize_status(job[w].obs), FALSE)
    BY <1>2, <2>1 DEF SendStore, Updated
  <2>. QED
    BY <2>1, <2>2, UpdatedMoves DEF RowsMove
<1>3. CASE SendStoreFailed(w)
  <2>1. a \in Attempts /\ row[a] # "absent"
    BY <1>0, <1>3, WriterFacts DEF SendStoreFailed, At, WritingPcs
  <2>2. Updated(a, "failed", FALSE) /\ "failed" \in KNOWN_STATUSES
    BY <1>3, <2>1 DEF SendStoreFailed, Updated, KNOWN_STATUSES, TERMINAL_STATUSES
  <2>. QED
    BY <2>1, <2>2, UpdatedMoves
<1>4. CASE CancelMark(w) \/ CancelConfirm(w)
  <2>1. a \in Attempts /\ row[a] # "absent"
    BY <1>0, <1>4, WriterFacts DEF CancelMark, CancelConfirm, At, WritingPcs
  <2>2. row' = row \/ Updated(a, "cancelling", FALSE)
    BY <1>4, <2>1 DEF CancelMark, CancelConfirm, WriteCancelling, Updated
  <2>3. "cancelling" \in KNOWN_STATUSES
    BY DEF KNOWN_STATUSES, ACTIVE_STATUSES
  <2>. QED
    BY <2>1, <2>2, <2>3, UpdatedMoves DEF RowsMove
<1>5. CASE ForceWrite(w)
  <2>1. a \in Attempts /\ row[a] # "absent"
    BY <1>0, <1>5, WriterFacts DEF ForceWrite, WritingPcs
  <2>2. row' = row \/ Updated(a, "success", FALSE)
    BY <1>5, <2>1 DEF ForceWrite, Updated
  <2>3. "success" \in KNOWN_STATUSES
    BY DEF KNOWN_STATUSES, TERMINAL_STATUSES
  <2>. QED
    BY <2>1, <2>2, <2>3, UpdatedMoves DEF RowsMove
<1>6. CASE ~(SendInsert(w) \/ SendStore(w) \/ SendStoreFailed(w) \/ CancelMark(w)
             \/ CancelConfirm(w) \/ ForceWrite(w))
  <2>1. row' = row
    BY <1>6 DEF WorkerStep, dbVars, SendStart, CancelRead, ForceRead, HookReceive, SendPeek,
       SendReadSuccess, SendReadActive, SendRefused, SendCreateAnswered, SendCreateUnconfirmed,
       SendCreateRejected, CancelDevice, ForceGet, ForceClear
  <2>. QED
    BY <2>1 DEF RowsMove
<1>. QED
  BY <1>1, <1>2, <1>3, <1>4, <1>5, <1>6

LEMMA SharedRows ==
    ASSUME IInv, NEW p \in Threads, SharedStep(p) \/ (p = Poller /\ SweepExpire)
    PROVE  RowsMove
<1>. DEFINE a == job[p].a
<1>1. CASE ReconcileWrite(p)
  <2>1. /\ a \in Attempts /\ row[a] # "absent"
        /\ job[p].to \in KNOWN_STATUSES /\ job[p].rec \in BOOLEAN
        /\ job[p].rec => qr[a] # {}
    BY <1>1, WriterFacts DEF ReconcileWrite, WritingPcs, JobOK
  <2>2. row' = row \/ Updated(a, job[p].to, job[p].rec)
    BY <1>1, <2>1 DEF ReconcileWrite, Updated
  <2>. QED
    BY <2>1, <2>2, UpdatedMoves DEF RowsMove
<1>2. CASE ConfirmRaceWrite(p)
  <2>1. a \in Attempts /\ row[a] # "absent" /\ qr[a] # {}
    BY <1>2, WriterFacts DEF ConfirmRaceWrite, WritingPcs, JobOK
  <2>2. row' = row \/ Updated(a, "success", TRUE)
    BY <1>2, <2>1 DEF ConfirmRaceWrite, Updated
  <2>3. "success" \in KNOWN_STATUSES
    BY DEF KNOWN_STATUSES, TERMINAL_STATUSES
  <2>. QED
    BY <2>1, <2>2, <2>3, UpdatedMoves DEF RowsMove
<1>3. CASE p = Poller /\ SweepExpire
  <2>1. a \in Attempts /\ row[a] # "absent"
    BY <1>3, WriterFacts DEF SweepExpire, At, WritingPcs
  <2>2. Updated(a, "failed", FALSE) /\ "failed" \in KNOWN_STATUSES
    BY <1>3, <2>1 DEF SweepExpire, Updated, KNOWN_STATUSES, TERMINAL_STATUSES
  <2>. QED
    BY <2>1, <2>2, UpdatedMoves
<1>4. CASE ReconcileRead(p) \/ ConfirmAnswered(p) \/ ConfirmFailed(p) \/ ConfirmRefresh(p)
  BY <1>4 DEF RowsMove, dbVars, ReconcileRead, ConfirmAnswered, ConfirmFailed, ConfirmRefresh
<1>. QED
  BY <1>1, <1>2, <1>3, <1>4 DEF SharedStep

LEMMA RowSteps == IInv /\ [Next]_vars => RowsMove
<1>. SUFFICES ASSUME IInv, [Next]_vars PROVE RowsMove
  OBVIOUS
<1>1. CASE UNCHANGED vars
  BY <1>1 DEF vars, dbVars, RowsMove
<1>2. CASE PollerStep /\ ~SweepExpire
  BY <1>2 DEF RowsMove, dbVars, PollerStep, PollList, SweepList, SweepEnd, PollGet, PollGetFailed,
     SweepFound, SweepMissed
<1>3. CASE SweepExpire
  BY <1>3, SharedRows DEF Threads
<1>4. CASE World
  BY <1>4 DEF RowsMove, dbVars, World, Tick, DeviceMoves, DeviceSettles, QrPaid, QuietElapsed, Crash
<1>. QED
  BY <1>1, <1>2, <1>3, <1>4, WorkerRows, SharedRows DEF Next

\* The index holds after every step: what is written under it, or given up.
LEMMA IndexKept == IInv /\ OneBlockingPerBill /\ RowsMove => OneBlockingPerBill'
<1>. SUFFICES ASSUME IInv, OneBlockingPerBill, RowsMove PROVE OneBlockingPerBill'
  OBVIOUS
<1>1. CASE row' = row
  BY <1>1 DEF OneBlockingPerBill, SameBill
<1>2. CASE IndexOK(row')
  BY <1>2 DEF IndexOK, OneBlockingPerBill, SameBill
<1>3. ASSUME NEW a \in Attempts, NEW r \in BOOLEAN, Updated(a, "failed", r)
      PROVE  OneBlockingPerBill'
  <2>1. \A b \in Attempts : row'[b] \in {row[b], "failed"}
    BY <1>3, WrittenFacts DEF Updated, IInv, KNOWN_STATUSES, TERMINAL_STATUSES
  <2>2. "failed" \notin BLOCKING_STATUSES
    BY DEF BLOCKING_STATUSES
  <2>3. \A b \in Attempts : row'[b] \in BLOCKING_STATUSES => row[b] \in BLOCKING_STATUSES
    BY <2>1, <2>2
  <2>. QED
    BY <2>3 DEF OneBlockingPerBill, SameBill
<1>. QED
  BY <1>1, <1>2, <1>3 DEF RowsMove, Inserted, Updated

\* No step moves a settled row, but a recovery of a paid QR.
LEMMA TerminalKept ==
    ASSUME IInv, RowsMove, NEW a \in Attempts, row[a] \in TERMINAL_STATUSES, row'[a] # row[a]
    PROVE  row[a] = "failed" /\ row'[a] = "success" /\ qr[a] # {}
<1>1. row \in [Attempts -> RowStatuses] /\ row[a] # "absent"
  BY DEF IInv, TypeOK, TERMINAL_STATUSES
<1>2. ASSUME NEW b \in Attempts, Inserted(b) PROVE FALSE
  BY <1>1, <1>2 DEF Inserted
<1>3. PICK b \in Attempts, new \in KNOWN_STATUSES, r \in BOOLEAN : Updated(b, new, r)
  BY <1>2 DEF RowsMove
<1>4. b = a
  BY <1>3, WrittenFacts DEF Updated, IInv
<1>. QED
  BY <1>3, <1>4, WrittenFacts DEF Updated, IInv

----------------------------------------------------------------------------
\* The rows as a ledger.

Book == [a \in Attempts |-> BookOf(row[a])]

LEMMA BookFacts ==
    ASSUME NEW status \in RowStatuses
    PROVE  /\ BookOf(status) = "none" <=> status = "absent"
           /\ BookOf(status) = "paid" <=> status = "success"
           /\ status \in {"cancelled", "failed"} => BookOf(status) = status
           /\ status \notin TERMINAL_STATUSES \union {"absent"} => BookOf(status) = "open"
BY DEF BookOf, RowStatuses, KNOWN_STATUSES, ACTIVE_STATUSES, TERMINAL_STATUSES

\* A row that becomes blocking shows that its bill was not paid: the paid row
\* would still be there, and the index would hold both.
LEMMA NotPaidYet ==
    ASSUME IInv, RowsMove, OneBlockingPerBill', NEW a \in Attempts,
           row[a] # "success", row'[a] \in BLOCKING_STATUSES
    PROVE  ~Ledger!BillPaid(a)
<1>. SUFFICES ASSUME NEW b \in Attempts, BillOf[b] = BillOf[a], BookOf(row[b]) = "paid"
              PROVE  FALSE
  BY DEF Ledger!BillPaid
<1>1. row[b] = "success"
  BY BookFacts DEF IInv, TypeOK
<1>2. row'[b] = "success"
  BY <1>1, TerminalKept DEF TERMINAL_STATUSES
<1>. QED
  BY <1>1, <1>2 DEF OneBlockingPerBill, SameBill, BLOCKING_STATUSES

\* Changing one row changes one entry of the book.
LEMMA OneEntry ==
    ASSUME NEW a \in Attempts, NEW s, row \in [Attempts -> RowStatuses],
           row' = [row EXCEPT ![a] = s]
    PROVE  Book' = [Book EXCEPT ![a] = BookOf(s)]
BY DEF Book

LEMMA LedgerStep ==
    ASSUME IInv, RowsMove, OneBlockingPerBill'
    PROVE  [Ledger!LedgerNext]_Book
<1>0. row \in [Attempts -> RowStatuses]
  BY DEF IInv, TypeOK
<1>1. CASE row' = row
  BY <1>1 DEF Book
<1>2. ASSUME NEW a \in Attempts, Inserted(a) PROVE Ledger!LedgerNext
  <2>1. "sending" \in RowStatuses /\ "sending" \notin TERMINAL_STATUSES \union {"absent"}
    BY DEF RowStatuses, KNOWN_STATUSES, ACTIVE_STATUSES, TERMINAL_STATUSES
  <2>2. Book' = [Book EXCEPT ![a] = "open"] /\ Book[a] = "none"
    <3>1. Book' = [Book EXCEPT ![a] = BookOf("sending")] /\ BookOf("sending") = "open"
      <4>1. Book' = [Book EXCEPT ![a] = BookOf("sending")]
        BY <1>0, <1>2, OneEntry DEF Inserted
      <4>2. BookOf("sending") = "open"
        BY <2>1, BookFacts
      <4>. QED
        BY <4>1, <4>2
    <3>2. Book[a] = BookOf(row[a]) /\ row[a] \in RowStatuses
      BY <1>0 DEF Book
    <3>. QED
      BY <1>2, <3>1, <3>2, BookFacts DEF Inserted
  <2>3. ~Ledger!BillPaid(a)
    <3>1. row[a] # "success" /\ row'[a] = "sending"
      BY <1>0, <1>2 DEF Inserted
    <3>. QED
      BY <3>1, NotPaidYet DEF BLOCKING_STATUSES
  <2>4. Ledger!OpenAttempt(a)
    BY <2>2, <2>3 DEF Ledger!OpenAttempt, Book
  <2>. QED
    BY <2>4 DEF Ledger!LedgerNext
<1>3. ASSUME NEW a \in Attempts, NEW new \in KNOWN_STATUSES, NEW r \in BOOLEAN,
             Updated(a, new, r), row'[a] # row[a]
      PROVE  [Ledger!LedgerNext]_Book
  <2>1. PICK s : s = StoredStatus(row[a], new, r)
    OBVIOUS
  <2>2. row' = [row EXCEPT ![a] = s] /\ row'[a] = s
    BY <1>0, <1>3, <2>1 DEF Updated, Written
  <2>3. s = new /\ s \in RowStatuses /\ s # "absent"
    BY <1>3, <2>1, <2>2, StoredFacts DEF RowStatuses, KNOWN_STATUSES, ACTIVE_STATUSES,
       TERMINAL_STATUSES
  <2>4. Book' = [Book EXCEPT ![a] = BookOf(s)] /\ Book[a] = BookOf(row[a])
    BY <1>0, <2>2, OneEntry DEF Book
  <2>5. row[a] \in RowStatuses /\ row[a] # "absent"
    BY <1>0, <1>3 DEF Updated
  <2>6. row[a] \in TERMINAL_STATUSES => row[a] = "failed" /\ s = "success"
    BY <1>3, <2>2, TerminalKept
  <2>7. CASE s = "success"
    <3>1. Book[a] \in {"open", "failed"}
      BY <2>4, <2>5, <2>6, BookFacts DEF TERMINAL_STATUSES
    <3>2. ~Ledger!BillPaid(a)
      BY <1>3, <2>2, <2>7, NotPaidYet DEF BLOCKING_STATUSES
    <3>3. Book' = [Book EXCEPT ![a] = "paid"]
      BY <2>3, <2>4, <2>7, BookFacts
    <3>4. Ledger!Pay(a)
      BY <3>1, <3>2, <3>3 DEF Ledger!Pay, Book
    <3>. QED
      BY <3>4 DEF Ledger!LedgerNext
  <2>8. CASE s \in {"cancelled", "failed"}
    <3>1. Book[a] = "open"
      BY <2>4, <2>5, <2>6, <2>8, BookFacts
    <3>2. Book' = [Book EXCEPT ![a] = s]
      BY <2>3, <2>4, <2>8, BookFacts
    <3>3. Ledger!GiveUp(a)
      BY <3>1, <3>2, <2>8 DEF Ledger!GiveUp, Book
    <3>. QED
      BY <3>3 DEF Ledger!LedgerNext
  <2>9. CASE s \notin TERMINAL_STATUSES
    <3>1. BookOf(s) = "open" /\ BookOf(row[a]) = "open"
      BY <2>3, <2>5, <2>6, <2>9, BookFacts DEF TERMINAL_STATUSES
    <3>. QED
      BY <3>1, <2>4 DEF Book
  <2>. QED
    BY <2>7, <2>8, <2>9 DEF TERMINAL_STATUSES
<1>4. ASSUME NEW a \in Attempts, NEW new \in KNOWN_STATUSES, NEW r \in BOOLEAN,
             Updated(a, new, r), row'[a] = row[a]
      PROVE  row' = row
  BY <1>0, <1>4 DEF Updated, Written
<1>. QED
  BY <1>1, <1>2, <1>3, <1>4 DEF RowsMove

----------------------------------------------------------------------------
\* The theorems.

\* Every reachable state satisfies the inductive invariant.
THEOREM InvariantHolds == Spec => []IInv
BY InitInv, StepInv, PTL DEF Spec

\* Every variable keeps its type, for every set of attempts, bills and threads.
THEOREM TypeCorrect == Spec => []TypeOK
<1>1. IInv => TypeOK
  BY DEF IInv
<1>. QED
  BY InvariantHolds, <1>1, PTL

\* A row is a success only when the device said so, its dynamicQR is paid
\* or an admin completed it (reconcile_from_tiger_payment, _confirm_qr_if_paid).
THEOREM SuccessIsAlwaysPaid == Spec => []SuccessIsPaid
<1>1. IInv => SuccessIsPaid
  BY DEF IInv, PaidInv
<1>. QED
  BY InvariantHolds, <1>1, PTL

\* A row is cancelled only when the device said so (cancel_payment_attempt).
THEOREM CancelledIsByDevice == Spec => []CancelledByDevice
<1>1. IInv => CancelledByDevice
  BY DEF IInv, PaidInv
<1>. QED
  BY InvariantHolds, <1>1, PTL

\* A Tiger id on a row is the id of a transaction the device opened.
THEOREM IdAlwaysMeansTransaction == Spec => []IdMeansTransaction
<1>1. IInv => IdMeansTransaction
  BY DEF IInv, DeviceInv, IdMeansTransaction
<1>. QED
  BY InvariantHolds, <1>1, PTL

\* At most one blocking row per bill, whatever threads write
\* (payment_attempt_one_blocking_per_bill_idx and every UPDATE under it).
THEOREM OneRowBlocks == Spec => []OneBlockingPerBill
<1>1. Init => OneBlockingPerBill
  BY DEF Init, OneBlockingPerBill, BLOCKING_STATUSES
<1>2. IInv /\ OneBlockingPerBill /\ [Next]_vars => OneBlockingPerBill'
  BY RowSteps, IndexKept
<1>. QED
  BY InvariantHolds, <1>1, <1>2, PTL DEF Spec

\* A settled row stays as it is, but for the recovery of a paid QR
\* (the CASE of update_payment_attempt).
THEOREM SettledRowsStay == Spec => SettledStays
<1>1. IInv /\ [Next]_vars
        => [\A a \in Attempts :
              row[a] \in TERMINAL_STATUSES /\ row'[a] # row[a]
                 => row[a] = "failed" /\ row'[a] = "success" /\ qr[a] # {}]_vars
  BY RowSteps, TerminalKept
<1>. QED
  BY InvariantHolds, <1>1, PTL DEF Spec, SettledStays

\* The detailed protocol implements the ledger: every step of every thread is
\* a legal entry of it or a stutter.
THEOREM ImplementsLedger == Spec => LedgerKept
<1>1. Init => Ledger!LedgerInit
  BY DEF Init, BookOf, Ledger!LedgerInit
<1>2. IInv /\ OneBlockingPerBill' /\ [Next]_vars => [Ledger!LedgerNext]_Book
  BY RowSteps, LedgerStep
<1>. QED
  BY InvariantHolds, OneRowBlocks, <1>1, <1>2, PTL DEF Spec, LedgerKept, Ledger!LedgerSpec, Book
----------------------------------------------------------------------------
\* The amounts.  A success that a thread is about to write is of a compatible
\* amount, and the answer a send stores is the pending of a new transaction.

AmountOK(j) ==
    /\ j.pc = "apply" /\ j.to = "success" => j.a \notin Mismatched
    /\ j.pc = "store" => j.obs = "pending"

AmountInv ==
    /\ \A a \in Attempts : qr[a] # {} => a \in QrAttempts
    /\ \A p \in Threads : AmountOK(job[p])
    /\ MismatchNotCollected

\* Only the thread p moves, and what it carries then is still compatible.
Turn(p) == /\ \A q \in Threads \ {p} : job'[q] = job[q]
           /\ AmountOK(job'[p])

OtherPcs == (WritingPcs \ {"store", "apply"}) \union {"read_success", "read_active", "insert"}

LEMMA GotoTurn ==
    ASSUME IInv, NEW p \in Threads, NEW pc \in OtherPcs, Goto(p, pc)
    PROVE  Turn(p)
<1>1. job \in [Threads -> JobType]
  BY DEF IInv, TypeOK
<1>2. PICK j : j = [job[p] EXCEPT !.pc = pc]
  OBVIOUS
<1>3. j.pc = pc
  BY <1>1, <1>2 DEF JobType
<1>4. job' = [job EXCEPT ![p] = j]
  BY <1>1, <1>2 DEF Goto
<1>5. AmountOK(j)
  BY <1>3 DEF AmountOK, OtherPcs
<1>. QED
  BY <1>1, <1>4, <1>5 DEF Turn

LEMMA FinishTurn ==
    ASSUME IInv, NEW p \in Threads, Finish(p)
    PROVE  Turn(p)
BY DEF IInv, TypeOK, Finish, Turn, AmountOK, NoJob

\* A thread takes up a record whose place is none of the two.
LEMMA TakesTurn ==
    ASSUME IInv, NEW p \in Threads, NEW j, j.pc \in OtherPcs, job' = [job EXCEPT ![p] = j]
    PROVE  Turn(p)
BY DEF IInv, TypeOK, Turn, AmountOK, OtherPcs

LEMMA ReconciledTurn ==
    ASSUME IInv, NEW p \in Threads, Reconciled(p) \/ Raised(p)
    PROVE  Turn(p)
<1>1. {"manual_paid", "manual_local"} \subseteq OtherPcs
  BY DEF OtherPcs, WritingPcs, ForcePcs
<1>. QED
  BY <1>1, GotoTurn, FinishTurn DEF Reconciled, Raised

LEMMA WorkerTurn ==
    ASSUME IInv, AmountInv, NEW w \in Workers, WorkerStep(w)
    PROVE  Turn(w)
<1>0. w \in Threads /\ job \in [Threads -> JobType]
  BY DEF Threads, IInv, TypeOK
<1>1. {"read_success", "read_active", "insert", "create", "store_failed", "mark", "device",
       "confirm_mark", "get", "manual_local", "manual_cleared", "confirm", "clear",
       "reconcile"} \subseteq OtherPcs
  BY DEF OtherPcs, WritingPcs, ForcePcs
<1>2. ASSUME NEW op, NEW pc \in OtherPcs, NEW a, Start(w, op, pc, a)
      PROVE  Turn(w)
  <2>1. PICK j : j = [NoJob EXCEPT !.op = op, !.pc = pc, !.a = a]
    OBVIOUS
  <2>2. j.pc = pc
    BY <2>1 DEF NoJob
  <2>. QED
    BY <1>0, <1>2, <2>1, <2>2, TakesTurn DEF Start
<1>3. ASSUME NEW a \in Attempts, SendStart(w, a) \/ CancelRead(w, a) \/ ForceRead(w, a)
      PROVE  Turn(w)
  BY <1>1, <1>2, <1>3 DEF SendStart, CancelRead, ForceRead
<1>4. ASSUME NEW a \in Attempts, NEW raw \in RawStatuses, HookReceive(w, a, raw)
      PROVE  Turn(w)
  <2>1. PICK j : j = [NoJob EXCEPT !.op = "hook", !.pc = "reconcile", !.a = a, !.obs = raw]
    OBVIOUS
  <2>2. j.pc = "reconcile"
    BY <2>1 DEF NoJob
  <2>. QED
    BY <1>0, <1>1, <1>4, <2>1, <2>2, TakesTurn DEF HookReceive
<1>5. CASE SendPeek(w)
  <2>1. PICK answer : job' = [job EXCEPT ![w].obs = answer]
    BY <1>5 DEF SendPeek
  <2>2. PICK j : j = [job[w] EXCEPT !.obs = answer]
    OBVIOUS
  <2>3. j.pc = job[w].pc /\ job' = [job EXCEPT ![w] = j]
    BY <1>0, <2>1, <2>2 DEF JobType
  <2>4. j.pc \in OtherPcs
    BY <1>1, <1>5, <2>3 DEF SendPeek, SendReading
  <2>. QED
    BY <1>0, <2>3, <2>4, TakesTurn
<1>6. CASE SendCreateAnswered(w)
  <2>1. PICK j : j = [job[w] EXCEPT !.pc = "store", !.obs = "pending"]
    OBVIOUS
  <2>2. j.pc = "store" /\ j.obs = "pending" /\ job' = [job EXCEPT ![w] = j]
    BY <1>0, <1>6, <2>1 DEF JobType, SendCreateAnswered
  <2>3. AmountOK(j)
    BY <2>2 DEF AmountOK
  <2>. QED
    BY <1>0, <2>2, <2>3 DEF Turn
<1>7. CASE ForceGet(w)
  <2>1. ASSUME NEW o, NEW s,
               job' = [job EXCEPT ![w].pc = "confirm", ![w].obs = o, ![w].paid = s]
        PROVE  Turn(w)
    <3>1. PICK j : j = [job[w] EXCEPT !.pc = "confirm", !.obs = o, !.paid = s]
      OBVIOUS
    <3>2. j.pc = "confirm" /\ job' = [job EXCEPT ![w] = j]
      BY <1>0, <2>1, <3>1 DEF JobType
    <3>. QED
      BY <1>0, <1>1, <3>2, TakesTurn
  <2>. QED
    BY <1>0, <1>1, <1>7, <2>1, GotoTurn DEF ForceGet
<1>8. CASE \/ SendReadSuccess(w) \/ SendReadActive(w) \/ SendRefused(w) \/ SendInsert(w)
           \/ SendCreateUnconfirmed(w) \/ SendCreateRejected(w)
           \/ SendStore(w) \/ SendStoreFailed(w)
  BY <1>0, <1>1, <1>8, GotoTurn, FinishTurn
  DEF SendReadSuccess, SendReadActive, SendRefused, SendInsert, SendCreateUnconfirmed,
      SendCreateRejected, SendStore, SendStoreFailed
<1>9. CASE \/ CancelMark(w) \/ CancelDevice(w) \/ CancelConfirm(w)
           \/ ForceWrite(w) \/ ForceClear(w)
  BY <1>0, <1>1, <1>9, GotoTurn, FinishTurn
  DEF CancelMark, CancelDevice, CancelConfirm, WriteCancelling, ForceWrite, ForceClear
<1>. QED
  BY <1>3, <1>4, <1>5, <1>6, <1>7, <1>8, <1>9 DEF WorkerStep

LEMMA SharedTurn ==
    ASSUME IInv, NEW p \in Threads, SharedStep(p)
    PROVE  Turn(p)
<1>0. job \in [Threads -> JobType]
  BY DEF IInv, TypeOK
<1>1. {"reconcile", "refresh", "race"} \subseteq OtherPcs
  BY DEF OtherPcs, WritingPcs
<1>2. CASE ReconcileRead(p)
  <2>. DEFINE incoming == IncomingStatus(job[p].obs, job[p].paid)
              recover == row[job[p].a] = "failed" /\ incoming = "success" /\ job[p].paid
  <2>1. CASE /\ job' = [job EXCEPT ![p].pc = "apply", ![p].to = incoming, ![p].rec = recover]
             /\ ~(incoming = "success" /\ ~tiger_amount_compatible(job[p].a))
    <3>1. PICK t : t = incoming
      OBVIOUS
    <3>2. PICK r : r = recover
      OBVIOUS
    <3>3. PICK j : j = [job[p] EXCEPT !.pc = "apply", !.to = t, !.rec = r]
      OBVIOUS
    <3>4. /\ j.pc = "apply" /\ j.to = t /\ j.a = job[p].a
      BY <1>0, <3>3 DEF JobType
    <3>5. job' = [job EXCEPT ![p] = j]
      BY <1>0, <2>1, <3>1, <3>2, <3>3
    <3>6. AmountOK(j)
      BY <2>1, <3>1, <3>4 DEF AmountOK, tiger_amount_compatible
    <3>. QED
      BY <1>0, <3>5, <3>6 DEF Turn
  <2>2. CASE Reconciled(p) \/ Raised(p)
    BY <2>2, ReconciledTurn
  <2>. QED
    BY <1>2, <2>1, <2>2 DEF ReconcileRead
<1>3. CASE ReconcileWrite(p) \/ ConfirmRaceWrite(p)
  BY <1>1, <1>3, ReconciledTurn, GotoTurn DEF ReconcileWrite, ConfirmRaceWrite
<1>4. ASSUME NEW o, job' = [job EXCEPT ![p].pc = "reconcile", ![p].obs = o]
      PROVE  Turn(p)
  <2>1. PICK j : j = [job[p] EXCEPT !.pc = "reconcile", !.obs = o]
    OBVIOUS
  <2>2. j.pc = "reconcile" /\ job' = [job EXCEPT ![p] = j]
    BY <1>0, <1>4, <2>1 DEF JobType
  <2>. QED
    BY <1>1, <2>2, TakesTurn
<1>6. ASSUME NEW o, NEW paid,
             job' = [job EXCEPT ![p].pc = "race", ![p].obs = o, ![p].paid = paid]
      PROVE  Turn(p)
  <2>1. PICK j : j = [job[p] EXCEPT !.pc = "race", !.obs = o, !.paid = paid]
    OBVIOUS
  <2>2. j.pc = "race" /\ job' = [job EXCEPT ![p] = j]
    BY <1>0, <1>6, <2>1 DEF JobType
  <2>. QED
    BY <1>1, <2>2, TakesTurn
<1>5. CASE ConfirmAnswered(p) \/ ConfirmFailed(p) \/ ConfirmRefresh(p)
  BY <1>1, <1>4, <1>5, <1>6, GotoTurn DEF ConfirmAnswered, ConfirmFailed, ConfirmRefresh
<1>. QED
  BY <1>2, <1>3, <1>5 DEF SharedStep

LEMMA PollerTurn ==
    ASSUME IInv, PollerStep
    PROVE  Turn(Poller) \/ job' = job
<1>0. job \in [Threads -> JobType] /\ Poller \in Threads
  BY DEF IInv, TypeOK, Threads
<1>1. {"reconcile", "confirm", "expire"} \subseteq OtherPcs
  BY DEF OtherPcs, WritingPcs
<1>2. ASSUME NEW a \in Attempts, PollGet(a)
      PROVE  Turn(Poller)
  <2>1. PICK pc \in {"reconcile", "confirm"} :
          pc = IF should_confirm_qr_payment(dev[a], qr[a]) THEN "confirm" ELSE "reconcile"
    OBVIOUS
  <2>2. PICK j : j = [NoJob EXCEPT !.op = "poll", !.a = a, !.obs = dev[a],
                                   !.paid = paid_qr_settled(qr[a]), !.pc = pc]
    OBVIOUS
  <2>3. j.pc = pc
    BY <2>2 DEF NoJob
  <2>4. job' = [job EXCEPT ![Poller] = j]
    BY <1>2, <2>1, <2>2 DEF PollGet
  <2>. QED
    BY <1>0, <1>1, <2>3, <2>4, TakesTurn
<1>3. ASSUME NEW a \in Attempts, SweepFound(a)
      PROVE  Turn(Poller)
  <2>1. PICK j : j = [NoJob EXCEPT !.op = "sweep", !.pc = "reconcile", !.a = a,
                                   !.obs = dev[a], !.paid = paid_qr_settled(qr[a])]
    OBVIOUS
  <2>2. j.pc = "reconcile" /\ job' = [job EXCEPT ![Poller] = j]
    BY <1>3, <2>1 DEF NoJob, SweepFound
  <2>. QED
    BY <1>0, <1>1, <2>2, TakesTurn
<1>4. ASSUME NEW a \in Attempts, SweepMissed(a)
      PROVE  Turn(Poller) \/ job' = job
  <2>1. PICK j : j = [NoJob EXCEPT !.op = "sweep", !.pc = "expire", !.a = a]
    OBVIOUS
  <2>2. j.pc = "expire"
    BY <2>1 DEF NoJob
  <2>. QED
    BY <1>0, <1>1, <1>4, <2>1, <2>2, TakesTurn DEF SweepMissed, Start
<1>. QED
  BY <1>0, <1>2, <1>3, <1>4, FinishTurn
  DEF PollerStep, PollList, SweepList, SweepExpire, SweepEnd, PollGetFailed

LEMMA WorldTurn ==
    ASSUME IInv, World
    PROVE  (\E p \in Threads : Turn(p)) \/ job' = job
BY FinishTurn DEF World, Tick, DeviceMoves, DeviceSettles, QrPaid, QuietElapsed, Crash

\* Who writes a success: an admin, or a thread with an amount it compared, or
\* the confirm race of a QR that shows a payment.
Collected(a) == row'[a] = "success" /\ row[a] # "success"
    => a \in forced' \/ qr[a] # {} \/ a \notin Mismatched

LEMMA Collects ==
    ASSUME IInv, AmountInv, [Next]_vars
    PROVE  \A a \in Attempts : Collected(a)
<1>1. CASE UNCHANGED row
  BY <1>1 DEF Collected
<1>2. ASSUME NEW b \in Attempts, NEW new \in KNOWN_STATUSES, NEW r \in BOOLEAN,
             row' = Written(b, new, r),
             new = "success" => b \in forced' \/ qr[b] # {} \/ b \notin Mismatched
      PROVE  \A a \in Attempts : Collected(a)
  <2>1. /\ \A a \in Attempts \ {b} : row'[a] = row[a]
        /\ row'[b] \in {row[b], new}
    BY <1>2, WrittenFacts DEF IInv
  <2>. QED
    BY <1>2, <2>1 DEF Collected
<1>3. ASSUME NEW w \in Workers, WorkerStep(w)
      PROVE  \A a \in Attempts : Collected(a)
  <2>0. w \in Threads /\ row \in [Attempts -> RowStatuses]
    BY DEF Threads, IInv, TypeOK
  <2>1. CASE SendInsert(w)
    BY <2>0, <2>1 DEF SendInsert, Collected
  <2>2. CASE SendStore(w)
    <3>1. job[w].obs = "pending" /\ job[w].a \in Attempts
      BY <2>0, <2>2, WriterFacts DEF SendStore, At, AmountInv, AmountOK, WritingPcs
    <3>2. normalize_status("pending") = "pending" /\ "pending" \in KNOWN_STATUSES
      BY DEF normalize_status, KNOWN_STATUSES, ACTIVE_STATUSES
    <3>. QED
      BY <1>1, <1>2, <2>2, <3>1, <3>2 DEF SendStore
  <2>3. CASE SendStoreFailed(w) \/ CancelMark(w) \/ CancelConfirm(w)
    <3>1. job[w].a \in Attempts
      BY <2>0, <2>3, WriterFacts DEF SendStoreFailed, CancelMark, CancelConfirm, At, WritingPcs
    <3>. QED
      BY <1>1, <1>2, <2>3, <3>1, KnownFacts
      DEF SendStoreFailed, CancelMark, CancelConfirm, WriteCancelling
  <2>4. CASE ForceWrite(w)
    <3>1. job[w].a \in Attempts
      BY <2>0, <2>4, WriterFacts DEF ForceWrite, WritingPcs
    <3>. QED
      BY <1>1, <1>2, <2>4, <3>1, KnownFacts DEF ForceWrite
  <2>5. CASE ~(SendInsert(w) \/ SendStore(w) \/ SendStoreFailed(w) \/ CancelMark(w)
             \/ CancelConfirm(w) \/ ForceWrite(w))
    BY <1>1, <1>3, <2>5 DEF WorkerStep, dbVars, SendStart, CancelRead, ForceRead, HookReceive,
       SendPeek, SendReadSuccess, SendReadActive, SendRefused, SendCreateAnswered,
       SendCreateUnconfirmed, SendCreateRejected, CancelDevice, ForceGet, ForceClear
  <2>. QED
    BY <2>1, <2>2, <2>3, <2>4, <2>5
<1>4. ASSUME NEW p \in Threads, SharedStep(p)
      PROVE  \A a \in Attempts : Collected(a)
  <2>1. CASE ReconcileWrite(p)
    <3>1. /\ job[p].a \in Attempts /\ job[p].to \in KNOWN_STATUSES /\ job[p].rec \in BOOLEAN
          /\ job[p].to = "success" => job[p].a \notin Mismatched
      BY <2>1, WriterFacts DEF ReconcileWrite, WritingPcs, JobOK, AmountInv, AmountOK
    <3>. QED
      BY <1>1, <1>2, <2>1, <3>1 DEF ReconcileWrite
  <2>2. CASE ConfirmRaceWrite(p)
    <3>1. job[p].a \in Attempts /\ qr[job[p].a] # {}
      BY <2>2, WriterFacts DEF ConfirmRaceWrite, WritingPcs, JobOK
    <3>. QED
      BY <1>1, <1>2, <2>2, <3>1, KnownFacts DEF ConfirmRaceWrite
  <2>. QED
    BY <1>1, <1>4, <2>1, <2>2
    DEF SharedStep, dbVars, ReconcileRead, ConfirmAnswered, ConfirmFailed, ConfirmRefresh
<1>5. CASE PollerStep
  <2>1. CASE SweepExpire
    <3>1. job[Poller].a \in Attempts
      BY <2>1, WriterFacts DEF SweepExpire, At, WritingPcs, Threads
    <3>. QED
      BY <1>2, <2>1, <3>1, KnownFacts DEF SweepExpire
  <2>. QED
    BY <1>1, <1>5, <2>1 DEF dbVars, PollerStep, PollList, SweepList, SweepEnd, PollGet,
       PollGetFailed, SweepFound, SweepMissed
<1>6. CASE World
  BY <1>1, <1>6 DEF dbVars, World, Tick, DeviceMoves, DeviceSettles, QrPaid, QuietElapsed, Crash
<1>. QED
  BY <1>1, <1>3, <1>4, <1>5, <1>6 DEF Next, vars, dbVars

LEMMA PaidQrs ==
    ASSUME IInv, AmountInv, [Next]_vars
    PROVE  /\ forced \subseteq forced'
           /\ \A a \in Attempts : qr[a] \subseteq qr'[a] /\ (qr'[a] # {} => a \in QrAttempts)
<1>0. forced \subseteq forced' /\ (qr' = qr \/ \E a \in Attempts : QrPaid(a))
  <2>1. ASSUME NEW w \in Workers, WorkerStep(w)
        PROVE  forced \subseteq forced' /\ qr' = qr
    <3>1. ASSUME NEW a \in Attempts, SendStart(w, a) \/ CancelRead(w, a) \/ ForceRead(w, a)
          PROVE  forced' = forced /\ qr' = qr
      BY <3>1 DEF SendStart, CancelRead, ForceRead, devVars
    <3>2. ASSUME NEW a \in Attempts, NEW raw \in RawStatuses, HookReceive(w, a, raw)
          PROVE  forced' = forced /\ qr' = qr
      BY <3>2 DEF HookReceive, devVars
    <3>3. CASE \/ SendPeek(w) \/ SendReadSuccess(w) \/ SendReadActive(w) \/ SendRefused(w)
               \/ SendInsert(w) \/ SendStore(w) \/ SendStoreFailed(w)
               \/ CancelMark(w) \/ CancelConfirm(w) \/ ForceGet(w)
      BY <3>3 DEF SendPeek, SendReadSuccess, SendReadActive, SendRefused, SendInsert, SendStore,
         SendStoreFailed, CancelMark, CancelConfirm, ForceGet, devVars
    <3>4. CASE SendCreateAnswered(w) \/ SendCreateUnconfirmed(w) \/ SendCreateRejected(w)
      BY <3>4 DEF SendCreateAnswered, SendCreateUnconfirmed, SendCreateRejected, Opened, devVars
    <3>5. CASE CancelDevice(w) \/ ForceClear(w)
      BY <3>5 DEF CancelDevice, ForceClear, Reports, DeviceConfirms, DeviceDisagrees, devVars
    <3>6. CASE ForceWrite(w)
      BY <3>6 DEF ForceWrite, devVars
    <3>. QED
      BY <2>1, <3>1, <3>2, <3>3, <3>4, <3>5, <3>6 DEF WorkerStep
  <2>2. ASSUME NEW p \in Threads, SharedStep(p)
        PROVE  forced \subseteq forced' /\ qr' = qr
    <3>1. CASE ConfirmAnswered(p) \/ ConfirmFailed(p)
      BY <3>1 DEF ConfirmAnswered, ConfirmFailed, Reports, DeviceConfirms, DeviceDisagrees, devVars
    <3>2. CASE ~(ConfirmAnswered(p) \/ ConfirmFailed(p))
      BY <2>2, <3>2
      DEF SharedStep, ReconcileRead, ReconcileWrite, ConfirmRefresh, ConfirmRaceWrite, devVars
    <3>. QED
      BY <3>1, <3>2
  <2>3. CASE PollerStep
    BY <2>3 DEF PollerStep, PollList, SweepList, SweepExpire, SweepEnd, PollGet, PollGetFailed,
       SweepFound, SweepMissed, devVars
  <2>4. CASE World
    BY <2>4 DEF World, Tick, DeviceMoves, DeviceSettles, QrPaid, QuietElapsed, Crash, Reports, devVars
  <2>. QED
    BY <2>1, <2>2, <2>3, <2>4 DEF Next, vars
<1>1. forced \subseteq forced'
  BY <1>0
<1>2. qr' = qr \/ \E a \in Attempts, fact \in QrFacts :
                      a \in QrAttempts /\ qr' = [qr EXCEPT ![a] = @ \union {fact}]
  BY <1>0 DEF QrPaid
<1>. QED
  BY <1>1, <1>2 DEF AmountInv, IInv, TypeOK

LEMMA AmountStep == IInv /\ AmountInv /\ [Next]_vars => AmountInv'
<1>. SUFFICES ASSUME IInv, AmountInv, [Next]_vars PROVE AmountInv'
  OBVIOUS
<1>1. (\E p \in Threads : Turn(p)) \/ job' = job
  <2>1. Workers \subseteq Threads /\ Poller \in Threads
    BY DEF Threads
  <2>. QED
    BY <2>1, WorkerTurn, SharedTurn, PollerTurn, WorldTurn DEF Next, vars
<1>2. \A p \in Threads : AmountOK(job'[p])
  BY <1>1 DEF Turn, AmountInv
<1>3. MismatchNotCollected'
  BY Collects, PaidQrs DEF MismatchNotCollected, AmountInv, Collected, IInv, TypeOK
<1>. QED
  BY <1>2, <1>3, PaidQrs DEF AmountInv

\* A payment of another amount than the bill's becomes a success only when an
\* admin says so, or through the confirm race of a QR that shows a payment, the
\* one write without the comparison of reconcile_from_tiger_payment.
THEOREM MismatchesWait == Spec => []MismatchNotCollected
<1>1. Init => AmountInv
  BY DEF Init, AmountInv, AmountOK, NoJob, MismatchNotCollected
<1>2. AmountInv => MismatchNotCollected
  BY DEF AmountInv
<1>. QED
  BY InvariantHolds, <1>1, <1>2, AmountStep, PTL DEF Spec
=============================================================================
