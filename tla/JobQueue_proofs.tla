-------------------------- MODULE JobQueue_proofs --------------------------
(***************************************************************************)
(* What holds of JobQueue for every pair of candidate lists, however many  *)
(* jobs are asked for, calls raise and workers die.                        *)
(***************************************************************************)
EXTENDS JobQueue, TLAPS

USE QueueAssumption

----------------------------------------------------------------------------
\* The inductive invariant.

\* Where a worker has a job in hand.
Busy == {"begin", "run", "succeed", "succeeded", "fail", "failed"}

RowType == [status : {"none", "pending", "running", "done", "failed"},
            to : Workers \cup {NoWorker}]
PlaceType == [pc : Points, job : Jobs \cup {NoJob}]

\* No two workers have one job in hand.
OneWorker ==
  \A w \in Workers : loop[w].pc \in Busy =>
    /\ loop[w].job \in Jobs
    /\ \A v \in Workers \ {w} : loop[v].pc \in Busy => loop[v].job # loop[w].job

\* What the row and the command of a job have come to, at each point of the loop.
InHand(w) ==
  LET j == loop[w].job IN
  /\ loop[w].pc \in {"begin", "run"} => queue[j].status = "running" /\ outcome[j] = <<>>
  /\ loop[w].pc = "succeed" => queue[j].status = "running" /\ outcome[j] = <<"ok">>
  /\ loop[w].pc = "succeeded" => queue[j].status = "done" /\ outcome[j] = <<"ok">>
  /\ loop[w].pc = "fail" =>
       /\ queue[j].status \in {"running", "done"} /\ outcome[j] \in {<<"ok">>, <<"bad">>}
  /\ loop[w].pc = "failed" => queue[j].status = "failed"

\* A command runs once its job is claimed, and at most once.
RunsOnce ==
  \A j \in Jobs :
    /\ outcome[j] \in {<<>>, <<"ok">>, <<"bad">>}
    /\ queue[j].status \in {"none", "pending"} => outcome[j] = <<>>

Held == \A w \in Workers : InHand(w)

IInv == TypeOK /\ OneWorker /\ Held /\ RunsOnce /\ DoneWasRun

----------------------------------------------------------------------------
\* The choice of a worker.

LEMMA PickTyped ==
  ASSUME NEW candidates \in Seq(Workers), NEW allowed
  PROVE  _pick_worker(candidates, allowed) \subseteq Workers
BY DEF _pick_worker

LEMMA TargetTyped ==
  ASSUME NEW S, NEW ws, ws \subseteq S
  PROVE  Target(ws) \in Seq(S)
BY DEF Target

LEMMA AskTyped ==
  ASSUME NEW allowed, NEW hq, NEW syp, Ask(allowed, hq, syp)
  PROVE  ask' \in Seq(Workers \cup {NoWorker})
<1> DEFINE one == IF hq THEN _pick_worker(HQ_WORKER_CANDIDATES, allowed) ELSE {}
           two == IF syp THEN _append_syp_target(allowed) ELSE {}
<1>1. SYP_WORKER_CANDIDATES[1] \in Workers
  OBVIOUS
<1>2. _append_syp_target(allowed) \subseteq Workers
  BY <1>1, PickTyped DEF _append_syp_target
<1> DEFINE S == Workers \cup {NoWorker}
<1>3. one \subseteq S /\ two \subseteq S
  BY <1>2, PickTyped
<1>4. Target(one) \in Seq(S) /\ Target(two) \in Seq(S)
  BY <1>3, TargetTyped
<1>5. ask' = Target(one) \o Target(two)
  BY DEF Ask
<1>6. Target(one) \o Target(two) \in Seq(S)
  <2> HIDE DEF S, one, two
  <2> QED
    BY <1>4
<1> QED
  BY <1>5, <1>6

----------------------------------------------------------------------------
\* The invariant.

LEMMA InitInv == Init => IInv
BY DEF Init, IInv, TypeOK, OneWorker, Held, InHand, RunsOnce, DoneWasRun, NoRow, NoJob, Points,
       Busy, Jobs

LEMMA AskInv ==
  ASSUME IInv, NEW allowed, NEW hq, NEW syp, Ask(allowed, hq, syp)
  PROVE  IInv'
<1>1. TypeOK'
  BY AskTyped DEF Ask, IInv, TypeOK
<1>2. (OneWorker /\ Held /\ RunsOnce /\ DoneWasRun)'
  BY DEF Ask, IInv, OneWorker, Held, InHand, RunsOnce, DoneWasRun
<1> QED
  BY <1>1, <1>2 DEF IInv

LEMMA AskRelatedInv ==
  ASSUME IInv, NEW allowed, AskRelated(allowed)
  PROVE  IInv'
<1> DEFINE hq == _pick_worker(HQ_WORKER_CANDIDATES, allowed)
           ws == IF hq = {} THEN {NoWorker} ELSE hq
<1>1. ask' = Target(ws) /\ ws \subseteq Workers \cup {NoWorker}
  BY PickTyped DEF AskRelated
<1>2. ask' \in Seq(Workers \cup {NoWorker})
  BY <1>1, TargetTyped
<1>3. TypeOK'
  BY <1>2 DEF AskRelated, IInv, TypeOK
<1>4. (OneWorker /\ Held /\ RunsOnce /\ DoneWasRun)'
  BY DEF AskRelated, IInv, OneWorker, Held, InHand, RunsOnce, DoneWasRun
<1> QED
  BY <1>3, <1>4 DEF IInv

LEMMA EnqueueInv ==
  ASSUME IInv, NEW j \in Jobs, enqueue_job(j)
  PROVE  IInv'
<1>1. Head(ask) \in Workers \cup {NoWorker} /\ Tail(ask) \in Seq(Workers \cup {NoWorker})
  BY DEF enqueue_job, IInv, TypeOK
<1>2. queue[j].status = "none"
  BY DEF enqueue_job, Rows
<1>3. \A w \in Workers : loop[w].pc \in Busy \ {"failed"} => loop[w].job # j
  BY <1>2 DEF IInv, Held, InHand, Busy
<1>4. \A w \in Workers : loop[w].pc = "failed" => loop[w].job # j
  BY <1>2 DEF IInv, Held, InHand
<1> QED
  BY <1>1, <1>2, <1>3, <1>4
     DEF enqueue_job, IInv, TypeOK, OneWorker, Held, InHand, RunsOnce, DoneWasRun, Busy, Points

LEMMA EnqueueFailsInv ==
  ASSUME IInv, EnqueueFails
  PROVE  IInv'
BY DEF EnqueueFails, Raises, IInv, TypeOK, OneWorker, Held, InHand, RunsOnce, DoneWasRun

LEMMA OfflineInv ==
  ASSUME IInv, NEW w \in Workers, Offline(w)
  PROVE  IInv'
BY DEF Offline, IInv, TypeOK, OneWorker, Held, InHand, RunsOnce, DoneWasRun

\* A step of one worker on one job that no other has in hand.
LEMMA OneStep ==
  ASSUME IInv, NEW w \in Workers, NEW j \in Jobs,
         \A v \in Workers \ {w} : loop'[v] = loop[v] /\ (loop[v].pc \in Busy => loop[v].job # j),
         \A i \in Jobs \ {j} : queue'[i] = queue[i] /\ outcome'[i] = outcome[i],
         loop'[w].pc \in Busy => loop'[w].job = j /\ InHand(w)'
  PROVE  OneWorker' /\ Held'
<1>1. OneWorker'
  BY DEF IInv, OneWorker
<1>2. ASSUME NEW v \in Workers PROVE InHand(v)'
  <2>1. CASE v = w
    BY <2>1 DEF InHand, Busy
  <2>2. CASE v # w /\ loop[v].pc \in Busy
    <3>1. loop'[v] = loop[v] /\ loop[v].job \in Jobs \ {j}
      BY <2>2 DEF IInv, OneWorker
    <3>2. queue'[loop[v].job] = queue[loop[v].job] /\ outcome'[loop[v].job] = outcome[loop[v].job]
      BY <3>1
    <3>3. InHand(v)
      BY DEF IInv, Held
    <3> QED
      BY <3>1, <3>2, <3>3 DEF InHand
  <2>3. CASE v # w /\ loop[v].pc \notin Busy
    BY <2>3 DEF InHand, Busy
  <2> QED
    BY <2>1, <2>2, <2>3
<1> QED
  BY <1>1, <1>2 DEF Held

LEMMA MoveFacts ==
  ASSUME IInv, NEW w \in Workers, NEW pc \in Points, MoveTo(w, pc)
  PROVE  /\ loop' \in [Workers -> PlaceType]
         /\ loop'[w].pc = pc /\ loop'[w].job = loop[w].job
         /\ \A v \in Workers \ {w} : loop'[v] = loop[v]
<1> DEFINE r == [loop[w] EXCEPT !.pc = pc]
<1>1. /\ loop[w] \in PlaceType
      /\ loop \in [Workers -> PlaceType]
  BY DEF IInv, TypeOK, RowType, PlaceType
<1>2. r \in PlaceType /\ r.pc = pc /\ r.job = loop[w].job
  BY <1>1 DEF PlaceType
<1>3. loop' = [loop EXCEPT ![w] = r]
  BY DEF MoveTo
<1> QED
  BY <1>1, <1>2, <1>3

LEMMA AgainFacts ==
  ASSUME IInv, NEW w \in Workers, Again(w)
  PROVE  /\ loop' \in [Workers -> PlaceType]
         /\ loop'[w].pc \notin Busy
         /\ \A v \in Workers \ {w} : loop'[v] = loop[v]
BY DEF Again, IInv, TypeOK, PlaceType, NoJob, Busy, Points

\* A heartbeat moves a worker on, from before the run to it, or out of the job.
LEMMA BeatInv ==
  ASSUME IInv, NEW w \in Workers,
         BeatDue(w) \/ BeatRunning(w) \/ BeatAfterSuccess(w) \/ BeatAfterFailure(w)
  PROVE  IInv'
<1>1. /\ UNCHANGED <<queue, ask, outcome, crashes>>
      /\ online' \subseteq Workers /\ faults' \in 0..MaxFaults
  BY DEF BeatDue, BeatRunning, BeatAfterSuccess, BeatAfterFailure, upsert_worker_heartbeat,
         Raises, IInv, TypeOK
<1>2. \/ Again(w)
      \/ loop[w].pc = "begin" /\ MoveTo(w, "run")
      \/ loop[w].pc = "succeeded" /\ MoveTo(w, "fail")
  BY DEF BeatDue, BeatRunning, BeatAfterSuccess, BeatAfterFailure, upsert_worker_heartbeat, At
<1>3. TypeOK'
  BY <1>1, <1>2, MoveFacts, AgainFacts DEF IInv, TypeOK, RowType, PlaceType, Points
<1>4. OneWorker' /\ Held'
  <2>1. CASE Again(w)
    <3>1. /\ loop'[w].pc \notin Busy
          /\ \A v \in Workers \ {w} : loop'[v] = loop[v]
      BY <2>1, AgainFacts
    <3> QED
      BY <1>1, <3>1 DEF IInv, OneWorker, Held, InHand, Busy
  <2>2. CASE ~Again(w)
    <3> DEFINE j == loop[w].job
    <3>1. j \in Jobs /\ \A v \in Workers \ {w} : loop[v].pc \in Busy => loop[v].job # j
      BY <1>2, <2>2 DEF IInv, OneWorker, Busy
    <3>2. /\ loop'[w].job = j
          /\ \/ loop[w].pc = "begin" /\ loop'[w].pc = "run"
             \/ loop[w].pc = "succeeded" /\ loop'[w].pc = "fail"
          /\ \A v \in Workers \ {w} : loop'[v] = loop[v]
      BY <1>2, <2>2, MoveFacts DEF Points
    <3>3. InHand(w)'
      BY <1>1, <3>2 DEF IInv, Held, InHand
    <3> QED
      BY <1>1, <3>1, <3>2, <3>3, OneStep
  <2> QED
    BY <2>1, <2>2
<1> QED
  BY <1>1, <1>3, <1>4 DEF IInv, RunsOnce, DoneWasRun

LEMMA ClaimInv ==
  ASSUME IInv, NEW w \in Workers, claim_next_job(w)
  PROVE  IInv'
<1>1. PICK j \in Mine(w) :
        /\ queue' = [queue EXCEPT ![j] = [status |-> "running", to |-> w]]
        /\ \/ loop' = [loop EXCEPT ![w] = [pc |-> "begin", job |-> j]] /\ UNCHANGED faults
           \/ Again(w) /\ Raises
  BY DEF claim_next_job
<1>2. j \in Jobs /\ queue[j].status = "pending" /\ outcome[j] = <<>>
  BY DEF Mine, Rows, IInv, RunsOnce
<1>3. UNCHANGED <<ask, online, outcome, crashes>> /\ faults' \in 0..MaxFaults
  BY <1>1 DEF claim_next_job, Raises, IInv, TypeOK
<1>4. /\ loop' \in [Workers -> PlaceType]
      /\ \A v \in Workers \ {w} : loop'[v] = loop[v]
      /\ loop'[w].pc \in Busy => loop'[w].pc = "begin" /\ loop'[w].job = j
  <2>1. CASE Again(w)
    BY <2>1, AgainFacts
  <2>2. CASE loop' = [loop EXCEPT ![w] = [pc |-> "begin", job |-> j]]
    BY <1>2, <2>2 DEF IInv, TypeOK, RowType, PlaceType, Points
  <2> QED
    BY <1>1, <2>1, <2>2
<1>5. /\ queue' \in [Jobs -> RowType]
      /\ queue'[j].status = "running" /\ \A i \in Jobs \ {j} : queue'[i] = queue[i]
  BY <1>1, <1>2 DEF IInv, TypeOK, RowType, PlaceType
<1>6. TypeOK'
  BY <1>3, <1>4, <1>5 DEF IInv, TypeOK, RowType, PlaceType
<1>7. \A v \in Workers : loop[v].pc \in Busy => loop[v].job # j
  BY <1>2 DEF IInv, Held, InHand, Busy
<1>8. loop'[w].pc \in Busy => InHand(w)'
  BY <1>2, <1>3, <1>4, <1>5 DEF InHand
<1>9. OneWorker' /\ Held'
  BY <1>2, <1>3, <1>4, <1>5, <1>7, <1>8, OneStep
<1> QED
  BY <1>2, <1>3, <1>5, <1>6, <1>9 DEF IInv, RunsOnce, DoneWasRun

LEMMA RunInv ==
  ASSUME IInv, NEW w \in Workers, run_configured_command(w)
  PROVE  IInv'
<1> DEFINE j == loop[w].job
<1>1. PICK result \in {"ok", "bad"} :
        /\ outcome' = [outcome EXCEPT ![j] = Append(@, result)]
        /\ MoveTo(w, IF result = "ok" THEN "succeed" ELSE "fail")
  BY DEF run_configured_command
<1>2. loop[w].pc = "run" /\ j \in Jobs /\ queue[j].status = "running" /\ outcome[j] = <<>>
  BY DEF run_configured_command, At, IInv, OneWorker, Held, InHand, Busy
<1>3. UNCHANGED <<queue, ask, online, faults, crashes>>
  BY DEF run_configured_command
<1>4. /\ outcome' \in [Jobs -> Seq({"ok", "bad"})] /\ outcome'[j] = <<result>>
      /\ \A i \in Jobs \ {j} : outcome'[i] = outcome[i]
  BY <1>1, <1>2 DEF IInv, TypeOK, RowType, PlaceType
<1>5. /\ loop' \in [Workers -> PlaceType]
      /\ loop'[w].job = j /\ loop'[w].pc = IF result = "ok" THEN "succeed" ELSE "fail"
      /\ \A v \in Workers \ {w} : loop'[v] = loop[v]
  BY <1>1, MoveFacts DEF Points
<1>6. TypeOK'
  BY <1>3, <1>4, <1>5 DEF IInv, TypeOK, RowType, PlaceType
<1>7. \A v \in Workers \ {w} : loop[v].pc \in Busy => loop[v].job # j
  BY <1>2 DEF IInv, OneWorker, Busy
<1>8. InHand(w)'
  BY <1>2, <1>3, <1>4, <1>5 DEF InHand
<1>9. OneWorker' /\ Held'
  BY <1>2, <1>3, <1>4, <1>5, <1>7, <1>8, OneStep
<1> QED
  BY <1>2, <1>3, <1>4, <1>6, <1>9 DEF IInv, RunsOnce, DoneWasRun

LEMMA StatusFacts ==
  ASSUME IInv, NEW j \in Jobs, NEW s \in {"done", "failed"}
  PROVE  /\ Status(j, s) \in [Jobs -> RowType]
         /\ Status(j, s)[j].status = s /\ Status(j, s)[j].to = queue[j].to
         /\ \A i \in Jobs \ {j} : Status(j, s)[i] = queue[i]
<1> DEFINE r == [queue[j] EXCEPT !.status = s]
<1>1. queue \in [Jobs -> RowType] /\ queue[j] \in RowType
  BY DEF IInv, TypeOK, RowType
<1>2. r \in RowType /\ r.status = s /\ r.to = queue[j].to
  BY <1>1 DEF RowType
<1>3. Status(j, s) = [queue EXCEPT ![j] = r]
  BY DEF Status
<1> QED
  BY <1>1, <1>2, <1>3

\* Either report writes one status of the worker's job, or raises before or after it.
LEMMA FinishInv ==
  ASSUME IInv, NEW w \in Workers, finish_job_success(w) \/ finish_job_failed(w)
  PROVE  IInv'
<1> DEFINE j == loop[w].job
<1>1. j \in Jobs /\ \A v \in Workers \ {w} : loop[v].pc \in Busy => loop[v].job # j
  BY DEF finish_job_success, finish_job_failed, At, IInv, OneWorker, Busy
<1>2. UNCHANGED <<ask, online, outcome, crashes>> /\ faults' \in 0..MaxFaults
  BY DEF finish_job_success, finish_job_failed, Raises, IInv, TypeOK
<1>3. /\ outcome[j] \in {<<"ok">>, <<"bad">>} /\ queue[j].status \in {"running", "done"}
      /\ loop[w].pc = "succeed" => outcome[j] = <<"ok">>
  BY DEF finish_job_success, finish_job_failed, At, IInv, Held, InHand
<1>4. \/ loop[w].pc = "succeed" /\ queue' = Status(j, "done") /\ MoveTo(w, "succeeded")
      \/ loop[w].pc = "succeed" /\ queue' \in {queue, Status(j, "done")} /\ MoveTo(w, "fail")
      \/ queue' = Status(j, "failed") /\ MoveTo(w, "failed")
      \/ queue' \in {queue, Status(j, "failed")} /\ Again(w)
  BY DEF finish_job_success, finish_job_failed, At
<1>5. ASSUME NEW s \in {"done", "failed"}
      PROVE  /\ Status(j, s) \in [Jobs -> RowType]
             /\ Status(j, s)[j].status = s /\ Status(j, s)[j].to = queue[j].to
             /\ \A i \in Jobs \ {j} : Status(j, s)[i] = queue[i]
  BY <1>1, StatusFacts
<1>6. /\ queue' \in [Jobs -> RowType]
      /\ \A i \in Jobs \ {j} : queue'[i] = queue[i]
      /\ queue'[j].status \in {"running", "done", "failed"}
      /\ queue'[j].status = "done" => outcome[j] = <<"ok">>
  BY <1>3, <1>4, <1>5 DEF IInv, TypeOK, RowType, DoneWasRun
<1>7. /\ loop' \in [Workers -> PlaceType]
      /\ \A v \in Workers \ {w} : loop'[v] = loop[v]
      /\ loop'[w].pc \in Busy => loop'[w].job = j
  BY <1>4, MoveFacts, AgainFacts DEF Points
<1>8. loop'[w].pc \in Busy => InHand(w)'
  <2>1. CASE loop[w].pc = "succeed" /\ queue' = Status(j, "done") /\ MoveTo(w, "succeeded")
    <3>1. loop'[w].pc = "succeeded" /\ loop'[w].job = j
      BY <2>1, MoveFacts DEF Points
    <3> QED
      BY <1>2, <1>3, <1>5, <2>1, <3>1 DEF InHand
  <2>2. CASE loop[w].pc = "succeed" /\ queue' \in {queue, Status(j, "done")} /\ MoveTo(w, "fail")
    <3>1. loop'[w].pc = "fail" /\ loop'[w].job = j
      BY <2>2, MoveFacts DEF Points
    <3>2. queue'[j].status \in {"running", "done"}
      BY <1>3, <1>5, <2>2
    <3> QED
      BY <1>2, <1>3, <3>1, <3>2 DEF InHand
  <2>3. CASE queue' = Status(j, "failed") /\ MoveTo(w, "failed")
    <3>1. loop'[w].pc = "failed" /\ loop'[w].job = j
      BY <2>3, MoveFacts DEF Points
    <3> QED
      BY <1>5, <2>3, <3>1 DEF InHand
  <2>4. CASE Again(w)
    BY <2>4, AgainFacts
  <2> QED
    BY <1>4, <2>1, <2>2, <2>3, <2>4
<1>9. OneWorker' /\ Held'
  <2>1. \A v \in Workers \ {w} : loop'[v] = loop[v] /\ (loop[v].pc \in Busy => loop[v].job # j)
    BY <1>1, <1>7
  <2>2. \A i \in Jobs \ {j} : queue'[i] = queue[i] /\ outcome'[i] = outcome[i]
    BY <1>2, <1>6
  <2>3. loop'[w].pc \in Busy => loop'[w].job = j /\ InHand(w)'
    BY <1>7, <1>8
  <2> HIDE DEF j
  <2> QED
    BY <1>1, <2>1, <2>2, <2>3, OneStep
<1>10. TypeOK'
  BY <1>2, <1>6, <1>7 DEF IInv, TypeOK, RowType, PlaceType
<1>11. DoneWasRun' /\ RunsOnce'
  BY <1>1, <1>2, <1>6 DEF IInv, RunsOnce, DoneWasRun
<1> QED
  BY <1>9, <1>10, <1>11 DEF IInv

\* A death takes the worker's job out of its hands; the row stays as it is.
LEMMA CrashInv ==
  ASSUME IInv, NEW w \in Workers, Crash(w) \/ Restart(w)
  PROVE  IInv'
<1>1. loop' = [loop EXCEPT ![w] = [pc |-> "down", job |-> NoJob]]
      \/ loop' = [loop EXCEPT ![w] = [pc |-> "idle", job |-> NoJob]]
  BY DEF Crash, Restart, Again
<1>2. UNCHANGED <<queue, ask, online, outcome, faults>> /\ crashes' \in 0..MaxCrashes
  BY DEF Crash, Restart, IInv, TypeOK
<1>3. TypeOK'
  BY <1>1, <1>2 DEF IInv, TypeOK, RowType, PlaceType, Points
<1>4. \A v \in Workers : loop'[v] = loop[v] \/ loop'[v].pc \notin Busy
  BY <1>1 DEF IInv, TypeOK, Busy
<1>5. OneWorker' /\ Held'
  BY <1>2, <1>4 DEF IInv, OneWorker, Held, InHand, Busy
<1> QED
  BY <1>2, <1>3, <1>5 DEF IInv, RunsOnce, DoneWasRun

LEMMA NextInv == IInv /\ [Next]_vars => IInv'
<1> SUFFICES ASSUME IInv, [Next]_vars PROVE IInv'
  OBVIOUS
<1>1. CASE UNCHANGED vars
  BY <1>1 DEF vars, IInv, TypeOK, OneWorker, Held, InHand, RunsOnce, DoneWasRun
<1>2. ASSUME NEW allowed \in SUBSET Workers, NEW hq \in BOOLEAN, NEW syp \in BOOLEAN,
             Ask(allowed, hq, syp)
      PROVE  IInv'
  BY <1>2, AskInv
<1>3. ASSUME NEW w \in Workers, Work(w) \/ BeatDue(w) \/ Offline(w) \/ Crash(w) \/ Restart(w)
      PROVE  IInv'
  BY <1>3, BeatInv, ClaimInv, RunInv, FinishInv, OfflineInv, CrashInv DEF Work
<1> QED
  BY <1>1, <1>2, <1>3, AskRelatedInv, EnqueueInv, EnqueueFailsInv DEF Next

LEMMA Invariance == Spec => []IInv
<1> QED
  BY InitInv, NextInv, PTL DEF Spec

\* Every variable of the queue and of its workers keeps its type.
THEOREM TypeCorrect == Spec => []TypeOK
<1>1. IInv => TypeOK
  BY DEF IInv
<1> QED
  BY <1>1, Invariance, PTL

\* A job is reported done only when its command ran once and ended well, whatever calls
\* raise, whatever answers are lost and whichever workers die (worker.py, queue.py).
THEOREM DoneOnlyIfRun == Spec => []DoneWasRun
<1>1. IInv => DoneWasRun
  BY DEF IInv
<1> QED
  BY <1>1, Invariance, PTL

----------------------------------------------------------------------------
\* The queue is a JobLedger.

LEMMA ShownFacts ==
  /\ Shown("none") = "absent" /\ Shown("pending") = "waiting" /\ Shown("running") = "started"
  /\ Shown("done") = "done" /\ Shown("failed") = "failed"
BY DEF Shown

LEMMA RanFacts ==
  ASSUME IInv, NEW j \in Jobs
  PROVE  ran[j] \in {0, 1} /\ (ran[j] = 0 <=> outcome[j] = <<>>)
<1>1. Len(<<>>) = 0 /\ Len(<<"ok">>) = 1 /\ Len(<<"bad">>) = 1
  OBVIOUS
<1> QED
  BY <1>1 DEF IInv, RunsOnce, ran

\* A step that writes the status of one row.
LEMMA StageStep ==
  ASSUME IInv, NEW j \in Jobs, NEW s,
         queue'[j].status = s, \A i \in Jobs \ {j} : queue'[i] = queue[i], UNCHANGED outcome
  PROVE  stage' = [stage EXCEPT ![j] = Shown(s)] /\ ran' = ran
BY DEF stage, ran

LEMMA LedgerInitStep == Init => Ledger!LedgerInit
BY ShownFacts DEF Init, NoRow, Ledger!LedgerInit, stage, ran

LEMMA LedgerStep ==
  ASSUME IInv, [Next]_vars
  PROVE  [Ledger!LedgerNext]_<<stage, ran>>
<1>1. CASE UNCHANGED <<queue, outcome>>
  BY <1>1 DEF stage, ran
<1>2. ASSUME NEW j \in Jobs, enqueue_job(j)
      PROVE  Ledger!Submit(j)
  <2>1. /\ queue[j].status = "none" /\ queue'[j].status = "pending"
        /\ \A i \in Jobs \ {j} : queue'[i] = queue[i]
        /\ UNCHANGED outcome
    BY <1>2 DEF enqueue_job, Rows, IInv, TypeOK
  <2>2. stage' = [stage EXCEPT ![j] = Shown("pending")] /\ ran' = ran
    BY <2>1, StageStep
  <2> QED
    BY <2>1, <2>2, ShownFacts DEF Ledger!Submit, stage
<1>3. ASSUME NEW w \in Workers, claim_next_job(w)
      PROVE  \E j \in Jobs : Ledger!Start(j)
  <2>1. PICK j \in Mine(w) : queue' = [queue EXCEPT ![j] = [status |-> "running", to |-> w]]
    BY <1>3 DEF claim_next_job
  <2>2. j \in Jobs /\ queue[j].status = "pending" /\ UNCHANGED outcome
    BY <1>3 DEF Mine, Rows, claim_next_job
  <2>3. queue'[j].status = "running" /\ \A i \in Jobs \ {j} : queue'[i] = queue[i]
    BY <2>1, <2>2 DEF IInv, TypeOK, RowType, PlaceType
  <2>4. stage' = [stage EXCEPT ![j] = Shown("running")] /\ ran' = ran
    BY <2>2, <2>3, StageStep
  <2> QED
    BY <2>2, <2>4, ShownFacts DEF Ledger!Start, stage
<1>4. ASSUME NEW w \in Workers, run_configured_command(w)
      PROVE  \E j \in Jobs : Ledger!Execute(j)
  <2> DEFINE j == loop[w].job
  <2>1. j \in Jobs /\ queue[j].status = "running" /\ outcome[j] = <<>>
    BY <1>4 DEF run_configured_command, At, IInv, OneWorker, Held, InHand, Busy
  <2>2. PICK result \in {"ok", "bad"} : outcome' = [outcome EXCEPT ![j] = Append(@, result)]
    BY <1>4 DEF run_configured_command
  <2>3. outcome'[j] = <<result>> /\ \A i \in Jobs \ {j} : outcome'[i] = outcome[i]
    BY <2>1, <2>2 DEF IInv, TypeOK, RowType, PlaceType
  <2>4. ran' = [ran EXCEPT ![j] = 1] /\ ran[j] = 0
    <3>1. Len(<<result>>) = 1
      OBVIOUS
    <3>2. ran[j] = 0
      BY <2>1, RanFacts
    <3>3. Len(outcome'[j]) = 1 /\ \A i \in Jobs \ {j} : Len(outcome'[i]) = Len(outcome[i])
      BY <2>3, <3>1
    <3> QED
      BY <2>1, <3>2, <3>3 DEF ran
  <2>5. stage' = stage /\ stage[j] = "started"
    BY <1>4, <2>1, ShownFacts DEF run_configured_command, stage
  <2> QED
    BY <2>1, <2>4, <2>5 DEF Ledger!Execute
<1>5. ASSUME NEW w \in Workers, finish_job_success(w) \/ finish_job_failed(w)
      PROVE  \/ UNCHANGED <<queue, outcome>>
             \/ \E j \in Jobs : Ledger!ReportDone(j) \/ Ledger!ReportFailed(j)
  <2> DEFINE j == loop[w].job
  <2>1. j \in Jobs /\ ran[j] = 1 /\ UNCHANGED outcome
    <3>1. j \in Jobs /\ outcome[j] \in {<<"ok">>, <<"bad">>} /\ UNCHANGED outcome
      BY <1>5 DEF finish_job_success, finish_job_failed, At, IInv, OneWorker, Held, InHand, Busy
    <3>2. Len(<<"ok">>) = 1 /\ Len(<<"bad">>) = 1
      OBVIOUS
    <3> QED
      BY <3>1, <3>2 DEF ran
  <2>2. \/ queue[j].status = "running" /\ queue' \in {queue, Status(j, "done")}
        \/ queue[j].status \in {"running", "done"} /\ queue' \in {queue, Status(j, "failed")}
    BY <1>5 DEF finish_job_success, finish_job_failed, At, IInv, Held, InHand
  <2>3. ASSUME NEW s \in {"done", "failed"}, queue' = Status(j, s)
        PROVE  stage' = [stage EXCEPT ![j] = s] /\ ran' = ran
    <3>1. queue'[j].status = s /\ \A i \in Jobs \ {j} : queue'[i] = queue[i]
      BY <2>1, <2>3, StatusFacts
    <3>2. stage' = [stage EXCEPT ![j] = Shown(s)] /\ ran' = ran
      BY <2>1, <3>1, StageStep
    <3> QED
      BY <3>2, ShownFacts
  <2>4. /\ queue[j].status = "running" => stage[j] = "started"
        /\ queue[j].status = "done" => stage[j] = "done"
    BY <2>1, ShownFacts DEF stage
  <2>5. CASE queue[j].status = "running" /\ queue' = Status(j, "done")
    BY <2>1, <2>3, <2>4, <2>5 DEF Ledger!ReportDone
  <2>6. CASE queue[j].status \in {"running", "done"} /\ queue' = Status(j, "failed")
    BY <2>1, <2>3, <2>4, <2>6 DEF Ledger!ReportFailed
  <2> QED
    BY <2>1, <2>2, <2>5, <2>6
<1>6. [Next]_vars =>
        \/ UNCHANGED <<queue, outcome>>
        \/ \E j \in Jobs : enqueue_job(j)
        \/ \E w \in Workers : \/ claim_next_job(w) \/ run_configured_command(w)
                              \/ finish_job_success(w) \/ finish_job_failed(w)
  BY DEF vars, Next, Ask, AskRelated, EnqueueFails, Work, BeatDue, BeatRunning, BeatAfterSuccess,
         BeatAfterFailure, upsert_worker_heartbeat, Offline, Crash, Restart
<1> QED
  BY <1>1, <1>2, <1>3, <1>4, <1>5, <1>6 DEF Ledger!LedgerNext

\* A job is started once, its command is run at most once and only after that, and done is
\* reported only of a command that was run, whatever fails: the queue implements JobLedger.
THEOREM RunAtMostOnce == Spec => AtMostOnce
<1>1. IInv /\ [Next]_vars => [Ledger!LedgerNext]_<<stage, ran>>
  BY LedgerStep
<1> QED
  BY <1>1, Invariance, LedgerInitStep, PTL DEF Spec, AtMostOnce, Ledger!LedgerSpec

----------------------------------------------------------------------------
\* The table tells the truth.

\* Rows are inserted in the order of their ids, for a worker.
Ordered ==
  /\ \A i, j \in Jobs : i < j /\ j \in Rows => i \in Rows
  /\ \A j \in Rows : queue[j].to \in Workers \/ queue[j].status = "pending"

\* As long as nothing went wrong, a running job is in its worker's hands.
Clean ==
  faults = 0 /\ crashes = 0 =>
    /\ \A j \in Jobs : queue[j].status = "running" =>
         /\ loop[queue[j].to].job = j
         /\ loop[queue[j].to].pc \in {"begin", "run", "succeed", "fail"}
    /\ \A j \in Jobs : queue[j].status = "failed" => outcome[j] = <<"bad">>
    /\ \A w \in Workers : At(w, "fail") => outcome[loop[w].job] = <<"bad">>

Tidy == Ordered /\ OldestFirst /\ Clean

LEMMA CleanFacts ==
  ASSUME Tidy, faults = 0, crashes = 0
  PROVE  /\ \A j \in Jobs : queue[j].status = "running" =>
              /\ queue[j].to \in Workers /\ loop[queue[j].to].job = j
              /\ loop[queue[j].to].pc \in {"begin", "run", "succeed", "fail"}
         /\ \A j \in Jobs : queue[j].status = "failed" => outcome[j] = <<"bad">>
         /\ \A w \in Workers : loop[w].pc = "fail" => outcome[loop[w].job] = <<"bad">>
BY DEF Tidy, Ordered, Clean, Rows, At

LEMMA TidyEnqueue ==
  ASSUME IInv, Tidy, NEW j \in Jobs, enqueue_job(j)
  PROVE  Tidy'
<1>1. /\ queue' = [queue EXCEPT ![j] = [status |-> "pending", to |-> Head(ask)]]
      /\ UNCHANGED <<loop, outcome, faults, crashes>>
      /\ j \notin Rows /\ \A i \in 1..j-1 : i \in Rows
  BY DEF enqueue_job, IInv, TypeOK
<1>2. /\ queue'[j].status = "pending" /\ queue'[j].to = Head(ask)
      /\ \A i \in Jobs \ {j} : queue'[i] = queue[i]
  BY <1>1 DEF IInv, TypeOK
<1>3. \A i \in Jobs : queue[i].status \in {"running", "done", "failed"} => i < j
  BY <1>1 DEF Tidy, Ordered, Rows, Jobs
<1>4. Ordered'
  BY <1>1, <1>2 DEF Tidy, Ordered, Rows, Jobs
<1>5. OldestFirst'
  BY <1>2, <1>3 DEF Tidy, OldestFirst, Jobs
<1>6. Clean'
  BY <1>1, <1>2 DEF Tidy, Clean, At
<1> QED
  BY <1>4, <1>5, <1>6 DEF Tidy

LEMMA TidyClaim ==
  ASSUME IInv, Tidy, NEW w \in Workers, claim_next_job(w)
  PROVE  Tidy'
<1>1. PICK j \in Mine(w) :
        /\ \A i \in Mine(w) : i < j => queue[i].to = NoWorker
        /\ queue' = [queue EXCEPT ![j] = [status |-> "running", to |-> w]]
        /\ \/ loop' = [loop EXCEPT ![w] = [pc |-> "begin", job |-> j]] /\ UNCHANGED faults
           \/ Again(w) /\ Raises
  BY DEF claim_next_job
<1>2. /\ j \in Jobs /\ j \in Rows /\ queue[j].status = "pending"
      /\ loop[w].pc = "idle" /\ UNCHANGED <<outcome, crashes>>
  BY DEF Mine, Rows, Tidy, Ordered, claim_next_job, At
<1>3. /\ queue'[j].status = "running" /\ queue'[j].to = w
      /\ \A i \in Jobs \ {j} : queue'[i] = queue[i]
  BY <1>1, <1>2 DEF IInv, TypeOK
<1>4. Ordered'
  BY <1>2, <1>3 DEF Tidy, Ordered, Rows
<1>5. \A i \in Jobs : i < j /\ queue[i].to = w => queue[i].status # "pending"
  BY <1>1, <1>2 DEF Mine, Rows, Jobs
<1>6. OldestFirst'
  BY <1>2, <1>3, <1>5 DEF Tidy, OldestFirst
<1>7. ASSUME faults' = 0, crashes' = 0 PROVE Clean'
  <2>1. /\ faults = 0 /\ crashes = 0
        /\ loop'[w] = [pc |-> "begin", job |-> j] /\ \A v \in Workers \ {w} : loop'[v] = loop[v]
    BY <1>1, <1>2, <1>7 DEF Raises, IInv, TypeOK
  <2>2. \A i \in Jobs \ {j} : queue[i].status = "running" => queue[i].to \in Workers \ {w}
    BY <1>2, <2>1 DEF Tidy, Ordered, Clean, Rows
  <2>3. \A i \in Jobs : queue'[i].status = "running" =>
          /\ loop'[queue'[i].to].job = i
          /\ loop'[queue'[i].to].pc \in {"begin", "run", "succeed", "fail"}
    BY <1>3, <2>1, <2>2 DEF Tidy, Clean
  <2>4. \A i \in Jobs : queue'[i].status = "failed" => outcome'[i] = <<"bad">>
    BY <1>2, <1>3, <2>1 DEF Tidy, Clean
  <2>5. \A v \in Workers : loop'[v].pc = "fail" => outcome'[loop'[v].job] = <<"bad">>
    <3>1. \A v \in Workers \ {w} : loop[v].pc = "fail" => outcome[loop[v].job] = <<"bad">>
      BY <2>1, CleanFacts
    <3> QED
      BY <1>2, <2>1, <3>1
  <2> QED
    BY <2>3, <2>4, <2>5 DEF Clean, At
<1>8. Clean'
  BY <1>7 DEF Clean
<1> QED
  BY <1>4, <1>6, <1>8 DEF Tidy

LEMMA TidyRun ==
  ASSUME IInv, Tidy, NEW w \in Workers, run_configured_command(w)
  PROVE  Tidy'
<1> DEFINE j == loop[w].job
<1>1. PICK result \in {"ok", "bad"} :
        /\ outcome' = [outcome EXCEPT ![j] = Append(@, result)]
        /\ MoveTo(w, IF result = "ok" THEN "succeed" ELSE "fail")
  BY DEF run_configured_command
<1>2. /\ loop[w].pc = "run" /\ j \in Jobs /\ outcome[j] = <<>> /\ queue[j].status = "running"
      /\ \A v \in Workers \ {w} : loop[v].pc \in Busy => loop[v].job # j
      /\ UNCHANGED <<queue, faults, crashes>>
  BY DEF run_configured_command, At, IInv, OneWorker, Held, InHand, Busy
<1>3. outcome'[j] = <<result>> /\ \A i \in Jobs \ {j} : outcome'[i] = outcome[i]
  BY <1>1, <1>2 DEF IInv, TypeOK
<1>4. /\ loop'[w].job = j /\ loop'[w].pc = IF result = "ok" THEN "succeed" ELSE "fail"
      /\ \A v \in Workers \ {w} : loop'[v] = loop[v]
  BY <1>1, MoveFacts DEF Points
<1>5. Ordered' /\ OldestFirst'
  BY <1>2 DEF Tidy, Ordered, OldestFirst, Rows
<1>6. ASSUME faults' = 0, crashes' = 0 PROVE Clean'
  <2>1. \A i \in Jobs : queue[i].status = "running" => queue[i].to \in Workers
    BY DEF Tidy, Ordered, Rows
  <2>2. \A i \in Jobs : queue'[i].status = "running" =>
          /\ loop'[queue'[i].to].job = i
          /\ loop'[queue'[i].to].pc \in {"begin", "run", "succeed", "fail"}
    BY <1>2, <1>4, <1>6, <2>1 DEF Tidy, Clean
  <2>3. \A i \in Jobs : queue'[i].status = "failed" => outcome'[i] = <<"bad">>
    BY <1>2, <1>3, <1>6 DEF Tidy, Clean
  <2>4. \A v \in Workers : loop'[v].pc = "fail" => outcome'[loop'[v].job] = <<"bad">>
    <3>1. ASSUME NEW v \in Workers \ {w}, loop[v].pc = "fail"
          PROVE  outcome'[loop[v].job] = <<"bad">>
      BY <1>2, <1>3, <1>6, <3>1 DEF Tidy, Clean, At, IInv, OneWorker, Busy
    <3>2. loop'[w].pc = "fail" => outcome'[loop'[w].job] = <<"bad">>
      BY <1>3, <1>4
    <3> QED
      BY <1>4, <3>1, <3>2
  <2> QED
    BY <2>2, <2>3, <2>4 DEF Clean, At
<1>7. Clean'
  BY <1>6 DEF Clean
<1> QED
  BY <1>5, <1>7 DEF Tidy

\* Of the reports only those that do not raise matter to Clean.
LEMMA TidyFinish ==
  ASSUME IInv, Tidy, NEW w \in Workers, finish_job_success(w) \/ finish_job_failed(w)
  PROVE  Tidy'
<1> DEFINE j == loop[w].job
<1>1. /\ j \in Jobs /\ queue[j].status \in {"running", "done"}
      /\ \A v \in Workers \ {w} : loop[v].pc \in Busy => loop[v].job # j
      /\ UNCHANGED <<outcome, crashes>>
  BY DEF finish_job_success, finish_job_failed, At, IInv, OneWorker, Held, InHand, Busy
<1>2. \/ UNCHANGED queue \/ \E s \in {"done", "failed"} : queue' = Status(j, s)
  BY DEF finish_job_success, finish_job_failed
<1>3. \A i \in Jobs : \/ queue'[i] = queue[i]
                     \/ /\ i = j /\ queue'[i].to = queue[i].to
                        /\ queue'[i].status \in {"done", "failed"}
  BY <1>1, <1>2, StatusFacts
<1>4. Ordered' /\ OldestFirst'
  BY <1>1, <1>3 DEF Tidy, Ordered, OldestFirst, Rows
<1>5. ASSUME faults' = 0, crashes' = 0 PROVE Clean'
  <2>1. faults = 0 /\ crashes = 0
    BY <1>1, <1>5 DEF finish_job_success, finish_job_failed, Raises, IInv, TypeOK
  <2>2. /\ loop'[w].job = j /\ loop'[w].pc \in {"succeeded", "failed"}
        /\ \A v \in Workers \ {w} : loop'[v] = loop[v]
        /\ \E s \in {"done", "failed"} : queue' = Status(j, s)
        /\ queue' = Status(j, "failed") => loop[w].pc = "fail"
    <3>1. \/ loop[w].pc = "succeed" /\ queue' = Status(j, "done") /\ MoveTo(w, "succeeded")
          \/ loop[w].pc = "fail" /\ queue' = Status(j, "failed") /\ MoveTo(w, "failed")
      BY <1>5, <2>1 DEF finish_job_success, finish_job_failed, Raises, At
    <3>2. Status(j, "done") # Status(j, "failed")
      BY <1>1, StatusFacts
    <3> QED
      BY <3>1, <3>2, MoveFacts DEF Points
  <2>3. queue'[j].status \in {"done", "failed"} /\ \A i \in Jobs \ {j} : queue'[i] = queue[i]
    BY <1>1, <2>2, StatusFacts
  <2>4. \A i \in Jobs \ {j} : queue[i].status = "running" => queue[i].to \in Workers \ {w}
    BY <2>1 DEF Tidy, Ordered, Clean, Rows
  <2>5. \A i \in Jobs : queue'[i].status = "running" =>
          /\ loop'[queue'[i].to].job = i
          /\ loop'[queue'[i].to].pc \in {"begin", "run", "succeed", "fail"}
    BY <2>1, <2>2, <2>3, <2>4 DEF Tidy, Clean
  <2>6. \A i \in Jobs : queue'[i].status = "failed" => outcome'[i] = <<"bad">>
    <3>1. queue'[j].status = "failed" => outcome[j] = <<"bad">>
      <4>1. loop[w].pc = "fail" => outcome[j] = <<"bad">>
        BY <2>1, CleanFacts
      <4>2. queue' = Status(j, "done") => queue'[j].status = "done"
        BY <1>1, StatusFacts
      <4> QED
        BY <2>2, <4>1, <4>2
    <3>2. \A i \in Jobs \ {j} : queue[i].status = "failed" => outcome[i] = <<"bad">>
      BY <2>1, CleanFacts
    <3> QED
      BY <1>1, <2>3, <3>1, <3>2
  <2>7. \A v \in Workers : loop'[v].pc = "fail" => outcome'[loop'[v].job] = <<"bad">>
    <3>1. \A v \in Workers \ {w} : loop[v].pc = "fail" => outcome[loop[v].job] = <<"bad">>
      BY <2>1, CleanFacts
    <3>2. loop'[w].pc # "fail"
      BY <2>2
    <3>3. /\ \A v \in Workers \ {w} : loop'[v] = loop[v]
          /\ UNCHANGED outcome
      BY <1>1, <2>2
    <3> QED
      BY <3>1, <3>2, <3>3
  <2> QED
    BY <2>5, <2>6, <2>7 DEF Clean, At
<1>6. Clean'
  BY <1>5 DEF Clean
<1> QED
  BY <1>4, <1>6 DEF Tidy

\* A heartbeat that is written leaves the job in hand, or lets go of a finished one.
LEMMA TidyBeat ==
  ASSUME IInv, Tidy, NEW w \in Workers,
         BeatDue(w) \/ BeatRunning(w) \/ BeatAfterSuccess(w) \/ BeatAfterFailure(w)
  PROVE  Tidy'
<1>1. UNCHANGED <<queue, outcome, crashes>>
  BY DEF BeatDue, BeatRunning, BeatAfterSuccess, BeatAfterFailure, upsert_worker_heartbeat
<1>2. Ordered' /\ OldestFirst'
  BY <1>1 DEF Tidy, Ordered, OldestFirst, Rows
<1>3. ASSUME faults' = 0, crashes' = 0 PROVE Clean'
  <2>1. faults = 0 /\ crashes = 0
    BY <1>1, <1>3 DEF BeatDue, BeatRunning, BeatAfterSuccess, BeatAfterFailure,
                      upsert_worker_heartbeat, Raises, IInv, TypeOK
  <2>2. \/ loop[w].pc \in {"idle", "succeeded", "failed"} /\ Again(w)
        \/ loop[w].pc = "begin" /\ MoveTo(w, "run")
    BY <1>3, <2>1 DEF BeatDue, BeatRunning, BeatAfterSuccess, BeatAfterFailure,
                      upsert_worker_heartbeat, Raises, At
  <2>3. /\ \A v \in Workers \ {w} : loop'[v] = loop[v]
        /\ \/ loop[w].pc \in {"idle", "succeeded", "failed"} /\ loop'[w].pc \notin Busy
           \/ loop[w].pc = "begin" /\ loop'[w].pc = "run" /\ loop'[w].job = loop[w].job
    BY <2>2, MoveFacts, AgainFacts DEF Points
  <2>4. \A i \in Jobs : queue[i].status = "running" => queue[i].to \in Workers
    BY DEF Tidy, Ordered, Rows
  <2>5. \A i \in Jobs : queue'[i].status = "running" =>
          /\ loop'[queue'[i].to].job = i
          /\ loop'[queue'[i].to].pc \in {"begin", "run", "succeed", "fail"}
    BY <1>1, <2>1, <2>3, <2>4 DEF Tidy, Clean
  <2>6. \A v \in Workers : loop'[v].pc = "fail" => outcome'[loop'[v].job] = <<"bad">>
    <3>1. \A v \in Workers : loop[v].pc = "fail" => outcome[loop[v].job] = <<"bad">>
      BY <2>1, CleanFacts
    <3>2. loop'[w].pc # "fail"
      BY <2>3 DEF Busy
    <3> QED
      BY <1>1, <2>3, <3>1, <3>2
  <2> QED
    BY <1>1, <2>1, <2>5, <2>6 DEF Tidy, Clean, At
<1>4. Clean'
  BY <1>3 DEF Clean
<1> QED
  BY <1>2, <1>4 DEF Tidy

LEMMA TidyRest ==
  ASSUME IInv, Tidy, NEW w \in Workers,
         \/ EnqueueFails \/ Offline(w) \/ Crash(w) \/ Restart(w)
         \/ \E allowed, hq, syp : Ask(allowed, hq, syp)
         \/ \E allowed : AskRelated(allowed)
         \/ UNCHANGED vars
  PROVE  Tidy'
<1>1. UNCHANGED <<queue, outcome>>
  BY DEF EnqueueFails, Offline, Crash, Restart, Ask, AskRelated, vars
<1>2. Ordered' /\ OldestFirst'
  BY <1>1 DEF Tidy, Ordered, OldestFirst, Rows
<1>3. \/ UNCHANGED <<loop, faults, crashes>>
      \/ faults' # 0 \/ crashes' # 0
      \/ loop[w].pc = "down" /\ Again(w) /\ UNCHANGED <<faults, crashes>>
  BY DEF EnqueueFails, Offline, Crash, Restart, Ask, AskRelated, vars, Raises, At, IInv, TypeOK
<1>4. CASE UNCHANGED <<loop, faults, crashes>>
  BY <1>1, <1>2, <1>4 DEF Tidy, Clean, At
<1>5. CASE faults' # 0 \/ crashes' # 0
  BY <1>2, <1>5 DEF Tidy, Clean
<1>6. CASE loop[w].pc = "down" /\ Again(w) /\ UNCHANGED <<faults, crashes>>
  <2>1. loop'[w].pc \notin Busy /\ \A v \in Workers \ {w} : loop'[v] = loop[v]
    BY <1>6, AgainFacts
  <2>2. ASSUME faults = 0, crashes = 0 PROVE Clean'
    <3>1. \A i \in Jobs : queue[i].status = "running" =>
            /\ queue[i].to \in Workers \ {w} /\ loop[queue[i].to].job = i
            /\ loop[queue[i].to].pc \in {"begin", "run", "succeed", "fail"}
      BY <1>6, <2>2, CleanFacts
    <3>2. \A i \in Jobs : queue[i].status = "failed" => outcome[i] = <<"bad">>
      BY <2>2, CleanFacts
    <3>3. \A v \in Workers : loop[v].pc = "fail" => outcome[loop[v].job] = <<"bad">>
      BY <2>2, CleanFacts
    <3>4. loop'[w].pc # "fail"
      BY <2>1 DEF Busy
    <3> QED
      BY <1>1, <2>1, <3>1, <3>2, <3>3, <3>4 DEF Clean, At
  <2>3. Clean'
    BY <1>6, <2>2 DEF Clean
  <2> QED
    BY <1>2, <2>3 DEF Tidy
<1> QED
  BY <1>3, <1>4, <1>5, <1>6

LEMMA TidyInvariance == Spec => []Tidy
<1>1. Init => Tidy
  BY DEF Init, NoRow, Tidy, Ordered, OldestFirst, Clean, Rows, At
<1>2. ASSUME IInv, Tidy, [Next]_vars PROVE Tidy'
  <2>1. PICK w \in Workers : TRUE
    <3>1. SYP_WORKER_CANDIDATES[1] \in Workers
      OBVIOUS
    <3> QED
      BY <3>1
  <2>2. CASE \E v \in Workers : Work(v)
    BY <1>2, <2>2, TidyClaim, TidyRun, TidyFinish, TidyBeat DEF Work
  <2>3. CASE \E v \in Workers : BeatDue(v)
    BY <1>2, <2>3, TidyBeat
  <2>4. CASE \E j \in Jobs : enqueue_job(j)
    BY <1>2, <2>4, TidyEnqueue
  <2>5. CASE \E v \in Workers : Offline(v) \/ Crash(v) \/ Restart(v)
    BY <1>2, <2>5, TidyRest
  <2>6. CASE \/ EnqueueFails \/ UNCHANGED vars \/ \E allowed, hq, syp : Ask(allowed, hq, syp)
             \/ \E allowed : AskRelated(allowed)
    BY <1>2, <2>1, <2>6, TidyRest
  <2> QED
    BY <1>2, <2>2, <2>3, <2>4, <2>5, <2>6 DEF Next
<1> QED
  BY <1>1, <1>2, Invariance, PTL DEF Spec

\* The jobs of one worker are started in the order they were asked for; and when no call
\* raised and no worker died a running job is in the hands of the worker its row names, and
\* a finished one ended as its row says.
THEOREM TableTrue == Spec => []TableIsTrue
<1>1. Tidy /\ IInv => TableIsTrue
  BY DEF Tidy, Clean, IInv, DoneWasRun, TableIsTrue, At
<1> QED
  BY <1>1, TidyInvariance, Invariance, PTL
=============================================================================
