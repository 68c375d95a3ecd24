------------------------------ MODULE JobQueue ------------------------------
(***************************************************************************)
(* Jobs that LINE users ask for and workers run: the table ops.job_queue,  *)
(* the heartbeats by which a worker is chosen, and the loop of             *)
(* src/jobs/worker.py, where any call on the database may raise, before or *)
(* after it took effect.  A worker is one process with one loop.           *)
(***************************************************************************)
EXTENDS Naturals, Sequences

CONSTANTS
  HQ_WORKER_CANDIDATES, SYP_WORKER_CANDIDATES,  \* in order of preference
  MaxJobs,     \* bound: rows of the queue
  MaxFaults,   \* bound: calls that raise
  MaxCrashes,  \* bound: workers that die
  NoWorker

Elements(s) == {s[i] : i \in 1..Len(s)}
Workers == Elements(HQ_WORKER_CANDIDATES) \cup Elements(SYP_WORKER_CANDIDATES)
Jobs == 1..MaxJobs    \* ids, in the order of requested_at
NoJob == 0

ASSUME QueueAssumption ==
  /\ MaxJobs \in Nat /\ MaxFaults \in Nat /\ MaxCrashes \in Nat
  /\ NoWorker \notin Workers
  /\ HQ_WORKER_CANDIDATES \in Seq(Workers) /\ SYP_WORKER_CANDIDATES \in Seq(Workers)
  /\ SYP_WORKER_CANDIDATES # <<>>

VARIABLES
  queue,    \* ops.job_queue: status and worker_name of each job
  ask,      \* the workers a batch in progress has still to insert a job for
  online,   \* the workers whose last_seen is within 30 seconds
  loop,     \* the point of its loop each worker is at, and its job
  outcome,  \* how each run of the command of a job ended, "ok" or "bad"
  faults, crashes

vars == <<queue, ask, online, loop, outcome, faults, crashes>>

NoRow == [status |-> "none", to |-> NoWorker]
Rows == {j \in Jobs : queue[j].status # "none"}
At(w, pc) == loop[w].pc = pc
MoveTo(w, pc) == loop' = [loop EXCEPT ![w].pc = pc]
Again(w) == loop' = [loop EXCEPT ![w] = [pc |-> "idle", job |-> NoJob]]
Status(j, s) == [queue EXCEPT ![j].status = s]

\* A call raises; it may have taken effect (the answer is what was lost).
Raises == faults < MaxFaults /\ faults' = faults + 1

Init ==
  /\ queue = [j \in Jobs |-> NoRow] /\ ask = <<>>
  /\ online = {}
  /\ loop = [w \in Workers |-> [pc |-> "idle", job |-> NoJob]]
  /\ outcome = [j \in Jobs |-> <<>>]
  /\ faults = 0 /\ crashes = 0

(***************************************************************************)
(* Asking for a job: the first candidate that is online.                   *)
(***************************************************************************)
\* The candidate that is online and allowed and that no such candidate comes before.
_pick_worker(candidates, allowed) ==
  LET here == {i \in 1..Len(candidates) : candidates[i] \in online \cap allowed}
  IN  {candidates[i] : i \in {i \in here : \A k \in here : i <= k}}

\* A user allowed everywhere gets the first SYP box even when none is online.
_append_syp_target(allowed) ==
  LET syp == _pick_worker(SYP_WORKER_CANDIDATES, allowed)
  IN  IF syp = {} /\ allowed = Workers THEN {SYP_WORKER_CANDIDATES[1]} ELSE syp

Target(ws) == IF ws = {} THEN <<>> ELSE <<CHOOSE w \in ws : TRUE>>

\* One job per site; the targets are chosen before the first insert.
Ask(allowed, hq, syp) ==
  /\ ask = <<>> /\ Rows # Jobs
  /\ ask' = Target(IF hq THEN _pick_worker(HQ_WORKER_CANDIDATES, allowed) ELSE {})
            \o Target(IF syp THEN _append_syp_target(allowed) ELSE {})
  /\ ask' # <<>>
  /\ UNCHANGED <<queue, online, loop, outcome, faults, crashes>>

\* The job of a user with a worker online goes to HQ's, or else to whichever takes it.
AskRelated(allowed) ==
  LET hq == _pick_worker(HQ_WORKER_CANDIDATES, allowed)
      syp == _pick_worker(SYP_WORKER_CANDIDATES, allowed) IN
  /\ ask = <<>> /\ Rows # Jobs
  /\ allowed = Workers \/ hq \cup syp # {}
  /\ ask' = Target(IF hq = {} THEN {NoWorker} ELSE hq)
  /\ UNCHANGED <<queue, online, loop, outcome, faults, crashes>>

enqueue_job(j) ==
  /\ ask # <<>> /\ j \notin Rows /\ \A i \in 1..j-1 : i \in Rows
  /\ queue' = [queue EXCEPT ![j] = [status |-> "pending", to |-> Head(ask)]]
  /\ ask' = Tail(ask)
  /\ UNCHANGED <<online, loop, outcome, faults, crashes>>

\* The insert raises: the rest of the batch is not asked for.
EnqueueFails ==
  /\ ask # <<>> /\ Raises
  /\ ask' = <<>>
  /\ UNCHANGED <<queue, online, loop, outcome, crashes>>

(***************************************************************************)
(* Heartbeats.                                                             *)
(***************************************************************************)
\* 30 seconds without one; no heartbeat is sent while a command runs.  (Bound:
\* after the last row nobody looks at who is online.)
Offline(w) ==
  /\ w \in online /\ Rows # Jobs
  /\ online' = online \ {w}
  /\ UNCHANGED <<queue, ask, loop, outcome, faults, crashes>>

\* The upsert of one of the four places, then pc; failing is where the loop goes
\* on when it raises.
upsert_worker_heartbeat(w, from, pc, failing) ==
  /\ At(w, from)
  /\ \/ /\ online' = online \cup {w} /\ UNCHANGED faults
        /\ IF pc = "idle" THEN Again(w) ELSE MoveTo(w, pc)
     \/ /\ Raises /\ UNCHANGED online
        /\ IF failing = "idle" THEN Again(w) ELSE MoveTo(w, failing)
  /\ UNCHANGED <<queue, ask, outcome, crashes>>

\* Every HEARTBEAT_INTERVAL_SECONDS, before looking for a job.
BeatDue(w) == upsert_worker_heartbeat(w, "idle", "idle", "idle")
BeatRunning(w) == upsert_worker_heartbeat(w, "begin", "run", "idle")
BeatAfterSuccess(w) == upsert_worker_heartbeat(w, "succeeded", "idle", "fail")
BeatAfterFailure(w) == upsert_worker_heartbeat(w, "failed", "idle", "idle")

(***************************************************************************)
(* The loop.                                                               *)
(***************************************************************************)
Mine(w) == {j \in Rows : queue[j].status = "pending" /\ queue[j].to \in {w, NoWorker}}

\* Mutant: a worker takes up the job it left running.
claim_or_resume(w) ==
  LET mine == Mine(w) \cup {j \in Rows : queue[j] = [status |-> "running", to |-> w]}
  IN  /\ At(w, "idle")
      /\ \E j \in mine :
                /\ \A i \in mine : j <= i
                /\ queue' = [queue EXCEPT ![j] = [status |-> "running", to |-> w]]
                /\ loop' = [loop EXCEPT ![w] = [pc |-> "begin", job |-> j]]
                /\ UNCHANGED faults
      /\ UNCHANGED <<ask, online, outcome, crashes>>

\* The oldest pending job of the worker, locked, set running; an older one for anybody
\* is skipped while another worker's claim holds it.  When the answer of the commit is
\* lost nobody runs the job.
claim_next_job(w) ==
  /\ At(w, "idle")
  /\ \E j \in Mine(w) :
            /\ \A i \in Mine(w) : i < j =>
                 queue[i].to = NoWorker /\ \E v \in Workers \ {w} : At(v, "idle")
            /\ queue' = [queue EXCEPT ![j] = [status |-> "running", to |-> w]]
            /\ \/ loop' = [loop EXCEPT ![w] = [pc |-> "begin", job |-> j]] /\ UNCHANGED faults
               \/ Again(w) /\ Raises
  /\ UNCHANGED <<ask, online, outcome, crashes>>

\* Mutant: the return code is not looked at.
run_ignoring_rc(w) ==
  /\ At(w, "run")
  /\ \E result \in {"ok", "bad"} : outcome' = [outcome EXCEPT ![loop[w].job] = Append(@, result)]
  /\ MoveTo(w, "succeed")
  /\ UNCHANGED <<queue, ask, online, faults, crashes>>

\* The command ends, with return code 0 or not (missing, disabled, timed out).
run_configured_command(w) ==
  /\ At(w, "run")
  /\ \E result \in {"ok", "bad"} :
       /\ outcome' = [outcome EXCEPT ![loop[w].job] = Append(@, result)]
       /\ MoveTo(w, IF result = "ok" THEN "succeed" ELSE "fail")
  /\ UNCHANGED <<queue, ask, online, faults, crashes>>

\* Mutant: WHERE status = 'pending'.
finish_pending(w) ==
  /\ At(w, "succeed") /\ MoveTo(w, "succeeded")
  /\ queue' = IF queue[loop[w].job].status = "pending"
              THEN Status(loop[w].job, "done") ELSE queue
  /\ UNCHANGED <<ask, online, outcome, faults, crashes>>

\* An exception here is taken for one of the command.
finish_job_success(w) ==
  /\ At(w, "succeed")
  /\ \/ queue' = Status(loop[w].job, "done") /\ MoveTo(w, "succeeded") /\ UNCHANGED faults
     \/ /\ Raises /\ MoveTo(w, "fail")
        /\ queue' \in {queue, Status(loop[w].job, "done")}
  /\ UNCHANGED <<ask, online, outcome, crashes>>

\* Mutant: the failure is only printed.
finish_printed(w) ==
  /\ At(w, "fail") /\ MoveTo(w, "failed")
  /\ UNCHANGED <<queue, ask, online, outcome, faults, crashes>>

\* An exception here is caught by the loop: the job stays as it was.
finish_job_failed(w) ==
  /\ At(w, "fail")
  /\ \/ queue' = Status(loop[w].job, "failed") /\ MoveTo(w, "failed") /\ UNCHANGED faults
     \/ /\ Raises /\ Again(w)
        /\ queue' \in {queue, Status(loop[w].job, "failed")}
  /\ UNCHANGED <<ask, online, outcome, crashes>>

Crash(w) ==
  /\ ~At(w, "down") /\ crashes < MaxCrashes
  /\ crashes' = crashes + 1
  /\ loop' = [loop EXCEPT ![w] = [pc |-> "down", job |-> NoJob]]
  /\ UNCHANGED <<queue, ask, online, outcome, faults>>

\* run_worker_forever is started again.  It does not look for the job it left.
Restart(w) ==
  /\ At(w, "down") /\ Again(w)
  /\ UNCHANGED <<queue, ask, online, outcome, faults, crashes>>

Work(w) ==
  \/ claim_next_job(w) \/ BeatRunning(w)
  \/ run_configured_command(w)
  \/ finish_job_success(w) \/ BeatAfterSuccess(w)
  \/ finish_job_failed(w) \/ BeatAfterFailure(w)

Next ==
  \/ \E allowed \in SUBSET Workers, hq, syp \in BOOLEAN : Ask(allowed, hq, syp)
  \/ \E allowed \in SUBSET Workers : AskRelated(allowed)
  \/ \E j \in Jobs : enqueue_job(j)
  \/ EnqueueFails
  \/ \E w \in Workers : Work(w) \/ BeatDue(w) \/ Offline(w) \/ Crash(w) \/ Restart(w)

\* The loop polls for ever and goes on through a job without waiting for anything
\* but its own calls.  Nothing here restarts a worker, or makes users ask.
Spec == Init /\ [][Next]_vars /\ \A w \in Workers : WF_vars(Work(w))

-----------------------------------------------------------------------------
Points == {"down", "idle", "begin", "run", "succeed", "succeeded",
           "fail", "failed"}

\* Every variable has its type (queue.py, heartbeat.py, worker.py).
TypeOK ==
  /\ queue \in [Jobs -> [status : {"none", "pending", "running", "done", "failed"},
                         to : Workers \cup {NoWorker}]]
  /\ ask \in Seq(Workers \cup {NoWorker})
  /\ online \subseteq Workers
  /\ loop \in [Workers -> [pc : Points, job : Jobs \cup {NoJob}]]
  /\ outcome \in [Jobs -> Seq({"ok", "bad"})]
  /\ faults \in 0..MaxFaults /\ crashes \in 0..MaxCrashes

\* The jobs of one worker are started in the order they were asked for.
OldestFirst ==
  \A i, j \in Jobs : /\ i < j /\ queue[i].to = queue[j].to
                     /\ queue[j].status \in {"running", "done", "failed"}
                     => queue[i].status # "pending"

\* When no call raised and no worker died the table tells the truth: a running
\* job is in the hands of the worker it names, and a finished one ended so.
TableIsTrue ==
  OldestFirst /\ (faults = 0 /\ crashes = 0 => \A j \in Jobs :
    /\ queue[j].status = "running" =>
         loop[queue[j].to].job = j /\ ~At(queue[j].to, "idle")
    /\ queue[j].status = "done" => outcome[j] = <<"ok">>
    /\ queue[j].status = "failed" => outcome[j] = <<"bad">>)

\* Done is only said of a command that ended well, whatever fails.
DoneWasRun == \A j \in Jobs : queue[j].status = "done" => outcome[j] = <<"ok">>

\* A pending job is started, unless every worker that may take it is down for good.
EveryJobStarts ==
  \A j \in Jobs : queue[j].status = "pending"
    ~> \/ queue[j].status # "pending"
       \/ \A w \in Workers : queue[j].to \in {w, NoWorker} => At(w, "down")

\* A started job is reported, unless a call raised or a worker died.
EveryJobEnds ==
  \A j \in Jobs : queue[j].status = "running"
    ~> queue[j].status \in {"done", "failed"} \/ faults + crashes > 0

JobsProgress == EveryJobStarts /\ EveryJobEnds

\* The table and the commands run are a JobLedger.
Shown(status) ==
  CASE status = "none" -> "absent"
    [] status = "pending" -> "waiting"
    [] status = "running" -> "started"
    [] OTHER -> status
stage == [j \in Jobs |-> Shown(queue[j].status)]
ran == [j \in Jobs |-> Len(outcome[j])]
Ledger == INSTANCE JobLedger
AtMostOnce == Ledger!LedgerSpec
=============================================================================
