------------------------------ MODULE JobLedger ------------------------------
(***************************************************************************)
(* What the job queue promises of a job, whatever fails: it is started     *)
(* once, its command is run at most once, and it is reported done only     *)
(* after that.                                                             *)
(***************************************************************************)
EXTENDS Naturals

CONSTANT Jobs

VARIABLES stage, ran

LedgerInit == stage = [j \in Jobs |-> "absent"] /\ ran = [j \in Jobs |-> 0]

Submit(j) == stage[j] = "absent" /\ stage' = [stage EXCEPT ![j] = "waiting"] /\ ran' = ran
Start(j) == stage[j] = "waiting" /\ stage' = [stage EXCEPT ![j] = "started"] /\ ran' = ran
Execute(j) == stage[j] = "started" /\ ran[j] = 0 /\ ran' = [ran EXCEPT ![j] = 1] /\ stage' = stage
ReportDone(j) == stage[j] = "started" /\ ran[j] = 1 /\ stage' = [stage EXCEPT ![j] = "done"] /\ ran' = ran
\* A failure may be reported of a job that was reported done.
ReportFailed(j) ==
  /\ stage[j] = "started" \/ (stage[j] = "done" /\ ran[j] = 1)
  /\ stage' = [stage EXCEPT ![j] = "failed"] /\ ran' = ran

LedgerNext == \E j \in Jobs :
  Submit(j) \/ Start(j) \/ Execute(j) \/ ReportDone(j) \/ ReportFailed(j)

LedgerSpec == LedgerInit /\ [][LedgerNext]_<<stage, ran>>
=============================================================================
