SPECIFICATION Spec
CONSTANTS
  HQ_UBUNTU = HQ_UBUNTU
  HQ_PC = HQ_PC
  SYP_UBUNTU = SYP_UBUNTU
  HQ_WORKER_CANDIDATES <- HQ
  SYP_WORKER_CANDIDATES <- SYP
  MaxJobs = 2
  MaxFaults = 1
  MaxCrashes = 1
  NoWorker = NoWorker
INVARIANTS TableIsTrue DoneWasRun
PROPERTIES JobsProgress AtMostOnce
