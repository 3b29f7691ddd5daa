--------------------------- MODULE SchedulerJobs ---------------------------
(***************************************************************************)
(* The scheduler behind SchedulerPort, as the backend sees it through one  *)
(* of its two adapters: "mock" runs the command as a child process kept in *)
(* an in-memory registry, "slurm" talks to a Slurm REST service.  A job is *)
(* named after the run it was submitted for: submit is called at most once *)
(* per run.                                                                *)
(***************************************************************************)
EXTENDS RunStore

CONSTANT Adapter   \* "mock" or "slurm"

ASSUME AdapterAssumption == Adapter \in {"mock", "slurm"}

VARIABLE job       \* job[r]: what the scheduler holds for run r

LiveStates == {"pending", "running"}
DoneStates == {"ok", "bad", "killed"}   \* exit 0, exit # 0, ended by the cluster

JobRecord == [st : {"none", "lost"} \cup LiveStates \cup DoneStates,
              told : BOOLEAN]           \* cancel has been requested of it

NoJob == [st |-> "none", told |-> FALSE]

Live(r) == job[r].st \in LiveStates

SetState(r, st) == job' = [job EXCEPT ![r].st = st]

(* submit: the mock starts the process at once, Slurm queues the job.      *)
Accept(r) ==
  job' = [job EXCEPT ![r] =
            [st |-> IF Adapter = "mock" THEN "running" ELSE "pending",
             told |-> FALSE]]

(* cancel: the mock marks the job cancelled whether or not its process has *)
(* already exited, and terminates it when it has not (the process then     *)
(* exits by itself, JobExits); Slurm cancels a live job and leaves a       *)
(* finished one alone.                                                     *)
Cancellable(r) == job[r].st \notin {"none", "lost"}
Cancel(r) ==
  job' = [job EXCEPT ![r] =
            [st |-> IF Adapter = "slurm" /\ Live(r) THEN "killed" ELSE @.st,
             told |-> TRUE]]

(* Faulty: a cancelled process is reported gone before it has exited; any  *)
(* unclean exit is taken for a cancellation; an unknown job is guessed to  *)
(* have failed; a cancelled job that exited cleanly is reported completed. *)
ReportOnRequest(r) ==
  [state |-> IF job[r].told THEN "CANCELLED"
             ELSE IF job[r].st = "running" THEN "RUNNING" ELSE "COMPLETED",
   exitZero |-> job[r].st = "ok"]
ReportSignalled(r) ==
  [state |-> IF job[r].st = "bad" THEN "CANCELLED"
             ELSE IF job[r].st = "running" THEN "RUNNING" ELSE "COMPLETED",
   exitZero |-> job[r].st = "ok"]
ReportGuessed(r) ==
  [state |-> IF job[r].st = "lost" THEN "FAILED"
             ELSE IF job[r].st = "running" THEN "RUNNING" ELSE "COMPLETED",
   exitZero |-> job[r].st = "ok"]

ReportByExitCode(r) ==
  [state |-> CASE job[r].st \in {"none", "lost"}          -> "UNKNOWN"
               [] job[r].st = "running"                   -> "RUNNING"
               [] job[r].told /\ job[r].st # "ok"         -> "CANCELLED"
               [] OTHER                                   -> "COMPLETED",
   exitZero |-> job[r].st = "ok"]

(* poll, mapped by the adapter to a SchedulerState and a zero exit code.   *)
Report(r) ==
  LET st == job[r].st IN
  [state |-> CASE st \in {"none", "lost"} -> "UNKNOWN"
               [] st = "pending"          -> "PENDING"
               [] st = "running"          -> "RUNNING"
               [] st = "killed"           -> "CANCELLED"
               [] st \in {"ok", "bad"} /\ Adapter = "mock" /\ job[r].told
                                          -> "CANCELLED"
               [] st = "bad" /\ Adapter = "slurm"
                                          -> "FAILED"
               [] OTHER                   -> "COMPLETED",
   exitZero |-> st = "ok"]

-----------------------------------------------------------------------------
(* The scheduler's own steps.                                              *)

JobStarts(r)   == job[r].st = "pending" /\ SetState(r, "running")

JobRequeued(r) == Adapter = "slurm" /\ job[r].st = "running" /\ SetState(r, "pending")

JobExits(r)    == job[r].st = "running" /\ \E st \in {"ok", "bad"} : SetState(r, st)

(* A Slurm job preempted or cancelled by the cluster itself.               *)
JobPreempted(r) == Adapter = "slurm" /\ Live(r) /\ SetState(r, "killed")

JobStep(r) ==
  \/ JobStarts(r)
  \/ JobRequeued(r)
  \/ JobExits(r)
  \/ JobPreempted(r)

(* The job leaves the scheduler's memory: Slurm purges finished jobs.      *)
JobForgotten(r) ==
  Adapter = "slurm" /\ job[r].st \in DoneStates /\ SetState(r, "lost")

(* The mock's registry does not survive the process it lives in.           *)
JobsAfterRestart ==
  IF Adapter = "mock"
  THEN [r \in Runs |-> IF job[r].st = "none" THEN job[r]
                       ELSE [job[r] EXCEPT !.st = "lost"]]
  ELSE job

JobsInit == job = [r \in Runs |-> NoJob]
JobsTypeOK == job \in [Runs -> JobRecord]

=============================================================================
