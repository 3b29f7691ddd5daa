----------------------------- MODULE RunSystem -----------------------------
(***************************************************************************)
(* Submission requests, cancel requests, status syncers and the scheduler  *)
(* together.  Failures (rollbacks, lost answers, lost notifications,       *)
(* purged jobs, process restarts) spend a budget, MaxFaults.               *)
(***************************************************************************)
EXTENDS RunSubmission, RunSync

CONSTANTS
  MaxFaults,   \* bound on failures of all kinds
  MaxCancels   \* bound on cancel requests

ASSUME BudgetAssumption == MaxFaults \in Nat /\ MaxCancels \in Nat

VARIABLES
  cancelling,  \* cancel requests that have read the run and not yet acted
  asked,       \* runs with a committed CANCEL_REQUESTED event
  cancels,     \* cancel requests so far
  faults       \* failures so far

vars == <<run, idem, finals, notices, job, tx, sync,
          cancelling, asked, cancels, faults>>

cancelVars == <<cancelling, asked, cancels>>

Init ==
  /\ StoreInit /\ JobsInit /\ TxInit /\ SyncInit
  /\ cancelling = {}
  /\ asked = {}
  /\ cancels = 0
  /\ faults = 0

Fault   == faults < MaxFaults /\ faults' = faults + 1
NoFault == UNCHANGED faults

-----------------------------------------------------------------------------
(* RunService.cancel: refuses a terminal run, records the request and      *)
(* tells the scheduler; the run's status is left to the syncers.  (Every   *)
(* committed unfinished run has a job id, UnfinishedHasJob: the branch for *)
(* a run without one is never taken.)                                      *)
CancelReceived(r) ==
  /\ cancels < MaxCancels
  /\ run[r].status \in Unfinished
  /\ r \notin cancelling
  /\ cancelling' = cancelling \cup {r}
  /\ cancels' = cancels + 1
  /\ UNCHANGED <<storeVars, job, tx, sync, asked, faults>>

CancelSent(r) ==
  /\ r \in cancelling
  /\ Cancellable(r)
  /\ Cancel(r)
  /\ cancelling' = cancelling \ {r}
  /\ asked' = asked \cup {r}
  /\ UNCHANGED <<storeVars, tx, sync, cancels, faults>>

(* The scheduler no longer knows the job: error, rollback.                 *)
CancelRejected(r) ==
  /\ r \in cancelling
  /\ ~Cancellable(r)
  /\ cancelling' = cancelling \ {r}
  /\ UNCHANGED <<storeVars, job, tx, sync, asked, cancels, faults>>

(* The scheduler is told and the transaction then fails.                   *)
CancelUnrecorded(r) ==
  /\ Fault
  /\ r \in cancelling
  /\ Cancellable(r)
  /\ Cancel(r)
  /\ cancelling' = cancelling \ {r}
  /\ UNCHANGED <<storeVars, tx, sync, asked, cancels>>

CancelStep(r) ==
  \/ CancelReceived(r)
  \/ CancelSent(r)
  \/ CancelRejected(r)
  \/ CancelUnrecorded(r)

-----------------------------------------------------------------------------
SubmissionStep(q) ==
  /\ \/ /\ Receive(q) \/ Reserve(q) \/ LockPlan(q) \/ Refuse(q) \/ Admit(q)
                     \/ RefuseAtLimit(q)
        /\ NoFault
        /\ UNCHANGED <<storeVars, job>>
     \/ /\ SubmitAccepted(q) \/ SubmitFails(q)
        /\ NoFault
        /\ UNCHANGED storeVars
     \/ /\ Commit(q, TRUE)
        /\ NoFault
        /\ UNCHANGED job
     \/ /\ Commit(q, FALSE)
        /\ Fault
        /\ UNCHANGED job
     \/ /\ SubmitAnswerLost(q)
        /\ Fault
        /\ UNCHANGED storeVars
     \/ /\ Aborted(q)
        /\ Fault
        /\ UNCHANGED <<storeVars, job>>
  /\ UNCHANGED <<sync, cancelVars>>

SyncerStep(s) ==
  /\ \/ /\ \/ SyncStart(s)
           \/ \E r \in Runs : SyncPoll(s, r)
           \/ SyncWrite(s)
           \/ SyncClaim(s)
           \/ SyncCollect(s, TRUE)
           \/ SyncDeadlockVictim(s)
        /\ NoFault
        /\ UNCHANGED storeVars
     \/ /\ SyncCommit(s)
        /\ NoFault
     \/ /\ SyncCollect(s, FALSE) \/ SyncSkip(s) \/ SyncAbort(s)
        /\ Fault
        /\ UNCHANGED storeVars
  /\ UNCHANGED <<job, tx, cancelVars>>

SchedulerStep(r) ==
  /\ \/ JobStep(r) /\ NoFault
     \/ JobForgotten(r) /\ Fault
  /\ UNCHANGED <<storeVars, tx, sync, cancelVars>>

(* The backend process dies and starts again: every transaction in flight  *)
(* is rolled back.                                                         *)
Restart ==
  /\ Fault
  /\ job' = JobsAfterRestart
  /\ tx' = [q \in Runs |-> IF tx[q].pc \in Working
                           THEN [tx[q] EXCEPT !.pc = "aborted"] ELSE tx[q]]
  /\ sync' = [s \in Syncers |-> IdleSync]
  /\ cancelling' = {}
  /\ UNCHANGED <<storeVars, asked, cancels>>

Next ==
  \/ \E r \in Runs : SubmissionStep(r) \/ CancelStep(r) \/ SchedulerStep(r)
  \/ \E s \in Syncers : SyncerStep(s)
  \/ Restart

Spec == Init /\ [][Next]_vars

(* The background loop keeps syncing and the database keeps answering: a   *)
(* transaction that can take its next step takes it.  A request waiting    *)
(* for the entitlement row waits: it is not refused to end the wait.       *)
Proceeds(q) ==
  /\ SubmissionStep(q)
  /\ tx[q].pc \in Working
  /\ NoFault
  /\ tx[q].pc = "lock" => LockPlan(q)

FairSpec ==
  /\ Spec
  /\ \A q \in Runs : WF_vars(Proceeds(q))
  /\ \A s \in Syncers : WF_vars(SyncerStep(s) /\ NoFault)

TypeOK ==
  /\ StoreTypeOK /\ JobsTypeOK /\ TxTypeOK /\ SyncTypeOK
  /\ cancelling \subseteq Runs
  /\ asked \subseteq Runs
  /\ cancels \in 0..MaxCancels
  /\ faults \in 0..MaxFaults

-----------------------------------------------------------------------------
(* Submission.                                                             *)

(* GR-002a: on every compute plan, the runs that are not finished never    *)
(* exceed max_concurrent_runs, whatever requests and syncers interleave.   *)
LimitRespected == \A p \in Plans : Cardinality(UnfinishedOn(p)) <= Limit[p]

(* The same limit for what the cluster really runs: the live jobs of a     *)
(* plan, those of submissions that have not committed yet included.        *)
LiveOn(p) == {q \in Runs : Live(q) /\ tx[q].plan = p}
LiveJobsWithinLimit == \A p \in Plans : Cardinality(LiveOn(p)) <= Limit[p]

(* GR-017: however often and however concurrently a key is sent, at most   *)
(* one job is submitted for it.                                            *)
OneJobPerKey ==
  \A p, q \in Runs :
    (/\ tx[p].key = tx[q].key /\ tx[p].key # None
     /\ job[p].st # "none" /\ job[q].st # "none") => p = q

(* A committed key row names a committed run created by a request with     *)
(* this very key, endpoint, project and source run.                        *)
KeyNamesItsRun ==
  \A k \in Keys : idem[k] # AbsentKey =>
    LET r == idem[k].run IN
    /\ r \in Runs
    /\ Exists(r)
    /\ tx[r].key = k
    /\ tx[r].endpoint = idem[k].endpoint
    /\ run[r].project = tx[r].project
    /\ run[r].source = tx[r].source

(* A replayed answer names a committed run of the same submission: same    *)
(* key, same operation, same project, same source run.                     *)
ReplaysAreFaithful ==
  \A q \in Runs : tx[q].pc = "replayed" =>
    LET r == tx[q].reply IN
    /\ r \in Runs
    /\ Exists(r)
    /\ tx[r].key = tx[q].key
    /\ tx[r].endpoint = tx[q].endpoint
    /\ tx[r].project = tx[q].project
    /\ tx[r].source = tx[q].source

(* A run that holds a concurrency slot has a job the syncers can poll: no  *)
(* slot is held by a run that nothing will ever finish.                    *)
UnfinishedHasJob ==
  \A r \in Runs : run[r].status \in Unfinished => run[r].job /\ job[r].st # "none"

-----------------------------------------------------------------------------
(* Status.                                                                 *)

(* GR-015: a run is shown succeeded only if its job exited with code zero. *)
NoFalseSuccess ==
  \A r \in Runs : run[r].status = "succeeded" => job[r].st \in {"ok", "lost"}

(* A slot is given back only when the job that used it has ended.          *)
FinishedIsNotLive == \A r \in Runs : run[r].status \in Terminal => ~Live(r)

(* A run finishes exactly once: one FINISHED event and one set of          *)
(* artifacts if and only if it has an outcome, at most one notification.   *)
FinishedOnce ==
  \A r \in Runs :
    /\ finals[r] = (IF run[r].status \in Outcomes THEN 1 ELSE 0)
    /\ notices[r] <= 1
    /\ notices[r] = 1 => run[r].status \in Terminal \ {"cancelled"}

(* A run is cancelled only when a user's request reached its job, or the   *)
(* cluster ended the job itself.                                           *)
CancelledWasAsked ==
  \A r \in Runs : run[r].status = "cancelled" =>
    job[r].told \/ (Adapter = "slurm" /\ job[r].st \in {"killed", "lost"})

(* GR-015: a run whose job the scheduler no longer knows keeps its status; *)
(* its end is never guessed.                                               *)
LostJobKeepsStatus ==
  [][\A r \in Runs : (job[r].st = "lost" /\ run[r].status \in Unfinished) =>
       run'[r] = run[r]]_vars

(* A terminal status is final.                                             *)
TerminalIsFinal ==
  [][\A r \in Runs : run[r].status \in Terminal => run'[r] = run[r]]_vars

(* claim_terminal: of the syncers that saw a run end, one collects.        *)
OneCollector ==
  \A s, t \in Syncers :
    (sync[s].pc = "collect" /\ sync[t].pc = "collect" /\ sync[s].cur = sync[t].cur) => s = t

(* An outcome is only ever committed over an unfinished run, however many  *)
(* syncers overlap: the FINISHED event never repeats for one finish.       *)
OutcomeEndsUnfinished ==
  [][\A r \in Runs : finals'[r] # finals[r] =>
       run[r].status \in Unfinished /\ run'[r].status \in Outcomes]_vars

(* A syncer has learnt that run r ended with exit code zero, has written   *)
(* it, or it is committed.                                                 *)
Succeeding(r) ==
  \/ run[r].status = "succeeded"
  \/ \E s \in Syncers :
       \/ sync[s].cur = r /\ sync[s].verdict = "succeeded"
       \/ sync[s].wr[r] = "succeeded"

(* With the mock, a cancellation that reaches a job forestalls its success *)
(* unless a syncer has polled the clean exit before: however late the      *)
(* process is looked at again, and although it may have exited with code   *)
(* zero already, the run does not become succeeded.                        *)
CancelForestallsSuccess ==
  [][\A r \in Runs : job[r].told /\ ~Succeeding(r) => ~Succeeding(r)']_vars

(* The comment in sync_run: a cancelled run is not notified, because the   *)
(* user has just cancelled it.  So a run that ends cancelled without a     *)
(* notification was cancelled by a user.                                   *)
SilentEndWasAsked ==
  \A r \in Runs : (run[r].status = "cancelled" /\ notices[r] = 0) => job[r].told

-----------------------------------------------------------------------------
(* Liveness.                                                               *)

(* A run whose job has ended is eventually shown finished, for good: with  *)
(* overlapping syncers a finished run may be shown unfinished again, but   *)
(* not for ever.                                                           *)
FinishSticks ==
  \A r \in Runs :
    (run[r].status \in Unfinished /\ job[r].st \in DoneStates)
      ~> [](run[r].status \in Terminal)

(* Requests never wait for each other's locks forever.                     *)
RequestsEnd == \A q \in Runs : (tx[q].pc \in Working) ~> (tx[q].pc \in Ended)

-----------------------------------------------------------------------------
(* The committed state implements the ledger.                              *)
Ledger == INSTANCE RunLedger WITH
  status   <- [r \in Runs |-> run[r].status],
  plan     <- [r \in Runs |-> run[r].plan],
  finished <- finals

(* Transactions, locks and stale rows add up to the ledger's atomic steps. *)
ImplementsLedger == Ledger!Spec

=============================================================================
