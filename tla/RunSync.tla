------------------------------ MODULE RunSync ------------------------------
(***************************************************************************)
(* RunLifecycleService.sync_all.  A syncer is one database transaction     *)
(* that loads every unfinished run, polls the scheduler for each of them   *)
(* and writes what it learns, each run inside its own savepoint.  The      *)
(* background loop is one syncer; every open run page posts to             *)
(* /runs/sync and is another.                                              *)
(*                                                                         *)
(* list_unfinished only says which runs to look at: todo.  Each is read     *)
(* again before it is polled and once more before it is written, because   *)
(* the session keeps no row nobody refers to any more.  wr holds a         *)
(* syncer's uncommitted writes, and with them the row locks it keeps until *)
(* it commits.                                                             *)
(***************************************************************************)
EXTENDS SchedulerJobs

CONSTANT Syncers

VARIABLE sync

SyncRecord ==
  [pc      : {"idle", "scan", "write", "claim", "collect"},
   todo    : SUBSET Runs,                       \* listed, still to process
   cur     : Runs \cup {None},
   verdict : Status \cup {None},
   wr      : [Runs -> Status \cup {None}],
   note    : SUBSET Runs]                       \* notifications to commit

Nothing == [r \in Runs |-> None]
IdleSync == [pc |-> "idle", todo |-> {}, cur |-> None,
             verdict |-> None, wr |-> Nothing, note |-> {}]

HoldsRow(s, r) == sync[s].wr[r] # None

(* Faulty: writers do not wait for each other.                             *)
NoRowLock(s, r) == TRUE
RowFree(s, r) == \A t \in Syncers \ {s} : ~HoldsRow(t, r)

(* Done with run r: on to the next one.                                    *)
Passed(s, r) ==
  [sync[s] EXCEPT !.pc = "scan", !.todo = @ \ {r}, !.cur = None, !.verdict = None]

Becomes(s, rec) == sync' = [sync EXCEPT ![s] = rec]

(* list_unfinished.                                                        *)
Listed(r) == run[r].status \in Unfinished

SyncStart(s) ==
  /\ sync[s].pc = "idle"
  /\ Becomes(s, [IdleSync EXCEPT
       !.pc = "scan",
       !.todo = {r \in Runs : Listed(r)}])

(* Faulty: the scheduler's word is stored unmapped; the exit code of a     *)
(* completed job is ignored.                                               *)
UnmappedStatus(report) == report.state
StatusWithoutExitCode(report) ==
  CASE report.state = "RUNNING"   -> "running"
    [] report.state = "COMPLETED" -> "succeeded"
    [] report.state = "CANCELLED" -> "cancelled"

(* The product status a scheduler report stands for.                       *)
StatusOf(report) ==
  CASE report.state = "PENDING"   -> "queued"
    [] report.state = "RUNNING"   -> "running"
    [] report.state = "COMPLETED" -> IF report.exitZero THEN "succeeded" ELSE "failed"
    [] report.state = "FAILED"    -> "failed"
    [] report.state = "CANCELLED" -> "cancelled"

(* The status a syncer means to write: an unknown job only adds an ERROR   *)
(* event, and the row is written back as it was read.                      *)
Verdict(r) ==
  IF Report(r).state = "UNKNOWN" THEN run[r].status ELSE StatusOf(Report(r))

(* The next run is read and polled; the rows come in no particular order.  *)
(* A run another syncer has finished meanwhile is left alone, a terminal   *)
(* report must be claimed, any other is written.                           *)
SyncPoll(s, r) ==
  /\ sync[s].pc = "scan"
  /\ r \in sync[s].todo
  /\ \/ /\ run[r].status \notin Unfinished
        /\ Becomes(s, Passed(s, r))
     \/ /\ run[r].status \in Unfinished
        /\ Becomes(s, [sync[s] EXCEPT
             !.pc = IF Verdict(r) \in Terminal THEN "claim" ELSE "write",
             !.cur = r, !.verdict = Verdict(r)])

(* runs.update of a run that is not finished reads the row again: equal    *)
(* values emit no statement, others an UPDATE ... WHERE id that waits for  *)
(* the row lock and then writes whatever the row holds by now.             *)
SyncWrite(s) ==
  LET r == sync[s].cur IN
  /\ sync[s].pc = "write"
  /\ \/ /\ run[r].status = sync[s].verdict
        /\ Becomes(s, Passed(s, r))
     \/ /\ run[r].status # sync[s].verdict
        /\ RowFree(s, r)
        /\ Becomes(s, [Passed(s, r) EXCEPT !.wr[r] = sync[s].verdict])

(* Faulty: no status condition; only runs seen running can finish.         *)
AlwaysClaimable(r) == TRUE
ClaimableIfRunning(r) == run[r].status = "running"

(* claim_terminal: UPDATE ... WHERE id AND status IN (queued, running),    *)
(* decided on the committed row once the row lock is free.                 *)
Claimable(r) == run[r].status \in Unfinished

SyncClaim(s) ==
  LET r == sync[s].cur IN
  /\ sync[s].pc = "claim"
  /\ RowFree(s, r)
  /\ IF Claimable(r)
     THEN Becomes(s, [sync[s] EXCEPT !.pc = "collect", !.wr[r] = sync[s].verdict])
     ELSE Becomes(s, Passed(s, r))

(* The winner collects the artifacts: a required one that is missing turns *)
(* whatever the scheduler said into failed.                                *)
FinalStatus(verdict, missing) == IF missing THEN "failed" ELSE verdict

(* Faulty: everyone is notified of every ending.                           *)
NotifiedAlways(status) == TRUE

Notified(status) == status # "cancelled"

(* It then writes the row, the FINISHED event and the activity, and        *)
(* notifies the creator unless the run ended cancelled.                    *)
SyncCollect(s, sent) ==
  LET r == sync[s].cur IN
  /\ sync[s].pc = "collect"
  /\ \E missing \in BOOLEAN :
       LET final == FinalStatus(sync[s].verdict, missing) IN
       Becomes(s, [Passed(s, r) EXCEPT
         !.wr[r] = final,
         !.note = IF Notified(final) /\ sent THEN @ \cup {r} ELSE @])

(* Any exception for one run rolls back to its savepoint, which drops its  *)
(* writes and their locks; the batch goes on.                              *)
SyncSkip(s) ==
  \/ /\ sync[s].pc = "scan"
     /\ \E r \in sync[s].todo : Becomes(s, Passed(s, r))
  \/ /\ sync[s].pc \in {"write", "claim", "collect"}
     /\ Becomes(s, [Passed(s, sync[s].cur) EXCEPT !.wr[sync[s].cur] = None])

(* Row locks are taken in list order, which differs between syncers: the   *)
(* database breaks a cycle of waiting transactions by failing the          *)
(* statement of one of them, which is again an exception for that run.     *)
WaitsFor(s, t) ==
  /\ \/ sync[s].pc = "claim"
     \/ sync[s].pc = "write" /\ run[sync[s].cur].status # sync[s].verdict
  /\ s # t
  /\ HoldsRow(t, sync[s].cur)

Deadlocked(s) ==
  \E C \in SUBSET Syncers :
    /\ s \in C
    /\ \A t \in C : (\E u \in C : WaitsFor(t, u)) /\ (\E u \in C : WaitsFor(u, t))

SyncDeadlockVictim(s) ==
  /\ Deadlocked(s)
  /\ Becomes(s, Passed(s, sync[s].cur))

(* The transaction commits; a run that reached a terminal status has its   *)
(* FINISHED event and artifacts committed with it.                         *)
SyncCommit(s) ==
  /\ sync[s].pc = "scan"
  /\ sync[s].todo = {}
  /\ run' = [r \in Runs |-> IF HoldsRow(s, r)
                            THEN [run[r] EXCEPT !.status = sync[s].wr[r]]
                            ELSE run[r]]
  /\ finals' = [r \in Runs |-> IF sync[s].wr[r] \in Terminal
                               THEN Bump(finals[r]) ELSE finals[r]]
  /\ notices' = [r \in Runs |-> IF r \in sync[s].note
                                THEN Bump(notices[r]) ELSE notices[r]]
  /\ Becomes(s, IdleSync)
  /\ UNCHANGED idem

(* The whole transaction is rolled back.                                   *)
SyncAbort(s) ==
  /\ sync[s].pc # "idle"
  /\ Becomes(s, IdleSync)

SyncInit == sync = [s \in Syncers |-> IdleSync]
SyncTypeOK == sync \in [Syncers -> SyncRecord]

=============================================================================
