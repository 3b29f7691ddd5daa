-------------------------- MODULE RunSystemProofs ---------------------------
(***************************************************************************)
(* Theorems about RunSystem, for every set of runs, keys, projects, plans, *)
(* limits, adapters and fault budgets: types, idempotency keys, the rows   *)
(* requests leave behind, row locks and who may write an outcome.          *)
(***************************************************************************)
EXTENDS RunSystem, TLAPS

-----------------------------------------------------------------------------
(* Between two polls a syncer works on no run; while it works on one, the  *)
(* run and its verdict are known.                                          *)
WellAimed(rec) ==
  /\ rec.pc \in {"write", "claim", "collect"} => rec.cur \in Runs
  /\ rec.pc = "write" => rec.verdict \in Unfinished
  /\ rec.pc \in {"claim", "collect"} => rec.verdict \in Outcomes

SyncShape == \A s \in Syncers : WellAimed(sync[s])

TypeInv == TypeOK /\ SyncShape

(* What an adapter can report, and what the report is stored as.           *)
LEMMA ReportIsMapped ==
  ASSUME NEW r \in Runs, Report(r).state # "UNKNOWN"
  PROVE  StatusOf(Report(r)) \in Unfinished \cup Outcomes
<1>1. Report(r).state \in {"PENDING", "RUNNING", "COMPLETED", "FAILED", "CANCELLED"}
  BY DEF Report
<1>2. QED
  BY <1>1 DEF StatusOf, Unfinished, Outcomes

(* What a syncer means to write of an unfinished run.                      *)
LEMMA VerdictIsMapped ==
  ASSUME NEW r \in Runs, run[r].status \in Unfinished
  PROVE  Verdict(r) \in Unfinished \cup Outcomes
BY ReportIsMapped DEF Verdict

(* Saturating counts stay in range.                                        *)
LEMMA BumpInRange ==
  ASSUME NEW n \in 0..Many
  PROVE  Bump(n) \in 0..Many
BY DEF Bump, Many

LEMMA TypeInit == Init => TypeInv
<1>1. ASSUME Init PROVE StoreTypeOK
  BY <1>1, NoneAssumption DEF Init, StoreInit, StoreTypeOK, RunRow, AbsentRun, KeyRow, AbsentKey, Many
<1>2. ASSUME Init PROVE JobsTypeOK
  BY <1>2 DEF Init, JobsInit, JobsTypeOK, NoJob, JobRecord
<1>3. ASSUME Init PROVE TxTypeOK
  BY <1>3 DEF Init, TxInit, TxTypeOK, NewTx, TxRecord
<1>4. ASSUME Init PROVE SyncTypeOK
  BY <1>4 DEF Init, SyncInit, SyncTypeOK, IdleSync, SyncRecord, Nothing
<1>5. ASSUME Init PROVE SyncShape
  BY <1>5 DEF Init, SyncInit, IdleSync, SyncShape, WellAimed
<1>6. QED
  BY <1>1, <1>2, <1>3, <1>4, <1>5, BudgetAssumption DEF TypeInv, TypeOK, Init

(* A transaction step that only touches tx.                                *)
LEMMA TypeSubmission ==
  ASSUME TypeInv, NEW q \in Runs, SubmissionStep(q)
  PROVE  TypeInv'
<1> USE DEF TypeInv, TypeOK
<1>1. sync' = sync /\ cancelling' = cancelling /\ asked' = asked /\ cancels' = cancels
  BY DEF SubmissionStep, cancelVars
<1>2. SyncTypeOK' /\ SyncShape'
  BY <1>1 DEF SyncTypeOK, SyncShape
<1>3. faults' \in 0..MaxFaults
  <2>1. Fault \/ NoFault
    BY DEF SubmissionStep
  <2>2. QED
    BY <2>1, BudgetAssumption DEF Fault, NoFault
<1>4. tx[q] \in TxRecord
  BY DEF TxTypeOK
<1>5. ASSUME NEW pc \in {"new"} \cup Working \cup Ended, Goto(q, pc)
      PROVE  TxTypeOK'
  BY <1>4, <1>5 DEF Goto, TxTypeOK, TxRecord
<1>6. CASE Receive(q) /\ NoFault /\ UNCHANGED <<storeVars, job>>
  <2>1. ASSUME NEW m \in Creations \cup Reruns
        PROVE  /\ m.endpoint \in Endpoints
               /\ m.key \in Keys \cup {None}
               /\ m.project \in Projects \cup {None}
               /\ m.plan \in Plans \cup {None}
               /\ m.source \in Runs \cup {None}
    BY DEF Creations, Reruns, Endpoints, StoreTypeOK, RunRow
  <2>2. ASSUME NEW m \in Creations \cup Reruns, m.key # None
        PROVE  idem[m.key].run \in Runs \cup {None}
    BY <2>1, <2>2 DEF StoreTypeOK, KeyRow
  <2>3. ASSUME NEW m \in Creations \cup Reruns,
               NEW pc \in Working \cup Ended,
               NEW reply \in Runs \cup {None},
               Accepting(q, m, pc, reply)
        PROVE  TxTypeOK'
    BY <2>1, <2>3, <1>4 DEF Accepting, TxTypeOK, TxRecord
  <2>4. TxTypeOK'
    BY <1>6, <2>2, <2>3 DEF Receive, Working, Ended
  <2>5. StoreTypeOK' /\ JobsTypeOK'
    BY <1>6 DEF StoreTypeOK, JobsTypeOK, storeVars
  <2>6. QED
    BY <1>1, <1>2, <1>3, <2>4, <2>5
<1>7. CASE /\ \/ Reserve(q) \/ LockPlan(q) \/ Refuse(q) \/ Admit(q)
              \/ RefuseAtLimit(q) \/ Aborted(q)
           /\ UNCHANGED <<storeVars, job>>
  <2>1. TxTypeOK'
    BY <1>5, <1>7 DEF Reserve, LockPlan, Refuse, Admit, RefuseAtLimit, Aborted, Working, Ended
  <2>2. StoreTypeOK' /\ JobsTypeOK'
    BY <1>7 DEF StoreTypeOK, JobsTypeOK, storeVars
  <2>3. QED
    BY <1>1, <1>2, <1>3, <2>1, <2>2
<1>8. CASE /\ SubmitAccepted(q) \/ SubmitFails(q) \/ SubmitAnswerLost(q)
           /\ UNCHANGED storeVars
  <2>1. TxTypeOK'
    BY <1>5, <1>8 DEF SubmitAccepted, SubmitFails, SubmitAnswerLost, Working
  <2>2. JobsTypeOK'
    <3>1. CASE Accept(q)
      BY <3>1 DEF Accept, JobsTypeOK, JobRecord, LiveStates
    <3>2. CASE job' = job
      BY <3>2 DEF JobsTypeOK
    <3>3. QED
      BY <1>8, <3>1, <3>2 DEF SubmitAccepted, SubmitFails, SubmitAnswerLost
  <2>3. StoreTypeOK'
    BY <1>8 DEF StoreTypeOK, storeVars
  <2>4. QED
    BY <1>1, <1>2, <1>3, <2>1, <2>2, <2>3
<1>9. CASE \E sent \in BOOLEAN : Commit(q, sent) /\ UNCHANGED job
  <2>1. TxTypeOK'
    <3>1. tx' = [tx EXCEPT ![q].pc = "committed", ![q].reply = q]
      BY <1>9 DEF Commit
    <3>2. [tx[q] EXCEPT !.pc = "committed", !.reply = q] \in TxRecord
      BY <1>4 DEF TxRecord, Ended
    <3>3. QED
      BY <3>1, <3>2 DEF TxTypeOK
  <2>2. CreatedRow(q) \in RunRow
    BY <1>4 DEF CreatedRow, RunRow, TxRecord, Status, Unfinished, Terminal
  <2>3. run' \in [Runs -> RunRow]
    BY <1>9, <2>2 DEF Commit, StoreTypeOK
  <2>4. idem' \in [Keys -> KeyRow]
    BY <1>4, <1>9 DEF Commit, StoreTypeOK, KeyRow, TxRecord
  <2>5. notices' \in [Runs -> 0..Many] /\ finals' = finals
    BY <1>9, BumpInRange DEF Commit, StoreTypeOK
  <2>6. StoreTypeOK' /\ JobsTypeOK'
    BY <1>9, <2>3, <2>4, <2>5 DEF StoreTypeOK, JobsTypeOK
  <2>7. QED
    BY <1>1, <1>2, <1>3, <2>1, <2>6
<1>10. QED
  BY <1>6, <1>7, <1>8, <1>9 DEF SubmissionStep

LEMMA TypeCancel ==
  ASSUME TypeInv, NEW r \in Runs, CancelStep(r)
  PROVE  TypeInv'
<1> USE DEF TypeInv, TypeOK
<1>1. storeVars' = storeVars /\ tx' = tx /\ sync' = sync
  BY DEF CancelStep, CancelReceived, CancelSent, CancelRejected, CancelUnrecorded
<1>2. StoreTypeOK' /\ TxTypeOK' /\ SyncTypeOK' /\ SyncShape'
  BY <1>1 DEF storeVars, StoreTypeOK, TxTypeOK, SyncTypeOK, SyncShape
<1>3. ASSUME Cancel(r) PROVE JobsTypeOK'
  BY <1>3 DEF Cancel, JobsTypeOK, JobRecord, DoneStates
<1>4. JobsTypeOK'
  BY <1>3 DEF CancelStep, CancelReceived, CancelSent, CancelRejected, CancelUnrecorded,
              JobsTypeOK
<1>5. /\ cancelling' \subseteq Runs
      /\ asked' \subseteq Runs
      /\ cancels' \in 0..MaxCancels
      /\ faults' \in 0..MaxFaults
  BY BudgetAssumption
  DEF CancelStep, CancelReceived, CancelSent, CancelRejected, CancelUnrecorded, Fault
<1>6. QED
  BY <1>2, <1>4, <1>5

LEMMA TypeSyncer ==
  ASSUME TypeInv, NEW s \in Syncers, SyncerStep(s)
  PROVE  TypeInv'
<1> USE DEF TypeInv, TypeOK
<1>1. job' = job /\ tx' = tx /\ cancelling' = cancelling /\ asked' = asked /\ cancels' = cancels
  BY DEF SyncerStep, cancelVars
<1>2. JobsTypeOK' /\ TxTypeOK'
  BY <1>1 DEF JobsTypeOK, TxTypeOK
<1>3. faults' \in 0..MaxFaults
  <2>1. Fault \/ NoFault
    BY DEF SyncerStep
  <2>2. QED
    BY <2>1, BudgetAssumption DEF Fault, NoFault
<1>4. sync[s] \in SyncRecord
  BY DEF SyncTypeOK
<1>5. ASSUME NEW rec \in SyncRecord, Becomes(s, rec), WellAimed(rec)
      PROVE  SyncTypeOK' /\ SyncShape'
  BY <1>5 DEF Becomes, SyncTypeOK, SyncShape
<1>6. IdleSync \in SyncRecord /\ WellAimed(IdleSync)
  BY DEF IdleSync, SyncRecord, Nothing, WellAimed
<1>7. ASSUME NEW r
      PROVE  Passed(s, r) \in SyncRecord /\ WellAimed(Passed(s, r))
  BY <1>4 DEF Passed, SyncRecord, WellAimed
<1>8. CASE SyncCommit(s)
  <2>1. SyncTypeOK' /\ SyncShape'
    BY <1>5, <1>6, <1>8 DEF SyncCommit
  <2>2. run' \in [Runs -> RunRow]
    <3>1. ASSUME NEW r \in Runs, HoldsRow(s, r)
          PROVE  [run[r] EXCEPT !.status = sync[s].wr[r]] \in RunRow
      <4>1. sync[s].wr[r] \in Status
        BY <1>4, <3>1 DEF SyncRecord, HoldsRow
      <4>2. run[r] \in RunRow
        BY DEF StoreTypeOK
      <4>3. QED
        BY <4>1, <4>2 DEF RunRow
    <3>2. QED
      BY <1>8, <3>1 DEF SyncCommit, StoreTypeOK
  <2>3. finals' \in [Runs -> 0..Many] /\ notices' \in [Runs -> 0..Many] /\ idem' = idem
    BY <1>8, BumpInRange DEF SyncCommit, StoreTypeOK
  <2>4. QED
    BY <1>1, <1>2, <1>3, <2>1, <2>2, <2>3 DEF StoreTypeOK
<1>9. CASE UNCHANGED storeVars /\ ~SyncCommit(s)
  <2>1. StoreTypeOK'
    BY <1>9 DEF StoreTypeOK, storeVars
  <2>2. CASE SyncStart(s)
    BY <1>1, <1>2, <1>3, <1>5, <2>1, <2>2
    DEF SyncStart, IdleSync, SyncRecord, Nothing, WellAimed
  <2>3. ASSUME NEW r \in Runs, SyncPoll(s, r) PROVE SyncTypeOK' /\ SyncShape'
    <3>1. CASE run[r].status \notin Unfinished
      BY <1>5, <1>7, <2>3, <3>1 DEF SyncPoll
    <3>2. CASE run[r].status \in Unfinished
      <4> DEFINE v   == Verdict(r)
                 nxt == IF v \in Terminal THEN "claim" ELSE "write"
                 rec == [sync[s] EXCEPT !.pc = nxt, !.cur = r, !.verdict = v]
      <4>1. Becomes(s, rec)
        BY <2>3, <3>2 DEF SyncPoll
      <4>2. v \in Unfinished \cup Outcomes
        BY <3>2, VerdictIsMapped
      <4>3. \/ nxt = "claim" /\ v \in Outcomes
            \/ nxt = "write" /\ v \in Unfinished
        BY <4>2 DEF Terminal, Outcomes, Unfinished
      <4>4. v \in Status
        BY <4>2 DEF Status, Terminal
      <4> HIDE DEF v, nxt
      <4>5. rec \in SyncRecord /\ WellAimed(rec)
        BY <1>4, <4>3, <4>4 DEF SyncRecord, WellAimed
      <4>6. QED
        BY <1>5, <4>1, <4>5
    <3>3. QED
      BY <3>1, <3>2
  <2>4. CASE SyncWrite(s)
    <3>1. [Passed(s, sync[s].cur) EXCEPT !.wr[sync[s].cur] = sync[s].verdict] \in SyncRecord
      BY <1>4, <1>7 DEF SyncRecord
    <3>2. WellAimed([Passed(s, sync[s].cur) EXCEPT !.wr[sync[s].cur] = sync[s].verdict])
      BY <1>4 DEF SyncRecord, Passed, WellAimed
    <3>3. QED
      BY <1>1, <1>2, <1>3, <1>5, <1>7, <2>1, <2>4, <3>1, <3>2 DEF SyncWrite
  <2>5. CASE SyncClaim(s)
    <3> DEFINE won == [sync[s] EXCEPT !.pc = "collect", !.wr[sync[s].cur] = sync[s].verdict]
    <3>1. WellAimed(sync[s]) /\ sync[s].pc = "claim"
      BY <2>5 DEF SyncClaim, SyncShape
    <3>2. won \in SyncRecord /\ WellAimed(won)
      BY <1>4, <3>1 DEF SyncRecord, WellAimed
    <3>3. Becomes(s, won) \/ Becomes(s, Passed(s, sync[s].cur))
      BY <2>5 DEF SyncClaim
    <3> HIDE DEF won
    <3>4. SyncTypeOK' /\ SyncShape'
      BY <1>5, <1>7, <3>2, <3>3
    <3>5. QED
      BY <1>1, <1>2, <1>3, <2>1, <3>4
  <2>6. ASSUME NEW sent \in BOOLEAN, SyncCollect(s, sent) PROVE SyncTypeOK' /\ SyncShape'
    <3> DEFINE r == sync[s].cur
    <3>1. PICK missing \in BOOLEAN :
            Becomes(s, [Passed(s, r) EXCEPT
              !.wr[r] = FinalStatus(sync[s].verdict, missing),
              !.note = IF Notified(FinalStatus(sync[s].verdict, missing)) /\ sent
                       THEN @ \cup {r} ELSE @])
      BY <2>6 DEF SyncCollect
    <3>2. r \in Runs /\ FinalStatus(sync[s].verdict, missing) \in Status
      BY <2>6 DEF SyncCollect, SyncShape, WellAimed, FinalStatus, Status, Terminal, Outcomes
    <3> HIDE DEF r
    <3> DEFINE rec == [Passed(s, r) EXCEPT
              !.wr[r] = FinalStatus(sync[s].verdict, missing),
              !.note = IF Notified(FinalStatus(sync[s].verdict, missing)) /\ sent
                       THEN @ \cup {r} ELSE @]
    <3>3. rec \in SyncRecord /\ WellAimed(rec)
      BY <1>4, <3>2 DEF SyncRecord, Passed, WellAimed
    <3> HIDE DEF rec
    <3>4. QED
      BY <1>5, <3>1, <3>3 DEF rec
  <2>7. CASE SyncSkip(s)
    <3> DEFINE undone == [Passed(s, sync[s].cur) EXCEPT !.wr[sync[s].cur] = None]
    <3>1. undone \in SyncRecord /\ WellAimed(undone)
      BY <1>4 DEF SyncRecord, Passed, WellAimed
    <3>2. Becomes(s, undone) \/ \E r \in sync[s].todo : Becomes(s, Passed(s, r))
      BY <2>7 DEF SyncSkip
    <3> HIDE DEF undone
    <3>3. SyncTypeOK' /\ SyncShape'
      BY <1>5, <1>7, <3>1, <3>2
    <3>4. QED
      BY <1>1, <1>2, <1>3, <2>1, <3>3
  <2>8. CASE SyncDeadlockVictim(s) \/ SyncAbort(s)
    BY <1>1, <1>2, <1>3, <1>5, <1>6, <1>7, <2>1, <2>8 DEF SyncDeadlockVictim, SyncAbort
  <2>9. QED
    BY <1>1, <1>2, <1>3, <1>9, <2>1, <2>2, <2>3, <2>4, <2>5, <2>6, <2>7, <2>8
    DEF SyncerStep
<1>10. QED
  BY <1>8, <1>9 DEF SyncerStep

LEMMA TypeScheduler ==
  ASSUME TypeInv, NEW r \in Runs, SchedulerStep(r)
  PROVE  TypeInv'
<1> USE DEF TypeInv, TypeOK
<1>1. storeVars' = storeVars /\ tx' = tx /\ sync' = sync /\ cancelVars' = cancelVars
  BY DEF SchedulerStep
<1>2. StoreTypeOK' /\ TxTypeOK' /\ SyncTypeOK' /\ SyncShape'
  BY <1>1 DEF storeVars, StoreTypeOK, TxTypeOK, SyncTypeOK, SyncShape
<1>3. ASSUME NEW st \in {"lost"} \cup LiveStates \cup DoneStates, SetState(r, st)
      PROVE  JobsTypeOK'
  BY <1>3 DEF SetState, JobsTypeOK, JobRecord
<1>4. JobsTypeOK'
  BY <1>3 DEF SchedulerStep, JobStep, JobStarts, JobRequeued, JobExits, JobPreempted,
              JobForgotten, LiveStates, DoneStates
<1>5. faults' \in 0..MaxFaults
  BY BudgetAssumption DEF SchedulerStep, Fault, NoFault
<1>6. QED
  BY <1>1, <1>2, <1>4, <1>5 DEF cancelVars

LEMMA TypeRestart == TypeInv /\ Restart => TypeInv'
<1> SUFFICES ASSUME TypeInv, Restart PROVE TypeInv'
  OBVIOUS
<1> USE DEF TypeInv, TypeOK
<1>1. StoreTypeOK'
  BY DEF Restart, storeVars, StoreTypeOK
<1>2. JobsTypeOK'
  BY DEF Restart, JobsAfterRestart, JobsTypeOK, JobRecord
<1>3. TxTypeOK'
  BY DEF Restart, TxTypeOK, TxRecord, Ended
<1>4. SyncTypeOK' /\ SyncShape'
  BY DEF Restart, SyncTypeOK, SyncShape, SyncRecord, IdleSync, Nothing, WellAimed
<1>5. QED
  BY <1>1, <1>2, <1>3, <1>4, BudgetAssumption DEF Restart, Fault

LEMMA TypeStep == TypeInv /\ [Next]_vars => TypeInv'
<1> SUFFICES ASSUME TypeInv, [Next]_vars PROVE TypeInv'
  OBVIOUS
<1>1. CASE UNCHANGED vars
  BY <1>1 DEF vars, TypeInv, TypeOK, SyncShape, StoreTypeOK, JobsTypeOK, TxTypeOK, SyncTypeOK
<1>2. CASE Next
  BY <1>2, TypeSubmission, TypeCancel, TypeScheduler, TypeSyncer, TypeRestart DEF Next
<1>3. QED
  BY <1>1, <1>2

(* Type correctness of the composed system: every step of a request, a     *)
(* cancellation, a syncer or the scheduler, and every restart, leaves rows,*)
(* transactions and jobs in their domains.                                 *)
THEOREM TypeCorrect == Spec => [](TypeOK /\ SyncShape)
<1>1. Spec => []TypeInv
  BY TypeInit, TypeStep, PTL DEF Spec
<1>2. QED
  BY <1>1, PTL DEF TypeInv

-----------------------------------------------------------------------------
(* The inductive invariant, whatever the number of syncers and faults.     *)

(* A request that has committed is exactly a run that exists, and the run's*)
(* row is the request's; a rerun names a run that exists.                  *)
RowsAreRequests ==
  \A q \in Runs :
    /\ tx[q].pc = "committed" <=> Exists(q)
    /\ Exists(q) => /\ run[q].project = tx[q].project
                    /\ run[q].plan = tx[q].plan
                    /\ run[q].source = tx[q].source
    /\ tx[q].endpoint = "create_run" => tx[q].source = None
    /\ tx[q].endpoint = "rerun" =>
         /\ tx[q].source \in Runs
         /\ Exists(tx[q].source)
         /\ run[tx[q].source].project = tx[q].project
    /\ tx[q].pc # "new" => tx[q].endpoint \in Endpoints

(* A key is held by at most one request, and only while it has no row; its *)
(* row names the one committed request that sent it.                       *)
KeysHaveOneOwner ==
  \A k \in Keys :
    /\ \A p, q \in Runs : HoldsKey(p, k) /\ HoldsKey(q, k) => p = q
    /\ \A q \in Runs : HoldsKey(q, k) => idem[k] = AbsentKey
    /\ idem[k] # AbsentKey =>
         /\ idem[k].run \in Runs
         /\ tx[idem[k].run].pc = "committed"
         /\ tx[idem[k].run].key = k
         /\ tx[idem[k].run].endpoint = idem[k].endpoint
    /\ \A q \in Runs : tx[q].pc = "committed" /\ tx[q].key = k =>
         idem[k].run = q

(* A run row with a job id names a job that was submitted; every run a     *)
(* syncer has to do with has one.                                          *)
RunsHaveJobs ==
  /\ \A r \in Runs :
       /\ tx[r].pc = "accepted" => job[r].st # "none"
       /\ run[r].job => job[r].st # "none" /\ Exists(r)
       /\ run[r].status \in Unfinished => run[r].job
  /\ \A s \in Syncers, r \in Runs :
       (r \in sync[s].todo \/ sync[s].cur = r \/ sync[s].wr[r] # None) => run[r].job

(* A row is locked by at most one syncer, a collector holds the row it     *)
(* collects for, and an outcome is only ever written over an unfinished    *)
(* row, which stays unfinished until the writer ends.                      *)
RowLocks ==
  /\ \A s, t \in Syncers, r \in Runs : HoldsRow(s, r) /\ HoldsRow(t, r) => s = t
  /\ \A s \in Syncers : sync[s].pc = "collect" => sync[s].wr[sync[s].cur] \in Outcomes
  /\ \A s \in Syncers, r \in Runs :
       sync[s].wr[r] \in Terminal => /\ sync[s].wr[r] \in Outcomes
                                     /\ run[r].status \in Unfinished

History == RowsAreRequests /\ KeysHaveOneOwner /\ ReplaysAreFaithful

Locking == RunsHaveJobs /\ RowLocks

-----------------------------------------------------------------------------
(* A request moves on: it holds the key it held, one it has just been      *)
(* given, or none.                                                         *)
LEMMA RequestMoves ==
  ASSUME TypeInv, History, NEW q \in Runs, NEW pc \in Working \cup Ended,
         tx[q].pc \in Working,
         pc \notin {"committed", "replayed"},
         Goto(q, pc), run' = run, idem' = idem,
         \A k \in Keys : HoldsKey(q, k)' =>
           \/ HoldsKey(q, k)
           \/ idem[k] = AbsentKey /\ \A o \in Runs : ~HoldsKey(o, k)
  PROVE  History'
<1>1. ASSUME NEW o \in Runs
      PROVE  /\ tx'[o].key = tx[o].key
             /\ tx'[o].endpoint = tx[o].endpoint
             /\ tx'[o].project = tx[o].project
             /\ tx'[o].plan = tx[o].plan
             /\ tx'[o].source = tx[o].source
             /\ tx'[o].reply = tx[o].reply
             /\ tx'[o].pc = IF o = q THEN pc ELSE tx[o].pc
  BY DEF TypeInv, TypeOK, TxTypeOK, TxRecord, Goto
<1>2. ASSUME NEW o \in Runs
      PROVE  /\ tx'[o].pc = "committed" <=> tx[o].pc = "committed"
             /\ tx'[o].pc = "replayed" <=> tx[o].pc = "replayed"
             /\ tx'[o].pc # "new" => tx[o].pc # "new"
  BY <1>1 DEF Working
<1>3. ASSUME NEW o \in Runs, NEW k \in Keys, o # q
      PROVE  HoldsKey(o, k)' <=> HoldsKey(o, k)
  BY <1>1, <1>3 DEF HoldsKey
<1>4. RowsAreRequests'
  <2>1. RowsAreRequests
    BY DEF History
  <2>2. QED
    BY <1>1, <1>2, <2>1 DEF RowsAreRequests, Exists
<1>5. KeysHaveOneOwner'
  <2>0. KeysHaveOneOwner
    BY DEF History
  <2>1. ASSUME NEW k \in Keys, NEW a \in Runs, NEW b \in Runs,
               HoldsKey(a, k)', HoldsKey(b, k)'
        PROVE  a = b
    BY <1>3, <2>0, <2>1 DEF KeysHaveOneOwner
  <2>2. ASSUME NEW k \in Keys, NEW a \in Runs, HoldsKey(a, k)'
        PROVE  idem'[k] = AbsentKey
    BY <1>3, <2>0, <2>2 DEF KeysHaveOneOwner
  <2>3. ASSUME NEW k \in Keys, idem'[k] # AbsentKey
        PROVE  /\ idem'[k].run \in Runs
               /\ tx'[idem'[k].run].pc = "committed"
               /\ tx'[idem'[k].run].key = k
               /\ tx'[idem'[k].run].endpoint = idem'[k].endpoint
    BY <1>1, <1>2, <2>0, <2>3 DEF KeysHaveOneOwner
  <2>4. ASSUME NEW k \in Keys, NEW a \in Runs, tx'[a].pc = "committed", tx'[a].key = k
        PROVE  idem'[k].run = a
    BY <1>1, <1>2, <2>0, <2>4 DEF KeysHaveOneOwner
  <2>5. QED
    BY <2>1, <2>2, <2>3, <2>4 DEF KeysHaveOneOwner, AbsentKey
<1>6. ReplaysAreFaithful'
  <2>1. ReplaysAreFaithful
    BY DEF History
  <2>2. QED
    BY <1>1, <1>2, <2>1 DEF ReplaysAreFaithful, Exists
<1>7. QED
  BY <1>4, <1>5, <1>6 DEF History

(* A request arrives: it starts over a key nobody has used, or is told of  *)
(* the run the key names.                                                  *)
LEMMA RequestArrives ==
  ASSUME TypeInv, History, NEW q \in Runs, Receive(q), run' = run, idem' = idem
  PROVE  History'
<1>1. PICK m \in Creations \cup Reruns, pc \in {"lock", "reserve", "replayed", "conflict"},
           reply \in Runs \cup {None} :
        /\ Accepting(q, m, pc, reply)
        /\ pc = "lock" => m.key = None
        /\ pc = "replayed" => /\ m.key \in Keys
                              /\ idem[m.key] # AbsentKey
                              /\ SameRequest(m)
                              /\ reply = idem[m.key].run
  <2>1. ASSUME NEW m \in Creations \cup Reruns, m.key # None
        PROVE  m.key \in Keys /\ idem[m.key].run \in Runs \cup {None}
    BY <2>1 DEF Creations, Reruns, TypeInv, TypeOK, StoreTypeOK, KeyRow
  <2>2. QED
    BY <2>1 DEF Receive
<1>2. /\ m.endpoint \in Endpoints
      /\ m.key \in Keys \cup {None}
      /\ m.endpoint = "create_run" => m.source = None
      /\ m.endpoint = "rerun" => /\ m.source \in Runs
                                 /\ Exists(m.source)
                                 /\ m.project = run[m.source].project
  BY DEF Creations, Reruns, Endpoints
<1>3. /\ tx'[q].pc = pc
      /\ tx'[q].key = m.key
      /\ tx'[q].endpoint = m.endpoint
      /\ tx'[q].project = m.project
      /\ tx'[q].source = m.source
      /\ tx'[q].reply = reply
      /\ \A o \in Runs \ {q} : tx'[o] = tx[o]
  BY <1>1 DEF Accepting, TypeInv, TypeOK, TxTypeOK
<1>4. tx[q].pc = "new"
  BY DEF Receive
<1>5. ASSUME NEW o \in Runs, NEW k \in Keys
      PROVE  HoldsKey(o, k)' => o # q /\ HoldsKey(o, k)
  BY <1>1, <1>2, <1>3, NoneAssumption DEF HoldsKey
<1>6. RowsAreRequests'
  <2>1. RowsAreRequests
    BY DEF History
  <2>2. QED
    BY <1>2, <1>3, <1>4, <2>1 DEF RowsAreRequests, Exists
<1>7. KeysHaveOneOwner'
  <2>0. KeysHaveOneOwner
    BY DEF History
  <2>1. ASSUME NEW k \in Keys, NEW a \in Runs, NEW b \in Runs,
               HoldsKey(a, k)', HoldsKey(b, k)'
        PROVE  a = b
    BY <1>5, <2>0, <2>1 DEF KeysHaveOneOwner
  <2>2. ASSUME NEW k \in Keys, NEW a \in Runs, HoldsKey(a, k)'
        PROVE  idem'[k] = AbsentKey
    BY <1>5, <2>0, <2>2 DEF KeysHaveOneOwner
  <2>3. ASSUME NEW k \in Keys, idem'[k] # AbsentKey
        PROVE  /\ idem'[k].run \in Runs
               /\ tx'[idem'[k].run].pc = "committed"
               /\ tx'[idem'[k].run].key = k
               /\ tx'[idem'[k].run].endpoint = idem'[k].endpoint
    <3>1. idem[k].run # q
      BY <1>4, <2>0, <2>3 DEF KeysHaveOneOwner
    <3>2. QED
      BY <1>3, <2>0, <2>3, <3>1 DEF KeysHaveOneOwner
  <2>4. ASSUME NEW k \in Keys, NEW a \in Runs, tx'[a].pc = "committed", tx'[a].key = k
        PROVE  idem'[k].run = a
    BY <1>3, <2>0, <2>4 DEF KeysHaveOneOwner
  <2>5. QED
    BY <2>1, <2>2, <2>3, <2>4 DEF KeysHaveOneOwner, AbsentKey
<1>8. ASSUME NEW o \in Runs, tx'[o].pc = "replayed"
      PROVE  LET r == tx'[o].reply IN
             /\ r \in Runs
             /\ run'[r].status # "absent"
             /\ tx'[r].key = tx'[o].key
             /\ tx'[r].endpoint = tx'[o].endpoint
             /\ tx'[r].project = tx'[o].project
             /\ tx'[r].source = tx'[o].source
  <2>1. RowsAreRequests /\ KeysHaveOneOwner /\ ReplaysAreFaithful
    BY DEF History
  <2>2. CASE o # q
    <3>1. tx[o].reply \in Runs /\ Exists(tx[o].reply) /\ tx[o].pc = "replayed"
      BY <1>3, <1>8, <2>1, <2>2 DEF ReplaysAreFaithful
    <3>2. tx[o].reply # q
      BY <1>4, <2>1, <3>1 DEF RowsAreRequests
    <3>3. QED
      BY <1>3, <2>1, <2>2, <3>1, <3>2 DEF ReplaysAreFaithful, Exists
  <2>3. CASE o = q
    <3> DEFINE r == idem[m.key].run
    <3>1. /\ m.key \in Keys
          /\ SameRequest(m)
          /\ reply = r
          /\ idem[m.key] # AbsentKey
      BY <1>1, <1>3, <1>8, <2>3
    <3>2. /\ r \in Runs
          /\ tx[r].pc = "committed"
          /\ tx[r].key = m.key
          /\ tx[r].endpoint = idem[m.key].endpoint
      BY <2>1, <3>1 DEF KeysHaveOneOwner
    <3>3. r # q /\ Exists(r)
      BY <1>4, <2>1, <3>2 DEF RowsAreRequests
    <3>4. /\ tx[r].endpoint = m.endpoint
          /\ m.endpoint = "create_run" => run[r].project = m.project
          /\ m.endpoint = "rerun" => run[r].source = m.source
      BY <3>1, <3>2 DEF SameRequest
    <3> HIDE DEF r
    <3>5. tx[r].project = m.project /\ tx[r].source = m.source
      <4>1. CASE m.endpoint = "create_run"
        BY <1>2, <2>1, <3>2, <3>3, <3>4, <4>1 DEF RowsAreRequests
      <4>2. CASE m.endpoint = "rerun"
        BY <1>2, <2>1, <3>2, <3>3, <3>4, <4>2 DEF RowsAreRequests
      <4>3. QED
        BY <1>2, <4>1, <4>2 DEF Endpoints
    <3>6. QED
      BY <1>3, <2>3, <3>1, <3>2, <3>3, <3>4, <3>5 DEF Exists, r
  <2>4. QED
    BY <2>2, <2>3
<1>9. ReplaysAreFaithful'
  BY <1>8 DEF ReplaysAreFaithful, Exists
<1>10. QED
  BY <1>6, <1>7, <1>9 DEF History

(* A request commits: its run and its key appear together.                 *)
LEMMA RequestCommits ==
  ASSUME TypeInv, History, NEW q \in Runs, NEW sent \in BOOLEAN, Commit(q, sent)
  PROVE  History'
<1>1. /\ RowsAreRequests
      /\ KeysHaveOneOwner
      /\ ReplaysAreFaithful
      /\ tx[q].pc \in {"accepted", "rejected"}
  BY DEF History, Commit
<1>2. ASSUME NEW o \in Runs
      PROVE  /\ tx'[o].key = tx[o].key
             /\ tx'[o].endpoint = tx[o].endpoint
             /\ tx'[o].project = tx[o].project
             /\ tx'[o].plan = tx[o].plan
             /\ tx'[o].source = tx[o].source
             /\ tx'[o].reply = IF o = q THEN q ELSE tx[o].reply
             /\ tx'[o].pc = IF o = q THEN "committed" ELSE tx[o].pc
  <2>1. tx' = [tx EXCEPT ![q].pc = "committed", ![q].reply = q]
    BY DEF Commit
  <2>2. QED
    BY <2>1 DEF TypeInv, TypeOK, TxTypeOK, TxRecord
<1>3. /\ Exists(q)'
      /\ ~Exists(q)
      /\ run'[q].project = tx[q].project
      /\ run'[q].plan = tx[q].plan
      /\ run'[q].source = tx[q].source
  BY <1>1 DEF Commit, CreatedRow, Exists, RowsAreRequests, TypeInv, TypeOK, StoreTypeOK
<1>4. \A o \in Runs \ {q} : run'[o] = run[o]
  BY DEF Commit, TypeInv, TypeOK, StoreTypeOK
<1>5. \A k \in Keys : idem'[k] = IF k = tx[q].key
                                 THEN [endpoint |-> tx[q].endpoint, run |-> q]
                                 ELSE idem[k]
  BY DEF Commit
<1>6. RowsAreRequests'
  <2>1. ASSUME NEW o \in Runs
        PROVE  /\ tx'[o].pc = "committed" <=> Exists(o)'
               /\ Exists(o)' => /\ run'[o].project = tx'[o].project
                                /\ run'[o].plan = tx'[o].plan
                                /\ run'[o].source = tx'[o].source
               /\ tx'[o].endpoint = "create_run" => tx'[o].source = None
               /\ tx'[o].pc # "new" => tx'[o].endpoint \in Endpoints
    BY <1>1, <1>2, <1>3, <1>4 DEF RowsAreRequests, Exists
  <2>2. ASSUME NEW o \in Runs, tx'[o].endpoint = "rerun"
        PROVE  /\ tx'[o].source \in Runs
               /\ run'[tx'[o].source].status # "absent"
               /\ run'[tx'[o].source].project = tx'[o].project
    <3>1. /\ tx[o].source \in Runs
          /\ Exists(tx[o].source)
          /\ run[tx[o].source].project = tx[o].project
      BY <1>1, <1>2, <2>2 DEF RowsAreRequests
    <3>2. tx[o].source # q
      BY <1>3, <3>1
    <3>3. QED
      BY <1>2, <1>4, <3>1, <3>2 DEF Exists
  <2>3. QED
    BY <2>1, <2>2 DEF RowsAreRequests, Exists
<1>7. ASSUME NEW o \in Runs, NEW k \in Keys, HoldsKey(o, k)'
      PROVE  o # q /\ HoldsKey(o, k) /\ tx[q].key # k
  <2>1. o # q /\ HoldsKey(o, k)
    BY <1>2, <1>7 DEF HoldsKey
  <2>2. tx[q].key = k => HoldsKey(q, k)
    BY <1>1 DEF HoldsKey
  <2>3. QED
    BY <1>1, <2>1, <2>2 DEF KeysHaveOneOwner
<1>8. KeysHaveOneOwner'
  <2>1. ASSUME NEW k \in Keys, NEW a \in Runs, NEW b \in Runs,
               HoldsKey(a, k)', HoldsKey(b, k)'
        PROVE  a = b
    BY <1>1, <1>7, <2>1 DEF KeysHaveOneOwner
  <2>2. ASSUME NEW k \in Keys, NEW a \in Runs, HoldsKey(a, k)'
        PROVE  idem'[k] = AbsentKey
    BY <1>1, <1>5, <1>7, <2>2 DEF KeysHaveOneOwner
  <2>3. ASSUME NEW k \in Keys, idem'[k] # AbsentKey
        PROVE  /\ idem'[k].run \in Runs
               /\ tx'[idem'[k].run].pc = "committed"
               /\ tx'[idem'[k].run].key = k
               /\ tx'[idem'[k].run].endpoint = idem'[k].endpoint
    <3>1. CASE k = tx[q].key
      BY <1>2, <1>5, <3>1
    <3>2. CASE k # tx[q].key
      BY <1>1, <1>2, <1>5, <2>3, <3>2 DEF KeysHaveOneOwner
    <3>3. QED
      BY <3>1, <3>2
  <2>4. ASSUME NEW k \in Keys, NEW a \in Runs, tx'[a].pc = "committed", tx'[a].key = k
        PROVE  idem'[k].run = a
    <3>1. CASE a = q
      BY <1>2, <1>5, <2>4, <3>1
    <3>2. CASE a # q
      <4>1. tx[a].pc = "committed" /\ tx[a].key = k
        BY <1>2, <2>4, <3>2
      <4>2. idem[k].run = a
        BY <1>1, <4>1 DEF KeysHaveOneOwner
      <4>3. tx[q].key # k
        <5>1. SUFFICES ASSUME tx[q].key = k PROVE FALSE
          OBVIOUS
        <5>2. idem[k] = AbsentKey
          BY <1>1, <5>1 DEF KeysHaveOneOwner, HoldsKey
        <5>3. QED
          BY <4>2, <5>2, NoneAssumption DEF AbsentKey
      <4>4. QED
        BY <1>5, <4>2, <4>3
    <3>3. QED
      BY <3>1, <3>2
  <2>5. QED
    BY <2>1, <2>2, <2>3, <2>4 DEF KeysHaveOneOwner, AbsentKey
<1>9. ReplaysAreFaithful'
  <2>1. ASSUME NEW o \in Runs, tx'[o].pc = "replayed"
        PROVE  /\ o # q
               /\ tx[o].pc = "replayed"
               /\ tx[o].reply \in Runs
               /\ Exists(tx[o].reply)
               /\ tx[o].reply # q
    BY <1>1, <1>2, <1>3, <2>1 DEF ReplaysAreFaithful
  <2>2. QED
    BY <1>1, <1>2, <1>4, <2>1 DEF ReplaysAreFaithful, Exists
<1>10. QED
  BY <1>6, <1>8, <1>9 DEF History

(* Nothing else disturbs the history: rows keep what requests put there.   *)
LEMMA HistoryKept ==
  ASSUME TypeInv, History, tx' = tx, idem' = idem,
         \A r \in Runs : /\ Exists(r)' <=> Exists(r)
                         /\ run'[r].project = run[r].project
                         /\ run'[r].plan = run[r].plan
                         /\ run'[r].source = run[r].source
  PROVE  History'
<1>1. RowsAreRequests'
  BY DEF History, RowsAreRequests
<1>2. KeysHaveOneOwner'
  BY DEF History, KeysHaveOneOwner, HoldsKey, AbsentKey
<1>3. ReplaysAreFaithful'
  BY DEF History, ReplaysAreFaithful
<1>4. QED
  BY <1>1, <1>2, <1>3 DEF History

-----------------------------------------------------------------------------
(* Row locks and jobs.                                                     *)

(* Requests, cancellations and the scheduler leave the syncers' locks      *)
(* alone; jobs once submitted never become unsubmitted.                    *)
LEMMA LockingKept ==
  ASSUME TypeInv, Locking, sync' = sync,
         NEW q \in Runs,
         \A r \in Runs : job[r].st # "none" => job'[r].st # "none",
         \A r \in Runs : tx'[r].pc = "accepted" => job'[r].st # "none",
         \A r \in Runs : run'[r] = run[r] \/ (r = q /\ ~Exists(q)),
         run'[q].job => job'[q].st # "none" /\ Exists(q)',
         run'[q].status \in Unfinished => run'[q].job
  PROVE  Locking'
<1>1. RunsHaveJobs /\ RowLocks
  BY DEF Locking
<1>2. RunsHaveJobs'
  <2>1. ASSUME NEW r \in Runs
        PROVE  /\ run'[r].job => job'[r].st # "none" /\ Exists(r)'
               /\ run'[r].status \in Unfinished => run'[r].job
               /\ run[r].job => run'[r].job
    BY <1>1 DEF RunsHaveJobs, Exists
  <2>2. QED
    BY <1>1, <2>1 DEF RunsHaveJobs, Unfinished
<1>3. RowLocks'
  <2>1. ASSUME NEW r \in Runs, run[r].status \in Unfinished
        PROVE  run'[r].status \in Unfinished
    BY <2>1 DEF Exists, Unfinished
  <2>2. QED
    BY <1>1, <2>1 DEF RowLocks, HoldsRow, Terminal, Outcomes, Unfinished
<1>4. QED
  BY <1>2, <1>3 DEF Locking

(* A syncer's own step: it only goes on to rows with jobs, only takes row  *)
(* locks that are free, and only writes outcomes over unfinished rows.     *)
LEMMA SyncerMoves ==
  ASSUME TypeInv, Locking, NEW s \in Syncers, NEW rec \in SyncRecord,
         Becomes(s, rec), UNCHANGED <<run, job, tx>>,
         \A r \in Runs : (r \in rec.todo \/ rec.cur = r \/ rec.wr[r] # None)
                           => run[r].job,
         \A r \in Runs : rec.wr[r] # None => HoldsRow(s, r) \/ RowFree(s, r),
         rec.pc = "collect" => rec.wr[rec.cur] \in Outcomes,
         \A r \in Runs : rec.wr[r] \in Terminal =>
           rec.wr[r] \in Outcomes /\ run[r].status \in Unfinished
  PROVE  Locking'
<1>1. RunsHaveJobs /\ RowLocks
  BY DEF Locking
<1>2. sync'[s] = rec /\ \A t \in Syncers \ {s} : sync'[t] = sync[t]
  BY DEF Becomes, TypeInv, TypeOK, SyncTypeOK
<1>3. RunsHaveJobs'
  BY <1>1, <1>2 DEF RunsHaveJobs, Exists
<1>4. ASSUME NEW t \in Syncers, NEW u \in Syncers, NEW r \in Runs,
             HoldsRow(t, r)', HoldsRow(u, r)', t # u
      PROVE  FALSE
  <2>1. ASSUME NEW v \in Syncers, v # s, HoldsRow(v, r), HoldsRow(s, r)' PROVE FALSE
    BY <1>1, <1>2, <2>1 DEF RowLocks, HoldsRow, RowFree
  <2>2. QED
    BY <1>1, <1>2, <1>4, <2>1 DEF RowLocks, HoldsRow
<1>5. RowLocks'
  BY <1>1, <1>2, <1>4 DEF RowLocks, Terminal, Outcomes, Unfinished
<1>6. QED
  BY <1>3, <1>5 DEF Locking

LEMMA LockingSyncer ==
  ASSUME TypeInv, Locking, NEW s \in Syncers, SyncerStep(s), UNCHANGED storeVars
  PROVE  Locking'
<1>1. RunsHaveJobs /\ RowLocks
  BY DEF Locking
<1>2. UNCHANGED <<run, job, tx>>
  BY DEF SyncerStep, storeVars
<1>3. sync[s] \in SyncRecord /\ WellAimed(sync[s])
  BY DEF TypeInv, TypeOK, SyncTypeOK, SyncShape
<1>4. ASSUME NEW r \in Runs
      PROVE  /\ (r \in sync[s].todo \/ sync[s].cur = r \/ sync[s].wr[r] # None)
                   => run[r].job
             /\ sync[s].wr[r] \in Terminal =>
                  sync[s].wr[r] \in Outcomes /\ run[r].status \in Unfinished
  BY <1>1 DEF RunsHaveJobs, RowLocks
<1> DEFINE Lighter(rec) ==
             /\ rec \in SyncRecord
             /\ rec.pc # "collect"
             /\ rec.cur = None \/ (rec.cur \in Runs /\ run[rec.cur].job = TRUE)
             /\ \A r \in Runs : r \in rec.todo => run[r].job = TRUE
             /\ \A r \in Runs : rec.wr[r] = sync[s].wr[r] \/ rec.wr[r] = None
<1>5. ASSUME NEW rec, Lighter(rec), Becomes(s, rec)
      PROVE  Locking'
  <2>1. \A r \in Runs : rec.cur = r => run[r].job
    BY <1>5, NoneAssumption
  <2>2. \A r \in Runs : rec.wr[r] # None => run[r].job /\ HoldsRow(s, r)
    BY <1>4, <1>5 DEF HoldsRow
  <2>3. \A r \in Runs : rec.wr[r] \in Terminal =>
          rec.wr[r] \in Outcomes /\ run[r].status \in Unfinished
    BY <1>4, <1>5, NoneAssumption DEF Status
  <2>4. QED
    BY <1>2, <1>5, <2>1, <2>2, <2>3, SyncerMoves
<1> HIDE DEF Lighter
<1>6. ASSUME NEW r
      PROVE  /\ Passed(s, r) \in SyncRecord
             /\ Passed(s, r).pc = "scan"
             /\ Passed(s, r).cur = None
             /\ Passed(s, r).wr = sync[s].wr
             /\ Passed(s, r).todo \subseteq sync[s].todo
  BY <1>3 DEF Passed, SyncRecord
<1>7. ASSUME NEW r, Becomes(s, Passed(s, r)) PROVE Locking'
  <2>1. Lighter(Passed(s, r))
    BY <1>4, <1>6 DEF Lighter
  <2>2. QED
    BY <1>5, <1>7, <2>1
<1>8. IdleSync \in SyncRecord /\ IdleSync.pc = "idle" /\ IdleSync.cur = None
      /\ \A r \in Runs : r \notin IdleSync.todo /\ IdleSync.wr[r] = None
  BY DEF IdleSync, SyncRecord, Nothing
<1>idle. Becomes(s, IdleSync) => Locking'
  <2>1. Lighter(IdleSync)
    BY <1>8 DEF Lighter
  <2>2. QED
    BY <1>5, <2>1
<1>9. CASE SyncStart(s)
  <2> DEFINE rec == [IdleSync EXCEPT !.pc = "scan",
                       !.todo = {r \in Runs : Listed(r)}]
  <2>1. /\ rec \in SyncRecord
        /\ rec.pc = "scan"
        /\ rec.cur = None
        /\ \A r \in Runs : /\ r \in rec.todo => run[r].status \in Unfinished
                           /\ rec.wr[r] = None
    BY DEF IdleSync, SyncRecord, Nothing, Listed, Unfinished
  <2>2. Becomes(s, rec)
    BY <1>9 DEF SyncStart
  <2> HIDE DEF rec
  <2>3. QED
    <3>1. Lighter(rec)
      BY <1>1, <2>1 DEF RunsHaveJobs, Lighter
    <3>2. QED
      BY <1>5, <2>2, <3>1
<1>10. ASSUME NEW r \in Runs, SyncPoll(s, r) PROVE Locking'
  <2>1. CASE run[r].status \notin Unfinished
    BY <1>7, <1>10, <2>1 DEF SyncPoll
  <2>2. CASE run[r].status \in Unfinished
    <3> DEFINE v   == Verdict(r)
               nxt == IF v \in Terminal THEN "claim" ELSE "write"
               rec == [sync[s] EXCEPT !.pc = nxt, !.cur = r, !.verdict = v]
    <3>1. /\ r \in sync[s].todo
          /\ Becomes(s, rec)
      BY <1>10, <2>2 DEF SyncPoll
    <3>2. v \in Status
      BY <2>2, VerdictIsMapped DEF Status, Terminal
    <3>3. nxt \in {"claim", "write"}
      OBVIOUS
    <3> HIDE DEF v, nxt
    <3>4. /\ rec \in SyncRecord
          /\ rec.cur = r
          /\ rec.pc = nxt
          /\ rec.todo = sync[s].todo
          /\ rec.wr = sync[s].wr
      BY <1>3, <3>2, <3>3 DEF SyncRecord
    <3> HIDE DEF rec
    <3>5. QED
      <4>1. Lighter(rec)
        BY <1>4, <3>1, <3>3, <3>4 DEF Lighter
      <4>2. QED
        BY <1>5, <3>1, <4>1
  <2>3. QED
    BY <2>1, <2>2
<1>11. CASE SyncWrite(s)
  <2>1. CASE run[sync[s].cur].status = sync[s].verdict
    BY <1>7, <1>11, <2>1 DEF SyncWrite
  <2>2. CASE run[sync[s].cur].status # sync[s].verdict
    <3> DEFINE r == sync[s].cur
               rec == [Passed(s, r) EXCEPT !.wr[r] = sync[s].verdict]
    <3>1. /\ r \in Runs
          /\ sync[s].verdict \in Unfinished
          /\ RowFree(s, r)
          /\ Becomes(s, rec)
      BY <1>3, <1>11, <2>2 DEF SyncWrite, WellAimed
    <3>2. /\ rec \in SyncRecord
          /\ rec.pc = "scan"
          /\ rec.cur = None
          /\ rec.todo = Passed(s, r).todo
          /\ \A x \in Runs : rec.wr[x] = IF x = r THEN sync[s].verdict ELSE sync[s].wr[x]
      BY <1>6, <3>1 DEF SyncRecord, Status
    <3>3. run[r].job
      BY <1>4, <3>1
    <3> HIDE DEF r, rec
    <3>4. \A x \in Runs : (x \in rec.todo \/ rec.cur = x \/ rec.wr[x] # None) => run[x].job
      BY <1>4, <1>6, <3>2, <3>3, NoneAssumption
    <3>5. \A x \in Runs : rec.wr[x] # None => HoldsRow(s, x) \/ RowFree(s, x)
      BY <3>1, <3>2 DEF HoldsRow
    <3>6. \A x \in Runs : rec.wr[x] \in Terminal =>
            rec.wr[x] \in Outcomes /\ run[x].status \in Unfinished
      BY <1>4, <3>1, <3>2 DEF Terminal, Outcomes, Unfinished
    <3>7. QED
      BY <1>2, <3>1, <3>2, <3>4, <3>5, <3>6, SyncerMoves
  <2>3. QED
    BY <2>1, <2>2
<1>12. CASE SyncClaim(s)
  <2> DEFINE r == sync[s].cur
             rec == [sync[s] EXCEPT !.pc = "collect", !.wr[r] = sync[s].verdict]
  <2>1. CASE Becomes(s, Passed(s, r))
    BY <1>7, <2>1
  <2>2. CASE ~Becomes(s, Passed(s, r))
    <3>1. /\ r \in Runs
          /\ sync[s].verdict \in Outcomes
          /\ RowFree(s, r)
          /\ run[r].status \in Unfinished
          /\ Becomes(s, rec)
      BY <1>3, <1>12, <2>2 DEF SyncClaim, WellAimed, Claimable
    <3>2. /\ rec \in SyncRecord
          /\ rec.pc = "collect"
          /\ rec.cur = r
          /\ rec.todo = sync[s].todo
          /\ \A x \in Runs : rec.wr[x] = IF x = r THEN sync[s].verdict ELSE sync[s].wr[x]
      BY <1>3, <3>1 DEF SyncRecord, Status, Terminal
    <3>3. run[r].job
      BY <1>4, <3>1
    <3> HIDE DEF r, rec
    <3>4. \A x \in Runs : (x \in rec.todo \/ rec.cur = x \/ rec.wr[x] # None) => run[x].job
      BY <1>4, <3>2, <3>3
    <3>5. \A x \in Runs : rec.wr[x] # None => HoldsRow(s, x) \/ RowFree(s, x)
      BY <3>1, <3>2 DEF HoldsRow
    <3>6. \A x \in Runs : rec.wr[x] \in Terminal =>
            rec.wr[x] \in Outcomes /\ run[x].status \in Unfinished
      BY <1>4, <3>1, <3>2
    <3>7. QED
      BY <1>2, <3>1, <3>2, <3>4, <3>5, <3>6, SyncerMoves
  <2>3. QED
    BY <2>1, <2>2
<1>13. ASSUME NEW sent \in BOOLEAN, SyncCollect(s, sent) PROVE Locking'
  <2> DEFINE r == sync[s].cur
  <2>1. PICK missing \in BOOLEAN :
          Becomes(s, [Passed(s, r) EXCEPT
            !.wr[r] = FinalStatus(sync[s].verdict, missing),
            !.note = IF Notified(FinalStatus(sync[s].verdict, missing)) /\ sent
                     THEN @ \cup {r} ELSE @])
    BY <1>13 DEF SyncCollect
  <2> DEFINE fin == FinalStatus(sync[s].verdict, missing)
             rec == [Passed(s, r) EXCEPT
                      !.wr[r] = fin,
                      !.note = IF Notified(fin) /\ sent THEN @ \cup {r} ELSE @]
  <2>2. /\ r \in Runs
        /\ fin \in Outcomes
        /\ sync[s].wr[r] \in Outcomes
    BY <1>1, <1>3, <1>13 DEF SyncCollect, WellAimed, FinalStatus, Outcomes, RowLocks
  <2>3. Becomes(s, rec)
    BY <2>1
  <2> HIDE DEF fin
  <2>4. /\ rec \in SyncRecord
        /\ rec.pc = "scan"
        /\ rec.cur = None
        /\ rec.todo = Passed(s, r).todo
        /\ \A x \in Runs : rec.wr[x] = IF x = r THEN fin ELSE sync[s].wr[x]
    <3>1. Passed(s, r).wr = sync[s].wr /\ Passed(s, r).cur = None /\ Passed(s, r).pc = "scan"
      BY <1>6
    <3>2. QED
      BY <1>6, <2>2, <3>1 DEF SyncRecord, Status, Terminal
  <2>5. HoldsRow(s, r) /\ run[r].status \in Unfinished /\ run[r].job
    BY <1>4, <2>2, NoneAssumption DEF HoldsRow, Terminal, Status
  <2> HIDE DEF r, rec
  <2>6. \A x \in Runs : (x \in rec.todo \/ rec.cur = x \/ rec.wr[x] # None) => run[x].job
    BY <1>4, <1>6, <2>4, <2>5, NoneAssumption
  <2>7. \A x \in Runs : rec.wr[x] # None => HoldsRow(s, x) \/ RowFree(s, x)
    BY <2>4, <2>5 DEF HoldsRow
  <2>8. \A x \in Runs : rec.wr[x] \in Terminal =>
          rec.wr[x] \in Outcomes /\ run[x].status \in Unfinished
    BY <1>4, <2>2, <2>4, <2>5
  <2>9. QED
    BY <1>2, <2>3, <2>4, <2>6, <2>7, <2>8, SyncerMoves
<1>14. CASE SyncSkip(s)
  <2> DEFINE r == sync[s].cur
             rec == [Passed(s, r) EXCEPT !.wr[r] = None]
  <2>1. CASE \E x \in sync[s].todo : Becomes(s, Passed(s, x))
    BY <1>7, <2>1
  <2>2. CASE Becomes(s, rec)
    <3>1. /\ rec \in SyncRecord
          /\ rec.pc = "scan"
          /\ rec.cur = None
          /\ rec.todo = Passed(s, r).todo
          /\ \A x \in Runs : rec.wr[x] \in {sync[s].wr[x], None}
      BY <1>6 DEF SyncRecord
    <3> HIDE DEF r, rec
    <3>2. QED
      <4>1. Lighter(rec)
        BY <1>4, <1>6, <3>1 DEF Lighter
      <4>2. QED
        BY <1>5, <2>2, <4>1
  <2>3. QED
    BY <1>14, <2>1, <2>2 DEF SyncSkip
<1>15. CASE SyncDeadlockVictim(s) \/ SyncAbort(s)
  BY <1>7, <1>idle, <1>15 DEF SyncDeadlockVictim, SyncAbort
<1>16. CASE SyncCommit(s)
  <2>1. Becomes(s, IdleSync)
    BY <1>16 DEF SyncCommit
  <2>2. QED
    BY <1>idle, <2>1
<1>17. QED
  BY <1>9, <1>10, <1>11, <1>12, <1>13, <1>14, <1>15, <1>16 DEF SyncerStep

LEMMA SyncerCommits ==
  ASSUME TypeInv, History, Locking, NEW s \in Syncers, SyncCommit(s), job' = job, tx' = tx
  PROVE  History' /\ Locking'
<1>1. RunsHaveJobs /\ RowLocks
  BY DEF Locking
<1>2. sync[s] \in SyncRecord
  BY DEF TypeInv, TypeOK, SyncTypeOK
<1>3. ASSUME NEW r \in Runs
      PROVE  /\ run'[r].job = run[r].job
             /\ run'[r].project = run[r].project
             /\ run'[r].plan = run[r].plan
             /\ run'[r].source = run[r].source
             /\ run'[r].status = IF HoldsRow(s, r) THEN sync[s].wr[r] ELSE run[r].status
  <2>1. run[r] \in RunRow
    BY DEF TypeInv, TypeOK, StoreTypeOK
  <2>2. run'[r] = IF HoldsRow(s, r) THEN [run[r] EXCEPT !.status = sync[s].wr[r]] ELSE run[r]
    BY DEF SyncCommit
  <2>3. QED
    BY <2>1, <2>2 DEF RunRow
<1>4. ASSUME NEW r \in Runs, HoldsRow(s, r)
      PROVE  run[r].job /\ Exists(r) /\ run'[r].status \in Status
  BY <1>1, <1>2, <1>3, <1>4 DEF RunsHaveJobs, HoldsRow, SyncRecord
<1>5. ASSUME NEW r \in Runs PROVE Exists(r)' <=> Exists(r)
  BY <1>3, <1>4 DEF Exists, Status, Unfinished, Terminal, Outcomes
<1>6. History'
  BY <1>3, <1>5, HistoryKept DEF SyncCommit
<1>7. /\ \A r \in Runs : r \notin sync'[s].todo /\ sync'[s].wr[r] = None
      /\ sync'[s].cur = None /\ sync'[s].pc = "idle"
      /\ \A t \in Syncers \ {s} : sync'[t] = sync[t]
  BY DEF SyncCommit, Becomes, IdleSync, Nothing, TypeInv, TypeOK, SyncTypeOK
<1>8. RunsHaveJobs'
  <2>1. ASSUME NEW r \in Runs
        PROVE  /\ tx'[r].pc = "accepted" => job'[r].st # "none"
               /\ run'[r].job => job'[r].st # "none" /\ Exists(r)'
               /\ run'[r].status \in Unfinished => run'[r].job
    BY <1>1, <1>3, <1>4, <1>5 DEF RunsHaveJobs
  <2>2. ASSUME NEW t \in Syncers, NEW r \in Runs,
               r \in sync'[t].todo \/ sync'[t].cur = r \/ sync'[t].wr[r] # None
        PROVE  run'[r].job
    BY <1>1, <1>3, <1>7, <2>2, NoneAssumption DEF RunsHaveJobs
  <2>3. QED
    BY <2>1, <2>2 DEF RunsHaveJobs
<1>9. ASSUME NEW t \in Syncers, NEW r \in Runs, sync'[t].wr[r] \in Terminal
      PROVE  sync'[t].wr[r] \in Outcomes /\ run'[r].status \in Unfinished
  <2>1. t # s /\ sync'[t] = sync[t]
    BY <1>7, <1>9, NoneAssumption DEF Status
  <2>2. HoldsRow(t, r)
    BY <1>9, <2>1, NoneAssumption DEF HoldsRow, Status
  <2>3. ~HoldsRow(s, r)
    BY <1>1, <2>1, <2>2 DEF RowLocks
  <2>4. QED
    BY <1>1, <1>3, <1>9, <2>1, <2>3 DEF RowLocks
<1>10. RowLocks'
  <2>1. \A t, u \in Syncers, r \in Runs : HoldsRow(t, r)' /\ HoldsRow(u, r)' => t = u
    BY <1>1, <1>7 DEF RowLocks, HoldsRow
  <2>2. \A t \in Syncers : sync'[t].pc = "collect" => sync'[t].wr[sync'[t].cur] \in Outcomes
    BY <1>1, <1>7 DEF RowLocks
  <2>3. QED
    BY <1>9, <2>1, <2>2 DEF RowLocks, Terminal, Outcomes, Unfinished
<1>11. QED
  BY <1>6, <1>8, <1>10 DEF Locking

-----------------------------------------------------------------------------
(* The invariant is inductive.                                             *)
IInv == TypeInv /\ History /\ Locking

LEMMA InvInit == Init => IInv
<1> SUFFICES ASSUME Init PROVE IInv
  OBVIOUS
<1>1. TypeInv
  BY TypeInit
<1>2. /\ \A q \in Runs : tx[q] = NewTx /\ run[q] = AbsentRun
      /\ \A k \in Keys : idem[k] = AbsentKey
      /\ \A s \in Syncers : sync[s] = IdleSync
  BY DEF Init, StoreInit, TxInit, SyncInit
<1>3. RowsAreRequests
  BY <1>2, NoneAssumption DEF RowsAreRequests, NewTx, AbsentRun, Exists, Endpoints
<1>4. KeysHaveOneOwner
  BY <1>2 DEF KeysHaveOneOwner, NewTx, HoldsKey
<1>5. ReplaysAreFaithful
  BY <1>2 DEF ReplaysAreFaithful, NewTx
<1>6. RunsHaveJobs
  BY <1>2, NoneAssumption DEF RunsHaveJobs, NewTx, AbsentRun, IdleSync, Nothing, Unfinished
<1>7. RowLocks
  BY <1>2, NoneAssumption DEF RowLocks, HoldsRow, IdleSync, Nothing, Status
<1>8. QED
  BY <1>1, <1>3, <1>4, <1>5, <1>6, <1>7 DEF IInv, History, Locking

LEMMA InvSubmission ==
  ASSUME IInv, NEW q \in Runs, SubmissionStep(q)
  PROVE  History' /\ Locking'
<1> USE DEF IInv
<1>1. sync' = sync
  BY DEF SubmissionStep
<1>2. /\ RowsAreRequests
      /\ RunsHaveJobs
  BY DEF History, Locking
<1>3. tx \in [Runs -> TxRecord] /\ job \in [Runs -> JobRecord] /\ run \in [Runs -> RunRow]
  BY DEF TypeInv, TypeOK, TxTypeOK, JobsTypeOK, StoreTypeOK
<1>4. ASSUME run' = run, \A r \in Runs : job[r].st # "none" => job'[r].st # "none",
             \A r \in Runs : tx'[r].pc = "accepted" => job'[r].st # "none"
      PROVE  Locking'
  BY <1>1, <1>2, <1>4, LockingKept DEF RunsHaveJobs, Exists
<1>5. ASSUME NEW pc, Goto(q, pc)
      PROVE  \A r \in Runs : tx'[r].pc = IF r = q THEN pc ELSE tx[r].pc
  BY <1>3, <1>5 DEF Goto, TxRecord
<1>6. CASE Receive(q) /\ UNCHANGED <<storeVars, job>>
  <2>1. \A r \in Runs : tx'[r].pc = "accepted" => tx[r].pc = "accepted"
    BY <1>3, <1>6 DEF Receive, Accepting
  <2>2. QED
    BY <1>2, <1>4, <1>6, <2>1, RequestArrives DEF storeVars, RunsHaveJobs
<1>7. CASE Reserve(q) /\ UNCHANGED <<storeVars, job>>
  <2> DEFINE pc == IF idem[tx[q].key] = AbsentKey THEN "lock" ELSE "conflict"
  <2>1. Goto(q, pc) /\ tx[q].pc \in Working /\ pc \in Working \cup Ended
        /\ pc \notin {"committed", "replayed", "accepted"}
    BY <1>7 DEF Reserve, Working, Ended
  <2>2. ASSUME NEW k \in Keys, HoldsKey(q, k)'
        PROVE  idem[k] = AbsentKey /\ \A o \in Runs : ~HoldsKey(o, k)
    <3>1. tx'[q].key = tx[q].key /\ tx'[q].pc = pc
      BY <1>3, <2>1 DEF Goto, TxRecord
    <3>2. QED
      BY <1>7, <2>2, <3>1 DEF Reserve, HoldsKey
  <2> HIDE DEF pc
  <2>3. \A r \in Runs : tx'[r].pc = "accepted" => tx[r].pc = "accepted"
    BY <1>5, <2>1
  <2>4. History'
    BY <1>7, <2>1, <2>2, RequestMoves DEF storeVars
  <2>5. QED
    BY <1>2, <1>4, <1>7, <2>3, <2>4 DEF storeVars, RunsHaveJobs
<1>8. ASSUME NEW pc \in {"preflight", "refused", "submit", "rejected", "accepted", "aborted"},
             Goto(q, pc), tx[q].pc \in Working,
             pc \notin {"refused", "aborted"} => tx[q].pc \in {"lock", "preflight", "submit"},
             UNCHANGED storeVars
      PROVE  History'
  <2>1. pc \in Working \cup Ended /\ pc \notin {"committed", "replayed"}
    BY DEF Working, Ended
  <2>2. ASSUME NEW k \in Keys, HoldsKey(q, k)' PROVE HoldsKey(q, k)
    <3>1. tx'[q].key = tx[q].key /\ tx'[q].pc = pc
      BY <1>3, <1>8 DEF Goto, TxRecord
    <3>2. QED
      BY <1>8, <2>2, <3>1 DEF HoldsKey
  <2>3. QED
    BY <1>8, <2>1, <2>2, RequestMoves DEF storeVars
<1>9. CASE /\ \/ LockPlan(q) \/ Refuse(q) \/ Admit(q) \/ RefuseAtLimit(q) \/ Aborted(q)
           /\ UNCHANGED <<storeVars, job>>
  <2>1. PICK pc \in {"preflight", "refused", "submit", "aborted"} :
          /\ Goto(q, pc)
          /\ tx[q].pc \in Working
          /\ pc \notin {"refused", "aborted"} => tx[q].pc \in {"lock", "preflight"}
    BY <1>9 DEF LockPlan, Refuse, Admit, RefuseAtLimit, Aborted, Working
  <2>2. \A r \in Runs : tx'[r].pc = "accepted" => tx[r].pc = "accepted"
    BY <1>5, <2>1
  <2>3. QED
    BY <1>2, <1>4, <1>8, <1>9, <2>1, <2>2 DEF storeVars, RunsHaveJobs
<1>10. CASE /\ SubmitAccepted(q) \/ SubmitFails(q) \/ SubmitAnswerLost(q)
            /\ UNCHANGED storeVars
  <2>1. PICK pc \in {"accepted", "rejected"} :
          Goto(q, pc) /\ tx[q].pc = "submit" /\ (pc = "accepted" => Accept(q))
    BY <1>10 DEF SubmitAccepted, SubmitFails, SubmitAnswerLost
  <2>2. History'
    BY <1>8, <1>10, <2>1 DEF Working
  <2>3. Accept(q) \/ job' = job
    BY <1>10 DEF SubmitAccepted, SubmitFails, SubmitAnswerLost
  <2>4. \A r \in Runs : job[r].st # "none" => job'[r].st # "none"
    BY <1>3, <2>3 DEF Accept
  <2>5. Accept(q) => job'[q].st # "none"
    BY <1>3 DEF Accept
  <2>6. \A r \in Runs : tx'[r].pc = "accepted" => job'[r].st # "none"
    BY <1>2, <1>5, <2>1, <2>4, <2>5 DEF RunsHaveJobs
  <2>7. QED
    BY <1>4, <1>10, <2>2, <2>4, <2>6 DEF storeVars
<1>11. CASE \E sent \in BOOLEAN : Commit(q, sent) /\ UNCHANGED job
  <2>1. History'
    BY <1>11, RequestCommits
  <2>2. tx[q].pc \in {"accepted", "rejected"} /\ ~Exists(q)
    BY <1>2, <1>11 DEF Commit, RowsAreRequests
  <2>3. run' = [run EXCEPT ![q] = CreatedRow(q)] /\ job' = job
    BY <1>11 DEF Commit
  <2>4. /\ run'[q].job = (tx[q].pc = "accepted")
        /\ run'[q].status = IF tx[q].pc = "accepted" THEN "queued" ELSE "submit_failed"
        /\ \A r \in Runs \ {q} : run'[r] = run[r]
    BY <1>3, <2>3 DEF CreatedRow
  <2>5. \A r \in Runs : tx'[r].pc = "accepted" => tx[r].pc = "accepted"
    <3>1. tx' = [tx EXCEPT ![q].pc = "committed", ![q].reply = q]
      BY <1>11 DEF Commit
    <3>2. QED
      BY <1>3, <3>1 DEF TxRecord
  <2>6. /\ run'[q].job => job'[q].st # "none" /\ Exists(q)'
        /\ run'[q].status \in Unfinished => run'[q].job
    <3>1. CASE tx[q].pc = "accepted"
      <4>1. job'[q].st # "none" /\ run'[q].status = "queued" /\ run'[q].job = TRUE
        BY <1>2, <2>3, <2>4, <3>1 DEF RunsHaveJobs
      <4>2. QED
        BY <4>1 DEF Exists
    <3>2. CASE tx[q].pc # "accepted"
      <4>1. run'[q].status = "submit_failed" /\ run'[q].job = FALSE
        BY <2>4, <3>2
      <4>2. QED
        BY <4>1 DEF Unfinished
    <3>3. QED
      BY <3>1, <3>2
  <2>7. \A r \in Runs : run'[r] = run[r] \/ (r = q /\ ~Exists(q))
    BY <2>2, <2>4
  <2>8. \A r \in Runs : tx'[r].pc = "accepted" => job'[r].st # "none"
    BY <1>2, <2>3, <2>5 DEF RunsHaveJobs
  <2>9. Locking'
    BY <1>1, <2>3, <2>6, <2>7, <2>8, LockingKept
  <2>10. QED
    BY <2>1, <2>9
<1>12. QED
  BY <1>6, <1>7, <1>9, <1>10, <1>11 DEF SubmissionStep

LEMMA InvOthers ==
  ASSUME IInv, NEW r \in Runs, CancelStep(r) \/ SchedulerStep(r)
  PROVE  History' /\ Locking'
<1> USE DEF IInv
<1>1. run' = run /\ idem' = idem /\ tx' = tx /\ sync' = sync
  BY DEF CancelStep, CancelReceived, CancelSent, CancelRejected, CancelUnrecorded,
         SchedulerStep, storeVars
<1>2. job \in [Runs -> JobRecord]
  BY DEF TypeInv, TypeOK, JobsTypeOK
<1>3. ASSUME NEW o \in Runs, job[o].st # "none" PROVE job'[o].st # "none"
  <2>1. ASSUME Cancel(r) PROVE job'[o].st # "none"
    BY <1>2, <1>3, <2>1 DEF Cancel, JobRecord
  <2>2. ASSUME NEW st \in {"lost"} \cup LiveStates \cup DoneStates, SetState(r, st)
        PROVE  job'[o].st # "none"
    BY <1>2, <1>3, <2>2 DEF SetState, JobRecord, LiveStates, DoneStates
  <2>3. CASE CancelStep(r)
    BY <1>3, <2>1, <2>3
    DEF CancelStep, CancelReceived, CancelSent, CancelRejected, CancelUnrecorded
  <2>4. CASE SchedulerStep(r)
    BY <2>2, <2>4 DEF SchedulerStep, JobStep, JobStarts, JobRequeued, JobExits, JobPreempted,
              JobForgotten, LiveStates, DoneStates
  <2>5. QED
    BY <2>3, <2>4
<1>4. History'
  BY <1>1, HistoryKept DEF Exists
<1>5. RunsHaveJobs
  BY DEF Locking
<1>6. Locking'
  BY <1>1, <1>3, <1>5, LockingKept DEF RunsHaveJobs, Exists
<1>7. QED
  BY <1>4, <1>6

LEMMA InvSyncer ==
  ASSUME IInv, NEW s \in Syncers, SyncerStep(s)
  PROVE  History' /\ Locking'
<1>1. tx' = tx /\ job' = job
  BY DEF SyncerStep
<1>2. CASE SyncCommit(s)
  BY <1>1, <1>2, SyncerCommits DEF IInv
<1>3. CASE UNCHANGED storeVars
  BY <1>1, <1>3, LockingSyncer, HistoryKept DEF IInv, storeVars, Exists
<1>4. QED
  BY <1>2, <1>3 DEF SyncerStep

(* A restart forgets every transaction that had not committed, and with it *)
(* its locks.                                                              *)
LEMMA InvRestart ==
  ASSUME IInv, Restart
  PROVE  History' /\ Locking'
<1>1. /\ RowsAreRequests
      /\ KeysHaveOneOwner
      /\ ReplaysAreFaithful
      /\ RunsHaveJobs
  BY DEF IInv, History, Locking
<1>2. run' = run /\ idem' = idem
  BY DEF Restart, storeVars
<1>3. ASSUME NEW o \in Runs
      PROVE  /\ tx'[o].key = tx[o].key
             /\ tx'[o].endpoint = tx[o].endpoint
             /\ tx'[o].project = tx[o].project
             /\ tx'[o].plan = tx[o].plan
             /\ tx'[o].source = tx[o].source
             /\ tx'[o].reply = tx[o].reply
             /\ tx'[o].pc = IF tx[o].pc \in Working THEN "aborted" ELSE tx[o].pc
  <2>1. tx[o] \in TxRecord
    BY DEF IInv, TypeInv, TypeOK, TxTypeOK
  <2>2. tx'[o] = IF tx[o].pc \in Working THEN [tx[o] EXCEPT !.pc = "aborted"] ELSE tx[o]
    BY DEF Restart
  <2>3. QED
    BY <2>1, <2>2 DEF TxRecord
<1>4. ASSUME NEW o \in Runs
      PROVE  /\ tx'[o].pc = "committed" <=> tx[o].pc = "committed"
             /\ tx'[o].pc = "replayed" <=> tx[o].pc = "replayed"
             /\ tx'[o].pc # "new" => tx[o].pc # "new"
             /\ tx'[o].pc # "accepted"
             /\ \A k \in Keys : ~HoldsKey(o, k)'
  BY <1>3 DEF Working, HoldsKey
<1>5. RowsAreRequests'
  BY <1>1, <1>2, <1>3, <1>4 DEF RowsAreRequests, Exists
<1>6. KeysHaveOneOwner'
  <2>1. ASSUME NEW k \in Keys, idem'[k] # AbsentKey
        PROVE  /\ idem'[k].run \in Runs
               /\ tx'[idem'[k].run].pc = "committed"
               /\ tx'[idem'[k].run].key = k
               /\ tx'[idem'[k].run].endpoint = idem'[k].endpoint
    BY <1>1, <1>2, <1>3, <1>4, <2>1 DEF KeysHaveOneOwner
  <2>2. ASSUME NEW k \in Keys, NEW a \in Runs, tx'[a].pc = "committed", tx'[a].key = k
        PROVE  idem'[k].run = a
    BY <1>1, <1>2, <1>3, <1>4, <2>2 DEF KeysHaveOneOwner
  <2>3. QED
    BY <1>4, <2>1, <2>2 DEF KeysHaveOneOwner, AbsentKey
<1>7. ReplaysAreFaithful'
  BY <1>1, <1>2, <1>3, <1>4 DEF ReplaysAreFaithful, Exists
<1>8. \A s \in Syncers : sync'[s] = IdleSync
  BY DEF Restart
<1>9. \A r \in Runs : job[r].st # "none" => job'[r].st # "none"
  BY DEF Restart, JobsAfterRestart, IInv, TypeInv, TypeOK, JobsTypeOK, JobRecord
<1>10. RunsHaveJobs'
  BY <1>1, <1>2, <1>4, <1>8, <1>9, NoneAssumption
  DEF RunsHaveJobs, Exists, IdleSync, Nothing
<1>11. RowLocks'
  BY <1>8, NoneAssumption DEF RowLocks, HoldsRow, IdleSync, Nothing, Status
<1>12. QED
  BY <1>5, <1>6, <1>7, <1>10, <1>11 DEF History, Locking

LEMMA InvStep == IInv /\ [Next]_vars => IInv'
<1> SUFFICES ASSUME IInv, [Next]_vars PROVE IInv'
  OBVIOUS
<1>1. TypeInv'
  BY TypeStep DEF IInv
<1>2. CASE UNCHANGED vars
  BY <1>1, <1>2 DEF vars, IInv, History, Locking, RowsAreRequests, KeysHaveOneOwner,
     ReplaysAreFaithful, RunsHaveJobs, RowLocks, HoldsKey, HoldsRow, Exists, AbsentKey
<1>3. CASE Next
  <2>1. History' /\ Locking'
    BY <1>3, InvSubmission, InvOthers, InvSyncer, InvRestart DEF Next
  <2>2. QED
    BY <1>1, <2>1 DEF IInv
<1>4. QED
  BY <1>2, <1>3

LEMMA Invariance == Spec => []IInv
BY InvInit, InvStep, PTL DEF Spec

-----------------------------------------------------------------------------
(* A committed idempotency row names a committed run, created by a request *)
(* with this very key, endpoint, project and source, whatever fails and    *)
(* however many requests race for the key (_attach_idempotency).           *)
THEOREM KeysNameTheirRuns == Spec => []KeyNamesItsRun
<1>1. IInv => KeyNamesItsRun
  BY DEF IInv, History, RowsAreRequests, KeysHaveOneOwner, KeyNamesItsRun
<1>2. QED
  BY <1>1, Invariance, PTL

(* A request answered from its key is given a run of the same submission   *)
(* (_replay_or_reserve), never another project's or another source's.      *)
THEOREM ReplaysAreRight == Spec => []ReplaysAreFaithful
<1>1. IInv => ReplaysAreFaithful
  BY DEF IInv, History
<1>2. QED
  BY <1>1, Invariance, PTL

(* Every run that holds a concurrency slot has a job the syncers can poll, *)
(* with any number of syncers, crashes and rollbacks: _submit settles the  *)
(* run before its transaction commits.                                     *)
THEOREM SlotsHaveJobs == Spec => []UnfinishedHasJob
<1>1. IInv => UnfinishedHasJob
  BY DEF IInv, Locking, RunsHaveJobs, UnfinishedHasJob
<1>2. QED
  BY <1>1, Invariance, PTL

(* Of any number of syncers that saw a run end, at most one collects its   *)
(* artifacts at a time (claim_terminal).                                   *)
THEOREM CollectorsExclude == Spec => []OneCollector
<1>1. IInv => OneCollector
  <2> SUFFICES ASSUME IInv, NEW s \in Syncers, NEW t \in Syncers,
                      sync[s].pc = "collect", sync[t].pc = "collect",
                      sync[s].cur = sync[t].cur
               PROVE  s = t
    BY DEF OneCollector
  <2>1. sync[s].cur \in Runs
    BY DEF IInv, TypeInv, SyncShape, WellAimed
  <2>2. HoldsRow(s, sync[s].cur) /\ HoldsRow(t, sync[s].cur)
    BY NoneAssumption DEF IInv, Locking, RowLocks, HoldsRow, Status, Terminal
  <2>3. QED
    BY <2>1, <2>2 DEF IInv, Locking, RowLocks
<1>2. QED
  BY <1>1, Invariance, PTL

(* An outcome, with its FINISHED event and artifacts, is only ever         *)
(* committed over an unfinished row, however many syncers overlap.         *)
THEOREM OutcomesEndUnfinished == Spec => OutcomeEndsUnfinished
<1>1. IInv /\ [Next]_vars =>
        [\A r \in Runs : finals'[r] # finals[r] =>
           run[r].status \in Unfinished /\ run'[r].status \in Outcomes]_vars
  <2> SUFFICES ASSUME IInv, Next, NEW r \in Runs, finals'[r] # finals[r]
               PROVE  run[r].status \in Unfinished /\ run'[r].status \in Outcomes
    OBVIOUS
  <2>1. PICK s \in Syncers : SyncCommit(s)
    BY DEF Next, SubmissionStep, Commit, SyncerStep, SchedulerStep, Restart, CancelStep,
       CancelReceived, CancelSent, CancelRejected, CancelUnrecorded, storeVars
  <2>2. sync[s].wr[r] \in Terminal
    BY <2>1 DEF SyncCommit
  <2>3. sync[s].wr[r] \in Outcomes /\ run[r].status \in Unfinished
    BY <2>2 DEF IInv, Locking, RowLocks
  <2>4. HoldsRow(s, r) /\ run[r] \in RunRow
    BY <2>2, NoneAssumption DEF HoldsRow, Status, IInv, TypeInv, TypeOK, StoreTypeOK
  <2>5. run'[r].status = sync[s].wr[r]
    BY <2>1, <2>4 DEF SyncCommit, RunRow
  <2>6. QED
    BY <2>3, <2>5
<1>2. QED
  BY <1>1, Invariance, PTL DEF Spec, OutcomeEndsUnfinished

-----------------------------------------------------------------------------
(* Statuses tell what became of the job.                                   *)

(* What a status says of a job, and it stays said.                         *)
Bears(status, j) ==
  /\ status = "succeeded" => j.st \in {"ok", "lost"}
  /\ status = "cancelled" => j.told \/ (Adapter = "slurm" /\ j.st \in {"killed", "lost"})
  /\ status \in Outcomes  => j.st \in DoneStates \cup {"lost"}

(* The answer to a submission is not lost.                                 *)
Answered == Adapter = "mock" \/ MaxFaults = 0

Submitted == {"accepted", "rejected", "committed", "aborted"}

StatusesBear ==
  /\ \A r \in Runs : /\ job[r].st # "none" => tx[r].pc \in Submitted
                     /\ Adapter = "mock" => job[r].st # "killed"
                     /\ Bears(run[r].status, job[r])
                     /\ Answered /\ (tx[r].pc = "rejected" \/ run[r].status = "submit_failed")
                          => job[r].st = "none"
  /\ \A s \in Syncers, r \in Runs : Bears(sync[s].wr[r], job[r])
  /\ \A s \in Syncers : sync[s].pc \in {"claim", "collect"} => Bears(sync[s].verdict, job[sync[s].cur])

(* How a job may change: an end is an end, a request to cancel stays.      *)
Onward(j, k) ==
  /\ j.st = "none" => k.st = "none"
  /\ j.st # "none" => k.st # "none"
  /\ j.st \in DoneStates \cup {"lost"} => k.st \in {j.st, "lost"} /\ (j.told => k.told)
  /\ Adapter = "mock" /\ j.st # "killed" => k.st # "killed"

LEMMA OnwardBears ==
  ASSUME NEW status, NEW j, NEW k, Onward(j, k), Bears(status, j)
  PROVE  Bears(status, k)
BY DEF Onward, Bears, Outcomes, DoneStates

(* What a scheduler reports bears the status it is stored as.              *)
LEMMA VerdictBears ==
  ASSUME NEW r \in Runs, job[r] \in JobRecord, Adapter = "mock" => job[r].st # "killed",
         run[r].status \in Unfinished
  PROVE  Bears(Verdict(r), job[r])
<1>1. CASE job[r].st \in {"none", "lost"}
  BY <1>1 DEF Verdict, Report, Bears, Unfinished, Outcomes
<1>2. CASE job[r].st = "pending"
  BY <1>2 DEF Verdict, Report, StatusOf, Bears, Outcomes
<1>3. CASE job[r].st = "running"
  BY <1>3 DEF Verdict, Report, StatusOf, Bears, Outcomes
<1>4. CASE job[r].st = "killed"
  BY <1>4, AdapterAssumption DEF AdapterAssumption, Verdict, Report, StatusOf, Bears, Outcomes, DoneStates
<1>5. CASE job[r].st \in {"ok", "bad"}
  BY <1>5 DEF Verdict, Report, StatusOf, Bears, Outcomes, DoneStates
<1>6. QED
  BY <1>1, <1>2, <1>3, <1>4, <1>5 DEF JobRecord, LiveStates, DoneStates

LEMMA StatusesBearInit == Init => StatusesBear
<1> SUFFICES ASSUME Init PROVE StatusesBear
  OBVIOUS
<1>1. /\ \A r \in Runs : job[r] = NoJob /\ tx[r] = NewTx /\ run[r] = AbsentRun
      /\ \A s \in Syncers : sync[s] = IdleSync
  BY DEF Init, JobsInit, TxInit, StoreInit, SyncInit
<1>2. \A j : Bears("absent", j) /\ Bears(None, j)
  BY NoneAssumption DEF NoneAssumption, Bears, Outcomes, Status, Terminal
<1>3. QED
  BY <1>1, <1>2 DEF StatusesBear, NoJob, NewTx, AbsentRun, IdleSync, Nothing

(* Jobs go on and requests do; no row and no syncer changes.               *)
LEMMA BearsJobs ==
  ASSUME StatusesBear, run' = run, sync' = sync, SyncShape,
         \A r \in Runs : Onward(job[r], job'[r]),
         \A r \in Runs : tx[r].pc \in Submitted => tx'[r].pc \in Submitted,
         \A r \in Runs : tx'[r].pc = "rejected" => tx[r].pc = "rejected"
  PROVE  StatusesBear'
<1>1. \A r \in Runs : /\ job'[r].st # "none" => tx'[r].pc \in Submitted
                      /\ Adapter = "mock" => job'[r].st # "killed"
                      /\ Answered /\ (tx'[r].pc = "rejected" \/ run[r].status = "submit_failed")
                          => job'[r].st = "none"
  BY DEF StatusesBear, Onward
<1>2. \A r \in Runs : Bears(run[r].status, job'[r]) /\ \A s \in Syncers : Bears(sync[s].wr[r], job'[r])
  BY OnwardBears DEF StatusesBear
<1>3. \A s \in Syncers : sync[s].pc \in {"claim", "collect"} => Bears(sync[s].verdict, job'[sync[s].cur])
  BY OnwardBears DEF StatusesBear, SyncShape, WellAimed
<1>4. QED
  BY <1>1, <1>2, <1>3 DEF StatusesBear, Answered

LEMMA OnwardSame ==
  ASSUME NEW j, Adapter = "mock" => j.st # "killed"
  PROVE  Onward(j, j)
BY DEF Onward

LEMMA BearsSubmission ==
  ASSUME IInv, StatusesBear, NEW q \in Runs, SubmissionStep(q)
  PROVE  StatusesBear'
<1>1. /\ tx \in [Runs -> TxRecord] /\ job \in [Runs -> JobRecord] /\ run \in [Runs -> RunRow]
      /\ faults \in 0..MaxFaults /\ MaxFaults \in Nat /\ SyncShape
  BY BudgetAssumption
  DEF BudgetAssumption, IInv, TypeInv, TypeOK, TxTypeOK, JobsTypeOK, StoreTypeOK
<1>2. sync' = sync
  BY DEF SubmissionStep
<1>3. \A r \in Runs : Onward(job[r], job[r])
  BY OnwardSame DEF StatusesBear
<1>4. CASE Receive(q)
  <2>1. tx[q].pc = "new" /\ \A o \in Runs \ {q} : tx'[o] = tx[o]
    BY <1>1, <1>4 DEF Receive, Accepting
  <2>2. tx'[q].pc \in {"lock", "reserve", "replayed", "conflict"}
    BY <1>1, <1>4 DEF Receive, Accepting
  <2>3. UNCHANGED <<storeVars, job>>
    BY <2>1, <2>2
    DEF SubmissionStep, Commit, SubmitAccepted, SubmitFails, SubmitAnswerLost
  <2>4. QED
    BY <1>1, <1>2, <1>3, <2>1, <2>2, <2>3, BearsJobs DEF Submitted, storeVars
<1>5. ASSUME NEW pc, Goto(q, pc), UNCHANGED <<storeVars, job>>,
             tx[q].pc \in Working, pc # "rejected", tx[q].pc \in Submitted => pc \in Submitted
      PROVE  StatusesBear'
  <2>1. \A o \in Runs : tx'[o].pc = IF o = q THEN pc ELSE tx[o].pc
    BY <1>1, <1>5 DEF Goto, TxRecord
  <2>2. QED
    BY <1>1, <1>2, <1>3, <1>5, <2>1, BearsJobs DEF storeVars
<1>6. CASE /\ \/ Reserve(q) \/ LockPlan(q) \/ Refuse(q) \/ Admit(q) \/ RefuseAtLimit(q) \/ Aborted(q)
           /\ UNCHANGED <<storeVars, job>>
  BY <1>5, <1>6 DEF Reserve, LockPlan, Refuse, Admit, RefuseAtLimit, Aborted, Working, Submitted
<1>7. CASE /\ tx[q].pc = "submit" /\ UNCHANGED storeVars
           /\ \E pc \in {"accepted", "rejected"} :
                /\ Goto(q, pc)
                /\ \/ Accept(q) /\ (pc = "rejected" => ~Answered)
                   \/ pc = "rejected" /\ job' = job
  <2>1. PICK pc \in {"accepted", "rejected"} :
          /\ Goto(q, pc)
          /\ \/ Accept(q) /\ (pc = "rejected" => ~Answered)
             \/ pc = "rejected" /\ job' = job
    BY <1>7
  <2>2. \A o \in Runs : tx'[o].pc = IF o = q THEN pc ELSE tx[o].pc
    BY <1>1, <2>1 DEF Goto, TxRecord
  <2>3. /\ \A o \in Runs \ {q} : job'[o] = job[o]
        /\ job[q].st = "none" /\ job'[q].st \in {"none"} \cup LiveStates
        /\ job'[q].st # "none" /\ pc = "rejected" => ~Answered
    BY <1>1, <1>7, <2>1 DEF StatusesBear, Submitted, Accept, LiveStates
  <2>4. run' = run /\ run[q].status = "absent"
    BY <1>7 DEF storeVars, IInv, History, RowsAreRequests, Exists
  <2>5. ASSUME NEW status, Bears(status, job[q]) PROVE Bears(status, job'[q])
    BY <2>3, <2>5 DEF Bears, DoneStates, Outcomes
  <2>6. \A o \in Runs : \A status : Bears(status, job[o]) => Bears(status, job'[o])
    BY <2>3, <2>5
  <2>7. \A r \in Runs : /\ job'[r].st # "none" => tx'[r].pc \in Submitted
                        /\ Adapter = "mock" => job'[r].st # "killed"
                        /\ Answered /\ (tx'[r].pc = "rejected" \/ run[r].status = "submit_failed")
                            => job'[r].st = "none"
    BY <2>1, <2>2, <2>3, <2>4 DEF StatusesBear, Submitted, LiveStates
  <2>8. \A s \in Syncers : sync[s].pc \in {"claim", "collect"} => Bears(sync[s].verdict, job'[sync[s].cur])
    BY <1>1, <2>6 DEF StatusesBear, SyncShape, WellAimed
  <2>9. QED
    BY <1>2, <2>4, <2>6, <2>7, <2>8 DEF StatusesBear, Answered
<1>8. ASSUME NEW sent, Commit(q, sent), job' = job
      PROVE  StatusesBear'
  <2>1. tx' = [tx EXCEPT ![q].pc = "committed", ![q].reply = q]
    BY <1>8 DEF Commit
  <2>2. \A o \in Runs : tx'[o].pc = IF o = q THEN "committed" ELSE tx[o].pc
    BY <1>1, <2>1 DEF TxRecord
  <2>3. /\ tx[q].pc \in {"accepted", "rejected"}
        /\ \A o \in Runs \ {q} : run'[o] = run[o]
        /\ run'[q].status = IF tx[q].pc = "accepted" THEN "queued" ELSE "submit_failed"
    BY <1>1, <1>8 DEF Commit, CreatedRow
  <2>4. Bears(run'[q].status, job[q])
    BY <2>3 DEF Bears, Outcomes
  <2>5. \A r \in Runs : /\ job'[r].st # "none" => tx'[r].pc \in Submitted
                        /\ Adapter = "mock" => job'[r].st # "killed"
                        /\ Bears(run'[r].status, job'[r])
                        /\ Answered /\ (tx'[r].pc = "rejected" \/ run'[r].status = "submit_failed")
                            => job'[r].st = "none"
    BY <1>8, <2>2, <2>3, <2>4 DEF StatusesBear, Submitted
  <2>6. QED
    BY <1>2, <1>8, <2>5 DEF StatusesBear, Answered
<1>9. SubmitAnswerLost(q) /\ Fault => ~Answered
  BY <1>1, AdapterAssumption DEF AdapterAssumption, SubmitAnswerLost, Fault, Answered
<1>10. CASE (SubmitAccepted(q) \/ SubmitFails(q) \/ (SubmitAnswerLost(q) /\ Fault)) /\ UNCHANGED storeVars
  BY <1>7, <1>9, <1>10 DEF SubmitAccepted, SubmitFails, SubmitAnswerLost
<1>11. QED
  BY <1>4, <1>6, <1>8, <1>10 DEF SubmissionStep

LEMMA BearsOthers ==
  ASSUME IInv, StatusesBear, NEW r \in Runs, CancelStep(r) \/ SchedulerStep(r)
  PROVE  StatusesBear'
<1>1. job \in [Runs -> JobRecord] /\ SyncShape
  BY DEF IInv, TypeInv, TypeOK, JobsTypeOK
<1>2. run' = run /\ tx' = tx /\ sync' = sync
  BY DEF CancelStep, CancelReceived, CancelSent, CancelRejected, CancelUnrecorded,
         SchedulerStep, storeVars
<1>3. \A o \in Runs : Onward(job[o], job[o])
  BY OnwardSame DEF StatusesBear
<1>4. ASSUME Cancel(r), Cancellable(r) PROVE \A o \in Runs : Onward(job[o], job'[o])
  <2>1. /\ \A o \in Runs \ {r} : job'[o] = job[o]
        /\ job'[r].told = TRUE
        /\ job'[r].st = IF Adapter = "slurm" /\ Live(r) THEN "killed" ELSE job[r].st
    BY <1>1, <1>4 DEF Cancel
  <2>2. Onward(job[r], job'[r])
    BY <2>1 DEF Onward, StatusesBear, Live, LiveStates, DoneStates
  <2>3. QED
    BY <1>3, <2>1, <2>2
<1>5. ASSUME NEW st, SetState(r, st), job[r].st # "none", st # "none",
             job[r].st \in DoneStates \cup {"lost"} => st = "lost",
             Adapter = "mock" => st # "killed"
      PROVE  \A o \in Runs : Onward(job[o], job'[o])
  <2>1. /\ \A o \in Runs \ {r} : job'[o] = job[o]
        /\ job'[r].told = job[r].told /\ job'[r].st = st
    BY <1>1, <1>5 DEF SetState, JobRecord
  <2>2. Onward(job[r], job'[r])
    BY <1>5, <2>1 DEF Onward
  <2>3. QED
    BY <1>3, <2>1, <2>2
<1>6. CASE CancelStep(r)
  <2>1. \A o \in Runs : Onward(job[o], job'[o])
    BY <1>3, <1>4, <1>6
    DEF CancelStep, CancelReceived, CancelSent, CancelRejected, CancelUnrecorded
  <2>2. QED
    BY <1>1, <1>2, <2>1, BearsJobs
<1>7. CASE SchedulerStep(r)
  <2>1. JobStep(r) => \A o \in Runs : Onward(job[o], job'[o])
    BY <1>5 DEF JobStep, JobStarts, JobRequeued, JobExits, JobPreempted, Live, LiveStates, DoneStates
  <2>2. JobForgotten(r) => \A o \in Runs : Onward(job[o], job'[o])
    BY <1>5 DEF JobForgotten, DoneStates
  <2>3. QED
    BY <1>1, <1>2, <1>7, <2>1, <2>2, BearsJobs DEF SchedulerStep
<1>8. QED
  BY <1>6, <1>7

(* A syncer goes on with a record whose every status bears.                *)
LEMMA BearsMoves ==
  ASSUME TypeInv, StatusesBear, NEW s \in Syncers, NEW rec, Becomes(s, rec),
         UNCHANGED <<run, tx, job>>,
         \A r \in Runs : Bears(rec.wr[r], job[r]),
         rec.pc \in {"claim", "collect"} => Bears(rec.verdict, job[rec.cur])
  PROVE  StatusesBear'
<1>1. \A t \in Syncers : sync'[t] = IF t = s THEN rec ELSE sync[t]
  BY DEF Becomes, TypeInv, TypeOK, SyncTypeOK
<1>2. /\ \A t \in Syncers, r \in Runs : Bears(sync'[t].wr[r], job'[r])
      /\ \A t \in Syncers : sync'[t].pc \in {"claim", "collect"} => Bears(sync'[t].verdict, job'[sync'[t].cur])
  BY <1>1 DEF StatusesBear
<1>3. QED
  BY <1>2 DEF StatusesBear, Answered

LEMMA BearsSyncer ==
  ASSUME IInv, StatusesBear, NEW s \in Syncers, SyncerStep(s)
  PROVE  StatusesBear'
<1>1. /\ TypeInv /\ sync \in [Syncers -> SyncRecord] /\ job \in [Runs -> JobRecord]
      /\ run \in [Runs -> RunRow] /\ WellAimed(sync[s])
  BY DEF IInv, TypeInv, TypeOK, SyncTypeOK, JobsTypeOK, StoreTypeOK, SyncShape
<1>2. tx' = tx /\ job' = job
  BY DEF SyncerStep
<1>3. \A r \in Runs : Bears(sync[s].wr[r], job[r]) /\ Bears(None, job[r])
  BY NoneAssumption DEF NoneAssumption, StatusesBear, Bears, Outcomes, Status, Terminal
<1>4. ASSUME NEW r \in Runs
      PROVE  /\ Passed(s, r).pc = "scan" /\ Passed(s, r).wr = sync[s].wr
             /\ Passed(s, r) \in SyncRecord
  BY <1>1 DEF Passed, SyncRecord
<1>5. ASSUME NEW r \in Runs, Becomes(s, Passed(s, r)), run' = run
      PROVE  StatusesBear'
  BY <1>1, <1>2, <1>3, <1>4, <1>5, BearsMoves
<1>6. ASSUME NEW r \in Runs, NEW status, NEW note, Bears(status, job[r]), run' = run,
             Becomes(s, [Passed(s, r) EXCEPT !.wr[r] = status, !.note = note])
      PROVE  StatusesBear'
  <2> DEFINE rec == [Passed(s, r) EXCEPT !.wr[r] = status, !.note = note]
  <2>1. rec.pc = "scan" /\ \A o \in Runs : rec.wr[o] = IF o = r THEN status ELSE sync[s].wr[o]
    BY <1>1, <1>4 DEF SyncRecord
  <2>2. Becomes(s, rec)
    BY <1>6
  <2> HIDE DEF rec
  <2>3. QED
    BY <1>1, <1>2, <1>3, <1>6, <2>1, <2>2, BearsMoves
<1>7. ASSUME NEW r \in Runs, NEW status, Bears(status, job[r]), run' = run,
             Becomes(s, [Passed(s, r) EXCEPT !.wr[r] = status])
      PROVE  StatusesBear'
  <2> DEFINE rec == [Passed(s, r) EXCEPT !.wr[r] = status]
  <2>1. rec.pc = "scan" /\ \A o \in Runs : rec.wr[o] = IF o = r THEN status ELSE sync[s].wr[o]
    BY <1>1, <1>4 DEF SyncRecord
  <2>2. Becomes(s, rec)
    BY <1>7
  <2> HIDE DEF rec
  <2>3. QED
    BY <1>1, <1>2, <1>3, <1>7, <2>1, <2>2, BearsMoves
<1>8. CASE SyncStart(s) /\ run' = run
  <2> DEFINE rec == [IdleSync EXCEPT !.pc = "scan", !.todo = {r \in Runs : Listed(r)}]
  <2>1. rec.pc = "scan" /\ \A r \in Runs : rec.wr[r] = None
    BY DEF IdleSync, Nothing
  <2>2. Becomes(s, rec)
    BY <1>8 DEF SyncStart
  <2> HIDE DEF rec
  <2>3. QED
    BY <1>1, <1>2, <1>3, <1>8, <2>1, <2>2, BearsMoves
<1>9. CASE (\E r \in Runs : SyncPoll(s, r)) /\ run' = run
  <2>1. PICK r \in Runs : SyncPoll(s, r)
    BY <1>9
  <2>2. CASE run[r].status \notin Unfinished
    BY <1>5, <1>9, <2>1, <2>2 DEF SyncPoll
  <2>3. CASE run[r].status \in Unfinished
    <3> DEFINE rec == [sync[s] EXCEPT !.pc = IF Verdict(r) \in Terminal THEN "claim" ELSE "write",
                                      !.cur = r, !.verdict = Verdict(r)]
    <3>1. Bears(Verdict(r), job[r])
      BY <1>1, <2>3, VerdictBears DEF StatusesBear
    <3>2. rec.wr = sync[s].wr /\ rec.cur = r /\ rec.verdict = Verdict(r)
      BY <1>1 DEF SyncRecord
    <3>3. Becomes(s, rec)
      BY <2>1, <2>3 DEF SyncPoll
    <3> HIDE DEF rec
    <3>4. QED
      BY <1>1, <1>2, <1>3, <1>9, <3>1, <3>2, <3>3, BearsMoves
  <2>4. QED
    BY <2>2, <2>3
<1>10. CASE SyncWrite(s) /\ run' = run
  <2>1. sync[s].cur \in Runs /\ Bears(sync[s].verdict, job[sync[s].cur])
    BY <1>1, <1>10 DEF SyncWrite, WellAimed, Bears, Unfinished, Outcomes
  <2>2. QED
    BY <1>5, <1>7, <1>10, <2>1 DEF SyncWrite
<1>11. CASE SyncClaim(s) /\ run' = run
  <2>1. sync[s].cur \in Runs /\ Bears(sync[s].verdict, job[sync[s].cur])
    BY <1>1, <1>11 DEF SyncClaim, WellAimed, StatusesBear
  <2>2. CASE Claimable(sync[s].cur)
    <3> DEFINE rec == [sync[s] EXCEPT !.pc = "collect", !.wr[sync[s].cur] = sync[s].verdict]
    <3>1. /\ rec.cur = sync[s].cur /\ rec.verdict = sync[s].verdict
          /\ \A o \in Runs : rec.wr[o] = IF o = sync[s].cur THEN sync[s].verdict ELSE sync[s].wr[o]
      BY <1>1 DEF SyncRecord
    <3>2. Becomes(s, rec)
      BY <1>11, <2>2 DEF SyncClaim
    <3> HIDE DEF rec
    <3>3. QED
      BY <1>1, <1>2, <1>3, <1>11, <2>1, <3>1, <3>2, BearsMoves
  <2>3. CASE ~Claimable(sync[s].cur)
    BY <1>5, <1>11, <2>1, <2>3 DEF SyncClaim
  <2>4. QED
    BY <2>2, <2>3
<1>12. CASE (\E sent \in BOOLEAN : SyncCollect(s, sent)) /\ run' = run
  <2>1. sync[s].cur \in Runs /\ sync[s].verdict \in Outcomes /\ Bears(sync[s].verdict, job[sync[s].cur])
    BY <1>1, <1>12 DEF SyncCollect, WellAimed, StatusesBear
  <2>2. \A missing \in BOOLEAN : Bears(FinalStatus(sync[s].verdict, missing), job[sync[s].cur])
    BY <2>1 DEF FinalStatus, Bears, Outcomes
  <2>3. QED
    BY <1>6, <1>12, <2>1, <2>2 DEF SyncCollect
<1>13. CASE SyncSkip(s) /\ run' = run
  <2>1. CASE sync[s].pc = "scan"
    BY <1>1, <1>5, <1>13, <2>1 DEF SyncSkip, SyncRecord
  <2>2. CASE sync[s].pc \in {"write", "claim", "collect"}
    BY <1>1, <1>3, <1>7, <1>13, <2>2 DEF SyncSkip, WellAimed
  <2>3. QED
    BY <1>13, <2>1, <2>2 DEF SyncSkip
<1>14. CASE SyncDeadlockVictim(s) /\ run' = run
  <2>1. sync[s].cur \in Runs
    BY <1>1, <1>14 DEF SyncDeadlockVictim, Deadlocked, WaitsFor, WellAimed
  <2>2. QED
    BY <1>5, <1>14, <2>1 DEF SyncDeadlockVictim
<1>15. CASE SyncAbort(s) /\ run' = run
  BY <1>1, <1>2, <1>3, <1>15, BearsMoves DEF SyncAbort, IdleSync, Nothing
<1>16. CASE SyncCommit(s)
  <2>1. \A r \in Runs : \/ run'[r].status = run[r].status
                        \/ sync[s].wr[r] # None /\ run'[r].status = sync[s].wr[r]
    BY <1>1, <1>16 DEF SyncCommit, HoldsRow, RunRow
  <2>2. \A r \in Runs : Bears(run'[r].status, job[r])
    BY <1>3, <2>1 DEF StatusesBear
  <2>3. \A r \in Runs : run'[r].status = "submit_failed" => run[r].status = "submit_failed"
    BY <2>1 DEF IInv, Locking, RowLocks, Terminal, Outcomes
  <2>4. \A t \in Syncers : sync'[t] = IF t = s THEN IdleSync ELSE sync[t]
    BY <1>1, <1>16 DEF SyncCommit, Becomes
  <2>5. /\ \A t \in Syncers, r \in Runs : Bears(sync'[t].wr[r], job'[r])
        /\ \A t \in Syncers : sync'[t].pc \in {"claim", "collect"} => Bears(sync'[t].verdict, job'[sync'[t].cur])
    BY <1>2, <1>3, <2>4 DEF StatusesBear, IdleSync, Nothing
  <2>6. QED
    BY <1>2, <2>2, <2>3, <2>5 DEF StatusesBear, Answered
<1>17. QED
  BY <1>8, <1>9, <1>10, <1>11, <1>12, <1>13, <1>14, <1>15, <1>16 DEF SyncerStep, storeVars

LEMMA BearsRestart ==
  ASSUME IInv, StatusesBear, Restart
  PROVE  StatusesBear'
<1>1. job \in [Runs -> JobRecord] /\ tx \in [Runs -> TxRecord]
  BY DEF IInv, TypeInv, TypeOK, JobsTypeOK, TxTypeOK
<1>2. run' = run /\ \A s \in Syncers : sync'[s] = IdleSync
  BY DEF Restart, storeVars
<1>3. \A r \in Runs : tx'[r].pc = IF tx[r].pc \in Working THEN "aborted" ELSE tx[r].pc
  BY <1>1 DEF Restart, TxRecord
<1>4. \A r \in Runs : Onward(job[r], job'[r])
  <2>1. CASE Adapter = "mock"
    <3>1. ASSUME NEW r \in Runs
          PROVE  /\ job'[r].st = IF job[r].st = "none" THEN "none" ELSE "lost"
                 /\ job'[r].told = job[r].told
      BY <1>1, <2>1 DEF Restart, JobsAfterRestart, JobRecord
    <3>2. QED
      BY <3>1 DEF Onward
  <2>2. CASE Adapter # "mock"
    BY <2>2, OnwardSame DEF Restart, JobsAfterRestart
  <2>3. QED
    BY <2>1, <2>2
<1>5. \A r \in Runs : /\ job'[r].st # "none" => tx'[r].pc \in Submitted
                      /\ Adapter = "mock" => job'[r].st # "killed"
                      /\ Answered /\ (tx'[r].pc = "rejected" \/ run[r].status = "submit_failed")
                          => job'[r].st = "none"
  BY <1>3, <1>4 DEF StatusesBear, Onward, Submitted, Working
<1>6. \A r \in Runs : Bears(run[r].status, job'[r]) /\ Bears(None, job'[r])
  BY <1>4, OnwardBears, NoneAssumption
  DEF NoneAssumption, StatusesBear, Bears, Outcomes, Status, Terminal
<1>7. QED
  BY <1>2, <1>5, <1>6 DEF StatusesBear, IdleSync, Nothing, Answered

LEMMA StatusesBearStep == IInv /\ StatusesBear /\ [Next]_vars => StatusesBear'
<1>1. UNCHANGED vars /\ StatusesBear => StatusesBear'
  BY DEF vars, StatusesBear, Answered
<1>2. QED
  BY <1>1, BearsSubmission, BearsOthers, BearsSyncer, BearsRestart DEF Next

LEMMA StatusesBearAlways == Spec => []StatusesBear
BY Invariance, StatusesBearInit, StatusesBearStep, PTL DEF Spec

(* GR-015: a run is only ever shown succeeded when its job has exited with *)
(* code zero, whatever syncers overlap and whatever fails.                 *)
THEOREM SuccessIsTrue == Spec => []NoFalseSuccess
<1>1. StatusesBear => NoFalseSuccess
  BY DEF StatusesBear, Bears, NoFalseSuccess
<1>2. QED
  BY <1>1, StatusesBearAlways, PTL

(* A run ends cancelled only when a user asked for it or the cluster ended *)
(* the job itself.                                                         *)
THEOREM CancellationsWereAsked == Spec => []CancelledWasAsked
<1>1. StatusesBear => CancelledWasAsked
  BY DEF StatusesBear, Bears, Outcomes, CancelledWasAsked
<1>2. QED
  BY <1>1, StatusesBearAlways, PTL

(* A run gives its slot back only when its job has ended.  (Slurm may have *)
(* taken a job whose answer was lost: its run is submit_failed.)           *)
THEOREM FinishedJobsHaveEnded == Answered => (Spec => []FinishedIsNotLive)
<1> SUFFICES ASSUME Answered PROVE Spec => []FinishedIsNotLive
  OBVIOUS
<1>1. StatusesBear => FinishedIsNotLive
  BY DEF StatusesBear, Bears, Terminal, Outcomes, DoneStates, LiveStates, Live, FinishedIsNotLive
<1>2. QED
  BY <1>1, StatusesBearAlways, PTL

-----------------------------------------------------------------------------
(* Late cancellations.                                                     *)

(* A syncer goes on without a success of run r in hand.                    *)
LEMMA SuccessMoves ==
  ASSUME TypeInv, NEW r \in Runs, ~Succeeding(r),
         NEW s \in Syncers, NEW rec, Becomes(s, rec), run' = run,
         rec.wr[r] # "succeeded",
         rec.cur = r => rec.verdict # "succeeded"
  PROVE  ~Succeeding(r)'
<1>1. \A t \in Syncers : sync'[t] = IF t = s THEN rec ELSE sync[t]
  BY DEF Becomes, TypeInv, TypeOK, SyncTypeOK
<1>2. QED
  BY <1>1 DEF Succeeding

(* A syncer that polls a cancelled job of the mock sees it cancelled, still*)
(* running or unknown; the others pass on what they have learnt.           *)
LEMMA SuccessSyncer ==
  ASSUME TypeInv, Adapter = "mock", NEW r \in Runs, job[r].told, ~Succeeding(r),
         NEW s \in Syncers, SyncerStep(s)
  PROVE  ~Succeeding(r)'
<1>1. /\ sync \in [Syncers -> SyncRecord] /\ WellAimed(sync[s])
      /\ run \in [Runs -> RunRow] /\ job \in [Runs -> JobRecord]
  BY DEF TypeInv, TypeOK, SyncTypeOK, StoreTypeOK, JobsTypeOK, SyncShape
<1>2. /\ run[r].status # "succeeded" /\ sync[s].wr[r] # "succeeded"
      /\ sync[s].cur = r => sync[s].verdict # "succeeded"
      /\ None # r /\ None # "succeeded"
  BY NoneAssumption DEF Succeeding, Status, Terminal, Outcomes
<1>3. ASSUME NEW o, run' = run, Becomes(s, Passed(s, o))
      PROVE  ~Succeeding(r)'
  <2>1. Passed(s, o).cur = None /\ Passed(s, o).wr = sync[s].wr
    BY <1>1 DEF Passed, SyncRecord
  <2>2. QED
    BY <1>2, <1>3, <2>1, SuccessMoves
<1>4. ASSUME NEW o \in Runs, NEW status, NEW note, run' = run,
             o = r => status # "succeeded",
             Becomes(s, [Passed(s, o) EXCEPT !.wr[o] = status, !.note = note])
      PROVE  ~Succeeding(r)'
  <2> DEFINE rec == [Passed(s, o) EXCEPT !.wr[o] = status, !.note = note]
  <2>1. rec.cur = None /\ rec.wr[r] = IF o = r THEN status ELSE sync[s].wr[r]
    BY <1>1 DEF Passed, SyncRecord
  <2>2. Becomes(s, rec)
    BY <1>4
  <2> HIDE DEF rec
  <2>3. QED
    BY <1>2, <1>4, <2>1, <2>2, SuccessMoves
<1>5. ASSUME NEW o \in Runs, NEW status, run' = run,
             o = r => status # "succeeded",
             Becomes(s, [Passed(s, o) EXCEPT !.wr[o] = status])
      PROVE  ~Succeeding(r)'
  <2>1. [Passed(s, o) EXCEPT !.wr[o] = status] =
          [Passed(s, o) EXCEPT !.wr[o] = status, !.note = sync[s].note]
    BY <1>1 DEF Passed, SyncRecord
  <2>2. QED
    BY <1>4, <1>5, <2>1
<1>6. CASE run' = run /\ SyncStart(s)
  <2> DEFINE rec == [IdleSync EXCEPT !.pc = "scan", !.todo = {q \in Runs : Listed(q)}]
  <2>1. rec.cur = None /\ rec.wr[r] = None
    BY DEF IdleSync, Nothing
  <2>2. Becomes(s, rec)
    BY <1>6 DEF SyncStart
  <2> HIDE DEF rec
  <2>3. QED
    BY <1>2, <1>6, <2>1, <2>2, SuccessMoves
<1>7. ASSUME run' = run, NEW o \in Runs, SyncPoll(s, o) PROVE ~Succeeding(r)'
  <2>1. CASE run[o].status \notin Unfinished
    BY <1>3, <1>7, <2>1 DEF SyncPoll
  <2>2. CASE run[o].status \in Unfinished
    <3> DEFINE rec == [sync[s] EXCEPT !.pc = IF Verdict(o) \in Terminal THEN "claim" ELSE "write",
                                      !.cur = o, !.verdict = Verdict(o)]
    <3>1. job[r].st \in {"none", "lost", "pending", "running", "ok", "bad", "killed"}
      BY <1>1 DEF JobRecord, LiveStates, DoneStates
    <3>2. Report(r).state \in {"UNKNOWN", "PENDING", "RUNNING", "CANCELLED"}
      BY <3>1 DEF Report
    <3>3. Verdict(r) # "succeeded"
      BY <1>2, <3>2 DEF Verdict, StatusOf
    <3>4. rec.wr = sync[s].wr /\ rec.cur = o /\ rec.verdict = Verdict(o)
      BY <1>1 DEF SyncRecord
    <3>5. Becomes(s, rec)
      BY <1>7, <2>2 DEF SyncPoll
    <3> HIDE DEF rec
    <3>6. QED
      BY <1>2, <1>7, <3>3, <3>4, <3>5, SuccessMoves
  <2>3. QED
    BY <2>1, <2>2
<1>8. CASE run' = run /\ SyncWrite(s)
  <2>1. sync[s].cur \in Runs
    BY <1>1, <1>8 DEF SyncWrite, WellAimed
  <2>2. QED
    BY <1>2, <1>3, <1>5, <1>8, <2>1 DEF SyncWrite
<1>9. CASE run' = run /\ SyncClaim(s)
  <2>1. sync[s].cur \in Runs
    BY <1>1, <1>9 DEF SyncClaim, WellAimed
  <2>2. CASE Claimable(sync[s].cur)
    <3> DEFINE rec == [sync[s] EXCEPT !.pc = "collect", !.wr[sync[s].cur] = sync[s].verdict]
    <3>1. /\ rec.cur = sync[s].cur /\ rec.verdict = sync[s].verdict
          /\ rec.wr[r] = IF r = sync[s].cur THEN sync[s].verdict ELSE sync[s].wr[r]
      BY <1>1, <2>1 DEF SyncRecord
    <3>2. Becomes(s, rec)
      BY <1>9, <2>2 DEF SyncClaim
    <3> HIDE DEF rec
    <3>3. QED
      BY <1>2, <1>9, <3>1, <3>2, SuccessMoves
  <2>3. CASE ~Claimable(sync[s].cur)
    BY <1>3, <1>9, <2>3 DEF SyncClaim
  <2>4. QED
    BY <2>2, <2>3
<1>10. ASSUME run' = run, NEW sent, SyncCollect(s, sent) PROVE ~Succeeding(r)'
  <2>1. sync[s].cur \in Runs
    BY <1>1, <1>10 DEF SyncCollect, WellAimed
  <2>2. \A missing \in BOOLEAN :
          sync[s].cur = r => FinalStatus(sync[s].verdict, missing) # "succeeded"
    BY <1>2 DEF FinalStatus
  <2>3. QED
    BY <1>4, <1>10, <2>1, <2>2 DEF SyncCollect
<1>11. CASE run' = run /\ SyncSkip(s)
  <2>1. CASE sync[s].pc = "scan"
    BY <1>3, <1>11, <2>1 DEF SyncSkip
  <2>2. CASE sync[s].pc \in {"write", "claim", "collect"}
    BY <1>1, <1>2, <1>5, <1>11, <2>2 DEF SyncSkip, WellAimed
  <2>3. QED
    BY <1>11, <2>1, <2>2 DEF SyncSkip
<1>12. CASE run' = run /\ SyncDeadlockVictim(s)
  BY <1>3, <1>12 DEF SyncDeadlockVictim
<1>13. CASE run' = run /\ SyncAbort(s)
  BY <1>2, <1>13, SuccessMoves DEF SyncAbort, IdleSync, Nothing
<1>14. CASE SyncCommit(s)
  <2>1. \A t \in Syncers : sync'[t] = IF t = s THEN IdleSync ELSE sync[t]
    BY <1>1, <1>14 DEF SyncCommit, Becomes
  <2>2. run'[r].status # "succeeded"
    BY <1>1, <1>2, <1>14 DEF SyncCommit, HoldsRow, RunRow
  <2>3. QED
    BY <1>2, <2>1, <2>2 DEF Succeeding, IdleSync, Nothing
<1>15. QED
  BY <1>6, <1>7, <1>8, <1>9, <1>10, <1>11, <1>12, <1>13, <1>14 DEF SyncerStep, storeVars

(* With the mock, a cancellation that reaches a job before a syncer has    *)
(* polled its clean exit keeps the run from ever being shown succeeded, for*)
(* any number of syncers, cancellations, restarts and failures.            *)
THEOREM CancellationsForestall == Adapter = "mock" => (Spec => CancelForestallsSuccess)
<1> SUFFICES ASSUME Adapter = "mock" PROVE Spec => CancelForestallsSuccess
  OBVIOUS
<1>1. ASSUME TypeInv, [Next]_vars, NEW r \in Runs, job[r].told, ~Succeeding(r)
      PROVE  ~Succeeding(r)'
  <2>1. run \in [Runs -> RunRow] /\ None \notin Runs /\ None # "succeeded"
    BY <1>1, NoneAssumption DEF TypeInv, TypeOK, StoreTypeOK, Status, Terminal, Outcomes
  <2>2. CASE sync' = sync /\ run' = run
    BY <1>1, <2>2 DEF Succeeding
  <2>3. ASSUME NEW q \in Runs, SubmissionStep(q) PROVE ~Succeeding(r)'
    <3>1. ASSUME NEW kept, Commit(q, kept), run' # run PROVE run'[r].status # "succeeded"
      BY <1>1, <2>1, <3>1 DEF Commit, CreatedRow, Succeeding
    <3>2. run' = run \/ Commit(q, TRUE) \/ Commit(q, FALSE)
      BY <2>3 DEF SubmissionStep, storeVars
    <3>3. sync' = sync
      BY <2>3 DEF SubmissionStep
    <3>4. QED
      BY <1>1, <2>2, <3>1, <3>2, <3>3 DEF Succeeding
  <2>4. ASSUME NEW q \in Runs, CancelStep(q) \/ SchedulerStep(q) PROVE ~Succeeding(r)'
    BY <2>2, <2>4 DEF CancelStep, CancelReceived, CancelSent, CancelRejected,
                      CancelUnrecorded, SchedulerStep, storeVars
  <2>5. ASSUME Restart PROVE ~Succeeding(r)'
    <3>1. run' = run /\ \A s \in Syncers : sync'[s] = IdleSync
      BY <2>5 DEF Restart, storeVars
    <3>2. QED
      BY <1>1, <2>1, <3>1 DEF Succeeding, IdleSync, Nothing
  <2>6. QED
    BY <1>1, <2>2, <2>3, <2>4, <2>5, SuccessSyncer DEF Next, vars
<1>2. TypeInv /\ [Next]_vars =>
        [\A r \in Runs : job[r].told /\ ~Succeeding(r) => ~Succeeding(r)']_vars
  BY <1>1
<1>3. Spec => []TypeInv
  BY TypeCorrect, PTL DEF TypeInv
<1>4. QED
  BY <1>2, <1>3, PTL DEF Spec, CancelForestallsSuccess

-----------------------------------------------------------------------------
(* Jobs the mock has lost.                                                 *)

(* No syncer is about to change the run's row: it holds no row lock on it, *)
(* and if it is the run at hand, its status would be written back as read. *)
LeftAlone(s, r) ==
  /\ ~HoldsRow(s, r)
  /\ sync[s].cur = r =>
       /\ sync[s].pc = "write"
       /\ run[r].status \in Unfinished
       /\ sync[s].verdict = run[r].status

(* The mock only loses jobs when the process restarts, which ends every    *)
(* syncer; from then on a poll learns nothing.                             *)
LostIsLeft ==
  Adapter = "mock" =>
    \A r \in Runs, s \in Syncers : job[r].st = "lost" => LeftAlone(s, r)

LEMMA LostInit == Init => LostIsLeft
BY DEF Init, JobsInit, NoJob, LostIsLeft

(* A syncer goes on; of the runs without a job it leaves all alone.        *)
LEMMA LostMoves ==
  ASSUME TypeInv, LostIsLeft, NEW s \in Syncers, NEW rec, Becomes(s, rec),
         UNCHANGED <<run, job>>,
         \A r \in Runs : Adapter = "mock" /\ job[r].st = "lost" =>
           /\ rec.wr[r] = None
           /\ rec.cur = r => /\ rec.pc = "write"
                             /\ run[r].status \in Unfinished
                             /\ rec.verdict = run[r].status
  PROVE  LostIsLeft'
<1>1. \A t \in Syncers : sync'[t] = IF t = s THEN rec ELSE sync[t]
  BY DEF Becomes, TypeInv, TypeOK, SyncTypeOK
<1>2. ASSUME NEW t \in Syncers, NEW r \in Runs, Adapter = "mock", job[r].st = "lost"
      PROVE  LeftAlone(t, r)'
  BY <1>1, <1>2 DEF LostIsLeft, LeftAlone, HoldsRow
<1>3. QED
  BY <1>2 DEF LostIsLeft

LEMMA LostSyncer ==
  ASSUME IInv, LostIsLeft, NEW s \in Syncers, SyncerStep(s)
  PROVE  LostIsLeft'
<1>1. /\ TypeInv /\ sync \in [Syncers -> SyncRecord] /\ WellAimed(sync[s])
      /\ run \in [Runs -> RunRow]
  BY DEF IInv, TypeInv, TypeOK, SyncTypeOK, StoreTypeOK, SyncShape
<1>2. job' = job /\ None \notin Runs
  BY NoneAssumption DEF SyncerStep
<1> DEFINE Lost(r) == Adapter = "mock" /\ job[r].st = "lost"
<1>3. \A r \in Runs : Lost(r) => sync[s].wr[r] = None
  BY DEF LostIsLeft, LeftAlone, HoldsRow
<1>4. ASSUME NEW r, run' = run, Becomes(s, Passed(s, r))
      PROVE  LostIsLeft'
  <2>1. Passed(s, r).cur = None /\ Passed(s, r).wr = sync[s].wr
    BY <1>1 DEF Passed, SyncRecord
  <2>2. QED
    BY <1>1, <1>2, <1>3, <1>4, <2>1, LostMoves
<1>5. ASSUME NEW r \in Runs, NEW status, NEW note, run' = run,
             ~Lost(r) \/ status = None,
             Becomes(s, [Passed(s, r) EXCEPT !.wr[r] = status, !.note = note])
      PROVE  LostIsLeft'
  <2> DEFINE rec == [Passed(s, r) EXCEPT !.wr[r] = status, !.note = note]
  <2>1. rec.cur = None /\ \A o \in Runs : rec.wr[o] = IF o = r THEN status ELSE sync[s].wr[o]
    BY <1>1 DEF Passed, SyncRecord
  <2>2. Becomes(s, rec)
    BY <1>5
  <2> HIDE DEF rec
  <2>3. QED
    BY <1>1, <1>2, <1>3, <1>5, <2>1, <2>2, LostMoves
<1>6. ASSUME NEW r \in Runs, NEW status, run' = run,
             ~Lost(r) \/ status = None,
             Becomes(s, [Passed(s, r) EXCEPT !.wr[r] = status])
      PROVE  LostIsLeft'
  <2>1. [Passed(s, r) EXCEPT !.wr[r] = status] =
          [Passed(s, r) EXCEPT !.wr[r] = status, !.note = sync[s].note]
    BY <1>1 DEF Passed, SyncRecord
  <2>2. QED
    BY <1>5, <1>6, <2>1
<1>7. ASSUME NEW r \in Runs, sync[s].cur = r, sync[s].pc \in {"claim", "collect"}
      PROVE  ~Lost(r)
  BY <1>7 DEF LostIsLeft, LeftAlone
<1>8. CASE run' = run /\ SyncStart(s)
  <2> DEFINE rec == [IdleSync EXCEPT !.pc = "scan", !.todo = {r \in Runs : Listed(r)}]
  <2>1. rec.cur = None /\ \A r \in Runs : rec.wr[r] = None
    BY DEF IdleSync, Nothing
  <2>2. Becomes(s, rec)
    BY <1>8 DEF SyncStart
  <2> HIDE DEF rec
  <2>3. QED
    BY <1>1, <1>2, <1>8, <2>1, <2>2, LostMoves
<1>9. ASSUME run' = run, NEW r \in Runs, SyncPoll(s, r) PROVE LostIsLeft'
  <2>1. CASE run[r].status \notin Unfinished
    BY <1>4, <1>9, <2>1 DEF SyncPoll
  <2>2. CASE run[r].status \in Unfinished
    <3> DEFINE rec == [sync[s] EXCEPT !.pc = IF Verdict(r) \in Terminal THEN "claim" ELSE "write",
                                      !.cur = r, !.verdict = Verdict(r)]
    <3>1. Lost(r) => Verdict(r) = run[r].status
      BY DEF Verdict, Report
    <3>2. /\ rec.wr = sync[s].wr /\ rec.cur = r /\ rec.verdict = Verdict(r)
          /\ Verdict(r) \notin Terminal => rec.pc = "write"
      BY <1>1 DEF SyncRecord
    <3>3. Becomes(s, rec)
      BY <1>9, <2>2 DEF SyncPoll
    <3>4. \A st \in Unfinished : st \notin Terminal
      BY DEF Unfinished, Terminal, Outcomes
    <3> HIDE DEF rec
    <3>5. QED
      BY <1>1, <1>2, <1>3, <1>9, <2>2, <3>1, <3>2, <3>3, <3>4, LostMoves
  <2>3. QED
    BY <2>1, <2>2
<1>10. CASE run' = run /\ SyncWrite(s)
  <2>1. sync[s].cur \in Runs
    BY <1>1, <1>10 DEF SyncWrite, WellAimed
  <2>2. run[sync[s].cur].status # sync[s].verdict => ~Lost(sync[s].cur)
    BY <2>1 DEF LostIsLeft, LeftAlone
  <2>3. QED
    BY <1>4, <1>6, <1>10, <2>1, <2>2 DEF SyncWrite
<1>11. CASE run' = run /\ SyncClaim(s)
  <2>1. sync[s].cur \in Runs /\ ~Lost(sync[s].cur)
    BY <1>1, <1>7, <1>11 DEF SyncClaim, WellAimed
  <2>2. CASE Claimable(sync[s].cur)
    <3> DEFINE rec == [sync[s] EXCEPT !.pc = "collect", !.wr[sync[s].cur] = sync[s].verdict]
    <3>1. /\ rec.cur = sync[s].cur
          /\ \A o \in Runs \ {sync[s].cur} : rec.wr[o] = sync[s].wr[o]
      BY <1>1 DEF SyncRecord
    <3>2. Becomes(s, rec)
      BY <1>11, <2>2 DEF SyncClaim
    <3> HIDE DEF rec
    <3>3. QED
      BY <1>1, <1>2, <1>3, <1>11, <2>1, <3>1, <3>2, LostMoves
  <2>3. CASE ~Claimable(sync[s].cur)
    BY <1>4, <1>11, <2>3 DEF SyncClaim
  <2>4. QED
    BY <2>2, <2>3
<1>12. ASSUME run' = run, NEW sent, SyncCollect(s, sent) PROVE LostIsLeft'
  <2>1. sync[s].cur \in Runs /\ ~Lost(sync[s].cur)
    BY <1>1, <1>7, <1>12 DEF SyncCollect, WellAimed
  <2>2. QED
    BY <1>5, <1>12, <2>1 DEF SyncCollect
<1>13. CASE run' = run /\ SyncSkip(s)
  <2>1. CASE sync[s].pc = "scan"
    BY <1>4, <1>13, <2>1 DEF SyncSkip
  <2>2. CASE sync[s].pc \in {"write", "claim", "collect"}
    BY <1>1, <1>6, <1>13, <2>2 DEF SyncSkip, WellAimed
  <2>3. QED
    BY <1>13, <2>1, <2>2 DEF SyncSkip
<1>14. CASE run' = run /\ SyncDeadlockVictim(s)
  BY <1>4, <1>14 DEF SyncDeadlockVictim
<1>15. CASE run' = run /\ SyncAbort(s)
  BY <1>1, <1>2, <1>15, LostMoves DEF SyncAbort, IdleSync, Nothing
<1>16. CASE SyncCommit(s)
  <2>1. \A t \in Syncers : sync'[t] = IF t = s THEN IdleSync ELSE sync[t]
    BY <1>1, <1>16 DEF SyncCommit, Becomes
  <2>2. \A r \in Runs : Lost(r) => run'[r] = run[r]
    BY <1>1, <1>3, <1>16 DEF SyncCommit, HoldsRow
  <2>3. ASSUME NEW t \in Syncers, NEW r \in Runs, Lost(r)
        PROVE  LeftAlone(t, r)'
    BY <1>2, <2>1, <2>2, <2>3 DEF LostIsLeft, LeftAlone, HoldsRow, IdleSync, Nothing
  <2>4. QED
    BY <1>2, <2>3 DEF LostIsLeft
<1>17. QED
  BY <1>8, <1>9, <1>10, <1>11, <1>12, <1>13, <1>14, <1>15, <1>16 DEF SyncerStep, storeVars

(* A request: only a run nobody works on yet is created, and no job is lost*)
(* by submitting one.                                                      *)
LEMMA LostSubmission ==
  ASSUME IInv, LostIsLeft, NEW q \in Runs, SubmissionStep(q)
  PROVE  /\ LostIsLeft'
         /\ \A r \in Runs : run[r].status \in Unfinished => run'[r] = run[r]
<1>1. /\ job \in [Runs -> JobRecord] /\ run \in [Runs -> RunRow] /\ sync' = sync
  BY DEF IInv, TypeInv, TypeOK, JobsTypeOK, StoreTypeOK, SubmissionStep
<1>2. \A r \in Runs : job'[r].st = "lost" => job[r].st = "lost"
  <2>1. job' = job \/ Accept(q)
    BY DEF SubmissionStep, SubmitAccepted, SubmitFails, SubmitAnswerLost
  <2>2. QED
    BY <1>1, <2>1 DEF Accept
<1>3. \A r \in Runs : run'[r] = run[r] \/ (r = q /\ ~Exists(q))
  <2>1. ASSUME NEW sent, Commit(q, sent) PROVE ~Exists(q)
    BY <2>1 DEF Commit, IInv, History, RowsAreRequests
  <2>2. ASSUME NEW sent, NEW r \in Runs, Commit(q, sent), r # q PROVE run'[r] = run[r]
    BY <1>1, <2>2 DEF Commit
  <2>3. run' = run \/ Commit(q, TRUE) \/ Commit(q, FALSE)
    BY DEF SubmissionStep, storeVars
  <2>4. QED
    BY <1>1, <2>1, <2>2, <2>3
<1>4. ~Exists(q) => \A s \in Syncers : ~HoldsRow(s, q) /\ sync[s].cur # q
  BY DEF IInv, Locking, RunsHaveJobs, HoldsRow
<1>5. ASSUME NEW s \in Syncers, NEW r \in Runs, Adapter = "mock", job'[r].st = "lost"
      PROVE  LeftAlone(s, r)'
  BY <1>1, <1>2, <1>3, <1>4, <1>5 DEF LostIsLeft, LeftAlone, HoldsRow
<1>6. \A r \in Runs : run[r].status \in Unfinished => run'[r] = run[r]
  BY <1>3 DEF Exists, Unfinished
<1>7. QED
  BY <1>5, <1>6 DEF LostIsLeft

LEMMA LostStep == IInv /\ LostIsLeft /\ [Next]_vars => LostIsLeft'
<1> SUFFICES ASSUME IInv, LostIsLeft, [Next]_vars PROVE LostIsLeft'
  OBVIOUS
<1>1. job \in [Runs -> JobRecord]
  BY DEF IInv, TypeInv, TypeOK, JobsTypeOK
<1>2. CASE UNCHANGED vars
  BY <1>2 DEF vars, LostIsLeft, LeftAlone, HoldsRow
<1>3. ASSUME NEW q \in Runs, CancelStep(q) \/ SchedulerStep(q) PROVE LostIsLeft'
  <2>1. run' = run /\ sync' = sync
    BY <1>3 DEF CancelStep, CancelReceived, CancelSent, CancelRejected, CancelUnrecorded,
                SchedulerStep, storeVars
  <2>2. ASSUME Adapter = "mock", NEW r \in Runs, job'[r].st = "lost" PROVE job[r].st = "lost"
    BY <1>1, <1>3, <2>2
    DEF CancelStep, CancelReceived, CancelSent, CancelRejected, CancelUnrecorded, Cancel,
        SchedulerStep, JobStep, JobStarts, JobRequeued, JobExits, JobPreempted, JobForgotten,
        SetState, JobRecord
  <2>3. QED
    BY <2>1, <2>2 DEF LostIsLeft, LeftAlone, HoldsRow
<1>4. ASSUME Restart PROVE LostIsLeft'
  <2>1. \A s \in Syncers : sync'[s] = IdleSync
    BY <1>4 DEF Restart
  <2>2. \A s \in Syncers, r \in Runs : ~HoldsRow(s, r)' /\ sync'[s].cur # r
    BY <2>1, NoneAssumption DEF HoldsRow, IdleSync, Nothing
  <2>3. QED
    BY <2>2 DEF LostIsLeft, LeftAlone
<1>5. QED
  BY <1>2, <1>3, <1>4, LostSubmission, LostSyncer DEF Next

LEMMA LostAlways == Spec => []LostIsLeft
BY Invariance, LostInit, LostStep, PTL DEF Spec

(* GR-015: with the mock, whose jobs do not survive a restart, an          *)
(* unfinished run whose job is gone keeps its status: no syncer guesses its*)
(* end, and none that had polled before the restart writes afterwards.     *)
THEOREM LostJobsKeepTheirStatus == Adapter = "mock" => (Spec => LostJobKeepsStatus)
<1> SUFFICES ASSUME Adapter = "mock" PROVE Spec => LostJobKeepsStatus
  OBVIOUS
<1>1. ASSUME IInv, LostIsLeft, [Next]_vars, NEW r \in Runs,
             job[r].st = "lost", run[r].status \in Unfinished
      PROVE  run'[r] = run[r]
  <2>1. ASSUME NEW s \in Syncers, SyncCommit(s) PROVE run'[r] = run[r]
    BY <1>1, <2>1 DEF SyncCommit, LostIsLeft, LeftAlone
  <2>2. ASSUME NEW s \in Syncers, SyncerStep(s) PROVE run'[r] = run[r]
    BY <2>1, <2>2 DEF SyncerStep, storeVars
  <2>3. ASSUME NEW q \in Runs, CancelStep(q) \/ SchedulerStep(q) PROVE run' = run
    BY <2>3 DEF CancelStep, CancelReceived, CancelSent, CancelRejected, CancelUnrecorded,
                SchedulerStep, storeVars
  <2>4. Restart => run' = run
    BY DEF Restart, storeVars
  <2>5. QED
    BY <1>1, <2>2, <2>3, <2>4, LostSubmission DEF Next, vars
<1>2. IInv /\ LostIsLeft /\ [Next]_vars =>
        [\A r \in Runs : (job[r].st = "lost" /\ run[r].status \in Unfinished) =>
           run'[r] = run[r]]_vars
  BY <1>1
<1>3. Spec => [](IInv /\ LostIsLeft)
  BY Invariance, LostAlways, PTL
<1>4. QED
  BY <1>2, <1>3, PTL DEF Spec, LostJobKeepsStatus

=============================================================================
