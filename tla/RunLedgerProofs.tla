-------------------------- MODULE RunLedgerProofs --------------------------
(***************************************************************************)
(* What holds of RunSystem when syncers do not overlap: the concurrency    *)
(* limit, final statuses, exactly one finish per run, and the refinement   *)
(* of RunLedger.  (With two syncers a finished run can become unfinished   *)
(* again and be finished twice: see the run finding_stale_write.)          *)
(***************************************************************************)
EXTENDS RunSystemProofs, FiniteSetTheorems

SingleSyncer == \A s, t \in Syncers : s = t

(* The rows a syncer works from are still unfinished when it commits.      *)
FreshRows ==
  \A s \in Syncers, r \in Runs :
    (r \in sync[s].todo \/ sync[s].cur = r \/ sync[s].wr[r] # None)
      => run[r].status \in Unfinished

(* A notification goes with an outcome that is not a cancellation, and its *)
(* run is not processed again.                                             *)
NotesFollowOutcomes ==
  \A s \in Syncers : \A r \in sync[s].note :
    /\ sync[s].wr[r] \in Outcomes \ {"cancelled"}
    /\ r \notin sync[s].todo
    /\ sync[s].cur # r

(* The entitlement row is locked by one request at a time, and the slot it *)
(* was admitted for stays free until it commits.                           *)
PlansAreLocked ==
  /\ \A p \in Plans, q, o \in Runs : HoldsPlan(q, p) /\ HoldsPlan(o, p) => q = o
  /\ \A q \in Runs : tx[q].pc \in {"submit", "accepted", "rejected"} =>
       HasFreeSlot(tx[q].plan)
  /\ \A q \in Runs : tx[q].pc # "new" => tx[q].plan \in Plans

Fresh == FreshRows /\ NotesFollowOutcomes /\ FinishedOnce

Slots == PlansAreLocked /\ LimitRespected

-----------------------------------------------------------------------------
(* Slots on a plan are finitely many, and only fewer when runs finish.     *)
LEMMA SlotsCount ==
  ASSUME NEW p PROVE IsFiniteSet(UnfinishedOn(p)) /\ Cardinality(UnfinishedOn(p)) \in Nat
<1>1. UnfinishedOn(p) \subseteq Runs
  BY DEF UnfinishedOn
<1>2. IsFiniteSet(UnfinishedOn(p))
  BY <1>1, FiniteAssumption, FS_Subset
<1>3. QED
  BY <1>2, FS_CardinalityType

LEMMA SlotsShrink ==
  ASSUME NEW p \in Plans, UnfinishedOn(p)' \subseteq UnfinishedOn(p)
  PROVE  /\ HasFreeSlot(p) => HasFreeSlot(p)'
         /\ Cardinality(UnfinishedOn(p)) <= Limit[p]
              => Cardinality(UnfinishedOn(p)') <= Limit[p]
<1>1. /\ IsFiniteSet(UnfinishedOn(p)')
      /\ Cardinality(UnfinishedOn(p)') <= Cardinality(UnfinishedOn(p))
      /\ Cardinality(UnfinishedOn(p)') \in Nat
  BY SlotsCount, FS_Subset, FS_CardinalityType
<1>2. Cardinality(UnfinishedOn(p)) \in Nat /\ Limit[p] \in Nat
  BY SlotsCount, LimitAssumption
<1>3. QED
  BY <1>1, <1>2 DEF HasFreeSlot

(* Steps after which no run takes a slot it did not have before.           *)
LEMMA SlotsKept ==
  ASSUME IInv, Slots,
         \A r \in Runs : run'[r].status \in Unfinished =>
           run[r].status \in Unfinished /\ run'[r].plan = run[r].plan,
         \A q \in Runs : tx'[q].pc # "new" => tx'[q].plan \in Plans,
         \A q \in Runs : tx'[q].pc \in {"submit", "accepted", "rejected"} =>
           /\ tx'[q].plan = tx[q].plan
           /\ tx[q].pc \in {"submit", "accepted", "rejected"} \/ HasFreeSlot(tx[q].plan),
         \A q \in Runs, p \in Plans : HoldsPlan(q, p)' =>
           HoldsPlan(q, p) \/ \A o \in Runs : HoldsPlan(o, p)' => o = q
  PROVE  Slots'
<1>1. ASSUME NEW p \in Plans PROVE UnfinishedOn(p)' \subseteq UnfinishedOn(p)
  BY DEF UnfinishedOn
<1>2. LimitRespected'
  BY <1>1, SlotsShrink DEF Slots, LimitRespected
<1>3. ASSUME NEW q \in Runs, tx'[q].pc \in {"submit", "accepted", "rejected"}
      PROVE  HasFreeSlot(tx[q].plan)'
  <2>1. HasFreeSlot(tx[q].plan) /\ tx'[q].plan = tx[q].plan /\ tx[q].plan \in Plans
    BY <1>3 DEF Slots, PlansAreLocked
  <2>2. QED
    BY <1>1, <2>1, SlotsShrink
<1>4. PlansAreLocked'
  BY <1>3 DEF Slots, PlansAreLocked
<1>5. QED
  BY <1>2, <1>4 DEF Slots

LEMMA SlotsSubmission ==
  ASSUME IInv, Slots, NEW q \in Runs, SubmissionStep(q)
  PROVE  Slots'
<1>1. tx \in [Runs -> TxRecord] /\ run \in [Runs -> RunRow]
  BY DEF IInv, TypeInv, TypeOK, TxTypeOK, StoreTypeOK
<1>2. PlansAreLocked /\ LimitRespected
  BY DEF Slots
<1>3. ASSUME NEW pc, Goto(q, pc)
      PROVE  \A o \in Runs : /\ tx'[o].pc = IF o = q THEN pc ELSE tx[o].pc
                             /\ tx'[o].plan = tx[o].plan
  BY <1>1, <1>3 DEF Goto, TxRecord
<1>4. CASE Receive(q) /\ UNCHANGED <<storeVars, job>>
  <2>1. PICK m \in Creations \cup Reruns, pc \in {"lock", "reserve", "replayed", "conflict"}
             : \E reply : Accepting(q, m, pc, reply)
    BY <1>4 DEF Receive
  <2>2. m.plan \in Plans
    <3>1. CASE m \in Creations
      BY <3>1 DEF Creations
    <3>2. CASE m \in Reruns
      <4>1. PICK r \in Runs : Exists(r) /\ m.plan = run[r].plan
        BY <3>2 DEF Reruns
      <4>2. run[r].plan = tx[r].plan /\ tx[r].pc = "committed"
        BY <4>1 DEF IInv, History, RowsAreRequests
      <4>3. QED
        BY <1>2, <4>1, <4>2 DEF PlansAreLocked
    <3>3. QED
      BY <3>1, <3>2
  <2>3. /\ tx'[q].pc = pc
        /\ tx'[q].plan = m.plan
        /\ \A o \in Runs \ {q} : tx'[o] = tx[o]
    BY <1>1, <2>1 DEF Accepting
  <2>4. run' = run
    BY <1>4 DEF storeVars
  <2>5. /\ \A o \in Runs : tx'[o].pc # "new" => tx'[o].plan \in Plans
        /\ \A o \in Runs : tx'[o].pc \in {"submit", "accepted", "rejected"} =>
             tx'[o].plan = tx[o].plan /\ tx[o].pc \in {"submit", "accepted", "rejected"}
    BY <1>2, <2>2, <2>3 DEF PlansAreLocked
  <2>6. \A o \in Runs, p \in Plans : HoldsPlan(o, p)' => HoldsPlan(o, p)
    BY <2>3 DEF HoldsPlan
  <2>7. QED
    BY <2>4, <2>5, <2>6, SlotsKept
<1>5. ASSUME NEW pc \in Working \cup Ended, Goto(q, pc), run' = run,
             tx[q].pc \in Working,
             pc \in {"submit", "accepted", "rejected"} =>
               tx[q].pc = "submit" \/ HasFreeSlot(tx[q].plan),
             \A p \in Plans : HoldsPlan(q, p)' =>
               HoldsPlan(q, p) \/ \A o \in Runs : ~HoldsPlan(o, p)
      PROVE  Slots'
  <2>1. /\ \A o \in Runs : tx'[o].pc # "new" => tx'[o].plan \in Plans
        /\ \A o \in Runs : tx'[o].pc \in {"submit", "accepted", "rejected"} =>
             /\ tx'[o].plan = tx[o].plan
             /\ tx[o].pc \in {"submit", "accepted", "rejected"} \/ HasFreeSlot(tx[o].plan)
    BY <1>2, <1>3, <1>5 DEF PlansAreLocked, Working
  <2>2. \A o \in Runs \ {q}, p \in Plans : HoldsPlan(o, p)' <=> HoldsPlan(o, p)
    BY <1>3, <1>5 DEF HoldsPlan
  <2>3. \A o \in Runs, p \in Plans : HoldsPlan(o, p)' =>
           HoldsPlan(o, p) \/ \A u \in Runs : HoldsPlan(u, p)' => u = o
    BY <1>5, <2>2
  <2>4. QED
    BY <1>5, <2>1, <2>3, SlotsKept
<1>6. CASE /\ \/ Reserve(q) \/ LockPlan(q) \/ Refuse(q) \/ Admit(q) \/ RefuseAtLimit(q)
              \/ Aborted(q) \/ SubmitAccepted(q) \/ SubmitFails(q) \/ SubmitAnswerLost(q)
           /\ UNCHANGED storeVars
  <2>1. PICK pc \in {"lock", "conflict", "refused", "aborted", "preflight", "submit",
                     "accepted", "rejected"} :
          /\ Goto(q, pc)
          /\ tx[q].pc \in Working
          /\ pc = "preflight" => \A o \in Runs : ~HoldsPlan(o, tx[q].plan)
          /\ pc = "submit" => tx[q].pc = "preflight" /\ HasFreeSlot(tx[q].plan)
          /\ pc \in {"accepted", "rejected"} => tx[q].pc = "submit"
    BY <1>6 DEF Reserve, LockPlan, Refuse, Admit, RefuseAtLimit, Aborted,
                SubmitAccepted, SubmitFails, SubmitAnswerLost, Working
  <2>2. \A p \in Plans : HoldsPlan(q, p)' =>
          HoldsPlan(q, p) \/ \A o \in Runs : ~HoldsPlan(o, p)
    BY <1>3, <2>1 DEF HoldsPlan
  <2>3. pc \in Working \cup Ended /\ run' = run
    BY <1>6 DEF Working, Ended, storeVars
  <2>4. QED
    BY <1>5, <2>1, <2>2, <2>3
<1>7. CASE \E sent \in BOOLEAN : Commit(q, sent)
  <2>1. /\ tx[q].pc \in {"accepted", "rejected"}
        /\ run' = [run EXCEPT ![q] = CreatedRow(q)]
        /\ tx' = [tx EXCEPT ![q].pc = "committed", ![q].reply = q]
    BY <1>7 DEF Commit
  <2>2. \A o \in Runs : /\ tx'[o].pc = IF o = q THEN "committed" ELSE tx[o].pc
                        /\ tx'[o].plan = tx[o].plan
    BY <1>1, <2>1 DEF TxRecord
  <2>3. /\ \A r \in Runs \ {q} : run'[r] = run[r]
        /\ run'[q].plan = tx[q].plan
    BY <1>1, <2>1 DEF CreatedRow
  <2>4. HasFreeSlot(tx[q].plan) /\ tx[q].plan \in Plans /\ HoldsPlan(q, tx[q].plan)
    BY <1>2, <2>1 DEF PlansAreLocked, HoldsPlan
  <2>5. ASSUME NEW p \in Plans, p # tx[q].plan
        PROVE  UnfinishedOn(p)' \subseteq UnfinishedOn(p)
    BY <2>3, <2>5 DEF UnfinishedOn
  <2>6. Cardinality(UnfinishedOn(tx[q].plan)') <= Limit[tx[q].plan]
    <3> DEFINE S == UnfinishedOn(tx[q].plan)
    <3>1. UnfinishedOn(tx[q].plan)' \subseteq S \cup {q}
      BY <2>2, <2>3 DEF UnfinishedOn
    <3>2. IsFiniteSet(S) /\ Cardinality(S) \in Nat /\ Cardinality(S) < Limit[tx[q].plan]
      BY <2>4, SlotsCount DEF HasFreeSlot
    <3>3. Limit[tx[q].plan] \in Nat
      BY <2>4, LimitAssumption
    <3> HIDE DEF S
    <3>4. /\ IsFiniteSet(S \cup {q})
          /\ Cardinality(S \cup {q}) \in Nat
          /\ Cardinality(S \cup {q}) <= Cardinality(S) + 1
      <4>1. q \in S => S \cup {q} = S
        OBVIOUS
      <4>2. QED
        <5>1. CASE q \in S
          BY <3>2, <4>1, <5>1
        <5>2. CASE q \notin S
          <6>1. IsFiniteSet(S \cup {q}) /\ Cardinality(S \cup {q}) = Cardinality(S) + 1
            BY <3>2, <5>2, FS_AddElement
          <6>2. QED
            BY <3>2, <6>1
        <5>3. QED
          BY <5>1, <5>2
    <3>5. /\ Cardinality(UnfinishedOn(tx[q].plan)') <= Cardinality(S \cup {q})
          /\ Cardinality(UnfinishedOn(tx[q].plan)') \in Nat
      BY <3>1, <3>4, FS_Subset, FS_CardinalityType
    <3>6. QED
      BY <3>2, <3>3, <3>4, <3>5
  <2>7. LimitRespected'
    <3> SUFFICES ASSUME NEW p \in Plans
                 PROVE  Cardinality(UnfinishedOn(p)') <= Limit[p]
      BY DEF LimitRespected
    <3>1. CASE p = tx[q].plan
      <4>1. UnfinishedOn(p)' = UnfinishedOn(tx[q].plan)'
        BY <2>2, <3>1 DEF UnfinishedOn
      <4>2. QED
        BY <2>6, <3>1, <4>1
    <3>2. CASE p # tx[q].plan
      BY <1>2, <2>5, <3>2, SlotsShrink DEF LimitRespected
    <3>3. QED
      BY <3>1, <3>2
  <2>8. ASSUME NEW o \in Runs, tx'[o].pc \in {"submit", "accepted", "rejected"}
        PROVE  HasFreeSlot(tx[o].plan)'
    <3>1. /\ o # q
          /\ tx[o].plan \in Plans
          /\ tx'[o].plan = tx[o].plan
          /\ HasFreeSlot(tx[o].plan)
          /\ HoldsPlan(o, tx[o].plan)
      BY <1>2, <2>2, <2>8 DEF PlansAreLocked, HoldsPlan
    <3>2. tx[o].plan # tx[q].plan
      BY <1>2, <2>4, <3>1 DEF PlansAreLocked
    <3>3. QED
      BY <2>5, <3>1, <3>2, SlotsShrink
  <2>9. PlansAreLocked'
    <3>1. \A o \in Runs, p \in Plans : HoldsPlan(o, p)' => HoldsPlan(o, p)
      BY <2>2 DEF HoldsPlan
    <3>2. \A o \in Runs : tx'[o].pc # "new" => tx'[o].plan \in Plans
      BY <1>2, <2>1, <2>2 DEF PlansAreLocked
    <3>3. QED
      BY <1>2, <2>8, <3>1, <3>2 DEF PlansAreLocked
  <2>10. QED
    BY <2>7, <2>9 DEF Slots
<1>8. QED
  BY <1>4, <1>6, <1>7 DEF SubmissionStep

-----------------------------------------------------------------------------
(* Fresh rows.                                                             *)

(* Requests, cancellations and the scheduler create rows and change no     *)
(* other.                                                                  *)
LEMMA FreshSubmission ==
  ASSUME IInv, Fresh, NEW q \in Runs, SubmissionStep(q)
  PROVE  Fresh'
<1>1. FreshRows /\ NotesFollowOutcomes /\ FinishedOnce
  BY DEF Fresh
<1>2. sync' = sync
  BY DEF SubmissionStep
<1>3. CASE UNCHANGED storeVars
  BY <1>1, <1>2, <1>3 DEF Fresh, FreshRows, NotesFollowOutcomes, FinishedOnce, storeVars
<1>4. CASE \E sent \in BOOLEAN : Commit(q, sent)
  <2>1. ~Exists(q)
    BY <1>4 DEF Commit, IInv, History, RowsAreRequests
  <2>2. /\ run' = [run EXCEPT ![q] = CreatedRow(q)]
        /\ finals' = finals
        /\ tx[q].pc \in {"accepted", "rejected"}
        /\ notices'[q] = notices[q] \/ (tx[q].pc = "rejected" /\ notices'[q] = Bump(notices[q]))
        /\ \A r \in Runs \ {q} : notices'[r] = notices[r]
    BY <1>4 DEF Commit, IInv, TypeInv, TypeOK, StoreTypeOK
  <2>3. /\ \A r \in Runs \ {q} : run'[r] = run[r]
        /\ run'[q].status = IF tx[q].pc = "accepted" THEN "queued" ELSE "submit_failed"
    BY <2>2 DEF CreatedRow, IInv, TypeInv, TypeOK, StoreTypeOK
  <2>4. FreshRows'
    BY <1>1, <1>2, <2>1, <2>3 DEF FreshRows, Exists, Unfinished
  <2>5. NotesFollowOutcomes'
    BY <1>1, <1>2 DEF NotesFollowOutcomes
  <2>6. finals[q] = 0 /\ notices[q] = 0
    <3>1. run[q].status = "absent"
      BY <2>1 DEF Exists
    <3>2. notices[q] \in 0..Many /\ notices[q] <= 1 /\ notices[q] # 1
      BY <1>1, <3>1
      DEF FinishedOnce, IInv, TypeInv, TypeOK, StoreTypeOK, Terminal, Outcomes
    <3>3. QED
      BY <1>1, <3>1, <3>2 DEF FinishedOnce, Outcomes, Many
  <2>7. notices'[q] \in {0, 1} /\ (notices'[q] = 1 => tx[q].pc = "rejected")
    BY <2>2, <2>6 DEF Bump, Many
  <2>8. FinishedOnce'
    BY <1>1, <2>2, <2>3, <2>6, <2>7 DEF FinishedOnce, Outcomes, Terminal
  <2>9. QED
    BY <2>4, <2>5, <2>8 DEF Fresh
<1>5. QED
  BY <1>3, <1>4 DEF SubmissionStep

(* A syncer's own step: the rows it goes on to were just read, the rows it *)
(* writes it read, and a notification goes with an outcome.                *)
LEMMA FreshMoves ==
  ASSUME IInv, Fresh, NEW s \in Syncers, NEW rec, Becomes(s, rec), UNCHANGED storeVars,
         \A r \in Runs : (r \in rec.todo \/ rec.cur = r \/ rec.wr[r] # None)
                           => run[r].status \in Unfinished,
         \A r \in rec.note : /\ rec.wr[r] \in Outcomes \ {"cancelled"}
                             /\ r \notin rec.todo
                             /\ rec.cur # r
  PROVE  Fresh'
<1>1. FreshRows /\ NotesFollowOutcomes /\ FinishedOnce
  BY DEF Fresh
<1>2. sync'[s] = rec /\ \A t \in Syncers \ {s} : sync'[t] = sync[t]
  BY DEF Becomes, IInv, TypeInv, TypeOK, SyncTypeOK
<1>3. FreshRows' /\ NotesFollowOutcomes'
  BY <1>1, <1>2 DEF FreshRows, NotesFollowOutcomes, storeVars
<1>4. FinishedOnce'
  BY <1>1 DEF FinishedOnce, storeVars
<1>5. QED
  BY <1>3, <1>4 DEF Fresh

LEMMA FreshSyncer ==
  ASSUME IInv, Fresh, NEW s \in Syncers, SyncerStep(s), ~SyncCommit(s)
  PROVE  Fresh'
<1>1. UNCHANGED storeVars
  BY DEF SyncerStep
<1>2. sync[s] \in SyncRecord /\ WellAimed(sync[s])
  BY DEF IInv, TypeInv, TypeOK, SyncTypeOK, SyncShape
<1>3. ASSUME NEW r \in Runs
      PROVE  (r \in sync[s].todo \/ sync[s].cur = r \/ sync[s].wr[r] # None)
               => run[r].status \in Unfinished
  BY DEF Fresh, FreshRows
<1>4. ASSUME NEW r \in sync[s].note
      PROVE  /\ r \in Runs
             /\ sync[s].wr[r] \in Outcomes \ {"cancelled"}
             /\ r \notin sync[s].todo
             /\ sync[s].cur # r
  BY <1>2 DEF Fresh, NotesFollowOutcomes, SyncRecord
<1>5. ASSUME NEW r
      PROVE  /\ Passed(s, r) \in SyncRecord
             /\ Passed(s, r).cur = None
             /\ Passed(s, r).wr = sync[s].wr
             /\ Passed(s, r).note = sync[s].note
             /\ Passed(s, r).todo = sync[s].todo \ {r}
  BY <1>2 DEF Passed, SyncRecord
<1>6. ASSUME NEW r, Becomes(s, Passed(s, r)) PROVE Fresh'
  <2> DEFINE rec == Passed(s, r)
  <2>1. \A x \in Runs : (x \in rec.todo \/ rec.cur = x \/ rec.wr[x] # None)
                          => run[x].status \in Unfinished
    BY <1>3, <1>5, NoneAssumption
  <2>2. \A x \in rec.note : /\ rec.wr[x] \in Outcomes \ {"cancelled"}
                            /\ x \notin rec.todo
                            /\ rec.cur # x
    BY <1>4, <1>5, NoneAssumption
  <2>3. QED
    BY <1>1, <1>6, <2>1, <2>2, FreshMoves
<1>7. CASE SyncStart(s)
  <2> DEFINE rec == [IdleSync EXCEPT !.pc = "scan",
                       !.todo = {r \in Runs : Listed(r)}]
  <2>1. /\ rec.cur = None
        /\ rec.note = {}
        /\ \A r \in Runs : /\ r \in rec.todo => run[r].status \in Unfinished
                           /\ rec.wr[r] = None
    BY DEF IdleSync, Nothing, Listed
  <2>2. Becomes(s, rec)
    BY <1>7 DEF SyncStart
  <2> HIDE DEF rec
  <2>3. QED
    BY <1>1, <2>1, <2>2, NoneAssumption, FreshMoves
<1>8. ASSUME NEW r \in Runs, SyncPoll(s, r) PROVE Fresh'
  <2>1. CASE run[r].status \notin Unfinished
    BY <1>6, <1>8, <2>1 DEF SyncPoll
  <2>2. CASE run[r].status \in Unfinished
    <3> DEFINE v   == Verdict(r)
               nxt == IF v \in Terminal THEN "claim" ELSE "write"
               rec == [sync[s] EXCEPT !.pc = nxt, !.cur = r, !.verdict = v]
    <3>1. r \in sync[s].todo /\ Becomes(s, rec)
      BY <1>8, <2>2 DEF SyncPoll
    <3> HIDE DEF v, nxt
    <3>2. /\ rec.cur = r
          /\ rec.todo = sync[s].todo
          /\ rec.wr = sync[s].wr
          /\ rec.note = sync[s].note
      BY <1>2 DEF SyncRecord
    <3> HIDE DEF rec
    <3>3. \A x \in Runs : (x \in rec.todo \/ rec.cur = x \/ rec.wr[x] # None)
                            => run[x].status \in Unfinished
      BY <1>3, <3>1, <3>2
    <3>4. \A x \in rec.note : /\ rec.wr[x] \in Outcomes \ {"cancelled"}
                              /\ x \notin rec.todo
                              /\ rec.cur # x
      BY <1>4, <3>1, <3>2
    <3>5. QED
      BY <1>1, <3>1, <3>3, <3>4, FreshMoves
  <2>3. QED
    BY <2>1, <2>2
<1>9. ASSUME NEW v,
             v \in Status \cup {None},
             sync[s].cur \in Runs,
             Becomes(s, [Passed(s, sync[s].cur) EXCEPT !.wr[sync[s].cur] = v])
      PROVE  Fresh'
  <2> DEFINE r == sync[s].cur
             rec == [Passed(s, r) EXCEPT !.wr[r] = v]
  <2>1. /\ rec.cur = None
        /\ rec.todo = Passed(s, r).todo
        /\ rec.note = sync[s].note
        /\ \A x \in Runs : rec.wr[x] = IF x = r THEN v ELSE sync[s].wr[x]
    BY <1>5, <1>9 DEF SyncRecord
  <2>2. Becomes(s, rec)
    BY <1>9
  <2> HIDE DEF rec
  <2>3. \A x \in Runs : (x \in rec.todo \/ rec.cur = x \/ rec.wr[x] # None)
                          => run[x].status \in Unfinished
    BY <1>3, <1>5, <2>1, NoneAssumption
  <2>4. \A x \in rec.note : /\ rec.wr[x] \in Outcomes \ {"cancelled"}
                            /\ x \notin rec.todo
                            /\ rec.cur # x
    BY <1>4, <1>5, <2>1, NoneAssumption
  <2>5. QED
    BY <1>1, <2>2, <2>3, <2>4, FreshMoves
<1>10. CASE SyncWrite(s)
  BY <1>2, <1>6, <1>9, <1>10 DEF SyncWrite, WellAimed, Status
<1>11. CASE SyncClaim(s)
  <2> DEFINE r == sync[s].cur
             rec == [sync[s] EXCEPT !.pc = "collect", !.wr[r] = sync[s].verdict]
  <2>1. CASE Becomes(s, Passed(s, r))
    BY <1>6, <2>1
  <2>2. CASE ~Becomes(s, Passed(s, r))
    <3>1. /\ r \in Runs
          /\ sync[s].verdict \in Outcomes
          /\ run[r].status \in Unfinished
          /\ Becomes(s, rec)
      BY <1>2, <1>11, <2>2 DEF SyncClaim, WellAimed, Claimable
    <3>2. /\ rec.cur = r
          /\ rec.todo = sync[s].todo
          /\ rec.note = sync[s].note
          /\ \A x \in Runs : rec.wr[x] = IF x = r THEN sync[s].verdict ELSE sync[s].wr[x]
      BY <1>2, <3>1 DEF SyncRecord
    <3>3. \A x \in sync[s].note : x # r
      BY <1>4
    <3> HIDE DEF rec, r
    <3>4. \A x \in Runs : (x \in rec.todo \/ rec.cur = x \/ rec.wr[x] # None)
                            => run[x].status \in Unfinished
      BY <1>3, <3>1, <3>2
    <3>5. \A x \in rec.note : /\ rec.wr[x] \in Outcomes \ {"cancelled"}
                              /\ x \notin rec.todo
                              /\ rec.cur # x
      BY <1>4, <3>2, <3>3
    <3>6. QED
      BY <1>1, <3>1, <3>4, <3>5, FreshMoves
  <2>3. QED
    BY <2>1, <2>2
<1>12. ASSUME NEW sent \in BOOLEAN, SyncCollect(s, sent) PROVE Fresh'
  <2> DEFINE r == sync[s].cur
  <2>1. PICK missing \in BOOLEAN :
          Becomes(s, [Passed(s, r) EXCEPT
            !.wr[r] = FinalStatus(sync[s].verdict, missing),
            !.note = IF Notified(FinalStatus(sync[s].verdict, missing)) /\ sent
                     THEN @ \cup {r} ELSE @])
    BY <1>12 DEF SyncCollect
  <2> DEFINE fin == FinalStatus(sync[s].verdict, missing)
             rec == [Passed(s, r) EXCEPT
                      !.wr[r] = fin,
                      !.note = IF Notified(fin) /\ sent THEN @ \cup {r} ELSE @]
  <2>2. r \in Runs /\ fin \in Outcomes
    BY <1>2, <1>12 DEF SyncCollect, WellAimed, FinalStatus, Outcomes
  <2>3. Becomes(s, rec)
    BY <2>1
  <2> HIDE DEF fin, r
  <2>4. /\ rec.cur = None
        /\ rec.todo = Passed(s, r).todo
        /\ \A x \in Runs : rec.wr[x] = IF x = r THEN fin ELSE sync[s].wr[x]
        /\ \A x \in rec.note : x \in sync[s].note \/ (x = r /\ fin # "cancelled")
    BY <1>5, <2>2 DEF SyncRecord, Notified
  <2> HIDE DEF rec
  <2>5. \A x \in sync[s].note : x # r
    BY <1>4 DEF r
  <2>6. run[r].status \in Unfinished
    BY <1>3, <2>2 DEF r
  <2>7. \A x \in Runs : (x \in rec.todo \/ rec.cur = x \/ rec.wr[x] # None)
                          => run[x].status \in Unfinished
    BY <1>3, <1>5, <2>4, <2>6, NoneAssumption
  <2>8. \A x \in rec.note : /\ rec.wr[x] \in Outcomes \ {"cancelled"}
                            /\ x \notin rec.todo
                            /\ rec.cur # x
    BY <1>4, <1>5, <2>2, <2>4, <2>5, NoneAssumption
  <2>9. QED
    BY <1>1, <2>3, <2>7, <2>8, FreshMoves
<1>13. CASE SyncSkip(s)
  <2>1. CASE \E x \in sync[s].todo : Becomes(s, Passed(s, x))
    BY <1>6, <2>1
  <2>2. CASE ~\E x \in sync[s].todo : Becomes(s, Passed(s, x))
    BY <1>2, <1>9, <1>13, <2>2 DEF SyncSkip, WellAimed
  <2>3. QED
    BY <2>1, <2>2
<1>14. CASE SyncAbort(s)
  <2>1. /\ IdleSync.cur = None
        /\ IdleSync.note = {}
        /\ \A r \in Runs : r \notin IdleSync.todo /\ IdleSync.wr[r] = None
    BY DEF IdleSync, Nothing
  <2>2. Becomes(s, IdleSync)
    BY <1>14 DEF SyncAbort
  <2>3. QED
    BY <1>1, <2>1, <2>2, NoneAssumption, FreshMoves
<1>15. CASE SyncDeadlockVictim(s)
  BY <1>6, <1>15 DEF SyncDeadlockVictim
<1>16. QED
  BY <1>7, <1>8, <1>10, <1>11, <1>12, <1>13, <1>14, <1>15 DEF SyncerStep

(* What a commit changes, row by row: only unfinished rows, each to what   *)
(* was written, with one FINISHED event if that is an outcome.             *)
LEMMA CommitByRow ==
  ASSUME IInv, Fresh, NEW s \in Syncers, SyncCommit(s), NEW r \in Runs
  PROVE  /\ run'[r].plan = run[r].plan
         /\ \/ /\ run'[r] = run[r]
               /\ finals'[r] = finals[r]
               /\ notices'[r] = notices[r]
            \/ /\ run[r].status \in Unfinished
               /\ run'[r].status \in Unfinished
               /\ finals'[r] = finals[r]
               /\ notices'[r] = notices[r]
            \/ /\ run[r].status \in Unfinished
               /\ run'[r].status \in Outcomes
               /\ finals'[r] = Bump(finals[r])
               /\ \/ notices'[r] = notices[r]
                  \/ /\ notices'[r] = Bump(notices[r])
                     /\ run'[r].status # "cancelled"
<1>1. /\ sync[s] \in SyncRecord
      /\ run[r] \in RunRow
  BY DEF IInv, TypeInv, TypeOK, SyncTypeOK, StoreTypeOK
<1>2. /\ run'[r] = IF HoldsRow(s, r) THEN [run[r] EXCEPT !.status = sync[s].wr[r]] ELSE run[r]
      /\ finals'[r] = IF sync[s].wr[r] \in Terminal THEN Bump(finals[r]) ELSE finals[r]
      /\ notices'[r] = IF r \in sync[s].note THEN Bump(notices[r]) ELSE notices[r]
  BY DEF SyncCommit
<1>3. r \in sync[s].note => sync[s].wr[r] \in Outcomes \ {"cancelled"}
  BY DEF Fresh, NotesFollowOutcomes
<1>4. CASE ~HoldsRow(s, r)
  <2>1. sync[s].wr[r] \notin Terminal /\ sync[s].wr[r] \notin Outcomes
    BY <1>4, NoneAssumption DEF HoldsRow, Status, Terminal
  <2>2. QED
    BY <1>2, <1>3, <1>4, <2>1
<1>5. CASE HoldsRow(s, r)
  <2>1. run[r].status \in Unfinished
    BY <1>5 DEF Fresh, FreshRows, HoldsRow
  <2>2. run'[r].status = sync[s].wr[r] /\ run'[r].plan = run[r].plan
    BY <1>1, <1>2, <1>5 DEF RunRow
  <2>3. sync[s].wr[r] \in Unfinished \cup Outcomes
    <3>1. sync[s].wr[r] \in Status
      BY <1>1, <1>5 DEF SyncRecord, HoldsRow
    <3>2. sync[s].wr[r] \in Terminal => sync[s].wr[r] \in Outcomes
      BY DEF IInv, Locking, RowLocks
    <3>3. QED
      BY <3>1, <3>2 DEF Status
  <2>4. CASE sync[s].wr[r] \in Unfinished
    <3>1. sync[s].wr[r] \notin Terminal /\ sync[s].wr[r] \notin Outcomes
      BY <2>4 DEF Unfinished, Terminal, Outcomes
    <3>2. QED
      BY <1>2, <1>3, <2>1, <2>2, <2>4, <3>1
  <2>5. CASE sync[s].wr[r] \in Outcomes
    BY <1>2, <1>3, <2>1, <2>2, <2>5 DEF Terminal
  <2>6. QED
    BY <2>3, <2>4, <2>5
<1>6. QED
  BY <1>4, <1>5

(* When only one syncer runs, its commit leaves nothing stale behind.      *)
LEMMA FreshCommit ==
  ASSUME SingleSyncer, IInv, Fresh, NEW s \in Syncers, SyncCommit(s)
  PROVE  Fresh'
<1>1. \A t \in Syncers : sync'[t] = IdleSync
  <2>1. sync'[s] = IdleSync
    BY DEF SyncCommit, Becomes, IInv, TypeInv, TypeOK, SyncTypeOK
  <2>2. QED
    BY <2>1 DEF SingleSyncer
<1>2. FreshRows' /\ NotesFollowOutcomes'
  BY <1>1, NoneAssumption DEF FreshRows, NotesFollowOutcomes, IdleSync, Nothing
<1>3. ASSUME NEW r \in Runs
      PROVE  /\ finals'[r] = (IF run'[r].status \in Outcomes THEN 1 ELSE 0)
             /\ notices'[r] <= 1
             /\ notices'[r] = 1 => run'[r].status \in Terminal \ {"cancelled"}
  <2>1. /\ finals[r] = (IF run[r].status \in Outcomes THEN 1 ELSE 0)
        /\ notices[r] <= 1
        /\ notices[r] = 1 => run[r].status \in Terminal \ {"cancelled"}
        /\ notices[r] \in 0..Many
    BY DEF Fresh, FinishedOnce, IInv, TypeInv, TypeOK, StoreTypeOK
  <2>2. run[r].status \in Unfinished => finals[r] = 0 /\ notices[r] = 0
    BY <2>1 DEF Unfinished, Outcomes, Terminal, Many
  <2>3. CASE /\ run'[r] = run[r]
             /\ finals'[r] = finals[r]
             /\ notices'[r] = notices[r]
    BY <2>1, <2>3
  <2>4. CASE /\ run[r].status \in Unfinished
             /\ run'[r].status \in Unfinished
             /\ finals'[r] = finals[r]
             /\ notices'[r] = notices[r]
    BY <2>2, <2>4 DEF Unfinished, Outcomes
  <2>5. CASE /\ run[r].status \in Unfinished
             /\ run'[r].status \in Outcomes
             /\ finals'[r] = Bump(finals[r])
             /\ \/ notices'[r] = notices[r]
                \/ /\ notices'[r] = Bump(notices[r])
                   /\ run'[r].status # "cancelled"
    BY <2>2, <2>5 DEF Bump, Many, Terminal
  <2>6. QED
    BY <2>3, <2>4, <2>5, CommitByRow
<1>4. FinishedOnce'
  BY <1>3 DEF FinishedOnce
<1>5. QED
  BY <1>2, <1>4 DEF Fresh

-----------------------------------------------------------------------------
(* The invariant of a system with one syncer.                              *)
LInv == IInv /\ Fresh /\ Slots

LEMMA LInvInit == Init => LInv
<1> SUFFICES ASSUME Init PROVE LInv
  OBVIOUS
<1>1. IInv
  BY InvInit
<1>2. /\ \A q \in Runs : tx[q] = NewTx /\ run[q] = AbsentRun /\ finals[q] = 0 /\ notices[q] = 0
      /\ \A s \in Syncers : sync[s] = IdleSync
  BY DEF Init, StoreInit, TxInit, SyncInit
<1>3. FreshRows /\ NotesFollowOutcomes
  BY <1>2, NoneAssumption DEF FreshRows, NotesFollowOutcomes, IdleSync, Nothing
<1>4. FinishedOnce
  BY <1>2 DEF FinishedOnce, AbsentRun, Outcomes
<1>5. PlansAreLocked
  BY <1>2 DEF PlansAreLocked, HoldsPlan, NewTx
<1>6. LimitRespected
  <2> SUFFICES ASSUME NEW p \in Plans PROVE Cardinality(UnfinishedOn(p)) <= Limit[p]
    BY DEF LimitRespected
  <2>1. UnfinishedOn(p) = {}
    BY <1>2 DEF UnfinishedOn, AbsentRun, Unfinished
  <2>2. Cardinality(UnfinishedOn(p)) = 0
    BY <2>1, FS_EmptySet
  <2>3. QED
    BY <2>2, LimitAssumption
<1>7. QED
  BY <1>1, <1>3, <1>4, <1>5, <1>6 DEF LInv, Fresh, Slots

LEMMA LInvOthers ==
  ASSUME LInv, NEW r \in Runs, CancelStep(r) \/ SchedulerStep(r)
  PROVE  Fresh' /\ Slots'
<1>1. UNCHANGED <<storeVars, tx, sync>>
  BY DEF CancelStep, CancelReceived, CancelSent, CancelRejected, CancelUnrecorded, SchedulerStep
<1>2. Fresh'
  BY <1>1 DEF LInv, Fresh, FreshRows, NotesFollowOutcomes, FinishedOnce, storeVars
<1>3. Slots'
  BY <1>1, SlotsKept DEF LInv, Slots, PlansAreLocked, HoldsPlan, storeVars
<1>4. QED
  BY <1>2, <1>3

LEMMA LInvSyncer ==
  ASSUME SingleSyncer, LInv, NEW s \in Syncers, SyncerStep(s)
  PROVE  Fresh' /\ Slots'
<1>1. tx' = tx
  BY DEF SyncerStep
<1>2. CASE SyncCommit(s)
  <2>1. \A r \in Runs : run'[r].status \in Unfinished =>
          run[r].status \in Unfinished /\ run'[r].plan = run[r].plan
    BY <1>2, CommitByRow DEF LInv, Unfinished, Outcomes
  <2>2. Slots'
    BY <1>1, <2>1, SlotsKept DEF LInv, Slots, PlansAreLocked, HoldsPlan
  <2>3. QED
    BY <1>2, <2>2, FreshCommit DEF LInv
<1>3. CASE ~SyncCommit(s)
  <2>1. run' = run
    BY <1>3 DEF SyncerStep, storeVars
  <2>2. Slots'
    BY <1>1, <2>1, SlotsKept DEF LInv, Slots, PlansAreLocked, HoldsPlan
  <2>3. QED
    BY <1>3, <2>2, FreshSyncer DEF LInv
<1>4. QED
  BY <1>2, <1>3

LEMMA LInvRestart ==
  ASSUME LInv, Restart
  PROVE  Fresh' /\ Slots'
<1>1. UNCHANGED storeVars /\ \A s \in Syncers : sync'[s] = IdleSync
  BY DEF Restart
<1>2. FreshRows' /\ NotesFollowOutcomes'
  BY <1>1, NoneAssumption DEF FreshRows, NotesFollowOutcomes, IdleSync, Nothing
<1>3. FinishedOnce'
  BY <1>1 DEF LInv, Fresh, FinishedOnce, storeVars
<1>4. ASSUME NEW q \in Runs
      PROVE  /\ tx'[q].plan = tx[q].plan
             /\ tx'[q].pc = IF tx[q].pc \in Working THEN "aborted" ELSE tx[q].pc
  <2>1. tx[q] \in TxRecord
    BY DEF LInv, IInv, TypeInv, TypeOK, TxTypeOK
  <2>2. tx'[q] = IF tx[q].pc \in Working THEN [tx[q] EXCEPT !.pc = "aborted"] ELSE tx[q]
    BY DEF Restart
  <2>3. QED
    BY <2>1, <2>2 DEF TxRecord
<1>5. \A q \in Runs : /\ tx'[q].pc \notin {"submit", "accepted", "rejected"}
                      /\ tx'[q].pc # "new" => tx'[q].plan \in Plans
                      /\ \A p \in Plans : ~HoldsPlan(q, p)'
  BY <1>4 DEF Working, HoldsPlan, LInv, Slots, PlansAreLocked
<1>6. Slots'
  BY <1>1, <1>5, SlotsKept DEF LInv, storeVars
<1>7. QED
  BY <1>2, <1>3, <1>6 DEF Fresh

LEMMA LInvStep == SingleSyncer /\ LInv /\ [Next]_vars => LInv'
<1> SUFFICES ASSUME SingleSyncer, LInv, [Next]_vars PROVE LInv'
  OBVIOUS
<1>1. IInv'
  BY InvStep DEF LInv
<1>2. CASE UNCHANGED vars
  BY <1>1, <1>2 DEF vars, LInv, Fresh, Slots, FreshRows, NotesFollowOutcomes, FinishedOnce,
     PlansAreLocked, LimitRespected, HoldsPlan, HasFreeSlot, UnfinishedOn
<1>3. CASE Next
  <2>1. Fresh' /\ Slots'
    BY <1>3, FreshSubmission, SlotsSubmission, LInvOthers, LInvSyncer, LInvRestart
    DEF Next, LInv
  <2>2. QED
    BY <1>1, <2>1 DEF LInv
<1>4. QED
  BY <1>2, <1>3

LEMMA LedgerInvariance == SingleSyncer => (Spec => []LInv)
<1> SUFFICES ASSUME SingleSyncer PROVE Spec => []LInv
  OBVIOUS
<1>1. LInv /\ [Next]_vars => LInv'
  BY LInvStep
<1>2. QED
  BY LInvInit, <1>1, PTL DEF Spec

-----------------------------------------------------------------------------
(* GR-002a: the concurrency limit of every plan holds, however many        *)
(* requests race for its last slot and whatever fails, as long as syncers  *)
(* do not overlap (lock_for_plan, _check_concurrency).                     *)
THEOREM LimitHolds == SingleSyncer => (Spec => []LimitRespected)
<1>1. LInv => LimitRespected
  BY DEF LInv, Slots
<1>2. QED
  BY <1>1, LedgerInvariance, PTL

(* A run finishes once: one FINISHED event and artifact set exactly when   *)
(* it has an outcome, and at most one notification (sync_run).             *)
THEOREM RunsFinishOnce == SingleSyncer => (Spec => []FinishedOnce)
<1>1. LInv => FinishedOnce
  BY DEF LInv, Fresh
<1>2. QED
  BY <1>1, LedgerInvariance, PTL

(* No step changes a finished run.                                         *)
THEOREM FinishedStays == SingleSyncer => (Spec => TerminalIsFinal)
<1> SUFFICES ASSUME SingleSyncer PROVE Spec => TerminalIsFinal
  OBVIOUS
<1>1. LInv /\ [Next]_vars =>
        [\A r \in Runs : run[r].status \in Terminal => run'[r] = run[r]]_vars
  <2> SUFFICES ASSUME LInv, Next, NEW r \in Runs, run[r].status \in Terminal
               PROVE  run'[r] = run[r]
    OBVIOUS
  <2>1. CASE \E q \in Runs : SubmissionStep(q)
    <3>1. PICK q \in Runs : SubmissionStep(q)
      BY <2>1
    <3>2. CASE run' = run
      BY <3>2
    <3>3. CASE \E sent \in BOOLEAN : Commit(q, sent)
      <4>1. ~Exists(q)
        BY <3>3 DEF Commit, LInv, IInv, History, RowsAreRequests
      <4>2. r # q
        BY <4>1 DEF Exists, Terminal, Outcomes
      <4>3. QED
        BY <3>3, <4>2 DEF Commit, LInv, IInv, TypeInv, TypeOK, StoreTypeOK
    <3>4. QED
      BY <3>1, <3>2, <3>3 DEF SubmissionStep, storeVars
  <2>2. CASE \E s \in Syncers : SyncCommit(s)
    <3>1. run[r].status \notin Unfinished
      BY DEF Terminal, Outcomes, Unfinished
    <3>2. QED
      BY <2>2, <3>1, CommitByRow DEF LInv
  <2>3. CASE run' = run
    BY <2>3
  <2>4. QED
    BY <2>1, <2>2, <2>3
    DEF Next, SyncerStep, SchedulerStep, Restart, CancelStep, CancelReceived, CancelSent,
        CancelRejected, CancelUnrecorded, storeVars
<1>2. QED
  BY <1>1, LedgerInvariance, PTL DEF Spec, TerminalIsFinal

-----------------------------------------------------------------------------
(* The refinement of RunLedger.                                            *)
LEMMA LedgerInit == Init => Ledger!Init
BY DEF Init, StoreInit, AbsentRun, Ledger!Init

(* The commit of a request is the ledger's Admit or Decline.               *)
LEMMA LedgerCommit ==
  ASSUME LInv, NEW q \in Runs, NEW sent \in BOOLEAN, Commit(q, sent)
  PROVE  Ledger!Admit(q) \/ Ledger!Decline(q)
<1>1. /\ tx[q].pc \in {"accepted", "rejected"}
      /\ run' = [run EXCEPT ![q] = CreatedRow(q)]
      /\ finals' = finals
      /\ run \in [Runs -> RunRow]
  BY DEF Commit, LInv, IInv, TypeInv, TypeOK, StoreTypeOK
<1>2. run[q].status = "absent"
  BY <1>1 DEF LInv, IInv, History, RowsAreRequests, Exists
<1>3. tx[q].plan \in Plans /\ Cardinality(UnfinishedOn(tx[q].plan)) < Limit[tx[q].plan]
  BY <1>1 DEF LInv, Slots, PlansAreLocked, HasFreeSlot
<1>4. \A r \in Runs : /\ run'[r].status = IF r = q THEN CreatedRow(q).status ELSE run[r].status
                      /\ run'[r].plan = IF r = q THEN tx[q].plan ELSE run[r].plan
  BY <1>1 DEF CreatedRow
<1>5. UnfinishedOn(tx[q].plan) = Ledger!ActiveOn(tx[q].plan)
  BY DEF UnfinishedOn, Ledger!ActiveOn, Ledger!Active, Unfinished
<1>6. Ledger!Cardinality(UnfinishedOn(tx[q].plan)) = Cardinality(UnfinishedOn(tx[q].plan))
  BY Zenon DEF Ledger!Cardinality, Cardinality, Ledger!IsFiniteSet, IsFiniteSet
<1>7. /\ [r \in Runs |-> run'[r].status]
           = [[r \in Runs |-> run[r].status] EXCEPT ![q] = CreatedRow(q).status]
      /\ [r \in Runs |-> run'[r].plan]
           = [[r \in Runs |-> run[r].plan] EXCEPT ![q] = tx[q].plan]
  BY <1>4
<1>8. CreatedRow(q).status = "queued" \/ CreatedRow(q).status = "submit_failed"
  BY DEF CreatedRow
<1>9. CASE CreatedRow(q).status = "queued"
  <2>1. Ledger!Create(q, tx[q].plan, "queued")
    BY <1>1, <1>2, <1>7, <1>9 DEF Ledger!Create
  <2>2. QED
    BY <1>3, <1>5, <1>6, <2>1 DEF Ledger!Admit
<1>10. CASE CreatedRow(q).status = "submit_failed"
  <2>1. Ledger!Create(q, tx[q].plan, "submit_failed")
    BY <1>1, <1>2, <1>7, <1>10 DEF Ledger!Create
  <2>2. QED
    BY <1>3, <2>1 DEF Ledger!Decline
<1>11. QED
  BY <1>8, <1>9, <1>10

(* The commit of a syncer is one observation of the scheduler.             *)
LEMMA LedgerObserve ==
  ASSUME LInv, LInv', NEW s \in Syncers, SyncCommit(s)
  PROVE  Ledger!Observe
<1>1. run' \in [Runs -> RunRow] /\ finals' \in [Runs -> 0..Many]
  BY DEF LInv, IInv, TypeInv, TypeOK, StoreTypeOK
<1>2. [r \in Runs |-> run'[r].status]
        \in [Runs -> {"queued", "running"} \cup {"succeeded", "failed", "cancelled"}
                       \cup {"absent", "submit_failed"}]
  BY <1>1 DEF RunRow, Status, Terminal, Outcomes, Unfinished
<1>3. finals' \in [Runs -> Nat]
  BY <1>1 DEF Many
<1>4. ASSUME NEW r \in Runs PROVE Ledger!Observed(r)
  <2>1. run[r].status \in Unfinished => finals[r] = 0
    BY DEF LInv, Fresh, FinishedOnce, Unfinished, Outcomes
  <2>2. \/ run'[r].status = run[r].status /\ finals'[r] = finals[r]
        \/ /\ run[r].status \in Unfinished
           /\ run'[r].status \in Unfinished
           /\ finals'[r] = finals[r]
        \/ /\ run[r].status \in Unfinished
           /\ run'[r].status \in Outcomes
           /\ finals'[r] = finals[r] + 1
    BY <2>1, CommitByRow DEF LInv, Bump, Many
  <2>3. QED
    BY <2>2 DEF Ledger!Observed, Ledger!Active, Ledger!Finishes, Unfinished, Outcomes
<1>5. [r \in Runs |-> run'[r].plan] = [r \in Runs |-> run[r].plan]
  BY CommitByRow DEF LInv
<1>6. QED
  BY <1>2, <1>3, <1>4, <1>5 DEF Ledger!Observe, Ledger!Active, Ledger!Finishes

(* RunSystem with one syncer implements RunLedger: transactions, row       *)
(* locks, stale rows, retries and failures are invisible in the committed  *)
(* status, plan and FINISHED events of the runs.                           *)
THEOREM LedgerImplemented == SingleSyncer => (Spec => ImplementsLedger)
<1> SUFFICES ASSUME SingleSyncer PROVE Spec => Ledger!Spec
  BY DEF ImplementsLedger
<1>1. LInv /\ LInv' /\ [Next]_vars =>
        [Ledger!Next]_<<[r \in Runs |-> run[r].status], [r \in Runs |-> run[r].plan], finals>>
  <2> SUFFICES ASSUME LInv, LInv', [Next]_vars
               PROVE  Ledger!Next \/ (run' = run /\ finals' = finals)
    OBVIOUS
  <2>1. CASE \E q \in Runs, sent \in BOOLEAN : Commit(q, sent)
    BY <2>1, LedgerCommit DEF Ledger!Next
  <2>2. CASE \E s \in Syncers : SyncCommit(s)
    BY <2>2, LedgerObserve DEF Ledger!Next
  <2>3. CASE UNCHANGED vars
    BY <2>3 DEF vars
  <2>4. CASE run' = run /\ finals' = finals
    BY <2>4
  <2>5. QED
    BY <2>1, <2>2, <2>3, <2>4
    DEF Next, SubmissionStep, SyncerStep, SchedulerStep, Restart, CancelStep, CancelReceived,
        CancelSent, CancelRejected, CancelUnrecorded, storeVars
<1>2. SingleSyncer => (Spec => []LInv)
  BY LedgerInvariance
<1>3. QED
  BY LedgerInit, <1>1, <1>2, PTL DEF Spec, Ledger!Spec

-----------------------------------------------------------------------------
(* Without failures a job belongs to a request that has committed or will. *)
JobsHaveRequests ==
  \A q \in Runs : job[q].st # "none" => tx[q].pc \in {"accepted", "committed"}

LEMMA JobsHaveRequestsStep ==
  ASSUME MaxFaults = 0, IInv, JobsHaveRequests, [Next]_vars
  PROVE  JobsHaveRequests'
<1>1. /\ tx \in [Runs -> TxRecord]
      /\ job \in [Runs -> JobRecord]
      /\ faults \in 0..MaxFaults
  BY DEF IInv, TypeInv, TypeOK, TxTypeOK, JobsTypeOK
<1>2. ~Fault
  BY <1>1 DEF Fault
<1>3. CASE UNCHANGED <<job, tx>>
  BY <1>3 DEF JobsHaveRequests
<1>4. ASSUME NEW q \in Runs, SubmissionStep(q) PROVE JobsHaveRequests'
  <2>1. CASE Receive(q)
    <3>1. tx[q].pc = "new" /\ \A o \in Runs \ {q} : tx'[o] = tx[o]
      BY <1>1, <2>1 DEF Receive, Accepting
    <3>2. job' = job
      BY <1>2, <1>4, <3>1
      DEF SubmissionStep, Commit, SubmitAccepted, SubmitFails
    <3>3. QED
      BY <3>1, <3>2 DEF JobsHaveRequests
  <2>2. ASSUME NEW pc, Goto(q, pc), job' = job, tx[q].pc \notin {"accepted", "committed"}
        PROVE  JobsHaveRequests'
    <3>1. \A o \in Runs : tx'[o].pc = IF o = q THEN pc ELSE tx[o].pc
      BY <1>1, <2>2 DEF Goto, TxRecord
    <3>2. QED
      BY <2>2, <3>1 DEF JobsHaveRequests
  <2>3. CASE SubmitAccepted(q)
    <3>1. \A o \in Runs : tx'[o].pc = IF o = q THEN "accepted" ELSE tx[o].pc
      BY <1>1, <2>3 DEF SubmitAccepted, Goto, TxRecord
    <3>2. \A o \in Runs \ {q} : job'[o] = job[o]
      BY <1>1, <2>3 DEF SubmitAccepted, Accept
    <3>3. QED
      BY <3>1, <3>2 DEF JobsHaveRequests
  <2>4. CASE Commit(q, TRUE) /\ job' = job
    <3>1. tx' = [tx EXCEPT ![q].pc = "committed", ![q].reply = q]
      BY <2>4 DEF Commit
    <3>2. \A o \in Runs : tx'[o].pc = IF o = q THEN "committed" ELSE tx[o].pc
      BY <1>1, <3>1 DEF TxRecord
    <3>3. QED
      BY <2>4, <3>2 DEF JobsHaveRequests
  <2>5. CASE SubmitFails(q)
    BY <2>2, <2>5 DEF SubmitFails
  <2>6. CASE /\ \/ Reserve(q) \/ LockPlan(q) \/ Refuse(q) \/ Admit(q) \/ RefuseAtLimit(q)
             /\ job' = job
    BY <2>2, <2>6 DEF Reserve, LockPlan, Refuse, Admit, RefuseAtLimit
  <2>7. QED
    BY <1>2, <1>4, <2>1, <2>3, <2>4, <2>5, <2>6 DEF SubmissionStep
<1>5. ASSUME NEW r \in Runs, CancelStep(r) \/ SchedulerStep(r) PROVE JobsHaveRequests'
  <2>1. tx' = tx
    BY <1>5 DEF CancelStep, CancelReceived, CancelSent, CancelRejected, CancelUnrecorded,
                SchedulerStep
  <2>2. ASSUME NEW o \in Runs, job'[o].st # "none" PROVE job[o].st # "none"
    <3>1. CASE job' = job
      BY <2>2, <3>1
    <3>2. CASE Cancellable(r) /\ Cancel(r)
      BY <1>1, <2>2, <3>2 DEF Cancellable, Cancel
    <3>3. CASE job[r].st # "none" /\ \E st : SetState(r, st)
      BY <1>1, <2>2, <3>3 DEF SetState
    <3>4. CASE CancelStep(r)
      BY <1>2, <3>1, <3>2, <3>4
      DEF CancelStep, CancelReceived, CancelSent, CancelRejected, CancelUnrecorded
    <3>5. CASE SchedulerStep(r)
      <4>1. JobStep(r)
        BY <1>2, <3>5 DEF SchedulerStep
      <4>2. QED
        BY <3>3, <4>1 DEF JobStep, JobStarts, JobRequeued, JobExits, JobPreempted, Live, LiveStates
    <3>6. QED
      BY <1>5, <3>4, <3>5
  <2>3. QED
    BY <2>1, <2>2 DEF JobsHaveRequests
<1>6. CASE \E s \in Syncers : SyncerStep(s)
  BY <1>3, <1>6 DEF SyncerStep
<1>7. QED
  BY <1>2, <1>3, <1>4, <1>5, <1>6 DEF Next, Restart, vars

(* GR-017: as long as nothing fails, a key never has two jobs, however     *)
(* many requests are sent with it at once.  (A request that fails after    *)
(* its job was accepted loses its key: the run finding_lost_key.)          *)
THEOREM KeysRunOnce == (MaxFaults = 0) => (Spec => []OneJobPerKey)
<1> SUFFICES ASSUME MaxFaults = 0 PROVE Spec => []OneJobPerKey
  OBVIOUS
<1>1. Init => JobsHaveRequests
  BY DEF Init, JobsInit, NoJob, JobsHaveRequests
<1>2. IInv /\ JobsHaveRequests /\ [Next]_vars => JobsHaveRequests'
  BY JobsHaveRequestsStep
<1>3. IInv /\ JobsHaveRequests => OneJobPerKey
  <2> SUFFICES ASSUME IInv, JobsHaveRequests,
                      NEW p \in Runs, NEW q \in Runs,
                      tx[p].key = tx[q].key, tx[p].key # None,
                      job[p].st # "none", job[q].st # "none"
               PROVE  p = q
    BY DEF OneJobPerKey
  <2>1. tx[p].key \in Keys
    BY DEF IInv, TypeInv, TypeOK, TxTypeOK, TxRecord
  <2>2. \A o \in {p, q} : tx[o].pc = "committed" \/ HoldsKey(o, tx[p].key)
    BY DEF JobsHaveRequests, HoldsKey
  <2>3. KeysHaveOneOwner
    BY DEF IInv, History
  <2>4. \A o \in {p, q} : tx[o].pc = "committed" => idem[tx[p].key].run = o
    BY <2>1, <2>3 DEF KeysHaveOneOwner
  <2>5. \A o \in {p, q} : HoldsKey(o, tx[p].key) => idem[tx[p].key].run = None
    BY <2>1, <2>3 DEF KeysHaveOneOwner, AbsentKey
  <2>6. QED
    BY <2>1, <2>2, <2>3, <2>4, <2>5, NoneAssumption DEF KeysHaveOneOwner
<1>4. QED
  BY <1>1, <1>2, <1>3, Invariance, PTL DEF Spec

(* The cluster never runs more jobs of a plan than its limit, those of     *)
(* submissions that have not committed included, as long as nothing fails. *)
THEOREM LiveJobsHoldSlots == SingleSyncer /\ MaxFaults = 0 => (Spec => []LiveJobsWithinLimit)
<1> SUFFICES ASSUME SingleSyncer, MaxFaults = 0 PROVE Spec => []LiveJobsWithinLimit
  OBVIOUS
<1>1. Init => JobsHaveRequests
  BY DEF Init, JobsInit, NoJob, JobsHaveRequests
<1>2. IInv /\ JobsHaveRequests /\ [Next]_vars => JobsHaveRequests'
  BY JobsHaveRequestsStep
<1>3. LInv /\ JobsHaveRequests /\ StatusesBear => LiveJobsWithinLimit
  <2> SUFFICES ASSUME LInv, JobsHaveRequests, StatusesBear, NEW p \in Plans
               PROVE  Cardinality(LiveOn(p)) <= Limit[p]
    BY DEF LiveJobsWithinLimit
  <2> DEFINE busy == UnfinishedOn(p)
  <2>1. /\ IsFiniteSet(busy) /\ Cardinality(busy) \in Nat /\ Limit[p] \in Nat
        /\ Cardinality(busy) <= Limit[p]
    BY SlotsCount, LimitAssumption DEF LimitAssumption, LInv, Slots, LimitRespected
  <2>2. ASSUME NEW o \in LiveOn(p)
        PROVE  o \in busy \/ (tx[o].pc = "accepted" /\ tx[o].plan = p)
    <3>1. o \in Runs /\ job[o].st \in LiveStates /\ tx[o].plan = p
      BY DEF LiveOn, Live
    <3>2. tx[o].pc \in {"accepted", "committed"}
      BY <3>1 DEF JobsHaveRequests, LiveStates
    <3>3. run[o].status \notin Terminal
      BY <3>1 DEF StatusesBear, Answered, Bears, Terminal, Outcomes, DoneStates, LiveStates
    <3>4. CASE tx[o].pc = "committed"
      <4>1. run[o].status # "absent" /\ run[o].plan = p /\ run[o] \in RunRow
        BY <3>1, <3>4
        DEF LInv, IInv, History, RowsAreRequests, Exists, TypeInv, TypeOK, StoreTypeOK
      <4>2. run[o].status \in Unfinished
        BY <3>3, <4>1 DEF RunRow, Status
      <4>3. QED
        BY <3>1, <4>1, <4>2 DEF UnfinishedOn
    <3>5. QED
      BY <3>1, <3>2, <3>4
  <2>3. CASE LiveOn(p) \subseteq busy
    <3>1. IsFiniteSet(LiveOn(p)) /\ Cardinality(LiveOn(p)) <= Cardinality(busy)
      BY <2>1, <2>3, FS_Subset
    <3>2. QED
      BY <2>1, <3>1, FS_CardinalityType
  <2>4. ASSUME NEW q \in Runs, tx[q].pc = "accepted", tx[q].plan = p
        PROVE  Cardinality(LiveOn(p)) <= Limit[p]
    <3>1. PlansAreLocked
      BY DEF LInv, Slots
    <3>2. \A o \in Runs : tx[o].pc = "accepted" /\ tx[o].plan = p => o = q
      BY <2>4, <3>1 DEF PlansAreLocked, HoldsPlan
    <3>3. Cardinality(busy) < Limit[p]
      BY <2>4, <3>1 DEF PlansAreLocked, HasFreeSlot
    <3>4. LiveOn(p) \subseteq busy \cup {q}
      BY <2>2, <3>2 DEF LiveOn
    <3>5. /\ IsFiniteSet(busy \cup {q})
          /\ Cardinality(busy \cup {q}) = IF q \in busy THEN Cardinality(busy) ELSE Cardinality(busy) + 1
      BY <2>1, FS_AddElement
    <3>6. IsFiniteSet(LiveOn(p)) /\ Cardinality(LiveOn(p)) <= Cardinality(busy \cup {q})
      BY <3>4, <3>5, FS_Subset
    <3>7. Cardinality(LiveOn(p)) \in Nat
      BY <3>6, FS_CardinalityType
    <3> HIDE DEF busy
    <3>8. QED
      BY <2>1, <3>3, <3>5, <3>6, <3>7
  <2>5. QED
    BY <2>2, <2>3, <2>4 DEF LiveOn
<1>4. QED
  BY <1>1, <1>2, <1>3, Invariance, LedgerInvariance, StatusesBearAlways, PTL DEF Spec

=============================================================================
