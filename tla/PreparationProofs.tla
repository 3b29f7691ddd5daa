-------------------------- MODULE PreparationProofs --------------------------
(***************************************************************************)
(* Proofs about the preparation of runs, for any number of requests, plans *)
(* and names, and any limit.                                               *)
(***************************************************************************)
EXTENDS RunPreparation, FiniteSetTheorems, SequenceTheorems, TLAPS

(* A request that holds an entitlement, and one that has counted the runs  *)
(* of its plan and not yet committed.                                      *)
Holding == {"read", "count", "names", "submit", "commit"}
Counted == {"names", "submit", "commit"}

(* The unfinished runs of a plan, and those of them whose request had      *)
(* locked the entitlement of this very plan.                               *)
Unfinished(runs, plan) == {i \in DOMAIN runs : runs[i].plan = plan /\ ~runs[i].ended}
Ruled(runs, plan) == {i \in DOMAIN runs : /\ runs[i].plan = plan /\ ~runs[i].ended
                                          /\ runs[i].locked = plan}

(* A request that counts under the lock of the plan it counts: nobody else *)
(* adds such a run of that plan before it commits.                         *)
PrepInv ==
  /\ PreparationTypeOK
  /\ \A r \in Preparers : /\ prep[r].pc # "idle" => prep[r].snap \in Snapshot
                          /\ prep[r].pc \in {"idle", "lock"} => prep[r].locked = None
  /\ \A r, x \in Preparers :
       r # x /\ prep[r].pc \in Holding /\ prep[x].pc \in Holding => prep[r].locked # prep[x].locked
  /\ \A r \in Preparers :
       prep[r].pc \in Counted /\ prep[r].locked = prep[r].snap.plan
         => Cardinality(Ruled(prepared, prep[r].snap.plan)) < Limit
  /\ \A plan \in Plans : Cardinality(Ruled(prepared, plan)) <= Limit

-----------------------------------------------------------------------------
LEMMA IdlePrepType == IdlePrep \in PrepRecord
BY DEF IdlePrep, PrepRecord

LEMMA UnfinishedCount ==
  ASSUME NEW runs \in Seq(Prepared), NEW plan
  PROVE  /\ IsFiniteSet(Ruled(runs, plan)) /\ Cardinality(Ruled(runs, plan)) \in Nat
         /\ Cardinality(Unfinished(runs, plan)) \in Nat
         /\ Cardinality(Ruled(runs, plan)) <= Cardinality(Unfinished(runs, plan))
<1>1. IsFiniteSet(1..Len(runs)) /\ DOMAIN runs = 1..Len(runs)
  BY FS_Interval
<1>2. Unfinished(runs, plan) \in SUBSET (1..Len(runs))
  BY <1>1 DEF Unfinished
<1>3. IsFiniteSet(Unfinished(runs, plan)) /\ Cardinality(Unfinished(runs, plan)) \in Nat
  BY <1>1, <1>2, FS_Subset, FS_CardinalityType
<1>4. Ruled(runs, plan) \in SUBSET Unfinished(runs, plan)
  BY DEF Ruled, Unfinished
<1>5. QED
  BY <1>3, <1>4, FS_Subset, FS_CardinalityType

LEMMA OneMoreRun ==
  ASSUME NEW runs \in Seq(Prepared), NEW run \in Prepared, NEW plan
  PROVE  /\ Append(runs, run) \in Seq(Prepared)
         /\ Cardinality(Ruled(Append(runs, run), plan)) <= Cardinality(Ruled(runs, plan)) + 1
         /\ run.plan # plan \/ run.locked # plan =>
              Cardinality(Ruled(Append(runs, run), plan)) = Cardinality(Ruled(runs, plan))
<1> DEFINE more == Append(runs, run)
<1>1. /\ more \in Seq(Prepared) /\ Len(more) = Len(runs) + 1
      /\ \A i \in 1..Len(runs) : more[i] = runs[i]
      /\ more[Len(runs) + 1] = run
      /\ DOMAIN runs = 1..Len(runs) /\ DOMAIN more = 1..(Len(runs) + 1)
      /\ Len(runs) \in Nat
  OBVIOUS
<1> HIDE DEF more
<1>2. Ruled(more, plan) \in SUBSET (Ruled(runs, plan) \cup {Len(runs) + 1})
  BY <1>1 DEF Ruled
<1>3. run.plan # plan \/ run.locked # plan => Ruled(more, plan) = Ruled(runs, plan)
  BY <1>1 DEF Ruled
<1>4. Cardinality(Ruled(runs, plan) \cup {Len(runs) + 1})
        <= Cardinality(Ruled(runs, plan)) + 1
      /\ IsFiniteSet(Ruled(runs, plan) \cup {Len(runs) + 1})
      /\ Cardinality(Ruled(runs, plan) \cup {Len(runs) + 1}) \in Nat
  <2> DEFINE old == Ruled(runs, plan)
  <2>1. IsFiniteSet(old) /\ Cardinality(old) \in Nat
    BY UnfinishedCount
  <2> HIDE DEF old
  <2>2. /\ IsFiniteSet(old \cup {Len(runs) + 1})
        /\ Cardinality(old \cup {Len(runs) + 1})
             = IF Len(runs) + 1 \in old THEN Cardinality(old) ELSE Cardinality(old) + 1
    BY <2>1, FS_AddElement
  <2>3. /\ IsFiniteSet(old \cup {Len(runs) + 1})
        /\ Cardinality(old \cup {Len(runs) + 1}) \in Nat
        /\ Cardinality(old \cup {Len(runs) + 1}) <= Cardinality(old) + 1
    BY <2>1, <2>2
  <2>4. QED
    BY <2>3 DEF old
<1>5. Cardinality(Ruled(more, plan)) <= Cardinality(Ruled(runs, plan)) + 1
  <2>1. Cardinality(Ruled(more, plan))
          <= Cardinality(Ruled(runs, plan) \cup {Len(runs) + 1})
    BY <1>2, <1>4, FS_Subset
  <2>2. Cardinality(Ruled(more, plan)) \in Nat /\ Cardinality(Ruled(runs, plan)) \in Nat
    BY <1>1, UnfinishedCount
  <2>3. QED
    BY <1>4, <2>1, <2>2
<1>6. QED
  BY <1>1, <1>3, <1>5 DEF more

LEMMA RunEnds ==
  ASSUME NEW runs \in Seq(Prepared), NEW i \in DOMAIN runs, NEW plan
  PROVE  LET after == [runs EXCEPT ![i].ended = TRUE] IN
         /\ after \in Seq(Prepared)
         /\ Cardinality(Ruled(after, plan)) <= Cardinality(Ruled(runs, plan))
<1> DEFINE after == [runs EXCEPT ![i].ended = TRUE]
<1>1. runs[i] \in Prepared /\ DOMAIN after = DOMAIN runs
      /\ \A j \in DOMAIN runs : after[j] = IF j = i THEN [runs[i] EXCEPT !.ended = TRUE] ELSE runs[j]
  OBVIOUS
<1>2. [runs[i] EXCEPT !.ended = TRUE] \in Prepared
  BY <1>1 DEF Prepared
<1>3. after \in Seq(Prepared)
  BY <1>2
<1>4. [runs[i] EXCEPT !.ended = TRUE].ended = TRUE
  BY <1>1 DEF Prepared
<1>5. Ruled(after, plan) \in SUBSET Ruled(runs, plan)
  BY <1>1, <1>4 DEF Ruled
<1>6. QED
  BY <1>3, <1>5, UnfinishedCount, FS_Subset

-----------------------------------------------------------------------------
LEMMA PrepInitial == PreparationInit => PrepInv
<1> SUFFICES ASSUME PreparationInit PROVE PrepInv
  OBVIOUS
<1>1. PICK plan \in Plans : setup = [plan |-> plan, env |-> Referable]
  BY DEF PreparationInit
<1>2. setup \in Setup /\ defined \subseteq Referable /\ events \in 0..MaxEvents
  BY <1>1, PreparationAssumption DEF PreparationInit, PreparationAssumption, Setup, Referable
<1>3. prep \in [Preparers -> PrepRecord] /\ \A r \in Preparers : prep[r] = IdlePrep
  BY IdlePrepType DEF PreparationInit
<1>4. prepared = <<>> /\ prepared \in Seq(Prepared)
  BY DEF PreparationInit
<1>5. \A p : Cardinality(Ruled(prepared, p)) = 0
  <2>1. \A p : Ruled(prepared, p) = {}
    BY <1>4 DEF Ruled
  <2>2. QED
    BY <2>1, FS_EmptySet
<1>6. \A p \in Plans : Cardinality(Ruled(prepared, p)) <= Limit
  BY <1>5, PreparationAssumption DEF PreparationAssumption
<1>7. IdlePrep.pc = "idle" /\ IdlePrep.locked = None
  BY DEF IdlePrep
<1>8. QED
  BY <1>2, <1>3, <1>4, <1>6, <1>7 DEF PrepInv, PreparationTypeOK, Holding, Counted

(* A request moves on, with nothing committed: what its new record must    *)
(* say.                                                                    *)
LEMMA RecordKeeps ==
  ASSUME PrepInv, NEW r \in Preparers, NEW rec \in PrepRecord, Prepares(r, rec),
         events' \in 0..MaxEvents, UNCHANGED <<setup, defined, prepared>>,
         rec.pc # "idle" => rec.snap \in Snapshot,
         rec.pc \in {"idle", "lock"} => rec.locked = None,
         rec.pc \in Holding =>
           \A x \in Preparers \ {r} : prep[x].pc \in Holding => prep[x].locked # rec.locked,
         rec.pc \in Counted /\ rec.locked = rec.snap.plan
           => Cardinality(Ruled(prepared, rec.snap.plan)) < Limit
  PROVE  PrepInv'
<1>1. prep' = [prep EXCEPT ![r] = rec] /\ prep \in [Preparers -> PrepRecord]
  BY DEF Prepares, PrepInv, PreparationTypeOK
<1>2. prep' \in [Preparers -> PrepRecord]
      /\ \A x \in Preparers : prep'[x] = IF x = r THEN rec ELSE prep[x]
  BY <1>1
<1>3. PreparationTypeOK'
  BY <1>2 DEF PrepInv, PreparationTypeOK
<1>4. \A x, y \in Preparers : x # y /\ prep'[x].pc \in Holding /\ prep'[y].pc \in Holding
                               => prep'[x].locked # prep'[y].locked
  BY <1>2 DEF PrepInv
<1>5. \A x \in Preparers : /\ prep'[x].pc # "idle" => prep'[x].snap \in Snapshot
                           /\ prep'[x].pc \in {"idle", "lock"} => prep'[x].locked = None
  BY <1>2 DEF PrepInv
<1>6. \A x \in Preparers : prep'[x].pc \in Counted /\ prep'[x].locked = prep'[x].snap.plan
                           => Cardinality(Ruled(prepared, prep'[x].snap.plan)) < Limit
  BY <1>2 DEF PrepInv
<1>7. QED
  BY <1>3, <1>4, <1>5, <1>6 DEF PrepInv

LEMMA RefusalKeeps ==
  ASSUME PrepInv, NEW r \in Preparers, Refuses(r),
         UNCHANGED <<setup, defined, prepared, events>>
  PROVE  PrepInv'
<1>1. IdlePrep.pc = "idle" /\ IdlePrep.locked = None /\ events' \in 0..MaxEvents
      /\ IdlePrep \in PrepRecord /\ Prepares(r, IdlePrep)
  BY IdlePrepType DEF IdlePrep, PrepInv, PreparationTypeOK, Refuses
<1>2. QED
  BY <1>1, RecordKeeps DEF Holding, Counted

LEMMA DemandKeeps ==
  ASSUME PrepInv, NEW r \in Preparers, Demand(r)
  PROVE  PrepInv'
<1>1. events' \in 0..MaxEvents /\ UNCHANGED <<setup, defined, prepared>>
  <2>1. events \in 0..MaxEvents /\ MaxEvents \in Nat
    BY PreparationAssumption DEF PrepInv, PreparationTypeOK, PreparationAssumption
  <2>2. events < MaxEvents /\ events' = events + 1
        /\ UNCHANGED <<setup, defined, prepared>>
    BY Zenon DEF Demand, Event
  <2>3. QED
    BY <2>1, <2>2
<1> DEFINE first == [plan |-> setup.plan, literals |-> {}, refs |-> {}]
           again(i) == [plan |-> prepared[i].plan, literals |-> prepared[i].literals,
                        refs |-> prepared[i].refs]
           new(snap) == [IdlePrep EXCEPT !.pc = "lock", !.snap = snap]
           repeat(i, snap) == [IdlePrep EXCEPT !.pc = "lock", !.source = i, !.snap = snap]
<1>2. IdlePrep \in PrepRecord /\ IdlePrep.locked = None /\ IdlePrep.source = 0
  BY IdlePrepType DEF IdlePrep
<1>3. ASSUME Prepares(r, new(first)) PROVE PrepInv'
  <2>1. setup.plan \in Plans
    BY DEF PrepInv, PreparationTypeOK, Setup
  <2>2. first \in Snapshot /\ first.plan = setup.plan
    BY <2>1 DEF Snapshot
  <2> HIDE DEF first
  <2>3. /\ new(first) \in PrepRecord /\ new(first).pc = "lock" /\ new(first).snap = first
        /\ new(first).locked = None /\ new(first).source = 0
    BY <1>2, <2>2 DEF PrepRecord
  <2> HIDE DEF new
  <2>4. QED
    BY <1>1, <1>3, <2>2, <2>3, RecordKeeps DEF Holding, Counted
<1>4. ASSUME NEW i \in DOMAIN prepared, Prepares(r, repeat(i, again(i))) PROVE PrepInv'
  <2>1. prepared[i] \in Prepared /\ i \in Nat \ {0}
    BY DEF PrepInv, PreparationTypeOK
  <2>2. again(i) \in Snapshot
    BY <2>1 DEF Prepared, Snapshot
  <2> HIDE DEF again
  <2>3. /\ repeat(i, again(i)) \in PrepRecord /\ repeat(i, again(i)).pc = "lock"
        /\ repeat(i, again(i)).snap = again(i)
        /\ repeat(i, again(i)).locked = None /\ repeat(i, again(i)).source = i
    BY <1>2, <2>1, <2>2 DEF PrepRecord
  <2> HIDE DEF repeat
  <2>4. QED
    BY <1>1, <1>4, <2>1, <2>2, <2>3, RecordKeeps DEF Holding, Counted
<1>5. QED
  BY <1>3, <1>4 DEF Demand

LEMMA LockKeeps ==
  ASSUME PrepInv, NEW r \in Preparers, LockEntitlement(r),
         UNCHANGED <<setup, defined, prepared, events>>
  PROVE  PrepInv'
<1> DEFINE old == prep[r]
           rec == [old EXCEPT !.locked = old.snap.plan,
                     !.pc = IF old.source = 0 THEN "read" ELSE "count"]
<1>1. old \in PrepRecord /\ old.snap \in Snapshot /\ old.pc = "lock"
      /\ \A x \in Preparers \ {r} : prep[x].locked # old.snap.plan
  BY DEF PrepInv, PreparationTypeOK, LockEntitlement, EntitlementFree
<1>2. old.snap.plan \in Plans
  BY <1>1 DEF Snapshot
<1>3. rec \in PrepRecord
  BY <1>1, <1>2 DEF PrepRecord
<1>4. /\ rec.pc = (IF old.source = 0 THEN "read" ELSE "count") /\ rec.source = old.source
      /\ rec.snap = old.snap /\ rec.locked = old.snap.plan
  BY <1>1 DEF PrepRecord
<1>5. Prepares(r, rec)
  BY DEF LockEntitlement
<1>6. events' \in 0..MaxEvents
  BY DEF PrepInv, PreparationTypeOK
<1> HIDE DEF old, rec
<1>7. QED
  BY <1>1, <1>3, <1>4, <1>5, <1>6, RecordKeeps DEF Holding, Counted

LEMMA ReadKeeps ==
  ASSUME PrepInv, NEW r \in Preparers, ReadAgain(r),
         UNCHANGED <<setup, defined, prepared, events>>
  PROVE  PrepInv'
<1> DEFINE old == prep[r]
           rec == [old EXCEPT !.pc = "count", !.snap.plan = setup.plan, !.env = setup.env]
           snap == [old.snap EXCEPT !.plan = setup.plan]
<1>1. old \in PrepRecord /\ old.snap \in Snapshot /\ old.pc = "read"
      /\ setup.plan \in Plans /\ setup.env \in SUBSET Referable
  BY DEF PrepInv, PreparationTypeOK, ReadAgain, Setup
<1>2. snap \in Snapshot /\ snap.plan = setup.plan
  BY <1>1 DEF Snapshot
<1>3. rec = [old EXCEPT !.pc = "count", !.snap = snap, !.env = setup.env]
  BY <1>1 DEF PrepRecord
<1>4. Prepares(r, rec)
  BY DEF ReadAgain
<1>5. \A x \in Preparers \ {r} : prep[x].pc \in Holding => prep[x].locked # old.locked
  BY <1>1 DEF PrepInv, Holding
<1>6. events' \in 0..MaxEvents
  BY DEF PrepInv, PreparationTypeOK
<1> HIDE DEF old, snap, rec
<1>7. rec \in PrepRecord
  BY <1>1, <1>2, <1>3 DEF PrepRecord
<1>8. rec.pc = "count" /\ rec.snap = snap /\ rec.locked = old.locked
  BY <1>1, <1>3 DEF PrepRecord
<1>9. QED
  BY <1>1, <1>2, <1>4, <1>5, <1>6, <1>7, <1>8, RecordKeeps DEF Holding, Counted

LEMMA CountKeeps ==
  ASSUME PrepInv, NEW r \in Preparers, CountRuns(r),
         UNCHANGED <<setup, defined, prepared, events>>
  PROVE  PrepInv'
<1> DEFINE old == prep[r]
           rec == [old EXCEPT !.pc = "names"]
<1>1. old \in PrepRecord /\ old.snap \in Snapshot /\ old.pc = "count"
  BY DEF PrepInv, PreparationTypeOK, CountRuns
<1>2. CASE UnfinishedFor(old.snap.plan) < Limit /\ Prepares(r, rec)
  <2>1. /\ rec \in PrepRecord /\ rec.pc = "names" /\ rec.snap = old.snap
        /\ rec.locked = old.locked
    BY <1>1 DEF PrepRecord
  <2>2. \A x \in Preparers \ {r} : prep[x].pc \in Holding => prep[x].locked # old.locked
    BY <1>1 DEF PrepInv, Holding
  <2>3. Cardinality(Ruled(prepared, old.snap.plan)) < Limit
    <3>1. prepared \in Seq(Prepared) /\ Limit \in Nat
      BY PreparationAssumption DEF PrepInv, PreparationTypeOK, PreparationAssumption
    <3>2. Cardinality(Unfinished(prepared, old.snap.plan)) < Limit
      BY <1>2 DEF UnfinishedFor, Unfinished
    <3>3. QED
      BY <3>1, <3>2, UnfinishedCount
  <2>4. events' \in 0..MaxEvents
    BY DEF PrepInv, PreparationTypeOK
  <2> HIDE DEF old, rec
  <2>5. QED
    BY <1>1, <1>2, <2>1, <2>2, <2>3, <2>4, RecordKeeps DEF Holding, Counted
<1>3. CASE Refuses(r)
  BY <1>3, RefusalKeeps
<1>4. QED
  BY <1>2, <1>3 DEF CountRuns

(* The references are resolved and the job is submitted: the plan stays.   *)
LEMMA CountedKeeps ==
  ASSUME PrepInv, NEW r \in Preparers, NEW rec \in PrepRecord, Prepares(r, rec),
         prep[r].pc \in Counted, rec.pc \in Counted, rec.snap \in Snapshot,
         rec.snap.plan = prep[r].snap.plan, rec.locked = prep[r].locked,
         UNCHANGED <<setup, defined, prepared, events>>
  PROVE  PrepInv'
<1>1. prep[r].pc \in Holding /\ rec.pc \in Holding /\ rec.pc \notin {"idle", "lock", "read"}
  BY DEF Counted, Holding
<1>2. \A x \in Preparers \ {r} : prep[x].pc \in Holding => prep[x].locked # rec.locked
  BY <1>1 DEF PrepInv
<1>3. rec.locked = rec.snap.plan => Cardinality(Ruled(prepared, rec.snap.plan)) < Limit
  BY <1>1 DEF PrepInv
<1>4. events' \in 0..MaxEvents
  BY DEF PrepInv, PreparationTypeOK
<1>5. QED
  BY <1>1, <1>2, <1>3, <1>4, RecordKeeps

LEMMA NamesKeep ==
  ASSUME PrepInv, NEW r \in Preparers, CheckNames(r) \/ SubmitJob(r),
         UNCHANGED <<setup, defined, prepared, events>>
  PROVE  PrepInv'
<1> DEFINE old == prep[r]
<1>1. old \in PrepRecord /\ old.snap \in Snapshot /\ old.pc \in Counted
  BY DEF PrepInv, PreparationTypeOK, CheckNames, SubmitJob, Counted
<1>2. CASE CheckNames(r)
  <2> DEFINE snap == Resolved(old)
             rec == [old EXCEPT !.pc = "submit", !.snap = snap]
  <2>1. snap \in Snapshot /\ snap.plan = old.snap.plan
    BY <1>1 DEF Resolved, Snapshot
  <2> HIDE DEF snap
  <2>2. rec \in PrepRecord /\ rec.pc = "submit" /\ rec.snap = snap /\ rec.locked = old.locked
    BY <1>1, <2>1 DEF PrepRecord
  <2>3. Prepares(r, rec) \/ Refuses(r)
    BY <1>2 DEF CheckNames, snap
  <2> HIDE DEF old, rec
  <2>4. CASE Prepares(r, rec)
    BY <1>1, <2>1, <2>2, <2>4, CountedKeeps DEF Counted, old
  <2>5. QED
    BY <2>3, <2>4, RefusalKeeps
<1>3. CASE SubmitJob(r)
  <2> DEFINE job == old.snap.literals \cup (old.snap.refs \cap defined)
             rec == [old EXCEPT !.pc = "commit", !.job = job]
  <2>1. job \in SUBSET Referable
    BY <1>1 DEF Snapshot, Referable
  <2> HIDE DEF job
  <2>2. rec \in PrepRecord /\ rec.pc = "commit" /\ rec.snap = old.snap /\ rec.locked = old.locked
    BY <1>1, <2>1 DEF PrepRecord
  <2>3. Prepares(r, rec)
    BY <1>3 DEF SubmitJob, job
  <2> HIDE DEF old, rec
  <2>4. QED
    BY <1>1, <2>2, <2>3, CountedKeeps DEF Counted, old
<1>4. QED
  BY <1>2, <1>3

(* The new run is of a plan below its limit, and of nobody else's, or it   *)
(* was counted under the lock of another plan.                             *)
LEMMA CommitRunKeeps ==
  ASSUME PrepInv, NEW r \in Preparers, CommitRun(r)
  PROVE  PrepInv'
<1> DEFINE old == prep[r]
           run == [plan |-> old.snap.plan, literals |-> old.snap.literals, refs |-> old.snap.refs,
                   locked |-> old.locked, job |-> old.job, gone |-> old.gone, ended |-> FALSE]
<1>1. /\ old \in PrepRecord /\ old.snap \in Snapshot /\ old.pc \in Counted /\ old.pc \in Holding
      /\ prepared \in Seq(Prepared) /\ prep \in [Preparers -> PrepRecord]
  BY DEF PrepInv, PreparationTypeOK, CommitRun, Counted, Holding
<1>2. run \in Prepared /\ run.plan = old.snap.plan /\ run.locked = old.locked
  BY <1>1 DEF PrepRecord, Snapshot, Prepared
<1>3. /\ prepared' = Append(prepared, run) /\ prep' = [prep EXCEPT ![r] = IdlePrep]
      /\ UNCHANGED <<setup, defined, events>>
  BY DEF CommitRun, Refuses, Prepares
<1>4. old.locked = old.snap.plan => Cardinality(Ruled(prepared, old.snap.plan)) < Limit
  BY <1>1 DEF PrepInv
<1>5. \A x \in Preparers \ {r} : prep[x].pc \in Holding => prep[x].locked # old.locked
  BY <1>1 DEF PrepInv
<1> HIDE DEF old, run
<1>6. prepared' \in Seq(Prepared)
  BY <1>1, <1>2, <1>3
<1>7. ASSUME NEW p
      PROVE  /\ Cardinality(Ruled(prepared, p)) \in Nat
             /\ Cardinality(Ruled(prepared', p)) \in Nat
             /\ Cardinality(Ruled(prepared', p)) <= Cardinality(Ruled(prepared, p)) + 1
             /\ (p # old.snap.plan \/ p # old.locked) =>
                   Cardinality(Ruled(prepared', p)) = Cardinality(Ruled(prepared, p))
  BY <1>1, <1>2, <1>3, <1>6, UnfinishedCount, OneMoreRun
<1>8. IdlePrep \in PrepRecord /\ IdlePrep.pc = "idle" /\ IdlePrep.locked = None
  BY IdlePrepType DEF IdlePrep
<1>9. prep' \in [Preparers -> PrepRecord]
      /\ \A x \in Preparers : prep'[x] = IF x = r THEN IdlePrep ELSE prep[x]
  BY <1>1, <1>3, <1>8
<1>10. PreparationTypeOK'
  BY <1>3, <1>6, <1>9 DEF PrepInv, PreparationTypeOK
<1>11. /\ \A x \in Preparers : /\ prep'[x].pc # "idle" => prep'[x].snap \in Snapshot
                               /\ prep'[x].pc \in {"idle", "lock"} => prep'[x].locked = None
       /\ \A x, y \in Preparers : x # y /\ prep'[x].pc \in Holding /\ prep'[y].pc \in Holding
                                  => prep'[x].locked # prep'[y].locked
  BY <1>8, <1>9 DEF PrepInv, Holding
<1>12. ASSUME NEW x \in Preparers, prep'[x].pc \in Counted,
              prep'[x].locked = prep'[x].snap.plan
       PROVE  Cardinality(Ruled(prepared', prep'[x].snap.plan)) < Limit
  <2>1. x # r /\ prep'[x] = prep[x]
    BY <1>8, <1>9, <1>12 DEF Counted
  <2>2. prep[x].locked # old.locked
    BY <1>5, <1>12, <2>1 DEF Counted, Holding
  <2>3. Cardinality(Ruled(prepared, prep[x].snap.plan)) < Limit
    BY <1>12, <2>1 DEF PrepInv
  <2>4. QED
    BY <1>7, <1>12, <2>1, <2>2, <2>3
<1>13. ASSUME NEW p \in Plans PROVE Cardinality(Ruled(prepared', p)) <= Limit
  <2>1. Cardinality(Ruled(prepared, p)) <= Limit /\ Limit \in Nat
    BY PreparationAssumption DEF PrepInv, PreparationAssumption
  <2>2. CASE p = old.snap.plan /\ p = old.locked
    BY <1>4, <1>7, <2>1, <2>2
  <2>3. CASE p # old.snap.plan \/ p # old.locked
    BY <1>7, <2>1, <2>3
  <2>4. QED
    BY <2>2, <2>3
<1>14. QED
  BY <1>10, <1>11, <1>12, <1>13 DEF PrepInv

(* Somebody edits the configuration, a variable or a secret: the requests  *)
(* under way keep what they have read.                                     *)
LEMMA EditsKeep ==
  ASSUME PrepInv, EditConfiguration \/ DefineName
  PROVE  PrepInv'
<1>1. events' \in 0..MaxEvents /\ UNCHANGED <<prepared, prep>>
  BY PreparationAssumption
  DEF PrepInv, PreparationTypeOK, PreparationAssumption, EditConfiguration, DefineName, Event
<1>2. setup' \in Setup /\ defined' \subseteq Referable
  BY DEF EditConfiguration, DefineName, Setup, PrepInv, PreparationTypeOK
<1>3. QED
  BY <1>1, <1>2 DEF PrepInv, PreparationTypeOK

LEMMA DeleteKeeps ==
  ASSUME PrepInv, DeleteName
  PROVE  PrepInv'
<1>1. PICK n \in defined :
        /\ defined' = defined \ {n}
        /\ prep' = [r \in Preparers |->
             IF prep[r].pc = "submit" THEN [prep[r] EXCEPT !.gone = @ \cup ({n} \cap Secrets)]
             ELSE prep[r]]
  BY DEF DeleteName
<1>2. events' \in 0..MaxEvents /\ UNCHANGED <<setup, prepared>>
  BY PreparationAssumption
  DEF PrepInv, PreparationTypeOK, PreparationAssumption, DeleteName, Event
<1>3. ASSUME NEW r \in Preparers
      PROVE  /\ prep'[r] \in PrepRecord /\ prep'[r].pc = prep[r].pc
             /\ prep'[r].snap = prep[r].snap /\ prep'[r].locked = prep[r].locked
  <2>1. prep[r] \in PrepRecord
    BY DEF PrepInv, PreparationTypeOK
  <2>2. CASE prep[r].pc # "submit"
    BY <1>1, <2>1, <2>2
  <2>3. CASE prep[r].pc = "submit"
    <3>1. prep'[r] = [prep[r] EXCEPT !.gone = @ \cup ({n} \cap Secrets)]
      BY <1>1, <2>3
    <3>2. QED
      BY <2>1, <3>1 DEF PrepRecord
  <2>4. QED
    BY <2>2, <2>3
<1>4. prep' \in [Preparers -> PrepRecord]
  BY <1>1, <1>3
<1>5. PreparationTypeOK'
  BY <1>1, <1>2, <1>4 DEF PrepInv, PreparationTypeOK
<1>6. QED
  BY <1>2, <1>3, <1>5 DEF PrepInv

LEMMA EndRunKeeps ==
  ASSUME PrepInv, EndRun
  PROVE  PrepInv'
<1>1. PICK i \in DOMAIN prepared : prepared' = [prepared EXCEPT ![i].ended = TRUE]
  BY DEF EndRun
<1>2. /\ UNCHANGED <<setup, defined, events, prep>> /\ prepared \in Seq(Prepared)
      /\ Limit \in Nat
  BY PreparationAssumption DEF EndRun, PrepInv, PreparationTypeOK, PreparationAssumption
<1>3. prepared' \in Seq(Prepared)
      /\ \A p : Cardinality(Ruled(prepared', p)) <= Cardinality(Ruled(prepared, p))
  BY <1>1, <1>2, RunEnds
<1>4. \A p : /\ Cardinality(Ruled(prepared, p)) \in Nat
             /\ Cardinality(Ruled(prepared', p)) \in Nat
  BY <1>2, <1>3, UnfinishedCount
<1>5. PreparationTypeOK'
  BY <1>2, <1>3 DEF PrepInv, PreparationTypeOK
<1>6. \A p : /\ Cardinality(Ruled(prepared, p)) < Limit =>
                 Cardinality(Ruled(prepared', p)) < Limit
             /\ Cardinality(Ruled(prepared, p)) <= Limit =>
                 Cardinality(Ruled(prepared', p)) <= Limit
  BY <1>2, <1>3, <1>4
<1>7. QED
  BY <1>2, <1>5, <1>6 DEF PrepInv

LEMMA PrepStep == PrepInv /\ [PreparationNext]_preparationVars => PrepInv'
<1> SUFFICES ASSUME PrepInv, [PreparationNext]_preparationVars PROVE PrepInv'
  OBVIOUS
<1>1. CASE UNCHANGED preparationVars
  BY <1>1 DEF preparationVars, PrepInv, PreparationTypeOK
<1>2. ASSUME NEW r \in Preparers, Demand(r) \/ CommitRun(r) PROVE PrepInv'
  BY <1>2, DemandKeeps, CommitRunKeeps
<1>3. ASSUME NEW r \in Preparers, UNCHANGED <<setup, defined, prepared, events>>,
             \/ LockEntitlement(r) \/ ReadAgain(r) \/ CountRuns(r) \/ CheckNames(r)
             \/ SubmitJob(r) \/ RefuseRun(r)
      PROVE  PrepInv'
  <2>1. RefuseRun(r) => Refuses(r)
    BY DEF RefuseRun
  <2>2. QED
    BY <1>3, <2>1, LockKeeps, ReadKeeps, CountKeeps, NamesKeep, RefusalKeeps
<1>4. QED
  BY <1>1, <1>2, <1>3, EditsKeep, DeleteKeeps, EndRunKeeps DEF PreparationNext

(* Whatever configurations are switched and however many requests overlap, *)
(* the unfinished runs of a plan that were counted under the lock of its   *)
(* entitlement stay within its limit: the limit is exceeded by no more     *)
(* runs than creates whose plan was switched between lock and second       *)
(* reading (run_service.py:309-316).                                       *)
THEOREM OnlySwitchedRunsExceed == PreparationSpec => []ExcessIsSwitched
<1>1. PrepInv => ExcessIsSwitched
  BY DEF PrepInv, ExcessIsSwitched, Ruled
<1>2. QED
  BY PrepInitial, PrepStep, <1>1, PTL DEF PreparationSpec

(* The configuration, the variables and secrets that are defined, the runs *)
(* and every request keep their types, whatever is edited meanwhile.       *)
THEOREM PreparationTyped == PreparationSpec => []PreparationTypeOK
<1>1. PrepInv => PreparationTypeOK
  BY DEF PrepInv
<1>2. QED
  BY PrepInitial, PrepStep, <1>1, PTL DEF PreparationSpec

-----------------------------------------------------------------------------
(* The environment of the job.  From the check on, what the snapshot       *)
(* refers to is defined or was deleted since; once submitted, it is in the *)
(* job's environment or was gone by then.                                  *)
EnvironmentOf(rec) ==
  /\ rec.pc = "submit" => rec.snap.refs \ defined \subseteq rec.gone
  /\ rec.pc = "commit" => (rec.snap.literals \cup rec.snap.refs) \ rec.job \subseteq rec.gone

EnvInv == JobEnvironmentComplete /\ \A r \in Preparers : EnvironmentOf(prep[r])

LEMMA EnvRecordKeeps ==
  ASSUME PrepInv, EnvInv, NEW r \in Preparers, NEW rec, Prepares(r, rec), EnvironmentOf(rec),
         UNCHANGED <<defined, prepared>>
  PROVE  EnvInv'
<1>1. prep' = [prep EXCEPT ![r] = rec] /\ prep \in [Preparers -> PrepRecord]
  BY DEF Prepares, PrepInv, PreparationTypeOK
<1>2. \A x \in Preparers : prep'[x] = IF x = r THEN rec ELSE prep[x]
  BY <1>1
<1>3. JobEnvironmentComplete'
  BY DEF EnvInv, JobEnvironmentComplete
<1>4. \A x \in Preparers : EnvironmentOf(prep'[x])
  BY <1>2 DEF EnvInv
<1>5. \A x \in Preparers : EnvironmentOf(prep[x])'
  BY <1>4 DEF EnvironmentOf
<1>6. QED
  BY <1>3, <1>5 DEF EnvInv

LEMMA EnvStep == PrepInv /\ EnvInv /\ [PreparationNext]_preparationVars => EnvInv'
<1> SUFFICES ASSUME PrepInv, EnvInv, [PreparationNext]_preparationVars PROVE EnvInv'
  OBVIOUS
<1>1. CASE UNCHANGED preparationVars
  BY <1>1 DEF preparationVars, EnvInv, JobEnvironmentComplete, EnvironmentOf
<1>2. ASSUME NEW r \in Preparers PROVE
        /\ prep[r] \in PrepRecord
        /\ prep[r].pc # "idle" => prep[r].snap \in Snapshot
        /\ EnvironmentOf(prep[r])
  BY DEF PrepInv, PreparationTypeOK, EnvInv
<1>3. \A r \in Preparers : \A rec : rec.pc \notin {"submit", "commit"} => EnvironmentOf(rec)
  BY DEF EnvironmentOf
<1>4. IdlePrep.pc = "idle"
  BY DEF IdlePrep
<1>5. ASSUME NEW r \in Preparers, Demand(r) PROVE EnvInv'
  <2>1. UNCHANGED <<defined, prepared>>
    BY <1>5, Zenon DEF Demand
  <2>2. PICK rec : Prepares(r, rec) /\ rec.pc = "lock"
    <3> DEFINE new(snap) == [IdlePrep EXCEPT !.pc = "lock", !.snap = snap]
               repeat(i, snap) == [IdlePrep EXCEPT !.pc = "lock", !.source = i, !.snap = snap]
    <3>1. \A i, snap : new(snap).pc = "lock" /\ repeat(i, snap).pc = "lock"
      BY DEF IdlePrep
    <3>2. \/ \E snap : Prepares(r, new(snap))
          \/ \E i, snap : Prepares(r, repeat(i, snap))
      BY <1>5, Zenon DEF Demand
    <3> HIDE DEF new, repeat
    <3>3. QED
      BY <3>1, <3>2
  <2>3. QED
    BY <1>3, <2>1, <2>2, EnvRecordKeeps
<1>6. ASSUME NEW r \in Preparers, UNCHANGED <<setup, defined, prepared, events>>,
             LockEntitlement(r) \/ ReadAgain(r) \/ CountRuns(r) \/ RefuseRun(r)
      PROVE  EnvInv'
  <2>1. PICK rec : Prepares(r, rec) /\ rec.pc \in {"idle", "read", "count", "names"}
    <3>1. CASE LockEntitlement(r)
      <4> DEFINE pc == IF prep[r].source = 0 THEN "read" ELSE "count"
      <4>1. pc \in {"read", "count"}
        OBVIOUS
      <4> HIDE DEF pc
      <4>2. [prep[r] EXCEPT !.locked = prep[r].snap.plan, !.pc = pc].pc = pc
        BY <1>2 DEF PrepRecord
      <4>3. Prepares(r, [prep[r] EXCEPT !.locked = prep[r].snap.plan, !.pc = pc])
        BY <3>1 DEF LockEntitlement, pc
      <4>4. QED
        BY <4>1, <4>2, <4>3
    <3>2. CASE ReadAgain(r)
      <4> DEFINE rec == [prep[r] EXCEPT !.pc = "count", !.snap.plan = setup.plan, !.env = setup.env]
      <4>1. Prepares(r, rec)
        BY <3>2 DEF ReadAgain
      <4>2. rec.pc = "count"
        BY <1>2 DEF PrepRecord
      <4>3. QED
        BY <4>1, <4>2
    <3>3. CASE CountRuns(r)
      BY <1>2, <1>4, <3>3 DEF CountRuns, Refuses, PrepRecord
    <3>4. CASE RefuseRun(r)
      BY <1>4, <3>4 DEF RefuseRun, Refuses
    <3>5. QED
      BY <1>6, <3>1, <3>2, <3>3, <3>4
  <2>2. QED
    BY <1>3, <1>6, <2>1, EnvRecordKeeps
<1>7. ASSUME NEW r \in Preparers, UNCHANGED <<setup, defined, prepared, events>>,
             CheckNames(r)
      PROVE  EnvInv'
  <2> DEFINE old == prep[r]
             snap == Resolved(old)
             rec == [old EXCEPT !.pc = "submit", !.snap = snap]
  <2>1. old \in PrepRecord /\ old.snap \in Snapshot
    BY <1>2, <1>7 DEF CheckNames
  <2>2. Missing(old) = {} => snap.refs \subseteq defined
    <3>1. CASE old.source # 0
      BY <3>1 DEF Missing, Resolved
    <3>2. CASE old.source = 0
      <4>1. snap.refs = old.env \cap Secrets
        BY <2>1, <3>2 DEF Resolved, Snapshot
      <4>2. QED
        BY <3>2, <4>1 DEF Missing
    <3>3. QED
      BY <3>1, <3>2
  <2> HIDE DEF snap
  <2>3. rec.pc = "submit" /\ rec.snap = snap
    BY <2>1 DEF PrepRecord
  <2>4. (Missing(old) = {} /\ Prepares(r, rec)) \/ Refuses(r)
    BY <1>7 DEF CheckNames, snap
  <2> HIDE DEF old, rec
  <2>5. CASE Missing(old) = {} /\ Prepares(r, rec)
    <3>1. EnvironmentOf(rec)
      BY <2>2, <2>3, <2>5 DEF EnvironmentOf
    <3>2. QED
      BY <1>7, <2>5, <3>1, EnvRecordKeeps
  <2>6. CASE Refuses(r)
    BY <1>3, <1>4, <1>7, <2>6, EnvRecordKeeps DEF Refuses
  <2>7. QED
    BY <2>4, <2>5, <2>6
<1>8. ASSUME NEW r \in Preparers, UNCHANGED <<setup, defined, prepared, events>>,
             SubmitJob(r)
      PROVE  EnvInv'
  <2> DEFINE old == prep[r]
             job == old.snap.literals \cup (old.snap.refs \cap defined)
             rec == [old EXCEPT !.pc = "commit", !.job = job]
  <2>1. old \in PrepRecord /\ old.pc = "submit" /\ EnvironmentOf(old)
    BY <1>2, <1>8 DEF SubmitJob
  <2>2. Prepares(r, rec)
    BY <1>8 DEF SubmitJob
  <2>3. rec.pc = "commit" /\ rec.snap = old.snap /\ rec.gone = old.gone /\ rec.job = job
    BY <2>1 DEF PrepRecord
  <2>4. (old.snap.literals \cup old.snap.refs) \ job \subseteq old.gone
    BY <2>1 DEF EnvironmentOf
  <2> HIDE DEF old, job, rec
  <2>5. EnvironmentOf(rec)
    BY <2>3, <2>4 DEF EnvironmentOf
  <2>6. QED
    BY <1>8, <2>2, <2>5, EnvRecordKeeps
<1>9. ASSUME NEW r \in Preparers, CommitRun(r) PROVE EnvInv'
  <2> DEFINE old == prep[r]
             run == [plan |-> old.snap.plan, literals |-> old.snap.literals, refs |-> old.snap.refs,
                     locked |-> old.locked,
                     job |-> old.job, gone |-> old.gone, ended |-> FALSE]
  <2>1. old.pc = "commit" /\ EnvironmentOf(old) /\ prepared' = Append(prepared, run)
        /\ defined' = defined /\ prep' = [prep EXCEPT ![r] = IdlePrep]
    BY <1>2, <1>9 DEF CommitRun, Refuses, Prepares
  <2>2. (run.literals \cup run.refs) \ run.job \subseteq run.gone
    BY <2>1 DEF EnvironmentOf
  <2> HIDE DEF old, run
  <2>3. prepared \in Seq(Prepared) /\ prep \in [Preparers -> PrepRecord]
    BY DEF PrepInv, PreparationTypeOK
  <2>4. \A i \in DOMAIN prepared' :
          prepared'[i] = run \/ (i \in DOMAIN prepared /\ prepared'[i] = prepared[i])
    BY <2>1, <2>3
  <2>5. JobEnvironmentComplete'
    BY <2>2, <2>4 DEF EnvInv, JobEnvironmentComplete
  <2>6. \A x \in Preparers : prep'[x] = IF x = r THEN IdlePrep ELSE prep[x]
    BY <2>1, <2>3
  <2>7. \A x \in Preparers : EnvironmentOf(prep'[x])
    BY <1>3, <1>4, <2>6 DEF EnvInv
  <2>8. \A x \in Preparers : EnvironmentOf(prep[x])'
    BY <2>1, <2>7 DEF EnvironmentOf
  <2>9. QED
    BY <2>5, <2>8 DEF EnvInv
<1>10. CASE EditConfiguration
  <2>1. UNCHANGED <<defined, prepared, prep>>
    BY <1>10 DEF EditConfiguration
  <2>2. QED
    BY <2>1 DEF EnvInv, JobEnvironmentComplete, EnvironmentOf
<1>11. CASE DefineName
  <2>1. UNCHANGED <<prepared, prep>> /\ defined \subseteq defined'
    BY <1>11 DEF DefineName
  <2>2. QED
    BY <2>1 DEF EnvInv, JobEnvironmentComplete, EnvironmentOf
<1>12. CASE DeleteName
  <2>1. PICK n \in defined :
          /\ defined' = defined \ {n}
          /\ prep' = [r \in Preparers |->
               IF prep[r].pc = "submit" THEN [prep[r] EXCEPT !.gone = @ \cup ({n} \cap Secrets)]
               ELSE prep[r]]
    BY <1>12 DEF DeleteName
  <2>2. prepared' = prepared
    BY <1>12 DEF DeleteName
  <2>3. ASSUME NEW r \in Preparers PROVE EnvironmentOf(prep[r])'
    <3>1. CASE prep[r].pc # "submit"
      <4>1. prep'[r] = prep[r]
        BY <2>1, <3>1
      <4>2. QED
        BY <1>2, <3>1, <4>1 DEF EnvironmentOf
    <3>2. CASE prep[r].pc = "submit"
      <4>1. prep'[r] = [prep[r] EXCEPT !.gone = @ \cup ({n} \cap Secrets)]
        BY <2>1, <3>2
      <4>2. prep[r].snap.refs \subseteq Secrets /\ prep[r] \in PrepRecord
            /\ prep[r].snap.refs \ defined \subseteq prep[r].gone
        BY <1>2, <3>2 DEF Snapshot, EnvironmentOf
      <4>3. prep'[r].pc = "submit" /\ prep'[r].snap = prep[r].snap
            /\ prep'[r].gone = prep[r].gone \cup ({n} \cap Secrets)
        BY <3>2, <4>1, <4>2 DEF PrepRecord
      <4>4. QED
        BY <2>1, <4>2, <4>3 DEF EnvironmentOf
    <3>3. QED
      BY <3>1, <3>2
  <2>4. QED
    BY <2>2, <2>3 DEF EnvInv, JobEnvironmentComplete
<1>13. CASE EndRun
  <2>1. PICK i \in DOMAIN prepared : prepared' = [prepared EXCEPT ![i].ended = TRUE]
    BY <1>13 DEF EndRun
  <2>2. UNCHANGED <<defined, prep>> /\ prepared \in Seq(Prepared)
    BY <1>13 DEF EndRun, PrepInv, PreparationTypeOK
  <2>3. ASSUME NEW j \in DOMAIN prepared
        PROVE  /\ prepared'[j].literals = prepared[j].literals /\ prepared'[j].refs = prepared[j].refs
               /\ prepared'[j].job = prepared[j].job /\ prepared'[j].gone = prepared[j].gone
    <3>1. prepared[j] \in Prepared
      BY <2>2
    <3>2. prepared'[j] = IF j = i THEN [prepared[j] EXCEPT !.ended = TRUE] ELSE prepared[j]
      BY <2>1, <2>2
    <3>3. QED
      BY <3>1, <3>2 DEF Prepared
  <2>4. DOMAIN prepared' = DOMAIN prepared
    BY <2>1
  <2>5. JobEnvironmentComplete'
    BY <2>3, <2>4 DEF EnvInv, JobEnvironmentComplete
  <2>6. QED
    BY <2>2, <2>5 DEF EnvInv, EnvironmentOf
<1>14. QED
  BY <1>1, <1>5, <1>6, <1>7, <1>8, <1>9, <1>10, <1>11, <1>12, <1>13 DEF PreparationNext

(* The job of every run, repeated ones included, gets all that its         *)
(* snapshot refers to, but for secrets deleted between the check and the   *)
(* submission, for any names and any number of requests.                   *)
THEOREM EnvironmentsAreComplete == PreparationSpec => []JobEnvironmentComplete
<1>1. PreparationInit => EnvInv
  BY DEF PreparationInit, EnvInv, JobEnvironmentComplete, EnvironmentOf, IdlePrep
<1>2. EnvInv => JobEnvironmentComplete
  BY DEF EnvInv
<1>3. QED
  BY PrepInitial, PrepStep, EnvStep, <1>1, <1>2, PTL DEF PreparationSpec

=============================================================================
