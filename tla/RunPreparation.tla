--------------------------- MODULE RunPreparation ---------------------------
(***************************************************************************)
(* What goes into a run: preflight, create, rerun, _revalidate_snapshot    *)
(* and _submit of RunService, statement by statement, while others edit    *)
(* the run configuration and the workspace's variables and secrets.        *)
(*                                                                         *)
(* create reads the configuration, locks the entitlement of its plan and   *)
(* calls preflight, which reads the configuration again and checks that    *)
(* one.  (RunSubmission has the keys, the failures and the rows of the     *)
(* same requests, with a configuration that does not change.)              *)
(***************************************************************************)
EXTENDS Naturals, FiniteSets, Sequences, Absent

CONSTANTS
  Preparers,   \* requests under way at the same time
  Plans,       \* compute plans the workspace is entitled to
  Limit,       \* max_concurrent_runs of each entitlement
  Variables,   \* names of workspace variables
  Secrets,     \* names of workspace secrets
  MaxEvents    \* bound: requests, edits and deletions together

ASSUME PreparationAssumption == Limit \in Nat /\ MaxEvents \in Nat

Referable == Variables \cup Secrets

VARIABLES
  setup,      \* the committed run configuration
  defined,    \* names of the committed variables and secrets
  prepared,   \* the committed runs with their snapshots
  events,     \* how many requests, edits and deletions there were
  prep        \* prep[r]: the transaction of request r

preparationVars == <<setup, defined, prepared, events, prep>>

Setup    == [plan : Plans, env : SUBSET Referable]
Snapshot == [plan : Plans, literals : SUBSET Variables, refs : SUBSET Secrets]
Prepared == [plan : Plans, literals : SUBSET Variables, refs : SUBSET Secrets,
             locked : Plans \cup {None},  \* history: whose entitlement was locked
             job : SUBSET Referable,      \* what the job's environment holds
             gone : SUBSET Secrets,       \* history: deleted since the check
             ended : BOOLEAN]

PrepRecord ==
  [pc     : {"idle", "lock", "read", "count", "names", "submit", "commit"},
   source : Nat,                        \* the run to run again, or 0
   locked : Plans \cup {None},          \* whose entitlement it locks
   snap   : Snapshot \cup {None},
   env    : SUBSET Referable,           \* of the second reading
   job    : SUBSET Referable,
   gone   : SUBSET Secrets]

IdlePrep == [pc |-> "idle", source |-> 0, locked |-> None, snap |-> None, env |-> {},
             job |-> {}, gone |-> {}]

PreparationInit ==
  /\ \E plan \in Plans : setup = [plan |-> plan, env |-> Referable]
  /\ defined = Referable
  /\ prepared = <<>>
  /\ events = 0
  /\ prep = [r \in Preparers |-> IdlePrep]

Prepares(r, rec) == prep' = [prep EXCEPT ![r] = rec]
Refuses(r)       == Prepares(r, IdlePrep)
Event            == events < MaxEvents /\ events' = events + 1

-----------------------------------------------------------------------------
(* create reads the configuration, rerun the snapshot of an earlier run.   *)
Demand(r) ==
  /\ prep[r].pc = "idle"
  /\ Event
  /\ \/ Prepares(r, [IdlePrep EXCEPT !.pc = "lock",
          !.snap = [plan |-> setup.plan, literals |-> {}, refs |-> {}]])
     \/ \E i \in DOMAIN prepared :
          Prepares(r, [IdlePrep EXCEPT !.pc = "lock", !.source = i,
            !.snap = [plan |-> prepared[i].plan, literals |-> prepared[i].literals,
                      refs |-> prepared[i].refs]])
  /\ UNCHANGED <<setup, defined, prepared>>

(* Faulty: the entitlement is read without FOR UPDATE.                     *)
LocksNothing(r, plan) == TRUE

EntitlementFree(r, plan) == \A x \in Preparers \ {r} : prep[x].locked # plan

(* lock_for_plan, of the plan read so far.                                 *)
LockEntitlement(r) ==
  LET plan == prep[r].snap.plan IN
  /\ prep[r].pc = "lock"
  /\ EntitlementFree(r, plan)
  /\ Prepares(r, [prep[r] EXCEPT !.locked = plan,
                    !.pc = IF prep[r].source = 0 THEN "read" ELSE "count"])

(* preflight reads the configuration again: the plan and the environment   *)
(* of the snapshot are this reading's.                                     *)
ReadAgain(r) ==
  /\ prep[r].pc = "read"
  /\ Prepares(r, [prep[r] EXCEPT !.pc = "count", !.snap.plan = setup.plan, !.env = setup.env])

UnfinishedFor(plan) ==
  Cardinality({i \in DOMAIN prepared : prepared[i].plan = plan /\ ~prepared[i].ended})

(* _check_concurrency, of the plan of the snapshot.                        *)
CountRuns(r) ==
  /\ prep[r].pc = "count"
  /\ IF UnfinishedFor(prep[r].snap.plan) < Limit
     THEN Prepares(r, [prep[r] EXCEPT !.pc = "names"]) ELSE Refuses(r)

(* Faulty: a rerun trusts the snapshot it repeats.                         *)
MissingOnCreation(rec) == IF rec.source = 0 THEN rec.env \ defined ELSE {}

(* The references of resolve_env that name nothing; a rerun asks for its   *)
(* secrets only, the variables' values are in the snapshot.                *)
Missing(rec) == (IF rec.source = 0 THEN rec.env ELSE rec.snap.refs) \ defined

Resolved(rec) ==
  IF rec.source # 0 THEN rec.snap
  ELSE [rec.snap EXCEPT !.literals = rec.env \cap Variables, !.refs = rec.env \cap Secrets]

CheckNames(r) ==
  /\ prep[r].pc = "names"
  /\ IF Missing(prep[r]) # {} THEN Refuses(r)
     ELSE Prepares(r, [prep[r] EXCEPT !.pc = "submit", !.snap = Resolved(prep[r])])

(* _submit resolves the secrets now; a name that is gone is left out.      *)
SubmitJob(r) ==
  LET snap == prep[r].snap IN
  /\ prep[r].pc = "submit"
  /\ Prepares(r, [prep[r] EXCEPT !.pc = "commit",
                    !.job = snap.literals \cup (snap.refs \cap defined)])

CommitRun(r) ==
  LET rec == prep[r] IN
  /\ rec.pc = "commit"
  /\ prepared' = Append(prepared,
       [plan |-> rec.snap.plan, literals |-> rec.snap.literals, refs |-> rec.snap.refs,
        locked |-> rec.locked, job |-> rec.job, gone |-> rec.gone, ended |-> FALSE])
  /\ Refuses(r)
  /\ UNCHANGED <<setup, defined, events>>

(* Every other problem preflight finds, and every failure, rolls back.     *)
RefuseRun(r) == prep[r].pc # "idle" /\ Refuses(r)

-----------------------------------------------------------------------------
(* RunConfigurationService.update.                                         *)
EditConfiguration ==
  /\ Event
  /\ \E plan \in Plans, env \in SUBSET Referable : setup' = [plan |-> plan, env |-> env]
  /\ UNCHANGED <<defined, prepared, prep>>

(* set_variable, set_secret.                                               *)
DefineName ==
  /\ Event
  /\ \E n \in Referable \ defined : defined' = defined \cup {n}
  /\ UNCHANGED <<setup, prepared, prep>>

(* delete_variable, delete_secret.                                         *)
DeleteName ==
  /\ Event
  /\ \E n \in defined :
       /\ defined' = defined \ {n}
       /\ prep' = [r \in Preparers |->
            IF prep[r].pc = "submit" THEN [prep[r] EXCEPT !.gone = @ \cup ({n} \cap Secrets)]
            ELSE prep[r]]
  /\ UNCHANGED <<setup, prepared>>

(* A job has ended and a syncer has recorded it.                           *)
EndRun ==
  /\ \E i \in DOMAIN prepared :
       ~prepared[i].ended /\ prepared' = [prepared EXCEPT ![i].ended = TRUE]
  /\ UNCHANGED <<setup, defined, events, prep>>

PreparationNext ==
  \/ \E r \in Preparers :
       \/ Demand(r) \/ CommitRun(r)
       \/ /\ LockEntitlement(r) \/ ReadAgain(r) \/ CountRuns(r) \/ CheckNames(r)
             \/ SubmitJob(r) \/ RefuseRun(r)
          /\ UNCHANGED <<setup, defined, prepared, events>>
  \/ EditConfiguration \/ DefineName \/ DeleteName \/ EndRun

PreparationSpec == PreparationInit /\ [][PreparationNext]_preparationVars

PreparationTypeOK ==
  /\ setup \in Setup
  /\ defined \subseteq Referable
  /\ prepared \in Seq(Prepared)
  /\ events \in 0..MaxEvents
  /\ prep \in [Preparers -> PrepRecord]

-----------------------------------------------------------------------------
(* A job gets every variable and secret its snapshot refers to, also when  *)
(* a run is repeated long after; only a secret deleted between the check   *)
(* and the submission is silently left out.                                *)
JobEnvironmentComplete ==
  \A i \in DOMAIN prepared :
    (prepared[i].literals \cup prepared[i].refs) \ prepared[i].job \subseteq prepared[i].gone

(* run_service.py:309-316 locks the entitlement before the check so that   *)
(* two requests do not both find the limit not reached.  It locks the plan *)
(* of the first reading and counts on that of the second: runs whose plan  *)
(* was switched in between may come on top of the limit, and no others do. *)
ExcessIsSwitched ==
  \A plan \in Plans :
    Cardinality({i \in DOMAIN prepared :
      /\ prepared[i].plan = plan /\ ~prepared[i].ended
      /\ prepared[i].locked = plan}) <= Limit

(* GR-002a: on a plan there are never more unfinished runs than its limit. *)
PlanLimitHolds == \A plan \in Plans : UnfinishedFor(plan) <= Limit

=============================================================================
