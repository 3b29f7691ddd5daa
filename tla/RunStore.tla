------------------------------ MODULE RunStore ------------------------------
(***************************************************************************)
(* The committed database state the run components share, and the run     *)
(* status vocabulary.  One Workspace: idempotency keys, entitlements and   *)
(* the unfinished-run count are all scoped to a Workspace, so Workspaces   *)
(* do not interact here.                                                   *)
(*                                                                         *)
(* Every variable of this module is COMMITTED state, what a statement of   *)
(* another transaction reads under READ COMMITTED.  Uncommitted writes     *)
(* live in the transactions of RunSubmission and RunSync.                  *)
(***************************************************************************)
EXTENDS Naturals, FiniteSets

CONSTANTS
  Runs,      \* submission requests, and the ids of the runs they may create
  Keys,      \* idempotency keys clients send
  Projects,  \* projects of the workspace
  Plans,     \* compute plans the workspace holds an entitlement for
  Limit,     \* max_concurrent_runs of each plan's entitlement
  None       \* an absent key, run or project

ASSUME LimitAssumption == Limit \in [Plans -> Nat]
ASSUME FiniteAssumption == IsFiniteSet(Runs)

VARIABLES
  run,       \* run[r]: the committed row of runs
  idem,      \* idem[k]: the committed row of idempotency_keys
  finals,    \* finals[r]: committed FINISHED events (and artifact sets) of r
  notices    \* notices[r]: committed notifications about r

storeVars == <<run, idem, finals, notices>>

(* Faulty: failed is left out of the terminal statuses.                    *)
UnfinishedOrFailed == {"queued", "running", "failed"}

Unfinished == {"queued", "running"}
Outcomes   == {"succeeded", "failed", "cancelled"}
Terminal   == Outcomes \cup {"submit_failed"}
Status     == Unfinished \cup Terminal
Endpoints  == {"create_run", "rerun"}

ASSUME NoneAssumption ==
  None \notin Runs \cup Keys \cup Plans \cup Projects \cup Status \cup Endpoints

RunRow == [status  : Status \cup {"absent"},
           job     : BOOLEAN,                  \* scheduler_job_id is set
           project : Projects \cup {None},
           plan    : Plans \cup {None},
           source  : Runs \cup {None}]         \* source_run_id

AbsentRun == [status |-> "absent", job |-> FALSE, project |-> None,
              plan |-> None, source |-> None]

KeyRow == [endpoint : Endpoints \cup {None}, run : Runs \cup {None}]

AbsentKey == [endpoint |-> None, run |-> None]

Exists(r) == run[r].status # "absent"

(* What count_unfinished_for_plan counts: the rows of one plan that still  *)
(* hold a concurrency slot.                                                *)
UnfinishedOn(p) == {r \in Runs : run[r].plan = p /\ run[r].status \in Unfinished}

(* Counts of committed facts saturate at two: "more than once".            *)
Many == 2
Bump(n) == IF n < Many THEN n + 1 ELSE n

StoreInit ==
  /\ run = [r \in Runs |-> AbsentRun]
  /\ idem = [k \in Keys |-> AbsentKey]
  /\ finals = [r \in Runs |-> 0]
  /\ notices = [r \in Runs |-> 0]

StoreTypeOK ==
  /\ run \in [Runs -> RunRow]
  /\ idem \in [Keys -> KeyRow]
  /\ finals \in [Runs -> 0..Many]
  /\ notices \in [Runs -> 0..Many]

=============================================================================
