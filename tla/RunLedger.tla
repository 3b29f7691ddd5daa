----------------------------- MODULE RunLedger -----------------------------
(***************************************************************************)
(* What run execution promises, in atomic steps: a run is admitted only    *)
(* while its plan has a free slot, moves between queued and running as the *)
(* scheduler reports, and finishes exactly once, for good.  No locks, no   *)
(* transactions, no stale rows.  RunSystem implements it (with one syncer) *)
(* under the mapping given there.                                          *)
(***************************************************************************)
EXTENDS Naturals, FiniteSets

CONSTANTS Runs, Plans, Limit, None

VARIABLES
  status,   \* status[r]: "absent" until r is created
  plan,     \* plan[r]: the compute plan whose slot r takes
  finished  \* finished[r]: how often r has been finished

Active   == {"queued", "running"}
Finishes == {"succeeded", "failed", "cancelled"}

ActiveOn(p) == {r \in Runs : plan[r] = p /\ status[r] \in Active}

Init ==
  /\ status = [r \in Runs |-> "absent"]
  /\ plan = [r \in Runs |-> None]
  /\ finished = [r \in Runs |-> 0]

Create(r, p, st) ==
  /\ status[r] = "absent"
  /\ status' = [status EXCEPT ![r] = st]
  /\ plan' = [plan EXCEPT ![r] = p]
  /\ UNCHANGED finished

Admit(r)  == \E p \in Plans : /\ Cardinality(ActiveOn(p)) < Limit[p]
                              /\ Create(r, p, "queued")
Decline(r) == \E p \in Plans : Create(r, p, "submit_failed")

(* One observation of the scheduler, of any number of runs at once.        *)
Observed(r) ==
  \/ status'[r] = status[r] /\ finished'[r] = finished[r]
  \/ /\ status[r] \in Active
     /\ status'[r] \in Active
     /\ finished'[r] = finished[r]
  \/ /\ status[r] \in Active
     /\ status'[r] \in Finishes
     /\ finished'[r] = finished[r] + 1

Observe ==
  /\ status' \in [Runs -> Active \cup Finishes \cup {"absent", "submit_failed"}]
  /\ finished' \in [Runs -> Nat]
  /\ \A r \in Runs : Observed(r)
  /\ UNCHANGED plan

Next == Observe \/ \E r \in Runs : Admit(r) \/ Decline(r)

Spec == Init /\ [][Next]_<<status, plan, finished>>

=============================================================================
