--------------------------- MODULE RunSubmission ---------------------------
(***************************************************************************)
(* RunService.create and RunService.rerun.  A request is one database      *)
(* transaction, committed after the handler returns and rolled back by any *)
(* exception.  Its uncommitted rows are its program counter; the locks it  *)
(* holds follow from it:                                                   *)
(*   - the unique index entry of the idempotency key it inserted,          *)
(*   - the entitlement row it read FOR UPDATE.                             *)
(* Both are held until the transaction ends.                               *)
(***************************************************************************)
EXTENDS SchedulerJobs

VARIABLE tx        \* tx[q]: the request that may create run q

Working == {"reserve", "lock", "preflight", "submit", "accepted", "rejected"}
Ended   == {"committed", "replayed", "conflict", "refused", "aborted"}

TxRecord == [pc : {"new"} \cup Working \cup Ended,
             endpoint : Endpoints \cup {None},
             key      : Keys \cup {None},
             project  : Projects \cup {None},
             plan     : Plans \cup {None},
             source   : Runs \cup {None},
             reply    : Runs \cup {None}]     \* the run the caller is given

NewTx == [pc |-> "new", endpoint |-> None, key |-> None, project |-> None,
          plan |-> None, source |-> None, reply |-> None]

(* The submissions a client can make: a run configuration of a project     *)
(* (which fixes the plan), or an existing run to run again (which fixes    *)
(* project and plan).                                                      *)
Creations ==
  [endpoint : {"create_run"}, key : Keys \cup {None},
   project : Projects, plan : Plans, source : {None}]
Reruns ==
  {[endpoint |-> "rerun", key |-> k, project |-> run[r].project,
    plan |-> run[r].plan, source |-> r] :
      k \in Keys \cup {None}, r \in {x \in Runs : Exists(x)}}

(* Faulty: the key is only written at the end of the request.              *)
NoKeyHeld(q, k) == FALSE
HoldsKey(q, k) ==
  tx[q].key = k /\ tx[q].pc \in {"lock", "preflight", "submit", "accepted", "rejected"}

(* Faulty: the entitlement row is released once the check has passed, or   *)
(* kept by a request that was refused.                                     *)
HoldsPlanToCheck(q, p) == tx[q].plan = p /\ tx[q].pc = "preflight"
HoldsPlanForGood(q, p) == tx[q].plan = p /\ tx[q].pc \notin {"new", "reserve", "lock"}
HoldsPlan(q, p) ==
  tx[q].plan = p /\ tx[q].pc \in {"preflight", "submit", "accepted", "rejected"}

Goto(q, pc) == tx' = [tx EXCEPT ![q].pc = pc]

-----------------------------------------------------------------------------
(* Faulty: only the operation is compared.                                 *)
SameOperation(m) == idem[m.key].endpoint = m.endpoint

(* _replay_or_reserve: the recorded key must name the same operation on    *)
(* the same project (create) or the same source run (rerun).               *)
SameRequest(m) ==
  LET rec == idem[m.key] IN
  /\ rec.endpoint = m.endpoint
  /\ m.endpoint = "create_run" => run[rec.run].project = m.project
  /\ m.endpoint = "rerun"      => run[rec.run].source = m.source

Accepting(q, m, pc, reply) ==
  tx' = [tx EXCEPT ![q] =
           [pc |-> pc, endpoint |-> m.endpoint, key |-> m.key,
            project |-> m.project, plan |-> m.plan, source |-> m.source,
            reply |-> reply]]

(* A request passes the access guard and looks its key up.  A committed    *)
(* key row always names its run (KeyNamesItsRun), so the "still being      *)
(* processed" answer for a row without one cannot be given.                *)
Receive(q) ==
  /\ tx[q].pc = "new"
  /\ \E m \in Creations \cup Reruns :
       \/ m.key = None /\ Accepting(q, m, "lock", None)
       \/ /\ m.key # None
          /\ idem[m.key] = AbsentKey
          /\ Accepting(q, m, "reserve", None)
       \/ /\ m.key # None
          /\ idem[m.key] # AbsentKey
          /\ SameRequest(m)
          /\ Accepting(q, m, "replayed", idem[m.key].run)
       \/ /\ m.key # None
          /\ idem[m.key] # AbsentKey
          /\ ~SameRequest(m)
          /\ Accepting(q, m, "conflict", None)

(* INSERT of the key, flushed at once: it waits for another transaction    *)
(* that inserted the same key to end, and fails if that one committed.     *)
Reserve(q) ==
  /\ tx[q].pc = "reserve"
  /\ \A o \in Runs : ~HoldsKey(o, tx[q].key)
  /\ Goto(q, IF idem[tx[q].key] = AbsentKey THEN "lock" ELSE "conflict")

(* SELECT ... FOR UPDATE of the entitlement row.                           *)
LockPlan(q) ==
  /\ tx[q].pc = "lock"
  /\ \A o \in Runs : ~HoldsPlan(o, tx[q].plan)
  /\ Goto(q, "preflight")

(* The run configuration is gone, or the pre-submission check reports any  *)
(* problem but the concurrency limit: the exception rolls everything back, *)
(* the key included.                                                       *)
Refuse(q) ==
  /\ tx[q].pc \in {"lock", "preflight"}
  /\ Goto(q, "refused")

(* Faulty: one run too many.                                               *)
HasSlotAtLimit(p) == Cardinality(UnfinishedOn(p)) <= Limit[p]

HasFreeSlot(p) == Cardinality(UnfinishedOn(p)) < Limit[p]

(* _check_concurrency passes; the snapshot, the run, the CREATED event are *)
(* inserted and the key is attached to the run.                            *)
Admit(q) ==
  /\ tx[q].pc = "preflight"
  /\ HasFreeSlot(tx[q].plan)
  /\ Goto(q, "submit")

RefuseAtLimit(q) ==
  /\ tx[q].pc = "preflight"
  /\ ~HasFreeSlot(tx[q].plan)
  /\ Goto(q, "refused")

-----------------------------------------------------------------------------
(* _submit: an effect outside the transaction, before its commit.          *)
SubmitAccepted(q) ==
  /\ tx[q].pc = "submit"
  /\ Accept(q)
  /\ Goto(q, "accepted")

(* SchedulerError, OSError or ValidationFailed: the run is kept as         *)
(* submit_failed, and its creator is notified.                             *)
SubmitFails(q) ==
  /\ tx[q].pc = "submit"
  /\ Goto(q, "rejected")
  /\ UNCHANGED job

(* The Slurm service took the job but the answer never came: the adapter   *)
(* turns the timeout into the same SchedulerError.                         *)
SubmitAnswerLost(q) ==
  /\ Adapter = "slurm"
  /\ tx[q].pc = "submit"
  /\ Accept(q)
  /\ Goto(q, "rejected")

(* Faulty: a failed submission stays queued; a rerun forgets its source.   *)
QueuedRow(q) ==
  [status |-> "queued", job |-> tx[q].pc = "accepted", project |-> tx[q].project,
   plan |-> tx[q].plan, source |-> tx[q].source]
RowWithoutSource(q) ==
  [status |-> IF tx[q].pc = "accepted" THEN "queued" ELSE "submit_failed",
   job |-> tx[q].pc = "accepted", project |-> tx[q].project,
   plan |-> tx[q].plan, source |-> None]

CreatedRow(q) ==
  [status  |-> IF tx[q].pc = "accepted" THEN "queued" ELSE "submit_failed",
   job     |-> tx[q].pc = "accepted",
   project |-> tx[q].project,
   plan    |-> tx[q].plan,
   source  |-> tx[q].source]

(* The request's transaction commits: run, key and notification appear     *)
(* together.  A notification that cannot be written is rolled back to its  *)
(* savepoint and forgotten (sent is FALSE).                                *)
Commit(q, sent) ==
  /\ tx[q].pc \in {"accepted", "rejected"}
  /\ run' = [run EXCEPT ![q] = CreatedRow(q)]
  /\ idem' = [k \in Keys |-> IF k = tx[q].key
                             THEN [endpoint |-> tx[q].endpoint, run |-> q]
                             ELSE idem[k]]
  /\ notices' = [notices EXCEPT ![q] = IF tx[q].pc = "rejected" /\ sent
                                             THEN Bump(@) ELSE @]
  /\ tx' = [tx EXCEPT ![q].pc = "committed", ![q].reply = q]
  /\ UNCHANGED finals

(* The transaction is rolled back after a failure no handler expects.      *)
Aborted(q) ==
  /\ tx[q].pc \in Working
  /\ Goto(q, "aborted")

TxInit == tx = [q \in Runs |-> NewTx]
TxTypeOK == tx \in [Runs -> TxRecord]

=============================================================================
