# 107 Workspace: specifications and proofs

TLA+ modules, TLC configurations and TLAPS proofs for the 107 Workspace backend
(`src/archive/workspace107/backend`), a FastAPI service in which teams keep projects,
submit *runs* of them to a scheduler (a local process, or Slurm over REST) and see how they
end, and for the smaller programs around it that have behaviour of their own: the
CAS login service, the development supervisor and the RunBox console. Paths below are
relative to `src/archive/workspace107/backend/src/workspace107/` unless they start with `src/`.

## Inventory

| Component | State it keeps | Operations | Hard behaviour | What makes it correct |
|---|---|---|---|---|
| Run submission, rerun, cancel (`application/run_service.py`) | rows `runs`, `run_snapshots`, `run_events`, `idempotency_keys` | preflight, create, rerun, cancel | concurrent requests, an external effect before the commit, retries | the concurrency limit holds; a key runs once; a replay is of the same submission |
| Status synchronisation (`application/run_lifecycle.py`, `main.py`) | `runs.status`, events, artifacts | sync_all, sync_run, artifact collection | the background loop and every open run page sync at once; savepoints; row locks held to the end of the batch | a run finishes once, for good, with what the scheduler said |
| Scheduler adapters (`infrastructure/scheduler`) | the mock's in-memory registry; Slurm's own state | submit, poll, cancel | restart, purge, timeouts, cancel racing exit | nothing about a job is guessed |
| Idempotency keys, entitlements (`infrastructure/db/repositories.py`, `tables.py`) | one row per (workspace, key); one per (workspace, plan) | reserve, attach_run, find; lock_for_plan | unique index and row lock held to the end of the transaction | see submission |
| Workspaces, membership (`application/workspace_service.py`) | workspaces, memberships | invite, respond, remove, change role, leave, transfer | unlocked read-modify-write in concurrent requests | `owner_id` and the one owner membership agree (ADR-0008) |
| Access guard (`application/access.py`, `domain/capabilities.py`) | none | role and capability lookup | a role read early and used late | capabilities grow with the role |
| Accounts (`ensure_user`, `tools/seed.py`) | users, workspaces, entitlements, the catalog | ensure user, ensure workspace, create collaborative, seed | first requests of one user overlap; savepoints and unique indexes; seeding beside requests | one account per name, one personal workspace each; a request acts for its user's account |
| Projects, versions, forks (`application/project_service.py`) | projects, working files, versions | write, upload, move, delete, save, restore, create, update, archive, fork | concurrent saves; row locks in list order; stale rows written back | versions are dense; restore gives the version; names are unique |
| Run configurations (`application/run_configuration_service.py`) | configurations, a project's default | create, update, delete | concurrent deletes; the plan changes inside a submission | the default exists; the limit counts the plan that is locked (GR-002a) |
| Run preparation (`run_service.py`, `domain/environment.py`, `snapshot.py`, `infrastructure/secrets.py`) | snapshots, variables, secrets | preflight, snapshot, resolve at submission, revalidate | what is checked is looked up again later | a job gets what its snapshot names |
| Activity, notifications (`application/activity.py`, `notifier.py`) | activities, notifications | record, publish, list by pages, mark read | pages move while they are read; commits out of clock order | readers miss nothing; at most one notification per event |
| Local storage (`infrastructure/storage/local.py`) | blobs, run directories, artifacts | write, read, prepare, collect, delete | shared temporary names; not transactional | a row's content exists |
| Compute requests, presenters, HTTP layer, health, catalog queries, migrations | none of their own | - | - | - |
| Database session (`api/deps.py`, `infrastructure/db/session.py`) | one session and transaction per request | commit after the handler, roll back on any exception | a domain object read early is written back in whole | see each service |
| Front end (`src/archive/workspace107/frontend`) | loaded data, the key of an open submit dialog | load, poll, submit | responses out of order | the latest request wins |
| CAS login (`src/deploy/cas-revproxy/auth`) | a session cookie shared by tabs | login, callback, password login, logout | interleaved logins, lost responses | a callback is refused only if the session has changed |
| Task runner (`src/scripts/tasks/project.py`) | child processes, most of them wrappers of a server | start, watch, stop | hanging children, interrupts, servers the supervisor does not know | what is left running is named |
| RunBox (`src/archive/runbox-v0/runbox/app.py`) | `_ACTIVE_RUN` | start, stream, stop | a pump thread per run beside the event loop | the one slot is freed (that only one run is active is claimed, and does not hold) |

How they interact. A request handler opens one database session, which is one
transaction; services call repositories, storage and the scheduler, and the
dependency `get_services` commits after the handler has returned. Services never call
each other through messages; they meet in the database, where a statement sees what is
committed when it runs (READ COMMITTED) and waits for row locks. The session's identity
map is weak and the repositories keep no rows, only domain objects made of them, so every
`get` or `select` reads the database again; `update(object)` reads the row once more, sets every
column to what the object says, and the ORM sends an UPDATE of the columns that
differ from that second reading. That is how a stale object undoes what another transaction
committed in between, and it is modelled as such (`Merged`, `MergedRow`). The background loop
`_sync_loop` runs `sync_all` in transactions of its own, beside the requests.
The hazards are listed line by line in `PROJECT.json`.

## Modules

| Module | Models | State |
|---|---|---|
| `RunStore` | `tables.py`, `enums.py`, the shared queries | `run`, `idem`: committed rows; `finals`, `notices`: how many FINISHED events and notifications of a run are committed (saturating at 2, "more than once") |
| `SchedulerJobs` | `mock.py`, `slurm.py` | `job[r]`: what the scheduler holds for the job of run r, and whether a cancel reached it |
| `RunSubmission` | `RunService.create`, `rerun`, `_submit`, `_replay_or_reserve` | `tx[q]`: a request: how far it is, what it asked, what it answered |
| `RunSync` | `RunLifecycleService.sync_all`, `sync_run` | `sync[s]`: a syncer: rows it loaded, the run it is at, its uncommitted writes and notifications |
| `RunSystem` | the composition, `RunService.cancel`, restarts, the properties | `cancelling`, `asked`, and the budgets `cancels`, `faults` |
| `RunLedger` | the abstract specification: atomic admission and observation | `status`, `plan`, `finished` |
| `Membership` | `WorkspaceService.invite_member` to `transfer_ownership`, `AccessGuard.workspace` | `owner`, `member`: the committed `workspaces.owner_id` and memberships of one workspace; `tx[s]`: a request's transaction, with what it has read and what it has locked |
| `Roster` | the abstract specification: each membership operation as one step | `owner`, `member` |
| `ProjectTree` | write, upload, delete, move, save, restore of `ProjectService`, `LocalStorage.write_blob` | `files`, `versions`: committed rows; `blob`, `temporary`, `filled`: the content-addressed files; `edit[w]`: a request |
| `ProjectSettings` | create, update, archive, fork, `_touch` of `ProjectService`, create and delete of `RunConfigurationService` | `project`, `configs`, `siblings`: committed rows; `session[s]`: a request; `crossed`: which operations have overlapped |
| `Accounts` | `ensure_user`, `_ensure_personal_workspace`, `create_collaborative`, `seed_catalog`, `seed_demo` | `catalog`, `users`, `spaces`; `visit[v]`: a request |
| `RunPreparation` | preflight, the snapshot, `_revalidate_snapshot`, `_resolve_environment` and `_submit` of `RunService`; configuration, variable and secret edits | `setup`, `defined`, `prepared`; `prep[r]`: a request |
| `Feeds` | `ActivityRecorder`, `Notifier`, `paginate`, mark as read, a client that reads page by page | `clock`, `feed`, `unread`, `publisher`, `reader` |
| `DevServer` | `run_dev`, `demo`, `_wait_until_ready`, `_stop_processes` | `task`, `boss`, `at`: the supervisor; `child`, `known`: its processes; `serving`: the servers behind them |
| `RunBox` | `/api/run`, `/api/run/stream`, `/api/run/stop` and the pump thread | `active`: `_ACTIVE_RUN`; `launch`, `script`, `pump`, `queue`, `client` |
| `LoginSession` | `/login`, the ticket callback, `/login/password`, `/logout` of `auth_server.py` | `cookie`; `tab[t]`: a tab and its request under way |
| `Absent` | the model value `None` the modules above share | - |
| `MCRunSystem`, `MCMembership`, `MCServices` | TLC definitions: limits, symmetry, a small tree, and the composition of the components that share no state | `focus` (MCServices) |
| `RunSystemProofs`, `RunLedgerProofs`, `MembershipProofs`, `ProjectProofs`, `SettingsProofs`, `AccountsProofs`, `PreparationProofs`, `ServiceProofs` | proofs | - |

How the code becomes actions. An action ends where another process can act in between:
at a statement that waits for a lock or reads committed state, at a call to the scheduler,
at the commit. A transaction's uncommitted rows are its program counter and fields, and its
locks follow from them (`HoldsKey`, `HoldsPlan`, `HoldsRow`), so a rollback is one step
that forgets them. `create` is Receive (guard, key lookup), Reserve (the flushed INSERT),
LockPlan (SELECT FOR UPDATE), Admit / RefuseAtLimit / Refuse (preflight, snapshot and run
rows), SubmitAccepted / SubmitFails / SubmitAnswerLost (the scheduler), Commit; `rerun` is
the same with the source's project and plan. `sync_all` is SyncStart
(list_unfinished), then for each loaded run SyncPoll, SyncWrite or SyncClaim and SyncCollect,
and SyncCommit; SyncSkip is an exception for one run (its savepoint), SyncDeadlockVictim the
database breaking a cycle of waiting syncers. The constants are the runs (requests and runs
are numbered together: request q may create run q), keys, projects, plans, limits, syncers,
the adapter and the two budgets. One workspace: keys, entitlements and counts
are all scoped to one. Definitions headed "Faulty" are plausible mistakes used to test the
properties; no action uses them.

In `Membership` a session is a transaction, reused for the next request. Request reads the
workspace; Guard the actor's membership (`AccessGuard`, with the capability the operation
needs: `May`); Target the membership the operation is about, where it is refused or goes on
(`Demanded`, `SparesOwner`); a transfer then reads the registered owner (Previous). The writes follow in the
code's order: Demote, Write, Handover. Each reads the row again (`Base`; a step of its own
only when it then has to wait), and is a flushed UPDATE of the columns that differ from that reading
(one that changes none is skipped) which waits for the row lock and takes effect at Commit over what is
committed by then (`Merged`); the INSERT of a second membership for one user is refused by
`uq_membership`. Rollback is any failure, a deadlock's victim included. The granted roles
exclude owner because `_reject_owner_role` refuses it.
A personal workspace has one user and refuses these operations, so only a collaborative one is modelled.

`ProjectTree`: a statement of the working tree is an action: Begin, then `Exists`, `Open`, `Fill`, `Replace` for a content
(write_blob), `Lookup` or `List` for what a deletion, move, restore or save starts from, `DeleteRow`, `GetRow`, `PutRow`
for the rows, `Compare`, `Number`, `Insert` for a version, `Touch` for the projects row,
`CommitEdit`, and `Abandon` for any failure; `BreakDeadlock` is the database failing one of a cycle of waiting
requests. A path is a tuple of segments; the paths that exist are a
constant. A project starts as a fork, with a tree and version 1, or as created, without a file
or a version: `Latest` is then `NoVersion` (an empty baseline, number 0), and the first saves
compute number 1 and may race for it. `ProjectSettings`: BeginEdit (the guard's reading), Check (what is looked up before
the write), UpdateProject or InsertProject and CopyConfigs, EndEdit. `Accounts`: each reading,
each savepoint's INSERT, the grants and the commit are actions; a lost INSERT rolls back to its savepoint and reads again.
`RunPreparation`: Demand (the first reading), LockEntitlement, ReadAgain, CountRuns,
CheckNames, SubmitJob, CommitRun, between edits of the configuration and of names. `Feeds`: Announce (the
clock is read), SaveEntry (the savepoint), CommitEntry; a page is CountEntries and FetchRows.
`DevServer`: Popen and `append` are two steps because an interrupt may come between
them. What `run_dev` starts is a wrapper (`uvicorn --reload`, `uv run`, `pnpm run`) whose server is a
process of its own (`ChildServes`), which the supervisor cannot signal; `demo` starts its server itself. After a kill
`_stop_processes` waits a second time, and the timeout of that wait leaves the loop (`WaitChild`). `RunBox`: a step ends at an `await` of a handler, or at each item the pump thread hands
to the loop. `LoginSession`: a request works on the cookie it was sent with, and its
response replaces the whole cookie.

What is abstracted in the run modules: names, messages, timestamps, exit codes other than zero or not, files,
snapshots, the pre-submission checks other than the limit (one nondeterministic Refuse),
missing artifacts (a Boolean choice), ERROR, SUBMITTED and STARTED events and activities.

## Runs and bounds

| Run | Bounds | Question |
|---|---|---|
| `run_submission` | mock, 3 requests, 1 key, 2 projects, 1 plan, limit 1, 1 syncer | do concurrent creations and reruns respect the limit, run a key once and replay faithfully? |
| `run_failures` | slurm, 2 requests, 2 failures, 1 cancel | do rows, keys, history and slots survive rollbacks, lost answers, purges, restarts, and is every step a step of the ledger? |
| `run_restart` | mock, 2 requests, 2 syncers, limit 2, 1 failure, 1 cancel (3.5 million states) | is what a status says of the job true, also after a restart, does a cancellation forestall a success nobody has polled, and does the conditional update let one syncer finish a run? |
| `run_liveness` | mock, 2 requests, 2 syncers, limit 1, fairness | does every finished job get shown, for good, and every request end? |
| `membership_serial` | 3 users, 1 session | do the membership operations keep one active owner, and is each one atomic step of `Roster`? |
| `membership_overlap` | 2 users, 2 sessions (3.4 million states) | whatever overlaps: was every active member's invitation accepted at some time, and every owner appointed? |
| `services` | each component below, 450 thousand states together | do the components that share no state keep their promises, each under every interleaving of its actors? |
| `finding_switched_plan` | 2 plans, limit 1, 2 requests, 3 events | GR-002a: a plan has no more unfinished runs than its limit: violated |
| `finding_two_owners` | 3 users, 2 sessions | owner_id and the owner membership agree: violated |
| `finding_stale_write` | mock, 1 request, 2 syncers | a run finishes once: violated |
| `finding_lost_key` | mock, 2 requests, 1 failure | a key runs once: violated |
| `finding_preempted_silent` | slurm, 1 syncer | silent endings were asked for: violated |

Why the bounds are enough to be interesting. Three requests with a limit of one are the
smallest instance in which one run holds the slot, one waits for the lock and one
replays or competes for the key, and in which a rerun has a source and a rival. Two
syncers are needed for every race between syncers, and the proofs cover any number. Two
failures allow a failure of the recovery (a rollback and then a lost notification, a restart
and then a purge). `Bump` saturates at 2 because the properties only tell none, one and more
apart. Symmetry under permutation of runs (and syncers) is used in safety runs only.
A request that has ended stays ended and a scheduler job eventually can do no more, but an
idle syncer and an idle session can always start, so the run and membership models never stop and
deadlock checking stays on in their runs.

A membership transaction touches at most three users (actor, target, registered owner), hence three
users in the serial run; two sessions give every pair of operations in
every interleaving of their reads and writes. The overlapping run has two users, which
still overlaps a transfer with every operation on its two parties; the proofs cover any number.
Roles, statuses and rows are finite, so nothing in `Membership` needs a bound.

The `services` run holds eight components that share no state. Its first state chooses one
(`focus`), and only this one moves: a behaviour is a behaviour of one component, the
state space the sum of theirs and not the product, and every component's properties are
checked in it. Each has a small instance and a budget of requests, so a
behaviour ends when it is spent and deadlock checking is off in this run, and in `finding_switched_plan`, which is one component of it.

| Component | Instance | Why it is enough |
|---|---|---|
| `ProjectTree` | a fork or a created project, 2 writers, 2 directories with one file path each, 2 contents, 1 upload of two files, 3 requests | two requests meet on rows in opposite orders (moves a to b and b to a), on one content's temporary name and on one version number; the third begins after, or retries; in a created project a write and two first saves |
| `ProjectSettings` | 2 names, 2 configurations, 2 transactions, 3 requests; an update names one thing | a name taken or freed meanwhile, a default replaced by a configuration that goes too |
| `Accounts` | 1 user name, 3 requests | two rivals and one that follows, or the seeding |
| `RunPreparation` | 2 plans, limit 1, 1 variable, 1 secret, 2 requests, 4 events | a request between the readings of another, a plan switch, a deletion and a rerun |
| `Feeds` | pages of 1, 2 publishers, 3 entries | every page boundary is between two entries; commits out of order |
| `DevServer` | 3 commands, 2 interrupts | an interrupt while starting and one while stopping; the last child of the loop hangs; the kill of one breaks the stop off before the next |
| `RunBox` | 2 runs, 2 readers, 1 line each | a pump that outlives its run's slot, two readers of one queue |
| `LoginSession` | 2 tabs, 2 people, 3 ids, 5 requests | a login of one tab inside that of the other, with a repeat |

Fairness (`FairSpec`). Weak fairness of each request's and each syncer's steps that are not
failures. The code justifies it: `_sync_loop` calls `sync_all` for ever, whatever an iteration
raises; a handler that has started runs on until it waits for a lock; the database hands a
free lock on and breaks cycles. A request that waits for the entitlement row is only assumed to
get it (`Proceeds`): a refusal does not end a wait. Nothing is assumed of jobs (they may run for ever) and
nothing of users. RequestsEnd is a statement about lock waits: it fails as soon as a
refused request keeps its lock.

In `services`: TreeFairness is weak fairness of what a request on files does by itself
(`Proceed`, the database's choice of a deadlock victim included, its failures not): the event loop and the
database run every statement to its end. DevFairness is weak fairness of the supervisor's own steps,
because it is a sequential program whose waits have timeouts; nothing is assumed of the processes it
starts, which may hang for ever, even after a kill (the second wait has a timeout too). BoxFairness is weak
fairness of the pump thread, of the engine's start returning and of the script ending: RunBox has no
timeout of its own, so a script that never ended would rightly keep the slot. Nothing
is assumed of readers, tabs and users.

### What the violations show

* `finding_stale_write`: `claim_terminal` made the last step of a run conditional because two
  syncs may overlap, but the other branch of `sync_run` still writes unconditionally
  (`run_lifecycle.py:169-170`). A syncer that polled RUNNING before the other finished the run
  overwrites the outcome; the run is then finished again: two FINISHED events, two sets
  of artifacts, two notifications. FinishSticks holds all the same: the run is
  eventually terminal for good. While it is resurrected the run takes a slot a new run may
  have been given, so GR-002a (`docs/domain/invariants.md:64`) fails from the same cause. A
  conditional UPDATE there (status still unfinished) is what the single-syncer theorems suggest.
* `finding_lost_key`: the key is flushed, not committed, before the job is submitted, so a
  rollback after the submission makes the retry run twice.
* `finding_preempted_silent`: the reason given for not notifying cancelled runs does not hold
  for runs the cluster preempted.

* `finding_switched_plan`: `create` locks the entitlement of the plan in its first reading of
  the configuration, `preflight` reads the configuration again and counts on that reading's plan
  (`run_service.py:305-316`, `218-239`). When an edit of the configuration commits in between, the
  request counts on a plan whose row it has not locked, and two such requests take the last
  slot. GR-002a (`docs/domain/invariants.md:64-78`) requires the counted and the locked row to be the same.
  What does hold, and is proved, is `ExcessIsSwitched`: the runs whose request held the entitlement
  of their plan stay within its limit, also after such a switch; only switched runs come on
  top. Passing the locked plan to `preflight`, or locking after its reading, would repair it. (The run
  modules have a configuration that does not change, so their limit properties do not meet this case.)
* `finding_two_owners`: a role change that has read `owner_id` before a transfer commits, and
  compares its target with it afterwards, writes the granted role over owner. The workspace
  is left with an `owner_id` nobody's membership agrees with, and nobody can transfer it again. The
  reads (`workspace_service.py:482`, `533`) are not locked and the updates not conditional; ADR-0008
  says the two must always correspond. Locking the workspace row in these operations makes
  them serial, which is the hypothesis of `SerialOneOwner`.

Seen while modelling, and not stated as violations because no document of the repository
promises otherwise (the properties name these cases where they would break them):

* Runs. A Slurm submit that times out after it was
  accepted leaves a live job behind a `submit_failed` run. With the mock, cancelling a job that
  has just exited turns a success into `cancelled`. A run that is cancelled but misses a required
  artifact becomes `failed` and is notified. Inputs and command of a run come from the first
  reading of the configuration, the snapshot's environment from the second. A secret deleted between the check and
  the submission is left out of the job (`gone`).
* Membership. An acceptance that overlaps the invitee's removal may leave the removed user
  active, and an overlapping role change may write status active back over a departure.
* Files. A move of `a/b` to `a` in a tree with `a/b/b/x` and `a/b/x` loses a file, because deletions and
  writes alternate (`project_service.py:266-283`; the small tree of the run does not have this
  shape). A move writes the contents it listed, so a write that commits in between is lost; a
  restore leaves files that others commit meanwhile (`since`). A file `a` and a file
  `a/x` can coexist, and preparing a run of such a tree fails (submit_failed). Two
  overlapping saves of one tree may both commit, as two equal consecutive versions. Two inserts of one path end in an
  IntegrityError. All writers of a content share one temporary name: a writer may truncate the file another is about to publish, and if
  it is stopped there the content's address holds a part of it for ever, because write_blob never
  looks at what it finds (`torn` in RowsHaveContent).
* Projects. A write of the project row (a content write's `_touch` included) puts the
  name, status and default of its first reading back over an overlapping rename or archiving. A fork has the source's
  configurations but no default.
* Accounts. A user whose workspace is created before the catalog is seeded never gets
  entitlements; two overlapping seedings clash on a primary key; `seed_demo` looks for its workspace on the first page only.
* Feeds. Paging through unread entries skips some when entries are marked meanwhile;
  mark_all_read also marks what the reader has not been shown.
* RunBox. Overlapping starts overwrite the handle, two readers share one queue and split its
  lines, a start that fails after the clear leaves a reader of the old queue polling, and a stale pump marks a newer run done.

Two promises of the smaller programs are stated by no run, but do not hold either:

* Supervisor. `src/README.md:123` says that Ctrl+C ends all components. `NoOrphans` lists what may run on
  when the supervisor is gone: a server whose wrapper was killed after five seconds, or ended without
  it; a process interrupted between Popen and `append`; and the processes from the one on at which
  the stopping was broken off (`left`), by a second interrupt or because the second wait
  (`src/scripts/tasks/project.py:351`) timed out.
* RunBox. `app.py:265` and `278` and `src/archive/runbox-v0/README.md:137` claim one active run at a time. Two
  starts that overlap at the `await` between the check and the update both run, and a late mark of the
  older pump frees the slot of the newer run. SlotIsFreed is about the freeing only.

## Proofs

TLAPS checks every leaf. The assumptions are those named in the modules (limits are
naturals, Runs is finite, the adapter is one of the two, None is no key, run, plan, project,
status, endpoint, user, role, row, content or configuration, there is a configuration identifier, the paths of
the tree are sequences listed once each, finitely many requests write a tree, a move takes each file of its source
to a path of a file, the workspace's lock is no user's, the budgets are naturals). The theorems hold for every number of
requests, keys, plans, syncers and failures, except where a hypothesis says otherwise.

* `TypeCorrect` (`RunSystemProofs`): TypeOK with `SyncShape` (a syncer past the scan has a run
  and a mapped verdict), without which the row written by SyncCommit is not known to be a status.
* `RunSystemProofs`, for any number of syncers and any failures. `IInv` adds to the type
  invariant: a committed row carries its request's project, plan and source (RowsAreRequests),
  at most one request holds an uncommitted key and it holds it over no committed row
  (KeysHaveOneOwner), rows and accepted requests have jobs (RunsHaveJobs), and
  two syncers never hold the same row (RowLocks). From it: `KeysNameTheirRuns`,
  `ReplaysAreRight`, `SlotsHaveJobs`, `CollectorsExclude`, `OutcomesEndUnfinished`. The last two
  are exactly what the conditional update gives, however many syncers overlap.
* `RunLedgerProofs`, under `SingleSyncer`. `LInv` adds FreshRows (rows a syncer works from are
  still unfinished), NotesFollowOutcomes and PlansAreLocked (one request per plan between its
  count and its commit, and its slot stays free). From it: `LimitHolds`, `RunsFinishOnce`,
  `FinishedStays` and the refinement `LedgerImplemented`. The hypothesis is needed:
  `finding_stale_write` violates FreshRows with two syncers. `KeysRunOnce` assumes no failure
  (`MaxFaults = 0`), and `finding_lost_key` shows why.

* `RunSystemProofs`, what statuses say of jobs: `StatusesBear` states of every row, every uncommitted write
  and every verdict a syncer carries that the job bears it out (`Bears`), and that a job exists only
  after its submission. Each part is stable because jobs only move on (`Onward`): this is why a
  verdict may be written late. It gives `SuccessIsTrue` and `CancellationsWereAsked` with no
  hypothesis, and `FinishedJobsHaveEnded` when no submission's answer is lost (`Answered`).
  With LInv and without failures it gives `LiveJobsHoldSlots` (`RunLedgerProofs`).
* `RunSystemProofs`, one adapter each. `CancellationsForestall`: with the mock, once a cancellation has
  reached a job, a syncer that has not polled its clean exit yet learns CANCELLED (or UNKNOWN after a
  restart) and never COMPLETED, so the run becomes succeeded only if a syncer carried that verdict, or an
  uncommitted row of it, before (`Succeeding`; `SuccessMoves` follows it through every step). With Slurm a cancellation leaves
  a finished job alone, and the property does not hold there. `LostJobsKeepTheirStatus`:
  with the mock, no step changes an unfinished row whose job is lost; `LostIsLeft` says that no syncer
  holds such a row and one that is at the run would write the status it has (`LeftAlone`): the restart that
  loses the jobs ends every syncer, and a later poll learns nothing. The theorem is stated for the mock only:
  a Slurm job is lost after it has ended, and a syncer that has polled it by then rightly writes its outcome.
* `MembershipProofs`. `MInv`, for any number of overlapping sessions, says what a transaction
  has established by its pc and that memberships
  are never deleted (Presence: a registered owner, past or present, has one, so the
  `previous_owner is not None` branch of a transfer is always taken). It gives `MembershipTyped`,
  `OnlyAcceptedMembers` and `OnlyAppointedOwners`. Under `SingleSession`, `Serial` adds that what a transaction has read is still
  committed and what it wants to change is locked; with it each commit is one step of
  `Roster` (`SerialImplementsRoster`), whose steps keep the one owner (`SerialOneOwner`).
  `finding_two_owners` shows that the hypothesis is needed.
* `ProjectProofs`. `VersionsInv`: versions are numbered 1 to their length, which is 0 in a project just created; a save that has inserted
  its number holds the next one, which nobody else has inserted. It gives
  `VersionsAreNumbered`; `NoChangesMeansSaved` shows that the list of changes is empty exactly when a save is refused (for being equal to the latest version, or empty).
  `HeldInv`: every content that a committed row, a version, a version being restored or a pending row names has a file at its
  address, and addresses never lose theirs; `WholeInv`: each file with a name holds its whole content, is being filled by
  a request, or was left by one that stopped. Together: `ContentsCanBeRead`. `RestoreInv`: past its listing, what a restore
  has yet to delete and put leads from what the tree and its own rows hold to the version, at every path
  nobody else has committed since: `RestoresGiveTheVersion`.
  `TreeTyped` adds to the types what a request knows at each point (a path and content while it writes, its version
  while it restores, something left to put): `TreeIsTyped`. `NewFileIsFresh` uses it: the number given to a new
  file is borne by no other file of its content, so `1 + |Writers|` numbers per content lose no behaviour.
  `LocksInv`: no two requests hold the projects row or the same file's row. It gives what
  a transaction may rely on: `LockedRowsAreOnesOwn` (a locked row's committed state stays),
  `ChangesTakeTurns` (past its first change, only this request commits anything of the project)
  and `SavesOnlyAdd` (no save, restore or failure changes or removes a version). `NamesApart`: the file under the shared temporary name
  is never the one at the content's address, so `open(tmp, "wb")` empties no stored content (`StoredFilesAreNotTruncated`).
  The four action properties are stated beside their proofs; no run lists them.
* `SettingsProofs`. `NamesInv`: what transactions have written and not committed are names that are not taken,
  pairwise different, and at most one of them holds the project row. It gives `ProjectNamesAreUnique`. `TypesInv` adds
  that a request under way holds a row and a generated configuration (`ProjectSettingsTyped`).
  `DefaultInv` says of every request what it would commit as the default: without an overlapping deletion
  one of the configurations, its own included; without any overlap, exactly when there is one. A request only
  waits for the row if another is under way, so a second reading that merges stale columns counts as an overlap. It
  gives `DefaultExists`.
* `AccountsProofs`. `AccountsInv`: names and personal workspaces of committed and of uncommitted
  rows do not clash, and a request past its savepoint has its user and workspace either
  committed or among its own rows; a request that has found an account has found the one of its
  name (`VisitGood`), and one that created a workspace has it among its rows (`Creates`). It gives
  `OneAccountAndWorkspace`, `RequestsGetTheirAccount` and `AccountsTyped`.
* `PreparationProofs`. `PrepInv`: a request that has counted on the plan whose entitlement it holds still
  holds it, and nobody else admits such a run meanwhile, so the count of these runs only falls until it
  commits, whatever switched runs come on top (`OnlySwitchedRunsExceed`).
  `EnvInv`: what a request has resolved is what its snapshot names but for what was
  deleted while it was between check and submission (`EnvironmentsAreComplete`). The types of requests are `PreparationTyped`.
* `ServiceProofs`. `DevInv`: every process started is known to the supervisor, is the one being started, or was
  interrupted before; a server is behind a process that runs or has ended without it; and the processes behind the point
  the stop has reached, or was broken off at, have exited (`NothingLeftRunning`). `LoginInv`: a tab at CAS
  whose session no other response has replaced finds its id in the cookie (`CallbacksAreAccepted`).
  `FeedInv`: the entries of a reader's beginning that are still unseen lie behind its offset,
  because new ones are listed before it or have slipped in behind its count (`ReadersSkipNothing`, for every
  page size). `BoxInv`: a started run has a script, a pump past its last item has seen it end, and
  the run in the slot has a pump (`TakenSlotsHaveAPump`, the safety half of SlotIsFreed). `StreamInv`: a pump that
  streams has put only lines, one about to close no end (`StreamsEndOnce`).
* `ServiceProofs`, the composition that run `services` checks. The eight components share no variable, so
  every step of it is a step of one and a stutter of the others: `ServicesAreIndependent` states that ServicesSpec implies each
  component's specification. So all theorems above about these components hold of the composition, and
  `ServicesAreTyped` is their types together.

Every strengthening was model-checked before it was proved.

Only model-checked: FinishSticks, RequestsEnd, TreeRequestsEnd, DevStops and SlotIsFreed, since
liveness under fairness and ENABLED are out of the prover's reach.
Every other property of a passing run is stated by a theorem. Of what the findings refute, FinishedOnce and
OneJobPerKey hold under the hypotheses above; SilentEndWasAsked, OwnersAgree and PlanLimitHolds are refuted only.

## Not modelled

* What formats and validates: presenters, schemas, error bodies, job scripts, the payloads of
  Slurm, paths and names (`domain/naming.py`), resource requests against a plan's bounds. They keep no
  state; where their outcome matters it is a nondeterministic refusal.
* Encryption of secrets: a secret is there or not.
* Preparing and collecting a run's directory: a success or a failure.
* Migrations, the database's engine configuration, health and catalog queries, the sequential
  commands of the task runner.
* The front end's loading (`useAsync` applies whichever response arrives last) and
  rendering; its requests are the environment of the modules.
* Updating a workspace's name and description, and the activities that record operations.
* Slurm, the kernel, PostgreSQL, the CAS server and RunBox's engine are external: they are modelled by what the code relies on.

## Plan

Done, in this order: run execution and its ledger; membership and its roster; the working
tree and its versions; project rows and configurations; accounts; run preparation; feeds; the
supervisor, RunBox and the login session; proofs of each, and of their composition.

Open: an abstract specification of the working tree (each request one step) with the
hypothesis under which ProjectTree implements it; resource requests as operators beside a reference
definition; `useAsync` with its stale responses.
