----------------------------- MODULE DevServer -----------------------------
(***************************************************************************)
(* The supervisor of the development servers: run_dev, demo,               *)
(* _wait_until_ready and _stop_processes of scripts/tasks/project.py.      *)
(*                                                                         *)
(* It starts its commands one by one, watches until one of them exits (or  *)
(* drives the demo), and stops them all: terminate everything, then wait   *)
(* for each, and kill the one that does not end in time.  The user may     *)
(* interrupt it at any point.                                              *)
(*                                                                         *)
(* The processes of run_dev are wrappers: the reloader of uvicorn, uv run  *)
(* and pnpm run each start the server as a process of its own, which the   *)
(* supervisor does not know.  The demo starts uvicorn itself.              *)
(***************************************************************************)
EXTENDS Naturals, Absent

CONSTANTS
  Commands,       \* number of processes to start
  MaxInterrupts   \* bound: interrupts

ASSUME DevAssumption == Commands \in Nat \ {0} /\ MaxInterrupts \in Nat

Children == 1..Commands

VARIABLES
  task,        \* "dev" or "demo", once the user has chosen
  boss,        \* where the supervisor is
  at,          \* the child it is at
  child,       \* child[i]: the state of process i
  known,       \* the processes in the supervisor's list
  serving,     \* the processes with a server running behind them
  interrupts,  \* how often it was interrupted
  left         \* history: the first process it did not see to the end of

devVars == <<task, boss, at, child, known, serving, interrupts, left>>

BossStates  == {"off", "spawn", "append", "watch", "ready", "drive", "terminate", "wait", "over"}
ChildStates == {"none", "running", "terminated", "exited",
                "deserted",         \* ended before the server behind it
                "killed", "dead"}   \* SIGKILL sent, ended of it

DevInit ==
  /\ task = None /\ boss = "off" /\ at = 1
  /\ child = [i \in Children |-> "none"]
  /\ known = {} /\ serving = {} /\ interrupts = 0 /\ left = Commands + 1

(* poll() is not None.                                                     *)
Exited(i) == child[i] \in {"exited", "deserted", "dead"}

Boss(pc, i) == boss' = pc /\ at' = i

LeavesChildren == UNCHANGED <<task, child, known, serving, interrupts, left>>

-----------------------------------------------------------------------------
Invoke(chosen) ==
  /\ boss = "off"
  /\ task' = chosen
  /\ Boss("spawn", 1)
  /\ UNCHANGED <<child, known, serving, interrupts, left>>

(* Popen may fail; then what was started is stopped.                       *)
Spawn ==
  /\ boss = "spawn"
  /\ \/ Boss("append", at) /\ child' = [child EXCEPT ![at] = "running"]
     \/ Boss("terminate", 1) /\ UNCHANGED child
  /\ UNCHANGED <<task, known, serving, interrupts, left>>

AppendChild ==
  /\ boss = "append"
  /\ known' = known \cup {at}
  /\ IF task = "demo" THEN Boss("ready", at)
     ELSE IF at < Commands THEN Boss("spawn", at + 1) ELSE Boss("watch", 1)
  /\ UNCHANGED <<task, child, serving, interrupts, left>>

(* run_dev polls its processes in turn; any exit ends the watch.           *)
Watch ==
  /\ boss = "watch"
  /\ IF Exited(at) THEN Boss("terminate", 1) ELSE Boss("watch", (at % Commands) + 1)
  /\ LeavesChildren

(* _wait_until_ready: the backend exits, answers, or the deadline passes.  *)
WaitReady ==
  /\ boss = "ready"
  /\ \/ Exited(1) /\ Boss("terminate", 1)
     \/ ~Exited(1) /\ Boss("drive", 1)
     \/ Boss("terminate", 1)
  /\ LeavesChildren

(* _exercise_core_run succeeds or fails; its polling has a deadline.       *)
Drive ==
  /\ boss = "drive"
  /\ Boss("terminate", 1)
  /\ LeavesChildren

(* Each loop goes through the processes in order.                          *)
NextPhase(pc) ==
  IF at < Commands THEN Boss(pc, at + 1)
  ELSE Boss(IF pc = "terminate" THEN "wait" ELSE "over", 1)

Terminate ==
  /\ boss = "terminate"
  /\ IF at \in known
     THEN child' = [child EXCEPT ![at] = IF @ = "running" THEN "terminated" ELSE @]
     ELSE UNCHANGED child
  /\ NextPhase("terminate")
  /\ UNCHANGED <<task, known, serving, interrupts, left>>

(* Faulty: whoever does not end in time is left alone.                     *)
LeftAlone == child

(* Faulty: the wait has no timeout.                                        *)
NeverTimesOut == FALSE

(* process.kill of the process waited for.                                 *)
Killed == [child EXCEPT ![at] = "killed"]

(* wait(timeout=5) gives up on a process that has not ended.               *)
TimesOut == child[at] = "terminated"

(* A second wait follows the kill; its timeout leaves the loop, and with   *)
(* it the processes that were still to be waited for.                      *)
WaitChild ==
  /\ boss = "wait"
  /\ \/ /\ at \notin known \/ Exited(at)
        /\ NextPhase("wait") /\ UNCHANGED <<child, left>>
     \/ /\ at \in known /\ TimesOut
        /\ child' = Killed
        /\ IF child'[at] = "killed" THEN Boss("wait", at) ELSE NextPhase("wait")
        /\ UNCHANGED left
     \/ /\ at \in known /\ child[at] = "killed"
        /\ Boss("over", 1) /\ left' = at /\ UNCHANGED child
  /\ UNCHANGED <<task, known, serving, interrupts>>

(* KeyboardInterrupt: the finally clause stops the processes in the list;  *)
(* a second one leaves it, with those not yet waited for.                  *)
Interrupt ==
  /\ boss \notin {"off", "over"}
  /\ interrupts < MaxInterrupts
  /\ interrupts' = interrupts + 1
  /\ \/ boss \notin {"terminate", "wait"} /\ Boss("terminate", 1) /\ UNCHANGED left
     \/ boss = "terminate" /\ Boss("over", 1) /\ left' = 1
     \/ boss = "wait" /\ Boss("over", 1) /\ left' = at
  /\ UNCHANGED <<task, child, known, serving>>

-----------------------------------------------------------------------------
UnchangedBoss == UNCHANGED <<task, boss, at, known, interrupts, left>>

(* A wrapper has started its server (again, when the sources changed).     *)
ChildServes(i) ==
  /\ task = "dev" /\ child[i] = "running" /\ i \notin serving
  /\ serving' = serving \cup {i}
  /\ UnchangedBoss /\ UNCHANGED child

ServerEnds(i) ==
  /\ i \in serving
  /\ serving' = serving \ {i}
  /\ UnchangedBoss /\ UNCHANGED child

(* A process ends by itself, on the signal, or not at all.  A wrapper ends *)
(* after the server behind it, as those used here mean to, or before.      *)
ChildExits(i) ==
  /\ child[i] \in {"running", "terminated"}
  /\ child' = [child EXCEPT ![i] = IF i \in serving THEN "deserted" ELSE "exited"]
  /\ UnchangedBoss /\ UNCHANGED serving

(* A killed process ends; the signal does not reach the server behind it.  *)
ChildDies(i) ==
  /\ child[i] = "killed"
  /\ child' = [child EXCEPT ![i] = "dead"]
  /\ UnchangedBoss /\ UNCHANGED serving

Supervise == Spawn \/ AppendChild \/ Watch \/ WaitReady \/ Drive \/ Terminate \/ WaitChild

DevNext ==
  \/ \E chosen \in {"dev", "demo"} : Invoke(chosen)
  \/ Supervise \/ Interrupt
  \/ \E i \in Children : ChildServes(i) \/ ServerEnds(i) \/ ChildExits(i) \/ ChildDies(i)

DevSpec == DevInit /\ [][DevNext]_devVars

DevFairness == WF_devVars(Supervise)

DevTypeOK ==
  /\ task \in {"dev", "demo", None} /\ boss \in BossStates /\ at \in Children
  /\ child \in [Children -> ChildStates]
  /\ known \subseteq Children /\ serving \subseteq Children
  /\ interrupts \in 0..MaxInterrupts
  /\ left \in 1..(Commands + 1)

-----------------------------------------------------------------------------
(* Something the supervisor has started runs: the process, or the server   *)
(* behind it.                                                              *)
RunsOn(i) == child[i] \in {"running", "terminated", "killed"} \/ i \in serving

(* When the supervisor is gone, what it started is left running in four    *)
(* cases only: a server whose wrapper was killed, or ended without it; a   *)
(* process started in the moment of an interrupt and never listed; and the *)
(* processes from the one on at which the stopping itself was broken off,  *)
(* by another interrupt or because that one outlived even its kill.        *)
NoOrphans ==
  boss = "over" => \A i \in Children : RunsOn(i) =>
    \/ child[i] \in {"dead", "deserted"}
    \/ i \notin known /\ interrupts > 0
    \/ i >= left

(* Once a process of run_dev has exited, or the user has interrupted, the  *)
(* supervisor ends.                                                        *)
DevStops ==
  (interrupts > 0 \/ (task = "dev" /\ \E i \in Children : Exited(i))) ~> boss = "over"

=============================================================================
