------------------------------- MODULE RunBox -------------------------------
(***************************************************************************)
(* The run console of the RunBox prototype: /api/run, /api/run/stream and  *)
(* /api/run/stop of runbox/app.py around the module-global _ACTIVE_RUN.    *)
(*                                                                         *)
(* Handlers share one event loop and interleave at their awaits.  A thread *)
(* pumps the output of each run into the queue of that run and hands every *)
(* item to the loop by call_soon_threadsafe; two of its items may have     *)
(* handlers' steps between them.  The engine (hpc_helper) is external.     *)
(***************************************************************************)
EXTENDS Naturals, Sequences, Absent

CONSTANTS
  Launches,   \* requests to start a run; the run, its handle and queue too
  Readers,    \* clients reading a stream, or stopping a run
  MaxLines    \* bound: lines of output of a run

ASSUME RunBoxAssumption == MaxLines \in Nat

VARIABLES
  active,     \* _ACTIVE_RUN; handle None and done FALSE after clear()
  launch,     \* launch[r]: the request that starts run r
  script,     \* script[r]: the remote process of run r
  printed,    \* printed[r]: the lines r has printed
  pump,       \* pump[r]: the thread of run r
  queue,      \* queue[r]: what its stream has to deliver
  client      \* client[c]: a reader, or a request to stop

boxVars == <<active, launch, script, printed, pump, queue, client>>

ActiveRecord == [handle : Launches \cup {None}, done : BOOLEAN]
ClientRecord == [pc : {"idle", "reading", "stopping", "over"}, run : Launches \cup {None}]

Cleared == [handle |-> None, done |-> FALSE]

BoxInit ==
  /\ active = Cleared
  /\ launch = [r \in Launches |-> "new"]
  /\ script = [r \in Launches |-> "none"]
  /\ printed = [r \in Launches |-> 0]
  /\ pump = [r \in Launches |-> "off"]
  /\ queue = [r \in Launches |-> <<>>]
  /\ client = [c \in Readers |-> [pc |-> "idle", run |-> None]]

Becomes(c, pc, r) == client' = [client EXCEPT ![c] = [pc |-> pc, run |-> r]]
Puts(r, item)     == queue' = [queue EXCEPT ![r] = Append(@, item)]
MarkedDone        == [active EXCEPT !.done = TRUE]

(* A run holds the one slot there is.                                      *)
SlotTaken == active.handle # None /\ ~active.done

-----------------------------------------------------------------------------
(* run_start up to its await: refused while the slot is taken; otherwise   *)
(* the record of the finished run is dropped.                              *)
StartRun(r) ==
  /\ launch[r] = "new"
  /\ IF SlotTaken
     THEN launch' = [launch EXCEPT ![r] = "refused"] /\ UNCHANGED active
     ELSE launch' = [launch EXCEPT ![r] = "starting"] /\ active' = Cleared
  /\ UNCHANGED <<script, printed, pump, queue, client>>

(* The rest of it: the engine has started the process, or fails.           *)
Launched(r) ==
  /\ launch[r] = "starting"
  /\ \/ /\ launch' = [launch EXCEPT ![r] = "started"]
        /\ script' = [script EXCEPT ![r] = "running"]
        /\ pump' = [pump EXCEPT ![r] = "stream"]
        /\ active' = [handle |-> r, done |-> FALSE]
     \/ /\ launch' = [launch EXCEPT ![r] = "refused"]
        /\ UNCHANGED <<script, pump, active>>
  /\ UNCHANGED <<printed, queue, client>>

(* A line of output, in the pump's hands and in the queue.                 *)
PumpLine(r) ==
  /\ script[r] = "running" /\ pump[r] = "stream"
  /\ printed[r] < MaxLines
  /\ printed' = [printed EXCEPT ![r] = @ + 1]
  /\ Puts(r, "line")
  /\ UNCHANGED <<active, launch, script, pump, client>>

ScriptEnds(r) ==
  /\ script[r] = "running"
  /\ script' = [script EXCEPT ![r] = "ended"]
  /\ UNCHANGED <<active, launch, printed, pump, queue, client>>

PumpExit(r) ==
  /\ pump[r] = "stream" /\ script[r] = "ended"
  /\ Puts(r, "exit")
  /\ pump' = [pump EXCEPT ![r] = "close"]
  /\ UNCHANGED <<active, launch, script, printed, client>>

PumpClose(r) ==
  /\ pump[r] = "close"
  /\ Puts(r, "close")
  /\ pump' = [pump EXCEPT ![r] = "done"]
  /\ UNCHANGED <<active, launch, script, printed, client>>

(* Faulty: only a client that reads the stream marks the run as done.      *)
LeftToReaders == active

(* Whichever run is active by then is marked done.                         *)
PumpMarks == MarkedDone

PumpDone(r) ==
  /\ pump[r] = "done"
  /\ active' = PumpMarks
  /\ pump' = [pump EXCEPT ![r] = "off"]
  /\ UNCHANGED <<launch, script, printed, queue, client>>

-----------------------------------------------------------------------------
(* run_stream takes the queue of the active run.                           *)
OpenStream(c) ==
  /\ client[c].pc = "idle"
  /\ active.handle # None
  /\ Becomes(c, "reading", active.handle)
  /\ UNCHANGED <<active, launch, script, printed, pump, queue>>

(* Readers of one run share its queue: each item reaches one of them.      *)
ReadItem(c) ==
  LET r == client[c].run IN
  /\ client[c].pc = "reading" /\ queue[r] # <<>>
  /\ queue' = [queue EXCEPT ![r] = Tail(@)]
  /\ IF Head(queue[r]) = "close" THEN Becomes(c, "over", r) ELSE UNCHANGED client
  /\ active' = IF Head(queue[r]) = "line" THEN active ELSE MarkedDone
  /\ UNCHANGED <<launch, script, printed, pump>>

(* A tenth of a second without an item ends the stream of a run that is    *)
(* done: of any run, if another is the active one by then.                 *)
ReadTimeout(c) ==
  /\ client[c].pc = "reading" /\ queue[client[c].run] = <<>>
  /\ active.done
  /\ Becomes(c, "over", client[c].run)
  /\ UNCHANGED <<active, launch, script, printed, pump, queue>>

(* The client goes away; its generator is cancelled.                       *)
Disconnect(c) ==
  /\ client[c].pc = "reading"
  /\ Becomes(c, "over", client[c].run)
  /\ UNCHANGED <<active, launch, script, printed, pump, queue>>

(* run_stop: the handle that was active is stopped in a thread ...         *)
StopRun(c) ==
  /\ client[c].pc = "idle"
  /\ active.handle # None
  /\ Becomes(c, "stopping", active.handle)
  /\ UNCHANGED <<active, launch, script, printed, pump, queue>>

(* ... and what is active when that returns is marked done.  stop() may    *)
(* fail.                                                                   *)
Stopped(c) ==
  LET r == client[c].run IN
  /\ client[c].pc = "stopping"
  /\ \/ /\ script' = [script EXCEPT ![r] = "ended"]
        /\ active' = MarkedDone
     \/ UNCHANGED <<script, active>>
  /\ Becomes(c, "over", r)
  /\ UNCHANGED <<launch, printed, pump, queue>>

Pump(r) == PumpExit(r) \/ PumpClose(r) \/ PumpDone(r)
Read(c) == ReadItem(c) \/ ReadTimeout(c)

BoxNext ==
  \/ \E r \in Launches : StartRun(r) \/ Launched(r) \/ PumpLine(r) \/ ScriptEnds(r) \/ Pump(r)
  \/ \E c \in Readers : OpenStream(c) \/ Read(c) \/ Disconnect(c) \/ StopRun(c) \/ Stopped(c)

BoxSpec == BoxInit /\ [][BoxNext]_boxVars

(* Threads and the loop keep going, and a script ends.                     *)
BoxFairness ==
  \A r \in Launches :
    /\ WF_boxVars(Launched(r))
    /\ WF_boxVars(ScriptEnds(r))
    /\ WF_boxVars(Pump(r))

BoxTypeOK ==
  /\ active \in ActiveRecord
  /\ launch \in [Launches -> {"new", "refused", "starting", "started"}]
  /\ script \in [Launches -> {"none", "running", "ended"}]
  /\ printed \in [Launches -> 0..MaxLines]
  /\ pump \in [Launches -> {"off", "stream", "close", "done"}]
  /\ queue \in [Launches -> Seq({"line", "exit", "close"})]
  /\ client \in [Readers -> ClientRecord]

-----------------------------------------------------------------------------
(* "So a new run can start after the process exits" (runbox/app.py:303):   *)
(* the slot never stays taken, whoever reads the stream, or nobody does,   *)
(* however starts and stops overlap, and whichever of them fail.           *)
SlotIsFreed == SlotTaken ~> ~SlotTaken

=============================================================================
