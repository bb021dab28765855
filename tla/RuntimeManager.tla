--------------------------- MODULE RuntimeManager ---------------------------
(***************************************************************************)
(* The runtime manager of pkg/server: one loop that compares the rows of   *)
(* the agents table with the workers it has registered, cancels workers    *)
(* whose row is gone or has changed without waiting for them, and starts   *)
(* new ones.  Workers are goroutines that end in their own time; all those *)
(* of one agent share the spill directory under the agent's root, which    *)
(* each of them removes when it is closed and each start sweeps.           *)
(***************************************************************************)
EXTENDS Integers, FiniteSets

CONSTANTS
  Agent,       \* agents (namespace and id)
  Worker,      \* worker goroutines and their handles; ended ones are reused
  MaxVersion,  \* bound: versions of the rows
  MaxRuns,     \* bound: runs of all workers
  MaxFaults    \* bound: workers that fail, managers that stop, crashes

ASSUME RuntimeAssumption ==
  /\ {MaxVersion, MaxRuns, MaxFaults} \subseteq Nat
  /\ "none" \notin Agent /\ "none" \notin Worker

VARIABLES
  rows,     \* rows of the agents table
  version,  \* the last version given to a row (bounded by MaxVersion)
  manager,  \* the loop: its phase, the rows it has listed, the agent it starts
  handles,  \* m.workers: the registered worker of each agent
  workers,  \* the goroutines
  spill,    \* runs with files under each agent's spill directory
  runs,     \* runs so far (bounded by MaxRuns)
  faults    \* faults so far (bounded by MaxFaults)

vars == <<rows, version, manager, handles, workers, spill, runs, faults>>

-----------------------------------------------------------------------------
(* Rows, handles and workers.                                              *)

None == "none"

\* A row as the manager sees it: its fingerprint, whether ListRunnableAgents
\* returns it, and whether startWorker succeeds with its configuration.
Row == [version : 0..MaxVersion, runnable : BOOLEAN, good : BOOLEAN]

NoWorker == [phase |-> "ended", agent |-> None, version |-> 0,
             canceled |-> FALSE, run |-> 0, written |-> {}]

Alive(w) == workers[w].phase # "ended"
Live(a) == {w \in Worker : Alive(w) /\ workers[w].agent = a}

Registered == {handles[a] : a \in Agent} \ {None}

\* A worker may be launched under a handle nobody knows any more.
Free(w) == ~Alive(w) /\ w \notin Registered

NoRow == [version |-> 0, runnable |-> FALSE, good |-> TRUE]

Stopped ==
  [phase |-> "stopped", desired |-> [a \in Agent |-> NoRow], starting |-> None]

Goto(phase) == [manager EXCEPT !.phase = phase]

CountFault == faults < MaxFaults /\ faults' = faults + 1

Cancel(W) ==
  [w \in Worker |-> IF w \in W THEN [workers[w] EXCEPT !.canceled = TRUE]
                               ELSE workers[w]]

-----------------------------------------------------------------------------
(* The agents table, written by other processes and by the configuration.  *)

\* PutAgent, CreateAgent or DeleteAgent.
ChangeRow(a, runnable, good) ==
  /\ version < MaxVersion
  /\ version' = version + 1
  /\ rows' = [rows EXCEPT ![a] =
       [version |-> version + 1, runnable |-> runnable, good |-> good]]
  /\ UNCHANGED <<manager, handles, workers, spill, runs, faults>>

-----------------------------------------------------------------------------
(* SyncOnce.                                                               *)

\* A tick: reapWorkers forgets the workers that have ended.
Reap ==
  /\ manager.phase = "waiting"
  /\ handles' = [a \in Agent |->
       IF handles[a] # None /\ ~Alive(handles[a]) THEN None ELSE handles[a]]
  /\ manager' = Goto("reaped")
  /\ UNCHANGED <<rows, version, workers, spill, runs, faults>>

\* ListRunnableAgents: the rows are copied, the runnable ones are listed.
List ==
  /\ manager.phase = "reaped"
  /\ manager' = [Goto("listed") EXCEPT !.desired = rows]
  /\ UNCHANGED <<rows, version, handles, workers, spill, runs, faults>>

Listed(a) == manager.desired[a].runnable

\* Registered agents whose row is not listed or has another fingerprint.
Stale ==
  {a \in Agent :
     /\ handles[a] # None
     /\ ~Listed(a) \/ workers[handles[a]].version # manager.desired[a].version}

\* A slip: stale workers are forgotten and go on.
ForgetStale ==
  /\ manager.phase = "listed"
  /\ handles' = [a \in Agent |-> IF a \in Stale THEN None ELSE handles[a]]
  /\ manager' = Goto("starting")
  /\ UNCHANGED <<rows, version, workers, spill, runs, faults>>

\* A slip: workers of the current row are canceled with the stale ones.
CancelEach ==
  /\ manager.phase = "listed"
  /\ workers' = Cancel(Registered)
  /\ handles' = [a \in Agent |-> None]
  /\ manager' = Goto("starting")
  /\ UNCHANGED <<rows, version, spill, runs, faults>>

\* The loop over the registered workers: stale ones are canceled and
\* forgotten; nothing waits for them.
CancelStale ==
  /\ manager.phase = "listed"
  /\ workers' = Cancel({handles[a] : a \in Stale})
  /\ handles' = [a \in Agent |-> IF a \in Stale THEN None ELSE handles[a]]
  /\ manager' = Goto("starting")
  /\ UNCHANGED <<rows, version, spill, runs, faults>>

\* hasWorker is false for these.
ToStart ==
  {a \in Agent : Listed(a) /\ (handles[a] = None \/ a \in Stale)}

\* A slip: what an earlier process left is not swept.
StartWithoutSweep(a) ==
  /\ manager.phase = "starting"
  /\ a \in ToStart
  /\ manager' = [Goto("launching") EXCEPT !.starting = a]
  /\ UNCHANGED <<rows, version, handles, workers, spill, runs, faults>>

\* startWorker as far as SweepStaleOutputSpillDirs.
StartWorker(a) ==
  /\ manager.phase = "starting"
  /\ a \in ToStart
  /\ spill' = [spill EXCEPT ![a] = {}]
  /\ manager' = [Goto("launching") EXCEPT !.starting = a]
  /\ UNCHANGED <<rows, version, handles, workers, runs, faults>>

Serving(a, v) ==
  [NoWorker EXCEPT !.phase = "serving", !.agent = a, !.version = v]

\* startWorker from there on: the handle is registered and the goroutine
\* started.
Launch(w) ==
  LET a == manager.starting IN
  /\ manager.phase = "launching"
  /\ manager.desired[a].good
  /\ Free(w)
  /\ workers' = [workers EXCEPT ![w] = Serving(a, manager.desired[a].version)]
  /\ handles' = [handles EXCEPT ![a] = w]
  /\ manager' = [Goto("starting") EXCEPT !.starting = None]
  /\ UNCHANGED <<rows, version, spill, runs, faults>>

\* startWorker fails, before or after the sweep, and SyncOnce and Run with it.
StartFails ==
  /\ \/ /\ manager.phase = "starting"
        /\ \E a \in ToStart : ~manager.desired[a].good
     \/ /\ manager.phase = "launching"
        /\ ~manager.desired[manager.starting].good
  /\ manager' = [Goto("stopping") EXCEPT !.starting = None]
  /\ UNCHANGED <<rows, version, handles, workers, spill, runs, faults>>

\* SyncOnce is done; Run waits for the next tick.
SyncDone ==
  /\ manager.phase = "starting"
  /\ ToStart = {}
  /\ manager' = Goto("waiting")
  /\ UNCHANGED <<rows, version, handles, workers, spill, runs, faults>>

-----------------------------------------------------------------------------
(* The end of Run.                                                         *)

\* The context ends, or ListRunnableAgents fails.
StopManager ==
  /\ manager.phase \in {"waiting", "reaped"}
  /\ CountFault
  /\ manager' = Goto("stopping")
  /\ UNCHANGED <<rows, version, handles, workers, spill, runs>>

\* A slip: stopAll waits for workers it has not canceled.
StopNone ==
  /\ manager.phase = "stopping"
  /\ manager' = Goto("awaiting")
  /\ UNCHANGED <<rows, version, handles, workers, spill, runs, faults>>

\* stopAll cancels the registered workers ...
StopAll ==
  /\ manager.phase = "stopping"
  /\ workers' = Cancel(Registered)
  /\ manager' = Goto("awaiting")
  /\ UNCHANGED <<rows, version, handles, spill, runs, faults>>

\* ... and waits for each of them.
AllDone ==
  /\ manager.phase = "awaiting"
  /\ \A w \in Registered : ~Alive(w)
  /\ handles' = [a \in Agent |-> None]
  /\ manager' = Stopped
  /\ UNCHANGED <<rows, version, workers, spill, runs, faults>>

\* The process dies; the directories stay.
Crash ==
  /\ manager.phase # "stopped"
  /\ CountFault
  /\ workers' = [w \in Worker |-> NoWorker]
  /\ handles' = [a \in Agent |-> None]
  /\ manager' = Stopped
  /\ UNCHANGED <<rows, version, spill, runs>>

\* The server is started again, in a new process: workers that Run has not
\* waited for ended with the old one, as they were.
StartManager ==
  /\ manager.phase = "stopped"
  /\ workers' = [w \in Worker |-> NoWorker]
  /\ manager' = Goto("waiting")
  /\ UNCHANGED <<rows, version, handles, spill, runs, faults>>

-----------------------------------------------------------------------------
(* The goroutines.                                                         *)

SetWorker(w, x) == workers' = [workers EXCEPT ![w] = x]

Moved(x, phase, run) == [x EXCEPT !.phase = phase, !.run = run]
Wrote(x) == [x EXCEPT !.written = @ \cup {x.run}]
Closed(x) == [x EXCEPT !.phase = "ended", !.written = {}]

\* runTurn: beginRunSpillDir for a trigger that Next has returned.
BeginRun(w) ==
  /\ workers[w].phase = "serving"
  /\ ~workers[w].canceled
  /\ runs < MaxRuns
  /\ runs' = runs + 1
  /\ SetWorker(w, Moved(workers[w], "running", runs + 1))
  /\ UNCHANGED <<rows, version, manager, handles, spill, faults>>

\* A tool step of the run writes its output to a file of the run's directory,
\* which is created again when it has gone.
WriteSpill(w) ==
  LET x == workers[w] IN
  /\ x.phase = "running"
  /\ x.run \notin x.written
  /\ SetWorker(w, Wrote(x))
  /\ spill' = [spill EXCEPT ![x.agent] = @ \cup {x.run}]
  /\ UNCHANGED <<rows, version, manager, handles, runs, faults>>

\* The turn ends with a result; its files are retained.
EndRun(w) ==
  /\ workers[w].phase = "running"
  /\ SetWorker(w, Moved(workers[w], "serving", 0))
  /\ UNCHANGED <<rows, version, manager, handles, spill, runs, faults>>

\* Serve returns because the worker is canceled.
ReturnCanceled(w) ==
  /\ workers[w].phase \in {"serving", "running"}
  /\ workers[w].canceled
  /\ SetWorker(w, Moved(workers[w], "closing", 0))
  /\ UNCHANGED <<rows, version, manager, handles, spill, runs, faults>>

\* Serve returns with an error.
ReturnFailed(w) ==
  /\ workers[w].phase \in {"serving", "running"}
  /\ CountFault
  /\ SetWorker(w, Moved(workers[w], "closing", 0))
  /\ UNCHANGED <<rows, version, manager, handles, spill, runs>>

\* Agent.Close removes the spill directory of the agent, then done is sent.
Close(w) ==
  /\ workers[w].phase = "closing"
  /\ spill' = [spill EXCEPT ![workers[w].agent] = {}]
  /\ SetWorker(w, Closed(workers[w]))
  /\ UNCHANGED <<rows, version, manager, handles, runs, faults>>

-----------------------------------------------------------------------------

Init ==
  /\ rows = [a \in Agent |-> NoRow]
  /\ version = 0
  /\ manager = Stopped
  /\ handles = [a \in Agent |-> None]
  /\ workers = [w \in Worker |-> NoWorker]
  /\ spill = [a \in Agent |-> {}]
  /\ runs = 0
  /\ faults = 0

SyncStep ==
  \/ Reap \/ List \/ CancelStale \/ SyncDone \/ StartFails
  \/ \E a \in Agent : StartWorker(a)
  \/ \E w \in Worker : Launch(w)

WorkerStep(w) ==
  BeginRun(w) \/ WriteSpill(w) \/ EndRun(w) \/ ReturnCanceled(w) \/ Close(w)

Next ==
  \/ \E a \in Agent, runnable, good \in BOOLEAN : ChangeRow(a, runnable, good)
  \/ SyncStep \/ StopManager \/ StopAll \/ AllDone \/ Crash \/ StartManager
  \/ \E w \in Worker : WorkerStep(w) \/ ReturnFailed(w)

Spec == Init /\ [][Next]_vars

\* The ticker keeps the loop going, a turn ends and a canceled worker comes to
\* its end, as steps and calls of the driver have timeouts.
Fairness ==
  /\ WF_vars(SyncStep) /\ WF_vars(StopAll) /\ WF_vars(AllDone)
  /\ \A w \in Worker :
       WF_vars(EndRun(w)) /\ WF_vars(ReturnCanceled(w)) /\ WF_vars(Close(w))

FairSpec == Spec /\ Fairness

-----------------------------------------------------------------------------
(* Properties.                                                             *)

ManagerPhase == {"waiting", "reaped", "listed", "starting", "launching",
                 "stopping", "awaiting", "stopped"}

\* Types of the variables; a start is under way exactly while it is launched.
TypeOK ==
  /\ rows \in [Agent -> Row]
  /\ version \in 0..MaxVersion
  /\ manager \in [phase : ManagerPhase, desired : [Agent -> Row],
                  starting : Agent \cup {None}]
  /\ manager.starting # None <=> manager.phase = "launching"
  /\ handles \in [Agent -> Worker \cup {None}]
  /\ workers \in [Worker ->
       [phase : {"serving", "running", "closing", "ended"},
        agent : Agent \cup {None}, version : 0..MaxVersion,
        canceled : BOOLEAN, run : 0..MaxRuns, written : SUBSET (1..MaxRuns)]]
  /\ \A w \in Worker : workers[w].run # 0 <=> workers[w].phase = "running"
  /\ spill \in [Agent -> SUBSET (1..MaxRuns)]
  /\ runs \in 0..MaxRuns
  /\ faults \in 0..MaxFaults

\* No worker is lost track of: one that has not been canceled is registered
\* under its agent, so that of one agent at most one worker takes triggers.
NoneForgotten ==
  \A w \in Worker :
    Alive(w) /\ ~workers[w].canceled => handles[workers[w].agent] = w

\* A worker is started only beside canceled ones of earlier versions of its
\* row: no version is ever served twice at a time, and no older one after it.
ReplacesOlder ==
  [][\A w \in Worker :
       ~Alive(w) /\ workers'[w].phase = "serving" =>
         \A u \in Live(workers'[w].agent) :
           workers[u].canceled /\ workers[u].version < workers'[w].version]_vars

\* Of one agent at most one worker takes triggers, and workers that replace
\* each other go forward through the versions of its row.
OneServes == []NoneForgotten /\ ReplacesOlder

\* output_spill.go on SweepStaleOutputSpillDirs: "removes any leftover runtime
\* spill directories".  A worker that is alone on its agent's root, and a root
\* nobody has worked on since a start, see no directory of another worker or
\* of an earlier process.
OnlyOwnFiles ==
  \A a \in Agent, w \in Worker :
    Live(a) = {w} => spill[a] \subseteq workers[w].written

\* Run is on its way out, or has returned.
Ending == manager.phase \in {"stopping", "awaiting", "stopped"}

\* A runnable row gets a worker with exactly this version, unless the row
\* changes again or the manager stops; failures of workers do not end that.
CurrentServed ==
  \A a \in Agent, v \in 1..MaxVersion :
    rows[a].version = v /\ rows[a].runnable
      ~> \/ rows[a].version # v \/ Ending
         \/ \E w \in Live(a) : workers[w].version = v /\ ~workers[w].canceled

\* The workers of an agent that is deleted or paused all end, unless the row
\* changes again or the manager stops.
GoneStops ==
  \A a \in Agent, v \in 1..MaxVersion :
    rows[a].version = v /\ ~rows[a].runnable
      ~> rows[a].version # v \/ Ending \/ Live(a) = {}

\* Run returns once it has begun to stop: no worker it waits for goes on.
StopEnds == manager.phase = "stopping" ~> manager.phase = "stopped"

\* The manager keeps up with the rows, and stops when it is asked to.
KeepsUp == CurrentServed /\ GoneStops /\ StopEnds

-----------------------------------------------------------------------------
(* The inductive invariant of RuntimeManager: what the registered handles  *)
(* know about the workers, and whose files lie under an agent's root.      *)

\* Workers work for an agent, registered ones for the one they are
\* registered under.
HandlesMatch ==
  /\ \A w \in Worker : Alive(w) => workers[w].agent \in Agent
  /\ \A a \in Agent : handles[a] # None => workers[handles[a]].agent = a

\* Once SyncOnce starts workers, those that are registered are up to date, and
\* the agent it is about to start has none.
NothingStale ==
  /\ manager.phase \in {"starting", "launching"} => Stale = {}
  /\ manager.phase = "launching" =>
       Listed(manager.starting) /\ handles[manager.starting] = None

\* A stopped manager has no handles.
NoHandlesLeft ==
  manager.phase = "stopped" => \A a \in Agent : handles[a] = None

WrittenFor(a) == UNION {workers[w].written : w \in Live(a)}

\* Under the root of an agent with a worker, or about to get one, lie only
\* files of workers that are alive.
FilesOfTheLiving ==
  \A a \in Agent :
    Live(a) # {} \/ manager.starting = a => spill[a] \subseteq WrittenFor(a)

\* What the loop has listed is what the table was at some time; rows that were
\* never written have version 0.
ListsAreOld ==
  \A a \in Agent :
    /\ rows[a].version = 0 => rows[a] = NoRow
    /\ manager.desired[a].version <= rows[a].version
    /\ rows[a].version <= version
    /\ manager.desired[a].version = rows[a].version => manager.desired[a] = rows[a]

\* Until the manager stops, workers are no newer than what it has listed, and
\* those that it has canceled were canceled for a row that is gone or newer.
CanceledAreOld ==
  \A w \in Worker :
    Alive(w) /\ manager.phase # "stopped" =>
      LET d == manager.desired[workers[w].agent] IN
      /\ workers[w].version <= d.version
      /\ workers[w].canceled /\ manager.phase # "awaiting" =>
           ~d.runnable \/ workers[w].version < d.version

\* The inductive invariant of ReplacesOlder.
VersionsInv == ListsAreOld /\ CanceledAreOld

\* The inductive invariant.
WorkersInv ==
  /\ HandlesMatch /\ NothingStale /\ NoHandlesLeft /\ FilesOfTheLiving
  /\ NoneForgotten
=============================================================================
