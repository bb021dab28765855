--------------------------- MODULE RuntimeProofs ---------------------------
(***************************************************************************)
(* Proofs about RuntimeManager, for every set of agents and of worker      *)
(* slots and every bound.                                                  *)
(***************************************************************************)
EXTENDS RuntimeManager, TLAPS

Manager ==
  [phase : ManagerPhase, desired : [Agent -> Row], starting : Agent \cup {None}]
WorkerState ==
  [phase : {"serving", "running", "closing", "ended"},
   agent : Agent \cup {None}, version : 0..MaxVersion,
   canceled : BOOLEAN, run : 0..MaxRuns, written : SUBSET (1..MaxRuns)]

\* The bounds are natural numbers.
LEMMA Bounds == MaxVersion \in Nat /\ MaxRuns \in Nat /\ MaxFaults \in Nat
  BY RuntimeAssumption

LEMMA Types ==
  ASSUME TypeOK
  PROVE  /\ rows \in [Agent -> Row] /\ version \in 0..MaxVersion
         /\ manager \in Manager
         /\ handles \in [Agent -> Worker \cup {None}]
         /\ workers \in [Worker -> WorkerState]
         /\ spill \in [Agent -> SUBSET (1..MaxRuns)]
         /\ runs \in 0..MaxRuns /\ faults \in 0..MaxFaults
  BY DEF TypeOK, Manager, WorkerState

LEMMA EmptyTypes ==
  /\ NoRow \in Row /\ Stopped \in Manager
  /\ NoWorker \in WorkerState /\ NoWorker.phase = "ended"
<1>1. 0 \in 0..MaxVersion /\ 0 \in 0..MaxRuns
  BY Bounds
<1>2. NoRow \in Row
  BY <1>1 DEF NoRow, Row
<1>3. Stopped \in Manager
  BY <1>2 DEF Stopped, Manager, ManagerPhase
<1>4. NoWorker \in WorkerState /\ NoWorker.phase = "ended"
  BY <1>1 DEF NoWorker, WorkerState
<1> QED
  BY <1>2, <1>3, <1>4

\* A move of the loop that changes its phase only.
LEMMA GotoType ==
  ASSUME manager \in Manager, NEW p \in ManagerPhase
  PROVE  /\ Goto(p) \in Manager /\ Goto(p).phase = p
         /\ Goto(p).desired = manager.desired
         /\ Goto(p).starting = manager.starting
  BY DEF Goto, Manager

\* A move of the loop that also sets the agent it starts.
LEMMA GotoStarting ==
  ASSUME manager \in Manager, NEW p \in ManagerPhase, NEW a \in Agent \cup {None}
  PROVE  /\ [Goto(p) EXCEPT !.starting = a] \in Manager
         /\ [Goto(p) EXCEPT !.starting = a].phase = p
         /\ [Goto(p) EXCEPT !.starting = a].desired = manager.desired
         /\ [Goto(p) EXCEPT !.starting = a].starting = a
<1>1. Goto(p) \in Manager /\ Goto(p).phase = p /\ Goto(p).desired = manager.desired
  BY GotoType
<1> HIDE DEF Goto
<1> QED
  BY <1>1 DEF Manager

\* What the loop does to a worker when it cancels some of them.
LEMMA CancelTypes ==
  ASSUME workers \in [Worker -> WorkerState], NEW W
  PROVE  /\ Cancel(W) \in [Worker -> WorkerState]
         /\ \A w \in Worker :
              /\ Cancel(W)[w].phase = workers[w].phase
              /\ Cancel(W)[w].agent = workers[w].agent
              /\ Cancel(W)[w].version = workers[w].version
              /\ Cancel(W)[w].written = workers[w].written
              /\ Cancel(W)[w].canceled = (workers[w].canceled \/ w \in W)
<1> SUFFICES ASSUME NEW w \in Worker
             PROVE  /\ Cancel(W)[w] \in WorkerState
                    /\ Cancel(W)[w].phase = workers[w].phase
                    /\ Cancel(W)[w].agent = workers[w].agent
                    /\ Cancel(W)[w].version = workers[w].version
                    /\ Cancel(W)[w].written = workers[w].written
                    /\ Cancel(W)[w].canceled = (workers[w].canceled \/ w \in W)
  BY DEF Cancel
<1>1. workers[w] \in WorkerState
  OBVIOUS
<1>2. CASE w \in W
  <2>1. Cancel(W)[w] = [workers[w] EXCEPT !.canceled = TRUE]
    BY <1>2 DEF Cancel
  <2> QED
    BY <1>1, <1>2, <2>1 DEF WorkerState
<1>3. CASE w \notin W
  <2>1. Cancel(W)[w] = workers[w]
    BY <1>3 DEF Cancel
  <2> QED
    BY <1>1, <1>3, <2>1 DEF WorkerState
<1> QED
  BY <1>2, <1>3

\* The states a worker's own steps lead to.
LEMMA MovedState ==
  ASSUME NEW x \in WorkerState, NEW p \in {"serving", "running", "closing"},
         NEW r \in 0..MaxRuns
  PROVE  /\ Moved(x, p, r) \in WorkerState
         /\ Moved(x, p, r).phase = p /\ Moved(x, p, r).run = r
         /\ Moved(x, p, r).agent = x.agent
         /\ Moved(x, p, r).version = x.version
         /\ Moved(x, p, r).canceled = x.canceled
         /\ Moved(x, p, r).written = x.written
  BY DEF Moved, WorkerState

LEMMA WroteState ==
  ASSUME NEW x \in WorkerState, x.run # 0
  PROVE  /\ Wrote(x) \in WorkerState
         /\ Wrote(x).phase = x.phase /\ Wrote(x).run = x.run
         /\ Wrote(x).agent = x.agent
         /\ Wrote(x).version = x.version
         /\ Wrote(x).canceled = x.canceled
         /\ Wrote(x).written = x.written \cup {x.run}
<1>1. x.run \in 1..MaxRuns
  BY Bounds DEF WorkerState
<1> QED
  BY <1>1 DEF Wrote, WorkerState

LEMMA ClosedState ==
  ASSUME NEW x \in WorkerState
  PROVE  /\ Closed(x) \in WorkerState
         /\ Closed(x).phase = "ended" /\ Closed(x).run = x.run
         /\ Closed(x).agent = x.agent
         /\ Closed(x).version = x.version
         /\ Closed(x).canceled = x.canceled
  BY DEF Closed, WorkerState

LEMMA ServingState ==
  ASSUME NEW a \in Agent, NEW v \in 0..MaxVersion
  PROVE  /\ Serving(a, v) \in WorkerState
         /\ Serving(a, v).phase = "serving" /\ Serving(a, v).run = 0
         /\ Serving(a, v).agent = a
         /\ Serving(a, v).version = v
         /\ ~Serving(a, v).canceled
         /\ Serving(a, v).written = {}
<1>1. 0 \in 0..MaxRuns
  BY Bounds
<1> DEFINE half == [NoWorker EXCEPT !.phase = "serving", !.agent = a]
<1>2. /\ half \in WorkerState /\ half.phase = "serving" /\ half.run = 0
      /\ half.agent = a /\ ~half.canceled /\ half.written = {}
  BY <1>1, EmptyTypes DEF NoWorker, WorkerState
<1>3. Serving(a, v) = [half EXCEPT !.version = v]
  BY DEF Serving
<1> HIDE DEF half
<1> QED
  BY <1>2, <1>3 DEF WorkerState

-----------------------------------------------------------------------------
(* Type correctness.                                                       *)

RunsMatch(W) ==
  \A w \in Worker : W[w].run # 0 <=> W[w].phase = "running"

LEMMA InitTypes == Init => TypeOK
<1> SUFFICES ASSUME Init PROVE TypeOK
  OBVIOUS
<1>1. rows \in [Agent -> Row] /\ manager \in Manager
  BY EmptyTypes DEF Init
<1>2. workers \in [Worker -> WorkerState] /\ RunsMatch(workers)
  <2>1. NoWorker.run = 0 /\ NoWorker.phase # "running"
    BY DEF NoWorker
  <2> QED
    BY <2>1, EmptyTypes DEF Init, RunsMatch
<1>3. manager.starting = None /\ manager.phase = "stopped"
  BY DEF Init, Stopped
<1> QED
  BY <1>1, <1>2, <1>3, Bounds
     DEF Init, TypeOK, Manager, WorkerState, RunsMatch, None

\* A step of one worker.
LEMMA SetWorkerTypes ==
  ASSUME TypeOK, NEW w \in Worker, NEW x \in WorkerState, SetWorker(w, x),
         x.run # 0 <=> x.phase = "running"
  PROVE  /\ workers' \in [Worker -> WorkerState] /\ RunsMatch(workers')
         /\ \A v \in Worker : workers'[v] = IF v = w THEN x ELSE workers[v]
<1>1. workers' = [workers EXCEPT ![w] = x] /\ workers \in [Worker -> WorkerState]
  BY Types DEF SetWorker
<1>2. \A v \in Worker : workers'[v] = IF v = w THEN x ELSE workers[v]
  BY <1>1
<1> QED
  BY <1>1, <1>2 DEF TypeOK, RunsMatch
LEMMA NobodyWorks ==
  LET W == [w \in Worker |-> NoWorker] IN
  /\ W \in [Worker -> WorkerState]
  /\ \A w \in Worker : W[w].run = 0 /\ W[w].phase = "ended" /\ W[w].written = {}
<1>1. NoWorker.run = 0 /\ NoWorker.phase = "ended" /\ NoWorker.written = {}
  BY DEF NoWorker
<1> QED
  BY <1>1, EmptyTypes

LEMMA NextTypes == TypeOK /\ [Next]_vars => TypeOK'
<1> SUFFICES ASSUME TypeOK, [Next]_vars PROVE TypeOK'
  OBVIOUS
<1>0. /\ rows \in [Agent -> Row] /\ version \in 0..MaxVersion
      /\ manager \in Manager
      /\ handles \in [Agent -> Worker \cup {None}]
      /\ workers \in [Worker -> WorkerState] /\ RunsMatch(workers)
      /\ spill \in [Agent -> SUBSET (1..MaxRuns)]
      /\ runs \in 0..MaxRuns /\ faults \in 0..MaxFaults
      /\ manager.starting # None <=> manager.phase = "launching"
  BY Types DEF TypeOK, RunsMatch
<1>a. \A p \in ManagerPhase : /\ Goto(p) \in Manager /\ Goto(p).phase = p
                              /\ Goto(p).desired = manager.desired
                              /\ Goto(p).starting = manager.starting
  BY <1>0, GotoType
<1>b. \A p \in ManagerPhase, a \in Agent \cup {None} :
        /\ [Goto(p) EXCEPT !.starting = a] \in Manager
        /\ [Goto(p) EXCEPT !.starting = a].phase = p
        /\ [Goto(p) EXCEPT !.starting = a].starting = a
  BY <1>0, GotoStarting
<1>c. ManagerPhase = {"waiting", "reaped", "listed", "starting", "launching",
                      "stopping", "awaiting", "stopped"}
  BY DEF ManagerPhase
<1> HIDE DEF Goto
<1>1. ASSUME NEW a \in Agent, NEW r \in BOOLEAN, NEW g \in BOOLEAN,
             ChangeRow(a, r, g)
      PROVE  TypeOK'
  <2>1. rows' \in [Agent -> Row] /\ version' \in 0..MaxVersion
    BY <1>0, <1>1, Bounds DEF ChangeRow, Row
  <2> QED
    BY <1>0, <1>1, <2>1 DEF ChangeRow, TypeOK, Manager, WorkerState, RunsMatch
<1>2. CASE Reap \/ CancelStale
  <2>1. handles' \in [Agent -> Worker \cup {None}]
    BY <1>0, <1>2 DEF Reap, CancelStale
  <2>2. workers' \in [Worker -> WorkerState] /\ RunsMatch(workers')
    <3>1. CASE UNCHANGED workers
      BY <1>0, <3>1
    <3>2. CASE CancelStale
      <4>1. workers' = Cancel({handles[a] : a \in Stale})
        BY <3>2 DEF CancelStale
      <4>2. \A w \in Worker : workers'[w].run = workers[w].run
        BY <1>0, <4>1 DEF Cancel, WorkerState
      <4> QED
        BY <1>0, <4>1, <4>2, CancelTypes DEF RunsMatch
    <3> QED
      BY <1>2, <3>1, <3>2 DEF Reap
  <2>3. manager' \in Manager /\ (manager'.starting # None <=> manager'.phase = "launching")
    BY <1>0, <1>2, <1>a, <1>c DEF Reap, CancelStale
  <2> QED
    BY <1>0, <1>2, <2>1, <2>2, <2>3
       DEF Reap, CancelStale, TypeOK, Manager, WorkerState, RunsMatch
<1>3. CASE List
  <2>1. manager' \in Manager /\ manager'.phase = "listed"
        /\ manager'.starting = manager.starting
    <3>1. manager' = [Goto("listed") EXCEPT !.desired = rows]
      BY <1>3 DEF List
    <3>2. Goto("listed") \in Manager /\ Goto("listed").phase = "listed"
          /\ Goto("listed").starting = manager.starting
      BY <1>a, <1>c
    <3> QED
      BY <1>0, <3>1, <3>2 DEF Manager
  <2> QED
    BY <1>0, <1>3, <2>1 DEF List, TypeOK, Manager, WorkerState, RunsMatch
<1>4. ASSUME NEW a \in Agent, StartWorker(a) PROVE TypeOK'
  <2>1. manager' \in Manager /\ manager'.phase = "launching"
        /\ manager'.starting = a
    BY <1>4, <1>b, <1>c DEF StartWorker
  <2>2. a # None
    BY RuntimeAssumption DEF None
  <2> QED
    BY <1>0, <1>4, <2>1, <2>2
       DEF StartWorker, TypeOK, Manager, WorkerState, RunsMatch
<1>5. ASSUME NEW w \in Worker, Launch(w) PROVE TypeOK'
  <2> DEFINE a == manager.starting
             x == Serving(a, manager.desired[a].version)
  <2>1. a \in Agent
    BY <1>0, <1>5 DEF Launch, Manager
  <2>2. manager.desired[a].version \in 0..MaxVersion
    BY <1>0, <2>1 DEF Manager, Row
  <2>3. x \in WorkerState /\ (x.run # 0 <=> x.phase = "running")
    BY <2>1, <2>2, ServingState
  <2>4. SetWorker(w, x)
    BY <1>5 DEF Launch, SetWorker
  <2>5. manager' \in Manager /\ manager'.phase = "starting"
        /\ manager'.starting = None
    BY <1>5, <1>b, <1>c DEF Launch
  <2>6. handles' \in [Agent -> Worker \cup {None}]
    BY <1>0, <1>5, <2>1 DEF Launch
  <2> HIDE DEF x
  <2>7. workers' \in [Worker -> WorkerState] /\ RunsMatch(workers')
    BY <2>3, <2>4, SetWorkerTypes
  <2> QED
    BY <1>0, <1>5, <2>5, <2>6, <2>7
       DEF Launch, TypeOK, Manager, WorkerState, RunsMatch
<1>6. CASE StartFails
  <2>1. manager' \in Manager /\ manager'.phase = "stopping"
        /\ manager'.starting = None
    BY <1>6, <1>b, <1>c DEF StartFails
  <2> QED
    BY <1>0, <1>6, <2>1 DEF StartFails, TypeOK, Manager, WorkerState, RunsMatch
<1>7. CASE SyncDone \/ StopManager
  <2>1. manager' \in Manager /\ manager'.phase \in {"waiting", "stopping"}
        /\ manager'.starting = manager.starting
    BY <1>7, <1>a, <1>c DEF SyncDone, StopManager
  <2>2. faults' \in 0..MaxFaults /\ manager.phase # "launching"
    BY <1>0, <1>7, Bounds DEF SyncDone, StopManager, CountFault
  <2> QED
    BY <1>0, <1>7, <2>1, <2>2
       DEF SyncDone, StopManager, TypeOK, Manager, WorkerState, RunsMatch
<1>8. CASE StopAll
  <2>1. workers' = Cancel(Registered)
    BY <1>8 DEF StopAll
  <2>2. \A w \in Worker : workers'[w].run = workers[w].run
    BY <1>0, <2>1 DEF Cancel, WorkerState
  <2>3. workers' \in [Worker -> WorkerState] /\ RunsMatch(workers')
    BY <1>0, <2>1, <2>2, CancelTypes DEF RunsMatch
  <2>4. manager' \in Manager /\ manager'.phase = "awaiting"
        /\ manager'.starting = manager.starting
    BY <1>8, <1>a, <1>c DEF StopAll
  <2>5. manager.phase # "launching"
    BY <1>8 DEF StopAll
  <2> QED
    BY <1>0, <1>8, <2>3, <2>4, <2>5
       DEF StopAll, TypeOK, Manager, WorkerState, RunsMatch
<1>9. CASE AllDone \/ Crash
  <2>1. manager' \in Manager /\ manager'.starting = None
        /\ manager'.phase = "stopped"
    BY <1>9, EmptyTypes DEF AllDone, Crash, Stopped
  <2>2. workers' \in [Worker -> WorkerState] /\ RunsMatch(workers')
    <3>1. CASE workers' = [w \in Worker |-> NoWorker]
      BY <3>1, NobodyWorks DEF RunsMatch
    <3>2. CASE UNCHANGED workers
      BY <1>0, <3>2
    <3> QED
      BY <1>9, <3>1, <3>2 DEF AllDone, Crash
  <2>3. handles' \in [Agent -> Worker \cup {None}] /\ faults' \in 0..MaxFaults
    BY <1>0, <1>9, Bounds DEF AllDone, Crash, CountFault
  <2> QED
    BY <1>0, <1>9, <2>1, <2>2, <2>3
       DEF AllDone, Crash, TypeOK, Manager, WorkerState, RunsMatch
<1>10. CASE StartManager
  <2>1. workers' \in [Worker -> WorkerState] /\ RunsMatch(workers')
    BY <1>10, NobodyWorks DEF StartManager, RunsMatch
  <2>2. manager' \in Manager /\ manager'.phase = "waiting"
        /\ manager'.starting = manager.starting
    BY <1>10, <1>a, <1>c DEF StartManager
  <2>3. manager.phase # "launching"
    BY <1>10 DEF StartManager
  <2> QED
    BY <1>0, <1>10, <2>1, <2>2, <2>3
       DEF StartManager, TypeOK, Manager, WorkerState, RunsMatch
<1>11. ASSUME NEW w \in Worker, WorkerStep(w) \/ ReturnFailed(w) PROVE TypeOK'
  <2>1. workers[w] \in WorkerState /\ 0 \in 0..MaxRuns
    BY <1>0, Bounds
  <2>2. PICK x \in WorkerState :
          SetWorker(w, x) /\ (x.run # 0 <=> x.phase = "running")
    <3>1. CASE BeginRun(w)
      <4>1. runs + 1 \in 0..MaxRuns /\ runs + 1 # 0
        BY <1>0, <3>1, Bounds DEF BeginRun
      <4>2. ASSUME NEW r \in 0..MaxRuns
            PROVE  /\ Moved(workers[w], "running", r) \in WorkerState
                   /\ Moved(workers[w], "running", r).run = r
                   /\ Moved(workers[w], "running", r).phase = "running"
        <5>1. Moved(workers[w], "running", r) \in WorkerState
          BY <2>1, MovedState
        <5>2. Moved(workers[w], "running", r).run = r
          BY <2>1, MovedState
        <5>3. Moved(workers[w], "running", r).phase = "running"
          BY <2>1, MovedState
        <5> QED
          BY <5>1, <5>2, <5>3
      <4>3. SetWorker(w, Moved(workers[w], "running", runs + 1))
        BY <3>1 DEF BeginRun
      <4>4. PICK r \in 0..MaxRuns : r = runs + 1
        BY <4>1
      <4>5. SetWorker(w, Moved(workers[w], "running", r)) /\ r # 0
        BY <4>1, <4>3, <4>4
      <4> QED
        BY <4>2, <4>5
    <3>2. CASE WriteSpill(w)
      <4>1. workers[w].run # 0 /\ workers[w].phase = "running"
        BY <1>0, <3>2 DEF WriteSpill, RunsMatch
      <4> QED
        BY <2>1, <3>2, <4>1, WroteState DEF WriteSpill
    <3>3. CASE EndRun(w) \/ ReturnCanceled(w) \/ ReturnFailed(w)
      <4>1. ASSUME NEW p \in {"serving", "closing"}
            PROVE  LET x == Moved(workers[w], p, 0) IN
                   x \in WorkerState /\ (x.run # 0 <=> x.phase = "running")
        BY <2>1, MovedState
      <4>2. \E p \in {"serving", "closing"} : SetWorker(w, Moved(workers[w], p, 0))
        BY <3>3 DEF EndRun, ReturnCanceled, ReturnFailed
      <4> QED
        BY <4>1, <4>2
    <3>4. CASE Close(w)
      <4>1. workers[w].run = 0
        BY <1>0, <3>4 DEF Close, RunsMatch
      <4> QED
        BY <2>1, <3>4, <4>1, ClosedState DEF Close
    <3> QED
      BY <1>11, <3>1, <3>2, <3>3, <3>4 DEF WorkerStep
  <2>3. workers' \in [Worker -> WorkerState] /\ RunsMatch(workers')
    BY <2>2, SetWorkerTypes
  <2>4. spill' \in [Agent -> SUBSET (1..MaxRuns)]
    <3>1. CASE WriteSpill(w)
      <4>1. workers[w].run \in 1..MaxRuns
        BY <1>0, <3>1, Bounds DEF WriteSpill, RunsMatch, WorkerState
      <4> QED
        BY <1>0, <3>1, <4>1 DEF WriteSpill
    <3>2. CASE Close(w)
      BY <1>0, <3>2 DEF Close
    <3>3. CASE UNCHANGED spill
      BY <1>0, <3>3
    <3> QED
      BY <1>11, <3>1, <3>2, <3>3
         DEF WorkerStep, BeginRun, EndRun, ReturnCanceled, ReturnFailed
  <2>5. runs' \in 0..MaxRuns /\ faults' \in 0..MaxFaults
    BY <1>0, <1>11, Bounds
       DEF WorkerStep, BeginRun, WriteSpill, EndRun, ReturnCanceled, Close,
           ReturnFailed, CountFault
  <2>6. UNCHANGED <<rows, version, manager, handles>>
    BY <1>11 DEF WorkerStep, BeginRun, WriteSpill, EndRun, ReturnCanceled, Close,
                 ReturnFailed
  <2> QED
    BY <1>0, <2>3, <2>4, <2>5, <2>6 DEF TypeOK, Manager, WorkerState, RunsMatch
<1>12. CASE UNCHANGED vars
  BY <1>12 DEF vars, TypeOK
<1> QED
  BY <1>1, <1>2, <1>3, <1>4, <1>5, <1>6, <1>7, <1>8, <1>9, <1>10, <1>11, <1>12
     DEF Next, SyncStep

\* The table, the handles, the workers and the spill directories have their
\* types in every reachable state.
THEOREM TypeCorrect == Spec => []TypeOK
  BY InitTypes, NextTypes, PTL DEF Spec
-----------------------------------------------------------------------------
(* The inductive invariant.                                                *)

\* A step of one worker keeps what the handles know about it.
LEMMA WorkerKeeps ==
  ASSUME TypeOK, WorkersInv, NEW w \in Worker, NEW x \in WorkerState,
         SetWorker(w, x), UNCHANGED <<manager, handles>>, Alive(w),
         x.agent = workers[w].agent, x.version = workers[w].version,
         x.canceled = workers[w].canceled, FilesOfTheLiving'
  PROVE  WorkersInv'
<1>1. \A v \in Worker : workers'[v] = IF v = w THEN x ELSE workers[v]
  BY Types DEF SetWorker
<1>2. \A v \in Worker : /\ workers'[v].agent = workers[v].agent
                        /\ workers'[v].version = workers[v].version
                        /\ workers'[v].canceled = workers[v].canceled
  BY <1>1
<1>3. handles \in [Agent -> Worker \cup {None}]
  BY Types
<1>4. HandlesMatch'
  BY <1>1, <1>2, <1>3 DEF WorkersInv, HandlesMatch, Alive
<1>5. NothingStale'
  BY <1>2, <1>3 DEF WorkersInv, NothingStale, Stale, Listed
<1>6. NoHandlesLeft'
  BY DEF WorkersInv, NoHandlesLeft
<1>7. NoneForgotten'
  BY <1>1, <1>2 DEF WorkersInv, NoneForgotten, Alive
<1> QED
  BY <1>4, <1>5, <1>6, <1>7 DEF WorkersInv

LEMMA WorkerStepKeeps ==
  ASSUME TypeOK, WorkersInv, NEW w \in Worker, WorkerStep(w) \/ ReturnFailed(w)
  PROVE  WorkersInv'
<1>0. /\ workers \in [Worker -> WorkerState] /\ workers[w] \in WorkerState
      /\ spill \in [Agent -> SUBSET (1..MaxRuns)] /\ runs \in 0..MaxRuns
      /\ 0 \in 0..MaxRuns /\ UNCHANGED <<manager, handles>>
  BY Types, Bounds
     DEF WorkerStep, BeginRun, WriteSpill, EndRun, ReturnCanceled, Close,
         ReturnFailed
<1>1. ASSUME NEW p \in {"serving", "running", "closing"}, NEW r \in 0..MaxRuns,
             SetWorker(w, Moved(workers[w], p, r)), Alive(w), UNCHANGED spill
      PROVE  WorkersInv'
  <2> DEFINE x == Moved(workers[w], p, r)
  <2>1. /\ x \in WorkerState /\ x.phase = p /\ x.agent = workers[w].agent
        /\ x.version = workers[w].version /\ x.canceled = workers[w].canceled
        /\ x.written = workers[w].written
    <3>1. p \in {"serving", "running", "closing"} /\ r \in 0..MaxRuns
      BY <1>1
    <3>2. workers[w] \in WorkerState
      BY <1>0
    <3> QED
      BY <3>1, <3>2, MovedState
  <2>2. \A v \in Worker : workers'[v] = IF v = w THEN x ELSE workers[v]
    BY <1>0, <1>1 DEF SetWorker
  <2> HIDE DEF x
  <2>3. \A v \in Worker : /\ workers'[v].agent = workers[v].agent
                          /\ workers'[v].written = workers[v].written
                          /\ Alive(v)' <=> Alive(v)
    BY <1>1, <2>1, <2>2 DEF Alive
  <2>4. FilesOfTheLiving'
    BY <1>0, <1>1, <2>3 DEF WorkersInv, FilesOfTheLiving, WrittenFor, Live
  <2> QED
    BY <1>0, <1>1, <2>1, <2>4, WorkerKeeps DEF x
<1>2. CASE BeginRun(w) \/ EndRun(w) \/ ReturnCanceled(w) \/ ReturnFailed(w)
  <2>1. Alive(w) /\ UNCHANGED spill
    BY <1>2 DEF BeginRun, EndRun, ReturnCanceled, ReturnFailed, Alive
  <2>2. CASE BeginRun(w)
    <3>1. runs + 1 \in 0..MaxRuns
      BY <1>0, <2>2, Bounds DEF BeginRun
    <3> QED
      BY <1>1, <2>1, <2>2, <3>1 DEF BeginRun
  <2>3. CASE EndRun(w) \/ ReturnCanceled(w) \/ ReturnFailed(w)
    BY <1>0, <1>1, <2>1, <2>3 DEF EndRun, ReturnCanceled, ReturnFailed
  <2> QED
    BY <1>2, <2>2, <2>3
<1>3. CASE WriteSpill(w)
  <2> DEFINE x == Wrote(workers[w])
             a == workers[w].agent
             r == workers[w].run
  <2>1. workers[w].run # 0 /\ Alive(w)
    BY <1>3 DEF WriteSpill, TypeOK, Alive
  <2>2. /\ x \in WorkerState /\ x.phase = workers[w].phase
        /\ x.agent = workers[w].agent /\ x.version = workers[w].version
        /\ x.canceled = workers[w].canceled
        /\ x.written = workers[w].written \cup {r}
    BY <1>0, <2>1, WroteState
  <2>3. SetWorker(w, x) /\ spill' = [spill EXCEPT ![a] = @ \cup {r}]
    BY <1>3 DEF WriteSpill
  <2>4. \A v \in Worker : workers'[v] = IF v = w THEN x ELSE workers[v]
    BY <1>0, <2>3 DEF SetWorker
  <2> HIDE DEF x
  <2>5. \A v \in Worker : /\ workers'[v].agent = workers[v].agent
                          /\ Alive(v)' <=> Alive(v)
                          /\ workers[v].written \subseteq workers'[v].written
    BY <2>2, <2>4 DEF Alive
  <2>6. FilesOfTheLiving'
    <3> SUFFICES ASSUME NEW b \in Agent, Live(b)' # {} \/ manager.starting = b
                 PROVE  spill'[b] \subseteq WrittenFor(b)'
      BY <1>0 DEF FilesOfTheLiving
    <3>1. Live(b)' = Live(b)
      BY <2>5 DEF Live
    <3>2. spill[b] \subseteq WrittenFor(b)
      BY <3>1 DEF WorkersInv, FilesOfTheLiving
    <3>3. WrittenFor(b) \subseteq WrittenFor(b)'
      BY <2>5, <3>1 DEF WrittenFor, Live
    <3>4. CASE b = a
      <4>1. w \in Live(b)' /\ r \in workers'[w].written
        BY <2>1, <2>2, <2>4, <2>5, <3>1, <3>4 DEF Live
      <4>2. r \in WrittenFor(b)'
        BY <4>1 DEF WrittenFor
      <4>3. spill'[b] = spill[b] \cup {r}
        BY <1>0, <2>3, <3>4
      <4> QED
        BY <3>2, <3>3, <4>2, <4>3
    <3>5. CASE b # a
      BY <1>0, <2>3, <3>2, <3>3, <3>5
    <3> QED
      BY <3>4, <3>5
  <2> QED
    BY <1>0, <2>1, <2>2, <2>3, <2>6, WorkerKeeps
<1>4. CASE Close(w)
  <2> DEFINE x == Closed(workers[w])
             a == workers[w].agent
  <2>1. /\ x \in WorkerState /\ x.phase = "ended" /\ x.agent = a
        /\ x.version = workers[w].version /\ x.canceled = workers[w].canceled
    BY <1>0, ClosedState
  <2>2. SetWorker(w, x) /\ spill' = [spill EXCEPT ![a] = {}] /\ Alive(w)
    BY <1>4 DEF Close, Alive
  <2>3. \A v \in Worker : workers'[v] = IF v = w THEN x ELSE workers[v]
    BY <1>0, <2>2 DEF SetWorker
  <2> HIDE DEF x
  <2>4. FilesOfTheLiving'
    <3> SUFFICES ASSUME NEW b \in Agent, Live(b)' # {} \/ manager.starting = b
                 PROVE  spill'[b] \subseteq WrittenFor(b)'
      BY <1>0 DEF FilesOfTheLiving
    <3>1. CASE b = a
      BY <1>0, <2>2, <3>1
    <3>2. CASE b # a
      <4>1. Live(b)' = Live(b) /\ \A v \in Live(b) : workers'[v] = workers[v]
        BY <2>1, <2>3, <3>2 DEF Live, Alive
      <4>2. WrittenFor(b)' = WrittenFor(b)
        BY <4>1 DEF WrittenFor
      <4> QED
        BY <1>0, <2>2, <3>2, <4>1, <4>2 DEF WorkersInv, FilesOfTheLiving
    <3> QED
      BY <3>1, <3>2
  <2> QED
    BY <1>0, <2>1, <2>2, <2>4, WorkerKeeps
<1> QED
  BY <1>2, <1>3, <1>4 DEF WorkerStep
LEMMA InitInv == Init => WorkersInv
<1> SUFFICES ASSUME Init PROVE WorkersInv
  OBVIOUS
<1>1. /\ \A a \in Agent : handles[a] = None /\ spill[a] = {}
      /\ \A w \in Worker : ~Alive(w)
      /\ manager.phase = "stopped" /\ manager.starting = None
  BY EmptyTypes DEF Init, Alive, Stopped
<1> QED
  BY <1>1 DEF WorkersInv, HandlesMatch, NothingStale, NoHandlesLeft,
              FilesOfTheLiving, NoneForgotten

\* A step of the loop between two ticks that touches the handles and the flag
\* canceled only, and starts nobody.
LEMMA LoopKeeps ==
  ASSUME TypeOK, WorkersInv, UNCHANGED spill, manager' \in Manager,
         manager'.starting = None,
         handles' \in [Agent -> Worker \cup {None}],
         \A a \in Agent : handles'[a] \in {None, handles[a]},
         \A w \in Worker : /\ workers'[w].phase = workers[w].phase
                           /\ workers'[w].agent = workers[w].agent
                           /\ workers'[w].written = workers[w].written,
         NothingStale', NoHandlesLeft', NoneForgotten'
  PROVE  WorkersInv'
<1>0. handles \in [Agent -> Worker \cup {None}]
  BY Types
<1>1. HandlesMatch'
  BY <1>0 DEF WorkersInv, HandlesMatch, Alive
<1>2. FilesOfTheLiving'
  <2>1. None \notin Agent
    BY RuntimeAssumption DEF None
  <2>2. \A a \in Agent : Live(a)' = Live(a)
    BY DEF Live, Alive
  <2>3. \A a \in Agent : WrittenFor(a)' = WrittenFor(a)
    BY <2>2 DEF WrittenFor, Live
  <2> QED
    BY <2>1, <2>2, <2>3 DEF WorkersInv, FilesOfTheLiving
<1> QED
  BY <1>1, <1>2 DEF WorkersInv

LEMMA LoopStepKeeps ==
  ASSUME TypeOK, TypeOK', WorkersInv,
         Reap \/ List \/ CancelStale \/ SyncDone \/ StartFails
           \/ StopManager \/ StopAll \/ AllDone
  PROVE  WorkersInv'
<1>0. /\ manager \in Manager /\ manager' \in Manager
      /\ handles \in [Agent -> Worker \cup {None}]
      /\ handles' \in [Agent -> Worker \cup {None}]
      /\ workers \in [Worker -> WorkerState]
      /\ manager.starting # None <=> manager.phase = "launching"
      /\ manager'.starting # None <=> manager'.phase = "launching"
  BY Types DEF TypeOK, Manager, WorkerState
<1>a. \A p \in ManagerPhase : Goto(p).phase = p /\ Goto(p).desired = manager.desired
  BY <1>0, GotoType
<1>b. \A p \in ManagerPhase :
        /\ [Goto(p) EXCEPT !.starting = None].phase = p
        /\ [Goto(p) EXCEPT !.desired = rows].phase = p
  BY <1>0, GotoType, GotoStarting DEF Goto, Manager
<1>c. ManagerPhase = {"waiting", "reaped", "listed", "starting", "launching",
                      "stopping", "awaiting", "stopped"}
  BY DEF ManagerPhase
<1> HIDE DEF Goto
<1>1. CASE List \/ SyncDone \/ StartFails \/ StopManager
  <2>1. manager'.phase \in {"listed", "waiting", "stopping"}
    <3>1. CASE List
      <4>1. manager' = [Goto("listed") EXCEPT !.desired = rows]
        BY <3>1 DEF List
      <4> QED
        BY <1>b, <1>c, <4>1
    <3>2. CASE SyncDone
      <4>1. manager' = Goto("waiting")
        BY <3>2 DEF SyncDone
      <4> QED
        BY <1>a, <1>c, <4>1
    <3>3. CASE StartFails
      <4>1. manager' = [Goto("stopping") EXCEPT !.starting = None]
        BY <3>3 DEF StartFails
      <4> QED
        BY <1>b, <1>c, <4>1
    <3>4. CASE StopManager
      <4>1. manager' = Goto("stopping")
        BY <3>4 DEF StopManager
      <4> QED
        BY <1>a, <1>c, <4>1
    <3> QED
      BY <1>1, <3>1, <3>2, <3>3, <3>4
  <2>2. UNCHANGED <<handles, workers, spill>>
    BY <1>1 DEF List, SyncDone, StartFails, StopManager
  <2>3. NothingStale' /\ NoHandlesLeft' /\ manager'.starting = None
    BY <1>0, <2>1 DEF NothingStale, NoHandlesLeft
  <2>4. NoneForgotten'
    BY <2>2 DEF WorkersInv, NoneForgotten, Alive
  <2> QED
    BY <1>0, <2>2, <2>3, <2>4, LoopKeeps
<1>2. CASE Reap
  <2>1. manager'.phase = "reaped" /\ UNCHANGED <<workers, spill>>
    BY <1>2, <1>a, <1>c DEF Reap
  <2>2. \A a \in Agent : handles'[a] =
          IF handles[a] # None /\ ~Alive(handles[a]) THEN None ELSE handles[a]
    BY <1>2 DEF Reap
  <2>3. NothingStale' /\ NoHandlesLeft' /\ manager'.starting = None
    BY <1>0, <2>1 DEF NothingStale, NoHandlesLeft
  <2>4. NoneForgotten'
    <3> SUFFICES ASSUME NEW w \in Worker, Alive(w), ~workers[w].canceled
                 PROVE  handles'[workers[w].agent] = w
      BY <2>1 DEF NoneForgotten, Alive
    <3>1. handles[workers[w].agent] = w
      BY DEF WorkersInv, NoneForgotten
    <3>2. workers[w].agent \in Agent
      BY DEF WorkersInv, HandlesMatch
    <3> QED
      BY <2>2, <3>1, <3>2
  <2> QED
    BY <1>0, <2>1, <2>2, <2>3, <2>4, LoopKeeps
<1>3. CASE CancelStale
  <2> DEFINE W == {handles[a] : a \in Stale}
  <2>1. /\ manager'.phase = "starting" /\ manager'.desired = manager.desired
        /\ UNCHANGED spill
    BY <1>3, <1>a, <1>c DEF CancelStale
  <2>2. \A a \in Agent :
          handles'[a] = IF a \in Stale THEN None ELSE handles[a]
    BY <1>3 DEF CancelStale
  <2>3. workers' = Cancel(W)
    BY <1>3 DEF CancelStale
  <2>4. \A w \in Worker : /\ workers'[w].phase = workers[w].phase
                          /\ workers'[w].agent = workers[w].agent
                          /\ workers'[w].version = workers[w].version
                          /\ workers'[w].written = workers[w].written
                          /\ workers'[w].canceled =
                               (workers[w].canceled \/ w \in W)
    BY <1>0, <2>3, CancelTypes
  <2>5. NothingStale'
    <3>1. \A a \in Agent : a \notin Stale'
      BY <1>0, <2>1, <2>2, <2>4 DEF Stale, Listed
    <3>2. Stale' = {}
      BY <3>1 DEF Stale
    <3> QED
      BY <2>1, <3>2 DEF NothingStale
  <2>6. NoHandlesLeft' /\ manager'.starting = None
    BY <1>0, <2>1 DEF NoHandlesLeft
  <2>7. NoneForgotten'
    <3> SUFFICES ASSUME NEW w \in Worker, Alive(w), ~workers[w].canceled, w \notin W
                 PROVE  handles'[workers[w].agent] = w
      BY <2>4 DEF NoneForgotten, Alive
    <3>1. handles[workers[w].agent] = w /\ workers[w].agent \in Agent
      BY DEF WorkersInv, NoneForgotten, HandlesMatch
    <3> QED
      BY <2>2, <3>1
  <2> HIDE DEF W
  <2> QED
    BY <1>0, <2>1, <2>2, <2>4, <2>5, <2>6, <2>7, LoopKeeps
<1>4. CASE StopAll
  <2>1. manager'.phase = "awaiting" /\ UNCHANGED <<handles, spill>>
    BY <1>4, <1>a, <1>c DEF StopAll
  <2>2. workers' = Cancel(Registered)
    BY <1>4 DEF StopAll
  <2>3. \A w \in Worker : /\ workers'[w].phase = workers[w].phase
                          /\ workers'[w].agent = workers[w].agent
                          /\ workers'[w].written = workers[w].written
                          /\ workers'[w].canceled =
                               (workers[w].canceled \/ w \in Registered)
    BY <1>0, <2>2, CancelTypes
  <2>4. NothingStale' /\ NoHandlesLeft' /\ manager'.starting = None
    BY <1>0, <2>1 DEF NothingStale, NoHandlesLeft
  <2>5. NoneForgotten'
    BY <2>1, <2>3 DEF WorkersInv, NoneForgotten, Alive
  <2> QED
    BY <1>0, <2>1, <2>3, <2>4, <2>5, LoopKeeps
<1>5. CASE AllDone
  <2>1. /\ manager'.phase = "stopped" /\ UNCHANGED <<workers, spill>>
        /\ \A a \in Agent : handles'[a] = None
        /\ \A w \in Registered : ~Alive(w)
    BY <1>5 DEF AllDone, Stopped
  <2>2. NothingStale' /\ NoHandlesLeft' /\ manager'.starting = None
    BY <1>0, <2>1 DEF NothingStale, NoHandlesLeft
  <2>3. NoneForgotten'
    <3> SUFFICES ASSUME NEW w \in Worker, Alive(w), ~workers[w].canceled
                 PROVE  FALSE
      BY <2>1 DEF NoneForgotten, Alive
    <3>1. handles[workers[w].agent] = w /\ workers[w].agent \in Agent
      BY DEF WorkersInv, NoneForgotten, HandlesMatch
    <3>2. w # None
      BY RuntimeAssumption DEF None
    <3>3. w \in Registered
      BY <3>1, <3>2 DEF Registered
    <3> QED
      BY <2>1, <3>3
  <2> QED
    BY <1>0, <2>1, <2>2, <2>3, LoopKeeps
<1> QED
  BY <1>1, <1>2, <1>3, <1>4, <1>5

LEMMA StartKeeps ==
  ASSUME TypeOK, TypeOK', WorkersInv, NEW a \in Agent, StartWorker(a)
  PROVE  WorkersInv'
<1>1. /\ manager \in Manager /\ a # None /\ "launching" \in ManagerPhase
      /\ spill \in [Agent -> SUBSET (1..MaxRuns)]
  BY Types, RuntimeAssumption DEF None, ManagerPhase
<1>2. /\ manager.phase = "starting" /\ a \in ToStart
      /\ spill' = [spill EXCEPT ![a] = {}]
      /\ UNCHANGED <<handles, workers>>
  BY DEF StartWorker
<1>3. /\ manager'.phase = "launching" /\ manager'.desired = manager.desired
      /\ manager'.starting = a
  BY <1>1, GotoStarting DEF StartWorker
<1>4. Stale = {} /\ Listed(a) /\ handles[a] = None
  BY <1>2 DEF WorkersInv, NothingStale, ToStart
<1>5. NothingStale'
  BY <1>2, <1>3, <1>4 DEF NothingStale, Stale, Listed
<1>6. HandlesMatch' /\ NoneForgotten' /\ NoHandlesLeft'
  BY <1>2, <1>3 DEF WorkersInv, HandlesMatch, NoneForgotten, NoHandlesLeft, Alive
<1>7. FilesOfTheLiving'
  <2> SUFFICES ASSUME NEW b \in Agent, Live(b) # {} \/ a = b
               PROVE  spill'[b] \subseteq WrittenFor(b)
    BY <1>2, <1>3 DEF FilesOfTheLiving, WrittenFor, Live, Alive
  <2>1. CASE a = b
    BY <1>1, <1>2, <2>1
  <2>2. CASE a # b
    BY <1>1, <1>2, <2>2 DEF WorkersInv, FilesOfTheLiving
  <2> QED
    BY <2>1, <2>2
<1> QED
  BY <1>5, <1>6, <1>7 DEF WorkersInv

LEMMA LaunchKeeps ==
  ASSUME TypeOK, TypeOK', WorkersInv, NEW w \in Worker, Launch(w)
  PROVE  WorkersInv'
<1> DEFINE a == manager.starting
           v == manager.desired[a].version
<1>1. /\ manager \in Manager /\ handles \in [Agent -> Worker \cup {None}]
      /\ workers \in [Worker -> WorkerState] /\ w # None
      /\ "starting" \in ManagerPhase
  BY Types, RuntimeAssumption DEF None, ManagerPhase
<1>2. /\ manager.phase = "launching" /\ ~Alive(w) /\ w \notin Registered
      /\ workers' = [workers EXCEPT ![w] = Serving(a, v)]
      /\ handles' = [handles EXCEPT ![a] = w]
      /\ UNCHANGED spill
  BY DEF Launch, Free
<1>3. a \in Agent /\ v \in 0..MaxVersion
  <2>1. a \in Agent
    BY <1>1, <1>2 DEF TypeOK, Manager
  <2> QED
    BY <1>1, <2>1 DEF Manager, Row
<1>4. /\ manager'.phase = "starting" /\ manager'.desired = manager.desired
      /\ manager'.starting = None
  BY <1>1, GotoStarting DEF Launch
<1>5. /\ workers'[w].phase = "serving" /\ workers'[w].agent = a
      /\ workers'[w].version = v /\ workers'[w].written = {}
      /\ \A x \in Worker : x # w => workers'[x] = workers[x]
  BY <1>1, <1>2, <1>3, ServingState
<1>6. \A b \in Agent : handles'[b] = IF b = a THEN w ELSE handles[b]
  BY <1>1, <1>2
<1>7. \A b \in Agent : handles[b] # w
  BY <1>1, <1>2 DEF Registered
<1>8. Stale = {} /\ Listed(a) /\ handles[a] = None
  BY <1>2 DEF WorkersInv, NothingStale
<1> HIDE DEF a, v
<1>9. HandlesMatch'
  <2>1. \A x \in Worker : Alive(x)' => workers'[x].agent \in Agent
    BY <1>3, <1>5 DEF WorkersInv, HandlesMatch, Alive
  <2>2. \A b \in Agent : handles'[b] # None => workers'[handles'[b]].agent = b
    BY <1>1, <1>5, <1>6, <1>7 DEF WorkersInv, HandlesMatch
  <2> QED
    BY <2>1, <2>2 DEF HandlesMatch
<1>10. NothingStale'
  <2>1. \A b \in Agent : b \notin Stale'
    <3> SUFFICES ASSUME NEW b \in Agent, handles'[b] # None
                 PROVE  /\ Listed(b)
                        /\ workers'[handles'[b]].version = manager.desired[b].version
      BY <1>4 DEF Stale, Listed
    <3>1. CASE b = a
      BY <1>5, <1>6, <1>8, <3>1 DEF v, a
    <3>2. CASE b # a
      BY <1>1, <1>5, <1>6, <1>7, <1>8, <3>2 DEF Stale
    <3> QED
      BY <3>1, <3>2
  <2>2. Stale' = {}
    BY <2>1 DEF Stale
  <2> QED
    BY <1>4, <2>2 DEF NothingStale
<1>11. NoHandlesLeft'
  BY <1>4 DEF NoHandlesLeft
<1>12. NoneForgotten'
  <2> SUFFICES ASSUME NEW x \in Worker, Alive(x)', ~workers'[x].canceled
               PROVE  handles'[workers'[x].agent] = x
    BY DEF NoneForgotten
  <2>1. CASE x = w
    BY <1>3, <1>5, <1>6, <2>1
  <2>2. CASE x # w
    <3>1. workers'[x] = workers[x] /\ Alive(x)
      BY <1>5, <2>2 DEF Alive
    <3>2. handles[workers[x].agent] = x /\ workers[x].agent \in Agent
      BY <3>1 DEF WorkersInv, NoneForgotten, HandlesMatch
    <3>3. x # None
      BY RuntimeAssumption DEF None
    <3> QED
      BY <1>6, <1>8, <3>1, <3>2, <3>3
  <2> QED
    BY <2>1, <2>2
<1>13. FilesOfTheLiving'
  <2>1. None \notin Agent
    BY RuntimeAssumption DEF None
  <2> SUFFICES ASSUME NEW b \in Agent, Live(b)' # {}
               PROVE  spill[b] \subseteq WrittenFor(b)'
    BY <1>2, <1>4, <2>1 DEF FilesOfTheLiving
  <2>2. Live(b) \subseteq Live(b)' /\ \A x \in Live(b) : workers'[x] = workers[x]
    BY <1>2, <1>5 DEF Live, Alive
  <2>3. WrittenFor(b) \subseteq WrittenFor(b)'
    BY <2>2 DEF WrittenFor
  <2>4. Live(b) # {} \/ a = b
    BY <1>5 DEF Live, Alive
  <2> QED
    BY <2>3, <2>4 DEF WorkersInv, FilesOfTheLiving, a
<1> QED
  BY <1>9, <1>10, <1>11, <1>12, <1>13 DEF WorkersInv

LEMMA NextInv ==
  ASSUME TypeOK, TypeOK', WorkersInv, [Next]_vars PROVE WorkersInv'
<1>1. ASSUME NEW a \in Agent, NEW r \in BOOLEAN, NEW g \in BOOLEAN,
             ChangeRow(a, r, g)
      PROVE  WorkersInv'
  BY <1>1 DEF ChangeRow, WorkersInv, HandlesMatch, NothingStale, Stale, Listed,
              NoHandlesLeft, FilesOfTheLiving, WrittenFor, Live, NoneForgotten,
              Alive
<1>2. CASE Crash
  <2>1. /\ \A w \in Worker : ~Alive(w)'
        /\ \A a \in Agent : handles'[a] = None
        /\ manager'.phase = "stopped" /\ manager'.starting = None
    BY <1>2, NobodyWorks DEF Crash, Stopped, Alive
  <2>2. None \notin Agent
    BY RuntimeAssumption DEF None
  <2> QED
    BY <2>1, <2>2 DEF WorkersInv, HandlesMatch, NothingStale, NoHandlesLeft,
                      FilesOfTheLiving, Live, NoneForgotten
<1>3. CASE StartManager
  <2>1. manager \in Manager /\ "waiting" \in ManagerPhase
    BY Types DEF ManagerPhase
  <2>2. /\ \A w \in Worker : ~Alive(w)'
        /\ UNCHANGED handles /\ manager.phase = "stopped"
        /\ manager'.phase = "waiting" /\ manager'.starting = manager.starting
    BY <1>3, <2>1, NobodyWorks, GotoType DEF StartManager, Alive
  <2>3. None \notin Agent /\ manager.starting = None
    BY <2>2, RuntimeAssumption DEF None, TypeOK
  <2>4. \A a \in Agent : handles'[a] = None
    BY <2>2 DEF WorkersInv, NoHandlesLeft
  <2> QED
    BY <2>2, <2>3, <2>4
       DEF WorkersInv, HandlesMatch, NothingStale, NoHandlesLeft,
           FilesOfTheLiving, Live, NoneForgotten
<1>4. CASE UNCHANGED vars
  BY <1>4 DEF vars, WorkersInv, HandlesMatch, NothingStale, Stale, Listed,
              NoHandlesLeft, FilesOfTheLiving, WrittenFor, Live, NoneForgotten,
              Alive
<1> QED
  BY <1>1, <1>2, <1>3, <1>4, LoopStepKeeps, StartKeeps, LaunchKeeps,
     WorkerStepKeeps DEF Next, SyncStep

\* The inductive invariant holds in every reachable state.
THEOREM WorkersInvariant == Spec => []WorkersInv
<1>1. TypeOK /\ TypeOK' /\ WorkersInv /\ [Next]_vars => WorkersInv'
  BY NextInv
<1> QED
  BY <1>1, InitInv, TypeCorrect, PTL DEF Spec

\* A worker that has not been canceled is the registered worker of its agent.
THEOREM NoWorkerForgotten == Spec => []NoneForgotten
<1>1. WorkersInv => NoneForgotten
  BY DEF WorkersInv
<1> QED
  BY <1>1, WorkersInvariant, PTL

\* A worker alone on the root of its agent sees its own files only, whatever
\* earlier workers and processes left there.
THEOREM CleanRoot == Spec => []OnlyOwnFiles
<1>1. TypeOK /\ WorkersInv => OnlyOwnFiles
  <2> SUFFICES ASSUME WorkersInv, NEW a \in Agent, NEW w \in Worker, Live(a) = {w}
               PROVE  spill[a] \subseteq workers[w].written
    BY DEF OnlyOwnFiles
  <2>1. WrittenFor(a) = workers[w].written
    BY DEF WrittenFor
  <2> QED
    BY <2>1 DEF WorkersInv, FilesOfTheLiving
<1> QED
  BY <1>1, TypeCorrect, WorkersInvariant, PTL

-----------------------------------------------------------------------------
(* Workers that replace each other go forward through the versions.        *)

\* Versions can be compared.
LEMMA VersionTypes ==
  ASSUME TypeOK
  PROVE  /\ version \in Nat
         /\ \A a \in Agent : /\ rows[a] \in Row /\ rows[a].version \in Int
                             /\ manager.desired[a] \in Row
                             /\ manager.desired[a].version \in Int
         /\ \A w \in Worker : workers[w] \in WorkerState /\ workers[w].version \in Int
  BY Types, Bounds DEF Manager, Row, WorkerState

LEMMA InitVersions == TypeOK /\ Init => VersionsInv
<1> SUFFICES ASSUME Init PROVE VersionsInv
  OBVIOUS
<1>1. /\ manager.desired = [a \in Agent |-> NoRow] /\ rows = manager.desired
      /\ version = 0 /\ NoRow.version = 0 /\ manager.phase = "stopped"
  BY DEF Init, Stopped, NoRow
<1> QED
  BY <1>1 DEF VersionsInv, ListsAreOld, CanceledAreOld

\* Who is alive, for whom and for which version is as it was, and whoever is
\* canceled now and was not belongs to a row that is not listed as it was.
LEMMA SameTable ==
  ASSUME TypeOK, TypeOK', WorkersInv, VersionsInv, UNCHANGED <<rows, version>>,
         manager'.desired = manager.desired,
         manager'.phase = "awaiting"
           \/ manager.phase \notin {"awaiting", "stopped"}
           \/ manager'.phase = "stopped",
         \A w \in Worker :
           Alive(w)' =>
             /\ Alive(w) /\ workers'[w].agent = workers[w].agent
             /\ workers'[w].version = workers[w].version
             /\ \/ workers'[w].canceled = workers[w].canceled
                \/ manager'.phase = "awaiting"
                \/ ~manager.desired[workers[w].agent].runnable
                \/ workers[w].version # manager.desired[workers[w].agent].version,
         manager.phase # "stopped" \/ manager'.phase = "stopped"
  PROVE  VersionsInv'
<1>1. ListsAreOld'
  BY DEF VersionsInv, ListsAreOld
<1>2. CanceledAreOld'
  <2> SUFFICES ASSUME NEW w \in Worker, Alive(w)', manager'.phase # "stopped"
               PROVE  LET d == manager.desired[workers[w].agent] IN
                      /\ workers[w].version <= d.version
                      /\ workers'[w].canceled /\ manager'.phase # "awaiting" =>
                           ~d.runnable \/ workers[w].version < d.version
    BY DEF CanceledAreOld
  <2>1. Alive(w) /\ workers[w].agent \in Agent
    BY DEF WorkersInv, HandlesMatch
  <2>2. /\ workers[w].version \in Int
        /\ manager.desired[workers[w].agent].version \in Int
    BY <2>1, VersionTypes
  <2> QED
    BY <2>1, <2>2 DEF VersionsInv, CanceledAreOld
<1> QED
  BY <1>1, <1>2 DEF VersionsInv

\* What the loop does between two listings.
LEMMA LoopVersions ==
  ASSUME TypeOK, TypeOK', WorkersInv, VersionsInv,
         Reap \/ CancelStale \/ SyncDone \/ StartFails \/ StopManager \/ StopAll
           \/ \E a \in Agent : StartWorker(a)
  PROVE  VersionsInv'
<1>0. manager \in Manager /\ workers \in [Worker -> WorkerState]
  BY Types
<1>a. \A p \in ManagerPhase :
        /\ Goto(p).phase = p /\ Goto(p).desired = manager.desired
        /\ \A a \in Agent \cup {None} :
             /\ [Goto(p) EXCEPT !.starting = a].phase = p
             /\ [Goto(p) EXCEPT !.starting = a].desired = manager.desired
  BY <1>0, GotoType, GotoStarting
<1>b. ManagerPhase = {"waiting", "reaped", "listed", "starting", "launching",
                      "stopping", "awaiting", "stopped"}
  BY DEF ManagerPhase
<1> HIDE DEF Goto
<1>1. /\ manager'.desired = manager.desired /\ manager'.phase # "stopped"
      /\ manager.phase \notin {"awaiting", "stopped"}
      /\ UNCHANGED <<rows, version>>
  <2>1. PICK p \in {"reaped", "starting", "launching", "waiting", "stopping", "awaiting"} :
          \/ manager' = Goto(p)
          \/ \E a \in Agent \cup {None} : manager' = [Goto(p) EXCEPT !.starting = a]
    BY DEF Reap, CancelStale, SyncDone, StartFails, StopManager, StopAll, StartWorker
  <2>2. p \in ManagerPhase
    BY <1>b
  <2>3. manager'.desired = manager.desired /\ manager'.phase = p
    <3>1. CASE manager' = Goto(p)
      BY <1>a, <2>2, <3>1
    <3>2. ASSUME NEW a \in Agent \cup {None},
                 manager' = [Goto(p) EXCEPT !.starting = a]
          PROVE  manager'.desired = manager.desired /\ manager'.phase = p
      <4>1. /\ [Goto(p) EXCEPT !.starting = a].phase = p
            /\ [Goto(p) EXCEPT !.starting = a].desired = manager.desired
        BY <1>0, <2>2, GotoStarting
      <4> QED
        BY <3>2, <4>1, Zenon
    <3> QED
      BY <2>1, <3>1, <3>2
  <2>4. /\ manager.phase \in {"waiting", "reaped", "listed", "starting", "launching",
                              "stopping"}
        /\ UNCHANGED <<rows, version>>
    BY DEF Reap, CancelStale, SyncDone, StartFails, StopManager, StopAll, StartWorker
  <2> QED
    BY <2>3, <2>4
<1>2. CASE UNCHANGED workers
  BY <1>1, <1>2, SameTable DEF Alive
<1>3. CASE CancelStale
  <2>1. ASSUME NEW w \in Worker, workers'[w].canceled # workers[w].canceled
        PROVE  \/ ~manager.desired[workers[w].agent].runnable
               \/ workers[w].version # manager.desired[workers[w].agent].version
    <3>1. workers[w].canceled \in BOOLEAN
      BY <1>0 DEF WorkerState
    <3>2. w \in {handles[a] : a \in Stale}
      BY <1>0, <1>3, <2>1, <3>1, CancelTypes DEF CancelStale
    <3>3. PICK a \in Stale : w = handles[a]
      BY <3>2
    <3>4. a \in Agent /\ workers[w].agent = a
      BY <3>3 DEF Stale, WorkersInv, HandlesMatch
    <3> QED
      BY <3>3, <3>4 DEF Stale, Listed
  <2>2. \A w \in Worker : /\ workers'[w].phase = workers[w].phase
                          /\ workers'[w].agent = workers[w].agent
                          /\ workers'[w].version = workers[w].version
    BY <1>0, <1>3, CancelTypes DEF CancelStale
  <2> QED
    BY <1>1, <2>1, <2>2, SameTable DEF Alive
<1>4. CASE StopAll
  <2>1. \A w \in Worker : /\ workers'[w].phase = workers[w].phase
                          /\ workers'[w].agent = workers[w].agent
                          /\ workers'[w].version = workers[w].version
    BY <1>0, <1>4, CancelTypes DEF StopAll
  <2>2. manager'.phase = "awaiting"
    BY <1>4, <1>a, <1>b DEF StopAll
  <2> QED
    BY <1>1, <2>1, <2>2, SameTable DEF Alive
<1> QED
  BY <1>2, <1>3, <1>4
     DEF Reap, CancelStale, SyncDone, StartFails, StopManager, StopAll, StartWorker

\* The table changes, or is listed: versions only grow.
LEMMA TableVersions ==
  ASSUME TypeOK, TypeOK', WorkersInv, VersionsInv,
         List \/ \E a \in Agent, r, g \in BOOLEAN : ChangeRow(a, r, g)
  PROVE  VersionsInv'
<1>0. /\ manager \in Manager /\ rows \in [Agent -> Row]
  BY Types
<1>1. CASE List
  <2>1. /\ manager'.desired = rows /\ manager'.phase = "listed"
        /\ manager.phase = "reaped" /\ UNCHANGED <<rows, version, workers>>
    <3>1. Goto("listed") \in Manager /\ Goto("listed").phase = "listed"
      BY <1>0, GotoType DEF ManagerPhase
    <3> HIDE DEF Goto
    <3> QED
      BY <1>0, <1>1, <3>1 DEF List, Manager
  <2>2. ListsAreOld'
    BY <2>1, VersionTypes DEF VersionsInv, ListsAreOld
  <2>3. CanceledAreOld'
    <3> SUFFICES ASSUME NEW w \in Worker, Alive(w)
                 PROVE  LET d == rows[workers[w].agent] IN
                        /\ workers[w].version <= d.version
                        /\ workers[w].canceled =>
                             ~d.runnable \/ workers[w].version < d.version
      BY <2>1 DEF CanceledAreOld, Alive
    <3> DEFINE a == workers[w].agent
    <3>1. a \in Agent
      BY DEF WorkersInv, HandlesMatch
    <3>2. /\ workers[w].version <= manager.desired[a].version
          /\ workers[w].canceled => \/ ~manager.desired[a].runnable
                                    \/ workers[w].version < manager.desired[a].version
      BY <2>1 DEF VersionsInv, CanceledAreOld
    <3>3. /\ manager.desired[a].version <= rows[a].version
          /\ manager.desired[a].version = rows[a].version =>
               manager.desired[a] = rows[a]
      BY <3>1 DEF VersionsInv, ListsAreOld
    <3>4. /\ workers[w].version \in Int /\ manager.desired[a].version \in Int
          /\ rows[a].version \in Int
      BY <3>1, VersionTypes
    <3> HIDE DEF a
    <3>5. CASE manager.desired[a].version = rows[a].version
      BY <3>2, <3>3, <3>5 DEF a
    <3>6. CASE manager.desired[a].version < rows[a].version
      BY <3>2, <3>4, <3>6 DEF a
    <3> QED
      BY <3>3, <3>4, <3>5, <3>6
  <2> QED
    BY <2>2, <2>3 DEF VersionsInv
<1>2. ASSUME NEW b \in Agent, NEW r \in BOOLEAN, NEW g \in BOOLEAN, ChangeRow(b, r, g)
      PROVE  VersionsInv'
  <2>1. /\ version' = version + 1 /\ UNCHANGED <<manager, workers>>
        /\ rows'[b].version = version + 1
        /\ \A a \in Agent : a # b => rows'[a] = rows[a]
    BY <1>0, <1>2 DEF ChangeRow
  <2>2. ListsAreOld'
    <3> SUFFICES ASSUME NEW a \in Agent
                 PROVE  /\ rows'[a].version = 0 => rows'[a] = NoRow
                        /\ manager.desired[a].version <= rows'[a].version
                        /\ rows'[a].version <= version'
                        /\ manager.desired[a].version = rows'[a].version =>
                             manager.desired[a] = rows'[a]
      BY <2>1 DEF ListsAreOld
    <3>1. /\ rows[a].version = 0 => rows[a] = NoRow
          /\ manager.desired[a].version <= rows[a].version
          /\ rows[a].version <= version
          /\ manager.desired[a].version = rows[a].version =>
               manager.desired[a] = rows[a]
      BY DEF VersionsInv, ListsAreOld
    <3>2. /\ manager.desired[a].version \in Int /\ rows[a].version \in Int
          /\ version \in Nat
      BY VersionTypes
    <3>3. CASE a = b
      BY <2>1, <3>1, <3>2, <3>3
    <3>4. CASE a # b
      BY <2>1, <3>1, <3>2, <3>4
    <3> QED
      BY <3>3, <3>4
  <2>3. CanceledAreOld'
    BY <2>1 DEF VersionsInv, CanceledAreOld, Alive
  <2> QED
    BY <2>2, <2>3 DEF VersionsInv
<1> QED
  BY <1>1, <1>2

\* The worker that is started is for the listed version, and all others that
\* its agent still has were canceled for an earlier one.
LEMMA LaunchAfter ==
  ASSUME TypeOK, TypeOK', WorkersInv, VersionsInv, NEW w \in Worker, Launch(w)
  PROVE  /\ VersionsInv'
         /\ \A u \in Live(workers'[w].agent) :
              workers[u].canceled /\ workers[u].version < workers'[w].version
         /\ \A u \in Worker : u # w => workers'[u] = workers[u]
<1> DEFINE a == manager.starting
           v == manager.desired[a].version
<1>1. /\ manager \in Manager /\ workers \in [Worker -> WorkerState]
      /\ "starting" \in ManagerPhase
  BY Types DEF ManagerPhase
<1>2. /\ manager.phase = "launching" /\ ~Alive(w)
      /\ workers' = [workers EXCEPT ![w] = Serving(a, v)]
      /\ UNCHANGED <<rows, version>>
  BY DEF Launch, Free
<1>3. a \in Agent /\ v \in 0..MaxVersion
  <2>1. a \in Agent
    BY <1>1, <1>2 DEF TypeOK, Manager
  <2> QED
    BY <1>1, <2>1 DEF Manager, Row
<1>4. manager'.phase = "starting" /\ manager'.desired = manager.desired
  BY <1>1, GotoStarting DEF Launch
<1>5. /\ workers'[w].agent = a /\ workers'[w].version = v /\ ~workers'[w].canceled
      /\ \A x \in Worker : x # w => workers'[x] = workers[x]
  BY <1>1, <1>2, <1>3, ServingState
<1>6. ListsAreOld'
  BY <1>2, <1>4 DEF VersionsInv, ListsAreOld
<1>7. CanceledAreOld'
  <2> SUFFICES ASSUME NEW x \in Worker, Alive(x)'
               PROVE  LET d == manager.desired[workers'[x].agent] IN
                      /\ workers'[x].version <= d.version
                      /\ workers'[x].canceled =>
                           ~d.runnable \/ workers'[x].version < d.version
    BY <1>4 DEF CanceledAreOld
  <2>1. CASE x = w
    <3>1. v \in Int
      BY <1>3, VersionTypes
    <3> QED
      BY <1>5, <2>1, <3>1
  <2>2. CASE x # w
    BY <1>2, <1>5, <2>2 DEF VersionsInv, CanceledAreOld, Alive
  <2> QED
    BY <2>1, <2>2
<1>8. ASSUME NEW u \in Live(a)
      PROVE  workers[u].canceled /\ workers[u].version < v
  <2>1. /\ u \in Worker /\ Alive(u) /\ workers[u].agent = a
    BY DEF Live
  <2>2. Listed(a) /\ handles[a] = None
    BY <1>2 DEF WorkersInv, NothingStale
  <2>3. workers[u].canceled
    <3>1. u # None
      BY <2>1, RuntimeAssumption DEF None
    <3> QED
      BY <2>1, <2>2, <3>1 DEF WorkersInv, NoneForgotten
  <2> QED
    BY <1>2, <2>1, <2>2, <2>3 DEF VersionsInv, CanceledAreOld, Listed
<1> QED
  BY <1>5, <1>6, <1>7, <1>8 DEF VersionsInv

LEMMA WorkerVersions ==
  ASSUME TypeOK, TypeOK', WorkersInv, VersionsInv, NEW w \in Worker,
         WorkerStep(w) \/ ReturnFailed(w)
  PROVE  /\ VersionsInv' /\ Alive(w)
         /\ \A u \in Worker : u # w => workers'[u] = workers[u]
<1>1. workers[w] \in WorkerState
  BY Types
<1>2. /\ Alive(w) /\ UNCHANGED <<rows, version, manager>>
      /\ \E x \in WorkerState :
           /\ workers' = [workers EXCEPT ![w] = x]
           /\ x.agent = workers[w].agent /\ x.version = workers[w].version
           /\ x.canceled = workers[w].canceled
  <2>1. 0 \in 0..MaxRuns
    BY Bounds
  <2>2. CASE BeginRun(w)
    <3>1. runs + 1 \in 0..MaxRuns
      BY <2>2, Types, Bounds DEF BeginRun
    <3>2. /\ Moved(workers[w], "running", runs + 1) \in WorkerState
          /\ Moved(workers[w], "running", runs + 1).agent = workers[w].agent
          /\ Moved(workers[w], "running", runs + 1).version = workers[w].version
          /\ Moved(workers[w], "running", runs + 1).canceled = workers[w].canceled
      BY <1>1, <3>1, MovedState
    <3> QED
      BY <2>2, <3>2 DEF BeginRun, Alive, SetWorker
  <2>3. CASE WriteSpill(w)
    <3>1. workers[w].run # 0
      BY <2>3 DEF WriteSpill, TypeOK
    <3>2. /\ Wrote(workers[w]) \in WorkerState
          /\ Wrote(workers[w]).agent = workers[w].agent
          /\ Wrote(workers[w]).version = workers[w].version
          /\ Wrote(workers[w]).canceled = workers[w].canceled
      BY <1>1, <3>1, WroteState
    <3> QED
      BY <2>3, <3>2 DEF WriteSpill, Alive, SetWorker
  <2>4. CASE EndRun(w) \/ ReturnCanceled(w) \/ ReturnFailed(w)
    <3>1. \A p \in {"serving", "running", "closing"} :
            /\ Moved(workers[w], p, 0) \in WorkerState
            /\ Moved(workers[w], p, 0).agent = workers[w].agent
            /\ Moved(workers[w], p, 0).version = workers[w].version
            /\ Moved(workers[w], p, 0).canceled = workers[w].canceled
      <4>1. ASSUME NEW p \in {"serving", "running", "closing"}
            PROVE  /\ Moved(workers[w], p, 0) \in WorkerState
                   /\ Moved(workers[w], p, 0).agent = workers[w].agent
                   /\ Moved(workers[w], p, 0).version = workers[w].version
                   /\ Moved(workers[w], p, 0).canceled = workers[w].canceled
        BY <1>1, <2>1, MovedState
      <4> QED
        BY <4>1
    <3> QED
      BY <2>4, <3>1 DEF EndRun, ReturnCanceled, ReturnFailed, Alive, SetWorker
  <2>5. CASE Close(w)
    BY <1>1, <2>5, ClosedState DEF Close, Alive, SetWorker
  <2> QED
    BY <2>2, <2>3, <2>4, <2>5 DEF WorkerStep
<1>3. /\ \A u \in Worker : u # w => workers'[u] = workers[u]
      /\ \A u \in Worker : /\ workers'[u].agent = workers[u].agent
                           /\ workers'[u].version = workers[u].version
                           /\ workers'[u].canceled = workers[u].canceled
  BY <1>2, Types
<1>4. \A u \in Worker : Alive(u)' => Alive(u)
  BY <1>2, <1>3 DEF Alive
<1>5. VersionsInv'
  BY <1>2, <1>3, <1>4 DEF VersionsInv, ListsAreOld, CanceledAreOld
<1> QED
  BY <1>2, <1>3, <1>5

\* Nobody who was not alive serves after the step but the worker it started.
StartsAfterOlder ==
  \A w \in Worker :
    ~Alive(w) /\ workers'[w].phase = "serving" =>
      \A u \in Live(workers'[w].agent) :
        workers[u].canceled /\ workers[u].version < workers'[w].version

LEMMA NextVersions ==
  ASSUME TypeOK, TypeOK', WorkersInv, VersionsInv, [Next]_vars
  PROVE  VersionsInv' /\ StartsAfterOlder
<1>0. workers \in [Worker -> WorkerState]
  BY Types
<1>1. CASE Reap \/ CancelStale \/ SyncDone \/ StartFails \/ StopManager \/ StopAll
             \/ \E a \in Agent : StartWorker(a)
  <2>1. VersionsInv'
    BY <1>1, LoopVersions
  <2>2. \A w \in Worker : workers'[w].phase = workers[w].phase
    BY <1>0, <1>1, CancelTypes
       DEF Reap, CancelStale, SyncDone, StartFails, StopManager, StopAll, StartWorker
  <2> QED
    BY <2>1, <2>2 DEF StartsAfterOlder, Alive
<1>2. CASE List \/ \E a \in Agent, r, g \in BOOLEAN : ChangeRow(a, r, g)
  <2>1. VersionsInv'
    BY <1>2, TableVersions
  <2>2. UNCHANGED workers
    BY <1>2 DEF List, ChangeRow
  <2> QED
    BY <2>1, <2>2 DEF StartsAfterOlder, Alive
<1>3. ASSUME NEW w \in Worker, Launch(w) PROVE VersionsInv' /\ StartsAfterOlder
  BY <1>3, LaunchAfter DEF StartsAfterOlder, Alive
<1>4. ASSUME NEW w \in Worker, WorkerStep(w) \/ ReturnFailed(w)
      PROVE  VersionsInv' /\ StartsAfterOlder
  BY <1>4, WorkerVersions DEF StartsAfterOlder, Alive
<1>5. CASE AllDone \/ Crash
  <2>1. /\ manager' = Stopped /\ manager'.phase = "stopped"
        /\ manager'.desired = [a \in Agent |-> NoRow]
        /\ UNCHANGED <<rows, version>>
    BY <1>5 DEF AllDone, Crash, Stopped
  <2>2. ListsAreOld'
    <3>1. \A a \in Agent : 0 <= rows[a].version
      BY Types DEF Row
    <3> QED
      BY <2>1, <3>1 DEF VersionsInv, ListsAreOld, NoRow
  <2>3. CanceledAreOld'
    BY <2>1 DEF CanceledAreOld
  <2>4. StartsAfterOlder
    BY <1>5, NobodyWorks DEF StartsAfterOlder, AllDone, Crash, Alive
  <2> QED
    BY <2>2, <2>3, <2>4 DEF VersionsInv
<1>6. CASE StartManager
  <2>1. /\ manager'.desired = manager.desired /\ UNCHANGED <<rows, version>>
    BY <1>6, Types, GotoType DEF StartManager, ManagerPhase
  <2>2. \A w \in Worker : workers'[w].phase = "ended"
    BY <1>6, NobodyWorks DEF StartManager
  <2> QED
    BY <2>1, <2>2
       DEF VersionsInv, ListsAreOld, CanceledAreOld, StartsAfterOlder, Alive
<1>7. CASE UNCHANGED vars
  BY <1>7 DEF vars, VersionsInv, ListsAreOld, CanceledAreOld, StartsAfterOlder, Alive
<1> QED
  BY <1>1, <1>2, <1>3, <1>4, <1>5, <1>6, <1>7 DEF Next, SyncStep

\* What is listed is of the past, and canceled workers are of older versions.
THEOREM VersionsInvariant == Spec => []VersionsInv
<1>1. TypeOK /\ TypeOK' /\ WorkersInv /\ VersionsInv /\ [Next]_vars => VersionsInv'
  BY NextVersions
<1> QED
  BY <1>1, InitVersions, TypeCorrect, WorkersInvariant, PTL DEF Spec

\* A worker is started beside canceled workers of earlier versions only, so
\* that of one agent at most one takes triggers and none for an older row.
THEOREM OneWorkerServes == Spec => OneServes
<1>1. TypeOK /\ TypeOK' /\ WorkersInv /\ VersionsInv /\ [Next]_vars
        => [StartsAfterOlder]_vars
  BY NextVersions
<1>2. [StartsAfterOlder]_vars =>
        [\A w \in Worker :
           ~Alive(w) /\ workers'[w].phase = "serving" =>
             \A u \in Live(workers'[w].agent) :
               workers[u].canceled /\ workers[u].version < workers'[w].version]_vars
  BY DEF StartsAfterOlder
<1> QED
  BY <1>1, <1>2, TypeCorrect, WorkersInvariant, VersionsInvariant, NoWorkerForgotten,
     PTL DEF Spec, OneServes, ReplacesOlder
=============================================================================
