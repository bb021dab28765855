-------------------------- MODULE SchedulerProofs --------------------------
(***************************************************************************)
(* Proofs about Scheduler, for every set of agents, schedules, processes   *)
(* and expressions, every batch size and every bound.                      *)
(***************************************************************************)
EXTENDS Scheduler, TLAPS, FiniteSetTheorems

\* The bounds are natural numbers.
LEMMA Bounds ==
  MaxTime \in Nat /\ MaxChanges \in Nat /\ MaxFaults \in Nat /\ BatchSize \in Nat
  BY SchedulerAssumption

\* The next match of an expression that has one is later.
LEMMA NextMatchIsLater ==
  ASSUME NEW c \in Nat, c # 0, NEW t \in Nat
  PROVE  CronNext(c, t) \in Nat /\ t < CronNext(c, t)
<1> DEFINE q == t \div c
<1>1. q \in Nat /\ t = c * q + (t % c) /\ t % c \in 0..(c - 1)
  OBVIOUS
<1>2. CronNext(c, t) = c * q + c
  BY <1>1 DEF CronNext
<1>3. c * q \in Nat
  BY <1>1
<1> HIDE DEF q
<1> QED
  BY <1>1, <1>2, <1>3

LEMMA CronNextType ==
  ASSUME NEW c \in Nat, NEW t \in Nat
  PROVE  /\ CronNext(c, t) \in Nat \cup {Never}
         /\ CronNext(c, t) = Never <=> c = 0
<1>1. CASE c = 0
  BY <1>1 DEF CronNext, Never
<1>2. CASE c # 0
  BY <1>2, NextMatchIsLater DEF Never
<1> QED
  BY <1>1, <1>2
-----------------------------------------------------------------------------
(* Rows and copies.                                                        *)

\* What the operations write into a row.
LEMMA NewScheduleRow ==
  ASSUME clock \in Nat, NEW a \in Agent, NEW c \in Cron, NEW e \in BOOLEAN
  PROVE  /\ NewSchedule(a, c, e) \in ScheduleRow
         /\ NewSchedule(a, c, e).agent = a
         /\ NewSchedule(a, c, e).cron = c
         /\ NewSchedule(a, c, e).enabled = e
         /\ NewSchedule(a, c, e).nextFire =
              IF e THEN CronNext(c, clock) ELSE Null
<1> DEFINE n == IF e THEN CronNext(c, clock) ELSE Null
<1>1. c \in Nat /\ n \in Nat \cup {Never} /\ Null \in Nat
  BY CronNextType, SchedulerAssumption DEF Null
<1> HIDE DEF n
<1>2. NewSchedule(a, c, e) =
        [agent |-> a, cron |-> c, enabled |-> e, nextFire |-> n,
         lastFire |-> Null, createdAt |-> clock, updatedAt |-> clock]
  BY DEF NewSchedule, n
<1>3. NewSchedule(a, c, e) \in ScheduleRow
  BY <1>1, <1>2 DEF ScheduleRow
<1> QED
  BY <1>3 DEF NewSchedule

LEMMA DisabledRow ==
  ASSUME clock \in Nat, NEW row \in ScheduleRow
  PROVE  Disabled(row) \in ScheduleRow /\ ~Disabled(row).enabled
<1> DEFINE half == [row EXCEPT !.enabled = FALSE, !.nextFire = Null]
<1>1. half \in ScheduleRow /\ ~half.enabled
  BY DEF ScheduleRow, Null
<1>2. Disabled(row) = [half EXCEPT !.updatedAt = clock]
  BY DEF Disabled
<1> HIDE DEF half
<1> QED
  BY <1>1, <1>2 DEF ScheduleRow

LEMMA MovedOnRow ==
  ASSUME NEW row \in ScheduleRow, NEW read \in ScheduleRow,
         read.cron # 0, NEW now \in Nat
  PROVE  /\ MovedOn(row, read, now) \in ScheduleRow
         /\ MovedOn(row, read, now).agent = row.agent
         /\ MovedOn(row, read, now).cron = row.cron
         /\ MovedOn(row, read, now).enabled = row.enabled
         /\ MovedOn(row, read, now).nextFire \in Nat
         /\ now < MovedOn(row, read, now).nextFire
<1> DEFINE n == FirstMatchAfter(read.cron, now)
           half == [row EXCEPT !.lastFire = read.nextFire, !.nextFire = n]
<1>1. n \in Nat /\ now < n
  <2>1. read.cron \in Nat
    BY SchedulerAssumption DEF ScheduleRow
  <2> QED
    BY <2>1, NextMatchIsLater DEF FirstMatchAfter
<1> HIDE DEF n
<1>2. /\ half \in ScheduleRow /\ half.agent = row.agent
      /\ half.cron = row.cron /\ half.enabled = row.enabled
      /\ half.nextFire = n
  BY <1>1 DEF ScheduleRow
<1>3. MovedOn(row, read, now) = [half EXCEPT !.updatedAt = now]
  BY DEF MovedOn, n
<1> HIDE DEF half
<1> QED
  BY <1>1, <1>2, <1>3 DEF ScheduleRow

LEMMA EmptyRows ==
  /\ NoSchedule \in ScheduleRow /\ ~NoSchedule.enabled
  /\ Idle \in SchedulerState /\ Idle.batch = {} /\ Idle.now = 0
  /\ [Idle EXCEPT !.phase = "stopped"] \in SchedulerState
  /\ [Idle EXCEPT !.phase = "stopped"].batch = {}
  /\ [Idle EXCEPT !.phase = "stopped"].now = 0
<1>1. 0 \in Nat
  OBVIOUS
<1> QED
  BY <1>1 DEF NoSchedule, ScheduleRow, Idle, SchedulerState, Null

\* A batch that was read respects the limit.
LEMMA CopiesBounded ==
  ASSUME schedules \in [Schedule -> ScheduleRow], NEW B \in Batches(clock)
  PROVE  /\ Copies(B) \subseteq Snapshot
         /\ IsFiniteSet(Copies(B))
         /\ Cardinality(Copies(B)) <= BatchSize
<1> DEFINE f == [s \in B |-> [id |-> s, row |-> schedules[s]]]
<1>1. B \subseteq Schedule /\ IsFiniteSet(B) /\ Cardinality(B) <= BatchSize
  <2>1. B \in SUBSET Schedule /\ Cardinality(B) <= BatchSize
    BY DEF Batches, Due
  <2> QED
    BY <2>1, FS_Subset, SchedulerAssumption
<1>2. f \in Surjection(B, Copies(B))
  BY DEF Surjection, Copies
<1>3. IsFiniteSet(Copies(B)) /\ Cardinality(Copies(B)) <= Cardinality(B)
  BY <1>1, <1>2, FS_Surjection
<1>4. Cardinality(B) \in Nat /\ Cardinality(Copies(B)) \in Nat
  BY <1>1, <1>3, FS_CardinalityType
<1>5. Copies(B) \subseteq Snapshot
  BY <1>1 DEF Copies, Snapshot
<1> QED
  BY <1>1, <1>3, <1>4, <1>5, Bounds

\* What is left of a batch respects the limit too.
LEMMA DropBounded ==
  ASSUME TypeOK, NEW p \in Process, NEW d \in scheduler[p].batch
  PROVE  /\ Drop(p, d) \in SchedulerState
         /\ IsFiniteSet(Drop(p, d).batch)
         /\ Cardinality(Drop(p, d).batch) <= BatchSize
         /\ Drop(p, d).batch \subseteq scheduler[p].batch
         /\ Drop(p, d).now \in {0, scheduler[p].now}
         /\ Drop(p, d).batch # {} => Drop(p, d).now = scheduler[p].now
<1> DEFINE B == scheduler[p].batch
<1>1. IsFiniteSet(B) /\ Cardinality(B) <= BatchSize /\ Cardinality(B) \in Nat
  BY FS_CardinalityType DEF TypeOK
<1>2. CASE B = {d}
  <2>1. Drop(p, d) = Idle
    BY <1>2 DEF Drop
  <2> QED
    BY <2>1, FS_EmptySet, EmptyRows, Bounds
<1>3. CASE B # {d}
  <2>1. scheduler[p] \in SchedulerState
    BY DEF TypeOK
  <2>2. Drop(p, d) = [scheduler[p] EXCEPT !.batch = B \ {d}]
    BY <1>3 DEF Drop
  <2>3. IsFiniteSet(B \ {d}) /\ Cardinality(B \ {d}) = Cardinality(B) - 1
    BY <1>1, FS_RemoveElement
  <2>4. Drop(p, d) \in SchedulerState /\ Drop(p, d).batch = B \ {d}
        /\ Drop(p, d).now = scheduler[p].now
    BY <2>1, <2>2 DEF SchedulerState
  <2> QED
    BY <1>1, <2>3, <2>4, Bounds
<1> QED
  BY <1>2, <1>3

-----------------------------------------------------------------------------
(* Type correctness.                                                       *)

LEMMA InitTypes == Init => TypeOK
<1> SUFFICES ASSUME Init PROVE TypeOK
  OBVIOUS
<1>1. schedules \in [Schedule -> ScheduleRow]
  BY EmptyRows DEF Init
<1>2. fired \in Seq(FiredMessage)
  BY DEF Init
<1>3. /\ scheduler \in [Process -> SchedulerState]
      /\ \A p \in Process : /\ IsFiniteSet(scheduler[p].batch)
                           /\ Cardinality(scheduler[p].batch) <= BatchSize
  <2>1. \A p \in Process : scheduler[p] = Idle
    BY DEF Init
  <2>2. IsFiniteSet(Idle.batch) /\ Cardinality(Idle.batch) <= BatchSize
    BY EmptyRows, FS_EmptySet, Bounds
  <2>3. scheduler \in [Process -> SchedulerState]
    BY EmptyRows DEF Init
  <2> QED
    BY <2>1, <2>2, <2>3
<1> QED
  BY <1>1, <1>2, <1>3, Bounds DEF Init, TypeOK

\* A change of one scheduler that keeps its types keeps all of theirs.
LEMMA SchedulerTypes ==
  ASSUME TypeOK, NEW p \in Process, NEW x \in SchedulerState,
         IsFiniteSet(x.batch), Cardinality(x.batch) <= BatchSize,
         scheduler' = [scheduler EXCEPT ![p] = x]
  PROVE  /\ scheduler' \in [Process -> SchedulerState]
         /\ \A q \in Process : /\ IsFiniteSet(scheduler'[q].batch)
                              /\ Cardinality(scheduler'[q].batch) <= BatchSize
<1>1. \A q \in Process : scheduler'[q] = IF q = p THEN x ELSE scheduler[q]
  BY DEF TypeOK
<1> QED
  BY <1>1 DEF TypeOK

\* A row that is deleted with its agent.
LEMMA WithoutAgentRows ==
  ASSUME schedules \in [Schedule -> ScheduleRow], NEW a \in Agent
  PROVE  /\ WithoutAgent(a) \in [Schedule -> ScheduleRow]
         /\ \A s \in Schedule : \/ WithoutAgent(a)[s] = schedules[s]
                                \/ ~WithoutAgent(a)[s].enabled
  BY EmptyRows DEF WithoutAgent

\* The message a firing enqueues.
LEMMA FiredType ==
  ASSUME NEW d \in Snapshot, NEW now \in Nat, d.row.agent \in Agent,
         d.row.cron \in Cron
  PROVE  Fired(d, now) \in FiredMessage
<1>1. d.id \in Schedule /\ d.row.nextFire \in Nat \cup {Never}
  BY DEF Snapshot, ScheduleRow
<1> QED
  BY <1>1 DEF Fired, FiredMessage, ScheduledMaxAttempts

LEMMA NextTypes == TypeOK /\ [Next]_vars => TypeOK'
<1> SUFFICES ASSUME TypeOK, [Next]_vars PROVE TypeOK'
  OBVIOUS
<1>0. /\ clock \in Nat /\ agents \subseteq Agent
      /\ schedules \in [Schedule -> ScheduleRow]
      /\ fired \in Seq(FiredMessage)
      /\ changes \in 0..MaxChanges /\ faults \in 0..MaxFaults
  BY DEF TypeOK
<1>1. ASSUME NEW s \in Schedule, NEW a \in Agent, NEW c \in Cron,
             NEW e \in BOOLEAN, CreateSchedule(s, a, c, e)
      PROVE  TypeOK'
  <2>1. schedules' \in [Schedule -> ScheduleRow]
    BY <1>0, <1>1, NewScheduleRow DEF CreateSchedule
  <2> QED
    BY <1>0, <1>1, <2>1, Bounds DEF CreateSchedule, CountChange, TypeOK
<1>2. ASSUME NEW s \in Schedule, DisableSchedule(s) PROVE TypeOK'
  <2>1. schedules' \in [Schedule -> ScheduleRow]
    BY <1>0, <1>2, DisabledRow DEF DisableSchedule
  <2> QED
    BY <1>0, <1>2, <2>1, Bounds DEF DisableSchedule, CountChange, TypeOK
<1>3. ASSUME NEW a \in Agent, DeleteSchedulesByAgent(a) PROVE TypeOK'
  <2>1. schedules' \in [Schedule -> ScheduleRow]
    BY <1>0, <1>3, WithoutAgentRows DEF DeleteSchedulesByAgent
  <2> QED
    BY <1>0, <1>3, <2>1, Bounds DEF DeleteSchedulesByAgent, CountChange, TypeOK
<1>4. ASSUME NEW a \in Agent, DeleteAgent(a) PROVE TypeOK'
  <2>1. schedules' \in [Schedule -> ScheduleRow]
    BY <1>0, <1>4, WithoutAgentRows DEF DeleteAgent
  <2> QED
    BY <1>0, <1>4, <2>1, Bounds DEF DeleteAgent, CountChange, TypeOK
<1>5. ASSUME NEW p \in Process, ReadDue(p) PROVE TypeOK'
  <2>1. PICK B \in Batches(clock) :
          scheduler' = [scheduler EXCEPT ![p] =
            [phase |-> "firing", now |-> clock, batch |-> Copies(B)]]
    BY <1>5 DEF ReadDue
  <2> DEFINE x == [phase |-> "firing", now |-> clock, batch |-> Copies(B)]
  <2>2. x \in SchedulerState /\ IsFiniteSet(x.batch)
        /\ Cardinality(x.batch) <= BatchSize
    BY <1>0, CopiesBounded DEF SchedulerState
  <2> HIDE DEF x
  <2>3. /\ scheduler' \in [Process -> SchedulerState]
        /\ \A q \in Process : /\ IsFiniteSet(scheduler'[q].batch)
                             /\ Cardinality(scheduler'[q].batch) <= BatchSize
    BY <2>1, <2>2, SchedulerTypes DEF x
  <2> QED
    BY <1>0, <1>5, <2>3 DEF ReadDue, TypeOK
<1>6. ASSUME NEW p \in Process, NEW d \in scheduler[p].batch, FireSchedule(p, d)
      PROVE  TypeOK'
  <2>1. d \in Snapshot /\ scheduler[p].now \in Nat
    BY <1>6 DEF TypeOK, SchedulerState
  <2>2. d.id \in Schedule /\ d.row \in ScheduleRow /\ d.row.cron # 0
        /\ d.row.agent \in Agent /\ d.row.cron \in Cron
    BY <1>0, <1>6, <2>1 DEF Snapshot, ScheduleRow, FireSchedule
  <2>3. schedules' \in [Schedule -> ScheduleRow]
    BY <1>0, <1>6, <2>1, <2>2, MovedOnRow DEF FireSchedule
  <2>4. fired' \in Seq(FiredMessage)
    BY <1>0, <1>6, <2>1, <2>2, FiredType DEF FireSchedule
  <2>5. /\ scheduler' \in [Process -> SchedulerState]
        /\ \A q \in Process : /\ IsFiniteSet(scheduler'[q].batch)
                             /\ Cardinality(scheduler'[q].batch) <= BatchSize
    BY <1>6, DropBounded, SchedulerTypes DEF FireSchedule
  <2> QED
    BY <1>0, <1>6, <2>3, <2>4, <2>5 DEF FireSchedule, TypeOK
<1>7. ASSUME NEW p \in Process, NEW d \in scheduler[p].batch, SkipSchedule(p, d)
      PROVE  TypeOK'
  <2>1. /\ scheduler' \in [Process -> SchedulerState]
        /\ \A q \in Process : /\ IsFiniteSet(scheduler'[q].batch)
                             /\ Cardinality(scheduler'[q].batch) <= BatchSize
    BY <1>7, DropBounded, SchedulerTypes DEF SkipSchedule
  <2> QED
    BY <1>0, <1>7, <2>1 DEF SkipSchedule, TypeOK
<1>8. ASSUME NEW p \in Process, NEW d \in scheduler[p].batch, LoopForever(p, d)
      PROVE  TypeOK'
  <2> DEFINE x == [scheduler[p] EXCEPT !.phase = "looping"]
  <2>1. x \in SchedulerState /\ x.batch = scheduler[p].batch
    BY DEF TypeOK, SchedulerState
  <2>2. scheduler' = [scheduler EXCEPT ![p] = x]
    BY <1>8 DEF LoopForever
  <2> HIDE DEF x
  <2>3. /\ scheduler' \in [Process -> SchedulerState]
        /\ \A q \in Process : /\ IsFiniteSet(scheduler'[q].batch)
                             /\ Cardinality(scheduler'[q].batch) <= BatchSize
    BY <2>1, <2>2, SchedulerTypes DEF TypeOK
  <2> QED
    BY <1>0, <1>8, <2>3 DEF LoopForever, TypeOK
<1>9. ASSUME NEW p \in Process, StopScheduler(p) \/ StartScheduler(p)
      PROVE  TypeOK'
  <2>1. \E x \in SchedulerState :
          x.batch = {} /\ scheduler' = [scheduler EXCEPT ![p] = x]
    BY <1>9, EmptyRows DEF StopScheduler, StartScheduler
  <2>2. IsFiniteSet({}) /\ Cardinality({}) <= BatchSize
    BY FS_EmptySet, Bounds
  <2>3. /\ scheduler' \in [Process -> SchedulerState]
        /\ \A q \in Process : /\ IsFiniteSet(scheduler'[q].batch)
                             /\ Cardinality(scheduler'[q].batch) <= BatchSize
    BY <2>1, <2>2, SchedulerTypes
  <2> QED
    BY <1>0, <1>9, <2>3, Bounds DEF StopScheduler, StartScheduler, TypeOK
<1>10. CASE Tick
  BY <1>10 DEF Tick, TypeOK
<1>11. CASE UNCHANGED vars
  BY <1>11 DEF vars, TypeOK
<1> QED
  BY <1>1, <1>2, <1>3, <1>4, <1>5, <1>6, <1>7, <1>8, <1>9, <1>10, <1>11
     DEF Next, FireNext

\* The tables and the schedulers have their types in every reachable state,
\* and no scheduler holds more rows than its limit.
THEOREM TypeCorrect == Spec => []TypeOK
  BY InitTypes, NextTypes, PTL DEF Spec

-----------------------------------------------------------------------------
(* The inductive invariant.                                                *)

\* Steps that fire nothing keep FiredOnce, and FiringInv if they keep its parts.
LEMMA NothingFired ==
  ASSUME FiringInv, fired' = fired, PastIsPast', WaitsAhead', CopiedWhenDue',
         CopyOrLater'
  PROVE  FiringInv'
  BY DEF FiringInv, FiredOnce

LEMMA FiredRows ==
  ASSUME TypeOK
  PROVE  \A i \in DOMAIN fired :
           fired[i] \in FiredMessage /\ fired[i].firedAt \in Nat
<1>1. \A i \in DOMAIN fired : fired[i] \in FiredMessage
  BY DEF TypeOK
<1> QED
  BY <1>1 DEF FiredMessage

\* A step that writes rows for ids of which every enabled one gets a due time
\* in the future keeps the invariant.
LEMMA RowsWritten ==
  ASSUME TypeOK, FiringInv, schedules' \in [Schedule -> ScheduleRow],
         UNCHANGED <<clock, fired, scheduler>>,
         \A s \in Schedule :
           \/ schedules'[s] = schedules[s]
           \/ ~schedules'[s].enabled
           \/ DueTimeOfRow(schedules'[s]) /\ schedules'[s].nextFire = Never
           \/ DueTimeOfRow(schedules'[s]) /\ clock < schedules'[s].nextFire
  PROVE  FiringInv'
<1>0. /\ clock \in Nat
      /\ \A s \in Schedule : /\ schedules[s].nextFire \in Nat \cup {Never}
                            /\ schedules'[s].nextFire \in Nat \cup {Never}
      /\ \A i \in DOMAIN fired : fired[i].firedAt \in Nat
  BY FiredRows DEF TypeOK, ScheduleRow
<1>1. PastIsPast'
  BY DEF FiringInv, PastIsPast
<1>2. WaitsAhead'
  BY <1>0 DEF FiringInv, WaitsAhead, PastIsPast, DueTimeOfRow, Never
<1>3. CopiedWhenDue'
  BY DEF FiringInv, CopiedWhenDue, DueTimeOfRow
<1>4. CopyOrLater'
  <2> SUFFICES ASSUME NEW p \in Process, NEW d \in scheduler[p].batch,
                      schedules'[d.id].enabled,
                      schedules'[d.id].nextFire # Never,
                      schedules'[d.id] # schedules[d.id]
               PROVE  d.row.nextFire < schedules'[d.id].nextFire
    BY DEF FiringInv, CopyOrLater
  <2>1. /\ d \in Snapshot /\ d.id \in Schedule
        /\ d.row.nextFire \in Nat \cup {Never} /\ scheduler[p].now \in Nat
    BY DEF TypeOK, SchedulerState, Snapshot, ScheduleRow
  <2>2. clock < schedules'[d.id].nextFire
    BY <2>1
  <2>3. d.row.nextFire <= scheduler[p].now /\ scheduler[p].now <= clock
    BY DEF FiringInv, CopiedWhenDue, PastIsPast
  <2> QED
    BY <1>0, <2>1, <2>2, <2>3 DEF Never
<1> QED
  BY <1>1, <1>2, <1>3, <1>4, NothingFired

\* A step that changes one scheduler only keeps the invariant if the copies it
\* holds afterwards are as the invariant wants them.
LEMMA SchedulerMoved ==
  ASSUME TypeOK, FiringInv, NEW p \in Process, NEW x \in SchedulerState,
         scheduler' = [scheduler EXCEPT ![p] = x],
         UNCHANGED <<clock, fired, schedules>>,
         x.now <= clock,
         \A d \in x.batch :
           \/ d \in scheduler[p].batch /\ x.now = scheduler[p].now
           \/ /\ d.row = schedules[d.id]
              /\ d.row.enabled /\ DueTimeOfRow(d.row) /\ d.row.nextFire <= x.now
  PROVE  FiringInv'
<1>1. \A q \in Process : scheduler'[q] = IF q = p THEN x ELSE scheduler[q]
  BY DEF TypeOK
<1>2. PastIsPast'
  BY <1>1 DEF FiringInv, PastIsPast
<1>3. WaitsAhead'
  BY DEF FiringInv, WaitsAhead, DueTimeOfRow
<1>4. CopiedWhenDue'
  BY <1>1 DEF FiringInv, CopiedWhenDue, DueTimeOfRow
<1>5. CopyOrLater'
  BY <1>1 DEF FiringInv, CopyOrLater
<1> QED
  BY <1>2, <1>3, <1>4, <1>5, NothingFired

\* The comparison with next_fire_at_ms alone identifies the row.
LEMMA SameRow ==
  ASSUME TypeOK, FiringInv, NEW p \in Process, NEW d \in scheduler[p].batch,
         d.row.cron # 0, StillDue(d)
  PROVE  /\ d \in Snapshot /\ scheduler[p].now \in Nat /\ clock \in Nat
         /\ schedules[d.id].enabled
         /\ schedules[d.id].nextFire = d.row.nextFire
         /\ schedules[d.id].agent = d.row.agent
         /\ schedules[d.id].cron = d.row.cron
         /\ d.row.nextFire \in Nat
         /\ d.row.nextFire <= scheduler[p].now
         /\ scheduler[p].now <= clock
<1>1. d \in Snapshot /\ scheduler[p].now \in Nat /\ clock \in Nat
  BY DEF TypeOK, SchedulerState
<1>2. d.row.nextFire \in Nat \cup {Never}
  BY <1>1 DEF Snapshot, ScheduleRow
<1>3. d.row.nextFire # Never /\ d.row.nextFire <= scheduler[p].now
  BY DEF FiringInv, CopiedWhenDue, DueTimeOfRow
<1>4. scheduler[p].now <= clock
  BY DEF FiringInv, PastIsPast
<1>5. schedules[d.id].enabled /\ schedules[d.id].nextFire = d.row.nextFire
  BY DEF StillDue
<1>6. schedules[d.id].agent = d.row.agent /\ schedules[d.id].cron = d.row.cron
  BY <1>2, <1>3, <1>5 DEF FiringInv, CopyOrLater, Never
<1> QED
  BY <1>1, <1>2, <1>3, <1>4, <1>5, <1>6

LEMMA FireKeeps ==
  ASSUME TypeOK, FiringInv, NEW p \in Process, NEW d \in scheduler[p].batch,
         FireSchedule(p, d)
  PROVE  FiringInv'
<1> DEFINE now == scheduler[p].now
           s == d.id
           m == Fired(d, now)
           row == MovedOn(schedules[s], d.row, now)
<1>1. /\ d \in Snapshot /\ s \in Schedule /\ d.row \in ScheduleRow
      /\ now \in Nat /\ clock \in Nat
      /\ schedules[s].enabled /\ schedules[s].nextFire = d.row.nextFire
      /\ d.row.nextFire \in Nat /\ d.row.nextFire <= now /\ now <= clock
  BY SameRow DEF FireSchedule, Snapshot
<1>2. /\ row.nextFire \in Nat /\ now < row.nextFire
      /\ row.agent = schedules[s].agent /\ row.cron = schedules[s].cron
  BY <1>1, MovedOnRow DEF FireSchedule, TypeOK
<1>3. /\ m.schedule = s /\ m.firedAt = now /\ m.dueAt = d.row.nextFire
  BY DEF Fired
<1>4. /\ fired' = Append(fired, m) /\ fired \in Seq(FiredMessage)
      /\ clock' = clock
      /\ \A t \in Schedule :
           schedules'[t] = IF t = s THEN row ELSE schedules[t]
  BY <1>1 DEF FireSchedule, TypeOK
<1>5. \A q \in Process : /\ scheduler'[q].batch \subseteq scheduler[q].batch
                         /\ scheduler'[q].now \in {0, scheduler[q].now}
                         /\ scheduler'[q].batch # {} =>
                              scheduler'[q].now = scheduler[q].now
  BY DropBounded DEF FireSchedule, TypeOK
<1> HIDE DEF m, row, now
<1>6. /\ Len(fired) \in Nat /\ DOMAIN fired = 1..Len(fired)
      /\ DOMAIN fired' = 1..(Len(fired) + 1)
      /\ fired'[Len(fired) + 1] = m
      /\ \A i \in DOMAIN fired : fired'[i] = fired[i]
  BY <1>4
<1>7. \A i \in DOMAIN fired : fired[i].firedAt \in Nat
  BY FiredRows
<1>8. \A i \in DOMAIN fired :
        fired[i].schedule = s => fired[i].firedAt < d.row.nextFire
  BY <1>1 DEF FiringInv, WaitsAhead, Never
<1>9. PastIsPast'
  <2>1. \A i \in DOMAIN fired' : fired'[i].firedAt <= clock'
    BY <1>1, <1>3, <1>4, <1>6 DEF FiringInv, PastIsPast
  <2>2. \A q \in Process : scheduler'[q].now <= clock'
    BY <1>1, <1>4, <1>5 DEF FiringInv, PastIsPast
  <2> QED
    BY <2>1, <2>2 DEF PastIsPast
<1>10. WaitsAhead'
  <2> SUFFICES ASSUME NEW t \in Schedule
               PROVE  /\ DueTimeOfRow(schedules'[t])
                      /\ schedules'[t].enabled /\ schedules'[t].nextFire # Never =>
                           \A i \in DOMAIN fired' : fired'[i].schedule = t =>
                             fired'[i].firedAt < schedules'[t].nextFire
    BY DEF WaitsAhead, DueTimeOfRow
  <2>1. CASE t = s
    <3>1. schedules'[t] = row
      BY <1>4, <2>1
    <3>2. DueTimeOfRow(row)
      BY <1>2 DEF DueTimeOfRow, Never
    <3>3. \A i \in DOMAIN fired' :
            fired'[i].schedule = t => fired'[i].firedAt < row.nextFire
      BY <1>1, <1>2, <1>3, <1>6, <1>7, <1>8, <2>1
    <3> QED
      BY <3>1, <3>2, <3>3
  <2>2. CASE t # s
    BY <1>3, <1>4, <1>6, <2>2 DEF FiringInv, WaitsAhead
  <2> QED
    BY <2>1, <2>2
<1>11. CopiedWhenDue'
  BY <1>5 DEF FiringInv, CopiedWhenDue, DueTimeOfRow
<1>12. CopyOrLater'
  <2> SUFFICES ASSUME NEW q \in Process, NEW e \in scheduler[q].batch
               PROVE  LET r == schedules'[e.id] IN
                      \/ ~r.enabled
                      \/ r.nextFire = Never
                      \/ r.agent = e.row.agent /\ r.cron = e.row.cron
                      \/ e.row.nextFire < r.nextFire
    BY <1>5 DEF CopyOrLater
  <2>1. e.id \in Schedule /\ e.row.nextFire \in Nat \cup {Never}
    BY DEF TypeOK, SchedulerState, Snapshot, ScheduleRow
  <2>2. LET r == schedules[e.id] IN
        \/ ~r.enabled
        \/ r.nextFire = Never
        \/ r.agent = e.row.agent /\ r.cron = e.row.cron
        \/ e.row.nextFire < r.nextFire
    BY DEF FiringInv, CopyOrLater
  <2>3. CASE e.id = s
    BY <1>1, <1>2, <1>4, <2>1, <2>2, <2>3 DEF Never
  <2>4. CASE e.id # s
    BY <1>4, <2>1, <2>2, <2>4
  <2> QED
    BY <2>3, <2>4
<1>13. FiredOnce'
  <2> SUFFICES ASSUME NEW i \in DOMAIN fired', NEW j \in DOMAIN fired',
                      i < j, fired'[i].schedule = fired'[j].schedule
               PROVE  fired'[i].firedAt < fired'[j].dueAt
    BY DEF FiredOnce
  <2>1. CASE j = Len(fired) + 1
    BY <1>1, <1>3, <1>6, <1>8, <2>1
  <2>2. CASE j # Len(fired) + 1
    BY <1>6, <2>2 DEF FiringInv, FiredOnce
  <2> QED
    BY <2>1, <2>2
<1> QED
  BY <1>9, <1>10, <1>11, <1>12, <1>13 DEF FiringInv

LEMMA InitFiring == Init => FiringInv
<1> SUFFICES ASSUME Init PROVE FiringInv
  OBVIOUS
<1>1. \A p \in Process : scheduler[p].batch = {} /\ scheduler[p].now = 0
  BY EmptyRows DEF Init
<1>2. \A s \in Schedule : ~schedules[s].enabled
  BY EmptyRows DEF Init
<1>3. DOMAIN fired = {}
  BY DEF Init
<1> QED
  BY <1>1, <1>2, <1>3
     DEF Init, FiringInv, PastIsPast, WaitsAhead, DueTimeOfRow, CopiedWhenDue,
         CopyOrLater, FiredOnce

LEMMA NextFiring ==
  ASSUME TypeOK, TypeOK', FiringInv, [Next]_vars PROVE FiringInv'
<1>0. clock \in Nat /\ schedules' \in [Schedule -> ScheduleRow]
      /\ schedules \in [Schedule -> ScheduleRow]
  BY DEF TypeOK
<1>1. ASSUME NEW s \in Schedule, NEW a \in Agent, NEW c \in Cron,
             NEW e \in BOOLEAN, CreateSchedule(s, a, c, e)
      PROVE  FiringInv'
  <2> DEFINE row == NewSchedule(a, c, e)
  <2>1. \/ ~row.enabled
        \/ DueTimeOfRow(row) /\ row.nextFire = Never
        \/ DueTimeOfRow(row) /\ clock < row.nextFire
    <3>1. c \in Nat
      BY SchedulerAssumption
    <3>2. /\ row.enabled = e /\ row.cron = c
          /\ e => row.nextFire = CronNext(c, clock)
      BY <1>0, NewScheduleRow
    <3>3. CASE c = 0
      BY <1>0, <3>1, <3>2, <3>3, CronNextType DEF DueTimeOfRow
    <3>4. CASE c # 0
      BY <1>0, <3>1, <3>2, <3>4, NextMatchIsLater DEF DueTimeOfRow, Never
    <3> QED
      BY <3>3, <3>4
  <2>2. \A t \in Schedule : schedules'[t] = IF t = s THEN row ELSE schedules[t]
    BY <1>0, <1>1 DEF CreateSchedule
  <2> HIDE DEF row
  <2> QED
    BY <1>0, <1>1, <2>1, <2>2, RowsWritten DEF CreateSchedule
<1>2. ASSUME NEW s \in Schedule, DisableSchedule(s) PROVE FiringInv'
  <2>1. \A t \in Schedule :
          schedules'[t] = schedules[t] \/ ~schedules'[t].enabled
    BY <1>0, <1>2, DisabledRow DEF DisableSchedule
  <2> QED
    BY <1>0, <1>2, <2>1, RowsWritten DEF DisableSchedule
<1>3. ASSUME NEW a \in Agent, DeleteSchedulesByAgent(a) \/ DeleteAgent(a)
      PROVE  FiringInv'
  <2>1. \A t \in Schedule :
          schedules'[t] = schedules[t] \/ ~schedules'[t].enabled
    BY <1>0, <1>3, WithoutAgentRows DEF DeleteSchedulesByAgent, DeleteAgent
  <2> QED
    BY <1>0, <1>3, <2>1, RowsWritten DEF DeleteSchedulesByAgent, DeleteAgent
<1>4. ASSUME NEW p \in Process, ReadDue(p) PROVE FiringInv'
  <2>1. PICK B \in Batches(clock) :
          scheduler' = [scheduler EXCEPT ![p] =
            [phase |-> "firing", now |-> clock, batch |-> Copies(B)]]
    BY <1>4 DEF ReadDue
  <2> DEFINE x == [phase |-> "firing", now |-> clock, batch |-> Copies(B)]
  <2>2. x \in SchedulerState /\ x.now = clock /\ x.batch = Copies(B)
    BY <1>0, CopiesBounded DEF SchedulerState
  <2>3. B \subseteq Due(clock)
    BY DEF Batches
  <2>4. \A d \in x.batch :
          /\ d.row = schedules[d.id]
          /\ d.row.enabled /\ DueTimeOfRow(d.row) /\ d.row.nextFire <= x.now
    BY <2>2, <2>3 DEF Copies, Due, FiringInv, WaitsAhead
  <2>5. scheduler' = [scheduler EXCEPT ![p] = x]
    BY <2>1
  <2>6. UNCHANGED <<clock, fired, schedules>> /\ x.now <= clock
    BY <1>0, <1>4, <2>2 DEF ReadDue
  <2> HIDE DEF x
  <2> QED
    BY <2>2, <2>4, <2>5, <2>6, SchedulerMoved
<1>5. ASSUME NEW p \in Process, NEW d \in scheduler[p].batch, SkipSchedule(p, d)
      PROVE  FiringInv'
  <2>1. scheduler[p].now \in Nat /\ scheduler[p].now <= clock
    BY DEF TypeOK, SchedulerState, FiringInv, PastIsPast
  <2>2. /\ Drop(p, d) \in SchedulerState /\ Drop(p, d).now <= clock
        /\ \A e \in Drop(p, d).batch :
             e \in scheduler[p].batch /\ Drop(p, d).now = scheduler[p].now
    BY <1>0, <2>1, DropBounded
  <2> QED
    BY <1>5, <2>2, SchedulerMoved DEF SkipSchedule
<1>6. ASSUME NEW p \in Process, NEW d \in scheduler[p].batch, LoopForever(p, d)
      PROVE  FiringInv'
  <2> DEFINE x == [scheduler[p] EXCEPT !.phase = "looping"]
  <2>1. x \in SchedulerState /\ x.batch = scheduler[p].batch
        /\ x.now = scheduler[p].now
    BY DEF TypeOK, SchedulerState
  <2>2. scheduler' = [scheduler EXCEPT ![p] = x]
    BY <1>6 DEF LoopForever
  <2>3. scheduler[p].now <= clock
    BY DEF FiringInv, PastIsPast
  <2> HIDE DEF x
  <2> QED
    BY <1>6, <2>1, <2>2, <2>3, SchedulerMoved DEF LoopForever
<1>7. ASSUME NEW p \in Process, StopScheduler(p) \/ StartScheduler(p)
      PROVE  FiringInv'
  <2>1. PICK x \in SchedulerState :
          x.batch = {} /\ x.now = 0 /\ scheduler' = [scheduler EXCEPT ![p] = x]
    BY <1>7, EmptyRows DEF StopScheduler, StartScheduler
  <2>2. x.now <= clock /\ UNCHANGED <<clock, fired, schedules>>
    BY <1>0, <1>7, <2>1 DEF StopScheduler, StartScheduler
  <2> QED
    BY <2>1, <2>2, SchedulerMoved
<1>8. CASE Tick
  <2>1. PastIsPast'
    <3>1. \A i \in DOMAIN fired : fired[i].firedAt \in Nat
      BY FiredRows
    <3>2. \A p \in Process : scheduler[p].now \in Nat
      BY DEF TypeOK, SchedulerState
    <3> QED
      BY <1>0, <1>8, <3>1, <3>2 DEF Tick, FiringInv, PastIsPast
  <2>2. WaitsAhead' /\ CopiedWhenDue' /\ CopyOrLater'
    BY <1>8 DEF Tick, FiringInv, WaitsAhead, CopiedWhenDue, CopyOrLater,
                DueTimeOfRow
  <2> QED
    BY <1>8, <2>1, <2>2, NothingFired DEF Tick
<1>9. CASE UNCHANGED vars
  BY <1>9 DEF vars, FiringInv, PastIsPast, WaitsAhead, CopiedWhenDue, CopyOrLater,
              FiredOnce, DueTimeOfRow
<1> QED
  BY <1>1, <1>2, <1>3, <1>4, <1>5, <1>6, <1>7, <1>8, <1>9, FireKeeps
     DEF Next, FireNext

\* The inductive invariant holds in every reachable state.
THEOREM FiringInvariant == Spec => []FiringInv
<1>1. TypeOK /\ TypeOK' /\ FiringInv /\ [Next]_vars => FiringInv'
  BY NextFiring
<1> QED
  BY <1>1, InitFiring, TypeCorrect, PTL DEF Spec

\* Each message of a schedule id is due after the previous one was fired,
\* whoever fires and whatever happens to the rows in between.
THEOREM NeverFiredTwice == Spec => []FiredOnce
<1>1. FiringInv => FiredOnce
  BY DEF FiringInv
<1> QED
  BY <1>1, FiringInvariant, PTL

\* A message is fired from a row that is enabled and due at that moment and
\* has the agent and the expression of the copy it is made from.
THEOREM NeverFiredStale == Spec => FiresCurrentRow
<1> DEFINE Current1 ==
      LET m == fired'[Len(fired')]
          row == schedules[m.schedule] IN
      /\ row.enabled
      /\ row.agent = m.agent /\ row.cron = m.cron
      /\ row.nextFire = m.dueAt /\ m.dueAt <= m.firedAt
<1>1. ASSUME TypeOK, FiringInv, [Next]_vars, fired' # fired PROVE Current1
  <2>1. PICK p \in Process : \E d \in scheduler[p].batch : FireSchedule(p, d)
    BY <1>1 DEF Next, FireNext, vars, CreateSchedule, DisableSchedule,
                DeleteSchedulesByAgent, DeleteAgent, ReadDue, SkipSchedule,
                LoopForever, StopScheduler, StartScheduler, Tick
  <2>0. PICK d \in scheduler[p].batch : FireSchedule(p, d)
    BY <2>1
  <2> DEFINE m == Fired(d, scheduler[p].now)
  <2>2. fired' = Append(fired, m) /\ d.row.cron # 0 /\ StillDue(d)
    BY <2>0 DEF FireSchedule
  <2>3. /\ m.schedule = d.id /\ m.agent = d.row.agent /\ m.cron = d.row.cron
        /\ m.dueAt = d.row.nextFire /\ m.firedAt = scheduler[p].now
    BY DEF Fired
  <2> HIDE DEF m
  <2>4. fired'[Len(fired')] = m
    BY <1>1, <2>2 DEF TypeOK
  <2> QED
    BY <1>1, <2>2, <2>3, <2>4, SameRow
<1>2. TypeOK /\ FiringInv /\ [Next]_vars => [fired' # fired => Current1]_vars
  BY <1>1
<1> QED
  BY <1>2, TypeCorrect, FiringInvariant, PTL DEF Spec, FiresCurrentRow
-----------------------------------------------------------------------------
(* Nothing is lost.                                                        *)

LEMMA TimesGrows ==
  ASSUME NEW a \in Nat, NEW b \in Nat, NEW c \in Nat, a <= b
  PROVE  c * a <= c * b
<1> DEFINE d == b - a
<1>1. d \in Nat /\ b = a + d
  OBVIOUS
<1>2. c * d \in Nat /\ c * a \in Nat
  BY <1>1
<1> HIDE DEF d
<1>3. c * b = c * a + c * d
  BY <1>1
<1> QED
  BY <1>2, <1>3

\* CronNext is the first match: no time between t and it is one.
LEMMA NoMatchBetween ==
  ASSUME NEW c \in Nat, c # 0, NEW t \in Nat, NEW u \in Nat,
         t < u, u < CronNext(c, t)
  PROVE  u % c # 0
<1> SUFFICES ASSUME u % c = 0 PROVE FALSE
  OBVIOUS
<1> DEFINE q == t \div c
           k == u \div c
<1>1. q \in Nat /\ t = c * q + (t % c) /\ t % c \in 0..(c - 1)
  OBVIOUS
<1>2. k \in Nat /\ u = c * k
  OBVIOUS
<1>3. CronNext(c, t) = c * (q + 1) /\ c * (q + 1) = c * q + c
  BY <1>1 DEF CronNext
<1> HIDE DEF q, k
<1>4. c * q \in Nat /\ c * k \in Nat
  BY <1>1, <1>2
<1>5. CASE k <= q
  BY <1>1, <1>2, <1>4, <1>5, TimesGrows
<1>6. CASE q + 1 <= k
  BY <1>1, <1>2, <1>3, <1>4, <1>6, TimesGrows
<1> QED
  BY <1>1, <1>2, <1>5, <1>6

\* The occurrence t of schedule s was answered by a message.
Answered(s, t) ==
  \E i \in DOMAIN fired :
    fired[i].schedule = s /\ fired[i].dueAt <= t /\ t <= fired[i].firedAt

\* Every match the row of s has left behind was answered.
RowLosesNothing(s) ==
  schedules[s].enabled /\ schedules[s].cron # 0 =>
    \A t \in (schedules[s].createdAt + 1)..(schedules[s].nextFire - 1) :
      t % schedules[s].cron = 0 => Answered(s, t)
LEMMA LosesNothing == NoLostOccurrence <=> \A s \in Schedule : RowLosesNothing(s)
  BY DEF NoLostOccurrence, RowLosesNothing, Answered

\* What was answered stays answered: messages are only added.
LEMMA StaysAnswered ==
  ASSUME TypeOK, NEW s, NEW t, Answered(s, t),
         fired' = fired \/ \E m : fired' = Append(fired, m)
  PROVE  Answered(s, t)'
<1>1. fired \in Seq(FiredMessage)
  BY DEF TypeOK
<1>2. PICK i \in DOMAIN fired :
        fired[i].schedule = s /\ fired[i].dueAt <= t /\ t <= fired[i].firedAt
  BY DEF Answered
<1>3. i \in DOMAIN fired' /\ fired'[i] = fired[i]
  BY <1>1, <1>2
<1> QED
  BY <1>2, <1>3 DEF Answered

\* A row that a step leaves alone or disables loses nothing.
LEMMA RowKept ==
  ASSUME TypeOK, NEW s \in Schedule, RowLosesNothing(s),
         schedules'[s] = schedules[s] \/ ~schedules'[s].enabled,
         fired' = fired \/ \E m : fired' = Append(fired, m)
  PROVE  RowLosesNothing(s)'
  BY StaysAnswered DEF RowLosesNothing

\* A new row waits for the first match after its creation.
LEMMA CreateLosesNothing ==
  ASSUME TypeOK, NEW s \in Schedule, NEW a \in Agent, NEW c \in Cron,
         NEW e \in BOOLEAN, CreateSchedule(s, a, c, e)
  PROVE  RowLosesNothing(s)'
<1> DEFINE row == NewSchedule(a, c, e)
<1>1. clock \in Nat /\ c \in Nat /\ schedules'[s] = row
  BY SchedulerAssumption DEF TypeOK, CreateSchedule
<1>2. /\ row.enabled = e /\ row.cron = c /\ row.createdAt = clock
      /\ e => row.nextFire = CronNext(c, clock)
  BY DEF NewSchedule
<1> HIDE DEF row
<1> SUFFICES ASSUME e, c # 0,
                    NEW t \in (clock + 1)..(CronNext(c, clock) - 1)
             PROVE  t % c # 0
  BY <1>1, <1>2 DEF RowLosesNothing
<1>3. CronNext(c, clock) \in Nat
  BY <1>1, NextMatchIsLater
<1>4. t \in Nat /\ clock < t /\ t < CronNext(c, clock)
  BY <1>1, <1>3
<1> QED
  BY <1>1, <1>4, NoMatchBetween

\* A firing answers every match from the due time of the row to the moment
\* the batch was read, and the row waits for the first match after that.
LEMMA FireLosesNothing ==
  ASSUME TypeOK, FiringInv, NEW p \in Process, NEW d \in scheduler[p].batch,
         FireSchedule(p, d), RowLosesNothing(d.id)
  PROVE  RowLosesNothing(d.id)'
<1> DEFINE now == scheduler[p].now
           s == d.id
           c == d.row.cron
           m == Fired(d, now)
           row == MovedOn(schedules[s], d.row, now)
<1>1. /\ d \in Snapshot /\ s \in Schedule /\ d.row \in ScheduleRow
      /\ now \in Nat /\ schedules[s] \in ScheduleRow
      /\ schedules[s].enabled /\ schedules[s].nextFire = d.row.nextFire
      /\ schedules[s].cron = c /\ c # 0 /\ c \in Nat
      /\ d.row.nextFire \in Nat /\ schedules[s].createdAt \in Nat
  BY SameRow, SchedulerAssumption DEF FireSchedule, Snapshot, TypeOK, ScheduleRow
<1>2. /\ row.nextFire = CronNext(c, now) /\ row.cron = c
      /\ row.createdAt = schedules[s].createdAt
  BY <1>1 DEF MovedOn, FirstMatchAfter, ScheduleRow
<1>3. CronNext(c, now) \in Nat
  BY <1>1, NextMatchIsLater
<1>4. m.schedule = s /\ m.firedAt = now /\ m.dueAt = d.row.nextFire
  BY DEF Fired
<1>5. /\ fired' = Append(fired, m) /\ fired \in Seq(FiredMessage)
      /\ schedules'[s] = row
  BY <1>1 DEF FireSchedule, TypeOK
<1> HIDE DEF now, m, row, c
<1>6. Len(fired) + 1 \in DOMAIN fired' /\ fired'[Len(fired) + 1] = m
  BY <1>5
<1> SUFFICES ASSUME NEW t \in (row.createdAt + 1)..(row.nextFire - 1),
                    t % c = 0
             PROVE  Answered(s, t)'
  BY <1>2, <1>5 DEF RowLosesNothing
<1>7. t \in Nat /\ t < CronNext(c, now) /\ schedules[s].createdAt < t
  BY <1>1, <1>2, <1>3
<1>8. CASE t < d.row.nextFire
  <2>1. Answered(s, t)
    BY <1>1, <1>7, <1>8 DEF RowLosesNothing
  <2> QED
    BY <1>5, <2>1, StaysAnswered
<1>9. CASE d.row.nextFire <= t
  <2>1. t <= now
    BY <1>1, <1>7, NoMatchBetween
  <2> QED
    BY <1>4, <1>6, <1>9, <2>1 DEF Answered
<1> QED
  BY <1>1, <1>7, <1>8, <1>9

LEMMA NextLosesNothing ==
  ASSUME TypeOK, FiringInv, NoLostOccurrence, [Next]_vars
  PROVE  NoLostOccurrence'
<1>0. schedules \in [Schedule -> ScheduleRow] /\ clock \in Nat
  BY DEF TypeOK
<1> SUFFICES ASSUME NEW s \in Schedule PROVE RowLosesNothing(s)'
  BY DEF NoLostOccurrence, RowLosesNothing, Answered
<1>1. RowLosesNothing(s)
  BY LosesNothing
<1>2. ASSUME NEW x \in Schedule, NEW a \in Agent, NEW c \in Cron,
             NEW e \in BOOLEAN, CreateSchedule(x, a, c, e)
      PROVE  RowLosesNothing(s)'
  <2>1. CASE x = s
    BY <1>2, <2>1, CreateLosesNothing
  <2>2. CASE x # s
    BY <1>0, <1>1, <1>2, <2>2, RowKept DEF CreateSchedule
  <2> QED
    BY <2>1, <2>2
<1>3. ASSUME NEW x \in Schedule, DisableSchedule(x) PROVE RowLosesNothing(s)'
  <2>1. schedules'[s] = schedules[s] \/ ~schedules'[s].enabled
    BY <1>0, <1>3, DisabledRow DEF DisableSchedule
  <2> QED
    BY <1>1, <1>3, <2>1, RowKept DEF DisableSchedule
<1>4. ASSUME NEW a \in Agent, DeleteSchedulesByAgent(a) \/ DeleteAgent(a)
      PROVE  RowLosesNothing(s)'
  <2>1. schedules'[s] = schedules[s] \/ ~schedules'[s].enabled
    BY <1>0, <1>4, WithoutAgentRows DEF DeleteSchedulesByAgent, DeleteAgent
  <2> QED
    BY <1>1, <1>4, <2>1, RowKept DEF DeleteSchedulesByAgent, DeleteAgent
<1>5. ASSUME NEW p \in Process, NEW d \in scheduler[p].batch, FireSchedule(p, d)
      PROVE  RowLosesNothing(s)'
  <2>1. CASE d.id = s
    BY <1>1, <1>5, <2>1, FireLosesNothing
  <2>2. CASE d.id # s
    BY <1>0, <1>1, <1>5, <2>2, RowKept DEF FireSchedule
  <2> QED
    BY <2>1, <2>2
<1>6. ASSUME UNCHANGED <<schedules, fired>> PROVE RowLosesNothing(s)'
  BY <1>1, <1>6, RowKept
<1>7. ASSUME NEW p \in Process,
             \/ ReadDue(p) \/ StopScheduler(p) \/ StartScheduler(p)
             \/ \E d \in scheduler[p].batch :
                  SkipSchedule(p, d) \/ LoopForever(p, d)
      PROVE  UNCHANGED <<schedules, fired>>
  BY <1>7 DEF ReadDue, StopScheduler, StartScheduler, SkipSchedule, LoopForever
<1>8. CASE Tick \/ UNCHANGED vars
  BY <1>6, <1>8 DEF Tick, vars
<1> QED
  BY <1>2, <1>3, <1>4, <1>5, <1>6, <1>7, <1>8 DEF Next, FireNext

\* Catching up loses no occurrence: every match between the creation of an
\* enabled schedule and its next firing was answered by a message that was due
\* no later and fired no earlier.
THEOREM NoOccurrenceLost == Spec => []NoLostOccurrence
<1>1. Init => NoLostOccurrence
  <2> SUFFICES ASSUME Init, NEW s \in Schedule PROVE ~schedules[s].enabled
    BY DEF NoLostOccurrence
  <2> QED
    BY EmptyRows DEF Init
<1>2. TypeOK /\ FiringInv /\ NoLostOccurrence /\ [Next]_vars => NoLostOccurrence'
  BY NextLosesNothing
<1> QED
  BY <1>1, <1>2, TypeCorrect, FiringInvariant, PTL DEF Spec
-----------------------------------------------------------------------------
(* The schedulers implement Timetable.                                     *)

LEMMA Division ==
  ASSUME NEW c \in Nat, c # 0, NEW n \in Nat
  PROVE  n \div c \in Nat /\ n = c * (n \div c) + (n % c) /\ n % c \in 0..(c - 1)
  OBVIOUS

\* The match that CronNext computes is one, and at most c minutes away.
LEMMA NextMatchIsMatch ==
  ASSUME NEW c \in Nat, c # 0, NEW t \in Nat
  PROVE  /\ CronNext(c, t) \in (t + 1)..(t + c) /\ CronNext(c, t) % c = 0
         /\ CronNext(c, CronNext(c, t)) = CronNext(c, t) + c
<1> DEFINE q == t \div c
           n == c * (q + 1)
           k == n \div c
<1>1. q \in Nat /\ t = c * q + (t % c) /\ t % c \in 0..(c - 1)
  OBVIOUS
<1>2. CronNext(c, t) = n /\ n = c * q + c /\ n \in Nat
  BY <1>1 DEF CronNext
<1>3. c * q \in Nat
  BY <1>1
<1> HIDE DEF q
<1>4. n \in (t + 1)..(t + c)
  BY <1>1, <1>2, <1>3
<1> HIDE DEF n
<1>5. k \in Nat /\ n = c * k + (n % c) /\ n % c \in 0..(c - 1)
  BY <1>2, Division
<1>6. c * (k + 1) = c * k + c /\ c * k \in Nat
  BY <1>5
<1>7. k = q + 1
  <2> HIDE DEF k
  <2>1. CASE k <= q
    <3>1. c * k <= c * q
      BY <1>1, <1>5, <2>1, TimesGrows
    <3> QED
      BY <1>2, <1>3, <1>5, <1>6, <3>1
  <2>2. CASE q + 2 <= k
    <3>1. c * (q + 2) <= c * k /\ c * (q + 2) = c * q + c + c
      BY <1>1, <1>5, <2>2, TimesGrows
    <3> QED
      BY <1>2, <1>3, <1>5, <1>6, <3>1
  <2> QED
    BY <1>1, <1>5, <2>1, <2>2
<1>8. n % c = 0
  BY <1>1, <1>5, <1>7 DEF n
<1>9. CronNext(c, n) = n + c
  BY <1>2, <1>5, <1>6, <1>7, <1>8 DEF CronNext
<1> QED
  BY <1>2, <1>4, <1>8, <1>9

\* CronNext answers what the timetable waits for.
LEMMA NextIsFirstAfter ==
  ASSUME NEW c \in Nat, NEW t \in Nat
  PROVE  Timetable!FirstAfter(c, t) = CronNext(c, t)
<1>1. CASE c = 0
  BY <1>1 DEF Timetable!FirstAfter, CronNext, Never
<1>2. CASE c # 0
  <2> DEFINE n == CronNext(c, t)
             first == CHOOSE u \in (t + 1)..(t + c) : u % c = 0
  <2>1. n \in (t + 1)..(t + c) /\ n % c = 0 /\ CronNext(c, n) = n + c
    BY <1>2, NextMatchIsMatch
  <2> HIDE DEF n
  <2>2. first \in (t + 1)..(t + c) /\ first % c = 0
    BY <2>1
  <2> HIDE DEF first
  <2>3. ~(first < n)
    <3>1. first \in Nat /\ t < first
      BY <2>2
    <3> QED
      BY <1>2, <2>2, <3>1, NoMatchBetween DEF n
  <2>4. ~(n < first)
    <3>1. n \in Nat /\ first \in Nat /\ first < n + c
      BY <2>1, <2>2
    <3> QED
      BY <1>2, <2>1, <2>2, <3>1, NoMatchBetween
  <2>5. first = n
    BY <2>1, <2>2, <2>3, <2>4
  <2> QED
    BY <1>2, <2>5 DEF Timetable!FirstAfter, first, n
<1> QED
  BY <1>1, <1>2

LEMMA CreateWrites ==
  ASSUME TypeOK, NEW s \in Schedule, NEW a \in Agent, NEW c \in Cron, NEW e \in BOOLEAN,
         CreateSchedule(s, a, c, e)
  PROVE  Timetable!Write(s, a, c, e)
<1> DEFINE row == NewSchedule(a, c, e)
<1>1. /\ clock \in Nat /\ c \in Nat /\ schedules \in [Schedule -> ScheduleRow]
      /\ schedules' = [schedules EXCEPT ![s] = row] /\ schedules[s].agent = "none"
      /\ UNCHANGED <<clock, fired>>
  BY SchedulerAssumption DEF TypeOK, CreateSchedule, Exists
<1>2. row.agent = a /\ row.cron = c /\ row.enabled = e
      /\ row.nextFire = IF e THEN CronNext(c, clock) ELSE 0
  BY DEF NewSchedule, Null
<1> HIDE DEF row
<1>3. plans' = [plans EXCEPT ![s] = [agent |-> a, cron |-> c, on |-> e]]
  BY <1>1, <1>2 DEF plans
<1>4. dueTimes' = [dueTimes EXCEPT ![s] = IF e THEN Timetable!FirstAfter(c, clock) ELSE 0]
  BY <1>1, <1>2, NextIsFirstAfter DEF dueTimes
<1>5. plans[s].agent = "none"
  BY <1>1 DEF plans
<1> QED
  BY <1>1, <1>3, <1>4, <1>5 DEF Timetable!Write

LEMMA DisableTurnsOff ==
  ASSUME TypeOK, NEW s \in Schedule, DisableSchedule(s)
  PROVE  Timetable!TurnOff(s)
<1> DEFINE row == Disabled(schedules[s])
<1>1. /\ schedules \in [Schedule -> ScheduleRow] /\ schedules[s].agent # "none"
      /\ schedules' = [schedules EXCEPT ![s] = row]
      /\ UNCHANGED <<clock, fired>>
  BY DEF TypeOK, DisableSchedule, Exists
<1>2. row.agent = schedules[s].agent /\ row.cron = schedules[s].cron
      /\ row.enabled = FALSE /\ row.nextFire = 0
  BY <1>1 DEF Disabled, Null, ScheduleRow
<1> HIDE DEF row
<1>3. plans' = [plans EXCEPT ![s].on = FALSE]
  BY <1>1, <1>2 DEF plans
<1>4. dueTimes' = [dueTimes EXCEPT ![s] = 0]
  BY <1>1, <1>2 DEF dueTimes
<1>5. plans[s].agent # "none"
  BY <1>1 DEF plans
<1> QED
  BY <1>1, <1>3, <1>4, <1>5 DEF Timetable!TurnOff

LEMMA DeleteRemoves ==
  ASSUME TypeOK, NEW a \in Agent, schedules' = WithoutAgent(a), UNCHANGED <<clock, fired>>
  PROVE  \E S \in SUBSET Schedule : Timetable!Remove(S)
<1> DEFINE S == {s \in Schedule : schedules[s].agent = a}
<1>1. plans' = [s \in Schedule |-> IF s \in S THEN Timetable!NoPlan ELSE plans[s]]
  BY DEF plans, WithoutAgent, NoSchedule, Timetable!NoPlan
<1>2. dueTimes' = [s \in Schedule |-> IF s \in S THEN 0 ELSE dueTimes[s]]
  BY DEF dueTimes, WithoutAgent, NoSchedule, Null
<1> HIDE DEF S
<1>3. Timetable!Remove(S)
  BY <1>1, <1>2 DEF Timetable!Remove
<1> QED
  BY <1>3 DEF S

\* The copied row is still the row, so that its message is the timetable's.
LEMMA FireSends ==
  ASSUME TypeOK, FiringInv, NEW p \in Process, NEW d \in scheduler[p].batch,
         FireSchedule(p, d)
  PROVE  \E s \in Schedule, t \in 0..clock : Timetable!Send(s, t)
<1> DEFINE t == scheduler[p].now
           s == d.id
           row == MovedOn(schedules[s], d.row, t)
<1>1. /\ schedules \in [Schedule -> ScheduleRow]
      /\ d.row.cron # 0 /\ StillDue(d)
      /\ schedules' = [schedules EXCEPT ![s] = row]
      /\ fired' = Append(fired, Fired(d, t))
      /\ clock' = clock
  BY DEF TypeOK, FireSchedule
<1>2. /\ d \in Snapshot /\ t \in Nat /\ clock \in Nat /\ t <= clock
      /\ schedules[s].enabled
      /\ schedules[s].nextFire = d.row.nextFire
      /\ schedules[s].agent = d.row.agent
      /\ schedules[s].cron = d.row.cron
      /\ d.row.nextFire <= t
  BY <1>1, SameRow
<1>3. s \in Schedule /\ d.row \in ScheduleRow /\ d.row.cron \in Nat
  <2>1. s \in Schedule /\ d.row \in ScheduleRow
    BY <1>2 DEF Snapshot
  <2>2. d.row.cron \in Cron \cup {0}
    BY <2>1 DEF ScheduleRow
  <2>3. Cron \subseteq Nat /\ 0 \in Nat
    BY SchedulerAssumption
  <2> QED
    BY <2>1, <2>2, <2>3
<1>4. /\ row.agent = schedules[s].agent /\ row.cron = schedules[s].cron
      /\ row.enabled = schedules[s].enabled
      /\ row.nextFire = Timetable!FirstAfter(d.row.cron, t)
  BY <1>1, <1>2, <1>3, NextIsFirstAfter DEF MovedOn, FirstMatchAfter, ScheduleRow
<1> HIDE DEF t, s, row
<1>5. plans' = plans
  BY <1>1, <1>3, <1>4 DEF plans
<1>6. plans[s] = [agent |-> d.row.agent, cron |-> d.row.cron, on |-> TRUE]
  BY <1>1, <1>2, <1>3 DEF plans, ScheduleRow
<1>7. dueTimes[s] = d.row.nextFire
  BY <1>2, <1>3 DEF dueTimes
<1>8. dueTimes' = [dueTimes EXCEPT ![s] = Timetable!FirstAfter(plans[s].cron, t)]
  <2>1. plans[s].cron = d.row.cron
    BY <1>6
  <2>2. \A u \in Schedule : schedules'[u].nextFire =
          IF u = s THEN Timetable!FirstAfter(d.row.cron, t) ELSE schedules[u].nextFire
    BY <1>1, <1>3, <1>4
  <2> QED
    BY <1>3, <2>1, <2>2 DEF dueTimes
<1>9. Fired(d, t) = Timetable!Message(s, t)
  BY <1>6, <1>7 DEF Fired, Timetable!Message, s
<1>10. Timetable!Send(s, t)
  BY <1>1, <1>2, <1>5, <1>6, <1>7, <1>8, <1>9 DEF Timetable!Send
<1> QED
  BY <1>2, <1>3, <1>10

\* Every step of the schedulers, of the store and of time is one of the timetable.
LEMMA StepOfTimetable ==
  ASSUME TypeOK, FiringInv, [Next]_vars
  PROVE  [Timetable!TimetableNext]_(Timetable!timetableVars)
<1>1. ASSUME UNCHANGED <<clock, schedules, fired>>
      PROVE  UNCHANGED Timetable!timetableVars
  BY <1>1 DEF Timetable!timetableVars, plans, dueTimes
<1>2. ASSUME NEW s \in Schedule, NEW a \in Agent, NEW c \in Cron, NEW e \in BOOLEAN,
             CreateSchedule(s, a, c, e)
      PROVE  Timetable!TimetableNext
  BY <1>2, CreateWrites DEF Timetable!TimetableNext
<1>3. ASSUME NEW s \in Schedule, DisableSchedule(s) PROVE Timetable!TimetableNext
  BY <1>3, DisableTurnsOff DEF Timetable!TimetableNext
<1>4. ASSUME NEW a \in Agent, DeleteSchedulesByAgent(a) \/ DeleteAgent(a)
      PROVE  Timetable!TimetableNext
  <2>1. schedules' = WithoutAgent(a) /\ UNCHANGED <<clock, fired>>
    BY <1>4 DEF DeleteSchedulesByAgent, DeleteAgent
  <2> QED
    BY <2>1, DeleteRemoves DEF Timetable!TimetableNext
<1>5. ASSUME NEW p \in Process, NEW d \in scheduler[p].batch, FireSchedule(p, d)
      PROVE  Timetable!TimetableNext
  BY <1>5, FireSends DEF Timetable!TimetableNext
<1>6. CASE Tick
  <2>1. clock' = clock + 1 /\ UNCHANGED <<plans, dueTimes, fired>>
    BY <1>6 DEF Tick, plans, dueTimes
  <2> QED
    BY <2>1 DEF Timetable!TimetableNext, Timetable!Pass
<1>7. ASSUME NEW p \in Process, NEW d \in scheduler[p].batch,
             SkipSchedule(p, d) \/ LoopForever(p, d)
      PROVE  UNCHANGED <<clock, schedules, fired>>
  BY <1>7 DEF SkipSchedule, LoopForever
<1>8. ASSUME NEW p \in Process, ReadDue(p) \/ StopScheduler(p) \/ StartScheduler(p)
      PROVE  UNCHANGED <<clock, schedules, fired>>
  BY <1>8 DEF ReadDue, StopScheduler, StartScheduler
<1>9. CASE UNCHANGED vars
  BY <1>1, <1>9 DEF vars
<1> QED
  BY <1>1, <1>2, <1>3, <1>4, <1>5, <1>6, <1>7, <1>8, <1>9 DEF Next, FireNext

\* However many schedulers hold however old copies of the rows, what they send is
\* what one timetable that reads and fires in one step would send.
THEOREM SchedulersKeepTheTimetable == Spec => ImplementsTimetable
<1>1. Init => Timetable!TimetableInit
  <2> SUFFICES ASSUME Init PROVE Timetable!TimetableInit
    OBVIOUS
  <2>1. clock = 1 /\ fired = <<>> /\ schedules = [s \in Schedule |-> NoSchedule]
    BY DEF Init
  <2>2. plans = [s \in Schedule |-> Timetable!NoPlan]
    BY <2>1 DEF plans, NoSchedule, Timetable!NoPlan
  <2>3. dueTimes = [s \in Schedule |-> 0]
    BY <2>1 DEF dueTimes, NoSchedule, Null
  <2> QED
    BY <2>1, <2>2, <2>3 DEF Timetable!TimetableInit
<1>2. TypeOK /\ FiringInv /\ [Next]_vars =>
        [Timetable!TimetableNext]_(Timetable!timetableVars)
  BY StepOfTimetable
<1> QED
  BY <1>1, <1>2, TypeCorrect, FiringInvariant, PTL
     DEF Spec, ImplementsTimetable, Timetable!TimetableSpec
=============================================================================
