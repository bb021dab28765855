----------------------------- MODULE Scheduler -----------------------------
(***************************************************************************)
(* Cron schedules: the table schedules of pkg/server/store, the operations *)
(* on it, and the scheduler loops of pkg/server/scheduler.go.  A scheduler *)
(* reads a batch of due rows outside any transaction and then fires them   *)
(* one by one, each in a transaction that compares the row with what was   *)
(* read and enqueues one message.  Other processes and other users of the  *)
(* store act between the read and each of the transactions.                *)
(*                                                                         *)
(* A cron expression is the number c of minutes between its matches, which *)
(* are the multiples of c; 0 is an expression that parses and matches no   *)
(* date at all, as "0 0 30 2 *" does.                                      *)
(***************************************************************************)
EXTENDS Integers, FiniteSets, Sequences

CONSTANTS
  Agent,        \* agent ids that may exist
  Schedule,     \* schedule ids
  Process,      \* server processes, each with one scheduler
  Cron,         \* cron expressions in use
  BatchSize,    \* rows one FireDueSchedules reads
  MaxTime,      \* bound: minutes that pass
  MaxChanges,   \* bound: rows created, disabled, deleted
  MaxFaults     \* bound: transactions that fail, processes that stop

ASSUME SchedulerAssumption ==
  /\ IsFiniteSet(Schedule)
  /\ "none" \notin Agent
  /\ Cron \subseteq Nat
  /\ BatchSize \in Nat \ {0}
  /\ {MaxTime, MaxChanges, MaxFaults} \subseteq Nat

VARIABLES
  clock,      \* time in minutes
  agents,     \* rows of the agents table
  schedules,  \* rows of the schedules table
  fired,      \* the messages enqueued by schedules, in order
  scheduler,  \* what each process's scheduler is doing
  changes,    \* changes of the table so far (bounded by MaxChanges)
  faults      \* faults so far (bounded by MaxFaults)

vars == <<clock, agents, schedules, fired, scheduler, changes, faults>>

-----------------------------------------------------------------------------
(* Cron.                                                                   *)

Null == 0    \* NULL in next_fire_at_ms or last_fire_at_ms
Never == -1  \* Go's zero time, long past when it is stored as a number

\* cron.Schedule.Next: the first match after t, the zero time if none.
CronNext(c, t) == IF c = 0 THEN Never ELSE (t \div c + 1) * c

\* The catch-up loop of fireSchedule: matches up to now are skipped, whatever
\* the due time was.  The loop ends only for an expression with a match.
FirstMatchAfter(c, now) == CronNext(c, now)

-----------------------------------------------------------------------------
(* The table.                                                              *)

NoSchedule == [agent |-> "none", cron |-> 0, enabled |-> FALSE,
               nextFire |-> Null, lastFire |-> Null, createdAt |-> 0,
               updatedAt |-> 0]

Exists(s) == schedules[s].agent # "none"

CountChange == changes < MaxChanges /\ changes' = changes + 1

NewSchedule(a, c, enabled) ==
  [agent |-> a, cron |-> c, enabled |-> enabled,
   nextFire |-> IF enabled THEN CronNext(c, clock) ELSE Null,
   lastFire |-> Null, createdAt |-> clock, updatedAt |-> clock]

\* Store.CreateSchedule: the ids are a primary key, the agent a foreign key.
CreateSchedule(s, a, c, enabled) ==
  /\ ~Exists(s)
  /\ a \in agents
  /\ CountChange
  /\ schedules' = [schedules EXCEPT ![s] = NewSchedule(a, c, enabled)]
  /\ UNCHANGED <<clock, agents, fired, scheduler, faults>>

Disabled(row) ==
  [row EXCEPT !.enabled = FALSE, !.nextFire = Null, !.updatedAt = clock]

\* Store.DisableSchedule.
DisableSchedule(s) ==
  /\ Exists(s)
  /\ CountChange
  /\ schedules' = [schedules EXCEPT ![s] = Disabled(@)]
  /\ UNCHANGED <<clock, agents, fired, scheduler, faults>>

WithoutAgent(a) ==
  [s \in Schedule |-> IF schedules[s].agent = a THEN NoSchedule
                                                ELSE schedules[s]]

\* Store.DeleteSchedulesByAgent, the first half of a resync of the agent; the
\* CreateSchedule calls that follow are separate statements.
DeleteSchedulesByAgent(a) ==
  /\ \E s \in Schedule : schedules[s].agent = a
  /\ CountChange
  /\ schedules' = WithoutAgent(a)
  /\ UNCHANGED <<clock, agents, fired, scheduler, faults>>

\* Store.DeleteAgent cascades to the schedules.
DeleteAgent(a) ==
  /\ a \in agents
  /\ CountChange
  /\ agents' = agents \ {a}
  /\ schedules' = WithoutAgent(a)
  /\ UNCHANGED <<clock, fired, scheduler, faults>>

-----------------------------------------------------------------------------
(* The schedulers.                                                         *)

Idle == [phase |-> "idle", now |-> 0, batch |-> {}]

\* A slip: a firing that was missed by a minute is not due any more.
DueThisMinute(now) ==
  {s \in Schedule : schedules[s].enabled /\ schedules[s].nextFire = now}

Due(now) ==
  {s \in Schedule : /\ schedules[s].enabled
                    /\ schedules[s].nextFire # Null
                    /\ schedules[s].nextFire <= now}

\* ORDER BY next_fire_at_ms, updated_at_ms.
Before(r, q) ==
  \/ r.nextFire < q.nextFire
  \/ r.nextFire = q.nextFire /\ r.updatedAt < q.updatedAt

\* The batches the query may return: LIMIT takes the first rows of the order.
Batches(now) ==
  {B \in SUBSET Due(now) :
     /\ Cardinality(B) <= BatchSize
     /\ Cardinality(B) = BatchSize \/ B = Due(now)
     /\ \A s \in B, t \in Due(now) \ B : ~Before(schedules[t], schedules[s])}

Copies(B) == {[id |-> s, row |-> schedules[s]] : s \in B}

\* FireOnce and the query of FireDueSchedules: the rows are copied.
ReadDue(p) ==
  /\ scheduler[p].phase = "idle"
  /\ \E B \in Batches(clock) \ {{}} :
       scheduler' = [scheduler EXCEPT ![p] =
         [phase |-> "firing", now |-> clock, batch |-> Copies(B)]]
  /\ UNCHANGED <<clock, agents, schedules, fired, changes, faults>>

\* The record the loop of FireDueSchedules has reached.
Current(p, d) ==
  /\ scheduler[p].phase = "firing"
  /\ d \in scheduler[p].batch
  /\ \A e \in scheduler[p].batch : ~Before(e.row, d.row)

\* A slip: the UPDATE does not look at the time it replaces.
StillEnabled(d) == schedules[d.id].enabled

\* The WHERE clause of the UPDATE in fireSchedule.
StillDue(d) ==
  schedules[d.id].enabled /\ schedules[d.id].nextFire = d.row.nextFire

\* A slip: the row moves on by one match too many.
MovedTooFar(row, read, now) ==
  [row EXCEPT !.lastFire = read.nextFire, !.updatedAt = now,
              !.nextFire = CronNext(read.cron, FirstMatchAfter(read.cron, now))]

\* The row after the UPDATE: it waits for the first match after now.
MovedOn(row, read, now) ==
  [row EXCEPT !.lastFire = read.nextFire,
              !.nextFire = FirstMatchAfter(read.cron, now), !.updatedAt = now]

\* fireSchedule writes this constant, whatever the agent's max_attempts is.
ScheduledMaxAttempts == 5

Fired(d, now) ==
  [schedule |-> d.id, agent |-> d.row.agent, cron |-> d.row.cron,
   dueAt |-> d.row.nextFire, firedAt |-> now, limit |-> ScheduledMaxAttempts]

Drop(p, d) ==
  IF scheduler[p].batch = {d} THEN Idle
  ELSE [scheduler[p] EXCEPT !.batch = @ \ {d}]

\* Store.fireSchedule: the row moves on to its next match and a message is
\* enqueued, in one transaction.
FireSchedule(p, d) ==
  LET now == scheduler[p].now IN
  /\ Current(p, d)
  /\ d.row.cron # 0
  /\ StillDue(d)
  /\ d.row.agent \in agents
  /\ schedules' = [schedules EXCEPT ![d.id] = MovedOn(@, d.row, now)]
  /\ fired' = Append(fired, Fired(d, now))
  /\ scheduler' = [scheduler EXCEPT ![p] = Drop(p, d)]
  /\ UNCHANGED <<clock, agents, changes, faults>>

\* The UPDATE hits no row: somebody else fired, disabled or replaced it.
SkipSchedule(p, d) ==
  /\ Current(p, d)
  /\ d.row.cron # 0
  /\ ~StillDue(d)
  /\ scheduler' = [scheduler EXCEPT ![p] = Drop(p, d)]
  /\ UNCHANGED <<clock, agents, schedules, fired, changes, faults>>

\* The catch-up loop never ends: Next answers the zero time for ever, and the
\* loop does not look at its context.
LoopForever(p, d) ==
  /\ Current(p, d)
  /\ d.row.cron = 0
  /\ scheduler' = [scheduler EXCEPT ![p] = [@ EXCEPT !.phase = "looping"]]
  /\ UNCHANGED <<clock, agents, schedules, fired, changes, faults>>

\* A query or transaction fails, or the context of the process ends: the rest
\* of the batch is dropped and Scheduler.Run returns.  A looping scheduler
\* stops only when its process is killed.
StopScheduler(p) ==
  /\ scheduler[p].phase # "stopped"
  /\ faults < MaxFaults
  /\ scheduler' = [scheduler EXCEPT ![p] = [Idle EXCEPT !.phase = "stopped"]]
  /\ faults' = faults + 1
  /\ UNCHANGED <<clock, agents, schedules, fired, changes>>

\* The process is started again.
StartScheduler(p) ==
  /\ scheduler[p].phase = "stopped"
  /\ scheduler' = [scheduler EXCEPT ![p] = Idle]
  /\ UNCHANGED <<clock, agents, schedules, fired, changes, faults>>

Tick ==
  /\ clock < MaxTime
  /\ clock' = clock + 1
  /\ UNCHANGED <<agents, schedules, fired, scheduler, changes, faults>>

Init ==
  /\ clock = 1
  /\ agents = Agent
  /\ schedules = [s \in Schedule |-> NoSchedule]
  /\ fired = <<>>
  /\ scheduler = [p \in Process |-> Idle]
  /\ changes = 0
  /\ faults = 0

FireNext(p) ==
  \E d \in scheduler[p].batch :
    FireSchedule(p, d) \/ SkipSchedule(p, d) \/ LoopForever(p, d)

Next ==
  \/ \E s \in Schedule, a \in Agent, c \in Cron, e \in BOOLEAN :
       CreateSchedule(s, a, c, e)
  \/ \E s \in Schedule : DisableSchedule(s)
  \/ \E a \in Agent : DeleteSchedulesByAgent(a) \/ DeleteAgent(a)
  \/ \E p \in Process :
       ReadDue(p) \/ FireNext(p) \/ StopScheduler(p) \/ StartScheduler(p)
  \/ Tick

Spec == Init /\ [][Next]_vars

\* The ticker of Scheduler.Run reads, the loop over the batch goes on, and a
\* server that stopped is started again.
Fairness ==
  \A p \in Process :
    WF_vars(ReadDue(p)) /\ WF_vars(FireNext(p)) /\ WF_vars(StartScheduler(p))

FairSpec == Spec /\ Fairness

-----------------------------------------------------------------------------
(* Properties.                                                             *)

ScheduleRow ==
  [agent : Agent \cup {"none"}, cron : Cron \cup {0}, enabled : BOOLEAN,
   nextFire : Nat \cup {Never}, lastFire : Nat \cup {Never},
   createdAt : Nat, updatedAt : Nat]
FiredMessage ==
  [schedule : Schedule, agent : Agent, cron : Cron,
   dueAt : Nat \cup {Never}, firedAt : Nat, limit : Nat]
Snapshot == [id : Schedule, row : ScheduleRow]
SchedulerState ==
  [phase : {"idle", "firing", "looping", "stopped"}, now : Nat,
   batch : SUBSET Snapshot]

\* Types of the variables; a batch never exceeds its limit.
TypeOK ==
  /\ clock \in Nat
  /\ agents \subseteq Agent
  /\ schedules \in [Schedule -> ScheduleRow]
  /\ fired \in Seq(FiredMessage)
  /\ scheduler \in [Process -> SchedulerState]
  /\ \A p \in Process : /\ IsFiniteSet(scheduler[p].batch)
                      /\ Cardinality(scheduler[p].batch) <= BatchSize
  /\ changes \in 0..MaxChanges
  /\ faults \in 0..MaxFaults

\* No occurrence of a schedule is fired twice, by whichever scheduler, from
\* whichever copy of the row: each message of a schedule id is due after its
\* previous message was fired, even when the schedule was deleted and created
\* again in between.
FiredOnce ==
  \A i, j \in DOMAIN fired :
    /\ i < j
    /\ fired[i].schedule = fired[j].schedule
    => fired[i].firedAt < fired[j].dueAt

\* Catching up skips occurrences but loses none: every match between the
\* creation of an enabled schedule and its next firing is answered by a
\* message that was due no later and fired no earlier.
NoLostOccurrence ==
  \A s \in Schedule :
    schedules[s].enabled /\ schedules[s].cron # 0 =>
      \A t \in (schedules[s].createdAt + 1)..(schedules[s].nextFire - 1) :
        t % schedules[s].cron = 0 =>
          \E i \in DOMAIN fired :
            /\ fired[i].schedule = s
            /\ fired[i].dueAt <= t /\ t <= fired[i].firedAt

\* docs/agent-yaml-guide.md: "Disabled schedules are stored but not fired."
\* More: a message is fired only from a row that at that moment is enabled,
\* due, and has the agent and expression the message was made from.
FiresCurrentRow ==
  [][fired' # fired =>
       LET m == fired'[Len(fired')]
           row == schedules[m.schedule] IN
       /\ row.enabled
       /\ row.agent = m.agent /\ row.cron = m.cron
       /\ row.nextFire = m.dueAt /\ m.dueAt <= m.firedAt]_vars

IsDue(s) ==
  /\ schedules[s].enabled /\ schedules[s].cron # 0
  /\ schedules[s].nextFire <= clock

\* A schedule that is due is fired, disabled or deleted in the end: no batch
\* limit, failed transaction or rival scheduler starves it, unless every
\* scheduler has been caught in a catch-up loop.
FiredUnlessStuck ==
  \A s \in Schedule :
    IsDue(s) ~> \/ ~IsDue(s)
                \/ \A p \in Process : scheduler[p].phase = "looping"

-----------------------------------------------------------------------------
(* The schedulers of all processes implement Timetable: a message that a   *)
(* scheduler makes from a copied row, however long it held the copy and    *)
(* whoever wrote to the table meanwhile, is the message of the row as it   *)
(* is when the transaction commits.                                        *)

plans ==
  [s \in Schedule |-> [agent |-> schedules[s].agent, cron |-> schedules[s].cron,
                       on |-> schedules[s].enabled]]

dueTimes == [s \in Schedule |-> schedules[s].nextFire]

Timetable == INSTANCE Timetable WITH
  Limit <- ScheduledMaxAttempts,
  time <- clock,
  plan <- plans,
  waits <- dueTimes,
  sent <- fired

\* docs/agent-yaml-guide.md: "Disabled schedules are stored but not fired."
\* More: every behaviour of the schedulers is one of the timetable, in which
\* a message is made from the current row, once for each stretch of occurrences.
ImplementsTimetable == Timetable!TimetableSpec

-----------------------------------------------------------------------------
(* The inductive invariant behind FiredOnce and FiresCurrentRow.  A copy   *)
(* of a row outlives the row: the invariant says why the comparison of     *)
(* next_fire_at_ms alone still tells the two apart.                        *)

\* Time does not run backwards for what is remembered.
PastIsPast ==
  /\ \A i \in DOMAIN fired : fired[i].firedAt <= clock
  /\ \A p \in Process : scheduler[p].now <= clock

\* An enabled row has a due time unless its expression has no match.
DueTimeOfRow(row) ==
  row.enabled /\ row.nextFire = Never => row.cron = 0

\* Rows wait for a time later than everything fired for their id.
WaitsAhead ==
  \A s \in Schedule :
    /\ DueTimeOfRow(schedules[s])
    /\ schedules[s].enabled /\ schedules[s].nextFire # Never =>
         \A i \in DOMAIN fired :
           fired[i].schedule = s => fired[i].firedAt < schedules[s].nextFire

\* A copied row was due when it was read.
CopiedWhenDue ==
  \A p \in Process : \A d \in scheduler[p].batch :
    d.row.enabled /\ DueTimeOfRow(d.row) /\ d.row.nextFire <= scheduler[p].now

\* The row a copy was made of is still that row, or waits for a later time.
CopyOrLater ==
  \A p \in Process : \A d \in scheduler[p].batch :
    LET row == schedules[d.id] IN
    \/ ~row.enabled
    \/ row.nextFire = Never
    \/ row.agent = d.row.agent /\ row.cron = d.row.cron
    \/ d.row.nextFire < row.nextFire

\* The inductive invariant.
FiringInv ==
  PastIsPast /\ WaitsAhead /\ CopiedWhenDue /\ CopyOrLater /\ FiredOnce
=============================================================================
