------------------------------ MODULE Mailbox ------------------------------
(***************************************************************************)
(* The durable mailbox of pkg/server/store and the worker goroutines that  *)
(* consume it.  The tables mailbox_messages, runs and steps are the        *)
(* variables msgs and runs; a worker is one Agent.Serve loop reading its   *)
(* agent's rows through MessageQueue.Next and writing back through         *)
(* StepPersister and ResultPersister.  Every SQLite transaction commits    *)
(* atomically or not at all, so each is one action; a transaction that     *)
(* fails leaves the tables alone and ends the worker (Fail).               *)
(*                                                                         *)
(* Rows are numbered in the order of their insertion (NewID only promises  *)
(* that ids are fresh).  Time is a logical clock that advances while some  *)
(* deadline is still ahead: a tick past the last deadline changes nothing. *)
(***************************************************************************)
EXTENDS Integers, FiniteSets, Sequences

CONSTANTS
  Agent,          \* agent ids that may exist (one namespace)
  Worker,         \* worker goroutines, over all processes
  AgentOf,        \* the agent a worker serves
  ProcessOf,      \* the server process a worker runs in
  CanSend,        \* agents with the allow_message_send capability
  LeaseDuration,  \* runtime.lease_duration, in ticks
  RetryDelay,     \* runtime.retry_delay, in ticks
  Limits,         \* values of max_attempts a message may carry
  Delays,         \* how far ahead available_at may lie when enqueued
  MaxSteps,       \* runtime.max_steps
  MaxOutbox,      \* bound: outbox entries of one result
  MaxMessages,    \* bound: rows ever inserted in mailbox_messages
  MaxRuns,        \* bound: rows ever inserted in runs
  MaxFaults       \* bound: failures, cancellations, crashes, deletions

ASSUME MailboxAssumption ==
  /\ AgentOf \in [Worker -> Agent]
  /\ DOMAIN ProcessOf = Worker
  /\ CanSend \subseteq Agent
  /\ LeaseDuration \in Nat \ {0}
  /\ RetryDelay \in Nat \ {0}
  /\ Limits \subseteq Int
  /\ Delays \subseteq Nat
  /\ {MaxSteps, MaxOutbox, MaxMessages, MaxRuns, MaxFaults} \subseteq Nat

VARIABLES
  clock,    \* the store's now()
  agents,   \* rows of the agents table
  msgs,     \* rows of mailbox_messages
  runs,     \* rows of runs, with the number of their rows in steps
  worker,   \* what each worker goroutine is doing
  lastMsg,  \* the newest message id
  lastRun,  \* the newest run id
  faults    \* faults so far (bounded by MaxFaults)

vars == <<clock, agents, msgs, runs, worker, lastMsg, lastRun, faults>>

Message == 1..MaxMessages
Run == 1..MaxRuns
NoAgent == "none"

MessageStatus == {"absent", "queued", "leased", "completed", "dead_letter"}
\* "failed" stands for max_steps, driver_error and fatal_error.
RunStatus == {"absent", "running", "finished", "failed"}

NoMsg == [to |-> NoAgent, status |-> "absent", availableAt |-> 0,
          createdAt |-> 0, leaseUntil |-> 0, attempts |-> 0, limit |-> 0,
          run |-> 0, origin |-> 0]
NoRun == [msg |-> 0, status |-> "absent", startedAt |-> 0, finishedAt |-> 0,
          steps |-> 0]
Down == [status |-> "down", canceled |-> FALSE, msg |-> 0, run |-> 0,
         attempt |-> 0]
Polling == [status |-> "polling", canceled |-> FALSE, msg |-> 0, run |-> 0,
            attempt |-> 0]

\* The row enqueueMessageTx and EnqueueMessage insert.  origin is a history
\* field: the run whose outbox the message comes from, 0 for any other.
NewMsg(to, limit, delay, origin) ==
  [to |-> to, status |-> "queued", availableAt |-> clock + delay,
   createdAt |-> clock, leaseUntil |-> 0, attempts |-> 0, limit |-> limit,
   run |-> 0, origin |-> origin]

OutboxEntry == [to : Agent, limit : Limits, delay : Delays]
Outbox == UNION {[1..n -> OutboxEntry] : n \in 0..MaxOutbox}

\* A worker in RuntimeManager.workers: running and not canceled.
Managed(w) == worker[w].status # "down" /\ ~worker[w].canceled
\* A worker whose store writes still succeed in the middle of a trigger.
Active(w) == worker[w].status = "working" /\ ~worker[w].canceled

-----------------------------------------------------------------------------
(* Producers.                                                              *)

\* Store.EnqueueMessage; the foreign key wants an existing recipient.
EnqueueMessage(to, limit, delay) ==
  /\ to \in agents
  /\ lastMsg < MaxMessages
  /\ msgs' = [msgs EXCEPT ![lastMsg + 1] = NewMsg(to, limit, delay, 0)]
  /\ lastMsg' = lastMsg + 1
  /\ UNCHANGED <<clock, agents, runs, worker, lastRun, faults>>

-----------------------------------------------------------------------------
(* The store operations of a worker.                                       *)

\* Two slips: no recovery of expired leases, recovery before they expire.
ClaimableQueued(m, a) ==
  msgs[m].to = a /\ msgs[m].status = "queued" /\ msgs[m].availableAt <= clock

\* The WHERE clause shared by claimCandidate and the UPDATE of
\* ClaimNextMessage.  A NULL lease is 0, which has always passed.
Claimable(m, a) ==
  /\ msgs[m].to = a
  /\ msgs[m].status \in {"queued", "leased"}
  /\ msgs[m].availableAt <= clock
  /\ msgs[m].status = "queued" \/ msgs[m].leaseUntil <= clock

\* ORDER BY available_at_ms, created_at_ms; a tie is broken either way.
NotAfter(m, n) ==
  \/ msgs[m].availableAt < msgs[n].availableAt
  \/ /\ msgs[m].availableAt = msgs[n].availableAt
     /\ msgs[m].createdAt <= msgs[n].createdAt

Candidate(m, a) ==
  /\ Claimable(m, a)
  /\ \A n \in Message : Claimable(n, a) => NotAfter(m, n)

\* A slip: a try is counted only when it fails, so a lost lease is not.
LeasedUncounted(row, r) ==
  [row EXCEPT !.status = "leased", !.leaseUntil = clock + LeaseDuration,
              !.run = r]

Leased(row, r) ==
  [row EXCEPT !.status = "leased", !.leaseUntil = clock + LeaseDuration,
              !.attempts = @ + 1, !.run = r]

NewRun(m) ==
  [msg |-> m, status |-> "running", startedAt |-> clock, finishedAt |-> 0,
   steps |-> 0]

Working(m, r, n) ==
  [status |-> "working", canceled |-> FALSE, msg |-> m, run |-> r,
   attempt |-> n]

\* MessageQueue.Next: one transaction leases the message and inserts the run;
\* the trigger carries a copy of the attempt count.
ClaimNextMessage(w) ==
  /\ worker[w].status = "polling" /\ ~worker[w].canceled
  /\ lastRun < MaxRuns
  /\ \E m \in Message :
       /\ Candidate(m, AgentOf[w])
       /\ msgs' = [msgs EXCEPT ![m] = Leased(msgs[m], lastRun + 1)]
       /\ runs' = [runs EXCEPT ![lastRun + 1] = NewRun(m)]
       /\ worker' = [worker EXCEPT
                       ![w] = Working(m, lastRun + 1, msgs[m].attempts + 1)]
  /\ lastRun' = lastRun + 1
  /\ UNCHANGED <<clock, agents, lastMsg, faults>>

\* StepPersister.HandleStep: a row of steps under the worker's run, which the
\* foreign key wants to exist.
RecordStep(w) ==
  LET r == worker[w].run IN
  /\ Active(w)
  /\ runs[r].status # "absent"
  /\ runs[r].steps < MaxSteps
  /\ runs' = [runs EXCEPT ![r].steps = @ + 1]
  /\ UNCHANGED <<clock, agents, msgs, worker, lastMsg, lastRun, faults>>

\* A slip: the UPDATE of a completion forgets run_id = ''.
ReleasedKeepsRun(row, status, availableAt) ==
  [row EXCEPT !.status = status, !.availableAt = availableAt,
              !.leaseUntil = 0]

Released(row, status, availableAt) ==
  [row EXCEPT !.status = status, !.availableAt = availableAt,
              !.leaseUntil = 0, !.run = 0]

\* A slip: the UPDATE selects the runs of the message, not the run.
EndRunsOfMessage(r, result) ==
  [s \in Run |->
     IF runs[s].status # "absent" /\ runs[s].msg = runs[r].msg
     THEN [runs[s] EXCEPT !.status = result, !.finishedAt = clock]
     ELSE runs[s]]

EndRun(r, result) ==
  [runs EXCEPT ![r] = [@ EXCEPT !.status = result, !.finishedAt = clock]]

\* Store.CompleteRun: one transaction updates the run by run id, then the
\* message by message id, whatever run or status that row has now, then
\* inserts the outbox; an UPDATE that hits no row is ErrNotFound.  The worker
\* goes back to its queue.
CompleteRun(w, result, status, availableAt, out) ==
  LET m == worker[w].msg
      r == worker[w].run IN
  /\ Active(w)
  /\ runs[r].status # "absent" /\ msgs[m].status # "absent"
  /\ \A i \in DOMAIN out : out[i].to \in agents
  /\ lastMsg + Len(out) <= MaxMessages
  /\ runs' = EndRun(r, result)
  /\ msgs' = [x \in Message |->
                IF x = m
                THEN Released(msgs[m], status, availableAt)
                ELSE IF x - lastMsg \in DOMAIN out
                THEN NewMsg(out[x - lastMsg].to, out[x - lastMsg].limit,
                            out[x - lastMsg].delay, r)
                ELSE msgs[x]]
  /\ lastMsg' = lastMsg + Len(out)
  /\ worker' = [worker EXCEPT ![w] = Polling]
  /\ UNCHANGED <<clock, agents, lastRun, faults>>

\* ResultPersister.HandleResult, result finished.
Finish(w) ==
  \E out \in Outbox :
    /\ out # <<>> => AgentOf[w] \in CanSend
    /\ CompleteRun(w, "finished", "completed", clock, out)

\* A slip: the attempt about to start is counted already.
ExhaustedEarly(w) ==
  LET limit == msgs[worker[w].msg].limit IN
  limit > 0 /\ worker[w].attempt + 1 >= limit

\* The retry budget, read from the trigger's copies.
Exhausted(w) ==
  LET limit == msgs[worker[w].msg].limit IN
  limit > 0 /\ worker[w].attempt >= limit

\* A slip: the outbox of a failed run is sent as well.
RetrySendsOutbox(w) ==
  /\ Active(w) /\ ~Exhausted(w)
  /\ \E out \in Outbox :
       /\ out # <<>> => AgentOf[w] \in CanSend
       /\ CompleteRun(w, "failed", "queued", clock + RetryDelay, out)

\* HandleResult, any other result: the outbox is dropped.
Retry(w) ==
  /\ Active(w) /\ ~Exhausted(w)
  /\ CompleteRun(w, "failed", "queued", clock + RetryDelay, <<>>)

DeadLetter(w) ==
  /\ Active(w) /\ Exhausted(w)
  /\ CompleteRun(w, "failed", "dead_letter", clock, <<>>)

-----------------------------------------------------------------------------
(* Workers come and go.                                                    *)

\* A slip: SyncOnce starts a worker without looking into its map.
StartWorkerTwice(w) ==
  /\ worker[w].status = "down"
  /\ AgentOf[w] \in agents
  /\ worker' = [worker EXCEPT ![w] = Polling]
  /\ UNCHANGED <<clock, agents, msgs, runs, lastMsg, lastRun, faults>>

\* RuntimeManager.startWorker: only for an agent that is in the table and has
\* no worker in this manager's map.
StartWorker(w) ==
  /\ worker[w].status = "down"
  /\ AgentOf[w] \in agents
  /\ \A v \in Worker : AgentOf[v] = AgentOf[w] /\ ProcessOf[v] = ProcessOf[w]
                         => ~Managed(v)
  /\ worker' = [worker EXCEPT ![w] = Polling]
  /\ UNCHANGED <<clock, agents, msgs, runs, lastMsg, lastRun, faults>>

\* SyncOnce drops the worker from the map and cancels its context, because
\* the agent is gone or its configuration changed; it does not wait for the
\* goroutine.
CancelWorker(w) ==
  /\ Managed(w)
  /\ \/ AgentOf[w] \notin agents /\ faults' = faults
     \/ faults < MaxFaults /\ faults' = faults + 1
  /\ worker' = [worker EXCEPT ![w].canceled = TRUE]
  /\ UNCHANGED <<clock, agents, msgs, runs, lastMsg, lastRun>>

\* A canceled worker notices: HandleTrigger returns ctx.Err(), Serve returns,
\* HandleResult is never called.
ExitCanceled(w) ==
  /\ worker[w].status # "down" /\ worker[w].canceled
  /\ worker' = [worker EXCEPT ![w] = Down]
  /\ UNCHANGED <<clock, agents, msgs, runs, lastMsg, lastRun, faults>>

\* Serve returns another error: a failed transaction, a failed step handler,
\* a spill directory error, an outbox that is malformed, not allowed or
\* addressed to a missing agent.
Fail(w) ==
  /\ Managed(w)
  /\ faults < MaxFaults
  /\ worker' = [worker EXCEPT ![w] = Down]
  /\ faults' = faults + 1
  /\ UNCHANGED <<clock, agents, msgs, runs, lastMsg, lastRun>>

\* The rows of the trigger were deleted under the worker: its next write gets
\* ErrNotFound or a foreign key error, and Serve returns it.
ExitOrphaned(w) ==
  /\ Active(w)
  /\ runs[worker[w].run].status = "absent"
  /\ worker' = [worker EXCEPT ![w] = Down]
  /\ UNCHANGED <<clock, agents, msgs, runs, lastMsg, lastRun, faults>>

\* A server process dies with all its goroutines.
CrashProcess(p) ==
  /\ faults < MaxFaults
  /\ \E w \in Worker : ProcessOf[w] = p /\ worker[w].status # "down"
  /\ worker' = [w \in Worker |-> IF ProcessOf[w] = p THEN Down ELSE worker[w]]
  /\ faults' = faults + 1
  /\ UNCHANGED <<clock, agents, msgs, runs, lastMsg, lastRun>>

-----------------------------------------------------------------------------
(* The agents table.                                                       *)

\* Store.DeleteAgent: ON DELETE CASCADE takes the agent's messages, runs and
\* steps.
DeleteAgent(a) ==
  /\ a \in agents
  /\ faults < MaxFaults
  /\ agents' = agents \ {a}
  /\ msgs' = [m \in Message |-> IF msgs[m].to = a THEN NoMsg ELSE msgs[m]]
  /\ runs' = [r \in Run |->
                IF runs[r].status # "absent" /\ msgs[runs[r].msg].to = a
                THEN NoRun ELSE runs[r]]
  /\ faults' = faults + 1
  /\ UNCHANGED <<clock, worker, lastMsg, lastRun>>

\* Store.PutAgent inserts the row again.
PutAgent(a) ==
  /\ a \notin agents
  /\ agents' = agents \cup {a}
  /\ UNCHANGED <<clock, msgs, runs, worker, lastMsg, lastRun, faults>>

-----------------------------------------------------------------------------
Deadlines ==
  {msgs[m].availableAt : m \in {x \in Message : msgs[x].status = "queued"}}
    \cup {msgs[m].leaseUntil : m \in Message}

Tick ==
  /\ \E t \in Deadlines : t > clock
  /\ clock' = clock + 1
  /\ UNCHANGED <<agents, msgs, runs, worker, lastMsg, lastRun, faults>>

Init ==
  /\ clock = 0
  /\ agents = Agent
  /\ msgs = [m \in Message |-> NoMsg]
  /\ runs = [r \in Run |-> NoRun]
  /\ worker = [w \in Worker |-> Down]
  /\ lastMsg = 0
  /\ lastRun = 0
  /\ faults = 0

\* The end of a turn, however it ends.
Report(w) == Finish(w) \/ Retry(w) \/ DeadLetter(w)

WorkerStep(w) ==
  \/ StartWorker(w) \/ ClaimNextMessage(w) \/ RecordStep(w)
  \/ Finish(w) \/ Retry(w) \/ DeadLetter(w)
  \/ CancelWorker(w) \/ ExitCanceled(w) \/ ExitOrphaned(w) \/ Fail(w)

Next ==
  \/ \E a \in Agent, l \in Limits, d \in Delays : EnqueueMessage(a, l, d)
  \/ \E w \in Worker : WorkerStep(w)
  \/ \E p \in {ProcessOf[w] : w \in Worker} : CrashProcess(p)
  \/ \E a \in Agent : DeleteAgent(a) \/ PutAgent(a)
  \/ Tick

Spec == Init /\ [][Next]_vars

\* The ticker of RuntimeManager.Run restarts workers, the poll loop of Next
\* claims, max_steps and the step timeout end every turn, time passes.
Fairness ==
  /\ \A w \in Worker :
       /\ WF_vars(StartWorker(w))
       /\ WF_vars(ClaimNextMessage(w))
       /\ WF_vars(Report(w))
       /\ WF_vars(ExitCanceled(w))
       /\ WF_vars(ExitOrphaned(w))
  /\ WF_vars(Tick)

FairSpec == Spec /\ Fairness

-----------------------------------------------------------------------------
(* Properties.                                                             *)

MsgRow ==
  [to : Agent \cup {NoAgent}, status : MessageStatus, availableAt : Nat,
   createdAt : Nat, leaseUntil : Nat, attempts : Nat, limit : Int,
   run : 0..MaxRuns, origin : 0..MaxRuns]
RunRow ==
  [msg : 0..MaxMessages, status : RunStatus, startedAt : Nat,
   finishedAt : Nat, steps : 0..MaxSteps]
WorkerState ==
  [status : {"down", "polling", "working"}, canceled : BOOLEAN,
   msg : 0..MaxMessages, run : 0..MaxRuns, attempt : Nat]

\* Types of the variables.
TypeOK ==
  /\ clock \in Nat
  /\ agents \subseteq Agent
  /\ msgs \in [Message -> MsgRow]
  /\ runs \in [Run -> RunRow]
  /\ worker \in [Worker -> WorkerState]
  /\ lastMsg \in 0..MaxMessages
  /\ lastRun \in 0..MaxRuns
  /\ faults \in 0..MaxFaults

RunsOf(m) == {r \in Run : runs[r].status # "absent" /\ runs[r].msg = m}

\* A message is leased exactly while its run_id names a run: that run is its
\* newest one and is still running.  ClaimNextMessage and CompleteRun keep the
\* two tables in step across every interleaving of claims and completions.
LeaseNamesRun ==
  \A m \in Message :
    IF msgs[m].status = "leased"
    THEN /\ msgs[m].run \in RunsOf(m)
         /\ runs[msgs[m].run].status = "running"
         /\ \A r \in RunsOf(m) : r <= msgs[m].run
    ELSE msgs[m].run = 0

\* A worker whose writes still succeed holds the message it works on under its
\* own run, however long ago the lease expired.  CompleteRun checks neither
\* the run id, nor the lease, nor the status of the message it overwrites;
\* this is what makes that sound in one process.
ActiveHoldsMessage ==
  \A w \in Worker :
    /\ Active(w)
    /\ runs[worker[w].run].status # "absent"
    => /\ msgs[worker[w].msg].status = "leased"
       /\ msgs[worker[w].msg].run = worker[w].run
       /\ msgs[worker[w].msg].attempts = worker[w].attempt

\* A message is completed if and only if exactly one of its runs is recorded
\* as finished: no result is committed twice and none is overwritten.
OneFinishedRun ==
  \A m \in Message :
    LET done == {r \in RunsOf(m) : runs[r].status = "finished"} IN
    IF msgs[m].status = "completed"
    THEN \E r \in Run : done = {r}
    ELSE done = {}

\* Outbox messages enter the mailbox with the result that sent them: their
\* run is finished (or deleted), and one message is answered by the outbox of
\* one run only, however often it was tried.
OutboxOnce ==
  \A x, y \in Message :
    LET p == msgs[x].origin  q == msgs[y].origin IN
    /\ p # 0 => runs[p].status \in {"finished", "absent"}
    /\ (p # 0 /\ q # 0 /\ runs[p].status # "absent"
          /\ runs[p].msg = runs[q].msg) => p = q

\* A message has one answer, whoever was given it and however often: one result,
\* and the messages sent with that result.
AnsweredOnce == OneFinishedRun /\ OutboxOnce

\* Run r is over, or its lease is, in time for another try at t.
EndedBefore(r, t) ==
  \/ runs[r].status = "failed" /\ runs[r].finishedAt + RetryDelay <= t
  \/ runs[r].status = "running" /\ runs[r].startedAt + LeaseDuration <= t

\* The tries of one message are spaced: after a failed run the next one waits
\* for retry_delay, after an abandoned one for lease_duration.
RunSpacing ==
  \A m \in Message : \A r, s \in RunsOf(m) :
    r < s => EndedBefore(r, runs[s].startedAt)

\* The leases and the runs of a message tell the same story, whoever claims it
\* when: the newest run holds it, and no run came before its time.
LeasesAreSound == LeaseNamesRun /\ RunSpacing

\* The attempts of a message, which the retry budget is about, are the runs it
\* has had, whichever process started them and however they ended: a completion
\* by a worker that has lost its lease counts none twice and forgets none.
AttemptsAreRuns ==
  \A m \in Message : msgs[m].attempts = Cardinality(RunsOf(m))

\* A message is settled only together with a run of its own that says so, also by
\* a worker that no longer holds it.
ResultsHaveRuns ==
  \A m \in Message :
    /\ msgs[m].status = "completed" =>
         \E r \in RunsOf(m) : runs[r].status = "finished"
    /\ msgs[m].status = "dead_letter" =>
         \E r \in RunsOf(m) : runs[r].status = "failed"

\* However many processes work on one database, and however late their workers
\* report, messages and runs tell the same story.
TablesAgree == LeaseNamesRun /\ AttemptsAreRuns /\ ResultsHaveRuns

\* What is recorded of a run that has ended is never changed, not even by another
\* process that completes the same message later: only a deletion takes it away.
RunsAreFinal ==
  [][\A r \in Run :
       runs[r].status \in {"finished", "failed"} => runs'[r] \in {runs[r], NoRun}]_vars

\* What late workers of other processes cannot harm.
RecordsStand == []TablesAgree /\ RunsAreFinal

\* Completed and dead-lettered messages are final: no late writer changes or
\* reopens such a row; only the deletion of its agent removes it.
TerminalIsFinal ==
  [][\A m \in Message :
       msgs[m].status \in {"completed", "dead_letter"}
         => msgs'[m] \in {msgs[m], NoMsg}]_vars

\* Whoever writes to a run, its steps or its result, holds the message of that
\* run under this very run at that moment: a worker that lost its message to a
\* newer run cannot write behind its back.
FencedWrites ==
  [][\A r \in Run :
       /\ runs[r].status = "running"
       /\ runs'[r] \notin {runs[r], NoRun}
       => msgs[runs[r].msg].run = r]_vars

\* Every message that waits or is leased is eventually completed or
\* dead-lettered, or its agent is deleted: crashes, cancellations and lost
\* leases delay it, and none strands it.
EventuallySettled ==
  \A m \in Message :
    msgs[m].status \in {"queued", "leased"}
      ~> msgs[m].status \in {"completed", "dead_letter", "absent"}

-----------------------------------------------------------------------------
(* The mailbox of one server process implements TaskQueue: a message row   *)
(* that was never inserted is a new task, one whose row was deleted again  *)
(* a dropped one, and queued and leased messages are both pending, since a *)
(* lease can always be lost.                                               *)

taskState ==
  [m \in Message |->
     CASE msgs[m].status \in {"queued", "leased"} -> "pending"
       [] msgs[m].status = "completed" -> "done"
       [] msgs[m].status = "dead_letter" -> "dead"
       [] OTHER -> IF m <= lastMsg THEN "dropped" ELSE "new"]

taskHanded == [m \in Message |-> msgs[m].attempts]
taskLimit == [m \in Message |-> msgs[m].limit]

Queue == INSTANCE TaskQueue WITH
  Task <- Message,
  Limits <- Limits,
  state <- taskState,
  handed <- taskHanded,
  limit <- taskLimit

\* Every behaviour of the mailbox is one of the abstract queue: a message is
\* settled at most once, its follow-ups enter with its result, and it is
\* dead-lettered only after it was claimed as often as its limit says.
ImplementsQueue == Queue!QueueSpec

-----------------------------------------------------------------------------
(* The inductive invariant of a mailbox whose workers all live in one      *)
(* process.  ActiveHoldsMessage and OneFinishedRun are not inductive by    *)
(* themselves: CompleteRun is safe only because the runtime manager has at *)
(* most one worker per agent that may still write, and because claims and  *)
(* completions keep the run rows and the message rows in step.             *)

\* All workers belong to one server process.
OneProcess == \A v, w \in Worker : ProcessOf[v] = ProcessOf[w]

\* Rows are inserted in the order of their ids.
RowsInOrder ==
  /\ \A m \in Message : m > lastMsg => msgs[m] = NoMsg
  /\ \A r \in Run : r > lastRun => runs[r] = NoRun

\* The foreign key of runs: a run belongs to a message that exists.
RunsHaveMessages ==
  \A r \in Run :
    IF runs[r].status = "absent"
    THEN runs[r] = NoRun
    ELSE /\ runs[r].msg \in Message
         /\ msgs[runs[r].msg].status # "absent"

\* RuntimeManager.workers is a map: one managed worker per agent.
OneManaged ==
  \A v, w \in Worker :
    AgentOf[v] = AgentOf[w] /\ Managed(v) /\ Managed(w) => v = w

\* A trigger names rows that were inserted; while its run exists, it is a run
\* of the trigger's message, which is addressed to the worker's agent.
WorkerTask ==
  \A w \in Worker :
    worker[w].status = "working" =>
      /\ worker[w].msg \in Message /\ worker[w].run \in Run
      /\ worker[w].msg <= lastMsg /\ worker[w].run <= lastRun
      /\ runs[worker[w].run].status # "absent" =>
           /\ runs[worker[w].run].msg = worker[w].msg
           /\ msgs[worker[w].msg].to = AgentOf[w]

\* Messages come from the outbox of a finished run, or of a deleted one.
OriginFinished ==
  \A m \in Message :
    LET p == msgs[m].origin IN
    p # 0 => p <= lastRun /\ runs[p].status \in {"finished", "absent"}

\* The inductive invariant: what the runs check as single properties, with
\* the facts about ids, the manager and the triggers that they rest on.
IInv ==
  /\ TypeOK
  /\ RowsInOrder
  /\ RunsHaveMessages
  /\ OneManaged
  /\ WorkerTask
  /\ OriginFinished
  /\ LeaseNamesRun
  /\ ActiveHoldsMessage
  /\ OneFinishedRun

\* What the tables say about time: no run starts in the future, a lease spans
\* lease_duration from the start of its run, and a message that waits becomes
\* available only when all its runs have ended.
LeaseTimes ==
  /\ \A r \in Run : runs[r].startedAt <= clock
  /\ \A m \in Message :
       /\ msgs[m].status = "leased" =>
            msgs[m].leaseUntil = runs[msgs[m].run].startedAt + LeaseDuration
       /\ msgs[m].status = "queued" =>
            \A r \in RunsOf(m) : EndedBefore(r, msgs[m].availableAt)

\* With IInv, the inductive invariant behind RunSpacing.
SpacingInv == LeaseTimes /\ RunSpacing

\* What the mapping needs of a row besides IInv: one that is not there holds
\* nothing, and one that is leased was claimed.
RowsCount ==
  \A m \in Message :
    /\ msgs[m].status = "absent" => msgs[m] = NoMsg
    /\ msgs[m].status = "leased" => msgs[m].attempts > 0

-----------------------------------------------------------------------------
(* The inductive invariant of a mailbox with workers in any number of      *)
(* processes.                                                              *)

\* A run has one worker, as its id is new when it is claimed; as long as that
\* worker has not reported, canceled or not, the run is recorded as running.
OneWriter ==
  \A v, w \in Worker :
    worker[v].status = "working" /\ worker[w].status = "working" =>
      /\ worker[v].run = worker[w].run => v = w
      /\ runs[worker[w].run].status \in {"running", "absent"}

\* What holds in any number of processes.
TablesInv ==
  /\ TypeOK
  /\ RowsInOrder
  /\ RunsHaveMessages
  /\ WorkerTask
  /\ OneWriter
  /\ OriginFinished
  /\ TablesAgree
=============================================================================
