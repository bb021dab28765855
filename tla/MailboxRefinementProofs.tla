---------------------- MODULE MailboxRefinementProofs ----------------------
(***************************************************************************)
(* The mailbox of one process implements TaskQueue, for every set of       *)
(* agents and workers and every bound: each of its steps is a step of the  *)
(* abstract queue under the mapping of Mailbox, or leaves the mapped state *)
(* alone.                                                                  *)
(***************************************************************************)
EXTENDS MailboxProofs

-----------------------------------------------------------------------------
(* The mapping.                                                            *)

\* The state of a task in terms of its row.
LEMMA TaskStates ==
  ASSUME NEW m \in Message, msgs[m].status \in MessageStatus
  PROVE  /\ msgs[m].status \in {"queued", "leased"} => taskState[m] = "pending"
         /\ msgs[m].status = "completed" => taskState[m] = "done"
         /\ msgs[m].status = "dead_letter" => taskState[m] = "dead"
         /\ msgs[m].status = "absent" /\ m <= lastMsg => taskState[m] = "dropped"
         /\ msgs[m].status = "absent" /\ ~(m <= lastMsg) => taskState[m] = "new"
  BY DEF taskState, MessageStatus

LEMMA Stutter ==
  ASSUME UNCHANGED <<msgs, lastMsg>>
  PROVE  UNCHANGED Queue!queueVars
  BY DEF Queue!queueVars, taskState, taskHanded, taskLimit

-----------------------------------------------------------------------------
(* The steps.                                                              *)

LEMMA EnqueueSubmits ==
  ASSUME IInv, NEW a \in Agent, NEW l \in Limits, NEW d \in Delays,
         EnqueueMessage(a, l, d)
  PROVE  Queue!QueueNext
<1> DEFINE n == lastMsg + 1
<1>1. /\ n \in Message /\ lastMsg' = n /\ lastMsg \in Nat
      /\ msgs[n] = NoMsg /\ msgs'[n] = NewMsg(a, l, d, 0)
      /\ \A x \in Message : x # n => msgs'[x] = msgs[x]
      /\ \A x \in Message : x # n => (x <= lastMsg <=> x <= lastMsg')
      /\ ~(n <= lastMsg)
  BY Bounds DEF EnqueueMessage, IInv, TypeOK, Message, RowsInOrder
<1> HIDE DEF n
<1>2. taskState[n] = "new"
  BY <1>1, TaskStates DEF NoMsg, MessageStatus
<1>3. taskState' = [taskState EXCEPT ![n] = "pending"]
  <2>1. \A x \in Message : taskState'[x] = IF x = n THEN "pending" ELSE taskState[x]
    BY <1>1 DEF taskState, NewMsg
  <2> QED
    BY <2>1 DEF taskState
<1>4. taskHanded' = taskHanded
  BY <1>1 DEF taskHanded, NoMsg, NewMsg
<1>5. \E given \in [{n} -> Limits] :
        taskLimit' = [t \in Message |-> IF t \in {n} THEN given[t] ELSE taskLimit[t]]
  <2> DEFINE given == [t \in {n} |-> l]
  <2>1. given \in [{n} -> Limits]
    OBVIOUS
  <2>2. \A x \in Message : taskLimit'[x] = IF x \in {n} THEN given[x] ELSE taskLimit[x]
    BY <1>1 DEF taskLimit, NewMsg
  <2>3. taskLimit' = [t \in Message |-> IF t \in {n} THEN given[t] ELSE taskLimit[t]]
    BY <2>2 DEF taskLimit
  <2> QED
    BY <2>1, <2>3
<1>6. Queue!Submit(n)
  BY <1>2, <1>3, <1>4, <1>5 DEF Queue!Submit, Queue!Enter
<1> QED
  BY <1>1, <1>6 DEF Queue!QueueNext

LEMMA ClaimHandsOut ==
  ASSUME IInv, NEW w \in Worker, ClaimNextMessage(w)
  PROVE  Queue!QueueNext
<1>1. PICK m \in Message :
        /\ Candidate(m, AgentOf[w])
        /\ msgs' = [msgs EXCEPT ![m] = Leased(msgs[m], lastRun + 1)]
  BY DEF ClaimNextMessage
<1>2. /\ lastMsg' = lastMsg /\ lastRun + 1 \in 0..MaxRuns
      /\ clock \in Nat /\ msgs \in [Message -> MsgRow]
  BY Bounds DEF ClaimNextMessage, IInv, TypeOK
<1>3. /\ msgs[m].status \in {"queued", "leased"}
      /\ msgs'[m].status = "leased"
      /\ msgs'[m].attempts = msgs[m].attempts + 1
      /\ msgs'[m].limit = msgs[m].limit
      /\ \A x \in Message : x # m => msgs'[x] = msgs[x]
  BY <1>1, <1>2, LeasedRow DEF Candidate, Claimable
<1>4. taskState[m] = "pending"
  BY <1>3 DEF taskState
<1>5. taskState' = taskState
  BY <1>2, <1>3 DEF taskState
<1>6. taskHanded' = [taskHanded EXCEPT ![m] = @ + 1]
  <2>1. \A x \in Message :
          taskHanded'[x] = IF x = m THEN taskHanded[m] + 1 ELSE taskHanded[x]
    BY <1>3 DEF taskHanded
  <2> QED
    BY <2>1 DEF taskHanded
<1>7. taskLimit' = taskLimit
  BY <1>3 DEF taskLimit
<1>8. Queue!HandOut(m)
  BY <1>4, <1>5, <1>6, <1>7 DEF Queue!HandOut
<1> QED
  BY <1>8 DEF Queue!QueueNext

\* What CompleteRun does to the rows, as the abstract queue sees them.
LEMMA CompleteRunRows ==
  ASSUME IInv, NEW w \in Worker, NEW result \in RunStatus,
         NEW status \in MessageStatus, NEW t \in Nat, NEW out \in Outbox,
         CompleteRun(w, result, status, t, out)
  PROVE  LET m == worker[w].msg IN
         /\ m \in Message /\ m <= lastMsg /\ msgs[m].status = "leased"
         /\ msgs'[m].status = status
         /\ msgs'[m].attempts = msgs[m].attempts
         /\ msgs'[m].limit = msgs[m].limit
         /\ lastMsg \in Nat /\ lastMsg' \in Nat /\ lastMsg <= lastMsg'
         /\ out = <<>> => lastMsg' = lastMsg
         /\ \A x \in Message : x # m /\ (x <= lastMsg \/ x > lastMsg') =>
              msgs'[x] = msgs[x]
         /\ \A x \in Message : lastMsg < x /\ x <= lastMsg' =>
              /\ msgs'[x].status = "queued"
              /\ msgs'[x].attempts = 0
              /\ msgs'[x].limit \in Limits
<1> DEFINE m == worker[w].msg
<1>1. /\ m \in Message /\ m <= lastMsg /\ msgs[m].status = "leased"
      /\ msgs'[m].status = status
      /\ lastMsg \in Nat /\ lastMsg' \in Nat /\ lastMsg <= lastMsg'
      /\ \A x \in Message : x # m /\ (x <= lastMsg \/ x > lastMsg') =>
           msgs'[x] = msgs[x]
      /\ \A x \in Message : lastMsg < x /\ x <= lastMsg' =>
           msgs'[x].status = "queued"
  BY CompleteRunEffect
<1>2. /\ lastMsg' = lastMsg + Len(out)
      /\ \A x \in Message :
           msgs'[x] = IF x = m
                      THEN Released(msgs[m], status, t)
                      ELSE IF x - lastMsg \in DOMAIN out
                      THEN NewMsg(out[x - lastMsg].to, out[x - lastMsg].limit,
                                  out[x - lastMsg].delay, worker[w].run)
                      ELSE msgs[x]
  BY DEF CompleteRun
<1>3. msgs[m] \in MsgRow
  BY <1>1 DEF IInv, TypeOK
<1>4. msgs'[m].attempts = msgs[m].attempts /\ msgs'[m].limit = msgs[m].limit
  <2>1. msgs'[m] = Released(msgs[m], status, t)
    BY <1>1, <1>2
  <2> QED
    BY <1>3, <2>1, ReleasedRow
<1>5. out = <<>> => lastMsg' = lastMsg
  BY <1>1, <1>2
<1>6. \A x \in Message : lastMsg < x /\ x <= lastMsg' =>
        msgs'[x].attempts = 0 /\ msgs'[x].limit \in Limits
  <2> SUFFICES ASSUME NEW x \in Message, lastMsg < x, x <= lastMsg'
               PROVE  msgs'[x].attempts = 0 /\ msgs'[x].limit \in Limits
    OBVIOUS
  <2>1. x - lastMsg \in DOMAIN out /\ x # m
    BY <1>1, <1>2, OutboxIsSeq, Bounds DEF Message
  <2>2. msgs'[x] = NewMsg(out[x - lastMsg].to, out[x - lastMsg].limit,
                          out[x - lastMsg].delay, worker[w].run)
    BY <1>2, <2>1
  <2> QED
    BY <2>1, <2>2, OutboxIsSeq DEF NewMsg
<1> HIDE DEF m
<1> QED
  BY <1>1, <1>4, <1>5, <1>6 DEF m

\* The rows of an outbox enter the queue with the message they answer.
LEMMA FinishSettles ==
  ASSUME IInv, RowsCount, NEW w \in Worker, Finish(w)
  PROVE  Queue!QueueNext
<1>1. clock \in Nat /\ "finished" \in RunStatus /\ "completed" \in MessageStatus
  BY DEF IInv, TypeOK, RunStatus, MessageStatus
<1>2. PICK out \in Outbox : CompleteRun(w, "finished", "completed", clock, out)
  BY DEF Finish
<1> DEFINE m == worker[w].msg
           S == {x \in Message : lastMsg < x /\ x <= lastMsg'}
<1>3. /\ m \in Message /\ m <= lastMsg /\ msgs[m].status = "leased"
      /\ msgs'[m].status = "completed"
      /\ msgs'[m].attempts = msgs[m].attempts
      /\ msgs'[m].limit = msgs[m].limit
      /\ lastMsg \in Nat /\ lastMsg' \in Nat /\ lastMsg <= lastMsg'
      /\ \A x \in Message : x # m /\ (x <= lastMsg \/ x > lastMsg') =>
           msgs'[x] = msgs[x]
      /\ \A x \in Message : lastMsg < x /\ x <= lastMsg' =>
           /\ msgs'[x].status = "queued"
           /\ msgs'[x].attempts = 0
           /\ msgs'[x].limit \in Limits
  BY <1>1, <1>2, CompleteRunRows
<1> HIDE DEF m
<1>4. /\ \A x \in S : msgs[x] = NoMsg /\ ~(x <= lastMsg)
      /\ m \notin S
      /\ \A x \in Message : x \notin S => (x <= lastMsg <=> x <= lastMsg')
      /\ \A x \in Message : x \notin S /\ x # m => msgs'[x] = msgs[x]
  BY <1>3, Bounds DEF IInv, RowsInOrder, Message
<1>5. taskState[m] = "pending" /\ \A x \in S : taskState[x] = "new"
  BY <1>3, <1>4 DEF taskState, NoMsg
<1>6. taskHanded[m] > 0 /\ taskHanded' = taskHanded
  BY <1>3, <1>4 DEF taskHanded, NoMsg, RowsCount
<1>7. \E given \in [S -> Limits] :
        taskLimit' = [x \in Message |-> IF x \in S THEN given[x] ELSE taskLimit[x]]
  <2> DEFINE given == [x \in S |-> msgs'[x].limit]
  <2>1. given \in [S -> Limits]
    BY <1>3
  <2>2. taskLimit' = [x \in Message |-> IF x \in S THEN given[x] ELSE taskLimit[x]]
    BY <1>3, <1>4 DEF taskLimit
  <2> QED
    BY <2>1, <2>2
<1>8. taskState' = [x \in Message |-> IF x = m THEN "done"
                                     ELSE IF x \in S THEN "pending"
                                     ELSE taskState[x]]
  <2>1. ASSUME NEW x \in Message
        PROVE  taskState'[x] = IF x = m THEN "done"
                               ELSE IF x \in S THEN "pending" ELSE taskState[x]
    <3>1. CASE x = m
      BY <1>3, <3>1 DEF taskState
    <3>2. CASE x \in S
      BY <1>3, <1>4, <3>2 DEF taskState
    <3>3. CASE x # m /\ x \notin S
      BY <1>4, <3>3 DEF taskState
    <3> QED
      BY <3>1, <3>2, <3>3, <1>4
  <2> HIDE DEF S
  <2> QED
    BY <2>1 DEF taskState
<1>9. Queue!Settle(m, S)
  BY <1>5, <1>6, <1>7, <1>8 DEF Queue!Settle, Queue!Enter
<1>10. S \in SUBSET Message
  OBVIOUS
<1> HIDE DEF S
<1> QED
  BY <1>3, <1>9, <1>10 DEF Queue!QueueNext

\* A failed run gives its message back: the task was and stays pending.
LEMMA RetryStutters ==
  ASSUME IInv, NEW w \in Worker, Retry(w)
  PROVE  UNCHANGED Queue!queueVars
<1> DEFINE m == worker[w].msg
<1>1. /\ clock + RetryDelay \in Nat
      /\ "failed" \in RunStatus /\ "queued" \in MessageStatus
      /\ CompleteRun(w, "failed", "queued", clock + RetryDelay, <<>>)
  BY Bounds DEF IInv, TypeOK, RunStatus, MessageStatus, Retry
<1>2. /\ m \in Message /\ msgs[m].status = "leased" /\ msgs'[m].status = "queued"
      /\ msgs'[m].attempts = msgs[m].attempts
      /\ msgs'[m].limit = msgs[m].limit
      /\ lastMsg \in Nat /\ lastMsg' = lastMsg
      /\ \A x \in Message : x # m => msgs'[x] = msgs[x]
  <2>1. /\ m \in Message /\ msgs[m].status = "leased" /\ msgs'[m].status = "queued"
        /\ msgs'[m].attempts = msgs[m].attempts
        /\ msgs'[m].limit = msgs[m].limit
        /\ lastMsg \in Nat /\ lastMsg' = lastMsg
        /\ \A x \in Message : x # m /\ (x <= lastMsg \/ x > lastMsg') =>
             msgs'[x] = msgs[x]
    BY <1>1, EmptyOutbox, CompleteRunRows
  <2> QED
    BY <2>1 DEF Message
<1> HIDE DEF m
<1> QED
  BY <1>2 DEF Queue!queueVars, taskState, taskHanded, taskLimit

\* The trigger's copy of the attempts is the row's, so a message is buried
\* only after it was handed out as often as its limit says.
LEMMA DeadLetterBuries ==
  ASSUME IInv, NEW w \in Worker, DeadLetter(w)
  PROVE  Queue!QueueNext
<1> DEFINE m == worker[w].msg
<1>1. /\ clock \in Nat
      /\ "failed" \in RunStatus /\ "dead_letter" \in MessageStatus
      /\ CompleteRun(w, "failed", "dead_letter", clock, <<>>)
      /\ Active(w) /\ Exhausted(w)
      /\ runs[worker[w].run].status # "absent"
  BY DEF IInv, TypeOK, RunStatus, MessageStatus, DeadLetter, CompleteRun
<1>2. /\ m \in Message /\ msgs[m].status = "leased"
      /\ msgs'[m].status = "dead_letter"
      /\ msgs'[m].attempts = msgs[m].attempts
      /\ msgs'[m].limit = msgs[m].limit
      /\ lastMsg \in Nat /\ lastMsg' = lastMsg
      /\ \A x \in Message : x # m => msgs'[x] = msgs[x]
  <2>1. /\ m \in Message /\ msgs[m].status = "leased"
        /\ msgs'[m].status = "dead_letter"
        /\ msgs'[m].attempts = msgs[m].attempts
        /\ msgs'[m].limit = msgs[m].limit
        /\ lastMsg \in Nat /\ lastMsg' = lastMsg
        /\ \A x \in Message : x # m /\ (x <= lastMsg \/ x > lastMsg') =>
             msgs'[x] = msgs[x]
    BY <1>1, EmptyOutbox, CompleteRunRows
  <2> QED
    BY <2>1 DEF Message
<1>3. msgs[m].limit > 0 /\ msgs[m].attempts >= msgs[m].limit
  BY <1>1 DEF IInv, ActiveHoldsMessage, Exhausted
<1> HIDE DEF m
<1>4. taskState[m] = "pending" /\ taskLimit[m] > 0 /\ taskHanded[m] >= taskLimit[m]
  BY <1>2, <1>3 DEF taskState, taskLimit, taskHanded
<1>5. taskState' = [taskState EXCEPT ![m] = "dead"]
  <2>1. \A x \in Message : taskState'[x] = IF x = m THEN "dead" ELSE taskState[x]
    BY <1>2 DEF taskState
  <2> QED
    BY <2>1 DEF taskState
<1>6. taskHanded' = taskHanded /\ taskLimit' = taskLimit
  BY <1>2 DEF taskHanded, taskLimit
<1>7. Queue!Bury(m)
  BY <1>4, <1>5, <1>6 DEF Queue!Bury
<1> QED
  BY <1>2, <1>7 DEF Queue!QueueNext

\* The rows of a deleted agent are dropped together.
LEMMA DeleteAgentDrops ==
  ASSUME IInv, RowsCount, NEW a, DeleteAgent(a)
  PROVE  Queue!QueueNext
<1> DEFINE S == {x \in Message : msgs[x].to = a /\ msgs[x].status # "absent"}
<1>1. /\ lastMsg' = lastMsg
      /\ \A x \in Message : msgs'[x] = IF x \in S THEN NoMsg ELSE msgs[x]
  BY DEF DeleteAgent, RowsCount
<1>2. \A x \in S : /\ x <= lastMsg
                   /\ msgs[x].status \in {"queued", "leased", "completed", "dead_letter"}
  <2> SUFFICES ASSUME NEW x \in S
               PROVE  /\ x <= lastMsg
                      /\ msgs[x].status \in {"queued", "leased", "completed", "dead_letter"}
    OBVIOUS
  <2>1. msgs[x].status \in MessageStatus
    BY DEF IInv, TypeOK, MsgRow
  <2>2. lastMsg \in Nat /\ x \in Nat
    BY Bounds DEF IInv, TypeOK, Message
  <2> QED
    BY <2>1, <2>2 DEF IInv, RowsInOrder, NoMsg, MessageStatus
<1>3. \A x \in S : taskState[x] \in {"pending", "done", "dead"}
  BY <1>2 DEF taskState
<1>4. S \in SUBSET Message
  OBVIOUS
<1> HIDE DEF S
<1>5. taskState' = [x \in Message |-> IF x \in S THEN "dropped" ELSE taskState[x]]
  <2>1. \A x \in Message :
          taskState'[x] = IF x \in S THEN "dropped" ELSE taskState[x]
    BY <1>1, <1>2 DEF taskState, NoMsg
  <2> QED
    BY <2>1 DEF taskState
<1>6. /\ taskHanded' = [x \in Message |-> IF x \in S THEN 0 ELSE taskHanded[x]]
      /\ taskLimit' = [x \in Message |-> IF x \in S THEN 0 ELSE taskLimit[x]]
  BY <1>1 DEF taskHanded, taskLimit, NoMsg
<1>7. Queue!Drop(S)
  BY <1>3, <1>5, <1>6 DEF Queue!Drop
<1> QED
  BY <1>4, <1>7 DEF Queue!QueueNext

-----------------------------------------------------------------------------
(* The theorem.                                                            *)

LEMMA NextRowsCount ==
  ASSUME IInv, RowsCount, [Next]_vars
  PROVE  RowsCount'
<1> SUFFICES ASSUME NEW x \in Message
             PROVE  /\ msgs'[x].status = "absent" => msgs'[x] = NoMsg
                    /\ msgs'[x].status = "leased" => msgs'[x].attempts > 0
  BY DEF RowsCount
<1>1. /\ msgs[x].status = "absent" => msgs[x] = NoMsg
      /\ msgs[x].status = "leased" => msgs[x].attempts > 0
      /\ clock \in Nat /\ lastMsg \in Nat /\ msgs \in [Message -> MsgRow]
  BY Bounds DEF RowsCount, IInv, TypeOK
<1>2. ASSUME NEW a, NEW l, NEW d, EnqueueMessage(a, l, d)
      PROVE  msgs'[x] = msgs[x] \/ msgs'[x].status = "queued"
  BY <1>1, <1>2 DEF EnqueueMessage, NewMsg
<1>3. ASSUME NEW w \in Worker, ClaimNextMessage(w)
      PROVE  \/ msgs'[x] = msgs[x]
             \/ msgs'[x].status = "leased" /\ msgs'[x].attempts > 0
  <2>1. PICK m \in Message : msgs' = [msgs EXCEPT ![m] = Leased(msgs[m], lastRun + 1)]
    BY <1>3 DEF ClaimNextMessage
  <2>2. lastRun + 1 \in 0..MaxRuns /\ msgs[m] \in MsgRow
    BY <1>1, <1>3, Bounds DEF ClaimNextMessage, IInv, TypeOK
  <2>3. msgs[m].attempts \in Nat
    BY <2>2 DEF MsgRow
  <2> QED
    BY <1>1, <2>1, <2>2, <2>3, LeasedRow
<1>4. ASSUME NEW w \in Worker, Finish(w) \/ Retry(w) \/ DeadLetter(w)
      PROVE  \/ msgs'[x] = msgs[x]
             \/ msgs'[x].status \in {"queued", "completed", "dead_letter"}
  <2>1. ASSUME NEW result \in RunStatus,
               NEW status \in {"queued", "completed", "dead_letter"},
               NEW t \in Nat, NEW out \in Outbox,
               CompleteRun(w, result, status, t, out)
        PROVE  \/ msgs'[x] = msgs[x]
               \/ msgs'[x].status \in {"queued", "completed", "dead_letter"}
    <3>1. status \in MessageStatus
      BY DEF MessageStatus
    <3>2. LET m == worker[w].msg IN
          /\ msgs'[m].status = status
          /\ lastMsg' \in Nat
          /\ \A y \in Message : y # m /\ (y <= lastMsg \/ y > lastMsg') =>
               msgs'[y] = msgs[y]
          /\ \A y \in Message : lastMsg < y /\ y <= lastMsg' =>
               msgs'[y].status = "queued"
      BY <2>1, <3>1, CompleteRunRows
    <3> QED
      BY <1>1, <3>2 DEF Message
  <2>2. clock + RetryDelay \in Nat /\ "finished" \in RunStatus /\ "failed" \in RunStatus
    BY <1>1, Bounds DEF RunStatus
  <2> QED
    BY <1>1, <1>4, <2>1, <2>2, EmptyOutbox DEF Finish, Retry, DeadLetter
<1>5. ASSUME NEW w \in Worker, WorkerStep(w)
      PROVE  \/ msgs'[x] = msgs[x]
             \/ msgs'[x].status \in {"queued", "completed", "dead_letter"}
             \/ msgs'[x].status = "leased" /\ msgs'[x].attempts > 0
  BY <1>3, <1>4, <1>5 DEF WorkerStep, StartWorker, RecordStep, CancelWorker,
     ExitCanceled, ExitOrphaned, Fail
<1>6. ASSUME NEW a, DeleteAgent(a) PROVE msgs'[x] \in {msgs[x], NoMsg}
  BY <1>6 DEF DeleteAgent
<1>7. ASSUME \/ \E p : CrashProcess(p)
             \/ \E a : PutAgent(a)
             \/ Tick \/ UNCHANGED vars
      PROVE  msgs'[x] = msgs[x]
  BY <1>7 DEF CrashProcess, PutAgent, Tick, vars
<1>8. NoMsg.status = "absent"
  BY DEF NoMsg
<1> QED
  BY <1>1, <1>2, <1>5, <1>6, <1>7, <1>8 DEF Next

\* Every step of the mailbox is a step of the abstract queue or changes
\* nothing that it sees.
LEMMA StepImplements ==
  ASSUME IInv, RowsCount, [Next]_vars
  PROVE  [Queue!QueueNext]_(Queue!queueVars)
<1>1. ASSUME NEW w \in Worker, WorkerStep(w)
      PROVE  [Queue!QueueNext]_(Queue!queueVars)
  <2>1. CASE ClaimNextMessage(w)
    BY <2>1, ClaimHandsOut
  <2>2. CASE Finish(w)
    BY <2>2, FinishSettles
  <2>3. CASE Retry(w)
    BY <2>3, RetryStutters
  <2>4. CASE DeadLetter(w)
    BY <2>4, DeadLetterBuries
  <2>5. CASE \/ StartWorker(w) \/ RecordStep(w) \/ CancelWorker(w)
             \/ ExitCanceled(w) \/ ExitOrphaned(w) \/ Fail(w)
    <3>1. UNCHANGED <<msgs, lastMsg>>
      BY <2>5 DEF StartWorker, RecordStep, CancelWorker, ExitCanceled,
                  ExitOrphaned, Fail
    <3> QED
      BY <3>1, Stutter
  <2> QED
    BY <1>1, <2>1, <2>2, <2>3, <2>4, <2>5 DEF WorkerStep
<1>2. ASSUME NEW a \in Agent, NEW l \in Limits, NEW d \in Delays,
             EnqueueMessage(a, l, d)
      PROVE  [Queue!QueueNext]_(Queue!queueVars)
  BY <1>2, EnqueueSubmits
<1>3. ASSUME NEW a \in Agent, DeleteAgent(a)
      PROVE  [Queue!QueueNext]_(Queue!queueVars)
  BY <1>3, DeleteAgentDrops
<1>4. ASSUME \/ \E p : CrashProcess(p)
             \/ \E a : PutAgent(a)
             \/ Tick \/ UNCHANGED vars
      PROVE  [Queue!QueueNext]_(Queue!queueVars)
  <2>1. UNCHANGED <<msgs, lastMsg>>
    BY <1>4 DEF CrashProcess, PutAgent, Tick, vars
  <2> QED
    BY <2>1, Stutter
<1> QED
  BY <1>1, <1>2, <1>3, <1>4 DEF Next

\* The mailbox of one process keeps the promises of the abstract queue: a
\* message is settled at most once and its follow-ups enter with its result,
\* nothing happens to it afterwards, and it is dead-lettered only after it was
\* claimed as often as its limit says.
THEOREM MailboxIsQueue == ASSUME OneProcess PROVE Spec => ImplementsQueue
<1>1. Init => Queue!QueueInit
  <2> SUFFICES ASSUME Init PROVE Queue!QueueInit
    OBVIOUS
  <2>1. lastMsg = 0 /\ \A m \in Message : msgs[m] = NoMsg /\ ~(m <= lastMsg)
    BY Bounds DEF Init, Message
  <2> QED
    BY <2>1 DEF Queue!QueueInit, taskState, taskHanded, taskLimit, NoMsg
<1>2. Init => RowsCount
  BY DEF Init, RowsCount, NoMsg
<1>3. IInv /\ RowsCount /\ [Next]_vars => RowsCount'
  BY NextRowsCount
<1>4. IInv /\ RowsCount /\ [Next]_vars => [Queue!QueueNext]_(Queue!queueVars)
  BY StepImplements
<1> QED
  BY <1>1, <1>2, <1>3, <1>4, Inductive, PTL
     DEF Spec, ImplementsQueue, Queue!QueueSpec
=============================================================================
