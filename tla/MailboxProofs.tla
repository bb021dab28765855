--------------------------- MODULE MailboxProofs ---------------------------
(***************************************************************************)
(* Proofs about Mailbox, for every set of agents and workers and every     *)
(* value of the bounds: whatever crashes, is canceled, deleted or          *)
(* restarted, and however leases and retries fall in time.  The types hold *)
(* for any number of processes, and so does TablesInv, by which the tables *)
(* agree and ended runs stay as they are.  IInv is an invariant of a       *)
(* mailbox served by one process, and with it the other safety properties. *)
(***************************************************************************)
EXTENDS Mailbox, FiniteSetTheorems, TLAPS

\* The bounds are natural numbers, and 0 is in every range of ids.
LEMMA Bounds ==
  /\ MaxSteps \in Nat /\ MaxOutbox \in Nat /\ MaxMessages \in Nat
  /\ MaxRuns \in Nat /\ MaxFaults \in Nat
  /\ LeaseDuration \in Nat /\ RetryDelay \in Nat
  BY MailboxAssumption

LEMMA Zero == 0 \in Nat /\ 0 \in 0..MaxMessages /\ 0 \in 0..MaxRuns /\ 0 \in 0..MaxSteps
  BY Bounds

\* What CompleteRun makes of a message row.
LEMMA ReleasedRow ==
  ASSUME NEW row \in MsgRow, NEW s \in MessageStatus, NEW t \in Nat
  PROVE  /\ Released(row, s, t) \in MsgRow
         /\ Released(row, s, t).status = s
         /\ Released(row, s, t).run = 0
         /\ Released(row, s, t).to = row.to
         /\ Released(row, s, t).attempts = row.attempts
         /\ Released(row, s, t).limit = row.limit
         /\ Released(row, s, t).origin = row.origin
<1>1. Released(row, s, t) \in MsgRow
  <2> DEFINE half == [row EXCEPT !.status = s, !.availableAt = t]
  <2>1. half \in MsgRow
    BY DEF MsgRow
  <2>2. Released(row, s, t) = [half EXCEPT !.leaseUntil = 0, !.run = 0]
    BY DEF Released
  <2> HIDE DEF half
  <2> QED
    BY <2>1, <2>2, Zero DEF MsgRow
<1> QED
  BY <1>1 DEF Released, MsgRow

\* What a claim makes of a message row.
LEMMA LeasedRow ==
  ASSUME NEW row \in MsgRow, NEW r \in 0..MaxRuns, clock \in Nat
  PROVE  /\ Leased(row, r) \in MsgRow
         /\ Leased(row, r).status = "leased"
         /\ Leased(row, r).run = r
         /\ Leased(row, r).attempts = row.attempts + 1
         /\ Leased(row, r).to = row.to
         /\ Leased(row, r).limit = row.limit
         /\ Leased(row, r).origin = row.origin
<1>1. Leased(row, r) \in MsgRow
  <2> DEFINE u == clock + LeaseDuration
             n == row.attempts + 1
             half == [row EXCEPT !.status = "leased", !.leaseUntil = u]
  <2>0. u \in Nat /\ n \in Nat /\ "leased" \in MessageStatus
    BY Bounds DEF MsgRow, MessageStatus
  <2> HIDE DEF u, n
  <2>1. half \in MsgRow
    BY <2>0 DEF MsgRow
  <2>2. Leased(row, r) = [half EXCEPT !.attempts = n, !.run = r]
    BY DEF Leased, n, u, MsgRow
  <2> HIDE DEF half
  <2> QED
    BY <2>0, <2>1, <2>2 DEF MsgRow
<1> QED
  BY <1>1 DEF Leased, MsgRow

\* The other rows the actions write have the types of their tables.
LEMMA OtherRows ==
  /\ NoMsg \in MsgRow
  /\ NoRun \in RunRow
  /\ Down \in WorkerState /\ Polling \in WorkerState
  /\ \A m \in 0..MaxMessages, r \in 0..MaxRuns, n \in Nat :
       Working(m, r, n) \in WorkerState
<1>1. NoMsg \in MsgRow
  BY Zero DEF NoMsg, MsgRow, NoAgent, MessageStatus
<1>2. NoRun \in RunRow
  BY Zero DEF NoRun, RunRow, RunStatus
<1>3. Down \in WorkerState /\ Polling \in WorkerState
  BY Zero DEF Down, Polling, WorkerState
<1>4. \A m \in 0..MaxMessages, r \in 0..MaxRuns, n \in Nat :
        Working(m, r, n) \in WorkerState
  BY DEF Working, WorkerState
<1> QED
  BY <1>1, <1>2, <1>3, <1>4

LEMMA NewMsgRow ==
  ASSUME clock \in Nat, NEW to \in Agent, NEW l \in Limits, NEW d \in Delays,
         NEW o \in 0..MaxRuns
  PROVE  NewMsg(to, l, d, o) \in MsgRow
  BY Zero, MailboxAssumption DEF NewMsg, MsgRow, MessageStatus

LEMMA NewRunRow ==
  ASSUME clock \in Nat, NEW m \in Message
  PROVE  NewRun(m) \in RunRow
  BY Bounds, Zero DEF NewRun, RunRow, RunStatus, Message

\* An outbox is a sequence of well-formed entries.
LEMMA OutboxIsSeq ==
  ASSUME NEW out \in Outbox
  PROVE  /\ Len(out) \in Nat /\ DOMAIN out = 1..Len(out)
         /\ \A i \in DOMAIN out : /\ out[i].to \in Agent
                                  /\ out[i].limit \in Limits
                                  /\ out[i].delay \in Delays
<1>1. PICK n \in 0..MaxOutbox : out \in [1..n -> OutboxEntry]
  BY DEF Outbox
<1>2. n \in Nat /\ out \in Seq(OutboxEntry)
  BY <1>1, Bounds
<1> QED
  BY <1>1, <1>2 DEF OutboxEntry

LEMMA EmptyOutbox == <<>> \in Outbox
<1>1. <<>> \in [1..0 -> OutboxEntry]
  OBVIOUS
<1> QED
  BY <1>1, Zero, Bounds DEF Outbox

-----------------------------------------------------------------------------
(* Type correctness.                                                       *)

\* CompleteRun keeps the types, whichever result it writes.
LEMMA CompleteRunType ==
  ASSUME TypeOK, NEW w \in Worker, NEW result \in RunStatus,
         NEW status \in MessageStatus, NEW t \in Nat, NEW out \in Outbox,
         CompleteRun(w, result, status, t, out)
  PROVE  TypeOK'
<1> DEFINE m == worker[w].msg
           r == worker[w].run
           f(x) == IF x = m THEN Released(msgs[m], status, t)
                   ELSE IF x - lastMsg \in DOMAIN out
                   THEN NewMsg(out[x - lastMsg].to, out[x - lastMsg].limit,
                               out[x - lastMsg].delay, r)
                   ELSE msgs[x]
<1>1. /\ worker[w] \in WorkerState
      /\ m \in 0..MaxMessages /\ r \in 0..MaxRuns
  BY DEF TypeOK, WorkerState
<1>2. msgs' \in [Message -> MsgRow]
  <2>1. ASSUME NEW x \in Message PROVE f(x) \in MsgRow
    <3>1. CASE x = m
      BY <3>1, ReleasedRow DEF TypeOK
    <3>2. CASE x # m /\ x - lastMsg \in DOMAIN out
      BY <1>1, <3>2, OutboxIsSeq, NewMsgRow DEF TypeOK
    <3>3. CASE x # m /\ x - lastMsg \notin DOMAIN out
      BY <3>3 DEF TypeOK
    <3> QED
      BY <3>1, <3>2, <3>3
  <2>2. msgs' = [x \in Message |-> f(x)]
    BY DEF CompleteRun
  <2> HIDE DEF f
  <2> QED
    BY <2>1, <2>2
<1>3. runs' \in [Run -> RunRow]
  <2>1. runs' = [runs EXCEPT ![r] = [@ EXCEPT
                   !.status = result, !.finishedAt = clock]]
    BY DEF CompleteRun, EndRun
  <2>2. \A s \in Run : [runs[s] EXCEPT !.status = result, !.finishedAt = clock]
                         \in RunRow
    BY DEF TypeOK, RunRow
  <2> QED
    BY <2>1, <2>2 DEF TypeOK
<1>4. worker' \in [Worker -> WorkerState]
  BY OtherRows DEF CompleteRun, TypeOK
<1>5. lastMsg' \in 0..MaxMessages
  BY Bounds, OutboxIsSeq DEF CompleteRun, TypeOK
<1> QED
  BY <1>2, <1>3, <1>4, <1>5 DEF CompleteRun, TypeOK

\* Every action of a worker keeps the types.
LEMMA WorkerStepType ==
  ASSUME TypeOK, NEW w \in Worker, WorkerStep(w)
  PROVE  TypeOK'
<1> USE Bounds, OtherRows
<1>1. CASE StartWorker(w)
  BY <1>1 DEF StartWorker, TypeOK
<1>2. CASE ClaimNextMessage(w)
  <2>1. PICK m \in Message :
          /\ msgs' = [msgs EXCEPT ![m] = Leased(msgs[m], lastRun + 1)]
          /\ runs' = [runs EXCEPT ![lastRun + 1] = NewRun(m)]
          /\ worker' = [worker EXCEPT
                          ![w] = Working(m, lastRun + 1, msgs[m].attempts + 1)]
    BY <1>2 DEF ClaimNextMessage
  <2>2. lastRun + 1 \in 1..MaxRuns /\ m \in 0..MaxMessages
    BY <1>2 DEF ClaimNextMessage, TypeOK, Message
  <2>3. msgs[m].attempts + 1 \in Nat
    BY DEF TypeOK, MsgRow
  <2>4. msgs' \in [Message -> MsgRow]
    BY <2>1, <2>2, LeasedRow DEF TypeOK
  <2>5. runs' \in [Run -> RunRow]
    BY <2>1, NewRunRow DEF TypeOK
  <2>6. worker' \in [Worker -> WorkerState]
    BY <2>1, <2>2, <2>3 DEF TypeOK
  <2> QED
    BY <1>2, <2>2, <2>4, <2>5, <2>6 DEF ClaimNextMessage, TypeOK
<1>3. CASE RecordStep(w)
  <2> DEFINE r == worker[w].run
             n == runs[r].steps + 1
  <2>1. \A s \in Run, k \in 0..MaxSteps :
          [runs[s] EXCEPT !.steps = k] \in RunRow
    BY DEF TypeOK, RunRow
  <2>2. runs' = [runs EXCEPT ![r] = [runs[r] EXCEPT !.steps = n]]
    BY <1>3 DEF RecordStep, TypeOK
  <2>3. r \in Run => n \in 0..MaxSteps
    BY <1>3 DEF RecordStep, TypeOK, RunRow
  <2> HIDE DEF r, n
  <2>4. runs' \in [Run -> RunRow]
    BY <2>1, <2>2, <2>3 DEF TypeOK
  <2> QED
    BY <1>3, <2>4 DEF RecordStep, TypeOK
<1>4. CASE Finish(w)
  BY <1>4, CompleteRunType DEF Finish, TypeOK, RunStatus, MessageStatus
<1>5. CASE Retry(w)
  BY <1>5, CompleteRunType, EmptyOutbox
     DEF Retry, TypeOK, RunStatus, MessageStatus
<1>6. CASE DeadLetter(w)
  BY <1>6, CompleteRunType, EmptyOutbox
     DEF DeadLetter, TypeOK, RunStatus, MessageStatus
<1>7. CASE CancelWorker(w)
  <2>1. worker' \in [Worker -> WorkerState]
    BY <1>7 DEF CancelWorker, TypeOK, WorkerState
  <2> QED
    BY <1>7, <2>1 DEF CancelWorker, TypeOK
<1>8. CASE ExitCanceled(w)
  BY <1>8 DEF ExitCanceled, TypeOK
<1>9. CASE ExitOrphaned(w)
  BY <1>9 DEF ExitOrphaned, TypeOK
<1>10. CASE Fail(w)
  BY <1>10 DEF Fail, TypeOK
<1> QED
  BY <1>1, <1>2, <1>3, <1>4, <1>5, <1>6, <1>7, <1>8, <1>9, <1>10
     DEF WorkerStep

\* The types hold in every reachable state of the mailbox.
THEOREM TypeCorrect == Spec => []TypeOK
<1> USE Bounds, OtherRows
<1>1. Init => TypeOK
  BY Zero DEF Init, TypeOK
<1>2. TypeOK /\ [Next]_vars => TypeOK'
  <2> SUFFICES ASSUME TypeOK, [Next]_vars PROVE TypeOK'
    OBVIOUS
  <2>1. ASSUME NEW a \in Agent, NEW l \in Limits, NEW d \in Delays,
               EnqueueMessage(a, l, d)
        PROVE  TypeOK'
    <3>1. NewMsg(a, l, d, 0) \in MsgRow
      BY NewMsgRow, Zero DEF TypeOK
    <3>2. lastMsg' \in 0..MaxMessages
      BY <2>1 DEF EnqueueMessage, TypeOK
    <3>3. msgs' \in [Message -> MsgRow]
      BY <2>1, <3>1 DEF EnqueueMessage, TypeOK
    <3> QED
      BY <2>1, <3>2, <3>3 DEF EnqueueMessage, TypeOK
  <2>2. ASSUME NEW w \in Worker, WorkerStep(w) PROVE TypeOK'
    BY <2>2, WorkerStepType
  <2>3. ASSUME NEW p, CrashProcess(p) PROVE TypeOK'
    BY <2>3 DEF CrashProcess, TypeOK
  <2>4. ASSUME NEW a \in Agent, DeleteAgent(a) PROVE TypeOK'
    BY <2>4 DEF DeleteAgent, TypeOK
  <2>5. ASSUME NEW a \in Agent, PutAgent(a) PROVE TypeOK'
    BY <2>5 DEF PutAgent, TypeOK
  <2>6. CASE Tick
    BY <2>6 DEF Tick, TypeOK
  <2>7. CASE UNCHANGED vars
    BY <2>7 DEF vars, TypeOK
  <2> QED
    BY <2>1, <2>2, <2>3, <2>4, <2>5, <2>6, <2>7 DEF Next
<1> QED
  BY <1>1, <1>2, PTL DEF Spec

-----------------------------------------------------------------------------
(* Safety in one process.                                                  *)

\* What CompleteRun does to the two tables and to the workers, row by row,
\* from a state of the invariant: the writer still holds its message.
LEMMA CompleteRunEffect ==
  ASSUME IInv, NEW w \in Worker, NEW result \in RunStatus,
         NEW status \in MessageStatus, NEW t \in Nat, NEW out \in Outbox,
         CompleteRun(w, result, status, t, out)
  PROVE  /\ worker[w].msg \in Message /\ worker[w].run \in Run
         /\ worker[w].msg <= lastMsg /\ worker[w].run <= lastRun
         /\ Managed(w)
         /\ msgs[worker[w].msg].status = "leased"
         /\ msgs[worker[w].msg].run = worker[w].run
         /\ msgs[worker[w].msg].to = AgentOf[w]
         /\ runs[worker[w].run].status = "running"
         /\ runs[worker[w].run].msg = worker[w].msg
         /\ msgs'[worker[w].msg].status = status
         /\ msgs'[worker[w].msg].run = 0
         /\ msgs'[worker[w].msg].origin = msgs[worker[w].msg].origin
         /\ msgs'[worker[w].msg].to = AgentOf[w]
         /\ runs'[worker[w].run].status = result
         /\ runs'[worker[w].run].msg = worker[w].msg
         /\ \A s \in Run : s # worker[w].run => runs'[s] = runs[s]
         /\ lastMsg \in Nat /\ lastMsg' \in Nat /\ lastMsg <= lastMsg'
         /\ \A x \in Message : x # worker[w].msg /\ (x <= lastMsg \/ x > lastMsg') =>
              msgs'[x] = msgs[x]
         /\ \A x \in Message : lastMsg < x /\ x <= lastMsg' =>
              /\ msgs'[x].status = "queued"
              /\ msgs'[x].run = 0
              /\ msgs'[x].origin = worker[w].run
         /\ worker' = [worker EXCEPT ![w] = Polling]
         /\ lastRun' = lastRun
<1> DEFINE m == worker[w].msg
           r == worker[w].run
<1>0. /\ clock \in Nat /\ lastMsg \in Nat /\ lastRun \in Nat
      /\ msgs \in [Message -> MsgRow] /\ runs \in [Run -> RunRow]
      /\ worker[w] \in WorkerState
  BY Bounds DEF IInv, TypeOK
<1>1. /\ Active(w) /\ Managed(w)
      /\ runs[r].status # "absent" /\ msgs[m].status # "absent"
  BY DEF CompleteRun, Active, Managed
<1>2. /\ m \in Message /\ r \in Run
      /\ m <= lastMsg /\ r <= lastRun
      /\ runs[r].msg = m /\ msgs[m].to = AgentOf[w]
  BY <1>1 DEF IInv, WorkerTask, Active
<1>3. msgs[m].status = "leased" /\ msgs[m].run = r
  BY <1>1 DEF IInv, ActiveHoldsMessage
<1>4. runs[r].status = "running"
  BY <1>2, <1>3 DEF IInv, LeaseNamesRun
<1>5. /\ \A s \in Run : s # r => runs'[s] = runs[s]
      /\ runs'[r] = [runs[r] EXCEPT !.status = result, !.finishedAt = clock]
  BY <1>0, <1>2 DEF CompleteRun, EndRun
<1>6. runs'[r].status = result /\ runs'[r].msg = m
  BY <1>0, <1>2, <1>5 DEF RunRow
<1>7. /\ lastMsg' = lastMsg + Len(out) /\ lastRun' = lastRun
      /\ worker' = [worker EXCEPT ![w] = Polling]
  BY DEF CompleteRun
<1>8. /\ Len(out) \in Nat /\ DOMAIN out = 1..Len(out)
  BY OutboxIsSeq
<1>9. \A x \in Message :
        msgs'[x] = IF x = m
                   THEN Released(msgs[m], status, t)
                   ELSE IF x - lastMsg \in DOMAIN out
                   THEN NewMsg(out[x - lastMsg].to, out[x - lastMsg].limit,
                               out[x - lastMsg].delay, r)
                   ELSE msgs[x]
  BY DEF CompleteRun
<1>10. /\ msgs'[m].status = status /\ msgs'[m].run = 0
       /\ msgs'[m].origin = msgs[m].origin /\ msgs'[m].to = AgentOf[w]
  BY <1>0, <1>2, <1>9, ReleasedRow
<1>11. \A x \in Message : x # m /\ (x <= lastMsg \/ x > lastMsg') => msgs'[x] = msgs[x]
  <2> SUFFICES ASSUME NEW x \in Message, x # m, x <= lastMsg \/ x > lastMsg'
               PROVE  msgs'[x] = msgs[x]
    OBVIOUS
  <2>1. x - lastMsg \notin DOMAIN out
    BY <1>0, <1>7, <1>8, Bounds DEF Message
  <2> QED
    BY <1>9, <2>1
<1>12. \A x \in Message : lastMsg < x /\ x <= lastMsg' =>
         /\ msgs'[x].status = "queued" /\ msgs'[x].run = 0
         /\ msgs'[x].origin = r
  <2> SUFFICES ASSUME NEW x \in Message, lastMsg < x, x <= lastMsg'
               PROVE  /\ msgs'[x].status = "queued" /\ msgs'[x].run = 0
                      /\ msgs'[x].origin = r
    OBVIOUS
  <2>1. x - lastMsg \in DOMAIN out /\ x # m
    BY <1>0, <1>2, <1>7, <1>8, Bounds DEF Message
  <2>2. msgs'[x] = NewMsg(out[x - lastMsg].to, out[x - lastMsg].limit,
                          out[x - lastMsg].delay, r)
    BY <1>9, <2>1
  <2> QED
    BY <2>2 DEF NewMsg
<1>13. lastMsg' \in Nat /\ lastMsg <= lastMsg'
  BY <1>0, <1>7, <1>8
<1> QED
  BY <1>0, <1>1, <1>2, <1>3, <1>4, <1>5, <1>6, <1>7, <1>10, <1>11, <1>12, <1>13

-----------------------------------------------------------------------------
(* Every kind of step keeps IInv.                                          *)

\* CompleteRun keeps IInv when a run is finished exactly if its message is
\* completed, and only a finished one sends messages.
LEMMA CompleteRunInv ==
  ASSUME IInv, NEW w \in Worker, NEW result \in {"finished", "failed"},
         NEW status \in {"queued", "completed", "dead_letter"},
         result = "finished" <=> status = "completed",
         NEW t \in Nat, NEW out \in Outbox,
         result = "finished" \/ out = <<>>,
         CompleteRun(w, result, status, t, out)
  PROVE  IInv'
<1> DEFINE m == worker[w].msg
           r == worker[w].run
<1>0. result \in RunStatus /\ status \in MessageStatus
  BY DEF RunStatus, MessageStatus
<1>1. TypeOK'
  BY <1>0, CompleteRunType DEF IInv
<1>2. /\ m \in Message /\ r \in Run
      /\ m <= lastMsg /\ r <= lastRun
      /\ Managed(w)
      /\ msgs[m].status = "leased" /\ msgs[m].run = r
      /\ msgs[m].to = AgentOf[w]
      /\ runs[r].status = "running" /\ runs[r].msg = m
      /\ msgs'[m].status = status /\ msgs'[m].run = 0
      /\ msgs'[m].origin = msgs[m].origin /\ msgs'[m].to = AgentOf[w]
      /\ runs'[r].status = result /\ runs'[r].msg = m
      /\ \A s \in Run : s # r => runs'[s] = runs[s]
      /\ lastMsg \in Nat /\ lastMsg' \in Nat /\ lastMsg <= lastMsg'
      /\ \A x \in Message : x # m /\ (x <= lastMsg \/ x > lastMsg') =>
           msgs'[x] = msgs[x]
      /\ \A x \in Message : lastMsg < x /\ x <= lastMsg' =>
           msgs'[x].status = "queued" /\ msgs'[x].run = 0 /\ msgs'[x].origin = r
      /\ worker' = [worker EXCEPT ![w] = Polling]
      /\ lastRun' = lastRun
  BY <1>0, CompleteRunEffect
<1> HIDE DEF m, r
<1>3. \A x \in Message : x > lastMsg => msgs[x] = NoMsg
  BY DEF IInv, RowsInOrder
<1>4. \A s \in Run : runs[s].status # "absent" =>
        /\ runs[s].msg \in Message /\ msgs[runs[s].msg].status # "absent"
        /\ runs[s].msg <= lastMsg
  BY <1>2, <1>3 DEF IInv, RunsHaveMessages, NoMsg, Message
<1>5. /\ worker'[w] = Polling
      /\ \A v \in Worker : v # w => worker'[v] = worker[v]
  BY <1>2 DEF IInv, TypeOK
<1>6. RowsInOrder'
  <2>1. \A x \in Message : x > lastMsg' => msgs'[x] = NoMsg
    BY <1>2, <1>3 DEF Message
  <2>2. \A s \in Run : s > lastRun' => runs'[s] = NoRun
    BY <1>2 DEF IInv, RowsInOrder, TypeOK, Run
  <2> QED
    BY <2>1, <2>2 DEF RowsInOrder
<1>7. RunsHaveMessages'
  <2>1. \A q \in Run : runs[q].status = "absent" => runs[q] = NoRun
    BY DEF IInv, RunsHaveMessages
  <2>2. \A q \in Run : runs'[q].status # "absent" =>
          /\ runs'[q].msg \in Message /\ msgs'[runs'[q].msg].status # "absent"
    BY <1>2, <1>4
  <2> QED
    BY <1>2, <2>1, <2>2 DEF RunsHaveMessages
<1>8. OneManaged'
  <2>1. \A v \in Worker : Managed(v)' => Managed(v)
    BY <1>2, <1>5 DEF Managed
  <2> QED
    BY <2>1 DEF IInv, OneManaged
<1>9. WorkerTask'
  BY <1>2, <1>4, <1>5 DEF IInv, WorkerTask, Polling, Message
<1>10. OriginFinished'
  <2>1. r # 0
    BY <1>2 DEF Run
  <2>2. \A s \in Run : s <= lastRun /\ runs[s].status \in {"finished", "absent"}
                         => runs'[s].status \in {"finished", "absent"}
    BY <1>2
  <2> SUFFICES ASSUME NEW x \in Message, msgs'[x].origin # 0
               PROVE  /\ msgs'[x].origin <= lastRun'
                      /\ runs'[msgs'[x].origin].status \in {"finished", "absent"}
    BY DEF OriginFinished
  <2>3. msgs[x].origin # 0 =>
          /\ msgs[x].origin \in Run /\ msgs[x].origin <= lastRun
          /\ runs[msgs[x].origin].status \in {"finished", "absent"}
    <3>1. msgs[x].origin \in 0..MaxRuns
      BY DEF IInv, TypeOK, MsgRow
    <3> QED
      BY <3>1, Bounds DEF IInv, OriginFinished, Run
  <2>4. CASE x # m /\ (x <= lastMsg \/ x > lastMsg')
    <3>1. msgs'[x] = msgs[x]
      BY <1>2, <2>4
    <3> QED
      BY <1>2, <2>2, <2>3, <3>1
  <2>5. CASE x = m
    BY <1>2, <2>2, <2>3, <2>5
  <2>6. CASE lastMsg < x /\ x <= lastMsg'
    <3>1. out # <<>>
      BY <1>2, <2>6 DEF CompleteRun, Message
    <3> QED
      BY <1>2, <2>6, <3>1
  <2> QED
    BY <1>2, <2>4, <2>5, <2>6 DEF Message
<1>11. \A s \in Run : (runs'[s].status # "absent" <=> runs[s].status # "absent")
                      /\ (runs'[s].status # "absent" => runs'[s].msg = runs[s].msg)
  BY <1>2
<1>12. \A x \in Message : RunsOf(x)' = RunsOf(x)
  BY <1>11 DEF RunsOf
<1>13. LeaseNamesRun'
  <2> SUFFICES ASSUME NEW x \in Message
               PROVE  IF msgs'[x].status = "leased"
                      THEN /\ msgs'[x].run \in RunsOf(x)
                           /\ runs'[msgs'[x].run].status = "running"
                           /\ \A s \in RunsOf(x) : s <= msgs'[x].run
                      ELSE msgs'[x].run = 0
    BY <1>12 DEF LeaseNamesRun
  <2>1. CASE x # m /\ (x <= lastMsg \/ x > lastMsg')
    <3>1. msgs'[x] = msgs[x]
      BY <1>2, <2>1
    <3>2. r \notin RunsOf(x)
      BY <1>2, <2>1 DEF RunsOf
    <3> QED
      BY <1>2, <3>1, <3>2 DEF IInv, LeaseNamesRun, RunsOf
  <2>2. CASE x = m
    BY <1>2, <2>2
  <2>3. CASE lastMsg < x /\ x <= lastMsg'
    BY <1>2, <2>3
  <2> QED
    BY <1>2, <2>1, <2>2, <2>3 DEF Message
<1>14. ActiveHoldsMessage'
  <2> SUFFICES ASSUME NEW v \in Worker, Active(v)',
                      runs'[worker'[v].run].status # "absent"
               PROVE  /\ msgs'[worker'[v].msg].status = "leased"
                      /\ msgs'[worker'[v].msg].run = worker'[v].run
                      /\ msgs'[worker'[v].msg].attempts = worker'[v].attempt
    BY DEF ActiveHoldsMessage
  <2>1. v # w /\ worker'[v] = worker[v] /\ Active(v) /\ Managed(v)
    BY <1>5 DEF Active, Managed, Polling
  <2>2. AgentOf[v] # AgentOf[w]
    BY <1>2, <2>1 DEF IInv, OneManaged
  <2>3. /\ worker[v].msg \in Message /\ worker[v].msg <= lastMsg
        /\ runs[worker[v].run].status # "absent"
        /\ msgs[worker[v].msg].to = AgentOf[v]
    BY <1>2, <1>11, <2>1 DEF IInv, WorkerTask, Active
  <2>4. msgs'[worker[v].msg] = msgs[worker[v].msg]
    BY <1>2, <2>2, <2>3
  <2> QED
    BY <2>1, <2>3, <2>4 DEF IInv, ActiveHoldsMessage
<1>15. OneFinishedRun'
  <2> SUFFICES ASSUME NEW x \in Message
               PROVE  IF msgs'[x].status = "completed"
                      THEN \E q \in Run :
                             {s \in RunsOf(x) : runs'[s].status = "finished"} = {q}
                      ELSE {s \in RunsOf(x) : runs'[s].status = "finished"} = {}
    BY <1>12 DEF OneFinishedRun
  <2>1. CASE x # m /\ (x <= lastMsg \/ x > lastMsg')
    <3>1. msgs'[x] = msgs[x]
      BY <1>2, <2>1
    <3>2. {s \in RunsOf(x) : runs'[s].status = "finished"}
            = {s \in RunsOf(x) : runs[s].status = "finished"}
      BY <1>2, <2>1 DEF RunsOf
    <3> QED
      BY <3>1, <3>2 DEF IInv, OneFinishedRun
  <2>2. CASE x = m
    <3>1. {s \in RunsOf(m) : runs[s].status = "finished"} = {}
      BY <1>2 DEF IInv, OneFinishedRun
    <3>2. r \in RunsOf(m)
      BY <1>2 DEF RunsOf
    <3>3. {s \in RunsOf(m) : runs'[s].status = "finished"}
            = IF result = "finished" THEN {r} ELSE {}
      BY <1>2, <3>1, <3>2 DEF RunsOf
    <3> QED
      BY <1>2, <2>2, <3>3
  <2>3. CASE lastMsg < x /\ x <= lastMsg'
    <3>1. RunsOf(x) = {}
      BY <1>4, <2>3, <1>2 DEF RunsOf, Message
    <3> QED
      BY <1>2, <2>3, <3>1
  <2> QED
    BY <1>2, <2>1, <2>2, <2>3 DEF Message
<1> QED
  BY <1>1, <1>6, <1>7, <1>8, <1>9, <1>10, <1>13, <1>14, <1>15 DEF IInv

\* A claim keeps IInv: the one managed worker of the agent takes a message
\* that no other active worker holds, under a run id of its own.
LEMMA ClaimInv ==
  ASSUME IInv, NEW w \in Worker, ClaimNextMessage(w)
  PROVE  IInv'
<1>0. PICK m \in Message :
        /\ Candidate(m, AgentOf[w])
        /\ msgs' = [msgs EXCEPT ![m] = Leased(msgs[m], lastRun + 1)]
        /\ runs' = [runs EXCEPT ![lastRun + 1] = NewRun(m)]
        /\ worker' = [worker EXCEPT
                        ![w] = Working(m, lastRun + 1, msgs[m].attempts + 1)]
  BY DEF ClaimNextMessage
<1> DEFINE r == lastRun + 1
<1>1. TypeOK'
  BY WorkerStepType DEF IInv, WorkerStep
<1>2. /\ r \in Run /\ r \in 0..MaxRuns /\ lastRun \in Nat
      /\ lastRun' = r /\ lastMsg' = lastMsg /\ lastMsg \in Nat
      /\ clock \in Nat
      /\ msgs \in [Message -> MsgRow] /\ runs \in [Run -> RunRow]
      /\ Managed(w) /\ worker[w].status = "polling"
  BY Bounds DEF ClaimNextMessage, IInv, TypeOK, Run, Managed
<1>3. /\ msgs[m].to = AgentOf[w] /\ msgs[m].status \in {"queued", "leased"}
  BY <1>0 DEF Candidate, Claimable
<1>4. /\ msgs'[m].status = "leased" /\ msgs'[m].run = r
      /\ msgs'[m].to = AgentOf[w] /\ msgs'[m].origin = msgs[m].origin
      /\ msgs'[m].attempts = msgs[m].attempts + 1
      /\ \A x \in Message : x # m => msgs'[x] = msgs[x]
  BY <1>0, <1>2, <1>3, LeasedRow
<1>5. /\ runs'[r].status = "running" /\ runs'[r].msg = m
      /\ \A s \in Run : s # r => runs'[s] = runs[s]
  BY <1>0, <1>2 DEF NewRun
<1>6. /\ worker'[w] = Working(m, r, msgs[m].attempts + 1)
      /\ \A v \in Worker : v # w => worker'[v] = worker[v]
  BY <1>0 DEF IInv, TypeOK
<1>7. runs[r].status = "absent"
  BY <1>2 DEF IInv, RowsInOrder, NoRun
<1>8. m <= lastMsg
  BY <1>2, <1>3 DEF IInv, RowsInOrder, NoMsg, Message
<1> HIDE DEF r
<1>9. \A s \in Run : s > lastRun' => s # r /\ s > lastRun
  BY <1>2 DEF r, Run
<1>10. RowsInOrder'
  BY <1>2, <1>4, <1>5, <1>8, <1>9 DEF IInv, RowsInOrder, Message
<1>11. RunsHaveMessages'
  BY <1>2, <1>4, <1>5 DEF IInv, RunsHaveMessages
<1>12. OneManaged'
  <2>1. \A v \in Worker : Managed(v)' => Managed(v)
    BY <1>2, <1>6 DEF Managed
  <2> QED
    BY <2>1 DEF IInv, OneManaged
<1>13. \A v \in Worker : worker[v].status = "working" => worker[v].run # r
  BY <1>2 DEF IInv, WorkerTask, r, Run
<1>14. WorkerTask'
  <2> SUFFICES ASSUME NEW v \in Worker, worker'[v].status = "working"
               PROVE  /\ worker'[v].msg \in Message /\ worker'[v].run \in Run
                      /\ worker'[v].msg <= lastMsg /\ worker'[v].run <= lastRun'
                      /\ runs'[worker'[v].run].status # "absent" =>
                           /\ runs'[worker'[v].run].msg = worker'[v].msg
                           /\ msgs'[worker'[v].msg].to = AgentOf[v]
    BY <1>2 DEF WorkerTask
  <2>1. CASE v = w
    BY <2>1, <1>2, <1>4, <1>5, <1>6, <1>8 DEF Working, Run
  <2>2. CASE v # w
    <3>1. /\ worker'[v] = worker[v] /\ worker[v].run # r
          /\ worker[v].msg \in Message /\ worker[v].run \in Run
          /\ worker[v].msg <= lastMsg /\ worker[v].run <= lastRun
          /\ runs[worker[v].run].status # "absent" =>
               /\ runs[worker[v].run].msg = worker[v].msg
               /\ msgs[worker[v].msg].to = AgentOf[v]
      BY <1>6, <1>13, <2>2 DEF IInv, WorkerTask
    <3>2. worker[v].run <= lastRun'
      BY <1>2, <3>1 DEF r, Run
    <3> QED
      BY <1>3, <1>4, <1>5, <3>1, <3>2
  <2> QED
    BY <2>1, <2>2
<1>15. OriginFinished'
  <2> SUFFICES ASSUME NEW x \in Message, msgs'[x].origin # 0
               PROVE  /\ msgs'[x].origin <= lastRun'
                      /\ runs'[msgs'[x].origin].status \in {"finished", "absent"}
    BY DEF OriginFinished
  <2>1. msgs'[x].origin = msgs[x].origin
    BY <1>4
  <2>2. /\ msgs[x].origin \in Run /\ msgs[x].origin <= lastRun
        /\ runs[msgs[x].origin].status \in {"finished", "absent"}
    <3>1. msgs[x].origin \in 0..MaxRuns
      BY <1>2 DEF MsgRow
    <3> QED
      BY <2>1, <3>1, Bounds DEF IInv, OriginFinished, Run
  <2>3. msgs[x].origin # r /\ msgs[x].origin <= lastRun'
    BY <1>2, <2>2 DEF r, Run
  <2> QED
    BY <1>5, <2>1, <2>2, <2>3
<1>16. /\ RunsOf(m)' = RunsOf(m) \cup {r}
       /\ \A x \in Message : x # m => RunsOf(x)' = RunsOf(x)
       /\ \A x \in Message : r \notin RunsOf(x)
       /\ \A s \in RunsOf(m) : s <= r
  <2>1. \A x \in Message : r \notin RunsOf(x)
    BY <1>7 DEF RunsOf
  <2>2. RunsOf(m)' = RunsOf(m) \cup {r}
    BY <1>2, <1>5 DEF RunsOf
  <2>3. \A x \in Message : x # m => RunsOf(x)' = RunsOf(x)
    BY <1>2, <1>5, <1>7 DEF RunsOf
  <2>4. \A s \in RunsOf(m) : s <= r
    <3>1. \A s \in Run : s > lastRun => runs[s].status = "absent"
      BY DEF IInv, RowsInOrder, NoRun
    <3> QED
      BY <1>2, <3>1 DEF RunsOf, Run, r
  <2> QED
    BY <2>1, <2>2, <2>3, <2>4
<1>17. LeaseNamesRun'
  <2> SUFFICES ASSUME NEW x \in Message
               PROVE  IF msgs'[x].status = "leased"
                      THEN /\ msgs'[x].run \in RunsOf(x)'
                           /\ runs'[msgs'[x].run].status = "running"
                           /\ \A s \in RunsOf(x)' : s <= msgs'[x].run
                      ELSE msgs'[x].run = 0
    BY DEF LeaseNamesRun
  <2>1. CASE x = m
    BY <1>2, <1>4, <1>5, <1>16, <2>1 DEF Run
  <2>2. CASE x # m
    <3>1. msgs'[x] = msgs[x] /\ RunsOf(x)' = RunsOf(x) /\ r \notin RunsOf(x)
      BY <1>4, <1>16, <2>2
    <3> QED
      BY <1>5, <3>1 DEF IInv, LeaseNamesRun, RunsOf
  <2> QED
    BY <2>1, <2>2
<1>18. ActiveHoldsMessage'
  <2> SUFFICES ASSUME NEW v \in Worker, Active(v)',
                      runs'[worker'[v].run].status # "absent"
               PROVE  /\ msgs'[worker'[v].msg].status = "leased"
                      /\ msgs'[worker'[v].msg].run = worker'[v].run
                      /\ msgs'[worker'[v].msg].attempts = worker'[v].attempt
    BY DEF ActiveHoldsMessage
  <2>1. CASE v = w
    BY <1>4, <1>6, <2>1 DEF Working
  <2>2. CASE v # w
    <3>1. worker'[v] = worker[v] /\ Active(v) /\ Managed(v)
      BY <1>6, <2>2 DEF Active, Managed
    <3>2. AgentOf[v] # AgentOf[w]
      BY <1>2, <2>2, <3>1 DEF IInv, OneManaged
    <3>3. /\ worker[v].msg \in Message
          /\ runs[worker[v].run].status # "absent"
          /\ msgs[worker[v].msg].to = AgentOf[v]
      BY <1>5, <1>13, <3>1 DEF IInv, WorkerTask, Active
    <3>4. msgs'[worker[v].msg] = msgs[worker[v].msg]
      BY <1>3, <1>4, <3>2, <3>3
    <3> QED
      BY <3>1, <3>3, <3>4 DEF IInv, ActiveHoldsMessage
  <2> QED
    BY <2>1, <2>2
<1>19. OneFinishedRun'
  <2> SUFFICES ASSUME NEW x \in Message
               PROVE  IF msgs'[x].status = "completed"
                      THEN \E q \in Run :
                             {s \in RunsOf(x)' : runs'[s].status = "finished"} = {q}
                      ELSE {s \in RunsOf(x)' : runs'[s].status = "finished"} = {}
    BY DEF OneFinishedRun
  <2>1. {s \in RunsOf(x)' : runs'[s].status = "finished"}
          = {s \in RunsOf(x) : runs[s].status = "finished"}
    BY <1>5, <1>7, <1>16 DEF RunsOf
  <2>2. msgs'[x].status = "completed" <=> msgs[x].status = "completed"
    BY <1>3, <1>4
  <2> QED
    BY <2>1, <2>2 DEF IInv, OneFinishedRun
<1> QED
  BY <1>1, <1>10, <1>11, <1>12, <1>14, <1>15, <1>17, <1>18, <1>19 DEF IInv

\* Workers that start, are canceled, fail or die leave the tables alone, and
\* nobody gets a task or a live context that it did not have.
LEMMA WorkersOnly ==
  ASSUME IInv, TypeOK', OneManaged',
         UNCHANGED <<msgs, runs, lastMsg, lastRun>>,
         \A v \in Worker : worker'[v].status = "working" =>
           /\ worker[v].status = "working"
           /\ worker'[v].msg = worker[v].msg
           /\ worker'[v].run = worker[v].run
           /\ worker'[v].attempt = worker[v].attempt
           /\ ~worker'[v].canceled => ~worker[v].canceled
  PROVE  IInv'
<1>1. /\ msgs' = msgs /\ runs' = runs /\ lastMsg' = lastMsg /\ lastRun' = lastRun
  OBVIOUS
<1>2. RowsInOrder' /\ RunsHaveMessages' /\ OriginFinished'
  BY <1>1 DEF IInv, RowsInOrder, RunsHaveMessages, OriginFinished
<1>3. LeaseNamesRun' /\ OneFinishedRun'
  BY <1>1 DEF IInv, LeaseNamesRun, OneFinishedRun, RunsOf
<1>4. WorkerTask'
  BY <1>1 DEF IInv, WorkerTask
<1>5. ActiveHoldsMessage'
  BY <1>1 DEF IInv, ActiveHoldsMessage, Active
<1> QED
  BY <1>2, <1>3, <1>4, <1>5 DEF IInv

\* A recorded step changes only the number of steps of a run.
LEMMA RecordStepInv ==
  ASSUME IInv, NEW w \in Worker, RecordStep(w)
  PROVE  IInv'
<1>1. TypeOK'
  BY WorkerStepType DEF IInv, WorkerStep
<1>2. /\ msgs' = msgs /\ worker' = worker
      /\ lastMsg' = lastMsg /\ lastRun' = lastRun
  BY DEF RecordStep
<1>3. \A s \in Run : /\ runs'[s].status = runs[s].status
                     /\ runs'[s].msg = runs[s].msg
                     /\ runs[s].status = "absent" => runs'[s] = runs[s]
  <2> DEFINE r == worker[w].run
  <2>1. /\ runs \in [Run -> RunRow]
        /\ runs[r].status # "absent"
        /\ runs' = [runs EXCEPT ![r] = [runs[r] EXCEPT !.steps = runs[r].steps + 1]]
    BY DEF RecordStep, IInv, TypeOK
  <2> HIDE DEF r
  <2> QED
    BY <2>1 DEF RunRow
<1>4. RowsInOrder' /\ RunsHaveMessages' /\ OriginFinished'
  <2>1. RowsInOrder'
    BY <1>2, <1>3 DEF IInv, RowsInOrder, NoRun
  <2>2. RunsHaveMessages'
    BY <1>2, <1>3 DEF IInv, RunsHaveMessages
  <2>3. OriginFinished'
    <3> SUFFICES ASSUME NEW x \in Message, msgs[x].origin # 0
                 PROVE  /\ msgs[x].origin <= lastRun
                        /\ runs'[msgs[x].origin].status \in {"finished", "absent"}
      BY <1>2 DEF OriginFinished
    <3>1. msgs[x].origin \in 0..MaxRuns
      BY DEF IInv, TypeOK, MsgRow
    <3>2. msgs[x].origin \in Run
      BY <3>1, Bounds DEF Run
    <3> QED
      BY <1>3, <3>2 DEF IInv, OriginFinished
  <2> QED
    BY <2>1, <2>2, <2>3
<1>5. \A x \in Message : RunsOf(x)' = RunsOf(x)
  BY <1>3 DEF RunsOf
<1>6. LeaseNamesRun'
  BY <1>2, <1>3, <1>5 DEF IInv, LeaseNamesRun, RunsOf
<1>7. OneFinishedRun'
  <2>1. \A x \in Message : {s \in RunsOf(x)' : runs'[s].status = "finished"}
                             = {s \in RunsOf(x) : runs[s].status = "finished"}
    BY <1>3, <1>5 DEF RunsOf
  <2> QED
    BY <1>2, <2>1 DEF IInv, OneFinishedRun
<1>8. WorkerTask' /\ OneManaged'
  <2>1. WorkerTask'
    BY <1>2, <1>3 DEF IInv, WorkerTask
  <2>2. OneManaged'
    BY <1>2 DEF IInv, OneManaged, Managed
  <2> QED
    BY <2>1, <2>2
<1>9. ActiveHoldsMessage'
  BY <1>2, <1>3 DEF IInv, ActiveHoldsMessage, WorkerTask, Active
<1> QED
  BY <1>1, <1>4, <1>6, <1>7, <1>8, <1>9 DEF IInv

\* A new message is nobody's task and has no run.
LEMMA EnqueueInv ==
  ASSUME IInv, TypeOK', NEW a, NEW l, NEW d, EnqueueMessage(a, l, d)
  PROVE  IInv'
<1> DEFINE n == lastMsg + 1
<1>1. /\ lastMsg' = n /\ lastMsg \in Nat /\ n \in Message
      /\ runs' = runs /\ worker' = worker /\ lastRun' = lastRun
  BY Bounds DEF EnqueueMessage, IInv, TypeOK, Message
<1>2. /\ msgs'[n].status = "queued" /\ msgs'[n].run = 0 /\ msgs'[n].origin = 0
      /\ \A x \in Message : x # n => msgs'[x] = msgs[x]
  BY <1>1 DEF EnqueueMessage, IInv, TypeOK, NewMsg
<1>3. msgs[n].status = "absent" /\ \A x \in Message : x <= lastMsg => x # n
  BY <1>1 DEF IInv, RowsInOrder, NoMsg, Message
<1>4. RowsInOrder'
  BY <1>1, <1>2 DEF IInv, RowsInOrder, Message
<1> HIDE DEF n
<1>5. RunsHaveMessages'
  BY <1>1, <1>2 DEF IInv, RunsHaveMessages
<1>6. OneManaged'
  BY <1>1 DEF IInv, OneManaged, Managed
<1>7. WorkerTask'
  <2>1. \A x \in Message : x <= lastMsg => x <= lastMsg'
    BY <1>1 DEF n, Message
  <2> QED
    BY <1>1, <1>2, <1>3, <2>1 DEF IInv, WorkerTask
<1>8. OriginFinished'
  BY <1>1, <1>2 DEF IInv, OriginFinished
<1>9. /\ \A x \in Message : RunsOf(x)' = RunsOf(x)
      /\ RunsOf(n) = {}
  BY <1>1, <1>3 DEF RunsOf, IInv, RunsHaveMessages
<1>10. LeaseNamesRun'
  BY <1>1, <1>2, <1>9 DEF IInv, LeaseNamesRun
<1>11. ActiveHoldsMessage'
  <2>1. \A v \in Worker : Active(v) => /\ worker[v].msg \in Message
                                       /\ worker[v].msg # n
    BY <1>3 DEF Active, IInv, WorkerTask
  <2> QED
    BY <1>1, <1>2, <2>1 DEF IInv, ActiveHoldsMessage, Active
<1>12. OneFinishedRun'
  BY <1>1, <1>2, <1>9 DEF IInv, OneFinishedRun
<1> QED
  BY <1>4, <1>5, <1>6, <1>7, <1>8, <1>10, <1>11, <1>12 DEF IInv

\* Deleting an agent takes whole messages with all their runs.
LEMMA DeleteAgentInv ==
  ASSUME IInv, TypeOK', NEW a, DeleteAgent(a)
  PROVE  IInv'
<1>1. /\ worker' = worker /\ lastMsg' = lastMsg /\ lastRun' = lastRun
      /\ \A x \in Message : msgs'[x] = IF msgs[x].to = a THEN NoMsg ELSE msgs[x]
      /\ \A s \in Run :
           runs'[s] = IF runs[s].status # "absent" /\ msgs[runs[s].msg].to = a
                      THEN NoRun ELSE runs[s]
  BY DEF DeleteAgent
<1>2. RowsInOrder'
  BY <1>1 DEF IInv, RowsInOrder
<1>3. RunsHaveMessages'
  BY <1>1 DEF IInv, RunsHaveMessages, NoRun
<1>4. OneManaged'
  BY <1>1 DEF IInv, OneManaged, Managed
<1>5. \A x \in Message : msgs'[x].status # "absent" =>
        /\ msgs'[x] = msgs[x] /\ msgs[x].to # a
        /\ RunsOf(x)' = RunsOf(x)
        /\ \A s \in RunsOf(x) : runs'[s] = runs[s]
  BY <1>1 DEF NoMsg, NoRun, RunsOf
<1>6. \A x \in Message : msgs'[x].status = "absent" =>
        msgs'[x].run = 0 /\ RunsOf(x)' = {}
  <2> SUFFICES ASSUME NEW x \in Message, msgs'[x].status = "absent"
               PROVE  msgs'[x].run = 0 /\ RunsOf(x)' = {}
    OBVIOUS
  <2>1. msgs'[x].run = 0
    BY <1>1 DEF IInv, LeaseNamesRun, NoMsg
  <2>2. RunsOf(x)' = {}
    BY <1>3 DEF RunsHaveMessages, RunsOf
  <2> QED
    BY <2>1, <2>2
<1>7. WorkerTask'
  BY <1>1 DEF IInv, WorkerTask, NoRun
<1>8. OriginFinished'
  <2> SUFFICES ASSUME NEW x \in Message, msgs'[x].origin # 0
               PROVE  /\ msgs'[x].origin <= lastRun
                      /\ runs'[msgs'[x].origin].status \in {"finished", "absent"}
    BY <1>1 DEF OriginFinished
  <2>1. msgs'[x].origin = msgs[x].origin
    BY <1>1 DEF NoMsg
  <2>2. msgs[x].origin \in 0..MaxRuns
    BY DEF IInv, TypeOK, MsgRow
  <2>3. msgs[x].origin \in Run
    BY <2>1, <2>2, Bounds DEF Run
  <2> QED
    BY <1>1, <2>1, <2>3 DEF IInv, OriginFinished, NoRun
<1>9. LeaseNamesRun'
  BY <1>5, <1>6 DEF IInv, LeaseNamesRun
<1>10. ActiveHoldsMessage'
  <2> SUFFICES ASSUME NEW v \in Worker, Active(v),
                      runs'[worker[v].run].status # "absent"
               PROVE  /\ msgs'[worker[v].msg].status = "leased"
                      /\ msgs'[worker[v].msg].run = worker[v].run
                      /\ msgs'[worker[v].msg].attempts = worker[v].attempt
    BY <1>1 DEF ActiveHoldsMessage, Active
  <2>1. /\ worker[v].msg \in Message /\ worker[v].run \in Run
        /\ runs'[worker[v].run].msg = worker[v].msg
        /\ runs'[worker[v].run] = runs[worker[v].run]
    BY <1>1, <1>7 DEF WorkerTask, Active, NoRun
  <2>2. msgs'[worker[v].msg] = msgs[worker[v].msg]
    BY <1>1, <1>3, <2>1 DEF RunsHaveMessages, NoMsg
  <2> QED
    BY <2>1, <2>2 DEF IInv, ActiveHoldsMessage
<1>11. OneFinishedRun'
  <2> SUFFICES ASSUME NEW x \in Message
               PROVE  IF msgs'[x].status = "completed"
                      THEN \E q \in Run :
                             {s \in RunsOf(x)' : runs'[s].status = "finished"} = {q}
                      ELSE {s \in RunsOf(x)' : runs'[s].status = "finished"} = {}
    BY DEF OneFinishedRun
  <2>1. CASE msgs'[x].status = "absent"
    BY <1>6, <2>1
  <2>2. CASE msgs'[x].status # "absent"
    <3>1. {s \in RunsOf(x)' : runs'[s].status = "finished"}
            = {s \in RunsOf(x) : runs[s].status = "finished"}
      BY <1>5, <2>2
    <3> QED
      BY <1>5, <2>2, <3>1 DEF IInv, OneFinishedRun
  <2> QED
    BY <2>1, <2>2
<1> QED
  BY <1>2, <1>3, <1>4, <1>7, <1>8, <1>9, <1>10, <1>11 DEF IInv

\* Starting a worker keeps at most one managed worker per agent, because the
\* manager looks its agent up in its map first.
LEMMA StartWorkerInv ==
  ASSUME OneProcess, IInv, NEW w \in Worker, StartWorker(w)
  PROVE  IInv'
<1>1. TypeOK'
  BY WorkerStepType DEF IInv, WorkerStep
<1>2. /\ worker'[w] = Polling
      /\ \A v \in Worker : v # w => worker'[v] = worker[v]
      /\ \A v \in Worker : AgentOf[v] = AgentOf[w] => ~Managed(v)
  BY DEF StartWorker, OneProcess, IInv, TypeOK
<1>3. OneManaged'
  <2>1. \A v \in Worker : v # w /\ Managed(v)' => Managed(v)
    BY <1>2 DEF Managed
  <2> QED
    BY <1>2, <2>1 DEF IInv, OneManaged
<1>4. UNCHANGED <<msgs, runs, lastMsg, lastRun>>
  BY DEF StartWorker
<1> QED
  BY <1>1, <1>2, <1>3, <1>4, WorkersOnly DEF Polling

\* Every step of the mailbox keeps the inductive invariant.
LEMMA NextInv ==
  ASSUME OneProcess, IInv, TypeOK', [Next]_vars
  PROVE  IInv'
<1>1. ASSUME NEW w \in Worker, WorkerStep(w) PROVE IInv'
  <2>1. CASE StartWorker(w)
    BY <2>1, StartWorkerInv
  <2>2. CASE ClaimNextMessage(w)
    BY <2>2, ClaimInv
  <2>3. CASE RecordStep(w)
    BY <2>3, RecordStepInv
  <2>4. CASE Finish(w)
    BY <2>4, CompleteRunInv DEF Finish, IInv, TypeOK
  <2>5. CASE Retry(w)
    <3>1. clock + RetryDelay \in Nat
      BY Bounds DEF IInv, TypeOK
    <3> QED
      BY <2>5, <3>1, EmptyOutbox, CompleteRunInv DEF Retry
  <2>6. CASE DeadLetter(w)
    BY <2>6, EmptyOutbox, CompleteRunInv DEF DeadLetter, IInv, TypeOK
  <2>7. CASE CancelWorker(w) \/ ExitCanceled(w) \/ ExitOrphaned(w) \/ Fail(w)
    <3>1. UNCHANGED <<msgs, runs, lastMsg, lastRun>>
      BY <2>7 DEF CancelWorker, ExitCanceled, ExitOrphaned, Fail
    <3>2. \A v \in Worker :
            \/ worker'[v] = worker[v]
            \/ worker'[v] = Down
            \/ /\ worker'[v].canceled
               /\ worker'[v].status = worker[v].status
               /\ worker'[v].msg = worker[v].msg
               /\ worker'[v].run = worker[v].run
               /\ worker'[v].attempt = worker[v].attempt
      BY <2>7 DEF CancelWorker, ExitCanceled, ExitOrphaned, Fail, IInv, TypeOK, WorkerState
    <3>3. OneManaged'
      <4>1. \A v \in Worker : Managed(v)' => Managed(v)
        BY <3>2 DEF Managed, Down
      <4> QED
        BY <4>1 DEF IInv, OneManaged
    <3>4. \A v \in Worker : worker'[v].status = "working" =>
            /\ worker[v].status = "working"
            /\ worker'[v].msg = worker[v].msg
            /\ worker'[v].run = worker[v].run
            /\ worker'[v].attempt = worker[v].attempt
            /\ ~worker'[v].canceled => ~worker[v].canceled
      BY <3>2 DEF Down
    <3> QED
      BY <3>1, <3>3, <3>4, WorkersOnly
  <2> QED
    BY <1>1, <2>1, <2>2, <2>3, <2>4, <2>5, <2>6, <2>7 DEF WorkerStep
<1>2. ASSUME NEW p, CrashProcess(p) PROVE IInv'
  <2>1. \A v \in Worker : worker'[v] = worker[v] \/ worker'[v] = Down
    BY <1>2 DEF CrashProcess
  <2>2. OneManaged'
    BY <2>1 DEF IInv, OneManaged, Managed, Down
  <2> QED
    BY <1>2, <2>1, <2>2, WorkersOnly DEF CrashProcess, Down
<1>3. ASSUME NEW a \in Agent, NEW l \in Limits, NEW d \in Delays,
             EnqueueMessage(a, l, d)
      PROVE  IInv'
  BY <1>3, EnqueueInv
<1>4. ASSUME NEW a \in Agent, DeleteAgent(a) PROVE IInv'
  BY <1>4, DeleteAgentInv
<1>5. CASE (\E a \in Agent : PutAgent(a)) \/ Tick \/ UNCHANGED vars
  <2>1. UNCHANGED <<msgs, runs, worker, lastMsg, lastRun>>
    BY <1>5 DEF PutAgent, Tick, vars
  <2>2. OneManaged'
    BY <2>1 DEF IInv, OneManaged, Managed
  <2> QED
    BY <2>1, <2>2, WorkersOnly
<1> QED
  BY <1>1, <1>2, <1>3, <1>4, <1>5 DEF Next

-----------------------------------------------------------------------------
(* The theorems.                                                           *)

\* In one process, IInv holds in every reachable state.
THEOREM Inductive == ASSUME OneProcess PROVE Spec => []IInv
<1>1. Init => IInv
  <2> SUFFICES ASSUME Init PROVE IInv
    OBVIOUS
  <2>1. TypeOK
    BY Zero, Bounds, OtherRows DEF Init, TypeOK
  <2>2. /\ \A m \in Message : msgs[m] = NoMsg
        /\ \A r \in Run : runs[r] = NoRun
        /\ \A w \in Worker : worker[w] = Down
    BY DEF Init
  <2>3. RowsInOrder /\ RunsHaveMessages /\ OriginFinished
    BY <2>2 DEF RowsInOrder, RunsHaveMessages, OriginFinished, NoMsg, NoRun
  <2>4. OneManaged /\ WorkerTask /\ ActiveHoldsMessage
    BY <2>2 DEF OneManaged, WorkerTask, ActiveHoldsMessage, Active, Managed, Down
  <2>5. LeaseNamesRun /\ OneFinishedRun
    BY <2>2 DEF LeaseNamesRun, OneFinishedRun, RunsOf, NoMsg, NoRun
  <2> QED
    BY <2>1, <2>3, <2>4, <2>5 DEF IInv
<1>2. TypeOK' /\ IInv /\ [Next]_vars => IInv'
  BY NextInv
<1> QED
  BY <1>1, <1>2, TypeCorrect, PTL DEF Spec

\* In one process, a worker whose writes still succeed holds its message under
\* its own run, so the missing checks of CompleteRun never matter.
THEOREM OnlyHolderWrites == ASSUME OneProcess PROVE Spec => []ActiveHoldsMessage
<1>1. IInv => ActiveHoldsMessage
  BY DEF IInv
<1> QED
  BY <1>1, Inductive, PTL

\* In one process, a message is completed exactly when one run of it is
\* recorded as finished.
THEOREM FinishedOnce == ASSUME OneProcess PROVE Spec => []OneFinishedRun
<1>1. IInv => OneFinishedRun
  BY DEF IInv
<1> QED
  BY <1>1, Inductive, PTL

\* In one process, a message is answered by the outbox of one run only, and
\* that run is finished.
THEOREM OutboxSentOnce == ASSUME OneProcess PROVE Spec => []OutboxOnce
<1>1. IInv => OutboxOnce
  <2> SUFFICES ASSUME IInv, NEW x \in Message, NEW y \in Message
               PROVE  LET p == msgs[x].origin  q == msgs[y].origin IN
                      /\ p # 0 => runs[p].status \in {"finished", "absent"}
                      /\ (p # 0 /\ q # 0 /\ runs[p].status # "absent"
                            /\ runs[p].msg = runs[q].msg) => p = q
    BY DEF OutboxOnce
  <2> DEFINE p == msgs[x].origin
             q == msgs[y].origin
  <2>1. p \in 0..MaxRuns /\ q \in 0..MaxRuns
    BY DEF IInv, TypeOK, MsgRow
  <2>2. /\ p # 0 => runs[p].status \in {"finished", "absent"}
        /\ q # 0 => runs[q].status \in {"finished", "absent"}
    BY DEF IInv, OriginFinished
  <2> HIDE DEF p, q
  <2>3. ASSUME p # 0, q # 0, runs[p].status # "absent", runs[p].msg = runs[q].msg
        PROVE  p = q
    <3>1. p \in Run /\ q \in Run
      BY <2>1, <2>3, Bounds DEF Run
    <3>2. runs[p].msg \in Message
      BY <2>3, <3>1 DEF IInv, RunsHaveMessages
    <3>3. runs[q].status # "absent"
      BY <2>3, <3>1, <3>2 DEF IInv, RunsHaveMessages, NoRun, Message
    <3> QED
      BY <2>2, <2>3, <3>1, <3>2, <3>3 DEF IInv, OneFinishedRun, RunsOf
  <2> QED
    BY <2>2, <2>3 DEF p, q
<1> QED
  BY <1>1, Inductive, PTL

\* In one process, a message gets one result, and the outbox of that result only.
THEOREM AnsweredOnlyOnce == ASSUME OneProcess PROVE Spec => []AnsweredOnce
<1>1. OneFinishedRun /\ OutboxOnce => AnsweredOnce
  BY DEF AnsweredOnce
<1> QED
  BY <1>1, FinishedOnce, OutboxSentOnce, PTL

\* In one process, completed and dead-lettered messages stay as they are.
THEOREM TerminalRowsFinal == ASSUME OneProcess PROVE Spec => TerminalIsFinal
<1>1. IInv /\ [Next]_vars =>
        [\A m \in Message :
           msgs[m].status \in {"completed", "dead_letter"}
             => msgs'[m] \in {msgs[m], NoMsg}]_vars
  <2> SUFFICES ASSUME IInv, Next, NEW m \in Message,
                      msgs[m].status \in {"completed", "dead_letter"}
               PROVE  msgs'[m] = msgs[m] \/ msgs'[m] = NoMsg
    OBVIOUS
  <2>1. m <= lastMsg /\ lastMsg \in Nat
    BY Bounds DEF IInv, TypeOK, RowsInOrder, NoMsg, Message
  <2>2. ASSUME NEW w \in Worker, NEW result \in RunStatus,
               NEW status \in MessageStatus, NEW t \in Nat, NEW out \in Outbox,
               CompleteRun(w, result, status, t, out)
        PROVE  msgs'[m] = msgs[m]
    <3>1. m # worker[w].msg
      BY <2>2, CompleteRunEffect
    <3> QED
      BY <2>1, <2>2, <3>1, CompleteRunEffect
  <2>3. ASSUME NEW w \in Worker, Finish(w) \/ Retry(w) \/ DeadLetter(w)
        PROVE  msgs'[m] = msgs[m]
    <3>1. clock \in Nat /\ clock + RetryDelay \in Nat
      BY Bounds DEF IInv, TypeOK
    <3> QED
      BY <2>2, <2>3, <3>1, EmptyOutbox
         DEF Finish, Retry, DeadLetter, RunStatus, MessageStatus
  <2>4. ASSUME NEW w \in Worker, ClaimNextMessage(w) PROVE msgs'[m] = msgs[m]
    BY <2>4 DEF ClaimNextMessage, Candidate, Claimable
  <2>5. ASSUME NEW w \in Worker, WorkerStep(w) PROVE msgs'[m] = msgs[m]
    BY <2>3, <2>4, <2>5 DEF WorkerStep, StartWorker, RecordStep, CancelWorker,
       ExitCanceled, ExitOrphaned, Fail
  <2>6. ASSUME NEW a, NEW l, NEW d, EnqueueMessage(a, l, d)
        PROVE  msgs'[m] = msgs[m]
    BY <2>1, <2>6 DEF EnqueueMessage, IInv, TypeOK, Message
  <2>7. ASSUME NEW a, DeleteAgent(a) PROVE msgs'[m] = msgs[m] \/ msgs'[m] = NoMsg
    BY <2>7 DEF DeleteAgent
  <2>8. ASSUME \/ \E p : CrashProcess(p)
               \/ \E a : PutAgent(a)
               \/ Tick
        PROVE  msgs'[m] = msgs[m]
    BY <2>8 DEF CrashProcess, PutAgent, Tick
  <2> QED
    BY <2>5, <2>6, <2>7, <2>8 DEF Next
<1> QED
  BY <1>1, Inductive, PTL DEF Spec, TerminalIsFinal

\* In one process, whoever writes to a run holds its message under that run.
THEOREM WritesAreFenced == ASSUME OneProcess PROVE Spec => FencedWrites
<1>1. IInv /\ [Next]_vars =>
        [\A r \in Run :
           /\ runs[r].status = "running"
           /\ runs'[r] \notin {runs[r], NoRun}
           => msgs[runs[r].msg].run = r]_vars
  <2> SUFFICES ASSUME IInv, Next, NEW r \in Run, runs[r].status = "running",
                      runs'[r] # runs[r], runs'[r] # NoRun
               PROVE  msgs[runs[r].msg].run = r
    OBVIOUS
  <2>1. r <= lastRun /\ lastRun \in Nat
    BY Bounds DEF IInv, TypeOK, RowsInOrder, NoRun, Run
  <2>2. ASSUME NEW w \in Worker, Active(w), runs[worker[w].run].status # "absent",
               r = worker[w].run
        PROVE  msgs[runs[r].msg].run = r
    BY <2>2 DEF IInv, ActiveHoldsMessage, WorkerTask, Active
  <2>3. ASSUME NEW w \in Worker,
               RecordStep(w) \/ Finish(w) \/ Retry(w) \/ DeadLetter(w)
        PROVE  msgs[runs[r].msg].run = r
    <3>1. /\ Active(w) /\ runs[worker[w].run].status # "absent"
          /\ \A q \in Run : q # worker[w].run => runs'[q] = runs[q]
      BY <2>3 DEF RecordStep, Finish, Retry, DeadLetter, CompleteRun, EndRun, IInv, TypeOK
    <3> QED
      BY <2>2, <3>1
  <2>4. ASSUME NEW w \in Worker, ClaimNextMessage(w) PROVE FALSE
    BY <2>1, <2>4 DEF ClaimNextMessage, IInv, TypeOK, Run
  <2>5. ASSUME NEW w \in Worker, WorkerStep(w)
        PROVE  msgs[runs[r].msg].run = r
    BY <2>3, <2>4, <2>5 DEF WorkerStep, StartWorker, CancelWorker,
       ExitCanceled, ExitOrphaned, Fail
  <2>6. ASSUME \/ \E a, l, d : EnqueueMessage(a, l, d)
               \/ \E p : CrashProcess(p)
               \/ \E a : DeleteAgent(a) \/ PutAgent(a)
               \/ Tick
        PROVE  FALSE
    BY <2>6 DEF EnqueueMessage, CrashProcess, DeleteAgent, PutAgent, Tick
  <2> QED
    BY <2>5, <2>6 DEF Next
<1> QED
  BY <1>1, Inductive, PTL DEF Spec, FencedWrites

-----------------------------------------------------------------------------
(* The tries of a message are spaced.                                      *)

LEMMA RowTypes ==
  ASSUME TypeOK
  PROVE  /\ clock \in Nat
         /\ \A r \in Run : runs[r].startedAt \in Nat /\ runs[r].finishedAt \in Nat
         /\ \A m \in Message : msgs[m].availableAt \in Nat /\ msgs[m].leaseUntil \in Nat
<1>1. /\ \A r \in Run : runs[r] \in RunRow
      /\ \A m \in Message : msgs[m] \in MsgRow
  BY DEF TypeOK
<1> QED
  BY <1>1 DEF TypeOK, RunRow, MsgRow

\* What ended before t ended before any later time.
LEMMA EndedEarlier ==
  ASSUME TypeOK, NEW r \in Run, NEW t \in Nat, NEW u \in Nat, t <= u,
         EndedBefore(r, t)
  PROVE  EndedBefore(r, u)
<1>1. runs[r].finishedAt + RetryDelay \in Nat /\ runs[r].startedAt + LeaseDuration \in Nat
  BY RowTypes, Bounds
<1> QED
  BY <1>1 DEF EndedBefore

\* Messages that were never inserted have no runs.
LEMMA NoRunsYet ==
  ASSUME IInv, NEW m \in Message, lastMsg < m
  PROVE  RunsOf(m) = {}
  BY DEF IInv, RowsInOrder, RunsHaveMessages, RunsOf, NoMsg

\* A step that changes neither messages nor the times and results of runs
\* keeps the spacing.
LEMMA SpacingKept ==
  ASSUME TypeOK, SpacingInv, msgs' = msgs, clock' \in Nat, clock <= clock',
         \A r \in Run : /\ runs'[r].status = runs[r].status
                        /\ runs'[r].msg = runs[r].msg
                        /\ runs'[r].startedAt = runs[r].startedAt
                        /\ runs'[r].finishedAt = runs[r].finishedAt,
         LeaseNamesRun
  PROVE  SpacingInv'
<1>1. \A m \in Message : RunsOf(m)' = RunsOf(m)
  BY DEF RunsOf
<1>2. \A r \in Run : \A t : EndedBefore(r, t)' <=> EndedBefore(r, t)
  BY DEF EndedBefore
<1>3. \A m \in Message : RunsOf(m) \subseteq Run
  BY DEF RunsOf
<1>4. LeaseTimes'
  <2>1. \A r \in Run : runs'[r].startedAt <= clock'
    BY RowTypes DEF SpacingInv, LeaseTimes
  <2>2. \A m \in Message : msgs[m].status = "leased" => msgs[m].run \in Run
    BY <1>3 DEF LeaseNamesRun
  <2>3. \A m \in Message :
          /\ msgs'[m].status = "leased" =>
               msgs'[m].leaseUntil = runs'[msgs'[m].run].startedAt + LeaseDuration
          /\ msgs'[m].status = "queued" =>
               \A r \in RunsOf(m)' : EndedBefore(r, msgs[m].availableAt)'
    BY <1>1, <1>2, <1>3, <2>2 DEF SpacingInv, LeaseTimes
  <2> QED
    BY <2>1, <2>3 DEF LeaseTimes
<1>5. RunSpacing'
  BY <1>1, <1>2, <1>3 DEF SpacingInv, RunSpacing
<1> QED
  BY <1>4, <1>5 DEF SpacingInv

\* A claim comes after the end of every earlier run of the message, whether
\* the message waited or its lease was lost.
LEMMA ClaimSpacing ==
  ASSUME IInv, SpacingInv, NEW w \in Worker, ClaimNextMessage(w)
  PROVE  SpacingInv'
<1>0. PICK m \in Message :
        /\ Candidate(m, AgentOf[w])
        /\ msgs' = [msgs EXCEPT ![m] = Leased(msgs[m], lastRun + 1)]
        /\ runs' = [runs EXCEPT ![lastRun + 1] = NewRun(m)]
  BY DEF ClaimNextMessage
<1> DEFINE r == lastRun + 1
<1>1. /\ r \in Run /\ clock \in Nat /\ clock' = clock
      /\ msgs \in [Message -> MsgRow] /\ runs \in [Run -> RunRow]
      /\ \A s \in Run : s > lastRun => runs[s].status = "absent"
      /\ TypeOK
  BY Bounds DEF ClaimNextMessage, IInv, TypeOK, Run, RowsInOrder, NoRun
<1>2. /\ msgs'[m].status = "leased" /\ msgs'[m].run = r
      /\ msgs'[m].leaseUntil = clock + LeaseDuration
      /\ \A x \in Message : x # m => msgs'[x] = msgs[x]
  BY <1>0, <1>1 DEF Leased, MsgRow
<1>3. /\ runs'[r].startedAt = clock /\ runs'[r].msg = m
      /\ runs'[r].status = "running"
      /\ \A s \in Run : s # r => runs'[s] = runs[s]
  BY <1>0, <1>1 DEF NewRun
<1>4. \A x \in Message : \A s \in RunsOf(x) : s \in Run /\ s < r
  BY <1>1 DEF RunsOf, Run, IInv, TypeOK
<1>5. runs[r].status = "absent"
  BY <1>1 DEF IInv, TypeOK
<1> HIDE DEF r
<1>6. /\ RunsOf(m)' = RunsOf(m) \cup {r}
      /\ \A x \in Message : x # m => RunsOf(x)' = RunsOf(x)
  <2>1. RunsOf(m)' = RunsOf(m) \cup {r}
    BY <1>1, <1>3 DEF RunsOf
  <2>2. \A x \in Message : x # m => RunsOf(x)' = RunsOf(x)
    BY <1>1, <1>3, <1>5 DEF RunsOf
  <2> QED
    BY <2>1, <2>2
<1>7. \A x \in Message : \A s \in RunsOf(x) :
        s # r /\ runs'[s] = runs[s] /\ \A t : EndedBefore(s, t)' <=> EndedBefore(s, t)
  <2>1. \A x \in Message : \A s \in RunsOf(x) : s # r /\ runs'[s] = runs[s]
    BY <1>1, <1>3, <1>4 DEF Run
  <2> QED
    BY <2>1 DEF EndedBefore
<1>8. \A s \in RunsOf(m) : EndedBefore(s, clock)
  <2> SUFFICES ASSUME NEW s \in RunsOf(m) PROVE EndedBefore(s, clock)
    OBVIOUS
  <2>0. s \in Run /\ Claimable(m, AgentOf[w])
    BY <1>0, <1>4 DEF Candidate
  <2>1. CASE msgs[m].status = "queued"
    <3>1. EndedBefore(s, msgs[m].availableAt)
      BY <2>1 DEF SpacingInv, LeaseTimes
    <3> QED
      BY <1>1, <2>0, <3>1, EndedEarlier, RowTypes DEF Claimable
  <2>2. CASE msgs[m].status = "leased"
    <3> DEFINE q == msgs[m].run
    <3>1. /\ q \in RunsOf(m) /\ q \in Run /\ s <= q
          /\ runs[q].status = "running"
      BY <1>4, <2>2 DEF IInv, LeaseNamesRun
    <3>2. runs[q].startedAt + LeaseDuration <= clock
      BY <2>0, <2>2 DEF Claimable, SpacingInv, LeaseTimes
    <3>3. CASE s = q
      BY <3>1, <3>2, <3>3 DEF EndedBefore
    <3>4. CASE s < q
      <4>1. EndedBefore(s, runs[q].startedAt) /\ runs[q].startedAt <= clock
        BY <3>1, <3>4 DEF SpacingInv, RunSpacing, LeaseTimes
      <4> QED
        BY <1>1, <2>0, <3>1, <4>1, EndedEarlier, RowTypes
    <3> QED
      BY <2>0, <3>1, <3>3, <3>4 DEF Run
  <2> QED
    BY <2>0, <2>1, <2>2 DEF Claimable
<1>9. LeaseTimes'
  <2>1. \A s \in Run : runs'[s].startedAt <= clock'
    BY <1>1, <1>3 DEF SpacingInv, LeaseTimes
  <2>2. ASSUME NEW x \in Message, msgs'[x].status = "leased"
        PROVE  msgs'[x].leaseUntil = runs'[msgs'[x].run].startedAt + LeaseDuration
    <3>1. CASE x = m
      BY <1>2, <1>3, <3>1
    <3>2. CASE x # m
      <4>1. msgs'[x] = msgs[x] /\ msgs[x].run \in RunsOf(x)
        BY <1>2, <2>2, <3>2 DEF IInv, LeaseNamesRun
      <4> QED
        BY <1>7, <2>2, <4>1 DEF SpacingInv, LeaseTimes
    <3> QED
      BY <3>1, <3>2
  <2>3. ASSUME NEW x \in Message, msgs'[x].status = "queued",
               NEW s \in RunsOf(x)'
        PROVE  EndedBefore(s, msgs[x].availableAt)'
    BY <1>2, <1>6, <1>7, <2>3 DEF SpacingInv, LeaseTimes
  <2> QED
    BY <2>1, <2>2, <2>3 DEF LeaseTimes
<1>10. RunSpacing'
  <2> SUFFICES ASSUME NEW x \in Message, NEW s \in RunsOf(x)',
                      NEW u \in RunsOf(x)', s < u
               PROVE  EndedBefore(s, runs[u].startedAt)'
    BY DEF RunSpacing
  <2>1. CASE u \in RunsOf(x)
    <3>1. s \in RunsOf(x)
      <4>1. s = r \/ s \in RunsOf(x)
        BY <1>6
      <4>2. u < r /\ u \in Run
        BY <1>4, <2>1
      <4> QED
        BY <1>1, <4>1, <4>2 DEF Run
    <3> QED
      BY <1>7, <2>1, <3>1 DEF SpacingInv, RunSpacing
  <2>2. CASE u \notin RunsOf(x)
    <3>1. x = m /\ u = r
      BY <1>6, <2>2
    <3>2. s \in RunsOf(m)
      BY <1>1, <1>6, <3>1 DEF Run
    <3> QED
      BY <1>3, <1>7, <1>8, <3>1, <3>2
  <2> QED
    BY <2>1, <2>2
<1> QED
  BY <1>9, <1>10 DEF SpacingInv

\* The run that CompleteRun ends is the newest of its message, and a message
\* that is queued again waits from now on for retry_delay.
LEMMA CompleteRunSpacing ==
  ASSUME IInv, SpacingInv, NEW w \in Worker, NEW result \in RunStatus,
         NEW status \in MessageStatus, NEW t \in Nat, NEW out \in Outbox,
         CompleteRun(w, result, status, t, out),
         result # "absent", status # "leased",
         status = "queued" => result = "failed" /\ t = clock + RetryDelay
  PROVE  SpacingInv'
<1> DEFINE m == worker[w].msg
           r == worker[w].run
<1>1. /\ m \in Message /\ r \in Run /\ m <= lastMsg
      /\ msgs[m].status = "leased" /\ msgs[m].run = r
      /\ runs[r].status = "running" /\ runs[r].msg = m
      /\ msgs'[m].status = status
      /\ runs'[r].status = result /\ runs'[r].msg = m
      /\ \A s \in Run : s # r => runs'[s] = runs[s]
      /\ lastMsg \in Nat /\ lastMsg' \in Nat /\ lastMsg <= lastMsg'
      /\ \A x \in Message : x # m /\ (x <= lastMsg \/ x > lastMsg') =>
           msgs'[x] = msgs[x]
      /\ \A x \in Message : lastMsg < x /\ x <= lastMsg' =>
           msgs'[x].status = "queued"
  BY CompleteRunEffect
<1>2. TypeOK /\ clock \in Nat /\ clock' = clock
  BY RowTypes DEF IInv, CompleteRun
<1>3. /\ runs'[r].finishedAt = clock
      /\ runs'[r].startedAt = runs[r].startedAt
  BY <1>1, <1>2 DEF CompleteRun, EndRun, TypeOK, RunRow
<1>4. msgs'[m].availableAt = t
  BY <1>1, <1>2 DEF CompleteRun, Released, TypeOK, MsgRow
<1> HIDE DEF m, r
<1>5. \A x \in Message : RunsOf(x)' = RunsOf(x)
  BY <1>1 DEF RunsOf
<1>6. \A s \in Run : runs'[s].startedAt = runs[s].startedAt
  BY <1>1, <1>3
<1>7. \A s \in Run : s # r => \A u : EndedBefore(s, u)' <=> EndedBefore(s, u)
  BY <1>1 DEF EndedBefore
<1>8. \A x \in Message : \A s \in RunsOf(x) : s \in Run /\ (s = r <=> x = m /\ s = r)
  BY <1>1 DEF RunsOf
<1>9. r \in RunsOf(m) /\ \A s \in RunsOf(m) : s <= r
  BY <1>1 DEF IInv, LeaseNamesRun
<1>10. LeaseTimes'
  <2>1. \A s \in Run : runs'[s].startedAt <= clock'
    BY <1>2, <1>6 DEF SpacingInv, LeaseTimes
  <2>2. ASSUME NEW x \in Message, x # m, x <= lastMsg \/ x > lastMsg',
               msgs'[x].status = "leased"
        PROVE  msgs'[x].leaseUntil = runs'[msgs'[x].run].startedAt + LeaseDuration
    <3>1. msgs'[x] = msgs[x] /\ msgs[x].run \in Run
      BY <1>1, <1>8, <2>2 DEF IInv, LeaseNamesRun
    <3> QED
      BY <1>6, <2>2, <3>1 DEF SpacingInv, LeaseTimes
  <2>3. ASSUME NEW x \in Message, msgs'[x].status = "queued",
               NEW s \in RunsOf(x)
        PROVE  EndedBefore(s, msgs[x].availableAt)'
    <3>1. CASE lastMsg < x /\ x <= lastMsg'
      BY <2>3, <3>1, NoRunsYet
    <3>2. CASE x # m /\ (x <= lastMsg \/ x > lastMsg')
      <4>1. msgs'[x] = msgs[x] /\ s # r /\ s \in Run
        BY <1>1, <1>8, <2>3, <3>2
      <4>2. EndedBefore(s, msgs[x].availableAt)
        BY <2>3, <4>1 DEF SpacingInv, LeaseTimes
      <4> QED
        BY <1>7, <4>1, <4>2
    <3>3. CASE x = m /\ s = r
      BY <1>1, <1>2, <1>3, <1>4, <2>3, <3>3 DEF EndedBefore
    <3>4. CASE x = m /\ s # r
      <4>1. s \in RunsOf(m) /\ s \in Run /\ s < r
        <5>1. s \in RunsOf(m) /\ s \in Run /\ s <= r /\ s # r
          BY <1>8, <1>9, <2>3, <3>4
        <5> QED
          BY <1>1, <5>1 DEF Run
      <4>2. EndedBefore(s, runs[r].startedAt)
        BY <1>1, <1>9, <4>1 DEF SpacingInv, RunSpacing
      <4>3. runs[r].startedAt \in Nat /\ runs[r].startedAt <= clock
        BY <1>1, <1>2, RowTypes DEF SpacingInv, LeaseTimes
      <4>4. clock <= t
        BY <1>1, <1>2, <2>3, <3>4, Bounds
      <4>5. EndedBefore(s, t)
        BY <1>2, <4>1, <4>2, <4>3, <4>4, EndedEarlier
      <4> QED
        BY <1>4, <1>7, <3>4, <4>1, <4>5
    <3> QED
      BY <1>1, <3>1, <3>2, <3>3, <3>4 DEF Message
  <2>4. \A x \in Message : lastMsg < x /\ x <= lastMsg' => msgs'[x].status # "leased"
    BY <1>1
  <2>5. msgs'[m].status # "leased"
    BY <1>1
  <2>6. \A x \in Message : msgs'[x].status = "leased" =>
          msgs'[x].leaseUntil = runs'[msgs'[x].run].startedAt + LeaseDuration
    BY <1>1, <2>2, <2>4, <2>5 DEF Message
  <2> QED
    BY <1>5, <2>1, <2>3, <2>6 DEF LeaseTimes
<1>11. RunSpacing'
  <2> SUFFICES ASSUME NEW x \in Message, NEW s \in RunsOf(x),
                      NEW u \in RunsOf(x), s < u
               PROVE  EndedBefore(s, runs[u].startedAt)'
    BY <1>5 DEF RunSpacing
  <2>1. s \in Run /\ u \in Run /\ s # r
    BY <1>8, <1>9 DEF Run
  <2>2. EndedBefore(s, runs[u].startedAt)
    BY DEF SpacingInv, RunSpacing
  <2> QED
    BY <1>6, <1>7, <2>1, <2>2
<1> QED
  BY <1>10, <1>11 DEF SpacingInv

\* A new message has no runs yet.
LEMMA EnqueueSpacing ==
  ASSUME IInv, SpacingInv, NEW a, NEW l, NEW d, EnqueueMessage(a, l, d)
  PROVE  SpacingInv'
<1> DEFINE n == lastMsg + 1
<1>1. /\ n \in Message /\ lastMsg < n
      /\ runs' = runs /\ clock' = clock
      /\ msgs'[n].status = "queued"
      /\ \A x \in Message : x # n => msgs'[x] = msgs[x]
  BY Bounds DEF EnqueueMessage, IInv, TypeOK, Message, NewMsg
<1>2. RunsOf(n) = {}
  BY <1>1, NoRunsYet
<1> HIDE DEF n
<1>3. \A x \in Message : RunsOf(x)' = RunsOf(x)
  BY <1>1 DEF RunsOf
<1>4. \A s : \A t : EndedBefore(s, t)' <=> EndedBefore(s, t)
  BY <1>1 DEF EndedBefore
<1>5. LeaseTimes'
  <2>1. \A x \in Message :
          /\ msgs'[x].status = "leased" =>
               msgs'[x].leaseUntil = runs'[msgs'[x].run].startedAt + LeaseDuration
          /\ msgs'[x].status = "queued" =>
               \A r \in RunsOf(x)' : EndedBefore(r, msgs[x].availableAt)'
    BY <1>1, <1>2, <1>3, <1>4 DEF SpacingInv, LeaseTimes
  <2> QED
    BY <1>1, <2>1 DEF SpacingInv, LeaseTimes
<1>6. RunSpacing'
  BY <1>1, <1>3, <1>4 DEF SpacingInv, RunSpacing
<1> QED
  BY <1>5, <1>6 DEF SpacingInv

\* Deleting an agent takes whole messages with all their runs.
LEMMA DeleteAgentSpacing ==
  ASSUME IInv, SpacingInv, NEW a, DeleteAgent(a)
  PROVE  SpacingInv'
<1>1. /\ clock' = clock
      /\ \A x \in Message : msgs'[x] = IF msgs[x].to = a THEN NoMsg ELSE msgs[x]
      /\ \A s \in Run :
           runs'[s] = IF runs[s].status # "absent" /\ msgs[runs[s].msg].to = a
                      THEN NoRun ELSE runs[s]
  BY DEF DeleteAgent
<1>2. \A x \in Message : \A s \in RunsOf(x)' :
        /\ s \in Run /\ s \in RunsOf(x) /\ runs'[s] = runs[s]
        /\ msgs'[x] = msgs[x]
        /\ \A t : EndedBefore(s, t)' <=> EndedBefore(s, t)
  <2>1. \A x \in Message : \A s \in RunsOf(x)' :
          s \in Run /\ s \in RunsOf(x) /\ runs'[s] = runs[s] /\ msgs'[x] = msgs[x]
    BY <1>1 DEF RunsOf, NoRun
  <2> QED
    BY <2>1 DEF EndedBefore
<1>3. LeaseTimes'
  <2>1. \A s \in Run : runs'[s].startedAt <= clock'
    <3>1. clock \in Nat
      BY DEF IInv, TypeOK
    <3> QED
      BY <1>1, <3>1 DEF SpacingInv, LeaseTimes, NoRun
  <2>2. ASSUME NEW x \in Message, msgs'[x].status = "leased"
        PROVE  msgs'[x].leaseUntil = runs'[msgs'[x].run].startedAt + LeaseDuration
    <3>1. msgs'[x] = msgs[x] /\ msgs[x].to # a
      BY <1>1, <2>2 DEF NoMsg
    <3>2. msgs[x].run \in Run /\ runs[msgs[x].run].msg = x
      BY <2>2, <3>1 DEF IInv, LeaseNamesRun, RunsOf
    <3>3. runs'[msgs[x].run] = runs[msgs[x].run]
      BY <1>1, <3>1, <3>2
    <3> QED
      BY <2>2, <3>1, <3>3 DEF SpacingInv, LeaseTimes
  <2>3. ASSUME NEW x \in Message, msgs'[x].status = "queued",
               NEW s \in RunsOf(x)'
        PROVE  EndedBefore(s, msgs[x].availableAt)'
    BY <1>2, <2>3 DEF SpacingInv, LeaseTimes
  <2> QED
    BY <2>1, <2>2, <2>3 DEF LeaseTimes
<1>4. RunSpacing'
  BY <1>2 DEF SpacingInv, RunSpacing
<1> QED
  BY <1>3, <1>4 DEF SpacingInv

\* Every step keeps the spacing.
LEMMA NextSpacing ==
  ASSUME IInv, SpacingInv, [Next]_vars
  PROVE  SpacingInv'
<1>1. TypeOK /\ LeaseNamesRun /\ clock \in Nat /\ runs \in [Run -> RunRow]
  BY DEF IInv, TypeOK
<1>2. ASSUME UNCHANGED <<msgs, runs>>, clock' \in Nat, clock <= clock'
      PROVE  SpacingInv'
  BY <1>1, <1>2, SpacingKept
<1>3. ASSUME NEW w \in Worker, WorkerStep(w) PROVE SpacingInv'
  <2>1. CASE ClaimNextMessage(w)
    BY <2>1, ClaimSpacing
  <2>2. CASE RecordStep(w)
    <3> DEFINE r == worker[w].run
    <3>1. /\ msgs' = msgs /\ clock' = clock
          /\ runs' = [runs EXCEPT ![r] = [runs[r] EXCEPT !.steps = runs[r].steps + 1]]
      BY <1>1, <2>2 DEF RecordStep
    <3> HIDE DEF r
    <3>2. \A s \in Run : /\ runs'[s].status = runs[s].status
                         /\ runs'[s].msg = runs[s].msg
                         /\ runs'[s].startedAt = runs[s].startedAt
                         /\ runs'[s].finishedAt = runs[s].finishedAt
      BY <1>1, <3>1 DEF RunRow
    <3> QED
      BY <1>1, <3>1, <3>2, SpacingKept
  <2>3. CASE Finish(w)
    BY <1>1, <2>3, CompleteRunSpacing DEF Finish, RunStatus, MessageStatus
  <2>4. CASE Retry(w)
    <3>1. clock + RetryDelay \in Nat
      BY <1>1, Bounds
    <3> QED
      BY <2>4, <3>1, EmptyOutbox, CompleteRunSpacing
         DEF Retry, RunStatus, MessageStatus
  <2>5. CASE DeadLetter(w)
    BY <1>1, <2>5, EmptyOutbox, CompleteRunSpacing
       DEF DeadLetter, RunStatus, MessageStatus
  <2>6. CASE \/ StartWorker(w) \/ CancelWorker(w) \/ ExitCanceled(w)
             \/ ExitOrphaned(w) \/ Fail(w)
    <3>1. UNCHANGED <<clock, msgs, runs>>
      BY <2>6 DEF StartWorker, CancelWorker, ExitCanceled, ExitOrphaned, Fail
    <3> QED
      BY <1>1, <1>2, <3>1
  <2> QED
    BY <1>3, <2>1, <2>2, <2>3, <2>4, <2>5, <2>6 DEF WorkerStep
<1>4. ASSUME NEW a, NEW l, NEW d, EnqueueMessage(a, l, d) PROVE SpacingInv'
  BY <1>4, EnqueueSpacing
<1>5. ASSUME NEW a, DeleteAgent(a) PROVE SpacingInv'
  BY <1>5, DeleteAgentSpacing
<1>6. ASSUME (\E p : CrashProcess(p)) \/ (\E a : PutAgent(a)) \/ UNCHANGED vars
      PROVE  SpacingInv'
  <2>1. UNCHANGED <<clock, msgs, runs>>
    BY <1>6 DEF CrashProcess, PutAgent, vars
  <2> QED
    BY <1>1, <1>2, <2>1
<1>7. CASE Tick
  BY <1>1, <1>2, <1>7 DEF Tick
<1> QED
  BY <1>3, <1>4, <1>5, <1>6, <1>7 DEF Next

\* In one process, the rows of messages and runs agree on who holds a lease,
\* and no run of a message starts before every earlier one is over by
\* retry_delay or has outlived its lease.
THEOREM LeasesSound == ASSUME OneProcess PROVE Spec => []LeasesAreSound
<1>1. Init => SpacingInv
  <2> SUFFICES ASSUME Init PROVE SpacingInv
    OBVIOUS
  <2>1. /\ clock = 0 /\ \A m \in Message : msgs[m] = NoMsg
        /\ \A r \in Run : runs[r] = NoRun
    BY DEF Init
  <2> QED
    BY <2>1 DEF SpacingInv, LeaseTimes, RunSpacing, RunsOf, NoMsg, NoRun
<1>2. IInv /\ SpacingInv /\ [Next]_vars => SpacingInv'
  BY NextSpacing
<1>3. IInv /\ SpacingInv => LeasesAreSound
  BY DEF IInv, SpacingInv, LeasesAreSound
<1> QED
  BY <1>1, <1>2, <1>3, Inductive, PTL DEF Spec

-----------------------------------------------------------------------------
(* Any number of processes.                                                *)

\* What CompleteRun does, row by row, whoever holds the message by now.
LEMMA ReportEffect ==
  ASSUME TablesInv, NEW w \in Worker, NEW result \in RunStatus,
         NEW status \in MessageStatus, NEW t \in Nat, NEW out \in Outbox,
         CompleteRun(w, result, status, t, out)
  PROVE  /\ worker[w].msg \in Message /\ worker[w].run \in Run
         /\ worker[w].msg <= lastMsg
         /\ worker[w].status = "working"
         /\ runs[worker[w].run].status = "running"
         /\ runs[worker[w].run].msg = worker[w].msg
         /\ msgs'[worker[w].msg].status = status
         /\ msgs'[worker[w].msg].run = 0
         /\ msgs'[worker[w].msg].to = msgs[worker[w].msg].to
         /\ msgs'[worker[w].msg].attempts = msgs[worker[w].msg].attempts
         /\ msgs'[worker[w].msg].origin = msgs[worker[w].msg].origin
         /\ runs'[worker[w].run].status = result
         /\ runs'[worker[w].run].msg = worker[w].msg
         /\ \A s \in Run : s # worker[w].run => runs'[s] = runs[s]
         /\ lastMsg \in Nat /\ lastMsg' \in Nat /\ lastMsg <= lastMsg'
         /\ \A x \in Message : x # worker[w].msg /\ (x <= lastMsg \/ x > lastMsg') =>
              msgs'[x] = msgs[x]
         /\ \A x \in Message : lastMsg < x /\ x <= lastMsg' =>
              /\ msgs'[x].status = "queued" /\ msgs'[x].run = 0 /\ msgs'[x].attempts = 0
              /\ out # <<>> /\ msgs'[x].origin = worker[w].run
         /\ worker' = [worker EXCEPT ![w] = Polling]
         /\ lastRun' = lastRun
<1> DEFINE m == worker[w].msg
           r == worker[w].run
<1>0. /\ clock \in Nat /\ lastMsg \in Nat /\ lastRun \in Nat
      /\ msgs \in [Message -> MsgRow] /\ runs \in [Run -> RunRow]
      /\ worker[w] \in WorkerState
  BY Bounds DEF TablesInv, TypeOK
<1>1. /\ worker[w].status = "working"
      /\ runs[r].status # "absent" /\ msgs[m].status # "absent"
  BY DEF CompleteRun, Active
<1>2. m \in Message /\ r \in Run /\ m <= lastMsg /\ runs[r].msg = m
  BY <1>1 DEF TablesInv, WorkerTask
<1>3. runs[r].status = "running"
  BY <1>1 DEF TablesInv, OneWriter
<1>4. /\ \A s \in Run : s # r => runs'[s] = runs[s]
      /\ runs'[r] = [runs[r] EXCEPT !.status = result, !.finishedAt = clock]
  BY <1>0, <1>2 DEF CompleteRun, EndRun
<1>5. runs'[r].status = result /\ runs'[r].msg = m
  BY <1>0, <1>2, <1>4 DEF RunRow
<1>6. /\ lastMsg' = lastMsg + Len(out) /\ lastRun' = lastRun
      /\ worker' = [worker EXCEPT ![w] = Polling]
  BY DEF CompleteRun
<1>7. Len(out) \in Nat /\ DOMAIN out = 1..Len(out)
  BY OutboxIsSeq
<1>8. \A x \in Message :
        msgs'[x] = IF x = m
                   THEN Released(msgs[m], status, t)
                   ELSE IF x - lastMsg \in DOMAIN out
                   THEN NewMsg(out[x - lastMsg].to, out[x - lastMsg].limit,
                               out[x - lastMsg].delay, r)
                   ELSE msgs[x]
  BY DEF CompleteRun
<1>9. /\ msgs'[m].status = status /\ msgs'[m].run = 0
      /\ msgs'[m].to = msgs[m].to /\ msgs'[m].attempts = msgs[m].attempts
      /\ msgs'[m].origin = msgs[m].origin
  BY <1>0, <1>2, <1>8, ReleasedRow
<1>10. \A x \in Message : x # m /\ (x <= lastMsg \/ x > lastMsg') => msgs'[x] = msgs[x]
  <2> SUFFICES ASSUME NEW x \in Message, x # m, x <= lastMsg \/ x > lastMsg'
               PROVE  msgs'[x] = msgs[x]
    OBVIOUS
  <2>1. x - lastMsg \notin DOMAIN out
    BY <1>0, <1>6, <1>7, Bounds DEF Message
  <2> QED
    BY <1>8, <2>1
<1>11. \A x \in Message : lastMsg < x /\ x <= lastMsg' =>
         /\ msgs'[x].status = "queued" /\ msgs'[x].run = 0 /\ msgs'[x].attempts = 0
         /\ out # <<>> /\ msgs'[x].origin = r
  <2> SUFFICES ASSUME NEW x \in Message, lastMsg < x, x <= lastMsg'
               PROVE  /\ msgs'[x].status = "queued" /\ msgs'[x].run = 0
                      /\ msgs'[x].attempts = 0
                      /\ out # <<>> /\ msgs'[x].origin = r
    OBVIOUS
  <2>1. x - lastMsg \in DOMAIN out /\ x # m
    BY <1>0, <1>2, <1>6, <1>7, Bounds DEF Message
  <2>2. msgs'[x] = NewMsg(out[x - lastMsg].to, out[x - lastMsg].limit,
                          out[x - lastMsg].delay, r)
    BY <1>8, <2>1
  <2>3. out # <<>>
    BY <2>1
  <2> QED
    BY <2>2, <2>3 DEF NewMsg
<1>12. lastMsg' \in Nat /\ lastMsg <= lastMsg'
  BY <1>0, <1>6, <1>7
<1> QED
  BY <1>0, <1>1, <1>2, <1>3, <1>4, <1>5, <1>6, <1>9, <1>10, <1>11, <1>12

\* A message that comes from an outbox names a run that was begun.
LEMMA OriginType ==
  ASSUME TablesInv, NEW x \in Message, msgs[x].origin # 0
  PROVE  msgs[x].origin \in Run /\ msgs[x].origin <= lastRun
<1>1. msgs[x].origin \in 0..MaxRuns
  BY DEF TablesInv, TypeOK, MsgRow
<1> QED
  BY <1>1, Bounds DEF TablesInv, OriginFinished, Run

\* A report keeps TablesInv even if another worker holds the message by now: that
\* message is released, and only the run of the worker has ended.
LEMMA ReportTables ==
  ASSUME TablesInv, NEW w \in Worker, NEW result \in {"finished", "failed"},
         NEW status \in {"queued", "completed", "dead_letter"},
         NEW t \in Nat, NEW out \in Outbox,
         status = "completed" => result = "finished",
         status = "dead_letter" => result = "failed",
         out # <<>> => result = "finished",
         CompleteRun(w, result, status, t, out)
  PROVE  TablesInv'
<1> DEFINE m == worker[w].msg
           r == worker[w].run
<1>0. result \in RunStatus /\ status \in MessageStatus
  BY DEF RunStatus, MessageStatus
<1>1. TypeOK'
  BY <1>0, CompleteRunType DEF TablesInv
<1>2. /\ m \in Message /\ r \in Run /\ m <= lastMsg
      /\ worker[w].status = "working"
      /\ runs[r].status = "running" /\ runs[r].msg = m
      /\ msgs'[m].status = status /\ msgs'[m].run = 0
      /\ msgs'[m].to = msgs[m].to /\ msgs'[m].attempts = msgs[m].attempts
      /\ msgs'[m].origin = msgs[m].origin
      /\ runs'[r].status = result /\ runs'[r].msg = m
      /\ \A s \in Run : s # r => runs'[s] = runs[s]
      /\ lastMsg \in Nat /\ lastMsg' \in Nat /\ lastMsg <= lastMsg'
      /\ \A x \in Message : x # m /\ (x <= lastMsg \/ x > lastMsg') => msgs'[x] = msgs[x]
      /\ \A x \in Message : lastMsg < x /\ x <= lastMsg' =>
           /\ msgs'[x].status = "queued" /\ msgs'[x].run = 0 /\ msgs'[x].attempts = 0
           /\ out # <<>> /\ msgs'[x].origin = r
      /\ worker' = [worker EXCEPT ![w] = Polling]
      /\ lastRun' = lastRun
  BY <1>0, ReportEffect
<1> HIDE DEF m, r
<1>3. \A x \in Message : x > lastMsg => msgs[x] = NoMsg
  BY DEF TablesInv, RowsInOrder
<1>4. \A s \in Run : runs[s].status # "absent" =>
        /\ runs[s].msg \in Message /\ msgs[runs[s].msg].status # "absent"
        /\ runs[s].msg <= lastMsg
  BY <1>2, <1>3 DEF TablesInv, RunsHaveMessages, NoMsg, Message
<1>5. /\ worker'[w] = Polling
      /\ \A v \in Worker : v # w => worker'[v] = worker[v]
  BY <1>2 DEF TablesInv, TypeOK
<1>6. RowsInOrder'
  <2>1. \A x \in Message : x > lastMsg' => msgs'[x] = NoMsg
    BY <1>2, <1>3 DEF Message
  <2>2. \A s \in Run : s > lastRun' => runs'[s] = NoRun
    BY <1>2 DEF TablesInv, RowsInOrder, NoRun
  <2> QED
    BY <2>1, <2>2 DEF RowsInOrder
<1>7. RunsHaveMessages'
  <2>1. \A q \in Run : runs[q].status = "absent" => runs[q] = NoRun
    BY DEF TablesInv, RunsHaveMessages
  <2>2. \A q \in Run : runs'[q].status # "absent" =>
          /\ runs'[q].msg \in Message /\ msgs'[runs'[q].msg].status # "absent"
    BY <1>2, <1>4
  <2> QED
    BY <1>2, <2>1, <2>2 DEF RunsHaveMessages
<1>8. \A v \in Worker : worker'[v].status = "working" =>
        v # w /\ worker'[v] = worker[v] /\ worker[v].status = "working"
  BY <1>5 DEF Polling
<1>9. WorkerTask'
  <2> SUFFICES ASSUME NEW v \in Worker, worker'[v].status = "working"
               PROVE  /\ worker[v].msg \in Message /\ worker[v].run \in Run
                      /\ worker[v].msg <= lastMsg' /\ worker[v].run <= lastRun
                      /\ runs'[worker[v].run].status # "absent" =>
                           /\ runs'[worker[v].run].msg = worker[v].msg
                           /\ msgs'[worker[v].msg].to = AgentOf[v]
    BY <1>2, <1>8 DEF WorkerTask
  <2>1. /\ worker[v].msg \in Message /\ worker[v].run \in Run
        /\ worker[v].msg <= lastMsg /\ worker[v].run <= lastRun
        /\ runs[worker[v].run].status # "absent" =>
             /\ runs[worker[v].run].msg = worker[v].msg
             /\ msgs[worker[v].msg].to = AgentOf[v]
    BY <1>8 DEF TablesInv, WorkerTask
  <2>2. msgs'[worker[v].msg].to = msgs[worker[v].msg].to
    BY <1>2, <2>1
  <2> QED
    BY <1>2, <2>1, <2>2 DEF Message
<1>10. OneWriter'
  <2> SUFFICES ASSUME NEW u \in Worker, NEW v \in Worker,
                      worker'[u].status = "working", worker'[v].status = "working"
               PROVE  /\ worker[u].run = worker[v].run => u = v
                      /\ runs'[worker[v].run].status \in {"running", "absent"}
    BY <1>8 DEF OneWriter
  <2>1. worker[u].run = worker[v].run => u = v
    BY <1>8 DEF TablesInv, OneWriter
  <2>2. worker[v].run # r
    BY <1>2, <1>8 DEF TablesInv, OneWriter, r
  <2>3. worker[v].run \in Run /\ runs[worker[v].run].status \in {"running", "absent"}
    BY <1>8 DEF TablesInv, OneWriter, WorkerTask
  <2> QED
    BY <1>2, <2>1, <2>2, <2>3
<1>11. \A x \in Message : RunsOf(x)' = RunsOf(x)
  BY <1>2 DEF RunsOf
<1>12. LeaseNamesRun'
  <2> SUFFICES ASSUME NEW x \in Message
               PROVE  IF msgs'[x].status = "leased"
                      THEN /\ msgs'[x].run \in RunsOf(x)
                           /\ runs'[msgs'[x].run].status = "running"
                           /\ \A s \in RunsOf(x) : s <= msgs'[x].run
                      ELSE msgs'[x].run = 0
    BY <1>11 DEF LeaseNamesRun
  <2>1. CASE x # m /\ (x <= lastMsg \/ x > lastMsg')
    <3>1. msgs'[x] = msgs[x]
      BY <1>2, <2>1
    <3>2. r \notin RunsOf(x)
      BY <1>2, <2>1 DEF RunsOf
    <3> QED
      BY <1>2, <3>1, <3>2 DEF TablesInv, TablesAgree, LeaseNamesRun, RunsOf
  <2>2. CASE x = m
    BY <1>2, <2>2
  <2>3. CASE lastMsg < x /\ x <= lastMsg'
    BY <1>2, <2>3
  <2> QED
    BY <1>2, <2>1, <2>2, <2>3 DEF Message
<1>13. AttemptsAreRuns'
  <2>1. \A x \in Message : msgs'[x].attempts = msgs[x].attempts
    BY <1>2, <1>3 DEF Message, NoMsg
  <2> QED
    BY <1>11, <2>1 DEF TablesInv, TablesAgree, AttemptsAreRuns
<1>14. r <= lastRun
  BY <1>2 DEF TablesInv, WorkerTask, r
<1>15. OriginFinished'
  <2> SUFFICES ASSUME NEW x \in Message, msgs'[x].origin # 0
               PROVE  /\ msgs'[x].origin <= lastRun
                      /\ runs'[msgs'[x].origin].status \in {"finished", "absent"}
    BY <1>2 DEF OriginFinished
  <2>1. CASE lastMsg < x /\ x <= lastMsg'
    BY <1>2, <1>14, <2>1
  <2>2. CASE x <= lastMsg \/ x > lastMsg'
    <3>1. msgs'[x].origin = msgs[x].origin
      BY <1>2, <2>2
    <3>2. /\ msgs[x].origin <= lastRun
          /\ runs[msgs[x].origin].status \in {"finished", "absent"}
      BY <3>1 DEF TablesInv, OriginFinished
    <3>3. msgs[x].origin # r /\ msgs[x].origin \in Run
      BY <1>2, <3>1, <3>2, OriginType DEF TablesInv
    <3> QED
      BY <1>2, <3>1, <3>2, <3>3
  <2> QED
    BY <1>2, <2>1, <2>2 DEF Message
<1>16. ResultsHaveRuns'
  <2> SUFFICES ASSUME NEW x \in Message
               PROVE  /\ msgs'[x].status = "completed" =>
                           \E s \in RunsOf(x) : runs'[s].status = "finished"
                      /\ msgs'[x].status = "dead_letter" =>
                           \E s \in RunsOf(x) : runs'[s].status = "failed"
    BY <1>11 DEF ResultsHaveRuns
  <2>1. CASE x = m
    <3>1. r \in RunsOf(m)
      BY <1>2 DEF RunsOf
    <3> QED
      BY <1>2, <2>1, <3>1
  <2>2. CASE x # m /\ (x <= lastMsg \/ x > lastMsg')
    <3>1. \A s \in RunsOf(x) : runs'[s] = runs[s]
      BY <1>2, <2>2 DEF RunsOf
    <3>2. msgs'[x] = msgs[x]
      BY <1>2, <2>2
    <3>3. /\ msgs[x].status = "completed" =>
                \E s \in RunsOf(x) : runs[s].status = "finished"
          /\ msgs[x].status = "dead_letter" =>
                \E s \in RunsOf(x) : runs[s].status = "failed"
      BY DEF TablesInv, TablesAgree, ResultsHaveRuns
    <3> QED
      BY <3>1, <3>2, <3>3
  <2>3. CASE lastMsg < x /\ x <= lastMsg'
    BY <1>2, <2>3
  <2> QED
    BY <1>2, <2>1, <2>2, <2>3 DEF Message
<1> QED
  BY <1>1, <1>6, <1>7, <1>9, <1>10, <1>12, <1>13, <1>15, <1>16 DEF TablesInv, TablesAgree

\* The runs of a message are finitely many.
LEMMA RunsFinite ==
  ASSUME NEW m \in Message
  PROVE  IsFiniteSet(RunsOf(m)) /\ Cardinality(RunsOf(m)) \in Nat
<1>1. IsFiniteSet(Run)
  BY FS_Interval, Bounds DEF Run
<1>2. RunsOf(m) \subseteq Run
  BY DEF RunsOf
<1> QED
  BY <1>1, <1>2, FS_Subset, FS_CardinalityType

\* A claim begins one try and one run, under an id that no worker has.
LEMMA ClaimTables ==
  ASSUME TablesInv, NEW w \in Worker, ClaimNextMessage(w)
  PROVE  TablesInv'
<1>0. PICK m \in Message :
        /\ Candidate(m, AgentOf[w])
        /\ msgs' = [msgs EXCEPT ![m] = Leased(msgs[m], lastRun + 1)]
        /\ runs' = [runs EXCEPT ![lastRun + 1] = NewRun(m)]
        /\ worker' = [worker EXCEPT
                        ![w] = Working(m, lastRun + 1, msgs[m].attempts + 1)]
  BY DEF ClaimNextMessage
<1> DEFINE r == lastRun + 1
<1>1. TypeOK'
  BY WorkerStepType DEF TablesInv, WorkerStep
<1>2. /\ r \in Run /\ r \in 0..MaxRuns /\ lastRun \in Nat
      /\ lastRun' = r /\ lastMsg' = lastMsg /\ lastMsg \in Nat
      /\ clock \in Nat
      /\ msgs \in [Message -> MsgRow] /\ runs \in [Run -> RunRow]
  BY Bounds DEF ClaimNextMessage, TablesInv, TypeOK, Run
<1>3. /\ msgs[m].to = AgentOf[w] /\ msgs[m].status \in {"queued", "leased"}
  BY <1>0 DEF Candidate, Claimable
<1>4. /\ msgs'[m].status = "leased" /\ msgs'[m].run = r
      /\ msgs'[m].to = AgentOf[w]
      /\ msgs'[m].attempts = msgs[m].attempts + 1
      /\ msgs'[m].origin = msgs[m].origin
      /\ \A x \in Message : x # m => msgs'[x] = msgs[x]
  BY <1>0, <1>2, <1>3, LeasedRow
<1>5. /\ runs'[r].status = "running" /\ runs'[r].msg = m
      /\ \A s \in Run : s # r => runs'[s] = runs[s]
  BY <1>0, <1>2 DEF NewRun
<1>6. /\ worker'[w] = Working(m, r, msgs[m].attempts + 1)
      /\ \A v \in Worker : v # w => worker'[v] = worker[v]
  BY <1>0 DEF TablesInv, TypeOK
<1>7. runs[r].status = "absent"
  BY <1>2 DEF TablesInv, RowsInOrder, NoRun
<1>8. m <= lastMsg
  BY <1>2, <1>3 DEF TablesInv, RowsInOrder, NoMsg, Message
<1> HIDE DEF r
<1>9. \A s \in Run : s > lastRun' => s # r /\ s > lastRun
  BY <1>2 DEF r, Run
<1>10. RowsInOrder'
  <2>1. \A x \in Message : x > lastMsg' => msgs'[x] = NoMsg
    <3> SUFFICES ASSUME NEW x \in Message, x > lastMsg' PROVE msgs'[x] = NoMsg
      OBVIOUS
    <3>1. x > lastMsg /\ x # m
      BY <1>2, <1>8 DEF Message
    <3> QED
      BY <1>4, <3>1 DEF TablesInv, RowsInOrder
  <2>2. \A s \in Run : s > lastRun' => runs'[s] = NoRun
    BY <1>5, <1>9 DEF TablesInv, RowsInOrder
  <2> QED
    BY <2>1, <2>2 DEF RowsInOrder
<1>11. RunsHaveMessages'
  BY <1>2, <1>4, <1>5 DEF TablesInv, RunsHaveMessages
<1>12. \A v \in Worker : worker[v].status = "working" =>
         /\ worker[v].msg \in Message /\ worker[v].run \in Run /\ worker[v].run # r
         /\ worker[v].msg <= lastMsg /\ worker[v].run <= lastRun
  BY <1>2 DEF TablesInv, WorkerTask, r, Run
<1>13. WorkerTask'
  <2> SUFFICES ASSUME NEW v \in Worker, worker'[v].status = "working"
               PROVE  /\ worker'[v].msg \in Message /\ worker'[v].run \in Run
                      /\ worker'[v].msg <= lastMsg /\ worker'[v].run <= lastRun'
                      /\ runs'[worker'[v].run].status # "absent" =>
                           /\ runs'[worker'[v].run].msg = worker'[v].msg
                           /\ msgs'[worker'[v].msg].to = AgentOf[v]
    BY <1>2 DEF WorkerTask
  <2>1. CASE v = w
    BY <2>1, <1>2, <1>4, <1>5, <1>6, <1>8 DEF Working, Run
  <2>2. CASE v # w
    <3>1. worker'[v] = worker[v] /\ worker[v].status = "working"
      BY <1>6, <2>2
    <3>2. worker[v].run <= lastRun'
      BY <1>2, <1>12, <3>1 DEF r, Run
    <3>3. runs[worker[v].run].status # "absent" =>
            /\ runs[worker[v].run].msg = worker[v].msg
            /\ msgs[worker[v].msg].to = AgentOf[v]
      BY <3>1 DEF TablesInv, WorkerTask
    <3> QED
      BY <1>3, <1>4, <1>5, <1>12, <3>1, <3>2, <3>3
  <2> QED
    BY <2>1, <2>2
<1>14. OneWriter'
  <2>1. \A v \in Worker : worker'[v].status = "working" =>
          \/ v = w /\ worker'[v].run = r
          \/ /\ v # w /\ worker'[v] = worker[v] /\ worker[v].status = "working"
             /\ worker[v].run \in Run /\ worker[v].run # r
    BY <1>6, <1>12 DEF Working
  <2> SUFFICES ASSUME NEW u \in Worker, NEW v \in Worker,
                      worker'[u].status = "working", worker'[v].status = "working"
               PROVE  /\ worker'[u].run = worker'[v].run => u = v
                      /\ runs'[worker'[v].run].status \in {"running", "absent"}
    BY DEF OneWriter
  <2>2. worker'[u].run = worker'[v].run => u = v
    BY <2>1 DEF TablesInv, OneWriter
  <2>3. runs'[worker'[v].run].status \in {"running", "absent"}
    BY <1>5, <2>1 DEF TablesInv, OneWriter
  <2> QED
    BY <2>2, <2>3
<1>15. /\ RunsOf(m)' = RunsOf(m) \cup {r}
       /\ \A x \in Message : x # m => RunsOf(x)' = RunsOf(x)
       /\ \A x \in Message : r \notin RunsOf(x)
       /\ \A s \in RunsOf(m) : s <= r
  <2>1. \A x \in Message : r \notin RunsOf(x)
    BY <1>7 DEF RunsOf
  <2>2. RunsOf(m)' = RunsOf(m) \cup {r}
    <3>1. \A s \in Run : s \in RunsOf(m)' <=> s \in RunsOf(m) \/ s = r
      BY <1>5 DEF RunsOf
    <3> QED
      BY <1>2, <3>1 DEF RunsOf
  <2>3. \A x \in Message : x # m => RunsOf(x)' = RunsOf(x)
    BY <1>2, <1>5, <1>7 DEF RunsOf
  <2>4. \A s \in RunsOf(m) : s <= r
    <3>1. \A s \in Run : s > lastRun => runs[s].status = "absent"
      BY DEF TablesInv, RowsInOrder, NoRun
    <3> QED
      BY <1>2, <3>1 DEF RunsOf, Run, r
  <2> QED
    BY <2>1, <2>2, <2>3, <2>4
<1>16. LeaseNamesRun'
  <2> SUFFICES ASSUME NEW x \in Message
               PROVE  IF msgs'[x].status = "leased"
                      THEN /\ msgs'[x].run \in RunsOf(x)'
                           /\ runs'[msgs'[x].run].status = "running"
                           /\ \A s \in RunsOf(x)' : s <= msgs'[x].run
                      ELSE msgs'[x].run = 0
    BY DEF LeaseNamesRun
  <2>1. CASE x = m
    BY <1>2, <1>4, <1>5, <1>15, <2>1 DEF Run
  <2>2. CASE x # m
    <3>1. msgs'[x] = msgs[x] /\ RunsOf(x)' = RunsOf(x) /\ r \notin RunsOf(x)
      BY <1>4, <1>15, <2>2
    <3> QED
      BY <1>5, <3>1 DEF TablesInv, TablesAgree, LeaseNamesRun, RunsOf
  <2> QED
    BY <2>1, <2>2
<1>17. AttemptsAreRuns'
  <2> SUFFICES ASSUME NEW x \in Message
               PROVE  msgs'[x].attempts = Cardinality(RunsOf(x)')
    BY DEF AttemptsAreRuns
  <2>1. msgs[x].attempts = Cardinality(RunsOf(x))
    BY DEF TablesInv, TablesAgree, AttemptsAreRuns
  <2>2. CASE x = m
    BY <1>4, <1>15, <2>1, <2>2, RunsFinite, FS_AddElement
  <2>3. CASE x # m
    BY <1>4, <1>15, <2>1, <2>3
  <2> QED
    BY <2>2, <2>3
<1>18. OriginFinished'
  <2> SUFFICES ASSUME NEW x \in Message, msgs'[x].origin # 0
               PROVE  /\ msgs'[x].origin <= lastRun'
                      /\ runs'[msgs'[x].origin].status \in {"finished", "absent"}
    BY DEF OriginFinished
  <2>1. msgs'[x].origin = msgs[x].origin
    BY <1>4
  <2>2. /\ msgs[x].origin \in Run /\ msgs[x].origin <= lastRun
        /\ runs[msgs[x].origin].status \in {"finished", "absent"}
    BY <2>1, OriginType DEF TablesInv, OriginFinished
  <2>3. msgs[x].origin # r /\ msgs[x].origin <= lastRun'
    BY <1>2, <2>2 DEF r, Run
  <2> QED
    BY <1>5, <2>1, <2>2, <2>3
<1>19. ResultsHaveRuns'
  <2> SUFFICES ASSUME NEW x \in Message, x # m
               PROVE  /\ msgs'[x].status = "completed" =>
                           \E s \in RunsOf(x)' : runs'[s].status = "finished"
                      /\ msgs'[x].status = "dead_letter" =>
                           \E s \in RunsOf(x)' : runs'[s].status = "failed"
    BY <1>4 DEF ResultsHaveRuns
  <2>1. msgs'[x] = msgs[x] /\ RunsOf(x)' = RunsOf(x) /\ r \notin RunsOf(x)
    BY <1>4, <1>15
  <2>2. \A s \in RunsOf(x) : runs'[s] = runs[s]
    BY <1>5, <2>1 DEF RunsOf
  <2> QED
    BY <2>1, <2>2 DEF TablesInv, TablesAgree, ResultsHaveRuns
<1> QED
  BY <1>1, <1>10, <1>11, <1>13, <1>14, <1>16, <1>17, <1>18, <1>19 DEF TablesInv, TablesAgree

\* Steps that leave messages, and what is told of runs, alone, and give no worker
\* a task that it did not have.
LEMMA TablesStay ==
  ASSUME TablesInv, TypeOK',
         UNCHANGED <<msgs, lastMsg, lastRun>>,
         \A s \in Run : /\ runs'[s].status = runs[s].status
                        /\ runs'[s].msg = runs[s].msg
                        /\ runs[s].status = "absent" => runs'[s] = runs[s],
         \A v \in Worker : worker'[v].status = "working" =>
           /\ worker[v].status = "working"
           /\ worker'[v].msg = worker[v].msg
           /\ worker'[v].run = worker[v].run
  PROVE  TablesInv'
<1>1. msgs' = msgs /\ lastMsg' = lastMsg /\ lastRun' = lastRun
  OBVIOUS
<1>2. RowsInOrder'
  BY <1>1 DEF TablesInv, RowsInOrder, NoRun
<1>3. RunsHaveMessages'
  BY <1>1 DEF TablesInv, RunsHaveMessages
<1>4. WorkerTask'
  BY <1>1 DEF TablesInv, WorkerTask
<1>5. OneWriter'
  BY DEF TablesInv, OneWriter, WorkerTask
<1>6. \A x \in Message : RunsOf(x)' = RunsOf(x)
  BY DEF RunsOf
<1>7. LeaseNamesRun' /\ AttemptsAreRuns'
  BY <1>1, <1>6 DEF TablesInv, TablesAgree, LeaseNamesRun, AttemptsAreRuns, RunsOf
<1>8. OriginFinished'
  <2> SUFFICES ASSUME NEW x \in Message, msgs[x].origin # 0
               PROVE  /\ msgs[x].origin <= lastRun
                      /\ runs'[msgs[x].origin].status \in {"finished", "absent"}
    BY <1>1 DEF OriginFinished
  <2> QED
    BY OriginType DEF TablesInv, OriginFinished
<1>9. ResultsHaveRuns'
  BY <1>1, <1>6 DEF TablesInv, TablesAgree, ResultsHaveRuns, RunsOf
<1> QED
  BY <1>2, <1>3, <1>4, <1>5, <1>7, <1>8, <1>9 DEF TablesInv, TablesAgree

\* Steps of one worker.
LEMMA WorkerStepTables ==
  ASSUME TablesInv, NEW w \in Worker, WorkerStep(w)
  PROVE  TablesInv'
<1>0. TypeOK'
  BY WorkerStepType DEF TablesInv
<1>1. clock \in Nat /\ clock + RetryDelay \in Nat
  BY Bounds DEF TablesInv, TypeOK
<1>2. CASE ClaimNextMessage(w)
  BY <1>2, ClaimTables
<1>3. CASE Finish(w) \/ Retry(w) \/ DeadLetter(w)
  BY <1>1, <1>3, EmptyOutbox, ReportTables DEF Finish, Retry, DeadLetter
<1>4. CASE RecordStep(w)
  <2> DEFINE r == worker[w].run
  <2>1. /\ runs \in [Run -> RunRow]
        /\ runs[r].status # "absent"
        /\ runs' = [runs EXCEPT ![r] = [runs[r] EXCEPT !.steps = runs[r].steps + 1]]
    BY <1>4 DEF RecordStep, TablesInv, TypeOK
  <2> HIDE DEF r
  <2>2. \A s \in Run : /\ runs'[s].status = runs[s].status
                       /\ runs'[s].msg = runs[s].msg
                       /\ runs[s].status = "absent" => runs'[s] = runs[s]
    BY <2>1 DEF RunRow
  <2>3. UNCHANGED <<msgs, lastMsg, lastRun>> /\ worker' = worker
    BY <1>4 DEF RecordStep
  <2> QED
    BY <1>0, <2>2, <2>3, TablesStay
<1>5. CASE StartWorker(w) \/ CancelWorker(w) \/ ExitCanceled(w) \/ ExitOrphaned(w) \/ Fail(w)
  <2>1. UNCHANGED <<msgs, runs, lastMsg, lastRun>>
    BY <1>5 DEF StartWorker, CancelWorker, ExitCanceled, ExitOrphaned, Fail
  <2>2. \A v \in Worker : worker'[v].status = "working" =>
          /\ worker[v].status = "working"
          /\ worker'[v].msg = worker[v].msg
          /\ worker'[v].run = worker[v].run
    BY <1>5 DEF StartWorker, CancelWorker, ExitCanceled, ExitOrphaned, Fail,
       TablesInv, TypeOK, WorkerState, Down, Polling
  <2> QED
    BY <1>0, <2>1, <2>2, TablesStay
<1> QED
  BY <1>2, <1>3, <1>4, <1>5 DEF WorkerStep

\* A new message has no run, and no worker has it.
LEMMA EnqueueTables ==
  ASSUME TablesInv, TypeOK', NEW a, NEW l, NEW d, EnqueueMessage(a, l, d)
  PROVE  TablesInv'
<1> DEFINE n == lastMsg + 1
<1>1. /\ lastMsg' = n /\ lastMsg \in Nat /\ n \in Message
      /\ runs' = runs /\ worker' = worker /\ lastRun' = lastRun
  BY Bounds DEF EnqueueMessage, TablesInv, TypeOK, Message
<1>2. /\ msgs'[n].status = "queued" /\ msgs'[n].run = 0 /\ msgs'[n].attempts = 0
      /\ msgs'[n].origin = 0
      /\ \A x \in Message : x # n => msgs'[x] = msgs[x]
  BY <1>1 DEF EnqueueMessage, TablesInv, TypeOK, NewMsg
<1>3. /\ msgs[n].status = "absent" /\ msgs[n].attempts = 0
      /\ \A x \in Message : x <= lastMsg => x # n /\ x <= lastMsg'
  BY <1>1 DEF TablesInv, RowsInOrder, NoMsg, Message
<1>4. RowsInOrder'
  BY <1>1, <1>2 DEF TablesInv, RowsInOrder, Message
<1> HIDE DEF n
<1>5. RunsHaveMessages'
  BY <1>1, <1>2 DEF TablesInv, RunsHaveMessages
<1>6. WorkerTask' /\ OneWriter'
  BY <1>1, <1>2, <1>3 DEF TablesInv, WorkerTask, OneWriter
<1>7. \A x \in Message : RunsOf(x)' = RunsOf(x)
  BY <1>1 DEF RunsOf
<1>8. LeaseNamesRun'
  BY <1>1, <1>2, <1>3, <1>7 DEF TablesInv, TablesAgree, LeaseNamesRun
<1>9. AttemptsAreRuns'
  BY <1>2, <1>3, <1>7 DEF TablesInv, TablesAgree, AttemptsAreRuns
<1>10. OriginFinished' /\ ResultsHaveRuns'
  BY <1>1, <1>2, <1>7 DEF TablesInv, TablesAgree, OriginFinished, ResultsHaveRuns
<1> QED
  BY <1>4, <1>5, <1>6, <1>8, <1>9, <1>10 DEF TablesInv, TablesAgree

\* A deletion takes messages with all their runs, also those a worker is at.
LEMMA DeleteAgentTables ==
  ASSUME TablesInv, TypeOK', NEW a, DeleteAgent(a)
  PROVE  TablesInv'
<1>1. /\ worker' = worker /\ lastMsg' = lastMsg /\ lastRun' = lastRun
      /\ \A x \in Message : msgs'[x] = IF msgs[x].to = a THEN NoMsg ELSE msgs[x]
      /\ \A s \in Run :
           runs'[s] = IF runs[s].status # "absent" /\ msgs[runs[s].msg].to = a
                      THEN NoRun ELSE runs[s]
  BY DEF DeleteAgent
<1>2. RowsInOrder'
  BY <1>1 DEF TablesInv, RowsInOrder
<1>3. RunsHaveMessages'
  BY <1>1 DEF TablesInv, RunsHaveMessages, NoRun
<1>4. WorkerTask' /\ OneWriter'
  BY <1>1 DEF TablesInv, WorkerTask, OneWriter, NoRun
<1>5. \A x \in Message :
        IF msgs[x].to = a
        THEN msgs'[x] = NoMsg /\ RunsOf(x)' = {}
        ELSE /\ msgs'[x] = msgs[x] /\ RunsOf(x)' = RunsOf(x)
             /\ \A s \in RunsOf(x) : runs'[s] = runs[s]
  BY <1>1 DEF RunsOf, NoRun
<1>6. LeaseNamesRun'
  BY <1>5 DEF TablesInv, TablesAgree, LeaseNamesRun, NoMsg
<1>7. AttemptsAreRuns'
  <2> SUFFICES ASSUME NEW x \in Message
               PROVE  msgs'[x].attempts = Cardinality(RunsOf(x)')
    BY DEF AttemptsAreRuns
  <2>1. msgs[x].attempts = Cardinality(RunsOf(x))
    BY DEF TablesInv, TablesAgree, AttemptsAreRuns
  <2>2. Cardinality({}) = 0 /\ NoMsg.attempts = 0
    BY FS_EmptySet DEF NoMsg
  <2> QED
    BY <1>5, <2>1, <2>2
<1>8. OriginFinished'
  <2> SUFFICES ASSUME NEW x \in Message, msgs'[x].origin # 0
               PROVE  /\ msgs'[x].origin <= lastRun
                      /\ runs'[msgs'[x].origin].status \in {"finished", "absent"}
    BY <1>1 DEF OriginFinished
  <2>1. msgs'[x] = msgs[x]
    BY <1>1 DEF NoMsg
  <2>2. /\ msgs[x].origin \in Run /\ msgs[x].origin <= lastRun
        /\ runs[msgs[x].origin].status \in {"finished", "absent"}
    BY <2>1, OriginType DEF TablesInv, OriginFinished
  <2> QED
    BY <1>1, <2>1, <2>2 DEF NoRun
<1>9. ResultsHaveRuns'
  BY <1>5 DEF TablesInv, TablesAgree, ResultsHaveRuns, NoMsg
<1> QED
  BY <1>2, <1>3, <1>4, <1>6, <1>7, <1>8, <1>9 DEF TablesInv, TablesAgree

\* Every step of the mailbox keeps TablesInv.
LEMMA NextTables ==
  ASSUME TablesInv, TypeOK', [Next]_vars
  PROVE  TablesInv'
<1>1. ASSUME NEW w \in Worker, WorkerStep(w) PROVE TablesInv'
  BY <1>1, WorkerStepTables
<1>2. ASSUME NEW a \in Agent, NEW l \in Limits, NEW d \in Delays,
             EnqueueMessage(a, l, d)
      PROVE  TablesInv'
  BY <1>2, EnqueueTables
<1>3. ASSUME NEW a \in Agent, DeleteAgent(a) PROVE TablesInv'
  BY <1>3, DeleteAgentTables
<1>4. CASE \/ \E p : CrashProcess(p)
           \/ \E a : PutAgent(a)
           \/ Tick
           \/ UNCHANGED vars
  <2>1. UNCHANGED <<msgs, runs, lastMsg, lastRun>>
    BY <1>4 DEF CrashProcess, PutAgent, Tick, vars
  <2>2. \A v \in Worker : worker'[v] = worker[v] \/ worker'[v] = Down
    BY <1>4 DEF CrashProcess, PutAgent, Tick, vars
  <2> QED
    BY <2>1, <2>2, TablesStay DEF Down
<1> QED
  BY <1>1, <1>2, <1>3, <1>4 DEF Next

\* In any number of processes, TablesInv holds in every reachable state.
THEOREM TablesInvariant == Spec => []TablesInv
<1>1. Init => TablesInv
  <2> SUFFICES ASSUME Init PROVE TablesInv
    OBVIOUS
  <2>1. TypeOK
    BY Zero, Bounds, OtherRows DEF Init, TypeOK
  <2>2. /\ \A m \in Message : msgs[m] = NoMsg
        /\ \A r \in Run : runs[r] = NoRun
        /\ \A w \in Worker : worker[w] = Down
    BY DEF Init
  <2>3. \A m \in Message : RunsOf(m) = {}
    BY <2>2 DEF RunsOf, NoRun
  <2>4. RowsInOrder /\ RunsHaveMessages /\ WorkerTask /\ OneWriter /\ OriginFinished
    BY <2>2 DEF RowsInOrder, RunsHaveMessages, WorkerTask, OneWriter, OriginFinished,
       NoMsg, NoRun, Down
  <2>5. TablesAgree
    BY <2>2, <2>3, FS_EmptySet DEF TablesAgree, LeaseNamesRun, AttemptsAreRuns,
       ResultsHaveRuns, NoMsg
  <2> QED
    BY <2>1, <2>4, <2>5 DEF TablesInv
<1>2. TypeOK' /\ TablesInv /\ [Next]_vars => TablesInv'
  BY NextTables
<1> QED
  BY <1>1, <1>2, TypeCorrect, PTL DEF Spec

\* In any number of processes, a lease names the newest run of its message, which
\* is running, and the attempts of a message are its runs.
THEOREM TablesStayInStep == Spec => []TablesAgree
<1>1. TablesInv => TablesAgree
  BY DEF TablesInv
<1> QED
  BY <1>1, TablesInvariant, PTL

\* In any number of processes, the recorded end of a run is never changed.
THEOREM EndedRunsStay == Spec => RunsAreFinal
<1>1. TablesInv /\ [Next]_vars =>
        [\A r \in Run : runs[r].status \in {"finished", "failed"}
                          => runs'[r] \in {runs[r], NoRun}]_vars
  <2> SUFFICES ASSUME TablesInv, Next, NEW r \in Run,
                      runs[r].status \in {"finished", "failed"}
               PROVE  runs'[r] = runs[r] \/ runs'[r] = NoRun
    OBVIOUS
  <2>1. r <= lastRun /\ lastRun \in Nat
    BY Bounds DEF TablesInv, TypeOK, RowsInOrder, NoRun, Run
  <2>2. ASSUME NEW w \in Worker,
               RecordStep(w) \/ Finish(w) \/ Retry(w) \/ DeadLetter(w)
        PROVE  runs'[r] = runs[r]
    <3>1. /\ worker[w].status = "working"
          /\ \A q \in Run : q # worker[w].run => runs'[q] = runs[q]
      BY <2>2 DEF RecordStep, Finish, Retry, DeadLetter, CompleteRun, EndRun, Active,
         TablesInv, TypeOK
    <3>2. runs[worker[w].run].status \in {"running", "absent"}
      BY <3>1 DEF TablesInv, OneWriter
    <3> QED
      BY <3>1, <3>2
  <2>3. ASSUME NEW w \in Worker, ClaimNextMessage(w) PROVE runs'[r] = runs[r]
    BY <2>1, <2>3 DEF ClaimNextMessage, TablesInv, TypeOK, Run
  <2>4. ASSUME NEW w \in Worker, WorkerStep(w) PROVE runs'[r] = runs[r]
    BY <2>2, <2>3, <2>4 DEF WorkerStep, StartWorker, CancelWorker,
       ExitCanceled, ExitOrphaned, Fail
  <2>5. ASSUME \/ \E a, l, d : EnqueueMessage(a, l, d)
               \/ \E p : CrashProcess(p)
               \/ \E a : DeleteAgent(a) \/ PutAgent(a)
               \/ Tick
        PROVE  runs'[r] = runs[r] \/ runs'[r] = NoRun
    BY <2>5 DEF EnqueueMessage, CrashProcess, DeleteAgent, PutAgent, Tick
  <2> QED
    BY <2>4, <2>5 DEF Next
<1> QED
  BY <1>1, TablesInvariant, PTL DEF Spec, RunsAreFinal

\* In any number of processes, messages and runs agree and what is recorded of a run
\* stays, however late a worker that lost its lease reports.
THEOREM RecordsDoStand == Spec => RecordsStand
BY TablesStayInStep, EndedRunsStay, PTL DEF RecordsStand
=============================================================================
