----------------------------- MODULE Timetable -----------------------------
(***************************************************************************)
(* What schedules promise to whoever writes them, as one scheduler would   *)
(* keep it that never sleeps, fails or looks at an old row.  A schedule    *)
(* that is on waits for its next occurrence.  Its message is sent from the *)
(* plan as it is at that moment, stands for all occurrences from the one   *)
(* waited for to the time it was made, and in the same step the schedule   *)
(* waits for the first one after that.                                     *)
(***************************************************************************)
EXTENDS Integers, Sequences

CONSTANTS
  Schedule,  \* schedules that may be written
  Agent,     \* whom they may be for
  Cron,      \* minutes between their occurrences; 0 has none
  Limit      \* how often their messages may be tried

VARIABLES
  time,   \* time in minutes
  plan,   \* whom a schedule is for, how often it comes, whether it is on
  waits,  \* the occurrence it waits for
  sent    \* the messages, in order

timetableVars == <<time, plan, waits, sent>>

\* The one occurrence in the c minutes after t; expression 0 waits for ever.
FirstAfter(c, t) ==
  IF c = 0 THEN -1 ELSE CHOOSE n \in (t + 1)..(t + c) : n % c = 0

NoPlan == [agent |-> "none", cron |-> 0, on |-> FALSE]

TimetableInit ==
  /\ time = 1
  /\ plan = [s \in Schedule |-> NoPlan]
  /\ waits = [s \in Schedule |-> 0]
  /\ sent = <<>>

Write(s, a, c, on) ==
  /\ plan[s].agent = "none"
  /\ plan' = [plan EXCEPT ![s] = [agent |-> a, cron |-> c, on |-> on]]
  /\ waits' = [waits EXCEPT ![s] = IF on THEN FirstAfter(c, time) ELSE 0]
  /\ UNCHANGED <<time, sent>>

TurnOff(s) ==
  /\ plan[s].agent # "none"
  /\ plan' = [plan EXCEPT ![s].on = FALSE]
  /\ waits' = [waits EXCEPT ![s] = 0]
  /\ UNCHANGED <<time, sent>>

Remove(S) ==
  /\ plan' = [s \in Schedule |-> IF s \in S THEN NoPlan ELSE plan[s]]
  /\ waits' = [s \in Schedule |-> IF s \in S THEN 0 ELSE waits[s]]
  /\ UNCHANGED <<time, sent>>

\* The message of s that was made at time t.
Message(s, t) ==
  [schedule |-> s, agent |-> plan[s].agent, cron |-> plan[s].cron,
   dueAt |-> waits[s], firedAt |-> t, limit |-> Limit]

Send(s, t) ==
  /\ plan[s].on /\ plan[s].cron # 0
  /\ waits[s] <= t
  /\ sent' = Append(sent, Message(s, t))
  /\ waits' = [waits EXCEPT ![s] = FirstAfter(plan[s].cron, t)]
  /\ UNCHANGED <<time, plan>>

Pass ==
  /\ time' = time + 1
  /\ UNCHANGED <<plan, waits, sent>>

TimetableNext ==
  \/ \E s \in Schedule, a \in Agent, c \in Cron, on \in BOOLEAN : Write(s, a, c, on)
  \/ \E s \in Schedule : TurnOff(s) \/ \E t \in 0..time : Send(s, t)
  \/ \E S \in SUBSET Schedule : Remove(S)
  \/ Pass

TimetableSpec == TimetableInit /\ [][TimetableNext]_timetableVars
=============================================================================
