----------------------------- MODULE TaskQueue -----------------------------
(***************************************************************************)
(* What the mailbox promises to whoever puts a message into it, without    *)
(* leases, runs, workers or time.  A task is pending from its submission   *)
(* until it is settled, buried or dropped, and nothing happens to it after *)
(* that.  It may be handed out many times while pending; settling it       *)
(* submits its follow-up tasks in the same step, and it is buried only     *)
(* after it was handed out as often as its limit allows.                   *)
(***************************************************************************)
EXTENDS Integers

CONSTANTS Task, Limits

VARIABLES
  state,   \* where a task is in its life
  handed,  \* how often it was handed out
  limit    \* how often it may be before it can be buried

queueVars == <<state, handed, limit>>

QueueTypeOK ==
  /\ state \in [Task -> {"new", "pending", "done", "dead", "dropped"}]
  /\ handed \in [Task -> Nat]
  /\ limit \in [Task -> Int]

QueueInit ==
  /\ state = [t \in Task |-> "new"]
  /\ handed = [t \in Task |-> 0]
  /\ limit = [t \in Task |-> 0]

\* The tasks of S enter the queue, each with a limit of its own.
Enter(S) ==
  /\ \A t \in S : state[t] = "new"
  /\ \E given \in [S -> Limits] :
       limit' = [t \in Task |-> IF t \in S THEN given[t] ELSE limit[t]]

Submit(t) ==
  /\ Enter({t})
  /\ state' = [state EXCEPT ![t] = "pending"]
  /\ UNCHANGED handed

HandOut(t) ==
  /\ state[t] = "pending"
  /\ handed' = [handed EXCEPT ![t] = @ + 1]
  /\ UNCHANGED <<state, limit>>

\* t is done and its follow-ups are pending, in one step.
Settle(t, S) ==
  /\ state[t] = "pending"
  /\ handed[t] > 0
  /\ Enter(S)
  /\ state' = [u \in Task |-> IF u = t THEN "done"
                              ELSE IF u \in S THEN "pending" ELSE state[u]]
  /\ UNCHANGED handed

Bury(t) ==
  /\ state[t] = "pending"
  /\ limit[t] > 0 /\ handed[t] >= limit[t]
  /\ state' = [state EXCEPT ![t] = "dead"]
  /\ UNCHANGED <<handed, limit>>

\* The recipient goes, and its tasks with it.
Drop(S) ==
  /\ \A t \in S : state[t] \in {"pending", "done", "dead"}
  /\ state' = [t \in Task |-> IF t \in S THEN "dropped" ELSE state[t]]
  /\ handed' = [t \in Task |-> IF t \in S THEN 0 ELSE handed[t]]
  /\ limit' = [t \in Task |-> IF t \in S THEN 0 ELSE limit[t]]

QueueNext ==
  \/ \E t \in Task : Submit(t) \/ HandOut(t) \/ Bury(t)
  \/ \E t \in Task, S \in SUBSET Task : Settle(t, S)
  \/ \E S \in SUBSET Task : Drop(S)

QueueSpec == QueueInit /\ [][QueueNext]_queueVars
=============================================================================
