---------------------------- MODULE MCScheduler ----------------------------
(* Instances of Scheduler for TLC, and a check of the closed form          *)
(* FirstMatchAfter against the loop it stands for.                         *)
EXTENDS Scheduler, TLC

\* The catch-up loop as fireSchedule runs it, from the due time.
CatchUp(c, due, now) ==
  LET after[t \in Nat] == IF t > now THEN t ELSE after[CronNext(c, t)]
  IN  after[CronNext(c, due)]

\* The loop and FirstMatchAfter agree, wherever the due time lies.
ASSUME \A c \in 1..6, now \in 1..30 : \A due \in 0..now :
         CatchUp(c, due, now) = FirstMatchAfter(c, now)
=============================================================================
