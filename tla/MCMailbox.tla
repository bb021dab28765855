----------------------------- MODULE MCMailbox -----------------------------
(* Instances of Mailbox for TLC: who serves whom, and in which process.    *)
EXTENDS Mailbox, TLC

CONSTANTS a1, a2, w1, w2, p1, p2

\* Two workers of one agent in one process: the old one may still be
\* terminating while its successor runs.
OverlapAgentOf == (w1 :> a1) @@ (w2 :> a1)
OneProcessOf == (w1 :> p1) @@ (w2 :> p1)

\* The same two workers in two processes that share one database.
TwoProcessOf == (w1 :> p1) @@ (w2 :> p2)

WorkerSymmetry == Permutations({w1, w2})
=============================================================================
