----------------------------- MODULE MCSession -----------------------------
(* Instances of Session for TLC.                                           *)
EXTENDS Session

\* The OpenAI API, and compatible servers that store no responses or do not
\* label their calls either.
AnyStyle == {[stored |-> TRUE, labelled |-> TRUE],
             [stored |-> FALSE, labelled |-> TRUE],
             [stored |-> FALSE, labelled |-> FALSE]}
=============================================================================
