----------------------------- MODULE MCSpecSync -----------------------------
(* Instances of SpecSync for TLC.                                          *)
EXTENDS SpecSync

CONSTANTS p1, p2, s1, s2, s3, v1, v2

Entry(id, def) == [id |-> id, def |-> def]
AgentSpec(settings, prompt, entries) ==
  [settings |-> settings, prompt |-> prompt, schedules |-> entries]

\* Agents come and go, their settings, prompts and schedules change one by one
\* and together; each schedule id stays with its agent.
KeptRoots ==
  {NoSpecs,
   1 :> AgentSpec(v1, v1, <<Entry(s1, v1), Entry(s2, v1)>>),
   (1 :> AgentSpec(v2, v2, <<Entry(s2, v2)>>)) @@ (2 :> AgentSpec(v1, v1, <<Entry(s3, v1)>>)),
   (1 :> AgentSpec(v2, v1, <<>>)) @@ (2 :> AgentSpec(v1, v2, <<Entry(s3, v2)>>))}

\* An agent is renamed and takes its schedule along.
MovedRoots ==
  {(1 :> AgentSpec(v1, v1, <<Entry(s1, v1)>>)),
   (2 :> AgentSpec(v1, v1, <<Entry(s1, v1)>>))}
=============================================================================
