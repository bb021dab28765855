------------------------------ MODULE SpecSync ------------------------------
(***************************************************************************)
(* Synchronisation of the agent specs into the database (pkg/server        *)
(* specs.go, store/reconcile.go).  `swarmd server` syncs the whole config  *)
(* root before it starts and deletes the agents that are not in it, while  *)
(* `swarmd agent run` upserts the one agent of its file.  Neither holds a  *)
(* transaction over its store calls, so a crash or another process may     *)
(* come between any two of them.                                           *)
(*                                                                         *)
(* One namespace is modelled: the keys of agents and schedules contain it. *)
(* settings stands for all columns of an agent's row that PutAgent         *)
(* compares, prompt for its current prompt version with its action schema, *)
(* and def for the definition of a schedule.                               *)
(***************************************************************************)
EXTENDS Naturals, SequencesExt

CONSTANTS
  Server,    \* processes of `swarmd server`
  OneShot,   \* processes of `swarmd agent run`
  Agent,     \* agents, in the order of their ids
  Schedule,  \* schedule ids
  Root,      \* contents of the config root: functions from agents to specs
  MaxStarts, \* bound: starts of each process
  MaxEdits   \* bound: edits of the config root

Process == Server \cup OneShot

SchedulesOf(spec) == [i \in DOMAIN spec.schedules |-> spec.schedules[i].id]

AllSpecs == UNION {{root[a] : a \in DOMAIN root} : root \in Root}
Defs == UNION {{x.schedules[i].def : i \in DOMAIN x.schedules} : x \in AllSpecs}
ScheduleEntry == [id : Schedule, def : Defs]

\* LoadAgentSpecs refuses a root that gives a schedule id twice.
ASSUME SpecSyncAssumption ==
  /\ Server \cap OneShot = {}
  /\ Agent \subseteq Nat
  /\ {MaxStarts, MaxEdits} \subseteq Nat
  /\ \A root \in Root :
       /\ DOMAIN root \subseteq Agent
       /\ root \in [DOMAIN root -> AllSpecs]
       /\ \A a, b \in DOMAIN root :
            /\ root[a].schedules \in Seq(ScheduleEntry)
            /\ ToSet(SchedulesOf(root[a])) \subseteq Schedule
            /\ IsInjective(SchedulesOf(root[a]))
            /\ a # b => ToSet(SchedulesOf(root[a])) \cap ToSet(SchedulesOf(root[b])) = {}

VARIABLES
  files,      \* the config root on disk
  namespace,  \* whether the namespace exists
  agents,     \* table agents, with the current prompt version
  schedules,  \* table schedules
  sync,       \* syncSpecs of each process
  starts,     \* starts of each process so far
  edits       \* edits of the config root so far

vars == <<files, namespace, agents, schedules, sync, starts, edits>>

Absent == [exists |-> FALSE]
Row(settings, prompt) == [exists |-> TRUE, settings |-> settings, prompt |-> prompt]
ScheduleRow(a, def) == [exists |-> TRUE, agent |-> a, def |-> def]

\* The desired rows of a spec.
AgentRow(spec) == Row(spec.settings, spec.prompt)

NoSpecs == [a \in {} |-> a]
Idle(phase) ==
  [phase |-> phase, specs |-> NoSpecs, todo |-> {}, read |-> Absent, left |-> <<>>]

Running(p) == sync[p].phase \notin {"off", "failed"}

\* The spec under way: specs are sorted by agent id.
Current(p) == Min(sync[p].todo)
SpecOf(p) == sync[p].specs[Current(p)]

Goto(p, phase) == sync' = [sync EXCEPT ![p].phase = phase]
Refuse(p) == sync' = [sync EXCEPT ![p] = Idle("failed")]

\* On to the next spec, or to the deletion of the agents that have none.
\* A slip: the one-shot process prunes as well.
AfterSpecsAlways(p) == "list"
AfterSpecs(p) == IF p \in Server THEN "list" ELSE "done"

NextSpec(p, todo) ==
  sync' = [sync EXCEPT ![p].todo = todo, ![p].read = Absent, ![p].left = <<>>,
             ![p].phase = IF todo = {} THEN AfterSpecs(p) ELSE "get"]

-----------------------------------------------------------------------------
(* Start of a process.                                                     *)

\* What the process loads: the config root, or one file of it.
Loaded(p) ==
  IF p \in Server THEN {files} ELSE {Restrict(files, {a}) : a \in DOMAIN files}

Start(p) ==
  /\ ~Running(p)
  /\ starts[p] < MaxStarts
  /\ starts' = [starts EXCEPT ![p] = @ + 1]
  /\ \E specs \in Loaded(p) :
       sync' = [sync EXCEPT ![p] =
                 [Idle(IF specs = NoSpecs THEN AfterSpecs(p) ELSE "namespace")
                    EXCEPT !.specs = specs, !.todo = DOMAIN specs]]
  /\ UNCHANGED <<files, namespace, agents, schedules, edits>>

\* The process ends or crashes, at any point.
Stop(p) ==
  /\ Running(p)
  /\ sync' = [sync EXCEPT ![p] = Idle("off")]
  /\ UNCHANGED <<files, namespace, agents, schedules, starts, edits>>

EditFiles ==
  /\ edits < MaxEdits
  /\ edits' = edits + 1
  /\ files' \in Root
  /\ UNCHANGED <<namespace, agents, schedules, sync, starts>>

-----------------------------------------------------------------------------
(* PutNamespace reads the namespace and creates it if it is absent.        *)

GetNamespace(p) ==
  /\ sync[p].phase = "namespace"
  /\ Goto(p, IF namespace THEN "get" ELSE "create_namespace")
  /\ UNCHANGED <<files, namespace, agents, schedules, starts, edits>>

CreateNamespace(p) ==
  /\ sync[p].phase = "create_namespace"
  /\ IF namespace THEN Refuse(p) ELSE Goto(p, "get")
  /\ namespace' = TRUE
  /\ UNCHANGED <<files, agents, schedules, starts, edits>>

-----------------------------------------------------------------------------
(* PutAgent: GetAgent, then CreateAgent, or an UPDATE of the settings and  *)
(* UpdateAgentPrompt where they differ from what was read, and GetAgent.   *)

GetAgent(p) ==
  /\ sync[p].phase = "get"
  /\ sync' = [sync EXCEPT ![p].read = agents[Current(p)], ![p].phase = "put"]
  /\ UNCHANGED <<files, namespace, agents, schedules, starts, edits>>

CreateAgent(p) ==
  /\ sync[p].phase = "put"
  /\ ~sync[p].read.exists
  /\ \/ /\ agents[Current(p)].exists
        /\ Refuse(p)
        /\ UNCHANGED agents
     \/ /\ ~agents[Current(p)].exists
        /\ agents' = [agents EXCEPT ![Current(p)] = AgentRow(SpecOf(p))]
        /\ Goto(p, "clear")
  /\ UNCHANGED <<files, namespace, schedules, starts, edits>>

\* The UPDATE does nothing if the agent has been deleted, and that is not seen.
UpdateSettings(p) ==
  /\ sync[p].phase = "put"
  /\ sync[p].read.exists
  /\ agents' =
       IF sync[p].read.settings # SpecOf(p).settings /\ agents[Current(p)].exists
         THEN [agents EXCEPT ![Current(p)].settings = SpecOf(p).settings]
         ELSE agents
  /\ Goto(p, "prompt")
  /\ UNCHANGED <<files, namespace, schedules, starts, edits>>

\* A slip: an update of the settings hides one of the prompt.
PromptIfSameSettings(p) ==
  /\ sync[p].phase = "prompt"
  /\ \/ /\ sync[p].read.prompt = SpecOf(p).prompt \/ sync[p].read.settings # SpecOf(p).settings
        /\ Goto(p, "reread")
        /\ UNCHANGED agents
     \/ /\ sync[p].read.prompt # SpecOf(p).prompt /\ sync[p].read.settings = SpecOf(p).settings
        /\ agents[Current(p)].exists
        /\ agents' = [agents EXCEPT ![Current(p)].prompt = SpecOf(p).prompt]
        /\ Goto(p, "reread")
  /\ UNCHANGED <<files, namespace, schedules, starts, edits>>

\* A prompt version refers to its agent.
UpdatePrompt(p) ==
  /\ sync[p].phase = "prompt"
  /\ \/ /\ sync[p].read.prompt = SpecOf(p).prompt
        /\ Goto(p, "reread")
        /\ UNCHANGED agents
     \/ /\ sync[p].read.prompt # SpecOf(p).prompt
        /\ ~agents[Current(p)].exists
        /\ Refuse(p)
        /\ UNCHANGED agents
     \/ /\ sync[p].read.prompt # SpecOf(p).prompt
        /\ agents[Current(p)].exists
        /\ agents' = [agents EXCEPT ![Current(p)].prompt = SpecOf(p).prompt]
        /\ Goto(p, "reread")
  /\ UNCHANGED <<files, namespace, schedules, starts, edits>>

RereadAgent(p) ==
  /\ sync[p].phase = "reread"
  /\ IF agents[Current(p)].exists THEN Goto(p, "clear") ELSE Refuse(p)
  /\ UNCHANGED <<files, namespace, agents, schedules, starts, edits>>

-----------------------------------------------------------------------------
(* Schedules of the agent are deleted and created again.                   *)

WithoutAgent(a) ==
  [s \in Schedule |->
     IF schedules[s].exists /\ schedules[s].agent = a THEN Absent ELSE schedules[s]]

DeleteSchedulesByAgent(p) ==
  /\ sync[p].phase = "clear"
  /\ schedules' = WithoutAgent(Current(p))
  /\ IF SpecOf(p).schedules = <<>>
       THEN NextSpec(p, sync[p].todo \ {Current(p)})
       ELSE sync' = [sync EXCEPT ![p].left = SpecOf(p).schedules, ![p].phase = "create"]
  /\ UNCHANGED <<files, namespace, agents, starts, edits>>

\* The row's key is the id in its namespace, and it refers to its agent.
CreateSchedule(p) ==
  LET s == Head(sync[p].left) IN
  /\ sync[p].phase = "create"
  /\ \/ /\ schedules[s.id].exists \/ ~agents[Current(p)].exists
        /\ Refuse(p)
        /\ UNCHANGED schedules
     \/ /\ ~schedules[s.id].exists
        /\ agents[Current(p)].exists
        /\ schedules' = [schedules EXCEPT ![s.id] = ScheduleRow(Current(p), s.def)]
        /\ IF Len(sync[p].left) = 1
             THEN NextSpec(p, sync[p].todo \ {Current(p)})
             ELSE sync' = [sync EXCEPT ![p].left = Tail(@)]
  /\ UNCHANGED <<files, namespace, agents, starts, edits>>

-----------------------------------------------------------------------------
(* Agents without a spec are listed and deleted one by one, with all that  *)
(* refers to them; one that is gone already is passed over.                *)

Unwanted(p) == {a \in Agent : agents[a].exists} \ DOMAIN sync[p].specs

ListAgents(p) ==
  /\ sync[p].phase = "list"
  /\ sync' = [sync EXCEPT ![p].todo = Unwanted(p),
                ![p].phase = IF Unwanted(p) = {} THEN "done" ELSE "delete"]
  /\ UNCHANGED <<files, namespace, agents, schedules, starts, edits>>

DeleteAgent(p) ==
  LET a == Current(p) IN
  /\ sync[p].phase = "delete"
  /\ agents' = [agents EXCEPT ![a] = Absent]
  /\ schedules' = WithoutAgent(a)
  /\ sync' = [sync EXCEPT ![p].todo = @ \ {a},
                ![p].phase = IF sync[p].todo = {a} THEN "done" ELSE @]
  /\ UNCHANGED <<files, namespace, starts, edits>>

-----------------------------------------------------------------------------

Init ==
  /\ files \in Root
  /\ namespace = FALSE
  /\ agents = [a \in Agent |-> Absent]
  /\ schedules = [s \in Schedule |-> Absent]
  /\ sync = [p \in Process |-> Idle("off")]
  /\ starts = [p \in Process |-> 0]
  /\ edits = 0

SyncStep(p) ==
  \/ GetNamespace(p) \/ CreateNamespace(p)
  \/ GetAgent(p) \/ CreateAgent(p) \/ UpdateSettings(p) \/ UpdatePrompt(p)
  \/ RereadAgent(p)
  \/ DeleteSchedulesByAgent(p) \/ CreateSchedule(p)
  \/ ListAgents(p) \/ DeleteAgent(p)

Next ==
  \/ EditFiles
  \/ \E p \in Process : Start(p) \/ Stop(p) \/ SyncStep(p)

Spec == Init /\ [][Next]_vars

-----------------------------------------------------------------------------
(* Properties.                                                             *)

Rows ==
  {Absent} \cup {Row(x.settings, y.prompt) : x \in AllSpecs, y \in AllSpecs}

\* Types of the tables and of the processes.
TypeOK ==
  /\ files \in Root
  /\ namespace \in BOOLEAN
  /\ agents \in [Agent -> Rows]
  /\ schedules \in
       [Schedule -> {Absent} \cup {ScheduleRow(a, d) : a \in Agent, d \in Defs}]
  /\ \A p \in Process :
       /\ sync[p].todo \subseteq Agent
       /\ sync[p].phase \in {"get", "put", "prompt", "reread", "clear", "create",
                              "delete"} => sync[p].todo # {}
       /\ sync[p].phase = "create" <=> sync[p].left # <<>>
       /\ sync[p].phase \in {"list", "delete"} => p \in Server
  /\ starts \in [Process -> 0..MaxStarts]
  /\ edits \in 0..MaxEdits

\* Schedules that exist for an agent, and those its spec asks for.
ScheduleRows(a) ==
  {[id |-> s, def |-> schedules[s].def] :
     s \in {x \in Schedule : schedules[x].exists /\ schedules[x].agent = a}}

AgentSynced(a, spec) ==
  agents[a] = AgentRow(spec) /\ ScheduleRows(a) = ToSet(spec.schedules)

\* What PlanSyncFromConfigRoot finds: nothing to create, update or delete.
NothingPlanned(specs) ==
  /\ \A a \in Agent :
       IF a \in DOMAIN specs THEN AgentSynced(a, specs[a])
                              ELSE agents[a] = Absent /\ ScheduleRows(a) = {}
  /\ specs # NoSpecs => namespace

\* No other process has used the database.
Alone(p) == \A q \in Process \ {p} : starts[q] = 0

\* A server alone on its database runs, once it has synced, on exactly what its
\* config root says, however many starts were cut short before and whatever
\* the root said then.
SyncFaithful ==
  \A p \in Server :
    Alone(p) /\ sync[p].phase = "done" => NothingPlanned(sync[p].specs)

\* "SyncSpecs upserts the provided agent specs into the store and deletes
\* agents that are no longer present" (specs.go): a server alone on its
\* database is never refused by what an earlier sync has left there.
NeverRefused ==
  \A p \in Server : Alone(p) => sync[p].phase # "failed"

\* A server alone on its database gets where its config root says.
SyncsAlone == TypeOK /\ SyncFaithful /\ NeverRefused

\* Two processes that have synced the same spec of an agent, in any
\* interleaving of their store calls, leave it as the spec says.
SyncAgreed ==
  \A a \in Agent :
    (\A p, q \in Process :
       /\ sync[p].phase = "done" /\ a \in DOMAIN sync[p].specs
       /\ sync[q].phase = "done" /\ a \in DOMAIN sync[q].specs
       /\ sync[p].specs[a] = sync[q].specs[a])
    => \A p \in Process : AgentSynced(a, sync[p].specs[a])

\* "Use this for one-shot runs that must not prune a shared SQLite database"
\* (specs.go): a one-shot run changes nothing of agents it has no spec of.
OthersUntouched ==
  [][\A p \in OneShot :
       Running(p) /\ sync'[p] # sync[p] =>
         \A a \in Agent \ DOMAIN sync[p].specs :
           agents'[a] = agents[a] /\ ScheduleRows(a)' = ScheduleRows(a)]_vars

\* Processes that sync at the same time leave what their specs agree on, and
\* keep off what they do not name.
SyncsCoexist == []SyncAgreed /\ OthersUntouched

-----------------------------------------------------------------------------
(* The inductive invariants behind SyncsAlone: what holds of every process *)
(* and table, and how far the database agrees with the specs of a server   *)
(* that is alone on it, phase by phase.                                    *)

AgentPhase == {"get", "put", "prompt", "reread", "clear", "create"}
SpecPhase == {"namespace", "create_namespace"} \cup AgentPhase
Phase == SpecPhase \cup {"off", "failed", "list", "delete", "done"}
SpecsOfAgents == UNION {[D -> AllSpecs] : D \in SUBSET Agent}
SyncRow ==
  [phase : Phase, specs : SpecsOfAgents, todo : SUBSET Agent,
   read : Rows, left : Seq(ScheduleEntry)]

\* Process p works through specs that some config root gave their agents.
ProcessSound(p) ==
  LET y == sync[p] IN
  /\ y.phase \in SpecPhase => y.todo # {} /\ y.todo \subseteq DOMAIN y.specs
  /\ y.phase \in {"list", "done"} => y.todo = {}
  /\ y.phase = "delete" => y.todo # {} /\ y.todo \cap DOMAIN y.specs = {}
  /\ y.phase = "create" <=> y.left # <<>>
  /\ y.phase = "create" => ToSet(y.left) \subseteq ToSet(SpecOf(p).schedules)
  /\ y.phase = "prompt" => y.read.exists
  /\ y.phase \in {"list", "delete"} => p \in Server
  /\ y.phase \in AgentPhase => namespace
  /\ y.phase \in {"list", "delete", "done"} /\ y.specs # NoSpecs => namespace
  /\ starts[p] = 0 => y.phase = "off"
  /\ \A a \in DOMAIN y.specs :
       \E root \in Root : a \in DOMAIN root /\ y.specs[a] = root[a]

ProcessesSound ==
  /\ sync \in [Process -> SyncRow]
  /\ \A p \in Process : ProcessSound(p)

\* Some config root gives schedule s to agent a.
Owns(a, s) ==
  \E root \in Root : a \in DOMAIN root /\ s \in ToSet(SchedulesOf(root[a]))

\* The foreign key of schedules, and where their rows come from.
SchedulesSound ==
  \A s \in Schedule :
    schedules[s].exists => /\ agents[schedules[s].agent].exists
                           /\ Owns(schedules[s].agent, s)

\* What the sync of a server that is alone has done so far.
SyncedSoFar(p) ==
  LET y == sync[p] IN
  /\ Running(p) => \A a \in DOMAIN y.specs \ y.todo : AgentSynced(a, y.specs[a])
  /\ y.phase = "create_namespace" => ~namespace
  /\ y.phase = "put" => y.read = agents[Current(p)]
  /\ y.phase = "prompt" =>
       agents[Current(p)] = Row(SpecOf(p).settings, y.read.prompt)
  /\ y.phase \in {"reread", "clear", "create"} =>
       agents[Current(p)] = AgentRow(SpecOf(p))
  /\ y.phase = "create" =>
       ScheduleRows(Current(p)) \cup ToSet(y.left) = ToSet(SpecOf(p).schedules)
  /\ y.phase \in {"delete", "done"} /\ p \in Server => Unwanted(p) = y.todo

Sound == TypeOK /\ ProcessesSound /\ SchedulesSound

\* With Sound, the inductive invariant behind SyncFaithful.
AloneInv ==
  \A p \in Server : Alone(p) => SyncedSoFar(p)

\* No edit of the config root gives the schedule id of one agent to another.
IdsStay ==
  \A a, b \in Agent, s \in Schedule : Owns(a, s) /\ Owns(b, s) => a = b

\* The ids that are still to be created are free, and each comes once.
LeftIsFree(p) ==
  /\ \A s \in ToSet(sync[p].left) : ~schedules[s.id].exists
  /\ IsInjective(SchedulesOf([schedules |-> sync[p].left]))

\* With Sound, AloneInv and IdsStay, the inductive invariant behind NeverRefused.
FreeInv ==
  \A p \in Server : Alone(p) => LeftIsFree(p) /\ sync[p].phase # "failed"

\* Every process has loaded x as the spec of agent a.
Agreed(a, x) ==
  /\ Process # {}
  /\ \A p \in Process :
       Running(p) /\ a \in DOMAIN sync[p].specs /\ sync[p].specs[a] = x

\* Process p is at agent a, and has come to a phase of those.
At(p, a, phases) ==
  a \in sync[p].todo /\ Current(p) = a /\ sync[p].phase \in phases

\* Process p has got with agent a to a phase of those, or is through with it.
Reached(p, a, phases) == a \notin sync[p].todo \/ At(p, a, phases)

\* The schedules of agent a are among those of x, and where one of them is not
\* there, a process that has cleared them still has it left.
Covered(a, x) ==
  /\ ScheduleRows(a) \subseteq ToSet(x.schedules)
  /\ \A e \in ToSet(x.schedules) \ ScheduleRows(a) :
       \E q \in Process : At(q, a, {"create"}) /\ e \in ToSet(sync[q].left)

\* What agent a is, as far as process p has seen to it, while every process
\* writes x alone.
LedBy(p, a, x) ==
  LET read == sync[p].read IN
  /\ At(p, a, {"put", "prompt"}) /\ read.exists =>
       /\ agents[a].exists
       /\ read.settings = x.settings => agents[a].settings = x.settings
       /\ read.prompt = x.prompt => agents[a].prompt = x.prompt
  /\ At(p, a, {"prompt"}) => agents[a].settings = x.settings
  /\ Reached(p, a, {"reread", "clear", "create"}) => agents[a] = AgentRow(x)
  /\ Reached(p, a, {"create"}) => Covered(a, x)

\* With Sound, the inductive invariant behind SyncAgreed: the process that was
\* the last to start leads.
AgreedInv ==
  \A a \in Agent, x \in AllSpecs :
    Agreed(a, x) => \E p \in Process : LedBy(p, a, x)
=============================================================================
