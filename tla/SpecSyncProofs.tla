--------------------------- MODULE SpecSyncProofs ---------------------------
(***************************************************************************)
(* Proofs about SpecSync, for all sets of processes, agents and schedules, *)
(* all contents of the config root and all bounds.                         *)
(***************************************************************************)
EXTENDS SpecSync, TLAPS, WellFoundedInduction, SequenceTheorems

-----------------------------------------------------------------------------
(* Data.                                                                   *)

\* Specs are sorted by agent id, so the current one is one of those to do.
LEMMA LeastExists ==
  ASSUME NEW T \in SUBSET Nat, T # {}
  PROVE  Min(T) \in T
<1> DEFINE R == OpToRel(<, Nat)
<1>1. IsWellFoundedOn(R, Nat)
  BY NatLessThanWellFounded
<1>2. \A x, y \in Nat : x < y => <<x, y>> \in R
  BY DEF OpToRel
<1> HIDE DEF R
<1>3. PICK x \in T : \A y \in T : ~ (<<y, x>> \in R)
  BY <1>1, WFMin
<1>4. \A y \in T : x <= y
  <2> SUFFICES ASSUME NEW y \in T PROVE x <= y
    OBVIOUS
  <2>1. x \in Nat /\ y \in Nat
    OBVIOUS
  <2>2. ~(y < x)
    BY <1>2, <1>3, <2>1
  <2> QED
    BY <2>1, <2>2
<1> QED
  BY <1>4 DEF Min

LEMMA RowFields ==
  /\ \A s, t : Row(s, t).exists = TRUE /\ Row(s, t).settings = s /\ Row(s, t).prompt = t
  /\ Absent.exists = FALSE
  BY DEF Row, Absent

LEMMA RowUpdates ==
  ASSUME NEW s, NEW t, NEW u
  PROVE  /\ [Row(s, t) EXCEPT !.settings = u] = Row(u, t)
         /\ [Row(s, t) EXCEPT !.prompt = u] = Row(s, u)
<1> DEFINE r == Row(s, t)
<1>1. r \in [exists : {TRUE}, settings : {s}, prompt : {t}]
  BY DEF Row
<1>2. /\ Row(u, t) \in [exists : {TRUE}, settings : {u}, prompt : {t}]
      /\ Row(s, u) \in [exists : {TRUE}, settings : {s}, prompt : {u}]
  BY DEF Row
<1>3. [r EXCEPT !.settings = u] \in [exists : {TRUE}, settings : {u}, prompt : {t}]
  BY <1>1
<1>4. [r EXCEPT !.prompt = u] \in [exists : {TRUE}, settings : {s}, prompt : {u}]
  BY <1>1
<1>5. [r EXCEPT !.settings = u] = Row(u, t)
  BY <1>2, <1>3
<1>6. [r EXCEPT !.prompt = u] = Row(s, u)
  BY <1>2, <1>4
<1> QED
  BY <1>5, <1>6

\* An agent's row is absent, or holds the settings of a spec and the prompt
\* of a spec.
LEMMA RowTypes ==
  /\ Absent \in Rows
  /\ \A x, y \in AllSpecs : Row(x.settings, y.prompt) \in Rows
  /\ \A x \in AllSpecs : AgentRow(x) \in Rows
  /\ \A r \in Rows : /\ r.exists \in BOOLEAN
                     /\ r.exists \/ r = Absent
                     /\ r.exists => \E x, y \in AllSpecs : r = Row(x.settings, y.prompt)
                     /\ r.exists => r = Row(r.settings, r.prompt)
<1>1. \A x, y \in AllSpecs : Row(x.settings, y.prompt) \in Rows
  BY DEF Rows
<1>2. Absent \in Rows
  BY DEF Rows
<1>3. ASSUME NEW r \in Rows
      PROVE  /\ r.exists \in BOOLEAN
             /\ r.exists \/ r = Absent
             /\ r.exists => \E x, y \in AllSpecs : r = Row(x.settings, y.prompt)
             /\ r.exists => r = Row(r.settings, r.prompt)
  <2>1. CASE r = Absent
    BY <2>1 DEF Absent
  <2>2. ASSUME NEW x \in AllSpecs, NEW y \in AllSpecs, r = Row(x.settings, y.prompt)
        PROVE  r.exists = TRUE /\ r = Row(r.settings, r.prompt)
    <3>1. r.exists = TRUE /\ r.settings = x.settings /\ r.prompt = y.prompt
      BY <2>2, RowFields
    <3> QED
      BY <2>2, <3>1
  <2>3. r = Absent \/ \E x, y \in AllSpecs : r = Row(x.settings, y.prompt)
    BY DEF Rows
  <2>4. CASE r # Absent
    <3>1. PICK x \in AllSpecs : \E y \in AllSpecs : r = Row(x.settings, y.prompt)
      BY <2>3, <2>4
    <3>2. PICK y \in AllSpecs : r = Row(x.settings, y.prompt)
      BY <3>1
    <3>3. r.exists = TRUE /\ r = Row(r.settings, r.prompt)
      BY <2>2, <3>2
    <3> QED
      BY <3>2, <3>3
  <2> QED
    BY <2>1, <2>4
<1> QED
  BY <1>1, <1>2, <1>3 DEF AgentRow

\* The schedules of a spec that some config root gives an agent.
LEMMA SpecTypes ==
  ASSUME NEW root \in Root, NEW a \in DOMAIN root
  PROVE  /\ a \in Agent
         /\ root[a] \in AllSpecs
         /\ root[a].schedules \in Seq(ScheduleEntry)
         /\ IsInjective(SchedulesOf(root[a]))
         /\ \A e \in ToSet(root[a].schedules) : e \in ScheduleEntry /\ Owns(a, e.id)
<1>1. /\ a \in Agent
      /\ root[a] \in AllSpecs
      /\ root[a].schedules \in Seq(ScheduleEntry)
      /\ IsInjective(SchedulesOf(root[a]))
  BY SpecSyncAssumption
<1>2. ASSUME NEW e \in ToSet(root[a].schedules)
      PROVE  e \in ScheduleEntry /\ Owns(a, e.id)
  <2>1. PICK i \in DOMAIN root[a].schedules : e = root[a].schedules[i]
    BY <1>2 DEF ToSet
  <2>2. e \in ScheduleEntry
    BY <1>1, <2>1
  <2>3. e.id \in ToSet(SchedulesOf(root[a]))
    BY <2>1 DEF ToSet, SchedulesOf
  <2> QED
    BY <2>2, <2>3 DEF Owns
<1> QED
  BY <1>1, <1>2

\* Between its elements, a sequence's head is no element of its tail if none
\* comes twice.
LEMMA HeadAndTail ==
  ASSUME NEW T, NEW s \in Seq(T), s # <<>>
  PROVE  /\ Head(s) \in T /\ Head(s) \in ToSet(s)
         /\ Tail(s) \in Seq(T) /\ Len(s) \in Nat \ {0}
         /\ ToSet(s) = {Head(s)} \cup ToSet(Tail(s))
         /\ Len(s) = 1 <=> Tail(s) = <<>>
         /\ \A i \in DOMAIN Tail(s) : i + 1 \in DOMAIN s /\ Tail(s)[i] = s[i + 1]
         /\ 1 \in DOMAIN s /\ Head(s) = s[1]
<1>1. /\ Head(s) \in T /\ Tail(s) \in Seq(T) /\ Len(s) \in Nat \ {0}
      /\ Len(Tail(s)) = Len(s) - 1
      /\ DOMAIN s = 1..Len(s) /\ DOMAIN Tail(s) = 1..(Len(s) - 1)
      /\ \A i \in 1..(Len(s) - 1) : Tail(s)[i] = s[i + 1]
      /\ Head(s) = s[1]
  BY HeadTailProperties
<1>2. Len(s) = 1 <=> Tail(s) = <<>>
  <2>1. Tail(s) = <<>> => Len(Tail(s)) = 0
    BY EmptySeq
  <2>2. Tail(s) # <<>> => Len(Tail(s)) # 0
    BY <1>1, EmptySeq
  <2> QED
    BY <1>1, <2>1, <2>2
<1>3. \A i \in DOMAIN s : i = 1 \/ (i - 1 \in DOMAIN Tail(s) /\ s[i] = Tail(s)[i - 1])
  BY <1>1
<1>4. \A i \in DOMAIN Tail(s) : i + 1 \in DOMAIN s /\ Tail(s)[i] = s[i + 1]
  BY <1>1
<1>5. 1 \in DOMAIN s
  BY <1>1
<1>6. ToSet(s) = {Head(s)} \cup ToSet(Tail(s))
  <2>1. ASSUME NEW e \in ToSet(s) PROVE e = Head(s) \/ e \in ToSet(Tail(s))
    <3>1. PICK i \in DOMAIN s : e = s[i]
      BY DEF ToSet
    <3> QED
      BY <1>1, <1>3, <3>1 DEF ToSet
  <2>2. Head(s) \in ToSet(s)
    BY <1>1, <1>5 DEF ToSet
  <2>3. \A e \in ToSet(Tail(s)) : e \in ToSet(s)
    BY <1>4 DEF ToSet
  <2> QED
    BY <2>1, <2>2, <2>3
<1> QED
  BY <1>1, <1>2, <1>4, <1>5, <1>6

-----------------------------------------------------------------------------
(* Steps of a process.                                                     *)

\* Process p goes on with a row of these fields, and no other one does.
Becomes(p, phase, specs, todo, read, left) ==
  /\ sync' \in [Process -> SyncRow]
  /\ sync'[p].phase = phase /\ sync'[p].specs = specs /\ sync'[p].todo = todo
  /\ sync'[p].read = read /\ sync'[p].left = left
  /\ \A q \in Process \ {p} : sync'[q] = sync[q]

LEMMA RowSet ==
  ASSUME sync \in [Process -> SyncRow], NEW p \in Process,
         NEW y \in SyncRow, sync' = [sync EXCEPT ![p] = y]
  PROVE  Becomes(p, y.phase, y.specs, y.todo, y.read, y.left)
<1>1. sync' \in [Process -> SyncRow] /\ sync'[p] = y
  OBVIOUS
<1> QED
  BY <1>1 DEF Becomes

LEMMA GotoSets ==
  ASSUME sync \in [Process -> SyncRow], NEW p \in Process,
         NEW f \in Phase, Goto(p, f)
  PROVE  Becomes(p, f, sync[p].specs, sync[p].todo, sync[p].read, sync[p].left)
<1> DEFINE y == [sync[p] EXCEPT !.phase = f]
<1>1. /\ y \in SyncRow /\ y.phase = f /\ y.specs = sync[p].specs
      /\ y.todo = sync[p].todo /\ y.read = sync[p].read /\ y.left = sync[p].left
  BY DEF SyncRow
<1>2. sync' = [sync EXCEPT ![p] = y]
  BY DEF Goto
<1> HIDE DEF y
<1> QED
  BY <1>1, <1>2, RowSet

LEMMA IdleRow ==
  ASSUME NEW f \in Phase
  PROVE  /\ Idle(f) \in SyncRow /\ Idle(f).phase = f /\ Idle(f).specs = NoSpecs
         /\ Idle(f).todo = {} /\ Idle(f).read = Absent /\ Idle(f).left = <<>>
<1>1. NoSpecs \in [{} -> AllSpecs]
  BY DEF NoSpecs
<1>2. NoSpecs \in SpecsOfAgents
  BY <1>1 DEF SpecsOfAgents
<1>3. <<>> \in Seq(ScheduleEntry) /\ Absent \in Rows
  BY RowTypes, EmptySeq
<1> QED
  BY <1>2, <1>3 DEF Idle, SyncRow

LEMMA IdleSets ==
  ASSUME sync \in [Process -> SyncRow], NEW p \in Process,
         NEW f \in Phase, sync' = [sync EXCEPT ![p] = Idle(f)]
  PROVE  Becomes(p, f, NoSpecs, {}, Absent, <<>>)
  BY IdleRow, RowSet

LEMMA NextSpecSets ==
  ASSUME sync \in [Process -> SyncRow], NEW p \in Process,
         NEW todo \in SUBSET Agent, NextSpec(p, todo)
  PROVE  Becomes(p, IF todo = {} THEN AfterSpecs(p) ELSE "get",
                 sync[p].specs, todo, Absent, <<>>)
<1> DEFINE f == IF todo = {} THEN AfterSpecs(p) ELSE "get"
           half == [sync[p] EXCEPT !.todo = todo, !.read = Absent]
           y == [half EXCEPT !.left = <<>>, !.phase = f]
<1>1. f \in Phase
  BY DEF AfterSpecs, Phase, SpecPhase, AgentPhase
<1>2. <<>> \in Seq(ScheduleEntry) /\ Absent \in Rows
  BY RowTypes, EmptySeq
<1>3. sync' = [sync EXCEPT ![p] = y]
  BY DEF NextSpec
<1> HIDE DEF f
<1>4. /\ half \in SyncRow /\ half.specs = sync[p].specs
      /\ half.todo = todo /\ half.read = Absent
  BY <1>2 DEF SyncRow
<1> HIDE DEF half
<1>5. /\ y \in SyncRow /\ y.phase = f /\ y.specs = sync[p].specs
      /\ y.todo = todo /\ y.read = Absent /\ y.left = <<>>
  BY <1>1, <1>2, <1>4 DEF SyncRow
<1> HIDE DEF y
<1>6. Becomes(p, f, sync[p].specs, todo, Absent, <<>>)
  BY <1>3, <1>5, RowSet
<1> QED
  BY <1>6 DEF f

LEMMA ReadSets ==
  ASSUME sync \in [Process -> SyncRow], NEW p \in Process,
         NEW r \in Rows, NEW f \in Phase,
         sync' = [sync EXCEPT ![p].read = r, ![p].phase = f]
  PROVE  Becomes(p, f, sync[p].specs, sync[p].todo, r, sync[p].left)
<1> DEFINE y == [sync[p] EXCEPT !.read = r, !.phase = f]
<1>1. /\ y \in SyncRow /\ y.phase = f /\ y.specs = sync[p].specs
      /\ y.todo = sync[p].todo /\ y.read = r /\ y.left = sync[p].left
  BY DEF SyncRow
<1>2. sync' = [sync EXCEPT ![p] = y]
  OBVIOUS
<1> HIDE DEF y
<1> QED
  BY <1>1, <1>2, RowSet

LEMMA TodoSets ==
  ASSUME sync \in [Process -> SyncRow], NEW p \in Process,
         NEW todo \in SUBSET Agent, NEW f \in Phase,
         sync' = [sync EXCEPT ![p].todo = todo, ![p].phase = f]
  PROVE  Becomes(p, f, sync[p].specs, todo, sync[p].read, sync[p].left)
<1> DEFINE y == [sync[p] EXCEPT !.todo = todo, !.phase = f]
<1>1. /\ y \in SyncRow /\ y.phase = f /\ y.specs = sync[p].specs
      /\ y.todo = todo /\ y.read = sync[p].read /\ y.left = sync[p].left
  BY DEF SyncRow
<1>2. sync' = [sync EXCEPT ![p] = y]
  OBVIOUS
<1> HIDE DEF y
<1> QED
  BY <1>1, <1>2, RowSet

LEMMA LeftSets ==
  ASSUME sync \in [Process -> SyncRow], NEW p \in Process,
         NEW left \in Seq(ScheduleEntry), NEW f \in Phase,
         \/ sync' = [sync EXCEPT ![p].left = left, ![p].phase = f]
         \/ f = sync[p].phase /\ sync' = [sync EXCEPT ![p].left = left]
  PROVE  Becomes(p, f, sync[p].specs, sync[p].todo, sync[p].read, left)
<1>1. CASE sync' = [sync EXCEPT ![p].left = left, ![p].phase = f]
  <2> DEFINE y == [sync[p] EXCEPT !.left = left, !.phase = f]
  <2>1. /\ y \in SyncRow /\ y.phase = f /\ y.specs = sync[p].specs
        /\ y.todo = sync[p].todo /\ y.read = sync[p].read /\ y.left = left
    BY DEF SyncRow
  <2>2. sync' = [sync EXCEPT ![p] = y]
    BY <1>1
  <2> HIDE DEF y
  <2> QED
    BY <2>1, <2>2, RowSet
<1>2. CASE f = sync[p].phase /\ sync' = [sync EXCEPT ![p].left = left]
  <2> DEFINE y == [sync[p] EXCEPT !.left = left]
  <2>1. /\ y \in SyncRow /\ y.phase = f /\ y.specs = sync[p].specs
        /\ y.todo = sync[p].todo /\ y.read = sync[p].read /\ y.left = left
    BY <1>2 DEF SyncRow
  <2>2. sync' = [sync EXCEPT ![p] = y]
    BY <1>2
  <2> HIDE DEF y
  <2> QED
    BY <2>1, <2>2, RowSet
<1> QED
  BY <1>1, <1>2

\* What a process loads comes from a config root.
LEMMA LoadedSpecs ==
  ASSUME files \in Root, NEW p \in Process, NEW specs \in Loaded(p)
  PROVE  /\ DOMAIN specs \subseteq Agent
         /\ specs \in SpecsOfAgents
         /\ specs # NoSpecs => DOMAIN specs # {}
         /\ \A a \in DOMAIN specs :
              \E root \in Root : a \in DOMAIN root /\ specs[a] = root[a]
<1>1. /\ DOMAIN specs \subseteq DOMAIN files
      /\ specs = [a \in DOMAIN specs |-> files[a]]
  <2>1. files = [a \in DOMAIN files |-> files[a]]
    BY SpecSyncAssumption
  <2>2. CASE specs = files
    BY <2>1, <2>2
  <2>3. ASSUME NEW b \in DOMAIN files, specs = Restrict(files, {b})
        PROVE  DOMAIN specs \subseteq DOMAIN files /\ specs = [a \in DOMAIN specs |-> files[a]]
    <3>1. specs = [a \in {b} |-> files[a]]
      BY <2>3 DEF Restrict
    <3> QED
      BY <3>1
  <2> QED
    BY <2>2, <2>3 DEF Loaded
<1>2. /\ DOMAIN files \subseteq Agent
      /\ \A a \in DOMAIN files : files[a] \in AllSpecs
  BY SpecTypes
<1>3. specs \in [DOMAIN specs -> AllSpecs]
  BY <1>1, <1>2
<1>4. DOMAIN specs \in SUBSET Agent
  BY <1>1, <1>2
<1>5. specs \in SpecsOfAgents
  BY <1>3, <1>4 DEF SpecsOfAgents
<1>6. DOMAIN specs = {} => specs = NoSpecs
  BY <1>1 DEF NoSpecs
<1> QED
  BY <1>1, <1>4, <1>5, <1>6

LEMMA StartSets ==
  ASSUME sync \in [Process -> SyncRow], files \in Root,
         NEW p \in Process, Start(p)
  PROVE  \E specs \in Loaded(p) :
           Becomes(p, IF specs = NoSpecs THEN AfterSpecs(p) ELSE "namespace",
                   specs, DOMAIN specs, Absent, <<>>)
<1>1. PICK specs \in Loaded(p) :
        sync' = [sync EXCEPT ![p] =
                 [Idle(IF specs = NoSpecs THEN AfterSpecs(p) ELSE "namespace")
                    EXCEPT !.specs = specs, !.todo = DOMAIN specs]]
  BY DEF Start
<1> DEFINE f == IF specs = NoSpecs THEN AfterSpecs(p) ELSE "namespace"
           z == Idle(f)
           y == [z EXCEPT !.specs = specs, !.todo = DOMAIN specs]
<1>2. f \in Phase
  BY DEF AfterSpecs, Phase, SpecPhase, AgentPhase
<1>3. sync' = [sync EXCEPT ![p] = y]
  BY <1>1
<1>4. specs \in SpecsOfAgents /\ DOMAIN specs \in SUBSET Agent
  BY LoadedSpecs
<1> HIDE DEF f
<1>5. /\ z \in SyncRow /\ z.phase = f /\ z.read = Absent /\ z.left = <<>>
  BY <1>2, IdleRow
<1> HIDE DEF z
<1>6. /\ y \in SyncRow /\ y.phase = f /\ y.specs = specs
      /\ y.todo = DOMAIN specs /\ y.read = Absent /\ y.left = <<>>
  BY <1>4, <1>5 DEF SyncRow
<1> HIDE DEF y
<1>7. Becomes(p, f, specs, DOMAIN specs, Absent, <<>>)
  BY <1>3, <1>6, RowSet
<1> QED
  BY <1>7 DEF f

-----------------------------------------------------------------------------
(* Tables.                                                                 *)

ScheduleTable ==
  [Schedule -> {Absent} \cup {ScheduleRow(a, d) : a \in Agent, d \in Defs}]

LEMMA ScheduleFields ==
  \A a, d : /\ ScheduleRow(a, d).exists = TRUE
            /\ ScheduleRow(a, d).agent = a
            /\ ScheduleRow(a, d).def = d
  BY DEF ScheduleRow

LEMMA ScheduleTypes ==
  ASSUME schedules \in ScheduleTable, NEW s \in Schedule
  PROVE  /\ schedules[s].exists \in BOOLEAN
         /\ ~schedules[s].exists => schedules[s] = Absent
         /\ schedules[s].exists => schedules[s].agent \in Agent /\ schedules[s].def \in Defs
<1>1. CASE schedules[s] = Absent
  BY <1>1, RowFields
<1>2. CASE \E a \in Agent, d \in Defs : schedules[s] = ScheduleRow(a, d)
  <2>1. PICK a \in Agent : \E d \in Defs : schedules[s] = ScheduleRow(a, d)
    BY <1>2
  <2>2. PICK d \in Defs : schedules[s] = ScheduleRow(a, d)
    BY <2>1
  <2>3. /\ schedules[s].exists = TRUE
        /\ schedules[s].agent = a /\ schedules[s].def = d
    BY <2>2 DEF ScheduleRow
  <2> QED
    BY <2>3
<1> QED
  BY <1>1, <1>2 DEF ScheduleTable

\* The deletion of an agent's schedules leaves those of other agents.
LEMMA SchedulesCleared ==
  ASSUME schedules \in ScheduleTable, NEW c \in Agent, schedules' = WithoutAgent(c)
  PROVE  /\ schedules' \in ScheduleTable
         /\ ScheduleRows(c)' = {}
         /\ \A a \in Agent \ {c} : ScheduleRows(a)' = ScheduleRows(a)
         /\ \A s \in Schedule :
              schedules'[s].exists =>
                /\ schedules'[s] = schedules[s] /\ schedules[s].exists
                /\ schedules[s].agent # c
<1>1. \A s \in Schedule :
        schedules'[s] = IF schedules[s].exists /\ schedules[s].agent = c
                          THEN Absent ELSE schedules[s]
  BY DEF WithoutAgent
<1>2. schedules' \in ScheduleTable
  BY <1>1 DEF WithoutAgent, ScheduleTable
<1>3. \A s \in Schedule :
        schedules'[s].exists =>
          /\ schedules'[s] = schedules[s] /\ schedules[s].exists
          /\ schedules[s].agent # c
  BY <1>1, RowFields
<1>4. \A s \in Schedule :
        schedules[s].exists /\ schedules[s].agent # c => schedules'[s] = schedules[s]
  BY <1>1
<1>5. ScheduleRows(c)' = {}
  BY <1>3 DEF ScheduleRows
<1>6. ASSUME NEW a \in Agent \ {c} PROVE ScheduleRows(a)' = ScheduleRows(a)
  BY <1>3, <1>4 DEF ScheduleRows
<1> QED
  BY <1>2, <1>3, <1>5, <1>6

\* The creation of a schedule with a free id adds it to those of its agent.
LEMMA ScheduleAdded ==
  ASSUME schedules \in ScheduleTable, NEW c \in Agent, NEW e \in ScheduleEntry,
         ~schedules[e.id].exists,
         schedules' = [schedules EXCEPT ![e.id] = ScheduleRow(c, e.def)]
  PROVE  /\ schedules' \in ScheduleTable
         /\ ScheduleRows(c)' = ScheduleRows(c) \cup {e}
         /\ \A a \in Agent \ {c} : ScheduleRows(a)' = ScheduleRows(a)
         /\ \A s \in Schedule :
              schedules'[s] = IF s = e.id THEN ScheduleRow(c, e.def) ELSE schedules[s]
<1>1. e.id \in Schedule /\ e.def \in Defs /\ e = [id |-> e.id, def |-> e.def]
  BY DEF ScheduleEntry
<1>2. \A s \in Schedule :
        schedules'[s] = IF s = e.id THEN ScheduleRow(c, e.def) ELSE schedules[s]
  BY <1>1 DEF ScheduleTable
<1>3. schedules' \in ScheduleTable
  BY <1>1 DEF ScheduleTable
<1>4. /\ schedules'[e.id].exists /\ schedules'[e.id].agent = c
      /\ schedules'[e.id].def = e.def
  BY <1>1, <1>2, ScheduleFields
<1>5. \A s \in Schedule \ {e.id} : schedules'[s] = schedules[s]
  BY <1>2
<1>6. ASSUME NEW a \in Agent \ {c} PROVE ScheduleRows(a)' = ScheduleRows(a)
  BY <1>1, <1>4, <1>5 DEF ScheduleRows
<1>7. ScheduleRows(c)' = ScheduleRows(c) \cup {e}
  BY <1>1, <1>4, <1>5 DEF ScheduleRows
<1> QED
  BY <1>2, <1>3, <1>6, <1>7

-----------------------------------------------------------------------------
(* Processes and tables stay sound.                                        *)

\* The spec a process is at.
LEMMA AtSpec ==
  ASSUME ProcessesSound, NEW p \in Process, sync[p].phase \in SpecPhase
  PROVE  /\ Current(p) \in Agent /\ Current(p) \in sync[p].todo
         /\ Current(p) \in DOMAIN sync[p].specs
         /\ SpecOf(p) = sync[p].specs[Current(p)]
         /\ SpecOf(p) \in AllSpecs
         /\ SpecOf(p).schedules \in Seq(ScheduleEntry)
         /\ IsInjective(SchedulesOf(SpecOf(p)))
         /\ \A e \in ToSet(SpecOf(p).schedules) :
              e \in ScheduleEntry /\ Owns(Current(p), e.id)
<1> DEFINE c == Current(p)
<1>1. sync[p].todo \in SUBSET Agent
  BY DEF ProcessesSound, SyncRow
<1>2. sync[p].todo # {} /\ sync[p].todo \subseteq DOMAIN sync[p].specs
  BY DEF ProcessesSound, ProcessSound
<1>3. c \in sync[p].todo
  BY <1>1, <1>2, LeastExists, SpecSyncAssumption DEF Current
<1> HIDE DEF c
<1>4. PICK root \in Root : c \in DOMAIN root /\ sync[p].specs[c] = root[c]
  BY <1>2, <1>3 DEF ProcessesSound, ProcessSound
<1>5. SpecOf(p) = root[c]
  BY <1>4 DEF SpecOf, c
<1> QED
  BY <1>1, <1>2, <1>3, <1>4, <1>5, SpecTypes DEF c

\* The agent a process is about to delete.
LEMMA AtUnwanted ==
  ASSUME ProcessesSound, NEW p \in Process, sync[p].phase = "delete"
  PROVE  /\ Current(p) \in Agent /\ Current(p) \in sync[p].todo
         /\ Current(p) \notin DOMAIN sync[p].specs
<1>1. sync[p].todo \in SUBSET Agent
  BY DEF ProcessesSound, SyncRow
<1>2. sync[p].todo # {} /\ sync[p].todo \cap DOMAIN sync[p].specs = {}
  BY DEF ProcessesSound, ProcessSound
<1>3. Current(p) \in sync[p].todo
  BY <1>1, <1>2, LeastExists, SpecSyncAssumption DEF Current
<1> QED
  BY <1>1, <1>2, <1>3

\* Processes stay sound if the one that goes on with its specs does.
LEMMA RowKept ==
  ASSUME ProcessesSound, NEW p \in Process, NEW f \in Phase,
         NEW todo, NEW r, NEW left,
         Becomes(p, f, sync[p].specs, todo, r, left),
         namespace => namespace', UNCHANGED starts, sync[p].phase # "off",
         f \in SpecPhase => todo # {} /\ todo \subseteq DOMAIN sync[p].specs,
         f \in {"list", "done"} => todo = {},
         f = "delete" => todo # {} /\ todo \cap DOMAIN sync[p].specs = {},
         f = "create" <=> left # <<>>,
         f = "create" => /\ todo = sync[p].todo
                         /\ ToSet(left) \subseteq ToSet(SpecOf(p).schedules),
         f = "prompt" => r.exists,
         f \in {"list", "delete"} => p \in Server,
         f \in AgentPhase => namespace',
         f \in {"list", "delete", "done"} /\ sync[p].specs # NoSpecs => namespace'
  PROVE  ProcessesSound'
<1>1. ProcessSound(p)'
  BY DEF ProcessesSound, ProcessSound, Becomes, SpecOf, Current
<1>2. ASSUME NEW q \in Process \ {p} PROVE ProcessSound(q)'
  <2>1. sync'[q] = sync[q] /\ starts'[q] = starts[q] /\ ProcessSound(q)
    BY DEF Becomes, ProcessesSound
  <2> QED
    BY <2>1 DEF ProcessSound, SpecOf, Current
<1> QED
  BY <1>1, <1>2 DEF ProcessesSound, Becomes

\* The same if it starts with other specs, or is idle again.
LEMMA RowReset ==
  ASSUME ProcessesSound, NEW p \in Process, NEW f \in Phase,
         NEW specs, NEW todo,
         Becomes(p, f, specs, todo, Absent, <<>>),
         UNCHANGED namespace, \A q \in Process \ {p} : starts'[q] = starts[q],
         \/ f = "namespace" /\ specs # NoSpecs /\ todo = DOMAIN specs /\ todo # {}
         \/ f = AfterSpecs(p) /\ specs = NoSpecs /\ todo = {}
         \/ f = "off" /\ specs = NoSpecs
         \/ f = "failed" /\ specs = NoSpecs,
         starts'[p] = 0 => f = "off",
         \A a \in DOMAIN specs :
           \E root \in Root : a \in DOMAIN root /\ specs[a] = root[a]
  PROVE  ProcessesSound'
<1>1. ProcessSound(p)'
  BY DEF ProcessesSound, ProcessSound, Becomes, AfterSpecs, SpecPhase, AgentPhase
<1>2. ASSUME NEW q \in Process \ {p} PROVE ProcessSound(q)'
  <2>1. sync'[q] = sync[q] /\ starts'[q] = starts[q] /\ ProcessSound(q)
    BY DEF Becomes, ProcessesSound
  <2> QED
    BY <2>1 DEF ProcessSound, SpecOf, Current
<1> QED
  BY <1>1, <1>2 DEF ProcessesSound, Becomes

LEMMA TypesFollow ==
  ASSUME files \in Root, namespace \in BOOLEAN, agents \in [Agent -> Rows],
         schedules \in ScheduleTable, starts \in [Process -> 0..MaxStarts],
         edits \in 0..MaxEdits, ProcessesSound
  PROVE  TypeOK
<1>1. ASSUME NEW p \in Process
      PROVE  /\ sync[p].todo \subseteq Agent
             /\ sync[p].phase \in {"get", "put", "prompt", "reread", "clear", "create",
                                    "delete"} => sync[p].todo # {}
             /\ sync[p].phase = "create" <=> sync[p].left # <<>>
             /\ sync[p].phase \in {"list", "delete"} => p \in Server
  BY DEF ProcessesSound, ProcessSound, SyncRow, SpecPhase, AgentPhase
<1> QED
  BY <1>1 DEF TypeOK, ScheduleTable

-----------------------------------------------------------------------------
(* What each step of a process does.                                       *)

\* Agent c gets this row, and no other agent another one.
AgentBecomes(c, row) ==
  /\ agents' \in [Agent -> Rows]
  /\ agents'[c] = row
  /\ \A a \in Agent \ {c} : agents'[a] = agents[a]

\* A process goes from phase to phase with its specs as they are.
GoesTo(p, f) ==
  Becomes(p, f, sync[p].specs, sync[p].todo, sync[p].read, sync[p].left)

Refused(p) == Becomes(p, "failed", NoSpecs, {}, Absent, <<>>)

LEMMA GoesToHolds ==
  ASSUME Sound, NEW p \in Process, NEW f \in Phase, Goto(p, f)
  PROVE  GoesTo(p, f)
  BY GotoSets DEF GoesTo, Sound, ProcessesSound

LEMMA RefusedHolds ==
  ASSUME Sound, NEW p \in Process, Refuse(p)
  PROVE  Refused(p)
<1>1. "failed" \in Phase
  BY DEF Phase
<1> QED
  BY <1>1, IdleSets DEF Refuse, Refused, Sound, ProcessesSound

LEMMA PhaseNames ==
  /\ {"namespace", "create_namespace", "get", "put", "prompt", "reread", "clear",
      "create", "off", "failed", "list", "delete", "done"} \subseteq Phase
  /\ \A p : AfterSpecs(p) \in Phase
  /\ \A p \in Server : AfterSpecs(p) = "list"
  /\ \A p \in OneShot : AfterSpecs(p) = "done"
  BY SpecSyncAssumption DEF Phase, SpecPhase, AgentPhase, AfterSpecs

LEMMA GetNamespaceDoes ==
  ASSUME Sound, NEW p \in Process, GetNamespace(p)
  PROVE  GoesTo(p, IF namespace THEN "get" ELSE "create_namespace")
<1> DEFINE f == IF namespace THEN "get" ELSE "create_namespace"
<1>1. f \in Phase /\ Goto(p, f)
  BY PhaseNames DEF GetNamespace
<1> HIDE DEF f
<1>2. GoesTo(p, f)
  BY <1>1, GoesToHolds
<1> QED
  BY <1>2 DEF f

LEMMA CreateNamespaceDoes ==
  ASSUME Sound, NEW p \in Process, CreateNamespace(p)
  PROVE  /\ namespace' = TRUE
         /\ \/ namespace /\ Refused(p)
            \/ ~namespace /\ GoesTo(p, "get")
  BY RefusedHolds, GoesToHolds, PhaseNames DEF CreateNamespace

LEMMA GetAgentDoes ==
  ASSUME Sound, NEW p \in Process, GetAgent(p)
  PROVE  Becomes(p, "put", sync[p].specs, sync[p].todo, agents[Current(p)], sync[p].left)
<1>1. sync[p].phase \in SpecPhase
  BY DEF GetAgent, SpecPhase, AgentPhase
<1>2. Current(p) \in Agent
  BY <1>1, AtSpec DEF Sound
<1>3. agents[Current(p)] \in Rows
  BY <1>2 DEF Sound, TypeOK
<1> QED
  BY <1>3, PhaseNames, ReadSets DEF GetAgent, Sound, ProcessesSound

LEMMA CreateAgentDoes ==
  ASSUME Sound, NEW p \in Process, CreateAgent(p)
  PROVE  \/ agents[Current(p)].exists /\ Refused(p) /\ UNCHANGED agents
         \/ /\ ~agents[Current(p)].exists
            /\ AgentBecomes(Current(p), AgentRow(SpecOf(p)))
            /\ GoesTo(p, "clear")
<1>1. sync[p].phase \in SpecPhase
  BY DEF CreateAgent, SpecPhase, AgentPhase
<1>2. Current(p) \in Agent /\ SpecOf(p) \in AllSpecs /\ agents \in [Agent -> Rows]
  BY <1>1, AtSpec DEF Sound, TypeOK
<1>3. AgentRow(SpecOf(p)) \in Rows
  BY <1>2, RowTypes
<1>4. CASE agents[Current(p)].exists
  BY <1>4, RefusedHolds DEF CreateAgent
<1>5. CASE ~agents[Current(p)].exists
  <2>1. /\ agents' = [agents EXCEPT ![Current(p)] = AgentRow(SpecOf(p))]
        /\ Goto(p, "clear")
    BY <1>5 DEF CreateAgent
  <2>2. AgentBecomes(Current(p), AgentRow(SpecOf(p)))
    BY <1>2, <1>3, <2>1 DEF AgentBecomes
  <2> QED
    BY <1>5, <2>1, <2>2, GoesToHolds, PhaseNames
<1> QED
  BY <1>4, <1>5

\* Where the UPDATE does nothing, the agent keeps its row.
LEMMA UpdateSettingsDoes ==
  ASSUME Sound, NEW p \in Process, UpdateSettings(p)
  PROVE  /\ AgentBecomes(Current(p),
              IF sync[p].read.settings # SpecOf(p).settings /\ agents[Current(p)].exists
                THEN Row(SpecOf(p).settings, agents[Current(p)].prompt)
                ELSE agents[Current(p)])
         /\ GoesTo(p, "prompt")
<1> DEFINE c == Current(p)
<1>1. sync[p].phase \in SpecPhase
  BY DEF UpdateSettings, SpecPhase, AgentPhase
<1>2. c \in Agent /\ SpecOf(p) \in AllSpecs /\ agents \in [Agent -> Rows]
  BY <1>1, AtSpec DEF Sound, TypeOK
<1>3. GoesTo(p, "prompt")
  BY GoesToHolds, PhaseNames DEF UpdateSettings
<1>4. CASE sync[p].read.settings # SpecOf(p).settings /\ agents[c].exists
  <2>1. agents' = [agents EXCEPT ![c] = [agents[c] EXCEPT !.settings = SpecOf(p).settings]]
    BY <1>4 DEF UpdateSettings
  <2>2. PICK x \in AllSpecs : \E y \in AllSpecs : agents[c] = Row(x.settings, y.prompt)
    BY <1>2, <1>4, RowTypes
  <2>3. PICK y \in AllSpecs : agents[c] = Row(x.settings, y.prompt)
    BY <2>2
  <2>4. agents[c].prompt = y.prompt
    BY <2>3, RowFields
  <2>5. [agents[c] EXCEPT !.settings = SpecOf(p).settings] = Row(SpecOf(p).settings, y.prompt)
    BY <2>3, RowUpdates
  <2>6. Row(SpecOf(p).settings, y.prompt) \in Rows
    BY <1>2, RowTypes
  <2>7. agents' = [agents EXCEPT ![c] = Row(SpecOf(p).settings, agents[c].prompt)]
    BY <2>1, <2>4, <2>5
  <2> HIDE DEF c
  <2>8. AgentBecomes(c, Row(SpecOf(p).settings, agents[c].prompt))
    BY <1>2, <2>4, <2>6, <2>7 DEF AgentBecomes
  <2> QED
    BY <1>3, <1>4, <2>8 DEF c
<1>5. CASE ~(sync[p].read.settings # SpecOf(p).settings /\ agents[c].exists)
  <2>1. agents' = agents
    BY <1>5 DEF UpdateSettings
  <2> HIDE DEF c
  <2>2. AgentBecomes(c, agents[c])
    BY <1>2, <2>1 DEF AgentBecomes
  <2> QED
    BY <1>3, <1>5, <2>2 DEF c
<1> QED
  BY <1>4, <1>5

LEMMA UpdatePromptDoes ==
  ASSUME Sound, NEW p \in Process, UpdatePrompt(p)
  PROVE  \/ /\ sync[p].read.prompt = SpecOf(p).prompt
            /\ UNCHANGED agents /\ GoesTo(p, "reread")
         \/ ~agents[Current(p)].exists /\ UNCHANGED agents /\ Refused(p)
         \/ /\ agents[Current(p)].exists
            /\ AgentBecomes(Current(p), Row(agents[Current(p)].settings, SpecOf(p).prompt))
            /\ GoesTo(p, "reread")
<1> DEFINE c == Current(p)
<1>1. sync[p].phase \in SpecPhase
  BY DEF UpdatePrompt, SpecPhase, AgentPhase
<1>2. c \in Agent /\ SpecOf(p) \in AllSpecs /\ agents \in [Agent -> Rows]
  BY <1>1, AtSpec DEF Sound, TypeOK
<1>3. CASE sync[p].read.prompt = SpecOf(p).prompt
  BY <1>3, GoesToHolds, PhaseNames DEF UpdatePrompt
<1>4. CASE sync[p].read.prompt # SpecOf(p).prompt /\ ~agents[c].exists
  BY <1>4, RefusedHolds DEF UpdatePrompt
<1>5. CASE sync[p].read.prompt # SpecOf(p).prompt /\ agents[c].exists
  <2>1. /\ agents' = [agents EXCEPT ![c] = [agents[c] EXCEPT !.prompt = SpecOf(p).prompt]]
        /\ Goto(p, "reread")
    BY <1>5 DEF UpdatePrompt
  <2>2. PICK x \in AllSpecs : \E y \in AllSpecs : agents[c] = Row(x.settings, y.prompt)
    BY <1>2, <1>5, RowTypes
  <2>3. PICK y \in AllSpecs : agents[c] = Row(x.settings, y.prompt)
    BY <2>2
  <2>4. agents[c].settings = x.settings
    BY <2>3, RowFields
  <2>5. [agents[c] EXCEPT !.prompt = SpecOf(p).prompt] = Row(x.settings, SpecOf(p).prompt)
    BY <2>3, RowUpdates
  <2>6. Row(x.settings, SpecOf(p).prompt) \in Rows
    BY <1>2, RowTypes
  <2>7. agents' = [agents EXCEPT ![c] = Row(agents[c].settings, SpecOf(p).prompt)]
    BY <2>1, <2>4, <2>5
  <2> HIDE DEF c
  <2>8. AgentBecomes(c, Row(agents[c].settings, SpecOf(p).prompt))
    BY <1>2, <2>4, <2>6, <2>7 DEF AgentBecomes
  <2> QED
    BY <1>5, <2>1, <2>8, GoesToHolds, PhaseNames DEF c
<1> QED
  BY <1>3, <1>4, <1>5

LEMMA RereadAgentDoes ==
  ASSUME Sound, NEW p \in Process, RereadAgent(p)
  PROVE  \/ agents[Current(p)].exists /\ GoesTo(p, "clear")
         \/ ~agents[Current(p)].exists /\ Refused(p)
  BY RefusedHolds, GoesToHolds, PhaseNames DEF RereadAgent

\* With the next spec, a process has the current one done.
OnToNextSpec(p) ==
  LET todo == sync[p].todo \ {Current(p)} IN
  Becomes(p, IF todo = {} THEN AfterSpecs(p) ELSE "get",
          sync[p].specs, todo, Absent, <<>>)

LEMMA OnToNextSpecHolds ==
  ASSUME Sound, NEW p \in Process, NextSpec(p, sync[p].todo \ {Current(p)})
  PROVE  OnToNextSpec(p)
<1>1. sync[p].todo \ {Current(p)} \in SUBSET Agent
  BY DEF Sound, ProcessesSound, SyncRow
<1> QED
  BY <1>1, NextSpecSets DEF OnToNextSpec, Sound, ProcessesSound

LEMMA DeleteSchedulesByAgentDoes ==
  ASSUME Sound, NEW p \in Process, DeleteSchedulesByAgent(p)
  PROVE  /\ schedules' = WithoutAgent(Current(p))
         /\ \/ SpecOf(p).schedules = <<>> /\ OnToNextSpec(p)
            \/ /\ SpecOf(p).schedules # <<>>
               /\ Becomes(p, "create", sync[p].specs, sync[p].todo, sync[p].read,
                          SpecOf(p).schedules)
<1>1. sync[p].phase \in SpecPhase
  BY DEF DeleteSchedulesByAgent, SpecPhase, AgentPhase
<1>2. SpecOf(p).schedules \in Seq(ScheduleEntry)
  BY <1>1, AtSpec DEF Sound
<1>3. CASE SpecOf(p).schedules = <<>>
  BY <1>3, OnToNextSpecHolds DEF DeleteSchedulesByAgent
<1>4. CASE SpecOf(p).schedules # <<>>
  BY <1>2, <1>4, LeftSets, PhaseNames DEF DeleteSchedulesByAgent, Sound, ProcessesSound
<1> QED
  BY <1>3, <1>4 DEF DeleteSchedulesByAgent

LEMMA CreateScheduleDoes ==
  ASSUME Sound, NEW p \in Process, CreateSchedule(p)
  PROVE  LET s == Head(sync[p].left) IN
         \/ /\ schedules[s.id].exists \/ ~agents[Current(p)].exists
            /\ UNCHANGED schedules /\ Refused(p)
         \/ /\ ~schedules[s.id].exists /\ agents[Current(p)].exists
            /\ schedules' = [schedules EXCEPT ![s.id] = ScheduleRow(Current(p), s.def)]
            /\ \/ Tail(sync[p].left) = <<>> /\ OnToNextSpec(p)
               \/ /\ Tail(sync[p].left) # <<>>
                  /\ Becomes(p, "create", sync[p].specs, sync[p].todo, sync[p].read,
                             Tail(sync[p].left))
<1> DEFINE left == sync[p].left
           s == Head(left)
<1>1. left \in Seq(ScheduleEntry) /\ left # <<>> /\ sync[p].phase = "create"
  BY DEF Sound, ProcessesSound, ProcessSound, SyncRow, CreateSchedule
<1>2. Tail(left) \in Seq(ScheduleEntry) /\ (Len(left) = 1 <=> Tail(left) = <<>>)
  BY <1>1, HeadAndTail
<1>3. CASE schedules[s.id].exists \/ ~agents[Current(p)].exists
  BY <1>3, RefusedHolds DEF CreateSchedule
<1>4. CASE ~schedules[s.id].exists /\ agents[Current(p)].exists
  <2>1. /\ schedules' = [schedules EXCEPT ![s.id] = ScheduleRow(Current(p), s.def)]
        /\ IF Len(left) = 1
             THEN NextSpec(p, sync[p].todo \ {Current(p)})
             ELSE sync' = [sync EXCEPT ![p].left = Tail(left)]
    BY <1>4 DEF CreateSchedule
  <2>2. CASE Len(left) = 1
    BY <1>2, <1>4, <2>1, <2>2, OnToNextSpecHolds
  <2>3. CASE Len(left) # 1
    <3>1. sync' = [sync EXCEPT ![p].left = Tail(left)]
      BY <2>1, <2>3
    <3>2. Becomes(p, "create", sync[p].specs, sync[p].todo, sync[p].read, Tail(left))
      BY <1>1, <1>2, <3>1, LeftSets, PhaseNames DEF Sound, ProcessesSound
    <3> QED
      BY <1>2, <1>4, <2>1, <2>3, <3>2
  <2> QED
    BY <2>2, <2>3
<1> QED
  BY <1>3, <1>4

LEMMA ListAgentsDoes ==
  ASSUME Sound, NEW p \in Process, ListAgents(p)
  PROVE  Becomes(p, IF Unwanted(p) = {} THEN "done" ELSE "delete", sync[p].specs,
                 Unwanted(p), sync[p].read, sync[p].left)
<1> DEFINE f == IF Unwanted(p) = {} THEN "done" ELSE "delete"
<1>1. f \in Phase /\ Unwanted(p) \in SUBSET Agent
  BY PhaseNames DEF Unwanted
<1>2. sync' = [sync EXCEPT ![p].todo = Unwanted(p), ![p].phase = f]
  BY DEF ListAgents
<1> HIDE DEF f
<1>3. Becomes(p, f, sync[p].specs, Unwanted(p), sync[p].read, sync[p].left)
  BY <1>1, <1>2, TodoSets DEF Sound, ProcessesSound
<1> QED
  BY <1>3 DEF f

LEMMA DeleteAgentDoes ==
  ASSUME Sound, NEW p \in Process, DeleteAgent(p)
  PROVE  /\ AgentBecomes(Current(p), Absent)
         /\ schedules' = WithoutAgent(Current(p))
         /\ Becomes(p, IF sync[p].todo = {Current(p)} THEN "done" ELSE "delete",
                    sync[p].specs, sync[p].todo \ {Current(p)},
                    sync[p].read, sync[p].left)
<1> DEFINE c == Current(p)
           f == IF sync[p].todo = {c} THEN "done" ELSE "delete"
           todo == sync[p].todo \ {c}
<1>1. c \in Agent /\ agents \in [Agent -> Rows] /\ Absent \in Rows
  BY AtUnwanted, RowTypes DEF DeleteAgent, Sound, TypeOK
<1>2. f \in Phase /\ todo \in SUBSET Agent
  BY PhaseNames DEF Sound, ProcessesSound, SyncRow
<1>3. /\ agents' = [agents EXCEPT ![c] = Absent]
      /\ schedules' = WithoutAgent(c)
      /\ sync' = [sync EXCEPT ![p].todo = todo, ![p].phase = f]
  BY DEF DeleteAgent
<1> HIDE DEF f, todo, c
<1>4. Becomes(p, f, sync[p].specs, todo, sync[p].read, sync[p].left)
  BY <1>2, <1>3, TodoSets DEF Sound, ProcessesSound
<1>5. AgentBecomes(c, Absent)
  BY <1>1, <1>3 DEF AgentBecomes
<1> QED
  BY <1>3, <1>4, <1>5 DEF c, f, todo

LEMMA StartDoes ==
  ASSUME Sound, NEW p \in Process, Start(p)
  PROVE  /\ starts' \in [Process -> 0..MaxStarts] /\ starts'[p] # 0
         /\ \A q \in Process \ {p} : starts'[q] = starts[q]
         /\ \E specs \in Loaded(p) :
              Becomes(p, IF specs = NoSpecs THEN AfterSpecs(p) ELSE "namespace",
                      specs, DOMAIN specs, Absent, <<>>)
<1>1. /\ starts \in [Process -> 0..MaxStarts] /\ starts[p] < MaxStarts
      /\ starts' = [starts EXCEPT ![p] = starts[p] + 1]
  BY DEF Sound, TypeOK, Start
<1>2. MaxStarts \in Nat
  BY SpecSyncAssumption
<1>3. starts' \in [Process -> 0..MaxStarts] /\ starts'[p] # 0
  BY <1>1, <1>2
<1>4. \A q \in Process \ {p} : starts'[q] = starts[q]
  BY <1>1
<1> QED
  BY <1>3, <1>4, StartSets DEF Sound, TypeOK, ProcessesSound

LEMMA StopDoes ==
  ASSUME Sound, NEW p \in Process, Stop(p)
  PROVE  Becomes(p, "off", NoSpecs, {}, Absent, <<>>)
  BY PhaseNames, IdleSets DEF Stop, Sound, ProcessesSound

-----------------------------------------------------------------------------
(* Sound is inductive.                                                     *)

LEMMA TablesTyped ==
  ASSUME Sound
  PROVE  agents \in [Agent -> Rows] /\ schedules \in ScheduleTable /\ SchedulesSound
         /\ ProcessesSound
  BY DEF Sound, TypeOK, ScheduleTable

LEMMA SoundFollows ==
  ASSUME Sound, files' \in Root, namespace' \in BOOLEAN,
         starts' \in [Process -> 0..MaxStarts], edits' \in 0..MaxEdits,
         agents' \in [Agent -> Rows], schedules' \in ScheduleTable,
         ProcessesSound', SchedulesSound'
  PROVE  Sound'
<1>1. ASSUME NEW p \in Process
      PROVE  /\ sync'[p].todo \subseteq Agent
             /\ sync'[p].phase \in {"get", "put", "prompt", "reread", "clear", "create",
                                     "delete"} => sync'[p].todo # {}
             /\ sync'[p].phase = "create" <=> sync'[p].left # <<>>
             /\ sync'[p].phase \in {"list", "delete"} => p \in Server
  BY DEF ProcessesSound, ProcessSound, SyncRow, SpecPhase, AgentPhase
<1>2. TypeOK'
  BY <1>1 DEF TypeOK, ScheduleTable
<1> QED
  BY <1>2 DEF Sound

\* Rows of schedules still refer to an agent that exists.
LEMMA AgentStays ==
  ASSUME Sound, NEW c \in Agent, NEW row, AgentBecomes(c, row),
         agents[c].exists => row.exists, UNCHANGED schedules
  PROVE  SchedulesSound'
<1>1. \A a \in Agent : agents[a].exists => agents'[a].exists
  BY DEF AgentBecomes
<1>2. \A s \in Schedule : schedules[s].exists => schedules[s].agent \in Agent
  BY ScheduleTypes, TablesTyped
<1> QED
  BY <1>1, <1>2 DEF Sound, SchedulesSound, Owns

LEMMA ClearedSound ==
  ASSUME Sound, NEW c \in Agent, schedules' = WithoutAgent(c),
         \A a \in Agent \ {c} : agents'[a] = agents[a]
  PROVE  SchedulesSound' /\ schedules' \in ScheduleTable
<1>1. /\ schedules' \in ScheduleTable
      /\ \A s \in Schedule :
           schedules'[s].exists =>
             /\ schedules'[s] = schedules[s] /\ schedules[s].exists
             /\ schedules[s].agent # c
  BY SchedulesCleared, TablesTyped
<1>2. \A s \in Schedule : schedules[s].exists => schedules[s].agent \in Agent
  BY ScheduleTypes, TablesTyped
<1> QED
  BY <1>1, <1>2 DEF Sound, SchedulesSound, Owns

LEMMA RefusedSound ==
  ASSUME Sound, NEW p \in Process, Refused(p), namespace => namespace',
         UNCHANGED starts, sync[p].phase # "off"
  PROVE  ProcessesSound'
<1>1. starts[p] # 0
  BY DEF Sound, ProcessesSound, ProcessSound
<1>2. ProcessSound(p)'
  BY <1>1 DEF Refused, Becomes, ProcessSound, SpecPhase, AgentPhase, NoSpecs
<1>3. ASSUME NEW q \in Process \ {p} PROVE ProcessSound(q)'
  <2>1. sync'[q] = sync[q] /\ starts'[q] = starts[q] /\ ProcessSound(q)
    BY DEF Refused, Becomes, Sound, ProcessesSound
  <2> QED
    BY <2>1 DEF ProcessSound, SpecOf, Current
<1> QED
  BY <1>2, <1>3 DEF ProcessesSound, Refused, Becomes

LEMMA OnToNextSpecSound ==
  ASSUME Sound, NEW p \in Process, OnToNextSpec(p), UNCHANGED <<namespace, starts>>,
         sync[p].phase \in AgentPhase
  PROVE  ProcessesSound'
<1> DEFINE todo == sync[p].todo \ {Current(p)}
           f == IF todo = {} THEN AfterSpecs(p) ELSE "get"
<1>1. Becomes(p, f, sync[p].specs, todo, Absent, <<>>)
  BY DEF OnToNextSpec
<1>2. sync[p].todo \subseteq DOMAIN sync[p].specs /\ namespace
  BY DEF Sound, ProcessesSound, ProcessSound, SpecPhase
<1>3. f \in Phase
  BY PhaseNames
<1>4. /\ f \in SpecPhase => todo # {} /\ todo \subseteq DOMAIN sync[p].specs
      /\ f \in {"list", "done"} => todo = {}
      /\ f # "delete" /\ f # "create" /\ f # "prompt"
      /\ f \in {"list", "delete"} => p \in Server
  BY <1>2 DEF AfterSpecs, SpecPhase, AgentPhase
<1> HIDE DEF f, todo
<1> QED
  BY <1>1, <1>2, <1>3, <1>4, RowKept DEF Sound, AgentPhase

LEMMA GoesToSound ==
  ASSUME Sound, NEW p \in Process, NEW f \in SpecPhase \ {"create"}, GoesTo(p, f),
         sync[p].phase \in SpecPhase \ {"create"}, namespace => namespace',
         UNCHANGED starts, f \in AgentPhase => namespace',
         f = "prompt" => sync[p].read.exists
  PROVE  ProcessesSound'
<1>1. /\ sync[p].todo # {} /\ sync[p].todo \subseteq DOMAIN sync[p].specs
      /\ sync[p].left = <<>>
  BY DEF Sound, ProcessesSound, ProcessSound
<1>2. f \in Phase /\ f \notin {"list", "done", "delete", "create"}
  BY DEF Phase, SpecPhase, AgentPhase
<1>3. sync[p].phase # "off"
  BY DEF SpecPhase, AgentPhase
<1> QED
  BY <1>1, <1>2, <1>3, RowKept DEF Sound, GoesTo

LEMMA NamespaceStepSound ==
  ASSUME Sound, NEW p \in Process, GetNamespace(p) \/ CreateNamespace(p)
  PROVE  Sound'
<1>1. /\ UNCHANGED <<files, agents, schedules, starts, edits>>
      /\ namespace' \in BOOLEAN
      /\ namespace => namespace'
      /\ sync[p].phase \in {"namespace", "create_namespace"}
  <2>1. namespace \in BOOLEAN
    BY DEF Sound, TypeOK
  <2>2. CASE GetNamespace(p)
    BY <2>1, <2>2 DEF GetNamespace
  <2>3. CASE CreateNamespace(p)
    BY <2>3 DEF CreateNamespace
  <2> QED
    BY <2>2, <2>3
<1>2. sync[p].phase \in SpecPhase \ {"create"} /\ sync[p].phase # "off"
  BY <1>1 DEF SpecPhase, AgentPhase
<1>3. ASSUME NEW f \in SpecPhase \ {"create", "prompt"}, GoesTo(p, f),
             f \in AgentPhase => namespace'
      PROVE  ProcessesSound'
  BY <1>1, <1>2, <1>3, GoesToSound
<1>4. ASSUME GetNamespace(p) PROVE ProcessesSound'
  <2> DEFINE f == IF namespace THEN "get" ELSE "create_namespace"
  <2>1. GoesTo(p, f)
    BY <1>4, GetNamespaceDoes
  <2>2. f \in SpecPhase \ {"create", "prompt"} /\ (f \in AgentPhase => namespace)
    BY DEF SpecPhase, AgentPhase
  <2> HIDE DEF f
  <2> QED
    BY <1>1, <1>3, <2>1, <2>2
<1>5. ASSUME CreateNamespace(p) PROVE ProcessesSound'
  <2>1. "get" \in SpecPhase \ {"create", "prompt"}
    BY DEF SpecPhase, AgentPhase
  <2>2. Refused(p) => ProcessesSound'
    BY <1>1, <1>2, RefusedSound
  <2> QED
    BY <1>3, <1>5, <2>1, <2>2, CreateNamespaceDoes
<1>6. ProcessesSound'
  BY <1>4, <1>5
<1>7. SchedulesSound'
  BY <1>1, TablesTyped DEF SchedulesSound, Owns
<1> QED
  BY <1>1, <1>6, <1>7, SoundFollows, TablesTyped DEF Sound, TypeOK

LEMMA PutAgentStepSound ==
  ASSUME Sound, NEW p \in Process,
         \/ GetAgent(p) \/ CreateAgent(p) \/ UpdateSettings(p) \/ UpdatePrompt(p)
         \/ RereadAgent(p)
  PROVE  Sound'
<1> DEFINE c == Current(p)
<1>1. /\ UNCHANGED <<files, namespace, schedules, starts, edits>>
      /\ sync[p].phase \in {"get", "put", "prompt", "reread"}
  BY DEF GetAgent, CreateAgent, UpdateSettings, UpdatePrompt, RereadAgent
<1>2. /\ sync[p].phase \in SpecPhase \ {"create"} /\ sync[p].phase # "off"
      /\ sync[p].phase \in AgentPhase
  BY <1>1 DEF SpecPhase, AgentPhase
<1>3. /\ {"put", "prompt", "reread", "clear"} \subseteq AgentPhase \ {"create"}
      /\ AgentPhase \subseteq SpecPhase
  BY DEF SpecPhase, AgentPhase
<1>4. /\ namespace /\ sync[p].todo # {} /\ sync[p].left = <<>>
      /\ sync[p].todo \subseteq DOMAIN sync[p].specs
  BY <1>2 DEF Sound, ProcessesSound, ProcessSound
<1>5. c \in Agent
  BY <1>2, AtSpec DEF Sound
<1>6. ASSUME NEW row, AgentBecomes(c, row), agents[c].exists => row.exists, ProcessesSound'
      PROVE  Sound'
  <2>1. SchedulesSound'
    BY <1>1, <1>5, <1>6, AgentStays
  <2> QED
    BY <1>1, <1>6, <2>1, SoundFollows, TablesTyped DEF Sound, TypeOK, AgentBecomes
<1>7. ASSUME UNCHANGED agents, ProcessesSound'
      PROVE  Sound'
  BY <1>1, <1>7, SoundFollows, TablesTyped DEF Sound, TypeOK, SchedulesSound, Owns
<1>8. Refused(p) => ProcessesSound'
  BY <1>1, <1>2, RefusedSound
<1>9. ASSUME NEW f \in {"reread", "clear"}, GoesTo(p, f)
      PROVE  ProcessesSound'
  BY <1>1, <1>2, <1>3, <1>4, <1>9, GoesToSound
<1>10. CASE GetAgent(p)
  <2>1. ProcessesSound'
    <3>1. Becomes(p, "put", sync[p].specs, sync[p].todo, agents[c], <<>>)
      BY <1>4, <1>10, GetAgentDoes
    <3> HIDE DEF c
    <3> QED
      BY <1>1, <1>2, <1>3, <1>4, <3>1, RowKept, PhaseNames DEF Sound
  <2> QED
    BY <1>7, <1>10, <2>1 DEF GetAgent
<1>11. CASE CreateAgent(p)
  <2>1. AgentRow(SpecOf(p)).exists
    BY RowFields DEF AgentRow
  <2> QED
    BY <1>6, <1>7, <1>8, <1>9, <1>11, <2>1, CreateAgentDoes
<1>12. CASE UpdateSettings(p)
  <2> DEFINE row == IF sync[p].read.settings # SpecOf(p).settings /\ agents[c].exists
                      THEN Row(SpecOf(p).settings, agents[c].prompt) ELSE agents[c]
  <2>1. AgentBecomes(c, row) /\ GoesTo(p, "prompt")
    BY <1>12, UpdateSettingsDoes
  <2>2. agents[c].exists => row.exists
    BY RowFields
  <2>3. sync[p].read.exists
    BY <1>12 DEF UpdateSettings
  <2> HIDE DEF c, row
  <2>4. ProcessesSound'
    BY <1>1, <1>2, <1>3, <1>4, <2>1, <2>3, GoesToSound
  <2> QED
    BY <1>6, <2>1, <2>2, <2>4
<1>13. CASE UpdatePrompt(p)
  <2>1. Row(agents[c].settings, SpecOf(p).prompt).exists
    BY RowFields
  <2> QED
    BY <1>6, <1>7, <1>8, <1>9, <1>13, <2>1, UpdatePromptDoes
<1>14. CASE RereadAgent(p)
  <2>1. UNCHANGED agents
    BY <1>14 DEF RereadAgent
  <2> QED
    BY <1>7, <1>8, <1>9, <1>14, <2>1, RereadAgentDoes
<1> QED
  BY <1>10, <1>11, <1>12, <1>13, <1>14

LEMMA SchedulesStepSound ==
  ASSUME Sound, NEW p \in Process, DeleteSchedulesByAgent(p) \/ CreateSchedule(p)
  PROVE  Sound'
<1> DEFINE c == Current(p)
           left == sync[p].left
           s == Head(left)
<1>1. /\ UNCHANGED <<files, namespace, agents, starts, edits>>
      /\ sync[p].phase \in {"clear", "create"}
  BY DEF DeleteSchedulesByAgent, CreateSchedule
<1>2. sync[p].phase \in AgentPhase \cap SpecPhase /\ sync[p].phase # "off"
  BY <1>1 DEF SpecPhase, AgentPhase
<1>3. c \in Agent /\ \A e \in ToSet(SpecOf(p).schedules) : e \in ScheduleEntry /\ Owns(c, e.id)
  BY <1>2, AtSpec DEF Sound
<1>4. /\ namespace /\ sync[p].todo # {} /\ sync[p].todo \subseteq DOMAIN sync[p].specs
  BY <1>2 DEF Sound, ProcessesSound, ProcessSound
<1>5. ASSUME OnToNextSpec(p) PROVE ProcessesSound'
  BY <1>1, <1>2, <1>5, OnToNextSpecSound
<1>6. ASSUME NEW rest, rest # <<>>, ToSet(rest) \subseteq ToSet(SpecOf(p).schedules),
             Becomes(p, "create", sync[p].specs, sync[p].todo, sync[p].read, rest)
      PROVE  ProcessesSound'
  BY <1>1, <1>2, <1>4, <1>6, RowKept, PhaseNames DEF Sound
<1>7. ASSUME ProcessesSound', SchedulesSound', schedules' \in ScheduleTable
      PROVE  Sound'
  BY <1>1, <1>7, SoundFollows, TablesTyped DEF Sound, TypeOK
<1>8. CASE DeleteSchedulesByAgent(p)
  <2>1. SchedulesSound' /\ schedules' \in ScheduleTable
    BY <1>1, <1>3, <1>8, DeleteSchedulesByAgentDoes, ClearedSound
  <2>2. ProcessesSound'
    BY <1>5, <1>6, <1>8, DeleteSchedulesByAgentDoes
  <2> QED
    BY <1>7, <2>1, <2>2
<1>9. CASE CreateSchedule(p)
  <2>1. left \in Seq(ScheduleEntry) /\ left # <<>> /\ ToSet(left) \subseteq ToSet(SpecOf(p).schedules)
    BY <1>9 DEF Sound, ProcessesSound, ProcessSound, SyncRow, CreateSchedule
  <2>2. /\ s \in ScheduleEntry /\ Owns(c, s.id)
        /\ ToSet(Tail(left)) \subseteq ToSet(SpecOf(p).schedules)
    BY <1>3, <2>1, HeadAndTail
  <2>3. CASE UNCHANGED schedules /\ Refused(p)
    <3>1. ProcessesSound'
      BY <1>1, <1>2, <2>3, RefusedSound
    <3>2. SchedulesSound'
      BY <1>1, <2>3, TablesTyped DEF SchedulesSound, Owns
    <3> QED
      BY <1>7, <2>3, <3>1, <3>2, TablesTyped
  <2>4. CASE /\ ~schedules[s.id].exists /\ agents[c].exists
             /\ schedules' = [schedules EXCEPT ![s.id] = ScheduleRow(c, s.def)]
             /\ \/ Tail(left) = <<>> /\ OnToNextSpec(p)
                \/ /\ Tail(left) # <<>>
                   /\ Becomes(p, "create", sync[p].specs, sync[p].todo, sync[p].read,
                              Tail(left))
    <3>1. ProcessesSound'
      BY <1>5, <1>6, <2>2, <2>4
    <3> HIDE DEF s, left, c
    <3>2. /\ schedules' \in ScheduleTable
          /\ \A t \in Schedule :
               schedules'[t] = IF t = s.id THEN ScheduleRow(c, s.def) ELSE schedules[t]
      BY <1>3, <2>2, <2>4, TablesTyped, ScheduleAdded
    <3>3. SchedulesSound'
      BY <1>1, <2>2, <2>4, <3>2, TablesTyped, ScheduleFields DEF SchedulesSound, Owns
    <3> QED
      BY <1>7, <3>1, <3>2, <3>3
  <2> QED
    BY <1>9, <2>3, <2>4, CreateScheduleDoes
<1> QED
  BY <1>8, <1>9

LEMMA PruneStepSound ==
  ASSUME Sound, NEW p \in Process, ListAgents(p) \/ DeleteAgent(p)
  PROVE  Sound'
<1> DEFINE c == Current(p)
<1>1. /\ UNCHANGED <<files, namespace, starts, edits>>
      /\ sync[p].phase \in {"list", "delete"}
  BY DEF ListAgents, DeleteAgent
<1>2. /\ p \in Server /\ sync[p].phase # "off" /\ sync[p].left = <<>>
      /\ sync[p].specs # NoSpecs => namespace
  BY <1>1 DEF Sound, ProcessesSound, ProcessSound
<1>3. ASSUME NEW f \in {"delete", "done"}, NEW todo,
             f = "done" <=> todo = {}, todo \cap DOMAIN sync[p].specs = {},
             Becomes(p, f, sync[p].specs, todo, sync[p].read, <<>>)
      PROVE  ProcessesSound'
  <2>1. f \notin SpecPhase /\ f \in Phase
    BY DEF SpecPhase, AgentPhase, Phase
  <2> QED
    BY <1>1, <1>2, <1>3, <2>1, RowKept DEF Sound, SpecPhase
<1>4. CASE ListAgents(p)
  <2>1. /\ Becomes(p, IF Unwanted(p) = {} THEN "done" ELSE "delete", sync[p].specs,
                   Unwanted(p), sync[p].read, <<>>)
        /\ Unwanted(p) \cap DOMAIN sync[p].specs = {}
    BY <1>2, <1>4, ListAgentsDoes DEF Unwanted
  <2>2. ProcessesSound'
    BY <1>3, <2>1
  <2>3. UNCHANGED <<agents, schedules>>
    BY <1>4 DEF ListAgents
  <2>4. SchedulesSound'
    BY <2>3, TablesTyped DEF SchedulesSound, Owns
  <2> QED
    BY <1>1, <2>2, <2>3, <2>4, SoundFollows, TablesTyped DEF Sound, TypeOK
<1>5. CASE DeleteAgent(p)
  <2> DEFINE f == IF sync[p].todo = {c} THEN "done" ELSE "delete"
             todo == sync[p].todo \ {c}
  <2>1. /\ AgentBecomes(c, Absent)
        /\ schedules' = WithoutAgent(c)
        /\ Becomes(p, f, sync[p].specs, todo, sync[p].read, <<>>)
    BY <1>2, <1>5, DeleteAgentDoes
  <2>2. c \in Agent /\ c \in sync[p].todo /\ sync[p].todo \cap DOMAIN sync[p].specs = {}
    BY <1>5, AtUnwanted DEF Sound, DeleteAgent, ProcessesSound, ProcessSound
  <2>3. f \in {"delete", "done"} /\ (f = "done" <=> todo = {})
    BY <2>2
  <2>4. ProcessesSound'
    BY <1>3, <2>1, <2>2, <2>3
  <2> HIDE DEF f, todo, c
  <2>5. SchedulesSound' /\ schedules' \in ScheduleTable
    BY <2>1, <2>2, ClearedSound DEF AgentBecomes
  <2> QED
    BY <1>1, <2>1, <2>4, <2>5, SoundFollows DEF Sound, TypeOK, AgentBecomes
<1> QED
  BY <1>4, <1>5

LEMMA StartStopSound ==
  ASSUME Sound, NEW p \in Process, Start(p) \/ Stop(p)
  PROVE  Sound'
<1>1. UNCHANGED <<files, namespace, agents, schedules, edits>>
  BY DEF Start, Stop
<1>2. SchedulesSound'
  BY <1>1, TablesTyped DEF SchedulesSound, Owns
<1>3. CASE Start(p)
  <2>1. /\ starts' \in [Process -> 0..MaxStarts] /\ starts'[p] # 0
        /\ \A q \in Process \ {p} : starts'[q] = starts[q]
    BY <1>3, StartDoes
  <2>2. PICK specs \in Loaded(p) :
          Becomes(p, IF specs = NoSpecs THEN AfterSpecs(p) ELSE "namespace",
                  specs, DOMAIN specs, Absent, <<>>)
    BY <1>3, StartDoes
  <2>3. /\ specs # NoSpecs => DOMAIN specs # {}
        /\ \A a \in DOMAIN specs :
             \E root \in Root : a \in DOMAIN root /\ specs[a] = root[a]
    BY LoadedSpecs DEF Sound, TypeOK
  <2>4. specs = NoSpecs => DOMAIN specs = {}
    BY DEF NoSpecs
  <2>5. ProcessesSound'
    BY <1>1, <2>1, <2>2, <2>3, <2>4, RowReset, PhaseNames DEF Sound
  <2> QED
    BY <1>1, <1>2, <2>1, <2>5, SoundFollows, TablesTyped DEF Sound, TypeOK
<1>4. CASE Stop(p)
  <2>1. Becomes(p, "off", NoSpecs, {}, Absent, <<>>) /\ UNCHANGED starts
    BY <1>4, StopDoes DEF Stop
  <2>2. DOMAIN NoSpecs = {}
    BY DEF NoSpecs
  <2>3. ProcessesSound'
    BY <1>1, <2>1, <2>2, RowReset, PhaseNames DEF Sound
  <2> QED
    BY <1>1, <1>2, <2>1, <2>3, SoundFollows, TablesTyped DEF Sound, TypeOK
<1> QED
  BY <1>3, <1>4

LEMMA InitSound ==
  ASSUME Init PROVE Sound
<1>1. sync \in [Process -> SyncRow]
  BY IdleRow, PhaseNames DEF Init
<1>2. ASSUME NEW p \in Process PROVE ProcessSound(p)
  <2>1. /\ sync[p].phase = "off" /\ sync[p].todo = {} /\ sync[p].left = <<>>
        /\ DOMAIN sync[p].specs = {}
    BY IdleRow, PhaseNames DEF Init, NoSpecs
  <2> QED
    BY <2>1 DEF ProcessSound, SpecPhase, AgentPhase
<1>3. ProcessesSound
  BY <1>1, <1>2 DEF ProcessesSound
<1>4. SchedulesSound
  BY RowFields DEF Init, SchedulesSound
<1>5. /\ files \in Root /\ namespace \in BOOLEAN /\ agents \in [Agent -> Rows]
      /\ schedules \in ScheduleTable
  <2>1. agents \in [Agent -> Rows]
    BY RowTypes DEF Init
  <2>2. namespace \in BOOLEAN
    BY DEF Init
  <2>3. schedules = [s \in Schedule |-> Absent]
    BY DEF Init
  <2>4. schedules \in ScheduleTable
    BY <2>3 DEF ScheduleTable
  <2> QED
    BY <2>1, <2>2, <2>4 DEF Init
<1>6. starts \in [Process -> 0..MaxStarts] /\ edits \in 0..MaxEdits
  <2>1. MaxStarts \in Nat /\ MaxEdits \in Nat
    BY SpecSyncAssumption
  <2> QED
    BY <2>1 DEF Init
<1> QED
  BY <1>3, <1>4, <1>5, <1>6, TypesFollow DEF Sound

LEMMA UnchangedSound ==
  ASSUME Sound, UNCHANGED <<namespace, sync, starts>>
  PROVE  ProcessesSound'
<1>1. ASSUME NEW p \in Process PROVE ProcessSound(p)'
  <2>1. sync'[p] = sync[p] /\ starts'[p] = starts[p] /\ ProcessSound(p)
    BY DEF Sound, ProcessesSound
  <2> QED
    BY <2>1 DEF ProcessSound, SpecOf, Current
<1> QED
  BY <1>1 DEF Sound, ProcessesSound

LEMMA NextSound ==
  ASSUME Sound, [Next]_vars PROVE Sound'
<1>1. CASE EditFiles
  <2>1. /\ UNCHANGED <<namespace, agents, schedules, sync, starts>>
        /\ files' \in Root /\ edits' \in 0..MaxEdits
    BY <1>1, SpecSyncAssumption DEF EditFiles, Sound, TypeOK
  <2>2. SchedulesSound'
    BY <2>1, TablesTyped DEF SchedulesSound, Owns
  <2>3. ProcessesSound'
    BY <2>1, UnchangedSound
  <2> QED
    BY <2>1, <2>2, <2>3, SoundFollows, TablesTyped DEF Sound, TypeOK
<1>2. CASE UNCHANGED vars
  <2>1. UNCHANGED <<files, namespace, agents, schedules, sync, starts, edits>>
    BY <1>2 DEF vars
  <2>2. SchedulesSound'
    BY <2>1, TablesTyped DEF SchedulesSound, Owns
  <2>3. ProcessesSound'
    BY <2>1, UnchangedSound
  <2> QED
    BY <2>1, <2>2, <2>3, SoundFollows, TablesTyped DEF Sound, TypeOK
<1>3. ASSUME NEW p \in Process, Start(p) \/ Stop(p) \/ SyncStep(p)
      PROVE  Sound'
  BY <1>3, NamespaceStepSound, PutAgentStepSound, SchedulesStepSound, PruneStepSound,
     StartStopSound DEF SyncStep
<1> QED
  BY <1>1, <1>2, <1>3 DEF Next

LEMMA SoundAlways == Spec => []Sound
  BY InitSound, NextSound, PTL DEF Spec

-----------------------------------------------------------------------------
(* A server that is alone.                                                 *)

LEMMA NotStartedIsOff ==
  ASSUME Sound, NEW q \in Process, starts[q] = 0
  PROVE  ~Running(q) /\ ~SyncStep(q)
<1>1. sync[q].phase = "off"
  BY DEF Sound, ProcessesSound, ProcessSound
<1> QED
  BY <1>1 DEF Running, SyncStep, GetNamespace, CreateNamespace, GetAgent, CreateAgent,
              UpdateSettings, UpdatePrompt, RereadAgent, DeleteSchedulesByAgent,
              CreateSchedule, ListAgents, DeleteAgent

\* While no other process has used the database, only this one takes steps.
LEMMA OnlyOneSteps ==
  ASSUME Sound, [Next]_vars, NEW p \in Process, Alone(p)'
  PROVE  /\ Alone(p)
         /\ \/ UNCHANGED <<namespace, agents, schedules, sync>>
            \/ Start(p) \/ Stop(p) \/ SyncStep(p)
<1>1. CASE EditFiles
  BY <1>1 DEF EditFiles, Alone
<1>2. CASE UNCHANGED vars
  BY <1>2 DEF vars, Alone
<1>3. ASSUME NEW q \in Process, Start(q)
      PROVE  Alone(p) /\ Start(p)
  <2>1. starts'[q] # 0 /\ \A r \in Process \ {q} : starts'[r] = starts[r]
    BY <1>3, StartDoes
  <2>2. q = p
    BY <2>1 DEF Alone
  <2> QED
    BY <1>3, <2>1, <2>2 DEF Alone
<1>4. ASSUME NEW q \in Process, Stop(q) \/ SyncStep(q)
      PROVE  Alone(p) /\ (Stop(p) \/ SyncStep(p))
  <2>1. UNCHANGED starts
    BY <1>4 DEF Stop, SyncStep, GetNamespace, CreateNamespace, GetAgent, CreateAgent,
                UpdateSettings, UpdatePrompt, RereadAgent, DeleteSchedulesByAgent,
                CreateSchedule, ListAgents, DeleteAgent
  <2>2. Alone(p)
    BY <2>1 DEF Alone
  <2>3. starts[q] # 0
    BY <1>4, NotStartedIsOff DEF Stop
  <2>4. q = p
    BY <2>2, <2>3 DEF Alone
  <2> QED
    BY <1>4, <2>2, <2>4
<1> QED
  BY <1>1, <1>2, <1>3, <1>4 DEF Next

LEMMA SyncedNamespace ==
  ASSUME Sound, NEW p \in Server, p \in Process, SyncedSoFar(p),
         GetNamespace(p) \/ CreateNamespace(p)
  PROVE  SyncedSoFar(p)'
<1>1. UNCHANGED <<agents, schedules>>
  BY DEF GetNamespace, CreateNamespace
<1>2. \A a : ScheduleRows(a)' = ScheduleRows(a)
  BY <1>1 DEF ScheduleRows
<1>3. Running(p) => \A a \in DOMAIN sync[p].specs \ sync[p].todo :
                      AgentSynced(a, sync[p].specs[a])
  BY DEF SyncedSoFar
<1>4. Running(p)
  BY DEF Running, GetNamespace, CreateNamespace
<1>5. CASE Refused(p)
  BY <1>5 DEF Refused, Becomes, SyncedSoFar, Running
<1>6. ASSUME NEW f \in {"get", "create_namespace"}, GoesTo(p, f),
             f = "create_namespace" => ~namespace'
      PROVE  SyncedSoFar(p)'
  BY <1>1, <1>2, <1>3, <1>4, <1>6
     DEF GoesTo, Becomes, SyncedSoFar, AgentSynced
<1>7. CASE GetNamespace(p)
  <2> DEFINE f == IF namespace THEN "get" ELSE "create_namespace"
  <2>1. GoesTo(p, f) /\ namespace' = namespace
    BY <1>7, GetNamespaceDoes DEF GetNamespace
  <2>2. f \in {"get", "create_namespace"} /\ (f = "create_namespace" => ~namespace)
    OBVIOUS
  <2> HIDE DEF f
  <2> QED
    BY <1>6, <2>1, <2>2
<1>8. CASE CreateNamespace(p)
  BY <1>5, <1>6, <1>8, CreateNamespaceDoes
<1> QED
  BY <1>7, <1>8

LEMMA SyncedStartStop ==
  ASSUME Sound, NEW p \in Server, p \in Process, SyncedSoFar(p), Start(p) \/ Stop(p)
  PROVE  SyncedSoFar(p)'
<1>1. CASE Start(p)
  <2>1. PICK specs \in Loaded(p) :
          Becomes(p, IF specs = NoSpecs THEN AfterSpecs(p) ELSE "namespace",
                  specs, DOMAIN specs, Absent, <<>>)
    BY <1>1, StartDoes
  <2>2. /\ sync'[p].phase \in {"list", "namespace"}
        /\ sync'[p].todo = DOMAIN sync'[p].specs
    BY <2>1, PhaseNames DEF Becomes
  <2> QED
    BY <2>2 DEF SyncedSoFar
<1>2. CASE Stop(p)
  BY <1>2, StopDoes DEF SyncedSoFar, Becomes, Running
<1> QED
  BY <1>1, <1>2

\* While a process works at one agent, those it is through with stay synced.
LEMMA OthersStaySynced ==
  ASSUME Sound, NEW p \in Process, SyncedSoFar(p), sync[p].phase \in SpecPhase,
         \A a \in Agent \ {Current(p)} :
           agents'[a] = agents[a] /\ ScheduleRows(a)' = ScheduleRows(a),
         sync'[p].specs = sync[p].specs, sync'[p].todo = sync[p].todo
  PROVE  /\ \A a \in DOMAIN sync'[p].specs \ sync'[p].todo :
              AgentSynced(a, sync[p].specs[a])'
         /\ Current(p)' = Current(p) /\ SpecOf(p)' = SpecOf(p)
<1>1. Running(p)
  BY DEF Running, SpecPhase, AgentPhase
<1>2. DOMAIN sync[p].specs \subseteq Agent
  BY DEF Sound, ProcessesSound, SyncRow, SpecsOfAgents
<1>3. Current(p) \in sync[p].todo
  BY AtSpec DEF Sound
<1>4. ASSUME NEW a \in DOMAIN sync[p].specs \ sync[p].todo
      PROVE  AgentSynced(a, sync[p].specs[a])'
  <2>1. AgentSynced(a, sync[p].specs[a])
    BY <1>1 DEF SyncedSoFar
  <2>2. agents'[a] = agents[a] /\ ScheduleRows(a)' = ScheduleRows(a)
    BY <1>2, <1>3
  <2>3. sync'[p].specs[a] = sync[p].specs[a]
    OBVIOUS
  <2> QED
    BY <2>1, <2>2, <2>3 DEF AgentSynced
<1>5. Current(p)' = Current(p) /\ SpecOf(p)' = SpecOf(p)
  BY DEF Current, SpecOf
<1> QED
  BY <1>4, <1>5

LEMMA SyncedRefused ==
  ASSUME NEW p, Refused(p) PROVE SyncedSoFar(p)'
  BY DEF Refused, Becomes, SyncedSoFar, Running

LEMMA SyncedPutAgent ==
  ASSUME Sound, NEW p \in Server, p \in Process, SyncedSoFar(p),
         \/ GetAgent(p) \/ CreateAgent(p) \/ UpdateSettings(p) \/ UpdatePrompt(p)
         \/ RereadAgent(p)
  PROVE  SyncedSoFar(p)'
<1> DEFINE c == Current(p)
           x == SpecOf(p)
<1>1. /\ UNCHANGED schedules
      /\ sync[p].phase \in {"get", "put", "prompt", "reread"}
  BY DEF GetAgent, CreateAgent, UpdateSettings, UpdatePrompt, RereadAgent
<1>2. \A a : ScheduleRows(a)' = ScheduleRows(a)
  BY <1>1 DEF ScheduleRows
<1>3. sync[p].phase \in SpecPhase
  BY <1>1 DEF SpecPhase, AgentPhase
<1>4. c \in Agent /\ x \in AllSpecs /\ agents \in [Agent -> Rows]
  BY <1>3, AtSpec DEF Sound, TypeOK
<1>5. ASSUME NEW f, NEW r, Becomes(p, f, sync[p].specs, sync[p].todo, r, sync[p].left),
             \A a \in Agent \ {c} : agents'[a] = agents[a],
             f \in {"put", "prompt", "reread", "clear"},
             f = "put" => r = agents'[c],
             f = "prompt" => agents'[c] = Row(x.settings, r.prompt),
             f \in {"reread", "clear"} => agents'[c] = AgentRow(x)
      PROVE  SyncedSoFar(p)'
  <2>1. /\ sync'[p].specs = sync[p].specs /\ sync'[p].todo = sync[p].todo
        /\ sync'[p].phase = f /\ sync'[p].read = r
    BY <1>5 DEF Becomes
  <2>2. /\ \A a \in DOMAIN sync'[p].specs \ sync'[p].todo :
             AgentSynced(a, sync[p].specs[a])'
        /\ Current(p)' = c /\ SpecOf(p)' = x
    BY <1>2, <1>3, <1>5, <2>1, OthersStaySynced
  <2> HIDE DEF c, x
  <2> QED
    BY <1>5, <2>1, <2>2 DEF SyncedSoFar
<1>6. CASE GetAgent(p)
  <2>1. Becomes(p, "put", sync[p].specs, sync[p].todo, agents[c], sync[p].left)
    BY <1>6, GetAgentDoes
  <2>2. agents' = agents
    BY <1>6 DEF GetAgent
  <2> HIDE DEF c, x
  <2> QED
    BY <1>5, <2>1, <2>2
<1>7. CASE CreateAgent(p)
  <2>1. ASSUME AgentBecomes(c, AgentRow(x)), GoesTo(p, "clear")
        PROVE  SyncedSoFar(p)'
    BY <1>5, <2>1 DEF AgentBecomes, GoesTo
  <2> QED
    BY <1>7, <2>1, CreateAgentDoes, SyncedRefused
<1>8. CASE UpdateSettings(p)
  <2>1. sync[p].read = agents[c] /\ agents[c].exists
    BY <1>8 DEF UpdateSettings, SyncedSoFar
  <2>2. agents[c] = Row(agents[c].settings, agents[c].prompt)
    BY <1>4, <2>1, RowTypes
  <2>3. AgentBecomes(c, Row(x.settings, agents[c].prompt)) /\ GoesTo(p, "prompt")
    BY <1>8, <2>1, <2>2, UpdateSettingsDoes
  <2> HIDE DEF c, x
  <2> QED
    BY <1>5, <2>1, <2>3 DEF AgentBecomes, GoesTo
<1>9. CASE UpdatePrompt(p)
  <2>1. agents[c] = Row(x.settings, sync[p].read.prompt)
    BY <1>9 DEF UpdatePrompt, SyncedSoFar
  <2>2. agents[c].exists /\ agents[c].settings = x.settings
    BY <2>1, RowFields
  <2>3. CASE sync[p].read.prompt = x.prompt /\ UNCHANGED agents /\ GoesTo(p, "reread")
    BY <1>5, <2>1, <2>3 DEF AgentRow, GoesTo
  <2>4. CASE AgentBecomes(c, Row(agents[c].settings, x.prompt)) /\ GoesTo(p, "reread")
    BY <1>5, <2>2, <2>4 DEF AgentRow, AgentBecomes, GoesTo
  <2> QED
    BY <1>9, <2>2, <2>3, <2>4, UpdatePromptDoes
<1>10. CASE RereadAgent(p)
  <2>1. agents[c] = AgentRow(x) /\ agents' = agents
    BY <1>10 DEF RereadAgent, SyncedSoFar
  <2>2. ASSUME GoesTo(p, "clear") PROVE SyncedSoFar(p)'
    BY <1>5, <2>1, <2>2 DEF GoesTo
  <2> QED
    BY <1>10, <2>2, RereadAgentDoes, SyncedRefused
<1> QED
  BY <1>6, <1>7, <1>8, <1>9, <1>10

\* The next spec is begun once the current one is synced.
LEMMA SyncedOnToNext ==
  ASSUME Sound, NEW p \in Server, p \in Process, SyncedSoFar(p),
         sync[p].phase \in SpecPhase, UNCHANGED agents, NEW c, c = Current(p),
         \A a \in Agent \ {c} : ScheduleRows(a)' = ScheduleRows(a),
         agents[c] = AgentRow(SpecOf(p)),
         ScheduleRows(c)' = ToSet(SpecOf(p).schedules),
         OnToNextSpec(p)
  PROVE  SyncedSoFar(p)'
<1>1. Running(p)
  BY DEF Running, SpecPhase, AgentPhase
<1>2. DOMAIN sync[p].specs \subseteq Agent
  BY DEF Sound, ProcessesSound, SyncRow, SpecsOfAgents
<1>3. SpecOf(p) = sync[p].specs[c]
  BY DEF SpecOf
<1>4. /\ sync'[p].specs = sync[p].specs /\ sync'[p].todo = sync[p].todo \ {c}
      /\ sync'[p].phase \in {"list", "get"}
  BY PhaseNames DEF OnToNextSpec, Becomes
<1>5. ASSUME NEW a \in DOMAIN sync'[p].specs \ sync'[p].todo
      PROVE  AgentSynced(a, sync[p].specs[a])'
  <2>1. CASE a = c
    <3>1. /\ sync'[p].specs[a] = SpecOf(p) /\ agents'[a] = AgentRow(SpecOf(p))
          /\ ScheduleRows(a)' = ToSet(SpecOf(p).schedules)
      BY <1>3, <1>4, <2>1
    <3> QED
      BY <3>1 DEF AgentSynced
  <2>2. CASE a # c
    <3>1. AgentSynced(a, sync[p].specs[a])
      BY <1>1, <1>4, <2>2 DEF SyncedSoFar
    <3>2. ScheduleRows(a)' = ScheduleRows(a) /\ agents'[a] = agents[a]
      BY <1>2, <1>4, <2>2
    <3> QED
      BY <1>4, <3>1, <3>2 DEF AgentSynced
  <2> QED
    BY <2>1, <2>2
<1> QED
  BY <1>4, <1>5 DEF SyncedSoFar

LEMMA SyncedSchedules ==
  ASSUME Sound, NEW p \in Server, p \in Process, SyncedSoFar(p),
         DeleteSchedulesByAgent(p) \/ CreateSchedule(p)
  PROVE  SyncedSoFar(p)'
<1> DEFINE x == SpecOf(p)
           left == sync[p].left
           s == Head(left)
<1>1. /\ UNCHANGED agents
      /\ sync[p].phase \in {"clear", "create"}
  BY DEF DeleteSchedulesByAgent, CreateSchedule
<1>2. sync[p].phase \in SpecPhase
  BY <1>1 DEF SpecPhase, AgentPhase
<1>3. PICK c \in Agent : c = Current(p)
  BY <1>2, AtSpec DEF Sound
<1>4. agents[c] = AgentRow(x)
  BY <1>1, <1>3 DEF SyncedSoFar
<1>5. ASSUME NEW rest, Becomes(p, "create", sync[p].specs, sync[p].todo, sync[p].read, rest),
             \A a \in Agent \ {c} : ScheduleRows(a)' = ScheduleRows(a),
             ScheduleRows(c)' \cup ToSet(rest) = ToSet(x.schedules)
      PROVE  SyncedSoFar(p)'
  <2>1. /\ sync'[p].specs = sync[p].specs /\ sync'[p].todo = sync[p].todo
        /\ sync'[p].phase = "create" /\ sync'[p].left = rest
    BY <1>5 DEF Becomes
  <2>2. /\ \A a \in DOMAIN sync'[p].specs \ sync'[p].todo :
             AgentSynced(a, sync[p].specs[a])'
        /\ Current(p)' = c /\ SpecOf(p)' = x
    BY <1>1, <1>2, <1>3, <1>5, <2>1, OthersStaySynced
  <2>3. ScheduleRows(Current(p))' = ScheduleRows(c)'
    BY <2>2 DEF ScheduleRows
  <2> HIDE DEF x
  <2> QED
    BY <1>1, <1>4, <1>5, <2>1, <2>2, <2>3 DEF SyncedSoFar
<1>6. CASE DeleteSchedulesByAgent(p)
  <2>1. /\ ScheduleRows(c)' = {}
        /\ \A a \in Agent \ {c} : ScheduleRows(a)' = ScheduleRows(a)
    BY <1>3, <1>6, DeleteSchedulesByAgentDoes, SchedulesCleared, TablesTyped
  <2>2. CASE x.schedules = <<>> /\ OnToNextSpec(p)
    <3>1. ScheduleRows(c)' = ToSet(x.schedules)
      BY <2>1, <2>2 DEF ToSet
    <3> QED
      BY <1>1, <1>2, <1>3, <1>4, <2>1, <2>2, <3>1, SyncedOnToNext
  <2>3. CASE Becomes(p, "create", sync[p].specs, sync[p].todo, sync[p].read, x.schedules)
    BY <1>5, <2>1, <2>3
  <2> QED
    BY <1>6, <2>2, <2>3, DeleteSchedulesByAgentDoes
<1>7. CASE CreateSchedule(p)
  <2>1. /\ left \in Seq(ScheduleEntry) /\ left # <<>>
        /\ ScheduleRows(c) \cup ToSet(left) = ToSet(x.schedules)
    BY <1>3, <1>7 DEF Sound, ProcessesSound, ProcessSound, SyncRow, CreateSchedule, SyncedSoFar
  <2>2. s \in ScheduleEntry /\ ToSet(left) = {s} \cup ToSet(Tail(left))
    BY <2>1, HeadAndTail
  <2>3. CASE /\ ~schedules[s.id].exists
             /\ schedules' = [schedules EXCEPT ![s.id] = ScheduleRow(c, s.def)]
             /\ \/ Tail(left) = <<>> /\ OnToNextSpec(p)
                \/ Becomes(p, "create", sync[p].specs, sync[p].todo, sync[p].read,
                           Tail(left))
    <3>1. /\ ScheduleRows(c)' = ScheduleRows(c) \cup {s}
          /\ \A a \in Agent \ {c} : ScheduleRows(a)' = ScheduleRows(a)
      BY <1>3, <2>2, <2>3, ScheduleAdded, TablesTyped
    <3>2. ScheduleRows(c)' \cup ToSet(Tail(left)) = ToSet(x.schedules)
      BY <2>1, <2>2, <3>1
    <3>3. CASE Tail(left) = <<>> /\ OnToNextSpec(p)
      <4>1. ToSet(Tail(left)) = {}
        BY <3>3 DEF ToSet
      <4>2. ScheduleRows(c)' = ToSet(x.schedules)
        BY <3>2, <4>1
      <4> QED
        BY <1>1, <1>2, <1>3, <1>4, <3>1, <3>3, <4>2, SyncedOnToNext
    <3> QED
      BY <1>5, <2>3, <3>1, <3>2, <3>3
  <2> QED
    BY <1>3, <1>7, <2>3, CreateScheduleDoes, SyncedRefused
<1> QED
  BY <1>6, <1>7

LEMMA SyncedPrune ==
  ASSUME Sound, NEW p \in Server, p \in Process, SyncedSoFar(p),
         ListAgents(p) \/ DeleteAgent(p)
  PROVE  SyncedSoFar(p)'
<1> DEFINE c == Current(p)
<1>1. DOMAIN sync[p].specs \subseteq Agent
  BY DEF Sound, ProcessesSound, SyncRow, SpecsOfAgents
<1>2. \A a \in DOMAIN sync[p].specs : AgentSynced(a, sync[p].specs[a])
  <2>1. Running(p) /\ sync[p].todo \cap DOMAIN sync[p].specs = {}
    BY DEF Running, ListAgents, DeleteAgent, Sound, ProcessesSound, ProcessSound
  <2> QED
    BY <2>1 DEF SyncedSoFar
<1>3. CASE ListAgents(p)
  <2>1. UNCHANGED <<agents, schedules>>
    BY <1>3 DEF ListAgents
  <2>2. /\ sync'[p].phase \in {"delete", "done"} /\ sync'[p].specs = sync[p].specs
        /\ sync'[p].todo = Unwanted(p)
    BY <1>3, ListAgentsDoes DEF Becomes
  <2>3. Unwanted(p)' = Unwanted(p)
    BY <2>1, <2>2 DEF Unwanted
  <2>4. \A a \in DOMAIN sync'[p].specs : AgentSynced(a, sync[p].specs[a])'
    BY <1>2, <2>1, <2>2 DEF AgentSynced, ScheduleRows
  <2> QED
    BY <2>2, <2>3, <2>4 DEF SyncedSoFar
<1>4. CASE DeleteAgent(p)
  <2>1. c \in Agent /\ c \in sync[p].todo /\ c \notin DOMAIN sync[p].specs
    BY <1>4, AtUnwanted DEF Sound, DeleteAgent
  <2>2. Unwanted(p) = sync[p].todo
    BY <1>4 DEF SyncedSoFar, DeleteAgent
  <2>3. /\ AgentBecomes(c, Absent)
        /\ \A a \in Agent \ {c} : ScheduleRows(a)' = ScheduleRows(a)
    BY <1>4, <2>1, DeleteAgentDoes, SchedulesCleared, TablesTyped
  <2>4. /\ sync'[p].phase \in {"delete", "done"} /\ sync'[p].specs = sync[p].specs
        /\ sync'[p].todo = sync[p].todo \ {c}
    BY <1>4, DeleteAgentDoes DEF Becomes
  <2> HIDE DEF c
  <2>5. Unwanted(p)' = Unwanted(p) \ {c}
    BY <2>1, <2>3, <2>4, RowFields DEF Unwanted, AgentBecomes
  <2>6. ASSUME NEW a \in DOMAIN sync'[p].specs
        PROVE  AgentSynced(a, sync[p].specs[a])'
    <3>1. AgentSynced(a, sync[p].specs[a]) /\ a \in Agent \ {c}
      BY <1>1, <1>2, <2>1, <2>4
    <3> QED
      BY <2>3, <2>4, <3>1 DEF AgentSynced, AgentBecomes
  <2> QED
    BY <2>2, <2>4, <2>5, <2>6 DEF SyncedSoFar
<1> QED
  BY <1>3, <1>4

LEMMA SyncedStepKept ==
  ASSUME Sound, NEW p \in Server, p \in Process, SyncedSoFar(p),
         Start(p) \/ Stop(p) \/ SyncStep(p)
  PROVE  SyncedSoFar(p)'
  BY SyncedStartStop, SyncedNamespace, SyncedPutAgent, SyncedSchedules, SyncedPrune
     DEF SyncStep

LEMMA SyncedUnchanged ==
  ASSUME NEW p, SyncedSoFar(p), UNCHANGED <<namespace, agents, schedules, sync>>
  PROVE  SyncedSoFar(p)'
<1>1. \A a : ScheduleRows(a)' = ScheduleRows(a)
  BY DEF ScheduleRows
<1>2. /\ Current(p)' = Current(p) /\ SpecOf(p)' = SpecOf(p)
      /\ Unwanted(p)' = Unwanted(p) /\ (Running(p)' <=> Running(p))
  BY DEF Current, SpecOf, Unwanted, Running
<1>3. ScheduleRows(Current(p))' = ScheduleRows(Current(p))
  BY <1>1, <1>2 DEF ScheduleRows
<1>4. \A a \in DOMAIN sync[p].specs :
        AgentSynced(a, sync[p].specs[a]) => AgentSynced(a, sync[p].specs[a])'
  BY <1>1 DEF AgentSynced
<1> QED
  BY <1>2, <1>3, <1>4 DEF SyncedSoFar

LEMMA AloneInit ==
  ASSUME Init PROVE AloneInv
<1>1. ASSUME NEW p \in Server PROVE SyncedSoFar(p)
  <2>1. sync[p].phase = "off"
    BY IdleRow, PhaseNames DEF Init, Process
  <2> QED
    BY <2>1 DEF SyncedSoFar, Running
<1> QED
  BY <1>1 DEF AloneInv

LEMMA AloneNext ==
  ASSUME Sound, AloneInv, [Next]_vars PROVE AloneInv'
<1> SUFFICES ASSUME NEW p \in Server, Alone(p)'
             PROVE  SyncedSoFar(p)'
  BY DEF AloneInv
<1>1. p \in Process
  BY DEF Process
<1>2. /\ Alone(p)
      /\ \/ UNCHANGED <<namespace, agents, schedules, sync>>
         \/ Start(p) \/ Stop(p) \/ SyncStep(p)
  BY <1>1, OnlyOneSteps
<1>3. SyncedSoFar(p)
  BY <1>2 DEF AloneInv
<1> QED
  BY <1>1, <1>2, <1>3, SyncedUnchanged, SyncedStepKept

LEMMA AloneAlways == Spec => [](Sound /\ AloneInv)
<1>1. Init => Sound /\ AloneInv
  BY InitSound, AloneInit
<1>2. Sound /\ AloneInv /\ [Next]_vars => (Sound /\ AloneInv)'
  BY NextSound, AloneNext
<1> QED
  BY <1>1, <1>2, PTL DEF Spec

LEMMA FaithfulWhenDone ==
  ASSUME Sound, AloneInv PROVE SyncFaithful
<1> SUFFICES ASSUME NEW p \in Server, Alone(p), sync[p].phase = "done"
             PROVE  NothingPlanned(sync[p].specs)
  BY DEF SyncFaithful
<1>1. p \in Process /\ Running(p)
  BY DEF Process, Running
<1>2. /\ sync[p].todo = {}
      /\ sync[p].specs # NoSpecs => namespace
  BY <1>1 DEF Sound, ProcessesSound, ProcessSound
<1>3. /\ \A a \in DOMAIN sync[p].specs : AgentSynced(a, sync[p].specs[a])
      /\ Unwanted(p) = {}
  BY <1>1, <1>2 DEF AloneInv, SyncedSoFar
<1>4. ASSUME NEW a \in Agent \ DOMAIN sync[p].specs
      PROVE  agents[a] = Absent /\ ScheduleRows(a) = {}
  <2>1. ~agents[a].exists
    BY <1>3 DEF Unwanted
  <2>2. agents[a] = Absent
    BY <2>1, RowTypes, TablesTyped
  <2>3. ScheduleRows(a) = {}
    BY <2>1, TablesTyped DEF SchedulesSound, ScheduleRows
  <2> QED
    BY <2>2, <2>3
<1> QED
  BY <1>2, <1>3, <1>4 DEF NothingPlanned

\* A server that has been alone on its database runs, once it has synced, on
\* exactly what its config root says, however many of its starts were cut short
\* before and whatever the root said then (SyncSpecs in specs.go, with the
\* PutAgent and reconcileAgentSchedules of store/reconcile.go).
THEOREM AloneIsFaithful == Spec => []SyncFaithful
  BY AloneAlways, FaithfulWhenDone, PTL

-----------------------------------------------------------------------------
(* A server that is alone is never refused.                                *)

\* The ids of entries of one agent's spec are free once its schedules are
\* deleted, since no other agent has them.
LEMMA ClearedIsFree ==
  ASSUME Sound, IdsStay, NEW c \in Agent, schedules' = WithoutAgent(c),
         NEW s \in Schedule, Owns(c, s)
  PROVE  ~schedules'[s].exists
<1>1. schedules'[s].exists =>
        schedules'[s] = schedules[s] /\ schedules[s].exists /\ schedules[s].agent # c
  BY SchedulesCleared, TablesTyped
<1>2. schedules[s].exists =>
        schedules[s].agent \in Agent /\ Owns(schedules[s].agent, s)
  BY ScheduleTypes, TablesTyped DEF SchedulesSound
<1> QED
  BY <1>1, <1>2 DEF IdsStay

\* An id of one entry does not come again among the rest.
LEMMA RestIsDistinct ==
  ASSUME NEW left \in Seq(ScheduleEntry), left # <<>>,
         IsInjective(SchedulesOf([schedules |-> left]))
  PROVE  /\ IsInjective(SchedulesOf([schedules |-> Tail(left)]))
         /\ \A e \in ToSet(Tail(left)) : e.id # Head(left).id
<1> DEFINE tail == Tail(left)
<1>1. /\ tail \in Seq(ScheduleEntry)
      /\ \A i \in DOMAIN tail : i \in Nat \ {0} /\ i + 1 \in DOMAIN left /\ tail[i] = left[i + 1]
      /\ 1 \in DOMAIN left /\ Head(left) = left[1]
  BY HeadAndTail
<1>2. \A i, j \in DOMAIN left : left[i].id = left[j].id => i = j
  BY DEF IsInjective, SchedulesOf
<1> HIDE DEF tail
<1>3. \A i, j \in DOMAIN tail : tail[i].id = tail[j].id => i = j
  BY <1>1, <1>2
<1>4. IsInjective(SchedulesOf([schedules |-> tail]))
  BY <1>3 DEF IsInjective, SchedulesOf
<1>5. \A e \in ToSet(tail) : e.id # Head(left).id
  BY <1>1, <1>2 DEF ToSet
<1> QED
  BY <1>4, <1>5 DEF tail

LEMMA NothingLeft ==
  ASSUME NEW p, sync[p].left = <<>> PROVE LeftIsFree(p)
<1>1. ToSet(sync[p].left) = {} /\ DOMAIN sync[p].left = {}
  BY DEF ToSet
<1> QED
  BY <1>1 DEF LeftIsFree, IsInjective, SchedulesOf

LEMMA NothingLeftNext ==
  ASSUME NEW p, sync'[p].left = <<>> PROVE LeftIsFree(p)'
<1>1. ToSet(sync'[p].left) = {} /\ DOMAIN sync'[p].left = {}
  BY DEF ToSet
<1> QED
  BY <1>1 DEF LeftIsFree, IsInjective, SchedulesOf

LEMMA FreePutNamespace ==
  ASSUME Sound, NEW p \in Process, SyncedSoFar(p), GetNamespace(p) \/ CreateNamespace(p)
  PROVE  sync'[p].left = <<>> /\ sync'[p].phase # "failed"
<1>1. sync[p].left = <<>>
  BY DEF Sound, ProcessesSound, ProcessSound, GetNamespace, CreateNamespace
<1>2. CASE GetNamespace(p)
  BY <1>1, <1>2, GetNamespaceDoes DEF GoesTo, Becomes
<1>3. CASE CreateNamespace(p)
  <2>1. ~namespace
    BY <1>3 DEF CreateNamespace, SyncedSoFar
  <2> QED
    BY <1>1, <1>3, <2>1, CreateNamespaceDoes DEF GoesTo, Becomes
<1> QED
  BY <1>2, <1>3

LEMMA FreePutAgent ==
  ASSUME Sound, NEW p \in Process, SyncedSoFar(p),
         \/ GetAgent(p) \/ CreateAgent(p) \/ UpdateSettings(p) \/ UpdatePrompt(p)
         \/ RereadAgent(p)
  PROVE  sync'[p].left = <<>> /\ sync'[p].phase # "failed"
<1>1. sync[p].left = <<>>
  BY DEF Sound, ProcessesSound, ProcessSound, GetAgent, CreateAgent, UpdateSettings,
         UpdatePrompt, RereadAgent
<1>2. ASSUME NEW f \in {"prompt", "reread", "clear"}, GoesTo(p, f)
      PROVE  sync'[p].left = <<>> /\ sync'[p].phase # "failed"
  BY <1>1, <1>2 DEF GoesTo, Becomes
<1>3. CASE GetAgent(p)
  BY <1>1, <1>3, GetAgentDoes DEF Becomes
<1>4. CASE CreateAgent(p)
  <2>1. ~agents[Current(p)].exists
    BY <1>4 DEF CreateAgent, SyncedSoFar
  <2> QED
    BY <1>2, <1>4, <2>1, CreateAgentDoes
<1>5. CASE UpdateSettings(p)
  BY <1>2, <1>5, UpdateSettingsDoes
<1>6. CASE UpdatePrompt(p)
  <2>1. agents[Current(p)].exists
    BY <1>6, RowFields DEF UpdatePrompt, SyncedSoFar
  <2> QED
    BY <1>2, <1>6, <2>1, UpdatePromptDoes
<1>7. CASE RereadAgent(p)
  <2>1. agents[Current(p)].exists
    BY <1>7, RowFields DEF RereadAgent, SyncedSoFar, AgentRow
  <2> QED
    BY <1>2, <1>7, <2>1, RereadAgentDoes
<1> QED
  BY <1>3, <1>4, <1>5, <1>6, <1>7

LEMMA FreeSchedules ==
  ASSUME Sound, IdsStay, NEW p \in Process, SyncedSoFar(p), LeftIsFree(p),
         DeleteSchedulesByAgent(p) \/ CreateSchedule(p)
  PROVE  LeftIsFree(p)' /\ sync'[p].phase # "failed"
<1> DEFINE x == SpecOf(p)
           left == sync[p].left
           s == Head(left)
<1>1. sync[p].phase \in SpecPhase
  BY DEF DeleteSchedulesByAgent, CreateSchedule, SpecPhase, AgentPhase
<1>2. PICK c \in Agent : c = Current(p)
  BY <1>1, AtSpec DEF Sound
<1>3. /\ IsInjective(SchedulesOf(x))
      /\ \A e \in ToSet(x.schedules) : e \in ScheduleEntry /\ Owns(c, e.id)
  BY <1>1, <1>2, AtSpec DEF Sound
<1>4. ASSUME OnToNextSpec(p) PROVE LeftIsFree(p)' /\ sync'[p].phase # "failed"
  <2>1. sync'[p].left = <<>> /\ sync'[p].phase # "failed"
    BY <1>4 DEF OnToNextSpec, Becomes, AfterSpecs
  <2> QED
    BY <2>1, NothingLeftNext
<1>5. CASE DeleteSchedulesByAgent(p)
  <2>1. schedules' = WithoutAgent(c)
    BY <1>2, <1>5, DeleteSchedulesByAgentDoes
  <2>2. CASE Becomes(p, "create", sync[p].specs, sync[p].todo, sync[p].read, x.schedules)
    <3>1. sync'[p].left = x.schedules /\ sync'[p].phase = "create"
      BY <2>2 DEF Becomes
    <3>2. \A e \in ToSet(x.schedules) : ~schedules'[e.id].exists
      BY <1>3, <2>1, ClearedIsFree DEF ScheduleEntry
    <3>3. SchedulesOf([schedules |-> x.schedules]) = SchedulesOf(x)
      BY DEF SchedulesOf
    <3> HIDE DEF x
    <3> QED
      BY <1>3, <3>1, <3>2, <3>3 DEF LeftIsFree
  <2> QED
    BY <1>4, <1>5, <2>2, DeleteSchedulesByAgentDoes
<1>6. CASE CreateSchedule(p)
  <2>1. left \in Seq(ScheduleEntry) /\ left # <<>>
    BY <1>6 DEF Sound, ProcessesSound, ProcessSound, SyncRow, CreateSchedule
  <2>2. /\ s \in ToSet(left) /\ s \in ScheduleEntry
        /\ ToSet(Tail(left)) \subseteq ToSet(left)
        /\ Tail(left) \in Seq(ScheduleEntry)
    BY <2>1, HeadAndTail
  <2>3. ~schedules[s.id].exists
    BY <2>2 DEF LeftIsFree
  <2>4. agents[Current(p)].exists
    BY <1>6, RowFields DEF CreateSchedule, SyncedSoFar, AgentRow
  <2>5. schedules' = [schedules EXCEPT ![s.id] = ScheduleRow(c, s.def)]
    BY <1>2, <1>6, <2>3, <2>4, CreateScheduleDoes
  <2>6. CASE Becomes(p, "create", sync[p].specs, sync[p].todo, sync[p].read, Tail(left))
    <3>1. sync'[p].left = Tail(left) /\ sync'[p].phase = "create"
      BY <2>6 DEF Becomes
    <3>2. /\ IsInjective(SchedulesOf([schedules |-> Tail(left)]))
          /\ \A e \in ToSet(Tail(left)) : e.id # s.id
      BY <2>1, RestIsDistinct DEF LeftIsFree
    <3>3. ASSUME NEW e \in ToSet(Tail(left)) PROVE ~schedules'[e.id].exists
      <4>1. e \in ScheduleEntry
        <5>1. PICK i \in DOMAIN Tail(left) : e = Tail(left)[i]
          BY DEF ToSet
        <5> QED
          BY <2>2, <5>1
      <4>2. e.id \in Schedule /\ ~schedules[e.id].exists
        BY <2>2, <4>1 DEF LeftIsFree, ScheduleEntry
      <4>3. schedules'[e.id] = schedules[e.id]
        BY <2>2, <2>3, <2>5, <3>2, <4>2, ScheduleAdded, TablesTyped
      <4> QED
        BY <4>2, <4>3
    <3> HIDE DEF left, s
    <3> QED
      BY <3>1, <3>2, <3>3 DEF LeftIsFree
  <2> QED
    BY <1>4, <1>6, <2>3, <2>4, <2>6, CreateScheduleDoes
<1> QED
  BY <1>5, <1>6

LEMMA FreePrune ==
  ASSUME Sound, NEW p \in Process, ListAgents(p) \/ DeleteAgent(p) \/ Start(p) \/ Stop(p)
  PROVE  sync'[p].left = <<>> /\ sync'[p].phase # "failed"
<1>1. CASE ListAgents(p)
  <2>1. sync[p].left = <<>>
    BY <1>1 DEF Sound, ProcessesSound, ProcessSound, ListAgents
  <2> QED
    BY <1>1, <2>1, ListAgentsDoes DEF Becomes
<1>2. CASE DeleteAgent(p)
  <2>1. sync[p].left = <<>>
    BY <1>2 DEF Sound, ProcessesSound, ProcessSound, DeleteAgent
  <2> QED
    BY <1>2, <2>1, DeleteAgentDoes DEF Becomes
<1>3. CASE Start(p)
  BY <1>3, StartDoes DEF Becomes, AfterSpecs
<1>4. CASE Stop(p)
  BY <1>4, StopDoes DEF Becomes
<1> QED
  BY <1>1, <1>2, <1>3, <1>4

LEMMA FreeInit ==
  ASSUME Init PROVE FreeInv
<1>1. ASSUME NEW p \in Server PROVE LeftIsFree(p) /\ sync[p].phase # "failed"
  <2>1. sync[p].left = <<>> /\ sync[p].phase = "off"
    BY IdleRow, PhaseNames DEF Init, Process
  <2> QED
    BY <2>1, NothingLeft
<1> QED
  BY <1>1 DEF FreeInv

LEMMA FreeNext ==
  ASSUME Sound, AloneInv, FreeInv, IdsStay, [Next]_vars PROVE FreeInv'
<1> SUFFICES ASSUME NEW p \in Server, Alone(p)'
             PROVE  LeftIsFree(p)' /\ sync'[p].phase # "failed"
  BY DEF FreeInv
<1>1. p \in Process
  BY DEF Process
<1>2. /\ Alone(p)
      /\ \/ UNCHANGED <<namespace, agents, schedules, sync>>
         \/ Start(p) \/ Stop(p) \/ SyncStep(p)
  BY <1>1, OnlyOneSteps
<1>3. SyncedSoFar(p) /\ LeftIsFree(p) /\ sync[p].phase # "failed"
  BY <1>2 DEF AloneInv, FreeInv
<1>4. CASE UNCHANGED <<namespace, agents, schedules, sync>>
  BY <1>3, <1>4 DEF LeftIsFree
<1>5. CASE Start(p) \/ Stop(p) \/ SyncStep(p)
  <2>1. \/ DeleteSchedulesByAgent(p) \/ CreateSchedule(p)
        \/ sync'[p].left = <<>> /\ sync'[p].phase # "failed"
    BY <1>1, <1>3, <1>5, FreePutNamespace, FreePutAgent, FreePrune DEF SyncStep
  <2> QED
    BY <1>1, <1>3, <2>1, FreeSchedules, NothingLeftNext
<1> QED
  BY <1>2, <1>4, <1>5

\* A server that has been alone on its database is moreover never refused by
\* what an earlier sync has left there, cut short or not, unless the config root
\* once gave an agent the id of another one's schedule: then the row of the old
\* agent may still hold the id, since each agent's schedules are put before the
\* agents without a spec are pruned (SyncSpecs in specs.go).
THEOREM AloneIsSynced == ASSUME IdsStay PROVE Spec => []SyncsAlone
<1>1. Init => Sound /\ AloneInv /\ FreeInv
  BY InitSound, AloneInit, FreeInit
<1>2. Sound /\ AloneInv /\ FreeInv /\ [Next]_vars => (Sound /\ AloneInv /\ FreeInv)'
  BY NextSound, AloneNext, FreeNext, IdsStay
<1>3. Sound /\ AloneInv /\ FreeInv => SyncsAlone
  <2>1. FreeInv => NeverRefused
    BY DEF FreeInv, NeverRefused
  <2> QED
    BY <2>1, FaithfulWhenDone DEF Sound, SyncsAlone
<1> QED
  BY <1>1, <1>2, <1>3, PTL DEF Spec

-----------------------------------------------------------------------------
(* One-shot runs.                                                          *)

\* What a one-shot process writes is the agent it is at, one of its specs.
LEMMA OneShotWrites ==
  ASSUME Sound, NEW p \in OneShot, SyncStep(p),
         NEW a \in Agent \ DOMAIN sync[p].specs
  PROVE  agents'[a] = agents[a] /\ ScheduleRows(a)' = ScheduleRows(a)
<1>1. p \in Process /\ p \notin Server
  BY SpecSyncAssumption DEF Process
<1>2. sync[p].phase \notin {"list", "delete"}
  BY <1>1 DEF Sound, ProcessesSound, ProcessSound
<1>3. sync[p].phase \in SpecPhase
  BY <1>2 DEF SyncStep, GetNamespace, CreateNamespace, GetAgent, CreateAgent,
              UpdateSettings, UpdatePrompt, RereadAgent, DeleteSchedulesByAgent,
              CreateSchedule, ListAgents, DeleteAgent, SpecPhase, AgentPhase
<1>4. PICK c \in Agent : c = Current(p) /\ a # c
  BY <1>1, <1>3, AtSpec DEF Sound
<1>5. UNCHANGED schedules => ScheduleRows(a)' = ScheduleRows(a)
  BY DEF ScheduleRows
<1>6. CASE GetNamespace(p) \/ CreateNamespace(p) \/ GetAgent(p) \/ RereadAgent(p)
  BY <1>5, <1>6 DEF GetNamespace, CreateNamespace, GetAgent, RereadAgent
<1>7. CASE CreateAgent(p)
  <2>1. agents'[a] = agents[a]
    BY <1>1, <1>4, <1>7, CreateAgentDoes DEF AgentBecomes
  <2> QED
    BY <1>5, <1>7, <2>1 DEF CreateAgent
<1>8. CASE UpdateSettings(p)
  <2>1. agents'[a] = agents[a]
    BY <1>1, <1>4, <1>8, UpdateSettingsDoes DEF AgentBecomes
  <2> QED
    BY <1>5, <1>8, <2>1 DEF UpdateSettings
<1>9. CASE UpdatePrompt(p)
  <2>1. agents'[a] = agents[a]
    BY <1>1, <1>4, <1>9, UpdatePromptDoes DEF AgentBecomes
  <2> QED
    BY <1>5, <1>9, <2>1 DEF UpdatePrompt
<1>10. CASE DeleteSchedulesByAgent(p)
  <2>1. schedules' = WithoutAgent(c)
    BY <1>1, <1>4, <1>10, DeleteSchedulesByAgentDoes
  <2>2. ScheduleRows(a)' = ScheduleRows(a)
    BY <1>4, <2>1, SchedulesCleared, TablesTyped
  <2> QED
    BY <1>10, <2>2 DEF DeleteSchedulesByAgent
<1>11. CASE CreateSchedule(p)
  <2> DEFINE s == Head(sync[p].left)
  <2>1. sync[p].left \in Seq(ScheduleEntry) /\ sync[p].left # <<>>
        /\ ToSet(sync[p].left) \subseteq ToSet(SpecOf(p).schedules)
    BY <1>1, <1>11 DEF Sound, ProcessesSound, ProcessSound, SyncRow, CreateSchedule
  <2>2. s \in ScheduleEntry
    BY <2>1, HeadAndTail
  <2> HIDE DEF s
  <2>3. \/ UNCHANGED schedules
        \/ /\ ~schedules[s.id].exists
           /\ schedules' = [schedules EXCEPT ![s.id] = ScheduleRow(c, s.def)]
    BY <1>1, <1>4, <1>11, CreateScheduleDoes DEF s
  <2>4. ScheduleRows(a)' = ScheduleRows(a)
    BY <1>4, <1>5, <2>2, <2>3, ScheduleAdded, TablesTyped
  <2> QED
    BY <1>11, <2>4 DEF CreateSchedule
<1> QED
  BY <1>2, <1>6, <1>7, <1>8, <1>9, <1>10, <1>11 DEF SyncStep, ListAgents, DeleteAgent

\* A process does nothing to what another one is at.
LEMMA StepsAreOwn ==
  ASSUME Sound, NEW q \in Process, Start(q) \/ Stop(q) \/ SyncStep(q),
         NEW p \in Process, p # q
  PROVE  sync'[p] = sync[p]
<1>1. CASE Start(q) \/ Stop(q)
  BY <1>1, StartDoes, StopDoes DEF Becomes
<1>2. CASE GetNamespace(q) \/ CreateNamespace(q)
  BY <1>2, GetNamespaceDoes, CreateNamespaceDoes DEF GoesTo, Refused, Becomes
<1>3. CASE GetAgent(q) \/ CreateAgent(q) \/ UpdateSettings(q)
  BY <1>3, GetAgentDoes, CreateAgentDoes, UpdateSettingsDoes
     DEF GoesTo, Refused, Becomes
<1>4. CASE UpdatePrompt(q) \/ RereadAgent(q)
  BY <1>4, UpdatePromptDoes, RereadAgentDoes DEF GoesTo, Refused, Becomes
<1>5. CASE DeleteSchedulesByAgent(q) \/ CreateSchedule(q)
  BY <1>5, DeleteSchedulesByAgentDoes, CreateScheduleDoes
     DEF OnToNextSpec, Refused, Becomes
<1>6. CASE ListAgents(q) \/ DeleteAgent(q)
  BY <1>6, ListAgentsDoes, DeleteAgentDoes DEF Becomes
<1> QED
  BY <1>1, <1>2, <1>3, <1>4, <1>5, <1>6 DEF SyncStep

LEMMA OthersUntouchedStep ==
  ASSUME Sound, [Next]_vars, NEW p \in OneShot, Running(p), sync'[p] # sync[p],
         NEW a \in Agent \ DOMAIN sync[p].specs
  PROVE  agents'[a] = agents[a] /\ ScheduleRows(a)' = ScheduleRows(a)
<1>1. p \in Process
  BY DEF Process
<1>2. ~UNCHANGED vars /\ ~EditFiles
  BY DEF vars, EditFiles
<1>3. ASSUME NEW q \in Process, Start(q) \/ Stop(q) \/ SyncStep(q)
      PROVE  q = p
  BY <1>1, <1>3, StepsAreOwn
<1>4. Start(p) \/ Stop(p) \/ SyncStep(p)
  BY <1>2, <1>3 DEF Next
<1>5. CASE Stop(p)
  BY <1>5 DEF Stop, ScheduleRows
<1> QED
  BY <1>4, <1>5, OneShotWrites DEF Start

\* "Use this for one-shot runs that must not prune a shared SQLite database"
\* (UpsertSpecs in specs.go): whatever else goes on, no step of a one-shot run
\* changes the row or the schedules of an agent that it has no spec of.
THEOREM OneShotsKeepOff == Spec => OthersUntouched
<1>1. Sound /\ [Next]_vars =>
        [\A p \in OneShot :
           Running(p) /\ sync'[p] # sync[p] =>
             \A a \in Agent \ DOMAIN sync[p].specs :
               agents'[a] = agents[a] /\ ScheduleRows(a)' = ScheduleRows(a)]_vars
  BY OthersUntouchedStep
<1> QED
  BY <1>1, SoundAlways, PTL DEF Spec, OthersUntouched

-----------------------------------------------------------------------------
(* Processes that have loaded the same spec of an agent.                   *)

\* A step brings agent a no further from x.
Toward(a, x) ==
  /\ agents[a].exists =>
       /\ agents'[a].exists
       /\ agents[a].settings = x.settings => agents'[a].settings = x.settings
       /\ agents[a].prompt = x.prompt => agents'[a].prompt = x.prompt
  /\ agents[a] = AgentRow(x) => agents'[a] = AgentRow(x)

LEMMA AtAgreed ==
  ASSUME Sound, NEW a \in Agent, NEW x \in AllSpecs, Agreed(a, x),
         NEW q \in Process, sync[q].phase \in SpecPhase, Current(q) = a
  PROVE  SpecOf(q) = x /\ a \in sync[q].todo
  BY AtSpec DEF Sound, Agreed

\* No process deletes the agent.
LEMMA AgreedIsKept ==
  ASSUME Sound, NEW a \in Agent, NEW x \in AllSpecs, Agreed(a, x),
         NEW q \in Process, sync[q].phase = "delete"
  PROVE  Current(q) # a /\ a \notin sync[q].todo
<1>1. a \in DOMAIN sync[q].specs
  BY DEF Agreed
<1>2. Current(q) \notin DOMAIN sync[q].specs
  BY AtUnwanted DEF Sound
<1>3. sync[q].todo \cap DOMAIN sync[q].specs = {}
  BY DEF Sound, ProcessesSound, ProcessSound
<1> QED
  BY <1>1, <1>2, <1>3

LEMMA AgentTurns ==
  ASSUME Sound, NEW a \in Agent, NEW x \in AllSpecs, Agreed(a, x),
         NEW q \in Process, SyncStep(q)
  PROVE  Toward(a, x)
<1>1. agents[a] \in Rows
  BY TablesTyped
<1>2. ASSUME agents'[a] = agents[a] PROVE Toward(a, x)
  BY <1>2 DEF Toward
<1>3. CASE \/ GetNamespace(q) \/ CreateNamespace(q) \/ GetAgent(q) \/ RereadAgent(q)
           \/ DeleteSchedulesByAgent(q) \/ CreateSchedule(q) \/ ListAgents(q)
  BY <1>2, <1>3 DEF GetNamespace, CreateNamespace, GetAgent, RereadAgent,
                    DeleteSchedulesByAgent, CreateSchedule, ListAgents
<1>4. CASE CreateAgent(q)
  <2>1. sync[q].phase \in SpecPhase
    BY <1>4 DEF CreateAgent, SpecPhase, AgentPhase
  <2>2. CASE Current(q) = a
    <3>1. SpecOf(q) = x
      BY <2>1, <2>2, AtAgreed
    <3>2. agents'[a] = agents[a] \/ (~agents[a].exists /\ agents'[a] = AgentRow(x))
      BY <1>4, <2>2, <3>1, CreateAgentDoes DEF AgentBecomes
    <3> QED
      BY <1>2, <3>2 DEF Toward
  <2>3. CASE Current(q) # a
    BY <1>2, <1>4, <2>3, CreateAgentDoes DEF AgentBecomes
  <2> QED
    BY <2>2, <2>3
<1>5. CASE UpdateSettings(q)
  <2>1. sync[q].phase \in SpecPhase
    BY <1>5 DEF UpdateSettings, SpecPhase, AgentPhase
  <2>2. CASE Current(q) = a
    <3>1. SpecOf(q) = x
      BY <2>1, <2>2, AtAgreed
    <3>2. agents'[a] = agents[a] \/ agents'[a] = Row(x.settings, agents[a].prompt)
      BY <1>5, <2>2, <3>1, UpdateSettingsDoes DEF AgentBecomes
    <3> QED
      BY <1>2, <3>2, RowFields DEF Toward, AgentRow
  <2>3. CASE Current(q) # a
    BY <1>2, <1>5, <2>3, UpdateSettingsDoes DEF AgentBecomes
  <2> QED
    BY <2>2, <2>3
<1>6. CASE UpdatePrompt(q)
  <2>1. sync[q].phase \in SpecPhase
    BY <1>6 DEF UpdatePrompt, SpecPhase, AgentPhase
  <2>2. CASE Current(q) = a
    <3>1. SpecOf(q) = x
      BY <2>1, <2>2, AtAgreed
    <3>2. agents'[a] = agents[a] \/ agents'[a] = Row(agents[a].settings, x.prompt)
      BY <1>6, <2>2, <3>1, UpdatePromptDoes DEF AgentBecomes
    <3> QED
      BY <1>2, <3>2, RowFields DEF Toward, AgentRow
  <2>3. CASE Current(q) # a
    BY <1>2, <1>6, <2>3, UpdatePromptDoes DEF AgentBecomes
  <2> QED
    BY <2>2, <2>3
<1>7. CASE DeleteAgent(q)
  <2>1. Current(q) # a
    BY <1>7, AgreedIsKept DEF DeleteAgent
  <2> QED
    BY <1>2, <1>7, <2>1, DeleteAgentDoes DEF AgentBecomes
<1> QED
  BY <1>3, <1>4, <1>5, <1>6, <1>7 DEF SyncStep

LEMMA OthersAt ==
  ASSUME NEW r, sync'[r] = sync[r], NEW a, NEW phases
  PROVE  /\ At(r, a, phases)' <=> At(r, a, phases)
         /\ Reached(r, a, phases)' <=> Reached(r, a, phases)
  BY DEF At, Reached, Current

LEMMA StaysCovered ==
  ASSUME NEW a, NEW x, Covered(a, x),
         NEW q \in Process, \A r \in Process \ {q} : sync'[r] = sync[r],
         ScheduleRows(a)' \subseteq ToSet(x.schedules),
         ScheduleRows(a) \subseteq ScheduleRows(a)',
         \A e \in ToSet(sync[q].left) :
           At(q, a, {"create"}) =>
             \/ e \in ScheduleRows(a)'
             \/ At(q, a, {"create"})' /\ e \in ToSet(sync'[q].left)
  PROVE  Covered(a, x)'
<1>1. ASSUME NEW e \in ToSet(x.schedules) \ ScheduleRows(a)'
      PROVE  \E r \in Process : At(r, a, {"create"})' /\ e \in ToSet(sync'[r].left)
  <2>1. PICK r \in Process : At(r, a, {"create"}) /\ e \in ToSet(sync[r].left)
    BY DEF Covered
  <2>2. CASE r = q
    BY <2>1, <2>2
  <2>3. CASE r # q
    BY <2>1, <2>3, OthersAt
  <2> QED
    BY <2>2, <2>3
<1> QED
  BY <1>1 DEF Covered

LEMMA IsCoveredAgain ==
  ASSUME NEW a, NEW x, NEW q \in Process, ScheduleRows(a)' = {},
         \/ x.schedules = <<>>
         \/ At(q, a, {"create"})' /\ sync'[q].left = x.schedules
  PROVE  Covered(a, x)'
<1>1. x.schedules = <<>> => ToSet(x.schedules) = {}
  BY DEF ToSet
<1>2. \A e \in ToSet(x.schedules) :
        \E r \in Process : At(r, a, {"create"})' /\ e \in ToSet(sync'[r].left)
  BY <1>1
<1> QED
  BY <1>2 DEF Covered

LEMMA ClearCovers ==
  ASSUME Sound, NEW a \in Agent, NEW x \in AllSpecs, Agreed(a, x),
         NEW q \in Process, DeleteSchedulesByAgent(q), Current(q) = a
  PROVE  Covered(a, x)'
<1>1. sync[q].phase \in SpecPhase
  BY DEF DeleteSchedulesByAgent, SpecPhase, AgentPhase
<1>2. SpecOf(q) = x /\ a \in sync[q].todo
  BY <1>1, AtAgreed
<1>3. schedules' = WithoutAgent(a)
  BY DeleteSchedulesByAgentDoes
<1>4. ScheduleRows(a)' = {}
  BY <1>3, SchedulesCleared, TablesTyped
<1>5. CASE x.schedules = <<>>
  BY <1>4, <1>5, IsCoveredAgain
<1>6. CASE x.schedules # <<>>
  <2>1. Becomes(q, "create", sync[q].specs, sync[q].todo, sync[q].read, x.schedules)
    BY <1>2, <1>6, DeleteSchedulesByAgentDoes
  <2>2. At(q, a, {"create"})' /\ sync'[q].left = x.schedules
    BY <1>2, <2>1 DEF Becomes, At, Current
  <2> QED
    BY <1>4, <2>2, IsCoveredAgain
<1> QED
  BY <1>5, <1>6

LEMMA CreateCovers ==
  ASSUME Sound, NEW a \in Agent, NEW x \in AllSpecs, Agreed(a, x), Agreed(a, x)',
         NEW q \in Process, CreateSchedule(q), Current(q) = a, Covered(a, x)
  PROVE  Covered(a, x)'
<1> DEFINE left == sync[q].left
           s == Head(left)
<1>1. sync[q].phase = "create" /\ sync[q].phase \in SpecPhase
  BY DEF CreateSchedule, SpecPhase, AgentPhase
<1>2. SpecOf(q) = x /\ a \in sync[q].todo
  BY <1>1, AtAgreed
<1>3. left \in Seq(ScheduleEntry) /\ left # <<>> /\ ToSet(left) \subseteq ToSet(x.schedules)
  BY <1>1, <1>2 DEF Sound, ProcessesSound, ProcessSound, SyncRow
<1>4. s \in ScheduleEntry /\ s \in ToSet(left) /\ ToSet(left) = {s} \cup ToSet(Tail(left))
  BY <1>3, HeadAndTail
<1>5. ~Refused(q)
  BY DEF Refused, Becomes, Agreed, Running
<1>6. /\ ~schedules[s.id].exists
      /\ schedules' = [schedules EXCEPT ![s.id] = ScheduleRow(a, s.def)]
      /\ \/ Tail(left) = <<>>
         \/ Becomes(q, "create", sync[q].specs, sync[q].todo, sync[q].read, Tail(left))
  BY <1>5, CreateScheduleDoes
<1>7. \A r \in Process \ {q} : sync'[r] = sync[r]
  BY StepsAreOwn DEF SyncStep
<1> HIDE DEF s, left
<1>8. ScheduleRows(a)' = ScheduleRows(a) \cup {s}
  BY <1>4, <1>6, ScheduleAdded, TablesTyped
<1>9. Tail(left) = <<>> => ToSet(Tail(left)) = {}
  BY DEF ToSet
<1>10. Becomes(q, "create", sync[q].specs, sync[q].todo, sync[q].read, Tail(left)) =>
         At(q, a, {"create"})' /\ sync'[q].left = Tail(left)
  BY <1>2 DEF Becomes, At, Current
<1>11. \A e \in ToSet(left) :
         \/ e \in ScheduleRows(a)'
         \/ At(q, a, {"create"})' /\ e \in ToSet(sync'[q].left)
  BY <1>4, <1>6, <1>8, <1>9, <1>10
<1>12. ScheduleRows(a) \subseteq ToSet(x.schedules)
  BY DEF Covered
<1> QED
  BY <1>3, <1>4, <1>7, <1>8, <1>11, <1>12, StaysCovered DEF left

LEMMA CoveredKept ==
  ASSUME Sound, NEW a \in Agent, NEW x \in AllSpecs, Agreed(a, x), Agreed(a, x)',
         NEW q \in Process, SyncStep(q), Covered(a, x)
  PROVE  Covered(a, x)'
<1>1. \A r \in Process \ {q} : sync'[r] = sync[r]
  BY StepsAreOwn
<1>2. ASSUME ScheduleRows(a)' = ScheduleRows(a), ~At(q, a, {"create"})
      PROVE  Covered(a, x)'
  <2>1. ScheduleRows(a) \subseteq ToSet(x.schedules)
    BY DEF Covered
  <2> QED
    BY <1>1, <1>2, <2>1, StaysCovered
<1>3. CASE \/ GetNamespace(q) \/ CreateNamespace(q) \/ GetAgent(q) \/ CreateAgent(q)
           \/ UpdateSettings(q) \/ UpdatePrompt(q) \/ RereadAgent(q) \/ ListAgents(q)
  <2>1. UNCHANGED schedules /\ sync[q].phase # "create"
    BY <1>3 DEF GetNamespace, CreateNamespace, GetAgent, CreateAgent, UpdateSettings,
                UpdatePrompt, RereadAgent, ListAgents
  <2>2. ScheduleRows(a)' = ScheduleRows(a) /\ ~At(q, a, {"create"})
    BY <2>1 DEF ScheduleRows, At
  <2> QED
    BY <1>2, <2>2
<1>4. CASE DeleteSchedulesByAgent(q) \/ DeleteAgent(q)
  <2>1. CASE Current(q) = a
    <3>1. ~DeleteAgent(q)
      BY <2>1, AgreedIsKept DEF DeleteAgent
    <3> QED
      BY <1>4, <2>1, <3>1, ClearCovers
  <2>2. CASE Current(q) # a
    <3>1. PICK c \in Agent : c = Current(q)
      BY <1>4, AtSpec, AtUnwanted
         DEF Sound, DeleteSchedulesByAgent, DeleteAgent, SpecPhase, AgentPhase
    <3>2. schedules' = WithoutAgent(c)
      BY <1>4, <3>1, DeleteSchedulesByAgentDoes, DeleteAgentDoes
    <3>3. ScheduleRows(a)' = ScheduleRows(a)
      BY <2>2, <3>1, <3>2, SchedulesCleared, TablesTyped
    <3>4. ~At(q, a, {"create"})
      BY <2>2 DEF At
    <3> QED
      BY <1>2, <3>3, <3>4
  <2> QED
    BY <2>1, <2>2
<1>5. CASE CreateSchedule(q)
  <2>1. CASE Current(q) = a
    BY <1>5, <2>1, CreateCovers
  <2>2. CASE Current(q) # a
    <3> DEFINE s == Head(sync[q].left)
    <3>1. PICK c \in Agent : c = Current(q)
      BY <1>5, AtSpec DEF Sound, CreateSchedule, SpecPhase, AgentPhase
    <3>2. sync[q].left \in Seq(ScheduleEntry) /\ sync[q].left # <<>>
      BY <1>5 DEF Sound, ProcessesSound, ProcessSound, SyncRow, CreateSchedule
    <3>3. s \in ScheduleEntry
      BY <3>2, HeadAndTail
    <3> HIDE DEF s
    <3>4. \/ UNCHANGED schedules
          \/ /\ ~schedules[s.id].exists
             /\ schedules' = [schedules EXCEPT ![s.id] = ScheduleRow(c, s.def)]
      BY <1>5, <3>1, CreateScheduleDoes DEF s
    <3>5. UNCHANGED schedules => ScheduleRows(a)' = ScheduleRows(a)
      BY DEF ScheduleRows
    <3>6. ScheduleRows(a)' = ScheduleRows(a)
      BY <2>2, <3>1, <3>3, <3>4, <3>5, ScheduleAdded, TablesTyped
    <3>7. ~At(q, a, {"create"})
      BY <2>2 DEF At
    <3> QED
      BY <1>2, <3>6, <3>7
  <2> QED
    BY <2>1, <2>2
<1> QED
  BY <1>3, <1>4, <1>5 DEF SyncStep

\* While a process is at no step with agent a, others bring it no further from x.
LEMMA LedElsewhere ==
  ASSUME NEW a \in Agent, NEW x, NEW p, LedBy(p, a, x),
         Toward(a, x), Covered(a, x) => Covered(a, x)',
         ~At(p, a, {"put", "prompt", "reread", "clear", "create"})',
         a \notin sync'[p].todo => a \notin sync[p].todo
  PROVE  LedBy(p, a, x)'
<1>1. /\ ~At(p, a, {"put", "prompt"})' /\ ~At(p, a, {"prompt"})'
      /\ Reached(p, a, {"reread", "clear", "create"})' => a \notin sync'[p].todo
      /\ Reached(p, a, {"create"})' => a \notin sync'[p].todo
  BY DEF At, Reached
<1>2. a \notin sync[p].todo => agents[a] = AgentRow(x) /\ Covered(a, x)
  BY DEF LedBy, Reached
<1>3. a \notin sync'[p].todo => agents'[a] = AgentRow(x) /\ Covered(a, x)'
  BY <1>2 DEF Toward
<1> QED
  BY <1>1, <1>3 DEF LedBy

LEMMA LedByAnother ==
  ASSUME Sound, NEW a \in Agent, NEW x, NEW p \in Process, LedBy(p, a, x),
         sync'[p] = sync[p], Toward(a, x), Covered(a, x) => Covered(a, x)'
  PROVE  LedBy(p, a, x)'
<1>1. \A phases : /\ At(p, a, phases)' <=> At(p, a, phases)
                  /\ Reached(p, a, phases)' <=> Reached(p, a, phases)
  BY OthersAt
<1>2. At(p, a, {"prompt"}) => At(p, a, {"put", "prompt"}) /\ sync[p].read.exists
  BY DEF At, Sound, ProcessesSound, ProcessSound
<1>3. At(p, a, {"put", "prompt"}) /\ sync[p].read.exists =>
        /\ agents'[a].exists
        /\ sync[p].read.settings = x.settings => agents'[a].settings = x.settings
        /\ sync[p].read.prompt = x.prompt => agents'[a].prompt = x.prompt
  BY DEF LedBy, Toward
<1>4. At(p, a, {"prompt"}) => agents'[a].settings = x.settings
  BY <1>2 DEF LedBy, Toward
<1>5. Reached(p, a, {"reread", "clear", "create"}) => agents'[a] = AgentRow(x)
  BY DEF LedBy, Toward
<1>6. Reached(p, a, {"create"}) => Covered(a, x)'
  BY DEF LedBy
<1> QED
  BY <1>1, <1>3, <1>4, <1>5, <1>6 DEF LedBy

LEMMA OnwardsFromAnother ==
  ASSUME NEW p \in Process, OnToNextSpec(p), NEW a
  PROVE  /\ ~At(p, a, {"put", "prompt", "reread", "clear", "create"})'
         /\ sync'[p].todo = sync[p].todo \ {Current(p)}
         /\ \A phases : "get" \notin phases /\ "list" \notin phases /\ "done" \notin phases =>
              (Reached(p, a, phases)' <=> a \notin sync'[p].todo)
<1>1. sync'[p].phase \in {"get", "list", "done"}
  BY DEF OnToNextSpec, Becomes, AfterSpecs
<1> QED
  BY <1>1 DEF OnToNextSpec, Becomes, At, Reached

\* A process's own step at another agent.
LEMMA LedAtAnother ==
  ASSUME Sound, NEW a \in Agent, NEW x \in AllSpecs, Agreed(a, x), Agreed(a, x)',
         NEW p \in Process, SyncStep(p), LedBy(p, a, x),
         \/ Current(p) # a
         \/ sync[p].phase \in {"namespace", "create_namespace", "list", "delete"}
  PROVE  LedBy(p, a, x)'
<1>1. Toward(a, x) /\ (Covered(a, x) => Covered(a, x)')
  BY AgentTurns, CoveredKept
<1>2. ~Refused(p)
  BY DEF Refused, Becomes, Agreed, Running
<1>3. SUFFICES /\ ~At(p, a, {"put", "prompt", "reread", "clear", "create"})'
               /\ a \notin sync'[p].todo => a \notin sync[p].todo
  BY <1>1, LedElsewhere
<1>4. CASE GetNamespace(p) \/ CreateNamespace(p)
  <2>1. /\ sync'[p].phase \in {"get", "create_namespace"}
        /\ sync'[p].todo = sync[p].todo
    BY <1>2, <1>4, GetNamespaceDoes, CreateNamespaceDoes DEF GoesTo, Becomes
  <2> QED
    BY <2>1 DEF At
<1>5. CASE /\ GetAgent(p) \/ CreateAgent(p) \/ UpdateSettings(p) \/ UpdatePrompt(p) \/ RereadAgent(p)
  <2>1. Current(p) # a
    BY <1>5 DEF GetAgent, CreateAgent, UpdateSettings, UpdatePrompt, RereadAgent
  <2>2. sync'[p].todo = sync[p].todo
    BY <1>2, <1>5, GetAgentDoes, CreateAgentDoes, UpdateSettingsDoes, UpdatePromptDoes,
       RereadAgentDoes DEF GoesTo, Becomes
  <2> QED
    BY <2>1, <2>2 DEF At, Current
<1>6. CASE DeleteSchedulesByAgent(p) \/ CreateSchedule(p)
  <2>1. Current(p) # a
    BY <1>6 DEF DeleteSchedulesByAgent, CreateSchedule
  <2>2. sync'[p].todo = sync[p].todo \/ OnToNextSpec(p)
    BY <1>2, <1>6, DeleteSchedulesByAgentDoes, CreateScheduleDoes DEF Becomes
  <2>3. CASE sync'[p].todo = sync[p].todo
    BY <2>1, <2>3 DEF At, Current
  <2>4. CASE OnToNextSpec(p)
    BY <2>1, <2>4, OnwardsFromAnother
  <2> QED
    BY <2>2, <2>3, <2>4
<1>7. CASE ListAgents(p) \/ DeleteAgent(p)
  <2>1. sync'[p].phase \in {"delete", "done"}
    BY <1>7, ListAgentsDoes, DeleteAgentDoes DEF Becomes
  <2>2. a \notin sync[p].todo
    BY <1>7, AgreedIsKept DEF ListAgents, DeleteAgent, Sound, ProcessesSound, ProcessSound
  <2> QED
    BY <2>1, <2>2 DEF At
<1> QED
  BY <1>4, <1>5, <1>6, <1>7 DEF SyncStep

\* A process's own step at the agent.
LEMMA LedAtAgent ==
  ASSUME Sound, NEW a \in Agent, NEW x \in AllSpecs, Agreed(a, x), Agreed(a, x)',
         NEW p \in Process, SyncStep(p), LedBy(p, a, x), Current(p) = a,
         sync[p].phase \in AgentPhase
  PROVE  LedBy(p, a, x)'
<1> DEFINE r == sync[p].read
<1>1. Toward(a, x) /\ (Covered(a, x) => Covered(a, x)')
  BY AgentTurns, CoveredKept
<1>2. ~Refused(p)
  BY DEF Refused, Becomes, Agreed, Running
<1>3. SpecOf(p) = x /\ a \in sync[p].todo
  BY AtAgreed DEF SpecPhase
<1>4. agents[a] \in Rows
  BY TablesTyped
<1>5. ASSUME NEW f \in {"reread", "clear"}, GoesTo(p, f), agents'[a] = AgentRow(x)
      PROVE  LedBy(p, a, x)'
  <2>1. sync'[p].phase = f /\ sync'[p].todo = sync[p].todo
    BY <1>5 DEF GoesTo, Becomes
  <2>2. /\ ~At(p, a, {"put", "prompt"})' /\ ~At(p, a, {"prompt"})'
        /\ ~Reached(p, a, {"create"})'
    BY <1>3, <2>1 DEF At, Reached
  <2> QED
    BY <1>5, <2>2 DEF LedBy
<1>6. CASE GetAgent(p)
  <2>1. Becomes(p, "put", sync[p].specs, sync[p].todo, agents[a], sync[p].left)
    BY <1>6, GetAgentDoes
  <2>2. /\ sync'[p].phase = "put" /\ sync'[p].todo = sync[p].todo
        /\ sync'[p].read = agents[a] /\ agents' = agents
    BY <1>6, <2>1 DEF Becomes, GetAgent
  <2>3. /\ ~At(p, a, {"prompt"})' /\ ~Reached(p, a, {"create"})'
        /\ ~Reached(p, a, {"reread", "clear", "create"})'
    BY <1>3, <2>2 DEF At, Reached
  <2> QED
    BY <2>2, <2>3 DEF LedBy
<1>7. CASE CreateAgent(p)
  BY <1>2, <1>3, <1>5, <1>7, CreateAgentDoes DEF AgentBecomes
<1>8. CASE UpdateSettings(p)
  <2>1. At(p, a, {"put", "prompt"}) /\ r.exists
    BY <1>3, <1>8 DEF At, UpdateSettings
  <2>2. /\ agents[a].exists
        /\ r.settings = x.settings => agents[a].settings = x.settings
        /\ r.prompt = x.prompt => agents[a].prompt = x.prompt
    BY <2>1 DEF LedBy
  <2>3. /\ GoesTo(p, "prompt")
        /\ agents'[a] = IF r.settings # x.settings THEN Row(x.settings, agents[a].prompt)
                                                     ELSE agents[a]
    BY <1>3, <1>8, <2>2, UpdateSettingsDoes DEF AgentBecomes
  <2>4. /\ agents'[a].exists /\ agents'[a].settings = x.settings
        /\ agents'[a].prompt = agents[a].prompt
    BY <2>2, <2>3, RowFields
  <2>5. /\ sync'[p].phase = "prompt" /\ sync'[p].todo = sync[p].todo
        /\ sync'[p].read = r
    BY <2>3 DEF GoesTo, Becomes
  <2>6. ~Reached(p, a, {"create"})' /\ ~Reached(p, a, {"reread", "clear", "create"})'
    BY <1>3, <2>5 DEF At, Reached
  <2> HIDE DEF r
  <2> QED
    BY <2>2, <2>4, <2>5, <2>6 DEF LedBy
<1>9. CASE UpdatePrompt(p)
  <2>1. At(p, a, {"put", "prompt"}) /\ At(p, a, {"prompt"}) /\ r.exists
    BY <1>3, <1>9 DEF At, UpdatePrompt, Sound, ProcessesSound, ProcessSound
  <2>2. /\ agents[a].exists /\ agents[a].settings = x.settings
        /\ r.prompt = x.prompt => agents[a].prompt = x.prompt
    BY <2>1 DEF LedBy
  <2>3. agents[a] = Row(x.settings, agents[a].prompt)
    BY <1>4, <2>2, RowTypes
  <2>4. /\ GoesTo(p, "reread")
        /\ \/ r.prompt = x.prompt /\ agents' = agents
           \/ agents'[a] = Row(x.settings, x.prompt)
    BY <1>2, <1>3, <1>9, <2>2, UpdatePromptDoes DEF AgentBecomes
  <2>5. agents'[a] = AgentRow(x)
    BY <2>2, <2>3, <2>4 DEF AgentRow
  <2> QED
    BY <1>5, <2>4, <2>5
<1>10. CASE RereadAgent(p)
  <2>1. GoesTo(p, "clear") /\ agents' = agents
    BY <1>2, <1>10, RereadAgentDoes DEF RereadAgent
  <2>2. agents[a] = AgentRow(x)
    BY <1>3, <1>10 DEF LedBy, Reached, At, RereadAgent
  <2> QED
    BY <1>5, <2>1, <2>2
<1>11. CASE DeleteSchedulesByAgent(p) \/ CreateSchedule(p)
  <2>1. agents'[a] = AgentRow(x)
    <3>1. Reached(p, a, {"reread", "clear", "create"}) /\ agents' = agents
      BY <1>3, <1>11 DEF Reached, At, DeleteSchedulesByAgent, CreateSchedule
    <3> QED
      BY <3>1 DEF LedBy
  <2>2. Covered(a, x)'
    <3>1. CreateSchedule(p) => Reached(p, a, {"create"})
      BY <1>3 DEF Reached, At, CreateSchedule
    <3>2. CreateSchedule(p) => Covered(a, x)
      BY <3>1 DEF LedBy
    <3> QED
      BY <1>1, <1>11, <3>2, ClearCovers
  <2>3. ~At(p, a, {"put", "prompt"})' /\ ~At(p, a, {"prompt"})'
    <3>1. sync'[p].phase \in {"create", "get", "list", "done"}
      BY <1>2, <1>11, DeleteSchedulesByAgentDoes, CreateScheduleDoes
         DEF OnToNextSpec, Becomes, AfterSpecs
    <3> QED
      BY <3>1 DEF At
  <2> QED
    BY <2>1, <2>2, <2>3 DEF LedBy
<1> QED
  BY <1>6, <1>7, <1>8, <1>9, <1>10, <1>11
     DEF SyncStep, GetNamespace, CreateNamespace, ListAgents, DeleteAgent, AgentPhase

LEMMA LedStepKept ==
  ASSUME Sound, NEW a \in Agent, NEW x \in AllSpecs, Agreed(a, x), Agreed(a, x)',
         NEW q \in Process, SyncStep(q), NEW p \in Process, LedBy(p, a, x)
  PROVE  LedBy(p, a, x)'
<1>1. CASE p # q
  <2>1. sync'[p] = sync[p]
    BY <1>1, StepsAreOwn
  <2> QED
    BY <2>1, LedByAnother, AgentTurns, CoveredKept
<1>2. CASE p = q
  <2>1. \/ sync[p].phase \in {"namespace", "create_namespace", "list", "delete"}
        \/ sync[p].phase \in AgentPhase
    BY <1>2 DEF SyncStep, GetNamespace, CreateNamespace, GetAgent, CreateAgent,
                UpdateSettings, UpdatePrompt, RereadAgent, DeleteSchedulesByAgent,
                CreateSchedule, ListAgents, DeleteAgent, AgentPhase
  <2> QED
    BY <1>2, <2>1, LedAtAnother, LedAtAgent
<1> QED
  BY <1>1, <1>2

\* What a process has loaded stays while it runs.
LEMMA AgreedBefore ==
  ASSUME Sound, NEW a \in Agent, NEW x \in AllSpecs, Agreed(a, x)',
         NEW q \in Process, SyncStep(q)
  PROVE  Agreed(a, x)
<1>1. ~Refused(q)
  BY DEF Refused, Becomes, Agreed, Running
<1>2. Running(q)
  BY DEF SyncStep, GetNamespace, CreateNamespace, GetAgent, CreateAgent, UpdateSettings,
         UpdatePrompt, RereadAgent, DeleteSchedulesByAgent, CreateSchedule, ListAgents,
         DeleteAgent, Running
<1>3. sync'[q].specs = sync[q].specs
  <2>1. CASE GetNamespace(q) \/ CreateNamespace(q) \/ GetAgent(q) \/ CreateAgent(q)
    BY <1>1, <2>1, GetNamespaceDoes, CreateNamespaceDoes, GetAgentDoes, CreateAgentDoes
       DEF GoesTo, Becomes
  <2>2. CASE UpdateSettings(q) \/ UpdatePrompt(q) \/ RereadAgent(q)
    BY <1>1, <2>2, UpdateSettingsDoes, UpdatePromptDoes, RereadAgentDoes
       DEF GoesTo, Becomes
  <2>3. CASE DeleteSchedulesByAgent(q) \/ CreateSchedule(q)
    BY <1>1, <2>3, DeleteSchedulesByAgentDoes, CreateScheduleDoes
       DEF OnToNextSpec, Becomes
  <2>4. CASE ListAgents(q) \/ DeleteAgent(q)
    BY <2>4, ListAgentsDoes, DeleteAgentDoes DEF Becomes
  <2> QED
    BY <2>1, <2>2, <2>3, <2>4 DEF SyncStep
<1>4. ASSUME NEW p \in Process
      PROVE  Running(p) /\ a \in DOMAIN sync[p].specs /\ sync[p].specs[a] = x
  <2>1. a \in DOMAIN sync'[p].specs /\ sync'[p].specs[a] = x /\ Running(p)'
    BY DEF Agreed
  <2>2. CASE p = q
    BY <1>2, <1>3, <2>1, <2>2
  <2>3. CASE p # q
    <3>1. sync'[p] = sync[p]
      BY <2>3, StepsAreOwn
    <3> QED
      BY <2>1, <3>1 DEF Running
  <2> QED
    BY <2>2, <2>3
<1> QED
  BY <1>4 DEF Agreed

LEMMA AgreedInit ==
  ASSUME Init PROVE AgreedInv
<1>1. ASSUME NEW a \in Agent, NEW x \in AllSpecs, Agreed(a, x) PROVE FALSE
  <2>1. PICK p \in Process : Running(p)
    BY <1>1 DEF Agreed
  <2>2. sync[p].phase = "off"
    BY IdleRow, PhaseNames DEF Init
  <2> QED
    BY <2>1, <2>2 DEF Running
<1> QED
  BY <1>1 DEF AgreedInv

LEMMA AgreedNext ==
  ASSUME Sound, AgreedInv, [Next]_vars PROVE AgreedInv'
<1> SUFFICES ASSUME NEW a \in Agent, NEW x \in AllSpecs, Agreed(a, x)'
             PROVE  \E p \in Process : LedBy(p, a, x)'
  BY DEF AgreedInv
<1>1. CASE UNCHANGED <<agents, schedules, sync>>
  <2>1. Agreed(a, x)
    BY <1>1 DEF Agreed, Running
  <2>2. PICK p \in Process : LedBy(p, a, x)
    BY <2>1 DEF AgreedInv
  <2>3. Toward(a, x) /\ ScheduleRows(a)' = ScheduleRows(a)
    BY <1>1 DEF Toward, ScheduleRows
  <2>4. \A q \in Process : /\ At(q, a, {"create"})' <=> At(q, a, {"create"})
                           /\ sync'[q].left = sync[q].left
    BY <1>1, OthersAt
  <2>5. Covered(a, x) => Covered(a, x)'
    BY <2>3, <2>4 DEF Covered
  <2>6. sync'[p] = sync[p]
    BY <1>1
  <2> QED
    BY <2>2, <2>3, <2>5, <2>6, LedByAnother
<1>2. ASSUME NEW q \in Process, Start(q) PROVE LedBy(q, a, x)'
  <2>1. a \in DOMAIN sync'[q].specs
    BY DEF Agreed
  <2>2. sync'[q].todo = DOMAIN sync'[q].specs /\ sync'[q].phase \in {"namespace", "list", "done"}
    BY <1>2, StartDoes DEF Becomes, AfterSpecs
  <2>3. /\ ~At(q, a, {"put", "prompt"})' /\ ~At(q, a, {"prompt"})'
        /\ ~Reached(q, a, {"create"})' /\ ~Reached(q, a, {"reread", "clear", "create"})'
    BY <2>1, <2>2 DEF At, Reached
  <2> QED
    BY <2>3 DEF LedBy
<1>3. ASSUME NEW q \in Process, Stop(q) PROVE FALSE
  BY <1>3, StopDoes DEF Agreed, Becomes, Running
<1>4. ASSUME NEW q \in Process, SyncStep(q)
      PROVE  \E p \in Process : LedBy(p, a, x)'
  <2>1. Agreed(a, x)
    BY <1>4, AgreedBefore
  <2>2. PICK p \in Process : LedBy(p, a, x)
    BY <2>1 DEF AgreedInv
  <2> QED
    BY <1>4, <2>1, <2>2, LedStepKept
<1> QED
  BY <1>1, <1>2, <1>3, <1>4 DEF Next, EditFiles, vars

LEMMA AgreedWhenDone ==
  ASSUME Sound, AgreedInv PROVE SyncAgreed
<1> SUFFICES ASSUME NEW a \in Agent,
                    \A p, q \in Process :
                      /\ sync[p].phase = "done" /\ a \in DOMAIN sync[p].specs
                      /\ sync[q].phase = "done" /\ a \in DOMAIN sync[q].specs
                      /\ sync[p].specs[a] = sync[q].specs[a],
                    NEW p \in Process
             PROVE  AgentSynced(a, sync[p].specs[a])
  BY DEF SyncAgreed
<1> DEFINE x == sync[p].specs[a]
<1>1. PICK root \in Root : a \in DOMAIN root /\ x = root[a]
  BY DEF Sound, ProcessesSound, ProcessSound
<1>2. x \in AllSpecs
  BY <1>1, SpecTypes
<1>3. Agreed(a, x)
  BY DEF Agreed, Running
<1> HIDE DEF x
<1>4. PICK q \in Process : LedBy(q, a, x)
  BY <1>2, <1>3 DEF AgreedInv
<1>5. a \notin sync[q].todo
  BY DEF Sound, ProcessesSound, ProcessSound
<1>6. agents[a] = AgentRow(x) /\ Covered(a, x)
  BY <1>4, <1>5 DEF LedBy, Reached
<1>7. \A r \in Process : ~At(r, a, {"create"})
  BY DEF At
<1>8. ScheduleRows(a) = ToSet(x.schedules)
  BY <1>6, <1>7 DEF Covered
<1> QED
  BY <1>6, <1>8 DEF AgentSynced, x

\* Processes of `swarmd server` and of `swarmd agent run` that sync at the same
\* time over one database leave an agent as its spec says when all of them have
\* loaded that spec and all have got through, whatever the order of their store
\* calls and whatever other syncs were cut short before; and a one-shot run
\* keeps off what it has no spec of.
THEOREM SyncsDoCoexist == Spec => SyncsCoexist
<1>1. Init => Sound /\ AgreedInv
  BY InitSound, AgreedInit
<1>2. Sound /\ AgreedInv /\ [Next]_vars => (Sound /\ AgreedInv)'
  BY NextSound, AgreedNext
<1>3. Sound /\ AgreedInv => SyncAgreed
  BY AgreedWhenDone
<1>4. Spec => []SyncAgreed
  BY <1>1, <1>2, <1>3, PTL DEF Spec
<1> QED
  BY <1>4, OneShotsKeepOff, PTL DEF SyncsCoexist
=============================================================================
