------------------------------ MODULE TuiPages ------------------------------
(***************************************************************************)
(* The pages of `swarmd tui`: which records of the store a page lists,     *)
(* what the detail pane shows of a row, and which page a key opens on it.  *)
(*                                                                         *)
(* Records keep the columns that pages select, order and link by; titles,  *)
(* descriptions and the layout of a detail are left out.  Lists are kept   *)
(* in the order of their query: messages latest update first, runs latest  *)
(* start first, everything else by its id.  An id 0 or "" is none.         *)
(***************************************************************************)
EXTENDS Integers, FiniteSets, SequencesExt, TLC

CONSTANT PageLimit  \* the Limit (200) of the mailbox, runs and thread queries

ASSUME PageLimitAssumption == PageLimit \in Nat \ {0}

Limited(records) == SubSeq(records, 1, IF Len(records) < PageLimit THEN Len(records) ELSE PageLimit)

\* The records at these places, as Before(_, _) orders the places: written
\* without the recursion of SelectSeq and SortSeq, so that lists of the
\* store can be reasoned about.
Ordered(records, places, Before(_, _)) ==
  [k \in 1..Cardinality(places) |->
     records[CHOOSE n \in places : Cardinality({p \in places : Before(p, n)}) = k - 1]]

\* The records that Test(_) selects, in their order.
Those(records, Test(_)) ==
  Ordered(records, {n \in DOMAIN records : Test(records[n])}, LAMBDA p, n : p < n)

\* strings.TrimSpace(id) != "" restricts a query to the id.
Of(id, none, x) == id = none \/ id = x

-----------------------------------------------------------------------------
(* Queries of the store.  Those for one record give a sequence of one.     *)

ListAgents(s, q) ==
  Those(s.agents, LAMBDA a : Of(q.namespace, "", a.namespace))

GetAgent(s, q) ==
  Those(s.agents, LAMBDA a : a.namespace = q.namespace /\ a.id = q.agent)

ListMailboxMessages(s, q) ==
  Limited(Those(s.messages, LAMBDA x :
    /\ Of(q.namespace, "", x.namespace)
    /\ q.agent \in {"", x.recipient, x.sender}))

GetMailboxMessage(s, q) ==
  Those(s.messages, LAMBDA x : x.namespace = q.namespace /\ x.id = q.message)

ListThreadMessages(s, q) ==
  LET x == s.messages
      places == {n \in DOMAIN x : x[n].namespace = q.namespace /\ x[n].thread = q.thread}
  IN Limited(Ordered(x, places, LAMBDA p, n : x[p].id < x[n].id))

ListRuns(s, q) ==
  Limited(Those(s.runs, LAMBDA r :
    Of(q.namespace, "", r.namespace) /\ Of(q.agent, "", r.agent)))

GetRun(s, q) == Those(s.runs, LAMBDA r : r.namespace = q.namespace /\ r.id = q.run)

ListStepsByRun(s, q) ==
  Those(s.steps, LAMBDA x : x.namespace = q.namespace /\ x.run = q.run)

loadSchedules(s, namespace, agent) ==
  Those(s.schedules, LAMBDA x : Of(namespace, "", x.namespace) /\ Of(agent, "", x.agent))

SnapshotNamespace(s, namespace) ==
  [namespace |-> namespace,
   agents |-> ListAgents(s, [namespace |-> namespace]),
   schedules |-> loadSchedules(s, namespace, ""),
   mailbox |-> [status \in {"queued", "leased", "completed", "dead_letter"} |->
     Len(Those(s.messages, LAMBDA x : x.namespace = namespace /\ x.status = status))]]

-----------------------------------------------------------------------------
(* Pages and their rows.                                                   *)

Query == [namespace |-> "", agent |-> "", message |-> 0, run |-> 0, thread |-> 0]

Page(kind, query) == [kind |-> kind, query |-> query, items |-> <<>>, cursor |-> 0]

Sections == <<"namespaces", "agents", "mailbox", "runs", "schedules">>

rootPage(section) == Page(Sections[section], Query)

Item(kind, title, namespace, value) ==
  [kind |-> kind, title |-> title, namespace |-> namespace, agent |-> "",
   message |-> 0, run |-> 0, thread |-> 0, value |-> value]

\* What tells rows apart: everything but the record itself.
itemKey(i) == <<i.kind, i.namespace, i.agent, i.message, i.run, i.thread, i.title>>

Each(records, Row(_)) == [n \in DOMAIN records |-> Row(records[n])]

AgentItem(a) == [Item("agent", a.id, a.namespace, a) EXCEPT !.agent = a.id]

MailboxItem(x) ==
  [Item("mailbox", "", x.namespace, x) EXCEPT
     !.agent = x.recipient, !.message = x.id, !.run = x.run, !.thread = x.thread]

RunItem(r) ==
  [Item("run", "", r.namespace, r) EXCEPT !.agent = r.agent, !.message = r.message, !.run = r.id]

ScheduleItem(x) == [Item("schedule", x.id, x.namespace, x) EXCEPT !.agent = x.agent]

preferredThreadAgent(x) == IF x.recipient # "" THEN x.recipient ELSE x.sender

ThreadItem(x) ==
  [Item("thread_message", "", x.namespace, x) EXCEPT
     !.agent = preferredThreadAgent(x), !.message = x.id, !.thread = x.thread]

StepItem(x) ==
  [Item("step", ToString(x.index), x.namespace, x) EXCEPT
     !.agent = x.agent, !.message = x.message, !.run = x.run]

\* The rows of a page of this kind and query.
Rows(s, kind, q) ==
  CASE kind = "namespaces" ->
         Each(s.namespaces, LAMBDA n : Item("namespace", n, n, SnapshotNamespace(s, n)))
    [] kind = "agents" -> Each(IF q.agent # "" THEN GetAgent(s, q) ELSE ListAgents(s, q), AgentItem)
    [] kind = "mailbox" ->
         Each(IF q.message # 0 THEN GetMailboxMessage(s, q) ELSE ListMailboxMessages(s, q), MailboxItem)
    [] kind = "runs" -> Each(IF q.run # 0 THEN GetRun(s, q) ELSE ListRuns(s, q), RunItem)
    [] kind = "schedules" -> Each(loadSchedules(s, q.namespace, q.agent), ScheduleItem)
    [] kind = "thread" -> Each(ListThreadMessages(s, q), ThreadItem)
    [] kind = "steps" -> Each(ListStepsByRun(s, q), StepItem)

clampCursor(cursor, items) ==
  IF items = <<>> \/ cursor < 0 THEN 0
  ELSE IF cursor >= Len(items) THEN Len(items) - 1 ELSE cursor

loadTUIPage(s, page) ==
  LET items == Rows(s, page.kind, page.query)
  IN [page EXCEPT !.items = items, !.cursor = clampCursor(@, items)]

-----------------------------------------------------------------------------
(* The detail of a row: the record the row was listed with, and what is    *)
(* read for it; <<>> is an error.  A row that was listed by another page   *)
(* is looked up, where its page can do that.                               *)

RowKind == [namespaces |-> "namespace", agents |-> "agent", mailbox |-> "mailbox",
            runs |-> "run", schedules |-> "schedule", thread |-> "thread_message", steps |-> "step"]

Selected(s, page, i) ==
  IF i.kind = RowKind[page.kind] \/ page.kind = "thread" THEN <<i.value>>
  ELSE CASE page.kind = "namespaces" -> <<SnapshotNamespace(s, i.namespace)>>
         [] page.kind = "agents" -> GetAgent(s, i)
         [] page.kind = "mailbox" -> GetMailboxMessage(s, i)
         [] page.kind = "runs" -> GetRun(s, i)
         [] OTHER -> <<>>

renderTUIDetail(s, page, i) ==
  LET selected == Selected(s, page, i)
  IN CASE selected = <<>> -> <<>>
       [] page.kind = "agents" -> Append(selected, loadSchedules(s, i.namespace, i.agent))
       [] page.kind = "runs" ->
            selected \o <<ListStepsByRun(s, i),
                          GetMailboxMessage(s, [i EXCEPT !.message = selected[1].message])>>
       [] page.kind = "thread" -> Append(selected, ListThreadMessages(s, page.query))
       [] OTHER -> selected

-----------------------------------------------------------------------------
(* Navigation.  The set of pages an action opens on a row: one or none.    *)

If(test, page) == IF test THEN {page} ELSE {}

Enter(page, i) ==
  LET at == [Query EXCEPT !.namespace = i.namespace]
  IN CASE page.kind = "namespaces" -> {Page("agents", at)}
       [] page.kind = "agents" -> {Page("runs", [at EXCEPT !.agent = i.agent])}
       [] page.kind = "mailbox" ->
            IF i.thread # 0 THEN {Page("thread", [at EXCEPT !.thread = i.thread])}
            ELSE If(i.run # 0, Page("runs", [at EXCEPT !.run = i.run]))
       [] page.kind = "runs" -> {Page("steps", [at EXCEPT !.run = i.run])}
       [] page.kind = "schedules" -> {Page("agents", [at EXCEPT !.agent = i.agent])}
       [] OTHER -> {}

nextTUIPage(page, i, action) ==
  LET at == [Query EXCEPT !.namespace = i.namespace]
      ofAgent == [at EXCEPT !.agent = i.agent]
  IN CASE action = "enter" -> Enter(page, i)
       [] action = "agent" -> If(i.agent # "", Page("agents", ofAgent))
       [] action = "mailbox" ->
            IF i.kind = "agent" THEN {Page("mailbox", ofAgent)}
            ELSE If(i.kind \in {"run", "step"} /\ i.message # 0,
                    Page("mailbox", [at EXCEPT !.message = i.message]))
       [] action = "runs" -> If(i.agent # "", Page("runs", ofAgent))
       [] action = "schedules" ->
            If(i.kind = "namespace" \/ i.agent # "", Page("schedules", ofAgent))
       [] action = "thread" -> If(i.thread # 0, Page("thread", [at EXCEPT !.thread = i.thread]))
       [] action = "steps" -> If(i.run # 0, Page("steps", [at EXCEPT !.run = i.run]))

\* The agents a prompt may be sent to from a row, and from a page of runs
\* without one: [namespace, agent] records, one or none.
triggerTarget(page, i) ==
  If(/\ i.namespace # "" /\ i.agent # ""
     /\ <<page.kind, i.kind>> \in {<<"agents", "agent">>, <<"runs", "run">>},
     [namespace |-> i.namespace, agent |-> i.agent])

pageTriggerTarget(page) ==
  If(page.kind = "runs" /\ page.query.namespace # "" /\ page.query.agent # "",
     [namespace |-> page.query.namespace, agent |-> page.query.agent])

-----------------------------------------------------------------------------
(* The server's side: what happens to the records meanwhile.               *)

Message(namespace, id, sender, recipient) ==
  [namespace |-> namespace, id |-> id, thread |-> id, sender |-> sender,
   recipient |-> recipient, status |-> "queued", run |-> 0]

EnqueueMessage(s, namespace, recipient) ==
  [s EXCEPT !.messages = <<Message(namespace, Len(@) + 1, "", recipient)>> \o @]

\* An update of message x makes it the latest.
Updated(messages, x) == <<x>> \o Those(messages, LAMBDA y : y.id # x.id)

ClaimNextMessage(s, x) ==
  LET run == Len(s.runs) + 1
  IN [s EXCEPT !.messages = Updated(@, [x EXCEPT !.status = "leased", !.run = run]),
               !.runs = <<[namespace |-> x.namespace, id |-> run, agent |-> x.recipient,
                           message |-> x.id, status |-> "running"]>> \o @]

RecordStep(s, r) ==
  [s EXCEPT !.steps = Append(@, [namespace |-> r.namespace, run |-> r.id, message |-> r.message,
                                 agent |-> r.agent,
                                 index |-> Len(ListStepsByRun(s, [namespace |-> r.namespace, run |-> r.id])) + 1])]

CompleteRun(s, r, status) ==
  [s EXCEPT !.runs = Each(@, LAMBDA y : IF y.id = r.id THEN [y EXCEPT !.status = status] ELSE y),
            !.messages = Updated(@,
              [(CHOOSE x \in ToSet(@) : x.id = r.message) EXCEPT !.status = "completed", !.run = 0])]

UpdateAgentDesiredState(s, a, state) ==
  [s EXCEPT !.agents = Each(@, LAMBDA y : IF y = a THEN [y EXCEPT !.state = state] ELSE y)]

-----------------------------------------------------------------------------
(* What the proofs know of records, rows and pages.                        *)

IsSeq(s) == s \in Seq(ToSet(s))

IsStore(s) ==
  /\ DOMAIN s = {"namespaces", "agents", "schedules", "messages", "runs", "steps"}
  /\ IsSeq(s.namespaces) /\ IsSeq(s.agents) /\ IsSeq(s.schedules)
  /\ IsSeq(s.messages) /\ IsSeq(s.runs) /\ IsSeq(s.steps)

IsPage(p) ==
  /\ DOMAIN p = {"kind", "query", "items", "cursor"}
  /\ p.kind \in DOMAIN RowKind /\ IsSeq(p.items) /\ p.cursor \in Nat
=============================================================================
