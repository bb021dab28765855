-------------------------------- MODULE Tui --------------------------------
(***************************************************************************)
(* The event loop of `swarmd tui` (tuiModel.Update of Bubble Tea).  Every  *)
(* key and every message changes the model at once and may start commands: *)
(* loads that read the store in goroutines of their own, timers, and the   *)
(* list's filtering.  Their messages come back in any order, while the     *)
(* user goes on typing and the server goes on changing the store.          *)
(*                                                                         *)
(* A sequence number is only ever compared for equality with the number    *)
(* that was current when a command started, so a message keeps `fresh`     *)
(* instead: "seq++" outdates the messages of its kind.  Only of            *)
(* autoRefreshSeq is it kept whether it is still 0 (~begun): Init counts   *)
(* it up on a copy of the model, so that its timer carries the number that *)
(* the first timer of the running program will carry once more.            *)
(* The status line, scrolling, window sizes and layout are left out.       *)
(***************************************************************************)
EXTENDS TuiPages, FiniteSets

CONSTANTS
  Start,       \* the records of the store when the program starts
  Uses,        \* what a user may do: for each key pressed, a set of keys
  MaxFlight,   \* bound: messages in flight when a key is pressed or a timer fires
  MaxEvents    \* bound: changes by the server, and reads and writes that fail

ASSUME TuiAssumption == {MaxFlight, MaxEvents} \subseteq Nat /\ IsStore(Start)

VARIABLES
  t,       \* the tuiModel, with the commands and messages in flight
  store,   \* the records
  use,     \* what the user has yet to do
  events   \* those still to come

vars == <<t, store, use, events>>

None == <<>>

-----------------------------------------------------------------------------
(* Messages in flight.  `ran`: the command has read the store, or what it  *)
(* reads is of no use any more.                                            *)

Send(m, x) == [m EXCEPT !.flight = @ \cup {x}]

Outdate(m, kind) ==
  [m EXCEPT !.flight = {IF x.kind = kind THEN [x EXCEPT !.fresh = FALSE, !.ran = TRUE] ELSE x : x \in @}]

Load(kind, page, item, key, keep) ==
  [kind |-> kind, fresh |-> TRUE, ran |-> FALSE, failed |-> FALSE, page |-> page,
   item |-> item, key |-> key, keep |-> keep, detail |-> None]

\* Of the running program, and of Init.
Tick      == [kind |-> "tick", fresh |-> TRUE, ran |-> TRUE, first |-> FALSE]
FirstTick == [Tick EXCEPT !.fresh = FALSE, !.first = TRUE]

Matches(items) == [kind |-> "matches", fresh |-> TRUE, ran |-> TRUE, items |-> items]

-----------------------------------------------------------------------------
(* The list (bubbles/list): rows, a filter, and an index into the rows     *)
(* that are visible.  Rows match a filter if they have all its letters;    *)
(* their order by score is left out.                                       *)

Matching(items, filter) == Those(items, LAMBDA i : ToSet(filter) \subseteq {i.agent})

NewList(items) == [items |-> items, state |-> "unfiltered", filter |-> <<>>, found |-> <<>>, index |-> 0]

VisibleItems(l) == IF l.state = "unfiltered" THEN l.items ELSE l.found

ResetFilter(l) ==
  IF l.state = "unfiltered" THEN l ELSE [l EXCEPT !.state = "unfiltered", !.filter = <<>>, !.found = <<>>]

\* SetItems loses its matches (its command is dropped), SetFilterText finds
\* them anew.
SetItems(l, items) ==
  [l EXCEPT !.items = items, !.found = IF l.state = "unfiltered" THEN @ ELSE <<>>]

SetFilterText(l, filter) ==
  [l EXCEPT !.filter = filter, !.found = Matching(l.items, filter), !.state = "applied", !.index = 0]

InBounds(l) ==
  LET rows == Len(VisibleItems(l))
  IN [l EXCEPT !.index = IF rows = 0 THEN 0 ELSE IF @ < rows THEN @ ELSE rows - 1]

\* A key in the list.
Browse(l, k) ==
  CASE k = "down" -> InBounds([l EXCEPT !.index = @ + 1])
    [] k = "up" -> InBounds([l EXCEPT !.index = IF @ = 0 THEN 0 ELSE @ - 1])
    [] k = "esc" -> InBounds(ResetFilter(l))
    [] k = "/" /\ l.items # <<>> -> [l EXCEPT !.state = "filtering", !.index = 0,
                            !.found = IF l.filter = <<>> THEN l.items ELSE @]
    [] OTHER -> InBounds(l)

Accept(l) ==
  IF l.items = <<>> THEN l
  ELSE IF l.found = <<>> \/ l.filter = <<>> THEN ResetFilter(l)
  ELSE [l EXCEPT !.state = "applied"]

NotTyped == {"enter", "esc", "tab", "shift+tab", "up", "down", "left", "right", "ctrl+r"}

HandleFiltering(l, k) ==
  CASE k = "esc" -> ResetFilter(l)
    [] k \in {"enter", "tab", "up", "down"} /\ l.filter # <<>> -> Accept(l)
    [] k \notin NotTyped -> [l EXCEPT !.filter = Append(@, k)]
    [] OTHER -> l

ListKey(l, k) == IF l.state = "filtering" THEN HandleFiltering(l, k) ELSE Browse(l, k)

-----------------------------------------------------------------------------
(* The model.                                                              *)

currentPage(m) == Last(m.stack)

\* The selected row: one or none.
selectedItem(m) ==
  LET rows == VisibleItems(m.list)
  IN IF m.list.index < Len(rows) THEN {rows[m.list.index + 1]} ELSE {}

currentSelectionKey(m) == IF selectedItem(m) = {} THEN None ELSE itemKey(CHOOSE i \in selectedItem(m) : TRUE)

\* The detail pane: of a row, its loading text, an error, or the empty page.
Content(kind, key, rows, detail) == [kind |-> kind, key |-> key, rows |-> rows, detail |-> detail]
NothingSelected == Content("empty", None, <<>>, None)

Cached(m, key) == \E d \in m.cache : d.key = key

syncDetailOf(m, item, preserveScroll) ==
  LET key == itemKey(item)
      keep == preserveScroll /\ m.current = key
      asked == Load("detail", currentPage(m), item, key, keep)
  IN IF Cached(m, key)
       THEN [m EXCEPT !.current = key, !.detailLoading = FALSE,
                      !.content = CHOOSE d \in m.cache : d.key = key]
       ELSE [Send(Outdate(m, "detail"), asked) EXCEPT
               !.current = key, !.detailLoading = TRUE,
               !.content = IF keep THEN @ ELSE Content("loading", key, <<>>, None)]

syncDetail(m, preserveScroll) ==
  IF selectedItem(m) = {}
    THEN [m EXCEPT !.current = None, !.detailLoading = FALSE, !.content = NothingSelected]
    ELSE syncDetailOf(m, CHOOSE i \in selectedItem(m) : TRUE, preserveScroll)

resetDetailCache(m) == [m EXCEPT !.cache = {}, !.current = None]

\* Slip: the reload that is under way is not outdated.
forgetPageLoad(m) == [m EXCEPT !.pageLoading = FALSE]

cancelPageLoad(m) ==
  [(IF m.pageLoading THEN Outdate(m, "page") ELSE m) EXCEPT !.pageLoading = FALSE]

cancelDetailLoad(m) ==
  [(IF m.detailLoading THEN Outdate(m, "detail") ELSE m) EXCEPT !.detailLoading = FALSE]

requestPageReload(m) ==
  IF m.pageLoading THEN m
  ELSE [Send(Outdate(m, "page"), Load("page", currentPage(m), None, None, FALSE)) EXCEPT
          !.pageLoading = TRUE]

\* autoRefreshSeq comes to 1: if Init's timer is still running, its number is
\* right from now on.
Begin(m) ==
  [m EXCEPT !.flight = {IF x.kind = "tick" /\ x.first THEN [x EXCEPT !.fresh = TRUE] ELSE x : x \in @},
            !.begun = TRUE]

nextAutoRefreshCmd(m) ==
  IF m.auto THEN Send(IF m.begun THEN Outdate(m, "tick") ELSE Begin(m), Tick) ELSE m

\* The index of the row with the key among those visible, else the cursor's.
visibleIndex(l, page, key) ==
  LET rows == VisibleItems(l)
      same == {n \in DOMAIN rows : itemKey(rows[n]) = key}
  IN IF same # {} THEN (CHOOSE n \in same : \A o \in same : n <= o) - 1
     ELSE clampCursor(page.cursor, rows)

selectVisibleItem(l, page, key) == [l EXCEPT !.index = visibleIndex(l, page, key)]

applyCurrentPage(m, loaded, preserveFilter, key, preserveScroll) ==
  LET page == [loaded EXCEPT !.cursor = clampCursor(@, loaded.items)]
      items == SetItems(m.list, page.items)
      list == IF preserveFilter /\ m.list.filter # <<>>
                THEN SetFilterText(items, m.list.filter) ELSE ResetFilter(items)
  IN syncDetail([m EXCEPT !.stack = Append(Front(@), page),
                          !.list = selectVisibleItem(list, page, key)], preserveScroll)

\* Another page, which has been loaded, becomes the current one.
Visit(m, stack) ==
  LET left == resetDetailCache(cancelDetailLoad(cancelPageLoad(m)))
  IN applyCurrentPage([left EXCEPT !.stack = stack, !.focus = "list"], Last(stack), FALSE, None, FALSE)

updateList(m, k) ==
  LET l == ListKey(m.list, k)
      moved == <<l.index, l.filter, l.state>> # <<m.list.index, m.list.filter, m.list.state>>
      found == IF l.filter # m.list.filter /\ l.state = "filtering"
                 THEN Send(m, Matches(Matching(l.items, l.filter))) ELSE m
      listed == [found EXCEPT !.list = l]
  IN IF ~moved THEN listed
     ELSE syncDetail([listed EXCEPT !.stack = Append(Front(@), [Last(@) EXCEPT !.cursor = l.index])],
                     FALSE)

-----------------------------------------------------------------------------
Blank ==
  [stack |-> <<rootPage(1)>>, list |-> NewList(<<>>), focus |-> "list", auto |-> TRUE,
   begun |-> FALSE, pageLoading |-> FALSE, detailLoading |-> FALSE, cache |-> {}, current |-> None,
   content |-> NothingSelected, triggering |-> FALSE, target |-> None,
   flight |-> {}, open |-> TRUE]

\* newTUIModel: the first page and its detail are read before the loop, and
\* the load that applyCurrentPage asks for is dropped.
syncDetailNow(m, s) ==
  LET item == CHOOSE i \in selectedItem(m) : TRUE
      d == Content("detail", itemKey(item), currentPage(m).items,
                   renderTUIDetail(s, currentPage(m), item))
  IN IF selectedItem(m) = {} THEN m
     ELSE [m EXCEPT !.current = d.key, !.cache = {d}, !.content = d, !.detailLoading = FALSE]

newTUIModel ==
  LET root == loadTUIPage(Start, rootPage(1))
      applied == applyCurrentPage(Blank, root, FALSE, None, FALSE)
  IN syncDetailNow([applied EXCEPT !.flight = {}], Start)

\* Bubble Tea calls Init of the tuiModel, a value: the model that the program
\* goes on with has started no timer, and drops this one when it comes.
Init ==
  /\ store = Start
  /\ t = Send(newTUIModel, FirstTick)
  /\ use \in Uses
  /\ events = MaxEvents

Event == events > 0 /\ events' = events - 1

Calm == Cardinality(t.flight) <= MaxFlight

\* The user presses k; with `faults`, the store then fails.
Press(k, faults) ==
  /\ use # <<>> /\ t.open /\ k \in Head(use)
  /\ use' = Tail(use)
  /\ Calm /\ events >= faults
  /\ events' = events - faults

\* Keys of the program, which the list does not see while a filter is typed.
Command == ~t.triggering /\ t.list.state # "filtering"

Quit ==
  /\ Press("q", 0)
  /\ t' = [t EXCEPT !.open = FALSE, !.flight = {}]
  /\ UNCHANGED store

Digits == <<"1", "2", "3", "4", "5">>

SectionOf(k) == CHOOSE n \in DOMAIN Sections : Digits[n] = k

currentSection ==
  [namespaces |-> 1, agents |-> 2, mailbox |-> 3, thread |-> 3, runs |-> 4, steps |-> 4,
   schedules |-> 5][currentPage(t).kind]

SectionFor(k) ==
  CASE k = "tab" -> (currentSection % Len(Sections)) + 1
    [] k = "shift+tab" -> ((currentSection + 3) % Len(Sections)) + 1
    [] OTHER -> SectionOf(k)

SectionKeys == ToSet(Digits) \cup {"tab", "shift+tab"}

switchSection(k) ==
  /\ Press(k, 0) /\ k \in SectionKeys /\ Command
  /\ t' = Visit(t, <<loadTUIPage(store, rootPage(SectionFor(k)))>>)
  /\ UNCHANGED store

Refresh ==
  /\ Press("ctrl+r", 0) /\ Command
  /\ t' = requestPageReload(t)
  /\ UNCHANGED store

ToggleAuto ==
  /\ Press("u", 0) /\ Command
  /\ t' = nextAutoRefreshCmd([t EXCEPT !.auto = ~@])
  /\ UNCHANGED store

\* left and right.
Focus(k) ==
  /\ Press(k, 0) /\ k \in {"left", "right"} /\ Command
  /\ t' = [t EXCEPT !.focus = IF k = "left" THEN "list" ELSE "detail"]
  /\ UNCHANGED store

Backs(k) == k = "esc" /\ t.list.state = "unfiltered"

popPage ==
  /\ Press("esc", 0) /\ Command /\ Backs("esc") /\ Len(t.stack) > 1
  /\ LET below == Front(t.stack)
     IN t' = Visit(t, Append(Front(below), loadTUIPage(store, Last(below))))
  /\ UNCHANGED store

BackToList ==
  /\ Press("esc", 0) /\ Command /\ Backs("esc") /\ Len(t.stack) = 1
  /\ t' = [t EXCEPT !.focus = "list"]
  /\ UNCHANGED store

ActionOf == [enter |-> "enter", a |-> "agent", m |-> "mailbox", r |-> "runs",
             s |-> "schedules", t |-> "thread", p |-> "steps"]

\* The cursor is kept on the page that is left, whether the next one loads
\* or not.
openAction(k) ==
  /\ Press(k, 0) /\ k \in DOMAIN ActionOf /\ Command /\ t.focus = "list"
  /\ \E item \in selectedItem(t) : \E next \in nextTUIPage(currentPage(t), item, ActionOf[k]) :
       LET left == [currentPage(t) EXCEPT !.cursor = t.list.index]
       IN t' = Visit(t, Append(Front(t.stack), left) \o <<loadTUIPage(store, next)>>)
  /\ UNCHANGED store

\* The same keys when the page cannot be read: openAction has moved the
\* cursor already, nothing else changes.
LoadFails(k) ==
  /\ Press(k, 1) /\ Command
  /\ \/ k \in SectionKeys /\ t' = t
     \/ Backs(k) /\ Len(t.stack) > 1 /\ t' = t
     \/ /\ k \in DOMAIN ActionOf /\ t.focus = "list"
        /\ \E item \in selectedItem(t) : nextTUIPage(currentPage(t), item, ActionOf[k]) # {}
        /\ t' = [t EXCEPT !.stack = Append(Front(@), [Last(@) EXCEPT !.cursor = t.list.index])]
  /\ UNCHANGED store

\* Whom a prompt would go to: the selected row's agent, else the page's.
currentTriggerTarget ==
  LET row == UNION {triggerTarget(currentPage(t), i) : i \in selectedItem(t)}
  IN IF row # {} THEN row ELSE pageTriggerTarget(currentPage(t))

startTriggerMode ==
  /\ Press("x", 0) /\ Command
  /\ \E to \in currentTriggerTarget : t' = [t EXCEPT !.triggering = TRUE, !.target = to]
  /\ UNCHANGED store

exitTriggerMode(m) == [m EXCEPT !.triggering = FALSE, !.target = None]

\* Any other key is typed, or clears what was.
LeaveTriggerMode ==
  /\ Press("esc", 0) /\ t.triggering
  /\ t' = exitTriggerMode(t)
  /\ UNCHANGED store

\* Slip: the prompt goes to the row that is selected when it is sent.
SubmitToSelected ==
  IF currentTriggerTarget = {} THEN t.target ELSE CHOOSE to \in currentTriggerTarget : TRUE

SubmitTarget == t.target

submitTriggerPrompt ==
  /\ Press("enter", 0) /\ t.triggering
  /\ store' = EnqueueMessage(store, SubmitTarget.namespace, SubmitTarget.agent)
  /\ t' = requestPageReload(exitTriggerMode(t))

SubmitFails ==
  /\ Press("enter", 1) /\ t.triggering
  /\ UNCHANGED <<t, store>>

\* Keys that no command takes go to the pane; "/" first focuses the list.
Taken(k) ==
  \/ k \in SectionKeys \cup {"q", "ctrl+r", "u", "left", "right"}
  \/ Backs(k) /\ (Len(t.stack) > 1 \/ t.focus = "detail")
  \/ k \in DOMAIN ActionOf /\ t.focus = "list"
  \/ k = "x" /\ currentTriggerTarget # {}

PaneKey(k) ==
  /\ Press(k, 0) /\ k # "q" /\ ~t.triggering
  /\ Command => ~Taken(k)
  /\ t' = IF t.focus = "detail" /\ ~(Command /\ k = "/") THEN t
          ELSE updateList([t EXCEPT !.focus = "list"], k)
  /\ UNCHANGED store

-----------------------------------------------------------------------------
(* Commands and messages.                                                  *)

\* A load's command reads the store.
Unread(x) == x \in t.flight /\ ~x.ran

Read(x) ==
  /\ Unread(x)
  /\ LET loaded == CASE x.kind = "page" -> [x EXCEPT !.ran = TRUE, !.page = loadTUIPage(store, x.page)]
                     [] OTHER -> LET d == renderTUIDetail(store, x.page, x.item)
                                 IN [x EXCEPT !.ran = TRUE, !.detail = d, !.failed = d = <<>>]
     IN t' = [t EXCEPT !.flight = (@ \ {x}) \cup {loaded}]
  /\ UNCHANGED <<store, use, events>>

ReadFails(x) ==
  /\ Unread(x)
  /\ t' = [t EXCEPT !.flight = (@ \ {x}) \cup {[x EXCEPT !.ran = TRUE, !.failed = TRUE]}]
  /\ Event
  /\ UNCHANGED <<store, use>>

\* Message x comes: what is left in flight.
Arrives(kind, x) == x \in t.flight /\ x.kind = kind /\ x.ran
Without(x) == [t EXCEPT !.flight = @ \ {x}]

\* Slip: a refresh that is skipped is the last one.
handleAutoRefreshTickOnce(x) ==
  IF ~x.fresh \/ ~t.auto \/ t.triggering \/ t.pageLoading \/ t.list.state = "filtering" THEN Without(x)
  ELSE requestPageReload(nextAutoRefreshCmd(Without(x)))

handleAutoRefreshTick(x) ==
  LET next == nextAutoRefreshCmd(Without(x))
      skip == ~t.auto \/ t.triggering \/ t.pageLoading \/ t.list.state = "filtering"
  IN IF ~x.fresh THEN Without(x) ELSE IF skip THEN next ELSE requestPageReload(next)

\* Slip: the row at the cursor is selected, whichever it is.
ReloadedAtCursor(m, page) ==
  LET key == currentSelectionKey(m)
  IN applyCurrentPage([resetDetailCache(m) EXCEPT !.current = key], page, TRUE, None, TRUE)

Reloaded(m, page) ==
  LET key == currentSelectionKey(m)
      preserveScroll == key # None /\ key = m.current
      reset == resetDetailCache(m)
  IN applyCurrentPage([reset EXCEPT !.current = IF preserveScroll THEN key ELSE None],
                      page, TRUE, key, preserveScroll)

\* Slip: a reload that failed stays in progress.
handlePageLoadedOk(x) ==
  IF ~x.fresh \/ x.failed THEN Without(x)
  ELSE Reloaded([Without(x) EXCEPT !.pageLoading = FALSE], x.page)

handlePageLoaded(x) ==
  LET loaded == [Without(x) EXCEPT !.pageLoading = FALSE]
  IN IF ~x.fresh THEN Without(x)
     ELSE IF x.failed THEN loaded ELSE Reloaded(loaded, x.page)

\* The rows of the page at the time of the request are kept with a detail.
handleDetailLoaded(x) ==
  LET content == Content(IF x.failed THEN "error" ELSE "detail", x.key, x.page.items, x.detail)
  IN IF ~x.fresh \/ x.key # t.current THEN Without(x)
     ELSE [Without(x) EXCEPT !.detailLoading = FALSE, !.content = content,
                             !.cache = IF x.failed THEN @ ELSE @ \cup {content}]

\* Matches of the filter go wherever the keys go; outside the list they are
\* lost, and in it neither index nor filter changes, so that the detail
\* pane is not told.
handleFilterMatches(x) ==
  IF t.triggering \/ t.focus = "detail" THEN Without(x)
  ELSE [Without(x) EXCEPT !.list.found = x.items]

Deliver(x) ==
  /\ \/ Arrives("tick", x) /\ Calm /\ t' = handleAutoRefreshTick(x)
     \/ Arrives("page", x) /\ t' = handlePageLoaded(x)
     \/ Arrives("detail", x) /\ t' = handleDetailLoaded(x)
     \/ Arrives("matches", x) /\ t' = handleFilterMatches(x)
  /\ UNCHANGED <<store, use, events>>

-----------------------------------------------------------------------------
(* The server changes the records.                                         *)

Changed(s) == store' = s /\ Event /\ UNCHANGED <<t, use>>

Serve ==
  \/ \E a \in ToSet(store.agents) :
       \/ Changed(EnqueueMessage(store, a.namespace, a.id))
       \/ Changed(UpdateAgentDesiredState(store, a, IF a.state = "running" THEN "paused" ELSE "running"))
  \/ \E x \in ToSet(store.messages) : x.status = "queued" /\ Changed(ClaimNextMessage(store, x))
  \/ \E r \in ToSet(store.runs) : r.status = "running" /\
       \/ Changed(RecordStep(store, r))
       \/ Changed(CompleteRun(store, r, "finished"))

User ==
  \/ Quit \/ Refresh \/ ToggleAuto \/ popPage \/ BackToList
  \/ startTriggerMode \/ LeaveTriggerMode \/ submitTriggerPrompt \/ SubmitFails
  \/ \E k \in UNION ToSet(use) : \/ switchSection(k) \/ Focus(k) \/ openAction(k) \/ LoadFails(k) \/ PaneKey(k)

Commands == \E x \in t.flight : Read(x) \/ ReadFails(x) \/ Deliver(x)

Next == User \/ Commands \/ Serve

\* Goroutines run, timers fire, the event loop takes every message, and not
\* every load of a detail is overtaken by the next refresh: it reads a local
\* database, and refreshes are seconds apart.  Weak and strong fairness are
\* written out: that a message can be taken is plain to see, and much dearer
\* for TLC to work out as ENABLED.
Fresh(kind, x) == x.kind = kind /\ x.fresh
Waiting(kind) == \E x \in t.flight : x.kind = kind /\ x.ran /\ (kind = "tick" => Calm)
Asked(kind) == \E x \in t.flight : Fresh(kind, x) /\ ~x.ran
Answered == \E x \in t.flight : Fresh("detail", x) /\ x.ran

Fairness ==
  /\ \A kind \in {"tick", "page", "detail", "matches"} :
       <>[]Waiting(kind) => []<><<\E x \in t.flight : x.kind = kind /\ Deliver(x)>>_vars
  /\ <>[]Asked("page") => []<><<\E x \in t.flight : Fresh("page", x) /\ Read(x)>>_vars
  /\ []<>Asked("detail") => []<><<\E x \in t.flight : Fresh("detail", x) /\ Read(x)>>_vars
  /\ []<>Answered => []<><<\E x \in t.flight : Fresh("detail", x) /\ Deliver(x)>>_vars

Spec == Init /\ [][Next]_vars /\ Fairness

-----------------------------------------------------------------------------
TypeOK ==
  /\ t.stack # <<>> /\ t.focus \in {"list", "detail"}
  /\ t.list.state \in {"unfiltered", "filtering", "applied"} /\ t.list.index \in Nat
  /\ {t.auto, t.begun, t.pageLoading, t.detailLoading, t.triggering, t.open} \subseteq BOOLEAN
  /\ t.content.kind \in {"empty", "loading", "detail", "error"}
  /\ \A x \in t.flight : x.kind \in {"page", "detail", "tick", "matches"}

\* Nothing waits for a message that will not come: a load in progress has
\* one answer on its way that will be taken, and none that will be taken
\* comes unasked.  Auto refresh, once the user has turned it on, has exactly one
\* timer of its own, however often it is turned off and on again and although
\* Init's may run beside it; before that no timer counts.
LoadsAwaited ==
  t.open =>
    /\ Cardinality({x \in t.flight : Fresh("page", x)}) = IF t.pageLoading THEN 1 ELSE 0
    /\ t.detailLoading => \E x \in t.flight : Fresh("detail", x) /\ x.key = t.current
    /\ IF t.begun
       THEN t.auto => Cardinality({x \in t.flight : Fresh("tick", x) /\ ~x.first}) = 1
       ELSE \A x \in t.flight : ~Fresh("tick", x)

\* The detail on display, and each one kept, was asked for since the rows of
\* the page were last read: coming back to a row never shows what it was
\* before the refresh.
DetailSinceReload ==
  /\ \A d \in t.cache : d.rows = currentPage(t).items
  /\ t.content.kind = "detail" /\ ~t.detailLoading => t.content.rows = currentPage(t).items

\* Each load has its answer, and none outlives the rows it was made for.
LoadsInOrder == TypeOK /\ LoadsAwaited /\ DetailSinceReload

Selection(m) == {itemKey(i) : i \in selectedItem(m)}

\* A refresh that arrives leaves the row selected that was, if it is still
\* there and the filter shows it, whatever its place is now.
SelectionKept ==
  [][\A x \in t.flight :
       Fresh("page", x) /\ x.ran /\ ~x.failed /\ Deliver(x) =>
         \A key \in Selection(t) :
           (\E i \in ToSet(Matching(x.page.items, t.list.filter)) : itemKey(i) = key)
             => Selection(t') = {key}]_vars

Place(m) == [n \in DOMAIN m.stack |-> <<m.stack[n].kind, m.stack[n].query>>]

\* What arrives never moves the user to another page, and a page that
\* arrives has the rows of the query of the page that is current.
AnswersStayOnTheirPage ==
  [][\A x \in t.flight : Deliver(x) =>
       /\ Place(t') = Place(t)
       /\ Front(t'.stack) = Front(t.stack)]_vars

\* A prompt goes to the agent it was begun for, whatever a refresh did to
\* the list in the meantime.
PromptGoesWhereShown ==
  [][submitTriggerPrompt =>
       LET sent == Head(store'.messages)
       IN t.target = [namespace |-> sent.namespace, agent |-> sent.recipient]]_vars

\* The header says that auto refresh is on, and nothing keeps it from reloading.
AutoIsOn == t.open /\ t.auto /\ ~t.triggering /\ t.list.state # "filtering"

Shown ==
  LET rows == Rows(store, currentPage(t).kind, currentPage(t).query)
  IN /\ currentPage(t).items = rows
     /\ VisibleItems(t.list) = Matching(rows, t.list.filter)
     /\ \A i \in selectedItem(t) :
          t.content.key = itemKey(i) /\ t.content.detail = renderTUIDetail(store, currentPage(t), i)

\* Once the user lets go and the records rest, auto refresh brings the rows
\* that match the filter, and the detail of the one that is selected, if the user
\* has turned it on: Init starts no timer that would be heard.
ShownInTheEnd == <>[](AutoIsOn /\ t.begun => Shown)

-----------------------------------------------------------------------------
(* The invariant that the proofs are by: of any model m, so that it can be *)
(* followed through the steps of a handler.                                *)

ModelFields ==
  {"stack", "list", "focus", "auto", "begun", "pageLoading", "detailLoading", "cache", "current",
   "content", "triggering", "target", "flight", "open"}

IsList(l) ==
  /\ DOMAIN l = {"items", "state", "filter", "found", "index"}
  /\ IsSeq(l.items) /\ IsSeq(l.found) /\ l.index \in Nat
  /\ l.state \in {"unfiltered", "filtering", "applied"}

IsContent(c) ==
  /\ DOMAIN c = {"kind", "key", "rows", "detail"}
  /\ c.kind \in {"empty", "loading", "detail", "error"}

IsTarget(to) == to = [namespace |-> to.namespace, agent |-> to.agent]

LoadFields == {"kind", "fresh", "ran", "failed", "page", "item", "key", "keep", "detail"}

\* A load that has not read yet will be taken, or it would have been
\* canceled.
IsMessage(x) ==
  /\ x.kind \in {"page", "detail", "tick", "matches"} /\ {x.fresh, x.ran} \subseteq BOOLEAN
  /\ x.kind \in {"page", "detail"} => DOMAIN x = LoadFields
  /\ x.kind = "page" => IsPage(x.page)
  /\ x.kind = "detail" => x.key # None
  /\ x.kind = "tick" => DOMAIN x = {"kind", "fresh", "ran", "first"} /\ x.first \in BOOLEAN
  /\ x.kind = "matches" => DOMAIN x = {"kind", "fresh", "ran", "items"} /\ IsSeq(x.items)
  /\ ~x.ran => x.fresh /\ x.kind \in {"page", "detail"}

Typed(m) ==
  /\ DOMAIN m = ModelFields
  /\ IsSeq(m.stack) /\ m.stack # <<>> /\ \A p \in ToSet(m.stack) : IsPage(p)
  /\ IsList(m.list) /\ m.focus \in {"list", "detail"}
  /\ {m.auto, m.pageLoading, m.detailLoading, m.triggering, m.open} \subseteq BOOLEAN
  /\ m.begun \in BOOLEAN
  /\ IsContent(m.content) /\ \A d \in m.cache : IsContent(d)
  /\ m.triggering => IsTarget(m.target)
  /\ \A x \in m.flight : IsMessage(x)

FreshOf(m, kind) == {x \in m.flight : Fresh(kind, x)}

Single(S) == \E x \in S : S = {x}

At(page) == <<page.kind, page.query>>

\* A reload in progress is the only one, and of the current page.
PageAwaited(m) ==
  /\ m.open => IF m.pageLoading THEN Single(FreshOf(m, "page")) ELSE FreshOf(m, "page") = {}
  /\ \A x \in FreshOf(m, "page") : At(x.page) = At(currentPage(m))

OwnTimers(m) == {x \in FreshOf(m, "tick") : ~x.first}

TimerRuns(m) ==
  m.open => IF m.begun THEN m.auto => Single(OwnTimers(m)) ELSE FreshOf(m, "tick") = {}

DetailAwaited(m) ==
  m.open /\ m.detailLoading => \E x \in FreshOf(m, "detail") : x.key = m.current

KeptDetails(m) == \A d \in m.cache : d.rows = currentPage(m).items

\* A detail on its way was asked for by the rows of an earlier reload ...
Overtaken(m) == \E x \in FreshOf(m, "detail") : x.page.items # currentPage(m).items

\* ... only as long as no row has been selected since.
DetailCurrent(m) ==
  /\ KeptDetails(m)
  /\ m.content.kind = "detail" /\ ~m.detailLoading => m.content.rows = currentPage(m).items
  /\ Overtaken(m) => m.cache = {} /\ m.current = None

ModelSound(m) ==
  Typed(m) /\ PageAwaited(m) /\ TimerRuns(m) /\ DetailAwaited(m) /\ DetailCurrent(m)

\* A program that has quit takes no message.
TuiInv == IsStore(store) /\ ModelSound(t) /\ (t.open \/ t.flight = {})
=============================================================================
