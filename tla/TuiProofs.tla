------------------------------ MODULE TuiProofs ------------------------------
(***************************************************************************)
(* Proofs about the event loop of `swarmd tui`: every load has its answer  *)
(* and no detail outlives its rows, an answer never moves the user, a      *)
(* refresh keeps the selection, and a prompt goes to the agent it was      *)
(* begun for, whatever the records, the keys and the order of messages.    *)
(***************************************************************************)
EXTENDS Tui, FiniteSetTheorems, SequenceTheorems, WellFoundedInduction, TLAPS

-----------------------------------------------------------------------------
(* Sequences, of whatever elements.                                        *)

LEMMA SeqTyped ==
  ASSUME NEW S, NEW s \in Seq(S)
  PROVE  IsSeq(s)
<1>1. \A i \in 1..Len(s) : s[i] \in ToSet(s)
  BY DEF ToSet
<1> QED
  BY <1>1 DEF IsSeq

LEMMA SeqRange ==
  ASSUME NEW s, IsSeq(s)
  PROVE  /\ Len(s) \in Nat /\ DOMAIN s = 1..Len(s)
         /\ \A i \in 1..Len(s) : s[i] \in ToSet(s)
         /\ s # <<>> <=> Len(s) > 0
  BY DEF IsSeq

LEMMA MadeSeq ==
  ASSUME NEW n \in Nat, NEW s, DOMAIN s = 1..n, s = [i \in 1..n |-> s[i]]
  PROVE  IsSeq(s)
<1>1. \A i \in 1..n : s[i] \in ToSet(s)
  BY DEF ToSet
<1>2. s \in [1..n -> ToSet(s)]
  BY <1>1
<1> QED
  BY <1>2 DEF IsSeq

\* All of a sequence but its last element, and another one there.
LEMMA SeqFront ==
  ASSUME NEW s, IsSeq(s), s # <<>>
  PROVE  /\ IsSeq(Front(s)) /\ ToSet(Front(s)) \subseteq ToSet(s)
         /\ Len(Front(s)) = Len(s) - 1
         /\ \A i \in 1..Len(s) - 1 : Front(s)[i] = s[i]
         /\ Last(s) \in ToSet(s)
<1>1. Len(s) \in Nat \ {0} /\ s \in Seq(ToSet(s))
  BY DEF IsSeq
<1>2. /\ Front(s) \in Seq(ToSet(s)) /\ Len(Front(s)) = Len(s) - 1
      /\ \A i \in 1..Len(s) - 1 : Front(s)[i] = s[i]
  <2>1. PICK n \in Nat : n = Len(s) - 1
    BY <1>1
  <2> DEFINE u == SubSeq(s, 1, n)
  <2>2. \A i \in 1..n : s[i] \in ToSet(s)
    BY <1>1, <2>1
  <2>3. /\ u \in Seq(ToSet(s))
        /\ Len(u) = IF 1 <= n THEN n - 1 + 1 ELSE 0
        /\ \A i \in 1..n - 1 + 1 : u[i] = s[1 + i - 1]
    BY <2>2, SubSeqProperties
  <2> HIDE DEF u
  <2>4. Len(u) = n
    BY <2>3
  <2>5. \A i \in 1..n : u[i] = s[i]
    BY <2>3
  <2>6. Front(s) = u
    BY <2>1 DEF Front, u
  <2> QED
    BY <2>1, <2>3, <2>4, <2>5, <2>6
<1>3. IsSeq(Front(s))
  BY <1>2, SeqTyped
<1>4. ToSet(Front(s)) \subseteq ToSet(s)
  BY <1>1, <1>2 DEF ToSet
<1>5. Last(s) \in ToSet(s)
  BY <1>1 DEF Last, ToSet
<1> QED
  BY <1>2, <1>3, <1>4, <1>5

LEMMA SeqAppend ==
  ASSUME NEW s, NEW e, IsSeq(s)
  PROVE  /\ IsSeq(Append(s, e)) /\ Append(s, e) # <<>>
         /\ ToSet(Append(s, e)) = ToSet(s) \cup {e}
         /\ Len(Append(s, e)) = Len(s) + 1
         /\ \A i \in 1..Len(s) : Append(s, e)[i] = s[i]
         /\ Append(s, e)[Len(s) + 1] = e
         /\ Last(Append(s, e)) = e /\ Front(Append(s, e)) = s
<1> DEFINE S == ToSet(s) \cup {e}
           u == Append(s, e)
<1>1. Len(s) \in Nat /\ s \in Seq(S) /\ e \in S
  BY DEF IsSeq
<1>2. /\ u \in Seq(S) /\ Len(u) = Len(s) + 1
      /\ \A i \in 1..Len(s) : u[i] = s[i]
      /\ u[Len(s) + 1] = e
  BY <1>1
<1>3. IsSeq(u)
  BY <1>2, SeqTyped
<1>4. ToSet(u) = S
  <2>1. 1..Len(u) = 1..Len(s) \cup {Len(s) + 1}
    BY <1>1, <1>2
  <2>2. DOMAIN u = 1..Len(u) /\ DOMAIN s = 1..Len(s)
    BY <1>1, <1>2
  <2> HIDE DEF u
  <2> QED
    BY <1>2, <2>1, <2>2 DEF ToSet
<1>5. u # <<>> /\ Last(u) = e
  BY <1>1, <1>2 DEF Last
<1>6. Front(u) = s
  BY <1>1, <1>2 DEF Front
<1> QED
  BY <1>2, <1>3, <1>4, <1>5, <1>6

LEMMA SeqConcat ==
  ASSUME NEW s, NEW u, IsSeq(s), IsSeq(u), u # <<>>
  PROVE  /\ IsSeq(s \o u) /\ s \o u # <<>> /\ Last(s \o u) = Last(u)
         /\ ToSet(s \o u) \subseteq ToSet(s) \cup ToSet(u)
<1> DEFINE S == ToSet(s) \cup ToSet(u)
<1>1. /\ Len(s) \in Nat /\ s \in Seq(S)
      /\ Len(u) \in Nat \ {0} /\ u \in Seq(S)
  BY DEF IsSeq
<1>2. /\ s \o u \in Seq(S) /\ Len(s \o u) = Len(s) + Len(u)
      /\ (s \o u)[Len(s) + Len(u)] = u[Len(u)]
  BY <1>1
<1>3. IsSeq(s \o u)
  BY <1>2, SeqTyped
<1>6. s \o u # <<>>
  BY <1>1, <1>2
<1>4. Last(s \o u) = Last(u)
  BY <1>2 DEF Last
<1>5. ToSet(s \o u) \subseteq S
  <2> DEFINE w == s \o u
  <2>1. w \in Seq(S)
    BY <1>2
  <2> HIDE DEF w, S
  <2>2. ToSet(w) \subseteq S
    BY <2>1 DEF ToSet
  <2> QED
    BY <2>2 DEF w
<1> QED
  BY <1>3, <1>4, <1>5, <1>6

LEMMA OneElement ==
  ASSUME NEW e
  PROVE  /\ IsSeq(<<e>>) /\ <<e>> # <<>> /\ ToSet(<<e>>) = {e}
         /\ Last(<<e>>) = e /\ Len(<<e>>) = 1 /\ Front(<<e>>) = <<>>
<1>1. <<e>> \in Seq({e})
  OBVIOUS
<1>2. IsSeq(<<e>>) /\ <<e>> # <<>> /\ Len(<<e>>) = 1 /\ Last(<<e>>) = e
  BY <1>1, SeqTyped DEF Last
<1>3. ToSet(<<e>>) = {e}
  BY DEF ToSet
<1>4. Front(<<e>>) = <<>>
  BY SeqFront, <1>2
<1> QED
  BY <1>2, <1>3, <1>4

-----------------------------------------------------------------------------
(* Lists of the store.                                                     *)

LEMMA PlacesCounted ==
  ASSUME NEW s, IsSeq(s), NEW P, P \subseteq DOMAIN s
  PROVE  Cardinality(P) \in Nat
<1>1. IsFiniteSet(1..Len(s))
  BY SeqRange, FS_Interval
<1>2. P \subseteq 1..Len(s)
  BY SeqRange
<1> QED
  BY <1>1, <1>2, FS_Subset, FS_CardinalityType

LEMMA Listed ==
  ASSUME NEW s, IsSeq(s), NEW P, P \subseteq DOMAIN s,
         NEW r, r = [i \in 1..Cardinality(P) |-> r[i]]
  PROVE  IsSeq(r)
<1>1. Cardinality(P) \in Nat
  BY PlacesCounted
<1>2. DOMAIN r = 1..Cardinality(P)
  OBVIOUS
<1> QED
  BY <1>1, <1>2, MadeSeq

LEMMA LimitedSeq ==
  ASSUME NEW s, IsSeq(s)
  PROVE  IsSeq(Limited(s))
<1>1. PICK n \in Nat : n = (IF Len(s) < PageLimit THEN Len(s) ELSE PageLimit) /\ n <= Len(s)
  BY SeqRange, PageLimitAssumption
<1>2. \A i \in 1..n : s[i] \in ToSet(s)
  BY <1>1, SeqRange
<1>3. SubSeq(s, 1, n) \in Seq(ToSet(s))
  BY <1>2, SubSeqProperties
<1> QED
  BY <1>1, <1>3, SeqTyped DEF Limited

LEMMA MatchingSeq ==
  ASSUME NEW items, NEW filter, IsSeq(items)
  PROVE  IsSeq(Matching(items, filter))
<1> DEFINE P == {n \in DOMAIN items : ToSet(filter) \subseteq {items[n].agent}}
           r == Matching(items, filter)
<1>1. r = [i \in 1..Cardinality(P) |-> r[i]]
  BY DEF Matching, Those, Ordered
<1> QED
  BY <1>1, Listed

LEMMA AgentsListed ==
  ASSUME NEW s, NEW q, IsStore(s)
  PROVE  IsSeq(ListAgents(s, q))
<1> DEFINE P == {n \in DOMAIN s.agents : Of(q.namespace, "", s.agents[n].namespace)}
           r == ListAgents(s, q)
<1>1. r = [i \in 1..Cardinality(P) |-> r[i]]
  BY DEF ListAgents, Those, Ordered
<1> QED
  BY <1>1, Listed DEF IsStore

LEMMA AgentListed ==
  ASSUME NEW s, NEW q, IsStore(s)
  PROVE  IsSeq(GetAgent(s, q))
<1> DEFINE P == {n \in DOMAIN s.agents : s.agents[n].namespace = q.namespace /\ s.agents[n].id = q.agent}
           r == GetAgent(s, q)
<1>1. r = [i \in 1..Cardinality(P) |-> r[i]]
  BY DEF GetAgent, Those, Ordered
<1> QED
  BY <1>1, Listed DEF IsStore

LEMMA MessageListed ==
  ASSUME NEW s, NEW q, IsStore(s)
  PROVE  IsSeq(GetMailboxMessage(s, q))
<1> DEFINE P == {n \in DOMAIN s.messages : s.messages[n].namespace = q.namespace /\ s.messages[n].id = q.message}
           r == GetMailboxMessage(s, q)
<1>1. r = [i \in 1..Cardinality(P) |-> r[i]]
  BY DEF GetMailboxMessage, Those, Ordered
<1> QED
  BY <1>1, Listed DEF IsStore

LEMMA RunListed ==
  ASSUME NEW s, NEW q, IsStore(s)
  PROVE  IsSeq(GetRun(s, q))
<1> DEFINE P == {n \in DOMAIN s.runs : s.runs[n].namespace = q.namespace /\ s.runs[n].id = q.run}
           r == GetRun(s, q)
<1>1. r = [i \in 1..Cardinality(P) |-> r[i]]
  BY DEF GetRun, Those, Ordered
<1> QED
  BY <1>1, Listed DEF IsStore

LEMMA StepsListed ==
  ASSUME NEW s, NEW q, IsStore(s)
  PROVE  IsSeq(ListStepsByRun(s, q))
<1> DEFINE P == {n \in DOMAIN s.steps : s.steps[n].namespace = q.namespace /\ s.steps[n].run = q.run}
           r == ListStepsByRun(s, q)
<1>1. r = [i \in 1..Cardinality(P) |-> r[i]]
  BY DEF ListStepsByRun, Those, Ordered
<1> QED
  BY <1>1, Listed DEF IsStore

LEMMA SchedulesListed ==
  ASSUME NEW s, NEW ns, NEW a, IsStore(s)
  PROVE  IsSeq(loadSchedules(s, ns, a))
<1> DEFINE P == {n \in DOMAIN s.schedules : Of(ns, "", s.schedules[n].namespace) /\ Of(a, "", s.schedules[n].agent)}
           r == loadSchedules(s, ns, a)
<1>1. r = [i \in 1..Cardinality(P) |-> r[i]]
  BY DEF loadSchedules, Those, Ordered
<1> QED
  BY <1>1, Listed DEF IsStore

LEMMA MessagesListed ==
  ASSUME NEW s, NEW q, IsStore(s)
  PROVE  IsSeq(ListMailboxMessages(s, q))
<1> DEFINE P == {n \in DOMAIN s.messages : /\ Of(q.namespace, "", s.messages[n].namespace)
             /\ q.agent \in {"", s.messages[n].recipient, s.messages[n].sender}}
           r == Those(s.messages, LAMBDA x :
                  /\ Of(q.namespace, "", x.namespace)
                  /\ q.agent \in {"", x.recipient, x.sender})
<1>1. r = [i \in 1..Cardinality(P) |-> r[i]]
  BY DEF Those, Ordered
<1>2. IsSeq(r)
  BY <1>1, Listed DEF IsStore
<1> QED
  BY <1>2, LimitedSeq DEF ListMailboxMessages

LEMMA RunsListed ==
  ASSUME NEW s, NEW q, IsStore(s)
  PROVE  IsSeq(ListRuns(s, q))
<1> DEFINE P == {n \in DOMAIN s.runs : /\ Of(q.namespace, "", s.runs[n].namespace)
             /\ Of(q.agent, "", s.runs[n].agent)}
           r == Those(s.runs, LAMBDA x :
                  Of(q.namespace, "", x.namespace) /\ Of(q.agent, "", x.agent))
<1>1. r = [i \in 1..Cardinality(P) |-> r[i]]
  BY DEF Those, Ordered
<1>2. IsSeq(r)
  BY <1>1, Listed DEF IsStore
<1> QED
  BY <1>2, LimitedSeq DEF ListRuns

LEMMA ThreadListed ==
  ASSUME NEW s, NEW q, IsStore(s)
  PROVE  IsSeq(ListThreadMessages(s, q))
<1> DEFINE P == {n \in DOMAIN s.messages : /\ s.messages[n].namespace = q.namespace
             /\ s.messages[n].thread = q.thread}
           r == Ordered(s.messages, P, LAMBDA p, n : s.messages[p].id < s.messages[n].id)
<1>1. r = [i \in 1..Cardinality(P) |-> r[i]]
  BY DEF Ordered
<1>2. IsSeq(r)
  BY <1>1, Listed DEF IsStore
<1> QED
  BY <1>2, LimitedSeq DEF ListThreadMessages

-----------------------------------------------------------------------------
(* Pages and records.                                                      *)

LEMMA EachMade ==
  ASSUME NEW s, IsSeq(s), NEW r, r = [n \in DOMAIN s |-> r[n]]
  PROVE  IsSeq(r)
<1>1. Len(s) \in Nat /\ DOMAIN s = 1..Len(s)
  BY SeqRange
<1>2. r = [n \in 1..Len(s) |-> r[n]]
  BY <1>1
<1>3. DOMAIN r = 1..Len(s)
  BY <1>2
<1> QED
  BY <1>1, <1>2, <1>3, MadeSeq

LEMMA RowsSeq ==
  ASSUME NEW s, NEW kind \in DOMAIN RowKind, NEW q, IsStore(s)
  PROVE  IsSeq(Rows(s, kind, q))
<1> DEFINE r == Rows(s, kind, q)
<1>1. CASE kind = "namespaces"
  <2>1. r = [n \in DOMAIN s.namespaces |->
             Item("namespace", s.namespaces[n], s.namespaces[n], SnapshotNamespace(s, s.namespaces[n]))]
    BY <1>1 DEF Rows, Each
  <2>2. r = [n \in DOMAIN s.namespaces |-> r[n]]
    BY <2>1
  <2> QED
    BY <2>2, EachMade DEF IsStore
<1>2. CASE kind = "agents"
  <2> DEFINE l == IF q.agent # "" THEN GetAgent(s, q) ELSE ListAgents(s, q)
  <2>1. r = [n \in DOMAIN l |-> r[n]]
    BY <1>2 DEF Rows, Each
  <2>2. IsSeq(l)
    BY AgentListed, AgentsListed
  <2> QED
    BY <2>1, <2>2, EachMade
<1>3. CASE kind = "mailbox"
  <2> DEFINE l == IF q.message # 0 THEN GetMailboxMessage(s, q) ELSE ListMailboxMessages(s, q)
  <2>1. r = [n \in DOMAIN l |-> r[n]]
    BY <1>3 DEF Rows, Each
  <2>2. IsSeq(l)
    BY MessageListed, MessagesListed
  <2> QED
    BY <2>1, <2>2, EachMade
<1>4. CASE kind = "runs"
  <2> DEFINE l == IF q.run # 0 THEN GetRun(s, q) ELSE ListRuns(s, q)
  <2>1. r = [n \in DOMAIN l |-> r[n]]
    BY <1>4 DEF Rows, Each
  <2>2. IsSeq(l)
    BY RunListed, RunsListed
  <2> QED
    BY <2>1, <2>2, EachMade
<1>5. CASE kind = "schedules"
  <2> DEFINE l == loadSchedules(s, q.namespace, q.agent)
  <2>1. r = [n \in DOMAIN l |-> r[n]]
    BY <1>5 DEF Rows, Each
  <2> QED
    BY <2>1, SchedulesListed, EachMade
<1>6. CASE kind = "thread"
  <2> DEFINE l == ListThreadMessages(s, q)
  <2>1. r = [n \in DOMAIN l |-> r[n]]
    BY <1>6 DEF Rows, Each
  <2> QED
    BY <2>1, ThreadListed, EachMade
<1>7. CASE kind = "steps"
  <2> DEFINE l == ListStepsByRun(s, q)
  <2>1. r = [n \in DOMAIN l |-> r[n]]
    BY <1>7 DEF Rows, Each
  <2> QED
    BY <2>1, StepsListed, EachMade
<1>8. kind \in {"namespaces", "agents", "mailbox", "runs", "schedules", "thread", "steps"}
  BY DEF RowKind
<1> QED
  BY <1>1, <1>2, <1>3, <1>4, <1>5, <1>6, <1>7, <1>8

LEMMA CursorClamped ==
  ASSUME NEW items, IsSeq(items), NEW cursor \in Int
  PROVE  clampCursor(cursor, items) \in Nat
<1>1. Len(items) \in Nat /\ (items # <<>> <=> Len(items) > 0)
  BY SeqRange
<1> QED
  BY <1>1 DEF clampCursor

\* A page with another cursor.
LEMMA PageMoved ==
  ASSUME NEW p, IsPage(p), NEW cursor \in Nat,
         NEW q, q = [p EXCEPT !.cursor = cursor]
  PROVE  IsPage(q) /\ At(q) = At(p) /\ q.items = p.items
BY DEF IsPage, At

LEMMA PageLoaded ==
  ASSUME NEW s, IsStore(s), NEW p, IsPage(p)
  PROVE  IsPage(loadTUIPage(s, p)) /\ At(loadTUIPage(s, p)) = At(p)
<1> DEFINE items == Rows(s, p.kind, p.query)
           cursor == clampCursor(p.cursor, items)
<1>1. IsSeq(items)
  BY RowsSeq DEF IsPage
<1>2. cursor \in Nat
  BY <1>1, CursorClamped DEF IsPage
<1>3. loadTUIPage(s, p) = [p EXCEPT !.items = items, !.cursor = cursor]
  BY DEF loadTUIPage
<1> HIDE DEF items, cursor
<1> QED
  BY <1>1, <1>2, <1>3 DEF IsPage, At

LEMMA PageMade ==
  ASSUME NEW kind \in DOMAIN RowKind, NEW q
  PROVE  IsPage(Page(kind, q))
<1>1. IsSeq(<<>>)
  BY EmptySeq, SeqTyped
<1> QED
  BY <1>1 DEF Page, IsPage

-----------------------------------------------------------------------------
(* Models that differ in some fields only, and their messages.             *)

Differ(m, n, fields) ==
  /\ DOMAIN m = ModelFields /\ DOMAIN n = ModelFields
  /\ \A f \in ModelFields \ fields : n[f] = m[f]

Messages(m) == \A x \in m.flight : IsMessage(x)

LEMMA MessageOutdated ==
  ASSUME NEW x, IsMessage(x), NEW y, y = [x EXCEPT !.fresh = FALSE, !.ran = TRUE]
  PROVE  IsMessage(y) /\ y.kind = x.kind /\ y.fresh = FALSE
<1>1. CASE x.kind \in {"page", "detail"}
  BY <1>1 DEF IsMessage, LoadFields
<1>2. CASE x.kind = "tick"
  BY <1>2 DEF IsMessage
<1>3. CASE x.kind = "matches"
  BY <1>3 DEF IsMessage
<1> QED
  BY <1>1, <1>2, <1>3 DEF IsMessage

LEMMA Outdated ==
  ASSUME NEW m, DOMAIN m = ModelFields, Messages(m), NEW kind, NEW n, n = Outdate(m, kind)
  PROVE  /\ Differ(m, n, {"flight"}) /\ Messages(n)
         /\ FreshOf(n, kind) = {}
         /\ \A k : k # kind => FreshOf(n, k) = FreshOf(m, k)
<1> DEFINE Old(x) == [x EXCEPT !.fresh = FALSE, !.ran = TRUE]
           F == {IF x.kind = kind THEN Old(x) ELSE x : x \in m.flight}
<1>1. n = [m EXCEPT !.flight = F]
  BY DEF Outdate
<1>2. ASSUME NEW x \in m.flight
      PROVE  IsMessage(Old(x)) /\ Old(x).kind = x.kind /\ Old(x).fresh = FALSE
  BY MessageOutdated DEF Messages
<1> HIDE DEF Old
<1>3. \A y \in F : IsMessage(y) /\ (y.kind = kind => y.fresh = FALSE)
  BY <1>2 DEF Messages
<1>4. \A k : k # kind => {y \in F : Fresh(k, y)} = {y \in m.flight : Fresh(k, y)}
  <2> TAKE k
  <2> HAVE k # kind
  <2>1. ASSUME NEW y \in F, Fresh(k, y) PROVE y \in m.flight
    <3>1. PICK x \in m.flight : y = IF x.kind = kind THEN Old(x) ELSE x
      OBVIOUS
    <3> QED
      BY <1>2, <2>1, <3>1 DEF Fresh
  <2>2. ASSUME NEW y \in m.flight, Fresh(k, y) PROVE y \in F
    <3>1. y = IF y.kind = kind THEN Old(y) ELSE y
      BY <2>2 DEF Fresh
    <3> QED
      BY <3>1
  <2> QED
    BY <2>1, <2>2
<1> HIDE DEF F
<1>5. Differ(m, n, {"flight"}) /\ n.flight = F
  BY <1>1 DEF Differ, ModelFields
<1> QED
  BY <1>3, <1>4, <1>5 DEF Messages, FreshOf, Fresh

LEMMA Sent ==
  ASSUME NEW m, DOMAIN m = ModelFields, Messages(m), NEW x, IsMessage(x),
         NEW kind, Fresh(kind, x), NEW n, n = Send(m, x)
  PROVE  /\ Differ(m, n, {"flight"}) /\ Messages(n)
         /\ FreshOf(n, kind) = FreshOf(m, kind) \cup {x}
         /\ \A k : k # kind => FreshOf(n, k) = FreshOf(m, k)
<1>1. Differ(m, n, {"flight"}) /\ n.flight = m.flight \cup {x}
  BY DEF Differ, ModelFields, Send
<1>2. Messages(n)
  BY <1>1 DEF Messages
<1> QED
  BY <1>1, <1>2 DEF FreshOf, Fresh

LEMMA PageAsked ==
  ASSUME NEW page, IsPage(page), NEW x, x = Load("page", page, None, None, FALSE)
  PROVE  IsMessage(x) /\ Fresh("page", x) /\ x.page = page
BY DEF Load, IsMessage, LoadFields, Fresh

LEMMA DetailAsked ==
  ASSUME NEW page, NEW item, NEW key, key # None, NEW keep,
         NEW x, x = Load("detail", page, item, key, keep)
  PROVE  IsMessage(x) /\ Fresh("detail", x) /\ x.page = page /\ x.key = key
BY DEF Load, IsMessage, LoadFields, Fresh

\* Init's timer becomes one of the program's, which had none.
LEMMA AutoBegun ==
  ASSUME NEW m, DOMAIN m = ModelFields, Messages(m), NEW n, n = Begin(m)
  PROVE  /\ Differ(m, n, {"flight", "begun"}) /\ n.begun = TRUE /\ Messages(n)
         /\ OwnTimers(n) = OwnTimers(m)
         /\ \A k : k # "tick" => FreshOf(n, k) = FreshOf(m, k)
<1> DEFINE Now(x) == [x EXCEPT !.fresh = TRUE]
           Init1(x) == x.kind = "tick" /\ x.first
           F == {IF Init1(x) THEN Now(x) ELSE x : x \in m.flight}
<1>1. Differ(m, n, {"flight", "begun"}) /\ n.flight = F /\ n.begun = TRUE
  BY DEF Begin, Differ, ModelFields
<1>2. ASSUME NEW x \in m.flight, Init1(x)
      PROVE  IsMessage(Now(x)) /\ Now(x).kind = "tick" /\ Now(x).first
  BY <1>2 DEF Messages, IsMessage
<1> HIDE DEF Now
<1>3. Messages(n)
  BY <1>1, <1>2 DEF Messages
<1>4. ASSUME NEW y, NEW k, k # "tick" \/ ~y.first
      PROVE  y \in F /\ Fresh(k, y) <=> y \in m.flight /\ Fresh(k, y)
  <2>1. ASSUME y \in F, Fresh(k, y) PROVE y \in m.flight
    <3>1. PICK x \in m.flight : y = IF Init1(x) THEN Now(x) ELSE x
      BY <2>1
    <3> QED
      BY <1>2, <1>4, <2>1, <3>1 DEF Fresh
  <2>2. ASSUME y \in m.flight, Fresh(k, y) PROVE y \in F
    <3>1. y = IF Init1(y) THEN Now(y) ELSE y
      BY <1>4, <2>2 DEF Fresh
    <3> QED
      BY <2>2, <3>1
  <2> QED
    BY <2>1, <2>2
<1> HIDE DEF F
<1>5. OwnTimers(n) = OwnTimers(m)
  BY <1>1, <1>4 DEF OwnTimers, FreshOf
<1>6. \A k : k # "tick" => FreshOf(n, k) = FreshOf(m, k)
  BY <1>1, <1>4 DEF FreshOf
<1> QED
  BY <1>1, <1>3, <1>5, <1>6

\* Other messages, and nothing else.
LEMMA TypedMessages ==
  ASSUME NEW m, Typed(m), NEW n, Differ(m, n, {"flight"}), Messages(n)
  PROVE  Typed(n)
BY DEF Typed, Differ, ModelFields, Messages

\* The marks of the loads, and nothing else.
LEMMA TypedLoading ==
  ASSUME NEW m, Typed(m), NEW n, Differ(m, n, {"pageLoading", "detailLoading"}),
         n.pageLoading \in BOOLEAN, n.detailLoading \in BOOLEAN
  PROVE  Typed(n)
<1>1. /\ DOMAIN n = ModelFields /\ n.stack = m.stack /\ n.list = m.list /\ n.focus = m.focus
      /\ n.auto = m.auto /\ n.begun = m.begun /\ n.content = m.content /\ n.cache = m.cache
      /\ n.triggering = m.triggering /\ n.target = m.target /\ n.flight = m.flight
      /\ n.open = m.open
  BY DEF Differ, ModelFields
<1>2. {m.auto, m.triggering, m.open} \subseteq BOOLEAN
  BY DEF Typed
<1>3. {n.auto, n.pageLoading, n.detailLoading, n.triggering, n.open} \subseteq BOOLEAN
  BY <1>1, <1>2
<1> QED
  BY <1>1, <1>3 DEF Typed

LEMMA ReloadRequested ==
  ASSUME NEW m, ModelSound(m), NEW n, n = requestPageReload(m)
  PROVE  ModelSound(n) /\ n.open = m.open /\ n.stack = m.stack
<1>1. CASE m.pageLoading
  BY <1>1 DEF requestPageReload
<1>2. CASE ~m.pageLoading
  <2> DEFINE o == Outdate(m, "page")
             x == Load("page", currentPage(m), None, None, FALSE)
             u == Send(o, x)
  <2>1. /\ Typed(m) /\ DOMAIN m = ModelFields /\ Messages(m)
        /\ IsPage(currentPage(m))
    BY SeqFront DEF ModelSound, Typed, Messages, currentPage
  <2>2. /\ Differ(m, o, {"flight"}) /\ Messages(o) /\ FreshOf(o, "page") = {}
        /\ \A k : k # "page" => FreshOf(o, k) = FreshOf(m, k)
    BY <2>1, Outdated
  <2>3. IsMessage(x) /\ Fresh("page", x) /\ x.page = currentPage(m)
    BY <2>1, PageAsked
  <2>4. n = [u EXCEPT !.pageLoading = TRUE]
    BY <1>2 DEF requestPageReload
  <2> HIDE DEF o, x
  <2>5. /\ Differ(o, u, {"flight"}) /\ Messages(u)
        /\ FreshOf(u, "page") = {x}
        /\ \A k : k # "page" => FreshOf(u, k) = FreshOf(o, k)
    BY <2>2, <2>3, Sent DEF Differ
  <2> HIDE DEF u
  <2>6. Differ(m, u, {"flight"})
    BY <2>2, <2>5 DEF Differ
  <2>7. Typed(u)
    BY <2>1, <2>5, <2>6, TypedMessages
  <2>8. Differ(u, n, {"pageLoading"}) /\ n.pageLoading = TRUE
    BY <2>4, <2>6 DEF Differ, ModelFields
  <2>9. Typed(n)
    <3>1. n.detailLoading = u.detailLoading
      BY <2>8 DEF Differ, ModelFields
    <3>2. Differ(u, n, {"pageLoading", "detailLoading"}) /\ n.detailLoading \in BOOLEAN
      BY <2>7, <2>8, <3>1 DEF Differ, Typed
    <3> QED
      BY <2>7, <2>8, <3>2, TypedLoading
  <2>10. \A k : FreshOf(n, k) = FreshOf(u, k)
    BY <2>8 DEF Differ, ModelFields, FreshOf
  <2>11. /\ n.stack = m.stack /\ n.open = m.open /\ n.auto = m.auto /\ n.begun = m.begun
         /\ n.detailLoading = m.detailLoading /\ n.current = m.current
         /\ n.cache = m.cache /\ n.content = m.content
    BY <2>6, <2>8 DEF Differ, ModelFields
  <2>12. PageAwaited(n)
    BY <2>3, <2>5, <2>8, <2>10, <2>11 DEF PageAwaited, Single, currentPage
  <2>13. /\ FreshOf(n, "tick") = FreshOf(m, "tick")
         /\ FreshOf(n, "detail") = FreshOf(m, "detail")
    BY <2>2, <2>5, <2>10
  <2>14. TimerRuns(n)
    BY <2>11, <2>13 DEF TimerRuns, OwnTimers, ModelSound
  <2>15. DetailAwaited(n)
    BY <2>11, <2>13 DEF DetailAwaited, ModelSound
  <2>16. DetailCurrent(n)
    BY <2>11, <2>13 DEF DetailCurrent, KeptDetails, Overtaken, currentPage, ModelSound
  <2> QED
    BY <2>9, <2>11, <2>12, <2>14, <2>15, <2>16 DEF ModelSound
<1> QED
  BY <1>1, <1>2

\* All but the timer.
LoadsSound(m) == Typed(m) /\ PageAwaited(m) /\ DetailAwaited(m) /\ DetailCurrent(m)

\* What the loads' conditions depend on.
LEMMA LoadsStay ==
  ASSUME NEW m, LoadsSound(m), NEW n, Typed(n),
         FreshOf(n, "page") = FreshOf(m, "page"), FreshOf(n, "detail") = FreshOf(m, "detail"),
         Differ(m, n, {"flight", "focus", "auto", "begun", "triggering", "target", "list"})
  PROVE  LoadsSound(n)
<1>1. /\ n.stack = m.stack /\ n.open = m.open /\ n.pageLoading = m.pageLoading
      /\ n.detailLoading = m.detailLoading /\ n.current = m.current
      /\ n.cache = m.cache /\ n.content = m.content
  BY DEF Differ, ModelFields
<1>2. PageAwaited(n)
  BY <1>1 DEF PageAwaited, currentPage, LoadsSound
<1>3. DetailAwaited(n)
  BY <1>1 DEF DetailAwaited, LoadsSound
<1>4. DetailCurrent(n)
  BY <1>1 DEF DetailCurrent, KeptDetails, Overtaken, currentPage, LoadsSound
<1> QED
  BY <1>2, <1>3, <1>4 DEF LoadsSound

LEMMA TimerSet ==
  ASSUME NEW m, LoadsSound(m), m.open => m.begun \/ FreshOf(m, "tick") = {},
         NEW n, n = nextAutoRefreshCmd(m)
  PROVE  ModelSound(n) /\ n.open = m.open /\ n.stack = m.stack
<1>1. CASE ~m.auto
  BY <1>1 DEF nextAutoRefreshCmd, ModelSound, LoadsSound, TimerRuns
<1>2. CASE m.auto
  <2> DEFINE o == IF m.begun THEN Outdate(m, "tick") ELSE Begin(m)
  <2>1. Typed(m) /\ DOMAIN m = ModelFields /\ Messages(m) /\ m.begun \in BOOLEAN
    BY DEF LoadsSound, Typed, Messages
  <2>2. /\ Differ(m, o, {"flight", "begun"}) /\ o.begun = TRUE /\ Messages(o)
        /\ m.open => OwnTimers(o) = {}
        /\ \A k : k # "tick" => FreshOf(o, k) = FreshOf(m, k)
    <3>1. CASE m.begun
      <4>1. /\ Differ(m, o, {"flight"}) /\ Messages(o) /\ FreshOf(o, "tick") = {}
            /\ \A k : k # "tick" => FreshOf(o, k) = FreshOf(m, k)
        BY <2>1, <3>1, Outdated
      <4> HIDE DEF o
      <4> QED
        BY <2>1, <3>1, <4>1 DEF Differ, ModelFields, OwnTimers
    <3>2. CASE ~m.begun
      <4>1. /\ Differ(m, o, {"flight", "begun"}) /\ o.begun = TRUE /\ Messages(o)
            /\ OwnTimers(o) = OwnTimers(m)
            /\ \A k : k # "tick" => FreshOf(o, k) = FreshOf(m, k)
        BY <2>1, <3>2, AutoBegun
      <4> HIDE DEF o
      <4> QED
        BY <3>2, <4>1 DEF OwnTimers
    <3> QED
      BY <3>1, <3>2
  <2>3. IsMessage(Tick) /\ Fresh("tick", Tick) /\ ~Tick.first
    BY DEF IsMessage, Tick, Fresh
  <2>4. n = Send(o, Tick)
    BY <1>2 DEF nextAutoRefreshCmd
  <2> HIDE DEF o
  <2>5. /\ Differ(o, n, {"flight"}) /\ Messages(n)
        /\ FreshOf(n, "tick") = FreshOf(o, "tick") \cup {Tick}
        /\ \A k : k # "tick" => FreshOf(n, k) = FreshOf(o, k)
    BY <2>2, <2>3, <2>4, Sent DEF Differ
  <2>6. Differ(m, n, {"flight", "begun"}) /\ n.begun = TRUE
    BY <2>2, <2>5 DEF Differ, ModelFields
  <2>7. Typed(n)
    BY <2>1, <2>5, <2>6 DEF Typed, Differ, ModelFields, Messages
  <2>8. LoadsSound(n)
    BY <2>2, <2>5, <2>6, <2>7, LoadsStay DEF Differ
  <2>9. n.open = m.open /\ n.stack = m.stack
    BY <2>6 DEF Differ, ModelFields
  <2>10. OwnTimers(n) = OwnTimers(o) \cup {Tick}
    BY <2>3, <2>5 DEF OwnTimers
  <2>11. TimerRuns(n)
    BY <2>2, <2>6, <2>9, <2>10 DEF TimerRuns, Single
  <2> QED
    BY <2>8, <2>9, <2>11 DEF ModelSound, LoadsSound
<1> QED
  BY <1>1, <1>2

-----------------------------------------------------------------------------
(* The list.                                                               *)

LEMMA ListBounded ==
  ASSUME NEW l, IsList(l), NEW index \in Int, index >= 0, NEW n,
         n = InBounds([l EXCEPT !.index = index])
  PROVE  IsList(n)
<1> DEFINE k == [l EXCEPT !.index = index]
<1>1. IsList(k) /\ k.index = index
  BY DEF IsList
<1>2. n = InBounds(k)
  OBVIOUS
<1> HIDE DEF k
<1> DEFINE rows == Len(VisibleItems(k))
           at == IF rows = 0 THEN 0 ELSE IF k.index < rows THEN k.index ELSE rows - 1
<1>3. rows \in Nat
  BY <1>1, SeqRange DEF IsList, VisibleItems
<1>4. n = [k EXCEPT !.index = at]
  BY <1>2 DEF InBounds
<1> HIDE DEF rows
<1>5. at \in Nat
  BY <1>1, <1>3
<1> HIDE DEF at
<1> QED
  BY <1>1, <1>4, <1>5 DEF IsList

LEMMA BoundedList ==
  ASSUME NEW l, IsList(l), NEW n, n = InBounds(l)
  PROVE  IsList(n)
<1>1. l.index \in Nat
  BY DEF IsList
<1> DEFINE rows == Len(VisibleItems(l))
           at == IF rows = 0 THEN 0 ELSE IF l.index < rows THEN l.index ELSE rows - 1
<1>3. rows \in Nat
  BY <1>1, SeqRange DEF IsList, VisibleItems
<1>4. n = [l EXCEPT !.index = at]
  BY DEF InBounds
<1> HIDE DEF rows
<1>5. at \in Nat
  BY <1>1, <1>3
<1> HIDE DEF at
<1> QED
  BY <1>4, <1>5 DEF IsList

LEMMA FilterReset ==
  ASSUME NEW l, IsList(l), NEW n, n = ResetFilter(l)
  PROVE  IsList(n) /\ n.items = l.items /\ n.state = "unfiltered"
<1>1. IsSeq(<<>>)
  BY EmptySeq, SeqTyped
<1> QED
  BY <1>1 DEF ResetFilter, IsList

LEMMA ItemsSet ==
  ASSUME NEW l, IsList(l), NEW items, IsSeq(items), NEW n, n = SetItems(l, items)
  PROVE  IsList(n) /\ n.items = items /\ n.filter = l.filter
<1>1. IsSeq(<<>>)
  BY EmptySeq, SeqTyped
<1> QED
  BY <1>1 DEF SetItems, IsList

LEMMA FilterSet ==
  ASSUME NEW l, IsList(l), NEW filter, NEW n, n = SetFilterText(l, filter)
  PROVE  /\ IsList(n) /\ n.items = l.items /\ n.state = "applied"
         /\ n.filter = filter /\ n.found = Matching(l.items, filter)
<1> DEFINE found == Matching(l.items, filter)
<1>1. IsSeq(found)
  BY MatchingSeq DEF IsList
<1>2. n = [l EXCEPT !.filter = filter, !.found = found, !.state = "applied", !.index = 0]
  BY DEF SetFilterText
<1> HIDE DEF found
<1>3. IsList(n) /\ n.items = l.items /\ n.state = "applied" /\ n.filter = filter /\ n.found = found
  BY <1>1, <1>2 DEF IsList
<1> QED
  BY <1>3 DEF found

LEMMA Browsed ==
  ASSUME NEW l, IsList(l), NEW k
  PROVE  IsList(Browse(l, k))
<1>1. l.index \in Nat /\ IsSeq(l.items)
  BY DEF IsList
<1>2. CASE k = "down"
  <2>1. Browse(l, k) = InBounds([l EXCEPT !.index = l.index + 1])
    BY <1>2 DEF Browse
  <2>2. l.index + 1 \in Int /\ l.index + 1 >= 0
    BY <1>1
  <2> QED
    BY <2>1, <2>2, ListBounded
<1>3. CASE k = "up"
  <2> DEFINE index == IF l.index = 0 THEN 0 ELSE l.index - 1
  <2>1. Browse(l, k) = InBounds([l EXCEPT !.index = index])
    BY <1>3 DEF Browse
  <2>2. index \in Int /\ index >= 0
    BY <1>1
  <2> HIDE DEF index
  <2> QED
    BY <2>1, <2>2, ListBounded
<1>4. CASE k = "esc"
  BY <1>4, FilterReset, BoundedList DEF Browse
<1>5. CASE k = "/" /\ l.items # <<>>
  <2> DEFINE found == IF l.filter = <<>> THEN l.items ELSE l.found
  <2>1. Browse(l, k) = [l EXCEPT !.state = "filtering", !.index = 0, !.found = found]
    BY <1>5 DEF Browse
  <2>2. IsSeq(found)
    BY DEF IsList
  <2> HIDE DEF found
  <2> QED
    BY <2>1, <2>2 DEF IsList
<1>6. CASE k \notin {"down", "up", "esc"} /\ ~(k = "/" /\ l.items # <<>>)
  <2>1. Browse(l, k) = InBounds(l)
    BY <1>6 DEF Browse
  <2> QED
    BY <2>1, BoundedList
<1> QED
  BY <1>2, <1>3, <1>4, <1>5, <1>6

LEMMA ListTyped ==
  ASSUME NEW l, IsList(l), NEW k
  PROVE  IsList(ListKey(l, k))
<1>1. IsList(Accept(l))
  <2>1. IsList(ResetFilter(l))
    BY FilterReset
  <2>2. IsList([l EXCEPT !.state = "applied"])
    BY DEF IsList
  <2> QED
    BY <2>1, <2>2 DEF Accept
<1>2. IsList(HandleFiltering(l, k))
  <2>1. IsList(ResetFilter(l))
    BY FilterReset
  <2>2. IsList([l EXCEPT !.filter = Append(l.filter, k)])
    BY DEF IsList
  <2> QED
    BY <1>1, <2>1, <2>2 DEF HandleFiltering
<1> QED
  BY <1>2, Browsed DEF ListKey

-----------------------------------------------------------------------------
(* The detail pane.                                                        *)

\* The fields that the selection of a row changes.
DetailFields == {"flight", "current", "detailLoading", "content"}

\* The detail of a row is loaded, never of none.
NothingLoads(m) == selectedItem(m) = {} => m.detailLoading = FALSE

LEMMA DetailSynced ==
  ASSUME NEW m, Typed(m), KeptDetails(m), Overtaken(m) => m.cache = {},
         NEW preserveScroll, NEW n, n = syncDetail(m, preserveScroll)
  PROVE  /\ Differ(m, n, DetailFields) /\ Typed(n)
         /\ \A k : k # "detail" => FreshOf(n, k) = FreshOf(m, k)
         /\ DetailAwaited(n) /\ DetailCurrent(n)
         /\ NothingLoads(n)
<1>0. DOMAIN m = ModelFields /\ Messages(m)
  BY DEF Typed, Messages
<1>1. CASE selectedItem(m) = {}
  <2>1. n = [m EXCEPT !.current = None, !.detailLoading = FALSE, !.content = NothingSelected]
    BY <1>1 DEF syncDetail
  <2>2. IsContent(NothingSelected) /\ NothingSelected.kind = "empty"
    BY DEF IsContent, NothingSelected, Content
  <2>3. /\ Differ(m, n, {"current", "detailLoading", "content"})
        /\ n.current = None /\ n.detailLoading = FALSE /\ n.content = NothingSelected
    BY <1>0, <2>1 DEF Differ, ModelFields
  <2>4. /\ n.flight = m.flight /\ n.stack = m.stack /\ n.cache = m.cache
        /\ Differ(m, n, DetailFields)
    BY <2>3 DEF Differ, ModelFields, DetailFields
  <2>5. Typed(n)
    BY <2>2, <2>3 DEF Typed, Differ, ModelFields
  <2>6. \A k : FreshOf(n, k) = FreshOf(m, k)
    BY <2>4 DEF FreshOf
  <2>7. DetailCurrent(n)
    BY <2>2, <2>3, <2>4, <2>6 DEF DetailCurrent, KeptDetails, Overtaken, currentPage
  <2> QED
    BY <2>3, <2>4, <2>5, <2>6, <2>7 DEF DetailAwaited, NothingLoads
<1>2. CASE selectedItem(m) # {}
  <2>1. PICK item : n = syncDetailOf(m, item, preserveScroll)
    BY <1>2 DEF syncDetail
  <2> DEFINE key == itemKey(item)
             keep == preserveScroll /\ m.current = key
  <2>2. key # None
    BY DEF itemKey, None
  <2>3. CASE Cached(m, key)
    <3>1. PICK d \in m.cache : /\ d.key = key
                               /\ n = [m EXCEPT !.current = key, !.detailLoading = FALSE, !.content = d]
      BY <2>1, <2>3 DEF syncDetailOf, Cached
    <3> HIDE DEF key
    <3>2. /\ Differ(m, n, {"current", "detailLoading", "content"})
          /\ n.current = key /\ n.detailLoading = FALSE /\ n.content = d
      BY <1>0, <3>1 DEF Differ, ModelFields
    <3>3. /\ n.flight = m.flight /\ n.stack = m.stack /\ n.cache = m.cache
          /\ Differ(m, n, DetailFields)
      BY <3>2 DEF Differ, ModelFields, DetailFields
    <3>4. IsContent(d) /\ d.rows = currentPage(m).items
      BY DEF Typed, KeptDetails
    <3>5. Typed(n)
      BY <3>2, <3>4 DEF Typed, Differ, ModelFields
    <3>6. \A k : FreshOf(n, k) = FreshOf(m, k)
      BY <3>3 DEF FreshOf
    <3>7. ~Overtaken(n)
      BY <3>3, <3>6 DEF Overtaken, currentPage
    <3>8. DetailCurrent(n)
      BY <3>2, <3>3, <3>4, <3>7 DEF DetailCurrent, KeptDetails, currentPage
    <3> QED
      BY <3>2, <3>3, <3>5, <3>6, <3>8 DEF DetailAwaited, NothingLoads
  <2>4. CASE ~Cached(m, key)
    <3> DEFINE o == Outdate(m, "detail")
               x == Load("detail", currentPage(m), item, key, keep)
               u == Send(o, x)
               content == IF keep THEN u.content ELSE Content("loading", key, <<>>, None)
    <3>1. n = [u EXCEPT !.current = key, !.detailLoading = TRUE, !.content = content]
      BY <2>1, <2>4 DEF syncDetailOf
    <3>2. /\ Differ(m, o, {"flight"}) /\ Messages(o) /\ FreshOf(o, "detail") = {}
          /\ \A k : k # "detail" => FreshOf(o, k) = FreshOf(m, k)
      BY <1>0, Outdated
    <3>3. /\ IsMessage(x) /\ Fresh("detail", x)
          /\ x.page = currentPage(m) /\ x.key = key
      <4> HIDE DEF key, keep
      <4> QED
        BY <2>2, DetailAsked
    <3> HIDE DEF o, x, key, keep
    <3>4. /\ Differ(o, u, {"flight"}) /\ Messages(u) /\ FreshOf(u, "detail") = {x}
          /\ \A k : k # "detail" => FreshOf(u, k) = FreshOf(o, k)
      BY <3>2, <3>3, Sent DEF Differ
    <3> HIDE DEF u
    <3>5. Differ(m, u, {"flight"})
      BY <3>2, <3>4 DEF Differ
    <3>6. Typed(u)
      BY <3>4, <3>5, TypedMessages
    <3>7. IsContent(content)
      BY <3>6 DEF Typed, IsContent, Content
    <3> HIDE DEF content
    <3>8. /\ Differ(u, n, {"current", "detailLoading", "content"})
          /\ n.current = key /\ n.detailLoading = TRUE /\ n.content = content
      BY <3>1, <3>5 DEF Differ, ModelFields
    <3>9. /\ n.flight = u.flight /\ n.stack = m.stack /\ n.cache = m.cache
          /\ Differ(m, n, DetailFields)
      BY <3>5, <3>8 DEF Differ, ModelFields, DetailFields
    <3>10. Typed(n)
      BY <3>6, <3>7, <3>8 DEF Typed, Differ, ModelFields
    <3>11. \A k : FreshOf(n, k) = FreshOf(u, k)
      BY <3>9 DEF FreshOf
    <3>12. ~Overtaken(n)
      BY <3>3, <3>4, <3>9, <3>11 DEF Overtaken, currentPage
    <3>13. DetailCurrent(n)
      BY <3>8, <3>9, <3>12 DEF DetailCurrent, KeptDetails, currentPage
    <3>14. DetailAwaited(n)
      BY <3>3, <3>4, <3>8, <3>11 DEF DetailAwaited
    <3>15. selectedItem(n) # {}
      BY <1>2, <3>5, <3>8 DEF selectedItem, Differ, ModelFields
    <3> QED
      BY <3>2, <3>4, <3>9, <3>10, <3>11, <3>13, <3>14, <3>15 DEF NothingLoads
  <2> QED
    BY <2>3, <2>4
<1> QED
  BY <1>1, <1>2

-----------------------------------------------------------------------------
(* Another page, or other rows.                                            *)

LEMMA Least ==
  ASSUME NEW T, T \subseteq Nat, T # {}
  PROVE  \E j \in T : \A o \in T : j <= o
<1> DEFINE R == OpToRel(<, Nat)
<1>1. IsWellFoundedOn(R, Nat)
  BY NatLessThanWellFounded
<1>2. \A a, b \in Nat : a < b => <<a, b>> \in R
  BY DEF OpToRel
<1> HIDE DEF R
<1>3. PICK j \in T : \A o \in T : ~ (<<o, j>> \in R)
  BY <1>1, WFMin
<1>4. ASSUME NEW o \in T PROVE j <= o
  <2>1. o \in Nat /\ j \in Nat /\ ~(o < j)
    BY <1>2, <1>3
  <2> QED
    BY <2>1
<1> QED
  BY <1>4

\* The list that applyCurrentPage shows.
AppliedList(m, page, preserveFilter, key) ==
  LET items == SetItems(m.list, page.items)
      list == IF preserveFilter /\ m.list.filter # <<>>
                THEN SetFilterText(items, m.list.filter) ELSE ResetFilter(items)
  IN selectVisibleItem(list, page, key)

LEMMA ItemSelected ==
  ASSUME NEW l, IsList(l), NEW page, IsPage(page), NEW key,
         NEW n, n = selectVisibleItem(l, page, key)
  PROVE  IsList(n) /\ n.items = l.items /\ n.found = l.found /\ n.state = l.state
<1> DEFINE rows == VisibleItems(l)
           same == {i \in DOMAIN rows : itemKey(rows[i]) = key}
           at == visibleIndex(l, page, key)
<1>1. IsSeq(rows)
  BY DEF IsList, VisibleItems
<1>2. at \in Nat
  <2>1. CASE same # {}
    <3> DEFINE i == CHOOSE i \in same : \A o \in same : i <= o
    <3>1. same \subseteq Nat \ {0}
      BY <1>1, SeqRange
    <3>2. \E j \in same : \A o \in same : j <= o
      BY <2>1, <3>1, Least
    <3>3. i \in same
      BY <3>2
    <3>4. at = i - 1
      BY <2>1 DEF visibleIndex
    <3> HIDE DEF i, same
    <3> QED
      BY <3>1, <3>3, <3>4
  <2>2. CASE same = {}
    <3>1. at = clampCursor(page.cursor, rows)
      BY <2>2 DEF visibleIndex
    <3> QED
      BY <1>1, <3>1, CursorClamped DEF IsPage
  <2> QED
    BY <2>1, <2>2
<1>3. n = [l EXCEPT !.index = at]
  BY DEF selectVisibleItem
<1> HIDE DEF at
<1> QED
  BY <1>2, <1>3 DEF IsList

LEMMA AppliedListTyped ==
  ASSUME NEW m, IsList(m.list), NEW page, IsPage(page), NEW preserveFilter, NEW key
  PROVE  IsList(AppliedList(m, page, preserveFilter, key))
<1> DEFINE items == SetItems(m.list, page.items)
           list == IF preserveFilter /\ m.list.filter # <<>>
                     THEN SetFilterText(items, m.list.filter) ELSE ResetFilter(items)
<1>1. IsList(items)
  BY ItemsSet DEF IsPage
<1> HIDE DEF items
<1>2. IsList(SetFilterText(items, m.list.filter)) /\ IsList(ResetFilter(items))
  BY <1>1, FilterSet, FilterReset
<1>3. IsList(list)
  BY <1>2
<1>4. AppliedList(m, page, preserveFilter, key) = selectVisibleItem(list, page, key)
  BY DEF AppliedList, items
<1> HIDE DEF list
<1> QED
  BY <1>3, <1>4, ItemSelected

PageFields == DetailFields \cup {"stack", "list"}

LEMMA PageApplied ==
  ASSUME NEW m, Typed(m), m.cache = {}, NEW loaded, IsPage(loaded), NEW preserveFilter,
         NEW key, NEW preserveScroll,
         NEW n, n = applyCurrentPage(m, loaded, preserveFilter, key, preserveScroll)
  PROVE  \E page :
           /\ IsPage(page) /\ At(page) = At(loaded) /\ page.items = loaded.items
           /\ n.stack = Append(Front(m.stack), page)
           /\ n.list = AppliedList(m, page, preserveFilter, key)
           /\ Differ(m, n, PageFields) /\ Typed(n)
           /\ \A k : k # "detail" => FreshOf(n, k) = FreshOf(m, k)
           /\ DetailAwaited(n) /\ DetailCurrent(n)
           /\ NothingLoads(n)
<1>0. /\ DOMAIN m = ModelFields /\ Messages(m) /\ IsList(m.list)
      /\ IsSeq(m.stack) /\ m.stack # <<>> /\ \A p \in ToSet(m.stack) : IsPage(p)
  BY DEF Typed, Messages
<1> DEFINE cursor == clampCursor(loaded.cursor, loaded.items)
           page == [loaded EXCEPT !.cursor = cursor]
           list == AppliedList(m, page, preserveFilter, key)
           stack == Append(Front(m.stack), page)
           u == [m EXCEPT !.stack = stack, !.list = list]
<1>1. n = syncDetail(u, preserveScroll)
  BY DEF applyCurrentPage, AppliedList
<1>2. cursor \in Nat
  BY CursorClamped DEF IsPage
<1> HIDE DEF cursor
<1>3. IsPage(page) /\ At(page) = At(loaded) /\ page.items = loaded.items
  BY <1>2, PageMoved
<1> HIDE DEF page
<1>4. IsList(list)
  BY <1>0, <1>3, AppliedListTyped
<1>5. IsSeq(stack) /\ stack # <<>> /\ \A p \in ToSet(stack) : IsPage(p)
  <2>1. IsSeq(Front(m.stack)) /\ ToSet(Front(m.stack)) \subseteq ToSet(m.stack)
    BY <1>0, SeqFront
  <2>2. IsSeq(stack) /\ stack # <<>> /\ ToSet(stack) = ToSet(Front(m.stack)) \cup {page}
    BY <2>1, SeqAppend
  <2> HIDE DEF stack
  <2> QED
    BY <1>0, <1>3, <2>1, <2>2
<1> HIDE DEF list, stack
<1>6. Differ(m, u, {"stack", "list"}) /\ u.stack = stack /\ u.list = list
  BY <1>0 DEF Differ, ModelFields
<1> HIDE DEF u
<1>7. u.cache = {} /\ u.flight = m.flight
  BY <1>6 DEF Differ, ModelFields
<1>8. Typed(u)
  BY <1>4, <1>5, <1>6 DEF Typed, Differ, ModelFields
<1>9. KeptDetails(u)
  BY <1>7 DEF KeptDetails
<1>10. /\ Differ(u, n, DetailFields) /\ Typed(n)
       /\ \A k : k # "detail" => FreshOf(n, k) = FreshOf(u, k)
       /\ DetailAwaited(n) /\ DetailCurrent(n)
       /\ NothingLoads(n)
  BY <1>1, <1>7, <1>8, <1>9, DetailSynced
<1>11. \A k : FreshOf(u, k) = FreshOf(m, k)
  BY <1>7 DEF FreshOf
<1>12. n.stack = stack /\ n.list = list /\ Differ(m, n, PageFields)
  BY <1>6, <1>10 DEF Differ, ModelFields, DetailFields, PageFields
<1> QED
  BY <1>3, <1>10, <1>11, <1>12 DEF stack, list

LEMMA PageLoadCanceled ==
  ASSUME NEW m, Typed(m), PageAwaited(m), m.open, NEW n, n = cancelPageLoad(m)
  PROVE  /\ Differ(m, n, {"flight", "pageLoading"}) /\ Typed(n)
         /\ n.pageLoading = FALSE /\ FreshOf(n, "page") = {}
         /\ \A k : k # "page" => FreshOf(n, k) = FreshOf(m, k)
<1> DEFINE o == Outdate(m, "page")
           u == IF m.pageLoading THEN o ELSE m
<1>1. DOMAIN m = ModelFields /\ Messages(m)
  BY DEF Typed, Messages
<1>2. /\ Differ(m, o, {"flight"}) /\ Messages(o) /\ FreshOf(o, "page") = {}
      /\ \A k : k # "page" => FreshOf(o, k) = FreshOf(m, k)
  BY <1>1, Outdated
<1>3. n = [u EXCEPT !.pageLoading = FALSE]
  BY DEF cancelPageLoad
<1> HIDE DEF o
<1>4. Typed(o)
  BY <1>2, TypedMessages
<1>5. /\ Differ(m, u, {"flight"}) /\ Typed(u) /\ FreshOf(u, "page") = {}
      /\ \A k : k # "page" => FreshOf(u, k) = FreshOf(m, k)
  <2>1. CASE m.pageLoading
    BY <1>2, <1>4, <2>1
  <2>2. CASE ~m.pageLoading
    BY <1>1, <2>2 DEF PageAwaited, Differ
  <2> QED
    BY <2>1, <2>2
<1> HIDE DEF u
<1>6. Differ(u, n, {"pageLoading"}) /\ n.pageLoading = FALSE
  BY <1>3, <1>5 DEF Differ, ModelFields
<1>7. Typed(n) /\ n.flight = u.flight
  <2>1. n.flight = u.flight /\ n.detailLoading = u.detailLoading
    BY <1>6 DEF Differ, ModelFields
  <2>2. Differ(u, n, {"pageLoading", "detailLoading"}) /\ n.detailLoading \in BOOLEAN
    BY <1>5, <1>6, <2>1 DEF Differ, Typed
  <2> QED
    BY <1>5, <1>6, <2>1, <2>2, TypedLoading
<1>8. Differ(m, n, {"flight", "pageLoading"})
  BY <1>5, <1>6 DEF Differ
<1> QED
  BY <1>5, <1>6, <1>7, <1>8 DEF FreshOf

LEMMA DetailLoadCanceled ==
  ASSUME NEW m, Typed(m), NEW n, n = cancelDetailLoad(m)
  PROVE  /\ Differ(m, n, {"flight", "detailLoading"}) /\ Typed(n)
         /\ \A k : k # "detail" => FreshOf(n, k) = FreshOf(m, k)
<1> DEFINE o == Outdate(m, "detail")
           u == IF m.detailLoading THEN o ELSE m
<1>1. DOMAIN m = ModelFields /\ Messages(m)
  BY DEF Typed, Messages
<1>2. /\ Differ(m, o, {"flight"}) /\ Messages(o)
      /\ \A k : k # "detail" => FreshOf(o, k) = FreshOf(m, k)
  BY <1>1, Outdated
<1>3. n = [u EXCEPT !.detailLoading = FALSE]
  BY DEF cancelDetailLoad
<1> HIDE DEF o
<1>4. Typed(o)
  BY <1>2, TypedMessages
<1>5. /\ Differ(m, u, {"flight"}) /\ Typed(u)
      /\ \A k : k # "detail" => FreshOf(u, k) = FreshOf(m, k)
  BY <1>1, <1>2, <1>4 DEF Differ
<1> HIDE DEF u
<1>6. Differ(u, n, {"detailLoading"}) /\ n.detailLoading = FALSE
  BY <1>3, <1>5 DEF Differ, ModelFields
<1>7. Typed(n) /\ n.flight = u.flight
  BY <1>5, <1>6 DEF Typed, Differ, ModelFields
<1>8. Differ(m, n, {"flight", "detailLoading"})
  BY <1>5, <1>6 DEF Differ
<1> QED
  BY <1>5, <1>7, <1>8 DEF FreshOf

IsStack(stack) == IsSeq(stack) /\ stack # <<>> /\ \A p \in ToSet(stack) : IsPage(p)

LEMMA Visited ==
  ASSUME NEW m, ModelSound(m), m.open, NEW stack, IsStack(stack),
         NEW n, n = Visit(m, stack)
  PROVE  ModelSound(n) /\ n.open
<1> DEFINE a == cancelPageLoad(m)
           b == cancelDetailLoad(a)
           c == [b EXCEPT !.cache = {}, !.current = None]
           d == [c EXCEPT !.stack = stack, !.focus = "list"]
<1>1. PICK no, key : n = applyCurrentPage(d, Last(stack), no, key, no)
  BY DEF Visit, resetDetailCache
<1>2. /\ Differ(m, a, {"flight", "pageLoading"}) /\ Typed(a)
      /\ a.pageLoading = FALSE /\ FreshOf(a, "page") = {}
      /\ \A k : k # "page" => FreshOf(a, k) = FreshOf(m, k)
  BY PageLoadCanceled DEF ModelSound
<1> HIDE DEF a
<1>3. /\ Differ(a, b, {"flight", "detailLoading"}) /\ Typed(b)
      /\ \A k : k # "detail" => FreshOf(b, k) = FreshOf(a, k)
  BY <1>2, DetailLoadCanceled
<1> HIDE DEF b
<1>4. Differ(b, c, {"cache", "current"}) /\ c.cache = {}
  BY <1>3 DEF Differ, ModelFields
<1>5. Typed(c)
  BY <1>3, <1>4 DEF Typed, Differ, ModelFields
<1> HIDE DEF c
<1>6. Differ(c, d, {"stack", "focus"}) /\ d.stack = stack /\ d.focus = "list"
  BY <1>4 DEF Differ, ModelFields
<1>7. Typed(d)
  BY <1>5, <1>6 DEF Typed, Differ, ModelFields, IsStack
<1> HIDE DEF d
<1>8. /\ d.cache = {} /\ d.flight = b.flight /\ d.pageLoading = FALSE
      /\ d.open = m.open /\ d.auto = m.auto /\ d.begun = m.begun
  <2>1. a.open = m.open /\ a.auto = m.auto /\ a.begun = m.begun
    BY <1>2 DEF Differ, ModelFields
  <2>2. b.open = a.open /\ b.auto = a.auto /\ b.begun = a.begun /\ b.pageLoading = a.pageLoading
    BY <1>3 DEF Differ, ModelFields
  <2>3. /\ c.open = b.open /\ c.auto = b.auto /\ c.begun = b.begun /\ c.pageLoading = b.pageLoading
        /\ c.flight = b.flight
    BY <1>4 DEF Differ, ModelFields
  <2>4. /\ d.open = c.open /\ d.auto = c.auto /\ d.begun = c.begun /\ d.pageLoading = c.pageLoading
        /\ d.flight = c.flight /\ d.cache = c.cache
    BY <1>6 DEF Differ, ModelFields
  <2> QED
    BY <1>2, <1>4, <2>1, <2>2, <2>3, <2>4
<1>9. IsPage(Last(stack))
  BY SeqFront DEF IsStack
<1>10. /\ Differ(d, n, PageFields) /\ Typed(n) /\ DetailAwaited(n) /\ DetailCurrent(n)
       /\ \A k : k # "detail" => FreshOf(n, k) = FreshOf(d, k)
  BY <1>1, <1>7, <1>8, <1>9, PageApplied
<1>11. n.pageLoading = FALSE /\ n.open = m.open /\ n.auto = m.auto /\ n.begun = m.begun
  BY <1>8, <1>10 DEF Differ, ModelFields, PageFields, DetailFields
<1>12. \A k : FreshOf(d, k) = FreshOf(b, k)
  BY <1>8 DEF FreshOf
<1>13. PageAwaited(n)
  BY <1>2, <1>3, <1>10, <1>11, <1>12 DEF PageAwaited
<1>14. FreshOf(n, "tick") = FreshOf(m, "tick")
  BY <1>2, <1>3, <1>10, <1>12
<1>15. TimerRuns(n)
  BY <1>11, <1>14 DEF TimerRuns, OwnTimers, ModelSound
<1> QED
  BY <1>10, <1>11, <1>13, <1>15 DEF ModelSound

LEMMA ReloadApplied ==
  ASSUME NEW m, Typed(m), m.open, m.pageLoading = FALSE, FreshOf(m, "page") = {}, TimerRuns(m),
         NEW loaded, IsPage(loaded), At(loaded) = At(currentPage(m)),
         NEW n, n = Reloaded(m, loaded)
  PROVE  \E page :
           /\ IsPage(page) /\ At(page) = At(loaded) /\ page.items = loaded.items
           /\ n.stack = Append(Front(m.stack), page)
           /\ n.list = AppliedList(m, page, TRUE, currentSelectionKey(m))
           /\ ModelSound(n) /\ n.open
<1> DEFINE key == currentSelectionKey(m)
           preserveScroll == key # None /\ key = m.current
           current == IF preserveScroll THEN key ELSE None
           b == [m EXCEPT !.cache = {}, !.current = None]
           c == [b EXCEPT !.current = current]
<1>1. n = applyCurrentPage(c, loaded, TRUE, key, preserveScroll)
  BY DEF Reloaded, resetDetailCache
<1> DEFINE yes == TRUE
<1>2. Differ(m, b, {"cache", "current"}) /\ b.cache = {}
  BY DEF Differ, ModelFields, Typed
<1> HIDE DEF b
<1>3. Differ(b, c, {"current"})
  BY <1>2 DEF Differ, ModelFields
<1> HIDE DEF c
<1>4. /\ Differ(m, c, {"cache", "current"}) /\ c.cache = {} /\ c.flight = m.flight
      /\ c.stack = m.stack /\ c.list = m.list
      /\ c.pageLoading = m.pageLoading /\ c.open = m.open /\ c.auto = m.auto /\ c.begun = m.begun
  BY <1>2, <1>3 DEF Differ, ModelFields
<1>5. Typed(c)
  BY <1>4 DEF Typed, Differ, ModelFields
<1>12. n = applyCurrentPage(c, loaded, yes, key, preserveScroll)
  BY <1>1
<1> HIDE DEF key, preserveScroll, yes
<1>6. PICK page :
        /\ IsPage(page) /\ At(page) = At(loaded) /\ page.items = loaded.items
        /\ n.stack = Append(Front(c.stack), page)
        /\ n.list = AppliedList(c, page, yes, key)
        /\ Differ(c, n, PageFields) /\ Typed(n)
        /\ \A k : k # "detail" => FreshOf(n, k) = FreshOf(c, k)
        /\ DetailAwaited(n) /\ DetailCurrent(n)
  BY <1>4, <1>5, <1>12, PageApplied
<1>7. n.pageLoading = FALSE /\ n.open = m.open /\ n.auto = m.auto /\ n.begun = m.begun
  BY <1>4, <1>6 DEF Differ, ModelFields, PageFields, DetailFields
<1>8. \A k : FreshOf(c, k) = FreshOf(m, k)
  BY <1>4 DEF FreshOf
<1>9. PageAwaited(n)
  BY <1>6, <1>7, <1>8 DEF PageAwaited
<1>10. TimerRuns(n)
  BY <1>6, <1>7, <1>8 DEF TimerRuns, OwnTimers
<1>11. AppliedList(c, page, yes, key) = AppliedList(m, page, TRUE, key)
  BY <1>4 DEF AppliedList, yes
<1>13. ModelSound(n) /\ n.open
  BY <1>6, <1>7, <1>9, <1>10 DEF ModelSound
<1>14. n.list = AppliedList(m, page, TRUE, currentSelectionKey(m))
  BY <1>6, <1>11 DEF key
<1> QED
  BY <1>4, <1>6, <1>13, <1>14

\* The cursor of the current page is kept with it, and nothing else.
LEMMA CursorKept ==
  ASSUME NEW m, ModelSound(m), NEW cursor \in Nat,
         NEW stack, stack = Append(Front(m.stack), [Last(m.stack) EXCEPT !.cursor = cursor]),
         NEW n, n = [m EXCEPT !.stack = stack]
  PROVE  ModelSound(n) /\ IsStack(stack) /\ Differ(m, n, {"stack"})
<1> DEFINE page == [Last(m.stack) EXCEPT !.cursor = cursor]
<1>0. DOMAIN m = ModelFields /\ IsSeq(m.stack) /\ m.stack # <<>> /\ \A p \in ToSet(m.stack) : IsPage(p)
  BY DEF ModelSound, Typed
<1>1. IsPage(page) /\ At(page) = At(Last(m.stack)) /\ page.items = Last(m.stack).items
  BY <1>0, SeqFront, PageMoved
<1> HIDE DEF page
<1>2. stack = Append(Front(m.stack), page)
  BY DEF page
<1>3. IsSeq(Front(m.stack)) /\ ToSet(Front(m.stack)) \subseteq ToSet(m.stack)
  BY <1>0, SeqFront
<1>4. /\ IsSeq(stack) /\ stack # <<>> /\ ToSet(stack) = ToSet(Front(m.stack)) \cup {page}
      /\ Last(stack) = page
  BY <1>2, <1>3, SeqAppend
<1>5. IsStack(stack)
  BY <1>0, <1>1, <1>3, <1>4 DEF IsStack
<1>6. Differ(m, n, {"stack"}) /\ n.stack = stack
  BY <1>0 DEF Differ, ModelFields
<1>7. Typed(n)
  BY <1>5, <1>6 DEF Typed, Differ, ModelFields, IsStack, ModelSound
<1>8. At(currentPage(n)) = At(currentPage(m)) /\ currentPage(n).items = currentPage(m).items
  BY <1>1, <1>4, <1>6 DEF currentPage
<1>9. /\ n.open = m.open /\ n.auto = m.auto /\ n.begun = m.begun /\ n.pageLoading = m.pageLoading
      /\ n.detailLoading = m.detailLoading /\ n.current = m.current
      /\ n.cache = m.cache /\ n.content = m.content /\ n.flight = m.flight
  BY <1>6 DEF Differ, ModelFields
<1>10. \A k : FreshOf(n, k) = FreshOf(m, k)
  BY <1>9 DEF FreshOf
<1>11. PageAwaited(n)
  BY <1>8, <1>9, <1>10 DEF PageAwaited, ModelSound
<1>12. TimerRuns(n)
  BY <1>9, <1>10 DEF TimerRuns, OwnTimers, ModelSound
<1>13. DetailAwaited(n)
  BY <1>9, <1>10 DEF DetailAwaited, ModelSound
<1>14. DetailCurrent(n)
  BY <1>8, <1>9, <1>10 DEF DetailCurrent, KeptDetails, Overtaken, ModelSound
<1> QED
  BY <1>5, <1>6, <1>7, <1>11, <1>12, <1>13, <1>14 DEF ModelSound

\* What ModelSound depends on, but for the types.
LEMMA SoundStays ==
  ASSUME NEW m, ModelSound(m), NEW n, Typed(n),
         \A k \in {"page", "detail", "tick"} : FreshOf(n, k) = FreshOf(m, k),
         Differ(m, n, {"flight", "focus", "triggering", "target", "list"})
  PROVE  ModelSound(n)
<1>1. LoadsSound(m)
  BY DEF ModelSound, LoadsSound
<1>2. Differ(m, n, {"flight", "focus", "auto", "begun", "triggering", "target", "list"})
  BY DEF Differ
<1>3. LoadsSound(n)
  BY <1>1, <1>2, LoadsStay
<1>4. n.auto = m.auto /\ n.begun = m.begun /\ n.open = m.open
  BY DEF Differ, ModelFields
<1>5. TimerRuns(n)
  BY <1>4 DEF TimerRuns, OwnTimers, ModelSound
<1> QED
  BY <1>3, <1>5 DEF LoadsSound, ModelSound

LEMMA MatchesSent ==
  ASSUME NEW m, ModelSound(m), NEW items, IsSeq(items), NEW n, n = Send(m, Matches(items))
  PROVE  ModelSound(n) /\ Differ(m, n, {"flight"})
<1> DEFINE x == Matches(items)
<1>1. IsMessage(x) /\ Fresh("matches", x)
  BY DEF IsMessage, Matches, Fresh
<1> HIDE DEF x
<1>2. n = Send(m, x)
  BY DEF x
<1>3. Typed(m) /\ DOMAIN m = ModelFields /\ Messages(m)
  BY DEF ModelSound, Typed, Messages
<1>4. /\ Differ(m, n, {"flight"}) /\ Messages(n)
      /\ \A k : k # "matches" => FreshOf(n, k) = FreshOf(m, k)
  BY <1>1, <1>2, <1>3, Sent
<1>5. Typed(n)
  BY <1>3, <1>4, TypedMessages
<1>6. Differ(m, n, {"flight", "focus", "triggering", "target", "list"})
  BY <1>4 DEF Differ
<1> QED
  BY <1>4, <1>5, <1>6, SoundStays

LEMMA ListUpdated ==
  ASSUME NEW m, ModelSound(m), NEW k, NEW n, n = updateList(m, k)
  PROVE  ModelSound(n) /\ n.open = m.open
<1> DEFINE l == ListKey(m.list, k)
           items == Matching(l.items, l.filter)
           typed == l.filter # m.list.filter /\ l.state = "filtering"
           f == IF typed THEN Send(m, Matches(items)) ELSE m
           g == [f EXCEPT !.list = l]
           stack == Append(Front(g.stack), [Last(g.stack) EXCEPT !.cursor = l.index])
           h == [g EXCEPT !.stack = stack]
<1>0. DOMAIN m = ModelFields /\ IsList(m.list)
  BY DEF ModelSound, Typed
<1>1. n = g \/ \E no : n = syncDetail(h, no)
  BY DEF updateList
<1>2. IsList(l)
  BY <1>0, ListTyped
<1> HIDE DEF l
<1>3. IsSeq(items)
  BY <1>2, MatchingSeq DEF IsList
<1> HIDE DEF items
<1>4. ModelSound(f) /\ Differ(m, f, {"flight"})
  <2>1. CASE typed
    BY <1>3, <2>1, MatchesSent
  <2>2. CASE ~typed
    BY <1>0, <2>2 DEF Differ
  <2> QED
    BY <2>1, <2>2
<1> HIDE DEF f, typed
<1>5. Differ(f, g, {"list"}) /\ g.list = l
  BY <1>4 DEF Differ, ModelFields
<1> HIDE DEF g
<1>6. Typed(g) /\ g.flight = f.flight
  BY <1>2, <1>4, <1>5 DEF Typed, Differ, ModelFields, ModelSound
<1>7. ModelSound(g)
  <2>1. Differ(f, g, {"flight", "focus", "triggering", "target", "list"})
    BY <1>5 DEF Differ
  <2>2. \A j : FreshOf(g, j) = FreshOf(f, j)
    BY <1>6 DEF FreshOf
  <2> QED
    BY <1>4, <1>6, <2>1, <2>2, SoundStays
<1>8. ModelSound(h) /\ Differ(g, h, {"stack"})
  BY <1>2, <1>7, CursorKept DEF IsList
<1> HIDE DEF h
<1>9. g.open = m.open /\ h.open = m.open
  BY <1>4, <1>5, <1>8 DEF Differ, ModelFields
<1>10. CASE n = g
  BY <1>7, <1>9, <1>10
<1>11. ASSUME NEW no, n = syncDetail(h, no) PROVE ModelSound(n) /\ n.open = m.open
  <2>1. /\ Differ(h, n, DetailFields) /\ Typed(n)
        /\ \A j : j # "detail" => FreshOf(n, j) = FreshOf(h, j)
        /\ DetailAwaited(n) /\ DetailCurrent(n)
    BY <1>8, <1>11, DetailSynced DEF ModelSound, DetailCurrent
  <2>2. /\ n.stack = h.stack /\ n.open = h.open /\ n.auto = h.auto /\ n.begun = h.begun
        /\ n.pageLoading = h.pageLoading
    BY <2>1 DEF Differ, ModelFields, DetailFields
  <2>3. PageAwaited(n)
    BY <1>8, <2>1, <2>2 DEF PageAwaited, currentPage, ModelSound
  <2>4. TimerRuns(n)
    BY <1>8, <2>1, <2>2 DEF TimerRuns, OwnTimers, ModelSound
  <2> QED
    BY <1>9, <2>1, <2>2, <2>3, <2>4 DEF ModelSound
<1> QED
  BY <1>1, <1>10, <1>11

-----------------------------------------------------------------------------
(* The records change.                                                     *)

LEMMA Prefixed ==
  ASSUME NEW e, NEW s, IsSeq(s)
  PROVE  IsSeq(<<e>> \o s) /\ Head(<<e>> \o s) = e
<1> DEFINE S == ToSet(s) \cup {e}
<1>1. <<e>> \in Seq(S) /\ s \in Seq(S)
  BY DEF IsSeq
<1>2. <<e>> \o s \in Seq(S) /\ (<<e>> \o s)[1] = e /\ Len(<<e>> \o s) > 0
  BY <1>1
<1>3. IsSeq(<<e>> \o s)
  BY <1>2, SeqTyped
<1>4. Head(<<e>> \o s) = e
  BY <1>2
<1> QED
  BY <1>3, <1>4

LEMMA MessagesUpdated ==
  ASSUME NEW s, IsSeq(s), NEW x
  PROVE  IsSeq(Updated(s, x))
<1> DEFINE P == {n \in DOMAIN s : s[n].id # x.id}
           r == Those(s, LAMBDA y : y.id # x.id)
<1>1. r = [i \in 1..Cardinality(P) |-> r[i]]
  BY DEF Those, Ordered
<1>2. IsSeq(r)
  BY <1>1, Listed
<1> HIDE DEF r
<1>3. IsSeq(<<x>> \o r)
  BY <1>2, Prefixed
<1> QED
  BY <1>3 DEF Updated, r

LEMMA Enqueued ==
  ASSUME NEW s, IsStore(s), NEW ns, NEW recipient, NEW u, u = EnqueueMessage(s, ns, recipient)
  PROVE  /\ IsStore(u)
         /\ Head(u.messages).namespace = ns /\ Head(u.messages).recipient = recipient
<1> DEFINE x == Message(ns, Len(s.messages) + 1, "", recipient)
           l == <<x>> \o s.messages
<1>1. IsSeq(l) /\ Head(l) = x
  BY Prefixed DEF IsStore
<1>2. u = [s EXCEPT !.messages = l]
  BY DEF EnqueueMessage
<1>3. x.namespace = ns /\ x.recipient = recipient
  BY DEF Message
<1> HIDE DEF x, l
<1> QED
  BY <1>1, <1>2, <1>3 DEF IsStore

LEMMA Claimed ==
  ASSUME NEW s, IsStore(s), NEW x, NEW u, u = ClaimNextMessage(s, x)
  PROVE  IsStore(u)
<1> DEFINE run == Len(s.runs) + 1
           messages == Updated(s.messages, [x EXCEPT !.status = "leased", !.run = run])
           row == [namespace |-> x.namespace, id |-> run, agent |-> x.recipient,
                   message |-> x.id, status |-> "running"]
           runs == <<row>> \o s.runs
<1>1. u = [s EXCEPT !.messages = messages, !.runs = runs]
  BY DEF ClaimNextMessage
<1>2. IsSeq(messages) /\ IsSeq(runs)
  BY MessagesUpdated, Prefixed DEF IsStore
<1> HIDE DEF messages, runs
<1> QED
  BY <1>1, <1>2 DEF IsStore

LEMMA StepRecorded ==
  ASSUME NEW s, IsStore(s), NEW r, NEW u, u = RecordStep(s, r)
  PROVE  IsStore(u)
<1>1. PICK step : u = [s EXCEPT !.steps = Append(s.steps, step)]
  BY DEF RecordStep
<1>2. IsSeq(Append(s.steps, step))
  BY SeqAppend DEF IsStore
<1> QED
  BY <1>1, <1>2 DEF IsStore

LEMMA Completed ==
  ASSUME NEW s, IsStore(s), NEW r, NEW status, NEW u, u = CompleteRun(s, r, status)
  PROVE  IsStore(u)
<1> DEFINE runs == Each(s.runs, LAMBDA y : IF y.id = r.id THEN [y EXCEPT !.status = status] ELSE y)
<1>1. PICK x : u = [s EXCEPT !.runs = runs, !.messages = Updated(s.messages, x)]
  BY DEF CompleteRun
<1>2. runs = [n \in DOMAIN s.runs |-> runs[n]]
  BY DEF Each
<1>3. IsSeq(runs)
  BY <1>2, EachMade DEF IsStore
<1> HIDE DEF runs
<1>4. IsSeq(Updated(s.messages, x))
  BY MessagesUpdated DEF IsStore
<1> QED
  BY <1>1, <1>3, <1>4 DEF IsStore

LEMMA StateDesired ==
  ASSUME NEW s, IsStore(s), NEW a, NEW state, NEW u, u = UpdateAgentDesiredState(s, a, state)
  PROVE  IsStore(u)
<1> DEFINE agents == Each(s.agents, LAMBDA y : IF y = a THEN [y EXCEPT !.state = state] ELSE y)
<1>1. u = [s EXCEPT !.agents = agents]
  BY DEF UpdateAgentDesiredState
<1>2. agents = [n \in DOMAIN s.agents |-> agents[n]]
  BY DEF Each
<1>3. IsSeq(agents)
  BY <1>2, EachMade DEF IsStore
<1> HIDE DEF agents
<1> QED
  BY <1>1, <1>3 DEF IsStore

LEMMA ServeSound ==
  ASSUME TuiInv, Serve
  PROVE  TuiInv'
<1>1. t' = t
  BY DEF Serve, Changed
<1>2. IsStore(store')
  <2>1. \/ \E a : store' = EnqueueMessage(store, a.namespace, a.id)
        \/ \E a, state : store' = UpdateAgentDesiredState(store, a, state)
        \/ \E x : store' = ClaimNextMessage(store, x)
        \/ \E r : store' = RecordStep(store, r)
        \/ \E r, status : store' = CompleteRun(store, r, status)
    BY DEF Serve, Changed
  <2> QED
    BY <2>1, Enqueued, StateDesired, Claimed, StepRecorded, Completed DEF TuiInv
<1> QED
  BY <1>1, <1>2 DEF TuiInv

-----------------------------------------------------------------------------
(* The user's keys.                                                        *)

LEMMA Pressed ==
  ASSUME NEW k, NEW faults, TuiInv, Press(k, faults)
  PROVE  /\ ModelSound(t) /\ t.open /\ IsStore(store)
         /\ DOMAIN t = ModelFields /\ IsStack(t.stack) /\ IsList(t.list)
         /\ IsPage(currentPage(t))
<1>1. ModelSound(t) /\ t.open /\ IsStore(store)
  BY DEF Press, TuiInv
<1>2. Typed(t)
  BY <1>1 DEF ModelSound
<1>3. DOMAIN t = ModelFields /\ IsStack(t.stack) /\ IsList(t.list)
  BY <1>2 DEF Typed, IsStack
<1>4. IsPage(currentPage(t))
  BY <1>3, SeqFront DEF IsStack, currentPage
<1> QED
  BY <1>1, <1>3, <1>4

\* Fields that no condition on loads is about.
LEMMA PaneSet ==
  ASSUME NEW m, ModelSound(m), m.open, NEW n, Differ(m, n, {"focus", "triggering", "target"}),
         n.focus \in {"list", "detail"}, n.triggering \in BOOLEAN,
         n.triggering => IsTarget(n.target)
  PROVE  ModelSound(n) /\ n.open
<1>1. n.flight = m.flight /\ n.open = m.open
  BY DEF Differ, ModelFields
<1>2. Typed(n)
  <2>1. /\ DOMAIN n = ModelFields /\ n.stack = m.stack /\ n.list = m.list
        /\ n.auto = m.auto /\ n.begun = m.begun /\ n.pageLoading = m.pageLoading
        /\ n.detailLoading = m.detailLoading /\ n.content = m.content /\ n.cache = m.cache
        /\ n.flight = m.flight /\ n.open = m.open
    BY DEF Differ, ModelFields
  <2> QED
    BY <2>1 DEF Typed, ModelSound
<1>3. \A k : FreshOf(n, k) = FreshOf(m, k)
  BY <1>1 DEF FreshOf
<1>4. Differ(m, n, {"flight", "focus", "triggering", "target", "list"})
  BY DEF Differ
<1> QED
  BY <1>1, <1>2, <1>3, <1>4, SoundStays

LEMMA PagesOnTop ==
  ASSUME NEW s, IsSeq(s), \A p \in ToSet(s) : IsPage(p), NEW page, IsPage(page)
  PROVE  IsStack(Append(s, page))
BY SeqAppend DEF IsStack

LEMMA QuitSound ==
  ASSUME TuiInv, Quit
  PROVE  TuiInv'
<1>1. ModelSound(t) /\ DOMAIN t = ModelFields
  BY Pressed DEF Quit
<1>2. t' = [t EXCEPT !.open = FALSE, !.flight = {}] /\ store' = store
  BY DEF Quit
<1>3. Differ(t, t', {"open", "flight"}) /\ t'.open = FALSE /\ t'.flight = {}
  BY <1>1, <1>2 DEF Differ, ModelFields
<1>4. Typed(t')
  BY <1>1, <1>3 DEF Typed, Differ, ModelFields, ModelSound
<1>5. \A k : FreshOf(t', k) = {}
  BY <1>3 DEF FreshOf
<1>6. PageAwaited(t') /\ TimerRuns(t') /\ DetailAwaited(t') /\ ~Overtaken(t')
  BY <1>3, <1>5 DEF PageAwaited, TimerRuns, OwnTimers, DetailAwaited, Overtaken
<1>7. /\ t'.stack = t.stack /\ t'.cache = t.cache /\ t'.content = t.content
      /\ t'.detailLoading = t.detailLoading
  BY <1>3 DEF Differ, ModelFields
<1>8. DetailCurrent(t')
  BY <1>1, <1>6, <1>7 DEF DetailCurrent, KeptDetails, currentPage, ModelSound
<1>9. ModelSound(t')
  BY <1>4, <1>6, <1>8 DEF ModelSound
<1> QED
  BY <1>2, <1>3, <1>9 DEF TuiInv

LEMMA SectionsNamed ==
  ASSUME TuiInv, NEW k \in SectionKeys, IsPage(currentPage(t))
  PROVE  IsPage(rootPage(SectionFor(k)))
<1>1. SectionFor(k) \in 1..5
  <2>1. currentSection \in 1..5
    BY DEF currentSection, IsPage, RowKind
  <2>2. Len(Sections) = 5 /\ DOMAIN Sections = 1..5
    BY DEF Sections
  <2>3. CASE k = "tab"
    BY <2>1, <2>2, <2>3 DEF SectionFor
  <2>4. CASE k = "shift+tab"
    BY <2>1, <2>2, <2>4 DEF SectionFor
  <2>5. CASE k \notin {"tab", "shift+tab"}
    <3>1. k \in ToSet(Digits)
      BY <2>5 DEF SectionKeys
    <3>2. \E n \in 1..5 : Digits[n] = k
      BY <3>1 DEF ToSet, Digits
    <3>3. SectionOf(k) \in 1..5
      BY <2>2, <3>2 DEF SectionOf
    <3> QED
      BY <2>5, <3>3 DEF SectionFor
  <2> QED
    BY <2>3, <2>4, <2>5
<1>2. \A n \in 1..5 : Sections[n] \in DOMAIN RowKind
  BY DEF Sections, RowKind
<1> QED
  BY <1>1, <1>2, PageMade DEF rootPage

LEMMA switchSectionSound ==
  ASSUME TuiInv, NEW k, switchSection(k)
  PROVE  TuiInv'
<1> DEFINE page == loadTUIPage(store, rootPage(SectionFor(k)))
<1>1. /\ ModelSound(t) /\ t.open /\ IsStore(store) /\ IsPage(currentPage(t))
      /\ k \in SectionKeys /\ t' = Visit(t, <<page>>) /\ store' = store
  BY Pressed DEF switchSection
<1>2. IsPage(page)
  BY <1>1, SectionsNamed, PageLoaded
<1> HIDE DEF page
<1>3. IsStack(<<page>>)
  BY <1>2, OneElement DEF IsStack
<1>4. ModelSound(t') /\ t'.open
  BY <1>1, <1>3, Visited
<1> QED
  BY <1>1, <1>4 DEF TuiInv

LEMMA RefreshSound ==
  ASSUME TuiInv, Refresh
  PROVE  TuiInv'
<1>1. ModelSound(t) /\ t.open /\ IsStore(store)
  BY Pressed DEF Refresh
<1>2. t' = requestPageReload(t) /\ store' = store
  BY DEF Refresh
<1>3. ModelSound(t') /\ t'.open
  BY <1>1, <1>2, ReloadRequested
<1> QED
  BY <1>1, <1>2, <1>3 DEF TuiInv

LEMMA ToggleAutoSound ==
  ASSUME TuiInv, ToggleAuto
  PROVE  TuiInv'
<1> DEFINE u == [t EXCEPT !.auto = ~t.auto]
<1>1. ModelSound(t) /\ t.open /\ IsStore(store) /\ DOMAIN t = ModelFields
  BY Pressed DEF ToggleAuto
<1>2. t' = nextAutoRefreshCmd(u) /\ store' = store
  BY DEF ToggleAuto
<1>3. Differ(t, u, {"auto"}) /\ u.auto \in BOOLEAN
  <2>1. t.auto \in BOOLEAN
    BY <1>1 DEF ModelSound, Typed
  <2> QED
    BY <1>1, <2>1 DEF Differ, ModelFields
<1> HIDE DEF u
<1>4. Typed(u) /\ u.flight = t.flight /\ u.open = t.open
  BY <1>1, <1>3 DEF Typed, Differ, ModelFields, ModelSound
<1>5. \A k : FreshOf(u, k) = FreshOf(t, k)
  BY <1>4 DEF FreshOf
<1>6. Differ(t, u, {"flight", "focus", "auto", "begun", "triggering", "target", "list"})
  BY <1>3 DEF Differ
<1>7. LoadsSound(t)
  BY <1>1 DEF ModelSound, LoadsSound
<1>8. LoadsSound(u)
  BY <1>4, <1>5, <1>6, <1>7, LoadsStay
<1>9. u.open => u.begun \/ FreshOf(u, "tick") = {}
  <2>1. u.begun = t.begun
    BY <1>3 DEF Differ, ModelFields
  <2> QED
    BY <1>1, <1>4, <1>5, <2>1 DEF ModelSound, TimerRuns
<1>10. ModelSound(t') /\ t'.open = u.open
  BY <1>2, <1>8, <1>9, TimerSet
<1> QED
  BY <1>1, <1>2, <1>4, <1>10 DEF TuiInv

LEMMA FocusSound ==
  ASSUME TuiInv, NEW k, Focus(k)
  PROVE  TuiInv'
<1>1. ModelSound(t) /\ t.open /\ IsStore(store) /\ DOMAIN t = ModelFields
  BY Pressed DEF Focus
<1>2. PICK pane \in {"list", "detail"} : t' = [t EXCEPT !.focus = pane] /\ store' = store
  BY DEF Focus
<1>3. Differ(t, t', {"focus", "triggering", "target"}) /\ t'.focus = pane
  BY <1>1, <1>2 DEF Differ, ModelFields
<1>4. t'.triggering = t.triggering /\ t'.target = t.target
  BY <1>1, <1>2 DEF ModelFields
<1>5. t'.triggering \in BOOLEAN /\ (t'.triggering => IsTarget(t'.target))
  BY <1>1, <1>4 DEF ModelSound, Typed
<1>6. ModelSound(t') /\ t'.open
  BY <1>1, <1>3, <1>5, PaneSet
<1> QED
  BY <1>1, <1>2, <1>6 DEF TuiInv

LEMMA popPageSound ==
  ASSUME TuiInv, popPage
  PROVE  TuiInv'
<1> DEFINE below == Front(t.stack)
           page == loadTUIPage(store, Last(below))
           stack == Append(Front(below), page)
<1>1. ModelSound(t) /\ t.open /\ IsStore(store) /\ IsStack(t.stack)
  BY Pressed DEF popPage
<1>2. t' = Visit(t, stack) /\ store' = store /\ Len(t.stack) > 1
  BY DEF popPage
<1>3. /\ IsSeq(below) /\ below # <<>>
      /\ \A p \in ToSet(below) : IsPage(p)
  <2>1. /\ IsSeq(below) /\ ToSet(below) \subseteq ToSet(t.stack)
        /\ Len(below) = Len(t.stack) - 1 /\ Len(t.stack) \in Nat
    BY <1>1, SeqFront, SeqRange DEF IsStack
  <2>2. below # <<>>
    BY <1>2, <2>1, SeqRange
  <2> QED
    BY <1>1, <2>1, <2>2 DEF IsStack
<1> HIDE DEF below
<1>4. /\ IsSeq(Front(below)) /\ ToSet(Front(below)) \subseteq ToSet(below)
      /\ IsPage(Last(below))
  BY <1>3, SeqFront
<1>5. IsPage(page)
  BY <1>1, <1>4, PageLoaded
<1> HIDE DEF page
<1>6. IsStack(stack)
  BY <1>3, <1>4, <1>5, PagesOnTop
<1> HIDE DEF stack
<1>7. ModelSound(t') /\ t'.open
  BY <1>1, <1>2, <1>6, Visited
<1> QED
  BY <1>1, <1>2, <1>7 DEF TuiInv

LEMMA BackToListSound ==
  ASSUME TuiInv, BackToList
  PROVE  TuiInv'
<1>1. ModelSound(t) /\ t.open /\ IsStore(store) /\ DOMAIN t = ModelFields
  BY Pressed DEF BackToList
<1>2. t' = [t EXCEPT !.focus = "list"] /\ store' = store
  BY DEF BackToList
<1>3. Differ(t, t', {"focus", "triggering", "target"}) /\ t'.focus = "list"
  BY <1>1, <1>2 DEF Differ, ModelFields
<1>4. t'.triggering = t.triggering /\ t'.target = t.target
  BY <1>1, <1>2 DEF ModelFields
<1>5. t'.triggering \in BOOLEAN /\ (t'.triggering => IsTarget(t'.target))
  BY <1>1, <1>4 DEF ModelSound, Typed
<1>6. ModelSound(t') /\ t'.open
  BY <1>1, <1>3, <1>5, PaneSet
<1> QED
  BY <1>1, <1>2, <1>6 DEF TuiInv

LEMMA PagesOpened ==
  ASSUME NEW page, IsPage(page), NEW i, NEW k \in DOMAIN ActionOf,
         NEW next \in nextTUIPage(page, i, ActionOf[k])
  PROVE  IsPage(next)
<1> DEFINE action == ActionOf[k]
<1>1. \A kind \in {"agents", "runs", "thread", "steps", "mailbox", "schedules"} : \A q : IsPage(Page(kind, q))
  <2>1. {"agents", "runs", "thread", "steps", "mailbox", "schedules"} \subseteq DOMAIN RowKind
    BY DEF RowKind
  <2> QED
    BY <2>1, PageMade
<1>2. action \in {"enter", "agent", "mailbox", "runs", "schedules", "thread", "steps"}
  BY DEF ActionOf
<1> HIDE DEF action
<1>3. \A test, p : \A x \in If(test, p) : x = p
  BY DEF If
<1>4. CASE action = "enter"
  <2>1. next \in Enter(page, i)
    BY <1>4 DEF nextTUIPage, action
  <2>2. page.kind \in {"namespaces", "agents", "mailbox", "runs", "schedules", "thread", "steps"}
    BY DEF IsPage, RowKind
  <2>3. \E kind \in {"agents", "runs", "thread", "steps"} : \E q : next = Page(kind, q)
    <3>1. CASE page.kind = "namespaces"
      BY <2>1, <3>1 DEF Enter
    <3>2. CASE page.kind = "agents"
      BY <2>1, <3>2 DEF Enter
    <3>3. CASE page.kind = "mailbox"
      BY <1>3, <2>1, <3>3 DEF Enter
    <3>4. CASE page.kind = "runs"
      BY <2>1, <3>4 DEF Enter
    <3>5. CASE page.kind = "schedules"
      BY <2>1, <3>5 DEF Enter
    <3>6. CASE page.kind \in {"thread", "steps"}
      BY <2>1, <3>6 DEF Enter
    <3> QED
      BY <2>2, <3>1, <3>2, <3>3, <3>4, <3>5, <3>6
  <2> QED
    BY <1>1, <2>3
<1>5. CASE action = "agent"
  BY <1>1, <1>3, <1>5 DEF nextTUIPage, action
<1>6. CASE action = "mailbox"
  BY <1>1, <1>3, <1>6 DEF nextTUIPage, action
<1>7. CASE action = "runs"
  BY <1>1, <1>3, <1>7 DEF nextTUIPage, action
<1>8. CASE action = "schedules"
  BY <1>1, <1>3, <1>8 DEF nextTUIPage, action
<1>9. CASE action = "thread"
  BY <1>1, <1>3, <1>9 DEF nextTUIPage, action
<1>10. CASE action = "steps"
  BY <1>1, <1>3, <1>10 DEF nextTUIPage, action
<1> QED
  BY <1>2, <1>4, <1>5, <1>6, <1>7, <1>8, <1>9, <1>10

LEMMA openActionSound ==
  ASSUME TuiInv, NEW k, openAction(k)
  PROVE  TuiInv'
<1>1. /\ ModelSound(t) /\ t.open /\ IsStore(store) /\ IsPage(currentPage(t))
      /\ DOMAIN t = ModelFields /\ IsList(t.list)
  BY Pressed DEF openAction
<1>2. store' = store /\ k \in DOMAIN ActionOf
  BY DEF openAction
<1>10. PICK item \in selectedItem(t) :
        \E next \in nextTUIPage(currentPage(t), item, ActionOf[k]) :
          t' = Visit(t, Append(Front(t.stack), [currentPage(t) EXCEPT !.cursor = t.list.index])
                          \o <<loadTUIPage(store, next)>>)
  BY DEF openAction
<1>3. PICK next \in nextTUIPage(currentPage(t), item, ActionOf[k]) :
        t' = Visit(t, Append(Front(t.stack), [currentPage(t) EXCEPT !.cursor = t.list.index])
                        \o <<loadTUIPage(store, next)>>)
  BY <1>10
<1> DEFINE left == Append(Front(t.stack), [Last(t.stack) EXCEPT !.cursor = t.list.index])
           page == loadTUIPage(store, next)
           u == [t EXCEPT !.stack = left]
<1>4. t' = Visit(t, left \o <<page>>)
  BY <1>3 DEF currentPage
<1>5. IsPage(next)
  BY <1>1, <1>2, PagesOpened
<1>6. IsPage(page)
  BY <1>1, <1>5, PageLoaded
<1> HIDE DEF page
<1>7. IsStack(left)
  BY <1>1, CursorKept DEF IsList
<1> HIDE DEF left, u
<1>8. IsStack(left \o <<page>>)
  BY <1>6, <1>7, OneElement, SeqConcat DEF IsStack
<1>9. ModelSound(t') /\ t'.open
  BY <1>1, <1>4, <1>8, Visited
<1> QED
  BY <1>1, <1>2, <1>9 DEF TuiInv

LEMMA LoadFailsSound ==
  ASSUME TuiInv, NEW k, LoadFails(k)
  PROVE  TuiInv'
<1>1. /\ ModelSound(t) /\ t.open /\ IsStore(store) /\ IsPage(currentPage(t))
      /\ DOMAIN t = ModelFields /\ IsList(t.list)
  BY Pressed DEF LoadFails
<1>2. store' = store
  BY DEF LoadFails
<1>3. CASE t' = t
  BY <1>1, <1>2, <1>3 DEF TuiInv
<1> DEFINE left == Append(Front(t.stack), [Last(t.stack) EXCEPT !.cursor = t.list.index])
<1>4. CASE t' = [t EXCEPT !.stack = left]
  <2> HIDE DEF left
  <2>1. /\ t.list.index \in Nat
        /\ left = Append(Front(t.stack), [Last(t.stack) EXCEPT !.cursor = t.list.index])
    BY <1>1 DEF IsList, left
  <2>2. ModelSound(t') /\ Differ(t, t', {"stack"})
    BY <1>1, <1>4, <2>1, CursorKept
  <2>3. t'.open
    BY <1>1, <2>2 DEF Differ, ModelFields
  <2> QED
    BY <1>1, <1>2, <2>2, <2>3 DEF TuiInv
<1> QED
  BY <1>3, <1>4 DEF LoadFails

LEMMA TargetsTyped ==
  ASSUME NEW to \in currentTriggerTarget
  PROVE  IsTarget(to)
<1>1. \A test, p : \A x \in If(test, p) : x = p
  BY DEF If
<1>2. \A page, i : \A x \in triggerTarget(page, i) : IsTarget(x)
  <2> TAKE page, i
  <2> TAKE x \in triggerTarget(page, i)
  <2>1. x = [namespace |-> i.namespace, agent |-> i.agent]
    BY <1>1 DEF triggerTarget
  <2> QED
    BY <2>1 DEF IsTarget
<1>3. \A page : \A x \in pageTriggerTarget(page) : IsTarget(x)
  <2> TAKE page
  <2> TAKE x \in pageTriggerTarget(page)
  <2>1. x = [namespace |-> page.query.namespace, agent |-> page.query.agent]
    BY <1>1 DEF pageTriggerTarget
  <2> QED
    BY <2>1 DEF IsTarget
<1> DEFINE row == UNION {triggerTarget(currentPage(t), i) : i \in selectedItem(t)}
<1>4. \A x \in row : IsTarget(x)
  BY <1>2
<1>5. currentTriggerTarget = IF row # {} THEN row ELSE pageTriggerTarget(currentPage(t))
  BY DEF currentTriggerTarget
<1> QED
  BY <1>3, <1>4, <1>5

LEMMA startTriggerModeSound ==
  ASSUME TuiInv, startTriggerMode
  PROVE  TuiInv'
<1>1. ModelSound(t) /\ t.open /\ IsStore(store) /\ DOMAIN t = ModelFields
  BY Pressed DEF startTriggerMode
<1>2. PICK to \in currentTriggerTarget :
        t' = [t EXCEPT !.triggering = TRUE, !.target = to] /\ store' = store
  BY DEF startTriggerMode
<1>3. /\ Differ(t, t', {"focus", "triggering", "target"})
      /\ t'.triggering = TRUE /\ t'.target = to /\ t'.focus = t.focus
  BY <1>1, <1>2 DEF Differ, ModelFields
<1>4. IsTarget(to) /\ t.focus \in {"list", "detail"}
  BY <1>1, TargetsTyped DEF ModelSound, Typed
<1>5. ModelSound(t') /\ t'.open
  BY <1>1, <1>3, <1>4, PaneSet
<1> QED
  BY <1>1, <1>2, <1>5 DEF TuiInv

LEMMA TriggerModeLeft ==
  ASSUME NEW m, ModelSound(m), m.open, NEW n, n = exitTriggerMode(m)
  PROVE  ModelSound(n) /\ n.open
<1>1. DOMAIN m = ModelFields /\ m.focus \in {"list", "detail"}
  BY DEF ModelSound, Typed
<1>2. /\ Differ(m, n, {"focus", "triggering", "target"})
      /\ n.triggering = FALSE /\ n.focus = m.focus
  BY <1>1 DEF Differ, ModelFields, exitTriggerMode
<1> QED
  BY <1>1, <1>2, PaneSet

LEMMA LeaveTriggerModeSound ==
  ASSUME TuiInv, LeaveTriggerMode
  PROVE  TuiInv'
<1>1. ModelSound(t) /\ t.open /\ IsStore(store)
  BY Pressed DEF LeaveTriggerMode
<1>2. t' = exitTriggerMode(t) /\ store' = store
  BY DEF LeaveTriggerMode
<1>3. ModelSound(t') /\ t'.open
  BY <1>1, <1>2, TriggerModeLeft
<1> QED
  BY <1>1, <1>2, <1>3 DEF TuiInv

LEMMA submitTriggerPromptSound ==
  ASSUME TuiInv, submitTriggerPrompt
  PROVE  TuiInv'
<1>1. ModelSound(t) /\ t.open /\ IsStore(store)
  BY Pressed DEF submitTriggerPrompt
<1> DEFINE u == exitTriggerMode(t)
<1>2. /\ t' = requestPageReload(u)
      /\ store' = EnqueueMessage(store, SubmitTarget.namespace, SubmitTarget.agent)
  BY DEF submitTriggerPrompt
<1>3. ModelSound(u) /\ u.open
  BY <1>1, TriggerModeLeft
<1> HIDE DEF u
<1>4. ModelSound(t') /\ t'.open
  BY <1>2, <1>3, ReloadRequested
<1>5. IsStore(store')
  BY <1>1, <1>2, Enqueued
<1> QED
  BY <1>4, <1>5 DEF TuiInv

LEMMA PaneKeySound ==
  ASSUME TuiInv, NEW k, PaneKey(k)
  PROVE  TuiInv'
<1>1. ModelSound(t) /\ t.open /\ IsStore(store) /\ DOMAIN t = ModelFields
  BY Pressed DEF PaneKey
<1> DEFINE u == [t EXCEPT !.focus = "list"]
<1>2. store' = store /\ (t' = t \/ t' = updateList(u, k))
  BY DEF PaneKey
<1>3. Differ(t, u, {"focus", "triggering", "target"}) /\ u.focus = "list"
  BY <1>1 DEF Differ, ModelFields
<1>4. u.triggering = t.triggering /\ u.target = t.target
  BY <1>1 DEF ModelFields
<1> HIDE DEF u
<1>5. u.triggering \in BOOLEAN /\ (u.triggering => IsTarget(u.target))
  BY <1>1, <1>4 DEF ModelSound, Typed
<1>6. ModelSound(u) /\ u.open
  BY <1>1, <1>3, <1>5, PaneSet
<1>7. CASE t' = t
  BY <1>1, <1>2, <1>7 DEF TuiInv
<1>8. CASE t' = updateList(u, k)
  <2>1. ModelSound(t') /\ t'.open
    BY <1>6, <1>8, ListUpdated
  <2> QED
    BY <1>1, <1>2, <2>1 DEF TuiInv
<1> QED
  BY <1>2, <1>7, <1>8

LEMMA UserSound ==
  ASSUME TuiInv, User
  PROVE  TuiInv'
<1>1. CASE Quit
  BY <1>1, QuitSound
<1>2. CASE Refresh
  BY <1>2, RefreshSound
<1>3. CASE ToggleAuto
  BY <1>3, ToggleAutoSound
<1>4. CASE popPage
  BY <1>4, popPageSound
<1>5. CASE BackToList
  BY <1>5, BackToListSound
<1>6. CASE startTriggerMode
  BY <1>6, startTriggerModeSound
<1>7. CASE LeaveTriggerMode
  BY <1>7, LeaveTriggerModeSound
<1>8. CASE submitTriggerPrompt
  BY <1>8, submitTriggerPromptSound
<1>9. CASE SubmitFails
  BY <1>9 DEF SubmitFails, TuiInv
<1>10. ASSUME NEW k, switchSection(k) PROVE TuiInv'
  BY <1>10, switchSectionSound
<1>11. ASSUME NEW k, Focus(k) PROVE TuiInv'
  BY <1>11, FocusSound
<1>12. ASSUME NEW k, openAction(k) PROVE TuiInv'
  BY <1>12, openActionSound
<1>13. ASSUME NEW k, LoadFails(k) PROVE TuiInv'
  BY <1>13, LoadFailsSound
<1>14. ASSUME NEW k, PaneKey(k) PROVE TuiInv'
  BY <1>14, PaneKeySound
<1> QED
  BY <1>1, <1>2, <1>3, <1>4, <1>5, <1>6, <1>7, <1>8, <1>9, <1>10, <1>11, <1>12, <1>13, <1>14
     DEF User

-----------------------------------------------------------------------------
(* Commands and their messages.                                            *)

\* A load's message, once it has read.
LEMMA LoadAnswered ==
  ASSUME NEW m, ModelSound(m), NEW x \in m.flight, ~x.ran,
         NEW y, IsMessage(y), Fresh(x.kind, y), y.key = x.key,
         x.kind = "page" => At(y.page) = At(x.page),
         x.kind = "detail" => y.page = x.page,
         NEW n, n = [m EXCEPT !.flight = (m.flight \ {x}) \cup {y}]
  PROVE  ModelSound(n) /\ Differ(m, n, {"flight"})
<1>1. Typed(m) /\ DOMAIN m = ModelFields /\ Messages(m)
  BY DEF ModelSound, Typed, Messages
<1>2. Differ(m, n, {"flight"}) /\ n.flight = (m.flight \ {x}) \cup {y}
  BY <1>1 DEF Differ, ModelFields
<1>3. Messages(n)
  BY <1>1, <1>2 DEF Messages
<1>4. Typed(n)
  BY <1>1, <1>2, <1>3, TypedMessages
<1>5. x.kind \in {"page", "detail"} /\ Fresh(x.kind, x)
  BY <1>1 DEF Messages, IsMessage, Fresh
<1>6. FreshOf(n, x.kind) = (FreshOf(m, x.kind) \ {x}) \cup {y}
  BY <1>2 DEF FreshOf
<1>7. \A k : k # x.kind => FreshOf(n, k) = FreshOf(m, k)
  BY <1>2 DEF FreshOf, Fresh
<1>8. /\ n.stack = m.stack /\ n.open = m.open /\ n.auto = m.auto /\ n.begun = m.begun
      /\ n.pageLoading = m.pageLoading /\ n.detailLoading = m.detailLoading
      /\ n.current = m.current /\ n.cache = m.cache /\ n.content = m.content
  BY <1>2 DEF Differ, ModelFields
<1>9. x \in FreshOf(m, x.kind)
  BY <1>5 DEF FreshOf
<1>10. PageAwaited(n)
  <2>1. CASE x.kind = "page"
    <3>1. \A z \in FreshOf(n, "page") : At(z.page) = At(currentPage(n))
      BY <1>6, <1>8, <1>9, <2>1 DEF PageAwaited, currentPage, ModelSound
    <3>2. Single(FreshOf(m, "page")) => FreshOf(n, "page") = {y}
      BY <1>6, <1>9, <2>1 DEF Single
    <3>3. FreshOf(m, "page") # {}
      BY <1>9, <2>1
    <3> QED
      BY <1>8, <3>1, <3>2, <3>3 DEF PageAwaited, Single, ModelSound
  <2>2. CASE x.kind # "page"
    BY <1>7, <1>8, <2>2 DEF PageAwaited, currentPage, ModelSound
  <2> QED
    BY <2>1, <2>2
<1>11. TimerRuns(n)
  BY <1>5, <1>7, <1>8 DEF TimerRuns, OwnTimers, ModelSound
<1>12. DetailAwaited(n)
  BY <1>6, <1>7, <1>8 DEF DetailAwaited, ModelSound
<1>13. Overtaken(n) => Overtaken(m)
  BY <1>6, <1>7, <1>8, <1>9 DEF Overtaken, currentPage
<1>14. DetailCurrent(n)
  BY <1>8, <1>13 DEF DetailCurrent, KeptDetails, currentPage, ModelSound
<1> QED
  BY <1>2, <1>4, <1>10, <1>11, <1>12, <1>14 DEF ModelSound

LEMMA ReadSound ==
  ASSUME TuiInv, NEW x \in t.flight, Read(x)
  PROVE  TuiInv'
<1>1. /\ ModelSound(t) /\ IsStore(store) /\ IsMessage(x) /\ t.open
      /\ ~x.ran /\ x.fresh = TRUE /\ x.kind \in {"page", "detail"} /\ DOMAIN x = LoadFields
  <2>1. ModelSound(t) /\ IsStore(store) /\ IsMessage(x) /\ t.open
    BY DEF TuiInv, ModelSound, Typed
  <2>2. ~x.ran
    BY DEF Read, Unread
  <2> QED
    BY <2>1, <2>2 DEF IsMessage
<1>2. PICK y : /\ t' = [t EXCEPT !.flight = (t.flight \ {x}) \cup {y}]
               /\ IsMessage(y) /\ Fresh(x.kind, y) /\ y.key = x.key
               /\ x.kind = "page" => At(y.page) = At(x.page)
               /\ x.kind = "detail" => y.page = x.page
  <2>1. CASE x.kind = "page"
    <3> DEFINE page == loadTUIPage(store, x.page)
               y == [x EXCEPT !.ran = TRUE, !.page = page]
    <3>1. t' = [t EXCEPT !.flight = (t.flight \ {x}) \cup {y}]
      BY <2>1 DEF Read
    <3>2. IsPage(page) /\ At(page) = At(x.page)
      BY <1>1, <2>1, PageLoaded DEF IsMessage
    <3> HIDE DEF page
    <3>3. IsMessage(y) /\ Fresh("page", y) /\ y.key = x.key /\ y.page = page
      BY <1>1, <2>1, <3>2 DEF IsMessage, Fresh, LoadFields
    <3> QED
      BY <2>1, <3>1, <3>2, <3>3
  <2>2. CASE x.kind = "detail"
    <3> DEFINE d == renderTUIDetail(store, x.page, x.item)
               failed == d = <<>>
               y == [x EXCEPT !.ran = TRUE, !.detail = d, !.failed = failed]
    <3>1. t' = [t EXCEPT !.flight = (t.flight \ {x}) \cup {y}]
      BY <2>2 DEF Read
    <3> HIDE DEF d, failed
    <3>2. IsMessage(y) /\ Fresh("detail", y) /\ y.key = x.key /\ y.page = x.page
      BY <1>1, <2>2 DEF IsMessage, Fresh, LoadFields
    <3> QED
      BY <2>2, <3>1, <3>2
  <2> QED
    BY <1>1, <2>1, <2>2
<1>3. ModelSound(t') /\ Differ(t, t', {"flight"})
  BY <1>1, <1>2, LoadAnswered
<1>4. t'.open
  BY <1>1, <1>3 DEF Differ, ModelFields
<1>5. store' = store
  BY DEF Read
<1> QED
  BY <1>1, <1>3, <1>4, <1>5 DEF TuiInv

LEMMA ReadFailsSound ==
  ASSUME TuiInv, NEW x \in t.flight, ReadFails(x)
  PROVE  TuiInv'
<1>1. /\ ModelSound(t) /\ IsStore(store) /\ IsMessage(x) /\ t.open
      /\ ~x.ran /\ x.fresh = TRUE /\ x.kind \in {"page", "detail"} /\ DOMAIN x = LoadFields
  <2>1. ModelSound(t) /\ IsStore(store) /\ IsMessage(x) /\ t.open
    BY DEF TuiInv, ModelSound, Typed
  <2>2. ~x.ran
    BY DEF ReadFails, Unread
  <2> QED
    BY <2>1, <2>2 DEF IsMessage
<1> DEFINE y == [x EXCEPT !.ran = TRUE, !.failed = TRUE]
<1>2. t' = [t EXCEPT !.flight = (t.flight \ {x}) \cup {y}] /\ store' = store
  BY DEF ReadFails
<1>3. IsMessage(y) /\ Fresh(x.kind, y) /\ y.key = x.key /\ y.page = x.page
  BY <1>1 DEF IsMessage, Fresh, LoadFields
<1> HIDE DEF y
<1>4. ModelSound(t') /\ Differ(t, t', {"flight"})
  BY <1>1, <1>2, <1>3, LoadAnswered
<1>5. t'.open
  BY <1>1, <1>4 DEF Differ, ModelFields
<1> QED
  BY <1>1, <1>2, <1>4, <1>5 DEF TuiInv

LEMMA Taking ==
  ASSUME NEW x \in t.flight, TuiInv, NEW n, n = Without(x)
  PROVE  /\ Typed(t) /\ IsMessage(x) /\ t.open
         /\ Differ(t, n, {"flight"}) /\ Typed(n)
         /\ \A k : FreshOf(n, k) = FreshOf(t, k) \ {x}
         /\ ~Fresh("page", x) => FreshOf(n, "page") = FreshOf(t, "page")
         /\ ~Fresh("tick", x) => FreshOf(n, "tick") = FreshOf(t, "tick")
         /\ ~Fresh("detail", x) => FreshOf(n, "detail") = FreshOf(t, "detail")
<1>1. Typed(t) /\ IsMessage(x) /\ DOMAIN t = ModelFields /\ t.open
  BY DEF TuiInv, ModelSound, Typed
<1>2. Differ(t, n, {"flight"}) /\ n.flight = t.flight \ {x}
  BY <1>1 DEF Differ, ModelFields, Without
<1>3. Messages(n)
  BY <1>1, <1>2 DEF Messages, Typed
<1>4. Typed(n)
  BY <1>1, <1>2, <1>3, TypedMessages
<1>5. \A k : FreshOf(n, k) = FreshOf(t, k) \ {x}
  BY <1>2 DEF FreshOf
<1>6. \A k : ~Fresh(k, x) => x \notin FreshOf(t, k)
  BY DEF FreshOf
<1> QED
  BY <1>1, <1>2, <1>4, <1>5, <1>6

\* A message that is not taken up goes without a trace.
LEMMA Dropped ==
  ASSUME NEW x \in t.flight, TuiInv, NEW n, n = Without(x),
         \/ ~x.fresh
         \/ x.kind = "matches"
         \/ x.kind = "detail" /\ x.key # t.current
  PROVE  ModelSound(n) /\ n.open
<1>1. /\ Typed(t) /\ IsMessage(x) /\ t.open
      /\ Differ(t, n, {"flight"}) /\ Typed(n)
      /\ \A k : FreshOf(n, k) = FreshOf(t, k) \ {x}
  BY Taking
<1>2. /\ n.stack = t.stack /\ n.open = t.open /\ n.auto = t.auto /\ n.begun = t.begun
      /\ n.pageLoading = t.pageLoading /\ n.detailLoading = t.detailLoading
      /\ n.current = t.current /\ n.cache = t.cache /\ n.content = t.content
  BY <1>1 DEF Differ, ModelFields
<1>3. FreshOf(n, "page") = FreshOf(t, "page") /\ FreshOf(n, "tick") = FreshOf(t, "tick")
  BY Taking DEF Fresh
<1>4. ModelSound(t)
  BY DEF TuiInv
<1>5. PageAwaited(n) /\ TimerRuns(n)
  BY <1>2, <1>3, <1>4 DEF PageAwaited, TimerRuns, OwnTimers, currentPage, ModelSound
<1>6. \A y \in FreshOf(t, "detail") : y.key = t.current => y \in FreshOf(n, "detail")
  BY <1>1 DEF FreshOf, Fresh
<1>7. DetailAwaited(n)
  BY <1>2, <1>4, <1>6 DEF DetailAwaited, ModelSound
<1>8. Overtaken(n) => Overtaken(t)
  BY <1>1, <1>2 DEF Overtaken, currentPage
<1>9. DetailCurrent(n)
  BY <1>2, <1>4, <1>8 DEF DetailCurrent, KeptDetails, currentPage, ModelSound
<1> QED
  BY <1>1, <1>2, <1>5, <1>7, <1>9 DEF ModelSound

LEMMA TickTaken ==
  ASSUME NEW x \in t.flight, TuiInv, x.kind = "tick", t' = handleAutoRefreshTick(x)
  PROVE  ModelSound(t') /\ t'.open /\ t'.stack = t.stack
<1> DEFINE u == Without(x)
           next == nextAutoRefreshCmd(u)
<1>1. /\ IsMessage(x) /\ t.open /\ Differ(t, u, {"flight"}) /\ Typed(u)
      /\ FreshOf(u, "page") = FreshOf(t, "page") /\ FreshOf(u, "detail") = FreshOf(t, "detail")
      /\ u.open = t.open /\ u.stack = t.stack
  BY Taking DEF Fresh, Differ, ModelFields
<1>2. ~x.fresh => ModelSound(u) /\ u.open
  BY Dropped
<1>3. \/ t' = u /\ ~x.fresh
      \/ x.fresh /\ t' = next
      \/ x.fresh /\ t' = requestPageReload(next)
  BY DEF handleAutoRefreshTick
<1> HIDE DEF u
<1>4. LoadsSound(u)
  <2>1. LoadsSound(t)
    BY DEF TuiInv, ModelSound, LoadsSound
  <2>2. Differ(t, u, {"flight", "focus", "auto", "begun", "triggering", "target", "list"})
    BY <1>1 DEF Differ
  <2> QED
    BY <1>1, <2>1, <2>2, LoadsStay
<1>5. x.fresh => ModelSound(next) /\ next.open = u.open /\ next.stack = u.stack
  <2> SUFFICES ASSUME x.fresh
               PROVE  ModelSound(next) /\ next.open = u.open /\ next.stack = u.stack
    OBVIOUS
  <2>1. x \in FreshOf(t, "tick")
    BY DEF FreshOf, Fresh
  <2>2. t.begun
    BY <1>1, <2>1 DEF TuiInv, ModelSound, TimerRuns
  <2>3. u.begun = t.begun
    BY <1>1 DEF Differ, ModelFields
  <2> QED
    BY <1>4, <2>2, <2>3, TimerSet
<1> HIDE DEF next
<1>6. CASE t' = u /\ ~x.fresh
  BY <1>1, <1>2, <1>6
<1>7. CASE x.fresh /\ t' = next
  BY <1>1, <1>5, <1>7
<1>8. CASE x.fresh /\ t' = requestPageReload(next)
  BY <1>1, <1>5, <1>8, ReloadRequested
<1> QED
  BY <1>3, <1>6, <1>7, <1>8

\* The model that a fresh page finds when it comes.
AtAnswer(x) == [Without(x) EXCEPT !.pageLoading = FALSE]

LEMMA PageAnswered ==
  ASSUME NEW x \in t.flight, TuiInv, Fresh("page", x), NEW u, u = AtAnswer(x)
  PROVE  /\ ModelSound(u) /\ u.open /\ u.pageLoading = FALSE /\ FreshOf(u, "page") = {}
         /\ Differ(t, u, {"flight", "pageLoading"})
         /\ IsPage(x.page) /\ At(x.page) = At(currentPage(t))
<1> DEFINE a == Without(x)
<1>1. /\ IsMessage(x) /\ t.open /\ Typed(t) /\ Differ(t, a, {"flight"}) /\ Typed(a)
      /\ FreshOf(a, "page") = FreshOf(t, "page") \ {x}
      /\ FreshOf(a, "tick") = FreshOf(t, "tick") /\ FreshOf(a, "detail") = FreshOf(t, "detail")
  BY Taking DEF Fresh
<1>2. u = [a EXCEPT !.pageLoading = FALSE]
  BY DEF AtAnswer
<1> HIDE DEF a
<1>3. Differ(a, u, {"pageLoading"}) /\ u.pageLoading = FALSE
  BY <1>1, <1>2 DEF Differ, ModelFields
<1>4. Differ(t, u, {"flight", "pageLoading"})
  BY <1>1, <1>3 DEF Differ
<1>5. /\ u.flight = a.flight /\ u.stack = t.stack /\ u.open = t.open
      /\ u.auto = t.auto /\ u.begun = t.begun /\ u.detailLoading = t.detailLoading
      /\ u.current = t.current /\ u.cache = t.cache /\ u.content = t.content
  BY <1>3, <1>4 DEF Differ, ModelFields
<1>6. Typed(u)
  <2>1. u.detailLoading = a.detailLoading
    BY <1>3 DEF Differ, ModelFields
  <2>2. Differ(a, u, {"pageLoading", "detailLoading"}) /\ u.detailLoading \in BOOLEAN
    BY <1>1, <1>3, <2>1 DEF Differ, Typed
  <2> QED
    BY <1>1, <1>3, <2>2, TypedLoading
<1>7. \A k : FreshOf(u, k) = FreshOf(a, k)
  BY <1>5 DEF FreshOf
<1>8. ModelSound(t)
  BY DEF TuiInv
<1>9. x \in FreshOf(t, "page")
  BY DEF FreshOf
<1>10. FreshOf(u, "page") = {}
  <2>1. Single(FreshOf(t, "page"))
    BY <1>1, <1>8, <1>9 DEF ModelSound, PageAwaited
  <2> QED
    BY <1>1, <1>7, <1>9, <2>1 DEF Single
<1>11. PageAwaited(u)
  BY <1>3, <1>10 DEF PageAwaited
<1>12. TimerRuns(u)
  BY <1>1, <1>5, <1>7, <1>8 DEF TimerRuns, OwnTimers, ModelSound
<1>13. DetailAwaited(u)
  BY <1>1, <1>5, <1>7, <1>8 DEF DetailAwaited, ModelSound
<1>14. DetailCurrent(u)
  BY <1>1, <1>5, <1>7, <1>8 DEF DetailCurrent, KeptDetails, Overtaken, currentPage, ModelSound
<1>15. At(x.page) = At(currentPage(t))
  BY <1>8, <1>9 DEF ModelSound, PageAwaited
<1>16. IsPage(x.page)
  BY <1>1 DEF IsMessage, Fresh
<1> QED
  BY <1>1, <1>3, <1>4, <1>5, <1>6, <1>10, <1>11, <1>12, <1>13, <1>14, <1>15, <1>16 DEF ModelSound

LEMMA PageTaken ==
  ASSUME NEW x \in t.flight, TuiInv, x.kind = "page", t' = handlePageLoaded(x)
  PROVE  /\ ModelSound(t') /\ t'.open
         /\ \/ t'.stack = t.stack
            \/ \E page : /\ t'.stack = Append(Front(t.stack), page)
                         /\ At(page) = At(currentPage(t))
<1>1. CASE ~x.fresh
  <2>1. t' = Without(x)
    BY <1>1 DEF handlePageLoaded
  <2>2. Differ(t, t', {"flight"})
    BY <2>1, Taking
  <2>3. t'.stack = t.stack
    BY <2>2 DEF Differ, ModelFields
  <2> QED
    BY <1>1, <2>1, <2>3, Dropped
<1>2. CASE x.fresh
  <2> DEFINE u == AtAnswer(x)
  <2>0. IsMessage(x)
    BY Taking
  <2>1. Fresh("page", x)
    BY <1>2 DEF Fresh
  <2>2. /\ ModelSound(u) /\ u.open /\ u.pageLoading = FALSE /\ FreshOf(u, "page") = {}
        /\ Differ(t, u, {"flight", "pageLoading"})
        /\ IsPage(x.page) /\ At(x.page) = At(currentPage(t))
    BY <2>1, PageAnswered
  <2>3. t' = u \/ t' = Reloaded(u, x.page)
    BY <1>2 DEF handlePageLoaded, AtAnswer
  <2> HIDE DEF u
  <2>4. u.stack = t.stack
    BY <2>2 DEF Differ, ModelFields
  <2>5. CASE t' = u
    BY <2>2, <2>4, <2>5
  <2>6. CASE t' = Reloaded(u, x.page)
    <3>1. At(x.page) = At(currentPage(u)) /\ Typed(u) /\ TimerRuns(u)
      BY <2>2, <2>4 DEF currentPage, ModelSound
    <3> DEFINE loaded == x.page
    <3>3. t' = Reloaded(u, loaded) /\ IsPage(loaded) /\ At(loaded) = At(currentPage(u))
      BY <2>2, <2>6, <3>1
    <3>4. At(loaded) = At(currentPage(t))
      BY <2>2
    <3> HIDE DEF loaded
    <3>5. \E page :
            /\ IsPage(page) /\ At(page) = At(loaded) /\ page.items = loaded.items
            /\ t'.stack = Append(Front(u.stack), page)
            /\ t'.list = AppliedList(u, page, TRUE, currentSelectionKey(u))
            /\ ModelSound(t') /\ t'.open
      BY <2>2, <3>1, <3>3, ReloadApplied
    <3>2. \E page : /\ At(page) = At(loaded)
                    /\ t'.stack = Append(Front(u.stack), page)
                    /\ ModelSound(t') /\ t'.open
      BY <3>5
    <3> QED
      BY <2>4, <3>2, <3>4
  <2> QED
    BY <2>3, <2>5, <2>6
<1> QED
  BY <1>1, <1>2

LEMMA DetailTaken ==
  ASSUME NEW x \in t.flight, TuiInv, x.kind = "detail", t' = handleDetailLoaded(x)
  PROVE  ModelSound(t') /\ t'.open /\ t'.stack = t.stack
<1> DEFINE u == Without(x)
           content == Content(IF x.failed THEN "error" ELSE "detail", x.key, x.page.items, x.detail)
           cache == IF x.failed THEN u.cache ELSE u.cache \cup {content}
<1>1. /\ IsMessage(x) /\ t.open /\ Typed(t) /\ Differ(t, u, {"flight"}) /\ Typed(u)
      /\ FreshOf(u, "page") = FreshOf(t, "page") /\ FreshOf(u, "tick") = FreshOf(t, "tick")
      /\ FreshOf(u, "detail") = FreshOf(t, "detail") \ {x}
  BY Taking DEF Fresh
<1>2. u.stack = t.stack /\ u.open = t.open
  BY <1>1 DEF Differ, ModelFields
<1>3. CASE ~x.fresh \/ x.key # t.current
  <2>1. t' = u
    BY <1>3 DEF handleDetailLoaded
  <2>2. ModelSound(u)
    BY <1>3, Dropped
  <2> QED
    BY <1>1, <1>2, <2>1, <2>2
<1>4. CASE x.fresh /\ x.key = t.current
  <2>1. t' = [u EXCEPT !.detailLoading = FALSE, !.content = content, !.cache = cache]
    BY <1>4 DEF handleDetailLoaded
  <2>2. IsContent(content) /\ content.rows = x.page.items
    BY DEF IsContent, Content
  <2> HIDE DEF content
  <2>3. \A d \in cache : d \in t.cache \/ d = content
    BY <1>1 DEF Differ, ModelFields
  <2> HIDE DEF cache, u
  <2>4. /\ Differ(u, t', {"detailLoading", "content", "cache"})
        /\ t'.detailLoading = FALSE /\ t'.content = content /\ t'.cache = cache
    BY <1>1, <2>1 DEF Differ, ModelFields
  <2>5. /\ t'.flight = u.flight /\ t'.stack = t.stack /\ t'.open = t.open
        /\ t'.auto = t.auto /\ t'.begun = t.begun
        /\ t'.pageLoading = t.pageLoading
    BY <1>1, <2>4 DEF Differ, ModelFields
  <2>15. \A d \in cache : IsContent(d)
    BY <1>1, <2>2, <2>3 DEF Typed
  <2>16. /\ t'.list = u.list /\ t'.focus = u.focus /\ t'.stack = u.stack /\ t'.flight = u.flight
         /\ t'.auto = u.auto /\ t'.begun = u.begun /\ t'.pageLoading = u.pageLoading /\ t'.open = u.open
         /\ t'.triggering = u.triggering /\ t'.target = u.target
    BY <2>4 DEF Differ, ModelFields
  <2>17. {t'.auto, t'.pageLoading, t'.detailLoading, t'.triggering, t'.open} \subseteq BOOLEAN
    BY <1>1, <2>4, <2>16 DEF Typed
  <2>6. Typed(t')
    BY <1>1, <2>2, <2>4, <2>15, <2>16, <2>17 DEF Typed, Differ
  <2>7. \A k : FreshOf(t', k) = FreshOf(u, k)
    BY <2>5 DEF FreshOf
  <2>8. ModelSound(t)
    BY DEF TuiInv
  <2>9. PageAwaited(t') /\ TimerRuns(t') /\ DetailAwaited(t')
    BY <1>1, <2>4, <2>5, <2>7, <2>8
       DEF PageAwaited, TimerRuns, OwnTimers, DetailAwaited, currentPage, ModelSound
  <2>10. ~Overtaken(t)
    <3>1. t.current # None
      BY <1>1, <1>4 DEF IsMessage
    <3> QED
      BY <2>8, <3>1 DEF DetailCurrent, ModelSound
  <2>11. x.page.items = currentPage(t).items
    <3>1. x \in FreshOf(t, "detail")
      BY <1>4 DEF FreshOf, Fresh
    <3> QED
      BY <2>10, <3>1 DEF Overtaken
  <2>12. KeptDetails(t')
    BY <2>2, <2>3, <2>4, <2>5, <2>8, <2>11 DEF KeptDetails, DetailCurrent, currentPage, ModelSound
  <2>13. ~Overtaken(t')
    BY <1>1, <2>5, <2>7, <2>10 DEF Overtaken, currentPage
  <2>14. DetailCurrent(t')
    BY <2>2, <2>4, <2>5, <2>11, <2>12, <2>13 DEF DetailCurrent, currentPage
  <2> QED
    BY <1>1, <2>5, <2>6, <2>9, <2>14 DEF ModelSound
<1> QED
  BY <1>3, <1>4

LEMMA MatchesTaken ==
  ASSUME NEW x \in t.flight, TuiInv, x.kind = "matches", t' = handleFilterMatches(x)
  PROVE  ModelSound(t') /\ t'.open /\ t'.stack = t.stack
<1> DEFINE u == Without(x)
           list == [u.list EXCEPT !.found = x.items]
<1>1. IsMessage(x) /\ t.open /\ Typed(t) /\ Differ(t, u, {"flight"}) /\ Typed(u)
  BY Taking
<1>2. ModelSound(u) /\ u.open /\ u.stack = t.stack
  BY <1>1, Dropped DEF Differ, ModelFields
<1>3. t' = u \/ t' = [u EXCEPT !.list = list]
  BY DEF handleFilterMatches
<1> HIDE DEF u
<1>4. IsList(list)
  BY <1>1 DEF IsList, Typed, IsMessage
<1> HIDE DEF list
<1>5. CASE t' = u
  BY <1>2, <1>5
<1>6. CASE t' = [u EXCEPT !.list = list]
  <2>1. Differ(u, t', {"list"}) /\ t'.list = list
    BY <1>1, <1>6 DEF Differ, ModelFields
  <2>2. t'.flight = u.flight /\ t'.open = u.open /\ t'.stack = u.stack
    BY <2>1 DEF Differ, ModelFields
  <2>3. Typed(t')
    BY <1>1, <1>4, <2>1 DEF Typed, Differ, ModelFields
  <2>4. \A k : FreshOf(t', k) = FreshOf(u, k)
    BY <2>2 DEF FreshOf
  <2>5. Differ(u, t', {"flight", "focus", "triggering", "target", "list"})
    BY <2>1 DEF Differ
  <2>6. ModelSound(t')
    BY <1>2, <2>3, <2>4, <2>5, SoundStays
  <2> QED
    BY <1>2, <2>2, <2>6
<1> QED
  BY <1>3, <1>5, <1>6

LEMMA DeliverSound ==
  ASSUME TuiInv, NEW x \in t.flight, Deliver(x)
  PROVE  TuiInv'
<1>1. store' = store /\ IsStore(store)
  BY DEF Deliver, TuiInv
<1>2. ModelSound(t') /\ t'.open
  <2>1. CASE x.kind = "tick" /\ t' = handleAutoRefreshTick(x)
    BY <2>1, TickTaken
  <2>2. CASE x.kind = "page" /\ t' = handlePageLoaded(x)
    BY <2>2, PageTaken
  <2>3. CASE x.kind = "detail" /\ t' = handleDetailLoaded(x)
    BY <2>3, DetailTaken
  <2>4. CASE x.kind = "matches" /\ t' = handleFilterMatches(x)
    BY <2>4, MatchesTaken
  <2> QED
    BY <2>1, <2>2, <2>3, <2>4 DEF Deliver, Arrives
<1> QED
  BY <1>1, <1>2 DEF TuiInv

-----------------------------------------------------------------------------
(* The invariant.                                                          *)

LEMMA BlankTyped ==
  /\ Typed(Blank) /\ Blank.cache = {} /\ Blank.open = TRUE /\ Blank.pageLoading = FALSE
  /\ Blank.begun = FALSE
<1> DEFINE stack == <<rootPage(1)>>
           list == NewList(<<>>)
<1>1. IsStack(stack)
  <2>1. Sections[1] \in DOMAIN RowKind
    BY DEF Sections, RowKind
  <2> QED
    BY <2>1, PageMade, OneElement DEF IsStack, rootPage
<1>2. IsList(list)
  <2>1. IsSeq(<<>>)
    BY EmptySeq, SeqTyped
  <2> QED
    BY <2>1 DEF IsList, NewList
<1>3. IsContent(NothingSelected)
  BY DEF IsContent, NothingSelected, Content
<1> HIDE DEF stack, list
<1>4. Blank = [stack |-> stack, list |-> list, focus |-> "list", auto |-> TRUE,
               begun |-> FALSE, pageLoading |-> FALSE, detailLoading |-> FALSE, cache |-> {},
               current |-> None, content |-> NothingSelected, triggering |-> FALSE, target |-> None,
               flight |-> {}, open |-> TRUE]
  BY DEF Blank, stack, list
<1>5. DOMAIN Blank = ModelFields
  BY <1>4 DEF ModelFields
<1>6. /\ Blank.stack = stack /\ Blank.list = list /\ Blank.content = NothingSelected
      /\ Blank.focus = "list" /\ Blank.cache = {} /\ Blank.flight = {}
  BY <1>4
<1>7. /\ Blank.auto = TRUE /\ Blank.pageLoading = FALSE /\ Blank.detailLoading = FALSE
      /\ Blank.triggering = FALSE /\ Blank.open = TRUE /\ Blank.begun = FALSE
  BY <1>4
<1>8. {Blank.auto, Blank.pageLoading, Blank.detailLoading, Blank.triggering, Blank.open} \subseteq BOOLEAN
  BY <1>7
<1>9. Typed(Blank)
  BY <1>1, <1>2, <1>3, <1>5, <1>6, <1>7, <1>8 DEF Typed, IsStack
<1> QED
  BY <1>6, <1>7, <1>9

LEMMA InitSound ==
  ASSUME Init
  PROVE  TuiInv
<1> DEFINE root == loadTUIPage(Start, rootPage(1))
           a == applyCurrentPage(Blank, root, FALSE, None, FALSE)
           b == [a EXCEPT !.flight = {}]
           c == syncDetailNow(b, Start)
<1>1. store = Start /\ IsStore(store) /\ t = Send(c, FirstTick)
  BY TuiAssumption DEF Init, newTUIModel
<1>2. IsPage(root)
  <2>1. Sections[1] \in DOMAIN RowKind
    BY DEF Sections, RowKind
  <2>2. IsPage(rootPage(1))
    BY <2>1, PageMade DEF rootPage
  <2> QED
    BY <1>1, <2>2, PageLoaded
<1> HIDE DEF root
<1>3. /\ Differ(Blank, a, PageFields) /\ Typed(a) /\ DetailCurrent(a)
      /\ NothingLoads(a)
  <2>1. PICK no, key : a = applyCurrentPage(Blank, root, no, key, no)
    OBVIOUS
  <2> HIDE DEF a
  <2>2. Typed(Blank) /\ Blank.cache = {}
    BY BlankTyped
  <2>3. \E page :
           /\ IsPage(page) /\ At(page) = At(root) /\ page.items = root.items
           /\ a.stack = Append(Front(Blank.stack), page)
           /\ a.list = AppliedList(Blank, page, no, key)
           /\ Differ(Blank, a, PageFields) /\ Typed(a)
           /\ \A k : k # "detail" => FreshOf(a, k) = FreshOf(Blank, k)
           /\ DetailAwaited(a) /\ DetailCurrent(a)
           /\ NothingLoads(a)
    BY <1>2, <2>1, <2>2, PageApplied
  <2> QED
    BY <2>3
<1> HIDE DEF a
<1>4. /\ a.open = TRUE /\ a.pageLoading = FALSE /\ a.cache = {} /\ a.begun = FALSE
  BY <1>3, BlankTyped DEF Differ, ModelFields, PageFields, DetailFields
<1>5. Differ(a, b, {"flight"}) /\ b.flight = {}
  BY <1>3 DEF Differ, ModelFields
<1> HIDE DEF b
<1>6. Typed(b)
  <2>1. Messages(b)
    BY <1>5 DEF Messages
  <2> QED
    BY <1>3, <1>5, <2>1, TypedMessages
<1>7. b.open = TRUE /\ b.pageLoading = FALSE /\ b.cache = {} /\ b.begun = FALSE
  BY <1>4, <1>5 DEF Differ, ModelFields
<1>8. /\ Typed(c) /\ c.flight = {} /\ c.open = TRUE /\ c.pageLoading = FALSE
      /\ \A d \in c.cache : d.rows = currentPage(c).items
      /\ c.detailLoading = FALSE /\ c.begun = FALSE
      /\ c.content.kind = "detail" => c.content.rows = currentPage(c).items
  <2>1. CASE selectedItem(b) = {}
    <3>1. c = b
      BY <2>1 DEF syncDetailNow
    <3>2. /\ c.stack = a.stack /\ c.list = a.list /\ c.content = a.content
          /\ c.detailLoading = a.detailLoading /\ c.cache = {}
      BY <1>5, <1>7, <3>1 DEF Differ, ModelFields
    <3>3. c.detailLoading = FALSE
      BY <1>3, <2>1, <3>1, <3>2 DEF selectedItem, NothingLoads
    <3>4. c.content.kind = "detail" => c.content.rows = currentPage(c).items
      BY <1>3, <3>2, <3>3 DEF DetailCurrent, currentPage
    <3> QED
      BY <1>5, <1>6, <1>7, <3>1, <3>2, <3>3, <3>4
  <2>2. CASE selectedItem(b) # {}
    <3>1. PICK key, detail :
            c = [b EXCEPT !.current = Content("detail", key, currentPage(b).items, detail).key,
                          !.cache = {Content("detail", key, currentPage(b).items, detail)},
                          !.content = Content("detail", key, currentPage(b).items, detail),
                          !.detailLoading = FALSE]
      BY <2>2 DEF syncDetailNow
    <3> DEFINE d == Content("detail", key, currentPage(b).items, detail)
    <3>2. IsContent(d) /\ d.rows = currentPage(b).items
      BY DEF IsContent, Content
    <3>3. c = [b EXCEPT !.current = d.key, !.cache = {d}, !.content = d, !.detailLoading = FALSE]
      BY <3>1
    <3> HIDE DEF d, c
    <3>4. /\ Differ(b, c, {"current", "cache", "content", "detailLoading"})
          /\ c.cache = {d} /\ c.content = d /\ c.detailLoading = FALSE
      BY <1>5, <3>3 DEF Differ, ModelFields
    <3>5. /\ c.stack = b.stack /\ c.list = b.list /\ c.focus = b.focus /\ c.flight = b.flight
          /\ c.auto = b.auto /\ c.begun = b.begun /\ c.pageLoading = b.pageLoading /\ c.open = b.open
          /\ c.triggering = b.triggering /\ c.target = b.target
      BY <3>4 DEF Differ, ModelFields
    <3>6. {c.auto, c.pageLoading, c.detailLoading, c.triggering, c.open} \subseteq BOOLEAN
      BY <1>6, <3>4, <3>5 DEF Typed
    <3>7. Typed(c)
      BY <1>6, <3>2, <3>4, <3>5, <3>6 DEF Typed, Differ
    <3> QED
      BY <1>5, <1>7, <3>2, <3>4, <3>5, <3>7 DEF currentPage
  <2> QED
    BY <2>1, <2>2
<1> HIDE DEF c
<1>9. \A k : FreshOf(c, k) = {}
  BY <1>8 DEF FreshOf
<1>10. PageAwaited(c)
  BY <1>8, <1>9 DEF PageAwaited
<1>11. DetailCurrent(c)
  BY <1>8, <1>9 DEF DetailCurrent, KeptDetails, Overtaken
<1>12. DetailAwaited(c)
  BY <1>8 DEF DetailAwaited
<1>13. LoadsSound(c)
  BY <1>8, <1>10, <1>11, <1>12 DEF LoadsSound
<1>14. Differ(c, t, {"flight"}) /\ t.flight = {FirstTick}
  BY <1>1, <1>8 DEF Send, Differ, ModelFields, Typed
<1>15. IsMessage(FirstTick) /\ ~FirstTick.fresh
  BY DEF FirstTick, Tick, IsMessage
<1>16. Typed(t)
  BY <1>8, <1>14, <1>15, TypedMessages DEF Messages
<1>17. \A k : FreshOf(t, k) = {}
  BY <1>14, <1>15 DEF FreshOf, Fresh
<1>18. LoadsSound(t)
  <2>1. Differ(c, t, {"flight", "focus", "auto", "begun", "triggering", "target", "list"})
    BY <1>14 DEF Differ
  <2> QED
    BY <1>9, <1>13, <1>16, <1>17, <2>1, LoadsStay
<1>19. t.open = c.open /\ t.begun = c.begun
  BY <1>14 DEF Differ, ModelFields
<1>20. TimerRuns(t)
  BY <1>8, <1>17, <1>19 DEF TimerRuns
<1> QED
  BY <1>1, <1>8, <1>18, <1>19, <1>20 DEF TuiInv, LoadsSound, ModelSound

LEMMA TuiInvariant ==
  Spec => []TuiInv
<1>1. Init => TuiInv
  BY InitSound
<1>2. TuiInv /\ [Next]_vars => TuiInv'
  <2> SUFFICES ASSUME TuiInv, [Next]_vars
               PROVE  TuiInv'
    OBVIOUS
  <2>1. CASE User
    BY <2>1, UserSound
  <2>2. CASE Commands
    BY <2>2, ReadSound, ReadFailsSound, DeliverSound DEF Commands
  <2>3. CASE Serve
    BY <2>3, ServeSound
  <2>4. CASE UNCHANGED vars
    BY <2>4 DEF vars, TuiInv
  <2> QED
    BY <2>1, <2>2, <2>3, <2>4 DEF Next
<1> QED
  BY <1>1, <1>2, PTL DEF Spec

-----------------------------------------------------------------------------
(* What a user may rely on.                                                *)

LEMMA SingleCounted ==
  ASSUME NEW S, Single(S)
  PROVE  Cardinality(S) = 1
  BY FS_Singleton DEF Single

\* Every load has its answer, and no detail outlives the rows it was made
\* for: a reload in progress has exactly one answer on its way that the
\* program will take, and none comes unasked; a detail that is shown as
\* loading has one on its way; auto refresh, once the user has turned it on,
\* has exactly one timer of its own, whether or not Init's still runs, and
\* none that counts before that; and what is kept or shown was read since the
\* rows last came.  For every store, use of the keys, order of the messages and
\* change by the server.
THEOREM LoadsStayInOrder == Spec => []LoadsInOrder
<1>1. TuiInv => LoadsInOrder
  <2> SUFFICES ASSUME TuiInv
               PROVE  LoadsInOrder
    OBVIOUS
  <2>1. /\ IsStore(store) /\ Typed(t) /\ PageAwaited(t) /\ TimerRuns(t)
        /\ DetailAwaited(t) /\ DetailCurrent(t)
    BY DEF TuiInv, ModelSound
  <2>2. TypeOK
    BY <2>1 DEF TypeOK, Typed, IsList, IsContent, IsMessage
  <2>3. \A k : {x \in t.flight : Fresh(k, x)} = FreshOf(t, k)
    BY DEF FreshOf
  <2>4. ASSUME t.open
        PROVE  Cardinality(FreshOf(t, "page")) = IF t.pageLoading THEN 1 ELSE 0
    <3>1. CASE t.pageLoading
      <4>1. Single(FreshOf(t, "page"))
        BY <2>1, <2>4, <3>1 DEF PageAwaited
      <4> QED
        BY <3>1, <4>1, SingleCounted
    <3>2. CASE ~t.pageLoading
      <4>1. FreshOf(t, "page") = {}
        BY <2>1, <2>4, <3>2 DEF PageAwaited
      <4> QED
        BY <3>2, <4>1, FS_EmptySet
    <3> QED
      BY <3>1, <3>2
  <2>5. t.open => IF t.begun THEN t.auto => Cardinality(OwnTimers(t)) = 1
                  ELSE FreshOf(t, "tick") = {}
    BY <2>1, SingleCounted DEF TimerRuns
  <2>6. t.open /\ t.detailLoading => \E x \in t.flight : Fresh("detail", x) /\ x.key = t.current
    BY <2>1 DEF DetailAwaited, FreshOf
  <2>7. OwnTimers(t) = {x \in t.flight : Fresh("tick", x) /\ ~x.first}
    BY DEF OwnTimers, FreshOf
  <2>8. FreshOf(t, "tick") = {} => \A x \in t.flight : ~Fresh("tick", x)
    BY DEF FreshOf
  <2>9. LoadsAwaited
    BY <2>3, <2>4, <2>5, <2>6, <2>7, <2>8 DEF LoadsAwaited
  <2>10. DetailSinceReload
    BY <2>1 DEF DetailSinceReload, DetailCurrent, KeptDetails
  <2> QED
    BY <2>2, <2>9, <2>10 DEF LoadsInOrder
<1> QED
  BY <1>1, TuiInvariant, PTL

\* What arrives never moves the user to another page: whichever messages
\* come, however late, each page of the stack keeps its place, and the one
\* on top shows rows of its own query.
THEOREM AnswersStay == Spec => AnswersStayOnTheirPage
<1>1. ASSUME TuiInv, NEW x \in t.flight, Deliver(x)
      PROVE  Place(t') = Place(t) /\ Front(t'.stack) = Front(t.stack)
  <2>1. IsSeq(t.stack) /\ t.stack # <<>>
    BY <1>1 DEF TuiInv, ModelSound, Typed
  <2>2. \/ t'.stack = t.stack
        \/ \E page : /\ t'.stack = Append(Front(t.stack), page)
                     /\ At(page) = At(currentPage(t))
    BY <1>1, TickTaken, PageTaken, DetailTaken, MatchesTaken DEF Deliver, Arrives
  <2>3. CASE t'.stack = t.stack
    BY <2>3 DEF Place
  <2>4. ASSUME NEW page, t'.stack = Append(Front(t.stack), page), At(page) = At(currentPage(t))
        PROVE  Place(t') = Place(t) /\ Front(t'.stack) = Front(t.stack)
    <3> DEFINE front == Front(t.stack)
               stack == Append(front, page)
               n == Len(t.stack)
    <3>1. n \in Nat \ {0} /\ DOMAIN t.stack = 1..n
      BY <2>1, SeqRange
    <3>2. IsSeq(front) /\ Len(front) = n - 1 /\ \A i \in 1..n - 1 : front[i] = t.stack[i]
      BY <2>1, SeqFront
    <3> HIDE DEF front, n
    <3>3. /\ IsSeq(stack) /\ Len(stack) = n /\ Front(stack) = front /\ stack[n] = page
          /\ \A i \in 1..n - 1 : stack[i] = front[i]
      <4>1. /\ IsSeq(stack) /\ Len(stack) = Len(front) + 1 /\ Front(stack) = front
            /\ stack[Len(front) + 1] = page
            /\ \A i \in 1..Len(front) : stack[i] = front[i]
        BY <3>2, SeqAppend
      <4> HIDE DEF stack
      <4> QED
        BY <3>1, <3>2, <4>1
    <3> HIDE DEF stack
    <3>4. DOMAIN stack = 1..n
      BY <3>1, <3>3, SeqRange
    <3>5. currentPage(t) = t.stack[n]
      BY DEF currentPage, Last, n
    <3>6. \A i \in 1..n : At(stack[i]) = At(t.stack[i])
      <4>1. \A i \in 1..n : i \in 1..n - 1 \/ i = n
        BY <3>1
      <4> QED
        BY <2>4, <3>2, <3>3, <3>5, <4>1
    <3>7. /\ Place(t) = [i \in 1..n |-> At(t.stack[i])]
          /\ Place(t') = [i \in 1..n |-> At(stack[i])]
      BY <2>4, <3>1, <3>4 DEF Place, At, stack, front
    <3> QED
      BY <2>4, <3>3, <3>6, <3>7 DEF stack, front
  <2> QED
    BY <2>2, <2>3, <2>4
<1>2. TuiInv => [\A x \in t.flight : Deliver(x) =>
                   /\ Place(t') = Place(t)
                   /\ Front(t'.stack) = Front(t.stack)]_vars
  BY <1>1
<1> QED
  BY <1>2, TuiInvariant, PTL DEF AnswersStayOnTheirPage

\* A prompt goes to the agent it was begun for, whatever refreshes and other
\* answers did to the list while it was typed.
THEOREM PromptGoesThere == Spec => PromptGoesWhereShown
<1>1. ASSUME TuiInv, submitTriggerPrompt
      PROVE  t.target = [namespace |-> Head(store'.messages).namespace,
                         agent |-> Head(store'.messages).recipient]
  <2>1. IsStore(store) /\ IsTarget(t.target)
    BY <1>1 DEF TuiInv, ModelSound, Typed, submitTriggerPrompt
  <2>2. store' = EnqueueMessage(store, t.target.namespace, t.target.agent)
    BY <1>1 DEF submitTriggerPrompt, SubmitTarget
  <2>3. /\ Head(store'.messages).namespace = t.target.namespace
        /\ Head(store'.messages).recipient = t.target.agent
    BY <2>1, <2>2, Enqueued
  <2> QED
    BY <2>1, <2>3 DEF IsTarget
<1>2. TuiInv => (submitTriggerPrompt =>
                   LET sent == Head(store'.messages)
                   IN t.target = [namespace |-> sent.namespace, agent |-> sent.recipient])
  BY <1>1
<1> QED
  BY <1>2, TuiInvariant, PTL DEF PromptGoesWhereShown

-----------------------------------------------------------------------------
(* The selection.                                                          *)

\* Without a filter every row matches.
LEMMA AllMatch ==
  ASSUME NEW items, IsSeq(items), NEW i \in ToSet(Matching(items, <<>>))
  PROVE  i \in ToSet(items)
<1> DEFINE N == Len(items)
           P == {n \in DOMAIN items : ToSet(<<>>) \subseteq {items[n].agent}}
           PlaceOf(k) == CHOOSE n \in P : Cardinality({p \in P : p < n}) = k - 1
<1>1. N \in Nat /\ DOMAIN items = 1..N /\ \A k \in 1..N : items[k] \in ToSet(items)
  BY SeqRange
<1>2. P = 1..N
  <2>1. ToSet(<<>>) = {}
    BY DEF ToSet
  <2> QED
    BY <1>1, <2>1
<1>3. Matching(items, <<>>) = [k \in 1..Cardinality(P) |-> items[PlaceOf(k)]]
  BY DEF Matching, Those, Ordered
<1> HIDE DEF P, N
<1>4. Cardinality(P) = N
  BY <1>1, <1>2, FS_Interval
<1>5. ASSUME NEW k \in 1..N PROVE PlaceOf(k) \in 1..N
  <2>1. {p \in P : p < k} = 1..k - 1
    BY <1>1, <1>2
  <2>2. Cardinality(1..k - 1) = k - 1
    BY <1>1, FS_Interval
  <2>3. \E n \in P : Cardinality({p \in P : p < n}) = k - 1
    BY <1>2, <2>1, <2>2
  <2> QED
    BY <1>2, <2>3
<1> HIDE DEF PlaceOf
<1>6. PICK k \in 1..N : i = items[PlaceOf(k)]
  BY <1>3, <1>4 DEF ToSet
<1> QED
  BY <1>1, <1>5, <1>6

LEMMA KeySelected ==
  ASSUME NEW l, IsList(l), NEW page, NEW key,
         NEW i \in ToSet(VisibleItems(l)), itemKey(i) = key,
         NEW m, m.list = selectVisibleItem(l, page, key)
  PROVE  Selection(m) = {key}
<1> DEFINE rows == VisibleItems(l)
           same == {n \in DOMAIN rows : itemKey(rows[n]) = key}
           n == CHOOSE n \in same : \A o \in same : n <= o
<1>1. IsSeq(rows)
  BY DEF IsList, VisibleItems
<1>2. Len(rows) \in Nat /\ DOMAIN rows = 1..Len(rows)
  BY <1>1, SeqRange
<1>3. same # {}
  BY DEF ToSet
<1>4. n \in 1..Len(rows) /\ itemKey(rows[n]) = key
  <2>1. same \subseteq Nat
    BY <1>2
  <2>2. \E j \in same : \A o \in same : j <= o
    BY <1>3, <2>1, Least
  <2>3. n \in same
    BY <2>2
  <2> QED
    BY <1>2, <2>3
<1>5. visibleIndex(l, page, key) = n - 1
  BY <1>3 DEF visibleIndex
<1> HIDE DEF n, same
<1>6. m.list = [l EXCEPT !.index = n - 1]
  BY <1>5 DEF selectVisibleItem
<1>7. m.list.index = n - 1 /\ VisibleItems(m.list) = rows
  BY <1>6 DEF IsList, VisibleItems
<1> HIDE DEF rows
<1>8. n - 1 < Len(rows) /\ n - 1 + 1 = n
  BY <1>2, <1>4
<1>9. selectedItem(m) = {rows[n]}
  BY <1>7, <1>8 DEF selectedItem
<1> QED
  BY <1>4, <1>9 DEF Selection

\* A row that the filter shows keeps being selected when its page is applied.
LEMMA KeyApplied ==
  ASSUME NEW m, IsList(m.list), NEW page, IsPage(page), NEW key,
         NEW i \in ToSet(Matching(page.items, m.list.filter)), itemKey(i) = key,
         NEW n, n.list = AppliedList(m, page, TRUE, key)
  PROVE  Selection(n) = {key}
<1> DEFINE items == SetItems(m.list, page.items)
<1>1. IsList(items) /\ items.items = page.items /\ items.filter = m.list.filter
  BY ItemsSet DEF IsPage
<1>2. CASE m.list.filter # <<>>
  <2> DEFINE list == SetFilterText(items, m.list.filter)
  <2>1. n.list = selectVisibleItem(list, page, key)
    BY <1>2 DEF AppliedList
  <2> HIDE DEF items
  <2>2. IsList(list) /\ list.state = "applied" /\ list.found = Matching(page.items, m.list.filter)
    BY <1>1, FilterSet
  <2>3. i \in ToSet(VisibleItems(list))
    BY <2>2 DEF VisibleItems
  <2> HIDE DEF list
  <2> QED
    BY <2>1, <2>2, <2>3, KeySelected
<1>3. CASE m.list.filter = <<>>
  <2> DEFINE list == ResetFilter(items)
  <2>1. n.list = selectVisibleItem(list, page, key)
    BY <1>3 DEF AppliedList
  <2> HIDE DEF items
  <2>2. IsList(list)
    BY <1>1, FilterReset
  <2>3. list.state = "unfiltered" /\ list.items = page.items
    BY <1>1 DEF ResetFilter, IsList
  <2>4. i \in ToSet(page.items)
    BY <1>3, AllMatch DEF IsPage
  <2>5. i \in ToSet(VisibleItems(list))
    BY <2>3, <2>4 DEF VisibleItems
  <2> HIDE DEF list
  <2> QED
    BY <2>1, <2>2, <2>5, KeySelected
<1> QED
  BY <1>2, <1>3

\* A refresh that arrives leaves the row selected that was, if it is still
\* among the rows the filter shows, wherever it is now and whatever was
\* pressed and answered since the refresh was asked for.
THEOREM RefreshKeepsSelection == Spec => SelectionKept
<1>1. ASSUME TuiInv, NEW x \in t.flight, Fresh("page", x), ~x.failed, Deliver(x),
             NEW key \in Selection(t),
             NEW i \in ToSet(Matching(x.page.items, t.list.filter)), itemKey(i) = key
      PROVE  Selection(t') = {key}
  <2> DEFINE u == AtAnswer(x)
  <2>1. t' = Reloaded(u, x.page)
    BY <1>1 DEF Deliver, Arrives, Fresh, handlePageLoaded, AtAnswer
  <2>2. /\ ModelSound(u) /\ u.open /\ u.pageLoading = FALSE /\ FreshOf(u, "page") = {}
        /\ Differ(t, u, {"flight", "pageLoading"})
        /\ IsPage(x.page) /\ At(x.page) = At(currentPage(t))
    BY <1>1, PageAnswered
  <2> HIDE DEF u
  <2>3. u.list = t.list /\ u.stack = t.stack
    BY <2>2 DEF Differ, ModelFields
  <2>4. /\ Typed(u) /\ TimerRuns(u) /\ IsList(u.list) /\ At(x.page) = At(currentPage(u))
    BY <2>2, <2>3 DEF ModelSound, Typed, currentPage
  <2>5. PICK page :
          /\ IsPage(page) /\ At(page) = At(x.page) /\ page.items = x.page.items
          /\ t'.stack = Append(Front(u.stack), page)
          /\ t'.list = AppliedList(u, page, TRUE, currentSelectionKey(u))
          /\ ModelSound(t') /\ t'.open
    <3> DEFINE n == Reloaded(u, x.page)
    <3>1. n = t'
      BY <2>1
    <3>2. \E page :
            /\ IsPage(page) /\ At(page) = At(x.page) /\ page.items = x.page.items
            /\ n.stack = Append(Front(u.stack), page)
            /\ n.list = AppliedList(u, page, TRUE, currentSelectionKey(u))
            /\ ModelSound(n) /\ n.open
      BY <2>2, <2>4, ReloadApplied
    <3> HIDE DEF n
    <3> QED
      BY <3>1, <3>2
  <2>6. currentSelectionKey(u) = key
    <3>1. selectedItem(u) = selectedItem(t)
      BY <2>3 DEF selectedItem
    <3>2. PICK row : selectedItem(t) = {row} /\ itemKey(row) = key
      BY DEF selectedItem, Selection
    <3>3. (CHOOSE r \in {row} : TRUE) = row
      OBVIOUS
    <3> QED
      BY <3>1, <3>2, <3>3 DEF currentSelectionKey
  <2>7. i \in ToSet(Matching(page.items, u.list.filter)) /\ itemKey(i) = currentSelectionKey(u)
    BY <1>1, <2>3, <2>5, <2>6
  <2>8. Selection(t') = {currentSelectionKey(u)}
    BY <2>4, <2>5, <2>7, KeyApplied
  <2> QED
    BY <2>6, <2>8
<1>2. TuiInv => [\A x \in t.flight :
                   Fresh("page", x) /\ x.ran /\ ~x.failed /\ Deliver(x) =>
                     \A key \in Selection(t) :
                       (\E i \in ToSet(Matching(x.page.items, t.list.filter)) : itemKey(i) = key)
                         => Selection(t') = {key}]_vars
  BY <1>1
<1> QED
  BY <1>2, TuiInvariant, PTL DEF SelectionKept
=============================================================================
