------------------------------ MODULE Session ------------------------------
(***************************************************************************)
(* A session of pkg/agent with the OpenAI driver: what the model is shown. *)
(* The session keeps its turns, the provider's own record of each call     *)
(* (StepReplayData) and the provider state of the latest decision.  Each   *)
(* request either continues a response the provider has stored, and sends  *)
(* what is new, or replays the whole conversation.  A server worker        *)
(* handles each trigger as the first turn of such a conversation.          *)
(*                                                                         *)
(* Protocol reminders, execution-state footers and reasoning items go with *)
(* every request or with their call and are left out; so are the repeated  *)
(* requests of nextDecision, which are equal.                              *)
(***************************************************************************)
EXTENDS Integers, SequencesExt

CONSTANTS
  MaxTurns,  \* bound: turns of the session
  MaxSteps,  \* Config.MaxSteps
  Style      \* responses the provider gives: [stored, labelled : BOOLEAN]

ASSUME SessionAssumption ==
  /\ {MaxTurns, MaxSteps} \subseteq Nat
  /\ Style \subseteq [stored : BOOLEAN, labelled : BOOLEAN]
  /\ \A x \in Style : x.stored => x.labelled

VARIABLES
  turns,    \* s.turns: steps and reply of the turns so far
  replay,   \* s.stepReplayData: the response that is kept for a step's index
  state,    \* s.providerState: the response it was made from
  next,     \* s.nextStepIndex
  turn,     \* the turn under way
  answers,  \* the provider: its responses, with what they were shown
  shown,    \* what the provider shows its model for the latest request
  said      \* what has happened in the session, in order

vars == <<turns, replay, state, next, turn, answers, shown, said>>

MaxIndex == MaxTurns * MaxSteps
MaxAnswers == MaxTurns * (MaxSteps + 1)

NoTurn == [phase |-> "idle", steps |-> <<>>, call |-> 0,
           replay |-> [s \in 1..MaxIndex |-> 0], state |-> 0]

-----------------------------------------------------------------------------
(* Items of a conversation.  Calls and outputs are matched by an id: the   *)
(* number of the response that labelled the call, or minus the index of    *)
(* the step when the driver makes the id up (StepCallID).                  *)

Item(kind, of, id) == [kind |-> kind, of |-> of, id |-> id]

User(t) == Item("user", t, 0)
Reply(r) == Item("reply", r, 0)

\* The output of response r as input items.
OutputItems(r) ==
  <<Item(answers[r].kind, r, IF answers[r].kind = "call" THEN r ELSE 0)>>

HasLabel(r) == r # 0 /\ answers[r].kind = "call" /\ answers[r].labelled

\* The call of a step and its output, as the provider made the call if there
\* is replay data for it.
StepItems(step, data) ==
  LET r == data[step.index]
  IN IF HasLabel(r)
       THEN Append(OutputItems(r), Item("output", step.index, r))
       ELSE <<Item("call", step.call, -step.index),
              Item("output", step.index, -step.index)>>

StepsItems(steps, data) ==
  FlattenSeq([i \in DOMAIN steps |-> StepItems(steps[i], data)])

-----------------------------------------------------------------------------
(* Requests.                                                               *)

Request == Len(turn.steps) + 1
CurrentUser == User(Len(turns) + 1)

\* A turn of the past; its reply is rendered, except that the latest one is
\* given as the provider made it when a turn begins.
TurnItems(t) ==
  LET reply == turns[t].reply
      latest == Request = 1 /\ t = Len(turns) /\ turn.state # 0
  IN <<User(t)>> \o StepsItems(turns[t].steps, turn.replay)
       \o IF reply = 0 THEN <<>>
          ELSE IF latest THEN OutputItems(turn.state) ELSE <<Reply(reply)>>

\* buildResponsesReplayInput: the whole conversation.
ReplayInput ==
  FlattenSeq([t \in DOMAIN turns |-> TurnItems(t)])
    \o <<CurrentUser>> \o StepsItems(turn.steps, turn.replay)

\* A slip: a stored response is continued whatever it waits for.
NeverAwaiting == FALSE

\* The carried response is a call.
AwaitingToolOutput == HasLabel(turn.state)

\* There is an output to continue with: of the latest step of this turn.
HasContinuation ==
  turn.steps # <<>> /\ HasLabel(turn.replay[Last(turn.steps).index])

ContinuationOutput ==
  LET s == Last(turn.steps).index IN Item("output", s, turn.replay[s])

UsePreviousResponse ==
  /\ turn.state # 0
  /\ answers[turn.state].stored
  /\ HasContinuation \/ (Request = 1 /\ ~AwaitingToolOutput)

\* buildResponsesContinuationInput.
ContinuationInput == <<IF Request = 1 THEN CurrentUser ELSE ContinuationOutput>>

\* The provider puts what it has stored before the input.
View ==
  IF UsePreviousResponse
    THEN answers[turn.state].shown \o OutputItems(turn.state) \o ContinuationInput
    ELSE ReplayInput

-----------------------------------------------------------------------------
(* RunTrigger and runTurn.                                                 *)

Prompt ==
  /\ turn.phase = "idle"
  /\ Len(turns) < MaxTurns
  /\ turn' = [NoTurn EXCEPT !.phase = "ready", !.replay = replay, !.state = state]
  /\ said' = Append(said, <<"user", Len(turns) + 1>>)
  /\ UNCHANGED <<turns, replay, state, next, answers, shown>>

\* The end of RunTrigger, whatever the outcome of turn t: it is kept with its
\* steps, and with a reply if it has finished.
EndTurn(t, reply) ==
  /\ turns' = Append(turns, [steps |-> t.steps, reply |-> reply])
  /\ next' = next + Len(t.steps)
  /\ replay' = t.replay
  /\ state' = t.state
  /\ turn' = NoTurn

\* The context ends before a request, or the turn cannot begin.
Interrupt ==
  /\ turn.phase = "ready"
  /\ EndTurn(turn, 0)
  /\ UNCHANGED <<answers, shown, said>>

\* ResultStatusMaxSteps.
GiveUp ==
  /\ turn.phase = "ready"
  /\ Len(turn.steps) = MaxSteps
  /\ EndTurn(turn, 0)
  /\ UNCHANGED <<answers, shown, said>>

\* The driver is asked for the next decision.
Ask ==
  /\ turn.phase = "ready"
  /\ Len(turn.steps) < MaxSteps
  /\ shown' = View
  /\ turn' = [turn EXCEPT !.phase = "asked"]
  /\ UNCHANGED <<turns, replay, state, next, answers, said>>

\* No decision comes of it: the provider fails or refuses, the response is
\* not a valid decision, or the context ends.
DriverFails ==
  /\ turn.phase = "asked"
  /\ EndTurn(turn, 0)
  /\ UNCHANGED <<answers, shown, said>>

Answer(kind, style) ==
  Append(answers, [kind |-> kind, stored |-> style.stored,
                   labelled |-> style.labelled, shown |-> shown])

\* The decision calls a tool.
AnswerCall(style) ==
  LET r == Len(answers) + 1 IN
  /\ turn.phase = "asked"
  /\ answers' = Answer("call", style)
  /\ turn' = [turn EXCEPT !.phase = "running", !.call = r, !.state = r]
  /\ said' = Append(said, <<"call", r>>)
  /\ UNCHANGED <<turns, replay, state, next, shown>>

\* The decision ends the turn.
AnswerReply(style) ==
  LET r == Len(answers) + 1 IN
  /\ turn.phase = "asked"
  /\ answers' = Answer("reply", style)
  /\ EndTurn([turn EXCEPT !.state = r], r)
  /\ said' = Append(said, <<"reply", r>>)
  /\ UNCHANGED shown

\* A slip: indices start again with every turn.
IndexOfTurn == 1 + Len(turn.steps)

NextIndex == next + Len(turn.steps)

\* The tool runs and its step is kept with the replay data, also when it has
\* failed; a step that is fatal, canceled or not recorded ends the turn.
RunStep(ends) ==
  LET s == NextIndex
      after == [turn EXCEPT !.phase = "ready", !.call = 0,
                  !.steps = Append(@, [index |-> s, call |-> turn.call]),
                  !.replay[s] = turn.call]
  IN /\ turn.phase = "running"
     /\ said' = Append(said, <<"output", s>>)
     /\ \/ /\ ends
           /\ EndTurn(after, 0)
        \/ /\ ~ends
           /\ turn' = after
           /\ UNCHANGED <<turns, replay, state, next>>
     /\ UNCHANGED <<answers, shown>>

-----------------------------------------------------------------------------

Init ==
  /\ turns = <<>>
  /\ replay = [s \in 1..MaxIndex |-> 0]
  /\ state = 0
  /\ next = 1
  /\ turn = NoTurn
  /\ answers = <<>>
  /\ shown = <<>>
  /\ said = <<>>

Next ==
  \/ Prompt \/ Interrupt \/ GiveUp \/ Ask \/ DriverFails
  \/ \E style \in Style : AnswerCall(style) \/ AnswerReply(style)
  \/ \E ends \in BOOLEAN : RunStep(ends)

Spec == Init /\ [][Next]_vars

-----------------------------------------------------------------------------
(* Properties.                                                             *)

Steps == [index : 1..MaxIndex, call : 1..MaxAnswers]

\* Types of the session, the turn under way and the provider.
TypeOK ==
  /\ Len(turns) <= MaxTurns
  /\ \A t \in DOMAIN turns :
       /\ ToSet(turns[t].steps) \subseteq Steps
       /\ turns[t].reply \in 0..MaxAnswers
  /\ replay \in [1..MaxIndex -> 0..MaxAnswers]
  /\ state \in 0..Len(answers)
  /\ next \in 1..(MaxIndex + 1)
  /\ turn.phase \in {"idle", "ready", "asked", "running"}
  /\ ToSet(turn.steps) \subseteq Steps /\ Len(turn.steps) <= MaxSteps
  /\ turn.replay \in [1..MaxIndex -> 0..MaxAnswers]
  /\ turn.state \in 0..Len(answers)
  /\ turn.call # 0 <=> turn.phase = "running"
  /\ Len(answers) <= MaxAnswers

Asked == turn.phase = "asked"

\* What the API requires of a conversation, whether it is continued or
\* replayed: each call is followed by its output, each output follows its
\* call, and no id is used for two calls.
CallsAnswered ==
  /\ TypeOK
  /\ Asked =>
      \A i \in DOMAIN shown :
        /\ shown[i].kind = "call" =>
             /\ i < Len(shown)
             /\ shown[i + 1].kind = "output" /\ shown[i + 1].id = shown[i].id
             /\ \A j \in DOMAIN shown :
                  shown[j].kind = "call" /\ shown[j].id = shown[i].id => i = j
        /\ shown[i].kind = "output" => i > 1 /\ shown[i - 1].kind = "call"

\* A turn of which nothing came.
Fruitless(t) == turns[t].steps = <<>> /\ turns[t].reply = 0

\* What an item tells of the session, and when that was.
Seen(x) == <<x.kind, x.of>>
When(x) == CHOOSE n \in DOMAIN said : said[n] = Seen(x)

Omitted(e) == \E t \in DOMAIN turns : Fruitless(t) /\ e = <<"user", t>>

\* The model is shown the session as it happened, each item once and in its
\* place, across all switches between continuing and replaying; missing may be
\* only the prompts of turns of which nothing came.
HistoryShown ==
  Asked =>
    /\ \A i \in DOMAIN shown : Seen(shown[i]) \in ToSet(said)
    /\ \A i, j \in DOMAIN shown : i < j => When(shown[i]) < When(shown[j])
    /\ \A e \in ToSet(said) : e \in {Seen(shown[i]) : i \in DOMAIN shown} \/ Omitted(e)

-----------------------------------------------------------------------------
(* The inductive invariant behind the two properties.                      *)

Idle == turn.phase = "idle"
Running == turn.phase = "running"

\* The steps that are kept, in turns of the past and in the one under way,
\* the replay data and the provider state that go with them.
Done == ToSet(turn.steps) \cup UNION {ToSet(turns[t].steps) : t \in DOMAIN turns}
Data == IF Idle THEN replay ELSE turn.replay
Latest == IF Idle THEN state ELSE turn.state

Kinds == {"user", "call", "output", "reply"}
Entry == Kinds \X Nat
KeptTurn == [steps : Seq(Steps), reply : 0..MaxAnswers]
Shape == [kind : Kinds, of : Nat, id : Int]

AnswerShape == [kind : {"call", "reply"}, stored : BOOLEAN, labelled : BOOLEAN, shown : Seq(Shape)]
TurnShape ==
  [phase : {"idle", "ready", "asked", "running"}, steps : Seq(Steps), call : 0..MaxAnswers,
   replay : [1..MaxIndex -> 0..MaxAnswers], state : 0..MaxAnswers]

Shaped ==
  /\ turns \in Seq(KeptTurn)
  /\ replay \in [1..MaxIndex -> 0..MaxAnswers] /\ state \in 0..MaxAnswers
  /\ next \in Nat \ {0}
  /\ turn \in TurnShape /\ (Idle => turn = NoTurn)
  /\ answers \in Seq(AnswerShape)
  /\ said \in Seq(Entry)

\* The bounds leave room for the step and the responses that are under way.
Counted ==
  /\ Len(turns) + (IF Idle THEN 0 ELSE 1) <= MaxTurns
  /\ next <= Len(turns) * MaxSteps + 1
  /\ Len(turn.steps) + (IF turn.phase \in {"asked", "running"} THEN 1 ELSE 0) <= MaxSteps
  /\ Len(answers) <= Len(turns) * (MaxSteps + 1) + Len(turn.steps) + (IF Running THEN 1 ELSE 0)

\* Each step kept has an index and a call of its own, and the call's replay
\* data.
StepsKept ==
  /\ \A s \in Done : /\ s.index < NextIndex /\ Data[s.index] = s.call
                     /\ s.call <= Len(answers) /\ answers[s.call].kind = "call"
                     /\ s.call # turn.call
  /\ \A s, z \in Done : s.call = z.call \/ s.index = z.index => s = z

\* The latest response is the one whose state is carried.
StateIsLatest ==
  /\ Latest = Len(answers)
  /\ turn.call # 0 => turn.call = Len(answers) /\ answers[turn.call].kind = "call"
  /\ turn.call # 0 <=> Running
  /\ turn.steps # <<>> /\ ~Running => Last(turn.steps).call = Len(answers)
  /\ \A t \in DOMAIN turns : turns[t].reply # 0 =>
       turns[t].reply <= Len(answers) /\ answers[turns[t].reply].kind = "reply"
  /\ turns # <<>> /\ turn.steps = <<>> /\ ~Running /\ Last(turns).reply # 0 =>
       Last(turns).reply = Len(answers)

\* Nothing happens twice.
SaidOnce ==
  /\ \A n, o \in DOMAIN said : said[n] = said[o] => n = o
  /\ \A n \in DOMAIN said :
       /\ said[n][1] = "user" => said[n][2] <= Len(turns) + (IF Idle THEN 0 ELSE 1)
       /\ said[n][1] \in {"call", "reply"} => said[n][2] \in 1..Len(answers)

\* A call is followed by its output.
SaidPaired ==
  \A n \in DOMAIN said :
    /\ said[n][1] = "call" =>
         \/ n = Len(said) /\ said[n][2] = turn.call
         \/ n < Len(said) /\ \E s \in Done : said[n] = <<"call", s.call>> /\ said[n + 1] = <<"output", s.index>>
    /\ said[n][1] = "output" =>
         n > 1 /\ \E s \in Done : said[n - 1] = <<"call", s.call>> /\ said[n] = <<"output", s.index>>

\* The turn under way begins with its prompt and ends with its latest step.
SaidLast ==
  /\ ~Idle /\ turn.steps = <<>> /\ ~Running => said # <<>> /\ Last(said) = <<"user", Len(turns) + 1>>
  /\ turn.steps # <<>> /\ ~Running => said # <<>> /\ Last(said) = <<"output", Last(turn.steps).index>>
  /\ Running => said # <<>> /\ Last(said) = <<"call", turn.call>>

\* What has happened is what the session keeps.
StepSaid(s) == <<<<"call", s.call>>, <<"output", s.index>>>>
StepsSaid(steps) == FlattenSeq([i \in DOMAIN steps |-> StepSaid(steps[i])])
ReplySaid(r) == IF r = 0 THEN <<>> ELSE <<<<"reply", r>>>>
TurnSaid(t, kept) == <<<<"user", t>>>> \o StepsSaid(kept.steps) \o ReplySaid(kept.reply)
PastSaid(past) == FlattenSeq([t \in DOMAIN past |-> TurnSaid(t, past[t])])
PresentSaid(t, now) ==
  IF now.phase = "idle" THEN <<>>
  ELSE <<<<"user", t>>>> \o StepsSaid(now.steps)
         \o IF now.phase = "running" THEN <<<<"call", now.call>>>> ELSE <<>>

SaidKept == said = PastSaid(turns) \o PresentSaid(Len(turns) + 1, turn)

\* Since the latest response: its output, and prompts of which nothing came.
Since ==
  \A r, m \in DOMAIN said :
    r < m /\ answers # <<>> /\ said[r] = <<Last(answers).kind, Len(answers)>> =>
      \/ Omitted(said[m])
      \/ ~Idle /\ turn.steps = <<>> /\ said[m] = <<"user", Len(turns) + 1>>
      \/ Last(answers).kind = "call" /\ m = r + 1

\* The id of a step's call and of its output.
StepId(s) == IF answers[s.call].labelled THEN s.call ELSE -s.index

Named(x) ==
  /\ x.kind = "call" => \E s \in Done : x.of = s.call /\ x.id = StepId(s)
  /\ x.kind = "output" => \E s \in Done : x.of = s.index /\ x.id = StepId(s)

\* v shows what happened before place n.
Shows(v, n) ==
  /\ v \in Seq(Shape)
  /\ \A i \in DOMAIN v : Named(v[i]) /\ \E m \in DOMAIN said : m < n /\ said[m] = Seen(v[i])
  /\ \A i, j \in DOMAIN v : i < j => When(v[i]) < When(v[j])
  /\ \A m \in DOMAIN said : m < n => Omitted(said[m]) \/ \E i \in DOMAIN v : Seen(v[i]) = said[m]

\* What the provider has stored shows what happened before the response.
AnswersShow ==
  \A r \in DOMAIN answers :
    /\ answers[r].stored => answers[r].labelled
    /\ \E n \in DOMAIN said : said[n] = <<answers[r].kind, r>> /\ Shows(answers[r].shown, n)

SessionInv ==
  /\ Shaped /\ Counted /\ StepsKept /\ StateIsLatest
  /\ SaidOnce /\ SaidPaired /\ SaidLast /\ SaidKept /\ Since /\ AnswersShow
  /\ (Asked => Shows(shown, Len(said) + 1))
=============================================================================
