------------------------------ MODULE AgentTurn ------------------------------
(***************************************************************************)
(* A turn of an agent: the driver decides, a step runs a program in the    *)
(* agent's shell, and so on until the turn ends (pkg/agent: agent.go       *)
(* runTurn, tool_runtime.go runShellTool).  One runner serves every step;  *)
(* between turns it is reset unless the agent preserves its state.         *)
(*                                                                         *)
(* The provider behind the driver is external: it may answer with any      *)
(* program of the theme, fail, or not answer in time.  A context that ends *)
(* while a program runs is the step's own, which timed out, or the turn's. *)
(*                                                                         *)
(* The parser, the check and the interpreter are parameters only for the   *)
(* sake of TLC, which counts the expressions of an action along every path *)
(* of calls: of these the interpreter has more than it can list.           *)
(***************************************************************************)
EXTENDS ShellRunner

CONSTANTS
  Theme,              \* sets of steps: [program, a sequence of lexemes, workdir]
  Fuels,              \* how many checks pass before a step's context ends
  Enough,             \* a fuel that no program of a theme uses up
  Home,               \* the file system the agent starts with
  MaxSteps,           \* runtime.max_steps
  maxDriverRetries,   \* how often a request that timed out is sent again
  MaxTurns,           \* bound: turns
  MaxRuns,            \* bound: steps that run a program, in all turns
  Reading(_),         \* Parse of ShellParser
  Accepts(_),         \* ValidateProgram of ShellValidate
  Interpret(_, _)     \* RunFile of ShellRunner

ASSUME ParametersAssumption ==
  \A step \in UNION Theme :
    LET file == Parse(step.program) IN
    Reading(step.program) = file /\ Accepts(file) = ValidateProgram(file)

VARIABLES
  theme,      \* the steps this agent's driver decides on
  preserve,   \* runtime.preserve_state
  sh,         \* the runner between steps
  didReset,   \* whether the runner has been reset since it was made
  turn        \* how the n-th turn goes: [status, requests, retries, n, runs]

vars == <<theme, preserve, sh, didReset, turn>>
-----------------------------------------------------------------------------
Idle == [status |-> "finished", requests |-> 0, retries |-> 0, n |-> 0, runs |-> 0]

ResultStatus == {"finished", "max_steps", "driver_error", "fatal_error", "canceled"}

Buffer == [kind |-> "buffer", data |-> <<>>, handle |-> NoHandle]

\* A runner as it is made, before its first reset.
NewRunner ==
  ResetRunner(
    [fs |-> Home, arrays |-> << <<>> >>, sinks |-> <<Buffer, Buffer>>, inputs |-> <<>>,
     fuel |-> Enough, dead |-> FALSE, broken |-> FALSE, scopes |-> <<>>, dir |-> Root,
     params |-> [array |-> 1, from |-> 0], funcs |-> <<>>, opts |-> {}, ecfg |-> {},
     ifs |-> <<>>,
     exit |-> Success, lastExit |-> Success, lastExpandExit |-> Success,
     inLoop |-> FALSE, inFunc |-> FALSE, noErrExit |-> FALSE, breakEnclosing |-> 0,
     contnEnclosing |-> 0, stdin |-> 0, stdout |-> 1, stderr |-> 2, bodies |-> <<>>,
     val |-> 0, err |-> ""],
    Root, BaseEnv(SpelledPath(Root)))

\* The first reset takes the directory the runner is in for its own.
ResetTo(r, dir) == ResetRunner(r, dir, BaseEnv(SpelledPath(Root)))

\* What is left of a runner when a step has ended: its outputs are taken.
Settled(r) ==
  [r EXCEPT !.arrays = << <<>>, Params(r) >>, !.params = [array |-> 2, from |-> 0],
            !.sinks = <<Buffer, Buffer>>, !.inputs = <<>>, !.fuel = Enough,
            !.bodies = <<>>, !.val = 0, !.err = "", !.broken = FALSE]

Init ==
  /\ theme \in Theme /\ preserve \in BOOLEAN
  /\ sh = NewRunner /\ didReset = FALSE /\ turn = Idle
-----------------------------------------------------------------------------
HandleTrigger ==
  /\ turn.status # "running" /\ turn.n < MaxTurns /\ ~sh.dead
  /\ turn' = [turn EXCEPT !.status = "running", !.requests = 1, !.retries = 0, !.n = @ + 1]
  /\ sh' = IF preserve THEN sh ELSE ResetTo(sh, Root)
  /\ didReset' = (didReset \/ ~preserve)
  /\ UNCHANGED <<theme, preserve>>

Running == turn.status = "running" /\ ~sh.dead
Ends(status) == turn' = [turn EXCEPT !.status = status] /\ UNCHANGED <<theme, preserve, sh, didReset>>

\* The driver fails, or its decision is not valid.
DriverFails == Running /\ turn.requests <= MaxSteps /\ Ends("driver_error")

DriverTimesOut ==
  /\ Running /\ turn.requests <= MaxSteps
  /\ IF turn.retries >= maxDriverRetries THEN Ends("driver_error")
     ELSE /\ turn' = [turn EXCEPT !.retries = @ + 1]
          /\ UNCHANGED <<theme, preserve, sh, didReset>>

Finish == Running /\ turn.requests <= MaxSteps /\ Ends("finished")
Cancel == Running /\ turn.requests <= MaxSteps /\ Ends("canceled")

\* After the last step nothing is asked for, canceled or not.
ReachMaxSteps == Running /\ turn.requests > MaxSteps /\ Ends("max_steps")
-----------------------------------------------------------------------------
\* A context that ended, or an error the shell went on with; the errors of
\* the shell's handlers are exit statuses to the driver.
ClassifyRunResult(exit) ==
  CASE exit.error = "context" -> "fatal_error"
    [] exit.code # 0          -> "exit_status"
    [] OTHER                  -> "ok"

\* What the parser makes of the programs, and which of them are run at all.
Parsed == [program \in {step.program : step \in UNION Theme} |-> Reading(program)]
Runnable(program) == ~Parsed[program].err /\ Accepts(Parsed[program])

\* The runner that a step runs its program on, and what it is like after it.
Entered(workdir) ==
  LET there == [sh EXCEPT !.dir = workdir] IN
  IF didReset THEN there ELSE ResetTo(there, workdir)

\* The directory a step asks for, seen from where the shell is; none is here.
WorkdirOf(workdir) ==
  IF workdir = <<>> THEN [err |-> "", path |-> sh.dir]
  ELSE FS!ResolvePath(sh.dir, PathOf(workdir))
IsDirectory(path) ==
  LET found == FS!Lookup(sh.fs, PathTo(path), TRUE)
  IN found.err = "" /\ sh.fs[found.ino].kind = "directory"

\* Slip: a step that was run is not counted.
NextRequestUncounted(t) == [t EXCEPT !.retries = 0]

NextRequest(t) == [t EXCEPT !.requests = @ + 1, !.retries = 0]

Refused(step) ==
  LET at == WorkdirOf(step.workdir)
  IN at.err # "" \/ ~IsDirectory(at.path) \/ ~Runnable(step.program)

\* A step that is refused leaves the shell as it was.
RefuseStep ==
  /\ turn' = NextRequest(turn)
  /\ UNCHANGED <<theme, preserve, sh, didReset>>

\* A step that runs: the directory it was run in stays the shell's.
RunShell(step, fuel) ==
  LET at == WorkdirOf(step.workdir)
      ran == Interpret([Entered(at.path) EXCEPT !.fuel = fuel], Parsed[step.program])
      status == ClassifyRunResult(ran.exit)
  IN /\ turn.runs < MaxRuns
     /\ sh' = Settled(ran) /\ didReset' = TRUE
     /\ \/ /\ status = "fatal_error"
           /\ \E ended \in {"fatal_error", "canceled"} :
                turn' = [turn EXCEPT !.status = ended, !.runs = @ + 1]
        \/ /\ status # "fatal_error"
           /\ turn' = [NextRequest(turn) EXCEPT !.runs = @ + 1]
     /\ UNCHANGED <<theme, preserve>>

Step ==
  /\ Running /\ turn.requests <= MaxSteps
  /\ \E step \in theme :
       IF Refused(step) THEN RefuseStep ELSE \E fuel \in Fuels : RunShell(step, fuel)

AgentNext == \/ HandleTrigger \/ DriverFails \/ DriverTimesOut \/ Finish \/ Cancel
        \/ ReachMaxSteps \/ Step

\* A request has a deadline, and so has a step: a turn that runs goes on.
Progress == DriverFails \/ DriverTimesOut \/ Finish \/ ReachMaxSteps \/ Step
Spec == Init /\ [][AgentNext]_vars /\ WF_vars(Progress)
-----------------------------------------------------------------------------
TypeOK ==
  /\ theme \in Theme /\ preserve \in BOOLEAN /\ didReset \in BOOLEAN
  /\ turn \in [status : ResultStatus \cup {"running"}, requests : 0..(MaxSteps + 1),
               retries : 0..maxDriverRetries, n : 0..MaxTurns, runs : 0..MaxRuns]
  /\ Root = SubSeq(sh.dir, 1, Len(Root))

(* A turn comes to an end, whatever the driver answers and however its     *)
(* programs fail (runTurn: at most max_steps requests, each sent again at  *)
(* most maxDriverRetries times).                                           *)
TurnEnds == turn.status = "running" ~> (turn.status # "running" \/ sh.dead)

(* Whatever ended a step, in whatever depth of loops, functions, subshells *)
(* and redirections, the next one starts on the shell's own streams and    *)
(* variables, in no loop and no function (runner.go: stmtSync restores the *)
(* streams, loopStmtsBroken, call and stmts the flags they set).           *)
TidyBetweenSteps ==
  \/ sh.dead
  \/ /\ sh.stdin = 0 /\ sh.stdout = 1 /\ sh.stderr = 2
     /\ Len(sh.scopes) = 2
     /\ ~sh.inLoop /\ ~sh.inFunc /\ ~sh.noErrExit

-----------------------------------------------------------------------------
(* What a program would do to the shell of this state.                     *)
After(program, fuel) ==
  Interpret([Entered(sh.dir) EXCEPT !.fuel = fuel], Reading(program))
Runnables == {program \in {step.program : step \in theme} : Runnable(program)}
Own(r) == [scopes |-> r.scopes, dir |-> r.dir, params |-> Params(r),
           funcs |-> r.funcs, opts |-> r.opts]
Here == Entered(sh.dir)
\* One of the states with this shell: where the next step could start.
AtStep ==
  /\ turn.status = "running" /\ turn.n = 1 /\ turn.retries = 0
  /\ turn.requests = turn.runs + 1
  /\ ~preserve /\ ~sh.dead

InParentheses(program) == <<"(">> \o program \o <<"nl", ")">>
InPipe(program)  == <<"{", " ">> \o program \o <<"nl", "}", "|", "cat">>
InShell(program) == <<"sh", " ", "-", "c", " ">> \o InDoubleQuotes(program)
InFunction(program) ==
  <<"c", "(", ")", "{", " ">> \o program \o <<"nl", "}", "nl", "x", "=", "q", " ", "c">>

(* Nothing that a program does in parentheses, on the left of a pipe or in *)
(* a shell of its own changes the variables, the functions, the            *)
(* parameters, the options or the directory of the shell that runs it      *)
(* (api.go subshell, runner.go, sandbox/command.go runSandboxShell).       *)
SubshellIsolated ==
  AtStep =>
  \A program \in Runnables :
    \A wrapped \in {InParentheses(program), InPipe(program), InShell(program)} :
      LET r == After(wrapped, Enough) IN r.dead \/ Own(r) = Own(Here)

(* An assignment before a call is for the call only: after it the variable *)
(* is what it was, whatever the function that was called did to it and     *)
(* however it ended (runner.go CallExpr).                                  *)
InlineRestored ==
  AtStep =>
  \A program \in Runnables, fuel \in Fuels :
    LET r == After(InFunction(program), fuel)
        was == EnvGet(Here.scopes, "x")
        is  == EnvGet(r.scopes, "x")
    IN r.dead \/ (is.set = was.set /\ is.str = was.str)

(* Under errexit a failure that is looked at ends nothing: after a list     *)
(* with a program on its left the shell goes on, whatever failed in the    *)
(* program and how deep (runner.go stmtSync, noErrExit); only an error     *)
(* that halts the shell does not let it.                                   *)
ErrexitSparesConditions ==
  AtStep =>
  \A program \in Runnables :
    LET r == After(<<"set", " ", "-", "e", "nl", "{", " ">> \o program \o
                   <<"nl", "}", "|", "|", "x", "=", "q", "nl", "i", "=", "q">>, Enough)
    IN r.dead \/ r.exit.fatal \/ EnvGet(r.scopes, "i").str = <<"q">>

(* A program that moves the shell tells it so: wherever it ends, $PWD is   *)
(* the directory (changeDir).  The directory that a step asks for is not   *)
(* told, see runShellTool.                                                 *)
PwdFollows ==
  AtStep =>
  \A program \in Runnables, fuel \in Fuels :
    LET r == After(program, fuel) IN
    r.dir = Here.dir \/ EnvGet(r.scopes, "PWD").str = SpelledPath(r.dir)

(* What a step leaves behind for the next one is in order, and the shell   *)
(* is still inside its root.                                               *)
LeftInOrder == TypeOK /\ TidyBetweenSteps /\ PwdFollows

=============================================================================
