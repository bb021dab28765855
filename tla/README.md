# swarmd in TLA+

swarmd runs language-model agents as a service. Agents are defined in YAML files;
their mailboxes, schedules and run histories live in one SQLite database; a server
process has one goroutine per agent that takes messages from the mailbox and works
on each in *turns*: it asks a model for a decision, runs the shell program the
decision names in a sandbox of its own (parser, interpreter, file system and core
utilities are all part of the repository), and goes on until the model finishes. A
terminal interface shows what is going on.

This directory specifies the parts of swarmd that are hard to get right and hard to
test. Some are hard because of the order in which things happen: what is in the
database after any interleaving of workers, schedulers, syncs and crashes, what is
in the conversation with the model after any sequence of turns, what the terminal
shows after loads that overtake each other. Others are hard because of what their
operations add up to: what a program leaves behind in the agent's shell however it
ended, what links, renames and removals make of a file system, what a command does
to files it did not name. TLC checks every property on small instances; TLAPS proves
the safety properties of the mailbox, the schedules, the runtime manager, the
synchronisation, the session, the terminal interface and the file system in memory
for instances of any size.

Paths below are relative to `src/` of the repository.

## Inventory

| Component | State | Operations | Hard behaviour | Correct if |
| --- | --- | --- | --- | --- |
| Mailbox store (`pkg/server/store/mailbox.go`) | tables `mailbox_messages`, `runs`, `steps` | enqueue, claim, record step, complete | leases expire under living workers; completions name a message by its id alone; outbox in the same transaction | a message has one holder, one result, one outbox; terminal rows are final; every message is settled |
| Mailbox workers (`pkg/server/queue.go`, `persistence.go`, `pkg/agent/agent.go` `Serve`) | the trigger under way, a copy of its attempt count | next, handle step, handle result | cancellation, errors and crashes between any two store calls | the retry budget is kept; late writers change nothing |
| Schedules (`store/schedule.go`, `scheduler.go`) | table `schedules`; a scheduler's batch of copied rows | create, disable, delete, fire | rows change between the read and the firing transaction; several schedulers; missed times | no occurrence is fired twice or lost; every due schedule is fired |
| Runtime manager (`runtime_manager.go`) | registered worker handles, goroutines | `SyncOnce`, start, cancel, reap, stop | workers are canceled without being awaited; rows change during a pass | one worker per agent takes triggers; the workers converge to the rows; stopping ends |
| Spill directories (`pkg/agent/output_spill.go`) | files under an agent's root | sweep, begin run, write, close | successive workers of an agent share one directory | a worker sees its own files, and no others |
| Session and OpenAI driver (`pkg/agent/session.go`, `conversation_turns.go`, `openai/driver.go`) | turns, step numbers, replay data, the provider's last response | prompt, decision, step, end of turn | a request either continues a response stored by the provider or replays the conversation, and switches between the two | the model is shown what happened, each call followed by its output |
| Agent turn (`pkg/agent/agent.go` `runTurn`, `tool_runtime.go`, `validate.go`) | the agent's runner, kept from step to step; counts of requests and retries | request, retry, check a program, run a step, end | steps and requests time out; a step fails in any depth of a program | the next step starts on a tidy shell; the turn ends |
| Shell language (`pkg/sh/syntax`) | the lexer's and printer's pending here-documents and separators | parse, print, quote, tell incomplete input | quoting in quoting; here-documents; input that arrives in pieces | a program and its printed form are one program; a quoted string is read back as itself |
| Shell interpreter (`pkg/sh/interp`, `expand`, `pattern`, `sandbox`) | variables in scopes, functions, parameters, options, directory, streams, flags of loops and functions | statements, expansion, builtins, subshells | each level restores what it changed, whatever ended it: error, exit, break, errexit, time-out | subshells change nothing of their parent; temporary changes are undone |
| In-memory file system (`pkg/sh/memfs`) | nodes, entries, link counts, open files | make, link, open, read, write, rename, remove | symbolic links that dangle, cross or form cycles; hard links; removal of what is open | a path leads where the calls say; link counts agree with the entries; nothing is lost but by removal |
| Core utilities (`pkg/sh/moreinterp/coreutils`), file tools (`pkg/tools/applypatch`, `readfile`, `listdir`, `grepfiles`) | files | 40 commands and 4 tools with their options | one of several steps fails; input and output are one file; links on the way | nothing changes but what is named, no content is lost, listings are complete |
| Terminal interface (`pkg/server/cmd/swarmd/tui*.go`) | stack of pages, list, filter, selection, cached details, loads in flight | keys, refresh ticks, answers of loads | answers overtake each other and the user; rows change under the cursor | the screen shows the records; a command acts on what it was given for |
| Spec synchronisation (`specs.go`, `store/reconcile.go`) | tables `agents`, `schedules`; the files | put namespace, put agent, replace schedules, prune | no transaction spans the calls; restarts; a one-shot run beside a server | the database ends as the files say |
| Environment (`environment.go`) | the runtime manager and the scheduler as goroutines | run | the end of one ends the other | the server stops when it should |
| Schema and migrations (`store/migrations.go`, `Store.Migrate`) | schema version, pragmas | migrate | crash between migrations | the schema is that of one version |
| Anthropic driver, output capture, tools of services, server factories, command line | local to a call, or files | | | not modelled, see below |

How they interact. Specs are synchronised once, before the server starts. From then
on the database is the only thing the server's parts share: the runtime manager polls
`agents`, schedulers poll `schedules` and insert messages, workers poll their
agent's messages and insert runs, steps, results and further messages; the terminal
interface and one-shot runs insert messages. A second server process on the same
database is possible, though `README.md` of the repository advises against it. The
runtime manager and its workers interact through a context (cancel) and a channel
(done), workers of one agent through the directory under its root. The deletion of
an agent cascades to its schedules, messages, runs and steps. Within a worker, a turn
calls the driver with the session and hands programs to the agent's one runner; the
runner calls the expansion, which calls the runner again for command substitutions;
commands and tools reach files only through the file system, by paths that the
sandbox has resolved against the agent's root. The terminal interface reads the
store in goroutines whose answers come back as messages to its one event loop.

`PROJECT.json` lists what of this is hard to test ("hazards", each at its line),
with the properties below that cover it, or the reason why none does.

## Modules

| Module | What it is |
| --- | --- |
| `Mailbox` | the store's message tables and the workers; that it implements `TaskQueue` |
| `TaskQueue` | what the mailbox promises, without leases, runs, workers or time |
| `MailboxProofs`, `MailboxRefinementProofs` | types, and safety in one process; the refinement step by step |
| `Scheduler` | schedules and schedulers; that they implement `Timetable` |
| `Timetable` | what schedules promise, without copies, rivals, stops or batches |
| `SchedulerProofs` | types, safety, and the refinement step by step |
| `RuntimeManager`, `RuntimeProofs` | the manager, its workers, the spill directories; proofs |
| `Session`, `SessionProofs` | a conversation and the requests the OpenAI driver builds for it; proofs |
| `SpecSync`, `SpecSyncProofs` | the synchronisation of specs by several processes; proofs |
| `MemFS` | the in-memory file system as operators on its nodes |
| `FileSystem`, `FileSystemProofs` | programs that call it, with open files; proofs |
| `ShellLexer`, `ShellParser` | from lexemes to a syntax tree |
| `ShellPrinter` | from a syntax tree to lexemes |
| `ShellValidate` | `Quote`, and the agent's check of a program |
| `ShellSyntax` | a program that is typed chunk by chunk |
| `ShellState`, `ShellPattern`, `ShellExpand`, `ShellTest`, `ShellRunner` | the runner's variables and flags; patterns; expansion and arithmetic; `test`; statements, commands and builtins |
| `AgentTurn` | turns of an agent on one runner |
| `CommandArgs`, `FileCommands`, `TextCommands`, `ArchiveCommands` | options and operands; the core utilities |
| `AgentFileTools` | `apply_patch`, `read_file`, `list_dir`, `grep_files` |
| `Commands` | commands and tools called one after another on one file system |
| `TuiPages`, `Tui`, `TuiProofs` | the pages and their rows; the event loop; proofs |
| `MC*` | instances for TLC |

Three compositions carry the most: `AgentTurn` runs `ShellRunner`, which instantiates
the expansion (`ShellTest` down to `ShellPattern`) with its own command substitution
and keeps its files in `MemFS`; `Commands` dispatches to all command modules over one
`MemFS`; `Mailbox` is mapped to `TaskQueue`, and `Scheduler` to `Timetable`.

In each module, operators commented as *a slip* are variants of a definition with a
plausible mistake. The model does not use them; `PROJECT.json` names for every
property the slip that breaks it, so that each property is known to say something.
The last section of a module that is proved about states its inductive invariant.

### Mailbox

A SQLite transaction commits as a whole or not at all, so each of `EnqueueMessage`,
`ClaimNextMessage`, `RecordStep` and `CompleteRun` is one action. `msgs` and `runs`
are the rows, numbered in the order of their insertion, `worker` is where each
`Agent.Serve` loop is, with the ids and the attempt count its trigger carries.
`Claimable`, `NotAfter` and `Candidate` are the WHERE and ORDER BY clauses of the
claim; `Finish`, `Retry` and `DeadLetter` are the three outcomes of
`ResultPersister.HandleResult`, all of them through `CompleteRun`, which names the
run and the message by their ids and looks at nothing else. `CancelWorker` and
`ExitCanceled` are apart because `SyncOnce` does not wait; a canceled worker's
writes fail, since they use its context. `Fail` stands for every error that ends
`Serve`. `CrashProcess` ends all workers of a process, `DeleteAgent` cascades.

Time is a logical clock with which leases and delays are compared; it moves only
while some deadline is ahead, as later moments are all alike. `origin` is a history
field: the run whose outbox a message came from.

`TaskQueue` knows tasks that are new, pending, done, dead or dropped. Queued and
leased messages are both pending; settling a task submits its follow-ups in the same
step; a task is buried only after it was handed out as often as its limit says.

### Scheduler

`ReadDue` copies at most `BatchSize` due rows, outside any transaction. The copies
are then fired one by one: `FireSchedule` when the row still is enabled with the
`next_fire_at_ms` that was read, `SkipSchedule` otherwise, `LoopForever` for an
expression without a match. The row's other columns come from the copy, as in the
code. `DisableSchedule`, `CreateSchedule`, `DeleteSchedulesByAgent` and
`DeleteAgent` may come in between.

A cron expression is the number of minutes between its matches, which are the
multiples of it; 0 stands for one that parses and never matches (`0 0 30 2 *`). The
cron library answers Go's zero time for these, `Never` here, which is stored as a
time long past. `FirstMatchAfter` is the closed form of the catch-up loop; an
`ASSUME` in `MCScheduler` compares it with the loop for all periods up to 6, times up
to 30 and due times before them.

`Timetable` has plans (agent, expression, on or off) and for each the occurrence it
waits for. A message is made from the plan as it is at that moment and moves the
plan to the first occurrence after it, at a time that has come and need not be now:
a scheduler fires with the time at which it read its batch. An occurrence is a
number the period divides, found without the closed form of `FirstMatchAfter`.

### RuntimeManager

`SyncOnce` takes five kinds of steps: `Reap`, `List`, `CancelStale`, then for each
agent that needs a worker `StartWorker` (as far as the sweep of the spill directory)
and `Launch` (registration and goroutine), and `SyncDone`. Rows change, workers end
and the process dies between any two. A row's fingerprint is its version, which is
new with every change. A worker is `serving` (waiting for triggers), `running` a
turn, `closing` (`Serve` has returned) or `ended`. `written` are the runs for which
it has written spill files, `spill` those for which files are there. `StopAll` and
`AllDone` are the two loops of `stopAll`.

### Session

The variables are the session (`turns`, `replay`, `state`, `next`), the turn under
way, the provider's responses (`answers`, with what was shown to the model for each)
and, for the properties only, `said`: the session as it happened. `View` is what a
request makes the model see: after a stored response, everything that response saw,
its own items and the new input; otherwise the replayed conversation.
`UsePreviousResponse` is the driver's choice between the two. The providers of the
run store responses, or do not, or do not label their calls with ids either, and may
change from one response to the next.

### SpecSync

`syncSpecs` is the sequence of its store calls, and `PutAgent` of its statements:
`GetAgent`, then `CreateAgent`, or `UpdateSettings` and `UpdatePrompt` where the row
that was read differs from the spec, and `RereadAgent`. `DeleteSchedulesByAgent` and
one `CreateSchedule` per schedule follow, and, for a server, `ListAgents` and
`DeleteAgent` for each agent without a spec. A process may stop after any step and
start again on files that were edited. A server loads the whole config root, a
one-shot run one file of it.

### MemFS and FileSystem

A file system is the sequence of its nodes; a node's place is its inode number and
node 1 is the root. Each operator of `MemFS` is a method of `memfs.FS` under its
lock: it takes the nodes and answers them changed with an error, `nil` for none.
`ResolvePath` and `LookupPath` translate the walk over components with its budget of
links, the code's removal of `..` before anything is looked up included: the walk
along a path is a function of the place in it, the calls of `lookupPathLocked` within
each other a function of its `depth`. `MkdirAll` goes on from the directory that each
name led it to. `RemoveAll` gives the directories below the removed one at once
(`DirectoriesBelow`) instead of one after the other, since nothing is looked at in
between. In `FileSystem` a program calls them in any order and holds an open file
across calls, so that what is removed or replaced may still be open; `selfMoved`, for
the properties only, holds the nodes of which an entry was renamed to itself.

### Shell language

A program is a sequence of lexemes: a letter, an operator, a quote or a keyword is
one token, since no property tells the letters of a name apart. `ShellLexer` and
`ShellParser` are the code's recursive descent over a parser record with its mode of
quoting, its pending here-documents and its error, for the POSIX variant that agents
use; `Incomplete` is the test of what is still open. `ShellPrinter` keeps the state
of the printer that separates statements (`SemiOrNewl`, pending here-documents). A
tree has no positions but those that choose a separator. `ShellValidate` is what
`runTurn` checks before it runs a program: statements and builtins an agent may not
use, nested `sh -c` programs among them. `Quote` refuses what holds a character that is
not printed, as the POSIX variant must, a newline or a tab here.

`ShellSyntax` types a program chunk by chunk, out of one *theme*, a part of the
grammar, so that TLC meets every small program of it, right or wrong.

### Shell interpreter and AgentTurn

Every operator of `ShellRunner` takes a runner and answers it changed; an exit, an
error, a break or a return is a field of it, as the runner's fields are in the code, and each level looks at them where the code does.
Scopes are the overlays of variables, each with what is set, exported, read-only or
local. `ShellExpand` splits, quotes, globs and computes as `expand` does and asks the
runner for command substitutions. An arithmetic result is a 64-bit number in the
code; values here are far from the border. *Fuel* is the number of checks of the context that
still pass: when it is used up, the step has timed out or the turn was canceled, and
so a program ends in the middle of anything. A Go panic
(`dead`) is one of the outcomes.

`AgentTurn` keeps one such runner through the turns of an agent: `DriverFails`,
`DriverTimesOut` (sent again at most `maxDriverRetries` times), `RefuseStep`,
`Step` (`runShellTool` with its working directory and deadline, then
`ClassifyRunResult`), `Finish`, `Cancel`, `ReachMaxSteps`.

### Commands and file tools

`CommandArgs` is the option parser the commands share (`ParseOptions`, clusters,
values, `--`) and the modes of `chmod`. Each command is an operator on a state of the
file system, the input, the output and the errors, in the order in which the code
opens, reads, writes, removes and reports; the first error of a command ends it where
it does in the code and is passed over where the code goes on. `Commands` runs any
call of a set, on what the calls before it left. The characters of a file are tokens;
regular expressions, glob patterns and the encodings of gzip, tar and zip are
external (the code takes them from libraries) and modelled by what the commands use
of them.

### TuiPages and Tui

`Tui` is the model of the Bubble Tea program: `Update` is one action per message
(`handleAutoRefreshTick`, `handlePageLoaded`, `handleDetailLoaded`, filter matches)
and per key. `t.flight` is what goroutines and timers have under way: a load is
asked for, then reads the store (`Read`, at any later moment, or `ReadFails`), then
its answer comes (`Deliver`). Loads carry a sequence number in the code, which is
compared for equality with the last one; here the number is the bit `fresh`, taken
away when a newer load is asked for or the load is canceled. Of the timers' number it
matters too whether it is still 0 (`~begun`). `Init` has a value receiver: its timer
carries the number 1, but the program goes on with a model that still has 0 and drops
the timer's message. The first timer that the program starts itself, when the user
turns auto refresh off and on, carries 1 once more (`Begin`), so that from then on the
message of `Init`'s timer is taken, if it has not come yet. `TuiPages` is what the
loaders read, `Serve` what the server changes meanwhile.

## Runs

| Run | Instance | Question |
| --- | --- | --- |
| `mailbox` | 1 process, 2 workers of one agent, 2 agents (one may send), 3 messages, 3 runs, 2 faults, outboxes of up to 2 | is a message ever held, finished, answered or overwritten twice, and does the mailbox implement `TaskQueue`? |
| `two_processes` | 2 workers in 2 processes, 1 message, 1 step per run, 10 runs, 2 faults, fair | what stays right although a worker that lost its lease can still write, and is each message settled? |
| `schedules` | 2 schedulers, 2 schedules, batches of 1, periods 1, 2 and never, 3 minutes, 3 changes, 1 fault, fair | is every occurrence answered, once, is every due schedule fired, and do the schedulers implement `Timetable`? |
| `runtime` | 2 agents, 3 workers, 2 row versions, 2 runs, 2 faults, fair | is a worker ever lost track of or started beside a rival, are foreign files left, do the workers converge to the rows? |
| `sync` | a server and a one-shot run, 2 agents, 3 schedules, 4 config roots, 3 starts each, 2 edits | does the database end as the files say, and is a sync ever refused? |
| `session` | 3 turns of up to 2 steps, 3 styles of provider | does the model see what happened, with each call answered? |
| `files` | 1 program, names a and b, the root and 3 paths, 3 targets of links, 4 nodes, 1 byte | does a path lead where the calls say, do link counts agree, is a file ever lost? |
| `syntax` | 12 themes of 6 to 9 chunks, programs of up to 5 chunks | is a printed program the same program, a quoted string the same string, a final error final? |
| `turn` | 7 themes of 7 to 12 programs, 2 turns of 2 steps, 3 runs of programs, 1 retry, time-outs after 5 checks or never, fair | what does a program leave behind, however it ended, and does the turn end? |
| `tui` | 5 scripts of keys, 2 loads in flight, 1 change of the store or failed load beside the refreshes, fair | does an answer ever land elsewhere, and does the screen show the records in the end, once auto refresh was turned on? |
| `commands` | about 100 calls of commands, 7 patches, 6 reads, 4 listings, 3 searches, any two in a row, on a tree of 10 entries | does a call change more than it names, lose a content, or list what is not so? |
| `sync_moved` | as `sync`, one server, a schedule id that moves | a counterexample, see *Findings* |

Properties, and what they say of the code. Several are conjunctions of named parts,
given in brackets.

- **Mailbox.** `LeasesAreSound` (`LeaseNamesRun`: `run_id` of a leased message is its
  newest run and that run is running; `RunSpacing`: tries are at least a retry delay,
  or a lease, apart). `ActiveHoldsMessage`: a worker whose writes succeed holds its
  message under its run, although `CompleteRun` checks neither. `AnsweredOnce`
  (`OneFinishedRun`: completed if and only if exactly one run is finished;
  `OutboxOnce`: messages are sent by finished runs, and for one message by one run).
  `FencedWrites`: what a late
  writer may never change. `EventuallySettled`: no message is stranded.
  `ImplementsQueue`: the refinement; it also holds the retry budget to the documented
  number. In two processes too: `RecordsStand` (`TablesAgree`, of `LeaseNamesRun`,
  `AttemptsAreRuns`: the attempts of a message are the runs it has had, none counted
  twice or forgotten, and `ResultsHaveRuns`: a settled message has a run that says so;
  `RunsAreFinal`: the recorded end of a run is never changed).
- **Schedules.** `FiredOnce` and `NoLostOccurrence`: an occurrence is answered by
  exactly one message, or skipped because an earlier one was answered after it.
  `ImplementsTimetable`: the refinement; a message is that of the row as it is when
  the transaction commits, never of one that was disabled, deleted or replaced.
  `FiredUnlessStuck`: neither batch limit nor rival starves a schedule.
- **Runtime.** `OneServes` (`NoneForgotten`: a worker that was not canceled is
  registered; `ReplacesOlder`: a worker is started only beside canceled ones, all of
  earlier versions of its row). `OnlyOwnFiles`: no start leaves files of another worker. `KeepsUp` (`CurrentServed`,
  `GoneStops`, `StopEnds`): the workers converge to the rows.
- **Sync.** `SyncsAlone` (types, `SyncFaithful`, `NeverRefused`): a server alone on
  its database, whatever was cut short before. `SyncsCoexist` (`SyncAgreed`,
  `OthersUntouched`): with a one-shot run beside it.
- **Session.** `CallsAnswered`: what the API requires. `HistoryShown`: the order,
  completeness and uniqueness of what the model sees.
- **Files.** `ResolvedIsCanonical`: the resolved path of the sandbox's check names the
  very file the call opens, and goes through no link. `MadeIsThere`: a file created through
  dangling links and the directories of `MkdirAll` are there under the name given. The
  directories may be beyond what one lookup follows: `MkdirAll` starts with a budget of
  40 links at each link on its way, a lookup has one for the whole path, so that a path
  over more than 40 links is made and then answers "too many symlinks". A created file
  is always found.
  `TreeKept` (`EntriesCount`, of types, `LinksAreCounted` and `TreeIsTree`;
  `LostOnlyByRemoval`, of every step: what drops out of the tree was at or below the
  path given to a removal, to a rename over it, or to the rename of a directory below
  itself).
- **Syntax.** `PrintedIsSame`: parse, print, parse gives the tree of the first parse.
  `QuotingIsSound` (`QuotedIsOneWord`: what is quoted reads back as one word, and only
  text of several lines is refused; `NestedIsPlain`: the check accepts
  `sh -c '...'` exactly when it accepts the program inside, of however many lines).
  `FinalStays`: what is
  called wrong, not incomplete, is not completed by more input.
- **Turn.** `LeftInOrder` (types, `TidyBetweenSteps`, `PwdFollows`).
  `SubshellIsolated`, `InlineRestored` and `ErrexitSparesConditions` wrap every
  program of the theme, in every state a step can start in, in parentheses, a pipe,
  a nested shell, a function with an assignment before it, and a condition.
  `TurnEnds`.
- **Terminal.** `LoadsInOrder` (types; `LoadsAwaited`: each load in progress has one
  answer on its way that will be taken, and auto refresh, once the user has turned it
  on, has one timer of its own and before that none that counts; `DetailSinceReload`: no
  detail is shown or kept that is older than the rows). `SelectionKept`,
  `AnswersStayOnTheirPage`, `PromptGoesWhereShown`. `ShownInTheEnd`, of a program whose
  user has turned auto refresh off and on, see *Findings*.
- **Commands.** `ChangesOnlyWhatItNames`: outside of what the words of a call name,
  and what their links lead to where the command follows links, the tree is as it
  was. `FilesKept` (`NothingLost`: a content that was in the tree still is, but for
  calls that remove or write over it and say so; `CopyIsLikeSource`).
  `ArchivesRestore`: unpacking an archive gives the contents, links and modes that
  were packed. `ListingsAreRight` (`FindListsWhatMatches`, with the meaning of an
  expression defined on the tree; `ListingsAgree`: a page of `list_dir` is a slice of
  what `find` lists). `LinesShown` (`SortedLines`, `RangesAreWhole`: a
  range of `sed` defined by its lines). `PatchKeepsTheRest`: the lines that a patch
  does not name are kept, in order.

The inductive invariants of the proofs (`IInv` with `SpacingInv`, `TablesInv`, `FiringInv`,
`WorkersInv` with `VersionsInv`, `Sound` with `AloneInv`, `FreeInv` and `AgreedInv`, `TuiInv`,
`SessionInv`) were checked as invariants of the same instances; no run keeps them,
since the proofs cover more than an instance could.

### Bounds

Two workers of one agent are enough for an old and a new one, and two processes for
a holder and a thief. Two claims make a retry, a third one a retry after a loss;
with three messages a request can be followed by an outbox of two, or by a chain of
two. `two_processes` allows ten runs so that the liveness property is not met by
running out of them: no behaviour of the instance uses more than eight. The
first run keeps no steps and no delays at enqueueing (`MaxSteps = 0`, `Delays = {0}`);
`two_processes` has steps. Periods 1 and 2 over three minutes
give occurrences that coincide, that are missed and that are caught up. Batches of
one row make the batch limit bite with two schedules. Three workers allow two of one
agent, one of them ending, beside one of the other. The config roots of `sync` differ
in one thing and in several at once, with agents and schedules that come and go.
Three turns are needed for a turn that fails between two that do not.

`files`: a root and three more nodes make a directory, a file below it and a link, or
two links in a circle; one link's target is beside it, one above it, one rooted. A
node that nothing leads to and nobody holds open is alike whatever is in it, which
the `VIEW` of the run says. `syntax`: five chunks open and close any construct of the
grammar around or beside one other; chunks rather than characters keep words out of
the way. `turn`: two steps make one that leaves something and one that finds it, two
turns the reset between them (or its absence, with `preserve`); the wrapped programs
of the invariants are a third step. A time-out after five checks lies inside every
loop and function of the themes. `maxDriverRetries` is 3 in the code and 1 here: the
counter starts again with each request. `tui`: each script has keys in an order that
matters and sets of keys in any order; with two loads in flight an answer can be
overtaken, and one change of the store moves the rows between two refreshes.
Most scripts press `u` twice first, since nothing is refreshed by itself before; the
last one turns auto refresh off and on later, with `Init`'s timer perhaps under way.
`commands`: two calls suffice to pack and unpack, to make a file and meet it again,
to replace a link and follow it. The file system a call starts from has a file that is
packed, an archive with an entry twice, one that names a directory it does not hold,
links to a file and to a directory, and modes that differ.

In `syntax`, `turn` and `commands` the parser, the interpreter and the commands reach
the state machine through operator parameters (`Reading`, `Interpret`, `Running`
...), which the `MC` modules bind to the definitions: TLC's statistics list an
action's expressions along every path of calls, and of a recursive descent there are
more than it can list. An `ASSUME` compares them on the inputs of the instance.

No run checks for deadlock: a server whose mailbox is drained, whose schedules are
disabled, or which has used up the faults, changes and rows of its bounds rests, and
so does the real one; the same holds for a user, a program and an agent at the ends
of their scripts.

Worker symmetry is used where no property with liveness is checked.

### Fairness

Weak fairness of steps the code takes by itself: the poll loops of
`RuntimeManager.Run`, `MessageQueue.Next` and `Scheduler.Run` (tickers and timers);
the end of every turn, since `max_steps` bounds the decisions, `step_timeout` each
driver attempt and tool step, and 3 the driver's retries; a canceled worker's exit,
since all its calls take its context; time. Enqueuers, row changes, failures and
crashes are never fair. A `Scheduler` that has stopped with its server is started
again (a supervisor or an operator does that); for the runtime manager no such
assumption is made, and its properties except a manager that is ending.

`TurnEnds` assumes only that a turn under way goes on (`Progress`): each request and
each step has a deadline, whose passing is itself one of the steps. In `Tui`,
goroutines run, timers fire and the event loop takes every message that waits. The
load of a detail has strong fairness: a refresh cancels it, so that loads which
always take longer than the refresh interval would never be shown. That is what the
code does; the assumption is that a local database answers in less than seconds.

## Proofs

TLAPS checks the following for all values of the constants that satisfy the named
assumptions of the modules. The bounds are parameters, so the theorems hold for any
number of agents, workers, messages, runs, schedules, schedulers, processes, turns,
keys and faults. The assumptions are that bounds are natural numbers, that processes
are servers or one-shot runs and not both, that a config root gives each schedule id
once (`SpecSyncAssumption`; `LoadAgentSpecs` refuses others), that what the provider
stores it also labels (`SessionAssumption`), that names of files are strings other
than `.` and `..`, of which the root, the paths and the targets of links are made
(`FileSystemAssumption`), that the terminal starts on a store of records
(`TuiAssumption`) and that a page has a positive limit.

| Theorem | Property |
| --- | --- |
| `MailboxProofs!TypeCorrect` | types of `Mailbox`, for any processes |
| `MailboxProofs!Inductive` | `IInv`, if all workers are in one process |
| `OnlyHolderWrites` | `ActiveHoldsMessage`, in one process |
| `FinishedOnce`, `OutboxSentOnce`, `AnsweredOnlyOnce` | `OneFinishedRun`, `OutboxOnce`, and both as `AnsweredOnce`, in one process |
| `TerminalRowsFinal`, `WritesAreFenced` | `TerminalIsFinal` (a completed or dead-lettered row never changes), `FencedWrites`, in one process |
| `LeasesSound` | `LeasesAreSound`, in one process |
| `TablesInvariant`, `TablesStayInStep`, `EndedRunsStay`, `RecordsDoStand` | `TablesInv`, `TablesAgree`, `RunsAreFinal`, and the last two as `RecordsStand`, for any processes |
| `MailboxRefinementProofs!MailboxIsQueue` | `ImplementsQueue`, in one process |
| `SchedulerProofs!TypeCorrect`, `FiringInvariant` | types of `Scheduler`; `FiringInv` |
| `NeverFiredTwice`, `NeverFiredStale` | `FiredOnce`, `FiresCurrentRow` |
| `NoOccurrenceLost` | `NoLostOccurrence` |
| `SchedulersKeepTheTimetable` | `ImplementsTimetable` |
| `RuntimeProofs!TypeCorrect`, `WorkersInvariant`, `VersionsInvariant` | types of `RuntimeManager`; `WorkersInv`; `VersionsInv` |
| `NoWorkerForgotten`, `OneWorkerServes`, `CleanRoot` | `NoneForgotten`, `OneServes`, `OnlyOwnFiles` |
| `SpecSyncProofs!AloneIsFaithful` | `SyncFaithful` |
| `AloneIsSynced` | `SyncsAlone`, if schedule ids stay with their agents (`IdsStay`) |
| `OneShotsKeepOff`, `SyncsDoCoexist` | `OthersUntouched`, `SyncsCoexist` |
| `SessionProofs!CallsAreAnswered`, `HistoryIsShown` | `CallsAnswered`, `HistoryShown` |
| `FileSystemProofs!EntriesStayCounted`, `LostOnlyByCalls`, `TreeIsKept` | `EntriesCount`, `LostOnlyByRemoval`, and both as `TreeKept` |
| `ResolvedStaysCanonical`, `MadeStaysThere` | `ResolvedIsCanonical`, `MadeIsThere` |
| `TuiProofs!LoadsStayInOrder` | `LoadsInOrder` |
| `AnswersStay`, `PromptGoesThere`, `RefreshKeepsSelection` | `AnswersStayOnTheirPage`, `PromptGoesWhereShown`, `SelectionKept` |

**Mailbox.** `CompleteRun` is safe only because of facts that lie elsewhere. That a
worker's write hits the row it holds (`ActiveHoldsMessage`) is not inductive: a claim
by another worker would break it. It needs that an agent has at most one worker that
is not canceled (`OneManaged`, from the manager's map), that a trigger's run belongs
to its message and its message to its agent (`WorkerTask`), that rows above the last
id are empty (`RowsInOrder`) and that runs go with their messages
(`RunsHaveMessages`). A worker can claim a message only when it is the one managed
worker of that agent and idle, so no active worker holds it. `OneFinishedRun` follows
with `LeaseNamesRun`, since a completion finds its message leased under its own run;
`OutboxOnce` with `OriginFinished`. The action properties come from `IInv` in the
state before the step.

`LeasesAreSound` adds time. That two tries of a message are at least a retry delay or
a lease apart (`RunSpacing`) needs `LeaseTimes`: a lease spans `lease_duration` from
the start of its run, and a message that waits becomes available only after all its
runs have ended. A claim then starts its run after the end, or the lost lease, of
every earlier one.

`MailboxIsQueue` maps rows to tasks and shows of each action which step of
`TaskQueue` it is: an enqueue submits, a claim hands out, a completion settles (and
submits the outbox with it), a dead letter buries, a deletion drops, and all else, a
retry too, leaves the mapped state alone. `IInv` is what makes it go through, since
the abstract queue settles only what is pending, which the code does not check; one
fact more is needed, that a deleted row holds nothing and a leased one was claimed
(`RowsCount`).

Those facts hold in one process only. In two, `ActiveHoldsMessage`, `OneFinishedRun`,
`TerminalIsFinal` and `FencedWrites` all fail, because `CompleteRun` does not compare
`run_id` or `lease_owner`: this is why one database belongs to one server. What is
left is `TablesInv`. Its heart is `OneWriter`: a run id is new when it is claimed, so
a run has one worker, and until that worker reports, canceled or not, the run is
recorded as running. A late report therefore ends its own run, which had not ended
(`RunsAreFinal`), and releases its message by setting `run_id` and status together,
whoever held it (`TablesAgree`). It adds no attempt; only a claim does, and only with
a new run. Outbox messages still come from finished runs (`OriginFinished`), though
two of one message may each send theirs. `two_processes` shows that even then each message is settled.

**Schedules.** A copied row outlives its row, and the transaction compares
`next_fire_at_ms` alone. `FiringInv` says why that is enough: rows wait for times
later than anything fired under their id (`WaitsAhead`, also after a deletion and new
creation, since a new row waits for a time after now), copies were due when read
(`CopiedWhenDue`), and the present row is the one that was copied or waits for a
later time (`CopyOrLater`). `Never` is the exception everywhere, and it is never
fired. `NoOccurrenceLost` rests on one fact about matches of an expression
(`NoMatchBetween`): there is none after a time and before the first match after it.
A firing that catches up moves the row to the first match after now, so what it
passes over lies between the occurrence it answers and the firing.

`SchedulersKeepTheTimetable` maps a row to a plan and the occurrence it waits for; reading,
skipping, stopping and hanging leave the mapped state alone. The step that matters is
the firing: from `CopyOrLater` and the comparison of `next_fire_at_ms` follows that the
whole row is the one that was copied, so that the message made of the copy is the
message of the plan (`FireSends`). `NextIsFirstAfter` shows that the closed form of the catch-up
loop is the one number the period divides in the minutes that follow.

**Runtime.** `NoneForgotten` needs that registered workers belong to the agent they
are registered under, and that an agent being started has none (`HandlesMatch`,
`NothingStale`). `OnlyOwnFiles` needs the stronger `FilesOfTheLiving`: from the sweep
on, all files under a root are those of workers alive on it, be they ending.

`ReplacesOlder` compares a worker with those that the manager has long forgotten. It
needs that the rows listed are rows of the past, and that an equal version is an equal
row (`ListsAreOld`); then a worker canceled because its row was not listed or had
another version is of an earlier version than any row listed later that is runnable
(`CanceledAreOld`). When the manager stops it cancels workers of current versions too,
and starts none; those that `stopAll` did not wait for end with the process.

**Synchronisation.** `Sound` says what any process keeps (it works through specs that
some config root gave; every schedule belongs to an agent that exists and that some
root gave it to). `AloneInv` says, phase by phase, what a server that is alone has
done: behind it all agents are as their specs say, and what it read is what is there.
Never to be refused it needs more: the ids it has yet to create are free
(`FreeInv`), which fails when an id moves from one agent to another. `sync_moved` is
the counterexample, so `IdsStay` is a hypothesis of `AloneIsSynced` and of nothing
else. For syncs that overlap, no process can rely on what it read. `AgreedInv` finds
one that leads: when all have loaded one spec of an agent, whatever is written from
the start of the last of them on is of that spec, so what it has found or written
stays; a schedule that another process has cleared is left to that one to create
again (`Covered`).

**Session.** `said` is what happened, and only grows. `SessionInv` relates it to the
rest: to what the session keeps (`SaidKept`: the turns, written out, are `said`), to
what the provider has stored (`AnswersShow`: a stored response shows what happened
before it), and to the place of the latest response (`Since`: after it came its
output, and prompts of which nothing came). A replay is right by `SaidKept`, of which
the proof is about joined sequences; a continuation shows what the response saw, the
response, and by `Since` all that is left. Every call has an index and a response of
its own (`StepsKept`), so the ids, be they the provider's or made up from the index,
are different; `SaidPaired` then puts each call before its output.

**File system.** `Inv` says of the nodes what `EntriesCount` does, and that entries
are finitely many: every file is `Accounted` for (its link count is the number of its
entries, unless it is in `selfMoved`), every directory has one entry at most, handles
are those of regular files. It is inductive because each call keeps it (`GoodNodes`,
`Kept`), with a lemma per call. Two kinds of facts carry these lemmas. One is about
walks: whatever links there are, an answer of `LookupPath`, `LookupParent` or
`ResolveCreatePath` is an error or a node and a path at or below the root. The walks
are functions of a depth and of a place, and `UpExists`, `DownExists`, `Climb` and
`Descend` (from `Least`, that a set of numbers has a least one) say that such functions
exist and what holds along them. The other is about counts: a new node comes with one
entry (`WithNodeGood`), a link adds one to both sides (`LinkedGood`), a removal takes
one from both (`EntryDiscarded`), a rename discards what had the new name before the
entry changes its place (`MovedGood`). `RemoveAll` takes from a file as many as the
emptied directories had for it (`EmptiedGood`); the code's stop at zero is never
reached but for `selfMoved`, where no equation is claimed (`MovedToItself`).

`ResolvedIsCanonical` follows from the shape of a walk. A lookup that follows every
link ends with a walk that meets none (`LookupEnds`), along a path that is inside the
root because each link is resolved to one that is (`StepInRoot`, `LinkInRoot`). Such a
walk answers the path it went (`BeginningsLead`), and a lookup of any beginning of that
path takes the same steps (`StepToNode`), so that it comes to the same nodes.

`MadeIsThere` compares lookups before a call with lookups after it. A call that makes a
node only adds an entry for it (`Adds`), so a lookup in the larger tree answers what it
did, or found nothing and now goes beyond the old entries (`LookupExtends`); and a walk
that meets a link may as well be begun anew where the link leads, but for the links it
may still follow (`DeeperLookup`, `LongerPath`). `OpenFile` follows dangling links to
the path at which it creates: each leads on to the next (`DanglingLeads`), so that in
the new tree the path given leads where that path leads (`CreatedLeads`), which is the
new node (`AddedIsFound`). That lookup is never one link too far, since it takes the
links that the first lookup took to miss the file. The names that `MkdirAll` has
worked through lead to where it has come (`Arrived`), name by name
(`MkdirStepArrives`).

`LostOnlyByRemoval` relates two trees. The calls that remove nothing leave every entry
where it was (`Grown`, a lemma per call that also keeps the invariant), and what can be
reached only grows with the entries (`NothingLost`). A removal takes one entry, and
with `RemoveAll` those of directories below it: what is then lost was below that entry
in the old tree (`LostWithin`), because a walk from the root either uses the entry or
is still there. That this entry is the one of the path given, whatever links lead to
it, is again a matter of walks: the parent's walk, made longer by the last name, is the
walk of the path itself (`LongerLookup`, `EntryIsFound`). A rename takes the entry of
the old name away and puts it under the new one; what was below the entry is lost only
when the new parent is itself below it (`RenameLoses`), since the parent is otherwise
still reached (`ParentIsReached`).

**Terminal.** `TuiInv` is stated of any model `m`, so that it can be followed through
the calls of a handler (`ModelSound`, with a lemma for each of the model's methods).
Its heart is that of each kind of load at most one message is fresh, exactly one when
the model says it is loading. Of the timers one is auto refresh's own (`TimerRuns`,
`OwnTimers`); for `Init`'s, which may become fresh beside it, nothing is claimed but
that it is not fresh before auto refresh has begun. `DetailCurrent` is subtle: a detail on its way may have
been asked for by the rows of an earlier reload (`Overtaken`), but only as long as no
row was selected since, and then it is not taken.

To be proved about, some definitions are written without recursive operators: the
lists of `TuiPages` by their places instead of with `SelectSeq` and `SortSeq`,
`HistoryShown` by the places of items in `said`, and the walks of `MemFS` as recursive
functions.

Only model-checked:

- the liveness properties `EventuallySettled`, `FiredUnlessStuck`, `KeepsUp`,
  `TurnEnds` and `ShownInTheEnd`: fairness and ENABLED are beyond the prover;
- the shell, the commands and the file tools. Their modules are
  written with recursive operators, as the code is with recursive functions; tlapm has
  no SMT solver for a module that reaches one, and what a recursive definition
  computes would need induction over data, which the prover does not offer here.

## Findings

`sync_moved`: a schedule id that moves to another agent makes every further sync
fail. `syncSpecs` creates the schedules of each spec in turn and deletes what has no
spec at the end, and ids are unique in a namespace; the row of the old owner refuses
the new one before it would be deleted.

`tui`: auto refresh is on when the terminal interface starts, and its header says so
(`tui_test.go:611`), but nothing is refreshed until the user turns it off and on. `Init`
has a value receiver (`tui_model.go:173`), so that the sequence number of its timer is
counted up on a copy; the program's model keeps 0, drops the timer's message, which
carries 1, and starts no other. The run has no counterexample, since its properties say
what the code does: of `LoadsInOrder`, that no timer counts before auto refresh has
begun (`~t.begun`), which the theorem `LoadsStayInOrder` shows for every instance, and
of `ShownInTheEnd` that it has begun. Without that condition TLC finds a user who
presses no key and is shown the old records for ever.

### What the code does otherwise

The following came up while the code was translated. The models do what the code
does; the properties that meet it except it by name, or their instances stay clear
of it.

Server and agent:

- `runtime.max_attempts` bounds failed attempts only: a message whose worker is
  canceled, crashes or cannot store its result is claimed again without a look at the
  maximum (`store/mailbox.go:107`). A maximum below zero means none. Messages of
  schedules carry 5, whatever the agent is configured with (`store/schedule.go:200`).
- A worker that is closed late removes the spill files of its running successor
  (`output_spill.go:65`, `runtime_manager.go:96`).
- One enabled schedule with an expression such as `0 0 30 2 *` hangs the scheduler in
  its catch-up loop, for all schedules and for good (`store/schedule.go:149`).
- Schedules are deleted and created again at each start (`specs.go:303`): what fell
  due in between is not fired. One agent that cannot be started ends the server
  (`runtime_manager.go:114`). Two processes with different files for an agent can
  leave its row with parts of both (`store/reconcile.go:162`).
- With stored responses, the prompt of a turn whose first request failed is never
  shown to the model again (`openai/driver.go:741`).
- A step that timed out ends the whole turn with `fatal_error`. The working directory
  of a step stays the runner's, while `$PWD` is not told (`tool_runtime.go:103`).

Shell language and interpreter:

- Printed otherwise than read: `$((- -x))` as `$((--x))`; a lone `$` before a
  backquoted substitution as `$$(...)`. `IsKeyword` lacks `elif`. A here-document with
  a quoted stop word that is not closed is not called incomplete.
- Panics: `unset ''`, `[ -n a = b ]`, `test -v ""`, `shift -1`.
- The word of `${x:-word}` is always expanded, its commands run; `"${@%x}"` drops the
  operator and writes to parameters a subshell shares; both sides of `&&` in
  arithmetic are computed; `x=1 x=2 cmd` leaves `x` exported; `PWD=x cd d` puts the
  old `PWD` back; globs are relative to `$PWD`, not to the runner's directory.
- After `break` or `continue` in a block the statements of the block that follow are
  still run (`runner.go:599`); a subshell in a condition is not exempt from errexit;
  `! exit 0` exits with 1; an error of a command's handler halts the shell or does not,
  depending on what follows (`handler.go:136`, `runner.go:72`).

File system:

- `..` is taken off before links are looked up; a file renamed onto itself loses a
  link count (`memfs.go:373`); a directory renamed below itself can no longer be
  reached; a file opened for reading and creation can be written (`memfs.go:298`).

Commands and tools:

- Contents go: `gunzip -f x` of a file without a suffix truncates it before it reads
  it; `zip` truncates its archive before it finds itself among the inputs; of
  `mv a d/a e` the first is overwritten by the second. `cp -r a a` does not end.
  `gzip` reports errors and exits with 0. `chmod -R` follows links. `rm -f` passes
  over every path error. `xargs -p` asks for ever after a "no".
- Shown otherwise: `&` and `\1` in a replacement of `sed` before a letter or digit
  expand to nothing; a range is not closed when `d` skipped its last line; line
  numbers start again with each file; `grep -o` with `^` goes on within the line;
  `sort -n` of numbers and words has no fixed order; `find` drops options that come
  before its root; `cp -r` of a link to a directory makes an empty directory.
- `read_file`'s `include_siblings` has no effect; `grep_files` stops at its limit
  before it sorts by time, and finds nothing in a single file with an `include`;
  `apply_patch` is not atomic, and looks for a hunk from the first line when it is not
  found after the last one.

Terminal interface:

- When auto refresh is turned off and on before `Init`'s timer has run out, that timer
  and the new one carry the same number; the one that fires first outdates the other.
- Late matches of a filter change the rows and not the detail; a page that arrives
  while a filter is typed ends the typing; `openAction` keeps an index of the filtered
  list and `popPage` drops the filter; a message that is claimed changes its key, and
  the selection goes; `q` quits and `?` opens the help while a prompt or a filter is
  typed; an empty prompt is sent.

## Assumptions and limits

- Metadata of a message does not carry the server's own keys (`server_run_id`, ...);
  `queue.go:61` would let them override.
- The fingerprint is a version: two changes of a row within one millisecond, which
  `updated_at` cannot tell apart, are not modelled.
- Two agents have different roots, as sync demands. Spill files are on disk; with the
  in-memory filesystem each worker has its own.
- Cron expressions are periodic; time zones and daylight saving are left out.
- In `Session`, stored responses have labelled calls (`SessionAssumption`), replies
  carry their output items, the provider never forgets a stored response, and the texts around the
  conversation (protocol, session state, reasoning items, images) are left out.
- In `SpecSync` there is one namespace; `settings` stands for all columns that
  `PutAgent` compares, `prompt` for the prompt version with its action schema. The
  ids of schedules stay with their agents except in `sync_moved`.
- SQLite is trusted: a transaction is atomic, keys and cascades are enforced.
- In the shell, both sides of a pipe run one after the other (what they share is only
  the pipe and the files), the language is the POSIX variant, and of the core
  utilities there is `cat`; recursion without an end runs out of fuel, where the Go
  stack would end the process.
- In `Commands` the working directory is the root of the agent; there are no times,
  so that `ls -t` and the order of `grep_files` are by name; braces in an `include`,
  limits of bytes and files, and the check for binary data are left out.
- In `Tui`, the list shows all rows at once; a filter is a set of letters of agents'
  ids, without ranking; window sizes, scrolling, the mouse and all texts are left out.

Not modelled: the tools of services (calls that end with or without an error), the
commands `env`, `uname`, `base64`, `shasum`, `date`, `curl`, `jq` and `awk`, regular
expressions and archive formats (libraries), sandbox mounts, HTTP policy and logging
(built once per worker, no protocol), request and response formats of the providers
and with them the Anthropic driver, which keeps no state, output capture, the command
line, `Environment.Run`, the steps of `Migrate`, and the programs of the shell's
origin that agents do not use.

## What could follow

1. `Environment`: runtime manager and scheduler in one server; that a server stops
   when either fails, and what a hung catch-up loop does to that; the store closed
   under workers that were canceled and not awaited.
2. `Migrate`: crashes between migrations, two processes opening one database.
3. `runTurn` shown to implement the worker protocol that `Mailbox` assumes.
4. Pipelines whose sides run beside each other on one file system.
