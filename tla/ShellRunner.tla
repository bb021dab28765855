------------------------------ MODULE ShellRunner ------------------------------
(***************************************************************************)
(* The shell interpreter (pkg/sh/interp: runner.go, builtin.go) as the     *)
(* sandbox and the agent configure it: every operator takes the runner     *)
(* and returns it changed.  Builtins answer their exit status in val.      *)
(*                                                                         *)
(* The left side of a pipe runs to its end before the right side starts.   *)
(* Of the core utilities there is cat.  Background statements are refused  *)
(* before a program runs; traps, aliases, eval, exec and the other         *)
(* builtins the sandbox blocks, and the trace of -x, are left out.         *)
(***************************************************************************)
EXTENDS ShellState, ShellValidate

RECURSIVE Output(_, _), RunStmt(_, _), RunCmd(_, _), RunCall(_, _, _),
          WhileLoop(_, _)

E == INSTANCE ShellTest WITH RunSubst <- Output

RunStmts(r, stmts) == FoldLeft(LAMBDA q, stmt : RunStmt(q, stmt), r, stmts)

\* Expansion as the interpreter calls it: an error is reported here.
ToFields(r, words)  == E!ExpandErr(E!Fields(r, words), <<>>)
ToLiteral(r, word)  == E!ExpandErr(E!LiteralOf(r, word), <<>>)
ToDocument(r, word) == E!ExpandErr(E!Document(r, word), <<>>)
ToPattern(r, word)  == E!ExpandErr(E!PatternOf(r, word), <<>>)
-----------------------------------------------------------------------------
(* Redirections.                                                           *)

ReadsFrom(r, data) ==
  LET q == NewInput(r, data) IN [q EXCEPT !.stdin = Len(q.inputs)]

\* Where an output goes; fd is "stdout" or "stderr".
WritesTo(r, fd, kind, handle) ==
  LET q == NewSink(r, kind, handle) IN [q EXCEPT ![fd] = Len(q.sinks)]

\* The lines of a document whose tabs are taken off: runs of parts.
TabbedLines(parts) ==
  LET untabbed(line) == Lit(TrimLeft(line, {"tab"}))
      part(lines, p) ==
        LET texts == Pieces(p.value, "nl") IN
        IF p.type # "Lit" THEN Append(Front(lines), Append(Last(lines), p))
        ELSE FoldLeft(LAMBDA ls, i :
                        IF i = 1 THEN Append(Front(ls), Append(Last(ls), untabbed(texts[1])))
                        ELSE Append(ls, << untabbed(texts[i]) >>),
                      lines, [i \in DOMAIN texts |-> i])
  IN FoldLeft(part, << <<>> >>, parts)

\* Each line is expanded on its own; before the first text no line ends.
DashDocument(r, word) ==
  LET next(q, line) ==
        LET d == ToDocument(q, Word(line))
        IN [d EXCEPT !.val = q.val \o (IF q.val = <<>> THEN <<>> ELSE <<"nl">>) \o d.val]
  IN FoldLeft(next, [r EXCEPT !.val = <<>>], TabbedLines(word.parts))

HdocOf(r, rd) == IF rd.hdoc = 0 THEN Nil ELSE r.bodies[rd.hdoc]
HdocReader(r, rd) ==
  LET d == IF rd.op = "<<-" THEN DashDocument(r, HdocOf(r, rd))
           ELSE ToDocument(r, HdocOf(r, rd))
  IN ReadsFrom(d, d.val)

Mode(op) ==
  CASE op = "<"  -> {}
    [] op = ">"  -> {"WRONLY", "CREATE", "TRUNC"}
    [] op = ">>" -> {"WRONLY", "CREATE", "APPEND"}

OpenFile(r, path, flags) ==
  LET p == FS!ResolvePath(r.dir, PathOf(path)) IN
  IF path = DevNull THEN [fs |-> r.fs, err |-> "", handle |-> NoHandle]
  ELSE IF p.err # "" THEN FS!NotOpened(r.fs, p.err)
  ELSE FS!OpenFile(r.fs, PathTo(p.path), flags, {"r", "w"})

DataOf(fs, handle) == IF handle.kind = "regular" THEN fs[handle.ino].data ELSE <<>>

\* val is whether it worked.  A document without a body is taken for an
\* operator that is not supported.
Redir(r, rd) ==
  LET fd     == IF rd.n # Nil /\ rd.n.value = <<"2">> THEN "stderr" ELSE "stdout"
      q      == ToLiteral(r, rd.word)
      arg    == q.val
      opened == OpenFile(q, arg, Mode(rd.op))
      there  == [q EXCEPT !.fs = opened.fs]
      works(s) == [s EXCEPT !.val = TRUE]
      fails(s) == [Complain(s) EXCEPT !.val = FALSE]
  IN IF HdocOf(r, rd) # Nil THEN works(HdocReader(r, rd))
     ELSE IF rd.n # Nil /\ rd.n.value \notin {<<"0">>, <<"1">>, <<"2">>} THEN fails(r)
     ELSE CASE rd.op = ">&" /\ arg = <<"1">> -> works([q EXCEPT ![fd] = q.stdout])
            [] rd.op = ">&" /\ arg = <<"2">> -> works([q EXCEPT ![fd] = q.stderr])
            [] rd.op = ">&" /\ arg = <<"-">> -> works([q EXCEPT ![fd] = 0])
            [] rd.op = "<&" /\ arg = <<"-">> -> works([q EXCEPT !.stdin = 0])
            [] rd.op \in {"<", ">", ">>"} ->
                 IF opened.err # "" THEN fails(there)
                 ELSE IF rd.op = "<"
                 THEN works(ReadsFrom(there, DataOf(opened.fs, opened.handle)))
                 ELSE works(WritesTo(there, fd, "file", opened.handle))
            [] OTHER -> fails(q)
-----------------------------------------------------------------------------
(* Statements.                                                             *)

\* The redirections of a statement, in order, up to one that fails.
Redirected(r, redirs) ==
  FoldLeft(LAMBDA q, rd : IF ~q.val THEN q
                          ELSE LET s == Redir(q, rd)
                               IN IF s.val THEN s ELSE Failed(s, 1),
           [r EXCEPT !.val = TRUE], redirs)

IsAndOr(cmd) == cmd # Nil /\ cmd.type = "Binary" /\ cmd.op \in {"&&", "||"}

\* Slip: a failure ends the shell under errexit wherever it is.
EndIfErrExitAnywhere(r, st) ==
  IF ~Ok(r.exit) /\ "e" \in r.opts THEN [r EXCEPT !.exit.exiting = TRUE] ELSE r

\* Under errexit a failure ends the shell, but not in a condition, and not
\* that of a list of which each part was looked at.
EndIfErrExit(r, st) ==
  IF ~Ok(r.exit) /\ "e" \in r.opts /\ ~r.noErrExit /\ ~IsAndOr(st.cmd)
  THEN [r EXCEPT !.exit.exiting = TRUE] ELSE r

\* Slip: what was redirected stays so when the command failed.
RestoreIfOk(r, q) ==
  IF ~Ok(q.exit) THEN q
  ELSE [q EXCEPT !.stdin = r.stdin, !.stdout = r.stdout, !.stderr = r.stderr]

RestoreStdIO(r, q) == [q EXCEPT !.stdin = r.stdin, !.stdout = r.stdout, !.stderr = r.stderr]

StmtSync(r, st) ==
  LET q == Redirected(r, st.redirs)
      c == IF Ok(q.exit) /\ st.cmd # Nil THEN RunCmd(q, st.cmd) ELSE q
      n == IF st.negated
           THEN [c EXCEPT !.exit = IF Ok(c.exit) THEN [@ EXCEPT !.code = 1] ELSE Clear(@)]
           ELSE EndIfErrExit(c, st)
  IN RestoreStdIO(r, n)

RunStmt(r, st) ==
  LET q == Stop(r)
      s == StmtSync([q EXCEPT !.exit = Success], st)
  IN IF q.val THEN q ELSE [s EXCEPT !.lastExit = s.exit]
-----------------------------------------------------------------------------
(* Commands.                                                               *)

\* Slip: the subshell is the shell itself.
InSubshellIsShell(r, stmts) ==
  LET q == RunStmts(r, stmts) IN [q EXCEPT !.exit.exiting = FALSE]

\* The status it ends with is the command's; its exit ends nobody else.
InSubshell(r, stmts) ==
  LET r2 == RunStmts(SubshellOf(r, FALSE), stmts)
  IN [Leave(r, r2) EXCEPT !.exit = [r2.exit EXCEPT !.exiting = FALSE]]

NoErrExit(r, stmts) ==
  [RunStmts([r EXCEPT !.noErrExit = TRUE], stmts) EXCEPT !.noErrExit = r.noErrExit]

RunAndOr(r, b) ==
  LET x == NoErrExit(r, <<b.x>>)
  IN IF Ok(x.exit) = (b.op = "&&") THEN RunStmt(x, b.y) ELSE x

Pipe(r, b) ==
  LET sub   == WritesTo(SubshellOf(r, TRUE), "stdout", "buffer", NoHandle)
      left  == RunStmt(sub, b.x)
      exit2 == [left.exit EXCEPT !.exiting = FALSE]
      right == RunStmt(ReadsFrom(Leave(r, left), left.sinks[sub.stdout].data), b.y)
      exit  == IF "pipefail" \in right.opts /\ ~Ok(exit2) /\ Ok(right.exit)
               THEN exit2 ELSE right.exit
  IN [right EXCEPT !.exit = IF exit2.fatal THEN Fatal(exit, exit2.error) ELSE exit]

RunIf(r, c) ==
  LET cond == NoErrExit(r, c.cond)
      else == [cond EXCEPT !.exit = Clear(@)]
  IN IF Ok(cond.exit) THEN RunStmts(cond, c.then)
     ELSE IF c.else = Nil THEN else ELSE RunCmd(else, c.else)

\* The body of a loop, once; val is whether the loop is left.
LoopStmtsBroken(r, stmts) ==
  LET step(q, stmt) ==
        LET s == RunStmt(q, stmt) IN
        IF q.val # "on" THEN q
        ELSE IF s.contnEnclosing > 0
        THEN [s EXCEPT !.contnEnclosing = @ - 1,
                       !.val = IF s.contnEnclosing > 1 THEN "left" ELSE "again"]
        ELSE IF s.breakEnclosing > 0
        THEN [s EXCEPT !.breakEnclosing = @ - 1, !.val = "left"]
        ELSE [s EXCEPT !.val = "on"]
      end == FoldLeft(step, [r EXCEPT !.inLoop = TRUE, !.val = "on"], stmts)
  IN [end EXCEPT !.inLoop = r.inLoop, !.val = (end.val = "left")]

WhileLoop(r, loop) ==
  LET q    == Stop(r)
      cond == NoErrExit(q, loop.cond)
      done == Ok(cond.exit) = loop.until
      body == LoopStmtsBroken([cond EXCEPT !.exit = Clear(@)], loop.do)
  IN IF q.val THEN q
     ELSE IF done THEN [cond EXCEPT !.exit = Clear(@)]
     ELSE IF body.val THEN body ELSE WhileLoop(body, loop)

\* Without "in" the items are those of the parameters at the time, in the
\* array they are in, which the body may write to.
ForLoop(r, loop) ==
  LET name   == loop.name.value[1]
      fields == ToFields(r, loop.items)
      q      == IF loop.in THEN NewSlice(fields, fields.val) ELSE r
      items  == IF loop.in THEN [array |-> Len(q.arrays), from |-> 0] ELSE r.params
      step(s, i) ==
        IF s.val THEN s
        ELSE LoopStmtsBroken(SetVarString(s, name, Slice(s, items)[i]), loop.do)
  IN FoldLeft(step, [q EXCEPT !.val = FALSE], [i \in DOMAIN Slice(q, items) |-> i])

\* One pattern of a case: a pattern that is none matches nothing.
Match(r, pat, str) ==
  IF E!CompilePattern(pat, FALSE).err = "panic" THEN Panic([r EXCEPT !.val = FALSE])
  ELSE [r EXCEPT !.val = E!Matches(pat, str, FALSE)]

RunCase(r, c) ==
  LET word == ToLiteral(r, c.word)
      step(q, item) ==
        LET tried(s, pattern) ==
              LET p == ToPattern(s, pattern)
              IN IF s.val THEN s ELSE Match(p, p.val, word.val)
            m == FoldLeft(tried, q.r, item.patterns)
        IN IF q.done THEN q
           ELSE IF m.val THEN [done |-> TRUE, r |-> RunStmts(m, item.stmts)]
           ELSE [done |-> FALSE, r |-> m]
  IN FoldLeft(step, [done |-> FALSE, r |-> [word EXCEPT !.val = FALSE]], c.items).r

\* An assignment by itself keeps the flags of the variable.
Assigned(r, as) ==
  LET q == ToLiteral(r, as.value)
  IN SetVar(q, as.name, [LookupVar(r, as.name) EXCEPT !.set = TRUE, !.str = q.val])

\* Slip: a variable is taken back to what it was when the last was set.
RestoreVarsOnly(r, restores) == r

\* In the order they were set: a variable set twice keeps its first new value.
RestoreVars(r, restores) ==
  FoldLeft(LAMBDA q, v : SetVar(q, v.name, v.vr), r, restores)

\* The assignments before a command: exported, and taken back after it.
Inline(r, assigns) ==
  FoldLeft(LAMBDA q, as :
             LET s == ToLiteral(q.r, as.value)
                 prev == LookupVar(q.r, as.name)
                 vr == [prev EXCEPT !.set = TRUE, !.str = s.val, !.exported = TRUE]
             IN [r |-> SetVar(s, as.name, vr),
                 restores |-> Append(q.restores, [name |-> as.name, vr |-> prev])],
           [r |-> r, restores |-> <<>>], assigns)

CallExpr(r, c) ==
  LET q      == ToFields([r EXCEPT !.lastExpandExit = Success], c.args)
      naked  == FoldLeft(Assigned, q, c.assigns)
      inline == Inline(q, c.assigns)
  IN IF q.val = <<>>
     THEN IF Ok(naked.exit) THEN [naked EXCEPT !.exit = naked.lastExpandExit] ELSE naked
     ELSE RestoreVars(RunCall(inline.r, q.val, FALSE), inline.restores)

RunCmd(r, cmd) ==
  LET q == Stop(r) IN
  IF q.val THEN q
  ELSE CASE cmd.type = "Block"    -> RunStmts(q, cmd.stmts)
         [] cmd.type = "Subshell" -> InSubshell(q, cmd.stmts)
         [] cmd.type = "Call"     -> CallExpr(q, cmd)
         [] cmd.type = "Binary"   -> IF IsAndOr(cmd) THEN RunAndOr(q, cmd) ELSE Pipe(q, cmd)
         [] cmd.type = "If"       -> RunIf(q, cmd)
         [] cmd.type = "While"    -> WhileLoop(q, cmd)
         [] cmd.type = "For"      -> ForLoop(q, cmd)
         [] cmd.type = "Case"     -> RunCase(q, cmd)
         [] cmd.type = "Func"     -> SetFunc(q, cmd.name, cmd.body)

\* "$(<file)" by itself.
CatShortcut(stmts) ==
  /\ Len(stmts) = 1 /\ stmts[1].cmd = Nil /\ ~stmts[1].negated
  /\ Len(stmts[1].redirs) = 1 /\ stmts[1].redirs[1].op = "<"

\* What a command substitution writes; an error that ends its shell is one of
\* the expansion here.
Output(r, stmts) ==
  LET q      == ToLiteral(r, stmts[1].redirs[1].word)
      opened == OpenFile(q, q.val, {})
      sub    == WritesTo(SubshellOf(r, FALSE), "stdout", "buffer", NoHandle)
      r2     == RunStmts(sub, stmts)
      exit   == [r2.exit EXCEPT !.exiting = FALSE]
      after  == [Leave(r, r2) EXCEPT !.lastExpandExit = exit]
  IN IF stmts = <<>> THEN E!Answer(r, <<>>)
     ELSE IF CatShortcut(stmts)
     THEN IF opened.err # "" THEN E!Refuse(Complain(q), "other")
          ELSE E!Answer([q EXCEPT !.fs = opened.fs], DataOf(opened.fs, opened.handle))
     ELSE IF exit.fatal THEN E!Refuse(after, "other")
     ELSE E!Answer(after, r2.sinks[sub.stdout].data)
-----------------------------------------------------------------------------
(* Builtins.                                                               *)

Exits(r, exit)  == E!Answer(r, exit)
Usage(r, code)  == E!Answer(Complain(r), Status(code))
Starts(s, with) == Len(s) >= 1 /\ s[1] = with

\* The flags of one argument, in order, up to one that is none: the options
\* before that one are changed.
Flags == DOMAIN E!Option \cup {"x"}
SetFlag(r, enable, flag) == [r EXCEPT !.opts = IF enable THEN @ \cup {flag} ELSE @ \ {flag}]
SetNamed(r, enable, name) ==
  LET flag == E!OptionNamed(E!Spelling(name)) IN
  IF flag = {} THEN [r EXCEPT !.err = "other"]
  ELSE SetFlag(r, enable, CHOOSE f \in flag : TRUE)

\* err is set by an option there is not.
RECURSIVE SetOptions(_, _)
SetOptions(r, args) ==
  LET arg    == args[1]
      enable == Starts(arg, "-")
      flags  == FlattenSeq([i \in 1..(Len(arg) - 1) |-> Chars(arg[i + 1])])
      names  == {i \in DOMAIN flags : flags[i] = "o"}
      at     == IF names = {} THEN Len(flags) + 1 ELSE CHOOSE i \in names : \A j \in names : i <= j
      plain  == FoldLeft(LAMBDA q, flag :
                           IF q.err # "" THEN q
                           ELSE IF flag \in Flags THEN SetFlag(q, enable, flag)
                           ELSE [q EXCEPT !.err = "other"],
                         r, SubSeq(flags, 1, at - 1))
      named  == SubSeq(flags, at + 1, Len(flags))
  IN IF args = <<>> THEN r
     ELSE IF arg = <<"-", "-">> THEN WithParams(r, Tail(args))
     ELSE IF arg = <<"-">>
     THEN IF Len(args) > 1 THEN WithParams(r, Tail(args)) ELSE r
     ELSE IF Len(flags) = 0 \/ ~(enable \/ Starts(arg, "+")) THEN WithParams(r, args)
     ELSE IF plain.err # "" THEN plain
     ELSE IF names = {} THEN SetOptions(plain, Tail(args))
     ELSE IF named # <<>>
     THEN LET q == SetNamed(plain, enable, named)
          IN IF q.err # "" THEN q ELSE SetOptions(q, Tail(args))
     ELSE IF Len(args) = 1 THEN Out(plain, Append(Diagnostic, "nl"))
     ELSE LET q == SetNamed(plain, enable, args[2])
          IN IF q.err # "" THEN q ELSE SetOptions(q, Tail(Tail(args)))

\* The expansion takes the options over only when all of them were good.
BuiltinSet(r, args) ==
  LET q == SetOptions([r EXCEPT !.err = ""], args)
  IN IF q.err # "" THEN Usage([q EXCEPT !.err = ""], 2)
     ELSE Exits([q EXCEPT !.ecfg = q.opts], Success)

BuiltinShift(r, args) ==
  LET n == IF args = <<>> THEN 1 ELSE IntOf(args[1]) IN
  IF Len(args) > 1 \/ (Len(args) = 1 /\ ~IsInt(args[1])) THEN Usage(r, 2)
  ELSE IF n >= Len(Params(r))
  THEN Exits([r EXCEPT !.params = [array |-> 1, from |-> 0]], Success)
  ELSE IF n < 0 THEN Panic(Exits(r, Success))
  ELSE Exits([r EXCEPT !.params.from = @ + n], Success)

BuiltinUnset(r, args) ==
  LET option(arg) == arg \in {<<"-", "v">>, <<"-", "f">>}
      first  == {i \in DOMAIN args : ~option(args[i])}
      at     == IF first = {} THEN Len(args) + 1 ELSE CHOOSE i \in first : \A j \in first : i <= j
      given  == {args[i] : i \in 1..(at - 1)}
      names  == IF first = {} THEN args ELSE SubSeq(args, at, Len(args))
      vars   == <<"-", "f">> \notin given
      funcs  == <<"-", "v">> \notin given
      unset(q, name) ==
        IF q.dead THEN q
        ELSE IF vars /\ LookupPanics(name) THEN Panic(q)
        ELSE IF vars /\ LookupVar(q, E!Spelling(name)).set
        THEN [q EXCEPT !.scopes = EnvSet(@, E!Spelling(name), Unset)]
        ELSE IF funcs THEN [q EXCEPT !.funcs = [f \in DOMAIN @ \ {name} |-> @[f]]]
        ELSE q
  IN Exits(FoldLeft(unset, r, names), Success)

BuiltinEcho(r, args) ==
  LET options == {<<"-", "n">>, <<"-", "e">>, <<"-", "E">>}
      first   == {i \in DOMAIN args : args[i] \notin options}
      at      == IF first = {} THEN Len(args) + 1 ELSE CHOOSE i \in first : \A j \in first : i <= j
      given   == {args[i] : i \in 1..(at - 1)}
      text(s) == IF <<"-", "e">> \in given THEN E!Format(s, <<>>, FALSE).out ELSE s
      shown   == [i \in 1..(Len(args) - at + 1) |-> text(args[at + i - 1])]
  IN Exits(Out(r, Joined(shown, <<" ">>)
                  \o IF <<"-", "n">> \in given THEN <<>> ELSE <<"nl">>), Success)

\* The format is used again as long as it takes arguments and there are some.
RECURSIVE Printf(_, _, _)
Printf(r, format, args) ==
  LET f == E!Format(format, args, TRUE)
      rest == SubSeq(args, f.used + 1, Len(args))
      q == Out(r, f.out)
  IN IF f.err # "" THEN Usage(r, 1)
     ELSE IF f.used = 0 \/ rest = <<>> THEN Exits(q, Success) ELSE Printf(q, format, rest)

\* Outside of a loop it is a message and no failure.
BuiltinBreak(r, field, args) ==
  LET n == IF args = <<>> THEN 1 ELSE IntOf(args[1]) IN
  IF ~r.inLoop THEN Usage(r, 0)
  ELSE IF Len(args) > 1 \/ (Len(args) = 1 /\ ~IsInt(args[1])) THEN Usage(r, 2)
  ELSE Exits([r EXCEPT ![field] = n], Success)

BuiltinPwd(r, args) ==
  LET pwd  == EnvGet(r.scopes, "PWD").str
      real == FS!EvalSymlinks(r.fs, PathOf(pwd))
  IN IF Range(args) \ {<<"-", "L">>, <<"-", "P">>} # {} THEN Usage(r, 2)
     ELSE IF args = <<>> \/ Last(args) = <<"-", "L">>
     THEN Exits(Out(r, Append(pwd, "nl")), Success)
     ELSE IF real.err # "" THEN Exits(r, Fatal(Success, "handler"))
     ELSE Exits(Out(r, Append(SpelledPath(real.path), "nl")), Success)

ChangeDir(r, path) ==
  LET p   == FS!ResolvePath(r.dir, PathOf(path))
      old == EnvGet(r.scopes, "PWD").str
      q   == SetVarString([r EXCEPT !.dir = p.path], "OLDPWD", old)
  IN IF p.err # "" \/ E!KindOf(r, path) # "directory" THEN Usage(r, 1)
     ELSE IF ~FS!Access(r.fs, PathTo(p.path), {"x"}) THEN Usage(r, 1)
     ELSE Exits(SetVarString(q, "PWD", SpelledPath(p.path)), Success)

BuiltinCd(r, args) ==
  LET old == EnvGet(r.scopes, "OLDPWD").str IN
  CASE args = <<>> -> ChangeDir(r, EnvGet(r.scopes, "HOME").str)
    [] args = << <<"-">> >> -> ChangeDir(Out(r, Append(old, "nl")), old)
    [] Len(args) = 1 /\ args[1] # <<"-">> -> ChangeDir(r, args[1])
    [] OTHER -> Usage(r, 2)

allowedBuiltins == {":", "[", "break", "continue", "true", "false", "echo", "printf",
                    "pwd", "cd", "set", "shift", "test", "unset", "exit"}
\* Those of the other builtins looked at here; exit is disabled by the agent.
Blocked == {"exit", "eval", "exec", "export", "read", "return", "trap", "wait", "."}

Builtin(r, name, args) ==
  CASE name \in {":", "true"} -> Exits(r, Success)
    [] name = "false"    -> Exits(r, Status(1))
    [] name = "set"      -> BuiltinSet(r, args)
    [] name = "shift"    -> BuiltinShift(r, args)
    [] name = "unset"    -> BuiltinUnset(r, args)
    [] name = "echo"     -> BuiltinEcho(r, args)
    [] name = "printf"   -> IF args = <<>> THEN Usage(r, 2)
                            ELSE Printf(r, args[1], Tail(args))
    [] name = "break"    -> BuiltinBreak(r, "breakEnclosing", args)
    [] name = "continue" -> BuiltinBreak(r, "contnEnclosing", args)
    [] name = "pwd"      -> BuiltinPwd(r, args)
    [] name = "cd"       -> BuiltinCd(r, args)
    [] name = "test"     -> E!Test(r, args)
    [] name = "["        -> IF args = <<>> \/ Last(args) # <<"]">> THEN Usage(r, 2)
                            ELSE E!Test(r, Front(args))
-----------------------------------------------------------------------------
(* Calls.                                                                  *)

\* What an exec handler returns: nil, an exit status, or an error that halts.
HandledOk(r)        == r
HandledStatus(r, n) == IF n = 0 THEN r ELSE [r EXCEPT !.exit.code = n]
HandledError(r)     == [r EXCEPT !.exit = Fatal(@, "handler"), !.broken = TRUE]

\* A function gets the arguments as parameters and no variables of its own.
RunFunction(r, f, args) ==
  LET q == RunStmt([WithParams(r, args) EXCEPT !.inFunc = TRUE, !.bodies = f.bodies], f.body)
  IN [q EXCEPT !.params = r.params, !.inFunc = r.inFunc, !.bodies = r.bodies]

\* An error of a core utility is no exit status.
Cat(r, args) ==
  LET files == SelectSeq(args, LAMBDA arg : arg # <<"-", "u">>)
      stdin(q) == IF q.stdin = 0 THEN q
                  ELSE [Out(q, q.inputs[q.stdin]) EXCEPT !.inputs[q.stdin] = <<>>]
      one(q, file) ==
        LET p == FS!ResolvePath(q.dir, PathOf(file))
            opened == FS!Open(q.fs, PathTo(p.path))
        IN IF q.exit.fatal THEN q
           ELSE IF file = <<"-">> THEN stdin(q)
           ELSE IF file = DevNull THEN q
           ELSE IF p.err # "" \/ opened.err # "" \/ opened.handle.kind # "regular"
           THEN HandledError(q)
           ELSE Out(q, DataOf(opened.fs, opened.handle))
  IN IF files = <<>> THEN stdin(r) ELSE FoldLeft(one, r, files)

\* The variables a new shell starts with: those every overlay exports, the
\* inner ones last.
ChildEnv(r) ==
  LET own == {"PWD", "TMPDIR", "UID", "EUID", "GID"}
      exported(scope) == [n \in {n \in DOMAIN scope \ own : scope[n].set /\ scope[n].exported}
                            |-> scope[n]]
  IN FoldLeft(LAMBDA env, scope : exported(scope) @@ env,
              BaseEnv(SpelledPath(r.dir)), r.scopes)

RunFile(r, file) ==
  RunStmts([r EXCEPT !.exit = Success, !.ecfg = r.opts, !.err = "", !.bodies = file.bodies],
           file.stmts)

\* The program of a new shell and its parameters, or the status of an error.
ShellProgram(r, args) ==
  LET stdin == [err |-> 0, data |-> IF r.stdin = 0 THEN <<>> ELSE r.inputs[r.stdin],
                read |-> TRUE, params |-> <<>>]
      error(code) == [err |-> code, data |-> <<>>, read |-> FALSE, params |-> <<>>]
      text(data, params) == [err |-> 0, data |-> data, read |-> FALSE, params |-> params]
      file(path, params) ==
        LET p == FS!ResolvePath(r.dir, PathOf(path))
            opened == FS!Open(r.fs, PathTo(p.path))
        IN IF p.err # "" \/ opened.err # "" THEN error(1)
           ELSE IF opened.handle.kind # "regular" THEN error(2)
           ELSE text(DataOf(opened.fs, opened.handle), params)
  IN IF args = <<>> THEN stdin
     ELSE CASE args[1] = <<"-", "c">> ->
                 IF Len(args) < 2 THEN error(2)
                 ELSE text(args[2], SubSeq(args, 4, Len(args)))
            [] args[1] \in {<<"-">>, <<"-", "s">>} -> [stdin EXCEPT !.params = Tail(args)]
            [] args[1] = <<"-", "-">> ->
                 IF Len(args) = 1 THEN stdin ELSE file(args[2], Tail(Tail(args)))
            [] args[1] \notin {<<"-">>, <<"-", "c">>, <<"-", "s">>, <<"-", "-">>} ->
                 IF Starts(args[1], "-") THEN error(2) ELSE file(args[1], Tail(args))

SandboxShell(r, args) ==
  LET program == ShellProgram(r, args)
      read    == IF program.read /\ r.stdin # 0 THEN [r EXCEPT !.inputs[r.stdin] = <<>>] ELSE r
      file    == Parse(program.data)
      child   == WithParams(ResetRunner(read, r.dir, ChildEnv(r)), program.params)
      ran     == RunFile(child, file)
      back    == Leave(r, ran)
  IN IF program.err # 0 THEN HandledStatus(Complain(r), program.err)
     ELSE IF file.err THEN HandledStatus(Complain(read), 2)
     ELSE IF ~ValidateProgram(file) THEN HandledStatus(Complain(read), 1)
     ELSE IF ran.exit.fatal THEN [back EXCEPT !.exit = Fatal(@, ran.exit.error)]
     ELSE HandledStatus(back, ran.exit.code)

\* "command": the call without functions, or what a name stands for.
SandboxCommand(r, args) ==
  LET first  == {i \in DOMAIN args : ~Starts(args[i], "-") \/ args[i] \in {<<"-">>, <<"-", "-">>}}
      at     == IF first = {} THEN Len(args) + 1 ELSE CHOOSE i \in first : \A j \in first : i <= j
      given  == UNION {Range(FlattenSeq([k \in 1..(Len(args[i]) - 1) |-> Chars(args[i][k + 1])]))
                       : i \in 1..(at - 1)}
      names  == IF at <= Len(args) /\ args[at] = <<"-", "-">>
                THEN SubSeq(args, at + 1, Len(args)) ELSE SubSeq(args, at, Len(args))
      known(name) == \/ IsKeyword(name) \/ name \in DOMAIN r.funcs
                     \/ E!Spelling(name) \in allowedBuiltins \cup {"cat", "sh"}
      shown  == FoldLeft(LAMBDA q, name :
                           IF known(name)
                           THEN Out(q, IF "V" \in given THEN Append(Diagnostic, "nl")
                                       ELSE Append(name, "nl"))
                           ELSE q, r, names)
  IN IF given \ {"p", "v", "V"} # {} THEN HandledStatus(Complain(r), 2)
     ELSE IF names = <<>> THEN HandledOk(r)
     ELSE IF "p" \in given THEN HandledStatus(Complain(r), 1)
     ELSE IF {"v", "V"} \cap given = {} THEN RunCall(r, names, TRUE)
     ELSE HandledStatus(shown, IF known(Last(names)) THEN 0 ELSE 1)

Exec(r, name, args) ==
  CASE name = "command" -> SandboxCommand(r, args)
    [] name = "sh"      -> SandboxShell(r, args)
    [] name = "cat"     -> Cat(r, args)
    [] OTHER            -> HandledStatus(Complain(r), 126)

\* The sandbox looks at the name first: "command" is its own, and a builtin it
\* does not allow becomes "false", which a function may be named.
RunCall(r, args, suppressFunctions) ==
  LET q       == Stop(r)
      blocked == E!Spelling(args[1]) \in Blocked
      words   == IF blocked THEN << <<"false">> >> ELSE args
      s       == IF blocked THEN Complain(q) ELSE q
      name    == E!Spelling(words[1])
      b       == Builtin(s, name, Tail(words))
  IN IF q.val THEN q
     ELSE IF ~suppressFunctions /\ name # "command" /\ words[1] \in DOMAIN s.funcs
     THEN RunFunction(s, s.funcs[words[1]], Tail(words))
     ELSE IF name \in allowedBuiltins THEN [b EXCEPT !.exit = b.val]
     ELSE Exec(s, name, Tail(words))
=============================================================================
