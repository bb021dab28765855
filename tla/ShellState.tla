----------------------------- MODULE ShellState -----------------------------
(***************************************************************************)
(* The state of the shell interpreter (pkg/sh/interp: Runner in api.go,    *)
(* vars.go), as one record that every operator of the interpreter takes    *)
(* and returns changed.  A string is a sequence of lexemes, one for each   *)
(* character the program tells apart; the text of a message is left out.   *)
(*                                                                         *)
(* Shared by a shell and its subshells:                                    *)
(*   fs       the file system                                              *)
(*   arrays   the arrays behind the slices of parameters; a slice is       *)
(*            [array, from] and array 1 is the empty one                   *)
(*   sinks    what a standard output or error can be, inputs what a        *)
(*            standard input can be: the text still to be read             *)
(*   fuel     how many checks of the context are left until it has ended   *)
(*   dead     a panic ended the process: nothing recovers from one         *)
(*   broken   whether a core utility returned an error; no part of the code *)
(* The shell's own, with the names of the struct:                          *)
(*   scopes   the overlays of the environment, the shell's own one last    *)
(*   dir, params, funcs, opts, ecfg, ifs, exit, lastExit, lastExpandExit,  *)
(*   inLoop, inFunc, noErrExit, breakEnclosing, contnEnclosing, stdin,     *)
(*   stdout, stderr (0: none), and bodies, the here-documents of the file  *)
(* Answers: val, what the last operator returned, and err, its error.      *)
(***************************************************************************)
EXTENDS ShellParser, Functions

CONSTANT Root   \* where the agent's file system is rooted

FS == INSTANCE MemFS

Diagnostic == <<"msg">>

\* A string whose characters are letters, as one name and back.
Name(s)  == FoldLeft(LAMBDA name, l : name \o l, "", s)
Chars(n) == [i \in 1..Len(n) |-> SubSeq(n, i, i)]

Pieces(s, sep) ==
  FoldLeft(LAMBDA ps, l : IF l = sep THEN Append(ps, <<>>)
                          ELSE Append(Front(ps), Append(Last(ps), l)),
           << <<>> >>, s)
Joined(strs, sep) ==
  FlattenSeq([i \in DOMAIN strs |-> IF i = 1 THEN strs[i] ELSE sep \o strs[i]])

PathOf(s) ==
  [abs |-> s # <<>> /\ s[1] = "/",
   parts |-> SelectSeq([i \in DOMAIN Pieces(s, "/") |-> Name(Pieces(s, "/")[i])],
                       LAMBDA part : part # "")]
SpelledPath(path) ==
  IF path = <<>> THEN <<"/">>
  ELSE FlattenSeq([i \in DOMAIN path |-> <<"/">> \o Chars(path[i])])
PathTo(path) == [abs |-> TRUE, parts |-> path]
DevNull == <<"/", "dev", "/", "null">>
-----------------------------------------------------------------------------
(* Exit statuses.                                                          *)

\* error is what made an exit fatal: "" (it is not), "context" or "handler".
Success == [code |-> 0, exiting |-> FALSE, fatal |-> FALSE, error |-> ""]
Status(code) == [Success EXCEPT !.code = code]

Ok(exit) == exit.code = 0

Clear(exit) == IF exit.exiting \/ exit.fatal THEN exit ELSE [exit EXCEPT !.code = 0]

Fatal(exit, error) ==
  IF exit.fatal THEN exit
  ELSE [code |-> IF exit.code = 0 THEN 1 ELSE exit.code,
        exiting |-> TRUE, fatal |-> TRUE, error |-> error]

Failed(r, code) == [r EXCEPT !.exit.code = code]
Panic(r) == [r EXCEPT !.dead = TRUE]
-----------------------------------------------------------------------------
(* Standard streams.                                                       *)

WriteTo(r, sink, s) ==
  IF sink = 0 \/ s = <<>> THEN r
  ELSE LET to == r.sinks[sink] IN
       IF to.kind = "buffer" THEN [r EXCEPT !.sinks[sink].data = @ \o s]
       ELSE LET w == FS!Write(r.fs, to.handle, s)
            IN [r EXCEPT !.fs = w.fs, !.sinks[sink].handle = w.handle]

Out(r, s)  == WriteTo(r, r.stdout, s)
Complain(r) == WriteTo(r, r.stderr, Append(Diagnostic, "nl"))

NoHandle == FS!Handle("none", 0, {}, FALSE, 0)
NewSink(r, kind, handle) ==
  [r EXCEPT !.sinks = Append(@, [kind |-> kind, data |-> <<>>, handle |-> handle])]
NewInput(r, data) == [r EXCEPT !.inputs = Append(@, data)]
-----------------------------------------------------------------------------
(* Variables.                                                              *)

Unset == [set |-> FALSE, str |-> <<>>, exported |-> FALSE]
StringVar(s) == [Unset EXCEPT !.set = TRUE, !.str = s]

\* The innermost overlay that has the name; no variable is read-only or local.
EnvGet(scopes, name) ==
  LET having == {i \in DOMAIN scopes : name \in DOMAIN scopes[i]} IN
  IF having = {} THEN Unset
  ELSE scopes[CHOOSE i \in having : \A j \in having : j <= i][name]

EnvSet(scopes, name, vr) == [scopes EXCEPT ![Len(scopes)] = (name :> vr) @@ @]

\* Every variable, the outer overlays first.
EnvEach(scopes) == FoldLeft(LAMBDA all, scope : scope @@ all, <<>>, scopes)

Slice(r, at) == SubSeq(r.arrays[at.array], at.from + 1, Len(r.arrays[at.array]))
Params(r)    == Slice(r, r.params)
NewSlice(r, strs) == [r EXCEPT !.arrays = Append(@, strs)]
WithParams(r, strs) ==
  LET s == NewSlice(r, strs)
  IN [s EXCEPT !.params = [array |-> Len(s.arrays), from |-> 0]]

Digit(n) == <<"0", "1", "2", "3", "4", "5", "6", "7", "8", "9">>[n + 1]
Digits   == {Digit(n) : n \in 0..9}
ValueOf(digit) == CHOOSE n \in 0..9 : Digit(n) = digit

RECURSIVE Itoa(_)
Itoa(n) ==
  IF n < 0 THEN <<"-">> \o Itoa(-n)
  ELSE IF n < 10 THEN <<Digit(n)>> ELSE Append(Itoa(n \div 10), Digit(n % 10))

\* What ParseInt makes of the string, 0 of one that is no number.
IsInt(s) ==
  LET digits == IF s # <<>> /\ s[1] \in {"-", "+"} THEN Tail(s) ELSE s
  IN digits # <<>> /\ Range(digits) \subseteq Digits
IntOf(s) ==
  LET digits == IF s[1] \in {"-", "+"} THEN Tail(s) ELSE s
      n == FoldLeft(LAMBDA v, d : 10 * v + ValueOf(d), 0, digits)
  IN IF s[1] = "-" THEN -n ELSE n

Blank == {" ", "tab", "nl"}
RECURSIVE TrimLeft(_, _), TrimRight(_, _)
TrimLeft(s, set)  == IF s # <<>> /\ s[1] \in set THEN TrimLeft(Tail(s), set) ELSE s
TrimRight(s, set) == IF s # <<>> /\ Last(s) \in set THEN TrimRight(Front(s), set) ELSE s
Atoi(s) ==
  LET t == TrimLeft(TrimRight(s, Blank), Blank) IN IF IsInt(t) THEN IntOf(t) ELSE 0

\* A name is a lexeme.  A lookup of no name is a panic, see LookupPanics;
\* "@" and "*" are not looked up here, they are Params.  "$" and "!" are left out.
LookupVar(r, name) ==
  CASE name = "#" -> StringVar(Itoa(Len(Params(r))))
    [] name = "?" -> StringVar(Itoa(r.lastExit.code))
    [] name = "0" -> StringVar(<<"sh">>)
    [] name \in Digits \ {"0"} /\ ValueOf(name) <= Len(Params(r)) ->
         StringVar(Params(r)[ValueOf(name)])
    [] OTHER -> EnvGet(r.scopes, name)
LookupPanics(name) == name = <<>>

SetVar(r, name, vr) ==
  [r EXCEPT !.scopes = EnvSet(@, name,
     IF "a" \in r.opts THEN [vr EXCEPT !.exported = TRUE] ELSE vr)]
SetVarString(r, name, s) == SetVar(r, name, StringVar(s))

SetFunc(r, name, body) ==
  [r EXCEPT !.funcs = (name :> [body |-> body, bodies |-> r.bodies]) @@ @]
-----------------------------------------------------------------------------
(* Runners.                                                                *)

\* The variables of sandboxBaseEnvPairs that programs here look at.
BaseEnv(pwd) ==
  LET exported(s) == [StringVar(s) EXCEPT !.exported = TRUE]
  IN "HOME" :> exported(SpelledPath(Root)) @@ "PWD" :> exported(pwd)

ResetRunner(world, dir, env) ==
  [world EXCEPT
    !.dir = dir, !.params = [array |-> 1, from |-> 0], !.funcs = <<>>,
    !.opts = {}, !.ecfg = {}, !.exit = Success, !.lastExit = Success,
    !.lastExpandExit = Success, !.inLoop = FALSE, !.inFunc = FALSE,
    !.noErrExit = FALSE, !.breakEnclosing = 0, !.contnEnclosing = 0,
    !.scopes = << env, "PWD" :> StringVar(SpelledPath(dir)) @@
                       "IFS" :> StringVar(<<" ", "tab", "nl">>) >>]

\* What is the subshell's own goes, what is shared stays.
Leave(r, r2) ==
  [r EXCEPT !.fs = r2.fs, !.arrays = r2.arrays, !.sinks = r2.sinks,
            !.inputs = r2.inputs, !.fuel = r2.fuel, !.dead = r2.dead,
            !.broken = r2.broken]

\* Its overlay starts empty over the parent's, or as a copy of all it has; it
\* is in no loop and in no function, and its failures end it under errexit.
SubshellOf(r, background) ==
  [r EXCEPT !.scopes = IF background THEN <<EnvEach(@)>> ELSE Append(@, <<>>),
            !.noErrExit = FALSE, !.inLoop = FALSE, !.inFunc = FALSE,
            !.breakEnclosing = 0, !.contnEnclosing = 0,
            !.lastExpandExit = Success, !.ecfg = r.opts]

\* The check before every statement and command: of the exit, then of the
\* context, which has ended once the fuel is used up, then of noexec.
Stop(r) ==
  LET burnt == [r EXCEPT !.fuel = IF @ = 0 THEN 0 ELSE @ - 1]
      stop(s, b) == [s EXCEPT !.val = b]
  IN IF r.dead \/ r.exit.exiting THEN stop(r, TRUE)
     ELSE IF r.fuel = 0 THEN stop([r EXCEPT !.exit = Fatal(@, "context")], TRUE)
     ELSE stop(burnt, "n" \in r.opts)
=============================================================================
