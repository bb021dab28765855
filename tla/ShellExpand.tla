----------------------------- MODULE ShellExpand -----------------------------
(***************************************************************************)
(* The expansion of words (pkg/sh/expand): every operator takes the        *)
(* runner, and returns it with the answer in val and the error in err, ""  *)
(* or "unset" (UnsetParameterError) or "other".  After an error val does   *)
(* not matter.  Braces, ~user, $LINENO and the bash forms are left out.    *)
(***************************************************************************)
EXTENDS ShellState, ShellPattern, Bitwise

CONSTANT RunSubst(_, _)   \* the runner's: runs statements, answers their output

Answer(r, val) == [r EXCEPT !.val = val, !.err = ""]
Refuse(r, err) == [r EXCEPT !.err = err]

Prepare(r) ==
  LET ifs == EnvGet(r.scopes, "IFS")
  IN [r EXCEPT !.ifs = IF ifs.set THEN ifs.str ELSE <<" ", "tab", "nl">>, !.err = ""]

IfsJoin(r, strs) == Joined(strs, SubSeq(r.ifs, 1, IF r.ifs = <<>> THEN 0 ELSE 1))

FieldPart(val, quoted) == [val |-> val, quoted |-> quoted]
FieldJoin(parts) == FlattenSeq([i \in DOMAIN parts |-> parts[i].val])

ExpandUser(r, s, more) ==
  LET slashes == {i \in DOMAIN s : s[i] = "/"}
      home    == EnvGet(r.scopes, "HOME")
      tilde   == /\ s # <<>> /\ s[1] = "~" /\ (slashes # {} \/ ~more)
                 /\ (IF slashes = {} THEN Len(s) = 1 ELSE Min(slashes) = 2)
  IN IF tilde /\ home.set THEN [prefix |-> home.str, rest |-> Tail(s)]
     ELSE [prefix |-> <<>>, rest |-> s]

\* Backslashes that go: all of them, or those before a character of the set.
Unescape(s, all, set) ==
  FoldLeft(LAMBDA u, l :
             IF u.esc THEN [out |-> u.out \o (IF all \/ l \in set THEN <<l>> ELSE <<"bs", l>>),
                            esc |-> FALSE]
             ELSE IF l = "bs" THEN [u EXCEPT !.esc = TRUE]
             ELSE [u EXCEPT !.out = Append(@, l)],
           [out |-> <<>>, esc |-> FALSE], s)
Unescaped(s, all, set) ==
  LET u == Unescape(s, all, set) IN IF u.esc /\ ~all THEN Append(u.out, "bs") ELSE u.out
-----------------------------------------------------------------------------
RECURSIVE WordField(_, _, _), ParamValue(_, _), Arithm(_, _), PartValue(_, _)

LiteralOf(r, word) ==
  LET q == WordField(Prepare(r), word.parts, "none")
  IN IF word = Nil THEN Answer(r, <<>>)
     ELSE IF q.err # "" THEN q ELSE Answer(q, FieldJoin(q.val))

Document(r, word) ==
  LET q == WordField(Prepare(r), word.parts, "heredoc")
  IN IF q.err # "" THEN q ELSE Answer(q, FieldJoin(q.val))

PatternOf(r, word) ==
  LET q == WordField(Prepare(r), word.parts, "none")
      spelled(part) == IF part.quoted THEN QuoteMeta(part.val) ELSE part.val
  IN IF q.err # "" THEN q
     ELSE Answer(q, FlattenSeq([i \in DOMAIN q.val |-> spelled(q.val[i])]))

\* A part that is neither text nor quoted.
PartValue(r, part) ==
  CASE part.type = "ParamExp"  -> ParamValue(r, part)
    [] part.type = "CmdSubst"  ->
         LET q == RunSubst(r, part.stmts)
         IN IF q.err # "" THEN q ELSE Answer(q, TrimRight(q.val, {"nl"}))
    [] part.type = "ArithmExp" ->
         LET q == Arithm(r, part.x)
         IN IF q.err # "" THEN q ELSE Answer(q, Itoa(q.val))

\* One field: the value of an assignment, what stands in double quotes, a
\* here-document.  Outside of both the backslashes stay.
WordField(r, parts, ql) ==
  LET lit(q, i) ==
        LET s == parts[i].value
            user == ExpandUser(q, s, Len(parts) > 1)
        IN CASE ql = "double"  -> Unescaped(s, FALSE, {"bs", "$", "bq", "dq"})
             [] ql = "heredoc" -> Unescaped(s, FALSE, {"bs", "$", "bq"})
             [] OTHER -> IF i = 1 /\ user.prefix # <<>> THEN user.prefix \o user.rest ELSE s
      add(q, field) == [q EXCEPT !.val = field]
      step(acc, i) ==
        LET part == parts[i]
            dq   == WordField(acc, part.parts, "double")
            q    == PartValue(acc, part)
        IN IF acc.err # "" THEN acc
           ELSE CASE part.type = "Lit" ->
                       add(acc, Append(acc.val, FieldPart(lit(acc, i), FALSE)))
                  [] part.type = "SglQuoted" ->
                       add(acc, Append(acc.val, FieldPart(part.value, TRUE)))
                  [] part.type = "DblQuoted" ->
                       IF dq.err # "" THEN dq
                       ELSE add(dq, acc.val \o [j \in DOMAIN dq.val |->
                                                  FieldPart(dq.val[j].val, TRUE)])
                  [] OTHER ->
                       IF q.err # "" THEN q
                       ELSE add(q, Append(acc.val, FieldPart(q.val, FALSE)))
  IN FoldLeft(step, Answer(r, <<>>), [i \in DOMAIN parts |-> i])
-----------------------------------------------------------------------------
(* Parameters.                                                             *)

Overriding == {":+", "+", ":-", "-", ":?", "?", ":=", "="}
Removing   == {"#", "##", "%", "%%"}

\* What is left of each string; for "$@" it is written over the parameters.
RemoveFrom(r, strs, list, pat, op) ==
  LET left == [i \in DOMAIN strs |->
                 RemovePattern(strs[i], pat, op \in {"%", "%%"}, op \in {"#", "%"})]
      from == r.params.from
      over(array) == [i \in DOMAIN array |-> IF i > from THEN left[i - from] ELSE array[i]]
      q == IF list THEN [r EXCEPT !.arrays[r.params.array] = over(@)] ELSE r
  IN IF CompilePattern(pat, FALSE).err = "panic" /\ strs # <<>> THEN Panic(Answer(r, <<>>))
     ELSE Answer(q, Joined(left, <<" ">>))

\* ParamExp.word is expanded before it is known whether it is needed.
ParamValue(r, pe) ==
  LET list  == pe.param \in {"@", "*"}
      vr    == IF list THEN StringVar(<<>>) ELSE LookupVar(r, pe.param)
      strs  == IF list THEN Params(r) ELSE <<vr.str>>
      str   == Joined(strs, <<" ">>)
      q     == LiteralOf(r, pe.word)
      arg   == q.val
      keep  == Answer(q, str)
      unset == ~vr.set
      assigned == Answer(SetVarString(q, pe.param, arg), arg)
  IN IF "u" \in r.ecfg /\ unset /\ pe.op \notin Overriding THEN Refuse(r, "unset")
     ELSE IF pe.length THEN Answer(r, Itoa(IF list THEN Len(strs) ELSE Len(str)))
     ELSE IF pe.op = "" THEN Answer(r, str)
     ELSE IF q.err # "" THEN q
     ELSE CASE pe.op = ":+" -> IF str # <<>> THEN Answer(q, arg) ELSE keep
            [] pe.op = "+"  -> IF vr.set THEN Answer(q, arg) ELSE keep
            [] pe.op = ":-" -> IF str = <<>> THEN Answer(q, arg) ELSE keep
            [] pe.op = "-"  -> IF unset THEN Answer(q, arg) ELSE keep
            [] pe.op = ":?" -> IF str = <<>> THEN Refuse(q, "unset") ELSE keep
            [] pe.op = "?"  -> IF unset THEN Refuse(q, "unset") ELSE keep
            [] pe.op = ":=" -> IF str = <<>> THEN assigned ELSE keep
            [] pe.op = "="  -> IF unset THEN assigned ELSE keep
            [] pe.op \in Removing -> RemoveFrom(q, strs, list, arg, pe.op)
-----------------------------------------------------------------------------
(* Arithmetic.                                                             *)

Truth(b) == IF b THEN 1 ELSE 0
Quo(x, y) == LET q == (IF x < 0 THEN -x ELSE x) \div (IF y < 0 THEN -y ELSE y)
             IN IF (x < 0) # (y < 0) THEN -q ELSE q
Rem(x, y) == x - y * Quo(x, y)

Assigning == {"=", "+=", "-=", "*=", "/=", "%=", "&=", "|=", "^=", "<<=", ">>="}
Plain     == [op \in Assigning \ {"="} |->
                CASE op = "<<=" -> "<<" [] op = ">>=" -> ">>" [] OTHER -> SubSeq(op, 1, 1)]

\* The bit operators are for numbers that are not negative.
BinArit(r, op, x, y) ==
  CASE op \in {"/", "%"} /\ y = 0 -> Refuse(r, "other")
    [] op = "+"  -> Answer(r, x + y)
    [] op = "-"  -> Answer(r, x - y)
    [] op = "*"  -> Answer(r, x * y)
    [] op = "/" /\ y # 0 -> Answer(r, Quo(x, y))
    [] op = "%" /\ y # 0 -> Answer(r, Rem(x, y))
    [] op = "**" -> Answer(r, IF y < 0 THEN 1 ELSE x ^ y)
    [] op = "==" -> Answer(r, Truth(x = y))
    [] op = "!=" -> Answer(r, Truth(x # y))
    [] op = ">"  -> Answer(r, Truth(x > y))
    [] op = "<"  -> Answer(r, Truth(x < y))
    [] op = "<=" -> Answer(r, Truth(x <= y))
    [] op = ">=" -> Answer(r, Truth(x >= y))
    [] op = "&"  -> Answer(r, x & y)
    [] op = "|"  -> Answer(r, x | y)
    [] op = "^"  -> Answer(r, x ^^ y)
    [] op = "<<" -> Answer(r, IF y < 0 THEN 0 ELSE x * 2 ^ y)
    [] op = ">>" -> Answer(r, IF y < 0 THEN 0 ELSE x \div 2 ^ y)
    [] op = "&&" -> Answer(r, Truth(x # 0 /\ y # 0))
    [] op = "||" -> Answer(r, Truth(x # 0 \/ y # 0))
    [] op = ","  -> Answer(r, y)

\* A name stands for its value, and a value that is a name for that one's;
\* a hundred steps end a loop of names, which then is no number.
RECURSIVE Chased(_, _, _)
Chased(r, str, steps) ==
  IF ~ValidName(str) THEN str
  ELSE LET val == LookupVar(r, str[1]).str
       IN IF val = <<>> \/ steps = 99 THEN str ELSE Chased(r, val, steps + 1)

NameOf(word) == word.parts[1].value[1]

AssignArit(r, b) ==
  LET name == NameOf(b.x)
      old  == Atoi(LookupVar(r, name).str)
      q    == Arithm(r, b.y)
      n    == IF b.op = "=" THEN Answer(q, q.val) ELSE BinArit(q, Plain[b.op], old, q.val)
  IN IF q.err # "" THEN q ELSE IF n.err # "" THEN n
     ELSE Answer(SetVarString(n, name, Itoa(n.val)), n.val)

\* Both operands of "&&" and "||" are evaluated; "?" takes 1 for true only.
Arithm(r, x) ==
  CASE x.type = "Word" ->
         LET q == LiteralOf(r, x)
         IN IF q.err # "" THEN q ELSE Answer(q, Atoi(Chased(q, q.val, 0)))
    [] x.type = "ParenArithm" -> Arithm(r, x.x)
    [] x.type = "UnaryArithm" /\ x.op \in {"++", "--"} ->
         LET name == NameOf(x.x)
             old  == Atoi(LookupVar(r, name).str)
             new  == IF x.op = "++" THEN old + 1 ELSE old - 1
         IN Answer(SetVarString(r, name, Itoa(new)), IF x.post THEN old ELSE new)
    [] x.type = "UnaryArithm" /\ x.op \notin {"++", "--"} ->
         LET q == Arithm(r, x.x)
         IN IF q.err # "" THEN q
            ELSE Answer(q, CASE x.op = "!" -> Truth(q.val = 0)
                             [] x.op = "~" -> -q.val - 1
                             [] x.op = "+" -> q.val
                             [] x.op = "-" -> -q.val)
    [] x.type = "BinaryArithm" ->
         LET left  == Arithm(r, x.x)
             right == Arithm(left, x.y)
         IN IF x.op \in Assigning THEN AssignArit(r, x)
            ELSE IF left.err # "" THEN left
            ELSE IF x.op = "?"
            THEN Arithm(left, IF left.val = 1 THEN x.y.x ELSE x.y.y)
            ELSE IF right.err # "" THEN right
            ELSE BinArit(right, x.op, left.val, right.val)
-----------------------------------------------------------------------------
(* Fields.                                                                 *)

QuotedElemFields(r, pe) ==
  IF pe.param = "@" THEN Params(r) ELSE << IfsJoin(r, Params(r)) >>

\* What has been split so far: fields, the one that is open, and whether a
\* quoted part makes an empty one count.
NoFields == [fields |-> <<>>, cur |-> <<>>, empty |-> FALSE]
Flush(f) == IF f.cur = <<>> THEN f ELSE [f EXCEPT !.fields = Append(@, f.cur), !.cur = <<>>]
Add(f, val, quoted) == [f EXCEPT !.cur = Append(@, FieldPart(val, quoted))]

\* A run of text between separators ends up in one part.
SplitAdd(r, f, val) ==
  LET next(g, i) ==
        IF val[i] \in Range(r.ifs) THEN Flush(g)
        ELSE IF i > 1 /\ val[i - 1] \notin Range(r.ifs)
        THEN [g EXCEPT !.cur[Len(g.cur)].val = Append(@, val[i])]
        ELSE Add(g, <<val[i]>>, FALSE)
  IN FoldLeft(next, f, [i \in DOMAIN val |-> i])

WordFields(r, parts) ==
  LET step(acc, i) ==
        LET part == parts[i]
            f    == acc.val
            user == ExpandUser(acc, part.value, Len(parts) > 1)
            text == IF i = 1 THEN Add(f, user.prefix, TRUE) ELSE f
            lit  == IF i = 1 THEN user.rest ELSE part.value
            alone == part.parts # <<>> /\ Len(part.parts) = 1
                     /\ part.parts[1].type = "ParamExp" /\ ~part.parts[1].length
                     /\ part.parts[1].param \in {"@", "*"}
            elems == QuotedElemFields(acc, part.parts[1])
            dq   == WordField(acc, part.parts, "double")
            q    == PartValue(acc, part)
        IN IF acc.err # "" THEN acc
           ELSE CASE part.type = "Lit" -> Answer(acc, Add(text, Unescaped(lit, TRUE, {}), FALSE))
                  [] part.type = "SglQuoted" ->
                       Answer(acc, [Add(f, part.value, TRUE) EXCEPT !.empty = TRUE])
                  [] part.type = "DblQuoted" ->
                       IF alone
                       THEN Answer(acc, FoldLeft(LAMBDA g, j :
                                          Add(IF j = 1 THEN g ELSE Flush(g), elems[j], TRUE),
                                          f, [j \in DOMAIN elems |-> j]))
                       ELSE IF dq.err # "" THEN dq
                       ELSE Answer(dq, FoldLeft(LAMBDA g, p : Add(g, p.val, TRUE),
                                                [f EXCEPT !.empty = TRUE], dq.val))
                  [] part.type = "ArithmExp" ->
                       IF q.err # "" THEN q ELSE Answer(q, Add(f, q.val, FALSE))
                  [] OTHER -> IF q.err # "" THEN q ELSE Answer(q, SplitAdd(q, f, q.val))
      q == FoldLeft(step, Answer(r, NoFields), [i \in DOMAIN parts |-> i])
      f == Flush(q.val)
  IN IF q.err # "" THEN q
     ELSE Answer(q, IF f.empty /\ f.fields = <<>> THEN << <<>> >> ELSE f.fields)

EscapedGlobField(parts) ==
  [glob |-> \E i \in DOMAIN parts : ~parts[i].quoted /\ HasMeta(parts[i].val),
   pat |-> FlattenSeq([i \in DOMAIN parts |->
             IF parts[i].quoted THEN QuoteMeta(parts[i].val) ELSE parts[i].val])]

PathJoin2(dir, name) ==
  IF dir = <<>> THEN name
  ELSE IF Last(dir) = "/" THEN dir \o name ELSE dir \o <<"/">> \o name

Before(s, t) ==
  LET differ == {i \in DOMAIN s : i \in DOMAIN t /\ s[i] # t[i]}
  IN IF differ = {} THEN Len(s) < Len(t)
     ELSE Code(s[Min(differ)]) < Code(t[Min(differ)])
InOrder(strs) == SetToSortSeq(strs, Before)

ReadDir(r, path) ==
  LET p == FS!ResolvePath(r.dir, PathOf(path))
  IN IF p.err # "" THEN [err |-> p.err, names |-> {}] ELSE FS!ReadDir(r.fs, PathTo(p.path))

\* One element of the pattern after the other; base is $PWD.
Glob(r, base, pat) ==
  LET abs   == pat # <<>> /\ pat[1] = "/"
      parts == LET ps == Pieces(pat, "/") IN IF abs THEN Tail(ps) ELSE ps
      full(dir) == IF dir # <<>> /\ dir[1] = "/" THEN dir ELSE PathJoin2(base, dir)
      dirOnly(i) == i < Len(parts)
      there(dir, i) ==
        LET d == ReadDir(r, PathJoin2(full(dir), parts[i]))
        IN d.err # "notExist" /\ (d.err = "" \/ ~dirOnly(i))
      inside(dir, i) ==
        {n \in ReadDir(r, full(dir)).names :
           /\ Matches(parts[i], Chars(n), TRUE)
           /\ dirOnly(i) => ReadDir(r, PathJoin2(full(dir), Chars(n))).err = ""}
      step(acc, i) ==
        LET part == parts[i] IN
        IF acc.err # "" THEN acc
        ELSE IF part \in {<<>>, <<".">>, <<".", ".">>}
        THEN [acc EXCEPT !.dirs = {PathJoin2(d, part) : d \in acc.dirs}]
        ELSE IF ~HasMeta(part)
        THEN [acc EXCEPT !.dirs = {PathJoin2(d, part) : d \in {e \in acc.dirs : there(e, i)}}]
        ELSE IF CompilePattern(part, TRUE).err # ""
        THEN [acc EXCEPT !.err = CompilePattern(part, TRUE).err]
        ELSE IF \E d \in acc.dirs : ReadDir(r, full(d)).err # ""
        THEN [acc EXCEPT !.err = "other"]
        ELSE [acc EXCEPT !.dirs =
                UNION {{PathJoin2(d, Chars(n)) : n \in inside(d, i)} : d \in acc.dirs}]
  IN FoldLeft(step, [err |-> "", dirs |-> {IF abs THEN <<"/">> ELSE <<>>}],
              [i \in DOMAIN parts |-> i])

\* The fields of a word: those with a wildcard are the files they match, if
\* they match any and noglob is off.
GlobField(acc, base, parts) ==
  LET g == EscapedGlobField(parts)
      m == Glob(acc, base, g.pat)
      plain == [acc EXCEPT !.val = Append(@, FieldJoin(parts))]
  IN IF acc.err # "" \/ ~g.glob \/ "f" \in acc.ecfg THEN plain
     ELSE CASE m.err = "panic"  -> Panic(acc)
            [] m.err = "syntax" -> plain
            [] m.err = "other"  -> Refuse(acc, "other")
            [] m.err = "" /\ m.dirs = {} -> plain
            [] OTHER -> [acc EXCEPT !.val = @ \o InOrder(m.dirs)]

Fields(r, words) ==
  LET p == Prepare(r)
      base == EnvGet(p.scopes, "PWD").str
      step(acc, word) ==
        LET q == WordFields(acc, word.parts) IN
        IF acc.err # "" THEN acc
        ELSE IF q.err # "" THEN q
        ELSE FoldLeft(LAMBDA a, parts : GlobField(a, base, parts),
                      Answer(q, acc.val), q.val)
  IN FoldLeft(step, Answer(p, <<>>), words)

\* What printf makes of a format and its first arguments, and echo -e, without
\* any, of a string.  Widths and flags are left out, and of the verbs those
\* but %s, %b, %c, %d and %%.
Escaped == "a" :> "bell" @@ "n" :> "nl" @@ "t" :> "tab" @@ "bs" :> "bs" @@ "'" :> "'" @@
           "dq" :> "dq" @@ "?" :> "?"

RECURSIVE Format(_, _, _)
Format(format, args, verbs) ==
  LET start == [mode |-> "text", out |-> <<>>, used |-> 0, err |-> ""]
      write(f, s) == [f EXCEPT !.out = @ \o s, !.mode = "text"]
      arg(f) == IF f.used < Len(args) THEN args[f.used + 1] ELSE <<>>
      take(f) == [f EXCEPT !.used = IF @ < Len(args) THEN @ + 1 ELSE @]
      verb(f, l) ==
        CASE l = "%" -> write(f, <<"%">>)
          [] l = "s" -> write(take(f), arg(f))
          [] l = "c" -> write(take(f), IF arg(f) = <<>> THEN <<"nul">> ELSE <<arg(f)[1]>>)
          [] l = "b" -> write(take(f), Format(arg(f), <<>>, FALSE).out)
          [] l = "d" -> write(take(f), Itoa(IF IsInt(arg(f)) THEN IntOf(arg(f)) ELSE 0))
          [] OTHER   -> [f EXCEPT !.err = "other"]
      step(f, l) ==
        IF f.err # "" THEN f
        ELSE CASE f.mode = "escape" ->
                    [write(f, IF l \in DOMAIN Escaped THEN <<Escaped[l]>> ELSE <<"bs", l>>)
                       EXCEPT !.mode = f.back]
               [] f.mode \in {"text", "verb"} /\ l = "bs" ->
                    [mode |-> "escape", back |-> f.mode] @@ f
               [] f.mode = "verb" /\ l # "bs" -> verb(f, l)
               [] f.mode = "text" /\ l = "%" /\ verbs -> [f EXCEPT !.mode = "verb"]
               [] OTHER -> write(f, <<l>>)
      end == FoldLeft(step, start @@ [back |-> "text"], format)
  IN CASE end.err # "" -> end
       [] end.err = "" /\ end.mode = "escape" /\ end.back = "text" -> write(end, <<"bs">>)
       [] end.err = "" /\ "verb" \in {end.mode, IF end.mode = "escape" THEN end.back ELSE ""} ->
            [end EXCEPT !.err = "other"]
       [] OTHER -> end

\* What the interpreter does about an error: a message, and for an unset
\* parameter the end of the shell.
ExpandErr(r, val) ==
  IF r.err = "" THEN r
  ELSE LET c == [Complain(r) EXCEPT !.err = "", !.val = val]
       IN IF r.err = "unset" THEN [c EXCEPT !.exit.code = 1, !.exit.exiting = TRUE] ELSE c
=============================================================================
