---------------------------- MODULE FileCommands ----------------------------
(***************************************************************************)
(* The commands of an agent's shell that look at files and move them about *)
(* (pkg/sh/moreinterp/coreutils: helpers.go, fs_commands.go and            *)
(* simple_commands.go), on the file system in memory.                      *)
(*                                                                         *)
(* A command takes and answers the state [fs, out, told, stdin, err]: the  *)
(* file system, the characters on its standard output, whether it wrote an *)
(* error message, the characters left on its standard input, and the error *)
(* it ends with ("" for status 0).  The working directory is the root.     *)
(* Times are left out, and with them the -u of mv and all that touch does  *)
(* to a file that exists; so is the layout of ls -l, -h and -Q, and what   *)
(* cp -v prints.                                                           *)
(***************************************************************************)
EXTENDS MemFS, CommandArgs

CONSTANT MaxWalk   \* how many entries a walk may visit

Newline == "\n"

Started(fs, stdin) == [fs |-> fs, out |-> <<>>, told |-> FALSE, stdin |-> stdin, err |-> ""]
Ends(st, err) == [st EXCEPT !.err = err]
Tell(st)      == [st EXCEPT !.told = TRUE]
Emit(st, bytes) == [st EXCEPT !.out = @ \o bytes]
Say(st, word) == Emit(st, Append(Chars(word), Newline))
After(st, result) == [st EXCEPT !.fs = result.fs, !.err = result.err]

\* The steps of a command, up to the first that fails.
ForEach(st, things, do(_, _)) ==
  FoldLeft(LAMBDA s, thing : IF s.err # "" THEN s ELSE do(s, thing), st, things)

\* A command on the options and operands its arguments parse to.
WithArgs(st, args, spec, run(_)) ==
  LET parsed == ParseOptions(args, spec, FALSE) IN
  IF parsed.err # "" THEN Ends(st, parsed.err) ELSE run(parsed)
-----------------------------------------------------------------------------
(* Paths: a word, the place in the file system, and how it is shown.       *)

PathOf(word) ==
  [abs   |-> HasPrefix(word, "/"),
   parts |-> [i \in DOMAIN Split(Chars(word), "/") |-> Joined(Split(Chars(word), "/")[i])]]
Place(word) ==
  Resolved([abs |-> PathOf(word).abs,
            parts |-> SelectSeq(PathOf(word).parts, LAMBDA part : part # "")])
At(path) == [abs |-> TRUE, parts |-> path]
Base(word) == LET parts == SelectSeq(PathOf(word).parts, LAMBDA part : part # "")
              IN IF parts = <<>> THEN "." ELSE Last(parts)
Word(path) == FoldLeft(LAMBDA w, part : IF w = "" THEN part ELSE w \o "/" \o part, "", path)

Lstat(st, path) == Lookup(st.fs, At(path), FALSE)
Stat(st, path)  == Lookup(st.fs, At(path), TRUE)
IsDir(st, info) == info.err = "" /\ st.fs[info.ino].kind = "directory"

\* A name below a directory joins it, unless it goes up.
JoinPath(path, word) == Clean(path \o <<word>>)
Rel(root, path) == SubSeq(path, Len(root) + 1, Len(path))
joinDisplayPath(rootRaw, rel) ==
  IF rel = <<>> THEN rootRaw
  ELSE IF rootRaw = "." THEN Word(rel)
  ELSE (IF PathOf(rootRaw).abs THEN "/" ELSE "")
         \o Word(Clean(SelectSeq(PathOf(rootRaw).parts, LAMBDA part : part # "")) \o rel)

resolvePaths(words) ==
  [i \in DOMAIN words |-> [raw |-> words[i]] @@ Place(words[i])]
Unresolved(places) == SelectSeq(places, LAMBDA p : p.err # "")

\* What is on the way below a place: a directory, not a link to one.
walks(st, path) == IsDir(st, Lstat(st, path))

\* Each place is visited before what is below it, as it is then, in the order
\* of the names.  A visit that ends with "skip" leaves out what is below.
walkResolved(st, root, visit(_, _, _)) ==
  LET step(w, n) ==
        LET path  == Head(w.todo)
            seen  == visit(w.st, path, Lstat(w.st, path).err)
            names == Sorted(ReadDir(seen.fs, At(path)).names)
            below == [i \in DOMAIN names |-> Append(path, names[i])]
        IN IF w.todo = <<>> \/ w.st.err # "" THEN w
           ELSE IF seen.err = "skip" THEN [st |-> Ends(seen, ""), todo |-> Tail(w.todo)]
           ELSE IF seen.err # "" \/ ~walks(w.st, path)
           THEN [st |-> seen, todo |-> Tail(w.todo)]
           ELSE [st |-> seen, todo |-> below \o Tail(w.todo)]
      end == FoldLeft(step, [st |-> st, todo |-> <<root>>], [n \in 1..MaxWalk |-> n])
  IN IF end.st.err = "" /\ end.todo # <<>> THEN Ends(end.st, "endless") ELSE end.st

\* The next line of the input; without a newline there is none.
ReadLine(bytes) ==
  LET k == SelectInSeq(bytes, LAMBDA c : c = Newline) IN
  IF k = 0 THEN [err |-> "EOF", line |-> bytes, rest |-> <<>>]
  ELSE [err |-> "", line |-> SubSeq(bytes, 1, k - 1), rest |-> SubSeq(bytes, k + 1, Len(bytes))]
SaysYes(line) == line # <<>> /\ Head(line) \in {"y", "Y"}

\* A file read from its start to its end.
ReadFile(st, path) ==
  LET opened == Open(st.fs, At(path))
      read   == Read(opened.fs, opened.handle, 1000)
  IN IF opened.err # "" THEN [err |-> opened.err, bytes |-> <<>>]
     ELSE [err |-> IF read.err = "EOF" THEN "" ELSE read.err, bytes |-> read.bytes]
-----------------------------------------------------------------------------
(* ls, cat, touch, mkdir and rm.                                           *)

LsOptions == Flag({"-a"}, "a") @@ Flag({"-d"}, "d") @@ Flag({"-l"}, "l")
               @@ Flag({"-R"}, "R") @@ Flag({"-F"}, "F") @@ Flag({"-S"}, "S")

lsIndicator(node) ==
  CASE node.kind = "regular" /\ node.mode \cap {"x", "gx", "ox"} # {} -> "*"
    [] node.kind = "directory" -> "/"
    [] node.kind = "symlink"   -> "@"
    [] node.kind = "fifo"      -> "|"
    [] OTHER                   -> ""

printLsRecord(st, name, node, showAll, classify) ==
  IF ~showAll /\ HasPrefix(name, ".") THEN st
  ELSE Say(st, name \o (IF classify THEN lsIndicator(node) ELSE ""))

\* The largest first, the rest in the order they came.
BySize(fs, dir, names) ==
  LET size(n) == Len(fs[fs[dir].children[names[n]]].data)
      before(m, n) == size(m) > size(n) \/ (size(m) = size(n) /\ m < n)
  IN [i \in DOMAIN names |->
        names[CHOOSE n \in DOMAIN names :
                Cardinality({m \in DOMAIN names : before(m, n)}) = i - 1]]

\* What cannot be listed is told on the output, and the status is still 0.
runLs(st, args) ==
  WithArgs(st, args, LsOptions, LAMBDA p :
    LET names == IF p.operands = <<>> THEN <<".">> ELSE p.operands
        print(s, name, ino) == printLsRecord(s, name, s.fs[ino], Has(p, "a"), Has(p, "F"))
        complain(s) == Say(s, "error")
        list(s, k) ==
          LET name  == names[k]
              place == Place(name)
              info  == Lstat(s, place.path)
              titled == IF Len(names) > 1 /\ IsDir(s, info) /\ ~Has(p, "d") /\ ~Has(p, "R")
                        THEN Say(IF k > 1 THEN Say(s, "") ELSE s, name \o ":") ELSE s
              visit(w, path, err) ==
                IF err # "" THEN complain(w)
                ELSE print(w, joinDisplayPath(name, Rel(place.path, path)), Lstat(w, path).ino)
              inside == Sorted(ReadDir(s.fs, At(place.path)).names)
              sorted == IF Has(p, "S") THEN BySize(s.fs, info.ino, inside) ELSE inside
          IN IF place.err # "" THEN Ends(s, place.err)
             ELSE IF info.err # "" THEN complain(s)
             ELSE IF Has(p, "R") THEN walkResolved(titled, place.path, visit)
             ELSE IF ~IsDir(s, info) \/ Has(p, "d") THEN print(titled, name, info.ino)
             ELSE FoldLeft(LAMBDA w, n : print(w, n, w.fs[info.ino].children[n]),
                           titled, sorted)
    IN ForEach(st, [k \in DOMAIN names |-> k], list))

Copied(st, read) == Ends(Emit(st, read.bytes), read.err)

runCat(st, args) ==
  WithArgs(st, args, Flag({"-u"}, "u"), LAMBDA p :
    LET all(s) == [Emit(s, s.stdin) EXCEPT !.stdin = <<>>]
        cat(s, file) ==
          IF file = "-" THEN all(s)
          ELSE IF Place(file).err # "" THEN Ends(s, Place(file).err)
          ELSE Copied(s, ReadFile(s, Place(file).path))
    IN IF p.operands = <<>> THEN all(st) ELSE ForEach(st, p.operands, cat))

FileBits == {"r", "w", "gr", "gw", "or", "ow"}   \* 0o666

TouchOptions == Flag({"-a"}, "a") @@ Flag({"-m"}, "m") @@ Flag({"-c"}, "c")
                  @@ Value({"-d"}, "d") @@ Value({"-t"}, "t")

\* The files that fail are told at the end; the others are made all the same.
runTouch(st, args) ==
  WithArgs(st, args, TouchOptions, LAMBDA p :
    LET touch(s, file) ==
          LET place == Place(file)
              info  == Stat(s, place.path)
              made  == OpenFile(s.fs, At(place.path), {"WRONLY", "CREATE"}, FileBits)
          IN IF s.err = "unresolved" \/ place.err # ""
             THEN Ends(s, "unresolved")
             ELSE IF info.err \notin {"", "notExist"} THEN Ends(s, info.err)
             ELSE IF info.err = "" \/ Has(p, "c") THEN s
             ELSE IF made.err # "" THEN Ends(s, made.err)
             ELSE [s EXCEPT !.fs = Close(made.fs, made.handle).fs]
    IN IF p.operands = <<>> THEN Ends(Tell(st), "usage") ELSE FoldLeft(touch, st, p.operands))

defaultCreationMode == FullMode
parseMkdirMode(mode) ==
  LET expr == parseModeExpression(mode)
  IN [err |-> expr.err,
      bits |-> IF mode = "" THEN defaultCreationMode ELSE Apply(expr, defaultCreationMode, TRUE)]

MkdirOptions == Value({"-m"}, "m") @@ Flag({"-p"}, "p") @@ Flag({"-v"}, "v")

\* A directory that cannot be made is told, and the status is still 0.
runMkdir(st, args) ==
  WithArgs(st, args, MkdirOptions, LAMBDA p :
    LET mode == parseMkdirMode(ValueOf(p, "m", ""))
        make(s, name) ==
          LET at    == At(Place(name).path)
              perm  == mode.bits \cap FullMode
              made  == IF Has(p, "p") THEN MkdirAll(s.fs, at, perm) ELSE Mkdir(s.fs, at, perm)
              moded == IF ValueOf(p, "m", "") # "" THEN Chmod(made.fs, at, perm).fs ELSE made.fs
              shown == IF Has(p, "v") THEN Say(s, name) ELSE s
          IN IF Place(name).err # "" THEN Ends(s, Place(name).err)
             ELSE IF made.err # "" THEN Tell([s EXCEPT !.fs = made.fs])
             ELSE [shown EXCEPT !.fs = moded]
    IN IF p.operands = <<>> THEN Ends(Tell(st), "usage")
       ELSE IF mode.err # "" THEN Ends(st, mode.err)
       ELSE ForEach(st, p.operands, make))

RmOptions == Flag({"-i"}, "i") @@ Flag({"-v"}, "v") @@ Flag({"-r"}, "r")
               @@ Flag({"-R"}, "r") @@ Flag({"-f"}, "f")

\* With -f every error of the file system is passed over, not only "no such file".
isIgnorableRemoveError(err) == err # ""

runRm(st, args) ==
  WithArgs(st, args, RmOptions, LAMBDA p :
    LET asks == Has(p, "i") /\ ~Has(p, "f")
        remove(s, file) ==
          LET place == Place(file)
              answer == ReadLine(s.stdin)
              asked == IF asks THEN [Tell(s) EXCEPT !.stdin = answer.rest] ELSE s
              gone  == IF Has(p, "r") THEN RemoveAll(s.fs, At(place.path))
                       ELSE RemoveEntry(s.fs, At(place.path))
              shown == IF HasPrefix(file, "/") THEN file ELSE "/" \o Word(place.path)
          IN IF asks /\ answer.err # "" THEN Ends(asked, answer.err)
             ELSE IF asks /\ ~SaysYes(answer.line) THEN asked
             ELSE IF place.err # "" THEN Ends(asked, place.err)
             ELSE IF gone.err # "" /\ Has(p, "f") /\ isIgnorableRemoveError(gone.err) THEN asked
             ELSE IF gone.err # "" THEN Ends(asked, gone.err)
             ELSE [(IF Has(p, "v") THEN Say(asked, "removed " \o shown) ELSE asked)
                     EXCEPT !.fs = gone.fs]
    IN IF p.operands = <<>> THEN Ends(st, "usage") ELSE ForEach(st, p.operands, remove))
-----------------------------------------------------------------------------
(* chmod, cp and mv.                                                       *)

ChmodOptions == Flag({"-R", "--recursive"}, "R") @@ Value({"--reference"}, "reference")

\* A file that fails is told; the status is that of the last one that did.
runChmod(st, args) ==
  LET p == ParseOptions(args, ChmodOptions, TRUE)
      reference == ValueOf(p, "reference", "")
      like == Stat(st, Place(reference).path)
      expr == parseModeExpression(p.operands[1])
      change(s, path) ==
        LET info == Stat(s, path)
            bits == IF reference # "" THEN st.fs[like.ino].mode
                    ELSE Apply(expr, s.fs[info.ino].mode, IsDir(s, info))
        IN IF info.err # "" THEN Ends(s, info.err)
           ELSE After(s, Chmod(s.fs, At(path), bits \cap FullMode))
      visit(s, path, err) == IF err # "" THEN Ends(s, err) ELSE change(s, path)
      target(s, name) ==
        LET place == Place(name)
            done  == IF Has(p, "R") THEN walkResolved(Ends(s, ""), place.path, visit)
                     ELSE change(Ends(s, ""), place.path)
        IN IF s.err = "unresolved" \/ place.err # "" THEN Ends(s, "unresolved")
           ELSE IF done.err # "" THEN Tell(done) ELSE Ends(done, s.err)
      targets == IF reference # "" THEN p.operands ELSE Tail(p.operands)
  IN IF p.err # "" THEN Ends(st, p.err)
     ELSE IF Len(p.operands) < (IF reference # "" THEN 1 ELSE 2) THEN Ends(Tell(st), "usage")
     ELSE IF reference # "" /\ (Place(reference).err # "" \/ like.err # "")
     THEN Ends(st, "bad reference file")
     ELSE IF reference = "" /\ expr.err # "" THEN Ends(st, expr.err)
     ELSE FoldLeft(target, st, targets)

CpOptions == Flag({"-R", "-r", "--recursive", "--RECURSIVE"}, "r")
               @@ Flag({"-i", "--interactive"}, "i") @@ Flag({"-f", "--force"}, "f")
               @@ Flag({"-v", "--verbose"}, "v") @@ Flag({"-P", "--no-dereference"}, "P")

copyStat(st, path, p) == IF Has(p, "P") THEN Lstat(st, path) ELSE Stat(st, path)

\* Each prompt reads the input with a reader of its own, which takes all of it.
Prompted(st) == [Tell(st) EXCEPT !.stdin = <<>>]

CopyRegular(st, from, to, mode) ==
  LET read    == ReadFile(st, from)
      opened  == OpenFile(st.fs, At(to), {"RDWR", "CREATE", "TRUNC"}, mode)
      written == Write(opened.fs, opened.handle, read.bytes)
  IN IF read.err # "" THEN Ends(st, read.err)
     ELSE IF opened.err # "" THEN [st EXCEPT !.fs = opened.fs, !.err = opened.err]
     ELSE [st EXCEPT !.fs = Close(written.fs, written.handle).fs, !.err = written.err]

copyAsks(st, p) == Has(p, "i") /\ ~Has(p, "f")

copyResolvedEntry(st, from, to, p, recursive) ==
  LET source == copyStat(st, from, p)
      node   == st.fs[source.ino]
      dest   == Stat(st, to)
      exists == dest.err = ""
      same   == exists /\ (from = to \/ source.ino = dest.ino)
      asks   == exists /\ copyAsks(st, p)
      answer == ReadLine(st.stdin)
      asked  == IF asks THEN Prompted(st) ELSE st
      forced == IF Has(p, "f") /\ exists THEN RemoveEntry(st.fs, At(to)) ELSE Done(st.fs)
  IN IF source.err # "" THEN Ends(st, source.err)
     ELSE IF node.kind = "directory" /\ ~recursive THEN Tell(st)
     ELSE IF dest.err \notin {"", "notExist"} THEN Ends(st, dest.err)
     ELSE IF same THEN Tell(st)
     ELSE IF asks /\ answer.err # "" THEN Ends(asked, answer.err)
     ELSE IF asks /\ ~SaysYes(answer.line) THEN asked
     ELSE CASE node.kind = "directory" -> After(asked, MkdirAll(st.fs, At(to), node.mode))
            [] node.kind = "regular"   -> CopyRegular(asked, from, to, node.mode)
            [] node.kind = "symlink"   ->
                 IF forced.err \notin {"", "notExist"} THEN Ends(asked, forced.err)
                 ELSE After(asked, Symlink(forced.fs, node.target, At(to)))
            [] OTHER -> Ends(asked, "unsupported file mode")

copyTree(st, from, to, p) ==
  walkResolved(st, from, LAMBDA s, path, err :
    IF err # "" THEN Ends(s, err)
    ELSE copyResolvedEntry(s, path, to \o Rel(from, path), p, TRUE))

manyToOne(inputs, destIsDir) == Len(inputs) > 1 /\ ~destIsDir

\* Sources, then the place or the directory they go to.
ToDestination(st, p, destIsDir, each(_, _, _)) ==
  LET inputs == resolvePaths(Front(p.operands))
      dest   == Place(Last(p.operands))
  IN IF Len(p.operands) < 2 THEN Ends(st, "insufficient arguments")
     ELSE IF Unresolved(inputs) # <<>> THEN Ends(st, Unresolved(inputs)[1].err)
     ELSE IF dest.err # "" THEN Ends(st, dest.err)
     ELSE IF manyToOne(inputs, destIsDir) THEN Ends(st, "not a directory")
     ELSE ForEach(st, inputs, LAMBDA s, src :
            each(s, src, IF destIsDir THEN JoinPath(dest.path, Base(src.raw)) ELSE dest.path))

runCp(st, args) ==
  WithArgs(st, args, CpOptions, LAMBDA p :
    LET destIsDir == IsDir(st, Stat(st, Place(Last(p.operands)).path))
        copy(s, src, to) == IF Has(p, "r") THEN copyTree(s, src.path, to, p)
                            ELSE copyResolvedEntry(s, src.path, to, p, FALSE)
    IN ToDestination(st, p, destIsDir, copy))

MvOptions == Flag({"-n", "--no-clobber"}, "n")

\* A link to a directory is a name like any other to mv.
runMv(st, args) ==
  WithArgs(st, args, MvOptions, LAMBDA p :
    LET destIsDir == IsDir(st, Lstat(st, Place(Last(p.operands)).path))
        move(s, src, to) ==
          LET there == Lstat(s, to) IN
          IF Has(p, "n") /\ there.err = "" THEN s
          ELSE IF Has(p, "n") /\ there.err # "notExist" THEN Ends(s, there.err)
          ELSE After(s, Rename(s.fs, At(src.path), At(to)))
    IN ToDestination(st, p, destIsDir, move))
-----------------------------------------------------------------------------
(* find.  A matcher is a tree of "and" and "or" over tests of one place.   *)

NoMatcher == [op |-> "nil"]
Test(op, value) == [op |-> op, value |-> value]
matchAllFind == Test("all", "")
Joins(op, left, right) == [op |-> op, left |-> left, right |-> right]

andFindMatchers(left, right) ==
  IF left.op = "nil" THEN right ELSE IF right.op = "nil" THEN left
  ELSE Joins("and", left, right)
orFindMatchers(left, right) ==
  IF left.op = "nil" THEN right ELSE IF right.op = "nil" THEN left
  ELSE Joins("or", left, right)

\* Where the parser is, and the options it has met.
ParserAt(pos) == [pos |-> pos, maxDepth |-> -1, debug |-> FALSE]
Parse(err, matcher, at) == [err |-> err, matcher |-> matcher, at |-> at]
NoParse(err, at) == Parse(err, NoMatcher, at)
Moved(at, n) == [at EXCEPT !.pos = @ + n]

FindWords == {"(", ")", "-name", "-iname", "-type", "-path", "-ipath", "-maxdepth", "-perm",
              "-mode", "-l", "-d", "-a", "-and", "-o", "-or", "-print"}
isFindExpressionToken(arg) == (HasPrefix(arg, "-") /\ arg # "-") \/ arg \in FindWords
areFindRoots(args) == args # <<>> /\ \A i \in DOMAIN args : ~isFindExpressionToken(args[i])

parseNonNegativeCount(value) == Atoi(value)

parseFindPerm(value) ==
  LET all  == HasPrefix(value, "-")
      expr == parseModeExpression(IF all THEN SubSeq(value, 2, Len(value)) ELSE value)
  IN [err |-> IF expr.err # "" \/ ~expr.absolute THEN "invalid permission" ELSE "",
      matcher |-> Test(IF all THEN "permAll" ELSE "permExact", expr.bits)]

RECURSIVE parseOr(_, _), OrMore(_, _), parseAnd(_, _, _), AndMore(_, _), parsePrimary(_, _)

parseOr(args, at) ==
  LET left == parseAnd(args, at, TRUE) IN IF left.err # "" THEN left ELSE OrMore(args, left)

OrMore(args, left) ==
  LET right == parseAnd(args, Moved(left.at, 1), FALSE) IN
  IF left.at.pos > Len(args) \/ args[left.at.pos] \notin {"-o", "-or"} THEN left
  ELSE IF right.err # "" THEN NoParse(right.err, right.at)
  ELSE OrMore(args, Parse("", orFindMatchers(left.matcher, right.matcher), right.at))

parseAnd(args, at, allowEmpty) ==
  LET left == parsePrimary(args, at) IN
  IF at.pos > Len(args) \/ args[at.pos] = ")"
  THEN NoParse(IF allowEmpty THEN "" ELSE "missing expression", at)
  ELSE IF left.err # "" THEN NoParse(left.err, left.at)
  ELSE AndMore(args, left)

AndMore(args, left) ==
  LET here  == args[left.at.pos]
      from  == IF here \in {"-a", "-and"} THEN Moved(left.at, 1) ELSE left.at
      right == parsePrimary(args, from)
  IN IF left.at.pos > Len(args) \/ here \in {"-o", "-or", ")"} THEN left
     ELSE IF from.pos > Len(args) \/ args[from.pos] = ")" THEN NoParse("missing expression", from)
     ELSE IF right.err # "" THEN NoParse(right.err, right.at)
     ELSE AndMore(args, Parse("", andFindMatchers(left.matcher, right.matcher), right.at))

parsePrimary(args, at) ==
  LET here   == args[at.pos]
      value  == args[at.pos + 1]
      after  == Moved(at, 2)
      valued == {"-name", "-iname", "-type", "-path", "-ipath", "-maxdepth", "-perm", "-mode"}
      group  == parseOr(args, Moved(at, 1))
      perm   == parseFindPerm(value)
  IN IF here \in valued /\ at.pos + 1 > Len(args) THEN NoParse("flag needs an argument", at)
     ELSE CASE here = "(" ->
                 IF group.err # "" THEN NoParse(group.err, group.at)
                 ELSE IF group.matcher.op = "nil" THEN NoParse("empty expression", group.at)
                 ELSE IF group.at.pos > Len(args) \/ args[group.at.pos] # ")"
                 THEN NoParse("expected )", group.at)
                 ELSE Parse("", group.matcher, Moved(group.at, 1))
            [] here \in {"-name", "-iname", "-type", "-path", "-ipath"} ->
                 Parse("", Test(SubSeq(here, 2, Len(here)), value), after)
            [] here = "-maxdepth" ->
                 IF parseNonNegativeCount(value) = NotANumber
                 THEN NoParse("invalid maxdepth", after)
                 ELSE Parse("", matchAllFind, [after EXCEPT !.maxDepth = Atoi(value)])
            [] here \in {"-perm", "-mode"} ->
                 IF perm.err # "" THEN NoParse(perm.err, after)
                 ELSE Parse("", perm.matcher, after)
            [] here = "-d" -> Parse("", matchAllFind, [Moved(at, 1) EXCEPT !.debug = TRUE])
            [] here \in {"-l", "-print"} -> Parse("", matchAllFind, Moved(at, 1))
            [] OTHER -> NoParse("invalid expression", at)

parseFindExpression(args) ==
  IF args = <<>> THEN NoParse("", ParserAt(1)) ELSE parseOr(args, ParserAt(1))

\* Roots before the expression, or after it where the parser stops, even when
\* it stopped there with an error and answered no matcher.
parseFindArgs(args) ==
  LET first == SelectInSeq(args, isFindExpressionToken)
      k     == IF first = 0 THEN Len(args) ELSE first - 1
      whole == parseFindExpression(args)
      rest  == SubSeq(args, whole.at.pos, Len(args))
  IN IF k > 0
     THEN [roots |-> SubSeq(args, 1, k), query |-> parseFindExpression(SubSeq(args, k + 1, Len(args)))]
     ELSE IF whole.at.pos > 1 /\ whole.at.pos <= Len(args) /\ areFindRoots(rest)
     THEN [roots |-> rest, query |-> [whole EXCEPT !.err = ""]]
     ELSE [roots |-> <<".">>, query |-> whole]

\* path.Match for "*" and "?", which match no "/".
RECURSIVE Matches(_, _)
Matches(pattern, word) ==
  IF pattern = <<>> THEN word = <<>>
  ELSE CASE Head(pattern) = "*" ->
              \/ Matches(Tail(pattern), word)
              \/ word # <<>> /\ Head(word) # "/" /\ Matches(pattern, Tail(word))
         [] Head(pattern) = "?" ->
              word # <<>> /\ Head(word) # "/" /\ Matches(Tail(pattern), Tail(word))
         [] OTHER -> word # <<>> /\ Head(word) = Head(pattern) /\ Matches(Tail(pattern), Tail(word))

Upper == Chars("ABCDEFGHIJKLMNOPQRSTUVWXYZ")
Lower(chars) ==
  [i \in DOMAIN chars |-> IF chars[i] \in ToSet(Upper)
                          THEN Chars("abcdefghijklmnopqrstuvwxyz")[SelectInSeq(Upper, LAMBDA c : c = chars[i])]
                          ELSE chars[i]]

matchFindPattern(pattern, candidate, ignoreCase) ==
  IF ignoreCase THEN Matches(Lower(Chars(pattern)), Lower(Chars(candidate)))
  ELSE Matches(Chars(pattern), Chars(candidate))

matchFindPath(pattern, name, ignoreCase) ==
  \E candidate \in {name, IF name = "." THEN "./"
                            ELSE IF HasPrefix(name, "./") THEN name ELSE "./" \o name} :
    matchFindPattern(pattern, candidate, ignoreCase)

FileTypes == ("f" :> "regular") @@ ("file" :> "regular") @@ ("d" :> "directory")
               @@ ("directory" :> "directory") @@ ("p" :> "fifo") @@ ("l" :> "symlink")
               @@ ("s" :> "socket") @@ ("c" :> "device") @@ ("b" :> "device")

Answer(match) == [err |-> "", match |-> match]

RECURSIVE Holds(_, _, _)
Holds(m, node, name) ==
  CASE m.op \in {"and", "or"} ->
         LET left == Holds(m.left, node, name)
         IN IF left.err # "" \/ left.match = (m.op = "or") THEN left
            ELSE Holds(m.right, node, name)
    [] m.op \in {"name", "iname"} -> Answer(matchFindPattern(m.value, Base(name), m.op = "iname"))
    [] m.op \in {"path", "ipath"} -> Answer(matchFindPath(m.value, name, m.op = "ipath"))
    [] m.op = "type" -> IF m.value \notin DOMAIN FileTypes
                        THEN [err |-> "not a valid file type", match |-> FALSE]
                        ELSE Answer(node.kind = FileTypes[m.value])
    [] m.op = "permExact" -> Answer(node.mode = m.value)
    [] m.op = "permAll"   -> Answer(m.value \subseteq node.mode)
    [] OTHER -> Answer(TRUE)

findDepth(rel) == Len(rel)

\* Slip: the directories at the greatest depth are shown with what they hold.
tooDeepOffByOne(rel, query) == query.at.maxDepth # -1 /\ findDepth(rel) > query.at.maxDepth + 1
tooDeep(rel, query) == query.at.maxDepth # -1 /\ findDepth(rel) > query.at.maxDepth

\* The roots that fail are told at the end; the others are walked all the same.
runFind(st, args) ==
  LET parsed == parseFindArgs(args)
      query  == parsed.query
      walk(s, raw) ==
        LET root == Place(raw)
            visit(w, path, err) ==
              LET rel    == Rel(root.path, path)
                  name   == joinDisplayPath(raw, rel)
                  info   == Lstat(w, path)
                  traced == IF query.at.debug THEN Tell(w) ELSE w
                  found  == Holds(query.matcher, w.fs[info.ino], name)
              IN IF tooDeep(rel, query) THEN (IF IsDir(w, info) THEN Ends(w, "skip") ELSE w)
                 ELSE IF err # "" THEN Tell(w)
                 ELSE IF found.err # "" THEN Ends(traced, found.err)
                 ELSE IF found.match THEN Say(traced, name) ELSE traced
            done == walkResolved(Ends(s, ""), root.path, visit)
        IN IF root.err # "" THEN Ends(s, root.err)
           ELSE IF done.err = "" THEN Ends(done, s.err) ELSE done
  IN IF query.err # "" THEN Ends(st, query.err) ELSE FoldLeft(walk, st, parsed.roots)
=============================================================================
