---------------------------- MODULE TextCommands ----------------------------
(***************************************************************************)
(* The commands of an agent's shell that read and write text               *)
(* (pkg/sh/moreinterp/coreutils: text_commands.go, text_filter_commands.go *)
(* and sed_commands.go).                                                   *)
(*                                                                         *)
(* Text is a sequence of characters.  A regular expression is a sequence   *)
(* of characters too, of which "." stands for any, "^" at its start and    *)
(* "$" at its end for the ends of the text: all the model needs of Go's    *)
(* regexp.  The text of diff is left out, but not whether there is any.    *)
(***************************************************************************)
EXTENDS FileCommands

Line(text, newline) == [text |-> text, newline |-> newline]
Raw(line) == IF line.newline THEN Append(line.text, Newline) ELSE line.text

\* Lines keep their newlines; the last may lack its own.
splitLines(bytes) ==
  LET pieces == Split(bytes, Newline)
      whole  == [i \in 1..(Len(pieces) - 1) |-> Line(pieces[i], TRUE)]
  IN IF Last(pieces) = <<>> THEN whole ELSE Append(whole, Line(Last(pieces), FALSE))

WriteLine(st, line) == Emit(st, Raw(line))
Number(n) == Chars(ToString(n))

OrStdin(operands) == IF operands = <<>> THEN <<"-">> ELSE operands

\* All of an operand, or of what is left of the standard input.
openCommandInput(st, operand, use(_, _)) ==
  LET place == Place(operand)
      read  == ReadFile(st, place.path)
  IN IF operand = "-" THEN use([st EXCEPT !.stdin = <<>>], st.stdin)
     ELSE IF place.err # "" THEN Ends(st, place.err)
     ELSE IF read.err # "" THEN Ends(st, read.err)
     ELSE use(st, read.bytes)

eachCommandLine(st, operands, do(_, _)) ==
  ForEach(st, OrStdin(operands), LAMBDA s, operand :
    openCommandInput(s, operand, LAMBDA t, bytes : ForEach(t, splitLines(bytes), do)))

\* The lines of all the operands, before anything is written.
AllLines(st, operands) ==
  LET start == [st |-> st, err |-> "", lines |-> <<>>]
      take(got, operand) ==
        LET lines == splitLines(IF operand = "-" THEN got.st.stdin
                                ELSE ReadFile(got.st, Place(operand).path).bytes)
            opened == openCommandInput(got.st, operand, LAMBDA s, bytes : s)
        IN [st |-> opened, err |-> opened.err, lines |-> got.lines \o lines]
  IN ForEach(start, OrStdin(operands), take)
-----------------------------------------------------------------------------
(* Regular expressions.                                                    *)

Body(re) ==
  LET from == IF re # <<>> /\ Head(re) = "^" THEN Tail(re) ELSE re
  IN IF from # <<>> /\ Last(from) = "$" THEN Front(from) ELSE from

\* The places in the text where the expression matches: each is the first
\* character and the one after the last.
Finds(re, text) ==
  LET body == Body(re)
      n    == Len(body)
  IN {i \in 1..(Len(text) - n + 1) :
        /\ \A k \in 1..n : body[k] = text[i + k - 1] \/ (body[k] = "." /\ text[i + k - 1] # Newline)
        /\ (re # <<>> /\ Head(re) = "^") => i = 1
        /\ (re # <<>> /\ Last(re) = "$") => i + n = Len(text) + 1}
MatchString(re, text) == Finds(re, text) # {}
FirstFind(re, text) == CHOOSE i \in Finds(re, text) : \A k \in Finds(re, text) : i <= k
-----------------------------------------------------------------------------
(* grep.                                                                   *)

GrepOptions ==
  Flag({"-E"}, "E") @@ Flag({"-F"}, "F") @@ Flag({"-R", "-r"}, "r") @@ Flag({"-i"}, "i")
    @@ Flag({"-v"}, "v") @@ Flag({"-n"}, "n") @@ Flag({"-c"}, "c") @@ Flag({"-l"}, "l")
    @@ Flag({"-o"}, "o") @@ Flag({"-q"}, "q") @@ Value({"-e"}, "e")

\* The last of -E and -F counts.
Mode(p) == Last(SelectSeq(p.opts, LAMBDA o : o.is \in {"E", "F"})).is

\* Matching folds the case of both sides; with -F no character is special.
LiteralFinds(word, text) ==
  {i \in 1..(Len(text) - Len(word) + 1) : SubSeq(text, i, i + Len(word) - 1) = word}

buildGrepMatcher(patterns, fixed, ignoreCase) ==
  [of |-> [i \in DOMAIN patterns |->
             IF ignoreCase THEN Lower(Chars(patterns[i])) ELSE Chars(patterns[i])],
   fixed |-> fixed, ignoreCase |-> ignoreCase]

MatcherFinds(matcher, text, i) ==
  LET seen == IF matcher.ignoreCase THEN Lower(text) ELSE text IN
  IF matcher.fixed THEN LiteralFinds(matcher.of[i], seen) ELSE Finds(matcher.of[i], seen)
Match(matcher, text) == \E i \in DOMAIN matcher.of : MatcherFinds(matcher, text, i) # {}

\* The leftmost match, the longest of those, then the rest of the line as if
\* it were a line of its own.
RECURSIVE grepFindMatches(_, _)
grepFindMatches(text, matcher) ==
  LET length(i) == IF matcher.fixed THEN Len(matcher.of[i]) ELSE Len(Body(matcher.of[i]))
      all  == UNION {{<<at, at + length(i)>> : at \in MatcherFinds(matcher, text, i)} :
                       i \in DOMAIN matcher.of}
      best == CHOOSE m \in all : \A k \in all : m[1] < k[1] \/ (m[1] = k[1] /\ m[2] >= k[2])
      from(n) == SubSeq(text, n, Len(text))
  IN IF all = {} THEN <<>>
     ELSE IF best[1] = best[2]
     THEN IF best[1] > Len(text) THEN <<>> ELSE grepFindMatches(from(best[1] + 1), matcher)
     ELSE <<SubSeq(text, best[1], best[2] - 1)>> \o grepFindMatches(from(best[2]), matcher)

\* With -r, the regular files below a directory, shown with their names.
expandGrepTargets(st, operands, recursive) ==
  LET start == [err |-> "", targets |-> <<>>, prefix |-> FALSE]
      target(display, path) == [display |-> display, path |-> path, stdin |-> display = "-"]
      expand(got, operand) ==
        LET place == Place(operand)
            info  == Lstat(st, place.path)
            visit(w, path, err) ==
              IF st.fs[Lstat(st, path).ino].kind # "regular" THEN w
              ELSE [w EXCEPT !.out = Append(@, target(joinDisplayPath(operand, Rel(place.path, path)), path))]
            found == walkResolved([st EXCEPT !.out = <<>>, !.err = ""], place.path, visit)
        IN IF operand = "-" THEN [got EXCEPT !.targets = Append(@, target("-", <<>>))]
           ELSE IF place.err # "" THEN [got EXCEPT !.err = place.err]
           ELSE IF info.err # "" THEN [got EXCEPT !.err = info.err]
           ELSE IF ~recursive \/ ~IsDir(st, info)
           THEN [got EXCEPT !.targets = Append(@, target(operand, place.path))]
           ELSE [err |-> found.err, targets |-> got.targets \o found.out, prefix |-> TRUE]
      all == ForEach(start, operands, expand)
  IN [all EXCEPT !.prefix = @ \/ Len(all.targets) > 1]

writeGrepPrefixes(display, n, p, prefix) ==
  (IF prefix THEN Append(Chars(display), ":") ELSE <<>>)
    \o (IF Has(p, "n") THEN Append(Number(n), ":") ELSE <<>>)

selects(text, matcher, p) ==
  LET matched == IF Has(p, "o") /\ ~Has(p, "v") THEN grepFindMatches(text, matcher) # <<>>
                 ELSE Match(matcher, text)
  IN matched # Has(p, "v")

\* One file: what it writes, and how many lines were selected.
grepReader(bytes, display, matcher, p, prefix) ==
  LET lines == splitLines(bytes)
      chosen == SelectSeq([n \in DOMAIN lines |-> n], LAMBDA n : selects(lines[n].text, matcher, p))
      shown(n) ==
        LET start == writeGrepPrefixes(display, n, p, prefix)
            found == grepFindMatches(lines[n].text, matcher)
        IN IF Has(p, "o") /\ ~Has(p, "v")
           THEN FlattenSeq([k \in DOMAIN found |-> start \o found[k] \o <<Newline>>])
           ELSE start \o Raw(lines[n])
      silent == Has(p, "q") \/ Has(p, "c") \/ Has(p, "l")
  IN [count |-> Len(chosen),
      out |-> IF silent THEN <<>> ELSE FlattenSeq([k \in DOMAIN chosen |-> shown(chosen[k])])]

\* A quiet search ends at the first file with a match.
runGrep(st, args) ==
  LET p == ParseOptions(args, GrepOptions, TRUE)
      given == ValuesOf(p, "e")
      patterns == IF given = <<>> THEN <<Head(p.operands)>> ELSE given
      operands == IF given = <<>> THEN Tail(p.operands) ELSE p.operands
      matcher  == buildGrepMatcher(patterns, Mode(p) = "F", Has(p, "i"))
      expanded == expandGrepTargets(st, OrStdin(operands), Has(p, "r"))
      start    == [st |-> st, err |-> "", matched |-> FALSE, over |-> FALSE]
      report(s, target, count) ==
        IF Has(p, "l") THEN (IF count > 0 THEN Say(s, target.display) ELSE s)
        ELSE IF Has(p, "c")
        THEN Emit(s, (IF expanded.prefix THEN Append(Chars(target.display), ":") ELSE <<>>)
                       \o Append(Number(count), Newline))
        ELSE s
      search(got, target) ==
        LET read   == IF target.stdin THEN [err |-> "", bytes |-> got.st.stdin]
                      ELSE ReadFile(got.st, target.path)
            took   == IF target.stdin THEN [got.st EXCEPT !.stdin = <<>>] ELSE got.st
            answer == grepReader(read.bytes, target.display, matcher, p, expanded.prefix)
            said   == Emit(took, answer.out)
        IN IF got.over THEN got
           ELSE IF read.err # "" THEN [got EXCEPT !.err = read.err]
           ELSE [st |-> IF Has(p, "q") /\ answer.count > 0 THEN said
                        ELSE report(said, target, answer.count),
                 err |-> "", matched |-> got.matched \/ answer.count > 0,
                 over |-> Has(p, "q") /\ answer.count > 0]
      end == ForEach(start, expanded.targets, search)
  IN IF p.err # "" THEN Ends(st, p.err)
     ELSE IF given = <<>> /\ p.operands = <<>> THEN Ends(Tell(st), "usage")
     ELSE IF ~Has(p, "E") /\ ~Has(p, "F") THEN Ends(Tell(st), "usage")
     ELSE IF expanded.err # "" THEN Ends(st, expanded.err)
     ELSE IF end.err # "" THEN Ends(end.st, end.err)
     ELSE Ends(end.st, IF end.matched THEN "" ELSE "no match")
-----------------------------------------------------------------------------
(* head, tail and wc.                                                      *)

isLegacyCountArg(arg, prefix) ==
  /\ Len(arg) >= 2 /\ HasPrefix(arg, prefix)
  /\ \A i \in 2..Len(arg) : isDigit(SubSeq(arg, i, i))

normalizeLegacyHeadArgs(args) ==
  IF args = <<>> \/ ~isLegacyCountArg(args[1], "-") THEN args
  ELSE <<"-n", SubSeq(args[1], 2, Len(args[1]))>> \o Tail(args)

normalizeLegacyTailArgs(args) ==
  IF args # <<>> /\ isLegacyCountArg(args[1], "+") THEN <<"-n">> \o args
  ELSE normalizeLegacyHeadArgs(args)

\* "+n" counts from the start.
parseTailCount(raw) ==
  [fromStart |-> HasPrefix(raw, "+"),
   value |-> Atoi(IF HasPrefix(raw, "+") THEN SubSeq(raw, 2, Len(raw)) ELSE raw)]

First(things, n) == SubSeq(things, 1, IF n < Len(things) THEN n ELSE Len(things))

keptTail(things, count) ==
  SubSeq(things,
         IF count.fromStart THEN (IF count.value = 0 THEN 1 ELSE count.value)
         ELSE IF count.value < Len(things) THEN Len(things) - count.value + 1 ELSE 1,
         Len(things))

AllRaw(lines) == FlattenSeq([i \in DOMAIN lines |-> Raw(lines[i])])
writeHeadLines(st, bytes, n) == Emit(st, AllRaw(First(splitLines(bytes), n)))
writeHeadBytes(st, bytes, n) == Emit(st, First(bytes, n))
writeTailLines(st, bytes, count) == Emit(st, AllRaw(keptTail(splitLines(bytes), count)))
writeTailBytes(st, bytes, count) == Emit(st, keptTail(bytes, count))

HeadOptions == Value({"-n"}, "n") @@ Value({"-c"}, "c") @@ Flag({"-q"}, "q") @@ Flag({"-v"}, "v")

Counted(p) == SelectSeq(p.opts, LAMBDA o : o.is \in {"n", "c"})
CountMode(p) == IF Counted(p) = <<>> THEN "n" ELSE Last(Counted(p)).is
CountWord(p) == IF Counted(p) = <<>> THEN "10" ELSE Last(Counted(p)).value

\* Each operand in turn, under a title where there are several.  The title is
\* left out where the operand is a directory, whose read fails after it.
Titled(st, p, write(_, _)) ==
  LET operands == OrStdin(p.operands)
      titles   == (Len(operands) > 1 /\ ~Has(p, "q")) \/ Has(p, "v")
      each(s, k) ==
        openCommandInput(s, operands[k], LAMBDA t, bytes :
          write(IF titles THEN Say(IF k > 1 THEN Say(t, "") ELSE t, "==> " \o operands[k] \o " <==")
                ELSE t, bytes))
  IN ForEach(st, [k \in DOMAIN operands |-> k], each)

runHead(st, args) ==
  WithArgs(st, normalizeLegacyHeadArgs(args), HeadOptions, LAMBDA p :
    LET n == parseNonNegativeCount(CountWord(p))
        write(s, bytes) == IF CountMode(p) = "n" THEN writeHeadLines(s, bytes, n)
                           ELSE writeHeadBytes(s, bytes, n)
    IN IF \E i \in DOMAIN Counted(p) : Atoi(Counted(p)[i].value) = NotANumber
       THEN Ends(st, "invalid count") ELSE Titled(st, p, write))

runTail(st, args) ==
  WithArgs(st, normalizeLegacyTailArgs(args), HeadOptions, LAMBDA p :
    LET count == parseTailCount(CountWord(p))
        write(s, bytes) == IF CountMode(p) = "n" THEN writeTailLines(s, bytes, count)
                           ELSE writeTailBytes(s, bytes, count)
    IN IF \E i \in DOMAIN Counted(p) : parseTailCount(Counted(p)[i].value).value = NotANumber
       THEN Ends(st, "invalid count") ELSE Titled(st, p, write))

Space == {" ", "\t", Newline}

\* Lines, words and characters; a character is a byte here.
countReader(bytes) ==
  LET starts(i) == bytes[i] \notin Space /\ (i = 1 \/ bytes[i - 1] \in Space)
      size(is(_)) == Cardinality({i \in DOMAIN bytes : is(i)})
  IN [lines |-> size(LAMBDA i : bytes[i] = Newline), words |-> size(starts), bytes |-> Len(bytes)]

WcOptions == Flag({"-l"}, "l") @@ Flag({"-w"}, "w") @@ Flag({"-c"}, "c") @@ Flag({"-m"}, "m")

writeWcLine(st, counts, p, name) ==
  LET shows(o) == Has(p, o) \/ (p.opts = <<>> /\ o # "m")
      field(o, n) == IF shows(o) THEN <<ToString(n)>> ELSE <<>>
      fields == field("l", counts.lines) \o field("w", counts.words) \o field("c", counts.bytes)
                  \o field("m", counts.bytes) \o (IF name = "" THEN <<>> ELSE <<name>>)
  IN Say(st, FoldLeft(LAMBDA line, f : line \o " " \o f, Head(fields), Tail(fields)))

Plus(a, b) == [f \in DOMAIN a |-> a[f] + b[f]]

runWc(st, args) ==
  WithArgs(st, args, WcOptions, LAMBDA p :
    LET start == [st |-> st, err |-> "", total |-> countReader(<<>>)]
        count(got, operand) ==
          LET counts == countReader(IF operand = "-" THEN got.st.stdin
                                    ELSE ReadFile(got.st, Place(operand).path).bytes)
              said == openCommandInput(got.st, operand,
                                       LAMBDA s, bytes : writeWcLine(s, counts, p, operand))
          IN [st |-> said, err |-> said.err, total |-> Plus(got.total, counts)]
        end == ForEach(start, p.operands, count)
    IN IF p.operands = <<>>
       THEN writeWcLine([st EXCEPT !.stdin = <<>>], countReader(st.stdin), p, "")
       ELSE IF end.err # "" \/ Len(p.operands) = 1 THEN end.st
       ELSE writeWcLine(end.st, end.total, p, "total"))
-----------------------------------------------------------------------------
(* sed: a program is read once, and run on each of the files by itself.    *)

RECURSIVE parseSedSegment(_, _, _), skipSedCommandSeparators(_, _), parseSedFlags(_, _),
          parseSedScript(_, _)

\* Up to the separator; a backslash before one is dropped, any other is kept.
parseSedSegment(chars, sep, text) ==
  CASE chars = <<>> \/ chars = <<"\\">> -> [err |-> "unterminated", text |-> text, rest |-> <<>>]
    [] Head(chars) = "\\" /\ Len(chars) > 1 ->
         parseSedSegment(SubSeq(chars, 3, Len(chars)), sep,
                         text \o (IF chars[2] = sep THEN <<>> ELSE <<"\\">>) \o <<chars[2]>>)
    [] Head(chars) = sep -> [err |-> "", text |-> text, rest |-> Tail(chars)]
    [] OTHER -> parseSedSegment(Tail(chars), sep, Append(text, Head(chars)))

skipSedCommandSeparators(chars, which) ==
  IF chars = <<>> \/ Head(chars) \notin which THEN chars
  ELSE skipSedCommandSeparators(Tail(chars), which)
skipSedInlineSpace(chars) == skipSedCommandSeparators(chars, Space \ {Newline})

\* "&" is the match, "\&" an "&", a group that is not there is empty.
\* What the replacement writes: "match", or a character.
translateSedReplacement(raw) ==
  LET step(s, c) ==
        IF s.escaped
        THEN [out |-> Append(s.out, IF c \in ToSet(SubSeq(Digits, 2, 10)) THEN "group" ELSE c),
              escaped |-> FALSE]
        ELSE IF c = "\\" THEN [s EXCEPT !.escaped = TRUE]
        ELSE [s EXCEPT !.out = Append(@, IF c = "&" THEN "match" ELSE c)]
  IN FoldLeft(step, [out |-> <<>>, escaped |-> FALSE], raw).out

parseSedFlags(chars, flags) ==
  CASE chars = <<>> \/ Head(chars) \in {";", Newline} ->
         [err |-> "", flags |-> flags, rest |-> chars]
    [] chars # <<>> /\ Head(chars) \in Space \ {Newline} -> parseSedFlags(Tail(chars), flags)
    [] chars # <<>> /\ Head(chars) \in {"g", "p"} ->
         parseSedFlags(Tail(chars), flags \cup {Head(chars)})
    [] OTHER -> [err |-> "unsupported flag", flags |-> {}, rest |-> <<>>]

NoAddress == [kind |-> "none", line |-> 0, re |-> <<>>]
Address(kind, line, re) == [kind |-> kind, line |-> line, re |-> re]
NoSubstitution == [re |-> <<>>, replacement |-> <<>>, flags |-> {}]

parseSedAddress(chars) ==
  LET got(err, address, rest) == [err |-> err, address |-> address, rest |-> rest]
      segment == parseSedSegment(Tail(chars), "/", <<>>)
      digits  == SelectInSeq(Append(chars, ";"), LAMBDA c : ~isDigit(c)) - 1
      line    == Atoi(Joined(SubSeq(chars, 1, digits)))
  IN IF chars = <<>> THEN got("", NoAddress, chars)
     ELSE IF Head(chars) = "$" THEN got("", Address("last", 0, <<>>), Tail(chars))
     ELSE IF Head(chars) = "/" THEN got(segment.err, Address("regexp", 0, segment.text), segment.rest)
     ELSE IF digits = 0 THEN got("", NoAddress, chars)
     ELSE got(IF line < 1 THEN "invalid line" ELSE "", Address("line", line, <<>>),
              SubSeq(chars, digits + 1, Len(chars)))

parseSedSubstitutionAt(chars) ==
  LET sep   == chars[2]
      from  == parseSedSegment(SubSeq(chars, 3, Len(chars)), sep, <<>>)
      to    == parseSedSegment(from.rest, sep, <<>>)
      flags == parseSedFlags(to.rest, {})
      errs  == SelectSeq(<<from.err, to.err, flags.err>>, LAMBDA e : e # "")
  IN IF Len(chars) < 2 \/ errs # <<>> THEN [err |-> "unsupported script"]
     ELSE [err |-> "", rest |-> flags.rest,
           substitution |-> [re |-> from.text, flags |-> flags.flags,
                             replacement |-> translateSedReplacement(to.text)]]

parseSedCommand(chars) ==
  LET first  == parseSedAddress(chars)
      middle == skipSedInlineSpace(first.rest)
      range  == first.address # NoAddress /\ middle # <<>> /\ Head(middle) = ","
      second == IF range THEN parseSedAddress(skipSedInlineSpace(Tail(middle)))
                ELSE [err |-> "", address |-> NoAddress, rest |-> middle]
      body   == skipSedInlineSpace(second.rest)
      subst  == parseSedSubstitutionAt(body)
      command(kind, s) == [start |-> first.address, end |-> second.address, kind |-> kind, sub |-> s]
  IN IF first.err # "" \/ second.err # "" THEN [err |-> "address"]
     ELSE IF range /\ second.address = NoAddress THEN [err |-> "missing second address"]
     ELSE IF body = <<>> THEN [err |-> "unsupported script"]
     ELSE CASE Head(body) = "p" ->
                 [err |-> "", command |-> command("print", NoSubstitution), rest |-> Tail(body)]
            [] Head(body) = "d" ->
                 [err |-> "", command |-> command("delete", NoSubstitution), rest |-> Tail(body)]
            [] Head(body) = "s" ->
                 IF subst.err # "" THEN [err |-> subst.err]
                 ELSE [err |-> "", command |-> command("substitute", subst.substitution),
                       rest |-> subst.rest]
            [] OTHER -> [err |-> "unsupported script"]

parseSedScript(script, commands) ==
  LET chars == skipSedCommandSeparators(script, Space \cup {";"})
      one   == parseSedCommand(chars)
      rest  == skipSedInlineSpace(one.rest)
  IN IF chars = <<>> THEN [err |-> "", commands |-> commands]
     ELSE IF one.err # "" THEN [err |-> one.err, commands |-> <<>>]
     ELSE IF rest = <<>> THEN [err |-> "", commands |-> Append(commands, one.command)]
     ELSE IF Head(rest) \notin {";", Newline} THEN [err |-> "unsupported script", commands |-> <<>>]
     ELSE parseSedScript(Tail(rest), Append(commands, one.command))

parseSedProgram(scripts) ==
  ForEach([err |-> "", commands |-> <<>>], scripts, LAMBDA got, script :
    IF script = "" THEN [got EXCEPT !.err = "empty script"]
    ELSE parseSedScript(Chars(script), got.commands))

addressMatches(address, text, n, isLast) ==
  CASE address.kind = "line"   -> n = address.line
    [] address.kind = "last"   -> isLast
    [] address.kind = "regexp" -> MatchString(address.re, text)
    [] OTHER -> FALSE

\* Slip: the line that ends a range is not in it.
sedMatchesOpen(command, inRange, text, n, isLast) ==
  LET ends == addressMatches(command.end, text, n, isLast)
      starts == addressMatches(command.start, text, n, isLast)
  IN IF command.start.kind = "none" THEN [applies |-> TRUE, inRange |-> FALSE]
     ELSE IF command.end.kind = "none" THEN [applies |-> starts, inRange |-> FALSE]
     ELSE [applies |-> (inRange \/ starts) /\ ~ends, inRange |-> (inRange \/ starts) /\ ~ends]

\* Whether a command applies to a line, and whether its range goes on.
sedMatches(command, inRange, text, n, isLast) ==
  LET is(applies, goesOn) == [applies |-> applies, inRange |-> goesOn]
      starts == addressMatches(command.start, text, n, isLast)
      ends   == addressMatches(command.end, text, n, isLast)
  IN IF command.start.kind = "none" THEN is(TRUE, FALSE)
     ELSE IF command.end.kind = "none" THEN is(starts, FALSE)
     ELSE IF inRange THEN is(TRUE, ~ends)
     ELSE IF ~starts THEN is(FALSE, FALSE)
     ELSE IF command.end.kind = "line" /\ command.end.line <= n THEN is(TRUE, FALSE)
     ELSE IF command.end.kind = "regexp" THEN is(TRUE, TRUE)
     ELSE is(TRUE, ~ends)

WordChars == ToSet(Chars("0123456789ABCDEFGHIJKLMNOPQRSTUVWXYZ_abcdefghijklmnopqrstuvwxyz"))

RECURSIVE Expanded(_, _), ReplaceEvery(_, _)

\* Letters and digits after a match or a group belong to the name that Go's
\* regexp looks up, finds no group by, and leaves out.
Expanded(replacement, matched) ==
  LET rest == Tail(replacement)
      name == SelectInSeq(Append(rest, ""), LAMBDA c : c \notin WordChars) - 1
  IN IF replacement = <<>> THEN <<>>
     ELSE IF Head(replacement) \notin {"match", "group"}
     THEN <<Head(replacement)>> \o Expanded(rest, matched)
     ELSE (IF Head(replacement) = "match" /\ name = 0 THEN matched ELSE <<>>)
            \o Expanded(SubSeq(rest, name + 1, Len(rest)), matched)

ReplaceFirst(sub, text, after(_)) ==
  LET i == FirstFind(sub.re, text)
      n == Len(Body(sub.re))
  IN SubSeq(text, 1, i - 1) \o Expanded(sub.replacement, SubSeq(text, i, i + n - 1))
       \o after(SubSeq(text, i + n, Len(text)))
ReplaceEvery(sub, text) ==
  IF ~MatchString(sub.re, text) THEN text
  ELSE ReplaceFirst(sub, text, LAMBDA rest :
         IF Head(sub.re) = "^" \/ Last(sub.re) = "$" THEN rest ELSE ReplaceEvery(sub, rest))

applySedSubstitution(sub, text) ==
  IF ~MatchString(sub.re, text) THEN [text |-> text, changed |-> FALSE]
  ELSE [text |-> IF "g" \in sub.flags THEN ReplaceEvery(sub, text)
                 ELSE ReplaceFirst(sub, text, LAMBDA rest : rest),
        changed |-> TRUE]

\* A line goes through the commands up to a "d"; those after it do not see it.
SedLine(state, lines, n, commands, quiet) ==
  LET line == lines[n]
      start == [text |-> line.text, out |-> <<>>, ranges |-> state.ranges, deleted |-> FALSE]
      show(text) == Raw(Line(text, line.newline))
      step(s, j) ==
        LET c == commands[j]
            at == sedMatches(c, s.ranges[j], s.text, n, n = Len(lines))
            kept == [s EXCEPT !.ranges[j] = at.inRange]
            sub == applySedSubstitution(c.sub, s.text)
        IN IF s.deleted THEN s
           ELSE IF ~at.applies THEN kept
           ELSE CASE c.kind = "print"  -> [kept EXCEPT !.out = @ \o show(s.text)]
                  [] c.kind = "delete" -> [kept EXCEPT !.deleted = TRUE]
                  [] OTHER ->
                       [kept EXCEPT !.text = sub.text,
                          !.out = @ \o (IF sub.changed /\ "p" \in c.sub.flags
                                        THEN show(sub.text) ELSE <<>>)]
      end == FoldLeft(step, start, [j \in DOMAIN commands |-> j])
  IN [ranges |-> end.ranges,
      out |-> state.out \o end.out
                \o (IF end.deleted \/ quiet THEN <<>> ELSE show(end.text))]

\* Line numbers, "$" and open ranges start over with each file.
runSedProgram(st, bytes, commands, quiet) ==
  LET lines == splitLines(bytes)
      start == [ranges |-> [j \in DOMAIN commands |-> FALSE], out |-> <<>>]
  IN Emit(st, FoldLeft(LAMBDA s, n : SedLine(s, lines, n, commands, quiet), start,
                       [n \in DOMAIN lines |-> n]).out)

runSed(st, args) ==
  LET p == ParseOptions(args, Flag({"-n"}, "n") @@ Value({"-e"}, "e"), TRUE)
      given    == ValuesOf(p, "e")
      scripts  == IF given = <<>> THEN First(p.operands, 1) ELSE given
      operands == IF given = <<>> /\ p.operands # <<>> THEN Tail(p.operands) ELSE p.operands
      program  == parseSedProgram(scripts)
  IN IF p.err # "" THEN Ends(st, p.err)
     ELSE IF program.err # "" THEN Ends(st, program.err)
     ELSE ForEach(st, OrStdin(operands), LAMBDA s, operand :
            openCommandInput(s, operand, LAMBDA t, bytes :
              runSedProgram(t, bytes, program.commands, Has(p, "n"))))
-----------------------------------------------------------------------------
(* sort, uniq and cut.                                                     *)

TrimSpace(chars) ==
  LET kept == {i \in DOMAIN chars : chars[i] \notin Space}
  IN IF kept = {} THEN <<>> ELSE SubSeq(chars, Min(kept), Max(kept))

\* Whole numbers stand for the floating-point ones.
parseSortNumber(chars) ==
  LET word == TrimSpace(chars)
      minus == word # <<>> /\ Head(word) = "-"
      n == Atoi(Joined(IF minus THEN Tail(word) ELSE word))
  IN [ok |-> n # NotANumber, value |-> IF minus THEN -n ELSE n]

\* Two numbers compare as numbers, a number and another line as text.
compareSortLines(left, right, numeric, ignoreCase) ==
  LET l == parseSortNumber(left)
      r == parseSortNumber(right)
      a == IF ignoreCase THEN Lower(left) ELSE left
      b == IF ignoreCase THEN Lower(right) ELSE right
  IN IF numeric /\ l.ok /\ r.ok
     THEN (IF l.value < r.value THEN -1 ELSE IF l.value > r.value THEN 1 ELSE 0)
     ELSE IF CharsBefore(a, b) THEN -1 ELSE IF CharsBefore(b, a) THEN 1 ELSE 0

\* sort.SliceStable on few lines: each goes back past those it is less than.
InsertLine(less(_, _), sorted, line) ==
  LET stays == {0} \cup {i \in DOMAIN sorted : ~less(line, sorted[i])}
      k == CHOOSE i \in stays : \A j \in stays : j <= i
  IN SubSeq(sorted, 1, k) \o <<line>> \o SubSeq(sorted, k + 1, Len(sorted))

uniqueSortLines(lines, numeric, ignoreCase) ==
  FoldLeft(LAMBDA kept, line :
             IF kept # <<>> /\ compareSortLines(Last(kept), line, numeric, ignoreCase) = 0 THEN kept
             ELSE Append(kept, line),
           <<>>, lines)

SortOptions == Flag({"-r"}, "r") @@ Flag({"-u"}, "u") @@ Flag({"-n"}, "n") @@ Flag({"-f"}, "f")

runSort(st, args) ==
  WithArgs(st, args, SortOptions, LAMBDA p :
    LET all == AllLines(st, p.operands)
        texts == [i \in DOMAIN all.lines |-> all.lines[i].text]
        compare(a, b) == compareSortLines(a, b, Has(p, "n"), Has(p, "f"))
        less(a, b) == IF Has(p, "r") THEN compare(a, b) > 0 ELSE compare(a, b) < 0
        sorted == FoldLeft(LAMBDA done, line : InsertLine(less, done, line), <<>>, texts)
        lines == IF Has(p, "u") THEN uniqueSortLines(sorted, Has(p, "n"), Has(p, "f")) ELSE sorted
    IN IF all.err # "" THEN Ends(all.st, all.err)
       ELSE ForEach(all.st, lines, LAMBDA s, line : Emit(s, Append(line, Newline))))

uniqKeysEqual(left, right, ignoreCase) ==
  IF ignoreCase THEN Lower(left) = Lower(right) ELSE left = right

writeUniqGroup(st, line, count, p) ==
  IF (Has(p, "d") /\ count < 2) \/ (Has(p, "u") /\ count # 1) THEN st
  ELSE WriteLine(st, IF Has(p, "c") THEN [line EXCEPT !.text = Number(count) \o <<" ">> \o @]
                     ELSE line)

UniqOptions == Flag({"-c"}, "c") @@ Flag({"-d"}, "d") @@ Flag({"-u"}, "u") @@ Flag({"-i"}, "i")

\* Runs of equal lines, each shown as its first.
runUniq(st, args) ==
  WithArgs(st, args, UniqOptions, LAMBDA p :
    LET all == AllLines(st, p.operands)
        step(s, line) ==
          IF s.count > 0 /\ uniqKeysEqual(s.line.text, line.text, Has(p, "i"))
          THEN [s EXCEPT !.count = @ + 1]
          ELSE [st |-> IF s.count = 0 THEN s.st ELSE writeUniqGroup(s.st, s.line, s.count, p),
                line |-> line, count |-> 1]
        end == FoldLeft(step, [st |-> all.st, line |-> Line(<<>>, FALSE), count |-> 0], all.lines)
    IN IF Len(p.operands) > 1 THEN Ends(Tell(st), "usage")
       ELSE IF all.err # "" THEN Ends(all.st, all.err)
       ELSE IF end.count = 0 THEN end.st ELSE writeUniqGroup(end.st, end.line, end.count, p))

NoEnd == 1000   \* of a range that is open: no line is as long

parseCutIndex(chars) == IF Atoi(Joined(chars)) < 1 THEN NotANumber ELSE Atoi(Joined(chars))

parseCutRange(part) ==
  LET k == SelectInSeq(part, LAMBDA c : c = "-")
      start == SubSeq(part, 1, k - 1)
      end   == SubSeq(part, k + 1, Len(part))
      range == IF k = 0 THEN <<parseCutIndex(part), parseCutIndex(part)>>
               ELSE <<IF start = <<>> THEN 1 ELSE parseCutIndex(start),
                      IF end = <<>> THEN NoEnd ELSE parseCutIndex(end)>>
  IN [err |-> IF part = <<>> \/ NotANumber \in {range[1], range[2]} \/ range[2] < range[1]
              THEN "invalid list" ELSE "",
      start |-> range[1], end |-> range[2]]
parseCutRanges(raw) ==
  LET parts == Split(Chars(raw), ",") IN [i \in DOMAIN parts |-> parseCutRange(parts[i])]

cutRangeContains(ranges, index) ==
  \E i \in DOMAIN ranges : ranges[i].start <= index /\ index <= ranges[i].end

Chosen(things, ranges) ==
  LET places == SelectSeq([i \in DOMAIN things |-> i], LAMBDA i : cutRangeContains(ranges, i))
  IN [k \in DOMAIN places |-> things[places[k]]]
cutChars(text, ranges) == Chosen(text, ranges)
cutFields(text, delimiter, ranges) ==
  LET fields == Chosen(Split(text, delimiter), ranges)
  IN FlattenSeq([i \in DOMAIN fields |-> IF i = 1 THEN fields[i] ELSE <<delimiter>> \o fields[i]])

CutOptions == Value({"-b"}, "b") @@ Value({"-c"}, "c") @@ Value({"-f"}, "f") @@ Value({"-d"}, "d")
                @@ Flag({"-s"}, "s")

runCut(st, args) ==
  WithArgs(st, args, CutOptions, LAMBDA p :
    LET modes  == SelectSeq(p.opts, LAMBDA o : o.is \in {"b", "c", "f"})
        fields == modes[1].is = "f"
        delimiter == ValueOf(p, "d", "\t")
        ranges == parseCutRanges(modes[1].value)
        cut(s, line) ==
          IF ~fields THEN WriteLine(s, [line EXCEPT !.text = cutChars(@, ranges)])
          ELSE IF Contains(line.text, delimiter)
          THEN WriteLine(s, [line EXCEPT !.text = cutFields(@, delimiter, ranges)])
          ELSE IF Has(p, "s") THEN s ELSE WriteLine(s, line)
    IN IF Len(modes) # 1 THEN Ends(Tell(st), "usage")
       ELSE IF ~fields /\ (delimiter # "\t" \/ Has(p, "s")) THEN Ends(st, "only valid with -f")
       ELSE IF fields /\ Len(delimiter) # 1 THEN Ends(st, "single character")
       ELSE IF \E i \in DOMAIN ranges : ranges[i].err # "" THEN Ends(st, "invalid list")
       ELSE eachCommandLine(st, p.operands, cut))
-----------------------------------------------------------------------------
(* tr, comm and diff.                                                      *)

trRangeRunes(from, to) == SubSeq(Alphabet, ByteOf[from], ByteOf[to])

trClasses ==
  LET digit == trRangeRunes("0", "9")
      upper == trRangeRunes("A", "Z")
      lower == trRangeRunes("a", "z")
  IN [digit |-> digit, upper |-> upper, lower |-> lower, alpha |-> upper \o lower,
      alnum |-> digit \o upper \o lower, blank |-> <<" ", "\t">>, space |-> <<" ", "\t", Newline>>]

\* A class, an escaped character or a character, and what follows it.
parseTrAtom(chars) ==
  LET atom(these, n) == [these |-> these, rest |-> SubSeq(chars, n + 1, Len(chars))]
      named == {c \in DOMAIN trClasses : IsPrefix(Chars("[:" \o c \o ":]"), chars)}
      class == CHOOSE c \in named : TRUE
  IN IF named # {} THEN atom(trClasses[class], Len(class) + 4)
     ELSE IF Head(chars) = "\\" /\ Len(chars) > 1
     THEN atom(<<CASE chars[2] = "n" -> Newline [] chars[2] = "t" -> "\t" [] OTHER -> chars[2]>>, 2)
     ELSE atom(<<Head(chars)>>, 1)

RECURSIVE parseTrSet(_)
parseTrSet(chars) ==
  LET one   == parseTrAtom(chars)
      two   == parseTrAtom(Tail(one.rest))
      range == Len(one.these) = 1 /\ Len(one.rest) > 1 /\ Head(one.rest) = "-"
                 /\ Len(two.these) = 1
      backwards == ByteOf[one.these[1]] > ByteOf[two.these[1]]
      with(these, rest) ==
        LET more == parseTrSet(rest) IN [err |-> more.err, chars |-> these \o more.chars]
  IN IF chars = <<>> THEN [err |-> "", chars |-> <<>>]
     ELSE IF range /\ backwards THEN [err |-> "invalid range", chars |-> <<>>]
     ELSE IF range THEN with(trRangeRunes(one.these[1], two.these[1]), two.rest)
     ELSE with(one.these, one.rest)

\* The first place of a character counts; the last replacement goes on for the rest.
buildTrTranslation(from, to) ==
  [c \in ToSet(from) |->
     LET i == SelectInSeq(from, LAMBDA d : d = c) IN IF i <= Len(to) THEN to[i] ELSE Last(to)]

runTr(st, args) ==
  LET p == ParseOptions(args, Flag({"-d"}, "d") @@ Flag({"-s"}, "s"), TRUE)
      deletes   == Has(p, "d")
      squeezes  == Has(p, "s")
      n         == Len(p.operands)
      from      == parseTrSet(Chars(p.operands[1]))
      to        == IF n = 2 THEN parseTrSet(Chars(p.operands[2])) ELSE from
      translate == IF deletes \/ n = 1 THEN <<>> ELSE buildTrTranslation(from.chars, to.chars)
      step(out, c) ==
        LET r == IF c \in DOMAIN translate THEN translate[c] ELSE c IN
        IF deletes /\ Contains(from.chars, c) THEN out
        ELSE IF squeezes /\ Contains(to.chars, r) /\ out # <<>> /\ Last(out) = r THEN out
        ELSE Append(out, r)
  IN IF p.err # "" THEN Ends(st, p.err)
     ELSE IF \/ ~deletes /\ ~squeezes /\ n # 2
             \/ deletes /\ ~squeezes /\ n # 1
             \/ squeezes /\ n \notin {1, 2}
     THEN Ends(Tell(st), "usage")
     ELSE IF from.err # "" \/ to.err # "" THEN Ends(st, "invalid range")
     ELSE IF ~deletes /\ to.chars = <<>> THEN Ends(st, "empty replacement set")
     ELSE Emit([st EXCEPT !.stdin = <<>>], FoldLeft(step, <<>>, st.stdin))

writeCommLine(st, column, p, text) ==
  LET tabs == Cardinality({c \in 1..(column - 1) : ~Has(p, ToString(c))}) IN
  IF Has(p, ToString(column)) THEN st
  ELSE Emit(st, [i \in 1..tabs |-> "\t"] \o text \o <<Newline>>)

\* The files are taken to be sorted; each step takes the lesser first line.
RECURSIVE commLines(_, _, _, _)
commLines(st, left, right, p) ==
  LET takes(column, l, r) ==
        commLines(writeCommLine(st, column, p, IF column = 2 THEN Head(right) ELSE Head(left)),
                  IF l THEN Tail(left) ELSE left, IF r THEN Tail(right) ELSE right, p)
  IN IF left = <<>> /\ right = <<>> THEN st
     ELSE IF left = <<>> THEN takes(2, FALSE, TRUE)
     ELSE IF right = <<>> THEN takes(1, TRUE, FALSE)
     ELSE IF Head(left) = Head(right) THEN takes(3, TRUE, TRUE)
     ELSE IF CharsBefore(Head(left), Head(right)) THEN takes(1, TRUE, FALSE)
     ELSE takes(2, FALSE, TRUE)

readTextLines(bytes) == LET lines == splitLines(bytes) IN [i \in DOMAIN lines |-> lines[i].text]

WithTwoInputs(st, p, use(_, _, _)) ==
  openCommandInput(st, p.operands[1], LAMBDA s, left :
    openCommandInput(s, p.operands[2], LAMBDA t, right : use(t, left, right)))

runComm(st, args) ==
  WithArgs(st, args, Flag({"-1"}, "1") @@ Flag({"-2"}, "2") @@ Flag({"-3"}, "3"), LAMBDA p :
    IF Len(p.operands) # 2 THEN Ends(Tell(st), "usage")
    ELSE WithTwoInputs(st, p, LAMBDA s, left, right :
           commLines(s, readTextLines(left), readTextLines(right), p)))

\* With "-" twice, the input is compared with itself.
runDiff(st, args) ==
  WithArgs(st, args, Flag({"-q"}, "q") @@ Flag({"-u"}, "u"), LAMBDA p :
    LET judge(s, left, right) ==
          IF left = right THEN s ELSE Ends(Emit(s, <<"differ", Newline>>), "status 1")
    IN IF Len(p.operands) # 2 THEN Ends(Tell(st), "usage")
       ELSE IF p.operands = <<"-", "-">> THEN [st EXCEPT !.stdin = <<>>]
       ELSE WithTwoInputs(st, p, judge))
=============================================================================
