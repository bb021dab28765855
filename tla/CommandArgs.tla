---------------------------- MODULE CommandArgs ----------------------------
(***************************************************************************)
(* How the commands built into an agent's shell read their arguments: the  *)
(* options of POSIX utilities (pkg/sh/internal/posixargs.go), numbers, and *)
(* the modes of chmod and mkdir (pkg/sh/moreinterp/coreutils/mode.go).     *)
(*                                                                         *)
(* An argument is a string, read one character at a time where the code    *)
(* does.  A mode is the set of its permission bits: "r", "w" and "x" are   *)
(* the owner's, "gr" is the group's first, "ow" the others' second.        *)
(***************************************************************************)
EXTENDS Integers, Sequences, SequencesExt, FiniteSets

Chars(word) == [i \in 1..Len(word) |-> SubSeq(word, i, i)]
Joined(chars) == FoldLeft(LAMBDA word, c : word \o c, "", chars)
HasPrefix(word, prefix) ==
  Len(word) >= Len(prefix) /\ SubSeq(word, 1, Len(prefix)) = prefix

\* The order of strings is that of their bytes.
Alphabet == Chars("\t !#$%&()*+,-./0123456789:;<=>?@ABCDEFGHIJKLMNOPQRSTUVWXYZ[]^_"
                    \o "abcdefghijklmnopqrstuvwxyz{|}~")
ByteOf == [c \in ToSet(Alphabet) |-> CHOOSE i \in DOMAIN Alphabet : Alphabet[i] = c]
CharsBefore(a, b) ==
  \E i \in 1..Len(b) :
    /\ i <= Len(a) + 1 /\ SubSeq(a, 1, i - 1) = SubSeq(b, 1, i - 1)
    /\ i <= Len(a) => ByteOf[a[i]] < ByteOf[b[i]]
Before(a, b) == CharsBefore(Chars(a), Chars(b))
Sorted(names) ==
  [i \in 1..Cardinality(names) |->
     CHOOSE n \in names : Cardinality({m \in names : Before(m, n)}) = i - 1]

\* strings.Split: what lies between the separators, empty pieces included.
Split(chars, sep) ==
  LET ends == Append(SelectSeq([i \in DOMAIN chars |-> i], LAMBDA i : chars[i] = sep),
                     Len(chars) + 1)
      start(k) == IF k = 1 THEN 1 ELSE ends[k - 1] + 1
  IN [k \in DOMAIN ends |-> SubSeq(chars, start(k), ends[k] - 1)]

Digits == <<"0", "1", "2", "3", "4", "5", "6", "7", "8", "9">>
isDigit(c) == \E i \in DOMAIN Digits : Digits[i] = c
NotANumber == -1

\* strconv.Atoi of a number that is not negative.
Atoi(word) ==
  LET chars  == Chars(word)
      digits == IF chars # <<>> /\ Head(chars) = "+" THEN Tail(chars) ELSE chars
      digit(c) == (CHOOSE i \in DOMAIN Digits : Digits[i] = c) - 1
  IN IF digits = <<>> \/ \E i \in DOMAIN digits : ~isDigit(digits[i]) THEN NotANumber
     ELSE FoldLeft(LAMBDA n, c : 10 * n + digit(c), 0, digits)
-----------------------------------------------------------------------------
(* Options.  A specification maps each spelling to the option it is and    *)
(* whether it takes a value.                                               *)

Flag(names, is)  == [n \in names |-> [is |-> is, takes |-> FALSE]]
Value(names, is) == [n \in names |-> [is |-> is, takes |-> TRUE]]

Parsed(opts, operands) == [err |-> "", opts |-> opts, operands |-> operands]
NotParsed(err)         == [err |-> err, opts |-> <<>>, operands |-> <<>>]

WithOption(is, value, rest) ==
  IF rest.err # "" THEN rest
  ELSE [rest EXCEPT !.opts = <<[is |-> is, value |-> value]>> \o @]
WithOperand(word, rest) ==
  IF rest.err # "" THEN rest ELSE [rest EXCEPT !.operands = <<word>> \o @]

isOptionToken(word) == Len(word) >= 2 /\ SubSeq(word, 1, 1) \in {"-", "+"}

RECURSIVE ParseOptions(_, _, _), ParseCluster(_, _, _, _, _)

isEndMarker(word) == word = "--"

\* With stop, the first operand ends the options.
ParseOptions(args, spec, stop) ==
  IF args = <<>> THEN Parsed(<<>>, <<>>)
  ELSE LET word == Head(args)
           rest == Tail(args)
           cut  == Split(Chars(word), "=")
           name == Joined(cut[1])
           value == IF Len(cut) > 1 THEN SubSeq(word, Len(name) + 2, Len(word)) ELSE ""
       IN IF isEndMarker(word) THEN Parsed(<<>>, rest)
          ELSE IF ~isOptionToken(word)
          THEN IF stop THEN Parsed(<<>>, args)
               ELSE WithOperand(word, ParseOptions(rest, spec, stop))
          ELSE IF ~HasPrefix(word, "--")
          THEN ParseCluster(SubSeq(word, 1, 1), Tail(Chars(word)), rest, spec, stop)
          ELSE IF name \notin DOMAIN spec \/ (Len(cut) > 1 /\ ~spec[name].takes)
          THEN NotParsed("unknown option")
          ELSE IF ~spec[name].takes \/ Len(cut) > 1
          THEN WithOption(spec[name].is, value, ParseOptions(rest, spec, stop))
          ELSE IF rest = <<>> THEN NotParsed("missing value")
          ELSE WithOption(spec[name].is, Head(rest), ParseOptions(Tail(rest), spec, stop))

\* The letters of -abc; a value is what follows its letter, or the next word.
ParseCluster(prefix, letters, rest, spec, stop) ==
  IF letters = <<>> THEN ParseOptions(rest, spec, stop)
  ELSE LET name == prefix \o Head(letters) IN
       IF name \notin DOMAIN spec THEN NotParsed("unknown option")
       ELSE IF ~spec[name].takes
       THEN WithOption(spec[name].is, "", ParseCluster(prefix, Tail(letters), rest, spec, stop))
       ELSE IF Tail(letters) # <<>>
       THEN WithOption(spec[name].is, Joined(Tail(letters)), ParseOptions(rest, spec, stop))
       ELSE IF rest = <<>> THEN NotParsed("missing value")
       ELSE WithOption(spec[name].is, Head(rest), ParseOptions(Tail(rest), spec, stop))

Has(parsed, is) == \E i \in DOMAIN parsed.opts : parsed.opts[i].is = is
ValuesOf(parsed, is) ==
  LET of == SelectSeq(parsed.opts, LAMBDA o : o.is = is)
  IN [i \in DOMAIN of |-> of[i].value]
\* The last one counts.
ValueOf(parsed, is, default) ==
  LET values == ValuesOf(parsed, is) IN IF values = <<>> THEN default ELSE Last(values)
-----------------------------------------------------------------------------
(* Modes.                                                                  *)

AllClasses == {"u", "g", "o"}
Permissions == {"r", "w", "x"}
Bit(class, perm) == IF class = "u" THEN perm ELSE class \o perm
Bits(classes, perms) == {Bit(class, perm) : class \in classes, perm \in perms}
Special == [u |-> "setuid", g |-> "setgid", o |-> "sticky"]
FullMode == Bits(AllClasses, Permissions)

Expression(absolute, bits, clauses) ==
  [err |-> "", absolute |-> absolute, bits |-> bits, clauses |-> clauses]
NoExpression == [Expression(FALSE, {}, <<>>) EXCEPT !.err = "invalid mode"]

isOctalMode(chars) == chars # <<>> /\ \A i \in DOMAIN chars : chars[i] \in ToSet(SubSeq(Digits, 1, 8))

\* The bits of an octal digit, for one class or for the special bits.
OctalBits(c, four, two, one) ==
  LET n == Atoi(c) IN
  (IF n >= 4 THEN {four} ELSE {}) \cup (IF n % 4 >= 2 THEN {two} ELSE {})
    \cup (IF n % 2 = 1 THEN {one} ELSE {})

parseOctal(chars) ==
  LET padded == <<"0", "0", "0", "0">> \o chars
      n      == Len(padded)
      class(c, digit) == OctalBits(digit, Bit(c, "r"), Bit(c, "w"), Bit(c, "x"))
  IN IF \E i \in 1..(n - 4) : padded[i] # "0" THEN NoExpression
     ELSE Expression(TRUE, OctalBits(padded[n - 3], Special["u"], Special["g"], Special["o"])
                             \cup class("u", padded[n - 2]) \cup class("g", padded[n - 1])
                             \cup class("o", padded[n]), <<>>)

parseModeClause(chars) ==
  LET who(c) == c \in AllClasses \cup {"a"}
      k == SelectInSeq(chars, LAMBDA c : ~who(c))   \* the operator's place
      classes == {chars[i] : i \in 1..(k - 1)}
      perms == SubSeq(chars, k + 1, Len(chars))
  IN IF k = 0 THEN [err |-> "missing operator"]
     ELSE IF chars[k] \notin {"+", "-", "="}
             \/ ~(ToSet(perms) \subseteq Permissions \cup AllClasses \cup {"X", "s", "t"})
     THEN [err |-> "invalid"]
     ELSE [err |-> "", who |-> IF "a" \in classes THEN AllClasses ELSE classes,
           op |-> chars[k], perms |-> perms]

parseModeExpression(mode) ==
  LET chars   == Chars(mode)
      raws    == Split(chars, ",")
      clauses == [i \in DOMAIN raws |-> parseModeClause(raws[i])]
  IN IF mode = "" THEN Expression(FALSE, {}, <<>>)
     ELSE IF isOctalMode(chars) THEN parseOctal(chars)
     ELSE IF \E i \in DOMAIN clauses : clauses[i].err # "" THEN NoExpression
     ELSE Expression(FALSE, {}, clauses)

classBits(who) == Bits(who, Permissions) \cup {Special[c] : c \in who}

\* What the permissions of a clause stand for, given the bits before it.
clauseBits(bits, who, perms, isDir) ==
  LET of(p) ==
        CASE p \in Permissions -> Bits(who, {p})
          [] p = "X" -> IF isDir \/ bits \cap Bits(AllClasses, {"x"}) # {}
                        THEN Bits(who, {"x"}) ELSE {}
          [] p = "s" -> {Special[c] : c \in who \ {"o"}}
          [] p = "t" -> IF "o" \in who THEN {Special["o"]} ELSE {}
          [] OTHER   -> Bits(who, {q \in Permissions : Bit(p, q) \in bits})
  IN UNION {of(p) : p \in ToSet(perms)}

ApplyClause(bits, clause, isDir) ==
  LET who == IF clause.who = {} THEN AllClasses ELSE clause.who
      set == clauseBits(bits, who, clause.perms, isDir)
  IN CASE clause.op = "+" -> bits \cup set
       [] clause.op = "-" -> bits \ set
       [] OTHER           -> (bits \ classBits(who)) \cup set

Apply(expr, bits, isDir) ==
  IF expr.absolute THEN expr.bits
  ELSE FoldLeft(LAMBDA b, clause : ApplyClause(b, clause, isDir), bits, expr.clauses)
=============================================================================
