------------------------------- MODULE ShellTest -------------------------------
(***************************************************************************)
(* The commands test and [ (test_classic.go, test.go): a parser over the   *)
(* arguments, which goes on after an error and reports that there was one, *)
(* and the evaluation of what it read.  An operand is a word made of one   *)
(* Lit and is expanded once more.  Times, owners and special files are     *)
(* left out.                                                               *)
(***************************************************************************)
EXTENDS ShellExpand

UnaryOps == {"-e", "-a", "-f", "-d", "-r", "-w", "-x", "-s", "-z", "-n", "-o", "-v", "-L", "-h"}
StringOps == {"=", "==", "!="}
NumberOps == {"-eq", "-ne", "-le", "-ge", "-lt", "-gt"}

Spelling(s) == FoldLeft(LAMBDA text, l : text \o l, "", s)

LitWord(s) == Word(<< Lit(s) >>)
UnaryTest(op, x)     == [type |-> "UnaryTest", op |-> op, x |-> x]
BinaryTest(op, x, y) == [type |-> "BinaryTest", op |-> op, x |-> x, y |-> y]
ParenTest(x)         == [type |-> "ParenTest", x |-> x]

\* The parser: what is left of the arguments, whether an error was reported,
\* and what was read last.
TestParser(args) == [rem |-> args, failed |-> FALSE, expr |-> Nil]
testEof(p)  == p.rem = <<>>
testVal(p)  == IF testEof(p) THEN "" ELSE Spelling(p.rem[1])
testNext(p) == IF testEof(p) THEN p ELSE [p EXCEPT !.rem = Tail(@)]
testErr(p)  == [p EXCEPT !.failed = TRUE]
Read(p, expr) == [p EXCEPT !.expr = expr]

followWord(p) ==
  Read(IF testEof(p) THEN testErr(p) ELSE testNext(p),
       LitWord(IF testEof(p) THEN <<>> ELSE p.rem[1]))

RECURSIVE classicTest(_), classicOr(_), orLoop(_), classicAnd(_), andLoop(_),
          classicBinary(_), testExprBase(_)

classicTest(p) ==
  LET left == classicOr(p) IN
  IF left.expr # Nil /\ ~testEof(left) /\ testVal(left) # ")" THEN testErr(left) ELSE left

Needed(right) == IF right.expr = Nil THEN testErr(right) ELSE right

orLoop(left) ==
  IF testVal(left) # "-o" THEN left
  ELSE LET right == classicAnd(testNext(left))
       IN orLoop(Read(Needed(right), BinaryTest("-o", left.expr, right.expr)))
classicOr(p) == orLoop(classicAnd(p))

andLoop(left) ==
  IF testVal(left) # "-a" THEN left
  ELSE LET right == classicBinary(testNext(left))
       IN andLoop(Read(Needed(right), BinaryTest("-a", left.expr, right.expr)))
classicAnd(p) == andLoop(classicBinary(p))

classicBinary(p) ==
  LET left == testExprBase(p)
      op == testVal(left)
      right == followWord(testNext(left))
  IN IF left.expr = Nil \/ op \notin StringOps \cup NumberOps THEN left
     ELSE Read(right, BinaryTest(op, left.expr, right.expr))

testExprBase(p) ==
  LET op == testVal(p)
      x  == classicBinary(testNext(p))
      in == classicTest(testNext(p))
      w  == followWord(testNext(p))
  IN IF testEof(p) \/ op = ")" THEN Read(p, Nil)
     ELSE CASE op = "!" -> Read(x, UnaryTest("!", x.expr))
            [] op = "(" -> Read(testNext(IF testVal(in) = ")" THEN in ELSE testErr(in)),
                                ParenTest(in.expr))
            [] op \in UnaryOps ->
                 IF testEof(testNext(p)) THEN Read(testNext(p), LitWord(p.rem[1]))
                 ELSE Read(w, UnaryTest(op, w.expr))
            [] OTHER -> followWord(p)
-----------------------------------------------------------------------------
(* Evaluation: a string, empty for false.                                  *)

True  == <<"1">>
Bool(r, b) == Answer(r, IF b THEN True ELSE <<>>)

StatOf(r, path, follow) ==
  LET p == FS!ResolvePath(r.dir, PathOf(path))
  IN IF path = DevNull THEN [err |-> "", ino |-> 0]
     ELSE IF p.err # "" THEN FS!Missing(p.err)
     ELSE FS!Lookup(r.fs, PathTo(p.path), follow)
KindOf(r, path) ==
  LET at == StatOf(r, path, TRUE) IN
  IF at.err # "" THEN "none" ELSE IF at.ino = 0 THEN "device" ELSE r.fs[at.ino].kind
AccessTo(r, path, mode) ==
  LET at == StatOf(r, path, TRUE) IN at.err = "" /\ (at.ino = 0 \/ mode \in r.fs[at.ino].mode)

Option == [l \in {"a", "e", "n", "f", "u"} |->
             CASE l = "a" -> "allexport" [] l = "e" -> "errexit" [] l = "n" -> "noexec"
               [] l = "f" -> "noglob" [] l = "u" -> "nounset"]
OptionNamed(name) == {l \in DOMAIN Option : Option[l] = name} \cup
                     (IF name = "pipefail" THEN {"pipefail"} ELSE {})

\* lookupVar ends the process when it is asked for no name.
unTest(r, op, x) ==
  CASE op \in {"-e", "-a"} -> Bool(r, StatOf(r, x, TRUE).err = "")
    [] op = "-f" -> Bool(r, KindOf(r, x) = "regular")
    [] op = "-d" -> Bool(r, KindOf(r, x) = "directory")
    [] op \in {"-L", "-h"} ->
         LET at == StatOf(r, x, FALSE)
         IN Bool(r, at.err = "" /\ at.ino # 0 /\ r.fs[at.ino].kind = "symlink")
    [] op = "-r" -> Bool(r, AccessTo(r, x, "r"))
    [] op = "-w" -> Bool(r, AccessTo(r, x, "w"))
    [] op = "-x" -> Bool(r, AccessTo(r, x, "x"))
    [] op = "-s" -> Bool(r, KindOf(r, x) = "regular"
                            /\ r.fs[StatOf(r, x, TRUE).ino].data # <<>>)
    [] op = "-z" -> Bool(r, x = <<>>)
    [] op = "-n" -> Bool(r, x # <<>>)
    [] op = "-o" -> Bool(r, OptionNamed(Spelling(x)) \cap r.opts # {})
    [] op = "-v" -> IF LookupPanics(x) THEN Panic(Bool(r, FALSE))
                    ELSE Bool(r, LookupVar(r, Spelling(x)).set)
    [] op = "!"  -> Bool(r, x = <<>>)

binTest(r, op, x, y) ==
  Bool(r, CASE op = "-eq" -> Atoi(x) = Atoi(y)
            [] op = "-ne" -> Atoi(x) # Atoi(y)
            [] op = "-le" -> Atoi(x) <= Atoi(y)
            [] op = "-ge" -> Atoi(x) >= Atoi(y)
            [] op = "-lt" -> Atoi(x) < Atoi(y)
            [] op = "-gt" -> Atoi(x) > Atoi(y)
            [] op = "-a"  -> x # <<>> /\ y # <<>>
            [] op = "-o"  -> x # <<>> \/ y # <<>>)

\* Both sides of every operator are evaluated, and a comparison of strings
\* takes both for words without looking.
RECURSIVE bashTest(_, _)
bashTest(r, x) ==
  IF x = Nil THEN Answer(r, <<>>)
  ELSE CASE x.type = "Word" -> ExpandErr(Document(r, x), <<>>)
         [] x.type = "ParenTest" -> bashTest(r, x.x)
         [] x.type = "UnaryTest" ->
              LET q == bashTest(r, x.x) IN unTest(q, x.op, q.val)
         [] x.type = "BinaryTest" /\ x.op \in StringOps ->
              LET left  == ExpandErr(LiteralOf(r, x.x), <<>>)
                  right == ExpandErr(LiteralOf(left, x.y), <<>>)
              IN IF x.x.type # "Word" THEN Panic(Answer(r, <<>>))
                 ELSE Bool(right, (left.val = right.val) = (x.op # "!="))
         [] x.type = "BinaryTest" /\ x.op \notin StringOps ->
              LET left  == bashTest(r, x.x)
                  right == bashTest(left, x.y)
              IN binTest(right, x.op, left.val, right.val)

\* The builtin: its status, with the runner in whatever state the expansion left it.
Test(r, args) ==
  LET p == classicTest(TestParser(args))
      q == bashTest(r, p.expr)
  IN IF p.failed THEN Answer(Complain(r), Status(2))
     ELSE Answer(q, Status(IF q.val = <<>> THEN 1 ELSE 0))
=============================================================================
