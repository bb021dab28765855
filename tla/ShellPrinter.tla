---------------------------- MODULE ShellPrinter ----------------------------
(***************************************************************************)
(* The shell printer (pkg/sh/syntax/printer.go) with its default options,  *)
(* which are the ones the interpreter uses.                                *)
(*                                                                         *)
(* The trees of ShellParser carry no positions, so a tree is printed as    *)
(* one whose nodes were all written on one line: a newline is there        *)
(* because the printer wants it, never because the source had one, and a   *)
(* redirection follows the arguments.  Indentation is left out.            *)
(*                                                                         *)
(* The printer is a record that each operator returns changed: out is what *)
(* was written, pend the here-documents whose body is still to be written, *)
(* bodies the bodies of the file, and the others are fields of the struct. *)
(* space is wantSpace: "no", "required" or "written".                      *)
(***************************************************************************)
EXTENDS ShellParser

RECURSIVE PrintParts(_, _), PrintStmtList(_, _, _), PrintStmt(_, _),
          PrintArithm(_, _), PrintIf(_, _), StartsWithLparen(_)

ResetPrinter(bodies) ==
  [out |-> <<>>, space |-> "written", wantNewline |-> FALSE,
   mustNewline |-> FALSE, wroteSemi |-> FALSE, firstLine |-> TRUE,
   pend |-> <<>>, bodies |-> bodies]

\* An operator is spelled character by character, for the scanner to read back.
Spelling == Glue @@ ParamGlue @@ ArithmGlue
Pieces(tok) ==
  IF \E d \in DOMAIN Spelling : Spelling[d] = tok
  THEN CHOOSE d \in DOMAIN Spelling : Spelling[d] = tok ELSE <<tok>>
Spell(lexemes) ==
  FlattenSeq([i \in 1..Len(lexemes) |->
    LET two == Pieces(lexemes[i]) IN
    IF Len(two) = 2 THEN Pieces(two[1]) \o <<two[2]>> ELSE two])

Write(p, lexemes) == [p EXCEPT !.out = @ \o Spell(lexemes)]
Required(p) == [p EXCEPT !.space = "required"]
NotRequired(p) == [p EXCEPT !.space = "no"]
Space(p) == [Write(p, <<" ">>) EXCEPT !.space = "written"]

SpacePad(p) == IF p.space = "required" THEN Space(p) ELSE p
WantsNewline(p) == p.mustNewline \/ p.wantNewline
BslashNewl(p) == Write(SpacePad(p), <<"escNewl">>)
SpacedString(p, s) == Required(Write(SpacePad(p), s))
SpacedToken(p, s)  == SpacedString(p, s)
Sep(p) == IF p.wroteSemi THEN p ELSE Write(p, <<";">>)
-----------------------------------------------------------------------------
(* Words.                                                                  *)

PrintWord(p, word) == Required(PrintParts(p, word.parts))

WordJoin(p, words) ==
  FoldLeft(LAMBDA q, w : PrintWord(SpacePad(q), w), p, words)

\* The stop word of a here-document as its line must read.
PrintUnquotedWord(p, word) == Write(p, UnquotedWord(word.parts, FALSE).val)

FlushHeredocs(p) ==
  LET body(q, r) == IF q.bodies[r.hdoc] = Nil THEN q
                    ELSE PrintParts(q, q.bodies[r.hdoc].parts)
      flush(q, r) == NotRequired(PrintUnquotedWord(body(Write(q, <<"nl">>), r), r.word))
      start == [p EXCEPT !.pend = <<>>, !.wantNewline = FALSE, !.space = "written"]
  IN IF p.pend = <<>> THEN p
     ELSE [FoldLeft(flush, start, p.pend) EXCEPT !.mustNewline = TRUE]

Newline(p) ==
  [Write(FlushHeredocs(p), <<"nl">>)
     EXCEPT !.space = "written", !.wantNewline = FALSE, !.mustNewline = FALSE]

Newlines(p) ==
  IF p.firstLine THEN [p EXCEPT !.firstLine = FALSE]
  ELSE IF WantsNewline(p) THEN Newline(p) ELSE p

\* Slip: no semicolon before the reserved word.
SemiOrNewlBare(p, s) ==
  Required(Write(IF WantsNewline(p) THEN Newline(p) ELSE Space(p), s))

SemiOrNewl(p, s) ==
  Required(Write(IF WantsNewline(p) THEN Newline(p) ELSE Space(Sep(p)), s))

SemiRsrv(p, s) ==
  Required(Write(IF WantsNewline(p) THEN Newlines(p) ELSE SpacePad(Sep(p)), s))

RightParen(p) == Required(Write(Newlines(p), <<")">>))

NestedStmts(p, stmts) ==
  LET q == IF Len(stmts) > 1 THEN [p EXCEPT !.wantNewline = TRUE] ELSE p
  IN PrintStmtList(q, stmts, Len(stmts) = 1 /\ ~q.wantNewline)

PrintParamExp(p, pe) ==
  LET open == Write(p, <<IF pe.short THEN "$" ELSE "${">>)
      name == Write(Write(open, IF pe.length THEN <<"#">> ELSE <<>>), <<pe.param>>)
      exp  == Write(name, IF pe.op = "" THEN <<>>
                          ELSE <<pe.op>>)
      word == IF pe.word = Nil THEN exp ELSE PrintWord(exp, pe.word)
  IN IF pe.short THEN name ELSE Write(word, <<"}">>)

PrintCmdSubst(p, stmts) ==
  LET lparen == stmts # <<>> /\ StartsWithLparen(stmts[1])
      q == [Write(p, <<"$(">>) EXCEPT !.space = IF lparen THEN "required" ELSE "no"]
  IN RightParen(NestedStmts(q, stmts))

PrintWordPart(p, wp) ==
  CASE wp.type = "Lit"       -> Write(p, wp.value)
    [] wp.type = "SglQuoted" -> Write(p, <<"'">> \o wp.value \o <<"'">>)
    [] wp.type = "DblQuoted" ->
         Write(PrintParts(Write(p, <<"dq">>), wp.parts), <<"dq">>)
    [] wp.type = "CmdSubst"  -> PrintCmdSubst(p, wp.stmts)
    [] wp.type = "ParamExp"  -> PrintParamExp(p, wp)
    [] wp.type = "ArithmExp" ->
         Write(PrintArithm(Write(p, <<"$((">>), wp.x), <<")", ")">>)

PrintParts(p, wps) == FoldLeft(PrintWordPart, p, wps)

PrintArithm(p, x) ==
  CASE x.type = "Word" -> PrintWord(p, x)
    [] x.type = "BinaryArithm" ->
         LET left == PrintArithm(p, x.x)
             op   == Write(IF x.op = "," THEN left ELSE Space(left), <<x.op>>)
         IN PrintArithm(Space(op), x.y)
    [] x.type = "UnaryArithm" ->
         IF x.post THEN Write(PrintArithm(p, x.x), <<x.op>>)
         ELSE PrintArithm(Write(p, <<x.op>>), x.x)
    [] x.type = "ParenArithm" ->
         Write(PrintArithm(Write(p, <<"(">>), x.x), <<")">>)
-----------------------------------------------------------------------------
(* Statements and commands.                                                *)

StartsWithLparen(stmt) ==
  \/ stmt.cmd.type = "Subshell"
  \/ stmt.cmd.type = "Binary" /\ StartsWithLparen(stmt.cmd.x)

PrintAssigns(p, assigns) ==
  LET assign(q, a) ==
        LET name == Write(IF WantsNewline(q) THEN BslashNewl(q) ELSE SpacePad(q),
                          <<a.name, "=">>)
        IN Required(IF a.value = Nil THEN name ELSE PrintWord(name, a.value))
  IN FoldLeft(assign, p, assigns)

CasePatternJoin(p, patterns) ==
  LET join(q, i) ==
        LET bar == IF i > 1 THEN SpacedToken(q, <<"|">>) ELSE q IN
        PrintWord(IF WantsNewline(bar) THEN BslashNewl(bar) ELSE SpacePad(bar),
                  patterns[i])
      esac == patterns[1] = Word(<<Lit(<<"esac">>)>>)
  IN FoldLeft(join, IF esac THEN Write(p, <<"(">>) ELSE p,
              [i \in 1..Len(patterns) |-> i])

PrintCaseItem(p, item) ==
  LET q    == CasePatternJoin(SpacePad(Newlines(p)), item.patterns)
      body == NestedStmts(Required(Write(q, <<")">>)), item.stmts)
      sep  == IF Len(item.stmts) > 1
              THEN [Newlines(body) EXCEPT !.wantNewline = TRUE] ELSE body
  IN [SpacedToken(sep, <<";", ";">>) EXCEPT !.wroteSemi = TRUE]

PrintIf(p, clause) ==
  LET then == NestedStmts(SemiOrNewl(NestedStmts(p, clause.cond), <<"then">>),
                          clause.then)
      rest == clause.else
  IN IF rest = Nil THEN then
     ELSE IF rest.cond # <<>> THEN PrintIf(SemiRsrv(then, <<"elif">>), rest)
     ELSE NestedStmts(SemiRsrv(then, <<"else">>), rest.then)

PrintDo(p, stmts) ==
  SemiRsrv(NestedStmts(SemiOrNewl(p, <<"do">>), stmts), <<"done">>)

PrintSubshell(p, stmts) ==
  LET q == [Write(p, <<"(">>) EXCEPT !.space =
              IF StartsWithLparen(stmts[1]) /\ Len(stmts) = 1 THEN "required" ELSE "no"]
  IN RightParen(NotRequired(NestedStmts(SpacePad(q), stmts)))

PrintCommand(p0, cmd) ==
  LET p == SpacePad(p0) IN
  CASE cmd.type = "Call"  -> WordJoin(PrintAssigns(p, cmd.assigns), cmd.args)
    [] cmd.type = "Block" ->
         LET q == [Required(Write(p, <<"{">>)) EXCEPT !.wroteSemi = TRUE]
         IN SemiRsrv(NestedStmts(q, cmd.stmts), <<"}">>)
    [] cmd.type = "Subshell" -> PrintSubshell(p, cmd.stmts)
    [] cmd.type = "If" -> SemiRsrv(PrintIf(SpacedString(p, <<"if">>), cmd), <<"fi">>)
    [] cmd.type = "While" ->
         LET q == SpacedString(p, <<IF cmd.until THEN "until" ELSE "while">>)
         IN PrintDo(NestedStmts(q, cmd.cond), cmd.do)
    [] cmd.type = "For" ->
         LET q == Write(p, <<"for", " ">> \o cmd.name.value) IN
         PrintDo(IF cmd.in THEN WordJoin(SpacedString(q, <<" ", "in">>), cmd.items) ELSE q,
                 cmd.do)
    [] cmd.type = "Binary" ->
         PrintStmt(SpacedToken(PrintStmt(p, cmd.x), <<cmd.op>>), cmd.y)
    [] cmd.type = "Func" ->
         PrintStmt(Space(Write(SpacedString(p, cmd.name), <<"(", ")">>)), cmd.body)
    [] cmd.type = "Case" ->
         LET q == Required(Write(PrintWord(Write(p, <<"case", " ">>), cmd.word),
                                 <<" ", "in">>))
             r == [q EXCEPT !.mustNewline = @ \/ cmd.items = <<>>]
         IN SemiRsrv(FoldLeft(PrintCaseItem, r, cmd.items), <<"esac">>)

PrintRedirect(p, r) ==
  LET q == SpacePad(IF WantsNewline(p) THEN BslashNewl(p) ELSE p)
      n == Write(q, (IF r.n = Nil THEN <<>> ELSE r.n.value) \o <<r.op>>)
      w == PrintWord(Required(n), r.word)
  IN IF r.op \in {"<<", "<<-"} THEN [w EXCEPT !.pend = Append(@, r)] ELSE w

PrintStmt(p, s) ==
  LET q == [p EXCEPT !.wroteSemi = FALSE]
      n == IF s.negated THEN SpacedString(q, <<"!">>) ELSE q
      c == IF s.cmd = Nil THEN n ELSE PrintCommand(n, s.cmd)
      r == FoldLeft(PrintRedirect, c, s.redirs)
  IN IF s.background
     THEN Required([Write(Space(r), <<"&">>) EXCEPT !.wroteSemi = TRUE]) ELSE r

PrintStmtList(p, stmts, alone) ==
  LET one(q, s) == [PrintStmt(Newlines(q), s) EXCEPT !.wantNewline = TRUE]
      q == FoldLeft(one, p, stmts)
  IN IF alone THEN [q EXCEPT !.wantNewline = FALSE] ELSE q

\* A file, as lexemes the scanner reads one by one.
Printed(file) ==
  FlushHeredocs(Newline(PrintStmtList(ResetPrinter(file.bodies), file.stmts, FALSE))).out
=============================================================================
