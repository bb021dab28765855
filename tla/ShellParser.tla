---------------------------- MODULE ShellParser ----------------------------
(***************************************************************************)
(* The shell parser (pkg/sh/syntax/parser.go, parser_arithm.go) for        *)
(* LangPOSIX.  Every operator takes the parser and returns it with what it *)
(* parsed in node, Nil when it parsed nothing; after an error the input is *)
(* empty, as it is for the code, and what is returned does not matter.     *)
(*                                                                         *)
(* Positions, comments and error recovery are left out, and so is what     *)
(* LangPOSIX refuses (checkLang): there the parser fails, as the code does *)
(***************************************************************************)
EXTENDS ShellLexer, FiniteSets

With(p, node) == [p EXCEPT !.node = node]

Lit(val)         == [type |-> "Lit", value |-> val]
Word(parts)      == [type |-> "Word", parts |-> parts]
SglQuoted(val)   == [type |-> "SglQuoted", value |-> val]
DblQuoted(parts) == [type |-> "DblQuoted", parts |-> parts]
CmdSubst(stmts)  == [type |-> "CmdSubst", stmts |-> stmts]
ArithmExp(x)     == [type |-> "ArithmExp", x |-> x]
ParamExp(short, length, param, op, word) ==
  [type |-> "ParamExp", short |-> short, length |-> length, param |-> param,
   op |-> op, word |-> word]
Stmt(cmd) ==
  [type |-> "Stmt", negated |-> FALSE, background |-> FALSE, redirs |-> <<>>,
   cmd |-> cmd]
Call(assigns, args) == [type |-> "Call", assigns |-> assigns, args |-> args]
Assign(name, value) == [type |-> "Assign", name |-> name, value |-> value]
Redirect(n, op, word, hdoc) ==
  [type |-> "Redirect", n |-> n, op |-> op, word |-> word, hdoc |-> hdoc]
Binary(op, x, y) == [type |-> "Binary", op |-> op, x |-> x, y |-> y]
Block(stmts)     == [type |-> "Block", stmts |-> stmts]
Subshell(stmts)  == [type |-> "Subshell", stmts |-> stmts]
If(cond, then, else) ==
  [type |-> "If", cond |-> cond, then |-> then, else |-> else]
While(until, cond, do) ==
  [type |-> "While", until |-> until, cond |-> cond, do |-> do]
For(name, in, items, do) ==
  [type |-> "For", name |-> name, in |-> in, items |-> items, do |-> do]
Case(word, items) == [type |-> "Case", word |-> word, items |-> items]
CaseItem(patterns, stmts) ==
  [type |-> "CaseItem", patterns |-> patterns, stmts |-> stmts]
Func(name, body)  == [type |-> "Func", name |-> name, body |-> body]
BinaryArithm(op, x, y) ==
  [type |-> "BinaryArithm", op |-> op, x |-> x, y |-> y]
UnaryArithm(op, post, x) ==
  [type |-> "UnaryArithm", op |-> op, post |-> post, x |-> x]
ParenArithm(x)    == [type |-> "ParenArithm", x |-> x]

RECURSIVE SkipSpace(_), NextKeepSpaces(_), HdocBodies(_, _, _), Parts(_, _),
          QuotedText(_, _, _, _), Stmts(_, _, _, _), AndOr(_, _),
          GetStmt(_, _, _), GotStmtPipe(_, _, _), Pipeline(_, _), CallLoop(_, _, _),
          Redirects(_, _), WordList(_, _), IfRest(_), CasePatterns(_, _),
          CaseItems(_, _), ArithmBinary(_, _), ArithmLoop(_, _, _),
          ArithmTernary(_), ArithmUnary(_), ParseParamExp(_)

PreNested(p, quote) ==
  [p EXCEPT !.quote = quote, !.buried = Len(p.heredocs)]
PostNested(p, old) ==
  [p EXCEPT !.quote = old.quote, !.buried = old.buried]
-----------------------------------------------------------------------------
(* Tokens.                                                                 *)

Comment(p) ==
  LET l == Literal(p.in, {"nl", "escNewl"} \cup
                         IF BackquoteEnd(p) THEN {"bq"} ELSE {}, <<>>)
  IN [p EXCEPT !.in = l.in]

Tokenize(p) ==
  CASE p.quote \in RegStates ->
         IF R(p) \in RegOps THEN RegToken(p)
         ELSE IF R(p) = "#" /\ ~(p.quote = "unquotedWordCont" /\ ~p.spaced)
         THEN SkipSpace([Comment(p) EXCEPT !.spaced = FALSE])
         ELSE AdvanceLitNone(p)
    [] p.quote = "arithmExpr" /\ R(p) \in ArithmOps -> ArithmToken(p)
    [] OTHER -> IF R(p) \in RegOps THEN RegToken(p) ELSE AdvanceLitOther(p)

NextKeepSpaces(p) ==
  LET hdoc == p.quote \in {"hdocBody", "hdocBodyTabs"} IN
  IF R(p) = "escNewl" /\ ~hdoc THEN NextKeepSpaces(Rune(p))
  ELSE CASE p.quote = "runeByRune" -> [p EXCEPT !.tok = "illegal"]
         [] p.quote = "dblQuotes" ->
              IF R(p) \in {"bq", "dq", "$"} THEN DqToken(p) ELSE AdvanceLitDquote(p)
         [] hdoc ->
              IF R(p) \in {"bq", "$"} THEN DqToken(p) ELSE AdvanceLitHdoc(p)
         [] p.quote = "paramExpExp" ->
              IF R(p) = "}" THEN ParamToken(p)
              ELSE IF R(p) \in {"bq", "dq", "$", "'"} THEN RegToken(p)
              ELSE AdvanceLitOther(p)

Next(p) ==
  IF p.in = <<>> THEN [p EXCEPT !.tok = "EOF"]
  ELSE LET q == [p EXCEPT !.spaced = FALSE] IN
       IF p.quote \in KeepSpaces THEN NextKeepSpaces(q) ELSE SkipSpace(q)

Got(p, tok) == IF p.tok = tok THEN Next(p) ELSE p

IsRsrv(p, val)  == p.tok = "LitWord" /\ p.val = <<val>>
GotRsrv(p, val) == IF IsRsrv(p, val) THEN Next(p) ELSE p
FollowRsrv(p, val) == IF IsRsrv(p, val) THEN Next(p) ELSE ErrPass(p)
Matched(p, right)  == IF p.tok = right THEN Next(p) ELSE ErrPass(p)

StopToken(p) ==
  \/ p.tok \in {"EOF", "Newl", ";", "&", "|", "&&", "||", ";;", ")"}
  \/ p.tok = "bq" /\ BackquoteEnd(p)

HasValidIdent(p) ==
  /\ p.tok \in {"Lit", "LitWord"} /\ p.eql > 1
  /\ ValidName(SubSeq(p.val, 1, p.eql - 1))
-----------------------------------------------------------------------------
(* Words.                                                                  *)

WordParts(p) ==
  IF p.quote = "noState"
  THEN [Parts([p EXCEPT !.quote = "unquotedWordCont"], <<>>)
          EXCEPT !.quote = "noState"]
  ELSE Parts(p, <<>>)

WordAnyNumber(p) == LET q == WordParts(p) IN With(q, Word(q.node))

GetWord(p) ==
  LET q == WordAnyNumber(p) IN
  IF q.node.parts = <<>> \/ q.err THEN With(q, Nil) ELSE q

FollowWordTok(p) ==
  LET q == GetWord(p) IN IF q.node = Nil THEN ErrPass(q) ELSE q

GetLit(p) ==
  IF p.tok \in {"Lit", "LitWord", "LitRedir"}
  THEN LET l == Lit(p.val) IN With(Next(p), l) ELSE With(p, Nil)

EnsureNoNested(p) == ErrUnless(p, ~p.forbid)

ParseCmdSubst(p) ==
  LET q == Stmts(Next(PreNested(p, "subCmd")), {}, TRUE, <<>>)
  IN With(Matched(PostNested(q, p), ")"), CmdSubst(q.node))

\* The scanner leaves both backquotes to the parser.
Backquoted(p) ==
  LET q == Next(Rune([PreNested(p, "subCmdBckquo") EXCEPT !.ticks = @ + 1]))
      s == Stmts(q, {}, TRUE, <<>>)
      t == Rune([PostNested(s, p) EXCEPT !.ticks = p.ticks])
  IN With(Matched(t, "bq"), CmdSubst(s.node))

ParseDblQuoted(p) ==
  LET q == WordParts(Next([p EXCEPT !.quote = "dblQuotes"]))
  IN With(Matched([q EXCEPT !.quote = p.quote], "dq"), DblQuoted(q.node))

ParseSglQuoted(p) ==
  LET end == SelectInSeq(p.in, LAMBDA l : l = "'")
      raw == IF end = 0 THEN <<>> ELSE SubSeq(p.in, 1, end - 1)
      val == FlattenSeq([i \in 1..Len(raw) |->
               IF raw[i] = "escNewl" THEN <<"bs", "nl">> ELSE <<raw[i]>>])
  IN IF end = 0 THEN With(ErrPass([p EXCEPT !.tok = "EOF"]), Nil)
     ELSE With(Next([p EXCEPT !.in = SubSeq(@, end + 1, Len(@))]), SglQuoted(val))

WordPart(p) ==
  CASE p.tok \in {"Lit", "LitWord", "LitRedir"} -> GetLit(p)
    [] p.tok = "${" ->
         LET q == EnsureNoNested(p) IN
         IF R(q) \in {"|", " ", "tab", "nl"} THEN With(ErrPass(q), Nil)
         ELSE ParseParamExp(q)
    [] p.tok = "$((" ->
         LET q == ArithmBinary(Next(PreNested(EnsureNoNested(p), "arithmExpr")), 1)
             x == ErrUnless(q, q.node # Nil)
             e == Rune(ErrUnless(x, x.tok = ")" /\ R(x) = ")"))
         IN With(Next(PostNested(e, p)), ArithmExp(q.node))
    [] p.tok = "$(" -> ParseCmdSubst(EnsureNoNested(p))
    [] p.tok = "$" ->
         LET q == ParseParamExp(p) IN
         IF q.node = Nil THEN With(Next(q), Lit(<<"$">>))
         ELSE EnsureNoNested(q)
    [] p.tok = "'" -> ParseSglQuoted(p)
    [] p.tok = "dq" ->
         IF p.quote = "dblQuotes" THEN With(p, Nil) ELSE ParseDblQuoted(p)
    [] p.tok = "bq" ->
         IF BackquoteEnd(p) THEN With(p, Nil) ELSE Backquoted(EnsureNoNested(p))
    [] OTHER -> With(p, Nil)

Parts(p, wps) ==
  LET n == WordPart([p EXCEPT !.open = @ + 1])
      q == [n EXCEPT !.open = p.open]
  IN IF q.node = Nil THEN With(q, wps)
     ELSE IF q.spaced THEN With(q, Append(wps, q.node))
     ELSE Parts(q, Append(wps, q.node))

\* The name after "$" or "${"; Nil when there is none after "$".
ParamExpParameter(p, short, length) ==
  LET named(q, param, len) == With(q, [param |-> param, length |-> len]) IN
  IF R(p) \in {"?", "-"} /\ length /\ Peek(p) # "}" THEN named(p, "#", FALSE)
  ELSE IF R(p) \in {"?", "-", "@", "*", "#", "!", "$"} \cup Names \cup Numbers
  THEN named(Rune(p), R(p), length)
  ELSE IF short THEN With(p, Nil)
  ELSE named(ErrPass(p), "", length)

ParamExpExp(p) ==
  LET op == p.tok
      q  == GetWord(Next([p EXCEPT !.quote = "paramExpExp"]))
  IN With(q, [op |-> op, word |-> q.node])

ParseParamExp(p) ==
  LET short  == p.tok = "$"
      start  == [p EXCEPT !.quote = "runeByRune"]
      before == Peek(p) \in SpecialParams \cup Names \cup {"eof", "dq"}
      prefix == ~short /\ before /\ R(p) \in {"#", "%", "!", "+"}
      length == prefix /\ R(p) = "#"
      q == IF length THEN Rune(start) ELSE ErrUnless(start, ~prefix)
      n == ParamExpParameter(q, short, length)
      t == ParamToken(ErrUnless(n, R(n) # "["))
      ops == {"+", ":+", "-", ":-", "?", ":?", "=", ":=", "%", "%%", "#", "##"}
      u == ErrUnless(t, t.tok = "EOF" \/ (~n.node.length /\ t.tok \in ops))
      e == IF u.tok = "EOF" THEN With(u, [op |-> "", word |-> Nil])
           ELSE ParamExpExp(u)
      c == IF e.tok \in {"EOF", "}"} THEN e ELSE ParamToken(e)
  IN IF n.node = Nil THEN With([n EXCEPT !.quote = p.quote], Nil)
     ELSE IF short
     THEN With(Next([n EXCEPT !.quote = p.quote]),
               ParamExp(TRUE, FALSE, n.node.param, "", Nil))
     ELSE IF t.tok = "}"
     THEN With(Next([t EXCEPT !.quote = p.quote]),
               ParamExp(FALSE, n.node.length, n.node.param, "", Nil))
     ELSE With(Matched([c EXCEPT !.quote = p.quote], "}"),
               ParamExp(FALSE, FALSE, n.node.param, e.node.op, e.node.word))
-----------------------------------------------------------------------------
(* Arithmetic: left-associative binary operators by level of precedence,   *)
(* with assignment after the comma and the conditional after it.           *)

ArithmLevels ==
  << {","}, {"assign"}, {"ternary"}, {"||"}, {"&&"}, {"|"}, {"^"}, {"&"},
     {"==", "!="}, {"<", ">", "<=", ">="}, {"<<", ">>"}, {"+", "-"},
     {"*", "/", "%"}, {"power"} >>

AssignOps == {"=", "+=", "-=", "*=", "/=", "%=", "&=", "|=", "^=", "<<=", ">>="}

IsArithName(x) ==
  /\ x.type = "Word" /\ Len(x.parts) = 1
  /\ x.parts[1].type = "Lit" /\ ValidName(x.parts[1].value)

NextArith(p) == Got(Next(p), "Newl")

\* The operand that must follow an operator.
Operand(p) == ErrUnless(p, p.node # Nil)

ArithmAssign(p) ==
  LET q == ArithmTernary(p) IN
  IF q.tok \notin AssignOps THEN q
  ELSE LET y == Operand(ArithmBinary(NextArith(ErrUnless(q, IsArithName(q.node))), 2))
       IN With(y, BinaryArithm(q.tok, q.node, y.node))

ArithmTernary(p) ==
  LET q == ArithmBinary(p, 4) IN
  IF q.tok # "?" THEN q
  ELSE LET c == NextArith(Operand(q))
           t == Operand(ArithmBinary(ErrUnless(c, c.tok # ":"), 1))
           e == Operand(ArithmTernary(NextArith(ErrUnless(t, t.tok = ":"))))
       IN With(e, BinaryArithm("?", q.node, BinaryArithm(":", t.node, e.node)))

ArithmPower(p) ==
  LET q == ArithmUnary(p) IN
  IF q.tok # "**" THEN q
  ELSE LET y == Operand(ArithmBinary(NextArith(Operand(q)), 14))
       IN With(y, BinaryArithm("**", q.node, y.node))

ArithmLoop(p, level, x) ==
  IF p.tok \notin ArithmLevels[level] THEN With(p, x)
  ELSE LET y == Operand(ArithmBinary(NextArith(ErrUnless(p, x # Nil)), level + 1))
       IN ArithmLoop(y, level, BinaryArithm(p.tok, x, y.node))

ArithmBinary(p, level) ==
  CASE ArithmLevels[level] = {"assign"}  -> ArithmAssign(p)
    [] ArithmLevels[level] = {"ternary"} -> ArithmTernary(p)
    [] ArithmLevels[level] = {"power"}   -> ArithmPower(p)
    [] OTHER -> LET q == ArithmBinary(p, level + 1) IN ArithmLoop(q, level, q.node)

ArithmValue(p) ==
  LET q == CASE p.tok \in {"++", "--"} ->
                  LET n == NextArith(p) IN GetWord(ErrUnless(n, n.tok = "LitWord"))
             [] p.tok = "(" ->
                  LET x == Operand(ArithmBinary(NextArith(p), 1))
                  IN With(Matched(x, ")"), ParenArithm(x.node))
             [] p.tok \in {"[", ":"} -> With(ErrPass(p), Nil)
             [] p.tok = "LitWord" ->
                  LET l == GetLit(p) IN With(l, Word(<<l.node>>))
             [] OTHER -> GetWord(p)
      r == Got(q, "Newl")
      post(s) == With(NextArith(ErrUnless(s, IsArithName(s.node))),
                      UnaryArithm(s.tok, TRUE, s.node))
      value == IF r.tok \in {"++", "--"} /\ r.node # Nil THEN post(r) ELSE r
  IN IF q.node = Nil THEN q
     ELSE IF p.tok \in {"++", "--"} THEN With(value, UnaryArithm(p.tok, FALSE, value.node))
     ELSE value

ArithmUnary(p) ==
  LET q == Got(p, "Newl") IN
  IF q.tok \in {"!", "~", "+", "-"}
  THEN LET x == Operand(ArithmUnary(NextArith(q)))
       IN With(x, UnaryArithm(q.tok, FALSE, x.node))
  ELSE ArithmValue(q)
-----------------------------------------------------------------------------
(* Here-documents.                                                         *)

RECURSIVE UnquotedWord(_, _)
UnquotedWord(parts, quoted) ==
  IF parts = <<>> THEN [val |-> <<>>, quoted |-> FALSE]
  ELSE LET part == parts[1]
           rest == UnquotedWord(Tail(parts), quoted)
           esc  == part.type = "Lit" /\ ~quoted /\ Contains(part.value, "bs")
           own  == CASE part.type = "Lit" /\ ~quoted ->
                          SelectSeq(part.value, LAMBDA l : l # "bs")
                     [] part.type \in {"Lit", "SglQuoted"} -> part.value
                     [] part.type = "DblQuoted" -> UnquotedWord(part.parts, TRUE).val
                     [] OTHER -> <<>>
       IN [val |-> own \o rest.val,
           quoted |-> esc \/ rest.quoted \/ part.type \in {"SglQuoted", "DblQuoted"}]

\* The lines of a body whose stop word was quoted, taken as they are.
QuotedText(in, stop, tabs, val) ==
  LET from == IF tabs THEN SelectInSeq(in, LAMBDA l : l # "tab") ELSE 1
      text == IF from = 0 THEN <<>> ELSE SubSeq(in, from, Len(in))
      nl   == SelectInSeq(text, LAMBDA l : l \in {"nl", "escNewl"})
      line == IF nl = 0 THEN text ELSE SubSeq(text, 1, nl - 1)
      rest == SubSeq(text, Len(line) + 1, Len(text))
  IN CASE text = <<>>  -> [val |-> val, in |-> text, found |-> FALSE]
       [] line = stop  -> [val |-> val, in |-> rest, found |-> TRUE]
       [] rest = <<>>  -> [val |-> val, in |-> rest, found |-> FALSE]
       [] OTHER -> QuotedText(Tail(rest), stop, tabs, val \o line \o
                     IF rest[1] = "escNewl" THEN <<"bs", "nl">> ELSE <<"nl">>)

QuotedHdocWord(p) ==
  LET top == Len(p.stops)
      t == QuotedText(p.in, p.stops[top][1], p.quote = "hdocBodyTabs", <<>>)
      q == [p EXCEPT !.in = t.in, !.stops[top] = IF t.found THEN <<>> ELSE @]
  IN With(q, IF ~t.found \/ t.val = <<>> THEN Nil ELSE Word(<<Lit(t.val)>>))

HdocBodies(p, hdocs, first) ==
  IF hdocs = <<>> \/ p.err THEN p
  ELSE LET h == hdocs[1]
           u == UnquotedWord(h.word.parts, FALSE)
           q == [p EXCEPT !.stops = Append(@, <<u.val>>),
                          !.quote = IF h.tabs THEN "hdocBodyTabs" ELSE "hdocBody"]
           s == IF ~first /\ R(q) = "nl" THEN Rune(q) ELSE q
           b == IF u.quoted THEN QuotedHdocWord(s) ELSE GetWord(Next(s))
           c == [b EXCEPT !.bodies = (h.id :> b.node) @@ @]
           d == ErrUnless(c, c.stops[Len(c.stops)] = <<>>)
       IN HdocBodies([d EXCEPT !.stops = p.stops], Tail(hdocs), FALSE)

\* The bodies of the here-documents of the line that just ended, in order.
DoHeredocs(p) ==
  LET mine == SubSeq(p.heredocs, p.buried + 1, Len(p.heredocs))
      q == [p EXCEPT !.heredocs = SubSeq(@, 1, p.buried)]
  IN IF mine = <<>> THEN p
     ELSE [HdocBodies(Rune(q), mine, TRUE) EXCEPT !.quote = p.quote]

SkipSpace(p) ==
  CASE R(p) = "eof" -> [p EXCEPT !.tok = "EOF"]
    [] R(p) \in {" ", "tab"} -> SkipSpace([Rune(p) EXCEPT !.spaced = TRUE])
    [] R(p) = "escNewl" -> SkipSpace(Rune(p))
    [] R(p) = "nl" ->
         IF p.tok = "Newl" THEN SkipSpace(Rune(p))
         ELSE LET q == [p EXCEPT !.spaced = TRUE, !.tok = "Newl"] IN
              IF q.quote # "hdocWord" THEN DoHeredocs(q) ELSE q
    [] OTHER -> Tokenize(p)
-----------------------------------------------------------------------------
(* Redirections, assignments and simple commands.                          *)

RedirOps == {">", ">>", "<", "<>", "<&", ">&", ">|", ">>|", "<<", "<<-", "<<<",
             "&>", "&>>"}
PosixRedirOps == RedirOps \ {">>|", "<<<", "&>", "&>>"}

PeekRedir(p) == p.tok \in RedirOps \cup {"LitRedir"}

Heredoc(p, n, op) ==
  LET id == Len(p.heredocs) + Cardinality(DOMAIN p.bodies) + 1
      q == FollowWordTok([p EXCEPT !.quote = "hdocWord", !.forbid = TRUE])
      h == [id |-> id, tabs |-> op = "<<-", word |-> q.node]
      d == [q EXCEPT !.quote = p.quote, !.forbid = FALSE,
                     !.heredocs = Append(@, h)]
      e == IF d.tok = "Newl" /\ ~d.err THEN DoHeredocs(d) ELSE d
  IN With(e, Redirect(n, op, q.node, id))

DoRedirect(p, s) ==
  LET n  == GetLit(p)
      op == n.tok
      q  == Next(ErrUnless(n, op \in PosixRedirOps))
      w  == IF op \in {"<<", "<<-"} THEN Heredoc(q, n.node, op)
            ELSE LET f == FollowWordTok(q) IN With(f, Redirect(n.node, op, f.node, 0))
  IN With(w, [s EXCEPT !.redirs = Append(@, w.node)])

Redirects(p, s) ==
  IF ~PeekRedir(p) THEN With(p, s)
  ELSE LET q == DoRedirect(p, s) IN Redirects(q, q.node)

GetAssign(p) ==
  LET name == p.val[p.eql - 1]
      left == SubSeq(p.val, p.eql + 1, Len(p.val))
      head == IF left = <<>> THEN <<>> ELSE <<Lit(left)>>
      q    == Next(p)
      w    == GetWord(ErrUnless(q, ~(q.tok = "(" /\ left = <<>>)))
      parts == IF q.spaced \/ StopToken(q) \/ w.node = Nil THEN head
               ELSE head \o w.node.parts
      value == IF parts = <<>> THEN Nil ELSE Word(parts)
  IN With(IF q.spaced \/ StopToken(q) THEN q ELSE w, Assign(name, value))

WordStarts == {"${", "$((", "$(", "$", "'", "dq", "bq"}

CallLoop(p, s, ce) ==
  LET assign == GetAssign(p)
      word   == WordAnyNumber(p)
      done   == With(p, [s EXCEPT !.cmd = ce])
      arg(q) == CallLoop(q, s, [ce EXCEPT !.args = Append(@, q.node)])
  IN CASE p.tok \in {"EOF", "Newl", ";", "&", "|", "&&", "||", ";;"} -> done
       [] p.tok \in {"Lit", "LitWord"} /\ ce.args = <<>> /\ HasValidIdent(p) ->
            CallLoop(assign, s, [ce EXCEPT !.assigns = Append(@, assign.node)])
       [] p.tok = "LitWord" -> LET l == GetLit(p) IN arg(With(l, Word(<<l.node>>)))
       [] p.tok = "Lit" -> arg(word)
       [] p.tok = "bq" /\ BackquoteEnd(p) -> done
       [] p.tok \in WordStarts -> arg(word)
       [] p.tok = ")" /\ p.quote = "subCmd" -> done
       [] PeekRedir(p) -> LET q == DoRedirect(p, s) IN CallLoop(q, q.node, ce)
       [] OTHER -> With(ErrPass(p), [s EXCEPT !.cmd = ce])
-----------------------------------------------------------------------------
(* Compound commands.                                                      *)

FollowStmts(p, stops) ==
  IF p.tok = ";" THEN With(ErrPass(p), <<>>)
  ELSE LET q == Stmts(p, stops, TRUE, <<>>) IN ErrUnless(q, q.node # <<>>)

ParseBlock(p) ==
  LET q == FollowStmts(Next(p), {<<"}">>})
  IN With(FollowRsrv(q, "}"), Block(q.node))

ParseSubshell(p) ==
  LET q == FollowStmts(Next(PreNested(p, "subCmd")), {})
  IN With(Matched(PostNested(q, p), ")"), Subshell(q.node))

\* What follows "if" and "elif".
IfRest(p) ==
  LET cond == FollowStmts(p, {<<"then">>})
      then == FollowStmts(FollowRsrv(cond, "then"), {<<"fi">>, <<"elif">>, <<"else">>})
      rest == CASE IsRsrv(then, "elif") -> IfRest(Next(then))
                [] IsRsrv(then, "else") ->
                     LET e == FollowStmts(Next(then), {<<"fi">>})
                     IN With(e, If(<<>>, e.node, Nil))
                [] OTHER -> With(then, Nil)
  IN With(rest, If(cond.node, then.node, rest.node))

IfClause(p) == LET q == IfRest(Next(p)) IN With(FollowRsrv(q, "fi"), q.node)

WhileClause(p, until) ==
  LET cond == FollowStmts(Next(p), {<<"do">>})
      do   == FollowStmts(FollowRsrv(cond, "do"), {<<"done">>})
  IN With(FollowRsrv(do, "done"), While(until, cond.node, do.node))

WordList(p, items) ==
  IF StopToken(p) THEN With(p, items)
  ELSE LET w == FollowWordTok(p) IN WordList(w, Append(items, w.node))

WordIter(p) ==
  LET name == GetLit(p)
      n  == Got(ErrUnless(name, name.node # Nil), "Newl")
      ws == WordList(GotRsrv(n, "in"), <<>>)
      items(q, in, list) == With(q, [name |-> name.node, in |-> in, items |-> list])
  IN IF name.tok = ";" THEN items(Got(Next(name), "Newl"), FALSE, <<>>)
     ELSE IF IsRsrv(n, "in") THEN items(Got(Got(ws, ";"), "Newl"), TRUE, ws.node)
     ELSE items(ErrUnless(n, IsRsrv(n, "do")), FALSE, <<>>)

ForClause(p) ==
  LET n  == Next(p)
      l  == WordIter(ErrUnless(n, n.tok # "("))
      do == FollowStmts(FollowRsrv(l, "do"), {<<"done">>})
  IN With(FollowRsrv(do, "done"),
          For(l.node.name, l.node.in, l.node.items, do.node))

CasePatterns(p, patterns) ==
  LET w == FollowWordTok(p) IN
  IF p.tok = "EOF" \/ w.tok = ")" \/ w.err THEN With(w, Append(patterns, w.node))
  ELSE CasePatterns(IF w.tok = "|" THEN Next(w) ELSE ErrPass(w),
                    Append(patterns, w.node))

CaseItems(p, items) ==
  IF p.tok = "EOF" \/ IsRsrv(p, "esac") THEN With(p, items)
  ELSE LET pats == CasePatterns(Got(p, "("), <<>>)
           body == Stmts(Next(PreNested(pats, "switchCase")), {<<"esac">>}, TRUE, <<>>)
           q    == PostNested(body, pats)
           item == CaseItem(pats.node, body.node)
       IN IF q.tok # ";;" THEN With(q, Append(items, item))
          ELSE CaseItems(Got(Next(q), "Newl"), Append(items, item))

CaseClause(p) ==
  LET word  == FollowWordTok(Next(p))
      in    == FollowRsrv(Got(word, "Newl"), "in")
      items == CaseItems(Got(in, "Newl"), <<>>)
  IN With(FollowRsrv(items, "esac"), Case(word.node, items.node))

FuncDecl(p, name) ==
  LET body == GetStmt(Got(p, "Newl"), FALSE, FALSE)
  IN With(ErrUnless(body, body.node # Nil), Func(name, body.node))

Misplaced == {"}", "then", "elif", "fi", "do", "done", "esac"}

\* A command that starts with a plain word: a keyword, an assignment, the name
\* of a function or of a command.
WordCommand(p, s) ==
  LET set(q) == With(q, [s EXCEPT !.cmd = q.node])
      rsrv   == IF Len(p.val) = 1 THEN p.val[1] ELSE ""
      name   == GetLit(p)
      close  == Matched(Next(name), ")")
  IN CASE rsrv = "{"     -> set(ParseBlock(p))
       [] rsrv = "if"    -> set(IfClause(p))
       [] rsrv \in {"while", "until"} -> set(WhileClause(p, rsrv = "until"))
       [] rsrv = "for"   -> set(ForClause(p))
       [] rsrv = "case"  -> set(CaseClause(p))
       [] rsrv \in Misplaced \/ (rsrv = "!" /\ ~s.negated) -> With(ErrPass(p), s)
       [] OTHER ->
            IF HasValidIdent(p) THEN CallLoop(p, s, Call(<<>>, <<>>))
            ELSE IF name.tok = "("
            THEN set(FuncDecl(ErrUnless(close, ValidName(p.val)), p.val))
            ELSE CallLoop(name, s, Call(<<>>, << Word(<<name.node>>) >>))

Command(p, s) ==
  CASE p.tok = "LitWord" -> WordCommand(p, s)
    [] p.tok = "bq" /\ BackquoteEnd(p) -> With(p, s)
    [] p.tok \in WordStarts \cup {"Lit"} ->
         IF HasValidIdent(p) THEN CallLoop(p, s, Call(<<>>, <<>>))
         ELSE LET w == WordAnyNumber(p)
              IN CallLoop(ErrUnless(w, w.tok # "("), s, Call(<<>>, <<w.node>>))
    [] p.tok = "(" ->
         IF R(p) = ")" THEN With(ErrPass(p), s)
         ELSE LET q == ParseSubshell(p) IN With(q, [s EXCEPT !.cmd = q.node])
    [] OTHER -> With(p, s)

\* In "! x | y" the bang is the pipeline's.
Pipeline(p, s) ==
  IF p.tok # "|" THEN With(p, s)
  ELSE LET y == GotStmtPipe(Got(Next(p), "Newl"), Stmt(Nil), TRUE)
           b == [Stmt(Binary("|", [s EXCEPT !.negated = FALSE], y.node))
                   EXCEPT !.negated = s.negated]
       IN IF y.node = Nil \/ y.err THEN With(ErrPass(y), s) ELSE Pipeline(y, b)

GotStmtPipe(p, s, binCmd) ==
  LET before == Redirects(p, s)
      cmd    == Command(before, before.node)
      legal  == before.node.redirs = <<>> \/ cmd.node.cmd.type \in {"nil", "Call"}
      after  == Redirects(ErrUnless(cmd, legal), cmd.node)
  IN IF cmd.node.cmd = Nil /\ cmd.node.redirs = <<>> THEN With(cmd, Nil)
     ELSE IF binCmd THEN after ELSE Pipeline(after, after.node)

AndOr(p, s) ==
  IF p.tok \notin {"&&", "||"} THEN With(p, s)
  ELSE LET y == GetStmt(Got(Next(p), "Newl"), FALSE, TRUE) IN
       IF y.node = Nil \/ y.err THEN With(ErrPass(y), Nil)
       ELSE AndOr(y, Stmt(Binary(p.tok, s, y.node)))

\* readEnd: the statement may be ended by ";" or "&".  binCmd: it is the right
\* side of "&&" or "||", and reads no further such operator.
GetStmt(p, readEnd, binCmd) ==
  LET bang == IsRsrv(p, "!")
      q == GotRsrv(p, "!")
      r == ErrUnless(q, ~(bang /\ (StopToken(q) \/ IsRsrv(q, "!"))))
      s == GotStmtPipe(r, [Stmt(Nil) EXCEPT !.negated = bang], FALSE)
      t == IF binCmd THEN s ELSE AndOr(s, s.node)
      ends == readEnd /\ t.tok \in {";", "&"}
      u == IF ends THEN Next(t) ELSE t
  IN IF s.node = Nil \/ s.err \/ t.node = Nil THEN With(t, Nil)
     ELSE With([u EXCEPT !.ended = ends],
               [t.node EXCEPT !.background = @ \/ (ends /\ t.tok = "&")])

Stmts(p, stops, gotEnd, acc) ==
  LET q == Got(p, "Newl")
      stop == \/ q.tok = "EOF"
              \/ q.tok = "LitWord" /\ q.val \in stops
              \/ q.tok = ")" /\ q.quote = "subCmd"
              \/ q.tok = "bq" /\ BackquoteEnd(q)
              \/ q.tok = ";;" /\ q.quote = "switchCase"
      bad  == \/ IsRsrv(q, "}") \/ q.tok = ";;"
              \/ p.tok # "Newl" /\ ~gotEnd
      s == GetStmt([q EXCEPT !.open = @ + 1], TRUE, FALSE)
      t == [s EXCEPT !.open = q.open]
  IN IF p.tok = "EOF" \/ stop THEN With(q, acc)
     ELSE IF bad THEN With(ErrPass(q), acc)
     ELSE IF t.node = Nil THEN With(ErrPass(t), acc)
     ELSE Stmts(t, stops, t.ended, Append(acc, t.node))

\* A file: its statements, and the bodies of its here-documents.
Parse(text) ==
  LET p == Stmts(Next(Reset(text)), {}, TRUE, <<>>)
      q == DoHeredocs(ErrUnless(p, p.tok = "EOF"))
  IN [err |-> q.err, incomplete |-> q.incomplete, stmts |-> p.node,
      bodies |-> q.bodies]
=============================================================================
