----------------------------- MODULE ShellLexer -----------------------------
(***************************************************************************)
(* The scanner of the shell parser (pkg/sh/syntax/lexer.go), for the       *)
(* language every agent's shell uses, LangPOSIX.                           *)
(*                                                                         *)
(* The text is a sequence of lexemes: a character the scanner tells apart, *)
(* or a name, taken as one ("foo"); digits are one lexeme each.  "dq",     *)
(* "bq", "bs", "nl", "tab" and "escNewl" are the double quote, the         *)
(* backquote, the backslash, the newline, the tab and an escaped newline.  *)
(* The parser and its                                                      *)
(* scanner are one Go struct; here it is a record that each operator takes *)
(* and returns changed.  Its fields have the names of the struct's:        *)
(*   in      the lexemes not read yet; the first is p.r                    *)
(*   tok, val, eql, spaced   the current token, as in the struct           *)
(*   quote   the quote state                                               *)
(*   heredocs, buried, stops   here-documents whose body is still to come  *)
(*   bodies  the bodies read so far, by the number of their redirection    *)
(*   open    openNodes; ticks is openBquotes; forbid is forbidNested       *)
(*   err, incomplete   the first error, and whether it is a ParseError     *)
(*           that more input could have avoided                            *)
(*   node    what the last parsing operator answered                       *)
(***************************************************************************)
EXTENDS Integers, Sequences, SequencesExt, TLC

Nil == [type |-> "nil"]

Names   == {"a", "b", "c", "f", "x", "y", "i", "echo", "if", "then", "elif",
            "else", "fi", "while", "until", "for", "in", "do", "done", "case",
            "esac", "exit", "exec", "sh", "true", "false", "EOF", "E", "g", "d", "cat",
            "cd", "set", "test", "HOME", "PWD", "OLDPWD", "IFS"}
Numbers == {"0", "1", "2", "3"}

\* Two characters, or an operator and a character, that make a longer operator.
Glue ==
  << "&", "&" >> :> "&&" @@ << "|", "|" >> :> "||" @@ << ";", ";" >> :> ";;" @@
  << "&", ">" >> :> "&>" @@ << "&>", ">" >> :> "&>>" @@ << "$", "{" >> :> "${" @@
  << "$", "(" >> :> "$(" @@ << "$(", "(" >> :> "$((" @@ << "<", "<" >> :> "<<" @@
  << "<<", "-" >> :> "<<-" @@ << "<<", "<" >> :> "<<<" @@ << "<", ">" >> :> "<>" @@
  << "<", "&" >> :> "<&" @@ << ">", ">" >> :> ">>" @@ << ">>", "|" >> :> ">>|" @@
  << ">", "&" >> :> ">&" @@ << ">", "|" >> :> ">|"

ParamGlue ==
  << ":", "+" >> :> ":+" @@ << ":", "-" >> :> ":-" @@ << ":", "?" >> :> ":?" @@
  << ":", "=" >> :> ":=" @@ << "%", "%" >> :> "%%" @@ << "#", "#" >> :> "##"

ArithmGlue ==
  << "=", "=" >> :> "==" @@ << "!", "=" >> :> "!=" @@ << "<", "=" >> :> "<=" @@
  << ">", "=" >> :> ">=" @@ << "<", "<" >> :> "<<" @@ << ">", ">" >> :> ">>" @@
  << "&", "&" >> :> "&&" @@ << "|", "|" >> :> "||" @@ << "+", "+" >> :> "++" @@
  << "-", "-" >> :> "--" @@ << "*", "*" >> :> "**" @@ << "+", "=" >> :> "+=" @@
  << "-", "=" >> :> "-=" @@ << "*", "=" >> :> "*=" @@ << "/", "=" >> :> "/=" @@
  << "%", "=" >> :> "%=" @@ << "&", "=" >> :> "&=" @@ << "|", "=" >> :> "|=" @@
  << "^", "=" >> :> "^=" @@ << "<<", "=" >> :> "<<=" @@ << ">>", "=" >> :> ">>="

RegOps    == {";", "dq", "'", "(", ")", "$", "|", "&", ">", "<", "bq"}
ParamOps  == {"}", "#", "!", ":", "-", "+", "=", "?", "%", "[", "]", "/", "^",
              ",", "@", "*"}
ArithmOps == {"+", "-", "!", "~", "*", "/", "%", "(", ")", "^", "<", ">", ":",
              "=", ",", "?", "|", "&", "[", "]", "#", "."}
SpecialParams == {"@", "*", "#", "$", "?", "!", "-"} \cup Numbers

\* Operators that are never the start of a longer one.
Alone     == {"(", ")", "'", "dq"}

KeepSpaces == {"runeByRune", "dblQuotes", "hdocBody", "hdocBodyTabs",
               "paramExpExp"}
RegStates  == {"noState", "unquotedWordCont", "subCmd", "subCmdBckquo",
               "hdocWord", "switchCase"}

ValidName(val)     == Len(val) = 1 /\ val[1] \in Names
NumberLiteral(val) == Len(val) = 1 /\ val[1] \in Numbers

Reset(text) ==
  [in |-> text, tok |-> "illegal", val |-> <<>>, eql |-> 0, spaced |-> FALSE,
   quote |-> "noState", heredocs |-> <<>>, buried |-> 0, stops |-> <<>>,
   bodies |-> <<>>, open |-> 0, ticks |-> 0, forbid |-> FALSE, err |-> FALSE,
   incomplete |-> FALSE, ended |-> FALSE, node |-> Nil]

\* The next character, and the one after it.
R(p)    == IF p.in = <<>> THEN "eof" ELSE p.in[1]
Peek(p) == IF Len(p.in) < 2 THEN "eof" ELSE p.in[2]

\* An escaped newline is one character, as it is for the code.
Rune(p) == IF p.in = <<>> THEN p ELSE [p EXCEPT !.in = Tail(@)]

\* Slip: an open quote is not counted.
IncompleteNever(p) == FALSE

Incomplete(p) == p.open > 0

\* The first error stays, and nothing is read after it.
ErrPass(p) ==
  IF p.err THEN p
  ELSE [p EXCEPT !.err = TRUE, !.in = <<>>, !.tok = "EOF",
                 !.incomplete = p.tok = "EOF" /\ Incomplete(p)]

ErrUnless(p, ok) == IF ok THEN p ELSE ErrPass(p)

BackquoteEnd(p) == p.ticks > 0

RECURSIVE Munch(_, _)
Munch(p, glue) ==
  LET longer == <<p.tok, R(p)>> IN
  IF longer \in DOMAIN glue
  THEN Munch([Rune(p) EXCEPT !.tok = glue[longer]], glue) ELSE p

\* A backquote is not consumed: whether it opens or closes is for the parser.
RegToken(p) ==
  IF R(p) = "bq" THEN [p EXCEPT !.tok = "bq"]
  ELSE IF R(p) \in Alone THEN [Rune(p) EXCEPT !.tok = R(p)]
  ELSE Munch([Rune(p) EXCEPT !.tok = R(p)], Glue)

DqToken(p) == RegToken(p)

ParamToken(p) ==
  IF R(p) \notin ParamOps
  THEN [p EXCEPT !.tok = IF R(p) = "eof" THEN "EOF" ELSE "illegal"]
  ELSE Munch([Rune(p) EXCEPT !.tok = R(p)], ParamGlue)

ArithmToken(p) == Munch([Rune(p) EXCEPT !.tok = R(p)], ArithmGlue)

\* A literal token is the run of lexemes up to one the state stops at; what
\* follows a backslash never stops it.
RECURSIVE Literal(_, _, _)
Literal(in, stops, val) ==
  IF in = <<>> \/ in[1] \in stops THEN [val |-> val, in |-> in]
  ELSE IF in[1] = "bs" /\ Len(in) > 1
  THEN Literal(SubSeq(in, 3, Len(in)), stops, val \o <<in[1], in[2]>>)
  ELSE Literal(Tail(in), stops, Append(val, in[1]))

Advance(p, stops, cut) ==
  LET l == Literal(p.in, stops, <<>>)
      q == [p EXCEPT !.in = l.in, !.val = l.val, !.eql = 0]
  IN [q EXCEPT !.tok = IF R(q) \in cut THEN "Lit" ELSE "LitWord"]

\* Position of the first "=" outside of an escape, 0 without one.
EqlOffs(val) ==
  LET at == {i \in 1..Len(val) : val[i] = "=" /\ (i = 1 \/ val[i - 1] # "bs")}
  IN IF at = {} THEN 0 ELSE CHOOSE i \in at : \A j \in at : i <= j

AdvanceLitNone(p) ==
  LET q == Advance(p, RegOps \cup {" ", "nl", "escNewl"},
                   {"dq", "'", "$"} \cup
                   IF p.quote = "subCmdBckquo" THEN {} ELSE {"bq"})
      redirected == R(q) \in {"<", ">"} /\ NumberLiteral(q.val)
  IN [q EXCEPT !.tok = IF redirected THEN "LitRedir" ELSE @,
               !.eql = EqlOffs(q.val)]

AdvanceLitDquote(p) ==
  Advance(p, {"dq", "escNewl", "bq", "$"}, {"escNewl", "bq", "$"})

AdvanceLitOther(p) ==
  LET quotes == {"'", "dq", "bq", "$"} IN
  Advance(p, quotes \cup
             (IF p.quote = "paramExpExp" THEN {"}"} ELSE
              {" ", ";", "&", ">", "<", "|", "(", ")", "nl", "+", "-", "/", ":",
               "=", "%", "^", ",", "?", "!", "~", "*", "."}), quotes)

\* Body text of a here-document up to an expansion, or up to the line that is
\* the stop word.  lines says whether `in' starts a line, tabs whether leading
\* tabs are dropped.
RECURSIVE HdocText(_, _, _, _, _)
HdocText(in, stop, tabs, lines, val) ==
  LET here == IF tabs /\ lines THEN SelectInSeq(in, LAMBDA l : l # "tab") ELSE 1
      text == IF here = 0 THEN <<>> ELSE SubSeq(in, here, Len(in))
      nl   == SelectInSeq(text, LAMBDA l : l = "nl")
      line == IF nl = 0 THEN text ELSE SubSeq(text, 1, nl - 1)
      rest == SubSeq(text, Len(line) + 1, Len(text))
  IN IF lines /\ line = stop
     THEN [val |-> val, in |-> rest, found |-> TRUE]
     ELSE IF text = <<>> THEN [val |-> val, in |-> text, found |-> FALSE]
     ELSE IF text[1] \in {"$", "bq", "escNewl"}
     THEN [val |-> val, in |-> text, found |-> FALSE]
     ELSE IF text[1] = "bs" /\ Len(text) > 1
     THEN HdocText(SubSeq(text, 3, Len(text)), stop, tabs, FALSE,
                   val \o <<text[1], text[2]>>)
     ELSE HdocText(Tail(text), stop, tabs, text[1] = "nl", Append(val, text[1]))

\* The stop word's entry is emptied when it was met, which ends the body.  A
\* token that follows a literal one does not start a line.
RECURSIVE AdvanceLitHdoc(_)
AdvanceLitHdoc(p) ==
  LET top == Len(p.stops) IN
  IF R(p) = "escNewl" THEN AdvanceLitHdoc([Rune(p) EXCEPT !.tok = "Lit"])
  ELSE IF p.stops[top] = <<>> THEN [p EXCEPT !.tok = "Newl", !.val = <<>>]
  ELSE LET t == HdocText(p.in, p.stops[top][1], p.quote = "hdocBodyTabs",
                         p.tok # "Lit", <<>>)
       IN [p EXCEPT !.in = t.in, !.val = t.val,
                    !.stops[top] = IF t.found THEN <<>> ELSE @,
                    !.tok = IF ~t.found THEN "Lit"
                            ELSE IF t.val = <<>> THEN "Newl" ELSE "LitWord"]
=============================================================================
