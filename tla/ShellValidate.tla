----------------------------- MODULE ShellValidate -----------------------------
(***************************************************************************)
(* What is asked of a parsed program: the agent's check of a shell step    *)
(* (pkg/agent/validate.go), which a shell within the program repeats, and  *)
(* the quoting of a string as one word (syntax/quote.go).                  *)
(***************************************************************************)
EXTENDS ShellParser

(* Walking a tree: the statements and the calls in it, at any depth.       *)

RECURSIVE Walk(_, _), Validated(_)

Children(node) ==
  CASE node.type = "Stmt" ->
         (IF node.cmd = Nil THEN <<>> ELSE <<node.cmd>>) \o node.redirs
    [] node.type = "Assign" -> <<node.value>>
    [] node.type = "Redirect" -> <<node.word>>
    [] node.type = "Call" -> node.assigns \o node.args
    [] node.type \in {"Block", "Subshell", "CmdSubst"} -> node.stmts
    [] node.type = "If" -> node.cond \o node.then \o <<node.else>>
    [] node.type = "While" -> node.cond \o node.do
    [] node.type = "For" -> node.items \o node.do
    [] node.type = "Case" -> <<node.word>> \o node.items
    [] node.type = "CaseItem" -> node.patterns \o node.stmts
    [] node.type \in {"Binary", "BinaryArithm"} -> <<node.x, node.y>>
    [] node.type = "Func" -> <<node.body>>
    [] node.type \in {"Word", "DblQuoted"} -> node.parts
    [] node.type = "ParamExp" -> <<node.word>>
    [] node.type \in {"ArithmExp", "UnaryArithm", "ParenArithm"} -> <<node.x>>
    [] node.type \in {"Lit", "SglQuoted", "nil"} -> <<>>

\* Every node under the given ones; a redirection's body is under it.
Walk(nodes, bodies) ==
  FoldLeft(LAMBDA all, node :
             all \cup {node} \cup Walk(Children(node), bodies) \cup
             IF node.type = "Redirect" /\ node.hdoc # 0
             THEN Walk(<<bodies[node.hdoc]>>, bodies) ELSE {},
           {}, nodes)
-----------------------------------------------------------------------------
(* The agent's check of a shell step.                                      *)

NotLiteral == <<"not", "literal">>

LiteralDoubleQuotedValue(part) ==
  IF \A i \in DOMAIN part.parts : part.parts[i].type = "Lit"
  THEN FoldLeft(LAMBDA v, lit : v \o lit.value, <<>>, part.parts)
  ELSE NotLiteral

LiteralWordValue(word) ==
  FoldLeft(LAMBDA v, part :
             LET own == CASE part.type \in {"Lit", "SglQuoted"} -> part.value
                          [] part.type = "DblQuoted" -> LiteralDoubleQuotedValue(part)
                          [] OTHER -> NotLiteral
             IN IF NotLiteral \in {v, own} THEN NotLiteral ELSE v \o own,
           <<>>, word.parts)

\* A literal program of "sh -c" is checked like the program it stands in; one
\* that does not parse is left to the shell.
ValidateNestedLiteralShell(call) ==
  \/ Len(call.args) < 3
  \/ LiteralWordValue(call.args[1]) # <<"sh">>
  \/ LiteralWordValue(call.args[2]) # <<"-", "c">>
  \/ LET src == LiteralWordValue(call.args[3]) IN
     src = NotLiteral \/ Validated(src)

ValidateProgram(file) ==
  \A node \in Walk(file.stmts, file.bodies) :
    /\ node.type = "Stmt" => ~node.background
    /\ node.type = "Call" /\ node.args # <<>> =>
         /\ LiteralWordValue(node.args[1]) \notin {<<"exit">>, <<"exec">>}
         /\ ValidateNestedLiteralShell(node)

Validated(src) == LET file == Parse(src) IN file.err \/ ValidateProgram(file)
-----------------------------------------------------------------------------
(* Quoting a string as one word, in a POSIX shell: a string with a         *)
(* character that is not printed cannot be quoted there.                   *)

ShellChars == {";", "dq", "'", "(", ")", "$", "|", "&", ">", "<", "bq", " ", "tab",
               "nl", "escNewl", "bs", "#", "{", "~", "*", "?", "[", "="}
NonPrintable == {"tab", "nl", "escNewl"}

Keywords == {"!", "case", "do", "done", "else", "esac", "fi", "for", "if", "in",
             "then", "until", "while", "{", "}"}
IsKeyword(s) == Len(s) = 1 /\ s[1] \in Keywords

QuoteError == [err |-> TRUE]
Quoted(str) == [err |-> FALSE, str |-> str]

InDoubleQuotes(s) ==
  <<"dq">> \o
  FlattenSeq([i \in 1..Len(s) |->
    IF s[i] \in {"dq", "bs", "bq", "$"} THEN <<"bs", s[i]>> ELSE <<s[i]>>])
  \o <<"dq">>

\* Slip: nothing is escaped between double quotes.
QuoteUnescaped(s) ==
  IF Range(s) \cap NonPrintable # {} THEN QuoteError
  ELSE Quoted(
    IF s = <<>> THEN <<"'", "'">>
    ELSE IF Range(s) \cap ShellChars = {} /\ ~IsKeyword(s) THEN s
    ELSE IF "'" \notin Range(s) THEN <<"'">> \o s \o <<"'">>
    ELSE <<"dq">> \o s \o <<"dq">>)

Quote(s) ==
  IF Range(s) \cap NonPrintable # {} THEN QuoteError
  ELSE Quoted(
    IF s = <<>> THEN <<"'", "'">>
    ELSE IF Range(s) \cap ShellChars = {} /\ ~IsKeyword(s) THEN s
    ELSE IF "'" \notin Range(s) THEN <<"'">> \o s \o <<"'">>
    ELSE InDoubleQuotes(s))
=============================================================================
