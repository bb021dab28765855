----------------------------- MODULE ShellSyntax -----------------------------
(***************************************************************************)
(* A shell program as it is typed, chunk by chunk, and what the parser,    *)
(* the printer, the quoting of strings and the agent's check of a step     *)
(* (pkg/agent/validate.go) make of each prefix.                            *)
(*                                                                         *)
(* The chunks come from one theme, chosen first: a set of chunks that      *)
(* belong to one part of the grammar.                                      *)
(*                                                                         *)
(* The parser, the printer and the check are parameters only for the sake  *)
(* of TLC, which counts the expressions of an action along every path of   *)
(* calls: of these a recursive descent has more than it can list.          *)
(***************************************************************************)
EXTENDS ShellPrinter, ShellValidate

CONSTANTS
  Theme,      \* sets of chunks; a chunk is a sequence of lexemes
  MaxChunks,  \* the most chunks of a program
  Reading(_),   \* Parse of ShellParser
  Printing(_),  \* Printed of ShellPrinter
  Accepts(_)    \* ValidateProgram of ShellValidate

ASSUME ParametersAssumption ==
  \A chunk \in UNION Theme :
    LET file == Parse(chunk) IN
    /\ Reading(chunk) = file /\ Accepts(file) = ValidateProgram(file)
    /\ ~file.err => Printing(file) = Printed(file)

VARIABLES
  theme,      \* the chunks this program is written with
  text,       \* the lexemes typed so far
  chunks      \* how many chunks that are

vars == <<theme, text, chunks>>

-----------------------------------------------------------------------------
Init == theme \in Theme /\ text = <<>> /\ chunks = 0

\* A program is typed on while it is one, or while more could make it one.
Alive(t) == LET file == Reading(t) IN file.err => file.incomplete

Type(chunk) ==
  /\ chunks < MaxChunks /\ Alive(text)
  /\ text' = text \o chunk
  /\ chunks' = chunks + 1
  /\ UNCHANGED theme

Typing == \E chunk \in theme : Type(chunk)
Spec == Init /\ [][Typing]_vars
-----------------------------------------------------------------------------
\* Trees the printer spells so that they read differently: a sign before a
\* sign ("- -x"), and a lone "$" before a command substitution, which is
\* printed with "$(" whatever it was written with.
SignBeforeSign(node) ==
  /\ node.type = "UnaryArithm" /\ ~node.post
  /\ node.x.type = "UnaryArithm" /\ ~node.x.post
DollarBeforeSubst(node) ==
  /\ node.type \in {"Word", "DblQuoted"}
  /\ \E i \in 2..Len(node.parts) :
       /\ node.parts[i].type = "CmdSubst" /\ node.parts[i - 1].type = "Lit"
       /\ Last(node.parts[i - 1].value) = "$"
Misprinted(file) ==
  \E node \in Walk(file.stmts, file.bodies) :
    SignBeforeSign(node) \/ DollarBeforeSubst(node)

SameProgram(file) ==
  LET again == Reading(Printing(file)) IN
  ~again.err /\ again.stmts = file.stmts /\ again.bodies = file.bodies

(* What a program is printed as is the same program: the same statements,  *)
(* with the same words and the same here-documents (Printer.Print; the     *)
(* interpreter prints the functions and traps it will read again).         *)
PrintedIsSame ==
  LET file == Reading(text) IN file.err \/ Misprinted(file) \/ SameProgram(file)

(* A string that was quoted is read back as a command of one word, and the *)
(* word is that string (Quote: "the quoted version is expanded or          *)
(* interpreted as the original string").  Only a string of several lines   *)
(* is refused.                                                             *)
Unquoted(word) ==
  FoldLeft(LAMBDA v, part :
    v \o (CASE part.type = "DblQuoted" ->
                 LET raw == FoldLeft(LAMBDA u, lit : u \o lit.value, <<>>, part.parts)
                 IN SelectSeq([i \in 1..Len(raw) |->
                       IF raw[i] = "bs" /\ (i = 1 \/ raw[i - 1] # "bs")
                       THEN "gone" ELSE raw[i]], LAMBDA l : l # "gone")
            [] OTHER -> part.value),
    <<>>, word.parts)

QuotedIsOneWord ==
  LET quoted == Quote(text) IN
  /\ quoted.err <=> "nl" \in Range(text)
  /\ ~quoted.err =>
       LET file == Reading(quoted.str) IN
       /\ ~file.err /\ Len(file.stmts) = 1
       /\ file.stmts[1].cmd.type = "Call" /\ file.stmts[1].cmd.assigns = <<>>
       /\ Len(file.stmts[1].cmd.args) = 1
       /\ Unquoted(file.stmts[1].cmd.args[1]) = text

(* A program handed to "sh -c" in single quotes, on one line or several,   *)
(* or as Quote has it, is accepted by the check of a step exactly when the *)
(* program itself is (validateNestedLiteralShell).                         *)
NestedIsPlain ==
  LET file  == Reading(text)
      words == {<<"'">> \o text \o <<"'">>} \cup
               (IF Quote(text).err THEN {} ELSE {Quote(text).str}) IN
  "'" \in Range(text) \/
    \A word \in words :
      Accepts(Reading(<<"sh", " ", "-", "c", " ">> \o word)) <=> file.err \/ Accepts(file)

(* Quoting a string and checking a quoted program undo each other.         *)
QuotingIsSound == QuotedIsOneWord /\ NestedIsPlain

(* A line that is refused with an error that is not "incomplete" is not    *)
(* made a program by the lines after it (IsIncomplete: "an error that      *)
(* could have been avoided with extra input bytes").  A here-document that *)
(* is not closed is not always called incomplete, and is left aside.       *)
Final(t) == LET file == Reading(t) IN file.err /\ ~file.incomplete
HasHeredoc(t) == \E i \in 2..Len(t) : t[i - 1] = "<" /\ t[i] = "<"
FinalStays ==
  LET line == Append(text, "nl") IN
  Final(line) /\ ~HasHeredoc(text) =>
    \A chunk \in theme : Reading(line \o chunk).err
=============================================================================
