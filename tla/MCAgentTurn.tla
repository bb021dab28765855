---------------------------- MODULE MCAgentTurn ----------------------------
(* Small instances of AgentTurn: a theme is a set of programs that meet in *)
(* one part of the shell.  The agent lives in /root, which has a file f of *)
(* two lines and a directory d.                                            *)
EXTENDS AgentTurn

MCRoot == <<"root">>
MCHome ==
  LET directory == FS!Mkdir(FS!New, PathTo(<<"root", "d">>), {"r", "w", "x"}).fs
  IN FS!WriteFile(directory, PathTo(<<"root", "f">>), <<"x", "nl", "y", "nl">>, {"r", "w"}).fs
InHome(programs) == {[program |-> p, workdir |-> <<>>] : p \in programs}
InD(programs) == {[program |-> p, workdir |-> <<"d">>] : p \in programs}

Assignments ==
  InHome({<<"x", "=", "a">>,
   <<"x", "=">>,
   <<"x", "=", "'", "a", " ", "b", "'", ";", " ", "echo", " ", "$", "x">>,
   <<"unset", " ", "x">>,
   <<"f", "(", ")", " ", "{", " ", "x", "=", "b", ";", " ", "}">>,
   <<"f">>,
   <<"set", " ", "a", " ", "'", "*", "'">>,
   <<"shift">>,
   <<"set", " ", "-", "a">>,
   <<"x", "=", "$", "1">>})

Loops ==
  InHome({<<"for", " ", "i", " ", "in", " ", "a", " ", "b", ";", " ", "do", " ", "if", " ", "test", " ", "$", "i", " ", "=", " ", "b", ";", " ", "then", " ", "break", ";", " ", "fi", ";", " ", "echo", " ", "$", "i", ";", " ", "done">>,
   <<"while", " ", "x", "=", "a", "$", "x", ";", " ", "do", " ", "test", " ", "$", "{", "#", "x", "}", " ", "=", " ", "2", " ", "&", "&", " ", "break", ";", " ", "done">>,
   <<"for", " ", "i", " ", "in", " ", "a", ";", " ", "do", " ", "for", " ", "x", " ", "in", " ", "b", " ", "c", ";", " ", "do", " ", "continue", " ", "2", ";", " ", "done", ";", " ", "done">>,
   <<"for", " ", "i", ";", " ", "do", " ", "shift", ";", " ", "echo", " ", "$", "i", ";", " ", "done">>,
   <<"set", " ", "a", " ", "b">>,
   <<"x", "=", "$", "{", "1", "-", "c", "}">>,
   <<"until", " ", "test", " ", "-", "f", " ", "g", ";", " ", "do", " ", "cat", " ", "f", " ", ">", "g", ";", " ", "done">>})

Errors ==
  InHome({<<"set", " ", "-", "e">>,
   <<"false">>,
   <<"cat", " ", "none">>,
   <<"echo", " ", "a", " ", "|", "|", " ", "echo", " ", "b">>,
   <<"x", "=", "$", "(", "cat", " ", "none", ";", " ", "echo", " ", "c", ")">>,
   <<"if", " ", "false", ";", " ", "then", " ", "x", "=", "a", ";", " ", "fi", ";", " ", "x", "=", "b">>,
   <<"nope", ";", " ", "echo", " ", "$", "?">>,
   <<"{", " ", "false", ";", " ", "echo", " ", "d", ";", " ", "}", " ", ">", "g">>,
   <<"unset", " ", "'", "'">>,
   <<"(", "cat", " ", "none", ")", ";", " ", "echo", " ", "b">>})

Places ==
  InHome({<<"cd", " ", "d">>,
   <<"cd">>,
   <<"cd", " ", ".", ".">>,
   <<"cd", " ", "-", ";", " ", "echo", " ", "a">>,
   <<"pwd", " ", ">", "p">>,
   <<"cd", " ", "none", " ", "|", "|", " ", "x", "=", "a">>,
   <<"x", "=", "*", ";", " ", "echo", " ", "$", "x">>,
   <<"f", "(", ")", " ", "{", " ", "cd", " ", "d", ";", " ", "}">>,
   <<"f", ";", " ", "pwd">>,
   <<"echo", " ", "a", " ", ">", "g", ";", " ", "cat", " ", "g">>}) \cup
  InD({<<"pwd">>,
   <<"echo", " ", "a", " ", ">", "g">>})

Streams ==
  InHome({<<"echo", " ", "a", " ", ">", "g">>,
   <<"cat", " ", "<", "f">>,
   <<"echo", " ", "b", " ", ">", ">", "g", ";", " ", "cat", " ", "g">>,
   <<"{", " ", "cat", ";", " ", "echo", " ", "c", ";", " ", "}", " ", "<", "f", " ", ">", "g">>,
   <<"f", "(", ")", " ", "{", " ", "cat", " ", "<", "<", "E", "nl", "$", "x", "nl", "E", "nl", "}">>,
   <<"f", " ", "|", " ", "{", " ", "cat", ";", " ", "x", "=", "e", ";", " ", "}">>,
   <<"echo", " ", "a", " ", "|", " ", "cat", " ", ">", "d">>,
   <<"cat", " ", "<", "none", ";", " ", "echo", " ", "d">>,
   <<"f", " ", ">", "&", "2", " ", "2", ">", "g">>})

Words ==
  InHome({<<"x", "=", "'", "*", "'">>,
   <<"x", "=", "'", "a", " ", " ", "b", "'">>,
   <<"set", " ", "'", "*", "'", " ", "'", "'", " ", "'", "a", " ", "b", "'">>,
   <<"set", " ", "$", "x">>,
   <<"x", "=", "dq", "$", "*", "dq">>,
   <<"x", "=", "bs", "bs">>,
   <<"set", " ", "-", "f">>,
   <<"echo", " ", "$", "x", " ", "*", " ", ">", "g">>,
   <<"x", "=", "$", "(", "(", "x", "+", "1", ")", ")">>,
   <<"x", "=", "$", "{", "x", "%", "b", "}">>,
   <<"x", "=", "$", "{", "x", ":", "-", "'", "c", " ", "d", "'", "}">>})

Calls ==
  InHome({<<"f", "(", ")", " ", "{", " ", "case", " ", "$", "1", " ", "in", " ", "a", "*", ")", " ", "x", "=", "b", ";", ";", " ", "*", ")", " ", "x", "=", "$", "1", ";", " ", "esac", ";", " ", "}">>,
   <<"f", " ", "'", "a", " ", "'", ";", " ", "x", "=", "c">>,
   <<"sh", " ", "-", "c", " ", "'", "x", "=", "b", ";", " ", "echo", " ", "$", "x", " ", "$", "0", "'", " ", "a">>,
   <<"x", "=", "d", " ", "sh", " ", "<", "f">>,
   <<"command", " ", "-", "v", " ", "f", " ", "|", "|", " ", "x", "=", "y">>,
   <<"eval", " ", "a">>,
   <<"[", " ", "-", "f", " ", "f", " ", "-", "a", " ", "!", " ", "-", "d", " ", "f", " ", "]", " ", "&", "&", " ", "x", "=", "1">>,
   <<"printf", " ", "'", "%", "s", ",", "'", " ", "a", " ", "b", " ", ">", "g">>,
   <<"command", " ", "f">>,
   <<"unset", " ", "f", ";", " ", "f">>})

MCTheme == {Assignments, Loops, Errors, Places, Streams, Words, Calls}

MCReading(program) == LET file == Parse(program) IN file
MCAccepts(file)    == LET accepted == ValidateProgram(file) IN accepted
MCInterpret(r, file) == LET ran == RunFile(r, file) IN ran
=============================================================================
