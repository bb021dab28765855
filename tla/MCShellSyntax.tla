---------------------------- MODULE MCShellSyntax ----------------------------
(* Small instances of ShellSyntax: a theme is a part of the grammar, each  *)
(* with the chunks its hard cases are made of.                             *)
EXTENDS ShellSyntax

Chunks(lexemes) == {<<l>> : l \in lexemes}

Words   == Chunks({"a", "=", "dq", "'", "$", "bq", " "})
Params  == {<<"$", "{">>, <<"x">>, <<"}">>, <<":", "-">>, <<"%">>, <<"#">>, <<"$", "x">>, <<"dq">>}
Pipes   == {<<"a", " ">>, <<"|">>, <<"&">>, <<";">>, <<"!", " ">>, <<"(">>, <<")">>, <<"nl">>}
Redirs  == {<<"a", " ">>, <<"2">>, <<">">>, <<"<">>, <<"&">>, <<"|">>, <<"x">>}
Blocks  == {<<"{", " ">>, <<"}", " ">>, <<"f", "(", ")">>, <<"a", " ">>, <<";">>, <<"&">>}
Ifs     == {<<"if", " ">>, <<"a", ";">>, <<"then", " ">>, <<"elif", " ">>, <<"else", " ">>, <<"fi", " ">>}
Loops   == {<<"while", " ">>, <<"for", " ", "i", " ">>, <<"in", " ">>, <<"a", ";">>, <<"do", " ">>, <<"done", " ">>}
Cases   == {<<"case", " ", "a", " ">>, <<"in", " ">>, <<"esac", " ">>, <<"(">>, <<"a", ")">>, <<"|", "x", ")">>, <<";", ";">>}
Arithm  == {<<"$", "(", "(">>, <<")", ")">>, <<"(">>, <<")">>, <<"x">>, <<"=">>, <<"?">>, <<":">>, <<"-">>}
Hdocs   == {<<"a", "<", "<", "E">>, <<"x", "<", "<", "'", "E", "'">>, <<"nl">>, <<"E">>, <<"x">>, <<"$", "x">>, <<";">>}
Substs  == {<<"$", "(">>, <<")">>, <<"bq">>, <<"a", " ">>, <<"(">>, <<"a", "<", "<", "E">>, <<"nl", "E">>, <<"nl">>}
Steps   == {<<"exit", " ">>, <<"a", " ">>, <<"$", "(">>, <<")">>, <<"&">>, <<";">>, <<"f", "(", ")">>, <<"dq">>}

MCTheme == {Words, Params, Pipes, Redirs, Blocks, Ifs, Loops, Cases, Arithm, Hdocs, Substs, Steps}

MCReading(typed) == LET file == Parse(typed) IN file
MCPrinting(file) == LET shown == Printed(file) IN shown
MCAccepts(file)  == LET accepted == ValidateProgram(file) IN accepted
=============================================================================
