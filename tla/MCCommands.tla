----------------------------- MODULE MCCommands -----------------------------
(* An agent's directory with a few files, a directory, links to both and   *)
(* archives made elsewhere; calls that pack, move, copy, search and edit   *)
(* them, any two after one another.                                        *)
EXTENDS Commands

MCRoot == <<"root">>
MCTempNames == <<"1", "2">>

Private == {"r", "w"}

\* An archive of d as it was once, with x to itself and other files in it.
OldEntry(name, kind, mode, text) ==
  ArchiveEntry(name, [NewNode(kind, mode) EXCEPT !.data = Chars(text)])
OldArchive(kind, slash) ==
  <<kind>> \o Encoded(OldEntry("d" \o slash, "directory", DirectoryPerm, ""))
           \o Encoded(OldEntry("d/x", "regular", Private, "y\n"))
           \o Encoded(OldEntry("d/w/v", "regular", FileBits, ""))
           \o Encoded(OldEntry("d/x", "regular", Private, "z\n")) \o Encoded(TheEnd)

\* The directory, node by node.
MCHome ==
  LET file(chars, mode) == [NewNode("regular", mode) EXCEPT !.data = chars]
      dir(children)     == [NewNode("directory", DirectoryPerm) EXCEPT !.children = children]
      link(parts)       == [NewNode("symlink", {"r", "w", "x"}) EXCEPT
                              !.target = [abs |-> FALSE, parts |-> parts]]
  IN << dir("a" :> 2 @@ "n" :> 3 @@ "d" :> 4 @@ "l" :> 9 @@ "a.gz" :> 10 @@ "t" :> 11 @@ "z" :> 12),
        file(Chars("b\na\nb\n"), FileBits), file(Chars("10\n9\n2"), FileBits),
        dir("e" :> 5 @@ "x" :> 6 @@ "k" :> 8), dir("a" :> 7),
        file(Chars("x\n"), FileBits), file(Chars("e\n"), Private),
        link(<<"..", "a">>), link(<<"d", "e">>),
        file(Compressed(Chars("old")), FileBits),
        file(OldArchive("tar", ""), FileBits), file(OldArchive("zip", "/"), FileBits) >>

Command(words) == [words |-> words, stdin |-> <<>>]
Given(stdin, words) == [words |-> words, stdin |-> Chars(stdin)]

Moving ==
  {Command(words) : words \in
    {<<"mv", "a", "b">>, <<"mv", "a", "d">>, <<"mv", "-n", "a", "n">>, <<"mv", "a", "n", "d">>,
     <<"mv", "d/e/a", "a", "d">>, <<"mv", "l", "d/x">>, <<"mv", "d", "d2">>, <<"mv", "n", "l">>,
     <<"cp", "a", "n">>, <<"cp", "n", "d/k">>, <<"cp", "-r", "d", "c">>, <<"cp", "-rP", "d", "c">>,
     <<"cp", "-r", "d/e", "d/x">>, <<"cp", "d", "c">>, <<"cp", "-v", "a", "n", "d/e">>,
     <<"cp", "-r", "d/e", "l">>,
     <<"rm", "a">>, <<"rm", "-r", "d">>, <<"rm", "-rf", "l", "q">>, <<"rm", "d">>,
     <<"chmod", "-R", "go-w", "d">>, <<"chmod", "u=r,g+w", "a", "n">>, <<"chmod", "600", "d/k">>,
     <<"chmod", "--reference", "d/e/a", "a">>, <<"touch", "b", "q/r">>,
     <<"mkdir", "-p", "-m", "700", "p/q">>, <<"mkdir", "d">>,
     <<"mktemp", "-p", "d", "mXXX">>, <<"mktemp", "-d">>}}
  \cup {Given("y\nn\n", <<"rm", "-i", "a", "n">>), Given("y\n", <<"cp", "-i", "a", "n">>),
        Given("a 'n'\n", <<"xargs", "-n", "1", "rm">>), Given("d/x a", <<"xargs", "cat">>)}

Packing ==
  {Command(words) : words \in
    {<<"gzip", "a">>, <<"gzip", "-k", "n">>, <<"gzip", "d/x">>, <<"gzip", "-f", "a", "n">>, <<"gunzip", "a.gz">>,
     <<"gunzip", "-f", "a.gz">>, <<"gzip", "-d", "-c", "a.gz">>, <<"gzip", "-t", "a">>,
     <<"gunzip", "t">>, <<"gzcat", "n.gz">>,
     <<"tar", "-c", "-f", "s", "d", "a">>, <<"tar", "-cvf", "s", "d">>, <<"tar", "-cf", "s", "--no-recursion", "d">>,
     <<"tar", "-cf", "d/s", "d">>, <<"tar", "-tf", "t">>, <<"tar", "-xf", "t", ".">>,
     <<"tar", "-xvf", "s", "p">>, <<"tar", "-xf", "a", ".">>,
     <<"zip", "-r", "s", "d">>, <<"zip", "d/s", "a", "n">>, <<"zip", "-r", "d/s", "d">>, <<"unzip", "z">>,
     <<"unzip", "-d", "p", "s">>, <<"unzip", "-l", "z">>}}

Searching ==
  {Command(words) : words \in
    {<<"find">>, <<"find", ".", "-type", "f">>, <<"find", "d", "-maxdepth", "1">>,
     <<"find", "d", "-name", "*a", "-o", "-type", "d", "-name", "e">>, <<"find", "l", "-type", "l">>,
     <<"find", "d", "(", "-name", "x", "-o", "-type", "d", ")", "-maxdepth", "1">>,
     <<"find", ".", "-perm", "600">>, <<"find", "-d", "d", "-path", "d/*">>,
     <<"find", ".", "-type", "z">>, <<"find", "q">>,
     <<"ls", "-aF">>, <<"ls", "-R", "d">>, <<"ls", "-S", "d", "q">>,
     <<"cat", "a", "d/x">>, <<"cat", "d">>, <<"diff", "a", "n">>, <<"comm", "-3", "n", "a">>,
     <<"grep", "-E", "-rn", "^[a]*", ".">>, <<"grep", "-Fv", "a", "a">>, <<"grep", "-Eo", "-e", "a", "-e", "b", "a", "n">>,
     <<"grep", "-Fc", "x", "d/x", "q">>, <<"grep", "-Eql", "b", "a">>, <<"grep", "b", "a">>,
     <<"head", "-2", "a">>, <<"head", "-c", "3", "a", "n">>, <<"tail", "+2", "n">>, <<"tail", "-n", "1", "a">>,
     <<"wc", "a", "n">>, <<"wc", "-l", "q">>,
     <<"sed", "-n", "1,/a/p", "a">>, <<"sed", "/b/,2d", "a">>, <<"sed", "-n", "/b/,/b/p", "a">>,
     <<"sed", "2,$d", "n">>, <<"sed", "s/b/[&]/g;1d", "a">>, <<"sed", "-e", "s/^/x/p", "-e", "q", "a">>,
     <<"sort", "a", "n">>, <<"sort", "-n", "n">>, <<"sort", "-ru", "a">>, <<"sort", "-f", "q">>,
     <<"uniq", "-c", "a">>, <<"uniq", "-d", "a">>, <<"cut", "-c", "1,3-", "n">>, <<"cut", "-d", "0", "-f", "2", "n">>}}
  \cup {Given("a-c\n", <<"tr", "-s", "[:lower:]-", "A-D">>), Given("aabb", <<"tr", "-d", "a-b">>),
        Given("b\na\n", <<"comm", "a", "-">>), Given("x x\n", <<"wc", "-w">>),
        Given("b\n", <<"grep", "-E", "-", ".">>), Given("a", <<"cat", "-", "a">>)}

MCCalls == Moving \cup Packing \cup Searching

Patch(lines) == <<"*** Begin Patch">> \o lines \o <<"*** End Patch">>
MCPatches ==
  {Patch(<<"*** Update File: a", "@@", " b", "-a", "+c", "+d">>),
   Patch(<<"*** Update File: a", "@@ end", " b", "+z", "*** End of File", "@@", "-b", "*** Add File: p/new", "+q">>),
   Patch(<<"*** Update File: n", "@@", " 10", " 9", "-2", "*** Update File: q", "@@", "+x">>),
   Patch(<<"*** Update File: d/k", "@@", "-b", "-a", "-b">>),
   Patch(<<"*** Add File: a", "+x">>), Patch(<<"*** Add File: b">>), <<"*** Begin Patch">>}

Slice(path, offset, limit) ==
  [path |-> path, offset |-> offset, limit |-> limit, mode |-> "", indentation |-> FALSE]
Indented(path, anchor, levels, header, max) ==
  [path |-> path, offset |-> 0, mode |-> "indentation", indentation |-> TRUE, anchor |-> anchor,
   levels |-> levels, header |-> header, max |-> max]
MCReads == {Slice("a", 2, 1), Slice("d", 0, 0), Slice("n", 4, 0), Slice("q", 0, 0),
            Indented("a", 2, 1, TRUE, 0), Indented("n", 0, 0, FALSE, 1)}
Listing(path, offset, limit, depth) == [path |-> path, offset |-> offset, limit |-> limit, depth |-> depth]
MCListings == {Listing(".", 0, 0, 0), Listing("d", 2, 1, 2), Listing("l", 0, 0, 9), Listing("a", 0, 0, 0)}
Search(pattern, include, path, limit) ==
  [pattern |-> pattern, include |-> include, path |-> path, limit |-> limit]
MCRunning(st, words) == LET ran == Dispatch(st, words) IN ran
MCWorking(st, name, args) == LET did == Serve(st, name, args) IN did
MCSearches == {Search("^b", {}, ".", 0), Search("e", {"*a", "x"}, "d", 1), Search("b", {"a"}, "a", 0)}
=============================================================================
