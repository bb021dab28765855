------------------------------ MODULE Commands ------------------------------
(***************************************************************************)
(* An agent's file system under the commands built into its shell          *)
(* (pkg/sh/moreinterp/coreutils) and the tools that work on files without  *)
(* a shell (pkg/tools): one call after another, each from start to end, as *)
(* the steps of an agent are.  The calls are those of the sets below; what *)
(* each does is in FileCommands, ArchiveCommands, TextCommands and         *)
(* AgentFileTools.                                                         *)
(*                                                                         *)
(* The commands and the tools are parameters only for the sake of TLC,     *)
(* which counts the expressions of an action along every path of calls: of *)
(* these there are more than it can list.                                  *)
(***************************************************************************)
EXTENDS ArchiveCommands, AgentFileTools

CONSTANTS Home,       \* the file system the agent finds
          Calls,      \* commands: the words, and the standard input
          Patches,    \* patches, each the sequence of its lines
          Reads,      \* arguments of read_file
          Listings,   \* arguments of list_dir
          Searches,   \* arguments of grep_files
          MaxCalls,
          Running(_, _),     \* Dispatch: a command
          Working(_, _, _)   \* Serve: a tool

VARIABLES fs,     \* the file system
          call,   \* the last command: its words, <<>> for a tool
          input,  \* what that command was given as its standard input
          tool,   \* the last tool and what it was given, <<>> for a command
          said,   \* what the last call answered: out, told and err
          made    \* how many calls there were
vars == <<fs, call, input, tool, said, made>>

RECURSIVE Dispatch(_, _)

\* A command by its name; xargs and the like call others through it.
Dispatch(st, words) ==
  LET name == Head(words)
      args == Tail(words)
  IN CASE name = "cat"   -> runCat(st, args)
       [] name = "chmod" -> runChmod(st, args)
       [] name = "comm"  -> runComm(st, args)
       [] name = "cp"    -> runCp(st, args)
       [] name = "cut"   -> runCut(st, args)
       [] name = "diff"  -> runDiff(st, args)
       [] name = "find"  -> runFind(st, args)
       [] name = "grep"  -> runGrep(st, args)
       [] name \in {"gzip", "gunzip", "gzcat"} -> runGzipProgram(st, name, args)
       [] name = "head"  -> runHead(st, args)
       [] name = "ls"    -> runLs(st, args)
       [] name = "mkdir" -> runMkdir(st, args)
       [] name = "mktemp" -> runMktemp(st, args)
       [] name = "mv"    -> runMv(st, args)
       [] name = "rm"    -> runRm(st, args)
       [] name = "sed"   -> runSed(st, args)
       [] name = "sort"  -> runSort(st, args)
       [] name = "tail"  -> runTail(st, args)
       [] name = "tar"   -> runTar(st, args)
       [] name = "touch" -> runTouch(st, args)
       [] name = "tr"    -> runTr(st, args)
       [] name = "uniq"  -> runUniq(st, args)
       [] name = "unzip" -> runUnzip(st, args)
       [] name = "wc"    -> runWc(st, args)
       [] name = "xargs" -> runXargs(st, args, Dispatch)
       [] name = "zip"   -> runZip(st, args)
       [] OTHER -> Ends(Tell(st), "not found")

\* A tool by its name.
Serve(st, name, args) ==
  CASE name = "apply_patch" -> applyPatch(st, args)
    [] name = "read_file"   -> readFile(st, args)
    [] name = "list_dir"    -> listDir(st, args)
    [] name = "grep_files"  -> grepFiles(st, args)

ASSUME ParametersAssumption ==
  /\ \A c \in Calls :
       Running(Started(Home, c.stdin), c.words) = Dispatch(Started(Home, c.stdin), c.words)
  /\ \A p \in Patches :
       Working(Started(Home, <<>>), "apply_patch", p) = applyPatch(Started(Home, <<>>), p)

Ended(st) ==
  /\ made < MaxCalls
  /\ fs' = st.fs
  /\ said' = [out |-> st.out, told |-> st.told, err |-> st.err]
  /\ made' = made + 1

Init ==
  /\ fs = Home
  /\ call = <<>> /\ input = <<>> /\ tool = <<>>
  /\ said = [out |-> <<>>, told |-> FALSE, err |-> ""]
  /\ made = 0

RunCommand ==
  \E c \in Calls :
    /\ Ended(Running(Started(fs, c.stdin), c.words))
    /\ call' = c.words /\ input' = c.stdin /\ tool' = <<>>

Tool(name, args, shown) ==
  /\ Ended(Working(Started(fs, <<>>), name, args))
  /\ tool' = <<name>> \o shown
  /\ call' = <<>> /\ input' = <<>>

ApplyPatch == \E p \in Patches : Tool("apply_patch", p, p)
ReadAFile  == \E a \in Reads : Tool("read_file", a, <<a.path>>)
ListDir    == \E a \in Listings : Tool("list_dir", a, <<a.path, a.offset, a.limit, a.depth>>)
GrepFiles  == \E a \in Searches : Tool("grep_files", a, <<a.path>>)

Next == RunCommand \/ ApplyPatch \/ ReadAFile \/ ListDir \/ GrepFiles

Spec == Init /\ [][Next]_vars
-----------------------------------------------------------------------------
(* What is in a file system: its places, and the node at each.             *)

RECURSIVE PlacesBelow(_, _, _)
PlacesBelow(f, ino, path) ==
  {<<path, ino>>} \cup
    (IF f[ino].kind # "directory" THEN {}
     ELSE UNION {PlacesBelow(f, f[ino].children[n], Append(path, n)) : n \in DOMAIN f[ino].children})

\* The node at each place, without its entries and counts.
Tree(f) ==
  LET places == PlacesBelow(f, 1, Root)
      ino(path) == (CHOOSE p \in places : p[1] = path)[2]
      seen(node) == [kind |-> node.kind, mode |-> node.mode, data |-> node.data,
                     target |-> node.target]
  IN [path \in {p[1] : p \in places} |-> seen(f[ino(path)])]

Below(path, root) == IsPrefix(root, path)
Parsing(words, spec) == ParseOptions(Tail(words), spec, FALSE)
Succeeds(name) == call'[1] = name /\ said'.err = "" /\ ~said'.told
Is(name) == call' # <<>> /\ call'[1] = name

\* Where a place leads, through the links on the way and at its end; where
\* nothing is there yet, the place at which a file would be made.
Leads(f, path) ==
  LET at     == Lookup(f, At(path), TRUE)
      create == ResolveCreatePath(f, path)
      parent == LookupParent(f, create.path)
  IN CASE at.err = "" -> {at.path}
       [] at.err = "notExist" /\ create.err = "" /\ parent.err = "" ->
            {Append(parent.path, parent.base)}
       [] OTHER -> {}

\* Where cp and mv put a source.
Destination(f, words, spec, follow) ==
  LET operands == Parsing(words, spec).operands
      to   == Place(Last(operands)).path
      info == Lookup(f, At(to), follow)
  IN IF info.err = "" /\ f[info.ino].kind = "directory"
     THEN JoinPath(to, Base(Head(operands))) ELSE to
-----------------------------------------------------------------------------
(* Files.                                                                  *)

\* The places a command may change: at or below its words, where those are
\* links what they lead to, the same with the suffix of gzip put on or taken
\* off, and the places of temporary files.
Named(f, words) ==
  LET places == {Place(words[i]).path : i \in {i \in DOMAIN words : Place(words[i]).err = ""}}
      onOff(path) == IF path = Root THEN {path}
                     ELSE {path, Append(Front(path), Last(path) \o ".gz"),
                           Append(Front(path), TrimSuffix(Last(path), ".gz"))}
      first == UNION {onOff(path) : path \in places}
  IN first \cup UNION {Leads(f, path) : path \in first} \cup {TempDir}

\* A link below a named directory: chmod -R changes the mode of what it leads
\* to, and tar and cp write through one they find in the way.
Through(f, tree, named) ==
  UNION {Leads(f, path) : path \in {p \in DOMAIN tree : /\ tree[p].kind = "symlink"
                                                        /\ \E n \in named : Below(p, n)}}

WordsOf(words, stdin) ==
  words \o (IF words[1] = "xargs" THEN splitXargsInput(stdin).args ELSE <<>>)

\* A command changes no file but the ones it is given, those below them, those
\* that links among them lead to, and directories made on the way to one.
ChangesOnlyWhatItNames ==
  [][call' # <<>> =>
       LET old     == Tree(fs)
           new     == Tree(fs')
           named   == Named(fs, WordsOf(call', input')) \cup
                        (IF call'[1] = "unzip" THEN {Root} ELSE {})
           through == Through(fs, old, named)
           same(path) == path \in DOMAIN old /\ path \in DOMAIN new /\ old[path] = new[path]
       IN \A path \in DOMAIN old \cup DOMAIN new :
            \/ same(path)
            \/ \E n \in named : Below(path, n)
            \/ path \in through
            \/ /\ path \notin DOMAIN old /\ new[path].kind = "directory"
               /\ \E n \in named : Below(n, path)]_vars

\* What a file holds is still there when another holds the same, or the same
\* packed or unpacked.
Holding(data, tree) ==
  \E path \in DOMAIN tree :
    /\ tree[path].kind = "regular"
    /\ tree[path].data = data \/ tree[path].data = Compressed(data)
         \/ Unpacked(data, "gz") = [err |-> "", bytes |-> tree[path].data]

\* Where a command may write over what is there: gzip only with -f, and mv
\* never with -n; of two sources with one name, the last stays.
WritesOver(f, words) ==
  LET gz == Parsing(words, GzipOptions)
      mv == Parsing(words, MvOptions)
      to == {Place(Last(words)).path} \cup Leads(f, Place(Last(words)).path)
      sources == [i \in 1..(Len(mv.operands) - 1) |-> Place(mv.operands[i]).path]
      twice == {sources[i] : i \in {i \in DOMAIN sources :
                  \E k \in DOMAIN sources : k > i /\ Last(sources[k]) = Last(sources[i])}}
  IN CASE words[1] = "mv" -> IF Has(mv, "n") THEN {} ELSE to \cup twice
       [] words[1] = "cp" -> to
       [] OTHER -> IF Has(gz, "f") THEN {Root} ELSE {}

\* Moving, copying, packing and unpacking files loses nothing of what any file
\* held, except where they are told to write over it, even when they fail.
NothingLost ==
  [][call' # <<>> /\ call'[1] \in {"mv", "cp", "gzip", "gunzip", "gzcat"} =>
       LET old  == Tree(fs)
           new  == Tree(fs')
           over == WritesOver(fs, call')
       IN \A path \in DOMAIN old :
            old[path].kind = "regular" /\ (\A w \in over : ~Below(path, w))
              => Holding(old[path].data, new)]_vars

\* A copy that succeeds is like its source, file by file; the modes of what
\* was there before stay, and what the source does not have is left alone.
CopyIsLikeSource ==
  [][Is("cp") /\ Succeeds("cp") =>
       LET p       == Parsing(call', CpOptions)
           from    == Place(Head(p.operands)).path
           to      == Destination(fs, call', CpOptions, TRUE)
           old     == Tree(fs)
           new     == Tree(fs')
           follow  == ~Has(p, "P")
           sources == {path \in DOMAIN old : Below(path, from)}
           like(path) ==
             LET source == Lookup(fs, At(path), follow)
                 copy   == Lookup(fs', At(to \o Rel(from, path)), follow)
                 kept   == Lookup(fs, At(to \o Rel(from, path)), follow)
                 a == fs[source.ino]
                 b == fs'[copy.ino]
             IN /\ copy.err = ""
                /\ b.kind = a.kind /\ b.data = a.data /\ b.target = a.target
                /\ kept.err # "" => b.mode = a.mode
           apart(path) == Below(path, to) /\ from \o Rel(to, path) \notin sources
       IN Len(p.operands) = 2 /\ ~copyAsks(fs, p) =>
            /\ \A path \in sources : like(path)
            /\ \A path \in DOMAIN old : apart(path) => new[path] = old[path]]_vars

\* What is moved, copied or packed is all there afterwards.
FilesKept == NothingLost /\ CopyIsLikeSource
-----------------------------------------------------------------------------
(* Archives.                                                               *)

\* The archive and the directory a command packs or unpacks with.
ArchiveOf(words) ==
  IF words[1] = "tar" THEN ValueOf(Parsing(words, TarOptions), "f", "")
  ELSE Parsing(words, IF words[1] = "zip" THEN ZipOptions ELSE UnzipOptions).operands[1]

Packed(f, words) ==
  EntriesOf(Tail(ReadFile(Started(f, <<>>), Place(ArchiveOf(words)).path).bytes))

Packs(words) == \/ words[1] = "tar" /\ Has(Parsing(words, TarOptions), "c")
                \/ words[1] = "zip"
Unpacks(words) == \/ words[1] = "tar" /\ Has(Parsing(words, TarOptions), "x")
                  \/ words[1] = "unzip" /\ ~Has(Parsing(words, UnzipOptions), "l")
Into(words) ==
  IF words[1] = "tar" THEN Place(Parsing(words, TarOptions).operands[1]).path
  ELSE Place(ValueOf(Parsing(words, UnzipOptions), "d", ".")).path

SameFile(node, e) ==
  /\ node.kind = e.kind
  /\ e.kind = "regular" => node.data = e.data
  /\ e.kind = "symlink" => node.target = e.target
  /\ e.kind # "symlink" => node.mode = e.mode

\* An archive that could be made holds each file it was given, and each below
\* those, once and as it is; one that could be unpacked leaves each of its
\* files below the destination, the last of those with one name, with its mode.
ArchivesRestore ==
  [][call' # <<>> /\ said'.err = "" /\ ~said'.told =>
       LET old == Tree(fs)
           new == Tree(fs')
           archive == Place(ArchiveOf(call')).path
           given == IF call'[1] = "tar" THEN Parsing(call', TarOptions).operands
                    ELSE Tail(Parsing(call', ZipOptions).operands)
           deep  == ~(call'[1] = "tar" /\ Has(Parsing(call', TarOptions), "n"))
           wanted == {path \in DOMAIN old \ {archive} :
                        \E i \in DOMAIN given :
                          IF deep THEN Below(path, Place(given[i]).path)
                          ELSE path = Place(given[i]).path}
           packed == Packed(fs', call')
           place(e) == Place(IF e.name = "./" THEN "." ELSE e.name).path
           into == Into(call')
           unpacked == Packed(fs, call')
           at(e) == safeJoin(into, e.name).path
           last(i) == \A k \in (i + 1)..Len(unpacked) : at(unpacked[k]) # at(unpacked[i])
       IN /\ Packs(call') =>
               /\ {place(packed[i]) : i \in DOMAIN packed} = wanted
               /\ Len(given) = 1 => Len(packed) = Cardinality(wanted)
               /\ \A i \in DOMAIN packed : SameFile(old[place(packed[i])], packed[i])
          /\ Unpacks(call') =>
               \A i \in DOMAIN unpacked :
                 last(i) => at(unpacked[i]) \in DOMAIN new
                              /\ SameFile(new[at(unpacked[i])], unpacked[i])]_vars
-----------------------------------------------------------------------------
(* find.                                                                   *)

\* What find is asked when its roots come first and it has no parentheses: one
\* of the lists between the -o, all of whose tests hold.
SplitWords(words, seps) ==
  FoldLeft(LAMBDA lists, w : IF w \in seps THEN Append(lists, <<>>)
                             ELSE [lists EXCEPT ![Len(lists)] = Append(@, w)],
           << <<>> >>, words)

TestHolds(node, name, test, value) ==
  CASE test = "-name" -> Matches(Chars(value), Chars(Base(name)))
    [] test = "-path" -> Matches(Chars(value), Chars(name)) \/ Matches(Chars(value), Chars("./" \o name))
    [] test = "-type" -> node.kind = FileTypes[value]
    [] test = "-perm" -> node.mode = parseModeExpression(value).bits
    [] OTHER -> TRUE

ListHolds(node, name, list) ==
  \A i \in DOMAIN list :
    list[i] \in {"-name", "-path", "-type", "-perm"} => TestHolds(node, name, list[i], list[i + 1])

Depths(words) == {Atoi(words[i + 1]) : i \in {i \in DOMAIN words : words[i] = "-maxdepth"}}

\* What one root and an expression should list.
Listed(f, root, expression) ==
  LET tree  == Tree(f)
      from  == Place(root).path
      name(path) == joinDisplayPath(root, Rel(from, path))
      lists == SplitWords(expression, {"-o", "-or"})
      wanted(path) ==
        /\ Below(path, from)
        /\ \A depth \in Depths(expression) : Len(path) - Len(from) <= depth
        /\ \E i \in DOMAIN lists : ListHolds(tree[path], name(path), lists[i])
  IN {name(path) : path \in {p \in DOMAIN tree : wanted(p)}}

LinesOf(out) == LET pieces == Split(out, Newline) IN Front(pieces)

\* find lists the files that match its expression, each of them once.
FindListsWhatMatches ==
  [][Is("find") /\ Len(call') > 1 /\ ~isFindExpressionToken(call'[2]) /\ Succeeds("find")
       /\ "(" \notin ToSet(call') =>
       LET wanted == Listed(fs, call'[2], SubSeq(call', 3, Len(call')))
           lines  == LinesOf(said'.out)
       IN /\ {Joined(lines[i]) : i \in DOMAIN lines} = wanted
          /\ Len(lines) = Cardinality(wanted)]_vars

-----------------------------------------------------------------------------
(* Text.                                                                   *)

LinesCounted(lines, line) == Cardinality({i \in DOMAIN lines : lines[i] = line})
FileLines(f, path) == SplitPreservingLineStructure(ReadFile(Started(f, <<>>), path).bytes)

\* sort shows each line of its input as often as it is there, once with -u, in
\* an order in which no line belongs before the one ahead of it.
SortedLines ==
  [][Is("sort") /\ Succeeds("sort") =>
       LET p     == Parsing(call', SortOptions)
           lines == FlattenSeq([i \in DOMAIN p.operands |-> FileLines(fs, Place(p.operands[i]).path)])
           shown == LinesOf(said'.out)
           numbers == \A i \in DOMAIN lines : parseSortNumber(lines[i]).ok
           value(line) == parseSortNumber(line).value
           above(a, b) == IF Has(p, "n") THEN value(a) < value(b) ELSE CharsBefore(a, b)
       IN p.operands # <<>> /\ ~Has(p, "f") /\ (Has(p, "n") => numbers) =>
            /\ ToSet(shown) \subseteq ToSet(lines)
            /\ \A line \in ToSet(lines) :
                 IF Has(p, "u") THEN \E kept \in ToSet(shown) : ~above(line, kept) /\ ~above(kept, line)
                 ELSE LinesCounted(shown, line) = LinesCounted(lines, line)
            /\ \A i \in 1..(Len(shown) - 1) :
                 IF Has(p, "r") THEN ~above(shown[i], shown[i + 1]) ELSE ~above(shown[i + 1], shown[i])
            /\ Has(p, "u") => Cardinality(ToSet(shown)) = Len(shown)]_vars

RECURSIVE RangesFrom(_, _, _)

\* The places of the lines in a range of sed, from one start to its end, then
\* from the next start after that.
RangesFrom(lines, n, range) ==
  LET is(address, i) == addressMatches(address, lines[i], i, i = Len(lines))
      starts == {i \in n..Len(lines) : is(range.start, i)}
      start  == Min(starts)
      ends   == IF range.end.kind = "line" THEN {IF range.end.line > start THEN range.end.line ELSE start}
                ELSE IF range.end.kind = "last" THEN {Len(lines)}
                ELSE {i \in (start + 1)..Len(lines) : is(range.end, i)}
      end    == IF ends = {} \/ Min(ends) > Len(lines) THEN Len(lines) ELSE Min(ends)
  IN IF starts = {} THEN {} ELSE (start..end) \cup RangesFrom(lines, end + 1, range)

\* A range of sed holds the lines from each start to the end that follows it:
\* "p" shows them, "d" all but them.
RangesAreWhole ==
  [][Is("sed") /\ Succeeds("sed") =>
       LET p       == ParseOptions(Tail(call'), Flag({"-n"}, "n"), TRUE)
           command == parseSedProgram(<<p.operands[1]>>).commands[1]
           lines   == FileLines(fs, Place(p.operands[2]).path)
           inside  == RangesFrom(lines, 1, command)
           kept    == SelectSeq([i \in DOMAIN lines |-> i],
                                LAMBDA i : (i \in inside) = (command.kind = "print"))
       IN Len(p.operands) = 2 /\ command.end.kind # "none" /\ command.kind # "substitute"
            /\ Has(p, "n") = (command.kind = "print") =>
            SplitPreservingLineStructure(said'.out) = [k \in DOMAIN kept |-> lines[kept[k]]]]_vars

\* The lines of a file are shown by sort and sed as they were asked for.
LinesShown == SortedLines /\ RangesAreWhole
-----------------------------------------------------------------------------
(* Tools.                                                                  *)

\* The lines a patch puts into and takes out of a file.
Changes(ops, path, kind) ==
  LET of(op) == IF Place(op.path).path # path THEN <<>>
                ELSE IF op.action = "add" THEN (IF kind = "+" THEN op.lines ELSE <<>>)
                ELSE LET all == SelectSeq(FlattenSeq(op.hunks), LAMBDA c : c.kind = kind)
                     IN [i \in DOMAIN all |-> all[i].text]
  IN FlattenSeq([i \in DOMAIN ops |-> of(ops[i])])

\* A patch takes out of a file the lines it says, puts in those it says and
\* keeps all the others in their order; it changes no other file, and a patch
\* that cannot be read changes nothing.
PatchKeepsTheRest ==
  [][tool' # <<>> /\ tool'[1] = "apply_patch" =>
       LET parsed  == parseApplyPatch(Tail(tool'))
           ops     == parsed.ops
           old     == Tree(fs)
           new     == Tree(fs')
           paths   == UNION {{Place(ops[i].path).path} \cup Leads(fs, Place(ops[i].path).path) :
                               i \in DOMAIN ops}
           kept(path) ==
             LET before == IF path \in DOMAIN old THEN FileLines(fs, path) ELSE <<>>
                 after  == FileLines(fs', path)
                 added  == Changes(ops, path, "+")
                 gone   == Changes(ops, path, "-")
                 plain(line) == line \notin ToSet(added) \cup ToSet(gone)
             IN /\ SelectSeq(after, plain) = SelectSeq(before, plain)
                /\ \A line \in ToSet(added) \cup ToSet(gone) :
                     LinesCounted(after, line) + LinesCounted(gone, line)
                       = LinesCounted(before, line) + LinesCounted(added, line)
       IN /\ parsed.err # "" => fs' = fs
          /\ \A path \in DOMAIN old \ paths : path \in DOMAIN new /\ new[path] = old[path]
          /\ said'.err = "" =>
               \A i \in DOMAIN ops : kept(Place(ops[i].path).path)]_vars

\* A page of list_dir shows what find lists below the same place, in the same
\* order: the entries from the offset on, as many as the limit allows (it leaves
\* the file system as it was).
ListingsAgree ==
  tool # <<>> /\ tool[1] = "list_dir" /\ said.err = "" =>
    LET root  == Lookup(fs, At(Place(tool[2]).path), TRUE).path
        first == IF tool[3] = 0 THEN 1 ELSE tool[3]
        depth == IF tool[5] = 0 THEN 1 ELSE IF tool[5] > 8 THEN 8 ELSE tool[5]
        found == Running(Started(fs, <<>>),
                         <<"find", "/" \o Word(root), "-maxdepth", ToString(depth)>>).out
        last(most) == IF tool[4] = 0 THEN most ELSE Min({first + tool[4] - 1, most})
        page(paths) == SubSeq(paths, first, last(Len(paths)))
        place(line) == Joined(SubSeq(line, SelectInSeq(line, LAMBDA c : c = "|") + 1, Len(line)))
        shown == [i \in DOMAIN LinesOf(said.out) |->
                    "/" \o Word(root) \o "/" \o place(LinesOf(said.out)[i])]
        wanted(lines) == [i \in DOMAIN lines |-> Joined(lines[i])]
    IN shown = page(wanted(Tail(LinesOf(found))))

\* find answers what its expression says, and list_dir what find does.
ListingsAreRight == FindListsWhatMatches /\ []ListingsAgree
=============================================================================
