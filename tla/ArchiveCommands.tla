-------------------------- MODULE ArchiveCommands --------------------------
(***************************************************************************)
(* The commands that pack files and unpack them, and those beside them     *)
(* (pkg/sh/moreinterp/coreutils: archive_commands.go, zip_commands.go and  *)
(* xargs_input.go): gzip, tar, zip, mktemp and xargs.                      *)
(*                                                                         *)
(* A compressed file is "gz" and the characters it holds; an archive is    *)
(* "tar" or "zip" and its entries, the last of which says that it was      *)
(* closed.  The names mktemp draws at random are those of TempNames in     *)
(* turn; times are left out.                                               *)
(***************************************************************************)
EXTENDS FileCommands

CONSTANT TempNames   \* the random suffixes mktemp draws, in order

TempDir == Append(Root, ".tmp")   \* where it makes files

HasSuffix(word, suffix) ==
  Len(word) >= Len(suffix) /\ SubSeq(word, Len(word) - Len(suffix) + 1, Len(word)) = suffix
TrimSuffix(word, suffix) ==
  IF HasSuffix(word, suffix) THEN SubSeq(word, 1, Len(word) - Len(suffix)) ELSE word
-----------------------------------------------------------------------------
(* gzip, gunzip and gzcat.                                                 *)

Levels == {"1", "2", "3", "4", "5", "6", "7", "8", "9"}
GzipOptions ==
  [n \in {"-" \o l : l \in Levels} |-> [is |-> "level", takes |-> FALSE]]
    @@ Flag({"-d"}, "d") @@ Flag({"-f"}, "f") @@ Flag({"-k"}, "k") @@ Flag({"-q"}, "q")
    @@ Flag({"-c"}, "c") @@ Flag({"-t"}, "t") @@ Flag({"-v"}, "v") @@ Flag({"-h"}, "h")
    @@ Value({"-b"}, "b") @@ Value({"-p"}, "p") @@ Value({"-S"}, "S")

\* What gzip works with, once the program's name has had its say.
GzipSettings(prog, p) ==
  [decompress |-> Has(p, "d") \/ Has(p, "t") \/ prog \in {"gunzip", "gzcat"},
   stdout |-> Has(p, "c") \/ prog = "gzcat" \/ p.operands = <<>>,
   force |-> Has(p, "f"), keep |-> Has(p, "k"), test |-> Has(p, "t"),
   suffix |-> ValueOf(p, "S", ".gz")]

Compressed(bytes) == <<"gz">> \o bytes
Unpacked(bytes, marker) ==
  IF bytes = <<>> \/ Head(bytes) # marker THEN [err |-> "invalid header", bytes |-> <<>>]
  ELSE [err |-> "", bytes |-> Tail(bytes)]

\* Slip: the result is made in the working directory.
gzipOutputHere(path, o) ==
  IF o.stdout \/ o.test THEN path
  ELSE Append(Root, IF o.decompress THEN TrimSuffix(Last(path), o.suffix)
                    ELSE Last(path) \o o.suffix)

gzipOutputPath(path, o) ==
  IF o.stdout \/ o.test THEN path
  ELSE Append(Front(path), IF o.decompress THEN TrimSuffix(Last(path), o.suffix)
                           ELSE Last(path) \o o.suffix)

\* Slip: a result that exists is written over.
gzipBlockedNever(st, to, o) == ""

\* Why there is no room for the result.
gzipBlocked(st, to, o) ==
  LET there == Stat(st, to) IN
  IF o.stdout \/ o.test \/ o.force \/ there.err = "notExist" THEN ""
  ELSE IF there.err = "" THEN "already exists" ELSE there.err

\* The output is opened, and emptied, before the input is read.
processGzipInput(st, path, o) ==
  LET to     == gzipOutputPath(path, o)
      named  == HasSuffix(Last(path), o.suffix)
      opened == OpenFile(st.fs, At(to), {"CREATE", "TRUNC", "WRONLY"}, FileBits)
      filed  == ~o.stdout /\ ~o.test
      begun  == IF filed THEN [st EXCEPT !.fs = opened.fs] ELSE st
      input  == ReadFile(begun, path)
      packed == IF o.decompress THEN Unpacked(input.bytes, "gz")
                ELSE [err |-> "", bytes |-> Compressed(input.bytes)]
      done   == IF filed THEN [begun EXCEPT !.fs = Write(begun.fs, opened.handle, packed.bytes).fs]
                ELSE IF o.test THEN begun ELSE Emit(begun, packed.bytes)
  IN IF Stat(st, path).err # "" THEN Ends(st, Stat(st, path).err)
     ELSE IF ~o.force /\ o.decompress # named THEN Ends(st, "suffix")
     ELSE IF gzipBlocked(st, to, o) # "" THEN Ends(st, gzipBlocked(st, to, o))
     ELSE IF filed /\ opened.err # "" THEN Ends(st, opened.err)
     ELSE IF input.err # "" THEN Ends(begun, input.err)
     ELSE IF packed.err # "" THEN Ends(begun, packed.err)
     ELSE IF o.keep \/ ~filed THEN done
     ELSE After(done, RemoveEntry(done.fs, At(path)))

\* An input that fails is told, unless -q; the status is 0 all the same.
runGzipProgram(st, prog, args) ==
  WithArgs(st, args, GzipOptions, LAMBDA p :
    LET o      == GzipSettings(prog, p)
        inputs == resolvePaths(p.operands)
        numbers == ValuesOf(p, "b") \o ValuesOf(p, "p")
        through == IF o.decompress THEN Unpacked(st.stdin, "gz")
                   ELSE [err |-> "", bytes |-> Compressed(st.stdin)]
        each(s, input) ==
          LET done == processGzipInput(s, input.path, o) IN
          IF done.err = "" THEN done
          ELSE Ends(IF Has(p, "q") THEN done ELSE Tell(done), "")
    IN IF \E i \in DOMAIN numbers : Atoi(numbers[i]) = NotANumber THEN Ends(st, "invalid value")
       ELSE IF Len(ValuesOf(p, "level")) > 1 THEN Ends(st, "multiple compression levels")
       ELSE IF Has(p, "h") THEN Tell(st)
       ELSE IF inputs = <<>> /\ ~o.force THEN Ends(st, "not writing to stdout")
       ELSE IF inputs = <<>>
       THEN IF through.err # "" THEN Tell([st EXCEPT !.stdin = <<>>])
            ELSE [(IF o.test THEN st ELSE Emit(st, through.bytes)) EXCEPT !.stdin = <<>>]
       ELSE IF Unresolved(inputs) # <<>> THEN Ends(st, Unresolved(inputs)[1].err)
       ELSE ForEach(st, inputs, each))
-----------------------------------------------------------------------------
(* Archives.                                                               *)

ArchiveEntry(name, node) ==
  [name |-> name, kind |-> node.kind, mode |-> node.mode, data |-> node.data,
   target |-> node.target]
TheEnd == ArchiveEntry("", NewNode("end", {}))

\* An entry in an archive: a header, in which the permissions have their
\* places, and the characters of the file, as many as the header says.
ModeBits == <<"r", "w", "x", "gr", "gw", "gx", "or", "ow", "ox", "setuid", "setgid", "sticky">>
HeaderLength == 4 + Len(ModeBits)
Encoded(e) ==
  <<e.name, e.kind, (IF e.target.abs THEN "/" ELSE "") \o Word(e.target.parts), ToString(Len(e.data))>>
    \o [i \in DOMAIN ModeBits |-> IF ModeBits[i] \in e.mode THEN ModeBits[i] ELSE "-"] \o e.data

RECURSIVE EntriesOf(_)
EntriesOf(bytes) ==
  LET size == Atoi(bytes[4])
      from == HeaderLength + size
      bits == ToSet(SubSeq(bytes, 5, HeaderLength)) \ {"-"}
      node == [NewNode(bytes[2], bits) EXCEPT
                 !.data = SubSeq(bytes, HeaderLength + 1, from),
                 !.target = [abs |-> HasPrefix(bytes[3], "/"),
                             parts |-> SelectSeq(PathOf(bytes[3]).parts, LAMBDA part : part # "")]]
  IN IF bytes = <<>> \/ bytes[2] = "end" THEN <<>>
     ELSE <<ArchiveEntry(bytes[1], node)>> \o EntriesOf(SubSeq(bytes, from + 1, Len(bytes)))

safeJoin(root, name) ==
  LET target == Clean(root \o SelectSeq(PathOf(name).parts, LAMBDA part : part # ""))
  IN [err |-> IF IsPrefix(root, target) THEN "" ELSE "escapes", path |-> target]

\* An archive is written as its entries are found; closing it cannot fail.
Begin(st, archive, kind) ==
  LET opened == OpenFile(st.fs, At(archive), {"CREATE", "TRUNC", "WRONLY"}, FileBits) IN
  IF opened.err # "" THEN [st EXCEPT !.fs = opened.fs, !.err = opened.err]
  ELSE [st EXCEPT !.fs = Write(opened.fs, opened.handle, <<kind>>).fs]
AddEntry(st, archive, entry) ==
  [st EXCEPT !.fs[Stat(st, archive).ino].data = @ \o Encoded(entry)]
Finish(begun, archive, added) ==
  IF begun.err # "" THEN begun ELSE AddEntry(added, archive, TheEnd)

TarOptions == Flag({"-c", "--create"}, "c") @@ Flag({"-x", "--extract"}, "x")
                @@ Flag({"-t", "--list"}, "t") @@ Value({"-f", "--file"}, "f")
                @@ Flag({"--no-recursion"}, "n") @@ Flag({"-v", "--verbose"}, "v")

\* A file that grows while it is copied is too long for its header: so is the
\* archive itself.
addTarInput(st, archive, input, p) ==
  LET add(s, path, err) ==
        LET name  == joinDisplayPath(input.raw, Rel(input.path, path))
            ino   == Lstat(s, path).ino
            shown == IF Has(p, "v") THEN Say(s, name) ELSE s
            added == AddEntry(shown, archive, ArchiveEntry(name, s.fs[ino]))
        IN IF err # "" THEN Ends(s, err)
           ELSE IF ino = Stat(s, archive).ino THEN Ends(added, "write too long") ELSE added
  IN IF Has(p, "n") THEN add(st, input.path, Lstat(st, input.path).err)
     ELSE walkResolved(st, input.path, add)

tarCreate(st, archive, p) ==
  LET begun  == Begin(st, archive, "tar")
      inputs == resolvePaths(p.operands)
      added  == IF Unresolved(inputs) # <<>> THEN Ends(begun, Unresolved(inputs)[1].err)
                ELSE ForEach(begun, inputs, LAMBDA s, input : addTarInput(s, archive, input, p))
  IN Finish(begun, archive, added)

\* The files of an archive, where it can be read.
Entries(st, archive, marker) ==
  LET read == ReadFile(st, archive)
      packed == Unpacked(read.bytes, marker)
  IN IF read.err # "" THEN [err |-> read.err, entries |-> <<>>]
     ELSE IF packed.err # "" THEN [err |-> packed.err, entries |-> <<>>]
     ELSE [err |-> "", entries |-> EntriesOf(packed.bytes)]

MakeParent(st, path) == After(st, MkdirAll(st.fs, At(Front(path)), FullMode))
MakeDirectory(st, path, mode) == After(st, MkdirAll(st.fs, At(path), mode))
MakeFile(st, path, e) ==
  LET opened == OpenFile(st.fs, At(path), {"CREATE", "TRUNC", "WRONLY"}, e.mode) IN
  IF opened.err # "" THEN [st EXCEPT !.fs = opened.fs, !.err = opened.err]
  ELSE [st EXCEPT !.fs = Write(opened.fs, opened.handle, e.data).fs]

\* Slip: the modes of what is unpacked are those of new files.
SetModeNever(st, path, e) == st

SetMode(st, path, e) == IF st.err # "" THEN st ELSE After(st, Chmod(st.fs, At(path), e.mode))

\* One entry at its place: parents first, the mode last and not for a link.
Extract(st, path, e) ==
  LET ready == IF e.kind = "directory" THEN st ELSE MakeParent(st, path) IN
  IF ready.err # "" THEN ready
  ELSE CASE e.kind = "directory" -> SetMode(MakeDirectory(ready, path, e.mode), path, e)
         [] e.kind = "regular"   -> SetMode(MakeFile(ready, path, e), path, e)
         [] e.kind = "symlink"   -> After(ready, Symlink(ready.fs, e.target, At(path)))
         [] OTHER -> Ends(st, "unknown type")

ExtractAll(st, dest, entries, verbose) ==
  ForEach(st, entries, LAMBDA s, e :
    LET shown == IF verbose THEN Say(s, e.name) ELSE s
        at    == safeJoin(dest, e.name)
    IN IF at.err # "" THEN Tell(shown) ELSE Extract(shown, at.path, e))

tarExtract(st, archive, destRaw, verbose) ==
  LET dest  == Place(destRaw)
      there == Stat(st, dest.path)
      ready == IF there.err = "notExist" THEN MakeDirectory(st, dest.path, FullMode) ELSE st
      found == Entries(ready, archive, "tar")
  IN IF dest.err # "" THEN Ends(st, dest.err)
     ELSE IF ReadFile(st, archive).err \notin {"", "isDirectory"}
     THEN Ends(st, ReadFile(st, archive).err)
     ELSE IF there.err \notin {"", "notExist"} THEN Ends(st, there.err)
     ELSE IF ready.err # "" \/ found.err # ""
     THEN Ends(ready, IF ready.err # "" THEN ready.err ELSE found.err)
     ELSE ExtractAll(ready, dest.path, found.entries, verbose)

ListEntries(st, found) ==
  IF found.err # "" THEN Ends(st, found.err)
  ELSE ForEach(st, found.entries, LAMBDA s, e : Say(s, e.name))

runTar(st, args) ==
  WithArgs(st, args, TarOptions, LAMBDA p :
    LET archive == Place(ValueOf(p, "f", ""))
        modes   == {m \in {"c", "x", "t"} : Has(p, m)}
    IN IF Cardinality(modes) # 1 THEN Ends(st, "one of -c, -x, -t")
       ELSE IF ValueOf(p, "f", "") = "" THEN Ends(st, "file is required")
       ELSE IF archive.err # "" THEN Ends(st, archive.err)
       ELSE IF modes = {"c"} THEN tarCreate(st, archive.path, p)
       ELSE IF modes = {"t"} THEN ListEntries(st, Entries(st, archive.path, "tar"))
       ELSE IF Len(p.operands) # 1 THEN Ends(st, "args length should be 1")
       ELSE tarExtract(st, archive.path, p.operands[1], Has(p, "v")))

addZipEntry(st, archive, name, path) ==
  LET node == st.fs[Lstat(st, path).ino]
      slashed == IF node.kind = "directory" /\ ~HasSuffix(name, "/") THEN name \o "/" ELSE name
  IN IF node.kind \notin {"directory", "symlink", "regular"} THEN Ends(st, "unsupported file type")
     ELSE AddEntry(st, archive, ArchiveEntry(slashed, node))

\* The archive is left out of the walk, but may not be named itself.
addZipInput(st, input, archive, recursive) ==
  LET info == Lstat(st, input.path)
      add(s, path, err) ==
        IF err # "" THEN Ends(s, err)
        ELSE IF path = archive THEN s
        ELSE addZipEntry(s, archive, joinDisplayPath(input.raw, Rel(input.path, path)), path)
  IN IF info.err # "" THEN Ends(st, info.err)
     ELSE IF input.path = archive THEN Ends(st, "refusing to add archive to itself")
     ELSE IF IsDir(st, info) /\ ~recursive THEN Ends(st, "is a directory")
     ELSE IF ~IsDir(st, info) THEN addZipEntry(st, archive, input.raw, input.path)
     ELSE walkResolved(st, input.path, add)

ZipOptions == Flag({"-r"}, "r")
UnzipOptions == Value({"-d"}, "d") @@ Flag({"-l"}, "l")

runZip(st, args) ==
  WithArgs(st, args, ZipOptions, LAMBDA p :
    LET archive == Place(p.operands[1])
        inputs  == resolvePaths(Tail(p.operands))
        begun   == Begin(st, archive.path, "zip")
        added   == ForEach(begun, inputs, LAMBDA s, input :
                             addZipInput(s, input, archive.path, Has(p, "r")))
    IN IF Len(p.operands) < 2 THEN Ends(st, "usage")
       ELSE IF archive.err # "" THEN Ends(st, archive.err)
       ELSE IF Unresolved(inputs) # <<>> THEN Ends(st, Unresolved(inputs)[1].err)
       ELSE Finish(begun, archive.path, added))

runUnzip(st, args) ==
  WithArgs(st, args, UnzipOptions, LAMBDA p :
    LET archive == Place(p.operands[1])
        dest    == Place(ValueOf(p, "d", "."))
        found   == Entries(st, archive.path, "zip")
        ready   == MakeDirectory(st, dest.path, FullMode)
    IN IF Len(p.operands) # 1 THEN Ends(st, "usage")
       ELSE IF archive.err # "" THEN Ends(st, archive.err)
       ELSE IF found.err # "" \/ Has(p, "l") THEN ListEntries(st, found)
       ELSE IF dest.err # "" THEN Ends(st, dest.err)
       ELSE IF ready.err # "" THEN ready
       ELSE ExtractAll(ready, dest.path, found.entries, FALSE))
-----------------------------------------------------------------------------
(* mktemp and xargs.                                                       *)

MktempOptions ==
  Flag({"-d", "--directory"}, "d") @@ Flag({"-u", "--dry-run"}, "u") @@ Flag({"-q", "--quiet"}, "q")
    @@ Value({"-t"}, "t") @@ Value({"-s", "--prefix"}, "s") @@ Value({"--suffix"}, "suffix")
    @@ Value({"-p", "--tmpdir"}, "p")

\* Names are drawn until one is free.
CreateTemp(st, dir, prefix, directory) ==
  LET at(k)   == Append(dir, prefix \o TempNames[k])
      make(k) == IF directory THEN Mkdir(st.fs, At(at(k)), {"r", "w", "x"})
                 ELSE OpenFile(st.fs, At(at(k)), {"RDWR", "CREATE", "EXCL"}, {"r", "w"})
      k == SelectInSeq([n \in DOMAIN TempNames |-> make(n)], LAMBDA made : made.err # "exist")
  IN IF k = 0 THEN Ends(st, "too many collisions")
     ELSE IF make(k).err # "" THEN Ends(st, make(k).err)
     ELSE Say([st EXCEPT !.fs = make(k).fs], "/" \o Word(at(k)))

createTempDir(st, dir, prefix)  == CreateTemp(st, dir, prefix, TRUE)
createTempFile(st, dir, prefix) == CreateTemp(st, dir, prefix, FALSE)

runMktemp(st, args) ==
  WithArgs(st, args, MktempOptions, LAMBDA p :
    LET first  == ValueOf(p, "t", "") \o ValueOf(p, "s", "")
        prefix == IF p.operands = <<>> THEN first
                  ELSE first \o Joined(Split(Chars(p.operands[1]), "X")[1]) \o ValueOf(p, "suffix", "")
        dir    == IF ValueOf(p, "p", "") # "" THEN Place(ValueOf(p, "p", ""))
                  ELSE [err |-> "", path |-> TempDir]
        made   == IF Has(p, "d") THEN createTempDir(st, dir.path, prefix)
                  ELSE createTempFile(st, dir.path, prefix)
    IN IF Len(p.operands) > 1 THEN Ends(st, "too many arguments")
       ELSE IF dir.err # "" THEN Ends(st, dir.err)
       ELSE IF Has(p, "u") THEN Say(IF Has(p, "q") THEN st ELSE Tell(st), "")
       ELSE IF made.err # "" /\ Has(p, "q") THEN st ELSE made)

Blank == {" ", "\t", Newline}

\* Words in and out of quotes; a backslash keeps the next character.
splitXargsInput(bytes) ==
  LET start == [args |-> <<>>, word |-> "", in |-> "", escaped |-> FALSE, started |-> FALSE]
      flush(s) == IF s.started
                  THEN [s EXCEPT !.args = Append(@, s.word), !.word = "", !.started = FALSE] ELSE s
      grown(s, c) == [s EXCEPT !.word = @ \o c, !.started = TRUE, !.escaped = FALSE]
      step(s, c) ==
        CASE s.in = "'" -> IF c = "'" THEN [s EXCEPT !.in = "", !.started = TRUE] ELSE grown(s, c)
          [] s.in = "dq" /\ s.escaped ->
               grown(s, CASE c \in {"dq", "\\"} -> c [] c = Newline -> "" [] OTHER -> "\\" \o c)
          [] s.in = "dq" /\ ~s.escaped ->
               CASE c = "dq" -> [s EXCEPT !.in = "", !.started = TRUE]
                 [] c = "\\" -> [s EXCEPT !.escaped = TRUE, !.started = TRUE]
                 [] OTHER -> grown(s, c)
          [] s.in = "" /\ s.escaped -> grown(s, IF c = Newline THEN "" ELSE c)
          [] OTHER -> CASE c \in Blank -> flush(s)
                        [] c \in {"'", "dq"} -> [s EXCEPT !.in = c, !.started = TRUE]
                        [] c = "\\" -> [s EXCEPT !.escaped = TRUE, !.started = TRUE]
                        [] OTHER -> grown(s, c)
      end == FoldLeft(step, start, bytes)
  IN [err |-> IF end.in # "" THEN "unmatched quote" ELSE IF end.escaped THEN "trailing escape" ELSE "",
      args |-> flush(end).args]

\* Words between NULs; the last may lack its own.
splitNul(bytes) ==
  LET cut == Split(bytes, "nul")
      words == IF Last(cut) = <<>> THEN Front(cut) ELSE cut
  IN [err |-> "", args |-> [i \in DOMAIN words |-> Joined(words[i])]]

XargsOptions == Value({"-n"}, "n") @@ Flag({"-t"}, "t") @@ Flag({"-p"}, "p") @@ Flag({"-0"}, "0")

\* The words of one call.
chunk(words, from, most) ==
  SubSeq(words, from, IF from + most - 1 < Len(words) THEN from + most - 1 ELSE Len(words))

\* The command once with no words, or once for each chunk of them; there is no
\* terminal for -p to ask.
runXargs(st, args, dispatch(_, _)) ==
  LET p     == ParseOptions(args, XargsOptions, TRUE)
      most  == IF ValuesOf(p, "n") = <<>> THEN 5000 ELSE Atoi(ValueOf(p, "n", ""))
      words == IF Has(p, "0") THEN splitNul(st.stdin) ELSE splitXargsInput(st.stdin)
      command == IF p.operands = <<>> THEN <<"echo">> ELSE p.operands
      read  == [st EXCEPT !.stdin = <<>>]
      froms == SelectSeq([n \in DOMAIN words.args |-> n], LAMBDA n : (n - 1) % most = 0)
      call(s, from) ==
        dispatch(IF Has(p, "t") THEN Tell(s) ELSE s, command \o chunk(words.args, from, most))
  IN IF p.err # "" THEN Ends(st, p.err)
     ELSE IF most <= 0 THEN Ends(st, "invalid value for -n")
     ELSE IF words.err # "" THEN Ends(read, words.err)
     ELSE IF Has(p, "p") THEN Ends(read, "permission")
     ELSE ForEach(read, IF froms = <<>> THEN <<1>> ELSE froms, call)
=============================================================================
