--------------------------- MODULE AgentFileTools ---------------------------
(***************************************************************************)
(* The tools an agent calls on its files without a shell                   *)
(* (pkg/tools: applypatch, readfile, listdir, grepfiles and common), as    *)
(* operators on the state of a command of FileCommands: the error is ""    *)
(* or why the step fails, the output what the model is shown.              *)
(*                                                                         *)
(* A patch is the sequence of its lines.  Limits of bytes, binary files    *)
(* and the braces of an include pattern are left out: an include is the    *)
(* set of the patterns it stands for.  So are times: the files found by    *)
(* grep_files are shown as if all were equally old.                        *)
(***************************************************************************)
EXTENDS TextCommands

\* What these tools are given when they ask for nothing or too much.
ClampInt(value, default, most) ==
  IF value <= 0 THEN default ELSE IF most > 0 /\ value > most THEN most ELSE value

\* A step that fails shows none of the output.
Fails(st, err) == [st EXCEPT !.err = err, !.out = <<>>]

SplitPreservingLineStructure(bytes) == readTextLines(bytes)
JoinedLines(texts, trailing) ==
  LET ended(i) == i < Len(texts) \/ trailing
  IN FlattenSeq([i \in DOMAIN texts |-> Raw(Line(texts[i], ended(i)))])

\* The text of a file, not of a directory.
ReadTextFileLimited(st, path) ==
  LET info == Stat(st, path) IN
  IF info.err # "" THEN [err |-> info.err, bytes |-> <<>>]
  ELSE IF IsDir(st, info) THEN [err |-> "is a directory", bytes |-> <<>>]
  ELSE ReadFile(st, path)
-----------------------------------------------------------------------------
(* Pages.                                                                  *)

NormalizePaginationWindow(offset, limit, default, most) ==
  [start |-> IF offset <= 0 THEN 0 ELSE offset - 1, limit |-> ClampInt(limit, default, most)]

\* The places of the page, from 1; none when the window starts past the end.
RangeForTotal(window, total) ==
  [first |-> window.start + 1,
   last |-> IF window.start >= total THEN 0
            ELSE IF window.start + window.limit < total THEN window.start + window.limit ELSE total]
-----------------------------------------------------------------------------
(* apply_patch.                                                            *)

AddFile == "*** Add File: "
UpdateFile == "*** Update File: "
EndOfFile == "*** End of File"

Parts(err, op, next) == [err |-> err, op |-> op, next |-> next]
Op(action, path, lines, hunks) ==
  [action |-> action, path |-> path, lines |-> lines, hunks |-> hunks]
NoOp == Op("none", "", <<>>, <<>>)
After1(word) == SubSeq(word, 2, Len(word))

\* The first place from i on of a line that starts with one of the marks.
NextMark(lines, i, marks) ==
  LET found == {k \in i..Len(lines) : \E m \in marks : HasPrefix(lines[k], m)}
  IN IF found = {} THEN Len(lines) + 1 ELSE Min(found)

parseAddFileOp(lines, start) ==
  LET path == SubSeq(lines[start], Len(AddFile) + 1, Len(lines[start]))
      next == NextMark(lines, start + 1, {"*** "})
      body == SubSeq(lines, start + 1, next - 1)
  IN IF path = "" \/ body = <<>> \/ \E i \in DOMAIN body : ~HasPrefix(body[i], "+")
     THEN Parts("malformed add", NoOp, next)
     ELSE Parts("", Op("add", path, [i \in DOMAIN body |-> Chars(After1(body[i]))], <<>>), next)

Change(line) == [kind |-> SubSeq(line, 1, 1), text |-> Chars(After1(line))]

RECURSIVE parseHunks(_, _), parseOps(_, _)

\* Hunks up to a line that starts another operation or ends the patch.
parseHunks(lines, start) ==
  LET stop == NextMark(lines, start + 1, {"@@", "*** "})
      body == SubSeq(lines, start + 1, stop - 1)
      more == parseHunks(lines, IF stop <= Len(lines) /\ lines[stop] = EndOfFile
                                THEN stop + 1 ELSE stop)
  IN IF start > Len(lines) \/ HasPrefix(lines[start], "*** ")
     THEN [err |-> "", hunks |-> <<>>, next |-> start]
     ELSE IF ~HasPrefix(lines[start], "@@") \/ body = <<>>
             \/ \E i \in DOMAIN body : SubSeq(body[i], 1, 1) \notin {" ", "+", "-"}
     THEN [err |-> "malformed hunk", hunks |-> <<>>, next |-> start]
     ELSE [more EXCEPT !.hunks = <<[i \in DOMAIN body |-> Change(body[i])]>> \o @]

parseUpdateFileOp(lines, start) ==
  LET path == SubSeq(lines[start], Len(UpdateFile) + 1, Len(lines[start]))
      body == parseHunks(lines, start + 1)
  IN IF path = "" THEN Parts("no path", NoOp, start)
     ELSE Parts(body.err, Op("update", path, <<>>, body.hunks), body.next)

parseOps(lines, at) ==
  LET one  == IF HasPrefix(lines[at], AddFile) THEN parseAddFileOp(lines, at)
              ELSE IF HasPrefix(lines[at], UpdateFile) THEN parseUpdateFileOp(lines, at)
              ELSE Parts("unexpected line", NoOp, at)
      more == parseOps(lines, one.next)
  IN IF at > Len(lines) THEN [err |-> "missing end", ops |-> <<>>]
     ELSE IF lines[at] = "*** End Patch"
     THEN [err |-> IF at = Len(lines) THEN "" ELSE "content after the end", ops |-> <<>>]
     ELSE IF one.err # "" THEN [err |-> one.err, ops |-> <<>>]
     ELSE [more EXCEPT !.ops = <<one.op>> \o @]

parseApplyPatch(lines) ==
  IF lines = <<>> \/ lines[1] # "*** Begin Patch" THEN [err |-> "missing begin", ops |-> <<>>]
  ELSE parseOps(lines, 2)

Texts(hunk, without) ==
  LET kept == SelectSeq(hunk, LAMBDA change : change.kind # without)
  IN [i \in DOMAIN kept |-> kept[i].text]

\* Slip: the lines of a hunk that only say where it is are taken out.
patchHunkSlicesBare(hunk) ==
  [old |-> Texts(hunk, "+"), new |-> Texts(SelectSeq(hunk, LAMBDA c : c.kind # " "), "-")]
patchHunkSlices(hunk) == [old |-> Texts(hunk, "+"), new |-> Texts(hunk, "-")]

\* The first place from start on, 0 when there is none; nothing is found anywhere.
findPatchMatch(lines, target, start) ==
  LET found == {i \in start..(Len(lines) - Len(target) + 1) :
                  SubSeq(lines, i, i + Len(target) - 1) = target}
  IN IF found = {} THEN 0 ELSE Min(found)

spliceLines(lines, from, n, replacement) ==
  SubSeq(lines, 1, from - 1) \o replacement \o SubSeq(lines, from + n, Len(lines))

\* Each hunk is looked for after the one before it, and then from the start.
applyPatchHunks(lines, hunks) ==
  LET step(s, hunk) ==
        LET cut   == patchHunkSlices(hunk)
            after == findPatchMatch(s.lines, cut.old, s.cursor)
            at    == IF after # 0 THEN after ELSE findPatchMatch(s.lines, cut.old, 1)
        IN IF s.err # "" THEN s
           ELSE IF at = 0 THEN [s EXCEPT !.err = "could not locate hunk"]
           ELSE [err |-> "", cursor |-> at + Len(cut.new),
                 lines |-> spliceLines(s.lines, at, Len(cut.old), cut.new)]
  IN FoldLeft(step, [err |-> "", lines |-> lines, cursor |-> 1], hunks)

DirectoryPerm == FullMode \ {"gw", "ow"}                \* 0o755
defaultApplyPatchPerm == {"r", "w", "gr", "or"}         \* 0o644
patchFilePerm(mode) == IF mode \cap FullMode = {} THEN defaultApplyPatchPerm ELSE mode \cap FullMode

applyAddFileOp(st, path, op) ==
  LET there == Stat(st, path)
      made  == MkdirAll(st.fs, At(Front(path)), DirectoryPerm)
      wrote == WriteFile(made.fs, At(path), JoinedLines(op.lines, TRUE), defaultApplyPatchPerm)
  IN IF there.err = "" THEN Ends(st, "already exists")
     ELSE IF there.err # "notExist" THEN Ends(st, there.err)
     ELSE After(st, IF made.err # "" THEN made ELSE wrote)

\* A file that had a newline at its end keeps it, unless nothing is left.
applyUpdateFileOp(st, path, op) ==
  LET read    == ReadTextFileLimited(st, path)
      updated == applyPatchHunks(SplitPreservingLineStructure(read.bytes), op.hunks)
      trailing == read.bytes # <<>> /\ Last(read.bytes) = Newline
      perm    == patchFilePerm(st.fs[Stat(st, path).ino].mode)
  IN IF read.err # "" THEN Ends(st, read.err)
     ELSE IF updated.err # "" THEN Ends(st, updated.err)
     ELSE After(st, WriteFile(st.fs, At(path), JoinedLines(updated.lines, trailing), perm))

applyPatchFileOp(st, op) ==
  LET place == Place(op.path) IN
  IF place.err # "" THEN Ends(st, place.err)
  ELSE IF op.action = "add" THEN applyAddFileOp(st, place.path, op)
  ELSE applyUpdateFileOp(st, place.path, op)

\* The operations before one that fails stay applied.
applyPatch(st, lines) ==
  LET patch == parseApplyPatch(lines)
      apply(s, op) ==
        LET done == applyPatchFileOp(s, op) IN
        IF done.err # "" THEN done
        ELSE Say(done, op.action \o "|/" \o Word(Place(op.path).path))
      end == ForEach(st, patch.ops, apply)
  IN IF patch.err # "" THEN Fails(st, patch.err)
     ELSE IF end.err # "" THEN Fails(end, end.err) ELSE end
-----------------------------------------------------------------------------
(* read_file.                                                              *)

isBlank(line) == TrimSpace(line) = <<>>

\* A tab is worth four spaces.
lineIndent(line) ==
  LET k == SelectInSeq(Append(line, ""), LAMBDA c : c \notin {" ", "\t"}) - 1
  IN FoldLeft(LAMBDA width, c : width + (IF c = "\t" THEN 4 ELSE 1), 0, SubSeq(line, 1, k))

isHeaderLikeLine(line) ==
  \/ \E mark \in {"//", "#", "/*", "*", "@"} : IsPrefix(Chars(mark), line)
  \/ line # <<>> /\ Head(line) = "[" /\ Last(line) = "]"

\* The furthest place from i, up or down, with every line on the way to it as it should be.
Upwards(i, is(_)) == Min({k \in 1..i : \A n \in k..(i - 1) : is(n)})
Downwards(i, most, is(_)) == Max({k \in i..most : \A n \in (i + 1)..k : is(n)})

\* Blocks of the anchor's indentation below it are part of its range already:
\* there is never one left for include_siblings.
selectIndentedRange(lines, args) ==
  LET total  == Len(lines)
      indent(i) == lineIndent(lines[i])
      blank(i)  == isBlank(lines[i])
      wanted == IF args.anchor > 0 THEN args.anchor ELSE IF args.offset > 0 THEN args.offset ELSE 1
      anchor == IF wanted < total THEN wanted ELSE total
      inner(i) == blank(i) \/ indent(i) >= indent(anchor)
      top    == Upwards(anchor, LAMBDA i : ~blank(i) /\ inner(i))
      bottom == Downwards(anchor, total, inner)
      parent(s, k) ==
        LET i == top - k IN
        IF s.levels >= args.levels \/ blank(i) \/ indent(i) >= s.indent THEN s
        ELSE [start |-> i, indent |-> indent(i), levels |-> s.levels + 1]
      outer  == FoldLeft(parent, [start |-> top, indent |-> indent(anchor), levels |-> 0],
                         [k \in 1..(top - 1) |-> k]).start
      first  == IF args.header
                THEN Upwards(outer, LAMBDA i : blank(i) \/ isHeaderLikeLine(TrimSpace(lines[i])))
                ELSE outer
      most   == ClampInt(args.max, 240, 1200)
  IN [first |-> first, last |-> IF bottom - first + 1 > most THEN first + most - 1 ELSE bottom]

validateArgs(args) ==
  CASE args.mode \in {"", "slice"}  -> IF args.indentation THEN "indentation requires mode" ELSE ""
    [] args.mode = "indentation" -> ""
    [] OTHER                     -> "mode must be slice or indentation"

selectReadFileRange(lines, args) ==
  IF args.mode = "indentation" THEN selectIndentedRange(lines, args)
  ELSE RangeForTotal(NormalizePaginationWindow(args.offset, args.limit, 200, 1200), Len(lines))

RenderNumberedLines(st, lines, range) ==
  ForEach(st, [k \in 1..(range.last - range.first + 1) |-> range.first + k - 1],
          LAMBDA s, i : Emit(s, Number(i) \o <<"|">> \o lines[i] \o <<Newline>>))

readFile(st, args) ==
  LET place == Place(args.path)
      text  == ReadTextFileLimited(st, place.path)
      lines == SplitPreservingLineStructure(text.bytes)
  IN IF validateArgs(args) # "" THEN Fails(st, validateArgs(args))
     ELSE IF place.err # "" THEN Fails(st, place.err)
     ELSE IF text.err # "" THEN Fails(st, text.err)
     ELSE IF lines = <<>> THEN st
     ELSE RenderNumberedLines(st, lines, selectReadFileRange(lines, args))
-----------------------------------------------------------------------------
(* list_dir and grep_files.                                                *)

dirEntryKind(node) ==
  CASE node.kind = "directory" -> "dir" [] node.kind = "symlink" -> "symlink" [] OTHER -> "file"

RECURSIVE collectDirectoryEntries(_, _, _)

\* Each entry and then, where there is depth left, what is below it.
collectDirectoryEntries(st, path, depth) ==
  LET names == Sorted(ReadDir(st.fs, At(path)).names)
      entry(i) ==
        LET child == Append(path, names[i])
            node  == st.fs[Lstat(st, child).ino]
        IN <<[path |-> child, kind |-> dirEntryKind(node)]>>
             \o (IF node.kind = "directory" /\ depth > 1
                 THEN collectDirectoryEntries(st, child, depth - 1) ELSE <<>>)
  IN FlattenSeq([i \in DOMAIN names |-> entry(i)])

listDir(st, args) ==
  LET place == Place(args.path)
      info  == Stat(st, place.path)
      all   == collectDirectoryEntries(st, place.path, ClampInt(args.depth, 1, 8))
      range == RangeForTotal(NormalizePaginationWindow(args.offset, args.limit, 200, 1000), Len(all))
      shown == SubSeq(all, range.first, range.last)
      row(e) == e.kind \o "|" \o Word(Rel(place.path, e.path))
  IN IF place.err # "" THEN Fails(st, place.err)
     ELSE IF info.err # "" THEN Fails(st, info.err)
     ELSE IF ~IsDir(st, info) THEN Fails(st, "is not a directory")
     ELSE ForEach(st, shown, LAMBDA s, e : Say(s, row(e)))

\* A pattern is matched with the path from the root of the search and with its
\* last name; a search of one file calls that file ".".
matchesInclude(include, root, path) ==
  LET rel  == IF path = root THEN "." ELSE Word(Rel(root, path))
      base == IF path = root THEN "." ELSE Last(path)
  IN include = {} \/ \E pattern \in include :
                       Matches(Chars(pattern), Chars(rel)) \/ Matches(Chars(pattern), Chars(base))

\* The regular files below a place, in the order they are walked.
walkToolFiles(st, root) ==
  LET visit(w, path, err) ==
        IF w.fs[Lstat(w, path).ino].kind = "regular" THEN [w EXCEPT !.out = Append(@, path)] ELSE w
  IN walkResolved([st EXCEPT !.out = <<>>, !.err = ""], root, visit).out

\* The walk stops when enough files are found, before they are put in order.
grepFiles(st, args) ==
  LET place == Place(args.path)
      re    == Chars(args.pattern)
      found(path) == /\ matchesInclude(args.include, place.path, path)
                     /\ ReadFile(st, path).err = ""
                     /\ MatchString(re, ReadFile(st, path).bytes)
      all   == SelectSeq(walkToolFiles(st, place.path), found)
      some  == First(all, ClampInt(args.limit, 100, 500))
      words == {"/" \o Word(some[i]) : i \in DOMAIN some}
  IN IF TrimSpace(re) = <<>> THEN Fails(st, "pattern must not be empty")
     ELSE IF place.err # "" THEN Fails(st, place.err)
     ELSE IF Lstat(st, place.path).err # "" THEN Fails(st, Lstat(st, place.path).err)
     ELSE ForEach(st, Sorted(words), LAMBDA s, word : Say(s, word))
=============================================================================
