-------------------------------- MODULE MemFS --------------------------------
(***************************************************************************)
(* The file system in memory that an agent's shell works on when its root  *)
(* is not a host directory (pkg/sh/memfs/memfs.go), as operators that take *)
(* a file system and answer                                                *)
(*   [fs |-> the file system afterwards, err |-> nil or the error, ...].    *)
(*                                                                         *)
(* A file system is the sequence of its nodes; a node is named by its      *)
(* place, which is its inode number, and node 1 is the root directory.     *)
(* A path the program writes is [abs |-> rooted?, parts |-> names], a path *)
(* it resolved to is the sequence of the names from "/" on.  Times and     *)
(* owners are left out; a mode is the set of its permission bits.          *)
(* A call holds the lock of the file system from its start to its end.     *)
(***************************************************************************)
EXTENDS Integers, Sequences, SequencesExt, Functions, TLC

CONSTANT Root   \* the root, an absolute path: "/workspace" is <<"workspace">>

maxSymlinkDepth == 40

NoFifo ==
  [data |-> <<>>, readOpen |-> FALSE, writeOpen |-> FALSE,
   readerClosed |-> FALSE, writerClosed |-> FALSE]

NewNode(kind, mode) ==
  [kind |-> kind, mode |-> mode, nlink |-> 1, data |-> <<>>,
   target |-> [abs |-> FALSE, parts |-> <<>>], children |-> <<>>, fifo |-> NoFifo]

New == <<NewNode("directory", {"r", "w", "x"})>>

nil == ""   \* no error

Done(fs)      == [fs |-> fs, err |-> nil]
Fail(fs, err) == [fs |-> fs, err |-> err]
-----------------------------------------------------------------------------
(* Paths.                                                                  *)

CleanStep(path, part) ==
  CASE part = "."  -> path
    [] part = ".." -> IF path = <<>> THEN <<>> ELSE Front(path)
    [] OTHER       -> Append(path, part)

Clean(parts) ==
  LET clean[n \in 0..Len(parts)] ==
        IF n = 0 THEN <<>> ELSE CleanStep(clean[n - 1], parts[n])
  IN clean[Len(parts)]

WithinRoot(path) == [err |-> IF IsPrefix(Root, path) THEN nil ELSE "permission", path |-> path]

ResolvePath(dir, path) ==
  WithinRoot(Clean(IF path.abs THEN path.parts ELSE dir \o path.parts))

Resolved(path) == ResolvePath(Root, path)

Found(ino, path) == [err |-> nil, ino |-> ino, path |-> path]
Missing(err)     == [err |-> err, ino |-> 0, path |-> <<>>]

\* A symbolic link leads to path, which is looked up from the root.
ToLink(path) == [err |-> "link", ino |-> 0, path |-> path]
ThroughLink(target, rest) ==
  IF target.err # nil THEN Missing(target.err) ELSE ToLink(target.path \o rest)

\* The answer of a walk, or where the link it came to leads.
FollowedBy(at, next) == IF at.err = "link" THEN next[at.path] ELSE at

\* The directory at which a path leads, if it is one.
InDirectory(fs, at) ==
  IF at.err = nil /\ fs[at.ino].kind # "directory" THEN Missing("notDirectory") ELSE at

\* The next name of a path: each symbolic link that is followed starts over at
\* the root, with ".." of its target removed before the links on the way.
LookupStep(fs, at, parts, n, followFinal) ==
  LET child == fs[at.ino].children[parts[n]]
  IN IF fs[at.ino].kind # "directory" THEN Missing("notDirectory")
     ELSE IF parts[n] \notin DOMAIN fs[at.ino].children THEN Missing("notExist")
     ELSE IF fs[child].kind # "symlink" \/ (n = Len(parts) /\ ~followFinal)
     THEN Found(child, Append(at.path, parts[n]))
     ELSE ThroughLink(ResolvePath(at.path, fs[child].target),
                      SubSeq(parts, n + 1, Len(parts)))

PartsBelowRoot(path) == SubSeq(path, Len(Root) + 1, Len(path))

\* From the root to the end of a path below it, or to the first link.
LookupUntilLink(fs, path, followFinal) ==
  LET parts == PartsBelowRoot(path)
      walk[n \in 0..Len(parts)] ==
        IF n = 0 THEN Found(1, Root)
        ELSE LET at == walk[n - 1]
             IN IF at.err # nil THEN at ELSE LookupStep(fs, at, parts, n, followFinal)
  IN walk[Len(parts)]

LookupPath(fs, path, followFinal) ==
  LET look[depth \in 0..maxSymlinkDepth + 1] ==
        [p \in Seq(STRING) |->
           IF depth > maxSymlinkDepth THEN Missing("tooManySymlinks")
           ELSE FollowedBy(LookupUntilLink(fs, p, followFinal), look[depth + 1])]
  IN look[0][path]

\* Lookup of a path as the program writes it.
Lookup(fs, name, followFinal) ==
  LET r == Resolved(name) IN
  IF r.err # nil THEN Missing(r.err) ELSE LookupPath(fs, r.path, followFinal)

\* An entry of a directory: the directory, and the name of the entry.
EntryAt(dir, base) == [err |-> dir.err, ino |-> dir.ino, path |-> dir.path, base |-> base]

LookupParent(fs, path) ==
  IF path = Root THEN EntryAt(Missing("permission"), "none")
  ELSE EntryAt(InDirectory(fs, LookupPath(fs, Front(path), TRUE)), Last(path))

HasEntry(fs, parent) == parent.base \in DOMAIN fs[parent.ino].children
Entry(fs, parent)    == fs[parent.ino].children[parent.base]

\* Where a file that does not exist is created: through the links that dangle.
CreatePathIn(fs, path, parent) ==
  IF parent.err # nil THEN Missing(parent.err)
  ELSE IF ~HasEntry(fs, parent) \/ fs[Entry(fs, parent)].kind # "symlink"
  THEN Found(0, path)
  ELSE ThroughLink(ResolvePath(parent.path, fs[Entry(fs, parent)].target), <<>>)

ResolveCreatePath(fs, path) ==
  LET create[depth \in 0..maxSymlinkDepth + 1] ==
        [p \in Seq(STRING) |->
           IF depth > maxSymlinkDepth THEN Missing("tooManySymlinks")
           ELSE FollowedBy(CreatePathIn(fs, p, LookupParent(fs, p)), create[depth + 1])]
  IN create[0][path]
-----------------------------------------------------------------------------
(* Directories and their entries.                                          *)

WithChild(children, base, ino) ==
  [n \in DOMAIN children \cup {base} |-> IF n = base THEN ino ELSE children[n]]

WithEntry(fs, parent, ino) ==
  [fs EXCEPT ![parent.ino].children = WithChild(@, parent.base, ino)]
WithoutEntry(fs, parent) ==
  [fs EXCEPT ![parent.ino].children = Restrict(@, DOMAIN @ \ {parent.base})]
WithNode(fs, parent, node) ==
  WithEntry(Append(fs, node), parent, Len(fs) + 1)

\* The nodes at and below a node.
NodesBelow(fs, ino) ==
  LET below[n \in 0..Len(fs)] ==
        IF n = 0 THEN {ino}
        ELSE LET above == below[n - 1]
             IN above \cup UNION {Range(fs[dir].children) : dir \in above}
  IN below[Len(fs)]

DirectoriesBelow(fs, ino) == {dir \in NodesBelow(fs, ino) : fs[dir].kind = "directory"}

\* The entries of dirs that name node i.
EntriesFor(fs, dirs, i) ==
  UNION {{<<dir, name>> : name \in {n \in DOMAIN fs[dir].children :
                                      fs[dir].children[n] = i}} : dir \in dirs}

\* A file that lost entries: its count never falls below zero.
Unlink(node, entries) ==
  [node EXCEPT !.nlink = IF @ > entries THEN @ - entries ELSE 0]

EmptyDirectories(fs, dirs) ==
  [i \in DOMAIN fs |->
     IF i \in dirs THEN [fs[i] EXCEPT !.children = <<>>]
     ELSE IF fs[i].kind = "directory" THEN fs[i]
     ELSE Unlink(fs[i], Cardinality(EntriesFor(fs, dirs, i)))]

\* Slip: a file that loses an entry keeps its count.
DiscardUncounted(fs, ino, recursive) == fs

\* A node that lost an entry; with recursive, a directory loses its entries.
Discard(fs, ino, recursive) ==
  IF fs[ino].kind # "directory" THEN [fs EXCEPT ![ino] = Unlink(@, 1)]
  ELSE IF recursive THEN EmptyDirectories(fs, DirectoriesBelow(fs, ino)) ELSE fs

\* Slip: what already has the name is not looked for.
NewNameOver(fs, name) ==
  LET r == Resolved(name) IN
  IF r.err # nil THEN Missing(r.err) ELSE LookupParent(fs, r.path)

Unused(fs, parent) ==
  IF parent.err = nil /\ HasEntry(fs, parent) THEN EntryAt(Missing("exist"), "none") ELSE parent

\* The parent of a name an operation is about to create.
NewName(fs, name) ==
  LET r == Resolved(name) IN
  IF r.err # nil THEN Missing(r.err) ELSE Unused(fs, LookupParent(fs, r.path))

AddNode(fs, parent, node) ==
  IF parent.err # nil THEN Fail(fs, parent.err) ELSE Done(WithNode(fs, parent, node))

Create(fs, name, node) == AddNode(fs, NewName(fs, name), node)

CreateBelowRoot(fs, name, node) ==
  IF Resolved(name).path = Root THEN Fail(fs, "exist") ELSE Create(fs, name, node)

Mkdir(fs, name, mode)  == CreateBelowRoot(fs, name, NewNode("directory", mode))
Mkfifo(fs, name, mode) == CreateBelowRoot(fs, name, NewNode("fifo", mode))
Symlink(fs, target, name) ==
  Create(fs, name, [NewNode("symlink", {"r", "w", "x"}) EXCEPT !.target = target])

LinkAt(fs, old, parent) ==
  IF old.err # nil THEN Fail(fs, old.err)
  ELSE IF fs[old.ino].kind = "directory" THEN Fail(fs, "permission")
  ELSE IF parent.err # nil THEN Fail(fs, parent.err)
  ELSE Done([WithEntry(fs, parent, old.ino) EXCEPT ![old.ino].nlink = @ + 1])

Link(fs, oldname, name) == LinkAt(fs, Lookup(fs, oldname, TRUE), NewName(fs, name))

RemoveEntryFrom(fs, parent) ==
  IF parent.err # nil THEN Fail(fs, parent.err)
  ELSE IF ~HasEntry(fs, parent) THEN Fail(fs, "notExist")
  ELSE IF DOMAIN fs[Entry(fs, parent)].children # {} THEN Fail(fs, "notEmpty")
  ELSE Done(Discard(WithoutEntry(fs, parent), Entry(fs, parent), FALSE))

RemoveEntry(fs, name) ==
  LET r == Resolved(name) IN
  IF r.err # nil THEN Fail(fs, r.err) ELSE RemoveEntryFrom(fs, LookupParent(fs, r.path))

RemoveAllFrom(fs, parent) ==
  IF parent.err = "notExist" THEN Done(fs)
  ELSE IF parent.err # nil THEN Fail(fs, parent.err)
  ELSE IF ~HasEntry(fs, parent) THEN Done(fs)
  ELSE Done(Discard(WithoutEntry(fs, parent), Entry(fs, parent), TRUE))

RemoveAll(fs, name) ==
  LET r == Resolved(name) IN
  IF r.err # nil THEN Fail(fs, r.err)
  ELSE IF r.path = Root THEN Done(Discard(fs, 1, TRUE))
  ELSE RemoveAllFrom(fs, LookupParent(fs, r.path))

MoveEntry(fs, clear, from, to) ==
  Done(WithEntry(WithoutEntry(clear, from), to, Entry(fs, from)))

\* What the new name named is discarded before the entry moves.
RenameEntry(fs, from, to) ==
  IF from.err # nil THEN Fail(fs, from.err)
  ELSE IF ~HasEntry(fs, from) THEN Fail(fs, "notExist")
  ELSE IF to.err # nil THEN Fail(fs, to.err)
  ELSE IF ~HasEntry(fs, to) THEN MoveEntry(fs, fs, from, to)
  ELSE IF DOMAIN fs[Entry(fs, to)].children # {} THEN Fail(fs, "notEmpty")
  ELSE MoveEntry(fs, Discard(WithoutEntry(fs, to), Entry(fs, to), FALSE), from, to)

Rename(fs, oldname, newname) ==
  LET o == Resolved(oldname)
      n == Resolved(newname)
  IN IF "permission" \in {o.err, n.err} \/ o.path = Root THEN Fail(fs, "permission")
     ELSE RenameEntry(fs, LookupParent(fs, o.path), LookupParent(fs, n.path))

\* Slip: what a link on the way of MkdirAll leads to is taken for a directory.
MkdirThroughAny(at, link) ==
  LET there == LookupPath(at.fs, link.path, TRUE) IN
  IF link.err # nil THEN [at EXCEPT !.err = link.err]
  ELSE [fs |-> at.fs, err |-> there.err, ino |-> there.ino, path |-> there.path]

\* Through a symbolic link on the way of MkdirAll, to a directory.
MkdirThrough(at, link) ==
  LET there == InDirectory(at.fs, LookupPath(at.fs, link.path, TRUE)) IN
  IF link.err # nil THEN [at EXCEPT !.err = link.err]
  ELSE [fs |-> at.fs, err |-> there.err, ino |-> there.ino, path |-> there.path]

\* One name of MkdirAll, below the directory it has come to.
MkdirStep(at, part, mode) ==
  LET fs    == at.fs
      child == fs[at.ino].children[part]
      down(fs2, ino) == [fs |-> fs2, err |-> nil, ino |-> ino, path |-> Append(at.path, part)]
  IN IF part \notin DOMAIN fs[at.ino].children
     THEN down(WithNode(fs, [ino |-> at.ino, base |-> part], NewNode("directory", mode)),
               Len(fs) + 1)
     ELSE IF fs[child].kind = "symlink"
     THEN MkdirThrough(at, ResolvePath(at.path, fs[child].target))
     ELSE IF fs[child].kind = "directory" THEN down(fs, child)
     ELSE [at EXCEPT !.err = "notDirectory"]

\* Directories are made from the root down; a link on the way is followed.
MkdirBelow(fs, parts, mode) ==
  LET made[n \in 0..Len(parts)] ==
        IF n = 0 THEN [fs |-> fs, err |-> nil, ino |-> 1, path |-> Root]
        ELSE LET at == made[n - 1]
             IN IF at.err # nil THEN at ELSE MkdirStep(at, parts[n], mode)
  IN made[Len(parts)]

MkdirAll(fs, name, mode) ==
  LET r == Resolved(name) IN
  IF r.err # nil THEN Fail(fs, r.err) ELSE MkdirBelow(fs, PartsBelowRoot(r.path), mode)

Chmod(fs, name, mode) ==
  LET at == Lookup(fs, name, TRUE) IN
  IF at.err # nil THEN Fail(fs, at.err) ELSE Done([fs EXCEPT ![at.ino].mode = mode])

\* The permissions are the owner's: every node has the user's own ids.
Access(fs, name, wanted) ==
  LET at == Lookup(fs, name, TRUE) IN
  at.err = nil /\ wanted \subseteq fs[at.ino].mode

Readlink(fs, name) ==
  LET at == Lookup(fs, name, FALSE) IN
  IF at.err = nil /\ fs[at.ino].kind # "symlink" THEN Missing("invalid") ELSE at

\* Slip: a link at the end of the path is left as it is.
EvalSymlinksButLast(fs, name) == Lookup(fs, name, FALSE)

EvalSymlinks(fs, name) == Lookup(fs, name, TRUE)

\* In the order of their names, which the model leaves to the reader.
ReadDir(fs, name) ==
  LET at == Lookup(fs, name, TRUE) IN
  IF at.err # nil THEN [err |-> at.err, names |-> {}]
  ELSE IF fs[at.ino].kind # "directory" THEN [err |-> "notDirectory", names |-> {}]
  ELSE [err |-> nil, names |-> DOMAIN fs[at.ino].children]
-----------------------------------------------------------------------------
(* Open files.  A handle is what an open answered; flags are those of      *)
(* open(2), without WRONLY and RDWR for reading.                           *)

Handle(kind, ino, flags, writable, offset) ==
  [kind |-> kind, ino |-> ino, readable |-> "WRONLY" \notin flags,
   writable |-> writable, append |-> "APPEND" \in flags, offset |-> offset,
   entries |-> {}, closed |-> FALSE]

Opened(fs, handle) == [fs |-> fs, err |-> nil, handle |-> handle]
NotOpened(fs, err) == [fs |-> fs, err |-> err, handle |-> Handle("none", 0, {}, FALSE, 0)]

\* One reader and one writer at a time; neither waits for the other.  When both
\* are gone the next one starts afresh.
OpenFIFO(fs, ino, flags) ==
  LET old    == fs[ino].fifo
      fifo   == IF old.readOpen \/ old.writeOpen THEN old ELSE NoFifo
      kept   == [fs EXCEPT ![ino].fifo = fifo]
  IN IF "RDWR" \in flags THEN NotOpened(fs, "invalid")
     ELSE IF "WRONLY" \in flags
     THEN IF fifo.writeOpen THEN NotOpened(kept, "busy")
          ELSE Opened([kept EXCEPT ![ino].fifo.writeOpen = TRUE],
                      Handle("fifoWrite", ino, flags, TRUE, 0))
     ELSE IF fifo.readOpen THEN NotOpened(kept, "busy")
     ELSE Opened([kept EXCEPT ![ino].fifo.readOpen = TRUE],
                 Handle("fifoRead", ino, flags, FALSE, 0))

fileOffset(fs, ino, flags) == IF "APPEND" \in flags THEN Len(fs[ino].data) ELSE 0

Open(fs, name) ==
  LET at == Lookup(fs, name, TRUE) IN
  IF at.err # nil THEN NotOpened(fs, at.err)
  ELSE CASE fs[at.ino].kind = "directory" ->
              Opened(fs, [Handle("directory", at.ino, {}, FALSE, 0)
                            EXCEPT !.entries = DOMAIN fs[at.ino].children])
         [] fs[at.ino].kind = "fifo" -> OpenFIFO(fs, at.ino, {})
         [] OTHER -> Opened(fs, Handle("regular", at.ino, {}, FALSE, 0))

\* A file that is created can be written whatever the flags.
CreateIn(fs, parent, flags, mode) ==
  IF parent.err # nil THEN NotOpened(fs, parent.err)
  ELSE IF HasEntry(fs, parent) THEN NotOpened(fs, "exist")
  ELSE Opened(WithNode(fs, parent, NewNode("regular", mode)),
              Handle("regular", Len(fs) + 1, flags, TRUE, 0))

CreateAt(fs, create, flags, mode) ==
  IF create.err # nil THEN NotOpened(fs, create.err)
  ELSE CreateIn(fs, LookupParent(fs, create.path), flags, mode)

CreateAndOpen(fs, path, flags, mode) ==
  CreateAt(fs, ResolveCreatePath(fs, path), flags, mode)

OpenRegular(fs, ino, flags) ==
  LET writing == flags \cap {"WRONLY", "RDWR"} # {}
      cut     == writing /\ "TRUNC" \in flags /\ "APPEND" \notin flags
      ready   == IF cut THEN [fs EXCEPT ![ino].data = <<>>] ELSE fs
  IN Opened(ready, Handle("regular", ino, flags, writing, fileOffset(ready, ino, flags)))

OpenFound(fs, path, at, flags, mode) ==
  IF at.err = "notExist" /\ "CREATE" \in flags THEN CreateAndOpen(fs, path, flags, mode)
  ELSE IF at.err # nil THEN NotOpened(fs, at.err)
  ELSE IF {"CREATE", "EXCL"} \subseteq flags THEN NotOpened(fs, "exist")
  ELSE CASE fs[at.ino].kind = "directory" -> NotOpened(fs, "isDirectory")
         [] fs[at.ino].kind = "fifo" -> OpenFIFO(fs, at.ino, flags)
         [] OTHER -> OpenRegular(fs, at.ino, flags)

OpenFile(fs, name, flags, mode) ==
  LET r == Resolved(name) IN
  IF r.err # nil THEN NotOpened(fs, r.err)
  ELSE OpenFound(fs, r.path, LookupPath(fs, r.path, TRUE), flags, mode)

\* Write at the handle's offset; when the file was truncated meanwhile, the gap
\* is filled with zeros.
WriteAt(data, offset, bytes) ==
  [i \in 1..(IF offset + Len(bytes) > Len(data) THEN offset + Len(bytes) ELSE Len(data)) |->
     IF i > offset /\ i <= offset + Len(bytes) THEN bytes[i - offset]
     ELSE IF i <= Len(data) THEN data[i] ELSE 0]

Write(fs, h, bytes) ==
  LET offset == IF h.append THEN Len(fs[h.ino].data) ELSE h.offset
      answer(fs2, err, handle) == [fs |-> fs2, err |-> err, handle |-> handle]
  IN IF h.closed THEN answer(fs, "closed", h)
     ELSE IF ~h.writable THEN answer(fs, "badFD", h)
     ELSE IF h.kind = "fifoWrite"
     THEN IF fs[h.ino].fifo.readerClosed THEN answer(fs, "closedPipe", h)
          ELSE answer([fs EXCEPT ![h.ino].fifo.data = @ \o bytes], nil, h)
     ELSE answer([fs EXCEPT ![h.ino].data = WriteAt(@, offset, bytes)], nil,
                 [h EXCEPT !.offset = offset + Len(bytes)])

\* A read of a FIFO waits while it is empty and its writer has not closed.
ReadWaits(fs, h) ==
  /\ h.kind = "fifoRead" /\ ~h.closed
  /\ fs[h.ino].fifo.data = <<>> /\ ~fs[h.ino].fifo.writerClosed

Read(fs, h, most) ==
  LET fifo == h.kind = "fifoRead"
      left == IF fifo THEN fs[h.ino].fifo.data
              ELSE SubSeq(fs[h.ino].data, h.offset + 1, Len(fs[h.ino].data))
      n    == IF Len(left) < most THEN Len(left) ELSE most
      answer(fs2, err, handle, bytes) ==
        [fs |-> fs2, err |-> err, handle |-> handle, bytes |-> bytes]
  IN IF h.closed THEN answer(fs, "closed", h, <<>>)
     ELSE IF h.kind = "directory" THEN answer(fs, "isDirectory", h, <<>>)
     ELSE IF ~h.readable THEN answer(fs, "badFD", h, <<>>)
     ELSE IF left = <<>> THEN answer(fs, "EOF", h, <<>>)
     ELSE answer(IF fifo THEN [fs EXCEPT ![h.ino].fifo.data = SubSeq(@, n + 1, Len(@))]
                 ELSE fs,
                 nil, [h EXCEPT !.offset = @ + n], SubSeq(left, 1, n))

Close(fs, h) ==
  LET closed == [h EXCEPT !.closed = TRUE]
      fifo   == fs[h.ino].fifo
      after  == CASE h.kind = "fifoRead" ->
                       [fifo EXCEPT !.readOpen = FALSE, !.readerClosed = TRUE]
                  [] h.kind = "fifoWrite" ->
                       [fifo EXCEPT !.writeOpen = FALSE, !.writerClosed = TRUE]
                  [] OTHER -> fifo
  IN [fs |-> IF h.closed THEN fs ELSE [fs EXCEPT ![h.ino].fifo = after],
      handle |-> closed]

CloseWritten(written) ==
  [fs |-> Close(written.fs, written.handle).fs, err |-> written.err]

WriteOpened(opened, data) ==
  IF opened.err # nil THEN Fail(opened.fs, opened.err)
  ELSE CloseWritten(Write(opened.fs, opened.handle, data))

\* A file written in one call.
WriteFile(fs, name, data, mode) ==
  WriteOpened(OpenFile(fs, name, {"WRONLY", "CREATE", "TRUNC"}, mode), data)
=============================================================================
