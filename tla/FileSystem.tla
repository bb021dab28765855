----------------------------- MODULE FileSystem -----------------------------
(***************************************************************************)
(* Programs of a shell at work on one file system in memory: a call of     *)
(* pkg/sh/memfs that changes its tree or the bytes of a file is an action, *)
(* and each program keeps the file it opened last.  The calls are the      *)
(* operators of MemFS; changes of modes and named pipes, which MemFS has   *)
(* too, are left out here.                                                 *)
(*                                                                         *)
(* The bytes of a file are numbered: the n-th byte that a program writes   *)
(* to the file it has open is n.                                           *)
(***************************************************************************)
EXTENDS MemFS, FiniteSets

CONSTANTS
  Program,     \* who opens files; each has one file open at a time
  Name,        \* the names of entries, and of the directories above the root
  Paths,       \* what programs name: sequences of names, "." and ".."
  Targets,     \* what symbolic links point to
  MaxNodes,    \* nodes ever made, the root included
  MaxBytes     \* bytes in a file, and bytes moved through one handle

Part   == Name \cup {".", ".."}
Target == [abs : BOOLEAN, parts : Seq(Part)]

ASSUME FileSystemAssumption ==
  /\ Part \subseteq STRING /\ {".", ".."} \cap Name = {} /\ Root \in Seq(Name)
  /\ Paths \subseteq Seq(Part) /\ Targets \subseteq Target
  /\ MaxNodes \in Nat /\ MaxBytes \in Nat

VARIABLES
  fs,        \* FS: its nodes
  open,      \* per program: the handle the last open returned
  moved,     \* per program: the bytes read or written through the handle
  selfMoved  \* ghost: nodes that had an entry renamed to itself
vars == <<fs, open, moved, selfMoved>>

relative(path) == [abs |-> FALSE, parts |-> path]
file      == {"r", "w"}
directory == {"r", "w", "x"}
NoHandle  == [Handle("none", 0, {}, FALSE, 0) EXCEPT !.closed = TRUE]

Init ==
  /\ fs = New
  /\ open = [p \in Program |-> NoHandle]
  /\ moved = [p \in Program |-> <<>>]
  /\ selfMoved = {}
-----------------------------------------------------------------------------
Changes(result) ==
  /\ result.err = nil /\ result.fs # fs /\ Len(result.fs) <= MaxNodes
  /\ fs' = result.fs
  /\ UNCHANGED <<open, moved>>

MakeDirectory(path)  == Changes(Mkdir(fs, relative(path), directory)) /\ UNCHANGED selfMoved
MakeDirectories(path) == Changes(MkdirAll(fs, relative(path), directory)) /\ UNCHANGED selfMoved
MakeSymlink(target, path) ==
  Changes(Symlink(fs, target, relative(path))) /\ UNCHANGED selfMoved
MakeLink(old, path) ==
  Changes(Link(fs, relative(old), relative(path))) /\ UNCHANGED selfMoved
RemoveOne(path)      == Changes(RemoveEntry(fs, relative(path))) /\ UNCHANGED selfMoved
RemoveTree(path)     == Changes(RemoveAll(fs, relative(path))) /\ UNCHANGED selfMoved

Move(old, new) ==
  LET from == LookupParent(fs, Resolved(relative(old)).path)
      to   == LookupParent(fs, Resolved(relative(new)).path)
  IN /\ Changes(Rename(fs, relative(old), relative(new)))
     /\ selfMoved' = IF from.ino = to.ino /\ from.base = to.base
                     THEN selfMoved \cup {Entry(fs, from)} ELSE selfMoved

OpenWith(p, path, flags) ==
  LET opened == OpenFile(fs, relative(path), flags, file) IN
  /\ open[p].closed
  /\ opened.err = nil /\ Len(opened.fs) <= MaxNodes
  /\ fs' = opened.fs
  /\ open' = [open EXCEPT ![p] = opened.handle]
  /\ moved' = [moved EXCEPT ![p] = <<>>]
  /\ UNCHANGED selfMoved

WriteNext(p) ==
  LET byte    == Len(moved[p]) + 1
      written == Write(fs, open[p], <<byte>>)
  IN /\ ~open[p].closed /\ Len(moved[p]) < MaxBytes
     /\ written.err = nil
     /\ Len(written.fs[open[p].ino].data) <= MaxBytes
     /\ fs' = written.fs
     /\ open' = [open EXCEPT ![p] = written.handle]
     /\ moved' = [moved EXCEPT ![p] = Append(@, byte)]
     /\ UNCHANGED selfMoved

ReadNext(p) ==
  LET read == Read(fs, open[p], 1) IN
  /\ ~open[p].closed /\ Len(moved[p]) < MaxBytes
  /\ read.err = nil
  /\ fs' = read.fs
  /\ open' = [open EXCEPT ![p] = read.handle]
  /\ moved' = [moved EXCEPT ![p] = @ \o read.bytes]
  /\ UNCHANGED selfMoved

\* The program forgets a handle it has closed.
CloseFile(p) ==
  /\ ~open[p].closed
  /\ fs' = Close(fs, open[p]).fs
  /\ open' = [open EXCEPT ![p] = NoHandle]
  /\ moved' = [moved EXCEPT ![p] = <<>>]
  /\ UNCHANGED selfMoved

OpenFlags == {{}, {"WRONLY", "CREATE", "TRUNC"}, {"WRONLY", "CREATE", "APPEND"}}

Next ==
  \/ \E path \in Paths :
       \/ MakeDirectory(path) \/ MakeDirectories(path)
       \/ RemoveOne(path) \/ RemoveTree(path)
       \/ \E target \in Targets : MakeSymlink(target, path)
       \/ \E other \in Paths : MakeLink(other, path) \/ Move(other, path)
       \/ \E p \in Program, flags \in OpenFlags : OpenWith(p, path, flags)
  \/ \E p \in Program : WriteNext(p) \/ ReadNext(p) \/ CloseFile(p)

Spec == Init /\ [][Next]_vars
-----------------------------------------------------------------------------
(* What holds.                                                             *)

Reach(nodes) == NodesBelow(nodes, 1)

Nodes(children) ==
  [kind : {"directory", "regular", "symlink"}, mode : SUBSET directory, nlink : Nat,
   data : Seq(Nat), target : Target, children : children, fifo : {NoFifo}]

\* Entries name nodes that exist, never the root; only a directory has entries
\* and only a regular file has bytes.
NodesOK(nodes) ==
  /\ nodes \in Seq(Nodes({nodes[i].children : i \in DOMAIN nodes}))
  /\ nodes # <<>> /\ nodes[1].kind = "directory"
  /\ \A i \in DOMAIN nodes :
       LET names == DOMAIN nodes[i].children IN
       /\ names \subseteq Name /\ nodes[i].children \in [names -> DOMAIN nodes \ {1}]
       /\ nodes[i].kind # "directory" => names = {}
       /\ nodes[i].kind # "regular" => nodes[i].data = <<>>

\* A file that is open is a regular one, whatever became of its names.
HandleOK(nodes, h) ==
  \/ h = NoHandle
  \/ /\ h \in [kind : {"regular"}, ino : DOMAIN nodes, readable : BOOLEAN,
              writable : BOOLEAN, append : BOOLEAN, offset : Nat,
              entries : {{}}, closed : {FALSE}]
     /\ nodes[h.ino].kind = "regular"

TypeOK ==
  /\ NodesOK(fs)
  /\ DOMAIN open = Program /\ \A p \in Program : HandleOK(fs, open[p])
  /\ moved \in [Program -> Seq(Nat)]
  /\ selfMoved \subseteq DOMAIN fs

\* A path without its symbolic links (EvalSymlinks) names the same file, ends at
\* no link and goes through none: what the sandbox checks before a call is what
\* the call opens, however links point at each other.
ResolvedIsCanonical ==
  \A path \in Paths :
    LET real == EvalSymlinks(fs, relative(path)) IN
    real.err = nil =>
      /\ IsPrefix(Root, real.path)
      /\ \A n \in Len(Root)..Len(real.path) :
           LET at == LookupPath(fs, SubSeq(real.path, 1, n), FALSE) IN
           at.err = nil /\ fs[at.ino].kind # "symlink"
      /\ LookupPath(fs, real.path, FALSE).ino = real.ino

\* What a call says it made is there under the name it was given: a file that is
\* created through links that dangle, and the directories of MkdirAll; and it
\* was made inside the root.  MkdirAll follows the links of each name on its own,
\* so that a lookup of the whole path may come to more links than it follows.
FileIsThere(opened, name) ==
  opened.err = nil => Lookup(opened.fs, name, TRUE).ino = opened.handle.ino
DirectoryIsThere(made, name) ==
  made.err = nil =>
    InDirectory(made.fs, Lookup(made.fs, name, TRUE)).err \in {nil, "tooManySymlinks"}
MadeIsThere ==
  \A path \in Paths :
    /\ FileIsThere(OpenFile(fs, relative(path), {"WRONLY", "CREATE"}, file), relative(path))
    /\ DirectoryIsThere(MkdirAll(fs, relative(path), directory), relative(path))

EntriesOf(nodes, i) == EntriesFor(nodes, DOMAIN nodes, i)

\* The link count of a file is the number of entries that name it, so that it is
\* 0 exactly when no name is left; a file with an entry that was renamed to
\* itself has lost a count.
LinksAreCounted(nodes, but) ==
  \A i \in DOMAIN nodes \ but :
    nodes[i].kind # "directory" => nodes[i].nlink = Cardinality(EntriesOf(nodes, i))

\* A directory has one entry at most, so that a walk over the tree is finite:
\* unless it was moved below itself, when nothing leads to it any more.
TreeIsTree(nodes) ==
  \A i \in DOMAIN nodes :
    nodes[i].kind = "directory" => Cardinality(EntriesOf(nodes, i)) <= 1

\* Nodes are well formed, and the entries of all directories account for every
\* file and directory.
EntriesCount == TypeOK /\ LinksAreCounted(fs, selfMoved) /\ TreeIsTree(fs)

\* What a step lost is at or below the path, which the step removed, replaced, or
\* moved below itself.
AccountsForLoss(path) ==
  LET at    == Lookup(fs, relative(path), FALSE)
      below == NodesBelow(fs, at.ino)
  IN /\ at.err = nil /\ Reach(fs) \ Reach(fs') \subseteq below
     /\ \/ RemoveOne(path) \/ RemoveTree(path)
        \/ \E other \in Paths :
             \/ Move(other, path)
             \/ /\ Move(path, other)
                /\ LookupParent(fs, Resolved(relative(other)).path).ino \in below

\* A file drops out of the tree only by a call that removes it, that puts another
\* in its place, or that moves a directory below itself; a call that creates,
\* opens, writes or links loses nothing, and a removal loses nothing but what is
\* at or below the path it was given.
LostOnlyByRemoval ==
  [][Reach(fs) \ Reach(fs') # {} => \E path \in Paths : AccountsForLoss(path)]_vars

\* The tree accounts for its files, and keeps them.
TreeKept == []EntriesCount /\ LostOnlyByRemoval
=============================================================================
