---------------------------- MODULE MCFileSystem ----------------------------
(* One program, the names a and b, the root and paths of at most two       *)
(* names, and links that point beside themselves, above themselves and to  *)
(* the root.                                                               *)
EXTENDS FileSystem

MCRoot == <<"root">>
MCName == {"a", "b", "root"}
MCPaths == {<<".">>, <<"a">>, <<"b">>, <<"a", "b">>}
MCTargets == {[abs |-> FALSE, parts |-> <<"b">>], [abs |-> FALSE, parts |-> <<"..", "b">>],
              [abs |-> TRUE, parts |-> <<"root", "a">>]}
\* Nodes that nothing leads to and nobody has open make no difference.
Live == Reach(fs) \cup {open[p].ino : p \in Program}
View == <<[i \in DOMAIN fs |-> IF i \in Live THEN fs[i] ELSE NewNode("gone", {})],
          open, moved, selfMoved \cap Live>>
=============================================================================
