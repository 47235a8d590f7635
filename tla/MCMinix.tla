------------------------------- MODULE MCMinix -------------------------------
(* Module Minix on a small disk. *)
EXTENDS Minix, TLC

Rooted(names) == [abs |-> TRUE, names |-> names]
Relative(names) == [abs |-> FALSE, names |-> names]

\* The root, the empty string, a name in the root and names in the working
\* directory, which is the root or /a.
MCPaths == {Rooted(<< >>), Relative(<< >>), Rooted(<<"a">>), Relative(<<"b">>)}
MCDirPaths == {Rooted(<<"a">>), Relative(<<"..">>)}

\* The same without directories below the root.
FlatPaths == {Rooted(<<"a">>), Rooted(<<"b">>)}

Flag(access, creat, trunc, append) ==
  [access |-> access, creat |-> creat, trunc |-> trunc, append |-> append]

\* open for reading; open for appending and create; create and truncate.
MCFlags == {Flag("r", FALSE, FALSE, FALSE), Flag("w", TRUE, FALSE, TRUE),
            Flag("r", TRUE, TRUE, FALSE)}

\* Opening for writing, and creating a file that is not there.
PlainFlags == {Flag("rw", TRUE, FALSE, FALSE)}

\* A stopped kernel is one state for each reason.  Not told apart are what a zone
\* holds while no inode refers to it (bmap clears a new one), the name of a free
\* entry, the link count of a directory once it has wrapped (no call reads it), and
\* how many references to the root were lost, as long as they are all it has too
\* many of.
Visible(z) == IF z \notin s.zmap.bits THEN Blank
              ELSE [i \in 0 .. PerBlock - 1 |->
                      IF s.block[z][i].ino = 0 THEN Free ELSE s.block[z][i]]
Counts(n) == IF n \in wrapped /\ IsDir(s, n) THEN 0 ELSE s.inode[n].nlinks
View == IF Running
        THEN <<[s EXCEPT !.block = [z \in Zone |-> Visible(z)],
                         !.inode = [n \in Ino |-> [s.inode[n] EXCEPT !.nlinks = Counts(n)]],
                         !.count[Root] = @ - lost],
               wrapped>>
        ELSE <<s.halt>>

\* An entry that names inode 2.
MCWords == {[ino |-> 2, name |-> "b"]}

Symmetry == Permutations(Proc)
=============================================================================
