-------------------------------- MODULE Minix --------------------------------
(***************************************************************************)
(* The Minix file system (fs/minix1): the inode and zone maps, the table   *)
(* of inodes in memory, directories, and the system calls on files.        *)
(*                                                                         *)
(* A system call is one step: it runs with interrupts off and gives way    *)
(* only where a block is not in the cache (module Buffer has that).        *)
(* Processes take turns between calls.  The file system is a record s:     *)
(*                                                                         *)
(*   s.inode[n]      d_inode: mode ("none", "dir", "reg"), size, nlinks    *)
(*                   and the direct zones, 0 for none; sizes, offsets and  *)
(*                   lengths are in directory entries, PerBlock to a block *)
(*   s.imap, s.zmap  the two maps, bitmap_t (module Bitmap)                *)
(*   s.block[z]      contents of a zone, as a directory sees it: entries   *)
(*                   [ino, name]; a file may have any word written there   *)
(*   s.count[n]      references to the inode in memory, 0 when it is not   *)
(*                   in inode_table                                        *)
(*   s.pwd[p], s.file[p][fd]    i_pwd and files[] of a process             *)
(*   s.halt          why the kernel stopped, or "no"                       *)
(*                                                                         *)
(* Two history variables keep what a call did wrong and left no trace of:  *)
(*                                                                         *)
(*   lost            references to the root that rmdir("/") never gave     *)
(*                   back                                                  *)
(*   wrapped         inodes whose link count went past its width to 0      *)
(*                                                                         *)
(* Files have direct zones only and a directory one block (bounds of the   *)
(* model); permissions and times are left out.                             *)
(***************************************************************************)
EXTENDS Bitmap, Sequences, SequencesExt

CONSTANTS Proc,       \* processes
          Fds,        \* file descriptors of a process
          Inodes,     \* sb->desc->inodes
          FirstZone,  \* sb->desc->firstdatazone
          Zones,      \* sb->desc->zones
          TableSize,  \* INODE_NR
          Direct,     \* direct zones of an inode
          PerBlock,   \* entries in a block
          LinkMod,    \* link counts are kept modulo this, 2^8 in the code
          Words,      \* what a file may have written where an entry would be
          MaxLost,    \* a bound: calls that lose a reference to the root
          Paths,      \* path names of the calls on files: [abs, names]
          DirPaths,   \* path names of chdir
          Flags,      \* flags of open: [access, creat, trunc, append]
          Lens        \* lengths and offsets of the calls

ASSUME MinixAssumption ==
  /\ IsFiniteSet(Proc)
  /\ Fds \in Nat /\ Inodes \in Nat \ {0} /\ FirstZone \in Nat \ {0}
  /\ Zones \in Nat /\ FirstZone < Zones
  /\ TableSize \in Nat \ {0} /\ Direct \in Nat \ {0} /\ PerBlock \in Nat
  /\ PerBlock >= 2 /\ LinkMod \in Nat /\ LinkMod > 2 /\ Lens \subseteq Nat
  /\ Words \subseteq [ino : Nat, name : STRING] /\ MaxLost \in Nat
  /\ \A path \in Paths \cup DirPaths : path.names \in Seq(STRING \ {""})

VARIABLES s,        \* the file system
          lost,     \* history: references to the root lost by rmdir("/")
          wrapped   \* history: inodes whose link count wrapped

vars == <<s, lost, wrapped>>

Ino == 1 .. Inodes
Root == 1
NoIno == 0
Zone == FirstZone .. Zones - 1
Fd == 1 .. Fds
Free == [ino |-> 0, name |-> "free"]
NoName == ""     \* NULL: filename() of a path without a name
Blank == [i \in 0 .. PerBlock - 1 |-> Free]
NoFile == [ino |-> NoIno, offset |-> 0, access |-> "none"]
NoInode == [mode |-> "none", size |-> 0, nlinks |-> 0, zone |-> [b \in 0 .. Direct - 1 |-> 0]]

Running == s.halt = "no"
Halted(t) == t.halt # "no"
Stop(t, why) == [t EXCEPT !.halt = why]
IsDir(t, n) == t.inode[n].mode = "dir"

\* mkfs, read_super and minix_init: bit 0 of both maps is taken, the root
\* directory is inode 1 with a block of two entries, and its inode stays in the
\* table; every process holds it twice (i_root and i_pwd).
Init ==
  /\ lost = 0 /\ wrapped = {}
  /\ s = [inode |-> [n \in Ino |-> IF n # Root THEN NoInode ELSE
                            [mode |-> "dir", size |-> 2, nlinks |-> 2,
                             zone |-> [b \in 0 .. Direct - 1 |-> IF b = 0 THEN FirstZone ELSE 0]]],
               imap |-> [bitmap_init(Inodes + 1, 0) EXCEPT !.bits = {0, Root}],
               zmap |-> [bitmap_init(Zones - FirstZone + 1, FirstZone - 1) EXCEPT
                           !.bits = {FirstZone - 1, FirstZone}],
               block |-> [z \in Zone |-> IF z # FirstZone THEN Blank ELSE
                            [Blank EXCEPT ![0] = [ino |-> Root, name |-> "."],
                                          ![1] = [ino |-> Root, name |-> ".."]]],
               count |-> [n \in Ino |-> IF n = Root THEN 1 + 2 * Cardinality(Proc) ELSE 0],
               pwd |-> [p \in Proc |-> Root],
               file |-> [p \in Proc |-> [fd \in Fd |-> NoFile]],
               halt |-> "no"]

-----------------------------------------------------------------------------
(* bmap.c.  Allocation returns <<state, number>>.  A failed assertion stops  *)
(* the kernel; what follows a stop leaves the state alone.                   *)

ialloc(t) ==
  LET n == bitmap_scan(t.imap, 1)
  IN  IF n = EOF \/ n >= Inodes THEN <<Stop(t, "ialloc"), NoIno>>
      ELSE <<[t EXCEPT !.imap = MarkRun(@, n, 1)], n>>

ifree(t, n) ==
  IF n >= Inodes \/ ~bitmap_test(t.imap, n) THEN Stop(t, "ifree")
  ELSE [t EXCEPT !.imap = bitmap_set(@, n, FALSE)]

balloc(t) ==
  LET z == bitmap_scan(t.zmap, 1)
  IN  IF z = EOF \/ z >= Zones THEN <<Stop(t, "balloc"), 0>>
      ELSE <<[t EXCEPT !.zmap = MarkRun(@, z, 1)], z>>

bfree(t, z) ==
  IF z >= Zones \/ ~bitmap_test(t.zmap, z) THEN Stop(t, "bfree")
  ELSE [t EXCEPT !.zmap = bitmap_set(@, z, FALSE)]

\* The zone of a direct block, 0 when there is none.
bmap(t, n, b) == t.inode[n].zone[b]

\* bmap with create: a new zone is cleared.
bmap_create(t, n, b) ==
  LET Placed(a) == IF Halted(a[1]) THEN a[1]
                   ELSE [a[1] EXCEPT !.inode[n].zone[b] = a[2], !.block[a[2]] = Blank]
  IN  IF Halted(t) \/ bmap(t, n, b) # 0 THEN t ELSE Placed(balloc(t))

-----------------------------------------------------------------------------
(* inode.c *)

iget(t, n) ==
  IF Halted(t) THEN t
  ELSE IF n \notin Ino THEN Stop(t, "iget")
  ELSE IF t.count[n] = 0 /\ Cardinality({m \in Ino : t.count[m] > 0}) = TableSize
       THEN Stop(t, "no more inode")
  ELSE [t EXCEPT !.count[n] = @ + 1]

\* iput(NULL) reads page 0.
iput(t, n) ==
  IF Halted(t) THEN t
  ELSE IF n = NoIno THEN Stop(t, "page zero")
  ELSE IF t.count[n] = 0 THEN Stop(t, "iput")
  ELSE [t EXCEPT !.count[n] = @ - 1]

\* inode_bfree: the zones of the first b blocks of inode n are freed.
ZonesFreed(t, n) ==
  LET Free1(u, z) == IF Halted(u) \/ z = 0 THEN u ELSE bfree(u, z)
      freed[b \in 0 .. Direct] == IF b = 0 THEN t ELSE Free1(freed[b - 1], bmap(t, n, b - 1))
  IN  freed

\* Mutant: the inode keeps the numbers of the zones it freed.
inode_truncate_mut(t, n) ==
  IF Halted(t) \/ t.inode[n].mode = "none" THEN t
  ELSE [ZonesFreed(t, n)[Direct] EXCEPT !.inode[n].size = 0]

\* inode_truncate: every zone is freed.
inode_truncate(t, n) ==
  IF Halted(t) \/ t.inode[n].mode = "none" THEN t
  ELSE [ZonesFreed(t, n)[Direct] EXCEPT !.inode[n].zone = NoInode.zone, !.inode[n].size = 0]

\* inode_write of len entries at offset: the blocks from the first to the last.
inode_write(t, n, len, offset, word) ==
  LET first == offset \div PerBlock
      blocks == IF len = 0 THEN 0 ELSE (offset + len - 1) \div PerBlock - first + 1
      grown == [t EXCEPT !.inode[n].size = IF len + offset > @ THEN len + offset ELSE @]
      Put(u, b) == [u EXCEPT !.block[bmap(u, n, b)] =
                      [i \in 0 .. PerBlock - 1 |->
                         IF b * PerBlock + i \in offset .. offset + len - 1 THEN word ELSE @[i]]]
      PutIn(u, b) == IF Halted(u) THEN u ELSE Put(u, b)
      written[i \in 0 .. blocks] ==
        IF i = 0 THEN grown
        ELSE PutIn(bmap_create(written[i - 1], n, first + i - 1), first + i - 1)
  IN  IF IsDir(t, n) THEN Stop(t, "inode_write") ELSE written[blocks]

\* inode_read: <<state, entries read>>; EOF at the end.  When less than len is
\* left, all of it is taken from the block at offset.  A hole stops the kernel.
inode_read(t, n, len, offset) ==
  LET rest == t.inode[n].size - offset
      touched == IF rest < len THEN {offset \div PerBlock}
                 ELSE offset \div PerBlock .. (offset + len - 1) \div PerBlock
  IN  IF t.inode[n].mode = "none" THEN <<Stop(t, "inode_read"), EOF>>
      ELSE IF rest <= 0 THEN <<t, EOF>>
      ELSE IF len > 0 /\ \E b \in touched : bmap(t, n, b) = 0 THEN <<Stop(t, "hole"), EOF>>
      ELSE <<t, IF rest < len THEN rest ELSE len>>

-----------------------------------------------------------------------------
(* namei.c: directories.  The entries of a directory are those of its first  *)
(* block below its size.                                                     *)

Raw(t, n) == IF bmap(t, n, 0) = 0 THEN Blank ELSE t.block[bmap(t, n, 0)]

Listed(t, n) == {i \in 0 .. PerBlock - 1 : i < t.inode[n].size /\ Raw(t, n)[i].ino # 0}

\* The index of the entry, or EOF; EOF for NULL.
find_entry(t, n, name) ==
  LET found == {i \in Listed(t, n) : name # NoName /\ Raw(t, n)[i].name = name}
  IN  IF found = {} THEN EOF ELSE Min(found)

\* The first free entry up to and including the one at the size takes the name
\* (the inode number is written by the caller); the size becomes its index plus
\* one, even when entries follow it.  Without a free one the caller stores
\* through NULL.  vaild_file_name reads page 0 for a name that is NULL.
add_entry(t, n, name, ino) ==
  LET free(u) == {i \in 0 .. PerBlock - 1 : i <= t.inode[n].size /\ Raw(u, n)[i].ino = 0}
      Put(u) == IF Halted(u) THEN u
                ELSE IF free(u) = {} THEN Stop(u, "page zero")
                ELSE [u EXCEPT !.block[bmap(u, n, 0)][Min(free(u))] = [ino |-> ino, name |-> name],
                               !.inode[n].size = Min(free(u)) + 1]
  IN  IF name = NoName THEN Stop(t, "page zero")
      ELSE Put(IF t.inode[n].size = 0 THEN bmap_create(t, n, 0) ELSE t)

\* A bound of the model: no directory grows into a second block.
Room(t, n) == {i \in 0 .. PerBlock - 1 : i >= t.inode[n].size \/ Raw(t, n)[i].ino = 0} # {}

\* One component of _namei, on <<state, inode>>; NoIno once a name is missing.
Follow(at, name) ==
  LET t == at[1]
      n == at[2]
      i == find_entry(t, n, name)
  IN  IF Halted(t) \/ n = NoIno THEN at
      ELSE IF ~IsDir(t, n) THEN <<Stop(t, "not a directory"), n>>
      ELSE IF i = EOF THEN <<iput(t, n), NoIno>>
      ELSE <<iget(iput(t, n), Raw(t, n)[i].ino), Raw(t, n)[i].ino>>

\* The empty string finds nothing; "/" alone ends where it starts.
Start(t, p, path) ==
  LET n == IF path.abs THEN Root ELSE t.pwd[p]
  IN  IF ~path.abs /\ path.names = << >> THEN <<t, NoIno>>
      ELSE <<[t EXCEPT !.count[n] = @ + 1], n>>

\* After the first i components of the path.
Walk(t, p, path) ==
  LET at[i \in 0 .. Len(path.names)] ==
        IF i = 0 THEN Start(t, p, path) ELSE Follow(at[i - 1], path.names[i])
  IN  at

namei(t, p, path) == Walk(t, p, path)[Len(path.names)]

\* _namei with dorc = false: the directory in which the last name is looked up, the
\* root itself for "/".  For the empty string the caller's filename() reads page 0.
parent(t, p, path) ==
  LET Checked(at) == IF ~Halted(at[1]) /\ at[2] # NoIno /\ ~IsDir(at[1], at[2])
                     THEN <<Stop(at[1], "not a directory"), at[2]>> ELSE at
  IN  IF path.names # << >> THEN Checked(Walk(t, p, path)[Len(path.names) - 1])
      ELSE IF path.abs THEN Start(t, p, path)
      ELSE <<Stop(t, "page zero"), NoIno>>

filename(path) == IF path.names = << >> THEN NoName ELSE Last(path.names)

\* The inode of a new name, for mkdir and open: <<state, inode>>.  The zones that
\* the number had when it was freed stay, with what was written there; the size
\* starts again (that of a directory is set with its two entries, by MkDir).
NewInode(t, dir, name, mode, nlinks) ==
  LET Filled(u, n) == IF Halted(u) THEN <<u, NoIno>>
                      ELSE <<[u EXCEPT !.inode[n] = [mode |-> mode, size |-> 0,
                                                     nlinks |-> nlinks, zone |-> @.zone]], n>>
      Named(a) == IF Halted(a[1]) THEN a
                  ELSE Filled(iget(add_entry(a[1], dir, name, a[2]), a[2]), a[2])
  IN  Named(ialloc(t))

-----------------------------------------------------------------------------
(* namei.c: the system calls on names.  Each is the state after the call.    *)

\* nlinks has 8 bits and nothing looks at it before it is increased.
OneMoreLink(t, n) == [t EXCEPT !.inode[n].nlinks = (@ + 1) % LinkMod]

MkDir(t, p, path) ==
  LET Dots(u, node, dir) ==
        IF Halted(u) THEN u
        ELSE iput(iput([u EXCEPT !.block[bmap(u, node, 0)][0] = [ino |-> node, name |-> "."],
                                 !.block[bmap(u, node, 0)][1] = [ino |-> dir, name |-> ".."],
                                 !.inode[node].size = 2],
                       dir), node)
      Furnished(c, dir) ==
        IF Halted(c[1]) THEN c[1]
        ELSE Dots(bmap_create(OneMoreLink(c[1], dir), c[2], 0), c[2], dir)
      Made(u, dir) ==
        IF Halted(u) THEN u
        ELSE IF dir = NoIno \/ find_entry(u, dir, filename(path)) # EOF THEN Stop(u, "mkdir")
        ELSE Furnished(NewInode(u, dir, filename(path), "dir", 2), dir)
      In(d) == Made(d[1], d[2])
  IN  In(parent(t, p, path))

\* Any named directory is refused: the test of childname is inverted.  "/" gets
\* past it, find_entry finds nothing and the call returns with the root in hand.
RmDir(t, p, path) ==
  LET In(d) == IF d[2] = NoIno \/ filename(path) = NoName THEN d[1] ELSE iput(d[1], d[2])
  IN  In(parent(t, p, path))

Link(t, p, old, new) ==
  LET Counted(u, node, dir) ==
        IF Halted(u) THEN u
        ELSE iput(iput(OneMoreLink(u, node), node), dir)
      Linked(u, node, dir) ==
        IF Halted(u) THEN u
        ELSE IF dir = NoIno THEN Stop(u, "page zero")
        ELSE IF filename(new) = NoName \/ find_entry(u, dir, filename(new)) # EOF
             THEN iput(iput(u, node), dir)
        ELSE Counted(add_entry(u, dir, filename(new), node), node, dir)
      In(d, node) == Linked(d[1], node, d[2])
      Of(o) ==
        IF Halted(o[1]) THEN o[1]
        ELSE IF o[2] = NoIno \/ IsDir(o[1], o[2]) THEN Stop(o[1], "page zero")
        ELSE In(parent(o[1], p, new), o[2])
  IN  Of(namei(t, p, old))

\* Mutant: the inode is freed whatever other links it has.
DropLink_mut(t, node) ==
  ifree(inode_truncate([t EXCEPT !.inode[node].nlinks = @ - 1], node), node)

\* The last link frees the inode, whether or not it is open.
DropLink(t, node) ==
  LET Dropped(u) == IF u.inode[node].nlinks = 0 THEN ifree(inode_truncate(u, node), node) ELSE u
  IN  Dropped([t EXCEPT !.inode[node].nlinks = @ - 1])

Unlink(t, p, path) ==
  LET Removed(u, dir, i, node) ==
        IF Halted(u) THEN u
        ELSE IF IsDir(u, node) THEN iput(iput(u, node), dir)
        ELSE IF u.inode[node].nlinks = 0 THEN Stop(u, "unlink")
        ELSE iput(iput(DropLink([u EXCEPT !.block[bmap(u, dir, 0)][i].ino = 0], node), node), dir)
      At(u, dir, i) ==
        IF dir = NoIno \/ i = EOF THEN Stop(u, "page zero")
        ELSE Removed(iget(u, Raw(u, dir)[i].ino), dir, i, Raw(u, dir)[i].ino)
      In(d) == IF Halted(d[1]) THEN d[1]
               ELSE At(d[1], d[2], find_entry(d[1], d[2], filename(path)))
  IN  In(parent(t, p, path))

\* inode_open: <<state, inode>>, NoIno when the call fails.  "/" opens the root,
\* whatever the flags.
inode_open(t, p, path, flag) ==
  LET Opened(u, node, dir) ==
        IF Halted(u) THEN <<u, node>>
        ELSE IF IsDir(u, node) /\ flag.access # "r" THEN <<iput(iput(u, dir), node), NoIno>>
        ELSE <<iput(IF flag.trunc THEN inode_truncate(u, node) ELSE u, dir), node>>
      New(c, dir) == Opened(c[1], c[2], dir)
      At(u, dir, i) ==
        IF dir = NoIno THEN <<Stop(u, "page zero"), NoIno>>
        ELSE IF i # EOF THEN Opened(iget(u, Raw(u, dir)[i].ino), Raw(u, dir)[i].ino, dir)
        ELSE IF ~flag.creat THEN <<iput(u, dir), NoIno>>
        ELSE New(NewInode(u, dir, filename(path), "reg", 1), dir)
      In(d) == IF Halted(d[1]) THEN d ELSE At(d[1], d[2], find_entry(d[1], d[2], filename(path)))
  IN  IF path.abs /\ path.names = << >> THEN Start(t, p, path) ELSE In(parent(t, p, path))

\* Mutant: the directory left behind keeps its reference.
ChDir_mut(t, p, path) ==
  LET To(at) ==
        IF Halted(at[1]) \/ at[2] = NoIno THEN at[1]
        ELSE IF ~IsDir(at[1], at[2]) \/ at[2] = t.pwd[p] THEN iput(at[1], at[2])
        ELSE [at[1] EXCEPT !.pwd[p] = at[2]]
  IN  To(namei(t, p, path))

ChDir(t, p, path) ==
  LET To(at) ==
        IF Halted(at[1]) \/ at[2] = NoIno THEN at[1]
        ELSE IF ~IsDir(at[1], at[2]) \/ at[2] = t.pwd[p] THEN iput(at[1], at[2])
        ELSE [iput(at[1], t.pwd[p]) EXCEPT !.pwd[p] = at[2]]
  IN  To(namei(t, p, path))

-----------------------------------------------------------------------------
(* The actions. *)

\* Inodes whose link count went from its largest value to 0.
Wrapping == {n \in Ino : s.inode[n].nlinks = LinkMod - 1 /\ s'.inode[n].nlinks = 0}

sys_mkdir(p) == \E path \in Paths :
  /\ Running /\ \A n \in Ino : Room(s, n)
  /\ s' = MkDir(s, p, path) /\ wrapped' = wrapped \cup Wrapping
  /\ UNCHANGED lost

sys_rmdir(p) == \E path \in Paths :
  LET loses == path.abs /\ path.names = << >>
  IN  /\ Running /\ (loses => lost < MaxLost)
      /\ s' = RmDir(s, p, path) /\ lost' = IF loses THEN lost + 1 ELSE lost
      /\ UNCHANGED wrapped

sys_link(p) == \E old, new \in Paths :
  /\ Running /\ \A n \in Ino : Room(s, n)
  /\ s' = Link(s, p, old, new) /\ wrapped' = wrapped \cup Wrapping
  /\ UNCHANGED lost

sys_unlink(p) == \E path \in Paths :
  Running /\ s' = Unlink(s, p, path) /\ UNCHANGED <<lost, wrapped>>

sys_chdir(p) == \E path \in DirPaths :
  Running /\ s' = ChDir(s, p, path) /\ UNCHANGED <<lost, wrapped>>

\* sys_open; sys_create is the case of creat and trunc.
sys_open(p) == \E path \in Paths, flag \in Flags :
  LET unused == {fd \in Fd : s.file[p][fd] = NoFile}
      Given(u, n) ==
        IF Halted(u) \/ n = NoIno THEN u
        ELSE IF unused = {} THEN iput(u, n)
        ELSE [u EXCEPT !.file[p][Min(unused)] =
                [ino |-> n, access |-> flag.access,
                 offset |-> IF flag.append THEN u.inode[n].size ELSE 0]]
      Result(o) == Given(o[1], o[2])
  IN  /\ Running /\ \A n \in Ino : Room(s, n)
      /\ s' = Result(inode_open(s, p, path, flag)) /\ UNCHANGED <<lost, wrapped>>

sys_close(p, fd) ==
  /\ Running /\ s.file[p][fd] # NoFile
  /\ s' = [iput(s, s.file[p][fd].ino) EXCEPT !.file[p][fd] = NoFile]
  /\ UNCHANGED <<lost, wrapped>>

sys_read(p, fd) == \E len \in Lens :
  LET f == s.file[p][fd]
      r == inode_read(s, f.ino, len, f.offset)
  IN  /\ Running /\ f # NoFile /\ f.access # "w" /\ r[2] # EOF
      /\ s' = [r[1] EXCEPT !.file[p][fd].offset = @ + r[2]] /\ UNCHANGED <<lost, wrapped>>

\* inode_write returns the bytes that remain, none, so the offset stays.
sys_write(p, fd) == \E len \in Lens, word \in Words :
  LET f == s.file[p][fd]
  IN  /\ Running /\ f # NoFile /\ f.access # "r" /\ f.offset + len <= Direct * PerBlock
      /\ s' = inode_write(s, f.ino, len, f.offset, word) /\ UNCHANGED <<lost, wrapped>>

\* SEEK_SET and SEEK_END; SEEK_CUR moves like a read.
sys_lseek(p, fd) == \E offset \in Lens, end \in BOOLEAN :
  LET f == s.file[p][fd]
      to == IF end THEN s.inode[f.ino].size + offset ELSE offset
  IN  /\ Running /\ f # NoFile /\ to <= Direct * PerBlock
      /\ s' = [s EXCEPT !.file[p][fd].offset = to] /\ UNCHANGED <<lost, wrapped>>

\* A descriptor that is not open fails an assertion in read, write and lseek.
BadDescriptor(p, fd) ==
  Running /\ s.file[p][fd] = NoFile /\ s' = Stop(s, "no file") /\ UNCHANGED <<lost, wrapped>>

Stopped == ~Running /\ UNCHANGED vars

Next ==
  \/ \E p \in Proc : \/ sys_mkdir(p) \/ sys_rmdir(p) \/ sys_link(p) \/ sys_unlink(p)
                     \/ sys_chdir(p) \/ sys_open(p)
  \/ \E p \in Proc, fd \in Fd : \/ sys_close(p, fd) \/ sys_read(p, fd) \/ sys_write(p, fd)
                                \/ sys_lseek(p, fd) \/ BadDescriptor(p, fd)
  \/ Stopped

Spec == Init /\ [][Next]_vars

-----------------------------------------------------------------------------
(* Properties, while the kernel runs. *)

Uses == {u \in Ino \X (0 .. Direct - 1) : s.inode[u[1]].zone[u[2]] # 0}
Dirs == {n \in Ino : IsDir(s, n)}

\* The directory entries that name inode n and that a look-up can find.
Found(n) == {e \in Dirs \X (0 .. PerBlock - 1) :
               e[2] \in Listed(s, e[1]) /\ Raw(s, e[1])[e[2]].ino = n}

\* The zone map (balloc, bfree) marks exactly the zones some inode refers to, and
\* no zone belongs to two files: also after an open file was unlinked, written
\* through its descriptor and its inode used again (sys_unlink, inode_open).
ZonesOwned == Running =>
  /\ s.zmap.bits \ {FirstZone - 1} = {s.inode[u[1]].zone[u[2]] : u \in Uses}
  /\ \A u, v \in Uses : s.inode[u[1]].zone[u[2]] = s.inode[v[1]].zone[v[2]] => u = v

\* An inode is never freed while a look-up still finds its name: as long as its
\* count has not gone past 8 bits, an inode has at least as many links as there
\* are entries for it, and the map has it allocated.  A block that an open file
\* had written, and that its reused inode brings into a directory, adds no name
\* (sys_link, sys_mkdir, sys_unlink, inode_write).
LinksCovered == Running => \A n \in Ino \ wrapped :
  /\ Cardinality(Found(n)) <= s.inode[n].nlinks
  /\ Found(n) # {} => bitmap_test(s.imap, n)

\* The reference count of the inode table is exact: each look-up (_namei), failed
\* call and rollback gives back every reference it took, but rmdir("/"), which
\* keeps one for good: working directories, open files, i_root and the mount hold
\* all the others (iget, iput).
InodeRefs == Running => \A n \in Ino :
  s.count[n] = (IF n = Root THEN 1 + Cardinality(Proc) + lost ELSE 0)
               + Cardinality({p \in Proc : s.pwd[p] = n})
               + Cardinality({f \in Proc \X Fd : s.file[f[1]][f[2]].ino = n})

\* include/fs/minix1.h on nlinks: the number of directory entries that point at
\* the inode.
LinksExact == Running => \A n \in Ino :
  bitmap_test(s.imap, n) => s.inode[n].nlinks = Cardinality(Found(n))
=============================================================================
