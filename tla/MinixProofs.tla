---------------------------- MODULE MinixProofs ----------------------------
(***************************************************************************)
(* The file system stays in order for every number of processes, inodes,   *)
(* zones and blocks, and whatever paths and flags are used: no zone has    *)
(* two owners, no name outlives its inode as long as its link count has    *)
(* not wrapped, and every reference is counted but those rmdir("/") keeps. *)
(***************************************************************************)
EXTENDS Minix, FiniteSetTheorems, WellFoundedInduction, TLAPS

\* A set of numbers has a least element: the bit bitmap_scan finds, the entry
\* find_entry finds and the descriptor sys_open takes.
LEMMA LeastElement ==
  ASSUME NEW T \in SUBSET Nat, T # {}
  PROVE  \E x \in T : \A y \in T : x <= y
<1> DEFINE R == {ss \in Nat \X Nat : ss[1] < ss[2]}
<1>1. R = OpToRel(<, Nat)
  BY DEF OpToRel
<1>2. IsWellFoundedOn(R, Nat)
  BY <1>1, NatLessThanWellFounded
<1>3. \A x, y \in Nat : x < y => <<x, y>> \in R
  OBVIOUS
<1> HIDE DEF R
<1>4. \E x \in T : \A y \in T : ~(<<y, x>> \in R)
  BY <1>2, WFMin
<1>5. PICK x \in T : \A y \in T : ~(<<y, x>> \in R)
  BY <1>4
<1>6. ASSUME NEW y \in T PROVE x <= y
  <2>1. x \in Nat /\ y \in Nat
    OBVIOUS
  <2>2. ~(y < x)
    BY <2>1, <1>3, <1>5
  <2> QED BY <2>1, <2>2
<1> QED BY <1>6

-----------------------------------------------------------------------------
(* Types *)

Slot == 0 .. PerBlock - 1
Blk == 0 .. Direct - 1
Name == STRING \cup {".", "..", "free", ""}
LinkCount == 0 .. LinkMod - 1
Entry == [ino : Int, name : Name]
Access == {flag.access : flag \in Flags}
File == {NoFile} \cup [ino : Ino, offset : Nat, access : Access]
Inode == [mode : {"none", "dir", "reg"}, size : Nat, nlinks : LinkCount,
          zone : [Blk -> Zone \cup {0}]]
Map == [bits : SUBSET Int, length : Int, offset : Int]

\* A file system whose kernel runs.
State == [inode : [Ino -> Inode], imap : Map, zmap : Map, block : [Zone -> [Slot -> Entry]],
          count : [Ino -> Nat], pwd : [Proc -> Ino], file : [Proc -> [Fd -> File]],
          halt : {"no"}]

\* The sizes of the disk and of its tables.
LEMMA Sizes ==
  /\ IsFiniteSet(Proc) /\ Fds \in Nat /\ Inodes \in Nat /\ Inodes >= 1 /\ FirstZone \in Nat
  /\ FirstZone >= 1 /\ Zones \in Nat /\ FirstZone < Zones /\ Direct \in Nat /\ Direct >= 1
  /\ PerBlock \in Nat /\ PerBlock >= 2 /\ Lens \subseteq Nat /\ Root \in Ino /\ NoIno \notin Ino
  /\ LinkMod \in Nat /\ LinkMod > 2
  /\ Ino \subseteq Nat /\ Zone \subseteq Nat /\ 0 \notin Zone /\ FirstZone \in Zone
  /\ FirstZone - 1 \notin Zone /\ 0 \in Slot /\ 1 \in Slot /\ 0 \in Blk
<1>1. /\ IsFiniteSet(Proc) /\ Fds \in Nat /\ Inodes \in Nat /\ Inodes >= 1 /\ FirstZone \in Nat
      /\ FirstZone >= 1 /\ Zones \in Nat /\ FirstZone < Zones /\ Direct \in Nat /\ Direct >= 1
      /\ PerBlock \in Nat /\ PerBlock >= 2 /\ LinkMod \in Nat /\ LinkMod > 2
  <2>1. /\ Inodes \in Nat \ {0} /\ FirstZone \in Nat \ {0} /\ Direct \in Nat \ {0}
        /\ IsFiniteSet(Proc) /\ Fds \in Nat /\ Zones \in Nat /\ FirstZone < Zones
        /\ PerBlock \in Nat /\ PerBlock >= 2 /\ LinkMod \in Nat /\ LinkMod > 2
    BY MinixAssumption
  <2> QED BY <2>1
<1>2. Lens \subseteq Nat
  BY MinixAssumption
<1> QED BY <1>1, <1>2 DEF Ino, Root, NoIno, Zone, Slot, Blk

\* The types of the fields.
LEMMA StateFields ==
  ASSUME NEW t \in State
  PROVE  /\ t.inode \in [Ino -> Inode] /\ t.imap \in Map /\ t.zmap \in Map
         /\ t.block \in [Zone -> [Slot -> Entry]] /\ t.count \in [Ino -> Nat]
         /\ t.pwd \in [Proc -> Ino] /\ t.file \in [Proc -> [Fd -> File]] /\ t.halt = "no"
         /\ \A n \in Ino : t.inode[n] \in Inode
         /\ \A n \in Ino : /\ t.inode[n].mode \in {"none", "dir", "reg"} /\ t.inode[n].size \in Nat
                           /\ t.inode[n].nlinks \in LinkCount /\ t.inode[n].nlinks \in Nat
                           /\ t.inode[n].zone \in [Blk -> Zone \cup {0}]
         /\ \A n \in Ino : \A b \in Blk : t.inode[n].zone[b] \in Zone \cup {0}
         /\ \A z \in Zone : \A i \in Slot : t.block[z][i] \in Entry
         /\ \A p \in Proc : \A fd \in Fd : t.file[p][fd] \in File
         /\ t.imap.bits \subseteq Int /\ t.zmap.bits \subseteq Int
<1>1. /\ t.inode \in [Ino -> Inode] /\ t.imap \in Map /\ t.zmap \in Map
      /\ t.block \in [Zone -> [Slot -> Entry]] /\ t.count \in [Ino -> Nat]
      /\ t.pwd \in [Proc -> Ino] /\ t.file \in [Proc -> [Fd -> File]] /\ t.halt = "no"
  BY DEF State
<1>2. \A n \in Ino : t.inode[n] \in Inode
  BY <1>1
<1>3. \A n \in Ino : /\ t.inode[n].mode \in {"none", "dir", "reg"} /\ t.inode[n].size \in Nat
                     /\ t.inode[n].nlinks \in LinkCount /\ t.inode[n].nlinks \in Nat
                     /\ t.inode[n].zone \in [Blk -> Zone \cup {0}]
  BY <1>2, Sizes DEF Inode, LinkCount
<1>4. \A n \in Ino : \A b \in Blk : t.inode[n].zone[b] \in Zone \cup {0}
  BY <1>3
<1>5. /\ \A z \in Zone : \A i \in Slot : t.block[z][i] \in Entry
      /\ \A p \in Proc : \A fd \in Fd : t.file[p][fd] \in File
  BY <1>1
<1>6. t.imap.bits \subseteq Int /\ t.zmap.bits \subseteq Int
  BY <1>1 DEF Map
<1> QED BY <1>1, <1>2, <1>3, <1>4, <1>5, <1>6

-----------------------------------------------------------------------------
(* The inductive invariant *)

\* The references to inode n that processes hold: the root has that of the mount
\* and the i_root of every process; then come working directories and open files.
Base(n) == IF n = Root THEN 1 + Cardinality(Proc) ELSE 0
PwdOf(pw, n) == {p \in Proc : pw[p] = n}
OpenOf(fl, n) == {f \in Proc \X Fd : fl[f[1]][f[2]].ino = n}
Refs(pw, fl, n) == Base(n) + Cardinality(PwdOf(pw, n)) + Cardinality(OpenOf(fl, n))

\* x[n] references to inode n are in the hands of the call.
Counted(t, x) == \A n \in Ino : t.count[n] = Refs(t.pwd, t.file, n) + x[n]

\* One more reference, or link, for inode n.
Plus(x, n) == [x EXCEPT ![n] = @ + 1]

\* Every zone in the map but the first bit is a block of one inode, and of one
\* block of it; every block in use is in the map.
Zoned(t) ==
  /\ FirstZone - 1 \in t.zmap.bits
  /\ \A n \in Ino, b \in Blk : t.inode[n].zone[b] # 0 => t.inode[n].zone[b] \in t.zmap.bits
  /\ \A z \in t.zmap.bits : z # FirstZone - 1 =>
       z # 0 /\ \E n \in Ino, b \in Blk : t.inode[n].zone[b] = z
  /\ \A n, m \in Ino, b, c \in Blk :
       t.inode[n].zone[b] # 0 /\ t.inode[n].zone[b] = t.inode[m].zone[c] => n = m /\ b = c
  /\ t.zmap.offset = FirstZone - 1 /\ t.zmap.length = Zones - FirstZone + 1

\* The entries of directories, below their sizes, that name inode n.
NamingIn(t, n) ==
  {e \in {d \in Ino : IsDir(t, d)} \X Slot :
     e[2] < t.inode[e[1]].size /\ Raw(t, e[1])[e[2]].ino = n}

\* The inodes whose names are counted, those whose link count did not wrap, are the
\* domain of l: l[n] links cover the names of inode n, and an inode that has a name is
\* in the map.
Covered(t, l) == \A n \in DOMAIN l :
  /\ Cardinality(NamingIn(t, n)) <= l[n]
  /\ NamingIn(t, n) # {} => n \in t.imap.bits

\* Directories are in the map, and so are the places of the processes.
Clean(t) ==
  /\ 0 \in t.imap.bits
  /\ \A n \in Ino : IsDir(t, n) => n \in t.imap.bits
  /\ IsDir(t, Root) /\ \A p \in Proc : IsDir(t, t.pwd[p])

Tally == [Ino -> Nat]
LinkTally == UNION {[C -> Nat] : C \in SUBSET Ino}

\* The state t is in order, with x references in the hands of the call that runs and
\* l the links that cover the names.
Whole(t, x, l) ==
  /\ t \in State /\ x \in Tally /\ l \in LinkTally
  /\ Counted(t, x) /\ Zoned(t) /\ Clean(t) /\ Covered(t, l)
  /\ t.imap.offset = 0 /\ t.imap.length = Inodes + 1

\* Everything but the reference counts is the same.
SameDisk(t, u) ==
  /\ u.inode = t.inode /\ u.imap = t.imap /\ u.zmap = t.zmap /\ u.block = t.block
  /\ u.pwd = t.pwd /\ u.file = t.file

\* Only the references differ.
LEMMA SameDiskKeeps ==
  ASSUME NEW t, NEW u, NEW x, NEW y \in Tally, NEW l, Whole(t, x, l), u \in State, SameDisk(t, u),
         Counted(u, y)
  PROVE  Whole(u, y, l)
<1>0. \A n : IsDir(u, n) <=> IsDir(t, n)
  BY DEF SameDisk, IsDir
<1>1. Zoned(u) /\ Clean(u)
  <2>0. Zoned(t) /\ Clean(t) /\ SameDisk(t, u)
    BY DEF Whole
  <2>1. Zoned(u)
    BY ONLY <2>0, SMTT(30) DEF SameDisk, Zoned
  <2>2. Clean(u)
    BY ONLY <1>0, <2>0 DEF SameDisk, Clean
  <2> QED BY <2>1, <2>2
<1>2. \A n : NamingIn(u, n) = NamingIn(t, n)
  BY DEF SameDisk, NamingIn, Raw, bmap, IsDir
<1>3. Covered(u, l)
  BY <1>2 DEF Whole, SameDisk, Covered
<1> QED BY <1>1, <1>3, SMTT(30) DEF Whole, SameDisk

\* What Plus adds.
LEMMA PlusFacts ==
  ASSUME NEW x \in Tally, NEW n \in Ino
  PROVE  /\ Plus(x, n) \in Tally
         /\ \A m \in Ino : Plus(x, n)[m] = IF m = n THEN x[m] + 1 ELSE x[m]
BY DEF Plus, Tally

\* What a tally of links is.
LEMMA LinkFacts ==
  ASSUME NEW l \in LinkTally
  PROVE  DOMAIN l \subseteq Ino /\ l \in [DOMAIN l -> Nat] /\ \A m \in DOMAIN l : l[m] \in Nat
<1>1. PICK C \in SUBSET Ino : l \in [C -> Nat]
  BY DEF LinkTally
<1> QED BY <1>1

\* One inode has other links, if they are counted.
LEMMA LinkSet ==
  ASSUME NEW l \in LinkTally, NEW n, NEW k, n \in DOMAIN l => k \in Nat
  PROVE  LET g == [l EXCEPT ![n] = k]
         IN  /\ g \in LinkTally /\ DOMAIN g = DOMAIN l
             /\ \A m \in DOMAIN l : g[m] = IF m = n THEN k ELSE l[m]
<1> DEFINE g == [l EXCEPT ![n] = k]
<1>1. DOMAIN l \in SUBSET Ino /\ l \in [DOMAIN l -> Nat]
  BY LinkFacts
<1>2. g \in [DOMAIN l -> Nat] /\ \A m \in DOMAIN l : g[m] = IF m = n THEN k ELSE l[m]
  BY <1>1
<1>3. g \in LinkTally
  BY <1>1, <1>2 DEF LinkTally
<1> QED BY <1>2, <1>3

\* What Plus adds to a tally of links.
LEMMA LinkPlus ==
  ASSUME NEW l \in LinkTally, NEW n
  PROVE  /\ Plus(l, n) \in LinkTally /\ DOMAIN Plus(l, n) = DOMAIN l
         /\ \A m \in DOMAIN l : Plus(l, n)[m] = IF m = n THEN l[m] + 1 ELSE l[m]
<1>1. DOMAIN l \in SUBSET Ino /\ l \in [DOMAIN l -> Nat]
  BY LinkFacts
<1>2. /\ Plus(l, n) \in [DOMAIN l -> Nat]
      /\ \A m \in DOMAIN l : Plus(l, n)[m] = IF m = n THEN l[m] + 1 ELSE l[m]
  <2> DEFINE k == l[n] + 1
  <2>1. Plus(l, n) = [l EXCEPT ![n] = k]
    BY DEF Plus
  <2>2. n \in DOMAIN l => k \in Nat
    BY <1>1
  <2>3. \A m \in DOMAIN l : l[m] \in Nat
    BY <1>1
  <2>4. \A m \in DOMAIN l : m = n => k = l[m] + 1
    OBVIOUS
  <2> HIDE DEF k
  <2> QED BY <1>1, <2>1, <2>2, <2>3, <2>4, LinkSet
<1>3. Plus(l, n) \in LinkTally
  BY <1>1, <1>2 DEF LinkTally
<1> QED BY <1>2, <1>3

\* The order in which references are taken does not matter.
LEMMA PlusSwap ==
  ASSUME NEW x \in Tally, NEW n \in Ino, NEW m \in Ino
  PROVE  Plus(Plus(x, n), m) = Plus(Plus(x, m), n)
BY DEF Plus, Tally

\* The references of the processes are finite in number.
LEMMA RefsType ==
  ASSUME NEW t \in State, NEW n \in Ino
  PROVE  Refs(t.pwd, t.file, n) \in Nat
<1>1. IsFiniteSet(Proc) /\ IsFiniteSet(Fd)
  BY Sizes, FS_Interval DEF Fd
<1>2. IsFiniteSet(Proc \X Fd)
  BY <1>1, FS_Product
<1>3. Cardinality(Proc) \in Nat
  BY <1>1, FS_CardinalityType
<1>4. PwdOf(t.pwd, n) \subseteq Proc /\ OpenOf(t.file, n) \subseteq Proc \X Fd
  BY DEF PwdOf, OpenOf
<1>5. Cardinality(PwdOf(t.pwd, n)) \in Nat /\ Cardinality(OpenOf(t.file, n)) \in Nat
  BY <1>1, <1>2, <1>4, FS_Subset, FS_CardinalityType
<1> QED BY <1>3, <1>5 DEF Refs, Base

\* iget puts a reference in the hands of the call, or the kernel stops.
LEMMA igetFacts ==
  ASSUME NEW t, NEW x, NEW l, NEW n, Whole(t, x, l)
  PROVE  \/ Halted(iget(t, n))
         \/ /\ n \in Ino /\ Whole(iget(t, n), Plus(x, n), l) /\ SameDisk(t, iget(t, n))
<1> SUFFICES ASSUME ~Halted(iget(t, n))
             PROVE  n \in Ino /\ Whole(iget(t, n), Plus(x, n), l) /\ SameDisk(t, iget(t, n))
  OBVIOUS
<1> DEFINE u == [t EXCEPT !.count[n] = @ + 1]
<1>1. t \in State /\ x \in Tally /\ t.halt = "no"
  BY StateFields DEF Whole
<1>2. \A why : why # "no" => Halted(Stop(t, why))
  BY <1>1 DEF Halted, Stop, State
<1>3. n \in Ino /\ iget(t, n) = u
  BY <1>1, <1>2 DEF iget, Halted
<1>4. t.count \in [Ino -> Nat]
  BY <1>1, StateFields
<1>5. u \in State /\ u.count = [t.count EXCEPT ![n] = @ + 1] /\ SameDisk(t, u)
  BY <1>1, <1>3, <1>4, SMTT(30) DEF State, SameDisk
<1> HIDE DEF u
<1>6. Counted(u, Plus(x, n))
  <2> SUFFICES ASSUME NEW m \in Ino PROVE u.count[m] = Refs(u.pwd, u.file, m) + Plus(x, n)[m]
    BY DEF Counted
  <2>1. t.count[m] = Refs(t.pwd, t.file, m) + x[m] /\ x[m] \in Nat
    BY <1>1 DEF Whole, Counted, Tally
  <2>2. Refs(u.pwd, u.file, m) = Refs(t.pwd, t.file, m)
    BY <1>5 DEF SameDisk
  <2>3. Refs(t.pwd, t.file, m) \in Nat
    BY <1>1, RefsType
  <2>4. Plus(x, n)[m] = IF m = n THEN x[m] + 1 ELSE x[m]
    BY <1>1, <1>3, PlusFacts
  <2>5. u.count[m] = IF m = n THEN t.count[m] + 1 ELSE t.count[m]
    BY <1>4, <1>5
  <2> QED BY <2>1, <2>2, <2>3, <2>4, <2>5
<1>7. Plus(x, n) \in Tally
  BY <1>1, <1>3, PlusFacts
<1> QED BY <1>3, <1>5, <1>6, <1>7, SameDiskKeeps

\* iput takes a reference out of the hands of the call.
LEMMA iputFacts ==
  ASSUME NEW t, NEW x \in Tally, NEW l, NEW n \in Ino, Whole(t, Plus(x, n), l)
  PROVE  \/ Halted(iput(t, n))
         \/ (Whole(iput(t, n), x, l) /\ SameDisk(t, iput(t, n)))
<1> SUFFICES ASSUME ~Halted(iput(t, n))
             PROVE  Whole(iput(t, n), x, l) /\ SameDisk(t, iput(t, n))
  OBVIOUS
<1> DEFINE u == [t EXCEPT !.count[n] = @ - 1]
<1>1. t \in State /\ t.halt = "no"
  BY StateFields DEF Whole
<1>2. \A why : why # "no" => Halted(Stop(t, why))
  BY <1>1 DEF Halted, Stop, State
<1>3. t.count[n] # 0 /\ iput(t, n) = u
  BY <1>1, <1>2, Sizes DEF iput, Halted
<1>4. t.count \in [Ino -> Nat]
  BY <1>1, StateFields
<1>41. [t.count EXCEPT ![n] = @ - 1] \in [Ino -> Nat]
  BY <1>3, <1>4
<1>5. u \in State /\ u.count = [t.count EXCEPT ![n] = @ - 1] /\ SameDisk(t, u)
  BY <1>1, <1>41 DEF State, SameDisk
<1> HIDE DEF u
<1>6. Counted(u, x)
  <2> SUFFICES ASSUME NEW m \in Ino PROVE u.count[m] = Refs(u.pwd, u.file, m) + x[m]
    BY DEF Counted
  <2>1. t.count[m] = Refs(t.pwd, t.file, m) + Plus(x, n)[m] /\ x[m] \in Nat
    BY DEF Whole, Counted, Tally
  <2>2. Refs(u.pwd, u.file, m) = Refs(t.pwd, t.file, m)
    BY <1>5 DEF SameDisk
  <2>3. Refs(t.pwd, t.file, m) \in Nat
    BY <1>1, RefsType
  <2> QED BY <1>3, <1>4, <1>5, <2>1, <2>2, <2>3, PlusFacts
<1> QED BY <1>3, <1>5, <1>6, SameDiskKeeps

-----------------------------------------------------------------------------
(* Path names *)

\* find_entry finds an entry in use of the directory, or none.
LEMMA FindFacts ==
  ASSUME NEW t \in State, NEW n \in Ino, NEW name
  PROVE  \/ find_entry(t, n, name) = EOF
         \/ /\ find_entry(t, n, name) \in Listed(t, n) /\ find_entry(t, n, name) \in Slot
            /\ Raw(t, n)[find_entry(t, n, name)].ino # 0
<1> DEFINE found == {i \in Listed(t, n) : name # NoName /\ Raw(t, n)[i].name = name}
<1>1. found \subseteq Slot /\ found \subseteq Nat
  BY Sizes DEF Listed, Slot
<1>2. CASE found = {}
  BY <1>2, SMTT(30) DEF find_entry
<1>3. CASE found # {}
  <2>1. \E i \in found : \A j \in found : i <= j
    BY <1>1, <1>3, LeastElement
  <2>2. Min(found) \in found
    BY <2>1 DEF Min
  <2>3. find_entry(t, n, name) = Min(found)
    BY <1>3 DEF find_entry
  <2> QED BY <1>1, <2>2, <2>3 DEF Listed
<1> QED BY <1>2, <1>3

\* What a look-up that began in t has come to: <<state, inode>>.
Reached(at, t, x, l) ==
  \/ Halted(at[1])
  \/ at[2] = NoIno /\ Whole(at[1], x, l) /\ SameDisk(t, at[1])
  \/ /\ at[2] \in Ino /\ Whole(at[1], Plus(x, at[2]), l) /\ SameDisk(t, at[1])
     /\ at[2] \in DOMAIN l => at[2] \in t.imap.bits

\* Stop halts a kernel that ran.
LEMMA StopHalts ==
  ASSUME NEW t, NEW x, NEW l, Whole(t, x, l), NEW why, why # "no"
  PROVE  Halted(Stop(t, why))
BY DEF Halted, Stop, Whole, State

\* SameDisk is transitive.
LEMMA SameDiskTrans ==
  ASSUME NEW t, NEW u, NEW v, SameDisk(t, u), SameDisk(u, v)
  PROVE  SameDisk(t, v)
BY DEF SameDisk

\* A component of a path is looked up: the reference moves to the inode it names.
LEMMA FollowKeeps ==
  ASSUME NEW at, NEW t, NEW x \in Tally, NEW l, Reached(at, t, x, l), NEW name
  PROVE  Reached(Follow(at, name), t, x, l)
<1> DEFINE u == at[1]
           n == at[2]
           i == find_entry(u, n, name)
<1>1. CASE Halted(u) \/ n = NoIno
  BY <1>1 DEF Follow
<1>2. CASE ~Halted(u) /\ n # NoIno
  <2>1. n \in Ino /\ Whole(u, Plus(x, n), l) /\ SameDisk(t, u)
    BY <1>2 DEF Reached
  <2>2. CASE ~IsDir(u, n)
    <3> DEFINE y == Stop(u, "not a directory")
    <3>1. Follow(at, name) = <<y, n>>
      BY <1>2, <2>2 DEF Follow
    <3>2. Halted(y)
      BY <2>1, StopHalts
    <3> HIDE DEF y
    <3> QED BY <3>1, <3>2 DEF Reached
  <2> DEFINE v == iput(u, n)
  <2>3. Halted(v) \/ (Whole(v, x, l) /\ SameDisk(u, v))
    BY <2>1, iputFacts
  <2>4. CASE IsDir(u, n) /\ i = EOF
    <3>1. Follow(at, name) = <<v, NoIno>>
      BY <1>2, <2>4 DEF Follow
    <3> HIDE DEF v
    <3> QED BY <3>1, <2>1, <2>3, SameDiskTrans DEF Reached
  <2>5. CASE IsDir(u, n) /\ i # EOF
    <3> DEFINE m == Raw(u, n)[i].ino
               w == iget(v, m)
    <3>1. Follow(at, name) = <<w, m>>
      BY <1>2, <2>5 DEF Follow
    <3> HIDE DEF m, v
    <3>2. CASE Halted(v)
      <4>1. w = v
        BY <3>2 DEF iget
      <4> QED BY <3>1, <3>2, <4>1 DEF Reached
    <3>3. CASE ~Halted(v)
      <4>1. Whole(v, x, l) /\ SameDisk(u, v)
        BY <3>3, <2>3
      <4>2. Halted(w) \/ (m \in Ino /\ Whole(w, Plus(x, m), l) /\ SameDisk(v, w))
        BY <4>1, igetFacts
      <4>3. SameDisk(t, v)
        BY <2>1, <4>1, SameDiskTrans
      <4>4. m \in DOMAIN l => m \in t.imap.bits
        <5> SUFFICES ASSUME m \in DOMAIN l PROVE m \in t.imap.bits
          OBVIOUS
        <5>1. i \in Slot /\ i < u.inode[n].size
          BY <2>1, <2>5, FindFacts DEF Whole, Listed
        <5>2. <<n, i>> \in NamingIn(u, m)
          BY <2>1, <2>5, <5>1 DEF NamingIn, m
        <5>3. m \in u.imap.bits
          BY <2>1, <5>2 DEF Whole, Covered
        <5> QED BY <2>1, <5>3 DEF SameDisk
      <4> HIDE DEF w
      <4> QED BY <3>1, <4>2, <4>3, <4>4, SameDiskTrans DEF Reached
    <3> QED BY <3>2, <3>3
  <2> QED BY <2>2, <2>4, <2>5
<1> QED BY <1>1, <1>2

\* Taking a reference without iget.
LEMMA StartKeeps ==
  ASSUME NEW t, NEW x, NEW l, Whole(t, x, l), NEW p \in Proc, NEW path
  PROVE  Reached(Start(t, p, path), t, x, l) /\ (path.abs => Start(t, p, path)[2] = Root)
<1>0. CASE ~path.abs /\ path.names = << >>
  <2>1. Start(t, p, path) = <<t, NoIno>>
    BY <1>0 DEF Start
  <2> QED BY <1>0, <2>1 DEF Reached, SameDisk
<1> SUFFICES ASSUME ~(~path.abs /\ path.names = << >>)
             PROVE  Reached(Start(t, p, path), t, x, l) /\ (path.abs => Start(t, p, path)[2] = Root)
  BY <1>0
<1> DEFINE n == IF path.abs THEN Root ELSE t.pwd[p]
           u == [t EXCEPT !.count[n] = @ + 1]
<1>1. t \in State /\ x \in Tally
  BY DEF Whole
<1>2. n \in Ino
  BY <1>1, StateFields, Sizes
<1>3. Start(t, p, path) = <<u, n>>
  BY DEF Start
<1>31. path.abs => n = Root
  OBVIOUS
<1> HIDE DEF n
<1>4. t.count \in [Ino -> Nat]
  BY <1>1, StateFields
<1>41. [t.count EXCEPT ![n] = @ + 1] \in [Ino -> Nat]
  BY <1>2, <1>4
<1>5. u \in State /\ u.count = [t.count EXCEPT ![n] = @ + 1] /\ SameDisk(t, u)
  BY <1>1, <1>41 DEF State, SameDisk
<1> HIDE DEF u
<1>6. Counted(u, Plus(x, n))
  <2> SUFFICES ASSUME NEW m \in Ino PROVE u.count[m] = Refs(u.pwd, u.file, m) + Plus(x, n)[m]
    BY DEF Counted
  <2>1. t.count[m] = Refs(t.pwd, t.file, m) + x[m] /\ x[m] \in Nat
    BY <1>1 DEF Whole, Counted, Tally
  <2>2. Refs(u.pwd, u.file, m) = Refs(t.pwd, t.file, m)
    BY <1>5 DEF SameDisk
  <2>3. Refs(t.pwd, t.file, m) \in Nat
    BY <1>1, RefsType
  <2>4. Plus(x, n)[m] = IF m = n THEN x[m] + 1 ELSE x[m]
    BY <1>1, <1>2, PlusFacts
  <2>5. u.count[m] = IF m = n THEN t.count[m] + 1 ELSE t.count[m]
    BY <1>4, <1>5
  <2> QED BY <2>1, <2>2, <2>3, <2>4, <2>5
<1>7. Plus(x, n) \in Tally
  BY <1>1, <1>2, PlusFacts
<1>8. Whole(u, Plus(x, n), l)
  BY <1>5, <1>6, <1>7, SameDiskKeeps
<1>9. n \in t.imap.bits
  <2>1. IsDir(t, n)
    BY DEF Whole, Clean, n
  <2> QED BY <1>2, <2>1 DEF Whole, Clean
<1> QED BY <1>2, <1>3, <1>31, <1>5, <1>8, <1>9 DEF Reached

\* The walk along a path has a value at every component.
LEMMA WalkLoop ==
  ASSUME NEW a, NEW names, NEW n \in Nat
  PROVE  \E g : g = [i \in 0 .. n |-> IF i = 0 THEN a ELSE Follow(g[i - 1], names[i])]
<1> DEFINE Loop(g, m) == g = [i \in 0 .. m |-> IF i = 0 THEN a ELSE Follow(g[i - 1], names[i])]
           Bad == {m \in Nat : ~ \E g : Loop(g, m)}
<1> SUFFICES ASSUME Bad # {} PROVE FALSE
  OBVIOUS
<1>1. PICK m \in Bad : \A j \in Bad : m <= j
  BY LeastElement
<1>2. CASE m = 0
  <2> DEFINE g == [i \in 0 .. 0 |-> a]
  <2>1. g = [i \in 0 .. 0 |-> IF i = 0 THEN a ELSE Follow(g[i - 1], names[i])]
    OBVIOUS
  <2>2. Loop(g, 0)
    BY <2>1
  <2> QED BY <1>2, <2>2
<1>3. CASE m # 0
  <2>0. m \in Nat
    BY <1>1
  <2>1. m - 1 \in Nat /\ m - 1 \notin Bad
    <3> HIDE DEF Bad
    <3>1. m - 1 \in Nat /\ ~(m <= m - 1)
      BY <1>3, <2>0
    <3> QED BY <1>1, <3>1
  <2>2. PICK g : Loop(g, m - 1)
    BY <2>1
  <2> DEFINE h == [i \in 0 .. m |-> IF i = m THEN Follow(g[m - 1], names[m]) ELSE g[i]]
  <2>3. \A i \in 0 .. m - 1 : h[i] = g[i] /\ g[i] = IF i = 0 THEN a ELSE Follow(g[i - 1], names[i])
    <3> HIDE DEF Bad
    <3> SUFFICES ASSUME NEW i \in 0 .. m - 1
                 PROVE  h[i] = g[i] /\ g[i] = IF i = 0 THEN a ELSE Follow(g[i - 1], names[i])
      OBVIOUS
    <3>1. i \in 0 .. m /\ i # m
      BY <2>0, <2>1
    <3>2. h[i] = g[i]
      BY <3>1
    <3>3. g[i] = IF i = 0 THEN a ELSE Follow(g[i - 1], names[i])
      BY <2>2
    <3> QED BY <3>2, <3>3
  <2>4. \A i \in 0 .. m : h[i] = IF i = 0 THEN a ELSE Follow(h[i - 1], names[i])
    <3> SUFFICES ASSUME NEW i \in 0 .. m
                 PROVE  h[i] = IF i = 0 THEN a ELSE Follow(h[i - 1], names[i])
      OBVIOUS
    <3>1. CASE i = m
      <4> HIDE DEF Bad
      <4>1. m - 1 \in 0 .. m - 1 /\ m \in 0 .. m
        BY <2>0, <2>1
      <4>2. h[m - 1] = g[m - 1]
        BY <2>3, <4>1
      <4>3. h[m] = Follow(g[m - 1], names[m])
        BY <4>1
      <4> QED BY <1>3, <3>1, <4>2, <4>3
    <3>2. CASE i # m
      <4>1. i \in 0 .. m - 1 /\ (i # 0 => i - 1 \in 0 .. m - 1)
        BY <3>2
      <4> QED BY <2>3, <4>1
    <3> QED BY <3>1, <3>2
  <2>5. Loop(h, m)
    BY <2>4
  <2> QED BY <2>5
<1> QED BY <1>2, <1>3

\* Wherever the walk has come, it holds one reference.
LEMMA WalkKeeps ==
  ASSUME NEW t, NEW x, NEW l, Whole(t, x, l), NEW p \in Proc, NEW path,
         Len(path.names) \in Nat
  PROVE  \A m \in 0 .. Len(path.names) : Reached(Walk(t, p, path)[m], t, x, l)
<1> DEFINE n == Len(path.names)
           a == Start(t, p, path)
           f == CHOOSE g : g = [i \in 0 .. n |-> IF i = 0 THEN a ELSE Follow(g[i - 1], path.names[i])]
<1>0. x \in Tally
  BY DEF Whole
<1>1. f = [i \in 0 .. n |-> IF i = 0 THEN a ELSE Follow(f[i - 1], path.names[i])]
  BY WalkLoop, SMTT(30)
<1>2. Walk(t, p, path) = f
  BY DEF Walk
<1> HIDE DEF f
<1>3. f[0] = a /\ \A i \in 1 .. n : f[i] = Follow(f[i - 1], path.names[i])
  BY <1>1, SMTT(30)
<1> DEFINE Right(m) == Reached(f[m], t, x, l)
           Bad == {m \in 0 .. n : ~ Right(m)}
<1>4. Right(0)
  BY <1>3, StartKeeps
<1> HIDE DEF Right
<1>5. Bad = {}
  <2> SUFFICES ASSUME Bad # {} PROVE FALSE
    OBVIOUS
  <2>0. Bad \in SUBSET Nat
    OBVIOUS
  <2>1. PICK m \in Bad : \A j \in Bad : m <= j
    BY <2>0, LeastElement
  <2>2. m # 0
    BY <1>4, <2>1
  <2>3. m \in 1 .. n /\ m - 1 \in 0 .. n
    BY <2>1, <2>2
  <2>4. Right(m - 1)
    <3>1. m - 1 \notin Bad
      BY <2>1, <2>3
    <3> QED BY <2>3, <3>1
  <2>5. f[m] = Follow(f[m - 1], path.names[m])
    BY <1>3, <2>3
  <2>6. Right(m)
    BY <1>0, <2>4, <2>5, FollowKeeps DEF Right
  <2> QED BY <2>1, <2>6
<1> QED BY <1>2, <1>5 DEF Right

\* namei returns a referenced inode, or none.
LEMMA nameiKeeps ==
  ASSUME NEW t, NEW x, NEW l, Whole(t, x, l), NEW p \in Proc, NEW path,
         Len(path.names) \in Nat
  PROVE  Reached(namei(t, p, path), t, x, l)
<1>1. Len(path.names) \in 0 .. Len(path.names)
  OBVIOUS
<1> QED BY <1>1, WalkKeeps DEF namei

\* The look-up of the directory a path is in returns a referenced directory, or none;
\* it is the root for "/".
LEMMA parentKeeps ==
  ASSUME NEW t, NEW x, NEW l, Whole(t, x, l), NEW p \in Proc, NEW path,
         Len(path.names) \in Nat, Len(path.names) = 0 => path.names = << >>
  PROVE  LET d == parent(t, p, path)
         IN  /\ Reached(d, t, x, l)
             /\ Halted(d[1]) \/ d[2] = NoIno \/ IsDir(d[1], d[2])
             /\ path.names = << >> => Halted(d[1]) \/ (path.abs /\ d[2] = Root)
<1>1. CASE path.names # << >>
  <2> DEFINE a == Walk(t, p, path)[Len(path.names) - 1]
  <2>1. Len(path.names) - 1 \in 0 .. Len(path.names)
    BY <1>1
  <2>2. Reached(a, t, x, l)
    BY <2>1, WalkKeeps
  <2>3. parent(t, p, path) =
          IF ~Halted(a[1]) /\ a[2] # NoIno /\ ~IsDir(a[1], a[2])
          THEN <<Stop(a[1], "not a directory"), a[2]>> ELSE a
    BY <1>1 DEF parent
  <2> HIDE DEF a
  <2>4. CASE ~Halted(a[1]) /\ a[2] # NoIno /\ ~IsDir(a[1], a[2])
    <3> DEFINE y == Stop(a[1], "not a directory")
    <3>1. parent(t, p, path) = <<y, a[2]>>
      BY <2>3, <2>4
    <3>2. Whole(a[1], Plus(x, a[2]), l)
      BY <2>2, <2>4 DEF Reached
    <3>3. Halted(y)
      BY <3>2, StopHalts
    <3> HIDE DEF y
    <3> QED BY <3>1, <3>3 DEF Reached
  <2>5. CASE ~(~Halted(a[1]) /\ a[2] # NoIno /\ ~IsDir(a[1], a[2]))
    <3>1. parent(t, p, path) = a
      BY <2>3, <2>5
    <3> QED BY <1>1, <2>2, <2>5, <3>1
  <2> QED BY <2>4, <2>5
<1>2. CASE path.names = << >> /\ path.abs
  <2> DEFINE a == Start(t, p, path)
  <2>1. parent(t, p, path) = a
    BY <1>2 DEF parent
  <2>2. Reached(a, t, x, l) /\ a[2] = Root
    BY <1>2, StartKeeps
  <2> HIDE DEF a
  <2>3. ~Halted(a[1]) => IsDir(a[1], Root)
    <3> SUFFICES ASSUME ~Halted(a[1]) PROVE IsDir(a[1], Root)
      OBVIOUS
    <3>1. SameDisk(t, a[1])
      BY <2>2 DEF Reached
    <3> QED BY <3>1 DEF Whole, Clean, SameDisk, IsDir
  <2> QED BY <1>2, <2>1, <2>2, <2>3
<1>3. CASE path.names = << >> /\ ~path.abs
  <2> DEFINE y == Stop(t, "page zero")
  <2>1. parent(t, p, path) = <<y, NoIno>>
    BY <1>3 DEF parent
  <2>2. Halted(y)
    BY StopHalts
  <2> HIDE DEF y
  <2> QED BY <2>1, <2>2 DEF Reached
<1> QED BY <1>1, <1>2, <1>3

-----------------------------------------------------------------------------
(* Maps and zones *)

\* bitmap_scan finds a clear bit of the map, or none.
LEMMA ScanFacts ==
  ASSUME NEW map \in Map
  PROVE  LET z == bitmap_scan(map, 1)
         IN  z = EOF \/ (z \in map.offset .. map.offset + map.length - 1 /\ z \notin map.bits)
<1> DEFINE Starts == {i \in map.offset .. map.offset + map.length - 1 : map.bits \cap (i .. i + 1 - 1) = {}}
<1>1. map.offset \in Int /\ map.length \in Int
  BY DEF Map
<1>2. bitmap_scan(map, 1) = IF Starts = {} THEN EOF ELSE Min(Starts)
  BY DEF bitmap_scan
<1>3. CASE Starts = {}
  BY <1>2, <1>3
<1>4. CASE Starts # {}
  <2> DEFINE T == {i - map.offset : i \in Starts}
  <2>1. T \in SUBSET Nat /\ T # {}
    BY <1>1, <1>4
  <2>2. PICK j \in T : \A y \in T : j <= y
    BY <2>1, LeastElement
  <2>3. PICK i \in Starts : j = i - map.offset
    BY <2>2
  <2>4. \A y \in Starts : i <= y
    <3> SUFFICES ASSUME NEW y \in Starts PROVE i <= y
      OBVIOUS
    <3>1. y - map.offset \in T /\ y \in Int /\ i \in Int
      BY <1>1
    <3>2. i - map.offset <= y - map.offset
      BY <2>2, <2>3, <3>1
    <3> QED BY <1>1, <3>1, <3>2
  <2>5. Min(Starts) \in Starts
    BY <2>3, <2>4 DEF Min
  <2>6. \A y \in Starts : y \in Int /\ y \in y .. y + 1 - 1
    BY <1>1
  <2>7. \A y \in Starts : y \notin map.bits
    BY <2>6
  <2> QED BY <1>2, <1>4, <2>5, <2>7
<1> QED BY <1>3, <1>4

\* The map with one more bit.
Marked(map, z) == [map EXCEPT !.bits = map.bits \cup {z}]

\* A zone of its own.
LEMMA ballocFacts ==
  ASSUME NEW t, NEW x, NEW l, Whole(t, x, l)
  PROVE  LET a == balloc(t)
         IN  \/ Halted(a[1])
             \/ /\ a[2] \in Zone /\ a[2] \notin t.zmap.bits
                /\ a[1] = [t EXCEPT !.zmap = Marked(t.zmap, a[2])]
<1> DEFINE z == bitmap_scan(t.zmap, 1)
           y == Stop(t, "balloc")
           v == [t EXCEPT !.zmap = MarkRun(@, z, 1)]
<1>1. t \in State /\ t.zmap \in Map /\ t.zmap.offset = FirstZone - 1 /\ t.zmap.length = Zones - FirstZone + 1
      /\ FirstZone - 1 \in t.zmap.bits
  BY StateFields DEF Whole, Zoned
<1>2. z = EOF \/ (z \in FirstZone - 1 .. (FirstZone - 1) + (Zones - FirstZone + 1) - 1 /\ z \notin t.zmap.bits)
  BY <1>1, ScanFacts
<1>3. Halted(y)
  BY StopHalts
<1>4. balloc(t) = IF z = EOF \/ z >= Zones THEN <<y, 0>> ELSE <<v, z>>
  BY DEF balloc
<1> HIDE DEF z, y
<1>5. CASE z = EOF \/ z >= Zones
  BY <1>3, <1>4, <1>5
<1>6. CASE ~(z = EOF \/ z >= Zones)
  <2>1. z \notin t.zmap.bits /\ z \in Zone /\ z \in Int
    BY <1>1, <1>2, <1>6, Sizes DEF Zone
  <2>2. z .. z + 1 - 1 = {z}
    BY <2>1
  <2>21. MarkRun(t.zmap, z, 1) = Marked(t.zmap, z)
    BY <2>2 DEF MarkRun, Marked
  <2>3. v = [t EXCEPT !.zmap = Marked(t.zmap, z)]
    BY <2>21
  <2> HIDE DEF v
  <2>4. balloc(t)[1] = v /\ balloc(t)[2] = z
    BY <1>4, <1>6
  <2> QED BY <2>1, <2>3, <2>4
<1> QED BY <1>5, <1>6

\* Names stay covered where directories are and read the same.
LEMMA SameNames ==
  ASSUME NEW t, NEW u, NEW l, Covered(t, l), u.imap.bits = t.imap.bits,
         \A n \in Ino : IsDir(u, n) <=> IsDir(t, n),
         \A n \in Ino : IsDir(t, n) => Raw(u, n) = Raw(t, n) /\ u.inode[n].size = t.inode[n].size
  PROVE  Covered(u, l)
<1>1. \A n : NamingIn(u, n) = NamingIn(t, n)
  BY DEF NamingIn
<1> QED BY <1>1 DEF Covered

\* What a cleared block holds: no entry of an inode.
LEMMA BlankFacts ==
  /\ Blank \in [Slot -> Entry] /\ Free \in Entry
  /\ Free.ino \notin Ino
  /\ \A i \in Slot : Blank[i].ino = 0 /\ Blank[i].ino \notin Ino
<1>1. Free \in Entry /\ Free.ino = 0
  BY DEF Free, Entry, Name
<1>3. 0 \notin Ino
  BY Sizes DEF Ino
<1>4. Blank = [i \in Slot |-> Free]
  BY DEF Blank, Slot
<1> QED BY <1>1, <1>3, <1>4

\* What a step on inode n leaves alone.
SameCalls(t, u) ==
  /\ u.imap = t.imap /\ u.count = t.count /\ u.pwd = t.pwd /\ u.file = t.file

SameKinds(t, u) ==
  \A m \in Ino : u.inode[m].mode = t.inode[m].mode /\ u.inode[m].nlinks = t.inode[m].nlinks

\* Inode n gets a zone for block b, which is cleared.
Placed1(t, n, b, z) ==
  [t EXCEPT !.zmap = Marked(t.zmap, z),
            !.inode = [t.inode EXCEPT ![n] =
                         [t.inode[n] EXCEPT !.zone = [t.inode[n].zone EXCEPT ![b] = z]]],
            !.block = [t.block EXCEPT ![z] = Blank]]

\* What putting zone z at block b of inode n changes.
LEMMA PlacedFields ==
  ASSUME NEW t \in State, NEW n \in Ino, NEW b \in Blk, NEW z \in Zone
  PROVE  LET u == Placed1(t, n, b, z)
         IN  /\ u \in State /\ SameCalls(t, u) /\ SameKinds(t, u)
             /\ u.zmap.bits = t.zmap.bits \cup {z} /\ u.zmap.offset = t.zmap.offset
             /\ u.zmap.length = t.zmap.length
             /\ \A m \in Ino : \A c \in Blk :
                  u.inode[m].zone[c] = IF m = n /\ c = b THEN z ELSE t.inode[m].zone[c]
             /\ \A m \in Ino : u.inode[m].size = t.inode[m].size
             /\ \A y \in Zone : u.block[y] = IF y = z THEN Blank ELSE t.block[y]
<1> DEFINE zm == Marked(t.zmap, z)
           nz == [t.inode[n].zone EXCEPT ![b] = z]
           nn == [t.inode[n] EXCEPT !.zone = nz]
           ni == [t.inode EXCEPT ![n] = nn]
           nb == [t.block EXCEPT ![z] = Blank]
           u == Placed1(t, n, b, z)
<1>1. /\ t.inode \in [Ino -> Inode] /\ t.zmap \in Map /\ t.block \in [Zone -> [Slot -> Entry]]
      /\ t.inode[n] \in Inode /\ t.inode[n].zone \in [Blk -> Zone \cup {0}] /\ t.zmap.bits \subseteq Int
  BY StateFields
<1>2. zm \in Map /\ zm.bits = t.zmap.bits \cup {z} /\ zm.offset = t.zmap.offset /\ zm.length = t.zmap.length
  BY <1>1, Sizes DEF Map, Marked
<1>3. nz \in [Blk -> Zone \cup {0}] /\ \A c \in Blk : nz[c] = IF c = b THEN z ELSE t.inode[n].zone[c]
  BY <1>1
<1> HIDE DEF nz
<1>4. /\ nn \in Inode /\ nn.zone = nz /\ nn.mode = t.inode[n].mode /\ nn.nlinks = t.inode[n].nlinks
      /\ nn.size = t.inode[n].size
  BY <1>1, <1>3 DEF Inode
<1> HIDE DEF nn
<1>5. ni \in [Ino -> Inode] /\ \A m \in Ino : ni[m] = IF m = n THEN nn ELSE t.inode[m]
  BY <1>1, <1>4
<1>6. nb \in [Zone -> [Slot -> Entry]] /\ \A y \in Zone : nb[y] = IF y = z THEN Blank ELSE t.block[y]
  BY <1>1, BlankFacts
<1>7. u = [t EXCEPT !.zmap = zm, !.inode = ni, !.block = nb]
  BY DEF Placed1, nn, nz
<1> HIDE DEF zm, ni, nb, u
<1>8. u \in State /\ u.zmap = zm /\ u.inode = ni /\ u.block = nb /\ SameCalls(t, u)
  BY <1>2, <1>5, <1>6, <1>7 DEF State, SameCalls
<1>9. SameKinds(t, u)
  BY <1>4, <1>5, <1>8 DEF SameKinds
<1>10. \A m \in Ino : \A c \in Blk :
         u.inode[m].zone[c] = IF m = n /\ c = b THEN z ELSE t.inode[m].zone[c]
  BY <1>3, <1>4, <1>5, <1>8
<1>11. \A m \in Ino : u.inode[m].size = t.inode[m].size
  BY <1>4, <1>5, <1>8
<1> QED BY <1>2, <1>6, <1>8, <1>9, <1>10, <1>11 DEF u

\* A cleared zone that nobody owned is given to an inode.
LEMMA PlacedKeeps ==
  ASSUME NEW t, NEW x, NEW l, Whole(t, x, l), NEW n \in Ino, NEW b \in Blk, NEW z \in Zone,
         z \notin t.zmap.bits, t.inode[n].zone[b] = 0
  PROVE  Whole(Placed1(t, n, b, z), x, l)
<1> DEFINE u == Placed1(t, n, b, z)
<1>1. t \in State /\ Zoned(t) /\ Clean(t) /\ Covered(t, l) /\ Counted(t, x)
  BY DEF Whole
<1>2. /\ u \in State /\ SameCalls(t, u) /\ SameKinds(t, u)
      /\ u.zmap.bits = t.zmap.bits \cup {z} /\ u.zmap.offset = t.zmap.offset
      /\ u.zmap.length = t.zmap.length
      /\ \A m \in Ino : \A c \in Blk :
           u.inode[m].zone[c] = IF m = n /\ c = b THEN z ELSE t.inode[m].zone[c]
      /\ \A m \in Ino : u.inode[m].size = t.inode[m].size
      /\ \A y \in Zone : u.block[y] = IF y = z THEN Blank ELSE t.block[y]
  BY <1>1, PlacedFields
<1> HIDE DEF u
<1>3. \A m \in Ino : \A c \in Blk : t.inode[m].zone[c] # z /\ t.inode[m].zone[c] \in Zone \cup {0}
  <2>1. z # 0
    BY Sizes
  <2> QED BY <1>1, <2>1, StateFields DEF Zoned
<1>4. Zoned(u)
  <2>1. FirstZone - 1 \in u.zmap.bits
    BY <1>1, <1>2 DEF Zoned
  <2>2. \A m \in Ino, c \in Blk : u.inode[m].zone[c] # 0 => u.inode[m].zone[c] \in u.zmap.bits
    BY <1>1, <1>2 DEF Zoned
  <2>3. ASSUME NEW y \in u.zmap.bits, y # FirstZone - 1
        PROVE  y # 0 /\ \E m \in Ino, c \in Blk : u.inode[m].zone[c] = y
    <3>1. CASE y = z
      BY <1>2, <3>1, Sizes
    <3>2. CASE y # z
      <4>1. PICK m \in Ino, c \in Blk : t.inode[m].zone[c] = y
        BY <1>1, <1>2, <2>3, <3>2 DEF Zoned
      <4>2. y # 0
        BY <1>1, <1>2, <2>3, <3>2 DEF Zoned
      <4>3. ~(m = n /\ c = b)
        <5> SUFFICES ASSUME m = n /\ c = b PROVE FALSE
          OBVIOUS
        <5>1. y = 0
          BY <4>1
        <5> QED BY <4>2, <5>1
      <4> QED BY <1>2, <4>1, <4>2, <4>3
    <3> QED BY <3>1, <3>2
  <2>4. ASSUME NEW m \in Ino, NEW o \in Ino, NEW c \in Blk, NEW d \in Blk,
               u.inode[m].zone[c] # 0, u.inode[m].zone[c] = u.inode[o].zone[d]
        PROVE  m = o /\ c = d
    <3>1. CASE m = n /\ c = b
      BY <1>2, <1>3, <2>4, <3>1
    <3>2. CASE o = n /\ d = b
      BY <1>2, <1>3, <2>4, <3>2
    <3>3. CASE ~(m = n /\ c = b) /\ ~(o = n /\ d = b)
      <4>1. t.inode[m].zone[c] # 0 /\ t.inode[m].zone[c] = t.inode[o].zone[d]
        BY <1>2, <2>4, <3>3
      <4> QED BY <1>1, <4>1 DEF Zoned
    <3> QED BY <3>1, <3>2, <3>3
  <2>5. u.zmap.offset = FirstZone - 1 /\ u.zmap.length = Zones - FirstZone + 1
    BY <1>1, <1>2 DEF Zoned
  <2> QED BY <2>1, <2>2, <2>3, <2>4, <2>5 DEF Zoned
<1>5. \A m \in Ino : IsDir(u, m) <=> IsDir(t, m)
  BY <1>2, SMTT(30) DEF SameKinds, IsDir
<1>6. Clean(u)
  <2>2. 0 \in u.imap.bits /\ \A m \in Ino : IsDir(u, m) => m \in u.imap.bits
    BY <1>1, <1>2, <1>5 DEF Clean, SameCalls
  <2>3. IsDir(u, Root) /\ \A p \in Proc : IsDir(u, u.pwd[p])
    BY <1>1, <1>2, <1>5, Sizes, StateFields, ZenonT(40) DEF Clean, SameCalls
  <2> QED BY <2>2, <2>3 DEF Clean
<1>7. \A m \in Ino : Raw(u, m) = Raw(t, m)
  <2> SUFFICES ASSUME NEW m \in Ino PROVE Raw(u, m) = Raw(t, m)
    OBVIOUS
  <2>0. 0 \in Blk /\ z # 0
    BY Sizes
  <2>1. CASE m = n /\ b = 0
    <3>1. Raw(t, m) = Blank
      BY <2>1 DEF Raw, bmap
    <3>2. u.inode[m].zone[0] = z /\ u.block[z] = Blank
      BY <1>2, <2>0, <2>1
    <3> QED BY <2>0, <3>1, <3>2 DEF Raw, bmap
  <2>2. CASE ~(m = n /\ b = 0)
    <3>1. u.inode[m].zone[0] = t.inode[m].zone[0]
      BY <1>2, <2>0, <2>2
    <3>2. t.inode[m].zone[0] # 0 => t.inode[m].zone[0] \in Zone /\ t.inode[m].zone[0] # z
      BY <1>3, <2>0
    <3>3. t.inode[m].zone[0] # 0 => u.block[t.inode[m].zone[0]] = t.block[t.inode[m].zone[0]]
      BY <1>2, <3>2
    <3> QED BY <3>1, <3>3 DEF Raw, bmap
  <2> QED BY <2>1, <2>2
<1>8. Covered(u, l)
  BY <1>1, <1>2, <1>5, <1>7, SameNames DEF SameCalls
<1>9. Counted(u, x)
  BY <1>1, <1>2 DEF Counted, SameCalls
<1> QED BY <1>2, <1>4, <1>6, <1>8, <1>9 DEF Whole, SameCalls, u

\* bmap with create.
LEMMA bmap_createKeeps ==
  ASSUME NEW t, NEW x, NEW l, Whole(t, x, l), NEW n \in Ino, NEW b \in Blk
  PROVE  LET u == bmap_create(t, n, b)
         IN  \/ Halted(u)
             \/ /\ Whole(u, x, l) /\ SameCalls(t, u) /\ SameKinds(t, u)
                /\ u.inode[n].zone[b] \in Zone
                /\ \A m \in Ino : u.inode[m].size = t.inode[m].size
<1>1. t \in State /\ ~Halted(t) /\ t.inode[n].zone[b] \in Zone \cup {0}
  BY StateFields DEF Whole, Halted
<1>2. CASE t.inode[n].zone[b] # 0
  <2>1. bmap_create(t, n, b) = t
    BY <1>2 DEF bmap_create, bmap
  <2> QED BY <1>1, <1>2, <2>1 DEF SameCalls, SameKinds
<1>3. CASE t.inode[n].zone[b] = 0
  <2> DEFINE a == balloc(t)
             z == a[2]
  <2>1. \/ Halted(a[1])
        \/ /\ z \in Zone /\ z \notin t.zmap.bits
           /\ a[1] = [t EXCEPT !.zmap = Marked(t.zmap, z)]
    BY ballocFacts
  <2>2. bmap_create(t, n, b) = IF Halted(a[1]) THEN a[1]
          ELSE [a[1] EXCEPT !.inode[n].zone[b] = a[2], !.block[a[2]] = Blank]
    BY <1>1, <1>3 DEF bmap_create, bmap
  <2> HIDE DEF a
  <2>3. CASE Halted(a[1])
    BY <2>2, <2>3
  <2>4. CASE ~Halted(a[1])
    <3>1. /\ z \in Zone /\ z \notin t.zmap.bits
          /\ a[1] = [t EXCEPT !.zmap = Marked(t.zmap, z)]
      BY <2>1, <2>4
    <3>2. bmap_create(t, n, b) = Placed1(t, n, b, z)
      <4>1. [a[1] EXCEPT !.inode[n].zone[b] = z, !.block[z] = Blank] = Placed1(t, n, b, z)
        BY <1>1, <3>1 DEF Placed1, State
      <4> QED BY <2>2, <2>4, <4>1
    <3> HIDE DEF z
    <3>3. Whole(Placed1(t, n, b, z), x, l)
      BY <1>3, <3>1, PlacedKeeps
    <3>4. LET u == Placed1(t, n, b, z)
          IN  /\ SameCalls(t, u) /\ SameKinds(t, u) /\ u.inode[n].zone[b] = z
              /\ \A m \in Ino : u.inode[m].size = t.inode[m].size
      BY <1>1, <3>1, PlacedFields
    <3> QED BY <3>1, <3>2, <3>3, <3>4
  <2> QED BY <2>3, <2>4
<1> QED BY <1>1, <1>2, <1>3

-----------------------------------------------------------------------------
(* Entries of directories *)

\* Entry i of directory d becomes e.
SetEntry(t, d, i, e) ==
  [t EXCEPT !.block = [t.block EXCEPT ![bmap(t, d, 0)] = [t.block[bmap(t, d, 0)] EXCEPT ![i] = e]]]

\* What writing an entry changes.
LEMMA SetFields ==
  ASSUME NEW t \in State, NEW d \in Ino, NEW i \in Slot, NEW e \in Entry, bmap(t, d, 0) # 0
  PROVE  LET u == SetEntry(t, d, i, e)
             z == bmap(t, d, 0)
         IN  /\ u \in State /\ SameCalls(t, u) /\ u.inode = t.inode /\ u.zmap = t.zmap
             /\ \A y \in Zone : y # z => u.block[y] = t.block[y]
             /\ \A j \in Slot : u.block[z][j] = IF j = i THEN e ELSE t.block[z][j]
<1> DEFINE u == SetEntry(t, d, i, e)
           z == bmap(t, d, 0)
           nz == [t.block[z] EXCEPT ![i] = e]
           nb == [t.block EXCEPT ![z] = nz]
<1>1. t.block \in [Zone -> [Slot -> Entry]] /\ z \in Zone
  BY StateFields, Sizes DEF bmap
<1>2. nz \in [Slot -> Entry] /\ \A j \in Slot : nz[j] = IF j = i THEN e ELSE t.block[z][j]
  BY <1>1
<1>3. u = [t EXCEPT !.block = nb]
  BY DEF SetEntry
<1> HIDE DEF nz, z, u
<1>4. nb \in [Zone -> [Slot -> Entry]] /\ nb[z] = nz /\ \A y \in Zone : y # z => nb[y] = t.block[y]
  BY <1>1, <1>2
<1> HIDE DEF nb
<1>5. u \in State /\ u.block = nb /\ SameCalls(t, u) /\ u.inode = t.inode /\ u.zmap = t.zmap
  BY <1>3, <1>4 DEF State, SameCalls
<1> QED BY <1>2, <1>4, <1>5 DEF u, z

\* Writing an entry of a directory moves one name.
LEMMA SetKeeps ==
  ASSUME NEW t, NEW x, NEW l, Whole(t, x, l), NEW d \in Ino, IsDir(t, d), NEW i \in Slot,
         NEW e \in Entry, bmap(t, d, 0) # 0
  PROVE  LET u == SetEntry(t, d, i, e)
         IN  /\ u \in State /\ Zoned(u) /\ Clean(u) /\ Counted(u, x) /\ SameCalls(t, u)
             /\ u.inode = t.inode
             /\ \A k \in Ino : NamingIn(u, k) = IF e.ino = k /\ i < t.inode[d].size
                                                THEN NamingIn(t, k) \cup {<<d, i>>}
                                                ELSE NamingIn(t, k) \ {<<d, i>>}
             /\ \A m \in Ino : \A j \in Slot :
                  Raw(u, m)[j] = IF m = d /\ j = i THEN e ELSE Raw(t, m)[j]
<1> DEFINE u == SetEntry(t, d, i, e)
           z == bmap(t, d, 0)
<1>1. t \in State /\ Zoned(t) /\ Clean(t) /\ Counted(t, x)
  BY DEF Whole
<1>2. /\ u \in State /\ SameCalls(t, u) /\ u.inode = t.inode /\ u.zmap = t.zmap
      /\ \A y \in Zone : y # z => u.block[y] = t.block[y]
      /\ \A j \in Slot : u.block[z][j] = IF j = i THEN e ELSE t.block[z][j]
  BY <1>1, SetFields
<1>3. 0 \in Blk /\ \A m \in Ino : \A c \in Blk : t.inode[m].zone[c] \in Zone \cup {0}
  BY <1>1, StateFields, Sizes
<1>4. \A m \in Ino, c \in Blk : t.inode[m].zone[c] = z => m = d /\ c = 0
  BY <1>1, <1>3 DEF Zoned, bmap
<1>5. z = t.inode[d].zone[0]
  BY DEF bmap
<1> HIDE DEF u, z
<1>6. Zoned(u) /\ Counted(u, x)
  BY <1>1, <1>2 DEF Zoned, Counted, SameCalls
<1>7. \A m \in Ino : IsDir(u, m) <=> IsDir(t, m)
  BY <1>2, SMTT(30) DEF IsDir
<1>8. Clean(u)
  <2>2. 0 \in u.imap.bits /\ \A m \in Ino : IsDir(u, m) => m \in u.imap.bits
    BY <1>1, <1>2, <1>7, SMTT(30) DEF Clean, SameCalls
  <2>3. IsDir(u, Root) /\ \A p \in Proc : IsDir(u, u.pwd[p])
    BY <1>1, <1>2, <1>7, Sizes, StateFields, ZenonT(40) DEF Clean, SameCalls
  <2> QED BY <2>2, <2>3 DEF Clean
<1>9. \A m \in Ino : \A j \in Slot :
        Raw(u, m)[j] = IF m = d /\ j = i THEN e ELSE Raw(t, m)[j]
  <2> SUFFICES ASSUME NEW m \in Ino, NEW j \in Slot
               PROVE  Raw(u, m)[j] = IF m = d /\ j = i THEN e ELSE Raw(t, m)[j]
    OBVIOUS
  <2>1. CASE m = d
    <3>1. Raw(u, m) = u.block[z] /\ Raw(t, m) = t.block[z]
      BY <1>2, <1>5, <2>1 DEF Raw, bmap, z
    <3> QED BY <1>2, <2>1, <3>1
  <2>2. CASE m # d
    <3>1. t.inode[m].zone[0] # z
      BY <1>3, <1>4, <2>2
    <3>2. t.inode[m].zone[0] # 0 => u.block[t.inode[m].zone[0]] = t.block[t.inode[m].zone[0]]
      BY <1>2, <1>3, <3>1
    <3>3. Raw(u, m) = Raw(t, m)
      BY <1>2, <3>2 DEF Raw, bmap
    <3> QED BY <2>2, <3>3
  <2> QED BY <2>1, <2>2
<1>10. ASSUME NEW k \in Ino
       PROVE  NamingIn(u, k) = IF e.ino = k /\ i < t.inode[d].size
                               THEN NamingIn(t, k) \cup {<<d, i>>}
                               ELSE NamingIn(t, k) \ {<<d, i>>}
  <2>1. \A f : f \in NamingIn(u, k) <=>
               /\ f \in {m \in Ino : IsDir(t, m)} \X Slot
               /\ f[2] < t.inode[f[1]].size /\ Raw(u, f[1])[f[2]].ino = k
    BY <1>2, <1>7 DEF NamingIn
  <2>2. \A f : f \in NamingIn(t, k) <=>
               /\ f \in {m \in Ino : IsDir(t, m)} \X Slot
               /\ f[2] < t.inode[f[1]].size /\ Raw(t, f[1])[f[2]].ino = k
    BY DEF NamingIn
  <2>3. \A f \in {m \in Ino : IsDir(t, m)} \X Slot :
          Raw(u, f[1])[f[2]] = IF f = <<d, i>> THEN e ELSE Raw(t, f[1])[f[2]]
    BY <1>9
  <2>4. <<d, i>> \in {m \in Ino : IsDir(t, m)} \X Slot
    OBVIOUS
  <2> QED BY <2>1, <2>2, <2>3, <2>4
<1> QED BY <1>2, <1>6, <1>8, <1>9, <1>10 DEF u

\* The names of an inode are finite in number.
LEMMA NamingFinite ==
  ASSUME NEW t, NEW n
  PROVE  IsFiniteSet(NamingIn(t, n)) /\ Cardinality(NamingIn(t, n)) \in Nat
<1>1. IsFiniteSet(Ino) /\ IsFiniteSet(Slot)
  BY Sizes, FS_Interval, SMTT(30) DEF Ino, Slot
<1>2. IsFiniteSet(Ino \X Slot)
  BY <1>1, FS_Product
<1>3. NamingIn(t, n) \subseteq Ino \X Slot
  BY DEF NamingIn
<1> QED BY <1>2, <1>3, FS_Subset, FS_CardinalityType

\* Names that go away stay covered.
LEMMA FewerNames ==
  ASSUME NEW t, NEW u, NEW l \in LinkTally, Covered(t, l), t.imap.bits \subseteq u.imap.bits,
         \A n \in DOMAIN l : NamingIn(u, n) \subseteq NamingIn(t, n)
  PROVE  Covered(u, l)
<1> SUFFICES ASSUME NEW n \in DOMAIN l
             PROVE  /\ Cardinality(NamingIn(u, n)) <= l[n]
                    /\ NamingIn(u, n) # {} => n \in u.imap.bits
  BY DEF Covered
<1>1. Cardinality(NamingIn(t, n)) <= l[n] /\ (NamingIn(t, n) # {} => n \in t.imap.bits)
  BY DEF Covered
<1>2. l[n] \in Nat
  BY LinkFacts
<1>3. NamingIn(u, n) \subseteq NamingIn(t, n)
  OBVIOUS
<1>4. IsFiniteSet(NamingIn(t, n)) /\ Cardinality(NamingIn(t, n)) \in Nat
      /\ Cardinality(NamingIn(u, n)) \in Nat
  BY NamingFinite
<1>5. Cardinality(NamingIn(u, n)) <= Cardinality(NamingIn(t, n))
  BY <1>3, <1>4, FS_Subset
<1> QED BY <1>1, <1>2, <1>3, <1>4, <1>5

\* One link more covers one more entry.
LEMMA OneMoreName ==
  ASSUME NEW t, NEW u, NEW l \in LinkTally, Covered(t, l), t.imap.bits \subseteq u.imap.bits,
         NEW k, k \in DOMAIN l => k \in u.imap.bits, NEW f,
         \A m \in DOMAIN l : NamingIn(u, m) \subseteq
                               IF m = k THEN NamingIn(t, m) \cup {f} ELSE NamingIn(t, m)
  PROVE  Covered(u, Plus(l, k))
<1>1. DOMAIN Plus(l, k) = DOMAIN l /\ \A m \in DOMAIN l : Plus(l, k)[m] = IF m = k THEN l[m] + 1 ELSE l[m]
  BY LinkPlus
<1> SUFFICES ASSUME NEW m \in DOMAIN l
             PROVE  /\ Cardinality(NamingIn(u, m)) <= Plus(l, k)[m]
                    /\ NamingIn(u, m) # {} => m \in u.imap.bits
  BY <1>1 DEF Covered
<1>2. Cardinality(NamingIn(t, m)) <= l[m] /\ (NamingIn(t, m) # {} => m \in t.imap.bits)
  BY DEF Covered
<1>3. l[m] \in Nat
  BY LinkFacts
<1>4. IsFiniteSet(NamingIn(t, m)) /\ Cardinality(NamingIn(t, m)) \in Nat
      /\ Cardinality(NamingIn(u, m)) \in Nat
  BY NamingFinite
<1>5. CASE m = k
  <2> DEFINE N == NamingIn(t, m)
  <2>1. NamingIn(u, m) \subseteq N \cup {f} /\ IsFiniteSet(N) /\ Cardinality(N) \in Nat
    BY <1>4, <1>5
  <2> HIDE DEF N
  <2>2. /\ Cardinality(N \cup {f}) = IF f \in N THEN Cardinality(N) ELSE Cardinality(N) + 1
        /\ IsFiniteSet(N \cup {f})
    BY <2>1, FS_AddElement
  <2>3. Cardinality(NamingIn(u, m)) <= Cardinality(N \cup {f})
    BY <2>1, <2>2, FS_Subset
  <2>4. Cardinality(NamingIn(u, m)) <= Cardinality(N) + 1
    BY <1>4, <2>1, <2>2, <2>3
  <2>5. Cardinality(N) <= l[m]
    BY <1>2 DEF N
  <2> QED BY <1>1, <1>3, <1>4, <1>5, <2>1, <2>4, <2>5
<1>6. CASE m # k
  <2>1. NamingIn(u, m) \subseteq NamingIn(t, m)
    BY <1>6
  <2>2. Cardinality(NamingIn(u, m)) <= Cardinality(NamingIn(t, m))
    BY <1>4, <2>1, FS_Subset
  <2> QED BY <1>1, <1>2, <1>3, <1>4, <1>6, <2>1, <2>2
<1> QED BY <1>5, <1>6

\* A name is taken out: one entry less for the inode it named.
LEMMA DropName ==
  ASSUME NEW t, NEW x, NEW l, Whole(t, x, l), NEW d \in Ino, IsDir(t, d), NEW i \in Slot,
         NEW e \in Entry, bmap(t, d, 0) # 0, e.ino = 0, NEW k \in Ino, Raw(t, d)[i].ino = k,
         i < t.inode[d].size
  PROVE  /\ k \in DOMAIN l => l[k] >= 1
         /\ Whole(SetEntry(t, d, i, e), x, [l EXCEPT ![k] = l[k] - 1])
<1> DEFINE u == SetEntry(t, d, i, e)
           g == [l EXCEPT ![k] = l[k] - 1]
<1>1. /\ u \in State /\ Zoned(u) /\ Clean(u) /\ Counted(u, x) /\ SameCalls(t, u)
      /\ \A m \in Ino : NamingIn(u, m) = IF e.ino = m /\ i < t.inode[d].size
                                         THEN NamingIn(t, m) \cup {<<d, i>>}
                                         ELSE NamingIn(t, m) \ {<<d, i>>}
  BY SetKeeps
<1> HIDE DEF u
<1>11. \A m \in Ino : NamingIn(u, m) = NamingIn(t, m) \ {<<d, i>>}
  <2>1. \A m \in Ino : e.ino # m
    BY Sizes DEF NoIno
  <2> QED BY <1>1, <2>1
<1>2. l \in LinkTally /\ Covered(t, l)
  BY DEF Whole
<1>21. DOMAIN l \subseteq Ino /\ \A m \in DOMAIN l : l[m] \in Nat
  BY <1>2, LinkFacts
<1>3. <<d, i>> \in NamingIn(t, k)
  BY DEF NamingIn
<1>4. IsFiniteSet(NamingIn(t, k)) /\ Cardinality(NamingIn(t, k)) \in Nat
  BY NamingFinite
<1>5. Cardinality(NamingIn(u, k)) = Cardinality(NamingIn(t, k)) - 1
  BY <1>11, <1>3, <1>4, FS_RemoveElement
<1>6. Cardinality(NamingIn(u, k)) \in Nat
  BY NamingFinite
<1>7. k \in DOMAIN l => l[k] \in Nat /\ l[k] >= 1 /\ Cardinality(NamingIn(t, k)) <= l[k]
  BY <1>2, <1>21, <1>4, <1>5, <1>6 DEF Covered
<1>71. k \in DOMAIN l => l[k] - 1 \in Nat
  BY <1>7
<1>8. g \in LinkTally /\ DOMAIN g = DOMAIN l /\ \A m \in DOMAIN l : g[m] = IF m = k THEN l[k] - 1 ELSE l[m]
  BY <1>2, <1>71, LinkSet
<1> HIDE DEF g
<1>9. Covered(u, g)
  <2> SUFFICES ASSUME NEW m \in DOMAIN l
               PROVE  /\ Cardinality(NamingIn(u, m)) <= g[m]
                      /\ NamingIn(u, m) # {} => m \in u.imap.bits
    BY <1>8 DEF Covered
  <2>1. /\ Cardinality(NamingIn(t, m)) <= l[m] /\ (NamingIn(t, m) # {} => m \in t.imap.bits)
        /\ l[m] \in Nat
    BY <1>2, <1>21 DEF Covered
  <2>2. u.imap.bits = t.imap.bits /\ NamingIn(u, m) \subseteq NamingIn(t, m)
    BY <1>1, <1>11, <1>21 DEF SameCalls
  <2>3. IsFiniteSet(NamingIn(t, m)) /\ Cardinality(NamingIn(t, m)) \in Nat
        /\ Cardinality(NamingIn(u, m)) \in Nat
    BY NamingFinite
  <2>4. Cardinality(NamingIn(u, m)) <= Cardinality(NamingIn(t, m))
    BY <2>2, <2>3, FS_Subset
  <2>5. Cardinality(NamingIn(u, m)) <= g[m]
    BY <1>4, <1>5, <1>7, <1>8, <2>1, <2>3, <2>4
  <2> QED BY <2>1, <2>2, <2>5
<1> QED BY <1>1, <1>7, <1>8, <1>9 DEF Whole, SameCalls, u, g

\* More links cover the names as well, and fewer inodes need them.
LEMMA MoreLinks ==
  ASSUME NEW t, NEW x, NEW l, Whole(t, x, l), NEW g \in LinkTally, DOMAIN g \subseteq DOMAIN l,
         \A n \in DOMAIN g : l[n] <= g[n]
  PROVE  Whole(t, x, g)
<1>1. l \in LinkTally /\ Covered(t, l)
  BY DEF Whole
<1>2. Covered(t, g)
  <2> SUFFICES ASSUME NEW n \in DOMAIN g
               PROVE  Cardinality(NamingIn(t, n)) <= g[n] /\ (NamingIn(t, n) # {} => n \in t.imap.bits)
    BY DEF Covered
  <2>1. Cardinality(NamingIn(t, n)) \in Nat /\ l[n] \in Nat /\ g[n] \in Nat
    BY <1>1, NamingFinite, LinkFacts
  <2>2. Cardinality(NamingIn(t, n)) <= l[n] /\ (NamingIn(t, n) # {} => n \in t.imap.bits)
    BY <1>1 DEF Covered
  <2> QED BY <2>1, <2>2
<1> QED BY <1>2 DEF Whole

\* Inode n is given other contents.
Fill(t, n, node) == [t EXCEPT !.inode = [t.inode EXCEPT ![n] = node]]

\* What giving an inode other contents changes.
LEMMA FillFields ==
  ASSUME NEW t \in State, NEW n \in Ino, NEW node \in Inode
  PROVE  LET u == Fill(t, n, node)
         IN  /\ u \in State /\ SameCalls(t, u) /\ u.zmap = t.zmap /\ u.block = t.block
             /\ \A m \in Ino : u.inode[m] = IF m = n THEN node ELSE t.inode[m]
<1> DEFINE ni == [t.inode EXCEPT ![n] = node]
<1>1. t.inode \in [Ino -> Inode]
  BY StateFields
<1>2. ni \in [Ino -> Inode] /\ \A m \in Ino : ni[m] = IF m = n THEN node ELSE t.inode[m]
  BY <1>1
<1>3. Fill(t, n, node) = [t EXCEPT !.inode = ni]
  BY DEF Fill
<1> HIDE DEF ni
<1> QED BY <1>2, <1>3 DEF State, SameCalls

\* The zones stay: everything but the names is in order.
LEMMA FillOrder ==
  ASSUME NEW t \in State, NEW x, Zoned(t), Clean(t), Counted(t, x), NEW n \in Ino, NEW node \in Inode,
         node.zone = t.inode[n].zone,
         node.mode = t.inode[n].mode \/ (~IsDir(t, n) /\ n \in t.imap.bits)
  PROVE  LET u == Fill(t, n, node)
         IN  /\ Zoned(u) /\ Clean(u) /\ Counted(u, x)
             /\ \A m \in Ino : m # n => (IsDir(u, m) <=> IsDir(t, m))
             /\ \A m \in Ino : Raw(u, m) = Raw(t, m)
<1> DEFINE u == Fill(t, n, node)
<1>2. /\ u \in State /\ SameCalls(t, u) /\ u.zmap = t.zmap /\ u.block = t.block
      /\ \A m \in Ino : u.inode[m] = IF m = n THEN node ELSE t.inode[m]
  BY FillFields
<1> HIDE DEF u
<1>3. \A m \in Ino : u.inode[m].zone = t.inode[m].zone
  BY <1>2
<1>4. Zoned(u) /\ Counted(u, x)
  BY <1>2, <1>3, SMTT(30) DEF Zoned, Counted, SameCalls
<1>5. \A m \in Ino : m # n => (IsDir(u, m) <=> IsDir(t, m))
  BY <1>2 DEF IsDir
<1>6. \A m \in Ino : Raw(u, m) = Raw(t, m)
  BY <1>2, <1>3 DEF Raw, bmap
<1>7. IsDir(t, n) => IsDir(u, n)
  BY <1>2 DEF IsDir
<1>8. IsDir(u, n) => n \in t.imap.bits
  <2>1. CASE node.mode = t.inode[n].mode
    BY <1>2, <2>1, SMTT(30) DEF IsDir, Clean
  <2> QED BY <2>1
<1>9. Clean(u)
  <2>2. 0 \in u.imap.bits /\ \A m \in Ino : IsDir(u, m) => m \in u.imap.bits
    BY <1>2, <1>5, <1>8 DEF Clean, SameCalls
  <2>21. \A m \in Ino : IsDir(t, m) => IsDir(u, m)
    BY <1>5, <1>7
  <2>22. Root \in Ino /\ t.pwd \in [Proc -> Ino] /\ u.pwd = t.pwd
    BY <1>2, Sizes, StateFields, SMTT(30) DEF SameCalls
  <2>3. IsDir(u, Root) /\ \A p \in Proc : IsDir(u, u.pwd[p])
    BY <2>21, <2>22 DEF Clean
  <2> QED BY <2>2, <2>3 DEF Clean
<1> QED BY <1>4, <1>5, <1>6, <1>9 DEF u

\* The zones stay, and no directory grows: one that was a file is empty.
LEMMA FillKeeps ==
  ASSUME NEW t, NEW x, NEW l, Whole(t, x, l), NEW n \in Ino, NEW node \in Inode,
         node.zone = t.inode[n].zone,
         node.mode = t.inode[n].mode \/ (~IsDir(t, n) /\ n \in t.imap.bits),
         node.mode = "dir" => node.size = 0 \/ (IsDir(t, n) /\ node.size <= t.inode[n].size)
  PROVE  Whole(Fill(t, n, node), x, l)
<1> DEFINE u == Fill(t, n, node)
<1>1. t \in State /\ Zoned(t) /\ Clean(t) /\ Counted(t, x) /\ Covered(t, l) /\ l \in LinkTally
  BY DEF Whole
<1>2. /\ u \in State /\ SameCalls(t, u) /\ u.zmap = t.zmap /\ u.block = t.block
      /\ \A m \in Ino : u.inode[m] = IF m = n THEN node ELSE t.inode[m]
  BY <1>1, FillFields
<1>3. /\ Zoned(u) /\ Clean(u) /\ Counted(u, x)
      /\ \A m \in Ino : m # n => (IsDir(u, m) <=> IsDir(t, m))
      /\ \A m \in Ino : Raw(u, m) = Raw(t, m)
  BY <1>1, FillOrder
<1> HIDE DEF u
<1>4. \A k : NamingIn(u, k) \subseteq NamingIn(t, k)
  <2> SUFFICES ASSUME NEW k, NEW m \in Ino, NEW i \in Slot, IsDir(u, m),
                      i < u.inode[m].size, Raw(u, m)[i].ino = k
               PROVE  IsDir(t, m) /\ i < t.inode[m].size /\ Raw(t, m)[i].ino = k
    BY DEF NamingIn
  <2>1. CASE m # n
    BY <1>2, <1>3, <2>1
  <2>2. CASE m = n
    <3>1. u.inode[m] = node /\ node.mode = "dir"
      BY <1>2, <2>2 DEF IsDir
    <3>2. i \in Nat /\ t.inode[n].size \in Nat /\ node.size \in Nat
      BY <1>1, StateFields DEF Slot, Inode
    <3>3. IsDir(t, n) /\ node.size <= t.inode[n].size
      BY <3>1, <3>2
    <3> QED BY <1>3, <2>2, <3>1, <3>2, <3>3
  <2> QED BY <2>1, <2>2
<1>5. Covered(u, l)
  <2>1. t.imap.bits \subseteq u.imap.bits
    BY <1>2 DEF SameCalls
  <2> QED BY <1>1, <1>4, <2>1, FewerNames
<1> QED BY <1>2, <1>3, <1>5 DEF Whole, SameCalls, u

\* add_entry after its block is there.
EntryAt(t, d, i, ino, name) ==
  [t EXCEPT !.block[bmap(t, d, 0)][i] = [ino |-> ino, name |-> name], !.inode[d].size = i + 1]

\* add_entry writes a name of an inode in the map, at the end of the directory or
\* before it; what follows is cut off.
LEMMA EntryPut ==
  ASSUME NEW t, NEW x, NEW l, Whole(t, x, l), NEW d \in Ino, IsDir(t, d), NEW i \in Slot,
         i <= t.inode[d].size, NEW ino \in Ino, ino \in DOMAIN l => ino \in t.imap.bits,
         NEW name \in Name
  PROVE  LET u == EntryAt(t, d, i, ino, name)
         IN  /\ Whole(u, x, Plus(l, ino)) /\ SameCalls(t, u) /\ SameKinds(t, u)
             /\ \A m \in Ino : u.inode[m].size = IF m = d THEN i + 1 ELSE t.inode[m].size
<1> DEFINE u == EntryAt(t, d, i, ino, name)
           e == [ino |-> ino, name |-> name]
           node == [t.inode[d] EXCEPT !.size = i + 1]
           z == bmap(t, d, 0)
           v == IF z = 0 THEN t ELSE SetEntry(t, d, i, e)
<1>1. t \in State /\ t.inode[d] \in Inode /\ l \in LinkTally /\ t.block \in [Zone -> [Slot -> Entry]]
      /\ z \in Zone \cup {0} /\ 0 \notin Zone
  BY StateFields, Sizes DEF Whole, bmap
<1> HIDE DEF u, z, node, v, e
<1>0. ino \in Int
  BY ONLY ino \in Ino DEF Ino
<1> USE DEF e
<1>2. e \in Entry /\ e.ino = ino
  BY <1>0 DEF Entry
<1> USE DEF u, z, node, v
<1> HIDE DEF e
<1>3. /\ v \in State /\ Zoned(v) /\ Clean(v) /\ Counted(v, x) /\ SameCalls(t, v)
      /\ v.inode = t.inode
      /\ \A m \in Ino : \A j \in Slot :
           \/ Raw(v, m)[j] = IF m = d /\ j = i THEN e ELSE Raw(t, m)[j]
           \/ m = d /\ Raw(v, m)[j].ino \notin Ino
  <2>1. CASE z = 0
    <3>1. v = t
      BY <2>1
    <3>2. \A j \in Slot : Raw(t, d)[j].ino \notin Ino
      BY <2>1, BlankFacts DEF Raw, z
    <3>3. \A m \in Ino : \A j \in Slot :
            \/ Raw(t, m)[j] = IF m = d /\ j = i THEN e ELSE Raw(t, m)[j]
            \/ m = d /\ Raw(t, m)[j].ino \notin Ino
      BY <3>2
    <3>4. SameCalls(t, t)
      BY DEF SameCalls
    <3> HIDE DEF v
    <3> QED BY <1>1, <3>1, <3>3, <3>4 DEF Whole
  <2>2. CASE z # 0
    <3>1. v = SetEntry(t, d, i, e) /\ bmap(t, d, 0) # 0
      BY <2>2
    <3>2. LET w == SetEntry(t, d, i, e)
          IN  /\ w \in State /\ Zoned(w) /\ Clean(w) /\ Counted(w, x) /\ SameCalls(t, w)
              /\ w.inode = t.inode
              /\ \A m \in Ino : \A j \in Slot :
                   Raw(w, m)[j] = IF m = d /\ j = i THEN e ELSE Raw(t, m)[j]
      BY <1>2, <3>1, SetKeeps
    <3> HIDE DEF v
    <3> QED BY <3>1, <3>2
  <2> QED BY <2>1, <2>2
<1>4. /\ node \in Inode /\ node.zone = t.inode[d].zone /\ node.mode = t.inode[d].mode
      /\ node.nlinks = t.inode[d].nlinks
  <2>1. i + 1 \in Nat
    BY DEF Slot
  <2> QED BY <1>1, <2>1 DEF Inode
<1>5. u = Fill(v, d, node)
  <2>1. CASE z = 0
    <3>1. [t.block EXCEPT ![z] = [t.block[z] EXCEPT ![i] = e]] = t.block
      BY <1>1, <2>1
    <3>2. u = [t EXCEPT !.block = [t.block EXCEPT ![z] = [t.block[z] EXCEPT ![i] = e]],
                        !.inode = [t.inode EXCEPT ![d] = node]]
      BY <1>1 DEF State, e, EntryAt
    <3>3. u = [t EXCEPT !.block = t.block, !.inode = [t.inode EXCEPT ![d] = node]]
      BY <3>1, <3>2
    <3> HIDE DEF node
    <3> QED BY <1>1, <2>1, <3>3 DEF Fill, State
  <2>2. CASE z # 0
    <3>2. u = [t EXCEPT !.block = [t.block EXCEPT ![z] = [t.block[z] EXCEPT ![i] = e]],
                        !.inode = [t.inode EXCEPT ![d] = node]]
      BY <1>1 DEF State, e, EntryAt
    <3>3. v = [t EXCEPT !.block = [t.block EXCEPT ![z] = [t.block[z] EXCEPT ![i] = e]]]
      BY <2>2 DEF SetEntry
    <3> HIDE DEF node, v
    <3> QED BY <1>1, <1>3, <3>2, <3>3 DEF Fill, State
  <2> QED BY <2>1, <2>2
<1> HIDE DEF v, node, u
<1>7. v \in State
  BY <1>3
<1>6. /\ Zoned(u) /\ Clean(u) /\ Counted(u, x)
      /\ \A m \in Ino : m # d => (IsDir(u, m) <=> IsDir(v, m))
      /\ \A m \in Ino : Raw(u, m) = Raw(v, m)
  BY <1>3, <1>4, <1>5, FillOrder
<1>8. /\ u \in State /\ SameCalls(v, u)
      /\ \A m \in Ino : u.inode[m] = IF m = d THEN node ELSE v.inode[m]
  BY <1>4, <1>5, <1>7, FillFields
<1>9. node.size = i + 1 /\ i \in Int /\ t.inode[d].size \in Int
  BY <1>1 DEF node, Slot, Inode
<1>10. \A k \in DOMAIN l : NamingIn(u, k) \subseteq
         IF k = ino THEN NamingIn(t, k) \cup {<<d, i>>} ELSE NamingIn(t, k)
  <2> SUFFICES ASSUME NEW k \in DOMAIN l, NEW m \in Ino, NEW j \in Slot, IsDir(u, m),
                      j < u.inode[m].size, Raw(u, m)[j].ino = k
               PROVE  \/ k = ino /\ m = d /\ j = i
                      \/ IsDir(t, m) /\ j < t.inode[m].size /\ Raw(t, m)[j].ino = k
    BY DEF NamingIn
  <2>1. k \in Ino /\ j \in Int
    BY <1>1, LinkFacts DEF Slot
  <2>2. Raw(v, m)[j] = IF m = d /\ j = i THEN e ELSE Raw(t, m)[j]
    BY <1>3, <1>6, <2>1
  <2>3. CASE m = d /\ j = i
    BY <1>2, <1>6, <2>2, <2>3
  <2>4. CASE m = d /\ j # i
    <3>1. u.inode[m].size = i + 1
      BY <1>8, <1>9, <2>4
    <3> QED BY <1>6, <1>9, <2>1, <2>2, <2>4, <3>1
  <2>5. CASE m # d
    BY <1>3, <1>6, <1>8, <2>2, <2>5 DEF IsDir
  <2> QED BY <2>3, <2>4, <2>5
<1>11. Covered(u, Plus(l, ino)) /\ Plus(l, ino) \in LinkTally
  <2>1. Covered(t, l) /\ t.imap.bits = u.imap.bits
    BY <1>3, <1>8 DEF Whole, SameCalls
  <2> DEFINE f == <<d, i>>
  <2>2. \A k \in DOMAIN l : NamingIn(u, k) \subseteq
          IF k = ino THEN NamingIn(t, k) \cup {f} ELSE NamingIn(t, k)
    BY <1>10
  <2> HIDE DEF f
  <2> QED BY <1>1, <2>1, <2>2, OneMoreName, LinkPlus
<1>12. x \in Tally /\ u.imap = t.imap /\ t.imap.offset = 0 /\ t.imap.length = Inodes + 1
  BY <1>3, <1>8 DEF Whole, SameCalls
<1>13. Whole(u, x, Plus(l, ino))
  BY <1>6, <1>8, <1>11, <1>12 DEF Whole
<1> QED BY <1>3, <1>4, <1>8, <1>9, <1>13 DEF SameCalls, SameKinds, u

\* The least of a set of numbers is in it.
LEMMA MinFacts ==
  ASSUME NEW S \in SUBSET Nat, S # {}
  PROVE  Min(S) \in S
<1>1. \E i \in S : \A j \in S : i <= j
  BY LeastElement
<1> QED BY <1>1 DEF Min

\* add_entry puts in one name.
LEMMA add_entryKeeps ==
  ASSUME NEW t, NEW x, NEW l, Whole(t, x, l), NEW d \in Ino, IsDir(t, d),
         NEW ino \in Ino, ino \in DOMAIN l => ino \in t.imap.bits, NEW name \in Name
  PROVE  LET u == add_entry(t, d, name, ino)
         IN  Halted(u) \/ (Whole(u, x, Plus(l, ino)) /\ SameCalls(t, u) /\ SameKinds(t, u)
                           /\ \A m \in Ino : m # d => u.inode[m].size = t.inode[m].size)
<1> DEFINE v == IF t.inode[d].size = 0 THEN bmap_create(t, d, 0) ELSE t
           free == {i \in 0 .. PerBlock - 1 : i <= t.inode[d].size /\ Raw(v, d)[i].ino = 0}
           y == Stop(v, "page zero")
           w == EntryAt(v, d, Min(free), ino, name)
<1>0. CASE name = NoName
  <2>1. add_entry(t, d, name, ino) = Stop(t, "page zero")
    BY <1>0 DEF add_entry
  <2> QED BY <2>1, StopHalts
<1> SUFFICES ASSUME name # NoName
             PROVE  LET u == add_entry(t, d, name, ino)
                    IN  Halted(u) \/ (Whole(u, x, Plus(l, ino)) /\ SameCalls(t, u) /\ SameKinds(t, u)
                                      /\ \A m \in Ino : m # d => u.inode[m].size = t.inode[m].size)
  BY <1>0
<1>1. add_entry(t, d, name, ino) = IF Halted(v) THEN v ELSE IF free = {} THEN y ELSE w
  BY DEF add_entry, EntryAt
<1>2. Halted(v) \/ (/\ Whole(v, x, l) /\ SameCalls(t, v) /\ SameKinds(t, v)
                    /\ \A m \in Ino : v.inode[m].size = t.inode[m].size)
  <2>1. CASE t.inode[d].size = 0
    BY <2>1, bmap_createKeeps, Sizes
  <2>2. CASE t.inode[d].size # 0
    BY <2>2 DEF SameCalls, SameKinds
  <2> QED BY <2>1, <2>2
<1> HIDE DEF v
<1>3. CASE Halted(v)
  BY <1>1, <1>3
<1>4. CASE ~Halted(v) /\ free = {}
  BY <1>1, <1>2, <1>4, StopHalts
<1>5. CASE ~Halted(v) /\ free # {}
  <2>1. /\ Whole(v, x, l) /\ SameCalls(t, v) /\ SameKinds(t, v)
        /\ \A m \in Ino : v.inode[m].size = t.inode[m].size
    BY <1>2, <1>5
  <2>2. free \in SUBSET Nat /\ free \subseteq Slot
    BY DEF Slot
  <2>3. Min(free) \in Slot /\ Min(free) <= v.inode[d].size
    <3>1. Min(free) \in free
      BY <1>5, <2>2, MinFacts
    <3> QED BY <2>1, <2>2, <3>1
  <2>4. IsDir(v, d) /\ (ino \in DOMAIN l => ino \in v.imap.bits)
    BY <2>1 DEF SameCalls, SameKinds, IsDir
  <2>5. add_entry(t, d, name, ino) = w
    BY <1>1, <1>5
  <2> HIDE DEF free
  <2>7. Whole(w, x, Plus(l, ino)) /\ SameCalls(v, w) /\ SameKinds(v, w)
        /\ \A m \in Ino : m # d => w.inode[m].size = v.inode[m].size
    BY <2>1, <2>3, <2>4, EntryPut
  <2> QED BY <2>1, <2>5, <2>7 DEF SameCalls, SameKinds
<1> QED BY <1>3, <1>4, <1>5

-----------------------------------------------------------------------------
(* New inodes *)

\* The map of inodes with one more bit.
Taken(t, n) == [t EXCEPT !.imap = Marked(t.imap, n)]

\* ialloc marks an inode that the map did not have, or the kernel stops.
LEMMA iallocFacts ==
  ASSUME NEW t, NEW x, NEW l, Whole(t, x, l)
  PROVE  LET a == ialloc(t)
         IN  \/ Halted(a[1])
             \/ (a[2] \in Ino /\ a[2] \notin t.imap.bits /\ a[1] = Taken(t, a[2]))
<1> DEFINE n == bitmap_scan(t.imap, 1)
           y == Stop(t, "ialloc")
           v == [t EXCEPT !.imap = MarkRun(@, n, 1)]
<1>1. t \in State /\ t.imap \in Map /\ t.imap.offset = 0 /\ t.imap.length = Inodes + 1 /\ 0 \in t.imap.bits
  BY StateFields DEF Whole, Clean
<1>2. n = EOF \/ (n \in 0 .. 0 + (Inodes + 1) - 1 /\ n \notin t.imap.bits)
  BY <1>1, ScanFacts
<1>3. Halted(y)
  BY StopHalts
<1>4. ialloc(t) = IF n = EOF \/ n >= Inodes THEN <<y, NoIno>> ELSE <<v, n>>
  BY DEF ialloc
<1> HIDE DEF n, y
<1>5. CASE n = EOF \/ n >= Inodes
  BY <1>3, <1>4, <1>5
<1>6. CASE ~(n = EOF \/ n >= Inodes)
  <2>1. n \notin t.imap.bits /\ n \in Ino /\ n \in Int
    BY <1>1, <1>2, <1>6, Sizes DEF Ino
  <2>2. n .. n + 1 - 1 = {n}
    BY <2>1
  <2>21. MarkRun(t.imap, n, 1) = Marked(t.imap, n)
    BY <2>2 DEF MarkRun, Marked
  <2>3. v = Taken(t, n)
    BY <2>21 DEF Taken
  <2> HIDE DEF v
  <2>4. ialloc(t)[1] = v /\ ialloc(t)[2] = n
    BY <1>4, <1>6
  <2> QED BY <2>1, <2>3, <2>4
<1> QED BY <1>5, <1>6

\* An inode that is not in the map has no names, if they are counted.
LEMMA TakenKeeps ==
  ASSUME NEW t, NEW x, NEW l, Whole(t, x, l), NEW n \in Ino, n \notin t.imap.bits
  PROVE  LET u == Taken(t, n)
         IN  /\ Whole(u, x, [l EXCEPT ![n] = 0]) /\ n \in u.imap.bits /\ ~IsDir(t, n)
             /\ u.inode = t.inode /\ u.file = t.file /\ u.pwd = t.pwd
<1> DEFINE u == Taken(t, n)
           g == [l EXCEPT ![n] = 0]
           zm == Marked(t.imap, n)
<1>1. t \in State /\ Zoned(t) /\ Clean(t) /\ Counted(t, x) /\ Covered(t, l) /\ l \in LinkTally
      /\ t.imap \in Map /\ t.imap.bits \subseteq Int /\ t.imap.offset = 0 /\ t.imap.length = Inodes + 1
  BY StateFields DEF Whole
<1>2. g \in LinkTally /\ DOMAIN g = DOMAIN l /\ \A m \in DOMAIN l : g[m] = IF m = n THEN 0 ELSE l[m]
  BY <1>1, LinkSet
<1>3. /\ zm \in Map /\ zm.bits = t.imap.bits \cup {n} /\ zm.offset = t.imap.offset
      /\ zm.length = t.imap.length
  BY <1>1, Sizes DEF Map, Marked
<1>4. u = [t EXCEPT !.imap = zm]
  BY DEF Taken
<1> HIDE DEF zm, u, g
<1>5. /\ u \in State /\ u.imap = zm /\ u.inode = t.inode /\ u.zmap = t.zmap /\ u.block = t.block
      /\ u.count = t.count /\ u.pwd = t.pwd /\ u.file = t.file
  BY <1>1, <1>3, <1>4 DEF State
<1>6. Zoned(u) /\ Counted(u, x)
  BY <1>1, <1>5 DEF Zoned, Counted
<1>7. Clean(u)
  BY <1>1, <1>3, <1>5 DEF Clean, IsDir
<1>8. \A k : NamingIn(u, k) = NamingIn(t, k)
  BY <1>5 DEF NamingIn, Raw, bmap, IsDir
<1>9. Covered(u, g)
  <2> SUFFICES ASSUME NEW k \in DOMAIN l
               PROVE  Cardinality(NamingIn(u, k)) <= g[k] /\ (NamingIn(u, k) # {} => k \in u.imap.bits)
    BY <1>2 DEF Covered
  <2>1. Cardinality(NamingIn(t, k)) <= l[k] /\ (NamingIn(t, k) # {} => k \in t.imap.bits)
    BY <1>1 DEF Covered
  <2>2. CASE k = n
    <3>1. NamingIn(u, k) = {}
      BY <1>8, <2>1, <2>2
    <3> QED BY <1>2, <2>2, <3>1, FS_EmptySet
  <2>3. CASE k # n
    BY <1>2, <1>3, <1>5, <1>8, <2>1, <2>3
  <2> QED BY <2>2, <2>3
<1>10. ~IsDir(t, n)
  BY <1>1 DEF Clean
<1> QED BY <1>1, <1>2, <1>3, <1>5, <1>6, <1>7, <1>9, <1>10 DEF Whole, u, g

\* What NewInode has come to, with l the links before: the new inode has one name and
\* nothing in it.
Born(t, u, n, dir, x, l, mode, nlinks) ==
  /\ n \in Ino /\ n # dir /\ Whole(u, Plus(x, n), [l EXCEPT ![n] = 1]) /\ IsDir(u, dir)
  /\ n \in u.imap.bits /\ u.inode[n].mode = mode /\ u.inode[n].nlinks = nlinks
  /\ u.inode[n].size = 0
  /\ \A m \in Ino : m # n => u.inode[m].nlinks = t.inode[m].nlinks
  /\ u.file = t.file /\ u.pwd = t.pwd

\* A new inode is made under a name in a directory.
LEMMA NewInodeKeeps ==
  ASSUME NEW t, NEW x, NEW l, Whole(t, x, l), NEW dir \in Ino, IsDir(t, dir), NEW name \in Name,
         NEW mode \in {"dir", "reg"}, NEW nlinks \in LinkCount
  PROVE  LET c == NewInode(t, dir, name, mode, nlinks)
         IN  Halted(c[1]) \/ Born(t, c[1], c[2], dir, x, l, mode, nlinks)
<1> DEFINE a == ialloc(t)
           n == a[2]
           v == add_entry(a[1], dir, name, n)
           w == iget(v, n)
           c == NewInode(t, dir, name, mode, nlinks)
           y == [w EXCEPT !.inode[n] = [mode |-> mode, size |-> 0, nlinks |-> nlinks, zone |-> @.zone]]
<1>1. c = IF Halted(a[1]) THEN a ELSE IF Halted(w) THEN <<w, NoIno>> ELSE <<y, n>>
  BY DEF NewInode
<1>2. Halted(a[1]) \/ (n \in Ino /\ n \notin t.imap.bits /\ a[1] = Taken(t, n))
  BY iallocFacts
<1> HIDE DEF a, c
<1>3. CASE Halted(a[1])
  BY <1>1, <1>3 DEF c
<1>4. CASE ~Halted(a[1])
  <2> DEFINE g == [l EXCEPT ![n] = 0]
             T == a[1]
  <2>1. n \in Ino /\ n \notin t.imap.bits /\ T = Taken(t, n)
    BY <1>2, <1>4
  <2>2. /\ Whole(T, x, g) /\ n \in T.imap.bits /\ ~IsDir(t, n) /\ T.inode = t.inode
        /\ T.file = t.file /\ T.pwd = t.pwd
    BY <2>1, TakenKeeps
  <2>21. g \in LinkTally /\ l \in LinkTally
    BY <2>2 DEF Whole
  <2> HIDE DEF T, n
  <2>3. Halted(v) \/ (Whole(v, x, Plus(g, n)) /\ SameCalls(T, v) /\ SameKinds(T, v))
    <3>1. IsDir(T, dir)
      BY <2>2 DEF IsDir
    <3> HIDE DEF g
    <3> QED BY <2>1, <2>2, <3>1, add_entryKeeps DEF T
  <2> HIDE DEF v
  <2>4. Halted(w) \/ (Whole(w, Plus(x, n), Plus(g, n)) /\ SameDisk(v, w) /\ Whole(v, x, Plus(g, n)))
    <3>1. CASE Halted(v)
      BY <3>1 DEF iget
    <3>2. CASE ~Halted(v)
      BY <2>3, <3>2, igetFacts
    <3> QED BY <3>1, <3>2
  <2> HIDE DEF w
  <2>5. CASE Halted(w)
    <3>1. c[1] = w
      BY <1>1, <1>4, <2>5
    <3> QED BY <2>5, <3>1 DEF c
  <2>6. CASE ~Halted(w)
    <3>1. Whole(w, Plus(x, n), Plus(g, n)) /\ SameDisk(v, w)
      BY <2>4, <2>6
    <3>2. SameCalls(T, v) /\ SameKinds(T, v)
      <4>1. ~Halted(v)
        BY <2>6 DEF w, iget
      <4> QED BY <2>3, <4>1
    <3> DEFINE node == [mode |-> mode, size |-> 0, nlinks |-> nlinks, zone |-> w.inode[n].zone]
    <3>3. w \in State /\ w.inode[n].zone \in [Blk -> Zone \cup {0}]
      BY <2>1, <3>1, StateFields DEF Whole
    <3>4. node \in Inode
      BY <3>3 DEF Inode
    <3>5. node.mode = mode /\ node.nlinks = nlinks /\ node.zone = w.inode[n].zone /\ node.size = 0
      OBVIOUS
    <3>6. y = Fill(w, n, node)
      BY DEF Fill
    <3> HIDE DEF node, y
    <3>7. ~IsDir(w, n) /\ IsDir(w, dir) /\ n \in w.imap.bits /\ n # dir
      <4>1. w.inode[n].mode = t.inode[n].mode /\ w.inode[dir].mode = t.inode[dir].mode
        BY <2>1, <2>2, <3>1, <3>2 DEF SameDisk, SameKinds
      <4>2. n \in w.imap.bits
        BY <2>2, <3>1, <3>2 DEF SameDisk, SameCalls
      <4> QED BY <2>2, <4>1, <4>2 DEF IsDir
    <3>8. Whole(y, Plus(x, n), Plus(g, n))
      BY <2>1, <3>1, <3>4, <3>5, <3>6, <3>7, FillKeeps
    <3>9. /\ SameCalls(w, y)
          /\ \A m \in Ino : y.inode[m] = IF m = n THEN node ELSE w.inode[m]
      BY <2>1, <3>3, <3>4, <3>6, FillFields
    <3>10. Plus(g, n) = [l EXCEPT ![n] = 1]
      <4>1. CASE n \in DOMAIN l
        BY <2>21, <4>1, LinkFacts DEF Plus, g
      <4>2. CASE n \notin DOMAIN l
        BY <2>21, <4>2, LinkFacts DEF Plus, g
      <4> QED BY <4>1, <4>2
    <3>11. c[1] = y /\ c[2] = n
      BY <1>1, <1>4, <2>6
    <3>12. Whole(y, Plus(x, n), [l EXCEPT ![n] = 1])
      BY <3>8, <3>10
    <3> HIDE DEF g
    <3>13. IsDir(y, dir) /\ n \in y.imap.bits /\ y.inode[n].mode = mode /\ y.inode[n].nlinks = nlinks
          /\ y.inode[n].size = 0
      BY <2>1, <3>5, <3>7, <3>9 DEF IsDir, SameCalls
    <3>14. \A m \in Ino : m # n => y.inode[m].nlinks = t.inode[m].nlinks
      BY <2>2, <3>1, <3>2, <3>9 DEF SameDisk, SameKinds
    <3>15. y.file = t.file /\ y.pwd = t.pwd
      BY <2>2, <3>1, <3>2, <3>9 DEF SameDisk, SameCalls
    <3>16. Born(t, y, n, dir, x, l, mode, nlinks)
      BY <2>1, <3>7, <3>12, <3>13, <3>14, <3>15 DEF Born
    <3> QED BY <3>11, <3>16 DEF c
  <2> QED BY <2>5, <2>6
<1> QED BY <1>3, <1>4

-----------------------------------------------------------------------------
(* Zones and inodes are freed *)

\* A state that a failed assertion stopped.
Dead(u) == "halt" \in DOMAIN u /\ u.halt # "no"

\* A failed assertion stops the kernel.
LEMMA StopDies ==
  ASSUME NEW t, "halt" \in DOMAIN t, NEW why, why # "no"
  PROVE  Dead(Stop(t, why))
BY DEF Dead, Stop

\* A state says whether the kernel runs.
LEMMA StateDomain ==
  ASSUME NEW t \in State
  PROVE  "halt" \in DOMAIN t
BY DEF State

\* The state without the zones of Z in the map.
Without(t, Z) == [t EXCEPT !.zmap = [t.zmap EXCEPT !.bits = t.zmap.bits \ Z]]

\* What taking zones out of the map changes.
LEMMA WithoutFields ==
  ASSUME NEW t \in State, NEW Z
  PROVE  LET u == Without(t, Z)
         IN  /\ u \in State /\ u.zmap.bits = t.zmap.bits \ Z /\ u.zmap.offset = t.zmap.offset
             /\ u.zmap.length = t.zmap.length /\ SameCalls(t, u) /\ u.inode = t.inode
             /\ u.block = t.block
<1> DEFINE zm == [t.zmap EXCEPT !.bits = t.zmap.bits \ Z]
<1>1. t.zmap \in Map /\ t.zmap.bits \subseteq Int
  BY StateFields
<1>2. /\ zm \in Map /\ zm.bits = t.zmap.bits \ Z /\ zm.offset = t.zmap.offset
      /\ zm.length = t.zmap.length
  BY <1>1 DEF Map
<1>3. Without(t, Z) = [t EXCEPT !.zmap = zm]
  BY DEF Without
<1> HIDE DEF zm
<1> QED BY <1>2, <1>3 DEF State, SameCalls

\* bfree takes one zone out of the map, or the kernel stops.
LEMMA FreeOne ==
  ASSUME NEW t \in State, NEW Z, NEW z \in Zone
  PROVE  LET u == bfree(Without(t, Z), z)
         IN  Dead(u) \/ u = Without(t, Z \cup {z})
<1> DEFINE v == Without(t, Z)
<1>1. v \in State /\ v.zmap.bits = t.zmap.bits \ Z
  BY WithoutFields
<1>2. Dead(Stop(v, "bfree"))
  BY <1>1, StateDomain, StopDies
<1>3. [v EXCEPT !.zmap = bitmap_set(v.zmap, z, FALSE)] = Without(t, Z \cup {z})
  <2> DEFINE zm == [t.zmap EXCEPT !.bits = t.zmap.bits \ Z]
             zn == [t.zmap EXCEPT !.bits = t.zmap.bits \ (Z \cup {z})]
  <2>1. v = [t EXCEPT !.zmap = zm] /\ v.zmap = zm
    BY DEF Without, State
  <2>2. t.zmap \in Map
    BY StateFields
  <2>3. (t.zmap.bits \ Z) \ {z} = t.zmap.bits \ (Z \cup {z})
    OBVIOUS
  <2>4. bitmap_set(zm, z, FALSE) = zn
    BY <2>2, <2>3 DEF bitmap_set, Map
  <2> HIDE DEF zm, zn
  <2>5. [v EXCEPT !.zmap = zn] = [t EXCEPT !.zmap = zn]
    BY <2>1 DEF State
  <2> QED BY <2>1, <2>4, <2>5 DEF Without, zn
<1>4. bfree(v, z) = IF z >= Zones \/ ~bitmap_test(v.zmap, z) THEN Stop(v, "bfree")
                    ELSE [v EXCEPT !.zmap = bitmap_set(v.zmap, z, FALSE)]
  BY DEF bfree
<1> HIDE DEF v
<1> QED BY <1>2, <1>3, <1>4 DEF v
FreeStep(u, z) == IF Halted(u) \/ z = 0 THEN u ELSE bfree(u, z)

\* The loop of inode_bfree has a value at every block.
LEMMA FreeLoop ==
  ASSUME NEW t, NEW m0, NEW n \in Nat
  PROVE  \E g : g = [i \in 0 .. n |-> IF i = 0 THEN t ELSE FreeStep(g[i - 1], bmap(t, m0, i - 1))]
<1> DEFINE Loop(g, m) == g = [i \in 0 .. m |-> IF i = 0 THEN t ELSE FreeStep(g[i - 1], bmap(t, m0, i - 1))]
           Bad == {m \in Nat : ~ \E g : Loop(g, m)}
<1> SUFFICES ASSUME Bad # {} PROVE FALSE
  OBVIOUS
<1>1. PICK m \in Bad : \A j \in Bad : m <= j
  BY LeastElement
<1>2. CASE m = 0
  <2> DEFINE g == [i \in 0 .. 0 |-> t]
  <2>1. g = [i \in 0 .. 0 |-> IF i = 0 THEN t ELSE FreeStep(g[i - 1], bmap(t, m0, i - 1))]
    OBVIOUS
  <2>2. Loop(g, 0)
    BY <2>1
  <2> QED BY <1>2, <2>2
<1>3. CASE m # 0
  <2>0. m \in Nat
    BY <1>1
  <2>1. m - 1 \in Nat /\ m - 1 \notin Bad
    <3> HIDE DEF Bad
    <3>1. m - 1 \in Nat /\ ~(m <= m - 1)
      BY <1>3, <2>0
    <3> QED BY <1>1, <3>1
  <2>2. PICK g : Loop(g, m - 1)
    BY <2>1
  <2> DEFINE h == [i \in 0 .. m |-> IF i = m THEN FreeStep(g[m - 1], bmap(t, m0, m - 1)) ELSE g[i]]
  <2>3. \A i \in 0 .. m - 1 : h[i] = g[i] /\ g[i] = IF i = 0 THEN t ELSE FreeStep(g[i - 1], bmap(t, m0, i - 1))
    <3> HIDE DEF Bad
    <3> SUFFICES ASSUME NEW i \in 0 .. m - 1
                 PROVE  h[i] = g[i] /\ g[i] = IF i = 0 THEN t ELSE FreeStep(g[i - 1], bmap(t, m0, i - 1))
      OBVIOUS
    <3>1. i \in 0 .. m /\ i # m
      BY <2>0, <2>1
    <3>2. h[i] = g[i]
      BY <3>1
    <3>3. g[i] = IF i = 0 THEN t ELSE FreeStep(g[i - 1], bmap(t, m0, i - 1))
      BY <2>2
    <3> QED BY <3>2, <3>3
  <2>4. \A i \in 0 .. m : h[i] = IF i = 0 THEN t ELSE FreeStep(h[i - 1], bmap(t, m0, i - 1))
    <3> SUFFICES ASSUME NEW i \in 0 .. m
                 PROVE  h[i] = IF i = 0 THEN t ELSE FreeStep(h[i - 1], bmap(t, m0, i - 1))
      OBVIOUS
    <3>1. CASE i = m
      <4> HIDE DEF Bad
      <4>1. m - 1 \in 0 .. m - 1 /\ m \in 0 .. m
        BY <2>0, <2>1
      <4>2. h[m - 1] = g[m - 1]
        BY <2>3, <4>1
      <4>3. h[m] = FreeStep(g[m - 1], bmap(t, m0, m - 1))
        BY <4>1
      <4> QED BY <1>3, <3>1, <4>2, <4>3
    <3>2. CASE i # m
      <4>1. i \in 0 .. m - 1 /\ (i # 0 => i - 1 \in 0 .. m - 1)
        BY <3>2
      <4> QED BY <2>3, <4>1
    <3> QED BY <3>1, <3>2
  <2>5. Loop(h, m)
    BY <2>4
  <2> QED BY <2>5
<1> QED BY <1>2, <1>3

\* The zones of the first b blocks of inode n.
ZonesOf(t, n, b) == {t.inode[n].zone[c] : c \in 0 .. b - 1} \ {0}

\* The loop of inode_bfree takes the zones of the inode out of the map.
LEMMA ZonesFreedFacts ==
  ASSUME NEW t \in State, NEW n \in Ino
  PROVE  LET u == ZonesFreed(t, n)[Direct]
         IN  Dead(u) \/ u = Without(t, ZonesOf(t, n, Direct))
<1> DEFINE f == CHOOSE g : g = [i \in 0 .. Direct |-> IF i = 0 THEN t ELSE FreeStep(g[i - 1], bmap(t, n, i - 1))]
<1>0. Direct \in Nat /\ Direct >= 1
  BY Sizes
<1>1. f = [i \in 0 .. Direct |-> IF i = 0 THEN t ELSE FreeStep(f[i - 1], bmap(t, n, i - 1))]
  BY <1>0, FreeLoop, ZenonT(40)
<1>2. ZonesFreed(t, n) = f
  BY DEF ZonesFreed, FreeStep
<1> HIDE DEF f
<1>3. f[0] = t /\ \A i \in 1 .. Direct : f[i] = FreeStep(f[i - 1], bmap(t, n, i - 1))
  BY <1>0, <1>1
<1> DEFINE Right(m) == Dead(f[m]) \/ f[m] = Without(t, ZonesOf(t, n, m))
           Bad == {m \in 0 .. Direct : ~ Right(m)}
<1>4. Right(0)
  <2>1. ZonesOf(t, n, 0) = {}
    BY DEF ZonesOf
  <2>2. Without(t, {}) = t
    <3>1. [t.zmap EXCEPT !.bits = t.zmap.bits \ {}] = t.zmap
      BY StateFields DEF Map
    <3> QED BY <3>1 DEF Without, State
  <2> QED BY <1>3, <2>1, <2>2
<1>5. ASSUME NEW m \in 1 .. Direct, Right(m - 1) PROVE Right(m)
  <2> DEFINE z == bmap(t, n, m - 1)
             Z == ZonesOf(t, n, m - 1)
  <2>1. f[m] = FreeStep(f[m - 1], z)
    BY <1>3, <1>5
  <2>2. z \in Zone \cup {0} /\ z = t.inode[n].zone[m - 1]
    <3>1. m - 1 \in Blk
      BY <1>0 DEF Blk
    <3> QED BY <3>1, StateFields DEF bmap
  <2>3. ZonesOf(t, n, m) = IF z = 0 THEN Z ELSE Z \cup {z}
    <3>1. 0 .. m - 1 = (0 .. m - 1 - 1) \cup {m - 1}
      BY <1>0
    <3>2. \A y : y \in {t.inode[n].zone[c] : c \in 0 .. m - 1} <=>
                 y \in {t.inode[n].zone[c] : c \in 0 .. m - 1 - 1} \/ y = z
      BY <2>2, <3>1
    <3> HIDE DEF z
    <3> QED BY <3>2 DEF ZonesOf
  <2> HIDE DEF z, Z
  <2>4. CASE Dead(f[m - 1])
    BY <2>1, <2>4 DEF FreeStep, Dead, Halted
  <2>5. CASE f[m - 1] = Without(t, Z)
    <3>1. Without(t, Z) \in State
      BY WithoutFields
    <3>2. ~Halted(f[m - 1])
      BY <2>5, <3>1, StateFields DEF Halted
    <3>3. CASE z = 0
      BY <2>1, <2>3, <2>5, <3>3 DEF FreeStep
    <3>4. CASE z # 0
      <4>1. f[m] = bfree(Without(t, Z), z)
        BY <2>1, <2>5, <3>2, <3>4 DEF FreeStep
      <4>2. Dead(f[m]) \/ f[m] = Without(t, Z \cup {z})
        BY <2>2, <3>4, <4>1, FreeOne
      <4> QED BY <2>3, <3>4, <4>2
    <3> QED BY <3>3, <3>4
  <2> QED BY <1>5, <2>4, <2>5 DEF Z
<1> HIDE DEF Right
<1>6. Bad = {}
  <2> SUFFICES ASSUME Bad # {} PROVE FALSE
    OBVIOUS
  <2>0. Bad \in SUBSET Nat
    BY <1>0
  <2>1. PICK m \in Bad : \A j \in Bad : m <= j
    BY <2>0, LeastElement
  <2>2. m # 0
    BY <1>4, <2>1
  <2>3. m \in 1 .. Direct /\ m - 1 \in 0 .. Direct
    BY <1>0, <2>1, <2>2
  <2>4. Right(m - 1)
    <3>1. m - 1 \notin Bad
      BY <2>1, <2>3
    <3> QED BY <2>3, <3>1
  <2>6. Right(m)
    BY <1>5, <2>3, <2>4
  <2> QED BY <2>1, <2>6
<1>7. Right(Direct)
  BY <1>0, <1>6
<1> QED BY <1>2, <1>7 DEF Right

\* Inode n without its zones.
Emptied(t, n) ==
  Fill(Without(t, ZonesOf(t, n, Direct)), n,
       [t.inode[n] EXCEPT !.zone = NoInode.zone, !.size = 0])

\* What emptying an inode changes.
LEMMA EmptiedFields ==
  ASSUME NEW t \in State, NEW n \in Ino
  PROVE  LET u == Emptied(t, n)
         IN  /\ u \in State /\ SameCalls(t, u) /\ SameKinds(t, u) /\ u.block = t.block
             /\ u.zmap.bits = t.zmap.bits \ ZonesOf(t, n, Direct)
             /\ u.zmap.offset = t.zmap.offset /\ u.zmap.length = t.zmap.length
             /\ \A m \in Ino : m # n => u.inode[m] = t.inode[m]
             /\ \A b \in Blk : u.inode[n].zone[b] = 0
<1> DEFINE v == Without(t, ZonesOf(t, n, Direct))
           node == [t.inode[n] EXCEPT !.zone = NoInode.zone, !.size = 0]
           u == Emptied(t, n)
<1>1. /\ v \in State /\ v.zmap.bits = t.zmap.bits \ ZonesOf(t, n, Direct)
      /\ v.zmap.offset = t.zmap.offset
      /\ v.zmap.length = t.zmap.length /\ SameCalls(t, v) /\ v.inode = t.inode
      /\ v.block = t.block
  BY WithoutFields
<1>2. NoInode.zone \in [Blk -> Zone \cup {0}] /\ \A b \in Blk : NoInode.zone[b] = 0
  BY DEF NoInode, Blk
<1>3. t.inode[n] \in Inode
  BY StateFields
<1>4. /\ node \in Inode /\ node.zone = NoInode.zone /\ node.mode = t.inode[n].mode
      /\ node.nlinks = t.inode[n].nlinks
  BY <1>2, <1>3 DEF Inode
<1>5. u = Fill(v, n, node)
  BY DEF Emptied
<1> HIDE DEF v, node, u
<1>6. /\ u \in State /\ SameCalls(v, u) /\ u.zmap = v.zmap /\ u.block = v.block
      /\ \A m \in Ino : u.inode[m] = IF m = n THEN node ELSE v.inode[m]
  BY <1>1, <1>4, <1>5, FillFields
<1>7. SameCalls(t, u)
  BY <1>1, <1>6 DEF SameCalls
<1>8. SameKinds(t, u)
  BY <1>1, <1>4, <1>6 DEF SameKinds
<1>9. (\A m \in Ino : m # n => u.inode[m] = t.inode[m]) /\ \A b \in Blk : u.inode[n].zone[b] = 0
  BY <1>1, <1>2, <1>4, <1>6
<1> QED BY <1>1, <1>6, <1>7, <1>8, <1>9 DEF u

\* An inode gives its zones up, and nobody else had them.
LEMMA EmptiedKeeps ==
  ASSUME NEW t, NEW x, NEW l, Whole(t, x, l), NEW n \in Ino
  PROVE  Whole(Emptied(t, n), x, l)
<1> DEFINE u == Emptied(t, n)
           Z == ZonesOf(t, n, Direct)
<1>1. t \in State /\ Zoned(t) /\ Clean(t) /\ Counted(t, x) /\ Covered(t, l)
  BY DEF Whole
<1>2. /\ u \in State /\ SameCalls(t, u) /\ SameKinds(t, u) /\ u.block = t.block
      /\ u.zmap.bits = t.zmap.bits \ Z
      /\ u.zmap.offset = t.zmap.offset /\ u.zmap.length = t.zmap.length
      /\ \A m \in Ino : m # n => u.inode[m] = t.inode[m]
      /\ \A b \in Blk : u.inode[n].zone[b] = 0
  BY <1>1, EmptiedFields
<1>3. \A z : z \in Z <=> z # 0 /\ \E b \in Blk : z = t.inode[n].zone[b]
  BY DEF ZonesOf, Blk
<1> HIDE DEF u, Z
<1>4. Zoned(u)
  <2>1. FirstZone - 1 \in u.zmap.bits
    <3>1. FirstZone - 1 \notin Z
      BY <1>1, <1>3, StateFields, Sizes
    <3> QED BY <1>1, <1>2, <3>1 DEF Zoned
  <2>2. ASSUME NEW m \in Ino, NEW c \in Blk, u.inode[m].zone[c] # 0
        PROVE  u.inode[m].zone[c] \in u.zmap.bits
    <3>1. m # n /\ u.inode[m].zone[c] = t.inode[m].zone[c]
      BY <1>2, <2>2
    <3>2. t.inode[m].zone[c] \notin Z
      BY <1>1, <1>3, <2>2, <3>1 DEF Zoned
    <3> QED BY <1>1, <1>2, <2>2, <3>1, <3>2 DEF Zoned
  <2>3. ASSUME NEW y \in u.zmap.bits, y # FirstZone - 1
        PROVE  y # 0 /\ \E m \in Ino, c \in Blk : u.inode[m].zone[c] = y
    <3>1. y \in t.zmap.bits /\ y \notin Z
      BY <1>2
    <3>2. y # 0 /\ \E m \in Ino, c \in Blk : t.inode[m].zone[c] = y
      BY <1>1, <2>3, <3>1 DEF Zoned
    <3>3. PICK m \in Ino, c \in Blk : t.inode[m].zone[c] = y
      BY <3>2
    <3>4. m # n
      BY <1>3, <3>1, <3>2, <3>3
    <3> QED BY <1>2, <3>2, <3>3, <3>4
  <2>4. ASSUME NEW m \in Ino, NEW o \in Ino, NEW c \in Blk, NEW d \in Blk,
               u.inode[m].zone[c] # 0, u.inode[m].zone[c] = u.inode[o].zone[d]
        PROVE  m = o /\ c = d
    <3>1. m # n /\ o # n
      BY <1>2, <2>4
    <3>2. t.inode[m].zone[c] # 0 /\ t.inode[m].zone[c] = t.inode[o].zone[d]
      BY <1>2, <2>4, <3>1
    <3> QED BY <1>1, <3>2 DEF Zoned
  <2>5. u.zmap.offset = FirstZone - 1 /\ u.zmap.length = Zones - FirstZone + 1
    BY <1>1, <1>2 DEF Zoned
  <2> QED BY <2>1, <2>2, <2>3, <2>4, <2>5 DEF Zoned
<1>5. \A m \in Ino : IsDir(u, m) <=> IsDir(t, m)
  BY <1>2, SMTT(30) DEF SameKinds, IsDir
<1>6. Clean(u)
  <2>2. 0 \in u.imap.bits /\ \A m \in Ino : IsDir(u, m) => m \in u.imap.bits
    BY <1>1, <1>2, <1>5 DEF Clean, SameCalls
  <2>3. IsDir(u, Root) /\ \A p \in Proc : IsDir(u, u.pwd[p])
    BY <1>1, <1>2, <1>5, Sizes, StateFields, ZenonT(40) DEF Clean, SameCalls
  <2> QED BY <2>2, <2>3 DEF Clean
<1>7. Counted(u, x)
  BY <1>1, <1>2 DEF Counted, SameCalls
<1>8. \A k \in Ino : NamingIn(u, k) \subseteq NamingIn(t, k)
  <2> SUFFICES ASSUME NEW k \in Ino, NEW m \in Ino, NEW i \in Slot, <<m, i>> \in NamingIn(u, k)
               PROVE  <<m, i>> \in NamingIn(t, k)
    BY DEF NamingIn
  <2>1. IsDir(u, m) /\ i < u.inode[m].size /\ Raw(u, m)[i].ino = k
    BY DEF NamingIn
  <2>2. m # n
    <3> SUFFICES ASSUME m = n PROVE FALSE
      OBVIOUS
    <3>1. Raw(u, m) = Blank
      BY <1>2, Sizes DEF Raw, bmap
    <3> QED BY <2>1, <3>1, BlankFacts
  <2>3. Raw(u, m) = Raw(t, m)
    BY <1>2, <2>2 DEF Raw, bmap
  <2> QED BY <1>2, <1>5, <2>1, <2>2, <2>3 DEF NamingIn
<1>9. Covered(u, l)
  <2>1. l \in LinkTally /\ DOMAIN l \subseteq Ino
    BY LinkFacts DEF Whole
  <2>2. t.imap.bits \subseteq u.imap.bits
    BY <1>2 DEF SameCalls
  <2> QED BY <1>1, <1>8, <2>1, <2>2, FewerNames
<1> QED BY <1>2, <1>4, <1>6, <1>7, <1>9 DEF Whole, SameCalls, u

\* inode_truncate empties the inode, or the kernel stops.
LEMMA inode_truncateKeeps ==
  ASSUME NEW t, NEW x, NEW l, Whole(t, x, l), NEW n \in Ino
  PROVE  LET u == inode_truncate(t, n)
         IN  Dead(u) \/ (Whole(u, x, l) /\ SameCalls(t, u) /\ SameKinds(t, u))
<1>1. t \in State /\ ~Halted(t)
  BY StateFields DEF Whole, Halted
<1>2. CASE t.inode[n].mode = "none"
  BY <1>1, <1>2 DEF inode_truncate, SameCalls, SameKinds
<1>3. CASE t.inode[n].mode # "none"
  <2> DEFINE v == ZonesFreed(t, n)[Direct]
             u == inode_truncate(t, n)
  <2>1. Dead(v) \/ v = Without(t, ZonesOf(t, n, Direct))
    BY <1>1, ZonesFreedFacts
  <2>2. u = [v EXCEPT !.inode[n].zone = NoInode.zone, !.inode[n].size = 0]
    BY <1>1, <1>3 DEF inode_truncate
  <2> HIDE DEF v, u
  <2>3. CASE Dead(v)
    <3>1. Dead(u)
      BY <2>2, <2>3 DEF Dead
    <3> QED BY <3>1 DEF u
  <2>4. CASE v = Without(t, ZonesOf(t, n, Direct))
    <3>1. v \in State /\ v.inode = t.inode
      BY <1>1, <2>4, WithoutFields
    <3>2. v.inode \in [Ino -> Inode] /\ v.inode[n] \in Inode
      BY <3>1, StateFields
    <3> DEFINE zz == NoInode.zone
    <3>3. u = [v EXCEPT !.inode[n].zone = zz, !.inode[n].size = 0]
      BY <2>2
    <3> HIDE DEF zz
    <3>4. u = Fill(v, n, [v.inode[n] EXCEPT !.zone = zz, !.size = 0])
      BY <3>1, <3>2, <3>3 DEF Fill, State, Inode
    <3>5. u = Emptied(t, n)
      BY <2>4, <3>1, <3>4 DEF Emptied, zz
    <3>6. Whole(u, x, l)
      BY <3>5, EmptiedKeeps
    <3>7. SameCalls(t, u) /\ SameKinds(t, u)
      BY <1>1, <3>5, EmptiedFields
    <3> QED BY <3>6, <3>7 DEF u
  <2> QED BY <2>1, <2>3, <2>4
<1> QED BY <1>2, <1>3

\* ifree does not wake a stopped kernel.
LEMMA ifreeDies ==
  ASSUME NEW t, NEW n, Dead(t)
  PROVE  Dead(ifree(t, n))
<1>1. Dead(Stop(t, "ifree"))
  BY StopDies DEF Dead
<1>2. Dead([t EXCEPT !.imap = bitmap_set(@, n, FALSE)])
  BY DEF Dead
<1> QED BY <1>1, <1>2 DEF ifree

\* An inode without names, if they are counted, may leave the map.
LEMMA ifreeKeeps ==
  ASSUME NEW t, NEW x, NEW l, Whole(t, x, l), NEW n \in Ino, ~IsDir(t, n),
         n \in DOMAIN l => l[n] = 0
  PROVE  LET u == ifree(t, n)
         IN  Dead(u) \/ (Whole(u, x, l) /\ u.inode = t.inode /\ u.file = t.file /\ u.pwd = t.pwd)
<1> DEFINE im == bitmap_set(t.imap, n, FALSE)
           v == [t EXCEPT !.imap = im]
<1>1. t \in State /\ Zoned(t) /\ Clean(t) /\ Counted(t, x) /\ Covered(t, l) /\ l \in LinkTally
      /\ t.imap \in Map /\ t.imap.bits \subseteq Int /\ t.imap.offset = 0 /\ t.imap.length = Inodes + 1
  BY StateFields DEF Whole
<1>2. Dead(Stop(t, "ifree"))
  BY <1>1, StateDomain, StopDies
<1>3. ifree(t, n) = IF n >= Inodes \/ ~bitmap_test(t.imap, n) THEN Stop(t, "ifree") ELSE v
  BY DEF ifree
<1>4. /\ im \in Map /\ im.bits = t.imap.bits \ {n} /\ im.offset = t.imap.offset
      /\ im.length = t.imap.length
  BY <1>1 DEF Map, bitmap_set
<1> HIDE DEF im
<1>5. /\ v \in State /\ v.imap = im /\ v.inode = t.inode /\ v.zmap = t.zmap /\ v.block = t.block
      /\ v.count = t.count /\ v.pwd = t.pwd /\ v.file = t.file
  BY <1>1, <1>4 DEF State
<1> HIDE DEF v
<1>6. Zoned(v) /\ Counted(v, x)
  BY <1>1, <1>5 DEF Zoned, Counted
<1>7. Clean(v)
  <2>1. 0 # n
    BY Sizes DEF NoIno
  <2>2. \A m \in Ino : IsDir(v, m) <=> IsDir(t, m)
    BY <1>5 DEF IsDir
  <2>3. 0 \in v.imap.bits /\ \A m \in Ino : IsDir(v, m) => m \in v.imap.bits
    BY <1>1, <1>4, <1>5, <2>1, <2>2 DEF Clean
  <2> QED BY <1>1, <1>5, <2>3 DEF Clean, IsDir
<1>8. \A k : NamingIn(v, k) = NamingIn(t, k)
  BY <1>5 DEF NamingIn, Raw, bmap, IsDir
<1>9. n \in DOMAIN l => NamingIn(t, n) = {}
  <2>1. n \in DOMAIN l => Cardinality(NamingIn(t, n)) <= 0
    BY <1>1 DEF Covered
  <2>2. IsFiniteSet(NamingIn(t, n)) /\ Cardinality(NamingIn(t, n)) \in Nat
    BY NamingFinite
  <2> QED BY <2>1, <2>2, FS_EmptySet
<1>10. Covered(v, l)
  BY <1>1, <1>4, <1>5, <1>8, <1>9 DEF Covered
<1>11. Whole(v, x, l)
  BY <1>1, <1>4, <1>5, <1>6, <1>7, <1>10 DEF Whole
<1> QED BY <1>2, <1>3, <1>5, <1>11

-----------------------------------------------------------------------------
(* Writing *)

\* An offset in the file is in one of its blocks.
LEMMA DivBound ==
  ASSUME NEW y \in Nat, NEW D \in Nat, NEW P \in Nat, P >= 2, y < D * P
  PROVE  y \div P < D /\ y \div P \in Nat
<1> DEFINE q == y \div P
<1>1. q \in Int /\ y = P * q + (y % P) /\ y % P \in Nat
  OBVIOUS
<1>2. q \in Nat
  OBVIOUS
<1> HIDE DEF q
<1>3. ASSUME q >= D PROVE FALSE
  <2>1. q - D \in Nat
    BY <1>1, <1>3
  <2>2. (q - D) * P \in Nat
    BY <2>1
  <2>3. (q - D) * P = P * q - D * P
    BY <1>1
  <2>4. P * q \in Int /\ D * P \in Int
    BY <1>1
  <2> QED BY <1>1, <2>2, <2>3, <2>4
<1> QED BY <1>2, <1>3 DEF q

\* A later offset is in a later block.
LEMMA DivGrows ==
  ASSUME NEW y \in Nat, NEW z \in Nat, NEW P \in Nat, P >= 2, y <= z
  PROVE  y \div P <= z \div P
<1> DEFINE q == y \div P
           r == z \div P
<1>1. /\ q \in Int /\ y = P * q + (y % P) /\ y % P \in Nat
      /\ r \in Int /\ z = P * r + (z % P) /\ z % P \in 0 .. P - 1
  OBVIOUS
<1> HIDE DEF q, r
<1>2. ASSUME q > r PROVE FALSE
  <2>1. q - r - 1 \in Nat
    BY <1>1, <1>2
  <2>2. (q - r - 1) * P \in Nat
    BY <2>1
  <2>3. (q - r - 1) * P = P * q - P * r - P
    BY <1>1
  <2>4. P * q \in Int /\ P * r \in Int
    BY <1>1
  <2> QED BY <1>1, <2>2, <2>3, <2>4
<1> QED BY <1>1, <1>2 DEF q, r

\* A block of a file is written, whatever with: no directory reads it.
LEMMA FileBlockKeeps ==
  ASSUME NEW t, NEW x, NEW l, Whole(t, x, l), NEW n \in Ino, ~IsDir(t, n), NEW b \in Blk,
         t.inode[n].zone[b] \in Zone, NEW e \in [Slot -> Entry]
  PROVE  LET u == [t EXCEPT !.block = [t.block EXCEPT ![t.inode[n].zone[b]] = e]]
         IN  Whole(u, x, l) /\ SameCalls(t, u) /\ u.inode = t.inode
<1> DEFINE z == t.inode[n].zone[b]
           nb == [t.block EXCEPT ![z] = e]
           u == [t EXCEPT !.block = nb]
<1>1. t \in State /\ Zoned(t) /\ Clean(t) /\ Counted(t, x) /\ Covered(t, l)
      /\ t.block \in [Zone -> [Slot -> Entry]]
  BY StateFields DEF Whole
<1> HIDE DEF z
<1>2. nb \in [Zone -> [Slot -> Entry]] /\ \A y \in Zone : nb[y] = IF y = z THEN e ELSE t.block[y]
  BY <1>1
<1> HIDE DEF nb
<1>3. u \in State /\ SameCalls(t, u) /\ u.inode = t.inode /\ u.block = nb /\ u.zmap = t.zmap
  BY <1>1, <1>2 DEF State, SameCalls
<1> HIDE DEF u
<1>4. \A m \in Ino, c \in Blk : t.inode[m].zone[c] \in Zone \cup {0}
  BY <1>1, StateFields
<1>5. \A m \in Ino, c \in Blk : t.inode[m].zone[c] = z => m = n /\ c = b
  <2>1. z # 0 /\ z = t.inode[n].zone[b]
    BY Sizes DEF z
  <2> QED BY <1>1, <2>1 DEF Zoned
<1>6. Zoned(u) /\ Counted(u, x)
  BY <1>1, <1>3 DEF Zoned, Counted, SameCalls
<1>7. \A m \in Ino : IsDir(u, m) <=> IsDir(t, m)
  BY <1>3, SMTT(30) DEF IsDir
<1>8. Clean(u)
  <2>2. 0 \in u.imap.bits /\ \A m \in Ino : IsDir(u, m) => m \in u.imap.bits
    BY <1>1, <1>3, <1>7, SMTT(30) DEF Clean, SameCalls
  <2>3. IsDir(u, Root) /\ \A p \in Proc : IsDir(u, u.pwd[p])
    BY <1>1, <1>3, <1>7, Sizes, StateFields, ZenonT(40) DEF Clean, SameCalls
  <2> QED BY <2>2, <2>3 DEF Clean
<1>9. \A m \in Ino : IsDir(t, m) => Raw(u, m) = Raw(t, m)
  <2> SUFFICES ASSUME NEW m \in Ino, IsDir(t, m) PROVE Raw(u, m) = Raw(t, m)
    OBVIOUS
  <2>1. 0 \in Blk
    BY Sizes
  <2>2. t.inode[m].zone[0] # z
    BY <1>5, <2>1
  <2>3. t.inode[m].zone[0] # 0 => u.block[t.inode[m].zone[0]] = t.block[t.inode[m].zone[0]]
    BY <1>2, <1>3, <1>4, <2>1, <2>2
  <2> QED BY <1>3, <2>3 DEF Raw, bmap
<1>10. Covered(u, l)
  <2>1. u.imap.bits = t.imap.bits
    BY <1>3 DEF SameCalls
  <2> QED BY <1>1, <1>3, <1>7, <1>9, <2>1, SameNames
<1>11. Whole(u, x, l)
  BY <1>3, <1>6, <1>8, <1>10 DEF Whole, SameCalls
<1> QED BY <1>3, <1>11 DEF u, nb, z

\* A block of a file after a write.
Scribbled(e, b, len, offset, word) ==
  [i \in 0 .. PerBlock - 1 |-> IF b * PerBlock + i \in offset .. offset + len - 1 THEN word ELSE e[i]]

WriteBlock(u, n, b, len, offset, word) ==
  IF Halted(u) THEN u
  ELSE [u EXCEPT !.block = [u.block EXCEPT ![bmap(u, n, b)] =
                              Scribbled(u.block[bmap(u, n, b)], b, len, offset, word)]]

WriteStep(u, n, b, len, offset, word) == WriteBlock(bmap_create(u, n, b), n, b, len, offset, word)

\* One block is written.
LEMMA WriteStepKeeps ==
  ASSUME NEW t, NEW x, NEW l, Whole(t, x, l), NEW n \in Ino, ~IsDir(t, n), NEW b \in Blk,
         NEW len, NEW offset, NEW word \in Entry
  PROVE  LET u == WriteStep(t, n, b, len, offset, word)
         IN  Halted(u) \/ (Whole(u, x, l) /\ SameKinds(t, u))
<1> DEFINE v == bmap_create(t, n, b)
           u == WriteStep(t, n, b, len, offset, word)
           z == v.inode[n].zone[b]
           e == Scribbled(v.block[z], b, len, offset, word)
<1>1. Halted(v) \/ (Whole(v, x, l) /\ SameKinds(t, v) /\ z \in Zone)
  BY bmap_createKeeps
<1>2. u = IF Halted(v) THEN v ELSE [v EXCEPT !.block = [v.block EXCEPT ![z] = e]]
  BY DEF WriteStep, WriteBlock, bmap
<1> HIDE DEF v, u
<1>3. CASE Halted(v)
  BY <1>2, <1>3 DEF u
<1>4. CASE ~Halted(v)
  <2>1. Whole(v, x, l) /\ SameKinds(t, v) /\ z \in Zone
    BY <1>1, <1>4
  <2>2. ~IsDir(v, n)
    BY <2>1 DEF SameKinds, IsDir
  <2>3. v \in State /\ v.block \in [Zone -> [Slot -> Entry]]
    BY <2>1, StateFields, SMTT(30) DEF Whole
  <2>5. v.block[z] \in [Slot -> Entry]
    BY <2>1, <2>3
  <2> HIDE DEF z
  <2>6. e \in [Slot -> Entry]
    BY <2>5 DEF Scribbled, Slot
  <2> HIDE DEF e
  <2>7. Whole(u, x, l) /\ u.inode = v.inode
    BY <1>2, <1>4, <2>1, <2>2, <2>6, FileBlockKeeps DEF z
  <2>8. SameKinds(t, u)
    BY <2>1, <2>7 DEF SameKinds
  <2> QED BY <2>7, <2>8 DEF u
<1> QED BY <1>3, <1>4

\* A stopped kernel writes nothing.
LEMMA WriteStepHalted ==
  ASSUME NEW t, Halted(t), NEW n, NEW b, NEW len, NEW offset, NEW word
  PROVE  Halted(WriteStep(t, n, b, len, offset, word))
BY DEF WriteStep, WriteBlock, bmap_create

WriteRun(g, a, node, first, len, offset, word, n) ==
  g = [i \in 0 .. n |-> IF i = 0 THEN a ELSE WriteStep(g[i - 1], node, first + i - 1, len, offset, word)]

\* The loop of inode_write has a value at every block.
LEMMA WriteLoop ==
  ASSUME NEW a, NEW node, NEW first, NEW len, NEW offset, NEW word, NEW n \in Nat
  PROVE  \E g : WriteRun(g, a, node, first, len, offset, word, n)
<1> DEFINE Loop(g, m) == WriteRun(g, a, node, first, len, offset, word, m)
           Bad == {m \in Nat : ~ \E g : Loop(g, m)}
<1> SUFFICES ASSUME Bad # {} PROVE FALSE
  OBVIOUS
<1>1. PICK m \in Bad : \A j \in Bad : m <= j
  BY LeastElement
<1>2. CASE m = 0
  <2> DEFINE g == [i \in 0 .. 0 |-> a]
  <2>1. g = [i \in 0 .. 0 |-> IF i = 0 THEN a ELSE WriteStep(g[i - 1], node, first + i - 1, len, offset, word)]
    OBVIOUS
  <2>2. Loop(g, 0)
    BY <2>1 DEF WriteRun
  <2> QED BY <1>2, <2>2
<1>3. CASE m # 0
  <2>0. m \in Nat
    BY <1>1
  <2>1. m - 1 \in Nat /\ m - 1 \notin Bad
    <3> HIDE DEF Bad
    <3>1. m - 1 \in Nat /\ ~(m <= m - 1)
      BY <1>3, <2>0
    <3> QED BY <1>1, <3>1
  <2>2. PICK g : Loop(g, m - 1)
    BY <2>1
  <2> DEFINE h == [i \in 0 .. m |-> IF i = m THEN WriteStep(g[m - 1], node, first + m - 1, len, offset, word) ELSE g[i]]
  <2>3. \A i \in 0 .. m - 1 : h[i] = g[i] /\ g[i] = IF i = 0 THEN a ELSE WriteStep(g[i - 1], node, first + i - 1, len, offset, word)
    <3> HIDE DEF Bad
    <3> SUFFICES ASSUME NEW i \in 0 .. m - 1
                 PROVE  h[i] = g[i] /\ g[i] = IF i = 0 THEN a ELSE WriteStep(g[i - 1], node, first + i - 1, len, offset, word)
      OBVIOUS
    <3>1. i \in 0 .. m /\ i # m
      BY <2>0, <2>1
    <3>2. h[i] = g[i]
      BY <3>1
    <3>3. g[i] = IF i = 0 THEN a ELSE WriteStep(g[i - 1], node, first + i - 1, len, offset, word)
      BY <2>2 DEF WriteRun
    <3> QED BY <3>2, <3>3
  <2>4. \A i \in 0 .. m : h[i] = IF i = 0 THEN a ELSE WriteStep(h[i - 1], node, first + i - 1, len, offset, word)
    <3> SUFFICES ASSUME NEW i \in 0 .. m
                 PROVE  h[i] = IF i = 0 THEN a ELSE WriteStep(h[i - 1], node, first + i - 1, len, offset, word)
      OBVIOUS
    <3>1. CASE i = m
      <4> HIDE DEF Bad
      <4>1. m - 1 \in 0 .. m - 1 /\ m \in 0 .. m
        BY <2>0, <2>1
      <4>2. h[m - 1] = g[m - 1]
        BY <2>3, <4>1
      <4>3. h[m] = WriteStep(g[m - 1], node, first + m - 1, len, offset, word)
        BY <4>1
      <4> QED BY <1>3, <3>1, <4>2, <4>3
    <3>2. CASE i # m
      <4>1. i \in 0 .. m - 1 /\ (i # 0 => i - 1 \in 0 .. m - 1)
        BY <3>2
      <4> QED BY <2>3, <4>1
    <3> QED BY <3>1, <3>2
  <2>5. Loop(h, m)
    BY <2>4 DEF WriteRun
  <2> QED BY <2>5
<1> QED BY <1>2, <1>3

\* inode_write gives zones to the inode and leaves names, links and references alone.
LEMMA inode_writeKeeps ==
  ASSUME NEW t, NEW x, NEW l, Whole(t, x, l), NEW node \in Ino, NEW len \in Nat, NEW offset \in Nat,
         offset + len <= Direct * PerBlock, NEW word \in Entry
  PROVE  LET u == inode_write(t, node, len, offset, word)
         IN  Halted(u) \/ (Whole(u, x, l) /\ SameKinds(t, u))
<1> DEFINE first == offset \div PerBlock
           blocks == IF len = 0 THEN 0 ELSE (offset + len - 1) \div PerBlock - first + 1
           size == t.inode[node].size
           grown == [t EXCEPT !.inode[node].size = IF len + offset > @ THEN len + offset ELSE @]
           f == CHOOSE g : g = [i \in 0 .. blocks |-> IF i = 0 THEN grown
                                  ELSE WriteStep(g[i - 1], node, first + i - 1, len, offset, word)]
           u == inode_write(t, node, len, offset, word)
<1>0. Direct \in Nat /\ PerBlock \in Nat /\ PerBlock >= 2
  BY Sizes
<1>1. t \in State /\ t.inode[node] \in Inode /\ size \in Nat
  BY StateFields DEF Whole
<1>2. blocks \in Nat /\ \A i \in 1 .. blocks : first + i - 1 \in Blk
  <2>1. CASE len = 0
    BY <2>1
  <2>2. CASE len # 0
    <3> DEFINE last == (offset + len - 1) \div PerBlock
    <3>1. offset + len - 1 \in Nat /\ offset <= offset + len - 1 /\ offset + len - 1 < Direct * PerBlock
      <4>1. Direct * PerBlock \in Nat
        BY <1>0
      <4> QED BY <2>2, <4>1
    <3>2. last < Direct /\ last \in Nat
      BY <1>0, <3>1, DivBound
    <3>3. first <= last
      BY <1>0, <3>1, DivGrows
    <3>4. first \in Nat
      BY <1>0
    <3>5. blocks = last - first + 1
      BY <2>2
    <3> HIDE DEF last, first, blocks
    <3> QED BY <1>0, <3>2, <3>3, <3>4, <3>5 DEF Blk
  <2> QED BY <2>1, <2>2
<1>3. CASE IsDir(t, node)
  <2>1. u = Stop(t, "inode_write")
    BY <1>3 DEF inode_write
  <2>2. Halted(u)
    BY <2>1, StopHalts
  <2> QED BY <2>2
<1>4. CASE ~IsDir(t, node)
  <2>1. inode_write(t, node, len, offset, word) = f[blocks]
    BY <1>4 DEF inode_write, WriteStep, WriteBlock, Scribbled
  <2>2. f = [i \in 0 .. blocks |-> IF i = 0 THEN grown
               ELSE WriteStep(f[i - 1], node, first + i - 1, len, offset, word)]
    <3> HIDE DEF grown, first, blocks
    <3>0. blocks \in Nat
      BY <1>2
    <3>1. \E g : WriteRun(g, grown, node, first, len, offset, word, blocks)
      BY <3>0, WriteLoop
    <3> QED BY <3>1 DEF WriteRun
  <2> DEFINE max == IF len + offset > size THEN len + offset ELSE size
             big == [t.inode[node] EXCEPT !.size = max]
  <2>3. grown = Fill(t, node, big)
    BY <1>1 DEF Fill, State
  <2>4. max \in Nat
    BY <1>1
  <2> HIDE DEF max
  <2>5. /\ big \in Inode /\ big.zone = t.inode[node].zone /\ big.mode = t.inode[node].mode
        /\ big.nlinks = t.inode[node].nlinks /\ big.mode # "dir"
    BY <1>1, <1>4, <2>4 DEF Inode, IsDir
  <2> HIDE DEF big, grown, f, blocks, first
  <2>6. Whole(grown, x, l)
    BY <2>3, <2>5, FillKeeps
  <2>7. SameKinds(t, grown)
    <3>1. \A m \in Ino : grown.inode[m] = IF m = node THEN big ELSE t.inode[m]
      BY <1>1, <2>3, <2>5, FillFields
    <3> QED BY <2>5, <3>1 DEF SameKinds
  <2>8. f[0] = grown /\ \A i \in 1 .. blocks : f[i] = WriteStep(f[i - 1], node, first + i - 1, len, offset, word)
    BY <1>2, <2>2
  <2> DEFINE Right(m) == Halted(f[m]) \/ (Whole(f[m], x, l) /\ SameKinds(t, f[m]))
             Bad == {m \in 0 .. blocks : ~ Right(m)}
  <2>9. Right(0)
    BY <2>6, <2>7, <2>8
  <2>10. ASSUME NEW m \in 1 .. blocks, Right(m - 1) PROVE Right(m)
    <3>1. f[m] = WriteStep(f[m - 1], node, first + m - 1, len, offset, word)
      BY <2>8, <2>10
    <3>2. CASE Halted(f[m - 1])
      BY <3>1, <3>2, WriteStepHalted
    <3>3. CASE ~Halted(f[m - 1])
      <4>1. Whole(f[m - 1], x, l) /\ SameKinds(t, f[m - 1])
        BY <2>10, <3>3
      <4>2. ~IsDir(f[m - 1], node) /\ first + m - 1 \in Blk
        BY <1>2, <1>4, <2>10, <4>1 DEF SameKinds, IsDir
      <4>3. Halted(f[m]) \/ (Whole(f[m], x, l) /\ SameKinds(f[m - 1], f[m]))
        BY <3>1, <4>1, <4>2, WriteStepKeeps
      <4> QED BY <4>1, <4>3 DEF SameKinds
    <3> QED BY <3>2, <3>3
  <2> HIDE DEF Right
  <2>11. Bad = {}
    <3> SUFFICES ASSUME Bad # {} PROVE FALSE
      OBVIOUS
    <3>0. Bad \in SUBSET Nat
      BY <1>2
    <3>1. PICK m \in Bad : \A j \in Bad : m <= j
      BY <3>0, LeastElement
    <3>2. m # 0
      BY <2>9, <3>1
    <3>3. m \in 1 .. blocks /\ m - 1 \in 0 .. blocks
      BY <1>2, <3>1, <3>2
    <3>4. Right(m - 1)
      <4>1. m - 1 \notin Bad
        BY <3>1, <3>3
      <4> QED BY <3>3, <4>1
    <3>5. Right(m)
      BY <2>10, <3>3, <3>4
    <3> QED BY <3>1, <3>5
  <2>12. Right(blocks)
    BY <1>2, <2>11
  <2> QED BY <2>1, <2>12 DEF Right
<1> QED BY <1>3, <1>4

-----------------------------------------------------------------------------
(* The calls on names *)

\* Paths are sequences of names, and the last of them is a name.
LEMMA PathFacts ==
  ASSUME NEW path \in Paths \cup DirPaths
  PROVE  /\ Len(path.names) \in Nat /\ filename(path) \in Name
         /\ Len(path.names) = 0 => path.names = << >>
         /\ path.names # << >> => filename(path) # NoName
         /\ path.names = << >> => filename(path) = NoName
<1>1. path.names \in Seq(STRING \ {""})
  BY MinixAssumption
<1> DEFINE q == path.names
           V == STRING \ {""}
<1>2. q \in Seq(V)
  BY <1>1
<1> HIDE DEF q, V
<1>3. Len(q) \in Nat /\ (Len(q) = 0 => q = << >>)
  BY <1>2
<1>4. q # << >> => Last(q) \in V
  BY <1>2 DEF Last
<1>5. filename(path) = IF q = << >> THEN "" ELSE Last(q)
  BY DEF filename, NoName, q
<1>6. "" \in Name
  BY DEF Name
<1>7. filename(path) \in Name /\ (q # << >> => filename(path) # "") /\ (q = << >> => filename(path) = "")
  BY <1>4, <1>5, <1>6 DEF Name, V
<1> QED BY <1>3, <1>7 DEF q, NoName

\* The two references of a call are given back.
LEMMA GiveBack ==
  ASSUME NEW t, NEW x \in Tally, NEW l, NEW a \in Ino, NEW b \in Ino,
         Whole(t, Plus(Plus(x, a), b), l)
  PROVE  /\ LET u == iput(iput(t, b), a)
            IN  Halted(u) \/ (Whole(u, x, l) /\ SameDisk(t, u))
         /\ LET u == iput(iput(t, a), b)
            IN  Halted(u) \/ (Whole(u, x, l) /\ SameDisk(t, u))
<1>1. Plus(x, a) \in Tally /\ Plus(x, b) \in Tally
  BY PlusFacts
<1>2. Whole(t, Plus(Plus(x, b), a), l)
  BY PlusSwap
<1>3. ASSUME NEW c \in Ino, NEW d \in Ino, Whole(t, Plus(Plus(x, c), d), l), Plus(x, c) \in Tally
      PROVE  LET u == iput(iput(t, d), c)
             IN  Halted(u) \/ (Whole(u, x, l) /\ SameDisk(t, u))
  <2> DEFINE v == iput(t, d)
             u == iput(v, c)
  <2>1. Halted(v) \/ (Whole(v, Plus(x, c), l) /\ SameDisk(t, v))
    BY <1>3, iputFacts, SMTT(30)
  <2> HIDE DEF v
  <2>2. CASE Halted(v)
    BY <2>2 DEF iput, v
  <2>3. CASE ~Halted(v)
    <3>1. Whole(v, Plus(x, c), l) /\ SameDisk(t, v)
      BY <2>1, <2>3
    <3>2. Halted(u) \/ (Whole(u, x, l) /\ SameDisk(v, u))
      BY <3>1, iputFacts
    <3> QED BY <3>1, <3>2, SameDiskTrans DEF v
  <2> QED BY <2>2, <2>3
<1> QED BY <1>1, <1>2, <1>3

\* The links of the disk, one number for each inode whose count did not wrap.
LinksOf(t, W) == [n \in Ino \ W |-> t.inode[n].nlinks]

\* The state after a call, with the references h that it had before and the inodes W
\* whose link counts have wrapped.
Done(u, h, W) == Halted(u) \/ Whole(u, h, LinksOf(u, W))

\* A call from t to u added a link to an inode that had as many as there can be.
Wraps(t, u, W) == W \cup {n \in Ino : t.inode[n].nlinks = LinkMod - 1 /\ u.inode[n].nlinks = 0}

\* What the links of the disk are.
LEMMA LinksFacts ==
  ASSUME NEW t \in State, NEW W
  PROVE  /\ LinksOf(t, W) \in LinkTally /\ DOMAIN LinksOf(t, W) = Ino \ W
         /\ \A n \in Ino \ W : LinksOf(t, W)[n] = t.inode[n].nlinks
<1>1. \A n \in Ino : t.inode[n].nlinks \in Nat
  BY StateFields
<1>2. LinksOf(t, W) \in [Ino \ W -> Nat] /\ Ino \ W \in SUBSET Ino
  BY <1>1 DEF LinksOf
<1> QED BY <1>2 DEF LinksOf, LinkTally

\* The links of the disk cover what fewer links covered.
LEMMA ToLinks ==
  ASSUME NEW t, NEW x, NEW l, Whole(t, x, l), NEW W, Ino \ W \subseteq DOMAIN l,
         \A n \in Ino \ W : l[n] <= t.inode[n].nlinks
  PROVE  Whole(t, x, LinksOf(t, W))
<1>1. t \in State
  BY DEF Whole
<1>2. /\ LinksOf(t, W) \in LinkTally /\ DOMAIN LinksOf(t, W) = Ino \ W
      /\ \A n \in Ino \ W : LinksOf(t, W)[n] = t.inode[n].nlinks
  BY <1>1, LinksFacts
<1>3. \A n \in DOMAIN LinksOf(t, W) : l[n] <= LinksOf(t, W)[n]
  BY <1>2
<1> HIDE DEF Whole
<1> QED BY <1>2, <1>3, MoreLinks

\* Less than every inode is counted.
LEMMA FewerLinks ==
  ASSUME NEW t, NEW x, NEW W, Whole(t, x, LinksOf(t, W)), NEW V, W \subseteq V
  PROVE  Whole(t, x, LinksOf(t, V))
<1>1. t \in State
  BY DEF Whole
<1>2. DOMAIN LinksOf(t, W) = Ino \ W /\ \A n \in Ino \ W : LinksOf(t, W)[n] = t.inode[n].nlinks
  BY <1>1, LinksFacts
<1>3. \A n \in Ino \ V : LinksOf(t, W)[n] <= t.inode[n].nlinks
  BY <1>1, <1>2, StateFields
<1>4. Ino \ V \subseteq DOMAIN LinksOf(t, W)
  BY <1>2
<1> QED BY <1>3, <1>4, ToLinks

\* The links of the disk cover the names that are left.
LEMMA DoneIf ==
  ASSUME NEW t, NEW h, NEW l, Whole(t, h, l), NEW W, Ino \ W \subseteq DOMAIN l,
         \A n \in Ino \ W : l[n] <= t.inode[n].nlinks
  PROVE  Done(t, h, W)
BY ToLinks DEF Done

\* A call that gave back what it took and changed nothing else.
LEMMA DoneSame ==
  ASSUME NEW t \in State, NEW u, NEW h, NEW W, Whole(u, h, LinksOf(t, W)), SameDisk(t, u)
  PROVE  Done(u, h, W)
<1>1. LinksOf(u, W) = LinksOf(t, W)
  BY DEF SameDisk, LinksOf
<1> QED BY <1>1 DEF Done

\* A call that failed an assertion.
LEMMA DoneHalted ==
  ASSUME NEW u, Halted(u), NEW h, NEW W
  PROVE  Done(u, h, W)
BY DEF Done

\* The result of a call when some inodes are no longer counted.
LEMMA DoneFewer ==
  ASSUME NEW t, NEW u, NEW h, NEW W, Done(u, h, W)
  PROVE  Done(u, h, Wraps(t, u, W))
<1>1. W \subseteq Wraps(t, u, W)
  BY DEF Wraps
<1> QED BY <1>1, FewerLinks DEF Done

\* A counter modulo M counts up, or starts again.
LEMMA Remainder ==
  ASSUME NEW M \in Nat, M > 2, NEW k \in 0 .. M - 1
  PROVE  /\ (k + 1) % M \in 0 .. M - 1
         /\ (k + 1) % M = IF k = M - 1 THEN 0 ELSE k + 1
<1> DEFINE q == (k + 1) \div M
           r == (k + 1) % M
<1>1. q \in Int /\ k + 1 = M * q + r /\ r \in 0 .. M - 1
  OBVIOUS
<1> HIDE DEF q, r
<1>2. ASSUME q >= 2 PROVE FALSE
  <2>1. q - 2 \in Nat
    BY <1>1, <1>2
  <2>2. (q - 2) * M \in Nat
    BY <2>1
  <2>3. (q - 2) * M = M * q - 2 * M
    BY <1>1
  <2>4. M * q \in Int
    BY <1>1
  <2> QED BY <1>1, <2>2, <2>3, <2>4
<1>3. ASSUME q < 0 PROVE FALSE
  <2>1. -q - 1 \in Nat
    BY <1>1, <1>3
  <2>2. (-q - 1) * M \in Nat
    BY <2>1
  <2>3. (-q - 1) * M = -(M * q) - M
    BY <1>1
  <2>4. M * q \in Int
    BY <1>1
  <2> QED BY <1>1, <2>2, <2>3, <2>4
<1>4. q = 0 \/ q = 1
  BY <1>1, <1>2, <1>3
<1>5. CASE q = 0
  BY <1>1, <1>5
<1>6. CASE q = 1
  BY <1>1, <1>6
<1> QED BY <1>4, <1>5, <1>6 DEF r

\* One more link to inode n; after the last there is none.
LEMMA LinkUpKeeps ==
  ASSUME NEW t, NEW x, NEW l, Whole(t, x, l), NEW n \in Ino
  PROVE  LET u == OneMoreLink(t, n)
         IN  /\ Whole(u, x, l) /\ SameCalls(t, u)
             /\ \A m \in Ino : /\ u.inode[m].mode = t.inode[m].mode
                               /\ u.inode[m].size = t.inode[m].size
                               /\ m # n => u.inode[m].nlinks = t.inode[m].nlinks
             /\ u.inode[n].nlinks = IF t.inode[n].nlinks = LinkMod - 1 THEN 0
                                    ELSE t.inode[n].nlinks + 1
<1> DEFINE u == OneMoreLink(t, n)
           k == t.inode[n].nlinks
           j == (k + 1) % LinkMod
           node == [t.inode[n] EXCEPT !.nlinks = j]
<1>1. t \in State /\ t.inode[n] \in Inode /\ k \in LinkCount /\ LinkMod \in Nat /\ LinkMod > 2
  BY StateFields, Sizes DEF Whole
<1>2. u = Fill(t, n, node)
  BY DEF OneMoreLink, Fill
<1>3. j \in LinkCount /\ j = IF k = LinkMod - 1 THEN 0 ELSE k + 1
  <2> HIDE DEF k
  <2> QED BY <1>1, Remainder DEF LinkCount
<1> HIDE DEF u, j
<1>4. /\ node \in Inode /\ node.zone = t.inode[n].zone /\ node.mode = t.inode[n].mode
      /\ node.nlinks = j /\ node.size = t.inode[n].size /\ node.size \in Nat
  BY <1>1, <1>3 DEF Inode
<1> HIDE DEF node
<1>5. node.mode = "dir" => node.size = 0 \/ (IsDir(t, n) /\ node.size <= t.inode[n].size)
  BY <1>4 DEF IsDir
<1>6. Whole(u, x, l)
  BY <1>2, <1>4, <1>5, FillKeeps
<1>7. SameCalls(t, u) /\ \A m \in Ino : u.inode[m] = IF m = n THEN node ELSE t.inode[m]
  BY <1>1, <1>2, <1>4, FillFields
<1> QED BY <1>3, <1>4, <1>6, <1>7 DEF u

\* The entries "." and ".." of a new directory.
LEMMA DottedKeeps ==
  ASSUME NEW t, NEW x, NEW l, Whole(t, x, l), NEW n \in Ino, IsDir(t, n), n \in t.imap.bits,
         NEW dir \in Ino, IsDir(t, dir), t.inode[n].zone[0] \in Zone, t.inode[n].size = 0
  PROVE  LET u == [t EXCEPT !.block[bmap(t, n, 0)][0] = [ino |-> n, name |-> "."],
                            !.block[bmap(t, n, 0)][1] = [ino |-> dir, name |-> ".."],
                            !.inode[n].size = 2]
         IN  Whole(u, x, Plus(Plus(l, n), dir)) /\ SameCalls(t, u) /\ SameKinds(t, u)
<1> DEFINE e == [ino |-> n, name |-> "."]
           f == [ino |-> dir, name |-> ".."]
           v == EntryAt(t, n, 0, n, ".")
           w == EntryAt(v, n, 1, dir, "..")
           z == bmap(t, n, 0)
           u == [t EXCEPT !.block[z][0] = e, !.block[z][1] = f, !.inode[n].size = 2]
           one == [t.inode[n] EXCEPT !.size = 1]
           I1 == [t.inode EXCEPT ![n] = one]
           b1 == [t.block[z] EXCEPT ![0] = e]
           B1 == [t.block EXCEPT ![z] = b1]
<1>1. /\ 0 \in Slot /\ 1 \in Slot /\ "." \in Name /\ ".." \in Name
      /\ z \in Zone /\ t \in State /\ dir \in t.imap.bits
  BY Sizes DEF bmap, Whole, Name, Clean
<1>2. 0 <= t.inode[n].size
  OBVIOUS
<1>3. /\ Whole(v, x, Plus(l, n)) /\ SameCalls(t, v) /\ SameKinds(t, v)
      /\ v.inode[n].size = 0 + 1
  BY <1>1, <1>2, EntryPut
<1>4. v = [t EXCEPT !.block = B1, !.inode = I1]
  BY DEF EntryAt
<1>5. t.block \in [Zone -> [Slot -> Entry]] /\ t.inode \in [Ino -> Inode] /\ t.inode[n] \in Inode
  BY <1>1, StateFields
<1>6. one.zone = t.inode[n].zone /\ one.size = 1 /\ [one EXCEPT !.size = 2] = [t.inode[n] EXCEPT !.size = 2]
  BY <1>5 DEF Inode
<1> HIDE DEF one
<1>7. v.block = B1 /\ v.inode = I1 /\ I1[n] = one
  BY <1>1, <1>4, <1>5 DEF State
<1>8. bmap(v, n, 0) = z
  BY <1>6, <1>7 DEF bmap
<1> HIDE DEF v
<1>9. IsDir(v, n) /\ dir \in v.imap.bits /\ 1 <= v.inode[n].size
  BY <1>1, <1>3 DEF SameCalls, SameKinds, IsDir
<1>10. Whole(w, x, Plus(Plus(l, n), dir)) /\ SameCalls(v, w) /\ SameKinds(v, w)
  BY <1>1, <1>3, <1>9, EntryPut
<1>11. w = u
  <2> HIDE DEF z, e, f
  <2> DEFINE b2 == [b1 EXCEPT ![1] = f]
             B2 == [t.block EXCEPT ![z] = b2]
             I2 == [t.inode EXCEPT ![n] = [t.inode[n] EXCEPT !.size = 2]]
  <2>1. w = [v EXCEPT !.block[z][1] = f, !.inode[n].size = 1 + 1]
    BY <1>8 DEF EntryAt, f
  <2>2. w = [v EXCEPT !.block = [v.block EXCEPT ![z] = [v.block[z] EXCEPT ![1] = f]],
                      !.inode = [v.inode EXCEPT ![n] = [v.inode[n] EXCEPT !.size = 1 + 1]]]
    BY <2>1
  <2>3. [v.block EXCEPT ![z] = [v.block[z] EXCEPT ![1] = f]] = B2
    <3>1. B1[z] = b1
      BY <1>1, <1>5
    <3> HIDE DEF b1
    <3> QED BY <1>1, <1>5, <1>7, <3>1
  <2>4. [v.inode EXCEPT ![n] = [v.inode[n] EXCEPT !.size = 1 + 1]] = I2
    BY <1>5, <1>6, <1>7
  <2>5. u = [t EXCEPT !.block = B2, !.inode = I2]
    <3>1. [t EXCEPT !.block[z][0] = e, !.block[z][1] = f] = [t EXCEPT !.block = B2]
      BY <1>1, <1>5 DEF State
    <3> QED BY <1>1, <1>5, <3>1 DEF State
  <2> HIDE DEF B2, I2, B1, I1, w, u
  <2>6. w = [v EXCEPT !.block = B2, !.inode = I2]
    BY <2>2, <2>3, <2>4
  <2> QED BY <1>1, <1>4, <2>5, <2>6 DEF State
<1>12. SameCalls(t, w) /\ SameKinds(t, w)
  BY <1>3, <1>10 DEF SameCalls, SameKinds
<1> HIDE DEF w, u
<1> QED BY <1>10, <1>11, <1>12 DEF u, e, f, z

\* sys_mkdir.
LEMMA MkDirKeeps ==
  ASSUME NEW h, NEW W, NEW t, Whole(t, h, LinksOf(t, W)), NEW p \in Proc,
         NEW path \in Paths
  PROVE  Done(MkDir(t, p, path), h, Wraps(t, MkDir(t, p, path), W))
<1> DEFINE d == parent(t, p, path)
           u == d[1]
           dir == d[2]
           c == NewInode(u, dir, filename(path), "dir", 2)
           C == c[1]
           n == c[2]
           v == OneMoreLink(C, dir)
           w == bmap_create(v, n, 0)
           y == [w EXCEPT !.block[bmap(w, n, 0)][0] = [ino |-> n, name |-> "."],
                          !.block[bmap(w, n, 0)][1] = [ino |-> dir, name |-> ".."],
                          !.inode[n].size = 2]
           z == iput(iput(y, dir), n)
           l == LinksOf(t, W)
           r == MkDir(t, p, path)
           V == Wraps(t, r, W)
<1>0. /\ h \in Tally /\ t \in State /\ l \in LinkTally /\ DOMAIN l = Ino \ W
      /\ \A m \in Ino \ W : l[m] = t.inode[m].nlinks
  BY LinksFacts DEF Whole
<1>1. /\ Len(path.names) \in Nat /\ (Len(path.names) = 0 => path.names = << >>)
      /\ filename(path) \in Name /\ 2 \in LinkCount
  BY PathFacts, Sizes DEF LinkCount
<1>2. Reached(d, t, h, l) /\ (Halted(u) \/ dir = NoIno \/ IsDir(u, dir))
  BY <1>1, parentKeeps
<1>3. r = IF Halted(u) THEN u
          ELSE IF dir = NoIno \/ find_entry(u, dir, filename(path)) # EOF THEN Stop(u, "mkdir")
          ELSE IF Halted(C) THEN C ELSE IF Halted(w) THEN w ELSE z
  BY SMTT(30) DEF MkDir
<1> HIDE DEF d, c, l, r
<1>4. CASE Halted(u)
  BY <1>3, <1>4 DEF Done, r
<1>5. CASE ~Halted(u) /\ (dir = NoIno \/ find_entry(u, dir, filename(path)) # EOF)
  <2>1. r = Stop(u, "mkdir")
    BY <1>3, <1>5
  <2>2. Whole(u, h, l) \/ Whole(u, Plus(h, dir), l)
    BY <1>2, <1>5 DEF Reached
  <2>3. Halted(r)
    BY <2>1, <2>2, StopHalts
  <2> QED BY <2>3, DoneHalted DEF r
<1>6. CASE ~Halted(u) /\ ~(dir = NoIno \/ find_entry(u, dir, filename(path)) # EOF)
  <2>0. dir \in Ino /\ Whole(u, Plus(h, dir), l) /\ SameDisk(t, u) /\ IsDir(u, dir)
    BY <1>2, <1>6 DEF Reached
  <2> DEFINE x == Plus(h, dir)
  <2>1. Halted(C) \/ Born(u, C, n, dir, x, l, "dir", 2)
    BY <1>1, <2>0, NewInodeKeeps DEF c
  <2> HIDE DEF C, n, dir, u, x
  <2>2. CASE Halted(C)
    BY <1>3, <1>6, <2>2 DEF Done, r
  <2>3. CASE ~Halted(C)
    <3> DEFINE g == [l EXCEPT ![n] = 1]
    <3>1. /\ n \in Ino /\ n # dir /\ Whole(C, Plus(x, n), g) /\ IsDir(C, dir)
          /\ n \in C.imap.bits /\ C.inode[n].mode = "dir" /\ C.inode[n].nlinks = 2
          /\ C.inode[n].size = 0
          /\ \A m \in Ino : m # n => C.inode[m].nlinks = u.inode[m].nlinks
      BY <2>1, <2>3 DEF Born
    <3>2. /\ g \in LinkTally /\ DOMAIN g = Ino \ W
          /\ \A m \in Ino \ W : g[m] = IF m = n THEN 1 ELSE t.inode[m].nlinks
      BY <1>0, <3>1, LinkSet
    <3> HIDE DEF g
    <3>3. /\ Whole(v, Plus(x, n), g) /\ SameCalls(C, v)
          /\ \A m \in Ino : /\ v.inode[m].mode = C.inode[m].mode
                            /\ v.inode[m].size = C.inode[m].size
                            /\ m # dir => v.inode[m].nlinks = C.inode[m].nlinks
          /\ v.inode[dir].nlinks = IF C.inode[dir].nlinks = LinkMod - 1 THEN 0
                                   ELSE C.inode[dir].nlinks + 1
      BY <2>0, <3>1, LinkUpKeeps
    <3> HIDE DEF v
    <3>4. Halted(w) \/ (/\ Whole(w, Plus(x, n), g) /\ SameCalls(v, w) /\ SameKinds(v, w)
                        /\ w.inode[n].zone[0] \in Zone
                        /\ w.inode[n].size = v.inode[n].size)
      BY <3>1, <3>3, bmap_createKeeps, Sizes
    <3> HIDE DEF w
    <3>5. CASE Halted(w)
      BY <1>3, <1>6, <2>3, <3>5 DEF Done, r
    <3>6. CASE ~Halted(w)
      <4>1. /\ Whole(w, Plus(x, n), g) /\ SameCalls(v, w) /\ SameKinds(v, w)
            /\ w.inode[n].zone[0] \in Zone /\ w.inode[n].size = v.inode[n].size
        BY <3>4, <3>6
      <4>2. IsDir(w, n) /\ IsDir(w, dir) /\ n \in w.imap.bits /\ w.inode[n].size = 0
        BY <2>0, <3>1, <3>3, <4>1, SMTT(30) DEF SameCalls, SameKinds, IsDir
      <4>3. Whole(y, Plus(x, n), Plus(Plus(g, n), dir)) /\ SameKinds(w, y)
        BY <2>0, <3>1, <4>1, <4>2, DottedKeeps
      <4> HIDE DEF y
      <4>4. Halted(z) \/ (Whole(z, h, Plus(Plus(g, n), dir)) /\ SameDisk(y, z))
        BY <1>0, <2>0, <3>1, <4>3, GiveBack DEF x
      <4> HIDE DEF z
      <4>5. r = z
        BY <1>3, <1>6, <2>3, <3>6
      <4>6. CASE Halted(z)
        BY <4>5, <4>6 DEF Done, r
      <4>7. CASE ~Halted(z)
        <5>1. Whole(z, h, Plus(Plus(g, n), dir)) /\ SameDisk(y, z)
          BY <4>4, <4>7
        <5>2. /\ u.inode = t.inode /\ z.inode[n].nlinks = 2 /\ t.inode[dir].nlinks \in Nat
              /\ \A m \in Ino : m # n /\ m # dir => z.inode[m].nlinks = t.inode[m].nlinks
              /\ z.inode[dir].nlinks = IF t.inode[dir].nlinks = LinkMod - 1 THEN 0
                                       ELSE t.inode[dir].nlinks + 1
          <6>1. u.inode = t.inode /\ t.inode[dir].nlinks \in Nat
            BY <1>0, <2>0, StateFields DEF SameDisk
          <6>2. \A m \in Ino : z.inode[m].nlinks = v.inode[m].nlinks
            BY <4>1, <4>3, <5>1 DEF SameDisk, SameKinds
          <6> QED BY <2>0, <3>1, <3>3, <6>1, <6>2
        <5>3. \A m \in Ino \ V : m \notin W /\ (m = dir => t.inode[dir].nlinks # LinkMod - 1)
          BY <4>5, <5>2 DEF V, Wraps
        <5>4. /\ Plus(Plus(g, n), dir) \in LinkTally /\ DOMAIN Plus(Plus(g, n), dir) = Ino \ W
              /\ \A m \in Ino \ W : Plus(Plus(g, n), dir)[m] =
                   IF m = n THEN 2 ELSE IF m = dir THEN t.inode[m].nlinks + 1 ELSE t.inode[m].nlinks
          <6>1. /\ Plus(g, n) \in LinkTally /\ DOMAIN Plus(g, n) = Ino \ W
                /\ \A m \in Ino \ W : Plus(g, n)[m] = IF m = n THEN g[m] + 1 ELSE g[m]
            BY <3>2, LinkPlus
          <6> DEFINE gn == Plus(g, n)
          <6> HIDE DEF gn
          <6>2. /\ Plus(gn, dir) \in LinkTally /\ DOMAIN Plus(gn, dir) = Ino \ W
                /\ \A m \in Ino \ W : Plus(gn, dir)[m] = IF m = dir THEN gn[m] + 1 ELSE gn[m]
            BY <6>1, LinkPlus DEF gn
          <6>3. \A m \in Ino \ W : gn[m] = IF m = n THEN 2 ELSE t.inode[m].nlinks
            BY <3>2, <6>1 DEF gn
          <6> QED BY <3>1, <6>2, <6>3 DEF gn
        <5> DEFINE k == Plus(Plus(g, n), dir)
        <5> HIDE DEF k, V
        <5>5. Ino \ V \subseteq DOMAIN k
          BY <5>3, <5>4 DEF k
        <5>6. \A m \in Ino \ V : k[m] <= z.inode[m].nlinks
          <6>1. \A m \in Ino : t.inode[m].nlinks \in Nat
            BY <1>0, StateFields
          <6> QED BY <2>0, <3>1, <5>2, <5>3, <5>4, <6>1 DEF k
        <5>7. Done(z, h, V)
          BY <5>1, <5>5, <5>6, DoneIf DEF k
        <5> QED BY <4>5, <5>7 DEF r, V
      <4> QED BY <4>6, <4>7
    <3> QED BY <3>5, <3>6
  <2> QED BY <2>2, <2>3
<1> QED BY <1>4, <1>5, <1>6

\* sys_rmdir: "/" leaves a reference to the root in hand.
LEMMA RmDirKeeps ==
  ASSUME NEW h, NEW W, NEW t, Whole(t, h, LinksOf(t, W)), NEW p \in Proc, NEW path \in Paths
  PROVE  Done(RmDir(t, p, path), IF path.abs /\ path.names = << >> THEN Plus(h, Root) ELSE h, W)
<1> DEFINE d == parent(t, p, path)
           r == RmDir(t, p, path)
           v == iput(d[1], d[2])
           l == LinksOf(t, W)
           loses == path.abs /\ path.names = << >>
<1>0. h \in Tally /\ t \in State
  BY DEF Whole
<1>1. /\ Len(path.names) \in Nat /\ (Len(path.names) = 0 => path.names = << >>)
      /\ filename(path) = NoName <=> path.names = << >>
  BY PathFacts
<1>2. Reached(d, t, h, l) /\ (path.names = << >> => Halted(d[1]) \/ (path.abs /\ d[2] = Root))
  BY <1>1, parentKeeps
<1>3. r = IF d[2] = NoIno \/ filename(path) = NoName THEN d[1] ELSE v
  BY DEF RmDir
<1> HIDE DEF d, r, l
<1>4. CASE Halted(d[1])
  BY <1>3, <1>4 DEF Done, r, iput
<1>5. CASE ~Halted(d[1]) /\ path.names = << >>
  <2>1. loses /\ d[2] = Root
    BY <1>2, <1>5
  <2>2. Whole(d[1], Plus(h, Root), l) /\ SameDisk(t, d[1])
    BY <1>2, <1>5, <2>1, Sizes DEF Reached
  <2>3. Done(d[1], Plus(h, Root), W)
    BY <1>0, <2>2, DoneSame DEF l
  <2>4. r = d[1]
    BY <1>1, <1>3, <1>5
  <2> QED BY <2>1, <2>3, <2>4 DEF r
<1>6. CASE ~Halted(d[1]) /\ path.names # << >> /\ d[2] = NoIno
  <2>1. Whole(d[1], h, l) /\ SameDisk(t, d[1])
    BY <1>2, <1>6, Sizes DEF Reached
  <2>2. Done(d[1], h, W)
    BY <1>0, <2>1, DoneSame DEF l
  <2> QED BY <1>3, <1>6, <2>2 DEF r
<1>7. CASE ~Halted(d[1]) /\ path.names # << >> /\ d[2] # NoIno
  <2>1. d[2] \in Ino /\ Whole(d[1], Plus(h, d[2]), l) /\ SameDisk(t, d[1])
    BY <1>2, <1>7 DEF Reached
  <2>2. Halted(v) \/ (Whole(v, h, l) /\ SameDisk(d[1], v))
    BY <1>0, <2>1, iputFacts
  <2>3. r = v
    BY <1>1, <1>3, <1>7
  <2> HIDE DEF v
  <2>4. CASE Halted(v)
    BY <2>3, <2>4 DEF Done, r
  <2>5. CASE ~Halted(v)
    <3>1. Whole(v, h, l) /\ SameDisk(t, v)
      BY <2>1, <2>2, <2>5, SameDiskTrans
    <3>2. Done(v, h, W)
      BY <1>0, <3>1, DoneSame DEF l
    <3> QED BY <1>7, <2>3, <3>2 DEF r
  <2> QED BY <2>4, <2>5
<1> QED BY <1>4, <1>5, <1>6, <1>7

\* sys_link.
LEMMA LinkKeeps ==
  ASSUME NEW h, NEW W, NEW t, Whole(t, h, LinksOf(t, W)), NEW p \in Proc,
         NEW old \in Paths, NEW new \in Paths
  PROVE  Done(Link(t, p, old, new), h, Wraps(t, Link(t, p, old, new), W))
<1> DEFINE o == namei(t, p, old)
           O == o[1]
           node == o[2]
           d == parent(O, p, new)
           u == d[1]
           dir == d[2]
           back == iput(iput(u, node), dir)
           v == add_entry(u, dir, filename(new), node)
           w == OneMoreLink(v, node)
           z == iput(iput(w, node), dir)
           r == Link(t, p, old, new)
           V == Wraps(t, r, W)
           l == LinksOf(t, W)
<1>0. /\ h \in Tally /\ t \in State /\ l \in LinkTally /\ DOMAIN l = Ino \ W
      /\ \A m \in Ino \ W : l[m] = t.inode[m].nlinks
  BY LinksFacts DEF Whole
<1>1. /\ Len(old.names) \in Nat
      /\ Len(new.names) \in Nat /\ (Len(new.names) = 0 => new.names = << >>)
      /\ filename(new) \in Name
  BY PathFacts
<1>2. Reached(o, t, h, l)
  BY <1>1, nameiKeeps
<1>3. r = IF Halted(O) THEN O
          ELSE IF node = NoIno \/ IsDir(O, node) THEN Stop(O, "page zero")
          ELSE IF Halted(u) THEN u
          ELSE IF dir = NoIno THEN Stop(u, "page zero")
          ELSE IF filename(new) = NoName \/ find_entry(u, dir, filename(new)) # EOF THEN back
          ELSE IF Halted(v) THEN v ELSE z
  BY DEF Link
<1> HIDE DEF o, r, l
<1>4. CASE Halted(O)
  BY <1>3, <1>4 DEF Done, r
<1>5. CASE ~Halted(O) /\ (node = NoIno \/ IsDir(O, node))
  <2>1. r = Stop(O, "page zero")
    BY <1>3, <1>5
  <2>2. Whole(O, h, l) \/ Whole(O, Plus(h, node), l)
    BY <1>2, <1>5 DEF Reached
  <2>3. Halted(r)
    BY <2>1, <2>2, StopHalts
  <2> QED BY <2>3, DoneHalted DEF r
<1>6. CASE ~Halted(O) /\ ~(node = NoIno \/ IsDir(O, node))
  <2> DEFINE x == Plus(h, node)
  <2>1. node \in Ino /\ Whole(O, x, l) /\ SameDisk(t, O)
        /\ (node \in DOMAIN l => node \in t.imap.bits)
    BY <1>2, <1>6 DEF Reached
  <2> HIDE DEF O, node
  <2>2. Reached(d, O, x, l) /\ (Halted(u) \/ dir = NoIno \/ IsDir(u, dir))
    <3> HIDE DEF x
    <3> QED BY <1>1, <2>1, parentKeeps
  <2>11. x \in Tally
    BY <1>0, <2>1, PlusFacts
  <2> HIDE DEF d
  <2>3. CASE Halted(u)
    BY <1>3, <1>6, <2>3 DEF Done, r
  <2>4. CASE ~Halted(u) /\ dir = NoIno
    <3>1. r = Stop(u, "page zero")
      BY <1>3, <1>6, <2>4
    <3>2. Whole(u, x, l) \/ Whole(u, Plus(x, dir), l)
      BY <2>2, <2>4 DEF Reached
    <3>3. Halted(r)
      BY <3>1, <3>2, StopHalts
    <3> QED BY <3>3, DoneHalted DEF r
  <2>5. CASE ~Halted(u) /\ dir # NoIno
    <3>1. dir \in Ino /\ Whole(u, Plus(x, dir), l) /\ SameDisk(O, u) /\ IsDir(u, dir)
      BY <2>2, <2>5 DEF Reached
    <3>2. SameDisk(t, u)
      BY <2>1, <3>1, SameDiskTrans
    <3> HIDE DEF u, dir
    <3>3. CASE filename(new) = NoName \/ find_entry(u, dir, filename(new)) # EOF
      <4>1. Halted(back) \/ (Whole(back, h, l) /\ SameDisk(u, back))
        BY <1>0, <2>1, <3>1, GiveBack DEF x
      <4>2. r = back
        BY <1>3, <1>6, <2>5, <3>3
      <4> HIDE DEF back
      <4>3. CASE Halted(back)
        BY <4>2, <4>3 DEF Done, r
      <4>4. CASE ~Halted(back)
        <5>1. Whole(back, h, l) /\ SameDisk(t, back)
          BY <3>2, <4>1, <4>4, SameDiskTrans
        <5>2. Done(back, h, Wraps(t, back, W))
          BY <1>0, <5>1, DoneSame, DoneFewer DEF l
        <5> QED BY <4>2, <5>2 DEF r
      <4> QED BY <4>3, <4>4
    <3>4. CASE ~(filename(new) = NoName \/ find_entry(u, dir, filename(new)) # EOF)
      <4>1. Halted(v) \/ (/\ Whole(v, Plus(x, dir), Plus(l, node)) /\ SameCalls(u, v)
                          /\ SameKinds(u, v))
        <5>1. node \in DOMAIN l => node \in u.imap.bits
          BY <2>1, <3>2 DEF SameDisk
        <5> HIDE DEF x
        <5> QED BY <1>1, <2>1, <3>1, <5>1, add_entryKeeps
      <4> HIDE DEF v
      <4>2. CASE Halted(v)
        BY <1>3, <1>6, <2>5, <3>4, <4>2 DEF Done, r
      <4>3. CASE ~Halted(v)
        <5>1. Whole(v, Plus(x, dir), Plus(l, node)) /\ SameKinds(u, v)
          BY <4>1, <4>3
        <5>2. /\ Whole(w, Plus(x, dir), Plus(l, node))
              /\ \A m \in Ino : m # node => w.inode[m].nlinks = v.inode[m].nlinks
              /\ w.inode[node].nlinks = IF v.inode[node].nlinks = LinkMod - 1 THEN 0
                                        ELSE v.inode[node].nlinks + 1
          BY <2>1, <5>1, LinkUpKeeps
        <5> HIDE DEF w
        <5>3. Halted(z) \/ (Whole(z, h, Plus(l, node)) /\ SameDisk(w, z))
          BY <1>0, <2>1, <3>1, <5>2, GiveBack DEF x
        <5>4. r = z
          BY <1>3, <1>6, <2>5, <3>4, <4>3
        <5> HIDE DEF z
        <5>5. CASE Halted(z)
          BY <5>4, <5>5 DEF Done, r
        <5>6. CASE ~Halted(z)
          <6>1. Whole(z, h, Plus(l, node)) /\ SameDisk(w, z)
            BY <5>3, <5>6
          <6>2. /\ \A m \in Ino : m # node => z.inode[m].nlinks = t.inode[m].nlinks
                /\ z.inode[node].nlinks = IF t.inode[node].nlinks = LinkMod - 1 THEN 0
                                          ELSE t.inode[node].nlinks + 1
            <7>1. \A m \in Ino : v.inode[m].nlinks = t.inode[m].nlinks
              BY <3>2, <5>1 DEF SameDisk, SameKinds
            <7>2. \A m \in Ino : z.inode[m].nlinks = w.inode[m].nlinks
              BY <6>1 DEF SameDisk
            <7> QED BY <2>1, <5>2, <7>1, <7>2
          <6>3. \A m \in Ino \ V : m \notin W /\ (m = node => t.inode[node].nlinks # LinkMod - 1)
            BY <5>4, <6>2 DEF V, Wraps
          <6>4. /\ Plus(l, node) \in LinkTally /\ DOMAIN Plus(l, node) = Ino \ W
                /\ \A m \in Ino \ W : Plus(l, node)[m] =
                     IF m = node THEN t.inode[m].nlinks + 1 ELSE t.inode[m].nlinks
            BY <1>0, LinkPlus
          <6> DEFINE k == Plus(l, node)
          <6> HIDE DEF k, V
          <6>5. Ino \ V \subseteq DOMAIN k
            BY <6>3, <6>4 DEF k
          <6>6. \A m \in Ino \ V : k[m] <= z.inode[m].nlinks
            <7>1. \A m \in Ino : t.inode[m].nlinks \in Nat
              BY <1>0, StateFields
            <7> QED BY <2>1, <6>2, <6>3, <6>4, <7>1 DEF k
          <6>7. Done(z, h, V)
            BY <6>1, <6>5, <6>6, DoneIf DEF k
          <6> QED BY <5>4, <6>7 DEF r, V
        <5> QED BY <5>5, <5>6
      <4> QED BY <4>2, <4>3
    <3> QED BY <3>3, <3>4
  <2> QED BY <2>3, <2>4, <2>5
<1> QED BY <1>4, <1>5, <1>6
\* A link is dropped: with the last one the zones and the inode are freed.
LEMMA DropLinkKeeps ==
  ASSUME NEW t, NEW x, NEW l, Whole(t, x, l), NEW n \in Ino, ~IsDir(t, n),
         t.inode[n].nlinks # 0,
         \A m \in DOMAIN l : l[m] = t.inode[m].nlinks - IF m = n THEN 1 ELSE 0
  PROVE  LET u == DropLink(t, n)
         IN  Dead(u) \/ (Whole(u, x, l) /\ \A m \in DOMAIN l : l[m] = u.inode[m].nlinks)
<1> DEFINE v == [t EXCEPT !.inode[n].nlinks = @ - 1]
           node == [t.inode[n] EXCEPT !.nlinks = t.inode[n].nlinks - 1]
           w == inode_truncate(v, n)
           y == ifree(w, n)
           u == DropLink(t, n)
<1>1. /\ t \in State /\ t.inode[n] \in Inode /\ \A m \in Ino : t.inode[m].nlinks \in Nat
      /\ t.inode[n].nlinks \in LinkCount /\ DOMAIN l \subseteq Ino
  BY StateFields, LinkFacts DEF Whole
<1>2. /\ node \in Inode /\ node.zone = t.inode[n].zone /\ node.mode = t.inode[n].mode
      /\ node.nlinks = t.inode[n].nlinks - 1 /\ node.size = t.inode[n].size /\ node.size \in Nat
  <2>1. t.inode[n].nlinks - 1 \in LinkCount
    BY <1>1, Sizes DEF LinkCount
  <2> QED BY <1>1, <2>1 DEF Inode
<1>3. v = Fill(t, n, node)
  BY DEF Fill
<1>4. u = IF v.inode[n].nlinks = 0 THEN y ELSE v
  BY DEF DropLink
<1> HIDE DEF v, node, u
<1>5. Whole(v, x, l)
  <2>1. node.mode = "dir" => node.size = 0 \/ (IsDir(t, n) /\ node.size <= t.inode[n].size)
    BY <1>2 DEF IsDir
  <2> QED BY <1>2, <1>3, <2>1, FillKeeps
<1>6. \A m \in Ino : v.inode[m] = IF m = n THEN node ELSE t.inode[m]
  BY <1>1, <1>2, <1>3, FillFields
<1>7. \A m \in DOMAIN l : l[m] = v.inode[m].nlinks
  BY <1>1, <1>2, <1>6
<1>8. CASE v.inode[n].nlinks # 0
  BY <1>4, <1>5, <1>7, <1>8 DEF u
<1>9. CASE v.inode[n].nlinks = 0
  <2>1. u = y
    BY <1>4, <1>9
  <2>2. Dead(w) \/ (Whole(w, x, l) /\ SameKinds(v, w))
    BY <1>5, inode_truncateKeeps
  <2> HIDE DEF w
  <2>3. CASE Dead(w)
    BY <2>1, <2>3, ifreeDies DEF u
  <2>4. CASE ~Dead(w)
    <3>1. Whole(w, x, l) /\ SameKinds(v, w)
      BY <2>2, <2>4
    <3>2. ~IsDir(w, n)
      BY <1>2, <1>6, <3>1 DEF SameKinds, IsDir
    <3>3. n \in DOMAIN l => l[n] = 0
      BY <1>7, <1>9
    <3>4. Dead(y) \/ (Whole(y, x, l) /\ y.inode = w.inode)
      BY <3>1, <3>2, <3>3, ifreeKeeps
    <3>5. y.inode = w.inode => \A m \in DOMAIN l : l[m] = y.inode[m].nlinks
      BY <1>1, <1>7, <3>1 DEF SameKinds
    <3> QED BY <2>1, <3>4, <3>5 DEF u
  <2> QED BY <2>3, <2>4
<1> QED BY <1>8, <1>9

\* A failed assertion halts.
LEMMA DeadHalts ==
  ASSUME NEW t, Dead(t)
  PROVE  Halted(t)
BY DEF Dead, Halted

\* sys_unlink.
LEMMA UnlinkKeeps ==
  ASSUME NEW h, NEW W, NEW t, Whole(t, h, LinksOf(t, W)), NEW p \in Proc,
         NEW path \in Paths
  PROVE  Done(Unlink(t, p, path), h, W)
<1> DEFINE d == parent(t, p, path)
           D == d[1]
           dir == d[2]
           i == find_entry(D, dir, filename(path))
           n == Raw(D, dir)[i].ino
           u == iget(D, n)
           back == iput(iput(u, n), dir)
           v == [u EXCEPT !.block[bmap(u, dir, 0)][i].ino = 0]
           w == DropLink(v, n)
           z == iput(iput(w, n), dir)
           r == Unlink(t, p, path)
           l == LinksOf(t, W)
<1>0. /\ h \in Tally /\ t \in State /\ l \in LinkTally /\ DOMAIN l = Ino \ W
      /\ \A m \in Ino \ W : l[m] = t.inode[m].nlinks
  BY LinksFacts DEF Whole
<1>1. Len(path.names) \in Nat /\ (Len(path.names) = 0 => path.names = << >>)
  BY PathFacts
<1>2. Reached(d, t, h, l) /\ (Halted(D) \/ dir = NoIno \/ IsDir(D, dir))
  BY <1>1, parentKeeps
<1>3. r = IF Halted(D) THEN D
          ELSE IF dir = NoIno \/ i = EOF THEN Stop(D, "page zero")
          ELSE IF Halted(u) THEN u
          ELSE IF IsDir(u, n) THEN back
          ELSE IF u.inode[n].nlinks = 0 THEN Stop(u, "unlink")
          ELSE z
  BY DEF Unlink
<1> HIDE DEF d, r, l
<1>4. CASE Halted(D)
  BY <1>3, <1>4, SMTT(30) DEF Done, r
<1>5. CASE ~Halted(D) /\ (dir = NoIno \/ i = EOF)
  <2>1. r = Stop(D, "page zero")
    BY <1>3, <1>5
  <2>2. Whole(D, h, l) \/ Whole(D, Plus(h, dir), l)
    BY <1>2, <1>5 DEF Reached
  <2>3. Halted(r)
    BY <2>1, <2>2, StopHalts
  <2> QED BY <2>3, DoneHalted DEF r
<1>6. CASE ~Halted(D) /\ dir # NoIno /\ i # EOF
  <2> DEFINE x == Plus(h, dir)
  <2>1. dir \in Ino /\ Whole(D, x, l) /\ SameDisk(t, D) /\ IsDir(D, dir)
    BY <1>2, <1>6 DEF Reached
  <2>2. i \in Slot /\ n # 0 /\ i < D.inode[dir].size
    <3>1. D \in State
      BY <2>1 DEF Whole
    <3> QED BY <1>6, <2>1, <3>1, FindFacts DEF Listed
  <2> HIDE DEF D, dir, i
  <2>3. bmap(D, dir, 0) # 0
    <3> SUFFICES ASSUME bmap(D, dir, 0) = 0 PROVE FALSE
      OBVIOUS
    <3>1. Raw(D, dir) = Blank
      BY DEF Raw
    <3> QED BY <2>2, <3>1, BlankFacts
  <2>4. Halted(u) \/ (n \in Ino /\ Whole(u, Plus(x, n), l) /\ SameDisk(D, u))
    BY <2>1, igetFacts
  <2>5. n = Raw(D, dir)[i].ino
    OBVIOUS
  <2> HIDE DEF n, u
  <2>6. CASE Halted(u)
    BY <1>3, <1>6, <2>6 DEF Done, r
  <2>7. CASE ~Halted(u)
    <3>1. n \in Ino /\ Whole(u, Plus(x, n), l) /\ SameDisk(D, u)
      BY <2>4, <2>7
    <3>2. SameDisk(t, u)
      BY <2>1, <3>1, SameDiskTrans
    <3>3. CASE IsDir(u, n)
      <4>1. Halted(back) \/ (Whole(back, h, l) /\ SameDisk(u, back))
        BY <1>0, <2>1, <3>1, GiveBack DEF x
      <4>2. r = back
        BY <1>3, <1>6, <2>7, <3>3
      <4> HIDE DEF back
      <4>3. CASE Halted(back)
        BY <4>2, <4>3 DEF Done, r
      <4>4. CASE ~Halted(back)
        <5>1. Whole(back, h, l) /\ SameDisk(t, back)
          BY <3>2, <4>1, <4>4, SameDiskTrans
        <5>2. Done(back, h, W)
          BY <1>0, <5>1, DoneSame DEF l
        <5> QED BY <4>2, <5>2 DEF r
      <4> QED BY <4>3, <4>4
    <3>4. CASE ~IsDir(u, n) /\ u.inode[n].nlinks = 0
      <4>1. r = Stop(u, "unlink")
        BY <1>3, <1>6, <2>7, <3>4
      <4>2. Halted(r)
        BY <3>1, <4>1, StopHalts
      <4> QED BY <4>2, DoneHalted DEF r
    <3>5. CASE ~IsDir(u, n) /\ u.inode[n].nlinks # 0
      <4> DEFINE q == bmap(u, dir, 0)
                 e == [u.block[q][i] EXCEPT !.ino = 0]
                 g == [l EXCEPT ![n] = l[n] - 1]
      <4>1. u \in State /\ q \in Zone /\ q # 0 /\ Raw(u, dir)[i].ino = n /\ IsDir(u, dir)
            /\ i < u.inode[dir].size
        <5>1. u \in State
          BY <3>1, SMTT(30) DEF Whole
        <5>2. q # 0 /\ Raw(u, dir)[i].ino = n /\ IsDir(u, dir) /\ i < u.inode[dir].size
          BY <2>1, <2>2, <2>3, <2>5, <3>1 DEF SameDisk, Raw, bmap, IsDir
        <5>3. q \in Zone \cup {0}
          BY <2>1, <5>1, StateFields, Sizes DEF bmap
        <5> QED BY <5>1, <5>2, <5>3
      <4>2. u.block \in [Zone -> [Slot -> Entry]]
        BY <4>1, StateFields
      <4>3. v = SetEntry(u, dir, i, e)
        BY <4>1 DEF SetEntry, State
      <4>4. u.block[q][i] \in Entry
        BY <2>2, <4>1, <4>2
      <4>5. e \in Entry /\ e.ino = 0
        BY <4>4 DEF Entry
      <4> HIDE DEF e, v
      <4>6. (n \in DOMAIN l => l[n] >= 1) /\ Whole(v, Plus(x, n), g)
        BY <2>1, <2>2, <3>1, <4>1, <4>3, <4>5, DropName
      <4>7. v.inode = u.inode /\ u.inode = t.inode
        BY <2>1, <2>2, <3>2, <4>1, <4>3, <4>5, SetFields DEF SameDisk
      <4>8. /\ g \in LinkTally /\ DOMAIN g = Ino \ W
            /\ \A m \in Ino \ W : g[m] = IF m = n THEN l[m] - 1 ELSE l[m]
        <5>1. n \in DOMAIN l => l[n] - 1 \in Nat
          BY <1>0, <4>6, LinkFacts
        <5> QED BY <1>0, <5>1, LinkSet
      <4>9. \A m \in DOMAIN g : g[m] = v.inode[m].nlinks - IF m = n THEN 1 ELSE 0
        <5>1. \A m \in Ino : t.inode[m].nlinks \in Nat
          BY <1>0, StateFields
        <5> HIDE DEF g
        <5> QED BY <1>0, <4>7, <4>8, <5>1
      <4> HIDE DEF g
      <4>10. ~IsDir(v, n) /\ v.inode[n].nlinks # 0
        BY <3>5, <4>7 DEF IsDir
      <4>11. Dead(w) \/ (Whole(w, Plus(x, n), g) /\ \A m \in DOMAIN g : g[m] = w.inode[m].nlinks)
        BY <3>1, <4>6, <4>9, <4>10, DropLinkKeeps
      <4> HIDE DEF w
      <4>12. r = z
        BY <1>3, <1>6, <2>7, <3>5
      <4>13. CASE Dead(w)
        <5>1. Halted(w)
          BY <4>13, DeadHalts
        <5>2. z = w
          BY <5>1 DEF iput
        <5> QED BY <4>12, <5>1, <5>2 DEF Done, r
      <4>14. CASE ~Dead(w)
        <5>1. Whole(w, Plus(x, n), g) /\ \A m \in DOMAIN g : g[m] = w.inode[m].nlinks
          BY <4>11, <4>14
        <5>2. Halted(z) \/ (Whole(z, h, g) /\ SameDisk(w, z))
          BY <1>0, <2>1, <3>1, <5>1, GiveBack DEF x
        <5> HIDE DEF z
        <5>3. CASE Halted(z)
          BY <4>12, <5>3 DEF Done, r
        <5>4. CASE ~Halted(z)
          <6>1. Whole(z, h, g) /\ SameDisk(w, z)
            BY <5>2, <5>4
          <6>2. \A m \in Ino \ W : g[m] <= z.inode[m].nlinks
            BY <4>8, <5>1, <6>1, LinkFacts DEF SameDisk
          <6>3. Done(z, h, W)
            BY <4>8, <6>1, <6>2, DoneIf
          <6> QED BY <4>12, <6>3 DEF r
        <5> QED BY <5>3, <5>4
      <4> QED BY <4>13, <4>14
    <3> QED BY <3>3, <3>4, <3>5
  <2> QED BY <2>6, <2>7
<1> QED BY <1>4, <1>5, <1>6

-----------------------------------------------------------------------------
(* The calls on files *)

\* What inode_open has come to, files being the open files before it.
Opens(o, files, h, W) ==
  \/ Halted(o[1])
  \/ /\ o[1].file = files
     /\ \/ (o[2] = NoIno /\ Whole(o[1], h, LinksOf(o[1], W)))
        \/ (o[2] \in Ino /\ Whole(o[1], Plus(h, o[2]), LinksOf(o[1], W)))

\* The end of inode_open, when the inode is in hand.
InHand(u, node, dir, flag) ==
  IF Halted(u) THEN <<u, node>>
  ELSE IF IsDir(u, node) /\ flag.access # "r" THEN <<iput(iput(u, dir), node), NoIno>>
  ELSE <<iput(IF flag.trunc THEN inode_truncate(u, node) ELSE u, dir), node>>

\* The end of inode_open keeps one reference and gives the other back.
LEMMA InHandKeeps ==
  ASSUME NEW h \in Tally, NEW W, NEW u, NEW g, NEW dir \in Ino, NEW n \in Ino, NEW flag,
         Whole(u, Plus(Plus(h, dir), n), g), Ino \ W \subseteq DOMAIN g,
         \A m \in Ino \ W : g[m] <= u.inode[m].nlinks
  PROVE  Opens(InHand(u, n, dir, flag), u.file, h, W)
<1> DEFINE back == iput(iput(u, dir), n)
           v == IF flag.trunc THEN inode_truncate(u, n) ELSE u
           w == iput(v, dir)
           x == Plus(h, n)
           o == InHand(u, n, dir, flag)
<1>0. h \in Tally /\ u \in State /\ ~Halted(u) /\ x \in Tally
  BY PlusFacts, StateFields DEF Whole, Halted
<1>1. o = IF IsDir(u, n) /\ flag.access # "r" THEN <<back, NoIno>> ELSE <<w, n>>
  BY <1>0 DEF InHand
<1>2. Halted(back) \/ (Whole(back, h, g) /\ SameDisk(u, back))
  BY <1>0, GiveBack
<1>3. Dead(v) \/ (Whole(v, Plus(x, dir), g) /\ SameCalls(u, v) /\ SameKinds(u, v))
  <2>1. Plus(Plus(h, dir), n) = Plus(x, dir)
    BY <1>0, PlusSwap
  <2>2. CASE flag.trunc
    BY <2>1, <2>2, inode_truncateKeeps
  <2>3. CASE ~flag.trunc
    BY <2>1, <2>3 DEF SameCalls, SameKinds
  <2> QED BY <2>2, <2>3
<1> HIDE DEF back, v, o, x
<1>4. CASE IsDir(u, n) /\ flag.access # "r"
  <2>1. o[1] = back /\ o[2] = NoIno
    BY <1>1, <1>4
  <2>2. CASE Halted(back)
    BY <2>1, <2>2 DEF Opens, o
  <2>3. CASE ~Halted(back)
    <3>1. Whole(back, h, g) /\ SameDisk(u, back)
      BY <1>2, <2>3
    <3>2. \A m \in Ino \ W : g[m] <= back.inode[m].nlinks
      BY <3>1 DEF SameDisk
    <3>3. Whole(back, h, LinksOf(back, W))
      BY <3>1, <3>2, ToLinks
    <3>4. Opens(o, u.file, h, W)
      BY <2>1, <3>1, <3>3 DEF Opens, SameDisk
    <3> QED BY <3>4 DEF o
  <2> QED BY <2>2, <2>3
<1>5. CASE ~(IsDir(u, n) /\ flag.access # "r")
  <2>1. o = <<w, n>>
    BY <1>1, <1>5
  <2> HIDE DEF w
  <2>2. o[1] = w /\ o[2] = n
    BY <2>1
  <2>3. CASE Dead(v)
    <3>1. Halted(v)
      BY <2>3, DeadHalts
    <3>2. w = v
      BY <3>1 DEF iput, w
    <3> QED BY <2>2, <3>1, <3>2 DEF Opens, o
  <2>4. CASE ~Dead(v)
    <3>1. Whole(v, Plus(x, dir), g) /\ SameCalls(u, v) /\ SameKinds(u, v)
      BY <1>3, <2>4
    <3>2. Halted(w) \/ (Whole(w, x, g) /\ SameDisk(v, w))
      BY <1>0, <3>1, iputFacts DEF w
    <3>3. CASE Halted(w)
      BY <2>2, <3>3 DEF Opens, o
    <3>4. CASE ~Halted(w)
      <4>1. Whole(w, x, g) /\ SameDisk(v, w)
        BY <3>2, <3>4
      <4>2. \A m \in Ino \ W : g[m] <= w.inode[m].nlinks
        BY <3>1, <4>1 DEF SameDisk, SameKinds
      <4>3. Whole(w, x, LinksOf(w, W))
        BY <4>1, <4>2, ToLinks
      <4>4. w.file = u.file
        BY <3>1, <4>1 DEF SameDisk, SameCalls
      <4>5. Opens(o, u.file, h, W)
        BY <2>2, <4>3, <4>4 DEF Opens, x
      <4> QED BY <4>5 DEF o
    <3> QED BY <3>3, <3>4
  <2> QED BY <2>3, <2>4
<1> QED BY <1>4, <1>5

\* inode_open.
LEMMA inode_openKeeps ==
  ASSUME NEW h, NEW W, NEW t, Whole(t, h, LinksOf(t, W)), NEW p \in Proc, NEW path \in Paths,
         NEW flag
  PROVE  Opens(inode_open(t, p, path, flag), t.file, h, W)
<1> DEFINE d == parent(t, p, path)
           D == d[1]
           dir == d[2]
           i == find_entry(D, dir, filename(path))
           n == Raw(D, dir)[i].ino
           u == iget(D, n)
           c == NewInode(D, dir, filename(path), "reg", 1)
           back == iput(D, dir)
           stop == Stop(D, "page zero")
           o == inode_open(t, p, path, flag)
           l == LinksOf(t, W)
<1>0. /\ h \in Tally /\ t \in State /\ l \in LinkTally /\ DOMAIN l = Ino \ W
      /\ \A m \in Ino \ W : l[m] = t.inode[m].nlinks
  BY LinksFacts DEF Whole
<1>1. CASE path.abs /\ path.names = << >>
  <2> DEFINE a == Start(t, p, path)
  <2>1. o = a
    BY <1>1 DEF inode_open
  <2>2. Reached(a, t, h, l) /\ a[2] \in Ino
    BY <1>1, StartKeeps, Sizes
  <2> HIDE DEF a, o
  <2>3. CASE Halted(a[1])
    BY <2>1, <2>3 DEF Opens, o
  <2>4. CASE ~Halted(a[1])
    <3>1. Whole(a[1], Plus(h, a[2]), l) /\ SameDisk(t, a[1])
      BY <2>2, <2>4, Sizes DEF Reached
    <3>2. LinksOf(a[1], W) = l
      BY <3>1 DEF SameDisk, LinksOf
    <3>3. Opens(a, t.file, h, W)
      BY <2>2, <3>1, <3>2 DEF Opens, SameDisk
    <3> QED BY <2>1, <3>3 DEF o
  <2> QED BY <2>3, <2>4
<1>2. CASE ~(path.abs /\ path.names = << >>)
  <2>1. /\ Len(path.names) \in Nat /\ (Len(path.names) = 0 => path.names = << >>)
        /\ filename(path) \in Name /\ 1 \in LinkCount
    BY PathFacts, Sizes DEF LinkCount
  <2>2. Reached(d, t, h, l) /\ (Halted(D) \/ dir = NoIno \/ IsDir(D, dir))
    BY <2>1, parentKeeps
  <2>3. o = IF Halted(D) THEN d
            ELSE IF dir = NoIno THEN <<stop, NoIno>>
            ELSE IF i # EOF THEN InHand(u, n, dir, flag)
            ELSE IF ~flag.creat THEN <<back, NoIno>>
            ELSE InHand(c[1], c[2], dir, flag)
    BY <1>2 DEF inode_open, InHand
  <2> HIDE DEF d, o, l
  <2>4. CASE Halted(D)
    BY <2>3, <2>4 DEF Opens, o
  <2>5. CASE ~Halted(D) /\ dir = NoIno
    <3>1. Whole(D, h, l) \/ Whole(D, Plus(h, dir), l)
      BY <2>2, <2>5 DEF Reached
    <3>2. Halted(stop)
      BY <3>1, StopHalts
    <3> HIDE DEF stop
    <3>3. o[1] = stop
      BY <2>3, <2>5
    <3> QED BY <3>2, <3>3 DEF Opens, o
  <2>6. CASE ~Halted(D) /\ dir # NoIno
    <3> DEFINE x == Plus(h, dir)
    <3>1. dir \in Ino /\ Whole(D, x, l) /\ SameDisk(t, D) /\ IsDir(D, dir)
      BY <2>2, <2>6 DEF Reached
    <3>2. D.file = t.file /\ D.inode = t.inode
      BY <3>1 DEF SameDisk
    <3> HIDE DEF D, dir
    <3>3. CASE i # EOF
      <4>1. o = InHand(u, n, dir, flag)
        BY <2>3, <2>6, <3>3
      <4>2. Halted(u) \/ (n \in Ino /\ Whole(u, Plus(x, n), l) /\ SameDisk(D, u))
        BY <3>1, igetFacts
      <4> HIDE DEF u, n, i
      <4>3. CASE Halted(u)
        <5>1. o[1] = u
          BY <4>1, <4>3 DEF InHand
        <5> QED BY <4>3, <5>1 DEF Opens, o
      <4>4. CASE ~Halted(u)
        <5>1. n \in Ino /\ Whole(u, Plus(x, n), l) /\ SameDisk(D, u)
          BY <4>2, <4>4
        <5>2. \A m \in Ino \ W : l[m] <= u.inode[m].nlinks
          <6>1. u.inode = t.inode /\ \A m \in Ino : t.inode[m].nlinks \in Nat
            BY <1>0, <3>2, <5>1, StateFields DEF SameDisk
          <6> QED BY <1>0, <6>1 DEF l
        <5>3. Opens(o, u.file, h, W)
          BY <1>0, <3>1, <4>1, <5>1, <5>2, InHandKeeps
        <5> QED BY <3>2, <5>1, <5>3 DEF SameDisk, o
      <4> QED BY <4>3, <4>4
    <3>4. CASE i = EOF /\ ~flag.creat
      <4>1. o = <<back, NoIno>>
        BY <2>3, <2>6, <3>4
      <4>2. Halted(back) \/ (Whole(back, h, l) /\ SameDisk(D, back))
        BY <1>0, <3>1, iputFacts
      <4> HIDE DEF back
      <4>3. o[1] = back /\ o[2] = NoIno
        BY <4>1
      <4>4. CASE Halted(back)
        BY <4>3, <4>4 DEF Opens, o
      <4>5. CASE ~Halted(back)
        <5>1. Whole(back, h, l) /\ back.inode = t.inode /\ back.file = t.file
          BY <3>2, <4>2, <4>5 DEF SameDisk
        <5>2. LinksOf(back, W) = l
          BY <5>1 DEF LinksOf, l
        <5> QED BY <4>3, <5>1, <5>2 DEF Opens, o
      <4> QED BY <4>4, <4>5
    <3>5. CASE i = EOF /\ flag.creat
      <4> DEFINE C == c[1]
                 k == c[2]
                 g == [l EXCEPT ![k] = 1]
      <4>1. o = InHand(C, k, dir, flag)
        BY <2>3, <2>6, <3>5
      <4>2. Halted(C) \/ Born(D, C, k, dir, x, l, "reg", 1)
        BY <2>1, <3>1, NewInodeKeeps
      <4> HIDE DEF C, k
      <4>3. CASE Halted(C)
        <5>1. o[1] = C
          BY <4>1, <4>3 DEF InHand
        <5> QED BY <4>3, <5>1 DEF Opens, o
      <4>4. CASE ~Halted(C)
        <5>1. /\ k \in Ino /\ Whole(C, Plus(x, k), g) /\ C.inode[k].nlinks = 1 /\ C.file = D.file
              /\ \A m \in Ino : m # k => C.inode[m].nlinks = D.inode[m].nlinks
          BY <4>2, <4>4 DEF Born
        <5>2. \A m \in Ino \ W : g[m] <= C.inode[m].nlinks
          <6> SUFFICES ASSUME NEW m \in Ino \ W PROVE g[m] <= C.inode[m].nlinks
            OBVIOUS
          <6>1. g[m] = IF m = k THEN 1 ELSE l[m]
            BY <1>0, <5>1, LinkSet DEF l
          <6>2. t.inode[m].nlinks \in Nat /\ l[m] = t.inode[m].nlinks
            BY <1>0, StateFields DEF l
          <6> HIDE DEF g
          <6> QED BY <3>2, <5>1, <6>1, <6>2
        <5>3. Ino \ W \subseteq DOMAIN g
          BY <1>0, LinkSet DEF l
        <5> HIDE DEF g
        <5>4. Opens(o, C.file, h, W)
          BY <1>0, <3>1, <4>1, <5>1, <5>2, <5>3, InHandKeeps
        <5> QED BY <3>2, <5>1, <5>4 DEF o
      <4> QED BY <4>3, <4>4
    <3> QED BY <3>3, <3>4, <3>5
  <2> QED BY <2>4, <2>5, <2>6
<1> QED BY <1>1, <1>2
\* A descriptor, or a working directory, is given another value.
SetFile(t, p, fd, f) ==
  [t EXCEPT !.file = [t.file EXCEPT ![p] = [t.file[p] EXCEPT ![fd] = f]]]
SetPwd(t, p, n) == [t EXCEPT !.pwd = [t.pwd EXCEPT ![p] = n]]

\* Open files and working directories are finite in number.
LEMMA OpenFinite ==
  ASSUME NEW fl, NEW pw, NEW n
  PROVE  /\ IsFiniteSet(OpenOf(fl, n)) /\ Cardinality(OpenOf(fl, n)) \in Nat
         /\ IsFiniteSet(PwdOf(pw, n)) /\ Cardinality(PwdOf(pw, n)) \in Nat
         /\ Base(n) \in Nat
<1>1. IsFiniteSet(Proc) /\ IsFiniteSet(Fd)
  BY Sizes, FS_Interval DEF Fd
<1>2. IsFiniteSet(Proc \X Fd)
  BY <1>1, FS_Product
<1>3. Cardinality(Proc) \in Nat
  BY <1>1, FS_CardinalityType
<1>4. PwdOf(pw, n) \subseteq Proc /\ OpenOf(fl, n) \subseteq Proc \X Fd
  BY DEF PwdOf, OpenOf
<1>5. IsFiniteSet(OpenOf(fl, n)) /\ IsFiniteSet(PwdOf(pw, n))
  BY <1>1, <1>2, <1>4, FS_Subset
<1> QED BY <1>3, <1>5, FS_CardinalityType DEF Base

\* What giving a descriptor another value changes.
LEMMA SetFileFields ==
  ASSUME NEW t \in State, NEW p \in Proc, NEW fd \in Fd, NEW f \in File
  PROVE  LET u == SetFile(t, p, fd, f)
         IN  /\ u \in State /\ u.inode = t.inode /\ u.imap = t.imap /\ u.zmap = t.zmap
             /\ u.block = t.block /\ u.count = t.count /\ u.pwd = t.pwd
             /\ \A q \in Proc, g \in Fd :
                  u.file[q][g] = IF q = p /\ g = fd THEN f ELSE t.file[q][g]
<1> DEFINE row == [t.file[p] EXCEPT ![fd] = f]
           fl == [t.file EXCEPT ![p] = row]
<1>1. t.file \in [Proc -> [Fd -> File]]
  BY StateFields
<1>2. row \in [Fd -> File] /\ \A g \in Fd : row[g] = IF g = fd THEN f ELSE t.file[p][g]
  BY <1>1
<1> HIDE DEF row
<1>3. fl \in [Proc -> [Fd -> File]] /\ \A q \in Proc : fl[q] = IF q = p THEN row ELSE t.file[q]
  BY <1>1, <1>2
<1>4. \A q \in Proc, g \in Fd : fl[q][g] = IF q = p /\ g = fd THEN f ELSE t.file[q][g]
  BY <1>2, <1>3
<1>5. SetFile(t, p, fd, f) = [t EXCEPT !.file = fl]
  BY DEF SetFile, row
<1> HIDE DEF fl
<1> DEFINE u == SetFile(t, p, fd, f)
<1> HIDE DEF u
<1>6. u = [t EXCEPT !.file = fl]
  BY <1>5 DEF u
<1>7. /\ u \in State /\ u.inode = t.inode /\ u.imap = t.imap /\ u.zmap = t.zmap
      /\ u.block = t.block /\ u.count = t.count /\ u.pwd = t.pwd /\ u.file = fl
  BY <1>3, <1>6 DEF State
<1> QED BY <1>4, <1>7 DEF u

\* A descriptor takes a reference from the call, or gives it back.
LEMMA SetFileKeeps ==
  ASSUME NEW t, NEW x, NEW l, Whole(t, x, l), NEW p \in Proc, NEW fd \in Fd, NEW f \in File,
         NEW y \in Tally,
         \A m \in Ino : Cardinality(OpenOf(SetFile(t, p, fd, f).file, m)) + y[m]
                          = Cardinality(OpenOf(t.file, m)) + x[m]
  PROVE  Whole(SetFile(t, p, fd, f), y, l)
<1> DEFINE u == SetFile(t, p, fd, f)
<1>1. t \in State /\ x \in Tally
  BY DEF Whole
<1>2. /\ u \in State /\ u.inode = t.inode /\ u.imap = t.imap /\ u.zmap = t.zmap
      /\ u.block = t.block /\ u.count = t.count /\ u.pwd = t.pwd
  BY <1>1, SetFileFields
<1>3. \A m \in Ino : Cardinality(OpenOf(u.file, m)) + y[m] = Cardinality(OpenOf(t.file, m)) + x[m]
  BY SMTT(30)
<1> HIDE DEF u
<1>4. Zoned(u) /\ Clean(u)
  BY <1>2 DEF Whole, Zoned, Clean, IsDir
<1>5. \A n : NamingIn(u, n) = NamingIn(t, n)
  BY <1>2 DEF NamingIn, Raw, bmap, IsDir
<1>6. Covered(u, l)
  BY <1>2, <1>5 DEF Whole, Covered
<1>7. Counted(u, y)
  <2> SUFFICES ASSUME NEW m \in Ino PROVE u.count[m] = Refs(u.pwd, u.file, m) + y[m]
    BY DEF Counted
  <2>1. t.count[m] = Refs(t.pwd, t.file, m) + x[m] /\ x[m] \in Nat /\ y[m] \in Nat
    BY <1>1 DEF Whole, Counted, Tally
  <2>2. /\ Cardinality(OpenOf(u.file, m)) \in Nat /\ Cardinality(OpenOf(t.file, m)) \in Nat
        /\ Cardinality(PwdOf(t.pwd, m)) \in Nat /\ Base(m) \in Nat
    BY OpenFinite
  <2>3. Cardinality(OpenOf(u.file, m)) + y[m] = Cardinality(OpenOf(t.file, m)) + x[m]
    BY <1>3
  <2>4. u.count[m] = t.count[m] /\ u.pwd = t.pwd
    BY <1>2
  <2> QED BY <2>1, <2>2, <2>3, <2>4 DEF Refs
<1> QED BY <1>2, <1>4, <1>6, <1>7 DEF Whole, u

\* A descriptor is free, or has an inode.
LEMMA FileFacts ==
  ASSUME NEW f \in File
  PROVE  /\ f = NoFile \/ (f.ino \in Ino /\ f.offset \in Nat /\ f.access \in Access)
         /\ f.ino = NoIno => f = NoFile
         /\ NoFile.ino = NoIno /\ NoFile \in File
BY Sizes DEF File, NoFile

\* The reference of the call becomes that of a descriptor.
LEMMA OpenKeeps ==
  ASSUME NEW t, NEW x \in Tally, NEW l, NEW n \in Ino, Whole(t, Plus(x, n), l), NEW p \in Proc,
         NEW fd \in Fd, NEW f \in File, f.ino = n, t.file[p][fd] = NoFile
  PROVE  Whole(SetFile(t, p, fd, f), x, l)
<1> DEFINE u == SetFile(t, p, fd, f)
           a == <<p, fd>>
<1>1. t \in State
  BY DEF Whole
<1>2. \A q \in Proc, g \in Fd : u.file[q][g] = IF q = p /\ g = fd THEN f ELSE t.file[q][g]
  BY <1>1, SetFileFields
<1>3. NoFile.ino \notin Ino
  BY FileFacts, Sizes
<1> HIDE DEF u
<1>4. a \notin OpenOf(t.file, n)
  BY <1>3 DEF OpenOf
<1>5. \A m \in Ino : OpenOf(u.file, m) = IF m = n THEN OpenOf(t.file, m) \cup {a} ELSE OpenOf(t.file, m)
  <2> SUFFICES ASSUME NEW m \in Ino
               PROVE  OpenOf(u.file, m) =
                      IF m = n THEN OpenOf(t.file, m) \cup {a} ELSE OpenOf(t.file, m)
    OBVIOUS
  <2>1. \A e : e \in OpenOf(u.file, m) <=> e \in Proc \X Fd /\ u.file[e[1]][e[2]].ino = m
    BY DEF OpenOf
  <2>2. \A e : e \in OpenOf(t.file, m) <=> e \in Proc \X Fd /\ t.file[e[1]][e[2]].ino = m
    BY DEF OpenOf
  <2>3. \A e \in Proc \X Fd :
          u.file[e[1]][e[2]] = IF e = a THEN f ELSE t.file[e[1]][e[2]]
    BY <1>2
  <2>4. a \in Proc \X Fd /\ t.file[a[1]][a[2]] = t.file[p][fd]
    OBVIOUS
  <2> HIDE DEF a
  <2> QED BY <1>3, <2>1, <2>2, <2>3, <2>4
<1> HIDE DEF a
<1>6. ASSUME NEW m \in Ino
      PROVE  Cardinality(OpenOf(u.file, m)) + x[m] = Cardinality(OpenOf(t.file, m)) + Plus(x, n)[m]
  <2> DEFINE N == OpenOf(t.file, m)
  <2>1. IsFiniteSet(N) /\ Cardinality(N) \in Nat
    BY OpenFinite
  <2>2. Plus(x, n)[m] = (IF m = n THEN x[m] + 1 ELSE x[m]) /\ x[m] \in Nat
    BY PlusFacts DEF Tally
  <2>3. CASE m = n
    <3>1. OpenOf(u.file, m) = N \cup {a} /\ a \notin N
      BY <1>4, <1>5, <2>3
    <3> HIDE DEF N
    <3>2. Cardinality(N \cup {a}) = Cardinality(N) + 1
      BY <2>1, <3>1, FS_AddElement
    <3>3. Cardinality(OpenOf(u.file, m)) + x[m] = Cardinality(N) + Plus(x, n)[m]
      BY <2>1, <2>2, <2>3, <3>1, <3>2
    <3> QED BY <3>3 DEF N
  <2>4. CASE m # n
    BY <1>5, <2>1, <2>2, <2>4
  <2> QED BY <2>3, <2>4
<1> QED BY <1>6, SetFileKeeps DEF u

\* The reference of a descriptor becomes that of the call.
LEMMA CloseKeeps ==
  ASSUME NEW t, NEW x, NEW l, Whole(t, x, l), NEW p \in Proc,
         NEW fd \in Fd, NEW n \in Ino, t.file[p][fd].ino = n
  PROVE  Whole(SetFile(t, p, fd, NoFile), Plus(x, n), l)
<1> DEFINE u == SetFile(t, p, fd, NoFile)
           a == <<p, fd>>
<1>1. t \in State /\ x \in Tally /\ NoFile \in File
  BY StateFields DEF Whole, File
<1>2. \A q \in Proc, g \in Fd : u.file[q][g] = IF q = p /\ g = fd THEN NoFile ELSE t.file[q][g]
  BY <1>1, SetFileFields
<1>3. NoFile.ino \notin Ino
  BY <1>1, FileFacts, Sizes
<1> HIDE DEF u
<1>4. a \in OpenOf(t.file, n)
  BY DEF OpenOf
<1>5. \A m \in Ino : OpenOf(u.file, m) = IF m = n THEN OpenOf(t.file, m) \ {a} ELSE OpenOf(t.file, m)
  <2> SUFFICES ASSUME NEW m \in Ino
               PROVE  OpenOf(u.file, m) =
                      IF m = n THEN OpenOf(t.file, m) \ {a} ELSE OpenOf(t.file, m)
    OBVIOUS
  <2>1. \A e : e \in OpenOf(u.file, m) <=> e \in Proc \X Fd /\ u.file[e[1]][e[2]].ino = m
    BY DEF OpenOf
  <2>2. \A e : e \in OpenOf(t.file, m) <=> e \in Proc \X Fd /\ t.file[e[1]][e[2]].ino = m
    BY DEF OpenOf
  <2>3. \A e \in Proc \X Fd :
          u.file[e[1]][e[2]] = IF e = a THEN NoFile ELSE t.file[e[1]][e[2]]
    BY <1>2
  <2>4. a \in Proc \X Fd /\ t.file[a[1]][a[2]] = t.file[p][fd]
    OBVIOUS
  <2> HIDE DEF a
  <2> QED BY <1>3, <2>1, <2>2, <2>3, <2>4
<1> HIDE DEF a
<1>6. ASSUME NEW m \in Ino
      PROVE  Cardinality(OpenOf(u.file, m)) + Plus(x, n)[m] = Cardinality(OpenOf(t.file, m)) + x[m]
  <2> DEFINE N == OpenOf(t.file, m)
  <2>1. IsFiniteSet(N) /\ Cardinality(N) \in Nat
    BY OpenFinite
  <2>2. Plus(x, n)[m] = (IF m = n THEN x[m] + 1 ELSE x[m]) /\ x[m] \in Nat
    BY <1>1, PlusFacts DEF Tally
  <2>3. CASE m = n
    <3>1. OpenOf(u.file, m) = N \ {a} /\ a \in N
      BY <1>4, <1>5, <2>3
    <3> HIDE DEF N
    <3>2. Cardinality(N \ {a}) = Cardinality(N) - 1
      BY <2>1, <3>1, FS_RemoveElement
    <3>3. Cardinality(OpenOf(u.file, m)) + Plus(x, n)[m] = Cardinality(N) + x[m]
      BY <2>1, <2>2, <2>3, <3>1, <3>2
    <3> QED BY <3>3 DEF N
  <2>4. CASE m # n
    BY <1>5, <2>1, <2>2, <2>4
  <2> QED BY <2>3, <2>4
<1>7. Plus(x, n) \in Tally
  BY <1>1, PlusFacts
<1> QED BY <1>1, <1>6, <1>7, SetFileKeeps DEF u

\* A descriptor of the same inode.
LEMMA MoveKeeps ==
  ASSUME NEW t, NEW x, NEW l, Whole(t, x, l), NEW p \in Proc,
         NEW fd \in Fd, NEW f \in File, f.ino = t.file[p][fd].ino
  PROVE  Whole(SetFile(t, p, fd, f), x, l)
<1> DEFINE u == SetFile(t, p, fd, f)
<1>1. t \in State /\ x \in Tally
  BY DEF Whole
<1>2. \A q \in Proc, g \in Fd : u.file[q][g] = IF q = p /\ g = fd THEN f ELSE t.file[q][g]
  BY <1>1, SetFileFields
<1> HIDE DEF u
<1>3. \A m \in Ino : OpenOf(u.file, m) = OpenOf(t.file, m)
  <2>1. \A q \in Proc, g \in Fd : u.file[q][g].ino = t.file[q][g].ino
    BY <1>2
  <2> QED BY <2>1 DEF OpenOf
<1> QED BY <1>1, <1>3, SetFileKeeps DEF u
\* iput counts down, or the kernel stops.
LEMMA iputForm ==
  ASSUME NEW t \in State, NEW n \in Ino
  PROVE  \/ (t.count[n] = 0 /\ Dead(iput(t, n)))
         \/ (t.count[n] # 0 /\ iput(t, n) = [t EXCEPT !.count = [t.count EXCEPT ![n] = t.count[n] - 1]])
<1>1. t.halt = "no" /\ n # NoIno
  BY StateFields, Sizes
<1>2. Dead(Stop(t, "iput"))
  BY StateDomain, StopDies
<1> QED BY <1>1, <1>2 DEF iput, Halted

\* sys_close.
LEMMA sys_closeKeeps ==
  ASSUME NEW h, NEW W, NEW t, Whole(t, h, LinksOf(t, W)), NEW p \in Proc, NEW fd \in Fd, t.file[p][fd] # NoFile
  PROVE  Done([iput(t, t.file[p][fd].ino) EXCEPT !.file[p][fd] = NoFile], h, W)
<1> DEFINE n == t.file[p][fd].ino
           v == iput(t, n)
           u == [v EXCEPT !.file[p][fd] = NoFile]
           w == SetFile(t, p, fd, NoFile)
           y == iput(w, n)
<1>0. t \in State /\ h \in Tally /\ NoFile \in File
  BY DEF Whole, File
<1>1. n \in Ino
  <2>1. t.file[p][fd] \in File
    BY <1>0, StateFields
  <2> QED BY <2>1, FileFacts
<1>2. Whole(w, Plus(h, n), LinksOf(t, W))
  BY <1>1, CloseKeeps
<1>3. Halted(y) \/ (Whole(y, h, LinksOf(t, W)) /\ SameDisk(w, y))
  BY <1>0, <1>1, <1>2, iputFacts
<1>4. w \in State /\ w.count = t.count /\ w.inode = t.inode
  BY <1>0, SetFileFields
<1>5. w = [t EXCEPT !.file = [t.file EXCEPT ![p] = [t.file[p] EXCEPT ![fd] = NoFile]]]
  BY SMTT(30) DEF SetFile
<1> HIDE DEF n, w
<1>6. CASE t.count[n] = 0
  <2>1. Dead(v)
    BY <1>0, <1>1, <1>6, iputForm
  <2> HIDE DEF v
  <2>2. Dead(u)
    BY <2>1, SMTT(30) DEF Dead
  <2> QED BY <2>2, DeadHalts DEF Done, n, v
<1>7. CASE t.count[n] # 0
  <2> DEFINE cc == [t.count EXCEPT ![n] = t.count[n] - 1]
             ff == [t.file EXCEPT ![p] = [t.file[p] EXCEPT ![fd] = NoFile]]
  <2>1. v = [t EXCEPT !.count = cc]
    BY <1>0, <1>1, <1>7, iputForm
  <2>2. y = [w EXCEPT !.count = cc]
    BY <1>1, <1>4, <1>7, iputForm
  <2> HIDE DEF v, y, cc
  <2>3. v.file = t.file
    BY <1>0, <2>1 DEF State
  <2>4. u = [v EXCEPT !.file = ff]
    BY <2>3
  <2> HIDE DEF ff, u
  <2>41. w = [t EXCEPT !.file = ff]
    BY <1>5 DEF ff
  <2>5. u = y
    BY <1>0, <2>1, <2>2, <2>4, <2>41 DEF State
  <2>6. Done(y, h, W)
    <3>1. CASE Halted(y)
      BY <3>1 DEF Done
    <3>2. CASE ~Halted(y)
      <4>1. Whole(y, h, LinksOf(t, W)) /\ SameDisk(w, y)
        BY <1>3, <3>2
      <4>2. LinksOf(y, W) = LinksOf(t, W)
        BY <1>4, <4>1 DEF SameDisk, LinksOf
      <4> QED BY <4>1, <4>2 DEF Done
    <3> QED BY <3>1, <3>2
  <2> QED BY <2>5, <2>6 DEF u, v, n
<1> QED BY <1>6, <1>7

\* The reference of the call becomes that of the working directory, and the
\* other way round.
LEMMA SetPwdKeeps ==
  ASSUME NEW t, NEW x \in Tally, NEW l, NEW n \in Ino, Whole(t, Plus(x, n), l), NEW p \in Proc,
         IsDir(t, n), t.pwd[p] # n
  PROVE  /\ Whole(SetPwd(t, p, n), Plus(x, t.pwd[p]), l)
         /\ SetPwd(t, p, n).count = t.count /\ SetPwd(t, p, n).inode = t.inode
<1> DEFINE u == SetPwd(t, p, n)
           pw == [t.pwd EXCEPT ![p] = n]
           o == t.pwd[p]
<1>1. t \in State /\ t.pwd \in [Proc -> Ino]
  BY StateFields DEF Whole
<1>2. pw \in [Proc -> Ino] /\ \A q \in Proc : pw[q] = IF q = p THEN n ELSE t.pwd[q]
  BY <1>1
<1>3. u = [t EXCEPT !.pwd = pw]
  BY DEF SetPwd
<1>4. o \in Ino /\ o # n
  BY <1>1
<1> HIDE DEF pw
<1>5. /\ u \in State /\ u.inode = t.inode /\ u.imap = t.imap /\ u.zmap = t.zmap
      /\ u.block = t.block /\ u.count = t.count /\ u.pwd = pw /\ u.file = t.file
  BY <1>1, <1>2, <1>3 DEF State
<1> HIDE DEF u
<1>6. Zoned(u)
  BY <1>5 DEF Whole, Zoned
<1>7. \A m : IsDir(u, m) <=> IsDir(t, m)
  BY <1>5 DEF IsDir
<1>8. Clean(u)
  <2>1. \A q \in Proc : IsDir(t, pw[q])
    BY <1>2 DEF Whole, Clean
  <2> QED BY <1>5, <1>7, <2>1 DEF Whole, Clean
<1>9. \A k : NamingIn(u, k) = NamingIn(t, k)
  BY <1>5 DEF NamingIn, Raw, bmap, IsDir
<1>10. Covered(u, l)
  BY <1>5, <1>9 DEF Whole, Covered
<1>11. ASSUME NEW m \in Ino
       PROVE  PwdOf(pw, m) = IF m = n THEN PwdOf(t.pwd, m) \cup {p}
                             ELSE IF m = o THEN PwdOf(t.pwd, m) \ {p} ELSE PwdOf(t.pwd, m)
  BY <1>2, <1>4 DEF PwdOf
<1>12. p \notin PwdOf(t.pwd, n) /\ p \in PwdOf(t.pwd, o)
  BY <1>4 DEF PwdOf
<1> HIDE DEF o
<1>13. Counted(u, Plus(x, o))
  <2> SUFFICES ASSUME NEW m \in Ino PROVE u.count[m] = Refs(u.pwd, u.file, m) + Plus(x, o)[m]
    BY DEF Counted
  <2> DEFINE N == PwdOf(t.pwd, m)
             F == Cardinality(OpenOf(t.file, m))
             B == Base(m)
             M == PwdOf(pw, m)
  <2>1. t.count[m] = B + Cardinality(N) + F + Plus(x, n)[m]
    BY DEF Whole, Counted, Refs
  <2>2. IsFiniteSet(N) /\ Cardinality(N) \in Nat /\ F \in Nat /\ B \in Nat
    BY OpenFinite
  <2>3. /\ Plus(x, n)[m] = (IF m = n THEN x[m] + 1 ELSE x[m]) /\ x[m] \in Nat
        /\ Plus(x, o)[m] = (IF m = o THEN x[m] + 1 ELSE x[m])
    BY <1>4, PlusFacts DEF Tally
  <2>4. Refs(u.pwd, u.file, m) = B + Cardinality(M) + F /\ u.count[m] = t.count[m]
    BY <1>5 DEF Refs
  <2>5. M = IF m = n THEN N \cup {p} ELSE IF m = o THEN N \ {p} ELSE N
    BY <1>11
  <2>6. (m = n => p \notin N) /\ (m = o => p \in N)
    BY <1>12
  <2> HIDE DEF N, F, B, M
  <2>7. CASE m = n
    <3>1. Cardinality(N \cup {p}) = Cardinality(N) + 1
      BY <2>2, <2>6, <2>7, FS_AddElement
    <3> QED BY <1>4, <2>1, <2>2, <2>3, <2>4, <2>5, <2>7, <3>1
  <2>8. CASE m = o
    <3>1. Cardinality(N \ {p}) = Cardinality(N) - 1
      BY <2>2, <2>6, <2>8, FS_RemoveElement
    <3> QED BY <1>4, <2>1, <2>2, <2>3, <2>4, <2>5, <2>8, <3>1
  <2>9. CASE m # n /\ m # o
    BY <2>1, <2>2, <2>3, <2>4, <2>5, <2>9
  <2> QED BY <2>7, <2>8, <2>9
<1>14. Plus(x, o) \in Tally
  BY <1>4, PlusFacts
<1> QED BY <1>5, <1>6, <1>8, <1>10, <1>13, <1>14 DEF Whole, u, o

\* sys_chdir.
LEMMA ChDirKeeps ==
  ASSUME NEW h, NEW W, NEW t, Whole(t, h, LinksOf(t, W)), NEW p \in Proc, NEW path \in DirPaths
  PROVE  Done(ChDir(t, p, path), h, W)
<1> DEFINE a == namei(t, p, path)
           A == a[1]
           n == a[2]
           o == t.pwd[p]
           back == iput(A, n)
           v == iput(A, o)
           u == [v EXCEPT !.pwd[p] = n]
           w == SetPwd(A, p, n)
           y == iput(w, o)
           r == ChDir(t, p, path)
           l == LinksOf(t, W)
<1>0. t \in State /\ h \in Tally /\ o \in Ino
  BY StateFields DEF Whole
<1>1. Len(path.names) \in Nat
  BY PathFacts
<1>2. Reached(a, t, h, l)
  BY <1>1, nameiKeeps
<1>3. r = IF Halted(A) \/ n = NoIno THEN A
          ELSE IF ~IsDir(A, n) \/ n = o THEN back ELSE u
  BY DEF ChDir
<1> HIDE DEF a, r, l
<1>4. CASE Halted(A)
  BY <1>3, <1>4 DEF Done, r
<1>5. CASE ~Halted(A) /\ n = NoIno
  <2>1. Whole(A, h, l) /\ SameDisk(t, A)
    BY <1>2, <1>5, Sizes DEF Reached
  <2>2. Done(A, h, W)
    BY <1>0, <2>1, DoneSame DEF l
  <2> QED BY <1>3, <1>5, <2>2 DEF r
<1>6. CASE ~Halted(A) /\ n # NoIno
  <2>1. n \in Ino /\ Whole(A, Plus(h, n), l) /\ SameDisk(t, A)
    BY <1>2, <1>6 DEF Reached
  <2>2. A \in State /\ A.pwd = t.pwd /\ A.inode = t.inode
    BY <2>1 DEF Whole, SameDisk
  <2> HIDE DEF A, n
  <2>3. CASE ~IsDir(A, n) \/ n = o
    <3>1. r = back
      BY <1>3, <1>6, <2>3
    <3>2. Halted(back) \/ (Whole(back, h, l) /\ SameDisk(A, back))
      BY <1>0, <2>1, iputFacts
    <3> HIDE DEF back
    <3>3. CASE Halted(back)
      BY <3>1, <3>3 DEF Done, r
    <3>4. CASE ~Halted(back)
      <4>1. Whole(back, h, l) /\ SameDisk(t, back)
        BY <2>1, <3>2, <3>4, SameDiskTrans
      <4>2. Done(back, h, W)
        BY <1>0, <4>1, DoneSame DEF l
      <4> QED BY <3>1, <4>2 DEF r
    <3> QED BY <3>3, <3>4
  <2>4. CASE IsDir(A, n) /\ n # o
    <3>1. r = u
      BY <1>3, <1>6, <2>4
    <3>2. Whole(w, Plus(h, o), l) /\ w.count = A.count /\ w.inode = A.inode
      <4>1. A.pwd[p] = o
        BY <2>2
      <4> HIDE DEF o
      <4> QED BY <1>0, <2>1, <2>4, <4>1, SetPwdKeeps
    <3>3. w = [A EXCEPT !.pwd = [A.pwd EXCEPT ![p] = n]]
      BY DEF SetPwd
    <3> HIDE DEF w, o
    <3>4. Halted(y) \/ (Whole(y, h, l) /\ SameDisk(w, y))
      BY <1>0, <3>2, iputFacts
    <3>5. w \in State
      BY <3>2 DEF Whole
    <3>6. CASE A.count[o] = 0
      <4>1. Dead(v)
        BY <1>0, <2>2, <3>6, iputForm
      <4> HIDE DEF v
      <4>2. Dead(u)
        BY <4>1 DEF Dead
      <4> QED BY <3>1, <4>2, DeadHalts DEF Done, r
    <3>7. CASE A.count[o] # 0
      <4> DEFINE cc == [A.count EXCEPT ![o] = A.count[o] - 1]
                 pw == [A.pwd EXCEPT ![p] = n]
      <4>1. v = [A EXCEPT !.count = cc]
        BY <1>0, <2>2, <3>7, iputForm
      <4>2. y = [w EXCEPT !.count = cc]
        BY <1>0, <3>2, <3>5, <3>7, iputForm
      <4> HIDE DEF v, y, cc
      <4>3. v.pwd = A.pwd
        BY <2>2, <4>1 DEF State
      <4>4. u = [v EXCEPT !.pwd = pw]
        BY <4>3
      <4>5. w = [A EXCEPT !.pwd = pw]
        BY <3>3
      <4> HIDE DEF pw, u
      <4>6. u = y
        BY <2>2, <4>1, <4>2, <4>4, <4>5 DEF State
      <4>7. Done(y, h, W)
        <5>1. CASE Halted(y)
          BY <5>1 DEF Done
        <5>2. CASE ~Halted(y)
          <6>1. Whole(y, h, l) /\ SameDisk(w, y)
            BY <3>4, <5>2
          <6>2. LinksOf(y, W) = l
            BY <2>2, <3>2, <6>1 DEF SameDisk, LinksOf, l
          <6> QED BY <6>1, <6>2 DEF Done
        <5> QED BY <5>1, <5>2
      <4> QED BY <3>1, <4>6, <4>7 DEF r
    <3> QED BY <3>6, <3>7
  <2> QED BY <2>3, <2>4
<1> QED BY <1>4, <1>5, <1>6
\* The end of sys_open: the descriptor takes the reference of inode_open.
LEMMA GivenKeeps ==
  ASSUME NEW h, NEW W, NEW t, Whole(t, h, LinksOf(t, W)), NEW p \in Proc,
         NEW flag \in Flags, NEW o,
         Opens(o, t.file, h, W), ~Halted(o[1]), o[2] # NoIno,
         NEW fd \in Fd, t.file[p][fd] = NoFile
  PROVE  Done([o[1] EXCEPT !.file[p][fd] =
                 [ino |-> o[2], access |-> flag.access,
                  offset |-> IF flag.append THEN o[1].inode[o[2]].size ELSE 0]], h, W)
<1> DEFINE u == o[1]
           n == o[2]
           f == [ino |-> n, access |-> flag.access,
                 offset |-> IF flag.append THEN u.inode[n].size ELSE 0]
           w == SetFile(u, p, fd, f)
<1>1. n \in Ino /\ u.file = t.file /\ Whole(u, Plus(h, n), LinksOf(u, W))
  BY DEF Opens
<1>2. u \in State /\ u.inode[n].size \in Nat /\ h \in Tally
  BY <1>1, StateFields DEF Whole
<1> HIDE DEF u, n
<1>3. (IF flag.append THEN u.inode[n].size ELSE 0) \in Nat
  BY <1>2
<1>4. flag.access \in Access
  BY DEF Access
<1>5. f \in File /\ f.ino = n
  <2> DEFINE of == IF flag.append THEN u.inode[n].size ELSE 0
             ac == flag.access
  <2>1. of \in Nat /\ ac \in Access
    BY <1>3, <1>4
  <2> HIDE DEF of, ac
  <2>2. [ino |-> n, access |-> ac, offset |-> of] \in File
    BY <1>1, <2>1 DEF File
  <2> QED BY <2>2 DEF of, ac
<1> HIDE DEF f
<1>6. u.file[p][fd] = NoFile
  BY <1>1
<1>7. Whole(w, h, LinksOf(u, W))
  BY <1>1, <1>2, <1>5, <1>6, OpenKeeps
<1>8. w.inode = u.inode
  BY <1>2, <1>5, SetFileFields
<1>9. LinksOf(w, W) = LinksOf(u, W)
  BY <1>8 DEF LinksOf
<1>10. w = [u EXCEPT !.file[p][fd] = f]
  BY <1>2 DEF SetFile, State
<1> HIDE DEF w
<1>11. Done(w, h, W)
  BY <1>7, <1>9 DEF Done
<1> QED BY <1>10, <1>11 DEF f, u, n

\* sys_open.
LEMMA OpenStep ==
  ASSUME NEW h, NEW W, Whole(s, h, LinksOf(s, W)), NEW p \in Proc, sys_open(p)
  PROVE  Done(s', h, W)
<1>1. PICK path \in Paths, flag \in Flags :
        LET unused == {fd \in Fd : s.file[p][fd] = NoFile}
            Given(u, n) ==
              IF Halted(u) \/ n = NoIno THEN u
              ELSE IF unused = {} THEN iput(u, n)
              ELSE [u EXCEPT !.file[p][Min(unused)] =
                      [ino |-> n, access |-> flag.access,
                       offset |-> IF flag.append THEN u.inode[n].size ELSE 0]]
            Result(o) == Given(o[1], o[2])
        IN  s' = Result(inode_open(s, p, path, flag))
  BY DEF sys_open
<1> DEFINE o == inode_open(s, p, path, flag)
           u == o[1]
           n == o[2]
           unused == {fd \in Fd : s.file[p][fd] = NoFile}
           v == iput(u, n)
           w == [u EXCEPT !.file[p][Min(unused)] =
                      [ino |-> n, access |-> flag.access,
                       offset |-> IF flag.append THEN u.inode[n].size ELSE 0]]
<1>2. s' = IF Halted(u) \/ n = NoIno THEN u ELSE IF unused = {} THEN v ELSE w
  BY <1>1
<1>3. Opens(o, s.file, h, W)
  BY inode_openKeeps
<1> HIDE DEF o
<1>4. CASE Halted(u)
  BY <1>2, <1>4 DEF Done
<1>5. CASE ~Halted(u) /\ n = NoIno
  BY <1>2, <1>3, <1>5, Sizes DEF Done, Opens
<1>6. CASE ~Halted(u) /\ n # NoIno /\ unused = {}
  <2>1. n \in Ino /\ Whole(u, Plus(h, n), LinksOf(u, W))
    BY <1>3, <1>6 DEF Opens
  <2>2. Halted(v) \/ (Whole(v, h, LinksOf(u, W)) /\ SameDisk(u, v))
    <3>1. h \in Tally
      BY DEF Whole
    <3> QED BY <2>1, <3>1, iputFacts
  <2>3. s' = v
    BY <1>2, <1>6
  <2> HIDE DEF v
  <2>4. CASE Halted(v)
    BY <2>3, <2>4 DEF Done
  <2>5. CASE ~Halted(v)
    <3>1. Whole(v, h, LinksOf(u, W)) /\ SameDisk(u, v) /\ u \in State
      BY <2>1, <2>2, <2>5 DEF Whole
    <3>2. Done(v, h, W)
      BY <3>1, DoneSame
    <3> QED BY <2>3, <3>2
  <2> QED BY <2>4, <2>5
<1>7. CASE ~Halted(u) /\ n # NoIno /\ unused # {}
  <2>1. unused \in SUBSET Nat
    BY DEF Fd
  <2>2. Min(unused) \in unused
    BY <1>7, <2>1, MinFacts
  <2> DEFINE fd == Min(unused)
  <2>3. fd \in Fd /\ s.file[p][fd] = NoFile
    BY <2>2
  <2>4. s' = w
    BY <1>2, <1>7
  <2> HIDE DEF fd, unused
  <2>5. Done(w, h, W)
    BY <1>3, <1>7, <2>3, GivenKeeps DEF fd
  <2> HIDE DEF w
  <2> QED BY <2>4, <2>5
<1> QED BY <1>4, <1>5, <1>6, <1>7

\* sys_read and sys_lseek.
LEMMA ReadStep ==
  ASSUME NEW h, NEW W, Whole(s, h, LinksOf(s, W)), NEW p \in Proc, NEW fd \in Fd,
         sys_read(p, fd) \/ sys_lseek(p, fd)
  PROVE  Done(s', h, W)
<1>0. /\ s \in State /\ s.file[p][fd] \in File /\ s.file \in [Proc -> [Fd -> File]]
      /\ Lens \subseteq Nat /\ Direct \in Nat /\ PerBlock \in Nat
      /\ \A m \in Ino : s.inode[m].size \in Nat
  BY StateFields, Sizes DEF Whole
<1>1. ASSUME NEW k \in Nat, s.file[p][fd] # NoFile, s' = [s EXCEPT !.file[p][fd].offset = k]
      PROVE  Done(s', h, W)
  <2> DEFINE f == [s.file[p][fd] EXCEPT !.offset = k]
             w == SetFile(s, p, fd, f)
  <2>1. f \in File /\ f.ino = s.file[p][fd].ino
    BY <1>0, <1>1 DEF File
  <2>2. s' = w
    BY <1>0, <1>1 DEF SetFile
  <2> HIDE DEF f
  <2>3. Whole(w, h, LinksOf(s, W))
    BY <2>1, MoveKeeps
  <2>4. w.inode = s.inode
    BY <1>0, <2>1, SetFileFields
  <2> HIDE DEF w
  <2>5. LinksOf(w, W) = LinksOf(s, W)
    BY <2>4, SMTT(30) DEF LinksOf
  <2> QED BY <2>2, <2>3, <2>5 DEF Done
<1>2. CASE sys_read(p, fd)
  <2> DEFINE f == s.file[p][fd]
             rest == s.inode[f.ino].size - f.offset
  <2>1. PICK len \in Lens :
          LET r == inode_read(s, f.ino, len, f.offset)
          IN  f # NoFile /\ r[2] # EOF /\ s' = [r[1] EXCEPT !.file[p][fd].offset = @ + r[2]]
    BY <1>2, ZenonT(40) DEF sys_read
  <2> DEFINE r == inode_read(s, f.ino, len, f.offset)
             k == IF rest < len THEN rest ELSE len
  <2>2. f.ino \in Ino /\ f.offset \in Nat /\ len \in Nat
    BY <1>0, <2>1, FileFacts
  <2>3. rest \in Int
    BY <1>0, <2>2
  <2>4. r[1] = s /\ r[2] = k /\ ~(rest <= 0)
    <3> DEFINE touched == IF rest < len THEN {f.offset \div PerBlock}
                 ELSE f.offset \div PerBlock .. (f.offset + len - 1) \div PerBlock
               y1 == Stop(s, "inode_read")
               y2 == Stop(s, "hole")
               hole == len > 0 /\ \E b \in touched : bmap(s, f.ino, b) = 0
    <3>1. r = IF s.inode[f.ino].mode = "none" THEN <<y1, EOF>>
              ELSE IF rest <= 0 THEN <<s, EOF>>
              ELSE IF hole THEN <<y2, EOF>>
              ELSE <<s, k>>
      BY SMTT(30) DEF inode_read
    <3>2. r[2] # EOF
      BY <2>1
    <3> HIDE DEF r, y1, y2, hole, k, rest
    <3> QED BY <3>1, <3>2
  <2>5. k \in Nat
    BY <2>2, <2>3, <2>4
  <2>6. s' = [s EXCEPT !.file[p][fd].offset = f.offset + k]
    <3>1. s' = [r[1] EXCEPT !.file[p][fd].offset = @ + r[2]]
      BY <2>1
    <3> HIDE DEF r, k, rest
    <3> QED BY <2>4, <3>1, SMTT(30)
  <2>7. f.offset + k \in Nat
    BY <2>2, <2>5, SMTT(30)
  <2> HIDE DEF k, r
  <2> QED BY <1>1, <2>1, <2>6, <2>7, ZenonT(40)
<1>3. CASE sys_lseek(p, fd)
  <2> DEFINE f == s.file[p][fd]
  <2>1. PICK offset \in Lens, end \in BOOLEAN :
          /\ f # NoFile
          /\ s' = [s EXCEPT !.file[p][fd].offset =
                     IF end THEN s.inode[f.ino].size + offset ELSE offset]
    BY <1>3 DEF sys_lseek
  <2> DEFINE k == IF end THEN s.inode[f.ino].size + offset ELSE offset
  <2>2. f.ino \in Ino /\ offset \in Nat
    BY <1>0, <2>1, FileFacts
  <2>3. k \in Nat
    BY <1>0, <2>2
  <2>4. s' = [s EXCEPT !.file[p][fd].offset = k]
    BY <2>1
  <2> HIDE DEF k
  <2> QED BY <1>1, <2>1, <2>3, <2>4, SMTT(30)
<1> QED BY <1>2, <1>3

\* sys_write.
LEMMA WriteAction ==
  ASSUME NEW h, NEW W, Whole(s, h, LinksOf(s, W)), NEW p \in Proc, NEW fd \in Fd, sys_write(p, fd)
  PROVE  Done(s', h, W)
<1> DEFINE f == s.file[p][fd]
<1>0. s \in State /\ f \in File /\ Lens \subseteq Nat /\ Words \subseteq Entry
  <2>1. Words \subseteq [ino : Nat, name : STRING]
    BY MinixAssumption
  <2>2. [ino : Nat, name : STRING] \subseteq Entry
    <3> DEFINE V == STRING
    <3>1. V \subseteq Name
      BY DEF Name
    <3> HIDE DEF V
    <3>2. [ino : Nat, name : V] \subseteq Entry
      BY <3>1 DEF Entry
    <3> QED BY <3>2 DEF V
  <2>3. s \in State
    BY DEF Whole
  <2> QED BY <2>1, <2>2, <2>3, StateFields, Sizes
<1>1. PICK len \in Lens, word \in Words :
                          /\ f # NoFile /\ f.offset + len <= Direct * PerBlock
                          /\ s' = inode_write(s, f.ino, len, f.offset, word)
  BY DEF sys_write
<1>2. f.ino \in Ino /\ f.offset \in Nat /\ len \in Nat /\ word \in Entry
  BY <1>0, <1>1, FileFacts
<1>3. Halted(s') \/ (Whole(s', h, LinksOf(s, W)) /\ SameKinds(s, s'))
  BY <1>1, <1>2, inode_writeKeeps
<1>4. CASE Halted(s')
  BY <1>4 DEF Done
<1>5. CASE ~Halted(s')
  <2>1. Whole(s', h, LinksOf(s, W)) /\ SameKinds(s, s')
    BY <1>3, <1>5
  <2>2. LinksOf(s', W) = LinksOf(s, W)
    BY <2>1 DEF LinksOf, SameKinds
  <2> QED BY <2>1, <2>2 DEF Done
<1> QED BY <1>4, <1>5

-----------------------------------------------------------------------------
(* The file system as a whole *)

\* The references that rmdir("/") did not give back stay in hand.
Lost == [n \in Ino |-> IF n = Root THEN lost ELSE 0]

\* While the kernel runs, nothing else is lost and nothing is owned twice: the other
\* references are those of the processes, every zone in the map has one owner, and
\* every name of an inode whose link count did not wrap is covered by a link, the
\* inode being in the map.
DiskInv == Running => Whole(s, Lost, LinksOf(s, wrapped))

\* The disk that mkfs made and minix_init mounted is in order.
LEMMA InitWhole ==
  ASSUME Init
  PROVE  Whole(s, Lost, LinksOf(s, wrapped))
<1> DEFINE zz == [b \in 0 .. Direct - 1 |-> IF b = 0 THEN FirstZone ELSE 0]
           rn == [mode |-> "dir", size |-> 2, nlinks |-> 2, zone |-> zz]
           e0 == [ino |-> Root, name |-> "."]
           e1 == [ino |-> Root, name |-> ".."]
           rb == [Blank EXCEPT ![0] = e0, ![1] = e1]
           inode == [n \in Ino |-> IF n # Root THEN NoInode ELSE rn]
           imap == [bitmap_init(Inodes + 1, 0) EXCEPT !.bits = {0, Root}]
           zmap == [bitmap_init(Zones - FirstZone + 1, FirstZone - 1) EXCEPT
                      !.bits = {FirstZone - 1, FirstZone}]
           block == [z \in Zone |-> IF z # FirstZone THEN Blank ELSE rb]
           count == [n \in Ino |-> IF n = Root THEN 1 + 2 * Cardinality(Proc) ELSE 0]
           pwd == [p \in Proc |-> Root]
           file == [p \in Proc |-> [fd \in Fd |-> NoFile]]
<1>0. s = [inode |-> inode, imap |-> imap, zmap |-> zmap, block |-> block, count |-> count,
           pwd |-> pwd, file |-> file, halt |-> "no"]
  BY DEF Init
<1>01. lost = 0 /\ wrapped = {}
  BY DEF Init
<1>1. zz \in [Blk -> Zone \cup {0}] /\ zz[0] = FirstZone /\ \A b \in Blk : b # 0 => zz[b] = 0
  BY Sizes DEF Blk
<1> HIDE DEF zz
<1>2. rn \in Inode /\ rn.mode = "dir" /\ rn.nlinks = 2 /\ rn.zone = zz /\ rn.size = 2
  BY <1>1, Sizes DEF Inode, LinkCount
<1> HIDE DEF rn
<1>3. /\ NoInode \in Inode /\ NoInode.mode = "none" /\ NoInode.nlinks = 0
      /\ \A b \in Blk : NoInode.zone[b] = 0
  <2>1. [b \in 0 .. Direct - 1 |-> 0] \in [Blk -> Zone \cup {0}]
    BY DEF Blk
  <2> QED BY <2>1, Sizes DEF NoInode, Inode, Blk, LinkCount
<1>4. inode \in [Ino -> Inode] /\ inode[Root] = rn /\ \A n \in Ino : n # Root => inode[n] = NoInode
  BY <1>2, <1>3, Sizes
<1> HIDE DEF inode
<1>5. /\ e0 \in Entry /\ e0.ino = Root /\ e1 \in Entry /\ e1.ino = Root
  <2>1. Root \in Int
    BY Sizes
  <2> QED BY <2>1 DEF Entry, Name
<1> HIDE DEF e0, e1
<1>6. /\ rb \in [Slot -> Entry] /\ rb[0].ino = Root /\ rb[1].ino = Root
      /\ \A i \in Slot : i # 0 /\ i # 1 => rb[i].ino = 0
  <2>1. Blank \in [Slot -> Entry] /\ \A i \in Slot : Blank[i].ino = 0
    BY BlankFacts
  <2> QED BY <1>5, <2>1, Sizes
<1> HIDE DEF rb
<1>7. block \in [Zone -> [Slot -> Entry]] /\ block[FirstZone] = rb
  BY <1>6, BlankFacts, Sizes
<1> HIDE DEF block
<1>8. imap \in Map /\ imap.bits = {0, Root} /\ imap.offset = 0 /\ imap.length = Inodes + 1
  BY Sizes DEF bitmap_init, Map
<1> HIDE DEF imap
<1>9. /\ zmap \in Map /\ zmap.bits = {FirstZone - 1, FirstZone} /\ zmap.offset = FirstZone - 1
      /\ zmap.length = Zones - FirstZone + 1
  BY Sizes DEF bitmap_init, Map
<1> HIDE DEF zmap
<1>10. Cardinality(Proc) \in Nat
  BY Sizes, FS_CardinalityType
<1>11. count \in [Ino -> Nat] /\ \A n \in Ino : count[n] = IF n = Root THEN 1 + 2 * Cardinality(Proc) ELSE 0
  <2> DEFINE C == Cardinality(Proc)
  <2> HIDE DEF C
  <2>1. 1 + 2 * C \in Nat
    BY <1>10 DEF C
  <2> QED BY <2>1 DEF C
<1> HIDE DEF count
<1>12. pwd \in [Proc -> Ino] /\ \A p \in Proc : pwd[p] = Root
  BY Sizes
<1> HIDE DEF pwd
<1>13. file \in [Proc -> [Fd -> File]] /\ \A p \in Proc, fd \in Fd : file[p][fd] = NoFile
  BY DEF File
<1> HIDE DEF file
<1>14. /\ s \in State /\ s.inode = inode /\ s.imap = imap /\ s.zmap = zmap /\ s.block = block
       /\ s.count = count /\ s.pwd = pwd /\ s.file = file
  BY <1>0, <1>4, <1>7, <1>8, <1>9, <1>11, <1>12, <1>13 DEF State
<1>15. Counted(s, Lost)
  <2> SUFFICES ASSUME NEW n \in Ino PROVE s.count[n] = Refs(s.pwd, s.file, n) + Lost[n]
    BY DEF Counted
  <2>1. OpenOf(file, n) = {}
    <3>1. NoFile.ino \notin Ino
      BY Sizes DEF NoFile
    <3> QED BY <1>13, <3>1 DEF OpenOf
  <2>2. PwdOf(pwd, n) = IF n = Root THEN Proc ELSE {}
    BY <1>12 DEF PwdOf
  <2>3. Cardinality({}) = 0
    BY FS_EmptySet
  <2>4. Lost[n] = 0
    BY <1>01 DEF Lost
  <2>5. CASE n = Root
    <3>1. Refs(pwd, file, n) = 1 + Cardinality(Proc) + Cardinality(Proc) + 0
      BY <2>1, <2>2, <2>3, <2>5 DEF Refs, Base
    <3> QED BY <1>10, <1>11, <1>14, <2>4, <2>5, <3>1
  <2>6. CASE n # Root
    <3>1. Refs(pwd, file, n) = 0
      BY <2>1, <2>2, <2>3, <2>6 DEF Refs, Base
    <3> QED BY <1>11, <1>14, <2>4, <2>6, <3>1
  <2> QED BY <2>5, <2>6
<1>16. \A n \in Ino, b \in Blk : s.inode[n].zone[b] = IF n = Root /\ b = 0 THEN FirstZone ELSE 0
  BY <1>1, <1>2, <1>3, <1>4, <1>14
<1>17. \A n \in Ino : IsDir(s, n) <=> n = Root
  BY <1>2, <1>3, <1>4, <1>14 DEF IsDir
<1>18. Zoned(s)
  <2>1. Root \in Ino /\ 0 \in Blk /\ FirstZone # 0 /\ FirstZone \in Nat
    BY Sizes
  <2>2. s.zmap.bits = {FirstZone - 1, FirstZone}
    BY <1>9, <1>14
  <2>3. \A z \in s.zmap.bits : z # FirstZone - 1 =>
          z # 0 /\ \E n \in Ino, b \in Blk : s.inode[n].zone[b] = z
    BY <1>16, <2>1, <2>2
  <2>4. \A n, m \in Ino, b, c \in Blk :
          s.inode[n].zone[b] # 0 /\ s.inode[n].zone[b] = s.inode[m].zone[c] => n = m /\ b = c
    BY <1>16, <2>1
  <2>5. \A n \in Ino, b \in Blk : s.inode[n].zone[b] # 0 => s.inode[n].zone[b] \in s.zmap.bits
    BY <1>16, <2>1, <2>2
  <2> QED BY <1>9, <1>14, <2>2, <2>3, <2>4, <2>5 DEF Zoned
<1>19. Clean(s)
  <2>1. Root \in Ino
    BY Sizes
  <2>3. IsDir(s, Root) /\ \A p \in Proc : IsDir(s, s.pwd[p])
    BY <1>12, <1>14, <1>17, <2>1
  <2>4. 0 \in s.imap.bits /\ Root \in s.imap.bits
    BY <1>8, <1>14
  <2> QED BY <1>17, <2>3, <2>4 DEF Clean
<1> DEFINE l == LinksOf(s, wrapped)
<1>20. l \in LinkTally /\ DOMAIN l = Ino /\ \A n \in Ino : l[n] = IF n = Root THEN 2 ELSE 0
  <2>0. Ino \ wrapped = Ino
    BY <1>01
  <2>1. l \in LinkTally /\ DOMAIN l = Ino /\ \A n \in Ino : l[n] = s.inode[n].nlinks
    <3>1. /\ l \in LinkTally /\ DOMAIN l = Ino \ wrapped
          /\ \A n \in Ino \ wrapped : l[n] = s.inode[n].nlinks
      BY <1>14, LinksFacts
    <3> HIDE DEF l
    <3> QED BY <2>0, <3>1
  <2> HIDE DEF l
  <2> QED BY <1>2, <1>3, <1>4, <1>14, <2>1
<1> HIDE DEF l
<1>21. Covered(s, l)
  <2> SUFFICES ASSUME NEW n \in Ino
               PROVE  /\ Cardinality(NamingIn(s, n)) <= l[n]
                      /\ NamingIn(s, n) # {} => n \in s.imap.bits
    BY <1>20 DEF Covered
  <2>0. Root \in Ino /\ 0 \in Blk /\ FirstZone # 0 /\ 0 \in Slot /\ 1 \in Slot /\ 0 \notin Ino
    BY Sizes DEF NoIno
  <2>1. Raw(s, Root) = rb
    BY <1>7, <1>14, <1>16, <2>0 DEF Raw, bmap
  <2>2. {d \in Ino : IsDir(s, d)} = {Root}
    BY <1>17, <2>0
  <2>3. NamingIn(s, n) = {e \in {Root} \X Slot : e[2] < s.inode[e[1]].size /\ Raw(s, e[1])[e[2]].ino = n}
    BY <2>2 DEF NamingIn
  <2>4. CASE n = Root
    <3>1. NamingIn(s, n) \subseteq {<<Root, 0>>, <<Root, 1>>}
      <4> SUFFICES ASSUME NEW e \in NamingIn(s, n) PROVE e = <<Root, 0>> \/ e = <<Root, 1>>
        OBVIOUS
      <4>1. e \in {Root} \X Slot /\ Raw(s, e[1])[e[2]].ino = n
        BY <2>3
      <4>2. e = <<Root, e[2]>> /\ e[2] \in Slot /\ rb[e[2]].ino = n /\ n # 0
        BY <2>0, <2>1, <4>1
      <4>3. e[2] = 0 \/ e[2] = 1
        BY <1>6, <4>2
      <4> QED BY <4>2, <4>3
    <3>2. IsFiniteSet({<<Root, 0>>, <<Root, 1>>}) /\ Cardinality({<<Root, 0>>, <<Root, 1>>}) = 2
      <4> DEFINE a == <<Root, 0>>
                 b == <<Root, 1>>
      <4>1. a # b
        OBVIOUS
      <4> HIDE DEF a, b
      <4>2. IsFiniteSet({a}) /\ Cardinality({a}) = 1
        BY FS_Singleton
      <4>3. IsFiniteSet({a} \cup {b}) /\ Cardinality({a} \cup {b}) = Cardinality({a}) + 1
        BY <4>1, <4>2, FS_AddElement
      <4>4. {a, b} = {a} \cup {b}
        OBVIOUS
      <4>5. IsFiniteSet({a, b}) /\ Cardinality({a, b}) = 2
        BY <4>2, <4>3, <4>4
      <4> QED BY <4>5 DEF a, b
    <3>3. Cardinality(NamingIn(s, n)) <= 2
      BY <3>1, <3>2, FS_Subset
    <3> QED BY <1>8, <1>14, <1>20, <2>4, <3>3
  <2>5. CASE n # Root
    <3>1. NamingIn(s, n) = {}
      <4> SUFFICES ASSUME NEW e \in NamingIn(s, n) PROVE FALSE
        OBVIOUS
      <4>1. e \in {Root} \X Slot /\ Raw(s, e[1])[e[2]].ino = n
        BY <2>3
      <4>2. e[2] \in Slot /\ rb[e[2]].ino = n /\ n # 0
        BY <2>0, <2>1, <4>1
      <4> QED BY <1>6, <2>5, <4>2
    <3>2. Cardinality(NamingIn(s, n)) = 0
      BY <3>1, FS_EmptySet
    <3> QED BY <1>20, <2>5, <3>1, <3>2
  <2> QED BY <2>4, <2>5
<1>22. Lost \in Tally
  BY <1>01 DEF Lost, Tally
<1> QED BY <1>8, <1>14, <1>15, <1>18, <1>19, <1>20, <1>21, <1>22 DEF Whole, l

\* Every call keeps the file system in order.
LEMMA DiskStep ==
  ASSUME DiskInv, [Next]_vars
  PROVE  DiskInv'
<1> SUFFICES Done(s', Lost', wrapped') \/ UNCHANGED vars
  BY DEF DiskInv, Done, Running, Halted, Lost, vars
<1>1. CASE ~Running
  <2>1. \A p \in Proc : ~sys_mkdir(p) /\ ~sys_rmdir(p) /\ ~sys_link(p) /\ ~sys_unlink(p)
    BY <1>1 DEF sys_mkdir, sys_rmdir, sys_link, sys_unlink
  <2>2. \A p \in Proc : ~sys_chdir(p) /\ ~sys_open(p)
    BY <1>1 DEF sys_chdir, sys_open
  <2>3. \A p \in Proc, fd \in Fd : ~sys_close(p, fd) /\ ~BadDescriptor(p, fd)
    BY <1>1 DEF sys_close, BadDescriptor
  <2>4. ASSUME NEW p \in Proc, NEW fd \in Fd, sys_read(p, fd) PROVE FALSE
    BY <1>1, <2>4 DEF sys_read
  <2>5. ASSUME NEW p \in Proc, NEW fd \in Fd, sys_write(p, fd) PROVE FALSE
    BY <1>1, <2>5 DEF sys_write
  <2>6. ASSUME NEW p \in Proc, NEW fd \in Fd, sys_lseek(p, fd) PROVE FALSE
    BY <1>1, <2>6 DEF sys_lseek
  <2> QED BY <2>1, <2>2, <2>3, <2>4, <2>5, <2>6 DEF Next, Stopped
<1>2. CASE Running
  <2>0. Whole(s, Lost, LinksOf(s, wrapped))
    BY <1>2 DEF DiskInv
  <2>01. ASSUME UNCHANGED lost PROVE Lost' = Lost
    BY <2>01 DEF Lost
  <2>02. ASSUME wrapped' = wrapped \cup Wrapping PROVE wrapped' = Wraps(s, s', wrapped)
    BY <2>02 DEF Wrapping, Wraps
  <2>1. ASSUME NEW p \in Proc, sys_mkdir(p) PROVE Done(s', Lost', wrapped')
    <3>1. PICK path \in Paths : s' = MkDir(s, p, path)
      BY <2>1 DEF sys_mkdir
    <3>2. wrapped' = Wraps(s, s', wrapped) /\ Lost' = Lost
      BY <2>01, <2>02, <2>1 DEF sys_mkdir
    <3> QED BY <2>0, <3>1, <3>2, MkDirKeeps
  <2>2. ASSUME NEW p \in Proc, sys_rmdir(p) PROVE Done(s', Lost', wrapped')
    <3>1. PICK path \in Paths :
            /\ s' = RmDir(s, p, path) /\ wrapped' = wrapped
            /\ lost' = IF path.abs /\ path.names = << >> THEN lost + 1 ELSE lost
      BY <2>2 DEF sys_rmdir
    <3>2. Lost' = IF path.abs /\ path.names = << >> THEN Plus(Lost, Root) ELSE Lost
      BY <3>1, Sizes DEF Lost, Plus
    <3> QED BY <2>0, <3>1, <3>2, RmDirKeeps
  <2>3. ASSUME NEW p \in Proc, sys_link(p) PROVE Done(s', Lost', wrapped')
    <3>1. PICK old \in Paths, new \in Paths : s' = Link(s, p, old, new)
      BY <2>3 DEF sys_link
    <3>2. wrapped' = Wraps(s, s', wrapped) /\ Lost' = Lost
      BY <2>01, <2>02, <2>3 DEF sys_link
    <3> QED BY <2>0, <3>1, <3>2, LinkKeeps
  <2> DEFINE Same == lost' = lost /\ wrapped' = wrapped
  <2>03. ASSUME Same, Done(s', Lost, wrapped) PROVE Done(s', Lost', wrapped')
    BY <2>01, <2>03
  <2>4. ASSUME NEW p \in Proc, sys_unlink(p) PROVE Done(s', Lost', wrapped')
    <3>1. Same /\ Done(s', Lost, wrapped)
      BY <2>0, <2>4, UnlinkKeeps DEF sys_unlink
    <3> QED BY <2>03, <3>1
  <2>5. ASSUME NEW p \in Proc, sys_chdir(p) PROVE Done(s', Lost', wrapped')
    <3>1. Same /\ Done(s', Lost, wrapped)
      BY <2>0, <2>5, ChDirKeeps DEF sys_chdir
    <3> QED BY <2>03, <3>1
  <2>6. ASSUME NEW p \in Proc, sys_open(p) PROVE Done(s', Lost', wrapped')
    <3>1. Same
      BY <2>6 DEF sys_open
    <3>2. Done(s', Lost, wrapped)
      BY <2>0, <2>6, OpenStep
    <3> QED BY <2>03, <3>1, <3>2
  <2>7. ASSUME NEW p \in Proc, NEW fd \in Fd, sys_close(p, fd) PROVE Done(s', Lost', wrapped')
    <3>1. Same /\ Done(s', Lost, wrapped)
      BY <2>0, <2>7, sys_closeKeeps DEF sys_close
    <3> QED BY <2>03, <3>1
  <2>8. ASSUME NEW p \in Proc, NEW fd \in Fd, sys_read(p, fd) \/ sys_lseek(p, fd)
        PROVE  Done(s', Lost', wrapped')
    <3>1. Same
      BY <2>8 DEF sys_read, sys_lseek
    <3>2. Done(s', Lost, wrapped)
      BY <2>0, <2>8, ReadStep
    <3> QED BY <2>03, <3>1, <3>2
  <2>9. ASSUME NEW p \in Proc, NEW fd \in Fd, sys_write(p, fd) PROVE Done(s', Lost', wrapped')
    <3>1. Same
      BY <2>9 DEF sys_write
    <3>2. Done(s', Lost, wrapped)
      BY <2>0, <2>9, WriteAction
    <3> QED BY <2>03, <3>1, <3>2
  <2>10. ASSUME NEW p \in Proc, NEW fd \in Fd, BadDescriptor(p, fd) PROVE Done(s', Lost', wrapped')
    <3>1. Halted(s')
      BY <2>0, <2>10, StopHalts DEF BadDescriptor
    <3> QED BY <3>1, DoneHalted
  <2>11. CASE Next
    BY <1>2, <2>1, <2>2, <2>3, <2>4, <2>5, <2>6, <2>7, <2>8, <2>9, <2>10, <2>11
       DEF Next, Stopped
  <2> QED BY <2>11
<1> QED BY <1>1, <1>2

\* The file system stays in order whatever sequence of calls is made, "/" and full link
\* counts among them: as long as no assertion has stopped the kernel, the references iget
\* and iput count are those of the processes and those rmdir("/") kept, a zone that balloc
\* marked belongs to one block of one inode, and every name a look-up can find is covered
\* by the nlinks of an inode that ialloc marked, unless that count went past its 8 bits.
THEOREM DiskInOrder == Spec => []DiskInv
<1>1. Init => DiskInv
  BY InitWhole DEF DiskInv
<1>2. DiskInv /\ [Next]_vars => DiskInv'
  BY DiskStep
<1> QED BY <1>1, <1>2, PTL DEF Spec

\* No zone belongs to two inodes, and none is lost: what balloc marks in zmap is in the
\* zone array of one inode, and inode_truncate frees every zone it drops.
THEOREM ZonesHaveOneOwner == Spec => []ZonesOwned
<1>1. DiskInv => ZonesOwned
  <2> SUFFICES ASSUME NEW h, NEW W, Whole(s, Lost, LinksOf(s, wrapped))
               PROVE  /\ s.zmap.bits \ {FirstZone - 1} = {s.inode[u[1]].zone[u[2]] : u \in Uses}
                      /\ \A u, v \in Uses :
                           s.inode[u[1]].zone[u[2]] = s.inode[v[1]].zone[v[2]] => u = v
    BY DEF DiskInv, ZonesOwned
  <2>1. Zoned(s) /\ s \in State
    BY DEF Whole
  <2>2. Uses = {u \in Ino \X Blk : s.inode[u[1]].zone[u[2]] # 0}
    BY DEF Uses, Blk
  <2>3. \A u \in Uses : /\ u = <<u[1], u[2]>> /\ u[1] \in Ino /\ u[2] \in Blk
                        /\ s.inode[u[1]].zone[u[2]] # 0
    BY <2>2
  <2>4. \A u, v \in Uses : s.inode[u[1]].zone[u[2]] = s.inode[v[1]].zone[v[2]] => u = v
    <3> SUFFICES ASSUME NEW u \in Uses, NEW v \in Uses,
                        s.inode[u[1]].zone[u[2]] = s.inode[v[1]].zone[v[2]]
                 PROVE  u = v
      OBVIOUS
    <3>1. u[1] = v[1] /\ u[2] = v[2]
      BY <2>1, <2>3 DEF Zoned
    <3> QED BY <2>3, <3>1
  <2>5. ASSUME NEW z
        PROVE  z \in s.zmap.bits \ {FirstZone - 1} <=> z \in {s.inode[u[1]].zone[u[2]] : u \in Uses}
    <3>1. ASSUME z \in s.zmap.bits, z # FirstZone - 1 PROVE \E u \in Uses : z = s.inode[u[1]].zone[u[2]]
      <4>1. z # 0 /\ \E n \in Ino, b \in Blk : s.inode[n].zone[b] = z
        BY <2>1, <3>1 DEF Zoned
      <4>2. PICK n \in Ino, b \in Blk : s.inode[n].zone[b] = z
        BY <4>1
      <4>3. <<n, b>> \in Uses
        BY <2>2, <4>1, <4>2
      <4> QED BY <4>2, <4>3
    <3>2. ASSUME NEW u \in Uses PROVE s.inode[u[1]].zone[u[2]] \in s.zmap.bits \ {FirstZone - 1}
      <4>1. s.inode[u[1]].zone[u[2]] \in s.zmap.bits
        BY <2>1, <2>3 DEF Zoned
      <4>2. s.inode[u[1]].zone[u[2]] \in Zone
        BY <2>1, <2>3, StateFields
      <4> QED BY <4>1, <4>2, Sizes
    <3> QED BY <3>1, <3>2
  <2> QED BY <2>4, <2>5
<1> QED BY <1>1, DiskInOrder, PTL

\* A name never outlives its inode while the link count is right: as long as nlinks has
\* not gone past its 8 bits, sys_link and sys_unlink, sys_mkdir and sys_open keep it at
\* least the number of the entries a look-up can find, so ifree frees no inode that
\* a directory still names, whatever files had written into the zones of directories.
THEOREM NamesHaveLinks == Spec => []LinksCovered
<1>1. DiskInv => LinksCovered
  <2> SUFFICES ASSUME Whole(s, Lost, LinksOf(s, wrapped)), NEW n \in Ino \ wrapped
               PROVE  /\ Cardinality(Found(n)) <= s.inode[n].nlinks
                      /\ Found(n) # {} => bitmap_test(s.imap, n)
    BY DEF DiskInv, LinksCovered
  <2>1. s \in State
    BY DEF Whole
  <2>2. n # 0
    BY Sizes DEF NoIno
  <2>3. Found(n) = NamingIn(s, n)
    BY <2>2 DEF Found, NamingIn, Dirs, Slot, Listed
  <2>4. /\ DOMAIN LinksOf(s, wrapped) = Ino \ wrapped
        /\ LinksOf(s, wrapped)[n] = s.inode[n].nlinks
    BY <2>1, LinksFacts
  <2> QED BY <2>3, <2>4 DEF Whole, Covered, bitmap_test
<1> QED BY <1>1, DiskInOrder, PTL

\* i_count is the number of references, and rmdir("/") is the only call that loses one:
\* on every other path through the calls, errors included, what namei, iget and
\* inode_open took is given back by iput or kept in an open file or a working directory.
THEOREM ReferencesExact == Spec => []InodeRefs
<1>1. DiskInv => InodeRefs
  <2> SUFFICES ASSUME Whole(s, Lost, LinksOf(s, wrapped)), NEW n \in Ino
               PROVE  s.count[n] = (IF n = Root THEN 1 + Cardinality(Proc) + lost ELSE 0)
                                   + Cardinality({p \in Proc : s.pwd[p] = n})
                                   + Cardinality({f \in Proc \X Fd : s.file[f[1]][f[2]].ino = n})
    BY DEF DiskInv, InodeRefs
  <2>1. s.count[n] = Refs(s.pwd, s.file, n) + IF n = Root THEN lost ELSE 0
    BY DEF Whole, Counted, Lost
  <2>2. n = Root => lost \in Nat
    <3>1. Lost[n] \in Nat
      BY DEF Whole, Tally
    <3> QED BY <3>1 DEF Lost
  <2>3. /\ Cardinality(PwdOf(s.pwd, n)) \in Nat /\ Cardinality(OpenOf(s.file, n)) \in Nat
        /\ Cardinality(Proc) \in Nat
    BY OpenFinite, Sizes, FS_CardinalityType
  <2>4. s.count[n] = (IF n = Root THEN 1 + Cardinality(Proc) + lost ELSE 0)
                     + Cardinality(PwdOf(s.pwd, n)) + Cardinality(OpenOf(s.file, n))
    BY <2>1, <2>2, <2>3 DEF Refs, Base
  <2> QED BY <2>4 DEF PwdOf, OpenOf
<1> QED BY <1>1, DiskInOrder, PTL
=============================================================================
