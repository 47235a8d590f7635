---------------------------- MODULE MemoryProofs ----------------------------
(***************************************************************************)
(* Frames are counted exactly and copy on write keeps processes apart, for *)
(* every number of processes, pages and frames, and whatever the heap      *)
(* returns; then, for every number of pages, classes and blocks, that the  *)
(* heap returns no page and no block that somebody has.                    *)
(***************************************************************************)
EXTENDS Memory, SequenceTheorems, FiniteSetTheorems, WellFoundedInduction, TLAPS

-----------------------------------------------------------------------------
(* Numbers and sequences *)

\* A set of numbers has a least element: the frame get_p_page finds and the run
\* of pages bitmap_scan finds.
LEMMA LeastElement ==
  ASSUME NEW T \in SUBSET Nat, T # {}
  PROVE  \E x \in T : \A y \in T : x <= y
<1> DEFINE R == {ss \in Nat \X Nat : ss[1] < ss[2]}
<1>1. R = OpToRel(<, Nat)
  BY DEF OpToRel
<1>2. IsWellFoundedOn(R, Nat)
  BY <1>1, NatLessThanWellFounded
<1>3. \A x, y \in Nat : x < y => <<x, y>> \in R
  OBVIOUS
<1> HIDE DEF R
<1>4. \E x \in T : \A y \in T : ~(<<y, x>> \in R)
  BY <1>2, WFMin
<1>5. PICK x \in T : \A y \in T : ~(<<y, x>> \in R)
  BY <1>4
<1>6. ASSUME NEW y \in T PROVE x <= y
  <2>1. x \in Nat /\ y \in Nat
    OBVIOUS
  <2>2. ~(y < x)
    BY <2>1, <1>3, <1>5
  <2> QED BY <2>1, <2>2
<1> QED BY <1>6

Has(s, e) == \E i \in 1 .. Len(s) : s[i] = e
Once(s) == \A i, j \in 1 .. Len(s) : s[i] = s[j] => i = j

\* Deleting position i of a sequence shifts what follows it (remove_node).
LEMMA RemoveAtFacts ==
  ASSUME NEW S, NEW s \in Seq(S), NEW i \in 1 .. Len(s)
  PROVE  /\ RemoveAt(s, i) \in Seq(S)
         /\ Len(RemoveAt(s, i)) = Len(s) - 1
         /\ \A j \in 1 .. Len(s) - 1 :
              RemoveAt(s, i)[j] = IF j < i THEN s[j] ELSE s[j + 1]
<1> DEFINE a == SubSeq(s, 1, i - 1)
           b == SubSeq(s, i + 1, Len(s))
<1>1. a \in Seq(S) /\ Len(a) = i - 1 /\ \A j \in 1 .. i - 1 : a[j] = s[j]
  BY SubSeqProperties
<1>2. /\ b \in Seq(S) /\ Len(b) = Len(s) - i
      /\ \A j \in 1 .. Len(s) - i : b[j] = s[i + j]
  <2>1. \A j \in i + 1 .. Len(s) : s[j] \in S
    OBVIOUS
  <2>2. /\ b \in Seq(S)
        /\ Len(b) = IF i + 1 <= Len(s) THEN Len(s) - (i + 1) + 1 ELSE 0
        /\ \A j \in 1 .. Len(s) - (i + 1) + 1 : b[j] = s[(i + 1) + j - 1]
    BY <2>1, SubSeqProperties
  <2> QED BY <2>2
<1>3. RemoveAt(s, i) = a \o b
  BY DEF RemoveAt
<1> HIDE DEF a, b
<1>4. /\ a \o b \in Seq(S)
      /\ Len(a \o b) = Len(a) + Len(b)
      /\ \A j \in 1 .. Len(a) + Len(b) :
           (a \o b)[j] = IF j <= Len(a) THEN a[j] ELSE b[j - Len(a)]
  BY <1>1, <1>2, ConcatProperties
<1> QED BY <1>1, <1>2, <1>3, <1>4, SMTT(30)

\* Pushing at the head (list_push).
LEMMA ConsFacts ==
  ASSUME NEW S, NEW s \in Seq(S), NEW e \in S
  PROVE  /\ <<e>> \o s \in Seq(S) /\ <<e>> \o s # <<>>
         /\ \A x : Has(<<e>> \o s, x) <=> x = e \/ Has(s, x)
         /\ Once(s) /\ ~Has(s, e) => Once(<<e>> \o s)
<1> DEFINE t == <<e>> \o s
<1>1. /\ t \in Seq(S) /\ Len(t) = Len(s) + 1
      /\ t[1] = e /\ \A i \in 1 .. Len(s) : t[i + 1] = s[i]
  OBVIOUS
<1> HIDE DEF t
<1>2. \A i \in 1 .. Len(t) : i = 1 \/ (i - 1 \in 1 .. Len(s) /\ t[i] = s[i - 1])
  <2> SUFFICES ASSUME NEW i \in 1 .. Len(t), i # 1
               PROVE  i - 1 \in 1 .. Len(s) /\ t[i] = s[i - 1]
    OBVIOUS
  <2>1. i - 1 \in 1 .. Len(s) /\ (i - 1) + 1 = i
    BY <1>1
  <2> QED BY <2>1, <1>1
<1>3. ASSUME NEW x PROVE Has(t, x) <=> x = e \/ Has(s, x)
  <2>1. ASSUME Has(t, x) PROVE x = e \/ Has(s, x)
    BY <1>1, <1>2, <2>1 DEF Has
  <2>2. ASSUME Has(s, x) PROVE Has(t, x)
    <3>1. PICK i \in 1 .. Len(s) : s[i] = x
      BY <2>2 DEF Has
    <3>2. i + 1 \in 1 .. Len(t) /\ t[i + 1] = x
      BY <3>1, <1>1
    <3> QED BY <3>2 DEF Has
  <2>3. Has(t, e)
    BY <1>1 DEF Has
  <2> QED BY <2>1, <2>2, <2>3
<1>4. ASSUME Once(s), ~Has(s, e) PROVE Once(t)
  <2> SUFFICES ASSUME NEW i \in 1 .. Len(t), NEW j \in 1 .. Len(t), t[i] = t[j]
               PROVE  i = j
    BY DEF Once
  <2>1. CASE i = 1 \/ j = 1
    BY <2>1, <1>1, <1>2, <1>4 DEF Has
  <2>2. CASE i # 1 /\ j # 1
    <3>1. s[i - 1] = s[j - 1] /\ i - 1 \in 1 .. Len(s) /\ j - 1 \in 1 .. Len(s)
      BY <2>2, <1>2
    <3>2. i - 1 = j - 1
      BY <3>1, <1>4 DEF Once
    <3> QED BY <3>2, <1>1
  <2> QED BY <2>1, <2>2
<1> QED BY <1>1, <1>3, <1>4 DEF t

\* Taking off the first element (the newest waiter of wait_list).
LEMMA TailFacts ==
  ASSUME NEW S, NEW s \in Seq(S), s # <<>>, Once(s)
  PROVE  /\ Head(s) \in S /\ Has(s, Head(s)) /\ Tail(s) \in Seq(S) /\ Once(Tail(s))
         /\ \A x : Has(Tail(s), x) <=> Has(s, x) /\ x # Head(s)
<1> DEFINE t == Tail(s)
           n == Len(s)
<1>1. n \in Nat \ {0}
  BY EmptySeq
<1>2. t \in Seq(S) /\ Len(t) = n - 1 /\ \A i \in 1 .. n - 1 : t[i] = s[i + 1]
  BY <1>1, HeadTailProperties
<1>3. Head(s) = s[1] /\ 1 \in 1 .. Len(s)
  BY <1>1
<1> HIDE DEF t
<1>4. Once(t)
  <2> SUFFICES ASSUME NEW i \in 1 .. n - 1, NEW j \in 1 .. n - 1, t[i] = t[j] PROVE i = j
    BY <1>2 DEF Once
  <2>1. s[i + 1] = s[j + 1] /\ i + 1 \in 1 .. n /\ j + 1 \in 1 .. n
    BY <1>1, <1>2
  <2>2. i + 1 = j + 1
    BY <2>1 DEF Once
  <2> QED BY <2>2
<1>5. ASSUME NEW x PROVE Has(t, x) <=> Has(s, x) /\ x # Head(s)
  <2>1. ASSUME Has(t, x) PROVE Has(s, x) /\ x # Head(s)
    <3>1. PICK i \in 1 .. n - 1 : t[i] = x
      BY <2>1, <1>2 DEF Has
    <3>2. i + 1 \in 1 .. n /\ i + 1 # 1 /\ s[i + 1] = x
      BY <3>1, <1>1, <1>2
    <3> QED BY <3>2, <1>3 DEF Has, Once
  <2>2. ASSUME Has(s, x), x # Head(s) PROVE Has(t, x)
    <3>1. PICK i \in 1 .. n : s[i] = x
      BY <2>2 DEF Has
    <3>2. i - 1 \in 1 .. n - 1 /\ (i - 1) + 1 = i
      BY <3>1, <2>2, <1>1, <1>3
    <3>3. t[i - 1] = x
      BY <3>1, <3>2, <1>2
    <3> QED BY <3>2, <3>3, <1>2 DEF Has
  <2> QED BY <2>1, <2>2
<1> QED BY <1>2, <1>3, <1>4, <1>5 DEF Has, t

\* The parts of a list with one node in front.
LEMMA HeadTailConcat ==
  ASSUME NEW S, NEW e \in S, NEW s \in Seq(S)
  PROVE  <<e>> \o s # <<>> /\ Head(<<e>> \o s) = e /\ Tail(<<e>> \o s) = s
<1> DEFINE t == <<e>> \o s
<1>1. t \in Seq(S) /\ Len(t) = Len(s) + 1 /\ t[1] = e /\ \A i \in 1 .. Len(s) : t[i + 1] = s[i]
  OBVIOUS
<1> HIDE DEF t
<1>2. t # <<>> /\ Head(t) = e
  BY <1>1
<1>3. Tail(t) \in Seq(S) /\ Len(Tail(t)) = Len(s) /\ \A i \in 1 .. Len(s) : Tail(t)[i] = t[i + 1]
  BY <1>1, <1>2
<1>4. \A i \in 1 .. Len(s) : Tail(t)[i] = s[i]
  BY <1>1, <1>3
<1>5. Tail(t) = s
  BY <1>3, <1>4, SeqEqual
<1> QED BY <1>2, <1>5 DEF t

-----------------------------------------------------------------------------
(* The inductive invariant.  It speaks of pr, the processes, and of ph, the *)
(* reference counts and the number of free frames, so that it can be        *)
(* followed through the parts of a step.                                    *)

\* Frames above the kernel's mapping and the first page table.
Usable == Mapped + 1 .. Frames - 1

Fields == {"state", "ppid", "tcb", "vmap", "pde", "node", "map", "pwd", "table", "entry"}

\* The processes are records; nothing is said of what the heap returned.
Records(pr) ==
  /\ pr = [q \in Proc |-> pr[q]]
  /\ \A q \in Proc : pr[q] = [x \in Fields |-> pr[q][x]]

Entry == [index : Usable \cup {NoFrame}, write : BOOLEAN]

\* Page tables and entries are frames of processes; an entry that is not present
\* is not writable.
Spaces(pr) ==
  \A q \in Proc :
    /\ pr[q].table \in Usable \cup {NoFrame}
    /\ pr[q].entry \in [StackPage -> Entry]
    /\ \A v \in StackPage : pr[q].entry[v].write => pr[q].entry[v].index # NoFrame

\* Only the living have page tables, and only page tables have entries.
Tabled(pr) ==
  \A q \in Proc :
    /\ pr[q].state # "alive" => pr[q].table = NoFrame
    /\ pr[q].table = NoFrame => \A v \in StackPage : pr[q].entry[v] = NoEntry

\* Who uses frame f.
Use(pr, f) == {x \in Proc \X StackPage : pr[x[1]].entry[x[2]].index = f}
Tab(pr, f) == {q \in Proc : pr[q].table = f}

\* Every frame that processes use is referenced once for each use.
Counts(pr, ph) ==
  \A f \in Usable : ph.count[f] = Cardinality(Use(pr, f)) + Cardinality(Tab(pr, f))

\* The frames below are never free; the kernel's own count is too high.
FreeCount(ph) ==
  /\ \A f \in Clear(ph) : f \in Usable
  /\ ph.free = Cardinality(Clear(ph)) + (Mapped - Reserved)

\* A writable entry is the only use of its frame.
Private(pr, ph) ==
  \A q \in Proc, v \in StackPage :
    pr[q].entry[v].write => ph.count[pr[q].entry[v].index] = 1

IsPhysical(ph) == ph.count \in [Frame -> Nat] /\ ph = [count |-> ph.count, free |-> ph.free]

Sound(pr, ph) ==
  /\ IsPhysical(ph) /\ Spaces(pr) /\ Counts(pr, ph) /\ FreeCount(ph) /\ Private(pr, ph)

IInv ==
  /\ frame \in [Frame -> Value]
  /\ Records(proc) /\ Tabled(proc) /\ Sound(proc, Physical)

-----------------------------------------------------------------------------
(* Frames and who uses them *)

\* The frames, and what is finite.
LEMMA FrameFacts ==
  /\ Usable \subseteq Frame /\ NoFrame \notin Frame /\ NoFrame \notin Usable /\ Frame \subseteq Nat
  /\ IsFiniteSet(Frame) /\ IsFiniteSet(Proc) /\ IsFiniteSet(Proc \X StackPage)
<1>1. Frames \in Nat /\ Mapped \in Nat /\ Procs \in Nat /\ IsFiniteSet(StackPage)
  BY MemoryAssumption
<1>2. IsFiniteSet(Frame) /\ IsFiniteSet(Proc)
  BY <1>1, FS_Interval DEF Frame, Proc
<1>3. IsFiniteSet(Proc \X StackPage)
  BY <1>1, <1>2, FS_Product, SMTT(30)
<1> QED BY <1>1, <1>2, <1>3 DEF Usable, Frame, NoFrame

\* The uses of a frame are finite in number.
LEMMA UseFacts ==
  ASSUME NEW pr, NEW f
  PROVE  /\ IsFiniteSet(Use(pr, f)) /\ IsFiniteSet(Tab(pr, f))
         /\ Cardinality(Use(pr, f)) \in Nat /\ Cardinality(Tab(pr, f)) \in Nat
         /\ \A q, v : <<q, v>> \in Use(pr, f) <=>
                        q \in Proc /\ v \in StackPage /\ pr[q].entry[v].index = f
<1>1. Use(pr, f) \in SUBSET (Proc \X StackPage) /\ Tab(pr, f) \in SUBSET Proc
  BY DEF Use, Tab
<1>2. IsFiniteSet(Use(pr, f)) /\ IsFiniteSet(Tab(pr, f))
  BY <1>1, FrameFacts, FS_Subset
<1> QED BY <1>2, FS_CardinalityType DEF Use

\* Processes with the same entries use the same frames.
LEMMA SameUse ==
  ASSUME NEW pr, NEW qr, NEW f,
         \A q \in Proc : /\ pr[q].table = f <=> qr[q].table = f
                         /\ \A v \in StackPage : pr[q].entry[v].index = f <=> qr[q].entry[v].index = f
  PROVE  Use(pr, f) = Use(qr, f) /\ Tab(pr, f) = Tab(qr, f)
<1>1. Tab(pr, f) = Tab(qr, f)
  BY DEF Tab
<1>2. \A x \in Proc \X StackPage : x \in Use(pr, f) <=> x \in Use(qr, f)
  BY DEF Use
<1> QED BY <1>1, <1>2 DEF Use

\* A frame that is clear is not used.
LEMMA ClearUnused ==
  ASSUME NEW pr, NEW ph, Sound(pr, ph), NEW f \in Clear(ph)
  PROVE  Use(pr, f) = {} /\ Tab(pr, f) = {} /\ f \in Usable /\ f \in Frame
<1>1. f \in Usable /\ f \in Frame /\ ph.count[f] = 0
  BY FrameFacts DEF Sound, FreeCount, Clear
<1>2. Cardinality(Use(pr, f)) = 0 /\ Cardinality(Tab(pr, f)) = 0
  BY <1>1, UseFacts DEF Sound, Counts
<1> QED BY <1>1, <1>2, UseFacts, FS_EmptySet

\* A frame that is referenced once and mapped by an entry is used by nobody else.
LEMMA SoleUse ==
  ASSUME NEW pr, NEW ph, Sound(pr, ph), NEW q \in Proc, NEW v \in StackPage, NEW f \in Usable,
         pr[q].entry[v].index = f, ph.count[f] = 1
  PROVE  Use(pr, f) = {<<q, v>>} /\ Tab(pr, f) = {}
<1>1. <<q, v>> \in Use(pr, f)
  BY UseFacts
<1>2. Cardinality(Use(pr, f)) # 0
  BY <1>1, UseFacts, FS_EmptySet
<1>3. Cardinality(Use(pr, f)) = 1 /\ Cardinality(Tab(pr, f)) = 0
  BY <1>2, UseFacts DEF Sound, Counts
<1>4. PICK x : Use(pr, f) = {x}
  BY <1>3, UseFacts, FS_Singleton
<1> QED BY <1>1, <1>3, <1>4, UseFacts, FS_EmptySet

-----------------------------------------------------------------------------
(* Allocating a frame, mapping it, sharing it, dropping it *)

\* get_p_page takes a clear frame, the first one.
LEMMA TakeFacts ==
  ASSUME NEW ph, IsPhysical(ph), FreeCount(ph), Clear(ph) # {}
  PROVE  LET g == get_p_page(ph)
             u == Taken(ph)
         IN /\ g \in Clear(ph) /\ g \in Usable /\ g \in Frame
            /\ IsPhysical(u) /\ FreeCount(u) /\ Clear(u) = Clear(ph) \ {g}
            /\ u.count = [ph.count EXCEPT ![g] = 1]
<1> DEFINE g == get_p_page(ph)
           u == Taken(ph)
<1>1. Clear(ph) \in SUBSET Nat
  BY FrameFacts DEF Clear
<1>2. g \in Clear(ph)
  BY <1>1, LeastElement DEF get_p_page, Min
<1>3. g \in Usable /\ g \in Frame
  BY <1>2 DEF FreeCount, Clear
<1> HIDE DEF g
<1>4. u = [count |-> [ph.count EXCEPT ![g] = 1], free |-> ph.free - 1]
  <2>1. PICK c, n : ph = [count |-> c, free |-> n]
    BY DEF IsPhysical
  <2>2. u = [ph EXCEPT !.count[g] = 1, !.free = @ - 1]
    BY DEF Taken, g
  <2> HIDE DEF u
  <2> QED BY <2>1, <2>2
<1> HIDE DEF u
<1>5. u.count = [ph.count EXCEPT ![g] = 1] /\ u.free = ph.free - 1
  BY <1>4
<1>6. IsPhysical(u)
  BY <1>3, <1>4, <1>5 DEF IsPhysical
<1>7. Clear(u) = Clear(ph) \ {g}
  BY <1>3, <1>5 DEF Clear, IsPhysical
<1>8. IsFiniteSet(Clear(ph))
  BY FrameFacts, FS_Subset DEF Clear
<1>9. Cardinality(Clear(u)) = Cardinality(Clear(ph)) - 1 /\ Cardinality(Clear(ph)) \in Nat
  BY <1>2, <1>7, <1>8, FS_RemoveElement, FS_CardinalityType
<1>10. FreeCount(u)
  BY <1>5, <1>7, <1>9, MemoryAssumption DEF FreeCount
<1> QED BY <1>2, <1>3, <1>5, <1>6, <1>7, <1>10 DEF u, g

\* Only process p has changed.
Others(pr, qr, p) ==
  \A q \in Proc \ {p} : qr[q].table = pr[q].table /\ qr[q].entry = pr[q].entry

\* get_pte and copy_pde: a process gets a page table.
LEMMA GiveTable ==
  ASSUME NEW pr, NEW ph, Sound(pr, ph), Clear(ph) # {}, NEW p \in Proc,
         pr[p].table = NoFrame, NEW qr, Others(pr, qr, p),
         qr[p].table = get_p_page(ph), qr[p].entry = pr[p].entry
  PROVE  Sound(qr, Taken(ph))
<1> DEFINE g == get_p_page(ph)
           u == Taken(ph)
<1>1. /\ g \in Clear(ph) /\ g \in Usable /\ g \in Frame
      /\ IsPhysical(u) /\ FreeCount(u) /\ u.count = [ph.count EXCEPT ![g] = 1]
  BY TakeFacts DEF Sound
<1>2. Use(pr, g) = {} /\ Tab(pr, g) = {}
  BY <1>1, ClearUnused
<1> HIDE DEF g, u
<1>3. \A q \in Proc : qr[q].entry = pr[q].entry
  BY DEF Others
<1>4. Spaces(qr)
  BY <1>1, <1>3 DEF Sound, Spaces, Others, g
<1>5. Counts(qr, u)
  <2> SUFFICES ASSUME NEW f \in Usable
               PROVE  u.count[f] = Cardinality(Use(qr, f)) + Cardinality(Tab(qr, f))
    BY DEF Counts
  <2>1. CASE f = g
    <3>1. Tab(qr, g) = {p} /\ Use(qr, g) = {}
      BY <1>2, <1>3 DEF Tab, Use, Others, g
    <3>1a. Cardinality({p}) = 1 /\ Cardinality({}) = 0
      BY FS_Singleton, FS_EmptySet
    <3>2. u.count[g] = 1
      BY <1>1 DEF Sound, IsPhysical
    <3> QED BY <2>1, <3>1, <3>1a, <3>2
  <2>2. CASE f # g
    <3>1. f # NoFrame /\ f \in Frame
      BY FrameFacts
    <3>2. Use(qr, f) = Use(pr, f) /\ Tab(qr, f) = Tab(pr, f)
      BY <2>2, <3>1, <1>3, SameUse, SMTT(30) DEF Others, g
    <3>3. u.count[f] = ph.count[f]
      BY <2>2, <3>1, <1>1 DEF Sound, IsPhysical
    <3> QED BY <3>2, <3>3 DEF Sound, Counts
  <2> QED BY <2>1, <2>2
<1>6. Private(qr, u)
  <2> SUFFICES ASSUME NEW q \in Proc, NEW v \in StackPage, pr[q].entry[v].write
               PROVE  u.count[pr[q].entry[v].index] = 1
    BY <1>3 DEF Private
  <2>1. pr[q].entry[v].index \in Frame
    BY FrameFacts, ZenonT(40) DEF Sound, Spaces, Entry
  <2>2. ph.count[pr[q].entry[v].index] = 1
    BY DEF Sound, Private
  <2> QED BY <2>1, <2>2, <1>1 DEF Sound, IsPhysical
<1> QED BY <1>1, <1>4, <1>5, <1>6 DEF Sound, u

\* Entry v of process p becomes e; nothing else changes.
NewEntry(pr, qr, p, v, e) ==
  /\ Others(pr, qr, p) /\ qr[p].table = pr[p].table
  /\ qr[p].entry = [pr[p].entry EXCEPT ![v] = e]

\* link_page and page_fault: an entry that was not present gets a frame.
LEMMA MapFrame ==
  ASSUME NEW pr, NEW ph, Sound(pr, ph), Clear(ph) # {}, NEW p \in Proc, NEW v \in StackPage,
         pr[p].entry[v].index = NoFrame, NEW qr,
         NewEntry(pr, qr, p, v, entry_init(get_p_page(ph)))
  PROVE  Sound(qr, Taken(ph))
<1> DEFINE g == get_p_page(ph)
           u == Taken(ph)
           e == entry_init(g)
<1>1. /\ g \in Clear(ph) /\ g \in Usable /\ g \in Frame
      /\ IsPhysical(u) /\ FreeCount(u) /\ u.count = [ph.count EXCEPT ![g] = 1]
  BY TakeFacts DEF Sound
<1>2. Use(pr, g) = {} /\ Tab(pr, g) = {}
  BY <1>1, ClearUnused
<1>3. e \in Entry /\ e.index = g /\ e.write /\ g # NoFrame
  BY <1>1, FrameFacts DEF entry_init, Entry
<1>4. pr[p].entry \in [StackPage -> Entry]
  BY DEF Sound, Spaces
<1>5. qr[p].entry \in [StackPage -> Entry] /\ qr[p].entry[v] = e
  BY <1>3, <1>4 DEF NewEntry
<1>6. \A q \in Proc, w \in StackPage : <<q, w>> # <<p, v>> => qr[q].entry[w] = pr[q].entry[w]
  BY <1>4 DEF NewEntry, Others
<1> HIDE DEF g, u, e
<1>7. Spaces(qr)
  <2> SUFFICES ASSUME NEW q \in Proc
               PROVE  /\ qr[q].table \in Usable \cup {NoFrame}
                      /\ qr[q].entry \in [StackPage -> Entry]
                      /\ \A w \in StackPage : qr[q].entry[w].write => qr[q].entry[w].index # NoFrame
    BY DEF Spaces
  <2>1. CASE q # p
    BY <2>1 DEF Sound, Spaces, NewEntry, Others
  <2>2. CASE q = p
    BY <2>2, <1>3, <1>5, <1>6 DEF Sound, Spaces, NewEntry
  <2> QED BY <2>1, <2>2
<1>8. Counts(qr, u)
  <2> SUFFICES ASSUME NEW f \in Usable
               PROVE  u.count[f] = Cardinality(Use(qr, f)) + Cardinality(Tab(qr, f))
    BY DEF Counts
  <2>0. \A q \in Proc : qr[q].table = pr[q].table
    BY DEF NewEntry, Others
  <2>1. CASE f = g
    <3>1. Tab(qr, g) = {}
      BY <1>2, <2>0 DEF Tab
    <3>2. \A x \in Proc \X StackPage : x \in Use(qr, g) <=> x = <<p, v>>
      BY <1>2, <1>3, <1>5, <1>6 DEF Use
    <3>3. Use(qr, g) = {<<p, v>>}
      BY <3>2 DEF Use
    <3>4. u.count[g] = 1
      BY <1>1 DEF Sound, IsPhysical
    <3>5. Cardinality({<<p, v>>}) = 1 /\ Cardinality({}) = 0
      BY FS_Singleton, FS_EmptySet
    <3> QED BY <2>1, <3>1, <3>3, <3>4, <3>5
  <2>2. CASE f # g
    <3>1. f # NoFrame /\ f \in Frame
      BY FrameFacts
    <3>2. \A q \in Proc, w \in StackPage : qr[q].entry[w].index = f <=> pr[q].entry[w].index = f
      BY <2>2, <3>1, <1>3, <1>5, <1>6
    <3>3. Use(qr, f) = Use(pr, f) /\ Tab(qr, f) = Tab(pr, f)
      BY <2>0, <3>2, SameUse
    <3>4. u.count[f] = ph.count[f]
      BY <2>2, <3>1, <1>1 DEF Sound, IsPhysical
    <3> QED BY <3>3, <3>4 DEF Sound, Counts
  <2> QED BY <2>1, <2>2
<1>9. Private(qr, u)
  <2> SUFFICES ASSUME NEW q \in Proc, NEW w \in StackPage, qr[q].entry[w].write
               PROVE  u.count[qr[q].entry[w].index] = 1
    BY DEF Private
  <2>1. CASE <<q, w>> = <<p, v>>
    BY <2>1, <1>1, <1>3, <1>5 DEF Sound, IsPhysical
  <2>2. CASE <<q, w>> # <<p, v>>
    <3>0. qr[q].entry[w] = pr[q].entry[w]
      BY <2>2, <1>6
    <3>1. pr[q].entry[w].write /\ pr[q].entry[w].index \in Frame
      <4>1. pr[q].entry[w].write
        BY <3>0
      <4>2. pr[q].entry[w].index \in Usable
        BY <4>1 DEF Sound, Spaces, Entry
      <4> QED BY <4>1, <4>2, FrameFacts
    <3>2. ph.count[pr[q].entry[w].index] = 1
      BY <3>1 DEF Sound, Private
    <3> QED BY <3>0, <3>1, <3>2, <1>1 DEF Sound, IsPhysical
  <2> QED BY <2>1, <2>2
<1> QED BY <1>1, <1>7, <1>8, <1>9 DEF Sound, u

\* What is neither a page table nor an entry does not matter.
LEMMA SameSpaces ==
  ASSUME NEW pr, NEW ph, Sound(pr, ph), NEW qr,
         \A q \in Proc : qr[q].table = pr[q].table /\ qr[q].entry = pr[q].entry
  PROVE  Sound(qr, ph)
<1>1. \A f : Use(qr, f) = Use(pr, f) /\ Tab(qr, f) = Tab(pr, f)
  BY SameUse
<1>2. Counts(qr, ph)
  BY <1>1 DEF Sound, Counts
<1> QED BY <1>2 DEF Sound, Spaces, Private

\* page_fault gives the last user of a frame its write bit back.
LEMMA MakeWritable ==
  ASSUME NEW pr, NEW ph, Sound(pr, ph), NEW p \in Proc, NEW v \in StackPage, NEW f \in Usable,
         pr[p].entry[v].index = f, ph.count[f] = 1, NEW qr, NewEntry(pr, qr, p, v, entry_init(f))
  PROVE  Sound(qr, ph)
<1>1. entry_init(f) \in Entry /\ entry_init(f).index = f /\ f # NoFrame
  BY FrameFacts DEF entry_init, Entry
<1>2. pr[p].entry \in [StackPage -> Entry]
  BY DEF Sound, Spaces
<1>3. qr[p].entry \in [StackPage -> Entry] /\ qr[p].entry[v] = entry_init(f)
  BY <1>1, <1>2 DEF NewEntry
<1>4. \A q \in Proc, w \in StackPage : <<q, w>> # <<p, v>> => qr[q].entry[w] = pr[q].entry[w]
  BY <1>2 DEF NewEntry, Others
<1>5. \A q \in Proc : qr[q].table = pr[q].table
  BY DEF NewEntry, Others
<1>6. \A q \in Proc, w \in StackPage : qr[q].entry[w].index = pr[q].entry[w].index
  BY <1>1, <1>3, <1>4
<1>7. \A g : Use(qr, g) = Use(pr, g) /\ Tab(qr, g) = Tab(pr, g)
  BY <1>5, <1>6, SameUse
<1>8. Counts(qr, ph)
  BY <1>7 DEF Sound, Counts
<1>9. Spaces(qr)
  <2> SUFFICES ASSUME NEW q \in Proc
               PROVE  /\ qr[q].table \in Usable \cup {NoFrame}
                      /\ qr[q].entry \in [StackPage -> Entry]
                      /\ \A w \in StackPage : qr[q].entry[w].write => qr[q].entry[w].index # NoFrame
    BY DEF Spaces
  <2>1. CASE q # p
    BY <2>1 DEF Sound, Spaces, NewEntry, Others
  <2>2. CASE q = p
    BY <2>2, <1>1, <1>3, <1>4 DEF Sound, Spaces, NewEntry
  <2> QED BY <2>1, <2>2
<1>10. Private(qr, ph)
  BY <1>1, <1>3, <1>4 DEF Sound, Private
<1> QED BY <1>8, <1>9, <1>10 DEF Sound

\* One reference less.
Dropped(ph, f) == [ph EXCEPT !.count[f] = @ - 1]

\* page_fault lets go of a frame that others use too.
LEMMA DropShare ==
  ASSUME NEW pr, NEW ph, Sound(pr, ph), NEW p \in Proc, NEW v \in StackPage, NEW f \in Usable,
         pr[p].entry[v].index = f, ph.count[f] # 1, NEW qr, NewEntry(pr, qr, p, v, NoEntry)
  PROVE  LET u == Dropped(ph, f)
         IN Sound(qr, u) /\ Clear(u) = Clear(ph)
<1> DEFINE u == Dropped(ph, f)
<1>1. f \in Frame /\ f # NoFrame /\ ph.count \in [Frame -> Nat]
  BY FrameFacts DEF Sound, IsPhysical
<1>2. u = [count |-> [ph.count EXCEPT ![f] = @ - 1], free |-> ph.free]
  <2>1. PICK c, n : ph = [count |-> c, free |-> n]
    BY DEF Sound, IsPhysical
  <2> QED BY <2>1 DEF Dropped
<1> HIDE DEF u
<1>3. u.count = [ph.count EXCEPT ![f] = @ - 1] /\ u.free = ph.free
  BY <1>2
<1>4. ph.count[f] > 1
  <2>1. <<p, v>> \in Use(pr, f)
    BY UseFacts
  <2>2. Cardinality(Use(pr, f)) # 0
    BY <2>1, UseFacts, FS_EmptySet
  <2>3. ph.count[f] # 0
    BY <2>2, UseFacts DEF Sound, Counts
  <2> QED BY <2>3, <1>1
<1>5. u.count \in [Frame -> Nat] /\ IsPhysical(u)
  BY <1>1, <1>2, <1>3, <1>4 DEF IsPhysical
<1>6. Clear(u) = Clear(ph)
  <2>1. \A g \in Frame : u.count[g] = 0 <=> ph.count[g] = 0
    BY <1>1, <1>3, <1>4
  <2> QED BY <2>1 DEF Clear
<1>7. FreeCount(u)
  BY <1>3, <1>6 DEF Sound, FreeCount
<1>8. NoEntry \in Entry /\ NoEntry.index = NoFrame /\ ~NoEntry.write
  BY DEF NoEntry, Entry
<1>9. pr[p].entry \in [StackPage -> Entry]
  BY DEF Sound, Spaces
<1>10. qr[p].entry \in [StackPage -> Entry] /\ qr[p].entry[v] = NoEntry
  BY <1>8, <1>9 DEF NewEntry
<1>11. \A q \in Proc, w \in StackPage : <<q, w>> # <<p, v>> => qr[q].entry[w] = pr[q].entry[w]
  BY <1>9 DEF NewEntry, Others
<1>12. \A q \in Proc : qr[q].table = pr[q].table
  BY DEF NewEntry, Others
<1>13. Spaces(qr)
  <2> SUFFICES ASSUME NEW q \in Proc
               PROVE  /\ qr[q].table \in Usable \cup {NoFrame}
                      /\ qr[q].entry \in [StackPage -> Entry]
                      /\ \A w \in StackPage : qr[q].entry[w].write => qr[q].entry[w].index # NoFrame
    BY DEF Spaces
  <2>1. CASE q # p
    BY <2>1 DEF Sound, Spaces, NewEntry, Others
  <2>2. CASE q = p
    BY <2>2, <1>8, <1>10, <1>11 DEF Sound, Spaces, NewEntry
  <2> QED BY <2>1, <2>2
<1>14. Counts(qr, u)
  <2> SUFFICES ASSUME NEW g \in Usable
               PROVE  u.count[g] = Cardinality(Use(qr, g)) + Cardinality(Tab(qr, g))
    BY DEF Counts
  <2>1. g # NoFrame /\ g \in Frame
    BY FrameFacts
  <2>2. Tab(qr, g) = Tab(pr, g)
    BY <1>12 DEF Tab
  <2>3. ph.count[g] = Cardinality(Use(pr, g)) + Cardinality(Tab(pr, g))
    BY DEF Sound, Counts
  <2>4. CASE g = f
    <3>1. \A x \in Proc \X StackPage : x \in Use(qr, f) <=> x \in Use(pr, f) /\ x # <<p, v>>
      BY <1>1, <1>8, <1>10, <1>11 DEF Use
    <3>2. Use(qr, f) = Use(pr, f) \ {<<p, v>>}
      BY <3>1 DEF Use
    <3>3. <<p, v>> \in Use(pr, f) /\ IsFiniteSet(Use(pr, f))
      BY UseFacts
    <3>4. Cardinality(Use(qr, f)) = Cardinality(Use(pr, f)) - 1
      BY <3>2, <3>3, FS_RemoveElement
    <3>5. u.count[f] = ph.count[f] - 1
      BY <1>1, <1>3
    <3>6. Cardinality(Use(pr, f)) \in Nat /\ Cardinality(Tab(pr, f)) \in Nat
      BY UseFacts
    <3> QED BY <2>2, <2>3, <2>4, <3>4, <3>5, <3>6
  <2>5. CASE g # f
    <3>1. \A q \in Proc, w \in StackPage : qr[q].entry[w].index = g <=> pr[q].entry[w].index = g
      BY <2>1, <2>5, <1>8, <1>10, <1>11
    <3>2. Use(qr, g) = Use(pr, g)
      BY <1>12, <3>1, SameUse
    <3>3. u.count[g] = ph.count[g]
      BY <2>1, <2>5, <1>1, <1>3
    <3> QED BY <2>2, <2>3, <3>2, <3>3
  <2> QED BY <2>4, <2>5
<1>15. Private(qr, u)
  <2> SUFFICES ASSUME NEW q \in Proc, NEW w \in StackPage, qr[q].entry[w].write
               PROVE  u.count[qr[q].entry[w].index] = 1
    BY DEF Private
  <2>1. <<q, w>> # <<p, v>> /\ qr[q].entry[w] = pr[q].entry[w]
    BY <1>8, <1>10, <1>11
  <2>2. pr[q].entry[w].write
    BY <2>1
  <2>3. pr[q].entry[w].index \in Usable /\ ph.count[pr[q].entry[w].index] = 1
    BY <2>2 DEF Sound, Private, Spaces, Entry
  <2> QED BY <2>1, <2>3, <1>1, <1>3, FrameFacts
<1> QED BY <1>5, <1>6, <1>7, <1>13, <1>14, <1>15 DEF Sound, u

\* Entries(p, f) for the processes pr, and the uses they stand for.
EntriesIn(pr, p, f) == {v \in StackPage : pr[p].entry[v].index = f}
Of(c, E) == {x \in {c} \X StackPage : x[2] \in E}

\* A copy of entries has as many of them.
LEMMA OfFacts ==
  ASSUME NEW pr, NEW p, NEW c, NEW f
  PROVE  LET E == EntriesIn(pr, p, f)
         IN /\ IsFiniteSet(Of(c, E)) /\ Cardinality(Of(c, E)) = Cardinality(E)
            /\ Cardinality(E) \in Nat
<1> DEFINE E == EntriesIn(pr, p, f)
           h == [v \in E |-> <<c, v>>]
<1>1. IsFiniteSet(E)
  BY MemoryAssumption, FS_Subset DEF EntriesIn
<1>2. E \subseteq StackPage
  BY DEF EntriesIn
<1> HIDE DEF E
<1>3. h \in Bijection(E, Of(c, E))
  <2>1. h \in [E -> Of(c, E)]
    BY <1>2 DEF Of
  <2>2. \A a, b \in E : h[a] = h[b] => a = b
    OBVIOUS
  <2>3. \A x \in Of(c, E) : \E v \in E : h[v] = x
    BY DEF Of
  <2> HIDE DEF h
  <2> QED BY <2>1, <2>2, <2>3 DEF Bijection, Injection, Surjection, IsInjective
<1>4. ExistsBijection(E, Of(c, E))
  BY <1>3 DEF ExistsBijection
<1>5. IsFiniteSet(Of(c, E)) /\ Cardinality(Of(c, E)) = Cardinality(E)
  BY <1>1, <1>4, FS_Bijection
<1>6. Cardinality(E) \in Nat
  BY <1>1, FS_CardinalityType
<1> QED BY <1>5, <1>6 DEF E

\* Two sets without a common element.
LEMMA Disjoint ==
  ASSUME NEW A, NEW B, IsFiniteSet(A), IsFiniteSet(B), A \cap B = {}
  PROVE  Cardinality(A \cup B) = Cardinality(A) + Cardinality(B)
<1>1. Cardinality(A \cup B) = Cardinality(A) + Cardinality(B) - Cardinality(A \cap B)
  BY FS_Union
<1>2. Cardinality(A) \in Nat /\ Cardinality(B) \in Nat /\ Cardinality(A \cap B) = 0
  BY FS_CardinalityType, FS_EmptySet
<1> QED BY <1>1, <1>2

\* Process c gets the entries of process p, and both lose their write bits.
Shares(pr, qr, p, c) ==
  /\ \A q \in Proc : qr[q].table = pr[q].table
  /\ \A q \in Proc \ {p, c} : qr[q].entry = pr[q].entry
  /\ qr[p].entry = [v \in StackPage |-> ReadOnly(pr[p].entry[v])]
  /\ qr[c].entry = [v \in StackPage |-> ReadOnly(pr[p].entry[v])]

\* One reference more for every entry of p.
Lent(ph, pr, p) ==
  [ph EXCEPT !.count = [f \in Frame |-> @[f] + Cardinality(EntriesIn(pr, p, f))]]

\* copy_pde: the frames of p are referenced once more for every entry.
LEMMA Share ==
  ASSUME NEW pr, NEW ph, Sound(pr, ph), NEW p \in Proc, NEW c \in Proc \ {p},
         \A v \in StackPage : pr[c].entry[v] = NoEntry, NEW qr, Shares(pr, qr, p, c)
  PROVE  LET u == Lent(ph, pr, p)
         IN Sound(qr, u) /\ Clear(u) = Clear(ph)
<1> DEFINE E(f) == EntriesIn(pr, p, f)
           u == Lent(ph, pr, p)
<1>1. \A f : Cardinality(E(f)) \in Nat
  BY OfFacts
<1>2. u = [count |-> [f \in Frame |-> ph.count[f] + Cardinality(E(f))], free |-> ph.free]
  <2>1. PICK n, m : ph = [count |-> n, free |-> m]
    BY DEF Sound, IsPhysical
  <2>2. u = [ph EXCEPT !.count = [f \in Frame |-> @[f] + Cardinality(E(f))]]
    BY DEF Lent
  <2> HIDE DEF E, u
  <2> QED BY <2>1, <2>2
<1> HIDE DEF u
<1>3. u.count = [f \in Frame |-> ph.count[f] + Cardinality(E(f))] /\ u.free = ph.free
  BY <1>2
<1>4. IsPhysical(u) /\ ph.count \in [Frame -> Nat]
  BY <1>1, <1>2, <1>3 DEF Sound, IsPhysical
<1>5. \A f : Use(pr, f) = {} => Cardinality(E(f)) = 0
  <2> SUFFICES ASSUME NEW f, Use(pr, f) = {} PROVE E(f) = {}
    BY FS_EmptySet
  <2> QED BY UseFacts, ZenonT(40) DEF EntriesIn
<1>6. Clear(u) = Clear(ph)
  <2>1. \A f \in Frame : u.count[f] = 0 => ph.count[f] = 0
    BY <1>1, <1>3, <1>4
  <2>2. \A f \in Clear(ph) : u.count[f] = 0
    BY <1>3, <1>5, ClearUnused DEF Clear
  <2> QED BY <2>1, <2>2 DEF Clear
<1>7. FreeCount(u)
  BY <1>3, <1>6 DEF Sound, FreeCount
<1>8. pr[p].entry \in [StackPage -> Entry] /\ pr[c].entry \in [StackPage -> Entry]
  BY DEF Sound, Spaces
<1>9. \A v \in StackPage : /\ ReadOnly(pr[p].entry[v]) \in Entry
                           /\ ReadOnly(pr[p].entry[v]).index = pr[p].entry[v].index
                           /\ ~ReadOnly(pr[p].entry[v]).write
  BY <1>8 DEF ReadOnly, Entry
<1>10. \A v \in StackPage : /\ qr[p].entry[v].index = pr[p].entry[v].index
                            /\ qr[c].entry[v].index = pr[p].entry[v].index
                            /\ ~qr[p].entry[v].write /\ ~qr[c].entry[v].write
  BY <1>9 DEF Shares
<1>11. qr[p].entry \in [StackPage -> Entry] /\ qr[c].entry \in [StackPage -> Entry]
  BY <1>9 DEF Shares
<1>12. Spaces(qr)
  <2> SUFFICES ASSUME NEW q \in Proc
               PROVE  /\ qr[q].table \in Usable \cup {NoFrame}
                      /\ qr[q].entry \in [StackPage -> Entry]
                      /\ \A w \in StackPage : qr[q].entry[w].write => qr[q].entry[w].index # NoFrame
    BY DEF Spaces
  <2>1. CASE q # p /\ q # c
    BY <2>1 DEF Sound, Spaces, Shares
  <2>2. CASE q = p \/ q = c
    BY <2>2, <1>10, <1>11 DEF Sound, Spaces, Shares
  <2> QED BY <2>1, <2>2
<1>13. Counts(qr, u)
  <2> SUFFICES ASSUME NEW f \in Usable
               PROVE  u.count[f] = Cardinality(Use(qr, f)) + Cardinality(Tab(qr, f))
    BY DEF Counts
  <2>1. f # NoFrame /\ f \in Frame
    BY FrameFacts
  <2>2. Tab(qr, f) = Tab(pr, f)
    BY DEF Shares, Tab
  <2>3. ASSUME NEW q \in Proc, NEW v \in StackPage
        PROVE  <<q, v>> \in Use(qr, f) <=> <<q, v>> \in Use(pr, f) \/ <<q, v>> \in Of(c, E(f))
    <3>1. <<q, v>> \in Of(c, E(f)) <=> q = c /\ pr[p].entry[v].index = f
      BY DEF Of, EntriesIn
    <3>2. CASE q = c
      BY <3>1, <3>2, <2>1, <1>10, UseFacts DEF NoEntry
    <3>3. CASE q = p
      BY <3>1, <3>3, <1>10, UseFacts
    <3>4. CASE q # p /\ q # c
      BY <3>1, <3>4, UseFacts DEF Shares
    <3> QED BY <3>2, <3>3, <3>4
  <2> HIDE DEF E
  <2>4. Use(qr, f) = Use(pr, f) \cup Of(c, E(f))
    <3>1. Use(qr, f) \subseteq Proc \X StackPage /\ Use(pr, f) \subseteq Proc \X StackPage
      BY DEF Use
    <3>2. Of(c, E(f)) \subseteq Proc \X StackPage
      BY DEF Of
    <3>3. \A x \in Proc \X StackPage : x \in Use(qr, f) <=> x \in Use(pr, f) \/ x \in Of(c, E(f))
      BY <2>3
    <3> QED BY <3>1, <3>2, <3>3
  <2>5. Use(pr, f) \cap Of(c, E(f)) = {}
    BY <2>1 DEF Use, Of, NoEntry
  <2>6. IsFiniteSet(Of(c, E(f))) /\ Cardinality(Of(c, E(f))) = Cardinality(E(f))
    BY OfFacts DEF E
  <2>7. Cardinality(Use(qr, f)) = Cardinality(Use(pr, f)) + Cardinality(E(f))
    BY <2>4, <2>5, <2>6, UseFacts, Disjoint
  <2>8. ph.count[f] = Cardinality(Use(pr, f)) + Cardinality(Tab(pr, f))
    BY DEF Sound, Counts
  <2>9. u.count[f] = ph.count[f] + Cardinality(E(f))
    BY <2>1, <1>3
  <2>10. /\ Cardinality(Use(pr, f)) \in Nat /\ Cardinality(Tab(pr, f)) \in Nat
         /\ Cardinality(E(f)) \in Nat
    BY UseFacts, <1>1
  <2> QED BY <2>2, <2>7, <2>8, <2>9, <2>10
<1>14. Private(qr, u)
  <2> SUFFICES ASSUME NEW q \in Proc, NEW w \in StackPage, qr[q].entry[w].write
               PROVE  u.count[qr[q].entry[w].index] = 1
    BY DEF Private
  <2> DEFINE f == pr[q].entry[w].index
  <2>1. q # p /\ q # c
    BY <1>10
  <2>2. qr[q].entry = pr[q].entry
    BY <2>1 DEF Shares
  <2>3. f \in Usable /\ ph.count[f] = 1
    BY <2>2 DEF Sound, Private, Spaces, Entry
  <2>4. Use(pr, f) = {<<q, w>>}
    BY <2>3, SoleUse
  <2>5. E(f) = {}
    <3>1. \A v \in StackPage : <<p, v>> # <<q, w>>
      BY <2>1
    <3>2. ASSUME NEW v \in StackPage PROVE pr[p].entry[v].index # f
      <4>1. <<p, v>> \notin Use(pr, f)
        BY <2>4, <3>1
      <4> HIDE DEF f
      <4> QED BY <4>1, UseFacts
    <3> QED BY <3>2 DEF EntriesIn
  <2>6. Cardinality(E(f)) = 0
    BY <2>5, FS_EmptySet
  <2> HIDE DEF E
  <2>7. u.count[f] = ph.count[f] + Cardinality(E(f))
    BY <2>3, <1>3, FrameFacts
  <2> QED BY <2>2, <2>3, <2>6, <2>7
<1> QED BY <1>4, <1>6, <1>7, <1>12, <1>13, <1>14 DEF Sound, u

\* What process p references of frame f (References, for the processes pr).
Refs(pr, p, f) == Cardinality(EntriesIn(pr, p, f)) + (IF pr[p].table = f THEN 1 ELSE 0)

\* Process p has neither entries nor a page table any more.
Drops(pr, qr, p) ==
  /\ Others(pr, qr, p)
  /\ qr[p].table = NoFrame /\ qr[p].entry = [v \in StackPage |-> NoEntry]

\* free_pde: the frames p was the last to use are free again.
LEMMA DropAll ==
  ASSUME NEW pr, NEW ph, Sound(pr, ph), NEW p \in Proc, NEW qr, Drops(pr, qr, p),
         NEW u, u = [count |-> u.count, free |-> u.free],
         u.count = [f \in Frame |-> ph.count[f] - Refs(pr, p, f)],
         u.free = ph.free + Cardinality({f \in Frame : Refs(pr, p, f) > 0 /\ u.count[f] = 0})
  PROVE  Sound(qr, u)
<1> DEFINE E(f) == EntriesIn(pr, p, f)
           H(f) == IF pr[p].table = f THEN 1 ELSE 0
           freed == {f \in Frame : Refs(pr, p, f) > 0 /\ u.count[f] = 0}
<1>1. \A f : /\ Cardinality(E(f)) \in Nat /\ H(f) \in Nat
             /\ Refs(pr, p, f) = Cardinality(E(f)) + H(f) /\ Refs(pr, p, f) \in Nat
  <2> SUFFICES ASSUME NEW f
               PROVE  /\ Cardinality(E(f)) \in Nat /\ H(f) \in Nat
                      /\ Refs(pr, p, f) = Cardinality(E(f)) + H(f) /\ Refs(pr, p, f) \in Nat
    OBVIOUS
  <2>1. Cardinality(E(f)) \in Nat
    BY OfFacts
  <2>2. Refs(pr, p, f) = Cardinality(E(f)) + H(f)
    BY DEF Refs
  <2>3. H(f) \in Nat
    OBVIOUS
  <2> HIDE DEF E, H
  <2> QED BY <2>1, <2>2, <2>3
<1>2. \A f \in Frame : u.count[f] = ph.count[f] - Refs(pr, p, f)
  OBVIOUS
<1>3. pr[p].entry \in [StackPage -> Entry] /\ pr[p].table \in Usable \cup {NoFrame}
  BY DEF Sound, Spaces
<1>4. ASSUME NEW f, f # NoFrame, Refs(pr, p, f) > 0 PROVE f \in Usable
  <2>1. E(f) # {} \/ pr[p].table = f
    BY <1>4, FS_EmptySet, SMTT(30) DEF Refs
  <2>2. E(f) # {} => f \in Usable
    BY <1>3, <1>4 DEF EntriesIn, Entry
  <2> QED BY <2>1, <2>2, <1>3, <1>4
<1> HIDE DEF E
<1>5. ASSUME NEW f \in Usable
      PROVE  /\ Cardinality(Use(pr, f)) = Cardinality(Use(qr, f)) + Cardinality(E(f))
             /\ Cardinality(Tab(pr, f)) = Cardinality(Tab(qr, f)) + H(f)
  <2>1. f # NoFrame /\ f \in Frame
    BY FrameFacts
  <2>2. ASSUME NEW q \in Proc, NEW v \in StackPage
        PROVE  <<q, v>> \in Use(pr, f) <=> <<q, v>> \in Use(qr, f) \/ <<q, v>> \in Of(p, E(f))
    <3>1. <<q, v>> \in Of(p, E(f)) <=> q = p /\ pr[p].entry[v].index = f
      BY DEF Of, EntriesIn, E
    <3>2. CASE q = p
      BY <3>1, <3>2, <2>1, UseFacts DEF NoEntry, Drops
    <3>3. CASE q # p
      BY <3>1, <3>3, UseFacts DEF Drops, Others
    <3> QED BY <3>2, <3>3
  <2>3. Use(pr, f) = Use(qr, f) \cup Of(p, E(f))
    <3>1. Use(qr, f) \subseteq Proc \X StackPage /\ Use(pr, f) \subseteq Proc \X StackPage
      BY DEF Use
    <3>2. Of(p, E(f)) \subseteq Proc \X StackPage
      BY DEF Of
    <3>3. \A x \in Proc \X StackPage : x \in Use(pr, f) <=> x \in Use(qr, f) \/ x \in Of(p, E(f))
      BY <2>2
    <3> QED BY <3>1, <3>2, <3>3
  <2>4. Use(qr, f) \cap Of(p, E(f)) = {}
    BY <2>1 DEF Use, Of, NoEntry, Drops
  <2>5. IsFiniteSet(Of(p, E(f))) /\ Cardinality(Of(p, E(f))) = Cardinality(E(f))
    BY OfFacts DEF E
  <2>6. Cardinality(Use(pr, f)) = Cardinality(Use(qr, f)) + Cardinality(E(f))
    BY <2>3, <2>4, <2>5, UseFacts, Disjoint
  <2>7. CASE pr[p].table = f
    <3>1. Tab(pr, f) = Tab(qr, f) \cup {p} /\ p \notin Tab(qr, f)
      BY <2>1, <2>7 DEF Tab, Drops, Others
    <3>2. Cardinality(Tab(pr, f)) = Cardinality(Tab(qr, f)) + 1
      BY <3>1, UseFacts, FS_AddElement, ZenonT(40)
    <3> QED BY <2>6, <2>7, <3>2
  <2>8. CASE pr[p].table # f
    <3>1. Tab(pr, f) = Tab(qr, f)
      BY <2>1, <2>8 DEF Tab, Drops, Others
    <3>2. Cardinality(Tab(qr, f)) \in Nat
      BY UseFacts
    <3> QED BY <2>6, <2>8, <3>1, <3>2
  <2> QED BY <2>7, <2>8
<1>6. Counts(qr, u)
  <2> SUFFICES ASSUME NEW f \in Usable
               PROVE  u.count[f] = Cardinality(Use(qr, f)) + Cardinality(Tab(qr, f))
    BY DEF Counts
  <2> HIDE DEF H
  <2>1. ph.count[f] = Cardinality(Use(pr, f)) + Cardinality(Tab(pr, f))
    BY DEF Sound, Counts
  <2>2. u.count[f] = ph.count[f] - (Cardinality(E(f)) + H(f))
    BY <1>1, <1>2, FrameFacts
  <2>3. Cardinality(Use(qr, f)) \in Nat /\ Cardinality(Tab(qr, f)) \in Nat
    BY UseFacts
  <2> QED BY <2>1, <2>2, <2>3, <1>1, <1>5
<1>7. \A f \in Frame : u.count[f] \in Nat
  <2> SUFFICES ASSUME NEW f \in Frame PROVE u.count[f] \in Nat
    OBVIOUS
  <2>1. CASE f \in Usable
    <3>1. Cardinality(Use(qr, f)) \in Nat /\ Cardinality(Tab(qr, f)) \in Nat
      BY UseFacts
    <3> QED BY <2>1, <3>1, <1>6 DEF Counts
  <2>2. CASE f \notin Usable
    <3>1. f # NoFrame
      BY FrameFacts
    <3>2. Refs(pr, p, f) = 0
      BY <2>2, <3>1, <1>1, <1>4
    <3>3. ph.count[f] \in Nat
      BY DEF Sound, IsPhysical
    <3> QED BY <3>2, <3>3, <1>2
  <2> QED BY <2>1, <2>2
<1>8. IsPhysical(u)
  <2>1. u.count \in [Frame -> Nat]
    BY <1>7
  <2> QED BY <2>1 DEF IsPhysical
<1>9. \A f \in Clear(ph) : Refs(pr, p, f) = 0
  <2> SUFFICES ASSUME NEW f \in Clear(ph) PROVE Refs(pr, p, f) = 0
    OBVIOUS
  <2>1. ph.count[f] = 0 /\ f \in Frame
    BY DEF Clear
  <2>2. 0 - Refs(pr, p, f) \in Nat
    BY <2>1, <1>2, <1>7
  <2> QED BY <2>2, <1>1
<1>10. Clear(u) = Clear(ph) \cup freed /\ Clear(ph) \cap freed = {}
  <2>1. \A f \in freed : f \in Usable /\ f >= Reserved
    BY <1>4, FrameFacts, MemoryAssumption DEF Usable
  <2>2. \A f \in Clear(u) : f \in Clear(ph) \/ f \in freed
    <3> SUFFICES ASSUME NEW f \in Clear(u), f \notin freed PROVE f \in Clear(ph)
      OBVIOUS
    <3>1. f \in Frame /\ f >= Reserved /\ u.count[f] = 0
      BY DEF Clear
    <3>2. Refs(pr, p, f) = 0
      BY <3>1, <1>1
    <3>3. ph.count[f] \in Nat /\ u.count[f] = ph.count[f] - Refs(pr, p, f)
      BY <3>1, <1>2 DEF Sound, IsPhysical
    <3> QED BY <3>1, <3>2, <3>3 DEF Clear
  <2>3. \A f \in Clear(ph) : f \in Clear(u)
    BY <1>2, <1>9 DEF Clear
  <2>4. \A f \in freed : f \in Clear(u)
    BY <2>1 DEF Clear
  <2>5. \A f \in Clear(ph) : f \notin freed
    BY <1>9
  <2> QED BY <2>2, <2>3, <2>4, <2>5
<1>11. FreeCount(u)
  <2>1. IsFiniteSet(Clear(ph)) /\ IsFiniteSet(freed)
    BY FrameFacts, FS_Subset DEF Clear
  <2>2. Cardinality(Clear(ph)) \in Nat /\ Cardinality(freed) \in Nat
    BY <2>1, FS_CardinalityType
  <2>3. Cardinality(Clear(u)) = Cardinality(Clear(ph)) + Cardinality(freed)
    BY <2>1, <1>10, Disjoint
  <2>4. ph.free = Cardinality(Clear(ph)) + (Mapped - Reserved)
    BY DEF Sound, FreeCount
  <2>5. u.free = ph.free + Cardinality(freed)
    OBVIOUS
  <2>6. \A f \in freed : f \in Usable
    BY <1>4, FrameFacts
  <2>7. \A f \in Clear(u) : f \in Usable
    BY <2>6, <1>10 DEF Sound, FreeCount
  <2> HIDE DEF freed
  <2>8. Mapped \in Nat /\ Reserved \in Nat
    BY MemoryAssumption
  <2>9. u.free = Cardinality(Clear(u)) + (Mapped - Reserved)
    BY <2>2, <2>3, <2>4, <2>5, <2>8
  <2> QED BY <2>7, <2>9 DEF FreeCount
<1>12. NoEntry \in Entry /\ ~NoEntry.write
  BY DEF NoEntry, Entry
<1>13. Spaces(qr)
  <2> SUFFICES ASSUME NEW q \in Proc
               PROVE  /\ qr[q].table \in Usable \cup {NoFrame}
                      /\ qr[q].entry \in [StackPage -> Entry]
                      /\ \A w \in StackPage : qr[q].entry[w].write => qr[q].entry[w].index # NoFrame
    BY DEF Spaces
  <2>1. CASE q # p
    BY <2>1 DEF Sound, Spaces, Drops, Others
  <2>2. CASE q = p
    BY <2>2, <1>12 DEF Drops
  <2> QED BY <2>1, <2>2
<1>14. Private(qr, u)
  <2> SUFFICES ASSUME NEW q \in Proc, NEW w \in StackPage, qr[q].entry[w].write
               PROVE  u.count[qr[q].entry[w].index] = 1
    BY DEF Private
  <2> DEFINE f == pr[q].entry[w].index
  <2>1. q # p
    BY <1>12 DEF Drops
  <2>2. qr[q].entry = pr[q].entry
    BY <2>1 DEF Drops, Others
  <2>3. f \in Usable /\ ph.count[f] = 1
    BY <2>2 DEF Sound, Private, Spaces, Entry
  <2>4. Use(pr, f) = {<<q, w>>} /\ Tab(pr, f) = {}
    BY <2>3, SoleUse
  <2>5. E(f) = {}
    <3>1. \A v \in StackPage : <<p, v>> # <<q, w>>
      BY <2>1
    <3>2. ASSUME NEW v \in StackPage PROVE pr[p].entry[v].index # f
      <4>1. <<p, v>> \notin Use(pr, f)
        BY <2>4, <3>1
      <4> HIDE DEF f
      <4> QED BY <4>1, UseFacts
    <3> QED BY <3>2 DEF EntriesIn, E
  <2>6. pr[p].table # f
    BY <2>4 DEF Tab
  <2> HIDE DEF f
  <2>7. Refs(pr, p, f) = 0
    <3>1. Cardinality(E(f)) = 0
      BY <2>5, FS_EmptySet
    <3>2. H(f) = 0
      BY <2>6
    <3> HIDE DEF H
    <3> QED BY <3>1, <3>2, <1>1
  <2>8. u.count[f] = ph.count[f] - Refs(pr, p, f)
    BY <2>3, <1>2, FrameFacts
  <2>9. u.count[f] = 1
    BY <2>3, <2>7, <2>8
  <2> QED BY <2>2, <2>9 DEF f
<1> QED BY <1>6, <1>8, <1>11, <1>13, <1>14 DEF Sound

-----------------------------------------------------------------------------
(* Parts of the steps *)

\* The page table of a process changes, nothing else.
PutTable(pr, p, t) == [pr EXCEPT ![p].table = t]

\* What giving a process a page table changes.
LEMMA SetTable ==
  ASSUME NEW pr, Records(pr), NEW p \in Proc, NEW t,
         NEW qr, qr = PutTable(pr, p, t)
  PROVE  /\ Records(qr) /\ Others(pr, qr, p) /\ qr[p].table = t /\ qr[p].entry = pr[p].entry
         /\ \A q \in Proc : qr[q].state = pr[q].state
<1>1. pr = [q \in Proc |-> pr[q]] /\ \A q \in Proc : pr[q] = [x \in Fields |-> pr[q][x]]
  BY DEF Records
<1>2. qr = [q \in Proc |-> qr[q]] /\ \A q \in Proc \ {p} : qr[q] = pr[q]
  BY <1>1 DEF PutTable
<1>3. qr[p] = [x \in Fields |-> IF x = "table" THEN t ELSE pr[p][x]]
  <2>1. qr[p] = [pr[p] EXCEPT !.table = t]
    BY <1>1 DEF PutTable
  <2>2. PICK r : pr[p] = [x \in Fields |-> r[x]] /\ r = pr[p]
    BY <1>1
  <2> QED BY <2>1, <2>2 DEF Fields
<1>4. qr[p].table = t /\ qr[p].entry = pr[p].entry /\ qr[p].state = pr[p].state
  BY <1>3 DEF Fields
<1>5. Records(qr)
  BY <1>1, <1>2, <1>3 DEF Records
<1> QED BY <1>2, <1>4, <1>5 DEF Others

\* All entries of a process change.
PutEntries(pr, p, es) == [pr EXCEPT ![p].entry = es]

\* What giving a process other entries changes.
LEMMA SetEntries ==
  ASSUME NEW pr, Records(pr), NEW p \in Proc, NEW es,
         NEW qr, qr = PutEntries(pr, p, es)
  PROVE  /\ Records(qr) /\ qr[p].entry = es /\ qr[p].table = pr[p].table
         /\ \A q \in Proc \ {p} : qr[q] = pr[q]
         /\ \A q \in Proc : qr[q].state = pr[q].state
<1>1. pr = [q \in Proc |-> pr[q]] /\ \A q \in Proc : pr[q] = [x \in Fields |-> pr[q][x]]
  BY DEF Records
<1>2. qr = [q \in Proc |-> qr[q]] /\ \A q \in Proc \ {p} : qr[q] = pr[q]
  BY <1>1 DEF PutEntries
<1>3. qr[p] = [x \in Fields |-> IF x = "entry" THEN es ELSE pr[p][x]]
  <2>1. qr[p] = [pr[p] EXCEPT !.entry = es]
    BY <1>1 DEF PutEntries
  <2>2. PICK r : pr[p] = [x \in Fields |-> r[x]] /\ r = pr[p]
    BY <1>1
  <2> QED BY <2>1, <2>2 DEF Fields
<1>4. qr[p].table = pr[p].table /\ qr[p].entry = es /\ qr[p].state = pr[p].state
  BY <1>3 DEF Fields
<1>5. Records(qr)
  BY <1>1, <1>2, <1>3 DEF Records
<1> QED BY <1>2, <1>4, <1>5

\* One entry of a process changes.
PutEntry(pr, p, v, e) == [pr EXCEPT ![p].entry[v] = e]

\* What setting one entry changes.
LEMMA SetEntry ==
  ASSUME NEW pr, Records(pr), NEW p \in Proc, NEW v, NEW e,
         NEW qr, qr = PutEntry(pr, p, v, e)
  PROVE  /\ Records(qr) /\ NewEntry(pr, qr, p, v, e)
         /\ \A q \in Proc : qr[q].state = pr[q].state
<1> DEFINE es == [pr[p].entry EXCEPT ![v] = e]
<1>1. pr = [q \in Proc |-> pr[q]] /\ pr[p] = [x \in Fields |-> pr[p][x]]
  BY DEF Records
<1>2. qr = PutEntries(pr, p, es)
  BY DEF PutEntries, PutEntry
<1> HIDE DEF es
<1>3. /\ Records(qr) /\ qr[p].entry = es /\ qr[p].table = pr[p].table
      /\ \A q \in Proc \ {p} : qr[q] = pr[q]
      /\ \A q \in Proc : qr[q].state = pr[q].state
  BY <1>2, SetEntries
<1> QED BY <1>3 DEF NewEntry, Others, es

\* The kernel goes on only if there are as many clear frames as the call needs.
LEMMA EnoughFrames ==
  ASSUME NEW ph, NEW n \in Nat \ {0}, OutOfFrames(ph, n) = "no"
  PROVE  Cardinality(Clear(ph)) >= n /\ Clear(ph) # {}
<1>1. Cardinality(Clear(ph)) >= n
  BY DEF OutOfFrames
<1> QED BY <1>1, FS_EmptySet

\* A change of entries and page tables of the living keeps Tabled.
LEMMA StillTabled ==
  ASSUME NEW pr, Tabled(pr), NEW qr, NEW p \in Proc, pr[p].state = "alive",
         \A q \in Proc \ {p} : qr[q].table = pr[q].table /\ qr[q].entry = pr[q].entry,
         \A q \in Proc : qr[q].state = pr[q].state, qr[p].table # NoFrame
  PROVE  Tabled(qr)
BY DEF Tabled

\* page_fault and link_page for a page that is not present.
LEMMA LinkPage ==
  ASSUME IInv, NEW p \in Proc, NEW v \in StackPage, Alive(p), ~Present(p, v),
         NEW l, l = link_page(p, v), l.stop = "no"
  PROVE  /\ Sound(l.proc, l.ph) /\ Records(l.proc) /\ Tabled(l.proc)
         /\ l.index \in Clear(Physical) /\ l.index \in Frame
         /\ \A q \in Proc : l.proc[q].state = proc[q].state
         /\ \A q \in Proc, w \in StackPage :
              l.proc[q].entry[w] = IF <<q, w>> = <<p, v>> THEN entry_init(l.index)
                                   ELSE proc[q].entry[w]
<1> DEFINE ph == Physical
           t == IF proc[p].table = NoFrame THEN get_p_page(ph) ELSE proc[p].table
           u == IF proc[p].table = NoFrame THEN Taken(ph) ELSE ph
           n == IF proc[p].table = NoFrame THEN 2 ELSE 1
           pr == PutTable(proc, p, t)
           g == get_p_page(u)
           qr == PutEntry(pr, p, v, entry_init(g))
<1>1. /\ OutOfFrames(ph, n) = "no" /\ l.ph = Taken(u) /\ l.index = g /\ l.proc = qr
  <2>1. OutOfFrames(ph, n) = "no"
    BY DEF link_page
  <2>2. l = [stop |-> "no", ph |-> Taken(u), index |-> g,
             proc |-> [proc EXCEPT ![p].table = t, ![p].entry[v] = entry_init(g)]]
    BY <2>1 DEF link_page
  <2>3. [proc EXCEPT ![p].table = t, ![p].entry[v] = entry_init(g)] = qr
    BY DEF PutEntry, PutTable
  <2> HIDE DEF u, g, t, qr
  <2> QED BY <2>1, <2>2, <2>3
<1>2. Sound(proc, ph) /\ Records(proc) /\ Tabled(proc)
  BY DEF IInv
<1>3. Cardinality(Clear(ph)) >= n /\ Clear(ph) # {}
  BY <1>1, EnoughFrames
<1>4. proc[p].entry[v].index = NoFrame
  BY DEF Present
<1> HIDE DEF ph
<1>5. /\ Records(pr) /\ Others(proc, pr, p) /\ pr[p].table = t /\ pr[p].entry = proc[p].entry
      /\ \A q \in Proc : pr[q].state = proc[q].state
  BY <1>2, SetTable
<1> HIDE DEF pr
<1>6. Sound(pr, u) /\ Clear(u) # {} /\ Clear(u) \subseteq Clear(ph) /\ t # NoFrame
  <2>1. CASE proc[p].table = NoFrame
    <3>1. t = get_p_page(ph) /\ u = Taken(ph) /\ n = 2
      BY <2>1
    <3> HIDE DEF t, u
    <3>2. Sound(pr, u)
      BY <2>1, <3>1, <1>2, <1>3, <1>5, GiveTable
    <3>3. Clear(u) = Clear(ph) \ {t} /\ t \in Clear(ph) /\ t \in Frame
      BY <3>1, <1>2, <1>3, TakeFacts DEF Sound
    <3>4. Clear(ph) # {t}
      <4>1. Cardinality({t}) = 1
        BY FS_Singleton
      <4>2. Cardinality(Clear(ph)) >= 2
        BY <2>1, <1>3
      <4> QED BY <4>1, <4>2
    <3> QED BY <3>2, <3>3, <3>4, FrameFacts
  <2>2. CASE proc[p].table # NoFrame
    <3>1. t = proc[p].table /\ u = ph
      BY <2>2
    <3> HIDE DEF t, u
    <3>2. \A q \in Proc : pr[q].table = proc[q].table /\ pr[q].entry = proc[q].entry
      BY <3>1, <1>5 DEF Others
    <3>3. Sound(pr, u)
      BY <3>1, <3>2, <1>2, SameSpaces
    <3> QED BY <2>2, <3>1, <3>3, <1>3
  <2> QED BY <2>1, <2>2
<1>7. g \in Clear(u) /\ g \in Frame
  BY <1>6, TakeFacts DEF Sound
<1> HIDE DEF t, u, g
<1>8. /\ Records(qr) /\ NewEntry(pr, qr, p, v, entry_init(g))
      /\ \A q \in Proc : qr[q].state = pr[q].state
  BY <1>5, SetEntry
<1> HIDE DEF qr
<1>9. Sound(qr, Taken(u))
  BY <1>4, <1>5, <1>6, <1>8, MapFrame DEF g
<1>10. Tabled(qr)
  <2>1. qr[p].table # NoFrame /\ proc[p].state = "alive"
    BY <1>5, <1>6, <1>8 DEF NewEntry, Alive
  <2>2. \A q \in Proc \ {p} : qr[q].table = proc[q].table /\ qr[q].entry = proc[q].entry
    BY <1>5, <1>8 DEF NewEntry, Others
  <2>3. \A q \in Proc : qr[q].state = proc[q].state
    BY <1>5, <1>8
  <2> QED BY <2>1, <2>2, <2>3, <1>2, StillTabled
<1>11. \A q \in Proc, w \in StackPage :
         qr[q].entry[w] = IF <<q, w>> = <<p, v>> THEN entry_init(g) ELSE proc[q].entry[w]
  <2>1. pr[p].entry \in [StackPage -> Entry]
    BY <1>2, <1>5 DEF Sound, Spaces
  <2> QED BY <2>1, <1>5, <1>8 DEF NewEntry, Others
<1> QED BY <1>1, <1>5, <1>6, <1>7, <1>8, <1>9, <1>10, <1>11 DEF ph

\* A stopping kernel changes nothing else.
LEMMA HaltStep ==
  ASSUME IInv, NEW why, Halt(why)
  PROVE  IInv' /\ UNCHANGED <<p_bit_map, free_pages, frame, proc>>
BY DEF Halt, IInv, Physical

\* page_fault for an absent page.
LEMMA FaultAbsentStep ==
  ASSUME IInv, NEW p \in Proc, NEW v \in StackPage, FaultAbsent(p, v)
  PROVE  IInv'
<1> DEFINE l == link_page(p, v)
<1>1. Alive(p) /\ ~Present(p, v)
  BY DEF FaultAbsent
<1>2. CASE Halt(l.stop)
  BY <1>2, HaltStep
<1>3. CASE /\ l.stop = "no" /\ SetPhysical(l.ph) /\ proc' = l.proc
           /\ \E x \in Value : frame' = [frame EXCEPT ![l.index] = x]
  <2> HIDE DEF l
  <2>1. /\ Sound(l.proc, l.ph) /\ Records(l.proc) /\ Tabled(l.proc)
    BY <1>1, <1>3, LinkPage DEF l
  <2>2. Physical' = l.ph
    BY <1>3, <2>1 DEF SetPhysical, Physical, Sound, IsPhysical
  <2>3. frame' \in [Frame -> Value]
    BY <1>3 DEF IInv
  <2> QED BY <2>1, <2>2, <2>3, <1>3 DEF IInv
<1> QED BY <1>2, <1>3 DEF FaultAbsent

\* An entry with its write bit set is as link_page makes one.
LEMMA Written ==
  ASSUME NEW e \in Entry
  PROVE  [e EXCEPT !.write = TRUE] = entry_init(e.index)
<1> DEFINE r == [e EXCEPT !.write = TRUE]
<1>1. r \in Entry /\ r.index = e.index /\ r.write = TRUE
  BY DEF Entry
<1> HIDE DEF r
<1>2. r = [index |-> r.index, write |-> r.write]
  BY <1>1 DEF Entry
<1> QED BY <1>1, <1>2 DEF entry_init, r

\* page_fault for a store to a shared page: the copy.
LEMMA CopyPage ==
  ASSUME IInv, NEW p \in Proc, NEW v \in StackPage, Present(p, v),
         NEW f, f = proc[p].entry[v].index, ~LastReference(f),
         NEW ph, ph = Dropped(Physical, f), OutOfFrames(ph, 1) = "no",
         NEW g, g = get_p_page(ph), NEW qr, qr = PutEntry(proc, p, v, entry_init(g))
  PROVE  /\ Sound(qr, Taken(ph)) /\ Records(qr)
         /\ NewEntry(proc, qr, p, v, entry_init(g)) /\ \A q \in Proc : qr[q].state = proc[q].state
         /\ f \in Frame /\ g \in Frame /\ g \in Clear(Physical)
<1> DEFINE pr == PutEntry(proc, p, v, NoEntry)
<1>1. /\ Sound(proc, Physical) /\ Records(proc)
      /\ proc[p].entry \in [StackPage -> Entry] /\ f \in Usable /\ f \in Frame
  BY FrameFacts DEF IInv, Sound, Spaces, Entry, Present
<1>2. Physical.count[f] # 1
  BY DEF LastReference, Physical
<1>3. NewEntry(proc, pr, p, v, NoEntry) /\ Records(pr)
  BY <1>1, SetEntry
<1>4. NewEntry(proc, qr, p, v, entry_init(g)) /\ Records(qr) /\ \A q \in Proc : qr[q].state = proc[q].state
  BY <1>1, SetEntry
<1> HIDE DEF pr
<1>5. Sound(pr, ph) /\ Clear(ph) = Clear(Physical)
  BY <1>1, <1>2, <1>3, DropShare
<1>6. Clear(ph) # {}
  BY EnoughFrames
<1>7. pr[p].entry[v].index = NoFrame
  BY <1>1, <1>3 DEF NewEntry, NoEntry
<1>8. NewEntry(pr, qr, p, v, entry_init(g))
  <2> DEFINE e == entry_init(g)
  <2> HIDE DEF e
  <2>1. [pr[p].entry EXCEPT ![v] = e] = [proc[p].entry EXCEPT ![v] = e]
    BY <1>1, <1>3, SMTT(30) DEF NewEntry
  <2>2. Others(pr, qr, p) /\ qr[p].table = pr[p].table
    BY <1>3, <1>4, ZenonT(40) DEF NewEntry, Others
  <2>3. qr[p].entry = [pr[p].entry EXCEPT ![v] = e]
    BY <2>1, <1>4 DEF NewEntry, e
  <2> QED BY <2>2, <2>3 DEF NewEntry, e
<1>9. Sound(qr, Taken(ph))
  BY <1>5, <1>6, <1>7, <1>8, MapFrame
<1>10. g \in Clear(Physical) /\ g \in Frame
  BY <1>5, <1>6, TakeFacts DEF Sound
<1> QED BY <1>1, <1>4, <1>9, <1>10

\* page_fault for a store to a page that is read-only.
LEMMA FaultWriteStep ==
  ASSUME IInv, NEW p \in Proc, NEW v \in StackPage, FaultWrite(p, v)
  PROVE  IInv'
<1> DEFINE f == proc[p].entry[v].index
           ph == Dropped(Physical, f)
           g == get_p_page(ph)
<1>1. Alive(p) /\ Present(p, v) /\ ~proc[p].entry[v].write
  BY DEF FaultWrite
<1>2. /\ Sound(proc, Physical) /\ Records(proc) /\ Tabled(proc)
      /\ proc[p].entry \in [StackPage -> Entry] /\ f \in Usable /\ f \in Frame
      /\ proc[p].table # NoFrame
  <2>1. Sound(proc, Physical) /\ Records(proc) /\ Tabled(proc)
    BY DEF IInv
  <2>2. proc[p].entry \in [StackPage -> Entry]
    BY <2>1 DEF Sound, Spaces
  <2>3. f \in Usable /\ f \in Frame
    BY <1>1, <2>2, FrameFacts DEF Entry, Present
  <2>4. proc[p].table # NoFrame
    BY <1>1, <2>1 DEF Tabled, NoEntry, Present
  <2> QED BY <2>1, <2>2, <2>3, <2>4
<1>3. CASE /\ LastReference(f) /\ UNCHANGED <<p_bit_map, free_pages, frame, k>>
           /\ proc' = [proc EXCEPT ![p].entry[v].write = TRUE]
  <2>1. [proc[p].entry[v] EXCEPT !.write = TRUE] = entry_init(f)
    <3>1. proc[p].entry[v] \in Entry
      BY <1>2
    <3> QED BY <3>1, Written
  <2>2. proc' = PutEntry(proc, p, v, entry_init(f))
    BY <1>3, <2>1 DEF PutEntry
  <2> HIDE DEF f
  <2>3. /\ NewEntry(proc, proc', p, v, entry_init(f)) /\ Records(proc')
        /\ \A q \in Proc : proc'[q].state = proc[q].state
    BY <1>2, <2>2, SetEntry
  <2>4. Physical.count[f] = 1
    BY <1>3 DEF LastReference, Physical
  <2>5. Sound(proc', Physical)
    BY <1>2, <2>3, <2>4, MakeWritable DEF f
  <2>6. Tabled(proc')
    <3>1. proc'[p].table # NoFrame
      BY <1>2, <2>3 DEF NewEntry
    <3> QED BY <3>1, <1>1, <1>2, <2>3, StillTabled DEF NewEntry, Others, Alive
  <2>7. Physical' = Physical
    BY <1>3 DEF Physical
  <2> QED BY <1>3, <2>3, <2>5, <2>6, <2>7 DEF IInv
<1>4. CASE Halt(OutOfFrames(ph, 1))
  BY <1>4, HaltStep
<1>5. CASE /\ ~LastReference(f) /\ OutOfFrames(ph, 1) = "no" /\ SetPhysical(Taken(ph))
           /\ frame' = copy_phy_page(g, f) /\ proc' = [proc EXCEPT ![p].entry[v] = entry_init(g)]
  <2>0. f = proc[p].entry[v].index /\ ph = Dropped(Physical, f) /\ g = get_p_page(ph)
    OBVIOUS
  <2>1. proc' = PutEntry(proc, p, v, entry_init(g))
    BY <1>5 DEF PutEntry
  <2> HIDE DEF ph, f, g
  <2>2. /\ Sound(proc', Taken(ph)) /\ Records(proc') /\ f \in Frame /\ g \in Frame
        /\ NewEntry(proc, proc', p, v, entry_init(g)) /\ \A q \in Proc : proc'[q].state = proc[q].state
    <3>1. ~LastReference(f) /\ OutOfFrames(ph, 1) = "no"
      BY <1>5
    <3> QED BY <1>1, <2>0, <2>1, <3>1, CopyPage
  <2>3. Physical' = Taken(ph)
    BY <1>5, <2>2 DEF SetPhysical, Physical, Sound, IsPhysical
  <2>4. frame' \in [Frame -> Value]
    BY <1>5, <2>2 DEF copy_phy_page, IInv
  <2>5. Tabled(proc')
    <3>1. proc'[p].table # NoFrame
      BY <1>2, <2>2 DEF NewEntry
    <3> QED BY <3>1, <1>1, <1>2, <2>2, StillTabled DEF NewEntry, Others, Alive
  <2> QED BY <2>2, <2>3, <2>4, <2>5 DEF IInv
<1> QED BY <1>3, <1>4, <1>5 DEF FaultWrite, Dropped

\* Stores, by user code or by the kernel.
LEMMA StoreStep ==
  ASSUME IInv, NEW p \in Proc, NEW v \in StackPage, NEW x \in Value,
         UserStore(p, v, x) \/ SysResult(p, v, x)
  PROVE  IInv'
<1>1. frame' = [frame EXCEPT ![proc[p].entry[v].index] = x] /\ UNCHANGED <<p_bit_map, free_pages, proc>>
  BY DEF UserStore, SysResult
<1>2. frame' \in [Frame -> Value]
  BY <1>1 DEF IInv
<1>3. Physical' = Physical
  BY <1>1 DEF Physical
<1> QED BY <1>1, <1>2, <1>3 DEF IInv

\* The record of a free slot.
LEMMA NoProcFacts ==
  /\ NoProc = [x \in Fields |-> NoProc[x]]
  /\ NoProc.state = "none" /\ NoProc.table = NoFrame
  /\ NoProc.entry = [v \in StackPage |-> NoEntry]
BY DEF NoProc, Fields

\* A process that is not alive has no entries.
LEMMA NotAlive ==
  ASSUME NEW pr, Tabled(pr), Spaces(pr), NEW q \in Proc, pr[q].state # "alive"
  PROVE  pr[q].table = NoFrame /\ pr[q].entry = [v \in StackPage |-> NoEntry]
<1>1. pr[q].table = NoFrame /\ \A v \in StackPage : pr[q].entry[v] = NoEntry
  BY DEF Tabled
<1>2. pr[q].entry = [v \in StackPage |-> pr[q].entry[v]]
  BY DEF Spaces
<1> QED BY <1>1, <1>2

\* waitpid frees the slot of a process that has died.
LEMMA WaitpidStep ==
  ASSUME IInv, NEW p \in Proc, NEW c \in Proc, NEW v \in StackPage, NEW x \in Value,
         sys_waitpid(p, c, v, x)
  PROVE  IInv'
<1>1. /\ proc[c].state = "died" /\ proc' = [proc EXCEPT ![c] = NoProc]
      /\ frame' = [frame EXCEPT ![proc[p].entry[v].index] = x] /\ UNCHANGED <<p_bit_map, free_pages>>
  BY DEF sys_waitpid
<1>2. Sound(proc, Physical) /\ Records(proc) /\ Tabled(proc) /\ Spaces(proc)
  BY DEF IInv, Sound
<1>3. proc[c].table = NoFrame /\ proc[c].entry = [w \in StackPage |-> NoEntry]
  BY <1>1, <1>2, NotAlive
<1>4. proc' = [q \in Proc |-> proc'[q]] /\ proc'[c] = NoProc /\ \A q \in Proc \ {c} : proc'[q] = proc[q]
  <2>1. proc = [q \in Proc |-> proc[q]]
    BY <1>2 DEF Records
  <2> QED BY <2>1, <1>1
<1>5. \A q \in Proc : proc'[q].table = proc[q].table /\ proc'[q].entry = proc[q].entry
  BY <1>3, <1>4, NoProcFacts
<1>6. Sound(proc', Physical)
  BY <1>2, <1>5, SameSpaces
<1>7. Records(proc')
  BY <1>2, <1>4, NoProcFacts DEF Records
<1>8. Tabled(proc')
  BY <1>2, <1>4, NoProcFacts DEF Tabled
<1>9. frame' \in [Frame -> Value] /\ Physical' = Physical
  BY <1>1 DEF IInv, Physical
<1> QED BY <1>6, <1>7, <1>8, <1>9 DEF IInv

\* The record of a process that has exited, and of an orphan.
LEMMA DiedFacts ==
  ASSUME NEW r, r = [x \in Fields |-> r[x]], NEW n
  PROVE  /\ Died(r) = [x \in Fields |-> Died(r)[x]]
         /\ Died(r).state = "died" /\ Died(r).table = NoFrame
         /\ Died(r).entry = [v \in StackPage |-> NoEntry]
         /\ LET s == [r EXCEPT !.ppid = n]
            IN  /\ s = [x \in Fields |-> s[x]]
                /\ s.state = r.state /\ s.table = r.table /\ s.entry = r.entry
<1>1. /\ Died(r) = [x \in Fields |-> Died(r)[x]]
      /\ Died(r).state = "died" /\ Died(r).table = NoFrame
      /\ Died(r).entry = [v \in StackPage |-> NoEntry]
  BY NoProcFacts DEF Died, Fields
<1> DEFINE s == [r EXCEPT !.ppid = n]
<1>2. PICK t : r = [x \in Fields |-> t[x]] /\ t = r
  OBVIOUS
<1>3. s = [x \in Fields |-> IF x = "ppid" THEN n ELSE t[x]]
  BY <1>2 DEF Fields
<1>4. s = [x \in Fields |-> s[x]] /\ s.state = r.state /\ s.table = r.table /\ s.entry = r.entry
  BY <1>2, <1>3 DEF Fields
<1> QED BY <1>1, <1>4

\* The processes after exit of process p.
LEMMA ExitFacts ==
  ASSUME Records(proc), NEW p \in Proc, NEW qr,
         qr = [q \in Proc |->
                CASE q = p -> Died(proc[p])
                  [] q # p /\ proc[q].ppid = p -> [proc[q] EXCEPT !.ppid = proc[p].ppid]
                  [] OTHER -> proc[q]]
  PROVE  /\ Records(qr) /\ Drops(proc, qr, p) /\ qr[p].state = "died"
         /\ \A q \in Proc \ {p} : qr[q].state = proc[q].state
<1>1. \A q \in Proc : proc[q] = [x \in Fields |-> proc[q][x]]
  BY DEF Records
<1>2. /\ qr[p] = [x \in Fields |-> qr[p][x]] /\ qr[p].state = "died"
      /\ qr[p].table = NoFrame /\ qr[p].entry = [v \in StackPage |-> NoEntry]
  <2>1. qr[p] = Died(proc[p])
    OBVIOUS
  <2> QED BY <2>1, <1>1, DiedFacts, ZenonT(40)
<1>3. ASSUME NEW q \in Proc \ {p}
      PROVE  /\ qr[q] = [x \in Fields |-> qr[q][x]] /\ qr[q].state = proc[q].state
             /\ qr[q].table = proc[q].table /\ qr[q].entry = proc[q].entry
  <2>1. CASE proc[q].ppid = p
    <3>1. qr[q] = [proc[q] EXCEPT !.ppid = proc[p].ppid]
      BY <2>1
    <3> QED BY <3>1, <1>1, DiedFacts, ZenonT(40)
  <2>2. CASE proc[q].ppid # p
    <3>1. qr[q] = proc[q]
      BY <2>2
    <3> QED BY <3>1, <1>1
  <2> QED BY <2>1, <2>2
<1>4. qr = [q \in Proc |-> qr[q]]
  OBVIOUS
<1> QED BY <1>2, <1>3, <1>4 DEF Records, Drops, Others

\* exit: free_pde and what else the process gives up.
LEMMA ExitStep ==
  ASSUME IInv, NEW p \in Proc, sys_exit(p)
  PROVE  IInv'
<1> DEFINE d == free_pde(p)
           kk == ReleaseKernel(p)
<1>1. CASE Halt(d.stop) \/ Halt(kk.halt)
  BY <1>1, HaltStep
<1>2. CASE /\ SetPhysical(d.ph) /\ UNCHANGED frame
           /\ proc' = [q \in Proc |->
                CASE q = p -> Died(proc[p])
                  [] q # p /\ proc[q].ppid = p -> [proc[q] EXCEPT !.ppid = proc[p].ppid]
                  [] OTHER -> proc[q]]
  <2>1. Sound(proc, Physical) /\ Records(proc) /\ Tabled(proc)
    BY DEF IInv
  <2>2. /\ Records(proc') /\ Drops(proc, proc', p) /\ proc'[p].state = "died"
        /\ \A q \in Proc \ {p} : proc'[q].state = proc[q].state
    BY <1>2, <2>1, ExitFacts
  <2>3. \A f : References(p, f) = Refs(proc, p, f)
    BY DEF References, Refs, Entries, EntriesIn
  <2> DEFINE u == d.ph
  <2>4. /\ u = [count |-> u.count, free |-> u.free]
        /\ u.count = [f \in Frame |-> p_bit_map[f] - References(p, f)]
        /\ u.free = free_pages + Cardinality({f \in {g \in Frame : References(p, g) > 0} : u.count[f] = 0})
    BY DEF free_pde
  <2> HIDE DEF u
  <2>5. {f \in {g \in Frame : References(p, g) > 0} : u.count[f] = 0}
           = {f \in Frame : Refs(proc, p, f) > 0 /\ u.count[f] = 0}
    BY <2>3
  <2>6. u.count = [f \in Frame |-> Physical.count[f] - Refs(proc, p, f)]
    BY <2>3, <2>4 DEF Physical
  <2>7. u.free = Physical.free + Cardinality({f \in Frame : Refs(proc, p, f) > 0 /\ u.count[f] = 0})
    BY <2>4, <2>5 DEF Physical
  <2>8. Sound(proc', u)
    BY <2>1, <2>2, <2>4, <2>6, <2>7, DropAll
  <2>9. Tabled(proc')
    BY <2>1, <2>2 DEF Tabled, Drops, Others
  <2>10. Physical' = u
    BY <1>2, <2>4 DEF SetPhysical, Physical, u
  <2> QED BY <1>2, <2>2, <2>8, <2>9, <2>10 DEF IInv
<1> QED BY <1>1, <1>2 DEF sys_exit

\* The child of fork gets a free slot.
LEMMA FreeSlot ==
  ASSUME NEW c, c = Min({q \in Proc : proc[q].state = "none"}), \E q \in Proc : proc[q].state = "none"
  PROVE  c \in Proc /\ proc[c].state = "none"
<1> DEFINE S == {q \in Proc : proc[q].state = "none"}
<1>1. S \in SUBSET Nat /\ S # {}
  BY MemoryAssumption DEF Proc
<1> HIDE DEF S
<1>2. Min(S) \in S
  BY <1>1, LeastElement DEF Min
<1> QED BY <1>2 DEF S

\* The processes after fork.
Forked(pr, p, c, own, d) == [pr EXCEPT ![p].entry = d.entry, ![c] = Created(own, p, d)]

\* What fork changes: parent and child have the same entries.
LEMMA ForkFacts ==
  ASSUME NEW pr, Records(pr), NEW p \in Proc, NEW c \in Proc \ {p}, NEW own, NEW d,
         NEW qr, qr = Forked(pr, p, c, own, d)
  PROVE  /\ Records(qr)
         /\ \A q \in Proc \ {p, c} : qr[q] = pr[q]
         /\ qr[p].state = pr[p].state /\ qr[p].table = pr[p].table /\ qr[p].entry = d.entry
         /\ qr[c].state = "alive" /\ qr[c].table = d.table /\ qr[c].entry = d.entry
<1> DEFINE es == d.entry
           new == Created(own, p, d)
           r == PutEntries(pr, p, es)
<1>1. /\ new = [x \in Fields |-> new[x]] /\ new.state = "alive"
      /\ new.table = d.table /\ new.entry = es
  BY DEF Created, Fields
<1>2. /\ Records(r) /\ r[p].entry = es /\ r[p].table = pr[p].table
      /\ \A q \in Proc \ {p} : r[q] = pr[q] /\ r[p].state = pr[p].state
  BY SetEntries
<1>3. qr = [r EXCEPT ![c] = new]
  BY DEF Forked, PutEntries
<1> HIDE DEF new, r, es
<1>4. /\ qr = [q \in Proc |-> qr[q]] /\ qr[c] = new /\ \A q \in Proc \ {c} : qr[q] = r[q]
  <2>1. r = [q \in Proc |-> r[q]]
    BY <1>2 DEF Records
  <2> QED BY <2>1, <1>3
<1>5. Records(qr)
  BY <1>1, <1>2, <1>4 DEF Records
<1> QED BY <1>1, <1>2, <1>4, <1>5 DEF es

\* copy_pde for a process without a page table: there is nothing to share.
LEMMA ForkEmpty ==
  ASSUME IInv, NEW p \in Proc, NEW c \in Proc \ {p}, proc[c].state = "none",
         proc[p].table = NoFrame, NEW d, d.table = NoFrame, d.entry = proc[p].entry,
         NEW own, NEW qr, qr = Forked(proc, p, c, own, d)
  PROVE  Sound(qr, Physical) /\ Tabled(qr)
<1>1. Sound(proc, Physical) /\ Records(proc) /\ Tabled(proc) /\ Spaces(proc)
  BY DEF IInv, Sound
<1>2. proc[c].table = NoFrame /\ proc[c].entry = [v \in StackPage |-> NoEntry]
  BY <1>1, NotAlive
<1>3. proc[p].entry = [v \in StackPage |-> NoEntry]
  <2>1. \A v \in StackPage : proc[p].entry[v] = NoEntry
    BY <1>1 DEF Tabled
  <2>2. proc[p].entry = [v \in StackPage |-> proc[p].entry[v]]
    BY <1>1 DEF Spaces
  <2> QED BY <2>1, <2>2
<1>4. /\ \A q \in Proc \ {p, c} : qr[q] = proc[q]
      /\ qr[p].state = proc[p].state /\ qr[p].table = NoFrame /\ qr[p].entry = proc[p].entry
      /\ qr[c].state = "alive" /\ qr[c].table = NoFrame /\ qr[c].entry = proc[p].entry
  BY <1>1, ForkFacts
<1>5. \A q \in Proc : qr[q].table = proc[q].table /\ qr[q].entry = proc[q].entry
  BY <1>2, <1>3, <1>4
<1>6. Sound(qr, Physical)
  BY <1>1, <1>5, SameSpaces
<1>7. Tabled(qr)
  BY <1>1, <1>2, <1>3, <1>4 DEF Tabled
<1> QED BY <1>6, <1>7

\* copy_pde for a process with a page table.
LEMMA ForkShared ==
  ASSUME IInv, NEW p \in Proc, NEW c \in Proc \ {p}, proc[c].state = "none", Alive(p),
         proc[p].table # NoFrame, NEW u, u = Lent(Physical, proc, p), OutOfFrames(u, 1) = "no",
         NEW d, d.table = get_p_page(u), d.entry = [v \in StackPage |-> ReadOnly(proc[p].entry[v])],
         NEW own, NEW qr, qr = Forked(proc, p, c, own, d)
  PROVE  Sound(qr, Taken(u)) /\ Tabled(qr)
<1>1. Sound(proc, Physical) /\ Records(proc) /\ Tabled(proc) /\ Spaces(proc)
  BY DEF IInv, Sound
<1>2. proc[c].table = NoFrame /\ proc[c].entry = [v \in StackPage |-> NoEntry]
  BY <1>1, NotAlive
<1> DEFINE es == [v \in StackPage |-> ReadOnly(proc[p].entry[v])]
           pr == [q \in Proc |-> [table |-> proc[q].table,
                                  entry |-> IF q \in {p, c} THEN es ELSE proc[q].entry]]
<1>3. Shares(proc, pr, p, c)
  BY DEF Shares
<1>4. pr[c].table = NoFrame /\ pr[c].entry = es /\ pr[p].entry = es /\ pr[p].table = proc[p].table
  BY <1>2
<1>5. \A q \in Proc \ {p, c} : pr[q].entry = proc[q].entry /\ pr[q].table = proc[q].table
  OBVIOUS
<1>6. d.entry = es
  OBVIOUS
<1> HIDE DEF pr, es
<1>7. Sound(pr, u) /\ Clear(u) = Clear(Physical)
  BY <1>1, <1>2, <1>3, Share
<1>8. Clear(u) # {}
  BY EnoughFrames
<1>9. /\ \A q \in Proc \ {p, c} : qr[q] = proc[q]
      /\ qr[p].state = proc[p].state /\ qr[p].table = proc[p].table /\ qr[p].entry = es
      /\ qr[c].state = "alive" /\ qr[c].table = get_p_page(u) /\ qr[c].entry = es
  BY <1>1, <1>6, ForkFacts
<1>10. Others(pr, qr, c) /\ qr[c].entry = pr[c].entry
  BY <1>4, <1>5, <1>9 DEF Others
<1>11. Sound(qr, Taken(u))
  BY <1>4, <1>7, <1>8, <1>9, <1>10, GiveTable
<1>12. get_p_page(u) # NoFrame
  BY <1>7, <1>8, TakeFacts, FrameFacts DEF Sound
<1>13. Tabled(qr)
  BY <1>1, <1>9, <1>12 DEF Tabled, Alive
<1> QED BY <1>11, <1>13

\* fork: copy_pde, and what else the child needs.
LEMMA ForkStep ==
  ASSUME IInv, NEW p \in Proc, sys_fork(p)
  PROVE  IInv'
<1> DEFINE made == ObtainAll(k)
           d == copy_pde(p)
           c == Min({q \in Proc : proc[q].state = "none"})
<1>1. CASE \E why : Halt(why)
  BY <1>1, HaltStep
<1>2. CASE ForkDone(p, made, d) /\ d.stop = "no" /\ \E q \in Proc : proc[q].state = "none"
  <2>1. Alive(p)
    BY DEF sys_fork
  <2>2. c \in Proc /\ proc[c].state = "none" /\ c # p
    BY <1>2, <2>1, FreeSlot DEF Alive
  <2> DEFINE own == made.own
  <2>3. /\ SetPhysical(d.ph) /\ UNCHANGED frame
        /\ proc' = Forked(proc, p, c, own, d)
    BY <1>2 DEF ForkDone, Forked
  <2> HIDE DEF own, c
  <2>4. Records(proc')
    BY <2>2, <2>3, ForkFacts DEF IInv
  <2>5. Sound(proc', d.ph) /\ Tabled(proc')
    <3>1. CASE proc[p].table = NoFrame
      <4>1. d.table = NoFrame /\ d.entry = proc[p].entry /\ d.ph = Physical
        BY <3>1 DEF copy_pde
      <4> HIDE DEF d
      <4> QED BY <3>1, <4>1, <2>2, <2>3, ForkEmpty
    <3>2. CASE proc[p].table # NoFrame
      <4> DEFINE u == Lent(Physical, proc, p)
      <4>1. [Physical EXCEPT !.count = [f \in Frame |-> @[f] + Entries(p, f)]] = u
        BY DEF Lent, Entries, EntriesIn
      <4> HIDE DEF u
      <4>2. OutOfFrames(u, 1) = "no"
        BY <1>2, <3>2, <4>1 DEF copy_pde
      <4>3. /\ d.ph = Taken(u) /\ d.table = get_p_page(u)
            /\ d.entry = [v \in StackPage |-> ReadOnly(proc[p].entry[v])]
        BY <3>2, <4>1, <4>2 DEF copy_pde
      <4> HIDE DEF d
      <4> QED BY <3>2, <4>2, <4>3, <2>1, <2>2, <2>3, ForkShared DEF u
    <3> QED BY <3>1, <3>2
  <2> HIDE DEF d
  <2>6. Physical' = d.ph
    BY <2>3, <2>5 DEF SetPhysical, Physical, Sound, IsPhysical
  <2> QED BY <2>3, <2>4, <2>5, <2>6 DEF IInv
<1> QED BY <1>1, <1>2 DEF sys_fork

-----------------------------------------------------------------------------
(* The invariant holds *)

\* memory_init, page_mode_init and the first page table: every frame above is free.
LEMMA FramesAtStart ==
  ASSUME NEW ph, ph = Taken(page_mode_init(memory_init))
  PROVE  /\ IsPhysical(ph) /\ FreeCount(ph) /\ \A f \in Usable : ph.count[f] = 0
<1> DEFINE p0 == page_mode_init(memory_init)
           n0 == [f \in Frame |-> IF f < Mapped THEN 1 ELSE 0]
<1>1. /\ Frames \in Nat /\ Mapped \in Nat /\ Reserved \in Nat
      /\ 0 < Reserved /\ Reserved <= Mapped /\ Mapped < Frames
  BY MemoryAssumption
<1>2. p0 = [count |-> n0, free |-> Frames - Reserved]
  <2> DEFINE m == [f \in Frame |-> IF f < Reserved THEN 1 ELSE 0]
  <2>1. memory_init = [count |-> m, free |-> Frames - Reserved]
    BY DEF memory_init
  <2>2. p0 = [count |-> [f \in Frame |-> IF f < Mapped THEN 1 ELSE m[f]], free |-> Frames - Reserved]
    BY <2>1 DEF page_mode_init
  <2>3. [f \in Frame |-> IF f < Mapped THEN 1 ELSE m[f]] = n0
    <3>1. \A f \in Frame : (IF f < Mapped THEN 1 ELSE m[f]) = n0[f]
      BY <1>1, FrameFacts DEF Frame
    <3> QED BY <3>1
  <2> QED BY <2>2, <2>3
<1> HIDE DEF p0
<1>3. Clear(p0) = Mapped .. Frames - 1
  BY <1>1, <1>2 DEF Clear, Frame
<1>4. get_p_page(p0) = Mapped
  <2>1. Clear(p0) \in SUBSET Nat /\ Mapped \in Clear(p0)
    BY <1>1, <1>3
  <2>2. get_p_page(p0) \in Clear(p0) /\ \A y \in Clear(p0) : get_p_page(p0) <= y
    BY <2>1, LeastElement DEF get_p_page, Min
  <2> QED BY <2>1, <2>2, <1>1, <1>3
<1>5. ph = [count |-> [n0 EXCEPT ![Mapped] = 1], free |-> Frames - Reserved - 1]
  <2>1. ph = [p0 EXCEPT !.count[Mapped] = 1, !.free = @ - 1]
    BY <1>4 DEF Taken, p0
  <2> HIDE DEF n0
  <2> QED BY <2>1, <1>2
<1>6. ph.count = [f \in Frame |-> IF f <= Mapped THEN 1 ELSE 0] /\ ph.free = Frames - Reserved - 1
  <2>1. \A f \in Frame : [n0 EXCEPT ![Mapped] = 1][f] = IF f <= Mapped THEN 1 ELSE 0
    BY <1>1 DEF Frame
  <2>2. [n0 EXCEPT ![Mapped] = 1] = [f \in Frame |-> [n0 EXCEPT ![Mapped] = 1][f]]
    OBVIOUS
  <2>3. [n0 EXCEPT ![Mapped] = 1] = [f \in Frame |-> IF f <= Mapped THEN 1 ELSE 0]
    BY <2>1, <2>2
  <2>4. ph.count = [n0 EXCEPT ![Mapped] = 1] /\ ph.free = Frames - Reserved - 1
    BY <1>5
  <2> QED BY <2>3, <2>4
<1>7. IsPhysical(ph)
  <2>1. ph = [count |-> ph.count, free |-> ph.free]
    BY <1>5
  <2>2. ph.count \in [Frame -> Nat]
    BY <1>6
  <2> QED BY <2>1, <2>2 DEF IsPhysical
<1>8. Clear(ph) = Mapped + 1 .. Frames - 1
  BY <1>1, <1>6 DEF Clear, Frame
<1>9. Cardinality(Mapped + 1 .. Frames - 1) = Frames - 1 - Mapped
  BY <1>1, FS_Interval
<1>10. FreeCount(ph)
  BY <1>1, <1>6, <1>8, <1>9 DEF FreeCount, Usable
<1>11. \A f \in Usable : ph.count[f] = 0
  BY <1>1, <1>6 DEF Usable, Frame
<1> QED BY <1>7, <1>10, <1>11

\* The first process with no page touched.
LEMMA InitHolds == Init => IInv
<1> SUFFICES ASSUME Init PROVE IInv
  OBVIOUS
<1> DEFINE ph == Taken(page_mode_init(memory_init))
<1>1. /\ p_bit_map = ph.count /\ free_pages = ph.free
      /\ frame = [f \in Frame |-> CHOOSE x \in Value : TRUE]
      /\ proc = [p \in Proc |-> IF p = 1 THEN Created(First.own, 0, NoProc) ELSE NoProc]
  BY DEF Init
<1>2. IsPhysical(ph) /\ FreeCount(ph) /\ \A f \in Usable : ph.count[f] = 0
  BY FramesAtStart
<1> HIDE DEF ph
<1>3. Physical = ph
  BY <1>1, <1>2 DEF Physical, IsPhysical
<1>4. \A q \in Proc : /\ proc[q] = [x \in Fields |-> proc[q][x]]
                      /\ proc[q].table = NoFrame
                      /\ proc[q].entry = [v \in StackPage |-> NoEntry]
  <2>1. /\ Created(First.own, 0, NoProc) = [x \in Fields |-> Created(First.own, 0, NoProc)[x]]
        /\ Created(First.own, 0, NoProc).table = NoFrame
        /\ Created(First.own, 0, NoProc).entry = [v \in StackPage |-> NoEntry]
    BY NoProcFacts DEF Created, Fields
  <2> QED BY <2>1, <1>1, NoProcFacts
<1>5. Records(proc)
  BY <1>1, <1>4 DEF Records
<1>6. Tabled(proc)
  BY <1>4 DEF Tabled
<1>7. Spaces(proc) /\ Private(proc, ph)
  <2>1. NoEntry \in Entry /\ ~NoEntry.write
    BY DEF NoEntry, Entry
  <2>2. \A q \in Proc, v \in StackPage : ~proc[q].entry[v].write
    <3>1. \A q \in Proc, v \in StackPage : proc[q].entry[v] = NoEntry
      BY <1>4
    <3> QED BY <3>1, <2>1
  <2>3. \A q \in Proc : proc[q].entry \in [StackPage -> Entry]
    BY <1>4, <2>1
  <2> QED BY <1>4, <2>2, <2>3 DEF Spaces, Private
<1>8. Counts(proc, ph)
  <2> SUFFICES ASSUME NEW f \in Usable
               PROVE  ph.count[f] = Cardinality(Use(proc, f)) + Cardinality(Tab(proc, f))
    BY DEF Counts
  <2>1. f # NoFrame
    BY FrameFacts
  <2>2. Use(proc, f) = {} /\ Tab(proc, f) = {}
    <3>1. \A q \in Proc, v \in StackPage : proc[q].entry[v].index # f
      <4>1. NoEntry.index # f
        BY <2>1 DEF NoEntry
      <4> QED BY <4>1, <1>4
    <3>2. \A q \in Proc : proc[q].table # f
      BY <2>1, <1>4
    <3> QED BY <3>1, <3>2 DEF Use, Tab
  <2>3. Cardinality({}) = 0
    BY FS_EmptySet
  <2> QED BY <2>2, <2>3, <1>2
<1>9. frame \in [Frame -> Value]
  BY <1>1, MemoryAssumption
<1> QED BY <1>2, <1>3, <1>5, <1>6, <1>7, <1>8, <1>9 DEF IInv, Sound

\* Every step keeps the invariant.
LEMMA NextHolds == IInv /\ [Next]_vars => IInv'
<1> SUFFICES ASSUME IInv, [Next]_vars PROVE IInv'
  OBVIOUS
<1>1. CASE Stopped \/ UNCHANGED vars
  BY <1>1 DEF Stopped, vars, IInv, Physical
<1>2. CASE \E p \in Proc : FaultOutside(p) \/ sys_brk(p)
  BY <1>2, HaltStep DEF FaultOutside, sys_brk
<1>3. ASSUME NEW p \in Proc, sys_fork(p) \/ sys_exit(p) PROVE IInv'
  BY <1>3, ForkStep, ExitStep
<1>4. ASSUME NEW p \in Proc, NEW v \in StackPage, FaultAbsent(p, v) \/ FaultWrite(p, v) PROVE IInv'
  BY <1>4, FaultAbsentStep, FaultWriteStep
<1>5. ASSUME NEW p \in Proc, NEW v \in StackPage, NEW x \in Value, UserStore(p, v, x) \/ SysResult(p, v, x)
      PROVE  IInv'
  BY <1>5, StoreStep
<1>6. ASSUME NEW p \in Proc, NEW c \in Proc, NEW v \in StackPage, NEW x \in Value, sys_waitpid(p, c, v, x)
      PROVE  IInv'
  BY <1>6, WaitpidStep
<1> QED BY <1>1, <1>2, <1>3, <1>4, <1>5, <1>6 DEF Next

\* The invariant holds in every state: the frames and page tables of memory.c fit
\* together, whatever the processes do and wherever the kernel stops.
THEOREM FramesSafe == Spec => []IInv
<1>1. Init => IInv
  BY InitHolds
<1>2. IInv /\ [Next]_vars => IInv'
  BY NextHolds
<1> QED BY <1>1, <1>2, PTL DEF Spec

\* The invariant counts what RefCounts does.
LEMMA CountsMeanRefCounts == IInv => RefCounts
<1> SUFFICES ASSUME IInv PROVE RefCounts
  OBVIOUS
<1>1. \A f \in Usable : p_bit_map[f] = Cardinality(Use(proc, f)) + Cardinality(Tab(proc, f))
  BY DEF IInv, Sound, Counts, Physical
<1>2. \A f : Sharers(f) = Cardinality(Use(proc, f)) /\ Tables(f) = Cardinality(Tab(proc, f))
  BY DEF Sharers, Tables, Use, Tab
<1>3. free_pages = Cardinality(Clear(Physical)) + (Mapped - Reserved)
  BY DEF IInv, Sound, FreeCount, Physical
<1> QED BY <1>1, <1>2, <1>3 DEF RefCounts, Usable

\* p_bit_map holds for every frame exactly the entries and page tables that use it:
\* no order of fork, faults and exit frees a frame in use or loses one (memory.c).
THEOREM EveryReferenceCounted == Spec => []RefCounts
BY FramesSafe, CountsMeanRefCounts, PTL

\* page_fault may give the last user of a frame its write bit back: a page that can
\* be written is referenced once.
THEOREM WritersAreAlone == Spec => []WritableIsPrivate
<1>1. IInv => WritableIsPrivate
  BY DEF IInv, Sound, Private, WritableIsPrivate, Physical
<1> QED BY <1>1, FramesSafe, PTL

-----------------------------------------------------------------------------
(* Paging implements AddressSpace.  Without SharedStores the kernel stores *)
(* only where the process may write.                                       *)

\* What process q finds in its page w, for the processes pr and the frames fr.
At(pr, fr, q, w) ==
  IF pr[q].state = "alive" /\ pr[q].entry[w].index # NoFrame
  THEN fr[pr[q].entry[w].index] ELSE "untouched"
Mem(pr, fr) == [q \in Proc |-> [w \in StackPage |-> At(pr, fr, q, w)]]
Living(pr) == {q \in Proc : pr[q].state = "alive"}

\* The frames after a store.
Stored(fr, g, x) == [fr EXCEPT ![g] = x]

\* A frame that nobody else uses gets new contents.
LEMMA SeenStore ==
  ASSUME NEW pr, Spaces(pr), NEW fr \in [Frame -> Value], NEW g \in Frame, NEW x,
         NEW p \in Proc, NEW v \in StackPage, pr[p].state = "alive",
         NEW qr, \A q \in Proc : qr[q].state = "alive" <=> pr[q].state = "alive",
         qr[p].entry[v].index = g,
         \A q \in Proc, w \in StackPage :
           <<q, w>> # <<p, v>> => /\ qr[q].entry[w].index = pr[q].entry[w].index
                                  /\ pr[q].entry[w].index # g
  PROVE  /\ Mem(qr, Stored(fr, g, x)) = [Mem(pr, fr) EXCEPT ![p][v] = x]
         /\ Living(qr) = Living(pr)
<1> DEFINE f2 == Stored(fr, g, x)
           M == Mem(pr, fr)
<1>0. f2[g] = x /\ \A i \in Frame \ {g} : f2[i] = fr[i]
  BY DEF Stored
<1> HIDE DEF f2
<1>1. \A q \in Proc, w \in StackPage :
        At(qr, f2, q, w) = IF <<q, w>> = <<p, v>> THEN x ELSE At(pr, fr, q, w)
  <2> SUFFICES ASSUME NEW q \in Proc, NEW w \in StackPage
               PROVE  At(qr, f2, q, w) = IF <<q, w>> = <<p, v>> THEN x ELSE At(pr, fr, q, w)
    OBVIOUS
  <2>1. CASE <<q, w>> = <<p, v>>
    BY <2>1, <1>0, FrameFacts DEF At
  <2>2. CASE <<q, w>> # <<p, v>>
    <3>1. qr[q].entry[w].index = pr[q].entry[w].index /\ pr[q].entry[w].index # g
      BY <2>2
    <3>2. pr[q].entry[w].index # NoFrame => pr[q].entry[w].index \in Frame
      <4>1. pr[q].entry \in [StackPage -> Entry]
        BY DEF Spaces
      <4>2. pr[q].entry[w].index \in Usable \cup {NoFrame}
        BY <4>1 DEF Entry
      <4> QED BY <4>2, FrameFacts
    <3>3. pr[q].entry[w].index # NoFrame => f2[pr[q].entry[w].index] = fr[pr[q].entry[w].index]
      <4> DEFINE i == pr[q].entry[w].index
      <4>1. i # g /\ (i # NoFrame => i \in Frame)
        BY <3>1, <3>2
      <4> HIDE DEF i
      <4>2. i # NoFrame => f2[i] = fr[i]
        BY <4>1, <1>0
      <4> QED BY <4>2 DEF i
    <3> QED BY <2>2, <3>1, <3>3 DEF At
  <2> QED BY <2>1, <2>2
<1>2. M = [q \in Proc |-> [w \in StackPage |-> At(pr, fr, q, w)]]
  BY DEF Mem
<1> HIDE DEF M
<1>3. Mem(qr, f2) = [M EXCEPT ![p][v] = x]
  <2>1. Mem(qr, f2) = [q \in Proc |-> [w \in StackPage |-> At(qr, f2, q, w)]]
    BY DEF Mem
  <2>2. [M EXCEPT ![p][v] = x] = [q \in Proc |-> IF q = p THEN [M[p] EXCEPT ![v] = x] ELSE M[q]]
    BY <1>2
  <2>3. ASSUME NEW q \in Proc
        PROVE  [w \in StackPage |-> At(qr, f2, q, w)] = IF q = p THEN [M[p] EXCEPT ![v] = x] ELSE M[q]
    <3>1. CASE q = p
      <4>1. [w \in StackPage |-> At(qr, f2, p, w)] = [M[p] EXCEPT ![v] = x]
        BY <1>1, <1>2
      <4> QED BY <3>1, <4>1
    <3>2. CASE q # p
      <4>1. \A w \in StackPage : At(qr, f2, q, w) = At(pr, fr, q, w)
        BY <3>2, <1>1
      <4>2. [w \in StackPage |-> At(qr, f2, q, w)] = [w \in StackPage |-> At(pr, fr, q, w)]
        BY <4>1
      <4> QED BY <3>2, <4>2, <1>2
    <3> QED BY <3>1, <3>2
  <2> QED BY <2>1, <2>2, <2>3, SMTT(30)
<1>4. Living(qr) = Living(pr)
  BY DEF Living
<1> QED BY <1>3, <1>4 DEF M, f2

\* Steps of the program that are steps of AddressSpace.
LEMMA StoreMaps ==
  ASSUME NEW p \in Proc, NEW v \in StackPage, NEW x \in Value, Alive(p),
         Mem(proc', frame') = [Mem(proc, frame) EXCEPT ![p][v] = x], Living(proc') = Living(proc)
  PROVE  Space!Next
<1>1. p \in {q \in Proc : Alive(q)}
  BY SMTT(30)
<1>2. Space!Store(p, v)
  BY DEF Space!Store, Mem, At, Living, Alive, Present
<1> QED BY <1>1, <1>2 DEF Space!Next

\* A fork of the address spaces.
LEMMA ForkMaps ==
  ASSUME NEW p \in Proc, NEW c \in Proc, Alive(p), ~Alive(c),
         Mem(proc', frame') = [Mem(proc, frame) EXCEPT ![c] = Mem(proc, frame)[p]],
         Living(proc') = Living(proc) \cup {c}
  PROVE  Space!Next
<1>1. p \in {q \in Proc : Alive(q)} /\ c \in Proc \ {q \in Proc : Alive(q)}
  BY SMTT(30)
<1>2. Space!Fork(p, c)
  BY DEF Space!Fork, Mem, At, Living, Alive, Present
<1> QED BY <1>1, <1>2 DEF Space!Next

\* An exit of the address spaces.
LEMMA ExitMaps ==
  ASSUME NEW p \in Proc, Alive(p),
         Mem(proc', frame') = [Mem(proc, frame) EXCEPT ![p] = [w \in StackPage |-> "untouched"]],
         Living(proc') = Living(proc) \ {p}
  PROVE  Space!Next
<1>1. p \in {q \in Proc : Alive(q)}
  OBVIOUS
<1>2. Space!Exit(p)
  BY DEF Space!Exit, Space!Empty, Mem, At, Living, Alive, Present
<1> QED BY <1>1, <1>2 DEF Space!Next

\* What AddressSpace does not see.
Hidden == Mem(proc', frame') = Mem(proc, frame) /\ Living(proc') = Living(proc)

\* A frame that may be written is not used by anyone else: fault, store and result
\* of a system call change one page of one process.
LEMMA WriteMaps ==
  ASSUME IInv, NEW p \in Proc, NEW v \in StackPage, NEW x \in Value, Alive(p), Present(p, v),
         proc[p].entry[v].write, frame' = [frame EXCEPT ![proc[p].entry[v].index] = x],
         \A q \in Proc : proc'[q].state = "alive" <=> proc[q].state = "alive",
         \A q \in Proc : proc'[q].entry = proc[q].entry
  PROVE  Space!Next
<1> DEFINE g == proc[p].entry[v].index
<1>1. Sound(proc, Physical) /\ Spaces(proc) /\ frame \in [Frame -> Value]
  BY DEF IInv, Sound
<1>2. g \in Usable /\ g \in Frame
  BY <1>1, FrameFacts DEF Present, Spaces, Entry
<1>3. Physical.count[g] = 1
  BY <1>1 DEF Sound, Private
<1>4. Use(proc, g) = {<<p, v>>}
  BY <1>1, <1>2, <1>3, SoleUse
<1> HIDE DEF g
<1>5. \A q \in Proc, w \in StackPage :
        <<q, w>> # <<p, v>> => /\ proc'[q].entry[w].index = proc[q].entry[w].index
                               /\ proc[q].entry[w].index # g
  <2> SUFFICES ASSUME NEW q \in Proc, NEW w \in StackPage, <<q, w>> # <<p, v>>
               PROVE  proc[q].entry[w].index # g
    OBVIOUS
  <2>1. <<q, w>> \notin Use(proc, g)
    BY <1>4
  <2> QED BY <2>1, UseFacts
<1>6. proc[p].state = "alive" /\ proc'[p].entry[v].index = g
  BY DEF Alive, g
<1>7. Mem(proc', Stored(frame, g, x)) = [Mem(proc, frame) EXCEPT ![p][v] = x] /\ Living(proc') = Living(proc)
  BY <1>1, <1>2, <1>5, <1>6, SeenStore
<1>8. frame' = Stored(frame, g, x)
  BY DEF g, Stored
<1> QED BY <1>7, <1>8, StoreMaps

\* A frame that was clear is used by nobody: the first access to a page, and the
\* copy of a shared page, change one page of one process.
LEMMA NewFrameMaps ==
  ASSUME IInv, NEW p \in Proc, NEW v \in StackPage, NEW x \in Value, Alive(p),
         NEW g \in Clear(Physical), frame' = [frame EXCEPT ![g] = x],
         \A q \in Proc : proc'[q].state = proc[q].state,
         proc'[p].entry[v].index = g,
         \A q \in Proc, w \in StackPage :
           <<q, w>> # <<p, v>> => proc'[q].entry[w] = proc[q].entry[w]
  PROVE  Space!Next
<1>1. Sound(proc, Physical) /\ Spaces(proc) /\ frame \in [Frame -> Value]
  BY DEF IInv, Sound
<1>2. Use(proc, g) = {} /\ g \in Frame
  BY <1>1, ClearUnused
<1>3. \A q \in Proc, w \in StackPage :
        <<q, w>> # <<p, v>> => /\ proc'[q].entry[w].index = proc[q].entry[w].index
                               /\ proc[q].entry[w].index # g
  BY <1>2, UseFacts, ZenonT(40)
<1>4. proc[p].state = "alive" /\ \A q \in Proc : proc'[q].state = "alive" <=> proc[q].state = "alive"
  BY DEF Alive
<1>5. Mem(proc', Stored(frame, g, x)) = [Mem(proc, frame) EXCEPT ![p][v] = x] /\ Living(proc') = Living(proc)
  BY <1>1, <1>2, <1>3, <1>4, SeenStore, SMTT(30)
<1>6. frame' = Stored(frame, g, x)
  BY DEF Stored
<1> QED BY <1>5, <1>6, StoreMaps

\* The first touch of a page is a step of the address spaces, or nothing they see.
LEMMA FaultAbsentMaps ==
  ASSUME IInv, NEW p \in Proc, NEW v \in StackPage, FaultAbsent(p, v)
  PROVE  Space!Next \/ UNCHANGED <<frame, proc>>
<1> DEFINE l == link_page(p, v)
<1>1. Alive(p) /\ ~Present(p, v)
  BY DEF FaultAbsent
<1>2. CASE Halt(l.stop)
  BY <1>2, HaltStep
<1>3. CASE /\ l.stop = "no" /\ SetPhysical(l.ph) /\ proc' = l.proc
           /\ \E x \in Value : frame' = [frame EXCEPT ![l.index] = x]
  <2> HIDE DEF l
  <2>1. /\ l.index \in Clear(Physical) /\ l.index \in Frame
        /\ \A q \in Proc : proc'[q].state = proc[q].state
        /\ \A q \in Proc, w \in StackPage :
             proc'[q].entry[w] = IF <<q, w>> = <<p, v>> THEN entry_init(l.index)
                                 ELSE proc[q].entry[w]
    BY <1>1, <1>3, LinkPage DEF l
  <2>2. PICK x \in Value : frame' = [frame EXCEPT ![l.index] = x]
    BY <1>3
  <2>3. /\ proc'[p].entry[v].index = l.index
        /\ \A q \in Proc, w \in StackPage :
             <<q, w>> # <<p, v>> => proc'[q].entry[w] = proc[q].entry[w]
    BY <2>1 DEF entry_init
  <2>4. Space!Next
    BY <1>1, <2>1, <2>2, <2>3, NewFrameMaps
  <2> QED BY <2>4
<1> QED BY <1>2, <1>3 DEF FaultAbsent

\* A fault on a shared page, with its copy, is nothing the address spaces see.
LEMMA FaultWriteMaps ==
  ASSUME IInv, NEW p \in Proc, NEW v \in StackPage, FaultWrite(p, v)
  PROVE  Space!Next \/ Hidden
<1> DEFINE f == proc[p].entry[v].index
           ph == Dropped(Physical, f)
           g == get_p_page(ph)
<1>1. Alive(p) /\ Present(p, v) /\ ~proc[p].entry[v].write
  BY DEF FaultWrite
<1>2. Records(proc) /\ Spaces(proc) /\ proc[p].entry \in [StackPage -> Entry] /\ frame \in [Frame -> Value]
  BY DEF IInv, Sound, Spaces
<1>3. CASE /\ LastReference(f) /\ UNCHANGED <<p_bit_map, free_pages, frame, k>>
           /\ proc' = [proc EXCEPT ![p].entry[v].write = TRUE]
  <2>1. [proc[p].entry[v] EXCEPT !.write = TRUE] = entry_init(f)
    <3>1. proc[p].entry[v] \in Entry
      BY <1>2
    <3> QED BY <3>1, Written
  <2>2. proc' = PutEntry(proc, p, v, entry_init(f))
    BY <1>3, <2>1 DEF PutEntry
  <2>3. entry_init(f).index = f
    BY DEF entry_init
  <2>4. proc[p].entry[v].index = f
    OBVIOUS
  <2> HIDE DEF f
  <2>5. /\ NewEntry(proc, proc', p, v, entry_init(f))
        /\ \A q \in Proc : proc'[q].state = proc[q].state
    BY <1>2, <2>2, SetEntry
  <2>6. \A q \in Proc, w \in StackPage : proc'[q].entry[w].index = proc[q].entry[w].index
    BY <1>2, <2>3, <2>4, <2>5 DEF NewEntry, Others
  <2>7. frame' = frame
    BY <1>3
  <2>8. Mem(proc', frame') = Mem(proc, frame)
    BY <2>5, <2>6, <2>7 DEF Mem, At
  <2>9. Living(proc') = Living(proc)
    BY <2>5 DEF Living
  <2> QED BY <2>8, <2>9 DEF Hidden
<1>4. CASE Halt(OutOfFrames(ph, 1))
  BY <1>4, HaltStep DEF Hidden
<1>5. CASE /\ ~LastReference(f) /\ OutOfFrames(ph, 1) = "no" /\ SetPhysical(Taken(ph))
           /\ frame' = copy_phy_page(g, f) /\ proc' = [proc EXCEPT ![p].entry[v] = entry_init(g)]
  <2>0. f = proc[p].entry[v].index /\ ph = Dropped(Physical, f) /\ g = get_p_page(ph)
    OBVIOUS
  <2>1. proc' = PutEntry(proc, p, v, entry_init(g))
    BY <1>5 DEF PutEntry
  <2>2. frame' = [frame EXCEPT ![g] = frame[f]]
    BY <1>5 DEF copy_phy_page
  <2> HIDE DEF ph, f, g
  <2>3. /\ NewEntry(proc, proc', p, v, entry_init(g)) /\ \A q \in Proc : proc'[q].state = proc[q].state
        /\ f \in Frame /\ g \in Clear(Physical)
    <3>1. ~LastReference(f) /\ OutOfFrames(ph, 1) = "no"
      BY <1>5
    <3> QED BY <1>1, <2>0, <2>1, <3>1, CopyPage
  <2>4. frame[f] \in Value
    BY <1>2, <2>3
  <2>5. /\ proc'[p].entry[v].index = g
        /\ \A q \in Proc, w \in StackPage :
             <<q, w>> # <<p, v>> => proc'[q].entry[w] = proc[q].entry[w]
    <3>1. entry_init(g).index = g
      BY DEF entry_init
    <3> QED BY <1>2, <2>3, <3>1 DEF NewEntry, Others
  <2>6. Space!Next
    BY <1>1, <2>2, <2>3, <2>4, <2>5, NewFrameMaps
  <2> QED BY <2>6
<1> QED BY <1>3, <1>4, <1>5 DEF FaultWrite, Dropped

\* Stores of the user, results of system calls and the status of waitpid go to
\* pages with their write bit set.
LEMMA StoreStepMaps ==
  ASSUME IInv, SharedStores = FALSE, NEW p \in Proc, NEW v \in StackPage, NEW x \in Value,
         UserStore(p, v, x) \/ SysResult(p, v, x)
  PROVE  Space!Next
<1>1. /\ Alive(p) /\ Present(p, v) /\ proc[p].entry[v].write
      /\ frame' = [frame EXCEPT ![proc[p].entry[v].index] = x] /\ proc' = proc
  BY DEF UserStore, SysResult, KernelStore
<1> QED BY <1>1, WriteMaps

\* sys_waitpid stores the status in the parent and nowhere else.
LEMMA WaitpidMaps ==
  ASSUME IInv, SharedStores = FALSE, NEW p \in Proc, NEW c \in Proc, NEW v \in StackPage,
         NEW x \in Value, sys_waitpid(p, c, v, x)
  PROVE  Space!Next
<1>1. /\ Alive(p) /\ Present(p, v) /\ proc[p].entry[v].write /\ proc[c].state = "died"
      /\ frame' = [frame EXCEPT ![proc[p].entry[v].index] = x]
      /\ proc' = [proc EXCEPT ![c] = NoProc]
  BY DEF sys_waitpid, KernelStore
<1>2. Records(proc) /\ Tabled(proc) /\ Spaces(proc)
  BY DEF IInv, Sound
<1>3. proc[c].entry = [w \in StackPage |-> NoEntry]
  BY <1>1, <1>2, NotAlive
<1>4. proc'[c] = NoProc /\ \A q \in Proc \ {c} : proc'[q] = proc[q]
  <2>1. proc = [q \in Proc |-> proc[q]]
    BY <1>2 DEF Records
  <2> QED BY <2>1, <1>1
<1>5. \A q \in Proc : proc'[q].state = "alive" <=> proc[q].state = "alive"
  BY <1>1, <1>4, NoProcFacts
<1>6. \A q \in Proc : proc'[q].entry = proc[q].entry
  BY <1>3, <1>4, NoProcFacts
<1> QED BY <1>1, <1>5, <1>6, WriteMaps

\* exit takes away the memory of one process.
LEMMA ExitStepMaps ==
  ASSUME IInv, NEW p \in Proc, sys_exit(p)
  PROVE  Space!Next \/ UNCHANGED <<frame, proc>>
<1>1. CASE \E why : Halt(why)
  BY <1>1, HaltStep
<1>2. CASE /\ UNCHANGED frame
           /\ proc' = [q \in Proc |->
                CASE q = p -> Died(proc[p])
                  [] q # p /\ proc[q].ppid = p -> [proc[q] EXCEPT !.ppid = proc[p].ppid]
                  [] OTHER -> proc[q]]
  <2>1. Records(proc) /\ Alive(p)
    BY DEF IInv, sys_exit
  <2>2. /\ Drops(proc, proc', p) /\ proc'[p].state = "died"
        /\ \A q \in Proc \ {p} : proc'[q].state = proc[q].state
    BY <1>2, <2>1, ExitFacts
  <2>3. Living(proc') = Living(proc) \ {p}
    BY <2>2 DEF Living
  <2>4. \A w \in StackPage : At(proc', frame', p, w) = "untouched"
    BY <2>2 DEF At
  <2>5. \A q \in Proc \ {p}, w \in StackPage : At(proc', frame', q, w) = At(proc, frame, q, w)
    BY <1>2, <2>2 DEF At, Drops, Others
  <2>6. Mem(proc', frame') = [Mem(proc, frame) EXCEPT ![p] = [w \in StackPage |-> "untouched"]]
    <3> DEFINE none == [w \in StackPage |-> "untouched"]
    <3>1. [w \in StackPage |-> At(proc', frame', p, w)] = none
      BY <2>4
    <3>2. \A q \in Proc \ {p} : [w \in StackPage |-> At(proc', frame', q, w)]
                                  = [w \in StackPage |-> At(proc, frame, q, w)]
      BY <2>5
    <3> HIDE DEF none
    <3> QED BY <3>1, <3>2 DEF Mem, none
  <2>7. Space!Next
    BY <2>1, <2>3, <2>6, ExitMaps
  <2> QED BY <2>7
<1> QED BY <1>1, <1>2 DEF sys_exit

\* fork gives the child what the parent has.
LEMMA ForkStepMaps ==
  ASSUME IInv, NEW p \in Proc, sys_fork(p)
  PROVE  Space!Next \/ UNCHANGED <<frame, proc>>
<1> DEFINE made == ObtainAll(k)
           d == copy_pde(p)
           c == Min({q \in Proc : proc[q].state = "none"})
<1>1. CASE \E why : Halt(why)
  BY <1>1, HaltStep
<1>2. CASE ForkDone(p, made, d) /\ d.stop = "no" /\ \E q \in Proc : proc[q].state = "none"
  <2>1. Alive(p) /\ Records(proc) /\ proc[p].entry \in [StackPage -> Entry]
    BY DEF sys_fork, IInv, Sound, Spaces
  <2>2. c \in Proc /\ proc[c].state = "none" /\ c # p
    BY <1>2, <2>1, FreeSlot DEF Alive
  <2> DEFINE own == made.own
  <2>3. UNCHANGED frame /\ proc' = Forked(proc, p, c, own, d)
    BY <1>2 DEF ForkDone, Forked
  <2> HIDE DEF own, c
  <2>4. \A v \in StackPage : d.entry[v].index = proc[p].entry[v].index
    <3>1. CASE proc[p].table = NoFrame
      BY <3>1 DEF copy_pde
    <3>2. CASE proc[p].table # NoFrame
      <4>1. d.entry = [v \in StackPage |-> ReadOnly(proc[p].entry[v])]
        BY <1>2, <3>2 DEF copy_pde
      <4>2. \A v \in StackPage : ReadOnly(proc[p].entry[v]).index = proc[p].entry[v].index
        BY <2>1 DEF ReadOnly, Entry
      <4> HIDE DEF d
      <4> QED BY <4>1, <4>2
    <3> QED BY <3>1, <3>2
  <2> HIDE DEF d
  <2>5. /\ \A q \in Proc \ {p, c} : proc'[q] = proc[q]
        /\ proc'[p].state = proc[p].state /\ proc'[p].entry = d.entry
        /\ proc'[c].state = "alive" /\ proc'[c].entry = d.entry
    BY <2>1, <2>2, <2>3, ForkFacts
  <2>6. Living(proc') = Living(proc) \cup {c}
    BY <2>2, <2>5 DEF Living
  <2>7. \A w \in StackPage : At(proc', frame', c, w) = At(proc, frame, p, w)
    BY <2>1, <2>3, <2>4, <2>5 DEF At, Alive
  <2>8. \A q \in Proc \ {c}, w \in StackPage : At(proc', frame', q, w) = At(proc, frame, q, w)
    BY <2>3, <2>4, <2>5 DEF At
  <2>9. Mem(proc', frame') = [Mem(proc, frame) EXCEPT ![c] = Mem(proc, frame)[p]]
    <3> DEFINE given == [w \in StackPage |-> At(proc, frame, p, w)]
    <3>1. [w \in StackPage |-> At(proc', frame', c, w)] = given
      BY <2>7
    <3>2. \A q \in Proc \ {c} : [w \in StackPage |-> At(proc', frame', q, w)]
                                  = [w \in StackPage |-> At(proc, frame, q, w)]
      BY <2>8
    <3>3. Mem(proc, frame)[p] = given
      BY DEF Mem
    <3> HIDE DEF given
    <3> QED BY <3>1, <3>2, <3>3 DEF Mem
  <2>10. Space!Next
    BY <2>1, <2>2, <2>6, <2>9, ForkMaps DEF Alive
  <2> QED BY <2>10
<1> QED BY <1>1, <1>2 DEF sys_fork

\* Every step is one of the address spaces, or hidden.
LEMMA SpaceStep ==
  ASSUME SharedStores = FALSE, IInv, [Next]_vars
  PROVE  Space!Next \/ Hidden
<1>0. UNCHANGED <<frame, proc>> => Hidden
  BY DEF Hidden
<1>1. CASE Stopped \/ UNCHANGED vars
  BY <1>0, <1>1 DEF Stopped, vars
<1>2. CASE \E p \in Proc : FaultOutside(p) \/ sys_brk(p)
  BY <1>0, <1>2, HaltStep DEF FaultOutside, sys_brk
<1>3. ASSUME NEW p \in Proc, sys_fork(p) \/ sys_exit(p) PROVE Space!Next \/ Hidden
  BY <1>0, <1>3, ForkStepMaps, ExitStepMaps
<1>4. ASSUME NEW p \in Proc, NEW v \in StackPage, FaultAbsent(p, v) \/ FaultWrite(p, v)
      PROVE  Space!Next \/ Hidden
  BY <1>0, <1>4, FaultAbsentMaps, FaultWriteMaps
<1>5. ASSUME NEW p \in Proc, NEW v \in StackPage, NEW x \in Value, UserStore(p, v, x) \/ SysResult(p, v, x)
      PROVE  Space!Next
  BY <1>5, StoreStepMaps
<1>6. ASSUME NEW p \in Proc, NEW c \in Proc, NEW v \in StackPage, NEW x \in Value, sys_waitpid(p, c, v, x)
      PROVE  Space!Next
  BY <1>6, WaitpidMaps
<1> QED BY <1>1, <1>2, <1>3, <1>4, <1>5, <1>6 DEF Next

\* The initial states agree.
LEMMA SpaceInit ==
  ASSUME Init
  PROVE  Space!Init
<1> DEFINE own == First.own
<1>1. proc = [p \in Proc |-> IF p = 1 THEN Created(own, 0, NoProc) ELSE NoProc]
  BY DEF Init
<1> HIDE DEF own
<1>2. Created(own, 0, NoProc).state = "alive" /\ Created(own, 0, NoProc).entry = NoProc.entry
  BY DEF Created
<1>3. 1 \in Proc
  BY MemoryAssumption DEF Proc
<1>4. Living(proc) = {1}
  BY <1>1, <1>2, <1>3, NoProcFacts DEF Living
<1>5. \A q \in Proc, v \in StackPage : proc[q].entry[v].index = NoFrame
  <2>1. \A q \in Proc : proc[q].entry = [v \in StackPage |-> NoEntry]
    BY <1>1, <1>2, NoProcFacts
  <2>2. NoEntry.index = NoFrame
    BY DEF NoEntry
  <2> QED BY <2>1, <2>2
<1>6. Mem(proc, frame) = [q \in Proc |-> [v \in StackPage |-> "untouched"]]
  BY <1>5 DEF Mem, At
<1>7. {q \in Proc : Alive(q)} = {1}
  BY <1>4 DEF Living, Alive
<1>8. [q \in Proc |-> [v \in StackPage |->
        IF Alive(q) /\ Present(q, v) THEN frame[proc[q].entry[v].index] ELSE "untouched"]]
      = [q \in Proc |-> [v \in StackPage |-> "untouched"]]
  BY <1>6 DEF Mem, At, Alive, Present
<1> QED BY <1>3, <1>7, <1>8 DEF Space!Init, Space!Empty

\* Paging keeps processes apart: with copy on write every process finds in its pages
\* what it would find in memory of its own, over all interleavings of stores, page
\* faults, fork, exit and waitpid (page_fault, copy_pde, free_pde).
THEOREM ProcessesKeptApart == SharedStores = FALSE => (Spec => ImplementsAddressSpace)
<1> SUFFICES ASSUME SharedStores = FALSE PROVE Spec => Space!Spec
  BY DEF ImplementsAddressSpace
<1>1. Init => Space!Init
  BY SpaceInit
<1>2. IInv /\ [Next]_vars =>
        [Space!Next]_<<{p \in Proc : Alive(p)},
                       [p \in Proc |-> [v \in StackPage |->
                         IF Alive(p) /\ Present(p, v) THEN frame[proc[p].entry[v].index] ELSE "untouched"]]>>
  <2>1. Hidden => UNCHANGED <<{p \in Proc : Alive(p)},
                       [p \in Proc |-> [v \in StackPage |->
                         IF Alive(p) /\ Present(p, v) THEN frame[proc[p].entry[v].index] ELSE "untouched"]]>>
    BY DEF Hidden, Mem, At, Living, Alive, Present
  <2> QED BY <2>1, SpaceStep
<1> QED BY <1>1, <1>2, FramesSafe, PTL DEF Spec, Space!Spec

-----------------------------------------------------------------------------
(* The heap.  kk is the kernel's pages and heap, P the pages in use that   *)
(* are neither pages of buckets nor of descriptors, B[c] the blocks of     *)
(* class c in use.                                                         *)

BitmapT == [bits : SUBSET KPage, length : {KPages}, offset : {1}]
HeapT ==
  [v_bit_map : BitmapT, dir : [Class -> Seq(Desc)], page : [Desc -> Nat],
   freeptr : [Desc -> Seq(Nat)], refcnt : [Desc -> Int], free_desc : Seq(Desc),
   ret : Nat \X Nat, halt : {"no"}]

Chained(kk, d) == \E c \in Class : Has(kk.dir[c], d)
Known(kk, d) == Chained(kk, d) \/ Has(kk.free_desc, d)
BucketPage(kk, g) == \E d \in Desc : Chained(kk, d) /\ kk.page[d] = g
DescPage(kk, g) == \E d \in Desc : Known(kk, d) /\ d[1] = g

\* Every descriptor is once in one list.
Lists(kk) ==
  /\ \A c \in Class : Once(kk.dir[c])
  /\ Once(kk.free_desc)
  /\ \A c \in Class, d \in Desc : Has(kk.dir[c], d) => ~Has(kk.free_desc, d)
  /\ \A c, e \in Class, d \in Desc : Has(kk.dir[c], d) /\ Has(kk.dir[e], d) => c = e

\* Every page in use has one use.
PageUse(kk, P) ==
  /\ P \subseteq KPage
  /\ \A g \in KPage : g \in kk.v_bit_map.bits <=> g \in P \/ BucketPage(kk, g) \/ DescPage(kk, g)
  /\ \A g \in P : ~BucketPage(kk, g) /\ ~DescPage(kk, g)
  /\ \A d \in Desc : Chained(kk, d) => kk.page[d] \in KPage /\ ~DescPage(kk, kk.page[d])
  /\ \A d, e \in Desc : Chained(kk, d) /\ Chained(kk, e) /\ kk.page[d] = kk.page[e] => d = e

\* The blocks of X in the page of descriptor d.
InPage(kk, X, d) == {b \in X : b[1] = kk.page[d]}

\* A bucket of n blocks knows which of them are in use.
Bucket(kk, n, X, d) ==
  /\ kk.refcnt[d] = Cardinality(InPage(kk, X, d))
  /\ kk.refcnt[d] + Len(kk.freeptr[d]) = n
  /\ Once(kk.freeptr[d])
  /\ \A b \in InPage(kk, X, d) : ~Has(kk.freeptr[d], b[2])

\* The blocks of class c in use, X, are in buckets of that class.
Kept(kk, c, X) ==
  /\ IsFiniteSet(X) /\ X \subseteq KPage \X Nat
  /\ \A b \in X : \E d \in Desc : Has(kk.dir[c], d) /\ kk.page[d] = b[1]
  /\ \A d \in Desc : Has(kk.dir[c], d) => Bucket(kk, PerPage[c], X, d)

Good(kk, P, B) ==
  /\ kk \in HeapT /\ Lists(kk) /\ PageUse(kk, P)
  /\ \A c \in Class : Kept(kk, c, B[c])

\* Lists, descriptors and blocks are the same.
SameHeap(kk, r) ==
  /\ r.dir = kk.dir /\ r.page = kk.page /\ r.freeptr = kk.freeptr /\ r.refcnt = kk.refcnt
  /\ r.free_desc = kk.free_desc

\* The parts of Good where lists, descriptors and blocks are the same.
LEMMA SameHeapFacts ==
  ASSUME NEW kk, NEW r, SameHeap(kk, r)
  PROVE  /\ \A d : Chained(r, d) <=> Chained(kk, d)
         /\ \A d : Known(r, d) <=> Known(kk, d)
         /\ \A g : BucketPage(r, g) <=> BucketPage(kk, g)
         /\ \A g : DescPage(r, g) <=> DescPage(kk, g)
         /\ Lists(kk) => Lists(r)
         /\ \A c, X : Kept(kk, c, X) => Kept(r, c, X)
<1>1. \A d : (Chained(r, d) <=> Chained(kk, d)) /\ (Known(r, d) <=> Known(kk, d))
  BY DEF SameHeap, Chained, Known
<1>2. \A g : (BucketPage(r, g) <=> BucketPage(kk, g)) /\ (DescPage(r, g) <=> DescPage(kk, g))
  BY <1>1 DEF SameHeap, BucketPage, DescPage
<1>3. Lists(kk) => Lists(r)
  BY DEF SameHeap, Lists
<1>4. \A X, d : InPage(kk, X, d) = InPage(r, X, d)
  BY DEF SameHeap, InPage
<1>5. \A n, X, d : Bucket(kk, n, X, d) => Bucket(r, n, X, d)
  BY <1>4 DEF SameHeap, Bucket
<1>6. \A c, X : Kept(kk, c, X) => Kept(r, c, X)
  BY <1>5 DEF SameHeap, Kept
<1> QED
  BY <1>1, <1>2, <1>3, <1>6

\* Only the result differs.
LEMMA SameGood ==
  ASSUME NEW kk, NEW P, NEW B, Good(kk, P, B), NEW r \in HeapT, SameHeap(kk, r), r.v_bit_map = kk.v_bit_map
  PROVE  Good(r, P, B)
<1>1. PageUse(r, P)
  BY SameHeapFacts DEF Good, PageUse, SameHeap
<1> QED
  BY <1>1, SameHeapFacts DEF Good

\* A clear page is nobody's.
LEMMA ClearPage ==
  ASSUME NEW kk, NEW P, NEW B, Good(kk, P, B), NEW g \in KPage, g \notin kk.v_bit_map.bits
  PROVE  g \notin P /\ ~BucketPage(kk, g) /\ ~DescPage(kk, g)
BY DEF Good, PageUse

\* A page is taken into use.
LEMMA TakePage ==
  ASSUME NEW kk, NEW P, NEW B, Good(kk, P, B), NEW g \in KPage, g \notin kk.v_bit_map.bits,
         NEW r \in HeapT, SameHeap(kk, r), r.v_bit_map.bits = kk.v_bit_map.bits \cup {g}
  PROVE  Good(r, P \cup {g}, B)
<1>1. PageUse(kk, P)
  BY DEF Good
<1>2. PageUse(r, P \cup {g})
  BY <1>1, ClearPage, SameHeapFacts DEF PageUse, SameHeap
<1> QED
  BY <1>2, SameHeapFacts DEF Good

\* A page goes out of use.
LEMMA LeavePage ==
  ASSUME NEW kk, NEW P, NEW B, Good(kk, P, B), NEW g \in P,
         NEW r \in HeapT, SameHeap(kk, r), r.v_bit_map.bits = kk.v_bit_map.bits \ {g}
  PROVE  Good(r, P \ {g}, B)
<1>1. PageUse(kk, P)
  BY DEF Good
<1>2. PageUse(r, P \ {g})
  BY <1>1, SameHeapFacts DEF PageUse, SameHeap
<1> QED
  BY <1>2, SameHeapFacts DEF Good

\* alloc_kpage finds a page nobody uses, or none.
LEMMA AllocFacts ==
  ASSUME NEW kk, NEW P, NEW B, Good(kk, P, B), NEW r, r = alloc_kpage(kk, 1)
  PROVE  /\ r \in HeapT /\ SameHeap(kk, r)
         /\ \/ r.ret = <<0, 0>> /\ Good(r, P, B)
            \/ /\ r.ret[1] \in KPage /\ r.ret # <<0, 0>> /\ r.ret[1] \notin kk.v_bit_map.bits
               /\ Good(r, P \cup {r.ret[1]}, B)
<1> DEFINE start == bitmap_scan(kk.v_bit_map, 1)
           bm == MarkRun(kk.v_bit_map, start, 1)
           Starts == {i \in 1 .. KPages : kk.v_bit_map.bits \cap (i .. i) = {}}
<1>1. /\ kk \in HeapT /\ kk.halt = "no" /\ kk.v_bit_map \in BitmapT /\ kk.ret \in Nat \X Nat
      /\ kk.v_bit_map.bits \subseteq KPage /\ kk.v_bit_map.length = KPages /\ kk.v_bit_map.offset = 1
  BY DEF Good, HeapT, BitmapT
<1>2. KPages \in Nat
  BY HeapAssumption
<1>3. start = IF Starts = {} THEN EOF ELSE Min(Starts)
  <2>1. 1 + KPages - 1 = KPages /\ \A i \in 1 .. KPages : i + 1 - 1 = i
    BY <1>2
  <2> QED
    BY <1>1, <2>1 DEF bitmap_scan
<1>4. CASE Starts = {}
  <2>1. start = EOF
    BY <1>3, <1>4
  <2>2. r = [kk EXCEPT !.ret = <<0, 0>>]
    BY <1>1, <2>1 DEF alloc_kpage
  <2>3. r \in HeapT /\ SameHeap(kk, r) /\ r.v_bit_map = kk.v_bit_map /\ r.ret = <<0, 0>>
    <3>1. <<0, 0>> \in Nat \X Nat
      OBVIOUS
    <3> QED
      BY <1>1, <2>2, <3>1 DEF HeapT, SameHeap
  <2> QED
    BY <2>3, SameGood
<1>5. CASE Starts # {}
  <2>1. start \in Starts
    <3>1. Starts \in SUBSET Nat
      BY <1>2
    <3>2. PICK x \in Starts : \A y \in Starts : x <= y
      BY <1>5, <3>1, LeastElement
    <3> QED
      BY <1>3, <1>5, <3>2 DEF Min
  <2>2. start \in KPage /\ start \in Nat /\ start # EOF /\ start # 0 /\ start .. start = {start}
    BY <2>1, <1>2 DEF KPage, EOF
  <2>3. start \notin kk.v_bit_map.bits
    BY <2>1, <2>2
  <2> HIDE DEF start, Starts
  <2>4. r = [kk EXCEPT !.v_bit_map = bm, !.ret = <<start, 0>>]
    BY <1>1, <2>2 DEF alloc_kpage, start
  <2>5. bm \in BitmapT /\ bm.bits = kk.v_bit_map.bits \cup {start}
    <3>1. start + 1 - 1 = start
      BY <2>2
    <3>2. bm = [kk.v_bit_map EXCEPT !.bits = kk.v_bit_map.bits \cup {start}]
      BY <1>1, <2>2, <3>1 DEF MarkRun
    <3> QED
      BY <3>2, <1>1, <2>2 DEF BitmapT
  <2> HIDE DEF bm
  <2>6. <<start, 0>> \in Nat \X Nat
    BY <2>2
  <2>7. r \in HeapT /\ SameHeap(kk, r) /\ r.v_bit_map = bm /\ r.ret = <<start, 0>>
    BY <1>1, <2>4, <2>5, <2>6 DEF HeapT, SameHeap
  <2>8. r.ret[1] = start /\ r.ret # <<0, 0>>
    BY <2>7, <2>2
  <2>9. Good(r, P \cup {start}, B)
    BY <2>2, <2>3, <2>5, <2>7, TakePage
  <2> QED
    BY <2>2, <2>3, <2>7, <2>8, <2>9
<1> QED
  BY <1>4, <1>5

\* free_kpage of a page in use.
LEMMA FreePage ==
  ASSUME NEW kk, NEW P, NEW B, Good(kk, P, B), NEW g \in P, NEW r, r = free_kpage(kk, g)
  PROVE  Good(r, P \ {g}, B)
<1> DEFINE bm == bitmap_set(kk.v_bit_map, g, FALSE)
<1>1. /\ kk \in HeapT /\ kk.halt = "no" /\ kk.v_bit_map \in BitmapT /\ g \in kk.v_bit_map.bits
  BY DEF Good, HeapT, PageUse
<1>2. bm \in BitmapT /\ bm.bits = kk.v_bit_map.bits \ {g}
  BY <1>1 DEF bitmap_set, BitmapT
<1>3. r = [kk EXCEPT !.v_bit_map = bm]
  BY <1>1 DEF free_kpage, bitmap_test
<1> HIDE DEF bm
<1>4. r \in HeapT /\ SameHeap(kk, r) /\ r.v_bit_map = bm
  BY <1>1, <1>2, <1>3 DEF HeapT, SameHeap
<1> QED
  BY <1>2, <1>4, LeavePage
\* The lists of free descriptors and the chains, each with the same members or
\* with one moved; who is known decides which pages hold descriptors.
LEMMA DescPagesOf ==
  ASSUME NEW kk, NEW r, \A d \in Desc : Known(r, d) <=> Known(kk, d)
  PROVE  \A g : DescPage(r, g) <=> DescPage(kk, g)
BY DEF DescPage

\* bucket_dec_init: a page becomes descriptors.
LEMMA CutPage ==
  ASSUME NEW kk, NEW P, NEW B, Good(kk, P, B), NEW g \in P, kk.free_desc = <<>>,
         NEW r \in HeapT, r.v_bit_map = kk.v_bit_map, r.dir = kk.dir, r.page = kk.page,
         r.freeptr = kk.freeptr, r.refcnt = kk.refcnt, Once(r.free_desc),
         \A d \in Desc : Has(r.free_desc, d) <=> d[1] = g
  PROVE  Good(r, P \ {g}, B)
<1>1. PageUse(kk, P) /\ Lists(kk) /\ kk \in HeapT /\ P \subseteq KPage /\ \A c \in Class : Kept(kk, c, B[c])
  BY DEF Good, PageUse
<1>2. \A d \in Desc : Chained(r, d) <=> Chained(kk, d)
  BY DEF Chained
<1>3. \A d \in Desc : ~Has(kk.free_desc, d)
  BY DEF Has
<1>4. \A d \in Desc : Known(r, d) <=> Known(kk, d) \/ d[1] = g
  BY <1>2, <1>3 DEF Known
<1>5. <<g, 1>> \in Desc /\ <<g, 1>>[1] = g
  BY <1>1, HeapAssumption DEF Desc
<1>6. \A x : DescPage(r, x) <=> DescPage(kk, x) \/ x = g
  BY <1>4, <1>5 DEF DescPage
<1>7. \A x : BucketPage(r, x) <=> BucketPage(kk, x)
  BY <1>2 DEF BucketPage
<1>8. ~BucketPage(kk, g) /\ ~DescPage(kk, g)
  BY <1>1 DEF PageUse
<1>9. \A d \in Desc : Chained(kk, d) => kk.page[d] # g /\ d[1] # g
  BY <1>8 DEF BucketPage, DescPage, Known
<1>10. PageUse(r, P \ {g})
  <2>1. \A x \in KPage : x \in r.v_bit_map.bits <=> x \in P \ {g} \/ BucketPage(r, x) \/ DescPage(r, x)
    BY <1>1, <1>6, <1>7 DEF PageUse
  <2>2. \A x \in P \ {g} : ~BucketPage(r, x) /\ ~DescPage(r, x)
    BY <1>1, <1>6, <1>7 DEF PageUse
  <2>3. \A d \in Desc : Chained(r, d) => r.page[d] \in KPage /\ ~DescPage(r, r.page[d])
    BY <1>1, <1>2, <1>6, <1>9 DEF PageUse
  <2>4. \A d, e \in Desc : Chained(r, d) /\ Chained(r, e) /\ r.page[d] = r.page[e] => d = e
    BY <1>1, <1>2 DEF PageUse
  <2> QED
    BY <1>1, <2>1, <2>2, <2>3, <2>4 DEF PageUse
<1>11. Lists(r)
  BY <1>1, <1>9 DEF Lists, Chained
<1>12. \A X, d : InPage(kk, X, d) = InPage(r, X, d)
  BY DEF InPage
<1>13. \A n, X, d : Bucket(kk, n, X, d) => Bucket(r, n, X, d)
  BY <1>12 DEF Bucket
<1>14. \A c \in Class : Kept(r, c, B[c])
  BY <1>1, <1>13 DEF Kept
<1> QED
  BY <1>10, <1>11, <1>14 DEF Good

\* What only bucket d of the chains of kk and r tells apart leaves the other
\* buckets as they are.
LEMMA OtherBucket ==
  ASSUME NEW kk, NEW r, NEW n, NEW X, NEW d, r.page[d] = kk.page[d], r.refcnt[d] = kk.refcnt[d],
         r.freeptr[d] = kk.freeptr[d], Bucket(kk, n, X, d)
  PROVE  Bucket(r, n, X, d)
<1>1. InPage(r, X, d) = InPage(kk, X, d)
  BY DEF InPage
<1> QED
  BY <1>1 DEF Bucket

\* The blocks of a new bucket.
LEMMA AllBlocks ==
  ASSUME NEW n \in Nat \ {0}, NEW s, s = [i \in 1 .. n |-> i]
  PROVE  s \in Seq(Nat) /\ Len(s) = n /\ Once(s) /\ s # <<>>
<1>1. s \in Seq(Nat) /\ Len(s) = n /\ DOMAIN s = 1 .. n
  OBVIOUS
<1>2. Once(s)
  BY <1>1 DEF Once
<1> QED
  BY <1>1, <1>2

\* link_bucket: a page becomes the page of a bucket, all blocks of it free.
LEMMA LinkBucket ==
  ASSUME NEW kk, NEW P, NEW B, Good(kk, P, B), NEW c \in Class, kk.free_desc # <<>>,
         kk.ret[1] \in P, NEW r, r = link_bucket(kk, c)
  PROVE  LET d == Head(kk.free_desc)
         IN  /\ Good(r, P \ {kk.ret[1]}, B) /\ r.halt = "no"
             /\ d \in Desc /\ Has(r.dir[c], d) /\ Head(r.dir[c]) = d /\ r.freeptr[d] # <<>>
<1> DEFINE d == Head(kk.free_desc)
           g == kk.ret[1]
           s == [i \in 1 .. PerPage[c] |-> i]
           chain == <<d>> \o kk.dir[c]
<1>1. /\ PageUse(kk, P) /\ Lists(kk) /\ kk \in HeapT /\ P \subseteq KPage /\ kk.halt = "no"
      /\ \A e \in Class : Kept(kk, e, B[e])
  BY DEF Good, PageUse, HeapT
<1>2. /\ kk.free_desc \in Seq(Desc) /\ Once(kk.free_desc) /\ kk.dir \in [Class -> Seq(Desc)]
      /\ kk.page \in [Desc -> Nat] /\ kk.freeptr \in [Desc -> Seq(Nat)] /\ kk.refcnt \in [Desc -> Int]
      /\ kk.ret \in Nat \X Nat /\ g \in Nat /\ Once(kk.dir[c])
  BY <1>1 DEF HeapT, Lists
<1>3. /\ d \in Desc /\ Has(kk.free_desc, d) /\ Tail(kk.free_desc) \in Seq(Desc)
      /\ Once(Tail(kk.free_desc)) /\ \A x : Has(Tail(kk.free_desc), x) <=> Has(kk.free_desc, x) /\ x # d
  BY <1>2, TailFacts
<1>4. \A e \in Class : ~Has(kk.dir[e], d)
  BY <1>1, <1>3 DEF Lists
<1>5. chain \in Seq(Desc) /\ Once(chain) /\ \A x : Has(chain, x) <=> x = d \/ Has(kk.dir[c], x)
  BY <1>2, <1>3, <1>4, ConsFacts
<1>6. Head(chain) = d
  BY <1>2, <1>3, HeadTailConcat
<1>7. s \in Seq(Nat) /\ Len(s) = PerPage[c] /\ Once(s) /\ s # <<>>
  BY HeapAssumption, AllBlocks
<1>8. r = [kk EXCEPT !.free_desc = Tail(kk.free_desc), !.dir = [kk.dir EXCEPT ![c] = chain],
                     !.page = [kk.page EXCEPT ![d] = g], !.refcnt = [kk.refcnt EXCEPT ![d] = 0],
                     !.freeptr = [kk.freeptr EXCEPT ![d] = s]]
  BY <1>1, <1>2 DEF link_bucket
<1> HIDE DEF chain, s, d, g
<1>9. /\ r \in HeapT /\ r.free_desc = Tail(kk.free_desc) /\ r.dir = [kk.dir EXCEPT ![c] = chain]
      /\ r.page = [kk.page EXCEPT ![d] = g] /\ r.refcnt = [kk.refcnt EXCEPT ![d] = 0]
      /\ r.freeptr = [kk.freeptr EXCEPT ![d] = s] /\ r.v_bit_map = kk.v_bit_map /\ r.halt = "no"
  <2> DEFINE fd == Tail(kk.free_desc)
             dr == [kk.dir EXCEPT ![c] = chain]
             pg == [kk.page EXCEPT ![d] = g]
             rc == [kk.refcnt EXCEPT ![d] = 0]
             fp == [kk.freeptr EXCEPT ![d] = s]
  <2>1. /\ fd \in Seq(Desc) /\ dr \in [Class -> Seq(Desc)] /\ pg \in [Desc -> Nat]
        /\ rc \in [Desc -> Int] /\ fp \in [Desc -> Seq(Nat)]
    <3>1. fd \in Seq(Desc) /\ pg \in [Desc -> Nat] /\ rc \in [Desc -> Int]
      BY <1>2, <1>3, SMTT(30)
    <3>2. dr \in [Class -> Seq(Desc)]
      BY <1>2, <1>5
    <3>3. fp \in [Desc -> Seq(Nat)]
      BY <1>2, <1>7
    <3> QED
      BY <3>1, <3>2, <3>3
  <2> HIDE DEF fd, dr, pg, rc, fp
  <2>2. r = [kk EXCEPT !.free_desc = fd, !.dir = dr, !.page = pg, !.refcnt = rc, !.freeptr = fp]
    BY <1>8 DEF fd, dr, pg, rc, fp
  <2>3. /\ r \in HeapT /\ r.free_desc = fd /\ r.dir = dr /\ r.page = pg /\ r.refcnt = rc
        /\ r.freeptr = fp /\ r.v_bit_map = kk.v_bit_map /\ r.halt = "no"
    BY <1>1, <2>1, <2>2, ZenonT(40) DEF HeapT
  <2> QED
    BY <2>3 DEF fd, dr, pg, rc, fp
<1>10. /\ r.dir[c] = chain /\ \A e \in Class : e # c => r.dir[e] = kk.dir[e]
       /\ \A x \in Desc : x # d => /\ r.page[x] = kk.page[x] /\ r.refcnt[x] = kk.refcnt[x]
                                   /\ r.freeptr[x] = kk.freeptr[x]
       /\ r.page[d] = g /\ r.refcnt[d] = 0 /\ r.freeptr[d] = s
  BY <1>2, <1>3, <1>9
<1>11. \A e \in Class, x \in Desc : Has(r.dir[e], x) <=> Has(kk.dir[e], x) \/ (e = c /\ x = d)
  BY <1>5, <1>10
<1>12. \A x \in Desc : (Chained(r, x) <=> Chained(kk, x) \/ x = d) /\ (Known(r, x) <=> Known(kk, x))
  BY <1>3, <1>9, <1>11 DEF Chained, Known
<1>13. ~Chained(kk, d)
  BY <1>4 DEF Chained
<1>14. g \in P /\ ~BucketPage(kk, g) /\ ~DescPage(kk, g) /\ g \in KPage
  BY <1>1 DEF PageUse, g
<1>15. \A x : DescPage(r, x) <=> DescPage(kk, x)
  BY <1>12, DescPagesOf
<1>16. \A x \in Desc : Chained(kk, x) => r.page[x] = kk.page[x] /\ r.page[x] # g
  BY <1>10, <1>13, <1>14 DEF BucketPage
<1>17. \A x : BucketPage(r, x) <=> BucketPage(kk, x) \/ x = g
  BY <1>3, <1>10, <1>12, <1>16 DEF BucketPage
<1>18. PageUse(r, P \ {g})
  <2>1. \A x \in KPage : x \in r.v_bit_map.bits <=> x \in P \ {g} \/ BucketPage(r, x) \/ DescPage(r, x)
    BY <1>1, <1>9, <1>14, <1>15, <1>17 DEF PageUse
  <2>2. \A x \in P \ {g} : ~BucketPage(r, x) /\ ~DescPage(r, x)
    BY <1>1, <1>15, <1>17 DEF PageUse
  <2>3. \A x \in Desc : Chained(r, x) => r.page[x] \in KPage /\ ~DescPage(r, r.page[x])
    BY <1>1, <1>10, <1>12, <1>14, <1>15, <1>16 DEF PageUse
  <2>4. \A x, e \in Desc : Chained(r, x) /\ Chained(r, e) /\ r.page[x] = r.page[e] => x = e
    BY <1>1, <1>10, <1>12, <1>16 DEF PageUse
  <2> QED
    BY <1>1, <2>1, <2>2, <2>3, <2>4 DEF PageUse
<1>19. Lists(r)
  <2>1. \A e \in Class : Once(r.dir[e])
    BY <1>1, <1>5, <1>10 DEF Lists
  <2>2. \A e \in Class, x \in Desc : Has(r.dir[e], x) => ~Has(r.free_desc, x)
    BY <1>1, <1>3, <1>9, <1>11 DEF Lists
  <2>3. \A e, f \in Class, x \in Desc : Has(r.dir[e], x) /\ Has(r.dir[f], x) => e = f
    BY <1>1, <1>4, <1>11 DEF Lists
  <2> QED
    BY <1>3, <1>9, <2>1, <2>2, <2>3 DEF Lists
<1>20. ASSUME NEW e \in Class PROVE Kept(r, e, B[e])
  <2>1. Kept(kk, e, B[e])
    BY <1>1
  <2>2. \A b \in B[e] : b[1] # g /\ \E x \in Desc : Has(r.dir[e], x) /\ r.page[x] = b[1]
    BY <2>1, <1>11, <1>16 DEF Kept, Chained
  <2>3. ASSUME NEW x \in Desc, Has(r.dir[e], x) PROVE Bucket(r, PerPage[e], B[e], x)
    <3>1. CASE x = d
      <4>1. e = c
        BY <2>3, <3>1, <1>4, <1>11
      <4>2. InPage(r, B[e], d) = {}
        BY <2>2, <1>10 DEF InPage
      <4>3. PerPage[c] \in Nat
        BY HeapAssumption
      <4> QED
        BY <3>1, <4>1, <4>2, <4>3, <1>7, <1>10, FS_EmptySet DEF Bucket
    <3>2. CASE x # d
      <4>1. Bucket(kk, PerPage[e], B[e], x)
        BY <2>1, <2>3, <3>2, <1>11 DEF Kept
      <4> QED
        BY <4>1, <3>2, <1>10, OtherBucket
    <3> QED
      BY <3>1, <3>2
  <2> QED
    BY <2>1, <2>2, <2>3 DEF Kept
<1>21. Good(r, P \ {g}, B)
  BY <1>9, <1>18, <1>19, <1>20 DEF Good
<1> QED
  BY <1>3, <1>5, <1>6, <1>7, <1>9, <1>10, <1>21 DEF d, g
\* bucket_dec_init, called when no descriptor is free.
LEMMA DescInit ==
  ASSUME NEW kk, NEW P, NEW B, Good(kk, P, B), kk.free_desc = <<>>, NEW r, r = bucket_dec_init(kk)
  PROVE  \/ r.halt = "out of memory"
         \/ r.halt = "no" /\ Good(r, P, B) /\ r.free_desc # <<>>
<1> DEFINE a == alloc_kpage(kk, 1)
           g == a.ret[1]
           s == [i \in 1 .. DescPerPage |-> <<g, i>>]
<1>1. r = Descriptors(NotNull(a, "out of memory"))
  BY DEF bucket_dec_init
<1>2. /\ a \in HeapT /\ SameHeap(kk, a)
      /\ \/ a.ret = <<0, 0>> /\ Good(a, P, B)
         \/ /\ g \in KPage /\ a.ret # <<0, 0>> /\ g \notin kk.v_bit_map.bits
            /\ Good(a, P \cup {g}, B)
  BY AllocFacts
<1> HIDE DEF a
<1>3. a.halt = "no" /\ a.free_desc = <<>>
  BY <1>2 DEF HeapT, SameHeap
<1>4. CASE a.ret = <<0, 0>>
  <2>1. NotNull(a, "out of memory") = [a EXCEPT !.halt = "out of memory"]
    BY <1>3, <1>4 DEF NotNull, Stop
  <2>2. [a EXCEPT !.halt = "out of memory"].halt = "out of memory"
    BY <1>2 DEF HeapT
  <2>3. r.halt = "out of memory"
    BY <1>1, <2>1, <2>2 DEF Descriptors
  <2> QED
    BY <2>3
<1>5. CASE a.ret # <<0, 0>>
  <2>1. r = [a EXCEPT !.free_desc = s \o <<>>]
    BY <1>1, <1>3, <1>5 DEF NotNull, Descriptors
  <2>2. DescPerPage \in Nat \ {0} /\ g \in KPage /\ Good(a, P \cup {g}, B)
    BY <1>2, <1>5, HeapAssumption
  <2> DEFINE t == s \o <<>>
  <2> HIDE DEF g
  <2>3. s \in Seq(Desc) /\ Len(s) = DescPerPage /\ \A i \in 1 .. DescPerPage : s[i] = <<g, i>>
    BY <2>2 DEF Desc
  <2> HIDE DEF s
  <2>4. t \in Seq(Desc) /\ Len(t) = DescPerPage /\ \A i \in 1 .. DescPerPage : t[i] = <<g, i>>
    BY <2>2, <2>3
  <2> HIDE DEF t
  <2>5. Once(t) /\ t # <<>>
    BY <2>2, <2>4 DEF Once
  <2>6. \A d \in Desc : Has(t, d) <=> d[1] = g
    <3>1. \A d \in Desc : d = <<d[1], d[2]>> /\ d[2] \in 1 .. DescPerPage
      BY DEF Desc
    <3>2. \A i \in 1 .. DescPerPage : t[i][1] = g
      BY <2>4
    <3>3. \A d \in Desc : d[1] = g => t[d[2]] = d
      BY <2>4, <3>1
    <3> QED
      BY <2>4, <3>1, <3>2, <3>3 DEF Has
  <2>7. /\ r \in HeapT /\ r.free_desc = t /\ r.v_bit_map = a.v_bit_map /\ r.dir = a.dir
        /\ r.page = a.page /\ r.freeptr = a.freeptr /\ r.refcnt = a.refcnt /\ r.halt = "no"
    BY <1>2, <2>1, <2>4 DEF HeapT, t
  <2>8. Good(r, (P \cup {g}) \ {g}, B)
    BY <1>3, <2>2, <2>5, <2>6, <2>7, CutPage
  <2>9. g \notin P
    BY <1>2, <1>5, ClearPage DEF g
  <2>10. (P \cup {g}) \ {g} = P
    BY <2>9
  <2> QED
    BY <2>5, <2>7, <2>8, <2>10
<1> QED
  BY <1>4, <1>5

\* The blocks in use with those of one class replaced.
With(B, c, X) == [e \in Class |-> IF e = c THEN X ELSE B[e]]

\* malloc takes the first block of the list of a bucket that has one.
LEMMA TakeBlock ==
  ASSUME NEW kk, NEW P, NEW B, Good(kk, P, B), NEW c \in Class, NEW d \in Desc, Has(kk.dir[c], d),
         kk.freeptr[d] # <<>>, NEW r, r = take_block(kk, d)
  PROVE  /\ r.halt = "no" /\ r.ret \notin B[c]
         /\ Good(r, P, With(B, c, B[c] \cup {r.ret}))
<1> DEFINE n == Head(kk.freeptr[d])
           b == <<kk.page[d], n>>
           X == B[c] \cup {b}
           fl == Tail(kk.freeptr[d])
<1>1. /\ PageUse(kk, P) /\ Lists(kk) /\ kk \in HeapT /\ kk.halt = "no"
      /\ \A e \in Class : Kept(kk, e, B[e])
  BY DEF Good, HeapT
<1>2. /\ kk.dir \in [Class -> Seq(Desc)] /\ kk.freeptr \in [Desc -> Seq(Nat)]
      /\ kk.refcnt \in [Desc -> Int] /\ kk.freeptr[d] \in Seq(Nat) /\ kk.page \in [Desc -> Nat]
  BY <1>1 DEF HeapT
<1>3. Chained(kk, d) /\ kk.page[d] \in KPage
  BY <1>1 DEF Chained, PageUse
<1>4. Kept(kk, c, B[c]) /\ Bucket(kk, PerPage[c], B[c], d)
  BY <1>1 DEF Kept
<1>5. /\ n \in Nat /\ Has(kk.freeptr[d], n) /\ fl \in Seq(Nat) /\ Once(fl)
      /\ \A x : Has(fl, x) <=> Has(kk.freeptr[d], x) /\ x # n
  BY <1>2, <1>4, TailFacts DEF Bucket
<1>6. b \in KPage \X Nat /\ b[1] = kk.page[d] /\ b[2] = n
  BY <1>3, <1>5
<1>7. b \notin B[c]
  BY <1>4, <1>5, <1>6 DEF Bucket, InPage
<1>8. r = [kk EXCEPT !.ret = b, !.freeptr = [kk.freeptr EXCEPT ![d] = fl],
                     !.refcnt = [kk.refcnt EXCEPT ![d] = kk.refcnt[d] + 1]]
  BY <1>1 DEF take_block
<1>9. Len(kk.freeptr[d]) \in Nat /\ Len(fl) = Len(kk.freeptr[d]) - 1
  BY <1>2
<1> HIDE DEF n, b, fl
<1>10. /\ r \in HeapT /\ r.free_desc = kk.free_desc /\ r.dir = kk.dir /\ r.page = kk.page
       /\ r.freeptr = [kk.freeptr EXCEPT ![d] = fl] /\ r.v_bit_map = kk.v_bit_map
       /\ r.refcnt = [kk.refcnt EXCEPT ![d] = kk.refcnt[d] + 1] /\ r.ret = b /\ r.halt = "no"
  <2> DEFINE rc == [kk.refcnt EXCEPT ![d] = kk.refcnt[d] + 1]
             fp == [kk.freeptr EXCEPT ![d] = fl]
  <2>1. rc \in [Desc -> Int] /\ fp \in [Desc -> Seq(Nat)] /\ b \in Nat \X Nat
    BY <1>2, <1>5, <1>6, SMTT(30) DEF KPage
  <2> HIDE DEF rc, fp
  <2>2. r = [kk EXCEPT !.ret = b, !.freeptr = fp, !.refcnt = rc]
    BY <1>8 DEF rc, fp
  <2>3. /\ r \in HeapT /\ r.free_desc = kk.free_desc /\ r.dir = kk.dir /\ r.page = kk.page
        /\ r.freeptr = fp /\ r.v_bit_map = kk.v_bit_map /\ r.refcnt = rc /\ r.ret = b /\ r.halt = "no"
    BY <1>1, <2>1, <2>2 DEF HeapT
  <2> QED
    BY <2>3 DEF rc, fp
<1>11. /\ r.freeptr[d] = fl /\ r.refcnt[d] = kk.refcnt[d] + 1 /\ kk.refcnt[d] \in Int
       /\ \A x \in Desc : x # d => r.refcnt[x] = kk.refcnt[x] /\ r.freeptr[x] = kk.freeptr[x]
  BY <1>2, <1>10
<1>12. \A x : (Chained(r, x) <=> Chained(kk, x)) /\ (Known(r, x) <=> Known(kk, x))
  BY <1>10 DEF Chained, Known
<1>13. \A g : (BucketPage(r, g) <=> BucketPage(kk, g)) /\ (DescPage(r, g) <=> DescPage(kk, g))
  BY <1>10, <1>12 DEF BucketPage, DescPage
<1>14. PageUse(r, P)
  BY <1>1, <1>10, <1>12, <1>13 DEF PageUse
<1>15. Lists(r)
  BY <1>1, <1>10 DEF Lists
<1> HIDE DEF X
<1>16. Kept(r, c, X)
  <2>1. IsFiniteSet(B[c]) /\ B[c] \subseteq KPage \X Nat
    BY <1>4 DEF Kept
  <2>2. IsFiniteSet(X) /\ X \subseteq KPage \X Nat
    BY <2>1, <1>6, FS_AddElement DEF X
  <2>3. \A y \in X : \E x \in Desc : Has(r.dir[c], x) /\ r.page[x] = y[1]
    BY <1>4, <1>6, <1>10 DEF Kept, X
  <2>4. Bucket(r, PerPage[c], X, d)
    <3>1. InPage(r, X, d) = InPage(kk, B[c], d) \cup {b} /\ b \notin InPage(kk, B[c], d)
      BY <1>6, <1>7, <1>10 DEF InPage, X
    <3>2. IsFiniteSet(InPage(kk, B[c], d))
      BY <2>1, FS_Subset DEF InPage
    <3>3. Cardinality(InPage(r, X, d)) = Cardinality(InPage(kk, B[c], d)) + 1
      BY <3>1, <3>2, FS_AddElement
    <3>4. /\ kk.refcnt[d] = Cardinality(InPage(kk, B[c], d)) /\ kk.refcnt[d] + Len(kk.freeptr[d]) = PerPage[c]
          /\ \A y \in InPage(kk, B[c], d) : ~Has(kk.freeptr[d], y[2])
      BY <1>4 DEF Bucket
    <3>5. \A y \in InPage(r, X, d) : ~Has(r.freeptr[d], y[2])
      BY <3>1, <3>4, <1>5, <1>6, <1>11
    <3>6. r.refcnt[d] + Len(r.freeptr[d]) = PerPage[c]
      BY <3>4, <1>9, <1>11
    <3> QED
      BY <3>3, <3>4, <3>5, <3>6, <1>5, <1>11 DEF Bucket
  <2>5. ASSUME NEW x \in Desc, Has(r.dir[c], x), x # d PROVE Bucket(r, PerPage[c], X, x)
    <3>1. Bucket(kk, PerPage[c], B[c], x) /\ Chained(kk, x)
      BY <2>5, <1>4, <1>10 DEF Kept, Chained
    <3>2. kk.page[x] # kk.page[d]
      BY <2>5, <3>1, <1>1, <1>3 DEF PageUse
    <3>3. InPage(r, X, x) = InPage(kk, B[c], x)
      BY <3>2, <1>6, <1>10 DEF InPage, X
    <3> QED
      BY <2>5, <3>1, <3>3, <1>11 DEF Bucket
  <2> QED
    BY <2>2, <2>3, <2>4, <2>5 DEF Kept
<1>17. ASSUME NEW e \in Class, e # c PROVE Kept(r, e, B[e])
  <2>1. Kept(kk, e, B[e])
    BY <1>1
  <2>2. \A x \in Desc : Has(kk.dir[e], x) => x # d
    BY <1>1, <1>17 DEF Lists
  <2>3. \A x \in Desc : Has(r.dir[e], x) => Bucket(r, PerPage[e], B[e], x)
    <3> SUFFICES ASSUME NEW x \in Desc, Has(r.dir[e], x) PROVE Bucket(r, PerPage[e], B[e], x)
      OBVIOUS
    <3>1. Bucket(kk, PerPage[e], B[e], x) /\ x # d
      BY <2>1, <2>2, <1>10 DEF Kept
    <3> QED
      BY <3>1, <1>10, <1>11, OtherBucket
  <2> QED
    BY <2>1, <2>3, <1>10 DEF Kept
<1>18. Good(r, P, With(B, c, X))
  BY <1>10, <1>14, <1>15, <1>16, <1>17 DEF Good, With
<1> QED
  BY <1>7, <1>10, <1>18 DEF X
\* malloc makes a bucket when no bucket of the class has a free block.
LEMMA NewBucket ==
  ASSUME NEW kk, NEW P, NEW B, Good(kk, P, B), NEW c \in Class, NEW r, r = new_bucket(kk, c)
  PROVE  \/ r.halt = "out of memory"
         \/ /\ r.halt = "no" /\ Good(r, P, B) /\ Head(r.dir[c]) \in Desc
            /\ Has(r.dir[c], Head(r.dir[c])) /\ r.freeptr[Head(r.dir[c])] # <<>>
<1> DEFINE m == IF kk.free_desc = <<>> THEN bucket_dec_init(kk) ELSE kk
           a == alloc_kpage(m, 1)
           l == NotNull(a, "out of memory")
<1>1. r = link_bucket(l, c)
  BY DEF new_bucket
<1>2. m.halt = "out of memory" \/ (m.halt = "no" /\ Good(m, P, B) /\ m.free_desc # <<>>)
  <2>1. CASE kk.free_desc = <<>>
    <3>1. m = bucket_dec_init(kk)
      BY <2>1
    <3> QED
      BY <2>1, <3>1, DescInit
  <2>2. CASE kk.free_desc # <<>>
    <3>1. m = kk /\ kk.halt = "no"
      BY <2>2 DEF Good, HeapT
    <3> QED
      BY <2>2, <3>1
  <2> QED
    BY <2>1, <2>2
<1> HIDE DEF m
<1>3. CASE m.halt = "out of memory"
  <2>1. a = m
    BY <1>3 DEF alloc_kpage
  <2>2. l = m
    BY <1>3, <2>1 DEF NotNull
  <2>3. r = m
    BY <1>1, <1>3, <2>2 DEF link_bucket
  <2> QED
    BY <1>3, <2>3
<1>4. CASE Good(m, P, B) /\ m.free_desc # <<>>
  <2>1. /\ a \in HeapT /\ SameHeap(m, a)
        /\ \/ a.ret = <<0, 0>> /\ Good(a, P, B)
           \/ /\ a.ret[1] \in KPage /\ a.ret # <<0, 0>> /\ a.ret[1] \notin m.v_bit_map.bits
              /\ Good(a, P \cup {a.ret[1]}, B)
    BY <1>4, AllocFacts
  <2> HIDE DEF a
  <2>2. a.halt = "no" /\ a.free_desc # <<>>
    BY <1>4, <2>1 DEF HeapT, SameHeap
  <2>3. CASE a.ret = <<0, 0>>
    <3>1. l = [a EXCEPT !.halt = "out of memory"]
      BY <2>2, <2>3 DEF NotNull, Stop
    <3>2. l.halt = "out of memory"
      BY <2>1, <3>1 DEF HeapT
    <3>3. r = l
      BY <1>1, <3>2 DEF link_bucket
    <3> QED
      BY <3>2, <3>3
  <2>4. CASE a.ret # <<0, 0>>
    <3>1. l = a
      BY <2>4 DEF NotNull
    <3>2. r = link_bucket(a, c) /\ Good(a, P \cup {a.ret[1]}, B) /\ a.ret[1] \in P \cup {a.ret[1]}
      BY <1>1, <2>1, <2>4, <3>1
    <3> DEFINE d == Head(a.free_desc)
               Q == P \cup {a.ret[1]}
    <3>3. /\ Good(r, Q \ {a.ret[1]}, B) /\ r.halt = "no"
          /\ d \in Desc /\ Has(r.dir[c], d) /\ Head(r.dir[c]) = d /\ r.freeptr[d] # <<>>
      BY <2>2, <3>2, LinkBucket, ZenonT(40)
    <3>4. a.ret[1] \notin P
      BY <1>4, <2>1, <2>4, ClearPage
    <3>5. Q \ {a.ret[1]} = P
      BY <3>4
    <3> QED
      BY <3>3, <3>5
  <2> QED
    BY <2>3, <2>4
<1> QED
  BY <1>2, <1>3, <1>4

\* The bucket malloc finds has a free block.
LEMMA FindBucket ==
  ASSUME NEW kk, kk.dir \in [Class -> Seq(Desc)], NEW c \in Class, find_bucket(kk, c) # NoDesc
  PROVE  LET d == find_bucket(kk, c) IN d \in Desc /\ Has(kk.dir[c], d) /\ kk.freeptr[d] # <<>>
<1> DEFINE s == kk.dir[c]
           I == {j \in 1 .. Len(s) : kk.freeptr[s[j]] # <<>>}
           i == IF I # {} THEN Min(I) ELSE 0
<1>1. find_bucket(kk, c) = IF i = 0 THEN NoDesc ELSE s[i]
  BY DEF find_bucket, SelectInSeq
<1>2. s \in Seq(Desc) /\ Len(s) \in Nat
  BY SMTT(30)
<1>3. I # {} /\ find_bucket(kk, c) = s[i] /\ i = Min(I)
  BY <1>1, ZenonT(40)
<1>4. i \in I
  <2>1. I \in SUBSET Nat
    BY <1>2, SMTT(30)
  <2>2. PICK x \in I : \A y \in I : x <= y
    BY <1>3, <2>1, LeastElement
  <2> QED
    BY <1>3, <2>2 DEF Min
<1>5. i \in 1 .. Len(s) /\ kk.freeptr[s[i]] # <<>>
  BY <1>4
<1> HIDE DEF I, i
<1>6. s[i] \in Desc /\ Has(s, s[i])
  BY <1>2, <1>5 DEF Has
<1> QED
  BY <1>3, <1>5, <1>6, SMTT(30)

\* malloc gives a block nobody has, or stops for want of pages; it never takes
\* from an empty bucket.
LEMMA MallocFacts ==
  ASSUME NEW kk, NEW P, NEW B, Good(kk, P, B), NEW c \in Class, NEW r, r = malloc(kk, c)
  PROVE  \/ r.halt = "out of memory"
         \/ /\ r.halt = "no" /\ r.ret \notin B[c]
            /\ Good(r, P, With(B, c, B[c] \cup {r.ret}))
<1>1. kk.halt = "no" /\ kk.dir \in [Class -> Seq(Desc)]
  BY DEF Good, HeapT
<1>2. CASE find_bucket(kk, c) = NoDesc
  <2> DEFINE m == new_bucket(kk, c)
  <2>0. m = new_bucket(kk, c)
    OBVIOUS
  <2>1. r = take_newest(m, c)
    BY <1>1, <1>2 DEF malloc
  <2> HIDE DEF m
  <2>2. \/ m.halt = "out of memory"
        \/ /\ m.halt = "no" /\ Good(m, P, B) /\ Head(m.dir[c]) \in Desc
           /\ Has(m.dir[c], Head(m.dir[c])) /\ m.freeptr[Head(m.dir[c])] # <<>>
    BY <2>0, NewBucket
  <2>3. CASE m.halt = "out of memory"
    BY <2>1, <2>3 DEF take_newest
  <2>4. CASE m.halt = "no"
    <3> DEFINE d == Head(m.dir[c])
    <3>1. d \in Desc /\ Has(m.dir[c], d) /\ m.freeptr[d] # <<>>
      BY <2>2, <2>4
    <3>2. r = take_block(m, d) /\ Good(m, P, B)
      BY <2>1, <2>2, <2>4, <3>1 DEF take_newest
    <3> QED
      BY <3>1, <3>2, TakeBlock
  <2> QED
    BY <2>2, <2>3, <2>4
<1>3. CASE find_bucket(kk, c) # NoDesc
  <2> DEFINE d == find_bucket(kk, c)
  <2>1. r = take_block(kk, d)
    BY <1>1, <1>3 DEF malloc
  <2>2. d \in Desc /\ Has(kk.dir[c], d) /\ kk.freeptr[d] # <<>>
    BY <1>1, <1>3, FindBucket
  <2> HIDE DEF d
  <2> QED
    BY <2>1, <2>2, TakeBlock
<1> QED
  BY <1>2, <1>3
\* The block goes back to its bucket.
LEMMA GiveBlock ==
  ASSUME NEW kk, NEW P, NEW B, Good(kk, P, B), NEW c \in Class, NEW d \in Desc, Has(kk.dir[c], d),
         NEW b \in B[c], kk.page[d] = b[1], NEW r, r = give_block(kk, d, b)
  PROVE  Good(r, P, With(B, c, B[c] \ {b})) /\ r.dir = kk.dir
<1> DEFINE X == B[c] \ {b}
           fl == <<b[2]>> \o kk.freeptr[d]
<1>1. /\ PageUse(kk, P) /\ Lists(kk) /\ kk \in HeapT
      /\ \A e \in Class : Kept(kk, e, B[e])
  BY DEF Good
<1>2. /\ kk.dir \in [Class -> Seq(Desc)] /\ kk.freeptr \in [Desc -> Seq(Nat)]
      /\ kk.refcnt \in [Desc -> Int] /\ kk.freeptr[d] \in Seq(Nat)
  BY <1>1 DEF HeapT
<1>3. Chained(kk, d)
  BY DEF Chained
<1>4. Kept(kk, c, B[c]) /\ Bucket(kk, PerPage[c], B[c], d)
  BY <1>1 DEF Kept
<1>5. b \in KPage \X Nat /\ b = <<b[1], b[2]>> /\ b[2] \in Nat /\ b \in InPage(kk, B[c], d)
  BY <1>4 DEF Kept, InPage
<1>6. Once(kk.freeptr[d]) /\ ~Has(kk.freeptr[d], b[2])
  BY <1>4, <1>5 DEF Bucket
<1>7. fl \in Seq(Nat) /\ Once(fl) /\ \A x : Has(fl, x) <=> x = b[2] \/ Has(kk.freeptr[d], x)
  BY <1>2, <1>5, <1>6, ConsFacts
<1>8. r = [kk EXCEPT !.freeptr = [kk.freeptr EXCEPT ![d] = fl],
                     !.refcnt = [kk.refcnt EXCEPT ![d] = kk.refcnt[d] - 1]]
  BY <1>1 DEF give_block
<1>9. Len(kk.freeptr[d]) \in Nat /\ Len(fl) = Len(kk.freeptr[d]) + 1
  BY <1>2, <1>5
<1> HIDE DEF fl
<1>10. /\ r \in HeapT /\ r.free_desc = kk.free_desc /\ r.dir = kk.dir /\ r.page = kk.page
       /\ r.freeptr = [kk.freeptr EXCEPT ![d] = fl] /\ r.v_bit_map = kk.v_bit_map
       /\ r.refcnt = [kk.refcnt EXCEPT ![d] = kk.refcnt[d] - 1]
  <2> DEFINE rc == [kk.refcnt EXCEPT ![d] = kk.refcnt[d] - 1]
             fp == [kk.freeptr EXCEPT ![d] = fl]
  <2>1. rc \in [Desc -> Int] /\ fp \in [Desc -> Seq(Nat)]
    BY <1>2, <1>7
  <2> HIDE DEF rc, fp
  <2>2. r = [kk EXCEPT !.freeptr = fp, !.refcnt = rc]
    BY <1>8 DEF rc, fp
  <2>3. /\ r \in HeapT /\ r.free_desc = kk.free_desc /\ r.dir = kk.dir /\ r.page = kk.page
        /\ r.freeptr = fp /\ r.v_bit_map = kk.v_bit_map /\ r.refcnt = rc
    BY <1>1, <2>1, <2>2 DEF HeapT
  <2> QED
    BY <2>3 DEF rc, fp
<1>11. /\ r.freeptr[d] = fl /\ r.refcnt[d] = kk.refcnt[d] - 1 /\ kk.refcnt[d] \in Int
       /\ \A x \in Desc : x # d => r.refcnt[x] = kk.refcnt[x] /\ r.freeptr[x] = kk.freeptr[x]
  BY <1>2, <1>10
<1>12. \A x : (Chained(r, x) <=> Chained(kk, x)) /\ (Known(r, x) <=> Known(kk, x))
  BY <1>10 DEF Chained, Known
<1>13. \A g : (BucketPage(r, g) <=> BucketPage(kk, g)) /\ (DescPage(r, g) <=> DescPage(kk, g))
  BY <1>10, <1>12 DEF BucketPage, DescPage
<1>14. PageUse(r, P)
  BY <1>1, <1>10, <1>12, <1>13 DEF PageUse
<1>15. Lists(r)
  BY <1>1, <1>10 DEF Lists
<1> HIDE DEF X
<1>16. Kept(r, c, X)
  <2>1. IsFiniteSet(B[c]) /\ B[c] \subseteq KPage \X Nat
    BY <1>4 DEF Kept
  <2>2. IsFiniteSet(X) /\ X \subseteq KPage \X Nat
    BY <2>1, FS_RemoveElement DEF X
  <2>3. \A y \in X : \E x \in Desc : Has(r.dir[c], x) /\ r.page[x] = y[1]
    BY <1>4, <1>10 DEF Kept, X
  <2>4. Bucket(r, PerPage[c], X, d)
    <3>1. InPage(r, X, d) = InPage(kk, B[c], d) \ {b}
      BY <1>10 DEF InPage, X
    <3>2. IsFiniteSet(InPage(kk, B[c], d)) /\ Cardinality(InPage(kk, B[c], d)) \in Nat
      BY <2>1, FS_Subset, FS_CardinalityType DEF InPage
    <3>3. Cardinality(InPage(r, X, d)) = Cardinality(InPage(kk, B[c], d)) - 1
      <4> DEFINE S == InPage(kk, B[c], d)
      <4>1. IsFiniteSet(S) /\ b \in S
        BY <3>2, <1>5
      <4> HIDE DEF S
      <4>2. Cardinality(S \ {b}) = Cardinality(S) - 1
        BY <4>1, FS_RemoveElement
      <4> QED
        BY <3>1, <4>2 DEF S
    <3>4. /\ kk.refcnt[d] = Cardinality(InPage(kk, B[c], d)) /\ kk.refcnt[d] + Len(kk.freeptr[d]) = PerPage[c]
          /\ \A y \in InPage(kk, B[c], d) : ~Has(kk.freeptr[d], y[2])
      BY <1>4 DEF Bucket
    <3>5. ASSUME NEW y \in InPage(r, X, d) PROVE ~Has(r.freeptr[d], y[2])
      <4>1. y \in B[c] /\ y # b /\ y[1] = b[1] /\ y \in InPage(kk, B[c], d)
        BY <3>1 DEF InPage
      <4>2. y = <<y[1], y[2]>>
        BY <4>1, <2>1
      <4>3. y[2] # b[2]
        BY <4>1, <4>2, <1>5
      <4> QED
        BY <3>4, <4>1, <4>3, <1>7, <1>11
    <3>6. r.refcnt[d] + Len(r.freeptr[d]) = PerPage[c]
      <4>1. r.refcnt[d] = kk.refcnt[d] - 1 /\ Len(r.freeptr[d]) = Len(kk.freeptr[d]) + 1
        BY <1>9, <1>11
      <4>2. kk.refcnt[d] \in Int /\ Len(kk.freeptr[d]) \in Nat
        BY <1>9, <1>11
      <4> QED
        BY <3>4, <4>1, <4>2, SMTT(30)
    <3> QED
      BY <3>3, <3>4, <3>5, <3>6, <1>7, <1>11 DEF Bucket
  <2>5. ASSUME NEW x \in Desc, Has(r.dir[c], x), x # d PROVE Bucket(r, PerPage[c], X, x)
    <3>1. Bucket(kk, PerPage[c], B[c], x) /\ Chained(kk, x)
      BY <2>5, <1>4, <1>10 DEF Kept, Chained
    <3>2. kk.page[x] # kk.page[d]
      BY <2>5, <3>1, <1>1, <1>3 DEF PageUse
    <3>3. InPage(r, X, x) = InPage(kk, B[c], x)
      BY <3>2, <1>10 DEF InPage, X
    <3> QED
      BY <2>5, <3>1, <3>3, <1>11 DEF Bucket
  <2> QED
    BY <2>2, <2>3, <2>4, <2>5 DEF Kept
<1>17. ASSUME NEW e \in Class, e # c PROVE Kept(r, e, B[e])
  <2>1. Kept(kk, e, B[e])
    BY <1>1
  <2>2. \A x \in Desc : Has(kk.dir[e], x) => x # d
    BY <1>1, <1>17 DEF Lists
  <2>3. \A x \in Desc : Has(r.dir[e], x) => Bucket(r, PerPage[e], B[e], x)
    <3> SUFFICES ASSUME NEW x \in Desc, Has(r.dir[e], x) PROVE Bucket(r, PerPage[e], B[e], x)
      OBVIOUS
    <3>1. Bucket(kk, PerPage[e], B[e], x) /\ x # d
      BY <2>1, <2>2, <1>10 DEF Kept
    <3> QED
      BY <3>1, <1>10, <1>11, OtherBucket
  <2> QED
    BY <2>1, <2>3, <1>10 DEF Kept
<1>18. Good(r, P, With(B, c, X))
  BY <1>10, <1>14, <1>15, <1>16, <1>17 DEF Good, With
<1> QED
  BY <1>10, <1>18 DEF X

\* A list without its i-th member.
LEMMA RemoveAtOnce ==
  ASSUME NEW S, NEW s \in Seq(S), Once(s), NEW i \in 1 .. Len(s)
  PROVE  /\ RemoveAt(s, i) \in Seq(S) /\ Once(RemoveAt(s, i))
         /\ \A x : Has(RemoveAt(s, i), x) <=> Has(s, x) /\ x # s[i]
<1> DEFINE t == RemoveAt(s, i)
           n == Len(s)
<1>1. n \in Nat /\ i \in 1 .. n
  OBVIOUS
<1>2. t \in Seq(S) /\ Len(t) = n - 1 /\ \A j \in 1 .. n - 1 : t[j] = IF j < i THEN s[j] ELSE s[j + 1]
  BY RemoveAtFacts
<1> HIDE DEF t, n
<1>3. \A j, l \in 1 .. n : s[j] = s[l] => j = l
  BY DEF Once, n
<1>4. Once(t)
  <2> SUFFICES ASSUME NEW j \in 1 .. n - 1, NEW l \in 1 .. n - 1, t[j] = t[l] PROVE j = l
    BY <1>2 DEF Once
  <2> DEFINE a == IF j < i THEN j ELSE j + 1
             b == IF l < i THEN l ELSE l + 1
  <2>1. a \in 1 .. n /\ b \in 1 .. n /\ (a = b => j = l)
    BY <1>1
  <2>2. t[j] = s[a] /\ t[l] = s[b]
    BY <1>2
  <2> HIDE DEF a, b
  <2> QED
    BY <1>3, <2>1, <2>2
<1>5. ASSUME NEW x, Has(t, x) PROVE Has(s, x) /\ x # s[i]
  <2>1. PICK j \in 1 .. n - 1 : t[j] = x
    BY <1>2, <1>5 DEF Has
  <2> DEFINE a == IF j < i THEN j ELSE j + 1
  <2>2. a \in 1 .. n /\ a # i
    BY <1>1
  <2>3. x = s[a]
    BY <1>2, <2>1
  <2> HIDE DEF a
  <2> QED
    BY <1>1, <1>3, <2>2, <2>3 DEF Has, n
<1>6. ASSUME NEW x, Has(s, x), x # s[i] PROVE Has(t, x)
  <2>1. PICK j \in 1 .. n : s[j] = x
    BY <1>6 DEF Has, n
  <2> DEFINE a == IF j < i THEN j ELSE j - 1
  <2>2. j # i
    BY <1>6, <2>1
  <2>3. a \in 1 .. n - 1 /\ j = (IF a < i THEN a ELSE a + 1)
    BY <1>1, <2>2
  <2>4. t[a] = x
    <3> HIDE DEF a
    <3>1. t[a] = IF a < i THEN s[a] ELSE s[a + 1]
      BY <1>2, <2>3
    <3> QED
      BY <2>1, <2>3, <3>1
  <2> HIDE DEF a
  <2> QED
    BY <1>2, <2>3, <2>4 DEF Has
<1> QED
  BY <1>2, <1>4, <1>5, <1>6 DEF t
\* A bucket without blocks in use gives its page back, and its descriptor is free.
LEMMA DropBucket ==
  ASSUME NEW kk, NEW P, NEW B, Good(kk, P, B), NEW c \in Class, NEW i \in 1 .. Len(kk.dir[c]),
         kk.refcnt[kk.dir[c][i]] = 0, NEW r, r = drop_bucket(kk, c, i)
  PROVE  Good(r, P, B)
<1> DEFINE d == kk.dir[c][i]
           g == kk.page[d]
           bm == bitmap_set(kk.v_bit_map, g, FALSE)
           chain == RemoveAt(kk.dir[c], i)
           fd == <<d>> \o kk.free_desc
           dr == [kk.dir EXCEPT ![c] = chain]
<1>1. /\ PageUse(kk, P) /\ Lists(kk) /\ kk \in HeapT /\ P \subseteq KPage /\ kk.halt = "no"
      /\ \A e \in Class : Kept(kk, e, B[e])
  BY DEF Good, PageUse, HeapT
<1>2. /\ kk.free_desc \in Seq(Desc) /\ Once(kk.free_desc) /\ kk.dir \in [Class -> Seq(Desc)]
      /\ kk.dir[c] \in Seq(Desc) /\ Once(kk.dir[c]) /\ kk.v_bit_map \in BitmapT
  BY <1>1 DEF HeapT, Lists
<1>3. d \in Desc /\ Has(kk.dir[c], d)
  BY <1>2 DEF Has
<1>4. Chained(kk, d) /\ g \in KPage /\ ~DescPage(kk, g) /\ BucketPage(kk, g) /\ g \in kk.v_bit_map.bits
  BY <1>1, <1>3 DEF Chained, PageUse, BucketPage
<1>5. g \notin P
  BY <1>1, <1>4 DEF PageUse
<1>6. chain \in Seq(Desc) /\ Once(chain) /\ \A x : Has(chain, x) <=> Has(kk.dir[c], x) /\ x # d
  BY <1>2, RemoveAtOnce
<1>7. ~Has(kk.free_desc, d)
  BY <1>1, <1>3 DEF Lists
<1>8. fd \in Seq(Desc) /\ Once(fd) /\ \A x : Has(fd, x) <=> x = d \/ Has(kk.free_desc, x)
  BY <1>2, <1>3, <1>7, ConsFacts
<1>9. bm \in BitmapT /\ bm.bits = kk.v_bit_map.bits \ {g}
  BY <1>2 DEF bitmap_set, BitmapT
<1>10. free_kpage(kk, g) = [kk EXCEPT !.v_bit_map = bm]
  BY <1>1, <1>4 DEF free_kpage, bitmap_test
<1>11. r = [kk EXCEPT !.v_bit_map = bm, !.dir = dr, !.free_desc = fd]
  <2>1. r = [[kk EXCEPT !.v_bit_map = bm] EXCEPT !.dir[c] = RemoveAt(@, i), !.free_desc = <<d>> \o @]
    BY <1>10 DEF drop_bucket
  <2> HIDE DEF bm
  <2> QED
    BY <1>1, <2>1 DEF HeapT
<1>12. dr \in [Class -> Seq(Desc)]
  BY <1>2, <1>6
<1>13. dr[c] = chain /\ \A e \in Class : e # c => dr[e] = kk.dir[e]
  BY <1>2
<1> HIDE DEF bm, chain, fd, dr, d, g
<1>14. /\ r \in HeapT /\ r.v_bit_map = bm /\ r.dir = dr /\ r.free_desc = fd /\ r.page = kk.page
       /\ r.refcnt = kk.refcnt /\ r.freeptr = kk.freeptr
  BY <1>1, <1>8, <1>9, <1>11, <1>12 DEF HeapT
<1>15. \A e \in Class, x \in Desc : Has(r.dir[e], x) <=> Has(kk.dir[e], x) /\ x # d
  <2>1. \A e \in Class : e # c => ~Has(kk.dir[e], d)
    BY <1>1, <1>3 DEF Lists
  <2> QED
    BY <2>1, <1>6, <1>13, <1>14
<1>16. \A x \in Desc : (Chained(r, x) <=> Chained(kk, x) /\ x # d) /\ (Known(r, x) <=> Known(kk, x))
  BY <1>4, <1>8, <1>14, <1>15 DEF Chained, Known
<1>17. \A x : DescPage(r, x) <=> DescPage(kk, x)
  BY <1>16, DescPagesOf
<1>18. \A x \in Desc : Chained(kk, x) /\ kk.page[x] = g => x = d
  BY <1>1, <1>3, <1>4 DEF PageUse, g
<1>19. \A x : BucketPage(r, x) <=> BucketPage(kk, x) /\ x # g
  <2>1. kk.page[d] = g
    BY DEF g
  <2> QED
    BY <2>1, <1>14, <1>16, <1>18 DEF BucketPage
<1>20. PageUse(r, P)
  <2>1. \A x \in KPage : x \in r.v_bit_map.bits <=> x \in P \/ BucketPage(r, x) \/ DescPage(r, x)
    BY <1>1, <1>4, <1>5, <1>9, <1>14, <1>17, <1>19 DEF PageUse
  <2>2. \A x \in P : ~BucketPage(r, x) /\ ~DescPage(r, x)
    BY <1>1, <1>17, <1>19 DEF PageUse
  <2>3. \A x \in Desc : Chained(r, x) => r.page[x] \in KPage /\ ~DescPage(r, r.page[x])
    BY <1>1, <1>14, <1>16, <1>17 DEF PageUse
  <2>4. \A x, e \in Desc : Chained(r, x) /\ Chained(r, e) /\ r.page[x] = r.page[e] => x = e
    BY <1>1, <1>14, <1>16 DEF PageUse
  <2> QED
    BY <1>1, <2>1, <2>2, <2>3, <2>4 DEF PageUse
<1>21. Lists(r)
  <2>1. \A e \in Class : Once(r.dir[e])
    BY <1>1, <1>6, <1>13, <1>14 DEF Lists
  <2>2. \A e \in Class, x \in Desc : Has(r.dir[e], x) => ~Has(r.free_desc, x)
    BY <1>1, <1>8, <1>14, <1>15 DEF Lists
  <2>3. \A e, f \in Class, x \in Desc : Has(r.dir[e], x) /\ Has(r.dir[f], x) => e = f
    BY <1>1, <1>15 DEF Lists
  <2> QED
    BY <1>8, <1>14, <2>1, <2>2, <2>3 DEF Lists
<1>22. ASSUME NEW e \in Class PROVE Kept(r, e, B[e])
  <2>1. Kept(kk, e, B[e])
    BY <1>1
  <2>2. ASSUME NEW b \in B[e] PROVE \E x \in Desc : Has(r.dir[e], x) /\ r.page[x] = b[1]
    <3>1. PICK x \in Desc : Has(kk.dir[e], x) /\ kk.page[x] = b[1]
      BY <2>1 DEF Kept
    <3>2. x # d
      <4> SUFFICES ASSUME x = d PROVE FALSE
        OBVIOUS
      <4>1. Bucket(kk, PerPage[e], B[e], d) /\ kk.refcnt[d] = 0
        BY <2>1, <3>1 DEF Kept, d
      <4>2. IsFiniteSet(InPage(kk, B[e], d))
        BY <2>1, FS_Subset DEF InPage, Kept
      <4>3. InPage(kk, B[e], d) = {}
        BY <4>1, <4>2, FS_EmptySet DEF Bucket
      <4> QED
        BY <3>1, <4>3 DEF InPage
    <3> QED
      BY <3>1, <3>2, <1>14, <1>15
  <2>3. ASSUME NEW x \in Desc, Has(r.dir[e], x) PROVE Bucket(r, PerPage[e], B[e], x)
    <3>1. Bucket(kk, PerPage[e], B[e], x)
      BY <2>1, <2>3, <1>15 DEF Kept
    <3> QED
      BY <3>1, <1>14, OtherBucket
  <2> QED
    BY <2>1, <2>2, <2>3 DEF Kept
<1> QED
  BY <1>14, <1>20, <1>21, <1>22 DEF Good

\* A chain is no longer than there are descriptors.
LEMMA ChainLength ==
  ASSUME NEW s \in Seq(Desc), Once(s)
  PROVE  Len(s) <= Cardinality(Desc) /\ Cardinality(Desc) \in Nat
<1>1. IsFiniteSet(Desc)
  <2>1. IsFiniteSet(1 .. KPages) /\ IsFiniteSet(1 .. DescPerPage)
    BY HeapAssumption, FS_Interval
  <2> QED
    BY <2>1, FS_Product DEF Desc, KPage
<1>2. Len(s) \in Nat /\ s \in [1 .. Len(s) -> Desc]
  OBVIOUS
<1>3. s \in Injection(1 .. Len(s), Desc)
  BY <1>2 DEF Injection, Once, IsInjective
<1>4. Cardinality(1 .. Len(s)) <= Cardinality(Desc)
  BY <1>1, <1>3, FS_Injection
<1>5. Cardinality(1 .. Len(s)) = Len(s)
  BY <1>2, FS_Interval, SMTT(30)
<1>6. Cardinality(Desc) \in Nat
  BY <1>1, FS_CardinalityType
<1> QED
  BY <1>4, <1>5, <1>6

\* free_s of a block in use.
LEMMA FreeBlock ==
  ASSUME NEW kk, NEW P, NEW B, Good(kk, P, B), NEW c \in Class, NEW b \in B[c],
         NEW r, r = free_s(kk, b)
  PROVE  Good(r, P, With(B, c, B[c] \ {b}))
<1> DEFINE at == CHOOSE x \in Holding(kk, b) : TRUE
           m == give_block(kk, kk.dir[at[1]][at[2]], b)
<1>1. /\ PageUse(kk, P) /\ Lists(kk) /\ kk \in HeapT /\ kk.halt = "no" /\ Kept(kk, c, B[c])
      /\ kk.dir \in [Class -> Seq(Desc)]
  BY DEF Good, HeapT
<1>2. PICK d \in Desc : Has(kk.dir[c], d) /\ kk.page[d] = b[1]
  BY <1>1 DEF Kept
<1>3. PICK j \in 1 .. Len(kk.dir[c]) : kk.dir[c][j] = d
  BY <1>2 DEF Has
<1>4. <<c, j>> \in Holding(kk, b)
  <2>1. Len(kk.dir[c]) <= Cardinality(Desc) /\ Len(kk.dir[c]) \in Nat /\ Cardinality(Desc) \in Nat
    BY <1>1, ChainLength DEF Lists
  <2>2. j \in 1 .. Cardinality(Desc) /\ j <= Len(kk.dir[c])
    BY <2>1
  <2> QED
    BY <2>2, <1>2, <1>3 DEF Holding
<1>5. at \in Holding(kk, b)
  BY <1>4
<1> HIDE DEF at
<1>6. /\ at[1] \in Class /\ at[2] \in 1 .. Len(kk.dir[at[1]]) /\ kk.page[kk.dir[at[1]][at[2]]] = b[1]
  BY <1>1, <1>5 DEF Holding
<1>7. kk.dir[at[1]][at[2]] \in Desc /\ Has(kk.dir[at[1]], kk.dir[at[1]][at[2]])
  BY <1>1, <1>6 DEF Has
<1>8. Chained(kk, d) /\ Chained(kk, kk.dir[at[1]][at[2]])
  BY <1>2, <1>6, <1>7 DEF Chained
<1>9. kk.dir[at[1]][at[2]] = d
  BY <1>1, <1>2, <1>6, <1>7, <1>8 DEF PageUse
<1>10. at[1] = c
  BY <1>1, <1>2, <1>6, <1>7, <1>9 DEF Lists
<1>11. r = release_if_free(m, c, at[2]) /\ m = give_block(kk, d, b)
  BY <1>1, <1>4, <1>9, <1>10 DEF free_s, at
<1>12. Good(m, P, With(B, c, B[c] \ {b})) /\ m.dir = kk.dir
  BY <1>2, <1>11, GiveBlock
<1> HIDE DEF m
<1>13. CASE all_free(m, m.dir[c][at[2]])
  <2>1. r = drop_bucket(m, c, at[2]) /\ m.refcnt[m.dir[c][at[2]]] = 0
    BY <1>11, <1>13 DEF release_if_free, all_free
  <2>2. at[2] \in 1 .. Len(m.dir[c])
    BY <1>6, <1>10, <1>12
  <2> QED
    BY <1>12, <2>1, <2>2, DropBucket
<1>14. CASE ~all_free(m, m.dir[c][at[2]])
  BY <1>11, <1>12, <1>14 DEF release_if_free
<1> QED
  BY <1>13, <1>14

\* alloc_used: a page nobody has, or a stop.
LEMMA UsedFacts ==
  ASSUME NEW kk, NEW P, NEW B, Good(kk, P, B), NEW r, r = alloc_used(kk)
  PROVE  \/ r.halt = "page zero"
         \/ /\ r.halt = "no" /\ r.ret[1] \notin P
            /\ Good(r, P \cup {r.ret[1]}, B)
<1> DEFINE a == alloc_kpage(kk, 1)
<1>1. /\ a \in HeapT /\ SameHeap(kk, a)
      /\ \/ a.ret = <<0, 0>> /\ Good(a, P, B)
         \/ /\ a.ret[1] \in KPage /\ a.ret # <<0, 0>> /\ a.ret[1] \notin kk.v_bit_map.bits
            /\ Good(a, P \cup {a.ret[1]}, B)
  BY AllocFacts
<1>2. r = NotNull(a, "page zero")
  BY DEF alloc_used
<1> HIDE DEF a
<1>3. a.halt = "no"
  BY <1>1 DEF HeapT
<1>4. CASE a.ret = <<0, 0>>
  BY <1>1, <1>2, <1>3, <1>4 DEF NotNull, Stop, HeapT
<1>5. CASE a.ret # <<0, 0>>
  <2>1. r = a
    BY <1>2, <1>5 DEF NotNull
  <2> QED
    BY <1>1, <1>3, <1>5, <2>1, ClearPage
<1> QED
  BY <1>4, <1>5

-----------------------------------------------------------------------------
(* The pages and blocks of processes *)

Busy(pr) == {q \in Proc : pr[q].state # "none"}

\* Stacks until waitpid, page directories and bit maps until exit.
Held(pr) ==
  {pr[q].tcb : q \in Busy(pr)} \cup {pr[q].vmap : q \in Living(pr)} \cup {pr[q].pde : q \in Living(pr)}

\* List nodes until waitpid, maps and paths until exit.
Blocks(pr) ==
  [c \in Class |-> CASE c = "node" -> {pr[q].node : q \in Busy(pr)}
                     [] c = "map" -> {pr[q].map : q \in Living(pr)}
                     [] c = "pwd" -> {pr[q].pwd : q \in Living(pr)}
                     [] OTHER -> {}]

\* No two processes have the same page or block, and no page serves twice.
Distinct(pr) ==
  /\ \A p, q \in Busy(pr) : p # q => pr[p].tcb # pr[q].tcb /\ pr[p].node # pr[q].node
  /\ \A p, q \in Living(pr) :
       p # q => /\ pr[p].vmap # pr[q].vmap /\ pr[p].pde # pr[q].pde
                /\ pr[p].map # pr[q].map /\ pr[p].pwd # pr[q].pwd
  /\ \A p, q \in Living(pr) : pr[p].vmap # pr[q].pde
  /\ \A p \in Busy(pr), q \in Living(pr) : pr[p].tcb # pr[q].vmap /\ pr[p].tcb # pr[q].pde

Owned(kk, pr) == Good(kk, Held(pr), Blocks(pr)) /\ Distinct(pr)

\* The heap's part of the inductive invariant.
HInv == k.halt # "empty bucket" /\ (Running => Owned(k, proc))

\* Process q has in qr what it has in pr.
SameThings(pr, qr, q) ==
  /\ qr[q].state = pr[q].state /\ qr[q].tcb = pr[q].tcb /\ qr[q].node = pr[q].node
  /\ qr[q].vmap = pr[q].vmap /\ qr[q].pde = pr[q].pde /\ qr[q].map = pr[q].map
  /\ qr[q].pwd = pr[q].pwd

\* Good looks at the classes there are.
LEMMA GoodExt ==
  ASSUME NEW kk, NEW P, NEW B, NEW Q, NEW C, Good(kk, P, B), Q = P, \A c \in Class : C[c] = B[c]
  PROVE  Good(kk, Q, C)
BY DEF Good

\* Blocks come from classes and whole pages do not.
LEMMA ClassFacts ==
  /\ "node" \in Class /\ "map" \in Class /\ "pwd" \in Class
  /\ "tcb" \notin Class /\ "vmap" \notin Class /\ "pde" \notin Class
BY MemoryAssumption

\* The blocks of each class that processes have.
LEMMA BlocksOf ==
  ASSUME NEW pr
  PROVE  /\ Blocks(pr)["node"] = {pr[q].node : q \in Busy(pr)}
         /\ Blocks(pr)["map"] = {pr[q].map : q \in Living(pr)}
         /\ Blocks(pr)["pwd"] = {pr[q].pwd : q \in Living(pr)}
         /\ \A c \in Class : c \notin {"node", "map", "pwd"} => Blocks(pr)[c] = {}
BY ClassFacts DEF Blocks

\* Steps that leave pages and blocks alone.
LEMMA SameOwned ==
  ASSUME NEW kk, NEW pr, NEW qr, Owned(kk, pr), \A q \in Proc : SameThings(pr, qr, q)
  PROVE  Owned(kk, qr)
<1>1. Busy(qr) = Busy(pr) /\ Living(qr) = Living(pr)
  BY DEF Busy, Living, SameThings
<1>2. /\ \A q \in Busy(pr) : qr[q].tcb = pr[q].tcb /\ qr[q].node = pr[q].node
      /\ \A q \in Living(pr) : /\ qr[q].vmap = pr[q].vmap /\ qr[q].pde = pr[q].pde
                               /\ qr[q].map = pr[q].map /\ qr[q].pwd = pr[q].pwd
  BY DEF Busy, Living, SameThings
<1>3. Held(qr) = Held(pr)
  BY <1>1, <1>2 DEF Held
<1>4. \A c \in Class : Blocks(qr)[c] = Blocks(pr)[c]
  <2>1. /\ Blocks(qr)["node"] = Blocks(pr)["node"] /\ Blocks(qr)["map"] = Blocks(pr)["map"]
        /\ Blocks(qr)["pwd"] = Blocks(pr)["pwd"]
    <3>1. {qr[q].node : q \in Busy(qr)} = {pr[q].node : q \in Busy(pr)}
      BY <1>1, <1>2
    <3>2. {qr[q].map : q \in Living(qr)} = {pr[q].map : q \in Living(pr)}
      BY <1>1, <1>2
    <3>3. {qr[q].pwd : q \in Living(qr)} = {pr[q].pwd : q \in Living(pr)}
      BY <1>1, <1>2
    <3> QED
      BY <3>1, <3>2, <3>3, BlocksOf
  <2> QED
    BY <2>1, BlocksOf
<1>5. Distinct(qr)
  <2>1. Distinct(pr)
    BY DEF Owned
  <2> QED
    BY <1>1, <1>2, <2>1 DEF Distinct
<1> QED
  BY <1>3, <1>4, <1>5, GoodExt DEF Owned

-----------------------------------------------------------------------------
(* What a new process gets *)

IsOwn(own) == own = [x \in Fields |-> own[x]]
SameBut(own, new, f) == \A x \in Fields \ {f} : new[x] = own[x]

\* The kernel has stopped for want of pages, or P and B are in use.
Obtained(kk, P, B) ==
  \/ kk.halt \in {"page zero", "out of memory"}
  \/ kk.halt = "no" /\ Good(kk, P, B)

\* A new process obtains a page nobody has.
LEMMA ObtainPage ==
  ASSUME NEW made, NEW P, NEW B, Obtained(made.k, P, B), IsOwn(made.own), NEW f \in Fields, f \notin Class,
         NEW r, r = Obtain(made, f)
  PROVE  /\ IsOwn(r.own) /\ SameBut(made.own, r.own, f)
         /\ Obtained(r.k, P \cup {r.own[f]}, B)
         /\ r.k.halt = "no" => made.k.halt = "no" /\ r.own[f] \notin P
<1> DEFINE a == alloc_used(made.k)
           n == a.ret[1]
<1>1. r = [k |-> a, own |-> [made.own EXCEPT ![f] = n]]
  BY ONLY f \notin Class, r = Obtain(made, f) DEF Obtain, Got
<1>2. r.k = a /\ r.own = [made.own EXCEPT ![f] = n]
  BY <1>1
<1> HIDE DEF n
<1>3. IsOwn(r.own) /\ r.own[f] = n /\ SameBut(made.own, r.own, f)
  BY <1>2 DEF IsOwn, SameBut
<1>4. CASE made.k.halt # "no"
  <2>1. a = made.k
    BY <1>4 DEF alloc_used, alloc_kpage, NotNull
  <2> QED
    BY <1>2, <1>3, <1>4, <2>1 DEF Obtained
<1>5. CASE made.k.halt = "no"
  <2>1. Good(made.k, P, B)
    BY <1>5 DEF Obtained
  <2>2. \/ a.halt = "page zero"
        \/ a.halt = "no" /\ a.ret[1] \notin P /\ Good(a, P \cup {a.ret[1]}, B)
    BY <2>1, UsedFacts
  <2> HIDE DEF a
  <2>3. r.own[f] = a.ret[1]
    BY <1>3 DEF n
  <2> QED
    BY <1>2, <1>3, <1>5, <2>2, <2>3 DEF Obtained
<1> HIDE DEF a
<1> QED
  BY <1>4, <1>5, ZenonT(40)

\* A new process obtains a block nobody has.
LEMMA ObtainBlock ==
  ASSUME NEW made, NEW P, NEW B, Obtained(made.k, P, B), IsOwn(made.own), NEW f \in Fields, f \in Class,
         NEW r, r = Obtain(made, f)
  PROVE  /\ IsOwn(r.own) /\ SameBut(made.own, r.own, f)
         /\ Obtained(r.k, P, With(B, f, B[f] \cup {r.own[f]}))
         /\ r.k.halt = "no" => made.k.halt = "no" /\ r.own[f] \notin B[f]
<1> DEFINE a == malloc(made.k, f)
           n == a.ret
<1>1. r = [k |-> a, own |-> [made.own EXCEPT ![f] = n]]
  BY ONLY f \in Class, r = Obtain(made, f) DEF Obtain, Got
<1>2. r.k = a /\ r.own = [made.own EXCEPT ![f] = n]
  BY <1>1
<1> HIDE DEF n
<1>3. IsOwn(r.own) /\ r.own[f] = n /\ SameBut(made.own, r.own, f)
  BY <1>2 DEF IsOwn, SameBut
<1>4. CASE made.k.halt # "no"
  <2>1. a = made.k
    BY <1>4 DEF malloc
  <2> QED
    BY <1>2, <1>3, <1>4, <2>1 DEF Obtained
<1>5. CASE made.k.halt = "no"
  <2>1. Good(made.k, P, B)
    BY <1>5 DEF Obtained
  <2>2. \/ a.halt = "out of memory"
        \/ a.halt = "no" /\ a.ret \notin B[f] /\ Good(a, P, With(B, f, B[f] \cup {a.ret}))
    BY <2>1, MallocFacts
  <2> HIDE DEF a
  <2>3. r.own[f] = a.ret
    BY <1>3 DEF n
  <2> QED
    BY <1>2, <1>3, <1>5, <2>2, <2>3 DEF Obtained
<1> HIDE DEF a
<1> QED
  BY <1>4, <1>5, ZenonT(40)

\* The blocks in use with those of a new process.
Added(B, o) == [c \in Class |-> IF c \in {"node", "map", "pwd"} THEN B[c] \cup {o[c]} ELSE B[c]]

\* get_task and task_create or fork: the pages and blocks of a new process are
\* nobody else's, or the kernel has stopped for want of pages.
LEMMA ObtainAllFacts ==
  ASSUME NEW kk, NEW P, NEW B, Good(kk, P, B), NEW made, made = ObtainAll(kk), NEW o, o = made.own
  PROVE  \/ made.k.halt \in {"page zero", "out of memory"}
         \/ /\ made.k.halt = "no"
            /\ o.tcb \notin P /\ o.vmap \notin P \cup {o.tcb} /\ o.pde \notin P \cup {o.tcb, o.vmap}
            /\ o.node \notin B["node"] /\ o.map \notin B["map"] /\ o.pwd \notin B["pwd"]
            /\ Good(made.k, P \cup {o.tcb, o.vmap, o.pde}, Added(B, o))
<1> DEFINE m0 == [k |-> kk, own |-> NoProc]
           m1 == Obtain(m0, "tcb")
           m2 == Obtain(m1, "node")
           m3 == Obtain(m2, "pwd")
           m4 == Obtain(m3, "map")
           m5 == Obtain(m4, "vmap")
           P1 == P \cup {m1.own["tcb"]}
           B2 == With(B, "node", B["node"] \cup {m2.own["node"]})
           B3 == With(B2, "pwd", B2["pwd"] \cup {m3.own["pwd"]})
           B4 == With(B3, "map", B3["map"] \cup {m4.own["map"]})
           P5 == P1 \cup {m5.own["vmap"]}
           P6 == P5 \cup {o["pde"]}
<1>0. made = Obtain(m5, "pde")
  BY DEF ObtainAll
<1>1. Obtained(m0.k, P, B) /\ IsOwn(m0.own)
  BY NoProcFacts DEF Obtained, IsOwn, Good, HeapT
<1>2. \A f \in {"tcb", "vmap", "pde", "node", "map", "pwd"} : f \in Fields
  BY DEF Fields
<1> HIDE DEF m0
<1>3. /\ IsOwn(m1.own) /\ Obtained(m1.k, P1, B)
      /\ m1.k.halt = "no" => m1.own["tcb"] \notin P
  BY <1>1, <1>2, ClassFacts, ObtainPage
<1> HIDE DEF m1, P1
<1>4. /\ IsOwn(m2.own) /\ Obtained(m2.k, P1, B2) /\ SameBut(m1.own, m2.own, "node")
      /\ m2.k.halt = "no" => m1.k.halt = "no" /\ m2.own["node"] \notin B["node"]
  BY <1>2, <1>3, ClassFacts, ObtainBlock
<1> HIDE DEF m2, B2
<1>5. /\ IsOwn(m3.own) /\ Obtained(m3.k, P1, B3) /\ SameBut(m2.own, m3.own, "pwd")
      /\ m3.k.halt = "no" => m2.k.halt = "no" /\ m3.own["pwd"] \notin B2["pwd"]
  BY <1>2, <1>4, ClassFacts, ObtainBlock
<1> HIDE DEF m3, B3
<1>6. /\ IsOwn(m4.own) /\ Obtained(m4.k, P1, B4) /\ SameBut(m3.own, m4.own, "map")
      /\ m4.k.halt = "no" => m3.k.halt = "no" /\ m4.own["map"] \notin B3["map"]
  BY <1>2, <1>5, ClassFacts, ObtainBlock
<1> HIDE DEF m4, B4
<1>7. /\ IsOwn(m5.own) /\ Obtained(m5.k, P5, B4) /\ SameBut(m4.own, m5.own, "vmap")
      /\ m5.k.halt = "no" => m4.k.halt = "no" /\ m5.own["vmap"] \notin P1
  BY <1>2, <1>6, ClassFacts, ObtainPage
<1> HIDE DEF m5, P5
<1>8. /\ Obtained(made.k, P6, B4) /\ SameBut(m5.own, o, "pde")
      /\ made.k.halt = "no" => m5.k.halt = "no" /\ o["pde"] \notin P5
  BY <1>0, <1>2, <1>7, ClassFacts, ObtainPage
<1> HIDE DEF P6
<1>9. CASE made.k.halt # "no"
  BY <1>8, <1>9 DEF Obtained
<1>10. CASE made.k.halt = "no"
  <2>1. /\ o.tcb = m1.own["tcb"] /\ o.node = m2.own["node"] /\ o.pwd = m3.own["pwd"]
        /\ o.map = m4.own["map"] /\ o.vmap = m5.own["vmap"]
    BY <1>4, <1>5, <1>6, <1>7, <1>8 DEF Fields, SameBut
  <2>2. P1 = P \cup {o.tcb} /\ P5 = P \cup {o.tcb, o.vmap} /\ P6 = P \cup {o.tcb, o.vmap, o.pde}
    BY <2>1 DEF P1, P5, P6
  <2>3. o.tcb \notin P /\ o.vmap \notin P1 /\ o.pde \notin P5
    BY <1>3, <1>4, <1>5, <1>6, <1>7, <1>8, <1>10, <2>1
  <2>4. o.node \notin B["node"] /\ o.pwd \notin B2["pwd"] /\ o.map \notin B3["map"]
    BY <1>3, <1>4, <1>5, <1>6, <1>7, <1>8, <1>10, <2>1
  <2>5. B2["pwd"] = B["pwd"] /\ B3["map"] = B["map"]
    BY ClassFacts DEF B2, B3, With
  <2>6. \A c \in Class : B4[c] = IF c \in {"node", "map", "pwd"} THEN B[c] \cup {o[c]} ELSE B[c]
    BY <2>1, ClassFacts DEF B2, B3, B4, With
  <2>7. Good(made.k, P6, B4)
    BY <1>8, <1>10 DEF Obtained
  <2>8. \A c \in Class : Added(B, o)[c] = B4[c]
    BY <2>6 DEF Added
  <2>9. Good(made.k, P \cup {o.tcb, o.vmap, o.pde}, Added(B, o))
    BY <2>2, <2>7, <2>8, GoodExt
  <2> QED
    BY <1>10, <2>2, <2>3, <2>4, <2>5, <2>9
<1> QED
  BY <1>9, <1>10
\* The process of slot c comes to own what made has.
NewOwner(pr, qr, c, o) ==
  /\ pr[c].state = "none" /\ \A q \in Proc \ {c} : SameThings(pr, qr, q)
  /\ qr[c].state = "alive" /\ qr[c].tcb = o.tcb /\ qr[c].vmap = o.vmap /\ qr[c].pde = o.pde
  /\ qr[c].node = o.node /\ qr[c].map = o.map /\ qr[c].pwd = o.pwd

\* A process that has obtained all it needs shares nothing.
LEMMA CreateOwned ==
  ASSUME NEW kk, NEW pr, Owned(kk, pr), NEW c \in Proc, NEW made, made = ObtainAll(kk),
         made.k.halt = "no", NEW qr, NewOwner(pr, qr, c, made.own)
  PROVE  Owned(made.k, qr)
<1> DEFINE o == made.own
           P == Held(pr)
           B == Blocks(pr)
           C == Added(B, o)
<1>1. /\ o.tcb \notin P /\ o.vmap \notin P \cup {o.tcb} /\ o.pde \notin P \cup {o.tcb, o.vmap}
      /\ o.node \notin B["node"] /\ o.map \notin B["map"] /\ o.pwd \notin B["pwd"]
      /\ Good(made.k, P \cup {o.tcb, o.vmap, o.pde}, C)
  <2>1. Good(kk, P, B)
    BY DEF Owned
  <2> HIDE DEF P, B
  <2> QED
    BY <2>1, ObtainAllFacts
<1>2. /\ C["node"] = B["node"] \cup {o.node} /\ C["map"] = B["map"] \cup {o.map}
      /\ C["pwd"] = B["pwd"] \cup {o.pwd}
      /\ \A e \in Class : e \notin {"node", "map", "pwd"} => C[e] = B[e]
  BY ClassFacts DEF Added
<1>3. /\ Busy(qr) = Busy(pr) \cup {c} /\ c \notin Busy(pr)
      /\ Living(qr) = Living(pr) \cup {c} /\ c \notin Living(pr) /\ Living(pr) \subseteq Busy(pr)
  BY DEF NewOwner, SameThings, Busy, Living
<1>4. /\ \A q \in Busy(pr) : qr[q].tcb = pr[q].tcb /\ qr[q].node = pr[q].node
      /\ \A q \in Living(pr) : /\ qr[q].vmap = pr[q].vmap /\ qr[q].pde = pr[q].pde
                               /\ qr[q].map = pr[q].map /\ qr[q].pwd = pr[q].pwd
  BY <1>3 DEF Busy, Living, NewOwner, SameThings
<1>5. /\ qr[c].tcb = o.tcb /\ qr[c].vmap = o.vmap /\ qr[c].pde = o.pde
      /\ qr[c].node = o.node /\ qr[c].map = o.map /\ qr[c].pwd = o.pwd
  BY DEF NewOwner
<1> HIDE DEF C
<1>6. Held(qr) = P \cup {o.tcb, o.vmap, o.pde}
  <2>1. {qr[q].tcb : q \in Busy(qr)} = {pr[q].tcb : q \in Busy(pr)} \cup {o.tcb}
    BY <1>3, <1>4, <1>5
  <2>2. {qr[q].vmap : q \in Living(qr)} = {pr[q].vmap : q \in Living(pr)} \cup {o.vmap}
    BY <1>3, <1>4, <1>5
  <2>3. {qr[q].pde : q \in Living(qr)} = {pr[q].pde : q \in Living(pr)} \cup {o.pde}
    BY <1>3, <1>4, <1>5
  <2> QED
    BY <2>1, <2>2, <2>3 DEF Held
<1>7. \A e \in Class : Blocks(qr)[e] = C[e]
  <2>1. {qr[q].node : q \in Busy(qr)} = {pr[q].node : q \in Busy(pr)} \cup {o.node}
    BY <1>3, <1>4, <1>5
  <2>2. {qr[q].map : q \in Living(qr)} = {pr[q].map : q \in Living(pr)} \cup {o.map}
    BY <1>3, <1>4, <1>5
  <2>3. {qr[q].pwd : q \in Living(qr)} = {pr[q].pwd : q \in Living(pr)} \cup {o.pwd}
    BY <1>3, <1>4, <1>5
  <2>4. Blocks(qr)["node"] = C["node"] /\ Blocks(qr)["map"] = C["map"] /\ Blocks(qr)["pwd"] = C["pwd"]
    BY <1>2, <2>1, <2>2, <2>3, BlocksOf
  <2>5. \A e \in {"node", "map", "pwd"} : Blocks(qr)[e] = C[e]
    BY <2>4
  <2>6. \A e \in Class : e \notin {"node", "map", "pwd"} => Blocks(qr)[e] = {} /\ C[e] = {}
    BY <1>2, BlocksOf
  <2> QED
    BY <2>5, <2>6
<1>8. Good(made.k, Held(qr), Blocks(qr))
  BY <1>1, <1>6, <1>7, GoodExt
<1>9. /\ \A q \in Busy(pr) : pr[q].tcb \in P /\ pr[q].node \in B["node"]
      /\ \A q \in Living(pr) : /\ pr[q].vmap \in P /\ pr[q].pde \in P
                               /\ pr[q].map \in B["map"] /\ pr[q].pwd \in B["pwd"]
  BY BlocksOf DEF Held
<1>10. Distinct(qr)
  <2>1. Distinct(pr)
    BY DEF Owned
  <2> HIDE DEF P, B, o
  <2>2. /\ \A q \in Busy(pr) : /\ qr[q].tcb # o.tcb /\ qr[q].tcb # o.vmap /\ qr[q].tcb # o.pde
                               /\ qr[q].node # o.node
        /\ \A q \in Living(pr) : /\ qr[q].vmap # o.tcb /\ qr[q].vmap # o.vmap /\ qr[q].vmap # o.pde
                                 /\ qr[q].pde # o.tcb /\ qr[q].pde # o.vmap /\ qr[q].pde # o.pde
                                 /\ qr[q].map # o.map /\ qr[q].pwd # o.pwd
        /\ o.tcb # o.vmap /\ o.tcb # o.pde /\ o.vmap # o.pde
    BY <1>1, <1>4, <1>9
  <2>3. \A p, q \in Busy(qr) : p # q => qr[p].tcb # qr[q].tcb /\ qr[p].node # qr[q].node
    BY <1>3, <1>4, <1>5, <2>1, <2>2 DEF Distinct
  <2>4. \A p, q \in Living(qr) : p # q => qr[p].vmap # qr[q].vmap /\ qr[p].pde # qr[q].pde
    BY <1>3, <1>4, <1>5, <2>1, <2>2 DEF Distinct
  <2>5. \A p, q \in Living(qr) : p # q => qr[p].map # qr[q].map /\ qr[p].pwd # qr[q].pwd
    BY <1>3, <1>4, <1>5, <2>1, <2>2 DEF Distinct
  <2>6. \A p, q \in Living(qr) : qr[p].vmap # qr[q].pde
    BY <1>3, <1>4, <1>5, <2>1, <2>2 DEF Distinct
  <2>7. \A p \in Busy(qr), q \in Living(qr) : qr[p].tcb # qr[q].vmap /\ qr[p].tcb # qr[q].pde
    BY <1>3, <1>4, <1>5, <2>1, <2>2 DEF Distinct
  <2> QED
    BY <2>3, <2>4, <2>5, <2>6, <2>7 DEF Distinct
<1> QED
  BY <1>8, <1>10 DEF Owned

-----------------------------------------------------------------------------
(* What exit and waitpid give back *)

\* A process that has exited keeps its stack and its list node.
Exited(pr, qr, p) ==
  /\ pr[p].state = "alive" /\ \A q \in Proc \ {p} : SameThings(pr, qr, q)
  /\ qr[p].state = "died" /\ qr[p].tcb = pr[p].tcb /\ qr[p].node = pr[p].node

\* sys_exit gives back what a dead process does not need.
LEMMA ReleaseOwned ==
  ASSUME Owned(k, proc), NEW p \in Proc, NEW kk, kk = ReleaseKernel(p),
         NEW qr, Exited(proc, qr, p)
  PROVE  Owned(kk, qr)
<1> DEFINE o == proc[p]
           P == Held(proc)
           B == Blocks(proc)
           k1 == free_kpage(k, o.vmap)
           P1 == P \ {o.vmap}
           k2 == free_s(k1, o.map)
           B2 == With(B, "map", B["map"] \ {o.map})
           k3 == free_s(k2, o.pwd)
           B3 == With(B2, "pwd", B2["pwd"] \ {o.pwd})
<1>1. Good(k, P, B) /\ Distinct(proc)
  BY DEF Owned
<1>2. p \in Living(proc) /\ p \in Busy(proc) /\ Living(proc) \subseteq Busy(proc)
  BY DEF Exited, Living, Busy
<1>3. o.vmap \in P /\ o.pde \in P /\ o.map \in B["map"] /\ o.pwd \in B["pwd"]
  BY <1>2, BlocksOf DEF Held
<1>4. o.pde # o.vmap
  BY <1>1, <1>2 DEF Distinct
<1>5. kk = free_kpage(k3, o.pde)
  BY DEF ReleaseKernel
<1> HIDE DEF P, B
<1>6. Good(k1, P1, B)
  BY <1>1, <1>3, FreePage
<1> HIDE DEF k1, P1
<1>7. Good(k2, P1, B2)
  BY <1>3, <1>6, ClassFacts, FreeBlock
<1> HIDE DEF k2
<1>8. B2["pwd"] = B["pwd"]
  BY ClassFacts DEF With
<1> HIDE DEF B2
<1>9. Good(k3, P1, B3)
  BY <1>3, <1>7, <1>8, ClassFacts, FreeBlock
<1> HIDE DEF k3, B3
<1>10. o.pde \in P1
  BY <1>3, <1>4 DEF P1
<1>11. Good(kk, P1 \ {o.pde}, B3)
  BY <1>5, <1>9, <1>10, FreePage
<1>12. /\ B3["node"] = B["node"] /\ B3["map"] = B["map"] \ {o.map} /\ B3["pwd"] = B["pwd"] \ {o.pwd}
       /\ \A e \in Class : e \notin {"node", "map", "pwd"} => B3[e] = B[e]
  BY ClassFacts DEF B2, B3, With
<1>13. Busy(qr) = Busy(proc) /\ Living(qr) = Living(proc) \ {p}
  BY DEF Exited, SameThings, Busy, Living
<1>14. /\ \A q \in Busy(proc) : qr[q].tcb = proc[q].tcb /\ qr[q].node = proc[q].node
       /\ \A q \in Living(proc) \ {p} : /\ qr[q].vmap = proc[q].vmap /\ qr[q].pde = proc[q].pde
                                        /\ qr[q].map = proc[q].map /\ qr[q].pwd = proc[q].pwd
  BY DEF Busy, Living, Exited, SameThings
<1>15. /\ \A q \in Living(proc) \ {p} : /\ proc[q].vmap # o.vmap /\ proc[q].pde # o.pde
                                        /\ proc[q].map # o.map /\ proc[q].pwd # o.pwd
       /\ \A q \in Living(proc) : proc[q].vmap # o.pde /\ proc[q].pde # o.vmap
       /\ \A q \in Busy(proc) : proc[q].tcb # o.vmap /\ proc[q].tcb # o.pde
  BY <1>1, <1>2 DEF Distinct
<1>16. Held(qr) = P1 \ {o.pde}
  <2>1. {qr[q].tcb : q \in Busy(qr)} = {proc[q].tcb : q \in Busy(proc)}
    BY <1>13, <1>14
  <2>2. {qr[q].vmap : q \in Living(qr)} = {proc[q].vmap : q \in Living(proc)} \ {o.vmap}
    BY <1>2, <1>13, <1>14, <1>15
  <2>3. {qr[q].pde : q \in Living(qr)} = {proc[q].pde : q \in Living(proc)} \ {o.pde}
    BY <1>2, <1>13, <1>14, <1>15
  <2>4. o.vmap \notin {proc[q].tcb : q \in Busy(proc)} /\ o.pde \notin {proc[q].tcb : q \in Busy(proc)}
    BY <1>15
  <2>5. o.vmap \notin {proc[q].pde : q \in Living(proc)} /\ o.pde \notin {proc[q].vmap : q \in Living(proc)}
    BY <1>15
  <2> QED
    BY <2>1, <2>2, <2>3, <2>4, <2>5 DEF Held, P, P1
<1>17. \A e \in Class : Blocks(qr)[e] = B3[e]
  <2>1. {qr[q].node : q \in Busy(qr)} = {proc[q].node : q \in Busy(proc)}
    BY <1>13, <1>14
  <2>2. {qr[q].map : q \in Living(qr)} = {proc[q].map : q \in Living(proc)} \ {o.map}
    BY <1>2, <1>13, <1>14, <1>15
  <2>3. {qr[q].pwd : q \in Living(qr)} = {proc[q].pwd : q \in Living(proc)} \ {o.pwd}
    BY <1>2, <1>13, <1>14, <1>15
  <2>4. Blocks(qr)["node"] = B3["node"] /\ Blocks(qr)["map"] = B3["map"] /\ Blocks(qr)["pwd"] = B3["pwd"]
    BY <1>12, <2>1, <2>2, <2>3, BlocksOf, ZenonT(40) DEF B
  <2>5. \A e \in {"node", "map", "pwd"} : Blocks(qr)[e] = B3[e]
    BY <2>4
  <2>6. \A e \in Class : e \notin {"node", "map", "pwd"} => Blocks(qr)[e] = {} /\ B3[e] = {}
    BY <1>12, BlocksOf DEF B
  <2> QED
    BY <2>5, <2>6
<1>18. Good(kk, Held(qr), Blocks(qr))
  BY <1>11, <1>16, <1>17, GoodExt
<1>19. Distinct(qr)
  BY <1>1, <1>13, <1>14 DEF Distinct
<1> QED
  BY <1>18, <1>19 DEF Owned

\* The slot of a process that has exited is free again.
Reaped(pr, qr, c) ==
  pr[c].state = "died" /\ qr[c].state = "none" /\ \A q \in Proc \ {c} : SameThings(pr, qr, q)

\* sys_waitpid gives back the rest.
LEMMA ReapOwned ==
  ASSUME Owned(k, proc), NEW c \in Proc, NEW kk,
         kk = free_s(free_kpage(k, proc[c].tcb), proc[c].node), NEW qr, Reaped(proc, qr, c)
  PROVE  Owned(kk, qr)
<1> DEFINE o == proc[c]
           P == Held(proc)
           B == Blocks(proc)
           k1 == free_kpage(k, o.tcb)
           P1 == P \ {o.tcb}
           B2 == With(B, "node", B["node"] \ {o.node})
<1>1. Good(k, P, B) /\ Distinct(proc)
  BY DEF Owned
<1>2. c \in Busy(proc) /\ c \notin Living(proc) /\ Living(proc) \subseteq Busy(proc)
  BY DEF Reaped, Living, Busy
<1>3. o.tcb \in P /\ o.node \in B["node"]
  BY <1>2, BlocksOf DEF Held
<1>4. kk = free_s(k1, o.node)
  OBVIOUS
<1> HIDE DEF P, B
<1>5. Good(k1, P1, B)
  BY <1>1, <1>3, FreePage
<1> HIDE DEF k1, P1
<1>6. Good(kk, P1, B2)
  BY <1>3, <1>4, <1>5, ClassFacts, FreeBlock
<1>7. /\ B2["node"] = B["node"] \ {o.node} /\ B2["map"] = B["map"] /\ B2["pwd"] = B["pwd"]
      /\ \A e \in Class : e \notin {"node", "map", "pwd"} => B2[e] = B[e]
  BY ClassFacts DEF With
<1> HIDE DEF B2
<1>8. Busy(qr) = Busy(proc) \ {c} /\ Living(qr) = Living(proc)
  BY DEF Reaped, SameThings, Busy, Living
<1>9. /\ \A q \in Busy(proc) \ {c} : qr[q].tcb = proc[q].tcb /\ qr[q].node = proc[q].node
      /\ \A q \in Living(proc) : /\ qr[q].vmap = proc[q].vmap /\ qr[q].pde = proc[q].pde
                                 /\ qr[q].map = proc[q].map /\ qr[q].pwd = proc[q].pwd
  BY <1>2 DEF Busy, Living, Reaped, SameThings
<1>10. /\ \A q \in Busy(proc) \ {c} : proc[q].tcb # o.tcb /\ proc[q].node # o.node
       /\ \A q \in Living(proc) : proc[q].vmap # o.tcb /\ proc[q].pde # o.tcb
  BY <1>1, <1>2 DEF Distinct
<1>11. Held(qr) = P1
  <2>1. {qr[q].tcb : q \in Busy(qr)} = {proc[q].tcb : q \in Busy(proc)} \ {o.tcb}
    BY <1>2, <1>8, <1>9, <1>10
  <2>2. {qr[q].vmap : q \in Living(qr)} = {proc[q].vmap : q \in Living(proc)}
    BY <1>8, <1>9
  <2>3. {qr[q].pde : q \in Living(qr)} = {proc[q].pde : q \in Living(proc)}
    BY <1>8, <1>9
  <2>4. o.tcb \notin {proc[q].vmap : q \in Living(proc)} /\ o.tcb \notin {proc[q].pde : q \in Living(proc)}
    BY <1>10
  <2> QED
    BY <2>1, <2>2, <2>3, <2>4 DEF Held, P, P1
<1>12. \A e \in Class : Blocks(qr)[e] = B2[e]
  <2>1. {qr[q].node : q \in Busy(qr)} = {proc[q].node : q \in Busy(proc)} \ {o.node}
    BY <1>2, <1>8, <1>9, <1>10
  <2>2. {qr[q].map : q \in Living(qr)} = {proc[q].map : q \in Living(proc)}
    BY <1>8, <1>9
  <2>3. {qr[q].pwd : q \in Living(qr)} = {proc[q].pwd : q \in Living(proc)}
    BY <1>8, <1>9
  <2>4. Blocks(qr)["node"] = B2["node"] /\ Blocks(qr)["map"] = B2["map"] /\ Blocks(qr)["pwd"] = B2["pwd"]
    BY <1>7, <2>1, <2>2, <2>3, BlocksOf, ZenonT(40) DEF B
  <2> QED
    BY <1>7, <2>4, BlocksOf, ZenonT(40) DEF B
<1>13. Good(kk, Held(qr), Blocks(qr))
  BY <1>6, <1>11, <1>12, GoodExt
<1>14. Distinct(qr)
  BY <1>1, <1>2, <1>8, <1>9 DEF Distinct
<1> QED
  BY <1>13, <1>14 DEF Owned
-----------------------------------------------------------------------------
(* Every step keeps pages and blocks in order *)

\* A page table or entries change, and nothing else of any process.
LEMMA SpacesOnly ==
  ASSUME NEW pr, Records(pr), NEW p \in Proc, NEW f \in {"table", "entry"}, NEW y,
         NEW qr, qr = [pr EXCEPT ![p][f] = y]
  PROVE  \A q \in Proc : SameThings(pr, qr, q)
<1>1. pr = [q \in Proc |-> pr[q]] /\ pr[p] = [x \in Fields |-> pr[p][x]]
  BY DEF Records
<1>2. \A q \in Proc \ {p} : qr[q] = pr[q]
  BY <1>1
<1>3. qr[p] = [pr[p] EXCEPT ![f] = y]
  BY <1>1
<1>4. \A x \in Fields \ {f} : qr[p][x] = pr[p][x]
  BY <1>1, <1>3
<1>5. SameThings(pr, qr, p)
  BY <1>4 DEF Fields, SameThings
<1> QED
  BY <1>2, <1>5 DEF SameThings

\* A page table is nothing of the heap.
LEMMA TableOnly ==
  ASSUME NEW pr, Records(pr), NEW p \in Proc, NEW t, NEW qr, qr = PutTable(pr, p, t)
  PROVE  \A q \in Proc : SameThings(pr, qr, q)
BY SpacesOnly DEF PutTable

\* Entries are nothing of the heap.
LEMMA EntriesOnly ==
  ASSUME NEW pr, Records(pr), NEW p \in Proc, NEW es, NEW qr, qr = PutEntries(pr, p, es)
  PROVE  \A q \in Proc : SameThings(pr, qr, q)
BY SpacesOnly DEF PutEntries

\* An entry is nothing of the heap.
LEMMA EntryOnly ==
  ASSUME NEW pr, Records(pr), NEW p \in Proc, NEW v, NEW e, NEW qr, qr = PutEntry(pr, p, v, e)
  PROVE  \A q \in Proc : SameThings(pr, qr, q)
<1> DEFINE es == [pr[p].entry EXCEPT ![v] = e]
<1>1. pr = [q \in Proc |-> pr[q]] /\ pr[p] = [x \in Fields |-> pr[p][x]]
  BY DEF Records
<1>2. qr = PutEntries(pr, p, es)
  BY DEF PutEntries, PutEntry
<1> HIDE DEF es
<1> QED
  BY <1>2, EntriesOnly

\* The kernel stops, and not for an empty bucket.
LEMMA HeapHalt ==
  ASSUME HInv, Running, NEW why, why \notin {"no", "empty bucket"}, Halt(why)
  PROVE  HInv'
<1>1. k \in HeapT
  BY DEF HInv, Owned, Good
<1>2. k' = [k EXCEPT !.halt = why]
  BY DEF Halt, Stop
<1>3. k'.halt = why
  BY <1>1, <1>2 DEF HeapT
<1> QED
  BY <1>3 DEF HInv, Running

\* A step of the running kernel that does not touch the heap.
LEMMA HeapKept ==
  ASSUME HInv, UNCHANGED k, \A q \in Proc : SameThings(proc, proc', q)
  PROVE  HInv'
<1>1. Running' <=> Running
  BY DEF Running
<1>2. Owned(k, proc) => Owned(k, proc')
  BY SameOwned
<1> QED
  BY <1>1, <1>2 DEF HInv

\* Why frames stop the kernel.
LEMMA StopsFor ==
  ASSUME NEW ph, NEW n
  PROVE  OutOfFrames(ph, n) \in {"no", "out of memory", "no frame returned"}
BY DEF OutOfFrames

\* A fault on a page that is absent takes nothing from the heap.
LEMMA FaultAbsentHeap ==
  ASSUME IInv, HInv, NEW p \in Proc, NEW v \in StackPage, FaultAbsent(p, v)
  PROVE  HInv'
<1> DEFINE ph == Physical
           t == IF proc[p].table = NoFrame THEN get_p_page(ph) ELSE proc[p].table
           u == IF proc[p].table = NoFrame THEN Taken(ph) ELSE ph
           n == IF proc[p].table = NoFrame THEN 2 ELSE 1
           pr == PutTable(proc, p, t)
           g == get_p_page(u)
           l == link_page(p, v)
           stop == OutOfFrames(ph, n)
<1>1. /\ Running
      /\ (l.stop # "no" /\ Halt(l.stop)) \/ (l.stop = "no" /\ proc' = l.proc /\ k' = k)
  <2>1. Running
    BY DEF FaultAbsent
  <2>2. (l.stop # "no" /\ Halt(l.stop)) \/ (l.stop = "no" /\ proc' = l.proc /\ k' = k)
    BY DEF FaultAbsent
  <2> QED
    BY <2>1, <2>2
<1>2. l = IF stop # "no" THEN [stop |-> stop]
          ELSE [stop |-> "no", ph |-> Taken(u), index |-> g,
                proc |-> [proc EXCEPT ![p].table = t, ![p].entry[v] = entry_init(g)]]
  BY DEF link_page
<1>3. stop \in {"no", "out of memory", "no frame returned"}
  BY StopsFor
<1>4. Records(proc)
  BY DEF IInv
<1> HIDE DEF l, stop
<1>5. CASE l.stop # "no"
  <2>1. l.stop \notin {"no", "empty bucket"}
    BY <1>2, <1>3, <1>5
  <2> QED
    BY <1>1, <1>5, <2>1, HeapHalt
<1>6. CASE l.stop = "no"
  <2> DEFINE e == entry_init(g)
  <2>1. stop = "no"
    BY <1>2, <1>6
  <2>2. l.proc = [proc EXCEPT ![p].table = t, ![p].entry[v] = e]
    <3> HIDE DEF u, t, g, e
    <3>1. l = [stop |-> "no", ph |-> Taken(u), index |-> g,
               proc |-> [proc EXCEPT ![p].table = t, ![p].entry[v] = e]]
      BY <1>2, <2>1 DEF e
    <3> QED
      BY <3>1
  <2> HIDE DEF t, u, g, e
  <2>3. l.proc = PutEntry(pr, p, v, e)
    BY <2>2 DEF PutEntry, PutTable
  <2>4. Records(pr) /\ \A q \in Proc : SameThings(proc, pr, q)
    BY <1>4, SetTable, TableOnly
  <2> HIDE DEF pr
  <2>5. \A q \in Proc : SameThings(pr, l.proc, q)
    BY <2>3, <2>4, EntryOnly
  <2>6. \A q \in Proc : SameThings(proc, proc', q)
    BY <1>1, <1>6, <2>4, <2>5 DEF SameThings
  <2> QED
    BY <1>1, <1>6, <2>6, HeapKept
<1> QED
  BY <1>5, <1>6

\* A fault on a page that is shared takes nothing from the heap.
LEMMA FaultWriteHeap ==
  ASSUME IInv, HInv, NEW p \in Proc, NEW v \in StackPage, FaultWrite(p, v)
  PROVE  HInv'
<1> DEFINE f == proc[p].entry[v].index
           ph == [Physical EXCEPT !.count[f] = @ - 1]
           e == entry_init(get_p_page(ph))
           stop == OutOfFrames(ph, 1)
<1>1. /\ Running
      /\ \/ proc' = [proc EXCEPT ![p].entry[v].write = TRUE] /\ UNCHANGED k
         \/ stop # "no" /\ Halt(stop)
         \/ proc' = [proc EXCEPT ![p].entry[v] = e] /\ UNCHANGED k
  BY DEF FaultWrite
<1>2. Records(proc) /\ stop \in {"no", "out of memory", "no frame returned"}
  BY StopsFor DEF IInv
<1> HIDE DEF stop, e
<1>3. CASE stop # "no" /\ Halt(stop)
  BY <1>1, <1>2, <1>3, HeapHalt
<1>4. CASE proc' = [proc EXCEPT ![p].entry[v].write = TRUE] /\ UNCHANGED k
  <2> DEFINE w == [proc[p].entry[v] EXCEPT !.write = TRUE]
  <2>1. proc' = PutEntry(proc, p, v, w)
    BY <1>4 DEF PutEntry
  <2> HIDE DEF w
  <2> QED
    BY <1>2, <1>4, <2>1, EntryOnly, HeapKept
<1>5. CASE proc' = [proc EXCEPT ![p].entry[v] = e] /\ UNCHANGED k
  <2>1. proc' = PutEntry(proc, p, v, e)
    BY <1>5 DEF PutEntry
  <2> QED
    BY <1>2, <1>5, <2>1, EntryOnly, HeapKept
<1> QED
  BY <1>1, <1>3, <1>4, <1>5, SMTT(30)

\* sys_waitpid.
LEMMA WaitpidHeap ==
  ASSUME IInv, HInv, NEW p \in Proc, NEW c \in Proc, NEW v \in StackPage, NEW x \in Value,
         sys_waitpid(p, c, v, x)
  PROVE  HInv'
<1>1. /\ Running /\ proc[c].state = "died" /\ proc' = [proc EXCEPT ![c] = NoProc]
      /\ k' = free_s(free_kpage(k, proc[c].tcb), proc[c].node)
  BY DEF sys_waitpid
<1>2. proc = [q \in Proc |-> proc[q]]
  BY DEF IInv, Records
<1>3. proc'[c] = NoProc /\ \A q \in Proc \ {c} : proc'[q] = proc[q]
  BY <1>1, <1>2
<1>4. Reaped(proc, proc', c)
  BY <1>1, <1>3, NoProcFacts DEF Reaped, SameThings
<1>5. Owned(k, proc)
  BY <1>1 DEF HInv
<1>6. Owned(k', proc')
  BY <1>1, <1>4, <1>5, ReapOwned
<1>7. k'.halt = "no"
  BY <1>6 DEF Owned, Good, HeapT
<1> QED
  BY <1>6, <1>7 DEF HInv

\* sys_exit.
LEMMA ExitHeap ==
  ASSUME IInv, HInv, NEW p \in Proc, sys_exit(p)
  PROVE  HInv'
<1> DEFINE d == free_pde(p)
           kk == ReleaseKernel(p)
           qr == [q \in Proc |->
                CASE q = p -> Died(proc[p])
                  [] q # p /\ proc[q].ppid = p -> [proc[q] EXCEPT !.ppid = proc[p].ppid]
                  [] OTHER -> proc[q]]
<1>1. /\ Running /\ Alive(p)
      /\ \/ d.stop # "no" /\ Halt(d.stop)
         \/ kk.halt # "no" /\ Halt(kk.halt)
         \/ proc' = qr /\ k' = kk
  BY DEF sys_exit
<1>2. d.stop \in {"no", "free_p_page"}
  BY DEF free_pde
<1>3. Records(proc) /\ \A q \in Proc : proc[q] = [x \in Fields |-> proc[q][x]]
  BY DEF IInv, Records
<1>4. Exited(proc, qr, p)
  <2>1. qr[p] = Died(proc[p])
    OBVIOUS
  <2>2. qr[p].state = "died" /\ qr[p].tcb = proc[p].tcb /\ qr[p].node = proc[p].node
    BY <2>1 DEF Died, NoProc
  <2>3. ASSUME NEW q \in Proc \ {p} PROVE SameThings(proc, qr, q)
    <3>1. CASE proc[q].ppid = p
      <4>1. qr[q] = [proc[q] EXCEPT !.ppid = proc[p].ppid]
        BY <3>1
      <4> HIDE DEF qr
      <4>2. \A x \in Fields \ {"ppid"} : qr[q][x] = proc[q][x]
        BY <1>3, <4>1
      <4> QED
        BY <4>2 DEF Fields, SameThings
    <3>2. CASE proc[q].ppid # p
      <4>1. qr[q] = proc[q]
        BY <3>2
      <4> QED
        BY <4>1 DEF SameThings
    <3> QED
      BY <3>1, <3>2
  <2> HIDE DEF qr
  <2> QED
    BY <1>1, <2>2, <2>3 DEF Exited, Alive
<1>5. Owned(k, proc)
  BY <1>1 DEF HInv
<1> HIDE DEF qr, d
<1>6. Owned(kk, qr)
  BY <1>4, <1>5, ReleaseOwned
<1> HIDE DEF kk
<1>7. kk.halt = "no"
  BY <1>6 DEF Owned, Good, HeapT
<1>8. CASE d.stop # "no" /\ Halt(d.stop)
  BY <1>1, <1>2, <1>8, HeapHalt
<1>9. CASE proc' = qr /\ k' = kk
  BY <1>6, <1>7, <1>9 DEF HInv
<1> QED
  BY <1>1, <1>7, <1>8, <1>9

\* sys_fork.
LEMMA ForkHeap ==
  ASSUME IInv, HInv, NEW p \in Proc, sys_fork(p)
  PROVE  HInv'
<1> DEFINE made == ObtainAll(k)
           d == copy_pde(p)
           c == Min({q \in Proc : proc[q].state = "none"})
<1>1. /\ Running /\ Alive(p)
      /\ \/ Halt("no more task")
         \/ made.k.halt # "no" /\ Halt(made.k.halt)
         \/ d.stop # "no" /\ Halt(d.stop)
         \/ made.k.halt = "no" /\ ForkDone(p, made, d) /\ \E q \in Proc : proc[q].state = "none"
  BY DEF sys_fork
<1>2. Records(proc) /\ Owned(k, proc) /\ Good(k, Held(proc), Blocks(proc))
  BY <1>1 DEF IInv, HInv, Owned
<1>3. made.k.halt \in {"no", "page zero", "out of memory"}
  BY <1>2, ObtainAllFacts
<1>4. d.stop \in {"no", "out of memory", "no frame returned"}
  BY StopsFor DEF copy_pde
<1>5. CASE ForkDone(p, made, d) /\ made.k.halt = "no" /\ \E q \in Proc : proc[q].state = "none"
  <2>1. c \in Proc /\ proc[c].state = "none" /\ c # p
    BY <1>1, <1>5, FreeSlot DEF Alive
  <2> DEFINE own == made.own
             es == d.entry
             new == Created(own, p, d)
             r == PutEntries(proc, p, es)
  <2>2. proc' = [r EXCEPT ![c] = new] /\ k' = made.k
    BY <1>5 DEF ForkDone, PutEntries
  <2> HIDE DEF own, c, made, d
  <2>3. /\ new.state = "alive" /\ new.tcb = own.tcb /\ new.vmap = own.vmap /\ new.pde = own.pde
        /\ new.node = own.node /\ new.map = own.map /\ new.pwd = own.pwd
    BY DEF Created
  <2> HIDE DEF new, es
  <2>4. Records(r) /\ \A q \in Proc : SameThings(proc, r, q)
    BY <1>2, SetEntries, EntriesOnly
  <2> HIDE DEF r
  <2>5. proc'[c] = new /\ \A q \in Proc \ {c} : proc'[q] = r[q]
    BY <2>1, <2>2, <2>4 DEF Records
  <2>6. NewOwner(proc, proc', c, own)
    BY <2>1, <2>3, <2>4, <2>5 DEF NewOwner, SameThings
  <2>7. Owned(made.k, proc')
    BY <1>2, <1>5, <2>1, <2>6, CreateOwned DEF own, made
  <2> QED
    BY <1>5, <2>2, <2>7 DEF HInv
<1> HIDE DEF made, d
<1> QED
  BY <1>1, <1>3, <1>4, <1>5, HeapHalt

\* Before the first process nothing is in use.
LEMMA EmptyHeap ==
  Owned(heap_init, [q \in Proc |-> NoProc])
<1> DEFINE pr == [q \in Proc |-> NoProc]
<1>1. Busy(pr) = {} /\ Living(pr) = {}
  BY NoProcFacts DEF Busy, Living
<1> HIDE DEF pr
<1>2. Held(pr) = {} /\ \A c \in Class : Blocks(pr)[c] = {}
  BY <1>1 DEF Held, Blocks
<1>3. Distinct(pr)
  BY <1>1 DEF Distinct
<1>4. /\ heap_init.v_bit_map = bitmap_init(KPages, 1) /\ heap_init.dir = [c \in Class |-> <<>>]
      /\ heap_init.free_desc = <<>>
  BY DEF heap_init
<1>5. heap_init \in HeapT
  <2>1. bitmap_init(KPages, 1) \in BitmapT
    BY DEF bitmap_init, BitmapT
  <2>2. <<0, 0>> \in Nat \X Nat /\ [d \in Desc |-> 0] \in [Desc -> Nat] /\ [d \in Desc |-> 0] \in [Desc -> Int]
    OBVIOUS
  <2>3. /\ [c \in Class |-> <<>>] \in [Class -> Seq(Desc)] /\ [d \in Desc |-> <<>>] \in [Desc -> Seq(Nat)]
        /\ <<>> \in Seq(Desc)
    OBVIOUS
  <2> QED
    BY <2>1, <2>2, <2>3 DEF heap_init, HeapT
<1>6. \A d : ~Has(<<>>, d)
  BY DEF Has
<1>7. \A c \in Class : \A d : ~Has(heap_init.dir[c], d)
  BY <1>4, <1>6
<1>8. \A d : ~Chained(heap_init, d) /\ ~Known(heap_init, d)
  BY <1>4, <1>6, <1>7 DEF Chained, Known
<1>9. \A g : ~BucketPage(heap_init, g) /\ ~DescPage(heap_init, g)
  BY <1>8 DEF BucketPage, DescPage
<1>10. PageUse(heap_init, {})
  BY <1>4, <1>8, <1>9 DEF PageUse, bitmap_init
<1>11. Lists(heap_init)
  BY <1>4, <1>6, <1>7 DEF Lists, Once
<1>12. \A c \in Class : Kept(heap_init, c, {})
  BY <1>7, FS_EmptySet DEF Kept
<1>13. Good(heap_init, Held(pr), Blocks(pr))
  BY <1>2, <1>5, <1>10, <1>11, <1>12 DEF Good
<1> QED
  BY <1>3, <1>13 DEF Owned, pr

\* The heap after heap_init and the first process.
LEMMA InitHeap == Init => HInv
<1> SUFFICES ASSUME Init PROVE HInv
  OBVIOUS
<1> DEFINE pr == [q \in Proc |-> NoProc]
           made == ObtainAll(heap_init)
           new == Created(made.own, 0, NoProc)
<1>1. k = made.k /\ proc = [p \in Proc |-> IF p = 1 THEN new ELSE NoProc]
  BY DEF Init, First
<1>2. Owned(heap_init, pr)
  BY EmptyHeap
<1>3. 1 \in Proc /\ pr[1].state = "none" /\ \A q \in Proc : pr[q] = NoProc
  BY MemoryAssumption, NoProcFacts DEF Proc
<1> HIDE DEF pr, made
<1>4. NewOwner(pr, proc, 1, made.own)
  <2>1. /\ new.state = "alive" /\ new.tcb = made.own.tcb /\ new.vmap = made.own.vmap
        /\ new.pde = made.own.pde /\ new.node = made.own.node /\ new.map = made.own.map
        /\ new.pwd = made.own.pwd
    BY DEF Created
  <2> HIDE DEF new
  <2>2. proc[1] = new /\ \A q \in Proc \ {1} : proc[q] = pr[q]
    BY <1>1, <1>3
  <2> QED
    BY <1>3, <2>1, <2>2 DEF NewOwner, SameThings
<1>5. made.k.halt \in {"no", "page zero", "out of memory"}
  BY <1>2, ObtainAllFacts DEF Owned, made
<1>6. made.k.halt = "no" => Owned(made.k, proc)
  BY <1>2, <1>3, <1>4, CreateOwned DEF made
<1> QED
  BY <1>1, <1>5, <1>6 DEF HInv, Running

\* Every step keeps the heap in order.
LEMMA NextHeap == IInv /\ HInv /\ [Next]_vars => HInv'
<1> SUFFICES ASSUME IInv, HInv, [Next]_vars PROVE HInv'
  OBVIOUS
<1>1. CASE Stopped \/ UNCHANGED vars
  BY <1>1 DEF Stopped, vars, HInv, Running
<1>2. ASSUME NEW p \in Proc, FaultOutside(p) \/ sys_brk(p) PROVE HInv'
  <2>1. Running /\ \E why \in {"page fault", "vmap", "out of memory", "unlink_page"} : Halt(why)
    BY <1>2 DEF FaultOutside, sys_brk
  <2> QED
    BY <2>1, HeapHalt
<1>3. ASSUME NEW p \in Proc, sys_fork(p) \/ sys_exit(p) PROVE HInv'
  BY <1>3, ForkHeap, ExitHeap
<1>4. ASSUME NEW p \in Proc, NEW v \in StackPage, FaultAbsent(p, v) \/ FaultWrite(p, v) PROVE HInv'
  BY <1>4, FaultAbsentHeap, FaultWriteHeap
<1>5. ASSUME NEW p \in Proc, NEW v \in StackPage, NEW x \in Value, UserStore(p, v, x) \/ SysResult(p, v, x)
      PROVE  HInv'
  BY <1>5 DEF UserStore, SysResult, HInv, Running
<1>6. ASSUME NEW p \in Proc, NEW c \in Proc, NEW v \in StackPage, NEW x \in Value, sys_waitpid(p, c, v, x)
      PROVE  HInv'
  BY <1>6, WaitpidHeap
<1> QED BY <1>1, <1>2, <1>3, <1>4, <1>5, <1>6 DEF Next
\* The invariant of the heap holds in every state: every page and block in use is
\* somebody's and nobody else's, through fork, exit and waitpid in any order and
\* wherever the kernel runs out of pages.
THEOREM HeapInOrder == Spec => []HInv
<1>1. Init => IInv /\ HInv
  BY InitHolds, InitHeap
<1>2. (IInv /\ HInv) /\ [Next]_vars => (IInv /\ HInv)'
  BY NextHolds, NextHeap
<1> QED BY <1>1, <1>2, PTL DEF Spec

\* The members of a list.
LEMMA MembersHas ==
  ASSUME NEW s, NEW d
  PROVE  d \in {s[i] : i \in 1 .. Len(s)} <=> Has(s, d)
BY DEF Has

\* The invariant says what HeapSafe does.
LEMMA InOrderMeansHeapSafe == HInv => HeapSafe
<1> SUFFICES ASSUME HInv PROVE HeapSafe
  OBVIOUS
<1>1. k.halt # "empty bucket"
  BY DEF HInv
<1> SUFFICES ASSUME Running, NEW c \in {"node", "map", "pwd"}
    PROVE  LET Chain == {k.dir[c][i] : i \in 1 .. Len(k.dir[c])}
               In(d) == {b \in LiveBlocks[c] : b[1] = k.page[d]}
           IN  /\ \A b \in LiveBlocks[c] : \E d \in Chain : k.page[d] = b[1]
               /\ \A d \in Chain :
                    /\ bitmap_test(k.v_bit_map, k.page[d])
                    /\ k.refcnt[d] = Cardinality(In(d))
                    /\ k.refcnt[d] + Len(k.freeptr[d]) = PerPage[c]
                    /\ \A b \in In(d) : \A i \in 1 .. Len(k.freeptr[d]) : k.freeptr[d][i] # b[2]
  BY <1>1 DEF HeapSafe
<1> DEFINE Chain == {k.dir[c][i] : i \in 1 .. Len(k.dir[c])}
           X == Blocks(proc)[c]
<1>2. Good(k, Held(proc), Blocks(proc)) /\ c \in Class
  BY ClassFacts DEF HInv, Owned
<1>3. k \in HeapT /\ PageUse(k, Held(proc)) /\ Kept(k, c, X) /\ k.dir \in [Class -> Seq(Desc)]
  BY <1>2 DEF Good, HeapT
<1>4. LiveBlocks[c] = X
  <2>1. {q \in Proc : Alive(q)} = Living(proc)
    BY DEF Living, Alive
  <2>2. /\ LiveBlocks["node"] = {proc[q].node : q \in Busy(proc)}
        /\ LiveBlocks["map"] = {proc[q].map : q \in {p \in Proc : Alive(p)}}
        /\ LiveBlocks["pwd"] = {proc[q].pwd : q \in {p \in Proc : Alive(p)}}
    BY DEF LiveBlocks, Busy
  <2>3. /\ LiveBlocks["node"] = Blocks(proc)["node"] /\ LiveBlocks["map"] = Blocks(proc)["map"]
        /\ LiveBlocks["pwd"] = Blocks(proc)["pwd"]
    BY <2>1, <2>2, BlocksOf
  <2> QED
    BY <2>3
<1> HIDE DEF X
<1>5. \A d : d \in Chain <=> Has(k.dir[c], d)
  BY MembersHas
<1>6. \A d \in Chain : d \in Desc
  BY <1>2, <1>3
<1> HIDE DEF Chain
<1>7. \A b \in X : \E d \in Chain : k.page[d] = b[1]
  BY <1>3, <1>5 DEF Kept
<1>8. ASSUME NEW d \in Chain
      PROVE  /\ bitmap_test(k.v_bit_map, k.page[d])
             /\ k.refcnt[d] = Cardinality({b \in X : b[1] = k.page[d]})
             /\ k.refcnt[d] + Len(k.freeptr[d]) = PerPage[c]
             /\ \A b \in {y \in X : y[1] = k.page[d]} :
                  \A i \in 1 .. Len(k.freeptr[d]) : k.freeptr[d][i] # b[2]
  <2>1. d \in Desc /\ Has(k.dir[c], d)
    BY <1>5, <1>6
  <2>2. Bucket(k, PerPage[c], X, d) /\ Chained(k, d)
    BY <1>2, <1>3, <2>1 DEF Kept, Chained
  <2>3. bitmap_test(k.v_bit_map, k.page[d])
    BY <1>3, <2>1, <2>2 DEF PageUse, BucketPage, bitmap_test
  <2>4. InPage(k, X, d) = {b \in X : b[1] = k.page[d]}
    BY DEF InPage
  <2> QED
    BY <2>2, <2>3, <2>4 DEF Bucket, Has
<1> QED
  BY <1>4, <1>7, <1>8 DEF Chain

\* malloc never hands out a block twice and never takes from an empty bucket; a
\* block in use lies in a bucket of its class that counts it, and whose page is
\* not given back before its last block is free (malloc and free_s).
THEOREM BlocksNeverShared == Spec => []HeapSafe
<1>1. HInv => HeapSafe
  BY InOrderMeansHeapSafe
<1> QED BY <1>1, HeapInOrder, PTL

\* The invariant says what PagesOwned does.
LEMMA InOrderMeansPagesOwned == HInv => PagesOwned
<1> SUFFICES ASSUME HInv, Running PROVE PagesOwned
  BY DEF PagesOwned
<1> DEFINE Ch == UNION {{k.dir[c][i] : i \in 1 .. Len(k.dir[c])} : c \in Class}
           Fr == {k.free_desc[i][1] : i \in 1 .. Len(k.free_desc)}
           DescPages == {d[1] : d \in Ch} \cup Fr
           Tcb == {proc[p].tcb : p \in {q \in Proc : proc[q].state # "none"}}
           Vmap == {proc[p].vmap : p \in {q \in Proc : Alive(q)}}
           Pde == {proc[p].pde : p \in {q \in Proc : Alive(q)}}
           BucketPages == {k.page[d] : d \in Ch}
           Own == [tcb |-> Tcb, vmap |-> Vmap, pde |-> Pde, bucket |-> BucketPages, desc |-> DescPages]
<1>1. Good(k, Held(proc), Blocks(proc)) /\ Distinct(proc)
  BY DEF HInv, Owned
<1>2. /\ k \in HeapT /\ PageUse(k, Held(proc)) /\ k.dir \in [Class -> Seq(Desc)]
      /\ k.free_desc \in Seq(Desc) /\ k.v_bit_map.bits \subseteq KPage
  BY <1>1 DEF Good, HeapT, BitmapT
<1>3. \A d : d \in Ch <=> Chained(k, d)
  BY MembersHas DEF Chained
<1>4. \A d \in Ch : d \in Desc
  BY <1>2
<1> HIDE DEF Ch
<1>5. \A g : g \in BucketPages <=> BucketPage(k, g)
  BY <1>3, <1>4 DEF BucketPage
<1>6. \A g : g \in DescPages <=> DescPage(k, g)
  <2>1. \A g : g \in Fr <=> \E d \in Desc : Has(k.free_desc, d) /\ d[1] = g
    BY <1>2 DEF Has
  <2> HIDE DEF Fr
  <2> QED
    BY <2>1, <1>3, <1>4 DEF DescPage, Known
<1>7. Held(proc) = Tcb \cup Vmap \cup Pde
  BY DEF Held, Busy, Living, Alive
<1>8. Tcb \cap Vmap = {} /\ Tcb \cap Pde = {} /\ Vmap \cap Pde = {}
  BY <1>1 DEF Distinct, Busy, Living, Alive
<1> HIDE DEF Tcb, Vmap, Pde, BucketPages, DescPages
<1>9. \A g : BucketPage(k, g) => g \in KPage /\ ~DescPage(k, g)
  BY <1>2 DEF PageUse, BucketPage
<1>10. \A g : DescPage(k, g) => g \in KPage
  BY DEF DescPage, Desc
<1>11. Tcb \cup Vmap \cup Pde \cup BucketPages \cup DescPages = k.v_bit_map.bits
  BY <1>2, <1>5, <1>6, <1>7, <1>9, <1>10 DEF PageUse
<1>12. /\ BucketPages \cap DescPages = {} /\ Tcb \cap BucketPages = {} /\ Tcb \cap DescPages = {}
       /\ Vmap \cap BucketPages = {} /\ Vmap \cap DescPages = {} /\ Pde \cap BucketPages = {} /\ Pde \cap DescPages = {}
  BY <1>2, <1>5, <1>6, <1>7, <1>9 DEF PageUse
<1>13. /\ DOMAIN Own = {"tcb", "vmap", "pde", "bucket", "desc"}
       /\ Own["tcb"] = Tcb /\ Own["vmap"] = Vmap /\ Own["pde"] = Pde /\ Own["bucket"] = BucketPages
       /\ Own["desc"] = DescPages
  OBVIOUS
<1> HIDE DEF Own
<1>14. UNION {Own[o] : o \in DOMAIN Own} = k.v_bit_map.bits
  <2>1. UNION {Own[o] : o \in DOMAIN Own} = Tcb \cup Vmap \cup Pde \cup BucketPages \cup DescPages
    BY <1>13
  <2> QED
    BY <1>11, <2>1
<1>15. \A o, q \in DOMAIN Own : o # q => Own[o] \cap Own[q] = {}
  BY <1>8, <1>12, <1>13
<1> QED
  BY <1>14, <1>15 DEF PagesOwned, Own, Tcb, Vmap, Pde, BucketPages, DescPages, Fr, Ch

\* Every kernel page in use has exactly one use: nothing is lost, and no page of
\* one process is another's, a bucket's or the descriptors' (alloc_kpage,
\* free_kpage and their callers).
THEOREM PagesNeverShared == Spec => []PagesOwned
<1>1. HInv => PagesOwned
  BY InOrderMeansPagesOwned
<1> QED BY <1>1, HeapInOrder, PTL
=============================================================================
