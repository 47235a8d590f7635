------------------------------- MODULE Memory -------------------------------
(***************************************************************************)
(* Physical frames, page tables and copy on write (kernel/memory.c), with  *)
(* the kernel pages and heap blocks a process owns (module Heap), through  *)
(* fork, page faults, brk, exit and waitpid.                               *)
(*                                                                         *)
(* System calls and the page fault handler run with interrupts off and     *)
(* none of these blocks in the part modelled, so each is one step; user    *)
(* code of all processes interleaves between them.                         *)
(*                                                                         *)
(*   p_bit_map[f], free_pages    references to a frame; the count of free  *)
(*                   frames as the code keeps it                           *)
(*   frame[f]        contents of a frame (one value stands for a page)     *)
(*   proc[p]         a process: state ("none", "alive", "died"), ppid, the *)
(*                   kernel pages tcb, vmap, pde, the heap blocks node,    *)
(*                   map, pwd, the frame of the page table of its stack    *)
(*                   (table), and the entries of that table: entry[v] =    *)
(*                   [index, write], index NoFrame when not present        *)
(*   k               kernel pages and heap (module Heap)                   *)
(*                                                                         *)
(* The vmap of a process has the bits of its stack set and no others (only *)
(* kernel_to_user sets any), so the heap that sys_brk grows cannot be      *)
(* used: link_page asserts the bit.  Where brk is decides nothing else.    *)
(***************************************************************************)
EXTENDS Heap

CONSTANTS Procs,           \* task slots for processes
          StackPage,       \* pages of a stack
          Frames,          \* frames of memory
          Reserved,        \* frames below start_available_p_page_idx
          Mapped,          \* frames below the end of the kernel's mapping
          Value,           \* contents of a page
          SharedStores     \* the kernel stores results in pages fork shares

ASSUME MemoryAssumption ==
  /\ Procs \in Nat \ {0} /\ Frames \in Nat /\ Reserved \in Nat /\ Mapped \in Nat
  /\ 0 < Reserved /\ Reserved <= Mapped /\ Mapped < Frames /\ Value # {}
  /\ SharedStores \in BOOLEAN /\ IsFiniteSet(StackPage)
  /\ {"node", "map", "pwd"} \subseteq Class /\ Class \cap {"tcb", "vmap", "pde"} = {}

VARIABLES p_bit_map, free_pages, frame, proc, k
vars == <<p_bit_map, free_pages, frame, proc, k>>

Proc == 1 .. Procs
Frame == 0 .. Frames - 1
NoFrame == -1
NoEntry == [index |-> NoFrame, write |-> FALSE]
NoProc == [state |-> "none", ppid |-> 0, tcb |-> 0, vmap |-> 0, pde |-> 0,
           node |-> NoDesc, map |-> NoDesc, pwd |-> NoDesc, table |-> NoFrame,
           entry |-> [v \in StackPage |-> NoEntry]]

Alive(p) == proc[p].state = "alive"
Running == k.halt = "no"
Present(p, v) == proc[p].entry[v].index # NoFrame

-----------------------------------------------------------------------------
(* Frames.  ph = [count, free] is p_bit_map and free_pages during a step.  *)

\* memory_init counts the reserved frames out of free_pages; page_mode_init then
\* marks the frames of the kernel's mapping, and leaves free_pages as it is.
memory_init ==
  [count |-> [f \in Frame |-> IF f < Reserved THEN 1 ELSE 0], free |-> Frames - Reserved]
page_mode_init(ph) ==
  [ph EXCEPT !.count = [f \in Frame |-> IF f < Mapped THEN 1 ELSE @[f]]]

Clear(ph) == {f \in Frame : f >= Reserved /\ ph.count[f] = 0}

\* The frame get_p_page takes.  With free_pages at 0 it PANICs; with no clear
\* frame it runs off the end of its loop and returns no value at all.
get_p_page(ph) == Min(Clear(ph))
OutOfFrames(ph, n) ==
  CASE Cardinality(Clear(ph)) >= n /\ ph.free >= n -> "no"
    [] ph.free < n /\ ph.free <= Cardinality(Clear(ph)) -> "out of memory"
    [] OTHER -> "no frame returned"
Taken(ph) ==
  [ph EXCEPT !.count[get_p_page(ph)] = 1, !.free = @ - 1]

Physical == [count |-> p_bit_map, free |-> free_pages]
SetPhysical(ph) == p_bit_map' = ph.count /\ free_pages' = ph.free

\* The present entries of p that map frame f.
Entries(p, f) == Cardinality({v \in StackPage : proc[p].entry[v].index = f})

entry_init(f) == [index |-> f, write |-> TRUE]

-----------------------------------------------------------------------------
(* System start: the frame of the page table for device registers is the   *)
(* first one allocated (link_nppage), then the first process is created.   *)

\* One more page or block: what alloc_kpage or malloc returned.
Got(made, field, kk) ==
  [k |-> kk, own |-> [made.own EXCEPT ![field] = IF field \in Class THEN kk.ret ELSE kk.ret[1]]]
Obtain(made, field) ==
  Got(made, field, IF field \in Class THEN malloc(made.k, field) ELSE alloc_used(made.k))

\* What get_task and then task_create with kernel_to_user, or fork, allocate.
ObtainAll(kk) ==
  LET task == Obtain(Obtain([k |-> kk, own |-> NoProc], "tcb"), "node")
  IN  Obtain(Obtain(Obtain(Obtain(task, "pwd"), "map"), "vmap"), "pde")

\* A process with these pages and blocks and this page table.
Created(own, ppid, d) ==
  [state |-> "alive", ppid |-> ppid, tcb |-> own.tcb, vmap |-> own.vmap, pde |-> own.pde,
   node |-> own.node, map |-> own.map, pwd |-> own.pwd, table |-> d.table, entry |-> d.entry]

\* task_create and kernel_to_user, for the process of slot 1.
First == ObtainAll(heap_init)

Init ==
  LET ph == Taken(page_mode_init(memory_init))
  IN  /\ p_bit_map = ph.count
      /\ free_pages = ph.free
      /\ frame = [f \in Frame |-> CHOOSE x \in Value : TRUE]
      /\ proc = [p \in Proc |-> IF p = 1 THEN Created(First.own, 0, NoProc) ELSE NoProc]
      /\ k = First.k

-----------------------------------------------------------------------------
(* Accesses to the stack and the page fault handler *)

\* link_page: the page table (get_pte), if there is none yet, and a frame.
link_page(p, v) ==
  LET ph == Physical
      table == IF proc[p].table = NoFrame THEN get_p_page(ph) ELSE proc[p].table
      ph1 == IF proc[p].table = NoFrame THEN Taken(ph) ELSE ph
      stop == OutOfFrames(ph, IF proc[p].table = NoFrame THEN 2 ELSE 1)
  IN  IF stop # "no" THEN [stop |-> stop]
      ELSE [stop |-> "no", ph |-> Taken(ph1), index |-> get_p_page(ph1),
            proc |-> [proc EXCEPT ![p].table = table,
                                  ![p].entry[v] = entry_init(get_p_page(ph1))]]

Halt(why) == k' = Stop(k, why) /\ UNCHANGED <<p_bit_map, free_pages, frame, proc>>

\* page_fault for a page that is not present.  Its contents are what the frame held
\* before: nobody clears it, and what a free frame holds is not modelled.
FaultAbsent(p, v) ==
  /\ Running /\ Alive(p) /\ ~Present(p, v)
  /\ \E l \in {link_page(p, v)} :
       \/ l.stop # "no" /\ Halt(l.stop)
       \/ /\ l.stop = "no"
          /\ SetPhysical(l.ph)
          /\ proc' = l.proc
          /\ \E x \in Value : frame' = [frame EXCEPT ![l.index] = x]
          /\ UNCHANGED k

\* No other entry maps the frame: page_fault gives it back its write bit.
LastReference(f) == p_bit_map[f] = 1

\* Mutant: source and destination are swapped.
copy_phy_page_mut(new, f) == [frame EXCEPT ![f] = frame[new]]

copy_phy_page(new, f) == [frame EXCEPT ![new] = frame[f]]

\* page_fault for a store to a page that fork made read-only.
FaultWrite(p, v) ==
  /\ Running /\ Alive(p) /\ Present(p, v) /\ ~proc[p].entry[v].write
  /\ LET f == proc[p].entry[v].index
         ph == [Physical EXCEPT !.count[f] = @ - 1]
         new == get_p_page(ph)
         stop == OutOfFrames(ph, 1)
     IN  \/ /\ LastReference(f)
            /\ proc' = [proc EXCEPT ![p].entry[v].write = TRUE]
            /\ UNCHANGED <<p_bit_map, free_pages, frame, k>>
         \/ /\ ~LastReference(f) /\ stop # "no"
            /\ Halt(stop)
         \/ /\ ~LastReference(f) /\ stop = "no"
            /\ SetPhysical(Taken(ph))
            /\ frame' = copy_phy_page(new, f)
            /\ proc' = [proc EXCEPT ![p].entry[v] = entry_init(new)]
            /\ UNCHANGED k

UserStore(p, v, x) ==
  /\ Running /\ Alive(p) /\ Present(p, v) /\ proc[p].entry[v].write
  /\ frame' = [frame EXCEPT ![proc[p].entry[v].index] = x]
  /\ UNCHANGED <<p_bit_map, free_pages, proc, k>>

\* An access outside the stack, or to the heap: page_fault reports and hangs, or
\* link_page finds the page's bit in vmap clear.
FaultOutside(p) ==
  /\ Running /\ Alive(p)
  /\ Halt("page fault") \/ Halt("vmap")

\* enable_page_mode sets CR0.PG and not CR0.WP: a store by the kernel does not
\* look at the write bit.  Without SharedStores, only buffers are passed to the
\* kernel that the process has written since it was forked.
KernelStore(p, v) == Present(p, v) /\ (SharedStores \/ proc[p].entry[v].write)

\* A system call that stores its result in the caller's memory (read, readdir,
\* getpwd); the page is present, or FaultAbsent comes first.
SysResult(p, v, x) ==
  /\ Running /\ Alive(p) /\ KernelStore(p, v)
  /\ frame' = [frame EXCEPT ![proc[p].entry[v].index] = x]
  /\ UNCHANGED <<p_bit_map, free_pages, proc, k>>

-----------------------------------------------------------------------------
(* System calls on processes *)

\* Mutant: the pages stay writable.
ReadOnly_mut(e) == e

\* An entry of both page tables after fork.
ReadOnly(e) == [e EXCEPT !.write = FALSE]

\* copy_pde: every present entry loses its write bit and is referenced once more,
\* and the child gets a copy of the page table.
copy_pde(p) ==
  LET entries == [v \in StackPage |-> ReadOnly(proc[p].entry[v])]
      ph == [Physical EXCEPT !.count = [f \in Frame |-> @[f] + Entries(p, f)]]
      stop == OutOfFrames(ph, 1)
  IN  CASE proc[p].table = NoFrame ->
             [stop |-> "no", ph |-> Physical, table |-> NoFrame, entry |-> proc[p].entry]
        [] proc[p].table # NoFrame /\ stop # "no" -> [stop |-> stop]
        [] OTHER -> [stop |-> "no", ph |-> Taken(ph), table |-> get_p_page(ph), entry |-> entries]

\* What fork has when the kernel has not stopped on the way: the child in the
\* first free slot, and the parent's entries.
ForkDone(p, made, d) ==
  LET c == Min({q \in Proc : proc[q].state = "none"})
  IN  /\ SetPhysical(d.ph)
      /\ proc' = [proc EXCEPT
                    ![p].entry = d.entry, ![c] = Created(made.own, p, d)]
      /\ k' = made.k
      /\ UNCHANGED frame

sys_fork(p) ==
  /\ Running /\ Alive(p)
  /\ IF \A q \in Proc : proc[q].state # "none" THEN Halt("no more task")
     ELSE \E made \in {ObtainAll(k)}, d \in {copy_pde(p)} :
            CASE made.k.halt # "no" -> Halt(made.k.halt)
              [] made.k.halt = "no" /\ d.stop # "no" -> Halt(d.stop)
              [] OTHER -> ForkDone(p, made, d)

\* sys_brk: growing sets brk, which only page_fault looks at (FaultOutside), unless
\* it asks for more than free_pages.  Shrinking calls unlink_page(brk) once per page,
\* always for the same page: the page is not present, or not the second time.
sys_brk(p) ==
  /\ Running /\ Alive(p)
  /\ Halt("out of memory") \/ Halt("unlink_page")

\* Mutant: the page table is forgotten.
References_mut(p, f) == Entries(p, f)

\* What exit gives up of a frame: the entries that map it, and the page table.
References(p, f) == Entries(p, f) + (IF proc[p].table = f THEN 1 ELSE 0)

\* free_pde: free_p_page for every present entry, then for the page table; its
\* assertions fail where a count would go below zero.
free_pde(p) ==
  LET used == {f \in Frame : References(p, f) > 0}
      count == [f \in Frame |-> p_bit_map[f] - References(p, f)]
  IN  [stop |-> IF \A f \in used : f >= Reserved /\ count[f] >= 0 THEN "no" ELSE "free_p_page",
       ph |-> [count |-> count,
               free |-> free_pages + Cardinality({f \in used : count[f] = 0})]]

\* Mutant: the page directory is forgotten.
ReleaseKernel_mut(p) == free_s(free_s(free_kpage(k, proc[p].vmap), proc[p].map), proc[p].pwd)

\* The kernel pages and heap blocks that exit frees.
ReleaseKernel(p) ==
  free_kpage(free_s(free_s(free_kpage(k, proc[p].vmap), proc[p].map), proc[p].pwd), proc[p].pde)

\* The slot of a process that has exited.
Died(q) == [NoProc EXCEPT !.state = "died", !.ppid = q.ppid, !.tcb = q.tcb, !.node = q.node]

\* sys_exit; the kernel stack stays until the parent's waitpid.
sys_exit(p) ==
  /\ Running /\ Alive(p) /\ p # 1
  /\ \E kk \in {ReleaseKernel(p)}, d \in {free_pde(p)} :
       \/ d.stop # "no" /\ Halt(d.stop)
       \/ kk.halt # "no" /\ Halt(kk.halt)
       \/ /\ d.stop = "no" /\ kk.halt = "no"
          /\ SetPhysical(d.ph)
          /\ proc' = [q \in Proc |->
               CASE q = p -> Died(proc[p])
                 [] q # p /\ proc[q].ppid = p -> [proc[q] EXCEPT !.ppid = proc[p].ppid]
                 [] OTHER -> proc[q]]
          /\ k' = kk
          /\ UNCHANGED frame

\* sys_waitpid for a child that has died: *status is stored by the kernel, then
\* the kernel stack and the list node are freed.
sys_waitpid(p, c, v, x) ==
  /\ Running /\ Alive(p) /\ KernelStore(p, v)
  /\ proc[c].state = "died" /\ proc[c].ppid = p
  /\ k' = free_s(free_kpage(k, proc[c].tcb), proc[c].node)
  /\ frame' = [frame EXCEPT ![proc[p].entry[v].index] = x]
  /\ proc' = [proc EXCEPT ![c] = NoProc]
  /\ UNCHANGED <<p_bit_map, free_pages>>

\* A stopped kernel stays so.
Stopped == ~Running /\ UNCHANGED vars

Next ==
  \/ \E p \in Proc, v \in StackPage :
       \/ FaultAbsent(p, v)
       \/ FaultWrite(p, v)
       \/ \E x \in Value :
            \/ UserStore(p, v, x)
            \/ SysResult(p, v, x)
            \/ \E c \in Proc : sys_waitpid(p, c, v, x)
  \/ \E p \in Proc :
       \/ FaultOutside(p)
       \/ sys_fork(p)
       \/ sys_exit(p)
       \/ sys_brk(p)
  \/ Stopped

Spec == Init /\ [][Next]_vars

-----------------------------------------------------------------------------
(* Properties *)

Tables(f) == Cardinality({p \in Proc : proc[p].table = f})
\* The present entries of all processes that map frame f.
Sharers(f) == Cardinality({x \in Proc \X StackPage : proc[x[1]].entry[x[2]].index = f})

\* p_bit_map holds for every frame above the kernel's mapping exactly the entries
\* and page tables that use it, over every order of fork, fault and exit: none is
\* freed in use and none is lost.  free_pages is too high by the frames that
\* page_mode_init marks without counting them (memory.c:265), for ever.
RefCounts ==
  Running =>
    /\ \A f \in Mapped + 1 .. Frames - 1 : p_bit_map[f] = Sharers(f) + Tables(f)
    /\ free_pages = Cardinality(Clear(Physical)) + (Mapped - Reserved)

\* A page with its write bit set is referenced once: page_fault may hand the frame
\* back to the last sharer without a copy only because of this.
WritableIsPrivate ==
  \A p \in Proc, v \in StackPage :
    proc[p].entry[v].write => p_bit_map[proc[p].entry[v].index] = 1

\* Blocks of the heap in use: list nodes until waitpid, maps and paths until exit.
LiveBlocks ==
  [node |-> {proc[p].node : p \in {q \in Proc : proc[q].state # "none"}},
   map |-> {proc[p].map : p \in {q \in Proc : Alive(q)}},
   pwd |-> {proc[p].pwd : p \in {q \in Proc : Alive(q)}}]

\* malloc and free_s: every block in use lies in a bucket of its class that is in
\* the chain and owns its page, is in no list of free blocks, and refcnt counts
\* the blocks in use; no two users got the same block; malloc never takes from an
\* empty bucket.
HeapSafe ==
  /\ k.halt # "empty bucket"
  /\ Running => \A c \in {"node", "map", "pwd"} :
       LET Chain == {k.dir[c][i] : i \in 1 .. Len(k.dir[c])}
           In(d) == {b \in LiveBlocks[c] : b[1] = k.page[d]}
       IN  /\ \A b \in LiveBlocks[c] : \E d \in Chain : k.page[d] = b[1]
           /\ \A d \in Chain :
                /\ bitmap_test(k.v_bit_map, k.page[d])
                /\ k.refcnt[d] = Cardinality(In(d))
                /\ k.refcnt[d] + Len(k.freeptr[d]) = PerPage[c]
                /\ \A b \in In(d) : \A i \in 1 .. Len(k.freeptr[d]) : k.freeptr[d][i] # b[2]

\* The kernel pages in use are the ones somebody owns, each owned once: stacks
\* until waitpid, page directories and bit maps until exit, pages of buckets while
\* a block of them is in use, pages of descriptors for ever.
PagesOwned ==
  Running =>
    LET Chained == UNION {{k.dir[c][i] : i \in 1 .. Len(k.dir[c])} : c \in Class}
        DescPages == {d[1] : d \in Chained} \cup {k.free_desc[i][1] : i \in 1 .. Len(k.free_desc)}
        Owned == [tcb |-> {proc[p].tcb : p \in {q \in Proc : proc[q].state # "none"}},
                  vmap |-> {proc[p].vmap : p \in {q \in Proc : Alive(q)}},
                  pde |-> {proc[p].pde : p \in {q \in Proc : Alive(q)}},
                  bucket |-> {k.page[d] : d \in Chained},
                  desc |-> DescPages]
    IN  /\ UNION {Owned[o] : o \in DOMAIN Owned} = k.v_bit_map.bits
        /\ \A o, q \in DOMAIN Owned : o # q => Owned[o] \cap Owned[q] = {}

\* The promise of module AddressSpace, with the pages of the page tables.
Space == INSTANCE AddressSpace WITH
  Page <- StackPage, Untouched <- "untouched", alive <- {p \in Proc : Alive(p)},
  mem <- [p \in Proc |-> [v \in StackPage |->
            IF Alive(p) /\ Present(p, v) THEN frame[proc[p].entry[v].index] ELSE "untouched"]]

\* Copy on write gives each process memory of its own: no store, fault, fork or
\* exit of one changes what another finds in its pages (page_fault, copy_pde,
\* free_pde).
ImplementsAddressSpace == Space!Spec
=============================================================================
