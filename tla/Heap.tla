-------------------------------- MODULE Heap --------------------------------
(***************************************************************************)
(* The kernel's pages (alloc_kpage and free_kpage of kernel/memory.c) and  *)
(* the heap on top of them (kernel/malloc.c), as operators on a record k:  *)
(*                                                                         *)
(*   k.v_bit_map     the kernel's virtual pages in use, a bitmap_t         *)
(*   k.dir[c]        the chain of bucket descriptors of size class c       *)
(*   k.page[d], k.freeptr[d], k.refcnt[d]                                  *)
(*                   a descriptor: its page, the blocks of it that are     *)
(*                   free in the order of their list, the blocks in use    *)
(*   k.free_desc     free_bucket_desc, the descriptors in no chain         *)
(*   k.ret           what the last call returned                           *)
(*   k.halt          why the kernel stopped (PANIC, a failed assertion, an *)
(*                   access to page 0), or "no"                            *)
(*                                                                         *)
(* Callers run with interrupts off, so a call is one step (malloc itself   *)
(* disables interrupts only after its search).  A block is                 *)
(* <<page, number>>.  What follows a stop in a system call is not reached: *)
(* every operator returns k unchanged then.                                *)
(***************************************************************************)
EXTENDS Bitmap, Sequences, SequencesExt

CONSTANTS KPages,         \* pages v_bit_map manages
          Class,          \* size classes of bucket_dir
          PerPage,        \* blocks in a page, per class
          DescPerPage     \* descriptors in a page

ASSUME HeapAssumption ==
  KPages \in Nat /\ PerPage \in [Class -> Nat \ {0}] /\ DescPerPage \in Nat \ {0}

KPage == 1 .. KPages
Desc == KPage \X (1 .. DescPerPage)
NoDesc == <<0, 0>>

Stop(k, why) == [k EXCEPT !.halt = why]

heap_init ==
  [v_bit_map |-> bitmap_init(KPages, 1), dir |-> [c \in Class |-> <<>>],
   page |-> [d \in Desc |-> 0], freeptr |-> [d \in Desc |-> <<>>],
   refcnt |-> [d \in Desc |-> 0], free_desc |-> <<>>, ret |-> <<0, 0>>, halt |-> "no"]

\* Returns the page's number, or 0 (NULL) when there is none.
alloc_kpage(k, count) ==
  LET start == bitmap_scan(k.v_bit_map, count)
  IN  CASE k.halt # "no" -> k
        [] k.halt = "no" /\ start = EOF -> [k EXCEPT !.ret = <<0, 0>>]
        [] OTHER -> [k EXCEPT !.v_bit_map = MarkRun(@, start, count), !.ret = <<start, 0>>]

NotNull(k, why) == IF k.halt = "no" /\ k.ret = <<0, 0>> THEN Stop(k, why) ELSE k

\* Callers use the page without a look at NULL: the first access is to page 0.
alloc_used(k) == NotNull(alloc_kpage(k, 1), "page zero")

free_kpage(k, page) ==
  CASE k.halt # "no" -> k
    [] k.halt = "no" /\ ~bitmap_test(k.v_bit_map, page) -> Stop(k, "free_kpage")
    [] OTHER -> [k EXCEPT !.v_bit_map = bitmap_set(@, page, FALSE)]

-----------------------------------------------------------------------------
(* malloc *)

\* The new page is cut into descriptors.
Descriptors(k) ==
  IF k.halt # "no" THEN k
  ELSE [k EXCEPT !.free_desc = [i \in 1 .. DescPerPage |-> <<k.ret[1], i>>] \o @]

bucket_dec_init(k) == Descriptors(NotNull(alloc_kpage(k, 1), "out of memory"))

\* The first bucket of the chain with a free block.
find_bucket(k, c) ==
  LET i == SelectInSeq(k.dir[c], LAMBDA d : k.freeptr[d] # <<>>)
  IN  IF i = 0 THEN NoDesc ELSE k.dir[c][i]

\* The first free descriptor gets the new page, all blocks of it free, and goes to
\* the head of the chain.
link_bucket(k, c) ==
  LET d == Head(k.free_desc)
  IN  IF k.halt # "no" THEN k
      ELSE [k EXCEPT !.free_desc = Tail(@), !.dir[c] = <<d>> \o @,
                     !.page[d] = k.ret[1], !.refcnt[d] = 0,
                     !.freeptr[d] = [i \in 1 .. PerPage[c] |-> i]]

new_bucket(k, c) ==
  link_bucket(NotNull(alloc_kpage(IF k.free_desc = <<>> THEN bucket_dec_init(k) ELSE k, 1),
                      "out of memory"), c)

\* The first free block of a bucket.
take_block(k, d) ==
  IF k.freeptr[d] = <<>> THEN Stop(k, "empty bucket")
  ELSE [k EXCEPT !.ret = <<k.page[d], Head(k.freeptr[d])>>,
                 !.freeptr[d] = Tail(@), !.refcnt[d] = @ + 1]

take_newest(k, c) == IF k.halt # "no" THEN k ELSE take_block(k, Head(k.dir[c]))

malloc(k, c) ==
  CASE k.halt # "no" -> k
    [] k.halt = "no" /\ find_bucket(k, c) = NoDesc -> take_newest(new_bucket(k, c), c)
    [] OTHER -> take_block(k, find_bucket(k, c))

-----------------------------------------------------------------------------
(* free *)

\* Class and place of the buckets whose page holds a block.
Holding(k, obj) ==
  {x \in Class \X (1 .. Cardinality(Desc)) :
     x[2] <= Len(k.dir[x[1]]) /\ k.page[k.dir[x[1]][x[2]]] = obj[1]}

\* The block goes to the head of its bucket's free list.
give_block(k, d, obj) ==
  [k EXCEPT !.freeptr[d] = <<obj[2]>> \o @, !.refcnt[d] = @ - 1]

\* A bucket without blocks in use leaves its chain and gives up its page.
drop_bucket(k, c, i) ==
  [free_kpage(k, k.page[k.dir[c][i]]) EXCEPT
     !.dir[c] = RemoveAt(@, i), !.free_desc = <<k.dir[c][i]>> \o @]

\* Mutant: the page is given up with one block of it still in use.
all_free_mut(k, d) == k.refcnt[d] <= 1

all_free(k, d) == k.refcnt[d] = 0

release_if_free(k, c, i) == IF all_free(k, k.dir[c][i]) THEN drop_bucket(k, c, i) ELSE k

\* free(obj) is free_s(obj, 0): it looks through every chain.
free_s(k, obj) ==
  CASE k.halt # "no" -> k
    [] k.halt = "no" /\ Holding(k, obj) = {} -> Stop(k, "free_s")
    [] OTHER ->
         LET at == CHOOSE x \in Holding(k, obj) : TRUE
         IN  release_if_free(give_block(k, k.dir[at[1]][at[2]], obj), at[1], at[2])
=============================================================================
