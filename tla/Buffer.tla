------------------------------- MODULE Buffer -------------------------------
(***************************************************************************)
(* The buffer cache (fs/buffer.c) over one block device: getblk, bread,    *)
(* bwrite, brelse and sync_dev, and the lock of a buffer as                *)
(* device_request (kernel/device.c) and inode_write (fs/minix1/inode.c)    *)
(* use it.                                                                 *)
(*                                                                         *)
(* All of it runs inside system calls with interrupts off, so tasks        *)
(* interleave only where one blocks; which ready task runs next is left    *)
(* open here.  The device performs one request at a time; which of those   *)
(* that wait goes next is left open too (module Disk has the elevator),    *)
(* and requests do not fail.  The cache is a record s:                     *)
(*                                                                         *)
(*   s.blk[b], s.count[b], s.dirty[b], s.vaild[b], s.waiter[b]             *)
(*                   fields of buffer_t; blk is NoBlock before first use   *)
(*   s.locked[b], s.lockq[b]     b_lock, and the tasks that wait for it    *)
(*   s.data[b], s.disk[n]        contents: <<block, version>>              *)
(*   s.nalloc        buffers get_new_buffer has handed out                 *)
(*   s.free_list, s.wait_list    the lists of buffer.c                     *)
(*   s.do_request    a task uses the device                                *)
(*   s.pc[p]         where task p is: outside ("run"), outside with the    *)
(*                   buffer use[p] ("held"), asleep on wait_list ("full"), *)
(*                   asleep as b_waiter ("lock"), asleep on lockq          *)
(*                   ("mutex"), waiting for the device ("queued"), for the *)
(*                   drive ("io"); or made ready again from these          *)
(*                   ("retry", "woken", "owner", "done")                   *)
(*   s.op[p]         the function it is in                                 *)
(*   s.want[p], s.use[p], s.req[p]    the block it asks for, the buffer in *)
(*                   its hand, the block number in its request             *)
(***************************************************************************)
EXTENDS Integers, Sequences, FiniteSets, SequencesExt

CONSTANTS Task, NoTask,
          NBuf,       \* buffers the memory has room for
          Block,      \* block numbers
          Versions    \* versions of a block's contents, counted modulo this

ASSUME BufferAssumption ==
  /\ IsFiniteSet(Task) /\ NoTask \notin Task
  /\ NBuf \in Nat \ {0} /\ Block \subseteq Nat \ {0} /\ Versions \in Nat \ {0}

VARIABLE s

Buf == 1 .. NBuf
NoBlock == 0

Init ==
  s = [blk |-> [b \in Buf |-> NoBlock], count |-> [b \in Buf |-> 0],
       dirty |-> [b \in Buf |-> FALSE], vaild |-> [b \in Buf |-> FALSE],
       waiter |-> [b \in Buf |-> NoTask], locked |-> [b \in Buf |-> FALSE],
       lockq |-> [b \in Buf |-> <<>>], data |-> [b \in Buf |-> <<NoBlock, 0>>],
       disk |-> [n \in Block |-> <<n, 0>>],
       nalloc |-> 0, free_list |-> <<>>, wait_list |-> <<>>, do_request |-> FALSE,
       pc |-> [p \in Task |-> "run"], op |-> [p \in Task |-> "none"],
       want |-> [p \in Task |-> NoBlock], use |-> [p \in Task |-> 0],
       req |-> [p \in Task |-> NoBlock]]

-----------------------------------------------------------------------------
(* The lock of a buffer *)

Goto(t, p, where) == [t EXCEPT !.pc[p] = where]

\* A task returns to its caller with buffer b, or with none (0).  Locals that
\* are out of scope get one fixed value.
Return(t, p, b) ==
  [t EXCEPT !.pc[p] = IF b = 0 THEN "run" ELSE "held", !.use[p] = b,
            !.want[p] = IF b = 0 THEN NoBlock ELSE @, !.op[p] = "none", !.req[p] = NoBlock]

buffer_lock(t, p, b, then) ==
  IF ~t.locked[b] /\ t.lockq[b] = <<>>
  THEN [t EXCEPT !.locked[b] = TRUE, !.pc[p] = then]
  ELSE [t EXCEPT !.lockq[b] = <<p>> \o @, !.pc[p] = "mutex"]

\* Mutant: the task that wants to reuse the buffer is not woken.
buffer_unlock_mut(t, b) ==
  LET q == t.lockq[b]
  IN IF q = <<>> THEN [t EXCEPT !.locked[b] = FALSE]
     ELSE [t EXCEPT !.lockq[b] = Front(q), !.pc[Last(q)] = "owner"]

\* mutex_unlock hands the lock to the oldest waiter; then the task that wants
\* to reuse the buffer is woken as well.
buffer_unlock(t, b) ==
  LET q == t.lockq[b]
      t1 == IF q = <<>> THEN [t EXCEPT !.locked[b] = FALSE]
            ELSE [t EXCEPT !.lockq[b] = Front(q), !.pc[Last(q)] = "owner"]
  IN IF t.waiter[b] = NoTask THEN t1 ELSE Goto(t1, t.waiter[b], "woken")

-----------------------------------------------------------------------------
(* kernel/device.c: device_request on buffer b, up to the point where it   *)
(* waits                                                                   *)

Turn(t, p) ==
  IF t.do_request THEN Goto(t, p, "queued")
  ELSE buffer_lock([t EXCEPT !.do_request = TRUE], p, t.use[p], "io")

device_request(t, p, b, op) ==
  Turn([t EXCEPT !.op[p] = op, !.use[p] = b, !.req[p] = t.blk[b]], p)

-----------------------------------------------------------------------------
(* fs/buffer.c *)

Allocated(t) == 1 .. t.nalloc
InCache(t, n) == {b \in Allocated(t) : t.blk[b] = n}
find_from_hash_table(t, n) == CHOOSE b \in InCache(t, n) : TRUE

\* A hit takes a reference, whatever is going on with the buffer.
get_from_hash_table(t, b) == [t EXCEPT !.count[b] = @ + 1]

\* The next buffer of the memory set aside for them is t.nalloc + 1.
get_new_buffer(t) == [t EXCEPT !.nalloc = @ + 1]

\* buffer_remove and buffer_insert: to the end of free_list.
buffer_insert(t, b) ==
  [t EXCEPT !.free_list = Append(RemoveFirst(@, b), b)]

\* Its callers have found the buffer dirty; what follows the request is in
\* RequestDone.
bwrite(t, p, b, op) == device_request(t, p, b, op)

\* The buffer the search of getblk ends with: of those nobody refers to and
\* nobody waits to reuse, the first one on free_list of the lowest score.
Score(t, b) == (IF t.locked[b] THEN 1 ELSE 0) + (IF t.dirty[b] THEN 2 ELSE 0)

Reusable(t) == {i \in 1 .. Len(t.free_list) :
                  t.count[t.free_list[i]] = 0 /\ t.waiter[t.free_list[i]] = NoTask}

Victim(t) ==
  t.free_list[CHOOSE i \in Reusable(t) : \A j \in Reusable(t) :
                LET si == Score(t, t.free_list[i])
                    sj == Score(t, t.free_list[j])
                IN si < sj \/ (si = sj /\ i <= j)]

\* What bread does with the buffer getblk returns.
Got(t, p, b) ==
  IF t.vaild[b] THEN Return(t, p, b)
  ELSE device_request(t, p, b, "bread")

\* The label _find_new.
find_new(t, p, b) ==
  Got([buffer_insert(t, b) EXCEPT !.count[b] = 1, !.dirty[b] = FALSE,
                                  !.vaild[b] = FALSE, !.blk[b] = t.want[p]], p, b)

\* getblk from the label _retry.
getblk(t, p) ==
  LET n == t.want[p]
      b == find_from_hash_table(t, n)
      v == Victim(t)
  IN IF InCache(t, n) # {} THEN Got(get_from_hash_table(t, b), p, b)
     ELSE IF t.nalloc < NBuf
          THEN find_new(get_new_buffer(t), p, t.nalloc + 1)
     ELSE IF Reusable(t) = {}
          THEN [t EXCEPT !.wait_list = <<p>> \o @, !.pc[p] = "full"]
     ELSE IF t.locked[v] THEN [t EXCEPT !.waiter[v] = p, !.use[p] = v, !.pc[p] = "lock"]
     ELSE IF t.dirty[v] THEN bwrite(t, p, v, "getblk")
     ELSE find_new(t, p, v)

\* Mutants: the hash table, or b_count, is not looked at again.
Written_nohash(t, p, b) == IF t.count[b] # 0 THEN getblk(t, p) ELSE find_new(t, p, b)

Written_nocount(t, p, b) ==
  IF InCache(t, t.want[p]) # {} THEN getblk(t, p) ELSE find_new(t, p, b)

\* getblk after the buffer has been written back.
Written(t, p, b) ==
  IF t.count[b] # 0 \/ InCache(t, t.want[p]) # {} THEN getblk(t, p) ELSE find_new(t, p, b)

\* getblk after its wait for the lock.
Unlocked(t, p, b) ==
  IF t.count[b] # 0 THEN getblk(t, p)
  ELSE IF t.dirty[b] THEN bwrite(t, p, b, "getblk")
  ELSE Written(t, p, b)

\* Mutant: nobody is woken.
WakeOne_silent(t, p) == Return(t, p, 0)

\* The end of brelse.
WakeOne(t, p) ==
  LET t1 == Return(t, p, 0)
  IN IF t.wait_list = <<>> THEN t1
     ELSE [t1 EXCEPT !.wait_list = Tail(@), !.pc[Head(t.wait_list)] = "retry"]

\* The loop of sync_dev from buffer b on.
sync_dev(t, p, b) ==
  LET D == {c \in Allocated(t) : c >= b /\ t.dirty[c]}
  IN IF D = {} THEN Return(t, p, 0)
     ELSE bwrite(t, p, CHOOSE c \in D : \A d \in D : c <= d, "sync")

-----------------------------------------------------------------------------
(* Tasks *)

Bread ==
  \E p \in Task, n \in Block :
    /\ s.pc[p] = "run"
    /\ s' = getblk([s EXCEPT !.want[p] = n], p)

Modified(t, b) ==
  [t EXCEPT !.data[b] = <<@[1], (@[2] + 1) % Versions>>, !.dirty[b] = TRUE]

\* A holder changes the contents: under the lock in inode_write, without it
\* where bits of a map, entries of a directory and inodes are changed.
Change == \E p \in Task : s.pc[p] = "held" /\ s' = Modified(s, s.use[p])

Write ==
  \E p \in Task :
    LET b == s.use[p]
        t == buffer_lock([s EXCEPT !.op[p] = "write"], p, b, "held")
    IN /\ s.pc[p] = "held"
       /\ s' = IF t.pc[p] = "held" 
               THEN buffer_unlock(Modified(Return(t, p, b), b), b) ELSE t

Brelse ==
  \E p \in Task :
    LET b == s.use[p]
        t == [s EXCEPT !.count[b] = @ - 1]
    IN /\ s.pc[p] = "held"
       /\ s' = IF t.count[b] # 0 THEN Return(t, p, 0)
               ELSE IF t.dirty[b] THEN bwrite(t, p, b, "brelse")
               ELSE WakeOne(t, p)

Sync ==
  \E p \in Task :
    /\ s.pc[p] = "run" /\ \E b \in Allocated(s) : s.dirty[b]
    /\ s' = sync_dev(s, p, 1)

\* block(wait_list) in getblk returns.
Retry == \E p \in Task : s.pc[p] = "retry" /\ s' = getblk(s, p)

\* block() on a locked buffer returns.
Woken ==
  \E p \in Task :
    LET b == s.use[p]
    IN s.pc[p] = "woken" /\ s' = Unlocked([s EXCEPT !.waiter[b] = NoTask], p, b)

\* block() in mutex_lock returns: the task has been handed the lock.
Owner ==
  \E p \in Task :
    /\ s.pc[p] = "owner"
    /\ s' = IF s.op[p] = "write"
            THEN buffer_unlock(Modified(Return(s, p, s.use[p]), s.use[p]), s.use[p])
            ELSE Goto(s, p, "io")

\* block() in device_request returns.
Queued == \E p \in Task : s.pc[p] = "queued" /\ ~s.do_request /\ s' = Turn(s, p)

\* The drive moves the data between memory and the disk (external).
DriveDone ==
  \E p \in Task :
    /\ s.pc[p] = "io"
    /\ s' = Goto(IF s.op[p] = "bread"
                 THEN [s EXCEPT !.data[s.use[p]] = s.disk[s.req[p]]]
                 ELSE [s EXCEPT !.disk[s.req[p]] = s.data[s.use[p]]], p, "done")

\* The end of device_request, and what its caller does next.
RequestDone ==
  \E p \in Task :
    LET b == s.use[p]
        t == [buffer_unlock(s, b) EXCEPT !.do_request = FALSE, !.dirty[b] = FALSE]
    IN /\ s.pc[p] = "done"
       /\ s' = CASE s.op[p] = "bread" -> Return([t EXCEPT !.vaild[b] = TRUE], p, b)
                 [] s.op[p] = "getblk" -> Written(t, p, b)
                 [] s.op[p] = "brelse" -> WakeOne(t, p)
                 [] s.op[p] = "sync" -> sync_dev(t, p, b + 1)

Next == \/ Bread \/ Change \/ Write \/ Brelse \/ Sync \/ Retry \/ Woken \/ Owner
        \/ Queued \/ DriveDone \/ RequestDone

Spec == Init /\ [][Next]_s

-----------------------------------------------------------------------------
(* Properties *)

\* A block has one buffer at most, although getblk blocks between its search of
\* the hash table and its insertion: two copies of a block would diverge.
OneCopy == \A n \in Block : Cardinality(InCache(s, n)) <= 1

\* Tasks that have been counted in b_count of b: they hold it, read it in or
\* write it under its lock.
Holders(b) ==
  {p \in Task : s.use[p] = b /\ (s.pc[p] = "held" \/
                  (s.pc[p] \in {"mutex", "owner", "queued", "io", "done"}
                     /\ s.op[p] \in {"bread", "write"}))}

\* b_count counts the holders, and nobody's buffer is given to another block
\* while it is held: getblk checks b_count before each of its waits and after.
HeldStable ==
  \A b \in Buf :
    /\ s.count[b] = Cardinality(Holders(b))
    /\ \A p \in Holders(b) : s.blk[b] = s.want[p]
    /\ \A p \in Holders(b) : s.pc[p] = "held" => s.vaild[b]

\* No lost wake-up at a lock: who sleeps for a buffer's lock, to take it or to
\* reuse the buffer, sleeps while somebody else has it.
LockWakes ==
  \A p \in Task : s.pc[p] \in {"lock", "mutex"} =>
    \E q \in Task \ {p} : /\ s.use[q] = s.use[p]
                          /\ s.pc[q] \in {"io", "done", "owner"}

\* No lost wake-up at wait_list: while a task sleeps there, another one is
\* inside the cache or holds a buffer, and will end in brelse.
FullWakes ==
  s.wait_list # <<>> => \E p \in Task : s.pc[p] \notin {"run", "full"}

\* b_dirty says whether a buffer is in step with the disk (fs.h): a valid
\* buffer that is not dirty has the contents of its block.
InSync ==
  \A b \in Allocated(s) : s.vaild[b] /\ ~s.dirty[b] => s.data[b] = s.disk[s.blk[b]]

=============================================================================
