------------------------------ MODULE Keyboard ------------------------------
(***************************************************************************)
(* The keyboard: the interrupt handler that fills key_buf, the readers     *)
(* that empty it (kernel/keyboard.c), the ring buffer (kernel/queue.c) and *)
(* the mutex that keeps readers apart (kernel/mutex.c), over the scheduler *)
(* of module Sched.                                                        *)
(*                                                                         *)
(* read() is a system call and runs with interrupts off, so it is atomic   *)
(* up to a block(): in mutex_lock() (pc "lock") or on the list `waiter' of *)
(* tasks that found the buffer empty (pc "keys").                          *)
(***************************************************************************)
EXTENDS Sched

CONSTANTS Counts,     \* lengths of a read
          KeyBufSize, \* bytes of key_buf (KEY_BUF_SIZE, 256 in the source)
          MaxTyped    \* keys typed in a behaviour of the model

ASSUME KeyboardAssumption ==
  /\ Counts \subseteq Nat
  /\ KeyBufSize \in Nat /\ KeyBufSize >= 2
  /\ MaxTyped \in Nat
  /\ {"lock", "waiter"} \subseteq Lists
  /\ TaskNum >= 2

VARIABLES k,        \* the kernel state
          pc,       \* pc[p]: "run", or where p continues in keyboard_read
          value,    \* lock->value, TRUE when the mutex is free
          key_buf,  \* the ring buffer: head, tail and the bytes
          todo,     \* todo[p]: characters p has still to read
          buf,      \* buf[p]: what p has read so far
          typed     \* number of keys typed; the n-th key is the character n

vars == <<k, pc, value, key_buf, todo, buf, typed>>

Idle == 0
Reader == Pid \ {Idle}

\* Idle runs, and every other slot holds a user task that is ready.
Init ==
  /\ k = [state |-> [p \in Pid |-> IF p = Idle THEN "RUNNING" ELSE "READY"],
          container |-> [p \in Pid |-> IF p = Idle THEN NoList ELSE "ready"],
          list |-> [l \in Lists |-> IF l = "ready" THEN [i \in 1 .. TaskNum - 1 |-> i]
                                    ELSE <<>>],
          running |-> Idle,
          ppid |-> [p \in Pid |-> 0], waitpid |-> [p \in Pid |-> 0],
          priority |-> [p \in Pid |-> 1], ticks |-> [p \in Pid |-> 1],
          value |-> [p \in Pid |-> 0],
          jiffies |-> 0, stop |-> "no"]
  /\ pc = [p \in Pid |-> "run"]
  /\ value = TRUE
  /\ key_buf = [head |-> 0, tail |-> 1, que |-> [i \in 0 .. KeyBufSize - 1 |-> 0]]
  /\ todo = [p \in Pid |-> 0]
  /\ buf = [p \in Pid |-> <<>>]
  /\ typed = 0

-----------------------------------------------------------------------------
(* kernel/queue.c *)

que_isempty(q) == (q.head + 1) % KeyBufSize = q.tail

que_isfull(q) == q.head = q.tail

que_push(q, c) ==
  [q EXCEPT !.que[q.tail] = c, !.tail = (@ + 1) % KeyBufSize]

\* Bytes in the ring, and n calls of que_pop: what they return, what they leave.
que_len(q) == (q.tail - q.head - 1) % KeyBufSize

que_popped(q, n) == [i \in 1 .. n |-> q.que[(q.head + i) % KeyBufSize]]

que_pop(q, n) == [q EXCEPT !.head = (@ + n) % KeyBufSize]

-----------------------------------------------------------------------------
(* kernel/mutex.c.  A waiter is handed the mutex: value stays FALSE. *)

\* Mutant: value is not looked at.
CanLock_mut == k.list["lock"] = <<>>

CanLock == value /\ k.list["lock"] = <<>>

\* Mutant: the mutex goes to the newest waiter.
mutex_unlock_mut(m) ==
  IF m.list["lock"] = <<>> THEN m ELSE unblock(m, Head(m.list["lock"]))

mutex_unlock(m) ==
  IF m.list["lock"] = <<>> THEN m ELSE unblock(m, Last(m.list["lock"]))

-----------------------------------------------------------------------------
(* kernel/keyboard.c *)

Runs(p) == /\ k.stop = "no"
           /\ k.running = p
           /\ pc[p] = "run"

Min2(a, b) == IF a < b THEN a ELSE b

\* The loop of keyboard_read in a task that holds the mutex and wants `want'
\* more characters after `has': it takes what the buffer holds, then unlocks
\* and returns, or blocks until the next key.
ReadLoop(p, want, has) ==
  LET n == Min2(want, que_len(key_buf))
  IN /\ key_buf' = que_pop(key_buf, n)
     /\ buf' = [buf EXCEPT ![p] = has \o que_popped(key_buf, n)]
     /\ todo' = [todo EXCEPT ![p] = want - n]
     /\ IF n = want
        THEN /\ k' = mutex_unlock(k)
             /\ value' = (k.list["lock"] = <<>>)
             /\ pc' = [pc EXCEPT ![p] = "run"]
        ELSE /\ k' = block(k, "waiter", p, "BLOCKED")
             /\ value' = FALSE
             /\ pc' = [pc EXCEPT ![p] = "keys"]

\* read(stdin, buf, c)
Read ==
  \E p \in Reader, c \in Counts :
    /\ Runs(p)
    /\ IF CanLock
       THEN ReadLoop(p, c, <<>>)
       ELSE /\ k' = block(k, "lock", p, "BLOCKED")
            /\ pc' = [pc EXCEPT ![p] = "lock"]
            /\ todo' = [todo EXCEPT ![p] = c]
            /\ buf' = [buf EXCEPT ![p] = <<>>]
            /\ UNCHANGED <<value, key_buf>>
    /\ UNCHANGED typed

\* block() in mutex_lock returns: the task has been handed the mutex.
LockResume ==
  \E p \in Reader :
    /\ k.stop = "no" /\ k.running = p /\ pc[p] = "lock"
    /\ ReadLoop(p, todo[p], <<>>)
    /\ UNCHANGED typed

\* block() on `waiter' returns: que_pop, without looking at the buffer again.
KeysResume ==
  \E p \in Reader :
    /\ k.stop = "no" /\ k.running = p /\ pc[p] = "keys"
    /\ IF que_isempty(key_buf)
       THEN k' = Halt(k, "assert") /\ UNCHANGED <<pc, value, key_buf, todo, buf>>
       ELSE ReadLoop(p, todo[p], buf[p])
    /\ UNCHANGED typed

\* Mutants: the key wakes nobody; a scan code without a character wakes too.
KeyInt_silent ==
  /\ \E p \in Pid : Runs(p)
  /\ typed < MaxTyped /\ ~que_isfull(key_buf)
  /\ key_buf' = que_push(key_buf, typed + 1)
  /\ typed' = typed + 1
  /\ UNCHANGED <<k, pc, value, todo, buf>>

KeyInt_wakes ==
  /\ \E p \in Pid : Runs(p)
  /\ typed < MaxTyped /\ ~que_isfull(key_buf)
  /\ \/ key_buf' = que_push(key_buf, typed + 1) /\ typed' = typed + 1
     \/ UNCHANGED <<key_buf, typed>>
  /\ k' = IF k.list["waiter"] = <<>> THEN k ELSE unblock(k, Head(k.list["waiter"]))
  /\ UNCHANGED <<pc, value, todo, buf>>

\* keyboard_hander with a scan code that makes a character.
KeyInt ==
  /\ \E p \in Pid : Runs(p)
  /\ typed < MaxTyped
  /\ IF que_isfull(key_buf)
     THEN k' = Halt(k, "assert") /\ UNCHANGED <<key_buf, typed>>
     ELSE /\ key_buf' = que_push(key_buf, typed + 1)
          /\ typed' = typed + 1
          /\ k' = IF k.list["waiter"] = <<>> THEN k
                  ELSE unblock(k, Head(k.list["waiter"]))
  /\ UNCHANGED <<pc, value, todo, buf>>

ClockTick ==
  /\ \E p \in Pid : Runs(p)
  /\ k' = clock_handler(k)
  /\ UNCHANGED <<pc, value, key_buf, todo, buf, typed>>

Halted == k.stop # "no" /\ UNCHANGED vars

Next == Read \/ LockResume \/ KeysResume \/ KeyInt \/ ClockTick \/ Halted

Spec == Init /\ [][Next]_vars

\* The clock keeps ticking and kernel code keeps running; no key need ever be
\* typed and no task need ever read.
FairSpec == Spec /\ WF_vars(ClockTick) /\ WF_vars(LockResume) /\ WF_vars(KeysResume)

-----------------------------------------------------------------------------
(* Properties *)

\* Who holds the mutex: a reader waiting for keys, or one that mutex_unlock has
\* taken off the waiting list and that has not run yet.
Owners == {p \in Reader : pc[p] = "keys" \/ (pc[p] = "lock" /\ k.container[p] # "lock")}

\* The mutex excludes: across blocking, waking and the hand-over from one
\* reader to the next there is one owner at most, and the mutex is free just
\* when there is none.
MutualExclusion ==
  /\ \A p, q \in Owners : p = q
  /\ value <=> Owners = {}

\* No lost wake-up: a reader sleeps on `waiter' only while the buffer is empty.
NoLostKey == k.list["waiter"] # <<>> => que_isempty(key_buf)

\* The only assertion that can fail is the one of a key typed into a full
\* buffer: que_pop after block() never meets an empty one, although the code
\* does not look again.
PopSafe == k.stop = "no" \/ que_isfull(key_buf)

\* The bytes in the ring, and the reads in the order in which they were made.
Contents == que_popped(key_buf, que_len(key_buf))

Requests ==
  LET queue == SetToSeq(Owners) \o Reverse(k.list["lock"])
  IN [i \in 1 .. Len(queue) |-> <<queue[i], todo[queue[i]]>>]

Stream == INSTANCE KeyStream WITH
  Key <- 1 .. MaxTyped, Count <- Counts,
  pending <- Contents, reqs <- Requests, got <- [p \in Reader |-> buf[p]]

\* keyboard_read, with its mutex and its interrupts, implements the stream of
\* module KeyStream: no key is lost, doubled or reordered, and reads are served
\* in order.
ImplementsStream == Stream!Spec

\* Keys in the buffer reach the reader that holds the mutex.
KeysDelivered ==
  \A p \in Reader :
    (p \in Owners /\ ~que_isempty(key_buf))
      ~> (que_isempty(key_buf) \/ p \notin Owners \/ k.stop # "no")
=============================================================================
