------------------------------- MODULE Sched -------------------------------
(***************************************************************************)
(* The kernel's tasks, the lists they sit on and the functions of          *)
(* kernel/list.c, kernel/task.c and kernel/clock.c that move them.         *)
(*                                                                         *)
(* The kernel runs on one processor, and every function below runs with    *)
(* the interrupt flag cleared (an interrupt gate, a system call gate, or   *)
(* get_and_disable_IF), so each is one atomic function from kernel state   *)
(* to kernel state.  A kernel state is a record k:                         *)
(*                                                                         *)
(*   k.state[p]      TCB state of the task in slot p of task_bucket, FREE  *)
(*                   when the slot is NULL                                 *)
(*   k.container[p]  list the node of p is linked on, NoList for NULL      *)
(*   k.list[l]       nodes of list l, first the one after list->end        *)
(*   k.running       running_task, NoTask for NULL                         *)
(*   k.ppid, k.waitpid, k.priority, k.ticks       fields of the TCB        *)
(*   k.value[p]      sort key of the node (wake-up time of a sleeper)      *)
(*   k.jiffies       clock ticks since boot                                *)
(*   k.stop          "no" while the kernel runs; "assert" after a failed   *)
(*                   assertion, "fault" after a NULL dereference, "panic"  *)
(*                   after PANIC: the machine halts in all three           *)
(*                                                                         *)
(* Modules that model a component extend this one and compose these        *)
(* functions into the atomic steps of the component.                       *)
(***************************************************************************)
EXTENDS Integers, Sequences, SequencesExt

CONSTANTS TaskNum,      \* slots of task_bucket (TASK_NUM, 64 in the source)
          Lists,        \* names of the lists a task's node may be linked on
          MaxJiffies    \* the clock of the model stops counting here

\* One slot at least for idle, and the four lists task_init makes.
ASSUME SchedAssumption ==
  /\ TaskNum \in Nat \ {0}
  /\ MaxJiffies \in Nat
  /\ {"ready", "block", "sleep", "died"} \subseteq Lists
  /\ "none" \notin Lists

Pid == 0 .. TaskNum - 1
NoTask == -1
NoList == "none"
AnyChild == -1          \* waitpid(-1, ...): any child

TaskState == {"FREE", "RUNNING", "READY", "BLOCKED", "SLEEPING", "WAITING", "DIED"}
StopReason == {"no", "assert", "fault", "panic"}

KernelState ==
  [state : [Pid -> TaskState], container : [Pid -> Lists \cup {NoList}],
   list : [Lists -> Seq(Pid)], running : Pid \cup {NoTask},
   ppid : [Pid -> Pid], waitpid : [Pid -> Pid \cup {AnyChild}],
   priority : [Pid -> Nat \ {0}], ticks : [Pid -> Nat \ {0}],
   value : [Pid -> Nat], jiffies : Nat, stop : StopReason]

-----------------------------------------------------------------------------
(* kernel/list.c *)

Halt(k, why) == [k EXCEPT !.stop = why]

IndexIn(s, p) == CHOOSE i \in 1 .. Len(s) : s[i] = p

\* Mutant: the node leaves the list but keeps its container.
remove_node_mut(k, p) ==
  [k EXCEPT !.list[k.container[p]] = RemoveAt(@, IndexIn(@, p))]

remove_node(k, p) ==
  IF k.container[p] = NoList
  THEN Halt(k, "assert")
  ELSE LET l == k.container[p]
       IN [k EXCEPT !.list[l] = RemoveAt(@, IndexIn(@, p)),
                    !.container[p] = NoList]

\* insert_before_anchor, with the i-th node of the list as the anchor.
insert_at(k, l, p, i) ==
  [k EXCEPT !.list[l] = InsertAt(@, i, p), !.container[p] = l]

list_push(k, l, p) ==
  IF k.container[p] # NoList THEN Halt(k, "assert") ELSE insert_at(k, l, p, 1)

list_pushback(k, l, p) ==
  IF k.container[p] # NoList
  THEN Halt(k, "assert")
  ELSE insert_at(k, l, p, Len(k.list[l]) + 1)

\* list_insert with the order `greater': before the first node of greater
\* value, so nodes of equal value keep the order of their insertion.  Like the
\* code, it asserts container = NULL only on the two paths through a push.
list_insert(k, l, p) ==
  LET s == k.list[l]
      After == {i \in 1 .. Len(s) : k.value[s[i]] > k.value[p]}
  IN IF After = {}
     THEN list_pushback(k, l, p)
     ELSE insert_at(k, l, p, CHOOSE i \in After : \A j \in After : i <= j)

-----------------------------------------------------------------------------
(* kernel/task.c: the scheduler *)

\* Mutants: the task that is switched away is dropped; the newest ready task
\* runs first; a task other than idle that could go on is not switched away.
schedule_drops(k) ==
  LET next == Last(k.list["ready"])
  IN [remove_node(k, next) EXCEPT !.state[next] = "RUNNING", !.running = next]

schedule_newest(k) ==
  LET next == Head(k.list["ready"])
      k1 == [remove_node(k, next) EXCEPT !.state[next] = "RUNNING", !.running = next]
  IN IF k.list["ready"] = <<>> THEN k
     ELSE IF k.running # NoTask /\ k.container[k.running] = NoList
          THEN list_push([k1 EXCEPT !.state[k.running] = "READY"], "ready", k.running)
          ELSE k1

schedule_keeps(k) ==
  LET next == Last(k.list["ready"])
      k1 == [remove_node(k, next) EXCEPT !.state[next] = "RUNNING", !.running = next]
  IN IF k.list["ready"] = <<>> \/ (k.running # 0 /\ k.container[k.running] = NoList) THEN k
     ELSE IF k.container[k.running] = NoList
          THEN list_push([k1 EXCEPT !.state[k.running] = "READY"], "ready", k.running)
          ELSE k1

\* A task whose node is on no list is still runnable and goes to the head of
\* ready; the tail of ready runs next.  The first switch (running_task NULL)
\* leaves the state of the task it starts READY.
schedule(k) ==
  LET ready == k.list["ready"]
      next == Last(ready)
      cur == k.running
      k1 == remove_node(k, next)
      k2 == [k1 EXCEPT !.state[next] = "RUNNING"]
      k3 == IF k2.container[cur] = NoList
            THEN list_push([k2 EXCEPT !.state[cur] = "READY"], "ready", cur)
            ELSE k2
  IN IF ready = <<>>
     THEN IF cur # NoTask /\ k.state[cur] = "RUNNING" THEN k ELSE Halt(k, "assert")
     ELSE IF cur = NoTask
          THEN [k1 EXCEPT !.running = next]
          ELSE [k3 EXCEPT !.running = next]

block(k, l, p, st) ==
  LET k1 == [k EXCEPT !.state[p] = st]
      k2 == IF k1.container[p] # NoList THEN remove_node(k1, p) ELSE k1
  IN schedule(list_push(k2, l, p))

\* Mutant: the node is not taken off the list it waits on.
unblock_mut(k, p) == [list_push(k, "ready", p) EXCEPT !.state[p] = "READY"]

unblock(k, p) ==
  [list_push(remove_node(k, p), "ready", p) EXCEPT !.state[p] = "READY"]

\* The sleep list is sorted by wake-up time; the kernel's division of the time
\* by JIFFY, rounded up, has given `t' ticks.
task_sleep(k, t) ==
  LET p == k.running
  IN schedule(list_insert([k EXCEPT !.value[p] = k.jiffies + t,
                                    !.state[p] = "SLEEPING"], "sleep", p))

\* Mutants: the sleeper wakes a tick early; a tick late.
weakup_early(k) ==
  LET s == k.list["sleep"]
  IN IF s # <<>> /\ k.jiffies + 1 >= k.value[Head(s)] THEN unblock(k, Head(s)) ELSE k

weakup_late(k) ==
  LET s == k.list["sleep"]
  IN IF s # <<>> /\ k.jiffies > k.value[Head(s)] THEN unblock(k, Head(s)) ELSE k

\* At most one sleeper is woken by a tick.
weakup(k) ==
  LET s == k.list["sleep"]
      p == Head(s)
  IN IF s # <<>> /\ k.jiffies >= k.value[p]
     THEN list_push([remove_node(k, p) EXCEPT !.state[p] = "READY"], "ready", p)
     ELSE k

\* Mutant: the time slice is over one tick too late.
clock_handler_mut(k) ==
  LET p == k.running
  IN IF p = NoTask THEN schedule(k)
     ELSE IF k.ticks[p] = 0 THEN schedule([weakup(k) EXCEPT !.ticks[p] = k.priority[p]])
     ELSE [weakup(k) EXCEPT !.ticks[p] = @ - 1]

\* The clock interrupt (kernel/clock.c).  MaxJiffies bounds the model: at the
\* bound the tick does everything but count.
clock_handler(k) ==
  LET p == k.running
      k1 == [k EXCEPT !.jiffies = IF @ < MaxJiffies THEN @ + 1 ELSE @]
      k2 == weakup(k1)
  IN IF p = NoTask
     THEN schedule(k)
     ELSE IF k.ticks[p] = 1
          THEN schedule([k2 EXCEPT !.ticks[p] = k.priority[p]])
          ELSE [k2 EXCEPT !.ticks[p] = @ - 1]

-----------------------------------------------------------------------------
(* kernel/task.c: the task table *)

FreeSlots(k) == {p \in Pid : k.state[p] = "FREE"}

\* The slot get_task takes: the first free one.
get_task(k) == CHOOSE p \in FreeSlots(k) : \A q \in FreeSlots(k) : p <= q

\* The fields of the TCB and the node in slot c, with a full time slice.
set_slot(k, c, st, ppid, waitpid, priority, value) ==
  [k EXCEPT !.state[c] = st, !.ppid[c] = ppid, !.waitpid[c] = waitpid,
            !.priority[c] = priority, !.ticks[c] = priority, !.value[c] = value]

\* Mutant: the child is its own parent.
fork_mut(k) ==
  LET c == get_task(k)
  IN IF FreeSlots(k) = {} THEN Halt(k, "panic")
     ELSE list_push(set_slot(k, c, "READY", c, 0, k.priority[k.running], 0), "ready", c)

\* sys_fork: the child is a copy of its parent but for its pid, its parent and
\* a full time slice.
fork(k) ==
  LET p == k.running
      c == get_task(k)
  IN IF FreeSlots(k) = {}
     THEN Halt(k, "panic")
     ELSE list_push(set_slot(k, c, "READY", p, k.waitpid[p], k.priority[p], 0),
                    "ready", c)

\* task_create of a kernel thread by the running task.
task_create(k, priority) ==
  LET c == get_task(k)
  IN IF FreeSlots(k) = {}
     THEN Halt(k, "panic")
     ELSE list_push(set_slot(k, c, "READY", k.running, 0, priority, priority),
                    "ready", c)

\* Mutants: the loop over the children stops at the first one; orphans go to
\* idle.
adopt_first(k, p) ==
  LET C == {c \in Pid : k.state[c] # "FREE" /\ k.ppid[c] = p}
  IN IF C = {} THEN k
     ELSE [k EXCEPT !.ppid[CHOOSE c \in C : \A d \in C : c <= d] = k.ppid[p]]

adopt_idle(k, p) ==
  [k EXCEPT !.ppid = [c \in Pid |-> IF @[c] = p THEN 0 ELSE @[c]]]

\* What sys_exit and kernel_thread_exit both do: children go to the
\* grandparent, and a parent waiting for this task is made ready.
adopt(k, p) ==
  [k EXCEPT !.ppid = [c \in Pid |-> IF k.state[c] # "FREE" /\ @[c] = p
                                    THEN @[p] ELSE @[c]]]

\* Mutant: the waiting parent is not made ready.
wake_parent_mut(k, p) == IF k.state[k.ppid[p]] = "FREE" THEN Halt(k, "fault") ELSE k

wake_parent(k, p) ==
  LET par == k.ppid[p]
  IN IF k.state[par] = "FREE"
     THEN Halt(k, "fault")
     ELSE IF k.state[par] = "WAITING" /\ k.waitpid[par] \in {AnyChild, p}
          THEN unblock(k, par)
          ELSE k

sys_exit(k) ==
  LET p == k.running
      k1 == [list_push(k, "died", p) EXCEPT !.state[p] = "DIED"]
  IN schedule(wake_parent(adopt(k1, p), p))

\* Mutant: a thread that does not run is not taken off its list.
kernel_thread_exit_mut(k, th) ==
  wake_parent([list_push(adopt(k, th), "died", th) EXCEPT !.state[th] = "DIED"], th)

\* kernel_thread_exit, which a thread calls for itself and the hba interrupt
\* handler for another thread.
kernel_thread_exit(k, th) ==
  LET k1 == adopt(k, th)
      k2 == IF th # k.running THEN remove_node(k1, th) ELSE k1
      k3 == wake_parent([list_push(k2, "died", th) EXCEPT !.state[th] = "DIED"], th)
  IN IF th = k.running THEN schedule(k3) ELSE k3

\* The children waitpid(arg) looks at, and the one its loop stops at.
Matching(k, p, arg) ==
  {c \in Pid : /\ k.state[c] # "FREE" /\ k.ppid[c] = p
               /\ arg \in {AnyChild, c}}

FirstMatch(k, p, arg) ==
  CHOOSE c \in Matching(k, p, arg) : \A d \in Matching(k, p, arg) : c <= d

\* Mutant: the slot of task_bucket is not cleared.
freeTask_mut(k, c) == remove_node(k, c)

\* The label freeTask of sys_waitpid.  The page of the TCB is freed: its fields
\* mean nothing until get_task takes the slot again, and get one fixed value.
freeTask(k, c) == remove_node(set_slot(k, c, "FREE", 0, 0, 1, 0), c)

-----------------------------------------------------------------------------
(* What the lists of list.c must always satisfy *)

\* A node on a list names that list as its container and is on it once, and a
\* node with a container is on that list.
WellLinked(k) ==
  /\ \A l \in Lists : \A i \in 1 .. Len(k.list[l]) : k.container[k.list[l][i]] = l
  /\ \A l \in Lists : \A i, j \in 1 .. Len(k.list[l]) :
       k.list[l][i] = k.list[l][j] => i = j
  /\ \A p \in Pid : k.container[p] # NoList =>
       \E i \in 1 .. Len(k.list[k.container[p]]) : k.list[k.container[p]][i] = p
=============================================================================
