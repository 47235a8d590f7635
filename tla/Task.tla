-------------------------------- MODULE Task --------------------------------
(***************************************************************************)
(* Processes of the RDIX kernel: preemption by the clock, fork, exit,      *)
(* waitpid, sleep and yield, over the scheduler of module Sched.           *)
(*                                                                         *)
(* A task is switched away from only inside schedule(), so a system call   *)
(* is one atomic step, split where it calls block(): sys_waitpid has a     *)
(* second step, taken when the blocked parent runs again (pc "waitpid").   *)
(* The clock interrupts a task only outside the kernel (pc "run"), since   *)
(* the interrupt flag is clear inside.                                     *)
(***************************************************************************)
EXTENDS Sched

CONSTANTS WaitArgs,       \* arguments of waitpid: pids, or AnyChild
          SleepTicks,     \* lengths of a sleep, in ticks
          UserPriority,   \* time slice of every task but idle (3 in task_init)
          HasEnum         \* is the usb_enum thread (slot 2) started

ASSUME TaskAssumption ==
  /\ WaitArgs \subseteq Pid \cup {AnyChild}
  /\ SleepTicks \subseteq Nat
  /\ UserPriority \in Nat \ {0}
  /\ HasEnum \in BOOLEAN
  /\ TaskNum >= 3

VARIABLES k,      \* the kernel state
          pc,     \* pc[p]: "run", or where p continues inside the kernel
          child   \* child[p]: the local variable of sys_waitpid

vars == <<k, pc, child>>

Idle == 0
InitTask == 1
EnumTask == 2
BootTasks == {Idle, InitTask} \cup (IF HasEnum THEN {EnumTask} ELSE {})

\* task_init: the tasks are pushed in the order of their pids, and all get
\* ppid 0, idle included, as no task runs yet.
Init ==
  /\ k = [state |-> [p \in Pid |-> IF p \in BootTasks THEN "READY" ELSE "FREE"],
          container |-> [p \in Pid |-> IF p \in BootTasks THEN "ready" ELSE NoList],
          list |-> [l \in Lists |->
                      IF l # "ready" THEN <<>>
                      ELSE IF HasEnum THEN <<EnumTask, InitTask, Idle>>
                           ELSE <<InitTask, Idle>>],
          running |-> NoTask,
          ppid |-> [p \in Pid |-> 0], waitpid |-> [p \in Pid |-> 0],
          priority |-> [p \in Pid |-> IF p \in BootTasks \ {Idle} THEN UserPriority ELSE 1],
          ticks |-> [p \in Pid |-> IF p \in BootTasks \ {Idle} THEN UserPriority ELSE 1],
          value |-> [p \in Pid |-> IF p \in BootTasks \ {Idle} THEN UserPriority
                                   ELSE IF p = Idle THEN 1 ELSE 0],
          jiffies |-> 0, stop |-> "no"]
  /\ pc = [p \in Pid |-> "run"]
  /\ child = [p \in Pid |-> NoTask]

-----------------------------------------------------------------------------
\* Task p is running outside the kernel, with interrupts enabled.
Runs(p) == /\ k.stop = "no"
           /\ k.running = p
           /\ pc[p] = "run"

\* idle and usb_enum are kernel threads; only user tasks make system calls.
IsUser(p) == p \in Pid \ {Idle} /\ (HasEnum => p # EnumTask)

Local == <<pc, child>>

\* The first clock interrupt starts the first task.
ClockFirst ==
  /\ k.stop = "no" /\ k.running = NoTask
  /\ k' = clock_handler(k)
  /\ UNCHANGED Local

ClockTick ==
  /\ \E p \in Pid : Runs(p)
  /\ k' = clock_handler(k)
  /\ UNCHANGED Local

\* sys_yield of a user task, and the schedule() in the loop of __idle.
Yield ==
  /\ \E p \in Pid : Runs(p) /\ (IsUser(p) \/ p = Idle)
  /\ k' = schedule(k)
  /\ UNCHANGED Local

\* The child continues where the parent called fork.
Fork ==
  /\ \E p \in Pid : Runs(p) /\ IsUser(p)
  /\ k' = fork(k)
  /\ UNCHANGED Local

Exit ==
  /\ \E p \in Pid : Runs(p) /\ IsUser(p)
  /\ k' = sys_exit(k)
  /\ UNCHANGED Local

\* The model's horizon: the clock still counts while the last of all user tasks,
\* if they sleep to the same tick, waits for its wake-up.
Sleep ==
  \E p \in Pid, t \in SleepTicks :
    /\ Runs(p) /\ IsUser(p)
    /\ k.jiffies + t + Cardinality({q \in Pid : IsUser(q)}) <= MaxJiffies + 2
    /\ k' = task_sleep(k, t)
    /\ UNCHANGED Local

\* freeTask gives back the slot of c, its kernel stack included, and p returns
\* from the system call.
Reap(p, c) ==
  /\ k' = freeTask(k, c)
  /\ pc' = [pc EXCEPT ![p] = "run", ![c] = "run"]
  /\ child' = [child EXCEPT ![p] = NoTask, ![c] = NoTask]

\* Mutant: the state of the child is not looked at.
WaitPid_mut ==
  \E p \in Pid, arg \in WaitArgs :
    /\ Runs(p) /\ IsUser(p)
    /\ Matching(k, p, arg) # {}
    /\ Reap(p, FirstMatch(k, p, arg))

WaitPid ==
  \E p \in Pid, arg \in WaitArgs :
    /\ Runs(p) /\ IsUser(p)
    /\ Matching(k, p, arg) # {}         \* otherwise it returns -1
    /\ LET c == FirstMatch(k, p, arg)
       IN IF k.state[c] = "DIED"
          THEN Reap(p, c)
          ELSE /\ k' = block([k EXCEPT !.waitpid[p] = arg], "block", p, "WAITING")
               /\ pc' = [pc EXCEPT ![p] = "waitpid"]
               /\ child' = [child EXCEPT ![p] = c]

\* sys_waitpid after block() has returned: goto freeTask.
WaitPidResume ==
  \E p \in Pid :
    /\ k.stop = "no" /\ k.running = p /\ pc[p] = "waitpid"
    /\ Reap(p, child[p])

\* usb_device_enumeration blocks when dev_enum_list is empty, and the xHCI
\* interrupt handler unblocks it when it finds it WAITING.
EnumWait ==
  /\ HasEnum /\ Runs(EnumTask)
  /\ k' = block(k, "block", EnumTask, "WAITING")
  /\ UNCHANGED Local

EnumWake ==
  /\ HasEnum /\ k.state[EnumTask] = "WAITING"
  /\ \E p \in Pid : Runs(p)
  /\ k' = unblock(k, EnumTask)
  /\ UNCHANGED Local

\* A failed assertion and PANIC stop the machine.
Halted == k.stop # "no" /\ UNCHANGED vars

Next == \/ ClockFirst \/ ClockTick \/ Yield \/ Fork \/ Exit \/ Sleep
        \/ WaitPid \/ WaitPidResume \/ EnumWait \/ EnumWake \/ Halted

Spec == Init /\ [][Next]_vars

\* The clock keeps ticking, and the processor keeps executing kernel code.
\* No user task is assumed to do anything.
FairSpec == Spec /\ WF_vars(ClockFirst) /\ WF_vars(ClockTick)
                 /\ WF_vars(WaitPidResume)

-----------------------------------------------------------------------------
(* Properties *)

\* The TCBs and lists hold what their types in task.h and list.h say; a time
\* slice is never zero, so --ticks in the clock handler ends it.
TypeOK ==
  /\ k \in KernelState
  /\ pc \in [Pid -> {"run", "waitpid"}]
  /\ child \in [Pid -> Pid \cup {NoTask}]

\* The lists of list.c are what schedule() and remove_node() take them for: a
\* node on a list names that list as its container, is on it once, and a node
\* with a container is on that list.
Linked == WellLinked(k)

\* Every task but the running one is linked on the list of its state.
Placed(m) ==
  \A p \in Pid \ {m.running} :
    <<m.state[p], m.container[p]>> \in
      {<<"FREE", NoList>>, <<"READY", "ready">>, <<"SLEEPING", "sleep">>,
       <<"WAITING", "block">>, <<"DIED", "died">>}

\* No task is lost: every task in the bucket is the running one or is linked on
\* the list of its state, whatever order of fork, exit, block and tick led
\* here.  (A task on no list could never run again.)
NotLost == Placed(k)

\* No assertion of list.c and task.c fails and no NULL slot of task_bucket is
\* dereferenced; in particular schedule() never finds the ready list empty
\* while the task it leaves has blocked (task.c:188).
NoAssert == k.stop \notin {"assert", "fault"}

\* Idle is always runnable, the running task is on no list,
\* and it is RUNNING but for the first task started, which stays READY while
\* init is still on the ready list.
IdleReady(m) == m.running = Idle \/ m.container[Idle] = "ready"

RunningOK(m) ==
  m.running # NoTask =>
    /\ m.container[m.running] = NoList
    /\ \/ m.state[m.running] = "RUNNING"
       \/ m.running = Idle /\ m.state[Idle] = "READY" /\ m.container[InitTask] = "ready"

\* What makes NoAssert true: see IdleReady and RunningOK.
IdleRunnable == IdleReady(k) /\ RunningOK(k)

\* The parent of every task in the bucket is a task that has not exited: the
\* dereference of task_bucket[task->ppid] in sys_exit is safe.
ParentAlive ==
  \A p \in Pid : k.state[p] # "FREE" => k.state[k.ppid[p]] \notin {"FREE", "DIED"}

\* Parents lead to idle: no set of tasks is closed under `parent of' unless it
\* holds idle, so nobody is its own ancestor and every orphan has a parent that
\* can reap it.
Ancestry ==
  \A S \in SUBSET {p \in Pid \ {Idle} : k.state[p] # "FREE"} :
    S # {} => \E p \in S : k.ppid[p] \notin S

\* The first task started is idle, and it leaves init on the ready list.
BootOrder ==
  k.running = NoTask => /\ k.container[InitTask] = "ready"
                        /\ k.list["ready"] # <<>> /\ Last(k.list["ready"]) = Idle

\* Who waits for whom.  A task inside waitpid has an unreaped child it looks
\* for; no task is the child of a kernel thread other than idle.
WaitTarget ==
  /\ \A p \in Pid : pc[p] = "waitpid" =>
       /\ IsUser(p) /\ k.state[p] \notin {"FREE", "DIED"}
       /\ child[p] \in Pid \ {p} /\ k.state[child[p]] # "FREE"
       /\ k.ppid[child[p]] = p
  /\ \A p \in Pid : k.state[p] = "WAITING" => pc[p] = "waitpid" \/ ~IsUser(p)
  /\ \A p \in Pid : k.state[p] # "FREE" => k.ppid[p] = Idle \/ IsUser(k.ppid[p])

\* With a pid as its argument, waitpid sleeps only while that child lives, and
\* is awake only after it has exited.
WaitAwake ==
  \A p \in Pid : pc[p] = "waitpid" =>
    IF k.state[p] = "WAITING"
    THEN k.waitpid[p] = child[p] /\ k.state[child[p]] # "DIED"
    ELSE k.state[child[p]] = "DIED"

\* weakup() wakes one sleeper per tick, so a sleeper can be late.  Only the other
\* user tasks can delay it, each by one tick, and those still ahead of it on the
\* list have not done so yet; a sleep of zero ticks is late by the first of them.
LatenessBound ==
  LET users == Cardinality({p \in Pid : IsUser(p)})
      slack == IF 0 \in SleepTicks THEN 0 ELSE 1
  IN  \A i \in 1 .. Len(k.list["sleep"]) :
        k.jiffies + i + slack <= k.value[k.list["sleep"][i]] + users

\* No task is woken from sleep() before its time.
NeverEarly ==
  [][\A p \in Pid : k.state[p] = "SLEEPING" /\ k'.state[p] # "SLEEPING"
       => k'.jiffies >= k.value[p]]_vars

\* waitpid releases the slot of a task only after the task has exited.
ReapOnlyDied ==
  [][\A p \in Pid : k.state[p] # "FREE" /\ k'.state[p] = "FREE"
       => k.state[p] = "DIED"]_vars

\* What processes see of a task.
Proc == [p \in Pid |-> IF k.state[p] = "FREE" THEN "free"
                      ELSE IF k.state[p] = "DIED" THEN "zombie" ELSE "live"]

Lifecycle == INSTANCE Process WITH
  Slot <- Pid, Root <- Idle, Boot <- BootTasks, proc <- Proc, parent <- k.ppid

\* fork, exit and waitpid, with all that the scheduler does around them,
\* implement the process life cycle of module Process.
ImplementsLifecycle == Lifecycle!Spec

\* Round robin starves nobody: a ready task runs, unless the kernel stops.
ReadyRuns ==
  \A p \in Pid : k.state[p] = "READY" ~> (k.running = p \/ k.stop # "no")

\* A parent blocked in waitpid returns once the child it waits for has exited:
\* the wake-up in sys_exit is not lost.
WaitReturns ==
  \A p \in Pid :
    (pc[p] = "waitpid" /\ k.state[child[p]] = "DIED")
      ~> (pc[p] = "run" \/ k.stop # "no")
=============================================================================
