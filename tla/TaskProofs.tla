----------------------------- MODULE TaskProofs -----------------------------
(***************************************************************************)
(* The scheduler and the process life cycle are safe for every number of   *)
(* slots, every time slice and every clock bound, when waitpid is called   *)
(* with a pid, as all callers in the repository do.                        *)
(***************************************************************************)
EXTENDS Task, SchedProofs

\* The inductive invariant.  NoAssert is not inductive alone: that schedule()
\* finds a task needs IdleRunnable, which needs every list operation to do what
\* it says (Linked), every task to be where its state says (NotLost), and
\* waitpid to wake up only for an exited child (WaitTarget, WaitAwake).
IInv == /\ TypeOK /\ Linked /\ NotLost /\ NoAssert /\ IdleRunnable
        /\ ParentAlive /\ Ancestry /\ BootOrder /\ WaitTarget /\ WaitAwake

\* The slots of the boot tasks and the names of the lists are distinct.
LEMMA Numbers ==
  /\ Idle \in Pid /\ InitTask \in Pid /\ EnumTask \in Pid /\ NoTask \notin Pid
  /\ Idle # InitTask /\ Idle # EnumTask /\ InitTask # EnumTask
  /\ {"ready", "block", "sleep", "died"} \subseteq Lists /\ NoList \notin Lists
BY SchedAssumption, TaskAssumption DEF Pid, Idle, InitTask, EnumTask, NoTask, NoList

\* States of a task that fork, exit and waitpid do not tell apart; the usb_enum
\* thread may be WAITING as well, for the xHCI interrupt.
Active(p) == IF HasEnum /\ p = EnumTask
             THEN {"RUNNING", "READY", "SLEEPING", "WAITING"}
             ELSE {"RUNNING", "READY", "SLEEPING"}

\* A change the life cycle of processes does not see.
Quiet(m, n) ==
  /\ n.stop \in {m.stop, "panic"} /\ n.ppid = m.ppid /\ n.waitpid = m.waitpid
  /\ \A p \in Pid : \/ n.state[p] = m.state[p]
                    \/ n.state[p] \in Active(p) /\ m.state[p] \in Active(p)

\* No sleeper is woken.
Asleep(m, n) == \A p \in Pid : m.state[p] = "SLEEPING" => n.state[p] = "SLEEPING"

\* The part of that which processes see.
SameLife(m, n) ==
  /\ n.ppid = m.ppid
  /\ \A p \in Pid : n.state[p] = "FREE" <=> m.state[p] = "FREE"
  /\ \A p \in Pid : n.state[p] = "DIED" <=> m.state[p] = "DIED"

\* Task p reaps its exited child c.
Reaps(p, c) ==
  /\ Reap(p, c) /\ k.running = p /\ IsUser(p)
  /\ k.state[c] = "DIED" /\ k.ppid[c] = p

\* What holds between two steps of the kernel.
Settled(m) == /\ KernelOK(m) /\ m.running \in Pid
              /\ Placed(m) /\ IdleReady(m) /\ RunningOK(m)

\* schedule() finds a task to run, and everything is in place afterwards.
LEMMA Switch ==
  ASSUME NEW m, KernelOK(m), m.running \in Pid, Placed(m),
         m.running # Idle => m.container[Idle] = "ready",
         \/ RunningOK(m)
         \/ /\ m.running # Idle
            /\ <<m.state[m.running], m.container[m.running]>> \in
                 {<<"SLEEPING", "sleep">>, <<"WAITING", "block">>, <<"DIED", "died">>}
  PROVE  /\ Settled(schedule(m)) /\ Quiet(m, schedule(m))
         /\ Asleep(m, schedule(m)) /\ schedule(m).jiffies = m.jiffies
<1> DEFINE n == schedule(m)
           cur == m.running
<1>0. /\ m.container \in [Pid -> Lists \cup {NoList}] /\ m.state \in [Pid -> TaskState]
  BY DEF KernelOK, KernelState
<1>1. CASE \E q \in Pid : m.container[q] = "ready"
  <2>1. m.container[cur] # "ready"
    BY Numbers DEF RunningOK
  <2>2. PICK next \in Pid :
          /\ m.container[next] = "ready"
          /\ KernelOK(n) /\ SameFields(m, n) /\ n.stop = m.stop
          /\ n.running = next
          /\ n.state = IF m.container[cur] = NoList
                       THEN [[m.state EXCEPT ![next] = "RUNNING"] EXCEPT ![cur] = "READY"]
                       ELSE [m.state EXCEPT ![next] = "RUNNING"]
          /\ n.container = IF m.container[cur] = NoList
                           THEN [[m.container EXCEPT ![next] = NoList] EXCEPT ![cur] = "ready"]
                           ELSE [m.container EXCEPT ![next] = NoList]
    BY <1>1, <2>1, Schedule
  <2>3. next # cur /\ n.state[next] = "RUNNING" /\ n.container[next] = NoList
    BY <1>0, <2>1, <2>2
  <2>4. \A p \in Pid \ {next, cur} : n.state[p] = m.state[p] /\ n.container[p] = m.container[p]
    BY <1>0, <2>2
  <2>5. IF m.container[cur] = NoList
        THEN n.state[cur] = "READY" /\ n.container[cur] = "ready"
        ELSE n.state[cur] = m.state[cur] /\ n.container[cur] = m.container[cur]
    BY <1>0, <2>2, <2>3
  <2>6. m.state[next] = "READY"
    BY <2>2, <2>3 DEF Placed, NoList
  <2> HIDE DEF n
  <2>7. Placed(n)
    <3> SUFFICES ASSUME NEW p \in Pid \ {next}
                 PROVE  <<n.state[p], n.container[p]>> \in
                   {<<"FREE", NoList>>, <<"READY", "ready">>, <<"SLEEPING", "sleep">>,
                    <<"WAITING", "block">>, <<"DIED", "died">>}
      BY <2>2 DEF Placed
    <3>1. CASE p = cur
      BY <3>1, <2>5 DEF RunningOK, NoTask, Pid
    <3>2. CASE p # cur
      BY <3>2, <2>4 DEF Placed
    <3> QED BY <3>1, <3>2
  <2>8. IdleReady(n)
    BY <2>2, <2>4, <2>5, Numbers DEF IdleReady, RunningOK
  <2>9. RunningOK(n)
    BY <2>2, <2>3 DEF RunningOK
  <2>10. Quiet(m, n)
    <3>1. n.ppid = m.ppid /\ n.waitpid = m.waitpid /\ n.stop = m.stop
      BY <2>2 DEF SameFields
    <3>2. ASSUME NEW p \in Pid
          PROVE  \/ n.state[p] = m.state[p]
                 \/ n.state[p] \in Active(p) /\ m.state[p] \in Active(p)
      <4>1. CASE p = cur
        BY <4>1, <2>5, Numbers DEF RunningOK, Active
      <4>2. CASE p = next
        BY <4>2, <2>3, <2>6 DEF Active
      <4> QED BY <4>1, <4>2, <2>4
    <3> QED BY <3>1, <3>2 DEF Quiet
  <2>11. Asleep(m, n) /\ n.jiffies = m.jiffies
    BY <2>2, <2>4, <2>5, <2>6 DEF Asleep, SameFields, RunningOK, NoTask, NoList, Pid
  <2> QED BY <2>2, <2>7, <2>8, <2>9, <2>10, <2>11 DEF Settled, n
<1>2. CASE ~ \E q \in Pid : m.container[q] = "ready"
  <2>1. cur = Idle /\ RunningOK(m)
    BY <1>2, Numbers
  <2>2. m.state[cur] = "RUNNING"
    BY <1>2, <2>1, Numbers DEF RunningOK
  <2>3. n = m
    BY <1>2, <2>2, ScheduleAlone
  <2> QED BY <2>1, <2>3 DEF Settled, Quiet, IdleReady, Asleep
<1> QED BY <1>1, <1>2

\* Quiet changes compose.
LEMMA QuietTrans ==
  ASSUME NEW m, NEW n, NEW o, Quiet(m, n), Quiet(n, o)
  PROVE  Quiet(m, o)
BY DEF Quiet

\* A quiet step that leaves the scheduler settled keeps the invariant.
LEMMA QuietKeeps ==
  ASSUME IInv, Settled(k'), Quiet(k, k'), UNCHANGED <<pc, child>>
  PROVE  IInv'
<1>1. TypeOK' /\ Linked' /\ NotLost' /\ NoAssert' /\ IdleRunnable' /\ BootOrder'
  BY Numbers DEF IInv, Settled, Quiet, KernelOK, TypeOK, Linked, NotLost, NoAssert,
     IdleRunnable, BootOrder
<1>2. /\ \A p \in Pid : k.ppid[p] \in Pid
      /\ \A p \in Pid : child[p] \in Pid \cup {NoTask}
      /\ k'.ppid = k.ppid /\ k'.waitpid = k.waitpid
  BY DEF IInv, TypeOK, KernelState, Quiet
<1>3. \A p \in Pid : /\ k'.state[p] = "FREE" <=> k.state[p] = "FREE"
                     /\ k'.state[p] = "DIED" <=> k.state[p] = "DIED"
  BY DEF Quiet, Active
<1>8. ASSUME NEW p \in Pid, IsUser(p)
      PROVE  k'.state[p] = "WAITING" <=> k.state[p] = "WAITING"
  BY <1>8 DEF Quiet, Active, IsUser
<1>4. ParentAlive'
  <2> SUFFICES ASSUME NEW p \in Pid, k'.state[p] # "FREE"
               PROVE  k'.state[k'.ppid[p]] \notin {"FREE", "DIED"}
    BY DEF ParentAlive
  <2>1. k.state[p] # "FREE" /\ k.ppid[p] \in Pid /\ k'.ppid[p] = k.ppid[p]
    BY <1>2, <1>3
  <2>2. k.state[k.ppid[p]] \notin {"FREE", "DIED"}
    BY <2>1 DEF IInv, ParentAlive
  <2> QED BY <2>1, <2>2, <1>3
<1>5. Ancestry'
  <2>1. {p \in Pid \ {Idle} : k'.state[p] # "FREE"} = {p \in Pid \ {Idle} : k.state[p] # "FREE"}
    BY <1>3
  <2> QED BY <2>1, <1>2 DEF IInv, Ancestry
<1>6. WaitTarget'
  <2>1. ASSUME NEW p \in Pid, pc'[p] = "waitpid"
        PROVE  /\ IsUser(p) /\ k'.state[p] \notin {"FREE", "DIED"}
               /\ child'[p] \in Pid \ {p} /\ k'.state[child'[p]] # "FREE"
               /\ k'.ppid[child'[p]] = p
    <3>1. /\ IsUser(p) /\ k.state[p] \notin {"FREE", "DIED"}
          /\ child[p] \in Pid \ {p} /\ k.state[child[p]] # "FREE"
          /\ k.ppid[child[p]] = p
      BY <2>1 DEF IInv, WaitTarget
    <3> QED BY <3>1, <1>2, <1>3
  <2>2. ASSUME NEW p \in Pid, k'.state[p] = "WAITING"
        PROVE  pc'[p] = "waitpid" \/ ~IsUser(p)
    BY <2>2, <1>8 DEF IInv, WaitTarget
  <2>3. ASSUME NEW p \in Pid, k'.state[p] # "FREE"
        PROVE  k'.ppid[p] = Idle \/ IsUser(k'.ppid[p])
    BY <2>3, <1>2, <1>3 DEF IInv, WaitTarget
  <2> QED BY <2>1, <2>2, <2>3 DEF WaitTarget, IsUser
<1>7. WaitAwake'
  BY <1>2, <1>3, <1>8 DEF IInv, WaitAwake, WaitTarget
<1> QED BY <1>1, <1>4, <1>5, <1>6, <1>7 DEF IInv

\* Waking a sleeper is quiet.
LEMMA SettledWeakup ==
  ASSUME NEW m, Settled(m)
  PROVE  /\ Settled(weakup(m)) /\ Quiet(m, weakup(m))
         /\ weakup(m).running = m.running /\ weakup(m).ticks = m.ticks
         /\ weakup(m).jiffies = m.jiffies
         /\ \A p \in Pid : m.state[p] = "SLEEPING"
              => weakup(m).state[p] = "SLEEPING" \/ m.jiffies >= m.value[p]
<1> DEFINE n == weakup(m)
<1>1. CASE n = m
  BY <1>1 DEF Quiet
<1>2. CASE n # m
  <2>1. PICK p \in Pid : /\ m.container[p] = "sleep" /\ m.jiffies >= m.value[p]
                         /\ KernelOK(n) /\ SameFields(m, n)
                         /\ n.running = m.running /\ n.stop = m.stop
                         /\ n.state = [m.state EXCEPT ![p] = "READY"]
                         /\ n.container = [m.container EXCEPT ![p] = "ready"]
    BY <1>2, Weakup DEF Settled
  <2> HIDE DEF n
  <2>2. /\ m.container \in [Pid -> Lists \cup {NoList}] /\ m.state \in [Pid -> TaskState]
    BY DEF Settled, KernelOK, KernelState
  <2>4. p # m.running /\ p # Idle /\ m.state[p] = "SLEEPING"
    BY <2>1, Numbers DEF Settled, RunningOK, IdleReady, NoList, Placed, NoTask
  <2>5. Placed(n) /\ IdleReady(n) /\ RunningOK(n)
    BY <2>1, <2>2, <2>4, Numbers DEF Settled, RunningOK, IdleReady, Placed
  <2>6. Quiet(m, n)
    BY <2>1, <2>2, <2>4 DEF Quiet, Active, SameFields
  <2> QED BY <2>1, <2>2, <2>5, <2>6 DEF Settled, SameFields, n
<1> QED BY <1>1, <1>2

-----------------------------------------------------------------------------
(* One lemma per action *)

\* Between two steps the kernel is settled, by the inductive invariant.
LEMMA IInvSettled ==
  ASSUME IInv, k.running \in Pid
  PROVE  Settled(k)
BY DEF IInv, TypeOK, Linked, NotLost, IdleRunnable, Settled, KernelOK

\* The first clock interrupt starts idle and leaves init ready.
LEMMA ClockFirstKeeps ==
  ASSUME IInv, ClockFirst
  PROVE  IInv' /\ Quiet(k, k') /\ Asleep(k, k')
<1>1. /\ KernelOK(k) /\ k.running = NoTask /\ k.list["ready"] # <<>>
      /\ Last(k.list["ready"]) = Idle /\ k.container[InitTask] = "ready"
      /\ Placed(k)
  BY DEF IInv, TypeOK, Linked, KernelOK, ClockFirst, BootOrder, NotLost
<1>2. k' = schedule(k)
  BY <1>1 DEF ClockFirst, clock_handler
<1>3. /\ k.container[Idle] = "ready" /\ KernelOK(k') /\ SameFields(k, k')
      /\ k'.stop = k.stop /\ k'.running = Idle /\ k'.state = k.state
      /\ k'.container = [k.container EXCEPT ![Idle] = NoList]
  BY <1>1, <1>2, ScheduleFirst
<1>4. k.container \in [Pid -> Lists \cup {NoList}] /\ k.state \in [Pid -> TaskState]
  BY <1>1 DEF KernelOK, KernelState
<1>5. k.state[Idle] = "READY"
  BY <1>1, <1>3, Numbers DEF Placed, NoList
<1>6. Settled(k')
  BY <1>1, <1>3, <1>4, <1>5, Numbers DEF Settled, Placed, IdleReady, RunningOK
<1>7. Quiet(k, k') /\ Asleep(k, k')
  BY <1>3 DEF Quiet, SameFields, Asleep
<1> QED BY <1>6, <1>7, QuietKeeps DEF ClockFirst, Local

\* A tick wakes at most one sleeper and may switch tasks: both are quiet.
LEMMA ClockTickKeeps ==
  ASSUME IInv, ClockTick
  PROVE  /\ IInv' /\ Quiet(k, k')
         /\ \A q \in Pid : k.state[q] = "SLEEPING"
              => k'.state[q] = "SLEEPING" \/ k'.jiffies >= k.value[q]
<1> DEFINE j == IF k.jiffies < MaxJiffies THEN k.jiffies + 1 ELSE k.jiffies
           k1 == [k EXCEPT !.jiffies = j]
           k2 == weakup(k1)
           p == k.running
<1>1. p \in Pid /\ Settled(k) /\ p # NoTask
  BY IInvSettled, Numbers DEF ClockTick, Runs
<1>2. j \in Nat
  BY <1>1 DEF Settled, KernelOK, KernelState
<1> HIDE DEF j
<1>3. /\ KernelOK(k1)
      /\ k1.state = k.state /\ k1.container = k.container
      /\ k1.running = k.running /\ k1.stop = k.stop /\ k1.ppid = k.ppid
      /\ k1.waitpid = k.waitpid /\ k1.ticks = k.ticks /\ k1.priority = k.priority
      /\ k1.jiffies = j /\ k1.value = k.value
  BY <1>1, <1>2, SetClock DEF Settled
<1>4. Settled(k1) /\ Quiet(k, k1)
  <2> HIDE DEF k1
  <2> QED BY <1>1, <1>3 DEF Settled, Placed, IdleReady, RunningOK, Quiet
<1>5. /\ Settled(k2) /\ Quiet(k1, k2) /\ k2.running = p /\ k2.ticks = k.ticks
      /\ k2.jiffies = j
      /\ \A q \in Pid : k.state[q] = "SLEEPING"
           => k2.state[q] = "SLEEPING" \/ j >= k.value[q]
  <2> HIDE DEF k1
  <2> QED BY <1>3, <1>4, SettledWeakup
<1>6. k' = IF k.ticks[p] = 1
           THEN schedule([k2 EXCEPT !.ticks[p] = k.priority[p]])
           ELSE [k2 EXCEPT !.ticks[p] = @ - 1]
  BY <1>1 DEF ClockTick, clock_handler, j
<1> HIDE DEF k2
<1>7. k.ticks[p] \in Nat \ {0} /\ k.priority[p] \in Nat \ {0}
  BY <1>1 DEF Settled, KernelOK, KernelState
<1>8. ASSUME NEW n \in Nat \ {0}
      PROVE  LET m == [k2 EXCEPT !.ticks[p] = n]
             IN Settled(m) /\ Quiet(k2, m) /\ m.state = k2.state /\ m.jiffies = j
  <2> DEFINE m == [k2 EXCEPT !.ticks[p] = n]
  <2>1. /\ KernelOK(m)
        /\ m.state = k2.state /\ m.container = k2.container
        /\ m.running = k2.running /\ m.stop = k2.stop /\ m.ppid = k2.ppid
        /\ m.waitpid = k2.waitpid /\ m.jiffies = k2.jiffies
    BY <1>1, <1>5, SetTicks DEF Settled
  <2> HIDE DEF m
  <2>2. Settled(m) /\ Quiet(k2, m)
    BY <1>5, <2>1 DEF Settled, Placed, IdleReady, RunningOK, Quiet
  <2> QED BY <2>1, <2>2, <1>5 DEF m
<1>9. CASE k.ticks[p] = 1
  <2> DEFINE m == [k2 EXCEPT !.ticks[p] = k.priority[p]]
  <2>1. Settled(m) /\ Quiet(k2, m) /\ m.state = k2.state /\ m.jiffies = j
    BY <1>7, <1>8
  <2>2. k' = schedule(m)
    BY <1>6, <1>9
  <2> HIDE DEF m, p
  <2>3. Settled(k') /\ Quiet(m, k') /\ Asleep(m, k') /\ k'.jiffies = j
    BY <2>1, <2>2, Switch DEF Settled, IdleReady
  <2>4. \A q \in Pid : k.state[q] = "SLEEPING"
          => k'.state[q] = "SLEEPING" \/ k'.jiffies >= k.value[q]
    BY <2>1, <2>3, <1>5 DEF Asleep
  <2> QED BY <2>4, <2>1, <2>3, <1>4, <1>5, QuietTrans, QuietKeeps DEF ClockTick, Local
<1>10. CASE k.ticks[p] # 1
  <2> DEFINE n == k2.ticks[p] - 1
             m == [k2 EXCEPT !.ticks[p] = n]
  <2>1. n \in Nat \ {0}
    BY <1>5, <1>7, <1>10
  <2>2. k' = m
    BY <1>6, <1>10
  <2> HIDE DEF n
  <2>3. Settled(k') /\ Quiet(k2, k') /\ k'.state = k2.state /\ k'.jiffies = j
    BY <2>1, <2>2, <1>8
  <2>4. \A q \in Pid : k.state[q] = "SLEEPING"
          => k'.state[q] = "SLEEPING" \/ k'.jiffies >= k.value[q]
    BY <2>3, <1>5
  <2> QED BY <2>4, <2>3, <1>4, <1>5, QuietTrans, QuietKeeps DEF ClockTick, Local
<1> QED BY <1>9, <1>10

\* sys_yield only switches tasks.
LEMMA YieldKeeps ==
  ASSUME IInv, Yield
  PROVE  IInv' /\ Quiet(k, k') /\ Asleep(k, k')
<1>1. Settled(k) /\ k' = schedule(k)
  BY IInvSettled DEF Yield, Runs
<1>2. Settled(k') /\ Quiet(k, k') /\ Asleep(k, k')
  BY <1>1, Switch DEF Settled, IdleReady
<1> QED BY <1>2, QuietKeeps DEF Yield, Local

\* task_sleep moves the running task to the sleep list and switches.
LEMMA SleepKeeps ==
  ASSUME IInv, Sleep
  PROVE  IInv' /\ Quiet(k, k') /\ Asleep(k, k')
<1>1. PICK p \in Pid, t \in SleepTicks :
        Runs(p) /\ IsUser(p) /\ k' = task_sleep(k, t) /\ UNCHANGED Local
  BY DEF Sleep
<1>2. p = k.running /\ p # Idle /\ Settled(k) /\ t \in Nat
  BY <1>1, IInvSettled, TaskAssumption DEF Runs, IsUser
<1>3. /\ k.container[p] = NoList /\ k.state[p] = "RUNNING" /\ k.container[Idle] = "ready"
  BY <1>2, Numbers DEF Settled, RunningOK, IdleReady
<1>4. PICK m : /\ task_sleep(k, t) = schedule(m)
               /\ KernelOK(m) /\ m.running = p /\ m.stop = k.stop
               /\ m.ppid = k.ppid /\ m.waitpid = k.waitpid
               /\ m.state = [k.state EXCEPT ![p] = "SLEEPING"]
               /\ m.container = [k.container EXCEPT ![p] = "sleep"]
  BY <1>2, <1>3, SleepIsInsert DEF Settled
<1>5. k.container \in [Pid -> Lists \cup {NoList}] /\ k.state \in [Pid -> TaskState]
  BY <1>2 DEF Settled, KernelOK, KernelState
<1>6. /\ m.state[p] = "SLEEPING" /\ m.container[p] = "sleep" /\ m.container[Idle] = "ready"
      /\ Placed(m)
  BY <1>2, <1>3, <1>4, <1>5, Numbers DEF Settled, Placed
<1>7. Quiet(k, m) /\ Asleep(k, m)
  BY <1>3, <1>4, <1>5 DEF Quiet, Active, Asleep
<1>8. Settled(schedule(m)) /\ Quiet(m, schedule(m)) /\ Asleep(m, schedule(m))
  BY <1>2, <1>4, <1>6, Switch
<1>9. Asleep(k, k')
  BY <1>1, <1>4, <1>7, <1>8 DEF Asleep
<1> QED BY <1>9, <1>1, <1>4, <1>7, <1>8, QuietTrans, QuietKeeps DEF Local

\* usb_enum blocks as a kernel thread that has no children.
LEMMA EnumWaitKeeps ==
  ASSUME IInv, EnumWait
  PROVE  IInv' /\ Quiet(k, k') /\ Asleep(k, k')
<1> DEFINE m == list_push([k EXCEPT !.state[EnumTask] = "WAITING"], "block", EnumTask)
<1>1. EnumTask = k.running /\ HasEnum /\ Settled(k)
  BY IInvSettled, Numbers DEF EnumWait, Runs
<1>2. /\ k.container[EnumTask] = NoList /\ k.state[EnumTask] = "RUNNING"
      /\ k.container[Idle] = "ready"
  BY <1>1, Numbers DEF Settled, RunningOK, IdleReady
<1>3. "WAITING" \in TaskState
  BY DEF TaskState
<1>4. k' = schedule(m)
  BY <1>1, <1>2, <1>3, Numbers, BlockIsPush DEF EnumWait, Settled
<1>5. /\ KernelOK(m) /\ m.running = EnumTask /\ m.stop = k.stop /\ SameFields(k, m)
      /\ m.state = [k.state EXCEPT ![EnumTask] = "WAITING"]
      /\ m.container = [k.container EXCEPT ![EnumTask] = "block"]
  BY <1>1, <1>2, <1>3, Numbers, PushAs DEF Settled
<1> HIDE DEF m
<1>6. k.container \in [Pid -> Lists \cup {NoList}] /\ k.state \in [Pid -> TaskState]
  BY <1>1 DEF Settled, KernelOK, KernelState
<1>7. /\ m.state[EnumTask] = "WAITING" /\ m.container[EnumTask] = "block"
      /\ m.container[Idle] = "ready" /\ Placed(m)
  BY <1>1, <1>2, <1>5, <1>6, Numbers DEF Settled, Placed
<1>8. Quiet(k, m) /\ Asleep(k, m)
  BY <1>1, <1>2, <1>5, <1>6 DEF Quiet, Active, SameFields, Asleep
<1>9. Settled(schedule(m)) /\ Quiet(m, schedule(m)) /\ Asleep(m, schedule(m))
  BY <1>1, <1>5, <1>7, Numbers, Switch
<1>10. Asleep(k, k')
  BY <1>4, <1>8, <1>9 DEF Asleep
<1> QED BY <1>10, <1>4, <1>8, <1>9, QuietTrans, QuietKeeps DEF EnumWait, Local

\* The xHCI handler takes usb_enum off the block list.
LEMMA EnumWakeKeeps ==
  ASSUME IInv, EnumWake
  PROVE  IInv' /\ Quiet(k, k') /\ Asleep(k, k')
<1>1. /\ HasEnum /\ k.state[EnumTask] = "WAITING" /\ k' = unblock(k, EnumTask)
      /\ Settled(k) /\ EnumTask # k.running /\ k.running # NoTask
  BY IInvSettled, Numbers DEF EnumWake, Runs, Settled, RunningOK
<1>2. k.container[EnumTask] = "block"
  BY <1>1, Numbers DEF Settled, Placed
<1>3. /\ KernelOK(k') /\ SameFields(k, k')
      /\ k'.running = k.running /\ k'.stop = k.stop
      /\ k'.state = [k.state EXCEPT ![EnumTask] = "READY"]
      /\ k'.container = [k.container EXCEPT ![EnumTask] = "ready"]
  BY <1>1, <1>2, Numbers, Unblock DEF Settled, NoList
<1>4. k.container \in [Pid -> Lists \cup {NoList}] /\ k.state \in [Pid -> TaskState]
  BY <1>1 DEF Settled, KernelOK, KernelState
<1>5. Placed(k') /\ IdleReady(k') /\ RunningOK(k')
  BY <1>1, <1>3, <1>4, Numbers DEF Settled, Placed, IdleReady, RunningOK
<1>6. Quiet(k, k') /\ Asleep(k, k')
  BY <1>1, <1>3, <1>4 DEF Quiet, Active, SameFields, Asleep
<1> QED BY <1>1, <1>3, <1>5, <1>6, QuietKeeps DEF EnumWake, Local, Settled

\* What the user task that makes a system call is like.
LEMMA Caller ==
  ASSUME IInv, NEW p \in Pid, k.running = p, IsUser(p)
  PROVE  /\ Settled(k) /\ p # Idle /\ p # NoTask
         /\ k.state[p] = "RUNNING" /\ k.container[p] = NoList
         /\ k.container[Idle] = "ready"
BY IInvSettled, Numbers DEF IsUser, Settled, RunningOK, IdleReady

\* Types of the fields of the kernel state, by the inductive invariant.
LEMMA Fields ==
  ASSUME IInv
  PROVE  /\ k.container \in [Pid -> Lists \cup {NoList}] /\ k.state \in [Pid -> TaskState]
         /\ k.ppid \in [Pid -> Pid] /\ k.waitpid \in [Pid -> Pid \cup {AnyChild}]
BY DEF IInv, TypeOK, KernelState

\* fork takes a free slot and gives it to a child of the running task, or
\* panics.
LEMMA ForkKeeps ==
  ASSUME IInv, Fork
  PROVE  IInv'
<1>1. PICK p \in Pid : Runs(p) /\ IsUser(p)
  BY DEF Fork
<1>2. /\ k.running = p /\ Settled(k) /\ p # Idle /\ p # NoTask
      /\ k.state[p] = "RUNNING" /\ k.container[p] = NoList
      /\ k.container[Idle] = "ready" /\ k' = fork(k) /\ UNCHANGED <<pc, child>>
  BY <1>1, Caller DEF Runs, Fork, Local
<1>3. CASE FreeSlots(k) = {}
  <2>1. k' = [k EXCEPT !.stop = "panic"]
    BY <1>2, <1>3 DEF fork, Halt
  <2>2. k \in KernelState /\ WellLinked(k)
    BY <1>2 DEF Settled, KernelOK
  <2>3. /\ k'.state = k.state /\ k'.container = k.container /\ k'.list = k.list
        /\ k'.running = k.running /\ k'.ppid = k.ppid /\ k'.waitpid = k.waitpid
        /\ k'.stop = "panic" /\ k' \in KernelState
    BY <2>1, <2>2 DEF KernelState, StopReason
  <2>4. Settled(k')
    BY <1>2, <2>2, <2>3
    DEF Settled, KernelOK, WellLinked, Placed, IdleReady, RunningOK
  <2>5. Quiet(k, k')
    BY <2>3 DEF Quiet
  <2> QED BY <1>2, <2>4, <2>5, QuietKeeps
<1>4. CASE FreeSlots(k) # {}
  <2> DEFINE c == get_task(k)
  <2>1. c \in Pid /\ k.state[c] = "FREE"
    BY <1>4, GetTask
  <2>2. c # p /\ k.container[c] = NoList
    BY <1>2, <2>1 DEF Settled, Placed
  <2>3. /\ KernelOK(k') /\ k'.running = p /\ k'.stop = k.stop
        /\ k'.state = [k.state EXCEPT ![c] = "READY"]
        /\ k'.container = [k.container EXCEPT ![c] = "ready"]
        /\ k'.ppid = [k.ppid EXCEPT ![c] = p]
        /\ k'.waitpid = [k.waitpid EXCEPT ![c] = k.waitpid[p]]
    BY <1>2, <1>4, <2>2, ForkFacts DEF Settled
  <2> HIDE DEF c
  <2>4. /\ \A q \in Pid \ {c} : /\ k'.state[q] = k.state[q] /\ k'.ppid[q] = k.ppid[q]
                               /\ k'.waitpid[q] = k.waitpid[q]
                               /\ k'.container[q] = k.container[q]
        /\ k'.state[c] = "READY" /\ k'.ppid[c] = p /\ k'.container[c] = "ready"
    BY <2>1, <2>3, Fields
  <2>5. \A q \in Pid : k.state[q] # "FREE" =>
          q # c /\ k.ppid[q] \in Pid \ {c} /\ k.state[k.ppid[q]] \notin {"FREE", "DIED"}
    BY <2>1, Fields DEF IInv, ParentAlive
  <2>6. TypeOK' /\ Linked' /\ NoAssert' /\ BootOrder'
    BY <1>2, <2>3, Numbers DEF IInv, TypeOK, KernelOK, Linked, NoAssert, BootOrder
  <2>7. Placed(k') /\ IdleReady(k') /\ RunningOK(k')
    BY <1>2, <2>2, <2>3, <2>4, Numbers DEF Settled, Placed, IdleReady, RunningOK
  <2>8. ParentAlive'
    <3> SUFFICES ASSUME NEW q \in Pid, k'.state[q] # "FREE"
                 PROVE  k'.state[k'.ppid[q]] \notin {"FREE", "DIED"}
      BY DEF ParentAlive
    <3>1. CASE q = c
      BY <3>1, <2>2, <2>4, <1>2
    <3>2. CASE q # c
      BY <3>2, <2>4, <2>5
    <3> QED BY <3>1, <3>2
  <2>9. Ancestry'
    <3> SUFFICES ASSUME NEW S \in SUBSET {q \in Pid \ {Idle} : k'.state[q] # "FREE"}, S # {}
                 PROVE  \E q \in S : k'.ppid[q] \notin S
      BY DEF Ancestry
    <3>1. S \ {c} \in SUBSET {q \in Pid \ {Idle} : k.state[q] # "FREE"}
      BY <2>4
    <3>2. CASE S \ {c} = {}
      BY <3>2, <2>2, <2>4
    <3>3. CASE S \ {c} # {}
      <4>1. PICK q \in S \ {c} : k.ppid[q] \notin S \ {c}
        BY <3>1, <3>3 DEF IInv, Ancestry
      <4>2. k.ppid[q] # c /\ k'.ppid[q] = k.ppid[q]
        BY <3>1, <4>1, <2>4, <2>5
      <4> QED BY <4>1, <4>2
    <3> QED BY <3>2, <3>3
  <2>10. WaitTarget'
    <3>1. ASSUME NEW q \in Pid, pc'[q] = "waitpid"
          PROVE  /\ IsUser(q) /\ k'.state[q] \notin {"FREE", "DIED"}
                 /\ child'[q] \in Pid \ {q} /\ k'.state[child'[q]] # "FREE"
                 /\ k'.ppid[child'[q]] = q
      BY <1>2, <3>1, <2>1, <2>4 DEF IInv, WaitTarget
    <3>2. ASSUME NEW q \in Pid, k'.state[q] = "WAITING"
          PROVE  pc'[q] = "waitpid" \/ ~IsUser(q)
      BY <1>2, <3>2, <2>4 DEF IInv, WaitTarget
    <3>3. ASSUME NEW q \in Pid, k'.state[q] # "FREE"
          PROVE  k'.ppid[q] = Idle \/ IsUser(k'.ppid[q])
      BY <1>1, <3>3, <2>4 DEF IInv, WaitTarget
    <3> QED BY <3>1, <3>2, <3>3 DEF WaitTarget, IsUser
  <2>11. WaitAwake'
    BY <1>2, <2>1, <2>4 DEF IInv, WaitAwake, WaitTarget
  <2> QED BY <2>6, <2>7, <2>8, <2>9, <2>10, <2>11 DEF IInv, NotLost, IdleRunnable
<1> QED BY <1>3, <1>4

\* Nobody is its own parent.
LEMMA OtherParent ==
  ASSUME IInv, NEW p \in Pid \ {Idle}, k.state[p] # "FREE"
  PROVE  k.ppid[p] # p
<1>1. {p} \in SUBSET {q \in Pid \ {Idle} : k.state[q] # "FREE"}
  OBVIOUS
<1> QED BY <1>1 DEF IInv, Ancestry

\* The state sys_exit hands to schedule().
LEMMA ExitFacts ==
  ASSUME IInv, NEW p \in Pid, Runs(p), IsUser(p)
  PROVE  \E m : LET par == k.ppid[p]
                    woken == k.state[par] = "WAITING" /\ k.waitpid[par] \in {AnyChild, p}
                IN /\ sys_exit(k) = schedule(m)
                   /\ KernelOK(m) /\ m.running = p /\ m.stop = k.stop
                   /\ m.waitpid = k.waitpid /\ Placed(m)
                   /\ m.state[p] = "DIED" /\ m.container[p] = "died"
                   /\ m.container[Idle] = "ready"
                   /\ \A q \in Pid \ {p} :
                        m.state[q] = IF q = par /\ woken THEN "READY" ELSE k.state[q]
                   /\ \A q \in Pid :
                        m.ppid[q] = IF k.state[q] # "FREE" /\ k.ppid[q] = p
                                    THEN par ELSE k.ppid[q]
<1> DEFINE k0 == list_push(k, "died", p)
           k1 == [k0 EXCEPT !.state[p] = "DIED"]
           k2 == adopt(k1, p)
           m == wake_parent(k2, p)
           par == k.ppid[p]
           woken == k.state[par] = "WAITING" /\ k.waitpid[par] \in {AnyChild, p}
<1>1. /\ k.running = p /\ Settled(k) /\ p # Idle /\ p # NoTask
      /\ k.state[p] = "RUNNING" /\ k.container[p] = NoList
      /\ k.container[Idle] = "ready" /\ par # p /\ par \in Pid
      /\ k.state[par] # "FREE"
  BY Caller, OtherParent, Fields DEF Runs, IInv, ParentAlive
<1>2. /\ KernelOK(k0) /\ SameTasks(k, k0)
      /\ k0.container = [k.container EXCEPT ![p] = "died"]
  BY <1>1, ListPush, Numbers DEF Settled
<1> HIDE DEF k0, par
<1>3. /\ KernelOK(k1) /\ SameFields(k0, k1) /\ k1.state = [k0.state EXCEPT ![p] = "DIED"]
      /\ k1.container = k0.container /\ k1.running = k0.running /\ k1.stop = k0.stop
  BY <1>2, SetState DEF TaskState
<1> HIDE DEF k1
<1>4. /\ k1.state = [k.state EXCEPT ![p] = "DIED"] /\ k1.ppid = k.ppid
      /\ k1.container = [k.container EXCEPT ![p] = "died"]
      /\ k1.running = p /\ k1.stop = k.stop /\ k1.waitpid = k.waitpid
  BY <1>1, <1>2, <1>3 DEF SameTasks, SameFields
<1>12. KernelOK(k1)
  BY <1>3
<1>13. /\ KernelOK(k2) /\ k2.state = k1.state /\ k2.container = k1.container
       /\ k2.running = k1.running /\ k2.stop = k1.stop /\ k2.waitpid = k1.waitpid
       /\ \A c \in Pid : k2.ppid[c] = IF k1.state[c] # "FREE" /\ k1.ppid[c] = p
                                     THEN k1.ppid[p] ELSE k1.ppid[c]
  BY <1>12, AdoptFacts
<1>5. /\ KernelOK(k2) /\ k2.state = k1.state /\ k2.container = k1.container
      /\ k2.running = p /\ k2.stop = k.stop /\ k2.waitpid = k.waitpid
      /\ \A c \in Pid : k2.ppid[c] = IF k1.state[c] # "FREE" /\ k.ppid[c] = p
                                    THEN k.ppid[p] ELSE k.ppid[c]
  BY <1>4, <1>13
<1> HIDE DEF k2
<1>6. \A q \in Pid : k2.ppid[q] = IF k.state[q] # "FREE" /\ k.ppid[q] = p THEN par ELSE k.ppid[q]
  BY <1>1, <1>4, <1>5, Fields DEF par
<1>7. /\ \A q \in Pid \ {p} : k2.state[q] = k.state[q] /\ k2.container[q] = k.container[q]
      /\ k2.state[p] = "DIED" /\ k2.container[p] = "died"
  BY <1>4, <1>5, Fields
<1>8. k2.ppid[p] = par /\ k2.state[par] = k.state[par] /\ k2.container[par] = k.container[par]
  BY <1>1, <1>6, <1>7 DEF par
<1>9. sys_exit(k) = schedule(m)
  BY <1>1 DEF sys_exit, k0, k1, k2
<1>10. CASE woken
  <2>1. m = unblock(k2, par)
    BY <1>1, <1>5, <1>8, <1>10 DEF wake_parent
  <2>2. k2.container[par] # NoList
    BY <1>1, <1>8, <1>10 DEF Settled, Placed, NoList
  <2> HIDE DEF m
  <2>3. /\ KernelOK(m) /\ SameFields(k2, m) /\ m.running = p /\ m.stop = k.stop
        /\ m.state = [k2.state EXCEPT ![par] = "READY"]
        /\ m.container = [k2.container EXCEPT ![par] = "ready"]
    BY <1>1, <1>5, <2>1, <2>2, Unblock, SMTT(30)
  <2>4. k2.container \in [Pid -> Lists \cup {NoList}] /\ k2.state \in [Pid -> TaskState]
    BY <1>5 DEF KernelOK, KernelState
  <2>5. /\ \A q \in Pid \ {p} : m.state[q] = IF q = par THEN "READY" ELSE k.state[q]
        /\ m.state[p] = "DIED" /\ m.container[p] = "died" /\ m.container[Idle] = "ready"
        /\ Placed(m)
    BY <1>1, <1>7, <2>3, <2>4, Numbers DEF Settled, Placed
  <2>6. m.waitpid = k.waitpid /\ m.ppid = k2.ppid
    BY <2>3, <1>5 DEF SameFields
  <2>7. /\ \A q \in Pid \ {p} : m.state[q] = IF q = par /\ woken THEN "READY" ELSE k.state[q]
        /\ \A q \in Pid : m.ppid[q] = IF k.state[q] # "FREE" /\ k.ppid[q] = p
                                      THEN par ELSE k.ppid[q]
    BY <1>6, <1>10, <2>5, <2>6
  <2>8. KernelOK(m) /\ m.running = p /\ m.stop = k.stop
    BY <2>3
  <2> QED BY <1>9, <2>5, <2>6, <2>7, <2>8 DEF par
<1>11. CASE ~woken
  <2>1. m = k2
    BY <1>1, <1>5, <1>8, <1>11 DEF wake_parent
  <2>2. Placed(m) /\ m.container[Idle] = "ready"
    BY <1>1, <1>5, <1>7, <2>1, Numbers DEF Settled, Placed
  <2> QED BY <1>5, <1>6, <1>7, <1>9, <1>11, <2>1, <2>2 DEF par
<1> QED BY <1>10, <1>11

\* exit hands the children on before the parent can be woken.
LEMMA ExitKeeps ==
  ASSUME IInv, Exit
  PROVE  IInv'
<1>1. PICK p \in Pid : Runs(p) /\ IsUser(p)
  BY DEF Exit
<1> DEFINE par == k.ppid[p]
           woken == k.state[par] = "WAITING" /\ k.waitpid[par] \in {AnyChild, p}
<1>2. PICK m : /\ sys_exit(k) = schedule(m)
               /\ KernelOK(m) /\ m.running = p /\ m.stop = k.stop
               /\ m.waitpid = k.waitpid /\ Placed(m)
               /\ m.state[p] = "DIED" /\ m.container[p] = "died"
               /\ m.container[Idle] = "ready"
               /\ \A q \in Pid \ {p} :
                    m.state[q] = IF q = par /\ woken THEN "READY" ELSE k.state[q]
               /\ \A q \in Pid :
                    m.ppid[q] = IF k.state[q] # "FREE" /\ k.ppid[q] = p
                                THEN par ELSE k.ppid[q]
  BY <1>1, ExitFacts
<1>3. /\ p # Idle /\ k.state[p] = "RUNNING" /\ par # p /\ par \in Pid
      /\ k.state[par] \notin {"FREE", "DIED"} /\ k' = sys_exit(k)
      /\ UNCHANGED <<pc, child>> /\ pc[p] = "run"
  BY <1>1, Caller, OtherParent, Fields DEF Runs, IInv, ParentAlive, Exit, Local
<1> HIDE DEF par, woken
<1>4. Settled(k') /\ Quiet(m, k')
  BY <1>2, <1>3, Switch
<1>5. /\ \A q \in Pid : k'.ppid[q] = IF k.state[q] # "FREE" /\ k.ppid[q] = p
                                     THEN par ELSE k.ppid[q]
      /\ k'.waitpid = k.waitpid /\ k'.stop \in {k.stop, "panic"}
  BY <1>2, <1>4 DEF Quiet
<1>6. \A q \in Pid : k'.state[q] = "FREE" <=> k.state[q] = "FREE"
  BY <1>2, <1>3, <1>4 DEF Quiet, Active
<1>7. \A q \in Pid : k'.state[q] = "DIED" <=> (q = p \/ k.state[q] = "DIED")
  BY <1>2, <1>3, <1>4 DEF Quiet, Active
<1>8. ASSUME NEW q \in Pid, IsUser(q)
      PROVE  k'.state[q] = "WAITING" <=> k.state[q] = "WAITING" /\ ~(q = par /\ woken)
  BY <1>2, <1>3, <1>4, <1>8 DEF Quiet, Active, IsUser
<1>9. TypeOK' /\ Linked' /\ NotLost' /\ NoAssert' /\ IdleRunnable' /\ BootOrder'
  BY <1>3, <1>4, <1>5, Numbers
  DEF IInv, Settled, KernelOK, TypeOK, Linked, NotLost, NoAssert, IdleRunnable, BootOrder
<1>10. ParentAlive'
  <2> SUFFICES ASSUME NEW q \in Pid, k'.state[q] # "FREE"
               PROVE  k'.state[k'.ppid[q]] \notin {"FREE", "DIED"}
    BY DEF ParentAlive
  <2>1. k.state[k.ppid[q]] \notin {"FREE", "DIED"} /\ k.ppid[q] \in Pid
    BY <1>6, Fields DEF IInv, ParentAlive
  <2> QED BY <2>1, <1>3, <1>5, <1>6, <1>7
<1>11. Ancestry'
  <2> SUFFICES ASSUME NEW S \in SUBSET {q \in Pid \ {Idle} : k'.state[q] # "FREE"}, S # {}
               PROVE  \E q \in S : k'.ppid[q] \notin S
    BY DEF Ancestry
  <2>1. /\ S \in SUBSET {q \in Pid \ {Idle} : k.state[q] # "FREE"}
        /\ S \cup {p} \in SUBSET {q \in Pid \ {Idle} : k.state[q] # "FREE"}
    BY <1>3, <1>6
  <2>2. CASE \A q \in S : k.ppid[q] # p
    <3>1. PICK q \in S : k.ppid[q] \notin S
      BY <2>1 DEF IInv, Ancestry
    <3> QED BY <3>1, <2>1, <2>2, <1>5
  <2>3. CASE par \notin S /\ \E q \in S : k.ppid[q] = p
    BY <2>1, <2>3, <1>5
  <2>4. CASE par \in S
    <3>1. PICK q \in S \cup {p} : k.ppid[q] \notin S \cup {p}
      BY <2>1 DEF IInv, Ancestry
    <3>2. q # p
      BY <3>1, <2>4 DEF par
    <3> QED BY <3>1, <3>2, <2>1, <1>5
  <2> QED BY <2>2, <2>3, <2>4
<1>12. WaitTarget'
  <2>1. ASSUME NEW q \in Pid, pc'[q] = "waitpid"
        PROVE  /\ IsUser(q) /\ k'.state[q] \notin {"FREE", "DIED"}
               /\ child'[q] \in Pid \ {q} /\ k'.state[child'[q]] # "FREE"
               /\ k'.ppid[child'[q]] = q
    <3>1. /\ IsUser(q) /\ k.state[q] \notin {"FREE", "DIED"} /\ q # p
          /\ child[q] \in Pid \ {q} /\ k.state[child[q]] # "FREE"
          /\ k.ppid[child[q]] = q
      BY <2>1, <1>3 DEF IInv, WaitTarget
    <3> QED BY <3>1, <1>3, <1>5, <1>6, <1>7
  <2>2. ASSUME NEW q \in Pid, k'.state[q] = "WAITING"
        PROVE  pc'[q] = "waitpid" \/ ~IsUser(q)
    BY <2>2, <1>3, <1>8 DEF IInv, WaitTarget
  <2>3. ASSUME NEW q \in Pid, k'.state[q] # "FREE"
        PROVE  k'.ppid[q] = Idle \/ IsUser(k'.ppid[q])
    <3>1. k.ppid[q] = Idle \/ IsUser(k.ppid[q])
      BY <2>3, <1>6 DEF IInv, WaitTarget
    <3>2. par = Idle \/ IsUser(par)
      BY <1>3 DEF IInv, WaitTarget, par
    <3> QED BY <3>1, <3>2, <1>5
  <2> QED BY <2>1, <2>2, <2>3 DEF WaitTarget, IsUser
<1>13. WaitAwake'
  <2> SUFFICES ASSUME NEW q \in Pid, pc[q] = "waitpid"
               PROVE  IF k'.state[q] = "WAITING"
                      THEN k'.waitpid[q] = child[q] /\ k'.state[child[q]] # "DIED"
                      ELSE k'.state[child[q]] = "DIED"
    BY <1>3 DEF WaitAwake
  <2>1. IsUser(q) /\ child[q] \in Pid /\ k.ppid[child[q]] = q
    BY DEF IInv, WaitTarget
  <2>2. IF k.state[q] = "WAITING"
        THEN k.waitpid[q] = child[q] /\ k.state[child[q]] # "DIED"
        ELSE k.state[child[q]] = "DIED"
    BY DEF IInv, WaitAwake
  <2>3. child[q] # AnyChild
    BY <2>1 DEF Pid, AnyChild
  <2>4. CASE k'.state[q] = "WAITING"
    <3>1. k.state[q] = "WAITING" /\ ~(q = par /\ woken)
      BY <2>1, <2>4, <1>8
    <3>2. child[q] # p
      BY <2>1, <2>2, <3>1 DEF par, woken
    <3> QED BY <2>1, <2>2, <2>4, <3>1, <3>2, <1>5, <1>7
  <2>5. CASE k'.state[q] # "WAITING"
    <3>1. CASE k.state[q] # "WAITING"
      BY <2>1, <2>2, <2>5, <3>1, <1>7
    <3>2. CASE k.state[q] = "WAITING"
      <4>1. q = par /\ woken
        BY <2>1, <2>5, <3>2, <1>8
      <4>2. child[q] = p
        BY <2>2, <2>3, <3>2, <4>1 DEF woken
      <4> QED BY <1>3, <1>7, <4>2, <2>5
    <3> QED BY <3>1, <3>2
  <2> QED BY <2>4, <2>5
<1> QED BY <1>9, <1>10, <1>11, <1>12, <1>13 DEF IInv

\* Reaping an exited child leaves no reference to its slot.
LEMMA ReapKeeps ==
  ASSUME IInv, NEW p \in Pid, k.running = p, IsUser(p),
         NEW c \in Pid, k.state[c] = "DIED", k.ppid[c] = p, Reap(p, c)
  PROVE  IInv'
<1>1. /\ Settled(k) /\ p # Idle /\ p # NoTask /\ k.state[p] = "RUNNING"
      /\ k.container[Idle] = "ready" /\ c # p
  BY Caller
<1>2. k.container[c] = "died" /\ c # Idle
  BY <1>1, Numbers DEF Settled, Placed
<1>15. k' = freeTask(k, c) /\ KernelOK(k) /\ k.container[c] # NoList
  BY <1>1, <1>2 DEF Reap, Settled, NoList
<1>3. /\ KernelOK(k') /\ k'.running = p /\ k'.stop = k.stop
      /\ k'.state = [k.state EXCEPT ![c] = "FREE"]
      /\ k'.container = [k.container EXCEPT ![c] = NoList]
      /\ k'.ppid = [k.ppid EXCEPT ![c] = 0]
      /\ k'.waitpid = [k.waitpid EXCEPT ![c] = 0]
  BY <1>15, FreeTaskFacts
<1>4. /\ \A q \in Pid \ {c} : /\ k'.state[q] = k.state[q] /\ k'.ppid[q] = k.ppid[q]
                             /\ k'.waitpid[q] = k.waitpid[q]
                             /\ k'.container[q] = k.container[q]
      /\ k'.state[c] = "FREE" /\ k'.container[c] = NoList
  BY <1>3, Fields
<1>5. /\ pc \in [Pid -> {"run", "waitpid"}] /\ child \in [Pid -> Pid \cup {NoTask}]
  BY DEF IInv, TypeOK
<1>6. /\ pc' \in [Pid -> {"run", "waitpid"}] /\ child' \in [Pid -> Pid \cup {NoTask}]
      /\ \A q \in Pid \ {p, c} : pc'[q] = pc[q] /\ child'[q] = child[q]
      /\ pc'[p] = "run" /\ pc'[c] = "run"
  BY <1>1, <1>5 DEF Reap
<1>7. TypeOK' /\ Linked' /\ NoAssert' /\ BootOrder'
  BY <1>1, <1>3, <1>6 DEF IInv, TypeOK, KernelOK, Linked, NoAssert, BootOrder
<1>8. Placed(k') /\ IdleReady(k') /\ RunningOK(k')
  BY <1>1, <1>2, <1>3, <1>4, Numbers DEF Settled, Placed, IdleReady, RunningOK
<1>9. \A q \in Pid : k.state[q] # "FREE" => k.ppid[q] \in Pid \ {c}
  BY Fields DEF IInv, ParentAlive
<1>10. ParentAlive'
  BY <1>4, <1>9 DEF IInv, ParentAlive
<1>11. Ancestry'
  <2> SUFFICES ASSUME NEW S \in SUBSET {q \in Pid \ {Idle} : k'.state[q] # "FREE"}, S # {}
               PROVE  \E q \in S : k'.ppid[q] \notin S
    BY DEF Ancestry
  <2>1. S \in SUBSET {q \in Pid \ {Idle} : k.state[q] # "FREE"} /\ c \notin S
    BY <1>4
  <2> QED BY <2>1, <1>4 DEF IInv, Ancestry
<1>12. ASSUME NEW q \in Pid, pc'[q] = "waitpid"
       PROVE  /\ pc[q] = "waitpid" /\ q \notin {p, c} /\ child'[q] = child[q]
              /\ IsUser(q) /\ k.state[q] \notin {"FREE", "DIED"}
              /\ child[q] \in Pid \ {q} /\ k.state[child[q]] # "FREE"
              /\ k.ppid[child[q]] = q /\ child[q] # c
  BY <1>6, <1>12 DEF IInv, WaitTarget
<1>13. WaitTarget'
  <2>1. ASSUME NEW q \in Pid, pc'[q] = "waitpid"
        PROVE  /\ IsUser(q) /\ k'.state[q] \notin {"FREE", "DIED"}
               /\ child'[q] \in Pid \ {q} /\ k'.state[child'[q]] # "FREE"
               /\ k'.ppid[child'[q]] = q
    BY <2>1, <1>4, <1>12
  <2>2. ASSUME NEW q \in Pid, k'.state[q] = "WAITING"
        PROVE  pc'[q] = "waitpid" \/ ~IsUser(q)
    BY <2>2, <1>1, <1>4, <1>6 DEF IInv, WaitTarget
  <2>3. ASSUME NEW q \in Pid, k'.state[q] # "FREE"
        PROVE  k'.ppid[q] = Idle \/ IsUser(k'.ppid[q])
    BY <2>3, <1>4 DEF IInv, WaitTarget
  <2> QED BY <2>1, <2>2, <2>3 DEF WaitTarget, IsUser
<1>14. WaitAwake'
  BY <1>4, <1>12 DEF IInv, WaitAwake
<1> QED BY <1>7, <1>8, <1>10, <1>11, <1>13, <1>14 DEF IInv, NotLost, IdleRunnable

\* The child a woken parent reaps has exited (WaitAwake).
LEMMA WaitPidResumeKeeps ==
  ASSUME IInv, WaitPidResume
  PROVE  IInv' /\ \E p, c \in Pid : Reaps(p, c)
<1>1. PICK p \in Pid : k.running = p /\ pc[p] = "waitpid" /\ Reap(p, child[p])
  BY DEF WaitPidResume
<1>2. IsUser(p) /\ child[p] \in Pid /\ k.ppid[child[p]] = p
  BY <1>1 DEF IInv, WaitTarget
<1>3. k.state[p] = "RUNNING"
  BY <1>1, <1>2, Caller
<1>4. k.state[child[p]] = "DIED"
  BY <1>1, <1>3 DEF IInv, WaitAwake
<1> QED BY <1>1, <1>2, <1>4, ReapKeeps DEF Reaps

\* waitpid for a pid either reaps an exited child or goes to sleep.
LEMMA WaitPidCases ==
  ASSUME IInv, WaitPid, WaitArgs \subseteq Pid
  PROVE  \E p, c \in Pid :
           /\ Runs(p) /\ IsUser(p) /\ k.state[c] # "FREE" /\ k.ppid[c] = p
           /\ \/ k.state[c] = "DIED" /\ Reap(p, c)
              \/ /\ k.state[c] # "DIED"
                 /\ k' = block([k EXCEPT !.waitpid[p] = c], "block", p, "WAITING")
                 /\ pc' = [pc EXCEPT ![p] = "waitpid"]
                 /\ child' = [child EXCEPT ![p] = c]
<1>1. PICK p \in Pid, arg \in WaitArgs :
        /\ Runs(p) /\ IsUser(p) /\ Matching(k, p, arg) # {}
        /\ LET c == FirstMatch(k, p, arg)
           IN IF k.state[c] = "DIED"
              THEN Reap(p, c)
              ELSE /\ k' = block([k EXCEPT !.waitpid[p] = arg], "block", p, "WAITING")
                   /\ pc' = [pc EXCEPT ![p] = "waitpid"]
                   /\ child' = [child EXCEPT ![p] = c]
  BY DEF WaitPid
<1> DEFINE c == FirstMatch(k, p, arg)
<1>2. c \in Pid /\ k.state[c] # "FREE" /\ k.ppid[c] = p /\ arg \in {AnyChild, c}
  BY <1>1, FirstMatchFacts DEF Matching
<1>3. arg = c
  BY <1>2 DEF Pid, AnyChild
<1> HIDE DEF c
<1> QED BY <1>1, <1>2, <1>3 DEF c

\* waitpid reaps an exited child, or blocks for a live one.
LEMMA WaitPidKeeps ==
  ASSUME IInv, WaitPid, WaitArgs \subseteq Pid
  PROVE  IInv' /\ ((SameLife(k, k') /\ Asleep(k, k')) \/ \E p, c \in Pid : Reaps(p, c))
<1>1. PICK p \in Pid, c \in Pid :
        /\ Runs(p) /\ IsUser(p) /\ k.state[c] # "FREE" /\ k.ppid[c] = p
        /\ \/ k.state[c] = "DIED" /\ Reap(p, c)
           \/ /\ k.state[c] # "DIED"
              /\ k' = block([k EXCEPT !.waitpid[p] = c], "block", p, "WAITING")
              /\ pc' = [pc EXCEPT ![p] = "waitpid"]
              /\ child' = [child EXCEPT ![p] = c]
  BY WaitPidCases
<1>2. CASE k.state[c] = "DIED"
  BY <1>1, <1>2, ReapKeeps DEF Runs, Reaps
<1>3. CASE k.state[c] # "DIED"
  <2> DEFINE k1 == [k EXCEPT !.waitpid[p] = c]
             m == list_push([k1 EXCEPT !.state[p] = "WAITING"], "block", p)
  <2>1. /\ k.running = p /\ Settled(k) /\ KernelOK(k) /\ p # Idle
        /\ k.state[p] = "RUNNING" /\ k.container[p] = NoList
        /\ k.container[Idle] = "ready" /\ c # p /\ "WAITING" \in TaskState
    BY <1>1, Caller, OtherParent DEF Runs, Settled, TaskState
  <2>2. /\ KernelOK(k1) /\ k1.state = k.state /\ k1.container = k.container
        /\ k1.running = p /\ k1.stop = k.stop /\ k1.ppid = k.ppid
        /\ k1.waitpid = [k.waitpid EXCEPT ![p] = c]
    BY <2>1, SetWaitpid
  <2>3. k' = block(k1, "block", p, "WAITING")
    BY <1>1, <1>3
  <2> HIDE DEF k1
  <2>4. k' = schedule(m)
    BY <2>1, <2>2, <2>3, BlockIsPush
  <2>5. /\ KernelOK(m) /\ SameFields(k1, m) /\ m.running = p /\ m.stop = k.stop
        /\ m.state = [k.state EXCEPT ![p] = "WAITING"]
        /\ m.container = [k.container EXCEPT ![p] = "block"]
    BY <2>1, <2>2, PushAs, Numbers
  <2> HIDE DEF m
  <2>6. /\ m.ppid = k.ppid /\ m.waitpid = [k.waitpid EXCEPT ![p] = c]
    BY <2>2, <2>5 DEF SameFields
  <2>7. /\ m.state[p] = "WAITING" /\ m.container[p] = "block"
        /\ m.container[Idle] = "ready" /\ Placed(m)
        /\ \A q \in Pid \ {p} : m.state[q] = k.state[q] /\ m.waitpid[q] = k.waitpid[q]
        /\ m.waitpid[p] = c
    BY <2>1, <2>5, <2>6, Fields, Numbers DEF Settled, Placed
  <2>8. Settled(k') /\ Quiet(m, k') /\ Asleep(m, k')
    BY <2>1, <2>4, <2>5, <2>7, Switch
  <2>9. /\ k'.ppid = k.ppid /\ k'.waitpid[p] = c /\ k'.stop \in {k.stop, "panic"}
        /\ \A q \in Pid \ {p} : k'.waitpid[q] = k.waitpid[q]
    BY <2>5, <2>6, <2>7, <2>8 DEF Quiet
  <2>10. /\ \A q \in Pid : k'.state[q] = "FREE" <=> k.state[q] = "FREE"
         /\ \A q \in Pid : k'.state[q] = "DIED" <=> k.state[q] = "DIED"
    BY <2>1, <2>7, <2>8 DEF Quiet, Active
  <2>11. ASSUME NEW q \in Pid, IsUser(q)
         PROVE  k'.state[q] = "WAITING" <=> q = p \/ k.state[q] = "WAITING"
    BY <2>7, <2>8, <2>11 DEF Quiet, Active, IsUser
  <2>12. /\ pc \in [Pid -> {"run", "waitpid"}] /\ child \in [Pid -> Pid \cup {NoTask}]
    BY DEF IInv, TypeOK
  <2>13. /\ pc' \in [Pid -> {"run", "waitpid"}] /\ child' \in [Pid -> Pid \cup {NoTask}]
         /\ \A q \in Pid \ {p} : pc'[q] = pc[q] /\ child'[q] = child[q]
         /\ pc'[p] = "waitpid" /\ child'[p] = c
    BY <1>1, <1>3, <2>12
  <2>14. TypeOK' /\ Linked' /\ NotLost' /\ NoAssert' /\ IdleRunnable' /\ BootOrder'
    BY <2>8, <2>9, <2>13, Numbers
    DEF IInv, Settled, KernelOK, TypeOK, Linked, NotLost, NoAssert, IdleRunnable, BootOrder
  <2>15. ParentAlive'
    BY <2>9, <2>10, Fields DEF IInv, ParentAlive
  <2>16. Ancestry'
    <3>1. {q \in Pid \ {Idle} : k'.state[q] # "FREE"} = {q \in Pid \ {Idle} : k.state[q] # "FREE"}
      BY <2>10
    <3> QED BY <3>1, <2>9 DEF IInv, Ancestry
  <2>17. WaitTarget'
    <3>1. ASSUME NEW q \in Pid, pc'[q] = "waitpid"
          PROVE  /\ IsUser(q) /\ k'.state[q] \notin {"FREE", "DIED"}
                 /\ child'[q] \in Pid \ {q} /\ k'.state[child'[q]] # "FREE"
                 /\ k'.ppid[child'[q]] = q
      <4>1. CASE q = p
        BY <4>1, <1>1, <2>1, <2>9, <2>10, <2>13
      <4>2. CASE q # p
        BY <4>2, <3>1, <2>9, <2>10, <2>13 DEF IInv, WaitTarget
      <4> QED BY <4>1, <4>2
    <3>2. ASSUME NEW q \in Pid, k'.state[q] = "WAITING"
          PROVE  pc'[q] = "waitpid" \/ ~IsUser(q)
      BY <3>2, <2>11, <2>13 DEF IInv, WaitTarget
    <3>3. ASSUME NEW q \in Pid, k'.state[q] # "FREE"
          PROVE  k'.ppid[q] = Idle \/ IsUser(k'.ppid[q])
      BY <3>3, <2>9, <2>10 DEF IInv, WaitTarget
    <3> QED BY <3>1, <3>2, <3>3 DEF WaitTarget, IsUser
  <2>18. WaitAwake'
    <3> SUFFICES ASSUME NEW q \in Pid, pc'[q] = "waitpid"
                 PROVE  IF k'.state[q] = "WAITING"
                        THEN k'.waitpid[q] = child'[q] /\ k'.state[child'[q]] # "DIED"
                        ELSE k'.state[child'[q]] = "DIED"
      BY DEF WaitAwake
    <3>1. CASE q = p
      BY <3>1, <1>1, <1>3, <2>9, <2>10, <2>11, <2>13
    <3>2. CASE q # p
      <4>1. pc[q] = "waitpid" /\ child'[q] = child[q] /\ IsUser(q) /\ child[q] \in Pid
        BY <3>2, <2>13 DEF IInv, WaitTarget
      <4>2. IF k.state[q] = "WAITING"
            THEN k.waitpid[q] = child[q] /\ k.state[child[q]] # "DIED"
            ELSE k.state[child[q]] = "DIED"
        BY <4>1 DEF IInv, WaitAwake
      <4> QED BY <3>2, <4>1, <4>2, <2>9, <2>10, <2>11
    <3> QED BY <3>1, <3>2
  <2>19. SameLife(k, k') /\ Asleep(k, k')
    BY <2>1, <2>7, <2>8, <2>9, <2>10 DEF SameLife, Asleep
  <2> QED BY <2>14, <2>15, <2>16, <2>17, <2>18, <2>19 DEF IInv
<1> QED BY <1>2, <1>3

\* task_init establishes the inductive invariant.
LEMMA InitHolds == Init => IInv
<1> SUFFICES ASSUME Init PROVE IInv
  OBVIOUS
<1> DEFINE ready == IF HasEnum THEN <<EnumTask, InitTask, Idle>> ELSE <<InitTask, Idle>>
<1>1. /\ k.state = [p \in Pid |-> IF p \in BootTasks THEN "READY" ELSE "FREE"]
      /\ k.container = [p \in Pid |-> IF p \in BootTasks THEN "ready" ELSE NoList]
      /\ k.list = [l \in Lists |-> IF l # "ready" THEN <<>> ELSE ready]
      /\ k.running = NoTask /\ k.ppid = [p \in Pid |-> 0] /\ k.stop = "no"
  BY DEF Init
<1>2. pc = [p \in Pid |-> "run"] /\ child = [p \in Pid |-> NoTask]
  BY DEF Init
<1>3. /\ Idle \in BootTasks /\ InitTask \in BootTasks /\ BootTasks \subseteq Pid
      /\ \A p \in BootTasks : p # Idle => p = InitTask \/ (HasEnum /\ p = EnumTask)
      /\ HasEnum => EnumTask \in BootTasks
  BY Numbers DEF BootTasks
<1>4. /\ ready \in Seq(Pid) /\ ready # <<>> /\ Last(ready) = Idle
      /\ \A i \in 1 .. Len(ready) : ready[i] \in BootTasks
      /\ \A i, j \in 1 .. Len(ready) : ready[i] = ready[j] => i = j
      /\ \A p \in BootTasks : \E i \in 1 .. Len(ready) : ready[i] = p
  <2>1. CASE HasEnum
    <3>1. ready = <<EnumTask, InitTask, Idle>>
      BY <2>1
    <3> HIDE DEF ready
    <3>2. /\ ready \in Seq(Pid) /\ Len(ready) = 3
          /\ ready[1] = EnumTask /\ ready[2] = InitTask /\ ready[3] = Idle
      BY <3>1, Numbers
    <3>3. ready # <<>> /\ Last(ready) = Idle /\ 1 .. Len(ready) = {1, 2, 3}
      BY <3>2 DEF Last
    <3>4. BootTasks = {EnumTask, InitTask, Idle}
      BY <1>3, <2>1
    <3> QED BY <3>2, <3>3, <3>4, Numbers
  <2>2. CASE ~HasEnum
    <3>1. ready = <<InitTask, Idle>>
      BY <2>2
    <3> HIDE DEF ready
    <3>2. /\ ready \in Seq(Pid) /\ Len(ready) = 2
          /\ ready[1] = InitTask /\ ready[2] = Idle
      BY <3>1, Numbers
    <3>3. ready # <<>> /\ Last(ready) = Idle /\ 1 .. Len(ready) = {1, 2}
      BY <3>2 DEF Last
    <3>4. BootTasks = {InitTask, Idle}
      BY <1>3, <2>2
    <3> QED BY <3>2, <3>3, <3>4, Numbers
  <2> QED BY <2>1, <2>2
<1> HIDE DEF ready
<1>5. k \in KernelState
  <2>1. /\ k.state \in [Pid -> TaskState] /\ k.container \in [Pid -> Lists \cup {NoList}]
        /\ k.list \in [Lists -> Seq(Pid)] /\ k.running \in Pid \cup {NoTask}
        /\ k.ppid \in [Pid -> Pid] /\ k.stop \in StopReason
    BY <1>1, <1>4, Numbers DEF TaskState, StopReason, Idle
  <2>2. /\ k.waitpid = [p \in Pid |-> 0] /\ k.jiffies = 0
        /\ k.priority = [p \in Pid |-> IF p \in BootTasks \ {Idle} THEN UserPriority ELSE 1]
        /\ k.ticks = [p \in Pid |-> IF p \in BootTasks \ {Idle} THEN UserPriority ELSE 1]
        /\ k.value = [p \in Pid |-> IF p \in BootTasks \ {Idle} THEN UserPriority
                                    ELSE IF p = Idle THEN 1 ELSE 0]
    BY DEF Init
  <2>3. /\ k.waitpid \in [Pid -> Pid \cup {AnyChild}] /\ k.jiffies \in Nat
        /\ k.priority \in [Pid -> Nat \ {0}] /\ k.ticks \in [Pid -> Nat \ {0}]
        /\ k.value \in [Pid -> Nat]
    BY <2>2, Numbers, TaskAssumption DEF Idle
  <2>4. k = [state |-> k.state, container |-> k.container, list |-> k.list,
             running |-> k.running, ppid |-> k.ppid, waitpid |-> k.waitpid,
             priority |-> k.priority, ticks |-> k.ticks, value |-> k.value,
             jiffies |-> k.jiffies, stop |-> k.stop]
    BY DEF Init
  <2> QED BY <2>1, <2>3, <2>4 DEF KernelState
<1>6. Linked
  <2>1. /\ k.list["ready"] = ready
        /\ \A l \in Lists : l # "ready" => Len(k.list[l]) = 0
        /\ \A p \in Pid : k.container[p] = "ready" \/ k.container[p] = NoList
    BY <1>1, Numbers
  <2>2. \A l \in Lists : \A i \in 1 .. Len(k.list[l]) :
          l = "ready" /\ k.list[l][i] \in BootTasks
    BY <2>1, <1>4
  <2>3. \A p \in BootTasks : k.container[p] = "ready"
    BY <1>1, <1>3
  <2>4. \A p \in Pid : k.container[p] # NoList => p \in BootTasks /\ k.container[p] = "ready"
    BY <1>1
  <2> QED BY <2>1, <2>2, <2>3, <2>4, <1>4 DEF Linked, WellLinked
<1>7. NotLost /\ NoAssert /\ IdleRunnable /\ BootOrder
  BY <1>1, <1>3, <1>4, Numbers
  DEF NotLost, Placed, NoAssert, IdleRunnable, IdleReady, RunningOK, BootOrder
<1>8. ParentAlive /\ Ancestry
  <2>1. \A p \in Pid : k.ppid[p] = Idle
    BY <1>1 DEF Idle
  <2>2. k.state[Idle] = "READY"
    BY <1>1, <1>3, Numbers
  <2>3. ParentAlive
    BY <2>1, <2>2 DEF ParentAlive
  <2>4. ASSUME NEW S \in SUBSET {p \in Pid \ {Idle} : k.state[p] # "FREE"}, S # {}
        PROVE  \E p \in S : k.ppid[p] \notin S
    BY <2>1, <2>4
  <2> QED BY <2>3, <2>4 DEF Ancestry
<1>9. WaitTarget /\ WaitAwake
  BY <1>1, <1>2, Numbers DEF WaitTarget, WaitAwake, Idle
<1> QED BY <1>2, <1>5, <1>6, <1>7, <1>8, <1>9 DEF IInv, TypeOK

-----------------------------------------------------------------------------
(* The theorems *)

\* Every reachable state satisfies the inductive invariant: no interleaving of
\* ticks, forks, exits, sleeps and waits loses a task, fails an assertion of
\* list.c or task.c, or leaves a task with a parent that is gone.
THEOREM Safety ==
  ASSUME WaitArgs \subseteq Pid
  PROVE  Spec => []IInv
<1>1. ASSUME IInv, [Next]_vars
      PROVE  IInv'
  <2>1. CASE ClockFirst
    BY <1>1, <2>1, ClockFirstKeeps
  <2>2. CASE ClockTick
    BY <1>1, <2>2, ClockTickKeeps
  <2>3. CASE Yield
    BY <1>1, <2>3, YieldKeeps
  <2>4. CASE Fork
    BY <1>1, <2>4, ForkKeeps
  <2>5. CASE Exit
    BY <1>1, <2>5, ExitKeeps
  <2>6. CASE Sleep
    BY <1>1, <2>6, SleepKeeps
  <2>7. CASE WaitPid
    BY <1>1, <2>7, WaitPidKeeps
  <2>8. CASE WaitPidResume
    BY <1>1, <2>8, WaitPidResumeKeeps
  <2>9. CASE EnumWait
    BY <1>1, <2>9, EnumWaitKeeps
  <2>10. CASE EnumWake
    BY <1>1, <2>10, EnumWakeKeeps
  <2>11. CASE Halted \/ UNCHANGED vars
    <3>1. UNCHANGED vars
      BY <2>11 DEF Halted
    <3> QED BY <1>1, <3>1
      DEF vars, IInv, TypeOK, Linked, NotLost, NoAssert, IdleRunnable,
          ParentAlive, Ancestry, BootOrder, WaitTarget, WaitAwake
  <2> QED BY <1>1, <2>1, <2>2, <2>3, <2>4, <2>5, <2>6, <2>7, <2>8, <2>9, <2>10, <2>11
        DEF Next
<1> QED BY <1>1, InitHolds, PTL DEF Spec

\* The TCBs and lists hold what their types say; no time slice is ever zero, so
\* --ticks in the clock handler always ends one.
THEOREM TaskTypes ==
  ASSUME WaitArgs \subseteq Pid
  PROVE  Spec => []TypeOK
<1>1. IInv => TypeOK
  BY DEF IInv
<1> QED BY <1>1, Safety, PTL

\* list.c keeps its lists: a node is on the list its container names, once.
THEOREM ListsLinked ==
  ASSUME WaitArgs \subseteq Pid
  PROVE  Spec => []Linked
<1>1. IInv => Linked
  BY DEF IInv
<1> QED BY <1>1, Safety, PTL

\* No fork, exit, block or tick loses a task: all but the running one are on the
\* list of their state.
THEOREM NoTaskLost ==
  ASSUME WaitArgs \subseteq Pid
  PROVE  Spec => []NotLost
<1>1. IInv => NotLost
  BY DEF IInv
<1> QED BY <1>1, Safety, PTL

\* No assertion of list.c and task.c fails; schedule() always finds a task.
THEOREM NoAssertFails ==
  ASSUME WaitArgs \subseteq Pid
  PROVE  Spec => []NoAssert
<1>1. IInv => NoAssert
  BY DEF IInv
<1> QED BY <1>1, Safety, PTL

\* sys_exit dereferences the slot of a parent that exists.
THEOREM ParentsAlive ==
  ASSUME WaitArgs \subseteq Pid
  PROVE  Spec => []ParentAlive
<1>1. IInv => ParentAlive
  BY DEF IInv
<1> QED BY <1>1, Safety, PTL

\* Handing children to the grandparent makes no cycle of parents.
THEOREM ParentsLeadToIdle ==
  ASSUME WaitArgs \subseteq Pid
  PROVE  Spec => []Ancestry
<1>1. IInv => Ancestry
  BY DEF IInv
<1> QED BY <1>1, Safety, PTL

\* block() in sys_waitpid returns only when the child looked for has exited.
THEOREM WaitersAwake ==
  ASSUME WaitArgs \subseteq Pid
  PROVE  Spec => []WaitAwake
<1>1. IInv => WaitAwake
  BY DEF IInv
<1> QED BY <1>1, Safety, PTL

-----------------------------------------------------------------------------
(* Steps as the life cycle of processes sees them *)

\* A process appears, exits or is reaped, or nothing of it changes.
Born(p, c) ==
  /\ k.state[c] = "FREE" /\ k.state[p] \notin {"FREE", "DIED"}
  /\ Proc' = [Proc EXCEPT ![c] = "live"] /\ k'.ppid = [k.ppid EXCEPT ![c] = p]

Dies(p) ==
  /\ k.state[p] \notin {"FREE", "DIED"} /\ p # Idle
  /\ Proc' = [Proc EXCEPT ![p] = "zombie"]
  /\ k'.ppid = [c \in Pid |-> IF Proc[c] # "free" /\ k.ppid[c] = p THEN k.ppid[p] ELSE k.ppid[c]]

Reaped(p, c) ==
  /\ k.state[c] = "DIED" /\ k.ppid[c] = p /\ k.state[p] \notin {"FREE", "DIED"}
  /\ Proc' = [Proc EXCEPT ![c] = "free"] /\ k'.ppid = [k.ppid EXCEPT ![c] = Idle]

LifeStep == \/ \E p, c \in Pid : Born(p, c)
            \/ \E p \in Pid : Dies(p)
            \/ \E p, c \in Pid : Reaped(p, c)
            \/ Proc' = Proc /\ k'.ppid = k.ppid

\* A step that leaves parents and life alone is a stutter of Process.
LEMMA SameLifeStep ==
  ASSUME SameLife(k, k')
  PROVE  LifeStep
<1>1. Proc' = Proc
  BY DEF Proc, SameLife
<1> QED BY <1>1 DEF LifeStep, SameLife

\* A quiet change leaves parents and life alone.
LEMMA QuietLife ==
  ASSUME Quiet(k, k')
  PROVE  LifeStep
<1>1. SameLife(k, k')
  BY DEF Quiet, Active, SameLife
<1> QED BY <1>1, SameLifeStep

\* Reaps is the step Reap of Process.
LEMMA ReapLife ==
  ASSUME IInv, NEW p \in Pid, NEW c \in Pid, Reaps(p, c)
  PROVE  LifeStep
<1>1. /\ KernelOK(k) /\ Placed(k) /\ k.state[p] = "RUNNING" /\ c # p /\ k.running = p
      /\ k.state[c] = "DIED" /\ k.ppid[c] = p
  BY Caller DEF Settled, Reaps
<1>2. k.container[c] # NoList /\ k' = freeTask(k, c)
  BY <1>1 DEF Placed, NoList, Reap, Reaps
<1>3. /\ k'.state = [k.state EXCEPT ![c] = "FREE"] /\ k'.ppid = [k.ppid EXCEPT ![c] = 0]
  BY <1>1, <1>2, FreeTaskFacts
<1>4. Proc' = [Proc EXCEPT ![c] = "free"]
  BY <1>3, Fields DEF Proc
<1>5. Reaped(p, c)
  BY <1>1, <1>3, <1>4 DEF Reaped, Idle
<1> QED BY <1>5 DEF LifeStep

\* fork is the step Fork of Process, or a stutter when it panics.
LEMMA ForkLife ==
  ASSUME IInv, Fork
  PROVE  LifeStep
<1>1. PICK p \in Pid : Runs(p) /\ IsUser(p)
  BY DEF Fork
<1>2. /\ k.running = p /\ KernelOK(k) /\ Placed(k) /\ k.state[p] = "RUNNING" /\ k' = fork(k)
  BY <1>1, Caller DEF Runs, Fork, Settled
<1>3. CASE FreeSlots(k) = {}
  <2>1. k' = [k EXCEPT !.stop = "panic"]
    BY <1>2, <1>3 DEF fork, Halt
  <2>2. k'.state = k.state /\ k'.ppid = k.ppid
    BY <2>1, <1>2 DEF KernelOK, KernelState
  <2> QED BY <2>2 DEF LifeStep, Proc
<1>4. CASE FreeSlots(k) # {}
  <2> DEFINE c == get_task(k)
  <2>1. c \in Pid /\ k.state[c] = "FREE"
    BY <1>4, GetTask
  <2>2. k.container[c] = NoList
    BY <1>2, <2>1 DEF Placed
  <2>3. /\ k'.state = [k.state EXCEPT ![c] = "READY"] /\ k'.ppid = [k.ppid EXCEPT ![c] = p]
    BY <1>2, <1>4, <2>2, ForkFacts
  <2> HIDE DEF c
  <2>4. Proc' = [Proc EXCEPT ![c] = "live"]
    BY <2>1, <2>3, Fields DEF Proc
  <2>5. Born(p, c)
    BY <1>2, <2>1, <2>3, <2>4 DEF Born
  <2> QED BY <2>1, <2>5 DEF LifeStep
<1> QED BY <1>3, <1>4

\* exit is the step Exit of Process.
LEMMA ExitLife ==
  ASSUME IInv, Exit
  PROVE  LifeStep
<1>1. PICK p \in Pid : Runs(p) /\ IsUser(p)
  BY DEF Exit
<1> DEFINE par == k.ppid[p]
           woken == k.state[par] = "WAITING" /\ k.waitpid[par] \in {AnyChild, p}
<1>2. PICK m : /\ sys_exit(k) = schedule(m)
               /\ KernelOK(m) /\ m.running = p /\ m.stop = k.stop
               /\ m.waitpid = k.waitpid /\ Placed(m)
               /\ m.state[p] = "DIED" /\ m.container[p] = "died"
               /\ m.container[Idle] = "ready"
               /\ \A q \in Pid \ {p} :
                    m.state[q] = IF q = par /\ woken THEN "READY" ELSE k.state[q]
               /\ \A q \in Pid :
                    m.ppid[q] = IF k.state[q] # "FREE" /\ k.ppid[q] = p
                                THEN par ELSE k.ppid[q]
  BY <1>1, ExitFacts
<1>3. p # Idle /\ k.state[p] = "RUNNING" /\ k' = sys_exit(k)
  BY <1>1, Caller DEF Runs, Exit
<1>4. KernelOK(k') /\ Quiet(m, k')
  BY <1>2, <1>3, Switch DEF Settled
<1>5. /\ \A q \in Pid : k'.state[q] = "FREE" <=> k.state[q] = "FREE"
      /\ \A q \in Pid : k'.state[q] = "DIED" <=> (q = p \/ k.state[q] = "DIED")
  BY <1>2, <1>3, <1>4 DEF Quiet, Active
<1>6. Proc' = [Proc EXCEPT ![p] = "zombie"]
  BY <1>3, <1>5 DEF Proc
<1>7. k'.ppid = [c \in Pid |-> IF Proc[c] # "free" /\ k.ppid[c] = p THEN k.ppid[p] ELSE k.ppid[c]]
  <2>1. k'.ppid \in [Pid -> Pid]
    BY <1>4 DEF KernelOK, KernelState
  <2>2. \A q \in Pid : k'.ppid[q] = IF k.state[q] # "FREE" /\ k.ppid[q] = p
                                    THEN k.ppid[p] ELSE k.ppid[q]
    BY <1>2, <1>4 DEF Quiet
  <2>3. \A q \in Pid : Proc[q] # "free" <=> k.state[q] # "FREE"
    BY DEF Proc
  <2> QED BY <2>1, <2>2, <2>3
<1>8. Dies(p)
  BY <1>3, <1>6, <1>7 DEF Dies
<1> QED BY <1>8 DEF LifeStep

\* Every step of the kernel is a step of Process or a stutter.
LEMMA NextLife ==
  ASSUME IInv, [Next]_vars, WaitArgs \subseteq Pid
  PROVE  LifeStep
<1>1. CASE UNCHANGED vars \/ Halted
  BY <1>1 DEF vars, Halted, LifeStep, Proc
<1>2. CASE ClockFirst \/ ClockTick \/ Yield \/ Sleep \/ EnumWait \/ EnumWake
  BY <1>2, QuietLife, ClockFirstKeeps, ClockTickKeeps, YieldKeeps, SleepKeeps,
     EnumWaitKeeps, EnumWakeKeeps
<1>3. CASE WaitPid \/ WaitPidResume
  BY <1>3, SameLifeStep, ReapLife, WaitPidKeeps, WaitPidResumeKeeps
<1> QED BY <1>1, <1>2, <1>3, ForkLife, ExitLife DEF Next

\* waitpid with a pid gives back the slot, the kernel stack and the TCB of a
\* task only after that task has exited.
THEOREM ReapSafe ==
  ASSUME WaitArgs \subseteq Pid
  PROVE  Spec => ReapOnlyDied
<1>1. ASSUME IInv, [Next]_vars
      PROVE  [\A p \in Pid : k.state[p] # "FREE" /\ k'.state[p] = "FREE"
                => k.state[p] = "DIED"]_vars
  <2> SUFFICES ASSUME NEW p \in Pid, k.state[p] # "FREE", k'.state[p] = "FREE"
               PROVE  k.state[p] = "DIED"
    OBVIOUS
  <2>1. Proc[p] # "free" /\ Proc'[p] = "free"
    BY DEF Proc
  <2>2. LifeStep
    BY <1>1, NextLife
  <2>3. Proc \in [Pid -> {"free", "live", "zombie"}]
    BY DEF Proc
  <2> QED BY <2>1, <2>2, <2>3 DEF LifeStep, Born, Dies, Reaped
<1> QED BY <1>1, Safety, PTL DEF Spec, ReapOnlyDied

\* fork wakes no sleeper.
LEMMA ForkAsleep ==
  ASSUME IInv, Fork
  PROVE  Asleep(k, k')
<1>1. PICK p \in Pid : Runs(p) /\ IsUser(p)
  BY DEF Fork
<1>2. /\ k.running = p /\ KernelOK(k) /\ Placed(k) /\ k.state[p] = "RUNNING" /\ k' = fork(k)
  BY <1>1, Caller DEF Runs, Fork, Settled
<1>3. CASE FreeSlots(k) = {}
  BY <1>2, <1>3 DEF fork, Halt, Asleep, KernelOK, KernelState
<1>4. CASE FreeSlots(k) # {}
  <2> DEFINE c == get_task(k)
  <2>1. c \in Pid /\ k.state[c] = "FREE"
    BY <1>4, GetTask
  <2>2. k.container[c] = NoList
    BY <1>2, <2>1 DEF Placed
  <2>3. k'.state = [k.state EXCEPT ![c] = "READY"]
    BY <1>2, <1>4, <2>2, ForkFacts
  <2> QED BY <2>1, <2>3, Fields DEF Asleep
<1> QED BY <1>3, <1>4

\* exit wakes a parent in waitpid, which does not sleep.
LEMMA ExitAsleep ==
  ASSUME IInv, Exit
  PROVE  Asleep(k, k')
<1>1. PICK p \in Pid : Runs(p) /\ IsUser(p)
  BY DEF Exit
<1> DEFINE par == k.ppid[p]
           woken == k.state[par] = "WAITING" /\ k.waitpid[par] \in {AnyChild, p}
<1>2. PICK m : /\ sys_exit(k) = schedule(m)
               /\ KernelOK(m) /\ m.running = p /\ Placed(m)
               /\ m.state[p] = "DIED" /\ m.container[p] = "died"
               /\ m.container[Idle] = "ready"
               /\ \A q \in Pid \ {p} :
                    m.state[q] = IF q = par /\ woken THEN "READY" ELSE k.state[q]
  BY <1>1, ExitFacts
<1>3. p # Idle /\ k.state[p] = "RUNNING" /\ k' = sys_exit(k)
  BY <1>1, Caller DEF Runs, Exit
<1>4. Asleep(m, k')
  BY <1>2, <1>3, Switch
<1> QED BY <1>2, <1>3, <1>4 DEF Asleep

\* Only a tick wakes a sleeper, and weakup() does so when its time has come.
THEOREM SleepsLongEnough ==
  ASSUME WaitArgs \subseteq Pid
  PROVE  Spec => NeverEarly
<1>1. ASSUME IInv, [Next]_vars
      PROVE  [\A p \in Pid : k.state[p] = "SLEEPING" /\ k'.state[p] # "SLEEPING"
                => k'.jiffies >= k.value[p]]_vars
  <2>1. CASE ClockTick
    BY <1>1, <2>1, ClockTickKeeps
  <2>2. CASE ClockFirst \/ Yield \/ Sleep \/ EnumWait \/ EnumWake \/ Fork \/ Exit
    BY <1>1, <2>2, ClockFirstKeeps, YieldKeeps, SleepKeeps, EnumWaitKeeps, EnumWakeKeeps,
       ForkAsleep, ExitAsleep DEF Asleep
  <2>3. ASSUME NEW p \in Pid, NEW c \in Pid, Reaps(p, c)
        PROVE  Asleep(k, k')
    <3>1. /\ KernelOK(k) /\ k.running = p /\ c # p /\ k.state[c] = "DIED"
          /\ k.container[c] # NoList /\ k' = freeTask(k, c)
      BY <1>1, <2>3, Caller DEF Settled, Reaps, Placed, NoList, Reap
    <3>2. k'.state = [k.state EXCEPT ![c] = "FREE"]
      BY <3>1, FreeTaskFacts
    <3> QED BY <3>1, <3>2, <1>1, Fields DEF Asleep
  <2>4. CASE WaitPid \/ WaitPidResume
    BY <1>1, <2>3, <2>4, WaitPidKeeps, WaitPidResumeKeeps DEF Asleep
  <2>5. CASE UNCHANGED vars \/ Halted
    BY <2>5 DEF vars, Halted
  <2> QED BY <1>1, <2>1, <2>2, <2>4, <2>5 DEF Next
<1> QED BY <1>1, Safety, PTL DEF Spec, NeverEarly

\* fork, exit and waitpid over the scheduler, its lists and the clock implement
\* the life cycle of processes of module Process.
THEOREM Refinement ==
  ASSUME WaitArgs \subseteq Pid
  PROVE  Spec => ImplementsLifecycle
<1>1. ASSUME Init
      PROVE  Lifecycle!Init
  <2>1. /\ k.state = [p \in Pid |-> IF p \in BootTasks THEN "READY" ELSE "FREE"]
        /\ k.ppid = [p \in Pid |-> 0]
    BY <1>1 DEF Init
  <2> QED BY <2>1 DEF Lifecycle!Init, Proc, Idle
<1>2. ASSUME IInv, [Next]_vars
      PROVE  [Lifecycle!Next]_(Lifecycle!procVars)
  <2>1. /\ \A p \in Pid : Proc[p] = "free" <=> k.state[p] = "FREE"
        /\ \A p \in Pid : Proc[p] = "zombie" <=> k.state[p] = "DIED"
        /\ \A p \in Pid : Proc[p] = "live" <=> k.state[p] \notin {"FREE", "DIED"}
    BY DEF Proc
  <2>2. LifeStep
    BY <1>2, NextLife
  <2>3. CASE \E p, c \in Pid : Born(p, c)
    BY <2>1, <2>3 DEF Born, Lifecycle!Next, Lifecycle!Fork
  <2>4. CASE \E p \in Pid : Dies(p)
    BY <2>1, <2>4, ZenonT(40) DEF Dies, Lifecycle!Next, Lifecycle!Exit
  <2>5. CASE \E p, c \in Pid : Reaped(p, c)
    BY <2>1, <2>5, ZenonT(40) DEF Reaped, Lifecycle!Next, Lifecycle!Reap
  <2>6. CASE Proc' = Proc /\ k'.ppid = k.ppid
    BY <2>6 DEF Lifecycle!procVars
  <2> QED BY <2>2, <2>3, <2>4, <2>5, <2>6 DEF LifeStep
<1> QED BY <1>1, <1>2, Safety, PTL DEF Spec, ImplementsLifecycle, Lifecycle!Spec

-----------------------------------------------------------------------------
(* How late a sleeper can be *)

Users == Cardinality({p \in Pid : IsUser(p)})
Slack == IF 0 \in SleepTicks THEN 0 ELSE 1

\* The inductive form of LatenessBound: only user tasks sleep, so there are no
\* more sleepers than those, and the list is in the order of their times, so
\* when the first is not due nobody is.
SleepOK(m) ==
  LET s == m.list["sleep"]
  IN /\ \A i \in 1 .. Len(s) : IsUser(s[i])
     /\ \A i, j \in 1 .. Len(s) : i <= j => m.value[s[i]] <= m.value[s[j]]
     /\ \A i \in 1 .. Len(s) : m.jiffies + i + Slack <= m.value[s[i]] + Users

\* The types of what SleepOK speaks of.
LEMMA SleepTypes ==
  ASSUME NEW m, KernelOK(m)
  PROVE  LET s == m.list["sleep"]
         IN /\ s \in Seq(Pid) /\ Len(s) \in Nat /\ m.jiffies \in Nat
            /\ m.value \in [Pid -> Nat]
            /\ \A i \in 1 .. Len(s) : s[i] \in Pid /\ m.value[s[i]] \in Nat
<1>1. "sleep" \in Lists
  BY SchedAssumption
<1> QED BY <1>1, SMTT(30) DEF KernelOK, KernelState

\* There is a number of user tasks.
LEMMA UsersType ==
  /\ IsFiniteSet({p \in Pid : IsUser(p)}) /\ Users \in Nat /\ Slack \in {0, 1}
<1>1. IsFiniteSet(Pid)
  BY SchedAssumption, FS_Interval DEF Pid
<1>2. IsFiniteSet({p \in Pid : IsUser(p)})
  BY <1>1, FS_Subset
<1> QED BY <1>2, FS_CardinalityType DEF Users, Slack

\* A user task sleeps on one place of the list.
LEMMA CountSleepers ==
  ASSUME NEW m, KernelOK(m),
         \A i \in 1 .. Len(m.list["sleep"]) : IsUser(m.list["sleep"][i])
  PROVE  Len(m.list["sleep"]) <= Users
<1> DEFINE s == m.list["sleep"]
           U == {p \in Pid : IsUser(p)}
           f == [i \in 1 .. Len(s) |-> s[i]]
<1>1. s \in Seq(Pid) /\ Len(s) \in Nat /\ \A i \in 1 .. Len(s) : s[i] \in U
  BY SleepTypes
<1>2. \A i, j \in 1 .. Len(s) : s[i] = s[j] => i = j
  BY SchedAssumption DEF KernelOK, WellLinked
<1>3. f \in Injection(1 .. Len(s), U)
  BY <1>1, <1>2 DEF Injection, IsInjective
<1>4. Cardinality(1 .. Len(s)) <= Cardinality(U)
  BY <1>3, UsersType, FS_Injection
<1>5. Cardinality(1 .. Len(s)) = Len(s)
  BY <1>1, FS_Interval
<1> QED BY <1>4, <1>5 DEF Users

\* What does not touch the sleepers keeps SleepOK.
LEMMA SameSleepKeeps ==
  ASSUME NEW m, NEW n, SleepOK(m), SameSleep(m, n)
  PROVE  SleepOK(n)
BY DEF SleepOK, SameSleep

\* A sleeper taken into the list is behind all that wake no later, and behind
\* it come only such as have more time left.
LEMMA InsertSleepOK ==
  ASSUME NEW m, KernelOK(m), SleepOK(m), NEW n, KernelOK(n),
         NEW p \in Pid, IsUser(p), NEW t \in SleepTicks,
         n.jiffies = m.jiffies, n.value = [m.value EXCEPT ![p] = m.jiffies + t],
         m.container[p] # "sleep",
         NEW i \in 1 .. Len(m.list["sleep"]) + 1,
         n.list["sleep"] = InsertAt(m.list["sleep"], i, p),
         \A j \in 1 .. Len(m.list["sleep"]) :
           j < i => m.value[m.list["sleep"][j]] <= m.jiffies + t,
         i <= Len(m.list["sleep"]) => m.value[m.list["sleep"][i]] > m.jiffies + t
  PROVE  SleepOK(n)
<1> DEFINE s == m.list["sleep"]
           o == n.list["sleep"]
           v(j) == m.value[s[j]]
           w(j) == n.value[o[j]]
           J == m.jiffies
           L == Len(s)
<1>1. /\ s \in Seq(Pid) /\ L \in Nat /\ J \in Nat /\ m.value \in [Pid -> Nat]
      /\ \A j \in 1 .. L : s[j] \in Pid /\ v(j) \in Nat
  BY SleepTypes
<1>2. t \in Nat /\ Slack <= t
  BY TaskAssumption DEF Slack
<1>3. /\ Len(o) = L + 1
      /\ \A j \in 1 .. L + 1 : o[j] = IF j < i THEN s[j] ELSE IF j = i THEN p ELSE s[j - 1]
  <2>1. o = InsertAt(s, i, p) /\ i \in 1 .. Len(s) + 1
    OBVIOUS
  <2> HIDE DEF o, s
  <2>2. /\ Len(InsertAt(s, i, p)) = Len(s) + 1
        /\ \A j \in 1 .. Len(s) + 1 :
             InsertAt(s, i, p)[j] = IF j < i THEN s[j] ELSE IF j = i THEN p ELSE s[j - 1]
    <3>1. s \in Seq(Pid) /\ i \in 1 .. Len(s) + 1
      BY <1>1, <2>1
    <3> QED BY <3>1, InsertAtFacts
  <2> QED BY <2>1, <2>2, Zenon
<1>4. \A j \in 1 .. L : s[j] # p
  BY SchedAssumption DEF KernelOK, WellLinked
<1>5. \A j \in 1 .. L : n.value[s[j]] = v(j)
  BY <1>1, <1>4
<1>6. n.value[p] = J + t
  BY <1>1
<1>7. \A j \in 1 .. L + 1 : w(j) = IF j < i THEN v(j) ELSE IF j = i THEN J + t ELSE v(j - 1)
  <2> SUFFICES ASSUME NEW j \in 1 .. L + 1
               PROVE  w(j) = IF j < i THEN v(j) ELSE IF j = i THEN J + t ELSE v(j - 1)
    OBVIOUS
  <2>1. CASE j < i
    <3>1. j \in 1 .. L /\ o[j] = s[j]
      BY <1>1, <1>3, <2>1
    <3> QED BY <3>1, <1>5, <2>1
  <2>2. CASE j = i
    <3>1. o[j] = p
      BY <1>3, <2>2
    <3> QED BY <3>1, <1>6, <2>2
  <2>3. CASE j > i
    <3>1. j - 1 \in 1 .. L /\ o[j] = s[j - 1]
      BY <1>1, <1>3, <2>3, SMTT(30)
    <3> QED BY <3>1, <1>5, <2>3
  <2> QED BY <1>1, <2>1, <2>2, <2>3
<1>8. \A j \in 1 .. Len(o) : IsUser(o[j])
  <2> SUFFICES ASSUME NEW j \in 1 .. L + 1 PROVE IsUser(o[j])
    BY <1>3
  <2>1. \A h \in 1 .. L : IsUser(s[h])
    BY DEF SleepOK
  <2>2. j < i => j \in 1 .. L
    BY <1>1
  <2>3. j > i => j - 1 \in 1 .. L
    BY <1>1
  <2>4. j < i \/ j = i \/ j > i
    BY <1>1
  <2> HIDE DEF o, s, L
  <2> QED BY <1>3, <2>1, <2>2, <2>3, <2>4
<1>9. L + 1 <= Users
  BY <1>3, <1>8, CountSleepers
<1>10. /\ \A g, h \in 1 .. L : g <= h => v(g) <= v(h)
       /\ \A h \in 1 .. L : J + h + Slack <= v(h) + Users
       /\ \A h \in 1 .. L : h < i => v(h) <= J + t
       /\ \A h \in 1 .. L : h >= i => v(h) > J + t
  <2>1. /\ \A g, h \in 1 .. L : g <= h => v(g) <= v(h)
        /\ \A h \in 1 .. L : J + h + Slack <= v(h) + Users
        /\ \A h \in 1 .. L : h < i => v(h) <= J + t
    BY DEF SleepOK
  <2>2. i <= L => v(i) > J + t
    OBVIOUS
  <2> HIDE DEF v, J, L
  <2>3. ASSUME NEW h \in 1 .. L, h >= i PROVE v(h) > J + t
    <3>1. i \in 1 .. L /\ v(i) > J + t /\ v(i) <= v(h)
      BY <1>1, <2>1, <2>2, <2>3
    <3>2. v(i) \in Nat /\ v(h) \in Nat
      BY <1>1, <3>1 DEF v
    <3> QED BY <1>1, <1>2, <3>1, <3>2
  <2> QED BY <2>1, <2>3
<1>14. n.jiffies = J
  OBVIOUS
<1>15. \A j \in 1 .. L : v(j) \in Nat
  BY <1>1
<1>16. i \in 1 .. L + 1
  OBVIOUS
<1> HIDE DEF v, w, J, L
<1>11. ASSUME NEW j \in 1 .. L + 1
       PROVE  /\ w(j) \in Nat
              /\ j < i => j \in 1 .. L /\ w(j) = v(j) /\ w(j) <= J + t
              /\ j = i => w(j) = J + t
              /\ j > i => j - 1 \in 1 .. L /\ w(j) = v(j - 1) /\ w(j) > J + t
  <2>1. CASE j < i
    <3>1. j \in 1 .. L
      BY <1>1, <1>16, <2>1
    <3> QED BY <1>7, <1>10, <1>15, <1>16, <2>1, <3>1
  <2>2. CASE j = i
    BY <1>1, <1>2, <1>7, <1>16, <2>2
  <2>3. CASE j > i
    <3>1. j - 1 \in 1 .. L /\ j - 1 >= i
      BY <1>1, <1>16, <2>3
    <3>2. w(j) = v(j - 1)
      BY <1>7, <1>16, <2>3
    <3> QED BY <1>10, <1>15, <1>16, <2>3, <3>1, <3>2
  <2> QED BY <1>1, <1>16, <2>1, <2>2, <2>3
<1>12. ASSUME NEW g \in 1 .. L + 1, NEW h \in 1 .. L + 1, g <= h
       PROVE  w(g) <= w(h)
  <2>1. CASE h < i
    BY <1>1, <1>10, <1>11, <1>12, <1>16, <2>1, SMTT(30)
  <2>2. CASE g > i
    <3>1. /\ g - 1 \in 1 .. L /\ h - 1 \in 1 .. L /\ g - 1 <= h - 1
          /\ w(g) = v(g - 1) /\ w(h) = v(h - 1)
      BY <1>1, <1>11, <1>12, <1>16, <2>2
    <3> QED BY <1>10, <3>1
  <2>3. CASE g <= i /\ i <= h
    <3>1. w(g) <= J + t
      BY <1>1, <1>2, <1>11, <1>16, <2>3
    <3>2. w(h) >= J + t
      BY <1>1, <1>2, <1>11, <1>16, <2>3, SMTT(30)
    <3>3. w(g) \in Nat /\ w(h) \in Nat
      BY <1>11
    <3> QED BY <1>1, <1>2, <3>1, <3>2, <3>3
  <2> QED BY <1>1, <1>12, <1>16, <2>1, <2>2, <2>3
<1>13. ASSUME NEW j \in 1 .. L + 1
       PROVE  J + j + Slack <= w(j) + Users
  <2>1. CASE j < i
    BY <1>10, <1>11, <2>1
  <2>2. CASE j >= i
    <3>1. w(j) \in Nat /\ w(j) >= J + t
      BY <1>1, <1>2, <1>11, <1>16, <2>2, SMTT(30)
    <3> QED BY <1>1, <1>2, <1>9, <3>1, UsersType, SMTT(30)
  <2> QED BY <1>1, <1>16, <2>1, <2>2
<1> QED BY <1>3, <1>8, <1>12, <1>13, <1>14 DEF SleepOK, w

\* A tick wakes the first sleeper, and then all others are one place nearer to
\* the front, or finds that none is due.
LEMMA TickSleepOK ==
  ASSUME NEW m, KernelOK(m), SleepOK(m), NEW n, KernelOK(n),
         n.jiffies \in {m.jiffies, m.jiffies + 1}, n.value = m.value,
         LET s == m.list["sleep"]
         IN \/ n.list["sleep"] = s /\ (s # <<>> => n.jiffies < m.value[s[1]])
            \/ s # <<>> /\ n.list["sleep"] = RemoveAt(s, 1)
  PROVE  SleepOK(n)
<1> DEFINE s == m.list["sleep"]
           o == n.list["sleep"]
           v(j) == m.value[s[j]]
           J == m.jiffies
           K == n.jiffies
           L == Len(s)
<1>1. /\ s \in Seq(Pid) /\ L \in Nat /\ J \in Nat /\ K \in {J, J + 1}
      /\ \A j \in 1 .. L : v(j) \in Nat
  BY SleepTypes
<1>2. /\ \A g, h \in 1 .. L : g <= h => v(g) <= v(h)
      /\ \A h \in 1 .. L : J + h + Slack <= v(h) + Users
      /\ \A h \in 1 .. L : IsUser(s[h])
  BY DEF SleepOK
<1>3. L <= Users
  BY <1>2, CountSleepers
<1>4. CASE o = s /\ (s # <<>> => K < m.value[s[1]])
  <2>1. \A h \in 1 .. L : K < v(h)
    <3> SUFFICES ASSUME NEW h \in 1 .. L PROVE K < v(h)
      OBVIOUS
    <3>1. s # <<>> /\ 1 \in 1 .. L /\ 1 <= h
      BY <1>1
    <3>2. K < v(1)
      BY <1>4, <3>1
    <3> HIDE DEF v, K, J, L
    <3>3. v(1) <= v(h) /\ v(1) \in Nat /\ v(h) \in Nat /\ K \in Nat
      BY <1>1, <1>2, <3>1
    <3> QED BY <3>2, <3>3
  <2> HIDE DEF v, K, J, L
  <2>2. ASSUME NEW h \in 1 .. L PROVE K + h + Slack <= v(h) + Users
    BY <1>1, <1>3, <2>1, UsersType
  <2> USE DEF v, K, J, L
  <2> QED BY <1>2, <1>4, <2>2 DEF SleepOK
<1>5. CASE s # <<>> /\ o = RemoveAt(s, 1)
  <2>1. 1 \in 1 .. L
    BY <1>1, <1>5
  <2>2. Len(o) = L - 1 /\ \A j \in 1 .. L - 1 : o[j] = s[j + 1]
    BY <1>1, <1>5, <2>1, RemoveAtFacts
  <2>3. \A j \in 1 .. L - 1 : j + 1 \in 1 .. L /\ IsUser(o[j]) /\ n.value[o[j]] = v(j + 1)
    <3> SUFFICES ASSUME NEW j \in 1 .. L - 1
                 PROVE  j + 1 \in 1 .. L /\ IsUser(o[j]) /\ n.value[o[j]] = v(j + 1)
      OBVIOUS
    <3>1. j + 1 \in 1 .. L
      BY <1>1
    <3> HIDE DEF L, o, s
    <3> QED BY <1>2, <2>2, <3>1
  <2>5. n.jiffies = K
    OBVIOUS
  <2> HIDE DEF v, K, J, L
  <2>4. ASSUME NEW h \in 1 .. L - 1 PROVE K + h + Slack <= v(h + 1) + Users
    <3>1. J + (h + 1) + Slack <= v(h + 1) + Users /\ v(h + 1) \in Nat
      BY <1>1, <1>2, <2>3
    <3> QED BY <1>1, <3>1, UsersType
  <2>6. ASSUME NEW g \in 1 .. L - 1, NEW h \in 1 .. L - 1, g <= h
        PROVE  v(g + 1) <= v(h + 1)
    BY <1>1, <1>2, <2>3, <2>6
  <2> QED BY <2>2, <2>3, <2>4, <2>5, <2>6 DEF SleepOK
<1> QED BY <1>4, <1>5

\* fork writes the time of a slot that was free.
LEMMA ForkSleep ==
  ASSUME IInv, Fork
  PROVE  SameSleep(k, k')
<1>1. PICK p \in Pid : Runs(p) /\ IsUser(p)
  BY DEF Fork
<1>2. k.running = p /\ Settled(k) /\ k.container[p] = NoList /\ k' = fork(k)
      /\ k.state[p] = "RUNNING" /\ k \in KernelState /\ KernelOK(k)
  BY <1>1, Caller DEF Runs, Fork, Settled, KernelOK
<1>3. CASE FreeSlots(k) = {}
  BY <1>2, <1>3 DEF fork, Halt, SameSleep, KernelState
<1>4. CASE FreeSlots(k) # {}
  <2> DEFINE c == get_task(k)
             w == k.waitpid[p]
             pr == k.priority[p]
             k1 == set_slot(k, c, "READY", p, w, pr, 0)
  <2>1. c \in Pid /\ k.state[c] = "FREE"
    BY <1>4, GetTask
  <2>2. k' = list_push(k1, "ready", c)
    BY <1>2, <1>4 DEF fork
  <2> HIDE DEF c
  <2>3. k.container[c] = NoList
    BY <1>2, <2>1 DEF Settled, Placed
  <2>4. /\ w \in Pid \cup {AnyChild} /\ pr \in Nat \ {0} /\ "READY" \in TaskState
        /\ "ready" \in Lists /\ "sleep" \in Lists /\ k.container[c] # "sleep"
    BY <1>2, <2>3, Numbers DEF KernelState, TaskState, NoList
  <2> HIDE DEF w, pr
  <2>5. KernelOK(k1) /\ SameSleep(k, k1)
    BY <1>2, <2>1, <2>4, SetSlot, SetSlotSleep
  <2> HIDE DEF k1
  <2>6. SameSleep(k1, k')
    BY <2>1, <2>2, <2>4, <2>5, PushKeepsOrder, ListKeepsTimes DEF SameSleep
  <2> QED BY <2>5, <2>6, SameSleepTrans
<1> QED BY <1>3, <1>4

\* exit moves the caller and a waiting parent, and neither sleeps.
LEMMA ExitSleep ==
  ASSUME IInv, Exit
  PROVE  SameSleep(k, k')
<1>1. PICK p \in Pid : Runs(p) /\ IsUser(p)
  BY DEF Exit
<1> DEFINE k0 == list_push(k, "died", p)
           k1 == [k0 EXCEPT !.state[p] = "DIED"]
           k2 == adopt(k1, p)
           m == wake_parent(k2, p)
           par == k.ppid[p]
<1>2. /\ k.running = p /\ Settled(k) /\ KernelOK(k) /\ k.container[p] = NoList
      /\ k.state[p] = "RUNNING" /\ par \in Pid /\ par # p /\ k.state[par] # "FREE"
      /\ k' = schedule(m) /\ "died" \in Lists /\ "sleep" \in Lists /\ p \in Pid \ {Idle}
  BY <1>1, Caller, OtherParent, Fields, Numbers
  DEF Runs, Settled, IInv, ParentAlive, Exit, sys_exit, IsUser
<1> HIDE DEF k0
<1>3. /\ KernelOK(k0) /\ SameTasks(k, k0) /\ SameSleep(k, k0)
      /\ k0.container = [k.container EXCEPT ![p] = "died"]
  <2>1. /\ KernelOK(k0) /\ SameTasks(k, k0)
        /\ k0.container = [k.container EXCEPT ![p] = "died"]
    BY <1>2, ListPush DEF k0
  <2>2. k0.list["sleep"] = k.list["sleep"]
    BY <1>2, PushKeepsOrder DEF k0
  <2> QED BY <2>1, <2>2 DEF SameTasks, SameSleep
<1> HIDE DEF par
<1>4. /\ KernelOK(k1) /\ SameFields(k0, k1) /\ k1.list = k0.list
      /\ k1.state = [k0.state EXCEPT ![p] = "DIED"]
      /\ k1.container = k0.container /\ k1.running = k0.running
  BY <1>3, SetState, ZenonT(40) DEF TaskState
<1> HIDE DEF k1
<1>5. SameSleep(k0, k1)
  BY <1>4 DEF SameFields, SameSleep
<1>6. /\ KernelOK(k2) /\ k2.state = k1.state /\ k2.container = k1.container
      /\ k2.running = k1.running
      /\ k2.ppid[p] = IF k1.state[p] # "FREE" /\ k1.ppid[p] = p THEN k1.ppid[p] ELSE k1.ppid[p]
  BY <1>4, AdoptFacts
<1>7. SameSleep(k1, k2)
  BY <1>4 DEF adopt, SameSleep, KernelOK, KernelState
<1> HIDE DEF k2
<1>8. /\ k2.ppid[p] = par /\ k2.state[par] = k.state[par]
      /\ k2.container[par] = k.container[par] /\ k2.running = p
  BY <1>2, <1>3, <1>4, <1>6, Fields DEF SameTasks, SameFields, par
<1>9. KernelOK(m) /\ m.running = p /\ SameSleep(k2, m)
  <2>1. CASE m = unblock(k2, par) /\ k2.state[par] = "WAITING"
    <3>1. k2.container[par] \notin {NoList, "sleep"}
      BY <1>2, <1>8, <2>1 DEF Settled, Placed, NoList
    <3>2. KernelOK(unblock(k2, par)) /\ unblock(k2, par).running = k2.running
      BY <1>2, <1>6, <3>1, Unblock
    <3>3. SameSleep(k2, unblock(k2, par))
      BY <1>2, <1>6, <3>1, UnblockSleep
    <3> QED BY <1>8, <2>1, <3>2, <3>3
  <2>2. CASE m = k2
    BY <1>6, <1>8, <2>2 DEF SameSleep
  <2> QED BY <1>2, <1>8, <2>1, <2>2 DEF wake_parent
<1> HIDE DEF m
<1>10. SameSleep(m, k')
  BY <1>2, <1>9, ScheduleSleep
<1> QED BY <1>3, <1>5, <1>7, <1>9, <1>10, SameSleepTrans

\* Reaping frees the slot of a task that has exited.
LEMMA ReapSleep ==
  ASSUME IInv, NEW p \in Pid, NEW c \in Pid, Reaps(p, c)
  PROVE  SameSleep(k, k')
<1> DEFINE k1 == set_slot(k, c, "FREE", 0, 0, 1, 0)
<1>1. /\ KernelOK(k) /\ k.container[c] = "died" /\ k' = freeTask(k, c)
  BY Caller DEF Settled, Reaps, Placed, Reap, KernelOK
<1>2. /\ "FREE" \in TaskState /\ 0 \in Pid /\ 0 \in Pid \cup {AnyChild}
      /\ 1 \in Nat \ {0} /\ 0 \in Nat /\ "sleep" \in Lists
  BY Numbers DEF TaskState, Idle
<1>3. k' = remove_node(k1, c)
  BY <1>1 DEF freeTask
<1>4. KernelOK(k1) /\ k1.container = k.container
  <2>1. KernelOK(k)
    BY <1>1
  <2>2. KernelOK(k1)
    BY <1>2, <2>1, SetSlot
  <2>3. k1.container = k.container
    BY <2>1 DEF set_slot, KernelOK, KernelState
  <2> QED BY <2>2, <2>3
<1>5. SameSleep(k, k1)
  BY <1>1, <1>2, SetSlotSleep
<1> HIDE DEF k1
<1>6. SameSleep(k1, k')
  <2>1. k1.container[c] # NoList /\ k1.container[c] # "sleep"
    BY <1>1, <1>4 DEF NoList
  <2>2. SameTasks(k1, k')
    BY <1>3, <1>4, <2>1, RemoveNode
  <2>3. k'.list["sleep"] = k1.list["sleep"]
    BY <1>2, <1>3, <1>4, <2>1, RemoveKeepsOrder
  <2> QED BY <2>2, <2>3 DEF SameTasks, SameSleep
<1> QED BY <1>5, <1>6, SameSleepTrans

\* waitpid reaps, or puts the caller on block_list.
LEMMA WaitPidSleep ==
  ASSUME IInv, WaitPid, WaitArgs \subseteq Pid
  PROVE  SameSleep(k, k')
<1>1. PICK p \in Pid, c \in Pid :
        /\ Runs(p) /\ IsUser(p) /\ k.state[c] # "FREE" /\ k.ppid[c] = p
        /\ \/ k.state[c] = "DIED" /\ Reap(p, c)
           \/ /\ k.state[c] # "DIED"
              /\ k' = block([k EXCEPT !.waitpid[p] = c], "block", p, "WAITING")
              /\ pc' = [pc EXCEPT ![p] = "waitpid"]
              /\ child' = [child EXCEPT ![p] = c]
  BY WaitPidCases
<1>2. CASE k.state[c] = "DIED"
  BY <1>1, <1>2, ReapSleep DEF Runs, Reaps
<1>3. CASE k.state[c] # "DIED"
  <2> DEFINE k1 == [k EXCEPT !.waitpid[p] = c]
             m == list_push([k1 EXCEPT !.state[p] = "WAITING"], "block", p)
  <2>1. /\ k.running = p /\ KernelOK(k) /\ k.container[p] = NoList /\ "WAITING" \in TaskState
        /\ "block" \in Lists \ {"sleep"}
    BY <1>1, Caller, Numbers DEF Runs, Settled, TaskState
  <2>2. KernelOK(k1) /\ k1.container = k.container /\ k1.running = p
    BY <2>1, SetWaitpid
  <2>3. SameSleep(k, k1)
    BY <2>1 DEF SameSleep, KernelOK, KernelState
  <2>4. k' = block(k1, "block", p, "WAITING")
    BY <1>1, <1>3
  <2> HIDE DEF k1
  <2>5. k' = schedule(m)
    BY <2>1, <2>2, <2>4, BlockIsPush
  <2>8. KernelOK(m) /\ m.running = p
    <3>1. k1.container[p] = NoList /\ "block" \in Lists
      BY <2>1, <2>2
    <3>2. /\ KernelOK(m) /\ SameFields(k1, m) /\ m.running = p /\ m.stop = k1.stop
          /\ m.state = [k1.state EXCEPT ![p] = "WAITING"]
          /\ m.container = [k1.container EXCEPT ![p] = "block"]
      BY <2>1, <2>2, <3>1, PushAs
    <3> QED BY <2>2, <3>2
  <2>6. KernelOK(m) /\ m.running = p /\ SameSleep(k1, m)
    <3>1. k1.container[p] = NoList
      BY <2>1, <2>2
    <3>2. SameSleep(k1, m)
      BY <2>1, <2>2, <3>1, PushSleep
    <3> QED BY <2>8, <3>2
  <2> HIDE DEF m
  <2>7. SameSleep(m, k')
    BY <2>5, <2>6, ScheduleSleep
  <2> QED BY <2>3, <2>6, <2>7, SameSleepTrans
<1> QED BY <1>1, <1>2, <1>3

\* The steps that move no sleeper.
LEMMA QuietSleep ==
  ASSUME IInv, WaitArgs \subseteq Pid,
         \/ ClockFirst \/ Yield \/ EnumWait \/ EnumWake \/ Fork \/ Exit
         \/ WaitPid \/ WaitPidResume \/ Halted
  PROVE  SameSleep(k, k')
<1>1. CASE ClockFirst
  <2>1. KernelOK(k) /\ k.running = NoTask /\ k.list["ready"] # <<>> /\ k' = schedule(k)
    BY <1>1 DEF IInv, TypeOK, Linked, KernelOK, ClockFirst, BootOrder, clock_handler
  <2> QED BY <2>1, ScheduleFirstSleep
<1>2. CASE Yield
  <2>1. Settled(k) /\ k' = schedule(k)
    BY <1>2, IInvSettled DEF Yield, Runs
  <2> QED BY <2>1, ScheduleSleep DEF Settled
<1>3. CASE EnumWait
  <2> DEFINE m == list_push([k EXCEPT !.state[EnumTask] = "WAITING"], "block", EnumTask)
  <2>1. /\ EnumTask = k.running /\ KernelOK(k) /\ k.container[EnumTask] = NoList
        /\ "WAITING" \in TaskState /\ "block" \in Lists \ {"sleep"}
        /\ k' = block(k, "block", EnumTask, "WAITING")
    BY <1>3, IInvSettled, Numbers DEF EnumWait, Runs, Settled, RunningOK, TaskState
  <2>2. k' = schedule(m)
    BY <2>1, Numbers, BlockIsPush
  <2>3. KernelOK(m) /\ m.running = EnumTask /\ SameSleep(k, m)
    <3>1. EnumTask \in Pid /\ "block" \in Lists
      BY Numbers
    <3>2. /\ KernelOK(m) /\ m.running = EnumTask /\ m.stop = k.stop /\ SameFields(k, m)
          /\ m.state = [k.state EXCEPT ![EnumTask] = "WAITING"]
          /\ m.container = [k.container EXCEPT ![EnumTask] = "block"]
      BY <2>1, <3>1, PushAs
    <3>3. SameSleep(k, m)
      BY <2>1, <3>1, PushSleep
    <3> QED BY <2>1, <3>2, <3>3
  <2> HIDE DEF m
  <2> QED BY <2>2, <2>3, Numbers, ScheduleSleep, SameSleepTrans
<1>4. CASE EnumWake
  <2>1. /\ k.state[EnumTask] = "WAITING" /\ k' = unblock(k, EnumTask)
        /\ Settled(k) /\ EnumTask # k.running
    BY <1>4, IInvSettled, Numbers DEF EnumWake, Runs, Settled, RunningOK
  <2>2. k.container[EnumTask] = "block"
    BY <2>1, Numbers DEF Settled, Placed
  <2> QED BY <2>1, <2>2, Numbers, UnblockSleep DEF Settled, NoList
<1>5. CASE WaitPidResume
  <2>1. \E p, c \in Pid : Reaps(p, c)
    BY <1>5, WaitPidResumeKeeps
  <2> QED BY <2>1, ReapSleep
<1>6. CASE Halted
  BY <1>6 DEF Halted, vars, SameSleep
<1> QED BY <1>1, <1>2, <1>3, <1>4, <1>5, <1>6, ForkSleep, ExitSleep, WaitPidSleep

\* sleep() links the running task on sleep_list in the order of the times.
LEMMA SleepSleepOK ==
  ASSUME IInv, SleepOK(k), Sleep
  PROVE  SleepOK(k')
<1>1. PICK p \in Pid, t \in SleepTicks :
        Runs(p) /\ IsUser(p) /\ k' = task_sleep(k, t)
  BY DEF Sleep
<1>2. /\ p = k.running /\ KernelOK(k) /\ t \in Nat /\ k.container[p] = NoList
      /\ k \in KernelState /\ "sleep" \in Lists /\ "SLEEPING" \in TaskState
  BY <1>1, Caller, TaskAssumption, Numbers DEF Runs, Settled, TaskState, KernelOK
<1> DEFINE v == k.jiffies + t
           k1 == [k EXCEPT !.value[p] = v, !.state[p] = "SLEEPING"]
           m == list_insert(k1, "sleep", p)
           s == k.list["sleep"]
<1>3. k' = schedule(m)
  BY <1>1, <1>2 DEF task_sleep
<1>4. v \in Nat
  BY <1>2 DEF KernelState
<1> HIDE DEF v
<1>5. /\ k1.value = [k.value EXCEPT ![p] = v] /\ k1.container = k.container
      /\ k1.list = k.list /\ k1.jiffies = k.jiffies /\ k1.running = k.running
      /\ k1 \in KernelState
  BY <1>2, <1>4 DEF KernelState
<1> HIDE DEF k1
<1>6. KernelOK(k1) /\ k1.container[p] = NoList /\ k1.value[p] = v
  BY <1>2, <1>5 DEF KernelOK, WellLinked, KernelState
<1>7. KernelOK(m) /\ SameTasks(k1, m)
  BY <1>2, <1>6, ListInsert
<1>8. PICK i \in 1 .. Len(s) + 1 :
        /\ m.list["sleep"] = InsertAt(s, i, p)
        /\ \A j \in 1 .. Len(s) : j < i => k1.value[s[j]] <= k1.value[p]
        /\ i <= Len(s) => k1.value[s[i]] > k1.value[p]
  <2>1. k1.list["sleep"] = s /\ p \in Pid
    BY <1>1, <1>5 DEF IsUser
  <2>2. LET s1 == k1.list["sleep"]
        IN \E i \in 1 .. Len(s1) + 1 :
             /\ m.list["sleep"] = InsertAt(s1, i, p)
             /\ \A j \in 1 .. Len(s1) : j < i => k1.value[s1[j]] <= k1.value[p]
             /\ i <= Len(s1) => k1.value[s1[i]] > k1.value[p]
    BY <1>2, <1>6, <2>1, InsertOrder
  <2> HIDE DEF m, s
  <2> QED BY <2>1, <2>2
<1>9. \A j \in 1 .. Len(s) : k1.value[s[j]] = k.value[s[j]]
  <2>1. \A j \in 1 .. Len(s) : s[j] # p
    BY <1>2 DEF KernelOK, WellLinked, NoList
  <2>2. \A j \in 1 .. Len(s) : s[j] \in Pid
    BY <1>2, SleepTypes
  <2>3. k.value \in [Pid -> Nat]
    BY <1>2 DEF KernelState
  <2> QED BY <1>5, <2>1, <2>2, <2>3
<1>10. k.container[p] # "sleep"
  BY <1>2 DEF NoList
<1> HIDE DEF m
<1>11. m.jiffies = k.jiffies /\ m.value = [k.value EXCEPT ![p] = v] /\ m.running = p
  BY <1>2, <1>5, <1>7 DEF SameTasks
<1>12. /\ \A j \in 1 .. Len(s) : j < i => k.value[s[j]] <= k.jiffies + t
       /\ i <= Len(s) => k.value[s[i]] > k.jiffies + t
  <2>1. Len(s) \in Nat
    BY <1>2, SleepTypes
  <2>2. i <= Len(s) => i \in 1 .. Len(s)
    BY <2>1
  <2> QED BY <1>6, <1>8, <1>9, <2>2 DEF v
<1>13. m.value = [k.value EXCEPT ![p] = k.jiffies + t]
  BY <1>11 DEF v
<1>14. SleepOK(m)
  BY <1>1, <1>2, <1>7, <1>8, <1>10, <1>11, <1>12, <1>13, InsertSleepOK
<1> QED BY <1>3, <1>7, <1>11, <1>14, ScheduleSleep, SameSleepKeeps

\* A tick counts and wakes; the switch that may follow moves no sleeper.
LEMMA TickKeepsSleepOK ==
  ASSUME IInv, SleepOK(k), ClockTick
  PROVE  SleepOK(k')
<1> DEFINE j == IF k.jiffies < MaxJiffies THEN k.jiffies + 1 ELSE k.jiffies
           k1 == [k EXCEPT !.jiffies = j]
           k2 == weakup(k1)
           p == k.running
<1>1. p \in Pid /\ KernelOK(k) /\ p # NoTask
  BY IInvSettled, Numbers DEF ClockTick, Runs, Settled
<1>2. j \in Nat /\ j \in {k.jiffies, k.jiffies + 1}
  BY <1>1 DEF KernelOK, KernelState
<1> HIDE DEF j
<1>3. KernelOK(k1) /\ k1.running = p /\ k1.jiffies = j /\ k1.value = k.value
  BY <1>1, <1>2, SetClock
<1>4. k1.list = k.list
  BY <1>1 DEF KernelOK, KernelState
<1>5. k' = IF k.ticks[p] = 1
           THEN schedule([k2 EXCEPT !.ticks[p] = k.priority[p]])
           ELSE [k2 EXCEPT !.ticks[p] = @ - 1]
  BY <1>1 DEF ClockTick, clock_handler, j
<1> HIDE DEF k1
<1>6. KernelOK(k2) /\ k2.running = p /\ k2.ticks = k1.ticks
  BY <1>3, Weakup DEF SameFields
<1>7. SleepOK(k2)
  <2>1. /\ k2.jiffies = j /\ k2.value = k.value
        /\ LET s == k.list["sleep"]
           IN \/ k2.list["sleep"] = s /\ (s # <<>> => k2.jiffies < k.value[s[1]])
              \/ s # <<>> /\ k2.list["sleep"] = RemoveAt(s, 1)
    BY <1>3, <1>4, WeakupOrder
  <2> HIDE DEF k2
  <2> QED BY <1>1, <1>2, <1>6, <2>1, TickSleepOK
<1> HIDE DEF k2
<1>8. ASSUME NEW n
      PROVE  SameSleep(k2, [k2 EXCEPT !.ticks[p] = n])
  BY <1>6 DEF SameSleep, KernelOK, KernelState
<1>9. CASE k.ticks[p] = 1
  <2> DEFINE m == [k2 EXCEPT !.ticks[p] = k.priority[p]]
  <2>1. KernelOK(m) /\ m.running = p
    <3>1. k.priority[p] \in Nat \ {0}
      BY <1>1 DEF KernelOK, KernelState
    <3> QED BY <1>1, <1>6, <3>1, SetTicks
  <2>2. SleepOK(m)
    BY <1>7, <1>8, SameSleepKeeps
  <2>3. k' = schedule(m)
    BY <1>5, <1>9
  <2> HIDE DEF m
  <2> QED BY <1>1, <2>1, <2>2, <2>3, ScheduleSleep, SameSleepKeeps
<1>10. CASE k.ticks[p] # 1
  BY <1>5, <1>7, <1>8, <1>10, SameSleepKeeps
<1> QED BY <1>9, <1>10

\* weakup() wakes one sleeper per tick, and yet no sleeper is later than the other
\* user tasks can make it.
THEOREM NeverTooLate ==
  ASSUME WaitArgs \subseteq Pid
  PROVE  Spec => []LatenessBound
<1>1. ASSUME Init
      PROVE  SleepOK(k)
  <2>1. "sleep" \in Lists
    BY SchedAssumption
  <2>2. k.list["sleep"] = <<>>
    BY <1>1, <2>1 DEF Init
  <2> QED BY <2>2 DEF SleepOK
<1>2. ASSUME IInv, SleepOK(k), [Next]_vars
      PROVE  SleepOK(k')
  <2>1. CASE UNCHANGED vars
    BY <1>2, <2>1 DEF vars
  <2>2. CASE SameSleep(k, k')
    BY <1>2, <2>2, SameSleepKeeps
  <2> QED BY <1>2, <2>1, <2>2, QuietSleep, SleepSleepOK, TickKeepsSleepOK DEF Next
<1>3. SleepOK(k) => LatenessBound
  BY DEF SleepOK, LatenessBound, Users, Slack
<1> DEFINE Sleepers == SleepOK(k)
<1>4. Init => Sleepers
  BY <1>1
<1>5. IInv /\ Sleepers /\ [Next]_vars => Sleepers'
  BY <1>2
<1>6. Sleepers => LatenessBound
  BY <1>3
<1> HIDE DEF Sleepers
<1> QED BY <1>4, <1>5, <1>6, Safety, PTL DEF Spec
=============================================================================
