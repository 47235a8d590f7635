----------------------------- MODULE DiskProofs -----------------------------
(***************************************************************************)
(* Requests on the disk are safe for every number of tasks, every set of   *)
(* sectors and every time limit: one command at a time, no request left    *)
(* behind and no timer thread left over.                                   *)
(***************************************************************************)
EXTENDS Disk, SchedProofs

-----------------------------------------------------------------------------
(* The inductive invariant *)

\* Slots that only timer threads take.
TimerSlot == Pid \ ({Idle} \cup Requester)

Awake == {"READY", "RUNNING"}

\* States between which a task moves without anybody but the scheduler noticing.
Live(p) == IF p \in TimerSlot THEN Awake \cup {"SLEEPING"} ELSE Awake

\* The running task is on no list, and each other task on the list of its state.
OnItsList(m, p) ==
  <<m.state[p], m.container[p]>> \in
    {<<"FREE", NoList>>, <<"READY", "ready">>, <<"SLEEPING", "sleep">>,
     <<"WAITING", "block">>, <<"BLOCKED", "block">>, <<"DIED", "died">>}

Runs(m) == m.state[m.running] = "RUNNING" /\ m.container[m.running] = NoList

Settled(m) ==
  /\ KernelOK(m) /\ m.running \in Pid /\ m.state[Idle] \in Awake /\ Runs(m)
  /\ \A p \in Pid \ {m.running} : OnItsList(m, p)

DataOK ==
  /\ pc \in [Pid -> {"run", "queued", "sent", "failed", "timer", "timeout"}]
  /\ req_direct \in {"FORE", "BACK"} /\ do_request \in BOOLEAN
  /\ sending \in Pid \cup {NoTask} /\ timer \in Pid \cup {NoTask}
  /\ status \in [Pid -> {0, 1}] /\ drive \in {"idle", "busy", "done"} /\ eoi \in BOOLEAN

\* The state of a task fits the place in the code where it is.
Where ==
  /\ pc[Idle] = "run"
  /\ \A p \in Requester :
       \/ pc[p] = "run" /\ k.state[p] \in Awake
       \/ pc[p] = "queued" /\ k.state[p] \in Awake \cup {"BLOCKED"}
       \/ pc[p] = "sent" /\ k.state[p] \in Awake \cup {"WAITING"}
       \/ pc[p] = "failed" /\ k.state[p] = "BLOCKED"
  /\ \A c \in TimerSlot :
       \/ pc[c] = "run" /\ k.state[c] = "FREE"
       \/ pc[c] \in {"timer", "timeout"} /\ k.state[c] \in Live(c) \cup {"DIED"}

\* Nobody is the child of a timer thread.
Family == \A p \in Pid \ TimerSlot : k.ppid[p] = Idle

\* A task that has sent its command sleeps just while its timer thread lives,
\* which is while the port belongs to it; a thread that ends with success has
\* seen the command end.
Sent ==
  \A p \in Requester : pc[p] = "sent" =>
    LET c == k.waitpid[p]
    IN /\ c \in TimerSlot /\ k.state[c] # "FREE" /\ k.ppid[c] = p
       /\ IF k.state[c] = "DIED"
          THEN k.state[p] # "WAITING" /\ sending = NoTask /\ (status[c] = 0 => drive # "busy")
          ELSE k.state[p] = "WAITING" /\ sending = p /\ timer = c

\* Nobody else has a timer thread.
Reaped ==
  \A c \in TimerSlot : k.state[c] # "FREE" =>
    k.ppid[c] \in Requester /\ pc[k.ppid[c]] = "sent" /\ k.waitpid[k.ppid[c]] = c

\* A port that nobody uses can take a command.
PortFree ==
  /\ sending # NoTask => sending \in Requester /\ pc[sending] = "sent"
  /\ ~do_request => drive # "busy"

\* The requests are those of the tasks inside device_request, one each.
Queue(s, P) ==
  /\ s \in Seq(Requester \X Sectors)
  /\ \A i, j \in 1 .. Len(s) : s[i][1] = s[j][1] => i = j
  /\ \A p \in Requester : p \in P <=> \E i \in 1 .. Len(s) : s[i][1] = p

Waiters == {p \in Requester : pc[p] # "run"}

\* The one assertion that can fail is that of a late answer.
StopOK == k.stop = "no" \/ (k.stop = "assert" /\ drive = "done" /\ sending = NoTask)

IInv == /\ Settled(k) /\ DataOK /\ Where /\ Family /\ Sent /\ Reaped /\ PortFree
        /\ Queue(request_list, Waiters) /\ StopOK /\ OneSender /\ NoStall

-----------------------------------------------------------------------------
(* The scheduler *)

\* Slots and lists.
LEMMA Numbers ==
  /\ Requester \subseteq Pid /\ Idle \in Pid /\ Idle \notin Requester /\ NoTask \notin Pid
  /\ NReq + 1 \in TimerSlot /\ TimerSlot \subseteq Pid
  /\ {"ready", "block", "sleep", "died"} \subseteq Lists /\ NoList \notin Lists
BY SchedAssumption, DiskAssumption DEF Pid, Idle, Requester, NoTask, NoList, TimerSlot

\* What the scheduler does to the tasks other than p.
Others(m, n, p) ==
  /\ n.stop = m.stop
  /\ \A q \in Pid \ {p} : \/ n.state[q] = m.state[q]
                          \/ n.state[q] \in Live(q) /\ m.state[q] \in Live(q)

SameFamily(m, n) == n.ppid = m.ppid /\ n.waitpid = m.waitpid

\* schedule() finds a task to run, and everything is in place afterwards.
LEMMA Switch ==
  ASSUME NEW m, KernelOK(m), m.running \in Pid,
         \A p \in Pid \ {m.running} : OnItsList(m, p),
         m.state[Idle] \in Awake,
         \/ Runs(m)
         \/ /\ m.running # Idle
            /\ <<m.state[m.running], m.container[m.running]>> \in
                 {<<"SLEEPING", "sleep">>, <<"WAITING", "block">>, <<"BLOCKED", "block">>,
                  <<"DIED", "died">>}
  PROVE  LET n == schedule(m)
         IN /\ Settled(n) /\ SameFamily(m, n) /\ n.stop = m.stop
            /\ \A p \in Pid : \/ n.state[p] = m.state[p]
                              \/ n.state[p] \in Awake /\ m.state[p] \in Awake
<1> DEFINE n == schedule(m)
           cur == m.running
<1>0. /\ m.container \in [Pid -> Lists \cup {NoList}] /\ m.state \in [Pid -> TaskState]
      /\ Idle \in Pid /\ NoList # "ready"
  BY Numbers DEF KernelOK, KernelState
<1>1. CASE \E q \in Pid : m.container[q] = "ready"
  <2>1. m.container[cur] # "ready"
    BY <1>0 DEF Runs
  <2>2. PICK next \in Pid :
          /\ m.container[next] = "ready"
          /\ KernelOK(n) /\ SameFields(m, n) /\ n.stop = m.stop
          /\ n.running = next
          /\ n.state = IF m.container[cur] = NoList
                       THEN [[m.state EXCEPT ![next] = "RUNNING"] EXCEPT ![cur] = "READY"]
                       ELSE [m.state EXCEPT ![next] = "RUNNING"]
          /\ n.container = IF m.container[cur] = NoList
                           THEN [[m.container EXCEPT ![next] = NoList] EXCEPT ![cur] = "ready"]
                           ELSE [m.container EXCEPT ![next] = NoList]
    BY <1>1, <2>1, Schedule
  <2>3. next # cur /\ n.state[next] = "RUNNING" /\ n.container[next] = NoList
    BY <1>0, <2>1, <2>2
  <2>4. \A p \in Pid \ {next, cur} : n.state[p] = m.state[p] /\ n.container[p] = m.container[p]
    BY <1>0, <2>2
  <2>5. IF m.container[cur] = NoList
        THEN n.state[cur] = "READY" /\ n.container[cur] = "ready"
        ELSE n.state[cur] = m.state[cur] /\ n.container[cur] = m.container[cur]
    BY <1>0, <2>2, <2>3
  <2>6. m.state[next] = "READY"
    BY <2>2, <2>3 DEF OnItsList, NoList
  <2> HIDE DEF n
  <2>7. ASSUME NEW p \in Pid \ {next} PROVE OnItsList(n, p)
    <3>1. CASE p = cur
      BY <3>1, <2>5 DEF Runs, OnItsList
    <3>2. CASE p # cur
      BY <3>2, <2>4 DEF OnItsList
    <3> QED BY <3>1, <3>2
  <2>8. ASSUME NEW p \in Pid
        PROVE  n.state[p] = m.state[p] \/ (n.state[p] \in Awake /\ m.state[p] \in Awake)
    <3>1. CASE p = cur
      BY <3>1, <2>5 DEF Runs, Awake, NoList
    <3>2. CASE p = next
      BY <3>2, <2>3, <2>6 DEF Awake
    <3> QED BY <3>1, <3>2, <2>4
  <2>9. n.state[Idle] \in Awake
    BY <1>0, <2>8
  <2>10. SameFamily(m, n)
    BY <2>2 DEF SameFields, SameFamily
  <2>11. Settled(n)
    BY <2>2, <2>3, <2>7, <2>9 DEF Settled, Runs
  <2> QED BY <2>2, <2>8, <2>10, <2>11 DEF n
<1>2. CASE ~ \E q \in Pid : m.container[q] = "ready"
  <2>1. cur = Idle
    BY <1>0, <1>2 DEF OnItsList, Awake
  <2>2. Runs(m) /\ m.state[cur] = "RUNNING"
    BY <2>1 DEF Runs
  <2>3. n = m
    BY <1>2, <2>2, ScheduleAlone
  <2> QED BY <2>2, <2>3 DEF Settled, SameFamily
<1> QED BY <1>1, <1>2

\* block() of the running task.
LEMMA Blocks ==
  ASSUME NEW m, Settled(m), NEW p \in Requester, m.running = p,
         NEW st \in {"WAITING", "BLOCKED"}
  PROVE  LET n == block(m, "block", p, st)
         IN /\ Settled(n) /\ SameFamily(m, n) /\ Others(m, n, p)
            /\ n.state[p] = st
<1> DEFINE m1 == list_push([m EXCEPT !.state[p] = st], "block", p)
           n == block(m, "block", p, st)
<1>0. /\ KernelOK(m) /\ m.container[p] = NoList /\ st \in TaskState /\ "block" \in Lists
      /\ p \in Pid /\ p # Idle /\ Idle \in Pid
  BY Numbers DEF Settled, Runs, TaskState
<1>1. n = schedule(m1)
  BY <1>0, BlockIsPush
<1>2. /\ KernelOK(m1) /\ m1.running = p /\ m1.stop = m.stop /\ SameFields(m, m1)
      /\ m1.state = [m.state EXCEPT ![p] = st]
      /\ m1.container = [m.container EXCEPT ![p] = "block"]
  BY <1>0, PushAs
<1> HIDE DEF m1, n
<1>3. m.container \in [Pid -> Lists \cup {NoList}] /\ m.state \in [Pid -> TaskState]
  BY <1>0 DEF KernelOK, KernelState
<1>4. /\ m1.state[p] = st /\ m1.container[p] = "block"
      /\ \A q \in Pid \ {p} : m1.state[q] = m.state[q] /\ m1.container[q] = m.container[q]
  BY <1>0, <1>2, <1>3
<1>5. \A q \in Pid \ {p} : OnItsList(m1, q)
  BY <1>4 DEF Settled, OnItsList
<1>6. m1.state[Idle] \in Awake
  BY <1>0, <1>4 DEF Settled
<1>7. /\ Settled(n) /\ SameFamily(m1, n) /\ n.stop = m1.stop
      /\ \A q \in Pid : \/ n.state[q] = m1.state[q]
                        \/ n.state[q] \in Awake /\ m1.state[q] \in Awake
  BY <1>0, <1>1, <1>2, <1>4, <1>5, <1>6, Switch
<1>8. n.state[p] = st
  BY <1>0, <1>4, <1>7 DEF Awake
<1>9. SameFamily(m, n)
  BY <1>2, <1>7 DEF SameFamily, SameFields
<1>10. Others(m, n, p)
  BY <1>2, <1>4, <1>7 DEF Others, Live
<1> QED BY <1>7, <1>8, <1>9, <1>10 DEF n

\* task_sleep() of a timer thread.
LEMMA Sleeps ==
  ASSUME NEW m, Settled(m), m.running \in TimerSlot, NEW t \in Nat
  PROVE  LET n == task_sleep(m, t)
         IN /\ Settled(n) /\ SameFamily(m, n) /\ Others(m, n, NoTask)
<1> DEFINE n == task_sleep(m, t)
           p == m.running
<1>0. /\ KernelOK(m) /\ p \in Pid /\ m.container[p] = NoList /\ m.state[p] = "RUNNING"
      /\ Idle \in Pid /\ p # Idle
  BY Numbers DEF Settled, Runs, TimerSlot
<1>1. PICK m1 : /\ n = schedule(m1)
                /\ KernelOK(m1) /\ m1.running = p /\ m1.stop = m.stop
                /\ m1.ppid = m.ppid /\ m1.waitpid = m.waitpid
                /\ m1.state = [m.state EXCEPT ![p] = "SLEEPING"]
                /\ m1.container = [m.container EXCEPT ![p] = "sleep"]
  BY <1>0, SleepIsInsert
<1> HIDE DEF n
<1>2. m.container \in [Pid -> Lists \cup {NoList}] /\ m.state \in [Pid -> TaskState]
  BY <1>0 DEF KernelOK, KernelState
<1>3. /\ m1.state[p] = "SLEEPING" /\ m1.container[p] = "sleep"
      /\ \A q \in Pid \ {p} : m1.state[q] = m.state[q] /\ m1.container[q] = m.container[q]
  BY <1>0, <1>1, <1>2
<1>4. \A q \in Pid \ {p} : OnItsList(m1, q)
  BY <1>3 DEF Settled, OnItsList
<1>5. m1.state[Idle] \in Awake
  BY <1>0, <1>3 DEF Settled
<1>6. /\ Settled(n) /\ SameFamily(m1, n) /\ n.stop = m1.stop
      /\ \A q \in Pid : \/ n.state[q] = m1.state[q]
                        \/ n.state[q] \in Awake /\ m1.state[q] \in Awake
  BY <1>0, <1>1, <1>3, <1>4, <1>5, Switch
<1>7. Others(m, n, NoTask)
  <2>1. ASSUME NEW q \in Pid
        PROVE  n.state[q] = m.state[q] \/ (n.state[q] \in Live(q) /\ m.state[q] \in Live(q))
    <3>1. CASE q = p
      BY <1>0, <1>3, <1>6, <3>1 DEF Live, Awake
    <3>2. CASE q # p
      BY <1>3, <1>6, <3>2 DEF Live
    <3> QED BY <3>1, <3>2
  <2> QED BY <1>1, <1>6, <2>1, Numbers DEF Others
<1>8. SameFamily(m, n)
  BY <1>1, <1>6 DEF SameFamily
<1> QED BY <1>6, <1>7, <1>8 DEF n

\* The clock moves tasks that could run, and wakes at most a timer thread.
LEMMA Ticks ==
  ASSUME NEW m, Settled(m), \A p \in Pid \ TimerSlot : m.state[p] # "SLEEPING"
  PROVE  LET n == clock_handler(m)
         IN /\ Settled(n) /\ SameFamily(m, n) /\ Others(m, n, NoTask)
<1> DEFINE j == IF m.jiffies < MaxJiffies THEN m.jiffies + 1 ELSE m.jiffies
           m1 == [m EXCEPT !.jiffies = j]
           m2 == weakup(m1)
           p == m.running
<1>1. KernelOK(m) /\ p \in Pid /\ p # NoTask /\ Idle \in Pid
  BY Numbers DEF Settled
<1>2. j \in Nat
  BY <1>1 DEF KernelOK, KernelState
<1>3. clock_handler(m) = IF m.ticks[p] = 1
                         THEN schedule([m2 EXCEPT !.ticks[p] = m.priority[p]])
                         ELSE [m2 EXCEPT !.ticks[p] = @ - 1]
  BY <1>1 DEF clock_handler
<1> HIDE DEF j
<1>4. /\ KernelOK(m1) /\ m1.state = m.state /\ m1.container = m.container
      /\ m1.running = m.running /\ m1.stop = m.stop /\ m1.ticks = m.ticks
      /\ m1.ppid = m.ppid /\ m1.waitpid = m.waitpid
  BY <1>1, <1>2, SetClock
<1> HIDE DEF m1
<1>5. /\ Settled(m2) /\ SameFamily(m, m2) /\ Others(m, m2, NoTask)
      /\ m2.running = p /\ m2.ticks = m.ticks
  <2>1. CASE m2 = m1
    <3>1. Settled(m1)
      BY <1>4 DEF Settled, Runs, OnItsList
    <3> HIDE DEF m2
    <3> QED BY <1>4, <2>1, <3>1 DEF SameFamily, Others
  <2>2. CASE m2 # m1
    <3>1. PICK q \in Pid :
            /\ m1.container[q] = "sleep"
            /\ KernelOK(m2) /\ SameFields(m1, m2)
            /\ m2.running = m1.running /\ m2.stop = m1.stop
            /\ m2.state = [m1.state EXCEPT ![q] = "READY"]
            /\ m2.container = [m1.container EXCEPT ![q] = "ready"]
      BY <1>4, <2>2, Weakup
    <3> HIDE DEF m2
    <3>2. m.container \in [Pid -> Lists \cup {NoList}] /\ m.state \in [Pid -> TaskState]
      BY <1>1 DEF KernelOK, KernelState
    <3>3. q # p
      BY <1>4, <3>1 DEF Settled, Runs, NoList
    <3>4. m.state[q] = "SLEEPING"
      BY <1>4, <3>1, <3>3 DEF Settled, OnItsList, NoList
    <3>5. q \in TimerSlot
      BY <3>4
    <3>6. /\ m2.state[q] = "READY" /\ m2.container[q] = "ready"
          /\ \A o \in Pid \ {q} : m2.state[o] = m.state[o] /\ m2.container[o] = m.container[o]
      BY <1>4, <3>1, <3>2
    <3>7. Settled(m2)
      <4>1. \A o \in Pid \ {p} : OnItsList(m2, o)
        BY <3>6 DEF Settled, OnItsList
      <4>2. Runs(m2) /\ m2.state[Idle] \in Awake
        BY <1>1, <1>4, <3>1, <3>3, <3>6 DEF Settled, Runs, Awake
      <4> QED BY <1>1, <1>4, <3>1, <4>1, <4>2 DEF Settled
    <3>8. Others(m, m2, NoTask)
      BY <1>4, <3>1, <3>4, <3>5, <3>6 DEF Others, Live, Awake
    <3> QED BY <1>4, <3>1, <3>7, <3>8 DEF SameFamily, SameFields
  <2> QED BY <2>1, <2>2
<1> HIDE DEF m2
<1>6. m.ticks[p] \in Nat \ {0} /\ m.priority[p] \in Nat \ {0}
  BY <1>1 DEF KernelOK, KernelState
<1>7. ASSUME NEW t \in Nat \ {0}
      PROVE  LET n == [m2 EXCEPT !.ticks[p] = t]
             IN Settled(n) /\ SameFamily(m, n) /\ Others(m, n, NoTask)
  <2> DEFINE n == [m2 EXCEPT !.ticks[p] = t]
  <2>1. /\ KernelOK(n) /\ n.state = m2.state /\ n.container = m2.container
        /\ n.running = m2.running /\ n.stop = m2.stop /\ n.ppid = m2.ppid
        /\ n.waitpid = m2.waitpid
    BY <1>1, <1>5, SetTicks DEF Settled
  <2> HIDE DEF n
  <2>2. Settled(n)
    BY <1>5, <2>1 DEF Settled, Runs, OnItsList
  <2> QED BY <1>5, <2>1, <2>2 DEF SameFamily, Others, n
<1>8. CASE m.ticks[p] = 1
  <2> DEFINE n == [m2 EXCEPT !.ticks[p] = m.priority[p]]
             o == schedule(n)
  <2>1. Settled(n) /\ SameFamily(m, n) /\ Others(m, n, NoTask)
    BY <1>6, <1>7
  <2>2. clock_handler(m) = o
    BY <1>3, <1>8
  <2> HIDE DEF n
  <2>3. /\ Settled(o) /\ SameFamily(n, o) /\ o.stop = n.stop
        /\ \A q \in Pid : o.state[q] = n.state[q] \/ (o.state[q] \in Awake /\ n.state[q] \in Awake)
    BY <2>1, Switch DEF Settled
  <2> HIDE DEF o
  <2>4. Others(m, o, NoTask)
    BY <2>1, <2>3 DEF Others, Live
  <2> QED BY <2>1, <2>2, <2>3, <2>4 DEF SameFamily
<1>9. CASE m.ticks[p] # 1
  <2> DEFINE t == m2.ticks[p] - 1
             n == [m2 EXCEPT !.ticks[p] = t]
  <2>1. t \in Nat \ {0}
    BY <1>5, <1>6, <1>9
  <2>2. clock_handler(m) = n
    BY <1>3, <1>9
  <2> HIDE DEF t
  <2> QED BY <2>1, <2>2, <1>7
<1> QED BY <1>8, <1>9

\* task_create() of the timer thread c by the sender, which remembers it.
LEMMA Creates ==
  ASSUME NEW m, Settled(m), NEW p \in Requester, m.running = p, m.state[NReq + 1] = "FREE",
         \A q \in Pid \ TimerSlot : m.state[q] # "FREE"
  PROVE  LET c == get_task(m)
             n == [task_create(m, 1) EXCEPT !.waitpid[p] = c]
         IN /\ c \in TimerSlot /\ m.state[c] = "FREE"
            /\ Settled(n) /\ n.running = p /\ n.stop = m.stop
            /\ n.state = [m.state EXCEPT ![c] = "READY"]
            /\ n.ppid = [m.ppid EXCEPT ![c] = p]
            /\ n.waitpid = [[m.waitpid EXCEPT ![c] = 0] EXCEPT ![p] = c]
<1> DEFINE c == get_task(m)
           m1 == set_slot(m, c, "READY", p, 0, 1, 1)
           m2 == task_create(m, 1)
           n == [m2 EXCEPT !.waitpid[p] = c]
<1>0. /\ KernelOK(m) /\ p \in Pid /\ Idle \in Pid /\ p # Idle /\ 0 \in Pid /\ "ready" \in Lists
      /\ "READY" \in TaskState /\ 1 \in Nat \ {0}
  BY Numbers DEF Settled, TaskState, Idle
<1>1. FreeSlots(m) # {}
  BY Numbers DEF FreeSlots
<1>2. c \in Pid /\ m.state[c] = "FREE"
  BY <1>1, GetTask
<1>3. c \in TimerSlot /\ c # p
  BY <1>0, <1>2 DEF Settled, Runs, TimerSlot
<1>4. m.container[c] = NoList
  BY <1>2, <1>3 DEF Settled, OnItsList
<1>5. m2 = list_push(m1, "ready", c)
  BY <1>1 DEF task_create
<1> HIDE DEF c
<1>6. /\ KernelOK(m1)
      /\ m1.state = [m.state EXCEPT ![c] = "READY"]
      /\ m1.ppid = [m.ppid EXCEPT ![c] = p]
      /\ m1.waitpid = [m.waitpid EXCEPT ![c] = 0]
      /\ m1.container = m.container
      /\ m1.running = m.running /\ m1.stop = m.stop
  <2> DEFINE w == 0
             pr == 1
             v == 1
  <2>1. w \in Pid \cup {AnyChild} /\ pr \in Nat \ {0} /\ v \in Nat
    BY <1>0
  <2>2. m1 = set_slot(m, c, "READY", p, w, pr, v)
    OBVIOUS
  <2>3. 0 = w
    OBVIOUS
  <2> HIDE DEF w, pr, v, m1
  <2>4. KernelOK(m1)
    BY <1>0, <1>2, <2>1, <2>2, SetSlot
  <2>5. /\ m1.state = [m.state EXCEPT ![c] = "READY"]
        /\ m1.ppid = [m.ppid EXCEPT ![c] = p]
        /\ m1.waitpid = [m.waitpid EXCEPT ![c] = w]
        /\ m1.container = m.container
        /\ m1.running = m.running /\ m1.stop = m.stop
    BY <1>0, <1>2, <2>1, <2>2 DEF set_slot, KernelState, KernelOK
  <2> QED BY <2>3, <2>4, <2>5
<1> HIDE DEF m1, m2
<1>7. /\ KernelOK(m2) /\ SameTasks(m1, m2)
      /\ m2.container = [m1.container EXCEPT ![c] = "ready"]
  BY <1>0, <1>2, <1>4, <1>5, <1>6, ListPush
<1>8. /\ KernelOK(n)
      /\ n.state = m2.state /\ n.container = m2.container
      /\ n.running = m2.running /\ n.stop = m2.stop /\ n.ppid = m2.ppid
      /\ n.waitpid = [m2.waitpid EXCEPT ![p] = c]
  BY <1>0, <1>2, <1>7, SetWaitpid
<1> HIDE DEF n
<1>9. /\ n.running = p /\ n.stop = m.stop
      /\ n.state = [m.state EXCEPT ![c] = "READY"]
      /\ n.container = [m.container EXCEPT ![c] = "ready"]
      /\ n.ppid = [m.ppid EXCEPT ![c] = p]
      /\ n.waitpid = [[m.waitpid EXCEPT ![c] = 0] EXCEPT ![p] = c]
  BY <1>6, <1>7, <1>8 DEF SameTasks
<1>10. m.container \in [Pid -> Lists \cup {NoList}] /\ m.state \in [Pid -> TaskState]
  BY <1>0 DEF KernelOK, KernelState
<1>11. /\ n.state[c] = "READY" /\ n.container[c] = "ready"
       /\ \A q \in Pid \ {c} : n.state[q] = m.state[q] /\ n.container[q] = m.container[q]
  BY <1>2, <1>9, <1>10
<1>12. \A q \in Pid \ {p} : OnItsList(n, q)
  BY <1>11 DEF Settled, OnItsList
<1>13. Runs(n) /\ n.state[Idle] \in Awake
  BY <1>0, <1>3, <1>9, <1>11 DEF Settled, Runs, Awake
<1>14. Settled(n)
  BY <1>0, <1>8, <1>9, <1>12, <1>13 DEF Settled
<1> QED BY <1>2, <1>3, <1>9, <1>14 DEF n, m2, c

\* freeTask of a thread that has exited.
LEMMA Frees ==
  ASSUME NEW m, Settled(m), NEW c \in TimerSlot, m.state[c] = "DIED"
  PROVE  LET n == freeTask(m, c)
         IN /\ Settled(n) /\ n.running = m.running /\ n.stop = m.stop
            /\ n.state = [m.state EXCEPT ![c] = "FREE"]
            /\ n.ppid = [m.ppid EXCEPT ![c] = 0]
            /\ n.waitpid = [m.waitpid EXCEPT ![c] = 0]
<1> DEFINE n == freeTask(m, c)
<1>0. KernelOK(m) /\ c \in Pid /\ Idle \in Pid /\ c # m.running /\ m.running \in Pid
  BY Numbers DEF Settled, Runs
<1>1. m.container[c] = "died"
  BY <1>0 DEF Settled, OnItsList
<1>2. /\ KernelOK(n) /\ n.running = m.running /\ n.stop = m.stop
      /\ n.state = [m.state EXCEPT ![c] = "FREE"]
      /\ n.container = [m.container EXCEPT ![c] = NoList]
      /\ n.ppid = [m.ppid EXCEPT ![c] = 0]
      /\ n.waitpid = [m.waitpid EXCEPT ![c] = 0]
  BY <1>0, <1>1, FreeTaskFacts DEF NoList
<1> HIDE DEF n
<1>3. m.container \in [Pid -> Lists \cup {NoList}] /\ m.state \in [Pid -> TaskState]
  BY <1>0 DEF KernelOK, KernelState
<1>4. /\ n.state[c] = "FREE" /\ n.container[c] = NoList
      /\ \A q \in Pid \ {c} : n.state[q] = m.state[q] /\ n.container[q] = m.container[q]
  BY <1>0, <1>2, <1>3
<1>5. \A q \in Pid \ {m.running} : OnItsList(n, q)
  BY <1>4 DEF Settled, OnItsList
<1>6. Runs(n) /\ n.state[Idle] \in Awake
  BY <1>0, <1>2, <1>4 DEF Settled, Runs, Awake
<1> QED BY <1>0, <1>2, <1>5, <1>6 DEF Settled, n

\* unblock() of a task that is on a list: it is ready.
LEMMA Wakes ==
  ASSUME NEW m, Settled(m), NEW p \in Pid, p # m.running, m.state[p] # "FREE"
  PROVE  LET n == unblock(m, p)
         IN /\ Settled(n) /\ n.running = m.running /\ n.stop = m.stop /\ SameFamily(m, n)
            /\ n.state = [m.state EXCEPT ![p] = "READY"]
<1> DEFINE n == unblock(m, p)
<1>0. KernelOK(m) /\ Idle \in Pid /\ m.running \in Pid /\ NoList \notin Lists
  BY Numbers DEF Settled
<1>1. m.container[p] # NoList
  BY DEF Settled, OnItsList, NoList
<1>2. /\ KernelOK(n) /\ SameFields(m, n) /\ n.running = m.running /\ n.stop = m.stop
      /\ n.state = [m.state EXCEPT ![p] = "READY"]
      /\ n.container = [m.container EXCEPT ![p] = "ready"]
  BY <1>0, <1>1, Unblock
<1> HIDE DEF n
<1>3. m.container \in [Pid -> Lists \cup {NoList}] /\ m.state \in [Pid -> TaskState]
  BY <1>0 DEF KernelOK, KernelState
<1>4. /\ n.state[p] = "READY" /\ n.container[p] = "ready"
      /\ \A q \in Pid \ {p} : n.state[q] = m.state[q] /\ n.container[q] = m.container[q]
  BY <1>0, <1>2, <1>3
<1>5. \A q \in Pid \ {m.running} : OnItsList(n, q)
  BY <1>4 DEF Settled, OnItsList
<1>6. Runs(n) /\ n.state[Idle] \in Awake
  BY <1>0, <1>2, <1>4 DEF Settled, Runs, Awake
<1> QED BY <1>0, <1>2, <1>5, <1>6 DEF Settled, SameFields, SameFamily, n

\* kernel_thread_exit() of a timer thread, called by itself or by the interrupt
\* handler: its sender is awake afterwards.
LEMMA Exits ==
  ASSUME NEW m, Settled(m), NEW th \in TimerSlot, m.state[th] \in Live(th),
         NEW par \in Requester, m.ppid[th] = par, m.state[par] = "WAITING", m.waitpid[par] = th,
         \A c \in Pid : m.state[c] # "FREE" => m.ppid[c] # th
  PROVE  LET n == kernel_thread_exit(m, th)
         IN /\ Settled(n) /\ SameFamily(m, n) /\ n.stop = m.stop
            /\ n.state[th] = "DIED" /\ n.state[par] \in Awake
            /\ \A q \in Pid \ {th, par} : \/ n.state[q] = m.state[q]
                                          \/ n.state[q] \in Live(q) /\ m.state[q] \in Live(q)
<1> DEFINE k1 == adopt(m, th)
           k2 == IF th # m.running THEN remove_node(k1, th) ELSE k1
           k3 == list_push(k2, "died", th)
           k4 == [k3 EXCEPT !.state[th] = "DIED"]
           k5 == wake_parent(k4, th)
           n == kernel_thread_exit(m, th)
<1>0. /\ KernelOK(m) /\ th \in Pid /\ par \in Pid /\ Idle \in Pid /\ m.running \in Pid
      /\ th # par /\ th # Idle /\ par # Idle /\ "died" \in Lists /\ "DIED" \in TaskState
      /\ NoList \notin Lists /\ "ready" \in Lists
      /\ m.container \in [Pid -> Lists \cup {NoList}] /\ m.state \in [Pid -> TaskState]
      /\ m.ppid \in [Pid -> Pid]
  BY Numbers DEF Settled, TimerSlot, TaskState, KernelOK, KernelState
<1>a. KernelOK(m) /\ th \in Pid
  BY <1>0
<1>1. n = IF th = m.running THEN schedule(k5) ELSE k5
  BY DEF kernel_thread_exit
<1>2. /\ KernelOK(k1) /\ k1.state = m.state /\ k1.container = m.container
      /\ k1.running = m.running /\ k1.stop = m.stop /\ k1.waitpid = m.waitpid
      /\ \A c \in Pid : k1.ppid[c] = IF m.state[c] # "FREE" /\ m.ppid[c] = th
                                    THEN m.ppid[th] ELSE m.ppid[c]
  BY <1>a, AdoptFacts
<1> HIDE DEF n, k1
<1>3. k1.ppid = m.ppid
  <2>1. k1.ppid \in [Pid -> Pid]
    BY <1>2 DEF KernelOK, KernelState
  <2>2. \A c \in Pid : k1.ppid[c] = m.ppid[c]
    BY <1>2
  <2> QED BY <1>0, <2>1, <2>2
<1>4. /\ KernelOK(k2) /\ SameTasks(k1, k2)
      /\ k2.container = [m.container EXCEPT ![th] = NoList]
  <2>1. CASE th = m.running
    <3>1. k2 = k1 /\ m.container[th] = NoList
      BY <2>1 DEF Settled, Runs
    <3> HIDE DEF k2
    <3> QED BY <1>0, <1>2, <3>1 DEF SameTasks
  <2>2. CASE th # m.running
    <3>1. k2 = remove_node(k1, th)
      BY <2>2
    <3>2. k1.container[th] # NoList
      BY <1>0, <1>2, <2>2 DEF Settled, OnItsList, Live, Awake, NoList
    <3> HIDE DEF k2
    <3> QED BY <1>0, <1>2, <3>1, <3>2, RemoveNode
  <2> QED BY <2>1, <2>2
<1> HIDE DEF k2
<1>5. k2.container[th] = NoList
  BY <1>0, <1>4
<1>6. /\ KernelOK(k3) /\ SameTasks(k2, k3)
      /\ k3.container = [k2.container EXCEPT ![th] = "died"]
  BY <1>0, <1>4, <1>5, ListPush
<1> HIDE DEF k3
<1>7. /\ KernelOK(k4) /\ SameFields(k3, k4)
      /\ k4.state = [k3.state EXCEPT ![th] = "DIED"]
      /\ k4.container = k3.container
      /\ k4.running = k3.running /\ k4.stop = k3.stop
  BY <1>0, <1>6, SetState
<1> HIDE DEF k4
<1>8. /\ k4.running = m.running /\ k4.stop = m.stop /\ SameFamily(m, k4)
      /\ k4.state = [m.state EXCEPT ![th] = "DIED"]
  BY <1>2, <1>3, <1>4, <1>6, <1>7 DEF SameTasks, SameFields, SameFamily
<1>9. /\ k4.state[th] = "DIED" /\ k4.container[th] = "died"
      /\ \A q \in Pid \ {th} : k4.state[q] = m.state[q] /\ k4.container[q] = m.container[q]
  BY <1>0, <1>4, <1>6, <1>7, <1>8
<1>10. par # m.running /\ m.container[par] = "block"
  BY <1>0 DEF Settled, Runs, OnItsList
<1>11. k5 = unblock(k4, par)
  <2>1. k4.ppid[th] = par /\ k4.state[par] = "WAITING" /\ k4.waitpid[par] = th
    BY <1>0, <1>8, <1>9 DEF SameFamily
  <2> QED BY <2>1 DEF wake_parent
<1> HIDE DEF k5
<1>12. /\ KernelOK(k5) /\ SameFields(k4, k5)
       /\ k5.running = k4.running /\ k5.stop = k4.stop
       /\ k5.state = [k4.state EXCEPT ![par] = "READY"]
       /\ k5.container = [k4.container EXCEPT ![par] = "ready"]
  <2>1. k4.container[par] # NoList
    BY <1>0, <1>9, <1>10 DEF NoList
  <2>2. par \in Pid /\ KernelOK(k4)
    BY <1>0, <1>7
  <2> QED BY <1>11, <2>1, <2>2, Unblock
<1>13. k4.state \in [Pid -> TaskState] /\ k4.container \in [Pid -> Lists \cup {NoList}]
  BY <1>7 DEF KernelOK, KernelState
<1>14. /\ k5.state[th] = "DIED" /\ k5.container[th] = "died"
       /\ k5.state[par] = "READY" /\ k5.container[par] = "ready"
       /\ \A q \in Pid \ {th, par} : k5.state[q] = m.state[q] /\ k5.container[q] = m.container[q]
  BY <1>0, <1>9, <1>12, <1>13
<1>15. /\ k5.running = m.running /\ k5.stop = m.stop /\ SameFamily(m, k5)
  BY <1>8, <1>12 DEF SameFields, SameFamily
<1>16. \A q \in Pid \ {m.running} : OnItsList(k5, q)
  BY <1>14 DEF Settled, OnItsList
<1>17. k5.state[Idle] \in Awake
  BY <1>0, <1>14 DEF Settled
<1>18. CASE th = m.running
  <2>1. n = schedule(k5)
    BY <1>1, <1>18
  <2>2. /\ Settled(n) /\ SameFamily(k5, n) /\ n.stop = k5.stop
        /\ \A q \in Pid : n.state[q] = k5.state[q] \/ (n.state[q] \in Awake /\ k5.state[q] \in Awake)
    <3>1. /\ KernelOK(k5) /\ k5.running \in Pid /\ k5.running # Idle
          /\ <<k5.state[k5.running], k5.container[k5.running]>> = <<"DIED", "died">>
          /\ \A q \in Pid \ {k5.running} : OnItsList(k5, q)
      BY <1>0, <1>12, <1>14, <1>15, <1>16, <1>18
    <3> QED BY <1>17, <2>1, <3>1, Switch
  <2>3. n.state[th] = "DIED" /\ n.state[par] \in Awake
    BY <1>0, <1>14, <2>2 DEF Awake
  <2>4. \A q \in Pid \ {th, par} : \/ n.state[q] = m.state[q]
                                   \/ n.state[q] \in Live(q) /\ m.state[q] \in Live(q)
    BY <1>14, <2>2 DEF Live
  <2> QED BY <1>15, <2>2, <2>3, <2>4 DEF SameFamily, n
<1>19. CASE th # m.running
  <2>1. n = k5
    BY <1>1, <1>19
  <2>2. Runs(k5)
    BY <1>0, <1>10, <1>14, <1>15, <1>19 DEF Settled, Runs
  <2>3. Settled(k5)
    BY <1>0, <1>12, <1>15, <1>16, <1>17, <2>2 DEF Settled
  <2> QED BY <1>14, <1>15, <2>1, <2>3 DEF Awake, n
<1> QED BY <1>18, <1>19

-----------------------------------------------------------------------------
(* The request list *)

\* A request is inserted somewhere.
LEMMA InsertSomewhere ==
  ASSUME NEW S, NEW s \in Seq(S), NEW r \in S, \A e \in S : e[2] \in Nat
  PROVE  \E i \in 1 .. Len(s) + 1 :
           /\ InsertRequest(s, r) \in Seq(S)
           /\ Len(InsertRequest(s, r)) = Len(s) + 1
           /\ \A j \in 1 .. Len(s) + 1 :
                InsertRequest(s, r)[j] = IF j < i THEN s[j] ELSE IF j = i THEN r ELSE s[j - 1]
<1> DEFINE After == {i \in 1 .. Len(s) : s[i][2] > r[2]}
           Least == CHOOSE i \in After : \A j \in After : i <= j
           t == InsertRequest(s, r)
<1>1. CASE After = {}
  <2>1. t = Append(s, r)
    BY <1>1 DEF InsertRequest
  <2> HIDE DEF t
  <2>2. t \in Seq(S) /\ Len(t) = Len(s) + 1 /\ \A j \in 1 .. Len(s) : t[j] = s[j]
    BY <2>1
  <2>3. t[Len(s) + 1] = r
    BY <2>1
  <2>4. \A j \in 1 .. Len(s) + 1 : t[j] = IF j < Len(s) + 1 THEN s[j] ELSE IF j = Len(s) + 1 THEN r ELSE s[j - 1]
    BY <2>2, <2>3
  <2>5. Len(s) + 1 \in 1 .. Len(s) + 1
    OBVIOUS
  <2> QED BY <2>2, <2>4, <2>5 DEF t
<1>2. CASE After # {}
  <2>1. t = InsertAt(s, Least, r)
    BY <1>2 DEF InsertRequest
  <2>2. After \in SUBSET Nat
    OBVIOUS
  <2>3. \E x \in After : \A y \in After : x <= y
    <3> HIDE DEF After
    <3> QED BY <1>2, <2>2, LeastElement
  <2>4. Least \in After
    <3> HIDE DEF After
    <3> QED BY <2>3
  <2>5. Least \in 1 .. Len(s) + 1
    <3> HIDE DEF Least
    <3> QED BY <2>4
  <2> HIDE DEF Least, t
  <2>6. /\ InsertAt(s, Least, r) \in Seq(S) /\ Len(InsertAt(s, Least, r)) = Len(s) + 1
        /\ \A j \in 1 .. Len(s) + 1 :
             InsertAt(s, Least, r)[j] = IF j < Least THEN s[j]
                                        ELSE IF j = Least THEN r ELSE s[j - 1]
    BY ONLY <2>5, s \in Seq(S), r \in S, InsertAtFacts
  <2>7. /\ t \in Seq(S) /\ Len(t) = Len(s) + 1
        /\ \A j \in 1 .. Len(s) + 1 :
             t[j] = IF j < Least THEN s[j] ELSE IF j = Least THEN r ELSE s[j - 1]
    BY ONLY <2>1, <2>6
  <2> QED BY ONLY <2>5, <2>7 DEF t
<1> QED BY <1>1, <1>2

\* A task enters device_request.
LEMMA InsertQueue ==
  ASSUME NEW s, NEW P, Queue(s, P), NEW p \in Requester, p \notin P, NEW x \in Sectors
  PROVE  Queue(InsertRequest(s, <<p, x>>), P \cup {p})
<1> DEFINE S == Requester \X Sectors
           r == <<p, x>>
           t == InsertRequest(s, r)
<1>1. s \in Seq(S) /\ r \in S /\ r[1] = p
  BY DEF Queue
<1>2. \A e \in S : e[2] \in Nat
  BY DiskAssumption
<1> HIDE DEF S, r
<1>3. PICK i \in 1 .. Len(s) + 1 :
        /\ t \in Seq(S) /\ Len(t) = Len(s) + 1
        /\ \A j \in 1 .. Len(s) + 1 : t[j] = IF j < i THEN s[j] ELSE IF j = i THEN r ELSE s[j - 1]
  BY ONLY <1>1, <1>2, InsertSomewhere
<1> HIDE DEF t
<1>4. Len(s) \in Nat
  BY <1>1
<1> DEFINE at(j) == IF j < i THEN j ELSE j - 1
<1>5. \A j \in 1 .. Len(s) : s[j][1] # p
  BY DEF Queue
<1>6. t[i][1] = p /\ \A j \in 1 .. Len(t) : j # i => at(j) \in 1 .. Len(s) /\ t[j] = s[at(j)]
  BY <1>1, <1>3, <1>4
<1>7. \A a, b \in 1 .. Len(t) : t[a][1] = t[b][1] => a = b
  <2> SUFFICES ASSUME NEW a \in 1 .. Len(t), NEW b \in 1 .. Len(t), t[a][1] = t[b][1]
               PROVE  a = b
    OBVIOUS
  <2>1. CASE a = i \/ b = i
    <3> HIDE DEF at
    <3> QED BY <1>5, <1>6, <2>1
  <2>2. CASE a # i /\ b # i
    <3>1. at(a) = at(b)
      <4> HIDE DEF at
      <4> QED BY <1>6, <2>2, SMTT(30) DEF Queue
    <3> QED BY <1>3, <1>4, <2>2, <3>1
  <2> QED BY <2>1, <2>2
<1>8. ASSUME NEW q \in Requester
      PROVE  q \in P \cup {p} <=> \E j \in 1 .. Len(t) : t[j][1] = q
  <2>1. ASSUME q \in P \cup {p} PROVE \E j \in 1 .. Len(t) : t[j][1] = q
    <3>1. CASE q = p
      BY <1>3, <1>4, <1>6, <3>1
    <3>2. CASE q # p
      <4>1. PICK j \in 1 .. Len(s) : s[j][1] = q
        BY <2>1, <3>2 DEF Queue
      <4>2. CASE j < i
        <5>1. j \in 1 .. Len(t) /\ t[j] = s[j]
          BY <1>3, <1>4, <4>2
        <5> QED BY <4>1, <5>1
      <4>3. CASE ~(j < i)
        <5>1. j + 1 \in 1 .. Len(t) /\ t[j + 1] = s[j]
          BY <1>3, <1>4, <4>3
        <5> QED BY <4>1, <5>1
      <4> QED BY <4>2, <4>3
    <3> QED BY <3>1, <3>2
  <2>2. ASSUME NEW j \in 1 .. Len(t), t[j][1] = q PROVE q \in P \cup {p}
    <3> HIDE DEF at
    <3> QED BY <1>6, <2>2, SMTT(30) DEF Queue
  <2> QED BY <2>1, <2>2
<1> QED BY <1>3, <1>7, <1>8 DEF Queue, S, t, r

\* The list without the request of a task.
LEMMA RemoveQueue ==
  ASSUME NEW s, NEW P, Queue(s, P), NEW p \in Requester, NEW i \in 1 .. Len(s), s[i][1] = p
  PROVE  /\ Queue(RemoveAt(s, i), P \ {p})
         /\ Len(RemoveAt(s, i)) = Len(s) - 1
         /\ \A j \in 1 .. Len(s) : j # i => \E a \in 1 .. Len(s) - 1 : RemoveAt(s, i)[a] = s[j]
<1> DEFINE S == Requester \X Sectors
           t == RemoveAt(s, i)
           at(j) == IF j < i THEN j ELSE j + 1
<1>1. s \in Seq(S) /\ Len(s) \in Nat
  BY DEF Queue
<1>3. i \in 1 .. Len(s) /\ s[i][1] = p
  OBVIOUS
<1>a. i \in Nat /\ 1 <= i /\ i <= Len(s)
  BY <1>1, <1>3
<1> HIDE DEF S
<1>4. /\ t \in Seq(S) /\ Len(t) = Len(s) - 1
      /\ \A j \in 1 .. Len(s) - 1 : t[j] = IF j < i THEN s[j] ELSE s[j + 1]
  BY ONLY <1>1, <1>3, RemoveAtFacts
<1> HIDE DEF t
<1>5. \A j \in 1 .. Len(t) : at(j) \in 1 .. Len(s) /\ at(j) # i /\ t[j] = s[at(j)]
  BY ONLY <1>1, <1>a, <1>4
<1>6. ASSUME NEW j \in 1 .. Len(s), j # i
      PROVE  \E a \in 1 .. Len(s) - 1 : t[a] = s[j]
  <2>1. CASE j < i
    BY <1>1, <1>3, <1>4, <2>1
  <2>2. CASE ~(j < i)
    <3>1. j - 1 \in 1 .. Len(s) - 1 /\ ~(j - 1 < i) /\ (j - 1) + 1 = j
      BY ONLY <1>1, <1>a, <1>6, <2>2, j \in 1 .. Len(s)
    <3>2. t[j - 1] = s[j]
      BY ONLY <1>4, <3>1
    <3> QED BY <3>1, <3>2
  <2> QED BY <2>1, <2>2
<1>7. \A a, b \in 1 .. Len(t) : t[a][1] = t[b][1] => a = b
  <2> SUFFICES ASSUME NEW a \in 1 .. Len(t), NEW b \in 1 .. Len(t), t[a][1] = t[b][1]
               PROVE  a = b
    OBVIOUS
  <2>1. at(a) = at(b)
    <3>1. s[at(a)][1] = s[at(b)][1] /\ at(a) \in 1 .. Len(s) /\ at(b) \in 1 .. Len(s)
      <4> HIDE DEF at
      <4> QED BY <1>5
    <3> HIDE DEF at
    <3> QED BY <3>1 DEF Queue
  <2> QED BY <1>1, <1>a, <1>4, <2>1
<1>8. ASSUME NEW q \in Requester
      PROVE  q \in P \ {p} <=> \E j \in 1 .. Len(t) : t[j][1] = q
  <2>1. ASSUME q \in P, q # p PROVE \E j \in 1 .. Len(t) : t[j][1] = q
    <3>1. PICK j \in 1 .. Len(s) : s[j][1] = q
      BY <2>1 DEF Queue
    <3>2. j # i
      BY <1>3, <2>1, <3>1
    <3> QED BY <1>4, <1>6, <3>1, <3>2
  <2>2. ASSUME NEW j \in 1 .. Len(t), t[j][1] = q PROVE q \in P /\ q # p
    <3> HIDE DEF at
    <3>1. s[at(j)][1] = q /\ at(j) \in 1 .. Len(s) /\ at(j) # i
      BY <1>5, <2>2
    <3> QED BY <1>3, <3>1 DEF Queue
  <2> QED BY <2>1, <2>2
<1> QED BY <1>3, <1>4, <1>6, <1>7, <1>8 DEF Queue, S, t

\* get_next_req: with two requests or more, there is a next one.
LEMMA NextRequest ==
  ASSUME Queue(request_list, Waiters), req_direct \in {"FORE", "BACK"},
         NEW i \in 1 .. Len(request_list)
  PROVE  \/ get_next_req(i) = NoTask /\ Len(request_list) = 1
         \/ \E j \in 1 .. Len(request_list) : j # i /\ get_next_req(i) = request_list[j][1]
<1> DEFINE n == IF Turn(i) = "FORE" THEN i + 1 ELSE i - 1
<1>1. Len(request_list) \in Nat
  BY DEF Queue
<1>2. n # i
  BY <1>1
<1>3. n \in 1 .. Len(request_list) \/ Len(request_list) = 1
  <2>1. CASE req_direct = "FORE"
    <3>1. Turn(i) = IF i = Len(request_list) THEN "BACK" ELSE "FORE"
      BY <2>1 DEF Turn
    <3> QED BY <1>1, <3>1
  <2>2. CASE req_direct = "BACK"
    <3>1. Turn(i) = IF i = 1 THEN "FORE" ELSE "BACK"
      BY <2>2 DEF Turn
    <3>2. n = IF i = 1 THEN 2 ELSE i - 1
      BY <3>1
    <3>3. i \in Nat /\ 1 <= i /\ i <= Len(request_list)
      BY <1>1
    <3> HIDE DEF n
    <3>4. CASE i = 1
      <4> DEFINE L == Len(request_list)
      <4>1. n = 2 /\ L \in Nat /\ 1 <= L
        BY <1>1, <3>2, <3>3, <3>4
      <4> HIDE DEF L
      <4>2. L # 1 => 2 \in 1 .. L
        BY <4>1
      <4> QED BY <4>1, <4>2 DEF L
    <3>5. CASE i # 1
      <4>1. n = i - 1
        BY <3>2, <3>5
      <4> QED BY <1>1, <3>3, <3>5, <4>1
    <3> QED BY <3>4, <3>5
  <2> QED BY <2>1, <2>2
<1>4. n \in 1 .. Len(request_list) => get_next_req(i) = request_list[n][1]
  BY DEF get_next_req
<1>5. n \notin 1 .. Len(request_list) => get_next_req(i) = NoTask
  BY DEF get_next_req
<1> HIDE DEF n
<1> QED BY <1>2, <1>3, <1>4, <1>5

-----------------------------------------------------------------------------
(* The steps of the system *)

\* What a task sees of the scheduler's moves: none of its own states that mean
\* something to others.
LEMMA Classes ==
  ASSUME NEW m, NEW n, NEW p, Others(m, n, p), NEW q \in Pid \ {p}
  PROVE  /\ \A x \in {"FREE", "DIED", "WAITING", "BLOCKED"} : n.state[q] = x <=> m.state[q] = x
         /\ n.state[q] \in Live(q) <=> m.state[q] \in Live(q)
         /\ q \notin TimerSlot => (n.state[q] \in Awake <=> m.state[q] \in Awake)
BY DEF Others, Live, Awake

\* The tasks that have sent a command.
Sender == {p \in Requester : pc[p] \in {"sent", "failed"}}

\* OneSender without its cardinality.
LEMMA OneSenderIs ==
  OneSender <=> /\ \A p, q \in Sender : p = q
                /\ do_request <=> Sender # {}
                /\ sending # NoTask => sending \in Sender
BY DEF OneSender, Sender

\* The owners of the requests.
LEMMA Owner ==
  ASSUME NEW s, NEW P, Queue(s, P), NEW i \in 1 .. Len(s)
  PROVE  s[i][1] \in Requester /\ s[i][1] \in P
<1>1. s[i] \in Requester \X Sectors
  BY DEF Queue
<1>2. s[i][1] \in Requester
  BY <1>1
<1> QED BY <1>2 DEF Queue

\* Steps that only move the timer thread and the tasks that may run.
LEMMA CalmKeeps ==
  ASSUME IInv, Settled(k'), SameFamily(k, k'), Others(k, k', NoTask),
         UNCHANGED <<device, port, status>>,
         pc' \in [Pid -> {"run", "queued", "sent", "failed", "timer", "timeout"}],
         \A p \in Pid : pc'[p] = pc[p] \/ (p \in TimerSlot /\ {pc'[p], pc[p]} \subseteq {"timer", "timeout"})
  PROVE  IInv'
<1>0. /\ Requester \subseteq Pid /\ Idle \in Pid /\ NoTask \notin Pid /\ TimerSlot \subseteq Pid
      /\ Idle \notin TimerSlot /\ \A p \in Requester : p \notin TimerSlot
  BY Numbers DEF TimerSlot
<1>1. \A p \in Pid \ TimerSlot : pc'[p] = pc[p]
  OBVIOUS
<1>2. \A p \in Pid : /\ \A x \in {"FREE", "DIED", "WAITING", "BLOCKED"} : k'.state[p] = x <=> k.state[p] = x
                     /\ k'.state[p] \in Live(p) <=> k.state[p] \in Live(p)
                     /\ p \notin TimerSlot => (k'.state[p] \in Awake <=> k.state[p] \in Awake)
  BY <1>0, Classes
<1>3. k'.stop = k.stop /\ k'.ppid = k.ppid /\ k'.waitpid = k.waitpid
  BY DEF SameFamily, Others
<1>4. \A p \in Requester : pc'[p] = pc[p]
  BY <1>0, <1>1
<1>5. DataOK'
  BY DEF IInv, DataOK, device, port
<1>6. Where'
  <2>1. pc'[Idle] = "run"
    BY <1>0, <1>1 DEF IInv, Where
  <2>2. ASSUME NEW p \in Requester
        PROVE  \/ pc'[p] = "run" /\ k'.state[p] \in Awake
               \/ pc'[p] = "queued" /\ k'.state[p] \in Awake \cup {"BLOCKED"}
               \/ pc'[p] = "sent" /\ k'.state[p] \in Awake \cup {"WAITING"}
               \/ pc'[p] = "failed" /\ k'.state[p] = "BLOCKED"
    BY <1>0, <1>2, <1>4 DEF IInv, Where
  <2>3. ASSUME NEW c \in TimerSlot
        PROVE  \/ pc'[c] = "run" /\ k'.state[c] = "FREE"
               \/ pc'[c] \in {"timer", "timeout"} /\ k'.state[c] \in Live(c) \cup {"DIED"}
    <3>1. c \in Pid
      BY <1>0
    <3> QED BY <1>2, <3>1 DEF IInv, Where
  <2> QED BY <2>1, <2>2, <2>3 DEF Where
<1>7. Family'
  BY <1>3 DEF IInv, Family
<1>8. Sent'
  <2> SUFFICES ASSUME NEW p \in Requester, pc'[p] = "sent"
               PROVE  LET c == k'.waitpid[p]
                      IN /\ c \in TimerSlot /\ k'.state[c] # "FREE" /\ k'.ppid[c] = p
                         /\ IF k'.state[c] = "DIED"
                            THEN k'.state[p] # "WAITING" /\ sending' = NoTask /\ (status'[c] = 0 => drive' # "busy")
                            ELSE k'.state[p] = "WAITING" /\ sending' = p /\ timer' = c
    BY DEF Sent
  <2>1. UNCHANGED <<sending, timer, drive, status>>
    BY DEF port
  <2>2. k.waitpid[p] \in Pid /\ p \in Pid /\ pc[p] = "sent"
    BY <1>0, <1>4 DEF IInv, Sent
  <2> QED BY <1>2, <1>3, <2>1, <2>2 DEF IInv, Sent
<1>9. Reaped'
  <2> SUFFICES ASSUME NEW c \in TimerSlot, k'.state[c] # "FREE"
               PROVE  k'.ppid[c] \in Requester /\ pc'[k'.ppid[c]] = "sent" /\ k'.waitpid[k'.ppid[c]] = c
    BY DEF Reaped
  <2>1. k.state[c] # "FREE"
    BY <1>0, <1>2
  <2> QED BY <1>3, <1>4, <2>1 DEF IInv, Reaped
<1>10. PortFree'
  BY <1>4 DEF IInv, PortFree, device, port
<1>11. Queue(request_list, Waiters)'
  <2>1. Waiters' = Waiters
    BY <1>4 DEF Waiters
  <2> QED BY <2>1 DEF IInv, Queue, device
<1>12. StopOK'
  BY <1>3 DEF IInv, StopOK, port
<1>13. OneSender'
  <2>1. Sender' = Sender
    BY <1>4 DEF Sender
  <2> QED BY <2>1, OneSenderIs DEF IInv, OneSender, Sender, device, port
<1>14. NoStall'
  <2> SUFFICES ASSUME ~do_request, request_list # <<>>
               PROVE  \E i \in 1 .. Len(request_list) : k'.state[request_list[i][1]] \in {"READY", "RUNNING"}
    BY DEF NoStall, device
  <2>1. PICK i \in 1 .. Len(request_list) : k.state[request_list[i][1]] \in {"READY", "RUNNING"}
    BY DEF IInv, NoStall
  <2>2. request_list[i][1] \in Requester
    BY Owner DEF IInv
  <2>3. k'.state[request_list[i][1]] \in Awake
    BY <1>0, <1>2, <2>1, <2>2 DEF Awake
  <2> QED BY <2>3 DEF Awake
<1> QED BY <1>5, <1>6, <1>7, <1>8, <1>9, <1>10, <1>11, <1>12, <1>13, <1>14 DEF IInv

\* The clock interrupt.
LEMMA ClockTickKeeps ==
  ASSUME IInv, ClockTick
  PROVE  IInv'
<1>1. k' = clock_handler(k) /\ UNCHANGED <<pc, device, port, status>>
  BY DEF ClockTick
<1>2. \A p \in Pid \ TimerSlot : k.state[p] # "SLEEPING"
  BY DEF IInv, Where, TimerSlot, Settled, Awake
<1>3. Settled(k') /\ SameFamily(k, k') /\ Others(k, k', NoTask)
  BY <1>1, <1>2, Ticks DEF IInv
<1>4. pc' \in [Pid -> {"run", "queued", "sent", "failed", "timer", "timeout"}] /\ pc' = pc
  BY <1>1 DEF IInv, DataOK
<1> QED BY <1>1, <1>3, <1>4, CalmKeeps

\* Only timer threads are where timer threads are.
LEMMA TimerAt ==
  ASSUME IInv, NEW p \in Pid, pc[p] \in {"timer", "timeout"}
  PROVE  p \in TimerSlot /\ k.state[p] \in Live(p) \cup {"DIED"}
<1>1. p # Idle /\ p \notin Requester
  BY DEF IInv, Where
<1> QED BY <1>1 DEF IInv, Where, TimerSlot

\* The timer thread goes to sleep.
LEMMA TimerSleepKeeps ==
  ASSUME IInv, TimerSleep
  PROVE  IInv'
<1>1. PICK p \in Pid : /\ Executes(p, "timer") /\ k' = task_sleep(k, Timeout)
                       /\ pc' = [pc EXCEPT ![p] = "timeout"]
                       /\ UNCHANGED <<device, port, status>>
  BY DEF TimerSleep
<1>2. k.running = p /\ pc[p] = "timer" /\ p \in TimerSlot
  BY <1>1, TimerAt DEF Executes
<1>3. Settled(k') /\ SameFamily(k, k') /\ Others(k, k', NoTask)
  BY <1>1, <1>2, Sleeps, DiskAssumption DEF IInv
<1>4. /\ pc' \in [Pid -> {"run", "queued", "sent", "failed", "timer", "timeout"}]
      /\ pc'[p] = "timeout" /\ \A q \in Pid \ {p} : pc'[q] = pc[q]
  BY <1>1 DEF IInv, DataOK
<1>5. \A q \in Pid : pc'[q] = pc[q] \/ (q \in TimerSlot /\ {pc'[q], pc[q]} \subseteq {"timer", "timeout"})
  BY <1>2, <1>4
<1> QED BY <1>1, <1>3, <1>4, <1>5, CalmKeeps

\* The drive answers.
LEMMA DriveDoneKeeps ==
  ASSUME IInv, DriveDone
  PROVE  IInv'
<1>1. drive = "busy" /\ drive' = "done" /\ UNCHANGED <<k, pc, device, sending, timer, status, eoi>>
  BY DEF DriveDone
<1>2. UNCHANGED <<k, pc, request_list, req_direct, do_request, sending, timer, status, eoi>>
  BY <1>1 DEF device
<1>3. Settled(k') /\ Where' /\ Family' /\ Reaped' /\ Queue(request_list, Waiters)' /\ OneSender' /\ NoStall'
  BY <1>2 DEF IInv, Settled, Where, Family, Reaped, Queue, Waiters, OneSender, NoStall
<1>4. DataOK' /\ Sent' /\ PortFree'
  BY <1>1, <1>2 DEF IInv, DataOK, Sent, PortFree
<1>5. StopOK'
  BY <1>1, <1>2 DEF IInv, StopOK
<1> QED BY <1>3, <1>4, <1>5 DEF IInv

\* The assertion of hba_handler: only k.stop changes.
LEMMA HaltKeeps ==
  ASSUME IInv, k' = Halt(k, "assert"), drive = "done", sending = NoTask,
         UNCHANGED <<pc, device, port, status>>
  PROVE  IInv'
<1>0. k \in KernelState /\ WellLinked(k)
  BY DEF IInv, Settled, KernelOK
<1>1. k' = [k EXCEPT !.stop = "assert"]
  BY DEF Halt
<1>2. /\ k'.state = k.state /\ k'.container = k.container /\ k'.list = k.list
      /\ k'.running = k.running /\ k'.ppid = k.ppid /\ k'.waitpid = k.waitpid
      /\ k'.stop = "assert" /\ k' \in KernelState
  BY <1>0, <1>1 DEF KernelState, StopReason
<1>3. Settled(k')
  <2>1. WellLinked(k')
    BY <1>0, <1>2, SMTT(30) DEF WellLinked
  <2> QED BY <1>2, <2>1 DEF IInv, Settled, KernelOK, Runs, OnItsList
<1>4. UNCHANGED <<pc, request_list, req_direct, do_request, sending, timer, drive, eoi, status>>
  BY DEF device, port
<1>5. Where' /\ Family' /\ Sent' /\ Reaped'
  BY <1>2, <1>4 DEF IInv, Where, Family, Sent, Reaped
<1>6. DataOK' /\ PortFree' /\ Queue(request_list, Waiters)' /\ OneSender' /\ NoStall'
  BY <1>2, <1>4 DEF IInv, DataOK, PortFree, Queue, Waiters, OneSender, NoStall
<1>7. StopOK'
  BY <1>2, <1>4 DEF StopOK
<1> QED BY <1>3, <1>5, <1>6, <1>7 DEF IInv

\* The timer thread of the sender exits: at the time limit, with status 1, or in
\* the interrupt handler, with status 0 and the command done.
LEMMA ExitKeeps ==
  ASSUME IInv, k.stop = "no", NEW th \in TimerSlot, k.state[th] \in Live(th),
         NEW v \in {0, 1}, k' = kernel_thread_exit(k, th),
         sending' = NoTask, status' = [status EXCEPT ![th] = v],
         UNCHANGED <<pc, device, timer>>,
         drive' = drive \/ drive' = "idle", eoi' \in BOOLEAN, v = 0 => drive' # "busy"
  PROVE  IInv'
<1> DEFINE par == k.ppid[th]
<1>0. /\ Requester \subseteq Pid /\ Idle \in Pid /\ NoTask \notin Pid /\ TimerSlot \subseteq Pid
      /\ Idle \notin TimerSlot /\ \A p \in Requester : p \notin TimerSlot
  BY Numbers DEF TimerSlot
<1>1. par \in Requester /\ pc[par] = "sent" /\ k.waitpid[par] = th
  BY DEF IInv, Reaped, Live, Awake
<1>2. k.state[par] = "WAITING"
  BY <1>1 DEF IInv, Sent, Live, Awake
<1>3. \A c \in Pid : k.state[c] # "FREE" => k.ppid[c] # th
  <2> SUFFICES ASSUME NEW c \in Pid, k.state[c] # "FREE" PROVE k.ppid[c] \notin TimerSlot
    OBVIOUS
  <2>1. CASE c \in TimerSlot
    BY <1>0, <2>1 DEF IInv, Reaped
  <2>2. CASE c \notin TimerSlot
    BY <1>0, <2>2 DEF IInv, Family
  <2> QED BY <2>1, <2>2
<1>a. Settled(k)
  BY DEF IInv
<1> HIDE DEF par
<1>4. /\ Settled(k') /\ SameFamily(k, k') /\ k'.stop = k.stop
      /\ k'.state[th] = "DIED" /\ k'.state[par] \in Awake
      /\ \A q \in Pid \ {th, par} : \/ k'.state[q] = k.state[q]
                                    \/ k'.state[q] \in Live(q) /\ k.state[q] \in Live(q)
  BY <1>1, <1>2, <1>3, <1>a, Exits DEF par
<1>5. \A q \in Pid \ {th, par} :
        /\ \A x \in {"FREE", "DIED", "WAITING", "BLOCKED"} : k'.state[q] = x <=> k.state[q] = x
        /\ k'.state[q] \in Live(q) <=> k.state[q] \in Live(q)
        /\ q \notin TimerSlot => (k'.state[q] \in Awake <=> k.state[q] \in Awake)
  BY <1>4 DEF Live, Awake
<1>6. /\ k'.ppid = k.ppid /\ k'.waitpid = k.waitpid
      /\ UNCHANGED <<pc, request_list, req_direct, do_request, timer>>
  BY <1>4 DEF SameFamily, device
<1>7. par \in Sender /\ \A q \in Sender : q = par
  <2>1. par \in Sender
    BY <1>1 DEF Sender
  <2> QED BY <2>1, OneSenderIs DEF IInv
<1>8. do_request = TRUE
  BY <1>7, OneSenderIs DEF IInv, DataOK
<1>9. \A q \in Requester : pc[q] = "sent" => q = par
  BY <1>7 DEF Sender
<1>10. DataOK'
  <2>1. status' \in [Pid -> {0, 1}]
    BY DEF IInv, DataOK
  <2> QED BY <1>6, <2>1 DEF IInv, DataOK
<1>11. Where'
  <2>1. pc'[Idle] = "run"
    BY <1>6 DEF IInv, Where
  <2>2. ASSUME NEW p \in Requester
        PROVE  \/ pc'[p] = "run" /\ k'.state[p] \in Awake
               \/ pc'[p] = "queued" /\ k'.state[p] \in Awake \cup {"BLOCKED"}
               \/ pc'[p] = "sent" /\ k'.state[p] \in Awake \cup {"WAITING"}
               \/ pc'[p] = "failed" /\ k'.state[p] = "BLOCKED"
    <3>1. CASE p = par
      BY <1>1, <1>4, <1>6, <3>1
    <3>2. CASE p # par
      <4>1. p \in Pid \ {th, par} /\ p \notin TimerSlot
        BY <1>0, <3>2
      <4> QED BY <1>5, <1>6, <4>1 DEF IInv, Where
    <3> QED BY <3>1, <3>2
  <2>3. ASSUME NEW c \in TimerSlot
        PROVE  \/ pc'[c] = "run" /\ k'.state[c] = "FREE"
               \/ pc'[c] \in {"timer", "timeout"} /\ k'.state[c] \in Live(c) \cup {"DIED"}
    <3>1. CASE c = th
      BY <1>4, <1>6, <3>1 DEF IInv, Where, Live, Awake
    <3>2. CASE c # th
      <4>1. c \in Pid \ {th, par}
        BY <1>0, <1>1, <3>2
      <4> QED BY <1>5, <1>6, <4>1 DEF IInv, Where
    <3> QED BY <3>1, <3>2
  <2> QED BY <2>1, <2>2, <2>3 DEF Where
<1>12. Family'
  BY <1>6 DEF IInv, Family
<1>13. Sent'
  <2> SUFFICES ASSUME NEW p \in Requester, pc'[p] = "sent"
               PROVE  LET c == k'.waitpid[p]
                      IN /\ c \in TimerSlot /\ k'.state[c] # "FREE" /\ k'.ppid[c] = p
                         /\ IF k'.state[c] = "DIED"
                            THEN k'.state[p] # "WAITING" /\ sending' = NoTask /\ (status'[c] = 0 => drive' # "busy")
                            ELSE k'.state[p] = "WAITING" /\ sending' = p /\ timer' = c
    BY DEF Sent
  <2>1. p = par /\ k'.waitpid[p] = th /\ k'.ppid[th] = par
    BY <1>1, <1>6, <1>9 DEF par
  <2>2. status'[th] = v
    BY <1>0 DEF IInv, DataOK
  <2>3. status'[th] = 0 => drive' # "busy"
    BY <2>2
  <2> QED BY <1>4, <2>1, <2>3 DEF Awake
<1>14. Reaped'
  <2> SUFFICES ASSUME NEW c \in TimerSlot, k'.state[c] # "FREE"
               PROVE  k'.ppid[c] \in Requester /\ pc'[k'.ppid[c]] = "sent" /\ k'.waitpid[k'.ppid[c]] = c
    BY DEF Reaped
  <2>1. k.state[c] # "FREE"
    BY <1>0, <1>1, <1>5 DEF Live, Awake
  <2> QED BY <1>6, <2>1 DEF IInv, Reaped
<1>15. PortFree' /\ OneSender' /\ NoStall'
  <2>1. Sender' = Sender
    BY <1>6 DEF Sender
  <2>2. OneSender'
    BY <1>6, <2>1, OneSenderIs DEF IInv, OneSender, Sender
  <2> QED BY <1>6, <1>8, <2>2 DEF PortFree, NoStall
<1>16. Queue(request_list, Waiters)'
  <2>1. Waiters' = Waiters
    BY <1>6 DEF Waiters
  <2> QED BY <1>6, <2>1 DEF IInv, Queue
<1>17. StopOK'
  BY <1>4 DEF StopOK
<1> QED BY <1>4, <1>10, <1>11, <1>12, <1>13, <1>14, <1>15, <1>16, <1>17 DEF IInv

\* The timer thread wakes up and gives the command up.
LEMMA TimerExpireKeeps ==
  ASSUME IInv, TimerExpire
  PROVE  IInv'
<1>1. PICK p \in Pid : /\ Executes(p, "timeout") /\ sending' = NoTask
                       /\ status' = [status EXCEPT ![p] = 1] /\ k' = kernel_thread_exit(k, p)
                       /\ UNCHANGED <<pc, device, timer, drive, eoi>>
  BY DEF TimerExpire
<1>2. k.running = p /\ pc[p] = "timeout" /\ k.stop = "no"
  BY <1>1 DEF Executes
<1>3. k.state[p] = "RUNNING"
  BY <1>2 DEF IInv, Settled, Runs
<1>4. p \in TimerSlot /\ k.state[p] \in Live(p)
  BY <1>2, <1>3, TimerAt DEF Live, Awake
<1>5. 1 \in {0, 1} /\ eoi' \in BOOLEAN /\ 1 # 0
  BY <1>1 DEF IInv, DataOK
<1> QED BY <1>1, <1>2, <1>4, <1>5, ExitKeeps

\* The interrupt of the controller.
LEMMA HbaIntKeeps ==
  ASSUME IInv, HbaInt
  PROVE  IInv'
<1>1. PICK p \in Pid :
        /\ Interruptible(p) /\ eoi /\ drive = "done"
        /\ IF sending = NoTask
           THEN k' = Halt(k, "assert") /\ UNCHANGED <<sending, status, drive, eoi>>
           ELSE /\ sending' = NoTask /\ status' = [status EXCEPT ![timer] = 0]
                /\ k' = kernel_thread_exit(k, timer)
                /\ drive' = IF timer = p THEN "done" ELSE "idle"
                /\ eoi' = (timer # p)
        /\ UNCHANGED <<pc, device, timer>>
  BY DEF HbaInt
<1>2. k.stop = "no"
  BY <1>1 DEF Interruptible, Executes
<1>3. CASE sending = NoTask
  <2>1. UNCHANGED port
    BY <1>1, <1>3 DEF port
  <2> QED BY <1>1, <1>3, <2>1, HaltKeeps
<1>4. CASE sending # NoTask
  <2>1. sending \in Requester /\ pc[sending] = "sent"
    BY <1>4 DEF IInv, PortFree
  <2>2. k.waitpid[sending] \in TimerSlot /\ k.state[k.waitpid[sending]] \notin {"FREE", "DIED"}
        /\ timer = k.waitpid[sending]
    BY <1>4, <2>1 DEF IInv, Sent
  <2>3. timer \in TimerSlot /\ k.state[timer] \in Live(timer)
    BY <2>2 DEF IInv, Where
  <2>4. eoi' \in BOOLEAN /\ (drive' = drive \/ drive' = "idle") /\ drive' # "busy"
    BY <1>1, <1>4
  <2>5. 0 \in {0, 1}
    OBVIOUS
  <2> QED BY <1>1, <1>2, <1>4, <2>3, <2>4, <2>5, ExitKeeps
<1> QED BY <1>3, <1>4

\* A task inside device_request waits for its turn.
LEMMA WaitKeeps ==
  ASSUME IInv, NEW p \in Requester, k.running = p, do_request, pc[p] \in {"run", "queued"},
         Queue(request_list', Waiters \cup {p}), Wait(p), UNCHANGED req_direct
  PROVE  IInv'
<1>0. /\ Requester \subseteq Pid /\ Idle \in Pid /\ NoTask \notin Pid /\ TimerSlot \subseteq Pid
      /\ Idle \notin TimerSlot /\ \A q \in Requester : q \notin TimerSlot /\ q # Idle
  BY Numbers DEF TimerSlot
<1>1. /\ k' = block(k, "block", p, "BLOCKED") /\ pc' = [pc EXCEPT ![p] = "queued"]
      /\ UNCHANGED <<do_request, sending, timer, drive, eoi, status>>
  BY DEF Wait, port
<1>2. Settled(k') /\ SameFamily(k, k') /\ Others(k, k', p) /\ k'.state[p] = "BLOCKED"
  BY <1>1, Blocks DEF IInv
<1>3. \A q \in Pid \ {p} :
        /\ \A x \in {"FREE", "DIED", "WAITING", "BLOCKED"} : k'.state[q] = x <=> k.state[q] = x
        /\ k'.state[q] \in Live(q) <=> k.state[q] \in Live(q)
        /\ q \notin TimerSlot => (k'.state[q] \in Awake <=> k.state[q] \in Awake)
  BY <1>2, Classes
<1>4. k'.stop = k.stop /\ k'.ppid = k.ppid /\ k'.waitpid = k.waitpid
  BY <1>2 DEF SameFamily, Others
<1>5. /\ pc' \in [Pid -> {"run", "queued", "sent", "failed", "timer", "timeout"}]
      /\ pc'[p] = "queued" /\ \A q \in Pid \ {p} : pc'[q] = pc[q]
  BY <1>0, <1>1 DEF IInv, DataOK
<1>6. DataOK'
  BY <1>1, <1>5 DEF IInv, DataOK
<1>7. Where'
  <2>1. pc'[Idle] = "run"
    BY <1>0, <1>5 DEF IInv, Where
  <2>2. ASSUME NEW q \in Requester
        PROVE  \/ pc'[q] = "run" /\ k'.state[q] \in Awake
               \/ pc'[q] = "queued" /\ k'.state[q] \in Awake \cup {"BLOCKED"}
               \/ pc'[q] = "sent" /\ k'.state[q] \in Awake \cup {"WAITING"}
               \/ pc'[q] = "failed" /\ k'.state[q] = "BLOCKED"
    <3>1. CASE q = p
      BY <1>2, <1>5, <3>1
    <3>2. CASE q # p
      <4>1. q \in Pid \ {p} /\ q \notin TimerSlot
        BY <1>0, <3>2
      <4> QED BY <1>3, <1>5, <4>1 DEF IInv, Where
    <3> QED BY <3>1, <3>2
  <2>3. ASSUME NEW c \in TimerSlot
        PROVE  \/ pc'[c] = "run" /\ k'.state[c] = "FREE"
               \/ pc'[c] \in {"timer", "timeout"} /\ k'.state[c] \in Live(c) \cup {"DIED"}
    <3>1. c \in Pid \ {p}
      BY <1>0
    <3> QED BY <1>3, <1>5, <3>1 DEF IInv, Where
  <2> QED BY <2>1, <2>2, <2>3 DEF Where
<1>8. Family'
  BY <1>4 DEF IInv, Family
<1>9. \A q \in Requester : pc'[q] \in {"sent", "failed"} <=> pc[q] \in {"sent", "failed"}
  BY <1>0, <1>5
<1>10. Sent'
  <2> SUFFICES ASSUME NEW q \in Requester, pc'[q] = "sent"
               PROVE  LET c == k'.waitpid[q]
                      IN /\ c \in TimerSlot /\ k'.state[c] # "FREE" /\ k'.ppid[c] = q
                         /\ IF k'.state[c] = "DIED"
                            THEN k'.state[q] # "WAITING" /\ sending' = NoTask /\ (status'[c] = 0 => drive' # "busy")
                            ELSE k'.state[q] = "WAITING" /\ sending' = q /\ timer' = c
    BY DEF Sent
  <2>1. q \in Pid \ {p} /\ pc[q] = "sent"
    BY <1>0, <1>5
  <2>2. k.waitpid[q] \in Pid \ {p}
    BY <1>0, <2>1 DEF IInv, Sent
  <2> QED BY <1>1, <1>3, <1>4, <2>1, <2>2 DEF IInv, Sent
<1>11. Reaped'
  <2> SUFFICES ASSUME NEW c \in TimerSlot, k'.state[c] # "FREE"
               PROVE  k'.ppid[c] \in Requester /\ pc'[k'.ppid[c]] = "sent" /\ k'.waitpid[k'.ppid[c]] = c
    BY DEF Reaped
  <2>1. k.state[c] # "FREE"
    BY <1>0, <1>3
  <2>2. k.ppid[c] \in Requester /\ pc[k.ppid[c]] = "sent" /\ k.waitpid[k.ppid[c]] = c
    BY <2>1 DEF IInv, Reaped
  <2> QED BY <1>0, <1>4, <1>5, <2>2
<1>12. PortFree' /\ NoStall'
  <2>1. do_request'
    BY <1>1
  <2>2. sending' # NoTask => sending' \in Requester /\ pc'[sending'] = "sent"
    BY <1>0, <1>1, <1>5 DEF IInv, PortFree
  <2> QED BY <2>1, <2>2 DEF PortFree, NoStall
<1>13. OneSender'
  <2>1. Sender' = Sender
    BY <1>9 DEF Sender
  <2> QED BY <1>1, <2>1, OneSenderIs DEF IInv, OneSender, Sender
<1>14. Queue(request_list, Waiters)'
  <2>1. Waiters' = Waiters \cup {p}
    BY <1>0, <1>5 DEF Waiters
  <2> QED BY <2>1 DEF Queue
<1>15. StopOK'
  BY <1>1, <1>4 DEF IInv, StopOK
<1> QED BY <1>2, <1>6, <1>7, <1>8, <1>10, <1>11, <1>12, <1>13, <1>14, <1>15 DEF IInv

\* With the port unused there is no timer thread, and a slot for one.
LEMMA NoTimers ==
  ASSUME IInv, ~do_request
  PROVE  /\ Sender = {} /\ sending = NoTask /\ drive # "busy"
         /\ \A c \in TimerSlot : k.state[c] = "FREE"
<1>1. Sender = {} /\ sending = NoTask
  BY OneSenderIs DEF IInv
<1>2. \A c \in TimerSlot : k.state[c] = "FREE"
  BY <1>1 DEF IInv, Reaped, Sender
<1> QED BY <1>1, <1>2 DEF IInv, PortFree

\* A task finds the port unused and starts its command.
LEMMA StartKeeps ==
  ASSUME IInv, NEW p \in Requester, k.running = p, k.stop = "no", ~do_request,
         pc[p] \in {"run", "queued"},
         Queue(request_list', Waiters \cup {p}), Start(p), UNCHANGED req_direct
  PROVE  IInv'
<1> DEFINE c == get_task(k)
           m == [task_create(k, 1) EXCEPT !.waitpid[p] = c]
<1>0. /\ Requester \subseteq Pid /\ Idle \in Pid /\ NoTask \notin Pid /\ TimerSlot \subseteq Pid
      /\ Idle \notin TimerSlot /\ \A q \in Requester : q \notin TimerSlot /\ q # Idle
      /\ NReq + 1 \in TimerSlot
  BY Numbers DEF TimerSlot
<1>1. /\ Sender = {} /\ sending = NoTask /\ drive # "busy"
      /\ \A d \in TimerSlot : k.state[d] = "FREE"
  BY NoTimers
<1>2. /\ do_request' = TRUE /\ sending' = p /\ timer' = c /\ drive' = "busy"
      /\ k' = block(m, "block", p, "WAITING")
      /\ pc' = [pc EXCEPT ![p] = "sent", ![c] = "timer"]
      /\ UNCHANGED <<eoi, status>>
  BY <1>1 DEF Start
<1>3. \A q \in Pid \ TimerSlot : k.state[q] # "FREE"
  BY DEF IInv, Where, Settled, TimerSlot, Awake
<1>a. Settled(k) /\ k.state[NReq + 1] = "FREE"
  BY <1>0, <1>1 DEF IInv
<1>4. /\ c \in TimerSlot
      /\ Settled(m) /\ m.running = p /\ m.stop = k.stop
      /\ m.state = [k.state EXCEPT ![c] = "READY"]
      /\ m.ppid = [k.ppid EXCEPT ![c] = p]
      /\ m.waitpid = [[k.waitpid EXCEPT ![c] = 0] EXCEPT ![p] = c]
  BY <1>3, <1>a, Creates, SMTT(30)
<1> HIDE DEF c, m
<1>5. Settled(k') /\ SameFamily(m, k') /\ Others(m, k', p) /\ k'.state[p] = "WAITING"
  BY <1>2, <1>4, Blocks
<1>6. c \in Pid /\ p \in Pid /\ c # p
  BY <1>0, <1>4
<1>7. /\ k.state \in [Pid -> TaskState] /\ k.ppid \in [Pid -> Pid]
      /\ k.waitpid \in [Pid -> Pid \cup {AnyChild}]
  BY DEF IInv, Settled, KernelOK, KernelState
<1>8. /\ k'.stop = "no" /\ k'.ppid[c] = p /\ k'.waitpid[p] = c
      /\ \A q \in Pid \ {c} : k'.ppid[q] = k.ppid[q]
  BY <1>4, <1>5, <1>6, <1>7 DEF SameFamily, Others
<1>9. \A q \in Pid \ {p} :
        /\ \A x \in {"FREE", "DIED", "WAITING", "BLOCKED"} : k'.state[q] = x <=> m.state[q] = x
        /\ k'.state[q] \in Live(q) <=> m.state[q] \in Live(q)
        /\ q \notin TimerSlot => (k'.state[q] \in Awake <=> m.state[q] \in Awake)
  BY <1>5, Classes
<1>10. m.state[c] = "READY" /\ \A q \in Pid \ {c} : m.state[q] = k.state[q]
  BY <1>4, <1>6, <1>7
<1>11. k'.state[c] \in Live(c)
  BY <1>6, <1>9, <1>10 DEF Live, Awake
<1>12. /\ pc' \in [Pid -> {"run", "queued", "sent", "failed", "timer", "timeout"}]
       /\ pc'[p] = "sent" /\ pc'[c] = "timer" /\ \A q \in Pid \ {p, c} : pc'[q] = pc[q]
  <2>1. pc \in [Pid -> {"run", "queued", "sent", "failed", "timer", "timeout"}]
    BY DEF IInv, DataOK
  <2> QED BY <1>2, <1>6, <2>1
<1>13. \A q \in Requester \ {p} : pc'[q] = pc[q] /\ pc[q] \notin {"sent", "failed"} /\ q \in Pid \ {p, c}
  BY <1>0, <1>1, <1>4, <1>12 DEF Sender
<1>14. DataOK'
  BY <1>2, <1>6, <1>12 DEF IInv, DataOK
<1>15. Where'
  <2>1. pc'[Idle] = "run"
    BY <1>0, <1>4, <1>12 DEF IInv, Where
  <2>2. ASSUME NEW q \in Requester
        PROVE  \/ pc'[q] = "run" /\ k'.state[q] \in Awake
               \/ pc'[q] = "queued" /\ k'.state[q] \in Awake \cup {"BLOCKED"}
               \/ pc'[q] = "sent" /\ k'.state[q] \in Awake \cup {"WAITING"}
               \/ pc'[q] = "failed" /\ k'.state[q] = "BLOCKED"
    <3>1. CASE q = p
      BY <1>5, <1>12, <3>1
    <3>2. CASE q # p
      <4>1. /\ q \in Pid \ {p, c} /\ q \notin TimerSlot /\ pc'[q] = pc[q]
            /\ pc[q] \notin {"sent", "failed"}
        BY <1>0, <1>13, <3>2
      <4> QED BY <1>9, <1>10, <4>1 DEF IInv, Where
    <3> QED BY <3>1, <3>2
  <2>3. ASSUME NEW d \in TimerSlot
        PROVE  \/ pc'[d] = "run" /\ k'.state[d] = "FREE"
               \/ pc'[d] \in {"timer", "timeout"} /\ k'.state[d] \in Live(d) \cup {"DIED"}
    <3>1. CASE d = c
      BY <1>11, <1>12, <3>1
    <3>2. CASE d # c
      <4>1. d \in Pid \ {p, c}
        BY <1>0, <3>2
      <4>2. k.state[d] = "FREE" /\ pc[d] = "run"
        BY <1>1 DEF IInv, Where, Live, Awake
      <4> QED BY <1>9, <1>10, <1>12, <4>1, <4>2
    <3> QED BY <3>1, <3>2
  <2> QED BY <2>1, <2>2, <2>3 DEF Where
<1>16. Family'
  BY <1>4, <1>8 DEF IInv, Family
<1>17. Sent'
  <2> SUFFICES ASSUME NEW q \in Requester, pc'[q] = "sent"
               PROVE  LET d == k'.waitpid[q]
                      IN /\ d \in TimerSlot /\ k'.state[d] # "FREE" /\ k'.ppid[d] = q
                         /\ IF k'.state[d] = "DIED"
                            THEN k'.state[q] # "WAITING" /\ sending' = NoTask /\ (status'[d] = 0 => drive' # "busy")
                            ELSE k'.state[q] = "WAITING" /\ sending' = q /\ timer' = d
    BY DEF Sent
  <2>1. q = p
    BY <1>13
  <2>2. k'.state[c] # "FREE" /\ k'.state[c] # "DIED"
    BY <1>11 DEF Live, Awake
  <2> QED BY <1>2, <1>4, <1>5, <1>8, <2>1, <2>2
<1>18. Reaped'
  <2> SUFFICES ASSUME NEW d \in TimerSlot, k'.state[d] # "FREE"
               PROVE  k'.ppid[d] \in Requester /\ pc'[k'.ppid[d]] = "sent" /\ k'.waitpid[k'.ppid[d]] = d
    BY DEF Reaped
  <2>1. d = c
    BY <1>0, <1>1, <1>9, <1>10
  <2> QED BY <1>8, <1>12, <2>1
<1>19. PortFree' /\ NoStall'
  BY <1>2, <1>12 DEF PortFree, NoStall
<1>20. OneSender'
  <2>1. Sender' = {p}
    BY <1>12, <1>13 DEF Sender
  <2> QED BY <1>2, <2>1, OneSenderIs DEF OneSender, Sender
<1>21. Queue(request_list, Waiters)'
  <2>1. Waiters' = Waiters \cup {p}
    BY <1>12, <1>13 DEF Waiters
  <2> QED BY <2>1 DEF Queue
<1>22. StopOK'
  BY <1>8 DEF StopOK
<1> QED BY <1>5, <1>14, <1>15, <1>16, <1>17, <1>18, <1>19, <1>20, <1>21, <1>22 DEF IInv

\* A task calls device_request.
LEMMA RequestKeeps ==
  ASSUME IInv, Request
  PROVE  IInv'
<1>1. PICK p \in Requester, s \in Sectors :
        /\ Executes(p, "run") /\ request_list' = InsertRequest(request_list, <<p, s>>)
        /\ IF do_request THEN Wait(p) ELSE Start(p)
        /\ UNCHANGED req_direct
  BY DEF Request
<1>2. k.stop = "no" /\ k.running = p /\ pc[p] = "run"
  BY <1>1 DEF Executes
<1>3. p \notin Waiters /\ Queue(request_list, Waiters)
  BY <1>2 DEF Waiters, IInv
<1>4. Queue(request_list', Waiters \cup {p})
  BY <1>1, <1>3, InsertQueue
<1> QED BY <1>1, <1>2, <1>4, WaitKeeps, StartKeeps

\* A task whose turn has come goes on in device_request.
LEMMA RequestResumeKeeps ==
  ASSUME IInv, RequestResume
  PROVE  IInv'
<1>1. PICK p \in Requester : /\ Executes(p, "queued")
                             /\ IF do_request THEN Wait(p) ELSE Start(p)
                             /\ UNCHANGED <<request_list, req_direct>>
  BY DEF RequestResume
<1>2. k.stop = "no" /\ k.running = p /\ pc[p] = "queued"
  BY <1>1 DEF Executes
<1>3. Waiters \cup {p} = Waiters
  BY <1>2 DEF Waiters
<1>4. Queue(request_list', Waiters \cup {p})
  BY <1>1, <1>3 DEF IInv
<1> QED BY <1>1, <1>2, <1>4, WaitKeeps, StartKeeps

\* The sender runs again: its timer thread is the only one and has exited.
LEMMA SentAwake ==
  ASSUME IInv, NEW p \in Requester, k.running = p, pc[p] = "sent"
  PROVE  LET c == k.waitpid[p]
         IN /\ c \in TimerSlot /\ k.state[c] = "DIED" /\ sending = NoTask
            /\ status[c] = 0 => drive # "busy"
            /\ \A d \in TimerSlot \ {c} : k.state[d] = "FREE"
            /\ \A q \in Requester \ {p} : pc[q] \in {"run", "queued"}
            /\ do_request
<1>1. k.state[p] = "RUNNING"
  BY DEF IInv, Settled, Runs
<1>2. p \in Sender /\ \A q \in Sender : q = p
  <2>1. p \in Sender
    BY DEF Sender
  <2> QED BY <2>1, OneSenderIs DEF IInv
<1>3. \A q \in Requester \ {p} : pc[q] \in {"run", "queued"}
  BY <1>2 DEF IInv, Where, Sender
<1>4. ASSUME NEW d \in TimerSlot, k.state[d] # "FREE" PROVE d = k.waitpid[p]
  BY <1>2, <1>4 DEF IInv, Reaped, Sender
<1>5. do_request
  BY <1>2, OneSenderIs DEF IInv
<1> QED BY <1>1, <1>3, <1>4, <1>5 DEF IInv, Sent

\* The parts of the invariant that are the same after a success and an error.
LEMMA ResumeKeeps ==
  ASSUME IInv, k.stop = "no", NEW p \in Requester, k.running = p, pc[p] = "sent",
         NEW c, c = k.waitpid[p],
         pc' \in [Pid -> {"run", "queued", "sent", "failed", "timer", "timeout"}],
         pc'[p] \in {"run", "failed"}, pc'[c] = "run", \A q \in Pid \ {p, c} : pc'[q] = pc[q],
         Settled(k'), k'.stop = k.stop, k'.ppid = [k.ppid EXCEPT ![c] = 0],
         k'.state[c] = "FREE",
         pc'[p] = "run" => k'.state[p] \in Awake, pc'[p] = "failed" => k'.state[p] = "BLOCKED",
         \A q \in Pid \ {c, p} :
           \/ k'.state[q] = k.state[q]
           \/ k'.state[q] \in Live(q) /\ k.state[q] \in Live(q)
           \/ q \in Requester /\ pc[q] = "queued" /\ k'.state[q] = "READY",
         do_request' \in BOOLEAN, do_request' <=> pc'[p] = "failed", req_direct' \in {"FORE", "BACK"},
         pc'[p] = "run" => status[c] = 0,
         UNCHANGED <<port, status>>
  PROVE  /\ DataOK' /\ Where' /\ Family' /\ Sent' /\ Reaped' /\ PortFree' /\ StopOK' /\ OneSender'
         /\ \A q \in Requester \ {p} : pc'[q] = pc[q]
<1>0. /\ Requester \subseteq Pid /\ Idle \in Pid /\ NoTask \notin Pid /\ TimerSlot \subseteq Pid
      /\ Idle \notin TimerSlot /\ \A q \in Requester : q \notin TimerSlot /\ q # Idle
      /\ Idle \notin Requester
  BY Numbers DEF TimerSlot
<1>1. /\ c \in TimerSlot /\ sending = NoTask /\ (status[c] = 0 => drive # "busy")
      /\ \A d \in TimerSlot \ {c} : k.state[d] = "FREE"
      /\ \A q \in Requester \ {p} : pc[q] \in {"run", "queued"}
  BY SentAwake
<1>2. c \in Pid /\ p \in Pid /\ c # p
  BY <1>0, <1>1
<1>3. UNCHANGED <<sending, timer, drive, eoi, status>>
  BY DEF port
<1>5. \A q \in Requester \ {p} : q \in Pid \ {p, c} /\ pc'[q] = pc[q]
  BY <1>0, <1>1
<1>6. DataOK'
  <2>1. do_request' \in BOOLEAN
    OBVIOUS
  <2> QED BY <1>3, <2>1 DEF IInv, DataOK
<1>7. Where'
  <2>1. pc'[Idle] = "run"
    BY <1>0, <1>1 DEF IInv, Where
  <2>2. ASSUME NEW q \in Requester
        PROVE  \/ pc'[q] = "run" /\ k'.state[q] \in Awake
               \/ pc'[q] = "queued" /\ k'.state[q] \in Awake \cup {"BLOCKED"}
               \/ pc'[q] = "sent" /\ k'.state[q] \in Awake \cup {"WAITING"}
               \/ pc'[q] = "failed" /\ k'.state[q] = "BLOCKED"
    <3>1. CASE q = p
      BY <3>1
    <3>2. CASE q # p
      <4>1. /\ q \in Pid \ {p, c} /\ q \notin TimerSlot /\ pc'[q] = pc[q]
            /\ pc[q] \in {"run", "queued"}
        BY <1>0, <1>1, <1>5, <3>2
      <4>2. \/ pc[q] = "run" /\ k.state[q] \in Awake
            \/ pc[q] = "queued" /\ k.state[q] \in Awake \cup {"BLOCKED"}
        BY <4>1 DEF IInv, Where
      <4> QED BY <4>1, <4>2 DEF Live, Awake
    <3> QED BY <3>1, <3>2
  <2>3. ASSUME NEW d \in TimerSlot
        PROVE  \/ pc'[d] = "run" /\ k'.state[d] = "FREE"
               \/ pc'[d] \in {"timer", "timeout"} /\ k'.state[d] \in Live(d) \cup {"DIED"}
    <3>1. CASE d = c
      BY <3>1
    <3>2. CASE d # c
      <4>1. d \in Pid \ {p, c} /\ d \notin Requester
        BY <1>0, <3>2
      <4>2. k.state[d] = "FREE" /\ pc[d] = "run"
        BY <1>1, <3>2 DEF IInv, Where, Live, Awake
      <4> QED BY <4>1, <4>2 DEF Live, Awake
    <3> QED BY <3>1, <3>2
  <2> QED BY <2>1, <2>2, <2>3 DEF Where
<1>8. Family'
  <2>1. k.ppid \in [Pid -> Pid]
    BY DEF IInv, Settled, KernelOK, KernelState
  <2> QED BY <1>1, <2>1 DEF IInv, Family
<1>9. Sent'
  BY <1>1, <1>5 DEF Sent
<1>10. Reaped'
  <2> SUFFICES ASSUME NEW d \in TimerSlot PROVE k'.state[d] = "FREE"
    BY DEF Reaped
  <2>1. CASE d = c
    BY <2>1
  <2>2. CASE d # c
    <3>1. d \in Pid \ {p, c} /\ d \notin Requester /\ k.state[d] = "FREE"
      BY <1>0, <1>1, <2>2
    <3> QED BY <3>1 DEF Live, Awake
  <2> QED BY <2>1, <2>2
<1>11. PortFree'
  BY <1>1, <1>3 DEF PortFree
<1>12. StopOK'
  BY DEF StopOK
<1>13. OneSender'
  <2>1. Sender' = IF pc'[p] = "run" THEN {} ELSE {p}
    BY <1>1, <1>5 DEF Sender
  <2>2. \A q, r \in Sender' : q = r
    BY <2>1
  <2>3. do_request' <=> Sender' # {}
    BY <2>1
  <2>4. sending' = NoTask
    BY <1>1, <1>3
  <2> QED BY <2>2, <2>3, <2>4 DEF OneSender, Sender
<1> QED BY <1>5, <1>6, <1>7, <1>8, <1>9, <1>10, <1>11, <1>12, <1>13

\* An error: the task blocks for good and keeps the device.
LEMMA FailKeeps ==
  ASSUME IInv, NEW p \in Requester, Executes(p, "sent"), NEW c, c = k.waitpid[p],
         k' = block(freeTask(k, c), "block", p, "BLOCKED"),
         pc' = [pc EXCEPT ![p] = "failed", ![c] = "run"],
         UNCHANGED device, UNCHANGED <<port, status>>
  PROVE  IInv'
<1> DEFINE m == freeTask(k, c)
<1>1. k.stop = "no" /\ k.running = p /\ pc[p] = "sent"
  BY DEF Executes
<1>2. c \in TimerSlot /\ k.state[c] = "DIED" /\ do_request
  BY <1>1, SentAwake
<1>3. /\ Settled(m) /\ m.running = k.running /\ m.stop = k.stop
      /\ m.state = [k.state EXCEPT ![c] = "FREE"]
      /\ m.ppid = [k.ppid EXCEPT ![c] = 0]
      /\ m.waitpid = [k.waitpid EXCEPT ![c] = 0]
  BY <1>2, Frees DEF IInv
<1> HIDE DEF m
<1>4. /\ Settled(k') /\ SameFamily(m, k') /\ Others(m, k', p) /\ k'.state[p] = "BLOCKED"
  BY <1>1, <1>3, Blocks DEF m
<1>5. c \in Pid /\ p \in Pid /\ c # p /\ k.state \in [Pid -> TaskState]
  BY <1>2, Numbers DEF TimerSlot, IInv, Settled, KernelOK, KernelState
<1>6. k'.state[c] = "FREE"
  <2>1. m.state[c] = "FREE"
    BY <1>3, <1>5
  <2> QED BY <1>4, <1>5, <2>1 DEF Others, Live, Awake
<1>7. \A q \in Pid \ {c, p} : \/ k'.state[q] = k.state[q]
                              \/ k'.state[q] \in Live(q) /\ k.state[q] \in Live(q)
  BY <1>3, <1>4, <1>5 DEF Others
<1>8. k'.stop = k.stop /\ k'.ppid = [k.ppid EXCEPT ![c] = 0]
  BY <1>3, <1>4 DEF Others, SameFamily
<1>9. do_request' = TRUE /\ req_direct' \in {"FORE", "BACK"} /\ UNCHANGED request_list
  BY <1>2 DEF device, IInv, DataOK
<1>a. /\ pc' \in [Pid -> {"run", "queued", "sent", "failed", "timer", "timeout"}]
      /\ pc'[p] = "failed" /\ pc'[c] = "run" /\ \A q \in Pid \ {p, c} : pc'[q] = pc[q]
  <2>1. pc \in [Pid -> {"run", "queued", "sent", "failed", "timer", "timeout"}]
    BY DEF IInv, DataOK
  <2> QED BY <1>5, <2>1
<1>10. /\ DataOK' /\ Where' /\ Family' /\ Sent' /\ Reaped' /\ PortFree' /\ StopOK' /\ OneSender'
       /\ \A q \in Requester \ {p} : pc'[q] = pc[q]
  <2>1. \A q \in Pid \ {c, p} :
          \/ k'.state[q] = k.state[q]
          \/ k'.state[q] \in Live(q) /\ k.state[q] \in Live(q)
          \/ q \in Requester /\ pc[q] = "queued" /\ k'.state[q] = "READY"
    BY <1>7
  <2>2. Settled(k') /\ k'.state[p] = "BLOCKED" /\ do_request' \in BOOLEAN /\ do_request'
        /\ req_direct' \in {"FORE", "BACK"}
    BY <1>4, <1>9
  <2> QED BY ONLY IInv, p \in Requester, c = k.waitpid[p], UNCHANGED <<port, status>>,
                  <1>1, <1>6, <1>8, <1>a, <2>1, <2>2, ResumeKeeps
<1>11. Queue(request_list, Waiters)'
  <2>1. Waiters' = Waiters
    <3>1. \A q \in Requester : pc'[q] # "run" <=> pc[q] # "run"
      BY <1>1, <1>10, <1>a, ZenonT(40)
    <3> QED BY <3>1 DEF Waiters
  <2> QED BY <1>9, <2>1 DEF IInv, Queue
<1>12. NoStall'
  BY <1>9 DEF NoStall
<1> QED BY <1>4, <1>10, <1>11, <1>12 DEF IInv

\* Success: the request leaves the list, and its neighbour is made ready.
LEMMA DoneKeeps ==
  ASSUME IInv, NEW p \in Requester, Executes(p, "sent"), NEW c, c = k.waitpid[p],
         NEW i, i = RequestOf(p), status[c] = 0,
         k' = IF get_next_req(i) = NoTask THEN freeTask(k, c)
              ELSE unblock(freeTask(k, c), get_next_req(i)),
         do_request' = FALSE, req_direct' = Turn(i),
         request_list' = RemoveAt(request_list, i),
         pc' = [pc EXCEPT ![p] = "run", ![c] = "run"],
         UNCHANGED <<port, status>>
  PROVE  IInv'
<1> DEFINE m == freeTask(k, c)
           next == get_next_req(i)
           L == Len(request_list)
<1>0. Requester \subseteq Pid /\ NoTask \notin Pid
  BY Numbers
<1>1. k.stop = "no" /\ k.running = p /\ pc[p] = "sent"
  BY DEF Executes
<1>2. /\ c \in TimerSlot /\ k.state[c] = "DIED" /\ do_request
      /\ \A q \in Requester \ {p} : pc[q] \in {"run", "queued"}
  BY <1>1, SentAwake
<1>3. /\ Settled(m) /\ m.running = p /\ m.stop = k.stop
      /\ m.state = [k.state EXCEPT ![c] = "FREE"]
      /\ m.ppid = [k.ppid EXCEPT ![c] = 0]
  <2>1. Settled(k) /\ c \in TimerSlot /\ k.state[c] = "DIED"
    BY <1>2 DEF IInv
  <2>2. /\ Settled(m) /\ m.running = k.running /\ m.stop = k.stop
        /\ m.state = [k.state EXCEPT ![c] = "FREE"]
        /\ m.ppid = [k.ppid EXCEPT ![c] = 0]
        /\ m.waitpid = [k.waitpid EXCEPT ![c] = 0]
    BY ONLY <2>1, Frees
  <2> HIDE DEF m
  <2> QED BY <1>1, <2>2
<1>4. c \in Pid /\ p \in Pid /\ c # p /\ k.state \in [Pid -> TaskState] /\ c \notin Requester
  BY <1>2, Numbers DEF TimerSlot, IInv, Settled, KernelOK, KernelState
<1>5. p \in Waiters /\ Queue(request_list, Waiters)
  BY <1>1 DEF Waiters, IInv
<1>6. /\ i \in 1 .. L /\ request_list[i][1] = p /\ Queue(request_list', Waiters \ {p})
      /\ Len(request_list') = L - 1 /\ L \in Nat
      /\ \A j \in 1 .. L : j # i => \E a \in 1 .. L - 1 : request_list'[a] = request_list[j]
  <2>1. i = CHOOSE j \in 1 .. Len(request_list) : request_list[j][1] = p
    BY DEF RequestOf
  <2>2. L \in Nat
    BY <1>5 DEF Queue
  <2> DEFINE t == RemoveAt(request_list, i)
  <2>3. i \in 1 .. L /\ request_list[i][1] = p
    <3>1. \E j \in 1 .. Len(request_list) : request_list[j][1] = p
      BY <1>5 DEF Queue
    <3> QED BY ONLY <2>1, <3>1
  <2>4. /\ Queue(t, Waiters \ {p}) /\ Len(t) = L - 1
        /\ \A j \in 1 .. L : j # i => \E a \in 1 .. L - 1 : t[a] = request_list[j]
    BY ONLY <1>5, <2>3, p \in Requester, RemoveQueue
  <2>5. request_list' = t
    OBVIOUS
  <2> HIDE DEF t
  <2> QED BY ONLY <2>2, <2>3, <2>4, <2>5
<1>7. req_direct \in {"FORE", "BACK"} /\ req_direct' \in {"FORE", "BACK"}
  BY DEF Turn, IInv, DataOK
<1>8. \/ next = NoTask /\ L = 1
      \/ \E j \in 1 .. L : j # i /\ next = request_list[j][1]
  BY <1>5, <1>6, <1>7, NextRequest
<1> HIDE DEF m, next
<1>9. ASSUME NEW j \in 1 .. L, j # i, next = request_list[j][1]
      PROVE  next \in Requester /\ next # p /\ pc[next] = "queued"
  <2>1. next \in Requester /\ next \in Waiters
    BY <1>5, <1>9, Owner
  <2>2. next # p
    BY <1>5, <1>6, <1>9 DEF Queue
  <2> QED BY <1>2, <2>1, <2>2 DEF Waiters
<1>10. /\ Settled(k') /\ k'.stop = k.stop /\ k'.ppid = [k.ppid EXCEPT ![c] = 0]
       /\ k'.state = IF next = NoTask THEN m.state ELSE [m.state EXCEPT ![next] = "READY"]
  <2>1. CASE next = NoTask
    BY <1>3, <2>1 DEF m, next
  <2>2. CASE next # NoTask
    <3>1. next \in Requester /\ next # p /\ pc[next] = "queued"
      BY <1>8, <1>9, <2>2
    <3>2. next \in Pid /\ next # c /\ k.state[next] # "FREE"
      BY <1>0, <1>4, <3>1 DEF IInv, Where, Awake
    <3>3. m.state[next] # "FREE"
      BY <1>3, <1>4, <3>2
    <3>4. k' = unblock(m, next)
      BY <2>2 DEF m, next
    <3>5. /\ Settled(k') /\ k'.stop = m.stop /\ SameFamily(m, k')
          /\ k'.state = [m.state EXCEPT ![next] = "READY"]
      BY ONLY <1>3, <3>1, <3>2, <3>3, <3>4, Wakes
    <3> QED BY <1>3, <2>2, <3>5 DEF SameFamily
  <2> QED BY <2>1, <2>2
<1>11. next = NoTask \/ (next \in Requester /\ next # p /\ pc[next] = "queued")
  BY <1>8, <1>9
<1>12. k'.state[c] = "FREE" /\ k'.state[p] \in Awake
  <2>1. m.state \in [Pid -> TaskState] /\ m.state[c] = "FREE" /\ m.state[p] = "RUNNING"
    BY <1>3, <1>4 DEF Settled, Runs, KernelOK, KernelState
  <2> QED BY <1>0, <1>4, <1>10, <1>11, <2>1 DEF Awake
<1>13. \A q \in Pid \ {c, p} :
         \/ k'.state[q] = k.state[q]
         \/ q \in Requester /\ pc[q] = "queued" /\ k'.state[q] = "READY"
  <2>1. m.state \in [Pid -> TaskState] /\ \A q \in Pid \ {c} : m.state[q] = k.state[q]
    BY <1>3, <1>4 DEF Settled, KernelOK, KernelState
  <2> QED BY <1>0, <1>10, <1>11, <2>1
<1>a. /\ pc' \in [Pid -> {"run", "queued", "sent", "failed", "timer", "timeout"}]
      /\ pc'[p] = "run" /\ pc'[c] = "run" /\ \A q \in Pid \ {p, c} : pc'[q] = pc[q]
  <2>1. pc \in [Pid -> {"run", "queued", "sent", "failed", "timer", "timeout"}]
    BY DEF IInv, DataOK
  <2> QED BY <1>4, <2>1
<1>14. /\ DataOK' /\ Where' /\ Family' /\ Sent' /\ Reaped' /\ PortFree' /\ StopOK' /\ OneSender'
       /\ \A q \in Requester \ {p} : pc'[q] = pc[q]
  <2>1. Settled(k') /\ k'.stop = k.stop /\ k'.ppid = [k.ppid EXCEPT ![c] = 0]
    BY <1>10
  <2>2. \A q \in Pid \ {c, p} :
          \/ k'.state[q] = k.state[q]
          \/ k'.state[q] \in Live(q) /\ k.state[q] \in Live(q)
          \/ q \in Requester /\ pc[q] = "queued" /\ k'.state[q] = "READY"
    BY <1>13
  <2>3. req_direct' \in {"FORE", "BACK"} /\ do_request' \in BOOLEAN /\ ~do_request'
    BY <1>7
  <2> QED BY ONLY IInv, p \in Requester, c = k.waitpid[p], UNCHANGED <<port, status>>, status[c] = 0,
                  <1>1, <1>12, <1>a, <2>1, <2>2, <2>3, ResumeKeeps
<1>15. Queue(request_list, Waiters)'
  <2>1. Waiters' = Waiters \ {p}
    BY <1>14, <1>a DEF Waiters
  <2> QED BY <1>6, <2>1 DEF Queue
<1>16. NoStall'
  <2>1. CASE L = 1
    <3>1. request_list' = <<>>
      BY <1>6, <2>1 DEF Queue
    <3> QED BY <3>1 DEF NoStall
  <2>2. CASE L # 1
    <3>1. PICK j \in 1 .. L : j # i /\ next = request_list[j][1]
      BY <1>8, <2>2
    <3>2. PICK a \in 1 .. L - 1 : request_list'[a] = request_list[j]
      BY <1>6, <3>1
    <3>a. next \in Requester
      BY <1>9, <3>1
    <3>b. m.state \in [Pid -> TaskState]
      BY <1>3 DEF Settled, KernelOK, KernelState
    <3>3. next \in Pid /\ next # NoTask /\ m.state \in [Pid -> TaskState]
      BY <1>0, <3>a, <3>b
    <3>4. k'.state[next] = "READY"
      BY <1>10, <3>3
    <3>5. a \in 1 .. Len(request_list') /\ k'.state[request_list'[a][1]] \in {"READY", "RUNNING"}
      BY <1>6, <3>1, <3>2, <3>4
    <3> QED BY <3>5 DEF NoStall
  <2> QED BY <2>1, <2>2
<1> QED BY <1>10, <1>14, <1>15, <1>16 DEF IInv

\* The sender returns from waitpid.
LEMMA SentResumeKeeps ==
  ASSUME IInv, SentResume
  PROVE  IInv'
<1>1. PICK p \in Requester :
        /\ Executes(p, "sent")
        /\ LET c == k.waitpid[p]
               m == freeTask(k, c)
               i == RequestOf(p)
               next == get_next_req(i)
           IN IF status[c] = 0
              THEN /\ k' = IF next = NoTask THEN m ELSE unblock(m, next)
                   /\ do_request' = FALSE
                   /\ req_direct' = Turn(i)
                   /\ request_list' = RemoveAt(request_list, i)
                   /\ pc' = [pc EXCEPT ![p] = "run", ![c] = "run"]
              ELSE /\ k' = block(m, "block", p, "BLOCKED")
                   /\ pc' = [pc EXCEPT ![p] = "failed", ![c] = "run"]
                   /\ UNCHANGED device
        /\ UNCHANGED <<port, status>>
  BY DEF SentResume
<1>2. CASE status[k.waitpid[p]] = 0
  BY <1>1, <1>2, DoneKeeps
<1>3. CASE status[k.waitpid[p]] # 0
  BY <1>1, <1>3, FailKeeps
<1> QED BY <1>2, <1>3

-----------------------------------------------------------------------------
(* Theorems *)

\* The idle disk.
LEMMA InitHolds == Init => IInv
<1> SUFFICES ASSUME Init PROVE IInv
  OBVIOUS
<1> DEFINE ready == [i \in Requester |-> i]
           States == [p \in Pid |-> IF p = Idle THEN "RUNNING"
                                    ELSE IF p \in Requester THEN "READY" ELSE "FREE"]
           Links == [p \in Pid |-> IF p \in Requester THEN "ready" ELSE NoList]
           Contents == [l \in Lists |-> IF l = "ready" THEN ready ELSE <<>>]
<1>0. /\ Requester \subseteq Pid /\ Idle \in Pid /\ Idle = 0 /\ Idle \notin Requester /\ NoTask \notin Pid
      /\ TimerSlot \subseteq Pid /\ "ready" \in Lists /\ NoList \notin Lists
  BY Numbers DEF Idle
<1>1. NReq \in Nat /\ Requester = 1 .. NReq
  BY DiskAssumption DEF Requester
<1>2. ready \in Seq(Pid) /\ Len(ready) = NReq /\ \A i \in 1 .. NReq : ready[i] = i /\ i \in Requester
  <2>1. \A i \in 1 .. NReq : i \in Pid
    BY <1>0, <1>1
  <2>2. ready = [i \in 1 .. NReq |-> i]
    BY <1>1
  <2> QED BY <1>1, <2>1, <2>2
<1> HIDE DEF ready
<1>3. /\ k.state = States /\ k.container = Links /\ k.list = Contents
      /\ k.running = Idle /\ k.stop = "no" /\ k.ppid = [p \in Pid |-> 0]
  BY DEF Init, ready
<1>4. k \in KernelState
  <2>1. States \in [Pid -> TaskState]
    BY DEF TaskState
  <2>2. Links \in [Pid -> Lists \cup {NoList}]
    BY <1>0
  <2>3. Contents \in [Lists -> Seq(Pid)]
    BY <1>2
  <2>4. /\ [p \in Pid |-> 0] \in [Pid -> Pid] /\ [p \in Pid |-> 0] \in [Pid -> Pid \cup {AnyChild}]
        /\ [p \in Pid |-> 0] \in [Pid -> Nat] /\ [p \in Pid |-> 1] \in [Pid -> Nat \ {0}]
        /\ 0 \in Nat /\ "no" \in StopReason
    BY <1>0 DEF StopReason
  <2>5. k = [state |-> States, container |-> Links, list |-> Contents, running |-> Idle,
             ppid |-> [p \in Pid |-> 0], waitpid |-> [p \in Pid |-> 0],
             priority |-> [p \in Pid |-> 1], ticks |-> [p \in Pid |-> 1],
             value |-> [p \in Pid |-> 0], jiffies |-> 0, stop |-> "no"]
    BY DEF Init, ready
  <2> HIDE DEF States, Links, Contents
  <2> QED BY <1>0, <2>1, <2>2, <2>3, <2>4, <2>5 DEF KernelState
<1>5. \A p \in Pid : /\ k.state[p] = IF p = Idle THEN "RUNNING"
                                     ELSE IF p \in Requester THEN "READY" ELSE "FREE"
                     /\ k.container[p] = IF p \in Requester THEN "ready" ELSE NoList
                     /\ k.ppid[p] = 0 /\ pc[p] = "run"
  BY <1>3 DEF Init
<1>6. k.list["ready"] = ready /\ \A l \in Lists \ {"ready"} : k.list[l] = <<>>
  BY <1>0, <1>3
<1> HIDE DEF States, Links, Contents
<1>7. WellLinked(k)
  <2>1. ASSUME NEW l \in Lists, NEW i \in 1 .. Len(k.list[l])
        PROVE  l = "ready" /\ i \in 1 .. NReq /\ k.list[l][i] = i
    <3>1. l = "ready"
      BY <1>6
    <3> QED BY <1>2, <1>6, <3>1
  <2>2. \A l \in Lists : \A i \in 1 .. Len(k.list[l]) : k.container[k.list[l][i]] = l
    BY <1>0, <1>1, <1>5, <2>1
  <2>3. \A l \in Lists : \A i, j \in 1 .. Len(k.list[l]) : k.list[l][i] = k.list[l][j] => i = j
    BY <2>1
  <2>4. ASSUME NEW p \in Pid, k.container[p] # NoList
        PROVE  \E i \in 1 .. Len(k.list[k.container[p]]) : k.list[k.container[p]][i] = p
    <3>1. p \in 1 .. NReq /\ k.container[p] = "ready"
      BY <1>1, <1>5, <2>4
    <3> QED BY <1>2, <1>6, <3>1
  <2> QED BY <2>2, <2>3, <2>4 DEF WellLinked
<1>8. Settled(k)
  BY <1>0, <1>3, <1>4, <1>5, <1>7 DEF Settled, KernelOK, Runs, OnItsList, Awake
<1>9. /\ request_list = <<>> /\ req_direct = "FORE" /\ do_request = FALSE
      /\ sending = NoTask /\ timer = NoTask /\ drive = "idle" /\ eoi = TRUE
      /\ status = [p \in Pid |-> 0] /\ pc = [p \in Pid |-> "run"]
  BY DEF Init
<1>10. DataOK
  BY <1>9 DEF DataOK
<1>11. Where
  BY <1>0, <1>5 DEF Where, Awake, TimerSlot
<1>12. Family /\ Sent /\ Reaped
  <2>1. \A p \in Requester : pc[p] = "run"
    BY <1>0, <1>5
  <2>2. \A c \in TimerSlot : k.state[c] = "FREE"
    BY <1>0, <1>5 DEF TimerSlot
  <2> QED BY <1>0, <1>5, <2>1, <2>2 DEF Family, Sent, Reaped
<1>13. Waiters = {} /\ Sender = {}
  BY <1>0, <1>5 DEF Waiters, Sender
<1>14. Queue(request_list, Waiters)
  BY <1>9, <1>13 DEF Queue
<1>15. OneSender
  BY <1>9, <1>13, OneSenderIs
<1> QED BY <1>3, <1>8, <1>9, <1>10, <1>11, <1>12, <1>14, <1>15 DEF IInv, PortFree, StopOK, NoStall

\* Every step keeps the invariant.
LEMMA NextHolds == IInv /\ [Next]_vars => IInv'
<1> SUFFICES ASSUME IInv, [Next]_vars PROVE IInv'
  OBVIOUS
<1>1. CASE Stopped \/ UNCHANGED vars
  <2>1. UNCHANGED <<k, pc, request_list, req_direct, do_request, sending, timer, status, drive, eoi>>
    BY <1>1 DEF Stopped, vars
  <2>2. Settled(k') /\ DataOK' /\ Where' /\ Family' /\ Sent' /\ Reaped'
    BY <2>1 DEF IInv, DataOK, Where, Family, Sent, Reaped
  <2>3. PortFree' /\ Queue(request_list, Waiters)' /\ StopOK' /\ OneSender' /\ NoStall'
    BY <2>1 DEF IInv, PortFree, Queue, Waiters, StopOK, OneSender, NoStall
  <2> QED BY <2>2, <2>3 DEF IInv
<1> QED BY <1>1, RequestKeeps, RequestResumeKeeps, SentResumeKeeps, TimerSleepKeeps, TimerExpireKeeps,
           DriveDoneKeeps, HbaIntKeeps, ClockTickKeeps DEF Next

\* The invariant holds in every state of the disk driver, whatever the order of
\* requests, timeouts, answers and ticks.
THEOREM DiskSafe == Spec => []IInv
<1>1. Init => IInv
  BY InitHolds
<1>2. IInv /\ [Next]_vars => IInv'
  BY NextHolds
<1> QED BY <1>1, <1>2, PTL DEF Spec

\* do_request() and sata_sending_wait: no assertion fails and no missing task is
\* used, but for an answer of the drive after the time limit.
THEOREM OnlyLateAnswersAssert == Spec => []NoAssert
<1>1. IInv => NoAssert
  BY DEF IInv, StopOK, NoAssert
<1> QED BY <1>1, DiskSafe, PTL

\* device->do_request: one task at a time uses the port, and the flag is set just
\* while it does.
THEOREM OneCommandAtATime == Spec => []OneSender
<1>1. IInv => OneSender
  BY DEF IInv
<1> QED BY <1>1, DiskSafe, PTL

\* get_next_req and unblock in device_request: when the port is unused and requests
\* wait, one of their tasks is going to look again.
THEOREM NoRequestForgotten == Spec => []NoStall
<1>1. IInv => NoStall
  BY DEF IInv
<1> QED BY <1>1, DiskSafe, PTL

\* waitpid in sata_sending_wait: every timer thread is reaped by its sender.
THEOREM NoTimerLeft == Spec => []TimersReaped
<1>1. IInv => TimersReaped
  BY DEF IInv, Reaped, TimersReaped, TimerSlot
<1> QED BY <1>1, DiskSafe, PTL

=============================================================================
