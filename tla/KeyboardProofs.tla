--------------------------- MODULE KeyboardProofs ---------------------------
(***************************************************************************)
(* The keyboard's mutex excludes, no reader sleeps beside a full buffer,   *)
(* que_pop never meets an empty one, and keys reach the reads in order,    *)
(* for every number of tasks, every size of the buffer and every number of *)
(* keys.  The last part is about the decoder of the keyboard's bytes       *)
(* (module Scancode): what it puts out is what was typed.                  *)
(***************************************************************************)
EXTENDS Keyboard, Scancode, SchedProofs

-----------------------------------------------------------------------------
(* Numbers modulo the size of the ring *)

Index == 0 .. KeyBufSize - 1

\* A number below the size is its own remainder.
LEMMA ModuloLow ==
  ASSUME NEW S \in Nat, S >= 2, NEW x \in Int, 0 <= x, x < S
  PROVE  x % S = x
OBVIOUS

\* A number that has passed the size once.
LEMMA ModuloHigh ==
  ASSUME NEW S \in Nat, S >= 2, NEW x \in Int, S <= x, x < 2 * S
  PROVE  x % S = x - S
OBVIOUS

\* A number below zero: the remainder is that of the ring, as the code adds the size.
LEMMA ModuloNegative ==
  ASSUME NEW S \in Nat, S >= 2, NEW x \in Int, 0 - S <= x, x < 0
  PROVE  x % S = x + S
OBVIOUS

Ring(q) ==
  /\ q = [head |-> q.head, tail |-> q.tail, que |-> q.que]
  /\ q.head \in Index /\ q.tail \in Index /\ q.que \in [Index -> Nat]

\* Bytes in the ring, without the remainder.
LEMMA RingLength ==
  ASSUME NEW q, Ring(q)
  PROVE  /\ que_len(q) = IF q.tail > q.head THEN q.tail - q.head - 1
                         ELSE q.tail - q.head - 1 + KeyBufSize
         /\ que_len(q) \in Index
         /\ que_isempty(q) <=> que_len(q) = 0
         /\ que_isfull(q) <=> que_len(q) = KeyBufSize - 1
<1>1. KeyBufSize \in Nat /\ KeyBufSize >= 2 /\ q.head \in Index /\ q.tail \in Index
  BY KeyboardAssumption DEF Ring
<1>2. que_len(q) = IF q.tail > q.head THEN q.tail - q.head - 1
                   ELSE q.tail - q.head - 1 + KeyBufSize
  <2> DEFINE x == q.tail - q.head - 1
  <2>1. que_len(q) = x % KeyBufSize
    BY DEF que_len
  <2>2. x \in Int /\ x < KeyBufSize /\ 0 - KeyBufSize <= x /\ (q.tail > q.head <=> 0 <= x)
    BY <1>1 DEF Index
  <2> HIDE DEF x
  <2>3. CASE 0 <= x
    <3>1. x % KeyBufSize = x
      BY <1>1, <2>2, <2>3, ModuloLow
    <3> QED BY <2>1, <2>2, <2>3, <3>1 DEF x
  <2>4. CASE ~(0 <= x)
    <3>1. x % KeyBufSize = x + KeyBufSize
      BY <1>1, <2>2, <2>4, ModuloNegative
    <3> QED BY <2>1, <2>2, <2>4, <3>1 DEF x
  <2> QED BY <2>3, <2>4
<1>3. que_isempty(q) <=> que_len(q) = 0
  <2>1. CASE q.head = KeyBufSize - 1
    <3>1. (q.head + 1) % KeyBufSize = 0
      <4>1. KeyBufSize % KeyBufSize = KeyBufSize - KeyBufSize
        BY <1>1, ModuloHigh
      <4> QED BY <4>1, <1>1, <2>1
    <3> QED BY <1>1, <1>2, <2>1, <3>1 DEF que_isempty, Index
  <2>2. CASE q.head # KeyBufSize - 1
    <3>1. (q.head + 1) % KeyBufSize = q.head + 1
      <4>1. q.head + 1 \in Int /\ 0 <= q.head + 1 /\ q.head + 1 < KeyBufSize
        BY <1>1, <2>2 DEF Index
      <4> QED BY <4>1, <1>1, ModuloLow
    <3> QED BY <1>1, <1>2, <2>2, <3>1 DEF que_isempty, Index
  <2> QED BY <2>1, <2>2
<1>4. que_len(q) \in Index
  BY <1>1, <1>2 DEF Index
<1>5. que_isfull(q) <=> que_len(q) = KeyBufSize - 1
  BY <1>1, <1>2 DEF Index, que_isfull
<1> QED BY <1>2, <1>3, <1>4, <1>5

\* Taking bytes out.
LEMMA RingPop ==
  ASSUME NEW q, Ring(q), NEW n \in 0 .. que_len(q)
  PROVE  Ring(que_pop(q, n)) /\ que_len(que_pop(q, n)) = que_len(q) - n
<1> DEFINE r == que_pop(q, n)
           h == (q.head + n) % KeyBufSize
<1>1. /\ KeyBufSize \in Nat /\ KeyBufSize >= 2 /\ q.head \in Index /\ q.tail \in Index
      /\ que_len(q) \in Index /\ n \in Nat /\ n <= que_len(q)
  BY KeyboardAssumption, RingLength DEF Ring, Index
<1>2. r = [head |-> h, tail |-> q.tail, que |-> q.que]
  <2>1. PICK a, b, c : q = [head |-> a, tail |-> b, que |-> c]
    BY DEF Ring
  <2>2. r = [q EXCEPT !.head = h]
    BY <2>1 DEF que_pop
  <2> HIDE DEF h, r
  <2> QED BY <2>1, <2>2
<1>3. h = IF q.head + n < KeyBufSize THEN q.head + n ELSE q.head + n - KeyBufSize
  <2>1. CASE q.head + n < KeyBufSize
    <3>1. q.head + n \in Int /\ 0 <= q.head + n
      BY <1>1, <2>1 DEF Index
    <3>2. (q.head + n) % KeyBufSize = q.head + n
      BY <1>1, <2>1, <3>1, ModuloLow
    <3> QED BY <2>1, <3>2
  <2>2. CASE ~(q.head + n < KeyBufSize)
    <3>1. q.head + n \in Int /\ KeyBufSize <= q.head + n /\ q.head + n < 2 * KeyBufSize
      BY <1>1, <2>2 DEF Index
    <3> DEFINE y == q.head + n
    <3>2. h = y % KeyBufSize
      OBVIOUS
    <3> HIDE DEF y, h
    <3>3. y % KeyBufSize = y - KeyBufSize
      BY <1>1, <3>1, ModuloHigh DEF y
    <3>4. h = y - KeyBufSize
      BY <3>2, <3>3
    <3> QED BY <1>1, <2>2, <3>4 DEF y, Index
  <2> QED BY <2>1, <2>2
<1> HIDE DEF r, h
<1>4. h \in Index
  BY <1>1, <1>3 DEF Index
<1>5. Ring(r)
  BY <1>2, <1>4 DEF Ring
<1>6. que_len(q) = IF q.tail > q.head THEN q.tail - q.head - 1
                   ELSE q.tail - q.head - 1 + KeyBufSize
  BY RingLength
<1>7. que_len(r) = IF q.tail > h THEN q.tail - h - 1 ELSE q.tail - h - 1 + KeyBufSize
  BY <1>2, <1>5, RingLength
<1>8. que_len(r) = que_len(q) - n
  BY <1>1, <1>3, <1>6, <1>7 DEF Index
<1> QED BY <1>5, <1>8 DEF r

\* Putting a byte in.
LEMMA RingPush ==
  ASSUME NEW q, Ring(q), ~que_isfull(q), NEW c \in Nat
  PROVE  Ring(que_push(q, c)) /\ que_len(que_push(q, c)) = que_len(q) + 1
<1> DEFINE r == que_push(q, c)
           t == (q.tail + 1) % KeyBufSize
<1>1. KeyBufSize \in Nat /\ KeyBufSize >= 2 /\ q.head \in Index /\ q.tail \in Index
  BY KeyboardAssumption DEF Ring
<1>2. r = [head |-> q.head, tail |-> t, que |-> [q.que EXCEPT ![q.tail] = c]]
  <2>1. PICK a, b, d : q = [head |-> a, tail |-> b, que |-> d]
    BY DEF Ring
  <2>2. r = [q EXCEPT !.que[q.tail] = c, !.tail = t]
    BY <2>1 DEF que_push
  <2> HIDE DEF t, r
  <2> QED BY <2>1, <2>2
<1>3. t = IF q.tail + 1 < KeyBufSize THEN q.tail + 1 ELSE 0
  <2>1. CASE q.tail + 1 < KeyBufSize
    <3>1. q.tail + 1 \in Int /\ 0 <= q.tail + 1
      BY <1>1, <2>1 DEF Index
    <3>2. (q.tail + 1) % KeyBufSize = q.tail + 1
      BY <1>1, <2>1, <3>1, ModuloLow
    <3> QED BY <2>1, <3>2
  <2>2. CASE ~(q.tail + 1 < KeyBufSize)
    <3>1. q.tail + 1 = KeyBufSize
      BY <1>1, <2>2 DEF Index
    <3>2. KeyBufSize % KeyBufSize = KeyBufSize - KeyBufSize
      BY <1>1, ModuloHigh
    <3> QED BY <1>1, <2>2, <3>1, <3>2
  <2> QED BY <2>1, <2>2
<1> HIDE DEF r, t
<1>4. t \in Index
  BY <1>1, <1>3 DEF Index
<1>5. Ring(r)
  BY <1>2, <1>4 DEF Ring
<1>6. que_len(q) = IF q.tail > q.head THEN q.tail - q.head - 1
                   ELSE q.tail - q.head - 1 + KeyBufSize
  BY RingLength
<1>7. que_len(r) = IF t > q.head THEN t - q.head - 1 ELSE t - q.head - 1 + KeyBufSize
  BY <1>2, <1>5, RingLength
<1>8. q.head # q.tail
  BY DEF que_isfull
<1>9. que_len(r) = que_len(q) + 1
  BY <1>1, <1>3, <1>6, <1>7, <1>8 DEF Index
<1> QED BY <1>5, <1>9 DEF r

-----------------------------------------------------------------------------
(* Where the tasks are *)

\* One task runs and is on no list; the others are ready or wait.
Placed(m) ==
  /\ KernelOK(m) /\ m.running \in Pid /\ m.state[m.running] = "RUNNING"
  /\ \A q \in Pid : /\ m.container[q] \in {NoList, "ready", "lock", "waiter"}
                    /\ m.container[q] = NoList <=> q = m.running

\* The same tasks wait.
SameWaiting(m, n) ==
  /\ n.stop = m.stop
  /\ \A q \in Pid, l \in {"lock", "waiter"} : n.container[q] = l <=> m.container[q] = l

\* The lists and tasks of the keyboard.
LEMMA ListNames ==
  /\ {"lock", "waiter", "ready", "sleep"} \subseteq Lists /\ NoList \notin Lists
  /\ 0 \in Pid /\ Idle \in Pid /\ Reader \subseteq Pid
BY KeyboardAssumption, SchedAssumption DEF NoList, Pid, Idle, Reader

\* A list is empty if it is nobody's container; its first node is on it.
LEMMA HeadLinked ==
  ASSUME NEW m, KernelOK(m), NEW l \in Lists
  PROVE  /\ m.list[l] = <<>> <=> \A q \in Pid : m.container[q] # l
         /\ m.list[l] # <<>> => Head(m.list[l]) \in Pid /\ m.container[Head(m.list[l])] = l
<1>1. m.list[l] \in Seq(Pid) /\ l # NoList
  BY SchedAssumption DEF KernelOK, KernelState, NoList
<1>2. ASSUME NEW q \in Pid, m.container[q] = l PROVE m.list[l] # <<>>
  <2>1. \E i \in 1 .. Len(m.list[l]) : m.list[l][i] = q
    BY <1>1, <1>2 DEF KernelOK, WellLinked
  <2> QED BY <2>1, <1>1
<1>3. ASSUME m.list[l] # <<>>
      PROVE  Head(m.list[l]) \in Pid /\ m.container[Head(m.list[l])] = l
  <2>1. 1 \in 1 .. Len(m.list[l]) /\ Head(m.list[l]) = m.list[l][1] /\ m.list[l][1] \in Pid
    BY <1>1, <1>3
  <2>2. m.container[m.list[l][1]] = l
    BY <2>1 DEF KernelOK, WellLinked
  <2> QED BY <2>1, <2>2
<1> QED BY <1>2, <1>3

\* schedule() changes nobody's waiting.
LEMMA SwitchKeeps ==
  ASSUME NEW m, Placed(m)
  PROVE  Placed(schedule(m)) /\ SameWaiting(m, schedule(m))
<1> DEFINE n == schedule(m)
           cur == m.running
<1>1. KernelOK(m) /\ cur \in Pid /\ m.container[cur] = NoList /\ m.state[cur] = "RUNNING"
  BY DEF Placed
<1>2. CASE ~ \E q \in Pid : m.container[q] = "ready"
  <2>1. n = m
    BY <1>1, <1>2, ScheduleAlone
  <2> QED BY <2>1 DEF SameWaiting
<1>3. CASE \E q \in Pid : m.container[q] = "ready"
  <2>1. "ready" # NoList
    BY DEF NoList
  <2>2. PICK next \in Pid :
          /\ m.container[next] = "ready" /\ KernelOK(n) /\ n.stop = m.stop /\ n.running = next
          /\ n.state = [[m.state EXCEPT ![next] = "RUNNING"] EXCEPT ![cur] = "READY"]
          /\ n.container = [[m.container EXCEPT ![next] = NoList] EXCEPT ![cur] = "ready"]
    BY <1>1, <1>3, <2>1, Schedule
  <2> HIDE DEF n, cur
  <2>3. m.container \in [Pid -> Lists \cup {NoList}] /\ m.state \in [Pid -> TaskState]
    BY <1>1 DEF KernelOK, KernelState
  <2>4. next # cur
    BY <1>1, <2>1, <2>2
  <2>5. \A q \in Pid : n.container[q] = IF q = cur THEN "ready"
                                        ELSE IF q = next THEN NoList ELSE m.container[q]
    BY <1>1, <2>2, <2>3, <2>4
  <2>6. n.state[next] = "RUNNING"
    BY <1>1, <2>2, <2>3, <2>4
  <2>7. Placed(n)
    BY <2>1, <2>2, <2>5, <2>6 DEF Placed, cur
  <2>8. SameWaiting(m, n)
    BY <1>1, <2>2, <2>5 DEF SameWaiting, NoList
  <2> QED BY <2>7, <2>8 DEF n
<1> QED BY <1>2, <1>3

\* unblock() of a task that waits.
LEMMA WakeKeeps ==
  ASSUME NEW m, Placed(m), NEW p \in Pid, m.container[p] \in {"lock", "waiter"}
  PROVE  LET n == unblock(m, p)
         IN /\ Placed(n) /\ n.stop = m.stop /\ n.running = m.running
            /\ \A q \in Pid : n.container[q] = IF q = p THEN "ready" ELSE m.container[q]
<1> DEFINE n == unblock(m, p)
<1>0. KernelOK(m) /\ m.container[p] # NoList
  BY DEF Placed, NoList
<1>1. /\ KernelOK(n) /\ n.running = m.running /\ n.stop = m.stop
      /\ n.state = [m.state EXCEPT ![p] = "READY"]
      /\ n.container = [m.container EXCEPT ![p] = "ready"]
  BY <1>0, Unblock
<1> HIDE DEF n
<1>2. m.container \in [Pid -> Lists \cup {NoList}] /\ m.state \in [Pid -> TaskState]
  BY <1>0 DEF KernelOK, KernelState
<1>3. p # m.running
  BY <1>0 DEF Placed
<1>4. \A q \in Pid : n.container[q] = IF q = p THEN "ready" ELSE m.container[q]
  BY <1>1, <1>2
<1>5. n.state[m.running] = "RUNNING"
  BY <1>1, <1>2, <1>3 DEF Placed
<1>6. Placed(n)
  BY <1>0, <1>1, <1>3, <1>4, <1>5 DEF Placed, NoList
<1> QED BY <1>1, <1>4, <1>6 DEF n

\* block() of the running task, which is not idle.
LEMMA BlockKeeps ==
  ASSUME NEW m, Placed(m), NEW p \in Pid, m.running = p, NEW l \in {"lock", "waiter"},
         \E q \in Pid : m.container[q] = "ready"
  PROVE  LET n == block(m, l, p, "BLOCKED")
         IN /\ Placed(n) /\ n.stop = m.stop /\ n.container[p] = l
            /\ \A q \in Pid \ {p}, h \in {"lock", "waiter"} : n.container[q] = h <=> m.container[q] = h
<1> DEFINE m1 == list_push([m EXCEPT !.state[p] = "BLOCKED"], l, p)
           n == block(m, l, p, "BLOCKED")
<1>0. /\ KernelOK(m) /\ m.container[p] = NoList /\ l \in Lists /\ "BLOCKED" \in TaskState
      /\ l # NoList /\ l # "ready" /\ NoList # "ready"
  BY ListNames DEF Placed, TaskState, NoList
<1>1. n = schedule(m1)
  BY <1>0, BlockIsPush
<1>2. /\ KernelOK(m1) /\ m1.running = p /\ m1.stop = m.stop
      /\ m1.state = [m.state EXCEPT ![p] = "BLOCKED"]
      /\ m1.container = [m.container EXCEPT ![p] = l]
  BY <1>0, PushAs
<1> HIDE DEF m1, n
<1>3. m.container \in [Pid -> Lists \cup {NoList}] /\ m.state \in [Pid -> TaskState]
  BY <1>0 DEF KernelOK, KernelState
<1>4. \A q \in Pid : m1.container[q] = IF q = p THEN l ELSE m.container[q]
  BY <1>2, <1>3
<1>5. \E q \in Pid : m1.container[q] = "ready"
  BY <1>0, <1>4
<1>6. PICK next \in Pid :
        /\ m1.container[next] = "ready" /\ KernelOK(n) /\ n.stop = m.stop /\ n.running = next
        /\ n.state = [m1.state EXCEPT ![next] = "RUNNING"]
        /\ n.container = [m1.container EXCEPT ![next] = NoList]
  BY <1>0, <1>1, <1>2, <1>4, <1>5, Schedule
<1>7. next # p
  BY <1>0, <1>4, <1>6
<1>8. \A q \in Pid : n.container[q] = IF q = next THEN NoList ELSE m1.container[q]
  BY <1>2, <1>3, <1>6
<1>9. n.state[next] = "RUNNING"
  BY <1>2, <1>3, <1>6
<1>10. Placed(n)
  <2>1. \A q \in Pid : n.container[q] \in {NoList, "ready", "lock", "waiter"}
    BY <1>4, <1>8 DEF Placed
  <2>2. \A q \in Pid : n.container[q] = NoList <=> q = next
    BY <1>0, <1>4, <1>8 DEF Placed
  <2> QED BY <1>6, <1>9, <2>1, <2>2 DEF Placed
<1>11. n.container[p] = l
  BY <1>4, <1>7, <1>8
<1>12. \A q \in Pid \ {p}, h \in {"lock", "waiter"} : n.container[q] = h <=> m.container[q] = h
  BY <1>4, <1>6, <1>8 DEF NoList
<1> QED BY <1>6, <1>10, <1>11, <1>12 DEF n

\* The clock moves only tasks that could run.
LEMMA ClockKeeps ==
  ASSUME NEW m, Placed(m)
  PROVE  Placed(clock_handler(m)) /\ SameWaiting(m, clock_handler(m))
<1> DEFINE j == IF m.jiffies < MaxJiffies THEN m.jiffies + 1 ELSE m.jiffies
           m1 == [m EXCEPT !.jiffies = j]
           m2 == weakup(m1)
           p == m.running
<1>1. KernelOK(m) /\ p \in Pid /\ p # NoTask
  BY SchedAssumption DEF Placed, Pid, NoTask
<1>2. j \in Nat
  BY <1>1 DEF KernelOK, KernelState
<1>3. clock_handler(m) = IF m.ticks[p] = 1
                         THEN schedule([m2 EXCEPT !.ticks[p] = m.priority[p]])
                         ELSE [m2 EXCEPT !.ticks[p] = @ - 1]
  BY <1>1 DEF clock_handler
<1> HIDE DEF j
<1>4. /\ KernelOK(m1) /\ m1.state = m.state /\ m1.container = m.container
      /\ m1.running = m.running /\ m1.stop = m.stop /\ m1.ticks = m.ticks
  BY <1>1, <1>2, SetClock
<1>5. m2 = m1
  <2>1. \A q \in Pid : m1.container[q] # "sleep"
    <3> HIDE DEF m1
    <3> QED BY <1>4 DEF Placed, NoList
  <2> HIDE DEF m1
  <2> QED BY <1>4, <2>1, Weakup, ZenonT(40)
<1> HIDE DEF m1, m2
<1>6. m.ticks[p] \in Nat \ {0} /\ m.priority[p] \in Nat \ {0}
  BY <1>1 DEF KernelOK, KernelState
<1>7. ASSUME NEW t \in Nat \ {0}
      PROVE  LET n == [m2 EXCEPT !.ticks[p] = t]
             IN Placed(n) /\ SameWaiting(m, n)
  <2> DEFINE n == [m2 EXCEPT !.ticks[p] = t]
  <2>1. /\ KernelOK(n) /\ n.state = m1.state /\ n.container = m1.container
        /\ n.running = m1.running /\ n.stop = m1.stop
    BY <1>1, <1>4, <1>5, SetTicks
  <2> HIDE DEF n
  <2> QED BY <2>1, <1>4 DEF Placed, SameWaiting, n
<1>8. CASE m.ticks[p] = 1
  <2> DEFINE n == [m2 EXCEPT !.ticks[p] = m.priority[p]]
  <2>1. Placed(n) /\ SameWaiting(m, n)
    BY <1>6, <1>7
  <2>2. clock_handler(m) = schedule(n)
    BY <1>3, <1>8
  <2> HIDE DEF n
  <2>3. Placed(schedule(n)) /\ SameWaiting(n, schedule(n))
    BY <2>1, SwitchKeeps
  <2> QED BY <2>1, <2>2, <2>3 DEF SameWaiting
<1>9. CASE m.ticks[p] # 1
  <2> DEFINE t == m2.ticks[p] - 1
             n == [m2 EXCEPT !.ticks[p] = t]
  <2>1. t \in Nat \ {0}
    BY <1>4, <1>5, <1>6, <1>9
  <2>2. clock_handler(m) = n
    BY <1>3, <1>9
  <2> HIDE DEF t
  <2> QED BY <2>1, <2>2, <1>7
<1> QED BY <1>8, <1>9

-----------------------------------------------------------------------------
(* The inductive invariant *)

\* Only readers wait, where keyboard_read has left them.
Waiting ==
  /\ pc \in [Pid -> {"run", "lock", "keys"}] /\ pc[Idle] = "run"
  /\ \A q \in Pid : /\ k.container[q] = "lock" => pc[q] = "lock"
                    /\ k.container[q] = "waiter" => pc[q] = "keys"

\* A reader that a key has woken finds the key, although it does not look.
Woken ==
  \A q \in Reader : pc[q] = "keys" /\ k.container[q] # "waiter" => ~que_isempty(key_buf)

Data ==
  /\ todo \in [Pid -> Nat] /\ buf \in [Pid -> Seq(Nat)] /\ typed \in Nat /\ value \in BOOLEAN

IInv ==
  /\ Placed(k) /\ Waiting /\ Ring(key_buf) /\ Data
  /\ Woken /\ MutualExclusion /\ NoLostKey /\ PopSafe

\* Idle is ready whenever a reader runs.
LEMMA IdleReady ==
  ASSUME IInv, NEW p \in Reader, k.running = p
  PROVE  k.container[Idle] = "ready" /\ p \in Pid /\ k.container[p] = NoList
<1>1. Idle \in Pid /\ p \in Pid /\ p # Idle
  BY ListNames DEF Reader
<1>2. k.container[Idle] \in {NoList, "ready", "lock", "waiter"} /\ k.container[Idle] # NoList
      /\ k.container[p] = NoList
  BY <1>1 DEF IInv, Placed
<1>3. pc[Idle] = "run" /\ (k.container[Idle] = "lock" => pc[Idle] = "lock")
      /\ (k.container[Idle] = "waiter" => pc[Idle] = "keys")
  BY <1>1 DEF IInv, Waiting
<1> QED BY <1>1, <1>2, <1>3

\* Whoever waits for keys owns the mutex: with no owner but p, which runs, nobody does.
LEMMA NobodyWaits ==
  ASSUME IInv, NEW p \in Pid, k.running = p, \A q \in Owners : q = p
  PROVE  \A q \in Pid : k.container[q] # "waiter"
<1> SUFFICES ASSUME NEW q \in Pid, k.container[q] = "waiter" PROVE FALSE
  OBVIOUS
<1>1. pc[q] = "keys" /\ q # Idle
  BY DEF IInv, Waiting
<1>2. q \in Owners
  BY <1>1 DEF Owners, Reader
<1>3. k.container[p] = NoList
  BY DEF IInv, Placed
<1> QED BY <1>2, <1>3 DEF NoList

\* keyboard_read has read what it wants: it unlocks.
LEMMA ReadEnds ==
  ASSUME IInv, NEW p \in Reader, k.running = p, k.stop = "no",
         \A q \in Owners : q = p, k' = mutex_unlock(k), value' = (k.list["lock"] = <<>>),
         pc' = [pc EXCEPT ![p] = "run"], Ring(key_buf'), Data'
  PROVE  IInv'
<1>0. /\ "lock" \in Lists /\ "waiter" \in Lists /\ p \in Pid /\ p # Idle /\ Idle \in Pid
      /\ KernelOK(k) /\ k.container[p] = NoList /\ NoList # "lock"
  BY ListNames, IdleReady DEF IInv, Placed, Reader, NoList
<1>1. /\ \A q \in Pid : k.container[q] # "waiter"
  BY <1>0, NobodyWaits
<1>2. pc' \in [Pid -> {"run", "lock", "keys"}] /\ pc'[p] = "run" /\ \A q \in Pid \ {p} : pc'[q] = pc[q]
  BY <1>0 DEF IInv, Waiting
<1>3. CASE k.list["lock"] = <<>>
  <2>1. k' = k /\ value' = TRUE
    BY <1>3 DEF mutex_unlock
  <2>2. \A q \in Pid : k.container[q] # "lock"
    BY <1>0, <1>3, HeadLinked
  <2>3. \A q \in Reader : pc'[q] # "keys" /\ pc'[q] # "lock"
    BY <1>2, <2>2, ListNames DEF Owners
  <2>4. Owners' = {}
    BY <2>3 DEF Owners
  <2>5. Waiting' /\ Woken'
    BY <1>0, <1>1, <1>2, <2>1, <2>2, <2>3 DEF Waiting, Woken, IInv
  <2>6. MutualExclusion'
    BY <2>1, <2>4 DEF MutualExclusion
  <2>7. k'.list["waiter"] = <<>>
    BY <1>0, <1>1, <2>1, HeadLinked
  <2>8. NoLostKey' /\ PopSafe'
    BY <2>1, <2>7 DEF NoLostKey, PopSafe
  <2> QED BY <2>1, <2>5, <2>6, <2>8 DEF IInv
<1>4. CASE k.list["lock"] # <<>>
  <2> DEFINE o == Last(k.list["lock"])
  <2>1. k' = unblock(k, o) /\ value' = FALSE
    BY <1>4 DEF mutex_unlock
  <2>2. o \in Pid /\ k.container[o] = "lock"
    BY <1>0, <1>4, HeadLinked, LastLinked
  <2> HIDE DEF o
  <2>3. /\ Placed(k') /\ k'.stop = k.stop /\ k'.running = k.running
        /\ \A q \in Pid : k'.container[q] = IF q = o THEN "ready" ELSE k.container[q]
    BY <2>1, <2>2, WakeKeeps DEF IInv
  <2>4. pc[o] = "lock" /\ o \in Reader /\ o # p
    BY <1>0, <2>2 DEF IInv, Waiting, Reader
  <2>5. \A q \in Owners' : q = o
    <3> SUFFICES ASSUME NEW q \in Reader, q # o, pc'[q] = "keys" \/ (pc'[q] = "lock" /\ k'.container[q] # "lock")
                 PROVE  FALSE
      BY DEF Owners
    <3>1. q \in Pid /\ q # p /\ pc'[q] = pc[q] /\ k'.container[q] = k.container[q]
      BY <1>2, <2>3, ListNames
    <3>2. q \in Owners
      BY <3>1 DEF Owners
    <3> QED BY <3>1, <3>2
  <2>6. o \in Owners'
    BY <1>2, <2>2, <2>3, <2>4 DEF Owners
  <2>7. MutualExclusion'
    BY <2>1, <2>5, <2>6 DEF MutualExclusion
  <2>8. Waiting'
    BY <1>0, <1>1, <1>2, <2>3 DEF Waiting, IInv
  <2>9. Woken'
    <3>1. \A q \in Reader : pc'[q] = "keys" => q = o
      BY <2>5 DEF Owners
    <3> QED BY <1>2, <2>4, <2>2, <3>1 DEF Woken
  <2>10. k'.list["waiter"] = <<>>
    <3>1. \A q \in Pid : k'.container[q] # "waiter"
      BY <1>1, <2>3
    <3> QED BY <1>0, <2>3, <3>1, HeadLinked DEF Placed
  <2>11. NoLostKey' /\ PopSafe'
    BY <2>3, <2>10 DEF NoLostKey, PopSafe
  <2> QED BY <2>3, <2>7, <2>8, <2>9, <2>11 DEF IInv
<1> QED BY <1>3, <1>4

\* keyboard_read has emptied the buffer and wants more: it sleeps.
LEMMA ReadSleeps ==
  ASSUME IInv, NEW p \in Reader, k.running = p, k.stop = "no",
         \A q \in Owners : q = p, k' = block(k, "waiter", p, "BLOCKED"), value' = FALSE,
         pc' = [pc EXCEPT ![p] = "keys"], Ring(key_buf'), que_isempty(key_buf)', Data'
  PROVE  IInv'
<1>0. /\ "lock" \in Lists /\ "waiter" \in Lists /\ p \in Pid /\ p # Idle /\ Idle \in Pid
      /\ k.container[Idle] = "ready" /\ Placed(k)
  BY ListNames, IdleReady DEF IInv, Reader
<1>1. /\ \A q \in Pid : k.container[q] # "waiter"
  BY <1>0, NobodyWaits
<1>2. pc' \in [Pid -> {"run", "lock", "keys"}] /\ pc'[p] = "keys" /\ \A q \in Pid \ {p} : pc'[q] = pc[q]
  BY <1>0 DEF IInv, Waiting
<1>3. /\ Placed(k') /\ k'.stop = k.stop /\ k'.container[p] = "waiter"
      /\ \A q \in Pid \ {p}, h \in {"lock", "waiter"} : k'.container[q] = h <=> k.container[q] = h
  BY <1>0, BlockKeeps
<1>4. \A q \in Owners' : q = p
  <2> SUFFICES ASSUME NEW q \in Reader, q # p, pc'[q] = "keys" \/ (pc'[q] = "lock" /\ k'.container[q] # "lock")
               PROVE  FALSE
    BY DEF Owners
  <2>1. q \in Pid /\ pc'[q] = pc[q] /\ (k'.container[q] = "lock" <=> k.container[q] = "lock")
    BY <1>2, <1>3, ListNames
  <2>2. q \in Owners
    BY <2>1 DEF Owners
  <2> QED BY <2>2
<1>5. p \in Owners'
  BY <1>2 DEF Owners
<1>6. MutualExclusion'
  BY <1>4, <1>5 DEF MutualExclusion
<1>7. Waiting'
  BY <1>0, <1>2, <1>3 DEF Waiting, IInv
<1>8. Woken'
  <2>1. \A q \in Reader : pc'[q] = "keys" => q = p
    BY <1>4 DEF Owners
  <2> QED BY <1>3, <2>1 DEF Woken
<1>9. NoLostKey' /\ PopSafe'
  BY <1>3 DEF NoLostKey, PopSafe
<1> QED BY <1>3, <1>6, <1>7, <1>8, <1>9 DEF IInv

\* What the loop takes out of the buffer.
LEMMA Takes ==
  ASSUME Ring(key_buf), NEW want \in Nat, NEW n, n = Min2(want, que_len(key_buf))
  PROVE  /\ n \in 0 .. que_len(key_buf) /\ n \in Nat /\ want - n \in Nat
         /\ Ring(que_pop(key_buf, n)) /\ que_popped(key_buf, n) \in Seq(Nat)
         /\ n # want => que_isempty(que_pop(key_buf, n))
<1>1. que_len(key_buf) \in Nat
  BY RingLength, KeyboardAssumption DEF Index
<1>2. n \in 0 .. que_len(key_buf) /\ n \in Nat /\ want - n \in Nat /\ (n # want => n = que_len(key_buf))
  BY <1>1 DEF Min2
<1>3. Ring(que_pop(key_buf, n)) /\ que_len(que_pop(key_buf, n)) = que_len(key_buf) - n
  BY <1>2, RingPop
<1>4. n # want => que_isempty(que_pop(key_buf, n))
  BY <1>1, <1>2, <1>3, RingLength
<1>5. \A i \in 1 .. n : key_buf.que[(key_buf.head + i) % KeyBufSize] \in Nat
  <2> SUFFICES ASSUME NEW i \in 1 .. n PROVE (key_buf.head + i) % KeyBufSize \in Index
    BY DEF Ring
  <2>1. key_buf.head + i \in Int /\ KeyBufSize \in Nat /\ KeyBufSize >= 2
    BY KeyboardAssumption DEF Ring, Index
  <2> QED BY <2>1 DEF Index
<1>6. que_popped(key_buf, n) \in Seq(Nat)
  BY <1>2, <1>5 DEF que_popped
<1> QED BY <1>2, <1>3, <1>4, <1>6

\* The loop of keyboard_read, up to its return or its next sleep.
LEMMA ReadLoopKeeps ==
  ASSUME IInv, NEW p \in Reader, k.running = p, k.stop = "no", \A q \in Owners : q = p,
         NEW want \in Nat, NEW has \in Seq(Nat), ReadLoop(p, want, has), UNCHANGED typed
  PROVE  IInv'
<1> DEFINE n == Min2(want, que_len(key_buf))
<1>1. /\ key_buf' = que_pop(key_buf, n)
      /\ buf' = [buf EXCEPT ![p] = has \o que_popped(key_buf, n)]
      /\ todo' = [todo EXCEPT ![p] = want - n]
      /\ IF n = want
         THEN /\ k' = mutex_unlock(k)
              /\ value' = (k.list["lock"] = <<>>)
              /\ pc' = [pc EXCEPT ![p] = "run"]
         ELSE /\ k' = block(k, "waiter", p, "BLOCKED")
              /\ value' = FALSE
              /\ pc' = [pc EXCEPT ![p] = "keys"]
  BY DEF ReadLoop
<1>2. /\ n \in Nat /\ want - n \in Nat /\ Ring(que_pop(key_buf, n))
      /\ que_popped(key_buf, n) \in Seq(Nat)
      /\ n # want => que_isempty(que_pop(key_buf, n))
  BY Takes DEF IInv
<1> HIDE DEF n
<1>3. Data'
  <2>1. todo' \in [Pid -> Nat] /\ typed' \in Nat
    BY <1>1, <1>2 DEF IInv, Data
  <2>2. has \o que_popped(key_buf, n) \in Seq(Nat)
    BY <1>2
  <2>3. buf' \in [Pid -> Seq(Nat)]
    BY <1>1, <2>2 DEF IInv, Data
  <2>4. value' \in BOOLEAN
    BY <1>1
  <2> QED BY <2>1, <2>3, <2>4 DEF Data
<1>4. Ring(key_buf')
  BY <1>1, <1>2
<1>5. CASE n = want
  BY <1>1, <1>3, <1>4, <1>5, ReadEnds
<1>6. CASE n # want
  <2>1. que_isempty(key_buf)'
    BY <1>1, <1>2, <1>6
  <2> QED BY <1>1, <1>3, <1>4, <1>6, <2>1, ReadSleeps
<1> QED BY <1>5, <1>6

\* read() takes the mutex, or waits for it.
LEMMA ReadKeeps ==
  ASSUME IInv, Read
  PROVE  IInv'
<1>1. PICK p \in Reader, c \in Counts :
        /\ Runs(p)
        /\ IF CanLock
           THEN ReadLoop(p, c, <<>>)
           ELSE /\ k' = block(k, "lock", p, "BLOCKED")
                /\ pc' = [pc EXCEPT ![p] = "lock"]
                /\ todo' = [todo EXCEPT ![p] = c]
                /\ buf' = [buf EXCEPT ![p] = <<>>]
                /\ UNCHANGED <<value, key_buf>>
        /\ UNCHANGED typed
  BY DEF Read
<1>2. c \in Nat /\ p \in Pid /\ k.running = p /\ k.stop = "no" /\ pc[p] = "run"
  BY <1>1, KeyboardAssumption, ListNames DEF Runs
<1>3. CASE CanLock
  <2>1. \A q \in Owners : q = p
    BY <1>3 DEF CanLock, IInv, MutualExclusion
  <2>2. <<>> \in Seq(Nat)
    OBVIOUS
  <2> QED BY <1>1, <1>2, <1>3, <2>1, <2>2, ReadLoopKeeps
<1>4. CASE ~CanLock
  <2>0. /\ k.container[Idle] = "ready" /\ Placed(k) /\ Idle \in Pid /\ p # Idle
        /\ "lock" \in Lists /\ "waiter" \in Lists
    BY <1>2, IdleReady, ListNames DEF IInv, Reader
  <2>1. /\ Placed(k') /\ k'.stop = k.stop /\ k'.container[p] = "lock"
        /\ \A q \in Pid \ {p}, h \in {"lock", "waiter"} : k'.container[q] = h <=> k.container[q] = h
    BY <1>1, <1>2, <1>4, <2>0, BlockKeeps
  <2>2. pc' \in [Pid -> {"run", "lock", "keys"}] /\ pc'[p] = "lock" /\ \A q \in Pid \ {p} : pc'[q] = pc[q]
    BY <1>1, <1>2, <1>4 DEF IInv, Waiting
  <2>3. \A q \in Reader : q \in Owners' <=> q \in Owners
    BY <1>2, <2>1, <2>2, ListNames DEF Owners
  <2>4. Owners' = Owners
    BY <2>3 DEF Owners
  <2>5. value' = value /\ key_buf' = key_buf
    BY <1>1, <1>4
  <2>6. MutualExclusion'
    BY <2>4, <2>5 DEF MutualExclusion, IInv
  <2>7. Waiting'
    BY <1>2, <2>0, <2>1, <2>2 DEF Waiting, IInv
  <2>8. Woken'
    <3> SUFFICES ASSUME NEW q \in Reader, pc'[q] = "keys", k'.container[q] # "waiter"
                 PROVE  ~que_isempty(key_buf)
      BY <2>5 DEF Woken
    <3>1. q # p /\ q \in Pid /\ pc[q] = "keys" /\ k.container[q] # "waiter"
      BY <2>1, <2>2, ListNames
    <3> QED BY <3>1 DEF IInv, Woken
  <2>9. k'.list["waiter"] # <<>> => k.list["waiter"] # <<>>
    <3>1. \A q \in Pid : k'.container[q] = "waiter" => k.container[q] = "waiter"
      BY <2>1
    <3> QED BY <2>0, <2>1, <3>1, HeadLinked DEF Placed
  <2>10. NoLostKey' /\ PopSafe'
    BY <2>1, <2>5, <2>9, <1>2 DEF IInv, NoLostKey, PopSafe
  <2>11. Data'
    <3>1. Data
      BY DEF IInv
    <3>2. todo' \in [Pid -> Nat] /\ typed' \in Nat
      BY <1>1, <1>2, <1>4, <3>1 DEF Data
    <3>3. buf' \in [Pid -> Seq(Nat)]
      <4>1. buf \in [Pid -> Seq(Nat)] /\ buf' = [buf EXCEPT ![p] = <<>>]
        BY <1>1, <1>4, <3>1 DEF Data
      <4>2. <<>> \in Seq(Nat)
        OBVIOUS
      <4> DEFINE e == <<>>
      <4> HIDE DEF e
      <4>3. buf' = [buf EXCEPT ![p] = e] /\ e \in Seq(Nat)
        BY <4>1, <4>2 DEF e
      <4> QED BY <4>1, <4>3
    <3>4. value' \in BOOLEAN
      BY <1>1, <1>4, <3>1 DEF Data
    <3> QED BY <3>2, <3>3, <3>4 DEF Data
  <2> QED BY <2>1, <2>5, <2>6, <2>7, <2>8, <2>10, <2>11 DEF IInv
<1> QED BY <1>3, <1>4

\* A reader that has the mutex goes on.
LEMMA ResumeKeeps ==
  ASSUME IInv, LockResume \/ KeysResume
  PROVE  IInv'
<1>1. ASSUME NEW p \in Reader, k.running = p, pc[p] \in {"lock", "keys"}
      PROVE  \A q \in Owners : q = p
  <2>1. k.container[p] = NoList
    BY <1>1, IdleReady
  <2>2. p \in Owners
    BY <1>1, <2>1 DEF Owners, NoList
  <2> QED BY <2>2 DEF IInv, MutualExclusion
<1>2. CASE LockResume
  <2>1. PICK p \in Reader : /\ k.stop = "no" /\ k.running = p /\ pc[p] = "lock"
                            /\ ReadLoop(p, todo[p], <<>>) /\ UNCHANGED typed
    BY <1>2 DEF LockResume
  <2>2. todo[p] \in Nat /\ <<>> \in Seq(Nat) /\ \A q \in Owners : q = p
    BY <2>1, <1>1, ListNames DEF IInv, Data
  <2> QED BY <2>1, <2>2, ReadLoopKeeps
<1>3. CASE KeysResume
  <2>1. PICK p \in Reader :
          /\ k.stop = "no" /\ k.running = p /\ pc[p] = "keys" /\ UNCHANGED typed
          /\ IF que_isempty(key_buf)
             THEN k' = Halt(k, "assert") /\ UNCHANGED <<pc, value, key_buf, todo, buf>>
             ELSE ReadLoop(p, todo[p], buf[p])
    BY <1>3 DEF KeysResume
  <2>2. k.container[p] = NoList
    BY <2>1, IdleReady
  <2>3. ~que_isempty(key_buf)
    BY <2>1, <2>2 DEF IInv, Woken, NoList
  <2>4. todo[p] \in Nat /\ buf[p] \in Seq(Nat) /\ \A q \in Owners : q = p
    BY <2>1, <1>1, ListNames DEF IInv, Data
  <2> QED BY <2>1, <2>3, <2>4, ReadLoopKeeps
<1> QED BY <1>2, <1>3

\* A step that leaves the readers as they are.
LEMMA QuietKeeps ==
  ASSUME IInv, Placed(k'), SameWaiting(k, k'), UNCHANGED <<pc, value, key_buf, todo, buf, typed>>
  PROVE  IInv'
<1>0. "lock" \in Lists /\ "waiter" \in Lists /\ Reader \subseteq Pid
  BY ListNames
<1>1. \A q \in Pid : /\ k'.container[q] = "lock" <=> k.container[q] = "lock"
                     /\ k'.container[q] = "waiter" <=> k.container[q] = "waiter"
  BY DEF SameWaiting
<1>2. Owners' = Owners
  BY <1>0, <1>1 DEF Owners
<1>3. MutualExclusion'
  BY <1>2 DEF IInv, MutualExclusion
<1>4. Waiting' /\ Woken'
  BY <1>0, <1>1 DEF IInv, Waiting, Woken
<1>5. k'.list["waiter"] # <<>> => k.list["waiter"] # <<>>
  BY <1>0, <1>1, HeadLinked DEF IInv, Placed
<1>6. NoLostKey' /\ PopSafe'
  BY <1>5 DEF IInv, NoLostKey, PopSafe, SameWaiting
<1>7. Data' /\ Ring(key_buf')
  BY DEF IInv, Data
<1> QED BY <1>3, <1>4, <1>6, <1>7 DEF IInv

\* The assertion of keyboard_hander stops the kernel when the buffer is full.
LEMMA FullHalts ==
  ASSUME IInv, que_isfull(key_buf), k' = Halt(k, "assert"),
         UNCHANGED <<pc, value, key_buf, todo, buf, typed>>
  PROVE  IInv'
<1>1. /\ k' \in KernelState /\ k'.state = k.state /\ k'.container = k.container
      /\ k'.list = k.list /\ k'.running = k.running
  <2>1. k \in KernelState
    BY DEF IInv, Placed, KernelOK
  <2> QED BY <2>1 DEF Halt, KernelState, StopReason
<1>2. Placed(k')
  BY <1>1, SMTT(30) DEF IInv, Placed, KernelOK, WellLinked
<1>3. Owners' = Owners
  BY <1>1 DEF Owners
<1>4. MutualExclusion'
  BY <1>3 DEF IInv, MutualExclusion
<1>5. Waiting' /\ Woken'
  BY <1>1 DEF IInv, Waiting, Woken
<1>6. NoLostKey' /\ PopSafe'
  BY <1>1 DEF IInv, NoLostKey, PopSafe
<1>7. Data' /\ Ring(key_buf')
  BY DEF IInv, Data
<1> QED BY <1>2, <1>4, <1>5, <1>6, <1>7 DEF IInv

\* A key is pushed and the reader that waits for it, if any, is woken.
LEMMA KeyIntKeeps ==
  ASSUME IInv, KeyInt
  PROVE  IInv'
<1>1. CASE que_isfull(key_buf)
  BY <1>1, FullHalts DEF KeyInt
<1>2. CASE ~que_isfull(key_buf)
  <2>1. /\ key_buf' = que_push(key_buf, typed + 1) /\ typed' = typed + 1
        /\ k' = IF k.list["waiter"] = <<>> THEN k ELSE unblock(k, Head(k.list["waiter"]))
        /\ UNCHANGED <<pc, value, todo, buf>> /\ k.stop = "no"
    BY <1>2 DEF KeyInt, Runs
  <2>2. typed + 1 \in Nat
    BY DEF IInv, Data
  <2>3. Ring(key_buf') /\ que_len(key_buf') = que_len(key_buf) + 1
    BY <1>2, <2>1, <2>2, RingPush DEF IInv
  <2>4. ~que_isempty(key_buf')
    <3>1. que_len(key_buf) \in Nat
      BY RingLength, KeyboardAssumption DEF IInv, Index
    <3> QED BY <2>3, <3>1, RingLength
  <2>5. Data'
    BY <2>1, <2>2 DEF IInv, Data
  <2>6. Woken'
    BY <2>4 DEF Woken
  <2>7. "lock" \in Lists /\ "waiter" \in Lists /\ Reader \subseteq Pid /\ Placed(k) /\ KernelOK(k)
    BY ListNames DEF IInv, Placed
  <2>8. CASE k.list["waiter"] = <<>>
    <3>1. k' = k /\ pc' = pc /\ value' = value
      BY <2>1, <2>8
    <3>2. Owners' = Owners
      BY <3>1 DEF Owners
    <3>3. MutualExclusion'
      BY <3>1, <3>2 DEF MutualExclusion, IInv
    <3>4. Waiting' /\ NoLostKey' /\ PopSafe'
      BY <2>1, <2>8, <3>1 DEF Waiting, NoLostKey, PopSafe, IInv
    <3> QED BY <2>3, <2>5, <2>6, <2>7, <3>1, <3>3, <3>4 DEF IInv
  <2>9. CASE k.list["waiter"] # <<>>
    <3> DEFINE o == Head(k.list["waiter"])
    <3>1. k' = unblock(k, o) /\ pc' = pc /\ value' = value
      BY <2>1, <2>9
    <3>2. o \in Pid /\ k.container[o] = "waiter"
      BY <2>7, <2>9, HeadLinked
    <3> HIDE DEF o
    <3>3. /\ Placed(k') /\ k'.stop = k.stop
          /\ \A q \in Pid : k'.container[q] = IF q = o THEN "ready" ELSE k.container[q]
      BY <2>7, <3>1, <3>2, WakeKeeps
    <3>4. pc[o] = "keys" /\ o \in Owners
      BY <3>2 DEF IInv, Waiting, Owners, Reader
    <3>5. Owners' = Owners
      BY <2>7, <3>1, <3>2, <3>3, <3>4 DEF Owners
    <3>6. MutualExclusion'
      BY <3>1, <3>5 DEF MutualExclusion, IInv
    <3>7. Waiting'
      BY <3>1, <3>3 DEF Waiting, IInv
    <3>8. \A q \in Pid : k'.container[q] # "waiter"
      <4> SUFFICES ASSUME NEW q \in Pid, k'.container[q] = "waiter" PROVE FALSE
        OBVIOUS
      <4>1. q # o /\ k.container[q] = "waiter"
        BY <3>3
      <4>2. q \in Owners
        BY <4>1 DEF IInv, Waiting, Owners, Reader
      <4> QED BY <3>4, <4>1, <4>2 DEF IInv, MutualExclusion
    <3>9. k'.list["waiter"] = <<>>
      BY <2>7, <3>3, <3>8, HeadLinked DEF Placed
    <3>10. NoLostKey' /\ PopSafe'
      BY <2>1, <3>3, <3>9 DEF NoLostKey, PopSafe
    <3> QED BY <2>3, <2>5, <2>6, <3>3, <3>6, <3>7, <3>10 DEF IInv
  <2> QED BY <2>8, <2>9
<1> QED BY <1>1, <1>2

\* The empty ring and the free mutex.
LEMMA InitHolds == Init => IInv
<1> SUFFICES ASSUME Init PROVE IInv
  OBVIOUS
<1>0. TaskNum \in Nat /\ TaskNum >= 2 /\ {"ready", "lock", "waiter"} \subseteq Lists /\ NoList \notin Lists
  BY KeyboardAssumption, SchedAssumption DEF NoList
<1> DEFINE ready == [i \in 1 .. TaskNum - 1 |-> i]
<1>1. ready \in Seq(Pid) /\ Len(ready) = TaskNum - 1 /\ \A i \in 1 .. TaskNum - 1 : ready[i] = i
  <2>1. \A i \in 1 .. TaskNum - 1 : i \in Pid
    BY <1>0 DEF Pid
  <2> QED BY <1>0, <2>1
<1> HIDE DEF ready
<1>2. /\ k.state = [p \in Pid |-> IF p = Idle THEN "RUNNING" ELSE "READY"]
      /\ k.container = [p \in Pid |-> IF p = Idle THEN NoList ELSE "ready"]
      /\ k.list = [l \in Lists |-> IF l = "ready" THEN ready ELSE <<>>]
      /\ k.running = Idle /\ k.stop = "no"
  BY DEF Init, ready
<1>3. Idle \in Pid /\ Idle = 0
  BY ListNames DEF Idle
<1>4. k \in KernelState
  <2>1. [p \in Pid |-> IF p = Idle THEN "RUNNING" ELSE "READY"] \in [Pid -> TaskState]
    BY DEF TaskState
  <2>2. [p \in Pid |-> IF p = Idle THEN NoList ELSE "ready"] \in [Pid -> Lists \cup {NoList}]
    BY <1>0
  <2>3. [l \in Lists |-> IF l = "ready" THEN ready ELSE <<>>] \in [Lists -> Seq(Pid)]
    BY <1>1
  <2>4. /\ [p \in Pid |-> 0] \in [Pid -> Pid] /\ [p \in Pid |-> 0] \in [Pid -> Pid \cup {AnyChild}]
        /\ [p \in Pid |-> 0] \in [Pid -> Nat] /\ [p \in Pid |-> 1] \in [Pid -> Nat \ {0}]
        /\ 0 \in Nat /\ "no" \in StopReason
    BY <1>3 DEF StopReason
  <2>5. k = [state |-> [p \in Pid |-> IF p = Idle THEN "RUNNING" ELSE "READY"],
             container |-> [p \in Pid |-> IF p = Idle THEN NoList ELSE "ready"],
             list |-> [l \in Lists |-> IF l = "ready" THEN ready ELSE <<>>],
             running |-> Idle,
             ppid |-> [p \in Pid |-> 0], waitpid |-> [p \in Pid |-> 0],
             priority |-> [p \in Pid |-> 1], ticks |-> [p \in Pid |-> 1],
             value |-> [p \in Pid |-> 0],
             jiffies |-> 0, stop |-> "no"]
    BY DEF Init, ready
  <2> QED BY <1>3, <2>1, <2>2, <2>3, <2>4, <2>5 DEF KernelState
<1>5. WellLinked(k)
  <2>1. \A l \in Lists \ {"ready"} : k.list[l] = <<>>
    BY <1>2
  <2>2. k.list["ready"] = ready
    BY <1>0, <1>2
  <2>3. \A i \in 1 .. TaskNum - 1 : i \in Pid /\ i # Idle /\ k.container[i] = "ready"
    BY <1>0, <1>2, <1>3 DEF Pid
  <2>4. \A p \in Pid : k.container[p] # NoList => k.container[p] = "ready" /\ p \in 1 .. TaskNum - 1
    BY <1>0, <1>2, <1>3 DEF Pid
  <2>5. \A l \in Lists : \A i \in 1 .. Len(k.list[l]) : k.container[k.list[l][i]] = l
    BY <1>1, <2>1, <2>2, <2>3
  <2>6. \A l \in Lists : \A i, j \in 1 .. Len(k.list[l]) : k.list[l][i] = k.list[l][j] => i = j
    BY <1>1, <2>1, <2>2
  <2>7. \A p \in Pid : k.container[p] # NoList =>
          \E i \in 1 .. Len(k.list[k.container[p]]) : k.list[k.container[p]][i] = p
    BY <1>1, <2>2, <2>4
  <2> QED BY <2>5, <2>6, <2>7 DEF WellLinked
<1>6. Placed(k)
  BY <1>0, <1>2, <1>3, <1>4, <1>5 DEF Placed, KernelOK
<1>7. pc = [p \in Pid |-> "run"] /\ value = TRUE /\ typed = 0
      /\ todo = [p \in Pid |-> 0] /\ buf = [p \in Pid |-> <<>>]
  BY DEF Init
<1>8. Waiting /\ Woken
  BY <1>0, <1>2, <1>3, <1>7, ListNames DEF Waiting, Woken, NoList
<1>9. Owners = {}
  BY <1>7, ListNames DEF Owners
<1>10. MutualExclusion
  BY <1>7, <1>9 DEF MutualExclusion
<1>11. k.list["waiter"] = <<>>
  BY <1>0, <1>2
<1>12. NoLostKey /\ PopSafe
  BY <1>2, <1>11 DEF NoLostKey, PopSafe
<1>13. Data
  BY <1>7 DEF Data
<1>14. Ring(key_buf)
  <2>1. key_buf = [head |-> 0, tail |-> 1, que |-> [i \in Index |-> 0]]
    BY DEF Init, Index
  <2>2. 0 \in Index /\ 1 \in Index /\ [i \in Index |-> 0] \in [Index -> Nat]
    BY KeyboardAssumption DEF Index
  <2> QED BY <2>1, <2>2 DEF Ring
<1> QED BY <1>6, <1>8, <1>10, <1>12, <1>13, <1>14 DEF IInv

\* Every step keeps the invariant.
LEMMA NextHolds == IInv /\ [Next]_vars => IInv'
<1> SUFFICES ASSUME IInv, [Next]_vars PROVE IInv'
  OBVIOUS
<1>1. CASE Read
  BY <1>1, ReadKeeps
<1>2. CASE LockResume \/ KeysResume
  BY <1>2, ResumeKeeps
<1>3. CASE KeyInt
  BY <1>3, KeyIntKeeps
<1>4. CASE ClockTick
  <2>1. Placed(k') /\ SameWaiting(k, k')
    BY <1>4, ClockKeeps DEF ClockTick, IInv
  <2> QED BY <1>4, <2>1, QuietKeeps DEF ClockTick
<1>5. CASE Halted \/ UNCHANGED vars
  <2>1. UNCHANGED <<k, pc, value, key_buf, todo, buf, typed>>
    BY <1>5 DEF Halted, vars
  <2>2. Placed(k') /\ SameWaiting(k, k')
    BY <2>1 DEF IInv, SameWaiting
  <2> QED BY <2>1, <2>2, QuietKeeps
<1> QED BY <1>1, <1>2, <1>3, <1>4, <1>5 DEF Next

\* The invariant holds in every state of keyboard_read and its interrupts.
THEOREM KeyboardSafe == Spec => []IInv
<1>1. Init => IInv
  BY InitHolds
<1>2. IInv /\ [Next]_vars => IInv'
  BY NextHolds
<1> QED BY <1>1, <1>2, PTL DEF Spec

\* mutex_lock and mutex_unlock: one reader at most owns the mutex, over blocking,
\* waking and the hand-over to the next, and it is free just when nobody owns it.
THEOREM OneOwner == Spec => []MutualExclusion
<1>1. IInv => MutualExclusion
  BY DEF IInv
<1> QED BY <1>1, KeyboardSafe, PTL

\* keyboard_read and keyboard_hander: nobody sleeps on `waiter' beside a buffer that
\* holds a key.
THEOREM NoSleepBesideKeys == Spec => []NoLostKey
<1>1. IInv => NoLostKey
  BY DEF IInv
<1> QED BY <1>1, KeyboardSafe, PTL

\* que_pop after block() never meets an empty buffer: the only assertion that fails
\* is the one of a key typed into a full one.
THEOREM NeverPopsEmpty == Spec => []PopSafe
<1>1. IInv => PopSafe
  BY DEF IInv
<1> QED BY <1>1, KeyboardSafe, PTL

-----------------------------------------------------------------------------
(* The order of the waiters *)

\* block() puts the task before the others that wait.
LEMMA BlockOrder ==
  ASSUME NEW m, Placed(m), NEW p \in Pid, m.running = p, NEW l \in {"lock", "waiter"}
  PROVE  LET n == block(m, l, p, "BLOCKED")
         IN /\ n.list[l] = <<p>> \o m.list[l]
            /\ \A h \in Lists \ {"ready", l} : n.list[h] = m.list[h]
<1> DEFINE m1 == [m EXCEPT !.state[p] = "BLOCKED"]
           m2 == list_push(m1, l, p)
<1>0. /\ KernelOK(m) /\ m.container[p] = NoList /\ l \in Lists /\ l # "ready" /\ "BLOCKED" \in TaskState
  BY ListNames DEF Placed, TaskState
<1>1. KernelOK(m1) /\ m1.container = m.container /\ m1.list = m.list /\ m1.running = p
  BY <1>0, SetState
<1>2. block(m, l, p, "BLOCKED") = schedule(m2)
  BY <1>0, BlockIsPush
<1> HIDE DEF m1
<1>3. KernelOK(m2) /\ m2.running = p
  <2>1. m1.container[p] = NoList
    BY <1>0, <1>1
  <2>2. KernelOK(m2) /\ SameTasks(m1, m2)
    BY <1>0, <1>1, <2>1, ListPush
  <2> QED BY <1>1, <2>2 DEF SameTasks
<1>4. m2.list[l] = <<p>> \o m.list[l] /\ \A h \in Lists \ {l} : m2.list[h] = m.list[h]
  <2>1. m1.container[p] = NoList
    BY <1>0, <1>1
  <2>2. m2.list[l] = <<p>> \o m1.list[l]
    BY <1>0, <1>1, <2>1, PushOrder
  <2>3. \A h \in Lists \ {l} : m2.list[h] = m1.list[h]
    BY <1>0, <1>1, PushKeepsOrder
  <2> QED BY <1>1, <2>2, <2>3
<1> HIDE DEF m2
<1>5. \A h \in Lists \ {"ready"} : schedule(m2).list[h] = m2.list[h]
  BY <1>3, ScheduleKeepsOrder
<1> QED BY <1>0, <1>2, <1>4, <1>5

\* mutex_unlock hands over to the task that has waited longest.
LEMMA UnlockOrder ==
  ASSUME NEW m, KernelOK(m), m.list["lock"] # <<>>
  PROVE  LET p == Last(m.list["lock"])
         IN /\ p \in Pid /\ m.container[p] = "lock"
            /\ unblock(m, p).list["lock"] = Front(m.list["lock"])
<1> DEFINE s == m.list["lock"]
           p == Last(s)
           i == IndexIn(s, p)
<1>0. "lock" \in Lists /\ NoList # "lock" /\ m \in KernelState
  BY ListNames DEF KernelOK
<1>1. s \in Seq(Pid) /\ Len(s) \in Nat /\ Len(s) \in 1 .. Len(s) /\ p = s[Len(s)]
  BY <1>0, EmptySeq DEF KernelState, Last
<1>2. p \in Pid /\ m.container[p] = "lock"
  BY <1>0, <1>1 DEF KernelOK, WellLinked
<1>3. i = Len(s)
  <2>1. \A a, b \in 1 .. Len(s) : s[a] = s[b] => a = b
    BY <1>0 DEF KernelOK, WellLinked
  <2>2. i \in 1 .. Len(s) /\ s[i] = p
    BY <1>1 DEF IndexIn
  <2> QED BY <1>1, <2>1, <2>2
<1>4. remove_node(m, p).list["lock"] = RemoveAt(s, i)
  BY <1>0, <1>2 DEF remove_node, KernelState
<1>5. RemoveAt(s, i) = Front(s)
  <2>1. /\ RemoveAt(s, i) \in Seq(Pid) /\ Len(RemoveAt(s, i)) = Len(s) - 1
        /\ \A j \in 1 .. Len(s) - 1 : RemoveAt(s, i)[j] = IF j < i THEN s[j] ELSE s[j + 1]
    BY <1>1, <1>3, RemoveAtFacts
  <2>2. Front(s) \in Seq(Pid) /\ Len(Front(s)) = Len(s) - 1 /\ \A j \in 1 .. Len(s) - 1 : Front(s)[j] = s[j]
    BY <1>1 DEF Front
  <2>3. \A j \in 1 .. Len(s) - 1 : RemoveAt(s, i)[j] = Front(s)[j]
    BY <1>1, <1>3, <2>1, <2>2
  <2> QED BY <2>1, <2>2, <2>3, SeqEqual
<1>6. unblock(m, p).list["lock"] = remove_node(m, p).list["lock"]
  BY <1>0, <1>2, UnblockOrder
<1> QED BY <1>2, <1>4, <1>5, <1>6

\* The clock interrupt only switches tasks.
LEMMA ClockKeepsOrder ==
  ASSUME NEW m, Placed(m), NEW l \in Lists, l # "ready"
  PROVE  clock_handler(m).list[l] = m.list[l]
<1> DEFINE j == IF m.jiffies < MaxJiffies THEN m.jiffies + 1 ELSE m.jiffies
           m1 == [m EXCEPT !.jiffies = j]
           p == m.running
<1>0. KernelOK(m) /\ m \in KernelState /\ p \in Pid /\ p # NoTask /\ "sleep" \in Lists /\ j \in Nat
  <2>1. KernelOK(m) /\ m \in KernelState /\ p \in Pid /\ "sleep" \in Lists
    BY ListNames DEF Placed, KernelOK
  <2>2. p # NoTask
    BY <2>1, SchedAssumption DEF Pid, NoTask
  <2>3. m.jiffies \in Nat
    BY <2>1 DEF KernelState
  <2> QED BY <2>1, <2>2, <2>3
<1>1. KernelOK(m1) /\ m1.list = m.list /\ m1.running = p /\ m1.container = m.container
  BY <1>0, SetClock
<1>2. weakup(m1) = m1
  <2>1. \A q \in Pid : m.container[q] # "sleep"
    BY DEF Placed, NoList
  <2>2. m1.list["sleep"] = <<>>
    BY <1>0, <1>1, <2>1, HeadLinked
  <2> QED BY <2>2 DEF weakup
<1>3. clock_handler(m) = IF m.ticks[p] = 1 THEN schedule([m1 EXCEPT !.ticks[p] = m.priority[p]])
                         ELSE [m1 EXCEPT !.ticks[p] = @ - 1]
  BY <1>0, <1>2 DEF clock_handler
<1> HIDE DEF m1
<1>4. [m1 EXCEPT !.ticks[p] = @ - 1].list = m1.list
  BY <1>1 DEF KernelOK, KernelState
<1> DEFINE m2 == [m1 EXCEPT !.ticks[p] = m.priority[p]]
<1>5. KernelOK(m2) /\ m2.list = m1.list /\ m2.running = p
  <2>1. m.priority[p] \in Nat \ {0}
    BY <1>0 DEF KernelState
  <2>2. m2.list = m1.list
    BY <1>1 DEF KernelOK, KernelState
  <2> QED BY <1>0, <1>1, <2>1, <2>2, SetTicks
<1> HIDE DEF m2
<1>6. schedule(m2).list[l] = m2.list[l]
  BY <1>0, <1>5, ScheduleKeepsOrder
<1> QED BY <1>1, <1>3, <1>4, <1>5, <1>6 DEF m2
-----------------------------------------------------------------------------
(* What is in the ring *)

\* The place of the i-th byte.
Place(q, i) == (q.head + i) % KeyBufSize

\* The place, without the remainder.
LEMMA PlaceFacts ==
  ASSUME NEW q, Ring(q), NEW i \in 0 .. KeyBufSize
  PROVE  /\ Place(q, i) = IF q.head + i < KeyBufSize THEN q.head + i ELSE q.head + i - KeyBufSize
         /\ Place(q, i) \in Index
<1>1. KeyBufSize \in Nat /\ KeyBufSize >= 2 /\ q.head \in Index
  BY KeyboardAssumption DEF Ring
<1> DEFINE y == q.head + i
<1>2. y \in Int /\ 0 <= y /\ y < 2 * KeyBufSize
  BY <1>1 DEF Index
<1>3. Place(q, i) = y % KeyBufSize
  BY DEF Place
<1> HIDE DEF y
<1>4. CASE y < KeyBufSize
  <2>1. y % KeyBufSize = y
    BY <1>1, <1>2, <1>4, ModuloLow
  <2> QED BY <1>1, <1>2, <1>3, <1>4, <2>1 DEF y, Index
<1>5. CASE ~(y < KeyBufSize)
  <2>1. y % KeyBufSize = y - KeyBufSize
    BY <1>1, <1>2, <1>5, ModuloHigh
  <2> QED BY <1>1, <1>2, <1>3, <1>5, <2>1 DEF y, Index
<1> QED BY <1>4, <1>5

Bytes(q) == que_popped(q, que_len(q))

\* What n calls of que_pop return.
LEMMA BytesFacts ==
  ASSUME NEW q, Ring(q), NEW n \in 0 .. que_len(q)
  PROVE  /\ que_popped(q, n) \in Seq(Nat) /\ Len(que_popped(q, n)) = n
         /\ \A i \in 1 .. n : que_popped(q, n)[i] = q.que[Place(q, i)]
<1>1. que_len(q) \in Nat /\ que_len(q) <= KeyBufSize /\ KeyBufSize \in Nat /\ n \in Nat
  BY RingLength, KeyboardAssumption DEF Index
<1>2. \A i \in 1 .. n : i \in 0 .. KeyBufSize
  BY <1>1
<1>3. \A i \in 1 .. n : q.que[Place(q, i)] \in Nat
  BY <1>2, PlaceFacts DEF Ring
<1>4. que_popped(q, n) = [i \in 1 .. n |-> q.que[Place(q, i)]]
  BY DEF que_popped, Place
<1> QED BY <1>1, <1>3, <1>4

\* que_pop takes the oldest bytes.
LEMMA BytesPop ==
  ASSUME NEW q, Ring(q), NEW n \in 0 .. que_len(q)
  PROVE  /\ que_popped(q, n) = SubSeq(Bytes(q), 1, n)
         /\ Bytes(que_pop(q, n)) = SubSeq(Bytes(q), n + 1, Len(Bytes(q)))
<1> DEFINE L == que_len(q)
           r == que_pop(q, n)
<1>1. L \in Nat /\ L <= KeyBufSize - 1 /\ KeyBufSize \in Nat /\ KeyBufSize >= 2 /\ n \in Nat /\ n <= L
  BY RingLength, KeyboardAssumption DEF Index
<1>2. Bytes(q) \in Seq(Nat) /\ Len(Bytes(q)) = L /\ \A i \in 1 .. L : Bytes(q)[i] = q.que[Place(q, i)]
  <2>1. L \in 0 .. que_len(q)
    BY <1>1
  <2> QED BY <2>1, BytesFacts DEF Bytes
<1>3. que_popped(q, n) = SubSeq(Bytes(q), 1, n)
  <2>1. /\ que_popped(q, n) \in Seq(Nat) /\ Len(que_popped(q, n)) = n
        /\ \A i \in 1 .. n : que_popped(q, n)[i] = q.que[Place(q, i)]
    BY BytesFacts
  <2> HIDE DEF L
  <2>2. /\ SubSeq(Bytes(q), 1, n) \in Seq(Nat) /\ Len(SubSeq(Bytes(q), 1, n)) = n
        /\ \A i \in 1 .. n : SubSeq(Bytes(q), 1, n)[i] = Bytes(q)[i]
    BY <1>1, <1>2
  <2>3. \A i \in 1 .. n : que_popped(q, n)[i] = SubSeq(Bytes(q), 1, n)[i]
    <3>1. \A i \in 1 .. n : i \in 1 .. L
      BY <1>1
    <3> QED BY <1>2, <2>1, <2>2, <3>1
  <2> QED BY <2>1, <2>2, <2>3, SeqEqual
<1>4. Ring(r) /\ que_len(r) = L - n
  BY RingPop
<1>5. r.head = Place(q, n) /\ r.que = q.que
  <2>1. PICK a, b, c : q = [head |-> a, tail |-> b, que |-> c]
    BY DEF Ring
  <2> DEFINE h == (q.head + n) % KeyBufSize
  <2>2. r = [q EXCEPT !.head = h]
    BY <2>1 DEF que_pop
  <2>3. h = Place(q, n)
    BY DEF Place
  <2> HIDE DEF h, r
  <2> QED BY <2>1, <2>2, <2>3
<1> HIDE DEF r, L
<1>6. \A i \in 1 .. L - n : Place(r, i) = Place(q, n + i)
  <2> SUFFICES ASSUME NEW i \in 1 .. L - n PROVE Place(r, i) = Place(q, n + i)
    OBVIOUS
  <2>1. i \in 0 .. KeyBufSize /\ n + i \in 0 .. KeyBufSize /\ n \in 0 .. KeyBufSize
    BY <1>1
  <2>2. Place(r, i) = IF r.head + i < KeyBufSize THEN r.head + i ELSE r.head + i - KeyBufSize
    BY <1>4, <2>1, PlaceFacts
  <2>3. Place(q, n + i) = IF q.head + (n + i) < KeyBufSize THEN q.head + (n + i)
                          ELSE q.head + (n + i) - KeyBufSize
    BY <2>1, PlaceFacts
  <2>4. Place(q, n) = IF q.head + n < KeyBufSize THEN q.head + n ELSE q.head + n - KeyBufSize
    BY <2>1, PlaceFacts
  <2>5. q.head \in Index
    BY DEF Ring
  <2> QED BY <1>1, <1>5, <2>2, <2>3, <2>4, <2>5 DEF Index
<1>7. /\ Bytes(r) \in Seq(Nat) /\ Len(Bytes(r)) = L - n
      /\ \A i \in 1 .. L - n : Bytes(r)[i] = r.que[Place(r, i)]
  <2>1. L - n \in 0 .. que_len(r)
    BY <1>1, <1>4
  <2> QED BY <1>4, <2>1, BytesFacts DEF Bytes
<1>8. /\ SubSeq(Bytes(q), n + 1, L) \in Seq(Nat) /\ Len(SubSeq(Bytes(q), n + 1, L)) = L - n
      /\ \A i \in 1 .. L - n : SubSeq(Bytes(q), n + 1, L)[i] = Bytes(q)[n + i]
  BY <1>1, <1>2
<1>9. \A i \in 1 .. L - n : Bytes(r)[i] = SubSeq(Bytes(q), n + 1, L)[i]
  <2> SUFFICES ASSUME NEW i \in 1 .. L - n PROVE Bytes(r)[i] = Bytes(q)[n + i]
    BY <1>8
  <2>1. n + i \in 1 .. L
    BY <1>1
  <2>2. Bytes(q)[n + i] = q.que[Place(q, n + i)]
    BY <1>2, <2>1
  <2> QED BY <1>5, <1>6, <1>7, <2>2
<1>10. Bytes(r) = SubSeq(Bytes(q), n + 1, L)
  BY <1>7, <1>8, <1>9, SeqEqual
<1> QED BY <1>2, <1>3, <1>10 DEF r

\* The tail from the head and the number of bytes.
LEMMA WrapOnce ==
  ASSUME NEW S \in Nat, NEW h \in Nat, NEW t \in Nat, NEW j \in Nat, h < S, t < S,
         t > h => j = t - h, ~(t > h) => j = t - h + S
  PROVE  (IF h + j < S THEN h + j ELSE h + j - S) = t
<1>1. CASE t > h
  BY <1>1
<1>2. CASE ~(t > h)
  BY <1>2
<1> QED BY <1>1, <1>2

\* que_push puts a byte behind the others.
LEMMA BytesPush ==
  ASSUME NEW q, Ring(q), ~que_isfull(q), NEW c \in Nat
  PROVE  Bytes(que_push(q, c)) = Append(Bytes(q), c)
<1> DEFINE L == que_len(q)
           r == que_push(q, c)
<1>1. L \in Nat /\ L < KeyBufSize - 1 /\ KeyBufSize \in Nat /\ KeyBufSize >= 2
      /\ L = IF q.tail > q.head THEN q.tail - q.head - 1 ELSE q.tail - q.head - 1 + KeyBufSize
  <2>1. /\ L \in Index /\ L # KeyBufSize - 1
        /\ L = IF q.tail > q.head THEN q.tail - q.head - 1 ELSE q.tail - q.head - 1 + KeyBufSize
    BY RingLength
  <2> HIDE DEF L
  <2> QED BY <2>1, KeyboardAssumption DEF Index
<1>2. q.head \in Index /\ q.tail \in Index /\ q.que \in [Index -> Nat] /\ q.head # q.tail
  BY DEF Ring, que_isfull
<1>3. Ring(r) /\ que_len(r) = L + 1
  BY RingPush
<1>4. r.head = q.head /\ r.que = [q.que EXCEPT ![q.tail] = c]
  <2>1. PICK a, b, d : q = [head |-> a, tail |-> b, que |-> d]
    BY DEF Ring
  <2> DEFINE t == (q.tail + 1) % KeyBufSize
  <2>2. r = [q EXCEPT !.que[q.tail] = c, !.tail = t]
    BY <2>1 DEF que_push
  <2> HIDE DEF t, r
  <2> QED BY <2>1, <2>2
<1> HIDE DEF r, L
<1>5. \A i \in 1 .. L + 1 : Place(r, i) = Place(q, i)
  BY <1>4 DEF Place
<1>6. Place(q, L + 1) = q.tail /\ \A i \in 1 .. L : Place(q, i) # q.tail /\ Place(q, i) \in Index
  <2>1. ASSUME NEW i \in 1 .. L + 1
        PROVE  /\ Place(q, i) = IF q.head + i < KeyBufSize THEN q.head + i ELSE q.head + i - KeyBufSize
               /\ Place(q, i) \in Index
    <3>1. i \in 0 .. KeyBufSize
      BY <1>1
    <3> QED BY <3>1, PlaceFacts
  <2>2. Place(q, L + 1) = q.tail
    <3> DEFINE j == L + 1
    <3>1. j \in 1 .. L + 1 /\ j \in Nat
      BY <1>1
    <3>2. q.tail > q.head => j = q.tail - q.head
      BY <1>1, <1>2 DEF Index
    <3>3. ~(q.tail > q.head) => j = q.tail - q.head + KeyBufSize
      BY <1>1, <1>2, SMTT(30) DEF Index
    <3> HIDE DEF j
    <3>4. Place(q, j) = IF q.head + j < KeyBufSize THEN q.head + j ELSE q.head + j - KeyBufSize
      BY <2>1, <3>1
    <3>5. Place(q, j) = q.tail
      <4>1. q.head \in Nat /\ q.tail \in Nat /\ q.head < KeyBufSize /\ q.tail < KeyBufSize
        BY <1>1, <1>2 DEF Index
      <4> QED BY <1>1, <3>1, <3>2, <3>3, <3>4, <4>1, WrapOnce
    <3> QED BY <3>5 DEF j
  <2>3. ASSUME NEW i \in 1 .. L
        PROVE  Place(q, i) # q.tail /\ Place(q, i) \in Index
    <3>1. i \in 1 .. L + 1
      BY <1>1
    <3>2. /\ Place(q, i) = IF q.head + i < KeyBufSize THEN q.head + i ELSE q.head + i - KeyBufSize
          /\ Place(q, i) \in Index
      BY <2>1, <3>1
    <3> QED BY <1>1, <1>2, <3>2, SMTT(30) DEF Index
  <2> QED BY <2>2, <2>3
<1>7. Bytes(q) \in Seq(Nat) /\ Len(Bytes(q)) = L /\ \A i \in 1 .. L : Bytes(q)[i] = q.que[Place(q, i)]
  <2>1. L \in 0 .. que_len(q)
    BY <1>1 DEF L
  <2> QED BY <2>1, BytesFacts DEF Bytes, L
<1>8. /\ Bytes(r) \in Seq(Nat) /\ Len(Bytes(r)) = L + 1
      /\ \A i \in 1 .. L + 1 : Bytes(r)[i] = r.que[Place(r, i)]
  <2>1. L + 1 \in 0 .. que_len(r)
    BY <1>1, <1>3
  <2> QED BY <1>3, <2>1, BytesFacts DEF Bytes
<1>9. /\ Append(Bytes(q), c) \in Seq(Nat) /\ Len(Append(Bytes(q), c)) = L + 1
      /\ Append(Bytes(q), c)[L + 1] = c /\ \A i \in 1 .. L : Append(Bytes(q), c)[i] = Bytes(q)[i]
  BY <1>1, <1>7
<1>10. \A i \in 1 .. L + 1 : Bytes(r)[i] = Append(Bytes(q), c)[i]
  <2> SUFFICES ASSUME NEW i \in 1 .. L + 1 PROVE Bytes(r)[i] = Append(Bytes(q), c)[i]
    OBVIOUS
  <2>1. Bytes(r)[i] = [q.que EXCEPT ![q.tail] = c][Place(q, i)]
    BY <1>4, <1>5, <1>8
  <2>2. CASE i = L + 1
    BY <1>2, <1>6, <1>9, <2>1, <2>2
  <2>3. CASE i # L + 1
    <3>1. i \in 1 .. L
      BY <1>1, <2>3
    <3> QED BY <1>2, <1>6, <1>7, <1>9, <2>1, <3>1
  <2> QED BY <2>2, <2>3
<1>11. Bytes(r) = Append(Bytes(q), c)
  BY <1>8, <1>9, <1>10, SeqEqual
<1> QED BY <1>11 DEF r

-----------------------------------------------------------------------------
(* The reads that are not complete, in the order they are served *)

Pairs(line, t) == [i \in 1 .. Len(line) |-> <<line[i], t[line[i]]>>]

\* One pair for each task in the line.
LEMMA PairsFacts ==
  ASSUME NEW line \in Seq(Pid), NEW t \in [Pid -> Nat]
  PROVE  /\ Pairs(line, t) \in Seq(Pid \X Nat) /\ Len(Pairs(line, t)) = Len(line)
         /\ \A i \in 1 .. Len(line) : line[i] \in Pid /\ Pairs(line, t)[i] = <<line[i], t[line[i]]>>
<1>1. Len(line) \in Nat /\ \A i \in 1 .. Len(line) : line[i] \in Pid
  OBVIOUS
<1>2. \A i \in 1 .. Len(line) : <<line[i], t[line[i]]>> \in Pid \X Nat
  BY <1>1
<1> QED BY <1>1, <1>2 DEF Pairs

\* A read at the end of the line.
LEMMA PairsAppend ==
  ASSUME NEW line \in Seq(Pid), NEW t \in [Pid -> Nat], NEW p \in Pid, NEW c \in Nat,
         \A i \in 1 .. Len(line) : line[i] # p
  PROVE  Pairs(Append(line, p), [t EXCEPT ![p] = c]) = Append(Pairs(line, t), <<p, c>>)
<1> DEFINE u == [t EXCEPT ![p] = c]
           a == Pairs(Append(line, p), u)
           b == Append(Pairs(line, t), <<p, c>>)
           n == Len(line)
<1>1. u \in [Pid -> Nat] /\ u[p] = c /\ \A q \in Pid \ {p} : u[q] = t[q]
  OBVIOUS
<1>2. /\ Append(line, p) \in Seq(Pid) /\ Len(Append(line, p)) = n + 1 /\ n \in Nat
      /\ Append(line, p)[n + 1] = p /\ \A i \in 1 .. n : Append(line, p)[i] = line[i] /\ line[i] \in Pid
  OBVIOUS
<1> HIDE DEF u
<1>3. /\ a \in Seq(Pid \X Nat) /\ Len(a) = n + 1
      /\ \A i \in 1 .. n + 1 : a[i] = <<Append(line, p)[i], u[Append(line, p)[i]]>>
  BY <1>1, <1>2, PairsFacts, ZenonT(40)
<1>4. /\ Pairs(line, t) \in Seq(Pid \X Nat) /\ Len(Pairs(line, t)) = n
      /\ \A i \in 1 .. n : Pairs(line, t)[i] = <<line[i], t[line[i]]>>
  BY PairsFacts
<1>5. /\ b \in Seq(Pid \X Nat) /\ Len(b) = n + 1
      /\ b[n + 1] = <<p, c>> /\ \A i \in 1 .. n : b[i] = Pairs(line, t)[i]
  <2>1. <<p, c>> \in Pid \X Nat
    OBVIOUS
  <2> QED BY <1>2, <1>4, <2>1
<1> HIDE DEF a, b, n
<1>6. \A i \in 1 .. n + 1 : a[i] = b[i]
  <2> SUFFICES ASSUME NEW i \in 1 .. n + 1 PROVE a[i] = b[i]
    OBVIOUS
  <2>1. CASE i = n + 1
    BY <1>1, <1>2, <1>3, <1>5, <2>1
  <2>2. CASE i # n + 1
    <3>1. i \in 1 .. n
      BY <1>2, <2>2
    <3>2. line[i] \in Pid /\ line[i] # p /\ Append(line, p)[i] = line[i]
      BY <1>2, <3>1 DEF n
    <3>3. i \in 1 .. n + 1
      OBVIOUS
    <3>4. a[i] = <<line[i], u[line[i]]>> /\ u[line[i]] = t[line[i]]
      BY <1>1, <1>3, <3>2, <3>3
    <3>5. b[i] = <<line[i], t[line[i]]>>
      BY <1>4, <1>5, <3>1
    <3> QED BY <3>4, <3>5
  <2> QED BY <2>1, <2>2
<1>7. a = b
  BY <1>3, <1>5, <1>6, SeqEqual
<1> QED BY <1>7 DEF a, b, u

\* The read at the head of the line.
LEMMA PairsCons ==
  ASSUME NEW rest \in Seq(Pid), NEW t \in [Pid -> Nat], NEW p \in Pid
  PROVE  Pairs(<<p>> \o rest, t) = <<<<p, t[p]>>>> \o Pairs(rest, t)
<1> DEFINE line == <<p>> \o rest
           a == Pairs(line, t)
           r == Pairs(rest, t)
           b == <<<<p, t[p]>>>> \o r
           n == Len(rest)
<1>1. line \in Seq(Pid) /\ Len(line) = n + 1 /\ n \in Nat /\ line[1] = p /\ \A i \in 1 .. n : line[i + 1] = rest[i]
  OBVIOUS
<1> HIDE DEF line
<1>2. a \in Seq(Pid \X Nat) /\ Len(a) = n + 1 /\ \A i \in 1 .. n + 1 : a[i] = <<line[i], t[line[i]]>>
  BY <1>1, PairsFacts
<1>3. r \in Seq(Pid \X Nat) /\ Len(r) = n /\ \A i \in 1 .. n : r[i] = <<rest[i], t[rest[i]]>>
  BY PairsFacts
<1> HIDE DEF a, r
<1>4. b \in Seq(Pid \X Nat) /\ Len(b) = n + 1 /\ b[1] = <<p, t[p]>> /\ \A i \in 1 .. n : b[i + 1] = r[i]
  <2>1. <<p, t[p]>> \in Pid \X Nat
    OBVIOUS
  <2> QED BY <1>1, <1>3, <2>1
<1> HIDE DEF b, n
<1>5. \A i \in 1 .. n + 1 : a[i] = b[i]
  <2> SUFFICES ASSUME NEW i \in 1 .. n + 1 PROVE a[i] = b[i]
    OBVIOUS
  <2>1. CASE i = 1
    BY <1>1, <1>2, <1>4, <2>1
  <2>2. CASE i # 1
    <3>1. PICK j \in 1 .. n : i = j + 1
      <4>1. i - 1 \in 1 .. n /\ i = (i - 1) + 1
        BY <1>1, <2>2
      <4> QED BY <4>1
    <3>2. a[i] = <<line[i], t[line[i]]>> /\ line[i] = rest[j] /\ b[i] = r[j] /\ r[j] = <<rest[j], t[rest[j]]>>
      BY <1>1, <1>2, <1>3, <1>4, <3>1
    <3> QED BY <3>2
  <2> QED BY <2>1, <2>2
<1>6. a = b
  BY <1>2, <1>4, <1>5, SeqEqual
<1> QED BY <1>6 DEF a, b, r, line

\* What others have still to read does not count.
LEMMA PairsSame ==
  ASSUME NEW line \in Seq(Pid), NEW t \in [Pid -> Nat], NEW p \in Pid, NEW c \in Nat,
         \A i \in 1 .. Len(line) : line[i] # p
  PROVE  Pairs(line, [t EXCEPT ![p] = c]) = Pairs(line, t)
<1> DEFINE u == [t EXCEPT ![p] = c]
<1>1. \A i \in 1 .. Len(line) : line[i] \in Pid /\ u[line[i]] = t[line[i]]
  OBVIOUS
<1> HIDE DEF u
<1>2. Pairs(line, u) = Pairs(line, t)
  BY <1>1 DEF Pairs
<1> QED BY <1>2 DEF u

-----------------------------------------------------------------------------
(* Each step of the keyboard is a step of the stream *)

\* The reads that wait for the mutex.
Rest == Pairs(Reverse(k.list["lock"]), todo)

\* The owner of the mutex, if there is one, comes before those who wait for it.
LEMMA LineFacts ==
  ASSUME NEW s \in Seq(Pid), NEW t \in [Pid -> Nat]
  PROVE  /\ Pairs(SetToSeq({}) \o Reverse(s), t) = Pairs(Reverse(s), t)
         /\ \A p \in Pid : Pairs(SetToSeq({p}) \o Reverse(s), t) = <<<<p, t[p]>>>> \o Pairs(Reverse(s), t)
<1>1. Reverse(s) \in Seq(Pid)
  BY ReverseFacts
<1>2. <<>> \o Reverse(s) = Reverse(s)
  BY <1>1, ConcatEmptySeq
<1>3. Pairs(SetToSeq({}) \o Reverse(s), t) = Pairs(Reverse(s), t)
  BY <1>2, SetToSeqSmall
<1>4. ASSUME NEW p \in Pid
      PROVE  Pairs(SetToSeq({p}) \o Reverse(s), t) = <<<<p, t[p]>>>> \o Pairs(Reverse(s), t)
  <2>1. Pairs(<<p>> \o Reverse(s), t) = <<<<p, t[p]>>>> \o Pairs(Reverse(s), t)
    BY <1>1, PairsCons
  <2> QED BY <2>1, SetToSeqSmall
<1> QED BY <1>3, <1>4

\* The mapping, before and after a step.
LEMMA RequestsAre ==
  /\ Requests = Pairs(SetToSeq(Owners) \o Reverse(k.list["lock"]), todo)
  /\ Requests' = Pairs(SetToSeq(Owners') \o Reverse(k'.list["lock"]), todo')
  /\ Contents = Bytes(key_buf) /\ Contents' = Bytes(key_buf')
BY DEF Requests, Pairs, Contents, Bytes

\* Who runs does not wait for the mutex.
LEMMA RunnerNotInLine ==
  ASSUME IInv, NEW p \in Pid, k.container[p] # "lock"
  PROVE  /\ k.list["lock"] \in Seq(Pid) /\ Reverse(k.list["lock"]) \in Seq(Pid) /\ todo \in [Pid -> Nat]
         /\ \A i \in 1 .. Len(Reverse(k.list["lock"])) : Reverse(k.list["lock"])[i] # p
         /\ \A c \in Nat : Pairs(Reverse(k.list["lock"]), [todo EXCEPT ![p] = c]) = Rest
<1> DEFINE s == k.list["lock"]
<1>1. s \in Seq(Pid) /\ \A i \in 1 .. Len(s) : k.container[s[i]] = "lock"
  BY ListNames DEF IInv, Placed, KernelOK, KernelState, WellLinked
<1> HIDE DEF s
<1>2. /\ Reverse(s) \in Seq(Pid) /\ Len(Reverse(s)) = Len(s)
      /\ \A i \in 1 .. Len(s) : Len(s) - i + 1 \in 1 .. Len(s) /\ Reverse(s)[i] = s[Len(s) - i + 1]
  BY <1>1, ReverseFacts
<1>3. \A i \in 1 .. Len(Reverse(s)) : Reverse(s)[i] # p
  <2> SUFFICES ASSUME NEW i \in 1 .. Len(s) PROVE Reverse(s)[i] # p
    BY <1>2
  <2> DEFINE j == Len(s) - i + 1
  <2>1. j \in 1 .. Len(s) /\ Reverse(s)[i] = s[j]
    BY <1>2
  <2> HIDE DEF j
  <2>2. k.container[s[j]] = "lock"
    BY <1>1, <2>1
  <2> QED BY <2>1, <2>2
<1>4. todo \in [Pid -> Nat]
  BY DEF IInv, Data
<1>5. \A c \in Nat : Pairs(Reverse(s), [todo EXCEPT ![p] = c]) = Pairs(Reverse(s), todo)
  BY <1>2, <1>3, <1>4, PairsSame
<1> QED BY <1>1, <1>2, <1>3, <1>4, <1>5 DEF s, Rest

\* The end of a read: the mutex goes to the first in the line.
LEMMA EndPasses ==
  ASSUME IInv, NEW p \in Reader, k.running = p, Owners \subseteq {p},
         k' = mutex_unlock(k), pc' = [pc EXCEPT ![p] = "run"], todo' = [todo EXCEPT ![p] = 0]
  PROVE  Requests' = Rest
<1> DEFINE s == k.list["lock"]
<1>0. /\ p \in Pid /\ k.container[p] = NoList /\ NoList # "lock" /\ KernelOK(k) /\ Placed(k)
      /\ pc \in [Pid -> {"run", "lock", "keys"}] /\ Reader \subseteq Pid
  BY IdleReady, ListNames DEF IInv, Placed, Waiting, NoList
<1>1. s \in Seq(Pid) /\ todo \in [Pid -> Nat] /\ Pairs(Reverse(s), todo') = Rest /\ todo' \in [Pid -> Nat]
  <2>1. 0 \in Nat
    OBVIOUS
  <2> QED BY <1>0, <2>1, RunnerNotInLine
<1>2. CASE s = <<>>
  <2>1. k' = k
    BY <1>2 DEF mutex_unlock
  <2>2. Owners' = {}
    BY <1>0, <2>1 DEF Owners
  <2>3. Requests' = Pairs(SetToSeq({}) \o Reverse(s), todo')
    BY <2>1, <2>2, RequestsAre
  <2> QED BY <1>1, <2>3, LineFacts
<1>3. CASE s # <<>>
  <2> DEFINE q == Last(s)
  <2>1. k' = unblock(k, q)
    BY <1>3 DEF mutex_unlock
  <2>2. q \in Pid /\ k.container[q] = "lock" /\ unblock(k, q).list["lock"] = Front(s)
    BY <1>0, <1>3, UnlockOrder
  <2> HIDE DEF q
  <2>3. \A r \in Pid : k'.container[r] = IF r = q THEN "ready" ELSE k.container[r]
    BY <1>0, <2>1, <2>2, WakeKeeps
  <2>4. q # p /\ pc[q] = "lock" /\ q \in Reader
    BY <1>0, <2>2 DEF IInv, Waiting, Reader
  <2>5. Owners' = {q}
    BY <1>0, <2>2, <2>3, <2>4 DEF Owners
  <2>6. Requests' = Pairs(SetToSeq({q}) \o Reverse(Front(s)), todo')
    BY <2>1, <2>2, <2>5, RequestsAre
  <2>7. Front(s) \in Seq(Pid) /\ Reverse(s) = <<q>> \o Reverse(Front(s))
    BY <1>1, <1>3, ReverseLast DEF q
  <2>8. SetToSeq({q}) = <<q>>
    BY SetToSeqSmall
  <2> QED BY <1>1, <2>6, <2>7, <2>8
<1> QED BY <1>2, <1>3

\* A read that waits for keys stays first.
LEMMA SleepStaysFirst ==
  ASSUME IInv, NEW p \in Reader, k.running = p, Owners \subseteq {p}, NEW c \in Nat,
         k' = block(k, "waiter", p, "BLOCKED"), pc' = [pc EXCEPT ![p] = "keys"],
         todo' = [todo EXCEPT ![p] = c]
  PROVE  Requests' = <<<<p, c>>>> \o Rest
<1> DEFINE s == k.list["lock"]
<1>0. /\ p \in Pid /\ k.container[p] = NoList /\ NoList # "lock" /\ Placed(k) /\ Idle \in Pid
      /\ pc \in [Pid -> {"run", "lock", "keys"}] /\ Reader \subseteq Pid /\ k.container[Idle] = "ready"
      /\ "lock" \in Lists
  BY IdleReady, ListNames DEF IInv, Waiting, NoList
<1>1. s \in Seq(Pid) /\ todo \in [Pid -> Nat] /\ Pairs(Reverse(s), todo') = Rest /\ todo' \in [Pid -> Nat]
  BY <1>0, RunnerNotInLine
<1>2. \A q \in Pid \ {p} : k'.container[q] = "lock" <=> k.container[q] = "lock"
  BY <1>0, BlockKeeps
<1>3. k'.list["lock"] = s
  <2>1. "lock" \in Lists \ {"ready", "waiter"} /\ "waiter" \in {"lock", "waiter"}
    BY <1>0
  <2>2. \A h \in Lists \ {"ready", "waiter"} : block(k, "waiter", p, "BLOCKED").list[h] = k.list[h]
    BY <1>0, <2>1, BlockOrder
  <2> QED BY <2>1, <2>2
<1>4. Owners' = {p}
  BY <1>0, <1>2 DEF Owners
<1>5. Requests' = Pairs(SetToSeq({p}) \o Reverse(s), todo')
  BY <1>3, <1>4, RequestsAre
<1>6. Requests' = <<<<p, todo'[p]>>>> \o Pairs(Reverse(s), todo')
  BY <1>0, <1>1, <1>5, LineFacts
<1>7. todo'[p] = c
  BY <1>0, <1>1
<1> QED BY <1>1, <1>6, <1>7

\* The loop of keyboard_read.
LEMMA LoopTakes ==
  ASSUME IInv, NEW p \in Reader, k.running = p, Owners \subseteq {p},
         NEW want \in Nat, NEW has \in Seq(Nat), ReadLoop(p, want, has)
  PROVE  \E n \in 0 .. want : Stream!Take(p, want, has, n, Rest)
<1> DEFINE n == Min2(want, que_len(key_buf))
<1>0. Ring(key_buf) /\ buf \in [Pid -> Seq(Nat)] /\ p \in Pid /\ Reader \subseteq Pid
  BY ListNames DEF IInv, Data
<1>1. n \in 0 .. que_len(key_buf) /\ n \in Nat /\ want - n \in Nat
  BY <1>0, Takes
<1>2. /\ key_buf' = que_pop(key_buf, n)
      /\ buf' = [buf EXCEPT ![p] = has \o que_popped(key_buf, n)]
      /\ todo' = [todo EXCEPT ![p] = want - n]
      /\ IF n = want
         THEN /\ k' = mutex_unlock(k)
              /\ value' = (k.list["lock"] = <<>>)
              /\ pc' = [pc EXCEPT ![p] = "run"]
         ELSE /\ k' = block(k, "waiter", p, "BLOCKED")
              /\ value' = FALSE
              /\ pc' = [pc EXCEPT ![p] = "keys"]
  BY DEF ReadLoop
<1> HIDE DEF n
<1>3. n \in 0 .. want /\ n <= Len(Contents)
  <2>1. que_len(key_buf) \in Nat /\ que_len(key_buf) \in 0 .. que_len(key_buf)
    BY <1>0, RingLength, KeyboardAssumption DEF Index
  <2>2. Len(Contents) = que_len(key_buf)
    BY <1>0, <2>1, BytesFacts, RequestsAre DEF Bytes
  <2> QED BY <1>1, <2>1, <2>2
<1>4. /\ que_popped(key_buf, n) = SubSeq(Contents, 1, n)
      /\ Contents' = SubSeq(Contents, n + 1, Len(Contents))
  BY <1>0, <1>1, <1>2, BytesPop, RequestsAre
<1>5. [q \in Reader |-> buf'[q]] = [[q \in Reader |-> buf[q]] EXCEPT ![p] = has \o SubSeq(Contents, 1, n)]
  BY <1>0, <1>2, <1>4
<1>6. Requests' = IF n = want THEN Rest ELSE <<<<p, want - n>>>> \o Rest
  <2>1. CASE n = want
    <3>1. want - n = 0
      BY <2>1
    <3> QED BY <1>2, <2>1, <3>1, EndPasses
  <2>2. CASE n # want
    BY <1>1, <1>2, <2>2, SleepStaysFirst
  <2> QED BY <2>1, <2>2
<1>7. Stream!Take(p, want, has, n, Rest)
  BY <1>3, <1>4, <1>5, <1>6 DEF Stream!Take
<1> QED BY <1>3, <1>7
\* Nobody has read anything before he has the mutex.
Fresh == \A p \in Reader : pc[p] = "lock" => buf[p] = <<>>

\* mutex_lock with another owner: the read joins the end of the line.
LEMMA WaitJoins ==
  ASSUME IInv, NEW p \in Reader, k.running = p, pc[p] = "run", NEW c \in Counts, ~CanLock,
         k' = block(k, "lock", p, "BLOCKED"), pc' = [pc EXCEPT ![p] = "lock"],
         todo' = [todo EXCEPT ![p] = c], buf' = [buf EXCEPT ![p] = <<>>],
         UNCHANGED <<value, key_buf>>
  PROVE  Stream!Request
<1> DEFINE s == k.list["lock"]
           line == SetToSeq(Owners) \o Reverse(s)
<1>0. /\ p \in Pid /\ k.container[p] = NoList /\ NoList # "lock" /\ Placed(k) /\ Idle \in Pid
      /\ pc \in [Pid -> {"run", "lock", "keys"}] /\ Reader \subseteq Pid /\ k.container[Idle] = "ready"
      /\ buf \in [Pid -> Seq(Nat)] /\ c \in Nat
  BY IdleReady, ListNames, KeyboardAssumption DEF IInv, Waiting, NoList, Data
<1>1. /\ s \in Seq(Pid) /\ Reverse(s) \in Seq(Pid) /\ todo \in [Pid -> Nat]
      /\ \A i \in 1 .. Len(Reverse(s)) : Reverse(s)[i] # p
  BY <1>0, RunnerNotInLine
<1>2. p \notin Owners /\ (Owners = {} \/ \E q \in Reader : Owners = {q})
  <2>1. \A a, b \in Owners : a = b
    BY DEF IInv, MutualExclusion
  <2>2. Owners \subseteq Reader /\ p \notin Owners
    BY DEF Owners
  <2> QED BY <2>1, <2>2
<1>3. Owners' = Owners /\ k'.list["lock"] = <<p>> \o s
  <2>1. /\ k'.container[p] = "lock"
        /\ \A q \in Pid \ {p} : k'.container[q] = "lock" <=> k.container[q] = "lock"
    BY <1>0, BlockKeeps
  <2>2. k'.list["lock"] = <<p>> \o s
    <3>1. "lock" \in {"lock", "waiter"}
      OBVIOUS
    <3> QED BY <1>0, <3>1, BlockOrder
  <2>3. Owners' = Owners
    BY <1>0, <1>2, <2>1 DEF Owners
  <2> QED BY <2>2, <2>3
<1> DEFINE o == SetToSeq(Owners)
<1>4. /\ o \in Seq(Pid) /\ \A i \in 1 .. Len(o) : o[i] # p
      /\ Owners # {} => o # <<>>
  <2>1. CASE Owners = {}
    <3>1. o = <<>>
      BY <2>1, SetToSeqSmall
    <3> HIDE DEF o
    <3> QED BY <2>1, <3>1
  <2>2. CASE Owners # {}
    <3>1. PICK q \in Reader : Owners = {q}
      BY <1>2, <2>2
    <3>2. o = <<q>> /\ q # p /\ q \in Pid
      BY <1>0, <1>2, <3>1, SetToSeqSmall
    <3> HIDE DEF o
    <3> QED BY <3>2
  <2> QED BY <2>1, <2>2
<1> DEFINE r == Reverse(s)
<1>5. Reverse(k'.list["lock"]) = Append(r, p)
  BY <1>0, <1>1, <1>3, ReversePush
<1> HIDE DEF s
<1>6. Requests = Pairs(o \o r, todo) /\ Requests' = Pairs(o \o Append(r, p), todo')
  BY <1>3, <1>5, RequestsAre DEF s
<1> HIDE DEF o, r
<1>7. o \in Seq(Pid) /\ r \in Seq(Pid)
  BY <1>1, <1>4 DEF o, r
<1>8. /\ o \o r \in Seq(Pid) /\ o \o Append(r, p) = Append(o \o r, p)
      /\ \A i \in 1 .. Len(o \o r) : (o \o r)[i] # p
  <2>1. o \o r \in Seq(Pid) /\ Len(o \o r) = Len(o) + Len(r)
        /\ \A i \in 1 .. Len(o) + Len(r) : (o \o r)[i] = IF i <= Len(o) THEN o[i] ELSE r[i - Len(o)]
    BY <1>7, ConcatProperties
  <2>2. \A i \in 1 .. Len(o \o r) : (o \o r)[i] # p
    <3> SUFFICES ASSUME NEW i \in 1 .. Len(o) + Len(r) PROVE (o \o r)[i] # p
      BY <2>1
    <3>1. CASE i <= Len(o)
      <4>1. i \in 1 .. Len(o)
        BY <1>7, <3>1
      <4> QED BY <1>4, <2>1, <3>1, <4>1 DEF o
    <3>2. CASE ~(i <= Len(o))
      <4>1. i - Len(o) \in 1 .. Len(r)
        BY <1>7, <3>2
      <4> QED BY <1>1, <2>1, <3>2, <4>1 DEF r
    <3> QED BY <3>1, <3>2
  <2>3. Append(r, p) = r \o <<p>> /\ Append(o \o r, p) = (o \o r) \o <<p>> /\ <<p>> \in Seq(Pid)
    BY <1>0, <1>7, <2>1, AppendIsConcat
  <2>4. (o \o r) \o <<p>> = o \o (r \o <<p>>)
    BY <1>7, <2>3, ConcatAssociative
  <2> QED BY <2>1, <2>2, <2>3, <2>4
<1> DEFINE l == o \o r
<1>9. l \in Seq(Pid) /\ \A i \in 1 .. Len(l) : l[i] # p
  BY <1>8
<1>10. Requests = Pairs(l, todo) /\ Requests' = Pairs(Append(l, p), [todo EXCEPT ![p] = c])
  BY <1>6, <1>8
<1>11. l # <<>>
  <2>1. CASE Owners # {}
    <3>1. o # <<>>
      BY <1>4, <2>1 DEF o
    <3> QED BY <1>7, <3>1, ConcatEqualIffEmpty
  <2>2. CASE Owners = {}
    <3>1. value
      BY <2>2 DEF IInv, MutualExclusion
    <3>2. s # <<>>
      BY <3>1 DEF CanLock, s
    <3>3. Len(r) = Len(s) /\ Len(s) # 0
      BY <1>1, <3>2, ReverseFacts, EmptySeq DEF r
    <3>4. r # <<>>
      BY <1>1, <1>7, <3>3
    <3> QED BY <1>7, <3>4, ConcatEqualIffEmpty
  <2> QED BY <2>1, <2>2
<1> HIDE DEF l
<1>12. Requests' = Append(Requests, <<p, c>>)
  BY <1>0, <1>1, <1>9, <1>10, PairsAppend
<1>13. /\ Len(Requests) = Len(l)
       /\ \A i \in 1 .. Len(l) : l[i] \in Pid /\ Requests[i] = <<l[i], todo[l[i]]>>
  BY <1>1, <1>9, <1>10, PairsFacts
<1>14. Requests # <<>> /\ \A i \in 1 .. Len(Requests) : Requests[i][1] # p
  <2>1. Len(l) # 0
    BY <1>9, <1>11, EmptySeq
  <2>2. Requests # <<>>
    BY <1>13, <2>1
  <2> QED BY <1>9, <1>13, <2>2
<1>15. [q \in Reader |-> buf'[q]] = [[q \in Reader |-> buf[q]] EXCEPT ![p] = <<>>]
  BY <1>0
<1>16. Contents' = Contents
  BY RequestsAre
<1> QED BY <1>12, <1>14, <1>15, <1>16 DEF Stream!Request
\* A call of keyboard_read is a request of the stream.
LEMMA ReadMaps ==
  ASSUME IInv, Read
  PROVE  Stream!Request
<1>1. PICK p \in Reader, c \in Counts :
        /\ Runs(p)
        /\ IF CanLock
           THEN ReadLoop(p, c, <<>>)
           ELSE /\ k' = block(k, "lock", p, "BLOCKED")
                /\ pc' = [pc EXCEPT ![p] = "lock"]
                /\ todo' = [todo EXCEPT ![p] = c]
                /\ buf' = [buf EXCEPT ![p] = <<>>]
                /\ UNCHANGED <<value, key_buf>>
  BY DEF Read
<1>2. k.running = p /\ pc[p] = "run" /\ c \in Nat
  BY <1>1, KeyboardAssumption DEF Runs
<1>3. CASE ~CanLock
  BY <1>1, <1>2, <1>3, WaitJoins
<1>4. CASE CanLock
  <2>1. Owners = {} /\ k.list["lock"] = <<>>
    BY <1>4 DEF CanLock, IInv, MutualExclusion
  <2>2. <<>> \in Seq(Nat)
    OBVIOUS
  <2>3. ReadLoop(p, c, <<>>)
    BY <1>1, <1>4
  <2>4. PICK n \in 0 .. c : Stream!Take(p, c, <<>>, n, Rest)
    BY <1>2, <2>1, <2>2, <2>3, LoopTakes
  <2>5. todo \in [Pid -> Nat] /\ k.list["lock"] \in Seq(Pid)
    BY <2>1 DEF IInv, Data
  <2>6. Reverse(<<>>) = <<>>
    <3>1. <<>> \in Seq(Pid) /\ Len(<<>>) = 0
      OBVIOUS
    <3>2. Reverse(<<>>) \in Seq(Pid) /\ Len(Reverse(<<>>)) = 0
      BY <3>1, ReverseFacts
    <3> QED BY <3>2
  <2>7. Rest = <<>>
    <3>1. Rest = Pairs(<<>>, todo)
      BY <2>1, <2>6 DEF Rest
    <3>2. <<>> \in Seq(Pid) /\ Len(<<>>) = 0
      OBVIOUS
    <3>3. Rest \in Seq(Pid \X Nat) /\ Len(Rest) = 0
      BY <2>5, <3>1, <3>2, PairsFacts
    <3> QED BY <3>3
  <2>8. Requests = <<>>
    <3>1. Requests = Pairs(SetToSeq({}) \o Reverse(k.list["lock"]), todo)
      BY <2>1, RequestsAre
    <3> QED BY <2>5, <2>7, <3>1, LineFacts DEF Rest
  <2>9. \A i \in 1 .. Len(Requests) : Requests[i][1] # p
    BY <2>8
  <2> QED BY <2>4, <2>7, <2>8, <2>9 DEF Stream!Request, Stream!Take
<1> QED BY <1>3, <1>4

\* Who runs again inside keyboard_read is the oldest read.
LEMMA ResumeMaps ==
  ASSUME IInv, Fresh, LockResume \/ KeysResume
  PROVE  Stream!Serve
<1>1. PICK p \in Reader :
        /\ k.stop = "no" /\ k.running = p /\ pc[p] \in {"lock", "keys"}
        /\ ReadLoop(p, todo[p], buf[p])
  <2>1. CASE LockResume
    <3>1. PICK p \in Reader : k.stop = "no" /\ k.running = p /\ pc[p] = "lock" /\ ReadLoop(p, todo[p], <<>>)
      BY <2>1 DEF LockResume
    <3>2. buf[p] = <<>>
      BY <3>1 DEF Fresh
    <3> QED BY <3>1, <3>2
  <2>2. CASE KeysResume
    <3>1. PICK p \in Reader :
            /\ k.stop = "no" /\ k.running = p /\ pc[p] = "keys"
            /\ IF que_isempty(key_buf)
               THEN k' = Halt(k, "assert") /\ UNCHANGED <<pc, value, key_buf, todo, buf>>
               ELSE ReadLoop(p, todo[p], buf[p])
      BY <2>2 DEF KeysResume
    <3>2. k.container[p] = NoList
      BY <3>1, IdleReady
    <3>3. ~que_isempty(key_buf)
      BY <3>1, <3>2 DEF IInv, Woken, NoList
    <3> QED BY <3>1, <3>3
  <2> QED BY <2>1, <2>2
<1>2. /\ p \in Pid /\ k.container[p] = NoList /\ todo \in [Pid -> Nat] /\ buf \in [Pid -> Seq(Nat)]
      /\ k.list["lock"] \in Seq(Pid)
  <2>1. p \in Pid /\ k.container[p] = NoList /\ NoList # "lock"
    BY <1>1, IdleReady DEF NoList
  <2> QED BY <2>1, RunnerNotInLine DEF IInv, Data
<1>3. Owners = {p}
  <2>1. p \in Owners
    BY <1>1, <1>2 DEF Owners, NoList
  <2> QED BY <2>1 DEF IInv, MutualExclusion
<1>4. Requests = <<<<p, todo[p]>>>> \o Rest
  <2>1. Requests = Pairs(SetToSeq({p}) \o Reverse(k.list["lock"]), todo)
    BY <1>3, RequestsAre
  <2> QED BY <1>2, <2>1, LineFacts DEF Rest
<1>5. Requests # <<>> /\ Head(Requests) = <<p, todo[p]>> /\ Tail(Requests) = Rest
  <2>1. Reverse(k.list["lock"]) \in Seq(Pid)
    BY <1>2, ReverseFacts
  <2>2. Rest \in Seq(Pid \X Nat) /\ <<p, todo[p]>> \in Pid \X Nat
    BY <1>2, <2>1, PairsFacts DEF Rest
  <2> DEFINE e == <<p, todo[p]>>
  <2> HIDE DEF e
  <2>3. <<e>> \o Rest # <<>> /\ Head(<<e>> \o Rest) = e /\ Tail(<<e>> \o Rest) = Rest
    BY <2>2, HeadTailConcat DEF e
  <2> QED BY <1>4, <2>3 DEF e
<1>6. todo[p] \in Nat /\ buf[p] \in Seq(Nat)
  BY <1>2
<1>7. PICK n \in 0 .. todo[p] : Stream!Take(p, todo[p], buf[p], n, Rest)
  BY <1>1, <1>3, <1>6, LoopTakes
<1>8. [q \in Reader |-> buf[q]][p] = buf[p]
  OBVIOUS
<1> DEFINE want == Head(Requests)[2]
<1>9. Head(Requests)[1] = p /\ want = todo[p]
  BY <1>5
<1> QED BY <1>5, <1>7, <1>8, <1>9 DEF Stream!Serve, Stream!Take
\* A step that moves nobody who waits for the mutex and reads nothing.
LEMMA LineStays ==
  ASSUME k'.list["lock"] = k.list["lock"], UNCHANGED <<pc, todo>>,
         \A q \in Reader : k'.container[q] = "lock" <=> k.container[q] = "lock"
  PROVE  Requests' = Requests
<1>1. Owners' = Owners
  BY DEF Owners
<1> QED BY <1>1, RequestsAre

\* keyboard_hander puts a key at the end of the stream.
LEMMA KeyIntMaps ==
  ASSUME IInv, KeyInt
  PROVE  Stream!Type \/ UNCHANGED Stream!streamVars
<1>0. /\ "lock" \in Lists /\ "waiter" \in Lists /\ Reader \subseteq Pid /\ Placed(k) /\ KernelOK(k)
      /\ k \in KernelState
  BY ListNames DEF IInv, Placed, KernelOK
<1>1. CASE que_isfull(key_buf)
  <2>1. k' = Halt(k, "assert") /\ UNCHANGED <<pc, value, key_buf, todo, buf, typed>>
    BY <1>1 DEF KeyInt
  <2>2. k'.list = k.list /\ k'.container = k.container
    BY <1>0, <2>1 DEF Halt, KernelState
  <2>3. Requests' = Requests
    BY <2>1, <2>2, LineStays
  <2>4. Contents' = Contents
    BY <2>1, RequestsAre
  <2> QED BY <2>1, <2>3, <2>4 DEF Stream!streamVars
<1>2. CASE ~que_isfull(key_buf)
  <2>1. /\ key_buf' = que_push(key_buf, typed + 1) /\ typed < MaxTyped
        /\ k' = IF k.list["waiter"] = <<>> THEN k ELSE unblock(k, Head(k.list["waiter"]))
        /\ UNCHANGED <<pc, value, todo, buf>>
    BY <1>2 DEF KeyInt
  <2>2. typed + 1 \in Nat /\ typed + 1 \in 1 .. MaxTyped
    BY <2>1, KeyboardAssumption DEF IInv, Data
  <2>3. Contents' = Append(Contents, typed + 1)
    BY <1>2, <2>1, <2>2, BytesPush, RequestsAre DEF IInv
  <2>4. Requests' = Requests
    <3>1. CASE k.list["waiter"] = <<>>
      <4>1. k' = k
        BY <2>1, <3>1
      <4> QED BY <2>1, <4>1, LineStays
    <3>2. CASE k.list["waiter"] # <<>>
      <4> DEFINE o == Head(k.list["waiter"])
      <4>1. k' = unblock(k, o)
        BY <2>1, <3>2
      <4>2. o \in Pid /\ k.container[o] = "waiter"
        BY <1>0, <3>2, HeadLinked
      <4> HIDE DEF o
      <4>3. \A q \in Pid : k'.container[q] = IF q = o THEN "ready" ELSE k.container[q]
        BY <1>0, <4>1, <4>2, WakeKeeps
      <4>4. \A q \in Reader : k'.container[q] = "lock" <=> k.container[q] = "lock"
        BY <1>0, <4>2, <4>3
      <4>5. k'.list["lock"] = k.list["lock"]
        <5>1. k.container[o] # NoList /\ k.container[o] # "lock" /\ "lock" # "ready"
          BY <4>2 DEF NoList
        <5>2. unblock(k, o).list["lock"] = remove_node(k, o).list["lock"]
          BY <1>0, <4>2, <5>1, UnblockOrder
        <5>3. remove_node(k, o).list["lock"] = k.list["lock"]
          BY <1>0, <4>2, <5>1, RemoveKeepsOrder
        <5> QED BY <4>1, <5>2, <5>3
      <4> QED BY <2>1, <4>4, <4>5, LineStays
    <3> QED BY <3>1, <3>2
  <2> QED BY <2>1, <2>2, <2>3, <2>4 DEF Stream!Type
<1> QED BY <1>1, <1>2

\* The clock changes nothing a reader can see.
LEMMA TickMaps ==
  ASSUME IInv, ClockTick
  PROVE  UNCHANGED Stream!streamVars
<1>1. k' = clock_handler(k) /\ UNCHANGED <<pc, value, key_buf, todo, buf, typed>>
  BY DEF ClockTick
<1>2. Placed(k) /\ "lock" \in Lists /\ Reader \subseteq Pid /\ "lock" # "ready"
  BY ListNames DEF IInv
<1>3. k'.list["lock"] = k.list["lock"]
  BY <1>1, <1>2, ClockKeepsOrder
<1>4. SameWaiting(k, k')
  BY <1>1, <1>2, ClockKeeps
<1>5. Requests' = Requests
  BY <1>1, <1>2, <1>3, <1>4, LineStays DEF SameWaiting
<1>6. Contents' = Contents
  BY <1>1, RequestsAre
<1> QED BY <1>1, <1>5, <1>6 DEF Stream!streamVars

\* Every step is one of the stream or is not seen.
LEMMA StreamStep ==
  ASSUME IInv, Fresh, [Next]_vars
  PROVE  [Stream!Next]_(Stream!streamVars)
<1>1. CASE Read
  BY <1>1, ReadMaps DEF Stream!Next
<1>2. CASE LockResume \/ KeysResume
  BY <1>2, ResumeMaps DEF Stream!Next
<1>3. CASE KeyInt
  BY <1>3, KeyIntMaps DEF Stream!Next
<1>4. CASE ClockTick
  BY <1>4, TickMaps
<1>5. CASE UNCHANGED vars
  <2>1. k' = k /\ UNCHANGED <<pc, key_buf, todo, buf>>
    BY <1>5 DEF vars
  <2>2. Requests' = Requests
    BY <2>1, LineStays
  <2>3. Contents' = Contents
    BY <2>1, RequestsAre
  <2> QED BY <2>1, <2>2, <2>3 DEF Stream!streamVars
<1> QED BY <1>1, <1>2, <1>3, <1>4, <1>5 DEF Next, Halted

\* A read begins with nothing: keyboard_read writes to its buffer once it has the mutex.
LEMMA FreshKept ==
  ASSUME IInv, Fresh, [Next]_vars
  PROVE  Fresh'
<1>0. pc \in [Pid -> {"run", "lock", "keys"}] /\ buf \in [Pid -> Seq(Nat)] /\ Reader \subseteq Pid
  BY ListNames DEF IInv, Waiting, Data
<1>1. ASSUME NEW p \in Reader, NEW want, NEW has, ReadLoop(p, want, has)
      PROVE  Fresh'
  <2>1. PICK x, st : buf' = [buf EXCEPT ![p] = x] /\ pc' = [pc EXCEPT ![p] = st] /\ st # "lock"
    BY <1>1 DEF ReadLoop
  <2> QED BY <1>0, <2>1 DEF Fresh
<1>2. CASE Read
  <2>1. PICK p \in Reader, c \in Counts :
          IF CanLock THEN ReadLoop(p, c, <<>>)
          ELSE pc' = [pc EXCEPT ![p] = "lock"] /\ buf' = [buf EXCEPT ![p] = <<>>]
    BY <1>2 DEF Read
  <2>2. CASE CanLock
    BY <1>1, <2>1, <2>2
  <2>3. CASE ~CanLock
    BY <1>0, <2>1, <2>3 DEF Fresh
  <2> QED BY <2>2, <2>3
<1>3. CASE LockResume
  BY <1>1, <1>3 DEF LockResume
<1>4. CASE KeysResume
  <2>1. PICK p \in Reader :
          IF que_isempty(key_buf) THEN UNCHANGED <<pc, buf>> ELSE ReadLoop(p, todo[p], buf[p])
    BY <1>4 DEF KeysResume
  <2>2. CASE que_isempty(key_buf)
    BY <2>1, <2>2 DEF Fresh
  <2>3. CASE ~que_isempty(key_buf)
    BY <1>1, <2>1, <2>3
  <2> QED BY <2>2, <2>3
<1>5. CASE KeyInt \/ ClockTick \/ UNCHANGED vars
  <2>1. UNCHANGED <<pc, buf>>
    BY <1>5 DEF KeyInt, ClockTick, vars
  <2> QED BY <2>1 DEF Fresh
<1> QED BY <1>2, <1>3, <1>4, <1>5 DEF Next, Halted

\* Nobody reads and no key has been typed.
LEMMA StreamInit ==
  ASSUME Init
  PROVE  Stream!Init /\ Fresh
<1>0. /\ "lock" \in Lists /\ KeyBufSize \in Nat /\ KeyBufSize >= 2 /\ Reader \subseteq Pid
      /\ Ring(key_buf) /\ todo \in [Pid -> Nat]
  BY InitHolds, ListNames, KeyboardAssumption DEF IInv, Data
<1>1. k.list["lock"] = <<>> /\ \A p \in Reader : pc[p] = "run" /\ buf[p] = <<>>
  BY <1>0 DEF Init
<1>2. Owners = {}
  BY <1>1 DEF Owners
<1>3. Requests = <<>>
  <2>1. <<>> \in Seq(Pid) /\ Len(<<>>) = 0
    OBVIOUS
  <2>2. Reverse(<<>>) \in Seq(Pid) /\ Len(Reverse(<<>>)) = 0
    BY <2>1, ReverseFacts
  <2>3. Requests = Pairs(Reverse(<<>>), todo)
    BY <1>0, <1>1, <1>2, <2>1, LineFacts, RequestsAre
  <2>4. Requests \in Seq(Pid \X Nat) /\ Len(Requests) = 0
    BY <1>0, <2>2, <2>3, PairsFacts
  <2> QED BY <2>4
<1>4. Contents = <<>>
  <2>1. que_isempty(key_buf)
    <3>1. key_buf.head = 0 /\ key_buf.tail = 1
      BY DEF Init
    <3>2. (0 + 1) % KeyBufSize = 1
      BY <1>0, ModuloLow
    <3> QED BY <3>1, <3>2 DEF que_isempty
  <2>2. que_len(key_buf) = 0
    BY <1>0, <2>1, RingLength
  <2>3. 0 \in 0 .. que_len(key_buf)
    BY <2>2
  <2>4. que_popped(key_buf, 0) \in Seq(Nat) /\ Len(que_popped(key_buf, 0)) = 0
    BY <1>0, <2>3, BytesFacts
  <2> QED BY <2>2, <2>4 DEF Contents
<1>5. [p \in Reader |-> buf[p]] = [p \in Reader |-> <<>>]
  BY <1>1
<1> QED BY <1>1, <1>3, <1>4, <1>5 DEF Stream!Init, Fresh

\* keyboard_read, keyboard_hander, the ring and the mutex together implement one stream
\* of keys with its reads served in the order they were made: no key is lost, doubled or
\* reordered, over every wrap of the ring and every hand-over of the mutex.
THEOREM KeysInOrder == Spec => ImplementsStream
<1>1. Init => Stream!Init /\ Fresh
  BY StreamInit
<1>2. IInv /\ Fresh /\ [Next]_vars => Fresh'
  BY FreshKept
<1>3. IInv /\ Fresh /\ [Next]_vars => [Stream!Next]_(Stream!streamVars)
  BY StreamStep
<1> QED BY <1>1, <1>2, <1>3, KeyboardSafe, PTL DEF Spec, ImplementsStream, Stream!Spec

-----------------------------------------------------------------------------
(* The decoder of the handler (module Scancode), for any number of keys down *)
(* and bytes on the wire.  A state of the decoder is a record; the states    *)
(* that the bytes on the wire will take it through end where the typist is.  *)

\* Bytes, and the characters and arrows the handler puts out.
Byte == [code : Code \cup {"E0", "POWER"}, brk : BOOLEAN]
Char == {"A", "a", "8", "UP"}
KeyTable == [Code -> [{2, 3} -> BOOLEAN]]

\* A state of the decoder: extcode_state, capslock_state, keymap and its output.
Decoder == [ext : BOOLEAN, caps : BOOLEAN, km : KeyTable, out : Seq(Char)]

\* The handler on byte s in state d.
Shown(d, s, caps, km) ==
  IF d.ext THEN IF s.code = "PAD_8" THEN "UP" ELSE None
  ELSE Glyph(s.code, caps # ShiftState(km))

Put(o, ch) == IF ch = None THEN o ELSE Append(o, ch)

\* The make code of caps lock.
CapsMake == Plain("CAPSLOCK", FALSE)

NewCaps(d, s) == IF s = CapsMake /\ ~d.ext THEN ~d.caps ELSE d.caps
NewMap(d, s) ==
  IF s.code \in Code
  THEN [d.km EXCEPT ![s.code] = [@ EXCEPT ![IF d.ext THEN 3 ELSE 2] = ~s.brk]] ELSE d.km
NewOut(d, s) ==
  IF s.code \in Code /\ ~s.brk THEN Put(d.out, Shown(d, s, NewCaps(d, s), NewMap(d, s))) ELSE d.out

Step(d, s) == [ext |-> s = Prefix, caps |-> NewCaps(d, s), km |-> NewMap(d, s),
               out |-> NewOut(d, s)]

\* The decoder as it is.
Now == [ext |-> extcode_state, caps |-> capslock_state, km |-> keymap, out |-> out]

\* m begins with o.
Begins(o, m) == Len(o) <= Len(m) /\ \A i \in 1 .. Len(o) : o[i] = m[i]

\* The bytes w take the decoder from d to e through the states D; m begins with
\* what it has put out at each of them.
Run(D, d, w, e, m) ==
  /\ D \in [0 .. Len(w) -> Decoder] /\ D[0] = d /\ D[Len(w)] = e
  /\ \A i \in 1 .. Len(w) : D[i] = Step(D[i - 1], w[i])
  /\ \A i \in 1 .. Len(w) : w[i] = CapsMake => ~D[i - 1].ext
  /\ \A i \in 0 .. Len(w) : Begins(D[i].out, m)

\* The bytes w lead from d to e.
Leads(d, w, e, m) == \E D : Run(D, d, w, e, m)

\* The bytes w switch caps lock.
Odd(w) == Cardinality({i \in 1 .. Len(w) : w[i] = CapsMake}) % 2 = 1

\* The shifts that are down in state e are the ones in h.
Down(e, h) ==
  /\ (e.km["SHIFT_L"][2] = TRUE) <=> ("SHIFT_L" \in h)
  /\ (e.km["SHIFT_R"][2] = TRUE) <=> ("SHIFT_R" \in h)

\* What the decoder is, once it has handled the bytes on the wire, is what the
\* typist sees: keys h are down and m has been typed.
Agrees(e, h, m) == e \in Decoder /\ e.out = m /\ ~e.ext /\ Down(e, h)

\* The inductive invariant: the bytes on the wire are the bytes of whole keys, and
\* they lead the decoder to where the typist is.
DInv ==
  /\ wire \in Seq(Byte) /\ held \subseteq Key /\ meant \in Seq(Char) /\ Now \in Decoder
  /\ \E e : /\ Leads(Now, wire, e, meant) /\ Agrees(e, held, meant)
            /\ e.caps = (Now.caps # Odd(wire))

\* The types of the handler's parts.
LEMMA GlyphChar ==
  ASSUME NEW c, NEW b \in BOOLEAN
  PROVE  Glyph(c, b) \in Char \cup {None}
BY DEF Glyph, Char, None

\* What is put out is put at the end.
LEMMA PutType ==
  ASSUME NEW o \in Seq(Char), NEW ch \in Char \cup {None}
  PROVE  Put(o, ch) \in Seq(Char) /\ Begins(o, Put(o, ch))
BY DEF Put, Begins

\* The decoder after one byte.
LEMMA StepType ==
  ASSUME NEW d \in Decoder, NEW s \in Byte
  PROVE  /\ Step(d, s) \in Decoder /\ Begins(d.out, Step(d, s).out)
         /\ NewMap(d, s) \in KeyTable /\ NewCaps(d, s) \in BOOLEAN
<1>1. /\ d.ext \in BOOLEAN /\ d.caps \in BOOLEAN /\ d.km \in KeyTable /\ d.out \in Seq(Char)
      /\ s.brk \in BOOLEAN
  BY DEF Decoder, Byte
<1>2. NewCaps(d, s) \in BOOLEAN
  BY <1>1 DEF NewCaps
<1>3. NewMap(d, s) \in KeyTable
  BY <1>1 DEF NewMap, KeyTable
<1>4. "SHIFT_L" \in Code /\ "SHIFT_R" \in Code /\ 2 \in {2, 3}
  BY DEF Code
<1>5. ShiftState(NewMap(d, s)) \in BOOLEAN
  BY <1>3, <1>4 DEF ShiftState, KeyTable
<1>6. (NewCaps(d, s) # ShiftState(NewMap(d, s))) \in BOOLEAN
  OBVIOUS
<1>7. Shown(d, s, NewCaps(d, s), NewMap(d, s)) \in Char \cup {None}
  <2>1. Glyph(s.code, NewCaps(d, s) # ShiftState(NewMap(d, s))) \in Char \cup {None}
    BY <1>6, GlyphChar
  <2>2. "UP" \in Char
    BY DEF Char
  <2> QED BY <2>1, <2>2 DEF Shown
<1>8. NewOut(d, s) \in Seq(Char) /\ Begins(d.out, NewOut(d, s))
  <2>1. Begins(d.out, d.out)
    BY <1>1 DEF Begins
  <2> QED BY <1>1, <1>7, <2>1, PutType DEF NewOut
<1>9. (s = Prefix) \in BOOLEAN
  OBVIOUS
<1> QED BY <1>2, <1>3, <1>8, <1>9 DEF Step, Decoder

\* Begins is transitive.
LEMMA BeginsTrans ==
  ASSUME NEW a \in Seq(Char), NEW b \in Seq(Char), NEW c \in Seq(Char), Begins(a, b), Begins(b, c)
  PROVE  Begins(a, c)
<1>1. Len(a) \in Nat /\ Len(b) \in Nat /\ Len(c) \in Nat
  OBVIOUS
<1> QED BY <1>1 DEF Begins

\* One more byte is sent.
LEMMA Feed ==
  ASSUME NEW d, NEW w \in Seq(Byte), NEW e \in Decoder, NEW m \in Seq(Char), NEW s \in Byte,
         Leads(d, w, e, m), e.out = m, s = CapsMake => ~e.ext
  PROVE  Leads(d, Append(w, s), Step(e, s), Step(e, s).out)
<1>1. PICK D : Run(D, d, w, e, m)
  BY DEF Leads
<1> DEFINE n == Len(w)
           f == Step(e, s)
           E == [i \in 0 .. n + 1 |-> IF i <= n THEN D[i] ELSE f]
           v == Append(w, s)
<1>2. f \in Decoder /\ Begins(m, f.out)
  BY StepType
<1>3. n \in Nat /\ Len(v) = n + 1 /\ v[n + 1] = s /\ \A i \in 1 .. n : v[i] = w[i]
  OBVIOUS
<1>4. f.out \in Seq(Char)
  BY <1>2 DEF Decoder
<1>5. /\ D \in [0 .. n -> Decoder] /\ D[0] = d /\ D[n] = e
      /\ \A i \in 1 .. n : D[i] = Step(D[i - 1], w[i])
      /\ \A i \in 1 .. n : w[i] = CapsMake => ~D[i - 1].ext
      /\ \A i \in 0 .. n : Begins(D[i].out, m)
  BY <1>1 DEF Run
<1>6. \A i \in 0 .. n : D[i].out \in Seq(Char)
  BY <1>5 DEF Decoder
<1>7. \A i \in 0 .. n : Begins(D[i].out, f.out)
  BY <1>2, <1>4, <1>5, <1>6, BeginsTrans
<1>8. f = Step(D[n], s)
  BY <1>5
<1> HIDE DEF n, f, v
<1>9. E \in [0 .. n + 1 -> Decoder] /\ E[0] = d /\ E[n + 1] = f
  BY <1>2, <1>3, <1>5
<1>10. ASSUME NEW i \in 1 .. n + 1
       PROVE  E[i] = Step(E[i - 1], v[i]) /\ (v[i] = CapsMake => ~E[i - 1].ext)
  <2>1. CASE i <= n
    <3>1. i \in 1 .. n /\ E[i] = D[i] /\ E[i - 1] = D[i - 1] /\ v[i] = w[i]
      BY <2>1, <1>3
    <3> QED BY <3>1, <1>5
  <2>2. CASE i = n + 1
    <3>1. E[i] = f /\ E[i - 1] = D[n] /\ v[i] = s
      BY <2>2, <1>3
    <3> QED BY <3>1, <1>5, <1>8
  <2> QED BY <2>1, <2>2, <1>3
<1>11. Begins(f.out, f.out)
  BY <1>4 DEF Begins
<1>12. \A i \in 0 .. n + 1 : Begins(E[i].out, f.out)
  BY <1>7, <1>11, <1>3
<1> HIDE DEF E
<1>13. Run(E, d, v, f, f.out)
  BY <1>3, <1>9, <1>10, <1>12 DEF Run
<1> QED BY <1>13 DEF Leads, f, v

\* One byte is handled.
LEMMA Drop ==
  ASSUME NEW d \in Decoder, NEW w \in Seq(Byte), NEW e, NEW m, Leads(d, w, e, m), w # <<>>
  PROVE  Leads(Step(d, Head(w)), Tail(w), e, m) /\ (Head(w) = CapsMake => ~d.ext)
<1>1. PICK D : Run(D, d, w, e, m)
  BY DEF Leads
<1> DEFINE n == Len(w)
           v == Tail(w)
           E == [i \in 0 .. n - 1 |-> D[i + 1]]
<1>2. n \in Nat /\ n >= 1 /\ Len(v) = n - 1 /\ w[1] = Head(w) /\ \A i \in 1 .. n - 1 : v[i] = w[i + 1]
  OBVIOUS
<1>3. /\ D \in [0 .. n -> Decoder] /\ D[0] = d /\ D[n] = e
      /\ \A i \in 1 .. n : D[i] = Step(D[i - 1], w[i])
      /\ \A i \in 1 .. n : w[i] = CapsMake => ~D[i - 1].ext
      /\ \A i \in 0 .. n : Begins(D[i].out, m)
  BY <1>1 DEF Run
<1> HIDE DEF n, v
<1>4. D[1] = Step(d, Head(w)) /\ (Head(w) = CapsMake => ~d.ext)
  BY <1>2, <1>3
<1>5. E \in [0 .. n - 1 -> Decoder] /\ E[0] = D[1] /\ E[n - 1] = e
  BY <1>2, <1>3
<1>6. ASSUME NEW i \in 1 .. n - 1
      PROVE  E[i] = Step(E[i - 1], v[i]) /\ (v[i] = CapsMake => ~E[i - 1].ext)
  <2>1. E[i] = D[i + 1] /\ E[i - 1] = D[i] /\ i + 1 \in 1 .. n /\ (i + 1) - 1 = i /\ v[i] = w[i + 1]
    BY <1>2
  <2> QED BY <2>1, <1>3
<1>7. \A i \in 0 .. n - 1 : Begins(E[i].out, m)
  BY <1>2, <1>3
<1> HIDE DEF E
<1>8. Run(E, Step(d, Head(w)), v, e, m)
  BY <1>2, <1>4, <1>5, <1>6, <1>7 DEF Run
<1> QED BY <1>4, <1>8 DEF Leads, v
\* Caps lock through the bytes sent and handled.
Makes(w) == {i \in 1 .. Len(w) : w[i] = CapsMake}

\* The bytes of caps lock on the wire are finite in number.
LEMMA MakesFinite ==
  ASSUME NEW w \in Seq(Byte)
  PROVE  IsFiniteSet(Makes(w)) /\ Cardinality(Makes(w)) \in Nat
<1>1. IsFiniteSet(1 .. Len(w))
  BY FS_Interval
<1>2. Makes(w) \subseteq 1 .. Len(w)
  BY DEF Makes
<1> QED BY <1>1, <1>2, FS_Subset, FS_CardinalityType

\* One more changes the parity.
LEMMA Parity ==
  ASSUME NEW c \in Nat
  PROVE  ((c + 1) % 2 = 1) = ~(c % 2 = 1)
OBVIOUS

\* A byte sent changes the parity of caps lock if it is its byte.
LEMMA OddAppend ==
  ASSUME NEW w \in Seq(Byte), NEW s \in Byte
  PROVE  Odd(Append(w, s)) = (IF s = CapsMake THEN ~Odd(w) ELSE Odd(w))
<1> DEFINE n == Len(w)
           v == Append(w, s)
<1>1. n \in Nat /\ Len(v) = n + 1 /\ v[n + 1] = s /\ \A i \in 1 .. n : v[i] = w[i]
  OBVIOUS
<1> HIDE DEF v
<1>2. CASE s = CapsMake
  <2>1. Makes(v) = Makes(w) \cup {n + 1}
    BY <1>1, <1>2 DEF Makes
  <2>2. n + 1 \notin Makes(w)
    BY <1>1 DEF Makes
  <2>3. Cardinality(Makes(v)) = Cardinality(Makes(w)) + 1
    BY <2>1, <2>2, MakesFinite, FS_AddElement
  <2> QED BY <1>2, <2>3, MakesFinite, Parity DEF Odd, Makes, v
<1>3. CASE s # CapsMake
  <2>1. Makes(v) = Makes(w)
    BY <1>1, <1>3 DEF Makes
  <2> QED BY <1>3, <2>1 DEF Odd, Makes, v
<1> QED BY <1>2, <1>3

\* A byte handled changes the parity of caps lock if it is its byte.
LEMMA OddTail ==
  ASSUME NEW w \in Seq(Byte), w # <<>>
  PROVE  Odd(w) = (IF Head(w) = CapsMake THEN ~Odd(Tail(w)) ELSE Odd(Tail(w)))
<1> DEFINE n == Len(w)
           v == Tail(w)
           L == {i \in 2 .. n : w[i] = CapsMake}
           g == [i \in Makes(v) |-> i + 1]
<1>1. /\ n \in Nat /\ n >= 1 /\ Len(v) = n - 1 /\ w[1] = Head(w) /\ v \in Seq(Byte)
      /\ \A i \in 1 .. n - 1 : v[i] = w[i + 1]
  OBVIOUS
<1>2. IsFiniteSet(Makes(v)) /\ Cardinality(Makes(v)) \in Nat
  BY <1>1, MakesFinite
<1> HIDE DEF v
<1>3. g \in Bijection(Makes(v), L)
  <2>1. \A i \in Makes(v) : i \in 1 .. n - 1 /\ w[i + 1] = CapsMake
    BY <1>1 DEF Makes
  <2>2. g \in [Makes(v) -> L]
    BY <1>1, <2>1
  <2>3. \A i, j \in Makes(v) : g[i] = g[j] => i = j
    BY <2>1
  <2>4. \A j \in L : \E i \in Makes(v) : g[i] = j
    <3> SUFFICES ASSUME NEW j \in L PROVE \E i \in Makes(v) : g[i] = j
      OBVIOUS
    <3>1. j - 1 \in 1 .. n - 1 /\ w[j - 1 + 1] = CapsMake /\ j - 1 + 1 = j
      BY <1>1
    <3>2. j - 1 \in Makes(v)
      BY <3>1, <1>1 DEF Makes
    <3> QED BY <3>1, <3>2
  <2> HIDE DEF g, L
  <2> QED BY <2>2, <2>3, <2>4 DEF Bijection, Injection, Surjection, IsInjective
<1>4. IsFiniteSet(L) /\ Cardinality(L) = Cardinality(Makes(v))
  <2>1. ExistsBijection(Makes(v), L)
    BY <1>3 DEF ExistsBijection
  <2> HIDE DEF L
  <2> QED BY <1>2, <2>1, FS_Bijection
<1>5. CASE Head(w) = CapsMake
  <2>1. Makes(w) = L \cup {1}
    BY <1>1, <1>5 DEF Makes
  <2>2. 1 \notin L
    OBVIOUS
  <2> HIDE DEF L
  <2>3. Cardinality(Makes(w)) = Cardinality(Makes(v)) + 1
    BY <2>1, <2>2, <1>4, FS_AddElement
  <2> QED BY <1>2, <1>5, <2>3, Parity DEF Odd, Makes, v
<1>6. CASE Head(w) # CapsMake
  <2>1. Makes(w) = L
    BY <1>1, <1>6 DEF Makes
  <2> QED BY <1>6, <2>1, <1>4 DEF Odd, Makes, v
<1> QED BY <1>5, <1>6

\* The handler does one step.
LEMMA InterruptSteps ==
  ASSUME wire \in Seq(Byte), Now \in Decoder, Interrupt
  PROVE  Now' = Step(Now, Head(wire)) /\ wire # <<>> /\ wire' = Tail(wire) /\ UNCHANGED <<held, meant>>
<1> DEFINE s == Head(wire)
           col == IF extcode_state THEN 3 ELSE 2
<1>0. wire # <<>> /\ wire' = Tail(wire) /\ UNCHANGED <<held, meant>> /\ extcode_state' = (s = Prefix)
  BY DEF Interrupt
<1>1. s \in Byte
  BY <1>0
<1>2. /\ extcode_state \in BOOLEAN /\ capslock_state \in BOOLEAN /\ keymap \in KeyTable
      /\ out \in Seq(Char)
  BY DEF Now, Decoder
<1>3. s.brk \in BOOLEAN /\ s = [code |-> s.code, brk |-> s.brk]
  BY <1>1 DEF Byte
<1>4. s = Prefix => s.code \notin Code
  BY DEF Prefix, Code
<1>5. /\ Now.ext = extcode_state /\ Now.caps = capslock_state /\ Now.km = keymap /\ Now.out = out
  BY DEF Now
<1>6. s = CapsMake <=> s.code = "CAPSLOCK" /\ ~s.brk
  BY <1>3 DEF CapsMake, Plain
<1>61. "CAPSLOCK" \in Code
  BY DEF Code
<1>7. Column = col
  BY DEF Column
<1> DEFINE km == [keymap EXCEPT ![s.code][Column] = TRUE]
           caps == IF s.code = "CAPSLOCK" THEN ~capslock_state ELSE capslock_state
           Goal == capslock_state' = NewCaps(Now, s) /\ keymap' = NewMap(Now, s) /\ out' = NewOut(Now, s)
<1>8. \/ (s = Prefix \/ s.code \notin Code) /\ UNCHANGED <<capslock_state, keymap, out>>
      \/ /\ s.code \in Code /\ s.brk
         /\ keymap' = Released(s.code)
         /\ UNCHANGED <<capslock_state, out>>
      \/ /\ s.code \in Code /\ ~s.brk /\ Column = 3
         /\ keymap' = km
         /\ out' = IF s.code = "PAD_8" THEN Append(out, "UP") ELSE out
         /\ UNCHANGED capslock_state
      \/ /\ s.code \in Code /\ ~s.brk /\ Column = 2
         /\ keymap' = km
         /\ capslock_state' = caps
         /\ out' = Typed(Glyph(s.code, caps # ShiftState(km)))
  BY DEF Interrupt
<1> HIDE DEF s
<1>11. s.code \in Code /\ ~s.brk => km = NewMap(Now, s)
  BY <1>2, <1>3, <1>5, <1>7 DEF NewMap, KeyTable
<1>14. Goal
  <2>9. CASE (s = Prefix \/ s.code \notin Code) /\ UNCHANGED <<capslock_state, keymap, out>>
    BY <2>9, <1>4, <1>5, <1>6, <1>61 DEF NewCaps, NewMap, NewOut
  <2>10. CASE /\ s.code \in Code /\ s.brk
              /\ keymap' = Released(s.code)
              /\ UNCHANGED <<capslock_state, out>>
    <3>1. keymap' = NewMap(Now, s)
      BY <2>10, <1>2, <1>3, <1>5, <1>7 DEF NewMap, Released, KeyTable
    <3> QED BY <3>1, <2>10, <1>5, <1>6 DEF NewCaps, NewOut
  <2>12. CASE /\ s.code \in Code /\ ~s.brk /\ Column = 3
              /\ keymap' = km
              /\ out' = IF s.code = "PAD_8" THEN Append(out, "UP") ELSE out
              /\ UNCHANGED capslock_state
    <3>1. Now.ext
      BY <2>12, <1>5, <1>7
    <3>2. keymap' = NewMap(Now, s) /\ capslock_state' = NewCaps(Now, s)
      BY <2>12, <1>11, <1>5, <3>1 DEF NewCaps
    <3>3. "UP" # None
      BY DEF None
    <3>4. out' = NewOut(Now, s)
      BY <2>12, <3>1, <3>3, <1>5 DEF NewOut, Put, Shown
    <3> QED BY <3>2, <3>4
  <2>13. CASE /\ s.code \in Code /\ ~s.brk /\ Column = 2
              /\ keymap' = km
              /\ capslock_state' = caps
              /\ out' = Typed(Glyph(s.code, caps # ShiftState(km)))
    <3>1. ~Now.ext
      BY <2>13, <1>5, <1>7
    <3>2. caps = NewCaps(Now, s)
      BY <3>1, <2>13, <1>6, <1>5 DEF NewCaps
    <3>3. km = NewMap(Now, s)
      BY <1>11, <2>13
    <3> HIDE DEF km, caps
    <3>4. out' = NewOut(Now, s)
      BY <2>13, <3>1, <3>2, <3>3, <1>5 DEF NewOut, Put, Shown, Typed
    <3> QED BY <3>2, <3>3, <3>4, <2>13
  <2> QED BY <1>8, <2>9, <2>10, <2>12, <2>13
<1>15. Now' = Step(Now, s)
  BY <1>0, <1>14 DEF Now, Step, s
<1> QED BY <1>0, <1>15 DEF s
\* The bytes w lead from d to e, whose output is m.
At(d, w, e, m) ==
  /\ w \in Seq(Byte) /\ e \in Decoder /\ e.out = m /\ Leads(d, w, e, m)
  /\ e.caps = (d.caps # Odd(w))

\* A byte sent takes the end of the wire one step on.
LEMMA FeedAt ==
  ASSUME NEW d \in Decoder, NEW w, NEW e, NEW m, NEW s \in Byte, At(d, w, e, m), s = CapsMake => ~e.ext
  PROVE  At(d, Append(w, s), Step(e, s), Step(e, s).out)
<1>1. w \in Seq(Byte) /\ e \in Decoder /\ e.out = m /\ Leads(d, w, e, m) /\ e.caps = (d.caps # Odd(w))
  BY DEF At
<1>2. m \in Seq(Char)
  BY <1>1 DEF Decoder
<1>3. Leads(d, Append(w, s), Step(e, s), Step(e, s).out)
  BY <1>1, <1>2, Feed
<1>4. Step(e, s) \in Decoder /\ Append(w, s) \in Seq(Byte)
  BY <1>1, StepType
<1>5. Step(e, s).caps = NewCaps(e, s)
  BY DEF Step
<1>6. NewCaps(e, s) = (d.caps # Odd(Append(w, s)))
  <2>1. e.caps \in BOOLEAN /\ d.caps \in BOOLEAN
    BY <1>1 DEF Decoder
  <2>2. Odd(w) \in BOOLEAN
    BY DEF Odd
  <2>3. Odd(Append(w, s)) = (IF s = CapsMake THEN ~Odd(w) ELSE Odd(w))
    BY <1>1, OddAppend
  <2> QED BY <1>1, <2>1, <2>2, <2>3 DEF NewCaps
<1> QED BY <1>3, <1>4, <1>5, <1>6 DEF At

\* The codes of the keys.
LEMMA Keys ==
  /\ \A x \in Key : CodeOf[x] \in Code \cup {"POWER"}
  /\ \A x \in Key : x \in Extended => CodeOf[x] \in {"PAD_8", "PAD_DOT", "POWER"}
  /\ \A x \in Key : x \notin Extended => CodeOf[x] = x /\ x \in Code
  /\ CodeOf["UP"] = "PAD_8" /\ CodeOf["DELETE"] = "PAD_DOT" /\ CodeOf["POWER"] = "POWER"
BY DEF CodeOf, Key, Code, Extended

\* What the keys send are bytes.
LEMMA ByteType ==
  ASSUME NEW x \in Key, NEW b \in BOOLEAN
  PROVE  Plain(CodeOf[x], b) \in Byte /\ Prefix \in Byte /\ Plain("SHIFT_L", TRUE) \in Byte
<1>1. "SHIFT_L" \in Code
  BY DEF Code
<1> QED BY <1>1, Keys DEF Plain, Prefix, Byte

\* A prefix only sets extcode_state.
LEMMA PrefixStep ==
  ASSUME NEW e \in Decoder
  PROVE  LET g == Step(e, Prefix)
         IN  g \in Decoder /\ g.ext /\ g.caps = e.caps /\ g.km = e.km /\ g.out = e.out
<1>1. Prefix.code \notin Code /\ Prefix # CapsMake
  BY DEF Prefix, Code, CapsMake, Plain
<1>2. Prefix \in Byte
  BY DEF Prefix, Byte
<1>3. Step(e, Prefix) \in Decoder
  BY <1>2, StepType
<1> QED BY <1>1, <1>3 DEF Step, NewCaps, NewMap, NewOut

\* After a prefix no byte changes the shifts or caps lock.
LEMMA ExtendedStep ==
  ASSUME NEW e \in Decoder, e.ext, NEW c \in Code \cup {"POWER"}, NEW b \in BOOLEAN
  PROVE  LET f == Step(e, Plain(c, b))
         IN  /\ ~f.ext /\ f.caps = e.caps /\ f.out = IF c = "PAD_8" /\ ~b THEN Append(e.out, "UP") ELSE e.out
             /\ f.km["SHIFT_L"][2] = e.km["SHIFT_L"][2] /\ f.km["SHIFT_R"][2] = e.km["SHIFT_R"][2]
<1> DEFINE s == Plain(c, b)
<1>1. s.code = c /\ s.brk = b /\ s # Prefix
  BY DEF Plain, Prefix, Code
<1>2. e.km \in KeyTable
  BY DEF Decoder
<1>3. "SHIFT_L" \in Code /\ "SHIFT_R" \in Code /\ "PAD_8" \in Code
  BY DEF Code
<1> HIDE DEF s
<1>4. /\ NewMap(e, s)["SHIFT_L"][2] = e.km["SHIFT_L"][2]
      /\ NewMap(e, s)["SHIFT_R"][2] = e.km["SHIFT_R"][2]
  BY <1>1, <1>2, <1>3 DEF NewMap, KeyTable
<1>5. NewCaps(e, s) = e.caps
  BY DEF NewCaps
<1>6. NewOut(e, s) = IF c = "PAD_8" /\ ~b THEN Append(e.out, "UP") ELSE e.out
  <2>1. "UP" # None
    BY DEF None
  <2> QED BY <1>1, <1>3, <2>1 DEF NewOut, Shown, Put
<1>7. /\ Step(e, s).ext = (s = Prefix) /\ Step(e, s).caps = NewCaps(e, s)
      /\ Step(e, s).km = NewMap(e, s) /\ Step(e, s).out = NewOut(e, s)
  BY DEF Step
<1> QED BY <1>1, <1>4, <1>5, <1>6, <1>7 DEF s

\* Without one, a key sets its own entry.
LEMMA PlainStep ==
  ASSUME NEW e \in Decoder, ~e.ext, NEW c \in Code, NEW b \in BOOLEAN
  PROVE  LET f == Step(e, Plain(c, b))
         IN  /\ ~f.ext
             /\ f.km["SHIFT_L"][2] = IF c = "SHIFT_L" THEN ~b ELSE e.km["SHIFT_L"][2]
             /\ f.km["SHIFT_R"][2] = IF c = "SHIFT_R" THEN ~b ELSE e.km["SHIFT_R"][2]
             /\ f.out = IF b THEN e.out ELSE Put(e.out, Glyph(c, e.caps # ShiftState(e.km)))
<1> DEFINE s == Plain(c, b)
<1>1. s.code = c /\ s.brk = b /\ s # Prefix
  BY DEF Plain, Prefix, Code
<1>2. e.km \in KeyTable /\ e.caps \in BOOLEAN
  BY DEF Decoder
<1>3. "SHIFT_L" \in Code /\ "SHIFT_R" \in Code
  BY DEF Code
<1>31. s = CapsMake => c = "CAPSLOCK"
  BY DEF CapsMake, Plain
<1> HIDE DEF s
<1>4. /\ NewMap(e, s)["SHIFT_L"][2] = IF c = "SHIFT_L" THEN ~b ELSE e.km["SHIFT_L"][2]
      /\ NewMap(e, s)["SHIFT_R"][2] = IF c = "SHIFT_R" THEN ~b ELSE e.km["SHIFT_R"][2]
  BY <1>1, <1>2, <1>3 DEF NewMap, KeyTable
<1>5. Glyph(c, NewCaps(e, s) # ShiftState(NewMap(e, s))) = Glyph(c, e.caps # ShiftState(e.km))
  <2>1. CASE c \in {"SHIFT_L", "SHIFT_R", "CAPSLOCK"}
    BY <2>1 DEF Glyph
  <2>2. CASE c \notin {"SHIFT_L", "SHIFT_R", "CAPSLOCK"}
    <3>1. NewCaps(e, s) = e.caps
      BY <2>2, <1>31 DEF NewCaps
    <3>2. ShiftState(NewMap(e, s)) = ShiftState(e.km)
      BY <2>2, <1>4 DEF ShiftState
    <3> QED BY <3>1, <3>2
  <2> QED BY <2>1, <2>2
<1>6. NewOut(e, s) = IF b THEN e.out ELSE Put(e.out, Glyph(c, e.caps # ShiftState(e.km)))
  BY <1>1, <1>5 DEF NewOut, Shown
<1>7. /\ Step(e, s).ext = (s = Prefix) /\ Step(e, s).caps = NewCaps(e, s)
      /\ Step(e, s).km = NewMap(e, s) /\ Step(e, s).out = NewOut(e, s)
  BY DEF Step
<1>8. ~Step(e, s).ext
  BY <1>1, <1>7
<1>9. /\ Step(e, s).km["SHIFT_L"][2] = IF c = "SHIFT_L" THEN ~b ELSE e.km["SHIFT_L"][2]
      /\ Step(e, s).km["SHIFT_R"][2] = IF c = "SHIFT_R" THEN ~b ELSE e.km["SHIFT_R"][2]
  BY <1>4, <1>7
<1>10. Step(e, s).out = IF b THEN e.out ELSE Put(e.out, Glyph(c, e.caps # ShiftState(e.km)))
  BY <1>6, <1>7
<1> QED BY <1>8, <1>9, <1>10, Zenon DEF s

\* The shifts of state e are L and R.
Shifts(e, L, R) == e.km["SHIFT_L"][2] = L /\ e.km["SHIFT_R"][2] = R

\* What key x types in state e.
Types(x, e) ==
  IF x = "UP" THEN "UP" ELSE IF x \in Extended THEN None
  ELSE Glyph(CodeOf[x], e.caps # ShiftState(e.km))

\* What key x changes, with its make code or (b) its break code.
After(e, f, x, b) ==
  /\ ~f.ext /\ f.out = IF b THEN e.out ELSE Put(e.out, Types(x, e))
  /\ Shifts(f, IF x = "SHIFT_L" THEN ~b ELSE e.km["SHIFT_L"][2],
               IF x = "SHIFT_R" THEN ~b ELSE e.km["SHIFT_R"][2])

\* All bytes of a key.
LEMMA KeySent ==
  ASSUME NEW d \in Decoder, NEW w, NEW e, NEW m, At(d, w, e, m), ~e.ext, NEW x \in Key, NEW b \in BOOLEAN
  PROVE  \E f : At(d, w \o KeyBytes(x, b), f, f.out) /\ After(e, f, x, b)
<1>1. w \in Seq(Byte) /\ e \in Decoder
  BY DEF At
<1> DEFINE s == Plain(CodeOf[x], b)
<1>2. s \in Byte /\ Prefix \in Byte /\ Prefix # CapsMake
  BY ByteType DEF CapsMake, Prefix, Plain
<1>3. CASE x \in Extended
  <2> DEFINE g == Step(e, Prefix)
             f == Step(g, s)
  <2>1. At(d, Append(w, Prefix), g, g.out)
    BY <1>2, FeedAt
  <2>2. /\ g \in Decoder /\ g.ext /\ g.caps = e.caps /\ g.km = e.km /\ g.out = e.out
    BY <1>1, PrefixStep
  <2>3. CodeOf[x] \in {"PAD_8", "PAD_DOT", "POWER"}
    BY <1>3, Keys
  <2>4. s # CapsMake
    BY <2>3 DEF CapsMake, Plain
  <2> HIDE DEF g
  <2>5. At(d, Append(Append(w, Prefix), s), f, f.out)
    BY <2>1, <2>4, <1>2, FeedAt
  <2>6. Append(Append(w, Prefix), s) = w \o KeyBytes(x, b)
    <3>1. KeyBytes(x, b) = <<Prefix, s>>
      BY <1>3 DEF KeyBytes
    <3> HIDE DEF s
    <3> QED BY <3>1, <1>1, <1>2
  <2>7. /\ ~f.ext /\ f.caps = g.caps
        /\ f.out = IF CodeOf[x] = "PAD_8" /\ ~b THEN Append(g.out, "UP") ELSE g.out
        /\ f.km["SHIFT_L"][2] = g.km["SHIFT_L"][2] /\ f.km["SHIFT_R"][2] = g.km["SHIFT_R"][2]
    BY <2>2, <2>3, Keys, ExtendedStep
  <2>8. CodeOf[x] = "PAD_8" <=> x = "UP"
    BY <1>3, Keys DEF Extended
  <2>9. f.out = IF b THEN e.out ELSE Put(e.out, Types(x, e))
    <3>1. "UP" # None
      BY DEF None
    <3> HIDE DEF f
    <3> QED BY <2>7, <2>8, <2>2, <1>3, <3>1 DEF Types, Put
  <2>10. x # "SHIFT_L" /\ x # "SHIFT_R"
    BY <1>3 DEF Extended
  <2> HIDE DEF f
  <2>11. After(e, f, x, b)
    BY <2>2, <2>7, <2>9, <2>10 DEF After, Shifts
  <2> QED BY <2>5, <2>6, <2>11
<1>4. CASE x \notin Extended
  <2> DEFINE f == Step(e, s)
  <2>1. At(d, Append(w, s), f, f.out)
    BY <1>2, FeedAt
  <2>2. Append(w, s) = w \o KeyBytes(x, b)
    <3>1. KeyBytes(x, b) = <<s>>
      BY <1>4 DEF KeyBytes
    <3> HIDE DEF s
    <3> QED BY <3>1, <1>1, <1>2
  <2>3. CodeOf[x] = x /\ x \in Code /\ x # "UP"
    BY <1>4, Keys DEF Extended
  <2>4. /\ ~f.ext
        /\ f.km["SHIFT_L"][2] = IF x = "SHIFT_L" THEN ~b ELSE e.km["SHIFT_L"][2]
        /\ f.km["SHIFT_R"][2] = IF x = "SHIFT_R" THEN ~b ELSE e.km["SHIFT_R"][2]
        /\ f.out = IF b THEN e.out ELSE Put(e.out, Glyph(x, e.caps # ShiftState(e.km)))
    BY <1>1, <2>3, PlainStep
  <2> HIDE DEF f
  <2>5. After(e, f, x, b)
    BY <2>3, <2>4, <1>4 DEF After, Shifts, Types
  <2> QED BY <2>1, <2>2, <2>5
<1> QED BY <1>3, <1>4

\* The break code of the left shift that goes before an arrow.
LEMMA FakeSent ==
  ASSUME NEW d \in Decoder, NEW w, NEW e, NEW m, At(d, w, e, m), ~e.ext
  PROVE  \E f : /\ At(d, Append(Append(w, Prefix), Plain("SHIFT_L", TRUE)), f, m)
                /\ ~f.ext /\ f.caps = e.caps /\ Shifts(f, e.km["SHIFT_L"][2], e.km["SHIFT_R"][2])
<1>1. w \in Seq(Byte) /\ e \in Decoder /\ e.out = m
  BY DEF At
<1> DEFINE s == Plain("SHIFT_L", TRUE)
           g == Step(e, Prefix)
           f == Step(g, s)
<1>2. s \in Byte /\ Prefix \in Byte /\ Prefix # CapsMake /\ s # CapsMake
  <2>1. "UP" \in Key
    BY DEF Key
  <2> QED BY <2>1, ByteType DEF CapsMake, Prefix, Plain
<1>3. At(d, Append(w, Prefix), g, g.out)
  BY <1>2, FeedAt
<1>4. g \in Decoder /\ g.ext /\ g.caps = e.caps /\ g.km = e.km /\ g.out = e.out
  BY <1>1, PrefixStep
<1> HIDE DEF g
<1>5. At(d, Append(Append(w, Prefix), s), f, f.out)
  BY <1>2, <1>3, FeedAt
<1>6. "SHIFT_L" \in Code /\ "SHIFT_L" # "PAD_8"
  BY DEF Code
<1>7. /\ ~f.ext /\ f.caps = g.caps /\ f.out = g.out
      /\ f.km["SHIFT_L"][2] = g.km["SHIFT_L"][2] /\ f.km["SHIFT_R"][2] = g.km["SHIFT_R"][2]
  <2>1. PICK b \in BOOLEAN : b = TRUE
    OBVIOUS
  <2>2. LET y == Step(g, Plain("SHIFT_L", b))
        IN  /\ ~y.ext /\ y.caps = g.caps
            /\ y.out = IF "SHIFT_L" = "PAD_8" /\ ~b THEN Append(g.out, "UP") ELSE g.out
            /\ y.km["SHIFT_L"][2] = g.km["SHIFT_L"][2] /\ y.km["SHIFT_R"][2] = g.km["SHIFT_R"][2]
    BY <1>4, <1>6, ExtendedStep
  <2> QED BY <1>6, <2>1, <2>2
<1> HIDE DEF f
<1> QED BY <1>1, <1>4, <1>5, <1>7 DEF Shifts
\* The state e that DInv speaks of.
Ahead(e) == At(Now, wire, e, meant) /\ Agrees(e, held, meant)

\* The invariant, with the state at the end of the wire named.
LEMMA DInvAt ==
  DInv <=> /\ held \subseteq Key /\ Now \in Decoder /\ wire \in Seq(Byte) /\ meant \in Seq(Char)
           /\ \E e : Ahead(e)
BY DEF DInv, At, Agrees, Ahead

\* The invariant holds at the start and after every step.
LEMMA DecoderInit == ScanInit => DInv
<1> SUFFICES ASSUME ScanInit PROVE DInv
  OBVIOUS
<1>1. wire = <<>> /\ held = {} /\ meant = <<>> /\ out = <<>> /\ extcode_state = FALSE
      /\ capslock_state = FALSE /\ keymap = [c \in Code |-> [i \in {2, 3} |-> FALSE]]
  BY DEF ScanInit
<1>2. Now \in Decoder
  <2>1. keymap \in KeyTable
    BY <1>1 DEF KeyTable
  <2>2. out \in Seq(Char) /\ FALSE \in BOOLEAN
    BY <1>1
  <2> QED BY <1>1, <2>1, <2>2 DEF Now, Decoder
<1> DEFINE D == [i \in 0 .. 0 |-> Now]
<1>3. D \in [0 .. Len(wire) -> Decoder] /\ D[0] = Now /\ D[Len(wire)] = Now /\ Len(wire) = 0
  BY <1>1, <1>2
<1>4. Now.out = <<>> /\ ~Now.ext /\ ~Now.caps /\ Now.km = keymap
  BY <1>1 DEF Now
<1>5. Begins(Now.out, meant)
  BY <1>1, <1>4 DEF Begins
<1> HIDE DEF D
<1>6. Run(D, Now, wire, Now, meant)
  <2>1. \A i \in 0 .. Len(wire) : Begins(D[i].out, meant)
    BY <1>3, <1>5
  <2>2. \A i \in 1 .. Len(wire) : FALSE
    BY <1>3
  <2> QED BY <1>3, <2>1, <2>2 DEF Run
<1>7. Leads(Now, wire, Now, meant)
  BY <1>6 DEF Leads
<1>8. "SHIFT_L" \in Code /\ "SHIFT_R" \in Code
  BY DEF Code
<1>9. Agrees(Now, held, meant)
  <2>1. keymap["SHIFT_L"][2] = FALSE /\ keymap["SHIFT_R"][2] = FALSE
    BY <1>1, <1>8
  <2>3. Down(Now, held)
    BY <1>1, <1>4, <2>1 DEF Down
  <2>4. Now.out = meant
    BY <1>1, <1>4
  <2> QED BY <1>2, <1>4, <2>3, <2>4 DEF Agrees
<1>10. ~Odd(wire)
  <2>1. {i \in 1 .. Len(wire) : wire[i] = CapsMake} = {}
    BY <1>3
  <2>2. Cardinality({i \in 1 .. Len(wire) : wire[i] = CapsMake}) = 0
    BY <2>1, FS_EmptySet
  <2> QED BY <2>2 DEF Odd
<1>11. Now.caps = (Now.caps # Odd(wire))
  <2>1. Now.caps = FALSE
    BY <1>1 DEF Now
  <2>2. Odd(wire) = FALSE
    BY <1>10 DEF Odd
  <2> QED BY <2>1, <2>2
<1>12. wire \in Seq(Byte) /\ held \subseteq Key /\ meant \in Seq(Char)
  BY <1>1
<1> HIDE DEF Now
<1> QED BY <1>2, <1>7, <1>9, <1>11, <1>12 DEF DInv

\* The handler takes one byte off the wire.
LEMMA InterruptKeeps == DInv /\ Interrupt => DInv'
<1> SUFFICES ASSUME DInv, Interrupt PROVE DInv'
  OBVIOUS
<1>1. PICK e : Ahead(e)
  BY DInvAt
<1>2. held \subseteq Key /\ Now \in Decoder /\ wire \in Seq(Byte) /\ meant \in Seq(Char)
  BY DInvAt
<1> DEFINE s == Head(wire)
<1>3. Now' = Step(Now, s) /\ wire # <<>> /\ wire' = Tail(wire) /\ held' = held /\ meant' = meant
  BY <1>2, InterruptSteps
<1>4. s \in Byte /\ Tail(wire) \in Seq(Byte)
  BY <1>2, <1>3
<1>5. Step(Now, s) \in Decoder
  BY <1>2, <1>4, StepType
<1>6. Leads(Now, wire, e, meant) /\ Agrees(e, held, meant) /\ e.caps = (Now.caps # Odd(wire))
  BY <1>1 DEF Ahead, At
<1>7. Leads(Step(Now, s), Tail(wire), e, meant) /\ (s = CapsMake => ~Now.ext)
  BY <1>2, <1>3, <1>6, Drop
<1>8. e.caps = (Step(Now, s).caps # Odd(Tail(wire)))
  <2>1. Step(Now, s).caps = NewCaps(Now, s)
    BY DEF Step
  <2>2. Odd(wire) = (IF s = CapsMake THEN ~Odd(Tail(wire)) ELSE Odd(Tail(wire)))
    BY <1>2, <1>3, OddTail
  <2>3. Now.caps \in BOOLEAN /\ Odd(Tail(wire)) \in BOOLEAN
    BY <1>2 DEF Decoder, Odd
  <2>4. NewCaps(Now, s) = (IF s = CapsMake THEN ~Now.caps ELSE Now.caps)
    BY <1>7 DEF NewCaps
  <2> HIDE DEF s
  <2> QED BY <1>6, <2>1, <2>2, <2>3, <2>4
<1> HIDE DEF s
<1>9. \E f : /\ Leads(Step(Now, s), Tail(wire), f, meant) /\ Agrees(f, held, meant)
             /\ f.caps = (Step(Now, s).caps # Odd(Tail(wire)))
  BY <1>6, <1>7, <1>8
<1> QED BY <1>2, <1>3, <1>4, <1>5, <1>9 DEF DInv

\* The typist's steps leave the decoder alone.
LEMMA TypistKeeps ==
  ASSUME DInv, UNCHANGED <<extcode_state, capslock_state, keymap, out>>, held' \subseteq Key,
         NEW f, At(Now, wire', f, f.out), meant' = f.out, Agrees(f, held', f.out)
  PROVE  DInv'
<1>1. Now' = Now /\ Now \in Decoder
  BY DInvAt DEF Now
<1>2. f \in Decoder /\ wire' \in Seq(Byte) /\ Leads(Now, wire', f, f.out) /\ f.caps = (Now.caps # Odd(wire'))
  BY DEF At
<1>3. f.out \in Seq(Char)
  BY <1>2 DEF Decoder
<1>4. \E g : /\ Leads(Now, wire', g, meant') /\ Agrees(g, held', meant')
             /\ g.caps = (Now.caps # Odd(wire'))
  BY <1>2
<1> QED BY <1>1, <1>2, <1>3, <1>4 DEF DInv

\* A key is let go.
LEMMA ReleaseKeeps == ASSUME NEW x \in Key PROVE DInv /\ Release(x) => DInv'
<1> SUFFICES ASSUME DInv, Release(x) PROVE DInv'
  OBVIOUS
<1>1. PICK e : Ahead(e)
  BY DInvAt
<1>2. held \subseteq Key /\ Now \in Decoder
  BY DInvAt
<1>3. /\ wire' = wire \o KeyBytes(x, TRUE) /\ held' = held \ {x} /\ meant' = meant
      /\ UNCHANGED <<extcode_state, capslock_state, keymap, out>>
  BY DEF Release
<1>4. At(Now, wire, e, meant) /\ Agrees(e, held, meant) /\ ~e.ext /\ e.out = meant
  BY <1>1 DEF Ahead, Agrees
<1>5. TRUE \in BOOLEAN
  OBVIOUS
<1>6. PICK f : At(Now, wire \o KeyBytes(x, TRUE), f, f.out) /\ After(e, f, x, TRUE)
  BY <1>2, <1>4, <1>5, KeySent
<1>7. f.out = meant /\ f \in Decoder /\ ~f.ext
  BY <1>6, <1>4 DEF After, At
<1>8. Agrees(f, held', f.out)
  <2>1. /\ f.km["SHIFT_L"][2] = IF x = "SHIFT_L" THEN FALSE ELSE e.km["SHIFT_L"][2]
        /\ f.km["SHIFT_R"][2] = IF x = "SHIFT_R" THEN FALSE ELSE e.km["SHIFT_R"][2]
    BY <1>6 DEF After, Shifts
  <2>2. Down(e, held)
    BY <1>4 DEF Agrees
  <2>3. Down(f, held')
    BY <1>3, <2>1, <2>2 DEF Down
  <2> QED BY <1>7, <2>3 DEF Agrees
<1>9. held' \subseteq Key
  BY <1>2, <1>3
<1> QED BY <1>3, <1>6, <1>7, <1>8, <1>9, TypistKeeps

\* A typist's key types what it means.
LEMMA TypesMeaning ==
  ASSUME NEW x \in Key, NEW e, At(Now, wire, e, meant), Down(e, held),
         Now \in Decoder
  PROVE  Types(x, e) = Meaning(x)
<1>0. e.km["SHIFT_L"][2] \in BOOLEAN /\ e.km["SHIFT_R"][2] \in BOOLEAN
  <2>1. e.km \in KeyTable
    BY DEF At, Decoder
  <2>2. "SHIFT_L" \in Code /\ "SHIFT_R" \in Code /\ 2 \in {2, 3}
    BY DEF Code
  <2> QED BY <2>1, <2>2 DEF KeyTable
<1>1. ShiftState(e.km) = ShiftHeld
  BY <1>0 DEF Down, ShiftState, ShiftHeld
<1>2. e.caps = CapsMeant
  BY DEF At, CapsMeant, Odd, Now, CapsMake
<1> QED BY <1>1, <1>2 DEF Types, Meaning

\* A key is pressed, or repeats.
LEMMA PressKeeps == ASSUME NEW x \in Key PROVE DInv /\ Press(x) => DInv'
<1> SUFFICES ASSUME DInv, Press(x) PROVE DInv'
  OBVIOUS
<1>1. PICK e : Ahead(e)
  BY DInvAt
<1>2. held \subseteq Key /\ Now \in Decoder /\ wire \in Seq(Byte)
  BY DInvAt
<1> DEFINE c == x \in {"UP", "DELETE"} /\ "SHIFT_L" \in held
           fake == [i \in 1 .. (IF c THEN 2 ELSE 0) |-> IF i = 1 THEN Prefix ELSE Plain("SHIFT_L", TRUE)]
<1>3. /\ wire' = wire \o fake \o KeyBytes(x, FALSE) /\ held' = held \cup {x}
      /\ meant' = IF Meaning(x) = None THEN meant ELSE Append(meant, Meaning(x))
      /\ UNCHANGED <<extcode_state, capslock_state, keymap, out>>
  BY DEF Press
<1>4. /\ At(Now, wire, e, meant) /\ Agrees(e, held, meant) /\ ~e.ext /\ e.out = meant
      /\ Down(e, held)
  BY <1>1 DEF Ahead, Agrees
<1>5. \E g : /\ At(Now, wire \o fake, g, meant) /\ ~g.ext /\ g.caps = e.caps /\ Down(g, held)
             /\ Shifts(g, e.km["SHIFT_L"][2], e.km["SHIFT_R"][2])
  <2>1. CASE c
    <3>1. Prefix \in Byte /\ Plain("SHIFT_L", TRUE) \in Byte
      BY ByteType
    <3>2. fake = <<Prefix, Plain("SHIFT_L", TRUE)>>
      <4> DEFINE p == Prefix
                 s == Plain("SHIFT_L", TRUE)
                 t == <<p, s>>
      <4>1. fake = [i \in 1 .. 2 |-> IF i = 1 THEN p ELSE s]
        BY <2>1
      <4>2. p \in Byte /\ s \in Byte
        BY <3>1
      <4> HIDE DEF fake, p, s
      <4>3. fake \in Seq(Byte) /\ Len(fake) = 2 /\ fake[1] = p /\ fake[2] = s
        BY <4>1, <4>2
      <4>4. t \in Seq(Byte) /\ Len(t) = 2 /\ t[1] = p /\ t[2] = s
        BY <4>2
      <4> HIDE DEF t
      <4>5. \A i \in 1 .. 2 : i = 1 \/ i = 2
        OBVIOUS
      <4>6. \A i \in 1 .. 2 : fake[i] = t[i]
        BY <4>3, <4>4, <4>5
      <4>7. fake = t
        BY <4>3, <4>4, <4>6, SeqEqual
      <4> QED BY <4>7 DEF t, p, s
    <3> HIDE DEF fake
    <3>3. wire \o fake = Append(Append(wire, Prefix), Plain("SHIFT_L", TRUE))
      <4> DEFINE s == Plain("SHIFT_L", TRUE)
                 p == Prefix
      <4>1. s \in Byte /\ p \in Byte /\ fake = <<p, s>>
        BY <3>1, <3>2
      <4> HIDE DEF s, p
      <4>2. wire \o fake = Append(Append(wire, p), s)
        BY <1>2, <4>1
      <4> QED BY <4>2 DEF s, p
    <3>4. PICK g : /\ At(Now, Append(Append(wire, Prefix), Plain("SHIFT_L", TRUE)), g, meant)
                   /\ ~g.ext /\ g.caps = e.caps /\ Shifts(g, e.km["SHIFT_L"][2], e.km["SHIFT_R"][2])
      BY <1>2, <1>4, FakeSent
    <3>5. Down(g, held)
      BY <3>4, <1>4 DEF Shifts, Down
    <3> QED BY <3>3, <3>4, <3>5
  <2>2. CASE ~c
    <3>1. fake = <<>>
      <4>1. fake = [i \in 1 .. 0 |-> IF i = 1 THEN Prefix ELSE Plain("SHIFT_L", TRUE)]
        BY <2>2
      <4>2. 1 .. 0 = {}
        OBVIOUS
      <4> HIDE DEF fake
      <4>3. fake \in Seq(Byte) /\ Len(fake) = 0
        BY <4>1, <4>2
      <4> QED BY <4>3
    <3> HIDE DEF fake
    <3>2. wire \o fake = wire
      BY <3>1, <1>2
    <3> QED BY <3>2, <1>4 DEF Shifts
  <2> QED BY <2>1, <2>2
<1> HIDE DEF fake
<1>6. PICK g : /\ At(Now, wire \o fake, g, meant) /\ ~g.ext /\ g.caps = e.caps /\ Down(g, held)
               /\ Shifts(g, e.km["SHIFT_L"][2], e.km["SHIFT_R"][2])
  BY <1>5
<1>7. FALSE \in BOOLEAN
  OBVIOUS
<1>8. PICK f : At(Now, (wire \o fake) \o KeyBytes(x, FALSE), f, f.out) /\ After(g, f, x, FALSE)
  BY <1>2, <1>6, <1>7, KeySent
<1>9. Types(x, g) = Meaning(x)
  <2>1. Types(x, e) = Meaning(x)
    BY <1>2, <1>4, TypesMeaning
  <2>2. Types(x, g) = Types(x, e)
    BY <1>6 DEF Types, Shifts, ShiftState
  <2> QED BY <2>1, <2>2
<1>10. f.out = meant'
  <2>1. g.out = meant
    BY <1>6 DEF At
  <2> QED BY <1>3, <1>8, <1>9, <2>1 DEF After, Put
<1>11. Agrees(f, held', f.out)
  <2>1. /\ f.km["SHIFT_L"][2] = IF x = "SHIFT_L" THEN TRUE ELSE g.km["SHIFT_L"][2]
        /\ f.km["SHIFT_R"][2] = IF x = "SHIFT_R" THEN TRUE ELSE g.km["SHIFT_R"][2]
    BY <1>8 DEF After, Shifts
  <2>3. Down(f, held')
    BY <1>3, <1>6, <2>1 DEF Down
  <2>4. f \in Decoder /\ ~f.ext
    BY <1>8 DEF At, After
  <2> QED BY <2>3, <2>4 DEF Agrees
<1>12. held' \subseteq Key
  BY <1>2, <1>3
<1>13. At(Now, wire', f, f.out)
  BY <1>3, <1>8
<1> QED BY <1>3, <1>10, <1>11, <1>12, <1>13, TypistKeeps

\* keyboard_hander and the typist keep the invariant, however many keys are down
\* and bytes on the wire.
THEOREM DecoderSafe == ScanSpec => []DInv
<1>1. DInv /\ [ScanNext]_scanVars => DInv'
  <2> SUFFICES ASSUME DInv, [ScanNext]_scanVars PROVE DInv'
    OBVIOUS
  <2>1. CASE Interrupt
    BY <2>1, InterruptKeeps
  <2>2. ASSUME NEW x \in Key, Press(x) PROVE DInv'
    BY <2>2, PressKeeps
  <2>3. ASSUME NEW x \in Key, Release(x) PROVE DInv'
    BY <2>3, ReleaseKeeps
  <2>4. CASE UNCHANGED scanVars
    <3>1. Now' = Now /\ wire' = wire /\ held' = held /\ meant' = meant
      BY <2>4 DEF scanVars, Now
    <3> QED BY <3>1 DEF DInv
  <2> QED BY <2>1, <2>2, <2>3, <2>4 DEF ScanNext
<1> QED BY <1>1, DecoderInit, PTL DEF ScanSpec

\* Begins is IsPrefix.
LEMMA BeginsPrefix ==
  ASSUME NEW a \in Seq(Char), NEW b \in Seq(Char), Begins(a, b)
  PROVE  IsPrefix(a, b)
<1>1. Len(a) \in Nat /\ Len(b) \in Nat /\ Len(a) <= Len(b) /\ \A i \in 1 .. Len(a) : a[i] = b[i]
  BY DEF Begins
<1>2. SubSeq(a, 1, Len(a)) = SubSeq(b, 1, Len(a))
  BY <1>1
<1> QED BY <1>1, <1>2 DEF IsPrefix

\* keyboard_hander decodes what was typed, in order, over any number of interrupts:
\* the prefix seen in one interrupt counts for the byte of the next one and no other,
\* the break code that goes before an arrow releases no shift, and caps lock follows
\* every make code.
THEOREM TypedIsDecoded == ScanSpec => []DecodesWhatWasTyped
<1>1. DInv => DecodesWhatWasTyped
  <2> SUFFICES ASSUME DInv PROVE DecodesWhatWasTyped
    OBVIOUS
  <2>1. PICK e : Ahead(e)
    BY DInvAt
  <2>2. Now \in Decoder /\ meant \in Seq(Char) /\ wire \in Seq(Byte)
    BY DInvAt
  <2>3. Leads(Now, wire, e, meant) /\ e.out = meant
    BY <2>1 DEF Ahead, At
  <2>4. PICK D : Run(D, Now, wire, e, meant)
    BY <2>3 DEF Leads
  <2>5. D[0] = Now /\ D[Len(wire)] = e /\ \A i \in 0 .. Len(wire) : Begins(D[i].out, meant)
    BY <2>4 DEF Run
  <2>6. Now.out = out /\ out \in Seq(Char)
    BY <2>2 DEF Now, Decoder
  <2>7. Begins(out, meant)
    <3>1. 0 \in 0 .. Len(wire)
      BY <2>2
    <3> QED BY <3>1, <2>5, <2>6
  <2>8. wire = <<>> => out = meant
    BY <2>3, <2>5, <2>6
  <2>9. IsPrefix(out, meant)
    BY <2>2, <2>6, <2>7, BeginsPrefix
  <2> QED BY <2>8, <2>9 DEF DecodesWhatWasTyped
<1> QED BY <1>1, DecoderSafe, PTL
=============================================================================
