-------------------------------- MODULE Disk --------------------------------
(***************************************************************************)
(* A disk request from device_request() (kernel/device.c) to the AHCI port *)
(* (kernel/hba.c) and back, over the scheduler of module Sched.            *)
(*                                                                         *)
(* Requests queue on device->request_list, sorted by sector; the flag      *)
(* device->do_request lets one task at a time talk to the port.  That task *)
(* starts the command and a `timer' kernel thread that sleeps for the time *)
(* limit, and waits for the thread with waitpid: the thread exits with 1   *)
(* when it wakes up, and the interrupt handler makes it exit with 0.       *)
(*                                                                         *)
(* device_request runs with interrupts off, so it is atomic up to a        *)
(* block(): for its turn (pc "queued"), for the timer thread (pc "sent")   *)
(* and, after an error, for good (pc "failed").  The lock of the buffer    *)
(* that is transferred is left to module Buffer.  Every task has a time    *)
(* slice of one tick, so that any tick may switch tasks.                   *)
(***************************************************************************)
EXTENDS Sched

CONSTANTS NReq,     \* tasks that make requests, in slots 1 .. NReq
          Sectors,  \* sector numbers
          Timeout   \* time limit of a command, in ticks

ASSUME DiskAssumption ==
  /\ NReq \in Nat \ {0} /\ NReq + 1 < TaskNum
  /\ Sectors \subseteq Nat /\ Timeout \in Nat

VARIABLES k,            \* the kernel state
          pc,           \* where each task is
          request_list, \* requests: <<task, sector>>, lowest sector first
          req_direct,   \* direction of the elevator, "FORE" or "BACK"
          do_request,   \* a task is using the port
          sending,      \* port->sending
          timer,        \* port->timer
          status,       \* status[p]: exit status in the TCB
          drive,        \* the drive: "idle", "busy", or "done" with PxIS set
          eoi           \* has lapic_send_eoi ended the last interrupt?

device == <<request_list, req_direct, do_request>>
port == <<sending, timer, drive, eoi>>
vars == <<k, pc, request_list, req_direct, do_request, sending, timer, status, drive, eoi>>

Idle == 0
Requester == 1 .. NReq

Init ==
  /\ k = [state |-> [p \in Pid |-> IF p = Idle THEN "RUNNING"
                                   ELSE IF p \in Requester THEN "READY" ELSE "FREE"],
          container |-> [p \in Pid |-> IF p \in Requester THEN "ready" ELSE NoList],
          list |-> [l \in Lists |-> IF l = "ready" THEN [i \in Requester |-> i] ELSE <<>>],
          running |-> Idle,
          ppid |-> [p \in Pid |-> 0], waitpid |-> [p \in Pid |-> 0],
          priority |-> [p \in Pid |-> 1], ticks |-> [p \in Pid |-> 1],
          value |-> [p \in Pid |-> 0],
          jiffies |-> 0, stop |-> "no"]
  /\ pc = [p \in Pid |-> "run"]
  /\ request_list = <<>> /\ req_direct = "FORE" /\ do_request = FALSE
  /\ sending = NoTask /\ timer = NoTask /\ drive = "idle" /\ eoi = TRUE
  /\ status = [p \in Pid |-> 0]

-----------------------------------------------------------------------------
Executes(p, at) == k.stop = "no" /\ k.running = p /\ pc[p] = at

\* Tasks with interrupts enabled: user tasks outside the kernel, idle, and the
\* timer thread before and after its sleep.
Interruptible(p) == Executes(p, "run") \/ Executes(p, "timer") \/ Executes(p, "timeout")

\* list_insert of a request, and the request of a task.
InsertRequest(s, r) ==
  LET After == {i \in 1 .. Len(s) : s[i][2] > r[2]}
  IN IF After = {} THEN Append(s, r)
     ELSE InsertAt(s, CHOOSE i \in After : \A j \in After : i <= j, r)

RequestOf(p) == CHOOSE i \in 1 .. Len(request_list) : request_list[i][1] = p

\* Mutant: the elevator never turns round.
Turn_mut(i) == req_direct

\* get_next_req: at the end of the list the elevator turns round.  NoTask is
\* the owner of the list's own end node.
Turn(i) ==
  CASE req_direct = "FORE" /\ i = Len(request_list) -> "BACK"
    [] req_direct = "BACK" /\ i = 1 -> "FORE"
    [] OTHER -> req_direct

get_next_req(i) ==
  LET n == IF Turn(i) = "FORE" THEN i + 1 ELSE i - 1
  IN IF n \in 1 .. Len(request_list) THEN request_list[n][1] ELSE NoTask

\* Mutant: do_request is not set.
Start_mut(p) ==
  LET c == get_task(k)
  IN /\ sending' = p /\ timer' = c /\ drive' = "busy"
     /\ k' = block([task_create(k, 1) EXCEPT !.waitpid[p] = c], "block", p, "WAITING")
     /\ pc' = [pc EXCEPT ![p] = "sent", ![c] = "timer"]
     /\ UNCHANGED <<do_request, eoi, status>>

\* do_request() down to waitpid() in sata_sending_wait: sata_busy_wait asserts
\* that a busy drive has a sender, sata_sending_wait that it has none.
Start(p) ==
  LET c == get_task(k)
      m == task_create(k, 1)
  IN IF drive = "busy" \/ sending # NoTask
     THEN /\ k' = Halt(k, "assert")
          /\ UNCHANGED <<pc, do_request, port, status>>
     ELSE /\ do_request' = TRUE
          /\ sending' = p /\ timer' = c /\ drive' = "busy"
          /\ k' = block([m EXCEPT !.waitpid[p] = c], "block", p, "WAITING")
          /\ pc' = [pc EXCEPT ![p] = "sent", ![c] = "timer"]
          /\ UNCHANGED <<eoi, status>>

Wait(p) ==
  /\ k' = block(k, "block", p, "BLOCKED")
  /\ pc' = [pc EXCEPT ![p] = "queued"]
  /\ UNCHANGED <<do_request, port, status>>

\* device_request by a task outside the kernel.
Request ==
  \E p \in Requester, s \in Sectors :
    /\ Executes(p, "run")
    /\ request_list' = InsertRequest(request_list, <<p, s>>)
    /\ IF do_request THEN Wait(p) ELSE Start(p)
    /\ UNCHANGED req_direct

\* Its loop, when block() returns.
RequestResume ==
  \E p \in Requester :
    /\ Executes(p, "queued")
    /\ IF do_request THEN Wait(p) ELSE Start(p)
    /\ UNCHANGED <<request_list, req_direct>>

\* waitpid in sata_sending_wait returns: the timer thread is reaped.  After a
\* success the request leaves the list and its neighbour gets its turn; after
\* an error do_request() blocks, and nothing unblocks it.
SentResume ==
  \E p \in Requester :
    /\ Executes(p, "sent")
    /\ LET c == k.waitpid[p]
           m == freeTask(k, c)
           i == RequestOf(p)
           next == get_next_req(i)
       IN IF status[c] = 0
          THEN /\ k' = IF next = NoTask THEN m ELSE unblock(m, next)
               /\ do_request' = FALSE
               /\ req_direct' = Turn(i)
               /\ request_list' = RemoveAt(request_list, i)
               /\ pc' = [pc EXCEPT ![p] = "run", ![c] = "run"]
          ELSE /\ k' = block(m, "block", p, "BLOCKED")
               /\ pc' = [pc EXCEPT ![p] = "failed", ![c] = "run"]
               /\ UNCHANGED device
    /\ UNCHANGED <<port, status>>

\* The timer thread.
TimerSleep ==
  \E p \in Pid :
    /\ Executes(p, "timer")
    /\ k' = task_sleep(k, Timeout)
    /\ pc' = [pc EXCEPT ![p] = "timeout"]
    /\ UNCHANGED <<device, port, status>>

\* It runs with interrupts on until it clears port->sending, so a pending
\* interrupt comes first.
TimerExpire ==
  \E p \in Pid :
    /\ Executes(p, "timeout") /\ drive # "done"
    /\ sending' = NoTask
    /\ status' = [status EXCEPT ![p] = 1]
    /\ k' = kernel_thread_exit(k, p)
    /\ UNCHANGED <<pc, device, timer, drive, eoi>>

\* The drive completes the command (external), perhaps after the time limit.
DriveDone ==
  /\ drive = "busy"
  /\ drive' = "done"
  /\ UNCHANGED <<k, pc, device, sending, timer, status, eoi>>

\* hba_handler.  When the thread it makes exit is the one it has interrupted,
\* kernel_thread_exit calls schedule() and does not come back: PxIS is not
\* cleared and the interrupt not ended.
HbaInt ==
  \E p \in Pid :
    /\ Interruptible(p) /\ eoi /\ drive = "done"
    /\ IF sending = NoTask
       THEN /\ k' = Halt(k, "assert")
            /\ UNCHANGED <<sending, status, drive, eoi>>
       ELSE /\ sending' = NoTask
            /\ status' = [status EXCEPT ![timer] = 0]
            /\ k' = kernel_thread_exit(k, timer)
            /\ drive' = IF timer = p THEN "done" ELSE "idle"
            /\ eoi' = (timer # p)
    /\ UNCHANGED <<pc, device, timer>>

ClockTick ==
  /\ eoi
  /\ \E p \in Pid : Interruptible(p)
  /\ k' = clock_handler(k)
  /\ UNCHANGED <<pc, device, port, status>>

\* The kernel has halted, or waits for interrupts that no longer come.
Stopped == (k.stop # "no" \/ ~eoi) /\ UNCHANGED vars

Next == \/ Request \/ RequestResume \/ SentResume \/ TimerSleep \/ TimerExpire
        \/ DriveDone \/ HbaInt \/ ClockTick \/ Stopped

Spec == Init /\ [][Next]_vars

\* The clock ticks, kernel code runs, the drive answers unless the time limit
\* comes first, and an interrupt that is pending is taken as soon as interrupts
\* are enabled.
FairSpec ==
  /\ Spec
  /\ WF_vars(RequestResume \/ SentResume \/ TimerSleep)
  /\ WF_vars(ClockTick) /\ WF_vars(DriveDone) /\ SF_vars(HbaInt)

-----------------------------------------------------------------------------
(* Properties *)

\* No assertion of list.c, task.c, device.c and hba.c fails, and nobody
\* dereferences a task that is gone, with one exception: the drive has answered
\* after the time limit, when port->sending is cleared already.
NoAssert == k.stop \in {"assert", "fault"} => drive = "done" /\ sending = NoTask

\* One command at a time: do_request is set just while one task is between
\* sending its command and reaping its timer thread, and the port belongs to
\* that task until its command is over.
OneSender ==
  LET Senders == {p \in Requester : pc[p] \in {"sent", "failed"}}
  IN /\ \A p, q \in Senders : p = q
     /\ do_request <=> Senders # {}
     /\ sending # NoTask => sending \in Senders

\* No wake-up is lost among the requests: when nobody uses the port, some task
\* whose request is waiting is about to look at do_request again.
NoStall ==
  ~do_request /\ request_list # <<>> =>
    \E i \in 1 .. Len(request_list) : k.state[request_list[i][1]] \in {"READY", "RUNNING"}

\* A timer thread never outlives its request: every slot that is not free is
\* idle, a requester, or the thread the one sender waits for.
TimersReaped ==
  \A c \in Pid \ ({Idle} \cup Requester) : k.state[c] # "FREE" =>
    pc[k.ppid[c]] = "sent" /\ k.waitpid[k.ppid[c]] = c

\* A command that was sent comes back to its sender, with success or, after a
\* timeout, with an error, unless the kernel has stopped: an assertion has
\* failed, or the handler interrupted the timer thread itself and never ended
\* the interrupt.  No sender can be missed, since a moment without one comes
\* again and again.
SentReturns ==
  []<>((\A p \in Requester : pc[p] # "sent") \/ k.stop # "no" \/ ~eoi)

\* While there are requests, the port does not stay unused, with the same
\* exception.
PortUsed ==
  (request_list # <<>> /\ ~do_request) ~> (do_request \/ k.stop # "no" \/ ~eoi)
=============================================================================
