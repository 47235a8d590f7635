-------------------------------- MODULE Xhci --------------------------------
(***************************************************************************)
(* The xHCI host controller driver and the enumeration of USB devices      *)
(* (hd/usb3.0), with the controller as its other half.                     *)
(*                                                                         *)
(* The usb_enum thread takes devices from dev_enum_list and makes requests *)
(* one after the other: it writes TRBs into a ring, rings a doorbell and   *)
(* blocks.  The controller executes the TRBs it owns by their cycle bits   *)
(* and puts events on the event ring; xhc_handler takes them off, wakes    *)
(* the thread, and puts the devices of changed ports on the list.          *)
(*                                                                         *)
(*   d.pool[e]   usb_device_pool: root_port, slot_id, slot_state,          *)
(*               wait_task (is it set?), wait_trb_type, last_event_trb     *)
(*   d.list      dev_enum_list                                             *)
(*   d.task      the thread: its state, where it is, its device and what   *)
(*               it still has to ask of it                                 *)
(*   d.port[p]   link state of a root port (PORTSC), "reset" while PR is   *)
(*               set, "none" without a device                              *)
(*   d.stop      why the kernel stopped, or "no"                           *)
(*   ring[r]     TRBs of the command ring (0) and of a device's endpoint   *)
(*               0, the cycle bit of the link TRB, trb and cycle_flag      *)
(*   hc          the controller: dequeue pointer and cycle state of each   *)
(*               ring, doorbells, slots, unread events, and the Normal     *)
(*               TRBs each device still has to fill                        *)
(*   misread     has a completion or a report been taken for a change of a *)
(*               port? (history)                                           *)
(*                                                                         *)
(* The event ring is a queue: the model ends before it would wrap.         *)
(***************************************************************************)
EXTENDS Integers, Sequences, SequencesExt, FiniteSets

CONSTANTS Ports,      \* root ports
          DevCnt,     \* USBDEVCNT
          MaxSlot,    \* xhc->max_slot
          RingTrbs,   \* TRBs of a ring, with the link TRB
          Configs,    \* Configs[p]: bNumConfiguration of the device of a port
          Descs,      \* Descs[p]: descriptors of its first configuration
          Reports,    \* Normal TRBs queued for a HID endpoint
          Lingering   \* may the controller look at a ring again, unasked, some time
                      \* after it has executed the last TRB of it?

VARIABLES d, ring, hc, misread

vars == <<d, ring, hc, misread>>

Port == 1 .. Ports
Dev == 1 .. DevCnt
CmdRing == 0
Stale == 0
NoEvent == [type |-> "none", slot |-> 0, port |-> 0, ok |-> FALSE]
Trb == 0 .. RingTrbs - 2      \* the link TRB follows the last

-----------------------------------------------------------------------------
(* deviceEnum.c: searches in the descriptors of a configuration.  The n-th   *)
(* descriptor of a type, counted from one, in a sequence; 0 for NULL.        *)

Nth(descs, from, type, n) ==
  LET Of(i) == {j \in from .. i : descs[j].type = type}
      Here == {i \in from .. Len(descs) : descs[i].type = type /\ Cardinality(Of(i)) = n}
  IN  IF Here = {} THEN 0 ELSE CHOOSE i \in Here : TRUE

get_interface_desc(descs, n) == Nth(descs, 1, "interface", n)

\* From the interface on; the search does not stop at the next interface.
get_endpoint_desc(descs, interface, n) == Nth(descs, interface, "endpoint", n)

\* ringProc.c: what a request writes, and the type of TRB it waits for.
Command(type) == [ring |-> "cmd", trbs |-> <<type>>, type |-> type]
xhc_cmd_enable_slot == Command("EnableSlot")
xhc_cmd_address_device == Command("AddressDevice")
xhc_cmd_configure_endpoint == Command("ConfigureEndpoint")
xhc_transfer_get_descriptor ==
  [ring |-> "ep0", trbs |-> <<"SetupStage", "DataStage", "StatusStage">>, type |-> "StatusStage"]
xhc_transfer_set_configuration ==
  [ring |-> "ep0", trbs |-> <<"SetupStage", "StatusStage">>, type |-> "StatusStage"]

Repeat(request, n) == [i \in 1 .. n |-> request]

\* build_decriptor_tree: the device, and each configuration twice.
build_decriptor_tree(p) == Repeat(xhc_transfer_get_descriptor, 1 + 2 * Configs[p])

\* USB_HID_interface_init: an endpoint at a time, then the configuration.
Interface(p) == Descs[p][get_interface_desc(Descs[p], 1)]
IsHid(p) == Interface(p).class = "HID"
USB_HID_interface_init(p) ==
  IF IsHid(p) THEN Append(Repeat(xhc_cmd_configure_endpoint, Interface(p).endpoints),
                          xhc_transfer_set_configuration)
  ELSE << >>

\* usb_device_enumeration, for the device of a port.
Requests(p) == <<xhc_cmd_enable_slot, xhc_cmd_address_device>>
               \o build_decriptor_tree(p) \o USB_HID_interface_init(p)

\* What is known of it when it is taken off the list: a container that got its
\* port from a misread event has none yet.
FirstRequests(p) == IF p = 0 THEN <<xhc_cmd_enable_slot>> ELSE Requests(p)

\* TRBs it writes into the command ring and into the ring of the device.
Commands(p) == 2 + (IF IsHid(p) THEN Interface(p).endpoints ELSE 0)
Transfers(p) == 3 * Len(build_decriptor_tree(p)) + 2

\* What the driver relies on.  A descriptor announces the endpoints that follow
\* it.  No ring is ever used up: 8 devices need far less than 255 commands, and a
\* device less than 255 TRBs of endpoint 0.
ASSUME XhciAssumption ==
  /\ Ports \in Nat \ {0} /\ DevCnt \in Nat \ {0} /\ MaxSlot \in Nat /\ Reports \in Nat
  /\ Lingering \in BOOLEAN
  /\ RingTrbs \in Nat /\ RingTrbs > 1
  /\ Configs \in [Port -> Nat]
  /\ \A p \in Port : /\ Descs[p] \in Seq([type : STRING, class : STRING, endpoints : Nat])
                     /\ get_interface_desc(Descs[p], 1) # 0
                     /\ \A n \in 1 .. Interface(p).endpoints :
                          get_endpoint_desc(Descs[p], get_interface_desc(Descs[p], 1), n) # 0
                     /\ Transfers(p) < RingTrbs
                     /\ DevCnt * Commands(p) < RingTrbs

-----------------------------------------------------------------------------
\* xhc_init and deviceEnum.c: a page with a link TRB at its end, PCS = 1.
NewRing == [trb |-> [i \in Trb |-> [type |-> "none", cycle |-> FALSE]], link |-> TRUE,
            at |-> 0, cycle_flag |-> TRUE]

Init ==
  /\ d = [pool |-> [e \in Dev |-> [port |-> 0, slot |-> 0, state |-> "Disabled", wait |-> FALSE,
                                   type |-> "none", event |-> NoEvent]],
          list |-> << >>,
          task |-> [state |-> "RUNNING", pc |-> "check", dev |-> 0, todo |-> << >>],
          port |-> [p \in Port |-> "none"],
          stop |-> "no"]
  /\ ring = [r \in {CmdRing} \cup Dev |-> NewRing]
  /\ hc = [at |-> [r \in {CmdRing} \cup Dev |-> 0], ccs |-> [r \in {CmdRing} \cup Dev |-> TRUE],
           bell |-> {}, slots |-> 0, events |-> << >>, normal |-> [e \in Dev |-> 0],
           failed |-> FALSE]
  /\ misread = FALSE

-----------------------------------------------------------------------------
(* The producer's side: ringProc.c. *)

\* next_trb: at the link TRB, give it the cycle bit and go to the first.  The code
\* means to flip the flag there, but looks at the bit of the first TRB, which no
\* request sets, and ~ of a _Bool is true in any case: the flag stays.
next_trb(r) ==
  IF r.at + 1 \in Trb THEN [r EXCEPT !.at = @ + 1]
  ELSE [r EXCEPT !.at = 0, !.link = r.cycle_flag]

\* Mutant: the pointer moves before the TRB is written.
Put_mut(r, type) ==
  LET n == next_trb(r) IN [n EXCEPT !.trb[n.at] = [type |-> type, cycle |-> n.cycle_flag]]

Put(r, type) == next_trb([r EXCEPT !.trb[r.at] = [type |-> type, cycle |-> r.cycle_flag]])

Running == d.stop = "no"
Thread(at) == Running /\ d.task.state = "RUNNING" /\ d.task.pc = at
Current == d.task.dev
RingOf(request) == IF request.ring = "cmd" THEN CmdRing ELSE Current

\* An assertion of a request: the number of the slot, the state of the slot.
Accepted(request) ==
  /\ request.type \in {"AddressDevice", "ConfigureEndpoint"} =>
       d.pool[Current].slot < MaxSlot /\ d.pool[Current].slot > 0
  /\ request.ring = "ep0" => d.pool[Current].state = "Addressed"

\* The TRBs of a request, one after the other.
Filled(r, trbs) ==
  LET after[i \in 0 .. Len(trbs)] == IF i = 0 THEN r ELSE Put(after[i - 1], trbs[i])
  IN  after[Len(trbs)]

Written(request) ==
  ring' = [ring EXCEPT ![RingOf(request)] = Filled(@, request.trbs)]

\* Mutant: the doorbell rings before the atomic block.
Issue_mut(request) ==
  /\ Written(request)
  /\ d' = [d EXCEPT !.pool[Current].type = request.type, !.pool[Current].event = NoEvent,
                    !.task.pc = "ring"]
  /\ hc' = [hc EXCEPT !.bell = @ \cup {RingOf(request)}]

\* The request's TRBs, wait_trb_type and last_event_trb.
Issue(request) ==
  /\ Written(request)
  /\ d' = [d EXCEPT !.pool[Current].type = request.type, !.pool[Current].event = NoEvent,
                    !.task.pc = "ring"]
  /\ UNCHANGED hc

Refuse == d' = [d EXCEPT !.stop = "request"] /\ UNCHANGED <<ring, hc>>

EnumRequest ==
  /\ Thread("next") /\ d.task.todo # << >>
  /\ IF Accepted(Head(d.task.todo)) THEN Issue(Head(d.task.todo)) ELSE Refuse

\* ATOMIC_OPS: doorbell, wait_task, block.
EnumBlock ==
  /\ Thread("ring")
  /\ d' = [d EXCEPT !.pool[Current].wait = TRUE, !.task.state = "BLOCKED", !.task.pc = "resume"]
  /\ hc' = [hc EXCEPT !.bell = @ \cup {RingOf(Head(d.task.todo))}]
  /\ UNCHANGED ring

\* The thread runs again: wait_task, and what the request returns.  A slot is given
\* to a device with a port only, so what is to be asked of it is now known.
EnumResume ==
  LET type == Head(d.task.todo).type
      dev == d.pool[Current]
  IN  /\ Thread("resume")
      /\ d' = IF type = "EnableSlot" /\ dev.event = NoEvent THEN [d EXCEPT !.stop = "last event"]
              ELSE [d EXCEPT !.task.pc = "next",
                      !.task.todo = Tail(IF type = "EnableSlot" THEN Requests(dev.port) ELSE @),
                      !.pool[Current] = [dev EXCEPT
                         !.wait = FALSE,
                         !.slot = IF type = "EnableSlot" THEN dev.event.slot ELSE @,
                         !.state = CASE type = "EnableSlot" -> "Enabled"
                                     [] type = "AddressDevice" -> "Addressed"
                                     [] OTHER -> @]]
      /\ UNCHANGED <<ring, hc>>

\* The end of an enumeration; a HID device gets its Normal TRBs and a doorbell.
EnumDone ==
  /\ Thread("next") /\ d.task.todo = << >>
  /\ d' = [d EXCEPT !.task.pc = "check"]
  /\ hc' = IF IsHid(d.pool[Current].port) THEN [hc EXCEPT !.normal[Current] = Reports] ELSE hc
  /\ UNCHANGED ring

\* ATOMIC_OPS: wait while dev_enum_list is empty.
EnumWait ==
  /\ Thread("check")
  /\ d' = [d EXCEPT !.task.pc = "pop", !.task.state = IF d.list = << >> THEN "WAITING" ELSE @]
  /\ UNCHANGED <<ring, hc>>

\* list_pop; a node that is in no list any more fails the assertion of remove_node.
EnumPop ==
  /\ Thread("pop")
  /\ d' = IF d.list = << >> THEN [d EXCEPT !.stop = "page zero"]
          ELSE IF Head(d.list) = Stale THEN [d EXCEPT !.stop = "list"]
          ELSE [d EXCEPT !.list = Tail(@),
                         !.task = [state |-> "RUNNING", pc |-> "next", dev |-> Head(d.list),
                                   todo |-> FirstRequests(d.pool[Head(d.list)].port)]]
  /\ UNCHANGED <<ring, hc>>

usb_device_enumeration ==
  /\ EnumWait \/ EnumPop \/ EnumRequest \/ EnumBlock \/ EnumResume \/ EnumDone
  /\ UNCHANGED misread

-----------------------------------------------------------------------------
(* The handler: xhcd.c.  An event handled in a driver state x is the state   *)
(* after it.                                                                 *)

Unblocked(x) == [x EXCEPT !.task.state = "RUNNING"]

get_free_usb_device(x) == {e \in Dev : x.pool[e].port = 0}
find_usb_device(x, slot) == {e \in Dev : x.pool[e].port # 0 /\ x.pool[e].slot = slot}
First(devs) == CHOOSE e \in devs : \A f \in devs : e <= f

\* A container takes the port and goes to the head of the list.  One that is on the
\* list already (for port 0, and so still free) moves there, and the list runs into
\* its old place behind it.
Listed(x, e, p) ==
  [x EXCEPT !.pool[e].port = p,
            !.list = <<e>> \o [i \in DOMAIN @ |-> IF @[i] = e THEN Stale ELSE @[i]]]

\* Mutant: the thread is left asleep.
Enqueue_mut(x, p) == Listed(x, First(get_free_usb_device(x)), p)

Enqueue(x, p) ==
  LET q == Listed(x, First(get_free_usb_device(x)), p)
  IN  IF x.task.state = "WAITING" THEN Unblocked(q) ELSE q

\* An event of another type has the address of a TRB where the number of the port
\* should be: a page of the kernel, below 8 MB, so port 0, and the reserved register
\* before that of port 1 reads 0 (U0).
PortOf(event) == IF event.type = "Port" THEN event.port ELSE 0
LinkState(x, p) == IF p = 0 THEN "U0" ELSE x.port[p]

port_status_change_event_proc(x, event) ==
  LET p == PortOf(event)
  IN  IF LinkState(x, p) = "Polling" THEN [x EXCEPT !.port[p] = "reset"]
      ELSE IF LinkState(x, p) # "U0" THEN [x EXCEPT !.stop = "not U0"]
      ELSE IF get_free_usb_device(x) = {} THEN [x EXCEPT !.stop = "pool is full"]
      ELSE Enqueue(x, p)

\* A command or a transfer has completed.
Completion(x, event) ==
  LET found == find_usb_device(x, event.slot)
      asking == {e \in Dev : x.pool[e].port # 0 /\ x.pool[e].slot = 0 /\ x.pool[e].wait}
      devs == IF event.type = "EnableSlot" /\ asking # {} THEN asking ELSE found
      e == First(devs)
      noted == [x EXCEPT !.pool[e].event = event]
  IN  IF devs = {} THEN [x EXCEPT !.stop = "no device"]
      ELSE IF event.type = "Normal" THEN noted
      ELSE IF \/ ~x.pool[e].wait
              \/ x.pool[e].type # event.type
              \/ x.task.state # "BLOCKED"
           THEN [x EXCEPT !.stop = "waiter"]
      ELSE Unblocked(noted)

\* One pass of the loop; as is the type of the first event of this interrupt.  An
\* error is only logged.  A change of a port that is read as a completion fails the
\* assertion of find_usb_device on the slot.
Handle(x, event, as) ==
  IF x.stop # "no" \/ ~event.ok THEN x
  ELSE IF as = "Port" THEN port_status_change_event_proc(x, event)
  ELSE IF event.type = "Port" THEN [x EXCEPT !.stop = "no slot"]
  ELSE Completion(x, event)

\* The loop takes every event that is there.
Handled(x, events) ==
  LET after[i \in 0 .. Len(events)] ==
        IF i = 0 THEN x ELSE Handle(after[i - 1], events[i], events[1].type)
  IN  after[Len(events)]

\* Events of this interrupt that are taken for a change of a port.
Misread(events) == events[1].type = "Port" /\ \E i \in DOMAIN events :
  events[i].ok /\ events[i].type # "Port"

xhc_handler ==
  /\ Running /\ hc.events # << >>
  /\ d' = Handled(d, hc.events)
  /\ hc' = [hc EXCEPT !.events = << >>]
  /\ misread' = (misread \/ Misread(hc.events))
  /\ UNCHANGED ring

-----------------------------------------------------------------------------
(* The controller and its ports (external). *)

Post(h, event) == [h EXCEPT !.events = Append(@, event)]
PortEvent(p) == [type |-> "Port", slot |-> 0, port |-> p, ok |-> TRUE]

\* A USB 3 device comes up in U0, a USB 2 device polls and needs a reset.
Attach(p, to) ==
  /\ Running /\ d.port[p] = "none" /\ to \in {"U0", "Polling"}
  /\ d' = [d EXCEPT !.port[p] = to] /\ hc' = Post(hc, PortEvent(p)) /\ UNCHANGED ring

ResetDone(p) ==
  /\ Running /\ d.port[p] = "reset"
  /\ d' = [d EXCEPT !.port[p] = "U0"] /\ hc' = Post(hc, PortEvent(p)) /\ UNCHANGED ring

Detach(p) ==
  /\ Running /\ d.port[p] \in {"U0", "Polling"}
  /\ d' = [d EXCEPT !.port[p] = "RxDetect"] /\ hc' = Post(hc, PortEvent(p)) /\ UNCHANGED ring

\* The TRB the controller finds: it owns it when the cycle bit is its own.
AtLink(r) == hc.at[r] \notin Trb
OwnedAt(r, i) == hc.ccs[r] = IF i \in Trb THEN ring[r].trb[i].cycle ELSE ring[r].link
Owned(r) == OwnedAt(r, hc.at[r])

\* Nothing to do: the doorbell is answered.
Drained(r) ==
  /\ Running /\ r \in hc.bell /\ ~Owned(r)
  /\ hc' = [hc EXCEPT !.bell = @ \ {r}] /\ UNCHANGED <<d, ring>>

\* The link TRB toggles the cycle state (TC is set).
Follow(r) ==
  /\ Running /\ r \in hc.bell /\ Owned(r) /\ AtLink(r)
  /\ hc' = [hc EXCEPT !.at[r] = 0, !.ccs[r] = ~@] /\ UNCHANGED <<d, ring>>

\* The event of a TRB; a stage that asks for none has no event.
SlotOf(r, type) == IF type = "EnableSlot" THEN hc.slots + 1
                   ELSE IF r = CmdRing THEN d.pool[Current].slot ELSE d.pool[r].slot

Execute(r, ok) ==
  LET type == ring[r].trb[hc.at[r]].type
      done == [hc EXCEPT !.at[r] = @ + 1, !.slots = IF type = "EnableSlot" THEN @ + 1 ELSE @,
                         !.failed = @ \/ ~ok,
                         !.bell = IF Lingering \/ OwnedAt(r, hc.at[r] + 1) THEN @ ELSE @ \ {r}]
  IN  /\ Running /\ r \in hc.bell /\ ~AtLink(r) /\ Owned(r)
      /\ hc' = IF type \in {"SetupStage", "DataStage"} /\ ok THEN done
               ELSE Post(done, [type |-> type, slot |-> SlotOf(r, type), port |-> 0, ok |-> ok])
      /\ UNCHANGED <<d, ring>>

\* The HID endpoint of a device has data for a Normal TRB.
Report(e) ==
  /\ Running /\ hc.normal[e] > 0
  /\ hc' = Post([hc EXCEPT !.normal[e] = @ - 1],
                [type |-> "Normal", slot |-> d.pool[e].slot, port |-> 0, ok |-> TRUE])
  /\ UNCHANGED <<d, ring>>

Controller ==
  /\ \E r \in {CmdRing} \cup Dev : Drained(r) \/ Follow(r) \/ Execute(r, TRUE) \/ Execute(r, FALSE)
  /\ UNCHANGED misread

Bus ==
  /\ \/ \E p \in Port : (\E to \in {"U0", "Polling"} : Attach(p, to)) \/ ResetDone(p) \/ Detach(p)
     \/ \E e \in Dev : Report(e)
  /\ UNCHANGED misread

Stopped == ~Running /\ UNCHANGED vars

\* Nothing is left to do: no event, no doorbell, the thread waits.
Quiet == Running /\ hc.events = << >> /\ hc.bell = {} /\ d.task.state # "RUNNING" /\ UNCHANGED vars

Next == usb_device_enumeration \/ xhc_handler \/ Controller \/ Bus \/ Stopped \/ Quiet

\* The thread is scheduled (it has a priority like any other), an interrupt is
\* delivered, and the controller works while a doorbell is rung.
Spec == Init /\ [][Next]_vars
             /\ WF_vars(usb_device_enumeration) /\ WF_vars(xhc_handler) /\ WF_vars(Controller)

-----------------------------------------------------------------------------
\* The assertions on the waiter (xhc_handler, xhc_cmd_enable_slot) and on the list
\* (list_pop) hold: a completion finds the device it belongs to, and the thread
\* already blocked on that very type of TRB; after the wake-up there is an event
\* to read and after a wait a device to take.  Only the containers that misread
\* events leave behind can lack a device for their slot, or be on the list twice.
WaiterReady ==
  /\ d.stop \notin {"waiter", "last event", "page zero", "request"}
  /\ d.stop \in {"no device", "list"} => misread

\* Driver and controller agree on each ring (next_trb): the controller owns no TRB
\* of a ring whose doorbell is not rung, but for the request being written, so
\* that nothing is executed twice; and while the thread is blocked and no event is
\* on its way, the controller still has a TRB of its request to execute, unless an
\* event was misread, and so lost.
RingsAgree == Running /\ ~hc.failed =>
  \A r \in {CmdRing} \cup Dev :
    /\ r \notin hc.bell /\ ~(d.task.pc = "ring" /\ r = RingOf(Head(d.task.todo))) => ~Owned(r)
    /\ ~misread /\ d.task.state = "BLOCKED" /\ r = RingOf(Head(d.task.todo)) /\ hc.events = << >> =>
         r \in hc.bell /\ Owned(r)

\* Every device that is put on dev_enum_list is enumerated to the end, whatever
\* order ports, events and the thread run in, unless a request fails (no error is
\* reported to the waiter), an event is misread (its waiter sleeps for good) or the
\* kernel stops.
Enumerated == \A e \in Dev :
  (e \in ToSet(d.list)) ~>
    ((d.task.dev = e /\ d.task.pc = "check") \/ hc.failed \/ misread \/ ~Running)
=============================================================================
