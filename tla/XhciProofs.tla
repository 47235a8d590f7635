----------------------------- MODULE XhciProofs -----------------------------
(***************************************************************************)
(* Enumeration over the rings of the host controller is safe for every     *)
(* number of ports, devices, descriptors and TRBs, until an event is read  *)
(* as one of another type: the thread is there when its completion comes,  *)
(* and driver and controller agree on every ring.                          *)
(***************************************************************************)
EXTENDS Xhci, SequenceTheorems, FiniteSetTheorems, WellFoundedInduction, TLAPS

-----------------------------------------------------------------------------
(* Numbers and sequences *)

\* A set of numbers has a least element: a loop that has gone wrong has a first
\* round where it did.
LEMMA LeastElement ==
  ASSUME NEW T \in SUBSET Nat, T # {}
  PROVE  \E x \in T : \A y \in T : x <= y
<1> DEFINE R == {ss \in Nat \X Nat : ss[1] < ss[2]}
<1>1. R = OpToRel(<, Nat)
  BY DEF OpToRel
<1>2. IsWellFoundedOn(R, Nat)
  BY <1>1, NatLessThanWellFounded
<1>3. \A x, y \in Nat : x < y => <<x, y>> \in R
  OBVIOUS
<1> HIDE DEF R
<1>4. \E x \in T : \A y \in T : ~(<<y, x>> \in R)
  BY <1>2, WFMin
<1>5. PICK x \in T : \A y \in T : ~(<<y, x>> \in R)
  BY <1>4
<1>6. ASSUME NEW y \in T PROVE x <= y
  <2>1. x \in Nat /\ y \in Nat
    OBVIOUS
  <2>2. ~(y < x)
    BY <2>1, <1>3, <1>5
  <2> QED BY <2>1, <2>2
<1> QED BY <1>6

Has(s, e) == \E i \in 1 .. Len(s) : s[i] = e
Once(s) == \A i, j \in 1 .. Len(s) : s[i] = s[j] => i = j

\* Pushing at the head (list_push).
LEMMA ConsFacts ==
  ASSUME NEW S, NEW s \in Seq(S), NEW e \in S
  PROVE  /\ <<e>> \o s \in Seq(S) /\ <<e>> \o s # <<>>
         /\ \A x : Has(<<e>> \o s, x) <=> x = e \/ Has(s, x)
         /\ Once(s) /\ ~Has(s, e) => Once(<<e>> \o s)
<1> DEFINE t == <<e>> \o s
<1>1. /\ t \in Seq(S) /\ Len(t) = Len(s) + 1
      /\ t[1] = e /\ \A i \in 1 .. Len(s) : t[i + 1] = s[i]
  OBVIOUS
<1> HIDE DEF t
<1>2. \A i \in 1 .. Len(t) : i = 1 \/ (i - 1 \in 1 .. Len(s) /\ t[i] = s[i - 1])
  <2> SUFFICES ASSUME NEW i \in 1 .. Len(t), i # 1
               PROVE  i - 1 \in 1 .. Len(s) /\ t[i] = s[i - 1]
    OBVIOUS
  <2>1. i - 1 \in 1 .. Len(s) /\ (i - 1) + 1 = i
    BY <1>1
  <2> QED BY <2>1, <1>1
<1>3. ASSUME NEW x PROVE Has(t, x) <=> x = e \/ Has(s, x)
  <2>1. ASSUME Has(t, x) PROVE x = e \/ Has(s, x)
    BY <1>1, <1>2, <2>1 DEF Has
  <2>2. ASSUME Has(s, x) PROVE Has(t, x)
    <3>1. PICK i \in 1 .. Len(s) : s[i] = x
      BY <2>2 DEF Has
    <3>2. i + 1 \in 1 .. Len(t) /\ t[i + 1] = x
      BY <3>1, <1>1
    <3> QED BY <3>2 DEF Has
  <2>3. Has(t, e)
    BY <1>1 DEF Has
  <2> QED BY <2>1, <2>2, <2>3
<1>4. ASSUME Once(s), ~Has(s, e) PROVE Once(t)
  <2> SUFFICES ASSUME NEW i \in 1 .. Len(t), NEW j \in 1 .. Len(t), t[i] = t[j]
               PROVE  i = j
    BY DEF Once
  <2>1. CASE i = 1 \/ j = 1
    BY <2>1, <1>1, <1>2, <1>4 DEF Has
  <2>2. CASE i # 1 /\ j # 1
    <3>1. s[i - 1] = s[j - 1] /\ i - 1 \in 1 .. Len(s) /\ j - 1 \in 1 .. Len(s)
      BY <2>2, <1>2
    <3>2. i - 1 = j - 1
      BY <3>1, <1>4 DEF Once
    <3> QED BY <3>2, <1>1
  <2> QED BY <2>1, <2>2
<1> QED BY <1>1, <1>3, <1>4 DEF t

\* Taking off the first element (the newest waiter of wait_list).
LEMMA TailFacts ==
  ASSUME NEW S, NEW s \in Seq(S), s # <<>>, Once(s)
  PROVE  /\ Head(s) \in S /\ Has(s, Head(s)) /\ Tail(s) \in Seq(S) /\ Once(Tail(s))
         /\ \A x : Has(Tail(s), x) <=> Has(s, x) /\ x # Head(s)
<1> DEFINE t == Tail(s)
           n == Len(s)
<1>1. n \in Nat \ {0}
  BY EmptySeq
<1>2. t \in Seq(S) /\ Len(t) = n - 1 /\ \A i \in 1 .. n - 1 : t[i] = s[i + 1]
  BY <1>1, HeadTailProperties
<1>3. Head(s) = s[1] /\ 1 \in 1 .. Len(s)
  BY <1>1
<1> HIDE DEF t
<1>4. Once(t)
  <2> SUFFICES ASSUME NEW i \in 1 .. n - 1, NEW j \in 1 .. n - 1, t[i] = t[j] PROVE i = j
    BY <1>2 DEF Once
  <2>1. s[i + 1] = s[j + 1] /\ i + 1 \in 1 .. n /\ j + 1 \in 1 .. n
    BY <1>1, <1>2
  <2>2. i + 1 = j + 1
    BY <2>1 DEF Once
  <2> QED BY <2>2
<1>5. ASSUME NEW x PROVE Has(t, x) <=> Has(s, x) /\ x # Head(s)
  <2>1. ASSUME Has(t, x) PROVE Has(s, x) /\ x # Head(s)
    <3>1. PICK i \in 1 .. n - 1 : t[i] = x
      BY <2>1, <1>2 DEF Has
    <3>2. i + 1 \in 1 .. n /\ i + 1 # 1 /\ s[i + 1] = x
      BY <3>1, <1>1, <1>2
    <3> QED BY <3>2, <1>3 DEF Has, Once
  <2>2. ASSUME Has(s, x), x # Head(s) PROVE Has(t, x)
    <3>1. PICK i \in 1 .. n : s[i] = x
      BY <2>2 DEF Has
    <3>2. i - 1 \in 1 .. n - 1 /\ (i - 1) + 1 = i
      BY <3>1, <2>2, <1>1, <1>3
    <3>3. t[i - 1] = x
      BY <3>1, <3>2, <1>2
    <3> QED BY <3>2, <3>3, <1>2 DEF Has
  <2> QED BY <2>1, <2>2
<1> QED BY <1>2, <1>3, <1>4, <1>5 DEF Has, t

-----------------------------------------------------------------------------
(* The inductive invariant *)

Rings == {CmdRing} \cup Dev

\* Types of TRBs and of events.
Kind == {"none", "EnableSlot", "AddressDevice", "ConfigureEndpoint",
         "SetupStage", "DataStage", "StatusStage", "Normal", "Port"}
Event == [type : Kind, slot : Nat, port : 0 .. Ports, ok : BOOLEAN]
Request == [ring : {"cmd", "ep0"}, trbs : Seq(Kind), type : Kind]

\* What the fields of xhci.h hold.
Container == [port : 0 .. Ports, slot : Nat, state : {"Disabled", "Enabled", "Addressed"},
              wait : BOOLEAN, type : Kind, event : Event]
TaskState == [state : {"RUNNING", "WAITING", "BLOCKED"}, dev : 0 .. DevCnt, todo : Seq(Request),
              pc : {"check", "pop", "next", "ring", "resume"}]

\* Why the kernel stops: assertions that never fail, and others.
Trap == {"waiter", "no device", "last event", "page zero", "list", "request"}
Stop == Trap \cup {"no", "no slot", "not U0", "pool is full"}

DriverState ==
  [pool : [Dev -> Container], list : Seq(Dev), task : TaskState,
   port : [Port -> {"none", "U0", "Polling", "reset", "RxDetect"}],
   stop : Stop]

RingState == [trb : [Trb -> [type : Kind, cycle : BOOLEAN]], link : BOOLEAN, at : Trb,
              cycle_flag : BOOLEAN]

ControllerState ==
  [at : [Rings -> 0 .. RingTrbs - 1], ccs : [Rings -> BOOLEAN], bell : SUBSET Rings, slots : Nat,
   events : Seq(Event), normal : [Dev -> Nat], failed : BOOLEAN]

\* The device being enumerated, its request, and how many requests are behind it.
Busy(x) == x.task.pc \in {"next", "ring", "resume"}
Mine(x) == x.pool[x.task.dev]
InHand(x) == Head(x.task.todo)
RingFor(x) == IF InHand(x).ring = "cmd" THEN CmdRing ELSE x.task.dev
Done(x) == Len(Requests(Mine(x).port)) - Len(x.task.todo)
Issued(x) == IF x.task.pc = "next" THEN Done(x) ELSE Done(x) + 1

\* Devices that have left dev_enum_list.
Popped(x) == {e \in Dev : x.pool[e].port # 0 /\ ~Has(x.list, e)}

\* Where the thread is.
ThreadOK(x) ==
  /\ x.task.state = "BLOCKED" => x.task.pc = "resume"
  /\ x.task.state = "WAITING" => x.task.pc = "pop" /\ x.list = << >>
  /\ x.task.pc = "pop" /\ x.task.state = "RUNNING" => x.list # << >>

\* The containers: free, on the list, being enumerated or enumerated.
PoolOK(x, h) ==
  /\ Once(x.list)
  /\ \A e \in Dev :
       /\ x.pool[e].port = 0 \/ Has(x.list, e) =>
            x.pool[e].slot = 0 /\ ~(Busy(x) /\ x.task.dev = e)
       /\ Has(x.list, e) => x.pool[e].port # 0
       /\ x.pool[e].wait => x.task.pc = "resume" /\ x.task.dev = e
       /\ h.normal[e] > 0 => x.pool[e].slot # 0 /\ ~(Busy(x) /\ x.task.dev = e)
       /\ x.pool[e].slot <= h.slots
  /\ \A e, f \in Dev : x.pool[e].slot = x.pool[f].slot /\ x.pool[e].slot # 0 => e = f

\* An enumeration has made the first requests of its device, and what they
\* returned is in the container.
ProgressOK(x) ==
  Busy(x) =>
    /\ x.task.dev \in Dev /\ Mine(x).port # 0
    /\ Done(x) >= 0
    /\ \A i \in 1 .. Len(x.task.todo) : x.task.todo[i] = Requests(Mine(x).port)[Done(x) + i]
    /\ x.task.pc # "next" => x.task.todo # << >>
    /\ (Mine(x).slot = 0) <=> (Done(x) = 0)
    /\ Done(x) >= 2 => Mine(x).state = "Addressed"
    /\ x.task.pc # "next" => Mine(x).type = InHand(x).type
    /\ x.task.pc = "resume" => Mine(x).wait

\* TRBs written into a ring: the pointer is back at the first when it is full.
Count(r) == IF r.at = 0 /\ r.trb[0].cycle THEN RingTrbs - 1 ELSE r.at

\* The controller has TRBs of a ring left to execute.
Left(rg, h, r) == h.ccs[r] /\ h.at[r] < Count(rg[r])
AtEnd(rg, h, r) == h.ccs[r] /\ h.at[r] = RingTrbs - 1

\* What next_trb makes of a ring: its first TRBs, in order, have been written.
Written1(r) ==
  /\ r \in RingState /\ r.cycle_flag /\ r.link
  /\ \A i \in Trb : r.trb[i].cycle <=> i < Count(r)

\* Where the controller is in it.
RingOK(rg, h, r) ==
  /\ Written1(rg[r])
  /\ h.at[r] <= Count(rg[r])
  /\ ~h.ccs[r] => h.at[r] = 0 /\ Count(rg[r]) = RingTrbs - 1

\* TRBs left are the last ones of the request in hand; the doorbell is rung for
\* them once the thread is blocked, or for the link TRB.
LeftOK(x, rg, h) ==
  /\ \A r \in Rings : Left(rg, h, r) =>
       /\ x.task.pc \in {"ring", "resume"} /\ r = RingFor(x)
       /\ x.task.pc = "resume" => x.task.state = "BLOCKED" /\ r \in h.bell
       /\ Count(rg[r]) - h.at[r] <= Len(InHand(x).trbs)
       /\ \A i \in h.at[r] .. Count(rg[r]) - 1 :
            rg[r].trb[i].type = InHand(x).trbs[Len(InHand(x).trbs) - Count(rg[r]) + i + 1]
  /\ \A r \in Rings : r \in h.bell =>
       \/ Left(rg, h, r) /\ x.task.pc = "resume"
       \/ AtEnd(rg, h, r) \/ ~h.ccs[r]
  /\ \A r \in Rings : AtEnd(rg, h, r) => r \in h.bell
  /\ x.task.pc = "ring" => Left(rg, h, RingFor(x))

\* Room in the rings.
CmdBound == CHOOSE b \in 0 .. RingTrbs :
  DevCnt * b < RingTrbs /\ \A p \in Port : Commands(p) <= b

\* Descriptors asked for, and Configure Endpoint commands; TRBs written with j
\* requests.
Trees(p) == 1 + 2 * Configs[p]
Endpoints(p) == IF IsHid(p) THEN Interface(p).endpoints ELSE 0
CommandsIn(p, j) ==
  IF j <= 2 THEN j
  ELSE IF j <= 2 + Trees(p) THEN 2
  ELSE IF j <= 2 + Trees(p) + Endpoints(p) THEN j - Trees(p) ELSE 2 + Endpoints(p)
TransfersIn(p, j) ==
  IF j <= 2 THEN 0
  ELSE IF j <= 2 + Trees(p) THEN 3 * (j - 2)
  ELSE IF j <= 2 + Trees(p) + Endpoints(p) THEN 3 * Trees(p) ELSE 3 * Trees(p) + 2
RoomOK(x, rg) ==
  /\ Busy(x) =>
       /\ Count(rg[CmdRing]) <= CmdBound * (Cardinality(Popped(x)) - 1)
                                  + CommandsIn(Mine(x).port, Issued(x))
       /\ Count(rg[x.task.dev]) = TransfersIn(Mine(x).port, Issued(x))
  /\ ~Busy(x) => Count(rg[CmdRing]) <= CmdBound * Cardinality(Popped(x))
  /\ \A e \in Dev : e \notin Popped(x) => Count(rg[e]) = 0

\* EnableSlot is not yet executed, and has been.
Unnumbered(x, rg, h) == Busy(x) /\ Done(x) = 0 /\ (x.task.pc = "next" \/ Left(rg, h, CmdRing))
Numbered(x, rg, h) == x.task.pc = "resume" /\ Done(x) = 0 /\ ~Left(rg, h, CmdRing)
SlotsOK(x, rg, h) ==
  /\ h.slots + (IF Unnumbered(x, rg, h) THEN 1 ELSE 0) <= Cardinality(Popped(x))
  /\ Numbered(x, rg, h) => h.slots > 0 /\ \A e \in Dev : x.pool[e].slot < h.slots
  /\ Numbered(x, rg, h) /\ x.task.state = "RUNNING" =>
       Mine(x).event.type = "EnableSlot" /\ Mine(x).event.slot = h.slots

\* The events in E: at most one of them answers the request in hand.
Answers(event) == event.ok /\ event.type \notin {"Port", "Normal"}
EventOK(x, rg, h, event) ==
  /\ event.type = "Port" => event.ok /\ event.port \in Port
  /\ event.ok /\ event.type = "Normal" =>
       event.slot # 0 /\ \E e \in Dev : x.pool[e].slot = event.slot
                                        /\ ~(Busy(x) /\ x.task.dev = e)
  /\ Answers(event) =>
       /\ x.task.state = "BLOCKED" /\ ~Left(rg, h, RingFor(x))
       /\ event.type = InHand(x).type
       /\ event.slot = IF Done(x) = 0 THEN h.slots ELSE Mine(x).slot
EventsOK(x, rg, h, E) ==
  /\ \A i \in E : EventOK(x, rg, h, h.events[i])
  /\ \A i, j \in E : Answers(h.events[i]) /\ Answers(h.events[j]) => i = j
  /\ x.task.state = "BLOCKED" /\ ~h.failed /\ ~Left(rg, h, RingFor(x)) =>
       \E i \in E : Answers(h.events[i])

Core(x, rg, h, E) ==
  /\ ThreadOK(x) /\ PoolOK(x, h) /\ ProgressOK(x)
  /\ \A r \in Rings : RingOK(rg, h, r)
  /\ LeftOK(x, rg, h) /\ RoomOK(x, rg) /\ SlotsOK(x, rg, h) /\ EventsOK(x, rg, h, E)

Typed(x, rg, h) == x \in DriverState /\ rg \in [Rings -> RingState] /\ h \in ControllerState

IInv ==
  /\ Typed(d, ring, hc)
  /\ d.stop \notin Trap
  /\ Running => Core(d, ring, hc, 1 .. Len(hc.events))

-----------------------------------------------------------------------------
(* What an enumeration asks for *)

\* The i-th request.
Step(p, i) ==
  IF i = 1 THEN xhc_cmd_enable_slot
  ELSE IF i = 2 THEN xhc_cmd_address_device
  ELSE IF i <= 2 + Trees(p) THEN xhc_transfer_get_descriptor
  ELSE IF i <= 2 + Trees(p) + Endpoints(p) THEN xhc_cmd_configure_endpoint
  ELSE xhc_transfer_set_configuration

Steps(p) == 2 + Trees(p) + (IF IsHid(p) THEN Endpoints(p) + 1 ELSE 0)

\* Short tuples.
LEMMA TupleTypes ==
  ASSUME NEW S, NEW x \in S, NEW y \in S, NEW z \in S
  PROVE  <<x>> \in Seq(S) /\ <<x, y>> \in Seq(S) /\ <<x, y, z>> \in Seq(S)
OBVIOUS

\* Requests are what their type says.
LEMMA RequestTypes ==
  /\ xhc_cmd_enable_slot \in Request /\ xhc_cmd_address_device \in Request
  /\ xhc_cmd_configure_endpoint \in Request
  /\ xhc_transfer_get_descriptor \in Request /\ xhc_transfer_set_configuration \in Request
<1>1. /\ xhc_cmd_enable_slot.trbs \in Seq(Kind) /\ xhc_cmd_address_device.trbs \in Seq(Kind)
      /\ xhc_cmd_configure_endpoint.trbs \in Seq(Kind)
  BY TupleTypes DEF Kind, Command, xhc_cmd_enable_slot, xhc_cmd_address_device, xhc_cmd_configure_endpoint
<1>2. /\ xhc_transfer_get_descriptor.trbs \in Seq(Kind)
      /\ xhc_transfer_set_configuration.trbs \in Seq(Kind)
  BY TupleTypes DEF Kind, xhc_transfer_get_descriptor, xhc_transfer_set_configuration
<1> QED BY <1>1, <1>2
  DEF Kind, Request, Command, xhc_cmd_enable_slot, xhc_cmd_address_device, xhc_cmd_configure_endpoint,
      xhc_transfer_get_descriptor, xhc_transfer_set_configuration

\* A descriptor tells how many endpoints its interface has.
LEMMA DescriptorFacts ==
  ASSUME NEW p \in Port
  PROVE  Trees(p) \in Nat \ {0} /\ Endpoints(p) \in Nat
<1>1. Trees(p) \in Nat \ {0}
  BY XhciAssumption DEF Trees
<1> DEFINE s == Descs[p]
           n == get_interface_desc(s, 1)
           Of(i) == {j \in 1 .. i : s[j].type = "interface"}
           Here == {i \in 1 .. Len(s) : s[i].type = "interface" /\ Cardinality(Of(i)) = 1}
<1>2. s \in Seq([type : STRING, class : STRING, endpoints : Nat]) /\ n # 0
  BY XhciAssumption
<1>3. n = IF Here = {} THEN 0 ELSE CHOOSE i \in Here : TRUE
  BY DEF get_interface_desc, Nth
<1> HIDE DEF n
<1>4. n \in Here
  BY <1>2, <1>3
<1>5. n \in 1 .. Len(s)
  BY <1>4
<1> HIDE DEF Here, s
<1>6. s[n] \in [type : STRING, class : STRING, endpoints : Nat]
  BY <1>2, <1>5, ElementOfSeq
<1>7. Interface(p).endpoints \in Nat
  BY <1>6 DEF Interface, s, n
<1> QED BY <1>1, <1>7 DEF Endpoints

\* A request repeated.
LEMMA RepeatFacts ==
  ASSUME NEW request \in Request, NEW n \in Nat
  PROVE  /\ Repeat(request, n) \in Seq(Request) /\ Len(Repeat(request, n)) = n
         /\ \A i \in 1 .. n : Repeat(request, n)[i] = request
BY DEF Repeat

\* The parts of a sequence of sequences.
LEMMA ConcatFacts ==
  ASSUME NEW S, NEW s \in Seq(S), NEW t \in Seq(S)
  PROVE  /\ s \o t \in Seq(S) /\ Len(s \o t) = Len(s) + Len(t)
         /\ \A i \in 1 .. Len(s) : (s \o t)[i] = s[i]
         /\ \A i \in Len(s) + 1 .. Len(s) + Len(t) : (s \o t)[i] = t[i - Len(s)]
OBVIOUS

\* The requests of an enumeration, one by one (usb_device_enumeration).
LEMMA RequestsAre ==
  ASSUME NEW p \in Port
  PROVE  /\ Requests(p) \in Seq(Request) /\ Len(Requests(p)) = Steps(p)
         /\ \A i \in 1 .. Steps(p) : Requests(p)[i] = Step(p, i)
<1>1. Trees(p) \in Nat \ {0} /\ Endpoints(p) \in Nat
  BY DescriptorFacts
<1> DEFINE a == <<xhc_cmd_enable_slot, xhc_cmd_address_device>>
           b == build_decriptor_tree(p)
           c == Repeat(xhc_cmd_configure_endpoint, Endpoints(p))
           e == USB_HID_interface_init(p)
<1>2. a \in Seq(Request) /\ Len(a) = 2 /\ a[1] = xhc_cmd_enable_slot /\ a[2] = xhc_cmd_address_device
  BY RequestTypes
<1>3. /\ b \in Seq(Request) /\ Len(b) = Trees(p)
      /\ \A i \in 1 .. Trees(p) : b[i] = xhc_transfer_get_descriptor
  BY <1>1, RepeatFacts, RequestTypes DEF build_decriptor_tree, Trees
<1>4. /\ c \in Seq(Request) /\ Len(c) = Endpoints(p)
      /\ \A i \in 1 .. Endpoints(p) : c[i] = xhc_cmd_configure_endpoint
  BY <1>1, RepeatFacts, RequestTypes
<1> HIDE DEF a, b, c
<1>5. e = IF IsHid(p) THEN Append(c, xhc_transfer_set_configuration) ELSE << >>
  BY DEF USB_HID_interface_init, c, Endpoints
<1> HIDE DEF e
<1> DEFINE n == IF IsHid(p) THEN Endpoints(p) + 1 ELSE 0
<1>6. /\ e \in Seq(Request) /\ Len(e) = n
      /\ \A i \in 1 .. n :
           e[i] = IF i <= Endpoints(p) THEN xhc_cmd_configure_endpoint ELSE xhc_transfer_set_configuration
  <2>1. CASE IsHid(p)
    <3>1. /\ e \in Seq(Request) /\ Len(e) = Endpoints(p) + 1
          /\ e[Endpoints(p) + 1] = xhc_transfer_set_configuration
          /\ \A i \in 1 .. Endpoints(p) : e[i] = c[i]
      BY <1>4, <1>5, <2>1, RequestTypes, AppendProperties
    <3> QED BY <1>1, <1>4, <2>1, <3>1
  <2>2. CASE ~IsHid(p)
    BY <1>5, <2>2
  <2> QED BY <2>1, <2>2
<1> HIDE DEF n
<1>7. Steps(p) = 2 + Trees(p) + n /\ n \in Nat
  BY <1>1 DEF Steps, n
<1> DEFINE ab == a \o b
<1>8. /\ ab \in Seq(Request) /\ Len(ab) = 2 + Trees(p)
      /\ ab[1] = xhc_cmd_enable_slot /\ ab[2] = xhc_cmd_address_device
      /\ \A i \in 3 .. 2 + Trees(p) : ab[i] = xhc_transfer_get_descriptor
  <2>1. /\ ab \in Seq(Request) /\ Len(ab) = Len(a) + Len(b)
        /\ \A i \in 1 .. Len(a) : ab[i] = a[i]
        /\ \A i \in Len(a) + 1 .. Len(a) + Len(b) : ab[i] = b[i - Len(a)]
    BY <1>2, <1>3, ConcatFacts
  <2>2. 1 \in 1 .. Len(a) /\ 2 \in 1 .. Len(a)
    BY <1>2
  <2>3. \A i \in 3 .. 2 + Trees(p) : i \in Len(a) + 1 .. Len(a) + Len(b) /\ i - Len(a) \in 1 .. Trees(p)
    BY <1>1, <1>2, <1>3
  <2> HIDE DEF ab
  <2> QED BY <1>2, <1>3, <2>1, <2>2, <2>3
<1> HIDE DEF ab
<1> DEFINE abe == ab \o e
<1>9. Requests(p) = abe
  BY DEF Requests, a, b, ab, e
<1>10. /\ abe \in Seq(Request) /\ Len(abe) = Steps(p)
       /\ \A i \in 1 .. 2 + Trees(p) : abe[i] = ab[i]
       /\ \A i \in 3 + Trees(p) .. Steps(p) : abe[i] = e[i - (2 + Trees(p))]
  <2>1. 2 + Trees(p) + 1 = 3 + Trees(p)
    BY <1>1
  <2>2. /\ abe \in Seq(Request) /\ Len(abe) = Len(ab) + Len(e)
        /\ \A i \in 1 .. Len(ab) : abe[i] = ab[i]
        /\ \A i \in Len(ab) + 1 .. Len(ab) + Len(e) : abe[i] = e[i - Len(ab)]
    BY <1>6, <1>8, ConcatFacts
  <2> HIDE DEF abe
  <2> QED BY <1>6, <1>7, <1>8, <2>1, <2>2
<1> HIDE DEF abe
<1>11. ASSUME NEW i \in 1 .. Steps(p) PROVE abe[i] = Step(p, i)
  <2>1. CASE i <= 2 + Trees(p)
    <3>1. i \in 1 .. 2 + Trees(p) /\ (i = 1 \/ i = 2 \/ i \in 3 .. 2 + Trees(p))
      BY <1>1, <1>7, <2>1
    <3> QED BY <1>1, <1>8, <1>10, <2>1, <3>1 DEF Step
  <2>2. CASE i > 2 + Trees(p)
    <3> DEFINE j == i - (2 + Trees(p))
    <3>1. i \in 3 + Trees(p) .. Steps(p) /\ j \in 1 .. n /\ i # 1 /\ i # 2
      BY <1>1, <1>7, <2>2
    <3>2. j <= Endpoints(p) <=> i <= 2 + Trees(p) + Endpoints(p)
      BY <1>1, <1>7, <2>2
    <3> QED BY <1>1, <1>6, <1>10, <2>2, <3>1, <3>2, SMTT(30) DEF Step
  <2> QED BY <1>1, <1>7, <2>1, <2>2
<1> QED BY <1>9, <1>10, <1>11

\* What a request writes: at the end the TRB it waits for, the stages before it
\* ask for no event.
LEMMA StepFacts ==
  ASSUME NEW p \in Port, NEW i \in 1 .. Steps(p)
  PROVE  LET q == Step(p, i)
         IN  /\ q \in Request
             /\ q.ring = "cmd" => Len(q.trbs) = 1
             /\ q.ring = "ep0" => Len(q.trbs) \in {2, 3} /\ q.type = "StatusStage" /\ i > 2
             /\ q.trbs[Len(q.trbs)] = q.type
             /\ \A n \in 1 .. Len(q.trbs) - 1 : q.trbs[n] \in {"SetupStage", "DataStage"}
             /\ q.type \in {"EnableSlot", "AddressDevice", "ConfigureEndpoint", "StatusStage"}
             /\ (q.type = "EnableSlot") <=> (i = 1)
             /\ (q.type = "AddressDevice") <=> (i = 2)
<1>0. Trees(p) \in Nat \ {0} /\ Endpoints(p) \in Nat
  BY DescriptorFacts
<1>1. Step(p, i) \in Request
  BY RequestTypes DEF Step
<1>2. CASE i = 1
  BY <1>1, <1>2 DEF Step, Command, xhc_cmd_enable_slot
<1>3. CASE i = 2
  BY <1>1, <1>3 DEF Step, Command, xhc_cmd_address_device
<1>4. CASE i > 2 /\ i <= 2 + Trees(p)
  <2>1. Step(p, i) = xhc_transfer_get_descriptor /\ i # 1 /\ i # 2
    BY <1>4 DEF Step
  <2>2. xhc_transfer_get_descriptor.trbs = <<"SetupStage", "DataStage", "StatusStage">>
    BY DEF xhc_transfer_get_descriptor
  <2> QED BY <1>1, <1>4, <2>1, <2>2 DEF xhc_transfer_get_descriptor
<1>5. CASE i > 2 + Trees(p) /\ i <= 2 + Trees(p) + Endpoints(p)
  <2>1. Step(p, i) = xhc_cmd_configure_endpoint /\ i # 1 /\ i # 2
    BY <1>0, <1>5 DEF Step
  <2> QED BY <1>1, <1>5, <2>1 DEF Command, xhc_cmd_configure_endpoint
<1>6. CASE i > 2 + Trees(p) + Endpoints(p)
  <2>1. Step(p, i) = xhc_transfer_set_configuration /\ i # 1 /\ i # 2 /\ i > 2
    BY <1>0, <1>6 DEF Step
  <2>2. xhc_transfer_set_configuration.trbs = <<"SetupStage", "StatusStage">>
    BY DEF xhc_transfer_set_configuration
  <2> QED BY <1>1, <1>6, <2>1, <2>2 DEF xhc_transfer_set_configuration
<1> QED BY <1>0, <1>2, <1>3, <1>4, <1>5, <1>6

\* How full a request makes the rings.
LEMMA RoomFacts ==
  ASSUME NEW p \in Port
  PROVE  /\ Steps(p) \in Nat /\ Steps(p) >= 2
         /\ CommandsIn(p, 0) = 0 /\ TransfersIn(p, 0) = 0
         /\ \A j \in 0 .. Steps(p) :
              /\ CommandsIn(p, j) \in 0 .. Commands(p) /\ TransfersIn(p, j) \in 0 .. Transfers(p)
              /\ j > 0 =>
                   IF Step(p, j).ring = "cmd"
                   THEN /\ CommandsIn(p, j) = CommandsIn(p, j - 1) + 1
                        /\ TransfersIn(p, j) = TransfersIn(p, j - 1)
                   ELSE /\ CommandsIn(p, j) = CommandsIn(p, j - 1)
                        /\ TransfersIn(p, j) = TransfersIn(p, j - 1) + Len(Step(p, j).trbs)
<1>0. Trees(p) \in Nat \ {0} /\ Endpoints(p) \in Nat
  BY DescriptorFacts
<1>1. Steps(p) \in Nat /\ Steps(p) >= 2 /\ Commands(p) = 2 + Endpoints(p)
  BY <1>0 DEF Steps, Commands, Endpoints
<1>2. Transfers(p) = 3 * Trees(p) + 2
  <2>1. Len(build_decriptor_tree(p)) = Trees(p)
    BY <1>0, RepeatFacts, RequestTypes DEF build_decriptor_tree, Trees
  <2> QED BY <2>1 DEF Transfers
<1> HIDE DEF Trees, Endpoints
<1>3. CommandsIn(p, 0) = 0 /\ TransfersIn(p, 0) = 0
  BY DEF CommandsIn, TransfersIn
<1>4. ASSUME NEW j \in 0 .. Steps(p)
      PROVE  CommandsIn(p, j) \in 0 .. Commands(p) /\ TransfersIn(p, j) \in 0 .. Transfers(p)
  BY <1>0, <1>1, <1>2 DEF CommandsIn, TransfersIn
<1>5. ASSUME NEW j \in 1 .. Steps(p)
      PROVE  IF Step(p, j).ring = "cmd"
             THEN /\ CommandsIn(p, j) = CommandsIn(p, j - 1) + 1
                  /\ TransfersIn(p, j) = TransfersIn(p, j - 1)
             ELSE /\ CommandsIn(p, j) = CommandsIn(p, j - 1)
                  /\ TransfersIn(p, j) = TransfersIn(p, j - 1) + Len(Step(p, j).trbs)
  <2>1. CASE j <= 2
    <3>1. Step(p, j).ring = "cmd"
      BY <2>1 DEF Step, Command, xhc_cmd_enable_slot, xhc_cmd_address_device
    <3> QED BY <2>1, <3>1 DEF CommandsIn, TransfersIn
  <2>2. CASE j > 2 /\ j <= 2 + Trees(p)
    <3>1. Step(p, j).ring = "ep0" /\ Len(Step(p, j).trbs) = 3
      BY <2>2 DEF Step, xhc_transfer_get_descriptor
    <3> QED BY <1>0, <2>2, <3>1 DEF CommandsIn, TransfersIn
  <2>3. CASE j > 2 + Trees(p) /\ j <= 2 + Trees(p) + Endpoints(p)
    <3>1. Step(p, j).ring = "cmd"
      BY <1>0, <2>3 DEF Step, Command, xhc_cmd_configure_endpoint
    <3> QED BY <1>0, <2>3, <3>1 DEF CommandsIn, TransfersIn
  <2>4. CASE j > 2 + Trees(p) + Endpoints(p)
    <3>1. Step(p, j).ring = "ep0" /\ Len(Step(p, j).trbs) = 2
      BY <1>0, <2>4 DEF Step, xhc_transfer_set_configuration
    <3>2. j = 3 + Trees(p) + Endpoints(p)
      BY <1>0, <2>4 DEF Steps
    <3> QED BY <1>0, <2>4, <3>1, <3>2 DEF CommandsIn, TransfersIn
  <2> QED BY <1>0, <2>1, <2>2, <2>3, <2>4
<1> QED BY <1>1, <1>3, <1>4, <1>5

\* The share of a device in the command ring.
LEMMA BoundFacts ==
  /\ CmdBound \in Nat /\ DevCnt * CmdBound < RingTrbs
  /\ \A p \in Port : Commands(p) <= CmdBound
  /\ \A n \in 0 .. DevCnt : CmdBound * n < RingTrbs
<1>0. /\ DevCnt \in Nat \ {0} /\ RingTrbs \in Nat /\ RingTrbs > 1 /\ Ports \in Nat \ {0}
      /\ \A p \in Port : DevCnt * Commands(p) < RingTrbs
  BY XhciAssumption
<1>1. \A p \in Port : Commands(p) \in Nat
  BY DescriptorFacts DEF Commands, Endpoints
<1> DEFINE B == {b \in Nat : \A p \in Port : Commands(p) <= b}
<1>2. ASSUME NEW m \in Nat, NEW n \in Nat \ {0} PROVE m <= n * m
  OBVIOUS
<1>3. RingTrbs \in B
  <2> SUFFICES ASSUME NEW p \in Port PROVE Commands(p) <= RingTrbs
    BY <1>0
  <2>1. Commands(p) <= DevCnt * Commands(p)
    BY <1>0, <1>1, <1>2
  <2>2. DevCnt * Commands(p) \in Nat
    BY <1>0, <1>1
  <2> QED BY <1>0, <1>1, <2>1, <2>2
<1>4. PICK b \in B : \A c \in B : b <= c
  BY <1>3, LeastElement
<1>5. \E p \in Port : Commands(p) = b
  <2> SUFFICES ASSUME \A p \in Port : Commands(p) # b PROVE FALSE
    OBVIOUS
  <2>1. \A p \in Port : Commands(p) <= b - 1 /\ Commands(p) >= 0
    BY <1>1
  <2>2. b - 1 \in Nat
    BY <1>0, <1>1, <2>1 DEF Port
  <2>3. b - 1 \in B
    BY <2>1, <2>2
  <2> QED BY <1>4, <2>3
<1>6. DevCnt * b < RingTrbs
  BY <1>0, <1>5
<1>7. b \in 0 .. RingTrbs
  BY <1>0, <1>3, <1>4
<1>8. /\ CmdBound \in 0 .. RingTrbs /\ DevCnt * CmdBound < RingTrbs
      /\ \A p \in Port : Commands(p) <= CmdBound
  BY <1>4, <1>6, <1>7 DEF CmdBound
<1>9. ASSUME NEW n \in 0 .. DevCnt PROVE CmdBound * n < RingTrbs
  <2>1. ASSUME NEW k \in Nat, NEW m \in Nat, n <= m PROVE k * n <= m * k
    BY <2>1
  <2>2. CmdBound * n <= DevCnt * CmdBound
    BY <1>0, <1>8, <2>1
  <2>3. CmdBound * n \in Int /\ DevCnt * CmdBound \in Int
    BY <1>0, <1>8
  <2> QED BY <1>0, <1>8, <2>2, <2>3
<1> QED BY <1>8, <1>9

-----------------------------------------------------------------------------
(* The driver's side of a ring *)

\* A ring has a link TRB and at least one other.
LEMMA TrbFacts ==
  /\ RingTrbs \in Nat /\ RingTrbs > 1 /\ Trb = 0 .. RingTrbs - 2 /\ 0 \in Trb
BY XhciAssumption DEF Trb

\* The TRBs in a ring are no more than it has room for.
LEMMA CountType ==
  ASSUME NEW r \in RingState
  PROVE  Count(r) \in 0 .. RingTrbs - 1
BY TrbFacts DEF Count, RingState

\* One TRB more (next_trb).
LEMMA PutFacts ==
  ASSUME NEW r, Written1(r), Count(r) < RingTrbs - 1, NEW type \in Kind
  PROVE  /\ Written1(Put(r, type)) /\ Count(Put(r, type)) = Count(r) + 1
         /\ Put(r, type).trb[Count(r)].type = type
         /\ \A i \in Trb : i # Count(r) => Put(r, type).trb[i] = r.trb[i]
<1> DEFINE q == [r EXCEPT !.trb[r.at] = [type |-> type, cycle |-> r.cycle_flag]]
           s == Put(r, type)
<1>1. r \in RingState /\ Count(r) = r.at /\ r.at \in Trb
  BY TrbFacts DEF Written1, Count, RingState
<1>2. q \in RingState /\ q.at = r.at /\ q.link /\ q.cycle_flag
  BY <1>1 DEF Written1, RingState
<1>3. /\ \A i \in Trb : i # r.at => q.trb[i] = r.trb[i]
      /\ q.trb[r.at].type = type /\ q.trb[r.at].cycle
  BY <1>1 DEF Written1, RingState
<1> HIDE DEF q
<1>4. s = next_trb(q)
  BY DEF Put, q
<1> HIDE DEF s
<1>5. CASE r.at + 1 \in Trb
  <2>1. s \in RingState /\ s.at = r.at + 1 /\ s.trb = q.trb /\ s.link /\ s.cycle_flag
    BY <1>2, <1>4, <1>5 DEF next_trb, RingState
  <2>2. Count(s) = r.at + 1
    BY <1>1, <2>1, TrbFacts DEF Count
  <2> QED BY <1>1, <1>3, <2>1, <2>2, TrbFacts DEF Written1, s
<1>6. CASE r.at + 1 \notin Trb
  <2>1. s \in RingState /\ s.at = 0 /\ s.trb = q.trb /\ s.link /\ s.cycle_flag
    BY <1>2, <1>4, <1>6, TrbFacts DEF next_trb, RingState
  <2>2. r.at = RingTrbs - 2
    BY <1>1, <1>6, TrbFacts
  <2>3. s.trb[0].cycle
    BY <1>1, <1>3, <2>1, <2>2, TrbFacts DEF Written1
  <2>4. Count(s) = r.at + 1
    BY <2>1, <2>2, <2>3, TrbFacts DEF Count
  <2> QED BY <1>1, <1>3, <2>1, <2>2, <2>4, TrbFacts DEF Written1, s
<1> QED BY <1>5, <1>6

\* The loop that writes the TRBs of a request has a value at every index.
LEMMA FilledLoop ==
  ASSUME NEW r, NEW trbs, NEW n \in Nat
  PROVE  \E g : g = [i \in 0 .. n |-> IF i = 0 THEN r ELSE Put(g[i - 1], trbs[i])]
<1> DEFINE Loop(g, m) == g = [i \in 0 .. m |-> IF i = 0 THEN r ELSE Put(g[i - 1], trbs[i])]
           Bad == {m \in Nat : ~ \E g : Loop(g, m)}
<1> SUFFICES ASSUME Bad # {} PROVE FALSE
  OBVIOUS
<1>1. PICK m \in Bad : \A k \in Bad : m <= k
  BY LeastElement
<1>2. CASE m = 0
  <2> DEFINE g == [i \in 0 .. 0 |-> r]
  <2>1. g = [i \in 0 .. 0 |-> IF i = 0 THEN r ELSE Put(g[i - 1], trbs[i])]
    OBVIOUS
  <2>2. Loop(g, 0)
    BY <2>1
  <2> QED BY <1>2, <2>2
<1>3. CASE m # 0
  <2>1. m - 1 \in Nat /\ m - 1 \notin Bad
    BY <1>1, <1>3
  <2>2. PICK g : Loop(g, m - 1)
    BY <2>1
  <2> DEFINE h == [i \in 0 .. m |-> IF i = m THEN Put(g[m - 1], trbs[m]) ELSE g[i]]
  <2>3. \A i \in 0 .. m - 1 : h[i] = g[i] /\ g[i] = IF i = 0 THEN r ELSE Put(g[i - 1], trbs[i])
    BY <2>1, <2>2
  <2>4. \A i \in 0 .. m : h[i] = IF i = 0 THEN r ELSE Put(h[i - 1], trbs[i])
    <3> SUFFICES ASSUME NEW i \in 0 .. m PROVE h[i] = IF i = 0 THEN r ELSE Put(h[i - 1], trbs[i])
      OBVIOUS
    <3>1. CASE i = m
      <4>1. h[m - 1] = g[m - 1] /\ h[m] = Put(g[m - 1], trbs[m])
        BY <2>1, <2>3
      <4> QED BY <1>3, <3>1, <4>1
    <3>2. CASE i # m
      <4>1. i \in 0 .. m - 1 /\ (i # 0 => i - 1 \in 0 .. m - 1)
        BY <3>2
      <4> QED BY <2>3, <4>1
    <3> QED BY <3>1, <3>2
  <2>5. Loop(h, m)
    BY <2>4
  <2> QED BY <2>5
<1> QED BY <1>2, <1>3

\* What a request leaves in its ring.
LEMMA FilledFacts ==
  ASSUME NEW r, Written1(r), NEW trbs \in Seq(Kind), Count(r) + Len(trbs) <= RingTrbs - 1
  PROVE  LET f == Filled(r, trbs)
         IN  /\ Written1(f) /\ Count(f) = Count(r) + Len(trbs)
             /\ \A i \in Count(r) .. Count(f) - 1 : f.trb[i].type = trbs[i - Count(r) + 1]
<1> DEFINE n == Len(trbs)
           c == Count(r)
           f == CHOOSE g : g = [i \in 0 .. n |-> IF i = 0 THEN r ELSE Put(g[i - 1], trbs[i])]
<1>1. n \in Nat /\ c \in Nat /\ c + n <= RingTrbs - 1
  BY CountType, TrbFacts DEF Written1
<1>2. f = [i \in 0 .. n |-> IF i = 0 THEN r ELSE Put(f[i - 1], trbs[i])]
  BY <1>1, FilledLoop, SMTT(30)
<1>3. Filled(r, trbs) = f[n]
  BY DEF Filled
<1> HIDE DEF f
<1>4. f[0] = r /\ \A i \in 1 .. n : f[i] = Put(f[i - 1], trbs[i])
  BY <1>1, <1>2
<1> DEFINE Right(m) == /\ Written1(f[m]) /\ Count(f[m]) = c + m
                       /\ \A i \in c .. c + m - 1 : f[m].trb[i].type = trbs[i - c + 1]
           Bad == {m \in 0 .. n : ~ Right(m)}
<1>0. \A i \in 1 .. n : trbs[i] \in Kind
  BY ElementOfSeq
<1> HIDE DEF n, c, Right
<1>5. Bad = {}
  <2> SUFFICES ASSUME Bad # {} PROVE FALSE
    OBVIOUS
  <2>0. Bad \in SUBSET Nat
    BY <1>1
  <2>1. PICK m \in Bad : \A k \in Bad : m <= k
    BY <2>0, LeastElement
  <2>2. m # 0
    <3>1. \A i \in c .. c + 0 - 1 : FALSE
      BY <1>1
    <3> QED BY <1>1, <1>4, <2>1, <3>1 DEF Right, c
  <2>3. m \in 1 .. n /\ m - 1 \in 0 .. n /\ Right(m - 1)
    <3>1. m \in 1 .. n /\ m - 1 \in 0 .. n
      BY <1>1, <2>1, <2>2
    <3>2. m - 1 \notin Bad
      BY <1>1, <2>1, <3>1
    <3> QED BY <3>1, <3>2
  <2>4. f[m] = Put(f[m - 1], trbs[m]) /\ trbs[m] \in Kind
    BY <1>0, <1>4, <2>3
  <2>5. Count(f[m - 1]) = c + (m - 1) /\ c + (m - 1) < RingTrbs - 1 /\ c + (m - 1) \in Trb
    BY <1>1, <2>3, TrbFacts, SMTT(30) DEF Right
  <2>6. /\ Written1(f[m]) /\ Count(f[m]) = c + (m - 1) + 1
        /\ f[m].trb[c + (m - 1)].type = trbs[m]
        /\ \A i \in Trb : i # c + (m - 1) => f[m].trb[i] = f[m - 1].trb[i]
    BY <2>3, <2>4, <2>5, PutFacts DEF Right
  <2>7. ASSUME NEW i \in c .. c + m - 1 PROVE f[m].trb[i].type = trbs[i - c + 1]
    <3>1. CASE i = c + (m - 1)
      <4>1. i - c + 1 = m
        BY <1>1, <2>3, <3>1
      <4> QED BY <2>6, <3>1, <4>1
    <3>2. CASE i # c + (m - 1)
      <4>1. i \in c .. c + (m - 1) - 1 /\ i \in Trb
        BY <1>1, <2>3, <2>5, <3>2, TrbFacts
      <4> QED BY <2>3, <2>6, <3>2, <4>1 DEF Right
    <3> QED BY <3>1, <3>2
  <2>8. Right(m)
    BY <1>1, <2>3, <2>6, <2>7 DEF Right
  <2> QED BY <2>1, <2>8
<1>6. Right(n)
  BY <1>1, <1>5
<1>7. /\ Written1(Filled(r, trbs)) /\ Count(Filled(r, trbs)) = c + n
      /\ \A i \in c .. c + n - 1 : Filled(r, trbs).trb[i].type = trbs[i - c + 1]
  BY <1>3, <1>6 DEF Right
<1> DEFINE g == Filled(r, trbs)
<1> HIDE DEF g
<1>8. \A i \in Count(r) .. Count(g) - 1 : g.trb[i].type = trbs[i - Count(r) + 1]
  <2> SUFFICES ASSUME NEW i \in Count(r) .. Count(g) - 1
               PROVE  g.trb[i].type = trbs[i - Count(r) + 1]
    OBVIOUS
  <2>1. i \in c .. c + n - 1
    BY <1>1, <1>7 DEF g, c
  <2> QED BY <1>7, <2>1 DEF g, c
<1>9. Written1(g) /\ Count(g) = Count(r) + Len(trbs)
  BY <1>7 DEF g, n, c
<1> QED BY <1>8, <1>9 DEF g

-----------------------------------------------------------------------------
(* Parts of the state *)

\* The types of the parts of the driver.
LEMMA TaskTypes ==
  ASSUME NEW x \in DriverState
  PROVE  /\ x.pool \in [Dev -> Container] /\ x.task \in TaskState
         /\ x.list \in Seq(Dev) /\ x.stop \in Stop
         /\ x.port \in [Port -> {"none", "U0", "Polling", "reset", "RxDetect"}]
         /\ x.task.state \in {"RUNNING", "WAITING", "BLOCKED"} /\ x.task.dev \in 0 .. DevCnt
         /\ x.task.todo \in Seq(Request) /\ x.task.pc \in {"check", "pop", "next", "ring", "resume"}
         /\ \A e \in Dev : /\ x.pool[e].port \in 0 .. Ports /\ x.pool[e].slot \in Nat
                           /\ x.pool[e].wait \in BOOLEAN /\ x.pool[e].type \in Kind
                           /\ x.pool[e].event \in Event
BY DEF DriverState, TaskState, Container

\* The types of the parts of the controller.
LEMMA ControllerTypes ==
  ASSUME NEW h \in ControllerState
  PROVE  /\ h.at \in [Rings -> 0 .. RingTrbs - 1] /\ h.ccs \in [Rings -> BOOLEAN]
         /\ h.bell \in SUBSET Rings /\ h.slots \in Nat /\ h.events \in Seq(Event)
         /\ h.normal \in [Dev -> Nat] /\ h.failed \in BOOLEAN
         /\ \A r \in Rings : h.at[r] \in 0 .. RingTrbs - 1 /\ h.ccs[r] \in BOOLEAN
         /\ \A i \in 1 .. Len(h.events) : h.events[i] \in Event
BY ElementOfSeq DEF ControllerState

\* The rings are the command ring and one for each container.
LEMMA DevFacts == DevCnt \in Nat \ {0} /\ Rings = 0 .. DevCnt /\ CmdRing \notin Dev
BY XhciAssumption DEF Rings, Dev, CmdRing

-----------------------------------------------------------------------------
(* The thread *)

\* ATOMIC_OPS in usb_device_enumeration.
LEMMA EnumWaitKeeps ==
  ASSUME IInv, EnumWait
  PROVE  IInv'
<1> DEFINE E == 1 .. Len(hc.events)
<1>1. /\ d \in DriverState /\ ring \in [Rings -> RingState] /\ hc \in ControllerState
      /\ Core(d, ring, hc, E) /\ d.stop = "no"
      /\ d.task.state = "RUNNING" /\ d.task.pc = "check"
      /\ ring' = ring /\ hc' = hc
  BY DEF IInv, Typed, EnumWait, Thread, Running
<1>2. /\ d' \in DriverState
      /\ d'.pool = d.pool /\ d'.list = d.list /\ d'.stop = d.stop /\ d'.port = d.port
      /\ d'.task.pc = "pop" /\ d'.task.dev = d.task.dev /\ d'.task.todo = d.task.todo
      /\ d'.task.state = IF d.list = << >> THEN "WAITING" ELSE "RUNNING"
  BY <1>1 DEF EnumWait, DriverState, TaskState
<1>3. ~Busy(d) /\ ~Busy(d')
  BY <1>1, <1>2 DEF Busy
<1>4. ThreadOK(d')
  BY <1>2 DEF ThreadOK
<1>5. PoolOK(d', hc)
  BY <1>1, <1>2, <1>3 DEF Core, PoolOK
<1>6. ProgressOK(d')
  BY <1>3 DEF ProgressOK
<1>7. LeftOK(d', ring, hc)
  BY <1>1, <1>2 DEF Core, LeftOK
<1>8. Popped(d') = Popped(d)
  BY <1>2 DEF Popped
<1>9. RoomOK(d', ring)
  BY <1>1, <1>3, <1>8 DEF Core, RoomOK
<1>10. SlotsOK(d', ring, hc)
  BY <1>1, <1>2, <1>3, <1>8 DEF Core, SlotsOK, Unnumbered, Numbered
<1>11. EventsOK(d', ring, hc, E)
  BY <1>1, <1>2, <1>3 DEF Core, EventsOK, EventOK
<1>12. Core(d', ring, hc, E)
  BY <1>1, <1>4, <1>5, <1>6, <1>7, <1>9, <1>10, <1>11 DEF Core
<1> QED BY <1>1, <1>2, <1>12 DEF IInv, Typed, Trap

\* Devices taken off the list can be counted.
LEMMA PoppedFacts ==
  ASSUME NEW x
  PROVE  IsFiniteSet(Popped(x)) /\ Cardinality(Popped(x)) \in 0 .. DevCnt
<1>1. IsFiniteSet(Dev) /\ Cardinality(Dev) = DevCnt
  BY DevFacts, FS_Interval DEF Dev
<1>2. Popped(x) \subseteq Dev
  BY DEF Popped
<1>3. IsFiniteSet(Popped(x)) /\ Cardinality(Popped(x)) <= DevCnt
  BY <1>1, <1>2, FS_Subset
<1> QED BY <1>3, FS_CardinalityType, DevFacts

\* The next device.
LEMMA EnumPopKeeps ==
  ASSUME IInv, EnumPop
  PROVE  IInv'
<1> DEFINE E == 1 .. Len(hc.events)
           e == Head(d.list)
           p == d.pool[e].port
<1>1. /\ d \in DriverState /\ ring \in [Rings -> RingState] /\ hc \in ControllerState
      /\ Core(d, ring, hc, E) /\ d.stop = "no"
      /\ d.task.state = "RUNNING" /\ d.task.pc = "pop"
      /\ ring' = ring /\ hc' = hc
  BY DEF IInv, Typed, EnumPop, Thread, Running
<1>2. d.list # << >> /\ d.list \in Seq(Dev) /\ Once(d.list)
  BY <1>1, TaskTypes DEF Core, ThreadOK, PoolOK
<1>3. /\ e \in Dev /\ Has(d.list, e) /\ Tail(d.list) \in Seq(Dev) /\ Once(Tail(d.list))
      /\ \A f : Has(Tail(d.list), f) <=> Has(d.list, f) /\ f # e
  BY <1>2, TailFacts
<1>4. p \in Port /\ d.pool[e].slot = 0 /\ ~Busy(d)
  BY <1>1, <1>3, TaskTypes DEF Core, PoolOK, Port, Busy
<1>5. Requests(p) \in Seq(Request) /\ Len(Requests(p)) \in Nat /\ Len(Requests(p)) >= 2
  BY <1>4, RequestsAre, RoomFacts
<1> HIDE DEF e
<1>6. d' = [d EXCEPT !.list = Tail(@), !.task = [state |-> "RUNNING", pc |-> "next", dev |-> e,
                                                 todo |-> Requests(p)]]
  <2>1. e # Stale /\ p # 0
    BY <1>3, <1>4 DEF Dev, Stale, Port
  <2> QED BY <1>2, <2>1 DEF EnumPop, FirstRequests, e
<1> HIDE DEF p
<1>7. /\ d' \in DriverState
      /\ d'.pool = d.pool /\ d'.list = Tail(d.list) /\ d'.stop = d.stop /\ d'.port = d.port
      /\ d'.task.pc = "next" /\ d'.task.dev = e /\ d'.task.todo = Requests(p)
      /\ d'.task.state = "RUNNING"
  <2> DEFINE t == [state |-> "RUNNING", pc |-> "next", dev |-> e, todo |-> Requests(p)]
  <2>1. e \in 0 .. DevCnt
    BY <1>3, DevFacts DEF Dev
  <2>2. t \in [state : {"RUNNING", "WAITING", "BLOCKED"}, dev : 0 .. DevCnt, todo : Seq(Request),
                pc : {"check", "pop", "next", "ring", "resume"}]
    BY <1>5, <2>1
  <2>3. t.pc = "next" /\ t.dev = e /\ t.todo = Requests(p) /\ t.state = "RUNNING"
    OBVIOUS
  <2> HIDE DEF t
  <2>4. d' = [d EXCEPT !.list = Tail(@), !.task = t]
    BY <1>6 DEF t
  <2> QED BY <1>1, <1>3, <2>2, <2>3, <2>4 DEF DriverState, TaskState
<1>8. Busy(d') /\ Mine(d').port = p /\ Mine(d').slot = 0 /\ Done(d') = 0 /\ Issued(d') = 0
  BY <1>4, <1>5, <1>7 DEF Busy, Mine, Done, Issued, p
<1>9. ThreadOK(d')
  BY <1>7 DEF ThreadOK
<1>10. PoolOK(d', hc)
  <2>1. \A f \in Dev : hc.normal[f] > 0 => f # e
    BY <1>1, <1>4, ControllerTypes DEF Core, PoolOK
  <2> QED BY <1>1, <1>3, <1>4, <1>7, <1>8, <2>1 DEF Core, PoolOK, Busy
<1>11. ProgressOK(d')
  BY <1>3, <1>4, <1>5, <1>7, <1>8 DEF ProgressOK, Port
<1>12. LeftOK(d', ring, hc)
  BY <1>1, <1>7 DEF Core, LeftOK
<1>13. Popped(d') = Popped(d) \cup {e} /\ e \notin Popped(d)
  BY <1>3, <1>4, <1>7 DEF Popped, Port, p
<1>14. Cardinality(Popped(d')) = Cardinality(Popped(d)) + 1 /\ Cardinality(Popped(d)) \in Nat
  <2>1. IsFiniteSet(Popped(d)) /\ Cardinality(Popped(d)) \in Nat
    BY PoppedFacts, DevFacts
  <2> QED BY <1>13, <2>1, FS_AddElement
<1>15. RoomOK(d', ring)
  <2>1. Count(ring[CmdRing]) <= CmdBound * Cardinality(Popped(d)) /\ Count(ring[e]) = 0
    BY <1>1, <1>3, <1>4, <1>13 DEF Core, RoomOK
  <2>2. CommandsIn(p, 0) = 0 /\ TransfersIn(p, 0) = 0
    BY <1>4, RoomFacts
  <2>3. CmdBound * (Cardinality(Popped(d')) - 1) + CommandsIn(p, 0) = CmdBound * Cardinality(Popped(d))
    BY <1>14, <2>2, BoundFacts
  <2>4. \A f \in Dev : f \notin Popped(d') => Count(ring[f]) = 0
    BY <1>1, <1>13 DEF Core, RoomOK
  <2> QED BY <1>7, <1>8, <2>1, <2>2, <2>3, <2>4 DEF RoomOK
<1>16. SlotsOK(d', ring, hc)
  <2>1. hc.slots <= Cardinality(Popped(d)) /\ hc.slots \in Nat
    BY <1>1, <1>4, <1>14, ControllerTypes DEF Core, SlotsOK, Unnumbered
  <2> QED BY <1>7, <1>14, <2>1 DEF SlotsOK, Numbered
<1>17. EventsOK(d', ring, hc, E)
  <2>1. ASSUME NEW i \in E PROVE EventOK(d', ring, hc, hc.events[i])
    <3>1. EventOK(d, ring, hc, hc.events[i]) /\ ~Answers(hc.events[i])
      BY <1>1 DEF Core, EventsOK, EventOK
    <3>2. hc.events[i].slot \in Nat
      BY <1>1, ControllerTypes DEF Event
    <3> QED BY <1>4, <1>7, <1>8, <3>1, <3>2 DEF EventOK
  <2>2. \A i \in E : ~Answers(hc.events[i])
    BY <1>1 DEF Core, EventsOK, EventOK
  <2> QED BY <1>7, <2>1, <2>2 DEF EventsOK
<1>18. Core(d', ring, hc, E)
  BY <1>1, <1>9, <1>10, <1>11, <1>12, <1>15, <1>16, <1>17 DEF Core
<1> QED BY <1>1, <1>7, <1>18 DEF IInv, Typed, Trap

\* The end of an enumeration (USB_HID_interface_init).
LEMMA EnumDoneKeeps ==
  ASSUME IInv, EnumDone
  PROVE  IInv'
<1> DEFINE E == 1 .. Len(hc.events)
           p == Mine(d).port
<1>1. /\ d \in DriverState /\ ring \in [Rings -> RingState] /\ hc \in ControllerState
      /\ Core(d, ring, hc, E) /\ d.stop = "no"
      /\ d.task.state = "RUNNING" /\ d.task.pc = "next" /\ d.task.todo = << >>
      /\ ring' = ring /\ Busy(d)
  BY DEF IInv, Typed, EnumDone, Thread, Running, Busy
<1>2. /\ d' \in DriverState
      /\ d'.pool = d.pool /\ d'.list = d.list /\ d'.stop = d.stop /\ d'.port = d.port
      /\ d'.task.pc = "check" /\ d'.task.dev = d.task.dev /\ d'.task.state = "RUNNING"
      /\ ~Busy(d')
  BY <1>1 DEF EnumDone, DriverState, TaskState, Busy
<1>3. d.task.dev \in Dev /\ p \in Port /\ Mine(d).slot # 0 /\ Done(d) = Steps(p) /\ Steps(p) >= 2
  <2>1. d.task.dev \in Dev /\ p \in Port
    BY <1>1, TaskTypes DEF Core, ProgressOK, Mine, Port
  <2>2. Done(d) = Steps(p) /\ Steps(p) >= 2
    BY <1>1, <2>1, RequestsAre, RoomFacts DEF Done
  <2> QED BY <1>1, <2>1, <2>2 DEF Core, ProgressOK
<1>4. /\ hc' \in ControllerState
      /\ hc'.at = hc.at /\ hc'.ccs = hc.ccs /\ hc'.bell = hc.bell /\ hc'.slots = hc.slots
      /\ hc'.events = hc.events /\ hc'.failed = hc.failed
      /\ \A e \in Dev : hc'.normal[e] = hc.normal[e] \/ e = d.task.dev
  BY <1>1, <1>3, XhciAssumption DEF EnumDone, ControllerState, Current
<1>5. ThreadOK(d')
  BY <1>2 DEF ThreadOK
<1>6. PoolOK(d', hc')
  BY <1>1, <1>2, <1>3, <1>4 DEF Core, PoolOK, Mine
<1>7. ProgressOK(d')
  BY <1>2 DEF ProgressOK
<1>8. \A r \in Rings : RingOK(ring, hc', r)
  BY <1>1, <1>4 DEF Core, RingOK
<1>9. LeftOK(d', ring, hc')
  BY <1>1, <1>2, <1>4 DEF Core, LeftOK, Left, AtEnd
<1>10. Popped(d') = Popped(d)
  BY <1>2 DEF Popped
<1>11. RoomOK(d', ring)
  <2>1. Count(ring[CmdRing]) <= CmdBound * (Cardinality(Popped(d)) - 1) + CommandsIn(p, Steps(p))
    BY <1>1, <1>3 DEF Core, RoomOK, Issued
  <2>2. CommandsIn(p, Steps(p)) <= CmdBound /\ CommandsIn(p, Steps(p)) \in Nat
    <3>1. CommandsIn(p, Steps(p)) \in 0 .. Commands(p)
      BY <1>3, RoomFacts
    <3>2. Commands(p) <= CmdBound /\ Commands(p) \in Nat /\ CmdBound \in Nat
      BY <1>3, BoundFacts, DescriptorFacts DEF Commands, Endpoints
    <3> QED BY <3>1, <3>2
  <2>3. Cardinality(Popped(d)) \in Nat /\ CmdBound \in Nat /\ Count(ring[CmdRing]) \in Nat
    BY <1>1, PoppedFacts, BoundFacts, CountType, DevFacts, TrbFacts DEF Rings
  <2>4. CmdBound * (Cardinality(Popped(d)) - 1) + CmdBound = CmdBound * Cardinality(Popped(d))
    BY <2>3
  <2>5. CmdBound * (Cardinality(Popped(d)) - 1) \in Int
    BY <2>3
  <2>6. Count(ring[CmdRing]) <= CmdBound * Cardinality(Popped(d))
    BY <2>1, <2>2, <2>3, <2>4, <2>5
  <2> QED BY <1>1, <1>2, <1>10, <2>6 DEF Core, RoomOK
<1>12. SlotsOK(d', ring, hc')
  <2>1. hc.slots <= Cardinality(Popped(d))
    BY <1>1, PoppedFacts, ControllerTypes DEF Core, SlotsOK
  <2> QED BY <1>2, <1>4, <1>10, <2>1, ControllerTypes, PoppedFacts DEF SlotsOK, Unnumbered, Numbered
<1>13. EventsOK(d', ring, hc', E)
  BY <1>1, <1>2, <1>4 DEF Core, EventsOK, EventOK
<1>14. Core(d', ring, hc', E)
  BY <1>1, <1>5, <1>6, <1>7, <1>8, <1>9, <1>11, <1>12, <1>13 DEF Core
<1> QED BY <1>1, <1>2, <1>4, <1>14 DEF IInv, Typed, Trap

\* The request in hand.
LEMMA HandFacts ==
  ASSUME NEW x \in DriverState, Busy(x), ProgressOK(x), x.task.todo # << >>
  PROVE  LET p == Mine(x).port
         IN  /\ x.task.dev \in Dev /\ p \in Port /\ Done(x) \in Nat /\ Done(x) + 1 \in 1 .. Steps(p)
             /\ InHand(x) = Step(p, Done(x) + 1) /\ InHand(x) \in Request
             /\ RingFor(x) \in Rings
             /\ Len(x.task.todo) = Steps(p) - Done(x)
<1> DEFINE p == Mine(x).port
<1>1. x.task.dev \in Dev /\ p \in Port
  BY TaskTypes DEF ProgressOK, Mine, Port
<1>2. /\ Len(Requests(p)) = Steps(p) /\ Steps(p) \in Nat
      /\ \A i \in 1 .. Steps(p) : Requests(p)[i] = Step(p, i)
  BY <1>1, RequestsAre, RoomFacts
<1>3. x.task.todo \in Seq(Request) /\ Len(x.task.todo) \in Nat \ {0}
  BY TaskTypes
<1>4. Done(x) = Steps(p) - Len(x.task.todo) /\ Done(x) >= 0
  BY <1>2 DEF Done, ProgressOK
<1>5. InHand(x) = x.task.todo[1] /\ InHand(x) \in Request
  BY <1>3, ElementOfSeq DEF InHand
<1>6. Done(x) \in Nat /\ Done(x) + 1 \in 1 .. Steps(p)
  BY <1>2, <1>3, <1>4
<1>7. InHand(x) = Step(p, Done(x) + 1)
  BY <1>2, <1>3, <1>5, <1>6 DEF ProgressOK
<1>8. RingFor(x) \in Rings
  BY <1>1 DEF RingFor, Rings
<1> QED BY <1>1, <1>2, <1>3, <1>4, <1>5, <1>6, <1>7, <1>8

\* A request always finds room in its ring.
LEMMA RoomForRequest ==
  ASSUME NEW x \in DriverState, NEW rg \in [Rings -> RingState], Busy(x), ProgressOK(x),
         RoomOK(x, rg), x.task.todo # << >>, x.task.pc = "next"
  PROVE  /\ Count(rg[RingFor(x)]) \in Nat
         /\ Count(rg[RingFor(x)]) + Len(InHand(x).trbs) <= RingTrbs - 1
<1> DEFINE p == Mine(x).port
           j == Done(x) + 1
           q == InHand(x)
           n == Cardinality(Popped(x))
<1>1. /\ x.task.dev \in Dev /\ p \in Port /\ j \in 1 .. Steps(p) /\ q = Step(p, j)
      /\ RingFor(x) \in Rings /\ j \in Nat /\ j - 1 = Done(x)
  BY HandFacts
<1>2. Count(rg[RingFor(x)]) \in Nat
  BY <1>1, CountType, TrbFacts
<1>3. /\ CommandsIn(p, j) <= Commands(p) /\ CommandsIn(p, j) \in Nat
      /\ TransfersIn(p, j) <= Transfers(p) /\ TransfersIn(p, j) \in Nat /\ Transfers(p) \in Int
      /\ CommandsIn(p, j - 1) \in Nat /\ TransfersIn(p, j - 1) \in Nat
      /\ IF q.ring = "cmd" THEN CommandsIn(p, j) = CommandsIn(p, j - 1) + 1
         ELSE TransfersIn(p, j) = TransfersIn(p, j - 1) + Len(q.trbs)
  <2>1. Steps(p) \in Nat /\ j \in 0 .. Steps(p) /\ j - 1 \in 0 .. Steps(p) /\ j > 0
    BY <1>1, RoomFacts
  <2>2. Transfers(p) \in Int
    <3>1. Len(build_decriptor_tree(p)) = Trees(p) /\ Trees(p) \in Nat
      BY <1>1, DescriptorFacts, RepeatFacts, RequestTypes DEF build_decriptor_tree, Trees
    <3> QED BY <3>1 DEF Transfers
  <2> HIDE DEF p, j, q
  <2>3. CommandsIn(p, j) \in 0 .. Commands(p) /\ TransfersIn(p, j) \in 0 .. Transfers(p)
    BY <1>1, <2>1, RoomFacts
  <2>4. CommandsIn(p, j - 1) \in Nat /\ TransfersIn(p, j - 1) \in Nat
    BY <1>1, <2>1, RoomFacts
  <2>5. IF q.ring = "cmd" THEN CommandsIn(p, j) = CommandsIn(p, j - 1) + 1
        ELSE TransfersIn(p, j) = TransfersIn(p, j - 1) + Len(q.trbs)
    BY <1>1, <2>1, RoomFacts
  <2> QED BY <2>2, <2>3, <2>4, <2>5
<1>4. Commands(p) <= CmdBound /\ CmdBound \in Nat /\ CmdBound * n < RingTrbs /\ n \in Nat
      /\ Transfers(p) < RingTrbs /\ Commands(p) \in Nat
  <2>1. n \in 0 .. DevCnt /\ n \in Nat
    BY PoppedFacts, DevFacts
  <2> HIDE DEF p, n
  <2>2. Commands(p) <= CmdBound /\ CmdBound \in Nat /\ CmdBound * n < RingTrbs
    BY <1>1, <2>1, BoundFacts
  <2>3. Transfers(p) < RingTrbs
    BY <1>1, XhciAssumption
  <2>4. Commands(p) \in Nat
    BY <1>1, DescriptorFacts DEF Commands, Endpoints
  <2> QED BY <2>1, <2>2, <2>3, <2>4
<1>5. Issued(x) = j - 1
  BY <1>1 DEF Issued
<1>6. CASE q.ring = "cmd"
  <2>1. RingFor(x) = CmdRing /\ Len(q.trbs) = 1
    BY <1>1, <1>6, StepFacts DEF RingFor
  <2>2. Count(rg[CmdRing]) <= CmdBound * (n - 1) + CommandsIn(p, j - 1)
    BY <1>5 DEF RoomOK
  <2>3. CmdBound * (n - 1) + CmdBound = CmdBound * n /\ CmdBound * (n - 1) \in Int
    BY <1>4
  <2> HIDE DEF n, j, p, q
  <2>4. Count(rg[CmdRing]) + 1 <= CmdBound * n
    BY <1>2, <1>3, <1>4, <1>6, <2>1, <2>2, <2>3
  <2> QED BY <1>2, <1>4, <2>1, <2>3, <2>4, TrbFacts DEF q
<1>7. CASE q.ring # "cmd"
  <2>1. RingFor(x) = x.task.dev
    BY <1>7 DEF RingFor
  <2>2. Count(rg[x.task.dev]) = TransfersIn(p, j - 1)
    BY <1>5 DEF RoomOK
  <2> HIDE DEF j, p
  <2> QED BY <1>2, <1>3, <1>4, <1>7, <2>1, <2>2, TrbFacts
<1> QED BY <1>2, <1>6, <1>7

\* The slot is a valid one and in the right state: the assertions of a request
\* hold.
LEMMA AlwaysAccepted ==
  ASSUME IInv, Thread("next"), d.task.todo # << >>, DevCnt < MaxSlot
  PROVE  Accepted(InHand(d))
<1> DEFINE p == Mine(d).port
<1>1. d \in DriverState /\ hc \in ControllerState /\ Core(d, ring, hc, 1 .. Len(hc.events))
      /\ d.task.pc = "next" /\ Busy(d)
  BY DEF IInv, Typed, Thread, Running, Busy
<1>2. /\ d.task.dev \in Dev /\ p \in Port /\ Done(d) \in Nat /\ Done(d) + 1 \in 1 .. Steps(p)
      /\ InHand(d) = Step(p, Done(d) + 1)
  BY <1>1, HandFacts DEF Core
<1>3. /\ InHand(d).type \in {"AddressDevice", "ConfigureEndpoint"} => Done(d) # 0
      /\ InHand(d).ring = "ep0" => Done(d) >= 2
  BY <1>2, StepFacts
<1>4. /\ Done(d) # 0 => Mine(d).slot # 0
      /\ Done(d) >= 2 => Mine(d).state = "Addressed"
  BY <1>1 DEF Core, ProgressOK
<1>5. Mine(d).slot \in Nat /\ Mine(d).slot < MaxSlot
  <2>1. Mine(d).slot <= hc.slots /\ Mine(d).slot \in Nat
    BY <1>1, <1>2, TaskTypes DEF Core, PoolOK, Mine
  <2>2. hc.slots <= Cardinality(Popped(d)) /\ hc.slots \in Nat
    BY <1>1, PoppedFacts, ControllerTypes DEF Core, SlotsOK
  <2> QED BY <2>1, <2>2, PoppedFacts, XhciAssumption
<1> QED BY <1>3, <1>4, <1>5 DEF Accepted, Mine, Current

\* xhc_cmd_... and xhc_transfer_...: the TRBs of the next request.
LEMMA EnumRequestKeeps ==
  ASSUME IInv, EnumRequest, DevCnt < MaxSlot
  PROVE  IInv'
<1> DEFINE E == 1 .. Len(hc.events)
           p == Mine(d).port
           q == InHand(d)
           R == RingFor(d)
           c == Count(ring[R])
           e == d.task.dev
<1>1. /\ d \in DriverState /\ ring \in [Rings -> RingState] /\ hc \in ControllerState
      /\ Core(d, ring, hc, E) /\ d.stop = "no"
      /\ d.task.state = "RUNNING" /\ d.task.pc = "next" /\ d.task.todo # << >>
      /\ Busy(d)
  BY DEF IInv, Typed, EnumRequest, Thread, Running, Busy
<1>2. /\ e \in Dev /\ p \in Port /\ Done(d) \in Nat /\ Done(d) + 1 \in 1 .. Steps(p)
      /\ q = Step(p, Done(d) + 1) /\ q \in Request /\ R \in Rings
  BY <1>1, HandFacts DEF Core
<1>3. Issue(q)
  <2>1. Accepted(q)
    BY AlwaysAccepted DEF EnumRequest
  <2> QED BY <2>1 DEF EnumRequest, InHand
<1>4. /\ q.trbs \in Seq(Kind) /\ q.type \in Kind /\ Len(q.trbs) \in {1, 2, 3}
      /\ (q.type = "EnableSlot") <=> (Done(d) = 0)
      /\ Done(d) = 0 => q.ring = "cmd"
      /\ q.ring = "cmd" => Len(q.trbs) = 1
  BY <1>2, StepFacts DEF Request
<1>0. Len(q.trbs) \in Nat /\ Len(q.trbs) > 0
  <2>1. ASSUME NEW n \in {1, 2, 3} PROVE n \in Nat /\ n > 0
    OBVIOUS
  <2>2. Len(q.trbs) \in {1, 2, 3}
    BY <1>4
  <2> DEFINE n == Len(q.trbs)
  <2> HIDE DEF n
  <2>3. n \in {1, 2, 3}
    BY <2>2 DEF n
  <2>4. n \in Nat /\ n > 0
    BY <2>1, <2>3
  <2> QED BY <2>4 DEF n
<1>5. c \in Nat /\ c + Len(q.trbs) <= RingTrbs - 1
  BY <1>1, RoomForRequest DEF Core
<1>6. R = RingOf(q)
  BY DEF RingFor, RingOf, Current
<1>7. NoEvent \in Event
  BY XhciAssumption, SMTT(30) DEF NoEvent, Event, Kind
<1>8. /\ d' \in DriverState
      /\ d'.list = d.list /\ d'.stop = d.stop /\ d'.port = d.port
      /\ d'.task.pc = "ring" /\ d'.task.dev = e /\ d'.task.state = "RUNNING"
      /\ d'.task.todo = d.task.todo
      /\ \A f \in Dev : /\ d'.pool[f].port = d.pool[f].port /\ d'.pool[f].slot = d.pool[f].slot
                        /\ d'.pool[f].wait = d.pool[f].wait /\ d'.pool[f].state = d.pool[f].state
      /\ d'.pool[e].type = q.type
      /\ hc' = hc
  <2> HIDE DEF q, e
  <2>1. d' = [d EXCEPT !.pool[e].type = q.type, !.pool[e].event = NoEvent, !.task.pc = "ring"]
        /\ hc' = hc
    BY <1>3 DEF Issue, Current, e
  <2>2. d'.pool = [d.pool EXCEPT ![e].type = q.type, ![e].event = NoEvent]
        /\ d'.task = [d.task EXCEPT !.pc = "ring"]
        /\ d'.list = d.list /\ d'.stop = d.stop /\ d'.port = d.port
    BY <1>1, <2>1 DEF DriverState
  <2>4. d.pool \in [Dev -> Container] /\ d.task \in TaskState
    BY <1>1, TaskTypes
  <2>3. d' \in DriverState
    <3> DEFINE c1 == [d.pool[e] EXCEPT !.type = q.type, !.event = NoEvent]
               t1 == [d.task EXCEPT !.pc = "ring"]
    <3>0. d.pool[e] \in Container
      BY <1>2, <2>4
    <3>1. c1 \in Container
      BY <1>4, <1>7, <3>0 DEF Container
    <3>2. t1 \in TaskState
      BY <2>4 DEF TaskState
    <3>3. d'.pool = [d.pool EXCEPT ![e] = c1]
      BY <1>2, <2>2, <2>4
    <3> HIDE DEF c1
    <3>4. d'.pool \in [Dev -> Container]
      BY <1>2, <2>4, <3>1, <3>3
    <3>5. d' = [d EXCEPT !.pool = d'.pool, !.task = t1]
      BY <1>1, <2>1, <2>2, ZenonT(40) DEF DriverState
    <3> HIDE DEF t1
    <3> QED BY <1>1, <3>2, <3>4, <3>5 DEF DriverState
  <2>5. /\ \A f \in Dev : /\ d'.pool[f].port = d.pool[f].port /\ d'.pool[f].slot = d.pool[f].slot
                          /\ d'.pool[f].wait = d.pool[f].wait /\ d'.pool[f].state = d.pool[f].state
        /\ d'.pool[e].type = q.type
    BY <1>2, <2>2, <2>4 DEF Container
  <2>6. /\ d'.task.pc = "ring" /\ d'.task.dev = d.task.dev /\ d'.task.state = "RUNNING"
        /\ d'.task.todo = d.task.todo
    BY <1>1, <2>2, <2>4 DEF TaskState
  <2> QED BY <2>1, <2>2, <2>3, <2>5, <2>6 DEF e
<1> DEFINE f == Filled(ring[R], q.trbs)
<1>9. ring' = [ring EXCEPT ![R] = f]
  BY <1>3, <1>6 DEF Issue, Written
<1>10. /\ Written1(f) /\ Count(f) = c + Len(q.trbs)
       /\ \A i \in c .. Count(f) - 1 : f.trb[i].type = q.trbs[i - c + 1]
  <2>1. Written1(ring[R])
    BY <1>1, <1>2 DEF Core, RingOK
  <2> HIDE DEF R, q
  <2> QED BY <1>4, <1>5, <2>1, FilledFacts
<1> HIDE DEF f
<1>11. ring' \in [Rings -> RingState] /\ ring'[R] = f /\ \A r \in Rings : r # R => ring'[r] = ring[r]
  BY <1>1, <1>2, <1>9, <1>10 DEF Written1
<1>12. Busy(d') /\ Mine(d').port = p /\ Mine(d').slot = Mine(d).slot /\ Mine(d').state = Mine(d).state
       /\ Mine(d').type = q.type /\ Mine(d').wait = Mine(d).wait
       /\ Done(d') = Done(d) /\ InHand(d') = q /\ RingFor(d') = R /\ Issued(d') = Done(d) + 1
       /\ Issued(d) = Done(d)
  BY <1>1, <1>2, <1>8 DEF Busy, Mine, Done, InHand, RingFor, Issued
\* The controller has executed what was in the ring.
<1>13. hc.ccs[R] /\ hc.at[R] = c /\ R \notin hc.bell
  <2>1. hc.at[R] <= c /\ (~hc.ccs[R] => c = RingTrbs - 1) /\ hc.at[R] \in 0 .. RingTrbs - 1
    BY <1>1, <1>2, ControllerTypes DEF Core, RingOK
  <2>0. c < RingTrbs - 1
    <3> HIDE DEF q, c
    <3> QED BY <1>0, <1>5, TrbFacts
  <2> HIDE DEF c
  <2>2. hc.ccs[R]
    BY <1>5, <2>0, <2>1, TrbFacts
  <2>3. ~Left(ring, hc, R)
    BY <1>1, <1>2 DEF Core, LeftOK
  <2>4. hc.at[R] = c
    BY <1>5, <2>1, <2>2, <2>3 DEF Left, c
  <2>5. ~AtEnd(ring, hc, R)
    BY <1>5, <2>0, <2>4, TrbFacts DEF AtEnd
  <2> QED BY <1>1, <1>2, <2>2, <2>3, <2>4, <2>5 DEF Core, LeftOK
<1>14. Left(ring', hc, R) /\ \A r \in Rings : r # R => (Left(ring', hc, r) <=> Left(ring, hc, r))
  <2>1. c < Count(f)
    <3> HIDE DEF q, c
    <3> QED BY <1>0, <1>5, <1>10
  <2> HIDE DEF R, c
  <2> QED BY <1>2, <1>11, <1>13, <2>1 DEF Left
<1>15. \A r \in Rings : ~Left(ring, hc, r)
  BY <1>1 DEF Core, LeftOK
<1> HIDE DEF c, R, p, q, e
<1>16. ThreadOK(d')
  BY <1>8 DEF ThreadOK
<1>17. PoolOK(d', hc)
  BY <1>1, <1>8, <1>12 DEF Core, PoolOK, e
<1>18. ProgressOK(d')
  BY <1>1, <1>2, <1>8, <1>12 DEF Core, ProgressOK, p, e
<1>19. \A r \in Rings : RingOK(ring', hc, r)
  <2> SUFFICES ASSUME NEW r \in Rings PROVE RingOK(ring', hc, r)
    OBVIOUS
  <2>1. CASE r = R
    BY <1>1, <1>4, <1>5, <1>10, <1>11, <1>13, <2>1 DEF Core, RingOK
  <2>2. CASE r # R
    BY <1>1, <1>11, <2>2 DEF Core, RingOK
  <2> QED BY <2>1, <2>2
<1>20. LeftOK(d', ring', hc)
  <2>1. ASSUME NEW r \in Rings, Left(ring', hc, r)
        PROVE  /\ d'.task.pc \in {"ring", "resume"} /\ r = RingFor(d')
               /\ d'.task.pc = "resume" => d'.task.state = "BLOCKED" /\ r \in hc.bell
               /\ Count(ring'[r]) - hc.at[r] <= Len(InHand(d').trbs)
               /\ \A i \in hc.at[r] .. Count(ring'[r]) - 1 :
                    ring'[r].trb[i].type = InHand(d').trbs[Len(InHand(d').trbs) - Count(ring'[r]) + i + 1]
    <3>1. r = R
      BY <1>14, <1>15, <2>1
    <3>2. Count(ring'[r]) - hc.at[r] = Len(q.trbs)
      BY <1>4, <1>5, <1>10, <1>11, <1>13, <3>1
    <3>3. ASSUME NEW i \in hc.at[r] .. Count(ring'[r]) - 1
          PROVE  ring'[r].trb[i].type = q.trbs[Len(q.trbs) - Count(ring'[r]) + i + 1]
      <4>1. i \in c .. Count(f) - 1 /\ Count(ring'[r]) = c + Len(q.trbs)
        BY <1>10, <1>11, <1>13, <3>1
      <4>2. Len(q.trbs) - Count(ring'[r]) + i + 1 = i - c + 1
        <5>1. i \in Int /\ Len(q.trbs) \in Int /\ c \in Int
          BY <1>0, <1>5, <1>10
        <5> DEFINE n == Len(q.trbs)
                   k == Count(ring'[r])
        <5>2. k = c + n /\ n \in Int
          BY <4>1, <5>1
        <5> HIDE DEF n, k
        <5>3. n - k + i + 1 = i - c + 1
          BY <5>1, <5>2
        <5> QED BY <5>3 DEF n, k
      <4> QED BY <1>10, <1>11, <3>1, <4>1, <4>2
    <3> QED BY <1>4, <1>8, <1>12, <3>1, <3>2, <3>3
  <2>2. \A r \in Rings : r \in hc.bell =>
          \/ Left(ring', hc, r) /\ d'.task.pc = "resume"
          \/ AtEnd(ring', hc, r) \/ ~hc.ccs[r]
    BY <1>1, <1>15 DEF Core, LeftOK, AtEnd
  <2>3. \A r \in Rings : AtEnd(ring', hc, r) => r \in hc.bell
    BY <1>1 DEF Core, LeftOK, AtEnd
  <2> QED BY <1>12, <1>14, <2>1, <2>2, <2>3 DEF LeftOK
<1>21. Popped(d') = Popped(d)
  BY <1>8 DEF Popped
<1>22. RoomOK(d', ring')
  <2> DEFINE j == Done(d) + 1
  <2>1. /\ Count(ring[CmdRing]) <= CmdBound * (Cardinality(Popped(d)) - 1) + CommandsIn(p, Done(d))
        /\ Count(ring[e]) = TransfersIn(p, Done(d))
    BY <1>1, <1>12 DEF Core, RoomOK, p, e
  <2>2. j - 1 = Done(d) /\ j \in 0 .. Steps(p) /\ j > 0 /\ Done(d) \in 0 .. Steps(p)
    BY <1>2, RoomFacts
  <2> HIDE DEF j
  <2>3. IF q.ring = "cmd"
        THEN /\ CommandsIn(p, j) = CommandsIn(p, Done(d)) + 1
             /\ TransfersIn(p, j) = TransfersIn(p, Done(d))
        ELSE /\ CommandsIn(p, j) = CommandsIn(p, Done(d))
             /\ TransfersIn(p, j) = TransfersIn(p, Done(d)) + Len(q.trbs)
    <3>1. q = Step(p, j)
      BY <1>2 DEF j
    <3> QED BY <1>2, <2>2, <3>1, RoomFacts
  <2>4. CommandsIn(p, Done(d)) \in Nat /\ TransfersIn(p, Done(d)) \in Nat
    BY <1>2, <2>2, RoomFacts
  <2>5. CmdBound * (Cardinality(Popped(d)) - 1) \in Int
    BY BoundFacts, PoppedFacts, DevFacts
  <2>6. /\ Count(ring'[CmdRing]) <= CmdBound * (Cardinality(Popped(d)) - 1) + CommandsIn(p, j)
        /\ Count(ring'[e]) = TransfersIn(p, j)
        /\ \A g \in Dev : g # e => Count(ring'[g]) = Count(ring[g])
    <3>1. CASE q.ring = "cmd"
      <4>1. R = CmdRing /\ e \in Rings /\ e # CmdRing /\ Len(q.trbs) = 1
        BY <1>2, <1>4, <3>1, DevFacts DEF R, RingFor, q, Rings
      <4> QED BY <1>5, <1>10, <1>11, <2>1, <2>3, <2>4, <2>5, <3>1, <4>1 DEF c, Rings, Dev, CmdRing
    <3>2. CASE q.ring # "cmd"
      <4>1. R = e /\ CmdRing \in Rings /\ e # CmdRing
        BY <1>2, <3>2, DevFacts DEF R, RingFor, q, e, Rings
      <4> QED BY <1>5, <1>10, <1>11, <2>1, <2>3, <2>4, <2>5, <3>2, <4>1 DEF c, Rings
    <3> QED BY <3>1, <3>2
  <2>7. e \in Popped(d)
    BY <1>1, <1>2 DEF Core, ProgressOK, PoolOK, Popped, Mine, e
  <2>8. \A g \in Dev : g \notin Popped(d') => Count(ring'[g]) = 0
    BY <1>1, <1>21, <2>6, <2>7 DEF Core, RoomOK
  <2> QED BY <1>8, <1>12, <1>21, <2>6, <2>8 DEF RoomOK, j
<1>23. SlotsOK(d', ring', hc)
  <2>1. Unnumbered(d', ring', hc) => Unnumbered(d, ring, hc)
    BY <1>1, <1>12 DEF Unnumbered
  <2>2. hc.slots \in Nat
    BY <1>1, ControllerTypes
  <2> QED BY <1>1, <1>8, <1>21, <2>1, <2>2, PoppedFacts DEF Core, SlotsOK, Numbered
<1>24. EventsOK(d', ring', hc, E)
  <2>1. \A i \in E : ~Answers(hc.events[i])
    BY <1>1 DEF Core, EventsOK, EventOK
  <2>2. ASSUME NEW i \in E PROVE EventOK(d', ring', hc, hc.events[i])
    <3>1. EventOK(d, ring, hc, hc.events[i]) /\ ~Answers(hc.events[i])
      BY <1>1, <2>1 DEF Core, EventsOK
    <3> QED BY <1>1, <1>8, <1>12, <3>1 DEF EventOK, e
  <2> QED BY <1>8, <2>1, <2>2 DEF EventsOK
<1>25. Core(d', ring', hc, E)
  BY <1>16, <1>17, <1>18, <1>19, <1>20, <1>22, <1>23, <1>24 DEF Core
<1> QED BY <1>1, <1>8, <1>11, <1>25 DEF IInv, Typed, Trap

\* ATOMIC_OPS in a request: doorbell, wait_task and block are one step, so the
\* controller finds nothing to do before the thread waits for it.
LEMMA EnumBlockKeeps ==
  ASSUME IInv, EnumBlock
  PROVE  IInv'
<1> DEFINE E == 1 .. Len(hc.events)
           R == RingFor(d)
           e == d.task.dev
<1>1. /\ d \in DriverState /\ ring \in [Rings -> RingState] /\ hc \in ControllerState
      /\ Core(d, ring, hc, E) /\ d.stop = "no"
      /\ d.task.state = "RUNNING" /\ d.task.pc = "ring" /\ Busy(d) /\ ring' = ring
  BY DEF IInv, Typed, EnumBlock, Thread, Running, Busy
<1>2. d.task.todo # << >>
  BY <1>1 DEF Core, ProgressOK
<1>3. /\ e \in Dev /\ Mine(d).port \in Port /\ Done(d) \in Nat /\ Done(d) + 1 \in 1 .. Steps(Mine(d).port)
      /\ InHand(d) = Step(Mine(d).port, Done(d) + 1) /\ R \in Rings
  BY <1>1, <1>2, HandFacts DEF Core
<1>4. Done(d) = 0 => R = CmdRing
  BY <1>3, StepFacts DEF RingFor, Step, Command, xhc_cmd_enable_slot
<1>5. /\ d' \in DriverState
      /\ d'.list = d.list /\ d'.stop = d.stop /\ d'.port = d.port
      /\ d'.task.pc = "resume" /\ d'.task.dev = e /\ d'.task.state = "BLOCKED"
      /\ d'.task.todo = d.task.todo
      /\ \A f \in Dev : /\ d'.pool[f].port = d.pool[f].port /\ d'.pool[f].slot = d.pool[f].slot
                        /\ d'.pool[f].state = d.pool[f].state /\ d'.pool[f].type = d.pool[f].type
                        /\ d'.pool[f].wait = IF f = e THEN TRUE ELSE d.pool[f].wait
  <2>1. d' = [d EXCEPT !.pool[e].wait = TRUE, !.task.state = "BLOCKED", !.task.pc = "resume"]
    BY DEF EnumBlock, Current
  <2> HIDE DEF e
  <2>2. d.pool \in [Dev -> Container] /\ d.task \in TaskState /\ d.pool[e] \in Container
    BY <1>1, <1>3, TaskTypes
  <2> DEFINE c1 == [d.pool[e] EXCEPT !.wait = TRUE]
             t1 == [d.task EXCEPT !.state = "BLOCKED", !.pc = "resume"]
  <2>3. /\ c1 \in Container /\ c1.wait = TRUE /\ c1.port = d.pool[e].port /\ c1.slot = d.pool[e].slot
        /\ c1.state = d.pool[e].state /\ c1.type = d.pool[e].type
    BY <2>2 DEF Container
  <2>4. /\ t1 \in TaskState /\ t1.pc = "resume" /\ t1.dev = d.task.dev /\ t1.state = "BLOCKED"
        /\ t1.todo = d.task.todo
    BY <2>2 DEF TaskState
  <2>5. d' = [d EXCEPT !.pool = [d.pool EXCEPT ![e] = c1], !.task = t1]
    BY <1>1, <2>1, <2>2 DEF DriverState
  <2> HIDE DEF c1, t1
  <2>6. /\ d'.pool = [d.pool EXCEPT ![e] = c1] /\ d'.task = t1 /\ d'.list = d.list
        /\ d'.stop = d.stop /\ d'.port = d.port
    BY <1>1, <2>5 DEF DriverState
  <2>7. d'.pool \in [Dev -> Container]
    BY <2>2, <2>3, <2>6
  <2>8. d' \in DriverState
    BY <1>1, <2>4, <2>5, <2>6, <2>7 DEF DriverState
  <2>9. \A f \in Dev : /\ d'.pool[f].port = d.pool[f].port /\ d'.pool[f].slot = d.pool[f].slot
                       /\ d'.pool[f].state = d.pool[f].state /\ d'.pool[f].type = d.pool[f].type
                       /\ d'.pool[f].wait = IF f = e THEN TRUE ELSE d.pool[f].wait
    BY <2>2, <2>3, <2>6
  <2> QED BY <2>4, <2>6, <2>8, <2>9 DEF e
<1>6. /\ hc' \in ControllerState
      /\ hc'.at = hc.at /\ hc'.ccs = hc.ccs /\ hc'.bell = hc.bell \cup {R} /\ hc'.slots = hc.slots
      /\ hc'.events = hc.events /\ hc'.failed = hc.failed /\ hc'.normal = hc.normal
  BY <1>1, <1>3 DEF EnumBlock, ControllerState, RingOf, RingFor, InHand, Current
<1>7. /\ Busy(d') /\ Mine(d').port = Mine(d).port /\ Mine(d').slot = Mine(d).slot
      /\ Mine(d').state = Mine(d).state /\ Mine(d').type = Mine(d).type /\ Mine(d').wait
      /\ Done(d') = Done(d) /\ InHand(d') = InHand(d) /\ RingFor(d') = R /\ Issued(d') = Issued(d)
  BY <1>1, <1>3, <1>5, ZenonT(40) DEF Busy, Mine, Done, InHand, RingFor, Issued
<1>8. \A r \in Rings : (Left(ring, hc', r) <=> Left(ring, hc, r)) /\ (AtEnd(ring, hc', r) <=> AtEnd(ring, hc, r))
  BY <1>6 DEF Left, AtEnd
<1>9. Left(ring, hc, R)
  BY <1>1 DEF Core, LeftOK
<1> HIDE DEF R, e
<1>10. ThreadOK(d')
  BY <1>5 DEF ThreadOK
<1>11. PoolOK(d', hc')
  <2>1. /\ d'.task.dev = d.task.dev /\ (Busy(d') <=> Busy(d)) /\ d'.list = d.list
        /\ hc'.slots = hc.slots /\ hc'.normal = hc.normal
    BY <1>1, <1>5, <1>6, <1>7 DEF e
  <2>2. \A f \in Dev : d'.pool[f].port = d.pool[f].port /\ d'.pool[f].slot = d.pool[f].slot
    BY <1>5
  <2>3. \A f \in Dev : ~d.pool[f].wait
    BY <1>1 DEF Core, PoolOK
  <2>4. \A f \in Dev : d'.pool[f].wait => d'.task.pc = "resume" /\ d'.task.dev = f
    BY <1>5, <2>3
  <2>5. PoolOK(d, hc)
    BY <1>1 DEF Core
  <2> QED BY <2>1, <2>2, <2>4, <2>5 DEF PoolOK
<1>12. ProgressOK(d')
  BY <1>1, <1>2, <1>3, <1>5, <1>7 DEF Core, ProgressOK, e
<1>13. \A r \in Rings : RingOK(ring, hc', r)
  BY <1>1, <1>6 DEF Core, RingOK
<1>14. LeftOK(d', ring, hc')
  <2>1. ASSUME NEW r \in Rings, Left(ring, hc', r)
        PROVE  /\ d'.task.pc \in {"ring", "resume"} /\ r = RingFor(d')
               /\ d'.task.pc = "resume" => d'.task.state = "BLOCKED" /\ r \in hc'.bell
               /\ Count(ring[r]) - hc'.at[r] <= Len(InHand(d').trbs)
               /\ \A i \in hc'.at[r] .. Count(ring[r]) - 1 :
                    ring[r].trb[i].type = InHand(d').trbs[Len(InHand(d').trbs) - Count(ring[r]) + i + 1]
    <3>1. /\ r = R
          /\ Count(ring[r]) - hc.at[r] <= Len(InHand(d).trbs)
          /\ \A i \in hc.at[r] .. Count(ring[r]) - 1 :
               ring[r].trb[i].type = InHand(d).trbs[Len(InHand(d).trbs) - Count(ring[r]) + i + 1]
      BY <1>1, <1>8, <2>1 DEF Core, LeftOK, R
    <3>2. hc'.at[r] = hc.at[r] /\ r \in hc'.bell
      BY <1>6, <3>1
    <3> QED BY <1>5, <1>7, <3>1, <3>2
  <2>2. \A r \in Rings : r \in hc'.bell =>
          \/ Left(ring, hc', r) /\ d'.task.pc = "resume"
          \/ AtEnd(ring, hc', r) \/ ~hc'.ccs[r]
    BY <1>1, <1>5, <1>6, <1>8, <1>9 DEF Core, LeftOK
  <2>3. \A r \in Rings : AtEnd(ring, hc', r) => r \in hc'.bell
    BY <1>1, <1>6, <1>8 DEF Core, LeftOK
  <2> QED BY <1>5, <2>1, <2>2, <2>3 DEF LeftOK
<1>15. Popped(d') = Popped(d)
  BY <1>5 DEF Popped
<1>16. RoomOK(d', ring)
  BY <1>1, <1>5, <1>7, <1>15 DEF Core, RoomOK, e
<1>17. SlotsOK(d', ring, hc')
  <2>0. CmdRing \in Rings
    BY DEF Rings
  <2>1. Unnumbered(d', ring, hc') <=> Unnumbered(d, ring, hc)
    BY <1>1, <1>5, <1>7, <1>8, <2>0 DEF Unnumbered
  <2>2. ~Numbered(d', ring, hc')
    BY <1>4, <1>7, <1>8, <1>9, <2>0 DEF Numbered
  <2> QED BY <1>1, <1>6, <1>15, <2>1, <2>2 DEF Core, SlotsOK
<1>18. EventsOK(d', ring, hc', E)
  <2>1. \A i \in E : ~Answers(hc.events[i])
    BY <1>1 DEF Core, EventsOK, EventOK
  <2>2. ASSUME NEW i \in E PROVE EventOK(d', ring, hc', hc'.events[i])
    <3>1. EventOK(d, ring, hc, hc.events[i]) /\ ~Answers(hc.events[i])
      BY <1>1, <2>1 DEF Core, EventsOK
    <3>2. /\ hc'.events[i] = hc.events[i] /\ (Busy(d') <=> Busy(d)) /\ d'.task.dev = d.task.dev
          /\ \A f \in Dev : d'.pool[f].slot = d.pool[f].slot
      BY <1>1, <1>5, <1>6, <1>7 DEF e
    <3> QED BY <3>1, <3>2 DEF EventOK
  <2>3. Left(ring, hc', RingFor(d'))
    BY <1>3, <1>7, <1>8, <1>9
  <2> QED BY <1>6, <2>1, <2>2, <2>3 DEF EventsOK
<1>19. Core(d', ring, hc', E)
  BY <1>10, <1>11, <1>12, <1>13, <1>14, <1>16, <1>17, <1>18 DEF Core
<1> QED BY <1>1, <1>5, <1>6, <1>19 DEF IInv, Typed, Trap

\* Before the answer to Enable Slot everything is still to be asked.
LEMMA AllAsked ==
  ASSUME NEW x, ProgressOK(x), Busy(x), x.task.todo \in Seq(Request), Mine(x).port \in Port, Done(x) = 0
  PROVE  x.task.todo = Requests(Mine(x).port)
<1> DEFINE q == Requests(Mine(x).port)
           s == x.task.todo
<1>1. q \in Seq(Request)
  BY RequestsAre
<1>2. Len(q) - Len(s) = 0 /\ \A i \in 1 .. Len(s) : s[i] = q[0 + i]
  BY DEF ProgressOK, Done
<1> HIDE DEF q, s
<1>3. s \in Seq(Request)
  BY DEF s
<1>4. Len(s) = Len(q) /\ \A i \in 1 .. Len(s) : s[i] = q[i]
  BY <1>1, <1>2, <1>3
<1>5. s = q
  BY <1>1, <1>3, <1>4, SeqEqual
<1> QED BY <1>5 DEF s, q

\* The thread runs again: the answer to Enable Slot is there, and the number of
\* the slot belongs to no other device.
LEMMA EnumResumeKeeps ==
  ASSUME IInv, EnumResume
  PROVE  IInv'
<1> DEFINE E == 1 .. Len(hc.events)
           q == InHand(d)
           e == d.task.dev
           slot == IF q.type = "EnableSlot" THEN d.pool[e].event.slot ELSE d.pool[e].slot
           state == CASE q.type = "EnableSlot" -> "Enabled"
                      [] q.type = "AddressDevice" -> "Addressed"
                      [] OTHER -> d.pool[e].state
<1>1. /\ d \in DriverState /\ ring \in [Rings -> RingState] /\ hc \in ControllerState
      /\ Core(d, ring, hc, E) /\ d.stop = "no"
      /\ d.task.state = "RUNNING" /\ d.task.pc = "resume" /\ Busy(d) /\ ring' = ring /\ hc' = hc
  BY DEF IInv, Typed, EnumResume, Thread, Running, Busy
<1>2. d.task.todo # << >> /\ d.task.todo \in Seq(Request)
  BY <1>1, TaskTypes DEF Core, ProgressOK
<1>3. /\ e \in Dev /\ Mine(d).port \in Port /\ Done(d) \in Nat /\ Done(d) + 1 \in 1 .. Steps(Mine(d).port)
      /\ q = Step(Mine(d).port, Done(d) + 1)
  BY <1>1, <1>2, HandFacts DEF Core
<1>4. ((q.type = "EnableSlot") <=> (Done(d) = 0)) /\ ((q.type = "AddressDevice") <=> (Done(d) = 1))
  BY <1>3, StepFacts
<1>5. \A r \in Rings : ~Left(ring, hc, r)
  BY <1>1 DEF Core, LeftOK
<1>6. Done(d) = 0 => /\ hc.slots > 0 /\ \A f \in Dev : d.pool[f].slot < hc.slots
                     /\ d.pool[e].event.type = "EnableSlot" /\ d.pool[e].event.slot = hc.slots
  BY <1>1, <1>5 DEF Core, SlotsOK, Numbered, Mine, Rings
<1>7. d.pool[e].event # NoEvent \/ Done(d) # 0
  BY <1>6 DEF NoEvent
<1>8. d.pool \in [Dev -> Container] /\ d.task \in TaskState /\ d.pool[e] \in Container
  BY <1>1, <1>3, TaskTypes
<1>9. /\ slot \in Nat /\ state \in {"Disabled", "Enabled", "Addressed"}
      /\ slot = IF Done(d) = 0 THEN hc.slots ELSE d.pool[e].slot
      /\ Done(d) = 1 => state = "Addressed"
      /\ Done(d) >= 2 => state = d.pool[e].state
  <2>0. hc.slots \in Nat /\ d.pool[e].slot \in Nat
    BY <1>1, <1>3, TaskTypes, ControllerTypes
  <2>1. slot = IF Done(d) = 0 THEN hc.slots ELSE d.pool[e].slot
    BY <1>4, <1>6
  <2>2. slot \in Nat
    BY <2>0, <2>1
  <2>3. d.pool[e].state \in {"Disabled", "Enabled", "Addressed"}
    BY <1>8 DEF Container
  <2>4. state \in {"Disabled", "Enabled", "Addressed"}
    BY <2>3
  <2>5. Done(d) = 1 => state = "Addressed"
    BY <1>4
  <2>6. Done(d) >= 2 => state = d.pool[e].state
    BY <1>3, <1>4
  <2> QED BY <2>1, <2>2, <2>4, <2>5, <2>6
<1> DEFINE c1 == [d.pool[e] EXCEPT !.wait = FALSE, !.slot = slot, !.state = state]
           t1 == [d.task EXCEPT !.pc = "next", !.todo = Tail(@)]
<1>10. d' = [d EXCEPT !.task.pc = "next", !.task.todo = Tail(@), !.pool[e] = c1]
  <2>1. Done(d) = 0 => d.task.todo = Requests(d.pool[e].port)
    BY <1>1, <1>2, <1>3, AllAsked DEF Core, Mine
  <2> QED BY <1>4, <1>7, <1>8, <2>1 DEF EnumResume, Current, InHand, Container
<1> HIDE DEF slot, state
<1>11. /\ d' \in DriverState
       /\ d'.list = d.list /\ d'.stop = d.stop /\ d'.port = d.port
       /\ d'.task.pc = "next" /\ d'.task.dev = e /\ d'.task.state = "RUNNING"
       /\ d'.task.todo = Tail(d.task.todo)
       /\ \A f \in Dev : /\ d'.pool[f].port = d.pool[f].port
                         /\ d'.pool[f].slot = IF f = e THEN slot ELSE d.pool[f].slot
                         /\ d'.pool[f].state = IF f = e THEN state ELSE d.pool[f].state
                         /\ d'.pool[f].wait = IF f = e THEN FALSE ELSE d.pool[f].wait
  <2> HIDE DEF e
  <2>3. /\ c1 \in Container /\ c1.wait = FALSE /\ c1.port = d.pool[e].port /\ c1.slot = slot
        /\ c1.state = state
    BY <1>8, <1>9 DEF Container
  <2>0. Tail(d.task.todo) \in Seq(Request)
    BY <1>2
  <2>4. /\ t1 \in TaskState /\ t1.pc = "next" /\ t1.dev = d.task.dev /\ t1.state = "RUNNING"
        /\ t1.todo = Tail(d.task.todo)
    BY <1>1, <1>8, <2>0 DEF TaskState
  <2> HIDE DEF c1
  <2>5. d' = [d EXCEPT !.pool = [d.pool EXCEPT ![e] = c1], !.task = t1]
    BY <1>1, <1>8, <1>10 DEF DriverState, TaskState
  <2> HIDE DEF t1
  <2>6. /\ d'.pool = [d.pool EXCEPT ![e] = c1] /\ d'.task = t1 /\ d'.list = d.list
        /\ d'.stop = d.stop /\ d'.port = d.port
    BY <1>1, <2>5 DEF DriverState
  <2>7. d'.pool \in [Dev -> Container]
    BY <1>8, <2>3, <2>6
  <2>8. d' \in DriverState
    BY <1>1, <2>4, <2>5, <2>6, <2>7 DEF DriverState
  <2>9. \A f \in Dev : /\ d'.pool[f].port = d.pool[f].port
                       /\ d'.pool[f].slot = IF f = e THEN slot ELSE d.pool[f].slot
                       /\ d'.pool[f].state = IF f = e THEN state ELSE d.pool[f].state
                       /\ d'.pool[f].wait = IF f = e THEN FALSE ELSE d.pool[f].wait
    BY <1>8, <2>3, <2>6
  <2> QED BY <2>4, <2>6, <2>8, <2>9 DEF e
<1>12. /\ Busy(d') /\ Mine(d').port = Mine(d).port /\ Mine(d').slot = slot /\ Mine(d').state = state
  BY <1>3, <1>11 DEF Busy, Mine
<1>13. Len(d.task.todo) \in Nat \ {0} /\ Len(Tail(d.task.todo)) = Len(d.task.todo) - 1
       /\ \A i \in 1 .. Len(d.task.todo) - 1 : Tail(d.task.todo)[i] = d.task.todo[i + 1]
  BY <1>2
<1>14. /\ Done(d') = Done(d) + 1 /\ Issued(d') = Done(d) + 1 /\ Issued(d) = Done(d) + 1
  <2>1. Len(Requests(Mine(d).port)) \in Nat
    BY <1>3, RequestsAre
  <2> DEFINE n == Len(Requests(Mine(d).port))
             m == Len(d.task.todo)
  <2>2. n \in Nat /\ m \in Nat /\ Done(d) = n - m /\ Done(d') = n - (m - 1)
    BY <1>11, <1>12, <1>13, <2>1 DEF Done
  <2> HIDE DEF n, m
  <2>3. Done(d') = Done(d) + 1
    BY <2>2
  <2> QED BY <1>1, <1>11, <2>3 DEF Issued
<1> HIDE DEF q, e, c1, t1
<1>15. ThreadOK(d')
  BY <1>11 DEF ThreadOK
<1>16. slot # 0
  BY <1>1, <1>3, <1>6, <1>9 DEF Core, ProgressOK, Mine, e
<1>17. PoolOK(d', hc)
  <2>0. PoolOK(d, hc) /\ d'.task.dev = d.task.dev /\ Busy(d) /\ e = d.task.dev /\ hc.slots \in Nat
        /\ \A f \in Dev : d.pool[f].slot \in Nat /\ hc.normal[f] \in Nat
    BY <1>1, <1>11, TaskTypes, ControllerTypes DEF Core, e
  <2>1. \A f \in Dev : f # e => d'.pool[f].slot = d.pool[f].slot
    BY <1>11
  <2>2. ASSUME NEW f \in Dev
        PROVE  /\ d'.pool[f].port = 0 \/ Has(d'.list, f) =>
                    d'.pool[f].slot = 0 /\ ~(Busy(d') /\ d'.task.dev = f)
               /\ Has(d'.list, f) => d'.pool[f].port # 0
               /\ hc.normal[f] > 0 => d'.pool[f].slot # 0 /\ ~(Busy(d') /\ d'.task.dev = f)
    BY <1>11, <2>0, <2>1, ZenonT(40) DEF PoolOK
  <2>3. ASSUME NEW f \in Dev PROVE ~d'.pool[f].wait
    BY <1>11, <2>0, ZenonT(40) DEF PoolOK
  <2>4. ASSUME NEW f \in Dev PROVE d'.pool[f].slot <= hc.slots
    <3>1. d.pool[f].slot <= hc.slots /\ d.pool[e].slot <= hc.slots
      BY <1>3, <2>0 DEF PoolOK
    <3>2. slot <= hc.slots
      BY <1>9, <2>0, <3>1
    <3> QED BY <1>11, <3>1, <3>2
  <2>5. ASSUME NEW f \in Dev, NEW g \in Dev, d'.pool[f].slot = d'.pool[g].slot, d'.pool[f].slot # 0
        PROVE  f = g
    <3>0. \A k \in Dev : d'.pool[k].slot = IF k = e THEN slot ELSE d.pool[k].slot
      BY <1>11
    <3>1. \A k \in Dev : k # e => slot # d.pool[k].slot
      <4>1. CASE Done(d) = 0
        <5>1. slot = hc.slots /\ \A k \in Dev : d.pool[k].slot < hc.slots
          BY <1>6, <1>9, <4>1
        <5> QED BY <2>0, <5>1
      <4>2. CASE Done(d) # 0
        <5>1. slot = d.pool[e].slot
          BY <1>9, <4>2
        <5> QED BY <1>3, <1>16, <2>0, <5>1 DEF PoolOK
      <4> QED BY <4>1, <4>2
    <3>2. CASE f # e /\ g # e
      <4>1. d.pool[f].slot = d.pool[g].slot /\ d.pool[f].slot # 0
        BY <2>5, <3>0, <3>2
      <4> QED BY <2>0, <4>1 DEF PoolOK
    <3>3. CASE f = e \/ g = e
      BY <2>5, <3>0, <3>1, <3>3
    <3> QED BY <3>2, <3>3
  <2>6. Once(d'.list)
    BY <1>11, <2>0 DEF PoolOK
  <2> QED BY <2>2, <2>3, <2>4, <2>5, <2>6 DEF PoolOK
<1>18. ProgressOK(d')
  <2>0. /\ Mine(d).port # 0 /\ d.task.dev \in Dev
        /\ \A i \in 1 .. Len(d.task.todo) : d.task.todo[i] = Requests(Mine(d).port)[Done(d) + i]
        /\ Done(d) >= 2 => Mine(d).state = "Addressed"
    BY <1>1 DEF Core, ProgressOK
  <2>1. ASSUME NEW i \in 1 .. Len(d'.task.todo)
        PROVE  d'.task.todo[i] = Requests(Mine(d).port)[Done(d') + i]
    <3>1. i \in 1 .. Len(d.task.todo) - 1 /\ i + 1 \in 1 .. Len(d.task.todo)
      BY <1>11, <1>13
    <3>2. Done(d) + (i + 1) = Done(d') + i
      BY <1>3, <1>14, <3>1
    <3> QED BY <1>11, <1>13, <2>0, <3>1, <3>2
  <2>2. Done(d') >= 2 => state = "Addressed"
    BY <1>3, <1>9, <1>14, <2>0 DEF Mine, e
  <2> QED BY <1>3, <1>11, <1>12, <1>14, <1>16, <2>0, <2>1, <2>2 DEF ProgressOK, e
<1>19. LeftOK(d', ring, hc)
  BY <1>1, <1>5, <1>11 DEF Core, LeftOK
<1>20. Popped(d') = Popped(d)
  BY <1>11 DEF Popped
<1>21. RoomOK(d', ring)
  BY <1>1, <1>11, <1>12, <1>14, <1>20 DEF Core, RoomOK, e
<1>22. SlotsOK(d', ring, hc)
  <2>1. hc.slots <= Cardinality(Popped(d)) /\ hc.slots \in Nat
    BY <1>1, PoppedFacts, ControllerTypes DEF Core, SlotsOK
  <2>2. ~Unnumbered(d', ring, hc)
    BY <1>3, <1>14 DEF Unnumbered
  <2>3. ~Numbered(d', ring, hc)
    BY <1>11 DEF Numbered
  <2> QED BY <1>20, <2>1, <2>2, <2>3 DEF SlotsOK
<1>23. EventsOK(d', ring, hc, E)
  <2>1. \A i \in E : ~Answers(hc.events[i])
    BY <1>1 DEF Core, EventsOK, EventOK
  <2>2. ASSUME NEW i \in E PROVE EventOK(d', ring, hc, hc.events[i])
    <3>1. EventOK(d, ring, hc, hc.events[i]) /\ ~Answers(hc.events[i])
      BY <1>1, <2>1 DEF Core, EventsOK
    <3>2. /\ (Busy(d') <=> Busy(d)) /\ d'.task.dev = d.task.dev /\ e = d.task.dev /\ Busy(d)
          /\ \A f \in Dev : f # e => d'.pool[f].slot = d.pool[f].slot
      BY <1>1, <1>11, <1>12 DEF e
    <3> QED BY <3>1, <3>2 DEF EventOK
  <2> QED BY <1>11, <2>1, <2>2 DEF EventsOK
<1>24. Core(d', ring, hc, E)
  BY <1>1, <1>15, <1>17, <1>18, <1>19, <1>21, <1>22, <1>23 DEF Core
<1> QED BY <1>1, <1>11, <1>24 DEF IInv, Typed, Trap

-----------------------------------------------------------------------------
(* The handler *)

\* The search through the pool ends at the first device it looks for.
LEMMA FirstFacts ==
  ASSUME NEW S \in SUBSET Dev, S # {}
  PROVE  First(S) \in S
<1>1. S \in SUBSET Nat
  BY DevFacts DEF Dev
<1>2. \E e \in S : \A f \in S : e <= f
  BY <1>1, LeastElement
<1> QED BY <1>2 DEF First

\* An event is noted in the container of its device.
LEMMA NotedFacts ==
  ASSUME NEW x \in DriverState, NEW e \in Dev, NEW event \in Event
  PROVE  LET y == [x EXCEPT !.pool[e].event = event]
         IN  /\ y \in DriverState /\ y.list = x.list /\ y.task = x.task /\ y.stop = x.stop
             /\ y.port = x.port
             /\ \A f \in Dev : /\ y.pool[f].port = x.pool[f].port /\ y.pool[f].slot = x.pool[f].slot
                               /\ y.pool[f].state = x.pool[f].state /\ y.pool[f].type = x.pool[f].type
                               /\ y.pool[f].wait = x.pool[f].wait
                               /\ y.pool[f].event = IF f = e THEN event ELSE x.pool[f].event
<1> DEFINE y == [x EXCEPT !.pool[e].event = event]
           c == [x.pool[e] EXCEPT !.event = event]
<1>1. x.pool \in [Dev -> Container] /\ x.pool[e] \in Container
  BY TaskTypes
<1>2. /\ c \in Container /\ c.port = x.pool[e].port /\ c.slot = x.pool[e].slot
      /\ c.state = x.pool[e].state /\ c.type = x.pool[e].type /\ c.wait = x.pool[e].wait
      /\ c.event = event
  BY <1>1 DEF Container
<1>3. y = [x EXCEPT !.pool = [x.pool EXCEPT ![e] = c]]
  BY <1>1 DEF DriverState
<1> HIDE DEF c, y
<1>4. /\ y.pool = [x.pool EXCEPT ![e] = c] /\ y.list = x.list /\ y.task = x.task /\ y.stop = x.stop
      /\ y.port = x.port
  BY <1>3 DEF DriverState
<1>5. y.pool \in [Dev -> Container]
  BY <1>1, <1>2, <1>4
<1>6. y \in DriverState
  BY <1>3, <1>4, <1>5 DEF DriverState
<1>7. \A f \in Dev : /\ y.pool[f].port = x.pool[f].port /\ y.pool[f].slot = x.pool[f].slot
                     /\ y.pool[f].state = x.pool[f].state /\ y.pool[f].type = x.pool[f].type
                     /\ y.pool[f].wait = x.pool[f].wait
                     /\ y.pool[f].event = IF f = e THEN event ELSE x.pool[f].event
  BY <1>1, <1>2, <1>4
<1>8. y = [x EXCEPT !.pool[e].event = event]
  BY DEF y
<1> QED BY <1>4, <1>6, <1>7, <1>8

\* unblock.
LEMMA UnblockedFacts ==
  ASSUME NEW x \in DriverState
  PROVE  LET y == Unblocked(x)
         IN  /\ y \in DriverState /\ y.list = x.list /\ y.stop = x.stop /\ y.port = x.port
             /\ y.pool = x.pool /\ y.task.state = "RUNNING" /\ y.task.pc = x.task.pc
             /\ y.task.dev = x.task.dev /\ y.task.todo = x.task.todo
<1>1. x.task \in TaskState
  BY TaskTypes
<1> DEFINE t == [x.task EXCEPT !.state = "RUNNING"]
<1>2. /\ t \in TaskState /\ t.state = "RUNNING" /\ t.pc = x.task.pc /\ t.dev = x.task.dev
      /\ t.todo = x.task.todo
  BY <1>1 DEF TaskState
<1>3. Unblocked(x) = [x EXCEPT !.task = t]
  BY DEF Unblocked, DriverState
<1> HIDE DEF t
<1> QED BY <1>2, <1>3 DEF DriverState

\* An assertion stops the kernel.
LEMMA StopFacts ==
  ASSUME NEW x \in DriverState, NEW why \in Stop
  PROVE  [x EXCEPT !.stop = why] \in DriverState /\ [x EXCEPT !.stop = why].stop = why
BY DEF DriverState

\* States that differ in nothing the invariant looks at.
Alike(x, y) ==
  /\ y.list = x.list /\ y.task = x.task
  /\ \A e \in Dev : /\ y.pool[e].port = x.pool[e].port /\ y.pool[e].slot = x.pool[e].slot
                    /\ y.pool[e].wait = x.pool[e].wait /\ y.pool[e].state = x.pool[e].state
                    /\ y.pool[e].type = x.pool[e].type

\* An event that answers nobody leaves what the invariant speaks of alone.
LEMMA AlikeKeeps ==
  ASSUME NEW x \in DriverState, NEW y \in DriverState, NEW rg, NEW h, NEW E, NEW F \in SUBSET E,
         Alike(x, y), Core(x, rg, h, E),
         Numbered(x, rg, h) => Mine(y).event = Mine(x).event,
         \A j \in E \ F : ~Answers(h.events[j])
  PROVE  Core(y, rg, h, F)
<1>0. /\ y.list = x.list /\ y.task = x.task /\ (Busy(y) <=> Busy(x)) /\ InHand(y) = InHand(x)
      /\ RingFor(y) = RingFor(x)
  BY DEF Alike, Busy, InHand, RingFor
<1>1. \A e \in Dev : /\ y.pool[e].port = x.pool[e].port /\ y.pool[e].slot = x.pool[e].slot
                     /\ y.pool[e].wait = x.pool[e].wait /\ y.pool[e].state = x.pool[e].state
                     /\ y.pool[e].type = x.pool[e].type
  BY DEF Alike
<1>2. Busy(x) => /\ x.task.dev \in Dev /\ Mine(y).port = Mine(x).port /\ Mine(y).slot = Mine(x).slot
                 /\ Mine(y).state = Mine(x).state /\ Mine(y).type = Mine(x).type
                 /\ Mine(y).wait = Mine(x).wait /\ Done(y) = Done(x) /\ Issued(y) = Issued(x)
  <2>1. Busy(x) => x.task.dev \in Dev
    BY DEF Core, ProgressOK
  <2>2. Busy(x) => /\ Mine(y).port = Mine(x).port /\ Mine(y).slot = Mine(x).slot
                   /\ Mine(y).state = Mine(x).state /\ Mine(y).type = Mine(x).type
                   /\ Mine(y).wait = Mine(x).wait
    BY <1>0, <1>1, <2>1 DEF Mine
  <2> QED BY <1>0, <2>1, <2>2 DEF Done, Issued
<1>3. ThreadOK(y)
  BY <1>0 DEF Core, ThreadOK
<1>4. PoolOK(y, h)
  <2>1. PoolOK(x, h)
    BY DEF Core
  <2> QED BY <1>0, <1>1, <2>1 DEF PoolOK
<1>5. ProgressOK(y)
  <2>1. ProgressOK(x)
    BY DEF Core
  <2> QED BY <1>0, <1>2, <2>1 DEF ProgressOK
<1>6. LeftOK(y, rg, h)
  <2>1. LeftOK(x, rg, h)
    BY DEF Core
  <2> QED BY <1>0, <2>1 DEF LeftOK
<1>7. Popped(y) = Popped(x)
  BY <1>0, <1>1 DEF Popped
<1>8. RoomOK(y, rg)
  <2>1. RoomOK(x, rg)
    BY DEF Core
  <2> QED BY <1>0, <1>2, <1>7, <2>1 DEF RoomOK
<1>9. SlotsOK(y, rg, h)
  <2>1. SlotsOK(x, rg, h)
    BY DEF Core
  <2>2. Unnumbered(y, rg, h) <=> Unnumbered(x, rg, h)
    BY <1>0, <1>2 DEF Unnumbered
  <2>3. Numbered(y, rg, h) <=> Numbered(x, rg, h)
    BY <1>0, <1>2 DEF Numbered, Busy
  <2> QED BY <1>0, <1>1, <1>7, <2>1, <2>2, <2>3 DEF SlotsOK
<1>10. EventsOK(y, rg, h, F)
  <2>1. EventsOK(x, rg, h, E)
    BY DEF Core
  <2>2. ASSUME NEW j \in F PROVE EventOK(y, rg, h, h.events[j])
    <3>1. EventOK(x, rg, h, h.events[j])
      BY <2>1 DEF EventsOK
    <3>2. x.task.state = "BLOCKED" => Busy(x)
      BY DEF Core, ThreadOK, Busy
    <3> QED BY <1>0, <1>1, <1>2, <3>1, <3>2 DEF EventOK
  <2> QED BY <1>0, <2>1, <2>2 DEF EventsOK
<1> QED BY <1>3, <1>4, <1>5, <1>6, <1>8, <1>9, <1>10 DEF Core

\* A container for the device of a port, taken and put at the head of the list
\* while the thread may be anywhere.
LEMMA EnqueueKeeps ==
  ASSUME NEW x \in DriverState, NEW rg, NEW h \in ControllerState, NEW E, NEW F \in SUBSET E,
         Core(x, rg, h, E), NEW p \in Port, get_free_usb_device(x) # {},
         \A j \in E \ F : ~Answers(h.events[j])
  PROVE  /\ Enqueue(x, p) \in DriverState /\ Enqueue(x, p).stop = x.stop
         /\ Core(Enqueue(x, p), rg, h, F)
<1> DEFINE e == First(get_free_usb_device(x))
           z == Listed(x, e, p)
           y == Enqueue(x, p)
<1>1. e \in Dev /\ x.pool[e].port = 0
  <2>1. get_free_usb_device(x) \in SUBSET Dev
    BY DEF get_free_usb_device
  <2>2. e \in get_free_usb_device(x)
    BY <2>1, FirstFacts
  <2> QED BY <2>2 DEF get_free_usb_device
<1>2. x.pool[e].slot = 0 /\ ~(Busy(x) /\ x.task.dev = e) /\ ~Has(x.list, e) /\ Once(x.list)
  BY <1>1 DEF Core, PoolOK
<1>3. x.pool \in [Dev -> Container] /\ x.list \in Seq(Dev)
  BY TaskTypes
<1>4. y = IF x.task.state = "WAITING" THEN Unblocked(z) ELSE z
  BY DEF Enqueue
<1> HIDE DEF e, y
<1>0. [i \in DOMAIN x.list |-> IF x.list[i] = e THEN Stale ELSE x.list[i]] = x.list
  <2>1. DOMAIN x.list = 1 .. Len(x.list) /\ x.list = [i \in DOMAIN x.list |-> x.list[i]]
    BY <1>3
  <2>2. \A i \in DOMAIN x.list : x.list[i] # e
    BY <1>2, <2>1 DEF Has
  <2> QED BY <2>1, <2>2
<1>5. /\ <<e>> \o x.list \in Seq(Dev) /\ <<e>> \o x.list # << >> /\ Once(<<e>> \o x.list)
      /\ \A f : Has(<<e>> \o x.list, f) <=> f = e \/ Has(x.list, f)
  BY <1>1, <1>2, <1>3, ConsFacts
<1> DEFINE l == <<e>> \o x.list
<1>6. /\ z \in DriverState /\ z.list = l /\ z.task = x.task /\ z.stop = x.stop /\ z.port = x.port
      /\ \A f \in Dev : /\ z.pool[f].port = IF f = e THEN p ELSE x.pool[f].port
                        /\ z.pool[f].slot = x.pool[f].slot /\ z.pool[f].state = x.pool[f].state
                        /\ z.pool[f].type = x.pool[f].type /\ z.pool[f].wait = x.pool[f].wait
                        /\ z.pool[f].event = x.pool[f].event
  <2> DEFINE c == [x.pool[e] EXCEPT !.port = p]
  <2>0. p \in 0 .. Ports
    BY XhciAssumption DEF Port
  <2>1. /\ c \in Container /\ c.port = p /\ c.slot = x.pool[e].slot /\ c.state = x.pool[e].state
        /\ c.type = x.pool[e].type /\ c.wait = x.pool[e].wait /\ c.event = x.pool[e].event
    BY <1>1, <1>3, <2>0 DEF Container
  <2> HIDE DEF l
  <2>2. z = [x EXCEPT !.pool = [x.pool EXCEPT ![e] = c], !.list = l]
    BY <1>0, <1>3 DEF Listed, DriverState, l
  <2> HIDE DEF c, z
  <2>3. /\ z.pool = [x.pool EXCEPT ![e] = c] /\ z.list = l /\ z.task = x.task /\ z.stop = x.stop
        /\ z.port = x.port
    BY <2>2 DEF DriverState
  <2>4. z.pool \in [Dev -> Container]
    BY <1>3, <2>1, <2>3
  <2>5. z \in DriverState
    BY <1>5, <2>2, <2>3, <2>4 DEF DriverState, l
  <2> QED BY <1>3, <2>1, <2>3, <2>5
<1> HIDE DEF z, l
<1>7. /\ y \in DriverState /\ y.list = l /\ y.stop = x.stop /\ y.pool = z.pool
      /\ y.task.pc = x.task.pc /\ y.task.dev = x.task.dev /\ y.task.todo = x.task.todo
      /\ y.task.state = IF x.task.state = "WAITING" THEN "RUNNING" ELSE x.task.state
  BY <1>4, <1>6, UnblockedFacts
<1>8. \A f \in Dev : /\ y.pool[f].port = IF f = e THEN p ELSE x.pool[f].port
                     /\ y.pool[f].slot = x.pool[f].slot /\ y.pool[f].state = x.pool[f].state
                     /\ y.pool[f].type = x.pool[f].type /\ y.pool[f].wait = x.pool[f].wait
                     /\ y.pool[f].event = x.pool[f].event
  BY <1>6, <1>7
<1>9. /\ l # << >> /\ Once(l) /\ \A f : Has(l, f) <=> f = e \/ Has(x.list, f)
  BY <1>5 DEF l
<1>10. /\ (Busy(y) <=> Busy(x)) /\ InHand(y) = InHand(x) /\ RingFor(y) = RingFor(x)
  BY <1>7 DEF Busy, InHand, RingFor
<1>11. Busy(x) => /\ x.task.dev \in Dev /\ Mine(y).port = Mine(x).port /\ Mine(y).slot = Mine(x).slot
                  /\ Mine(y).state = Mine(x).state /\ Mine(y).type = Mine(x).type
                  /\ Mine(y).wait = Mine(x).wait /\ Mine(y).event = Mine(x).event
                  /\ Done(y) = Done(x) /\ Issued(y) = Issued(x)
  <2>1. Busy(x) => x.task.dev \in Dev /\ x.task.dev # e
    BY <1>2 DEF Core, ProgressOK
  <2>2. Busy(x) => /\ Mine(y).port = Mine(x).port /\ Mine(y).slot = Mine(x).slot
                   /\ Mine(y).state = Mine(x).state /\ Mine(y).type = Mine(x).type
                   /\ Mine(y).wait = Mine(x).wait /\ Mine(y).event = Mine(x).event
    BY <1>7, <1>8, <2>1 DEF Mine
  <2> QED BY <1>7, <2>1, <2>2 DEF Done, Issued
<1>12. p # 0
  BY DEF Port
<1>13. ThreadOK(x) /\ PoolOK(x, h) /\ ProgressOK(x) /\ LeftOK(x, rg, h) /\ RoomOK(x, rg)
       /\ SlotsOK(x, rg, h) /\ EventsOK(x, rg, h, E)
  BY DEF Core
<1>14. ThreadOK(y)
  BY <1>7, <1>9, <1>13 DEF ThreadOK
<1>15. PoolOK(y, h)
  BY <1>2, <1>7, <1>8, <1>9, <1>10, <1>12, <1>13 DEF PoolOK
<1>16. ProgressOK(y)
  BY <1>7, <1>10, <1>11, <1>13 DEF ProgressOK
<1>17. LeftOK(y, rg, h)
  BY <1>7, <1>10, <1>13 DEF LeftOK
<1>18. Popped(y) = Popped(x)
  BY <1>1, <1>7, <1>8, <1>9 DEF Popped
<1>19. RoomOK(y, rg)
  BY <1>7, <1>10, <1>11, <1>13, <1>18 DEF RoomOK
<1>20. SlotsOK(y, rg, h)
  <2>1. Unnumbered(y, rg, h) <=> Unnumbered(x, rg, h)
    BY <1>7, <1>10, <1>11 DEF Unnumbered
  <2>2. Numbered(x, rg, h) => Busy(x)
    BY DEF Numbered, Busy
  <2>3. Numbered(y, rg, h) <=> Numbered(x, rg, h)
    BY <1>7, <1>10, <1>11 DEF Numbered, Busy
  <2>4. x.task.state = "WAITING" => ~Numbered(x, rg, h)
    BY <1>13 DEF ThreadOK, Numbered
  <2> QED BY <1>7, <1>8, <1>11, <1>13, <1>18, <2>1, <2>2, <2>3, <2>4 DEF SlotsOK
<1>21. EventsOK(y, rg, h, F)
  <2>0. y.task.state = "BLOCKED" <=> x.task.state = "BLOCKED"
    BY <1>7
  <2>1. ASSUME NEW j \in F PROVE EventOK(y, rg, h, h.events[j])
    <3>1. EventOK(x, rg, h, h.events[j])
      BY <1>13 DEF EventsOK
    <3>2. x.task.state = "BLOCKED" => Busy(x)
      BY <1>13 DEF ThreadOK, Busy
    <3>3. h.events[j].type = "Port" => h.events[j].ok /\ h.events[j].port \in Port
      BY <3>1 DEF EventOK
    <3>4. h.events[j].ok /\ h.events[j].type = "Normal" =>
            h.events[j].slot # 0 /\ \E f \in Dev : y.pool[f].slot = h.events[j].slot
                                                   /\ ~(Busy(y) /\ y.task.dev = f)
      BY <1>7, <1>8, <1>10, <3>1 DEF EventOK
    <3>5. Answers(h.events[j]) =>
            /\ y.task.state = "BLOCKED" /\ ~Left(rg, h, RingFor(y))
            /\ h.events[j].type = InHand(y).type
            /\ h.events[j].slot = IF Done(y) = 0 THEN h.slots ELSE Mine(y).slot
      BY <1>10, <1>11, <2>0, <3>1, <3>2 DEF EventOK
    <3> QED BY <3>3, <3>4, <3>5 DEF EventOK
  <2> QED BY <1>10, <1>13, <2>0, <2>1 DEF EventsOK
<1>22. Core(y, rg, h, F)
  BY <1>14, <1>15, <1>16, <1>17, <1>19, <1>20, <1>21 DEF Core
<1> QED BY <1>7, <1>22 DEF y

\* Data of a HID device: the event is noted and nobody is waiting for it.
LEMMA NormalKeeps ==
  ASSUME NEW x \in DriverState, NEW rg, NEW h \in ControllerState, NEW E,
         NEW i \in E, Core(x, rg, h, E), h.events[i] \in Event,
         h.events[i].ok, h.events[i].type = "Normal"
  PROVE  LET y == Completion(x, h.events[i])
         IN  y \in DriverState /\ y.stop = x.stop /\ Core(y, rg, h, E \ {i})
<1> DEFINE event == h.events[i]
           S == find_usb_device(x, event.slot)
           e == First(S)
           y == [x EXCEPT !.pool[e].event = event]
<1>1. PICK f \in Dev : x.pool[f].slot = event.slot /\ ~(Busy(x) /\ x.task.dev = f) /\ event.slot # 0
  BY DEF Core, EventsOK, EventOK
<1>2. x.pool[f].port # 0
  BY <1>1 DEF Core, PoolOK
<1>3. f \in S /\ S \in SUBSET Dev
  BY <1>1, <1>2 DEF find_usb_device
<1>4. e \in S
  BY <1>3, FirstFacts
<1>5. e = f
  BY <1>1, <1>4 DEF Core, PoolOK, find_usb_device
<1>6. Completion(x, event) = y
  BY <1>3 DEF Completion
<1> HIDE DEF event, S, e
<1>7. /\ y \in DriverState /\ y.list = x.list /\ y.task = x.task /\ y.stop = x.stop
      /\ \A g \in Dev : /\ y.pool[g].port = x.pool[g].port /\ y.pool[g].slot = x.pool[g].slot
                        /\ y.pool[g].state = x.pool[g].state /\ y.pool[g].type = x.pool[g].type
                        /\ y.pool[g].wait = x.pool[g].wait
                        /\ y.pool[g].event = IF g = e THEN event ELSE x.pool[g].event
  BY <1>5, NotedFacts DEF event
<1> HIDE DEF y
<1>8. Alike(x, y)
  BY <1>7 DEF Alike
<1>9. Numbered(x, rg, h) => Mine(y).event = Mine(x).event
  <2>1. Numbered(x, rg, h) => Busy(x) /\ x.task.dev \in Dev
    BY DEF Numbered, Busy, Core, ProgressOK
  <2> QED BY <1>1, <1>5, <1>7, <2>1 DEF Mine
<1>10. \A j \in E \ (E \ {i}) : ~Answers(h.events[j])
  BY DEF Answers
<1>11. Core(y, rg, h, E \ {i})
  BY <1>7, <1>8, <1>9, <1>10, AlikeKeeps
<1> QED BY <1>6, <1>7, <1>11 DEF event

\* The answer to the request in hand: its device is found, by the slot or because
\* it waits for one, and the thread is blocked on that very type of TRB.
LEMMA AnswerKeeps ==
  ASSUME NEW x \in DriverState, NEW rg, NEW h \in ControllerState, NEW E,
         NEW i \in E, Core(x, rg, h, E), h.events[i] \in Event, Answers(h.events[i])
  PROVE  LET y == Completion(x, h.events[i])
         IN  y \in DriverState /\ y.stop = x.stop /\ Core(y, rg, h, E \ {i})
<1> DEFINE event == h.events[i]
           e == x.task.dev
           z == [x EXCEPT !.pool[e].event = event]
           y == Unblocked(z)
<1>1. /\ x.task.state = "BLOCKED" /\ ~Left(rg, h, RingFor(x)) /\ event.type = InHand(x).type
      /\ event.slot = IF Done(x) = 0 THEN h.slots ELSE Mine(x).slot
      /\ event.ok /\ event.type # "Normal"
  BY DEF Core, EventsOK, EventOK, Answers
<1>2. x.task.pc = "resume" /\ Busy(x) /\ x.task.todo # << >>
  BY <1>1 DEF Core, ThreadOK, Busy, ProgressOK
<1>3. /\ e \in Dev /\ Done(x) \in Nat /\ ((event.type = "EnableSlot") <=> (Done(x) = 0))
  <2>1. /\ e \in Dev /\ Mine(x).port \in Port /\ Done(x) \in Nat
        /\ Done(x) + 1 \in 1 .. Steps(Mine(x).port)
        /\ InHand(x) = Step(Mine(x).port, Done(x) + 1)
    BY <1>2, HandFacts DEF Core
  <2> QED BY <1>1, <2>1, StepFacts
<1>4. /\ x.pool[e].port # 0 /\ ((x.pool[e].slot = 0) <=> (Done(x) = 0))
      /\ x.pool[e].type = event.type /\ x.pool[e].wait
  BY <1>1, <1>2 DEF Core, ProgressOK, Mine
<1> DEFINE found == find_usb_device(x, event.slot)
           asking == {f \in Dev : x.pool[f].port # 0 /\ x.pool[f].slot = 0 /\ x.pool[f].wait}
           devs == IF event.type = "EnableSlot" /\ asking # {} THEN asking ELSE found
<1>5. devs = {e}
  <2>1. CASE Done(x) = 0
    <3>1. asking = {e}
      BY <1>3, <1>4, <2>1 DEF Core, PoolOK
    <3> QED BY <1>3, <2>1, <3>1
  <2>2. CASE Done(x) # 0
    <3>1. event.slot = x.pool[e].slot /\ x.pool[e].slot # 0
      BY <1>1, <1>4, <2>2 DEF Mine
    <3>2. found = {e}
      BY <1>3, <1>4, <3>1 DEF Core, PoolOK, find_usb_device
    <3> QED BY <1>3, <2>2, <3>2
  <2> QED BY <2>1, <2>2
<1>6. Completion(x, event) = y
  <2>1. First(devs) = e /\ devs # {}
    BY <1>3, <1>5, FirstFacts
  <2> HIDE DEF event
  <2>2. Completion(x, event) =
          IF devs = {} THEN [x EXCEPT !.stop = "no device"]
          ELSE IF event.type = "Normal" THEN [x EXCEPT !.pool[First(devs)].event = event]
          ELSE IF \/ ~x.pool[First(devs)].wait
                  \/ x.pool[First(devs)].type # event.type
                  \/ x.task.state # "BLOCKED"
               THEN [x EXCEPT !.stop = "waiter"]
          ELSE Unblocked([x EXCEPT !.pool[First(devs)].event = event])
    BY DEF Completion
  <2> HIDE DEF devs, e
  <2> QED BY <1>1, <1>4, <2>1, <2>2
<1> HIDE DEF event, devs
<1>7. /\ z \in DriverState /\ z.list = x.list /\ z.task = x.task /\ z.stop = x.stop
      /\ \A g \in Dev : /\ z.pool[g].port = x.pool[g].port /\ z.pool[g].slot = x.pool[g].slot
                        /\ z.pool[g].state = x.pool[g].state /\ z.pool[g].type = x.pool[g].type
                        /\ z.pool[g].wait = x.pool[g].wait
                        /\ z.pool[g].event = IF g = e THEN event ELSE x.pool[g].event
  BY <1>3, NotedFacts DEF event
<1> HIDE DEF z
<1>8. /\ y \in DriverState /\ y.list = x.list /\ y.stop = x.stop /\ y.pool = z.pool
      /\ y.task.pc = "resume" /\ y.task.dev = e /\ y.task.todo = x.task.todo
      /\ y.task.state = "RUNNING"
  BY <1>2, <1>7, UnblockedFacts
<1> HIDE DEF y
<1>9. /\ Busy(y) /\ InHand(y) = InHand(x) /\ RingFor(y) = RingFor(x)
      /\ Mine(y).port = Mine(x).port /\ Mine(y).slot = Mine(x).slot
      /\ Mine(y).state = Mine(x).state /\ Mine(y).type = Mine(x).type
      /\ Mine(y).wait = Mine(x).wait /\ Mine(y).event = event
      /\ Done(y) = Done(x) /\ Issued(y) = Issued(x)
  <2>1. Busy(y) /\ InHand(y) = InHand(x) /\ RingFor(y) = RingFor(x)
    BY <1>8 DEF Busy, InHand, RingFor
  <2>2. /\ Mine(y).port = Mine(x).port /\ Mine(y).slot = Mine(x).slot
        /\ Mine(y).state = Mine(x).state /\ Mine(y).type = Mine(x).type
        /\ Mine(y).wait = Mine(x).wait /\ Mine(y).event = event
    BY <1>3, <1>7, <1>8 DEF Mine
  <2> QED BY <1>2, <1>8, <2>1, <2>2 DEF Done, Issued
<1>10. ThreadOK(x) /\ PoolOK(x, h) /\ ProgressOK(x) /\ LeftOK(x, rg, h) /\ RoomOK(x, rg)
       /\ SlotsOK(x, rg, h) /\ EventsOK(x, rg, h, E)
  BY DEF Core
<1>11. \A r \in Rings : ~Left(rg, h, r)
  BY <1>1, <1>10 DEF LeftOK
<1>12. ThreadOK(y)
  BY <1>8 DEF ThreadOK
<1>13. PoolOK(y, h)
  <2>1. \A g \in Dev : /\ y.pool[g].port = x.pool[g].port /\ y.pool[g].slot = x.pool[g].slot
                       /\ y.pool[g].wait = x.pool[g].wait
    BY <1>7, <1>8
  <2>2. y.list = x.list /\ y.task.dev = x.task.dev /\ y.task.pc = x.task.pc
    BY <1>2, <1>8
  <2> QED BY <1>2, <1>9, <1>10, <2>1, <2>2 DEF PoolOK
<1>14. ProgressOK(y)
  BY <1>2, <1>8, <1>9, <1>10 DEF ProgressOK
<1>15. LeftOK(y, rg, h)
  BY <1>8, <1>10, <1>11 DEF LeftOK
<1>16. Popped(y) = Popped(x)
  BY <1>7, <1>8 DEF Popped
<1>17. RoomOK(y, rg)
  BY <1>2, <1>8, <1>9, <1>10, <1>16 DEF RoomOK
<1>18. SlotsOK(y, rg, h)
  <2>1. Unnumbered(y, rg, h) <=> Unnumbered(x, rg, h)
    BY <1>2, <1>8, <1>9 DEF Unnumbered
  <2>2. Numbered(y, rg, h) <=> Numbered(x, rg, h)
    BY <1>2, <1>8, <1>9 DEF Numbered
  <2>3. Numbered(x, rg, h) => event.type = "EnableSlot" /\ event.slot = h.slots
    BY <1>1, <1>3 DEF Numbered
  <2>4. \A g \in Dev : y.pool[g].slot = x.pool[g].slot
    BY <1>7, <1>8
  <2> QED BY <1>9, <1>10, <1>16, <2>1, <2>2, <2>3, <2>4 DEF SlotsOK
<1>19. EventsOK(y, rg, h, E \ {i})
  <2>1. \A j \in E \ {i} : ~Answers(h.events[j])
    BY <1>10 DEF EventsOK
  <2>2. ASSUME NEW j \in E \ {i} PROVE EventOK(y, rg, h, h.events[j])
    <3>1. EventOK(x, rg, h, h.events[j]) /\ ~Answers(h.events[j])
      BY <1>10, <2>1 DEF EventsOK
    <3>2. /\ (Busy(y) <=> Busy(x)) /\ y.task.dev = x.task.dev
          /\ \A g \in Dev : y.pool[g].slot = x.pool[g].slot
      BY <1>2, <1>7, <1>8, <1>9
    <3> QED BY <3>1, <3>2 DEF EventOK
  <2> QED BY <1>8, <2>1, <2>2 DEF EventsOK
<1>20. Core(y, rg, h, E \ {i})
  BY <1>12, <1>13, <1>14, <1>15, <1>17, <1>18, <1>19 DEF Core
<1> QED BY <1>6, <1>8, <1>20 DEF event

\* One pass of the loop of xhc_handler.
LEMMA HandleKeeps ==
  ASSUME NEW x \in DriverState, NEW rg, NEW h \in ControllerState, NEW E,
         NEW i \in E, x.stop = "no" => Core(x, rg, h, E), h.events[i] \in Event,
         x.stop \notin Trap, NEW as, as = "Port" /\ h.events[i].ok => h.events[i].type = "Port"
  PROVE  LET y == Handle(x, h.events[i], as)
         IN  y \in DriverState /\ y.stop \notin Trap /\ (y.stop = "no" => Core(y, rg, h, E \ {i}))
<1> DEFINE event == h.events[i]
           y == Handle(x, event, as)
           F == E \ {i}
<1>0. F \in SUBSET E
  OBVIOUS
<1>1. CASE x.stop # "no" \/ ~event.ok
  <2>1. y = x
    BY <1>1 DEF Handle
  <2>2. ASSUME x.stop = "no" PROVE Core(x, rg, h, F)
    <3>1. Alike(x, x)
      BY DEF Alike
    <3>2. \A j \in E \ F : ~Answers(h.events[j])
      BY <1>1, <2>2 DEF Answers
    <3> QED BY <1>0, <2>2, <3>1, <3>2, AlikeKeeps
  <2> QED BY <2>1, <2>2
<1>2. CASE x.stop = "no" /\ event.ok /\ event.type = "Port" /\ as # "Port"
  <2>1. y = [x EXCEPT !.stop = "no slot"]
    BY <1>2 DEF Handle
  <2>2. y \in DriverState /\ y.stop = "no slot"
    <3> HIDE DEF y
    <3>1. "no slot" \in Stop
      BY DEF Stop
    <3> QED BY <2>1, <3>1, StopFacts
  <2> QED BY <2>2 DEF Trap
<1>3. CASE x.stop = "no" /\ event.ok /\ event.type = "Port" /\ as = "Port"
  <2>0. Core(x, rg, h, E) /\ \A j \in E \ F : ~Answers(h.events[j])
    BY <1>3 DEF Answers
  <2>1. y = port_status_change_event_proc(x, event) /\ event.port \in Port
    BY <1>3, <2>0 DEF Handle, Core, EventsOK, EventOK
  <2>6. PortOf(event) = event.port /\ LinkState(x, event.port) = x.port[event.port]
    BY <1>3, <2>1 DEF PortOf, LinkState, Port
  <2>2. CASE x.port[event.port] = "Polling"
    <3>1. y = [x EXCEPT !.port[event.port] = "reset"]
      BY <2>1, <2>2, <2>6 DEF port_status_change_event_proc
    <3> HIDE DEF y, event
    <3>2. y \in DriverState /\ y.stop = x.stop /\ y.list = x.list /\ y.task = x.task /\ y.pool = x.pool
      BY <2>1, <3>1 DEF DriverState
    <3>3. Alike(x, y) /\ Mine(y).event = Mine(x).event
      BY <3>2 DEF Alike, Mine
    <3>4. Core(y, rg, h, F)
      BY <1>0, <2>0, <3>2, <3>3, AlikeKeeps
    <3> QED BY <1>3, <3>2, <3>4 DEF Trap, y, event
  <2>3. CASE x.port[event.port] # "Polling" /\ x.port[event.port] # "U0"
    <3>1. y = [x EXCEPT !.stop = "not U0"]
      BY <2>1, <2>3, <2>6 DEF port_status_change_event_proc
    <3>2. y \in DriverState /\ y.stop = "not U0"
      <4> HIDE DEF y
      <4>1. "not U0" \in Stop
        BY DEF Stop
      <4> QED BY <3>1, <4>1, StopFacts
    <3> QED BY <3>2 DEF Trap
  <2>4. CASE x.port[event.port] = "U0" /\ get_free_usb_device(x) = {}
    <3>1. y = [x EXCEPT !.stop = "pool is full"]
      BY <2>1, <2>4, <2>6 DEF port_status_change_event_proc
    <3>2. y \in DriverState /\ y.stop = "pool is full"
      <4> HIDE DEF y
      <4>1. "pool is full" \in Stop
        BY DEF Stop
      <4> QED BY <3>1, <4>1, StopFacts
    <3> QED BY <3>2 DEF Trap
  <2>5. CASE x.port[event.port] = "U0" /\ get_free_usb_device(x) # {}
    <3>1. y = Enqueue(x, event.port)
      BY <2>1, <2>5, <2>6 DEF port_status_change_event_proc
    <3>2. y \in DriverState /\ y.stop = x.stop /\ Core(y, rg, h, F)
      BY <1>0, <2>0, <2>1, <2>5, <3>1, EnqueueKeeps
    <3> QED BY <1>3, <3>2
  <2> QED BY <2>2, <2>3, <2>4, <2>5
<1>4. CASE x.stop = "no" /\ event.ok /\ event.type # "Port" /\ as # "Port"
  <2>1. y = Completion(x, event) /\ Core(x, rg, h, E)
    BY <1>4 DEF Handle
  <2>2. y \in DriverState /\ y.stop = x.stop /\ Core(y, rg, h, F)
    <3> HIDE DEF y
    <3>1. CASE event.type = "Normal"
      BY <1>4, <2>1, <3>1, NormalKeeps
    <3>2. CASE event.type # "Normal"
      BY <1>4, <2>1, <3>2, AnswerKeeps DEF Answers
    <3> QED BY <3>1, <3>2
  <2> QED BY <1>4, <2>2
<1>5. as = "Port" /\ event.ok => event.type = "Port"
  OBVIOUS
<1> HIDE DEF event, y
<1> QED BY <1>1, <1>2, <1>3, <1>4, <1>5

\* The loop of the handler has a value at every index.
LEMMA HandledLoop ==
  ASSUME NEW x, NEW events, NEW as, NEW n \in Nat
  PROVE  \E g : g = [i \in 0 .. n |-> IF i = 0 THEN x ELSE Handle(g[i - 1], events[i], as)]
<1> DEFINE Loop(g, m) == g = [i \in 0 .. m |-> IF i = 0 THEN x ELSE Handle(g[i - 1], events[i], as)]
           Bad == {m \in Nat : ~ \E g : Loop(g, m)}
<1> SUFFICES ASSUME Bad # {} PROVE FALSE
  OBVIOUS
<1>1. PICK m \in Bad : \A k \in Bad : m <= k
  BY LeastElement
<1>2. CASE m = 0
  <2> DEFINE g == [i \in 0 .. 0 |-> x]
  <2>1. g = [i \in 0 .. 0 |-> IF i = 0 THEN x ELSE Handle(g[i - 1], events[i], as)]
    OBVIOUS
  <2>2. Loop(g, 0)
    BY <2>1
  <2> QED BY <1>2, <2>2
<1>3. CASE m # 0
  <2>0. m \in Nat
    BY <1>1
  <2>1. m - 1 \in Nat /\ m - 1 \notin Bad
    <3> HIDE DEF Bad
    <3>1. m - 1 \in Nat /\ ~(m <= m - 1)
      BY <1>3, <2>0
    <3> QED BY <1>1, <3>1
  <2>2. PICK g : Loop(g, m - 1)
    BY <2>1
  <2> DEFINE h == [i \in 0 .. m |-> IF i = m THEN Handle(g[m - 1], events[m], as) ELSE g[i]]
  <2>3. \A i \in 0 .. m - 1 : h[i] = g[i] /\ g[i] = IF i = 0 THEN x ELSE Handle(g[i - 1], events[i], as)
    <3> HIDE DEF Bad
    <3> SUFFICES ASSUME NEW i \in 0 .. m - 1
                 PROVE  h[i] = g[i] /\ g[i] = IF i = 0 THEN x ELSE Handle(g[i - 1], events[i], as)
      OBVIOUS
    <3>1. i \in 0 .. m /\ i # m
      BY <2>0, <2>1
    <3>2. h[i] = g[i]
      BY <3>1
    <3>3. g[i] = IF i = 0 THEN x ELSE Handle(g[i - 1], events[i], as)
      BY <2>2
    <3> QED BY <3>2, <3>3
  <2>4. \A i \in 0 .. m : h[i] = IF i = 0 THEN x ELSE Handle(h[i - 1], events[i], as)
    <3> SUFFICES ASSUME NEW i \in 0 .. m
                 PROVE  h[i] = IF i = 0 THEN x ELSE Handle(h[i - 1], events[i], as)
      OBVIOUS
    <3>1. CASE i = m
      <4>1. h[m - 1] = g[m - 1] /\ h[m] = Handle(g[m - 1], events[m], as)
        <5> HIDE DEF Bad
        <5>1. m - 1 \in 0 .. m - 1 /\ m \in 0 .. m
          BY <2>0, <2>1
        <5>2. h[m - 1] = g[m - 1]
          BY <2>3, <5>1
        <5>3. h[m] = Handle(g[m - 1], events[m], as)
          BY <5>1
        <5> QED BY <5>2, <5>3
      <4> QED BY <1>3, <3>1, <4>1
    <3>2. CASE i # m
      <4>1. i \in 0 .. m - 1 /\ (i # 0 => i - 1 \in 0 .. m - 1)
        BY <3>2
      <4> QED BY <2>3, <4>1
    <3> QED BY <3>1, <3>2
  <2>5. Loop(h, m)
    BY <2>4
  <2> QED BY <2>5
<1> QED BY <1>2, <1>3

\* All events of an interrupt, in whatever order they came.
LEMMA HandledKeeps ==
  ASSUME NEW x \in DriverState, NEW rg, NEW h \in ControllerState,
         x.stop = "no", Core(x, rg, h, 1 .. Len(h.events)), ~Misread(h.events)
  PROVE  LET y == Handled(x, h.events)
         IN  y \in DriverState /\ y.stop \notin Trap /\ (y.stop = "no" => Core(y, rg, h, {}))
<1> DEFINE n == Len(h.events)
           as == h.events[1].type
           f == CHOOSE g : g = [i \in 0 .. n |-> IF i = 0 THEN x ELSE Handle(g[i - 1], h.events[i], as)]
<1>0. n \in Nat /\ \A i \in 1 .. n : h.events[i] \in Event
  BY ControllerTypes
<1>8. \A i \in 1 .. n : as = "Port" /\ h.events[i].ok => h.events[i].type = "Port"
  <2>1. DOMAIN h.events = 1 .. n
    BY ControllerTypes
  <2> QED BY <2>1 DEF Misread
<1>1. f = [i \in 0 .. n |-> IF i = 0 THEN x ELSE Handle(f[i - 1], h.events[i], as)]
  BY <1>0, HandledLoop
<1>2. Handled(x, h.events) = f[n]
  BY DEF Handled
<1> HIDE DEF f, as
<1>3. f[0] = x /\ \A i \in 1 .. n : f[i] = Handle(f[i - 1], h.events[i], as)
  BY <1>0, <1>1
<1> DEFINE Right(m) == /\ f[m] \in DriverState /\ f[m].stop \notin Trap
                       /\ f[m].stop = "no" => Core(f[m], rg, h, m + 1 .. n)
           Bad == {m \in 0 .. n : ~ Right(m)}
<1>4. Right(0)
  <2>1. 0 + 1 .. n = 1 .. Len(h.events)
    OBVIOUS
  <2> QED BY <1>3, <2>1 DEF Trap
<1> HIDE DEF n, Right
<1>5. Bad = {}
  <2> SUFFICES ASSUME Bad # {} PROVE FALSE
    OBVIOUS
  <2>0. Bad \in SUBSET Nat
    BY <1>0
  <2>1. PICK m \in Bad : \A k \in Bad : m <= k
    BY <2>0, LeastElement
  <2>2. m # 0
    BY <1>4, <2>1
  <2>3. m \in 1 .. n /\ m - 1 \in 0 .. n
    BY <1>0, <2>1, <2>2
  <2>4. Right(m - 1)
    <3>1. m - 1 \notin Bad
      BY <1>0, <2>1, <2>3
    <3> QED BY <2>3, <3>1
  <2>5. (m - 1) + 1 .. n = m .. n /\ m \in m .. n /\ (m .. n) \ {m} = m + 1 .. n
    BY <1>0, <2>3
  <2>6. /\ f[m - 1] \in DriverState /\ f[m - 1].stop \notin Trap
        /\ f[m - 1].stop = "no" => Core(f[m - 1], rg, h, m .. n)
    BY <2>4, <2>5 DEF Right
  <2>7. f[m] = Handle(f[m - 1], h.events[m], as) /\ h.events[m] \in Event
    BY <1>0, <1>3, <2>3
  <2>8. /\ f[m] \in DriverState /\ f[m].stop \notin Trap
        /\ f[m].stop = "no" => Core(f[m], rg, h, (m .. n) \ {m})
    <3> DEFINE z == f[m - 1]
               E == m .. n
    <3>1. /\ z \in DriverState /\ z.stop \notin Trap /\ (z.stop = "no" => Core(z, rg, h, E))
          /\ m \in E
      BY <2>5, <2>6
    <3>2. f[m] = Handle(z, h.events[m], as) /\ (as = "Port" /\ h.events[m].ok => h.events[m].type = "Port")
      BY <1>8, <2>3, <2>7
    <3> HIDE DEF z, E
    <3>3. /\ Handle(z, h.events[m], as) \in DriverState /\ Handle(z, h.events[m], as).stop \notin Trap
          /\ Handle(z, h.events[m], as).stop = "no" => Core(Handle(z, h.events[m], as), rg, h, E \ {m})
      BY <2>7, <3>1, <3>2, HandleKeeps
    <3> QED BY <3>2, <3>3 DEF E
  <2>9. Right(m)
    BY <2>5, <2>8 DEF Right
  <2> QED BY <2>1, <2>9
<1>6. Right(n)
  BY <1>0, <1>5
<1>7. n + 1 .. n = {}
  BY <1>0
<1> QED BY <1>2, <1>6, <1>7 DEF Right

\* A controller that differs in its events, or has less data to report.
LEMMA EventsKeep ==
  ASSUME NEW x, NEW rg, NEW h \in ControllerState, NEW k \in ControllerState, NEW E, NEW F,
         Core(x, rg, h, E), EventsOK(x, rg, k, F),
         k.at = h.at, k.ccs = h.ccs, k.bell = h.bell, k.slots = h.slots, k.failed = h.failed,
         \A e \in Dev : k.normal[e] > 0 => h.normal[e] > 0
  PROVE  Core(x, rg, k, F)
<1>1. \A r : (Left(rg, k, r) <=> Left(rg, h, r)) /\ (AtEnd(rg, k, r) <=> AtEnd(rg, h, r))
  BY DEF Left, AtEnd
<1>2. PoolOK(x, k)
  BY DEF Core, PoolOK
<1>3. \A r \in Rings : RingOK(rg, k, r)
  BY DEF Core, RingOK
<1>4. LeftOK(x, rg, k)
  BY <1>1 DEF Core, LeftOK
<1>5. SlotsOK(x, rg, k)
  BY <1>1 DEF Core, SlotsOK, Unnumbered, Numbered
<1> QED BY <1>2, <1>3, <1>4, <1>5 DEF Core

\* xhc_handler, with all the events it takes.
LEMMA HandlerKeeps ==
  ASSUME IInv, xhc_handler
  PROVE  misread' \/ IInv'
<1> SUFFICES ASSUME ~misread' PROVE IInv'
  OBVIOUS
<1>1. /\ d \in DriverState /\ ring \in [Rings -> RingState] /\ hc \in ControllerState
      /\ Core(d, ring, hc, 1 .. Len(hc.events)) /\ d.stop = "no" /\ ring' = ring
      /\ d' = Handled(d, hc.events) /\ hc' = [hc EXCEPT !.events = << >>] /\ ~Misread(hc.events)
  BY DEF IInv, Typed, xhc_handler, Running
<1>2. d' \in DriverState /\ d'.stop \notin Trap /\ (d'.stop = "no" => Core(d', ring, hc, {}))
  BY <1>1, HandledKeeps
<1>3. /\ hc' \in ControllerState /\ hc'.at = hc.at /\ hc'.ccs = hc.ccs /\ hc'.bell = hc.bell
      /\ hc'.slots = hc.slots /\ hc'.failed = hc.failed /\ hc'.normal = hc.normal
      /\ hc'.events = << >>
  <2>1. << >> \in Seq(Event)
    OBVIOUS
  <2> DEFINE none == << >>
  <2>2. none \in Seq(Event) /\ hc' = [hc EXCEPT !.events = none]
    BY <1>1, <2>1
  <2> HIDE DEF none
  <2>3. /\ hc' \in ControllerState /\ hc'.at = hc.at /\ hc'.ccs = hc.ccs /\ hc'.bell = hc.bell
        /\ hc'.slots = hc.slots /\ hc'.failed = hc.failed /\ hc'.normal = hc.normal
        /\ hc'.events = none
    BY <1>1, <2>2 DEF ControllerState
  <2> QED BY <2>3 DEF none
<1>4. 1 .. Len(hc'.events) = {}
  BY <1>3
<1>5. ASSUME d'.stop = "no" PROVE Core(d', ring, hc', {})
  <2>0. Core(d', ring, hc, {})
    BY <1>2, <1>5
  <2>1. \A r : Left(ring, hc', r) <=> Left(ring, hc, r)
    BY <1>3 DEF Left
  <2>2. EventsOK(d', ring, hc', {})
    BY <1>3, <2>0, <2>1 DEF Core, EventsOK
  <2> QED BY <1>1, <1>3, <2>0, <2>2, EventsKeep
<1>7. Typed(d', ring', hc')
  BY <1>1, <1>2, <1>3 DEF Typed
<1> QED BY <1>1, <1>2, <1>4, <1>5, <1>7 DEF IInv, Running

-----------------------------------------------------------------------------
(* Ports and reports *)

\* The event ring is a queue.
LEMMA PostFacts ==
  ASSUME NEW h \in ControllerState, NEW event \in Event
  PROVE  LET k == Post(h, event)
         IN  /\ k \in ControllerState /\ k.at = h.at /\ k.ccs = h.ccs /\ k.bell = h.bell
             /\ k.slots = h.slots /\ k.failed = h.failed /\ k.normal = h.normal
             /\ Len(h.events) \in Nat /\ Len(k.events) = Len(h.events) + 1
             /\ 1 .. Len(k.events) = (1 .. Len(h.events)) \cup {Len(h.events) + 1}
             /\ k.events[Len(h.events) + 1] = event
             /\ \A i \in 1 .. Len(h.events) : k.events[i] = h.events[i]
<1> DEFINE k == Post(h, event)
           n == Len(h.events)
<1>1. h.events \in Seq(Event) /\ n \in Nat
  BY ControllerTypes
<1>2. /\ k \in ControllerState /\ k.at = h.at /\ k.ccs = h.ccs /\ k.bell = h.bell
      /\ k.slots = h.slots /\ k.failed = h.failed /\ k.normal = h.normal
      /\ k.events = Append(h.events, event)
  <2>1. Append(h.events, event) \in Seq(Event)
    BY <1>1
  <2> QED BY <2>1 DEF Post, ControllerState
<1>3. /\ Len(k.events) = n + 1 /\ k.events[n + 1] = event
      /\ \A i \in 1 .. n : k.events[i] = h.events[i]
  BY <1>1, <1>2, AppendProperties
<1>4. 1 .. n + 1 = (1 .. n) \cup {n + 1}
  BY <1>1
<1> HIDE DEF k, n
<1>5. 1 .. Len(k.events) = (1 .. n) \cup {n + 1}
  BY <1>3, <1>4
<1> QED BY <1>1, <1>2, <1>3, <1>5 DEF k, n

\* An event that answers no request may come at any time.
LEMMA PostKeeps ==
  ASSUME NEW x, NEW rg, NEW h \in ControllerState, NEW event \in Event,
         Core(x, rg, h, 1 .. Len(h.events)), EventOK(x, rg, h, event), ~Answers(event)
  PROVE  LET k == Post(h, event)
         IN  k \in ControllerState /\ Core(x, rg, k, 1 .. Len(k.events))
<1> DEFINE k == Post(h, event)
           n == Len(h.events)
<1>1. /\ k \in ControllerState /\ k.at = h.at /\ k.ccs = h.ccs /\ k.bell = h.bell
      /\ k.slots = h.slots /\ k.failed = h.failed /\ k.normal = h.normal
      /\ n \in Nat /\ Len(k.events) = n + 1
      /\ 1 .. Len(k.events) = (1 .. n) \cup {n + 1} /\ k.events[n + 1] = event
      /\ \A i \in 1 .. n : k.events[i] = h.events[i]
  BY PostFacts
<1> DEFINE F == 1 .. Len(k.events)
<1> HIDE DEF k, n
<1>2. \A r : Left(rg, k, r) <=> Left(rg, h, r)
  BY <1>1 DEF Left
<1>3. EventsOK(x, rg, h, 1 .. n)
  BY DEF Core, n
<1>4. ASSUME NEW i \in F PROVE EventOK(x, rg, k, k.events[i])
  <2>1. EventOK(x, rg, h, k.events[i])
    <3>1. CASE i \in 1 .. n
      BY <1>1, <1>3, <3>1 DEF EventsOK
    <3>2. CASE i = n + 1
      BY <1>1, <3>2
    <3> QED BY <1>1, <3>1, <3>2
  <2> QED BY <1>1, <1>2, <2>1 DEF EventOK
<1>5. ASSUME NEW i \in F, NEW j \in F, Answers(k.events[i]), Answers(k.events[j]) PROVE i = j
  <2>1. i \in 1 .. n /\ j \in 1 .. n
    BY <1>1, <1>5
  <2> QED BY <1>1, <1>3, <1>5, <2>1 DEF EventsOK
<1>6. x.task.state = "BLOCKED" /\ ~k.failed /\ ~Left(rg, k, RingFor(x)) => \E i \in F : Answers(k.events[i])
  BY <1>1, <1>2, <1>3 DEF EventsOK
<1>7. EventsOK(x, rg, k, F)
  BY <1>4, <1>5, <1>6 DEF EventsOK
<1>8. Core(x, rg, k, F)
  BY <1>1, <1>7, EventsKeep DEF n
<1> QED BY <1>1, <1>8 DEF k

\* A port changes, and says so: Attach, ResetDone and Detach.
PortStep(p, to) == d' = [d EXCEPT !.port[p] = to] /\ hc' = Post(hc, PortEvent(p)) /\ UNCHANGED ring

\* A device is plugged in, or a port changes its state.
LEMMA PortKeeps ==
  ASSUME IInv, Running, NEW p \in Port, NEW to \in {"U0", "Polling", "RxDetect"}, PortStep(p, to)
  PROVE  IInv'
<1>1. /\ d \in DriverState /\ ring \in [Rings -> RingState] /\ hc \in ControllerState
      /\ Core(d, ring, hc, 1 .. Len(hc.events)) /\ ring' = ring
      /\ d' = [d EXCEPT !.port[p] = to] /\ hc' = Post(hc, PortEvent(p))
  BY DEF IInv, Typed, PortStep
<1>2. d' \in DriverState /\ d'.list = d.list /\ d'.task = d.task /\ d'.pool = d.pool /\ d'.stop = d.stop
  BY <1>1 DEF DriverState
<1>3. PortEvent(p) \in Event
  BY XhciAssumption DEF PortEvent, Event, Kind, Port
<1>4. Core(d', ring, hc, 1 .. Len(hc.events))
  <2>1. Alike(d, d') /\ Mine(d').event = Mine(d).event
    BY <1>2 DEF Alike, Mine
  <2> QED BY <1>1, <1>2, <2>1, AlikeKeeps
<1>5. EventOK(d', ring, hc, PortEvent(p)) /\ ~Answers(PortEvent(p))
  BY DEF EventOK, PortEvent, Answers
<1>6. hc' \in ControllerState /\ Core(d', ring, hc', 1 .. Len(hc'.events))
  BY <1>1, <1>3, <1>4, <1>5, PostKeeps
<1> QED BY <1>1, <1>2, <1>6 DEF IInv, Typed, Trap

\* A device reports on its interrupt endpoint.
LEMMA ReportKeeps ==
  ASSUME IInv, NEW e \in Dev, Report(e)
  PROVE  IInv'
<1> DEFINE event == [type |-> "Normal", slot |-> d.pool[e].slot, port |-> 0, ok |-> TRUE]
           k == [hc EXCEPT !.normal[e] = @ - 1]
<1>1. /\ d \in DriverState /\ ring \in [Rings -> RingState] /\ hc \in ControllerState
      /\ Core(d, ring, hc, 1 .. Len(hc.events))
      /\ ring' = ring /\ d' = d /\ hc.normal[e] > 0 /\ hc' = Post(k, event)
  BY DEF IInv, Typed, Report
<1>2. /\ k \in ControllerState /\ k.at = hc.at /\ k.ccs = hc.ccs /\ k.bell = hc.bell
      /\ k.slots = hc.slots /\ k.failed = hc.failed /\ k.events = hc.events
      /\ \A f \in Dev : k.normal[f] > 0 => hc.normal[f] > 0
  <2>1. hc.normal \in [Dev -> Nat] /\ hc.normal[e] - 1 \in Nat
    BY <1>1, ControllerTypes
  <2> DEFINE m == [hc.normal EXCEPT ![e] = hc.normal[e] - 1]
  <2>2. m \in [Dev -> Nat] /\ \A f \in Dev : m[f] > 0 => hc.normal[f] > 0
    BY <1>1, <2>1
  <2>3. k = [hc EXCEPT !.normal = m]
    BY <1>1 DEF ControllerState
  <2> HIDE DEF m, k
  <2>4. /\ k \in ControllerState /\ k.at = hc.at /\ k.ccs = hc.ccs /\ k.bell = hc.bell
        /\ k.slots = hc.slots /\ k.failed = hc.failed /\ k.events = hc.events /\ k.normal = m
    BY <1>1, <2>2, <2>3 DEF ControllerState
  <2> QED BY <2>2, <2>4
<1> HIDE DEF k
<1>3. event \in Event
  BY <1>1, TaskTypes, XhciAssumption DEF Event, Kind
<1>4. Core(d, ring, k, 1 .. Len(k.events))
  <2>1. \A r : Left(ring, k, r) <=> Left(ring, hc, r)
    BY <1>2 DEF Left
  <2>2. EventsOK(d, ring, k, 1 .. Len(hc.events))
    BY <1>1, <1>2, <2>1 DEF Core, EventsOK, EventOK
  <2>3. Core(d, ring, k, 1 .. Len(hc.events))
    BY <1>1, <1>2, <2>2, EventsKeep
  <2> QED BY <1>2, <2>3
<1>5. EventOK(d, ring, k, event) /\ ~Answers(event)
  <2>1. d.pool[e].slot # 0 /\ ~(Busy(d) /\ d.task.dev = e)
    BY <1>1 DEF Core, PoolOK
  <2> QED BY <2>1 DEF EventOK, Answers
<1> HIDE DEF event
<1>6. hc' \in ControllerState /\ Core(d, ring, hc', 1 .. Len(hc'.events))
  BY <1>1, <1>2, <1>3, <1>4, <1>5, PostKeeps
<1> QED BY <1>1, <1>6 DEF IInv, Typed, Trap

-----------------------------------------------------------------------------
(* The controller *)

\* The controller owns a TRB exactly when it is one it has left to execute, or the
\* link TRB behind the last.
LEMMA OwnedFacts ==
  ASSUME ring \in [Rings -> RingState], hc \in ControllerState, NEW r \in Rings, RingOK(ring, hc, r)
  PROVE  /\ hc.at[r] \in 0 .. RingTrbs - 1 /\ Count(ring[r]) \in 0 .. RingTrbs - 1
         /\ hc.at[r] <= Count(ring[r])
         /\ AtLink(r) <=> hc.at[r] = RingTrbs - 1
         /\ Owned(r) <=> Left(ring, hc, r) \/ AtEnd(ring, hc, r)
         /\ hc.ccs[r] /\ hc.at[r] < RingTrbs - 1 =>
              (OwnedAt(r, hc.at[r] + 1) <=> hc.at[r] + 1 < Count(ring[r]) \/ hc.at[r] + 1 = RingTrbs - 1)
<1> DEFINE a == hc.at[r]
           c == Count(ring[r])
<1>1. a \in 0 .. RingTrbs - 1 /\ c \in 0 .. RingTrbs - 1 /\ a <= c /\ hc.ccs[r] \in BOOLEAN
      /\ RingTrbs \in Nat /\ RingTrbs > 1
  BY ControllerTypes, CountType, TrbFacts DEF RingOK
<1>2. /\ ring[r].link = TRUE /\ (~hc.ccs[r] => a = 0 /\ c = RingTrbs - 1)
      /\ \A i \in Trb : ring[r].trb[i].cycle \in BOOLEAN /\ (ring[r].trb[i].cycle <=> i < c)
  BY DEF RingOK, Written1, RingState
<1>3. AtLink(r) <=> a = RingTrbs - 1
  BY <1>1, TrbFacts DEF AtLink
<1>4. Owned(r) <=> Left(ring, hc, r) \/ AtEnd(ring, hc, r)
  <2>1. CASE hc.ccs[r]
    <3>1. CASE a \in Trb
      <4>1. Owned(r) <=> ring[r].trb[a].cycle
        BY <1>2, <2>1, <3>1 DEF Owned, OwnedAt
      <4>2. ~AtEnd(ring, hc, r)
        BY <1>1, <3>1, TrbFacts DEF AtEnd
      <4> QED BY <1>2, <2>1, <3>1, <4>1, <4>2 DEF Left
    <3>2. CASE a \notin Trb
      <4>1. Owned(r)
        BY <1>1, <1>2, <2>1, <3>2 DEF Owned, OwnedAt
      <4>2. AtEnd(ring, hc, r)
        BY <1>1, <2>1, <3>2, TrbFacts DEF AtEnd
      <4> QED BY <4>1, <4>2
    <3> QED BY <3>1, <3>2
  <2>2. CASE ~hc.ccs[r]
    <3>1. a = 0 /\ 0 \in Trb /\ 0 < c
      BY <1>1, <1>2, <2>2, TrbFacts
    <3>2. ring[r].trb[a].cycle = TRUE
      BY <1>2, <3>1
    <3>3. ~Owned(r)
      BY <2>2, <3>1, <3>2 DEF Owned, OwnedAt
    <3> QED BY <2>2, <3>3 DEF Left, AtEnd
  <2> QED BY <2>1, <2>2
<1>5. ASSUME hc.ccs[r], a < RingTrbs - 1
      PROVE  OwnedAt(r, a + 1) <=> a + 1 < c \/ a + 1 = RingTrbs - 1
  <2>1. CASE a + 1 \in Trb
    <3>1. OwnedAt(r, a + 1) <=> ring[r].trb[a + 1].cycle
      BY <1>1, <1>2, <1>5, <2>1 DEF OwnedAt
    <3>2. a + 1 # RingTrbs - 1
      BY <1>1, <2>1, TrbFacts
    <3> QED BY <1>2, <2>1, <3>1, <3>2
  <2>2. CASE a + 1 \notin Trb
    <3>1. OwnedAt(r, a + 1)
      BY <1>1, <1>2, <1>5, <2>2 DEF OwnedAt
    <3>2. a + 1 = RingTrbs - 1
      BY <1>1, <1>5, <2>2, TrbFacts
    <3> QED BY <3>1, <3>2
  <2> QED BY <2>1, <2>2
<1> QED BY <1>1, <1>3, <1>4, <1>5

\* A doorbell is answered.
LEMMA DrainedKeeps ==
  ASSUME IInv, NEW r \in Rings, Drained(r)
  PROVE  IInv'
<1> DEFINE E == 1 .. Len(hc.events)
<1>1. /\ d \in DriverState /\ ring \in [Rings -> RingState] /\ hc \in ControllerState
      /\ Core(d, ring, hc, E) /\ ring' = ring /\ d' = d /\ ~Owned(r)
      /\ hc' = [hc EXCEPT !.bell = @ \ {r}]
  BY DEF IInv, Typed, Drained
<1>2. /\ hc' \in ControllerState /\ hc'.at = hc.at /\ hc'.ccs = hc.ccs /\ hc'.bell = hc.bell \ {r}
      /\ hc'.slots = hc.slots /\ hc'.failed = hc.failed /\ hc'.normal = hc.normal
      /\ hc'.events = hc.events
  BY <1>1 DEF ControllerState
<1>3. ~Left(ring, hc, r) /\ ~AtEnd(ring, hc, r)
  BY <1>1, OwnedFacts DEF Core
<1>4. \A s : (Left(ring, hc', s) <=> Left(ring, hc, s)) /\ (AtEnd(ring, hc', s) <=> AtEnd(ring, hc, s))
  BY <1>2 DEF Left, AtEnd
<1>5. PoolOK(d, hc')
  BY <1>1, <1>2 DEF Core, PoolOK
<1>6. \A s \in Rings : RingOK(ring, hc', s)
  BY <1>1, <1>2 DEF Core, RingOK
<1>7. LeftOK(d, ring, hc')
  <2>1. \A s \in Rings : Left(ring, hc, s) \/ AtEnd(ring, hc, s) => s # r
    BY <1>3
  <2> QED BY <1>1, <1>2, <1>4, <2>1 DEF Core, LeftOK
<1>8. SlotsOK(d, ring, hc')
  BY <1>1, <1>2, <1>4 DEF Core, SlotsOK, Unnumbered, Numbered
<1>9. EventsOK(d, ring, hc', E)
  <2>0. EventsOK(d, ring, hc, E)
    BY <1>1 DEF Core
  <2>1. Left(ring, hc', RingFor(d)) <=> Left(ring, hc, RingFor(d))
    BY <1>4
  <2> QED BY <1>2, <2>0, <2>1 DEF EventsOK, EventOK
<1>10. Core(d, ring, hc', E)
  BY <1>1, <1>5, <1>6, <1>7, <1>8, <1>9 DEF Core
<1> QED BY <1>1, <1>2, <1>10 DEF IInv, Typed, Trap

\* The link TRB: the controller is back at the first TRB, which it does not own.
LEMMA FollowKeeps ==
  ASSUME IInv, NEW r \in Rings, Follow(r)
  PROVE  IInv'
<1> DEFINE E == 1 .. Len(hc.events)
<1>1. /\ d \in DriverState /\ ring \in [Rings -> RingState] /\ hc \in ControllerState
      /\ Core(d, ring, hc, E) /\ ring' = ring /\ d' = d /\ Owned(r) /\ AtLink(r)
      /\ hc' = [hc EXCEPT !.at[r] = 0, !.ccs[r] = ~@]
  BY DEF IInv, Typed, Follow
<1>2. hc.at[r] = RingTrbs - 1 /\ Count(ring[r]) = RingTrbs - 1 /\ hc.ccs[r] /\ ~Left(ring, hc, r)
  <2>1. /\ hc.at[r] = RingTrbs - 1 /\ Count(ring[r]) \in 0 .. RingTrbs - 1 /\ hc.at[r] <= Count(ring[r])
        /\ Left(ring, hc, r) \/ AtEnd(ring, hc, r)
    BY <1>1, OwnedFacts DEF Core
  <2> QED BY <2>1, TrbFacts DEF Left, AtEnd
<1>3. /\ hc' \in ControllerState /\ hc'.bell = hc.bell
      /\ hc'.slots = hc.slots /\ hc'.failed = hc.failed /\ hc'.normal = hc.normal
      /\ hc'.events = hc.events
      /\ hc'.at[r] = 0 /\ ~hc'.ccs[r]
      /\ \A s \in Rings : s # r => hc'.at[s] = hc.at[s] /\ hc'.ccs[s] = hc.ccs[s]
  <2>1. hc.at \in [Rings -> 0 .. RingTrbs - 1] /\ hc.ccs \in [Rings -> BOOLEAN] /\ 0 \in 0 .. RingTrbs - 1
    BY <1>1, ControllerTypes, TrbFacts
  <2> DEFINE a == [hc.at EXCEPT ![r] = 0]
             c == [hc.ccs EXCEPT ![r] = ~hc.ccs[r]]
  <2>2. a \in [Rings -> 0 .. RingTrbs - 1] /\ a[r] = 0 /\ \A s \in Rings : s # r => a[s] = hc.at[s]
    BY <2>1
  <2>3. c \in [Rings -> BOOLEAN] /\ ~c[r] /\ \A s \in Rings : s # r => c[s] = hc.ccs[s]
    BY <1>2, <2>1
  <2>4. hc' = [hc EXCEPT !.at = a, !.ccs = c]
    BY <1>1 DEF ControllerState
  <2> HIDE DEF a, c
  <2> QED BY <1>1, <2>2, <2>3, <2>4 DEF ControllerState
<1>4. \A s \in Rings : /\ Left(ring, hc', s) <=> Left(ring, hc, s)
                       /\ AtEnd(ring, hc', s) => AtEnd(ring, hc, s)
                       /\ s # r => (AtEnd(ring, hc', s) <=> AtEnd(ring, hc, s))
  BY <1>2, <1>3 DEF Left, AtEnd
<1>5. PoolOK(d, hc')
  BY <1>1, <1>3 DEF Core, PoolOK
<1>6. \A s \in Rings : RingOK(ring, hc', s)
  <2> SUFFICES ASSUME NEW s \in Rings PROVE RingOK(ring, hc', s)
    OBVIOUS
  <2>1. RingOK(ring, hc, s)
    BY <1>1 DEF Core
  <2>2. CASE s = r
    BY <1>2, <1>3, <2>1, <2>2, TrbFacts DEF RingOK
  <2>3. CASE s # r
    BY <1>3, <2>1, <2>3 DEF RingOK
  <2> QED BY <2>2, <2>3
<1>7. LeftOK(d, ring, hc')
  <2>0. LeftOK(d, ring, hc)
    BY <1>1 DEF Core
  <2>1. ASSUME NEW s \in Rings, Left(ring, hc', s)
        PROVE  /\ d.task.pc \in {"ring", "resume"} /\ s = RingFor(d)
               /\ d.task.pc = "resume" => d.task.state = "BLOCKED" /\ s \in hc'.bell
               /\ Count(ring[s]) - hc'.at[s] <= Len(InHand(d).trbs)
               /\ \A i \in hc'.at[s] .. Count(ring[s]) - 1 :
                    ring[s].trb[i].type = InHand(d).trbs[Len(InHand(d).trbs) - Count(ring[s]) + i + 1]
    <3>1. s # r /\ Left(ring, hc, s)
      BY <1>2, <1>4, <2>1
    <3> QED BY <1>3, <2>0, <3>1 DEF LeftOK
  <2>2. \A s \in Rings : s \in hc'.bell =>
          \/ Left(ring, hc', s) /\ d.task.pc = "resume"
          \/ AtEnd(ring, hc', s) \/ ~hc'.ccs[s]
    BY <1>3, <1>4, <2>0 DEF LeftOK
  <2>3. \A s \in Rings : AtEnd(ring, hc', s) => s \in hc'.bell
    BY <1>3, <1>4, <2>0 DEF LeftOK
  <2>4. d.task.pc = "ring" => Left(ring, hc', RingFor(d))
    <3>1. ASSUME d.task.pc = "ring" PROVE RingFor(d) \in Rings
      BY <1>1, <3>1, HandFacts DEF Core, Busy, ProgressOK
    <3> QED BY <1>4, <2>0, <3>1 DEF LeftOK
  <2> QED BY <2>1, <2>2, <2>3, <2>4 DEF LeftOK
<1>8. SlotsOK(d, ring, hc')
  <2>1. CmdRing \in Rings
    BY DEF Rings
  <2> QED BY <1>1, <1>3, <1>4, <2>1 DEF Core, SlotsOK, Unnumbered, Numbered
<1>9. EventsOK(d, ring, hc', E)
  <2>0. EventsOK(d, ring, hc, E)
    BY <1>1 DEF Core
  <2>1. d.task.state = "BLOCKED" => RingFor(d) \in Rings
    BY <1>1, HandFacts DEF Core, Busy, ProgressOK, ThreadOK
  <2>2. d.task.state = "BLOCKED" => (Left(ring, hc', RingFor(d)) <=> Left(ring, hc, RingFor(d)))
    BY <1>4, <2>1
  <2> QED BY <1>3, <2>0, <2>2 DEF EventsOK, EventOK
<1>10. Core(d, ring, hc', E)
  BY <1>1, <1>5, <1>6, <1>7, <1>8, <1>9 DEF Core
<1> QED BY <1>1, <1>3, <1>10 DEF IInv, Typed, Trap

\* A TRB is executed: the last of a request answers it, those before ask for no
\* event.  The doorbell stays rung while the controller owns the next TRB.
LEMMA ExecuteKeeps ==
  ASSUME IInv, NEW r \in Rings, NEW ok \in BOOLEAN, Execute(r, ok), ~Lingering
  PROVE  IInv'
<1> DEFINE E == 1 .. Len(hc.events)
           a == hc.at[r]
           c == Count(ring[r])
           q == InHand(d)
           l == Len(q.trbs)
           p == Mine(d).port
           type == ring[r].trb[hc.at[r]].type
           k == [hc EXCEPT !.at[r] = @ + 1, !.slots = IF type = "EnableSlot" THEN @ + 1 ELSE @,
                           !.failed = @ \/ ~ok,
                           !.bell = IF Lingering \/ OwnedAt(r, hc.at[r] + 1) THEN @ ELSE @ \ {r}]
           event == [type |-> type, slot |-> SlotOf(r, type), port |-> 0, ok |-> ok]
<1>1. /\ d \in DriverState /\ ring \in [Rings -> RingState] /\ hc \in ControllerState
      /\ Core(d, ring, hc, E) /\ ring' = ring /\ d' = d /\ d.stop = "no"
      /\ Owned(r) /\ ~AtLink(r) /\ r \in hc.bell
      /\ hc' = IF type \in {"SetupStage", "DataStage"} /\ ok THEN k ELSE Post(k, event)
  BY DEF IInv, Typed, Execute, Running
<1>2. /\ a \in Nat /\ c \in Nat /\ RingTrbs \in Nat /\ a < c /\ c <= RingTrbs - 1
      /\ hc.ccs[r] /\ Left(ring, hc, r)
      /\ OwnedAt(r, a + 1) <=> a + 1 < c \/ a + 1 = RingTrbs - 1
  <2>1. /\ a \in 0 .. RingTrbs - 1 /\ c \in 0 .. RingTrbs - 1
        /\ AtLink(r) <=> a = RingTrbs - 1
        /\ Left(ring, hc, r) \/ AtEnd(ring, hc, r)
        /\ hc.ccs[r] /\ a < RingTrbs - 1 =>
             (OwnedAt(r, a + 1) <=> a + 1 < c \/ a + 1 = RingTrbs - 1)
    BY <1>1, OwnedFacts DEF Core
  <2>2. a < RingTrbs - 1 /\ RingTrbs \in Nat
    BY <1>1, <2>1, TrbFacts
  <2>3. Left(ring, hc, r)
    BY <2>1, <2>2, TrbFacts DEF AtEnd
  <2>4. hc.ccs[r] /\ a < c
    BY <2>3 DEF Left
  <2> QED BY <2>1, <2>2, <2>3, <2>4, TrbFacts
<1>3. /\ d.task.pc = "resume" /\ d.task.state = "BLOCKED" /\ r = RingFor(d) /\ Busy(d)
      /\ c - a <= l
      /\ \A i \in a .. c - 1 : ring[r].trb[i].type = q.trbs[l - c + i + 1]
  <2>1. ~AtEnd(ring, hc, r)
    BY <1>2 DEF AtEnd
  <2>2. d.task.pc = "resume"
    BY <1>1, <1>2, <2>1 DEF Core, LeftOK
  <2> QED BY <1>1, <1>2, <2>2 DEF Core, LeftOK, Busy
<1>4. /\ d.task.dev \in Dev /\ p \in Port /\ Done(d) \in Nat /\ Done(d) + 1 \in 1 .. Steps(p)
      /\ q = Step(p, Done(d) + 1) /\ q \in Request
  <2>1. d.task.todo # << >>
    BY <1>1, <1>3 DEF Core, ProgressOK
  <2> QED BY <1>1, <1>3, <2>1, HandFacts DEF Core
<1>5. /\ l \in Nat \ {0} /\ q.trbs[l] = q.type
      /\ \A n \in 1 .. l - 1 : q.trbs[n] \in {"SetupStage", "DataStage"}
      /\ q.type \in {"EnableSlot", "AddressDevice", "ConfigureEndpoint", "StatusStage"}
      /\ (q.type = "EnableSlot") <=> (Done(d) = 0)
      /\ q.ring = "cmd" => l = 1
      /\ q.ring # "cmd" => Done(d) # 0
  <2>1. /\ q.ring = "cmd" => l = 1
        /\ q.ring = "ep0" => l \in {2, 3} /\ Done(d) + 1 > 2
        /\ q.trbs[l] = q.type
        /\ \A n \in 1 .. l - 1 : q.trbs[n] \in {"SetupStage", "DataStage"}
        /\ q.type \in {"EnableSlot", "AddressDevice", "ConfigureEndpoint", "StatusStage"}
        /\ (q.type = "EnableSlot") <=> (Done(d) + 1 = 1)
    BY <1>4, StepFacts
  <2>2. q.ring \in {"cmd", "ep0"}
    BY <1>4 DEF Request
  <2>3. l \in Nat \ {0}
    <3> HIDE DEF l
    <3> QED BY <2>1, <2>2
  <2> HIDE DEF l, q
  <2> QED BY <1>4, <2>1, <2>2, <2>3
<1>6. type = q.trbs[l - c + a + 1]
  <2> HIDE DEF a, c, l, q
  <2>1. a \in a .. c - 1
    BY <1>2
  <2>2. ring[r].trb[a].type = q.trbs[l - c + a + 1]
    BY <1>3, <2>1
  <2> QED BY <2>2 DEF a
<1> DEFINE last == a + 1 = c
<1> HIDE DEF l, a, c, type
<1>7. (last => type = q.type) /\ (~last => type \in {"SetupStage", "DataStage"})
  <2>1. ASSUME last PROVE l - c + a + 1 = l
    BY <1>2, <1>5, <2>1
  <2>2. ASSUME ~last PROVE l - c + a + 1 \in 1 .. l - 1
    BY <1>2, <1>3, <1>5, <2>2
  <2> QED BY <1>5, <1>6, <2>1, <2>2
<1>8. /\ type \in Kind /\ type \notin {"Port", "Normal"}
      /\ ((type \in {"SetupStage", "DataStage"}) <=> ~last)
      /\ ((type = "EnableSlot") <=> (Done(d) = 0))
      /\ (Done(d) = 0 => last /\ r = CmdRing)
  <2>1. Done(d) = 0 => last /\ r = CmdRing
    <3>1. ASSUME Done(d) = 0 PROVE l = 1 /\ r = CmdRing
      BY <1>3, <1>5, <3>1 DEF RingFor, q
    <3>2. Done(d) = 0 => last
      BY <1>2, <1>3, <3>1
    <3> QED BY <3>1, <3>2
  <2> HIDE DEF last
  <2>2. last => /\ type \in Kind /\ type \notin {"Port", "Normal"}
                /\ type \notin {"SetupStage", "DataStage"}
                /\ ((type = "EnableSlot") <=> (Done(d) = 0))
    BY <1>5, <1>7 DEF Kind
  <2>3. ~last => /\ type \in Kind /\ type \notin {"Port", "Normal"} /\ type # "EnableSlot"
    BY <1>7 DEF Kind
  <2> QED BY <1>7, <2>1, <2>2, <2>3
<1>9. /\ k \in ControllerState /\ k.ccs = hc.ccs /\ k.normal = hc.normal /\ k.events = hc.events
      /\ k.slots = (IF Done(d) = 0 THEN hc.slots + 1 ELSE hc.slots) /\ hc.slots \in Nat
      /\ k.at[r] = a + 1 /\ (\A s \in Rings : s # r => k.at[s] = hc.at[s])
      /\ k.failed = (hc.failed \/ ~ok)
      /\ (\A s \in Rings : s # r => (s \in k.bell <=> s \in hc.bell))
      /\ (r \in k.bell <=> a + 1 < c \/ a + 1 = RingTrbs - 1)
  <2>0. /\ hc.at \in [Rings -> 0 .. RingTrbs - 1] /\ hc.slots \in Nat /\ hc.bell \in SUBSET Rings
        /\ hc.failed \in BOOLEAN
    BY <1>1, ControllerTypes
  <2> DEFINE at == [hc.at EXCEPT ![r] = a + 1]
             slots == IF type = "EnableSlot" THEN hc.slots + 1 ELSE hc.slots
             bell == IF OwnedAt(r, a + 1) THEN hc.bell ELSE hc.bell \ {r}
             failed == hc.failed \/ ~ok
  <2>1. /\ at \in [Rings -> 0 .. RingTrbs - 1] /\ at[r] = a + 1
        /\ \A s \in Rings : s # r => at[s] = hc.at[s]
    <3>1. a + 1 \in 0 .. RingTrbs - 1
      BY <1>2
    <3> QED BY <2>0, <3>1
  <2>2. slots \in Nat /\ slots = IF Done(d) = 0 THEN hc.slots + 1 ELSE hc.slots
    BY <1>8, <2>0
  <2>3. /\ bell \in SUBSET Rings /\ \A s \in Rings : s # r => (s \in bell <=> s \in hc.bell)
        /\ r \in bell <=> a + 1 < c \/ a + 1 = RingTrbs - 1
    BY <1>1, <1>2, <2>0
  <2>4. failed \in BOOLEAN
    BY <2>0
  <2>5. k = [hc EXCEPT !.at = at, !.slots = slots, !.failed = failed, !.bell = bell]
    BY <1>1 DEF ControllerState, a
  <2> HIDE DEF at, slots, bell, failed, k
  <2>6. /\ k \in ControllerState /\ k.ccs = hc.ccs /\ k.normal = hc.normal /\ k.events = hc.events
        /\ k.at = at /\ k.slots = slots /\ k.failed = failed /\ k.bell = bell
    BY <1>1, <2>1, <2>2, <2>3, <2>4, <2>5 DEF ControllerState
  <2> QED BY <2>0, <2>1, <2>2, <2>3, <2>6 DEF failed
<1>10. event \in Event
  <2>1. SlotOf(r, type) \in Nat
    <3>1. hc.slots \in Nat /\ d.pool[d.task.dev].slot \in Nat
      BY <1>1, <1>4, TaskTypes, ControllerTypes
    <3>2. r # CmdRing => d.pool[r].slot \in Nat
      BY <1>1, TaskTypes DEF Rings
    <3> QED BY <3>1, <3>2 DEF SlotOf, Current
  <2> QED BY <1>8, <2>1, XhciAssumption DEF Event
<1>11. event.type = type /\ event.ok = ok /\ event.slot = IF Done(d) = 0 THEN k.slots ELSE Mine(d).slot
  <2>1. SlotOf(r, type) = IF Done(d) = 0 THEN k.slots ELSE Mine(d).slot
    <3>1. CASE Done(d) = 0
      BY <1>8, <1>9, <3>1 DEF SlotOf
    <3>2. CASE Done(d) # 0
      <4>1. type # "EnableSlot"
        BY <1>8, <3>2
      <4>2. r = CmdRing \/ r = d.task.dev
        BY <1>3 DEF RingFor
      <4> QED BY <3>2, <4>1, <4>2 DEF SlotOf, Mine, Current
    <3> QED BY <3>1, <3>2
  <2> QED BY <2>1
<1> HIDE DEF k, event
\* The state after the step, whether an event is posted or not.
<1>12. /\ hc' \in ControllerState /\ hc'.at = k.at /\ hc'.ccs = hc.ccs /\ hc'.bell = k.bell
       /\ hc'.slots = k.slots /\ hc'.failed = k.failed /\ hc'.normal = hc.normal
  <2>1. hc' = k \/ hc' = Post(k, event)
    BY <1>1
  <2> QED BY <1>9, <1>10, <2>1, PostFacts
<1>13. /\ Left(ring, hc', r) <=> ~last
       /\ AtEnd(ring, hc', r) <=> a + 1 = RingTrbs - 1
       /\ \A s \in Rings : s # r => /\ Left(ring, hc', s) <=> Left(ring, hc, s)
                                    /\ AtEnd(ring, hc', s) <=> AtEnd(ring, hc, s)
  <2>1. hc'.at[r] = a + 1 /\ hc'.ccs[r] /\ \A s \in Rings : s # r => hc'.at[s] = hc.at[s]
    BY <1>2, <1>9, <1>12
  <2>2. Left(ring, hc', r) <=> a + 1 < c
    BY <2>1 DEF Left, c
  <2>3. ~last <=> a + 1 < c
    BY <1>2
  <2> QED BY <1>12, <2>1, <2>2, <2>3 DEF Left, AtEnd
<1>14. PoolOK(d, hc')
  <2>1. PoolOK(d, hc) /\ \A e \in Dev : d.pool[e].slot \in Nat
    BY <1>1, TaskTypes DEF Core
  <2>2. \A e \in Dev : d.pool[e].slot <= hc'.slots
    <3> SUFFICES ASSUME NEW e \in Dev PROVE d.pool[e].slot <= hc'.slots
      OBVIOUS
    <3>1. d.pool[e].slot <= hc.slots /\ d.pool[e].slot \in Nat
      BY <2>1 DEF PoolOK
    <3> QED BY <1>9, <1>12, <3>1
  <2> QED BY <1>12, <2>1, <2>2 DEF PoolOK
<1>15. \A s \in Rings : RingOK(ring, hc', s)
  <2> SUFFICES ASSUME NEW s \in Rings PROVE RingOK(ring, hc', s)
    OBVIOUS
  <2>1. RingOK(ring, hc, s)
    BY <1>1 DEF Core
  <2>2. CASE s = r
    <3>1. hc'.at[s] = a + 1 /\ hc'.ccs[s] /\ Count(ring[s]) = c
      BY <1>2, <1>9, <1>12, <2>2 DEF c
    <3> QED BY <1>2, <2>1, <3>1 DEF RingOK
  <2>3. CASE s # r
    BY <1>9, <1>12, <2>1, <2>3 DEF RingOK
  <2> QED BY <2>2, <2>3
<1>16. \A s \in Rings : s # r => ~Left(ring, hc, s)
  BY <1>1, <1>3 DEF Core, LeftOK
<1>17. LeftOK(d, ring, hc')
  <2>1. ASSUME NEW s \in Rings, Left(ring, hc', s)
        PROVE  /\ d.task.pc \in {"ring", "resume"} /\ s = RingFor(d)
               /\ d.task.pc = "resume" => d.task.state = "BLOCKED" /\ s \in hc'.bell
               /\ Count(ring[s]) - hc'.at[s] <= Len(InHand(d).trbs)
               /\ \A i \in hc'.at[s] .. Count(ring[s]) - 1 :
                    ring[s].trb[i].type = InHand(d).trbs[Len(InHand(d).trbs) - Count(ring[s]) + i + 1]
    <3>1. s = r
      BY <1>13, <1>16, <2>1
    <3>2. a + 1 < c
      BY <1>2, <1>13, <2>1, <3>1
    <3>3. r \in hc'.bell /\ hc'.at[r] = a + 1
      BY <1>9, <1>12, <3>2
    <3>4. c - (a + 1) <= l /\ \A i \in a + 1 .. c - 1 : i \in a .. c - 1
      BY <1>2, <1>3, <1>5, <3>2
    <3>5. \A i \in a + 1 .. c - 1 : ring[r].trb[i].type = q.trbs[l - c + i + 1]
      BY <1>3, <3>4
    <3> QED BY <1>3, <3>1, <3>3, <3>4, <3>5 DEF l, c
  <2>2. ASSUME NEW s \in Rings, s \in hc'.bell
        PROVE  \/ Left(ring, hc', s) /\ d.task.pc = "resume"
               \/ AtEnd(ring, hc', s) \/ ~hc'.ccs[s]
    <3>1. CASE s = r
      BY <1>2, <1>3, <1>9, <1>12, <1>13, <2>2, <3>1
    <3>2. CASE s # r
      BY <1>1, <1>9, <1>12, <1>13, <2>2, <3>2 DEF Core, LeftOK
    <3> QED BY <3>1, <3>2
  <2>3. ASSUME NEW s \in Rings, AtEnd(ring, hc', s) PROVE s \in hc'.bell
    <3>1. CASE s = r
      BY <1>9, <1>12, <1>13, <2>3, <3>1
    <3>2. CASE s # r
      BY <1>1, <1>9, <1>12, <1>13, <2>3, <3>2 DEF Core, LeftOK
    <3> QED BY <3>1, <3>2
  <2> QED BY <1>3, <2>1, <2>2, <2>3 DEF LeftOK
<1>18. SlotsOK(d, ring, hc')
  <2>0. SlotsOK(d, ring, hc) /\ Cardinality(Popped(d)) \in Nat /\ CmdRing \in Rings
    BY <1>1, PoppedFacts, DevFacts DEF Core, Rings
  <2>1. CASE Done(d) = 0
    <3>1. Unnumbered(d, ring, hc) /\ ~Unnumbered(d, ring, hc')
      BY <1>2, <1>3, <1>8, <1>13, <2>1 DEF Unnumbered
    <3>2. hc.slots + 1 <= Cardinality(Popped(d)) /\ hc'.slots = hc.slots + 1 /\ hc.slots \in Nat
      BY <1>9, <1>12, <2>0, <2>1, <3>1 DEF SlotsOK
    <3>3. ASSUME NEW e \in Dev PROVE d.pool[e].slot < hc'.slots
      <4>1. d.pool[e].slot <= hc.slots /\ d.pool[e].slot \in Nat
        BY <1>1, TaskTypes DEF Core, PoolOK
      <4> QED BY <3>2, <4>1
    <3>4. hc'.slots > 0 /\ hc'.slots + 0 <= Cardinality(Popped(d))
      BY <2>0, <3>2
    <3> QED BY <1>3, <3>1, <3>3, <3>4 DEF SlotsOK
  <2>2. CASE Done(d) # 0
    <3>1. ~Unnumbered(d, ring, hc') /\ ~Numbered(d, ring, hc')
      BY <2>2 DEF Unnumbered, Numbered
    <3>2. ~Unnumbered(d, ring, hc) /\ hc'.slots = hc.slots
      BY <1>9, <1>12, <2>2 DEF Unnumbered
    <3> QED BY <2>0, <3>1, <3>2 DEF SlotsOK
  <2> QED BY <2>1, <2>2
<1>19. EventsOK(d, ring, hc', 1 .. Len(hc'.events))
  <2>0. EventsOK(d, ring, hc, E) /\ E = 1 .. Len(k.events)
    BY <1>1, <1>9 DEF Core
  <2>1. \A i \in E : ~Answers(hc.events[i])
    BY <1>2, <1>3, <2>0 DEF EventsOK, EventOK
  <2>2. ASSUME NEW i \in E PROVE EventOK(d, ring, hc', hc.events[i])
    <3>1. EventOK(d, ring, hc, hc.events[i]) /\ ~Answers(hc.events[i])
      BY <2>0, <2>1 DEF EventsOK
    <3> QED BY <3>1 DEF EventOK
  <2>3. CASE type \in {"SetupStage", "DataStage"} /\ ok
    <3>1. hc' = k
      BY <1>1, <2>3
    <3>2. hc'.events = hc.events /\ Left(ring, hc', RingFor(d))
      BY <1>3, <1>8, <1>9, <1>13, <2>3, <3>1
    <3> HIDE DEF E
    <3>3. 1 .. Len(hc'.events) = E
      BY <3>2 DEF E
    <3> QED BY <2>1, <2>2, <3>2, <3>3 DEF EventsOK
  <2>4. CASE ~(type \in {"SetupStage", "DataStage"} /\ ok)
    <3> DEFINE n == Len(hc.events)
    <3>0. hc' = Post(k, event)
      BY <1>1, <2>4
    <3>1. /\ n \in Nat /\ 1 .. Len(hc'.events) = E \cup {n + 1}
          /\ hc'.events[n + 1] = event /\ \A i \in E : hc'.events[i] = hc.events[i]
      BY <1>9, <1>10, <3>0, PostFacts
    <3>2. Answers(event) <=> ok
      BY <1>8, <1>11 DEF Answers
    <3>3. ok => last /\ ~Left(ring, hc', RingFor(d)) /\ type = q.type
      BY <1>3, <1>7, <1>8, <1>13, <2>4
    <3>4. EventOK(d, ring, hc', event)
      <4>1. event.type # "Port" /\ event.type # "Normal"
        BY <1>8, <1>11
      <4>2. Answers(event) =>
              /\ d.task.state = "BLOCKED" /\ ~Left(ring, hc', RingFor(d))
              /\ event.type = InHand(d).type
              /\ event.slot = IF Done(d) = 0 THEN hc'.slots ELSE Mine(d).slot
        BY <1>3, <1>11, <1>12, <3>2, <3>3
      <4> QED BY <4>1, <4>2 DEF EventOK
    <3>5. hc'.failed \/ Answers(hc'.events[n + 1])
      BY <1>9, <1>12, <3>1, <3>2
    <3> HIDE DEF E, n
    <3>6. \A i \in 1 .. Len(hc'.events) : EventOK(d, ring, hc', hc'.events[i])
      BY <2>2, <3>1, <3>4
    <3>7. \A i \in 1 .. Len(hc'.events) : Answers(hc'.events[i]) => i = n + 1
      BY <2>1, <3>1
    <3> QED BY <3>1, <3>5, <3>6, <3>7 DEF EventsOK
  <2> QED BY <2>3, <2>4
<1>20. Core(d, ring, hc', 1 .. Len(hc'.events))
  BY <1>1, <1>14, <1>15, <1>17, <1>18, <1>19 DEF Core
<1> QED BY <1>1, <1>12, <1>20 DEF IInv, Typed, Trap

-----------------------------------------------------------------------------
(* The theorems *)

\* A ring without TRBs.
LEMMA NewRingFacts == NewRing \in RingState /\ Count(NewRing) = 0 /\ Written1(NewRing)
<1>1. NewRing \in RingState
  BY TrbFacts DEF NewRing, RingState, Kind
<1>2. /\ NewRing.at = 0 /\ NewRing.cycle_flag /\ NewRing.link
      /\ \A i \in Trb : NewRing.trb[i].cycle = FALSE
  BY DEF NewRing
<1>3. Count(NewRing) = 0
  BY <1>2, TrbFacts DEF Count
<1> QED BY <1>1, <1>2, <1>3, TrbFacts DEF Written1

\* The controller after its reset.
LEMMA InitKeeps ==
  ASSUME Init
  PROVE  IInv
<1> DEFINE c == [port |-> 0, slot |-> 0, state |-> "Disabled", wait |-> FALSE, type |-> "none",
                 event |-> NoEvent]
           t == [state |-> "RUNNING", pc |-> "check", dev |-> 0, todo |-> << >>]
<1>1. c \in Container
  BY XhciAssumption DEF Container, Kind, NoEvent, Event
<1>2. t \in TaskState
  <2>1. << >> \in Seq(Request) /\ 0 \in 0 .. DevCnt
    BY DevFacts
  <2> QED BY <2>1 DEF TaskState
<1>3. c.port = 0 /\ c.slot = 0 /\ c.wait = FALSE /\ t.state = "RUNNING" /\ t.pc = "check"
  OBVIOUS
<1>4. d = [pool |-> [e \in Dev |-> c], list |-> << >>, task |-> t, port |-> [p \in Port |-> "none"],
           stop |-> "no"]
  BY DEF Init
<1> HIDE DEF c, t
<1>5. /\ d.list = << >> /\ d.task = t /\ d.stop = "no" /\ d.pool = [e \in Dev |-> c]
      /\ d.port = [p \in Port |-> "none"]
  BY <1>4
<1>6. d \in DriverState
  <2>1. << >> \in Seq(Dev)
    OBVIOUS
  <2> QED BY <1>1, <1>2, <1>4, <2>1 DEF DriverState, Stop
<1>7. ring = [r \in Rings |-> NewRing]
  BY DEF Init, Rings
<1>8. ring \in [Rings -> RingState] /\ \A r \in Rings : Written1(ring[r]) /\ Count(ring[r]) = 0
  BY <1>7, NewRingFacts
<1>9. /\ hc.at = [r \in Rings |-> 0] /\ hc.ccs = [r \in Rings |-> TRUE] /\ hc.bell = {} /\ hc.slots = 0
      /\ hc.events = << >> /\ hc.normal = [e \in Dev |-> 0] /\ hc.failed = FALSE
  BY DEF Init, Rings
<1>10. hc \in ControllerState
  <2>1. << >> \in Seq(Event) /\ 0 \in 0 .. RingTrbs - 1
    BY TrbFacts
  <2>2. hc = [at |-> [r \in Rings |-> 0], ccs |-> [r \in Rings |-> TRUE],
              bell |-> {}, slots |-> 0, events |-> << >>, normal |-> [e \in Dev |-> 0],
              failed |-> FALSE]
    BY DEF Init, Rings
  <2> QED BY <2>1, <2>2 DEF ControllerState
<1>11. /\ d.task.state = "RUNNING" /\ d.task.pc = "check" /\ ~Busy(d)
       /\ \A e \in Dev : d.pool[e].port = 0 /\ d.pool[e].slot = 0 /\ d.pool[e].wait = FALSE
  BY <1>3, <1>5 DEF Busy
<1>12. \A r \in Rings : hc.at[r] = 0 /\ hc.ccs[r] /\ ~Left(ring, hc, r) /\ ~AtEnd(ring, hc, r)
  BY <1>8, <1>9, TrbFacts DEF Left, AtEnd
<1>13. Len(d.list) = 0 /\ 1 .. Len(hc.events) = {} /\ \A e : ~Has(d.list, e)
  BY <1>5, <1>9 DEF Has
<1>14. Popped(d) = {} /\ Cardinality(Popped(d)) = 0
  BY <1>11, FS_EmptySet DEF Popped
<1>15. ThreadOK(d)
  BY <1>11 DEF ThreadOK
<1>16. PoolOK(d, hc)
  BY <1>9, <1>11, <1>13 DEF PoolOK, Once
<1>17. ProgressOK(d)
  BY <1>11 DEF ProgressOK
<1>18. \A r \in Rings : RingOK(ring, hc, r)
  BY <1>8, <1>12 DEF RingOK
<1>19. LeftOK(d, ring, hc)
  BY <1>9, <1>11, <1>12 DEF LeftOK
<1>20. RoomOK(d, ring)
  <2>1. CmdBound * 0 = 0
    BY BoundFacts
  <2> QED BY <1>8, <1>11, <1>14, <2>1 DEF RoomOK, Rings
<1>21. SlotsOK(d, ring, hc)
  BY <1>9, <1>11, <1>14 DEF SlotsOK, Unnumbered, Numbered
<1>22. EventsOK(d, ring, hc, 1 .. Len(hc.events))
  BY <1>11, <1>13 DEF EventsOK
<1>23. Core(d, ring, hc, 1 .. Len(hc.events))
  BY <1>15, <1>16, <1>17, <1>18, <1>19, <1>20, <1>21, <1>22 DEF Core
<1> QED BY <1>5, <1>6, <1>8, <1>10, <1>23 DEF IInv, Typed, Trap

\* Every step keeps the invariant, unless an event has been misread.
LEMMA StepKeeps ==
  ASSUME misread \/ IInv, [Next]_vars, DevCnt < MaxSlot, ~Lingering
  PROVE  misread' \/ IInv'
<1>1. misread => misread'
  BY DEF Next, usb_device_enumeration, xhc_handler, Controller, Bus, Stopped, Quiet, vars
<1> SUFFICES ASSUME IInv PROVE misread' \/ IInv'
  BY <1>1
<1>2. CASE usb_device_enumeration
  BY <1>2, EnumWaitKeeps, EnumPopKeeps, EnumRequestKeeps, EnumBlockKeeps, EnumResumeKeeps, EnumDoneKeeps
  DEF usb_device_enumeration
<1>3. CASE xhc_handler
  BY <1>3, HandlerKeeps
<1>4. CASE Controller
  <2>1. PICK r \in Rings : Drained(r) \/ Follow(r) \/ Execute(r, TRUE) \/ Execute(r, FALSE)
    BY <1>4 DEF Controller, Rings
  <2> QED BY <2>1, DrainedKeeps, FollowKeeps, ExecuteKeeps
<1>5. CASE Bus
  <2>1. ASSUME NEW p \in Port, (\E to \in {"U0", "Polling"} : Attach(p, to)) \/ ResetDone(p) \/ Detach(p)
        PROVE  IInv'
    <3>1. Running /\ \E to \in {"U0", "Polling", "RxDetect"} : PortStep(p, to)
      BY <2>1 DEF Attach, ResetDone, Detach, PortStep
    <3> QED BY <3>1, PortKeeps
  <2>2. ASSUME NEW e \in Dev, Report(e) PROVE IInv'
    BY <2>2, ReportKeeps
  <2> QED BY <1>5, <2>1, <2>2 DEF Bus
<1>6. CASE UNCHANGED vars
  <2>1. d' = d /\ ring' = ring /\ hc' = hc
    BY <1>6 DEF vars
  <2> QED BY <2>1 DEF IInv, Typed, Running
<1>7. CASE Stopped \/ Quiet
  BY <1>6, <1>7 DEF Stopped, Quiet
<1> QED BY <1>2, <1>3, <1>4, <1>5, <1>6, <1>7 DEF Next

\* The doorbells, the rings and the thread as RingsAgree puts them.
LEMMA AgreeFromInvariant ==
  ASSUME IInv
  PROVE  RingsAgree
<1> SUFFICES ASSUME Running, ~hc.failed, NEW r \in Rings
             PROVE  /\ r \notin hc.bell /\ ~(d.task.pc = "ring" /\ r = RingOf(Head(d.task.todo))) => ~Owned(r)
                    /\ d.task.state = "BLOCKED" /\ r = RingOf(Head(d.task.todo)) /\ hc.events = << >> =>
                         r \in hc.bell /\ Owned(r)
  BY DEF RingsAgree, Rings
<1>1. /\ ring \in [Rings -> RingState] /\ hc \in ControllerState
      /\ Core(d, ring, hc, 1 .. Len(hc.events))
  BY DEF IInv, Typed
<1>2. Owned(r) <=> Left(ring, hc, r) \/ AtEnd(ring, hc, r)
  BY <1>1, OwnedFacts DEF Core
<1>3. RingFor(d) = RingOf(Head(d.task.todo))
  BY DEF RingFor, RingOf, InHand, Current
<1>4. ASSUME r \notin hc.bell, Owned(r) PROVE d.task.pc = "ring" /\ r = RingFor(d)
  BY <1>1, <1>2, <1>4 DEF Core, LeftOK
<1>5. ASSUME d.task.state = "BLOCKED", r = RingFor(d), hc.events = << >> PROVE r \in hc.bell /\ Owned(r)
  <2>1. 1 .. Len(hc.events) = {}
    BY <1>5
  <2>2. Left(ring, hc, r)
    BY <1>1, <1>5, <2>1 DEF Core, EventsOK
  <2>3. d.task.pc = "resume"
    BY <1>1, <1>5 DEF Core, ThreadOK
  <2> QED BY <1>1, <1>2, <2>2, <2>3 DEF Core, LeftOK
<1> QED BY <1>3, <1>4, <1>5

\* For every number of ports, devices, descriptors and TRBs that leave room in the
\* rings (XhciAssumption), if the controller has more slots than the driver has
\* containers and looks at no ring unasked: until xhc_handler takes a completion or
\* a report for a change of a port, the invariant of the enumeration holds.
THEOREM EnumerationSafe ==
  ASSUME DevCnt < MaxSlot, ~Lingering
  PROVE  Spec => [](misread \/ IInv)
<1>1. Init => misread \/ IInv
  BY InitKeeps
<1>2. (misread \/ IInv) /\ [Next]_vars => (misread \/ IInv)'
  BY StepKeeps
<1> QED BY <1>1, <1>2, PTL DEF Spec

\* The assertions of xhc_handler, list_pop and the requests hold until an event is
\* misread: a completion finds its device and the thread blocked on that type of
\* TRB, Enable Slot has an answer to read, a wake-up finds a device on
\* dev_enum_list, no request is refused.
THEOREM CompletionsFindTheirWaiter ==
  ASSUME DevCnt < MaxSlot, ~Lingering
  PROVE  Spec => [](misread \/ WaiterReady)
<1>1. Spec => [](misread \/ IInv)
  BY EnumerationSafe
<1>2. IInv => WaiterReady
  BY DEF IInv, WaiterReady, Trap
<1> QED BY <1>1, <1>2, PTL

\* Driver and controller agree on every ring (next_trb) until an event is misread:
\* without a doorbell the controller owns nothing but the request being written,
\* and a blocked thread has its TRBs with a rung doorbell or an event on its way.
THEOREM RingsSeenAlike ==
  ASSUME DevCnt < MaxSlot, ~Lingering
  PROVE  Spec => [](misread \/ RingsAgree)
<1>1. Spec => [](misread \/ IInv)
  BY EnumerationSafe
<1>2. IInv => RingsAgree
  BY AgreeFromInvariant
<1> QED BY <1>1, <1>2, PTL
=============================================================================
