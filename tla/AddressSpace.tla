---------------------------- MODULE AddressSpace ----------------------------
(***************************************************************************)
(* What paging promises the processes: each has memory of its own.  fork   *)
(* gives the child what the parent has at that moment, and from then on a  *)
(* store by one is seen by nobody else.  A page that was never touched     *)
(* holds nothing yet; the first access finds any contents, the kernel does *)
(* not clear pages.                                                        *)
(***************************************************************************)
CONSTANTS Proc, Page, Value, Untouched

VARIABLES alive,   \* the processes there are
          mem      \* mem[p][v]: what p finds in its page v

Empty == [v \in Page |-> Untouched]

Init ==
  /\ \E p \in Proc : alive = {p}
  /\ mem = [q \in Proc |-> Empty]

Store(p, v) ==
  /\ \E x \in Value : mem' = [mem EXCEPT ![p][v] = x]
  /\ UNCHANGED alive

Fork(p, c) ==
  /\ mem' = [mem EXCEPT ![c] = mem[p]]
  /\ alive' = alive \cup {c}

Exit(p) ==
  /\ mem' = [mem EXCEPT ![p] = Empty]
  /\ alive' = alive \ {p}

Next ==
  \E p \in alive :
    \/ \E v \in Page : Store(p, v)
    \/ \E c \in Proc \ alive : Fork(p, c)
    \/ Exit(p)

Spec == Init /\ [][Next]_<<alive, mem>>
=============================================================================
