------------------------------ MODULE Process ------------------------------
(***************************************************************************)
(* What fork, exit and waitpid promise, without lists or a scheduler: a    *)
(* slot is free, live or a zombie; an exiting process leaves its children  *)
(* to its parent; only a zombie is reaped, and only by its live parent.    *)
(***************************************************************************)
EXTENDS Integers

CONSTANTS Slot,   \* process slots
          Root,   \* the process that never exits
          Boot    \* the processes that exist at the start

VARIABLES proc, parent

procVars == <<proc, parent>>

Init ==
  /\ proc = [p \in Slot |-> IF p \in Boot THEN "live" ELSE "free"]
  /\ parent = [p \in Slot |-> Root]

Fork ==
  \E p, c \in Slot :
    /\ proc[p] = "live" /\ proc[c] = "free"
    /\ proc' = [proc EXCEPT ![c] = "live"]
    /\ parent' = [parent EXCEPT ![c] = p]

Exit ==
  \E p \in Slot \ {Root} :
    /\ proc[p] = "live"
    /\ proc' = [proc EXCEPT ![p] = "zombie"]
    /\ parent' = [c \in Slot |-> IF proc[c] # "free" /\ parent[c] = p
                                 THEN parent[p] ELSE parent[c]]

Reap ==
  \E p, c \in Slot :
    /\ proc[p] = "live" /\ proc[c] = "zombie" /\ parent[c] = p
    /\ proc' = [proc EXCEPT ![c] = "free"]
    /\ parent' = [parent EXCEPT ![c] = Root]

Next == Fork \/ Exit \/ Reap

Spec == Init /\ [][Next]_procVars
=============================================================================
