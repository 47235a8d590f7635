------------------------------ MODULE MCMemory ------------------------------
(* Instances of Memory for TLC. *)
EXTENDS Memory

Classes == {"node", "map", "pwd"}
BlocksPerPage == [node |-> 2, map |-> 2, pwd |-> 1]

\* States that differ only in the numbers of frames and kernel pages behave alike
\* while the invariants about these hold.  So a page of a process is seen by its
\* contents and those who share it, and a block of the heap by the place of its
\* bucket in the chain; the invariants themselves are part of the view, so that no
\* state that breaks one is taken for a state that does not.
SharedWith(f) == {<<p, v>> \in Proc \X StackPage : proc[p].entry[v].index = f}
Seen(p, v) ==
  LET e == proc[p].entry[v]
  IN  IF e.index = NoFrame THEN <<>> ELSE <<e.write, frame[e.index], SharedWith(e.index)>>
Place(c, b) == <<SelectInSeq(k.dir[c], LAMBDA d : k.page[d] = b[1]), b[2]>>

\* TLC evaluates the functions of a state that its view compares.
Evaluated == proc = proc /\ k = k /\ frame = frame /\ p_bit_map = p_bit_map

UpToNumbers ==
  IF ~Running THEN <<k.halt>>
  ELSE <<[p \in Proc |-> LET q == proc[p]
                         IN  <<q.state, q.ppid, q.table = NoFrame, [v \in StackPage |-> Seen(p, v)],
                               Place("node", q.node), Place("map", q.map), Place("pwd", q.pwd)>>],
         [c \in Class |-> [i \in 1 .. Len(k.dir[c]) |-> k.freeptr[k.dir[c][i]]]],
         Len(k.free_desc), RefCounts, WritableIsPrivate, HeapSafe, PagesOwned, Evaluated>>
=============================================================================
