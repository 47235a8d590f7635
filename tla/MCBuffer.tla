------------------------------ MODULE MCBuffer ------------------------------
(* Instances of Buffer for TLC. *)
EXTENDS Buffer

\* Tasks are interchangeable: only safety is checked with this.
Symmetry == Permutations(Task)
\* What the structural invariants look at.  Contents decide no step, so states
\* that differ in contents only have the same successors up to contents.
Control == [s EXCEPT !.data = 0, !.disk = 0]
=============================================================================
