------------------------------- MODULE MCTask -------------------------------
(* Instances of Task for TLC. *)
EXTENDS Task

KernelLists == {"ready", "block", "sleep", "died"}

\* waitpid with the pid fork returned, as every caller in the repository does.
PidArgs == {p \in Pid : p >= 2}
=============================================================================
