------------------------------- MODULE MCDisk -------------------------------
(* Instances of Disk for TLC. *)
EXTENDS Disk

KernelLists == {"ready", "block", "sleep", "died"}
=============================================================================
