----------------------------- MODULE MCKeyboard -----------------------------
(* Instances of Keyboard for TLC. *)
EXTENDS Keyboard

KeyboardLists == {"ready", "block", "sleep", "died", "lock", "waiter"}
=============================================================================
