----------------------------- MODULE MCNotifier -----------------------------
(* An instance of Notifier for TLC: a manager that is stopped, canceled or crashes, beside another. *)
EXTENDS Notifier
=============================================================================
