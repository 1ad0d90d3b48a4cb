---------------------------- MODULE MCInterrupts ----------------------------
(***************************************************************************)
(* The instance of Interrupts for TLC: the timer, the keyboard, a line of  *)
(* the master and two of the slave without a driver, among them its first  *)
(* and its last, and exceptions with and without an error code.            *)
(***************************************************************************)
EXTENDS Interrupts

McLines == {0, 1, 5, 8, 15}
McFaults == {6, 14}
=============================================================================
