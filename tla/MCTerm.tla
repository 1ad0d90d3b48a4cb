------------------------------- MODULE MCTerm -------------------------------
(***************************************************************************)
(* Instances of Term for TLC: screens of a few cells, so that a line runs  *)
(* over the end of a row and the screen scrolls.  A behaviour is one of    *)
(* the terminal, or a single call of the string library that it uses.      *)
(***************************************************************************)
EXTENDS Term, Strings

ConsoleInit == Init /\ StringsInit
ConsoleNext == call = NoCall /\ Next /\ UNCHANGED call
ConsoleSpec == /\ ConsoleInit /\ [][ConsoleNext]_<<vars, call>>
               /\ WF_<<vars, call>>(call = NoCall /\ term_run /\ UNCHANGED call)
               /\ WF_<<vars, call>>(call = NoCall /\ keyboard_handle /\ UNCHANGED call)
=============================================================================
