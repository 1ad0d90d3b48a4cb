----------------------------- MODULE LineEditor -----------------------------
(***************************************************************************)
(* What the terminal promises about a line of input: printable keys are    *)
(* appended, backspace takes the last one away, and the return key submits *)
(* exactly the line.  Until the first key the buffer holds what the heap   *)
(* held (term_run does not clear it), and so does a command submitted then.*)
(***************************************************************************)
EXTENDS Sequences, SequencesExt

CONSTANT Keys       \* the printable keys

VARIABLES line, clean, command

evars == <<line, clean, command>>

Init == line \in Seq(Keys) /\ clean = FALSE /\ command = <<>>

Type == \E k \in Keys :
           /\ line' = IF clean THEN Append(line, k) ELSE <<k>>
           /\ clean' = TRUE /\ UNCHANGED command
Erase == clean /\ line # <<>> /\ line' = Front(line) /\ UNCHANGED <<clean, command>>
Submit == command' = line /\ line' = <<>> /\ clean' = TRUE

Next == Type \/ Erase \/ Submit
Spec == Init /\ [][Next]_evars
=============================================================================
