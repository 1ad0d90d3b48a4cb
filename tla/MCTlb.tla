------------------------------- MODULE MCTlb --------------------------------
(***************************************************************************)
(* An instance of Tlb for TLC: one program of one page.                    *)
(***************************************************************************)
EXTENDS Tlb

MCSegments == {<<1, 0, 0, 0>>}
NoPages == {}
=============================================================================
