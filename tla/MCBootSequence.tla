--------------------------- MODULE MCBootSequence ---------------------------
(***************************************************************************)
(* A small instance of BootSequence for TLC: two lengths of a tone.        *)
(***************************************************************************)
EXTENDS BootSequence

MCSeconds == {1, 60}
=============================================================================
