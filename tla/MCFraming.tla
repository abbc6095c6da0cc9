----------------------------- MODULE MCFraming -----------------------------
(* A small instance of Framing for TLC.                                    *)
EXTENDS Framing

CONSTANTS c1, c2

\* Nothing tells the calls apart but their ids.
CallSymmetry == Permutations(Calls)
=============================================================================
