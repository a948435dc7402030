------------------------------- MODULE MCBatch -------------------------------
(* Two cells of two units, one of them dearer; a wave of a whole cell, or of *)
(* one unit of the dearer with --force.                                      *)
EXTENDS Batch, TLC
CONSTANTS o10, a10
TwoPrices == (o10 :> [u \in Units |-> 2]) @@ (a10 :> [u \in Units |-> 3])
Ask(c, force, only) == [cell |-> c, force |-> force, only |-> only]
WavesAsked == {Ask(c, FALSE, Units) : c \in Cells} \cup {Ask(a10, TRUE, {1})}
=============================================================================
