----------------------------- MODULE MCAdapters -----------------------------
(***************************************************************************)
(* Instances of Adapters for TLC: one call with a stream of some length,   *)
(* and one whose stream delivers nothing, as its rival for the tracker.    *)
(***************************************************************************)
EXTENDS Adapters

CONSTANTS long, short

MCMaxItems == (long :> 4) @@ (short :> 0)
=============================================================================
