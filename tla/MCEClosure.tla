----------------------------- MODULE MCEClosure -----------------------------
(***************************************************************************)
(* Instance of EClosure for TLC: every graph of at most MaxArcs epsilon    *)
(* arcs.                                                                   *)
(***************************************************************************)
EXTENDS EClosure

CONSTANT MaxArcs

MCGraphs == {E \in SUBSET (State \X State) : Cardinality(E) <= MaxArcs}
=============================================================================
