------------------------------ MODULE MCSubset ------------------------------
(***************************************************************************)
(* Instance of Subset for TLC: three states with up to MaxArcs arcs by     *)
(* symbol 1, one arc by symbol 2 and epsilon arcs from a list, and words   *)
(* of up to MaxWord symbols to compare the languages of input and result.  *)
(***************************************************************************)
EXTENDS Subset

CONSTANTS
  MaxArcs,        \* bound on the arcs by symbol 1
  EpsilonArcs,    \* the epsilon arcs the inputs may have
  Finals, Starts, \* the final and the start states they may have
  MaxWord         \* bound on the length of the words compared

SomeEpsilonArcs == {<<0, 1>>, <<1, 2>>, <<2, 2>>}

Arcs(a, R) == {<<r[1], a, r[2]>> : r \in R}

Few == {R \in SUBSET (State \X State) : Cardinality(R) <= MaxArcs}

MCNets ==
  {[start |-> S, final |-> F,
    arcs |-> Arcs(1, R) \cup {<<0, 2, 1>>} \cup Arcs(Epsilon, E)] :
     S \in Starts, F \in Finals, R \in Few, E \in SUBSET EpsilonArcs}

MCWords == UNION {[1..k -> Symbol] : k \in 0..MaxWord}
=============================================================================
