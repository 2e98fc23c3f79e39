--------------------------- MODULE MCMinimizeHop ---------------------------
(***************************************************************************)
(* Instance of MinimizeHop for TLC: trim machines of five states over two  *)
(* symbols.  The arcs by symbol 1 form a cycle, a fork or a ladder, so     *)
(* that states may be equivalent; those by symbol 2 are any partial        *)
(* function that leads from 0 to 2 and is the same on states 3 and 4.      *)
(***************************************************************************)
EXTENDS MinimizeHop

CONSTANTS
  NoArc,    \* no arc by a symbol
  Finals    \* the sets of final states

Shapes == {<<1, 2, 3, 4, 0>>, <<1, 3, 4, NoArc, NoArc>>, <<1, 3, 4, 3, 4>>}

MCNets ==
  {n \in {[final |-> F,
           arcs |-> ArcsBy(State, 1, [s \in State |-> h[s + 1]]) \cup ArcsBy(State, 2, d)] :
            F \in Finals, h \in Shapes,
            d \in {x \in [State -> State \cup {NoArc}] : x[0] = 2 /\ x[3] = x[4]}} : Trim(State, n)}
=============================================================================
