----------------------------- MODULE MCHopcroft -----------------------------
(***************************************************************************)
(* Instance of Hopcroft for TLC: trim machines of three states; the arcs   *)
(* by the first symbol form a cycle, a chain, a fan or a loop, those by    *)
(* the other symbols are any partial function.                             *)
(***************************************************************************)
EXTENDS Hopcroft

CONSTANTS NoArc, First

Shapes == {<<1, 2, 0>>, <<1, 2, NoArc>>, <<2, 2, NoArc>>, <<0, 1, 1>>}

MCNets ==
  {n \in {[final |-> F,
           arcs |-> ArcsBy(State, First, [s \in State |-> h[s + 1]])
                      \cup UNION {ArcsBy(State, a, d[a]) : a \in DOMAIN d}] :
            F \in SUBSET State, h \in Shapes,
            d \in [Symbol \ {First} -> [State -> State \cup {NoArc}]]} : Trim(State, n)}
=============================================================================
