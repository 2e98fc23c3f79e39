-------------------------------- MODULE DFA --------------------------------
(***************************************************************************)
(* The machines fsm_minimize hands to fsm_minimize_hop: a struct fsm       *)
(* reduced to its final states and its arcs <<source, symbol, target>>,    *)
(* one symbol standing for an in:out pair.  State 0 is the start state.    *)
(***************************************************************************)
EXTENDS Naturals

\* After fsm_determinize a state has at most one arc by each symbol.
Deterministic(n) ==
  \A e1, e2 \in n.arcs : e1[1] = e2[1] /\ e1[2] = e2[2] => e1 = e2

\* The deterministic machines with states S and symbols A.
Machine(S, A) ==
  {n \in [final : SUBSET S, arcs : SUBSET (S \X A \X S)] : Deterministic(n)}

\* The states of S that relation R leads to from those of From.
Reach(S, R, From) ==
  {s \in S :
     \A T \in SUBSET S :
       From \subseteq T /\ (\A r \in R : r[1] \in T => r[2] \in T) => s \in T}

\* After fsm_coaccessible every state is on a path from state 0 to a final one.
Trim(S, n) ==
  /\ Reach(S, {<<e[1], e[3]>> : e \in n.arcs}, {0}) = S
  /\ Reach(S, {<<e[3], e[1]>> : e \in n.arcs}, n.final) = S

-----------------------------------------------------------------------------

\* For building machines: the arcs by symbol a of a transition function d that
\* has no arc where its value is not a state of S.
ArcsBy(S, a, d) == {<<s, a, d[s]>> : s \in {x \in S : d[x] \in S}}
=============================================================================
