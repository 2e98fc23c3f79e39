----------------------------- MODULE MCTopsort -----------------------------
\* Machines for fsm_topsort, every state reached from state 0.
EXTENDS Topsort

MCState == 0..3

\* Every way to join each state to later ones by up to two arcs.
Forward ==
  LET pairs == {p \in MCState \X MCState : p[1] < p[2]}
  IN {[s \in MCState |-> [t \in MCState |-> IF s < t THEN f[<<s, t>>] ELSE 0]] :
        f \in {g \in [pairs -> 0..2] :
                 \A t \in MCState \ {0} : \E s \in MCState : s < t /\ g[<<s, t>>] > 0}}

\* The same with one arc back, or a loop.
Back(d, s, t) == [d EXCEPT ![s][t] = 1]

MCNets ==
  LET arcs == Forward \cup {Back(d, p[1], p[2]) : d \in Forward,
                              p \in {q \in MCState \X MCState : q[1] >= q[2]}}
  IN {[final |-> F, arcs |-> d] : F \in {{3}, {1, 3}}, d \in arcs}

\* State 1 has one arc more than an unsigned short counts.
ManyArcs ==
  [s \in MCState |-> [t \in MCState |->
     CASE s = 0 /\ t = 1 -> 1
       [] s = 0 /\ t \in {2, 3} -> 1
       [] s = 2 /\ t = 1 -> 32768
       [] s = 3 /\ t = 1 -> 32768
       [] OTHER -> 0]]

WideNets == {[final |-> {1}, arcs |-> ManyArcs]}
=============================================================================
