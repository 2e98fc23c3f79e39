----------------------------- MODULE MCLibrary -----------------------------
EXTENDS Promises

a == 100
b == 101
c == 102
d == 103

\* The network whose arcs have names for numbers.
Net(n, arcs, fin) ==
  LET names == ({e[2] : e \in arcs} \cup {e[3] : e \in arcs}) \ {EPSILON}
      no(x) == IF x = EPSILON THEN 0 ELSE 3 + Cardinality({y \in names : y < x})
      sig == [k \in {no(x) : x \in names} |-> CHOOSE x \in names : no(x) = k]
  IN  fsm_state_close(n, {<<e[1], no(e[2]), no(e[3]), e[4]>> : e \in arcs}, fin, sig)

A == fsm_symbol(a)
B == fsm_symbol(b)
AorB == fsm_minimize(fsm_union(A, B))
AtoB == fsm_minimize(fsm_cross_product(A, B))

\* Flags of the names 1 and 2 with the values 1 and 2.
MCFlag ==
  20 :> [type |-> "C", name |-> 1, value |-> NoValue] @@
  21 :> [type |-> "D", name |-> 1, value |-> 1] @@
  22 :> [type |-> "D", name |-> 1, value |-> NoValue] @@
  23 :> [type |-> "P", name |-> 1, value |-> 1] @@
  24 :> [type |-> "R", name |-> 1, value |-> 1] @@
  25 :> [type |-> "U", name |-> 1, value |-> 1] @@
  26 :> [type |-> "U", name |-> 1, value |-> 2] @@
  27 :> [type |-> "D", name |-> 2, value |-> 1] @@
  28 :> [type |-> "P", name |-> 2, value |-> 1]

\* A flag and a letter of its own, any number of times.
Flagged ==
  Net(10, UNION {{<<0, f, f, f - 19>>, <<f - 19, f + 100, f + 100, 0>>} : f \in DOMAIN MCFlag}, {0})
\* Flags on one side.
OneSided == Net(2, {<<0, 23, EPSILON, 1>>, <<1, b, 25, 0>>, <<1, EPSILON, 25, 1>>}, {0})
\* a c or d b, twice.
Bracketed ==
  Net(7, {<<0, a, a, 1>>, <<1, c, c, 2>>, <<1, d, d, 2>>, <<2, b, b, 3>>,
          <<3, a, a, 4>>, <<4, c, c, 5>>, <<4, d, d, 5>>, <<5, b, b, 6>>}, {6})

MCStart == {A, AtoB, fsm_identity, fsm_empty_string, Flagged, OneSided, Bracketed}
MCOperands == <<{AorB, AtoB, fsm_identity}, {AorB}>>
MCSym == [x |-> a, y |-> b, marker |-> c]
MCOthers == {200, 201}
=============================================================================
