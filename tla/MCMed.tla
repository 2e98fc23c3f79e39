------------------------------- MODULE MCMed -------------------------------
EXTENDS Med

a == 3
b == 4

Arc(in, target) == [in |-> in, target |-> target]

\* Every network of three states with up to two arcs each whose states can all be
\* reached and can all reach the last one, which is final.
Lines == {<<>>} \cup {<<Arc(x, t)>> : x \in {a, b}, t \in 0 .. 2}
         \cup {<<Arc(a, t), Arc(b, u)>> : t \in 0 .. 2, u \in 0 .. 2}

RECURSIVE Reach(_, _)
Reach(n, Q) ==
  LET more == Q \cup {e.target : e \in UNION {ToSet(n[q]) : q \in Q}}
  IN  IF more = Q THEN Q ELSE Reach(n, more)
Trim(n) == Reach(n, {0}) = DOMAIN n /\ \A q \in DOMAIN n : 2 \in Reach(n, {q})

Small == {[lines |-> n, fin |-> {2}, max |-> 4] : n \in {m \in [0 .. 2 -> Lines] : Trim(m)}}

\* Two loops with a way from one to the other, and a way out of the second one.
Loops ==
  [lines |-> (0 :> <<Arc(a, 1), Arc(b, 2)>>) @@ (1 :> <<Arc(b, 0)>>) @@
             (2 :> <<Arc(b, 3)>>) @@ (3 :> <<Arc(a, 4), Arc(IDENTITY, 2)>>) @@ (4 :> <<>>),
   fin |-> {1, 4}, max |-> 4]

\* A component inside which a state is done before another one is met, and a second
\* component that is met from two sides.
Crossing ==
  [lines |-> (0 :> <<Arc(a, 1), Arc(b, 3)>>) @@ (1 :> <<Arc(a, 2), Arc(b, 0)>>) @@
             (2 :> <<Arc(a, 1), Arc(b, 4)>>) @@ (3 :> <<Arc(a, 4), Arc(b, 1)>>) @@
             (4 :> <<Arc(a, 5)>>) @@ (5 :> <<Arc(b, 4)>>),
   fin |-> {5}, max |-> 4]

MCNets == Small \cup {Loops, Crossing}
Uneven == cmatrix_set_cost(cmatrix_default_delete(cmatrix_default_insert(
            cmatrix_default_substitute(cmatrix_init(4), 2), 3), 1), a, b, 1)
MCMatrices == (4 :> {NoMatrix, Uneven})
MCInputs == {<<a, b, b>>, <<b, IDENTITY>>}
=============================================================================
