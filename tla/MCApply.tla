------------------------------ MODULE MCApply ------------------------------
EXTENDS Apply

A == 3
B == 4
CONSTANTS x1, x2

\* @U.X.1@, @U.X.2@, @C.X@, @D.X.1@, @R.X@, @N.X.1@, @P.Y.1@, @E.X.Y@
MCFlag == [f \in 5..12 |->
  CASE f = 5 -> [type |-> "U", name |-> "X", value |-> x1]
    [] f = 6 -> [type |-> "U", name |-> "X", value |-> x2]
    [] f = 7 -> [type |-> "C", name |-> "X", value |-> NoValue]
    [] f = 8 -> [type |-> "D", name |-> "X", value |-> x1]
    [] f = 9 -> [type |-> "R", name |-> "X", value |-> NoValue]
    [] f = 10 -> [type |-> "N", name |-> "X", value |-> x1]
    [] f = 11 -> [type |-> "P", name |-> "Y", value |-> x1]
    [] f = 12 -> [type |-> "E", name |-> "X", value |-> "Y"]]

Arc(s, i, o, t) == [state_no |-> s, in |-> i, out |-> o, target |-> t]

\* The machine with the arcs, in this order, and the final states.
Net(arcs, n, final, in, out) ==
  LET of(s) == SelectSeq(arcs, LAMBDA r : r.state_no = s)
      lines(s) == IF of(s) = <<>> THEN <<Arc(s, -1, -1, -1)>> ELSE of(s)
      all == FlattenSeq([s \in 1..n |-> lines(s - 1)]) \o <<Arc(-1, -1, -1, -1)>>
  IN [lines |-> [k \in DOMAIN all |->
                   [state_no |-> all[k].state_no, in |-> all[k].in, out |-> all[k].out,
                    target |-> all[k].target, final_state |-> all[k].state_no \in final]],
      index_in |-> in, index_out |-> out]

\* Arcs that may or may not be there, in the order of their lines.
Optional == <<Arc(0, Epsilon, B, 1), Arc(0, A, A, 1), Arc(0, 5, 5, 1), Arc(0, 6, 6, 2),
              Arc(1, A, Epsilon, 2), Arc(1, 9, 9, 2), Arc(1, 6, 6, 2), Arc(2, A, B, 2)>>
Pick(S) == FlattenSeq([k \in DOMAIN Optional |-> IF k \in S THEN <<Optional[k]>> ELSE <<>>])

\* All flags in a row, an arc for each.
AllFlags == <<Arc(0, 5, 5, 1), Arc(0, 10, 10, 1), Arc(0, A, A, 1),
              Arc(1, 6, 6, 2), Arc(1, 7, 7, 2), Arc(1, 8, 8, 2), Arc(1, 11, 11, 2),
              Arc(2, 9, 9, 3), Arc(2, 12, 12, 3), Arc(2, 8, 8, 3), Arc(2, 5, 5, 3)>>

\* Loops that consume nothing: one at a state, one of two states.
Loops == <<Arc(0, Epsilon, A, 0), Arc(0, A, B, 1), Arc(1, 7, 7, 2), Arc(2, A, A, 3),
           Arc(2, Epsilon, Epsilon, 1)>>

\* Symbols that the machine does not know.
Others == <<Arc(0, Unknown, A, 0), Arc(0, Identity, Identity, 1), Arc(0, A, Unknown, 1),
            Arc(1, Identity, Identity, 1), Arc(1, Unknown, Identity, 1)>>

\* [a* "@C.X@" a* "@P.Y.1@"]*: a loop that consumes nothing through two states.
TwoLoops == <<Arc(0, A, A, 0), Arc(0, 7, 7, 1), Arc(1, A, A, 1), Arc(1, 11, 11, 0)>>
LoopNets == {Net(TwoLoops, 2, {0}, {}, {})}

MCNets ==
  {Net(Pick(S), 3, {1, 2}, I, I) : S \in {T \in SUBSET DOMAIN Optional : {2, 3, 5, 8} \subseteq T},
                                   I \in {{}, {0, 1}}}
  \cup {Net(AllFlags, 4, {3}, I, I) : I \in {{}, {0, 2}}}
  \cup {Net(Loops, 4, {1, 3}, I, I) : I \in {{}, {0, 1, 2}}}
  \cup {Net(Others, 2, {1}, I, I) : I \in {{}, {0}}}
  \cup {Net(<<Arc(0, A, B, 0)>>, 1, {0}, {}, {})}

MCWords == {<<A>>, <<A, Identity>>}

\* a a with an index for apply_down only, as apply_index makes it.
OneSidedNets == {Net(<<Arc(0, A, A, 1), Arc(1, A, A, 1)>>, 2, {1}, {0, 1}, {})}

(***************************************************************************)
(* ListFitsState: lines are taken from the list of an index only where the *)
(* state at hand has an index for the direction of the call, as the        *)
(* comment at apply.c:623-627 says of apply_follow_next_arc; the lines of  *)
(* any other state are followed one by one.                                *)
(***************************************************************************)
ListFitsState == pc = "follow" /\ state_has_index => State \in Indexed
=============================================================================
