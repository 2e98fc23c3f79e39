------------------------------ MODULE Topsort ------------------------------
(***************************************************************************)
(* fsm_topsort (foma/topsort.c): a machine without cycles is renumbered so *)
(* that arcs lead from lower to higher numbers, and its paths are counted. *)
(*                                                                         *)
(* A state is treated when the arcs into it still to be followed, counted  *)
(* in an unsigned short, are down to 0.  The arcs from one state to        *)
(* another are followed together here, arcs[s][t] of them; in what order   *)
(* the targets of a state come is left open.                               *)
(***************************************************************************)
EXTENDS Integers, Sequences, SequencesExt, FiniteSetsExt

CONSTANTS
  State,      \* the states, 0 the start state
  Nets,       \* the machines
  InvLimit,   \* 2^16, the values of invcount
  PathLimit   \* 2^63, the first value that a long long cannot hold

ASSUME TopsortAssumption ==
  /\ 0 \in State /\ IsFiniteSet(State)
  /\ InvLimit \in Nat \ {0} /\ PathLimit \in Nat \ {0, 1}
  /\ \A n \in Nets : n.final \subseteq State /\ n.arcs \in [State -> [State -> Nat]]

\* Values of net->pathcount that are not numbers of paths.
Cyclic == -1
Overflow == -2
Unknown == -3

VARIABLES
  net,         \* the machine
  invcount, treated, pathcount,
  int_stack,   \* the states to treat, the top first
  order,       \* the states in the order they were treated
  treatcount,
  curr_state,  \* the state being treated
  targets,     \* the targets of its arcs still to be followed
  overflow,
  result,      \* what net->pathcount and net->is_loop_free are set to
  pc

vars == <<net, invcount, treated, pathcount, int_stack, order, treatcount, curr_state,
          targets, overflow, result, pc>>

-----------------------------------------------------------------------------

Targets(s) == {t \in State : net.arcs[s][t] > 0}

\* The arcs that lead to t: each a state and one of the arcs from there to t.
InArcs(t) == UNION {{s} \X (1..net.arcs[s][t]) : s \in State}

statecount == Cardinality(State)

Init ==
  /\ net \in Nets
  /\ invcount = [t \in State |-> 0]
  /\ treated = {}
  /\ pathcount = [s \in State |-> 0]
  /\ int_stack = <<>> /\ order = <<>> /\ treatcount = 0
  /\ curr_state = 0 /\ targets = {} /\ overflow = FALSE
  /\ result = [pathcount |-> Unknown, is_loop_free |-> FALSE]
  /\ pc = "start"

\* The jump to the label cyclic: the lines stay as they are.
GotoCyclic ==
  /\ result' = [pathcount |-> Cyclic, is_loop_free |-> FALSE]
  /\ pc' = "done"

\* SelfLoop: the fast check while the arcs into the states are counted.
SelfLoop ==
  /\ pc = "start" /\ \E s \in State : s \in Targets(s)
  /\ GotoCyclic
  /\ UNCHANGED <<net, invcount, treated, pathcount, int_stack, order, treatcount,
                 curr_state, targets, overflow>>

\* Count: the arcs into every state are counted, and state 0 is pushed.
Count ==
  /\ pc = "start" /\ \A s \in State : s \notin Targets(s)
  /\ invcount' = [t \in State |-> Cardinality(InArcs(t)) % InvLimit]
  /\ treatcount' = statecount
  /\ int_stack' = <<0>>
  /\ pathcount' = [pathcount EXCEPT ![0] = 1]
  /\ pc' = "pop"
  /\ UNCHANGED <<net, treated, order, curr_state, targets, overflow, result>>

\* Treat: the next state is treated; order and newnum get its place.
Treat ==
  /\ pc = "pop" /\ int_stack # <<>>
  /\ curr_state' = Head(int_stack)
  /\ int_stack' = Tail(int_stack)
  /\ treated' = treated \cup {curr_state'}
  /\ order' = Append(order, curr_state')
  /\ treatcount' = treatcount - 1
  /\ targets' = Targets(curr_state')
  /\ pc' = "arcs"
  /\ UNCHANGED <<net, invcount, pathcount, overflow, result>>

\* Mutant: a target is pushed while one arc to it is still to be followed.
ZeroesEarly(c, n) ==
  Cardinality({m \in 1..n : (c - m) \in {0, 1}})

\* How often a counter at c is 0 after a step when it is decreased n times.
Zeroes(c, n) ==
  LET first == IF c = 0 THEN InvLimit ELSE c
  IN IF n < first THEN 0 ELSE 1 + ((n - first) \div InvLimit)

\* Mutant: the paths to the target are replaced.
PathsReplaced(p, q, n) ==
  IF p > 0 /\ n > (PathLimit - 1) \div p THEN Overflow ELSE n * p

\* The paths to a target with q of them when n arcs with p paths each are added.
Paths(p, q, n) ==
  IF p > 0 /\ n > (PathLimit - 1 - q) \div p THEN Overflow ELSE q + n * p

(***************************************************************************)
(* FollowArcs: all the arcs from the state to t; an arc to a treated state *)
(* means a cycle.  invcount wraps around like the unsigned short it is,    *)
(* and t is pushed every time it is 0.  After an overflow paths are no     *)
(* longer counted.                                                         *)
(***************************************************************************)
FollowArcs(t) ==
  LET n     == net.arcs[curr_state][t]
      paths == Paths(pathcount[curr_state], pathcount[t], n)
  IN /\ pc = "arcs" /\ t \in targets
     /\ targets' = targets \ {t}
     /\ IF t \in treated
        THEN /\ invcount' = [invcount EXCEPT ![t] = (@ - 1) % InvLimit]
             /\ GotoCyclic
             /\ UNCHANGED <<pathcount, overflow, int_stack>>
        ELSE /\ invcount' = [invcount EXCEPT ![t] = (@ - n) % InvLimit]
             /\ int_stack' = [k \in 1..Zeroes(invcount[t], n) |-> t] \o int_stack
             /\ UNCHANGED <<result, pc>>
             /\ IF overflow THEN UNCHANGED <<pathcount, overflow>>
                ELSE IF paths = Overflow THEN overflow' = TRUE /\ UNCHANGED pathcount
                ELSE pathcount' = [pathcount EXCEPT ![t] = paths] /\ UNCHANGED overflow
     /\ UNCHANGED <<net, treated, order, treatcount, curr_state>>

\* NextState: the lines of the state end.
NextState ==
  /\ pc = "arcs" /\ targets = {}
  /\ pc' = "pop"
  /\ UNCHANGED <<net, invcount, treated, pathcount, int_stack, order, treatcount,
                 curr_state, targets, overflow, result>>

\* Mutant: nothing is concluded from states that were not treated.
RenumberAny ==
  /\ pc = "pop" /\ int_stack = <<>>
  /\ result' = [is_loop_free |-> TRUE, pathcount |-> 0]
  /\ pc' = "done"
  /\ UNCHANGED <<net, invcount, treated, pathcount, int_stack, order, treatcount,
                 curr_state, targets, overflow>>

(***************************************************************************)
(* Renumber: when all states have been treated the new lines are written   *)
(* in their order and the paths to final states are added up; otherwise    *)
(* there is a cycle.                                                       *)
(***************************************************************************)
Renumber ==
  LET grand == MapThenSumSet(LAMBDA s : pathcount[s], net.final)
  IN /\ pc = "pop" /\ int_stack = <<>>
     /\ IF treatcount > 0 THEN GotoCyclic
        ELSE /\ result' = [is_loop_free |-> TRUE,
                           pathcount |-> IF overflow \/ grand >= PathLimit THEN Overflow
                                         ELSE grand]
             /\ pc' = "done"
     /\ UNCHANGED <<net, invcount, treated, pathcount, int_stack, order, treatcount,
                    curr_state, targets, overflow>>

Next ==
  \/ SelfLoop
  \/ Count
  \/ Treat
  \/ \E t \in targets : FollowArcs(t)
  \/ NextState
  \/ Renumber

Spec == Init /\ [][Next]_vars

-----------------------------------------------------------------------------

\* The machine has a cycle: some set of states can be walked in for ever.
HasCycle == \E X \in (SUBSET State) \ {{}} : \A s \in X : Targets(s) \cap X # {}

\* TypeOK: among others, order and the other tables have room for every state.
TypeOK ==
  /\ invcount \in [State -> 0..(InvLimit - 1)]
  /\ treated \subseteq State /\ targets \subseteq State
  /\ Len(order) <= statecount /\ Range(order) \subseteq State
  /\ \A s \in State : pathcount[s] \in 0..(PathLimit - 1)
  /\ treatcount \in 0..statecount
  /\ result.pathcount \in {Cyclic, Overflow, Unknown} \cup 0..(PathLimit - 1)
  /\ pc \in {"start", "pop", "arcs", "done"}

(***************************************************************************)
(* LoopFreeExact: fsm_topsort finds a cycle exactly when there is one ("If *)
(* the graph is cyclic, one of two things will happen").                   *)
(***************************************************************************)
LoopFreeExact == pc = "done" => (result.is_loop_free <=> ~HasCycle)

(***************************************************************************)
(* TopologicalOrder: the new numbers, the places of the states in order,   *)
(* are one for each state, 0 for state 0, and go up along every arc.       *)
(***************************************************************************)
TopologicalOrder ==
  pc = "done" /\ result.is_loop_free =>
    /\ Len(order) = statecount /\ Range(order) = State /\ order[1] = 0
    /\ \A k, m \in 1..statecount : order[m] \in Targets(order[k]) => k < m

\* The paths from state 0 to s with arcs d: W[k][t] walks of k arcs lead to t.
WalksTo(d, s) ==
  LET W[k \in 0..(statecount - 1)] ==
        [t \in State |->
           IF k = 0 THEN IF t = 0 THEN 1 ELSE 0
           ELSE MapThenSumSet(LAMBDA r : d[r][t] * W[k - 1][r], State)]
  IN MapThenSumSet(LAMBDA k : W[k][s], 0..(statecount - 1))

(***************************************************************************)
(* PathcountExact: pathcount is the number of paths to final states, and   *)
(* it is given up only when the paths to them or to one state are too many *)
(* for a long long.                                                        *)
(***************************************************************************)
PathcountExact ==
  pc = "done" /\ result.is_loop_free =>
    LET all == MapThenSumSet(LAMBDA s : WalksTo(net.arcs, s), net.final)
    IN IF result.pathcount = Overflow
       THEN all >= PathLimit \/ \E s \in State : WalksTo(net.arcs, s) >= PathLimit
       ELSE result.pathcount = all
=============================================================================
