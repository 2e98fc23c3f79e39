---------------------------- MODULE MinimizeHop ----------------------------
(***************************************************************************)
(* fsm_minimize_hop (foma/minimize.c) with the data it keeps: groups with  *)
(* their counters, the agenda with its restart index, the tails into the   *)
(* inverse arcs, and refine_states splitting groups state by state.        *)
(*                                                                         *)
(* The order of temp_move (list order, and qsort's order of equal arcs) is *)
(* left open.  It implements Hopcroft: see Abs below.                      *)
(***************************************************************************)
EXTENDS DFA, Integers, Sequences, FiniteSets, FiniteSetsExt

CONSTANTS
  N,        \* num_states
  Symbol,   \* the single symbols of sigma_to_pairs, numbers
  Nets      \* the machines to minimize

State == 0..(N - 1)

ASSUME MinimizeHopAssumption ==
  /\ N \in Nat \ {0}
  /\ Symbol \subseteq Nat /\ IsFiniteSet(Symbol)
  /\ \A n \in Nets : n \in Machine(State, Symbol) /\ Trim(State, n)

None == N + 1   \* a null group: the groups allocated are 0..N
nonFP == 0
FP == 1

VARIABLES
  net,            \* the machine being minimized
  group,          \* E: the group of each state
  p,              \* the groups allocated so far, 0..Pnext-1, with their counters
  agenda,         \* the agenda: groups and their index, the head first
  used,           \* how far Agenda_next has gone into its arena
  todo,           \* the symbols of a state's inverse arcs still ahead of its tail
  current_w,      \* the splitter in use
  temp_move,      \* the states collected for refine_states
  left,           \* those its second loop has still to visit
  selfsplit,      \* current_w has been split by this symbol
  total_states,   \* the number of groups
  pc,             \* where the function is
  result          \* what it returns

vars == <<net, group, p, agenda, used, todo, current_w, temp_move, left,
          selfsplit, total_states, pc, result>>

-----------------------------------------------------------------------------

Members(g) == {s \in State : group[s] = g}
InArcs(n, s) == {e \in n.arcs : e[3] = s}
InSyms(s) == {e[2] : e \in InArcs(net, s)}
InCount(n, S) == Cardinality(UNION {InArcs(n, s) : s \in S})
OnAgenda(g) == \E k \in DOMAIN agenda : agenda[k].p = g
Pending == UNION {todo[s] : s \in Members(current_w)}

NewGroup(count, inv) ==
  [count |-> count, t_count |-> 0, inv_count |-> inv, inv_t_count |-> 0,
   current_split |-> None]

(***************************************************************************)
(* Init: sigma_to_pairs, init_PE and generate_inverse.  generate_inverse   *)
(* leaves every tail at the end of its arcs.                               *)
(***************************************************************************)
Init ==
  /\ net \in Nets
  /\ group = [s \in State |-> IF s \in net.final THEN FP ELSE nonFP]
  /\ p = [g \in {nonFP, FP} |->
            NewGroup(Cardinality(Members(g)), InCount(net, Members(g)))]
  /\ LET queued(g) == IF Members(g) = {} THEN <<>> ELSE <<[p |-> g, index |-> 0]>>
     IN agenda = queued(FP) \o queued(nonFP)
  /\ used = Len(agenda)
  /\ total_states = Len(agenda)
  /\ todo = [s \in State |-> {}]
  /\ current_w = None
  /\ temp_move = {} /\ left = {} /\ selfsplit = FALSE
  /\ pc = "agenda"
  /\ result = net

\* Mutant: the splitter stays on the agenda.
PopAgendaKeeps ==
  /\ pc = "agenda" /\ agenda # <<>> /\ total_states # N
  /\ current_w' = Head(agenda).p
  /\ todo' = [s \in State |-> IF group[s] = current_w' THEN InSyms(s) ELSE todo[s]]
  /\ pc' = "symbols"
  /\ UNCHANGED <<net, group, p, agenda, used, temp_move, left, selfsplit,
                 total_states, result>>

(***************************************************************************)
(* PopAgenda: remove current_w from the agenda; unless it continues a      *)
(* symbol loop that was left early, its tails go back to the start.        *)
(***************************************************************************)
PopAgenda ==
  /\ pc = "agenda" /\ agenda # <<>> /\ total_states # N
  /\ current_w' = Head(agenda).p
  /\ agenda' = Tail(agenda)
  /\ todo' = IF Head(agenda).index = 0
             THEN [s \in State |-> IF group[s] = current_w' THEN InSyms(s) ELSE todo[s]]
             ELSE todo
  /\ pc' = "symbols"
  /\ UNCHANGED <<net, group, p, used, temp_move, left, selfsplit, total_states, result>>

(***************************************************************************)
(* NextSymbol: collect in temp_move the sources of current_w's arcs by     *)
(* minsym and, at the head of refine_states, touch each of them.           *)
(***************************************************************************)
NextSymbol ==
  /\ pc = "symbols" /\ Pending # {}
  /\ LET minsym == Min(Pending)
         move == {e[1] : e \in {x \in net.arcs : group[x[3]] = current_w /\ x[2] = minsym}}
     IN /\ todo' = [s \in State |->
                      IF group[s] = current_w THEN todo[s] \ {minsym} ELSE todo[s]]
        /\ temp_move' = move
        /\ left' = move
        /\ p' = [g \in DOMAIN p |->
                   [p[g] EXCEPT
                      !.t_count = @ + Cardinality(move \cap Members(g)),
                      !.inv_t_count = @ + InCount(net, move \cap Members(g))]]
  /\ selfsplit' = FALSE
  /\ pc' = "refine"
  /\ UNCHANGED <<net, group, agenda, used, current_w, total_states, result>>

\* KeepGroup: every state of the group was touched, so it is not split.
KeepGroup(s) ==
  /\ pc = "refine" /\ s \in left
  /\ p[group[s]].t_count = p[group[s]].count
  /\ p' = [p EXCEPT ![group[s]].t_count = 0, ![group[s]].inv_t_count = 0]
  /\ left' = left \ {s}
  /\ UNCHANGED <<net, group, agenda, used, todo, current_w, temp_move, selfsplit,
                 total_states, pc, result>>

Splits(g) == p[g].t_count # p[g].count /\ p[g].count > 1 /\ p[g].t_count > 0

\* SkipState: neither all touched nor to be split.
SkipState(s) ==
  /\ pc = "refine" /\ s \in left
  /\ p[group[s]].t_count # p[group[s]].count
  /\ ~Splits(group[s])
  /\ left' = left \ {s}
  /\ UNCHANGED <<net, group, p, agenda, used, todo, current_w, temp_move, selfsplit,
                 total_states, pc, result>>

\* Abort: one more group would leave only singletons, so the symbol loop, the
\* main loop and the refinement are left as they are.
Abort(s) ==
  /\ pc = "refine" /\ s \in left
  /\ Splits(group[s]) /\ p[group[s]].current_split = None
  /\ total_states + 1 = N
  /\ total_states' = N
  /\ pc' = "rebuild"
  /\ UNCHANGED <<net, group, p, agenda, used, todo, current_w, temp_move, left,
                 selfsplit, result>>

\* The smaller and the larger group, as the code compares them.
Smaller(tP, newP) == IF p[tP].inv_count < p[tP].inv_t_count THEN tP ELSE newP
Larger(tP, newP) == IF p[tP].inv_count >= p[tP].inv_t_count THEN tP ELSE newP

AgendaAdd(ag, g, index) == <<[p |-> g, index |-> index]>> \o ag

\* Mutant: the rest of the splitter in use is not queued again.
AgendaAfterSelfsplit(tP, newP) ==
  IF OnAgenda(tP) THEN AgendaAdd(agenda, newP, 0)
  ELSE AgendaAdd(agenda, Smaller(tP, newP), 0)

(***************************************************************************)
(* The agenda once tP gives up its touched states to newP: newP joins a    *)
(* group that is queued; the splitter in use is queued again, its rest     *)
(* continuing where the symbol loop stopped; else one of the two is.       *)
(***************************************************************************)
AgendaAfter(tP, newP) ==
  IF OnAgenda(tP) THEN
    IF p[tP].inv_count < p[tP].inv_t_count
    THEN AgendaAdd([k \in DOMAIN agenda |->
                      IF agenda[k].p = tP THEN [agenda[k] EXCEPT !.index = 0] ELSE agenda[k]],
                   newP, 1)
    ELSE AgendaAdd(agenda, newP, 0)
  ELSE IF tP = current_w
    THEN AgendaAdd(AgendaAdd(agenda, Smaller(tP, newP), 0), Larger(tP, newP), 1)
    ELSE AgendaAdd(agenda, Smaller(tP, newP), 0)

\* Mutant: the old group keeps the inverse arcs of the states it gave up.
CountMovedKeepsInv(q, tP, newP) ==
  LET moved == q[newP].count + 1
  IN IF moved = q[tP].t_count
     THEN [q EXCEPT ![newP].count = moved, ![tP] = NewGroup(@.count - moved, @.inv_count)]
     ELSE [q EXCEPT ![newP].count = moved]

\* The counters after one more state of tP has moved to newP, q being the groups.
CountMoved(q, tP, newP) ==
  LET moved == q[newP].count + 1
  IN IF moved = q[tP].t_count
     THEN [q EXCEPT ![newP].count = moved,
                    ![tP] = NewGroup(@.count - moved, @.inv_count - @.inv_t_count)]
     ELSE [q EXCEPT ![newP].count = moved]

(***************************************************************************)
(* SplitFirst: the first touched state of tP seen opens a new group, which *)
(* goes to the agenda, and moves to it.                                    *)
(***************************************************************************)
SplitFirst(s) ==
  LET tP   == group[s]
      newP == Cardinality(DOMAIN p)
      q    == [g \in 0..newP |-> IF g = newP THEN NewGroup(0, p[tP].inv_t_count)
                                 ELSE IF g = tP THEN [p[g] EXCEPT !.current_split = newP]
                                 ELSE p[g]]
  IN /\ pc = "refine" /\ s \in left
     /\ Splits(tP) /\ p[tP].current_split = None
     /\ total_states + 1 # N
     /\ total_states' = total_states + 1
     /\ agenda' = AgendaAfter(tP, newP)
     /\ used' = used + (Len(agenda') - Len(agenda))
     /\ selfsplit' = (selfsplit \/ (tP = current_w /\ ~OnAgenda(tP)))
     /\ group' = [group EXCEPT ![s] = newP]
     /\ p' = CountMoved(q, tP, newP)
     /\ left' = left \ {s}
     /\ UNCHANGED <<net, todo, current_w, temp_move, pc, result>>

\* Mutant: the new group is queued for every state that moves to it.
SplitMoreQueues(s) ==
  LET tP   == group[s]
      newP == p[tP].current_split
  IN /\ pc = "refine" /\ s \in left
     /\ Splits(tP) /\ newP # None
     /\ group' = [group EXCEPT ![s] = newP]
     /\ p' = CountMoved(p, tP, newP)
     /\ agenda' = AgendaAdd(agenda, newP, 0)
     /\ used' = used + 1
     /\ left' = left \ {s}
     /\ UNCHANGED <<net, todo, current_w, temp_move, selfsplit, total_states, pc, result>>

\* SplitMore: a further touched state of tP moves to the group already opened.
SplitMore(s) ==
  LET tP   == group[s]
      newP == p[tP].current_split
  IN /\ pc = "refine" /\ s \in left
     /\ Splits(tP) /\ newP # None
     /\ group' = [group EXCEPT ![s] = newP]
     /\ p' = CountMoved(p, tP, newP)
     /\ left' = left \ {s}
     /\ UNCHANGED <<net, agenda, used, todo, current_w, temp_move, selfsplit,
                    total_states, pc, result>>

\* EndRefine: refine_states returns; the symbol loop breaks if current_w was split.
EndRefine ==
  /\ pc = "refine" /\ left = {}
  /\ pc' = IF selfsplit THEN "agenda" ELSE "symbols"
  /\ UNCHANGED <<net, group, p, agenda, used, todo, current_w, temp_move, left,
                 selfsplit, total_states, result>>

\* SymbolsDone: no inverse arc of current_w is left.
SymbolsDone ==
  /\ pc = "symbols" /\ Pending = {}
  /\ pc' = "agenda"
  /\ UNCHANGED <<net, group, p, agenda, used, todo, current_w, temp_move, left,
                 selfsplit, total_states, result>>

(***************************************************************************)
(* AgendaEmpty: the main loop ends, or is not entered because the states   *)
(* are all alone from the start (the code then also skips rebuild_machine, *)
(* which would return the machine as it is).                               *)
(***************************************************************************)
AgendaEmpty ==
  /\ pc = "agenda" /\ (agenda = <<>> \/ total_states = N)
  /\ pc' = "rebuild"
  /\ UNCHANGED <<net, group, p, agenda, used, todo, current_w, temp_move, left,
                 selfsplit, total_states, result>>

\* Mutant: the representative of the start state's group is any of its states.
RebuildAnyFirst ==
  /\ pc = "rebuild"
  /\ pc' = "done"
  /\ \/ total_states = N /\ UNCHANGED result
     \/ /\ total_states # N
        /\ \E first_e \in [{group[s] : s \in State} -> State] :
             /\ \A g \in DOMAIN first_e : group[first_e[g]] = g
             /\ LET kept == {first_e[g] : g \in DOMAIN first_e}
                    number(s) == Cardinality({t \in kept : t < first_e[group[s]]})
                IN result' = [final |-> {number(s) : s \in kept \cap net.final},
                              arcs |-> {<<number(e[1]), e[2], number(e[3])>> :
                                          e \in {x \in net.arcs : x[1] \in kept}}]
  /\ UNCHANGED <<net, group, p, agenda, used, todo, current_w, temp_move, left,
                 selfsplit, total_states>>

(***************************************************************************)
(* Rebuild: rebuild_machine keeps the lines of one state of each group,    *)
(* state 0 of its own, and renumbers groups, the start state's first, in   *)
(* the order of those states.                                              *)
(***************************************************************************)
Rebuild ==
  /\ pc = "rebuild"
  /\ pc' = "done"
  /\ \/ total_states = N /\ UNCHANGED result
     \/ /\ total_states # N
        /\ \E first_e \in [{group[s] : s \in State} -> State] :
             /\ \A g \in DOMAIN first_e : group[first_e[g]] = g
             /\ first_e[group[0]] = 0
             /\ LET kept == {first_e[g] : g \in DOMAIN first_e}
                    number(s) == Cardinality({t \in kept : t < first_e[group[s]]})
                IN result' = [final |-> {number(s) : s \in kept \cap net.final},
                              arcs |-> {<<number(e[1]), e[2], number(e[3])>> :
                                          e \in {x \in net.arcs : x[1] \in kept}}]
  /\ UNCHANGED <<net, group, p, agenda, used, todo, current_w, temp_move, left,
                 selfsplit, total_states>>

Refine == \E s \in left : \/ KeepGroup(s)
                          \/ SkipState(s)
                          \/ Abort(s)
                          \/ SplitFirst(s)
                          \/ SplitMore(s)

Next ==
  \/ PopAgenda
  \/ NextSymbol
  \/ Refine
  \/ EndRefine
  \/ SymbolsDone
  \/ AgendaEmpty
  \/ Rebuild

Fairness == WF_vars(Next)

Spec == Init /\ [][Next]_vars /\ Fairness

-----------------------------------------------------------------------------

(***************************************************************************)
(* Refinement.  A group counts as split from the moment its new group is   *)
(* opened: a touched state still to be visited already belongs there.      *)
(***************************************************************************)
Home(s) ==
  IF s \in left /\ p[group[s]].current_split # None
  THEN p[group[s]].current_split
  ELSE group[s]

Extent(g) == {s \in State : Home(s) = g}

\* The abort leaves the groups as they are: they would be the single states.
Aborted == total_states = N

AbsBlocks ==
  IF Aborted THEN {{s} : s \in State} ELSE {Extent(Home(s)) : s \in State}

\* What a group still owes: every symbol, or those its tails have not passed.
OwedFrom(g, index) ==
  {<<Extent(g), a>> : a \in IF index = 0 THEN UNION {InSyms(s) : s \in Extent(g)}
                                         ELSE UNION {todo[s] : s \in Extent(g)}}

AbsWork ==
  IF pc \in {"rebuild", "done"} THEN {}
  ELSE (UNION {OwedFrom(agenda[k].p, agenda[k].index) : k \in DOMAIN agenda})
       \cup (IF pc \in {"symbols", "refine"} /\ ~OnAgenda(current_w)
             THEN OwedFrom(current_w, 1) ELSE {})

Abs == INSTANCE Hopcroft
         WITH Nets <- Machine(State, Symbol),
              net <- net, blocks <- AbsBlocks, work <- AbsWork, touched <- temp_move

(***************************************************************************)
(* ImplementsHopcroft: agenda indexes, tails and half-done splits add up   *)
(* to the worklist refinement proved minimal in HopcroftProofs.            *)
(***************************************************************************)
ImplementsHopcroft == Abs!Init /\ [][Abs!Next]_(Abs!vars)

-----------------------------------------------------------------------------

\* TypeOK: every state is in a group that has been allocated.
TypeOK ==
  /\ group \in [State -> DOMAIN p]
  /\ \A k \in DOMAIN agenda : agenda[k] \in [p : DOMAIN p, index : {0, 1}]
  /\ todo \in [State -> SUBSET Symbol]
  /\ left \subseteq temp_move /\ temp_move \subseteq State
  /\ total_states \in 1..N
  /\ pc \in {"agenda", "symbols", "refine", "rebuild", "done"}

(***************************************************************************)
(* CountersAgree: when refine_states returns, the four counters of every   *)
(* group are what its list of states says and no half-done split is left,  *)
(* although the counters were changed state by state; and its assertion    *)
(* t_count <= count never fails on the way.                                *)
(***************************************************************************)
CountersAgree ==
  /\ \A g \in DOMAIN p : p[g].t_count <= p[g].count
  /\ pc \in {"agenda", "symbols"} =>
       \A g \in DOMAIN p :
         p[g] = NewGroup(Cardinality(Members(g)), InCount(net, Members(g)))

(***************************************************************************)
(* ArenasSuffice: each new group costs one struct p and at most two agenda *)
(* entries, so the arenas of N + 1 groups and 2 * N entries that init_PE   *)
(* allocates are never overrun.                                            *)
(***************************************************************************)
ArenasSuffice ==
  /\ Cardinality(DOMAIN p) <= total_states + 1
  /\ used <= 2 * total_states - (IF net.final = State THEN 1 ELSE 2)

(***************************************************************************)
(* MinimalResult: the machine returned is the input with exactly its       *)
(* equivalent states merged, and its start state is still state 0.         *)
(***************************************************************************)
MinimalResult ==
  pc = "done" =>
    \E h \in [State -> State] :
      /\ h[0] = 0
      /\ result = [final |-> {h[s] : s \in net.final},
                   arcs |-> {<<h[e[1]], e[2], h[e[3]]>> : e \in net.arcs}]
      /\ Abs!Congruence(h)
      /\ \A f \in Abs!Grouping : Abs!Congruence(f) =>
           \A s, t \in State : f[s] = f[t] => h[s] = h[t]

\* Terminates: fsm_minimize_hop returns.
Terminates == <>(pc = "done")

(***************************************************************************)
(* QueuesSmallerHalf: the comment in refine_states on a group that is not  *)
(* on the agenda: "we add the smaller of tP, newP".  Size is the number of *)
(* inverse arcs, as in the comparison under that comment.                  *)
(***************************************************************************)
QueuesSmallerHalf ==
  [][\A s \in left :
       LET tP == group[s]
       IN SplitFirst(s) /\ ~OnAgenda(tP) /\ tP # current_w =>
            IF Head(agenda').p = tP
            THEN p[tP].inv_count - p[tP].inv_t_count <= p[tP].inv_t_count
            ELSE p[tP].inv_t_count <= p[tP].inv_count - p[tP].inv_t_count]_vars
=============================================================================
