------------------------- MODULE MinimizeHopProofs -------------------------
(***************************************************************************)
(* Proofs about MinimizeHop for machines of any size: it implements        *)
(* Hopcroft, its counters agree with its lists whenever refine_states      *)
(* returns, its arenas are large enough, and what it returns is the        *)
(* minimal machine.                                                        *)
(*                                                                         *)
(* The lists, counters and tails are operators of their arguments here:    *)
(* n is the machine, gr the group of each state, q the groups, T the       *)
(* touched states, L those left to visit and f the home of each state.    *)
(***************************************************************************)
EXTENDS MinimizeHop, FiniteSetTheorems, TLAPS

HP == INSTANCE HopcroftProofs
        WITH Nets <- Machine(State, Symbol),
             net <- net, blocks <- AbsBlocks, work <- AbsWork, touched <- temp_move

-----------------------------------------------------------------------------

Counter == [count : Nat, t_count : Nat, inv_count : Nat, inv_t_count : Nat,
            current_split : 0..None]

\* The groups are numbered from 0, and a state is in one of them.
Grouped(gr, q) ==
  /\ q \in [DOMAIN q -> Counter]
  /\ \E k \in 0..N : DOMAIN q = 0..k
  /\ gr \in [State -> DOMAIN q]

Mem(gr, g) == {s \in State : gr[s] = g}

\* A group with the states that have already left it for its half-done split.
Whole(gr, q, g) == Mem(gr, g) \cup Mem(gr, q[g].current_split)

\* The group opened by a split of g that still has states to move.
HalfDone(n, gr, q, T, L, g) ==
  LET h == q[g].current_split IN
  /\ h \in DOMAIN q \ {g}
  /\ q[h] = NewGroup(Cardinality(Mem(gr, h)), InCount(n, Whole(gr, q, g) \cap T))
  /\ Mem(gr, h) \subseteq T \ L
  /\ Mem(gr, g) \cap L # {}
  /\ Mem(gr, g) \ T # {}

\* A group with touched states that refine_states has not dealt with yet.
Active(n, gr, q, T, L, g) ==
  /\ q[g].count = Cardinality(Whole(gr, q, g))
  /\ q[g].t_count = Cardinality(Whole(gr, q, g) \cap T)
  /\ q[g].inv_count = InCount(n, Whole(gr, q, g))
  /\ q[g].inv_t_count = InCount(n, Whole(gr, q, g) \cap T)
  /\ Mem(gr, g) \cap T \subseteq L
  /\ q[g].current_split # None => HalfDone(n, gr, q, T, L, g)

\* A group refine_states has dealt with.
Settled(n, gr, q, T, g) ==
  /\ q[g] = NewGroup(Cardinality(Mem(gr, g)), InCount(n, Mem(gr, g)))
  /\ Mem(gr, g) \subseteq T \/ Mem(gr, g) \cap T = {}

Opened(q, h) == \E g \in DOMAIN q : q[g].current_split = h

\* The groups while refine_states runs.
Refining(n, gr, q, T, L) ==
  /\ Grouped(gr, q)
  /\ L \subseteq T
  /\ T \subseteq State
  /\ \A g \in DOMAIN q : \/ Opened(q, g)
                         \/ Active(n, gr, q, T, L, g)
                         \/ Settled(n, gr, q, T, g)
  /\ \A g \in DOMAIN q : q[g].current_split # None => Active(n, gr, q, T, L, g)
  /\ \A g, h \in DOMAIN q :
       q[g].current_split = q[h].current_split /\ q[g].current_split # None => g = h

\* The groups while it does not.
Quiet(n, gr, q, T, L) ==
  /\ Grouped(gr, q)
  /\ L = {}
  /\ T \subseteq State
  /\ \A g \in DOMAIN q : Settled(n, gr, q, T, g)

-----------------------------------------------------------------------------

\* Where each state belongs: Home as a function.
HomeOf(gr, q, L) ==
  [s \in State |-> IF s \in L /\ q[gr[s]].current_split # None
                   THEN q[gr[s]].current_split ELSE gr[s]]

home == HomeOf(group, p, left)

Syms(n, s) == {e[2] : e \in InArcs(n, s)}

Entry == [p : DOMAIN p, index : {0, 1}]
Entries(ag) == {<<ag[k].p, ag[k].index>> : k \in DOMAIN ag}
Queued(ag, g) == \E k \in DOMAIN ag : ag[k].p = g
Distinct(ag) == \A j, k \in DOMAIN ag : ag[j].p = ag[k].p => j = k

\* What is owed, by whom, and from which place of its tails.
Debts ==
  IF pc \in {"rebuild", "done"} THEN {}
  ELSE Entries(agenda)
       \cup (IF pc \in {"symbols", "refine"} /\ ~Queued(agenda, current_w)
             THEN {<<current_w, 1>>} ELSE {})

\* Block B is owed by symbol a: the tails of a state of it have not passed a.
Owes(n, f, td, D, B, a) ==
  \E d \in D : \E s \in Mem(f, d[1]) :
    B = Mem(f, d[1]) /\ a \in (IF d[2] = 0 THEN Syms(n, s) ELSE td[s])

\* The tails of a block have all passed the same symbols.
Uniform(n, f, td, g) ==
  \A s, t \in Mem(f, g) : \A a \in td[s] : a \in Syms(n, t) => a \in td[t]

-----------------------------------------------------------------------------

Types ==
  /\ net \in Machine(State, Symbol) /\ net.final # {}
  /\ agenda \in Seq(Entry)
  /\ todo \in [State -> SUBSET Symbol]
  /\ used \in Nat
  /\ total_states \in 1..N
  /\ selfsplit \in BOOLEAN
  /\ pc \in {"agenda", "symbols", "refine", "rebuild", "done"}
  /\ pc \in {"symbols", "refine"} => current_w \in DOMAIN p
  /\ pc # "done" => result = net

Groups ==
  /\ pc = "refine" => Refining(net, group, p, temp_move, left)
  /\ pc \in {"agenda", "symbols"} \/ (pc = "rebuild" /\ total_states # N) =>
       Quiet(net, group, p, temp_move, left)
  /\ Grouped(group, p)
  /\ \A g \in DOMAIN p : p[g].t_count <= p[g].count

Totals ==
  /\ total_states # N => total_states = Cardinality({home[s] : s \in State})
  /\ pc \in {"symbols", "refine"} => total_states # N
  /\ ArenasSuffice

\* No group is queued twice; the splitter in use is queued only once it is split.
Queue ==
  /\ Distinct(agenda)
  /\ pc = "symbols" => ~Queued(agenda, current_w)
  /\ pc = "refine" => (selfsplit <=> Queued(agenda, current_w))

Tails ==
  /\ \A s \in State : todo[s] \subseteq Syms(net, s)
  /\ \A d \in Debts : d[2] = 1 => Uniform(net, home, todo, d[1])

HopInv == Types /\ Groups /\ Totals /\ Queue /\ Tails

-----------------------------------------------------------------------------

\* The size of two disjoint sets together.
LEMMA DisjointUnion ==
  ASSUME NEW A, NEW B, IsFiniteSet(A), IsFiniteSet(B), A \cap B = {}
  PROVE  Cardinality(A \cup B) = Cardinality(A) + Cardinality(B)
<1>1. Cardinality(A) \in Nat /\ Cardinality(B) \in Nat
  BY FS_CardinalityType
<1>2. Cardinality(A \cap B) = 0
  BY FS_EmptySet
<1>3. Cardinality(A \cup B) = Cardinality(A) + Cardinality(B) - Cardinality(A \cap B)
  BY FS_Union
<1> QED
  BY <1>1, <1>2, <1>3

\* Counting states.
LEMMA Card ==
  /\ IsFiniteSet(State) /\ Cardinality(State) = N
  /\ \A A \in SUBSET State : IsFiniteSet(A) /\ Cardinality(A) \in Nat
                             /\ (Cardinality(A) = 0 <=> A = {})
  /\ \A A, B \in SUBSET State :
       A \cap B = {} => Cardinality(A \cup B) = Cardinality(A) + Cardinality(B)
  /\ \A A, B \in SUBSET State :
       A \subseteq B => /\ Cardinality(A) <= Cardinality(B)
                        /\ Cardinality(A) = Cardinality(B) => A = B
  /\ \A s \in State : Cardinality({s}) = 1
<1>1. IsFiniteSet(State) /\ Cardinality(State) = N
  BY MinimizeHopAssumption, FS_Interval DEF State
<1>2. \A A \in SUBSET State : IsFiniteSet(A) /\ Cardinality(A) \in Nat
  BY <1>1, FS_Subset, FS_CardinalityType
<1>3. \A A \in SUBSET State : Cardinality(A) = 0 <=> A = {}
  BY <1>2, FS_EmptySet
<1>4. ASSUME NEW A \in SUBSET State, NEW B \in SUBSET State, A \cap B = {}
      PROVE  Cardinality(A \cup B) = Cardinality(A) + Cardinality(B)
  BY <1>2, <1>4, DisjointUnion
<1>5. ASSUME NEW A \in SUBSET State, NEW B \in SUBSET State, A \subseteq B
      PROVE  /\ Cardinality(A) <= Cardinality(B)
             /\ Cardinality(A) = Cardinality(B) => A = B
  BY <1>2, <1>5, FS_Subset
<1>6. \A s \in State : Cardinality({s}) = 1
  BY FS_Singleton
<1> QED
  BY <1>1, <1>2, <1>3, <1>4, <1>5, <1>6

\* Counting the arcs into states: the counts of disjoint lists add up.
LEMMA ArcCount ==
  ASSUME NEW n \in Machine(State, Symbol)
  PROVE  /\ \A A \in SUBSET State : InCount(n, A) \in Nat
         /\ \A A, B \in SUBSET State :
              A \cap B = {} => InCount(n, A \cup B) = InCount(n, A) + InCount(n, B)
         /\ \A s \in State : Syms(n, s) \subseteq Symbol
<1> DEFINE Into(A) == UNION {InArcs(n, s) : s \in A}
<1>1. IsFiniteSet(n.arcs) /\ n.arcs \subseteq State \X Symbol \X State
  <2>1. n.arcs \subseteq State \X Symbol \X State
    BY DEF Machine
  <2>2. IsFiniteSet(State \X Symbol)
    BY Card, MinimizeHopAssumption, FS_Product
  <2>3. IsFiniteSet((State \X Symbol) \X State)
    BY <2>2, Card, FS_Product
  <2> DEFINE f == [y \in (State \X Symbol) \X State |-> <<y[1][1], y[1][2], y[2]>>]
  <2>4. f \in Surjection((State \X Symbol) \X State, State \X Symbol \X State)
    <3>1. f \in [(State \X Symbol) \X State -> State \X Symbol \X State]
      OBVIOUS
    <3>2. ASSUME NEW e \in State \X Symbol \X State
          PROVE  \E y \in (State \X Symbol) \X State : f[y] = e
      <4>1. <<<<e[1], e[2]>>, e[3]>> \in (State \X Symbol) \X State
        OBVIOUS
      <4> QED
        BY <4>1
    <3> QED
      BY <3>1, <3>2 DEF Surjection
  <2>5. IsFiniteSet(State \X Symbol \X State)
    BY <2>3, <2>4, FS_Surjection
  <2> QED
    BY <2>1, <2>5, FS_Subset
<1>2. \A A : IsFiniteSet(Into(A)) /\ Cardinality(Into(A)) \in Nat
  <2> TAKE A
  <2>1. Into(A) \subseteq n.arcs
    BY DEF InArcs
  <2> QED
    BY <2>1, <1>1, FS_Subset, FS_CardinalityType
<1>3. ASSUME NEW A \in SUBSET State, NEW B \in SUBSET State, A \cap B = {}
      PROVE  InCount(n, A \cup B) = InCount(n, A) + InCount(n, B)
  <2>1. Into(A \cup B) = Into(A) \cup Into(B)
    OBVIOUS
  <2>2. Into(A) \cap Into(B) = {}
    BY <1>3 DEF InArcs
  <2> HIDE DEF Into
  <2>3. Cardinality(Into(A \cup B)) = Cardinality(Into(A)) + Cardinality(Into(B))
    BY <2>1, <2>2, <1>2, DisjointUnion
  <2> QED
    BY <2>3 DEF InCount, Into
<1>4. \A s \in State : Syms(n, s) \subseteq Symbol
  BY <1>1 DEF Syms, InArcs
<1> QED
  BY <1>2, <1>3, <1>4 DEF InCount

-----------------------------------------------------------------------------

\* A new pair of counters is a group's record.
LEMMA NewGroupType ==
  ASSUME NEW c \in Nat, NEW i \in Nat
  PROVE  /\ NewGroup(c, i) \in Counter
         /\ NewGroup(c, i).count = c /\ NewGroup(c, i).t_count = 0
         /\ NewGroup(c, i).inv_count = i /\ NewGroup(c, i).inv_t_count = 0
         /\ NewGroup(c, i).current_split = None
BY MinimizeHopAssumption DEF NewGroup, Counter, None

\* None is the number of no group.
LEMMA GroupedFacts ==
  ASSUME NEW gr, NEW q, Grouped(gr, q)
  PROVE  /\ None \notin DOMAIN q
         /\ \A g \in DOMAIN q : q[g] \in Counter
         /\ \A s \in State : gr[s] \in DOMAIN q
         /\ Mem(gr, None) = {}
         /\ \A g : Mem(gr, g) \subseteq State
         /\ \A g, h : g # h => Mem(gr, g) \cap Mem(gr, h) = {}
         /\ \A g : q[g].current_split = None => Whole(gr, q, g) = Mem(gr, g)
         /\ \A g : Whole(gr, q, g) \subseteq State
<1>1. PICK k \in 0..N : DOMAIN q = 0..k
  BY DEF Grouped
<1>2. None \notin DOMAIN q
  BY <1>1, MinimizeHopAssumption DEF None
<1> QED
  BY <1>2 DEF Grouped, Mem, Whole

\* The group of a touched state still to be visited is not one being filled.
LEMMA Visited ==
  ASSUME NEW n, NEW gr, NEW q, NEW T, NEW L, Refining(n, gr, q, T, L), NEW s \in L
  PROVE  /\ s \in State /\ s \in T /\ gr[s] \in DOMAIN q /\ s \in Mem(gr, gr[s])
         /\ ~Opened(q, gr[s])
         /\ Active(n, gr, q, T, L, gr[s]) \/ Settled(n, gr, q, T, gr[s])
<1>1. s \in State /\ s \in T /\ gr[s] \in DOMAIN q /\ s \in Mem(gr, gr[s])
  BY DEF Refining, Grouped, Mem
<1>2. ASSUME NEW g \in DOMAIN q, q[g].current_split = gr[s]
      PROVE  FALSE
  <2>1. q[g].current_split # None
    BY <1>1, <1>2, GroupedFacts DEF Refining
  <2>2. HalfDone(n, gr, q, T, L, g)
    BY <2>1 DEF Refining, Active
  <2> QED
    BY <1>1, <1>2, <2>2 DEF HalfDone
<1> QED
  BY <1>1, <1>2 DEF Refining, Opened

\* The counters never say that more states were touched than there are.
LEMMA CountsBounded ==
  ASSUME NEW n \in Machine(State, Symbol), NEW gr, NEW q, NEW T, NEW L,
         Refining(n, gr, q, T, L) \/ Quiet(n, gr, q, T, L)
  PROVE  \A g \in DOMAIN q : /\ q[g].t_count <= q[g].count
                             /\ q[g].inv_t_count <= q[g].inv_count
<1>0. Grouped(gr, q)
  BY DEF Refining, Quiet
<1>1. ASSUME NEW g \in DOMAIN q, Active(n, gr, q, T, L, g)
      PROVE  q[g].t_count <= q[g].count /\ q[g].inv_t_count <= q[g].inv_count
  <2> DEFINE W == Whole(gr, q, g)
  <2>1. W \in SUBSET State /\ W \cap T \in SUBSET State /\ W \ T \in SUBSET State
    BY <1>0, GroupedFacts
  <2>2. q[g].t_count <= q[g].count
    BY <1>1, <2>1, Card DEF Active
  <2>3. (W \cap T) \cup (W \ T) = W /\ (W \cap T) \cap (W \ T) = {}
    OBVIOUS
  <2>4. InCount(n, W) = InCount(n, W \cap T) + InCount(n, W \ T)
    BY <2>1, <2>3, ArcCount
  <2>5. InCount(n, W \cap T) \in Nat /\ InCount(n, W \ T) \in Nat
    BY <2>1, ArcCount
  <2> HIDE DEF W
  <2>6. q[g].inv_count = InCount(n, W) /\ q[g].inv_t_count = InCount(n, W \cap T)
    BY <1>1 DEF Active, W
  <2> QED
    BY <2>2, <2>4, <2>5, <2>6
<1>2. ASSUME NEW g \in DOMAIN q, NEW m, m \in SUBSET State,
             q[g].count = Cardinality(m), q[g].t_count = 0, q[g].inv_t_count = 0
      PROVE  q[g].t_count <= q[g].count /\ q[g].inv_t_count <= q[g].inv_count
  BY <1>0, <1>2, Card, GroupedFacts DEF Counter
<1>3. ASSUME NEW g \in DOMAIN q, Settled(n, gr, q, T, g)
      PROVE  q[g].t_count <= q[g].count /\ q[g].inv_t_count <= q[g].inv_count
  <2>1. Mem(gr, g) \in SUBSET State
    BY <1>0, GroupedFacts
  <2> QED
    BY <1>2, <1>3, <2>1, NewGroupType, Card, ArcCount DEF Settled
<1>4. ASSUME NEW h \in DOMAIN q, Opened(q, h), Refining(n, gr, q, T, L)
      PROVE  q[h].t_count <= q[h].count /\ q[h].inv_t_count <= q[h].inv_count
  <2>1. PICK g \in DOMAIN q : q[g].current_split = h
    BY <1>4 DEF Opened
  <2>2. HalfDone(n, gr, q, T, L, g)
    BY <1>0, <1>4, <2>1, GroupedFacts DEF Refining, Active
  <2>3. Mem(gr, h) \in SUBSET State /\ Whole(gr, q, g) \cap T \in SUBSET State
    BY <1>0, GroupedFacts
  <2> QED
    BY <1>2, <2>1, <2>2, <2>3, NewGroupType, Card, ArcCount DEF HalfDone
<1> QED
  BY <1>1, <1>3, <1>4 DEF Refining, Quiet

-----------------------------------------------------------------------------

\* The lists gr2 are those of gr with s moved to h.
MovedTo(gr, s, h, gr2) == gr2 = [t \in State |-> IF t = s THEN h ELSE gr[t]]

(***************************************************************************)
(* One more state moves to the group that its own has opened: the counters *)
(* stay right, and no state changes its home.                              *)
(***************************************************************************)
LEMMA MoveKeeps ==
  ASSUME NEW n \in Machine(State, Symbol), NEW gr, NEW q, NEW T, NEW L,
         Refining(n, gr, q, T, L), NEW s \in L,
         NEW h, h = q[gr[s]].current_split, h # None,
         NEW gr2, MovedTo(gr, s, h, gr2)
  PROVE  /\ Refining(n, gr2, CountMoved(q, gr[s], h), T, L \ {s})
         /\ HomeOf(gr2, CountMoved(q, gr[s], h), L \ {s}) = HomeOf(gr, q, L)
<1> DEFINE g == gr[s]
           A == Mem(gr, g)
           B == Mem(gr, h)
           L2 == L \ {s}
           c == q[h].count + 1
           q2 == CountMoved(q, g, h)
           last == c = q[g].t_count
<1>0. /\ Grouped(gr, q) /\ L \subseteq T /\ T \subseteq State
      /\ gr2 = [t \in State |-> IF t = s THEN h ELSE gr[t]]
  BY DEF Refining, MovedTo
<1>1. s \in State /\ s \in T /\ g \in DOMAIN q /\ s \in A /\ ~Opened(q, g)
  BY Visited
<1>2. Active(n, gr, q, T, L, g) /\ HalfDone(n, gr, q, T, L, g)
  BY <1>1 DEF Refining, Active
<1>3. h \in DOMAIN q /\ h # g /\ h # None
  BY <1>2 DEF HalfDone
<1>4. /\ B \subseteq T \ L /\ A \cap T = A \cap L /\ A \ T # {}
      /\ A \in SUBSET State /\ B \in SUBSET State /\ A \cap B = {}
      /\ Whole(gr, q, g) = A \cup B
      /\ (A \cup B) \cap T = B \cup (A \cap L)
  <2>1. A \in SUBSET State /\ B \in SUBSET State /\ A \cap B = {}
    BY <1>0, <1>3, GroupedFacts
  <2> QED
    BY <2>1, <1>0, <1>2 DEF HalfDone, Active, Whole
<1>5. /\ q[h] = NewGroup(Cardinality(B), InCount(n, B \cup (A \cap L)))
      /\ q[h].count = Cardinality(B) /\ q[h].current_split = None
      /\ q[g].count = Cardinality(A \cup B)
      /\ q[g].t_count = Cardinality(B \cup (A \cap L))
      /\ q[g].inv_count = InCount(n, A \cup B)
      /\ q[g].inv_t_count = InCount(n, B \cup (A \cap L))
      /\ c \in Nat
  <2>1. B \cup (A \cap L) \in SUBSET State
    BY <1>4
  <2>2. q[h] = NewGroup(Cardinality(B), InCount(n, B \cup (A \cap L)))
    BY <1>2, <1>4 DEF HalfDone
  <2>3. q[h].count = Cardinality(B) /\ q[h].current_split = None
    BY <2>1, <2>2, <1>4, Card, ArcCount, NewGroupType
  <2>4. Cardinality(B) \in Nat
    BY <1>4, Card
  <2> QED
    BY <2>2, <2>3, <2>4, <1>2, <1>4 DEF Active
<1> HIDE DEF c, A, B
<1>6. /\ Mem(gr2, g) = A \ {s} /\ Mem(gr2, h) = B \cup {s}
      /\ \A x : x # g /\ x # h => Mem(gr2, x) = Mem(gr, x)
  BY <1>0, <1>1, <1>3 DEF Mem, A, B, Grouped
<1>7. Cardinality(B \cup {s}) = c
  <2>1. B \cap {s} = {} /\ {s} \in SUBSET State
    BY <1>1, <1>4
  <2>2. Cardinality({s}) = 1
    BY <1>1, Card
  <2>3. Cardinality(B \cup {s}) = Cardinality(B) + Cardinality({s})
    BY <2>1, <1>4, Card
  <2> QED
    BY <2>2, <2>3, <1>5 DEF c
<1>8. last <=> A \cap L = {s}
  <2>1. B \cup {s} \subseteq B \cup (A \cap L) /\ B \cup (A \cap L) \in SUBSET State
    BY <1>1, <1>4
  <2>2. /\ B \cup {s} \in SUBSET State
        /\ Cardinality(B \cup {s}) = Cardinality(B \cup (A \cap L)) =>
             B \cup {s} = B \cup (A \cap L)
    BY <2>1, Card
  <2> QED
    BY <2>2, <1>1, <1>4, <1>5, <1>7
<1>9. /\ DOMAIN q2 = DOMAIN q
      /\ \A x \in DOMAIN q : x # g /\ x # h => q2[x] = q[x]
      /\ q2[h] = NewGroup(c, InCount(n, B \cup (A \cap L)))
  <2>1. q \in [DOMAIN q -> Counter]
    BY <1>0 DEF Grouped
  <2>2. [q[h] EXCEPT !.count = c] = NewGroup(c, InCount(n, B \cup (A \cap L)))
    <3>1. q[h] = NewGroup(Cardinality(B), InCount(n, B \cup (A \cap L)))
      BY <1>5
    <3> QED
      BY ONLY <3>1 DEF NewGroup
  <2> QED
    BY <2>1, <2>2, <1>1, <1>3 DEF CountMoved, c
<1>10. /\ q2[g] \in Counter /\ q2[h] \in Counter /\ q2[h].current_split = None
       /\ q2[g].current_split = IF A \cap L = {s} THEN None ELSE h
       /\ \/ Active(n, gr2, q2, T, L2, g)
          \/ Settled(n, gr2, q2, T, g) /\ q2[g].current_split = None
       /\ Opened(q2, h) \/ Settled(n, gr2, q2, T, h)
  <2>1. CASE last
    <3>1. /\ (A \cup B) \cap T = B \cup {s}
          /\ A \cup B = (A \ {s}) \cup (B \cup {s})
          /\ (A \ {s}) \cap (B \cup {s}) = {}
          /\ A \ {s} \in SUBSET State /\ B \cup {s} \in SUBSET State
      BY <1>1, <1>4, <1>8, <2>1
    <3>8. /\ Cardinality(A \cup B) = Cardinality(A \ {s}) + Cardinality(B \cup {s})
          /\ Cardinality(A \ {s}) \in Nat /\ Cardinality(B \cup {s}) \in Nat
      BY <3>1, Card
    <3>9. /\ InCount(n, A \cup B) = InCount(n, A \ {s}) + InCount(n, B \cup {s})
          /\ InCount(n, A \ {s}) \in Nat /\ InCount(n, B \cup {s}) \in Nat
      <4>1. \A X, Y \in SUBSET State :
              X \cap Y = {} => InCount(n, X \cup Y) = InCount(n, X) + InCount(n, Y)
        BY ArcCount
      <4>2. \A X \in SUBSET State : InCount(n, X) \in Nat
        BY ArcCount
      <4> QED
        BY ONLY <3>1, <4>1, <4>2
    <3>2. /\ Cardinality(A \cup B) = Cardinality(A \ {s}) + Cardinality(B \cup {s})
          /\ InCount(n, A \cup B) = InCount(n, A \ {s}) + InCount(n, B \cup {s})
          /\ Cardinality(A \ {s}) \in Nat /\ Cardinality(B \cup {s}) \in Nat
          /\ InCount(n, A \ {s}) \in Nat /\ InCount(n, B \cup {s}) \in Nat
      BY <3>8, <3>9
    <3>3. B \cup (A \cap L) = B \cup {s}
      BY <3>1, <1>4
    <3>10. q[g].inv_t_count = InCount(n, B \cup {s})
      BY <3>3, <1>5
    <3>11. q[g].count - c = Cardinality(A \ {s})
      BY <3>8, <1>5, <1>7
    <3>12. q[g].inv_count - q[g].inv_t_count = InCount(n, A \ {s})
      BY <3>9, <3>10, <1>5
    <3>4. /\ q[g].count - c = Cardinality(A \ {s})
          /\ q[g].inv_count - q[g].inv_t_count = InCount(n, A \ {s})
      BY <3>11, <3>12
    <3>5. q2[g] = NewGroup(Cardinality(A \ {s}), InCount(n, A \ {s}))
      BY <3>4, <1>0, <1>1, <1>3, <2>1 DEF CountMoved, c, Grouped
    <3>6. Settled(n, gr2, q2, T, g) /\ Settled(n, gr2, q2, T, h)
      BY <3>1, <3>3, <3>5, <1>1, <1>4, <1>6, <1>7, <1>9 DEF Settled
    <3>7. q2[g] \in Counter /\ q2[h] \in Counter
          /\ q2[g].current_split = None /\ q2[h].current_split = None
      <4>1. q2[g] \in Counter /\ q2[g].current_split = None
        BY <3>2, <3>5, NewGroupType
      <4>2. c \in Nat /\ InCount(n, B \cup (A \cap L)) \in Nat
        BY <3>2, <3>3, <1>5
      <4>3. q2[h] \in Counter /\ q2[h].current_split = None
        BY <4>2, <1>9, NewGroupType
      <4> QED
        BY <4>1, <4>3
    <3> QED
      <4>1. A \cap L = {s}
        BY <1>8, <2>1
      <4> HIDE DEF q2
      <4> QED
        BY <3>6, <3>7, <4>1
  <2>2. CASE ~last
    <3>1. q2 = [q EXCEPT ![h].count = c]
      BY <2>2 DEF CountMoved, c
    <3>2. q2[g] = q[g]
      BY <3>1, <1>0, <1>1, <1>3 DEF Grouped
    <3>3. /\ Whole(gr2, q2, g) = A \cup B
          /\ Mem(gr2, g) \cap L2 # {} /\ Mem(gr2, g) \ T # {}
          /\ Mem(gr2, g) \cap T \subseteq L2 /\ Mem(gr2, h) \subseteq T \ L2
      <4>1. q2[g].current_split = h
        BY <3>2
      <4> QED
        BY <4>1, <1>1, <1>4, <1>6, <1>8, <2>2 DEF Whole
    <3>4. HalfDone(n, gr2, q2, T, L2, g)
      BY <3>2, <3>3, <1>3, <1>4, <1>6, <1>7, <1>9 DEF HalfDone
    <3>5. Active(n, gr2, q2, T, L2, g)
      BY <3>2, <3>3, <3>4, <1>4, <1>5 DEF Active
    <3>6. q2[g] \in Counter /\ q2[h] \in Counter /\ q2[h].current_split = None
      <4>1. InCount(n, B \cup (A \cap L)) \in Nat
        BY <1>4, ArcCount
      <4> QED
        BY <4>1, <3>2, <1>0, <1>1, <1>5, <1>9, NewGroupType, GroupedFacts
    <3>7. Opened(q2, h)
      BY <3>2, <1>1, <1>9 DEF Opened
    <3>8. A \cap L # {s} /\ q2[g].current_split = h
      BY <3>2, <1>8, <2>2
    <3> HIDE DEF q2
    <3> QED
      BY <3>5, <3>6, <3>7, <3>8
  <2> QED
    BY <2>1, <2>2
<1>11. ASSUME NEW x \in DOMAIN q, x # g, x # h
       PROVE  /\ q2[x] = q[x] /\ q[x].current_split \notin {g, h}
              /\ Active(n, gr, q, T, L, x) => Active(n, gr2, q2, T, L2, x)
              /\ Settled(n, gr, q, T, x) => Settled(n, gr2, q2, T, x)
              /\ Opened(q, x) => Opened(q2, x)
  <2>1. q2[x] = q[x]
    BY <1>9, <1>11
  <2>2. q[x].current_split # g
    BY <1>1 DEF Opened
  <2>3. q[x].current_split # h
    BY <1>1, <1>3, <1>11 DEF Refining
  <2> DEFINE y == q[x].current_split
  <2>4. Mem(gr2, x) = Mem(gr, x) /\ Mem(gr2, y) = Mem(gr, y)
    BY <2>2, <2>3, <1>6, <1>11
  <2>5. s \notin Mem(gr, x)
    BY <1>11 DEF Mem
  <2>6. Whole(gr2, q2, x) = Whole(gr, q, x)
    BY <2>1, <2>4 DEF Whole
  <2>7. HalfDone(n, gr, q, T, L, x) => HalfDone(n, gr2, q2, T, L2, x)
    <3> SUFFICES ASSUME HalfDone(n, gr, q, T, L, x)
                 PROVE  HalfDone(n, gr2, q2, T, L2, x)
      OBVIOUS
    <3>1. q2[y] = q[y]
      BY <2>2, <2>3, <1>9 DEF HalfDone
    <3> QED
      BY <2>1, <2>4, <2>5, <2>6, <3>1, <1>9 DEF HalfDone
  <2>8. Active(n, gr, q, T, L, x) => Active(n, gr2, q2, T, L2, x)
    BY <2>1, <2>4, <2>5, <2>6, <2>7 DEF Active
  <2>9. Settled(n, gr, q, T, x) => Settled(n, gr2, q2, T, x)
    BY <2>1, <2>4 DEF Settled
  <2>10. Opened(q, x) => Opened(q2, x)
    <3> SUFFICES ASSUME NEW z \in DOMAIN q, q[z].current_split = x
                 PROVE  Opened(q2, x)
      BY DEF Opened
    <3>1. z # g
      BY <1>11
    <3>2. z # h
      BY <1>0, <1>5, GroupedFacts
    <3> QED
      BY <3>1, <3>2, <1>9 DEF Opened
  <2> QED
    BY <2>1, <2>2, <2>3, <2>8, <2>9, <2>10
<1>12. Refining(n, gr2, q2, T, L2)
  <2>1. Grouped(gr2, q2)
    <3>2. q2 = [x \in DOMAIN q2 |-> q2[x]]
      <4>1. q = [x \in DOMAIN q |-> q[x]]
        BY <1>0 DEF Grouped
      <4> QED
        BY ONLY <4>1 DEF CountMoved
    <3> HIDE DEF q2
    <3>1. \A x \in DOMAIN q2 : q2[x] \in Counter
      <4> SUFFICES ASSUME NEW x \in DOMAIN q2
                   PROVE  q2[x] \in Counter
        OBVIOUS
      <4>1. CASE x = g \/ x = h
        BY <4>1, <1>10
      <4>2. CASE x # g /\ x # h
        BY <4>2, <1>0, <1>9, GroupedFacts
      <4> QED
        BY <4>1, <4>2
    <3>3. gr2 \in [State -> DOMAIN q2]
      BY <1>0, <1>3, <1>9 DEF Grouped
    <3>4. q2 \in [DOMAIN q2 -> Counter]
      BY <3>1, <3>2
    <3> QED
      BY <3>3, <3>4, <1>0, <1>9 DEF Grouped
  <2> HIDE DEF q2
  <2>2. \A x \in DOMAIN q2 : \/ Opened(q2, x)
                             \/ Active(n, gr2, q2, T, L2, x)
                             \/ Settled(n, gr2, q2, T, x)
    <3> TAKE x \in DOMAIN q2
    <3>1. x \in DOMAIN q /\ (Opened(q, x) \/ Active(n, gr, q, T, L, x)
                             \/ Settled(n, gr, q, T, x))
      BY <1>9 DEF Refining
    <3> QED
      BY <3>1, <1>10, <1>11
  <2>3. \A x \in DOMAIN q2 : q2[x].current_split # None => Active(n, gr2, q2, T, L2, x)
    <3> SUFFICES ASSUME NEW x \in DOMAIN q2, q2[x].current_split # None
                 PROVE  Active(n, gr2, q2, T, L2, x)
      OBVIOUS
    <3>1. CASE x = g \/ x = h
      BY <3>1, <1>10
    <3>2. CASE x # g /\ x # h
      BY <3>2, <1>9, <1>11 DEF Refining
    <3> QED
      BY <3>1, <3>2
  <2>4. \A x, y \in DOMAIN q2 :
          q2[x].current_split = q2[y].current_split /\ q2[x].current_split # None => x = y
    <3> SUFFICES ASSUME NEW x \in DOMAIN q2, NEW y \in DOMAIN q2, x # y,
                        q2[x].current_split = q2[y].current_split,
                        q2[x].current_split # None
                 PROVE  FALSE
      OBVIOUS
    <3>1. x # h /\ y # h
      BY <1>10
    <3>2. CASE x # g /\ y # g
      BY <3>1, <3>2, <1>9, <1>11 DEF Refining
    <3>3. CASE x = g \/ y = g
      BY <3>1, <3>3, <1>9, <1>10, <1>11
    <3> QED
      BY <3>2, <3>3
  <2> QED
    BY <2>1, <2>2, <2>3, <2>4, <1>0 DEF Refining
<1>13. HomeOf(gr2, q2, L2) = HomeOf(gr, q, L)
  <2> SUFFICES ASSUME NEW t \in State
               PROVE  (IF t \in L2 /\ q2[gr2[t]].current_split # None
                       THEN q2[gr2[t]].current_split ELSE gr2[t])
                      = (IF t \in L /\ q[gr[t]].current_split # None
                         THEN q[gr[t]].current_split ELSE gr[t])
    BY Zenon DEF HomeOf
  <2>1. gr2[t] = IF t = s THEN h ELSE gr[t]
    BY <1>0 DEF Grouped
  <2> HIDE DEF q2
  <2>2. CASE t = s
    BY <2>1, <2>2, <1>3
  <2>3. CASE t # s
    <3>1. gr[t] \in DOMAIN q
      BY <1>0 DEF Grouped
    <3>2. CASE gr[t] = g
      <4>1. t \in L => t \in A \cap L /\ t # s
        BY <2>3, <3>2 DEF A, Mem
      <4>2. t \in L => q2[g].current_split = h
        BY <4>1, <1>10
      <4> QED
        BY <2>1, <2>3, <3>2, <4>2, <1>3
    <3>3. CASE gr[t] = h
      BY <2>1, <2>3, <3>3, <1>5, <1>10
    <3>4. CASE gr[t] # g /\ gr[t] # h
      BY <2>1, <2>3, <3>1, <3>4, <1>9
    <3> QED
      BY <3>2, <3>3, <3>4
  <2> QED
    BY <2>2, <2>3
<1> QED
  BY <1>12, <1>13

\* The homes f once the states of T leave group g for group k.
Halved(f, g, T, k) == [t \in State |-> IF f[t] = g /\ t \in T THEN k ELSE f[t]]

\* The groups q2 are those of q once a split of g has opened group K.
Opening(q, g, K, q2) ==
  q2 = [x \in 0..K |-> IF x = K THEN NewGroup(0, q[g].inv_t_count)
                       ELSE IF x = g THEN [q[x] EXCEPT !.current_split = K]
                       ELSE q[x]]

\* The touched state s of a partly touched group is to open group K.
OpensGroup(n, gr, q, T, L, s, K) ==
  /\ Refining(n, gr, q, T, L)
  /\ s \in L
  /\ q[gr[s]].current_split = None
  /\ q[gr[s]].t_count # q[gr[s]].count /\ q[gr[s]].t_count > 0
  /\ K \in 0..N
  /\ DOMAIN q = 0..(K - 1)

\* All states of group g are at home there; those of them that are touched, which
\* are some but not all, have group K for their home in the groups q2.
Cuts(gr, q, T, L, g, K, q2) ==
  /\ HomeOf(gr, q2, L) = Halved(HomeOf(gr, q, L), g, T, K)
  /\ Mem(HomeOf(gr, q, L), g) = Mem(gr, g)
  /\ Mem(gr, g) \cap T # {} /\ Mem(gr, g) \ T # {}
  /\ \A t \in State : HomeOf(gr, q, L)[t] \in DOMAIN q

(***************************************************************************)
(* A group that is partly touched opens a new one: from now on the touched *)
(* states have it for their home.                                          *)
(***************************************************************************)
LEMMA OpenKeeps ==
  ASSUME NEW n \in Machine(State, Symbol), NEW gr, NEW q, NEW T, NEW L, NEW s, NEW K, NEW q2,
         OpensGroup(n, gr, q, T, L, s, K), NEW g, g = gr[s], Opening(q, g, K, q2)
  PROVE  /\ Refining(n, gr, q2, T, L)
         /\ q2[g].current_split = K /\ K # None
         /\ Cuts(gr, q, T, L, g, K, q2)
<1> DEFINE A == Mem(gr, g)
<1> /\ Refining(n, gr, q, T, L)
    /\ s \in L
    /\ q[g].current_split = None
    /\ q[g].t_count # q[g].count /\ q[g].t_count > 0
    /\ K \in 0..N
    /\ DOMAIN q = 0..(K - 1)
  BY DEF OpensGroup
<1>0. Grouped(gr, q) /\ L \subseteq T /\ T \subseteq State
  BY DEF Refining
<1>1. /\ s \in State /\ s \in T /\ g \in DOMAIN q /\ s \in A /\ ~Opened(q, g)
      /\ Active(n, gr, q, T, L, g) \/ Settled(n, gr, q, T, g)
  BY Visited
<1>2. A \in SUBSET State /\ A \cap T \in SUBSET State /\ Whole(gr, q, g) = A
  BY <1>0, GroupedFacts
<1>3. Active(n, gr, q, T, L, g)
  BY <1>1, <1>2, Card, ArcCount, NewGroupType DEF Settled
<1>4. /\ q[g].count = Cardinality(A) /\ q[g].t_count = Cardinality(A \cap T)
      /\ q[g].inv_count = InCount(n, A) /\ q[g].inv_t_count = InCount(n, A \cap T)
      /\ A \cap T = A \cap L
  BY <1>0, <1>2, <1>3 DEF Active
<1>5. A \ T # {}
  <2>1. A \cap T = A => q[g].t_count = q[g].count
    BY <1>4
  <2> QED
    BY <2>1
<1>6. K \notin DOMAIN q /\ K # None /\ K \in Nat /\ 0..K = DOMAIN q \cup {K}
  BY MinimizeHopAssumption DEF None
<1>7. /\ DOMAIN q2 = DOMAIN q \cup {K}
      /\ \A x \in DOMAIN q : x # g => q2[x] = q[x]
      /\ q2[g] = [q[g] EXCEPT !.current_split = K]
      /\ q2[K] = NewGroup(0, InCount(n, A \cap T))
  BY <1>1, <1>4, <1>6 DEF Opening
<1> HIDE DEF A
<1>8. q[g] \in Counter /\ InCount(n, A \cap T) \in Nat
  BY <1>0, <1>1, <1>2, GroupedFacts, ArcCount
<1>9. /\ q2[g] \in Counter /\ q2[g].current_split = K
      /\ q2[g].count = q[g].count /\ q2[g].t_count = q[g].t_count
      /\ q2[g].inv_count = q[g].inv_count /\ q2[g].inv_t_count = q[g].inv_t_count
      /\ q2[K] \in Counter /\ q2[K].current_split = None
  <2>1. K \in 0..None
    BY MinimizeHopAssumption DEF None
  <2>2. q2[K] \in Counter /\ q2[K].current_split = None
    <3>1. PICK i \in Nat : q2[K] = NewGroup(0, i)
      BY ONLY <1>7, <1>8
    <3>2. NewGroup(0, i) \in Counter /\ NewGroup(0, i).current_split = None
      BY ONLY i \in Nat, 0 \in Nat, NewGroupType
    <3> QED
      BY ONLY <3>1, <3>2
  <2> QED
    BY <2>1, <2>2, <1>7, <1>8 DEF Counter
<1>10. Mem(gr, K) = {} /\ Cardinality(Mem(gr, K)) = 0
  <2>1. Mem(gr, K) = {}
    BY <1>0, <1>6, GroupedFacts DEF Mem
  <2> QED
    BY <2>1, Card
<1>11. Grouped(gr, q2)
  <2>1. \A x \in DOMAIN q2 : q2[x] \in Counter
    BY <1>0, <1>7, <1>9, GroupedFacts
  <2>2. q2 \in [DOMAIN q2 -> Counter]
    BY <2>1 DEF Opening
  <2>3. gr \in [State -> DOMAIN q2]
    BY <1>0, <1>7 DEF Grouped
  <2>4. DOMAIN q2 = 0..K
    BY DEF Opening
  <2> QED
    BY <2>2, <2>3, <2>4 DEF Grouped
<1>12. Active(n, gr, q2, T, L, g) /\ Opened(q2, K)
  <2>1. Whole(gr, q2, g) = A
    BY <1>9, <1>10 DEF Whole, A
  <2>2. HalfDone(n, gr, q2, T, L, g)
    BY <2>1, <1>1, <1>4, <1>5, <1>6, <1>7, <1>9, <1>10 DEF HalfDone, A
  <2> QED
    BY <2>1, <2>2, <1>1, <1>4, <1>7, <1>9 DEF Active, Opened, A
<1>13. ASSUME NEW x \in DOMAIN q, x # g
       PROVE  /\ Active(n, gr, q, T, L, x) => Active(n, gr, q2, T, L, x)
              /\ Settled(n, gr, q, T, x) => Settled(n, gr, q2, T, x)
              /\ Opened(q, x) => Opened(q2, x)
  <2>1. q2[x] = q[x] /\ Whole(gr, q2, x) = Whole(gr, q, x)
    BY <1>7, <1>13 DEF Whole
  <2>2. HalfDone(n, gr, q, T, L, x) => HalfDone(n, gr, q2, T, L, x)
    <3> SUFFICES ASSUME HalfDone(n, gr, q, T, L, x)
                 PROVE  HalfDone(n, gr, q2, T, L, x)
      OBVIOUS
    <3>1. q[x].current_split # g
      BY <1>1 DEF Opened
    <3>2. q2[q[x].current_split] = q[q[x].current_split]
      BY <3>1, <1>7 DEF HalfDone
    <3> QED
      BY <2>1, <3>2, <1>7 DEF HalfDone
  <2>3. Opened(q, x) => Opened(q2, x)
    BY <1>0, <1>7, GroupedFacts DEF Opened
  <2> QED
    BY <2>1, <2>2, <2>3 DEF Active, Settled
<1>14. Refining(n, gr, q2, T, L)
  <2>1. \A x \in DOMAIN q2 : \/ Opened(q2, x)
                             \/ Active(n, gr, q2, T, L, x)
                             \/ Settled(n, gr, q2, T, x)
    BY <1>7, <1>12, <1>13 DEF Refining
  <2>2. \A x \in DOMAIN q2 : q2[x].current_split # None => Active(n, gr, q2, T, L, x)
    BY <1>7, <1>9, <1>12, <1>13 DEF Refining
  <2>3. \A x \in DOMAIN q : q[x].current_split # K
    <3> TAKE x \in DOMAIN q
    <3>1. q[x].current_split # None => q[x].current_split \in DOMAIN q
      BY DEF Refining, Active, HalfDone
    <3> QED
      BY <3>1, <1>6
  <2>4. \A x, y \in DOMAIN q2 :
          q2[x].current_split = q2[y].current_split /\ q2[x].current_split # None => x = y
    <3>1. \A x, y \in DOMAIN q :
            q[x].current_split = q[y].current_split /\ q[x].current_split # None => x = y
      BY DEF Refining
    <3>2. \A x \in DOMAIN q2 :
            /\ x \in DOMAIN q \/ x = K
            /\ x = K => q2[x].current_split = None
            /\ x = g => q2[x].current_split = K
            /\ x # K /\ x # g => /\ q2[x].current_split = q[x].current_split
                                /\ q2[x].current_split # K
      BY ONLY <2>3, <1>1, <1>6, <1>7, <1>9
    <3> TAKE x, y \in DOMAIN q2
    <3>3. CASE x = g \/ y = g
      BY ONLY <3>2, <3>3, <1>1, <1>6
    <3>4. CASE x # g /\ y # g
      BY ONLY <3>1, <3>2, <3>4, x \in DOMAIN q2, y \in DOMAIN q2
    <3> QED
      BY <3>3, <3>4
  <2> QED
    BY <2>1, <2>2, <2>4, <1>0, <1>11 DEF Refining
<1>15. HomeOf(gr, q2, L) =
         [t \in State |-> IF gr[t] = g /\ t \in T THEN K ELSE HomeOf(gr, q, L)[t]]
  <2> SUFFICES ASSUME NEW t \in State
               PROVE  (IF t \in L /\ q2[gr[t]].current_split # None
                       THEN q2[gr[t]].current_split ELSE gr[t])
                      = (IF gr[t] = g /\ t \in T THEN K
                         ELSE IF t \in L /\ q[gr[t]].current_split # None
                              THEN q[gr[t]].current_split ELSE gr[t])
    BY Zenon DEF HomeOf
  <2>1. gr[t] = g /\ t \in T => t \in L
    BY <1>4 DEF A, Mem
  <2>2. gr[t] \in DOMAIN q
    BY <1>0, GroupedFacts
  <2> QED
    BY <2>1, <2>2, <1>0, <1>6, <1>7, <1>9
<1>16. \A t \in State : HomeOf(gr, q, L)[t] \in DOMAIN q
  BY <1>0, GroupedFacts DEF HomeOf, Refining, Active, HalfDone
<1>17. Mem(HomeOf(gr, q, L), g) = A
  <2>1. \A t \in State : HomeOf(gr, q, L)[t] = g <=> gr[t] = g
    <3> TAKE t \in State
    <3>1. gr[t] \in DOMAIN q /\ q[gr[t]].current_split # g
      BY <1>0, <1>1, GroupedFacts DEF Opened
    <3> QED
      BY <3>1 DEF HomeOf
  <2> QED
    BY <2>1 DEF Mem, A
<1>18. HomeOf(gr, q2, L) = Halved(HomeOf(gr, q, L), g, T, K)
  <2>1. \A t \in State : HomeOf(gr, q, L)[t] = g <=> gr[t] = g
    BY <1>17 DEF Mem, A
  <2> DEFINE H == HomeOf(gr, q, L)
  <2> HIDE DEF H
  <2>2. [t \in State |-> IF gr[t] = g /\ t \in T THEN K ELSE H[t]]
          = [t \in State |-> IF H[t] = g /\ t \in T THEN K ELSE H[t]]
    BY ONLY <2>1 DEF H
  <2> QED
    BY ONLY <2>2, <1>15 DEF Halved, H
<1>19. A \cap T # {}
  BY <1>1
<1> QED
  BY ONLY <1>5, <1>6, <1>9, <1>14, <1>16, <1>17, <1>18, <1>19 DEF A, Cuts

\* What a record of counters holds after its touched counts are set.
LEMMA Recount ==
  ASSUME NEW r \in Counter, NEW a \in Nat, NEW b \in Nat
  PROVE  /\ [r EXCEPT !.t_count = a, !.inv_t_count = b] =
              [count |-> r.count, t_count |-> a, inv_count |-> r.inv_count,
               inv_t_count |-> b, current_split |-> r.current_split]
         /\ r.count \in Nat /\ r.inv_count \in Nat /\ r.current_split \in 0..None
<1>1. PICK r2 : r2 = [r EXCEPT !.t_count = a, !.inv_t_count = b]
  OBVIOUS
<1>2. /\ r2 \in Counter
      /\ r2.count = r.count /\ r2.t_count = a
      /\ r2.inv_count = r.inv_count /\ r2.inv_t_count = b
      /\ r2.current_split = r.current_split
  BY <1>1 DEF Counter
<1>3. r2 = [count |-> r.count, t_count |-> a, inv_count |-> r.inv_count,
            inv_t_count |-> b, current_split |-> r.current_split]
  BY ONLY <1>2 DEF Counter
<1>4. r.count \in Nat /\ r.inv_count \in Nat /\ r.current_split \in 0..None
  BY DEF Counter
<1> QED
  BY <1>1, <1>3, <1>4

\* A number that is twice itself is zero.
LEMMA Zero ==
  ASSUME NEW x \in Nat, x = x + x
  PROVE  x = 0
OBVIOUS

\* The groups q2 are those of q with the touched counts of g reset.
Reset(q, g, q2) ==
  /\ q2 \in [DOMAIN q -> Counter]
  /\ \A x \in DOMAIN q : x # g => q2[x] = q[x]
  /\ q2[g].count = q[g].count /\ q2[g].t_count = 0
  /\ q2[g].inv_count = q[g].inv_count /\ q2[g].inv_t_count = 0
  /\ q2[g].current_split = q[g].current_split

\* The first touched state of a group that is touched as a whole resets its counters.
LEMMA KeepKeeps ==
  ASSUME NEW n \in Machine(State, Symbol), NEW gr, NEW q, NEW T, NEW L,
         Refining(n, gr, q, T, L), NEW s \in L,
         q[gr[s]].t_count = q[gr[s]].count,
         NEW q2, Reset(q, gr[s], q2)
  PROVE  /\ Refining(n, gr, q2, T, L \ {s})
         /\ HomeOf(gr, q2, L \ {s}) = HomeOf(gr, q, L)
<1> DEFINE g == gr[s]
           A == Mem(gr, g)
           L2 == L \ {s}
<1>0. Grouped(gr, q) /\ L \subseteq T /\ T \subseteq State
  BY DEF Refining
<1>14. /\ q2 \in [DOMAIN q -> Counter]
       /\ \A x \in DOMAIN q : x # g => q2[x] = q[x]
       /\ q2[g].count = q[g].count /\ q2[g].t_count = 0
       /\ q2[g].inv_count = q[g].inv_count /\ q2[g].inv_t_count = 0
       /\ q2[g].current_split = q[g].current_split
  BY DEF Reset
<1>1. /\ s \in State /\ s \in T /\ g \in DOMAIN q /\ s \in A /\ ~Opened(q, g)
      /\ Active(n, gr, q, T, L, g) \/ Settled(n, gr, q, T, g)
  BY Visited
<1>2. /\ A \in SUBSET State /\ Whole(gr, q, g) \in SUBSET State
      /\ Whole(gr, q, g) \cap T \in SUBSET State /\ A \subseteq Whole(gr, q, g)
  BY <1>0, GroupedFacts DEF Whole
<1>3. Active(n, gr, q, T, L, g)
  BY <1>1, <1>2, Card, ArcCount, NewGroupType DEF Settled
<1>4. A \subseteq T
  <2>1. Cardinality(Whole(gr, q, g) \cap T) = Cardinality(Whole(gr, q, g))
    BY <1>3 DEF Active
  <2>2. Whole(gr, q, g) \cap T = Whole(gr, q, g)
    BY <2>1, <1>2, Card
  <2> QED
    BY <2>2, <1>2
<1>5. q[g].current_split = None
  BY <1>3, <1>4 DEF Active, HalfDone
<1>6. Whole(gr, q, g) = A
  BY <1>0, <1>5, GroupedFacts
<1>7. DOMAIN q2 = DOMAIN q /\ \A x \in DOMAIN q : x # g => q2[x] = q[x]
  BY <1>14
<1>8. q2[g] = NewGroup(Cardinality(A), InCount(n, A))
  <2>1. q[g].count = Cardinality(A) /\ q[g].inv_count = InCount(n, A)
    BY <1>3, <1>6 DEF Active
  <2>2. q2[g] \in Counter
    BY <1>1, <1>14
  <2> QED
    BY <2>1, <2>2, <1>5, <1>14 DEF NewGroup, Counter
<1>9. Settled(n, gr, q2, T, g)
  BY <1>4, <1>8 DEF Settled
<1>10. q2[g] \in Counter /\ q2[g].current_split = None
  <2>1. Cardinality(A) \in Nat /\ InCount(n, A) \in Nat
    BY <1>2, Card, ArcCount
  <2> QED
    BY ONLY <2>1, <1>8, NewGroupType
<1> HIDE DEF A
<1>11. ASSUME NEW x \in DOMAIN q, x # g
       PROVE  /\ Active(n, gr, q, T, L, x) => Active(n, gr, q2, T, L2, x)
              /\ Settled(n, gr, q, T, x) => Settled(n, gr, q2, T, x)
              /\ Opened(q, x) => Opened(q2, x)
  <2>1. q2[x] = q[x] /\ Whole(gr, q2, x) = Whole(gr, q, x)
    BY <1>7, <1>11 DEF Whole
  <2>2. s \notin Mem(gr, x)
    BY <1>11 DEF Mem
  <2>3. HalfDone(n, gr, q, T, L, x) => HalfDone(n, gr, q2, T, L2, x)
    <3> SUFFICES ASSUME HalfDone(n, gr, q, T, L, x)
                 PROVE  HalfDone(n, gr, q2, T, L2, x)
      OBVIOUS
    <3>1. q[x].current_split # g
      BY <1>1 DEF Opened
    <3>2. q2[q[x].current_split] = q[q[x].current_split]
      BY <3>1, <1>7 DEF HalfDone
    <3> QED
      BY <2>1, <2>2, <3>2, <1>7 DEF HalfDone
  <2>4. Opened(q, x) => Opened(q2, x)
    BY <1>0, <1>5, <1>7, GroupedFacts DEF Opened
  <2> QED
    BY <2>1, <2>2, <2>3, <2>4 DEF Active, Settled
<1>12. Refining(n, gr, q2, T, L2)
  <2>1. Grouped(gr, q2)
    <3>1. \A x \in DOMAIN q2 : q2[x] \in Counter
      BY <1>0, <1>7, <1>10, GroupedFacts
    <3>2. q2 \in [DOMAIN q2 -> Counter]
      BY <1>14, <1>7
    <3> QED
      BY <3>2, <1>0, <1>7 DEF Grouped
  <2>2. \A x \in DOMAIN q2 : \/ Opened(q2, x)
                             \/ Active(n, gr, q2, T, L2, x)
                             \/ Settled(n, gr, q2, T, x)
    BY <1>7, <1>9, <1>11 DEF Refining
  <2>3. \A x \in DOMAIN q2 : q2[x].current_split # None => Active(n, gr, q2, T, L2, x)
    BY <1>7, <1>10, <1>11 DEF Refining
  <2>4. \A x, y \in DOMAIN q2 :
          q2[x].current_split = q2[y].current_split /\ q2[x].current_split # None => x = y
    BY <1>7, <1>10 DEF Refining
  <2> QED
    BY <2>1, <2>2, <2>3, <2>4, <1>0 DEF Refining
<1>13. HomeOf(gr, q2, L2) = HomeOf(gr, q, L)
  <2> SUFFICES ASSUME NEW t \in State
               PROVE  (IF t \in L2 /\ q2[gr[t]].current_split # None
                       THEN q2[gr[t]].current_split ELSE gr[t])
                      = (IF t \in L /\ q[gr[t]].current_split # None
                         THEN q[gr[t]].current_split ELSE gr[t])
    BY Zenon DEF HomeOf
  <2>1. gr[t] \in DOMAIN q
    BY <1>0, GroupedFacts
  <2> QED
    BY <2>1, <1>5, <1>7, <1>10
<1> QED
  BY <1>12, <1>13

\* A touched state whose group has been dealt with is passed over.
LEMMA SkipKeeps ==
  ASSUME NEW n \in Machine(State, Symbol), NEW gr, NEW q, NEW T, NEW L,
         Refining(n, gr, q, T, L), NEW s \in L,
         q[gr[s]].t_count # q[gr[s]].count,
         ~(q[gr[s]].count > 1 /\ q[gr[s]].t_count > 0)
  PROVE  /\ Refining(n, gr, q, T, L \ {s})
         /\ HomeOf(gr, q, L \ {s}) = HomeOf(gr, q, L)
<1> DEFINE g == gr[s]
           L2 == L \ {s}
<1>0. Grouped(gr, q) /\ L \subseteq T /\ T \subseteq State
  BY DEF Refining
<1>1. /\ s \in State /\ s \in T /\ g \in DOMAIN q /\ s \in Mem(gr, g) /\ ~Opened(q, g)
      /\ Active(n, gr, q, T, L, g) \/ Settled(n, gr, q, T, g)
  BY Visited
<1>2. ~Active(n, gr, q, T, L, g)
  <2> SUFFICES ASSUME Active(n, gr, q, T, L, g)
               PROVE  FALSE
    OBVIOUS
  <2> DEFINE W == Whole(gr, q, g)
  <2>1. W \in SUBSET State /\ W \cap T \in SUBSET State /\ s \in W \cap T
    BY <1>0, <1>1, GroupedFacts DEF Whole
  <2>2. Cardinality(W \cap T) \in Nat /\ Cardinality(W \cap T) # 0
    BY <2>1, Card
  <2>3. Cardinality(W \cap T) <= Cardinality(W) /\ Cardinality(W) \in Nat
    BY <2>1, Card
  <2>4. q[g].count = Cardinality(W) /\ q[g].t_count = Cardinality(W \cap T)
    BY DEF Active
  <2> HIDE DEF W
  <2> QED
    BY <2>2, <2>3, <2>4
<1>3. Settled(n, gr, q, T, g) /\ q[g].current_split = None
  BY <1>1, <1>2 DEF Refining
<1>4. ASSUME NEW x \in DOMAIN q, x # g, Active(n, gr, q, T, L, x)
      PROVE  Active(n, gr, q, T, L2, x)
  <2>1. s \notin Mem(gr, x)
    BY <1>4 DEF Mem
  <2> QED
    BY <2>1, <1>4 DEF Active, HalfDone
<1>5. Refining(n, gr, q, T, L2)
  BY <1>0, <1>2, <1>3, <1>4 DEF Refining
<1>6. HomeOf(gr, q, L2) = HomeOf(gr, q, L)
  BY <1>3 DEF HomeOf
<1> QED
  BY <1>5, <1>6

\* refine_states returns with every group dealt with.
LEMMA EndKeeps ==
  ASSUME NEW n \in Machine(State, Symbol), NEW gr, NEW q, NEW T, Refining(n, gr, q, T, {})
  PROVE  Quiet(n, gr, q, T, {})
<1>0. Grouped(gr, q) /\ T \subseteq State
  BY DEF Refining
<1>1. \A g \in DOMAIN q : q[g].current_split = None
  BY DEF Refining, Active, HalfDone
<1>2. ASSUME NEW g \in DOMAIN q, Active(n, gr, q, T, {}, g)
      PROVE  Settled(n, gr, q, T, g)
  <2> DEFINE A == Mem(gr, g)
  <2>1. Whole(gr, q, g) = A /\ A \in SUBSET State /\ A \cap T = {}
    BY <1>0, <1>1, <1>2, GroupedFacts DEF Active
  <2>2. Cardinality(A \cap T) = 0
    BY <2>1, Card
  <2>3. InCount(n, A \cap T) = 0
    <3>1. {} \cup {} = {} /\ {} \cap {} = {} /\ {} \in SUBSET State
      OBVIOUS
    <3>2. InCount(n, {}) = InCount(n, {}) + InCount(n, {}) /\ InCount(n, {}) \in Nat
      BY <3>1, ArcCount
    <3>3. InCount(n, {}) = 0
      BY <3>2, Zero
    <3> QED
      BY <3>3, <2>1
  <2>4. q[g] \in Counter
    BY <1>0, GroupedFacts
  <2>5. /\ q[g].count = Cardinality(A) /\ q[g].t_count = 0
        /\ q[g].inv_count = InCount(n, A) /\ q[g].inv_t_count = 0
        /\ q[g].current_split = None
    BY <2>1, <2>2, <2>3, <1>1, <1>2 DEF Active
  <2>6. q[g] = NewGroup(Cardinality(A), InCount(n, A))
    BY <2>4, <2>5 DEF NewGroup, Counter
  <2> QED
    BY <2>1, <2>6 DEF Settled
<1>3. \A g \in DOMAIN q : ~Opened(q, g)
  BY <1>0, <1>1, GroupedFacts DEF Opened
<1> QED
  BY <1>0, <1>2, <1>3 DEF Quiet, Refining

\* In a quiet state every state is at home where it is.
LEMMA QuietHome ==
  ASSUME NEW n \in Machine(State, Symbol), NEW gr, NEW q, NEW T, NEW L, Quiet(n, gr, q, T, L)
  PROVE  /\ HomeOf(gr, q, L) = gr
         /\ \A g \in DOMAIN q :
              /\ q[g].count = Cardinality(Mem(gr, g)) /\ q[g].t_count = 0
              /\ q[g].inv_count = InCount(n, Mem(gr, g)) /\ q[g].inv_t_count = 0
              /\ q[g].current_split = None
<1>1. HomeOf(gr, q, L) = gr
  BY DEF HomeOf, Quiet, Grouped
<1>2. ASSUME NEW g \in DOMAIN q
      PROVE  /\ q[g].count = Cardinality(Mem(gr, g)) /\ q[g].t_count = 0
             /\ q[g].inv_count = InCount(n, Mem(gr, g)) /\ q[g].inv_t_count = 0
             /\ q[g].current_split = None
  <2>1. Mem(gr, g) \in SUBSET State
    BY DEF Mem
  <2>2. q[g] = NewGroup(Cardinality(Mem(gr, g)), InCount(n, Mem(gr, g)))
    BY DEF Quiet, Settled
  <2> QED
    BY <2>1, <2>2, Card, ArcCount, NewGroupType
<1> QED
  BY <1>1, <1>2

\* The groups q2 are those of q with the states of move counted as touched.
Touching(n, gr, q, move, q2) ==
  q2 = [g \in DOMAIN q |->
          [q[g] EXCEPT !.t_count = @ + Cardinality(move \cap Mem(gr, g)),
                       !.inv_t_count = @ + InCount(n, move \cap Mem(gr, g))]]

\* A symbol starts with the touched states counted for every group.
LEMMA StartKeeps ==
  ASSUME NEW n \in Machine(State, Symbol), NEW gr, NEW q, NEW T, NEW L,
         Quiet(n, gr, q, T, L), NEW move \in SUBSET State,
         NEW q2, Touching(n, gr, q, move, q2)
  PROVE  /\ Refining(n, gr, q2, move, move)
         /\ HomeOf(gr, q2, move) = gr
<1>0. Grouped(gr, q)
  BY DEF Quiet
<1>6. \A g \in DOMAIN q :
        /\ q[g].count = Cardinality(Mem(gr, g)) /\ q[g].t_count = 0
        /\ q[g].inv_count = InCount(n, Mem(gr, g)) /\ q[g].inv_t_count = 0
        /\ q[g].current_split = None
  BY ONLY Quiet(n, gr, q, T, L), n \in Machine(State, Symbol), QuietHome
<1>1. ASSUME NEW g \in DOMAIN q
      PROVE  /\ q2[g] \in Counter /\ q2[g].current_split = None
             /\ Active(n, gr, q2, move, move, g)
  <2> DEFINE A == Mem(gr, g)
  <2>1. A \in SUBSET State /\ move \cap A \in SUBSET State
    BY <1>0, GroupedFacts
  <2>2. /\ q[g].count = Cardinality(A) /\ q[g].t_count = 0
        /\ q[g].inv_count = InCount(n, A) /\ q[g].inv_t_count = 0
        /\ q[g].current_split = None
    BY <1>6
  <2>3. q[g] \in Counter
    BY <1>0, GroupedFacts
  <2>4. /\ Cardinality(move \cap A) \in Nat /\ InCount(n, move \cap A) \in Nat
    BY <2>1, Card, ArcCount
  <2>5. q2[g] = [q[g] EXCEPT !.t_count = @ + Cardinality(move \cap A),
                             !.inv_t_count = @ + InCount(n, move \cap A)]
    BY DEF Touching
  <2> HIDE DEF A
  <2>8. \A x \in Nat : 0 + x = x
    BY ONLY TRUE
  <2>9. q2[g] = [q[g] EXCEPT !.t_count = Cardinality(move \cap A),
                             !.inv_t_count = InCount(n, move \cap A)]
    BY <2>2, <2>4, <2>5, <2>8
  <2>6. /\ q2[g] \in Counter /\ q2[g].current_split = None
        /\ q2[g].count = Cardinality(A) /\ q2[g].t_count = Cardinality(move \cap A)
        /\ q2[g].inv_count = InCount(n, A) /\ q2[g].inv_t_count = InCount(n, move \cap A)
    <3>1. q2[g] = [count |-> q[g].count, t_count |-> Cardinality(move \cap A),
                   inv_count |-> q[g].inv_count, inv_t_count |-> InCount(n, move \cap A),
                   current_split |-> q[g].current_split]
      <4>1. PICK r \in Counter, a \in Nat, b \in Nat :
              r = q[g] /\ a = Cardinality(move \cap A) /\ b = InCount(n, move \cap A)
        BY <2>3, <2>4
      <4>2. [r EXCEPT !.t_count = a, !.inv_t_count = b] =
              [count |-> r.count, t_count |-> a, inv_count |-> r.inv_count,
               inv_t_count |-> b, current_split |-> r.current_split]
        BY ONLY r \in Counter, a \in Nat, b \in Nat, Recount
      <4> QED
        BY ONLY <2>9, <4>1, <4>2
    <3>2. q[g].count \in Nat /\ q[g].inv_count \in Nat /\ q[g].current_split \in 0..None
      BY ONLY <2>3, Recount, 0 \in Nat
    <3> QED
      BY ONLY <2>2, <2>4, <3>1, <3>2 DEF Counter
  <2>7. Whole(gr, q2, g) = A /\ A \cap move = move \cap A
    BY <2>6, <1>0, GroupedFacts DEF Whole, A
  <2> QED
    BY <2>6, <2>7 DEF Active, A
<1>2. DOMAIN q2 = DOMAIN q
  BY DEF Touching
<1>3. Grouped(gr, q2)
  <2>1. q2 \in [DOMAIN q2 -> Counter]
    BY <1>1, <1>2 DEF Touching
  <2> QED
    BY <2>1, <1>0, <1>2 DEF Grouped
<1>4. Refining(n, gr, q2, move, move)
  <2> HIDE <1>0
  <2> QED
    BY <1>1, <1>2, <1>3 DEF Refining
<1>5. HomeOf(gr, q2, move) = gr
  <2>1. \A t \in State : q2[gr[t]].current_split = None
    BY <1>0, <1>1, GroupedFacts
  <2> QED
    BY <2>1, <1>0 DEF HomeOf, Grouped
<1> QED
  BY <1>4, <1>5

-----------------------------------------------------------------------------

\* The agenda r, of groups of S, is ag with an entry more.
Added(S, ag, x, i, r) ==
  /\ r \in Seq([p : S, index : {0, 1}])
  /\ Len(r) = Len(ag) + 1
  /\ Entries(r) = Entries(ag) \cup {<<x, i>>}
  /\ \A y : Queued(r, y) <=> (y = x \/ Queued(ag, y))
  /\ Distinct(ag) /\ ~Queued(ag, x) => Distinct(r)

\* An entry put at the head of the agenda.
LEMMA AddFacts ==
  ASSUME NEW S, NEW ag \in Seq([p : S, index : {0, 1}]), NEW x \in S, NEW i \in {0, 1},
         NEW r, r = AgendaAdd(ag, x, i)
  PROVE  Added(S, ag, x, i, r)
<1> DEFINE e == [p |-> x, index |-> i]
<1>1. r = <<e>> \o ag /\ <<e>> \in Seq([p : S, index : {0, 1}])
  BY DEF AgendaAdd
<1>2. /\ r \in Seq([p : S, index : {0, 1}])
      /\ Len(r) = Len(ag) + 1
      /\ \A k \in 1..Len(r) : r[k] = IF k = 1 THEN e ELSE ag[k - 1]
  BY <1>1
<1>3. /\ DOMAIN r = 1..(Len(ag) + 1) /\ DOMAIN ag = 1..Len(ag) /\ Len(ag) \in Nat
      /\ r[1] = e
      /\ \A k \in DOMAIN ag : k + 1 \in DOMAIN r /\ r[k + 1] = ag[k]
      /\ \A k \in DOMAIN r : k = 1 \/ (k - 1 \in DOMAIN ag /\ r[k] = ag[k - 1])
      /\ 1 \in DOMAIN r
  BY <1>2
<1>4. e.p = x /\ e.index = i
  OBVIOUS
<1> HIDE DEF e
<1>5. \A y : Queued(r, y) <=> (y = x \/ Queued(ag, y))
  BY <1>3, <1>4 DEF Queued
<1>6. Entries(r) = Entries(ag) \cup {<<x, i>>}
  <2>1. \A d \in Entries(r) : d \in Entries(ag) \/ d = <<x, i>>
    BY <1>3, <1>4 DEF Entries
  <2>2. \A d \in Entries(ag) : d \in Entries(r)
    BY <1>3 DEF Entries
  <2>3. <<x, i>> \in Entries(r)
    BY <1>3, <1>4 DEF Entries
  <2> QED
    BY <2>1, <2>2, <2>3
<1>7. ASSUME Distinct(ag), ~Queued(ag, x)
      PROVE  Distinct(r)
  <2> SUFFICES ASSUME NEW j \in DOMAIN r, NEW k \in DOMAIN r, r[j].p = r[k].p
               PROVE  j = k
    BY DEF Distinct
  <2>1. j \in Nat /\ k \in Nat
    BY <1>3
  <2>2. CASE j = 1 \/ k = 1
    BY <2>2, <1>3, <1>4, <1>7 DEF Queued
  <2>3. CASE j # 1 /\ k # 1
    <3>1. j - 1 = k - 1
      BY <2>3, <1>3, <1>7 DEF Distinct
    <3> QED
      BY <3>1, <2>1
  <2> QED
    BY <2>2, <2>3
<1> QED
  BY ONLY <1>2, <1>5, <1>6, <1>7 DEF Added

\* The head of the agenda taken off.
LEMMA PopFacts ==
  ASSUME NEW S, NEW ag \in Seq([p : S, index : {0, 1}]), ag # <<>>
  PROVE  /\ Tail(ag) \in Seq([p : S, index : {0, 1}])
         /\ Head(ag) \in [p : S, index : {0, 1}]
         /\ Entries(ag) = Entries(Tail(ag)) \cup {<<Head(ag).p, Head(ag).index>>}
         /\ Distinct(ag) => Distinct(Tail(ag)) /\ ~Queued(Tail(ag), Head(ag).p)
<1> DEFINE t == Tail(ag)
           X == [p : S, index : {0, 1}]
<1>1. /\ t \in Seq(X) /\ Head(ag) \in X
      /\ Len(ag) \in Nat /\ Len(ag) >= 1 /\ Len(t) = Len(ag) - 1
      /\ Head(ag) = ag[1]
      /\ \A k \in 1..Len(t) : t[k] = ag[k + 1]
  <2> HIDE DEF X
  <2>1. ag \in Seq(X) /\ Len(ag) \in Nat /\ Len(ag) >= 1
    <3>1. ag \in Seq(X)
      BY DEF X
    <3>2. Len(ag) \in Nat /\ Len(ag) # 0
      BY <3>1
    <3> QED
      BY <3>1, <3>2
  <2>2. t \in Seq(X) /\ Len(t) = Len(ag) - 1
    BY <2>1
  <2>3. Head(ag) = ag[1] /\ ag[1] \in X
    BY <2>1
  <2>4. \A k \in 1..Len(t) : t[k] = ag[k + 1]
    BY <2>1
  <2> QED
    BY <2>1, <2>2, <2>3, <2>4
<1>2. /\ DOMAIN ag = 1..Len(ag) /\ 1 \in DOMAIN ag
      /\ \A k \in DOMAIN t : k \in Nat /\ k # 0 /\ k + 1 \in DOMAIN ag /\ t[k] = ag[k + 1]
      /\ \A k \in DOMAIN ag : k \in Nat /\ (k = 1 \/ (k - 1 \in DOMAIN t /\ t[k - 1] = ag[k]))
  <2> HIDE DEF t
  <2>1. DOMAIN t = 1..Len(t)
    BY <1>1
  <2> QED
    BY <2>1, <1>1
<1> HIDE DEF t
<1>3. Entries(ag) = Entries(t) \cup {<<Head(ag).p, Head(ag).index>>}
  <2>1. ASSUME NEW d \in Entries(ag)
        PROVE  d \in Entries(t) \/ d = <<Head(ag).p, Head(ag).index>>
    <3>1. PICK k \in DOMAIN ag : d = <<ag[k].p, ag[k].index>>
      BY DEF Entries
    <3>2. k = 1 \/ (k - 1 \in DOMAIN t /\ t[k - 1] = ag[k])
      BY <1>2
    <3> QED
      BY <3>1, <3>2, <1>1 DEF Entries
  <2>2. \A d \in Entries(t) : d \in Entries(ag)
    BY <1>2 DEF Entries
  <2>3. <<Head(ag).p, Head(ag).index>> \in Entries(ag)
    BY <1>1, <1>2 DEF Entries
  <2> QED
    BY <2>1, <2>2, <2>3
<1>4. ASSUME Distinct(ag)
      PROVE  Distinct(t) /\ ~Queued(t, Head(ag).p)
  <2>1. ASSUME NEW k \in DOMAIN t
        PROVE  t[k].p # Head(ag).p
    <3>1. k + 1 \in DOMAIN ag /\ k + 1 # 1 /\ t[k] = ag[k + 1]
      BY <1>2
    <3> QED
      BY <3>1, <1>1, <1>2, <1>4 DEF Distinct
  <2>2. ASSUME NEW j \in DOMAIN t, NEW k \in DOMAIN t, t[j].p = t[k].p
        PROVE  j = k
    <3>1. j + 1 = k + 1
      BY <2>2, <1>2, <1>4 DEF Distinct
    <3> QED
      BY <3>1, <1>2
  <2> QED
    BY <2>1, <2>2 DEF Distinct, Queued
<1> QED
  BY <1>1, <1>3, <1>4 DEF t

-----------------------------------------------------------------------------

BlocksOf(f) == {Mem(f, f[s]) : s \in State}
Singles == {{s} : s \in State}

\* The abstract state in the terms used here.
View ==
  /\ \A s \in State : Home(s) = home[s]
  /\ AbsBlocks = IF total_states = N THEN Singles ELSE BlocksOf(home)
  /\ \A w \in AbsWork : w = <<w[1], w[2]>>
  /\ \A B, a : <<B, a>> \in AbsWork <=> Owes(net, home, todo, Debts, B, a)

LEMMA Viewed == View
<1>1. \A s \in State : Home(s) = home[s]
  BY DEF Home, home, HomeOf
<1>2. \A g : Extent(g) = Mem(home, g)
  BY <1>1 DEF Extent, Mem
<1>3. AbsBlocks = IF total_states = N THEN Singles ELSE BlocksOf(home)
  BY <1>1, <1>2 DEF AbsBlocks, Aborted, Singles, BlocksOf
<1> DEFINE Owed(d) == OwedFrom(d[1], d[2])
<1>4. AbsWork = UNION {Owed(d) : d \in Debts}
  <2>1. CASE pc \in {"rebuild", "done"}
    BY <2>1 DEF AbsWork, Debts
  <2>2. CASE pc \notin {"rebuild", "done"}
    <3>1. OnAgenda(current_w) <=> Queued(agenda, current_w)
      BY DEF OnAgenda, Queued
    <3> DEFINE Owing == {OwedFrom(agenda[k].p, agenda[k].index) : k \in DOMAIN agenda}
    <3>2. Owing = {Owed(d) : d \in Entries(agenda)}
      <4>1. \A k \in DOMAIN agenda : /\ <<agenda[k].p, agenda[k].index>> \in Entries(agenda)
                                    /\ OwedFrom(agenda[k].p, agenda[k].index)
                                         = Owed(<<agenda[k].p, agenda[k].index>>)
        BY DEF Entries
      <4>2. \A d \in Entries(agenda) : \E k \in DOMAIN agenda :
              d = <<agenda[k].p, agenda[k].index>>
        BY DEF Entries
      <4> HIDE DEF Owed
      <4>3. \A x \in Owing : x \in {Owed(d) : d \in Entries(agenda)}
        BY <4>1
      <4>4. \A x \in {Owed(d) : d \in Entries(agenda)} : x \in Owing
        BY <4>1, <4>2
      <4> QED
        BY <4>3, <4>4
    <3>3. OwedFrom(current_w, 1) = Owed(<<current_w, 1>>)
      OBVIOUS
    <3> DEFINE InUse == pc \in {"symbols", "refine"} /\ ~Queued(agenda, current_w)
    <3>4. AbsWork = (UNION Owing) \cup (IF InUse THEN Owed(<<current_w, 1>>) ELSE {})
      BY <2>2, <3>1, <3>3 DEF AbsWork
    <3>5. Debts = Entries(agenda) \cup (IF InUse THEN {<<current_w, 1>>} ELSE {})
      BY <2>2 DEF Debts
    <3> HIDE DEF Owed, Owing, InUse
    <3>6. \A w : w \in UNION Owing <=> \E d \in Entries(agenda) : w \in Owed(d)
      BY <3>2
    <3>7. \A w : w \in AbsWork <=> \E d \in Debts : w \in Owed(d)
      <4>1. CASE InUse
        <5> DEFINE c == <<current_w, 1>>
        <5>1. AbsWork = (UNION Owing) \cup Owed(c) /\ Debts = Entries(agenda) \cup {c}
          BY <4>1, <3>4, <3>5
        <5> HIDE DEF c
        <5> SUFFICES ASSUME NEW w
                     PROVE  w \in AbsWork <=> \E d \in Debts : w \in Owed(d)
          OBVIOUS
        <5>2. w \in AbsWork <=> w \in UNION Owing \/ w \in Owed(c)
          BY <5>1
        <5>3. (\E d \in Debts : w \in Owed(d)) <=>
                (\E d \in Entries(agenda) : w \in Owed(d)) \/ w \in Owed(c)
          BY <5>1
        <5> QED
          BY <5>2, <5>3, <3>6
      <4>2. CASE ~InUse
        BY <4>2, <3>4, <3>5, <3>6
      <4> QED
        BY <4>1, <4>2
    <3> QED
      BY <3>7
  <2> QED
    BY <2>1, <2>2
<1>5. \A w \in AbsWork : w = <<w[1], w[2]>>
  BY <1>4 DEF OwedFrom
<1>6. ASSUME NEW B, NEW a
      PROVE  <<B, a>> \in AbsWork <=> Owes(net, home, todo, Debts, B, a)
  <2>1. \A s : InSyms(s) = Syms(net, s)
    BY DEF InSyms, Syms
  <2>2. ASSUME NEW d
        PROVE  <<B, a>> \in Owed(d) <=>
                 \E s \in Mem(home, d[1]) :
                   B = Mem(home, d[1]) /\ a \in (IF d[2] = 0 THEN Syms(net, s) ELSE todo[s])
    BY <1>2, <2>1 DEF OwedFrom
  <2> HIDE DEF Owed
  <2> QED
    BY <1>4, <2>2 DEF Owes
<1> QED
  BY <1>1, <1>3, <1>5, <1>6 DEF View

\* The view holds of the next state as well.
LEMMA ViewedNext == View'
BY Viewed, PTL

-----------------------------------------------------------------------------

\* What the invariant says of the lists, for the proofs below.
LEMMA InvFacts ==
  ASSUME HopInv
  PROVE  /\ net \in Machine(State, Symbol)
         /\ Grouped(group, p)
         /\ home \in [State -> Nat]
         /\ \A s \in State : group[s] \in DOMAIN p
         /\ None \notin DOMAIN p /\ DOMAIN p \subseteq Nat
         /\ \A s \in State : todo[s] \subseteq Symbol /\ Syms(net, s) \subseteq Symbol
         /\ pc \in {"agenda", "symbols"} => /\ Quiet(net, group, p, temp_move, left)
                                            /\ home = group /\ left = {}
<1>1. net \in Machine(State, Symbol) /\ Grouped(group, p) /\ todo \in [State -> SUBSET Symbol]
  BY DEF HopInv, Types, Groups
<1>2. /\ \A s \in State : group[s] \in DOMAIN p
      /\ None \notin DOMAIN p /\ DOMAIN p \subseteq Nat
      /\ \A g \in DOMAIN p : p[g].current_split \in Nat
  <2>1. PICK k \in 0..N : DOMAIN p = 0..k
    BY <1>1 DEF Grouped
  <2>2. \A g \in DOMAIN p : p[g] \in Counter
    BY <1>1, GroupedFacts
  <2>3. \A x : x \in 0..None => x \in Nat
    BY MinimizeHopAssumption DEF None
  <2> QED
    BY <2>1, <2>2, <2>3, <1>1, GroupedFacts DEF Counter
<1>3. home \in [State -> Nat]
  BY <1>2 DEF home, HomeOf
<1>4. pc \in {"agenda", "symbols"} => /\ Quiet(net, group, p, temp_move, left)
                                     /\ home = group /\ left = {}
  <2> SUFFICES ASSUME pc \in {"agenda", "symbols"}
               PROVE  /\ Quiet(net, group, p, temp_move, left)
                      /\ home = group /\ left = {}
    OBVIOUS
  <2>1. Quiet(net, group, p, temp_move, left)
    BY DEF HopInv, Groups
  <2>2. HomeOf(group, p, left) = group
    BY ONLY <2>1, <1>1, QuietHome
  <2> QED
    BY <2>1, <2>2 DEF home, Quiet
<1> QED
  BY <1>1, <1>2, <1>3, <1>4, ArcCount

\* A step that moves no state's home and pays no debt is no step of Hopcroft.
LEMMA Stutters ==
  ASSUME net' = net, temp_move' = temp_move, home' = home, total_states' = total_states,
         \A B, a : Owes(net', home', todo', Debts', B, a) <=> Owes(net, home, todo, Debts, B, a)
  PROVE  UNCHANGED Abs!vars
<1>1. AbsBlocks' = AbsBlocks
  <2>1. AbsBlocks = IF total_states = N THEN Singles ELSE BlocksOf(home)
    BY Viewed DEF View
  <2>2. AbsBlocks' = IF total_states' = N THEN Singles ELSE BlocksOf(home')
    BY ViewedNext DEF View, Singles, BlocksOf, Mem
  <2> QED
    BY <2>1, <2>2
<1>2. AbsWork' = AbsWork
  <2>1. /\ \A w \in AbsWork : w = <<w[1], w[2]>>
        /\ \A B, a : <<B, a>> \in AbsWork <=> Owes(net, home, todo, Debts, B, a)
    BY Viewed DEF View
  <2>2. /\ \A w \in AbsWork' : w = <<w[1], w[2]>>
        /\ \A B, a : <<B, a>> \in AbsWork' <=> Owes(net', home', todo', Debts', B, a)
    BY ViewedNext DEF View
  <2>3. \A w : w \in AbsWork' <=> w \in AbsWork
    BY <2>1, <2>2
  <2> QED
    BY <2>3
<1> QED
  BY <1>1, <1>2 DEF Abs!vars

\* The steps of refine_states that move no state's home.
LEMMA RefineStep ==
  ASSUME HopInv, pc = "refine",
         Refining(net, group', p', temp_move, left'),
         HomeOf(group', p', left') = HomeOf(group, p, left),
         DOMAIN p' = DOMAIN p,
         UNCHANGED <<net, agenda, used, todo, current_w, temp_move, selfsplit,
                     total_states, pc, result>>
  PROVE  HopInv' /\ [Abs!Next]_(Abs!vars)
<1>1. home' = home
  BY DEF home
<1>2. Debts' = Debts
  BY DEF Debts, Entries, Queued
<1>3. UNCHANGED Abs!vars
  BY <1>1, <1>2, Stutters
<1>4. Types'
  BY DEF HopInv, Types, Entry
<1>5. Groups'
  <2>1. Grouped(group', p')
    BY DEF Refining
  <2>2. \A g \in DOMAIN p' : p'[g].t_count <= p'[g].count
    BY InvFacts, CountsBounded
  <2> QED
    BY <2>1, <2>2 DEF Groups
<1>6. Totals'
  BY <1>1 DEF HopInv, Totals, ArenasSuffice
<1>7. Queue'
  BY DEF HopInv, Queue, Distinct, Queued
<1>8. Tails'
  BY <1>1, <1>2 DEF HopInv, Tails
<1> QED
  BY <1>3, <1>4, <1>5, <1>6, <1>7, <1>8 DEF HopInv

\* A group touched as a whole is kept.
LEMMA KeepGroupInv ==
  ASSUME HopInv, NEW s \in left, KeepGroup(s)
  PROVE  HopInv' /\ [Abs!Next]_(Abs!vars)
<1>1. Refining(net, group, p, temp_move, left) /\ net \in Machine(State, Symbol)
  BY DEF HopInv, Groups, Types, KeepGroup
<1>2. /\ p[group[s]].t_count = p[group[s]].count
      /\ p' = [p EXCEPT ![group[s]].t_count = 0, ![group[s]].inv_t_count = 0]
      /\ left' = left \ {s} /\ group' = group
  BY DEF KeepGroup
<1> DEFINE g == group[s]
<1>4. DOMAIN p' = DOMAIN p
  BY <1>2
<1>5. g \in DOMAIN p /\ p \in [DOMAIN p -> Counter] /\ p[g] \in Counter
  BY <1>1, Visited, GroupedFacts DEF Refining, Grouped
<1>6. p'[g] = [p[g] EXCEPT !.t_count = 0, !.inv_t_count = 0]
  BY <1>2, <1>5
<1>7. /\ p'[g] = [count |-> p[g].count, t_count |-> 0, inv_count |-> p[g].inv_count,
                  inv_t_count |-> 0, current_split |-> p[g].current_split]
      /\ p[g].count \in Nat /\ p[g].inv_count \in Nat /\ p[g].current_split \in 0..None
  <2>1. PICK r \in Counter : r = p[g]
    BY ONLY <1>5
  <2>2. r.count \in Nat /\ r.inv_count \in Nat /\ r.current_split \in 0..None
    BY ONLY r \in Counter DEF Counter
  <2>3. [r EXCEPT !.t_count = 0, !.inv_t_count = 0] =
          [count |-> r.count, t_count |-> 0, inv_count |-> r.inv_count,
           inv_t_count |-> 0, current_split |-> r.current_split]
    BY ONLY r \in Counter, 0 \in Nat, Recount
  <2> QED
    BY ONLY <1>6, <2>1, <2>2, <2>3
<1>8. /\ p'[g] \in Counter
      /\ p'[g].count = p[g].count /\ p'[g].t_count = 0
      /\ p'[g].inv_count = p[g].inv_count /\ p'[g].inv_t_count = 0
      /\ p'[g].current_split = p[g].current_split
  BY ONLY <1>7, 0 \in Nat DEF Counter
<1>9. \A x \in DOMAIN p : x # g => p'[x] = p[x]
  BY <1>2, <1>5
<1>10. p' \in [DOMAIN p -> Counter]
  <2>1. p' = [x \in DOMAIN p |-> p'[x]]
    BY <1>2
  <2>2. \A x \in DOMAIN p : p'[x] \in Counter
    BY <1>5, <1>8, <1>9
  <2> QED
    BY ONLY <2>1, <2>2
<1>3. /\ Refining(net, group, p', temp_move, left \ {s})
      /\ HomeOf(group, p', left \ {s}) = HomeOf(group, p, left)
  <2>1. Reset(p, g, p')
    BY <1>8, <1>9, <1>10 DEF Reset
  <2> QED
    BY ONLY <2>1, <1>1, <1>2, s \in left, KeepKeeps
<1> QED
  BY <1>2, <1>3, <1>4, RefineStep DEF KeepGroup

\* A group that has been dealt with is passed over.
LEMMA SkipStateInv ==
  ASSUME HopInv, NEW s \in left, SkipState(s)
  PROVE  HopInv' /\ [Abs!Next]_(Abs!vars)
<1>1. Refining(net, group, p, temp_move, left) /\ net \in Machine(State, Symbol)
  BY DEF HopInv, Groups, Types, SkipState
<1>2. /\ p[group[s]].t_count # p[group[s]].count
      /\ ~(p[group[s]].count > 1 /\ p[group[s]].t_count > 0)
      /\ p' = p /\ left' = left \ {s} /\ group' = group
  BY DEF SkipState, Splits
<1>3. /\ Refining(net, group, p, temp_move, left \ {s})
      /\ HomeOf(group, p, left \ {s}) = HomeOf(group, p, left)
  BY <1>1, <1>2, SkipKeeps
<1> QED
  BY <1>2, <1>3, RefineStep DEF SkipState

\* A further state moves to the group its own has opened.
LEMMA SplitMoreInv ==
  ASSUME HopInv, NEW s \in left, SplitMore(s)
  PROVE  HopInv' /\ [Abs!Next]_(Abs!vars)
<1>1. Refining(net, group, p, temp_move, left) /\ net \in Machine(State, Symbol)
  BY DEF HopInv, Groups, Types, SplitMore
<1> DEFINE h == p[group[s]].current_split
<1>2. /\ h # None
      /\ group' = [group EXCEPT ![s] = h]
      /\ p' = CountMoved(p, group[s], h)
      /\ left' = left \ {s}
  BY DEF SplitMore
<1>3. /\ Refining(net, group', p', temp_move, left \ {s})
      /\ HomeOf(group', p', left \ {s}) = HomeOf(group, p, left)
  <2>1. group \in [State -> DOMAIN p] /\ s \in State
    BY <1>1 DEF Refining, Grouped
  <2>2. group' = [t \in State |-> IF t = s THEN h ELSE group[t]]
    BY <2>1, <1>2
  <2>3. MovedTo(group, s, h, group')
    BY ONLY <2>2 DEF MovedTo
  <2> QED
    BY ONLY <1>1, <1>2, <2>3, s \in left, MoveKeeps
<1>4. DOMAIN p' = DOMAIN p
  BY <1>2 DEF CountMoved
<1> QED
  BY <1>2, <1>3, <1>4, RefineStep DEF SplitMore

\* refine_states returns.
LEMMA EndRefineInv ==
  ASSUME HopInv, EndRefine
  PROVE  HopInv' /\ [Abs!Next]_(Abs!vars)
<1>0. /\ pc = "refine" /\ left = {}
      /\ pc' = IF selfsplit THEN "agenda" ELSE "symbols"
      /\ net' = net /\ group' = group /\ p' = p /\ agenda' = agenda /\ used' = used
      /\ todo' = todo /\ current_w' = current_w /\ temp_move' = temp_move /\ left' = left
      /\ selfsplit' = selfsplit /\ total_states' = total_states /\ result' = result
  BY DEF EndRefine
<1>1. home' = home
  BY <1>0 DEF home
<1>2. selfsplit <=> Queued(agenda, current_w)
  BY <1>0 DEF HopInv, Queue
<1>3. Debts' = Debts
  BY <1>0, <1>2 DEF Debts, Entries, Queued
<1>4. UNCHANGED Abs!vars
  BY <1>0, <1>1, <1>3, Stutters
<1>5. Types'
  BY <1>0 DEF HopInv, Types, Entry
<1>6. Groups'
  <2>1. Refining(net, group, p, temp_move, {})
    BY <1>0 DEF HopInv, Groups
  <2>2. Quiet(net, group, p, temp_move, {})
    BY <2>1, InvFacts, EndKeeps
  <2> QED
    BY <2>2, <1>0 DEF HopInv, Groups
<1>7. Totals'
  BY <1>0, <1>1 DEF HopInv, Totals, ArenasSuffice
<1>8. Queue'
  BY <1>0, <1>2 DEF HopInv, Queue, Distinct, Queued
<1>9. Tails'
  BY <1>0, <1>1, <1>3 DEF HopInv, Tails
<1> QED
  BY <1>4, <1>5, <1>6, <1>7, <1>8, <1>9 DEF HopInv

\* The splitter in use owes nothing more.
LEMMA SymbolsDoneInv ==
  ASSUME HopInv, SymbolsDone
  PROVE  HopInv' /\ [Abs!Next]_(Abs!vars)
<1>0. /\ pc = "symbols" /\ Pending = {} /\ pc' = "agenda"
      /\ net' = net /\ group' = group /\ p' = p /\ agenda' = agenda /\ used' = used
      /\ todo' = todo /\ current_w' = current_w /\ temp_move' = temp_move /\ left' = left
      /\ selfsplit' = selfsplit /\ total_states' = total_states /\ result' = result
  BY DEF SymbolsDone
<1>1. home' = home
  BY <1>0 DEF home
<1>2. Debts' = Entries(agenda) /\ Debts = Entries(agenda) \cup {<<current_w, 1>>}
  BY <1>0 DEF Debts, Entries, Queued, HopInv, Queue
<1>3. \A s \in Mem(home, current_w) : todo[s] = {}
  <2>1. home = group
    BY <1>0, InvFacts
  <2> QED
    BY <1>0, <2>1 DEF Pending, Members, Mem
<1>4. ASSUME NEW B, NEW a
      PROVE  Owes(net', home', todo', Debts', B, a) <=> Owes(net, home, todo, Debts, B, a)
  <2>1. Owes(net, home, todo, {<<current_w, 1>>}, B, a) => FALSE
    BY <1>3 DEF Owes
  <2>2. Owes(net, home, todo, Debts, B, a) <=> Owes(net, home, todo, Entries(agenda), B, a)
    BY <1>2, <2>1 DEF Owes
  <2> QED
    BY <2>2, <1>0, <1>1, <1>2
<1>5. UNCHANGED Abs!vars
  BY <1>0, <1>1, <1>4, Stutters
<1>6. Types'
  BY <1>0 DEF HopInv, Types, Entry
<1>7. Groups'
  BY <1>0 DEF HopInv, Groups
<1>8. Totals'
  BY <1>0, <1>1 DEF HopInv, Totals, ArenasSuffice
<1>9. Queue'
  BY <1>0 DEF HopInv, Queue, Distinct, Queued
<1>10. Tails'
  BY <1>0, <1>1, <1>2 DEF HopInv, Tails
<1> QED
  BY <1>5, <1>6, <1>7, <1>8, <1>9, <1>10 DEF HopInv

\* What d owes.
OwedBy(n, f, td, d, B, a) ==
  \E s \in Mem(f, d[1]) :
    B = Mem(f, d[1]) /\ a \in (IF d[2] = 0 THEN Syms(n, s) ELSE td[s])

\* What two sets of debts owe together.
LEMMA OwesUnion ==
  /\ \A n, f, td, B, a, D, E :
       Owes(n, f, td, D \cup E, B, a) <=> Owes(n, f, td, D, B, a) \/ Owes(n, f, td, E, B, a)
  /\ \A n, f, td, B, a, d : Owes(n, f, td, {d}, B, a) <=> OwedBy(n, f, td, d, B, a)
  /\ \A n, f, td, B, a, D : Owes(n, f, td, D, B, a) <=> \E d \in D : OwedBy(n, f, td, d, B, a)
BY DEF Owes, OwedBy

\* The splitter taken off the agenda owes what it owed there.
LEMMA PopAgendaInv ==
  ASSUME HopInv, PopAgenda
  PROVE  HopInv' /\ [Abs!Next]_(Abs!vars)
<1> DEFINE h == Head(agenda).p
           i == Head(agenda).index
           t == Tail(agenda)
<1>0. /\ pc = "agenda" /\ agenda # <<>> /\ total_states # N /\ pc' = "symbols"
      /\ current_w' = h /\ agenda' = t
      /\ todo' = IF i = 0
                 THEN [s \in State |-> IF group[s] = h THEN InSyms(s) ELSE todo[s]]
                 ELSE todo
      /\ net' = net /\ group' = group /\ p' = p /\ used' = used
      /\ temp_move' = temp_move /\ left' = left
      /\ selfsplit' = selfsplit /\ total_states' = total_states /\ result' = result
  BY DEF PopAgenda
<1>1. home' = home /\ home = group /\ left = {} /\ Quiet(net, group, p, temp_move, left)
  BY <1>0, InvFacts DEF home
<1>2. agenda \in Seq([p : DOMAIN p, index : {0, 1}]) /\ Distinct(agenda)
  BY DEF HopInv, Types, Entry, Queue
<1>3. /\ t \in Seq([p : DOMAIN p, index : {0, 1}])
      /\ h \in DOMAIN p /\ i \in {0, 1}
      /\ Entries(agenda) = Entries(t) \cup {<<h, i>>}
      /\ Distinct(t) /\ ~Queued(t, h)
  <2>1. /\ Head(agenda) \in [p : DOMAIN p, index : {0, 1}]
        /\ t \in Seq([p : DOMAIN p, index : {0, 1}])
        /\ Entries(agenda) = Entries(t) \cup {<<h, i>>}
        /\ Distinct(t) /\ ~Queued(t, h)
    BY ONLY <1>0, <1>2, PopFacts
  <2> QED
    BY <2>1
<1> HIDE DEF h, i, t
<1>4. Debts = Entries(t) \cup {<<h, i>>} /\ Debts' = Entries(t) \cup {<<h, 1>>}
  BY <1>0, <1>3 DEF Debts, Entries, Queued
<1>5. \A s \in State : todo'[s] = IF i = 0 /\ group[s] = h THEN Syms(net, s) ELSE todo[s]
  BY <1>0 DEF HopInv, Types, InSyms, Syms
<1>6. \A d \in Entries(t) : d[1] # h
  BY <1>3 DEF Entries, Queued
<1>7. \A d \in Entries(t) : \A s \in Mem(home, d[1]) : s \in State /\ todo'[s] = todo[s]
  BY <1>5, <1>6, <1>1 DEF Mem
<1>8. \A s \in Mem(home, h) : s \in State /\ todo'[s] = IF i = 0 THEN Syms(net, s) ELSE todo[s]
  BY <1>5, <1>1 DEF Mem
<1>9. UNCHANGED Abs!vars
  <2>1. ASSUME NEW B, NEW a
        PROVE  Owes(net', home', todo', Debts', B, a) <=> Owes(net, home, todo, Debts, B, a)
    <3>1. Owes(net, home, todo', Entries(t), B, a) <=> Owes(net, home, todo, Entries(t), B, a)
      BY <1>7 DEF Owes
    <3>2. OwedBy(net, home, todo', <<h, 1>>, B, a) <=> OwedBy(net, home, todo, <<h, i>>, B, a)
      BY <1>3, <1>8 DEF OwedBy
    <3> QED
      BY <3>1, <3>2, <1>0, <1>1, <1>4, OwesUnion
  <2> QED
    BY <2>1, <1>0, <1>1, Stutters
<1>10. Types'
  <2>1. \A s \in State : todo'[s] \subseteq Symbol
    BY <1>5, InvFacts
  <2>2. todo' \in [State -> SUBSET Symbol]
    BY <2>1, <1>0 DEF HopInv, Types
  <2> QED
    BY <2>2, <1>0, <1>3 DEF HopInv, Types, Entry
<1>11. Groups'
  BY <1>0, <1>1 DEF HopInv, Groups
<1>12. Totals'
  BY <1>0, <1>1 DEF HopInv, Totals, ArenasSuffice
<1>13. Queue'
  BY <1>0, <1>3 DEF Queue, Distinct, Queued
<1>14. Tails'
  <2>1. \A s \in State : todo'[s] \subseteq Syms(net, s)
    BY <1>5 DEF HopInv, Tails
  <2>2. ASSUME NEW d \in Debts', d[2] = 1
        PROVE  Uniform(net, home, todo', d[1])
    <3>1. CASE d \in Entries(t)
      <4>1. Uniform(net, home, todo, d[1])
        BY <3>1, <2>2, <1>4 DEF HopInv, Tails
      <4> QED
        BY <4>1, <3>1, <1>7 DEF Uniform
    <3>2. CASE d = <<h, 1>>
      <4>1. CASE i = 0
        BY <4>1, <3>2, <1>8 DEF Uniform
      <4>2. CASE i # 0
        <5>1. <<h, 1>> \in Debts
          BY <4>2, <1>3, <1>4
        <5>2. Uniform(net, home, todo, h)
          BY <5>1 DEF HopInv, Tails
        <5> QED
          BY <5>2, <4>2, <3>2, <1>8 DEF Uniform
      <4> QED
        BY <4>1, <4>2
    <3> QED
      BY <3>1, <3>2, <1>4
  <2> QED
    BY <2>1, <2>2, <1>0, <1>1 DEF Tails, Syms, InArcs
<1> QED
  BY <1>9, <1>10, <1>11, <1>12, <1>13, <1>14 DEF HopInv

\* The main loop ends: nothing is owed, or every state is alone.
LEMMA AgendaEmptyInv ==
  ASSUME HopInv, AgendaEmpty
  PROVE  HopInv' /\ [Abs!Next]_(Abs!vars)
<1>0. /\ pc = "agenda" /\ (agenda = <<>> \/ total_states = N) /\ pc' = "rebuild"
      /\ net' = net /\ group' = group /\ p' = p /\ agenda' = agenda /\ used' = used
      /\ todo' = todo /\ current_w' = current_w /\ temp_move' = temp_move /\ left' = left
      /\ selfsplit' = selfsplit /\ total_states' = total_states /\ result' = result
  BY DEF AgendaEmpty
<1>1. home' = home
  BY <1>0 DEF home
<1>2. Debts' = {}
  BY <1>0 DEF Debts
<1>3. [Abs!Next]_(Abs!vars)
  <2>1. CASE total_states # N
    <3>1. Debts = {}
      BY <2>1, <1>0 DEF Debts, Entries
    <3> QED
      BY <3>1, <1>0, <1>1, <1>2, Stutters
  <2>2. CASE total_states = N
    <3>1. AbsBlocks = Singles /\ AbsBlocks' = Singles
      <4>1. AbsBlocks = Singles
        BY <2>2, Viewed DEF View
      <4>2. AbsBlocks' = Singles
        BY <2>2, <1>0, ViewedNext DEF View, Singles
      <4> QED
        BY <4>1, <4>2
    <3>2. AbsWork' = {}
      BY <1>0 DEF AbsWork
    <3>3. Abs!Discrete(AbsBlocks)
      BY <3>1 DEF Abs!Discrete, Singles
    <3>4. CASE AbsWork = {}
      BY <3>1, <3>2, <3>4, <1>0 DEF Abs!vars
    <3>5. CASE AbsWork # {}
      BY <3>1, <3>2, <3>3, <3>5, <1>0 DEF Abs!Next, Abs!Stop
    <3> QED
      BY <3>4, <3>5
  <2> QED
    BY <2>1, <2>2
<1>4. Types'
  BY <1>0 DEF HopInv, Types, Entry
<1>5. Groups'
  BY <1>0 DEF HopInv, Groups
<1>6. Totals'
  BY <1>0, <1>1 DEF HopInv, Totals, ArenasSuffice
<1>7. Queue'
  BY <1>0 DEF HopInv, Queue, Distinct, Queued
<1>8. Tails'
  BY <1>0, <1>2 DEF HopInv, Tails, Syms, InArcs
<1> QED
  BY <1>3, <1>4, <1>5, <1>6, <1>7, <1>8 DEF HopInv

-----------------------------------------------------------------------------

\* The abstract state before and after a step.
LEMMA Views ==
  /\ AbsBlocks = IF total_states = N THEN Singles ELSE BlocksOf(home)
  /\ AbsBlocks' = IF total_states' = N THEN Singles ELSE BlocksOf(home')
  /\ \A w \in AbsWork : w = <<w[1], w[2]>>
  /\ \A w \in AbsWork' : w = <<w[1], w[2]>>
  /\ \A B, a : <<B, a>> \in AbsWork <=> Owes(net, home, todo, Debts, B, a)
  /\ \A B, a : <<B, a>> \in AbsWork' <=> Owes(net', home', todo', Debts', B, a)
<1>1. /\ AbsBlocks = IF total_states = N THEN Singles ELSE BlocksOf(home)
      /\ \A w \in AbsWork : w = <<w[1], w[2]>>
      /\ \A B, a : <<B, a>> \in AbsWork <=> Owes(net, home, todo, Debts, B, a)
  BY Viewed DEF View
<1>2. AbsBlocks' = IF total_states' = N THEN Singles ELSE BlocksOf(home')
  BY ViewedNext DEF View, Singles, BlocksOf, Mem
<1>3. /\ \A w \in AbsWork' : w = <<w[1], w[2]>>
      /\ \A B, a : <<B, a>> \in AbsWork' <=> Owes(net', home', todo', Debts', B, a)
  BY ViewedNext DEF View
<1> QED
  BY <1>1, <1>2, <1>3

\* The least number of a set.
LEMMA LeastOf ==
  ASSUME NEW S \in SUBSET Nat, S # {}
  PROVE  Min(S) \in S /\ \A y \in S : Min(S) <= y
<1> DEFINE R == {r \in Nat \X Nat : r[1] < r[2]}
<1>1. IsWellFoundedOn(R, Nat)
  BY NatLessThanWellFounded DEF OpToRel
<1>2. PICK x \in S : \A y \in S : ~(<<y, x>> \in R)
  BY <1>1, WFMin
<1>3. \A y \in S : x <= y
  <2> TAKE y \in S
  <2>1. x \in Nat /\ y \in Nat /\ ~(y < x)
    BY <1>2
  <2> QED
    BY <2>1
<1>4. \E z \in S : \A y \in S : z <= y
  BY <1>3
<1> QED
  BY <1>4 DEF Min

\* The next symbol of the splitter in use.
LEMMA NextSymbolInv ==
  ASSUME HopInv, NextSymbol
  PROVE  HopInv' /\ [Abs!Next]_(Abs!vars)
<1> DEFINE a0 == Min(Pending)
           move == {e[1] : e \in {x \in net.arcs : group[x[3]] = current_w /\ x[2] = a0}}
           B0 == Mem(home, current_w)
<1>0. /\ pc = "symbols" /\ Pending # {} /\ pc' = "refine"
      /\ todo' = [s \in State |-> IF group[s] = current_w THEN todo[s] \ {a0} ELSE todo[s]]
      /\ temp_move' = move /\ left' = move
      /\ p' = [g \in DOMAIN p |->
                 [p[g] EXCEPT
                    !.t_count = @ + Cardinality(move \cap Members(g)),
                    !.inv_t_count = @ + InCount(net, move \cap Members(g))]]
      /\ selfsplit' = FALSE
      /\ net' = net /\ group' = group /\ agenda' = agenda /\ used' = used
      /\ current_w' = current_w /\ total_states' = total_states /\ result' = result
  BY DEF NextSymbol
<1>1. /\ net \in Machine(State, Symbol)
      /\ net.arcs \subseteq State \X Symbol \X State
      /\ Quiet(net, group, p, temp_move, left) /\ home = group /\ left = {}
      /\ current_w \in DOMAIN p /\ total_states # N /\ ~Queued(agenda, current_w)
      /\ \A s \in State : todo[s] \subseteq Symbol /\ Syms(net, s) \subseteq Symbol
  <2>1. net \in Machine(State, Symbol)
    BY DEF HopInv, Types
  <2>2. net.arcs \subseteq State \X Symbol \X State
    BY <2>1 DEF Machine
  <2> QED
    BY <2>1, <2>2, <1>0, InvFacts DEF HopInv, Types, Totals, Queue
<1>2. a0 \in Symbol /\ \E s \in B0 : a0 \in todo[s]
  <2>1. Pending \subseteq Nat
    BY <1>1, MinimizeHopAssumption DEF Pending, Members
  <2>2. a0 \in Pending
    BY <2>1, <1>0, LeastOf
  <2> HIDE DEF a0
  <2>3. PICK s \in Members(current_w) : a0 \in todo[s]
    BY <2>2 DEF Pending
  <2> QED
    BY <2>3, <1>1 DEF Members, Mem
<1>3. move \in SUBSET State
  BY <1>1
<1>4. Touching(net, group, p, move, p')
  <2> HIDE DEF move
  <2>1. \A g : Members(g) = Mem(group, g)
    BY DEF Members, Mem
  <2> QED
    BY ONLY <2>1, <1>0 DEF Touching
<1>5. Refining(net, group, p', move, move) /\ HomeOf(group, p', move) = group
  <2> HIDE DEF move
  <2> QED
    BY ONLY <1>1, <1>3, <1>4, StartKeeps
<1>6. home' = home /\ DOMAIN p' = DOMAIN p
  BY <1>0, <1>1, <1>5 DEF home
<1>7. move = Abs!Pre(B0, a0)
  <2>1. ASSUME NEW s \in move
        PROVE  s \in State /\ \E t \in B0 : <<s, a0, t>> \in net.arcs
    <3>1. PICK e \in net.arcs : group[e[3]] = current_w /\ e[2] = a0 /\ e[1] = s
      OBVIOUS
    <3>2. e = <<e[1], e[2], e[3]>> /\ e[1] \in State /\ e[3] \in State
      BY <1>1
    <3> QED
      BY <3>1, <3>2, <1>1 DEF Mem
  <2>2. ASSUME NEW s \in State, NEW t \in B0, <<s, a0, t>> \in net.arcs
        PROVE  s \in move
    <3> HIDE DEF a0
    <3> DEFINE e == <<s, a0, t>>
    <3>1. e \in net.arcs /\ e[1] = s /\ e[2] = a0 /\ group[e[3]] = current_w
      BY <2>2, <1>1 DEF Mem
    <3> HIDE DEF e
    <3> QED
      BY <3>1
  <2> HIDE DEF move, B0, a0
  <2> QED
    BY <2>1, <2>2 DEF Abs!Pre
<1> HIDE DEF move, a0
<1>8. Debts = Entries(agenda) \cup {<<current_w, 1>>} /\ Debts' = Debts
  BY <1>0, <1>1 DEF Debts, Entries, Queued
<1>9. \A d \in Entries(agenda) : d[1] # current_w
  BY <1>1 DEF Entries, Queued
<1>10. \A d \in Entries(agenda) : \A s \in Mem(home, d[1]) :
         s \in State /\ todo'[s] = todo[s] /\ s \notin B0
  BY <1>0, <1>1, <1>9 DEF Mem
<1>11. \A s \in B0 : s \in State /\ todo'[s] = todo[s] \ {a0}
  BY <1>0, <1>1 DEF Mem
<1> HIDE DEF B0
<1>12. ASSUME NEW B, NEW a
       PROVE  Owes(net', home', todo', Debts', B, a) <=>
                Owes(net, home, todo, Debts, B, a) /\ ~(B = B0 /\ a = a0)
  <2>1. Owes(net, home, todo', Entries(agenda), B, a) <=>
          Owes(net, home, todo, Entries(agenda), B, a)
    BY <1>10 DEF Owes
  <2>2. Owes(net, home, todo, Entries(agenda), B, a) => B # B0
    BY <1>10 DEF Owes
  <2>3. OwedBy(net, home, todo', <<current_w, 1>>, B, a) <=>
          OwedBy(net, home, todo, <<current_w, 1>>, B, a) /\ ~(B = B0 /\ a = a0)
    BY <1>11 DEF OwedBy, B0
  <2>4. Owes(net, home, todo, Debts, B, a) <=>
          Owes(net, home, todo, Entries(agenda), B, a)
          \/ OwedBy(net, home, todo, <<current_w, 1>>, B, a)
    BY ONLY <1>8, OwesUnion
  <2>5. Owes(net, home, todo', Debts, B, a) <=>
          Owes(net, home, todo', Entries(agenda), B, a)
          \/ OwedBy(net, home, todo', <<current_w, 1>>, B, a)
    BY ONLY <1>8, OwesUnion
  <2>6. Owes(net', home', todo', Debts', B, a) <=> Owes(net, home, todo', Debts, B, a)
    BY ONLY <1>0, <1>6, <1>8
  <2> QED
    BY ONLY <2>1, <2>2, <2>3, <2>4, <2>5, <2>6
<1>13. Abs!Next
  <2>1. <<B0, a0>> \in AbsWork
    <3>1. OwedBy(net, home, todo, <<current_w, 1>>, B0, a0)
      BY <1>2 DEF OwedBy, B0
    <3>2. Owes(net, home, todo, Debts, B0, a0)
      BY <3>1, <1>8, OwesUnion
    <3> QED
      BY <3>2, Views
  <2>2. AbsBlocks = BlocksOf(home) /\ AbsBlocks' = AbsBlocks
    BY <1>0, <1>1, <1>6, Views
  <2>3. ASSUME NEW C \in AbsBlocks
        PROVE  ~Abs!Cut(C)
    <3>1. PICK s \in State : C = Mem(group, group[s])
      BY <2>2, <1>1 DEF BlocksOf
    <3>2. group[s] \in DOMAIN p
      BY InvFacts
    <3>3. C \subseteq temp_move \/ C \cap temp_move = {}
      BY <3>1, <3>2, <1>1 DEF Quiet, Settled
    <3> QED
      BY <3>3 DEF Abs!Cut
  <2>4. AbsWork' = AbsWork \ {<<B0, a0>>}
    <3>1. /\ \A w \in AbsWork : w = <<w[1], w[2]>>
          /\ \A w \in AbsWork' : w = <<w[1], w[2]>>
          /\ \A B, a : <<B, a>> \in AbsWork' <=> (<<B, a>> \in AbsWork /\ ~(B = B0 /\ a = a0))
      BY <1>12, Views
    <3>2. \A w \in AbsWork' : w \in AbsWork /\ w # <<B0, a0>>
      BY <3>1
    <3>3. \A w \in AbsWork : w # <<B0, a0>> => w \in AbsWork'
      <4> SUFFICES ASSUME NEW w \in AbsWork, w # <<B0, a0>>
                   PROVE  w \in AbsWork'
        OBVIOUS
      <4>1. w = <<w[1], w[2]>> /\ ~(w[1] = B0 /\ w[2] = a0)
        BY <3>1
      <4>2. <<w[1], w[2]>> \in AbsWork'
        BY ONLY <3>1, <4>1, w \in AbsWork
      <4> QED
        BY <4>1, <4>2
    <3> QED
      BY <3>2, <3>3
  <2>5. Abs!TakeSplitter(B0, a0)
    BY <2>1, <2>2, <2>3, <2>4, <1>0, <1>7 DEF Abs!TakeSplitter
  <2>6. \E w \in AbsWork : Abs!TakeSplitter(w[1], w[2])
    <3> DEFINE w0 == <<B0, a0>>
    <3>1. w0 \in AbsWork /\ w0[1] = B0 /\ w0[2] = a0
      BY <2>1
    <3> HIDE DEF w0
    <3> QED
      BY <3>1, <2>5
  <2> QED
    BY <2>6 DEF Abs!Next
<1>14. Types'
  <2>1. todo' \in [State -> SUBSET Symbol]
    BY <1>0, <1>1
  <2> QED
    BY <2>1, <1>0, <1>1, <1>6 DEF HopInv, Types, Entry
<1>15. Groups'
  <2>1. Refining(net', group', p', temp_move', left')
    BY <1>0, <1>5
  <2>2. Grouped(group', p')
    BY <2>1 DEF Refining
  <2>3. \A g \in DOMAIN p' : p'[g].t_count <= p'[g].count
    BY <2>1, <1>0, <1>1, CountsBounded
  <2> QED
    BY <2>1, <2>2, <2>3, <1>0 DEF Groups
<1>16. Totals'
  BY <1>0, <1>1, <1>6 DEF HopInv, Totals, ArenasSuffice
<1>17. Queue'
  BY <1>0, <1>1 DEF HopInv, Queue, Distinct, Queued
<1>18. Tails'
  <2>1. \A s \in State : todo'[s] \subseteq Syms(net, s)
    BY <1>0 DEF HopInv, Tails
  <2>2. ASSUME NEW d \in Debts, d[2] = 1
        PROVE  Uniform(net, home, todo', d[1])
    <3>1. Uniform(net, home, todo, d[1])
      BY <2>2 DEF HopInv, Tails
    <3>2. CASE d \in Entries(agenda)
      BY <3>1, <3>2, <1>10 DEF Uniform
    <3>3. CASE d = <<current_w, 1>>
      BY <3>1, <3>3, <1>11 DEF Uniform, B0
    <3> QED
      BY <3>2, <3>3, <1>8
  <2> QED
    BY <2>1, <2>2, <1>0, <1>6, <1>8 DEF Tails, Syms, InArcs
<1> QED
  BY <1>13, <1>14, <1>15, <1>16, <1>17, <1>18 DEF HopInv

-----------------------------------------------------------------------------

\* Group g is to be halved: some of its states are touched and some are not.
Partly(f, g, T) == Mem(f, g) \cap T # {} /\ Mem(f, g) \ T # {}

\* The homes f2 are those of f with the touched states of group g in group k.
HalvesInto(f, g, T, k, f2) ==
  /\ Mem(f2, k) = Mem(f, g) \cap T
  /\ Mem(f2, g) = Mem(f, g) \ T
  /\ \A x : x # g /\ x # k => Mem(f2, x) = Mem(f, x)
  /\ BlocksOf(f2) = (BlocksOf(f) \ {Mem(f, g)})
                    \cup {Mem(f, g) \cap T, Mem(f, g) \ T}
  /\ Cardinality({f2[t] : t \in State}) = Cardinality({f[t] : t \in State}) + 1

LEMMA HalvedFacts ==
  ASSUME NEW f \in [State -> Nat], NEW g, NEW T, NEW k \in Nat,
         \A t \in State : f[t] # k, Partly(f, g, T),
         NEW f2, f2 = Halved(f, g, T, k)
  PROVE  HalvesInto(f, g, T, k, f2)
<1> DEFINE B   == Mem(f, g)
           In  == Mem(f, g) \cap T
           Out == Mem(f, g) \ T
<1>0. In # {} /\ Out # {}
  BY DEF Partly
<1>1. \A t \in State : f2[t] = IF f[t] = g /\ t \in T THEN k ELSE f[t]
  BY DEF Halved
<1>2. g # k
  BY <1>0 DEF Mem
<1>3. Mem(f2, k) = In /\ Mem(f2, g) = Out
  BY <1>1, <1>2 DEF Mem
<1>4. \A x : x # g /\ x # k => Mem(f2, x) = Mem(f, x)
  BY <1>1 DEF Mem
<1>5. BlocksOf(f2) = (BlocksOf(f) \ {B}) \cup {In, Out}
  <2>1. ASSUME NEW t \in State
        PROVE  Mem(f2, f2[t]) \in (BlocksOf(f) \ {B}) \cup {In, Out}
    <3>1. CASE f[t] = g
      BY <3>1, <1>1, <1>3
    <3>2. CASE f[t] # g
      <4>1. Mem(f2, f2[t]) = Mem(f, f[t])
        BY <3>2, <1>1, <1>4
      <4>2. t \in Mem(f, f[t]) /\ t \notin B
        BY <3>2 DEF Mem
      <4> HIDE DEF B
      <4> QED
        BY <4>1, <4>2 DEF BlocksOf
    <3> QED
      BY <3>1, <3>2
  <2>2. ASSUME NEW t \in State, Mem(f, f[t]) # B
        PROVE  Mem(f, f[t]) \in BlocksOf(f2)
    <3>1. f[t] # g
      BY <2>2
    <3>2. Mem(f2, f2[t]) = Mem(f, f[t])
      BY <3>1, <1>1, <1>4
    <3> QED
      BY <3>2 DEF BlocksOf
  <2>3. In \in BlocksOf(f2) /\ Out \in BlocksOf(f2)
    <3>1. PICK t \in In : TRUE
      BY <1>0
    <3>2. PICK u \in Out : TRUE
      BY <1>0
    <3>3. t \in State /\ u \in State /\ f2[t] = k /\ f2[u] = g
      BY <1>1 DEF Mem
    <3> QED
      BY <3>3, <1>3 DEF BlocksOf
  <2>4. \A C \in BlocksOf(f2) : C \in (BlocksOf(f) \ {B}) \cup {In, Out}
    BY <2>1 DEF BlocksOf
  <2>5. \A C \in (BlocksOf(f) \ {B}) \cup {In, Out} : C \in BlocksOf(f2)
    <3>1. \A C \in BlocksOf(f) : C # B => C \in BlocksOf(f2)
      <4> SUFFICES ASSUME NEW C \in BlocksOf(f), C # B
                   PROVE  C \in BlocksOf(f2)
        OBVIOUS
      <4>1. PICK t \in State : C = Mem(f, f[t])
        BY DEF BlocksOf
      <4> QED
        BY <4>1, <2>2
    <3> QED
      BY <3>1, <2>3
  <2> QED
    BY <2>4, <2>5
<1>6. Cardinality({f2[t] : t \in State}) = Cardinality({f[t] : t \in State}) + 1
  <2> DEFINE I == {f[t] : t \in State}
  <2>1. {f2[t] : t \in State} = I \cup {k}
    <3>1. \A t \in State : f2[t] \in I \cup {k}
      BY <1>1
    <3>2. k \in {f2[t] : t \in State}
      <4>1. PICK t \in In : TRUE
        BY <1>0
      <4>2. t \in State /\ f2[t] = k
        BY <1>1 DEF Mem
      <4> QED
        BY <4>2
    <3>3. \A t \in State : f[t] \in {f2[u] : u \in State}
      <4> SUFFICES ASSUME NEW t \in State
                   PROVE  \E u \in State : f2[u] = f[t]
        OBVIOUS
      <4>1. CASE f[t] = g
        <5>1. PICK u \in Out : TRUE
          BY <1>0
        <5> QED
          BY <5>1, <4>1, <1>1 DEF Mem
      <4>2. CASE f[t] # g
        BY <4>2, <1>1
      <4> QED
        BY <4>1, <4>2
    <3> QED
      BY <3>1, <3>2, <3>3
  <2>2. k \notin I
    OBVIOUS
  <2>3. IsFiniteSet(I)
    <3>1. f \in Surjection(State, I)
      BY DEF Surjection
    <3> QED
      BY <3>1, Card, FS_Surjection
  <2> HIDE DEF I
  <2> QED
    BY <2>1, <2>2, <2>3, FS_AddElement DEF I
<1> QED
  BY <1>3, <1>4, <1>5, <1>6 DEF HalvesInto

\* The states before a group is split for the first time by this symbol.
LEMMA OpenFacts ==
  ASSUME HopInv, pc = "refine", NEW s \in left, Splits(group[s]),
         p[group[s]].current_split = None,
         NEW k, k = Cardinality(DOMAIN p)
  PROVE  /\ k \in 0..N /\ k \in Nat /\ DOMAIN p = 0..(k - 1) /\ k \notin DOMAIN p
         /\ k <= total_states + 1 /\ total_states + 1 <= N
         /\ Refining(net, group, p, temp_move, left)
         /\ group[s] \in DOMAIN p
         /\ Mem(home, group[s]) = Mem(group, group[s])
         /\ Partly(home, group[s], temp_move)
         /\ \A t \in State : home[t] \in DOMAIN p
<1>1. /\ Refining(net, group, p, temp_move, left) /\ net \in Machine(State, Symbol)
      /\ total_states \in 1..N /\ total_states # N
      /\ Cardinality(DOMAIN p) <= total_states + 1
  BY DEF HopInv, Types, Groups, Totals, ArenasSuffice
<1>2. PICK j \in 0..N : DOMAIN p = 0..j
  BY <1>1 DEF Refining, Grouped
<1>3. k = j + 1
  <2>1. 0 \in Int /\ j \in Int /\ j >= 0
    BY <1>2
  <2>2. Cardinality(0..j) = j - 0 + 1
    BY <2>1, FS_Interval
  <2> QED
    BY <2>1, <2>2, <1>2
<1>4. /\ k \in 0..N /\ k \in Nat /\ DOMAIN p = 0..(k - 1) /\ k \notin DOMAIN p
      /\ k <= total_states + 1 /\ total_states + 1 <= N
  BY <1>1, <1>2, <1>3, MinimizeHopAssumption
<1>5. /\ p[group[s]].t_count # p[group[s]].count /\ p[group[s]].t_count > 0
  BY DEF Splits
<1>6. group[s] \in DOMAIN p
  BY <1>1, Visited
<1>7. OpensGroup(net, group, p, temp_move, left, s, k)
  BY ONLY <1>1, <1>4, <1>5, s \in left, p[group[s]].current_split = None DEF OpensGroup
<1>8. PICK g, q2 : g = group[s] /\ Opening(p, g, k, q2)
  BY DEF Opening
<1>9. Cuts(group, p, temp_move, left, g, k, q2)
  BY ONLY <1>1, <1>7, <1>8, OpenKeeps
<1> QED
  BY <1>1, <1>4, <1>6, <1>8, <1>9 DEF home, Cuts, Partly

\* What splitting g into itself and the new group k does to the agenda.
LEMMA QueueFacts ==
  ASSUME HopInv, pc = "refine", NEW g \in DOMAIN p, NEW k, k \notin DOMAIN p,
         NEW ag, ag = AgendaAfter(g, k)
  PROVE  /\ ag \in Seq([p : DOMAIN p \cup {k}, index : {0, 1}])
         /\ Len(ag) - Len(agenda) \in 1..2
         /\ Distinct(ag)
         /\ Queued(ag, current_w) <=> (selfsplit \/ (g = current_w /\ ~OnAgenda(g)))
         /\ Entries(ag) \cup (IF Queued(ag, current_w) THEN {} ELSE {<<current_w, 1>>})
              = Debts \cup {<<k, 0>>}
<1> DEFINE S == DOMAIN p \cup {k}
<1>1. /\ agenda \in Seq([p : DOMAIN p, index : {0, 1}]) /\ Distinct(agenda)
      /\ current_w \in DOMAIN p
      /\ selfsplit <=> Queued(agenda, current_w)
      /\ Debts = Entries(agenda)
                 \cup (IF Queued(agenda, current_w) THEN {} ELSE {<<current_w, 1>>})
  BY DEF HopInv, Types, Entry, Queue, Debts
<1>2. OnAgenda(g) <=> Queued(agenda, g)
  BY DEF OnAgenda, Queued
<1>3. ~(p[g].inv_count < p[g].inv_t_count) /\ p[g].inv_count >= p[g].inv_t_count
  <2>1. Refining(net, group, p, temp_move, left) /\ net \in Machine(State, Symbol)
    BY DEF HopInv, Groups, Types
  <2>2. p[g].inv_t_count <= p[g].inv_count
    BY <2>1, CountsBounded
  <2>3. p[g].inv_t_count \in Nat /\ p[g].inv_count \in Nat
    BY <2>1, GroupedFacts DEF Refining, Counter
  <2> QED
    BY <2>2, <2>3
<1>4. agenda \in Seq([p : S, index : {0, 1}]) /\ Len(agenda) \in Nat
  <2>1. [p : DOMAIN p, index : {0, 1}] \subseteq [p : S, index : {0, 1}]
    OBVIOUS
  <2>2. \A A, B : A \subseteq B => \A q \in Seq(A) : q \in Seq(B) /\ Len(q) \in Nat
    OBVIOUS
  <2> QED
    <3>1. agenda \in Seq([p : DOMAIN p, index : {0, 1}])
      BY ONLY <1>1
    <3> QED
      BY ONLY <2>1, <2>2, <3>1
<1>5. k \in S /\ g \in S /\ k # g /\ k # current_w
  BY <1>1
<1>6. ~Queued(agenda, k)
  <2>1. \A j \in DOMAIN agenda : agenda[j] \in [p : DOMAIN p, index : {0, 1}]
    <3>1. \A A : \A q \in Seq(A) : \A j \in DOMAIN q : q[j] \in A
      OBVIOUS
    <3> QED
      BY ONLY <3>1, <1>1
  <2> QED
    BY <2>1 DEF Queued
<1> HIDE DEF S
<1> DEFINE one == AgendaAdd(agenda, k, 0)
<1>7. /\ one \in Seq([p : S, index : {0, 1}]) /\ Len(one) = Len(agenda) + 1
      /\ Entries(one) = Entries(agenda) \cup {<<k, 0>>}
      /\ \A y : Queued(one, y) <=> (y = k \/ Queued(agenda, y))
      /\ Distinct(one)
  <2>1. Added(S, agenda, k, 0, one)
    BY ONLY <1>4, <1>5, 0 \in {0, 1}, AddFacts
  <2> QED
    BY ONLY <2>1, <1>1, <1>6 DEF Added
<1> HIDE DEF one
<1>8. Smaller(g, k) = k /\ Larger(g, k) = g
  BY <1>3 DEF Smaller, Larger
<1>9. CASE Queued(agenda, g) \/ g # current_w
  <2>1. ag = one
    BY <1>2, <1>3, <1>8, <1>9 DEF AgendaAfter, one
  <2>2. Queued(ag, current_w) <=> Queued(agenda, current_w)
    BY ONLY <2>1, <1>5, <1>7
  <2>3. Entries(ag) \cup (IF Queued(ag, current_w) THEN {} ELSE {<<current_w, 1>>})
          = Debts \cup {<<k, 0>>}
    <3>1. Entries(ag) = Entries(agenda) \cup {<<k, 0>>}
      BY <2>1, <1>7
    <3>2. CASE Queued(agenda, current_w)
      BY ONLY <3>1, <3>2, <2>2, <1>1
    <3>3. CASE ~Queued(agenda, current_w)
      BY ONLY <3>1, <3>3, <2>2, <1>1
    <3> QED
      BY <3>2, <3>3
  <2>4. Len(ag) - Len(agenda) \in 1..2
    BY <2>1, <1>4, <1>7
  <2> QED
    BY <2>1, <2>2, <2>3, <2>4, <1>1, <1>2, <1>7, <1>9 DEF S
<1>10. CASE ~Queued(agenda, g) /\ g = current_w
  <2>1. ag = AgendaAdd(one, g, 1)
    BY <1>2, <1>8, <1>10 DEF AgendaAfter, one
  <2>2. one \in Seq([p : S, index : {0, 1}]) /\ Distinct(one) /\ ~Queued(one, g) /\ g \in S
    BY <1>5, <1>7, <1>10
  <2>6. Added(S, one, g, 1, ag)
    BY ONLY <2>1, <2>2, 1 \in {0, 1}, AddFacts
  <2>3. /\ ag \in Seq([p : S, index : {0, 1}]) /\ Len(ag) = Len(one) + 1
        /\ Entries(ag) = Entries(one) \cup {<<g, 1>>}
        /\ Queued(ag, g)
        /\ Distinct(ag)
    BY ONLY <2>2, <2>6 DEF Added
  <2>4. Len(ag) - Len(agenda) \in 1..2
    BY <2>3, <1>4, <1>7
  <2>5. Queued(ag, current_w)
    BY <2>3, <1>10
  <2>7. Entries(ag) = Debts \cup {<<k, 0>>}
    BY ONLY <2>3, <1>1, <1>7, <1>10
  <2> QED
    BY ONLY <2>3, <2>4, <2>5, <2>7, <1>2, <1>10 DEF S
<1> QED
  BY <1>9, <1>10

\* Debts are of groups that exist.
LEMMA DebtFacts ==
  ASSUME HopInv
  PROVE  \A d \in Debts : d[1] \in DOMAIN p /\ d[2] \in {0, 1}
<1>1. \A k \in DOMAIN agenda : agenda[k].p \in DOMAIN p /\ agenda[k].index \in {0, 1}
  <2>1. \A A : \A q \in Seq(A) : \A j \in DOMAIN q : q[j] \in A
    OBVIOUS
  <2>2. agenda \in Seq(Entry)
    BY DEF HopInv, Types
  <2>3. \A k \in DOMAIN agenda : agenda[k] \in Entry
    BY ONLY <2>1, <2>2
  <2> QED
    BY <2>3 DEF Entry
<1>2. pc \in {"symbols", "refine"} => current_w \in DOMAIN p
  BY DEF HopInv, Types
<1> QED
  BY <1>1, <1>2 DEF Debts, Entries

\* What a state's inverse arcs say of the states that lead to it.
LEMMA PreFacts ==
  ASSUME net \in Machine(State, Symbol), NEW B \in SUBSET State, NEW a
  PROVE  Abs!Pre(B, a) # {} <=> \E t \in B : a \in Syms(net, t)
<1>0. net.arcs \subseteq State \X Symbol \X State
  BY DEF Machine
<1>1. ASSUME NEW t \in B, a \in Syms(net, t)
      PROVE  Abs!Pre(B, a) # {}
  <2>1. PICK e \in net.arcs : e[3] = t /\ e[2] = a
    BY <1>1 DEF Syms, InArcs
  <2>2. e = <<e[1], a, t>> /\ e[1] \in State
    BY <2>1, <1>0
  <2>3. <<e[1], a, t>> \in net.arcs
    BY <2>2
  <2> QED
    BY <2>2, <2>3 DEF Abs!Pre
<1>2. ASSUME Abs!Pre(B, a) # {}
      PROVE  \E t \in B : a \in Syms(net, t)
  <2>1. PICK s \in State : \E t \in B : <<s, a, t>> \in net.arcs
    BY <1>2 DEF Abs!Pre
  <2>2. PICK t \in B : <<s, a, t>> \in net.arcs
    BY <2>1
  <2> DEFINE e == <<s, a, t>>
  <2>3. e \in net.arcs /\ e[3] = t /\ e[2] = a
    BY <2>2
  <2> HIDE DEF e
  <2>4. a \in Syms(net, t)
    BY <2>3 DEF Syms, InArcs
  <2> QED
    BY <2>4
<1> QED
  BY <1>1, <1>2

(***************************************************************************)
(* Opening group k for the touched states of g splits a block of Hopcroft: *)
(* the new half is queued for every symbol, and the rest of a block that   *)
(* was still owed owes what the block did.                                 *)
(***************************************************************************)
LEMMA SplitRefines ==
  ASSUME HopInv, NEW g \in DOMAIN p, NEW k \in Nat, k \notin DOMAIN p,
         \A t \in State : home[t] \in DOMAIN p,
         Partly(home, g, temp_move),
         home' = Halved(home, g, temp_move, k),
         Debts' = Debts \cup {<<k, 0>>},
         net' = net, todo' = todo, temp_move' = temp_move,
         total_states # N, total_states' # N
  PROVE  /\ Abs!Next
         /\ \A d \in Debts : d[2] = 1 => Uniform(net, home', todo, d[1])
<1> DEFINE B   == Mem(home, g)
           In  == B \cap temp_move
           Out == B \ temp_move
<1>1. /\ net \in Machine(State, Symbol) /\ home \in [State -> Nat]
      /\ \A t \in State : home[t] # k
  BY InvFacts
<1>2. /\ Mem(home', k) = In /\ Mem(home', g) = Out
      /\ \A x : x # g /\ x # k => Mem(home', x) = Mem(home, x)
      /\ BlocksOf(home') = (BlocksOf(home) \ {B}) \cup {In, Out}
  <2>1. HalvesInto(home, g, temp_move, k, home')
    BY ONLY <1>1, k \in Nat, home' = Halved(home, g, temp_move, k),
            Partly(home, g, temp_move), HalvedFacts
  <2> QED
    BY ONLY <2>1 DEF HalvesInto
<1>3. /\ In # {} /\ Out # {} /\ In \subseteq B /\ Out \subseteq B /\ B \subseteq State
      /\ In \cap Out = {} /\ In \cup Out = B
  BY DEF Mem, Partly
<1>4. \A x, y : x # y => Mem(home, x) \cap Mem(home, y) = {}
  BY DEF Mem
<1>5. \A d \in Debts : d[1] \in DOMAIN p /\ d[1] # k /\ d[2] \in {0, 1}
  BY DebtFacts
<1>6. \A s \in State : todo[s] \subseteq Syms(net, s) /\ Syms(net, s) \subseteq Symbol
  BY InvFacts DEF HopInv, Tails
<1>7. \A d \in Debts : d[2] = 1 => Uniform(net, home, todo, d[1])
  BY DEF HopInv, Tails
<1>8. AbsBlocks = BlocksOf(home) /\ AbsBlocks' = BlocksOf(home')
  BY Views
<1>9. B \in AbsBlocks
  <2>1. PICK t \in B : TRUE
    BY <1>3
  <2>2. t \in State /\ home[t] = g
    BY DEF Mem
  <2> QED
    BY <2>2, <1>8 DEF BlocksOf
<1> HIDE DEF B, In, Out
<1>10. \A C, a : Owes(net', home', todo', Debts', C, a) <=>
                   \/ OwedBy(net, home', todo, <<k, 0>>, C, a)
                   \/ \E d \in Debts : OwedBy(net, home', todo, d, C, a)
  <2> TAKE C, a
  <2>1. Owes(net', home', todo', Debts', C, a) <=>
          Owes(net, home', todo, Debts \cup {<<k, 0>>}, C, a)
    OBVIOUS
  <2>2. Owes(net, home', todo, Debts \cup {<<k, 0>>}, C, a) <=>
          Owes(net, home', todo, Debts, C, a) \/ OwedBy(net, home', todo, <<k, 0>>, C, a)
    BY ONLY OwesUnion
  <2>3. Owes(net, home', todo, Debts, C, a) <=>
          \E d \in Debts : OwedBy(net, home', todo, d, C, a)
    BY ONLY OwesUnion
  <2> QED
    BY ONLY <2>1, <2>2, <2>3
<1>11. \A C, a : OwedBy(net, home', todo, <<k, 0>>, C, a) <=>
                   C = In /\ \E t \in In : a \in Syms(net, t)
  BY <1>2 DEF OwedBy
<1>12. ASSUME NEW d \in Debts, d[1] # g, NEW C, NEW a
       PROVE  /\ OwedBy(net, home', todo, d, C, a) <=> OwedBy(net, home, todo, d, C, a)
              /\ OwedBy(net, home, todo, d, C, a) => C # B /\ C # In /\ C # Out
  <2>1. Mem(home', d[1]) = Mem(home, d[1]) /\ Mem(home, d[1]) \cap B = {}
    BY <1>2, <1>4, <1>5, <1>12 DEF B
  <2>2. OwedBy(net, home', todo, d, C, a) <=> OwedBy(net, home, todo, d, C, a)
    BY ONLY <2>1 DEF OwedBy
  <2>3. OwedBy(net, home, todo, d, C, a) => C = Mem(home, d[1]) /\ C # {}
    BY ONLY TRUE DEF OwedBy
  <2> QED
    BY ONLY <2>1, <2>2, <2>3, <1>3
<1>13. ASSUME NEW d \in Debts, d[1] = g, NEW C, NEW a
       PROVE  /\ OwedBy(net, home, todo, d, C, a) => C = B
              /\ OwedBy(net, home', todo, d, C, a) => C = Out
              /\ OwedBy(net, home, todo, d, B, a) /\ (\E t \in Out : a \in Syms(net, t)) =>
                   OwedBy(net, home', todo, d, Out, a)
  <2>1. Mem(home, d[1]) = B /\ Mem(home', d[1]) = Out
    BY <1>2, <1>13 DEF B
  <2>2. ASSUME OwedBy(net, home, todo, d, B, a), NEW t \in Out, a \in Syms(net, t)
        PROVE  OwedBy(net, home', todo, d, Out, a)
    <3>1. CASE d[2] = 0
      BY <2>1, <2>2, <3>1 DEF OwedBy
    <3>2. CASE d[2] = 1
      <4>1. PICK s \in B : a \in todo[s]
        BY <2>1, <2>2, <3>2 DEF OwedBy
      <4>2. Uniform(net, home, todo, g)
        BY <3>2, <1>7, <1>13
      <4>3. a \in todo[t]
        BY <4>1, <4>2, <2>2, <1>3 DEF Uniform, B
      <4> QED
        BY <2>1, <3>2, <4>3 DEF OwedBy
    <3> QED
      BY <3>1, <3>2, <1>5
  <2>3. OwedBy(net, home, todo, d, C, a) => C = B
    BY ONLY <2>1 DEF OwedBy
  <2>4. OwedBy(net, home', todo, d, C, a) => C = Out
    BY ONLY <2>1 DEF OwedBy
  <2> QED
    BY <2>2, <2>3, <2>4
<1>14. \A C, a : <<C, a>> \in AbsWork <=> \E d \in Debts : OwedBy(net, home, todo, d, C, a)
  <2> TAKE C, a
  <2>1. <<C, a>> \in AbsWork <=> Owes(net, home, todo, Debts, C, a)
    BY ONLY Views
  <2>2. Owes(net, home, todo, Debts, C, a) <=>
          \E d \in Debts : OwedBy(net, home, todo, d, C, a)
    BY ONLY OwesUnion
  <2> QED
    BY ONLY <2>1, <2>2
<1>15. \A C, a : <<C, a>> \in AbsWork' <=>
                   \/ C = In /\ \E t \in In : a \in Syms(net, t)
                   \/ \E d \in Debts : OwedBy(net, home', todo, d, C, a)
  <2> TAKE C, a
  <2>1. <<C, a>> \in AbsWork' <=> Owes(net', home', todo', Debts', C, a)
    BY ONLY Views
  <2> QED
    BY ONLY <2>1, <1>10, <1>11
<1>16. /\ \A w \in AbsWork : w = <<w[1], w[2]>>
       /\ \A w \in AbsWork' : w = <<w[1], w[2]>>
  BY Views
<1> DEFINE W == {w \in AbsWork' : w[1] \in {In, Out}}
<1>17. AbsWork' = {w \in AbsWork : w[1] # B} \cup W
  <2>1. ASSUME NEW w \in AbsWork', w[1] \notin {In, Out}
        PROVE  w \in AbsWork /\ w[1] # B
    <3>1. <<w[1], w[2]>> \in AbsWork'
      BY <1>16
    <3>2. PICK d \in Debts : OwedBy(net, home', todo, d, w[1], w[2])
      BY ONLY <3>1, <1>15, <2>1
    <3>3. d[1] # g
      BY <3>2, <2>1, <1>13
    <3>4. OwedBy(net, home, todo, d, w[1], w[2]) /\ w[1] # B
      BY <3>2, <3>3, <1>12
    <3>5. <<w[1], w[2]>> \in AbsWork
      BY ONLY <3>4, d \in Debts, <1>14
    <3> QED
      BY <3>4, <3>5, <1>16
  <2>2. ASSUME NEW w \in AbsWork, w[1] # B
        PROVE  w \in AbsWork'
    <3>1. <<w[1], w[2]>> \in AbsWork
      BY <1>16
    <3>2. PICK d \in Debts : OwedBy(net, home, todo, d, w[1], w[2])
      BY ONLY <3>1, <1>14
    <3>3. d[1] # g
      BY <3>2, <2>2, <1>13
    <3>4. OwedBy(net, home', todo, d, w[1], w[2])
      BY <3>2, <3>3, <1>12
    <3>5. <<w[1], w[2]>> \in AbsWork'
      BY ONLY <3>4, d \in Debts, <1>15
    <3> QED
      BY <3>5, <1>16
  <2> QED
    BY <2>1, <2>2
<1>18. W \in SUBSET Abs!Splitters({In, Out})
  <2> SUFFICES ASSUME NEW w \in W
               PROVE  w \in Abs!Splitters({In, Out})
    OBVIOUS
  <2>1. w = <<w[1], w[2]>> /\ w[1] \in {In, Out} /\ <<w[1], w[2]>> \in AbsWork'
    BY <1>16
  <2>2. \E t \in w[1] : w[2] \in Syms(net, t)
    <3>1. CASE w[1] = In /\ \E t \in In : w[2] \in Syms(net, t)
      BY <3>1
    <3>2. CASE \E d \in Debts : OwedBy(net, home', todo, d, w[1], w[2])
      <4>1. PICK d \in Debts : OwedBy(net, home', todo, d, w[1], w[2])
        BY <3>2
      <4>2. PICK t \in Mem(home', d[1]) :
              /\ w[1] = Mem(home', d[1])
              /\ w[2] \in (IF d[2] = 0 THEN Syms(net, t) ELSE todo[t])
        BY <4>1 DEF OwedBy
      <4>3. t \in State
        BY DEF Mem
      <4> QED
        BY <4>2, <4>3, <1>6
    <3> QED
      BY ONLY <3>1, <3>2, <2>1, <1>15
  <2>3. w[1] \in SUBSET State /\ w[2] \in Symbol
    BY <2>1, <2>2, <1>3, <1>6
  <2>4. Abs!Pre(w[1], w[2]) # {}
    BY ONLY <2>2, <2>3, <1>1, PreFacts
  <2> HIDE DEF W
  <2>5. w \in {In, Out} \X Symbol
    BY ONLY <2>1, <2>3
  <2> QED
    BY <2>4, <2>5 DEF Abs!Splitters
<1>19. ASSUME NEW a \in Symbol, Abs!Pre(In, a) # {}
       PROVE  <<In, a>> \in W
  <2>1. \E t \in In : a \in Syms(net, t)
    <3>1. In \in SUBSET State
      BY <1>3
    <3> QED
      BY ONLY <3>1, <1>1, <1>19, PreFacts
  <2>2. <<In, a>> \in AbsWork'
    BY ONLY <2>1, <1>15
  <2> QED
    BY <2>2
<1>20. ASSUME NEW a \in Symbol, Abs!Pre(Out, a) # {}, <<B, a>> \in AbsWork
       PROVE  <<Out, a>> \in W
  <2>1. \E t \in Out : a \in Syms(net, t)
    <3>1. Out \in SUBSET State
      BY <1>3
    <3> QED
      BY ONLY <3>1, <1>1, <1>20, PreFacts
  <2>2. PICK d \in Debts : OwedBy(net, home, todo, d, B, a)
    BY ONLY <1>20, <1>14
  <2>3. d[1] = g
    BY <2>2, <1>12
  <2>4. OwedBy(net, home', todo, d, Out, a)
    BY <2>1, <2>2, <2>3, <1>13
  <2>5. <<Out, a>> \in AbsWork'
    BY ONLY <2>4, d \in Debts, <1>15
  <2> QED
    BY <2>5
<1> HIDE DEF W
<1>21. Abs!Requeues(B, W)
  <2>1. B \cap temp_move = In /\ B \ temp_move = Out
    BY DEF In, Out
  <2>2. ASSUME NEW a \in Symbol
        PROVE  \/ {<<In, a>>, <<Out, a>>} \cap Abs!Splitters({In, Out}) \subseteq W
               \/ <<B, a>> \notin AbsWork /\ (<<In, a>> \in W \/ Abs!Pre(In, a) = {})
    <3>1. CASE <<B, a>> \in AbsWork
      <4>1. \A C : <<C, a>> \in Abs!Splitters({In, Out}) => Abs!Pre(C, a) # {}
        <5> SUFFICES ASSUME NEW C, <<C, a>> \in Abs!Splitters({In, Out})
                     PROVE  Abs!Pre(C, a) # {}
          OBVIOUS
        <5> DEFINE w == <<C, a>>
        <5>1. w[1] = C /\ w[2] = a /\ w \in Abs!Splitters({In, Out})
          OBVIOUS
        <5> HIDE DEF w
        <5> QED
          BY <5>1 DEF Abs!Splitters
      <4> QED
        BY <4>1, <3>1, <1>19, <1>20
    <3>2. CASE <<B, a>> \notin AbsWork
      BY <3>2, <1>19
    <3> QED
      BY <3>1, <3>2
  <2> QED
    BY <2>1, <2>2 DEF Abs!Requeues
<1>22. Abs!SplitBlock(B)
  <2>1. B \cap temp_move = In /\ B \ temp_move = Out
    BY DEF In, Out
  <2>2. Abs!Cut(B)
    BY <2>1, <1>3 DEF Abs!Cut
  <2>3. AbsBlocks' = (AbsBlocks \ {B}) \cup {In, Out}
    BY <1>2, <1>8
  <2> QED
    BY ONLY <2>1, <2>2, <2>3, <1>17, <1>18, <1>21, net' = net, temp_move' = temp_move
       DEF Abs!SplitBlock
<1>23. \A d \in Debts : d[2] = 1 => Uniform(net, home', todo, d[1])
  <2>1. \A d \in Debts : Mem(home', d[1]) \subseteq Mem(home, d[1])
    BY <1>2, <1>3, <1>5 DEF B
  <2> QED
    BY <2>1, <1>7 DEF Uniform
<1> QED
  BY <1>9, <1>22, <1>23 DEF Abs!Next

\* The first touched state of a group that is partly touched opens a new one.
LEMMA SplitFirstInv ==
  ASSUME HopInv, NEW s \in left, SplitFirst(s)
  PROVE  HopInv' /\ [Abs!Next]_(Abs!vars)
<1>1. PICK g, k : g = group[s] /\ k = Cardinality(DOMAIN p)
  OBVIOUS
<1>2. PICK q : /\ q = [x \in 0..k |-> IF x = k THEN NewGroup(0, p[g].inv_t_count)
                                      ELSE IF x = g THEN [p[x] EXCEPT !.current_split = k]
                                      ELSE p[x]]
               /\ p' = CountMoved(q, g, k)
  BY <1>1 DEF SplitFirst
<1>0. /\ pc = "refine" /\ Splits(g) /\ p[g].current_split = None
      /\ total_states + 1 # N /\ total_states' = total_states + 1
      /\ agenda' = AgendaAfter(g, k)
      /\ used' = used + (Len(agenda') - Len(agenda))
      /\ selfsplit' = (selfsplit \/ (g = current_w /\ ~OnAgenda(g)))
      /\ group' = [group EXCEPT ![s] = k]
      /\ left' = left \ {s}
      /\ net' = net /\ todo' = todo /\ current_w' = current_w /\ temp_move' = temp_move
      /\ pc' = pc /\ result' = result
  BY <1>1 DEF SplitFirst
<1>3. Opening(p, g, k, q)
  BY ONLY <1>2 DEF Opening
<1>4. /\ k \in 0..N /\ k \in Nat /\ DOMAIN p = 0..(k - 1) /\ k \notin DOMAIN p
      /\ k <= total_states + 1 /\ total_states + 1 <= N
      /\ Refining(net, group, p, temp_move, left)
      /\ g \in DOMAIN p
      /\ Partly(home, g, temp_move)
      /\ \A t \in State : home[t] \in DOMAIN p
  <2>1. Splits(group[s]) /\ p[group[s]].current_split = None
    BY <1>0, <1>1
  <2> QED
    BY <2>1, <1>0, <1>1, OpenFacts
<1>5. /\ net \in Machine(State, Symbol) /\ home \in [State -> Nat]
      /\ \A t \in State : home[t] # k
  BY <1>4, InvFacts
<1>6. /\ Refining(net, group, q, temp_move, left)
      /\ q[g].current_split = k /\ k # None
      /\ HomeOf(group, q, left) = Halved(home, g, temp_move, k)
  <2>1. OpensGroup(net, group, p, temp_move, left, s, k)
    BY <1>0, <1>1, <1>4 DEF OpensGroup, Splits
  <2>2. Cuts(group, p, temp_move, left, g, k, q)
    BY ONLY <2>1, <1>1, <1>3, <1>5, OpenKeeps
  <2>3. Refining(net, group, q, temp_move, left) /\ q[g].current_split = k /\ k # None
    BY ONLY <2>1, <1>1, <1>3, <1>5, OpenKeeps
  <2> QED
    BY <2>2, <2>3 DEF home, Cuts
<1>7. /\ Refining(net, group', p', temp_move, left')
      /\ HomeOf(group', p', left') = HomeOf(group, q, left)
  <2>1. group \in [State -> DOMAIN p] /\ s \in State
    BY <1>4 DEF Refining, Grouped
  <2>2. group' = [t \in State |-> IF t = s THEN k ELSE group[t]]
    BY <2>1, <1>0
  <2>3. MovedTo(group, s, k, group')
    BY ONLY <2>2 DEF MovedTo
  <2>4. p' = CountMoved(q, group[s], k) /\ k = q[group[s]].current_split
    BY <1>1, <1>2, <1>6
  <2>5. left' = left \ {s}
    BY <1>0
  <2>6. /\ Refining(net, group', CountMoved(q, group[s], k), temp_move, left \ {s})
        /\ HomeOf(group', CountMoved(q, group[s], k), left \ {s}) = HomeOf(group, q, left)
    <3>1. Refining(net, group', CountMoved(q, group[s], k), temp_move, left \ {s})
      BY ONLY <2>3, <2>4, <1>5, <1>6, s \in left, MoveKeeps
    <3>2. HomeOf(group', CountMoved(q, group[s], k), left \ {s}) = HomeOf(group, q, left)
      BY ONLY <2>3, <2>4, <1>5, <1>6, s \in left, MoveKeeps, SMTT(30)
    <3> QED
      BY <3>1, <3>2
  <2> QED
    BY ONLY <2>4, <2>5, <2>6
<1>8. home' = Halved(home, g, temp_move, k)
  BY <1>6, <1>7 DEF home
<1>9. DOMAIN p' = 0..k /\ 0..k = DOMAIN p \cup {k}
  <2>1. DOMAIN p' = DOMAIN q
    BY <1>2 DEF CountMoved
  <2>2. DOMAIN q = 0..k
    BY <1>2
  <2>3. 0..k = DOMAIN p \cup {k}
    BY <1>4
  <2> QED
    BY <2>1, <2>2, <2>3
<1>10. /\ agenda' \in Seq([p : DOMAIN p \cup {k}, index : {0, 1}])
       /\ Len(agenda') - Len(agenda) \in 1..2
       /\ Distinct(agenda')
       /\ Queued(agenda', current_w) <=> (selfsplit \/ (g = current_w /\ ~OnAgenda(g)))
       /\ Entries(agenda') \cup (IF Queued(agenda', current_w) THEN {} ELSE {<<current_w, 1>>})
            = Debts \cup {<<k, 0>>}
  BY ONLY HopInv, <1>0, <1>4, QueueFacts
<1>11. Debts' = Debts \cup {<<k, 0>>}
  <2>1. Debts' = Entries(agenda')
                 \cup (IF Queued(agenda', current_w) THEN {} ELSE {<<current_w, 1>>})
    BY <1>0 DEF Debts, Entries, Queued
  <2> QED
    BY ONLY <2>1, <1>10
<1>12. total_states \in 1..N /\ total_states # N /\ total_states' # N
  BY <1>0 DEF HopInv, Types, Totals
<1>13. /\ Abs!Next
       /\ \A d \in Debts : d[2] = 1 => Uniform(net, home', todo, d[1])
  BY ONLY HopInv, <1>0, <1>4, <1>8, <1>11, <1>12, SplitRefines
<1>14. Types'
  <2>1. agenda' \in Seq(Entry')
    <3>1. Entry' = [p : DOMAIN p', index : {0, 1}]
      BY DEF Entry
    <3> QED
      BY ONLY <3>1, <1>9, <1>10
  <2>2. used' \in Nat /\ total_states' \in 1..N
    <3>1. used \in Nat
      BY DEF HopInv, Types
    <3> QED
      BY ONLY <3>1, <1>0, <1>4, <1>10, <1>12, MinimizeHopAssumption
  <2>3. selfsplit' \in BOOLEAN
    BY <1>0
  <2>4. current_w' \in DOMAIN p'
    BY <1>0, <1>9 DEF HopInv, Types
  <2> QED
    BY <2>1, <2>2, <2>3, <2>4, <1>0 DEF HopInv, Types
<1>15. Groups'
  <2>1. Refining(net', group', p', temp_move', left')
    BY <1>0, <1>7
  <2>2. Grouped(group', p')
    BY <2>1 DEF Refining
  <2>3. \A x \in DOMAIN p' : p'[x].t_count <= p'[x].count
    BY <2>1, <1>0, <1>5, CountsBounded
  <2> QED
    BY <2>1, <2>2, <2>3, <1>0 DEF Groups
<1>16. Totals'
  <2>1. HalvesInto(home, g, temp_move, k, home')
    BY ONLY <1>4, <1>5, <1>8, HalvedFacts
  <2>2. total_states = Cardinality({home[t] : t \in State})
    BY <1>12 DEF HopInv, Totals
  <2>3. total_states' = Cardinality({home'[t] : t \in State})
    BY ONLY <2>1, <2>2, <1>0 DEF HalvesInto
  <2>4. Cardinality(DOMAIN p') <= total_states' + 1
    <3>1. Cardinality(0..k) = k - 0 + 1
      <4>1. 0 \in Int /\ k \in Int /\ k >= 0
        BY <1>4
      <4> QED
        BY <4>1, FS_Interval
    <3> QED
      BY ONLY <3>1, <1>0, <1>4, <1>9, <1>12, MinimizeHopAssumption
  <2>5. used' <= 2 * total_states' - (IF net'.final = State THEN 1 ELSE 2)
    <3>1. used \in Nat /\ used <= 2 * total_states - (IF net.final = State THEN 1 ELSE 2)
      BY DEF HopInv, Types, Totals, ArenasSuffice
    <3> DEFINE d == IF net.final = State THEN 1 ELSE 2
    <3>2. d \in Nat /\ used <= 2 * total_states - d
      BY <3>1
    <3> HIDE DEF d
    <3>3. used' <= used + 2
      BY ONLY <3>1, <1>0, <1>10
    <3>4. used' \in Int /\ total_states \in Int
      BY ONLY <3>1, <1>0, <1>10, <1>12
    <3>5. used' <= 2 * (total_states + 1) - d
      BY ONLY <3>1, <3>2, <3>3, <3>4
    <3> QED
      BY <3>5, <1>0 DEF d
  <2> QED
    BY <2>3, <2>4, <2>5, <1>0, <1>12 DEF Totals, ArenasSuffice
<1>17. Queue'
  BY <1>0, <1>10 DEF Queue, Distinct, Queued
<1>18. Tails'
  <2>1. \A d \in Debts' : d[2] = 1 => Uniform(net, home', todo, d[1])
    BY <1>11, <1>13
  <2>2. \A t \in State : todo[t] \subseteq Syms(net, t)
    BY DEF HopInv, Tails
  <2> QED
    BY <2>1, <2>2, <1>0 DEF Tails, Syms, InArcs
<1> QED
  BY <1>13, <1>14, <1>15, <1>16, <1>17, <1>18 DEF HopInv

\* As many groups as states: each state is alone.
LEMMA Alone ==
  ASSUME NEW f, Cardinality({f[t] : t \in State}) = N
  PROVE  BlocksOf(f) = Singles
<1> DEFINE I == {f[t] : t \in State}
           e == [t \in State |-> f[t]]
<1>1. \A t, u \in State : f[t] = f[u] => t = u
  <2>1. e \in Surjection(State, I)
    BY DEF Surjection
  <2>2. \A t \in State : e[t] = f[t]
    OBVIOUS
  <2> HIDE DEF I, e
  <2>3. Cardinality(State) = Cardinality(I)
    BY Card DEF I
  <2>4. e \in Injection(State, I)
    BY ONLY <2>1, <2>3, Card, FS_SurjSameCardinalityImpliesInj
  <2> QED
    BY <2>2, <2>4 DEF Injection, IsInjective
<1>2. \A t \in State : Mem(f, f[t]) = {t}
  BY <1>1 DEF Mem
<1> QED
  BY <1>2 DEF BlocksOf, Singles

\* One more group would leave every state alone.
LEMMA AbortInv ==
  ASSUME HopInv, NEW s \in left, Abort(s)
  PROVE  HopInv' /\ [Abs!Next]_(Abs!vars)
<1>1. PICK g, k : g = group[s] /\ k = Cardinality(DOMAIN p)
  OBVIOUS
<1>0. /\ pc = "refine" /\ Splits(g) /\ p[g].current_split = None
      /\ total_states + 1 = N /\ total_states' = N /\ pc' = "rebuild"
      /\ net' = net /\ group' = group /\ p' = p /\ agenda' = agenda /\ used' = used
      /\ todo' = todo /\ current_w' = current_w /\ temp_move' = temp_move /\ left' = left
      /\ selfsplit' = selfsplit /\ result' = result
  BY <1>1 DEF Abort
<1>2. /\ k \in Nat /\ k \notin DOMAIN p /\ g \in DOMAIN p
      /\ Partly(home, g, temp_move)
      /\ \A t \in State : home[t] \in DOMAIN p
  <2>1. Splits(group[s]) /\ p[group[s]].current_split = None
    BY <1>0, <1>1
  <2> QED
    BY <2>1, <1>0, <1>1, OpenFacts
<1>3. home \in [State -> Nat] /\ \A t \in State : home[t] # k
  BY <1>2, InvFacts
<1>4. PICK f : f = Halved(home, g, temp_move, k)
  OBVIOUS
<1>5. HalvesInto(home, g, temp_move, k, f)
  BY ONLY <1>2, <1>3, <1>4, HalvedFacts
<1> DEFINE B == Mem(home, g)
<1>6. Cardinality({f[t] : t \in State}) = N
  <2>1. total_states = Cardinality({home[t] : t \in State})
    BY <1>0 DEF HopInv, Totals
  <2> QED
    BY ONLY <2>1, <1>0, <1>5 DEF HalvesInto
<1>8. BlocksOf(f) = Singles
  BY <1>6, Alone
<1>9. AbsBlocks = BlocksOf(home) /\ AbsBlocks' = Singles
  <2>1. total_states # N
    BY <1>0 DEF HopInv, Totals
  <2> QED
    BY <2>1, <1>0, Views
<1>10. AbsBlocks' = (AbsBlocks \ {B}) \cup {B \cap temp_move, B \ temp_move}
  BY ONLY <1>5, <1>8, <1>9 DEF HalvesInto
<1>11. B \in AbsBlocks /\ Abs!Cut(B)
  <2>1. B \cap temp_move # {} /\ B \ temp_move # {}
    BY <1>2 DEF Partly
  <2>2. PICK t \in B : TRUE
    BY <2>1
  <2>3. t \in State /\ home[t] = g
    BY DEF Mem
  <2> QED
    BY <2>1, <2>3, <1>9 DEF BlocksOf, Abs!Cut
<1>12. AbsWork' = {}
  BY <1>0 DEF AbsWork
<1>13. Abs!Discrete(AbsBlocks')
  BY <1>9 DEF Abs!Discrete, Singles
<1> HIDE DEF B
<1>14. Abs!Next
  BY <1>0, <1>10, <1>11, <1>12, <1>13 DEF Abs!Next, Abs!SplitBlock
<1>15. Types'
  <2>1. total_states' \in 1..N
    BY <1>0, MinimizeHopAssumption
  <2> QED
    BY <2>1, <1>0 DEF HopInv, Types, Entry
<1>16. Groups'
  BY <1>0 DEF HopInv, Groups
<1>17. Totals'
  <2>1. /\ Cardinality(DOMAIN p) <= total_states + 1
        /\ used <= 2 * total_states - (IF net.final = State THEN 1 ELSE 2)
        /\ used \in Nat /\ total_states \in 1..N
    BY DEF HopInv, Types, Totals, ArenasSuffice
  <2>2. k <= N
    BY <2>1, <1>0, <1>1
  <2> DEFINE d == IF net.final = State THEN 1 ELSE 2
  <2>3. d \in Nat /\ used <= 2 * total_states - d
    BY <2>1
  <2> HIDE DEF d
  <2>4. used <= 2 * N - d
    BY ONLY <2>1, <2>3, <1>0, MinimizeHopAssumption
  <2>5. k <= N + 1
    BY ONLY <2>2, <1>2, MinimizeHopAssumption
  <2> QED
    BY <2>4, <2>5, <1>0, <1>1 DEF Totals, ArenasSuffice, d
<1>18. Queue'
  BY <1>0 DEF HopInv, Queue, Distinct, Queued
<1>19. Tails'
  BY <1>0 DEF HopInv, Tails, Debts, Syms, InArcs
<1> QED
  BY <1>14, <1>15, <1>16, <1>17, <1>18, <1>19 DEF HopInv

-----------------------------------------------------------------------------

\* One state of each group, of the start state's group the start state.
Representatives(gr, fe) ==
  /\ fe \in [{gr[s] : s \in State} -> State]
  /\ \A g \in DOMAIN fe : gr[fe[g]] = g
  /\ fe[gr[0]] = 0

\* Groups are numbered in the order of those states.
Numbering(gr, fe, h) ==
  h = [s \in State |-> Cardinality({t \in {fe[g] : g \in DOMAIN fe} : t < fe[gr[s]]})]

\* rebuild_machine numbers the groups: same number, same group; and the start
\* state's group is number 0.
LEMMA Numbers ==
  ASSUME NEW gr, NEW fe, Representatives(gr, fe), NEW h, Numbering(gr, fe, h)
  PROVE  /\ h \in [State -> State]
         /\ h[0] = 0
         /\ \A s, t \in State : h[s] = h[t] <=> gr[s] = gr[t]
<1>a. PICK kept : kept = {fe[g] : g \in DOMAIN fe}
  OBVIOUS
<1> /\ fe \in [{gr[s] : s \in State} -> State]
    /\ \A g \in DOMAIN fe : gr[fe[g]] = g
    /\ fe[gr[0]] = 0
    /\ kept = {fe[g] : g \in DOMAIN fe}
    /\ h = [s \in State |-> Cardinality({t \in kept : t < fe[gr[s]]})]
  BY <1>a DEF Representatives, Numbering
<1>1. 0 \in State /\ State \subseteq Nat /\ \A s \in State : gr[s] \in DOMAIN fe
  BY MinimizeHopAssumption DEF State
<1>2. \A s \in State : fe[gr[s]] \in kept /\ fe[gr[s]] \in State /\ gr[fe[gr[s]]] = gr[s]
  BY <1>1
<1> DEFINE below(x) == {t \in kept : t < x}
<1>3. kept \subseteq State /\ \A t \in kept : t \in Int /\ 0 <= t
  <2>1. kept \subseteq State
    OBVIOUS
  <2> QED
    BY ONLY <2>1, <1>1
<1>4. ASSUME NEW x \in State
      PROVE  below(x) \in SUBSET State /\ Cardinality(below(x)) \in State
  <2>1. below(x) \in SUBSET State
    BY <1>3
  <2>2. below(x) \subseteq 0..(x - 1)
    <3>1. x \in Int
      BY <1>1
    <3>2. \A t \in kept : t < x => t \in 0..(x - 1)
      BY ONLY <3>1, <1>3
    <3> QED
      BY ONLY <3>2
  <2>3. IsFiniteSet(0..(x - 1)) /\ Cardinality(0..(x - 1)) = x
    <3>1. 0 \in Int /\ x - 1 \in Int /\ x \in Nat
      BY <1>1
    <3>2. IsFiniteSet(0..(x - 1))
          /\ Cardinality(0..(x - 1)) = IF 0 > x - 1 THEN 0 ELSE x - 1 - 0 + 1
      BY ONLY <3>1, FS_Interval
    <3> QED
      BY ONLY <3>1, <3>2
  <2> HIDE DEF below
  <2>4. Cardinality(below(x)) <= x /\ Cardinality(below(x)) \in Nat
    <3>1. IsFiniteSet(below(x)) /\ Cardinality(below(x)) <= x
      BY ONLY <2>2, <2>3, FS_Subset
    <3> QED
      BY ONLY <3>1, FS_CardinalityType
  <2> QED
    BY <2>1, <2>4, MinimizeHopAssumption DEF State
<1>5. ASSUME NEW x \in kept, NEW y \in kept, x < y
      PROVE  Cardinality(below(x)) # Cardinality(below(y))
  <2>1. below(x) \subseteq below(y)
    <3>1. \A t \in kept : t < x => t < y
      BY ONLY <1>3, <1>5, x \in kept, y \in kept
    <3> QED
      BY ONLY <3>1
  <2>2. x \in below(y) /\ x \notin below(x)
    BY <1>1, <1>3, <1>5
  <2>3. below(x) \in SUBSET State /\ below(y) \in SUBSET State
    BY <1>3
  <2> HIDE DEF below
  <2> QED
    BY <2>1, <2>2, <2>3, Card
<1>6. \A s \in State : h[s] = Cardinality(below(fe[gr[s]]))
  OBVIOUS
<1>7. ASSUME NEW s \in State, NEW t \in State, h[s] = h[t]
      PROVE  gr[s] = gr[t]
  <2> DEFINE x == fe[gr[s]]
             y == fe[gr[t]]
  <2>1. x \in kept /\ y \in kept /\ x \in Nat /\ y \in Nat
    BY <1>1, <1>2
  <2>2. Cardinality(below(x)) = Cardinality(below(y))
    BY <1>6, <1>7
  <2>3. gr[x] = gr[s] /\ gr[y] = gr[t]
    BY <1>2
  <2> HIDE DEF x, y, below
  <2>4. ~(x < y) /\ ~(y < x)
    BY <2>1, <2>2, <1>5
  <2>5. x = y
    BY <2>1, <2>4
  <2> QED
    BY <2>3, <2>5
<1>8. \A s, t \in State : gr[s] = gr[t] => h[s] = h[t]
  BY <1>6
<1>9. h \in [State -> State]
  <2>1. \A s \in State : h[s] \in State
    BY <1>2, <1>4, <1>6
  <2> QED
    BY <2>1
<1>10. h[0] = 0
  <2>1. below(0) = {}
    <3>1. \A t \in kept : ~(t < 0)
      BY ONLY <1>3
    <3> QED
      BY ONLY <3>1
  <2>2. h[0] = Cardinality(below(0))
    BY <1>1, <1>6
  <2> QED
    BY <2>1, <2>2, FS_EmptySet
<1> QED
  BY <1>7, <1>8, <1>9, <1>10

\* When the groups are final they are the classes of the coarsest congruence.
LEMMA Finished ==
  ASSUME HopInv, HP!Inv, pc = "rebuild"
  PROVE  \E f \in Abs!Grouping :
           /\ Abs!Congruence(f)
           /\ \A s, t \in State :
                f[s] = f[t] <=> IF total_states = N THEN s = t ELSE group[s] = group[t]
           /\ \A e \in Abs!Grouping : Abs!Congruence(e) =>
                \A s, t \in State : e[s] = e[t] => f[s] = f[t]
<1>0. HP!NetsAssumption
  BY DEF HP!NetsAssumption, HP!Machine, HP!Deterministic, Machine, Deterministic
<1>1. HP!TypeOK /\ HP!NeverSeparatesEquivalent
  BY DEF HP!Inv
<1>2. ASSUME total_states # N
      PROVE  /\ home = group
             /\ \A g \in DOMAIN p : Settled(net, group, p, temp_move, g)
             /\ \A s \in State : group[s] \in DOMAIN p
  <2>1. Quiet(net, group, p, temp_move, left) /\ net \in Machine(State, Symbol)
    BY <1>2 DEF HopInv, Types, Groups
  <2>2. HomeOf(group, p, left) = group
    BY ONLY <2>1, QuietHome
  <2>3. \A s \in State : group[s] \in DOMAIN p
    BY InvFacts
  <2> QED
    BY <2>1, <2>2, <2>3 DEF home, Quiet
<1>3. AbsBlocks = IF total_states = N THEN Singles ELSE BlocksOf(home)
  BY Views
<1>4. \A s, t \in State : (\E B \in AbsBlocks : s \in B /\ t \in B) <=>
                           IF total_states = N THEN s = t ELSE group[s] = group[t]
  <2> SUFFICES ASSUME NEW s \in State, NEW t \in State
               PROVE  (\E B \in AbsBlocks : s \in B /\ t \in B) <=>
                      IF total_states = N THEN s = t ELSE group[s] = group[t]
    OBVIOUS
  <2>1. CASE total_states = N
    <3>1. {s} \in AbsBlocks
      BY <2>1, <1>3 DEF Singles
    <3>2. \A B \in AbsBlocks : s \in B /\ t \in B => s = t
      BY <2>1, <1>3 DEF Singles
    <3> QED
      BY <2>1, <3>1, <3>2
  <2>2. CASE total_states # N
    <3>1. AbsBlocks = BlocksOf(group)
      BY <2>2, <1>2, <1>3
    <3>2. Mem(group, group[s]) \in AbsBlocks /\ s \in Mem(group, group[s])
      BY <3>1 DEF BlocksOf, Mem
    <3>3. ASSUME NEW B \in AbsBlocks, s \in B, t \in B
          PROVE  group[s] = group[t]
      <4>1. PICK u \in State : B = Mem(group, group[u])
        BY <3>1 DEF BlocksOf
      <4> QED
        BY <4>1, <3>3 DEF Mem
    <3>4. group[s] = group[t] => t \in Mem(group, group[s])
      BY DEF Mem
    <3> QED
      BY <2>2, <3>2, <3>3, <3>4
  <2> QED
    BY <2>1, <2>2
<1>5. HP!Terminated
  <2>1. AbsWork = {}
    BY DEF AbsWork
  <2>2. ASSUME NEW B \in AbsBlocks
        PROVE  ~HP!Cut(B)
    <3>1. CASE total_states = N
      BY <3>1, <1>3 DEF HP!Cut, Singles
    <3>2. CASE total_states # N
      <4>1. PICK s \in State : B = Mem(group, group[s])
        BY <3>2, <1>2, <1>3 DEF BlocksOf
      <4>2. B \subseteq temp_move \/ B \cap temp_move = {}
        BY <4>1, <3>2, <1>2 DEF Settled
      <4> QED
        BY <4>2 DEF HP!Cut
    <3> QED
      BY <3>1, <3>2
  <2> QED
    BY <2>1, <2>2 DEF HP!Terminated
<1>6. /\ HP!Canonical \in HP!Grouping
      /\ HP!Congruence(HP!Canonical)
      /\ \A s, t \in State :
           HP!Canonical[s] = HP!Canonical[t] <=> \E B \in AbsBlocks : s \in B /\ t \in B
  BY <1>0, <1>1, <1>5, HP!CanonicalFacts, HP!FinishedIsCongruence
<1>7. HP!Grouping = Abs!Grouping /\ \A f : HP!Congruence(f) <=> Abs!Congruence(f)
  BY DEF HP!Grouping, Abs!Grouping, HP!Congruence, Abs!Congruence
<1>8. ASSUME NEW e \in HP!Grouping, HP!Congruence(e), NEW s \in State, NEW t \in State,
             e[s] = e[t]
      PROVE  HP!Canonical[s] = HP!Canonical[t]
  <2>1. \A B \in AbsBlocks : s \in B => t \in B
    BY <1>1, <1>8 DEF HP!NeverSeparatesEquivalent
  <2>2. \E B \in AbsBlocks : s \in B
    BY <1>4
  <2> QED
    BY <2>1, <2>2, <1>6
<1> QED
  BY <1>4, <1>6, <1>7, <1>8

\* A function that merges the states that f merges is a congruence as f is.
LEMMA SameKernel ==
  ASSUME NEW f, NEW h, Abs!Congruence(f), \A s, t \in State : h[s] = h[t] <=> f[s] = f[t]
  PROVE  Abs!Congruence(h)
<1>1. \A s, t \in State : f[s] = f[t] =>
        /\ s \in net.final => t \in net.final
        /\ \A a \in Symbol, s1 \in State : <<s, a, s1>> \in net.arcs =>
             \E t1 \in State : <<t, a, t1>> \in net.arcs /\ f[t1] = f[s1]
  BY DEF Abs!Congruence
<1> SUFFICES ASSUME NEW s \in State, NEW t \in State, h[s] = h[t]
             PROVE  /\ s \in net.final => t \in net.final
                    /\ \A a \in Symbol, s1 \in State : <<s, a, s1>> \in net.arcs =>
                         \E t1 \in State : <<t, a, t1>> \in net.arcs /\ h[t1] = h[s1]
  BY DEF Abs!Congruence
<1>2. f[s] = f[t]
  OBVIOUS
<1>3. ASSUME NEW a \in Symbol, NEW s1 \in State, <<s, a, s1>> \in net.arcs
      PROVE  \E t1 \in State : <<t, a, t1>> \in net.arcs /\ h[t1] = h[s1]
  <2>1. PICK t1 \in State : <<t, a, t1>> \in net.arcs /\ f[t1] = f[s1]
    BY <1>1, <1>2, <1>3
  <2> QED
    BY <2>1
<1> QED
  BY <1>1, <1>2, <1>3

\* The machine with the states of n merged by h.
Merged(n, h) ==
  [final |-> {h[s] : s \in n.final},
   arcs |-> {<<h[e[1]], e[2], h[e[3]]>> : e \in n.arcs}]

\* The lines of one state of each group are those of the merged machine.
LEMMA OneOfEach ==
  ASSUME net \in Machine(State, Symbol),
         NEW h \in [State -> State], Abs!Congruence(h),
         NEW kept \in SUBSET State, \A s \in State : \E r \in kept : h[r] = h[s],
         NEW r0, r0 = [final |-> {h[s] : s \in kept \cap net.final},
                       arcs |-> {<<h[e[1]], e[2], h[e[3]]>> :
                                   e \in {x \in net.arcs : x[1] \in kept}}]
  PROVE  r0 = Merged(net, h)
<1>0. net.final \subseteq State /\ net.arcs \subseteq State \X Symbol \X State
  BY DEF Machine
<1>1. \A s, t \in State : h[s] = h[t] =>
        /\ s \in net.final => t \in net.final
        /\ \A a \in Symbol, s1 \in State : <<s, a, s1>> \in net.arcs =>
             \E t1 \in State : <<t, a, t1>> \in net.arcs /\ h[t1] = h[s1]
  BY DEF Abs!Congruence
<1>2. {h[s] : s \in kept \cap net.final} = {h[s] : s \in net.final}
  <2>1. ASSUME NEW s \in net.final
        PROVE  \E r \in kept \cap net.final : h[r] = h[s]
    <3>1. s \in State
      BY <1>0
    <3>2. PICK r \in kept : h[r] = h[s]
      BY <3>1
    <3> QED
      BY <3>1, <3>2, <1>1
  <2> QED
    BY <2>1
<1> DEFINE Image(E) == {<<h[e[1]], e[2], h[e[3]]>> : e \in E}
           Kept == {x \in net.arcs : x[1] \in kept}
<1>3. Image(Kept) = Image(net.arcs)
  <2>1. ASSUME NEW e \in net.arcs
        PROVE  \E x \in Kept : <<h[x[1]], x[2], h[x[3]]>> = <<h[e[1]], e[2], h[e[3]]>>
    <3>1. PICK s \in State, a \in Symbol, s1 \in State : e = <<s, a, s1>>
      BY <1>0
    <3>2. PICK r \in kept : h[r] = h[s]
      OBVIOUS
    <3>3. r \in State
      OBVIOUS
    <3>4. PICK t1 \in State : <<r, a, t1>> \in net.arcs /\ h[t1] = h[s1]
      <4>1. <<s, a, s1>> \in net.arcs
        BY <3>1
      <4>2. h[s] = h[r]
        BY <3>2
      <4>3. \A b \in Symbol, u \in State : <<s, b, u>> \in net.arcs =>
              \E t1 \in State : <<r, b, t1>> \in net.arcs /\ h[t1] = h[u]
        BY ONLY <4>2, <3>3, <1>1, s \in State
      <4> QED
        BY ONLY <4>1, <4>3, a \in Symbol, s1 \in State
    <3> DEFINE x == <<r, a, t1>>
    <3>5. x \in Kept /\ x[1] = r /\ x[2] = a /\ x[3] = t1
      BY <3>4
    <3>6. e[1] = s /\ e[2] = a /\ e[3] = s1
      BY <3>1
    <3> HIDE DEF x
    <3> QED
      BY <3>2, <3>4, <3>5, <3>6
  <2>2. ASSUME NEW y \in Image(net.arcs)
        PROVE  y \in Image(Kept)
    <3>1. PICK e \in net.arcs : y = <<h[e[1]], e[2], h[e[3]]>>
      OBVIOUS
    <3>2. PICK x \in Kept : <<h[x[1]], x[2], h[x[3]]>> = <<h[e[1]], e[2], h[e[3]]>>
      BY <2>1
    <3> QED
      BY ONLY <3>1, <3>2
  <2>3. Image(Kept) \subseteq Image(net.arcs)
    OBVIOUS
  <2> QED
    BY <2>2, <2>3
<1> QED
  BY <1>2, <1>3 DEF Merged

\* rebuild_machine returns the minimal machine.
LEMMA RebuildInv ==
  ASSUME HopInv, HP!Inv, Rebuild
  PROVE  HopInv' /\ [Abs!Next]_(Abs!vars) /\ MinimalResult'
<1>0. /\ pc = "rebuild" /\ pc' = "done"
      /\ net' = net /\ group' = group /\ p' = p /\ agenda' = agenda /\ used' = used
      /\ todo' = todo /\ current_w' = current_w /\ temp_move' = temp_move /\ left' = left
      /\ selfsplit' = selfsplit /\ total_states' = total_states
  BY DEF Rebuild
<1>1. home' = home
  BY <1>0 DEF home
<1>2. Debts = {} /\ Debts' = {}
  BY <1>0 DEF Debts
<1>3. UNCHANGED Abs!vars
  BY <1>0, <1>1, <1>2, Stutters
<1>4. HopInv'
  <2>1. Types'
    BY <1>0 DEF HopInv, Types, Entry
  <2>2. Groups'
    BY <1>0 DEF HopInv, Groups
  <2>3. Totals'
    BY <1>0, <1>1 DEF HopInv, Totals, ArenasSuffice
  <2>4. Queue'
    BY <1>0 DEF HopInv, Queue, Distinct, Queued
  <2>5. Tails'
    BY <1>0, <1>2 DEF HopInv, Tails, Syms, InArcs
  <2> QED
    BY <2>1, <2>2, <2>3, <2>4, <2>5 DEF HopInv
<1>5. PICK f \in Abs!Grouping :
        /\ Abs!Congruence(f)
        /\ \A s, t \in State :
             f[s] = f[t] <=> IF total_states = N THEN s = t ELSE group[s] = group[t]
        /\ \A e \in Abs!Grouping : Abs!Congruence(e) =>
             \A s, t \in State : e[s] = e[t] => f[s] = f[t]
  BY <1>0, Finished
<1>6. net \in Machine(State, Symbol) /\ result = net /\ 0 \in State
  BY <1>0, MinimizeHopAssumption DEF HopInv, Types, State
<1>7. \E h \in [State -> State] :
        /\ h[0] = 0
        /\ result' = Merged(net, h)
        /\ \A s, t \in State : h[s] = h[t] <=> f[s] = f[t]
  <2>1. CASE total_states = N /\ result' = result
    <3> DEFINE h == [s \in State |-> s]
    <3>1. net.final \subseteq State /\ net.arcs \subseteq State \X Symbol \X State
      BY <1>6 DEF Machine
    <3>2. {h[s] : s \in net.final} = net.final
      BY <3>1
    <3>3. {<<h[e[1]], e[2], h[e[3]]>> : e \in net.arcs} = net.arcs
      <4>1. \A e \in net.arcs : <<h[e[1]], e[2], h[e[3]]>> = e
        BY <3>1
      <4> HIDE DEF h
      <4> QED
        BY <4>1
    <3>4. net = [final |-> net.final, arcs |-> net.arcs]
      BY <1>6 DEF Machine
    <3>5. net = Merged(net, h)
      BY <3>2, <3>3, <3>4 DEF Merged
    <3>6. h \in [State -> State] /\ h[0] = 0 /\ \A s \in State : h[s] = s
      BY <1>6
    <3>7. \A s, t \in State : h[s] = h[t] <=> f[s] = f[t]
      BY <3>6, <2>1, <1>5
    <3> HIDE DEF h
    <3> QED
      BY <3>5, <3>6, <3>7, <2>1, <1>6
  <2>2. CASE total_states # N
    <3>1. PICK first_e \in [{group[s] : s \in State} -> State] :
            /\ \A g \in DOMAIN first_e : group[first_e[g]] = g
            /\ first_e[group[0]] = 0
            /\ LET kept == {first_e[g] : g \in DOMAIN first_e}
                   number(s) == Cardinality({t \in kept : t < first_e[group[s]]})
               IN result' = [final |-> {number(s) : s \in kept \cap net.final},
                             arcs |-> {<<number(e[1]), e[2], number(e[3])>> :
                                         e \in {x \in net.arcs : x[1] \in kept}}]
      BY <2>2 DEF Rebuild
    <3>2. PICK kept : kept = {first_e[g] : g \in DOMAIN first_e}
      OBVIOUS
    <3>3. PICK h : h = [s \in State |-> Cardinality({t \in kept : t < first_e[group[s]]})]
      OBVIOUS
    <3>4. /\ h \in [State -> State]
          /\ h[0] = 0
          /\ \A s, t \in State : h[s] = h[t] <=> group[s] = group[t]
      <4>1. Representatives(group, first_e)
        BY ONLY <3>1, first_e \in [{group[s] : s \in State} -> State] DEF Representatives
      <4>2. Numbering(group, first_e, h)
        BY ONLY <3>2, <3>3 DEF Numbering
      <4> QED
        BY ONLY <4>1, <4>2, Numbers
    <3>5. kept \in SUBSET State
      BY <3>2
    <3>6. net.final \subseteq State /\ net.arcs \subseteq State \X Symbol \X State
      BY <1>6 DEF Machine
    <3>7. result' = [final |-> {h[s] : s \in kept \cap net.final},
                     arcs |-> {<<h[e[1]], e[2], h[e[3]]>> :
                                 e \in {x \in net.arcs : x[1] \in kept}}]
      <4> DEFINE number(s) == Cardinality({t \in kept : t < first_e[group[s]]})
      <4>1. result' = [final |-> {number(s) : s \in kept \cap net.final},
                       arcs |-> {<<number(e[1]), e[2], number(e[3])>> :
                                   e \in {x \in net.arcs : x[1] \in kept}}]
        BY ONLY <3>1, <3>2
      <4>2. \A s \in State : number(s) = h[s]
        BY ONLY <3>3
      <4> HIDE DEF number
      <4>3. {number(s) : s \in kept \cap net.final} = {h[s] : s \in kept \cap net.final}
        BY <4>2, <3>5
      <4>4. \A e \in net.arcs : <<number(e[1]), e[2], number(e[3])>> = <<h[e[1]], e[2], h[e[3]]>>
        BY <4>2, <3>6
      <4>5. {<<number(e[1]), e[2], number(e[3])>> : e \in {x \in net.arcs : x[1] \in kept}}
              = {<<h[e[1]], e[2], h[e[3]]>> : e \in {x \in net.arcs : x[1] \in kept}}
        BY ONLY <4>4
      <4> QED
        BY ONLY <4>1, <4>3, <4>5
    <3>8. \A s, t \in State : h[s] = h[t] <=> f[s] = f[t]
      BY <3>4, <2>2, <1>5
    <3>9. \A s \in State : \E r \in kept : h[r] = h[s]
      <4> TAKE s \in State
      <4>1. first_e[group[s]] \in kept /\ group[first_e[group[s]]] = group[s]
        BY <3>1, <3>2
      <4> QED
        BY <4>1, <3>4, <3>5
    <3>10. Abs!Congruence(h)
      BY ONLY <3>8, <1>5, SameKernel
    <3>11. result' = Merged(net, h)
      BY ONLY <3>4, <3>5, <3>7, <3>9, <3>10, <1>6, OneOfEach, ZenonT(60)
    <3> QED
      BY <3>4, <3>8, <3>11
  <2> QED
    BY <2>1, <2>2 DEF Rebuild
<1>8. MinimalResult'
  <2>1. PICK h \in [State -> State] :
          /\ h[0] = 0
          /\ result' = Merged(net, h)
          /\ \A s, t \in State : h[s] = h[t] <=> f[s] = f[t]
    BY <1>7
  <2>2. Abs!Congruence(h)
    BY ONLY <2>1, <1>5, SameKernel
  <2>3. \A e \in Abs!Grouping : Abs!Congruence(e) =>
          \A s, t \in State : e[s] = e[t] => h[s] = h[t]
    BY <2>1, <1>5
  <2>4. \A e : Abs!Congruence(e)' <=> Abs!Congruence(e)
    BY <1>0 DEF Abs!Congruence
  <2> QED
    BY <2>1, <2>2, <2>3, <2>4, <1>0 DEF MinimalResult, Merged, Abs!Grouping
<1> QED
  BY <1>3, <1>4, <1>8

-----------------------------------------------------------------------------

\* A trim machine has a final state.
LEMMA HasFinal ==
  ASSUME NEW n, Trim(State, n)
  PROVE  n.final # {}
<1>1. 0 \in State
  BY MinimizeHopAssumption DEF State
<1> SUFFICES ASSUME n.final = {}
             PROVE  FALSE
  OBVIOUS
<1> DEFINE R == {<<e[3], e[1]>> : e \in n.arcs}
<1>2. 0 \in Reach(State, R, {})
  BY <1>1 DEF Trim
<1> HIDE DEF R
<1>3. \A T \in SUBSET State : {} \subseteq T /\ (\A r \in R : r[1] \in T => r[2] \in T) => 0 \in T
  BY <1>2 DEF Reach
<1> QED
  BY <1>3

\* The groups init_PE makes.
LEMMA InitFacts ==
  ASSUME Init
  PROVE  /\ net \in Machine(State, Symbol) /\ net.final # {} /\ net.final \subseteq State
         /\ DOMAIN p = 0..1
         /\ Mem(group, FP) = net.final /\ Mem(group, nonFP) = State \ net.final
         /\ Quiet(net, group, p, temp_move, left)
         /\ home = group
         /\ agenda \in Seq(Entry) /\ Distinct(agenda)
         /\ Debts = Entries(agenda)
         /\ Entries(agenda) =
              {<<FP, 0>>} \cup (IF net.final = State THEN {} ELSE {<<nonFP, 0>>})
         /\ used = total_states
         /\ total_states = IF net.final = State THEN 1 ELSE 2
         /\ total_states = Cardinality({group[s] : s \in State})
<1>1. net \in Machine(State, Symbol) /\ net.final # {} /\ net.final \subseteq State
  BY MinimizeHopAssumption, HasFinal DEF Init, Machine
<1>2. /\ group = [s \in State |-> IF s \in net.final THEN 1 ELSE 0]
      /\ p = [g \in {0, 1} |-> NewGroup(Cardinality(Members(g)), InCount(net, Members(g)))]
      /\ left = {} /\ temp_move = {} /\ pc = "agenda"
      /\ used = Len(agenda) /\ total_states = Len(agenda)
  BY DEF Init, FP, nonFP
<1>3. DOMAIN p = 0..1 /\ DOMAIN p = {0, 1}
  BY <1>2
<1>4. Mem(group, 1) = net.final /\ Mem(group, 0) = State \ net.final
  BY <1>1, <1>2 DEF Mem
<1>5. \A g : Members(g) = Mem(group, g)
  BY DEF Members, Mem
<1>6. \A g \in DOMAIN p :
        p[g] = NewGroup(Cardinality(Mem(group, g)), InCount(net, Mem(group, g)))
  BY <1>2, <1>3, <1>5
<1>7. Quiet(net, group, p, temp_move, left)
  <2>1. \A g \in DOMAIN p : p[g] \in Counter
    <3> TAKE g \in DOMAIN p
    <3>1. Mem(group, g) \in SUBSET State
      BY DEF Mem
    <3>2. Cardinality(Mem(group, g)) \in Nat /\ InCount(net, Mem(group, g)) \in Nat
      BY <3>1, <1>1, Card, ArcCount
    <3> QED
      BY <3>2, <1>6, NewGroupType
  <2>2. p \in [DOMAIN p -> Counter]
    <3>1. p = [g \in DOMAIN p |-> p[g]]
      BY <1>2
    <3> QED
      BY ONLY <3>1, <2>1
  <2>3. \E k \in 0..N : DOMAIN p = 0..k
    <3>1. 1 \in 0..N
      BY MinimizeHopAssumption
    <3> QED
      BY <3>1, <1>3
  <2>4. group \in [State -> DOMAIN p]
    BY <1>2, <1>3
  <2>5. \A g \in DOMAIN p : Settled(net, group, p, temp_move, g)
    BY <1>2, <1>6 DEF Settled
  <2> QED
    BY <2>2, <2>3, <2>4, <2>5, <1>2 DEF Quiet, Grouped
<1>8. home = group
  <2>1. HomeOf(group, p, left) = group
    BY ONLY <1>1, <1>7, QuietHome
  <2> QED
    BY <2>1 DEF home
<1> DEFINE rest == IF net.final = State THEN <<>> ELSE <<[p |-> 0, index |-> 0]>>
           X == [p : DOMAIN p, index : {0, 1}]
<1>9. agenda = <<[p |-> 1, index |-> 0]>> \o rest
  BY <1>1, <1>4, <1>5 DEF Init, FP, nonFP
<1>10. /\ agenda \in Seq(X) /\ Distinct(agenda)
       /\ Entries(agenda) =
            {<<1, 0>>} \cup (IF net.final = State THEN {} ELSE {<<0, 0>>})
       /\ Len(agenda) = IF net.final = State THEN 1 ELSE 2
  <2>1. [p |-> 1, index |-> 0] \in X /\ [p |-> 0, index |-> 0] \in X
    BY <1>3
  <2>2. CASE net.final = State
    <3>1. agenda = <<[p |-> 1, index |-> 0]>>
      BY <2>2, <1>9
    <3>2. agenda \in Seq(X) /\ Len(agenda) = 1
      BY <3>1, <2>1
    <3>3. DOMAIN agenda = {1} /\ agenda[1].p = 1 /\ agenda[1].index = 0
      BY <3>1
    <3> QED
      BY <3>2, <3>3, <2>2 DEF Distinct, Entries
  <2>3. CASE net.final # State
    <3> DEFINE one == <<[p |-> 0, index |-> 0]>>
    <3>1. one \in Seq(X) /\ Len(one) = 1
      BY <2>1
    <3>2. DOMAIN one = {1} /\ one[1].p = 0 /\ one[1].index = 0
      OBVIOUS
    <3>3. agenda = AgendaAdd(one, 1, 0)
      BY <2>3, <1>9 DEF AgendaAdd
    <3> HIDE DEF one
    <3>4. Entries(one) = {<<0, 0>>} /\ Distinct(one) /\ ~Queued(one, 1)
      BY <3>2 DEF Entries, Distinct, Queued
    <3>5. Added(DOMAIN p, one, 1, 0, agenda)
      BY ONLY <3>1, <3>3, <1>3, 0 \in {0, 1}, 1 \in DOMAIN p, AddFacts
    <3> QED
      BY <3>1, <3>4, <3>5, <2>3 DEF Added
  <2> QED
    BY <2>2, <2>3
<1>11. Debts = Entries(agenda)
  BY <1>2 DEF Debts
<1>12. Cardinality({group[s] : s \in State}) = IF net.final = State THEN 1 ELSE 2
  <2>1. CASE net.final = State
    <3>1. {group[s] : s \in State} = {1}
      BY <2>1, <1>1, <1>2
    <3> QED
      BY <2>1, <3>1, FS_Singleton
  <2>2. CASE net.final # State
    <3>1. PICK s \in State, t \in State : s \in net.final /\ t \notin net.final
      BY <2>2, <1>1
    <3>2. group[s] = 1 /\ group[t] = 0 /\ \A u \in State : group[u] \in {0, 1}
      BY <3>1, <1>2
    <3>3. {group[u] : u \in State} = {0, 1}
      BY <3>2
    <3>4. IsFiniteSet({0}) /\ Cardinality({0}) = 1
      BY FS_Singleton
    <3>5. Cardinality({0} \cup {1}) = 2
      BY <3>4, FS_AddElement
    <3>6. {0} \cup {1} = {0, 1}
      OBVIOUS
    <3> QED
      BY <2>2, <3>3, <3>5, <3>6
  <2> QED
    BY <2>1, <2>2
<1> QED
  BY <1>1, <1>2, <1>3, <1>4, <1>7, <1>8, <1>10, <1>11, <1>12 DEF FP, nonFP, Entry

\* The program starts in the invariant, and as Hopcroft does.
LEMMA InitInv ==
  ASSUME Init
  PROVE  HopInv /\ Abs!Init /\ MinimalResult
<1>1. /\ net \in Machine(State, Symbol) /\ net.final # {} /\ net.final \subseteq State
      /\ DOMAIN p = 0..1
      /\ Mem(group, FP) = net.final /\ Mem(group, nonFP) = State \ net.final
      /\ Quiet(net, group, p, temp_move, left)
      /\ home = group
      /\ agenda \in Seq(Entry) /\ Distinct(agenda)
      /\ Debts = Entries(agenda)
      /\ Entries(agenda) =
           {<<FP, 0>>} \cup (IF net.final = State THEN {} ELSE {<<nonFP, 0>>})
      /\ used = total_states
      /\ total_states = IF net.final = State THEN 1 ELSE 2
      /\ total_states = Cardinality({group[s] : s \in State})
  BY InitFacts
<1>2. /\ pc = "agenda" /\ todo = [s \in State |-> {}] /\ temp_move = {} /\ selfsplit = FALSE
      /\ result = net
      /\ \A s \in State : group[s] = IF s \in net.final THEN FP ELSE nonFP
  BY DEF Init
<1>3. total_states \in 1..N
  <2> DEFINE I == {group[s] : s \in State}
  <2>1. group \in [State -> I] /\ group \in Surjection(State, I)
    <3>1. group = [s \in State |-> group[s]]
      BY DEF Init
    <3> QED
      BY <3>1 DEF Surjection
  <2> HIDE DEF I
  <2>2. Cardinality(I) <= Cardinality(State)
    BY ONLY <2>1, Card, FS_Surjection
  <2>3. Cardinality(I) \in {1, 2} /\ Cardinality(State) = N /\ N \in Nat
    BY <1>1, Card, MinimizeHopAssumption DEF I
  <2>4. total_states = Cardinality(I)
    BY <1>1 DEF I
  <2> QED
    BY ONLY <2>2, <2>3, <2>4
<1>4. HopInv
  <2>1. Types
    <3>1. used \in Nat
      BY ONLY <1>1
    <3> QED
      BY <3>1, <1>1, <1>2, <1>3 DEF Types
  <2>2. Groups
    <3>1. Grouped(group, p)
      BY <1>1 DEF Quiet
    <3>2. \A g \in DOMAIN p : p[g].t_count <= p[g].count
      BY ONLY <1>1, CountsBounded
    <3> QED
      BY <3>1, <3>2, <1>1, <1>2 DEF Groups
  <2>3. Totals
    <3>1. Cardinality(0..1) = 2
      <4>1. PICK j \in Nat : j = 1
        OBVIOUS
      <4>2. Cardinality(0..j) = j - 0 + 1
        <5>1. 0 \in Int /\ j \in Int /\ j >= 0
          BY <4>1
        <5> QED
          BY <5>1, FS_Interval
      <4> QED
        BY <4>1, <4>2
    <3> QED
      BY <3>1, <1>1, <1>2 DEF Totals, ArenasSuffice
  <2>4. Queue
    BY <1>1, <1>2 DEF Queue
  <2>5. Tails
    BY <1>1, <1>2 DEF Tails
  <2> QED
    BY <2>1, <2>2, <2>3, <2>4, <2>5 DEF HopInv
<1>5. BlocksOf(group) = {net.final, State \ net.final} \ {{}}
  <2>1. ASSUME NEW s \in State
        PROVE  Mem(group, group[s]) \in {net.final, State \ net.final} \ {{}}
    <3>1. s \in Mem(group, group[s])
      BY DEF Mem
    <3> QED
      BY <3>1, <1>1, <1>2
  <2>2. ASSUME NEW B \in {net.final, State \ net.final} \ {{}}
        PROVE  B \in BlocksOf(group)
    <3>1. PICK s \in B : TRUE
      BY <2>2
    <3>2. s \in State /\ B = Mem(group, group[s])
      BY <3>1, <2>2, <1>1, <1>2
    <3> QED
      BY <3>2 DEF BlocksOf
  <2> QED
    BY <2>1, <2>2 DEF BlocksOf
<1>6. AbsBlocks = {net.final, State \ net.final} \ {{}}
  <2>1. CASE total_states = N
    <3>1. BlocksOf(group) = Singles
      BY <2>1, <1>1, Alone
    <3> QED
      BY <3>1, <2>1, <1>5, Views
  <2>2. CASE total_states # N
    BY <2>2, <1>1, <1>5, Views
  <2> QED
    BY <2>1, <2>2
<1>7. AbsWork = Abs!Splitters(AbsBlocks)
  <2>1. \A B, a : <<B, a>> \in AbsWork <=>
                    B \in AbsBlocks /\ \E t \in B : a \in Syms(net, t)
    <3> TAKE B, a
    <3>1. <<B, a>> \in AbsWork <=> Owes(net, group, todo, Entries(agenda), B, a)
      BY <1>1, Views
    <3>2. Owes(net, group, todo, Entries(agenda), B, a) <=>
            \E d \in Entries(agenda) : OwedBy(net, group, todo, d, B, a)
      BY ONLY OwesUnion
    <3>3. \A g : OwedBy(net, group, todo, <<g, 0>>, B, a) <=>
                   B = Mem(group, g) /\ \E t \in B : a \in Syms(net, t)
      BY DEF OwedBy
    <3>4. (\E d \in Entries(agenda) : OwedBy(net, group, todo, d, B, a)) <=>
            \/ OwedBy(net, group, todo, <<FP, 0>>, B, a)
            \/ net.final # State /\ OwedBy(net, group, todo, <<nonFP, 0>>, B, a)
      <4>1. CASE net.final = State
        <5>1. Entries(agenda) = {<<FP, 0>>}
          BY <4>1, <1>1
        <5> QED
          BY <5>1, <4>1
      <4>2. CASE net.final # State
        <5>1. Entries(agenda) = {<<FP, 0>>, <<nonFP, 0>>}
          BY <4>2, <1>1
        <5> QED
          BY <5>1, <4>2
      <4> QED
        BY <4>1, <4>2
    <3>5. B \in AbsBlocks /\ (\E t \in B : a \in Syms(net, t)) <=>
            \/ B = net.final /\ \E t \in B : a \in Syms(net, t)
            \/ net.final # State /\ B = State \ net.final /\ \E t \in B : a \in Syms(net, t)
      BY <1>1, <1>6
    <3> QED
      BY ONLY <3>1, <3>2, <3>3, <3>4, <3>5, <1>1
  <2>2. ASSUME NEW B \in AbsBlocks, NEW a
        PROVE  /\ Abs!Pre(B, a) # {} <=> \E t \in B : a \in Syms(net, t)
               /\ (\E t \in B : a \in Syms(net, t)) => a \in Symbol
    <3>1. B \in SUBSET State
      BY <2>2, <1>1, <1>6
    <3>2. Abs!Pre(B, a) # {} <=> \E t \in B : a \in Syms(net, t)
      BY ONLY <3>1, <1>1, PreFacts
    <3> QED
      BY <3>1, <3>2, <1>1, ArcCount
  <2>3. ASSUME NEW w \in AbsWork
        PROVE  w \in Abs!Splitters(AbsBlocks)
    <3>1. w = <<w[1], w[2]>>
      BY Views
    <3>2. w[1] \in AbsBlocks /\ \E t \in w[1] : w[2] \in Syms(net, t)
      BY ONLY <3>1, <2>1, w \in AbsWork
    <3>3. w[2] \in Symbol /\ Abs!Pre(w[1], w[2]) # {}
      BY <3>2, <2>2
    <3>4. w \in AbsBlocks \X Symbol
      BY ONLY <3>1, <3>2, <3>3
    <3> QED
      BY <3>3, <3>4 DEF Abs!Splitters
  <2>4. ASSUME NEW w \in Abs!Splitters(AbsBlocks)
        PROVE  w \in AbsWork
    <3>1. w \in AbsBlocks \X Symbol /\ Abs!Pre(w[1], w[2]) # {}
      BY DEF Abs!Splitters
    <3>2. w = <<w[1], w[2]>> /\ w[1] \in AbsBlocks
      BY ONLY <3>1
    <3>3. \E t \in w[1] : w[2] \in Syms(net, t)
      BY <3>1, <3>2, <2>2
    <3>4. <<w[1], w[2]>> \in AbsWork
      BY ONLY <3>2, <3>3, <2>1
    <3> QED
      BY ONLY <3>2, <3>4
  <2> QED
    BY <2>3, <2>4
<1>8. Abs!Init
  BY <1>1, <1>2, <1>6, <1>7 DEF Abs!Init
<1> QED
  BY <1>2, <1>4, <1>8 DEF MinimalResult

-----------------------------------------------------------------------------

\* The states touched are states, and those still to be visited were touched.
Moves == left \subseteq temp_move /\ temp_move \subseteq State

\* What every reachable state satisfies.
IInv == HopInv /\ Moves /\ HP!Inv /\ MinimalResult

LEMMA MovesInv ==
  ASSUME HopInv, Moves, [Next]_vars
  PROVE  Moves'
<1>1. ASSUME NextSymbol
      PROVE  Moves'
  <2>1. net.arcs \subseteq State \X Symbol \X State
    BY DEF HopInv, Types, Machine
  <2>2. temp_move' \subseteq State /\ left' = temp_move'
    BY <1>1, <2>1 DEF NextSymbol
  <2> QED
    BY <2>2 DEF Moves
<1>2. ASSUME Refine
      PROVE  Moves'
  BY <1>2 DEF Moves, Refine, KeepGroup, SkipState, Abort, SplitFirst, SplitMore
<1>3. ASSUME PopAgenda \/ EndRefine \/ SymbolsDone \/ AgendaEmpty \/ Rebuild
      PROVE  Moves'
  BY <1>3 DEF Moves, PopAgenda, EndRefine, SymbolsDone, AgendaEmpty, Rebuild
<1>4. CASE UNCHANGED vars
  BY <1>4 DEF Moves, vars
<1> QED
  BY <1>1, <1>2, <1>3, <1>4 DEF Next

\* Nothing is returned before the last step.
LEMMA NotDone ==
  ASSUME pc' # "done"
  PROVE  MinimalResult'
BY DEF MinimalResult

\* A step that changes nothing.
LEMMA StutterInv ==
  ASSUME HopInv, MinimalResult, UNCHANGED vars
  PROVE  HopInv' /\ UNCHANGED Abs!vars /\ MinimalResult'
<1>0. /\ net' = net /\ group' = group /\ p' = p /\ agenda' = agenda /\ used' = used
      /\ todo' = todo /\ current_w' = current_w /\ temp_move' = temp_move /\ left' = left
      /\ selfsplit' = selfsplit /\ total_states' = total_states /\ pc' = pc
      /\ result' = result
  BY DEF vars
<1>1. home' = home
  BY <1>0 DEF home
<1>2. Debts' = Debts
  BY <1>0 DEF Debts, Entries, Queued
<1>3. UNCHANGED Abs!vars
  BY <1>0, <1>1, <1>2, Stutters
<1>4. Types'
  BY <1>0 DEF HopInv, Types, Entry
<1>5. Groups'
  BY <1>0 DEF HopInv, Groups
<1>6. Totals'
  BY <1>0, <1>1 DEF HopInv, Totals, ArenasSuffice
<1>7. Queue'
  BY <1>0 DEF HopInv, Queue, Distinct, Queued
<1>8. Tails'
  BY <1>0, <1>1, <1>2 DEF HopInv, Tails
<1>9. MinimalResult'
  <2>1. \A e : Abs!Congruence(e)' <=> Abs!Congruence(e)
    BY <1>0 DEF Abs!Congruence
  <2> QED
    BY <2>1, <1>0 DEF MinimalResult, Abs!Grouping
<1> QED
  BY <1>3, <1>4, <1>5, <1>6, <1>7, <1>8, <1>9 DEF HopInv

\* A step of Hopcroft keeps its invariant.
LEMMA HopcroftStep ==
  ASSUME HP!Inv, [Abs!Next]_(Abs!vars)
  PROVE  HP!Inv'
<1>1. Abs!Next => HP!Next
  BY DEF Abs!Next, HP!Next, Abs!TakeSplitter, HP!TakeSplitter, Abs!SplitBlock, HP!SplitBlock,
         Abs!Stop, HP!Stop, Abs!Cut, HP!Cut, Abs!Pre, HP!Pre, Abs!Discrete, HP!Discrete,
         Abs!Requeues, HP!Requeues, Abs!Splitters, HP!Splitters
<1>2. UNCHANGED Abs!vars => UNCHANGED HP!vars
  BY DEF Abs!vars, HP!vars
<1>3. HP!NetsAssumption
  BY DEF HP!NetsAssumption, HP!Machine, HP!Deterministic, Machine, Deterministic
<1> QED
  BY <1>1, <1>2, <1>3, HP!NextInv

\* Every step keeps the invariant and is a step of Hopcroft or none.
LEMMA NextInv ==
  ASSUME IInv, [Next]_vars
  PROVE  IInv' /\ [Abs!Next]_(Abs!vars)
<1>0. HopInv /\ Moves /\ HP!Inv /\ MinimalResult
  BY DEF IInv
<1>1. HopInv' /\ [Abs!Next]_(Abs!vars) /\ MinimalResult'
  <2>1. CASE PopAgenda
    BY <2>1, <1>0, PopAgendaInv, NotDone DEF PopAgenda
  <2>2. CASE NextSymbol
    <3>1. pc' # "done"
      BY <2>2 DEF NextSymbol
    <3> QED
      BY <3>1, <2>2, <1>0, NextSymbolInv, NotDone
  <2>3. CASE Refine
    <3>1. PICK s \in left : \/ KeepGroup(s)
                            \/ SkipState(s)
                            \/ Abort(s)
                            \/ SplitFirst(s)
                            \/ SplitMore(s)
      BY <2>3 DEF Refine
    <3>2. pc' # "done"
      BY <3>1 DEF KeepGroup, SkipState, Abort, SplitFirst, SplitMore
    <3>3. HopInv' /\ [Abs!Next]_(Abs!vars)
      BY <3>1, <1>0, KeepGroupInv, SkipStateInv, AbortInv, SplitFirstInv, SplitMoreInv
    <3> QED
      BY <3>2, <3>3, NotDone
  <2>4. CASE EndRefine
    <3>1. pc' # "done"
      BY <2>4 DEF EndRefine
    <3> QED
      BY <3>1, <2>4, <1>0, EndRefineInv, NotDone
  <2>5. CASE SymbolsDone
    <3>1. pc' # "done"
      BY <2>5 DEF SymbolsDone
    <3> QED
      BY <3>1, <2>5, <1>0, SymbolsDoneInv, NotDone
  <2>6. CASE AgendaEmpty
    <3>1. pc' # "done"
      BY <2>6 DEF AgendaEmpty
    <3> QED
      BY <3>1, <2>6, <1>0, AgendaEmptyInv, NotDone
  <2>7. CASE Rebuild
    BY <2>7, <1>0, RebuildInv
  <2>8. CASE UNCHANGED vars
    BY <2>8, <1>0, StutterInv
  <2> QED
    BY <2>1, <2>2, <2>3, <2>4, <2>5, <2>6, <2>7, <2>8 DEF Next
<1>2. HP!Inv'
  BY <1>0, <1>1, HopcroftStep
<1>3. Moves'
  BY <1>0, MovesInv
<1> QED
  BY <1>1, <1>2, <1>3 DEF IInv

\* The first state satisfies the invariant.
LEMMA StartInv == Init => IInv /\ Abs!Init
<1> SUFFICES ASSUME Init
             PROVE  IInv /\ Abs!Init
  OBVIOUS
<1>1. HopInv /\ Abs!Init /\ MinimalResult
  BY InitInv
<1>2. HP!Inv
  <2>1. HP!Init
    BY <1>1 DEF Abs!Init, HP!Init, Abs!Splitters, HP!Splitters, Abs!Pre, HP!Pre
  <2>2. HP!NetsAssumption
    BY DEF HP!NetsAssumption, HP!Machine, HP!Deterministic, Machine, Deterministic
  <2> QED
    BY <2>1, <2>2, HP!InitInv
<1>3. Moves
  BY DEF Init, Moves
<1> QED
  BY <1>1, <1>2, <1>3 DEF IInv

-----------------------------------------------------------------------------

(***************************************************************************)
(* Every state is in a group that exists, the agenda holds such groups,    *)
(* and only touched states are left to visit.                              *)
(***************************************************************************)
THEOREM TypeCorrect == Spec => []TypeOK
<1>1. IInv => TypeOK
  <2> SUFFICES ASSUME IInv
               PROVE  TypeOK
    OBVIOUS
  <2>1. Types /\ Grouped(group, p) /\ Moves
    BY DEF IInv, HopInv, Groups
  <2>2. \A k \in DOMAIN agenda : agenda[k] \in [p : DOMAIN p, index : {0, 1}]
    <3>1. \A A : \A q \in Seq(A) : \A j \in DOMAIN q : q[j] \in A
      OBVIOUS
    <3>2. agenda \in Seq(Entry)
      BY <2>1 DEF Types
    <3>3. \A k \in DOMAIN agenda : agenda[k] \in Entry
      BY ONLY <3>1, <3>2
    <3> QED
      BY <3>3 DEF Entry
  <2> QED
    BY <2>1, <2>2 DEF Types, Grouped, Moves, TypeOK
<1> QED
  BY StartInv, NextInv, <1>1, PTL DEF Spec

(***************************************************************************)
(* fsm_minimize_hop is an implementation of Hopcroft's refinement: its     *)
(* agenda indexes, tails and half-done splits never lose a debt.           *)
(***************************************************************************)
THEOREM Implements == Spec => ImplementsHopcroft
<1>1. Init => Abs!Init /\ IInv
  BY StartInv
<1>2. IInv /\ [Next]_vars => IInv' /\ [Abs!Next]_(Abs!vars)
  BY NextInv
<1> QED
  BY <1>1, <1>2, PTL DEF Spec, ImplementsHopcroft

(***************************************************************************)
(* The counters that refine_states changes state by state agree with the   *)
(* lists whenever it has returned, and its assertion never fails.          *)
(***************************************************************************)
THEOREM CountersRight == Spec => []CountersAgree
<1>1. IInv => CountersAgree
  <2> SUFFICES ASSUME IInv
               PROVE  CountersAgree
    OBVIOUS
  <2>1. \A g \in DOMAIN p : p[g].t_count <= p[g].count
    BY DEF IInv, HopInv, Groups
  <2>2. pc \in {"agenda", "symbols"} => Quiet(net, group, p, temp_move, left)
    BY DEF IInv, HopInv, Groups
  <2>3. \A g : Members(g) = Mem(group, g)
    BY DEF Members, Mem
  <2> QED
    BY <2>1, <2>2, <2>3 DEF CountersAgree, Quiet, Settled
<1> QED
  BY StartInv, NextInv, <1>1, PTL DEF Spec

(***************************************************************************)
(* The arenas that init_PE allocates for groups and agenda entries are     *)
(* never overrun.                                                          *)
(***************************************************************************)
THEOREM ArenasHold == Spec => []ArenasSuffice
<1>1. IInv => ArenasSuffice
  BY DEF IInv, HopInv, Totals
<1> QED
  BY StartInv, NextInv, <1>1, PTL DEF Spec

(***************************************************************************)
(* What fsm_minimize_hop returns is its argument with exactly the          *)
(* equivalent states merged, state 0 being the start state still.          *)
(***************************************************************************)
THEOREM ReturnsMinimal == Spec => []MinimalResult
<1>1. IInv => MinimalResult
  BY DEF IInv
<1> QED
  BY StartInv, NextInv, <1>1, PTL DEF Spec
=============================================================================
