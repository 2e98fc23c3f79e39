---------------------------- MODULE TopsortProofs ----------------------------
(***************************************************************************)
(* fsm_topsort finds a cycle exactly when there is one, orders the states  *)
(* when there is none, and then counts the paths as long as they fit: the  *)
(* proof, for machines of any size, in which the states are entered by     *)
(* fewer arcs than invcount can count (without that it does not hold).     *)
(*                                                                         *)
(* The heart of it is Counters (invcount is the number of arcs still to be *)
(* followed) with Stacked (a state waits exactly when all arcs into it     *)
(* have been followed): the states never treated are entered from among    *)
(* themselves, which in a finite machine means a cycle.  For the paths it  *)
(* is Counted: pathcount is the sum over the arcs that were followed; at   *)
(* the end, when all were, the walks have the same sums (WalksFollowArcs). *)
(***************************************************************************)
EXTENDS Topsort, FiniteSetTheorems, TLAPS

-----------------------------------------------------------------------------

\* No state has more arcs leading to it than invcount can count.
Narrow == \A t \in State : Cardinality(InArcs(t)) < InvLimit

\* Some arc leads to every state but 0, as in a machine whose states can all be reached.
Entered == \A t \in State \ {0} : \E s \in State : t \in Targets(s)

\* The arcs into t that are still to be followed.
Open(s, t) == s \notin treated \/ (pc = "arcs" /\ s = curr_state /\ t \in targets)
OpenArcs(t) == {a \in InArcs(t) : Open(a[1], t)}

Entering(t) == \E s \in treated : t \in Targets(s)

\* The states are being treated.
Working == pc \in {"pop", "arcs"}

Tables ==
  /\ net \in Nets
  /\ pc \in {"start", "pop", "arcs", "done"}
  /\ treated \subseteq State /\ targets \subseteq State
  /\ int_stack \in Seq(State) /\ order \in Seq(State)
  /\ pc = "start" => treated = {} /\ order = <<>>
  /\ Working => \A s \in State : s \notin Targets(s)
  /\ pc = "arcs" => curr_state \in treated /\ targets \subseteq Targets(curr_state)

\* invcount counts the arcs still to be followed.
Counters ==
  Working => invcount = [t \in State |-> Cardinality(OpenArcs(t))]

\* On the stack, each once, are the states to which all arcs have been followed, but for
\* state 0 at the start.
Stacked ==
  Working =>
    /\ \A a, b \in DOMAIN int_stack : int_stack[a] = int_stack[b] => a = b
    /\ \A a \in DOMAIN int_stack :
         LET x == int_stack[a]
         IN /\ x \notin treated
            /\ \/ x = 0 /\ treated = {} /\ Len(int_stack) = 1
               \/ OpenArcs(x) = {} /\ Entering(x)
    /\ \A x \in State \ treated :
         x = 0 \/ (InArcs(x) # {} /\ OpenArcs(x) = {}) => \E a \in DOMAIN int_stack : int_stack[a] = x

\* State 0 is treated first; a state treated later was entered, and by followed arcs only.
Treated ==
  Working =>
    /\ treated # {} => 0 \in treated
    /\ \A x \in treated \ {0} : OpenArcs(x) = {} /\ Entering(x)

\* The states treated, each at one place, and the arcs that have been followed go up.
Ordered ==
  Working =>
    /\ \A k, m \in DOMAIN order : order[k] = order[m] => k = m
    /\ treated = {order[k] : k \in DOMAIN order}
    /\ treatcount = statecount - Len(order)
    /\ order # <<>> => order[1] = 0
    /\ \A k, m \in DOMAIN order :
         order[m] \in Targets(order[k]) /\ ~Open(order[k], order[m]) => k < m

Verdict ==
  pc = "done" => TopologicalOrder /\ (Entered => (result.is_loop_free <=> ~HasCycle))

Sorting == Tables /\ Counters /\ Stacked /\ Treated /\ Ordered /\ Verdict

\* The inductive invariant.
TopInv == Narrow => Sorting

-----------------------------------------------------------------------------

\* The arcs into a state are pairs of their state and a number, and finitely many.
LEMMA ArcFacts ==
  ASSUME net \in Nets, NEW t \in State
  PROVE  /\ \A s \in State : net.arcs[s][t] \in Nat
         /\ \A a : a \in InArcs(t) <=> \E s \in State : \E k \in 1..net.arcs[s][t] : a = <<s, k>>
         /\ IsFiniteSet(InArcs(t)) /\ Cardinality(InArcs(t)) \in Nat
  <1> DEFINE f == [s \in State |-> {s} \X (1..net.arcs[s][t])]
             T == {{s} \X (1..net.arcs[s][t]) : s \in State}
  <1>1. \A s \in State : net.arcs[s][t] \in Nat
    BY TopsortAssumption
  <1>2. \A a : a \in InArcs(t) <=> \E s \in State : \E k \in 1..net.arcs[s][t] : a = <<s, k>>
    BY DEF InArcs
  <1>3. IsFiniteSet(T)
    <2>1. f \in Surjection(State, T) BY DEF Surjection
    <2> QED BY <2>1, FS_Surjection, TopsortAssumption
  <1>4. ASSUME NEW s \in State PROVE IsFiniteSet({s} \X (1..net.arcs[s][t]))
    <2>1. IsFiniteSet({s}) BY FS_Singleton
    <2>2. IsFiniteSet(1..net.arcs[s][t]) BY <1>1, FS_Interval
    <2> QED BY <2>1, <2>2, FS_Product
  <1>5. IsFiniteSet(UNION T) BY <1>3, <1>4, FS_UNION
  <1>6. InArcs(t) = UNION T BY DEF InArcs
  <1> HIDE DEF T
  <1> QED BY <1>1, <1>2, <1>5, <1>6, FS_CardinalityType

\* What depends on the machine only.
LEMMA NetFrame ==
  ASSUME net' = net
  PROVE  /\ \A s : Targets(s)' = Targets(s)
         /\ \A t : InArcs(t)' = InArcs(t)
         /\ Narrow' = Narrow /\ Entered' = Entered /\ HasCycle' = HasCycle
  <1>1. \A s : Targets(s)' = Targets(s) BY DEF Targets
  <1>2. \A t : InArcs(t)' = InArcs(t) BY DEF InArcs
  <1> QED BY <1>1, <1>2 DEF Narrow, Entered, HasCycle

\* A counter that fits is kept as it is.
LEMMA Fits ==
  ASSUME NEW x \in Nat, x < InvLimit PROVE x % InvLimit = x /\ x \div InvLimit = 0
  <1>1. InvLimit \in Nat /\ InvLimit > 0 BY TopsortAssumption
  <1> QED BY <1>1

\* Every set of numbers that is not empty has a least.
LEMMA LeastOf ==
  ASSUME NEW N \in SUBSET Nat, N # {}
  PROVE  \E x \in N : \A y \in N : x <= y
  <1> DEFINE R == {p \in Nat \X Nat : p[1] < p[2]}
  <1>1. IsWellFoundedOn(R, Nat) BY NatLessThanWellFounded DEF OpToRel
  <1>2. PICK x \in N : \A y \in N : ~ (<<y, x>> \in R) BY <1>1, WFMin
  <1>3. \A y \in N : ~ (y < x) BY <1>2
  <1> QED BY <1>3

\* States each of which is entered from another of them hold a cycle.
LEMMA EnteredWithin ==
  ASSUME NEW X \in SUBSET State, X # {}, \A t \in X : \E s \in X : t \in Targets(s)
  PROVE  HasCycle
  <1> DEFINE Closed(Y) == Y \in SUBSET State /\ Y # {} /\ \A t \in Y : \E s \in Y : t \in Targets(s)
             Sizes == {n \in Nat : \E Y \in SUBSET State : Closed(Y) /\ Cardinality(Y) = n}
  <1>1. \A Y \in SUBSET State : IsFiniteSet(Y) /\ Cardinality(Y) \in Nat
    BY TopsortAssumption, FS_Subset, FS_CardinalityType
  <1>2. Sizes # {}
    <2>1. Closed(X) /\ Cardinality(X) \in Nat BY <1>1
    <2> QED BY <2>1
  <1>3. PICK n \in Nat : n \in Sizes /\ \A m \in Sizes : n <= m
    <2>1. Sizes \in SUBSET Nat OBVIOUS
    <2> HIDE DEF Sizes
    <2> QED BY <1>2, <2>1, LeastOf
  <1>4. PICK Y \in SUBSET State : Closed(Y) /\ Cardinality(Y) = n BY <1>3
  <1>5. ASSUME NEW s \in Y, Targets(s) \cap Y = {} PROVE FALSE
    <2> DEFINE Z == Y \ {s}
    <2>1. Closed(Z)
      <3>1. \A t \in Y : \E r \in Y : t \in Targets(r) /\ r # s BY <1>4, <1>5
      <3> QED BY <1>4, <3>1
    <2>2. Cardinality(Z) = Cardinality(Y) - 1 BY <1>1, <1>5, FS_RemoveElement
    <2>3. Cardinality(Z) \in Nat /\ Z \in SUBSET State BY <1>1
    <2>4. Cardinality(Z) \in Sizes BY <2>1, <2>3
    <2>5. n <= Cardinality(Z) BY <1>3, <2>4
    <2> HIDE DEF Z, Sizes
    <2> QED BY <1>4, <2>2, <2>3, <2>5
  <1> QED BY <1>4, <1>5 DEF HasCycle

\* Where all arcs go up in the order there is no cycle.
LEMMA OrderedAcyclic ==
  ASSUME order \in Seq(State), {order[k] : k \in DOMAIN order} = State,
         \A k, m \in DOMAIN order : order[m] \in Targets(order[k]) => k < m
  PROVE  ~HasCycle
  <1> SUFFICES ASSUME NEW X \in SUBSET State, X # {}, \A s \in X : Targets(s) \cap X # {}
               PROVE  FALSE
    BY DEF HasCycle
  <1> DEFINE N == {Len(order) - k : k \in {m \in DOMAIN order : order[m] \in X}}
  <1>1. Len(order) \in Nat /\ DOMAIN order = 1..Len(order) OBVIOUS
  <1>2. N \in SUBSET Nat /\ N # {}
    <2>1. \A k \in DOMAIN order : Len(order) - k \in Nat BY <1>1
    <2>2. \E k \in DOMAIN order : order[k] \in X OBVIOUS
    <2> QED BY <2>1, <2>2
  <1>3. PICK x \in N : \A y \in N : x <= y
    <2> HIDE DEF N
    <2> QED BY <1>2, LeastOf
  <1>4. PICK k \in DOMAIN order : order[k] \in X /\ x = Len(order) - k BY <1>3
  <1>5. PICK t \in X : t \in Targets(order[k]) BY <1>4
  <1>6. PICK m \in DOMAIN order : order[m] = t BY <1>5
  <1>7. k < m BY <1>5, <1>6
  <1>8. x <= Len(order) - m BY <1>3, <1>5, <1>6
  <1> HIDE DEF N
  <1> QED BY <1>1, <1>4, <1>6, <1>7, <1>8

-----------------------------------------------------------------------------

LEMMA SelfLoopKeeps ==
  ASSUME Narrow, Sorting, SelfLoop PROVE Sorting'
  <1>1. /\ pc' = "done" /\ result'.is_loop_free = FALSE
        /\ UNCHANGED <<net, invcount, treated, pathcount, int_stack, order, treatcount,
                       curr_state, targets, overflow>>
    BY DEF SelfLoop, GotoCyclic
  <1>2. HasCycle
    <2>1. PICK s \in State : s \in Targets(s) BY DEF SelfLoop
    <2>2. {s} \in SUBSET State /\ {s} # {} /\ \A t \in {s} : \E r \in {s} : t \in Targets(r)
      BY <2>1
    <2> QED BY <2>2, EnteredWithin
  <1>3. Tables' BY <1>1 DEF Sorting, Tables, Working
  <1>4. ~Working' BY <1>1 DEF Working
  <1>5. Verdict' BY <1>1, <1>2, NetFrame DEF Verdict, TopologicalOrder
  <1> QED BY <1>3, <1>4, <1>5 DEF Sorting, Counters, Stacked, Treated, Ordered

LEMMA CountKeeps ==
  ASSUME Narrow, Sorting, Count PROVE Sorting'
  <1>1. /\ pc = "start" /\ pc' = "pop" /\ \A s \in State : s \notin Targets(s)
        /\ invcount' = [t \in State |-> Cardinality(InArcs(t)) % InvLimit]
        /\ treatcount' = statecount /\ int_stack' = <<0>>
        /\ UNCHANGED <<net, treated, order, curr_state, targets, overflow, result>>
    BY DEF Count
  <1>2. Tables /\ treated = {} /\ order = <<>> /\ 0 \in State
    BY <1>1, TopsortAssumption DEF Sorting, Tables
  <1>3. Tables' BY <1>1, <1>2, NetFrame DEF Tables
  <1>4. \A t \in State : OpenArcs(t)' = InArcs(t)
    <2>1. \A s, t : Open(s, t)' BY <1>1, <1>2 DEF Open
    <2> QED BY <1>1, <2>1, NetFrame DEF OpenArcs
  <1>5. Counters'
    <2>1. \A t \in State : Cardinality(InArcs(t)) % InvLimit = Cardinality(InArcs(t))
      BY <1>2, ArcFacts, Fits DEF Narrow, Tables
    <2> QED BY <1>1, <1>4, <2>1 DEF Counters
  <1>6. Stacked'
    <2>1. DOMAIN int_stack' = {1} /\ int_stack'[1] = 0 /\ Len(int_stack') = 1 BY <1>1
    <2> QED BY <1>1, <1>2, <1>4, <2>1, NetFrame DEF Stacked
  <1>7. Treated' BY <1>1, <1>2 DEF Treated
  <1>8. Ordered'
    <2>1. DOMAIN order' = {} /\ Len(order') = 0 BY <1>1, <1>2
    <2>2. statecount \in Nat BY TopsortAssumption, FS_CardinalityType DEF statecount
    <2>3. treatcount' = statecount' - Len(order') BY <1>1, <2>1, <2>2 DEF statecount
    <2> QED BY <1>1, <1>2, <2>1, <2>3 DEF Ordered
  <1>9. Verdict' BY <1>1 DEF Verdict
  <1> QED BY <1>3, <1>5, <1>6, <1>7, <1>8, <1>9 DEF Sorting

\* The states on the stack, without its top.
LEMMA Popping ==
  ASSUME NEW s \in Seq(State), s # <<>>
  PROVE  /\ Head(s) \in State /\ Tail(s) \in Seq(State) /\ Len(Tail(s)) = Len(s) - 1
         /\ 1 \in DOMAIN s /\ s[1] = Head(s)
         /\ \A a \in DOMAIN Tail(s) : a + 1 \in DOMAIN s /\ Tail(s)[a] = s[a + 1]
         /\ \A a \in DOMAIN s : a # 1 => a - 1 \in DOMAIN Tail(s) /\ Tail(s)[a - 1] = s[a]
  OBVIOUS

LEMMA TreatKeeps ==
  ASSUME Narrow, Sorting, Treat PROVE Sorting'
  <1> DEFINE c == Head(int_stack)
  <1>1. /\ pc = "pop" /\ int_stack # <<>> /\ curr_state' = c /\ int_stack' = Tail(int_stack)
        /\ treated' = treated \cup {c} /\ order' = Append(order, c)
        /\ treatcount' = treatcount - 1 /\ targets' = Targets(c) /\ pc' = "arcs"
        /\ UNCHANGED <<net, invcount, pathcount, overflow, result>>
    BY DEF Treat
  <1>2. Tables /\ int_stack \in Seq(State) /\ order \in Seq(State) BY DEF Sorting, Tables
  <1>3. /\ c \in State /\ Tail(int_stack) \in Seq(State)
        /\ 1 \in DOMAIN int_stack /\ int_stack[1] = c
        /\ \A a \in DOMAIN int_stack' : a + 1 \in DOMAIN int_stack /\ int_stack'[a] = int_stack[a + 1]
        /\ \A a \in DOMAIN int_stack :
             a # 1 => a - 1 \in DOMAIN int_stack' /\ int_stack'[a - 1] = int_stack[a]
    BY <1>1, <1>2, Popping
  <1>4. /\ order' \in Seq(State) /\ Len(order') = Len(order) + 1 /\ order'[Len(order) + 1] = c
        /\ Len(order) \in Nat /\ DOMAIN order' = 1..(Len(order) + 1) /\ DOMAIN order = 1..Len(order)
        /\ \A k \in DOMAIN order : order'[k] = order[k]
    BY <1>1, <1>2, <1>3
  <1>5. Tables'
    <2>1. Targets(c) \subseteq State BY DEF Targets
    <2> QED BY <1>1, <1>2, <1>3, <1>4, <2>1, NetFrame DEF Tables, Working
  <1> HIDE DEF c
  <1>6. Working /\ Counters /\ Stacked /\ Treated /\ Ordered
    BY <1>1 DEF Sorting, Working
  <1>7. c \notin treated
    BY <1>3, <1>6 DEF Stacked
  <1>8. \A s, t \in State : t \in Targets(s) => (Open(s, t)' <=> Open(s, t))
    BY <1>1, <1>7 DEF Open
  <1>9. \A t \in State : OpenArcs(t)' = OpenArcs(t)
    <2> SUFFICES ASSUME NEW t \in State, NEW a \in InArcs(t) PROVE Open(a[1], t)' <=> Open(a[1], t)
      BY <1>1, NetFrame DEF OpenArcs
    <2>1. a[1] \in State /\ net.arcs[a[1]][t] > 0
      BY <1>2, ArcFacts DEF Tables
    <2> QED BY <1>8, <2>1 DEF Targets
  <1>10. Counters' BY <1>1, <1>6, <1>9 DEF Counters
  <1>11. \A t \in State : Entering(t) => Entering(t)'
    BY <1>1, NetFrame DEF Entering
  <1>12. Stacked'
    <2>1. \A a, b \in DOMAIN int_stack' : int_stack'[a] = int_stack'[b] => a = b
      <3>1. \A a, b \in DOMAIN int_stack' : a + 1 = b + 1 => a = b BY <1>1, <1>2, <1>3
      <3> QED BY <1>3, <1>6, <3>1 DEF Stacked
    <2>2. ASSUME NEW a \in DOMAIN int_stack'
          PROVE  /\ int_stack'[a] \notin treated'
                 /\ (OpenArcs(int_stack[a]) = {})' /\ Entering(int_stack[a])'
      <3>1. a + 1 \in DOMAIN int_stack /\ int_stack'[a] = int_stack[a + 1] /\ int_stack[a + 1] \in State
            /\ a + 1 # 1 /\ Len(int_stack) # 1
        BY <1>1, <1>2, <1>3
      <3>2. int_stack[a + 1] # c BY <1>3, <1>6, <3>1 DEF Stacked
      <3>3. int_stack[a + 1] \notin treated /\ OpenArcs(int_stack[a + 1]) = {} /\ Entering(int_stack[a + 1])
        BY <1>6, <3>1 DEF Stacked
      <3> QED BY <1>1, <1>9, <1>11, <3>1, <3>2, <3>3
    <2>3. ASSUME NEW x \in State \ treated', x = 0 \/ (InArcs(x)' # {} /\ OpenArcs(x)' = {})
          PROVE  \E a \in DOMAIN int_stack' : int_stack'[a] = x
      <3>1. x \in State \ treated /\ x # c /\ (x = 0 \/ (InArcs(x) # {} /\ OpenArcs(x) = {}))
        BY <1>1, <1>9, <2>3, NetFrame
      <3>2. PICK a \in DOMAIN int_stack : int_stack[a] = x BY <1>6, <3>1 DEF Stacked
      <3>3. a # 1 BY <1>3, <3>1, <3>2
      <3> QED BY <1>3, <3>2, <3>3
    <2> QED BY <2>1, <2>2, <2>3 DEF Stacked
  <1>13. Treated'
    <2>1. treated = {} => c = 0
      <3> SUFFICES ASSUME treated = {}, c # 0 PROVE FALSE
        OBVIOUS
      <3>1. Entering(c) BY <1>3, <1>6 DEF Stacked
      <3> QED BY <3>1 DEF Entering
    <2>2. 0 \in treated' BY <1>1, <1>6, <2>1 DEF Treated
    <2>3. c # 0 => OpenArcs(c) = {} /\ Entering(c) BY <1>3, <1>6 DEF Stacked
    <2>4. \A x \in treated \ {0} : OpenArcs(x) = {} /\ Entering(x) BY <1>6 DEF Treated
    <2>5. treated \subseteq State BY <1>2 DEF Tables
    <2> QED BY <1>1, <1>3, <1>9, <1>11, <2>2, <2>3, <2>4, <2>5 DEF Treated
  <1>14. Ordered'
    <2>1. treated = {order[k] : k \in DOMAIN order} BY <1>6 DEF Ordered
    <2>2. \A k, m \in DOMAIN order' : order'[k] = order'[m] => k = m
      <3>1. \A k \in DOMAIN order : order'[k] # c BY <1>4, <1>7, <2>1
      <3>2. \A k \in DOMAIN order' : k \in DOMAIN order \/ k = Len(order) + 1 BY <1>4
      <3>3. \A k, m \in DOMAIN order : order[k] = order[m] => k = m BY <1>6 DEF Ordered
      <3> QED BY <1>4, <3>1, <3>2, <3>3
    <2>3. treated' = {order[k] : k \in DOMAIN order}'
      <3>1. \A x : x \in treated' <=> \E k \in DOMAIN order' : order'[k] = x
        <4>1. \A k \in DOMAIN order' : k \in DOMAIN order \/ k = Len(order) + 1 BY <1>4
        <4>2. Len(order) + 1 \in DOMAIN order' /\ \A k \in DOMAIN order : k \in DOMAIN order' BY <1>4
        <4> QED BY <1>1, <1>4, <2>1, <4>1, <4>2
      <3> QED BY <3>1
    <2>4. treatcount' = statecount' - Len(order')
      <3>1. statecount \in Nat /\ statecount' = statecount
        BY TopsortAssumption, FS_CardinalityType DEF statecount
      <3> QED BY <1>1, <1>4, <1>6, <3>1 DEF Ordered
    <2>5. order'[1] = 0
      <3>1. CASE order = <<>>
        <4>1. treated = {} BY <2>1, <3>1
        <4>2. c = 0 BY <1>3, <1>6, <4>1 DEF Stacked, Entering
        <4> QED BY <1>4, <3>1, <4>2
      <3>2. CASE order # <<>>
        <4>1. 1 \in DOMAIN order /\ order[1] = 0 BY <1>2, <1>6, <3>2 DEF Ordered
        <4> QED BY <1>4, <4>1
      <3> QED BY <3>1, <3>2
    <2>6. ASSUME NEW k \in DOMAIN order', NEW m \in DOMAIN order',
                 (order[m] \in Targets(order[k]))', ~Open(order[k], order[m])'
          PROVE  k < m
      <3>1. order'[m] \in Targets(order'[k]) BY <1>1, <2>6, NetFrame
      <3>2. order'[k] # c BY <1>1, <2>6, <3>1 DEF Open
      <3>3. k \in DOMAIN order /\ order'[k] = order[k] /\ order[k] \in treated
        BY <1>4, <2>1, <3>2
      <3>4. CASE m = Len(order) + 1 BY <1>4, <3>3, <3>4
      <3>5. CASE m # Len(order) + 1
        <4>1. m \in DOMAIN order /\ order'[m] = order[m] BY <1>4, <3>5
        <4>2. ~Open(order[k], order[m]) BY <1>1, <3>3 DEF Open
        <4> QED BY <1>6, <3>1, <3>3, <4>1, <4>2 DEF Ordered
      <3> QED BY <3>4, <3>5
    <2> QED BY <2>2, <2>3, <2>4, <2>5, <2>6 DEF Ordered
  <1>15. Verdict' BY <1>1 DEF Verdict
  <1> QED BY <1>5, <1>10, <1>12, <1>13, <1>14, <1>15 DEF Sorting

\* Copies of a state pushed on the stack.
LEMMA Pushed ==
  ASSUME NEW s \in Seq(State), NEW t \in State, NEW z \in Nat, NEW r,
         r = [k \in 1..z |-> t] \o s
  PROVE  /\ r \in Seq(State) /\ Len(r) = z + Len(s)
         /\ \A k \in 1..z : k \in DOMAIN r /\ r[k] = t
         /\ \A k \in DOMAIN s : z + k \in DOMAIN r /\ r[z + k] = s[k]
         /\ \A k \in DOMAIN r : k \in 1..z \/ k - z \in DOMAIN s
  <1> DEFINE f == [k \in 1..z |-> t]
  <1>1. f \in Seq(State) /\ Len(f) = z /\ \A k \in 1..z : f[k] = t OBVIOUS
  <1>2. r = f \o s OBVIOUS
  <1> HIDE DEF f
  <1> QED BY <1>1, <1>2

LEMMA FollowArcsKeeps ==
  ASSUME Narrow, Sorting, NEW t \in targets, FollowArcs(t) PROVE Sorting'
  <1> DEFINE c == curr_state
             n == net.arcs[curr_state][t]
             z == Zeroes(invcount[t], n)
  <1>1. /\ pc = "arcs" /\ targets' = targets \ {t}
        /\ UNCHANGED <<net, treated, order, treatcount, curr_state>>
    BY DEF FollowArcs
  <1>2. t \in treated => /\ result'.is_loop_free = FALSE /\ pc' = "done"
                         /\ UNCHANGED int_stack
    BY DEF FollowArcs, GotoCyclic
  <1>3. t \notin treated => /\ invcount' = [invcount EXCEPT ![t] = (invcount[t] - n) % InvLimit]
                            /\ int_stack' = [k \in 1..z |-> t] \o int_stack
                            /\ UNCHANGED <<result, pc>>
    BY DEF FollowArcs
  <1>4. /\ Tables /\ net \in Nets /\ c \in treated /\ c \in State /\ t \in State /\ t \in Targets(c)
        /\ n \in Nat /\ n > 0
    <2>1. Tables /\ net \in Nets /\ c \in treated /\ c \in State /\ t \in State /\ t \in Targets(c)
      BY <1>1 DEF Sorting, Tables, Targets
    <2> QED BY <2>1, ArcFacts DEF Targets
  <1>5. Counters /\ Stacked /\ Treated /\ Ordered /\ Working
    BY <1>1 DEF Sorting, Working
  <1>6. \A k \in 1..n : <<c, k>> \in OpenArcs(t)
    BY <1>1, <1>4, ArcFacts DEF OpenArcs, Open
  <1>7. ASSUME t \in treated PROVE Sorting'
    <2>1. t = 0
      <3>1. 1 \in 1..n BY <1>4
      <3>2. OpenArcs(t) # {} BY <1>6, <3>1
      <3> QED BY <1>5, <1>7, <3>2 DEF Treated
    <2>2. \A x \in treated : \E s \in treated : x \in Targets(s)
      BY <1>4, <1>5, <2>1 DEF Treated, Entering
    <2>3. HasCycle BY <1>4, <2>2, EnteredWithin DEF Tables
    <2>4. Tables' BY <1>1, <1>2, <1>4, <1>7 DEF Tables, Working
    <2>5. ~Working' BY <1>2, <1>7 DEF Working
    <2>6. Verdict' BY <1>1, <1>2, <1>7, <2>3, NetFrame DEF Verdict, TopologicalOrder
    <2> QED BY <2>4, <2>5, <2>6 DEF Sorting, Counters, Stacked, Treated, Ordered
  <1>8. ASSUME t \notin treated PROVE Sorting'
    <2> DEFINE gone == {c} \X (1..n)
    <2>1. /\ IsFiniteSet(gone) /\ Cardinality(gone) = n
      <3>1. IsFiniteSet({c}) /\ Cardinality({c}) = 1 BY FS_Singleton
      <3>2. n \in Nat /\ n > 0 BY <1>4
      <3> HIDE DEF n
      <3>3. IsFiniteSet(1..n) /\ Cardinality(1..n) = n BY <3>2, FS_Interval
      <3>4. IsFiniteSet(gone) /\ Cardinality(gone) = Cardinality({c}) * Cardinality(1..n)
        BY <3>1, <3>3, FS_Product
      <3>5. 1 * n = n BY <3>2
      <3> HIDE DEF gone
      <3> QED BY <3>1, <3>3, <3>4, <3>5
    <2>2. \A s, u \in State : Open(s, u)' <=> Open(s, u) /\ ~(s = c /\ u = t)
      BY <1>1, <1>3, <1>4, <1>8 DEF Open
    <2>3. \A u \in State : u # t => OpenArcs(u)' = OpenArcs(u)
      <3> SUFFICES ASSUME NEW u \in State, u # t, NEW a \in InArcs(u)
                   PROVE  Open(a[1], u)' <=> Open(a[1], u)
        BY <1>1, NetFrame DEF OpenArcs
      <3>1. a[1] \in State BY <1>4, ArcFacts
      <3> QED BY <2>2, <3>1
    <2>4. OpenArcs(t)' = OpenArcs(t) \ gone
      <3> SUFFICES ASSUME NEW a \in InArcs(t)
                   PROVE  Open(a[1], t)' <=> Open(a[1], t) /\ a \notin gone
        BY <1>1, NetFrame DEF OpenArcs
      <3>1. PICK s \in State : \E k \in 1..net.arcs[s][t] : a = <<s, k>> BY <1>4, ArcFacts
      <3>2. a \in gone <=> s = c BY <3>1
      <3> QED BY <1>4, <2>2, <3>1, <3>2
    <2>5. /\ IsFiniteSet(OpenArcs(t)) /\ Cardinality(OpenArcs(t)) \in Nat
          /\ Cardinality(OpenArcs(t)) < InvLimit
      <3>1. OpenArcs(t) \in SUBSET InArcs(t) BY DEF OpenArcs
      <3>2. IsFiniteSet(InArcs(t)) /\ Cardinality(InArcs(t)) \in Nat BY <1>4, ArcFacts
      <3>3. Cardinality(InArcs(t)) < InvLimit BY <1>4 DEF Narrow
      <3>4. IsFiniteSet(OpenArcs(t)) /\ Cardinality(OpenArcs(t)) <= Cardinality(InArcs(t))
        BY <3>1, <3>2, FS_Subset
      <3> QED BY <3>2, <3>3, <3>4, FS_CardinalityType, TopsortAssumption
    <2>6. /\ IsFiniteSet(OpenArcs(t)') /\ Cardinality(OpenArcs(t)') \in Nat
          /\ Cardinality(OpenArcs(t)') = Cardinality(OpenArcs(t)) - n
      <3>1. OpenArcs(t) \cap gone = gone BY <1>6
      <3> HIDE DEF gone
      <3>2. /\ IsFiniteSet(OpenArcs(t) \ gone)
            /\ Cardinality(OpenArcs(t) \ gone) = Cardinality(OpenArcs(t)) - Cardinality(OpenArcs(t) \cap gone)
        BY <2>5, FS_Difference
      <3> QED BY <2>1, <2>4, <3>1, <3>2, FS_CardinalityType
    <2>7. invcount[t] = Cardinality(OpenArcs(t)) BY <1>4, <1>5 DEF Counters
    <2>8. Counters'
      <3>1. (invcount[t] - n) % InvLimit = Cardinality(OpenArcs(t)')
        <4>1. Cardinality(OpenArcs(t)') < InvLimit
          BY <1>4, <2>5, <2>6, TopsortAssumption
        <4>2. invcount[t] - n = Cardinality(OpenArcs(t)') BY <2>6, <2>7
        <4>3. Cardinality(OpenArcs(t)') % InvLimit = Cardinality(OpenArcs(t)')
          BY <2>6, <4>1, Fits
        <4> QED BY <4>2, <4>3
      <3> QED BY <1>3, <1>5, <1>8, <2>3, <3>1 DEF Counters
    <2>9. z \in {0, 1} /\ (z = 1 <=> OpenArcs(t)' = {})
      <3>1. invcount[t] >= n /\ invcount[t] \in Nat /\ invcount[t] # 0
        BY <1>4, <2>5, <2>6, <2>7
      <3>2. n = invcount[t] <=> OpenArcs(t)' = {}
        <4>1. Cardinality(OpenArcs(t)') = 0 <=> OpenArcs(t)' = {} BY <2>6, FS_EmptySet
        <4> QED BY <1>4, <2>5, <2>6, <2>7, <4>1
      <3>3. n = invcount[t] => (n - invcount[t]) \div InvLimit = 0
        <4>1. 0 < InvLimit /\ 0 \in Nat BY TopsortAssumption
        <4>2. 0 \div InvLimit = 0 BY <4>1, Fits
        <4>3. n = invcount[t] => n - invcount[t] = 0 BY <1>4
        <4> QED BY <4>2, <4>3
      <3> HIDE DEF n
      <3>4. z = IF n < invcount[t] THEN 0 ELSE 1 + ((n - invcount[t]) \div InvLimit)
        BY <3>1 DEF Zeroes
      <3> HIDE DEF z
      <3> QED BY <1>4, <3>1, <3>2, <3>3, <3>4
    <2>10. /\ int_stack' \in Seq(State)
           /\ \A k \in 1..z : k \in DOMAIN int_stack' /\ int_stack'[k] = t
           /\ \A k \in DOMAIN int_stack : z + k \in DOMAIN int_stack' /\ int_stack'[z + k] = int_stack[k]
           /\ \A k \in DOMAIN int_stack' : k \in 1..z \/ k - z \in DOMAIN int_stack
      <3>1. z \in Nat BY <2>9
      <3>2. int_stack' = [k \in 1..z |-> t] \o int_stack /\ int_stack \in Seq(State)
        BY <1>3, <1>4, <1>8 DEF Tables
      <3> HIDE DEF z
      <3> QED BY <1>4, <3>1, <3>2, Pushed
    <2>11. Tables'
      BY <1>1, <1>3, <1>4, <1>8, <2>10, NetFrame DEF Tables, Working
    <2> HIDE DEF z, n, gone
    <2>12. OpenArcs(t) # {} /\ t # 0
      <3>1. OpenArcs(t) # {}
        <4>1. 1 \in 1..n BY <1>4
        <4> QED BY <1>6, <4>1
      <3> QED BY <1>4, <1>5, <1>8, <3>1 DEF Treated
    <2>13. \A u \in State : Entering(u)' = Entering(u)
      BY <1>1, NetFrame DEF Entering
    <2>14. Stacked'
      <3>1. \A a \in DOMAIN int_stack : /\ int_stack[a] \in State \ treated /\ int_stack[a] # t
                                        /\ OpenArcs(int_stack[a]) = {} /\ Entering(int_stack[a])
        <4>1. int_stack \in Seq(State) /\ treated # {} BY <1>4 DEF Tables
        <4> QED BY <1>5, <2>12, <4>1 DEF Stacked
      <3>2. \A a \in DOMAIN int_stack' :
              \/ z = 1 /\ a = 1 /\ int_stack'[a] = t
              \/ a - z \in DOMAIN int_stack /\ int_stack'[a] = int_stack[a - z]
        <4> SUFFICES ASSUME NEW a \in DOMAIN int_stack'
                     PROVE  \/ z = 1 /\ a = 1 /\ int_stack'[a] = t
                            \/ a - z \in DOMAIN int_stack /\ int_stack'[a] = int_stack[a - z]
          OBVIOUS
        <4>1. a \in 1..z \/ a - z \in DOMAIN int_stack BY <2>10
        <4>2. a \in 1..z => z = 1 /\ a = 1 /\ int_stack'[a] = t BY <2>9, <2>10
        <4>3. a - z \in DOMAIN int_stack => int_stack'[a] = int_stack[a - z]
          <5>1. a \in Nat /\ z + (a - z) = a BY <2>9, <2>10
          <5> QED BY <2>10, <5>1
        <4> QED BY <4>1, <4>2, <4>3
      <3>3. \A a, b \in DOMAIN int_stack' : int_stack'[a] = int_stack'[b] => a = b
        <4>1. \A a, b \in DOMAIN int_stack : int_stack[a] = int_stack[b] => a = b
          BY <1>5 DEF Stacked
        <4>2. \A a, b \in DOMAIN int_stack' : a - z = b - z => a = b BY <2>9, <2>10
        <4> QED BY <3>1, <3>2, <4>1, <4>2
      <3>4. z = 1 => Entering(t)
        BY <1>4 DEF Entering
      <3>5. ASSUME NEW a \in DOMAIN int_stack'
            PROVE  /\ int_stack'[a] \notin treated'
                   /\ (OpenArcs(int_stack[a]) = {})' /\ Entering(int_stack[a])'
        <4>1. CASE z = 1 /\ a = 1 /\ int_stack'[a] = t
          BY <1>1, <1>4, <1>8, <2>9, <2>13, <3>4, <4>1
        <4>2. CASE a - z \in DOMAIN int_stack /\ int_stack'[a] = int_stack[a - z]
          BY <1>1, <2>3, <2>13, <3>1, <4>2
        <4> QED BY <3>2, <4>1, <4>2
      <3>6. ASSUME NEW x \in State \ treated', x = 0 \/ (InArcs(x)' # {} /\ OpenArcs(x)' = {})
            PROVE  \E a \in DOMAIN int_stack' : int_stack'[a] = x
        <4>1. CASE x = t
          <5>1. z = 1 BY <2>9, <2>12, <3>6, <4>1
          <5> QED BY <2>10, <4>1, <5>1
        <4>2. CASE x # t
          <5>1. x \in State \ treated /\ (x = 0 \/ (InArcs(x) # {} /\ OpenArcs(x) = {}))
            BY <1>1, <2>3, <3>6, <4>2, NetFrame
          <5>2. PICK a \in DOMAIN int_stack : int_stack[a] = x BY <1>5, <5>1 DEF Stacked
          <5> QED BY <2>10, <5>2
        <4> QED BY <4>1, <4>2
      <3> QED BY <3>3, <3>5, <3>6 DEF Stacked
    <2>15. Treated'
      <3>1. treated \subseteq State BY <1>4 DEF Tables
      <3> QED BY <1>1, <1>5, <1>8, <2>3, <2>13, <3>1 DEF Treated
    <2>16. Ordered'
      <3>1. treated = {order[k] : k \in DOMAIN order} BY <1>5 DEF Ordered
      <3>2. \A k, m \in DOMAIN order : order[k] \in treated /\ order[m] \in treated /\ order[m] # t
        BY <1>8, <3>1
      <3>3. treated \subseteq State BY <1>4 DEF Tables
      <3>4. \A k, m \in DOMAIN order : Open(order[k], order[m])' <=> Open(order[k], order[m])
        <4> SUFFICES ASSUME NEW k \in DOMAIN order, NEW m \in DOMAIN order
                     PROVE  (Open(order[k], order[m]))' <=> Open(order[k], order[m])
          OBVIOUS
        <4> QED BY <1>1, <2>2, <3>2, <3>3
      <3>5. \A k, m \in DOMAIN order' :
              ((order[m] \in Targets(order[k])) /\ ~Open(order[k], order[m]))' => k < m
        BY <1>1, <1>5, <3>4, NetFrame DEF Ordered
      <3>6. treated' = {order[k] : k \in DOMAIN order}' BY <1>1, <3>1
      <3> QED BY <1>1, <1>5, <3>5, <3>6 DEF Ordered, statecount
    <2>17. Verdict' BY <1>1, <1>3, <1>8 DEF Verdict
    <2> QED BY <2>8, <2>11, <2>14, <2>15, <2>16, <2>17 DEF Sorting
  <1> QED BY <1>7, <1>8

LEMMA NextStateKeeps ==
  ASSUME Sorting, NextState PROVE Sorting'
  <1>1. /\ pc = "arcs" /\ pc' = "pop" /\ targets = {}
        /\ UNCHANGED <<net, invcount, treated, pathcount, int_stack, order, treatcount,
                       curr_state, targets, overflow, result>>
    BY DEF NextState
  <1>2. Tables /\ Counters /\ Stacked /\ Treated /\ Ordered /\ Working
    BY <1>1 DEF Sorting, Working
  <1>3. \A s, t : Open(s, t)' <=> Open(s, t) BY <1>1 DEF Open
  <1>4. \A t : OpenArcs(t)' = OpenArcs(t) BY <1>1, <1>3, NetFrame DEF OpenArcs
  <1>5. \A t : Entering(t)' <=> Entering(t) BY <1>1, NetFrame DEF Entering
  <1>6. Tables' BY <1>1, <1>2, NetFrame DEF Tables, Working
  <1>7. Counters' BY <1>1, <1>2, <1>4 DEF Counters
  <1>8. Stacked' BY <1>1, <1>2, <1>4, <1>5, NetFrame DEF Stacked
  <1>9. Treated' BY <1>1, <1>2, <1>4, <1>5 DEF Treated
  <1>10. Ordered'
    <2>1. treated' = {order[k] : k \in DOMAIN order}' BY <1>1, <1>2 DEF Ordered
    <2>2. \A k, m \in DOMAIN order' :
            ((order[m] \in Targets(order[k])) /\ ~Open(order[k], order[m]))' => k < m
      BY <1>1, <1>2, <1>3, NetFrame DEF Ordered
    <2> QED BY <1>1, <1>2, <2>1, <2>2 DEF Ordered, statecount
  <1>11. Verdict' BY <1>1 DEF Verdict
  <1> QED BY <1>6, <1>7, <1>8, <1>9, <1>10, <1>11 DEF Sorting

\* At the end the order holds every state once, or those it does not hold are entered from
\* among themselves.
LEMMA AtTheEnd ==
  ASSUME Sorting, pc = "pop", int_stack = <<>>
  PROVE  /\ treatcount \in Int
         /\ treatcount > 0 /\ Entered => HasCycle
         /\ treatcount <= 0 => /\ Len(order) = statecount /\ Range(order) = State /\ order[1] = 0
                               /\ \A k, m \in DOMAIN order : order[m] \in Targets(order[k]) => k < m
                               /\ ~HasCycle
  <1>1. Tables /\ Stacked /\ Treated /\ Ordered /\ Working BY DEF Sorting, Working
  <1>2. order \in Seq(State) /\ treated \in SUBSET State /\ Len(order) \in Nat
        /\ DOMAIN order = 1..Len(order) /\ Range(order) = treated
    BY <1>1 DEF Tables, Ordered, Range
  <1>3. /\ IsFiniteSet(treated) /\ Cardinality(treated) <= statecount /\ statecount \in Nat
        /\ (Cardinality(treated) = statecount => treated = State)
    BY <1>2, TopsortAssumption, FS_Subset, FS_CardinalityType DEF statecount
  <1>4. Cardinality(treated) = Len(order)
    <2>1. IsFiniteSet(1..Len(order)) /\ Cardinality(1..Len(order)) = Len(order)
      <3> DEFINE n == Len(order)
      <3>1. n \in Nat BY <1>2
      <3> HIDE DEF n
      <3>2. IsFiniteSet(1..n) /\ Cardinality(1..n) = n BY <3>1, FS_Interval
      <3> QED BY <3>2 DEF n
    <2>2. order \in Injection(1..Len(order), treated) /\ order \in Surjection(1..Len(order), treated)
      BY <1>1, <1>2 DEF Ordered, Injection, Surjection, IsInjective
    <2> QED BY <1>3, <2>1, <2>2, FS_Injection
  <1>5. treatcount = statecount - Len(order) /\ treatcount \in Int /\ Len(order) <= statecount
    <2>1. treatcount = statecount - Len(order) BY <1>1 DEF Ordered
    <2>2. Len(order) <= statecount BY <1>3, <1>4
    <2> QED BY <1>2, <1>3, <2>1, <2>2
  <1>6. \A s, t : Open(s, t) <=> s \notin treated BY DEF Open
  <1>7. ASSUME treatcount > 0, Entered PROVE HasCycle
    <2> DEFINE X == State \ treated
    <2>1. X # {}
      <3>1. treated # State BY <1>3, <1>4, <1>5, <1>7 DEF statecount
      <3> QED BY <1>2, <3>1
    <2>2. ASSUME NEW t \in X PROVE \E s \in X : t \in Targets(s)
      <3>1. t # 0 /\ ~(InArcs(t) # {} /\ OpenArcs(t) = {})
        <4>1. ~ \E a \in DOMAIN int_stack : int_stack[a] = t OBVIOUS
        <4> QED BY <1>1, <2>2, <4>1 DEF Stacked
      <3>2. PICK r \in State : t \in Targets(r) BY <1>7, <2>2, <3>1 DEF Entered
      <3>3. net \in Nets /\ t \in State BY <1>1, <2>2 DEF Tables
      <3>4. <<r, 1>> \in InArcs(t)
        <4>1. net.arcs[r][t] \in Nat /\ net.arcs[r][t] > 0 BY <3>2, <3>3, ArcFacts DEF Targets
        <4>2. 1 \in 1..net.arcs[r][t] BY <4>1
        <4> QED BY <3>3, <4>2, ArcFacts
      <3>5. PICK a \in InArcs(t) : Open(a[1], t) BY <3>1, <3>4 DEF OpenArcs
      <3>6. a[1] \in State /\ net.arcs[a[1]][t] > 0 BY <3>3, <3>5, ArcFacts
      <3>7. a[1] \in X BY <1>6, <3>5, <3>6
      <3> QED BY <3>3, <3>6, <3>7 DEF Targets
    <2> QED BY <2>1, <2>2, EnteredWithin
  <1>8. ASSUME treatcount <= 0
        PROVE  /\ Len(order) = statecount /\ Range(order) = State /\ order[1] = 0
               /\ \A k, m \in DOMAIN order : order[m] \in Targets(order[k]) => k < m
               /\ ~HasCycle
    <2>1. Len(order) = statecount
      <3> DEFINE n == Len(order)
      <3>1. n \in Nat /\ statecount \in Nat BY <1>2, <1>3
      <3>2. n <= statecount /\ treatcount = statecount - n /\ treatcount <= 0 BY <1>5, <1>8
      <3> HIDE DEF n
      <3>3. n = statecount BY <3>1, <3>2
      <3> QED BY <3>3 DEF n
    <2>2. treated = State BY <1>3, <1>4, <2>1
    <2>3. order[1] = 0
      <3>1. order # <<>> BY <1>1, <2>2, TopsortAssumption DEF Ordered
      <3> QED BY <1>1, <3>1 DEF Ordered
    <2>4. \A k, m \in DOMAIN order : order[m] \in Targets(order[k]) => k < m
      <3>1. \A k \in DOMAIN order : order[k] \in treated BY <1>1 DEF Ordered
      <3> QED BY <1>1, <1>6, <3>1 DEF Ordered
    <2>5. {order[k] : k \in DOMAIN order} = State BY <1>1, <2>2 DEF Ordered
    <2> QED BY <1>2, <2>1, <2>2, <2>3, <2>4, <2>5, OrderedAcyclic
  <1> QED BY <1>5, <1>7, <1>8

LEMMA RenumberKeeps ==
  ASSUME Sorting, Renumber PROVE Sorting'
  <1>1. /\ pc = "pop" /\ int_stack = <<>> /\ pc' = "done"
        /\ treatcount > 0 => result'.is_loop_free = FALSE
        /\ ~(treatcount > 0) => result'.is_loop_free = TRUE
        /\ UNCHANGED <<net, treated, int_stack, order, treatcount, curr_state, targets>>
    BY DEF Renumber, GotoCyclic
  <1>2. Tables' BY <1>1 DEF Sorting, Tables, Working
  <1>3. ~Working' BY <1>1 DEF Working
  <1>4. Verdict'
    <2>1. CASE treatcount > 0
      BY <1>1, <2>1, AtTheEnd, NetFrame DEF Verdict, TopologicalOrder
    <2>2. CASE ~(treatcount > 0)
      <3>1. /\ treatcount <= 0 /\ Len(order) = statecount /\ Range(order) = State /\ order[1] = 0
            /\ \A k, m \in DOMAIN order : order[m] \in Targets(order[k]) => k < m
            /\ ~HasCycle
        BY <1>1, <2>2, AtTheEnd
      <3>2. ~HasCycle' BY <1>1, <3>1, NetFrame
      <3>3. statecount \in Nat /\ order \in Seq(State)
        BY <1>1, TopsortAssumption, FS_CardinalityType DEF statecount, Sorting, Tables
      <3>4. DOMAIN order = 1..statecount BY <3>1, <3>3
      <3>5. Len(order') = statecount' /\ Range(order)' = State /\ order'[1] = 0
        BY <1>1, <3>1 DEF Range, statecount
      <3>6. \A k, m \in (1..statecount)' : (order[m] \in Targets(order[k]))' => k < m
        BY <1>1, <3>1, <3>4, NetFrame DEF statecount
      <3> QED BY <1>1, <2>2, <3>2, <3>5, <3>6 DEF Verdict, TopologicalOrder
    <2> QED BY <2>1, <2>2
  <1> QED BY <1>2, <1>3, <1>4 DEF Sorting, Counters, Stacked, Treated, Ordered

LEMMA SortingStarts == Init => TopInv
  <1> SUFFICES ASSUME Init PROVE Sorting
    BY DEF TopInv
  <1>1. Tables
    <2>1. targets \subseteq State /\ int_stack \in Seq(State) /\ order \in Seq(State)
      BY DEF Init
    <2> QED BY <2>1 DEF Init, Tables, Working
  <1> QED BY <1>1 DEF Init, Sorting, Counters, Stacked, Treated, Ordered, Verdict, Working

LEMMA SortingKeeps == TopInv /\ [Next]_vars => TopInv'
  <1> SUFFICES ASSUME TopInv, [Next]_vars, Narrow' PROVE Sorting'
    BY DEF TopInv
  <1>1. net' = net
    BY DEF Next, vars, SelfLoop, Count, Treat, FollowArcs, NextState, Renumber
  <1>2. Narrow /\ Sorting
    BY <1>1, NetFrame DEF TopInv
  <1>3. CASE Next
    BY <1>2, <1>3, SelfLoopKeeps, CountKeeps, TreatKeeps, FollowArcsKeeps, NextStateKeeps,
       RenumberKeeps DEF Next
  <1>4. CASE UNCHANGED vars
    <2>1. UNCHANGED <<net, invcount, treated, pathcount, int_stack, order, treatcount, curr_state,
                      targets, overflow, result, pc>>
      BY <1>4 DEF vars
    <2>2. \A s, t : Open(s, t)' <=> Open(s, t) BY <2>1 DEF Open
    <2>3. \A t : OpenArcs(t)' = OpenArcs(t) BY <2>1, <2>2, NetFrame DEF OpenArcs
    <2>4. \A t : Entering(t)' <=> Entering(t) BY <2>1, NetFrame DEF Entering
    <2>5. Working' <=> Working BY <2>1 DEF Working
    <2>6. Tables' BY <1>2, <2>1, <2>5, NetFrame DEF Sorting, Tables
    <2>7. Counters' BY <1>2, <2>1, <2>3, <2>5 DEF Sorting, Counters
    <2>8. Stacked' BY <1>2, <2>1, <2>3, <2>4, <2>5, NetFrame DEF Sorting, Stacked
    <2>9. Treated' BY <1>2, <2>1, <2>3, <2>4, <2>5 DEF Sorting, Treated
    <2>10. Ordered'
      <3>1. Working => treated' = {order[k] : k \in DOMAIN order}'
        BY <1>2, <2>1 DEF Sorting, Ordered
      <3>2. Working => \A k, m \in DOMAIN order' :
              ((order[m] \in Targets(order[k])) /\ ~Open(order[k], order[m]))' => k < m
        BY <1>2, <2>1, <2>2, NetFrame DEF Sorting, Ordered
      <3> QED BY <1>2, <2>1, <2>5, <3>1, <3>2 DEF Sorting, Ordered, statecount
    <2>11. Verdict'
      <3>1. TopologicalOrder => TopologicalOrder'
        BY <2>1, NetFrame DEF TopologicalOrder, statecount, Range
      <3> QED BY <1>2, <2>1, <3>1, NetFrame DEF Sorting, Verdict
    <2> QED BY <2>6, <2>7, <2>8, <2>9, <2>10, <2>11 DEF Sorting
  <1> QED BY <1>3, <1>4

-----------------------------------------------------------------------------

\* Unless invcount wraps around, the order that fsm_topsort renumbers by holds every state
\* once, state 0 first, and goes up along every arc.
THEOREM OrderRight == Spec => [](Narrow => TopologicalOrder)
  <1>1. TopInv => (Narrow => TopologicalOrder)
    BY DEF TopInv, Sorting, Verdict, TopologicalOrder
  <1> QED BY <1>1, SortingStarts, SortingKeeps, PTL DEF Spec

\* Unless invcount wraps around, fsm_topsort calls a machine free of loops exactly when it
\* has no cycle.
THEOREM CyclesFound == Spec => [](Narrow /\ Entered => LoopFreeExact)
  <1>1. TopInv => (Narrow /\ Entered => LoopFreeExact)
    BY DEF TopInv, Sorting, Verdict, LoopFreeExact
  <1> QED BY <1>1, SortingStarts, SortingKeeps, PTL DEF Spec

-----------------------------------------------------------------------------
(***************************************************************************)
(* Sums: MapThenSumSet adds up what a function gives on a finite set, one  *)
(* element at a time, each the one CHOOSE takes from those that are left.  *)
(***************************************************************************)
Sum(f, S) == MapThenSumSet(LAMBDA x : f[x], S)
Chosen(s) == CHOOSE x \in s : TRUE
Adding(g, f, S) ==
  g = [s \in SUBSET S |-> IF s = {} THEN 0 ELSE f[Chosen(s)] + g[s \ {Chosen(s)}]]

\* Among the subsets of a finite set that are in B some contains no other of them.
LEMMA Smallest ==
  ASSUME NEW S, IsFiniteSet(S), NEW B, NEW Z \in SUBSET S, Z \in B
  PROVE  \E T \in SUBSET S : T \in B /\ IsFiniteSet(T) /\ \A U \in SUBSET T : U # T => U \notin B
  <1> DEFINE Sizes == {n \in Nat : \E T \in SUBSET S : T \in B /\ n = Cardinality(T)}
  <1>1. \A T \in SUBSET S : IsFiniteSet(T) /\ Cardinality(T) \in Nat
    BY FS_Subset, FS_CardinalityType
  <1>2. Cardinality(Z) \in Sizes
    BY <1>1
  <1>3. PICK n \in Sizes : \A m \in Sizes : n <= m
    <2> Sizes \in SUBSET Nat OBVIOUS
    <2> HIDE DEF Sizes
    <2> QED BY <1>2, LeastOf
  <1>4. PICK T \in SUBSET S : T \in B /\ n = Cardinality(T)
    BY <1>3
  <1>5. ASSUME NEW U \in SUBSET T, U # T, U \in B
        PROVE  FALSE
    <2>1. Cardinality(U) <= Cardinality(T) /\ Cardinality(U) # Cardinality(T)
      BY <1>1, <1>4, <1>5, FS_Subset
    <2>2. Cardinality(U) \in Sizes
      BY <1>1, <1>4, <1>5
    <2>3. n <= Cardinality(U)
      BY <1>3, <2>2
    <2> QED
      BY <1>1, <1>4, <2>1, <2>3
  <1> QED
    BY <1>1, <1>4, <1>5

\* Chosen takes an element.
LEMMA ChosenIn == \A s : s # {} => Chosen(s) \in s
  BY DEF Chosen

\* The sum of a set does not depend on the set that it is taken from.
LEMMA AddingSame ==
  ASSUME NEW S, NEW P, NEW f, NEW g, NEW h, Adding(g, f, S), Adding(h, f, P),
         NEW Z \in SUBSET S, Z \in SUBSET P, IsFiniteSet(Z)
  PROVE  g[Z] = h[Z]
  <1> DEFINE B == {T \in SUBSET Z : g[T] # h[T]}
  <1> SUFFICES ASSUME Z \in B PROVE FALSE
    OBVIOUS
  <1>1. PICK T \in SUBSET Z : T \in B /\ \A U \in SUBSET T : U # T => U \notin B
    <2> HIDE DEF B
    <2> QED BY Smallest
  <1>2. T \in SUBSET S /\ T \in SUBSET P /\ g[T] # h[T]
    BY <1>1
  <1>3. /\ g[T] = IF T = {} THEN 0 ELSE f[Chosen(T)] + g[T \ {Chosen(T)}]
        /\ h[T] = IF T = {} THEN 0 ELSE f[Chosen(T)] + h[T \ {Chosen(T)}]
    BY <1>2 DEF Adding
  <1>4. T # {}
    BY <1>2, <1>3
  <1>5. T \ {Chosen(T)} \in SUBSET T /\ T \ {Chosen(T)} # T
    BY <1>4, ChosenIn
  <1>6. g[T \ {Chosen(T)}] = h[T \ {Chosen(T)}]
    BY <1>1, <1>5
  <1> QED
    BY <1>2, <1>3, <1>6

\* MapThenSumSet on S is what such a function gives, if there is one.
LEMMA SumIs ==
  ASSUME NEW S, IsFiniteSet(S), NEW f, NEW g, Adding(g, f, S)
  PROVE  Sum(f, S) = g[S]
  <1> DEFINE P(i) == i = [s \in SUBSET S |-> IF s = {} THEN 0
                             ELSE f[CHOOSE x \in s : TRUE] + i[s \ {CHOOSE x \in s : TRUE}]]
  <1>1. PICK h : h = CHOOSE i : P(i)
    OBVIOUS
  <1>2. Sum(f, S) = h[S]
    BY <1>1 DEF Sum, MapThenSumSet, MapThenFoldSet
  <1>3. P(g)
    BY DEF Adding, Chosen
  <1>4. P(h)
    <2> HIDE DEF P
    <2> QED BY <1>1, <1>3, Zenon
  <1>5. Adding(h, f, S)
    BY <1>4 DEF Adding, Chosen
  <1> QED
    BY <1>2, <1>5, AddingSame

\* One step of the sum, and that there is such a function.
LEMMA SumStep ==
  ASSUME NEW S, IsFiniteSet(S), NEW f
  PROVE  /\ Sum(f, S) = IF S = {} THEN 0 ELSE f[Chosen(S)] + Sum(f, S \ {Chosen(S)})
         /\ \E g : Adding(g, f, S)
  <1> DEFINE Step(T) == Sum(f, T) = IF T = {} THEN 0 ELSE f[Chosen(T)] + Sum(f, T \ {Chosen(T)})
             Right(T) == Step(T) /\ \E g : Adding(g, f, T)
             B == {T \in SUBSET S : ~Right(T)}
  <1> SUFFICES ASSUME S \in B PROVE FALSE
    OBVIOUS
  <1>1. PICK T \in SUBSET S : T \in B /\ IsFiniteSet(T) /\ \A U \in SUBSET T : U # T => U \notin B
    <2> HIDE DEF B
    <2> QED BY Smallest
  <1>2. \A U \in SUBSET T : U # T => Right(U)
    BY <1>1
  <1> DEFINE g == [s \in SUBSET T |-> IF s = {} THEN 0 ELSE f[Chosen(s)] + Sum(f, s \ {Chosen(s)})]
  <1>3. \A U \in SUBSET T : U # T => g[U] = Sum(f, U)
    BY <1>2
  <1>4. \A s \in SUBSET T : s # {} => s \ {Chosen(s)} \in SUBSET T /\ s \ {Chosen(s)} # T
    BY ChosenIn
  <1>5. Adding(g, f, T)
    <2>1. \A s \in SUBSET T : s # {} => g[s \ {Chosen(s)}] = Sum(f, s \ {Chosen(s)})
      BY <1>3, <1>4
    <2>2. \A s \in SUBSET T : g[s] = IF s = {} THEN 0 ELSE f[Chosen(s)] + g[s \ {Chosen(s)}]
      BY <2>1
    <2>3. g = [s \in SUBSET T |-> g[s]]
      BY Zenon
    <2> HIDE DEF g
    <2> QED
      BY <2>2, <2>3 DEF Adding
  <1>6. g[T] = Sum(f, T)
    <2> HIDE DEF g
    <2> QED BY <1>1, <1>5, SumIs
  <1>7. Right(T)
    BY <1>5, <1>6
  <1> QED
    BY <1>1, <1>7

\* The sum of what f gives is a number; any element may be added last.
LEMMA SumAny ==
  ASSUME NEW S, IsFiniteSet(S), NEW f, \A x \in S : f[x] \in Nat
  PROVE  /\ Sum(f, S) \in Nat
         /\ S = {} => Sum(f, S) = 0
         /\ \A x \in S : Sum(f, S) = f[x] + Sum(f, S \ {x})
  <1> DEFINE Right(T) == Sum(f, T) \in Nat /\ \A x \in T : Sum(f, T) = f[x] + Sum(f, T \ {x})
             B == {T \in SUBSET S : ~Right(T)}
  <1>1. S = {} => Sum(f, S) = 0
    BY SumStep
  <1> SUFFICES ASSUME S \in B PROVE FALSE
    BY <1>1
  <1>2. PICK T \in SUBSET S : T \in B /\ IsFiniteSet(T) /\ \A U \in SUBSET T : U # T => U \notin B
    <2> HIDE DEF B
    <2> QED BY Smallest
  <1>3. \A U \in SUBSET T : U # T => Right(U)
    BY <1>2
  <1>4. Sum(f, T) = IF T = {} THEN 0 ELSE f[Chosen(T)] + Sum(f, T \ {Chosen(T)})
    BY <1>2, SumStep
  <1>5. CASE T = {}
    BY <1>2, <1>4, <1>5
  <1>6. CASE T # {}
    <2>1. PICK c : c = Chosen(T) /\ c \in T
      BY <1>6, ChosenIn
    <2>2. Sum(f, T) = f[c] + Sum(f, T \ {c}) /\ f[c] \in Nat
      BY <1>4, <1>6, <2>1
    <2>3. Right(T \ {c})
      BY <1>3, <2>1
    <2>4. Sum(f, T) \in Nat
      BY <2>2, <2>3
    <2>5. ASSUME NEW x \in T, x # c
          PROVE  Sum(f, T) = f[x] + Sum(f, T \ {x})
      <3>1. Right(T \ {x})
        BY <1>3
      <3>2. Sum(f, T \ {c}) = f[x] + Sum(f, (T \ {c}) \ {x})
        BY <2>3, <2>5
      <3>3. Sum(f, T \ {x}) = f[c] + Sum(f, (T \ {x}) \ {c})
        BY <2>1, <2>5, <3>1
      <3>4. (T \ {x}) \ {c} = (T \ {c}) \ {x}
        OBVIOUS
      <3>5. Right((T \ {c}) \ {x})
        BY <1>3, <2>1
      <3>6. PICK a, b, s : a = f[x] /\ b = f[c] /\ s = Sum(f, (T \ {c}) \ {x})
        OBVIOUS
      <3>7. a \in Nat /\ b \in Nat /\ s \in Nat
        BY <1>2, <2>2, <3>5, <3>6
      <3>8. Sum(f, T) = b + (a + s) /\ Sum(f, T \ {x}) = b + s
        BY ONLY <2>2, <3>2, <3>3, <3>4, <3>6, Zenon
      <3>9. b + (a + s) = a + (b + s)
        BY ONLY <3>7
      <3> QED
        BY ONLY <3>6, <3>8, <3>9, Zenon
    <2> QED
      BY <1>2, <2>2, <2>4, <2>5
  <1> QED
    BY <1>5, <1>6

\* A sum taken of functions that agree is the same.
LEMMA SumSame ==
  ASSUME NEW S, IsFiniteSet(S), NEW f, NEW g, \A x \in S : f[x] = g[x]
  PROVE  Sum(f, S) = Sum(g, S)
  <1>1. PICK h : Adding(h, f, S)
    BY SumStep
  <1>2. \A s \in SUBSET S : s # {} => Chosen(s) \in S
    BY ChosenIn
  <1>3. Adding(h, g, S)
    <2>1. h = [s \in SUBSET S |-> IF s = {} THEN 0 ELSE f[Chosen(s)] + h[s \ {Chosen(s)}]]
      BY <1>1 DEF Adding
    <2>2. \A s \in SUBSET S : h[s] = IF s = {} THEN 0 ELSE g[Chosen(s)] + h[s \ {Chosen(s)}]
      BY <1>2, <2>1
    <2>3. h = [s \in SUBSET S |-> h[s]]
      BY <2>1
    <2> QED
      BY <2>2, <2>3 DEF Adding
  <1> QED
    BY <1>1, <1>3, SumIs

\* A sum grows with what is added.
LEMMA SumGrows ==
  ASSUME NEW S, IsFiniteSet(S), NEW f, NEW g,
         \A x \in S : f[x] \in Nat /\ g[x] \in Nat /\ f[x] <= g[x]
  PROVE  Sum(f, S) <= Sum(g, S)
  <1> DEFINE B == {T \in SUBSET S : ~(Sum(f, T) <= Sum(g, T))}
  <1> SUFFICES ASSUME S \in B PROVE FALSE
    OBVIOUS
  <1>1. PICK T \in SUBSET S : T \in B /\ IsFiniteSet(T) /\ \A U \in SUBSET T : U # T => U \notin B
    <2> HIDE DEF B
    <2> QED BY Smallest
  <1>2. \A h : (\A x \in T : h[x] \in Nat) =>
              /\ Sum(h, T) \in Nat
              /\ T = {} => Sum(h, T) = 0
              /\ \A x \in T : Sum(h, T) = h[x] + Sum(h, T \ {x})
    BY <1>1, SumAny
  <1>3. T # {}
    BY <1>1, <1>2
  <1>4. PICK x \in T : TRUE
    BY <1>3
  <1>5. Sum(f, T) = f[x] + Sum(f, T \ {x}) /\ Sum(g, T) = g[x] + Sum(g, T \ {x})
    BY <1>2
  <1>6. Sum(f, T \ {x}) <= Sum(g, T \ {x})
    BY <1>1
  <1>7. IsFiniteSet(T \ {x})
    BY <1>1, FS_Subset
  <1>8. Sum(f, T \ {x}) \in Nat /\ Sum(g, T \ {x}) \in Nat
    BY <1>7, SumAny
  <1>9. PICK a, b, c, d : a = f[x] /\ b = g[x] /\ c = Sum(f, T \ {x}) /\ d = Sum(g, T \ {x})
    OBVIOUS
  <1>10. a \in Nat /\ b \in Nat /\ c \in Nat /\ d \in Nat /\ a <= b /\ c <= d
    BY <1>6, <1>8, <1>9
  <1>11. Sum(f, T) = a + c /\ Sum(g, T) = b + d
    BY ONLY <1>5, <1>9, Zenon
  <1>12. a + c <= b + d
    BY ONLY <1>10
  <1>13. Sum(f, T) <= Sum(g, T)
    BY ONLY <1>11, <1>12, Zenon
  <1> QED
    BY <1>1, <1>13

\* A sum of multiples and others.
LEMMA SumLinear ==
  ASSUME NEW S, IsFiniteSet(S), NEW f, NEW g, NEW h, NEW m \in Nat,
         \A x \in S : f[x] \in Nat /\ g[x] \in Nat /\ h[x] = m * f[x] + g[x]
  PROVE  Sum(h, S) = m * Sum(f, S) + Sum(g, S)
  <1> DEFINE B == {T \in SUBSET S : ~(Sum(h, T) = m * Sum(f, T) + Sum(g, T))}
  <1> SUFFICES ASSUME S \in B PROVE FALSE
    OBVIOUS
  <1>1. PICK T \in SUBSET S : T \in B /\ IsFiniteSet(T) /\ \A U \in SUBSET T : U # T => U \notin B
    <2> HIDE DEF B
    <2> QED BY Smallest
  <1>2. \A x \in S : h[x] \in Nat
    <2> TAKE x \in S
    <2>1. PICK a, b : a = f[x] /\ b = g[x] /\ a \in Nat /\ b \in Nat /\ h[x] = m * a + b
      OBVIOUS
    <2>2. m * a + b \in Nat
      BY ONLY <2>1, m \in Nat
    <2> QED
      BY <2>1, <2>2
  <1>3. \A x \in T : /\ Sum(h, T) = h[x] + Sum(h, T \ {x})
                     /\ Sum(f, T) = f[x] + Sum(f, T \ {x})
                     /\ Sum(g, T) = g[x] + Sum(g, T \ {x})
    <2>1. /\ \A x \in T : f[x] \in Nat
          /\ \A x \in T : g[x] \in Nat
          /\ \A x \in T : h[x] \in Nat
      BY <1>2
    <2>2. \A x \in T : Sum(h, T) = h[x] + Sum(h, T \ {x})
      BY <1>1, <2>1, SumAny
    <2>3. \A x \in T : Sum(f, T) = f[x] + Sum(f, T \ {x})
      BY <1>1, <2>1, SumAny
    <2>4. \A x \in T : Sum(g, T) = g[x] + Sum(g, T \ {x})
      BY <1>1, <2>1, SumAny
    <2> QED
      BY <2>2, <2>3, <2>4
  <1>4. T # {}
    <2> SUFFICES ASSUME T = {} PROVE FALSE
      OBVIOUS
    <2>1. Sum(h, T) = 0 /\ Sum(f, T) = 0 /\ Sum(g, T) = 0
      BY <1>1, SumAny
    <2>2. 0 = m * 0 + 0
      OBVIOUS
    <2> QED
      BY <1>1, <2>1, <2>2
  <1>5. PICK x \in T : TRUE
    BY <1>4
  <1>6. Sum(h, T \ {x}) = m * Sum(f, T \ {x}) + Sum(g, T \ {x})
    BY <1>1
  <1>7. IsFiniteSet(T \ {x})
    BY <1>1, FS_Subset
  <1>8. Sum(f, T \ {x}) \in Nat /\ Sum(g, T \ {x}) \in Nat
    BY <1>7, SumAny
  <1>9. PICK a, b, c, d : a = f[x] /\ b = g[x] /\ c = Sum(f, T \ {x}) /\ d = Sum(g, T \ {x})
    OBVIOUS
  <1>10. a \in Nat /\ b \in Nat /\ c \in Nat /\ d \in Nat /\ h[x] = m * a + b
    BY <1>8, <1>9
  <1>11. Sum(h, T) = (m * a + b) + (m * c + d) /\ Sum(f, T) = a + c /\ Sum(g, T) = b + d
    BY ONLY <1>3, <1>6, <1>9, <1>10, Zenon
  <1>12. (m * a + b) + (m * c + d) = m * (a + c) + (b + d)
    <2>1. m * (a + c) = m * a + m * c
      BY ONLY <1>10, m \in Nat
    <2>2. m * a \in Nat /\ m * c \in Nat
      BY ONLY <1>10, m \in Nat
    <2>3. PICK u, v : u = m * a /\ v = m * c
      OBVIOUS
    <2>4. (u + b) + (v + d) = (u + v) + (b + d)
      BY ONLY <1>10, <2>2, <2>3
    <2> QED
      BY ONLY <2>1, <2>3, <2>4, Zenon
  <1> QED
    BY <1>1, <1>11, <1>12, Zenon

\* Nothing adds up to nothing.
LEMMA SumNothing ==
  ASSUME NEW S, IsFiniteSet(S), NEW f, \A x \in S : f[x] = 0
  PROVE  Sum(f, S) = 0
  <1>1. 1 \in Nat /\ \A x \in S : f[x] \in Nat /\ f[x] \in Nat /\ f[x] = 1 * f[x] + f[x]
    OBVIOUS
  <1>2. Sum(f, S) = 1 * Sum(f, S) + Sum(f, S)
    BY ONLY <1>1, IsFiniteSet(S), SumLinear
  <1>3. PICK v : v = Sum(f, S) /\ v \in Nat
    BY SumAny
  <1>4. v = 1 * v + v
    BY ONLY <1>2, <1>3, Zenon
  <1>5. v \in Nat
    BY <1>3
  <1>6. v = 0
    BY ONLY <1>4, <1>5
  <1> QED
    BY <1>3, <1>6

\* When one element gives m more and the others the same, so does the sum.
LEMMA SumMore ==
  ASSUME NEW S, IsFiniteSet(S), NEW f, NEW g, NEW z \in S, NEW m \in Nat,
         \A x \in S : f[x] \in Nat, g[z] = f[z] + m, \A x \in S \ {z} : g[x] = f[x]
  PROVE  Sum(g, S) = Sum(f, S) + m
  <1>1. \A x \in S : g[x] \in Nat
    BY f[z] \in Nat
  <1>2. Sum(f, S) = f[z] + Sum(f, S \ {z}) /\ Sum(g, S) = g[z] + Sum(g, S \ {z})
    BY <1>1, SumAny
  <1>3. IsFiniteSet(S \ {z})
    BY FS_Subset
  <1>4. Sum(f, S \ {z}) = Sum(g, S \ {z}) /\ Sum(f, S \ {z}) \in Nat
    BY <1>3, SumSame, SumAny
  <1>5. PICK a, b : a = f[z] /\ b = Sum(f, S \ {z}) /\ a \in Nat /\ b \in Nat
    BY <1>4
  <1>6. Sum(f, S) = a + b /\ Sum(g, S) = (a + m) + b
    BY ONLY <1>2, <1>4, <1>5, g[z] = f[z] + m, Zenon
  <1>7. (a + m) + b = (a + b) + m
    BY ONLY <1>5, m \in Nat
  <1> QED
    BY <1>6, <1>7, Zenon

\* A table: f by rows and g by columns, with their sums.
Margins(R, C, f, g, row, col) ==
  /\ IsFiniteSet(R) /\ IsFiniteSet(C)
  /\ \A r \in R, c \in C : f[r][c] \in Nat /\ g[c][r] = f[r][c]
  /\ \A r \in R : row[r] = Sum(f[r], C)
  /\ \A c \in C : col[c] = Sum(g[c], R)

\* A table adds up to the same by rows and by columns.
LEMMA SumSwap ==
  ASSUME NEW R, NEW C, NEW f, NEW g, NEW row, NEW col, Margins(R, C, f, g, row, col)
  PROVE  Sum(row, R) = Sum(col, C)
  <1> USE DEF Margins
  <1> DEFINE part(T) == [c \in C |-> Sum(g[c], T)]
             B == {T \in SUBSET R : ~(Sum(row, T) = Sum(part(T), C))}
  <1>1. ASSUME R \notin B PROVE Sum(row, R) = Sum(col, C)
    <2>1. Sum(part(R), C) = Sum(col, C)
      <3>1. \A c \in C : part(R)[c] = col[c]
        OBVIOUS
      <3> HIDE DEF part
      <3> QED BY <3>1, SumSame
    <2> QED
      BY <1>1, <2>1
  <1> SUFFICES ASSUME R \in B PROVE FALSE
    BY <1>1
  <1>2. PICK T \in SUBSET R : T \in B /\ IsFiniteSet(T) /\ \A U \in SUBSET T : U # T => U \notin B
    <2> HIDE DEF B
    <2> QED BY Smallest
  <1>3. \A r \in R : row[r] \in Nat
    BY SumAny
  <1>4. T # {}
    <2> SUFFICES ASSUME T = {} PROVE FALSE
      OBVIOUS
    <2>1. Sum(row, T) = 0
      BY <1>2, SumAny
    <2>2. \A c \in C : part(T)[c] = 0
      <3>1. \A h : Sum(h, {}) = 0
        BY FS_EmptySet, SumStep
      <3> QED BY <3>1
    <2>3. Sum(part(T), C) = 0
      <3> HIDE DEF part
      <3> QED BY <2>2, SumNothing
    <2> QED
      BY <1>2, <2>1, <2>3
  <1>5. PICK r \in T : TRUE
    BY <1>4
  <1>6. PICK rest : rest = T \ {r}
    OBVIOUS
  <1>7. rest \in SUBSET T /\ rest # T /\ IsFiniteSet(rest)
    BY <1>2, <1>6, FS_Subset
  <1>8. Sum(row, T) = row[r] + Sum(row, rest) /\ row[r] \in Nat
    <2>1. \A x \in T : row[x] \in Nat
      BY <1>3
    <2>2. \A x \in T : Sum(row, T) = row[x] + Sum(row, T \ {x})
      BY <1>2, <2>1, SumAny
    <2> QED BY <1>6, <2>1, <2>2
  <1>9. Sum(row, rest) = Sum(part(rest), C)
    BY <1>2, <1>7
  <1>10. \A c \in C : /\ part(rest)[c] \in Nat /\ f[r][c] \in Nat
                      /\ part(T)[c] = 1 * f[r][c] + part(rest)[c]
    <2> TAKE c \in C
    <2>1. \A x \in T : g[c][x] \in Nat
      OBVIOUS
    <2>2. Sum(g[c], T) = g[c][r] + Sum(g[c], rest)
      <3>1. PICK q : q = g[c]
        OBVIOUS
      <3>2. \A x \in T : q[x] \in Nat
        BY <2>1, <3>1
      <3>3. \A x \in T : Sum(q, T) = q[x] + Sum(q, T \ {x})
        BY <1>2, <3>2, SumAny
      <3> QED
        BY <1>6, <3>1, <3>3
    <2>3. Sum(g[c], rest) \in Nat
      BY <1>7, <2>1, SumAny
    <2>4. g[c][r] = f[r][c] /\ f[r][c] \in Nat
      OBVIOUS
    <2>5. 1 * f[r][c] = f[r][c]
      BY ONLY <2>4
    <2> QED
      BY <2>2, <2>3, <2>4, <2>5
  <1>11. Sum(part(T), C) = 1 * Sum(f[r], C) + Sum(part(rest), C)
    <2> HIDE DEF part
    <2> QED BY <1>10, SumLinear
  <1>12. 1 * Sum(f[r], C) = row[r]
    BY <1>3
  <1> QED
    BY <1>2, <1>8, <1>9, <1>11, <1>12

-----------------------------------------------------------------------------
(***************************************************************************)
(* Walks: the table of WalksTo, and that the number of walks to a state is *)
(* the sum over the arcs into it, once all arcs go up in the order.        *)
(***************************************************************************)
StepSum(d, w, t) == MapThenSumSet(LAMBDA r : d[r][t] * w[r], State)
ColumnSum(W, s, N) == MapThenSumSet(LAMBDA k : W[k][s], N)
FinalSum(d, F) == MapThenSumSet(LAMBDA s : WalksTo(d, s), F)

\* The three sums of PathcountExact are sums of functions.
LEMMA StepSumIs ==
  ASSUME NEW d, NEW w, NEW t
  PROVE  StepSum(d, w, t) = Sum([r \in State |-> d[r][t] * w[r]], State)
  <1> DEFINE P(i) == i = [s \in SUBSET State |-> IF s = {} THEN 0
                ELSE d[CHOOSE x \in s : TRUE][t] * w[CHOOSE x \in s : TRUE] + i[s \ {CHOOSE x \in s : TRUE}]]
  <1>1. PICK f : f = [r \in State |-> d[r][t] * w[r]]
    OBVIOUS
  <1>2. PICK h : h = CHOOSE i : P(i)
    OBVIOUS
  <1>3. StepSum(d, w, t) = h[State]
    BY <1>2 DEF StepSum, MapThenSumSet, MapThenFoldSet
  <1>4. \A s \in SUBSET State : s # {} => Chosen(s) \in State
    BY ChosenIn
  <1>5. \A i : Adding(i, f, State) <=> P(i)
    <2>1. \A s \in SUBSET State : s # {} => f[Chosen(s)] = d[Chosen(s)][t] * w[Chosen(s)]
      BY <1>1, <1>4
    <2> QED
      BY <2>1 DEF Adding, Chosen
  <1>6. PICK g : Adding(g, f, State)
    BY SumStep, TopsortAssumption
  <1>7. P(h)
    <2> HIDE DEF P
    <2> QED BY <1>2, <1>5, <1>6, Zenon
  <1>8. Sum(f, State) = h[State]
    <2> HIDE DEF P
    <2> QED BY <1>5, <1>7, SumIs, TopsortAssumption
  <1> QED
    BY <1>1, <1>3, <1>8

LEMMA ColumnSumIs ==
  ASSUME NEW W, NEW s, NEW N, IsFiniteSet(N)
  PROVE  ColumnSum(W, s, N) = Sum([k \in N |-> W[k][s]], N)
  <1> DEFINE P(i) == i = [u \in SUBSET N |-> IF u = {} THEN 0
                ELSE W[CHOOSE x \in u : TRUE][s] + i[u \ {CHOOSE x \in u : TRUE}]]
  <1>1. PICK f : f = [k \in N |-> W[k][s]]
    OBVIOUS
  <1>2. PICK h : h = CHOOSE i : P(i)
    OBVIOUS
  <1>3. ColumnSum(W, s, N) = h[N]
    BY <1>2 DEF ColumnSum, MapThenSumSet, MapThenFoldSet
  <1>4. \A u \in SUBSET N : u # {} => Chosen(u) \in N
    BY ChosenIn
  <1>5. \A i : Adding(i, f, N) <=> P(i)
    <2>1. \A u \in SUBSET N : u # {} => f[Chosen(u)] = W[Chosen(u)][s]
      BY <1>1, <1>4
    <2> QED
      BY <2>1 DEF Adding, Chosen
  <1>6. PICK g : Adding(g, f, N)
    BY SumStep
  <1>7. P(h)
    <2> HIDE DEF P
    <2> QED BY <1>2, <1>5, <1>6, Zenon
  <1>8. Sum(f, N) = h[N]
    <2> HIDE DEF P
    <2> QED BY <1>5, <1>7, SumIs
  <1> QED
    BY <1>1, <1>3, <1>8

LEMMA FinalSumIs ==
  ASSUME NEW d, NEW F, IsFiniteSet(F)
  PROVE  FinalSum(d, F) = Sum([s \in F |-> WalksTo(d, s)], F)
  <1> DEFINE P(i) == i = [u \in SUBSET F |-> IF u = {} THEN 0
                ELSE WalksTo(d, CHOOSE x \in u : TRUE) + i[u \ {CHOOSE x \in u : TRUE}]]
  <1>1. PICK f : f = [s \in F |-> WalksTo(d, s)]
    OBVIOUS
  <1>2. PICK h : h = CHOOSE i : P(i)
    OBVIOUS
  <1>3. FinalSum(d, F) = h[F]
    BY <1>2 DEF FinalSum, MapThenSumSet, MapThenFoldSet
  <1>4. \A u \in SUBSET F : u # {} => Chosen(u) \in F
    BY ChosenIn
  <1>5. \A i : Adding(i, f, F) <=> P(i)
    <2>1. \A u \in SUBSET F : u # {} => f[Chosen(u)] = WalksTo(d, Chosen(u))
      BY <1>1, <1>4
    <2> QED
      BY <2>1 DEF Adding, Chosen
  <1>6. PICK g : Adding(g, f, F)
    BY SumStep
  <1>7. P(h)
    <2> HIDE DEF P
    <2> QED BY <1>2, <1>5, <1>6, Zenon
  <1>8. Sum(f, F) = h[F]
    <2> HIDE DEF P
    <2> QED BY <1>5, <1>7, SumIs
  <1> QED
    BY <1>1, <1>3, <1>8

\* What is so for 0, and for each number after one for which it is so, is so for all up to n.
LEMMA UpTo ==
  ASSUME NEW n \in Nat, NEW B, 0 \in B, \A k \in 0..(n - 1) : k \in B => k + 1 \in B
  PROVE  \A k \in 0..n : k \in B
  <1> DEFINE M == {k \in 0..n : k \notin B}
  <1> SUFFICES ASSUME M # {} PROVE FALSE
    OBVIOUS
  <1>1. PICK k \in M : \A j \in M : k <= j
    <2> M \in SUBSET Nat OBVIOUS
    <2> HIDE DEF M
    <2> QED BY LeastOf
  <1>2. k # 0 /\ k \in 0..n
    BY <1>1
  <1>3. k - 1 \in 0..(n - 1) /\ k - 1 + 1 = k /\ ~(k <= k - 1) /\ k - 1 \in 0..n
    BY <1>2
  <1>4. k - 1 \in B
    BY <1>1, <1>3
  <1> QED
    BY <1>1, <1>3, <1>4

\* Row k counts the walks of k arcs from state 0.
Table(W, d, n) ==
  W = [k \in 0..n |-> [t \in State |-> IF k = 0 THEN IF t = 0 THEN 1 ELSE 0
                                       ELSE StepSum(d, W[k - 1], t)]]

LEMMA TableExists ==
  ASSUME NEW d, NEW n \in Nat
  PROVE  \E W : Table(W, d, n)
  <1> DEFINE B == {k \in Nat : \E W : Table(W, d, k)}
             First(k) == [j \in 0..k |-> [t \in State |-> IF t = 0 THEN 1 ELSE 0]]
  <1>1. 0 \in B
    <2>1. \A j \in 0..0 : j = 0
      OBVIOUS
    <2>2. Table(First(0), d, 0)
      BY <2>1 DEF Table
    <2> QED
      BY <2>2
  <1>2. ASSUME NEW k \in 0..(n - 1), k \in B
        PROVE  k + 1 \in B
    <2>1. PICK V : Table(V, d, k)
      BY <1>2
    <2>2. PICK W : W = [j \in 0..(k + 1) |-> [t \in State |-> IF j = 0 THEN IF t = 0 THEN 1 ELSE 0
                                                              ELSE StepSum(d, V[j - 1], t)]]
      OBVIOUS
    <2>3. \A j \in 0..k : W[j] = V[j]
      <3> TAKE j \in 0..k
      <3>1. j \in 0..(k + 1)
        OBVIOUS
      <3> QED
        BY <2>1, <2>2, <3>1 DEF Table
    <2>4. \A j \in 0..(k + 1) : j # 0 => j - 1 \in 0..k
      OBVIOUS
    <2>5. Table(W, d, k + 1)
      <3>1. \A j \in 0..(k + 1) : j # 0 => V[j - 1] = W[j - 1]
        BY <2>3, <2>4
      <3>2. \A j \in 0..(k + 1) :
              W[j] = [t \in State |-> IF j = 0 THEN IF t = 0 THEN 1 ELSE 0 ELSE StepSum(d, W[j - 1], t)]
        <4> TAKE j \in 0..(k + 1)
        <4>1. W[j] = [t \in State |-> IF j = 0 THEN IF t = 0 THEN 1 ELSE 0 ELSE StepSum(d, V[j - 1], t)]
          BY <2>2
        <4> QED
          BY <3>1, <4>1
      <3>3. W = [j \in 0..(k + 1) |-> W[j]]
        BY <2>2
      <3> QED
        BY <3>2, <3>3 DEF Table
    <2> QED
      BY <2>5
  <1>3. \A k \in 0..n : k \in B
    <2> HIDE DEF B
    <2> QED BY <1>1, <1>2, UpTo
  <1> QED
    BY <1>3

\* WalksTo adds up a column of the table.
WalkSum(W, s) == Sum([k \in 0..(statecount - 1) |-> W[k][s]], 0..(statecount - 1))

LEMMA WalksToIs ==
  ASSUME NEW d
  PROVE  \E W : Table(W, d, statecount - 1) /\ \A s : WalksTo(d, s) = WalkSum(W, s)
  <1> DEFINE P(W) == W = [k \in 0..(statecount - 1) |-> [t \in State |->
                            IF k = 0 THEN IF t = 0 THEN 1 ELSE 0
                            ELSE MapThenSumSet(LAMBDA r : d[r][t] * W[k - 1][r], State)]]
  <1>1. statecount \in Nat \ {0}
    BY TopsortAssumption, FS_CardinalityType, FS_EmptySet DEF statecount
  <1>2. PICK W : W = CHOOSE V : P(V)
    OBVIOUS
  <1>3. ASSUME NEW s PROVE WalksTo(d, s) = WalkSum(W, s)
    <2>1. WalksTo(d, s) = ColumnSum(CHOOSE V : P(V), s, 0..(statecount - 1))
      BY DEF WalksTo, ColumnSum
    <2> HIDE DEF P
    <2>2. WalksTo(d, s) = ColumnSum(W, s, 0..(statecount - 1))
      BY <1>2, <2>1
    <2>3. IsFiniteSet(0..(statecount - 1))
      BY <1>1, FS_Interval
    <2>4. ColumnSum(W, s, 0..(statecount - 1)) = WalkSum(W, s)
      <3>1. PICK N : N = 0..(statecount - 1)
        OBVIOUS
      <3>2. IsFiniteSet(N)
        BY <2>3, <3>1
      <3>3. ColumnSum(W, s, N) = Sum([k \in N |-> W[k][s]], N)
        BY ONLY <3>2, ColumnSumIs
      <3> QED
        BY <3>1, <3>3 DEF WalkSum
    <2> QED
      BY <2>2, <2>4
  <1>4. \A V : Table(V, d, statecount - 1) <=> P(V)
    BY DEF Table, StepSum
  <1>5. P(W)
    <2>1. PICK V : Table(V, d, statecount - 1)
      BY <1>1, TableExists
    <2> HIDE DEF P
    <2> QED BY <1>2, <1>4, <2>1, Zenon
  <1> HIDE DEF P
  <1> QED
    BY <1>3, <1>4, <1>5

\* The rows of the table: numbers, each the sum over the arcs of the row before.
LEMMA Rows ==
  ASSUME NEW d \in [State -> [State -> Nat]], NEW n \in Nat, NEW W, Table(W, d, n)
  PROVE  /\ \A k \in 0..n : \A s \in State : W[k][s] \in Nat
         /\ \A s \in State : W[0][s] = IF s = 0 THEN 1 ELSE 0
         /\ \A k \in 0..(n - 1) : \A t \in State :
              W[k + 1][t] = Sum([r \in State |-> d[r][t] * W[k][r]], State)
  <1>1. \A s \in State : W[0][s] = IF s = 0 THEN 1 ELSE 0
    <2>1. 0 \in 0..n
      OBVIOUS
    <2> QED
      BY <2>1 DEF Table
  <1>2. ASSUME NEW k \in 0..(n - 1), NEW t \in State
        PROVE  W[k + 1][t] = Sum([r \in State |-> d[r][t] * W[k][r]], State)
    <2>1. k + 1 \in 0..n /\ k + 1 # 0 /\ k + 1 - 1 = k
      OBVIOUS
    <2>2. PICK j : j = k + 1
      OBVIOUS
    <2>3. j \in 0..n /\ j # 0
      BY <2>1, <2>2
    <2>4. j - 1 = k
      BY <2>2
    <2>5. PICK R : R = W[j]
      OBVIOUS
    <2>6. PICK Q : Q = W[j - 1]
      OBVIOUS
    <2>7. R[t] = StepSum(d, Q, t)
      <3>1. W = [i \in 0..n |-> [s \in State |-> IF i = 0 THEN IF s = 0 THEN 1 ELSE 0
                                                ELSE StepSum(d, W[i - 1], s)]]
        BY DEF Table
      <3>2. R = [s \in State |-> IF j = 0 THEN IF s = 0 THEN 1 ELSE 0 ELSE StepSum(d, Q, s)]
        BY ONLY <2>3, <2>5, <2>6, <3>1, Zenon
      <3> QED
        BY ONLY <2>3, <3>2, t \in State, Zenon
    <2>8. Q = W[k]
      BY ONLY <2>4, <2>6, Zenon
    <2>9. W[k + 1][t] = StepSum(d, W[k], t)
      BY ONLY <2>2, <2>5, <2>7, <2>8, Zenon
    <2> QED
      BY <2>9, StepSumIs
  <1> DEFINE B == {k \in 0..n : \A s \in State : W[k][s] \in Nat}
  <1>3. 0 \in B
    BY <1>1
  <1>4. ASSUME NEW k \in 0..(n - 1), k \in B
        PROVE  k + 1 \in B
    <2>1. PICK w : w = W[k]
      OBVIOUS
    <2>2. \A s \in State : w[s] \in Nat
      BY <1>4, <2>1
    <2>3. ASSUME NEW t \in State PROVE W[k + 1][t] \in Nat
      <3>1. PICK f : f = [r \in State |-> d[r][t] * w[r]]
        OBVIOUS
      <3>2. \A r \in State : f[r] \in Nat
        <4> TAKE r \in State
        <4>1. PICK a, b : a = d[r][t] /\ b = w[r] /\ a \in Nat /\ b \in Nat
          BY <2>2
        <4>2. a * b \in Nat
          BY ONLY <4>1
        <4> QED
          BY <3>1, <4>1, <4>2
      <3>3. Sum(f, State) \in Nat
        BY <3>2, SumAny, TopsortAssumption
      <3> QED
        BY <1>2, <2>1, <3>1, <3>3
    <2>4. k + 1 \in 0..n
      OBVIOUS
    <2> QED
      BY <2>3, <2>4
  <1>5. \A k \in 0..n : k \in B
    <2> HIDE DEF B
    <2> QED BY <1>3, <1>4, UpTo
  <1> QED
    BY <1>1, <1>2, <1>5

\* All arcs go up from one place to a higher one.
Upward(d, place) ==
  /\ place \in [State -> 1..statecount]
  /\ \A r, t \in State : d[r][t] # 0 => place[r] < place[t]

\* No walk of k arcs leads to one of the first k places.
LEMMA LongWalks ==
  ASSUME NEW d \in [State -> [State -> Nat]], NEW n \in Nat, NEW W, Table(W, d, n),
         NEW place, Upward(d, place)
  PROVE  \A k \in 0..n : \A s \in State : place[s] <= k => W[k][s] = 0
  <1> DEFINE B == {k \in 0..n : \A s \in State : place[s] <= k => W[k][s] = 0}
  <1>1. statecount \in Nat \ {0}
    BY TopsortAssumption, FS_CardinalityType, FS_EmptySet DEF statecount
  <1>2. \A s \in State : place[s] \in Nat /\ place[s] > 0
    BY <1>1 DEF Upward
  <1>3. 0 \in B
    BY <1>2
  <1>4. ASSUME NEW k \in 0..(n - 1), k \in B
        PROVE  k + 1 \in B
    <2>1. ASSUME NEW t \in State, place[t] <= k + 1
          PROVE  W[k + 1][t] = 0
      <3>1. PICK f : f = [r \in State |-> d[r][t] * W[k][r]]
        OBVIOUS
      <3>2. ASSUME NEW r \in State PROVE f[r] = 0
        <4>1. CASE d[r][t] = 0
          <5>1. W[k][r] \in Nat
            BY Rows
          <5>2. 0 * W[k][r] = 0
            BY <5>1
          <5> QED
            BY <3>1, <4>1, <5>2
        <4>2. CASE d[r][t] # 0
          <5>1. place[r] < place[t]
            BY <4>2 DEF Upward
          <5>2. place[r] <= k
            BY <1>2, <2>1, <5>1
          <5>3. W[k][r] = 0
            BY <1>4, <5>2
          <5>4. d[r][t] * 0 = 0
            OBVIOUS
          <5> QED
            BY <3>1, <5>3, <5>4
        <4> QED
          BY <4>1, <4>2
      <3>3. Sum(f, State) = 0
        BY <3>2, SumNothing, TopsortAssumption
      <3>4. \A j \in 0..(n - 1) : \A u \in State :
              W[j + 1][u] = Sum([r \in State |-> d[r][u] * W[j][r]], State)
        BY Rows
      <3>5. W[k + 1][t] = Sum(f, State)
        BY ONLY <3>1, <3>4, k \in 0..(n - 1), t \in State, Zenon
      <3> QED
        BY ONLY <3>3, <3>5, Zenon
    <2>2. k + 1 \in 0..n
      OBVIOUS
    <2> QED
      BY <2>1, <2>2
  <1>5. \A k \in 0..n : k \in B
    <2> HIDE DEF B
    <2> QED BY <1>3, <1>4, UpTo
  <1> QED
    BY <1>5

\* The walks to a state are those along its last arc, and to state 0 there is the one without arcs.
LEMMA WalksFollowArcs ==
  ASSUME NEW d \in [State -> [State -> Nat]], NEW place, Upward(d, place), NEW t \in State
  PROVE  /\ WalksTo(d, t) \in Nat
         /\ WalksTo(d, t) = (IF t = 0 THEN 1 ELSE 0) + Sum([r \in State |-> d[r][t] * WalksTo(d, r)], State)
  <1>1. PICK n : n = statecount - 1 /\ n \in Nat
    BY TopsortAssumption, FS_CardinalityType, FS_EmptySet DEF statecount
  <1>2. PICK K : K = 0..n /\ IsFiniteSet(K)
    BY <1>1, FS_Interval
  <1>3. PICK W : Table(W, d, n) /\ \A s : WalksTo(d, s) = Sum([k \in K |-> W[k][s]], K)
    <2>1. PICK W : Table(W, d, statecount - 1) /\ \A s : WalksTo(d, s) = WalkSum(W, s)
      BY WalksToIs
    <2>2. \A s : WalksTo(d, s) = Sum([k \in K |-> W[k][s]], K)
      BY <1>1, <1>2, <2>1 DEF WalkSum
    <2> QED
      BY <1>1, <2>1, <2>2
  <1>4. /\ \A k \in K : \A s \in State : W[k][s] \in Nat
        /\ W[0][t] = IF t = 0 THEN 1 ELSE 0
        /\ \A k \in 0..(n - 1) : W[k + 1][t] = Sum([r \in State |-> d[r][t] * W[k][r]], State)
    <2>1. /\ \A k \in 0..n : \A s \in State : W[k][s] \in Nat
          /\ \A s \in State : W[0][s] = IF s = 0 THEN 1 ELSE 0
          /\ \A k \in 0..(n - 1) : \A u \in State :
               W[k + 1][u] = Sum([r \in State |-> d[r][u] * W[k][r]], State)
      <3>1. n \in Nat /\ Table(W, d, n)
        BY <1>1, <1>3
      <3> QED
        BY ONLY <3>1, d \in [State -> [State -> Nat]], Rows
    <2>2. \A k \in K : \A s \in State : W[k][s] \in Nat
      BY <1>2, <2>1
    <2>3. W[0][t] = IF t = 0 THEN 1 ELSE 0
      BY <2>1
    <2>4. \A k \in 0..(n - 1) : W[k + 1][t] = Sum([r \in State |-> d[r][t] * W[k][r]], State)
      BY ONLY <2>1, t \in State, Zenon
    <2> QED
      BY ONLY <2>2, <2>3, <2>4, Zenon
  <1>5. IsFiniteSet(State) /\ \A r \in State : d[r][t] \in Nat
    BY TopsortAssumption
  <1>6. \A r \in State : WalksTo(d, r) \in Nat
    <2> TAKE r \in State
    <2>1. PICK f : f = [k \in K |-> W[k][r]]
      OBVIOUS
    <2>2. \A k \in K : f[k] \in Nat
      BY <1>4, <2>1
    <2>3. Sum(f, K) \in Nat
      BY <1>2, <2>2, SumAny
    <2> QED
      BY <1>3, <2>1, <2>3
  <1>7. PICK f : f = [r \in State |-> [k \in K |-> d[r][t] * W[k][r]]]
    OBVIOUS
  <1>8. PICK g : g = [k \in K |-> [r \in State |-> d[r][t] * W[k][r]]]
    OBVIOUS
  <1>9. PICK row : row = [r \in State |-> d[r][t] * WalksTo(d, r)]
    OBVIOUS
  <1>10. PICK col : col = [k \in K |-> Sum(g[k], State)]
    OBVIOUS
  <1>11. \A r \in State, k \in K : f[r][k] \in Nat /\ g[k][r] = f[r][k]
    <2> TAKE r \in State, k \in K
    <2>1. PICK a, b : a = d[r][t] /\ b = W[k][r] /\ a \in Nat /\ b \in Nat
      BY <1>4, <1>5
    <2>2. a * b \in Nat
      BY ONLY <2>1
    <2> QED
      BY <1>7, <1>8, <2>1, <2>2
  <1>12. ASSUME NEW r \in State PROVE row[r] = Sum(f[r], K)
    <2>1. PICK m, u, z, h : m = d[r][t] /\ u = [k \in K |-> W[k][r]] /\ z = [k \in K |-> 0] /\ h = f[r]
      OBVIOUS
    <2>2. m \in Nat /\ \A k \in K : u[k] \in Nat /\ z[k] \in Nat /\ h[k] = m * u[k] + z[k]
      <3>1. m \in Nat
        BY <1>5, <2>1
      <3> SUFFICES ASSUME NEW k \in K
                   PROVE  u[k] \in Nat /\ z[k] \in Nat /\ h[k] = m * u[k] + z[k]
        BY <3>1
      <3>2. PICK b : b = W[k][r] /\ b \in Nat
        BY <1>4
      <3>3. h[k] = m * b /\ u[k] = b /\ z[k] = 0
        BY <1>7, <2>1, <3>2
      <3>4. m * b = m * b + 0
        BY ONLY <3>1, <3>2
      <3> QED
        BY <3>2, <3>3, <3>4
    <2>3. Sum(h, K) = m * Sum(u, K) + Sum(z, K)
      <3>1. \A x \in K : u[x] \in Nat /\ z[x] \in Nat /\ h[x] = m * u[x] + z[x]
        BY <2>2
      <3>2. m \in Nat /\ IsFiniteSet(K)
        BY <1>2, <2>2
      <3> QED
        BY ONLY <3>1, <3>2, SumLinear
    <2>4. Sum(z, K) = 0
      <3>1. \A k \in K : z[k] = 0
        BY <2>1
      <3> QED
        BY <1>2, <3>1, SumNothing
    <2>5. Sum(u, K) = WalksTo(d, r)
      BY <1>3, <2>1
    <2>6. PICK v : v = WalksTo(d, r) /\ v \in Nat
      BY <1>6
    <2>7. m * v + 0 = m * v
      BY ONLY <2>2, <2>6
    <2> QED
      BY <1>9, <2>1, <2>3, <2>4, <2>5, <2>6, <2>7
  <1>13. Sum(row, State) = Sum(col, K)
    <2>1. \A r \in State : row[r] = Sum(f[r], K)
      BY <1>12
    <2>2. \A k \in K : col[k] = Sum(g[k], State)
      BY <1>10
    <2>3. IsFiniteSet(State)
      BY <1>5
    <2>4. IsFiniteSet(K)
      BY <1>2
    <2>5. Margins(State, K, f, g, row, col)
      BY ONLY <1>11, <2>1, <2>2, <2>3, <2>4 DEF Margins
    <2> QED
      BY ONLY <2>5, SumSwap
  <1>14. PICK c : c = [k \in K |-> W[k][t]]
    OBVIOUS
  <1>15. \A k \in K : c[k] \in Nat /\ col[k] \in Nat
    <2> TAKE k \in K
    <2>1. PICK q : q = g[k]
      OBVIOUS
    <2>2. \A r \in State : q[r] \in Nat
      BY <1>11, <2>1
    <2>3. Sum(q, State) \in Nat
      BY <1>5, <2>2, SumAny
    <2> QED
      BY <1>4, <1>10, <1>14, <2>1, <2>3
  <1>16. \A k \in 0..(n - 1) : c[k + 1] = col[k]
    <2> TAKE k \in 0..(n - 1)
    <2>1. k \in K /\ k + 1 \in K
      BY <1>1, <1>2
    <2>2. g[k] = [r \in State |-> d[r][t] * W[k][r]]
      BY <1>8, <2>1
    <2> QED
      BY <1>4, <1>10, <1>14, <2>1, <2>2
  <1>17. col[n] = 0
    <2>1. n \in K
      BY <1>1, <1>2
    <2>2. PICK q : q = g[n]
      OBVIOUS
    <2>3. ASSUME NEW r \in State PROVE q[r] = 0
      <3>1. q[r] = d[r][t] * W[n][r] /\ W[n][r] \in Nat
        BY <1>4, <1>8, <2>1, <2>2
      <3>2. CASE place[r] <= n
        <4>1. W[n][r] = 0
          BY <1>1, <1>3, <3>2, LongWalks
        <4> QED
          BY <1>5, <3>1, <4>1
      <3>3. CASE ~(place[r] <= n)
        <4>1. place[r] \in 1..(n + 1) /\ place[t] \in 1..(n + 1)
          <5>1. statecount = n + 1
            <6>1. statecount \in Nat
              BY TopsortAssumption, FS_CardinalityType DEF statecount
            <6> QED
              BY ONLY <1>1, <6>1
          <5>2. place[r] \in 1..statecount /\ place[t] \in 1..statecount
            BY DEF Upward
          <5> QED
            BY ONLY <5>1, <5>2, Zenon
        <4>2. ~(place[r] < place[t])
          BY <1>1, <3>3, <4>1
        <4>3. d[r][t] = 0
          BY <4>2 DEF Upward
        <4> QED
          BY <3>1, <4>3
      <3> QED
        BY <3>2, <3>3
    <2>4. Sum(q, State) = 0
      BY <1>5, <2>3, SumNothing
    <2> QED
      BY <1>10, <2>1, <2>2, <2>4
  <1> DEFINE B == {m \in 0..n : Sum(c, 0..m) = c[0] + Sum(col, 0..(m - 1))}
  <1>18. \A N \in SUBSET K : /\ IsFiniteSet(N)
                             /\ \A x \in N : Sum(c, N) = c[x] + Sum(c, N \ {x})
                             /\ \A x \in N : Sum(col, N) = col[x] + Sum(col, N \ {x})
                             /\ Sum(col, N) \in Nat
    <2> TAKE N \in SUBSET K
    <2>1. IsFiniteSet(N)
      BY <1>2, FS_Subset
    <2>2. /\ \A x \in N : c[x] \in Nat
          /\ \A x \in N : col[x] \in Nat
      BY <1>15
    <2>3. \A x \in N : Sum(c, N) = c[x] + Sum(c, N \ {x})
      BY <2>1, <2>2, SumAny
    <2>4. Sum(col, N) \in Nat /\ \A x \in N : Sum(col, N) = col[x] + Sum(col, N \ {x})
      BY <2>1, <2>2, SumAny
    <2> QED
      BY <2>1, <2>3, <2>4
  <1>19. \A h : Sum(h, {}) = 0
    BY FS_EmptySet, SumStep
  <1>20. 0 \in B
    <2>1. 0..0 = {0} /\ 0..(0 - 1) = {} /\ {0} \in SUBSET K /\ {0} \ {0} = {} /\ 0 \in 0..n
      BY <1>1, <1>2
    <2>2. Sum(c, {0}) = c[0] + Sum(c, {})
      BY <1>18, <2>1
    <2> QED
      BY <1>19, <2>1, <2>2
  <1>21. ASSUME NEW m \in 0..(n - 1), m \in B PROVE m + 1 \in B
    <2>1. PICK M, L, J : M = 0..(m + 1) /\ L = 0..m /\ J = 0..(m - 1)
      OBVIOUS
    <2>2. /\ M \in SUBSET K /\ L \in SUBSET K /\ m + 1 \in M /\ M \ {m + 1} = L
          /\ m \in L /\ L \ {m} = J /\ m + 1 - 1 = m /\ m + 1 \in 0..n /\ J \in SUBSET K /\ 0 \in K
      BY <1>1, <1>2, <2>1
    <2>3. Sum(c, L) = c[0] + Sum(col, J)
      BY <1>21, <2>1
    <2>4. Sum(c, M) = c[m + 1] + Sum(c, L) /\ Sum(col, L) = col[m] + Sum(col, J)
      BY <1>18, <2>2
    <2>5. c[m + 1] = col[m]
      BY <1>16
    <2>6. PICK x, y, z : x = c[0] /\ y = col[m] /\ z = Sum(col, J) /\ x \in Nat /\ y \in Nat /\ z \in Nat
      BY <1>15, <1>18, <2>2
    <2>7. Sum(c, M) = y + (x + z) /\ Sum(col, L) = y + z
      BY ONLY <2>3, <2>4, <2>5, <2>6, Zenon
    <2>8. y + (x + z) = x + (y + z)
      <3>1. x \in Nat /\ y \in Nat /\ z \in Nat
        BY <2>6
      <3> QED
        BY ONLY <3>1
    <2>9. Sum(c, M) = c[0] + Sum(col, L)
      BY ONLY <2>6, <2>7, <2>8, Zenon
    <2> QED
      BY <2>1, <2>2, <2>9
  <1>22. Sum(c, 0..n) = c[0] + Sum(col, 0..(n - 1))
    <2>1. \A m \in 0..n : m \in B
      <3> HIDE DEF B
      <3> QED BY <1>1, <1>20, <1>21, UpTo
    <2>2. n \in 0..n
      BY <1>1
    <2> QED
      BY <2>1, <2>2
  <1>23. Sum(col, K) = Sum(col, 0..(n - 1))
    <2>1. n \in K /\ K \ {n} = 0..(n - 1) /\ K \in SUBSET K
      BY <1>1, <1>2
    <2>2. Sum(col, K) = 0 + Sum(col, 0..(n - 1))
      <3>1. Sum(col, K) = col[n] + Sum(col, K \ {n})
        BY ONLY <1>18, <2>1, Zenon
      <3> QED
        BY ONLY <1>17, <2>1, <3>1, Zenon
    <2>3. Sum(col, K) \in Nat /\ Sum(col, 0..(n - 1)) \in Nat
      BY <1>18, <2>1
    <2> QED
      BY <2>2, <2>3
  <1>24. 0 \in K /\ c[0] = IF t = 0 THEN 1 ELSE 0
    BY <1>1, <1>2, <1>4, <1>14
  <1>25. WalksTo(d, t) = Sum(c, K)
    BY <1>3, <1>14
  <1> HIDE DEF B
  <1> QED
    BY <1>2, <1>6, <1>9, <1>13, <1>22, <1>23, <1>24, <1>25

-----------------------------------------------------------------------------
(***************************************************************************)
(* Paths: pathcount adds up the paths along the arcs that were followed,   *)
(* exactly until the first overflow and no more than them after it.        *)
(***************************************************************************)

\* What the states give t along the arcs that have been followed.
Led(t) == [s \in State |-> IF Open(s, t) THEN 0 ELSE net.arcs[s][t] * pathcount[s]]
Got(t) == (IF t = 0 THEN 1 ELSE 0) + Sum(Led(t), State)

Counted ==
  Working =>
    /\ ~overflow => \A t \in State : pathcount[t] = Got(t)
    /\ overflow => /\ \A t \in State : pathcount[t] <= Got(t)
                   /\ \E t \in State : Got(t) >= PathLimit

\* The tables that the counting uses.
CountTables ==
  /\ pathcount \in [State -> 0..(PathLimit - 1)]
  /\ overflow \in BOOLEAN
  /\ pc = "start" => pathcount = [s \in State |-> 0] /\ overflow = FALSE

Counting == CountTables /\ Counted /\ PathcountExact

\* Inductive together with TopInv.
PathInv == Narrow => Counting

\* A product is a number, and grows with its factors.
LEMMA ProductGrows ==
  ASSUME NEW a \in Nat, NEW b \in Nat, NEW n \in Nat, a <= b
  PROVE  n * a \in Nat /\ n * b \in Nat /\ n * a <= n * b
  <1>1. PICK c : c = b - a
    OBVIOUS
  <1>2. c \in Nat /\ b = a + c
    BY <1>1
  <1>3. n * (a + c) = n * a + n * c
    BY ONLY <1>2, a \in Nat, n \in Nat
  <1>4. n * a \in Nat /\ n * c \in Nat
    BY ONLY <1>2, a \in Nat, n \in Nat
  <1>5. PICK x, y : x = n * a /\ y = n * c
    OBVIOUS
  <1>6. x \in Nat /\ y \in Nat
    BY <1>4, <1>5
  <1>7. x <= x + y /\ x + y \in Nat
    BY ONLY <1>6
  <1>8. n * b = x + y
    BY ONLY <1>2, <1>3, <1>5, Zenon
  <1> QED
    BY <1>4, <1>5, <1>7, <1>8

\* Paths gives up exactly when the sum does not fit.
LEMMA PathsIs ==
  ASSUME NEW p \in 0..(PathLimit - 1), NEW q \in 0..(PathLimit - 1), NEW n \in Nat
  PROVE  /\ q + n * p \in Nat
         /\ Paths(p, q, n) = Overflow => q + n * p >= PathLimit
         /\ Paths(p, q, n) # Overflow => Paths(p, q, n) = q + n * p /\ q + n * p < PathLimit
  <1>1. PathLimit \in Nat /\ PathLimit > 1
    BY TopsortAssumption
  <1>2. p \in Nat /\ q \in Nat /\ q < PathLimit
    BY <1>1
  <1>3. PICK m : m = n * p /\ m \in Nat
    BY <1>2, ProductGrows
  <1>4. m \in Nat
    BY <1>3
  <1>5. q + m \in Nat /\ q + m # Overflow
    BY <1>2, <1>4 DEF Overflow
  <1>6. CASE p = 0
    <2>1. n * 0 = 0
      OBVIOUS
    <2>2. m = 0
      BY <1>3, <1>6, <2>1
    <2>3. Paths(p, q, n) = q + n * p
      BY <1>6 DEF Paths
    <2> QED
      BY <1>2, <1>3, <1>5, <2>2, <2>3
  <1>7. CASE p # 0
    <2>1. PICK k : k = (PathLimit - 1 - q) \div p
      OBVIOUS
    <2>2. k \in Nat /\ p * k <= PathLimit - 1 - q /\ PathLimit - 1 - q < p * (k + 1)
      <3>1. PICK a : a = PathLimit - 1 - q
        OBVIOUS
      <3>2. a \in Nat /\ p \in Nat \ {0}
        BY <1>1, <1>2, <1>7, <3>1
      <3>3. k = a \div p
        BY <2>1, <3>1
      <3>4. k \in Nat /\ p * k <= a /\ a < p * (k + 1)
        BY ONLY <3>2, <3>3
      <3> QED
        BY <3>1, <3>4
    <2>3. Paths(p, q, n) = IF n > k THEN Overflow ELSE q + m
      BY <1>2, <1>3, <1>7, <2>1 DEF Paths
    <2>4. p * n = m
      BY <1>2, <1>3
    <2>5. ASSUME n > k PROVE q + m >= PathLimit
      <3>1. p * (k + 1) <= p * n /\ p * (k + 1) \in Nat
        <4>1. k + 1 \in Nat /\ k + 1 <= n
          BY <2>2, <2>5
        <4> QED
          BY ONLY <4>1, <1>2, n \in Nat, ProductGrows
      <3>2. PICK z : z = p * (k + 1)
        OBVIOUS
      <3>3. z \in Nat /\ z <= m /\ PathLimit - 1 - q < z
        BY <2>2, <2>4, <3>1, <3>2
      <3> QED
        BY ONLY <1>1, <1>2, <1>4, <3>3
    <2>6. ASSUME ~(n > k) PROVE q + m < PathLimit
      <3>1. p * n <= p * k /\ p * k \in Nat
        <4>1. k \in Nat /\ n <= k
          BY <2>2, <2>6
        <4> QED
          BY ONLY <4>1, <1>2, n \in Nat, ProductGrows
      <3>2. PICK z : z = p * k
        OBVIOUS
      <3>3. z \in Nat /\ m <= z /\ z <= PathLimit - 1 - q
        BY <2>2, <2>4, <3>1, <3>2
      <3> QED
        BY ONLY <1>1, <1>2, <1>4, <3>3
    <2> QED
      BY <1>3, <1>5, <2>3, <2>5, <2>6
  <1> QED
    BY <1>6, <1>7

\* What a state is given are numbers.
LEMMA LedFacts ==
  ASSUME net \in Nets, CountTables, NEW t \in State
  PROVE  /\ \A s \in State : Led(t)[s] \in Nat
         /\ Sum(Led(t), State) \in Nat
         /\ Got(t) \in Nat
         /\ \A s \in State : net.arcs[s][t] \in Nat /\ pathcount[s] \in Nat
  <1>1. \A s \in State : net.arcs[s][t] \in Nat /\ pathcount[s] \in Nat
    BY TopsortAssumption DEF CountTables
  <1>2. ASSUME NEW s \in State PROVE Led(t)[s] \in Nat
    <2>1. net.arcs[s][t] * pathcount[s] \in Nat
      BY <1>1, ProductGrows
    <2> QED
      BY <2>1 DEF Led
  <1>3. Sum(Led(t), State) \in Nat
    <2>1. PICK f : f = Led(t)
      OBVIOUS
    <2>2. \A s \in State : f[s] \in Nat
      BY <1>2, <2>1
    <2>3. Sum(f, State) \in Nat
      BY <2>2, SumAny, TopsortAssumption
    <2> QED
      BY <2>1, <2>3
  <1>4. Got(t) \in Nat
    BY <1>3 DEF Got
  <1> QED
    BY <1>1, <1>2, <1>3, <1>4

\* Where the arcs followed and the paths stay, what a state is given stays.
LEMMA LedFrame ==
  ASSUME net \in Nets, CountTables, net' = net, NEW t \in State,
         \A s \in State : t \in Targets(s) =>
           (Open(s, t)' <=> Open(s, t)) /\ (Open(s, t) \/ pathcount'[s] = pathcount[s]),
         \A s \in State : pathcount'[s] \in Nat
  PROVE  Got(t)' = Got(t)
  <1>1. ASSUME NEW s \in State PROVE Led(t)'[s] = Led(t)[s]
    <2>1. Led(t)'[s] = IF Open(s, t)' THEN 0 ELSE net.arcs[s][t] * pathcount'[s]
      BY DEF Led
    <2>2. Led(t)[s] = IF Open(s, t) THEN 0 ELSE net.arcs[s][t] * pathcount[s]
      BY DEF Led
    <2>3. CASE t \in Targets(s)
      BY <2>1, <2>2, <2>3
    <2>4. CASE t \notin Targets(s)
      <3>1. net.arcs[s][t] = 0
        BY <2>4, LedFacts DEF Targets
      <3>2. pathcount[s] \in Nat /\ pathcount'[s] \in Nat
        BY LedFacts
      <3>3. 0 * pathcount[s] = 0 /\ 0 * pathcount'[s] = 0
        BY <3>2
      <3> QED
        BY ONLY <2>1, <2>2, <3>1, <3>3, Zenon
    <2> QED
      BY <2>3, <2>4
  <1>2. PICK f, g : f = Led(t) /\ g = Led(t)'
    OBVIOUS
  <1>3. Sum(f, State) = Sum(g, State)
    BY <1>1, <1>2, SumSame, TopsortAssumption
  <1>4. Got(t) = (IF t = 0 THEN 1 ELSE 0) + Sum(f, State)
    BY <1>2 DEF Got
  <1>5. Got(t)' = (IF t = 0 THEN 1 ELSE 0) + Sum(g, State)
    BY <1>2 DEF Got
  <1> QED
    BY <1>3, <1>4, <1>5

\* Where LedFrame applies to every state, Counted stays.
LEMMA CountedFrame ==
  ASSUME net \in Nets, CountTables, Working, Counted, CountTables',
         UNCHANGED <<net, pathcount, overflow>>,
         \A s, t \in State : t \in Targets(s) => (Open(s, t)' <=> Open(s, t))
  PROVE  Counted'
  <1>1. \A t \in State : Got(t)' = Got(t)
    <2> TAKE t \in State
    <2>1. \A s \in State : pathcount'[s] \in Nat
      BY LedFacts
    <2>2. \A s \in State : t \in Targets(s) =>
             (Open(s, t)' <=> Open(s, t)) /\ (Open(s, t) \/ pathcount'[s] = pathcount[s])
      OBVIOUS
    <2>3. net' = net
      OBVIOUS
    <2> QED
      BY <2>1, <2>2, <2>3, LedFrame
  <1> QED
    BY <1>1 DEF Counted

LEMMA CountCounts ==
  ASSUME Sorting, Counting, Count PROVE CountTables' /\ Counted'
  <1>1. /\ pc = "start" /\ pc' = "pop" /\ pathcount' = [pathcount EXCEPT ![0] = 1]
        /\ UNCHANGED <<net, treated, overflow>>
    BY DEF Count
  <1>2. treated = {} /\ pathcount = [s \in State |-> 0] /\ overflow = FALSE
    BY <1>1 DEF Sorting, Tables, Counting, CountTables
  <1>3. pathcount' = [s \in State |-> IF s = 0 THEN 1 ELSE 0]
    BY <1>1, <1>2
  <1>4. CountTables'
    <2>1. 0 \in 0..(PathLimit - 1) /\ 1 \in 0..(PathLimit - 1)
      <3>1. PathLimit \in Nat /\ PathLimit # 0 /\ PathLimit # 1
        BY TopsortAssumption
      <3> QED
        BY ONLY <3>1
    <2>2. pathcount' \in [State -> 0..(PathLimit - 1)]
      BY ONLY <1>3, <2>1
    <2>3. pc' # "start" /\ overflow' \in BOOLEAN
      BY <1>1, <1>2
    <2> QED
      BY <2>2, <2>3 DEF CountTables
  <1>5. \A t \in State : Got(t)' = IF t = 0 THEN 1 ELSE 0
    <2> TAKE t \in State
    <2>1. PICK f : f = Led(t)'
      OBVIOUS
    <2>2. \A s \in State : f[s] = 0
      <3>1. \A s \in State : Open(s, t)'
        BY <1>1, <1>2 DEF Open
      <3> QED
        BY <2>1, <3>1 DEF Led
    <2>3. Sum(f, State) = 0
      BY <2>2, SumNothing, TopsortAssumption
    <2>4. Got(t)' = (IF t = 0 THEN 1 ELSE 0) + Sum(f, State)
      BY <2>1 DEF Got
    <2> QED
      BY <2>3, <2>4
  <1> QED
    BY <1>1, <1>2, <1>3, <1>4, <1>5 DEF Counted

LEMMA TreatCounts ==
  ASSUME Sorting, Counting, Treat PROVE CountTables' /\ Counted'
  <1> DEFINE c == Head(int_stack)
  <1>1. /\ pc = "pop" /\ int_stack # <<>> /\ curr_state' = c
        /\ treated' = treated \cup {c} /\ targets' = Targets(c) /\ pc' = "arcs"
        /\ UNCHANGED <<net, pathcount, overflow>>
    BY DEF Treat
  <1>2. net \in Nets /\ int_stack \in Seq(State) /\ Working /\ Stacked
    BY <1>1 DEF Sorting, Tables, Working
  <1>3. c \notin treated
    BY <1>1, <1>2, Popping DEF Stacked
  <1> HIDE DEF c
  <1>4. \A s, t \in State : t \in Targets(s) => (Open(s, t)' <=> Open(s, t))
    BY <1>1, <1>3 DEF Open
  <1>5. CountTables'
    BY <1>1 DEF Counting, CountTables
  <1>6. CountTables /\ Counted
    BY DEF Counting
  <1> QED
    BY <1>1, <1>2, <1>4, <1>5, <1>6, CountedFrame

LEMMA NextStateCounts ==
  ASSUME Sorting, Counting, NextState PROVE CountTables' /\ Counted'
  <1>1. /\ pc = "arcs" /\ pc' = "pop" /\ targets = {}
        /\ UNCHANGED <<net, treated, curr_state, targets, pathcount, overflow>>
    BY DEF NextState
  <1>2. net \in Nets /\ Working
    BY <1>1 DEF Sorting, Tables, Working
  <1>3. \A s, t \in State : t \in Targets(s) => (Open(s, t)' <=> Open(s, t))
    BY <1>1 DEF Open
  <1>4. CountTables'
    BY <1>1 DEF Counting, CountTables
  <1>5. CountTables /\ Counted
    BY DEF Counting
  <1> QED
    BY <1>1, <1>2, <1>3, <1>4, <1>5, CountedFrame

\* The arcs to t give t what they should, and the other states nothing.
LEMMA Gives ==
  ASSUME Sorting, Counting, NEW t \in targets, FollowArcs(t), t \notin treated, CountTables'
  PROVE  /\ \A u \in State : u # t => Got(u)' = Got(u)
         /\ Got(t)' = Got(t) + net.arcs[curr_state][t] * pathcount[curr_state]
  <1>1. /\ pc = "arcs" /\ pc' = "arcs" /\ targets' = targets \ {t}
        /\ UNCHANGED <<net, treated, curr_state>>
    BY DEF FollowArcs
  <1>2. /\ net \in Nets /\ t \in State /\ curr_state \in State /\ curr_state \in treated
        /\ CountTables
    BY <1>1 DEF Sorting, Tables, Counting
  <1>3. \A s \in State : s # t => pathcount'[s] = pathcount[s]
    <2>1. pathcount' = pathcount \/ \E v : pathcount' = [pathcount EXCEPT ![t] = v]
      BY DEF FollowArcs
    <2> QED
      BY <1>2, <2>1 DEF CountTables
  <1>4. \A s, u \in State : Open(s, u)' <=> (Open(s, u) /\ ~(s = curr_state /\ u = t))
    BY <1>1, <1>2 DEF Open
  <1>5. \A s \in State : pathcount'[s] \in Nat /\ pathcount[s] \in Nat
    BY TopsortAssumption, <1>2 DEF CountTables
  <1>6. \A u : Open(t, u)
    BY DEF Open
  <1>7. ASSUME NEW u \in State, u # t PROVE Got(u)' = Got(u)
    <2>1. \A s \in State : u \in Targets(s) =>
             (Open(s, u)' <=> Open(s, u)) /\ (Open(s, u) \/ pathcount'[s] = pathcount[s])
      BY <1>3, <1>4, <1>6, <1>7
    <2>2. \A s \in State : pathcount'[s] \in Nat
      BY <1>5
    <2> QED
      BY <1>1, <1>2, <2>1, <2>2, LedFrame
  <1>8. PICK f, g, m : f = Led(t) /\ g = Led(t)' /\ m = net.arcs[curr_state][t] * pathcount[curr_state]
    OBVIOUS
  <1>9. m \in Nat
    BY <1>2, <1>8, LedFacts, ProductGrows
  <1>10. \A s \in State : f[s] \in Nat
    BY <1>2, <1>8, LedFacts
  <1>11. g[curr_state] = f[curr_state] + m
    <2>1. f[curr_state] = 0
      <3>1. Open(curr_state, t)
        BY <1>1 DEF Open
      <3> QED
        BY <1>2, <1>8, <3>1 DEF Led
    <2>2. g[curr_state] = m
      <3>1. PICK c : c = curr_state
        OBVIOUS
      <3>2. c \in State /\ c # t
        BY <1>2, <3>1
      <3>3. ~Open(c, t)'
        BY <1>2, <1>4, <3>1, <3>2
      <3> QED
        BY <1>1, <1>2, <1>3, <1>8, <3>1, <3>2, <3>3 DEF Led
    <2> QED
      BY <1>9, <2>1, <2>2
  <1>12. \A s \in State \ {curr_state} : g[s] = f[s]
    <2> TAKE s \in State \ {curr_state}
    <2>1. Open(s, t)' <=> Open(s, t)
      BY <1>2, <1>4
    <2>2. Open(s, t) \/ pathcount'[s] = pathcount[s]
      BY <1>3, <1>6
    <2> QED
      BY <1>1, <1>8, <2>1, <2>2 DEF Led
  <1>13. Sum(g, State) = Sum(f, State) + m
    <2>1. PICK c : c = curr_state
      OBVIOUS
    <2>2. c \in State /\ IsFiniteSet(State)
      BY <1>2, <2>1, TopsortAssumption
    <2>3. g[c] = f[c] + m
      BY <1>11, <2>1
    <2>4. \A s \in State \ {c} : g[s] = f[s]
      BY <1>12, <2>1
    <2> QED
      BY ONLY <1>9, <1>10, <2>2, <2>3, <2>4, SumMore
  <1>14. Got(t) = (IF t = 0 THEN 1 ELSE 0) + Sum(f, State)
    BY <1>8 DEF Got
  <1>15. Got(t)' = (IF t = 0 THEN 1 ELSE 0) + Sum(g, State)
    BY <1>8 DEF Got
  <1>16. Sum(f, State) \in Nat
    BY <1>2, <1>8, LedFacts
  <1> QED
    BY <1>7, <1>8, <1>9, <1>13, <1>14, <1>15, <1>16

LEMMA FollowArcsCounts ==
  ASSUME Sorting, Counting, NEW t \in targets, FollowArcs(t) PROVE CountTables' /\ Counted'
  <1>1. /\ pc = "arcs" /\ net' = net /\ Working
    BY DEF FollowArcs, Working
  <1>2. net \in Nets /\ t \in State /\ curr_state \in State /\ CountTables /\ Counted
    BY <1>1 DEF Sorting, Tables, Counting, Counted
  <1>3. CASE t \in treated
    <2>1. pc' = "done" /\ UNCHANGED <<pathcount, overflow>>
      BY <1>3 DEF FollowArcs, GotoCyclic
    <2> QED
      BY <1>2, <2>1 DEF CountTables, Counted, Working
  <1>4. CASE t \notin treated
    <2>1. PICK p, q, n : p = pathcount[curr_state] /\ q = pathcount[t] /\ n = net.arcs[curr_state][t]
      OBVIOUS
    <2>2. pc' = "arcs" /\
          IF overflow THEN UNCHANGED <<pathcount, overflow>>
          ELSE IF Paths(p, q, n) = Overflow THEN overflow' = TRUE /\ UNCHANGED pathcount
          ELSE pathcount' = [pathcount EXCEPT ![t] = Paths(p, q, n)] /\ UNCHANGED overflow
      BY <1>4, <2>1 DEF FollowArcs
    <2>3. p \in 0..(PathLimit - 1) /\ q \in 0..(PathLimit - 1) /\ n \in Nat
      BY <1>2, <2>1, LedFacts DEF CountTables
    <2>4. /\ q + n * p \in Nat
          /\ Paths(p, q, n) = Overflow => q + n * p >= PathLimit
          /\ Paths(p, q, n) # Overflow => Paths(p, q, n) = q + n * p /\ q + n * p < PathLimit
      BY <2>3, PathsIs
    <2>5. CountTables'
      <3>1. Paths(p, q, n) # Overflow => Paths(p, q, n) \in 0..(PathLimit - 1)
        BY <2>4, TopsortAssumption
      <3> QED
        BY <1>2, <2>2, <3>1 DEF CountTables
    <2>6. PICK m : m = n * p /\ m \in Nat
      BY <2>3, ProductGrows, TopsortAssumption
    <2>7. /\ \A u \in State : u # t => Got(u)' = Got(u)
          /\ Got(t)' = Got(t) + m
      BY <1>4, <2>1, <2>5, <2>6, Gives
    <2>8. \A u \in State : Got(u) \in Nat /\ pathcount[u] \in Nat
      BY <1>2, LedFacts
    <2>9. \A u \in State : Got(u) <= Got(u)'
      BY <2>6, <2>7, <2>8
    <2>10. CASE overflow
      <3>1. UNCHANGED <<pathcount, overflow>>
        BY <2>2, <2>10
      <3>2. PICK u \in State : Got(u) >= PathLimit
        BY <1>1, <1>2, <2>10 DEF Counted
      <3>3. \A x \in State : Got(x)' \in Nat
        BY <2>6, <2>7, <2>8
      <3>4. Got(u)' >= PathLimit
        BY <2>8, <2>9, <3>2, <3>3, TopsortAssumption
      <3>5. \A x \in State : pathcount[x] <= Got(x)'
        <4> TAKE x \in State
        <4>1. pathcount[x] <= Got(x)
          BY <1>1, <1>2, <2>10 DEF Counted
        <4> QED
          BY <2>8, <2>9, <3>3, <4>1
      <3> QED
        BY <2>5, <2>10, <3>1, <3>4, <3>5 DEF Counted
    <2>11. CASE ~overflow /\ Paths(p, q, n) = Overflow
      <3>1. overflow' = TRUE /\ pathcount' = pathcount
        BY <2>2, <2>11
      <3>2. \A x \in State : pathcount[x] = Got(x)
        BY <1>1, <1>2, <2>11 DEF Counted
      <3>3. Got(t)' >= PathLimit
        BY <1>2, <2>1, <2>4, <2>6, <2>7, <2>11, <3>2
      <3>4. \A x \in State : pathcount[x] <= Got(x)'
        BY <2>9, <3>2
      <3> QED
        BY <1>2, <2>5, <3>1, <3>3, <3>4 DEF Counted
    <2>12. CASE ~overflow /\ Paths(p, q, n) # Overflow
      <3>1. overflow' = FALSE /\ pathcount' = [pathcount EXCEPT ![t] = q + m]
        BY <1>2, <2>2, <2>4, <2>6, <2>12 DEF CountTables
      <3>2. \A x \in State : pathcount[x] = Got(x)
        BY <1>1, <1>2, <2>12 DEF Counted
      <3>3. \A x \in State : pathcount'[x] = Got(x)'
        BY <1>2, <2>1, <2>7, <3>1, <3>2 DEF CountTables
      <3> QED
        BY <2>5, <3>1, <3>3 DEF Counted
    <2> QED
      BY <2>10, <2>11, <2>12
  <1> QED
    BY <1>3, <1>4

\* Where all arcs go up, a state has the first place of those that are not as they should be.
LEMMA FirstPlace ==
  ASSUME NEW place, place \in [State -> 1..statecount], NEW X \in SUBSET State, X # {}
  PROVE  \E t \in X : \A s \in State : place[s] < place[t] => s \notin X
  <1> DEFINE N == {place[s] : s \in X}
  <1>1. statecount \in Nat
    BY TopsortAssumption, FS_CardinalityType DEF statecount
  <1>2. \A s \in State : place[s] \in Nat
    BY <1>1
  <1>3. N \in SUBSET Nat /\ N # {}
    BY <1>2
  <1>4. PICK x \in N : \A y \in N : x <= y
    <2> HIDE DEF N
    <2> QED BY <1>3, LeastOf
  <1>5. PICK t \in X : x = place[t]
    BY <1>4
  <1>6. \A s \in X : place[t] <= place[s]
    BY <1>4, <1>5
  <1> QED
    BY <1>2, <1>6

\* At the end the order gives the states their places, and all arcs have been followed.
LEMMA AllFollowed ==
  ASSUME Sorting, pc = "pop", int_stack = <<>>, ~(treatcount > 0)
  PROVE  /\ \E place : Upward(net.arcs, place)
         /\ \A s, t \in State : ~Open(s, t)
  <1>1. /\ Len(order) = statecount /\ Range(order) = State
        /\ \A k, m \in DOMAIN order : order[m] \in Targets(order[k]) => k < m
    <2>1. treatcount <= 0
      BY AtTheEnd
    <2> QED
      BY <2>1, AtTheEnd
  <1>2. /\ net \in Nets /\ order \in Seq(State)
        /\ treated = {order[k] : k \in DOMAIN order}
    BY DEF Sorting, Tables, Ordered, Working
  <1>3. DOMAIN order = 1..statecount
    BY <1>1, <1>2, TopsortAssumption, FS_CardinalityType DEF statecount
  <1>4. treated = State /\ \A s \in State : \E k \in 1..statecount : order[k] = s
    BY <1>1, <1>2, <1>3 DEF Range
  <1> DEFINE place == [s \in State |-> CHOOSE k \in 1..statecount : order[k] = s]
  <1>5. \A s \in State : place[s] \in 1..statecount /\ order[place[s]] = s
    BY <1>4
  <1>6. Upward(net.arcs, place)
    <2>1. place \in [State -> 1..statecount]
      BY <1>5
    <2> HIDE DEF place
    <2>2. ASSUME NEW r \in State, NEW t \in State, net.arcs[r][t] # 0
          PROVE  place[r] < place[t]
      <3>1. net.arcs[r][t] \in Nat
        BY <1>2, TopsortAssumption
      <3>2. t \in Targets(r)
        BY <2>2, <3>1 DEF Targets
      <3> QED
        BY <1>1, <1>3, <1>5, <3>2
    <2> QED
      BY <2>1, <2>2 DEF Upward
  <1>7. \A s, t \in State : ~Open(s, t)
    BY <1>4 DEF Open
  <1> QED
    BY <1>6, <1>7

\* Then pathcount has the numbers of paths, or less after an overflow.
LEMMA PathsAtTheEnd ==
  ASSUME Sorting, Counting, pc = "pop", int_stack = <<>>, ~(treatcount > 0)
  PROVE  /\ \A t \in State : WalksTo(net.arcs, t) \in Nat
         /\ ~overflow => \A t \in State : pathcount[t] = WalksTo(net.arcs, t)
         /\ overflow => \E t \in State : WalksTo(net.arcs, t) >= PathLimit
  <1>1. PICK d : d = net.arcs
    OBVIOUS
  <1>2. PICK place : Upward(d, place)
    BY <1>1, AllFollowed
  <1>3. \A s, t \in State : ~Open(s, t)
    BY AllFollowed
  <1>4. /\ net \in Nets /\ CountTables /\ Working /\ Counted
        /\ d \in [State -> [State -> Nat]]
    BY <1>1, TopsortAssumption DEF Sorting, Tables, Counting, Working
  <1>5. place \in [State -> 1..statecount] /\ \A r, t \in State : d[r][t] # 0 => place[r] < place[t]
    BY <1>2 DEF Upward
  <1>6. PICK w : w = [t \in State |-> WalksTo(d, t)]
    OBVIOUS
  <1>7. \A t \in State : w[t] \in Nat
    BY <1>2, <1>4, <1>6, WalksFollowArcs
  <1>8. ASSUME NEW t \in State
        PROVE  \E g : /\ g = [r \in State |-> d[r][t] * w[r]]
                      /\ \A r \in State : g[r] \in Nat
                      /\ w[t] = (IF t = 0 THEN 1 ELSE 0) + Sum(g, State)
    <2>1. PICK g : g = [r \in State |-> d[r][t] * WalksTo(d, r)]
      OBVIOUS
    <2>2. w[t] = (IF t = 0 THEN 1 ELSE 0) + Sum(g, State)
      BY <1>2, <1>4, <1>6, <2>1, WalksFollowArcs
    <2>3. \A r \in State : g[r] = d[r][t] * w[r]
      BY <1>6, <2>1
    <2>4. \A r \in State : g[r] \in Nat
      <3> TAKE r \in State
      <3>1. d[r][t] \in Nat /\ w[r] \in Nat
        BY <1>4, <1>7
      <3>2. d[r][t] * w[r] \in Nat
        BY <3>1, ProductGrows
      <3> QED
        BY <2>3, <3>2
    <2>5. g = [r \in State |-> d[r][t] * w[r]]
      BY <2>1, <2>3
    <2> QED
      BY <2>2, <2>4, <2>5
  <1>9. ASSUME NEW t \in State
        PROVE  \E f : /\ f = [r \in State |-> d[r][t] * pathcount[r]]
                      /\ \A r \in State : f[r] \in Nat
                      /\ Got(t) = (IF t = 0 THEN 1 ELSE 0) + Sum(f, State)
    <2>1. PICK f : f = Led(t)
      OBVIOUS
    <2>2. f = [r \in State |-> d[r][t] * pathcount[r]]
      BY <1>1, <1>3, <2>1 DEF Led
    <2>3. \A r \in State : f[r] \in Nat
      BY <1>4, <2>1, LedFacts
    <2>4. Got(t) = (IF t = 0 THEN 1 ELSE 0) + Sum(f, State)
      BY <2>1 DEF Got
    <2> QED
      BY <2>2, <2>3, <2>4
  <1>10. \A t \in State : Got(t) \in Nat /\ pathcount[t] \in Nat
    BY <1>4, LedFacts
  <1>11. ASSUME NEW t \in State, \A r \in State : place[r] < place[t] => pathcount[r] <= w[r]
         PROVE  Got(t) <= w[t]
    <2>1. PICK g : /\ g = [r \in State |-> d[r][t] * w[r]]
                   /\ \A r \in State : g[r] \in Nat
                   /\ w[t] = (IF t = 0 THEN 1 ELSE 0) + Sum(g, State)
      BY <1>8
    <2>2. PICK f : /\ f = [r \in State |-> d[r][t] * pathcount[r]]
                   /\ \A r \in State : f[r] \in Nat
                   /\ Got(t) = (IF t = 0 THEN 1 ELSE 0) + Sum(f, State)
      BY <1>9
    <2>3. \A r \in State : f[r] \in Nat /\ g[r] \in Nat /\ f[r] <= g[r]
      <3> TAKE r \in State
      <3>1. PICK a, b, n : a = pathcount[r] /\ b = w[r] /\ n = d[r][t]
        OBVIOUS
      <3>2. a \in Nat /\ b \in Nat /\ n \in Nat
        BY <1>4, <1>7, <1>10, <3>1
      <3>3. f[r] = n * a /\ g[r] = n * b
        BY <2>1, <2>2, <3>1
      <3>4. CASE n = 0
        <4>1. 0 * a = 0 /\ 0 * b = 0
          BY ONLY <3>2
        <4> QED
          BY <3>3, <3>4, <4>1
      <3>5. CASE n # 0
        <4>1. a <= b
          BY <1>5, <1>11, <3>1, <3>5
        <4>2. n * a \in Nat /\ n * b \in Nat /\ n * a <= n * b
          BY ONLY <3>2, <4>1, ProductGrows
        <4> QED
          BY <3>3, <4>2
      <3> QED
        BY <3>4, <3>5
    <2>4. Sum(f, State) <= Sum(g, State)
      BY <2>3, SumGrows, TopsortAssumption
    <2>5. Sum(f, State) \in Nat /\ Sum(g, State) \in Nat
      BY <2>3, SumAny, TopsortAssumption
    <2> QED
      BY <2>1, <2>2, <2>4, <2>5
  <1>12. \A t \in State : pathcount[t] <= w[t]
    <2> DEFINE X == {t \in State : ~(pathcount[t] <= w[t])}
    <2> SUFFICES ASSUME X # {} PROVE FALSE
      OBVIOUS
    <2>1. PICK t \in X : \A s \in State : place[s] < place[t] => s \notin X
      <3> X \in SUBSET State OBVIOUS
      <3> HIDE DEF X
      <3> QED BY <1>5, FirstPlace
    <2>2. Got(t) <= w[t]
      BY <1>11, <2>1
    <2>3. pathcount[t] <= Got(t)
      <3>1. overflow \/ ~overflow
        OBVIOUS
      <3> QED
        BY <1>4, <1>10, <2>1 DEF Counted
    <2> QED
      BY <1>7, <1>10, <2>1, <2>2, <2>3
  <1>13. ASSUME ~overflow PROVE \A t \in State : pathcount[t] = w[t]
    <2> DEFINE X == {t \in State : pathcount[t] # w[t]}
    <2> SUFFICES ASSUME X # {} PROVE FALSE
      OBVIOUS
    <2>1. PICK t \in X : \A s \in State : place[s] < place[t] => s \notin X
      <3> X \in SUBSET State OBVIOUS
      <3> HIDE DEF X
      <3> QED BY <1>5, FirstPlace
    <2>2. PICK g : /\ g = [r \in State |-> d[r][t] * w[r]]
                   /\ \A r \in State : g[r] \in Nat
                   /\ w[t] = (IF t = 0 THEN 1 ELSE 0) + Sum(g, State)
      BY <1>8
    <2>3. PICK f : /\ f = [r \in State |-> d[r][t] * pathcount[r]]
                   /\ \A r \in State : f[r] \in Nat
                   /\ Got(t) = (IF t = 0 THEN 1 ELSE 0) + Sum(f, State)
      BY <1>9
    <2>4. \A r \in State : f[r] = g[r]
      <3> TAKE r \in State
      <3>1. PICK a, b, n : a = pathcount[r] /\ b = w[r] /\ n = d[r][t]
        OBVIOUS
      <3>2. a \in Nat /\ b \in Nat
        BY <1>7, <1>10, <3>1
      <3>3. f[r] = n * a /\ g[r] = n * b
        BY <2>2, <2>3, <3>1
      <3>4. CASE n = 0
        <4>1. 0 * a = 0 /\ 0 * b = 0
          BY ONLY <3>2
        <4> QED
          BY <3>3, <3>4, <4>1
      <3>5. CASE n # 0
        <4>1. a = b
          BY <1>5, <2>1, <3>1, <3>5
        <4> QED
          BY <3>3, <4>1
      <3> QED
        BY <3>4, <3>5
    <2>5. Sum(f, State) = Sum(g, State)
      BY <2>4, SumSame, TopsortAssumption
    <2>6. pathcount[t] = Got(t)
      BY <1>4, <1>13, <2>1 DEF Counted
    <2> QED
      BY <2>1, <2>2, <2>3, <2>5, <2>6
  <1>14. ASSUME overflow PROVE \E t \in State : w[t] >= PathLimit
    <2>1. PICK t \in State : Got(t) >= PathLimit
      BY <1>4, <1>14 DEF Counted
    <2>2. Got(t) <= w[t]
      BY <1>11, <1>12
    <2>3. w[t] >= PathLimit
      BY <1>7, <1>10, <2>1, <2>2, TopsortAssumption
    <2> QED
      BY <2>3
  <1> QED
    BY <1>1, <1>6, <1>7, <1>13, <1>14

\* PathcountExact by the machine and the result.
Exact(d, F, r) ==
  IF r.pathcount = Overflow
  THEN FinalSum(d, F) >= PathLimit \/ \E s \in State : WalksTo(d, s) >= PathLimit
  ELSE r.pathcount = FinalSum(d, F)

LEMMA ExactIs ==
  PathcountExact <=> (pc = "done" /\ result.is_loop_free => Exact(net.arcs, net.final, result))
  BY DEF PathcountExact, Exact, FinalSum

LEMMA ExactThen ==
  PathcountExact' <=> (pc' = "done" /\ result'.is_loop_free => Exact(net'.arcs, net'.final, result'))
  <1>1. (PathcountExact <=> (pc = "done" /\ result.is_loop_free => Exact(net.arcs, net.final, result)))'
    BY ExactIs, PTL
  <1> QED
    BY <1>1

LEMMA RenumberCounts ==
  ASSUME Sorting, Counting, Renumber PROVE Counting'
  <1>1. /\ pc = "pop" /\ int_stack = <<>> /\ pc' = "done"
        /\ UNCHANGED <<net, pathcount, overflow>>
    BY DEF Renumber, GotoCyclic
  <1>2. CountTables' /\ Counted'
    BY <1>1 DEF Counting, CountTables, Counted, Working
  <1>3. CASE treatcount > 0
    <2>1. result'.is_loop_free = FALSE
      BY <1>3 DEF Renumber, GotoCyclic
    <2> QED
      BY <1>2, <2>1 DEF Counting, PathcountExact
  <1>4. CASE ~(treatcount > 0)
    <2>1. PICK d, F : d = net.arcs /\ F = net.final
      OBVIOUS
    <2>2. PICK grand : grand = Sum(pathcount, F)
      OBVIOUS
    <2>3. result'.pathcount = IF overflow \/ grand >= PathLimit THEN Overflow ELSE grand
      BY <1>4, <2>1, <2>2 DEF Renumber, Sum
    <2>4. /\ \A t \in State : WalksTo(d, t) \in Nat
          /\ ~overflow => \A t \in State : pathcount[t] = WalksTo(d, t)
          /\ overflow => \E t \in State : WalksTo(d, t) >= PathLimit
      BY <1>1, <1>4, <2>1, PathsAtTheEnd
    <2>5. F \in SUBSET State /\ IsFiniteSet(F)
      <3>1. F \in SUBSET State
        BY <2>1, TopsortAssumption DEF Sorting, Tables
      <3> QED
        BY <3>1, FS_Subset, TopsortAssumption
    <2>6. PICK all : all = FinalSum(d, F)
      OBVIOUS
    <2>7. ~overflow => all = grand
      <3> SUFFICES ASSUME ~overflow PROVE all = grand
        OBVIOUS
      <3>1. PICK w : w = [s \in F |-> WalksTo(d, s)]
        OBVIOUS
      <3>2. all = Sum(w, F)
        BY <2>5, <2>6, <3>1, FinalSumIs
      <3>3. \A s \in F : pathcount[s] = w[s]
        BY <2>4, <2>5, <3>1
      <3>4. Sum(pathcount, F) = Sum(w, F)
        BY <2>5, <3>3, SumSame
      <3> QED
        BY <2>2, <3>2, <3>4
    <2>8. grand \in Nat
      <3>1. \A s \in F : pathcount[s] \in Nat
        BY <2>5, TopsortAssumption DEF Counting, CountTables
      <3> QED
        BY <2>2, <2>5, <3>1, SumAny
    <2>9. IF result'.pathcount = Overflow
          THEN all >= PathLimit \/ \E s \in State : WalksTo(d, s) >= PathLimit
          ELSE result'.pathcount = all
      <3>1. grand # Overflow
        BY <2>8 DEF Overflow
      <3>2. CASE overflow
        BY <2>3, <2>4, <3>2
      <3>3. CASE ~overflow
        BY <2>3, <2>7, <3>1, <3>3
      <3> QED
        BY <3>2, <3>3
    <2>10. PathcountExact'
      <3>1. net'.arcs = d /\ net'.final = F
        BY <1>1, <2>1
      <3>2. Exact(d, F, result')
        BY <2>6, <2>9 DEF Exact
      <3> QED
        BY <3>1, <3>2, ExactThen
    <2> QED
      BY <1>2, <2>10 DEF Counting
  <1> QED
    BY <1>3, <1>4

LEMMA CountingStarts == Init => PathInv
  <1> SUFFICES ASSUME Init PROVE Counting
    BY DEF PathInv
  <1>1. CountTables
    <2>1. 0 \in 0..(PathLimit - 1)
      BY TopsortAssumption
    <2> QED
      BY <2>1 DEF Init, CountTables
  <1> QED
    BY <1>1 DEF Init, Counting, Counted, PathcountExact, Working

LEMMA CountingKeeps == TopInv /\ PathInv /\ [Next]_vars => PathInv'
  <1> SUFFICES ASSUME TopInv, PathInv, [Next]_vars, Narrow' PROVE Counting'
    BY DEF PathInv
  <1>1. net' = net
    BY DEF Next, vars, SelfLoop, Count, Treat, FollowArcs, NextState, Renumber
  <1>2. Narrow /\ Sorting /\ Counting
    BY <1>1, NetFrame DEF TopInv, PathInv
  <1>3. CASE SelfLoop
    <2>1. /\ pc' = "done" /\ result'.is_loop_free = FALSE
          /\ UNCHANGED <<pathcount, overflow>>
      BY <1>3 DEF SelfLoop, GotoCyclic
    <2> QED
      BY <1>2, <2>1 DEF Counting, CountTables, Counted, PathcountExact, Working
  <1>4. CASE Count
    <2>1. pc' = "pop"
      BY <1>4 DEF Count
    <2> QED
      BY <1>2, <1>4, <2>1, CountCounts DEF Counting, PathcountExact
  <1>5. CASE Treat
    <2>1. pc' = "arcs"
      BY <1>5 DEF Treat
    <2> QED
      BY <1>2, <1>5, <2>1, TreatCounts DEF Counting, PathcountExact
  <1>6. ASSUME NEW t \in targets, FollowArcs(t)
        PROVE  Counting'
    <2>1. pc' = "done" => result'.is_loop_free = FALSE
      BY <1>6 DEF FollowArcs, GotoCyclic
    <2> QED
      BY <1>2, <1>6, <2>1, FollowArcsCounts DEF Counting, PathcountExact
  <1>7. CASE NextState
    <2>1. pc' = "pop"
      BY <1>7 DEF NextState
    <2> QED
      BY <1>2, <1>7, <2>1, NextStateCounts DEF Counting, PathcountExact
  <1>8. CASE Renumber
    BY <1>2, <1>8, RenumberCounts
  <1>9. CASE UNCHANGED vars
    <2>1. UNCHANGED <<net, treated, pathcount, curr_state, targets, overflow, result, pc>>
      BY <1>9 DEF vars
    <2>2. CountTables'
      BY <1>2, <2>1 DEF Counting, CountTables
    <2>3. Counted'
      <3>1. CASE Working
        <4>1. \A s, t \in State : t \in Targets(s) => (Open(s, t)' <=> Open(s, t))
          BY <2>1 DEF Open
        <4>2. net \in Nets /\ CountTables /\ Counted
          BY <1>2 DEF Sorting, Tables, Counting
        <4> QED
          BY <2>1, <2>2, <3>1, <4>1, <4>2, CountedFrame
      <3>2. CASE ~Working
        BY <2>1, <3>2 DEF Counted, Working
      <3> QED
        BY <3>1, <3>2
    <2>4. PathcountExact'
      BY <1>2, <2>1, ExactIs, ExactThen DEF Counting
    <2> QED
      BY <2>2, <2>3, <2>4 DEF Counting
  <1> QED
    BY <1>3, <1>4, <1>5, <1>6, <1>7, <1>8, <1>9 DEF Next

\* Unless invcount wraps around, the pathcount of a machine found free of loops is the number
\* of its paths to final states, and Overflow only where some number of paths is too large
\* for a long long.
THEOREM PathsCounted == Spec => [](Narrow => PathcountExact)
  <1>1. PathInv => (Narrow => PathcountExact)
    BY DEF PathInv, Counting
  <1> QED
    BY <1>1, SortingStarts, SortingKeeps, CountingStarts, CountingKeeps, PTL DEF Spec

\* While the states are treated the order has room for every state.
LEMMA OrderFits ==
  Sorting /\ Working => /\ Len(order) \in 0..statecount
                        /\ treatcount = statecount - Len(order)
                        /\ treatcount \in 0..statecount
  <1> SUFFICES ASSUME Sorting, Working
               PROVE  /\ Len(order) \in 0..statecount
                      /\ treatcount = statecount - Len(order)
                      /\ treatcount \in 0..statecount
    OBVIOUS
  <1>1. Tables /\ Ordered
    BY DEF Sorting
  <1>2. order \in Seq(State) /\ treated \in SUBSET State /\ DOMAIN order = 1..Len(order)
    BY <1>1 DEF Tables
  <1>3. PICK n : n = Len(order) /\ n \in Nat
    BY <1>2
  <1>4. IsFiniteSet(treated) /\ Cardinality(treated) <= statecount /\ statecount \in Nat
    BY <1>2, TopsortAssumption, FS_Subset, FS_CardinalityType DEF statecount
  <1>5. IsFiniteSet(1..n) /\ Cardinality(1..n) = n
    <2>1. n \in Nat
      BY <1>3
    <2> QED
      BY ONLY <2>1, FS_Interval
  <1>6. order \in Injection(1..n, treated) /\ order \in Surjection(1..n, treated)
    BY <1>1, <1>2, <1>3 DEF Ordered, Working, Injection, Surjection, IsInjective
  <1>7. Cardinality(treated) = n
    BY <1>4, <1>5, <1>6, FS_Injection
  <1>8. treatcount = statecount - n
    BY <1>1, <1>3 DEF Ordered
  <1>9. n \in 0..statecount /\ treatcount \in 0..statecount
    BY <1>3, <1>4, <1>7, <1>8
  <1> QED
    BY <1>3, <1>8, <1>9

LEMMA OrderFitsThen ==
  Sorting' /\ Working' => Len(order') \in 0..statecount /\ treatcount' \in 0..statecount
  <1>1. (Sorting /\ Working => Len(order) \in 0..statecount /\ treatcount \in 0..statecount)'
    BY OrderFits, PTL
  <1> QED
    BY <1>1 DEF statecount

TypeInv == Narrow => TypeOK

LEMMA TypesStart == Init => TypeInv
  <1> SUFFICES ASSUME Init PROVE TypeOK
    BY DEF TypeInv
  <1>1. 0 \in 0..(PathLimit - 1) /\ 0 \in 0..(InvLimit - 1) /\ statecount \in Nat
    BY TopsortAssumption, FS_CardinalityType DEF statecount
  <1>2. order = <<>> /\ Len(order) = 0 /\ Range(order) = {}
    BY DEF Init, Range
  <1> QED
    BY <1>1, <1>2 DEF Init, TypeOK

LEMMA TypesKeep == TopInv /\ PathInv /\ TypeInv /\ [Next]_vars => TypeInv'
  <1> SUFFICES ASSUME TopInv, PathInv, TypeInv, [Next]_vars, Narrow' PROVE TypeOK'
    BY DEF TypeInv
  <1>1. net' = net
    BY DEF Next, vars, SelfLoop, Count, Treat, FollowArcs, NextState, Renumber
  <1>2. Narrow /\ Sorting /\ Counting /\ TypeOK
    BY <1>1, NetFrame DEF TopInv, PathInv, TypeInv
  <1>3. Sorting' /\ Counting'
    BY SortingKeeps, CountingKeeps DEF TopInv, PathInv
  <1>4. InvLimit \in Nat \ {0} /\ \A x \in Int : x % InvLimit \in 0..(InvLimit - 1)
    BY TopsortAssumption
  <1>5. invcount' \in [State -> 0..(InvLimit - 1)]
    <2>1. invcount \in [State -> 0..(InvLimit - 1)] /\ net \in Nets
      BY <1>2 DEF TypeOK, Sorting, Tables
    <2>2. CASE Count
      <3>1. \A t \in State : Cardinality(InArcs(t)) \in Int
        BY <2>1, ArcFacts
      <3> QED
        BY <1>4, <2>2, <3>1 DEF Count
    <2>3. ASSUME NEW t \in targets, FollowArcs(t)
          PROVE  invcount' \in [State -> 0..(InvLimit - 1)]
      <3>1. t \in State /\ curr_state \in State
        BY <1>2, <2>3 DEF Sorting, Tables, FollowArcs
      <3>2. invcount[t] \in Int /\ net.arcs[curr_state][t] \in Int
        BY <1>4, <2>1, <3>1, ArcFacts
      <3>3. PICK v \in Int : invcount' = [invcount EXCEPT ![t] = v % InvLimit]
        <4>1. invcount[t] - 1 \in Int /\ invcount[t] - net.arcs[curr_state][t] \in Int
          BY <3>2
        <4> QED
          BY <2>3, <4>1 DEF FollowArcs
      <3> QED
        BY <1>4, <2>1, <3>3
    <2>4. CASE invcount' = invcount
      BY <2>1, <2>4
    <2> QED
      BY <2>2, <2>3, <2>4 DEF Next, vars, SelfLoop, Treat, NextState, Renumber
  <1>6. treated' \subseteq State /\ targets' \subseteq State /\ pc' \in {"start", "pop", "arcs", "done"}
    BY <1>3 DEF Sorting, Tables
  <1>7. Range(order)' \subseteq State
    <2>1. order' \in Seq(State)
      BY <1>3 DEF Sorting, Tables
    <2> QED
      BY <2>1 DEF Range
  <1>8. Len(order') <= statecount /\ treatcount' \in 0..statecount
    <2>1. CASE Working'
      <3>1. statecount \in Nat
        BY TopsortAssumption, FS_CardinalityType DEF statecount
      <3> QED
        BY <1>3, <2>1, <3>1, OrderFitsThen
    <2>2. CASE ~Working'
      <3>1. UNCHANGED <<order, treatcount>>
        BY <2>2 DEF Next, vars, SelfLoop, Count, Treat, FollowArcs, NextState, Renumber, Working
      <3> QED
        BY <1>2, <3>1 DEF TypeOK
    <2> QED
      BY <2>1, <2>2
  <1>9. \A s \in State : pathcount'[s] \in 0..(PathLimit - 1)
    BY <1>3 DEF Counting, CountTables
  <1>10. result'.pathcount \in {Cyclic, Overflow, Unknown} \cup 0..(PathLimit - 1)
    <2>1. CASE Renumber /\ ~(treatcount > 0)
      <3>1. PICK F : F = net.final
        OBVIOUS
      <3>2. PICK grand : grand = Sum(pathcount, F)
        OBVIOUS
      <3>3. result'.pathcount = IF overflow \/ grand >= PathLimit THEN Overflow ELSE grand
        BY <2>1, <3>1, <3>2 DEF Renumber, Sum
      <3>4. F \in SUBSET State
        BY <1>2, <3>1, TopsortAssumption DEF Sorting, Tables
      <3>5. IsFiniteSet(F) /\ \A s \in F : pathcount[s] \in Nat
        BY <1>2, <3>4, FS_Subset, TopsortAssumption DEF Counting, CountTables
      <3>6. grand \in Nat
        BY <3>2, <3>5, SumAny
      <3>7. grand >= PathLimit \/ grand \in 0..(PathLimit - 1)
        BY <3>6, TopsortAssumption
      <3> QED
        BY <3>3, <3>7
    <2>2. CASE ~(Renumber /\ ~(treatcount > 0))
      <3>1. result' = result \/ result'.pathcount = Cyclic
        <4>1. CASE SelfLoop \/ Count \/ Treat \/ NextState \/ UNCHANGED vars
          BY <4>1 DEF vars, SelfLoop, Count, Treat, NextState, GotoCyclic
        <4>2. ASSUME NEW t \in targets, FollowArcs(t)
              PROVE  result' = result \/ result'.pathcount = Cyclic
          BY <4>2 DEF FollowArcs, GotoCyclic
        <4>3. CASE Renumber
          <5>1. treatcount > 0
            BY <2>2, <4>3
          <5> QED
            BY <4>3, <5>1 DEF Renumber, GotoCyclic
        <4> QED
          BY <4>1, <4>2, <4>3 DEF Next
      <3> QED
        BY <1>2, <3>1 DEF TypeOK
    <2> QED
      BY <2>1, <2>2
  <1> QED
    BY <1>5, <1>6, <1>7, <1>8, <1>9, <1>10 DEF TypeOK, statecount

\* Unless invcount wraps around, the tables of fsm_topsort hold what they should: order and
\* treatcount never more than there are states, the counters what their types can hold.
THEOREM TypeCorrect == Spec => [](Narrow => TypeOK)
  <1>1. TypeInv => (Narrow => TypeOK)
    BY DEF TypeInv
  <1> QED
    BY <1>1, SortingStarts, SortingKeeps, CountingStarts, CountingKeeps, TypesStart, TypesKeep,
       PTL DEF Spec
=============================================================================
