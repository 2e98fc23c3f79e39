--------------------------- MODULE HopcroftProofs ---------------------------
(***************************************************************************)
(* Proofs about Hopcroft for machines of any size: the refinement never    *)
(* separates equivalent states, and what it leaves when it stops is the    *)
(* minimal machine.                                                        *)
(***************************************************************************)
EXTENDS Hopcroft, TLAPS

\* No block mixes final and other states.
FinalityUniform == \A B \in blocks : B \subseteq net.final \/ B \cap net.final = {}

\* The states touched by the splitter in use are whole classes of states.
TouchedClosed ==
  \A f \in Grouping : Congruence(f) =>
    \A s, t \in State : f[s] = f[t] => (s \in touched => t \in touched)

Inv ==
  /\ TypeOK
  /\ FinalityUniform
  /\ TouchedClosed
  /\ NeverSeparatesEquivalent
  /\ WorkCovers

-----------------------------------------------------------------------------

\* A machine of Nets is well formed and deterministic.
LEMMA NetFacts ==
  ASSUME net \in Machine(State, Symbol)
  PROVE  /\ net.final \subseteq State
         /\ net.arcs \subseteq State \X Symbol \X State
         /\ \A e1, e2 \in net.arcs : e1[1] = e2[1] /\ e1[2] = e2[2] => e1 = e2
         /\ \A s, a, t, u : <<s, a, t>> \in net.arcs /\ <<s, a, u>> \in net.arcs => t = u
<1>1. net \in [final : SUBSET State, arcs : SUBSET (State \X Symbol \X State)]
  BY DEF Machine
<1>2. \A e1, e2 \in net.arcs : e1[1] = e2[1] /\ e1[2] = e2[2] => e1 = e2
  BY DEF Machine, Deterministic
<1>3. ASSUME NEW s, NEW a, NEW t, NEW u, <<s, a, t>> \in net.arcs, <<s, a, u>> \in net.arcs
      PROVE  t = u
  <2>1. <<s, a, t>> = <<s, a, u>>
    BY <1>2, <1>3
  <2> QED
    BY <2>1
<1> QED
  BY <1>1, <1>2, <1>3

\* Congruences are about the machine, which never changes.
LEMMA SameNet ==
  ASSUME net' = net
  PROVE  /\ \A f : Congruence(f)' <=> Congruence(f)
         /\ \A B, a : Pre(B, a)' = Pre(B, a)
         /\ \A Bs : Splitters(Bs)' = Splitters(Bs)
BY DEF Congruence, Pre, Splitters

\* The refinement starts in the invariant.
LEMMA InitInv == Init => Inv
<1> SUFFICES ASSUME Init
             PROVE  Inv
  OBVIOUS
<1>0. net \in Machine(State, Symbol)
  BY NetsAssumption DEF Init
<1>1. TypeOK
  <2>1. net.final \subseteq State
    BY <1>0, NetFacts
  <2>2. blocks \subseteq (SUBSET State) \ {{}} /\ UNION blocks = State
    BY <2>1 DEF Init
  <2>3. \A B, C \in blocks : B # C => B \cap C = {}
    BY <2>1 DEF Init
  <2> QED
    BY <1>0, <2>2, <2>3 DEF TypeOK, Init
<1>2. FinalityUniform
  BY DEF FinalityUniform, Init
<1>3. TouchedClosed
  BY DEF TouchedClosed, Init
<1>4. NeverSeparatesEquivalent
  BY <1>0, NetFacts DEF NeverSeparatesEquivalent, Congruence, Grouping, Init
<1>5. WorkCovers
  <2> SUFFICES ASSUME NEW B \in blocks, NEW C \in blocks, NEW a \in Symbol,
                      NEW p \in B, NEW q \in B, NEW p1 \in C,
                      <<p, a, p1>> \in net.arcs
               PROVE  <<C, a>> \in work
    BY DEF WorkCovers
  <2>1. p \in State
    BY <1>0, NetFacts
  <2>2. p \in Pre(C, a)
    BY <2>1 DEF Pre
  <2> QED
    BY <2>2 DEF Splitters, Init
<1> QED
  BY <1>1, <1>2, <1>3, <1>4, <1>5 DEF Inv

-----------------------------------------------------------------------------

\* Taking a splitter off the agenda keeps the invariant.
LEMMA TakeSplitterInv ==
  ASSUME Inv, NEW B0 \in blocks, NEW a0 \in Symbol, TakeSplitter(B0, a0)
  PROVE  Inv'
<1>0. /\ TypeOK
      /\ net \in Machine(State, Symbol)
      /\ net' = net
      /\ blocks' = blocks
      /\ work' = work \ {<<B0, a0>>}
      /\ touched' = Pre(B0, a0)
      /\ \A C \in blocks : ~Cut(C)
  BY DEF Inv, TypeOK, TakeSplitter
<1>1. TypeOK'
  <2>1. Splitters(blocks)' = Splitters(blocks)
    BY <1>0 DEF Splitters, Pre
  <2>2. Pre(B0, a0) \subseteq State
    BY DEF Pre
  <2> QED
    BY <1>0, <2>1, <2>2 DEF TypeOK
<1>2. FinalityUniform'
  BY <1>0 DEF Inv, FinalityUniform
<1>3. TouchedClosed'
  <2> SUFFICES ASSUME NEW f \in Grouping, Congruence(f), NEW s \in State, NEW t \in State,
                      f[s] = f[t], s \in Pre(B0, a0)
               PROVE  t \in Pre(B0, a0)
    BY <1>0, SameNet DEF TouchedClosed
  <2>1. PICK u \in B0 : <<s, a0, u>> \in net.arcs
    BY DEF Pre
  <2>2. u \in State
    BY <1>0, NetFacts, <2>1
  <2>3. PICK t1 \in State : <<t, a0, t1>> \in net.arcs /\ f[t1] = f[u]
    BY <2>1, <2>2 DEF Congruence
  <2>4. t1 \in B0
    BY <2>2, <2>3 DEF Inv, NeverSeparatesEquivalent
  <2> QED
    BY <2>3, <2>4 DEF Pre
<1>4. NeverSeparatesEquivalent'
  BY <1>0, SameNet DEF Inv, NeverSeparatesEquivalent
<1>5. WorkCovers'
  <2> SUFFICES ASSUME NEW B \in blocks', NEW C \in blocks', NEW a \in Symbol,
                      NEW p \in B, NEW q \in B, NEW p1 \in C,
                      <<p, a, p1>> \in net'.arcs, p \in touched' <=> q \in touched'
               PROVE  \/ <<C, a>> \in work'
                      \/ \E D \in blocks' : \E q1 \in D :
                           <<q, a, q1>> \in net'.arcs /\ (C = D \/ <<D, a>> \in work')
    BY Zenon DEF WorkCovers
  <2>0. /\ B \in blocks /\ C \in blocks
        /\ <<p, a, p1>> \in net.arcs
        /\ p \in Pre(B0, a0) <=> q \in Pre(B0, a0)
    BY <1>0
  <2>1. p \in touched <=> q \in touched
    BY <1>0, <2>0 DEF Cut
  <2>2. p \in State /\ q \in State
    BY <1>0, <2>0 DEF TypeOK
  <2>3. CASE <<C, a>> \in work
    <3>1. CASE C = B0 /\ a = a0
      <4>1. q \in Pre(C, a)
        BY <3>1, <2>0, <2>2 DEF Pre
      <4> QED
        BY <4>1, <2>0, <1>0 DEF Pre
    <3>2. CASE ~(C = B0 /\ a = a0)
      BY <2>3, <3>2, <1>0
    <3> QED
      BY <3>1, <3>2
  <2>4. ASSUME NEW D \in blocks, NEW q1 \in D, <<q, a, q1>> \in net.arcs,
               C = D \/ <<D, a>> \in work
        PROVE  C = D \/ <<D, a>> \in work'
    <3>1. CASE D = B0 /\ a = a0
      <4>1. p \in Pre(D, a)
        BY <3>1, <2>0, <2>2, <2>4 DEF Pre
      <4>2. PICK p2 \in D : <<p, a, p2>> \in net.arcs
        BY <4>1 DEF Pre
      <4>3. p2 = p1
        BY <4>2, <2>0, <1>0, NetFacts
      <4> QED
        BY <4>2, <4>3, <2>0, <1>0 DEF TypeOK
    <3>2. CASE ~(D = B0 /\ a = a0)
      BY <2>4, <3>2, <1>0
    <3> QED
      BY <3>1, <3>2
  <2>5. \/ <<C, a>> \in work
        \/ \E D \in blocks : \E q1 \in D :
             <<q, a, q1>> \in net.arcs /\ (C = D \/ <<D, a>> \in work)
    BY <2>0, <2>1, Zenon DEF Inv, WorkCovers
  <2> QED
    BY <2>3, <2>4, <2>5, <1>0
<1> QED
  BY <1>1, <1>2, <1>3, <1>4, <1>5 DEF Inv

\* Splitting a block keeps the invariant, whichever half is queued.
LEMMA SplitBlockInv ==
  ASSUME Inv, NEW B0 \in blocks, SplitBlock(B0)
  PROVE  Inv'
<1> DEFINE In  == B0 \cap touched
           Out == B0 \ touched
<1>0. /\ TypeOK
      /\ net \in Machine(State, Symbol)
      /\ net' = net
      /\ touched' = touched
      /\ In # {} /\ Out # {}
      /\ blocks' = (blocks \ {B0}) \cup {In, Out}
  BY DEF Inv, TypeOK, SplitBlock, Cut
<1>1. TypeOK'
  <2>1. blocks' \subseteq (SUBSET State) \ {{}}
    BY <1>0 DEF TypeOK
  <2>2. UNION blocks' = State
    <3>1. \A s \in State : \E B \in blocks' : s \in B
      <4> TAKE s \in State
      <4>1. PICK P \in blocks : s \in P
        BY <1>0 DEF TypeOK
      <4>2. P = B0 => s \in In \/ s \in Out
        BY <4>1
      <4> QED
        BY <4>1, <4>2, <1>0
    <3> QED
      BY <2>1, <3>1
  <2>3. \A B, C \in blocks' : B # C => B \cap C = {}
    BY <1>0 DEF TypeOK
  <2>4. work' \subseteq Splitters(blocks')
    <3>1. ASSUME NEW W \in SUBSET Splitters({In, Out}),
                 work' = {w \in work : w[1] # B0} \cup W
          PROVE  work' \subseteq Splitters(blocks')
      <4>1. work \subseteq Splitters(blocks)
        BY <1>0 DEF TypeOK
      <4>2. Splitters({In, Out}) \subseteq Splitters(blocks')
        BY <1>0 DEF Splitters
      <4>3. {w \in work : w[1] # B0} \subseteq Splitters(blocks')
        BY <4>1, <1>0 DEF Splitters
      <4> QED
        BY <3>1, <4>2, <4>3
    <3>2. CASE work' = {}
      BY <3>2
    <3> QED
      BY <3>1, <3>2 DEF SplitBlock
  <2>5. Splitters(blocks)' = Splitters(blocks')
    BY <1>0 DEF Splitters, Pre
  <2>6. touched' \subseteq State /\ net' \in Machine(State, Symbol)
    BY <1>0 DEF TypeOK
  <2> QED
    BY <2>1, <2>3, <2>4, <2>5, <2>2, <2>6 DEF TypeOK
<1>2. FinalityUniform'
  BY <1>0 DEF Inv, FinalityUniform
<1>3. TouchedClosed'
  BY <1>0, SameNet DEF Inv, TouchedClosed
<1>4. NeverSeparatesEquivalent'
  <2> SUFFICES ASSUME NEW f \in Grouping, Congruence(f), NEW s \in State, NEW t \in State,
                      f[s] = f[t], NEW B \in blocks', s \in B
               PROVE  t \in B
    BY <1>0, SameNet DEF NeverSeparatesEquivalent
  <2>1. s \in touched <=> t \in touched
    BY DEF Inv, TouchedClosed
  <2>2. \A C \in blocks : s \in C => t \in C
    BY DEF Inv, NeverSeparatesEquivalent
  <2> QED
    BY <2>1, <2>2, <1>0
<1>5. WorkCovers'
  <2>1. CASE Discrete(blocks')
    BY <2>1 DEF Discrete, WorkCovers
  <2>2. ASSUME NEW W \in SUBSET Splitters({In, Out}), Requeues(B0, W),
               work' = {w \in work : w[1] # B0} \cup W
        PROVE  WorkCovers'
    <3> SUFFICES ASSUME NEW B \in blocks', NEW C \in blocks', NEW a \in Symbol,
                        NEW p \in B, NEW q \in B, NEW p1 \in C,
                        <<p, a, p1>> \in net'.arcs, p \in touched' <=> q \in touched'
                 PROVE  \/ <<C, a>> \in work'
                        \/ \E D \in blocks' : \E q1 \in D :
                             <<q, a, q1>> \in net'.arcs /\ (C = D \/ <<D, a>> \in work')
      BY Zenon DEF WorkCovers
    <3>0. <<p, a, p1>> \in net.arcs /\ (p \in touched <=> q \in touched)
      BY <1>0
    <3>1. PICK BB \in blocks : p \in BB /\ q \in BB
      BY <1>0
    <3>2. PICK CC \in blocks : C \subseteq CC /\ (CC = C \/ (CC = B0 /\ C \in {In, Out}))
      BY <1>0
    <3>3. p \in State /\ q \in State
      BY <3>1, <1>0 DEF TypeOK
    <3>4. ASSUME NEW X \in blocks', NEW XX \in blocks, X = XX \/ (XX = B0 /\ X \in {In, Out}),
                 Pre(X, a) # {}, <<XX, a>> \in work
          PROVE  <<X, a>> \in work'
      <4>1. CASE XX # B0
        BY <4>1, <3>4, <2>2
      <4>2. CASE XX = B0
        <5>1. X \in {In, Out}
          BY <4>2, <3>4, <1>0
        <5>2. <<X, a>> \in Splitters({In, Out})
          BY <5>1, <3>4 DEF Splitters
        <5>3. {<<In, a>>, <<Out, a>>} \cap Splitters({In, Out}) \subseteq W
          BY <2>2, <3>4, <4>2 DEF Requeues
        <5> QED
          BY <5>1, <5>2, <5>3, <2>2
      <4> QED
        BY <4>1, <4>2
    <3>5. Pre(C, a) # {}
      BY <3>0, <3>3 DEF Pre
    <3>6. CASE <<CC, a>> \in work
      BY <3>6, <3>4, <3>5, <3>2
    <3>7. ASSUME NEW DD \in blocks, NEW q1 \in DD, <<q, a, q1>> \in net.arcs,
                 CC = DD \/ <<DD, a>> \in work,
                 <<CC, a>> \notin work
          PROVE  \/ <<C, a>> \in work'
                 \/ \E D \in blocks' : \E q2 \in D :
                      <<q, a, q2>> \in net'.arcs /\ (C = D \/ <<D, a>> \in work')
      <4>1. PICK D \in blocks' : q1 \in D /\ (D = DD \/ (DD = B0 /\ D \in {In, Out}))
        BY <1>0
      <4>2. Pre(D, a) # {}
        BY <4>1, <3>3, <3>7 DEF Pre
      <4>3. CASE <<DD, a>> \in work
        BY <4>3, <3>4, <4>1, <4>2, <3>7, <1>0
      <4>4. CASE CC = DD /\ CC # B0
        BY <4>4, <4>1, <3>2, <3>7, <1>0
      <4>5. CASE CC = DD /\ CC = B0
        <5>1. C \in {In, Out} /\ D \in {In, Out}
          BY <4>5, <4>1, <3>2, <1>0
        <5>2. CASE C = D
          BY <5>2, <4>1, <3>7, <1>0
        <5>3. CASE C # D
          <6>1. <<In, a>> \in Splitters({In, Out}) /\ <<Out, a>> \in Splitters({In, Out})
            BY <5>1, <5>3, <4>2, <3>5 DEF Splitters
          <6>2. <<In, a>> \in W \/ <<Out, a>> \in W
            BY <6>1, <2>2 DEF Requeues, Splitters
          <6> QED
            BY <6>2, <5>1, <5>3, <2>2, <4>1, <3>7, <1>0
        <5> QED
          BY <5>2, <5>3
      <4> QED
        BY <4>3, <4>4, <4>5, <3>7
    <3>8. \/ <<CC, a>> \in work
          \/ \E DD \in blocks : \E q1 \in DD :
               <<q, a, q1>> \in net.arcs /\ (CC = DD \/ <<DD, a>> \in work)
      BY <3>0, <3>1, <3>2, Zenon DEF Inv, WorkCovers
    <3> QED
      BY <3>6, <3>7, <3>8
  <2> QED
    BY <2>1, <2>2 DEF SplitBlock
<1> QED
  BY <1>1, <1>2, <1>3, <1>4, <1>5 DEF Inv

\* Stopping early keeps the invariant.
LEMMA StopInv ==
  ASSUME Inv, Stop
  PROVE  Inv'
<1>0. /\ TypeOK
      /\ net' = net /\ blocks' = blocks /\ touched' = touched
      /\ work' = {}
      /\ Discrete(blocks')
  BY DEF Inv, Stop
<1>1. TypeOK'
  BY <1>0 DEF TypeOK
<1>2. FinalityUniform' /\ TouchedClosed' /\ NeverSeparatesEquivalent'
  BY <1>0, SameNet DEF Inv, FinalityUniform, TouchedClosed, NeverSeparatesEquivalent
<1>3. WorkCovers'
  BY <1>0 DEF Discrete, WorkCovers
<1> QED
  BY <1>1, <1>2, <1>3 DEF Inv

\* A step that changes nothing keeps the invariant.
LEMMA StutterInv ==
  ASSUME Inv, UNCHANGED vars
  PROVE  Inv'
<1>0. net' = net /\ blocks' = blocks /\ touched' = touched /\ work' = work
  BY DEF vars
<1>0a. TypeOK /\ FinalityUniform /\ TouchedClosed /\ NeverSeparatesEquivalent /\ WorkCovers
  BY DEF Inv
<1>1. TypeOK'
  BY <1>0, <1>0a DEF TypeOK, Splitters, Pre
<1>2a. FinalityUniform'
  BY <1>0, <1>0a DEF FinalityUniform
<1>2b. TouchedClosed'
  BY <1>0, <1>0a DEF TouchedClosed, Congruence
<1>2c. NeverSeparatesEquivalent'
  BY <1>0, <1>0a DEF NeverSeparatesEquivalent, Congruence
<1>2. FinalityUniform' /\ TouchedClosed' /\ NeverSeparatesEquivalent'
  BY <1>2a, <1>2b, <1>2c
<1>3. WorkCovers'
  <2> SUFFICES ASSUME NEW B \in blocks', NEW C \in blocks', NEW a \in Symbol,
                      NEW p \in B, NEW q \in B, NEW p1 \in C,
                      <<p, a, p1>> \in net.arcs', p \in touched' <=> q \in touched'
               PROVE  \/ <<C, a>> \in work'
                      \/ \E D \in blocks' : \E q1 \in D :
                           <<q, a, q1>> \in net.arcs' /\ (C = D \/ <<D, a>> \in work')
    BY DEF WorkCovers
  <2>1. /\ B \in blocks /\ C \in blocks
        /\ <<p, a, p1>> \in net.arcs /\ (p \in touched <=> q \in touched)
    BY <1>0
  <2>2. \/ <<C, a>> \in work
        \/ \E D \in blocks : \E q1 \in D :
             <<q, a, q1>> \in net.arcs /\ (C = D \/ <<D, a>> \in work)
    BY <1>0a, <2>1 DEF WorkCovers
  <2> QED
    BY <1>0, <2>2
<1> QED
  BY <1>1, <1>2, <1>3 DEF Inv

\* Every step keeps the invariant.
LEMMA NextInv == Inv /\ [Next]_vars => Inv'
<1> SUFFICES ASSUME Inv, [Next]_vars
             PROVE  Inv'
  OBVIOUS
<1>1. ASSUME NEW w \in work, TakeSplitter(w[1], w[2])
      PROVE  Inv'
  <2>1. w[1] \in blocks /\ w[2] \in Symbol
    BY DEF Inv, TypeOK, Splitters
  <2> QED
    BY <1>1, <2>1, TakeSplitterInv
<1>2. ASSUME NEW B \in blocks, SplitBlock(B)
      PROVE  Inv'
  BY <1>2, SplitBlockInv
<1>3. CASE Stop
  BY <1>3, StopInv
<1>4. CASE UNCHANGED vars
  BY <1>4, StutterInv
<1> QED
  BY <1>1, <1>2, <1>3, <1>4 DEF Next

-----------------------------------------------------------------------------

(***************************************************************************)
(* The groups of fsm_minimize_hop are always a partition of the states,    *)
(* and only groups that exist are on the agenda.                           *)
(***************************************************************************)
THEOREM TypeCorrect == Spec => []TypeOK
<1>1. Inv => TypeOK
  BY DEF Inv
<1> QED
  BY InitInv, NextInv, <1>1, PTL DEF Spec

(***************************************************************************)
(* refine_states never separates two states that accept the same words.    *)
(***************************************************************************)
THEOREM Coarse == Spec => []NeverSeparatesEquivalent
<1>1. Inv => NeverSeparatesEquivalent
  BY DEF Inv
<1> QED
  BY InitInv, NextInv, <1>1, PTL DEF Spec

(***************************************************************************)
(* What the agenda owes always covers the differences still to be found,   *)
(* whichever half of a split group is queued.                              *)
(***************************************************************************)
THEOREM Covered == Spec => []WorkCovers
<1>1. Inv => WorkCovers
  BY DEF Inv
<1> QED
  BY InitInv, NextInv, <1>1, PTL DEF Spec

-----------------------------------------------------------------------------

\* The block of a state, and the state that stands for the block.
BlockOf(s) == CHOOSE B \in blocks : s \in B

Canonical == [s \in State |-> CHOOSE t \in BlockOf(s) : TRUE]

\* In a partition two states have one representative when they share a block.
LEMMA CanonicalFacts ==
  ASSUME TypeOK
  PROVE  /\ Canonical \in Grouping
         /\ \A s, t \in State :
              Canonical[s] = Canonical[t] <=> \E B \in blocks : s \in B /\ t \in B
<1>1. \A s \in State : BlockOf(s) \in blocks /\ s \in BlockOf(s)
  BY DEF TypeOK, BlockOf
<1>2. \A s \in State : \A B \in blocks : s \in B => B = BlockOf(s)
  BY <1>1 DEF TypeOK
<1>3. \A s \in State : Canonical[s] \in BlockOf(s) /\ Canonical[s] \in State
  BY <1>1 DEF TypeOK, Canonical
<1>4. ASSUME NEW s \in State, NEW t \in State, BlockOf(s) = BlockOf(t)
      PROVE  Canonical[s] = Canonical[t]
  BY <1>4 DEF Canonical
<1>5. \A s \in State : BlockOf(Canonical[s]) = BlockOf(s)
  BY <1>1, <1>2, <1>3
<1>6. \A s \in State : Canonical[Canonical[s]] = Canonical[s]
  BY <1>3, <1>4, <1>5
<1>7. Canonical \in [State -> State]
  <2>1. ASSUME NEW s \in State
        PROVE  (CHOOSE t \in BlockOf(s) : TRUE) \in State
    <3>1. (CHOOSE t \in BlockOf(s) : TRUE) \in BlockOf(s)
      BY <1>1
    <3> QED
      BY <3>1, <1>1 DEF TypeOK
  <2> QED
    BY <2>1 DEF Canonical
<1>8. ASSUME NEW s \in State, NEW t \in State, Canonical[s] = Canonical[t]
      PROVE  \E B \in blocks : s \in B /\ t \in B
  BY <1>1, <1>5, <1>8
<1>9. ASSUME NEW s \in State, NEW t \in State, NEW B \in blocks, s \in B, t \in B
      PROVE  Canonical[s] = Canonical[t]
  BY <1>2, <1>4, <1>9
<1> QED
  BY <1>6, <1>7, <1>8, <1>9 DEF Grouping

\* When nothing is owed the blocks themselves are a congruence.
LEMMA FinishedIsCongruence ==
  ASSUME Inv, Terminated
  PROVE  Congruence(Canonical)
<1>0. TypeOK /\ work = {} /\ \A B \in blocks : ~Cut(B)
  BY DEF Inv, Terminated
<1> SUFFICES ASSUME NEW s \in State, NEW t \in State, Canonical[s] = Canonical[t]
             PROVE  /\ s \in net.final => t \in net.final
                    /\ \A a \in Symbol, s1 \in State : <<s, a, s1>> \in net.arcs =>
                         \E t1 \in State : <<t, a, t1>> \in net.arcs
                                           /\ Canonical[t1] = Canonical[s1]
  BY DEF Congruence
<1>1. PICK B \in blocks : s \in B /\ t \in B
  BY <1>0, CanonicalFacts
<1>2. s \in net.final => t \in net.final
  BY <1>1 DEF Inv, FinalityUniform
<1>3. ASSUME NEW a \in Symbol, NEW s1 \in State, <<s, a, s1>> \in net.arcs
      PROVE  \E t1 \in State : <<t, a, t1>> \in net.arcs /\ Canonical[t1] = Canonical[s1]
  <2>1. PICK C \in blocks : s1 \in C
    BY <1>0 DEF TypeOK
  <2>2. s \in touched <=> t \in touched
    BY <1>0, <1>1 DEF Cut
  <2>3. \/ <<C, a>> \in work
        \/ \E D \in blocks : \E q1 \in D :
             <<t, a, q1>> \in net.arcs /\ (C = D \/ <<D, a>> \in work)
    BY <1>1, <1>3, <2>1, <2>2, Zenon DEF Inv, WorkCovers
  <2>4. PICK t1 \in C : <<t, a, t1>> \in net.arcs
    BY <2>3, <1>0
  <2>5. t1 \in State
    BY <2>1, <1>0 DEF TypeOK
  <2> QED
    BY <2>1, <2>4, <2>5, <1>0, CanonicalFacts
<1> QED
  BY <1>2, <1>3

(***************************************************************************)
(* When the agenda is empty, two states are in one group exactly when some *)
(* congruence identifies them: rebuild_machine makes the minimal machine.  *)
(***************************************************************************)
THEOREM MinimalWhenDone == Spec => []Minimal
<1>1. Inv => Minimal
  <2> SUFFICES ASSUME Inv, Terminated, NEW s \in State, NEW t \in State
               PROVE  (\E B \in blocks : s \in B /\ t \in B) <=>
                      (\E f \in Grouping : Congruence(f) /\ f[s] = f[t])
    BY DEF Minimal
  <2>0. TypeOK
    BY DEF Inv
  <2>1. ASSUME NEW B \in blocks, s \in B, t \in B
        PROVE  \E f \in Grouping : Congruence(f) /\ f[s] = f[t]
    BY <2>0, <2>1, CanonicalFacts, FinishedIsCongruence
  <2>2. ASSUME NEW f \in Grouping, Congruence(f), f[s] = f[t]
        PROVE  \E B \in blocks : s \in B /\ t \in B
    <3>1. PICK B \in blocks : s \in B
      BY <2>0 DEF TypeOK
    <3> QED
      BY <3>1, <2>2 DEF Inv, NeverSeparatesEquivalent
  <2> QED
    BY <2>1, <2>2
<1> QED
  BY InitInv, NextInv, <1>1, PTL DEF Spec
=============================================================================
