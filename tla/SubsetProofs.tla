---------------------------- MODULE SubsetProofs ----------------------------
(***************************************************************************)
(* Proofs about Subset for machines of any size: the machine that          *)
(* fsm_subset builds is the subset construction of its input, whatever the *)
(* order in which the arcs by one symbol are taken.                        *)
(***************************************************************************)
EXTENDS Subset, WellFoundedInduction, TLAPS

\* The arcs by symbol a from the set being expanded.
ArcsOfT(a) == {e \in net.arcs : e[1] \in sets[T] /\ e[2] = a}

\* The sets that T must lead to by symbol a for the arcs its tails have passed.
Passed(a) ==
  IF op = "determinize"
  THEN IF \E e \in todo : e[2] = a THEN {} ELSE Successors(sets[T], a)
  ELSE {EClose(net, {e[3]}) : e \in ArcsOfT(a) \ todo}

\* What holds of the set being expanded.
ExpandingT ==
  /\ pc \in {"open", "arcs"} => T \in 0..current_setnum
  /\ pc = "open" => /\ last = [a \in Symbol |-> None]
                    /\ T \notin outfinal
                    /\ \A e \in out : e[1] # T
  /\ pc = "arcs" => /\ T \in outfinal <=> sets[T] \cap net.final # {}
                    /\ \A a \in Symbol : Targets(T, a) = Passed(a)
                    /\ \A a \in Symbol : last[a] # None => <<T, a, last[a]>> \in out
                    /\ \A e \in todo : e[1] \in sets[T] /\ e[2] \in Symbol
                    /\ op = "determinize" =>
                         \A e \in todo : ArcsOfT(e[2]) \subseteq todo

\* A set that waits has no lines yet.
UnmarkedClean ==
  /\ \A V \in ToSet(unmarked) : V \notin outfinal /\ \A e \in out : e[1] # V
  /\ pc \in {"start", "returned"} => unmarked = <<>> /\ built = <<>>
                                     /\ out = {} /\ outfinal = {}
                                     /\ last = [a \in Symbol |-> None]
                                     /\ current_setnum = -1
  /\ pc = "closed" => unmarked = <<>> /\ current_setnum >= 0

Inv ==
  /\ TypeOK
  /\ ExpandedExactly
  /\ ExpandingT
  /\ UnmarkedClean

-----------------------------------------------------------------------------

\* A closure is a set of states that holds what it closes; nothing closes to nothing.
LEMMA ECloseFacts ==
  ASSUME NEW n, NEW S \in SUBSET State
  PROVE  /\ EClose(n, S) \in SUBSET State
         /\ S \subseteq EClose(n, S)
         /\ S = {} => EClose(n, S) = {}
<1>1. EClose(n, S) \in SUBSET State /\ S \subseteq EClose(n, S)
  BY DEF EClose
<1>2. ASSUME S = {}, NEW s \in EClose(n, S)
      PROVE  FALSE
  <2>1. {} \in SUBSET State /\ S \subseteq {} /\ \A e \in n.arcs : e[2] = Epsilon /\ e[1] \in {} => e[3] \in {}
    BY <1>2
  <2> QED
    BY <1>2, <2>1 DEF EClose
<1> QED
  BY <1>1, <1>2

\* Pushing a number that a sequence does not hold.
LEMMA AppendFacts ==
  ASSUME NEW N, NEW s \in Seq(N), NEW x \in N
  PROVE  /\ Append(s, x) \in Seq(N)
         /\ ToSet(Append(s, x)) = ToSet(s) \cup {x}
         /\ IsInjective(s) /\ x \notin ToSet(s) => IsInjective(Append(s, x))
<1>1. /\ Len(s) \in Nat /\ DOMAIN s = 1..Len(s)
      /\ Append(s, x) \in Seq(N) /\ DOMAIN Append(s, x) = 1..(Len(s) + 1)
      /\ \A i \in 1..Len(s) : Append(s, x)[i] = s[i]
      /\ Append(s, x)[Len(s) + 1] = x
  OBVIOUS
<1>2. 1..(Len(s) + 1) = 1..Len(s) \cup {Len(s) + 1}
  BY <1>1
<1>3. ToSet(Append(s, x)) = ToSet(s) \cup {x}
  BY <1>1, <1>2 DEF ToSet
<1>4. ASSUME IsInjective(s), x \notin ToSet(s)
      PROVE  IsInjective(Append(s, x))
  BY <1>1, <1>2, <1>4 DEF ToSet, IsInjective
<1> QED
  BY <1>1, <1>3, <1>4

\* Popping the last member of a sequence.
LEMMA PopFacts ==
  ASSUME NEW N, NEW s \in Seq(N), s # <<>>
  PROVE  /\ Front(s) \in Seq(N) /\ Last(s) \in N
         /\ ToSet(s) = ToSet(Front(s)) \cup {Last(s)}
         /\ IsInjective(s) => IsInjective(Front(s)) /\ Last(s) \notin ToSet(Front(s))
<1>1. /\ Len(s) \in Nat /\ Len(s) # 0 /\ DOMAIN s = 1..Len(s)
      /\ \A i \in 1..Len(s) : s[i] \in N
  OBVIOUS
<1>2. /\ Front(s) \in Seq(N) /\ DOMAIN Front(s) = 1..(Len(s) - 1)
      /\ \A i \in 1..(Len(s) - 1) : Front(s)[i] = s[i]
  BY <1>1 DEF Front
<1>3. Last(s) = s[Len(s)]
  BY DEF Last
<1>4. 1..Len(s) = 1..(Len(s) - 1) \cup {Len(s)} /\ Len(s) \notin 1..(Len(s) - 1)
  BY <1>1
<1>5. ToSet(s) = ToSet(Front(s)) \cup {Last(s)}
  BY <1>1, <1>2, <1>3, <1>4 DEF ToSet
<1>6. ASSUME IsInjective(s)
      PROVE  IsInjective(Front(s)) /\ Last(s) \notin ToSet(Front(s))
  BY <1>1, <1>2, <1>3, <1>4, <1>6 DEF ToSet, IsInjective
<1> QED
  BY <1>1, <1>2, <1>3, <1>5, <1>6

\* What adding an arc by a to the set S does to the sets, the arcs and the stack.
LEMMA AddSetFacts ==
  ASSUME Inv, pc = "arcs", NEW a \in Symbol, NEW S \in SUBSET State, AddSet(a, S)
  PROVE  /\ current_setnum' \in Nat /\ current_setnum <= current_setnum'
         /\ sets' \in [0..current_setnum' -> SUBSET State]
         /\ \A k \in 0..current_setnum : sets'[k] = sets[k]
         /\ \A U, V \in 0..current_setnum' : sets'[U] = sets'[V] => U = V
         /\ unmarked' \in Seq(0..current_setnum') /\ IsInjective(unmarked')
         /\ ToSet(unmarked') = ToSet(unmarked) \cup ((0..current_setnum') \ (0..current_setnum))
         /\ \E U \in 0..current_setnum' : /\ sets'[U] = S
                                          /\ out' = out \cup {<<T, a, U>>}
                                          /\ last' = [last EXCEPT ![a] = U]
         /\ is_deterministic' \in BOOLEAN
         /\ repeated' \in BOOLEAN
<1>0. /\ current_setnum \in Nat
      /\ sets \in [0..current_setnum -> SUBSET State]
      /\ DOMAIN sets = 0..current_setnum
      /\ \A U, V \in 0..current_setnum : sets[U] = sets[V] => U = V
      /\ last \in [Symbol -> {None} \cup 0..current_setnum]
      /\ last[a] # None => <<T, a, last[a]>> \in out
      /\ is_deterministic \in BOOLEAN /\ repeated \in BOOLEAN
      /\ unmarked \in Seq(0..current_setnum) /\ IsInjective(unmarked)
  <2>1. TypeOK /\ current_setnum \in Nat \cup {-1}
    BY DEF Inv, TypeOK
  <2>2. T \in 0..current_setnum
    BY DEF Inv, ExpandingT
  <2>3. current_setnum \in Nat
    BY <2>1, <2>2
  <2>4. /\ sets \in [0..current_setnum -> SUBSET State]
        /\ last \in [Symbol -> {None} \cup 0..current_setnum]
        /\ is_deterministic \in BOOLEAN /\ repeated \in BOOLEAN
        /\ unmarked \in Seq(0..current_setnum)
    BY <2>1 DEF TypeOK
  <2>5. DOMAIN sets = 0..current_setnum
    BY <2>4
  <2>6. (\A U, V \in DOMAIN sets : sets[U] = sets[V] => U = V) /\ IsInjective(unmarked)
    BY DEF Inv, ExpandedExactly, EachOnce, IsInjective
  <2>7. last[a] # None => <<T, a, last[a]>> \in out
    BY DEF Inv, ExpandingT
  <2> QED
    BY <2>3, <2>4, <2>5, <2>6, <2>7
<1>1. ASSUME NEW U \in Nat, AddArc(a, U)
      PROVE  /\ out' = out \cup {<<T, a, U>>}
             /\ last' = [last EXCEPT ![a] = U]
             /\ is_deterministic' \in BOOLEAN /\ repeated' \in BOOLEAN
  <2>1. CASE last[a] = U
    <3>1. U # None
      BY DEF None
    <3>2. last = [last EXCEPT ![a] = U]
      BY <1>0, <2>1
    <3> QED
      BY <1>0, <1>1, <2>1, <3>1, <3>2 DEF AddArc
  <2>2. CASE last[a] # U
    BY <1>0, <1>1, <2>2 DEF AddArc
  <2> QED
    BY <2>1, <2>2
<1>2. CASE /\ \E U \in DOMAIN sets : sets[U] = S /\ AddArc(a, U)
           /\ UNCHANGED <<current_setnum, sets, unmarked>>
  <2>1. PICK U \in 0..current_setnum : sets[U] = S /\ AddArc(a, U)
    BY <1>0, <1>2
  <2>2. current_setnum' = current_setnum /\ sets' = sets /\ unmarked' = unmarked
    BY <1>2
  <2>3. (0..current_setnum') \ (0..current_setnum) = {}
    BY <2>2
  <2>4. /\ unmarked' \in Seq(0..current_setnum') /\ IsInjective(unmarked')
        /\ ToSet(unmarked') = ToSet(unmarked) \cup ((0..current_setnum') \ (0..current_setnum))
    BY <1>0, <2>2, <2>3
  <2>5. /\ out' = out \cup {<<T, a, U>>} /\ last' = [last EXCEPT ![a] = U]
        /\ is_deterministic' \in BOOLEAN /\ repeated' \in BOOLEAN
    BY <1>0, <1>1, <2>1
  <2>6. /\ current_setnum' \in Nat /\ current_setnum <= current_setnum'
        /\ sets' \in [0..current_setnum' -> SUBSET State]
        /\ \A k \in 0..current_setnum : sets'[k] = sets[k]
        /\ \A V, W \in 0..current_setnum' : sets'[V] = sets'[W] => V = W
    BY <1>0, <2>2
  <2>7. U \in 0..current_setnum' /\ sets'[U] = S
    BY <2>1, <2>2
  <2> QED
    BY <2>4, <2>5, <2>6, <2>7
<1>3. CASE /\ \A U \in DOMAIN sets : sets[U] # S
           /\ current_setnum' = current_setnum + 1
           /\ sets' = [k \in 0..current_setnum' |-> IF k = current_setnum' THEN S ELSE sets[k]]
           /\ unmarked' = Append(unmarked, current_setnum')
           /\ AddArc(a, current_setnum')
  <2>1. current_setnum' \in Nat /\ current_setnum <= current_setnum'
    BY <1>0, <1>3
  <2>2. sets' \in [0..current_setnum' -> SUBSET State]
    BY <1>0, <1>3
  <2>3. \A k \in 0..current_setnum : sets'[k] = sets[k]
    BY <1>0, <1>3
  <2>4. sets'[current_setnum'] = S
    BY <1>0, <1>3
  <2>5. \A U, V \in 0..current_setnum' : sets'[U] = sets'[V] => U = V
    <3> TAKE U, V \in 0..current_setnum'
    <3>1. \A W \in 0..current_setnum' : W = current_setnum' \/ W \in 0..current_setnum
      BY <1>0, <1>3
    <3> QED
      BY <1>0, <1>3, <2>3, <2>4, <3>1
  <2>6. (0..current_setnum') \ (0..current_setnum) = {current_setnum'}
    BY <1>0, <1>3
  <2>7. /\ unmarked' \in Seq(0..current_setnum') /\ IsInjective(unmarked')
        /\ ToSet(unmarked') = ToSet(unmarked) \cup {current_setnum'}
    <3>1. 0..current_setnum \subseteq 0..current_setnum' /\ current_setnum' \in 0..current_setnum'
      BY <1>0, <1>3
    <3>2. unmarked \in Seq(0..current_setnum')
      BY <1>0, <3>1
    <3>3. current_setnum' \notin ToSet(unmarked)
      <4>1. ToSet(unmarked) \subseteq 0..current_setnum
        BY <1>0 DEF ToSet
      <4> QED
        BY <2>6, <4>1
    <3> QED
      BY <1>0, <1>3, <3>1, <3>2, <3>3, AppendFacts
  <2> QED
    BY <1>1, <1>3, <2>1, <2>2, <2>3, <2>4, <2>5, <2>6, <2>7
<1> QED
  BY <1>2, <1>3 DEF AddSet

-----------------------------------------------------------------------------

(***************************************************************************)
(* Adding the arc of one move: the arcs of the other sets stay what they   *)
(* were, T gets one more target set.                                       *)
(***************************************************************************)
LEMMA AddSetTargets ==
  ASSUME Inv, pc = "arcs", NEW a \in Symbol, NEW S \in SUBSET State, AddSet(a, S), T' = T
  PROVE  /\ \A b \in Symbol : Targets(T, b)' = IF b = a THEN Targets(T, b) \cup {S}
                                               ELSE Targets(T, b)
         /\ \A V \in 0..current_setnum : V # T =>
              \A b \in Symbol : Targets(V, b)' = Targets(V, b)
<1>0. /\ DOMAIN sets = 0..current_setnum
      /\ DOMAIN sets' = 0..current_setnum'
      /\ current_setnum \in Nat /\ current_setnum' \in Nat /\ current_setnum <= current_setnum'
      /\ \A k \in 0..current_setnum : sets'[k] = sets[k]
      /\ out \subseteq (0..current_setnum) \X Symbol \X (0..current_setnum)
  BY AddSetFacts DEF Inv, TypeOK, ExpandingT
<1>1. PICK U \in 0..current_setnum' : sets'[U] = S /\ out' = out \cup {<<T, a, U>>}
  BY AddSetFacts
<1>2. 0..current_setnum \subseteq 0..current_setnum'
  BY <1>0
<1>3. ASSUME NEW V, NEW b \in Symbol, <<V, b>> # <<T, a>>
      PROVE  Targets(V, b)' = Targets(V, b)
  <2>1. \A W : <<V, b, W>> \in out' <=> <<V, b, W>> \in out
    BY <1>1, <1>3
  <2>2. \A W : <<V, b, W>> \in out => W \in 0..current_setnum
    BY <1>0
  <2> QED
    BY <1>0, <1>2, <2>1, <2>2 DEF Targets
<1>4. Targets(T, a)' = Targets(T, a) \cup {S}
  <2>1. \A W : <<T, a, W>> \in out' <=> (<<T, a, W>> \in out \/ W = U)
    BY <1>1
  <2>2. \A W : <<T, a, W>> \in out => W \in 0..current_setnum
    BY <1>0
  <2> QED
    BY <1>0, <1>1, <1>2, <2>1, <2>2 DEF Targets
<1> QED
  BY <1>3, <1>4

\* A move that keeps to the progress invariant keeps the invariant.
LEMMA AddSetInv ==
  ASSUME Inv, pc = "arcs", NEW a \in Symbol, NEW S \in SUBSET State, AddSet(a, S),
         UNCHANGED <<net, op, T, built, outfinal, pc>>, todo' \subseteq todo,
         \A b \in Symbol : Passed(b)' = IF b = a THEN Passed(b) \cup {S} ELSE Passed(b),
         op = "determinize" => \A e \in todo' : ArcsOfT(e[2])' \subseteq todo'
  PROVE  Inv'
<1>0. /\ TypeOK /\ ExpandedExactly /\ ExpandingT /\ UnmarkedClean
      /\ net' = net /\ op' = op /\ T' = T /\ outfinal' = outfinal /\ pc' = "arcs"
      /\ built' = built /\ built \in Seq(0..current_setnum)
      /\ T \in 0..current_setnum
      /\ current_setnum \in Nat
      /\ DOMAIN sets = 0..current_setnum
  BY DEF Inv, TypeOK, ExpandingT
<1>1. /\ current_setnum' \in Nat /\ current_setnum <= current_setnum'
      /\ sets' \in [0..current_setnum' -> SUBSET State]
      /\ \A k \in 0..current_setnum : sets'[k] = sets[k]
      /\ \A U, V \in 0..current_setnum' : sets'[U] = sets'[V] => U = V
      /\ unmarked' \in Seq(0..current_setnum') /\ IsInjective(unmarked')
      /\ ToSet(unmarked') = ToSet(unmarked) \cup ((0..current_setnum') \ (0..current_setnum))
      /\ is_deterministic' \in BOOLEAN
      /\ repeated' \in BOOLEAN
  BY AddSetFacts
<1>2. PICK U \in 0..current_setnum' : /\ out' = out \cup {<<T, a, U>>}
                                      /\ last' = [last EXCEPT ![a] = U]
  BY AddSetFacts
<1>3. /\ \A b \in Symbol : Targets(T, b)' = IF b = a THEN Targets(T, b) \cup {S} ELSE Targets(T, b)
      /\ \A V \in 0..current_setnum : V # T => \A b \in Symbol : Targets(V, b)' = Targets(V, b)
  BY <1>0, AddSetTargets
<1>4. 0..current_setnum \subseteq 0..current_setnum'
  BY <1>0, <1>1
<1>5. TypeOK'
  <2>1. /\ T' \in {None} \cup 0..current_setnum'
        /\ built' \in Seq(0..current_setnum')
        /\ outfinal' \subseteq 0..current_setnum'
    BY <1>0, <1>1, <1>4 DEF TypeOK
  <2>2. last' \in [Symbol -> {None} \cup 0..current_setnum']
    BY <1>0, <1>2, <1>4 DEF TypeOK
  <2>3. out' \subseteq (0..current_setnum') \X Symbol \X (0..current_setnum')
    <3>1. out \subseteq (0..current_setnum') \X Symbol \X (0..current_setnum')
      BY <1>0, <1>4 DEF TypeOK
    <3>2. <<T, a, U>> \in (0..current_setnum') \X Symbol \X (0..current_setnum')
      BY <1>0, <1>4
    <3> QED
      BY <3>1, <3>2, <1>2
  <2>4. net' \in Automaton /\ op' \in {"determinize", "epsilon_remove"} /\ todo' \subseteq net'.arcs
    BY <1>0 DEF TypeOK
  <2> QED
    BY <1>0, <1>1, <2>1, <2>2, <2>3, <2>4 DEF TypeOK
<1>6. ExpandingT'
  <2>1. T' \in 0..current_setnum'
    BY <1>0, <1>4
  <2>2. T' \in outfinal' <=> sets'[T'] \cap net'.final # {}
    BY <1>0, <1>1 DEF ExpandingT
  <2>3. \A b \in Symbol : Targets(T, b)' = Passed(b)'
    BY <1>0, <1>3 DEF ExpandingT
  <2>4. \A b \in Symbol : last'[b] # None => <<T', b, last'[b]>> \in out'
    BY <1>0, <1>2 DEF ExpandingT, TypeOK
  <2>5. \A e \in todo' : e[1] \in sets'[T'] /\ e[2] \in Symbol
    BY <1>0, <1>1 DEF ExpandingT
  <2> QED
    BY <1>0, <2>1, <2>2, <2>3, <2>4, <2>5 DEF ExpandingT
<1>7. ExpandedExactly'
  <2>0. EachOnce /\ AtHand = {T} /\ AtHand' = {T}
    BY <1>0 DEF ExpandedExactly, AtHand
  <2>1. EachOnce'
    <3>1. /\ IsInjective(built) /\ IsInjective(built')
          /\ ToSet(built) \cap ToSet(unmarked) = {}
          /\ {T} \cap (ToSet(built) \cup ToSet(unmarked)) = {}
          /\ 0..current_setnum = ToSet(built) \cup {T} \cup ToSet(unmarked)
      BY <1>0, <2>0 DEF EachOnce
    <3>2. /\ ToSet(built) \cap ToSet(unmarked') = {}
          /\ {T} \cap (ToSet(built) \cup ToSet(unmarked')) = {}
          /\ 0..current_setnum' = ToSet(built) \cup {T} \cup ToSet(unmarked')
      BY <1>1, <1>4, <3>1
    <3> QED
      BY <1>0, <1>1, <2>0, <3>1, <3>2 DEF EachOnce
  <2>2. \A V \in ToSet(built) : V \in 0..current_setnum /\ V # T
    BY <2>0 DEF EachOnce
  <2>3. \A V \in ToSet(built) :
          /\ V \in outfinal <=> sets[V] \cap net.final # {}
          /\ \A b \in Symbol : Targets(V, b) = Successors(sets[V], b)
    BY <1>0 DEF ExpandedExactly
  <2>4. \A V \in ToSet(built) : V \in outfinal' <=> sets'[V] \cap net'.final # {}
    BY <1>0, <1>1, <2>2, <2>3
  <2>5. ASSUME NEW V \in ToSet(built), NEW b \in Symbol
        PROVE  Targets(V, b)' = Successors(sets[V], b)'
    <3>1. sets'[V] = sets[V]
      BY <1>1, <2>2
    <3>2. Successors(sets[V], b)' = Successors(sets[V], b)
      BY <1>0, <3>1 DEF Successors
    <3> QED
      BY <1>3, <2>2, <2>3, <3>2
  <2>6. sets'[0] = EClose(net', net'.start)
    BY <1>0, <1>1 DEF ExpandedExactly
  <2>7. IsInjective(sets')
    BY <1>1 DEF IsInjective
  <2> QED
    BY <1>0, <2>1, <2>4, <2>5, <2>6, <2>7 DEF ExpandedExactly
<1>8. UnmarkedClean'
  <2>1. ASSUME NEW V \in ToSet(unmarked')
        PROVE  V \notin outfinal' /\ \A e \in out' : e[1] # V
    <3>1. CASE V \in ToSet(unmarked)
      <4>1. V # T
        BY <1>0, <3>1 DEF ExpandedExactly, EachOnce, AtHand
      <4> QED
        BY <1>0, <1>2, <3>1, <4>1 DEF UnmarkedClean
    <3>2. CASE V \in (0..current_setnum') \ (0..current_setnum)
      <4>1. V \notin outfinal'
        BY <1>0, <3>2 DEF TypeOK
      <4>2. \A e \in out : e[1] \in 0..current_setnum
        BY <1>0 DEF TypeOK
      <4> QED
        BY <1>0, <1>2, <3>2, <4>1, <4>2
    <3> QED
      BY <1>1, <2>1, <3>1, <3>2
  <2> QED
    BY <1>0, <2>1 DEF UnmarkedClean
<1> QED
  BY <1>5, <1>6, <1>7, <1>8 DEF Inv

\* The arcs of a machine are triples.
LEMMA ArcFacts ==
  ASSUME TypeOK
  PROVE  \A e \in net.arcs : /\ e = <<e[1], e[2], e[3]>>
                             /\ e[1] \in State /\ e[3] \in State
                             /\ e[2] \in Symbol \cup {Epsilon}
BY DEF TypeOK, Automaton

\* fsm_determinize adds the set of all targets by a symbol.
LEMMA MoveSymbolInv ==
  ASSUME Inv, NEW a \in Symbol, MoveSymbol(a)
  PROVE  Inv'
<1> DEFINE M == Move(net, sets[T], a)
           S == EClose(net, M)
<1>0. /\ TypeOK /\ ExpandingT
      /\ pc = "arcs" /\ op = "determinize"
      /\ AddSet(a, S)
      /\ todo' = {e \in todo : e[2] # a}
      /\ net' = net /\ op' = op /\ T' = T /\ built' = built /\ outfinal' = outfinal /\ pc' = pc
      /\ T \in 0..current_setnum /\ sets \in [0..current_setnum -> SUBSET State]
  BY DEF Inv, TypeOK, ExpandingT, MoveSymbol
<1>1. M \in SUBSET State
  BY DEF Move
<1>2. PICK e \in todo : e[2] = a
  BY DEF MoveSymbol, minsym
<1>3. e[3] \in M
  <2>1. e \in net.arcs /\ e[1] \in sets[T]
    BY <1>0 DEF TypeOK, ExpandingT
  <2> QED
    BY <2>1, <1>0, <1>2, ArcFacts DEF Move
<1>4. S \in SUBSET State /\ S # {}
  BY <1>1, <1>3, ECloseFacts
<1>5. sets'[T] = sets[T]
  BY <1>0, <1>4, AddSetFacts
<1>6. ASSUME NEW b \in Symbol
      PROVE  Passed(b)' = IF b = a THEN Passed(b) \cup {S} ELSE Passed(b)
  <2>1. Successors(sets[T], b)' = Successors(sets[T], b)
    BY <1>0, <1>5 DEF Successors
  <2>2. CASE b = a
    <3>1. ~ \E x \in todo' : x[2] = b
      BY <1>0, <2>2
    <3>2. Passed(b) = {}
      BY <1>0, <1>2, <2>2 DEF Passed
    <3>3. Passed(b)' = Successors(sets[T], b)
      BY <1>0, <2>1, <3>1 DEF Passed
    <3>4. Successors(sets[T], b) = {S}
      BY <1>0, <1>4, <2>2 DEF Successors
    <3> QED
      BY <2>2, <3>2, <3>3, <3>4
  <2>3. CASE b # a
    <3>1. (\E x \in todo' : x[2] = b) <=> (\E x \in todo : x[2] = b)
      BY <1>0, <2>3
    <3> QED
      BY <1>0, <2>1, <2>3, <3>1 DEF Passed
  <2> QED
    BY <2>2, <2>3
<1>7. \A x \in todo' : ArcsOfT(x[2])' \subseteq todo'
  <2> TAKE x \in todo'
  <2>1. ArcsOfT(x[2])' = ArcsOfT(x[2])
    BY <1>0, <1>5 DEF ArcsOfT
  <2>2. x \in todo /\ x[2] # a /\ ArcsOfT(x[2]) \subseteq todo
    BY <1>0 DEF ExpandingT
  <2> QED
    BY <1>0, <2>1, <2>2 DEF ArcsOfT
<1>8. todo' \subseteq todo
  BY <1>0
<1>9. UNCHANGED <<net, op, T, built, outfinal, pc>>
  BY <1>0
<1> HIDE DEF S, M
<1> QED
  BY <1>0, <1>4, <1>6, <1>7, <1>8, <1>9, AddSetInv

\* fsm_epsilon_remove adds the closure of one target.
LEMMA MoveArcInv ==
  ASSUME Inv, NEW e \in todo, MoveArc(e)
  PROVE  Inv'
<1> DEFINE a == e[2]
           S == EClose(net, {e[3]})
<1>0. /\ TypeOK /\ ExpandingT
      /\ pc = "arcs" /\ op = "epsilon_remove"
      /\ AddSet(a, S)
      /\ todo' = todo \ {e}
      /\ net' = net /\ op' = op /\ T' = T /\ built' = built /\ outfinal' = outfinal /\ pc' = pc
      /\ T \in 0..current_setnum /\ sets \in [0..current_setnum -> SUBSET State]
  BY DEF Inv, TypeOK, ExpandingT, MoveArc
<1>1. e \in net.arcs /\ e[1] \in sets[T] /\ a \in Symbol /\ e[3] \in State
  BY <1>0, ArcFacts DEF TypeOK, ExpandingT
<1>2. S \in SUBSET State
  BY <1>1, ECloseFacts
<1>3. sets'[T] = sets[T]
  BY <1>0, <1>1, <1>2, AddSetFacts
<1>4. ASSUME NEW b \in Symbol
      PROVE  Passed(b)' = IF b = a THEN Passed(b) \cup {S} ELSE Passed(b)
  <2>1. ArcsOfT(b)' = ArcsOfT(b)
    BY <1>0, <1>3 DEF ArcsOfT
  <2>2. Passed(b)' = {EClose(net, {x[3]}) : x \in ArcsOfT(b) \ (todo \ {e})}
    BY <1>0, <2>1 DEF Passed
  <2>3. Passed(b) = {EClose(net, {x[3]}) : x \in ArcsOfT(b) \ todo}
    BY <1>0 DEF Passed
  <2>4. ArcsOfT(b) \ (todo \ {e}) = IF b = a THEN (ArcsOfT(b) \ todo) \cup {e}
                                    ELSE ArcsOfT(b) \ todo
    BY <1>1 DEF ArcsOfT
  <2> QED
    BY <2>2, <2>3, <2>4
<1>5. todo' \subseteq todo
  BY <1>0
<1>6. op # "determinize"
  BY <1>0
<1>7. UNCHANGED <<net, op, T, built, outfinal, pc>>
  BY <1>0
<1> HIDE DEF S, a
<1> QED
  BY <1>0, <1>1, <1>2, <1>4, <1>5, <1>6, <1>7, AddSetInv

-----------------------------------------------------------------------------

\* fsm_subset starts in the invariant.
LEMMA InitInv == Init => Inv
<1> SUFFICES ASSUME Init
             PROVE  Inv
  OBVIOUS
<1> USE DEF Init
<1>1. TypeOK
  <2>1. 0..-1 = {}
    OBVIOUS
  <2>2. sets \in [0..current_setnum -> SUBSET State]
    BY <2>1
  <2>3. unmarked \in Seq(0..current_setnum) /\ built \in Seq(0..current_setnum)
    OBVIOUS
  <2> QED
    BY <2>2, <2>3, SubsetAssumption DEF TypeOK, None
<1>2. ExpandedExactly /\ ExpandingT /\ UnmarkedClean
  BY DEF ExpandedExactly, ExpandingT, UnmarkedClean
<1> QED
  BY <1>1, <1>2 DEF Inv

\* An early return keeps the invariant.
LEMMA ReturnAsIsInv ==
  ASSUME Inv, ReturnAsIs
  PROVE  Inv'
<1>0. /\ TypeOK /\ UnmarkedClean /\ pc = "start" /\ pc' = "returned"
      /\ net' = net /\ op' = op /\ current_setnum' = current_setnum /\ sets' = sets
      /\ T' = T /\ unmarked' = unmarked /\ built' = built /\ todo' = todo /\ last' = last /\ out' = out
      /\ repeated' = repeated /\ outfinal' = outfinal
      /\ is_deterministic' \in BOOLEAN
  BY DEF Inv, ReturnAsIs, TypeOK
<1>1. TypeOK'
  BY <1>0 DEF TypeOK
<1>2. ExpandedExactly' /\ ExpandingT' /\ UnmarkedClean'
  BY <1>0 DEF ExpandedExactly, ExpandingT, UnmarkedClean
<1> QED
  BY <1>1, <1>2 DEF Inv

\* Set 0 is the closure of the start states.
LEMMA BeginInv ==
  ASSUME Inv, Begin
  PROVE  Inv'
<1>0. /\ TypeOK /\ UnmarkedClean /\ pc = "start" /\ pc' = "open"
      /\ net' = net /\ op' = op /\ current_setnum' = 0
      /\ sets' = [k \in {0} |-> EClose(net, net.start)]
      /\ T' = 0 /\ unmarked' = <<>> /\ built' = <<>> /\ todo' = todo
      /\ last' = last /\ out' = {}
      /\ last = [a \in Symbol |-> None]
      /\ repeated' = repeated /\ outfinal' = {}
      /\ is_deterministic' = TRUE
  BY DEF Inv, Begin, UnmarkedClean
<1>1. 0..0 = {0} /\ net.start \in SUBSET State
  BY <1>0 DEF TypeOK, Automaton
<1>2. sets' \in [0..0 -> SUBSET State]
  BY <1>0, <1>1, ECloseFacts
<1>3. TypeOK'
  <2>1. unmarked' \in Seq(0..current_setnum') /\ built' \in Seq(0..current_setnum')
    BY <1>0
  <2> QED
    BY <1>0, <1>1, <1>2, <2>1 DEF TypeOK, None
<1>4. ExpandedExactly'
  <2>1. ToSet(built') = {} /\ ToSet(unmarked') = {} /\ AtHand' = {0}
    BY <1>0 DEF ToSet, AtHand
  <2>2. EachOnce'
    BY <1>0, <1>1, <2>1 DEF EachOnce, IsInjective
  <2>3. IsInjective(sets')
    BY <1>0 DEF IsInjective
  <2> QED
    BY <1>0, <1>1, <2>1, <2>2, <2>3 DEF ExpandedExactly
<1>5. ExpandingT' /\ UnmarkedClean'
  BY <1>0 DEF ExpandingT, UnmarkedClean, ToSet
<1> QED
  BY <1>3, <1>4, <1>5 DEF Inv

\* Opening a set records its finality and all the arcs of its states.
LEMMA OpenStateInv ==
  ASSUME Inv, OpenState
  PROVE  Inv'
<1>0. /\ TypeOK /\ ExpandedExactly /\ ExpandingT /\ UnmarkedClean
      /\ pc = "open" /\ pc' = "arcs"
      /\ outfinal' = IF sets[T] \cap net.final # {} THEN outfinal \cup {T} ELSE outfinal
      /\ todo' = {e \in net.arcs : e[1] \in sets[T] /\ e[2] # Epsilon}
      /\ net' = net /\ op' = op /\ current_setnum' = current_setnum /\ sets' = sets
      /\ T' = T /\ unmarked' = unmarked /\ built' = built /\ last' = last /\ out' = out
      /\ repeated' = repeated /\ is_deterministic' = is_deterministic
      /\ T \in 0..current_setnum /\ T \notin outfinal
      /\ last = [a \in Symbol |-> None]
      /\ \A e \in out : e[1] # T
  BY DEF Inv, OpenState, ExpandingT
<1>1. TypeOK'
  BY <1>0 DEF TypeOK
<1>2. ExpandedExactly'
  <2>1. EachOnce' /\ T \notin ToSet(built)
    BY <1>0 DEF ExpandedExactly, EachOnce, AtHand
  <2>2. \A V \in ToSet(built) :
          /\ V \in outfinal <=> sets[V] \cap net.final # {}
          /\ \A a \in Symbol : Targets(V, a) = Successors(sets[V], a)
    BY <1>0 DEF ExpandedExactly
  <2>3. ASSUME NEW V \in ToSet(built)
        PROVE  /\ V \in outfinal' <=> sets'[V] \cap net'.final # {}
               /\ \A a \in Symbol : Targets(V, a)' = Successors(sets[V], a)'
    <3>1. V # T
      BY <2>1
    <3>2. V \in outfinal' <=> sets'[V] \cap net'.final # {}
      BY <1>0, <2>2, <3>1
    <3>3. ASSUME NEW a \in Symbol
          PROVE  Targets(V, a)' = Successors(sets[V], a)'
      <4>1. Targets(V, a)' = Targets(V, a)
        BY <1>0 DEF Targets
      <4>2. Successors(sets[V], a)' = Successors(sets[V], a)
        BY <1>0 DEF Successors
      <4> QED
        BY <2>2, <4>1, <4>2
    <3> QED
      BY <3>2, <3>3
  <2> QED
    BY <1>0, <2>1, <2>3 DEF ExpandedExactly
<1>3. ExpandingT'
  <2>1. \A a \in Symbol : Targets(T, a)' = {}
    BY <1>0 DEF Targets
  <2>2. ASSUME NEW a \in Symbol
        PROVE  ArcsOfT(a)' \subseteq todo'
    BY <1>0, SubsetAssumption DEF ArcsOfT
  <2>3. ASSUME NEW a \in Symbol
        PROVE  Passed(a)' = {}
    <3>1. CASE op = "determinize"
      <4>1. CASE \E e \in todo' : e[2] = a
        BY <1>0, <3>1, <4>1 DEF Passed
      <4>2. CASE ~ \E e \in todo' : e[2] = a
        <5>1. Move(net, sets[T], a) = {}
          <6>1. \A t \in State, s \in sets[T] : <<s, a, t>> \in net.arcs => <<s, a, t>> \in todo'
            BY <1>0, SubsetAssumption
          <6> QED
            BY <4>2, <6>1 DEF Move
        <5>2. Successors(sets[T], a) = {}
          BY <3>1, <5>1, ECloseFacts DEF Successors
        <5>3. Successors(sets[T], a)' = Successors(sets[T], a)
          BY <1>0 DEF Successors
        <5> QED
          BY <1>0, <3>1, <4>2, <5>2, <5>3 DEF Passed
      <4> QED
        BY <4>1, <4>2
    <3>2. CASE op = "epsilon_remove"
      <4>1. ArcsOfT(a)' \ todo' = {}
        BY <2>2
      <4> QED
        BY <1>0, <3>2, <4>1 DEF Passed
    <3> QED
      BY <1>0, <3>1, <3>2 DEF TypeOK
  <2>4. \A e \in todo' : e[1] \in sets'[T'] /\ e[2] \in Symbol
    BY <1>0, ArcFacts
  <2>5. T' \in outfinal' <=> sets'[T'] \cap net'.final # {}
    BY <1>0
  <2>6. \A a \in Symbol : last'[a] = None
    BY <1>0
  <2> QED
    BY <1>0, <2>1, <2>2, <2>3, <2>4, <2>5, <2>6 DEF ExpandingT
<1>4. UnmarkedClean'
  <2>1. T \notin ToSet(unmarked)
    BY <1>0 DEF ExpandedExactly, EachOnce, AtHand
  <2> QED
    BY <1>0, <2>1 DEF UnmarkedClean
<1> QED
  BY <1>1, <1>2, <1>3, <1>4 DEF Inv

\* A set whose tails are all at their ends is complete.
LEMMA EndStateInv ==
  ASSUME Inv, EndState
  PROVE  Inv'
<1>0. /\ TypeOK /\ ExpandedExactly /\ ExpandingT /\ UnmarkedClean
      /\ pc = "arcs" /\ todo = {} /\ todo' = todo
      /\ last' = [a \in Symbol |-> None]
      /\ net' = net /\ op' = op /\ current_setnum' = current_setnum /\ sets' = sets
      /\ out' = out /\ outfinal' = outfinal
      /\ repeated' = repeated /\ is_deterministic' = is_deterministic
      /\ T \in 0..current_setnum
      /\ current_setnum \in Nat /\ unmarked \in Seq(0..current_setnum)
      /\ built \in Seq(0..current_setnum) /\ built' = Append(built, T)
      /\ T \in outfinal <=> sets[T] \cap net.final # {}
      /\ \A a \in Symbol : Targets(T, a) = Passed(a)
  BY DEF Inv, EndState, ExpandingT, TypeOK
<1>1. \/ /\ unmarked # <<>> /\ T' = Last(unmarked) /\ unmarked' = Front(unmarked)
         /\ pc' = "open"
      \/ unmarked = <<>> /\ pc' = "closed" /\ T' = T /\ unmarked' = unmarked
  BY DEF EndState
<1>a. /\ IsInjective(built) /\ IsInjective(unmarked)
      /\ ToSet(built) \cap ToSet(unmarked) = {}
      /\ T \notin ToSet(built) /\ T \notin ToSet(unmarked)
      /\ 0..current_setnum = ToSet(built) \cup {T} \cup ToSet(unmarked)
  BY <1>0 DEF ExpandedExactly, EachOnce, AtHand
<1>b. /\ built' \in Seq(0..current_setnum) /\ IsInjective(built')
      /\ ToSet(built') = ToSet(built) \cup {T}
  BY <1>0, <1>a, AppendFacts
<1>c. ASSUME unmarked # <<>>, T' = Last(unmarked), unmarked' = Front(unmarked)
      PROVE  /\ unmarked' \in Seq(0..current_setnum) /\ IsInjective(unmarked')
             /\ T' \in 0..current_setnum /\ T' \notin ToSet(unmarked')
             /\ ToSet(unmarked) = ToSet(unmarked') \cup {T'}
  BY <1>0, <1>a, <1>c, PopFacts
<1>2. TypeOK'
  <2>1. T' \in 0..current_setnum /\ unmarked' \in Seq(0..current_setnum)
    BY <1>0, <1>1, <1>c
  <2>2. pc' \in {"open", "closed"}
    BY <1>1
  <2> QED
    BY <1>0, <1>b, <2>1, <2>2 DEF TypeOK
<1>3. ExpandedExactly'
  <2>1. EachOnce'
    <3>1. CASE unmarked # <<>> /\ T' = Last(unmarked) /\ unmarked' = Front(unmarked)
               /\ pc' = "open"
      <4>1. AtHand' = {T'}
        BY <3>1 DEF AtHand
      <4> QED
        BY <1>0, <1>a, <1>b, <1>c, <3>1, <4>1 DEF EachOnce
    <3>2. CASE unmarked = <<>> /\ pc' = "closed" /\ T' = T /\ unmarked' = unmarked
      <4>1. AtHand' = {} /\ ToSet(unmarked) = {}
        BY <3>2 DEF AtHand, ToSet
      <4> QED
        BY <1>0, <1>a, <1>b, <3>2, <4>1 DEF EachOnce
    <3> QED
      BY <1>1, <3>1, <3>2
  <2>2. \A V, a : Targets(V, a)' = Targets(V, a)
    BY <1>0 DEF Targets
  <2>3. \A V, a : Successors(sets[V], a)' = Successors(sets[V], a)
    BY <1>0 DEF Successors
  <2>4. ASSUME NEW a \in Symbol
        PROVE  Passed(a) = Successors(sets[T], a)
    <3>1. CASE op = "determinize"
      BY <1>0, <3>1 DEF Passed
    <3>2. CASE op = "epsilon_remove"
      <4>1. ASSUME NEW e \in ArcsOfT(a)
            PROVE  e[3] \in Move(net, sets[T], a)
        BY <1>0, ArcFacts DEF ArcsOfT, Move
      <4>2. ASSUME NEW t \in Move(net, sets[T], a)
            PROVE  \E e \in ArcsOfT(a) : e[3] = t
        <5>1. PICK s \in sets[T] : <<s, a, t>> \in net.arcs
          BY DEF Move
        <5>2. <<s, a, t>> \in ArcsOfT(a) /\ <<s, a, t>>[3] = t
          BY <5>1 DEF ArcsOfT
        <5> QED
          BY <5>2
      <4>3. Passed(a) = {EClose(net, {e[3]}) : e \in ArcsOfT(a)}
        BY <1>0, <3>2 DEF Passed
      <4>4. Successors(sets[T], a) = {EClose(net, {t}) : t \in Move(net, sets[T], a)}
        BY <3>2 DEF Successors
      <4> QED
        BY <4>1, <4>2, <4>3, <4>4
    <3> QED
      BY <1>0, <3>1, <3>2 DEF TypeOK
  <2>5. \A V \in ToSet(built') :
          /\ V \in outfinal <=> sets[V] \cap net.final # {}
          /\ \A a \in Symbol : Targets(V, a) = Successors(sets[V], a)
    BY <1>0, <1>b, <2>4 DEF ExpandedExactly
  <2>6. \A V \in ToSet(built') : V \in outfinal' <=> sets'[V] \cap net'.final # {}
    BY <1>0, <2>5
  <2>7. ASSUME NEW V \in ToSet(built'), NEW a \in Symbol
        PROVE  Targets(V, a)' = Successors(sets[V], a)'
    <3>1. Targets(V, a)' = Targets(V, a)
      BY <1>0 DEF Targets
    <3>2. Successors(sets[V], a)' = Successors(sets[V], a)
      BY <1>0 DEF Successors
    <3> QED
      BY <2>5, <3>1, <3>2
  <2>8. /\ IsInjective(sets')
        /\ sets'[0] = EClose(net', net'.start)
    BY <1>0 DEF ExpandedExactly
  <2> QED
    BY <2>1, <2>6, <2>7, <2>8 DEF ExpandedExactly
<1>4. ExpandingT'
  <2>1. CASE unmarked # <<>> /\ T' = Last(unmarked) /\ unmarked' = Front(unmarked)
             /\ pc' = "open"
    <3>1. T' \in ToSet(unmarked) /\ T' \in 0..current_setnum'
      BY <1>0, <1>c, <2>1
    <3>2. T' \notin outfinal' /\ \A e \in out' : e[1] # T'
      BY <1>0, <3>1 DEF UnmarkedClean
    <3> QED
      BY <1>0, <2>1, <3>1, <3>2 DEF ExpandingT
  <2>2. CASE unmarked = <<>> /\ pc' = "closed" /\ T' = T /\ unmarked' = unmarked
    BY <2>2 DEF ExpandingT
  <2> QED
    BY <1>1, <2>1, <2>2
<1>5. UnmarkedClean'
  <2>0. ToSet(unmarked') \subseteq ToSet(unmarked)
    BY <1>1, <1>c
  <2>1. \A V \in ToSet(unmarked') : V \notin outfinal' /\ \A e \in out' : e[1] # V
    BY <1>0, <2>0 DEF UnmarkedClean
  <2>2. pc' = "closed" => unmarked' = <<>>
    BY <1>1
  <2>3. current_setnum' >= 0
    BY <1>0
  <2>4. pc' \notin {"start", "returned"}
    BY <1>1
  <2> QED
    BY <2>1, <2>2, <2>3, <2>4 DEF UnmarkedClean
<1> QED
  BY <1>2, <1>3, <1>4, <1>5 DEF Inv

\* A step that changes nothing keeps the invariant.
LEMMA StutterInv ==
  ASSUME Inv, UNCHANGED vars
  PROVE  Inv'
<1>0. /\ TypeOK /\ ExpandedExactly /\ ExpandingT /\ UnmarkedClean
      /\ net' = net /\ op' = op /\ current_setnum' = current_setnum /\ sets' = sets
      /\ T' = T /\ unmarked' = unmarked /\ built' = built /\ todo' = todo /\ last' = last /\ out' = out
      /\ repeated' = repeated /\ outfinal' = outfinal
      /\ is_deterministic' = is_deterministic /\ pc' = pc
  BY DEF vars, Inv
<1>1. TypeOK'
  BY <1>0 DEF TypeOK
<1>2. /\ EachOnce <=> EachOnce'
      /\ \A V, a : Targets(V, a)' = Targets(V, a)
  BY <1>0 DEF EachOnce, AtHand, Targets
<1>3. \A a : /\ ArcsOfT(a)' = ArcsOfT(a)
            /\ Successors(sets[T], a)' = Successors(sets[T], a)
  BY <1>0 DEF ArcsOfT, Successors
<1>4. ASSUME NEW V, NEW a
      PROVE  Successors(sets[V], a)' = Successors(sets[V], a)
  BY <1>0 DEF Successors
<1>5. \A a : Passed(a)' = Passed(a)
  BY <1>0, <1>3 DEF Passed
<1>6. ExpandedExactly'
  <2>1. CASE pc \in {"open", "arcs", "closed"}
    <3>1. \A V \in ToSet(built) :
            /\ V \in outfinal' <=> sets'[V] \cap net'.final # {}
            /\ \A a \in Symbol : Targets(V, a) = Successors(sets[V], a)
      BY <1>0, <2>1 DEF ExpandedExactly
    <3>2. IsInjective(sets') /\ EachOnce' /\ sets'[0] = EClose(net', net'.start)
      BY <1>0, <1>2, <2>1 DEF ExpandedExactly
    <3>3. ASSUME NEW V \in ToSet(built), NEW a \in Symbol
          PROVE  Targets(V, a)' = Successors(sets[V], a)'
      BY <1>2, <1>4, <3>1
    <3> QED
      BY <1>0, <3>1, <3>2, <3>3 DEF ExpandedExactly
  <2>2. CASE pc \notin {"open", "arcs", "closed"}
    BY <1>0, <2>2 DEF ExpandedExactly
  <2> QED
    BY <2>1, <2>2
<1>7. ExpandingT'
  <2>1. pc' \in {"open", "arcs"} => T' \in 0..current_setnum'
    BY <1>0 DEF ExpandingT
  <2>2. pc' = "open" => /\ last' = [a \in Symbol |-> None]
                        /\ T' \notin outfinal'
                        /\ \A e \in out' : e[1] # T'
    BY <1>0 DEF ExpandingT
  <2> QED
    BY <1>0, <1>2, <1>3, <1>5, <2>1, <2>2 DEF ExpandingT
<1>8. UnmarkedClean'
  BY <1>0 DEF UnmarkedClean
<1> QED
  BY <1>1, <1>6, <1>7, <1>8 DEF Inv

\* Every step keeps the invariant.
LEMMA NextInv == Inv /\ [Next]_vars => Inv'
BY ReturnAsIsInv, BeginInv, OpenStateInv, MoveSymbolInv, MoveArcInv, EndStateInv, StutterInv
   DEF Next

-----------------------------------------------------------------------------

\* The numbers in the tables of fsm_subset always belong to sets that exist.
THEOREM TypeCorrect == Spec => []TypeOK
<1>1. Inv => TypeOK
  BY DEF Inv
<1> QED
  BY InitInv, NextInv, <1>1, PTL DEF Spec

(***************************************************************************)
(* fsm_subset numbers, pushes and expands every set once, however it comes *)
(* upon it again, and gives every set it has expanded exactly the arcs and *)
(* the finality of the subset construction.                                *)
(***************************************************************************)
THEOREM SubsetConstruction == Spec => []ExpandedExactly
<1>1. Inv => ExpandedExactly
  BY DEF Inv
<1> QED
  BY InitInv, NextInv, <1>1, PTL DEF Spec

-----------------------------------------------------------------------------

\* No arc of the machine built leaves a choice.
NoChoiceYet == \A e1, e2 \in out : e1[1] = e2[1] /\ e1[2] = e2[2] => e1 = e2

(***************************************************************************)
(* The flag is believed only where it is right; the flag and the lookup    *)
(* tell what has been written so far.                                      *)
(***************************************************************************)
FlagSoFar ==
  /\ pc \in {"start", "returned"} => (is_deterministic => NoChoice(net))
  /\ pc \in {"open", "arcs", "closed"} => (is_deterministic <=> NoChoiceYet)
  /\ pc \in {"open", "arcs"} =>
       \A a \in Symbol : last[a] = None => \A e \in out : e[1] = T => e[2] # a

\* fsm_determinize returns nothing that it does not call deterministic: by each symbol
\* it adds one arc.
DeterminizeSoFar ==
  op = "determinize" =>
    /\ pc # "start" => is_deterministic
    /\ pc = "arcs" => \A e \in todo : last[e[2]] = None

\* Adding an arc clears the flag exactly when the arc is a second choice.
LEMMA AddSetFlag ==
  ASSUME Inv, FlagSoFar, pc = "arcs", NEW a \in Symbol, NEW S \in SUBSET State, AddSet(a, S),
         UNCHANGED <<T, pc>>
  PROVE  FlagSoFar'
<1>0. /\ is_deterministic <=> NoChoiceYet
      /\ \A b \in Symbol : last[b] = None => \A e \in out : e[1] = T => e[2] # b
      /\ \A b \in Symbol : last[b] # None => <<T, b, last[b]>> \in out
      /\ is_deterministic \in BOOLEAN
      /\ last \in [Symbol -> {None} \cup 0..current_setnum]
      /\ out \subseteq (0..current_setnum) \X Symbol \X (0..current_setnum)
      /\ current_setnum \in Nat \cup {-1}
  BY DEF FlagSoFar, Inv, TypeOK, ExpandingT
<1>1. PICK U \in Nat : AddArc(a, U)
  <2>1. T \in 0..current_setnum /\ current_setnum \in Nat /\ DOMAIN sets = 0..current_setnum
    BY DEF Inv, TypeOK, ExpandingT
  <2> QED
    BY <2>1 DEF AddSet
<1>2. U # None
  BY DEF None
<1>3. CASE last[a] = U
  BY <1>0, <1>1, <1>3 DEF AddArc, FlagSoFar, NoChoiceYet
<1>4. CASE last[a] # U
  <2>1. /\ last' = [last EXCEPT ![a] = U]
        /\ out' = out \cup {<<T, a, U>>}
        /\ is_deterministic' = (is_deterministic /\ last[a] = None)
    BY <1>1, <1>4 DEF AddArc
  <2>2. \A b \in Symbol : last'[b] = None => \A e \in out' : e[1] = T => e[2] # b
    BY <1>0, <1>2, <2>1
  <2>3. CASE last[a] = None
    <3>1. \A e \in out : ~ (e[1] = T /\ e[2] = a)
      BY <1>0, <2>3
    <3>2. NoChoiceYet' <=> NoChoiceYet
      BY <2>1, <3>1 DEF NoChoiceYet
    <3> QED
      BY <1>0, <2>1, <2>2, <2>3, <3>2 DEF FlagSoFar
  <2>4. CASE last[a] # None
    <3>1. <<T, a, last[a]>> \in out' /\ <<T, a, U>> \in out' /\ <<T, a, last[a]>> # <<T, a, U>>
      BY <1>0, <1>4, <2>1, <2>4
    <3>2. ~ NoChoiceYet'
      BY <3>1 DEF NoChoiceYet
    <3> QED
      BY <1>0, <2>1, <2>2, <2>4, <3>2 DEF FlagSoFar
  <2> QED
    BY <2>3, <2>4
<1> QED
  BY <1>3, <1>4

\* The flag follows what is written from the first set to the last.
LEMMA FlagInv == Inv /\ FlagSoFar /\ [Next]_vars => FlagSoFar'
<1> SUFFICES ASSUME Inv, FlagSoFar, [Next]_vars
             PROVE  FlagSoFar'
  OBVIOUS
<1>1. CASE ReturnAsIs
  <2>1. IsDeterministic(net) => NoChoice(net)
    BY DEF IsDeterministic, NoChoice
  <2> QED
    BY <1>1, <2>1 DEF ReturnAsIs, FlagSoFar
<1>2. CASE Begin
  BY <1>2 DEF Begin, FlagSoFar, NoChoiceYet, Inv, UnmarkedClean
<1>3. CASE OpenState
  BY <1>3 DEF OpenState, FlagSoFar, NoChoiceYet
<1>4. ASSUME NEW a \in Symbol, MoveSymbol(a)
      PROVE  FlagSoFar'
  <2>1. EClose(net, Move(net, sets[T], a)) \in SUBSET State
    BY ECloseFacts DEF Move
  <2> QED
    BY <1>4, <2>1, AddSetFlag DEF MoveSymbol
<1>5. ASSUME NEW e \in todo, MoveArc(e)
      PROVE  FlagSoFar'
  <2>1. e[2] \in Symbol /\ e[3] \in State
    BY <1>5, ArcFacts DEF MoveArc, Inv, ExpandingT, TypeOK
  <2>2. EClose(net, {e[3]}) \in SUBSET State
    BY <2>1, ECloseFacts
  <2> QED
    BY <1>5, <2>1, <2>2, AddSetFlag DEF MoveArc
<1>6. CASE EndState
  <2>1. NoChoiceYet' <=> NoChoiceYet
    BY <1>6 DEF EndState, NoChoiceYet
  <2>2. ASSUME pc' = "open"
        PROVE  \A e \in out' : e[1] # T'
    <3>1. unmarked # <<>> /\ T' = Last(unmarked) /\ out' = out
      BY <1>6, <2>2 DEF EndState
    <3>2. T' \in ToSet(unmarked)
      <4>1. unmarked \in Seq(0..current_setnum)
        BY DEF Inv, TypeOK
      <4>2. unmarked # <<>>
        BY <3>1
      <4>3. ToSet(unmarked) = ToSet(Front(unmarked)) \cup {Last(unmarked)}
        BY <4>1, <4>2, PopFacts
      <4> QED
        BY <3>1, <4>3
    <3> QED
      BY <3>1, <3>2 DEF Inv, UnmarkedClean
  <2> QED
    BY <1>6, <2>1, <2>2 DEF EndState, FlagSoFar
<1>7. CASE UNCHANGED vars
  BY <1>7 DEF vars, FlagSoFar, NoChoiceYet
<1> QED
  BY <1>1, <1>2, <1>3, <1>4, <1>5, <1>6, <1>7 DEF Next

\* fsm_determinize looks at each symbol of a set once.
LEMMA DeterminizeInv == Inv /\ DeterminizeSoFar /\ [Next]_vars => DeterminizeSoFar'
<1> SUFFICES ASSUME Inv, DeterminizeSoFar, [Next]_vars, op' = "determinize"
             PROVE  /\ pc' # "start" => is_deterministic'
                    /\ pc' = "arcs" => \A e \in todo' : last'[e[2]] = None
  BY DEF DeterminizeSoFar
<1>0. op = "determinize"
  BY DEF Next, vars, ReturnAsIs, Begin, OpenState, MoveSymbol, MoveArc, EndState
<1>1. CASE ReturnAsIs
  BY <1>0, <1>1 DEF ReturnAsIs, IsEpsilonFree
<1>2. CASE Begin
  BY <1>2 DEF Begin
<1>3. CASE OpenState
  <2>1. pc = "open" /\ pc' = "arcs" /\ is_deterministic' = is_deterministic /\ last' = last
    BY <1>3 DEF OpenState
  <2>2. last = [a \in Symbol |-> None]
    BY <2>1 DEF Inv, ExpandingT
  <2>3. \A e \in todo' : e[2] \in Symbol
    BY <1>3, ArcFacts DEF OpenState, Inv
  <2> QED
    BY <1>0, <2>1, <2>2, <2>3 DEF DeterminizeSoFar
<1>4. ASSUME NEW a \in Symbol, MoveSymbol(a)
      PROVE  is_deterministic' /\ \A e \in todo' : last'[e[2]] = None
  <2>1. /\ pc = "arcs" /\ todo' = {e \in todo : e[2] # a}
        /\ AddSet(a, EClose(net, Move(net, sets[T], a)))
        /\ \E e \in todo : e[2] = a
    BY <1>4 DEF MoveSymbol, minsym
  <2>2. /\ is_deterministic /\ last[a] = None
        /\ \A e \in todo : last[e[2]] = None
    BY <1>0, <2>1 DEF DeterminizeSoFar
  <2>3. PICK U \in Nat : AddArc(a, U)
    <3>1. T \in 0..current_setnum /\ current_setnum \in Nat /\ DOMAIN sets = 0..current_setnum
      BY <2>1 DEF Inv, TypeOK, ExpandingT
    <3> QED
      BY <2>1, <3>1 DEF AddSet
  <2>4. U # None
    BY DEF None
  <2>5. is_deterministic' /\ last' = [last EXCEPT ![a] = U]
    BY <2>2, <2>3, <2>4 DEF AddArc
  <2> QED
    BY <2>1, <2>2, <2>5
<1>5. ASSUME NEW e \in todo, MoveArc(e)
      PROVE  FALSE
  BY <1>0, <1>5 DEF MoveArc
<1>6. CASE EndState
  BY <1>0, <1>6 DEF EndState, DeterminizeSoFar
<1>7. CASE UNCHANGED vars
  BY <1>0, <1>7 DEF vars, DeterminizeSoFar
<1> QED
  BY <1>1, <1>2, <1>3, <1>4, <1>5, <1>6, <1>7 DEF Next

(***************************************************************************)
(* The flag is_deterministic of the machine that fsm_subset returns, on    *)
(* which later calls return early, is never set when there is a choice,    *)
(* whichever way it returns; fsm_determinize always sets it, and of a      *)
(* machine built it is exact.                                              *)
(***************************************************************************)
THEOREM FlagExact == Spec => []FlagIsRight
<1>1. Init => FlagSoFar /\ DeterminizeSoFar
  BY DEF Init, FlagSoFar, DeterminizeSoFar
<1>2. Inv /\ FlagSoFar /\ DeterminizeSoFar => FlagIsRight
  <2> SUFFICES ASSUME Inv, FlagSoFar, DeterminizeSoFar
               PROVE  FlagIsRight
    OBVIOUS
  <2>1. CASE pc = "returned"
    BY <2>1 DEF FlagIsRight, FlagSoFar, DeterminizeSoFar, Result
  <2>2. CASE pc = "closed"
    <3>1. Result.arcs = out /\ Result.start = {0}
      BY <2>2 DEF Result
    <3>2. \A e \in out : e[2] # Epsilon
      BY SubsetAssumption DEF Inv, TypeOK
    <3>3. is_deterministic <=> NoChoiceYet
      BY <2>2 DEF FlagSoFar
    <3>4. ~ HasEpsilon(Result)
      BY <3>1, <3>2 DEF HasEpsilon
    <3>5. deterministic(Result) <=> NoChoiceYet
      BY <3>1, <3>2 DEF deterministic, NoChoiceYet
    <3>6. NoChoice(Result) <=> NoChoiceYet
      BY <3>1, <3>4, <3>5 DEF NoChoice
    <3> QED
      BY <2>2, <3>3, <3>6 DEF FlagIsRight, DeterminizeSoFar
  <2>3. CASE pc \notin {"returned", "closed"}
    BY <2>3 DEF FlagIsRight
  <2> QED
    BY <2>1, <2>2, <2>3
<1> QED
  BY InitInv, NextInv, FlagInv, DeterminizeInv, <1>1, <1>2, PTL DEF Spec

-----------------------------------------------------------------------------

\* A set of natural numbers that is not empty has a least member.
LEMMA LeastMember ==
  ASSUME NEW N \in SUBSET Nat, N # {}
  PROVE  \E x \in N : \A y \in N : x <= y
<1> DEFINE R == {p \in Nat \X Nat : p[1] < p[2]}
<1>1. IsWellFoundedOn(R, Nat)
  BY NatLessThanWellFounded DEF OpToRel
<1>2. PICK x \in N : \A y \in N : ~ (<<y, x>> \in R)
  BY <1>1, WFMin
<1>3. \A y \in N : ~ (y < x)
  BY <1>2
<1>4. \A y \in N : x <= y
  BY <1>3
<1> QED
  BY <1>4

\* Reading a word is defined from one symbol to the next.
LEMMA ReadingFacts ==
  ASSUME NEW m, NEW S, NEW w \in Seq(Symbol)
  PROVE  /\ Reading(m, S, w)[0] = Closure(m, S, m.start)
         /\ \A k \in 1..Len(w) :
              Reading(m, S, w)[k] = Step(m, S, Reading(m, S, w)[k - 1], w[k])
<1> DEFINE Is(n, f) == f = [k \in 0..n |-> IF k = 0 THEN Closure(m, S, m.start)
                                           ELSE Step(m, S, f[k - 1], w[k])]
           Bad == {n \in Nat : ~ \E f : Is(n, f)}
<1>1. Bad = {}
  <2>1. SUFFICES ASSUME Bad # {}
                 PROVE  FALSE
    OBVIOUS
  <2>2. PICK n \in Bad : \A y \in Bad : n <= y
    BY <2>1, LeastMember
  <2>3. CASE n = 0
    <3>1. Is(0, [k \in 0..0 |-> Closure(m, S, m.start)])
      OBVIOUS
    <3> QED
      BY <2>3, <3>1
  <2>4. CASE n # 0
    <3>0. n \in Nat /\ (n - 1 \in Bad => n <= n - 1)
      BY <2>2
    <3>1. n - 1 \in Nat /\ n - 1 \notin Bad
      BY <2>4, <3>0
    <3>2. PICK f : Is(n - 1, f)
      BY <3>1
    <3> DEFINE g == [k \in 0..n |-> IF k = n THEN Step(m, S, f[n - 1], w[n]) ELSE f[k]]
    <3>3. ASSUME NEW k \in 0..n
          PROVE  g[k] = IF k = 0 THEN Closure(m, S, m.start) ELSE Step(m, S, g[k - 1], w[k])
      <4>1. CASE k = n
        BY <2>4, <3>1, <4>1
      <4>2. CASE k # n
        <5>1. k \in 0..(n - 1)
          BY <4>2
        <5>2. f[k] = IF k = 0 THEN Closure(m, S, m.start) ELSE Step(m, S, f[k - 1], w[k])
          BY <3>2, <5>1
        <5>3. k # 0 => k - 1 \in 0..n /\ k - 1 # n
          OBVIOUS
        <5> QED
          BY <4>2, <5>2, <5>3
      <4> QED
        BY <4>1, <4>2
    <3>4. Is(n, g)
      BY <3>3
    <3> QED
      BY <2>2, <3>4
  <2> QED
    BY <2>3, <2>4
<1>2. Len(w) \in Nat
  OBVIOUS
<1>3. \E f : Is(Len(w), f)
  BY <1>1, <1>2
<1>4. Is(Len(w), Reading(m, S, w))
  BY <1>3 DEF Reading
<1> HIDE DEF Bad
<1> QED
  BY <1>2, <1>4

-----------------------------------------------------------------------------

\* A closure of the input is closed, and within every closed set that holds its states.
LEMMA EClosed ==
  ASSUME NEW X \in SUBSET State
  PROVE  /\ \A e \in net.arcs : TypeOK /\ e[2] = Epsilon /\ e[1] \in EClose(net, X)
                                  => e[3] \in EClose(net, X)
         /\ \A Y \in SUBSET State :
              X \subseteq Y /\ (\A e \in net.arcs : e[2] = Epsilon /\ e[1] \in Y => e[3] \in Y)
                => EClose(net, X) \subseteq Y
  BY ArcFacts DEF EClose

\* The closure of a union is the union of the closures.
LEMMA ECloseUnion ==
  ASSUME TypeOK, NEW F, F \subseteq SUBSET State
  PROVE  EClose(net, UNION F) = UNION {EClose(net, X) : X \in F}
<1> DEFINE Z == UNION {EClose(net, X) : X \in F}
<1>1. UNION F \in SUBSET State
  OBVIOUS
<1>2. \A X \in F : X \subseteq EClose(net, X) /\ EClose(net, X) \subseteq State
  BY ECloseFacts
<1>3. Z \in SUBSET State /\ UNION F \subseteq Z
  BY <1>2
<1>4. ASSUME NEW e \in net.arcs, e[2] = Epsilon, e[1] \in Z
      PROVE  e[3] \in Z
  <2>1. PICK X \in F : e[1] \in EClose(net, X)
    BY <1>4
  <2>2. e[3] \in EClose(net, X)
    BY <1>4, <2>1, EClosed
  <2> QED
    BY <2>2
<1>5. EClose(net, UNION F) \subseteq Z
  <2> HIDE DEF Z
  <2> QED
    BY <1>1, <1>3, <1>4, EClosed
<1>6. ASSUME NEW X \in F
      PROVE  EClose(net, X) \subseteq EClose(net, UNION F)
  <2>1. X \subseteq EClose(net, UNION F) /\ EClose(net, UNION F) \in SUBSET State
    BY <1>1, ECloseFacts
  <2>2. \A e \in net.arcs : e[2] = Epsilon /\ e[1] \in EClose(net, UNION F)
          => e[3] \in EClose(net, UNION F)
    BY <1>1, EClosed
  <2> QED
    BY <2>1, <2>2, EClosed
<1> QED
  BY <1>5, <1>6

\* At the end every set has been expanded.
LEMMA BuiltAll ==
  ASSUME Inv, pc = "closed"
  PROVE  \A U \in DOMAIN sets : U \in ToSet(built)
<1>1. DOMAIN sets = 0..current_setnum
  BY DEF Inv, TypeOK
<1>2. ToSet(unmarked) = {} /\ AtHand = {}
  BY DEF Inv, UnmarkedClean, ToSet, AtHand
<1> QED
  BY <1>1, <1>2 DEF Inv, ExpandedExactly, EachOnce

\* In the machine built a symbol leads from the sets of a collection to sets that
\* make up where it leads in the input.
LEMMA StepOfSets ==
  ASSUME Inv, pc = "closed", NEW Y \in SUBSET (DOMAIN sets), NEW a \in Symbol
  PROVE  Step(net, State, UNION {sets[U] : U \in Y}, a)
           = UNION {sets[W] : W \in {V \in DOMAIN sets : \E U \in Y : <<U, a, V>> \in out}}
<1> DEFINE X == UNION {sets[U] : U \in Y}
           After1 == {V \in DOMAIN sets : \E U \in Y : <<U, a, V>> \in out}
           M(U) == Move(net, sets[U], a)
<1>0. /\ TypeOK
      /\ sets \in [0..current_setnum -> SUBSET State]
      /\ DOMAIN sets = 0..current_setnum
      /\ op \in {"determinize", "epsilon_remove"}
  BY DEF Inv, TypeOK
<1>1. \A U \in Y : U \in ToSet(built)
  BY <1>0, BuiltAll
<1>2. \A U \in Y : Targets(U, a) = Successors(sets[U], a)
  BY <1>1 DEF Inv, ExpandedExactly
<1>3. UNION {sets[W] : W \in After1} = UNION {UNION Targets(U, a) : U \in Y}
  <2>1. ASSUME NEW W \in After1, NEW s \in sets[W]
        PROVE  \E U \in Y : s \in UNION Targets(U, a)
    BY <2>1 DEF Targets
  <2>2. ASSUME NEW U \in Y, NEW s \in UNION Targets(U, a)
        PROVE  \E W \in After1 : s \in sets[W]
    BY <2>2 DEF Targets
  <2> QED
    BY <2>1, <2>2
<1>4. \A U \in Y : M(U) \in SUBSET State
  BY DEF Move
<1>5. ASSUME NEW U \in Y
      PROVE  UNION Successors(sets[U], a) = EClose(net, M(U))
  <2>1. CASE op = "determinize"
    BY <2>1 DEF Successors
  <2>2. CASE op = "epsilon_remove"
    <3> DEFINE F == {{t} : t \in M(U)}
    <3>1. F \subseteq SUBSET State /\ UNION F = M(U)
      BY <1>4
    <3>2. EClose(net, M(U)) = UNION {EClose(net, Z) : Z \in F}
      BY <1>0, <3>1, ECloseUnion
    <3>3. Successors(sets[U], a) = {EClose(net, {t}) : t \in M(U)}
      BY <2>2 DEF Successors
    <3> QED
      BY <3>2, <3>3
  <2> QED
    BY <1>0, <2>1, <2>2
<1>6. UNION {sets[W] : W \in After1} = UNION {EClose(net, M(U)) : U \in Y}
  BY <1>2, <1>3, <1>5
<1>7. Step(net, State, X, a) = EClose(net, UNION {M(U) : U \in Y})
  <2>1. {t \in State : \E s \in X : <<s, a, t>> \in net.arcs} = UNION {M(U) : U \in Y}
    <3>1. ASSUME NEW t \in State, NEW s \in X, <<s, a, t>> \in net.arcs
          PROVE  \E U \in Y : t \in M(U)
      BY <3>1 DEF Move
    <3>2. ASSUME NEW U \in Y, NEW t \in M(U)
          PROVE  t \in State /\ \E s \in X : <<s, a, t>> \in net.arcs
      BY DEF Move
    <3> HIDE DEF X, M
    <3> QED
      BY <3>1, <3>2
  <2> QED
    BY <2>1 DEF Step, Closure, EClose
<1>8. EClose(net, UNION {M(U) : U \in Y}) = UNION {EClose(net, M(U)) : U \in Y}
  <2>1. {M(U) : U \in Y} \subseteq SUBSET State
    BY <1>4
  <2>2. EClose(net, UNION {M(U) : U \in Y}) = UNION {EClose(net, Z) : Z \in {M(U) : U \in Y}}
    <3> HIDE DEF M
    <3> QED
      BY <1>0, <2>1, ECloseUnion
  <2> HIDE DEF M
  <2> QED
    BY <2>2
<1> QED
  BY <1>6, <1>7, <1>8

\* The machine built has no epsilon arcs, so its states are closed as they are.
LEMMA ResultClosed ==
  ASSUME Inv, pc = "closed", NEW X \in SUBSET (DOMAIN sets)
  PROVE  Closure(Result, DOMAIN sets, X) = X
<1>1. Result.arcs = out
  BY DEF Result
<1>2. \A e \in out : e[2] # Epsilon
  BY SubsetAssumption DEF Inv, TypeOK
<1> QED
  BY <1>1, <1>2 DEF Closure

\* The sets of the machine built after a word make up the states of the input after it.
LEMMA SameAfter ==
  ASSUME Inv, pc = "closed", NEW w \in Seq(Symbol)
  PROVE  /\ After(Result, DOMAIN sets, w) \in SUBSET (DOMAIN sets)
         /\ After(net, State, w) = UNION {sets[U] : U \in After(Result, DOMAIN sets, w)}
<1> DEFINE in == Reading(net, State, w)
           ot == Reading(Result, DOMAIN sets, w)
           Same(k) == /\ ot[k] \in SUBSET (DOMAIN sets)
                      /\ in[k] = UNION {sets[U] : U \in ot[k]}
           Bad == {k \in 0..Len(w) : ~ Same(k)}
<1>0. /\ DOMAIN sets = 0..current_setnum /\ 0 \in DOMAIN sets
      /\ sets[0] = EClose(net, net.start)
      /\ Result.arcs = out /\ Result.start = {0}
  BY DEF Inv, TypeOK, UnmarkedClean, ExpandedExactly, Result
<1>1. Same(0)
  <2>1. ot[0] = {0}
    <3>1. ot[0] = Closure(Result, DOMAIN sets, {0})
      BY <1>0, ReadingFacts
    <3> QED
      BY <1>0, <3>1, ResultClosed
  <2>2. in[0] = EClose(net, net.start)
    BY ReadingFacts DEF Closure, EClose
  <2> HIDE DEF in, ot
  <2> QED
    BY <1>0, <2>1, <2>2
<1>2. ASSUME NEW k \in 1..Len(w), Same(k - 1)
      PROVE  Same(k)
  <2>1. w[k] \in Symbol
    OBVIOUS
  <2> DEFINE Y == ot[k - 1]
             Z == {V \in DOMAIN sets : \E U \in Y : <<U, w[k], V>> \in out}
  <2>2. ot[k] = Z
    <3>0. ot[k] = Step(Result, DOMAIN sets, Y, w[k])
      BY ReadingFacts
    <3> HIDE DEF Y, ot
    <3>1. ot[k] = Closure(Result, DOMAIN sets, Z)
      BY <1>0, <3>0 DEF Step
    <3>2. Z \in SUBSET (DOMAIN sets)
      OBVIOUS
    <3> HIDE DEF Z
    <3> QED
      BY <3>1, <3>2, ResultClosed
  <2>3. in[k] = Step(net, State, in[k - 1], w[k])
    BY ReadingFacts
  <2>4. Y \in SUBSET (DOMAIN sets) /\ in[k - 1] = UNION {sets[U] : U \in Y}
    BY <1>2
  <2> HIDE DEF in, ot, Y
  <2>5. in[k] = UNION {sets[W] : W \in Z}
    BY <2>1, <2>3, <2>4, StepOfSets
  <2> QED
    BY <2>2, <2>5
<1>3. Len(w) \in Nat
  OBVIOUS
<1> HIDE DEF Same
<1>4. Bad = {}
  <2>1. SUFFICES ASSUME Bad # {}
                 PROVE  FALSE
    OBVIOUS
  <2>2. Bad \in SUBSET Nat
    BY <1>3
  <2>3. PICK k \in Bad : \A j \in Bad : k <= j
    BY <2>1, <2>2, LeastMember
  <2>4. k \in 0..Len(w) /\ ~ Same(k) /\ (k - 1 \in Bad => k <= k - 1)
    BY <2>3
  <2>5. k # 0
    BY <1>1, <2>4
  <2>6. k \in 1..Len(w) /\ k - 1 \in 0..Len(w) /\ k - 1 \notin Bad
    BY <1>3, <2>4, <2>5
  <2> QED
    BY <1>2, <2>4, <2>6
<1>5. Same(Len(w))
  BY <1>3, <1>4
<1> QED
  BY <1>5 DEF Same, After

(***************************************************************************)
(* fsm_determinize and fsm_epsilon_remove accept the words that their      *)
(* input accepts, whatever its size and however long the word.             *)
(***************************************************************************)
THEOREM LanguagePreserved == Spec => []LanguageKept
<1>1. Inv => LanguageKept
  <2> SUFFICES ASSUME Inv, pc \in {"returned", "closed"}, NEW w \in Words
               PROVE  After(net, State, w) \cap net.final # {} <=>
                        After(Result, IF pc = "returned" THEN State ELSE DOMAIN sets, w)
                          \cap Result.final # {}
    BY DEF LanguageKept
  <2>1. CASE pc = "returned"
    BY <2>1 DEF Result
  <2>2. CASE pc = "closed"
    <3> DEFINE Y == After(Result, DOMAIN sets, w)
    <3>1. w \in Seq(Symbol)
      BY SubsetAssumption
    <3>2. Y \in SUBSET (DOMAIN sets) /\ After(net, State, w) = UNION {sets[U] : U \in Y}
      BY <2>2, <3>1, SameAfter
    <3>3. \A U \in Y : U \in outfinal <=> sets[U] \cap net.final # {}
      <4>1. \A U \in DOMAIN sets : U \in ToSet(built)
        BY <2>2, BuiltAll
      <4> QED
        BY <2>2, <3>2, <4>1 DEF Inv, ExpandedExactly
    <3>4. Result.final = outfinal
      BY <2>2 DEF Result
    <3> HIDE DEF Y
    <3>5. After(net, State, w) \cap net.final # {} <=> Y \cap outfinal # {}
      BY <3>2, <3>3
    <3> QED
      BY <2>2, <3>4, <3>5 DEF Y
  <2> QED
    BY <2>1, <2>2
<1> QED
  BY InitInv, NextInv, <1>1, PTL DEF Spec
=============================================================================
