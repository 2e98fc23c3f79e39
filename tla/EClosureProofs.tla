--------------------------- MODULE EClosureProofs ---------------------------
(***************************************************************************)
(* e_closure computes epsilon closures whatever its tables hold from       *)
(* earlier calls: the proof, for machines of any size and any calls.       *)
(*                                                                         *)
(* The heart of it is Stamps (between two calls no stamp equals mainloop,  *)
(* so that during a call each stamp that does was set in it) and Pending   *)
(* (a state pushed is followed or still waits, so that at the end the set  *)
(* is closed under the epsilon arcs).                                      *)
(***************************************************************************)
EXTENDS EClosure, FiniteSetTheorems, TLAPS

-----------------------------------------------------------------------------

\* No stamp is from the future; between two calls all are from the past.
Stamps ==
  /\ mainloop \in Nat \ {0}
  /\ e_table \in [State -> Nat] /\ marktable \in [State -> Nat] /\ mark \in [State -> Nat]
  /\ \A s \in State : /\ e_table[s] <= mainloop /\ marktable[s] <= mainloop
                      /\ mark[s] <= mainloop
  /\ \A s \in State : pc = "caller" =>
       e_table[s] # mainloop /\ marktable[s] # mainloop /\ mark[s] # mainloop

\* The buffer, with each state once; the stack is empty between calls.
Buffer ==
  /\ eps \subseteq State \X State
  /\ temp_move \in Seq(State) /\ ptr_stack \in Seq(State)
  /\ states \in Nat /\ states <= Len(temp_move) /\ i \in 1..(states + 1)
  /\ \A a, b \in DOMAIN temp_move : temp_move[a] = temp_move[b] => a = b
  /\ pc \in {"caller", "closure"}
  /\ pc = "caller" => ptr_stack = <<>>

InBuffer(s) == \E k \in DOMAIN temp_move : temp_move[k] = s
Waits(s) == \E k \in DOMAIN ptr_stack : ptr_stack[k] = s
Followed(s) == marktable[s] = mainloop

\* During a call the stamps in e_table mark the members, which the arcs lead to.
Members ==
  pc = "closure" =>
    /\ \A s \in State : e_table[s] = mainloop <=> InBuffer(s)
    /\ \A s \in State : InBuffer(s) \/ Waits(s) => s \in Closure(Moved)

\* What is pushed is followed or waits; the targets of a state followed are pushed, and
\* every member is followed, waits, leads nowhere or is still to be pushed.
Pending ==
  pc = "closure" =>
    /\ \A s \in State : mark[s] = mainloop => Followed(s) \/ Waits(s)
    /\ \A s \in State : Followed(s) => InBuffer(s) /\ \A t \in Targets(s) : mark[t] = mainloop
    /\ \A k \in DOMAIN temp_move :
         \/ k >= i /\ k <= states
         \/ Targets(temp_move[k]) = {} \/ Followed(temp_move[k]) \/ Waits(temp_move[k])

\* The sets stored, each once; the number returned is that of the closure asked for.
Stored ==
  /\ sets \in Seq(SUBSET State)
  /\ calls \in Nat /\ ret \in 0..Len(sets)
  /\ \A m, n \in DOMAIN sets : sets[m] = sets[n] => m = n
  /\ pc = "caller" /\ calls > 0 => ret \in DOMAIN sets /\ sets[ret] = Closure(Moved)

ClosureInv == Stamps /\ Buffer /\ Members /\ Pending /\ Stored

-----------------------------------------------------------------------------

\* A finite set as a sequence: each member once.
LEMMA Listed ==
  ASSUME NEW S \in SUBSET State
  PROVE  /\ Cardinality(S) \in Nat
         /\ SetToSeq(S) \in [1..Cardinality(S) -> S]
         /\ SetToSeq(S) \in Seq(State) /\ Len(SetToSeq(S)) = Cardinality(S)
         /\ \A a, b \in 1..Cardinality(S) : SetToSeq(S)[a] = SetToSeq(S)[b] => a = b
         /\ \A s \in S : \E k \in 1..Cardinality(S) : SetToSeq(S)[k] = s
  <1> DEFINE n == Cardinality(S)
             f == SetToSeq(S)
  <1>1. IsFiniteSet(S) /\ n \in Nat /\ ExistsBijection(1..n, S)
    BY EClosureAssumption, FS_Subset, FS_CardinalityType
  <1>2. \E g \in [1..n -> S] : IsInjective(g)
    BY <1>1 DEF ExistsBijection, Bijection, Injection
  <1>3. f \in [1..n -> S] /\ IsInjective(f)
    BY <1>2 DEF SetToSeq
  <1>4. IsFiniteSet(1..n) /\ Cardinality(1..n) = n
    BY <1>1, FS_Interval
  <1>5. f \in Surjection(1..n, S)
    BY <1>1, <1>3, <1>4, FS_Injection DEF Injection
  <1>6. \A s \in S : \E k \in 1..n : f[k] = s
    BY <1>5 DEF Surjection
  <1> HIDE DEF f
  <1>7. f \in Seq(State) /\ Len(f) = n
    BY <1>1, <1>3
  <1>8. \A a, b \in 1..n : f[a] = f[b] => a = b
    BY <1>3 DEF IsInjective
  <1> QED BY <1>1, <1>3, <1>6, <1>7, <1>8 DEF f

\* Any order of a finite set holds its members and no others.
LEMMA Ordered ==
  ASSUME NEW S \in SUBSET State, NEW f \in SetToSeqs(S)
  PROVE  /\ f \in Seq(State)
         /\ \A k \in DOMAIN f : f[k] \in S
         /\ \A s \in S : \E k \in DOMAIN f : f[k] = s
  <1> DEFINE n == Cardinality(S)
  <1>1. IsFiniteSet(S) /\ n \in Nat
    BY EClosureAssumption, FS_Subset, FS_CardinalityType
  <1>2. f \in [1..n -> S] /\ \A a, b \in 1..n : a # b => f[a] # f[b]
    BY DEF SetToSeqs
  <1>3. f \in Injection(1..n, S)
    BY <1>2 DEF Injection, IsInjective
  <1>4. IsFiniteSet(1..n) /\ Cardinality(1..n) = n
    BY <1>1, FS_Interval
  <1>5. f \in Surjection(1..n, S)
    BY <1>1, <1>3, <1>4, FS_Injection
  <1>6. \A s \in S : \E k \in 1..n : f[k] = s
    BY <1>5 DEF Surjection
  <1> HIDE DEF n
  <1> QED BY <1>1, <1>2, <1>6

\* A sequence without repetitions is as long as the set of its elements.
LEMMA BufferSize ==
  ASSUME NEW f \in Seq(State), \A a, b \in DOMAIN f : f[a] = f[b] => a = b
  PROVE  /\ Range(f) \subseteq State /\ IsFiniteSet(Range(f))
         /\ Cardinality(Range(f)) = Len(f) /\ Len(f) <= Cardinality(State)
  <1> DEFINE n == Len(f)
             R == Range(f)
  <1>1. n \in Nat /\ DOMAIN f = 1..n /\ IsFiniteSet(1..n) /\ Cardinality(1..n) = n
    <2>1. n \in Nat /\ DOMAIN f = 1..n OBVIOUS
    <2> QED BY <2>1, FS_Interval
  <1>2. R \in SUBSET State /\ IsFiniteSet(R)
    <2>1. R \in SUBSET State BY DEF Range
    <2> QED BY <2>1, EClosureAssumption, FS_Subset
  <1>3. f \in Injection(1..n, R) /\ f \in Surjection(1..n, R)
    BY <1>1 DEF Range, Injection, Surjection, IsInjective
  <1>4. Cardinality(1..n) = Cardinality(R)
    BY <1>2, <1>3, FS_Injection
  <1>5. Cardinality(R) <= Cardinality(State)
    BY <1>2, EClosureAssumption, FS_Subset
  <1> QED BY <1>1, <1>2, <1>4, <1>5

\* What the closure of a set is: it contains the set, is closed, and is the least such.
LEMMA ClosureFacts ==
  ASSUME eps \subseteq State \X State, NEW S \in SUBSET State
  PROVE  /\ Closure(S) \in SUBSET State /\ S \subseteq Closure(S)
         /\ \A s \in Closure(S) : Targets(s) \subseteq Closure(S)
         /\ \A X \in SUBSET State :
              S \subseteq X /\ (\A s \in X : Targets(s) \subseteq X) => Closure(S) \subseteq X
  <1>1. Closure(S) \in SUBSET State /\ S \subseteq Closure(S)
    BY DEF Closure
  <1>2. ASSUME NEW s \in Closure(S), NEW t \in Targets(s)
        PROVE  t \in Closure(S)
    <2>1. <<s, t>> \in eps /\ t \in State BY <1>2 DEF Targets
    <2>2. ASSUME NEW X \in SUBSET State, S \subseteq X, \A e \in eps : e[1] \in X => e[2] \in X
          PROVE  t \in X
      <3>1. s \in X BY <2>2 DEF Closure
      <3> QED BY <2>1, <2>2, <3>1
    <2> QED BY <2>1, <2>2 DEF Closure
  <1>3. ASSUME NEW X \in SUBSET State, S \subseteq X, \A s \in X : Targets(s) \subseteq X
        PROVE  Closure(S) \subseteq X
    <2>1. \A e \in eps : e[1] \in X => e[2] \in X
      <3> SUFFICES ASSUME NEW e \in eps, e[1] \in X PROVE e[2] \in X
        OBVIOUS
      <3>1. e[2] \in State /\ <<e[1], e[2]>> \in eps OBVIOUS
      <3> QED BY <3>1, <1>3 DEF Targets
    <2> QED BY <1>3, <2>1 DEF Closure
  <1> QED BY <1>1, <1>2, <1>3

-----------------------------------------------------------------------------

LEMMA CollectKeeps ==
  ASSUME ClosureInv, NEW S \in (SUBSET State) \ {{}}, Collect(S)
  PROVE  ClosureInv'
  <1> DEFINE n == Cardinality(S)
  <1>1. /\ pc = "caller" /\ pc' = "closure" /\ temp_move' = SetToSeq(S) /\ states' = n
        /\ e_table' = [s \in State |-> IF s \in S THEN mainloop ELSE e_table[s]]
        /\ i' = 1 /\ calls' = calls + 1
        /\ UNCHANGED <<eps, mainloop, marktable, mark, ptr_stack, sets, ret>>
    BY DEF Collect
  <1>2. /\ n \in Nat /\ temp_move' \in [1..n -> S] /\ temp_move' \in Seq(State)
        /\ Len(temp_move') = n /\ DOMAIN temp_move' = 1..n
        /\ \A a, b \in 1..n : temp_move'[a] = temp_move'[b] => a = b
        /\ \A s \in S : \E k \in 1..n : temp_move'[k] = s
    BY <1>1, Listed
  <1> HIDE DEF n
  <1>3. Stamps /\ Buffer /\ Stored
    BY DEF ClosureInv
  <1>4. Stamps' BY <1>1, <1>3 DEF Stamps
  <1>5. Buffer' BY <1>1, <1>2, <1>3 DEF Buffer
  <1>6. \A s \in State : InBuffer(s)' <=> s \in S BY <1>2 DEF InBuffer
  <1>7. \A s \in State : ~Waits(s)' BY <1>1, <1>3 DEF Waits, Buffer
  <1>8. Members'
    <2>1. Moved' = S BY <1>1, <1>2 DEF Moved
    <2>2. S \subseteq Closure(S) BY <1>3, ClosureFacts DEF Buffer
    <2>3. Closure(Moved)' = Closure(S) BY <1>1, <2>1 DEF Closure
    <2>4. \A s \in State : e_table'[s] = mainloop' <=> s \in S
      BY <1>1, <1>3 DEF Stamps
    <2> QED BY <1>1, <1>6, <1>7, <2>2, <2>3, <2>4 DEF Members
  <1>9. Pending'
    <2>1. \A s \in State : mark'[s] # mainloop' /\ ~Followed(s)'
      BY <1>1, <1>3 DEF Stamps, Followed
    <2>2. \A k \in DOMAIN temp_move' : k >= i' /\ k <= states'
      BY <1>1, <1>2
    <2> QED BY <2>1, <2>2 DEF Pending
  <1>10. Stored' BY <1>1, <1>3 DEF Stored
  <1> QED BY <1>4, <1>5, <1>8, <1>9, <1>10 DEF ClosureInv

LEMMA FollowKeeps ==
  ASSUME ClosureInv, Follow PROVE ClosureInv'
  <1> DEFINE s0 == temp_move[i]
  <1>1. /\ pc = "closure" /\ ptr_stack = <<>> /\ i <= states /\ i' = i + 1
        /\ ptr_stack' = IF Targets(s0) = {} THEN ptr_stack ELSE <<s0>>
        /\ UNCHANGED <<eps, mainloop, e_table, marktable, mark, temp_move, states, sets,
                       ret, calls, pc>>
    BY DEF Follow
  <1>2. Stamps /\ Buffer /\ Members /\ Pending /\ Stored BY DEF ClosureInv
  <1>3. i \in DOMAIN temp_move /\ s0 \in State /\ InBuffer(s0)
    BY <1>1, <1>2 DEF Buffer, InBuffer
  <1> HIDE DEF s0
  <1>4. Stamps' /\ Stored' /\ Moved' = Moved
    <2>1. Moved' = Moved BY <1>1 DEF Moved
    <2> QED BY <1>1, <1>2, <2>1 DEF Stamps, Stored
  <1>5. Buffer'
    <2>1. ptr_stack' \in Seq(State) BY <1>1, <1>2, <1>3 DEF Buffer
    <2>2. i' \in 1..(states' + 1) BY <1>1, <1>2 DEF Buffer
    <2> QED BY <1>1, <1>2, <2>1, <2>2 DEF Buffer
  <1>6. \A t \in State : /\ InBuffer(t)' <=> InBuffer(t) 
                         /\ Followed(t)' <=> Followed(t)
                         /\ Targets(t)' = Targets(t)
    BY <1>1 DEF InBuffer, Followed, Targets
  <1>7. \A t \in State : /\ ~Waits(t)
                         /\ Waits(t)' <=> t = s0 /\ Targets(s0) # {}
    <2>1. DOMAIN <<>> = {} /\ DOMAIN <<s0>> = {1} /\ <<s0>>[1] = s0 OBVIOUS
    <2> QED BY <1>1, <2>1 DEF Waits
  <1>8. Members'
    <2>1. Closure(Moved)' = Closure(Moved) BY <1>1, <1>4 DEF Closure
    <2> QED BY <1>1, <1>2, <1>3, <1>6, <1>7, <2>1 DEF Members
  <1>9. Pending'
    <2>1. \A t \in State : mark'[t] = mainloop' => Followed(t)' \/ Waits(t)'
      BY <1>1, <1>2, <1>6, <1>7 DEF Pending
    <2>2. \A t \in State : Followed(t)' => InBuffer(t)' /\ \A u \in Targets(t)' : mark'[u] = mainloop'
      BY <1>1, <1>2, <1>6 DEF Pending
    <2>3. ASSUME NEW k \in DOMAIN temp_move'
          PROVE  \/ k >= i' /\ k <= states'
                 \/ (Targets(temp_move[k]) = {})' \/ Followed(temp_move[k])' \/ Waits(temp_move[k])'
      <3>1. k \in DOMAIN temp_move /\ temp_move'[k] = temp_move[k] /\ temp_move[k] \in State /\ k \in Nat
        BY <1>1, <1>2 DEF Buffer
      <3>2. CASE k = i BY <1>1, <1>6, <1>7, <3>1, <3>2 DEF s0
      <3>3. CASE k # i
        <4>1. k >= i => k >= i' BY <1>1, <1>2, <3>1, <3>3 DEF Buffer
        <4> QED BY <1>1, <1>2, <1>6, <1>7, <3>1, <4>1 DEF Pending
      <3> QED BY <3>2, <3>3
    <2> QED BY <2>1, <2>2, <2>3 DEF Pending
  <1> QED BY <1>4, <1>5, <1>8, <1>9 DEF ClosureInv

LEMMA SeenKeeps ==
  ASSUME ClosureInv, Seen PROVE ClosureInv'
  <1> DEFINE s == Head(ptr_stack)
  <1>1. /\ pc = "closure" /\ ptr_stack # <<>> /\ Followed(s) /\ ptr_stack' = Tail(ptr_stack)
        /\ UNCHANGED <<eps, mainloop, e_table, marktable, mark, temp_move, states, i, sets,
                       ret, calls, pc>>
    BY DEF Seen, Followed
  <1>2. Stamps /\ Buffer /\ Members /\ Pending /\ Stored BY DEF ClosureInv
  <1>3. Stamps' /\ Buffer' /\ Stored' /\ Moved' = Moved
    <2>1. Moved' = Moved BY <1>1 DEF Moved
    <2>2. ptr_stack' \in Seq(State) BY <1>1, <1>2 DEF Buffer
    <2> QED BY <1>1, <1>2, <2>1, <2>2 DEF Stamps, Buffer, Stored
  <1>4. \A t \in State : /\ InBuffer(t)' <=> InBuffer(t)
                         /\ Followed(t)' <=> Followed(t)
                         /\ Targets(t)' = Targets(t)
    BY <1>1 DEF InBuffer, Followed, Targets
  <1>5. \A t \in State : (Waits(t)' => Waits(t)) /\ (Waits(t) => Waits(t)' \/ t = s)
    <2>1. \A k \in DOMAIN ptr_stack' :
            k + 1 \in DOMAIN ptr_stack /\ ptr_stack'[k] = ptr_stack[k + 1]
      BY <1>1, <1>2 DEF Buffer
    <2>2. \A k \in DOMAIN ptr_stack :
            k # 1 => k - 1 \in DOMAIN ptr_stack' /\ ptr_stack'[k - 1] = ptr_stack[k]
      BY <1>1, <1>2 DEF Buffer
    <2>3. 1 \in DOMAIN ptr_stack => ptr_stack[1] = s
      BY <1>1, <1>2 DEF Buffer
    <2> QED BY <2>1, <2>2, <2>3 DEF Waits
  <1> HIDE DEF s
  <1>6. Members'
    <2>1. Closure(Moved)' = Closure(Moved) BY <1>1, <1>3 DEF Closure
    <2> QED BY <1>1, <1>2, <1>4, <1>5, <2>1 DEF Members
  <1>7. Pending'
    <2>1. \A t \in State : mark'[t] = mainloop' => Followed(t)' \/ Waits(t)'
      BY <1>1, <1>2, <1>4, <1>5 DEF Pending
    <2>2. \A t \in State : Followed(t)' => InBuffer(t)' /\ \A u \in Targets(t)' : mark'[u] = mainloop'
      BY <1>1, <1>2, <1>4 DEF Pending
    <2>3. ASSUME NEW k \in DOMAIN temp_move'
          PROVE  \/ k >= i' /\ k <= states'
                 \/ (Targets(temp_move[k]) = {})' \/ Followed(temp_move[k])' \/ Waits(temp_move[k])'
      <3>1. k \in DOMAIN temp_move /\ temp_move'[k] = temp_move[k] /\ temp_move[k] \in State
        BY <1>1, <1>2 DEF Buffer
      <3> QED BY <1>1, <1>2, <1>4, <1>5, <3>1 DEF Pending
    <2> QED BY <2>1, <2>2, <2>3 DEF Pending
  <1> QED BY <1>3, <1>6, <1>7 DEF ClosureInv

LEMMA VisitKeeps ==
  ASSUME ClosureInv, Visit PROVE ClosureInv'
  <1> DEFINE s == Head(ptr_stack)
             next == {t \in Targets(s) : t # s /\ mark[t] # mainloop}
  <1>1. /\ pc = "closure" /\ ptr_stack # <<>> /\ marktable[s] # mainloop
        /\ marktable' = [marktable EXCEPT ![s] = mainloop]
        /\ mark' = [t \in State |-> IF t = s \/ t \in next THEN mainloop ELSE mark[t]]
        /\ e_table' = [e_table EXCEPT ![s] = mainloop]
        /\ temp_move' = IF e_table[s] = mainloop THEN temp_move ELSE Append(temp_move, s)
        /\ UNCHANGED <<eps, mainloop, states, i, sets, ret, calls, pc>>
    BY DEF Visit
  <1>2. PICK order \in SetToSeqs(next) : ptr_stack' = order \o Tail(ptr_stack)
    BY DEF Visit
  <1>3. Stamps /\ Buffer /\ Members /\ Pending /\ Stored BY DEF ClosureInv
  <1>4. next \in SUBSET State /\ s \in State /\ Waits(s) /\ Tail(ptr_stack) \in Seq(State)
    <2>1. s \in State /\ Tail(ptr_stack) \in Seq(State) BY <1>1, <1>3 DEF Buffer
    <2>2. 1 \in DOMAIN ptr_stack /\ ptr_stack[1] = s BY <1>1, <1>3 DEF Buffer
    <2> QED BY <2>1, <2>2 DEF Waits, Targets
  <1>5. /\ order \in Seq(State)
        /\ \A k \in DOMAIN order : order[k] \in next
        /\ \A t \in next : \E k \in DOMAIN order : order[k] = t
    BY <1>2, <1>4, Ordered
  <1>6. ptr_stack' \in Seq(State) BY <1>2, <1>4, <1>5
  <1>7. \A t \in State : t \in next \/ (Waits(t) /\ t # s) => Waits(t)'
    <2>1. ASSUME NEW t \in next PROVE Waits(t)'
      <3>1. PICK k \in DOMAIN order : order[k] = t BY <1>5
      <3>2. k \in DOMAIN ptr_stack' /\ ptr_stack'[k] = order[k] BY <1>2, <1>4, <1>5, <3>1
      <3> QED BY <3>1, <3>2 DEF Waits
    <2>2. ASSUME NEW t \in State, Waits(t), t # s PROVE Waits(t)'
      <3>1. PICK k \in DOMAIN ptr_stack : ptr_stack[k] = t BY <2>2 DEF Waits
      <3>2. k # 1 /\ k \in 1..Len(ptr_stack) BY <2>2, <3>1, <1>3 DEF Buffer
      <3>3. k - 1 \in DOMAIN Tail(ptr_stack) /\ Tail(ptr_stack)[k - 1] = t
        BY <1>3, <3>1, <3>2 DEF Buffer
      <3>4. /\ Len(order) + (k - 1) \in DOMAIN ptr_stack'
            /\ ptr_stack'[Len(order) + (k - 1)] = Tail(ptr_stack)[k - 1]
        BY <1>2, <1>4, <1>5, <3>3
      <3> QED BY <3>3, <3>4 DEF Waits
    <2> QED BY <2>1, <2>2
  <1>8. \A t : Waits(t)' => t \in next \/ Waits(t)
    <2> SUFFICES ASSUME NEW k \in DOMAIN ptr_stack' PROVE ptr_stack'[k] \in next \/ Waits(ptr_stack'[k])
      BY DEF Waits
    <2>1. CASE k <= Len(order)
      <3>1. k \in DOMAIN order /\ ptr_stack'[k] = order[k] BY <1>2, <1>4, <1>5, <2>1
      <3> QED BY <3>1, <1>5
    <2>2. CASE k > Len(order)
      <3>1. /\ k - Len(order) \in DOMAIN Tail(ptr_stack)
            /\ ptr_stack'[k] = Tail(ptr_stack)[k - Len(order)]
        BY <1>2, <1>4, <1>5, <2>2
      <3>2. /\ (k - Len(order)) + 1 \in DOMAIN ptr_stack
            /\ Tail(ptr_stack)[k - Len(order)] = ptr_stack[(k - Len(order)) + 1]
        BY <1>1, <1>3, <3>1 DEF Buffer
      <3> QED BY <3>1, <3>2 DEF Waits
    <2>3. k \in Nat /\ Len(order) \in Nat BY <1>5, <1>6
    <2> QED BY <2>1, <2>2, <2>3
  <1>9. \A t \in State : t \in next <=> t \in Targets(s) /\ t # s /\ mark[t] # mainloop
    OBVIOUS
  <1> HIDE DEF s, next
  <1>10. /\ \A t \in State : /\ e_table'[t] = IF t = s THEN mainloop ELSE e_table[t]
                             /\ marktable'[t] = IF t = s THEN mainloop ELSE marktable[t]
                             /\ mark'[t] = IF t = s \/ t \in next THEN mainloop ELSE mark[t]
         /\ e_table' \in [State -> Nat] /\ marktable' \in [State -> Nat] /\ mark' \in [State -> Nat]
    BY <1>1, <1>3, <1>4 DEF Stamps
  <1>11. Stamps'
    BY <1>1, <1>3, <1>10 DEF Stamps
  <1>12. /\ temp_move' \in Seq(State) /\ Len(temp_move) \in Nat
         /\ DOMAIN temp_move \subseteq DOMAIN temp_move'
         /\ \A k \in DOMAIN temp_move : temp_move'[k] = temp_move[k]
         /\ \A k \in DOMAIN temp_move' :
              k \in DOMAIN temp_move \/ (temp_move'[k] = s /\ k = Len(temp_move) + 1)
         /\ Len(temp_move) <= Len(temp_move')
    BY <1>1, <1>3, <1>4 DEF Buffer
  <1>13. \A t \in State : InBuffer(t)' <=> InBuffer(t) \/ t = s
    <2>1. e_table[s] = mainloop <=> InBuffer(s) BY <1>1, <1>3, <1>4 DEF Members
    <2>2. \E k \in DOMAIN temp_move' : temp_move'[k] = s
      <3>1. CASE e_table[s] = mainloop BY <1>1, <2>1, <3>1 DEF InBuffer
      <3>2. CASE e_table[s] # mainloop
        <4>1. /\ Len(temp_move) + 1 \in DOMAIN temp_move'
              /\ temp_move'[Len(temp_move) + 1] = s
          BY <1>1, <1>3, <1>4, <3>2 DEF Buffer
        <4> QED BY <4>1 DEF InBuffer
      <3> QED BY <3>1, <3>2
    <2> QED BY <1>12, <2>2 DEF InBuffer
  <1>14. \A a, b \in DOMAIN temp_move' : temp_move'[a] = temp_move'[b] => a = b
    <2>1. CASE e_table[s] = mainloop BY <1>1, <1>3, <2>1 DEF Buffer
    <2>2. CASE e_table[s] # mainloop
      <3>1. ~InBuffer(s) BY <1>1, <1>3, <1>4, <2>2 DEF Members
      <3>2. \A k \in DOMAIN temp_move : temp_move[k] # s BY <3>1 DEF InBuffer
      <3>3. \A a, b \in DOMAIN temp_move : temp_move[a] = temp_move[b] => a = b
        BY <1>3 DEF Buffer
      <3> QED BY <1>12, <3>2, <3>3
    <2> QED BY <2>1, <2>2
  <1>15. Buffer'
    BY <1>1, <1>3, <1>6, <1>12, <1>14 DEF Buffer
  <1>16. Moved' = Moved
    <2>1. \A k \in 1..states : temp_move'[k] = temp_move[k]
      BY <1>3, <1>12 DEF Buffer
    <2> QED BY <1>1, <2>1 DEF Moved
  <1>17. Stored'
    <2>1. Closure(Moved)' = Closure(Moved) BY <1>1, <1>16 DEF Closure
    <2> QED BY <1>1, <1>3 DEF Stored
  <1>18. Members'
    <2>1. Closure(Moved)' = Closure(Moved) BY <1>1, <1>16 DEF Closure
    <2>2. s \in Closure(Moved) BY <1>1, <1>3, <1>4 DEF Members
    <2>3. \A t \in next : t \in Closure(Moved)
      <3>1. Moved \in SUBSET State BY <1>3 DEF Moved, Buffer
      <3> QED BY <1>3, <1>4, <1>9, <2>2, <3>1, ClosureFacts DEF Buffer
    <2>4. \A t \in State : InBuffer(t)' \/ Waits(t)' => t \in Closure(Moved)'
      BY <1>1, <1>3, <1>8, <1>13, <2>1, <2>2, <2>3 DEF Members
    <2>5. \A t \in State : e_table'[t] = mainloop' <=> InBuffer(t)'
      BY <1>1, <1>3, <1>10, <1>13 DEF Members
    <2> QED BY <2>4, <2>5 DEF Members
  <1>19. \A t \in State : /\ Followed(t)' <=> Followed(t) \/ t = s
                          /\ Targets(t)' = Targets(t)
    BY <1>1, <1>10 DEF Followed, Targets
  <1>20. Pending'
    <2>1. \A t \in State : mark'[t] = mainloop' => Followed(t)' \/ Waits(t)'
      BY <1>1, <1>3, <1>7, <1>10, <1>19 DEF Pending
    <2>2. \A t \in State : Followed(t)' => InBuffer(t)' /\ \A u \in Targets(t)' : mark'[u] = mainloop'
      <3>1. \A t \in State : Targets(t) \subseteq State BY DEF Targets
      <3>2. \A u \in Targets(s) : mark'[u] = mainloop BY <1>4, <1>9, <1>10, <3>1
      <3>3. \A u \in State : mark[u] = mainloop => mark'[u] = mainloop BY <1>10
      <3> QED BY <1>1, <1>3, <1>13, <1>19, <3>1, <3>2, <3>3 DEF Pending
    <2>3. ASSUME NEW k \in DOMAIN temp_move'
          PROVE  \/ k >= i' /\ k <= states'
                 \/ (Targets(temp_move[k]) = {})' \/ Followed(temp_move[k])' \/ Waits(temp_move[k])'
      <3>1. CASE temp_move'[k] = s BY <1>4, <1>19, <3>1
      <3>2. CASE temp_move'[k] # s
        <4>1. k \in DOMAIN temp_move /\ temp_move'[k] = temp_move[k] /\ temp_move[k] \in State
          BY <1>3, <1>12, <3>2 DEF Buffer
        <4>2. Waits(temp_move[k]) => Waits(temp_move[k])' BY <1>7, <3>2, <4>1
        <4> QED BY <1>1, <1>3, <1>19, <4>1, <4>2 DEF Pending
      <3> QED BY <3>1, <3>2
    <2> QED BY <2>1, <2>2, <2>3 DEF Pending
  <1> QED BY <1>11, <1>15, <1>17, <1>18, <1>20 DEF ClosureInv

\* At the end of a call the buffer holds exactly the closure.
LEMMA BufferIsClosure ==
  ASSUME ClosureInv, pc = "closure", ptr_stack = <<>>, i > states
  PROVE  /\ Range(temp_move) = Closure(Moved) /\ Moved \in SUBSET State
         /\ \A s \in State : e_table[s] = mainloop <=> s \in Range(temp_move)
  <1> DEFINE R == Range(temp_move)
  <1>1. Stamps /\ Buffer /\ Members /\ Pending BY DEF ClosureInv
  <1>2. R \in SUBSET State /\ Moved \in SUBSET State /\ Moved \subseteq R
    BY <1>1 DEF Range, Moved, Buffer
  <1>3. \A s \in State : s \in R <=> InBuffer(s)
    BY DEF Range, InBuffer
  <1>4. R \subseteq Closure(Moved)
    BY <1>1, <1>2, <1>3 DEF Members
  <1>5. ASSUME NEW s \in R, NEW t \in Targets(s) PROVE t \in R
    <2>1. \A u \in State : ~Waits(u) BY DEF Waits
    <2>2. PICK k \in DOMAIN temp_move : temp_move[k] = s BY <1>5 DEF Range
    <2>3. ~(k >= i /\ k <= states) BY <1>1, <2>2 DEF Buffer
    <2>4. Followed(s) BY <1>1, <1>2, <1>5, <2>1, <2>2, <2>3 DEF Pending
    <2>5. mark[t] = mainloop /\ t \in State BY <1>1, <1>2, <1>5, <2>4 DEF Pending, Targets
    <2>6. Followed(t) BY <1>1, <2>1, <2>5 DEF Pending
    <2> QED BY <1>1, <1>3, <2>5, <2>6 DEF Pending
  <1>6. Closure(Moved) \subseteq R
    BY <1>1, <1>2, <1>5, ClosureFacts DEF Buffer
  <1> QED BY <1>1, <1>2, <1>3, <1>4, <1>6 DEF Members

LEMMA ReturnKeeps ==
  ASSUME ClosureInv, Return PROVE ClosureInv'
  <1> DEFINE R == Range(temp_move)
  <1>1. /\ pc = "closure" /\ ptr_stack = <<>> /\ i > states /\ mainloop' = mainloop + 1
        /\ pc' = "caller"
        /\ UNCHANGED <<eps, e_table, marktable, mark, temp_move, states, i, ptr_stack, calls>>
        /\ \/ ret' \in Matches /\ sets' = sets
           \/ Matches = {} /\ sets' = Append(sets, R) /\ ret' = Len(sets')
    BY DEF Return
  <1>2. Stamps /\ Buffer /\ Members /\ Pending /\ Stored BY DEF ClosureInv
  <1>3. /\ R = Closure(Moved) /\ Moved \in SUBSET State
        /\ \A s \in State : e_table[s] = mainloop <=> s \in R
    BY <1>1, BufferIsClosure
  <1>4. /\ R \in SUBSET State /\ IsFiniteSet(R) /\ Cardinality(R) = Len(temp_move)
    BY <1>2, BufferSize DEF Buffer
  <1>5. Closure(Moved)' = R
    <2>1. Moved' = Moved BY <1>1 DEF Moved
    <2> QED BY <1>1, <1>3, <2>1 DEF Closure
  <1> HIDE DEF R
  <1>6. \A n \in DOMAIN sets : n \in Matches <=> sets[n] = R
    <2> SUFFICES ASSUME NEW n \in DOMAIN sets
                 PROVE  (Cardinality(sets[n]) = Len(temp_move)
                          /\ \A s \in sets[n] : e_table[s] = mainloop) <=> sets[n] = R
      BY DEF Matches
    <2>1. sets[n] \in SUBSET State BY <1>2 DEF Stored
    <2>2. (\A s \in sets[n] : e_table[s] = mainloop) <=> sets[n] \subseteq R
      BY <1>3, <2>1
    <2>3. sets[n] \subseteq R /\ Cardinality(sets[n]) = Cardinality(R) => sets[n] = R
      BY <1>4, FS_Subset
    <2> QED BY <1>4, <2>2, <2>3
  <1>7. Stamps' BY <1>1, <1>2 DEF Stamps
  <1>8. Buffer' BY <1>1, <1>2 DEF Buffer
  <1>9. Members' /\ Pending' BY <1>1 DEF Members, Pending
  <1>10. Stored'
    <2>1. CASE ret' \in Matches /\ sets' = sets
      <3>1. ret' \in DOMAIN sets BY <2>1 DEF Matches
      <3> QED BY <1>1, <1>2, <1>5, <1>6, <2>1, <3>1 DEF Stored
    <2>2. CASE Matches = {} /\ sets' = Append(sets, R) /\ ret' = Len(sets')
      <3>1. sets \in Seq(SUBSET State) BY <1>2 DEF Stored
      <3>2. /\ sets' \in Seq(SUBSET State) /\ Len(sets') = Len(sets) + 1
            /\ DOMAIN sets' = 1..(Len(sets) + 1) /\ Len(sets) \in Nat /\ DOMAIN sets = 1..Len(sets)
            /\ sets'[Len(sets) + 1] = R /\ \A n \in DOMAIN sets : sets'[n] = sets[n]
        BY <1>4, <2>2, <3>1
      <3>3. \A n \in DOMAIN sets : sets[n] # R BY <1>6, <2>2
      <3>4. \A m, n \in DOMAIN sets' : sets'[m] = sets'[n] => m = n
        <4>1. \A n \in DOMAIN sets' : n \in DOMAIN sets \/ n = Len(sets) + 1 BY <3>2
        <4>2. \A m, n \in DOMAIN sets : sets[m] = sets[n] => m = n BY <1>2 DEF Stored
        <4> QED BY <3>2, <3>3, <4>1, <4>2
      <3>5. ret' \in DOMAIN sets' /\ sets'[ret'] = R BY <2>2, <3>2
      <3> QED BY <1>1, <1>2, <1>5, <3>2, <3>4, <3>5 DEF Stored
    <2> QED BY <1>1, <2>1, <2>2
  <1> QED BY <1>7, <1>8, <1>9, <1>10 DEF ClosureInv

LEMMA ClosureStarts == Init => ClosureInv
  <1> SUFFICES ASSUME Init PROVE ClosureInv
    OBVIOUS
  <1>1. Stamps BY DEF Init, Stamps
  <1>2. Buffer
    <2>1. PICK E \in Graphs : eps = {e \in E : e[1] # e[2]} BY DEF Init
    <2>2. eps \subseteq State \X State BY <2>1, EClosureAssumption
    <2> QED BY <2>2 DEF Init, Buffer
  <1>3. Members /\ Pending BY DEF Init, Members, Pending
  <1>4. Stored BY DEF Init, Stored
  <1> QED BY <1>1, <1>2, <1>3, <1>4 DEF ClosureInv

LEMMA ClosureKeeps == ClosureInv /\ [Next]_vars => ClosureInv'
  <1> SUFFICES ASSUME ClosureInv, [Next]_vars PROVE ClosureInv'
    OBVIOUS
  <1>1. CASE Next
    BY <1>1, CollectKeeps, FollowKeeps, SeenKeeps, VisitKeeps, ReturnKeeps DEF Next
  <1>2. CASE UNCHANGED vars
    <2>1. UNCHANGED <<eps, mainloop, e_table, marktable, mark, temp_move, states, i, ptr_stack,
                      sets, ret, calls, pc>>
      BY <1>2 DEF vars
    <2>2. Moved' = Moved BY <2>1 DEF Moved
    <2>3. Closure(Moved)' = Closure(Moved) BY <2>1, <2>2 DEF Closure
    <2>4. \A s : /\ InBuffer(s)' <=> InBuffer(s)
                 /\ Waits(s)' <=> Waits(s)
                 /\ Followed(s)' <=> Followed(s)
                 /\ Targets(s)' = Targets(s)
      BY <2>1 DEF InBuffer, Waits, Followed, Targets
    <2>5. Stamps' /\ Buffer' BY <2>1 DEF ClosureInv, Stamps, Buffer
    <2>6. Members' BY <2>1, <2>3, <2>4 DEF ClosureInv, Members
    <2>7. Pending' BY <2>1, <2>4 DEF ClosureInv, Pending
    <2>8. Stored' BY <2>1, <2>3 DEF ClosureInv, Stored
    <2> QED BY <2>5, <2>6, <2>7, <2>8 DEF ClosureInv
  <1> QED BY <1>1, <1>2

-----------------------------------------------------------------------------

\* No stamp is ever from the future, and the number returned is that of a set stored.
THEOREM TypeCorrect == Spec => []TypeOK
  <1>1. ClosureInv => TypeOK
    BY DEF ClosureInv, Stamps, Buffer, Stored, TypeOK
  <1> QED BY <1>1, ClosureStarts, ClosureKeeps, PTL DEF Spec

\* However often e_closure is called, each call returns the number of exactly the epsilon
\* closure of the states it was given, and equal sets have equal numbers.
THEOREM ClosureRight == Spec => []ReturnsClosure
  <1>1. ClosureInv => ReturnsClosure BY DEF ClosureInv, Stored, ReturnsClosure
  <1> QED BY <1>1, ClosureStarts, ClosureKeeps, PTL DEF Spec

\* temp_move, which has an entry for each state, is never overrun.
THEOREM BufferFits == Spec => []BufferSuffices
  <1>1. ClosureInv => BufferSuffices
    BY BufferSize DEF ClosureInv, Buffer, BufferSuffices
  <1> QED BY <1>1, ClosureStarts, ClosureKeeps, PTL DEF Spec
=============================================================================
