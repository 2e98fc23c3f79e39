------------------------- MODULE CoaccessibleProofs -------------------------
(***************************************************************************)
(* Proofs about Coaccessible for machines of any size: the compaction of   *)
(* fsm_coaccessible never reads a line that it has already overwritten,    *)
(* and what it leaves is exactly the trimmed machine, renumbered.          *)
(***************************************************************************)
EXTENDS Coaccessible, FiniteSetTheorems, TLAPS

-----------------------------------------------------------------------------

AnyLine == [state_no : Int, label : Int, target : Int, final_state : BOOLEAN]

State(k) == lines[k].state_no
Target(k) == lines[k].target
Places == 1..Len(lines)

\* The tables of the construction.
WType ==
  /\ lines \in Seq(AnyLine) /\ statecount \in Nat \ {0}
  /\ int_stack \in Seq(States)
  /\ current \in [state_no : Int, final : BOOLEAN]
  /\ wpc \in {"pop", "arcs", "closed"}
  /\ wpc = "arcs" => current.state_no \in States
  /\ wpc = "closed" => int_stack = <<>>
  /\ \A k \in Places : State(k) \in States /\ Target(k) \in States \cup {-1}

\* No state waits twice, none that waits or is about to be written has lines, and every
\* other state has.
Waiting ==
  /\ \A a, b \in DOMAIN int_stack : int_stack[a] = int_stack[b] => a = b
  /\ \A a \in DOMAIN int_stack, k \in Places : State(k) # int_stack[a]
  /\ \A s \in States :
       \/ \E k \in Places : State(k) = s
       \/ \E a \in DOMAIN int_stack : int_stack[a] = s
       \/ wpc = "arcs" /\ s = current.state_no
  /\ wpc = "arcs" =>
       /\ \A a \in DOMAIN int_stack : int_stack[a] # current.state_no
       /\ Len(lines) = 0 \/ State(Len(lines)) # current.state_no
            => \A k \in Places : State(k) # current.state_no
       /\ \A k \in Places : State(k) = current.state_no =>
            lines[k].final_state = current.final /\ Target(k) # -1

\* The lines of a state are together and agree on its finality; a line without an arc
\* is alone; the label of an arc tells it apart from the others.
Together ==
  /\ \A k, n \in Places : State(k) = State(n) =>
       /\ lines[k].final_state = lines[n].final_state
       /\ k # n => Target(k) # -1
       /\ \A m \in k..n : State(m) = State(k)
  /\ \A k \in Places : Target(k) # -1 => lines[k].label = k - 1

\* Before a state other than 0 has a line, an arc has led to it and to every state with
\* a smaller number; and every state is on a path from state 0.
Numbered ==
  /\ \A u \in States : u # 0 => \E m \in Places : Target(m) = u
  /\ \A k \in Places : \A u \in 1..State(k) : \E m \in 1..(k - 1) : Target(m) = u
  /\ \A X \in SUBSET Nat :
       /\ \A k \in Places : Target(k) \in X => State(k) \in X
       /\ X \cap States # {}
       => 0 \in X

\* The arcs of state p before place n lead only where those of other states do.
NothingNew(p, n) ==
  \A m \in 1..(n - 1) : State(m) = p /\ Target(m) > 0 =>
    \E m2 \in 1..(n - 1) : State(m2) # p /\ Target(m2) = Target(m)

\* One of them leads to q.
LeadsTo(p, q, n) == \E m \in 1..(n - 1) : State(m) = p /\ Target(m) = q

\* The state written after p is one that an arc of p leads to, unless p numbered none.
Descends ==
  /\ \A n \in Places : n > 1 /\ State(n) # State(n - 1) =>
       LeadsTo(State(n - 1), State(n), n) \/ NothingNew(State(n - 1), n)
  /\ LET n == Len(lines) + 1 IN
       /\ n > 1 /\ (wpc = "arcs" => State(n - 1) = current.state_no) =>
            \/ NothingNew(State(n - 1), n)
            \/ int_stack # <<>> /\ LeadsTo(State(n - 1), Head(int_stack), n)
       /\ n > 1 /\ wpc = "arcs" /\ State(n - 1) # current.state_no =>
            NothingNew(State(n - 1), n) \/ LeadsTo(State(n - 1), current.state_no, n)

WInv == WType /\ Waiting /\ Together /\ Numbered /\ Descends

-----------------------------------------------------------------------------

LEMMA WorklistStarts == WInit => WInv
  <1> SUFFICES ASSUME WInit PROVE WInv
    OBVIOUS
  <1> USE DEF WInit, Places, States
  <1>1. WType BY DEF WType
  <1>2. Waiting
    <2>1. int_stack[1] = 0 /\ DOMAIN int_stack = {1} /\ States = {0} /\ Places = {}
      OBVIOUS
    <2>2. \A s \in States : int_stack[1] = s BY <2>1
    <2> QED BY <2>1, <2>2 DEF Waiting
  <1>3. Together /\ Numbered /\ Descends BY DEF Together, Numbered, Descends
  <1> QED BY <1>1, <1>2, <1>3 DEF WInv

LEMMA Grown ==
  ASSUME WType, NEW l \in AnyLine, lines' = Append(lines, l)
  PROVE  /\ lines' \in Seq(AnyLine) /\ Len(lines') = Len(lines) + 1 /\ Len(lines) \in Nat
         /\ Places' = Places \cup {Len(lines) + 1}
         /\ \A k \in Places : lines'[k] = lines[k]
         /\ lines'[Len(lines) + 1] = l
         /\ \A p, q : \A n \in 1..(Len(lines) + 1) :
              /\ NothingNew(p, n)' <=> NothingNew(p, n)
              /\ LeadsTo(p, q, n)' <=> LeadsTo(p, q, n)
  <1>1. /\ lines' \in Seq(AnyLine) /\ Len(lines') = Len(lines) + 1 /\ Len(lines) \in Nat
        /\ Places' = Places \cup {Len(lines) + 1}
        /\ \A k \in Places : lines'[k] = lines[k]
        /\ lines'[Len(lines) + 1] = l
    BY DEF WType, Places
  <1>2. ASSUME NEW n \in 1..(Len(lines) + 1), NEW p, NEW q
        PROVE  /\ NothingNew(p, n)' <=> NothingNew(p, n)
               /\ LeadsTo(p, q, n)' <=> LeadsTo(p, q, n)
    <2>1. \A m \in 1..(n - 1) : lines'[m] = lines[m]
      BY <1>1 DEF Places
    <2> QED BY <2>1 DEF NothingNew, LeadsTo, State, Target
  <1> QED BY <1>1, <1>2

LEMMA SetCurrentKeeps ==
  ASSUME WInv, SetCurrentState PROVE WInv'
  <1>0. PICK f \in BOOLEAN : current' = [state_no |-> Head(int_stack), final |-> f]
    BY DEF SetCurrentState
  <1> USE DEF WInv
  <1>1. /\ int_stack \in Seq(States) /\ Len(int_stack) \in Nat \ {0}
        /\ int_stack' \in Seq(States) /\ Len(int_stack') = Len(int_stack) - 1
        /\ \A a \in DOMAIN int_stack' : int_stack'[a] = int_stack[a + 1] /\ a + 1 \in DOMAIN int_stack
        /\ Head(int_stack) = int_stack[1] /\ 1 \in DOMAIN int_stack /\ Head(int_stack) \in States
        /\ DOMAIN int_stack' \subseteq Nat
    BY DEF SetCurrentState, WType
  <1>2. WType'
    BY <1>0, <1>1 DEF WType, SetCurrentState, States, Places, State, Target
  <1>3. \A k \in Places : State(k) # Head(int_stack)
    BY <1>1 DEF Waiting
  <1>4. Waiting'
    <2>1. \A a \in DOMAIN int_stack' : int_stack'[a] # Head(int_stack)
      BY <1>1 DEF Waiting
    <2>2. \A a, b \in DOMAIN int_stack' : int_stack'[a] = int_stack'[b] => a = b
      BY <1>1 DEF Waiting
    <2>3. ASSUME NEW s \in States, \A k \in Places : State(k) # s, s # Head(int_stack)
          PROVE  \E a \in DOMAIN int_stack' : int_stack'[a] = s
      <3>1. PICK b \in DOMAIN int_stack : int_stack[b] = s
        BY <2>3, <1>1 DEF Waiting, SetCurrentState
      <3>2. b - 1 \in DOMAIN int_stack' /\ int_stack'[b - 1] = int_stack[b]
        BY <3>1, <2>3, <1>1
      <3> QED BY <3>1, <3>2
    <2>4. ASSUME NEW s \in States'
          PROVE  \/ \E k \in Places' : State(k)' = s
                 \/ \E a \in DOMAIN int_stack' : int_stack'[a] = s
                 \/ s = current'.state_no
      BY <2>3, <1>0 DEF SetCurrentState, Places, State, States
    <2>5. wpc' = "arcs" /\ current'.state_no = Head(int_stack) /\ Places' = Places
          /\ \A k : State(k)' = State(k) /\ Target(k)' = Target(k)
      BY <1>0 DEF SetCurrentState, Places, State, Target
    <2>6. \A k \in Places, a \in DOMAIN int_stack' : State(k) # int_stack'[a]
      BY <1>1 DEF Waiting
    <2>7. /\ \A a \in DOMAIN int_stack' : int_stack'[a] # current'.state_no
          /\ \A k \in Places' : State(k)' # current'.state_no
      BY <1>3, <2>1, <2>5
    <2>8. \A s \in States' : \/ \E k \in Places' : State(k)' = s
                             \/ \E a \in DOMAIN int_stack' : int_stack'[a] = s
                             \/ wpc' = "arcs" /\ s = current'.state_no
      BY <2>4, <2>5
    <2>9. \A a \in DOMAIN int_stack', k \in Places' : State(k)' # int_stack'[a]
      BY <2>5, <2>6
    <2> HIDE DEF WInv
    <2> QED BY ONLY <2>2, <2>7, <2>8, <2>9, Zenon DEF Waiting
  <1>5. Together' /\ Numbered'
    BY DEF Together, Numbered, SetCurrentState, Places, State, Target, States
  <1>6. Descends'
    <2>1. Len(lines) + 1 > 1 => State(Len(lines)) # Head(int_stack)
      BY <1>3 DEF Places, WType
    <2>2. Len(lines) \in Nat BY DEF WType
    <2> QED BY <1>0, <2>1, <2>2 DEF Descends, SetCurrentState, Places, State, Target, LeadsTo, NothingNew
  <1> QED BY <1>2, <1>4, <1>5, <1>6

LEMMA AddArcKeeps ==
  ASSUME WInv, NEW t \in 0..statecount, AddArc(t) PROVE WInv'
  <1>0. \E N, c, l : N = Len(lines) + 1 /\ c = current.state_no
                     /\ l = Line(c, Len(lines), t, current.final)
    OBVIOUS
  <1> SUFFICES ASSUME NEW N, NEW c, NEW l, N = Len(lines) + 1, c = current.state_no,
                      l = Line(c, Len(lines), t, current.final)
               PROVE  WInv'
    BY <1>0
  <1> USE DEF WInv
  <1>1. /\ wpc = "arcs" /\ wpc' = "arcs" /\ current' = current /\ lines' = Append(lines, l)
        /\ c \in States /\ l \in AnyLine /\ statecount \in Nat \ {0}
        /\ l.state_no = c /\ l.target = t /\ l.final_state = current.final /\ l.label = N - 1
        /\ Len(lines) \in Nat /\ t # -1
    BY DEF AddArc, WType, AnyLine, Line, States
  <1>2. /\ lines' \in Seq(AnyLine) /\ Len(lines') = N /\ N \in Nat /\ Len(lines) \in Nat
        /\ Places' = Places \cup {N} /\ N \notin Places
        /\ \A k \in Places : lines'[k] = lines[k]
        /\ lines'[N] = l
        /\ \A p, q : \A n \in 1..N :
              /\ NothingNew(p, n)' <=> NothingNew(p, n)
              /\ LeadsTo(p, q, n)' <=> LeadsTo(p, q, n)
    BY <1>1, Grown DEF Places
  <1>3. /\ t < statecount => statecount' = statecount /\ int_stack' = int_stack
        /\ t = statecount => /\ statecount' = statecount + 1
                             /\ Len(int_stack') = Len(int_stack) + 1
                             /\ int_stack' \in Seq(0..statecount) /\ int_stack'[1] = t
                             /\ int_stack' # <<>> /\ Head(int_stack') = t
                             /\ \A a \in DOMAIN int_stack' : a # 1 =>
                                  int_stack'[a] = int_stack[a - 1] /\ a - 1 \in DOMAIN int_stack
                             /\ DOMAIN int_stack' \subseteq Nat
        /\ t < statecount \/ t = statecount
    <2>1. int_stack \in Seq(0..statecount) /\ <<t>> \in Seq(0..statecount)
          /\ Len(<<t>>) = 1 /\ <<t>>[1] = t
      BY <1>1 DEF WType, States
    <2>2. CASE t < statecount
      BY <2>2, <1>1 DEF AddArc
    <2>3. CASE t = statecount
      <3>1. int_stack' = <<t>> \o int_stack /\ statecount' = statecount + 1
        BY <2>3, <1>1 DEF AddArc
      <3>2. /\ int_stack' \in Seq(0..statecount) /\ Len(int_stack') = Len(int_stack) + 1
            /\ Len(int_stack) \in Nat
            /\ \A a \in 1..(Len(int_stack) + 1) :
                 int_stack'[a] = IF a <= 1 THEN <<t>>[a] ELSE int_stack[a - 1]
        BY <2>1, <3>1
      <3>3. Head(int_stack') = int_stack'[1] /\ int_stack' # <<>> /\ int_stack'[1] = t
        BY <2>1, <3>2
      <3> QED BY <2>3, <2>1, <3>1, <3>2, <3>3, <1>1
    <2> QED BY <1>1, <2>2, <2>3
  <1>4. /\ \A k \in Places : State(k)' = State(k) /\ Target(k)' = Target(k)
        /\ State(N)' = c /\ Target(N)' = t
    BY <1>1, <1>2 DEF State, Target
  <1>5. /\ States \subseteq States' /\ t \in States' /\ c \in States'
        /\ t = statecount => States' = 0..statecount
        /\ \A s \in States' : s \in States \/ s = t
    BY <1>1, <1>3 DEF States
  <1>6. WType'
    <2>1. int_stack' \in Seq(States')
      BY <1>1, <1>3, <1>5 DEF WType, States
    <2>2. \A k \in Places' : State(k)' \in States' /\ Target(k)' \in States' \cup {-1}
      BY <1>2, <1>4, <1>5 DEF WType
    <2> QED BY <1>1, <1>2, <1>3, <1>5, <2>1, <2>2 DEF WType
  <1>7. Waiting'
    <2>1. \A a \in DOMAIN int_stack : int_stack[a] \in States
      BY DEF WType
    <2>2. statecount \notin States
      BY <1>1 DEF States
    <2>3. \A a \in DOMAIN int_stack' : \/ int_stack'[a] = statecount /\ a = 1 /\ t = statecount
                                       \/ \E b \in DOMAIN int_stack : int_stack'[a] = int_stack[b]
      BY <1>3
    <2>4. \A a, b \in DOMAIN int_stack' : int_stack'[a] = int_stack'[b] => a = b
      <3>1. CASE t < statecount BY <3>1, <1>3 DEF Waiting
      <3>2. CASE t = statecount
        <4> SUFFICES ASSUME NEW a \in DOMAIN int_stack', NEW b \in DOMAIN int_stack',
                            int_stack'[a] = int_stack'[b] PROVE a = b
          OBVIOUS
        <4>1. CASE a = 1 \/ b = 1 BY <4>1, <3>2, <1>3, <2>1, <2>2
        <4>2. CASE a # 1 /\ b # 1
          <5>1. a - 1 = b - 1 BY <4>2, <3>2, <1>3 DEF Waiting
          <5> QED BY <5>1, <3>2, <1>3
        <4> QED BY <4>1, <4>2
      <3> QED BY <3>1, <3>2, <1>3
    <2>5. \A a \in DOMAIN int_stack', k \in Places' : State(k)' # int_stack'[a]
      BY <2>1, <2>2, <2>3, <1>1, <1>2, <1>4 DEF Waiting, WType
    <2>6. \A a \in DOMAIN int_stack' : int_stack'[a] # c
      BY <2>1, <2>2, <2>3, <1>1 DEF Waiting
    <2>7. State(Len(lines))' = c
      BY <1>2, <1>4 DEF State
    <2>8. \A k \in Places' : State(k)' = c => lines'[k].final_state = current.final /\ Target(k)' # -1
      <3>1. \A k \in Places : State(k) = c => lines[k].final_state = current.final /\ Target(k) # -1
        BY <1>1 DEF Waiting
      <3>2. lines'[N].final_state = current.final /\ Target(N)' # -1
        BY <1>1, <1>2, <1>4
      <3> QED BY <3>1, <3>2, <1>2, <1>4
    <2>9. UNCHANGED current /\ Len(lines') # 0 /\ wpc' = "arcs" BY <1>1, <1>2
    <2>10. ASSUME NEW s \in States'
           PROVE  \/ \E k \in Places' : State(k)' = s
                  \/ \E a \in DOMAIN int_stack' : int_stack'[a] = s
                  \/ s = c
      <3>1. CASE s \in States /\ \E k \in Places : State(k) = s
        BY <3>1, <1>2, <1>4
      <3>2. CASE s \in States /\ \E a \in DOMAIN int_stack : int_stack[a] = s
        <4>1. PICK a \in DOMAIN int_stack : int_stack[a] = s BY <3>2
        <4>2. CASE t < statecount BY <4>1, <4>2, <1>3
        <4>3. CASE t = statecount
          <5>1. a + 1 \in DOMAIN int_stack' /\ a + 1 # 1 /\ (a + 1) - 1 = a
            BY <4>1, <4>3, <1>1, <1>3 DEF WType
          <5>2. int_stack'[a + 1] = int_stack[(a + 1) - 1] BY <5>1, <4>3, <1>3
          <5> QED BY <4>1, <5>1, <5>2
        <4> QED BY <4>2, <4>3, <1>3
      <3>3. CASE s = t /\ t = statecount
        BY <3>3, <1>3
      <3>4. s \in States \/ t = statecount
        BY <1>3, <1>5 DEF States
      <3> QED BY <3>1, <3>2, <3>3, <3>4, <1>1, <1>5 DEF Waiting
    <2>11. \A s \in States' : \/ \E k \in Places' : State(k)' = s
                              \/ \E a \in DOMAIN int_stack' : int_stack'[a] = s
                              \/ wpc' = "arcs" /\ s = current'.state_no
      BY <2>9, <2>10
    <2>12. /\ \A a \in DOMAIN int_stack' : int_stack'[a] # current'.state_no
           /\ ~(Len(lines') = 0 \/ State(Len(lines))' # current'.state_no)
           /\ \A k \in Places' : State(k)' = current'.state_no =>
                lines'[k].final_state = current'.final /\ Target(k)' # -1
      BY <2>6, <2>7, <2>8, <2>9
    <2> HIDE DEF WInv
    <2> QED BY ONLY <2>4, <2>5, <2>11, <2>12, Zenon DEF Waiting
  <1>8. Together'
    <2>1. ASSUME NEW k \in Places, State(k) = c
          PROVE  /\ lines[k].final_state = l.final_state /\ Target(k) # -1
                 /\ \A m \in k..N : State(m)' = c
      <3>1. lines[k].final_state = l.final_state /\ Target(k) # -1
        BY <1>1, <2>1 DEF Waiting
      <3>2. State(Len(lines)) = c /\ Len(lines) \in Places
        BY <1>1, <2>1 DEF Waiting, Places
      <3>3. \A m \in k..Len(lines) : State(m) = c /\ m \in Places
        BY <2>1, <3>2, <1>2 DEF Together, Places
      <3>4. \A m \in k..N : m \in k..Len(lines) \/ m = N
        BY <1>2 DEF Places
      <3> QED BY <3>1, <3>3, <3>4, <1>4
    <2>2. ASSUME NEW k \in Places', NEW n \in Places', State(k)' = State(n)'
          PROVE  /\ lines'[k].final_state = lines'[n].final_state
                 /\ k # n => Target(k)' # -1
                 /\ \A m \in k..n : State(m)' = State(k)'
      <3>1. CASE k \in Places /\ n \in Places
        <4>1. k..n \subseteq Places BY <3>1 DEF Places
        <4> QED BY <3>1, <4>1, <2>2, <1>2, <1>4 DEF Together
      <3>2. CASE k \in Places /\ n = N
        BY <3>2, <2>1, <2>2, <1>2, <1>4
      <3>3. CASE k = N /\ n = N
        <4>1. \A m \in k..n : m = N BY <3>3, <1>2
        <4> QED BY <3>3, <4>1
      <3>4. CASE k = N /\ n \in Places
        <4>1. k..n = {} BY <3>4, <1>2 DEF Places
        <4>2. Target(k)' # -1 BY <3>4, <1>1, <1>4
        <4>3. State(n) = c BY <3>4, <2>2, <1>4
        <4> QED BY <3>4, <4>1, <4>2, <4>3, <2>1, <1>2
      <3> QED BY <3>1, <3>2, <3>3, <3>4, <1>2
    <2>3. \A k \in Places' : Target(k)' # -1 => lines'[k].label = k - 1
      BY <1>1, <1>2, <1>4 DEF Together
    <2> QED BY <2>2, <2>3 DEF Together
  <1>9. Numbered'
    <2>1. \A u \in States' : u # 0 => \E m \in Places' : Target(m)' = u
      BY <1>2, <1>4, <1>5 DEF Numbered
    <2>2. ASSUME NEW k \in Places', NEW u \in 1..State(k)'
          PROVE  \E m \in 1..(k - 1) : Target(m)' = u
      <3>1. CASE k \in Places
        <4>1. PICK m \in 1..(k - 1) : Target(m) = u
          BY <3>1, <2>2, <1>4 DEF Numbered
        <4>2. m \in Places BY <3>1, <1>2 DEF Places
        <4> QED BY <4>1, <4>2, <1>4
      <3>2. CASE k = N
        <4>1. u \in States /\ u # 0 BY <3>2, <1>1, <1>4 DEF States
        <4>2. PICK m \in Places : Target(m) = u BY <4>1 DEF Numbered
        <4>3. m \in 1..(k - 1) BY <3>2 DEF Places
        <4> QED BY <4>2, <4>3, <1>4
      <3> QED BY <3>1, <3>2, <1>2
    <2>3. ASSUME NEW X \in SUBSET Nat, \A k \in Places' : Target(k)' \in X => State(k)' \in X,
                 X \cap States' # {}
          PROVE  0 \in X
      <3>1. \A k \in Places : Target(k) \in X => State(k) \in X
        BY <2>3, <1>2, <1>4
      <3>2. t \in X => c \in X BY <2>3, <1>2, <1>4
      <3>3. X \cap States # {} BY <2>3, <3>2, <1>1, <1>5
      <3> QED BY <3>1, <3>3 DEF Numbered
    <2> QED BY <2>1, <2>2, <2>3 DEF Numbered
  <1>10. Descends'
    <2>1. ASSUME NEW n \in Places', n > 1, State(n)' # State(n - 1)'
          PROVE  LeadsTo(State(n - 1), State(n), n)' \/ NothingNew(State(n - 1), n)'
      <3>1. n \in 1..N /\ n - 1 \in Places BY <2>1, <1>2 DEF Places
      <3>2. State(n - 1)' = State(n - 1) BY <3>1, <1>4
      <3>3. LeadsTo(State(n - 1), State(n)', n) \/ NothingNew(State(n - 1), n)
        <4>1. CASE n \in Places BY <4>1, <2>1, <3>2, <1>4 DEF Descends
        <4>2. CASE n = N
          <5>1. State(n)' = c BY <4>2, <1>4
          <5> QED BY <4>2, <5>1, <2>1, <3>2, <1>1 DEF Descends
        <4> QED BY <4>1, <4>2, <1>2
      <3>4. \A p, q : /\ NothingNew(p, n)' <=> NothingNew(p, n)
                      /\ LeadsTo(p, q, n)' <=> LeadsTo(p, q, n)
        BY <3>1, <1>2
      <3>5. /\ NothingNew(State(n - 1), n)' <=> \A m \in 1..(n - 1) : State(m)' = State(n - 1)' /\ Target(m)' > 0 =>
               \E m2 \in 1..(n - 1) : State(m2)' # State(n - 1)' /\ Target(m2)' = Target(m)'
            /\ LeadsTo(State(n - 1), State(n), n)' <=> \E m \in 1..(n - 1) : State(m)' = State(n - 1)' /\ Target(m)' = State(n)'
        BY DEF NothingNew, LeadsTo
      <3> QED BY <3>2, <3>3, <3>4
    <2>2. State(N)' = c /\ Len(lines') = N BY <1>2, <1>4
    <2>3. \/ \A m \in 1..N : State(m)' = c /\ Target(m)' > 0 =>
               \E m2 \in 1..N : State(m2)' # c /\ Target(m2)' = Target(m)'
          \/ int_stack' # <<>> /\ \E m \in 1..N : State(m)' = c /\ Target(m)' = Head(int_stack')
      <3>1. CASE t = statecount
        BY <3>1, <1>3, <1>2, <1>4
      <3>2. CASE t < statecount /\ int_stack # <<>> /\ LeadsTo(c, Head(int_stack), N)
        <4>1. PICK m \in 1..(N - 1) : State(m) = c /\ Target(m) = Head(int_stack)
          BY <3>2 DEF LeadsTo
        <4>2. m \in Places /\ m \in 1..N BY <1>2 DEF Places
        <4> QED BY <3>2, <4>1, <4>2, <1>3, <1>4
      <3>3. CASE t < statecount /\ NothingNew(c, N)
        <4>1. \A m \in Places : State(m) = c /\ Target(m) > 0 =>
                 \E m2 \in Places : State(m2) # c /\ Target(m2) = Target(m)
          BY <3>3 DEF NothingNew, Places
        <4>2. t > 0 => \E m \in Places : Target(m) = t
          BY <3>3, <1>1 DEF Numbered, States
        <4>3. t > 0 => \E m2 \in Places : State(m2) # c /\ Target(m2) = t
          BY <4>1, <4>2
        <4>4. 1..N = Places \cup {N} BY <1>2 DEF Places
        <4> QED BY <4>1, <4>3, <4>4, <1>4
      <3>4. NothingNew(c, N) \/ (int_stack # <<>> /\ LeadsTo(c, Head(int_stack), N))
        <4>1. CASE Len(lines) = 0 \/ State(Len(lines)) # c
          <5>1. \A k \in Places : State(k) # c BY <4>1, <1>1 DEF Waiting
          <5> QED BY <5>1 DEF NothingNew, Places
        <4>2. CASE Len(lines) # 0 /\ State(Len(lines)) = c
          BY <4>2, <1>1 DEF Descends
        <4> QED BY <4>1, <4>2
      <3> QED BY <3>1, <3>2, <3>3, <3>4, <1>3
    <2> QED BY <1>1, <1>2, <2>1, <2>2, <2>3 DEF Descends, NothingNew, LeadsTo
  <1> QED BY <1>6, <1>7, <1>8, <1>9, <1>10

LEMMA EndStateKeeps ==
  ASSUME WInv, EndState PROVE WInv'
  <1> USE DEF WInv
  <1>0. /\ wpc = "arcs" /\ wpc' = "pop" /\ UNCHANGED <<statecount, int_stack, current>>
        /\ Len(lines) \in Nat /\ current.state_no \in States
        /\ Last(lines) = lines[Len(lines)]
        /\ lines # <<>> <=> Len(lines) # 0
    BY DEF EndState, WType, Last
  <1>1. CASE lines' = lines /\ Len(lines) # 0 /\ State(Len(lines)) = current.state_no
    <2> USE DEF States, Places, State, Target
    <2>1. WType' BY <1>0, <1>1 DEF WType
    <2>2. Waiting' BY <1>0, <1>1 DEF Waiting
    <2>3. Together' BY <1>0, <1>1 DEF Together
    <2>4. Numbered' BY <1>0, <1>1 DEF Numbered
    <2>5. Descends' BY <1>0, <1>1 DEF Descends, NothingNew, LeadsTo
    <2> QED BY <2>1, <2>2, <2>3, <2>4, <2>5
  <1>2. CASE /\ Len(lines) = 0 \/ State(Len(lines)) # current.state_no
             /\ lines' = Append(lines, Line(current.state_no, -1, -1, current.final))
    <2>0. \E N, c, l : N = Len(lines) + 1 /\ c = current.state_no
                       /\ l = Line(c, -1, -1, current.final)
      OBVIOUS
    <2> SUFFICES ASSUME NEW N, NEW c, NEW l, N = Len(lines) + 1, c = current.state_no,
                        l = Line(c, -1, -1, current.final)
                 PROVE  WInv'
      BY <2>0
    <2>1. l \in AnyLine /\ lines' = Append(lines, l) /\ l.state_no = c /\ l.target = -1
      BY <1>0, <1>2 DEF WType, AnyLine, Line, States
    <2>2. /\ lines' \in Seq(AnyLine) /\ Len(lines') = N /\ N \in Nat \ {0}
          /\ Places' = Places \cup {N} /\ N \notin Places
          /\ \A k \in Places : lines'[k] = lines[k]
          /\ lines'[N] = l
      BY <1>0, <2>1, Grown DEF Places
    <2>3. /\ \A k \in Places : State(k)' = State(k) /\ Target(k)' = Target(k)
          /\ State(N)' = c /\ Target(N)' = -1 /\ c \in States /\ States' = States
      BY <1>0, <2>1, <2>2 DEF State, Target, States
    <2>4. \A k \in Places : State(k) # c
      BY <1>0, <1>2 DEF Waiting
    <2>5. WType'
      <3>1. \A k \in Places' : State(k)' \in States' /\ Target(k)' \in States' \cup {-1}
        BY <2>2, <2>3 DEF WType
      <3> QED BY <1>0, <2>2, <2>3, <3>1 DEF WType
    <2>6. Waiting'
      BY <1>0, <2>2, <2>3 DEF Waiting
    <2>7. Together'
      <3>1. ASSUME NEW k \in Places', NEW n \in Places', State(k)' = State(n)'
            PROVE  /\ lines'[k].final_state = lines'[n].final_state
                   /\ k # n => Target(k)' # -1
                   /\ \A m \in k..n : State(m)' = State(k)'
        <4>1. CASE k \in Places /\ n \in Places
          <5>1. k..n \subseteq Places BY <4>1 DEF Places
          <5> QED BY <4>1, <5>1, <3>1, <2>2, <2>3 DEF Together
        <4>2. CASE k = N /\ n = N
          <5>1. \A m \in k..n : m = N BY <4>2, <2>2
          <5> QED BY <4>2, <5>1
        <4> QED BY <4>1, <4>2, <3>1, <2>2, <2>3, <2>4
      <3>2. \A k \in Places' : Target(k)' # -1 => lines'[k].label = k - 1
        BY <2>2, <2>3 DEF Together
      <3> QED BY <3>1, <3>2 DEF Together
    <2>8. Numbered'
      <3>1. \A u \in States' : u # 0 => \E m \in Places' : Target(m)' = u
        BY <2>2, <2>3 DEF Numbered
      <3>2. ASSUME NEW k \in Places', NEW u \in 1..State(k)'
            PROVE  \E m \in 1..(k - 1) : Target(m)' = u
        <4>1. CASE k \in Places
          <5>1. PICK m \in 1..(k - 1) : Target(m) = u
            BY <4>1, <3>2, <2>3 DEF Numbered
          <5>2. m \in Places BY <4>1, <1>0 DEF Places
          <5> QED BY <5>1, <5>2, <2>3
        <4>2. CASE k = N
          <5>1. u \in States /\ u # 0 BY <4>2, <2>3, <1>0, <3>2 DEF States, WType
          <5>2. PICK m \in Places : Target(m) = u BY <5>1 DEF Numbered
          <5>3. m \in 1..(k - 1) BY <4>2, <1>0 DEF Places
          <5> QED BY <5>2, <5>3, <2>3
        <4> QED BY <4>1, <4>2, <2>2
      <3>3. ASSUME NEW X \in SUBSET Nat, \A k \in Places' : Target(k)' \in X => State(k)' \in X,
                   X \cap States' # {}
            PROVE  0 \in X
        <4>1. \A k \in Places : Target(k) \in X => State(k) \in X
          BY <3>3, <2>2, <2>3
        <4> QED BY <3>3, <4>1, <2>3 DEF Numbered
      <3> QED BY <3>1, <3>2, <3>3 DEF Numbered
    <2>9. Descends'
      <3>1. \A p, q : \A n \in 1..N :
              /\ NothingNew(p, n)' <=> NothingNew(p, n)
              /\ LeadsTo(p, q, n)' <=> LeadsTo(p, q, n)
        BY <1>0, <2>1, Grown
      <3>2. ASSUME NEW n \in Places', n > 1, State(n)' # State(n - 1)'
            PROVE  LeadsTo(State(n - 1), State(n), n)' \/ NothingNew(State(n - 1), n)'
        <4>1. n \in 1..N /\ n - 1 \in Places BY <3>2, <2>2 DEF Places
        <4>2. State(n - 1)' = State(n - 1) BY <4>1, <2>3
        <4>3. LeadsTo(State(n - 1), State(n)', n) \/ NothingNew(State(n - 1), n)
          <5>1. CASE n \in Places BY <5>1, <3>2, <4>2, <2>3 DEF Descends
          <5>2. CASE n = N
            <6>1. State(n)' = c BY <5>2, <2>3
            <6> QED BY <5>2, <6>1, <3>2, <4>2, <1>0 DEF Descends
          <5> QED BY <5>1, <5>2, <2>2
        <4>4. \A p, q : /\ NothingNew(p, n)' <=> NothingNew(p, n)
                        /\ LeadsTo(p, q, n)' <=> LeadsTo(p, q, n)
          BY <4>1, <3>1
        <4>5. /\ NothingNew(State(n - 1), n)' <=>
                   \A m \in 1..(n - 1) : State(m)' = State(n - 1)' /\ Target(m)' > 0 =>
                     \E m2 \in 1..(n - 1) : State(m2)' # State(n - 1)' /\ Target(m2)' = Target(m)'
              /\ LeadsTo(State(n - 1), State(n), n)' <=>
                   \E m \in 1..(n - 1) : State(m)' = State(n - 1)' /\ Target(m)' = State(n)'
          BY DEF NothingNew, LeadsTo
        <4> QED BY <4>2, <4>3, <4>4
      <3>3. State(N)' = c /\ Len(lines') = N BY <2>2, <2>3
      <3>4. \A m \in 1..N : State(m)' = c => Target(m)' = -1
        <4>1. 1..N = Places \cup {N} BY <1>0 DEF Places
        <4> QED BY <4>1, <2>3, <2>4
      <3>5. \A m \in 1..N : ~(State(m)' = c /\ Target(m)' > 0)
        BY <3>4
      <3> QED BY <1>0, <2>2, <3>2, <3>3, <3>5 DEF Descends, NothingNew, LeadsTo
    <2> QED BY <2>5, <2>6, <2>7, <2>8, <2>9
  <1> QED BY <1>0, <1>1, <1>2 DEF EndState, State

LEMMA WorklistKeeps == WInv /\ [WNext]_wvars => WInv'
  <1> SUFFICES ASSUME WInv, [WNext]_wvars PROVE WInv'
    OBVIOUS
  <1>1. CASE SetCurrentState BY <1>1, SetCurrentKeeps
  <1>2. ASSUME NEW t \in 0..statecount, AddArc(t) PROVE WInv'
    BY <1>2, AddArcKeeps
  <1>3. CASE EndState BY <1>3, EndStateKeeps
  <1>4. CASE Close \/ UNCHANGED wvars
    <2>1. UNCHANGED <<lines, statecount, int_stack, current>>
          /\ (wpc' = wpc \/ (wpc' = "closed" /\ wpc = "pop" /\ int_stack = <<>>))
      BY <1>4 DEF Close, wvars
    <2> USE DEF WInv, States, Places, State, Target
    <2>2. WType' BY <2>1 DEF WType
    <2>3. Waiting' BY <2>1 DEF Waiting
    <2>4. Together' /\ Numbered' BY <2>1 DEF Together, Numbered
    <2>5. Descends' BY <2>1 DEF Descends, NothingNew, LeadsTo
    <2> QED BY <2>2, <2>3, <2>4, <2>5
  <1> QED BY <1>1, <1>2, <1>3, <1>4 DEF WNext

-----------------------------------------------------------------------------

\* State s of the machine given is final.
Final(s) == \E k \in Places : State(k) = s /\ lines[k].final_state

\* The array of lines as it is given.
Input == [k \in 0..Len(lines) |-> IF k = Len(lines) THEN Sentinel ELSE lines[k + 1]]

\* The number that fsm_coaccessible gives to state s.
NewNumber(s) == IF s = 0 THEN 0 ELSE IF s \in coacc THEN Cardinality(coacc \cap 1..s) ELSE -1

\* The places of the arcs among the first n lines that are kept, and of those that are not.
KeptArcs(n) == {k \in 1..n : Target(k) # -1 /\ Kept(lines[k])}
DeadArc(k) == Target(k) # -1 /\ Target(k) \notin coacc

\* Nothing has been done to the lines yet.
Untouched ==
  pc \in {"build", "mark"} => i = 0 /\ j = 0 /\ added = {} /\ new_arccount = 0

\* The states marked lead to a final state.
Marked ==
  pc # "build" =>
    /\ wpc = "closed" /\ coacc \subseteq States /\ unvisited \subseteq coacc
    /\ markcount = Cardinality(coacc)
    /\ \A s \in coacc : Final(s) \/ \E k \in Places : State(k) = s /\ Target(k) \in coacc
    /\ \A s \in States : Final(s) => s \in coacc
    /\ coacc \subseteq Useful

\* The states that lead to one marked and popped are marked.
Popped ==
  pc = "mark" =>
    /\ inverses = [t \in States |-> {s \in States \ {t} :
                     \E k \in Places : State(k) = s /\ Target(k) = t}]
    /\ \A t \in coacc \ unvisited : inverses[t] \subseteq coacc
    /\ fsm = Input
    /\ net = [statecount |-> statecount,
              arccount |-> Cardinality({l \in ToSet(lines) : l.target # -1})]

\* The states that lead to a marked one are all marked, and numbered.
Settled ==
  pc = "compact" =>
    /\ \A k \in Places : Target(k) \in coacc => State(k) \in coacc
    /\ mapping = [s \in States |-> NewNumber(s)]

\* What is read is still there; and how far behind the writing is.
Reading ==
  pc = "compact" =>
    /\ i \in 0..Len(lines) /\ j \in 0..i
    /\ fsm \in [0..Len(lines) -> AnyLine]
    /\ \A k \in i..Len(lines) : fsm[k] = Input[k]
    /\ i > 0 => fsm[i - 1].state_no = State(i) /\ fsm[i - 1].final_state = lines[i].final_state
    /\ added \subseteq coacc
    /\ \A k \in 1..i : Kept(lines[k]) => State(k) \in added
    /\ i > 0 /\ State(i) \notin added => j < i
    /\ (\E k \in 1..i : DeadArc(k)) => j < i
    /\ i > 0 /\ State(i) \in coacc \ added
         /\ (\E k \in 1..i : DeadArc(k) /\ State(k) # State(i)) => j < i - 1

\* What is written so far: the lines of the states added, those kept and no others.
Written ==
  pc = "compact" =>
    /\ \A m \in 0..(j - 1) : \E s \in added :
         fsm[m].state_no = mapping[s] /\ (fsm[m].final_state <=> Final(s))
    /\ \A s \in added : \E m \in 0..(j - 1) : fsm[m].state_no = mapping[s]
    /\ \A m \in 0..(j - 1) : fsm[m].target # -1 =>
         \E k \in KeptArcs(i) : fsm[m] = Renumbered(lines[k])
    /\ \A k \in KeptArcs(i) : \E m \in 0..(j - 1) : fsm[m] = Renumbered(lines[k])

\* The arcs written are counted.
Counted ==
  pc = "compact" =>
    /\ new_arccount = Cardinality({lines[k] : k \in KeptArcs(i)})
    /\ new_arccount = Cardinality({m \in 0..(j - 1) : fsm[m].target # -1})

\* The lines of a state are written together, and a marked state is added when its lines
\* have been read.
Blocks ==
  pc = "compact" =>
    /\ \A k, m, n \in 0..(j - 1) : k < m /\ m < n /\ fsm[k].state_no = fsm[n].state_no =>
         fsm[m].state_no = fsm[k].state_no /\ fsm[m].target # -1
    /\ added \subseteq {State(k) : k \in 1..i}
    /\ \A k \in 1..i : State(k) \in coacc /\ State(k) # State(i) => State(k) \in added
    /\ i > 0 => \A k \in 0..(j - 1) : fsm[k].state_no = mapping[State(i)] =>
         /\ \A m \in k..(j - 1) : fsm[m].state_no = mapping[State(i)]
         /\ i < Len(lines) /\ State(i + 1) = State(i) => fsm[k].target # -1

-----------------------------------------------------------------------------

LEMMA StatesFinite ==
  ASSUME WType
  PROVE  /\ IsFiniteSet(States) /\ Cardinality(States) = statecount
         /\ \A X \in SUBSET States :
              /\ IsFiniteSet(X) /\ Cardinality(X) \in Nat
              /\ Cardinality(X) >= statecount => X = States
  <1>1. IsFiniteSet(States) /\ Cardinality(States) = statecount
    BY FS_Interval DEF WType, States
  <1>2. ASSUME NEW X \in SUBSET States
        PROVE  /\ IsFiniteSet(X) /\ Cardinality(X) \in Nat
               /\ Cardinality(X) >= statecount => X = States
    <2>1. /\ IsFiniteSet(X) /\ Cardinality(X) <= Cardinality(States)
          /\ Cardinality(States) = Cardinality(X) => States = X
      BY <1>1, FS_Subset
    <2>2. Cardinality(X) \in Nat BY <2>1, FS_CardinalityType
    <2> QED BY <1>1, <2>1, <2>2 DEF WType
  <1> QED BY <1>1, <1>2

\* The new number of a state is the number of marked states before it.
LEMMA Ranks ==
  ASSUME NEW c \in Nat, NEW X \in SUBSET (0..(c - 1)), X # {} => 0 \in X
  PROVE  /\ \A s \in X : /\ Cardinality({u \in X : u < s}) \in Nat
                         /\ s # 0 => Cardinality({u \in X : u < s}) = Cardinality(X \cap 1..s)
                         /\ s = 0 => Cardinality({u \in X : u < s}) = 0
         /\ \A s, t \in X : s < t => Cardinality({u \in X : u < s}) < Cardinality({u \in X : u < t})
         /\ \A s \in Nat : 1..s \subseteq X => Cardinality(X \cap 1..s) = s
  <1>0. IsFiniteSet(0..(c - 1)) /\ \A x \in X : x \in Nat
    BY FS_Interval
  <1>1. IsFiniteSet(X) /\ X \subseteq Nat
    BY <1>0, FS_Subset
  <1>2. \A Y \in SUBSET X : IsFiniteSet(Y) /\ Cardinality(Y) \in Nat
    BY <1>1, FS_Subset, FS_CardinalityType
  <1>3. ASSUME NEW s \in X, s # 0
        PROVE  Cardinality({u \in X : u < s}) = Cardinality(X \cap 1..s)
    <2>0. s \in Nat \ {0} /\ 0 \in X BY <1>1, <1>3
    <2>1. \A u \in Nat : /\ u < s <=> u \in 1..(s - 1) \/ u = 0
                         /\ u \in 1..s <=> u \in 1..(s - 1) \/ u = s
      BY <2>0
    <2>2. {u \in X : u < s} = (X \cap 1..(s - 1)) \cup {0}
      BY <1>1, <2>0, <2>1
    <2>3. X \cap 1..s = (X \cap 1..(s - 1)) \cup {s}
      BY <1>1, <2>0, <2>1
    <2>4. 0 \notin X \cap 1..(s - 1) /\ s \notin X \cap 1..(s - 1)
      BY <2>0
    <2>5. IsFiniteSet(X \cap 1..(s - 1)) BY <1>2
    <2>6. Cardinality((X \cap 1..(s - 1)) \cup {0}) = Cardinality(X \cap 1..(s - 1)) + 1
      BY <2>4, <2>5, FS_AddElement
    <2>7. Cardinality((X \cap 1..(s - 1)) \cup {s}) = Cardinality(X \cap 1..(s - 1)) + 1
      BY <2>4, <2>5, FS_AddElement
    <2> QED BY <2>2, <2>3, <2>6, <2>7
  <1>4. ASSUME NEW s \in X, s = 0 PROVE Cardinality({u \in X : u < s}) = 0
    <2>0. \A u \in Nat : ~(u < 0) OBVIOUS
    <2>1. {u \in X : u < s} = {} BY <2>0, <1>1, <1>4
    <2> QED BY <2>1, FS_EmptySet
  <1>5. ASSUME NEW s \in X, NEW t \in X, s < t
        PROVE  Cardinality({u \in X : u < s}) < Cardinality({u \in X : u < t})
    <2> DEFINE A == {u \in X : u < s}
               B == {u \in X : u < t}
    <2>0. \A u, v, w \in Nat : ~(u < u) /\ (u < v /\ v < w => u < w) OBVIOUS
    <2>1. A \cup {s} \subseteq B /\ s \notin A BY <2>0, <1>1, <1>5
    <2>2. IsFiniteSet(A) /\ IsFiniteSet(B) /\ Cardinality(A) \in Nat /\ Cardinality(B) \in Nat
      BY <1>2
    <2>3. Cardinality(A \cup {s}) = Cardinality(A) + 1 BY <2>1, <2>2, FS_AddElement
    <2>4. Cardinality(A \cup {s}) <= Cardinality(B) BY <2>1, <2>2, FS_Subset
    <2> QED BY <2>2, <2>3, <2>4
  <1>6. ASSUME NEW s \in Nat, 1..s \subseteq X PROVE Cardinality(X \cap 1..s) = s
    <2>1. X \cap 1..s = 1..s BY <1>6
    <2>2. Cardinality(1..s) = s BY FS_Interval
    <2> QED BY <2>1, <2>2
  <1>7. \A s \in X : Cardinality({u \in X : u < s}) \in Nat BY <1>2
  <1> QED BY <1>3, <1>4, <1>5, <1>6, <1>7

\* What makes a state useful.
LEMMA UsefulFacts ==
  ASSUME WType
  PROVE  /\ Useful \subseteq States
         /\ \A k \in Places : lines[k].final_state => State(k) \in Useful
         /\ \A k \in Places : Target(k) \in Useful => State(k) \in Useful
         /\ \A X \in SUBSET States :
              /\ \A k \in Places : lines[k].final_state => State(k) \in X
              /\ \A k \in Places : Target(k) \in X => State(k) \in X
              => Useful \subseteq X
  <1>1. ToSet(lines) = {lines[k] : k \in Places}
    BY DEF ToSet, WType, Places
  <1>2. \A k \in Places : State(k) \in States
    BY DEF WType
  <1> QED BY <1>1, <1>2 DEF Useful, State, Target

LEMMA EnterKeeps ==
  ASSUME WInv, Untouched, Enter
  PROVE  /\ WInv' /\ Untouched' /\ Marked' /\ Popped' /\ Settled' /\ Reading' /\ Written'
         /\ Counted' /\ Blocks' /\ TrimResult'
  <1> DEFINE finals == {l.state_no : l \in {m \in ToSet(lines) : m.final_state}}
  <1>1. /\ UNCHANGED wvars /\ pc = "build" /\ pc' = "mark" /\ wpc = "closed"
        /\ UNCHANGED <<i, j, added, new_arccount>>
        /\ coacc' = finals /\ unvisited' = finals /\ markcount' = Cardinality(finals)
    BY DEF Enter
  <1>2. ToSet(lines) = {lines[k] : k \in Places} /\ WType
    BY DEF WInv, ToSet, WType, Places
  <1>3. finals = {s \in States : Final(s)}
    BY <1>2 DEF Final, WType, State
  <1>4. WInv'
    BY <1>1, WorklistKeeps DEF wvars
  <1>5. Marked'
    <2>1. finals \subseteq Useful
      BY <1>2, <1>3, UsefulFacts DEF Final
    <2>2. Useful' = Useful /\ States' = States /\ \A s : Final(s)' = Final(s)
      BY <1>1 DEF wvars, Useful, States, Final, Places, State
    <2>3. wpc' = "closed" BY <1>1 DEF wvars
    <2> HIDE DEF finals
    <2> QED BY <1>1, <1>3, <2>1, <2>2, <2>3 DEF Marked
  <1>6. Popped'
    <2>1. inverses' = [t \in States |-> {s \in States \ {t} :
                         \E l \in ToSet(lines) : l.state_no = s /\ l.target = t}]
      BY DEF Enter
    <2>2. \A t, s : (\E l \in ToSet(lines) : l.state_no = s /\ l.target = t)
                      <=> \E k \in Places : State(k) = s /\ Target(k) = t
      BY <1>2 DEF State, Target
    <2>3. inverses' = [t \in States |-> {s \in States \ {t} :
                         \E k \in Places : State(k) = s /\ Target(k) = t}]
      <3>1. \A t \in States : {s \in States \ {t} : \E l \in ToSet(lines) : l.state_no = s /\ l.target = t}
                 = {s \in States \ {t} : \E k \in Places : State(k) = s /\ Target(k) = t}
        BY <2>2
      <3> QED BY <2>1, <3>1
    <2>4. fsm' = Input /\ net' = [statecount |-> statecount,
                arccount |-> Cardinality({l \in ToSet(lines) : l.target # -1})]
      BY DEF Enter, Input
    <2>5. States' = States /\ Places' = Places /\ Input' = Input /\ lines' = lines
          /\ statecount' = statecount
      BY <1>1 DEF wvars, States, Places, Input
    <2>6. \A k : State(k)' = State(k) /\ Target(k)' = Target(k)
      BY <1>1 DEF wvars, State, Target
    <2> QED BY <1>1, <2>3, <2>4, <2>5, <2>6 DEF Popped
  <1> QED BY <1>1, <1>4, <1>5, <1>6 DEF Untouched, Settled, Reading, Written, Counted, Blocks, TrimResult

\* When all states are useful the lines are left as they are, which is right.
LEMMA Whole ==
  ASSUME WInv, wpc = "closed", Useful = States, fsm = Input,
         net = [statecount |-> statecount,
                arccount |-> Cardinality({l \in ToSet(lines) : l.target # -1})]
  PROVE  Trimmed
  <1> DEFINE L == Len(lines)
  <1>1. WType /\ Waiting /\ Together BY DEF WInv
  <1>2. L \in Nat /\ statecount \in Nat \ {0} BY <1>1 DEF WType
  <1>3. ToSet(lines) = {lines[k] : k \in Places} BY <1>1 DEF ToSet, WType, Places
  <1>4. \A k \in Places : /\ lines[k].state_no \in States /\ lines[k].state_no # -1
                          /\ lines[k].target \in States \cup {-1}
    BY <1>1 DEF WType, State, Target, States
  <1>5. \A s \in States : \E k \in Places : lines[k].state_no = s
    BY <1>1 DEF Waiting, WType, State
  <1>6. \A k \in 0..(L - 1) : fsm[k] = lines[k + 1] /\ k + 1 \in Places /\ k \in 0..L
    BY <1>2 DEF Input, Places
  <1>7. \A k \in Places : k - 1 \in 0..(L - 1) /\ fsm[k - 1] = lines[k]
    <2>1. \A k \in Places : k - 1 \in 0..(L - 1) /\ (k - 1) + 1 = k BY <1>2 DEF Places
    <2> QED BY <2>1, <1>6
  <1>8. ResultLines = 0..(L - 1)
    <2>1. DOMAIN fsm = 0..L /\ fsm[L].state_no = -1
      BY <1>2 DEF Input, Sentinel, Line
    <2>2. \A k \in 0..(L - 1) : \A m \in 0..k : m \in 0..(L - 1) BY <1>2
    <2>3. \A k \in 0..L : k \in 0..(L - 1) \/ L \in 0..k BY <1>2
    <2> QED BY <2>1, <2>2, <2>3, <1>4, <1>6 DEF ResultLines
  <1>9. \A s \in States : Rank(s) = s
    <2> SUFFICES ASSUME NEW s \in States PROVE Rank(s) = s
      OBVIOUS
    <2>1. \A u \in Int : u \in States /\ u < s <=> u \in 0..(s - 1)
      BY <1>2 DEF States
    <2>2. States \subseteq Int /\ s \in Nat BY <1>2 DEF States
    <2>3. {u \in States : u < s} = 0..(s - 1)
      <3>1. \A u \in States : u < s => u \in 0..(s - 1) BY <2>1, <2>2
      <3>2. \A u \in 0..(s - 1) : u \in States /\ u < s
        <4>1. 0..(s - 1) \subseteq Int OBVIOUS
        <4> QED BY <2>1, <4>1
      <3> QED BY <3>1, <3>2
    <2>4. Cardinality(0..(s - 1)) = s BY <2>2, FS_Interval
    <2> QED BY <2>3, <2>4 DEF Rank
  <1>10. UsefulArcs = {l \in ToSet(lines) : l.target # -1}
    BY <1>3, <1>4 DEF UsefulArcs
  <1>11. ResultArcs = {k \in 0..(L - 1) : lines[k + 1].target # -1}
    BY <1>6, <1>8 DEF ResultArcs
  <1>12. ASSUME NEW k \in ResultArcs
         PROVE  /\ lines[k + 1] \in UsefulArcs /\ fsm[k] = lines[k + 1]
                /\ Rank(lines[k + 1].state_no) = lines[k + 1].state_no
                /\ Rank(lines[k + 1].target) = lines[k + 1].target
    BY <1>3, <1>4, <1>6, <1>9, <1>10, <1>11
  <1>13. ASSUME NEW l \in UsefulArcs
         PROVE  \E k \in ResultArcs : l = lines[k + 1]
    <2>1. PICK k \in Places : l = lines[k] /\ lines[k].target # -1
      BY <1>3, <1>10
    <2>2. k - 1 \in ResultArcs /\ (k - 1) + 1 = k
      BY <2>1, <1>2, <1>7, <1>11 DEF Places
    <2> QED BY <2>1, <2>2
  <1>14. {<<fsm[k].state_no, fsm[k].label, fsm[k].target>> : k \in ResultArcs}
           = {<<Rank(l.state_no), l.label, Rank(l.target)>> : l \in UsefulArcs}
    BY <1>12, <1>13
  <1>15. Cardinality(ResultArcs) = Cardinality(UsefulArcs)
    <2> DEFINE f == [k \in ResultArcs |-> lines[k + 1]]
    <2>1. f \in [ResultArcs -> UsefulArcs] BY <1>12
    <2>2. \A k \in ResultArcs : lines[k + 1].label = k
      <3>1. \A k \in Int : (k + 1) - 1 = k OBVIOUS
      <3>2. \A k \in 0..(L - 1) : k + 1 \in Places /\ k \in Int
        <4> HIDE DEF L
        <4> QED BY <1>2, <1>6
      <3> QED BY <3>1, <3>2, <1>1, <1>11 DEF Together, Target
    <2>3. f \in Injection(ResultArcs, UsefulArcs) BY <2>1, <2>2 DEF Injection, IsInjective
    <2>4. f \in Surjection(ResultArcs, UsefulArcs) BY <2>1, <1>13 DEF Surjection
    <2>5. ExistsBijection(ResultArcs, UsefulArcs)
      BY <2>3, <2>4 DEF ExistsBijection, Bijection
    <2>6. IsFiniteSet(0..(L - 1)) BY <1>2, FS_Interval
    <2>7. IsFiniteSet(ResultArcs) BY <2>6, <1>11, FS_Subset
    <2> QED BY <2>5, <2>7, FS_Bijection
  <1>16. {fsm[k].state_no : k \in ResultLines} = {0} \cup {Rank(s) : s \in Useful}
    <2>1. \A k \in ResultLines : fsm[k].state_no \in States BY <1>4, <1>6, <1>8
    <2>2. \A s \in States : \E k \in ResultLines : fsm[k].state_no = s
      BY <1>5, <1>7, <1>8
    <2>3. 0 \in States BY <1>2 DEF States
    <2> QED BY <2>1, <2>2, <2>3, <1>9
  <1>17. net.statecount = Cardinality(Useful)
    BY <1>1, StatesFinite
  <1>18. ASSUME NEW k \in ResultLines, NEW s \in Useful, fsm[k].state_no = Rank(s)
         PROVE  fsm[k].final_state <=> \E l \in ToSet(lines) : l.state_no = s /\ l.final_state
    <2>1. k + 1 \in Places /\ lines[k + 1].state_no = s /\ fsm[k] = lines[k + 1]
      BY <1>6, <1>8, <1>9, <1>18
    <2>2. \A n \in Places : lines[n].state_no = s => lines[n].final_state = lines[k + 1].final_state
      BY <2>1, <1>1 DEF Together, State
    <2> QED BY <2>1, <2>2, <1>3
  <1>19. ASSUME NEW k \in ResultLines, NEW m \in ResultLines, NEW n \in ResultLines,
                k < m, m < n, fsm[k].state_no = fsm[n].state_no
         PROVE  fsm[m].state_no = fsm[k].state_no /\ fsm[m].target # -1
    <2>1. /\ k + 1 \in Places /\ m + 1 \in Places /\ n + 1 \in Places
          /\ fsm[k] = lines[k + 1] /\ fsm[m] = lines[m + 1] /\ fsm[n] = lines[n + 1]
          /\ m + 1 \in (k + 1)..(n + 1) /\ m + 1 # n + 1
      BY <1>2, <1>6, <1>8, <1>19
    <2>2. State(m + 1) = State(k + 1) /\ State(k + 1) = State(n + 1)
      BY <2>1, <1>1, <1>19 DEF Together, State
    <2>3. Target(m + 1) # -1 BY <2>1, <2>2, <1>1 DEF Together
    <2> QED BY <2>1, <2>2, <2>3 DEF State, Target
  <1>20. net.arccount = Cardinality(UsefulArcs) BY <1>10
  <1> QED BY <1>14, <1>15, <1>16, <1>17, <1>18, <1>19, <1>20 DEF Trimmed

\* The result depends on the lines, before and after, and on the counts only.
LEMMA TrimmedFrame ==
  ASSUME UNCHANGED <<fsm, net, lines, statecount>>, Trimmed PROVE Trimmed'
  <1>1. UNCHANGED <<ResultLines, ResultArcs, UsefulArcs, Useful, fsm, net, lines>>
    BY DEF ResultLines, ResultArcs, UsefulArcs, Useful, States
  <1>2. \A t : Rank(t)' = Rank(t) BY <1>1 DEF Rank
  <1>3. {<<fsm[k].state_no, fsm[k].label, fsm[k].target>> : k \in ResultArcs}'
          = {<<fsm[k].state_no, fsm[k].label, fsm[k].target>> : k \in ResultArcs}
    BY <1>1
  <1>4. {<<Rank(l.state_no), l.label, Rank(l.target)>> : l \in UsefulArcs}'
          = {<<Rank(l.state_no), l.label, Rank(l.target)>> : l \in UsefulArcs}
    BY <1>1, <1>2
  <1>5. {fsm[k].state_no : k \in ResultLines}' = {fsm[k].state_no : k \in ResultLines}
    BY <1>1
  <1>6. ({0} \cup {Rank(t) : t \in Useful})' = {0} \cup {Rank(t) : t \in Useful}
    BY <1>1, <1>2
  <1>7. \A k, t : fsm'[k].state_no = Rank(t)' => fsm[k].state_no = Rank(t)
    BY <1>1, <1>2
  <1>8. \A k \in ResultLines', t \in Useful' : fsm'[k].state_no = Rank(t)' =>
          (fsm'[k].final_state <=> \E l \in ToSet(lines') : l.state_no = t /\ l.final_state)
    <2>1. \A k \in ResultLines, t \in Useful : fsm[k].state_no = Rank(t) =>
            (fsm[k].final_state <=> \E l \in ToSet(lines) : l.state_no = t /\ l.final_state)
      BY DEF Trimmed
    <2>2. fsm' = fsm /\ lines' = lines /\ ResultLines' = ResultLines /\ Useful' = Useful
      BY <1>1
    <2> SUFFICES ASSUME NEW k \in ResultLines, NEW t \in Useful, fsm[k].state_no = Rank(t)
                 PROVE  fsm'[k].final_state <=>
                          \E l \in ToSet(lines') : l.state_no = t /\ l.final_state
      BY <2>2, <1>7
    <2>3. fsm[k].final_state <=> \E l \in ToSet(lines) : l.state_no = t /\ l.final_state
      BY <2>1
    <2> QED BY <2>2, <2>3
  <1>9. \A k, m, n \in ResultLines' :
           k < m /\ m < n /\ fsm'[k].state_no = fsm'[n].state_no
             => fsm'[m].state_no = fsm'[k].state_no /\ fsm'[m].target # -1
    BY <1>1 DEF Trimmed
  <1>10. /\ Cardinality(ResultArcs') = Cardinality(UsefulArcs')
        /\ net'.arccount = Cardinality(UsefulArcs') /\ net'.statecount = Cardinality(Useful')
    BY <1>1 DEF Trimmed
  <1> QED BY <1>3, <1>4, <1>5, <1>6, <1>8, <1>9, <1>10 DEF Trimmed

LEMMA MarkKeeps ==
  ASSUME WInv, Untouched, Marked, Popped, NEW s \in unvisited, Mark(s)
  PROVE  /\ WInv' /\ Untouched' /\ Marked' /\ Popped' /\ Settled' /\ Reading' /\ Written'
         /\ Counted' /\ Blocks' /\ TrimResult'
  <1> DEFINE new == inverses[s] \ coacc
  <1>1. /\ UNCHANGED <<wvars, fsm, inverses, mapping, added, i, j, new_linecount, new_arccount, net>>
        /\ pc = "mark" /\ coacc' = coacc \cup new /\ markcount' = markcount + Cardinality(new)
        /\ \/ markcount' >= statecount /\ unvisited' = {} /\ pc' = "done"
           \/ markcount' < statecount /\ unvisited' = (unvisited \ {s}) \cup new /\ pc' = "mark"
    <2>1. WType BY DEF WInv
    <2>2. IsFiniteSet(new) /\ Cardinality(new) \in Nat
      <3>1. new \in SUBSET States BY DEF Popped, Mark, Marked
      <3> QED BY <3>1, <2>1, StatesFinite
    <2>3. markcount \in Nat BY <2>1, StatesFinite DEF Mark, Marked
    <2> QED BY <2>1, <2>2, <2>3 DEF Mark, WType
  <1>2. /\ WType /\ wpc = "closed" /\ coacc \subseteq States /\ unvisited \subseteq coacc
        /\ markcount = Cardinality(coacc) /\ coacc \subseteq Useful
        /\ \A t \in coacc : Final(t) \/ \E k \in Places : State(k) = t /\ Target(k) \in coacc
        /\ \A t \in States : Final(t) => t \in coacc
    BY <1>1 DEF Marked, WInv
  <1>3. /\ \A t \in States : \A u : u \in inverses[t] <=>
             u \in States \ {t} /\ \E k \in Places : State(k) = u /\ Target(k) = t
        /\ \A t \in coacc \ unvisited : inverses[t] \subseteq coacc
    BY <1>1 DEF Popped
  <1>4. s \in coacc /\ s \in States /\ new \subseteq States /\ new \cap coacc = {}
    BY <1>2, <1>3
  <1>5. UNCHANGED <<lines, statecount, int_stack, current, wpc>>
    BY <1>1 DEF wvars
  <1>6. /\ Useful' = Useful /\ States' = States /\ Places' = Places /\ Input' = Input
        /\ \A t : Final(t)' = Final(t) /\ State(t)' = State(t) /\ Target(t)' = Target(t)
    BY <1>5 DEF Useful, States, Places, Input, Final, State, Target
  <1>7. WInv' BY <1>1, WorklistKeeps
  <1>8. coacc' \subseteq Useful /\ coacc' \subseteq States
    <2>1. \A u \in new : u \in Useful BY <1>2, <1>3, <1>4, UsefulFacts
    <2> QED BY <1>1, <1>2, <1>4, <2>1
  <1>9. Marked'
    <2>1. Cardinality(coacc') = markcount'
      <3>1. IsFiniteSet(coacc) /\ IsFiniteSet(new) /\ Cardinality(coacc) \in Nat /\ Cardinality(new) \in Nat
        BY <1>2, <1>4, StatesFinite
      <3>2. Cardinality(coacc \cap new) = 0
        <4>1. coacc \cap new = {} BY <1>4
        <4> QED BY <4>1, FS_EmptySet
      <3>3. Cardinality(coacc \cup new)
              = Cardinality(coacc) + Cardinality(new) - Cardinality(coacc \cap new)
        BY <3>1, FS_Union
      <3>4. markcount' = Cardinality(coacc) + Cardinality(new) BY <1>1, <1>2
      <3>5. coacc' = coacc \cup new BY <1>1
      <3> HIDE DEF new
      <3> QED BY <3>1, <3>2, <3>3, <3>4, <3>5
    <2>2. \A t \in coacc' : Final(t) \/ \E k \in Places : State(k) = t /\ Target(k) \in coacc'
      BY <1>1, <1>2, <1>3, <1>4
    <2>3. unvisited' \subseteq coacc' BY <1>1, <1>2
    <2> QED BY <1>1, <1>2, <1>5, <1>6, <1>8, <2>1, <2>2, <2>3 DEF Marked
  <1>10. Untouched' BY <1>1 DEF Untouched
  <1>11. CASE pc' = "mark"
    <2>1. \A t \in coacc' \ unvisited' : inverses[t] \subseteq coacc'
      BY <1>1, <1>3, <1>11
    <2>2. Popped' BY <1>1, <1>5, <1>6, <2>1 DEF Popped
    <2> QED BY <1>7, <1>9, <1>10, <1>11, <2>2 DEF Settled, Reading, Written, Counted, Blocks, TrimResult
  <1>12. CASE pc' = "done"
    <2>1. coacc' = States
      <3>1. Cardinality(coacc') >= statecount BY <1>1, <1>9, <1>12 DEF Marked
      <3> QED BY <1>2, <1>8, <3>1, StatesFinite
    <2>2. Useful = States BY <1>2, <1>8, <2>1, UsefulFacts
    <2>3. Trimmed BY <1>1, <1>2, <2>2, Whole DEF Popped
    <2>4. Trimmed' BY <1>1, <1>5, <2>3, TrimmedFrame
    <2> QED BY <1>7, <1>9, <1>10, <1>12, <2>4 DEF Popped, Settled, Reading, Written, Counted, Blocks, TrimResult
  <1> QED BY <1>1, <1>11, <1>12

LEMMA NumberKeeps ==
  ASSUME WInv, Untouched, Marked, Popped, Number
  PROVE  /\ WInv' /\ Untouched' /\ Marked' /\ Popped' /\ Settled' /\ Reading' /\ Written'
         /\ Counted' /\ Blocks' /\ TrimResult'
  <1>1. /\ UNCHANGED <<wvars, fsm, coacc, unvisited, markcount, added, i, j, new_arccount, net>>
        /\ pc = "mark" /\ pc' = "compact" /\ unvisited = {}
        /\ mapping' = [s \in States |-> NewNumber(s)]
    BY DEF Number, NewNumber
  <1>2. UNCHANGED <<lines, statecount, int_stack, current, wpc>> /\ WType
    BY <1>1 DEF wvars, WInv
  <1>3. /\ Useful' = Useful /\ States' = States /\ Places' = Places /\ Input' = Input
        /\ \A t : /\ Final(t)' = Final(t) /\ State(t)' = State(t) /\ Target(t)' = Target(t)
                  /\ NewNumber(t)' = NewNumber(t)
    BY <1>1, <1>2 DEF Useful, States, Places, Input, Final, State, Target, NewNumber
  <1>4. WInv' BY <1>1, WorklistKeeps
  <1>5. Marked' BY <1>1, <1>2, <1>3 DEF Marked
  <1>6. Settled'
    <2>1. ASSUME NEW k \in Places, Target(k) \in coacc PROVE State(k) \in coacc
      <3>1. Target(k) \in States /\ State(k) \in States /\ inverses[Target(k)] \subseteq coacc
        BY <1>1, <1>2, <2>1 DEF Marked, Popped, WType
      <3>2. State(k) # Target(k) => State(k) \in inverses[Target(k)]
        BY <1>1, <3>1 DEF Popped
      <3> QED BY <2>1, <3>1, <3>2
    <2> QED BY <1>1, <1>3, <2>1 DEF Settled
  <1>7. i = 0 /\ j = 0 /\ added = {} /\ new_arccount = 0 /\ fsm = Input
    BY <1>1 DEF Untouched, Popped
  <1>8. Len(lines) \in Nat /\ Input \in [0..Len(lines) -> AnyLine]
    <2>1. Len(lines) \in Nat BY <1>2 DEF WType
    <2>2. Sentinel \in AnyLine BY DEF Sentinel, Line, AnyLine
    <2>3. \A k \in 0..Len(lines) : k # Len(lines) => lines[k + 1] \in AnyLine
      BY <1>2, <2>1 DEF WType
    <2> QED BY <2>1, <2>2, <2>3 DEF Input
  <1>9. 1..0 = {} /\ 0..(0 - 1) = {}
    OBVIOUS
  <1>10. Reading' BY <1>1, <1>2, <1>3, <1>7, <1>8, <1>9 DEF Reading
  <1>11. KeptArcs(i)' = {} BY <1>1, <1>7, <1>9 DEF KeptArcs
  <1>12. Written' /\ Blocks' BY <1>1, <1>7, <1>9, <1>11 DEF Written, Blocks
  <1>13. Counted'
    <2>1. {lines[k] : k \in KeptArcs(i)}' = {} BY <1>11
    <2>2. {m \in 0..(j - 1) : fsm[m].target # -1}' = {} BY <1>1, <1>7, <1>9
    <2> QED BY <1>1, <1>7, <2>1, <2>2, FS_EmptySet DEF Counted
  <1> QED BY <1>1, <1>4, <1>5, <1>6, <1>10, <1>12, <1>13 DEF Untouched, Popped, TrimResult

\* State 0 leads wherever a marked state does.
LEMMA ZeroMarked ==
  ASSUME WInv, Marked, Settled, pc = "compact"
  PROVE  coacc # {} => 0 \in coacc
  <1>1. coacc \subseteq States /\ States \subseteq Nat
    BY DEF Marked, WInv, WType, States
  <1> QED BY <1>1 DEF WInv, Numbered, Settled

\* The new numbers of marked states tell them apart; none is -1.
LEMMA NumbersApart ==
  ASSUME WInv, Marked, Settled, pc = "compact"
  PROVE  /\ \A s \in coacc : mapping[s] \in Nat
                             /\ mapping[s] = Cardinality({u \in coacc : u < s})
         /\ \A s, t \in coacc : mapping[s] = mapping[t] => s = t
         /\ \A s \in States \ coacc : coacc # {} => mapping[s] = -1
         /\ \A s \in coacc : 1..s \subseteq coacc => mapping[s] = s
  <1>1. /\ coacc \in SUBSET (0..(statecount - 1)) /\ statecount \in Nat
        /\ coacc # {} => 0 \in coacc
    BY ZeroMarked DEF Marked, WInv, WType, States
  <1>2. \A s \in coacc : s \in Nat /\ s \in States
    BY <1>1 DEF States
  <1>3. /\ \A s \in coacc : /\ Cardinality({u \in coacc : u < s}) \in Nat
                            /\ s # 0 => Cardinality({u \in coacc : u < s}) = Cardinality(coacc \cap 1..s)
                            /\ s = 0 => Cardinality({u \in coacc : u < s}) = 0
        /\ \A s, t \in coacc : s < t =>
             Cardinality({u \in coacc : u < s}) < Cardinality({u \in coacc : u < t})
        /\ \A s \in Nat : 1..s \subseteq coacc => Cardinality(coacc \cap 1..s) = s
    BY <1>1, Ranks
  <1>4. \A s \in States : mapping[s] = NewNumber(s)
    BY DEF Settled
  <1>5. \A s \in coacc : mapping[s] \in Nat /\ mapping[s] = Cardinality({u \in coacc : u < s})
    BY <1>2, <1>3, <1>4 DEF NewNumber
  <1>6. ASSUME NEW s \in coacc, NEW t \in coacc, mapping[s] = mapping[t] PROVE s = t
    <2>1. s < t \/ t < s \/ s = t BY <1>2
    <2> DEFINE C(v) == Cardinality({u \in coacc : u < v})
    <2>2. C(s) \in Nat /\ C(s) = C(t) BY <1>5, <1>6
    <2>3. (s < t => C(s) < C(t)) /\ (t < s => C(t) < C(s)) BY <1>3
    <2> HIDE DEF C
    <2> QED BY <2>1, <2>2, <2>3
  <1>7. \A s \in States \ coacc : coacc # {} => mapping[s] = -1
    BY <1>1, <1>4 DEF NewNumber
  <1>8. \A s \in coacc : 1..s \subseteq coacc => mapping[s] = s
    BY <1>2, <1>3, <1>4 DEF NewNumber
  <1> QED BY <1>5, <1>6, <1>7, <1>8

-----------------------------------------------------------------------------

\* The invariant of fsm_coaccessible's part of the specification.
CoInv ==
  /\ WInv /\ Untouched /\ Marked /\ Popped /\ Settled /\ Reading /\ Written
  /\ Counted /\ Blocks /\ TrimResult

\* When a final state is found to have lost its lines and a line was dropped before, either
\* there are two places free or the next line is dropped too.
LEMMA Gap ==
  ASSUME CoInv, pc = "compact", i \in Places, i + 1 \in Places,
         State(i) # State(i + 1), lines[i].final_state, State(i) \notin added,
         NEW k \in 1..i, DeadArc(k)
  PROVE  j < i - 1 \/ State(i + 1) \notin coacc
  <1> DEFINE p == State(i)
             q == State(i + 1)
  <1>1. /\ \A m \in 1..i : m \in Places /\ Target(m) \in States \cup {-1} /\ State(m) \in States
        /\ i + 1 > 1 /\ (i + 1) - 1 = i /\ i \in 1..i
    BY DEF CoInv, WInv, WType, Places
  <1>2. p \in coacc
    BY <1>1 DEF CoInv, Marked, Final
  <1>3. 0 \in coacc
    BY <1>2, ZeroMarked DEF CoInv
  <1>4. (\E m \in 1..i : DeadArc(m) /\ State(m) # p) => j < i - 1
    BY <1>1, <1>2 DEF CoInv, Reading, Places
  <1>5. \A m \in 1..i : State(m) = p => DeadArc(m)
    BY <1>2 DEF CoInv, Reading, Kept, DeadArc, State, Target
  <1>6. LeadsTo(p, q, i + 1) \/ NothingNew(p, i + 1)
    BY <1>1 DEF CoInv, WInv, Descends
  <1>7. CASE LeadsTo(p, q, i + 1)
    BY <1>1, <1>5, <1>7 DEF LeadsTo, DeadArc
  <1>8. CASE NothingNew(p, i + 1) /\ State(k) = p
    <2>1. Target(k) > 0
      BY <1>1, <1>3 DEF DeadArc, CoInv, WInv, WType, States
    <2>2. PICK m \in 1..i : State(m) # p /\ Target(m) = Target(k)
      BY <1>1, <1>8, <2>1 DEF NothingNew
    <2> QED BY <1>4, <2>2 DEF DeadArc
  <1> QED BY <1>4, <1>6, <1>7, <1>8

\* When no arc was dropped before the line that is read, the number of its state is kept.
LEMMA NoGap ==
  ASSUME CoInv, pc = "compact", i \in 0..Len(lines), i + 1 \in Places,
         \A k \in 1..i : ~DeadArc(k), State(i + 1) \in coacc
  PROVE  mapping[State(i + 1)] = State(i + 1)
  <1>1. (i + 1) - 1 = i OBVIOUS
  <1>2. \A u \in 1..State(i + 1) : \E m \in 1..i : Target(m) = u
    BY <1>1 DEF CoInv, WInv, Numbered
  <1>3. \A u \in 1..State(i + 1) : u # -1 /\ u \in coacc
    BY <1>2 DEF DeadArc
  <1> QED BY <1>3, NumbersApart DEF CoInv

\* CopyLine: a line for the state before is added when lost is true, line i is copied when
\* keep is, to place to.
Copies(lost, keep, to) ==
  /\ pc = "compact" /\ i \in 0..Len(lines) /\ i + 1 \in Places /\ i' = i + 1
  /\ lost <=> /\ i \in Places /\ State(i) # State(i + 1) /\ lines[i].final_state
              /\ State(i) \notin added
  /\ lost => State(i) \in coacc /\ j < i
  /\ keep <=> Kept(lines[i + 1])
  /\ to = IF lost THEN j + 1 ELSE j
  /\ to <= i
  /\ j' = IF keep THEN to + 1 ELSE to
  /\ added' = added \cup (IF lost THEN {State(i)} ELSE {})
                    \cup (IF keep THEN {State(i + 1)} ELSE {})
  /\ new_arccount' = new_arccount + (IF keep /\ Target(i + 1) # -1 THEN 1 ELSE 0)
  /\ fsm' \in [0..Len(lines) -> AnyLine]
  /\ lost => fsm'[j] = Line(mapping[State(i)], -1, -1, TRUE)
  /\ keep => fsm'[to] = Renumbered(lines[i + 1])
  /\ \A m \in 0..Len(lines) : ~(lost /\ m = j) /\ ~(keep /\ m = to) => fsm'[m] = fsm[m]

LEMMA CopyStep ==
  ASSUME CoInv, CopyLine
  PROVE  \E lost, keep \in BOOLEAN : \E to \in Nat : Copies(lost, keep, to)
  <1> DEFINE n == i + 1
             lost == LostFinal(i)
             now == IF lost THEN AddFinal(fsm, i) ELSE fsm
             to == IF lost THEN j + 1 ELSE j
             keep == Kept(now[i])
  <1>1. /\ pc = "compact" /\ fsm[i].state_no # -1 /\ WType
        /\ i \in 0..Len(lines) /\ j \in 0..i /\ fsm \in [0..Len(lines) -> AnyLine]
        /\ \A k \in i..Len(lines) : fsm[k] = Input[k]
        /\ i > 0 => fsm[i - 1].state_no = State(i) /\ fsm[i - 1].final_state = lines[i].final_state
        /\ Len(lines) \in Nat
    <2>1. pc = "compact" /\ fsm[i].state_no # -1 BY DEF CopyLine
    <2>2. WType /\ Reading BY DEF CoInv, WInv
    <2> QED BY <2>1, <2>2 DEF Reading, WType
  <1>2. i < Len(lines) /\ n \in Places /\ fsm[i] = lines[n] /\ State(n) \in States /\ State(n) # -1
    <2>1. i # Len(lines) BY <1>1 DEF Input, Sentinel, Line
    <2>2. i < Len(lines) /\ n \in Places /\ fsm[i] = lines[n] BY <1>1, <2>1 DEF Input, Places
    <2> QED BY <1>1, <2>2 DEF WType, States
  <1>3. lost <=> /\ i \in Places /\ State(i) # State(n) /\ lines[i].final_state
                 /\ State(i) \notin added
    BY <1>1, <1>2 DEF LostFinal, Places, State
  <1>4. lost => State(i) \in coacc /\ j < i
    <2> SUFFICES ASSUME lost PROVE State(i) \in coacc /\ j < i
      OBVIOUS
    <2>1. State(i) \in States BY <1>1, <1>3 DEF WType
    <2>2. State(i) \in coacc BY <1>1, <1>3, <2>1 DEF CoInv, Marked, Final
    <2>3. i > 0 BY <1>1, <1>3 DEF Places
    <2> QED BY <1>1, <1>3, <2>2, <2>3 DEF CoInv, Reading
  <1>5. to \in Nat /\ to <= i
    BY <1>1, <1>4
  <1>6. \A s \in States : mapping[s] \in Int
    <2>1. \A s \in States : mapping[s] = NewNumber(s) BY <1>1 DEF CoInv, Settled
    <2>2. \A s \in States : s \in coacc => mapping[s] \in Nat
      BY <1>1, NumbersApart DEF CoInv
    <2>3. \A s \in States : s \notin coacc => mapping[s] \in {0, -1} BY <2>1 DEF NewNumber
    <2> QED BY <2>2, <2>3
  <1>7. /\ now \in [0..Len(lines) -> AnyLine] /\ now[i] = lines[n]
        /\ lost => now[j] = Line(mapping[State(i)], -1, -1, TRUE)
        /\ \A m \in 0..Len(lines) : ~(lost /\ m = j) => now[m] = fsm[m]
    <2>1. CASE lost
      <3>1. i > 0 /\ State(i) \in States BY <1>1, <1>3, <2>1 DEF WType, Places
      <3>2. now = [fsm EXCEPT ![j] = Line(mapping[State(i)], -1, -1, TRUE)]
        BY <1>1, <2>1, <3>1 DEF AddFinal
      <3>3. Line(mapping[State(i)], -1, -1, TRUE) \in AnyLine
        BY <1>6, <3>1 DEF Line, AnyLine
      <3>4. j < i /\ j \in 0..Len(lines) /\ i \in 0..Len(lines) BY <1>1, <1>4, <2>1
      <3> HIDE DEF now, lost
      <3>5. fsm \in [0..Len(lines) -> AnyLine] /\ fsm[i] = lines[n] /\ i # j
        BY <1>1, <1>2, <3>4
      <3>6. now \in [0..Len(lines) -> AnyLine] BY <3>2, <3>3, <3>4, <3>5
      <3>7. now[j] = Line(mapping[State(i)], -1, -1, TRUE) BY <3>2, <3>4, <3>5
      <3>8. \A m \in 0..Len(lines) : m # j => now[m] = fsm[m] BY <3>2, <3>4, <3>5
      <3> QED BY <2>1, <3>4, <3>5, <3>6, <3>7, <3>8
    <2>2. CASE ~lost BY <1>1, <1>2, <2>2
    <2> QED BY <2>1, <2>2
  <1>8. keep => Renumbered(lines[n]) \in AnyLine
    <2> SUFFICES ASSUME keep PROVE Renumbered(lines[n]) \in AnyLine
      OBVIOUS
    <2>1. Target(n) # -1 => Target(n) \in States BY <1>1, <1>2 DEF WType
    <2>2. lines[n] \in AnyLine BY <1>1, <1>2 DEF WType, Places
    <2>3. mapping[lines[n].state_no] \in Int /\ (lines[n].target # -1 => mapping[lines[n].target] \in Int)
      BY <1>2, <1>6, <2>1 DEF State, Target
    <2> QED BY <2>2, <2>3 DEF Renumbered, Line, AnyLine
  <1>9. fsm' = IF keep THEN [now EXCEPT ![to] = Renumbered(lines[n])] ELSE now
    BY <1>7 DEF CopyLine
  <1>10. keep <=> Kept(lines[n])
    BY <1>7
  <1>11. /\ j' = IF keep THEN to + 1 ELSE to
         /\ added' = added \cup (IF lost THEN {State(i)} ELSE {}) \cup (IF keep THEN {State(n)} ELSE {})
         /\ new_arccount' = new_arccount + (IF keep /\ Target(n) # -1 THEN 1 ELSE 0)
    <2>1. lost => fsm[i - 1].state_no = State(i) BY <1>1, <1>3 DEF Places
    <2>2. now[i].state_no = State(n) /\ now[i].target = Target(n) BY <1>7 DEF State, Target
    <2> QED BY <2>1, <2>2 DEF CopyLine
  <1>12. i' = n
    BY <1>1 DEF CopyLine
  <1>13. lost \in BOOLEAN /\ keep \in BOOLEAN
    BY DEF LostFinal, Kept
  <1> HIDE DEF lost, keep, now, to
  <1>14. /\ fsm' \in [0..Len(lines) -> AnyLine]
         /\ keep => fsm'[to] = Renumbered(lines[n])
         /\ \A m \in 0..Len(lines) : ~(keep /\ m = to) => fsm'[m] = now[m]
    BY <1>1, <1>2, <1>5, <1>7, <1>8, <1>9
  <1>15. lost => j # to /\ j \in 0..Len(lines) /\ fsm'[j] = Line(mapping[State(i)], -1, -1, TRUE)
    <2>1. lost => j # to /\ j \in 0..Len(lines) BY <1>1, <1>4 DEF to
    <2> QED BY <1>7, <1>14, <2>1
  <1>16. \A m \in 0..Len(lines) : ~(lost /\ m = j) /\ ~(keep /\ m = to) => fsm'[m] = fsm[m]
    BY <1>7, <1>14
  <1>17. to = IF lost THEN j + 1 ELSE j BY DEF to
  <1>18. Copies(lost, keep, to)
    BY <1>1, <1>2, <1>3, <1>4, <1>5, <1>10, <1>11, <1>12, <1>14, <1>15, <1>16, <1>17 DEF Copies
  <1> QED BY <1>5, <1>13, <1>18

\* CopyLine leaves the machine, the marks and the numbers alone.
LEMMA CopyFrame ==
  ASSUME CoInv, CopyLine
  PROVE  /\ WInv' /\ Untouched' /\ Marked' /\ Popped' /\ Settled' /\ TrimResult'
         /\ pc' = "compact" /\ UNCHANGED <<Places, Input, lines, States, coacc, mapping>>
         /\ \A t : /\ State(t)' = State(t) /\ Target(t)' = Target(t) /\ Final(t)' = Final(t)
                   /\ DeadArc(t)' = DeadArc(t) /\ KeptArcs(t)' = KeptArcs(t)
                   /\ Kept(lines[t])' = Kept(lines[t])
                   /\ Renumbered(lines[t])' = Renumbered(lines[t])
  <1>1. /\ UNCHANGED <<wvars, coacc, unvisited, markcount, mapping>>
        /\ pc = "compact" /\ pc' = "compact"
    BY DEF CopyLine
  <1>2. UNCHANGED <<lines, statecount, int_stack, current, wpc>>
    BY <1>1 DEF wvars
  <1>3. /\ Useful' = Useful /\ States' = States /\ Places' = Places /\ Input' = Input
        /\ \A t : /\ State(t)' = State(t) /\ Target(t)' = Target(t) /\ Final(t)' = Final(t)
                  /\ NewNumber(t)' = NewNumber(t)
                  /\ DeadArc(t)' = DeadArc(t)
                  /\ Kept(lines[t])' = Kept(lines[t])
                  /\ Renumbered(lines[t])' = Renumbered(lines[t])
    BY <1>1, <1>2 DEF Useful, States, Places, Input, Final, State, Target, NewNumber,
                      DeadArc, Kept, Renumbered
  <1>4. \A t : KeptArcs(t)' = KeptArcs(t)
    BY <1>3, <1>2 DEF KeptArcs
  <1>5. WInv' BY <1>1, WorklistKeeps DEF CoInv
  <1>6. Marked' BY <1>1, <1>2, <1>3 DEF CoInv, Marked
  <1>7. Settled'
    <2>1. mapping' = [s \in States |-> NewNumber(s)] BY <1>1 DEF CoInv, Settled
    <2>2. \A k \in Places : Target(k) \in coacc => State(k) \in coacc
      BY <1>1 DEF CoInv, Settled
    <2> QED BY <1>1, <1>3, <2>1, <2>2 DEF Settled
  <1> QED BY <1>1, <1>2, <1>3, <1>4, <1>5, <1>6, <1>7 DEF Untouched, Popped, TrimResult

LEMMA CopyReading ==
  ASSUME CoInv, CopyLine PROVE Reading'
  <1>0. PICK lost \in BOOLEAN, keep \in BOOLEAN : \E to \in Nat : Copies(lost, keep, to)
    BY CopyStep
  <1>1. PICK to \in Nat : Copies(lost, keep, to)
    BY <1>0
  <1> DEFINE n == i + 1
             p == State(i)
             q == State(n)
  <1>2. /\ pc = "compact" /\ i \in 0..Len(lines) /\ n \in Places /\ i' = n
        /\ lost <=> i \in Places /\ p # q /\ lines[i].final_state /\ p \notin added
        /\ lost => p \in coacc /\ j < i
        /\ keep <=> Kept(lines[n])
        /\ to = IF lost THEN j + 1 ELSE j
        /\ to <= i
        /\ j' = IF keep THEN to + 1 ELSE to
        /\ added' = added \cup (IF lost THEN {p} ELSE {}) \cup (IF keep THEN {q} ELSE {})
        /\ fsm' \in [0..Len(lines) -> AnyLine]
        /\ keep => fsm'[to] = Renumbered(lines[n])
        /\ \A m \in 0..Len(lines) : ~(lost /\ m = j) /\ ~(keep /\ m = to) => fsm'[m] = fsm[m]
    BY <1>1 DEF Copies
  <1>3. /\ i \in 0..Len(lines) /\ j \in 0..i /\ Len(lines) \in Nat
        /\ \A k \in i..Len(lines) : fsm[k] = Input[k]
        /\ added \subseteq coacc
        /\ \A k \in 1..i : Kept(lines[k]) => State(k) \in added
        /\ i > 0 /\ p \notin added => j < i
        /\ (\E k \in 1..i : DeadArc(k)) => j < i
        /\ i > 0 /\ p \in coacc \ added
             /\ (\E k \in 1..i : DeadArc(k) /\ State(k) # p) => j < i - 1
    BY <1>2, SMTT(30) DEF CoInv, Reading, WInv, WType
  <1>4. /\ pc' = "compact" /\ UNCHANGED <<Places, Input, lines, coacc, mapping>>
        /\ \A t : /\ State(t)' = State(t) /\ DeadArc(t)' = DeadArc(t)
                  /\ Kept(lines[t])' = Kept(lines[t])
    BY CopyFrame
  <1>5. n \in Nat \ {0} /\ n \in 0..Len(lines) /\ n - 1 = i /\ fsm[i] = lines[n] /\ i # Len(lines)
    <2>1. i + 1 \in 1..Len(lines) BY <1>2 DEF Places
    <2>2. i \in i..Len(lines) /\ i # Len(lines) BY <1>3, <2>1
    <2>3. fsm[i] = lines[n] BY <1>3, <2>2 DEF Input
    <2> QED BY <1>3, <2>1, <2>2, <2>3
  <1>6. keep => q \in coacc /\ ~DeadArc(n)
    BY <1>2 DEF Kept, DeadArc, State, Target
  <1>7. lost /\ (\E k \in 1..i : DeadArc(k)) => j < i - 1 \/ q \notin coacc
    BY <1>2, Gap DEF Places
  <1>8. (\A k \in 1..i : ~DeadArc(k)) /\ q \in coacc => mapping[q] = q
    BY <1>2, NoGap
  <1> HIDE DEF n, p, q
  <1>9. j' \in 0..n /\ to \in 0..i
    BY <1>2, <1>3, <1>5
  <1>10. \A k \in n..Len(lines) : fsm'[k] = Input[k]
    BY <1>2, <1>3, <1>5
  <1>11. fsm'[n - 1].state_no = q /\ fsm'[n - 1].final_state = lines[n].final_state
    <2>1. CASE keep /\ to = i
      <3>1. mapping[q] = q
        <4>1. \A k \in 1..i : ~DeadArc(k)
          BY <2>1, <1>2, <1>3, <1>6, <1>7
        <4> QED BY <2>1, <4>1, <1>6, <1>8
      <3>2. fsm'[i] = Renumbered(lines[n]) BY <2>1, <1>2
      <3> QED BY <3>1, <3>2, <1>5 DEF Renumbered, Line, q, State
    <2>2. CASE ~(keep /\ to = i)
      <3>1. fsm'[i] = fsm[i] BY <2>2, <1>2, <1>3
      <3> QED BY <3>1, <1>5 DEF q, State
    <2> QED BY <2>1, <2>2
  <1>12. added' \subseteq coacc
    BY <1>2, <1>3, <1>6
  <1>13. \A k \in 1..n : k \in 1..i \/ k = n
    BY <1>3, <1>5
  <1>14. \A k \in 1..n : Kept(lines[k]) => State(k) \in added'
    BY <1>2, <1>3, <1>13 DEF q
  <1>15. q \notin added' => j' < n
    <2>1. q \notin added' => ~keep BY <1>2
    <2> QED BY <1>2, <1>3, <1>5, <2>1
  <1>16. (\E k \in 1..n : DeadArc(k)) => j' < n
    <2>1. CASE ~keep BY <2>1, <1>2, <1>3, <1>5
    <2>2. CASE keep /\ ~lost BY <2>2, <1>2, <1>3, <1>5, <1>6, <1>13
    <2>3. CASE keep /\ lost BY <2>3, <1>2, <1>3, <1>5, <1>6, <1>7, <1>13
    <2> QED BY <2>1, <2>2, <2>3
  <1>17. q \in coacc \ added' /\ (\E k \in 1..n : DeadArc(k) /\ State(k) # q) => j' < n - 1
    <2> SUFFICES ASSUME q \in coacc \ added', NEW k \in 1..n, DeadArc(k), State(k) # q
                 PROVE  j' < i
      BY <1>5
    <2>1. ~keep /\ k \in 1..i BY <1>2, <1>13 DEF q
    <2>2. CASE lost BY <2>1, <2>2, <1>2, <1>3, <1>5, <1>7
    <2>3. CASE ~lost BY <2>1, <2>3, <1>2, <1>3, <1>5
    <2> QED BY <2>2, <2>3
  <1> QED
    BY <1>2, <1>4, <1>5, <1>9, <1>10, <1>11, <1>12, <1>14, <1>15, <1>16, <1>17 DEF Reading, q

LEMMA CopyWritten ==
  ASSUME CoInv, CopyLine PROVE Written' /\ Counted'
  <1>0. PICK lost \in BOOLEAN, keep \in BOOLEAN : \E to \in Nat : Copies(lost, keep, to)
    BY CopyStep
  <1>1. PICK to \in Nat : Copies(lost, keep, to)
    BY <1>0
  <1> DEFINE n == i + 1
             p == State(i)
             q == State(n)
  <1>2. /\ pc = "compact" /\ i \in 0..Len(lines) /\ n \in Places /\ i' = n
        /\ lost <=> i \in Places /\ p # q /\ lines[i].final_state /\ p \notin added
        /\ lost => p \in coacc /\ j < i
        /\ keep <=> Kept(lines[n])
        /\ to = IF lost THEN j + 1 ELSE j
        /\ to <= i
        /\ j' = IF keep THEN to + 1 ELSE to
        /\ added' = added \cup (IF lost THEN {p} ELSE {}) \cup (IF keep THEN {q} ELSE {})
        /\ new_arccount' = new_arccount + (IF keep /\ Target(n) # -1 THEN 1 ELSE 0)
        /\ lost => fsm'[j] = Line(mapping[p], -1, -1, TRUE)
        /\ keep => fsm'[to] = Renumbered(lines[n])
        /\ \A m \in 0..Len(lines) : ~(lost /\ m = j) /\ ~(keep /\ m = to) => fsm'[m] = fsm[m]
    BY <1>1 DEF Copies
  <1>3. /\ j \in 0..i /\ Len(lines) \in Nat /\ lines \in Seq(AnyLine)
    BY <1>2 DEF CoInv, Reading, WInv, WType
  <1>4. /\ pc' = "compact" /\ UNCHANGED <<Places, lines, coacc, mapping>>
        /\ \A t : /\ State(t)' = State(t) /\ Final(t)' = Final(t) /\ KeptArcs(t)' = KeptArcs(t)
                  /\ Renumbered(lines[t])' = Renumbered(lines[t])
    BY CopyFrame
  <1>5. /\ \A m \in 0..(j - 1) : \E s \in added :
             fsm[m].state_no = mapping[s] /\ (fsm[m].final_state <=> Final(s))
        /\ \A s \in added : \E m \in 0..(j - 1) : fsm[m].state_no = mapping[s]
        /\ \A m \in 0..(j - 1) : fsm[m].target # -1 =>
             \E k \in KeptArcs(i) : fsm[m] = Renumbered(lines[k])
        /\ \A k \in KeptArcs(i) : \E m \in 0..(j - 1) : fsm[m] = Renumbered(lines[k])
    BY <1>2 DEF CoInv, Written
  <1>6. /\ new_arccount = Cardinality({lines[k] : k \in KeptArcs(i)})
        /\ new_arccount = Cardinality({m \in 0..(j - 1) : fsm[m].target # -1})
    BY <1>2 DEF CoInv, Counted
  <1>7. /\ keep => (fsm'[to].state_no = mapping[q] /\ (fsm'[to].final_state <=> Final(q)))
        /\ keep => (fsm'[to].target # -1 <=> Target(n) # -1)
        /\ lost => fsm'[j].state_no = mapping[p] /\ fsm'[j].final_state = TRUE /\ Final(p)
                   /\ fsm'[j].target = -1
    <2>1. CASE keep
      <3>1. /\ fsm'[to].state_no = mapping[q] /\ fsm'[to].final_state = lines[n].final_state
            /\ fsm'[to].target = IF Target(n) = -1 THEN -1 ELSE mapping[Target(n)]
        BY <2>1, <1>2, SMTT(30) DEF Renumbered, Line, State, Target
      <3>2. lines[n].final_state <=> Final(q)
        <4>1. \A k \in Places : State(k) = State(n) => lines[k].final_state = lines[n].final_state
          BY <1>2 DEF CoInv, WInv, Together
        <4> QED BY <4>1, <1>2 DEF Final
      <3>3. Target(n) # -1 => mapping[Target(n)] \in Nat
        BY <2>1, <1>2, NumbersApart DEF Kept, Target, CoInv
      <3>4. \A x \in Nat : x # -1 OBVIOUS
      <3>5. fsm'[to].final_state <=> Final(q)
        BY <3>1, <3>2, Zenon
      <3>6. fsm'[to].target # -1 <=> Target(n) # -1
        BY <3>1, <3>3, <3>4
      <3>7. ~lost \/ (fsm'[j].state_no = mapping[p] /\ fsm'[j].final_state = TRUE /\ Final(p)
                      /\ fsm'[j].target = -1)
        BY <1>2 DEF Line, Final
      <3> QED BY <3>1, <3>5, <3>6, <3>7
    <2>2. CASE ~keep
      <3>7. ~lost \/ (fsm'[j].state_no = mapping[p] /\ fsm'[j].final_state = TRUE /\ Final(p)
                      /\ fsm'[j].target = -1)
        BY <1>2 DEF Line, Final
      <3> QED BY <2>2, <3>7
    <2> QED BY <2>1, <2>2
  <1>8. /\ KeptArcs(n) = KeptArcs(i) \cup (IF keep /\ Target(n) # -1 THEN {n} ELSE {})
        /\ n \notin KeptArcs(i) /\ KeptArcs(i) \subseteq Places /\ KeptArcs(n) \subseteq Places
    <2>1. \A k \in 1..n : k \in 1..i \/ k = n BY <1>2, <1>3
    <2>2. \A k \in 1..i : k \in 1..n /\ k # n /\ k \in Places BY <1>2, <1>3 DEF Places
    <2>3. n \in 1..n BY <1>2, <1>3
    <2> HIDE DEF n
    <2> QED BY <1>2, <2>1, <2>2, <2>3 DEF KeptArcs
  <1> HIDE DEF n, p, q
  <1>9. /\ \A m \in 0..(j - 1) : fsm'[m] = fsm[m] /\ m \in 0..(j' - 1) /\ m # j /\ m # to
        /\ \A m \in 0..(j' - 1) : m \in 0..(j - 1) \/ (lost /\ m = j) \/ (keep /\ m = to)
        /\ lost => j \in 0..(j' - 1) /\ j # to
        /\ keep => to \in 0..(j' - 1)
    BY <1>2, <1>3
  <1>10. Written'
    <2>1. \A m \in 0..(j' - 1) : \E s \in added' :
            fsm'[m].state_no = mapping[s] /\ (fsm'[m].final_state <=> Final(s))
      <3> SUFFICES ASSUME NEW m \in 0..(j' - 1)
                   PROVE  \E s \in added' : fsm'[m].state_no = mapping[s]
                                              /\ (fsm'[m].final_state <=> Final(s))
        OBVIOUS
      <3>1. CASE m \in 0..(j - 1)
        <4>1. PICK s \in added : fsm[m].state_no = mapping[s] /\ (fsm[m].final_state <=> Final(s))
          BY <1>5, <3>1
        <4>2. s \in added' BY <1>2
        <4>3. fsm'[m] = fsm[m] BY <1>9, <3>1
        <4> QED BY <4>1, <4>2, <4>3
      <3>2. CASE lost /\ m = j
        <4>1. p \in added' BY <1>2, <3>2
        <4> QED BY <4>1, <1>7, <3>2
      <3>3. CASE keep /\ m = to
        <4>1. q \in added' BY <1>2, <3>3
        <4> QED BY <4>1, <1>7, <3>3
      <3> QED BY <1>9, <3>1, <3>2, <3>3
    <2>2. \A s \in added' : \E m \in 0..(j' - 1) : fsm'[m].state_no = mapping[s]
      <3>1. ASSUME NEW s \in added PROVE \E m \in 0..(j' - 1) : fsm'[m].state_no = mapping[s]
        BY <1>5, <1>9
      <3>2. lost => \E m \in 0..(j' - 1) : fsm'[m].state_no = mapping[p]
        BY <1>7, <1>9
      <3>3. keep => \E m \in 0..(j' - 1) : fsm'[m].state_no = mapping[q]
        BY <1>7, <1>9
      <3>4. \A s \in added' : s \in added \/ (lost /\ s = p) \/ (keep /\ s = q)
        BY <1>2
      <3> QED BY <3>1, <3>2, <3>3, <3>4
    <2>3. \A m \in 0..(j' - 1) : fsm'[m].target # -1 =>
             \E k \in KeptArcs(n) : fsm'[m] = Renumbered(lines[k])
      <3> SUFFICES ASSUME NEW m \in 0..(j' - 1), fsm'[m].target # -1
                   PROVE  \E k \in KeptArcs(n) : fsm'[m] = Renumbered(lines[k])
        OBVIOUS
      <3>1. CASE m \in 0..(j - 1)
        <4>1. fsm'[m] = fsm[m] BY <3>1, <1>9
        <4> QED BY <3>1, <4>1, <1>5, <1>8
      <3>2. CASE lost /\ m = j BY <3>2, <1>7
      <3>3. CASE keep /\ m = to
        <4>1. n \in KeptArcs(n) BY <3>3, <1>7, <1>8
        <4> QED BY <3>3, <4>1, <1>2
      <3> QED BY <1>9, <3>1, <3>2, <3>3
    <2>4. \A k \in KeptArcs(n) : \E m \in 0..(j' - 1) : fsm'[m] = Renumbered(lines[k])
      BY <1>2, <1>5, <1>7, <1>8, <1>9, SMTT(30)
    <2>5. KeptArcs(i)' = KeptArcs(n)
      BY <1>2, <1>4 DEF KeptArcs
    <2>6. \A m \in 0..(j' - 1) : \E s \in added' :
            fsm'[m].state_no = mapping'[s] /\ (fsm'[m].final_state <=> Final(s)')
      BY <2>1, <1>4
    <2> QED BY <1>4, <2>2, <2>3, <2>4, <2>5, <2>6 DEF Written
  <1>11. Counted'
    <2> DEFINE A == {lines[k] : k \in KeptArcs(i)}
               B == {m \in 0..(j - 1) : fsm[m].target # -1}
    <2>1. KeptArcs(i)' = KeptArcs(n)
      BY <1>2, <1>4 DEF KeptArcs
    <2>2. IsFiniteSet(A)
      <3>1. IsFiniteSet(Places) BY <1>3, FS_Interval DEF Places
      <3>2. IsFiniteSet(KeptArcs(i)) BY <1>8, <3>1, FS_Subset
      <3> DEFINE f == [k \in KeptArcs(i) |-> lines[k]]
      <3>3. f \in Surjection(KeptArcs(i), A) BY DEF Surjection
      <3> QED BY <3>2, <3>3, FS_Surjection
    <2>3. IsFiniteSet(B)
      <3>1. IsFiniteSet(0..(j - 1)) BY <1>3, FS_Interval
      <3> QED BY <3>1, FS_Subset
    <2>4. keep /\ Target(n) # -1 => lines[n] \notin A
      <3>1. \A k \in Places : Target(k) # -1 => lines[k].label = k - 1
        BY DEF CoInv, WInv, Together
      <3>2. \A k \in KeptArcs(i) : k \in Places /\ Target(k) # -1 /\ k # n /\ k \in Int /\ n \in Int
        BY <1>2, <1>8 DEF KeptArcs, Places
      <3>3. \A k, m \in Int : k # m => k - 1 # m - 1 OBVIOUS
      <3>4. Target(n) # -1 => \A k \in KeptArcs(i) : lines[k] # lines[n]
        BY <3>1, <3>2, <3>3, <1>2, SMTT(30)
      <3> QED BY <3>4
    <2>5. {lines[k] : k \in KeptArcs(n)} = A \cup (IF keep /\ Target(n) # -1 THEN {lines[n]} ELSE {})
      BY <1>8
    <2>6. {m \in 0..(j' - 1) : fsm'[m].target # -1}
            = B \cup (IF keep /\ Target(n) # -1 THEN {to} ELSE {})
      BY <1>7, <1>9
    <2>7. to \notin B BY <1>9
    <2> HIDE DEF A, B
    <2>8. CASE keep /\ Target(n) # -1
      <3>1. Cardinality(A \cup {lines[n]}) = Cardinality(A) + 1 BY <2>2, <2>4, <2>8, FS_AddElement
      <3>2. Cardinality(B \cup {to}) = Cardinality(B) + 1 BY <2>3, <2>7, FS_AddElement
      <3>3. new_arccount' = new_arccount + 1 BY <1>2, <2>8
      <3>4. {lines[k] : k \in KeptArcs(n)} = A \cup {lines[n]} BY <2>5, <2>8
      <3>5. {m \in 0..(j' - 1) : fsm'[m].target # -1} = B \cup {to} BY <2>6, <2>8
      <3>6. new_arccount = Cardinality(A) /\ new_arccount = Cardinality(B)
        BY <1>6 DEF A, B
      <3>7. {lines[k] : k \in KeptArcs(i)}' = A \cup {lines[n]} BY <1>4, <2>1, <3>4
      <3> QED BY <3>1, <3>2, <3>3, <3>5, <3>6, <3>7 DEF Counted
    <2>9. CASE ~(keep /\ Target(n) # -1)
      <3>1. new_arccount' = new_arccount
        <4>1. new_arccount \in Nat BY <1>6, <2>2, FS_CardinalityType DEF A
        <4> QED BY <1>2, <2>9, <4>1
      <3>2. {lines[k] : k \in KeptArcs(n)} = A BY <2>5, <2>9
      <3>3. {m \in 0..(j' - 1) : fsm'[m].target # -1} = B BY <2>6, <2>9
      <3> QED BY <1>4, <1>6, <2>1, <3>1, <3>2, <3>3 DEF Counted, A, B
    <2> QED BY <2>8, <2>9
  <1> QED BY <1>10, <1>11

LEMMA CopyBlocks ==
  ASSUME CoInv, CopyLine PROVE Blocks'
  <1>0. PICK lost \in BOOLEAN, keep \in BOOLEAN : \E to \in Nat : Copies(lost, keep, to)
    BY CopyStep
  <1>1. PICK to \in Nat : Copies(lost, keep, to)
    BY <1>0
  <1> DEFINE n == i + 1
             p == State(i)
             q == State(n)
  <1>2. /\ pc = "compact" /\ i \in 0..Len(lines) /\ n \in Places /\ i' = n
        /\ lost <=> i \in Places /\ p # q /\ lines[i].final_state /\ p \notin added
        /\ lost => p \in coacc /\ j < i
        /\ keep <=> Kept(lines[n])
        /\ to = IF lost THEN j + 1 ELSE j
        /\ j' = IF keep THEN to + 1 ELSE to
        /\ added' = added \cup (IF lost THEN {p} ELSE {}) \cup (IF keep THEN {q} ELSE {})
        /\ lost => fsm'[j] = Line(mapping[p], -1, -1, TRUE)
        /\ keep => fsm'[to] = Renumbered(lines[n])
        /\ \A m \in 0..Len(lines) : ~(lost /\ m = j) /\ ~(keep /\ m = to) => fsm'[m] = fsm[m]
    BY <1>1 DEF Copies
  <1>3. /\ j \in 0..i /\ Len(lines) \in Nat /\ i \in Nat /\ added \subseteq coacc
        /\ \A k \in 1..i : Kept(lines[k]) => State(k) \in added
    BY <1>2 DEF CoInv, Reading, WInv, WType
  <1>4. /\ pc' = "compact" /\ UNCHANGED <<Places, lines, coacc, mapping>>
        /\ \A t : State(t)' = State(t)
    BY CopyFrame
  <1>5. /\ \A k, m, h \in 0..(j - 1) : k < m /\ m < h /\ fsm[k].state_no = fsm[h].state_no =>
             fsm[m].state_no = fsm[k].state_no /\ fsm[m].target # -1
        /\ added \subseteq {State(k) : k \in 1..i}
        /\ \A k \in 1..i : State(k) \in coacc /\ State(k) # p => State(k) \in added
        /\ i > 0 => \A k \in 0..(j - 1) : fsm[k].state_no = mapping[p] =>
             /\ \A m \in k..(j - 1) : fsm[m].state_no = mapping[p]
             /\ i < Len(lines) /\ q = p => fsm[k].target # -1
    BY <1>2 DEF CoInv, Blocks
  <1>6. /\ \A k \in 1..n : k \in 1..i \/ k = n
        /\ \A k \in 1..i : k \in 1..n /\ k \in Places /\ i \in k..n /\ i \in Places /\ i > 0
        /\ n \in 1..n /\ i < Len(lines) /\ n # i
    BY <1>2, <1>3 DEF Places
  <1>7. /\ \A s \in coacc : mapping[s] \in Nat
        /\ \A s, t \in coacc : mapping[s] = mapping[t] => s = t
    BY <1>2, NumbersApart DEF CoInv
  <1>8. /\ \A m \in 0..(j - 1) : \E s \in added : fsm[m].state_no = mapping[s]
    BY <1>2 DEF CoInv, Written
  <1>9. /\ keep => q \in coacc /\ fsm'[to].state_no = mapping[q]
        /\ keep => (Target(n) # -1 => fsm'[to].target # -1)
        /\ lost => fsm'[j].state_no = mapping[p]
    <2>1. keep => q \in coacc BY <1>2 DEF Kept, State
    <2>2. keep => fsm'[to].state_no = mapping[q] BY <1>2 DEF Renumbered, Line, State
    <2>3. lost => fsm'[j].state_no = mapping[p] BY <1>2 DEF Line
    <2>4. ASSUME keep, Target(n) # -1 PROVE fsm'[to].target # -1
      <3>1. Target(n) \in coacc BY <2>4, <1>2 DEF Kept, Target
      <3>2. fsm'[to].target = mapping[Target(n)] BY <2>4, <1>2 DEF Renumbered, Line, Target
      <3> QED BY <3>1, <3>2, <1>7
    <2> QED BY <2>1, <2>2, <2>3, <2>4
  <1>10. ASSUME NEW k \in 1..i, State(k) = q PROVE p = q
    <2>1. i \in k..n /\ k \in Places /\ n \in Places BY <1>2, <1>6
    <2> QED BY <2>1, <1>10 DEF CoInv, WInv, Together
  <1> HIDE DEF n, p, q
  <1>11. /\ \A m \in 0..(j - 1) : fsm'[m] = fsm[m] /\ m < j /\ m < to /\ m \in 0..(j' - 1)
         /\ \A m \in 0..(j' - 1) : m \in 0..(j - 1) \/ (lost /\ m = j) \/ (keep /\ m = to)
         /\ lost => to = j + 1
         /\ ~lost => to = j
    BY <1>2, <1>3
  <1>12. ~(\E m \in 0..(j - 1) : lost /\ fsm[m].state_no = mapping[p])
    BY <1>2, <1>3, <1>7, <1>8
  <1>13. ASSUME NEW k \in 0..(j - 1), fsm[k].state_no = mapping[q], q \in coacc
         PROVE  /\ p = q /\ i > 0 /\ ~lost /\ to = j /\ fsm[k].target # -1
                /\ \A m \in k..(j - 1) : fsm[m].state_no = mapping[q] /\ fsm[m].target # -1
    <2>1. PICK s \in added : mapping[s] = mapping[q] BY <1>8, <1>13
    <2>2. q \in added BY <2>1, <1>3, <1>7, <1>13
    <2>3. p = q /\ i > 0 BY <2>2, <1>5, <1>6, <1>10
    <2>4. ~lost /\ to = j BY <2>3, <1>2, <1>11
    <2>5. \A m \in k..(j - 1) : m \in 0..(j - 1) BY <1>3
    <2>6. \A m \in k..(j - 1) : fsm[m].state_no = mapping[p] BY <2>3, <1>5, <1>13
    <2>7. \A m \in 0..(j - 1) : fsm[m].state_no = mapping[p] => fsm[m].target # -1
      BY <2>3, <1>5, <1>6
    <2> QED BY <2>3, <2>4, <2>5, <2>6, <2>7, <1>13
  <1>14. ~(lost /\ mapping[p] = mapping[q] /\ q \in coacc)
    BY <1>2, <1>7
  <1>15. ASSUME NEW k \in 0..(j' - 1), NEW m \in 0..(j' - 1), NEW h \in 0..(j' - 1),
                k < m, m < h, fsm'[k].state_no = fsm'[h].state_no
         PROVE  fsm'[m].state_no = fsm'[k].state_no /\ fsm'[m].target # -1
    <2>1. CASE h \in 0..(j - 1)
      <3>1. k \in 0..(j - 1) /\ m \in 0..(j - 1) BY <2>1, <1>15, <1>3
      <3>2. fsm'[k] = fsm[k] /\ fsm'[m] = fsm[m] /\ fsm'[h] = fsm[h] BY <2>1, <3>1, <1>11
      <3> QED BY <2>1, <3>1, <3>2, <1>5, <1>15
    <2>2. CASE lost /\ h = j
      <3>1. k \in 0..(j - 1) BY <2>2, <1>15, <1>3
      <3>2. fsm'[k] = fsm[k] BY <3>1, <1>11
      <3> QED BY <2>2, <3>1, <3>2, <1>9, <1>12, <1>15
    <2>3. CASE keep /\ h = to
      <3>1. q \in coacc /\ fsm'[k].state_no = mapping[q] BY <2>3, <1>9, <1>15
      <3>2. k \in 0..(j - 1)
        <4>1. ~(keep /\ k = to) BY <2>3, <1>15
        <4>2. ~(lost /\ k = j) BY <3>1, <1>9, <1>14
        <4> QED BY <4>1, <4>2, <1>11
      <3>3. fsm'[k] = fsm[k] BY <3>2, <1>11
      <3>4. /\ to = j
            /\ \A x \in k..(j - 1) : fsm[x].state_no = mapping[q] /\ fsm[x].target # -1
        BY <3>1, <3>2, <3>3, <1>13
      <3>5. m \in k..(j - 1) /\ m \in 0..(j - 1) BY <2>3, <3>2, <3>4, <1>3, <1>15
      <3>6. fsm'[m] = fsm[m] BY <3>5, <1>11
      <3> QED BY <3>1, <3>4, <3>5, <3>6
    <2> QED BY <1>11, <2>1, <2>2, <2>3
  <1>16. added' \subseteq {State(k) : k \in 1..n}
    <2>1. lost => \E k \in 1..n : State(k) = p BY <1>2, <1>3, <1>6 DEF p, Places
    <2>2. \E k \in 1..n : State(k) = q BY <1>6 DEF q
    <2>3. \A s \in added : \E k \in 1..n : State(k) = s BY <1>5, <1>6
    <2> QED BY <1>2, <2>1, <2>2, <2>3
  <1>17. ASSUME NEW k \in 1..n, State(k) \in coacc, State(k) # q PROVE State(k) \in added'
    <2>1. k \in 1..i BY <1>6, <1>17 DEF q
    <2>2. CASE State(k) \in added BY <2>2, <1>2
    <2>3. CASE State(k) \notin added
      <3>1. State(k) = p /\ p \in coacc /\ p \notin added /\ p # q BY <2>1, <2>3, <1>5, <1>17
      <3>2. i \in Places /\ i > 0 BY <2>1, <1>6
      <3>3. lines[i].final_state
        <4>1. Final(p) \/ \E k2 \in Places : State(k2) = p /\ Target(k2) \in coacc
          BY <1>2, <3>1 DEF CoInv, Marked
        <4>2. ASSUME NEW k2 \in Places, State(k2) = p, Target(k2) \in coacc PROVE FALSE
          <5>1. CASE k2 \in 1..i
            <6>1. Kept(lines[k2]) BY <3>1, <4>2 DEF Kept, State, Target
            <6> QED BY <5>1, <6>1, <3>1, <4>2, <1>3
          <5>2. CASE k2 \notin 1..i
            <6>1. n \in i..k2 BY <5>2, <1>2, <1>3 DEF Places, n
            <6>2. State(n) = State(i) BY <6>1, <3>2, <4>2 DEF CoInv, WInv, Together, p
            <6> QED BY <6>2, <3>1 DEF p, q
          <5> QED BY <5>1, <5>2
        <4>3. Final(p) BY <4>1, <4>2
        <4>4. PICK k2 \in Places : State(k2) = State(i) /\ lines[k2].final_state
          BY <4>3 DEF Final, p
        <4>5. lines[k2].final_state = lines[i].final_state
          BY <4>4, <3>2 DEF CoInv, WInv, Together
        <4> QED BY <4>4, <4>5
      <3> QED BY <3>1, <3>2, <3>3, <1>2
    <2> QED BY <2>2, <2>3
  <1>18. ASSUME NEW k \in 0..(j' - 1), fsm'[k].state_no = mapping[q]
         PROVE  /\ \A m \in k..(j' - 1) : fsm'[m].state_no = mapping[q]
                /\ n < Len(lines) /\ State(n + 1) = q => fsm'[k].target # -1
    <2>1. q \in coacc
      <3>1. \E s \in coacc : fsm'[k].state_no = mapping[s]
        <4>1. CASE k \in 0..(j - 1) BY <4>1, <1>3, <1>8, <1>11
        <4>2. CASE lost /\ k = j BY <4>2, <1>2, <1>9
        <4>3. CASE keep /\ k = to BY <4>3, <1>9
        <4> QED BY <4>1, <4>2, <4>3, <1>11
      <3>2. coacc # {} /\ mapping[q] \in Nat BY <3>1, <1>7, <1>18
      <3>3. q \in States BY <1>2 DEF CoInv, WInv, WType, q
      <3>4. q \notin coacc => mapping[q] = -1
        BY <3>2, <3>3, <1>2, NumbersApart DEF CoInv
      <3>5. -1 \notin Nat OBVIOUS
      <3> QED BY <3>2, <3>4, <3>5
    <2>2. CASE k \in 0..(j - 1)
      <3>1. fsm'[k] = fsm[k] BY <2>2, <1>11
      <3>2. /\ ~lost /\ to = j /\ fsm[k].target # -1
            /\ \A m \in k..(j - 1) : fsm[m].state_no = mapping[q]
        BY <2>1, <2>2, <3>1, <1>13, <1>18
      <3>3. \A m \in k..(j' - 1) : (m \in k..(j - 1) /\ m \in 0..(j - 1)) \/ (keep /\ m = to)
        BY <2>2, <3>2, <1>2, <1>3
      <3> QED BY <3>1, <3>2, <3>3, <1>9, <1>11
    <2>3. CASE lost /\ k = j BY <2>1, <2>3, <1>9, <1>14, <1>18
    <2>4. CASE keep /\ k = to
      <3>1. \A m \in k..(j' - 1) : m = to BY <2>4, <1>2
      <3>2. n < Len(lines) /\ State(n + 1) = q => Target(n) # -1
        <4>1. n < Len(lines) => n + 1 \in Places /\ n # n + 1 BY <1>2 DEF Places
        <4> QED BY <4>1, <1>2 DEF CoInv, WInv, Together, q
      <3> QED BY <2>4, <3>1, <3>2, <1>9
    <2> QED BY <1>11, <2>2, <2>3, <2>4
  <1>19. State(i)' = q /\ State(i + 1)' = State(n + 1) /\ {State(k) : k \in 1..i}' = {State(k) : k \in 1..n}
    BY <1>2, <1>4 DEF State, q
  <1> QED BY <1>2, <1>4, <1>15, <1>16, <1>17, <1>18, <1>19, SMTT(30) DEF Blocks

\* When all lines have been read, the marked states have been added, or the last is final.
LEMMA LastState ==
  ASSUME CoInv, pc = "compact", i = Len(lines), NEW s \in coacc, s \notin added
  PROVE  s = State(i) /\ i > 1 /\ lines[i].final_state /\ i \in Places
  <1>1. /\ coacc \subseteq States /\ Len(lines) \in Nat /\ wpc = "closed" /\ int_stack = <<>>
    BY DEF CoInv, Marked, WInv, WType
  <1>2. \A t \in States : \E k \in Places : State(k) = t
    BY <1>1 DEF CoInv, WInv, Waiting
  <1>3. Places = 1..i
    BY DEF Places
  <1>4. s = State(i) /\ i > 0 /\ i \in Places
    <2>1. PICK k \in 1..i : State(k) = s BY <1>1, <1>2, <1>3
    <2> QED BY <2>1, <1>1, <1>3 DEF CoInv, Blocks
  <1>5. \A k \in Places : State(k) = s => ~Kept(lines[k])
    BY <1>3 DEF CoInv, Reading
  <1>6. lines[i].final_state
    <2>1. ~ \E k \in Places : State(k) = s /\ Target(k) \in coacc
      BY <1>5 DEF Kept, State, Target
    <2>2. PICK k \in Places : State(k) = s /\ lines[k].final_state
      BY <2>1 DEF CoInv, Marked, Final
    <2> QED BY <2>2, <1>4 DEF CoInv, WInv, Together
  <1>7. i # 1
    <2> SUFFICES ASSUME i = 1 PROVE FALSE
      OBVIOUS
    <2>1. Places = {1} BY <1>3
    <2>2. Target(1) \in States \cup {-1} BY <2>1 DEF CoInv, WInv, WType
    <2>3. Target(1) = s \/ Target(1) = -1 BY <1>2, <1>4, <2>1, <2>2
    <2> QED BY <1>4, <1>5, <2>1, <2>3 DEF Kept, State, Target
  <1> QED BY <1>1, <1>4, <1>6, <1>7

\* At the end of the marking exactly the useful states are marked.
LEMMA MarkedUseful ==
  ASSUME CoInv, pc = "compact"
  PROVE  Useful = coacc /\ \A s \in coacc : Rank(s) = mapping[s]
  <1>1. coacc \subseteq Useful /\ coacc \subseteq States /\ WType
    BY DEF CoInv, Marked, WInv
  <1>2. \A k \in Places : lines[k].final_state => State(k) \in coacc
    BY <1>1 DEF CoInv, Marked, WType, Final
  <1>3. Useful \subseteq coacc
    BY <1>1, <1>2, UsefulFacts DEF CoInv, Settled
  <1> QED BY <1>1, <1>3, NumbersApart DEF CoInv, Rank

LEMMA FinishEmpty ==
  ASSUME CoInv, Finish, coacc = {} PROVE Trimmed'
  <1>1. /\ fsm' = EmptyLines
        /\ net' = [statecount |-> markcount, arccount |-> new_arccount]
        /\ markcount = 0 /\ new_arccount = 0 /\ UNCHANGED <<lines, statecount>>
    <2>1. markcount = 0 BY FS_EmptySet DEF Finish, CoInv, Marked
    <2>2. KeptArcs(i) = {} BY DEF KeptArcs, Kept
    <2>3. {lines[k] : k \in KeptArcs(i)} = {} BY <2>2
    <2>4. new_arccount = 0 BY <2>3, FS_EmptySet DEF Finish, CoInv, Counted
    <2> QED BY <2>1, <2>4 DEF Finish, wvars
  <1>2. /\ DOMAIN fsm' = {0, 1} /\ fsm'[0] = Line(0, -1, -1, FALSE) /\ fsm'[1] = Sentinel
    <2>1. 0..1 = {0, 1} OBVIOUS
    <2> QED BY <1>1, <2>1 DEF EmptyLines
  <1>3. ResultLines' = {0}
    <2>1. fsm'[0].state_no = 0 /\ fsm'[1].state_no = -1 BY <1>2 DEF Line, Sentinel
    <2>2. 0..0 = {0} /\ 0..1 = {0, 1} OBVIOUS
    <2>3. 0 \in ResultLines'
      <3>1. \A m \in 0..0 : fsm'[m].state_no # -1
        <4>1. \A m \in 0..0 : m = 0 OBVIOUS
        <4>2. 0 # -1 OBVIOUS
        <4> QED BY <2>1, <4>1, <4>2
      <3> QED BY <1>2, <3>1 DEF ResultLines
    <2>4. 1 \notin ResultLines' BY <1>2, <2>1, <2>2 DEF ResultLines
    <2>5. ResultLines' \subseteq {0, 1} BY <1>2 DEF ResultLines
    <2> QED BY <2>3, <2>4, <2>5
  <1>4. Useful' = {}
    <2>1. Useful = {} BY MarkedUseful DEF Finish
    <2> QED BY <2>1, <1>1 DEF Useful, States
  <1>5. UsefulArcs' = {} BY <1>4 DEF UsefulArcs
  <1>6. ResultArcs' = {} BY <1>2, <1>3 DEF ResultArcs, Line
  <1>7. {fsm[k].state_no : k \in ResultLines}' = {0} BY <1>2, <1>3 DEF Line
  <1>8. ({0} \cup {Rank(s) : s \in Useful})' = {0} BY <1>4
  <1>9. net'.statecount = 0 /\ net'.arccount = 0 BY <1>1
  <1>10. \A k, m, n \in ResultLines' : ~(k < m) BY <1>3
  <1> QED BY <1>3, <1>4, <1>5, <1>6, <1>7, <1>8, <1>9, <1>10, FS_EmptySet DEF Trimmed

LEMMA FinishLines ==
  ASSUME CoInv, Finish, coacc # {} PROVE Trimmed'
  <1> DEFINE p == State(i)
             lost == i > 1 /\ lines[i].final_state /\ p \notin added
  <1>1. /\ pc = "compact" /\ i = Len(lines) /\ i \in Nat /\ j \in 0..i /\ WType
        /\ fsm \in [0..i -> AnyLine] /\ added \subseteq coacc
        /\ i > 0 => fsm[i - 1].state_no = p /\ fsm[i - 1].final_state = lines[i].final_state
        /\ coacc \subseteq States
    <2>1. /\ pc = "compact" /\ fsm[i].state_no = -1 /\ WType
          /\ i \in 0..Len(lines) /\ j \in 0..i /\ fsm \in [0..Len(lines) -> AnyLine]
          /\ \A k \in i..Len(lines) : fsm[k] = Input[k]
          /\ i > 0 => fsm[i - 1].state_no = State(i) /\ fsm[i - 1].final_state = lines[i].final_state
          /\ Len(lines) \in Nat /\ added \subseteq coacc /\ coacc \subseteq States
      BY DEF Finish, CoInv, Reading, WInv, WType, Marked
    <2>2. i = Len(lines)
      <3> SUFFICES ASSUME i # Len(lines) PROVE FALSE
        OBVIOUS
      <3>1. i + 1 \in Places /\ i \in i..Len(lines) BY <2>1 DEF Places
      <3>2. fsm[i] = lines[i + 1] BY <2>1, <3>1 DEF Input
      <3>3. lines[i + 1].state_no \in States BY <2>1, <3>1 DEF WType, State
      <3> QED BY <2>1, <3>2, <3>3 DEF WType, States
    <2> QED BY <2>1, <2>2
  <1>2. lost => i \in Places /\ p \in coacc /\ Final(p) /\ j < i
    <2> SUFFICES ASSUME lost PROVE i \in Places /\ p \in coacc /\ Final(p) /\ j < i
      OBVIOUS
    <2>1. i \in Places BY <1>1 DEF Places
    <2>2. Final(p) BY <2>1 DEF Final
    <2>3. p \in States BY <1>1, <2>1 DEF WType
    <2> QED BY <1>1, <2>1, <2>2, <2>3 DEF CoInv, Marked, Reading
  <1>3. \A s \in coacc : s \in added \/ (lost /\ s = p)
    BY <1>1, LastState
  <1>4. markcount # 0
    <2>1. IsFiniteSet(coacc) BY <1>1, StatesFinite
    <2> QED BY <1>1, <2>1, FS_EmptySet DEF CoInv, Marked
  <1>5. /\ j' = IF lost THEN j + 1 ELSE j
        /\ DOMAIN fsm' = 0..i
        /\ \A m \in 0..(j - 1) : fsm'[m] = fsm[m]
        /\ lost => fsm'[j] = Line(mapping[p], -1, -1, TRUE)
        /\ fsm'[j'] = Sentinel
        /\ net' = [statecount |-> markcount, arccount |-> new_arccount]
        /\ UNCHANGED <<lines, statecount>>
    <2>1. lost <=> i > 1 /\ fsm[i - 1].final_state /\ fsm[i - 1].state_no \notin added
      BY <1>1
    <2>2. lost => AddFinal(fsm, i) = [fsm EXCEPT ![j] = Line(mapping[p], -1, -1, TRUE)]
      <3>1. lost => fsm[i - 1].state_no = p BY <1>1
      <3> HIDE DEF lost, p
      <3> QED BY <3>1 DEF AddFinal
    <2> HIDE DEF lost, p
    <2>3. j' = IF lost THEN j + 1 ELSE j
      BY <2>1 DEF Finish
    <2>4. fsm' = IF lost THEN [[fsm EXCEPT ![j] = Line(mapping[p], -1, -1, TRUE)] EXCEPT ![j'] = Sentinel]
                 ELSE [fsm EXCEPT ![j'] = Sentinel]
      BY <1>4, <2>1, <2>2 DEF Finish
    <2>5. j' \in 0..i /\ \A m \in 0..(j - 1) : m \in 0..i /\ m # j /\ m # j'
      BY <1>1, <1>2, <2>3
    <2>6. lost => j \in 0..i /\ j # j' BY <1>1, <2>3
    <2>7. DOMAIN fsm' = 0..i /\ fsm'[j'] = Sentinel BY <1>1, <2>4, <2>5
    <2>8. \A m \in 0..(j - 1) : fsm'[m] = fsm[m] BY <1>1, <2>4, <2>5
    <2>9. lost => fsm'[j] = Line(mapping[p], -1, -1, TRUE) BY <1>1, <2>4, <2>6
    <2> QED BY <2>3, <2>7, <2>8, <2>9 DEF Finish, wvars
  <1> HIDE DEF lost, p
  <1>6. /\ \A m \in 0..(j - 1) : m \in 0..(j' - 1)
        /\ \A m \in 0..(j' - 1) : m \in 0..(j - 1) \/ (lost /\ m = j)
        /\ lost => j \in 0..(j' - 1)
        /\ j' \in 0..i
    BY <1>1, <1>2, <1>5
  <1>7. /\ \A s \in coacc : mapping[s] \in Nat
        /\ \A s, t \in coacc : mapping[s] = mapping[t] => s = t
        /\ Useful = coacc /\ \A s \in coacc : Rank(s) = mapping[s]
    BY <1>1, NumbersApart, MarkedUseful DEF CoInv
  <1>8. /\ \A m \in 0..(j - 1) : \E s \in added :
             fsm[m].state_no = mapping[s] /\ (fsm[m].final_state <=> Final(s))
        /\ \A s \in added : \E m \in 0..(j - 1) : fsm[m].state_no = mapping[s]
        /\ \A m \in 0..(j - 1) : fsm[m].target # -1 =>
             \E k \in KeptArcs(i) : fsm[m] = Renumbered(lines[k])
        /\ \A k \in KeptArcs(i) : \E m \in 0..(j - 1) : fsm[m] = Renumbered(lines[k])
    BY <1>1 DEF CoInv, Written
  <1>9. lost => fsm'[j].state_no = mapping[p] /\ fsm'[j].final_state = TRUE /\ fsm'[j].target = -1
    BY <1>5 DEF Line
  <1>10. \A m \in 0..(j' - 1) : \E s \in coacc :
           fsm'[m].state_no = mapping[s] /\ (fsm'[m].final_state <=> Final(s))
    <2> SUFFICES ASSUME NEW m \in 0..(j' - 1)
                 PROVE  \E s \in coacc : fsm'[m].state_no = mapping[s]
                                           /\ (fsm'[m].final_state <=> Final(s))
      OBVIOUS
    <2>1. CASE m \in 0..(j - 1)
      <3>1. PICK s \in added : fsm[m].state_no = mapping[s] /\ (fsm[m].final_state <=> Final(s))
        BY <1>8, <2>1
      <3>2. s \in coacc /\ fsm'[m] = fsm[m] BY <1>1, <1>5, <2>1
      <3> QED BY <3>1, <3>2
    <2>2. CASE lost /\ m = j BY <2>2, <1>2, <1>9
    <2> QED BY <1>6, <2>1, <2>2
  <1>11. \A s \in coacc : \E m \in 0..(j' - 1) : fsm'[m].state_no = mapping[s]
    <2> SUFFICES ASSUME NEW s \in coacc PROVE \E m \in 0..(j' - 1) : fsm'[m].state_no = mapping[s]
      OBVIOUS
    <2>1. CASE s \in added BY <2>1, <1>5, <1>6, <1>8
    <2>2. CASE lost /\ s = p BY <2>2, <1>6, <1>9
    <2> QED BY <1>3, <2>1, <2>2
  <1>12. ResultLines' = 0..(j' - 1)
    <2>1. \A m \in 0..(j' - 1) : fsm'[m].state_no \in Nat /\ m \in 0..i BY <1>1, <1>6, <1>7, <1>10
    <2>2. fsm'[j'].state_no = -1 BY <1>5 DEF Sentinel, Line
    <2>3. \A k \in 0..(j' - 1) : \A m \in 0..k : m \in 0..(j' - 1) BY <1>1, <1>6
    <2>4. \A k \in 0..i : k \in 0..(j' - 1) \/ j' \in 0..k BY <1>1, <1>6
    <2>5. \A x \in Nat : x # -1 OBVIOUS
    <2> QED BY <1>5, <2>1, <2>2, <2>3, <2>4, <2>5 DEF ResultLines
  <1>13. ResultArcs' = {m \in 0..(j - 1) : fsm[m].target # -1}
    BY <1>5, <1>6, <1>9, <1>12 DEF ResultArcs
  <1>14. UsefulArcs = {lines[k] : k \in KeptArcs(i)}
    <2>1. ToSet(lines) = {lines[k] : k \in 1..i} BY <1>1 DEF ToSet, WType
    <2> QED BY <1>7, <2>1 DEF UsefulArcs, KeptArcs, Kept, Target
  <1>15. Cardinality(ResultArcs') = Cardinality(UsefulArcs) /\ new_arccount = Cardinality(UsefulArcs)
    BY <1>1, <1>13, <1>14 DEF CoInv, Counted
  <1>16. {<<fsm'[k].state_no, fsm'[k].label, fsm'[k].target>> : k \in ResultArcs'}
           = {<<Rank(l.state_no), l.label, Rank(l.target)>> : l \in UsefulArcs}
    <2>1. \A k \in KeptArcs(i) :
            LET l == Renumbered(lines[k]) IN
            /\ l.state_no = Rank(lines[k].state_no) /\ l.label = lines[k].label
            /\ l.target = Rank(lines[k].target) /\ l.target # -1
      <3> SUFFICES ASSUME NEW k \in KeptArcs(i)
                   PROVE  /\ Renumbered(lines[k]).state_no = Rank(lines[k].state_no)
                          /\ Renumbered(lines[k]).label = lines[k].label
                          /\ Renumbered(lines[k]).target = Rank(lines[k].target)
                          /\ Renumbered(lines[k]).target # -1
        OBVIOUS
      <3>1. lines[k].target # -1 /\ lines[k].target \in coacc /\ lines[k].state_no \in coacc
        BY DEF KeptArcs, Kept, Target
      <3>2. mapping[lines[k].target] # -1 BY <3>1, <1>7
      <3> QED BY <3>1, <3>2, <1>7 DEF Renumbered, Line
    <2>2. \A m \in ResultArcs' : fsm'[m] = fsm[m] /\ \E k \in KeptArcs(i) : fsm[m] = Renumbered(lines[k])
      BY <1>5, <1>8, <1>13
    <2>3. \A k \in KeptArcs(i) : \E m \in ResultArcs' : fsm'[m] = Renumbered(lines[k])
      BY <1>5, <1>8, <1>13, <2>1
    <2> QED BY <1>14, <2>1, <2>2, <2>3
  <1>17. {fsm'[k].state_no : k \in ResultLines'} = {0} \cup {Rank(s) : s \in Useful}
    <2>1. 0 \in coacc /\ mapping[0] = 0
      <3>1. 0 \in coacc BY <1>1, ZeroMarked DEF CoInv
      <3> QED BY <3>1, <1>1 DEF CoInv, Settled, NewNumber
    <2> QED BY <2>1, <1>7, <1>10, <1>11, <1>12
  <1>18. net'.statecount = Cardinality(Useful) /\ net'.arccount = Cardinality(UsefulArcs)
    BY <1>1, <1>5, <1>7, <1>15 DEF CoInv, Marked
  <1>19. ASSUME NEW k \in ResultLines', NEW s \in Useful, fsm'[k].state_no = Rank(s)
         PROVE  fsm'[k].final_state <=> \E l \in ToSet(lines) : l.state_no = s /\ l.final_state
    <2>1. PICK t \in coacc : fsm'[k].state_no = mapping[t] /\ (fsm'[k].final_state <=> Final(t))
      BY <1>10, <1>12
    <2>2. t = s BY <2>1, <1>7, <1>19
    <2>3. Final(s) <=> \E l \in ToSet(lines) : l.state_no = s /\ l.final_state
      <3>1. ToSet(lines) = {lines[m] : m \in Places} BY <1>1, SMTT(30) DEF ToSet, WType, Places
      <3> QED BY <3>1 DEF Final, State
    <2> QED BY <2>1, <2>2, <2>3
  <1>20. ASSUME NEW k \in ResultLines', NEW m \in ResultLines', NEW h \in ResultLines',
                k < m, m < h, fsm'[k].state_no = fsm'[h].state_no
         PROVE  fsm'[m].state_no = fsm'[k].state_no /\ fsm'[m].target # -1
    <2>1. k \in 0..(j - 1) /\ m \in 0..(j - 1)
      <3>1. ~(lost /\ k = j) /\ ~(lost /\ m = j)
        <4>1. h \in 0..(j' - 1) /\ (h \in 0..(j - 1) \/ h = j) BY <1>6, <1>12
        <4> QED BY <4>1, <1>1, <1>12, <1>20
      <3> QED BY <3>1, <1>6, <1>12
    <2>2. fsm'[k] = fsm[k] /\ fsm'[m] = fsm[m] BY <2>1, <1>5
    <2>3. CASE h \in 0..(j - 1)
      <3>1. fsm'[h] = fsm[h] BY <2>3, <1>5
      <3> QED BY <2>1, <2>2, <2>3, <3>1, <1>1, <1>20 DEF CoInv, Blocks
    <2>4. CASE lost /\ h = j
      <3>1. PICK s \in added : fsm[k].state_no = mapping[s] BY <2>1, <1>8
      <3>2. mapping[s] = mapping[p] BY <3>1, <2>2, <2>4, <1>9, <1>20
      <3>3. s = p BY <3>2, <2>4, <1>1, <1>2, <1>7
      <3> QED BY <3>3, <2>4 DEF lost
    <2> QED BY <1>6, <1>12, <2>3, <2>4
  <1>21. Useful' = Useful /\ UsefulArcs' = UsefulArcs /\ lines' = lines
    BY <1>5 DEF Useful, States, UsefulArcs
  <1>22. \A s : Rank(s)' = Rank(s) BY <1>21 DEF Rank
  <1>23. {<<fsm[k].state_no, fsm[k].label, fsm[k].target>> : k \in ResultArcs}'
           = {<<Rank(l.state_no), l.label, Rank(l.target)>> : l \in UsefulArcs}'
    <2>1. {<<Rank(l.state_no), l.label, Rank(l.target)>> : l \in UsefulArcs}'
            = {<<Rank(l.state_no), l.label, Rank(l.target)>> : l \in UsefulArcs}
      BY <1>21, <1>22
    <2> QED BY <1>16, <2>1
  <1>24. {fsm[k].state_no : k \in ResultLines}' = ({0} \cup {Rank(s) : s \in Useful})'
    <2>1. ({0} \cup {Rank(s) : s \in Useful})' = {0} \cup {Rank(s) : s \in Useful}
      BY <1>21, <1>22
    <2> QED BY <1>17, <2>1
  <1>25. \A k \in ResultLines', s \in Useful' : fsm'[k].state_no = Rank(s)' =>
           (fsm'[k].final_state <=> \E l \in ToSet(lines') : l.state_no = s /\ l.final_state)
    BY <1>19, <1>21, <1>22
  <1>26. /\ Cardinality(ResultArcs') = Cardinality(UsefulArcs')
         /\ net'.arccount = Cardinality(UsefulArcs') /\ net'.statecount = Cardinality(Useful')
    BY <1>15, <1>18, <1>21
  <1> QED BY <1>20, <1>23, <1>24, <1>25, <1>26 DEF Trimmed

-----------------------------------------------------------------------------

\* Init and the actions, together.
LEMMA CoStarts == Init => CoInv
  BY WorklistStarts DEF Init, CoInv, Untouched, Marked, Popped, Settled, Reading, Written,
                        Counted, Blocks, TrimResult

LEMMA CoKeeps == CoInv /\ [Next]_vars => CoInv'
  <1> SUFFICES ASSUME CoInv, [Next]_vars PROVE CoInv'
    OBVIOUS
  <1>1. CASE Build
    <2>1. pc = "build" /\ pc' = "build" /\ i' = i /\ j' = j /\ added' = added
          /\ new_arccount' = new_arccount /\ WNext
      BY <1>1 DEF Build, cvars
    <2>2. WInv' BY <2>1, WorklistKeeps DEF CoInv
    <2> QED BY <2>1, <2>2 DEF CoInv, Untouched, Marked, Popped, Settled, Reading, Written,
                              Counted, Blocks, TrimResult
  <1>2. CASE Enter BY <1>2, EnterKeeps DEF CoInv
  <1>3. ASSUME NEW s \in unvisited, Mark(s) PROVE CoInv'
    BY <1>3, MarkKeeps DEF CoInv
  <1>4. CASE Number BY <1>4, NumberKeeps DEF CoInv
  <1>5. CASE CopyLine
    BY <1>5, CopyFrame, CopyReading, CopyWritten, CopyBlocks DEF CoInv
  <1>6. CASE Finish
    <2>1. Trimmed' BY <1>6, FinishEmpty, FinishLines
    <2>2. /\ pc = "compact" /\ pc' = "done"
          /\ UNCHANGED <<wvars, coacc, unvisited, markcount>>
      BY <1>6 DEF Finish
    <2>3. WInv' BY <2>2, WorklistKeeps DEF CoInv
    <2>4. UNCHANGED <<lines, statecount, wpc>> BY <2>2 DEF wvars
    <2>5. /\ Useful' = Useful /\ States' = States /\ Places' = Places
          /\ \A t : Final(t)' = Final(t) /\ State(t)' = State(t) /\ Target(t)' = Target(t)
      BY <2>4 DEF Useful, States, Places, Final, State, Target
    <2>6. Marked' BY <2>2, <2>4, <2>5 DEF CoInv, Marked
    <2> QED BY <2>1, <2>2, <2>3, <2>6
            DEF CoInv, Untouched, Popped, Settled, Reading, Written, Counted, Blocks, TrimResult
  <1>7. CASE UNCHANGED vars
    <2>1. UNCHANGED <<lines, statecount, int_stack, current, wpc>> /\ UNCHANGED wvars /\ UNCHANGED cvars
      BY <1>7 DEF vars, wvars
    <2>2. WInv' BY <2>1, WorklistKeeps DEF CoInv
    <2>3. UNCHANGED <<lines, statecount, wpc, fsm, inverses, coacc, unvisited, markcount, mapping,
                      added, i, j, new_arccount, net, pc>>
      BY <2>1 DEF cvars
    <2>4. /\ UNCHANGED <<Useful, States, Places, Input>>
          /\ \A t : /\ Final(t)' = Final(t) /\ State(t)' = State(t) /\ Target(t)' = Target(t)
                    /\ NewNumber(t)' = NewNumber(t)
      BY <2>3 DEF Useful, States, Places, Input, Final, State, Target, NewNumber
    <2>5. \A t : /\ DeadArc(t)' = DeadArc(t) /\ Kept(lines[t])' = Kept(lines[t])
                 /\ Renumbered(lines[t])' = Renumbered(lines[t])
                 /\ KeptArcs(t)' = KeptArcs(t)
      BY <2>3, <2>4 DEF DeadArc, Kept, Renumbered, KeptArcs
    <2>6. Untouched' BY <2>3 DEF CoInv, Untouched
    <2>7. Marked' BY <2>3, <2>4 DEF CoInv, Marked
    <2>8. Popped'
      <3>1. pc = "mark" => inverses = [t \in States |-> {s \in States \ {t} :
                     \E k \in Places : State(k) = s /\ Target(k) = t}]'
        BY <2>3, <2>4 DEF CoInv, Popped
      <3> QED BY <2>3, <2>4, <3>1 DEF CoInv, Popped
    <2>9. Settled'
      <3>1. pc = "compact" => mapping = [s \in States |-> NewNumber(s)]'
        BY <2>3, <2>4 DEF CoInv, Settled
      <3> QED BY <2>3, <2>4, <3>1 DEF CoInv, Settled
    <2>10. Reading' BY <2>3, <2>4, <2>5 DEF CoInv, Reading
    <2>11. Written'
      <3>1. UNCHANGED KeptArcs(i) BY <2>3, <2>5 DEF KeptArcs
      <3> QED BY <2>3, <2>4, <2>5, <3>1 DEF CoInv, Written
    <2>12. Counted' /\ Blocks' BY <2>3, <2>4, <2>5 DEF CoInv, Counted, Blocks, KeptArcs, Kept, State, Target
    <2>13. TrimResult' BY <2>3, TrimmedFrame DEF CoInv, TrimResult
    <2> QED BY <2>2, <2>6, <2>7, <2>8, <2>9, <2>10, <2>11, <2>12, <2>13 DEF CoInv
  <1> QED BY <1>1, <1>2, <1>3, <1>4, <1>5, <1>6, <1>7 DEF Next

\* What the tables hold before they are needed, and at the end.
Held ==
  /\ pc \in {"build", "mark", "compact", "done"}
  /\ pc = "build" => coacc = {} /\ unvisited = {}
  /\ DOMAIN mapping # {} => pc \in {"compact", "done"} /\ DOMAIN mapping = States
  /\ pc = "done" => added \subseteq States /\ i \in 0..Len(lines) /\ j \in 0..Len(lines)

LEMMA HeldKeeps == CoInv /\ Held /\ [Next]_vars => Held'
  <1> SUFFICES ASSUME CoInv, Held, [Next]_vars PROVE Held'
    OBVIOUS
  <1>1. CASE Build BY <1>1 DEF Build, cvars, Held
  <1>2. CASE Enter BY <1>2 DEF Enter, Held
  <1>3. ASSUME NEW s \in unvisited, Mark(s) PROVE Held'
    <2>1. /\ pc = "mark" /\ pc' \in {"mark", "done"} /\ mapping' = mapping
          /\ added' = added /\ i' = i /\ j' = j /\ UNCHANGED wvars
      BY <1>3 DEF Mark
    <2>2. added = {} /\ i = 0 /\ j = 0 /\ Len(lines) \in Nat
      BY <2>1 DEF CoInv, Untouched, WInv, WType
    <2> QED BY <2>1, <2>2 DEF Held, wvars
  <1>4. CASE Number
    <2>1. pc' = "compact" /\ DOMAIN mapping' = States /\ UNCHANGED wvars
      BY <1>4 DEF Number
    <2> QED BY <2>1 DEF Held, wvars, States
  <1>5. CASE CopyLine
    <2>1. pc = "compact" /\ pc' = "compact" /\ mapping' = mapping /\ UNCHANGED wvars
      BY <1>5 DEF CopyLine
    <2> QED BY <2>1 DEF Held, wvars, States
  <1>6. CASE Finish
    <2>1. /\ pc = "compact" /\ pc' = "done" /\ mapping' = mapping /\ added' = added
          /\ i' = i /\ UNCHANGED wvars
          /\ j' # j => j' = j + 1 /\ i > 1 /\ fsm[i - 1].state_no \notin added
      BY <1>6 DEF Finish
    <2>2. /\ Len(lines) \in Nat /\ i \in 0..Len(lines) /\ j \in 0..i /\ added \subseteq coacc
          /\ i > 0 /\ fsm[i - 1].state_no \notin added => j < i
      BY <2>1 DEF CoInv, WInv, WType, Reading
    <2>3. coacc \subseteq States BY <2>1 DEF CoInv, Marked
    <2>4. j' \in 0..Len(lines) BY ONLY <2>1, <2>2
    <2> QED BY <2>1, <2>2, <2>3, <2>4 DEF Held, wvars, States
  <1>7. CASE UNCHANGED vars BY <1>7 DEF vars, wvars, cvars, Held, States
  <1> QED BY <1>1, <1>2, <1>3, <1>4, <1>5, <1>6, <1>7 DEF Next

\* The stacks and counters of fsm_coaccessible are always about states of the machine.
THEOREM TypeCorrect == Spec => []TypeOK
  <1>1. Init => Held BY DEF Init, Held
  <1>2. CoInv /\ Held => TypeOK
    <2> SUFFICES ASSUME CoInv, Held PROVE TypeOK
      OBVIOUS
    <2>1. coacc \subseteq States /\ unvisited \subseteq coacc BY DEF CoInv, Marked, Held
    <2>2. pc # "build" => markcount \in 0..statecount
      <3> SUFFICES ASSUME pc # "build" PROVE markcount \in 0..statecount
        OBVIOUS
      <3>1. markcount = Cardinality(coacc) BY DEF CoInv, Marked
      <3>2. Cardinality(coacc) \in Nat /\ Cardinality(coacc) <= statecount
        BY <2>1, StatesFinite DEF CoInv, WInv
      <3> QED BY <3>1, <3>2 DEF CoInv, WInv, WType
    <2>3. added \subseteq States /\ i \in 0..Len(lines) /\ j \in 0..Len(lines)
      <3>1. Len(lines) \in Nat BY DEF CoInv, WInv, WType
      <3>2. CASE pc \in {"build", "mark"} BY <3>1, <3>2 DEF CoInv, Untouched
      <3>3. CASE pc = "compact" BY <2>1, <3>1, <3>3 DEF CoInv, Reading
      <3>4. CASE pc = "done" BY <3>4 DEF Held
      <3> QED BY <3>2, <3>3, <3>4 DEF Held
    <2> QED BY <2>1, <2>2, <2>3 DEF Held, TypeOK
  <1> QED BY <1>1, <1>2, CoStarts, CoKeeps, HeldKeeps, PTL DEF Spec

\* fsm_coaccessible never reads a line that it has overwritten, however it is called.
THEOREM ReadsHold == Spec => []ReadsIntact
  <1>1. CoInv => ReadsIntact
    <2> SUFFICES ASSUME CoInv, pc = "compact"
                 PROVE  /\ j <= i
                        /\ \A k \in i..(Len(lines) - 1) : fsm[k] = lines[k + 1]
                        /\ i > 0 => fsm[i - 1].state_no = lines[i].state_no
      BY DEF ReadsIntact
    <2>1. /\ Len(lines) \in Nat /\ i \in 0..Len(lines) /\ j \in 0..i
          /\ \A k \in i..Len(lines) : fsm[k] = Input[k]
          /\ i > 0 => fsm[i - 1].state_no = lines[i].state_no
      BY DEF CoInv, WInv, WType, Reading, State
    <2>2. \A k \in i..(Len(lines) - 1) : k \in i..Len(lines) /\ Input[k] = lines[k + 1]
      BY <2>1 DEF Input
    <2> QED BY <2>1, <2>2
  <1> QED BY <1>1, CoStarts, CoKeeps, PTL DEF Spec

\* What it leaves is the machine without the states that lead to no final state.
THEOREM TrimRight == Spec => []TrimResult
  <1>1. CoInv => TrimResult BY DEF CoInv
  <1> QED BY <1>1, CoStarts, CoKeeps, PTL DEF Spec
=============================================================================
