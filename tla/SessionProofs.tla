---------------------------- MODULE SessionProofs ----------------------------
(***************************************************************************)
(* Proofs about Session for stacks, definitions and memories of any size:  *)
(* no network ever has two owners or is used after it is freed, the        *)
(* handles kept fit their networks, and the shell does what Desk says.     *)
(***************************************************************************)
EXTENDS Session, FiniteSetTheorems, WellFoundedInduction, TLAPS

\* What the lists and the memory are made of.
HandleT == [net : Chunk \cup {NULL}, cm : Matrix \cup {NULL}]
EntryT == [number : Int, fsm : Chunk \cup {NULL}, ah : HandleT \cup {NULL},
           amedh : HandleT \cup {NULL}, next : Cell \cup {NULL}, previous : Cell \cup {NULL}]
NetT == [says : Content \cup {"free", "lost"}, cm : Matrix \cup {NULL}]
DefT == [name : Name \cup {Temporary}, net : Chunk]
HeapT == [main : Cell, cell : [Cell -> EntryT], net : [Chunk -> NetT],
          last : Chunk \cup {NULL}, defs : Seq(DefT), live : SUBSET Matrix,
          broken : BOOLEAN, turned : BOOLEAN, shared : BOOLEAN]

(***************************************************************************)
(* The entries of the stack from the bottom up and the sentinel are p; all *)
(* other cells are free.                                                   *)
(***************************************************************************)
Chain(main, cell, p) ==
  /\ p \in Seq(Cell) /\ p # <<>> /\ p[1] = main
  /\ \A j, k \in 1..Len(p) : p[j] = p[k] => j = k
  /\ \A k \in 1..(Len(p) - 1) : /\ cell[p[k]].number = k - 1
                                /\ cell[p[k]].next = p[k + 1]
                                /\ cell[p[k]].previous = IF k = 1 THEN NULL ELSE p[k - 1]
  /\ cell[p[Len(p)]].number = -1 /\ cell[p[Len(p)]].next = NULL
  /\ \A c \in Cell : (\A k \in 1..Len(p) : p[k] # c) => cell[c] = Unused

Well(h) == h \in HeapT /\ \E p : Chain(h.main, h.cell, p)

-----------------------------------------------------------------------------

\* A set of naturals that is not empty has a least member.
LEMMA LeastOf ==
  ASSUME NEW M \in SUBSET Nat, M # {}
  PROVE  \E m \in M : \A n \in M : m <= n
<1>1. PICK m \in M : \A n \in M : ~(n < m)
  <2>1. IsWellFoundedOn(OpToRel(<, Nat), Nat)
    BY NatLessThanWellFounded, Zenon
  <2>2. PICK m \in M : \A n \in M : <<n, m>> \notin OpToRel(<, Nat)
    BY <2>1, WFMin, Zenon
  <2> QED
    BY <2>2 DEF OpToRel
<1> QED
  BY <1>1

\* Sequences are the same that have the same members at the same places.
LEMMA SameSeq ==
  ASSUME NEW X, NEW s \in Seq(X), NEW t \in Seq(X), Len(s) = Len(t),
         \A i \in 1..Len(s) : s[i] = t[i]
  PROVE  s = t
OBVIOUS

\* The rest of a sequence from place k on.
LEMMA RestOf ==
  ASSUME NEW X, NEW q \in Seq(X), NEW k \in 1..Len(q)
  PROVE  SubSeq(q, k, Len(q)) = <<q[k]>> \o SubSeq(q, k + 1, Len(q))
<1> DEFINE s == SubSeq(q, k, Len(q))
           t == <<q[k]>> \o SubSeq(q, k + 1, Len(q))
<1>1. s \in Seq(X) /\ Len(s) = Len(q) - k + 1 /\ \A i \in 1..Len(s) : s[i] = q[k + i - 1]
  OBVIOUS
<1>2. t \in Seq(X) /\ Len(t) = Len(q) - k + 1
  OBVIOUS
<1>3. \A i \in 1..Len(t) : t[i] = q[k + i - 1]
  OBVIOUS
<1> HIDE DEF s, t
<1> QED
  BY <1>1, <1>2, <1>3, SameSeq

\* The sequence from its last place on is its last member.
LEMMA LastOf ==
  ASSUME NEW X, NEW q \in Seq(X), q # <<>>
  PROVE  SubSeq(q, Len(q), Len(q)) = <<q[Len(q)]>>
<1> DEFINE s == SubSeq(q, Len(q), Len(q))
<1>1. Len(q) \in Nat \ {0} /\ Len(q) \in 1..Len(q) /\ q[Len(q)] \in X
  OBVIOUS
<1>2. s \in Seq(X) /\ Len(s) = 1 /\ \A i \in 1..1 : s[i] = q[Len(q)]
  BY <1>1
<1>3. PICK t : t = <<q[Len(q)]>>
  OBVIOUS
<1>4. t \in Seq(X) /\ Len(t) = 1 /\ \A i \in 1..1 : t[i] = q[Len(q)]
  BY <1>1, <1>3
<1>5. s = t
  <2> HIDE DEF s
  <2> QED
    BY ONLY <1>2, <1>4, SameSeq
<1> QED
  BY <1>3, <1>5

(***************************************************************************)
(* The loops of stack.c meet the entries in the order of the chain.        *)
(***************************************************************************)
LEMMA PathIs ==
  ASSUME NEW h, NEW p, Chain(h.main, h.cell, p)
  PROVE  Path(h) = p
<1> DEFINE L == Len(p)
           Rec(f) == f = [c \in Cell |-> IF h.cell[c].number < 0 THEN <<c>>
                                         ELSE <<c>> \o f[h.cell[c].next]]
           Place(c) == CHOOSE k \in 1..L : p[k] = c
           f0 == [c \in Cell |-> IF \E k \in 1..L : p[k] = c THEN SubSeq(p, Place(c), L)
                                 ELSE <<c>>]
<1>1. /\ p \in Seq(Cell) /\ L \in Nat \ {0} /\ p[1] = h.main
      /\ \A j, k \in 1..L : p[j] = p[k] => j = k
      /\ \A k \in 1..(L - 1) : ~(h.cell[p[k]].number < 0) /\ h.cell[p[k]].next = p[k + 1]
      /\ h.cell[p[L]].number < 0
      /\ \A c \in Cell : (\A k \in 1..L : p[k] # c) => h.cell[c].number < 0
  <2>1. \A k \in 1..(L - 1) : ~(k - 1 < 0)
    BY DEF Chain
  <2>2. Unused.number < 0 /\ ~(0 < -1) /\ -1 < 0
    BY DEF Unused
  <2>3. L \in Nat \ {0}
    BY DEF Chain
  <2> QED
    BY <2>1, <2>2, <2>3 DEF Chain
<1>2. \A k \in 1..L : p[k] \in Cell /\ Place(p[k]) = k
  BY <1>1
<1>3. \A k \in 1..L : f0[p[k]] = SubSeq(p, k, L)
  BY <1>2
<1>4. SubSeq(p, L, L) = <<p[L]>>
  BY <1>1, LastOf DEF Chain
<1>5. \A k \in 1..(L - 1) : SubSeq(p, k, L) = <<p[k]>> \o SubSeq(p, k + 1, L)
  BY <1>1, RestOf
<1>6. SubSeq(p, 1, L) = p
  BY <1>1
<1>7. Rec(f0)
  <2> SUFFICES ASSUME NEW c \in Cell
               PROVE  f0[c] = IF h.cell[c].number < 0 THEN <<c>> ELSE <<c>> \o f0[h.cell[c].next]
    <3>1. f0 = [c \in Cell |-> f0[c]]
      BY Zenon
    <3> HIDE DEF f0
    <3> QED
      BY <3>1, Zenon
  <2>1. CASE \A k \in 1..L : p[k] # c
    BY <1>1, <2>1
  <2>2. ASSUME NEW k \in 1..L, p[k] = c
        PROVE  f0[c] = IF h.cell[c].number < 0 THEN <<c>> ELSE <<c>> \o f0[h.cell[c].next]
    <3> HIDE DEF f0
    <3>1. CASE k = L
      BY <1>1, <1>3, <1>4, <2>2, <3>1
    <3>2. CASE k # L
      <4>1. k \in 1..(L - 1) /\ k + 1 \in 1..L
        BY <1>1, <3>2
      <4>2. f0[p[k]] = <<p[k]>> \o f0[p[k + 1]]
        BY <1>3, <1>5, <4>1
      <4> QED
        BY <1>1, <2>2, <4>1, <4>2
    <3> QED
      BY <3>1, <3>2
  <2> QED
    BY <2>1, <2>2
<1> HIDE DEF f0, Place
<1>8. PICK from : from = CHOOSE f : Rec(f)
  BY Zenon
<1>9. Rec(from)
  BY <1>7, <1>8, Zenon
<1>10. Path(h) = from[h.main]
  BY <1>8 DEF Path
<1>11. \A d \in 0..(L - 1) : from[p[L - d]] = SubSeq(p, L - d, L)
  <2> DEFINE M == {d \in 0..(L - 1) : from[p[L - d]] # SubSeq(p, L - d, L)}
  <2> SUFFICES ASSUME M # {}
               PROVE  FALSE
    OBVIOUS
  <2>1. PICK d \in M : \A e \in M : d <= e
    <3>1. M \in SUBSET Nat
      BY <1>1
    <3> HIDE DEF M
    <3> QED
      BY <3>1, LeastOf
  <2>2. d \in 0..(L - 1) /\ L - d \in 1..L
    <3>1. d \in 0..(L - 1) /\ L \in Nat \ {0}
      BY <1>1, <2>1, Zenon
    <3> HIDE DEF M, L
    <3> QED
      BY ONLY <3>1
  <2>3. from[p[L - d]] = IF h.cell[p[L - d]].number < 0 THEN <<p[L - d]>>
                         ELSE <<p[L - d]>> \o from[h.cell[p[L - d]].next]
    BY <1>2, <1>9, <2>2, Zenon
  <2>4. CASE d = 0
    BY <1>1, <1>4, <2>1, <2>3, <2>4
  <2>5. CASE d # 0
    <3>1. d - 1 \in 0..(L - 1) /\ L - (d - 1) = L - d + 1 /\ L - d \in 1..(L - 1) /\ ~(d <= d - 1)
      BY <1>1, <2>2, <2>5
    <3>2. from[p[L - d + 1]] = SubSeq(p, L - d + 1, L)
      BY <2>1, <3>1, Zenon
    <3>3. from[p[L - d]] = <<p[L - d]>> \o from[p[L - d + 1]]
      BY <1>1, <2>3, <3>1, Zenon
    <3> QED
      BY <1>5, <2>1, <3>1, <3>2, <3>3
  <2> QED
    BY <2>4, <2>5
<1>12. from[p[1]] = SubSeq(p, 1, L)
  <2>1. L - 1 \in 0..(L - 1) /\ L - (L - 1) = 1
    BY <1>1
  <2> QED
    BY <1>11, <2>1
<1> QED
  BY <1>1, <1>6, <1>10, <1>12

\* stack_size counts the entries of the chain but the sentinel.
LEMMA SizeIs ==
  ASSUME NEW h, NEW p, Chain(h.main, h.cell, p)
  PROVE  stack_size(h) = Len(p) - 1
<1> DEFINE L == Len(p)
           Rec(f) == f = [c \in Cell |-> IF h.cell[c].next = NULL THEN 0
                                         ELSE 1 + f[h.cell[c].next]]
           Place(c) == CHOOSE k \in 1..L : p[k] = c
           f0 == [c \in Cell |-> IF \E k \in 1..L : p[k] = c THEN L - Place(c) ELSE 0]
<1>1. /\ p \in Seq(Cell) /\ L \in Nat \ {0} /\ p[1] = h.main
      /\ \A j, k \in 1..L : p[j] = p[k] => j = k
      /\ \A k \in 1..(L - 1) : h.cell[p[k]].next = p[k + 1]
      /\ h.cell[p[L]].next = NULL
      /\ \A c \in Cell : (\A k \in 1..L : p[k] # c) => h.cell[c].next = NULL
  <2>1. Unused.next = NULL
    BY DEF Unused
  <2>2. L \in Nat \ {0}
    BY DEF Chain
  <2> QED
    BY <2>1, <2>2 DEF Chain
<1>2. \A k \in 1..L : p[k] \in Cell /\ Place(p[k]) = k /\ p[k] # NULL
  BY <1>1, SessionAssumption
<1>3. \A k \in 1..L : f0[p[k]] = L - k
  BY <1>2
<1>4. Rec(f0)
  <2> SUFFICES ASSUME NEW c \in Cell
               PROVE  f0[c] = IF h.cell[c].next = NULL THEN 0 ELSE 1 + f0[h.cell[c].next]
    OBVIOUS
  <2>1. CASE \A k \in 1..L : p[k] # c
    BY <1>1, <2>1
  <2>2. ASSUME NEW k \in 1..L, p[k] = c
        PROVE  f0[c] = IF h.cell[c].next = NULL THEN 0 ELSE 1 + f0[h.cell[c].next]
    <3> HIDE DEF f0
    <3>1. CASE k = L
      BY <1>1, <1>3, <2>2, <3>1
    <3>2. CASE k # L
      <4>1. k \in 1..(L - 1) /\ k + 1 \in 1..L /\ L - k = 1 + (L - (k + 1))
        BY <1>1, <3>2
      <4>2. f0[c] = L - k
        BY <1>3, <2>2, <4>1
      <4>3. f0[p[k + 1]] = L - (k + 1) /\ p[k + 1] # NULL
        BY <1>2, <1>3, <4>1
      <4> QED
        BY <1>1, <2>2, <4>1, <4>2, <4>3
    <3> QED
      BY <3>1, <3>2
  <2> QED
    BY <2>1, <2>2
<1> HIDE DEF f0, Place
<1>5. PICK from : from = CHOOSE f : Rec(f)
  BY Zenon
<1>6. Rec(from)
  BY <1>4, <1>5, Zenon
<1>7. stack_size(h) = from[h.main]
  BY <1>5 DEF stack_size
<1>8. \A d \in 0..(L - 1) : from[p[L - d]] = d
  <2> DEFINE M == {d \in 0..(L - 1) : from[p[L - d]] # d}
  <2> SUFFICES ASSUME M # {}
               PROVE  FALSE
    OBVIOUS
  <2>1. PICK d \in M : \A e \in M : d <= e
    <3>1. M \in SUBSET Nat
      BY <1>1
    <3> HIDE DEF M
    <3> QED
      BY <3>1, LeastOf
  <2>2. d \in 0..(L - 1) /\ L - d \in 1..L
    BY <1>1
  <2>3. from[p[L - d]] = IF h.cell[p[L - d]].next = NULL THEN 0
                         ELSE 1 + from[h.cell[p[L - d]].next]
    BY <1>2, <1>6, <2>2
  <2>4. CASE d = 0
    BY <1>1, <2>1, <2>3, <2>4
  <2>5. CASE d # 0
    <3>1. d - 1 \in 0..(L - 1) /\ L - (d - 1) = L - d + 1 /\ L - d \in 1..(L - 1) /\ ~(d <= d - 1)
      BY <1>1, <2>2, <2>5
    <3>2. from[p[L - d + 1]] = d - 1
      BY <2>1, <3>1
    <3>3. h.cell[p[L - d]].next = p[L - d + 1] /\ p[L - d + 1] # NULL
      BY <1>1, <1>2, <3>1
    <3>4. from[p[L - d]] = 1 + (d - 1)
      BY <2>3, <3>2, <3>3
    <3> QED
      BY <2>1, <2>2, <3>4
  <2> QED
    BY <2>4, <2>5
<1> QED
  <2>1. L - 1 \in 0..(L - 1) /\ L - (L - 1) = 1
    BY <1>1
  <2> QED
    BY <1>1, <1>7, <1>8, <2>1

\* The networks of the entries of a chain.
NetsOf(cell, p) == [k \in 1..(Len(p) - 1) |-> cell[p[k]].fsm]

\* The stack of h is a well-formed list, and its networks are s from the bottom up.
Piled(h, s) ==
  h \in HeapT /\ \E p : Chain(h.main, h.cell, p) /\ s = NetsOf(h.cell, p)

\* The handles of an entry were made for its network.
Fit(e) == (e.ah = NULL \/ e.ah.net = e.fsm) /\ (e.amedh = NULL \/ e.amedh.net = e.fsm)
Fits(h, N) == h.turned \/ \A c \in Entries(h) : h.cell[c].fsm \in N \/ Fit(h.cell[c])

\* What is used of a chain, without the indices.
LEMMA ChainIs ==
  ASSUME NEW main, NEW cell, NEW p, Chain(main, cell, p)
  PROVE  /\ p \in Seq(Cell) /\ Len(p) \in Nat \ {0} /\ p[1] = main
         /\ \A j \in 1..Len(p) : p[j] \in Cell
         /\ \A j, k \in 1..Len(p) : p[j] = p[k] => j = k
         /\ \A k \in 1..(Len(p) - 1) : ~(cell[p[k]].number < 0) /\ cell[p[k]].number >= 0
         /\ \A k \in 1..Len(p) : cell[p[k]].number # -2
         /\ \A c \in Cell : (\A k \in 1..Len(p) : p[k] # c) =>
                            cell[c] = Unused /\ cell[c].number = -2 /\ ~(cell[c].number >= 0)
         /\ ~(cell[p[Len(p)]].number >= 0)
<1>1. p \in Seq(Cell) /\ Len(p) \in Nat \ {0} /\ p[1] = main /\ \A j \in 1..Len(p) : p[j] \in Cell
  BY DEF Chain
<1>2. \A k \in 1..(Len(p) - 1) : ~(cell[p[k]].number < 0) /\ cell[p[k]].number >= 0
                                 /\ cell[p[k]].number # -2
  <2>1. \A k \in 1..(Len(p) - 1) : ~(k - 1 < 0) /\ k - 1 >= 0 /\ k - 1 # -2
    BY <1>1
  <2> QED
    BY <2>1 DEF Chain
<1>3. \A c \in Cell : (\A k \in 1..Len(p) : p[k] # c) => cell[c] = Unused
  BY DEF Chain
<1>4. Unused.number = -2 /\ ~(-2 >= 0) /\ ~(-1 >= 0) /\ -1 # -2
  BY DEF Unused
<1>5. cell[p[Len(p)]].number = -1
  BY DEF Chain
<1>6. \A k \in 1..Len(p) : k = Len(p) \/ k \in 1..(Len(p) - 1)
  BY <1>1
<1>7. \A j, k \in 1..Len(p) : p[j] = p[k] => j = k
  BY DEF Chain
<1> QED
  BY <1>1, <1>2, <1>3, <1>4, <1>5, <1>6, <1>7

\* The cells that hold an entry are those of the chain before its last one.
LEMMA EntriesIs ==
  ASSUME NEW h, NEW p, Chain(h.main, h.cell, p)
  PROVE  Entries(h) = {p[k] : k \in 1..(Len(p) - 1)}
<1>1. PICK L : L = Len(p)
  OBVIOUS
<1>2. /\ L \in Nat \ {0} /\ \A j \in 1..L : p[j] \in Cell
      /\ \A k \in 1..(L - 1) : h.cell[p[k]].number >= 0
      /\ \A c \in Cell : (\A k \in 1..L : p[k] # c) => ~(h.cell[c].number >= 0)
      /\ ~(h.cell[p[L]].number >= 0)
  BY <1>1, ChainIs
<1>3. \A k \in 1..L : k = L \/ k \in 1..(L - 1)
  BY <1>2
<1>4. \A k \in 1..(L - 1) : k \in 1..L
  BY <1>2
<1>5. Entries(h) = {c \in Cell : h.cell[c].number >= 0}
  BY DEF Entries
<1>6. ASSUME NEW c \in Entries(h)
      PROVE  \E k \in 1..(L - 1) : p[k] = c
  BY <1>2, <1>3, <1>5
<1>7. ASSUME NEW k \in 1..(L - 1)
      PROVE  p[k] \in Entries(h)
  BY <1>2, <1>4, <1>5
<1> QED
  BY <1>1, <1>6, <1>7

\* What the commands see of a stack.
LEMMA StackIs ==
  ASSUME NEW h, NEW p, Chain(h.main, h.cell, p)
  PROVE  /\ OnStack(h) = NetsOf(h.cell, p)
         /\ stack_size(h) = Len(p) - 1
         /\ Len(p) > 1 => /\ stack_find_top(h) = p[Len(p) - 1]
                          /\ TopNet(h) = h.cell[p[Len(p) - 1]].fsm
         /\ Len(p) > 2 => SecondNet(h) = h.cell[p[Len(p) - 2]].fsm
<1>1. Path(h) = p /\ stack_size(h) = Len(p) - 1
  BY PathIs, SizeIs
<1>2. OnStack(h) = NetsOf(h.cell, p)
  BY <1>1 DEF OnStack, NetsOf
<1>3. stack_find_top(h) = p[Len(p) - 1]
  BY <1>1 DEF stack_find_top
<1>4. TopNet(h) = h.cell[p[Len(p) - 1]].fsm
  BY <1>3 DEF TopNet
<1>5. ASSUME Len(p) > 2
      PROVE  SecondNet(h) = h.cell[p[Len(p) - 2]].fsm
  <2>1. PICK L : L = Len(p)
    OBVIOUS
  <2>2. L \in Nat /\ L > 2
    BY <1>5, <2>1, ChainIs
  <2>3. L - 1 \in 1..(L - 1) /\ L - 1 # 1 /\ (L - 1) - 1 = L - 2
    BY <2>2
  <2>4. \A k \in 1..(L - 1) : k # 1 => h.cell[p[k]].previous = p[k - 1]
    BY <2>1 DEF Chain
  <2>5. h.cell[p[L - 1]].previous = p[L - 2]
    BY <2>3, <2>4
  <2> QED
    BY <1>3, <2>1, <2>5 DEF SecondNet, stack_find_second
<1> QED
  BY <1>1, <1>2, <1>3, <1>4, <1>5

\* What the helpers of stack.c return on a stack that holds the networks s.
LEMMA PiledIs ==
  ASSUME NEW h, NEW s, Piled(h, s)
  PROVE  /\ OnStack(h) = s
         /\ stack_size(h) = Len(s)
         /\ s \in Seq(Chunk \cup {NULL})
         /\ Len(s) > 0 => TopNet(h) = s[Len(s)]
         /\ Len(s) > 1 => SecondNet(h) = s[Len(s) - 1]
         /\ {h.cell[c].fsm : c \in Entries(h)} = ToSet(s)
<1>1. PICK p : Chain(h.main, h.cell, p) /\ s = NetsOf(h.cell, p)
  BY DEF Piled
<1>2. PICK L : L = Len(p)
  OBVIOUS
<1>3. L \in Nat \ {0} /\ \A j \in 1..L : p[j] \in Cell
  BY <1>1, <1>2, ChainIs
<1>4. s = [k \in 1..(L - 1) |-> h.cell[p[k]].fsm]
  BY <1>1, <1>2 DEF NetsOf
<1>5. \A c \in Cell : h.cell[c].fsm \in Chunk \cup {NULL}
  BY DEF Piled, HeapT, EntryT
<1>6. s \in Seq(Chunk \cup {NULL}) /\ Len(s) = L - 1 /\ DOMAIN s = 1..(L - 1)
  <2>1. \A k \in 1..(L - 1) : h.cell[p[k]].fsm \in Chunk \cup {NULL}
    BY <1>3, <1>5
  <2>2. L - 1 \in Nat
    BY <1>3
  <2> QED
    BY <1>4, <2>1, <2>2
<1>7. OnStack(h) = s /\ stack_size(h) = Len(s)
  BY <1>1, <1>2, <1>6, StackIs
<1>8. Len(s) > 0 => TopNet(h) = s[Len(s)]
  <2>1. Len(s) > 0 => L > 1 /\ L - 1 \in 1..(L - 1)
    BY <1>3, <1>6
  <2>2. L > 1 => TopNet(h) = h.cell[p[L - 1]].fsm
    BY <1>1, <1>2, StackIs
  <2> QED
    BY <1>4, <1>6, <2>1, <2>2
<1>9. Len(s) > 1 => SecondNet(h) = s[Len(s) - 1]
  <2>1. Len(s) > 1 => L > 2 /\ L - 2 \in 1..(L - 1) /\ (L - 1) - 1 = L - 2
    BY <1>3, <1>6
  <2>2. L > 2 => SecondNet(h) = h.cell[p[L - 2]].fsm
    BY <1>1, <1>2, StackIs
  <2> QED
    BY <1>4, <1>6, <2>1, <2>2
<1>10. {h.cell[c].fsm : c \in Entries(h)} = ToSet(s)
  <2>1. Entries(h) = {p[k] : k \in 1..(L - 1)}
    BY <1>1, <1>2, EntriesIs
  <2>2. ToSet(s) = {s[k] : k \in 1..(L - 1)}
    BY <1>6 DEF ToSet
  <2>3. \A k \in 1..(L - 1) : s[k] = h.cell[p[k]].fsm
    BY <1>4
  <2> QED
    BY ONLY <2>1, <2>2, <2>3
<1> QED
  BY <1>6, <1>7, <1>8, <1>9, <1>10
-----------------------------------------------------------------------------
(***************************************************************************)
(* What the operations of the stack do to the list of networks.            *)
(***************************************************************************)

\* r differs from h in the stack at most.
Aside(r, h) == /\ r.net = h.net /\ r.last = h.last /\ r.defs = h.defs /\ r.live = h.live
               /\ r.broken = h.broken /\ r.shared = h.shared

\* An entry is as it was, but for its handles.
Alike(e, f) == e.number = f.number /\ e.fsm = f.fsm /\ e.next = f.next /\ e.previous = f.previous

\* Least returns a member of any nonempty set of numbers.
LEMMA LeastIs ==
  ASSUME NEW S \in SUBSET Nat, S # {}
  PROVE  Least(S) \in S
BY LeastOf DEF Least

\* There is a cell for one more entry while the stack is within its bound.
LEMMA FreeCell ==
  ASSUME NEW h, NEW p, Chain(h.main, h.cell, p), Len(p) < Cardinality(Cell)
  PROVE  /\ NewCell(h) \in Cell
         /\ \A k \in 1..Len(p) : p[k] # NewCell(h)
<1>1. PICK L : L = Len(p)
  OBVIOUS
<1>2. /\ L \in Nat /\ L < Cardinality(Cell) /\ p \in [1..L -> Cell]
      /\ \A c \in Cell : (\A k \in 1..L : p[k] # c) => h.cell[c].number = -2
      /\ \A k \in 1..L : h.cell[p[k]].number # -2
  <2>1. p \in Seq(Cell) => p \in [1..Len(p) -> Cell]
    OBVIOUS
  <2> QED
    BY <1>1, <2>1, ChainIs
<1>3. PICK c \in Cell : \A k \in 1..L : p[k] # c
  <2> SUFFICES ASSUME \A c \in Cell : \E k \in 1..L : p[k] = c
               PROVE  FALSE
    OBVIOUS
  <2>1. p \in Surjection(1..L, Cell)
    BY <1>2 DEF Surjection
  <2>2. Cardinality(Cell) <= L
    BY <1>2, <2>1, FS_SurjCardinalityBound DEF ExistsSurjection
  <2>3. Cardinality(Cell) \in Nat
    BY FS_CardinalityType, SessionAssumption
  <2> QED
    BY <1>2, <2>2, <2>3
<1>4. c \in {x \in Cell : h.cell[x].number = -2}
  BY <1>2, <1>3
<1>5. NewCell(h) \in {x \in Cell : h.cell[x].number = -2}
  <2>1. {x \in Cell : h.cell[x].number = -2} \in SUBSET Nat
    BY SessionAssumption
  <2> QED
    BY <1>4, <2>1, LeastIs DEF NewCell
<1> QED
  BY <1>1, <1>2, <1>5

\* A list whose entries change their handles at most stays what it is.
LEMMA SameStack ==
  ASSUME NEW h, NEW r, NEW s, Piled(h, s), r \in HeapT, r.main = h.main,
         \A c \in Cell : Alike(r.cell[c], h.cell[c]),
         \A c \in Cell : h.cell[c] = Unused => r.cell[c] = Unused
  PROVE  Piled(r, s) /\ Entries(r) = Entries(h)
<1>1. PICK p : Chain(h.main, h.cell, p) /\ s = NetsOf(h.cell, p)
  BY DEF Piled
<1>2. \A k \in 1..Len(p) : p[k] \in Cell
  BY <1>1, ChainIs
<1>3. Len(p) \in Nat \ {0}
  BY <1>1, ChainIs
<1>4. \A k \in 1..(Len(p) - 1) : k \in 1..Len(p) /\ Alike(r.cell[p[k]], h.cell[p[k]])
  BY <1>2, <1>3
<1>5. Alike(r.cell[p[Len(p)]], h.cell[p[Len(p)]])
  BY <1>2, <1>3
<1>6. Chain(r.main, r.cell, p)
  <2>1. \A k \in 1..(Len(p) - 1) : /\ r.cell[p[k]].number = k - 1
                                   /\ r.cell[p[k]].next = p[k + 1]
                                   /\ r.cell[p[k]].previous = IF k = 1 THEN NULL ELSE p[k - 1]
    BY <1>1, <1>4 DEF Alike, Chain
  <2>2. r.cell[p[Len(p)]].number = -1 /\ r.cell[p[Len(p)]].next = NULL
    BY <1>1, <1>5 DEF Alike, Chain
  <2> QED
    BY <1>1, <2>1, <2>2 DEF Chain
<1>7. s = NetsOf(r.cell, p)
  <2>1. \A k \in 1..(Len(p) - 1) : r.cell[p[k]].fsm = h.cell[p[k]].fsm
    BY <1>4 DEF Alike
  <2> QED
    BY <1>1, <2>1 DEF NetsOf
<1>8. Entries(r) = Entries(h)
  BY DEF Entries, Alike
<1> QED
  BY <1>6, <1>7, <1>8 DEF Piled

\* A sequence that agrees with the entries of a chain is the pile of that chain.
LEMMA NetsIs ==
  ASSUME NEW cell, NEW p, NEW t \in Seq(Chunk \cup {NULL}), Len(p) - 1 = Len(t),
         \A k \in 1..Len(t) : t[k] = cell[p[k]].fsm
  PROVE  t = NetsOf(cell, p)
<1>1. PICK M : M = Len(t)
  OBVIOUS
<1>2. t = [k \in 1..M |-> t[k]]
  BY <1>1
<1>3. NetsOf(cell, p) = [k \in 1..M |-> cell[p[k]].fsm]
  BY <1>1 DEF NetsOf
<1>4. \A k \in 1..M : t[k] = cell[p[k]].fsm
  BY <1>1
<1> QED
  BY ONLY <1>2, <1>3, <1>4

\* stack_add puts the network on top, and the entries that were there stay as they are.
LEMMA AddIs ==
  ASSUME NEW h, NEW s, Piled(h, s), NEW n \in Chunk, Len(s) + 1 < Cardinality(Cell)
  PROVE  LET r == stack_add(h, n)
         IN  /\ Piled(r, Append(s, n)) /\ Aside(r, h)
             /\ \A N : Fits(h, N) => Fits(r, N)
<1>1. PICK p : Chain(h.main, h.cell, p) /\ s = NetsOf(h.cell, p)
  BY DEF Piled
<1>2. PICK L : L = Len(p)
  OBVIOUS
<1>3. PICK d : d = NewCell(h)
  OBVIOUS
<1>4. PICK r : r = stack_add(h, n)
  OBVIOUS
<1>5. /\ L \in Nat \ {0} /\ p \in Seq(Cell) /\ \A j \in 1..L : p[j] \in Cell
      /\ \A j, k \in 1..L : p[j] = p[k] => j = k
      /\ \A c \in Cell : (\A k \in 1..L : p[k] # c) => h.cell[c] = Unused
  BY <1>1, <1>2, ChainIs
<1>6. Len(s) = L - 1 /\ s \in Seq(Chunk \cup {NULL}) /\ \A k \in 1..(L - 1) : s[k] = h.cell[p[k]].fsm
  <2>1. stack_size(h) = Len(s) /\ stack_size(h) = L - 1 /\ s \in Seq(Chunk \cup {NULL})
    BY <1>1, <1>2, PiledIs, StackIs
  <2> QED
    BY <1>1, <1>2, <2>1 DEF NetsOf
<1>7. d \in Cell /\ \A k \in 1..L : p[k] # d
  <2>1. L < Cardinality(Cell)
    BY <1>5, <1>6
  <2> QED
    BY <1>1, <1>2, <1>3, <2>1, FreeCell
<1>8. PICK b : b = IF L = 1 THEN NULL ELSE p[L - 1]
  OBVIOUS
<1>9. PICK e : e = [number |-> L - 1, fsm |-> n, ah |-> NULL, amedh |-> NULL, next |-> d,
                    previous |-> b]
  OBVIOUS
<1>10. PICK z : z = Sentinel(p[L])
  OBVIOUS
<1>11. b \in Cell \cup {NULL} /\ p[L] \in Cell /\ p[L] # d
  <2>1. L # 1 => L - 1 \in 1..L
    BY <1>5
  <2> QED
    BY <1>5, <1>7, <1>8, <2>1
<1>12. r = [h EXCEPT !.cell[d] = z, !.cell[p[L]] = e]
  <2>1. Path(h) = p
    BY <1>1, PathIs
  <2>2. L - 1 + 1 = L /\ (L - 1 = 0 <=> L = 1)
    BY <1>5
  <2> QED
    BY <1>2, <1>3, <1>4, <1>8, <1>9, <1>10, <2>1, <2>2 DEF stack_add
<1>13. z \in EntryT /\ e \in EntryT /\ z.number = -1 /\ z.next = NULL
       /\ e.number = L - 1 /\ e.fsm = n /\ e.next = d /\ e.previous = b
       /\ e.ah = NULL /\ e.amedh = NULL
  <2>1. z = [number |-> -1, fsm |-> NULL, ah |-> [net |-> NULL, cm |-> NULL],
             amedh |-> [net |-> NULL, cm |-> NULL], next |-> NULL, previous |-> p[L]]
    BY <1>10 DEF Sentinel, Unused, Garbage
  <2>2. [net |-> NULL, cm |-> NULL] \in HandleT
    BY DEF HandleT
  <2> QED
    BY <1>5, <1>7, <1>9, <1>11, <2>1, <2>2 DEF EntryT
<1>14. /\ r \in HeapT /\ r.main = h.main /\ Aside(r, h) /\ r.turned = h.turned
       /\ r.cell = [[h.cell EXCEPT ![d] = z] EXCEPT ![p[L]] = e]
  <2>1. h \in HeapT
    BY DEF Piled
  <2> QED
    BY <1>7, <1>11, <1>12, <1>13, <2>1 DEF HeapT, Aside
<1>15. h.cell \in [Cell -> EntryT]
  BY DEF Piled, HeapT
<1>16. /\ r.cell[d] = z /\ r.cell[p[L]] = e
       /\ \A c \in Cell : c # d /\ c # p[L] => r.cell[c] = h.cell[c]
  BY <1>7, <1>11, <1>14, <1>15
<1>17. PICK q : q = Append(p, d)
  OBVIOUS
<1>18. q \in Seq(Cell) /\ Len(q) = L + 1 /\ q[L + 1] = d /\ \A k \in 1..L : q[k] = p[k]
  BY <1>2, <1>5, <1>7, <1>17
<1>19. \A k \in 1..(L - 1) : r.cell[p[k]] = h.cell[p[k]] /\ k \in 1..L
  <2>1. \A k \in 1..(L - 1) : k \in 1..L /\ k # L
    BY <1>5
  <2> QED
    BY <1>5, <1>7, <1>16, <2>1
<1>20. Chain(r.main, r.cell, q)
  <2>1. q # <<>> /\ q[1] = r.main
    <3>1. p[1] = h.main /\ 1 \in 1..L /\ L + 1 # 0
      BY <1>1, <1>5 DEF Chain
    <3>2. q # <<>>
      BY <1>18, <3>1
    <3> QED
      BY <1>14, <1>18, <3>1, <3>2
  <2>2. \A j, k \in 1..Len(q) : q[j] = q[k] => j = k
    <3>1. \A j \in 1..Len(q) : j \in 1..L \/ j = L + 1
      BY <1>5, <1>18
    <3> QED
      BY <1>5, <1>7, <1>18, <3>1
  <2>3. ASSUME NEW k \in 1..(Len(q) - 1)
        PROVE  /\ r.cell[q[k]].number = k - 1
               /\ r.cell[q[k]].next = q[k + 1]
               /\ r.cell[q[k]].previous = IF k = 1 THEN NULL ELSE q[k - 1]
    <3>1. k \in 1..L /\ (k = L \/ (k \in 1..(L - 1) /\ k + 1 \in 1..L)) /\ (k # 1 => k - 1 \in 1..L)
      BY <1>5, <1>18
    <3>2. CASE k = L
      BY <1>8, <1>13, <1>16, <1>18, <3>1, <3>2
    <3>3. CASE k \in 1..(L - 1)
      <4>1. k + 1 \in 1..L
        BY <1>5, <3>3
      <4>2. r.cell[q[k]] = h.cell[p[k]] /\ q[k + 1] = p[k + 1] /\ (k # 1 => q[k - 1] = p[k - 1])
        BY <1>18, <1>19, <3>1, <3>3, <4>1
      <4> QED
        BY <1>1, <1>2, <3>3, <4>2 DEF Chain
    <3> QED
      BY <3>1, <3>2, <3>3
  <2>4. r.cell[q[Len(q)]].number = -1 /\ r.cell[q[Len(q)]].next = NULL
    BY <1>13, <1>16, <1>18
  <2>5. ASSUME NEW c \in Cell, \A k \in 1..Len(q) : q[k] # c
        PROVE  r.cell[c] = Unused
    <3>1. L + 1 \in 1..Len(q) /\ \A k \in 1..L : k \in 1..Len(q)
      BY <1>5, <1>18
    <3>2. c # d /\ \A k \in 1..L : p[k] # c
      BY <1>18, <2>5, <3>1
    <3>3. c # p[L]
      BY <1>5, <3>2
    <3> QED
      BY <1>5, <1>16, <3>2, <3>3
  <2> QED
    BY <1>18, <2>1, <2>2, <2>3, <2>4, <2>5 DEF Chain
<1>21. Append(s, n) = NetsOf(r.cell, q)
  <2>1. PICK t : t = Append(s, n)
    OBVIOUS
  <2>2. /\ t \in Seq(Chunk \cup {NULL}) /\ Len(t) = L /\ t[L] = n
        /\ \A k \in 1..(L - 1) : t[k] = s[k]
    BY <1>5, <1>6, <2>1
  <2>3. ASSUME NEW k \in 1..L
        PROVE  t[k] = r.cell[q[k]].fsm
    <3>1. q[k] = p[k] /\ (k = L \/ k \in 1..(L - 1))
      BY <1>5, <1>18
    <3>2. CASE k = L
      BY <1>13, <1>16, <2>2, <3>1, <3>2
    <3>3. CASE k \in 1..(L - 1)
      BY <1>6, <1>19, <2>2, <3>1, <3>3
    <3> QED
      BY <3>1, <3>2, <3>3
  <2>4. Len(q) - 1 = Len(t) /\ Len(t) = L
    BY <1>5, <1>18, <2>2
  <2>5. t = NetsOf(r.cell, q)
    BY ONLY <2>2, <2>3, <2>4, NetsIs
  <2> QED
    BY <2>1, <2>5
<1>22. ASSUME NEW N, Fits(h, N)
       PROVE  Fits(r, N)
  <2>1. /\ Entries(r) = {q[k] : k \in 1..(Len(q) - 1)}
        /\ Entries(h) = {p[k] : k \in 1..(L - 1)}
    <3>1. Entries(r) = {q[k] : k \in 1..(Len(q) - 1)}
      BY ONLY <1>20, EntriesIs
    <3>2. Entries(h) = {p[k] : k \in 1..(Len(p) - 1)}
      BY ONLY <1>1, EntriesIs
    <3> QED
      BY <1>2, <3>1, <3>2
  <2>2. ASSUME NEW c \in Entries(r)
        PROVE  c = p[L] \/ (c \in Entries(h) /\ r.cell[c] = h.cell[c])
    <3>1. PICK k \in 1..L : c = p[k]
      BY <1>5, <1>18, <2>1
    <3>2. k = L \/ k \in 1..(L - 1)
      BY <1>5
    <3> QED
      BY <1>19, <2>1, <3>1, <3>2
  <2>3. Fit(e)
    BY <1>13 DEF Fit
  <2> QED
    BY <1>14, <1>16, <1>22, <2>2, <2>3 DEF Fits
<1> QED
  BY <1>4, <1>14, <1>20, <1>21, <1>22 DEF Piled
\* stack_pop of a stack of more than one network takes the top one out of the list.
LEMMA PopLong ==
  ASSUME NEW h, NEW s, Piled(h, s), Len(s) > 1
  PROVE  LET r == stack_pop(h)
         IN  /\ Piled(r, Front(s)) /\ Aside(r, h) /\ r.turned = h.turned
             /\ \A N : Fits(h, N) => Fits(r, N)
<1>1. PICK p : Chain(h.main, h.cell, p) /\ s = NetsOf(h.cell, p)
  BY DEF Piled
<1>2. PICK L : L = Len(p)
  OBVIOUS
<1>3. PICK r : r = stack_pop(h)
  OBVIOUS
<1>4. /\ p \in Seq(Cell) /\ \A j \in 1..L : p[j] \in Cell
      /\ \A j, k \in 1..L : p[j] = p[k] => j = k
      /\ \A c \in Cell : (\A k \in 1..L : p[k] # c) => h.cell[c] = Unused
      /\ p[1] = h.main
  BY <1>1, <1>2, ChainIs
<1>5. /\ Len(s) = L - 1 /\ s \in Seq(Chunk \cup {NULL}) /\ stack_size(h) = L - 1
      /\ \A k \in 1..(L - 1) : s[k] = h.cell[p[k]].fsm
  <2>1. stack_size(h) = Len(s) /\ stack_size(h) = L - 1 /\ s \in Seq(Chunk \cup {NULL})
    BY <1>1, <1>2, PiledIs, StackIs
  <2> QED
    BY <1>1, <1>2, <2>1 DEF NetsOf
<1>6. L \in Nat /\ L > 2
  <2>1. L \in Nat
    BY <1>1, <1>2, ChainIs
  <2> QED
    BY <1>5, <2>1
<1>7. PICK x, y, z : x = p[L - 2] /\ y = p[L - 1] /\ z = p[L]
  OBVIOUS
<1>8. /\ x \in Cell /\ y \in Cell /\ z \in Cell /\ x # y /\ x # z /\ y # z
      /\ L - 2 \in 1..L /\ L - 1 \in 1..L /\ L \in 1..L
  <2>1. L - 2 \in 1..L /\ L - 1 \in 1..L /\ L \in 1..L /\ L - 2 # L - 1 /\ L - 2 # L /\ L - 1 # L
    BY <1>6
  <2> QED
    BY <1>4, <1>7, <2>1
<1>9. /\ \A k \in 1..(L - 1) : /\ h.cell[p[k]].number = k - 1
                               /\ h.cell[p[k]].next = p[k + 1]
                               /\ h.cell[p[k]].previous = IF k = 1 THEN NULL ELSE p[k - 1]
      /\ h.cell[z].number = -1 /\ h.cell[z].next = NULL
  BY <1>1, <1>2, <1>7 DEF Chain
<1>10. h.cell[y].previous = x /\ h.cell[y].next = z
  <2>1. L - 1 \in 1..(L - 1) /\ L - 1 # 1 /\ (L - 1) - 1 = L - 2 /\ (L - 1) + 1 = L
    BY <1>6
  <2> QED
    BY <1>7, <1>9, <2>1
<1>11. r = [h EXCEPT !.cell[x].next = z, !.cell[z].previous = x, !.cell[y] = Unused]
  <2>1. stack_find_top(h) = y
    <3>1. L > 1
      BY <1>6
    <3>2. Len(p) > 1 => stack_find_top(h) = p[Len(p) - 1]
      BY ONLY <1>1, StackIs
    <3> QED
      BY <1>2, <1>7, <3>1, <3>2
  <2>2. stack_size(h) # 1
    BY <1>5, <1>6
  <2> QED
    BY <1>3, <1>10, <2>1, <2>2 DEF stack_pop
<1>12. h \in HeapT /\ h.cell \in [Cell -> EntryT]
  BY DEF Piled, HeapT
<1>13. Unused \in EntryT /\ ~(Unused.number >= 0)
  <2>1. ~(-2 >= 0)
    OBVIOUS
  <2> QED
    BY <2>1 DEF Unused, EntryT
<1>14. PICK e : e = [h.cell[x] EXCEPT !.next = z]
  OBVIOUS
<1>15. PICK f : f = [h.cell[z] EXCEPT !.previous = x]
  OBVIOUS
<1>16. /\ e \in EntryT /\ e.number = h.cell[x].number /\ e.fsm = h.cell[x].fsm
       /\ e.previous = h.cell[x].previous /\ e.next = z /\ e.ah = h.cell[x].ah /\ e.amedh = h.cell[x].amedh
       /\ f \in EntryT /\ f.number = -1 /\ f.next = NULL
  <2>1. h.cell[x] \in EntryT /\ h.cell[z] \in EntryT
    BY <1>8, <1>12
  <2>2. /\ h.cell[x] \in EntryT /\ h.cell[z] \in EntryT /\ x \in Cell \cup {NULL} /\ z \in Cell \cup {NULL}
        /\ h.cell[z].number = -1 /\ h.cell[z].next = NULL
    BY <1>8, <1>9, <2>1
  <2>3. /\ e \in EntryT /\ e.number = h.cell[x].number /\ e.fsm = h.cell[x].fsm
        /\ e.previous = h.cell[x].previous /\ e.next = z /\ e.ah = h.cell[x].ah /\ e.amedh = h.cell[x].amedh
    BY ONLY <1>14, <2>2 DEF EntryT
  <2>4. f \in EntryT /\ f.number = -1 /\ f.next = NULL
    BY ONLY <1>15, <2>2 DEF EntryT
  <2> QED
    BY ONLY <2>3, <2>4
<1>17. r.cell = [h.cell EXCEPT ![x] = e, ![z] = f, ![y] = Unused]
       /\ r.main = h.main /\ Aside(r, h) /\ r.turned = h.turned /\ r \in HeapT
  <2>1. [h.cell EXCEPT ![x].next = z, ![z].previous = x, ![y] = Unused]
          = [h.cell EXCEPT ![x] = e, ![z] = f, ![y] = Unused]
    BY <1>8, <1>12, <1>14, <1>15
  <2>2. PICK C : C = [h.cell EXCEPT ![x] = e, ![z] = f, ![y] = Unused]
    OBVIOUS
  <2>3. C \in [Cell -> EntryT]
    BY <1>8, <1>12, <1>13, <1>16, <2>2
  <2>4. r = [h EXCEPT !.cell = C]
    BY <1>11, <1>12, <2>1, <2>2 DEF HeapT
  <2> QED
    BY <1>12, <2>2, <2>3, <2>4 DEF HeapT, Aside
<1>18. /\ r.cell[x] = e /\ r.cell[z] = f /\ r.cell[y] = Unused
       /\ \A c \in Cell : c # x /\ c # y /\ c # z => r.cell[c] = h.cell[c]
  BY <1>8, <1>12, <1>17
<1>19. PICK q : q = [k \in 1..(L - 1) |-> IF k = L - 1 THEN z ELSE p[k]]
  OBVIOUS
<1>20. /\ q \in Seq(Cell) /\ Len(q) = L - 1 /\ q[L - 1] = z
       /\ \A k \in 1..(L - 2) : q[k] = p[k] /\ k \in 1..(L - 1) /\ k \in 1..L
       /\ \A k \in 1..(L - 1) : k = L - 1 \/ k \in 1..(L - 2)
  <2>1. \A k \in 1..(L - 1) : k \in 1..L /\ (k = L - 1 \/ k \in 1..(L - 2))
    BY <1>6
  <2>2. \A k \in 1..(L - 2) : k \in 1..(L - 1) /\ k # L - 1
    BY <1>6
  <2>3. \A k \in 1..(L - 1) : q[k] = (IF k = L - 1 THEN z ELSE p[k]) /\ q[k] \in Cell
    BY <1>4, <1>8, <1>19, <2>1
  <2>4. q \in Seq(Cell) /\ Len(q) = L - 1
    <3>1. L - 1 \in Nat
      BY <1>6
    <3>2. q = [k \in 1..(L - 1) |-> q[k]]
      BY <1>19
    <3> QED
      BY ONLY <1>19, <2>3, <3>1, <3>2
  <2>5. L - 1 \in 1..(L - 1)
    BY <1>6
  <2> QED
    BY <2>1, <2>2, <2>3, <2>4, <2>5
<1>21. \A k \in 1..(L - 2) : /\ r.cell[q[k]].number = k - 1 /\ r.cell[q[k]].next = q[k + 1]
                             /\ r.cell[q[k]].previous = IF k = 1 THEN NULL ELSE q[k - 1]
                             /\ r.cell[q[k]].fsm = h.cell[p[k]].fsm
                             /\ r.cell[q[k]].ah = h.cell[p[k]].ah
                             /\ r.cell[q[k]].amedh = h.cell[p[k]].amedh
                             /\ q[k] = p[k] /\ k \in 1..(L - 1)
  <2> TAKE k \in 1..(L - 2)
  <2>1. /\ k \in 1..(L - 1) /\ k \in 1..L /\ q[k] = p[k] /\ p[k] # y /\ p[k] # z
        /\ (k # 1 => q[k - 1] = p[k - 1])
    <3>1. k \in 1..L /\ k # L - 1 /\ k # L /\ (k # 1 => k - 1 \in 1..(L - 2))
      BY <1>6
    <3> QED
      BY <1>4, <1>7, <1>8, <1>20, <3>1
  <2>2. CASE k = L - 2
    <3>1. k + 1 = L - 1
      BY <1>6, <2>2
    <3>2. x = p[k] /\ r.cell[q[k]] = e /\ q[k + 1] = z
      BY <1>7, <1>18, <1>20, <2>1, <2>2, <3>1
    <3>3. /\ h.cell[x].number = k - 1
          /\ h.cell[x].previous = IF k = 1 THEN NULL ELSE q[k - 1]
      BY <1>9, <2>1, <3>2
    <3> QED
      BY <1>16, <2>1, <3>2, <3>3
  <2>3. CASE k # L - 2
    <3>1. k + 1 \in 1..(L - 2)
      BY <1>6, <2>3
    <3>2. p[k] # x /\ q[k + 1] = p[k + 1] /\ p[k] \in Cell
      BY <1>4, <1>7, <1>8, <1>20, <2>1, <2>3, <3>1
    <3> QED
      BY <1>9, <1>18, <2>1, <3>2
  <2> QED
    BY <2>2, <2>3
<1>22. Chain(r.main, r.cell, q)
  <2>1. q # <<>> /\ q[1] = r.main
    <3>1. 1 \in 1..(L - 2) /\ L - 1 # 0
      BY <1>6
    <3>2. q # <<>>
      BY <1>20, <3>1
    <3> QED
      BY <1>4, <1>17, <1>20, <3>1, <3>2
  <2>2. \A j, k \in 1..(L - 1) : q[j] = q[k] => j = k
    <3>1. \A j \in 1..(L - 2) : j # L
      BY <1>6
    <3> QED
      BY <1>4, <1>7, <1>8, <1>20, <3>1
  <2>3. r.cell[q[L - 1]].number = -1 /\ r.cell[q[L - 1]].next = NULL
    BY <1>16, <1>18, <1>20
  <2>4. ASSUME NEW c \in Cell, \A k \in 1..(L - 1) : q[k] # c
        PROVE  r.cell[c] = Unused
    <3>1. c # z /\ \A k \in 1..(L - 2) : p[k] # c
      <4>1. L - 1 \in 1..(L - 1)
        BY <1>6
      <4> QED
        BY <1>20, <2>4, <4>1
    <3>2. CASE c = y
      BY <1>18, <3>2
    <3>3. CASE c # y
      <4>1. \A k \in 1..L : k = L \/ k = L - 1 \/ k \in 1..(L - 2)
        BY <1>6
      <4>2. c # x
        <5>1. L - 2 \in 1..(L - 2)
          BY <1>6
        <5> QED
          BY <1>7, <3>1, <5>1
      <4>3. \A k \in 1..L : p[k] # c
        BY <1>7, <3>1, <3>3, <4>1
      <4> QED
        BY <1>4, <1>18, <3>1, <3>3, <4>2, <4>3
    <3> QED
      BY <3>2, <3>3
  <2>5. Len(q) - 1 = L - 2
    BY <1>6, <1>20
  <2> QED
    BY <1>20, <1>21, <2>1, <2>2, <2>3, <2>4, <2>5 DEF Chain
<1>23. Front(s) = NetsOf(r.cell, q)
  <2>1. PICK t : t = Front(s)
    OBVIOUS
  <2>2. t \in Seq(Chunk \cup {NULL}) /\ Len(t) = L - 2 /\ \A k \in 1..(L - 2) : t[k] = s[k]
    BY <1>5, <1>6, <2>1 DEF Front
  <2>3. \A k \in 1..(L - 2) : t[k] = r.cell[q[k]].fsm
    BY <1>5, <1>21, <2>2
  <2>4. Len(q) - 1 = Len(t)
    BY <1>6, <1>20, <2>2
  <2>5. t = NetsOf(r.cell, q)
    BY ONLY <2>2, <2>3, <2>4, NetsIs
  <2> QED
    BY <2>1, <2>5
<1>24. ASSUME NEW N, Fits(h, N)
       PROVE  Fits(r, N)
  <2>1. Entries(r) = {q[k] : k \in 1..(L - 2)}
    <3>1. Entries(r) = {q[k] : k \in 1..(Len(q) - 1)}
      BY ONLY <1>22, EntriesIs
    <3>2. Len(q) - 1 = L - 2
      BY <1>6, <1>20
    <3> QED
      BY <3>1, <3>2
  <2>2. Entries(h) = {p[k] : k \in 1..(L - 1)}
    <3>1. Entries(h) = {p[k] : k \in 1..(Len(p) - 1)}
      BY ONLY <1>1, EntriesIs
    <3> QED
      BY <1>2, <3>1
  <2>3. CASE ~h.turned
    <3> SUFFICES ASSUME NEW c \in Entries(r)
                 PROVE  r.cell[c].fsm \in N \/ Fit(r.cell[c])
      BY DEF Fits
    <3>1. PICK k \in 1..(L - 2) : c = q[k]
      BY <2>1
    <3>2. p[k] \in Entries(h) /\ c = p[k]
      BY <1>21, <2>2, <3>1
    <3>3. h.cell[c].fsm \in N \/ Fit(h.cell[c])
      BY <1>24, <2>3, <3>2 DEF Fits
    <3> QED
      BY <1>21, <3>1, <3>2, <3>3 DEF Fit
  <2> QED
    BY <1>17, <2>3 DEF Fits
<1> QED
  BY <1>3, <1>17, <1>22, <1>23, <1>24 DEF Piled
\* stack_rotate exchanges the networks of the bottom and the top, not their handles.
LEMMA RotateIs ==
  ASSUME NEW h, NEW s, Piled(h, s), Len(s) > 0
  PROVE  LET r == stack_rotate(h)
         IN  /\ Piled(r, [s EXCEPT ![1] = s[Len(s)], ![Len(s)] = s[1]]) /\ Aside(r, h)
             /\ \A N : Fits(h, N) => Fits(r, N)
<1>1. PICK p : Chain(h.main, h.cell, p) /\ s = NetsOf(h.cell, p)
  BY DEF Piled
<1>2. PICK L : L = Len(p)
  OBVIOUS
<1>3. PICK r : r = stack_rotate(h)
  OBVIOUS
<1>4. /\ \A j \in 1..L : p[j] \in Cell
      /\ \A j, k \in 1..L : p[j] = p[k] => j = k
      /\ L \in Nat /\ p[1] = h.main
  BY <1>1, <1>2, ChainIs
<1>5. /\ Len(s) = L - 1 /\ s \in Seq(Chunk \cup {NULL}) /\ stack_size(h) = L - 1
      /\ \A k \in 1..(L - 1) : s[k] = h.cell[p[k]].fsm
  <2>1. stack_size(h) = Len(s) /\ stack_size(h) = L - 1 /\ s \in Seq(Chunk \cup {NULL})
    BY <1>1, <1>2, PiledIs, StackIs
  <2> QED
    BY <1>1, <1>2, <2>1 DEF NetsOf
<1>6. h \in HeapT /\ h.cell \in [Cell -> EntryT]
  BY DEF Piled, HeapT
<1>7. CASE L = 2
  <2>1. r = h
    BY <1>3, <1>5, <1>7 DEF stack_rotate
  <2>2. Len(s) = 1 /\ s \in Seq(Chunk \cup {NULL})
    BY <1>5, <1>7
  <2>3. [s EXCEPT ![1] = s[Len(s)], ![Len(s)] = s[1]] = s
    BY <2>2
  <2>4. Aside(h, h)
    BY DEF Aside
  <2> QED
    BY <1>3, <2>1, <2>3, <2>4
<1>8. CASE L # 2
  <2>1. L > 2 /\ 1 \in 1..(L - 1) /\ L - 1 \in 1..(L - 1) /\ 1 # L - 1 /\ 1 \in 1..L /\ L - 1 \in 1..L
    BY <1>4, <1>5, <1>8
  <2>2. PICK x, y : x = p[1] /\ y = p[L - 1]
    OBVIOUS
  <2>3. x \in Cell /\ y \in Cell /\ x # y
    BY <1>4, <2>1, <2>2
  <2>4. h.cell[y].fsm = s[L - 1] /\ h.cell[x].fsm = s[1]
    BY <1>5, <2>1, <2>2
  <2>5. r = [h EXCEPT !.cell[x].fsm = s[L - 1], !.cell[y].fsm = s[1], !.turned = TRUE]
    <3>1. Len(p) > 1 => stack_find_top(h) = p[Len(p) - 1]
      BY ONLY <1>1, StackIs
    <3>2. stack_find_top(h) = y /\ h.main = x
      BY <1>2, <1>4, <2>1, <2>2, <3>1
    <3>3. stack_size(h) # 1
      BY <1>5, <2>1
    <3> QED
      BY <1>3, <2>4, <3>2, <3>3 DEF stack_rotate
  <2>6. PICK e : e = [h.cell[x] EXCEPT !.fsm = s[L - 1]]
    OBVIOUS
  <2>7. PICK f : f = [h.cell[y] EXCEPT !.fsm = s[1]]
    OBVIOUS
  <2>8. /\ e \in EntryT /\ e.number = h.cell[x].number /\ e.fsm = s[L - 1]
        /\ e.previous = h.cell[x].previous /\ e.next = h.cell[x].next
        /\ f \in EntryT /\ f.number = h.cell[y].number /\ f.fsm = s[1]
        /\ f.previous = h.cell[y].previous /\ f.next = h.cell[y].next
    <3>1. h.cell[x] \in EntryT /\ h.cell[y] \in EntryT
      BY <1>6, <2>3
    <3>2. s[1] \in Chunk \cup {NULL} /\ s[L - 1] \in Chunk \cup {NULL}
      BY <1>5, <2>1
    <3> QED
      BY <2>6, <2>7, <3>1, <3>2 DEF EntryT
  <2>9. /\ r.cell = [h.cell EXCEPT ![x] = e, ![y] = f]
        /\ r.main = h.main /\ Aside(r, h) /\ r.turned /\ r \in HeapT
    <3>1. [h.cell EXCEPT ![x].fsm = s[L - 1], ![y].fsm = s[1]] = [h.cell EXCEPT ![x] = e, ![y] = f]
      BY <1>6, <2>3, <2>6, <2>7
    <3>2. PICK C : C = [h.cell EXCEPT ![x] = e, ![y] = f]
      OBVIOUS
    <3>3. C \in [Cell -> EntryT]
      BY <1>6, <2>3, <2>8, <3>2
    <3>4. r = [h EXCEPT !.cell = C, !.turned = TRUE]
      BY <1>6, <2>5, <3>1, <3>2 DEF HeapT
    <3> QED
      BY <1>6, <3>2, <3>3, <3>4 DEF HeapT, Aside
  <2>10. /\ r.cell[x] = e /\ r.cell[y] = f
         /\ \A c \in Cell : c # x /\ c # y => r.cell[c] = h.cell[c]
    BY <1>6, <2>3, <2>9
  <2>11. \A c \in Cell : /\ r.cell[c].number = h.cell[c].number
                         /\ r.cell[c].previous = h.cell[c].previous
                         /\ r.cell[c].next = h.cell[c].next
    BY <2>8, <2>10
  <2>12. \A k \in 1..L : k # 1 /\ k # L - 1 => r.cell[p[k]] = h.cell[p[k]]
    BY <1>4, <2>1, <2>2, <2>10
  <2>13. Chain(r.main, r.cell, p)
    <3>1. ASSUME NEW k \in 1..(L - 1)
          PROVE  /\ r.cell[p[k]].number = k - 1 /\ r.cell[p[k]].next = p[k + 1]
                 /\ r.cell[p[k]].previous = IF k = 1 THEN NULL ELSE p[k - 1]
      <4>1. p[k] \in Cell
        <5>1. k \in 1..L
          BY <1>4
        <5> QED
          BY <1>4, <5>1
      <4> QED
        BY <1>1, <1>2, <2>11, <4>1 DEF Chain
    <3>2. r.cell[p[L]].number = -1 /\ r.cell[p[L]].next = NULL
      <4>1. p[L] \in Cell
        BY <1>4, <2>1
      <4> QED
        BY <1>1, <1>2, <2>11, <4>1 DEF Chain
    <3>3. ASSUME NEW c \in Cell, \A k \in 1..L : p[k] # c
          PROVE  r.cell[c] = Unused
      <4>1. c # x /\ c # y
        BY <2>1, <2>2, <3>3
      <4> QED
        BY <1>1, <1>2, <2>10, <3>3, <4>1 DEF Chain
    <3> QED
      BY <1>1, <1>2, <2>9, <3>1, <3>2, <3>3 DEF Chain
  <2>14. [s EXCEPT ![1] = s[Len(s)], ![Len(s)] = s[1]] = NetsOf(r.cell, p)
    <3>1. PICK t : t = [s EXCEPT ![1] = s[L - 1], ![L - 1] = s[1]]
      OBVIOUS
    <3>2. /\ t \in Seq(Chunk \cup {NULL}) /\ Len(t) = L - 1 /\ t[1] = s[L - 1] /\ t[L - 1] = s[1]
          /\ \A k \in 1..(L - 1) : k # 1 /\ k # L - 1 => t[k] = s[k]
      BY <1>5, <2>1, <3>1
    <3>3. ASSUME NEW k \in 1..(L - 1)
          PROVE  t[k] = r.cell[p[k]].fsm
      <4>1. CASE k = 1
        BY <2>2, <2>8, <2>10, <3>2, <4>1
      <4>2. CASE k = L - 1
        BY <2>2, <2>8, <2>10, <3>2, <4>2
      <4>3. CASE k # 1 /\ k # L - 1
        <5>1. k \in 1..L
          BY <1>4
        <5> QED
          BY <1>5, <2>12, <3>2, <4>3, <5>1
      <4> QED
        BY <4>1, <4>2, <4>3
    <3>4. Len(p) - 1 = Len(t)
      BY <1>2, <3>2
    <3>5. t = NetsOf(r.cell, p)
      BY ONLY <3>2, <3>3, <3>4, NetsIs
    <3> QED
      BY <1>5, <3>1, <3>5
  <2>15. \A N : Fits(r, N)
    BY <2>9 DEF Fits
  <2> QED
    BY <1>3, <2>9, <2>13, <2>14, <2>15 DEF Piled
<1> QED
  BY <1>7, <1>8
-----------------------------------------------------------------------------
(***************************************************************************)
(* What the commands and the library do to the memory.                     *)
(***************************************************************************)

\* The networks of H are allocated; while no network with a matrix was copied, their
\* matrices are allocated too, no two of them have the same, and nothing is freed twice.
Memory(h, H) ==
  /\ H \in SUBSET Chunk /\ \A n \in H : h.net[n] # Free /\ h.net[n].says \in Content
  /\ h.last # NULL => h.last \in Chunk /\ h.net[h.last] = Free
  /\ ~h.shared =>
       /\ ~h.broken
       /\ \A n \in H : h.net[n].cm # NULL => h.net[n].cm \in h.live
       /\ \A m, n \in H : h.net[m].cm # NULL /\ h.net[m].cm = h.net[n].cm => m = n

\* The handles made for n are known to be outdated, all else stays.
LEMMA RewriteIs ==
  ASSUME NEW h \in HeapT, NEW n
  PROVE  LET r == Rewritten(h, n)
         IN  /\ r \in HeapT /\ r.main = h.main /\ r.turned = h.turned /\ Aside(r, h)
             /\ \A c \in Cell : Alike(r.cell[c], h.cell[c])
             /\ \A c \in Cell : h.cell[c] = Unused => r.cell[c] = Unused
             /\ \A c \in Cell : h.cell[c].fsm # n /\ Fit(h.cell[c]) => Fit(r.cell[c])
<1>1. PICK r : r = Rewritten(h, n)
  OBVIOUS
<1>2. PICK C : C = [c \in Cell |-> [h.cell[c] EXCEPT !.ah = Outdated(@, n), !.amedh = Outdated(@, n)]]
  BY Zenon
<1>3. \A x \in HandleT \cup {NULL} : Outdated(x, n) \in HandleT \cup {NULL}
  BY DEF Outdated, Garbage, HandleT
<1>4. \A c \in Cell : h.cell[c] \in EntryT
  BY DEF HeapT
<1>5. ASSUME NEW c \in Cell
      PROVE  /\ C[c] \in EntryT /\ Alike(C[c], h.cell[c])
             /\ C[c].ah = Outdated(h.cell[c].ah, n) /\ C[c].amedh = Outdated(h.cell[c].amedh, n)
             /\ (h.cell[c] = Unused => C[c] = Unused)
  <2>1. PICK e : e = h.cell[c]
    OBVIOUS
  <2>2. e \in EntryT /\ C[c] = [e EXCEPT !.ah = Outdated(@, n), !.amedh = Outdated(@, n)]
    BY <1>2, <1>4, <2>1, Zenon
  <2>3. C[c] \in EntryT
    BY <1>3, <2>2 DEF EntryT
  <2>4. /\ Alike(C[c], e)
        /\ C[c].ah = Outdated(e.ah, n) /\ C[c].amedh = Outdated(e.amedh, n)
    BY <2>2 DEF EntryT, Alike
  <2>5. Outdated(NULL, n) = NULL
    BY DEF Outdated
  <2>6. ASSUME e = Unused
        PROVE  C[c] = Unused
    <3>1. C[c] = [e EXCEPT !.ah = Outdated(e.ah, n), !.amedh = Outdated(e.amedh, n)]
      BY <2>2
    <3>2. e.ah = NULL /\ e.amedh = NULL
      BY <2>6 DEF Unused
    <3>3. C[c] = [Unused EXCEPT !.ah = NULL, !.amedh = NULL]
      BY <2>5, <2>6, <3>1, <3>2
    <3> QED
      BY <3>3 DEF Unused
  <2> QED
    BY <2>1, <2>3, <2>4, <2>6
<1>6. C \in [Cell -> EntryT]
  BY <1>2, <1>5, Zenon
<1>7. r = [h EXCEPT !.cell = C]
  BY <1>1, <1>2, Zenon DEF Rewritten
<1>8. r \in HeapT /\ r.main = h.main /\ r.turned = h.turned /\ Aside(r, h) /\ r.cell = C
  BY <1>6, <1>7 DEF HeapT, Aside
<1>9. ASSUME NEW c \in Cell, h.cell[c].fsm # n, Fit(h.cell[c])
      PROVE  Fit(C[c])
  <2>1. Outdated(h.cell[c].ah, n) = h.cell[c].ah /\ Outdated(h.cell[c].amedh, n) = h.cell[c].amedh
    BY <1>9 DEF Outdated, Fit
  <2> QED
    BY <1>5, <1>9, <2>1 DEF Fit, Alike
<1> QED
  BY <1>1, <1>5, <1>8, <1>9

\* The stack of a heap whose handles for n are outdated.
LEMMA RewriteStack ==
  ASSUME NEW h, NEW s, Piled(h, s), NEW n
  PROVE  LET r == Rewritten(h, n)
         IN  /\ Piled(r, s) /\ Aside(r, h) /\ r.turned = h.turned
             /\ \A N : Fits(h, N) => Fits(r, N \cup {n})
<1>1. PICK r : r = Rewritten(h, n)
  OBVIOUS
<1>2. h \in HeapT
  BY DEF Piled
<1>3. /\ r \in HeapT /\ r.main = h.main /\ r.turned = h.turned /\ Aside(r, h)
      /\ \A c \in Cell : Alike(r.cell[c], h.cell[c])
      /\ \A c \in Cell : h.cell[c] = Unused => r.cell[c] = Unused
      /\ \A c \in Cell : h.cell[c].fsm # n /\ Fit(h.cell[c]) => Fit(r.cell[c])
  BY <1>1, <1>2, RewriteIs
<1>4. Piled(r, s) /\ Entries(r) = Entries(h)
  BY <1>3, SameStack
<1>5. ASSUME NEW N, Fits(h, N)
      PROVE  Fits(r, N \cup {n})
  <2>1. \A c \in Cell : r.cell[c].fsm = h.cell[c].fsm
    BY <1>3 DEF Alike
  <2>2. Entries(h) \subseteq Cell
    BY DEF Entries
  <2> QED
    BY <1>3, <1>4, <1>5, <2>1, <2>2 DEF Fits
<1> QED
  BY <1>1, <1>3, <1>4, <1>5

\* fsm_destroy frees the network and its matrix.
LEMMA DestroyIs ==
  ASSUME NEW h \in HeapT, NEW n \in Chunk
  PROVE  LET r == fsm_destroy(h, n)
         IN  /\ r \in HeapT /\ r.net = [h.net EXCEPT ![n] = Free] /\ r.last = n
             /\ r.live = h.live \ {h.net[n].cm}
             /\ r.broken = (h.broken \/ h.net[n] = Free \/ (h.net[n].cm # NULL /\ h.net[n].cm \notin h.live))
             /\ r.main = h.main /\ r.defs = h.defs /\ r.turned = h.turned /\ r.shared = h.shared
             /\ r.cell = Rewritten(h, n).cell
<1>1. PICK r : r = fsm_destroy(h, n)
  OBVIOUS
<1>2. PICK w : w = Rewritten(h, n)
  OBVIOUS
<1>3. w \in HeapT /\ w.main = h.main /\ w.turned = h.turned /\ Aside(w, h)
  BY <1>2, RewriteIs
<1>4. n # NULL /\ h.net \in [Chunk -> NetT] /\ h.live \in SUBSET Matrix
  BY SessionAssumption DEF HeapT
<1>5. PICK m : m = h.net[n].cm
  OBVIOUS
<1>6. r = [w EXCEPT !.net[n] = Free, !.last = n, !.live = @ \ {m},
                    !.broken = @ \/ h.net[n] = Free \/ (m # NULL /\ m \notin h.live)]
  BY <1>1, <1>2, <1>4, <1>5 DEF fsm_destroy
<1>7. Free \in NetT
  BY DEF Free, NetT
<1>8. PICK b \in BOOLEAN : b = (h.broken \/ h.net[n] = Free \/ (m # NULL /\ m \notin h.live))
  OBVIOUS
<1>9. r = [w EXCEPT !.net = [h.net EXCEPT ![n] = Free], !.last = n, !.live = h.live \ {m}, !.broken = b]
  BY <1>3, <1>6, <1>8 DEF HeapT, Aside
<1>10. /\ r.net = [h.net EXCEPT ![n] = Free] /\ r.last = n /\ r.live = h.live \ {m} /\ r.broken = b
       /\ r.main = h.main /\ r.defs = h.defs /\ r.turned = h.turned /\ r.shared = h.shared
       /\ r.cell = w.cell /\ r \in HeapT
  <2>1. [h.net EXCEPT ![n] = Free] \in [Chunk -> NetT] /\ h.live \ {m} \in SUBSET Matrix
    BY <1>4, <1>7
  <2> QED
    BY <1>3, <1>4, <1>9, <2>1 DEF HeapT, Aside
<1> QED
  BY <1>1, <1>2, <1>5, <1>8, <1>10

\* After fsm_destroy the memory is right for the networks left.
LEMMA DestroyMemory ==
  ASSUME NEW h \in HeapT, NEW H, Memory(h, H), NEW n \in H
  PROVE  Memory(fsm_destroy(h, n), H \ {n})
<1>1. PICK r : r = fsm_destroy(h, n)
  OBVIOUS
<1>2. n \in Chunk /\ h.net \in [Chunk -> NetT]
  BY DEF Memory, HeapT
<1>3. /\ r.net = [h.net EXCEPT ![n] = Free] /\ r.last = n
      /\ r.live = h.live \ {h.net[n].cm} /\ r.shared = h.shared
      /\ r.broken = (h.broken \/ h.net[n] = Free \/ (h.net[n].cm # NULL /\ h.net[n].cm \notin h.live))
  BY <1>1, <1>2, DestroyIs
<1>4. r.net[n] = Free /\ \A k \in Chunk : k # n => r.net[k] = h.net[k]
  BY <1>2, <1>3
<1>5. /\ H \ {n} \in SUBSET Chunk
      /\ \A k \in H \ {n} : /\ r.net[k] = h.net[k] /\ k \in H
                             /\ r.net[k] # Free /\ r.net[k].says \in Content
  BY <1>4 DEF Memory
<1>6. ASSUME ~h.shared
      PROVE  /\ ~r.broken
             /\ \A k \in H \ {n} : r.net[k].cm # NULL => r.net[k].cm \in r.live
             /\ \A j, k \in H \ {n} : r.net[j].cm # NULL /\ r.net[j].cm = r.net[k].cm => j = k
  <2>1. /\ ~h.broken
        /\ \A k \in H : h.net[k].cm # NULL => h.net[k].cm \in h.live
        /\ \A j, k \in H : h.net[j].cm # NULL /\ h.net[j].cm = h.net[k].cm => j = k
        /\ h.net[n] # Free
    BY <1>6 DEF Memory
  <2>2. ~r.broken
    BY <1>3, <2>1
  <2> QED
    BY <1>3, <1>5, <2>1, <2>2
<1> QED
  BY <1>1, <1>2, <1>3, <1>4, <1>5, <1>6 DEF Memory

\* The stack of a heap from which a network is freed.
LEMMA DestroyStack ==
  ASSUME NEW h, NEW s, Piled(h, s), NEW n \in Chunk
  PROVE  LET r == fsm_destroy(h, n)
         IN  /\ Piled(r, s)
             /\ \A N : Fits(h, N) => Fits(r, N \cup {n})
<1>1. PICK r : r = fsm_destroy(h, n)
  OBVIOUS
<1>2. PICK w : w = Rewritten(h, n)
  OBVIOUS
<1>3. h \in HeapT
  BY DEF Piled
<1>4. r \in HeapT /\ r.main = h.main /\ r.turned = h.turned /\ r.cell = w.cell
  BY <1>1, <1>2, <1>3, DestroyIs
<1>5. Piled(w, s) /\ w.turned = h.turned /\ \A N : Fits(h, N) => Fits(w, N \cup {n})
  BY <1>2, RewriteStack
<1>6. w.main = h.main
  BY <1>2, <1>3, RewriteIs
<1>7. Piled(r, s)
  BY <1>4, <1>5, <1>6 DEF Piled
<1>8. Entries(r) = Entries(w)
  BY <1>4 DEF Entries
<1> QED
  BY <1>1, <1>4, <1>5, <1>7, <1>8 DEF Fits
\* f[k] is the heap after the first k networks of q were destroyed.
Frees(f, h, q, K) == f = [k \in 0..K |-> IF k = 0 THEN h ELSE fsm_destroy(f[k - 1], q[k])]

\* There is such a sequence of heaps.
LEMMA FreesExists ==
  ASSUME NEW h, NEW q, NEW K \in Nat
  PROVE  \E f : Frees(f, h, q, K)
<1> DEFINE M == {k \in Nat : ~ \E f : Frees(f, h, q, k)}
<1> SUFFICES ASSUME M # {}
             PROVE  FALSE
  OBVIOUS
<1>1. PICK k \in M : \A m \in M : k <= m
  <2>1. M \in SUBSET Nat
    OBVIOUS
  <2> HIDE DEF M
  <2> QED
    BY <2>1, LeastOf
<1>2. CASE k = 0
  <2>1. Frees([j \in 0..0 |-> h], h, q, 0)
    <3>1. \A j \in 0..0 : j = 0
      OBVIOUS
    <3> QED
      BY <3>1 DEF Frees
  <2> QED
    BY <1>1, <1>2, <2>1
<1>3. CASE k # 0
  <2>1. k - 1 \in Nat /\ ~(k <= k - 1) /\ k \in Nat
    BY <1>1, <1>3
  <2>2. PICK g : Frees(g, h, q, k - 1)
    BY <1>1, <2>1
  <2>3. PICK f : f = [j \in 0..k |-> IF j = k THEN fsm_destroy(g[k - 1], q[k]) ELSE g[j]]
    OBVIOUS
  <2>4. \A j \in 0..k : f[j] = IF j = 0 THEN h ELSE fsm_destroy(f[j - 1], q[j])
    <3> TAKE j \in 0..k
    <3>1. k \in 0..k /\ k - 1 \in 0..(k - 1) /\ k - 1 \in 0..k /\ k - 1 # k
      BY <1>3, <2>1
    <3>2. CASE j = k
      BY <1>3, <2>3, <3>1, <3>2
    <3>3. CASE j # k
      <4>1. j \in 0..(k - 1) /\ (j # 0 => j - 1 \in 0..k /\ j - 1 # k)
        BY <2>1, <3>3
      <4>2. g[j] = IF j = 0 THEN h ELSE fsm_destroy(g[j - 1], q[j])
        BY <2>2, <4>1 DEF Frees
      <4> QED
        BY <2>3, <3>3, <4>1, <4>2
    <3> QED
      BY <3>2, <3>3
  <2>5. Frees(f, h, q, k)
    <3>1. f = [j \in 0..k |-> f[j]]
      BY <2>3
    <3> QED
      BY <2>4, <3>1 DEF Frees
  <2> QED
    BY <1>1, <2>5
<1> QED
  BY <1>2, <1>3

\* The first k members of q.
First(q, k) == {q[j] : j \in 1..k}

\* The first K members of q are different networks of H, or nothing.
Freeable(q, K, H) ==
  /\ K \in Nat /\ \A j \in 1..K : q[j] = NULL \/ q[j] \in H
  /\ \A i, j \in 1..K : q[i] = q[j] => i = j

\* In r the first K networks of q are free, all else is as in h.
Freed(r, h, H, q, K) ==
  /\ r \in HeapT /\ Memory(r, H \ First(q, K))
  /\ r.defs = h.defs /\ r.shared = h.shared /\ \A t : Piled(h, t) => Piled(r, t)
  /\ \A n \in Chunk : n \notin First(q, K) => r.net[n] = h.net[n]

\* A list of networks that are held is freed once each, and nothing else is.
LEMMA FreesAll ==
  ASSUME NEW h \in HeapT, NEW H, Memory(h, H), NEW q, NEW K, Freeable(q, K, H),
         NEW f, Frees(f, h, q, K)
  PROVE  Freed(f[K], h, H, q, K)
<1> DEFINE Good(k) == LET r == f[k]
                      IN  /\ r \in HeapT /\ Memory(r, H \ First(q, k))
                          /\ r.defs = h.defs /\ r.shared = h.shared
                          /\ \A t : Piled(h, t) => Piled(r, t)
                          /\ \A n \in Chunk : (\A j \in 1..k : q[j] # n) => r.net[n] = h.net[n]
           M == {k \in 0..K : ~Good(k)}
<1>1. K \in Nat /\ \A k \in 0..K : f[k] = IF k = 0 THEN h ELSE fsm_destroy(f[k - 1], q[k])
  BY DEF Frees, Freeable
<1>2. M = {}
  <2> SUFFICES ASSUME M # {}
               PROVE  FALSE
    OBVIOUS
  <2>1. PICK k \in M : \A m \in M : k <= m
    <3>1. M \in SUBSET Nat
      OBVIOUS
    <3> HIDE DEF M
    <3> QED
      BY <3>1, LeastOf
  <2>2. k \in 0..K /\ ~Good(k)
    BY <2>1
  <2>3. CASE k = 0
    <3>1. First(q, 0) = {}
      BY DEF First
    <3>2. H \ {} = H
      OBVIOUS
    <3>3. f[0] = h
      BY <1>1
    <3>4. Good(0)
      BY <3>1, <3>2, <3>3
    <3> QED
      BY <2>2, <2>3, <3>4
  <2>4. CASE k # 0
    <3>1. k - 1 \in 0..K /\ ~(k <= k - 1) /\ k \in 1..K /\ \A j \in 1..k : j = k \/ j \in 1..(k - 1)
      BY <1>1, <2>2, <2>4
    <3>2. Good(k - 1)
      BY <2>1, <3>1
    <3>3. PICK g : g = f[k - 1]
      OBVIOUS
    <3>4. PICK n : n = q[k]
      OBVIOUS
    <3>5. PICK G : G = H \ First(q, k - 1)
      OBVIOUS
    <3>6. /\ g \in HeapT /\ Memory(g, G) /\ g.defs = h.defs /\ g.shared = h.shared
          /\ \A t : Piled(h, t) => Piled(g, t)
          /\ \A m \in Chunk : (\A j \in 1..(k - 1) : q[j] # m) => g.net[m] = h.net[m]
      BY <3>2, <3>3, <3>5
    <3>7. f[k] = fsm_destroy(g, n)
      BY <1>1, <2>4, <2>2, <3>3, <3>4
    <3>8. G \ {n} = H \ First(q, k)
      <4>1. \A j \in 1..(k - 1) : j \in 1..k
        BY <3>1
      <4>2. k \in 1..k
        BY <3>1
      <4> QED
        BY <3>1, <3>4, <3>5, <4>1, <4>2 DEF First
    <3>9. \A j \in 1..(k - 1) : j \in 1..k
      BY <3>1
    <3> HIDE DEF M
    <3>10. CASE n = NULL
      <4>1. f[k] = g
        BY <3>7, <3>10 DEF fsm_destroy
      <4>2. G \ {n} = G
        <5>1. NULL \notin G
          BY <3>5, <3>6, SessionAssumption DEF Memory
        <5> QED
          BY <3>10, <5>1
      <4>3. Memory(f[k], H \ First(q, k))
        BY <3>6, <3>8, <4>1, <4>2
      <4> QED
        BY <2>2, <3>6, <3>9, <4>1, <4>3
    <3>11. CASE n # NULL
      <4>1. n \in G /\ n \in Chunk
        <5>1. n \in H
          BY <3>1, <3>4, <3>11 DEF Freeable
        <5>2. \A j \in 1..(k - 1) : j \in 1..K /\ j # k
          BY <1>1, <3>1
        <5>3. \A j \in 1..(k - 1) : q[j] # n
          BY <3>1, <3>4, <5>2 DEF Freeable
        <5> QED
          BY <3>5, <5>1, <5>3 DEF Memory, First
      <4>2. Memory(f[k], H \ First(q, k))
        BY <3>6, <3>7, <3>8, <4>1, DestroyMemory
      <4>3. f[k] \in HeapT /\ f[k].net = [g.net EXCEPT ![n] = Free] /\ f[k].defs = g.defs /\ f[k].shared = g.shared
        BY <3>6, <3>7, <4>1, DestroyIs
      <4>4. g.net \in [Chunk -> NetT]
        BY <3>6 DEF HeapT
      <4>5. \A m \in Chunk : (\A j \in 1..k : q[j] # m) => f[k].net[m] = h.net[m]
        <5>1. k \in 1..k
          BY <3>1
        <5> QED
          BY <3>4, <3>6, <3>9, <4>3, <4>4, <5>1
      <4>6. \A t : Piled(h, t) => Piled(f[k], t)
        BY <3>6, <3>7, <4>1, DestroyStack
      <4> QED
        BY <2>2, <3>6, <4>2, <4>3, <4>5, <4>6
    <3> QED
      BY <3>10, <3>11
  <2> QED
    BY <2>3, <2>4
<1>3. Good(K)
  <2>1. K \in 0..K
    BY <1>1
  <2> HIDE DEF Good
  <2> QED
    BY <1>2, <2>1
<1> QED
  BY <1>3 DEF Freed, First
\* stack_clear frees the networks of the stack, bottom first, and leaves an empty list.
LEMMA ClearIs ==
  ASSUME NEW h, NEW s, Piled(h, s), NEW H, Memory(h, H),
         \A j \in 1..Len(s) : s[j] = NULL \/ s[j] \in H,
         \A i, j \in 1..Len(s) : s[i] = s[j] => i = j
  PROVE  LET r == stack_clear(h)
         IN  /\ Piled(r, <<>>) /\ Memory(r, H \ ToSet(s))
             /\ r.defs = h.defs /\ r.shared = h.shared
             /\ \A n \in Chunk : n \notin ToSet(s) => r.net[n] = h.net[n]
             /\ \A N : Fits(r, N)
<1>1. PICK p : Chain(h.main, h.cell, p) /\ s = NetsOf(h.cell, p)
  BY DEF Piled
<1>2. PICK K : K = Len(s)
  OBVIOUS
<1>3. PICK r : r = stack_clear(h)
  OBVIOUS
<1>4. /\ K \in Nat /\ Len(p) - 1 = K /\ s \in Seq(Chunk \cup {NULL}) /\ K \in 0..Len(s)
      /\ \A k \in 1..K : s[k] = h.cell[p[k]].fsm
  <2>1. stack_size(h) = Len(s) /\ stack_size(h) = Len(p) - 1 /\ s \in Seq(Chunk \cup {NULL})
    BY <1>1, PiledIs, StackIs
  <2>2. s = [k \in 1..(Len(p) - 1) |-> h.cell[p[k]].fsm]
    BY <1>1 DEF NetsOf
  <2>3. Len(s) \in Nat
    <3>1. s \in Seq(Chunk \cup {NULL})
      BY <2>1
    <3> QED
      BY ONLY <3>1
  <2> QED
    BY <1>2, <2>1, <2>2, <2>3
<1>5. PICK f : f = CHOOSE e : e = [k \in 0..(Len(p) - 1) |->
                              IF k = 0 THEN h ELSE fsm_destroy(e[k - 1], h.cell[p[k]].fsm)]
  OBVIOUS
<1>6. Frees(f, h, s, K)
  <2>1. \A g : (g = [k \in 0..(Len(p) - 1) |-> IF k = 0 THEN h ELSE fsm_destroy(g[k - 1], h.cell[p[k]].fsm)])
               <=> Frees(g, h, s, K)
    <3> TAKE g
    <3>1. \A k \in 0..K : k # 0 => k \in 1..K
      BY <1>4
    <3>2. \A k \in 0..K : (IF k = 0 THEN h ELSE fsm_destroy(g[k - 1], h.cell[p[k]].fsm))
                          = (IF k = 0 THEN h ELSE fsm_destroy(g[k - 1], s[k]))
      BY <1>4, <3>1
    <3> QED
      BY <1>4, <3>2 DEF Frees
  <2>2. PICK g : Frees(g, h, s, K)
    BY <1>4, FreesExists
  <2>3. f = [k \in 0..(Len(p) - 1) |-> IF k = 0 THEN h ELSE fsm_destroy(f[k - 1], h.cell[p[k]].fsm)]
    BY <1>5, <2>1, <2>2
  <2> QED
    BY <2>1, <2>3
<1>7. ToSet(s) = First(s, K) /\ ToSet(s) = {s[j] : j \in 1..K}
  BY <1>2, <1>4 DEF ToSet, First
<1>8. PICK g : g = f[K]
  OBVIOUS
<1>9. /\ g \in HeapT /\ Memory(g, H \ ToSet(s)) /\ g.defs = h.defs /\ g.shared = h.shared
      /\ \A n \in Chunk : n \notin ToSet(s) => g.net[n] = h.net[n]
  <2>1. h \in HeapT
    BY DEF Piled
  <2>2. Freeable(s, K, H)
    BY <1>2, <1>4 DEF Freeable
  <2>3. Freed(f[K], h, H, s, K)
    BY <1>6, <2>1, <2>2, FreesAll
  <2> QED
    BY <1>7, <1>8, <2>3 DEF Freed
<1>10. PICK e : e = [g EXCEPT !.cell = [c \in Cell |-> Unused], !.turned = FALSE]
  OBVIOUS
<1>11. r = stack_init(e)
  <2>1. Path(h) = p
    BY <1>1, PathIs
  <2>2. e = [f[Len(p) - 1] EXCEPT !.cell = [c \in Cell |-> Unused], !.turned = FALSE]
    BY <1>4, <1>8, <1>10
  <2> QED
    BY <1>3, <1>5, <2>1, <2>2 DEF stack_clear
<1>12. PICK d : d = NewCell(e)
  OBVIOUS
<1>13. Unused \in EntryT /\ Unused.number = -2
  BY DEF Unused, EntryT
<1>14. /\ e \in HeapT /\ e.cell = [c \in Cell |-> Unused] /\ e.net = g.net /\ e.last = g.last
       /\ e.defs = g.defs /\ e.live = g.live /\ e.broken = g.broken /\ e.shared = g.shared /\ ~e.turned
  BY <1>9, <1>10, <1>13 DEF HeapT
<1>15. d \in Cell
  <2>1. {c \in Cell : e.cell[c].number = -2} = Cell
    BY <1>13, <1>14
  <2>2. Cell # {}
    <3>1. MaxStack \in Nat /\ MaxStack < Cardinality(Cell)
      BY SessionAssumption
    <3>2. Cardinality({}) = 0
      BY FS_EmptySet
    <3> QED
      BY <3>1, <3>2
  <2> QED
    BY <1>12, <2>1, <2>2, LeastIs, SessionAssumption DEF NewCell
<1>16. PICK z : z = Sentinel(NULL)
  OBVIOUS
<1>17. z \in EntryT /\ z.number = -1 /\ z.next = NULL
  <2>1. z = [number |-> -1, fsm |-> NULL, ah |-> [net |-> NULL, cm |-> NULL],
             amedh |-> [net |-> NULL, cm |-> NULL], next |-> NULL, previous |-> NULL]
    BY <1>16 DEF Sentinel, Unused, Garbage
  <2>2. [net |-> NULL, cm |-> NULL] \in HandleT
    BY DEF HandleT
  <2> QED
    BY <2>1, <2>2 DEF EntryT
<1>18. r = [e EXCEPT !.main = d, !.cell[d] = z]
  BY <1>11, <1>12, <1>16 DEF stack_init
<1>19. /\ r \in HeapT /\ r.main = d /\ r.cell = [e.cell EXCEPT ![d] = z] /\ r.net = g.net
       /\ r.last = g.last /\ r.defs = g.defs /\ r.live = g.live /\ r.broken = g.broken /\ r.shared = g.shared
       /\ r.turned = e.turned
  <2>1. [e.cell EXCEPT ![d] = z] \in [Cell -> EntryT]
    BY <1>13, <1>14, <1>15, <1>17
  <2> QED
    BY <1>14, <1>15, <1>18, <2>1 DEF HeapT
<1>20. r.cell[d] = z /\ \A c \in Cell : c # d => r.cell[c] = Unused
  BY <1>14, <1>15, <1>19
<1>21. PICK q : q = <<d>>
  OBVIOUS
<1>22. q \in Seq(Cell) /\ Len(q) = 1 /\ q[1] = d /\ q # <<>>
  BY <1>15, <1>21
<1>23. Chain(r.main, r.cell, q)
  <2>1. \A k \in 1..1 : k = 1
    OBVIOUS
  <2>2. \A k \in 1..(1 - 1) : FALSE
    OBVIOUS
  <2> QED
    BY <1>17, <1>19, <1>20, <1>22, <2>1, <2>2 DEF Chain
<1>24. <<>> = NetsOf(r.cell, q)
  <2>1. PICK t : t = <<>>
    OBVIOUS
  <2>2. t \in Seq(Chunk \cup {NULL}) /\ Len(t) = 0 /\ Len(q) - 1 = 0
    BY <1>22, <2>1
  <2>3. \A k \in 1..0 : FALSE
    OBVIOUS
  <2>4. t = NetsOf(r.cell, q)
    BY ONLY <2>2, <2>3, NetsIs
  <2> QED
    BY <2>1, <2>4
<1>25. Memory(r, H \ ToSet(s))
  BY <1>9, <1>19 DEF Memory
<1>26. \A N : Fits(r, N)
  <2>1. Entries(r) = {q[k] : k \in 1..(Len(q) - 1)}
    BY ONLY <1>23, EntriesIs
  <2>2. \A k \in 1..(1 - 1) : FALSE
    OBVIOUS
  <2>3. Entries(r) = {}
    BY <1>22, <2>1, <2>2
  <2> QED
    BY <2>3 DEF Fits
<1>27. \A n \in Chunk : n \notin ToSet(s) => r.net[n] = h.net[n]
  BY <1>7, <1>9, <1>19
<1> QED
  BY <1>3, <1>9, <1>19, <1>23, <1>24, <1>25, <1>26, <1>27 DEF Piled
\* stack_pop, of a stack of one network too, which is then cleared.
LEMMA PopIs ==
  ASSUME NEW h, NEW s, Piled(h, s), NEW H, Memory(h, H), Len(s) > 0
  PROVE  LET r == stack_pop(h)
         IN  /\ Piled(r, Front(s)) /\ Memory(r, H)
             /\ r.net = h.net /\ r.defs = h.defs /\ r.shared = h.shared
             /\ \A N : Fits(h, N) => Fits(r, N)
<1>1. PICK r : r = stack_pop(h)
  OBVIOUS
<1>2. s \in Seq(Chunk \cup {NULL}) /\ stack_size(h) = Len(s) /\ h \in HeapT
  BY PiledIs DEF Piled
<1>3. CASE Len(s) > 1
  <2>1. Piled(r, Front(s)) /\ Aside(r, h) /\ \A N : Fits(h, N) => Fits(r, N)
    BY <1>1, <1>3, PopLong
  <2>2. Memory(r, H)
    BY <2>1 DEF Memory, Aside
  <2> QED
    BY <1>1, <2>1, <2>2 DEF Aside
<1>4. CASE ~(Len(s) > 1)
  <2>1. Len(s) = 1
    <3>1. Len(s) \in Nat
      BY <1>2
    <3> QED
      BY <1>4, <3>1
  <2>2. PICK p : Chain(h.main, h.cell, p) /\ s = NetsOf(h.cell, p)
    BY DEF Piled
  <2>3. Len(p) = 2 /\ p[1] = h.main /\ \A k \in 1..2 : p[k] \in Cell
    <3>1. stack_size(h) = Len(p) - 1 /\ Len(p) \in Nat /\ p[1] = h.main
          /\ \A k \in 1..Len(p) : p[k] \in Cell
      BY <2>2, SizeIs, ChainIs
    <3>2. PICK L : L = Len(p)
      OBVIOUS
    <3>3. L = 2
      BY <1>2, <2>1, <3>1, <3>2
    <3> QED
      BY <3>1, <3>2, <3>3
  <2>4. p[1] \in Cell /\ p[2] \in Cell /\ p[1] # p[2] /\ h.main = p[1]
    <3>1. 1 \in 1..Len(p) /\ 2 \in 1..Len(p) /\ 1 # 2
      BY <2>3
    <3>2. \A j, k \in 1..Len(p) : p[j] = p[k] => j = k
      BY <2>2 DEF Chain
    <3> QED
      BY <2>3, <3>1, <3>2
  <2>5. PICK g : g = [h EXCEPT !.cell[h.main].fsm = NULL]
    OBVIOUS
  <2>6. r = stack_clear(g)
    BY <1>1, <1>2, <2>1, <2>5 DEF stack_pop
  <2>7. PICK e : e = [h.cell[h.main] EXCEPT !.fsm = NULL]
    OBVIOUS
  <2>8. h.cell \in [Cell -> EntryT] /\ h.main \in Cell
    BY <1>2 DEF HeapT
  <2>9. /\ e \in EntryT /\ e.fsm = NULL /\ e.number = h.cell[p[1]].number
        /\ e.next = h.cell[p[1]].next /\ e.previous = h.cell[p[1]].previous
    <3>1. h.cell[h.main] \in EntryT
      BY <2>8
    <3> QED
      BY <2>4, <2>7, <3>1 DEF EntryT
  <2>10. /\ g \in HeapT /\ g.main = h.main /\ Aside(g, h) /\ g.turned = h.turned
         /\ g.cell = [h.cell EXCEPT ![h.main] = e]
    <3>1. PICK C : C = [h.cell EXCEPT ![h.main] = e]
      OBVIOUS
    <3>2. C \in [Cell -> EntryT]
      BY <2>8, <2>9, <3>1
    <3>3. g = [h EXCEPT !.cell = C]
      BY <1>2, <2>5, <2>7, <2>8, <3>1 DEF HeapT
    <3> QED
      BY <1>2, <3>1, <3>2, <3>3 DEF HeapT, Aside
  <2>11. g.cell[p[1]] = e /\ \A c \in Cell : c # p[1] => g.cell[c] = h.cell[c]
    BY <2>4, <2>8, <2>10
  <2>12. Chain(g.main, g.cell, p)
    <3>1. \A k \in 1..(Len(p) - 1) : k = 1
      BY <2>3
    <3>2. 1 \in 1..(Len(p) - 1) /\ 1 \in 1..Len(p)
      BY <2>3
    <3>3. g.cell[p[1]].number = 1 - 1 /\ g.cell[p[1]].next = p[1 + 1] /\ g.cell[p[1]].previous = NULL
      BY <2>2, <2>9, <2>11, <3>2 DEF Chain
    <3>4. g.cell[p[Len(p)]].number = -1 /\ g.cell[p[Len(p)]].next = NULL
      BY <2>2, <2>3, <2>4, <2>11 DEF Chain
    <3>5. \A c \in Cell : (\A k \in 1..Len(p) : p[k] # c) => g.cell[c] = Unused
      BY <2>2, <2>11, <3>2 DEF Chain
    <3> QED
      BY <2>2, <2>10, <3>1, <3>3, <3>4, <3>5 DEF Chain
  <2>13. PICK t : t = <<NULL>>
    OBVIOUS
  <2>14. t \in Seq(Chunk \cup {NULL}) /\ Len(t) = 1 /\ t[1] = NULL /\ \A k \in 1..Len(t) : k = 1
    BY <2>13
  <2>15. Piled(g, t)
    <3>1. Len(p) - 1 = Len(t) /\ \A k \in 1..Len(t) : t[k] = g.cell[p[k]].fsm
      BY <2>3, <2>9, <2>11, <2>14
    <3>2. t = NetsOf(g.cell, p)
      BY ONLY <2>14, <3>1, NetsIs
    <3> QED
      BY <2>10, <2>12, <3>2 DEF Piled
  <2>16. Memory(g, H)
    BY <2>10 DEF Memory, Aside
  <2>17. \A j \in 1..Len(t) : t[j] = NULL \/ t[j] \in H
    BY <2>14
  <2>18. \A i, j \in 1..Len(t) : t[i] = t[j] => i = j
    BY <2>14
  <2>19. ToSet(t) = {NULL}
    BY <2>14 DEF ToSet
  <2>20. /\ Piled(r, <<>>) /\ Memory(r, H \ ToSet(t))
         /\ r.defs = g.defs /\ r.shared = g.shared
         /\ \A n \in Chunk : n \notin ToSet(t) => r.net[n] = g.net[n]
         /\ \A N : Fits(r, N)
    BY <2>6, <2>15, <2>16, <2>17, <2>18, ClearIs
  <2>21. NULL \notin Chunk /\ NULL \notin H /\ H \ {NULL} = H
    BY SessionAssumption DEF Memory
  <2>22. Front(s) = <<>>
    BY <1>2, <2>1 DEF Front
  <2>23. r.net = h.net
    <3>1. r.net \in [Chunk -> NetT] /\ h.net \in [Chunk -> NetT]
      BY <1>2, <2>20 DEF Piled, HeapT
    <3>2. \A n \in Chunk : r.net[n] = h.net[n]
      BY <2>10, <2>19, <2>20, <2>21 DEF Aside
    <3> QED
      BY <3>1, <3>2
  <2>24. Memory(r, H)
    BY <2>19, <2>20, <2>21
  <2> QED
    BY <1>1, <2>10, <2>20, <2>22, <2>23, <2>24 DEF Aside
<1> QED
  BY <1>3, <1>4
-----------------------------------------------------------------------------
(***************************************************************************)
(* Who has which network: s are those on the stack, the definitions have   *)
(* theirs, X are those a command has taken off and not yet put back.       *)
(***************************************************************************)
Inj(s) == \A i, j \in 1..Len(s) : s[i] = s[j] => i = j
NetsIn(d) == {d[i].net : i \in 1..Len(d)}
Held(s, d, X) == ToSet(s) \cup NetsIn(d) \cup X

\* The networks and the names of the definitions are all different.
Distinct(d) ==
  \A i, j \in 1..Len(d) : d[i].net = d[j].net \/ d[i].name = d[j].name => i = j

Apart(s, d, X) ==
  /\ Inj(s) /\ Distinct(d)
  /\ ToSet(s) \cap NetsIn(d) = {} /\ ToSet(s) \cap X = {} /\ NetsIn(d) \cap X = {}

State(h, s, X, N) ==
  Piled(h, s) /\ Apart(s, h.defs, X) /\ Memory(h, Held(s, h.defs, X)) /\ Fits(h, N)

\* Sequences of different networks that grow, shrink and turn.
LEMMA PushSet ==
  ASSUME NEW Y, NEW s \in Seq(Y), Inj(s), NEW n \in Y, n \notin ToSet(s)
  PROVE  ToSet(Append(s, n)) = ToSet(s) \cup {n} /\ Inj(Append(s, n))
<1>1. PICK t, L : t = Append(s, n) /\ L = Len(s)
  OBVIOUS
<1>2. /\ L \in Nat /\ t \in Seq(Y) /\ Len(t) = L + 1 /\ t[L + 1] = n /\ DOMAIN t = 1..(L + 1)
      /\ DOMAIN s = 1..L /\ \A k \in 1..L : t[k] = s[k]
  BY <1>1
<1>3. \A k \in 1..(L + 1) : k = L + 1 \/ k \in 1..L
  BY <1>2
<1>4. \A k \in 1..L : k \in 1..(L + 1) /\ s[k] # n
  BY <1>2 DEF ToSet
<1>5. L + 1 \in 1..(L + 1)
  BY <1>2
<1>6. ToSet(t) = ToSet(s) \cup {n}
  BY <1>2, <1>3, <1>4, <1>5 DEF ToSet
<1>7. Inj(t)
  BY <1>1, <1>2, <1>3, <1>4 DEF Inj
<1> QED
  BY <1>1, <1>6, <1>7

\* A pile without its top holds the others, each once.
LEMMA PopSet ==
  ASSUME NEW Y, NEW s \in Seq(Y), Inj(s), Len(s) > 0
  PROVE  /\ s[Len(s)] \in ToSet(s) /\ ToSet(Front(s)) = ToSet(s) \ {s[Len(s)]} /\ Inj(Front(s))
         /\ Len(Front(s)) = Len(s) - 1 /\ Front(s) \in Seq(Y)
         /\ \A k \in 1..(Len(s) - 1) : Front(s)[k] = s[k]
<1>1. PICK t, L : t = Front(s) /\ L = Len(s)
  OBVIOUS
<1>2. /\ L \in Nat /\ L > 0 /\ t \in Seq(Y) /\ Len(t) = L - 1 /\ DOMAIN t = 1..(L - 1)
      /\ DOMAIN s = 1..L /\ \A k \in 1..(L - 1) : t[k] = s[k]
  BY <1>1 DEF Front
<1>3. \A k \in 1..L : k = L \/ k \in 1..(L - 1)
  BY <1>2
<1>4. \A k \in 1..(L - 1) : k \in 1..L /\ k # L
  BY <1>2
<1>5. L \in 1..L
  BY <1>2
<1>6. \A k \in 1..(L - 1) : s[k] # s[L]
  BY <1>1, <1>4, <1>5 DEF Inj
<1>7. ToSet(t) = ToSet(s) \ {s[L]} /\ s[L] \in ToSet(s)
  BY <1>2, <1>3, <1>4, <1>5, <1>6 DEF ToSet
<1>8. Inj(t)
  <2>1. \A i, j \in 1..L : s[i] = s[j] => i = j
    BY <1>1 DEF Inj
  <2>2. \A i, j \in 1..(L - 1) : t[i] = t[j] => i = j
    BY <1>2, <1>4, <2>1
  <2> QED
    BY <1>2, <2>2 DEF Inj
<1> QED
  BY <1>1, <1>2, <1>7, <1>8

\* A pile whose ends are swapped holds the same networks.
LEMMA TurnSet ==
  ASSUME NEW Y, NEW s \in Seq(Y), Inj(s), Len(s) > 0
  PROVE  LET t == [s EXCEPT ![1] = s[Len(s)], ![Len(s)] = s[1]]
         IN  ToSet(t) = ToSet(s) /\ Inj(t) /\ Len(t) = Len(s)
<1>1. PICK t, L : t = [s EXCEPT ![1] = s[Len(s)], ![Len(s)] = s[1]] /\ L = Len(s)
  OBVIOUS
<1>2. /\ L \in Nat /\ L > 0 /\ 1 \in 1..L /\ L \in 1..L /\ Len(t) = L /\ DOMAIN t = 1..L /\ DOMAIN s = 1..L
      /\ t[1] = s[L] /\ t[L] = s[1] /\ \A k \in 1..L : k # 1 /\ k # L => t[k] = s[k]
  BY <1>1
<1>3. ToSet(t) = ToSet(s)
  <2>1. \A k \in 1..L : \E j \in 1..L : t[k] = s[j]
    BY <1>2
  <2>2. \A k \in 1..L : \E j \in 1..L : s[k] = t[j]
    BY <1>2
  <2>3. \A x : x \in ToSet(t) <=> \E k \in 1..L : x = t[k]
    BY <1>2 DEF ToSet
  <2>4. \A x : x \in ToSet(s) <=> \E k \in 1..L : x = s[k]
    BY <1>2 DEF ToSet
  <2> QED
    BY ONLY <2>1, <2>2, <2>3, <2>4
<1>4. Inj(t)
  <2>1. PICK w : w = [k \in 1..L |-> IF k = 1 THEN L ELSE IF k = L THEN 1 ELSE k]
    OBVIOUS
  <2>2. \A k \in 1..L : w[k] \in 1..L /\ t[k] = s[w[k]]
    BY <1>2, <2>1
  <2>3. \A j, k \in 1..L : w[j] = w[k] => j = k
    BY <1>2, <2>1
  <2> QED
    BY <1>1, <1>2, <2>2, <2>3 DEF Inj
<1> QED
  BY <1>1, <1>2, <1>3, <1>4
-----------------------------------------------------------------------------
\* The command has the network n that was on top.
Popped(r, h, s, X, N, n) ==
  /\ State(r, Front(s), X \cup {n}, N)
  /\ r.net = h.net /\ r.defs = h.defs
  /\ n = s[Len(s)] /\ n \in ToSet(s) /\ n \in Chunk /\ n \notin ToSet(Front(s))
  /\ ToSet(Front(s)) \subseteq ToSet(s) /\ Len(Front(s)) = Len(s) - 1
  /\ \A k \in 1..(Len(s) - 1) : Front(s)[k] = s[k]

\* stack_pop takes the top off the pile and hands it to the command.
LEMMA PopRule ==
  ASSUME NEW h, NEW s, NEW X, NEW N, State(h, s, X, N), Len(s) > 0
  PROVE  Popped(stack_pop(h), h, s, X, N, TopNet(h))
<1>1. PICK r : r = stack_pop(h)
  OBVIOUS
<1>2. PICK n : n = s[Len(s)]
  OBVIOUS
<1>3. PICK d : d = h.defs
  OBVIOUS
<1>4. Piled(h, s) /\ Apart(s, d, X) /\ Memory(h, Held(s, d, X)) /\ Fits(h, N)
  BY <1>3 DEF State
<1>5. s \in Seq(Chunk \cup {NULL}) /\ TopNet(h) = n
  BY <1>2, <1>4, PiledIs
<1>6. Inj(s)
  BY <1>4 DEF Apart
<1>7. /\ n \in ToSet(s) /\ ToSet(Front(s)) = ToSet(s) \ {n} /\ Inj(Front(s))
      /\ Len(Front(s)) = Len(s) - 1 /\ \A k \in 1..(Len(s) - 1) : Front(s)[k] = s[k]
  BY <1>2, <1>5, <1>6, PopSet
<1>8. /\ Piled(r, Front(s)) /\ Memory(r, Held(s, d, X))
      /\ r.net = h.net /\ r.defs = d /\ Fits(r, N)
  BY <1>1, <1>3, <1>4, PopIs
<1>9. Held(Front(s), d, X \cup {n}) = Held(s, d, X)
  BY <1>7 DEF Held
<1>10. Apart(Front(s), d, X \cup {n})
  BY <1>4, <1>7 DEF Apart
<1>11. n \in Chunk
  BY <1>4, <1>7 DEF Memory, Held
<1> QED
  BY <1>1, <1>2, <1>3, <1>5, <1>7, <1>8, <1>9, <1>10, <1>11 DEF State, Popped

\* stack_add puts a network the command holds on the pile.
LEMMA AddRule ==
  ASSUME NEW h, NEW s, NEW X, NEW N, State(h, s, X, N), NEW n \in X,
         Len(s) + 1 < Cardinality(Cell)
  PROVE  LET r == stack_add(h, n)
         IN  /\ State(r, Append(s, n), X \ {n}, N)
             /\ r.net = h.net /\ r.defs = h.defs /\ r.last = h.last
<1>1. PICK r : r = stack_add(h, n)
  OBVIOUS
<1>2. PICK d : d = h.defs
  OBVIOUS
<1>3. Piled(h, s) /\ Apart(s, d, X) /\ Memory(h, Held(s, d, X)) /\ Fits(h, N)
  BY <1>2 DEF State
<1>4. s \in Seq(Chunk \cup {NULL}) /\ Inj(s)
  BY <1>3, PiledIs DEF Apart
<1>5. n \in Chunk /\ n \notin ToSet(s)
  BY <1>3 DEF Memory, Held, Apart
<1>6. ToSet(Append(s, n)) = ToSet(s) \cup {n} /\ Inj(Append(s, n))
  BY <1>4, <1>5, PushSet
<1>7. Piled(r, Append(s, n)) /\ Aside(r, h) /\ Fits(r, N)
  BY <1>1, <1>3, <1>5, AddIs
<1>8. Held(Append(s, n), d, X \ {n}) = Held(s, d, X)
  BY <1>6 DEF Held
<1>9. Memory(r, Held(s, d, X))
  BY <1>3, <1>7 DEF Memory, Aside
<1>10. Apart(Append(s, n), d, X \ {n})
  BY <1>3, <1>6 DEF Apart
<1> QED
  BY <1>1, <1>2, <1>7, <1>8, <1>9, <1>10 DEF State, Aside

\* stack_rotate swaps the ends of the pile and takes nothing.
LEMMA RotateRule ==
  ASSUME NEW h, NEW s, NEW X, NEW N, State(h, s, X, N), Len(s) > 0
  PROVE  LET r == stack_rotate(h)
         IN  /\ State(r, [s EXCEPT ![1] = s[Len(s)], ![Len(s)] = s[1]], X, N)
             /\ r.net = h.net /\ r.defs = h.defs
<1>1. PICK r : r = stack_rotate(h)
  OBVIOUS
<1>2. PICK d : d = h.defs
  OBVIOUS
<1>3. Piled(h, s) /\ Apart(s, d, X) /\ Memory(h, Held(s, d, X)) /\ Fits(h, N)
  BY <1>2 DEF State
<1>4. s \in Seq(Chunk \cup {NULL}) /\ Inj(s)
  BY <1>3, PiledIs DEF Apart
<1>5. PICK t : t = [s EXCEPT ![1] = s[Len(s)], ![Len(s)] = s[1]]
  OBVIOUS
<1>6. ToSet(t) = ToSet(s) /\ Inj(t)
  BY <1>4, <1>5, TurnSet
<1>7. Piled(r, t) /\ Aside(r, h) /\ Fits(r, N)
  BY <1>1, <1>3, <1>5, RotateIs
<1>8. Held(t, d, X) = Held(s, d, X)
  BY <1>6 DEF Held
<1>9. Memory(r, Held(s, d, X))
  BY <1>3, <1>7 DEF Memory, Aside
<1>10. Apart(t, d, X)
  BY <1>3, <1>6 DEF Apart
<1> QED
  BY <1>1, <1>2, <1>5, <1>7, <1>8, <1>9, <1>10 DEF State, Aside

\* stack_clear destroys what is on the pile, and nothing else.
LEMMA ClearRule ==
  ASSUME NEW h, NEW s, NEW X, NEW N, State(h, s, X, N)
  PROVE  LET r == stack_clear(h)
         IN  /\ State(r, <<>>, X, {}) /\ r.defs = h.defs
             /\ \A n \in NetsIn(h.defs) \cup X : r.net[n] = h.net[n]
<1>1. PICK r : r = stack_clear(h)
  OBVIOUS
<1>2. PICK d : d = h.defs
  OBVIOUS
<1>3. Piled(h, s) /\ Apart(s, d, X) /\ Memory(h, Held(s, d, X))
  BY <1>2 DEF State
<1>4. s \in Seq(Chunk \cup {NULL}) /\ Inj(s)
  BY <1>3, PiledIs DEF Apart
<1>5. \A j \in 1..Len(s) : s[j] \in Held(s, d, X)
  BY <1>4 DEF Held, ToSet
<1>6. /\ Piled(r, <<>>) /\ Memory(r, Held(s, d, X) \ ToSet(s)) /\ r.defs = d
      /\ \A n \in Chunk : n \notin ToSet(s) => r.net[n] = h.net[n]
      /\ \A N0 : Fits(r, N0)
  <2>1. \A j \in 1..Len(s) : s[j] = NULL \/ s[j] \in Held(s, d, X)
    BY <1>5
  <2>2. \A i, j \in 1..Len(s) : s[i] = s[j] => i = j
    BY <1>4 DEF Inj
  <2> QED
    BY <1>1, <1>2, <1>3, <2>1, <2>2, ClearIs
<1>7. PICK e : e = <<>>
  OBVIOUS
<1>8. ToSet(e) = {} /\ Inj(e)
  BY <1>7 DEF ToSet, Inj
<1>9. Held(e, d, X) = Held(s, d, X) \ ToSet(s)
  BY <1>3, <1>8 DEF Held, Apart
<1>10. Apart(e, d, X)
  BY <1>3, <1>8 DEF Apart
<1>11. \A n \in NetsIn(d) \cup X : n \in Chunk /\ n \notin ToSet(s)
  BY <1>3 DEF Apart, Memory, Held
<1> QED
  BY <1>1, <1>2, <1>6, <1>7, <1>9, <1>10, <1>11 DEF State

\* Which handles are outdated matters for the networks of the stack alone.
LEMMA FitsDrop ==
  ASSUME NEW h, NEW s, Piled(h, s), NEW N, NEW n, Fits(h, N \cup {n}), n \notin ToSet(s)
  PROVE  Fits(h, N)
<1>1. {h.cell[c].fsm : c \in Entries(h)} = ToSet(s)
  BY PiledIs
<1>2. \A c \in Entries(h) : h.cell[c].fsm # n
  BY <1>1
<1> QED
  BY <1>2 DEF Fits

\* The command has freed its network n.
Destroyed(r, h, s, X, N, n) ==
  /\ State(r, s, X \ {n}, N) /\ r.defs = h.defs /\ r.last = n /\ n \in Chunk
  /\ n \notin Held(s, h.defs, X \ {n})
  /\ \A m \in Chunk \ {n} : r.net[m] = h.net[m]

\* fsm_destroy of a network the command holds leaves all others right.
LEMMA DestroyRule ==
  ASSUME NEW h, NEW s, NEW X, NEW N, State(h, s, X, N), NEW n \in X
  PROVE  Destroyed(fsm_destroy(h, n), h, s, X, N, n)
<1>1. PICK r : r = fsm_destroy(h, n)
  OBVIOUS
<1>2. PICK d : d = h.defs
  OBVIOUS
<1>3. Piled(h, s) /\ Apart(s, d, X) /\ Memory(h, Held(s, d, X)) /\ Fits(h, N) /\ h \in HeapT
  BY <1>2 DEF State, Piled
<1>4. n \in Held(s, d, X) /\ n \in Chunk /\ n \notin ToSet(s) /\ n \notin NetsIn(d)
  BY <1>3 DEF Memory, Held, Apart
<1>5. Piled(r, s) /\ Fits(r, N)
  <2>1. Piled(r, s) /\ Fits(r, N \cup {n})
    BY <1>1, <1>3, <1>4, DestroyStack
  <2> QED
    BY <1>4, <2>1, FitsDrop
<1>6. Memory(r, Held(s, d, X) \ {n})
  BY <1>1, <1>3, <1>4, DestroyMemory
<1>7. r.net = [h.net EXCEPT ![n] = Free] /\ r.last = n /\ r.defs = d
  BY <1>1, <1>2, <1>3, <1>4, DestroyIs
<1>8. Held(s, d, X \ {n}) = Held(s, d, X) \ {n}
  BY <1>4 DEF Held
<1>9. Apart(s, d, X \ {n})
  BY <1>3 DEF Apart
<1>10. h.net \in [Chunk -> NetT]
  BY <1>3 DEF HeapT
<1>11. \A m \in Chunk \ {n} : r.net[m] = h.net[m]
  BY <1>7, <1>10
<1> QED
  BY <1>1, <1>2, <1>4, <1>5, <1>6, <1>7, <1>8, <1>9, <1>11 DEF State, Destroyed

\* New numbers in n make the handles on n stale, and those only.
LEMMA RewriteRule ==
  ASSUME NEW h, NEW s, NEW X, NEW N, State(h, s, X, N), NEW n
  PROVE  LET r == Rewritten(h, n)
         IN  /\ State(r, s, X, N \cup {n}) /\ (n \notin ToSet(s) => State(r, s, X, N))
             /\ r.net = h.net /\ r.defs = h.defs /\ r.last = h.last
<1>1. PICK r : r = Rewritten(h, n)
  OBVIOUS
<1>2. PICK d : d = h.defs
  OBVIOUS
<1>3. Piled(h, s) /\ Apart(s, d, X) /\ Memory(h, Held(s, d, X)) /\ Fits(h, N)
  BY <1>2 DEF State
<1>4. Piled(r, s) /\ Aside(r, h) /\ Fits(r, N \cup {n})
  BY <1>1, <1>3, RewriteStack
<1>5. n \notin ToSet(s) => Fits(r, N)
  BY <1>4, FitsDrop
<1>6. Memory(r, Held(s, d, X))
  BY <1>3, <1>4 DEF Memory, Aside
<1> QED
  BY <1>1, <1>2, <1>3, <1>4, <1>5, <1>6 DEF State, Aside
\* There is a chunk for one more network.
HasRoom(h) == h.last # NULL \/ \E n \in Chunk : h.net[n] = Free

\* malloc returns a chunk that nobody holds.
LEMMA MallocIs ==
  ASSUME NEW h \in HeapT, NEW H, Memory(h, H), HasRoom(h)
  PROVE  malloc(h) \in Chunk /\ h.net[malloc(h)] = Free /\ malloc(h) \notin H
<1>1. malloc(h) \in Chunk /\ h.net[malloc(h)] = Free
  <2>1. CASE h.last # NULL
    BY <2>1 DEF Memory, malloc
  <2>2. CASE h.last = NULL
    <3>1. PICK S : S = {n \in Chunk : h.net[n] = Free}
      OBVIOUS
    <3>2. S \in SUBSET Nat /\ S # {}
      BY <2>2, <3>1, SessionAssumption DEF HasRoom
    <3>3. Least(S) \in S
      BY <3>2, LeastIs
    <3> QED
      BY <2>2, <3>1, <3>3 DEF malloc
  <2> QED
    BY <2>1, <2>2
<1> QED
  BY <1>1 DEF Memory

\* The heap h with the network v at the chunk malloc returns.
Stored(h, v, b) == [h EXCEPT !.net[malloc(h)] = v, !.last = NULL, !.shared = b]

\* A command that had the networks X has the new one n too.
Gains(r, h, s, X, N, n) ==
  /\ State(r, s, X \cup {n}, N) /\ n \in Chunk /\ n \notin Held(s, h.defs, X)
  /\ \A m \in Chunk \ {n} : r.net[m] = h.net[m]
  /\ r.defs = h.defs /\ r.last = NULL /\ h.net[n] = Free

\* A network that may be stored in h, with b as the flag shared.
Storable(h, v, b) ==
  /\ v \in NetT /\ v # Free /\ v.says \in Content /\ b \in BOOLEAN
  /\ ~b => ~h.shared /\ v.cm = NULL

\* A network stored in the chunk malloc returns is held by the command.
LEMMA StoreRule ==
  ASSUME NEW h, NEW s, NEW X, NEW N, State(h, s, X, N), HasRoom(h),
         NEW v, NEW b, Storable(h, v, b)
  PROVE  Gains(Stored(h, v, b), h, s, X, N, malloc(h)) /\ Stored(h, v, b).net[malloc(h)] = v
<1>0. v \in NetT /\ v # Free /\ v.says \in Content /\ b \in BOOLEAN /\ (~b => ~h.shared /\ v.cm = NULL)
  BY DEF Storable
<1>1. PICK r : r = Stored(h, v, b)
  OBVIOUS
<1>2. PICK d : d = h.defs
  OBVIOUS
<1>3. PICK n : n = malloc(h)
  OBVIOUS
<1>4. PICK H : H = Held(s, d, X)
  OBVIOUS
<1>5. Piled(h, s) /\ Apart(s, d, X) /\ Memory(h, H) /\ Fits(h, N) /\ h \in HeapT
  BY <1>2, <1>4 DEF State, Piled
<1>6. n \in Chunk /\ n \notin H /\ h.net[n] = Free
  BY <1>3, <1>5, MallocIs
<1>7. h.net \in [Chunk -> NetT]
  BY <1>5 DEF HeapT
<1>8. r = [h EXCEPT !.net = [h.net EXCEPT ![n] = v], !.last = NULL, !.shared = b]
  BY <1>1, <1>3 DEF Stored
<1>9. /\ r \in HeapT /\ r.main = h.main /\ r.cell = h.cell /\ r.turned = h.turned
      /\ r.net = [h.net EXCEPT ![n] = v] /\ r.last = NULL /\ r.shared = b
      /\ r.defs = d /\ r.live = h.live /\ r.broken = h.broken
  <2>1. [h.net EXCEPT ![n] = v] \in [Chunk -> NetT]
    BY <1>0, <1>6, <1>7
  <2> QED
    BY <1>0, <1>2, <1>5, <1>8, <2>1 DEF HeapT
<1>10. r.net[n] = v /\ \A m \in Chunk \ {n} : r.net[m] = h.net[m]
  BY <1>6, <1>7, <1>9
<1>11. Piled(r, s)
  BY <1>5, <1>9 DEF Piled
<1>12. Fits(r, N)
  BY <1>5, <1>9 DEF Fits, Entries
<1>13. Held(s, d, X \cup {n}) = H \cup {n}
  BY <1>4 DEF Held
<1>14. Memory(r, H \cup {n})
  <2>1. H \in SUBSET Chunk /\ \A m \in H : r.net[m] = h.net[m] /\ h.net[m] # Free /\ h.net[m].says \in Content
    BY <1>5, <1>6, <1>10 DEF Memory
  <2>2. ASSUME ~b
        PROVE  /\ ~r.broken
               /\ \A m \in H \cup {n} : r.net[m].cm # NULL => r.net[m].cm \in r.live
               /\ \A k, m \in H \cup {n} : r.net[k].cm # NULL /\ r.net[k].cm = r.net[m].cm => k = m
    <3>1. /\ ~h.broken
          /\ \A m \in H : h.net[m].cm # NULL => h.net[m].cm \in h.live
          /\ \A k, m \in H : h.net[k].cm # NULL /\ h.net[k].cm = h.net[m].cm => k = m
      BY <1>0, <1>5, <2>2 DEF Memory
    <3> QED
      BY <1>0, <1>9, <1>10, <2>1, <2>2, <3>1
  <2> QED
    BY <1>0, <1>6, <1>9, <1>10, <2>1, <2>2 DEF Memory
<1>15. Apart(s, d, X \cup {n})
  BY <1>4, <1>5, <1>6 DEF Apart, Held
<1> QED
  BY <1>1, <1>2, <1>3, <1>4, <1>6, <1>9, <1>10, <1>11, <1>12, <1>13, <1>14, <1>15 DEF State, Gains

\* A network the library makes.
LEMMA MadeRule ==
  ASSUME NEW h, NEW s, NEW X, NEW N, State(h, s, X, N), HasRoom(h), NEW says \in Content
  PROVE  /\ Gains(Made(h, says, NULL), h, s, X, N, malloc(h))
         /\ Made(h, says, NULL).net[malloc(h)].says = says
<1>1. PICK v : v = [says |-> says, cm |-> NULL]
  OBVIOUS
<1>2. v \in NetT /\ v.cm = NULL /\ v.says = says
  BY <1>1 DEF NetT
<1>3. v # Free
  BY <1>2, SessionAssumption DEF Free
<1>4. h \in HeapT
  BY DEF State, Piled
<1>5. h.shared \in BOOLEAN
  BY <1>4 DEF HeapT
<1>6. Made(h, says, NULL) = Stored(h, v, h.shared)
  <2>1. [h EXCEPT !.net[malloc(h)] = v, !.last = NULL] = [h EXCEPT !.net[malloc(h)] = v, !.last = NULL, !.shared = h.shared]
    BY <1>4 DEF HeapT
  <2> QED
    BY <1>1, <2>1 DEF Made, Stored
<1>7. Storable(h, v, h.shared)
  BY <1>2, <1>3, <1>5 DEF Storable
<1>8. /\ Gains(Stored(h, v, h.shared), h, s, X, N, malloc(h))
      /\ Stored(h, v, h.shared).net[malloc(h)] = v
  BY <1>7, StoreRule
<1> QED
  BY <1>2, <1>6, <1>8

\* fsm_copy
LEMMA CopyRule ==
  ASSUME NEW h, NEW s, NEW X, NEW N, State(h, s, X, N), HasRoom(h), NEW k \in Held(s, h.defs, X)
  PROVE  /\ Gains(fsm_copy(h, k), h, s, X, N, malloc(h))
         /\ fsm_copy(h, k).net[malloc(h)].says = h.net[k].says
<1>1. PICK v : v = [says |-> h.net[k].says, cm |-> h.net[k].cm]
  OBVIOUS
<1>2. PICK b : b = (h.shared \/ h.net[k].cm # NULL)
  OBVIOUS
<1>3. h \in HeapT /\ Memory(h, Held(s, h.defs, X))
  BY DEF State, Piled
<1>4. h.shared \in BOOLEAN /\ h.net \in [Chunk -> NetT]
  BY <1>3 DEF HeapT
<1>5. h.net[k] \in NetT /\ h.net[k] # Free /\ h.net[k].says \in Content
  BY <1>3, <1>4 DEF Memory
<1>6. v = h.net[k]
  BY <1>1, <1>5 DEF NetT
<1>7. Storable(h, v, b)
  BY <1>2, <1>5, <1>6 DEF Storable
<1>8. fsm_copy(h, k) = Stored(h, v, b)
  <2>1. PICK g : g = Made(h, h.net[k].says, h.net[k].cm)
    OBVIOUS
  <2>2. g = [h EXCEPT !.net[malloc(h)] = v, !.last = NULL]
    BY <1>1, <2>1 DEF Made
  <2>3. g.shared = h.shared /\ [g EXCEPT !.shared = b] = [h EXCEPT !.net[malloc(h)] = v, !.last = NULL, !.shared = b]
    BY <1>3, <2>2 DEF HeapT
  <2>4. fsm_copy(h, k) = [g EXCEPT !.shared = b]
    BY <1>2, <2>1, <2>3 DEF fsm_copy
  <2> QED
    BY <2>3, <2>4 DEF Stored
<1>9. Gains(Stored(h, v, b), h, s, X, N, malloc(h)) /\ Stored(h, v, b).net[malloc(h)] = v
  BY <1>7, StoreRule
<1> QED
  BY <1>6, <1>8, <1>9

\* What a command does to a network it has taken off the stack.
Said(r, h, s, X, N, n, says) ==
  /\ State(r, s, X, N) /\ r.defs = h.defs /\ n \in Chunk
  /\ n \notin ToSet(s) /\ n \notin NetsIn(h.defs)
  /\ r.net[n].says = says /\ \A m \in Chunk \ {n} : r.net[m] = h.net[m]

\* A network the command holds may be given new lines in place.
LEMMA SayRule ==
  ASSUME NEW h, NEW s, NEW X, NEW N, State(h, s, X, N), NEW n \in X, NEW says \in Content
  PROVE  Said(Saying(h, n, says), h, s, X, N, n, says)
<1>1. PICK r : r = Saying(h, n, says)
  OBVIOUS
<1>2. PICK w : w = Rewritten(h, n)
  OBVIOUS
<1>3. PICK H : H = Held(s, h.defs, X)
  OBVIOUS
<1>4. Apart(s, h.defs, X) /\ Memory(h, H)
  BY <1>3 DEF State
<1>5. n \in H /\ n \in Chunk /\ n \notin ToSet(s) /\ n \notin NetsIn(h.defs) /\ h.net[n] # Free
  BY <1>3, <1>4 DEF Memory, Held, Apart
<1>6. State(w, s, X, N) /\ w.net = h.net /\ w.defs = h.defs
  BY <1>2, <1>5, RewriteRule
<1>7. w \in HeapT /\ Piled(w, s) /\ Memory(w, H) /\ Fits(w, N)
  BY <1>3, <1>6 DEF State, Piled
<1>8. PICK v : v = [w.net[n] EXCEPT !.says = says]
  OBVIOUS
<1>9. w.net \in [Chunk -> NetT]
  BY <1>7 DEF HeapT
<1>10. v \in NetT /\ v.says = says /\ v.cm = w.net[n].cm /\ v # Free
  <2>1. w.net[n] \in NetT
    BY <1>5, <1>9
  <2>2. v \in NetT /\ v.says = says /\ v.cm = w.net[n].cm
    BY <1>8, <2>1 DEF NetT
  <2> QED
    BY <2>2, SessionAssumption DEF Free
<1>11. r = [w EXCEPT !.net = [w.net EXCEPT ![n] = v]]
  BY <1>1, <1>2, <1>5, <1>7, <1>8, <1>9 DEF Saying, HeapT
<1>12. /\ r \in HeapT /\ r.main = w.main /\ r.cell = w.cell /\ r.turned = w.turned
       /\ r.net = [w.net EXCEPT ![n] = v] /\ r.last = w.last /\ r.shared = w.shared
       /\ r.defs = w.defs /\ r.live = w.live /\ r.broken = w.broken
  <2>1. [w.net EXCEPT ![n] = v] \in [Chunk -> NetT]
    BY <1>5, <1>9, <1>10
  <2> QED
    BY <1>7, <1>11, <2>1 DEF HeapT
<1>13. /\ r.net[n] = v /\ \A m \in Chunk \ {n} : r.net[m] = w.net[m]
       /\ \A m \in Chunk : r.net[m].cm = w.net[m].cm
  BY <1>5, <1>9, <1>10, <1>12
<1>14. Piled(r, s) /\ Fits(r, N)
  BY <1>7, <1>12 DEF Piled, Fits, Entries
<1>15. Memory(r, H)
  <2>1. H \in SUBSET Chunk /\ \A m \in H : /\ r.net[m] # Free /\ r.net[m].cm = w.net[m].cm
                                           /\ r.net[m].says \in Content
    BY <1>7, <1>10, <1>13 DEF Memory
  <2>2. w.last # NULL => w.last \in Chunk /\ r.net[w.last] = Free
    BY <1>5, <1>6, <1>7, <1>13 DEF Memory
  <2> QED
    BY <1>7, <1>12, <2>1, <2>2 DEF Memory
<1> QED
  BY <1>1, <1>3, <1>4, <1>5, <1>6, <1>10, <1>12, <1>13, <1>14, <1>15 DEF State, Said
\* What a command leaves when it is done: nothing is held but by the lists.
LEMMA SettleRule ==
  ASSUME NEW h, NEW s, NEW X, NEW N, State(h, s, X, N)
  PROVE  LET r == Settled(h)
         IN  /\ State(r, s, {}, N) /\ r.last = NULL /\ r.defs = h.defs
             /\ \A n \in ToSet(s) \cup NetsIn(h.defs) : r.net[n] = h.net[n]
<1>1. PICK r : r = Settled(h)
  OBVIOUS
<1>2. PICK d : d = h.defs
  OBVIOUS
<1>3. PICK O : O = ToSet(s) \cup NetsIn(d)
  OBVIOUS
<1>4. Piled(h, s) /\ Apart(s, d, X) /\ Memory(h, Held(s, d, X)) /\ Fits(h, N) /\ h \in HeapT
  BY <1>2 DEF State, Piled
<1>5. Owned(h) = O
  <2>1. {h.cell[c].fsm : c \in Entries(h)} = ToSet(s)
    BY <1>4, PiledIs
  <2>2. d \in Seq(DefT)
    BY <1>2, <1>4 DEF HeapT
  <2>3. \A x : x \in {e.net : e \in Range(d)} <=> x \in NetsIn(d)
    BY <2>2 DEF Range, NetsIn
  <2> QED
    BY <1>2, <1>3, <2>1, <2>3 DEF Owned
<1>6. O \subseteq Held(s, d, X) /\ O = Held(s, d, {}) /\ O \in SUBSET Chunk
  BY <1>3, <1>4 DEF Held, Memory
<1>7. PICK M : M = [n \in Chunk |-> IF h.net[n] = Free \/ n \in O THEN h.net[n] ELSE Lost]
  OBVIOUS
<1>8. PICK b \in BOOLEAN : b = (h.shared /\ (h.broken \/ \E n \in O : h.net[n].cm # NULL))
  OBVIOUS
<1>9. M \in [Chunk -> NetT] /\ \A n \in O : M[n] = h.net[n]
  <2>1. h.net \in [Chunk -> NetT]
    BY <1>4 DEF HeapT
  <2>2. Lost \in NetT
    BY DEF Lost, NetT
  <2> QED
    BY <1>6, <1>7, <2>1, <2>2
<1>10. r = [h EXCEPT !.last = NULL, !.net = M, !.shared = b]
  BY <1>1, <1>4, <1>5, <1>7, <1>8 DEF Settled, HeapT
<1>11. /\ r \in HeapT /\ r.main = h.main /\ r.cell = h.cell /\ r.turned = h.turned
       /\ r.net = M /\ r.last = NULL /\ r.shared = b
       /\ r.defs = d /\ r.live = h.live /\ r.broken = h.broken
  BY <1>2, <1>4, <1>9, <1>10 DEF HeapT
<1>12. Piled(r, s) /\ Fits(r, N)
  BY <1>4, <1>11 DEF Piled, Fits, Entries
<1>13. Memory(r, O)
  <2>1. \A n \in O : r.net[n] = h.net[n] /\ r.net[n] # Free /\ r.net[n].says \in Content
    BY <1>4, <1>6, <1>9, <1>11 DEF Memory
  <2>2. ASSUME ~b
        PROVE  /\ ~r.broken
               /\ \A n \in O : r.net[n].cm # NULL => r.net[n].cm \in r.live
               /\ \A m, n \in O : r.net[m].cm # NULL /\ r.net[m].cm = r.net[n].cm => m = n
    <3>1. CASE h.shared
      BY <1>8, <1>11, <2>1, <2>2, <3>1
    <3>2. CASE ~h.shared
      <4>1. /\ ~h.broken
            /\ \A n \in O : h.net[n].cm # NULL => h.net[n].cm \in h.live
            /\ \A m, n \in O : h.net[m].cm # NULL /\ h.net[m].cm = h.net[n].cm => m = n
        BY <1>4, <1>6, <3>2 DEF Memory
      <4> QED
        BY <1>11, <2>1, <4>1
    <3> QED
      BY <3>1, <3>2
  <2> QED
    BY <1>6, <1>11, <2>1, <2>2 DEF Memory
<1>14. Apart(s, d, {})
  BY <1>4 DEF Apart
<1> QED
  BY <1>1, <1>2, <1>3, <1>6, <1>9, <1>11, <1>12, <1>13, <1>14 DEF State

\* An entry of the stack that gets the handles a and m.
Handled(h, c, a, m) == [h EXCEPT !.cell[c].ah = a, !.cell[c].amedh = m]

\* A handle that is kept was kept before or is made for the network of its entry.
LEMMA HandleRule ==
  ASSUME NEW h, NEW s, NEW X, NEW N, State(h, s, X, N), NEW c \in Entries(h),
         NEW a \in HandleT \cup {NULL}, NEW m \in HandleT \cup {NULL},
         a = h.cell[c].ah \/ a.net = h.cell[c].fsm, m = h.cell[c].amedh \/ m.net = h.cell[c].fsm
  PROVE  LET r == Handled(h, c, a, m)
         IN  State(r, s, X, N) /\ r.net = h.net /\ r.defs = h.defs
<1>1. PICK r : r = Handled(h, c, a, m)
  OBVIOUS
<1>2. Piled(h, s) /\ Fits(h, N) /\ h \in HeapT /\ h.cell \in [Cell -> EntryT] /\ c \in Cell
  BY DEF State, Piled, HeapT, Entries
<1>3. PICK e : e = [h.cell[c] EXCEPT !.ah = a, !.amedh = m]
  OBVIOUS
<1>4. /\ e \in EntryT /\ Alike(e, h.cell[c]) /\ e.ah = a /\ e.amedh = m
      /\ (Fit(h.cell[c]) => Fit(e))
  <2>1. h.cell[c] \in EntryT
    BY <1>2
  <2>2. e \in EntryT /\ Alike(e, h.cell[c]) /\ e.ah = a /\ e.amedh = m
    BY <1>3, <2>1 DEF EntryT, Alike
  <2>3. Fit(h.cell[c]) => Fit(e)
    BY <2>2 DEF Fit, Alike
  <2> QED
    BY <2>2, <2>3
<1>5. PICK C : C = [h.cell EXCEPT ![c] = e]
  OBVIOUS
<1>6. C \in [Cell -> EntryT] /\ C[c] = e /\ \A x \in Cell : x # c => C[x] = h.cell[x]
  BY <1>2, <1>4, <1>5
<1>7. r = [h EXCEPT !.cell = C]
  <2>1. [h.cell EXCEPT ![c].ah = a, ![c].amedh = m] = C
    BY <1>2, <1>3, <1>5
  <2> QED
    BY <1>1, <1>2, <2>1 DEF Handled, HeapT
<1>8. r \in HeapT /\ r.main = h.main /\ Aside(r, h) /\ r.turned = h.turned /\ r.cell = C
  BY <1>2, <1>6, <1>7 DEF HeapT, Aside
<1>9. ~(h.cell[c] = Unused)
  <2>1. ~(-2 >= 0)
    OBVIOUS
  <2> QED
    BY <2>1 DEF Entries, Unused
<1>10. Piled(r, s) /\ Entries(r) = Entries(h)
  <2>1. \A x \in Cell : Alike(r.cell[x], h.cell[x])
    BY <1>4, <1>6, <1>8 DEF Alike
  <2>2. \A x \in Cell : h.cell[x] = Unused => r.cell[x] = Unused
    BY <1>6, <1>8, <1>9
  <2> QED
    BY <1>2, <1>8, <2>1, <2>2, SameStack
<1>11. Fits(r, N)
  <2>1. Entries(h) \subseteq Cell
    BY DEF Entries
  <2>2. ASSUME NEW x \in Entries(h), h.cell[x].fsm \in N \/ Fit(h.cell[x])
        PROVE  r.cell[x].fsm \in N \/ Fit(r.cell[x])
    BY <1>4, <1>6, <1>8, <2>1, <2>2 DEF Alike
  <2> QED
    BY <1>2, <1>8, <1>10, <2>2 DEF Fits
<1>12. Memory(r, Held(s, r.defs, X)) /\ Apart(s, r.defs, X)
  BY <1>8 DEF State, Memory, Aside
<1> QED
  BY <1>1, <1>8, <1>10, <1>11, <1>12 DEF State, Aside

\* A matrix that was not allocated is read for a network of the stack.
MatrixRead(h, n, m) == [h EXCEPT !.net[n].cm = m, !.live = @ \cup {m}]
Matrices(h) == h.live \cup {h.net[k].cm : k \in Chunk}

\* No network says anything else than it said.
Kept(r, h, s, X, N) ==
  /\ State(r, s, X, N) /\ r.defs = h.defs
  /\ \A k \in Chunk : r.net[k].says = h.net[k].says

\* A confusion matrix read into a network of the pile is its own.
LEMMA MatrixRule ==
  ASSUME NEW h, NEW s, NEW X, NEW N, State(h, s, X, N), NEW n \in ToSet(s),
         NEW m \in Matrix \ Matrices(h)
  PROVE  Kept(MatrixRead(h, n, m), h, s, X, N)
<1>0. m \in Matrix /\ \A k \in Chunk : h.net[k].cm # m
  BY DEF Matrices
<1>1. PICK r : r = [h EXCEPT !.net[n].cm = m, !.live = @ \cup {m}]
  OBVIOUS
<1>2. PICK H : H = Held(s, h.defs, X)
  OBVIOUS
<1>3. Piled(h, s) /\ Fits(h, N) /\ h \in HeapT /\ Memory(h, H) /\ Apart(s, h.defs, X)
  BY <1>2 DEF State, Piled
<1>4. h.net \in [Chunk -> NetT] /\ h.live \in SUBSET Matrix
  BY <1>3 DEF HeapT
<1>5. n \in H /\ n \in Chunk /\ h.net[n] # Free /\ h.net[n] \in NetT /\ h.net[n].says \in Content
  BY <1>2, <1>3, <1>4 DEF Memory, Held
<1>6. PICK v : v = [h.net[n] EXCEPT !.cm = m]
  OBVIOUS
<1>7. v \in NetT /\ v.says = h.net[n].says /\ v.cm = m
  BY <1>5, <1>6 DEF NetT
<1>8. v # Free
  <2>1. m # NULL
    BY <1>0, SessionAssumption
  <2> QED
    BY <1>7, <2>1 DEF Free
<1>9. r = [h EXCEPT !.net = [h.net EXCEPT ![n] = v], !.live = h.live \cup {m}]
  BY <1>1, <1>3, <1>4, <1>5, <1>6 DEF HeapT
<1>10. /\ r \in HeapT /\ r.main = h.main /\ r.cell = h.cell /\ r.turned = h.turned
       /\ r.net = [h.net EXCEPT ![n] = v] /\ r.last = h.last /\ r.shared = h.shared
       /\ r.defs = h.defs /\ r.live = h.live \cup {m} /\ r.broken = h.broken
  <2>1. [h.net EXCEPT ![n] = v] \in [Chunk -> NetT] /\ h.live \cup {m} \in SUBSET Matrix
    BY <1>4, <1>5, <1>7, <1>0
  <2> QED
    BY <1>3, <1>9, <2>1 DEF HeapT
<1>11. r.net[n] = v /\ \A k \in Chunk \ {n} : r.net[k] = h.net[k] /\ h.net[k].cm # m
  BY <1>4, <1>5, <1>10, <1>0
<1>12. Piled(r, s) /\ Fits(r, N)
  BY <1>3, <1>10 DEF Piled, Fits, Entries
<1>13. Memory(r, H)
  <2>1. H \in SUBSET Chunk /\ \A k \in H : r.net[k] # Free /\ r.net[k].says \in Content
    BY <1>3, <1>5, <1>7, <1>8, <1>11 DEF Memory
  <2>2. r.last # NULL => r.last \in Chunk /\ r.net[r.last] = Free
    BY <1>3, <1>5, <1>10, <1>11 DEF Memory
  <2>3. ASSUME ~h.shared
        PROVE  /\ ~r.broken
               /\ \A k \in H : r.net[k].cm # NULL => r.net[k].cm \in r.live
               /\ \A j, k \in H : r.net[j].cm # NULL /\ r.net[j].cm = r.net[k].cm => j = k
    <3>1. /\ ~h.broken
          /\ \A k \in H : h.net[k].cm # NULL => h.net[k].cm \in h.live
          /\ \A j, k \in H : h.net[j].cm # NULL /\ h.net[j].cm = h.net[k].cm => j = k
      BY <1>3, <2>3 DEF Memory
    <3> QED
      BY <1>7, <1>10, <1>11, <2>1, <3>1
  <2> QED
    BY <1>10, <2>1, <2>2, <2>3 DEF Memory
<1>14. \A k \in Chunk : r.net[k].says = h.net[k].says
  BY <1>7, <1>11
<1> QED
  BY <1>1, <1>2, <1>3, <1>10, <1>12, <1>13, <1>14 DEF State, Kept, MatrixRead
-----------------------------------------------------------------------------
(***************************************************************************)
(* The list of definitions.                                                *)
(***************************************************************************)
LEMMA NetsOfSet ==
  ASSUME NEW d \in Seq(DefT)
  PROVE  \A n : n \in NetsIn(d) <=> \E x \in ToSet(d) : x.net = n
BY DEF NetsIn, ToSet

\* No member of d has the name or the network of x.
New(d, x) == \A i \in 1..Len(d) : d[i].name # x.name /\ d[i].net # x.net

\* Where the members of two sequences are in their concatenation.
LEMMA Joined ==
  ASSUME NEW Y, NEW a \in Seq(Y), NEW b \in Seq(Y), NEW m, NEW n, m = Len(a), n = Len(b)
  PROVE  /\ a \o b \in Seq(Y) /\ Len(a \o b) = m + n
         /\ \A k \in 1..m : (a \o b)[k] = a[k]
         /\ \A k \in 1..n : (a \o b)[m + k] = b[k]
OBVIOUS

\* A definition put second, or first of all, is added to the list.
LEMMA InsertDef ==
  ASSUME NEW d \in Seq(DefT), Distinct(d), NEW x \in DefT, New(d, x)
  PROVE  LET e == IF d = <<>> THEN <<x>> ELSE InsertAt(d, 2, x)
         IN  e \in Seq(DefT) /\ Distinct(e) /\ ToSet(e) = ToSet(d) \cup {x}
<1>1. PICK e, L : e = (IF d = <<>> THEN <<x>> ELSE InsertAt(d, 2, x)) /\ L = Len(d)
  OBVIOUS
<1>2. L \in Nat /\ DOMAIN d = 1..L
  BY <1>1
<1>3. PICK w : w = [k \in 1..(L + 1) |-> IF k = 1 THEN 1 ELSE k - 1]
  OBVIOUS
<1>4. PICK j : j = IF L = 0 THEN 1 ELSE 2
  OBVIOUS
<1>5. /\ e \in Seq(DefT) /\ Len(e) = L + 1 /\ DOMAIN e = 1..(L + 1) /\ j \in 1..(L + 1) /\ e[j] = x
      /\ \A k \in 1..(L + 1) : k # j => w[k] \in 1..L /\ e[k] = d[w[k]]
  <2>1. CASE d = <<>>
    <3>1. L = 0 /\ e = <<x>> /\ j = 1
      BY <1>1, <1>4, <2>1
    <3> QED
      BY <3>1
  <2>2. CASE d # <<>>
    <3>1. L > 0 /\ j = 2 /\ e = InsertAt(d, 2, x)
      BY <1>1, <1>2, <1>4, <2>2
    <3>2. PICK a, b : a = SubSeq(d, 1, 1) /\ b = SubSeq(d, 2, L)
      OBVIOUS
    <3>3. e = a \o <<x>> \o b
      <4>1. 2 - 1 = 1
        OBVIOUS
      <4> QED
        BY <1>1, <3>1, <3>2, <4>1 DEF InsertAt
    <3>4. a \in Seq(DefT) /\ Len(a) = 1 /\ a[1] = d[1]
      BY <1>1, <3>1, <3>2
    <3>5. b \in Seq(DefT) /\ Len(b) = L - 1 /\ \A k \in 1..(L - 1) : b[k] = d[k + 1]
      BY <1>1, <3>1, <3>2
    <3>6. /\ e \in Seq(DefT) /\ Len(e) = L + 1 /\ e[1] = d[1] /\ e[2] = x
          /\ \A k \in 1..(L - 1) : e[2 + k] = b[k]
      <4>1. PICK c : c = a \o <<x>>
        OBVIOUS
      <4>2. c \in Seq(DefT) /\ Len(c) = 2 /\ c[1] = d[1] /\ c[2] = x
        <5>1. PICK f : f = <<x>>
          OBVIOUS
        <5>2. f \in Seq(DefT) /\ Len(f) = 1 /\ f[1] = x
          BY <5>1
        <5>3. PICK m, n : m = 1 /\ n = 1
          OBVIOUS
        <5>4. a \in Seq(DefT) /\ f \in Seq(DefT) /\ m = Len(a) /\ n = Len(f)
          BY <3>4, <5>2, <5>3
        <5>5. /\ a \o f \in Seq(DefT) /\ Len(a \o f) = m + n
              /\ \A k \in 1..m : (a \o f)[k] = a[k]
              /\ \A k \in 1..n : (a \o f)[m + k] = f[k]
          BY ONLY <5>4, Joined
        <5>6. m + n = 2 /\ 1 \in 1..m /\ 1 \in 1..n /\ m + 1 = 2
          BY <5>3
        <5>7. (a \o f)[1] = a[1] /\ (a \o f)[2] = f[1]
          BY <5>5, <5>6
        <5> QED
          BY <3>4, <4>1, <5>1, <5>2, <5>5, <5>6, <5>7
      <4>3. e = c \o b
        BY <3>3, <4>1
      <4>4. /\ c \o b \in Seq(DefT) /\ Len(c \o b) = 2 + (L - 1)
            /\ \A k \in 1..2 : (c \o b)[k] = c[k]
            /\ \A k \in 1..(L - 1) : (c \o b)[2 + k] = b[k]
        <5>1. PICK m, n : m = 2 /\ n = L - 1
          OBVIOUS
        <5>2. c \in Seq(DefT) /\ b \in Seq(DefT) /\ m = Len(c) /\ n = Len(b)
          BY <3>5, <4>2, <5>1
        <5>3. /\ c \o b \in Seq(DefT) /\ Len(c \o b) = m + n
              /\ \A k \in 1..m : (c \o b)[k] = c[k]
              /\ \A k \in 1..n : (c \o b)[m + k] = b[k]
          BY ONLY <5>2, Joined
        <5> QED
          BY <5>1, <5>3
      <4>5. 2 + (L - 1) = L + 1 /\ 1 \in 1..2 /\ 2 \in 1..2
        BY <1>2
      <4> QED
        BY ONLY <4>2, <4>3, <4>4, <4>5
    <3>7. \A k \in 3..(L + 1) : e[k] = d[k - 1]
      <4> TAKE k \in 3..(L + 1)
      <4>1. k - 2 \in 1..(L - 1) /\ k - 2 + 1 = k - 1 /\ 2 + (k - 2) = k
        BY <1>2
      <4>2. e[k] = b[k - 2]
        BY <3>6, <4>1
      <4> QED
        BY <3>5, <4>1, <4>2
    <3>8. \A k \in 1..(L + 1) : k # 2 => w[k] \in 1..L /\ e[k] = d[w[k]]
      <4> SUFFICES ASSUME NEW k \in 1..(L + 1), k # 2
                   PROVE  w[k] \in 1..L /\ e[k] = d[w[k]]
        OBVIOUS
      <4>1. CASE k = 1
        BY <1>2, <1>3, <3>1, <3>6, <4>1
      <4>2. CASE k # 1
        <5>1. k \in 3..(L + 1) /\ k - 1 \in 1..L
          BY <1>2, <4>2
        <5>2. w[k] = k - 1
          BY <1>3, <4>2
        <5>3. e[k] = d[k - 1]
          BY ONLY <3>7, <5>1
        <5> QED
          BY ONLY <5>1, <5>2, <5>3
      <4> QED
        BY <4>1, <4>2
    <3>9. e \in Seq(DefT) /\ DOMAIN e = 1..(L + 1) /\ j \in 1..(L + 1) /\ e[j] = x
      BY <1>2, <3>1, <3>6
    <3>10. \A k \in 1..(L + 1) : k # j => w[k] \in 1..L /\ e[k] = d[w[k]]
      BY ONLY <3>1, <3>8
    <3> QED
      BY ONLY <3>6, <3>9, <3>10
  <2> QED
    BY <2>1, <2>2
<1>6. \A i, k \in 1..(L + 1) : i # j /\ k # j /\ w[i] = w[k] => i = k
  BY <1>2, <1>3, <1>4
<1>7. \A i, k \in 1..(L + 1) : e[i].net = e[k].net \/ e[i].name = e[k].name => i = k
  <2>1. \A k \in 1..(L + 1) : k # j => e[k].net # x.net /\ e[k].name # x.name
    BY <1>1, <1>5 DEF New
  <2>2. \A i, k \in 1..L : d[i].net = d[k].net \/ d[i].name = d[k].name => i = k
    BY <1>1 DEF Distinct
  <2>3. SUFFICES ASSUME NEW i \in 1..(L + 1), NEW k \in 1..(L + 1), e[i].net = e[k].net \/ e[i].name = e[k].name
                 PROVE  i = k
    OBVIOUS
  <2>4. CASE i = j \/ k = j
    <3>1. e[j] = x
      BY <1>5
    <3>2. CASE i = j /\ k # j
      <4>1. e[k].net # x.net /\ e[k].name # x.name /\ e[i] = x
        BY <2>1, <3>1, <3>2, Zenon
      <4> QED
        BY <2>3, <4>1, Zenon
    <3>3. CASE i # j /\ k = j
      <4>1. e[i].net # x.net /\ e[i].name # x.name /\ e[k] = x
        BY <2>1, <3>1, <3>3, Zenon
      <4> QED
        BY <2>3, <4>1, Zenon
    <3> QED
      BY <2>4, <3>2, <3>3, Zenon
  <2>5. CASE i # j /\ k # j
    <3>1. w[i] \in 1..L /\ w[k] \in 1..L /\ e[i] = d[w[i]] /\ e[k] = d[w[k]]
      BY <1>5, <2>5, Zenon
    <3>2. w[i] = w[k]
      BY <2>2, <2>3, <3>1, Zenon
    <3> QED
      BY <1>6, <2>5, <3>2, Zenon
  <2> QED
    BY <2>4, <2>5
<1>8. ToSet(e) = ToSet(d) \cup {x}
  <2>1. \A y : y \in ToSet(e) <=> \E k \in 1..(L + 1) : y = e[k]
    BY <1>5 DEF ToSet
  <2>2. \A y : y \in ToSet(d) <=> \E k \in 1..L : y = d[k]
    BY <1>2 DEF ToSet
  <2>3. \A i \in 1..L : \E k \in 1..(L + 1) : k # j /\ w[k] = i
    <3> TAKE i \in 1..L
    <3>1. CASE i = 1
      <4>1. 1 \in 1..(L + 1) /\ L # 0
        BY <1>2
      <4>2. j = 2 /\ w[1] = 1
        BY <1>3, <1>4, <4>1
      <4> QED
        BY <3>1, <4>1, <4>2
    <3>2. CASE i # 1
      <4>1. i + 1 \in 1..(L + 1) /\ i + 1 # 1 /\ i + 1 # 2 /\ i + 1 - 1 = i
        BY <1>2, <3>2
      <4> QED
        BY <1>3, <1>4, <4>1
    <3> QED
      BY <3>1, <3>2
  <2> QED
    BY <1>5, <2>1, <2>2, <2>3
<1> QED
  BY <1>1, <1>5, <1>7, <1>8 DEF Distinct

\* A redefinition changes one definition and keeps its place.
LEMMA ReplaceDef ==
  ASSUME NEW d \in Seq(DefT), Distinct(d), NEW i \in 1..Len(d), NEW x \in DefT,
         x.name = d[i].name, x.net \notin NetsIn(d)
  PROVE  LET e == [d EXCEPT ![i] = x]
         IN  /\ e \in Seq(DefT) /\ Distinct(e)
             /\ ToSet(e) = {y \in ToSet(d) : y.name # x.name} \cup {x}
<1>1. PICK e, L : e = [d EXCEPT ![i] = x] /\ L = Len(d)
  OBVIOUS
<1>2. /\ L \in Nat /\ DOMAIN d = 1..L /\ i \in 1..L
      /\ \A j, k \in 1..L : d[j].net = d[k].net \/ d[j].name = d[k].name => j = k
      /\ \A k \in 1..L : d[k].net # x.net
  BY <1>1 DEF Distinct, NetsIn
<1>3. /\ e \in Seq(DefT) /\ Len(e) = L /\ DOMAIN e = 1..L /\ e[i] = x
      /\ \A k \in 1..L : k # i => e[k] = d[k] /\ d[k].name # x.name
  BY <1>1, <1>2
<1>4. \A j, k \in 1..L : e[j].net = e[k].net \/ e[j].name = e[k].name => j = k
  BY <1>2, <1>3
<1>5. ToSet(e) = {y \in ToSet(d) : y.name # x.name} \cup {x}
  <2>1. \A y : y \in ToSet(e) <=> \E k \in 1..L : y = e[k]
    BY <1>3 DEF ToSet
  <2>2. \A y : y \in ToSet(d) <=> \E k \in 1..L : y = d[k]
    BY <1>2 DEF ToSet
  <2> QED
    BY <1>2, <1>3, <2>1, <2>2
<1> QED
  BY <1>1, <1>3, <1>4, <1>5 DEF Distinct

\* A definition removed leaves all others.
LEMMA RemoveDef ==
  ASSUME NEW d \in Seq(DefT), Distinct(d), NEW i \in 1..Len(d)
  PROVE  LET e == RemoveAt(d, i)
         IN  /\ e \in Seq(DefT) /\ Distinct(e)
             /\ ToSet(e) = {y \in ToSet(d) : y.name # d[i].name}
<1>1. PICK e, L : e = RemoveAt(d, i) /\ L = Len(d)
  OBVIOUS
<1>2. /\ L \in Nat /\ DOMAIN d = 1..L /\ i \in 1..L
      /\ \A j, k \in 1..L : d[j].net = d[k].net \/ d[j].name = d[k].name => j = k
  BY <1>1 DEF Distinct
<1>3. PICK w : w = [k \in 1..(L - 1) |-> IF k < i THEN k ELSE k + 1]
  OBVIOUS
<1>4. /\ e \in Seq(DefT) /\ Len(e) = L - 1 /\ DOMAIN e = 1..(L - 1)
      /\ \A k \in 1..(L - 1) : w[k] \in 1..L /\ w[k] # i /\ e[k] = d[w[k]]
  <2>1. PICK a, b : a = SubSeq(d, 1, i - 1) /\ b = SubSeq(d, i + 1, L)
    OBVIOUS
  <2>2. e = a \o b
    BY <1>1, <2>1 DEF RemoveAt
  <2>3. a \in Seq(DefT) /\ Len(a) = i - 1 /\ \A k \in 1..(i - 1) : a[k] = d[k]
    BY <1>1, <1>2, <2>1
  <2>4. b \in Seq(DefT) /\ Len(b) = L - i /\ \A k \in 1..(L - i) : b[k] = d[k + i]
    BY <1>1, <1>2, <2>1
  <2>5. /\ e \in Seq(DefT) /\ Len(e) = L - 1
        /\ \A k \in 1..(i - 1) : e[k] = a[k]
        /\ \A k \in 1..(L - i) : e[(i - 1) + k] = b[k]
    <3>1. PICK m, n : m = i - 1 /\ n = L - i
      OBVIOUS
    <3>2. a \in Seq(DefT) /\ b \in Seq(DefT) /\ m = Len(a) /\ n = Len(b)
      BY <2>3, <2>4, <3>1
    <3>3. /\ a \o b \in Seq(DefT) /\ Len(a \o b) = m + n
          /\ \A k \in 1..m : (a \o b)[k] = a[k]
          /\ \A k \in 1..n : (a \o b)[m + k] = b[k]
      BY ONLY <3>2, Joined
    <3>4. m + n = L - 1
      BY <1>2, <3>1
    <3> QED
      BY <2>2, <3>1, <3>3, <3>4
  <2>6. ASSUME NEW k \in 1..(L - 1)
        PROVE  w[k] \in 1..L /\ w[k] # i /\ e[k] = d[w[k]]
    <3>1. CASE k < i
      <4>1. k \in 1..(i - 1) /\ k \in 1..L /\ k # i
        BY <1>2, <3>1
      <4>2. e[k] = a[k]
        BY <2>5, <4>1
      <4> QED
        BY <1>3, <2>3, <3>1, <4>1, <4>2
    <3>2. CASE ~(k < i)
      <4>1. k - (i - 1) \in 1..(L - i) /\ k - (i - 1) + i = k + 1 /\ k + 1 \in 1..L /\ k + 1 # i
            /\ (i - 1) + (k - (i - 1)) = k
        BY <1>2, <3>2
      <4>2. e[k] = b[k - (i - 1)]
        BY <2>5, <4>1
      <4> QED
        BY <1>3, <2>4, <3>2, <4>1, <4>2
    <3> QED
      BY <3>1, <3>2
  <2> QED
    BY <2>5, <2>6
<1>5. \A j, k \in 1..(L - 1) : w[j] = w[k] => j = k
  BY <1>2, <1>3
<1>6. \A j, k \in 1..(L - 1) : e[j].net = e[k].net \/ e[j].name = e[k].name => j = k
  BY <1>2, <1>4, <1>5
<1>7. ToSet(e) = {y \in ToSet(d) : y.name # d[i].name}
  <2>1. \A y : y \in ToSet(e) <=> \E k \in 1..(L - 1) : y = e[k]
    BY <1>4 DEF ToSet
  <2>2. \A y : y \in ToSet(d) <=> \E k \in 1..L : y = d[k]
    BY <1>2 DEF ToSet
  <2>3. \A j \in 1..L : j # i => \E k \in 1..(L - 1) : w[k] = j
    <3> SUFFICES ASSUME NEW j \in 1..L, j # i
                 PROVE  \E k \in 1..(L - 1) : w[k] = j
      OBVIOUS
    <3>1. CASE j < i
      <4>1. j \in 1..(L - 1)
        BY <1>2, <3>1
      <4> QED
        BY <1>3, <3>1, <4>1
    <3>2. CASE ~(j < i)
      <4>1. j - 1 \in 1..(L - 1) /\ ~(j - 1 < i) /\ j - 1 + 1 = j
        BY <1>2, <3>2
      <4> QED
        BY <1>3, <4>1
    <3> QED
      BY <3>1, <3>2
  <2>4. \A j \in 1..L : d[j].name # d[i].name <=> j # i
    BY <1>2
  <2> QED
    BY <1>4, <2>1, <2>2, <2>3, <2>4
<1> QED
  BY <1>1, <1>4, <1>6, <1>7 DEF Distinct
-----------------------------------------------------------------------------
\* find_defined returns the network of the one definition with the name.
LEMMA FoundIs ==
  ASSUME NEW h, h.defs \in Seq(DefT), Distinct(h.defs)
  PROVE  /\ \A name : name \in Defined(h) <=> \E x \in ToSet(h.defs) : x.name = name
         /\ \A x \in ToSet(h.defs) : x \in DefT /\ find_defined(h, x.name) = x.net
         /\ \A name \in Defined(h) : /\ At(h, name) \in 1..Len(h.defs)
                                     /\ h.defs[At(h, name)].name = name
                                     /\ find_defined(h, name) = h.defs[At(h, name)].net
                                     /\ find_defined(h, name) \in NetsIn(h.defs)
<1>1. PICK d : d = h.defs
  OBVIOUS
<1>2. d \in Seq(DefT) /\ DOMAIN d = 1..Len(d) /\ \A i \in 1..Len(d) : d[i] \in DefT
  BY <1>1
<1>3. \A i, j \in 1..Len(d) : d[i].name = d[j].name => i = j
  BY <1>1 DEF Distinct
<1>4. \A name : name \in Defined(h) <=> \E i \in 1..Len(d) : d[i].name = name
  BY <1>1, <1>2 DEF Defined, Range
<1>5. \A name : (\E i \in 1..Len(d) : d[i].name = name) =>
                  At(h, name) \in 1..Len(d) /\ d[At(h, name)].name = name
  BY <1>1, <1>2 DEF At
<1>6. \A i \in 1..Len(d) : At(h, d[i].name) = i
  BY <1>3, <1>5
<1>7. \A x : x \in ToSet(d) <=> \E i \in 1..Len(d) : x = d[i]
  BY <1>2 DEF ToSet
<1>8. \A name : find_defined(h, name) = d[At(h, name)].net
  BY <1>1 DEF find_defined
<1> QED
  BY <1>1, <1>2, <1>4, <1>5, <1>6, <1>7, <1>8 DEF NetsIn

\* r binds the name to n, which the command had, and every other name to what it was bound to.
Binds(r, h, name, n) ==
  /\ ToSet(r.defs) = {x \in ToSet(h.defs) : x.name # name} \cup {[name |-> name, net |-> n]}
  /\ \A x \in ToSet(r.defs) : r.net[x.net] = h.net[x.net]

\* The list has the network n that the command had.
Taken(r, h, s, X, N, name, n) ==
  /\ State(r, s, X \ {n}, N) /\ Binds(r, h, name, n)
  /\ \A m \in ToSet(s) \cup X : r.net[m] = h.net[m]
  /\ name \notin Defined(h) => r.net = h.net

\* add_defined gives the name to a network the command holds.
LEMMA BindRule ==
  ASSUME NEW h, NEW s, NEW X, NEW N, State(h, s, X, N), NEW n \in X,
         NEW name \in Name \cup {Temporary}, name \notin TooLong
  PROVE  Taken(add_defined(h, n, name), h, s, X, N, name, n)
<1>1. PICK r : r = add_defined(h, n, name)
  OBVIOUS
<1>2. PICK d : d = h.defs
  OBVIOUS
<1>3. PICK x : x = [name |-> name, net |-> n]
  OBVIOUS
<1>4. PICK H : H = Held(s, d, X)
  OBVIOUS
<1>5. /\ Piled(h, s) /\ Apart(s, d, X) /\ Memory(h, H) /\ Fits(h, N) /\ h \in HeapT
      /\ d \in Seq(DefT) /\ Distinct(d) /\ n \in Chunk /\ n \in H /\ h.net \in [Chunk -> NetT]
      /\ H \in SUBSET Chunk
  <2>1. Piled(h, s) /\ Apart(s, d, X) /\ Memory(h, H) /\ Fits(h, N) /\ h \in HeapT
    BY <1>2, <1>4 DEF State, Piled
  <2> QED
    BY <1>2, <1>4, <2>1 DEF HeapT, Apart, Memory, Held
<1>6. x \in DefT /\ x.name = name /\ x.net = n
  BY <1>3, <1>5 DEF DefT
<1>7. n \notin NetsIn(d) /\ n \notin ToSet(s)
  BY <1>5 DEF Apart
<1>8. /\ \A m : m \in Defined(h) <=> \E y \in ToSet(d) : y.name = m
      /\ \A y \in ToSet(d) : y \in DefT /\ find_defined(h, y.name) = y.net
  BY <1>2, <1>5, FoundIs
<1>9. CASE name \in Defined(h)
  <2>1. PICK i, old : i = At(h, name) /\ old = find_defined(h, name)
    OBVIOUS
  <2>2. i \in 1..Len(d) /\ d[i].name = name /\ old = d[i].net /\ old \in NetsIn(d)
    BY <1>2, <1>5, <1>9, <2>1, FoundIs
  <2>3. old \in Chunk /\ old \in H /\ old \notin ToSet(s) /\ old \notin X /\ old # n
    BY <1>4, <1>5, <1>7, <2>2 DEF Apart, Held, Memory
  <2>4. PICK g : g = fsm_destroy(h, old)
    OBVIOUS
  <2>5. r = [g EXCEPT !.defs[i] = x]
    BY <1>1, <1>3, <1>9, <2>1, <2>4 DEF add_defined
  <2>6. g \in HeapT /\ g.net = [h.net EXCEPT ![old] = Free] /\ g.defs = d
    BY <1>2, <1>5, <2>3, <2>4, DestroyIs
  <2>7. Memory(g, H \ {old})
    BY <1>5, <2>3, <2>4, DestroyMemory
  <2>8. Piled(g, s) /\ Fits(g, N)
    <3>1. Piled(g, s) /\ Fits(g, N \cup {old})
      BY <1>5, <2>3, <2>4, DestroyStack
    <3> QED
      BY <2>3, <3>1, FitsDrop
  <2>9. PICK e : e = [d EXCEPT ![i] = x]
    OBVIOUS
  <2>10. /\ e \in Seq(DefT) /\ Distinct(e)
         /\ ToSet(e) = {y \in ToSet(d) : y.name # name} \cup {x}
    <3>1. x.name = d[i].name /\ x.net \notin NetsIn(d)
      BY <1>6, <1>7, <2>2
    <3>2. /\ e \in Seq(DefT) /\ Distinct(e)
          /\ ToSet(e) = {y \in ToSet(d) : y.name # x.name} \cup {x}
      BY <1>5, <1>6, <2>2, <2>9, <3>1, ReplaceDef
    <3> QED
      BY <1>6, <3>2
  <2>11. r = [g EXCEPT !.defs = e]
    BY <2>5, <2>6, <2>9 DEF HeapT
  <2>12. /\ r \in HeapT /\ r.main = g.main /\ r.cell = g.cell /\ r.turned = g.turned
         /\ r.net = g.net /\ r.last = g.last /\ r.shared = g.shared
         /\ r.defs = e /\ r.live = g.live /\ r.broken = g.broken
    BY <2>6, <2>10, <2>11 DEF HeapT
  <2>13. \A m : m \in NetsIn(e) <=> m = n \/ (m \in NetsIn(d) /\ m # old)
    <3>1. \A m : m \in NetsIn(e) <=> \E y \in ToSet(e) : y.net = m
      BY <2>10, NetsOfSet
    <3>2. \A m : m \in NetsIn(d) <=> \E y \in ToSet(d) : y.net = m
      BY <1>5, NetsOfSet
    <3>3. \A y \in ToSet(d) : y.name = name <=> y.net = old
      <4>1. \A y \in ToSet(d) : \E k \in 1..Len(d) : y = d[k]
        BY <1>5 DEF ToSet
      <4> QED
        BY <1>5, <2>2, <4>1 DEF Distinct
    <3> QED
      BY <1>6, <2>10, <3>1, <3>2, <3>3
  <2>14. Held(s, e, X \ {n}) = H \ {old}
    BY <1>4, <2>3, <2>13 DEF Held
  <2>15. Piled(r, s) /\ Fits(r, N) /\ Memory(r, H \ {old})
    BY <2>7, <2>8, <2>12 DEF Piled, Fits, Entries, Memory
  <2>16. Apart(s, e, X \ {n})
    BY <1>5, <1>7, <2>10, <2>13 DEF Apart
  <2>17. \A m \in Chunk : m # old => r.net[m] = h.net[m]
    BY <1>5, <2>6, <2>12
  <2>18. \A y \in ToSet(e) : r.net[y.net] = h.net[y.net]
    <3>1. \A y \in ToSet(e) : y.net \in NetsIn(e)
      BY <2>10, NetsOfSet
    <3>2. \A m \in NetsIn(e) : m \in Chunk /\ m # old
      BY <1>4, <1>5, <2>3, <2>13 DEF Held
    <3> QED
      BY <2>17, <3>1, <3>2
  <2>19. \A m \in ToSet(s) \cup X : r.net[m] = h.net[m]
    BY <1>4, <1>5, <2>3, <2>17 DEF Held
  <2> QED
    BY <1>1, <1>2, <1>3, <1>9, <2>10, <2>12, <2>14, <2>15, <2>16, <2>18, <2>19 DEF State, Binds, Taken
<1>10. CASE name \notin Defined(h)
  <2>1. PICK e : e = IF d = <<>> THEN <<x>> ELSE InsertAt(d, 2, x)
    OBVIOUS
  <2>2. r = [h EXCEPT !.defs = e]
    BY <1>1, <1>2, <1>3, <1>5, <1>10, <2>1 DEF add_defined, HeapT
  <2>3. New(d, x)
    <3>1. \A i \in 1..Len(d) : d[i] \in ToSet(d) /\ d[i].net \in NetsIn(d)
      BY <1>5 DEF ToSet, NetsIn
    <3> QED
      BY <1>6, <1>7, <1>8, <1>10, <3>1 DEF New
  <2>4. e \in Seq(DefT) /\ Distinct(e) /\ ToSet(e) = ToSet(d) \cup {x}
    BY <1>5, <1>6, <2>1, <2>3, InsertDef
  <2>5. /\ r \in HeapT /\ r.main = h.main /\ r.cell = h.cell /\ r.turned = h.turned
        /\ r.net = h.net /\ r.last = h.last /\ r.shared = h.shared
        /\ r.defs = e /\ r.live = h.live /\ r.broken = h.broken
    BY <1>5, <2>2, <2>4 DEF HeapT
  <2>6. \A m : m \in NetsIn(e) <=> m = n \/ m \in NetsIn(d)
    <3>1. \A m : m \in NetsIn(e) <=> \E y \in ToSet(e) : y.net = m
      BY <2>4, NetsOfSet
    <3>2. \A m : m \in NetsIn(d) <=> \E y \in ToSet(d) : y.net = m
      BY <1>5, NetsOfSet
    <3> QED
      BY <1>6, <2>4, <3>1, <3>2
  <2>7. Held(s, e, X \ {n}) = H
    BY <1>4, <2>6 DEF Held
  <2>8. Piled(r, s) /\ Fits(r, N) /\ Memory(r, H)
    BY <1>5, <2>5 DEF Piled, Fits, Entries, Memory
  <2>9. Apart(s, e, X \ {n})
    BY <1>5, <1>7, <2>4, <2>6 DEF Apart
  <2>10. ToSet(e) = {y \in ToSet(d) : y.name # name} \cup {x}
    BY <1>8, <1>10, <2>4
  <2> QED
    BY <1>1, <1>2, <1>3, <2>5, <2>7, <2>8, <2>9, <2>10 DEF State, Binds, Taken
<1> QED
  BY <1>9, <1>10

\* r binds all names but one to what they were bound to.
Unbinds(r, h, name) ==
  /\ ToSet(r.defs) = {x \in ToSet(h.defs) : x.name # name}
  /\ \A x \in ToSet(r.defs) : r.net[x.net] = h.net[x.net]

Dropped(r, h, s, X, N, name) ==
  /\ State(r, s, X, N) /\ Unbinds(r, h, name)
  /\ \A m \in ToSet(s) \cup X : r.net[m] = h.net[m]

\* remove_defined drops a definition with its network.
LEMMA UnbindRule ==
  ASSUME NEW h, NEW s, NEW X, NEW N, State(h, s, X, N), NEW name
  PROVE  Dropped(remove_defined(h, name), h, s, X, N, name)
<1>1. PICK r : r = remove_defined(h, name)
  OBVIOUS
<1>2. PICK d : d = h.defs
  OBVIOUS
<1>3. PICK H : H = Held(s, d, X)
  OBVIOUS
<1>4. /\ Piled(h, s) /\ Apart(s, d, X) /\ Memory(h, H) /\ Fits(h, N) /\ h \in HeapT
      /\ d \in Seq(DefT) /\ Distinct(d) /\ h.net \in [Chunk -> NetT] /\ H \in SUBSET Chunk
  <2>1. Piled(h, s) /\ Apart(s, d, X) /\ Memory(h, H) /\ Fits(h, N) /\ h \in HeapT
    BY <1>2, <1>3 DEF State, Piled
  <2> QED
    BY <1>2, <2>1 DEF HeapT, Apart, Memory
<1>5. \A m : m \in Defined(h) <=> \E y \in ToSet(d) : y.name = m
  BY <1>2, <1>4, FoundIs
<1>6. CASE name \in Defined(h)
  <2>1. PICK i, old : i = At(h, name) /\ old = find_defined(h, name)
    OBVIOUS
  <2>2. i \in 1..Len(d) /\ d[i].name = name /\ old = d[i].net /\ old \in NetsIn(d)
    BY <1>2, <1>4, <1>6, <2>1, FoundIs
  <2>3. old \in Chunk /\ old \in H /\ old \notin ToSet(s) /\ old \notin X
    BY <1>3, <1>4, <2>2 DEF Apart, Held, Memory
  <2>4. PICK g : g = fsm_destroy(h, old)
    OBVIOUS
  <2>5. PICK e : e = RemoveAt(d, i)
    OBVIOUS
  <2>6. g \in HeapT /\ g.net = [h.net EXCEPT ![old] = Free] /\ g.defs = d
    BY <1>2, <1>4, <2>3, <2>4, DestroyIs
  <2>7. r = [g EXCEPT !.defs = e]
    BY <1>1, <1>6, <2>1, <2>4, <2>5, <2>6 DEF remove_defined, HeapT
  <2>8. Memory(g, H \ {old})
    BY <1>4, <2>3, <2>4, DestroyMemory
  <2>9. Piled(g, s) /\ Fits(g, N)
    <3>1. Piled(g, s) /\ Fits(g, N \cup {old})
      BY <1>4, <2>3, <2>4, DestroyStack
    <3> QED
      BY <2>3, <3>1, FitsDrop
  <2>10. /\ e \in Seq(DefT) /\ Distinct(e)
         /\ ToSet(e) = {y \in ToSet(d) : y.name # name}
    BY <1>4, <2>2, <2>5, RemoveDef
  <2>11. /\ r \in HeapT /\ r.main = g.main /\ r.cell = g.cell /\ r.turned = g.turned
         /\ r.net = g.net /\ r.last = g.last /\ r.shared = g.shared
         /\ r.defs = e /\ r.live = g.live /\ r.broken = g.broken
    BY <2>6, <2>7, <2>10 DEF HeapT
  <2>12. \A m : m \in NetsIn(e) <=> m \in NetsIn(d) /\ m # old
    <3>1. \A m : m \in NetsIn(e) <=> \E y \in ToSet(e) : y.net = m
      BY <2>10, NetsOfSet
    <3>2. \A m : m \in NetsIn(d) <=> \E y \in ToSet(d) : y.net = m
      BY <1>4, NetsOfSet
    <3>3. \A y \in ToSet(d) : y.name = name <=> y.net = old
      <4>1. \A y \in ToSet(d) : \E k \in 1..Len(d) : y = d[k]
        BY <1>4 DEF ToSet
      <4> QED
        BY <1>4, <2>2, <4>1 DEF Distinct
    <3> QED
      BY <2>10, <3>1, <3>2, <3>3
  <2>13. Held(s, e, X) = H \ {old}
    BY <1>3, <2>3, <2>12 DEF Held
  <2>14. Piled(r, s) /\ Fits(r, N) /\ Memory(r, H \ {old})
    BY <2>8, <2>9, <2>11 DEF Piled, Fits, Entries, Memory
  <2>15. Apart(s, e, X)
    BY <1>4, <2>10, <2>12 DEF Apart
  <2>16. \A m \in Chunk : m # old => r.net[m] = h.net[m]
    BY <1>4, <2>6, <2>11
  <2>17. \A y \in ToSet(e) : r.net[y.net] = h.net[y.net]
    <3>1. \A y \in ToSet(e) : y.net \in NetsIn(e)
      BY <2>10, NetsOfSet
    <3>2. \A m \in NetsIn(e) : m \in Chunk /\ m # old
      BY <1>3, <1>4, <2>12 DEF Held
    <3> QED
      BY <2>16, <3>1, <3>2
  <2>18. \A m \in ToSet(s) \cup X : r.net[m] = h.net[m]
    BY <1>3, <1>4, <2>3, <2>16 DEF Held
  <2> QED
    BY <1>1, <1>2, <2>10, <2>11, <2>13, <2>14, <2>15, <2>17, <2>18 DEF State, Unbinds, Dropped
<1>7. CASE name \notin Defined(h)
  <2>1. r = h
    BY <1>1, <1>7 DEF remove_defined
  <2>2. ToSet(d) = {y \in ToSet(d) : y.name # name}
    BY <1>5, <1>7
  <2> QED
    BY <1>1, <1>2, <2>1, <2>2 DEF Unbinds, Dropped
<1> QED
  BY <1>6, <1>7

\* remove_all_defined frees the networks of all definitions.
LEMMA UnbindAllRule ==
  ASSUME NEW h, NEW s, NEW X, NEW N, State(h, s, X, N)
  PROVE  /\ State(remove_all_defined(h), s, X, ToSet(s))
         /\ remove_all_defined(h).defs = <<>>
<1>1. PICK r, d, H : r = remove_all_defined(h) /\ d = h.defs /\ H = Held(s, d, X)
  OBVIOUS
<1>2. /\ Piled(h, s) /\ Apart(s, d, X) /\ Memory(h, H) /\ h \in HeapT
      /\ d \in Seq(DefT) /\ Distinct(d)
  <2>1. Piled(h, s) /\ Apart(s, d, X) /\ Memory(h, H) /\ h \in HeapT
    BY <1>1 DEF State, Piled
  <2> QED
    BY <1>1, <2>1 DEF HeapT, Apart
<1>3. PICK K : K = Len(d)
  OBVIOUS
<1>4. PICK q : q = [i \in 1..K |-> d[i].net]
  OBVIOUS
<1>5. K \in Nat
  BY <1>2, <1>3
<1>6. PICK f : f = CHOOSE e : e = [k \in 0..Len(d) |-> IF k = 0 THEN h ELSE fsm_destroy(e[k - 1], d[k].net)]
  OBVIOUS
<1>7. Frees(f, h, q, K)
  <2>1. \A g : (g = [k \in 0..Len(d) |-> IF k = 0 THEN h ELSE fsm_destroy(g[k - 1], d[k].net)])
               <=> Frees(g, h, q, K)
    <3> TAKE g
    <3>1. \A k \in 0..K : k # 0 => k \in 1..K
      BY <1>5
    <3>2. \A k \in 0..K : (IF k = 0 THEN h ELSE fsm_destroy(g[k - 1], d[k].net))
                          = (IF k = 0 THEN h ELSE fsm_destroy(g[k - 1], q[k]))
      BY <1>4, <3>1
    <3> QED
      BY <1>3, <3>2 DEF Frees
  <2>2. PICK g : Frees(g, h, q, K)
    BY <1>5, FreesExists
  <2>3. f = [k \in 0..Len(d) |-> IF k = 0 THEN h ELSE fsm_destroy(f[k - 1], d[k].net)]
    BY <1>6, <2>1, <2>2
  <2> QED
    BY <2>1, <2>3
<1>8. r = [f[Len(d)] EXCEPT !.defs = <<>>]
  BY <1>1, <1>6 DEF remove_all_defined
<1>9. Freeable(q, K, H)
  <2>1. \A i \in 1..K : d[i].net \in H
    BY <1>1, <1>3 DEF Held, NetsIn
  <2> QED
    BY <1>2, <1>3, <1>4, <1>5, <2>1 DEF Freeable, Distinct
<1>10. PICK g : g = f[K]
  OBVIOUS
<1>11. Freed(g, h, H, q, K)
  BY <1>2, <1>7, <1>9, <1>10, FreesAll
<1>12. First(q, K) = NetsIn(d)
  BY <1>3, <1>4 DEF First, NetsIn
<1>13. g \in HeapT /\ Memory(g, H \ NetsIn(d)) /\ Piled(g, s)
  BY <1>2, <1>11, <1>12 DEF Freed
<1>14. PICK e : e = <<>>
  OBVIOUS
<1>15. e \in Seq(DefT) /\ Len(e) = 0 /\ NetsIn(e) = {} /\ Distinct(e)
  BY <1>14 DEF NetsIn, Distinct
<1>16. r = [g EXCEPT !.defs = e]
  BY <1>3, <1>8, <1>10, <1>14
<1>17. /\ r \in HeapT /\ r.main = g.main /\ r.cell = g.cell /\ r.turned = g.turned
       /\ r.net = g.net /\ r.last = g.last /\ r.shared = g.shared
       /\ r.defs = e /\ r.live = g.live /\ r.broken = g.broken
  BY <1>13, <1>15, <1>16 DEF HeapT
<1>18. Piled(r, s) /\ Memory(r, H \ NetsIn(d))
  BY <1>13, <1>17 DEF Piled, Memory
<1>19. Held(s, e, X) = H \ NetsIn(d)
  BY <1>1, <1>2, <1>15 DEF Held, Apart
<1>20. Apart(s, e, X)
  BY <1>2, <1>15 DEF Apart
<1>21. Fits(r, ToSet(s))
  <2>1. {r.cell[c].fsm : c \in Entries(r)} = ToSet(s)
    BY <1>18, PiledIs
  <2> QED
    BY <2>1 DEF Fits
<1> QED
  BY <1>1, <1>14, <1>17, <1>18, <1>19, <1>20, <1>21 DEF State
-----------------------------------------------------------------------------
(***************************************************************************)
(* What the networks say: the stack and the names as Desk has them.        *)
(***************************************************************************)
Says(h, s) == [k \in 1..Len(s) |-> h.net[s[k]].says]

\* A heap between two commands.
Rest(h, s) == /\ State(h, s, {}, {}) /\ h.last = NULL /\ Len(s) \in 0..MaxStack
              /\ \A x \in ToSet(h.defs) : x.name \in Name

\* A heap between two commands whose stack says pile and whose names say named.
Yields(h, pile, named) ==
  \E s : Rest(h, s) /\ Says(h, s) = pile /\ NamedOf(h) = named

\* Sequences whose members are the same.
LEMMA SameFcn ==
  ASSUME NEW L, NEW f, NEW g, f = [k \in 1..L |-> f[k]], g = [k \in 1..L |-> g[k]],
         \A k \in 1..L : f[k] = g[k]
  PROVE  f = g
<1>1. [k \in 1..L |-> f[k]] = [k \in 1..L |-> g[k]]
  OBVIOUS
<1> QED
  BY <1>1, Zenon

\* What a pile says, place by place.
LEMMA SaysIs ==
  ASSUME NEW h, NEW s, NEW Y, s \in Seq(Y)
  PROVE  /\ \A k \in 1..Len(s) : Says(h, s)[k] = h.net[s[k]].says /\ s[k] \in ToSet(s)
         /\ Len(Says(h, s)) = Len(s) /\ DOMAIN Says(h, s) = 1..Len(s) /\ Len(s) \in Nat
         /\ \A T : (\A k \in 1..Len(s) : h.net[s[k]].says \in T) => Says(h, s) \in Seq(T)
<1>1. PICK L, p : L = Len(s) /\ p = Says(h, s)
  OBVIOUS
<1>2. L \in Nat /\ p = [k \in 1..L |-> h.net[s[k]].says]
  BY <1>1 DEF Says
<1>3. Len(p) = L /\ DOMAIN p = 1..L /\ \A k \in 1..L : p[k] = h.net[s[k]].says
  BY <1>2
<1>4. ASSUME NEW T, \A k \in 1..L : h.net[s[k]].says \in T
      PROVE  p \in Seq(T)
  BY <1>2, <1>4
<1>5. \A k \in 1..L : s[k] \in ToSet(s)
  BY <1>1 DEF ToSet
<1> QED
  BY <1>1, <1>2, <1>3, <1>4, <1>5

\* A pile says the same as long as its networks do.
LEMMA SaysSame ==
  ASSUME NEW h, NEW r, NEW s, NEW Y, s \in Seq(Y), \A n \in ToSet(s) : r.net[n].says = h.net[n].says
  PROVE  Says(r, s) = Says(h, s)
<1>1. \A k \in 1..Len(s) : s[k] \in ToSet(s)
  BY DEF ToSet
<1> QED
  BY <1>1 DEF Says

\* What a pile says with a network on top.
LEMMA SaysPush ==
  ASSUME NEW h, NEW r, NEW s, NEW Y, s \in Seq(Y), NEW n \in Y,
         \A m \in ToSet(s) : r.net[m].says = h.net[m].says
  PROVE  Says(r, Append(s, n)) = Append(Says(h, s), r.net[n].says)
<1>1. PICK L, p, t, u : L = Len(s) /\ p = Says(h, s) /\ t = Append(s, n) /\ u = Says(r, t)
  OBVIOUS
<1>2. PICK c : c = r.net[n].says
  OBVIOUS
<1>3. PICK Z : Z = {h.net[s[k]].says : k \in 1..L} \cup {c}
  OBVIOUS
<1>4. L \in Nat /\ p \in Seq(Z) /\ Len(p) = L /\ \A k \in 1..L : p[k] = h.net[s[k]].says /\ s[k] \in ToSet(s)
  <2>1. \A k \in 1..L : h.net[s[k]].says \in Z
    BY <1>3
  <2> QED
    BY <1>1, <2>1, SaysIs
<1>5. t \in Seq(Y) /\ Len(t) = L + 1 /\ t[L + 1] = n /\ \A k \in 1..L : t[k] = s[k]
  BY <1>1, <1>4
<1>6. u = [k \in 1..(L + 1) |-> r.net[t[k]].says]
  BY <1>1, <1>5 DEF Says
<1>7. PICK v : v = Append(p, c)
  OBVIOUS
<1>8. v \in Seq(Z) /\ Len(v) = L + 1 /\ v[L + 1] = c /\ \A k \in 1..L : v[k] = p[k]
  <2>1. c \in Z
    BY <1>3
  <2> QED
    BY <1>4, <1>7, <2>1
<1>9. v = [k \in 1..(L + 1) |-> v[k]]
  <2>1. PICK M : M = Len(v)
    OBVIOUS
  <2>2. v = [k \in 1..M |-> v[k]]
    BY <1>8, <2>1
  <2> QED
    BY <1>8, <2>1, <2>2
<1>10. \A k \in 1..(L + 1) : v[k] = r.net[t[k]].says
  <2>1. \A k \in 1..(L + 1) : k = L + 1 \/ k \in 1..L
    BY <1>4
  <2> QED
    BY <1>2, <1>4, <1>5, <1>8, <2>1
<1>11. u = v
  BY ONLY <1>6, <1>9, <1>10
<1> QED
  BY <1>1, <1>2, <1>7, <1>11

\* The stack below its top k networks.
LEMMA SaysBelow ==
  ASSUME NEW h, NEW s, NEW Y, s \in Seq(Y), Len(s) > 0
  PROVE  Says(h, Front(s)) = SubSeq(Says(h, s), 1, Len(s) - 1)
<1>1. PICK L, p, t, u : L = Len(s) /\ p = Says(h, s) /\ t = Front(s) /\ u = Says(h, t)
  OBVIOUS
<1>2. PICK Z : Z = {h.net[s[k]].says : k \in 1..L}
  OBVIOUS
<1>3. /\ L \in Nat /\ L > 0 /\ p \in Seq(Z) /\ Len(p) = L
      /\ \A k \in 1..L : p[k] = h.net[s[k]].says /\ s[k] \in ToSet(s)
  <2>1. \A k \in 1..L : h.net[s[k]].says \in Z
    BY <1>2
  <2> QED
    BY <1>1, <2>1, SaysIs
<1>4. t \in Seq(Y) /\ Len(t) = L - 1 /\ \A k \in 1..(L - 1) : t[k] = s[k]
  BY <1>1, <1>3 DEF Front
<1>5. u = [k \in 1..(L - 1) |-> h.net[t[k]].says]
  BY <1>1, <1>4 DEF Says
<1>6. PICK v : v = SubSeq(p, 1, L - 1)
  OBVIOUS
<1>7. v \in Seq(Z) /\ Len(v) = L - 1 /\ \A k \in 1..(L - 1) : v[k] = p[k]
  BY <1>3, <1>6
<1>8. v = [k \in 1..(L - 1) |-> v[k]]
  <2>1. PICK M : M = Len(v)
    OBVIOUS
  <2>2. v = [k \in 1..M |-> v[k]]
    BY <1>7, <2>1
  <2> QED
    BY <1>7, <2>1, <2>2
<1>9. \A k \in 1..(L - 1) : v[k] = h.net[t[k]].says
  <2>1. \A k \in 1..(L - 1) : k \in 1..L
    BY <1>3
  <2> QED
    BY <1>3, <1>4, <1>7, <2>1
<1>10. u = v
  BY ONLY <1>5, <1>8, <1>9
<1> QED
  BY <1>1, <1>6, <1>10

\* The stack with its bottom and its top exchanged.
LEMMA SaysTurn ==
  ASSUME NEW h, NEW s, NEW Y, s \in Seq(Y), Len(s) > 0
  PROVE  LET p == Says(h, s)
         IN  Says(h, [s EXCEPT ![1] = s[Len(s)], ![Len(s)] = s[1]])
               = [p EXCEPT ![1] = p[Len(s)], ![Len(s)] = p[1]]
<1>1. PICK L, p, t, u : /\ L = Len(s) /\ p = Says(h, s) /\ u = Says(h, t)
                        /\ t = [s EXCEPT ![1] = s[Len(s)], ![Len(s)] = s[1]]
  OBVIOUS
<1>2. /\ L \in Nat /\ L > 0 /\ p = [k \in 1..L |-> h.net[s[k]].says] /\ 1 \in 1..L /\ L \in 1..L
  BY <1>1 DEF Says
<1>3. /\ Len(t) = L /\ t[1] = s[L] /\ t[L] = s[1]
      /\ \A k \in 1..L : k # 1 /\ k # L => t[k] = s[k]
  BY <1>1, <1>2
<1>4. u = [k \in 1..L |-> h.net[t[k]].says]
  BY <1>1, <1>3 DEF Says
<1>5. PICK v : v = [p EXCEPT ![1] = p[L], ![L] = p[1]]
  OBVIOUS
<1>6. /\ v = [k \in 1..L |-> v[k]] /\ v[1] = p[L] /\ v[L] = p[1]
      /\ \A k \in 1..L : k # 1 /\ k # L => v[k] = p[k]
  BY <1>2, <1>5
<1>7. \A k \in 1..L : v[k] = h.net[t[k]].says
  <2> TAKE k \in 1..L
  <2>1. CASE k = 1
    BY <1>2, <1>3, <1>6, <2>1
  <2>2. CASE k = L
    BY <1>2, <1>3, <1>6, <2>2
  <2>3. CASE k # 1 /\ k # L
    BY <1>2, <1>3, <1>6, <2>3
  <2> QED
    BY <2>1, <2>2, <2>3
<1>8. u = v
  BY ONLY <1>4, <1>6, <1>7
<1> QED
  BY <1>1, <1>5, <1>8
-----------------------------------------------------------------------------
(***************************************************************************)
(* What a command leaves, from what its steps leave.                       *)
(***************************************************************************)
Listed(h) == h.defs \in Seq(DefT) /\ Distinct(h.defs)
Proper(h) == \A x \in ToSet(h.defs) : x.name \in Name

\* What the proofs about Desk use of State.
LEMMA StateListed ==
  ASSUME NEW h, NEW s, NEW X, NEW N, State(h, s, X, N)
  PROVE  /\ Listed(h) /\ h \in HeapT /\ s \in Seq(Chunk) /\ Len(s) \in Nat
         /\ ToSet(s) \subseteq Held(s, h.defs, X) /\ X \subseteq Held(s, h.defs, X)
         /\ NetsIn(h.defs) \subseteq Held(s, h.defs, X) /\ Held(s, h.defs, X) \subseteq Chunk
         /\ \A n \in Held(s, h.defs, X) : h.net[n] # Free /\ h.net[n].says \in Content
         /\ X \subseteq Chunk /\ ToSet(s) \subseteq Chunk
<1>1. Piled(h, s) /\ Apart(s, h.defs, X) /\ Memory(h, Held(s, h.defs, X)) /\ h \in HeapT
  BY DEF State, Piled
<1>2. Listed(h)
  BY <1>1 DEF Apart, Listed, HeapT
<1>3. /\ Held(s, h.defs, X) \subseteq Chunk
      /\ \A n \in Held(s, h.defs, X) : h.net[n] # Free /\ h.net[n].says \in Content
  BY <1>1 DEF Memory
<1>4. /\ ToSet(s) \subseteq Held(s, h.defs, X) /\ X \subseteq Held(s, h.defs, X)
      /\ NetsIn(h.defs) \subseteq Held(s, h.defs, X)
  BY DEF Held
<1>5. s \in Seq(Chunk \cup {NULL}) /\ \A k \in 1..Len(s) : s[k] \in Chunk
  <2>1. s \in Seq(Chunk \cup {NULL})
    BY <1>1, PiledIs
  <2>2. \A k \in 1..Len(s) : s[k] \in ToSet(s)
    BY <2>1 DEF ToSet
  <2> QED
    BY <1>3, <1>4, <2>1, <2>2
<1>6. s \in Seq(Chunk) /\ Len(s) \in Nat
  <2>1. PICK L : L = Len(s)
    OBVIOUS
  <2>2. s = [k \in 1..L |-> s[k]] /\ L \in Nat
    BY <1>5, <2>1
  <2>3. \A k \in 1..L : s[k] \in Chunk
    BY <1>5, <2>1
  <2> QED
    BY <2>1, <2>2, <2>3
<1> QED
  BY <1>1, <1>2, <1>3, <1>4, <1>6

\* What a name that is defined says.
LEMMA NamedIs ==
  ASSUME NEW h, Listed(h)
  PROVE  /\ NamedOf(h) = [n \in DOMAIN NamedOf(h) |-> NamedOf(h)[n]]
         /\ DOMAIN NamedOf(h) = Defined(h)
         /\ \A n : n \in Defined(h) <=> \E x \in ToSet(h.defs) : x.name = n
         /\ \A x \in ToSet(h.defs) : NamedOf(h)[x.name] = h.net[x.net].says
         /\ \A n \in Defined(h) : /\ NamedOf(h)[n] = h.net[find_defined(h, n)].says
                                  /\ find_defined(h, n) \in NetsIn(h.defs)
<1>1. /\ \A name : name \in Defined(h) <=> \E x \in ToSet(h.defs) : x.name = name
      /\ \A x \in ToSet(h.defs) : find_defined(h, x.name) = x.net
      /\ \A n \in Defined(h) : find_defined(h, n) \in NetsIn(h.defs)
  BY FoundIs DEF Listed
<1> QED
  BY <1>1 DEF NamedOf

\* Functions whose values are the same.
LEMMA SameOn ==
  ASSUME NEW f, NEW g, NEW D, f = [x \in D |-> f[x]], g = [x \in D |-> g[x]],
         \A x \in D : f[x] = g[x]
  PROVE  f = g
<1>1. [x \in D |-> f[x]] = [x \in D |-> g[x]]
  OBVIOUS
<1> QED
  BY <1>1, Zenon

\* The definitions say the same as long as their networks do.
LEMMA NamedSame ==
  ASSUME NEW h, NEW r, Listed(h), r.defs = h.defs,
         \A n \in NetsIn(h.defs) : r.net[n].says = h.net[n].says
  PROVE  NamedOf(r) = NamedOf(h)
<1>1. Defined(r) = Defined(h) /\ \A n : find_defined(r, n) = find_defined(h, n)
  BY DEF Defined, find_defined, At
<1>2. \A n \in Defined(h) : find_defined(h, n) \in NetsIn(h.defs)
  BY NamedIs
<1> QED
  BY <1>1, <1>2 DEF NamedOf

\* The names that are left, and those with one more.
With(named, name, c) ==
  [m \in DOMAIN named \cup {name} |-> IF m = name THEN c ELSE named[m]]
Without(named, name) == [m \in DOMAIN named \ {name} |-> named[m]]

\* What the definitions say after a name is given.
LEMMA NamedBind ==
  ASSUME NEW h, NEW r, Listed(h), Listed(r), NEW name, NEW n, Binds(r, h, name, n)
  PROVE  NamedOf(r) = With(NamedOf(h), name, h.net[n].says)
<1>1. PICK f, g : /\ f = NamedOf(r)
                  /\ g = [m \in DOMAIN NamedOf(h) \cup {name} |->
                            IF m = name THEN h.net[n].says ELSE NamedOf(h)[m]]
  OBVIOUS
<1>2. PICK x : x = [name |-> name, net |-> n]
  OBVIOUS
<1>3. x.name = name /\ x.net = n
  BY <1>2
<1>4. /\ \A y : y \in ToSet(r.defs) <=> (y \in ToSet(h.defs) /\ y.name # name) \/ y = x
      /\ \A y \in ToSet(r.defs) : r.net[y.net] = h.net[y.net]
  BY <1>2 DEF Binds
<1>5. /\ DOMAIN NamedOf(h) = Defined(h)
      /\ \A m : m \in Defined(h) <=> \E y \in ToSet(h.defs) : y.name = m
      /\ \A y \in ToSet(h.defs) : NamedOf(h)[y.name] = h.net[y.net].says
  BY NamedIs
<1>6. /\ f = [m \in DOMAIN f |-> f[m]] /\ DOMAIN f = Defined(r)
      /\ \A m : m \in Defined(r) <=> \E y \in ToSet(r.defs) : y.name = m
      /\ \A y \in ToSet(r.defs) : f[y.name] = r.net[y.net].says
  BY <1>1, NamedIs
<1>7. DOMAIN f = DOMAIN NamedOf(h) \cup {name}
  BY <1>3, <1>4, <1>5, <1>6
<1>8. g = [m \in DOMAIN f |-> g[m]]
  BY <1>1, <1>7
<1>9. ASSUME NEW m \in DOMAIN f
      PROVE  f[m] = g[m]
  <2>1. PICK y \in ToSet(r.defs) : y.name = m
    BY <1>6
  <2>2. f[m] = h.net[y.net].says
    BY <1>4, <1>6, <2>1
  <2>3. CASE y = x
    BY <1>1, <1>3, <1>7, <2>1, <2>2, <2>3
  <2>4. CASE y \in ToSet(h.defs) /\ y.name # name
    BY <1>1, <1>5, <1>7, <2>1, <2>2, <2>4
  <2> QED
    BY <1>4, <2>1, <2>3, <2>4
<1>10. f = g
  BY <1>6, <1>8, <1>9, SameOn
<1> QED
  BY <1>1, <1>10 DEF With

\* What the definitions say after a name is dropped.
LEMMA NamedUnbind ==
  ASSUME NEW h, NEW r, Listed(h), Listed(r), NEW name, Unbinds(r, h, name)
  PROVE  NamedOf(r) = Without(NamedOf(h), name)
<1>1. PICK f, g : f = NamedOf(r) /\ g = [m \in DOMAIN NamedOf(h) \ {name} |-> NamedOf(h)[m]]
  OBVIOUS
<1>2. /\ \A y : y \in ToSet(r.defs) <=> y \in ToSet(h.defs) /\ y.name # name
      /\ \A y \in ToSet(r.defs) : r.net[y.net] = h.net[y.net]
  BY DEF Unbinds
<1>3. /\ DOMAIN NamedOf(h) = Defined(h)
      /\ \A m : m \in Defined(h) <=> \E y \in ToSet(h.defs) : y.name = m
      /\ \A y \in ToSet(h.defs) : NamedOf(h)[y.name] = h.net[y.net].says
  BY NamedIs
<1>4. /\ f = [m \in DOMAIN f |-> f[m]] /\ DOMAIN f = Defined(r)
      /\ \A m : m \in Defined(r) <=> \E y \in ToSet(r.defs) : y.name = m
      /\ \A y \in ToSet(r.defs) : f[y.name] = r.net[y.net].says
  BY <1>1, NamedIs
<1>5. DOMAIN f = DOMAIN NamedOf(h) \ {name}
  BY <1>2, <1>3, <1>4
<1>6. g = [m \in DOMAIN f |-> g[m]]
  BY <1>1, <1>5
<1>7. ASSUME NEW m \in DOMAIN f
      PROVE  f[m] = g[m]
  <2>1. PICK y \in ToSet(r.defs) : y.name = m
    BY <1>4
  <2> QED
    BY <1>1, <1>2, <1>3, <1>4, <1>5, <2>1
<1>8. f = g
  BY <1>4, <1>6, <1>7, SameOn
<1> QED
  BY <1>1, <1>8 DEF Without

\* Chunks that are free: one, and another one.
LEMMA RoomOne ==
  ASSUME NEW h, Room(h) > 0
  PROVE  HasRoom(h)
<1> SUFFICES ASSUME \A n \in Chunk : h.net[n] # Free
             PROVE  FALSE
  BY DEF HasRoom
<1>1. {n \in Chunk : h.net[n] = Free} = {}
  OBVIOUS
<1>2. Room(h) = 0
  BY <1>1, FS_EmptySet DEF Room
<1> QED
  BY <1>2

\* With two chunks free there is one besides any other.
LEMMA RoomTwo ==
  ASSUME NEW h, Room(h) > 1, NEW m
  PROVE  \E n \in Chunk \ {m} : h.net[n] = Free
<1> SUFFICES ASSUME \A n \in Chunk \ {m} : h.net[n] # Free
             PROVE  FALSE
  OBVIOUS
<1>1. PICK F : F = {n \in Chunk : h.net[n] = Free}
  OBVIOUS
<1>2. F = {} \/ F = {m}
  BY <1>1
<1>3. Cardinality({}) = 0 /\ Cardinality({m}) = 1
  BY FS_EmptySet, FS_Singleton
<1>4. Room(h) = 0 \/ Room(h) = 1
  BY <1>1, <1>2, <1>3 DEF Room
<1> QED
  BY <1>4

\* There is a cell for one more entry and the sentinel.
LEMMA CellBound ==
  ASSUME NEW l \in Int, l < MaxStack
  PROVE  l + 1 < Cardinality(Cell)
<1>1. Cardinality(Cell) \in Nat /\ MaxStack \in Nat /\ MaxStack < Cardinality(Cell)
  BY SessionAssumption, FS_CardinalityType
<1>2. PICK c : c = Cardinality(Cell)
  OBVIOUS
<1> QED
  BY <1>1, <1>2

\* A command whose last step leaves r.
LEMMA FinishRule ==
  ASSUME NEW r, NEW t, NEW X, State(r, t, X, {}), Len(t) \in 0..MaxStack, Proper(r),
         NEW pile, NEW named, Says(r, t) = pile, NamedOf(r) = named
  PROVE  Yields(Settled(r), pile, named)
<1>1. PICK q : q = Settled(r)
  OBVIOUS
<1>2. /\ State(q, t, {}, {}) /\ q.last = NULL /\ q.defs = r.defs
      /\ \A n \in ToSet(t) \cup NetsIn(r.defs) : q.net[n] = r.net[n]
  BY <1>1, SettleRule
<1>3. Listed(r) /\ t \in Seq(Chunk)
  BY StateListed
<1>4. Says(q, t) = pile
  BY <1>2, <1>3, SaysSame
<1>5. NamedOf(q) = named
  BY <1>2, <1>3, NamedSame
<1>6. Rest(q, t)
  BY <1>2 DEF Rest, Proper
<1> QED
  BY <1>1, <1>4, <1>5, <1>6 DEF Yields
\* What a command finds.
LEMMA RestIs ==
  ASSUME NEW h, NEW s, Rest(h, s)
  PROVE  /\ State(h, s, {}, {}) /\ h.last = NULL /\ Proper(h) /\ Listed(h)
         /\ Len(s) \in Nat /\ Len(s) <= MaxStack /\ s \in Seq(Chunk)
         /\ stack_size(h) = Len(s) /\ OnStack(h) = s
         /\ Len(Says(h, s)) = Len(s)
         /\ Len(s) > 0 => /\ TopNet(h) = s[Len(s)] /\ TopNet(h) \in ToSet(s)
                          /\ Says(h, s)[Len(s)] = h.net[TopNet(h)].says
                          /\ Len(s) - 1 \in 0..MaxStack
         /\ Len(s) > 1 => /\ SecondNet(h) = s[Len(s) - 1] /\ SecondNet(h) \in ToSet(s)
                          /\ Says(h, s)[Len(s) - 1] = h.net[SecondNet(h)].says
                          /\ Len(s) - 2 \in 0..MaxStack
<1>1. PICK L : L = Len(s)
  OBVIOUS
<1>2. State(h, s, {}, {}) /\ h.last = NULL /\ Proper(h) /\ L \in 0..MaxStack /\ MaxStack \in Nat
  BY <1>1, SessionAssumption DEF Rest, Proper
<1>3. Listed(h) /\ s \in Seq(Chunk)
  BY <1>2, StateListed
<1>4. L \in Nat /\ L <= MaxStack
  BY <1>2
<1>5. Piled(h, s)
  BY <1>2 DEF State
<1>6. /\ stack_size(h) = L /\ OnStack(h) = s
      /\ L > 0 => TopNet(h) = s[L]
      /\ L > 1 => SecondNet(h) = s[L - 1]
  BY <1>1, <1>5, PiledIs
<1>7. Len(Says(h, s)) = L /\ \A k \in 1..L : Says(h, s)[k] = h.net[s[k]].says /\ s[k] \in ToSet(s)
  BY <1>1, <1>3, SaysIs
<1>8. L > 0 => L \in 1..L /\ L - 1 \in 0..MaxStack
  BY <1>2, <1>4
<1>9. L > 1 => L - 1 \in 1..L /\ L - 2 \in 0..MaxStack
  BY <1>2, <1>4
<1> QED
  BY <1>1, <1>2, <1>3, <1>4, <1>6, <1>7, <1>8, <1>9

\* A command whose last step is stack_add.
LEMMA AddFinish ==
  ASSUME NEW h, NEW s, NEW X, State(h, s, X, {}), NEW n \in X, Len(s) < MaxStack, Proper(h),
         NEW pile, NEW named, Says(h, s) = pile, NamedOf(h) = named, NEW c, h.net[n].says = c
  PROVE  Yields(Settled(stack_add(h, n)), Append(pile, c), named)
<1>1. PICK r : r = stack_add(h, n)
  OBVIOUS
<1>2. Listed(h) /\ s \in Seq(Chunk) /\ Len(s) \in Nat /\ n \in Chunk
  BY StateListed
<1>3. Len(s) + 1 < Cardinality(Cell)
  BY <1>2, CellBound
<1>4. State(r, Append(s, n), X \ {n}, {}) /\ r.net = h.net /\ r.defs = h.defs
  BY <1>1, <1>3, AddRule
<1>5. Len(Append(s, n)) \in 0..MaxStack
  <2>1. Len(Append(s, n)) = Len(s) + 1
    BY <1>2
  <2>2. PICK L : L = Len(s)
    OBVIOUS
  <2>3. L + 1 \in 0..MaxStack
    BY <1>2, <2>2, SessionAssumption
  <2> QED
    BY <2>1, <2>2, <2>3
<1>6. Says(r, Append(s, n)) = Append(pile, c)
  <2>1. \A m \in ToSet(s) : r.net[m].says = h.net[m].says
    BY <1>4
  <2>2. Says(r, Append(s, n)) = Append(Says(h, s), r.net[n].says)
    BY <1>2, <2>1, SaysPush
  <2> QED
    BY <1>4, <2>2
<1>7. NamedOf(r) = named
  BY <1>2, <1>4, NamedSame
<1>8. Proper(r)
  BY <1>4 DEF Proper
<1> QED
  BY <1>1, <1>4, <1>5, <1>6, <1>7, <1>8, FinishRule

\* What fsm_minimize returns is where the network was, and says what it said.
Minimal(m, h, s, X, N, n) ==
  /\ m.net = n /\ State(m.heap, s, X, N) /\ m.heap.defs = h.defs
  /\ \A k \in Chunk : m.heap.net[k].says = h.net[k].says

\* Minimization, in place or into a new network, leaves one network with the same content.
LEMMA MinimizedRule ==
  ASSUME NEW h, NEW s, NEW X, NEW N, State(h, s, X, N), NEW n \in X, NEW minimal
  PROVE  Minimal(Minimized(h, n, minimal), h, s, X, N, n)
<1>1. PICK m : m = Minimized(h, n, minimal)
  OBVIOUS
<1>2. CASE minimal \/ h.net[n].says # Void
  <2>1. m = [heap |-> h, net |-> n]
    BY <1>1, <1>2 DEF Minimized
  <2>2. m.heap = h /\ m.net = n
    BY <2>1
  <2> QED
    BY <1>1, <2>2 DEF Minimal
<1>3. CASE ~minimal /\ h.net[n].says = Void
  <2>0. PICK g : g = fsm_destroy(h, n)
    OBVIOUS
  <2>1. PICK r : r = Made(g, Void, NULL)
    OBVIOUS
  <2>2. /\ State(g, s, X \ {n}, N) /\ g.defs = h.defs /\ g.last = n /\ n \in Chunk
        /\ \A k \in Chunk \ {n} : g.net[k] = h.net[k]
    <3>1. Destroyed(g, h, s, X, N, n)
      BY <2>0, DestroyRule
    <3> QED
      BY <3>1 DEF Destroyed
  <2>3. n # NULL
    BY <2>2, SessionAssumption
  <2>4. malloc(g) = n /\ HasRoom(g)
    BY <2>2, <2>3 DEF malloc, HasRoom
  <2>5. Void \in Content
    BY SessionAssumption
  <2>6. Gains(r, g, s, X \ {n}, N, n) /\ r.net[n].says = Void
    BY <2>1, <2>2, <2>4, <2>5, MadeRule
  <2>7. (X \ {n}) \cup {n} = X
    OBVIOUS
  <2>8. State(r, s, X, N) /\ r.defs = h.defs /\ \A k \in Chunk \ {n} : r.net[k] = h.net[k]
    BY <2>2, <2>6, <2>7 DEF Gains
  <2>9. m = [heap |-> r, net |-> n]
    BY <1>1, <1>3, <2>0, <2>1, <2>4 DEF Minimized
  <2>10. m.heap = r /\ m.net = n
    BY <2>9
  <2> QED
    BY <1>1, <1>3, <2>6, <2>8, <2>10 DEF Minimal
<1> QED
  BY <1>2, <1>3

\* The top entry is one of the entries.
LEMMA TopEntry ==
  ASSUME NEW h, NEW s, Piled(h, s), Len(s) > 0
  PROVE  stack_find_top(h) \in Entries(h)
<1>1. PICK p : Chain(h.main, h.cell, p) /\ s = NetsOf(h.cell, p)
  BY DEF Piled
<1>2. stack_size(h) = Len(p) - 1 /\ stack_size(h) = Len(s) /\ Len(p) \in Nat
  BY <1>1, SizeIs, PiledIs, ChainIs
<1>3. PICK L : L = Len(p)
  OBVIOUS
<1>4. L > 1 /\ L - 1 \in 1..(L - 1)
  BY <1>2, <1>3
<1>5. stack_find_top(h) = p[L - 1]
  BY <1>1, <1>3, <1>4, StackIs
<1>6. Entries(h) = {p[k] : k \in 1..(L - 1)}
  BY <1>1, <1>3, EntriesIs
<1> QED
  BY <1>4, <1>5, <1>6
-----------------------------------------------------------------------------
(***************************************************************************)
(* What every command does to a stack and to names, as Desk says.          *)
(***************************************************************************)
LEMMA RegexYields ==
  ASSUME NEW h, NEW s, Rest(h, s), Len(s) < MaxStack, Room(h) > 0,
         NEW says \in Content, NEW minimal
  PROVE  Yields(Settled(stack_add(Minimized(Made(h, says, NULL), malloc(h), minimal).heap, malloc(h))),
                Append(Says(h, s), says), NamedOf(h))
<1>1. PICK n : n = malloc(h)
  OBVIOUS
<1>2. PICK g : g = Made(h, says, NULL)
  OBVIOUS
<1>3. PICK m : m = Minimized(g, n, minimal)
  OBVIOUS
<1>4. /\ State(h, s, {}, {}) /\ Proper(h) /\ Listed(h) /\ s \in Seq(Chunk) /\ HasRoom(h)
      /\ ToSet(s) \subseteq Held(s, h.defs, {}) /\ NetsIn(h.defs) \subseteq Held(s, h.defs, {})
      /\ Held(s, h.defs, {}) \subseteq Chunk
  BY RestIs, StateListed, RoomOne
<1>5. Gains(g, h, s, {}, {}, n) /\ g.net[n].says = says
  BY <1>1, <1>2, <1>4, MadeRule
<1>6. /\ State(g, s, {n}, {}) /\ n \in Chunk /\ n \notin Held(s, h.defs, {})
      /\ \A k \in Chunk \ {n} : g.net[k] = h.net[k]
      /\ g.defs = h.defs
  <2>1. {} \cup {n} = {n}
    OBVIOUS
  <2> QED
    BY <1>5, <2>1 DEF Gains
<1>7. State(m.heap, s, {n}, {}) /\ m.heap.defs = g.defs /\ \A k \in Chunk : m.heap.net[k].says = g.net[k].says
  <2>1. n \in {n}
    OBVIOUS
  <2> QED
    <3>1. Minimal(m, g, s, {n}, {}, n)
      BY <1>3, <1>6, <2>1, MinimizedRule
    <3> QED
      BY <3>1 DEF Minimal
<1>8. PICK r : r = m.heap
  OBVIOUS
<1>9. /\ r.defs = h.defs /\ r.net[n].says = says
      /\ \A k \in Held(s, h.defs, {}) : r.net[k].says = h.net[k].says
  BY <1>4, <1>5, <1>6, <1>7, <1>8
<1>10. Says(r, s) = Says(h, s)
  BY <1>4, <1>9, SaysSame
<1>11. NamedOf(r) = NamedOf(h)
  BY <1>4, <1>9, NamedSame
<1>12. Proper(r) /\ n \in {n} /\ State(r, s, {n}, {})
  BY <1>4, <1>7, <1>8, <1>9 DEF Proper
<1>13. Yields(Settled(stack_add(r, n)), Append(Says(h, s), says), NamedOf(h))
  BY <1>9, <1>10, <1>11, <1>12, AddFinish
<1> QED
  BY <1>1, <1>2, <1>3, <1>8, <1>13

\* push: a copy of the definition is on top.
LEMMA PushYields ==
  ASSUME NEW h, NEW s, Rest(h, s), Len(s) < MaxStack, Room(h) > 0, NEW name \in Defined(h)
  PROVE  Yields(Settled(stack_add(fsm_copy(h, find_defined(h, name)), malloc(h))),
                Append(Says(h, s), NamedOf(h)[name]), NamedOf(h))
<1>1. PICK n : n = malloc(h)
  OBVIOUS
<1>2. PICK k : k = find_defined(h, name)
  OBVIOUS
<1>3. PICK r : r = fsm_copy(h, k)
  OBVIOUS
<1>4. /\ State(h, s, {}, {}) /\ Proper(h) /\ Listed(h) /\ s \in Seq(Chunk) /\ HasRoom(h)
      /\ ToSet(s) \subseteq Held(s, h.defs, {}) /\ NetsIn(h.defs) \subseteq Held(s, h.defs, {})
      /\ Held(s, h.defs, {}) \subseteq Chunk
  BY RestIs, StateListed, RoomOne
<1>5. k \in Held(s, h.defs, {}) /\ NamedOf(h)[name] = h.net[k].says
  BY <1>2, <1>4, NamedIs
<1>6. Gains(r, h, s, {}, {}, n) /\ r.net[n].says = h.net[k].says
  BY <1>1, <1>3, <1>4, <1>5, CopyRule
<1>7. /\ State(r, s, {n}, {}) /\ n \in {n} /\ r.defs = h.defs
      /\ \A m \in Held(s, h.defs, {}) : r.net[m].says = h.net[m].says
  <2>1. {} \cup {n} = {n}
    OBVIOUS
  <2> QED
    BY <1>4, <1>6, <2>1 DEF Gains
<1>8. Says(r, s) = Says(h, s)
  BY <1>4, <1>7, SaysSame
<1>9. NamedOf(r) = NamedOf(h)
  BY <1>4, <1>7, NamedSame
<1>10. Proper(r)
  BY <1>4, <1>7 DEF Proper
<1>11. Yields(Settled(stack_add(r, n)), Append(Says(h, s), NamedOf(h)[name]), NamedOf(h))
  BY <1>5, <1>6, <1>7, <1>8, <1>9, <1>10, AddFinish
<1> QED
  BY <1>1, <1>2, <1>3, <1>11
\* define with an expression: the name has what the expression says.
LEMMA DefineRegexYields ==
  ASSUME NEW h, NEW s, Rest(h, s), Room(h) > 0, NEW name \in Name, NEW says \in Content, NEW minimal
  PROVE  LET m == Minimized(Made(h, says, NULL), malloc(h), minimal)
         IN  Yields(Settled(add_defined(m.heap, m.net, name)), Says(h, s),
                    IF name \in TooLong THEN NamedOf(h)
                    ELSE With(NamedOf(h), name, says))
<1>1. PICK n : n = malloc(h)
  OBVIOUS
<1>2. PICK g : g = Made(h, says, NULL)
  OBVIOUS
<1>3. PICK m : m = Minimized(g, n, minimal)
  OBVIOUS
<1>4. /\ State(h, s, {}, {}) /\ Proper(h) /\ Listed(h) /\ s \in Seq(Chunk) /\ HasRoom(h)
      /\ ToSet(s) \subseteq Held(s, h.defs, {}) /\ NetsIn(h.defs) \subseteq Held(s, h.defs, {})
      /\ Held(s, h.defs, {}) \subseteq Chunk /\ Len(s) \in 0..MaxStack
  BY RestIs, StateListed, RoomOne DEF Rest
<1>5. Gains(g, h, s, {}, {}, n) /\ g.net[n].says = says
  BY <1>1, <1>2, <1>4, MadeRule
<1>6. /\ State(g, s, {n}, {}) /\ n \in Chunk /\ n \notin Held(s, h.defs, {})
      /\ \A k \in Chunk \ {n} : g.net[k] = h.net[k]
      /\ g.defs = h.defs
  <2>1. {} \cup {n} = {n}
    OBVIOUS
  <2> QED
    BY <1>5, <2>1 DEF Gains
<1>7. /\ State(m.heap, s, {n}, {}) /\ m.net = n /\ m.heap.defs = g.defs
      /\ \A k \in Chunk : m.heap.net[k].says = g.net[k].says
  <2>1. n \in {n}
    OBVIOUS
  <2>2. Minimal(m, g, s, {n}, {}, n)
    BY <1>3, <1>6, <2>1, MinimizedRule
  <2> QED
    BY <2>2 DEF Minimal
<1>8. PICK q : q = m.heap
  OBVIOUS
<1>9. /\ q.defs = h.defs /\ q.net[n].says = says /\ State(q, s, {n}, {}) /\ n \in {n}
      /\ \A k \in Held(s, h.defs, {}) : q.net[k].says = h.net[k].says
  BY <1>4, <1>5, <1>6, <1>7, <1>8
<1>10. Says(q, s) = Says(h, s) /\ NamedOf(q) = NamedOf(h) /\ Proper(q)
  <2>1. Says(q, s) = Says(h, s)
    BY <1>4, <1>9, SaysSame
  <2>2. NamedOf(q) = NamedOf(h)
    BY <1>4, <1>9, NamedSame
  <2> QED
    BY <1>4, <1>9, <2>1, <2>2 DEF Proper
<1>11. PICK r : r = add_defined(q, n, name)
  OBVIOUS
<1>12. CASE name \in TooLong
  <2>1. r = q
    BY <1>11, <1>12 DEF add_defined
  <2>2. Yields(Settled(q), Says(h, s), NamedOf(h))
    BY <1>4, <1>9, <1>10, FinishRule
  <2> QED
    BY <1>1, <1>2, <1>3, <1>7, <1>8, <1>11, <1>12, <2>1, <2>2
<1>13. CASE name \notin TooLong
  <2>1. name \in Name \cup {Temporary}
    OBVIOUS
  <2>2. /\ State(r, s, {n} \ {n}, {}) /\ Binds(r, q, name, n)
        /\ \A k \in ToSet(s) \cup {n} : r.net[k] = q.net[k]
    <3>1. Taken(r, q, s, {n}, {}, name, n)
      BY <1>9, <1>11, <1>13, <2>1, BindRule
    <3> QED
      BY <3>1 DEF Taken
  <2>3. PICK named : named = With(NamedOf(h), name, says)
    OBVIOUS
  <2>4. Listed(q) /\ Listed(r)
    BY <1>9, <2>2, StateListed
  <2>5. NamedOf(r) = named
    BY <1>9, <1>10, <2>2, <2>3, <2>4, NamedBind
  <2>6. Says(r, s) = Says(h, s)
    <3>1. \A k \in ToSet(s) : r.net[k].says = h.net[k].says
      BY <1>4, <1>9, <2>2
    <3> QED
      BY <1>4, <3>1, SaysSame
  <2>7. Proper(r)
    <3>1. [name |-> name, net |-> n].name = name
      OBVIOUS
    <3> QED
      BY <1>10, <2>2, <3>1 DEF Proper, Binds
  <2>8. Yields(Settled(r), Says(h, s), named)
    BY <1>4, <2>2, <2>5, <2>6, <2>7, FinishRule
  <2> QED
    BY <1>1, <1>2, <1>3, <1>7, <1>8, <1>11, <1>13, <2>3, <2>8
<1> QED
  BY <1>12, <1>13

\* define without an expression: the top of the stack gets the name.
LEMMA DefineTopYields ==
  ASSUME NEW h, NEW s, Rest(h, s), Len(s) > 0, NEW name \in Name
  PROVE  LET p == Says(h, s)
         IN  Yields(Settled(add_defined(stack_pop(h), TopNet(h), name)), SubSeq(p, 1, Len(p) - 1),
                    IF name \in TooLong THEN NamedOf(h)
                    ELSE With(NamedOf(h), name, p[Len(p)]))
<1>1. PICK n : n = TopNet(h)
  OBVIOUS
<1>2. PICK q : q = stack_pop(h)
  OBVIOUS
<1>3. PICK t : t = Front(s)
  OBVIOUS
<1>4. PICK p : p = Says(h, s)
  OBVIOUS
<1>5. /\ State(h, s, {}, {}) /\ Proper(h) /\ Listed(h) /\ s \in Seq(Chunk)
      /\ Len(p) = Len(s) /\ p[Len(p)] = h.net[n].says /\ Len(s) - 1 \in 0..MaxStack
  BY <1>1, <1>4, RestIs
<1>6. /\ State(q, t, {n}, {}) /\ n \in {n} /\ q.net = h.net /\ q.defs = h.defs
      /\ Len(t) \in 0..MaxStack
  <2>1. Popped(q, h, s, {}, {}, n)
    BY <1>1, <1>2, <1>5, PopRule
  <2>2. {} \cup {n} = {n}
    OBVIOUS
  <2> QED
    BY <1>3, <1>5, <2>1, <2>2 DEF Popped
<1>7. Says(q, t) = SubSeq(p, 1, Len(p) - 1) /\ NamedOf(q) = NamedOf(h) /\ Proper(q) /\ t \in Seq(Chunk)
  <2>1. Says(h, t) = SubSeq(p, 1, Len(p) - 1)
    BY <1>3, <1>4, <1>5, SaysBelow
  <2>2. t \in Seq(Chunk)
    BY <1>6, StateListed
  <2>3. Says(q, t) = Says(h, t)
    BY <1>6, <2>2, SaysSame
  <2>4. NamedOf(q) = NamedOf(h)
    BY <1>5, <1>6, NamedSame
  <2> QED
    BY <1>5, <1>6, <2>1, <2>2, <2>3, <2>4 DEF Proper
<1>8. PICK below : below = SubSeq(p, 1, Len(p) - 1)
  OBVIOUS
<1>9. PICK r : r = add_defined(q, n, name)
  OBVIOUS
<1>10. CASE name \in TooLong
  <2>1. r = q
    BY <1>9, <1>10 DEF add_defined
  <2>2. Yields(Settled(q), below, NamedOf(h))
    BY <1>6, <1>7, <1>8, FinishRule
  <2> QED
    BY <1>1, <1>2, <1>4, <1>8, <1>9, <1>10, <2>1, <2>2
<1>11. CASE name \notin TooLong
  <2>1. name \in Name \cup {Temporary}
    OBVIOUS
  <2>2. /\ State(r, t, {n} \ {n}, {}) /\ Binds(r, q, name, n)
        /\ \A k \in ToSet(t) \cup {n} : r.net[k] = q.net[k]
    <3>1. Taken(r, q, t, {n}, {}, name, n)
      BY <1>6, <1>9, <1>11, <2>1, BindRule
    <3> QED
      BY <3>1 DEF Taken
  <2>3. PICK named : named = With(NamedOf(h), name, p[Len(p)])
    OBVIOUS
  <2>4. Listed(q) /\ Listed(r)
    BY <1>6, <2>2, StateListed
  <2>5. NamedOf(r) = named
    BY <1>5, <1>6, <1>7, <2>2, <2>3, <2>4, NamedBind
  <2>6. Says(r, t) = below
    <3>1. \A k \in ToSet(t) : r.net[k].says = q.net[k].says
      BY <2>2
    <3>2. Says(r, t) = Says(q, t)
      BY <1>7, <3>1, SaysSame
    <3> QED
      BY <1>7, <1>8, <3>2
  <2>7. Proper(r)
    <3>1. [name |-> name, net |-> n].name = name
      OBVIOUS
    <3> QED
      BY <1>7, <2>2, <3>1 DEF Proper, Binds
  <2>8. Yields(Settled(r), below, named)
    BY <1>6, <2>2, <2>5, <2>6, <2>7, FinishRule
  <2> QED
    BY <1>1, <1>2, <1>4, <1>8, <1>9, <1>11, <2>3, <2>8
<1> QED
  BY <1>10, <1>11

\* undefine: the name is gone and the stack as it was.
LEMMA UndefineYields ==
  ASSUME NEW h, NEW s, Rest(h, s), NEW name
  PROVE  Yields(Settled(remove_defined(h, name)), Says(h, s),
                Without(NamedOf(h), name))
<1>1. PICK r : r = remove_defined(h, name)
  OBVIOUS
<1>2. State(h, s, {}, {}) /\ Proper(h) /\ Listed(h) /\ s \in Seq(Chunk) /\ Len(s) \in 0..MaxStack
  BY RestIs DEF Rest
<1>3. /\ State(r, s, {}, {}) /\ Unbinds(r, h, name)
      /\ \A k \in ToSet(s) \cup {} : r.net[k] = h.net[k]
  <2>1. Dropped(r, h, s, {}, {}, name)
    BY <1>1, <1>2, UnbindRule
  <2> QED
    BY <2>1 DEF Dropped
<1>4. Listed(r)
  BY <1>3, StateListed
<1>5. NamedOf(r) = Without(NamedOf(h), name)
  BY <1>2, <1>3, <1>4, NamedUnbind
<1>6. Says(r, s) = Says(h, s)
  <2>1. \A k \in ToSet(s) : r.net[k].says = h.net[k].says
    BY <1>3
  <2> QED
    BY <1>2, <2>1, SaysSame
<1>7. Proper(r)
  BY <1>2, <1>3 DEF Proper, Unbinds
<1> QED
  BY <1>1, <1>2, <1>3, <1>5, <1>6, <1>7, FinishRule
\* What a command finds when it has taken the top network n off the stack.
Off(q, h, s, X, N, n) ==
  /\ Popped(q, h, s, X, N, n)
  /\ Front(s) \in Seq(Chunk) /\ Len(Front(s)) \in Nat /\ Len(Front(s)) = Len(s) - 1
  /\ Says(q, Front(s)) = SubSeq(Says(h, s), 1, Len(Says(h, s)) - 1)
  /\ Says(h, s)[Len(Says(h, s))] = h.net[n].says /\ Len(Says(h, s)) = Len(s)
  /\ NamedOf(q) = NamedOf(h) /\ (Proper(h) => Proper(q))

\* What stack_pop leaves to say and hands over.
LEMMA OffRule ==
  ASSUME NEW h, NEW s, NEW X, NEW N, State(h, s, X, N), Len(s) > 0
  PROVE  Off(stack_pop(h), h, s, X, N, TopNet(h))
<1>1. PICK q : q = stack_pop(h)
  OBVIOUS
<1>2. PICK n : n = TopNet(h)
  OBVIOUS
<1>3. PICK p : p = Says(h, s)
  OBVIOUS
<1>4. PICK t : t = Front(s)
  OBVIOUS
<1>5. Popped(q, h, s, X, N, n)
  BY <1>1, <1>2, PopRule
<1>6. /\ State(q, t, X \cup {n}, N) /\ q.net = h.net /\ q.defs = h.defs
      /\ n = s[Len(s)] /\ Len(t) = Len(s) - 1
  BY <1>4, <1>5 DEF Popped
<1>7. Listed(h) /\ s \in Seq(Chunk) /\ t \in Seq(Chunk) /\ Len(t) \in Nat /\ Len(s) \in Nat
  BY <1>6, StateListed
<1>8. Len(p) = Len(s) /\ p[Len(s)] = h.net[n].says
  <2>1. Len(s) \in 1..Len(s)
    BY <1>7
  <2> QED
    BY <1>3, <1>6, <1>7, <2>1, SaysIs
<1>9. Says(q, t) = SubSeq(p, 1, Len(p) - 1)
  <2>1. Says(h, t) = SubSeq(p, 1, Len(p) - 1)
    BY <1>3, <1>4, <1>7, <1>8, SaysBelow
  <2>2. Says(q, t) = Says(h, t)
    BY <1>6, <1>7, SaysSame
  <2> QED
    BY <2>1, <2>2
<1>10. NamedOf(q) = NamedOf(h)
  BY <1>6, <1>7, NamedSame
<1>11. Proper(h) => Proper(q)
  BY <1>6 DEF Proper
<1> QED
  BY <1>1, <1>2, <1>3, <1>4, <1>5, <1>6, <1>7, <1>8, <1>9, <1>10, <1>11 DEF Off

\* pop stack: the top is destroyed.
LEMMA PopYields ==
  ASSUME NEW h, NEW s, Rest(h, s), Len(s) > 0
  PROVE  LET p == Says(h, s)
         IN  Yields(Settled(fsm_destroy(stack_pop(h), TopNet(h))), SubSeq(p, 1, Len(p) - 1), NamedOf(h))
<1>1. PICK n : n = TopNet(h)
  OBVIOUS
<1>2. PICK q : q = stack_pop(h)
  OBVIOUS
<1>3. PICK t : t = Front(s)
  OBVIOUS
<1>4. PICK below : below = SubSeq(Says(h, s), 1, Len(Says(h, s)) - 1)
  OBVIOUS
<1>5. State(h, s, {}, {}) /\ Proper(h) /\ Len(s) - 1 \in 0..MaxStack
  BY RestIs
<1>6. Off(q, h, s, {}, {}, n)
  BY <1>1, <1>2, <1>5, OffRule
<1>7. /\ State(q, t, {n}, {}) /\ n \in {n} /\ t \in Seq(Chunk) /\ Len(t) \in 0..MaxStack
      /\ Says(q, t) = below /\ NamedOf(q) = NamedOf(h) /\ Proper(q)
  <2>1. {} \cup {n} = {n}
    OBVIOUS
  <2> QED
    BY <1>3, <1>4, <1>5, <1>6, <2>1 DEF Off, Popped
<1>8. PICK r : r = fsm_destroy(q, n)
  OBVIOUS
<1>9. Destroyed(r, q, t, {n}, {}, n)
  BY <1>7, <1>8, DestroyRule
<1>10. /\ State(r, t, {n} \ {n}, {}) /\ r.defs = q.defs /\ Listed(q)
       /\ \A k \in ToSet(t) : r.net[k].says = q.net[k].says
       /\ \A k \in NetsIn(q.defs) : r.net[k].says = q.net[k].says
  <2>1. /\ Listed(q) /\ ToSet(t) \subseteq Chunk
        /\ NetsIn(q.defs) \subseteq Held(t, q.defs, {n}) /\ Held(t, q.defs, {n}) \subseteq Chunk
    BY <1>7, StateListed
  <2> QED
    BY <1>9, <2>1 DEF Destroyed, Held
<1>11. Says(r, t) = below
  BY <1>7, <1>10, SaysSame
<1>12. NamedOf(r) = NamedOf(h)
  BY <1>7, <1>10, NamedSame
<1>13. Proper(r)
  BY <1>7, <1>10 DEF Proper
<1>14. Yields(Settled(r), below, NamedOf(h))
  BY <1>7, <1>10, <1>11, <1>12, <1>13, FinishRule
<1> QED
  BY <1>1, <1>2, <1>4, <1>8, <1>14

\* clear stack: nothing is left on it.
LEMMA ClearYields ==
  ASSUME NEW h, NEW s, Rest(h, s)
  PROVE  Yields(Settled(stack_clear(h)), <<>>, NamedOf(h))
<1>1. PICK r : r = stack_clear(h)
  OBVIOUS
<1>2. State(h, s, {}, {}) /\ Proper(h) /\ Listed(h)
  BY RestIs
<1>3. /\ State(r, <<>>, {}, {}) /\ r.defs = h.defs
      /\ \A n \in NetsIn(h.defs) \cup {} : r.net[n] = h.net[n]
  BY <1>1, <1>2, ClearRule
<1>4. NamedOf(r) = NamedOf(h)
  BY <1>2, <1>3, NamedSame
<1>5. Says(r, <<>>) = <<>> /\ Len(<<>>) \in 0..MaxStack
  BY SessionAssumption DEF Says
<1>6. Proper(r)
  BY <1>2, <1>3 DEF Proper
<1> QED
  BY <1>1, <1>3, <1>4, <1>5, <1>6, FinishRule

\* rotate stack: the ends are swapped.
LEMMA RotateYields ==
  ASSUME NEW h, NEW s, Rest(h, s), Len(s) > 0
  PROVE  LET p == Says(h, s)
         IN  Yields(Settled(stack_rotate(h)), [p EXCEPT ![1] = p[Len(p)], ![Len(p)] = p[1]], NamedOf(h))
<1>1. PICK r : r = stack_rotate(h)
  OBVIOUS
<1>2. PICK t : t = [s EXCEPT ![1] = s[Len(s)], ![Len(s)] = s[1]]
  OBVIOUS
<1>3. PICK p : p = Says(h, s)
  OBVIOUS
<1>4. /\ State(h, s, {}, {}) /\ Proper(h) /\ Listed(h) /\ s \in Seq(Chunk) /\ Len(s) \in 0..MaxStack
      /\ Len(p) = Len(s)
  BY <1>3, RestIs DEF Rest
<1>5. State(r, t, {}, {}) /\ r.net = h.net /\ r.defs = h.defs
  BY <1>1, <1>2, <1>4, RotateRule
<1>6. PICK u : u = [p EXCEPT ![1] = p[Len(p)], ![Len(p)] = p[1]]
  OBVIOUS
<1>7. Says(h, t) = u
  BY <1>2, <1>3, <1>4, <1>6, SaysTurn
<1>8. t \in Seq(Chunk) /\ Len(t) \in 0..MaxStack
  <2>1. t \in Seq(Chunk)
    BY <1>5, StateListed
  <2>2. Len(t) = Len(s)
    BY <1>2, <1>4
  <2> QED
    BY <1>4, <2>1, <2>2
<1>9. Says(r, t) = u
  BY <1>5, <1>7, <1>8, SaysSame
<1>10. NamedOf(r) = NamedOf(h)
  BY <1>4, <1>5, NamedSame
<1>11. Proper(r)
  BY <1>4, <1>5 DEF Proper
<1>12. Yields(Settled(r), u, NamedOf(h))
  BY <1>5, <1>8, <1>9, <1>10, <1>11, FinishRule
<1> QED
  BY <1>1, <1>3, <1>6, <1>12

\* A command that changes the network on top.
LEMMA UnaryYields ==
  ASSUME NEW h, NEW s, Rest(h, s), Len(s) > 0, NEW says \in Content
  PROVE  LET p == Says(h, s)
         IN  Yields(Settled(stack_add(Saying(stack_pop(h), TopNet(h), says), TopNet(h))),
                    Append(SubSeq(p, 1, Len(p) - 1), says), NamedOf(h))
<1>1. PICK n : n = TopNet(h)
  OBVIOUS
<1>2. PICK q : q = stack_pop(h)
  OBVIOUS
<1>3. PICK t : t = Front(s)
  OBVIOUS
<1>4. PICK below : below = SubSeq(Says(h, s), 1, Len(Says(h, s)) - 1)
  OBVIOUS
<1>5. State(h, s, {}, {}) /\ Proper(h) /\ Len(s) \in Nat /\ Len(s) <= MaxStack
  BY RestIs
<1>6. Off(q, h, s, {}, {}, n)
  BY <1>1, <1>2, <1>5, OffRule
<1>7. /\ State(q, t, {n}, {}) /\ n \in {n} /\ t \in Seq(Chunk) /\ Len(t) < MaxStack
      /\ Says(q, t) = below /\ NamedOf(q) = NamedOf(h) /\ Proper(q)
  <2>1. {} \cup {n} = {n}
    OBVIOUS
  <2>2. Len(t) = Len(s) - 1 /\ Len(t) \in Nat
    BY <1>3, <1>6 DEF Off
  <2>3. Len(t) < MaxStack
    <3>1. PICK a, b : a = Len(t) /\ b = Len(s)
      OBVIOUS
    <3> QED
      BY <1>5, <2>2, <3>1, SessionAssumption
  <2> QED
    BY <1>3, <1>4, <1>5, <1>6, <2>1, <2>3 DEF Off, Popped
<1>8. PICK r : r = Saying(q, n, says)
  OBVIOUS
<1>9. Said(r, q, t, {n}, {}, n, says)
  BY <1>7, <1>8, SayRule
<1>10. /\ State(r, t, {n}, {}) /\ r.defs = q.defs /\ Listed(q) /\ r.net[n].says = says
       /\ \A k \in ToSet(t) : r.net[k].says = q.net[k].says
       /\ \A k \in NetsIn(q.defs) : r.net[k].says = q.net[k].says
  <2>1. /\ Listed(q) /\ ToSet(t) \subseteq Chunk
        /\ NetsIn(q.defs) \subseteq Held(t, q.defs, {n}) /\ Held(t, q.defs, {n}) \subseteq Chunk
    BY <1>7, StateListed
  <2> QED
    BY <1>9, <2>1 DEF Said
<1>11. Says(r, t) = below
  BY <1>7, <1>10, SaysSame
<1>12. NamedOf(r) = NamedOf(h)
  BY <1>7, <1>10, NamedSame
<1>13. Proper(r)
  BY <1>7, <1>10 DEF Proper
<1>14. Yields(Settled(stack_add(r, n)), Append(below, says), NamedOf(h))
  BY <1>7, <1>10, <1>11, <1>12, <1>13, AddFinish
<1> QED
  BY <1>1, <1>2, <1>4, <1>8, <1>14
\* reverse: another network is made while the top is still there, which is then destroyed.
LEMMA ReverseYields ==
  ASSUME NEW h, NEW s, Rest(h, s), Len(s) > 0, Room(h) > 0, NEW says \in Content
  PROVE  LET p == Says(h, s)
             off == stack_pop(h)
         IN  Yields(Settled(stack_add(fsm_destroy(Made(off, says, NULL), TopNet(h)), malloc(off))),
                    Append(SubSeq(p, 1, Len(p) - 1), says), NamedOf(h))
<1>1. PICK n : n = TopNet(h)
  OBVIOUS
<1>2. PICK q : q = stack_pop(h)
  OBVIOUS
<1>3. PICK t : t = Front(s)
  OBVIOUS
<1>4. PICK below : below = SubSeq(Says(h, s), 1, Len(Says(h, s)) - 1)
  OBVIOUS
<1>5. State(h, s, {}, {}) /\ Proper(h) /\ Len(s) \in Nat /\ Len(s) <= MaxStack
  BY RestIs
<1>6. Off(q, h, s, {}, {}, n)
  BY <1>1, <1>2, <1>5, OffRule
<1>7. /\ State(q, t, {n}, {}) /\ t \in Seq(Chunk) /\ Len(t) < MaxStack /\ q.net = h.net
      /\ Says(q, t) = below /\ NamedOf(q) = NamedOf(h) /\ Proper(q)
  <2>1. {} \cup {n} = {n}
    OBVIOUS
  <2>2. Len(t) = Len(s) - 1 /\ Len(t) \in Nat
    BY <1>3, <1>6 DEF Off
  <2>3. Len(t) < MaxStack
    <3>1. PICK a, b : a = Len(t) /\ b = Len(s)
      OBVIOUS
    <3> QED
      BY <1>5, <2>2, <3>1, SessionAssumption
  <2> QED
    BY <1>3, <1>4, <1>5, <1>6, <2>1, <2>3 DEF Off, Popped
<1>8. HasRoom(q)
  <2>1. HasRoom(h)
    BY RoomOne
  <2> QED
    BY <1>7, <2>1, RestIs DEF HasRoom
<1>9. PICK m : m = malloc(q)
  OBVIOUS
<1>10. PICK f : f = Made(q, says, NULL)
  OBVIOUS
<1>11. Gains(f, q, t, {n}, {}, m) /\ f.net[m].says = says
  BY <1>7, <1>8, <1>9, <1>10, MadeRule
<1>12. /\ State(f, t, {n} \cup {m}, {}) /\ n \in {n} \cup {m} /\ m # n /\ m \in Chunk
       /\ m \notin Held(t, q.defs, {n}) /\ f.defs = q.defs
       /\ \A k \in Chunk \ {m} : f.net[k] = q.net[k]
  BY <1>11 DEF Gains, Held
<1>13. PICK r : r = fsm_destroy(f, n)
  OBVIOUS
<1>14. Destroyed(r, f, t, {n} \cup {m}, {}, n)
  BY <1>12, <1>13, DestroyRule
<1>15. /\ State(r, t, {m}, {}) /\ m \in {m} /\ r.defs = q.defs /\ r.net[m].says = says
       /\ \A k \in Chunk \ {n, m} : r.net[k] = q.net[k]
  <2>1. ({n} \cup {m}) \ {n} = {m}
    BY <1>12
  <2> QED
    BY <1>11, <1>12, <1>14, <2>1 DEF Destroyed
<1>16. /\ Listed(q)
       /\ \A k \in ToSet(t) : r.net[k].says = q.net[k].says
       /\ \A k \in NetsIn(q.defs) : r.net[k].says = q.net[k].says
  <2>1. /\ Listed(q) /\ ToSet(t) \subseteq Held(t, q.defs, {n})
        /\ NetsIn(q.defs) \subseteq Held(t, q.defs, {n}) /\ Held(t, q.defs, {n}) \subseteq Chunk
    BY <1>7, StateListed DEF Held
  <2>2. n \notin ToSet(t) /\ n \notin NetsIn(q.defs)
    BY <1>7 DEF State, Apart
  <2> QED
    BY <1>12, <1>15, <2>1, <2>2
<1>17. Says(r, t) = below
  BY <1>7, <1>16, SaysSame
<1>18. NamedOf(r) = NamedOf(h)
  BY <1>7, <1>15, <1>16, NamedSame
<1>19. Proper(r)
  BY <1>7, <1>15 DEF Proper
<1>20. Yields(Settled(stack_add(r, m)), Append(below, says), NamedOf(h))
  BY <1>7, <1>15, <1>17, <1>18, <1>19, AddFinish
<1> QED
  BY <1>1, <1>2, <1>4, <1>9, <1>10, <1>13, <1>20
\* compact sigma, sort net: the top is renumbered and its handles made anew.
LEMMA ResortYields ==
  ASSUME NEW h, NEW s, Rest(h, s), Len(s) > 0
  PROVE  Yields(Settled(stack_add(stack_pop(Rewritten(h, TopNet(h))), TopNet(h))), Says(h, s), NamedOf(h))
<1>1. PICK n : n = TopNet(h)
  OBVIOUS
<1>2. PICK w : w = Rewritten(h, n)
  OBVIOUS
<1>3. PICK q : q = stack_pop(w)
  OBVIOUS
<1>4. PICK t, p, below : t = Front(s) /\ p = Says(h, s) /\ below = SubSeq(p, 1, Len(p) - 1)
  OBVIOUS
<1>5. /\ State(h, s, {}, {}) /\ Proper(h) /\ Listed(h) /\ Len(s) \in Nat /\ Len(s) <= MaxStack
      /\ n = s[Len(s)] /\ Len(p) = Len(s) /\ s \in Seq(Chunk)
  BY <1>1, <1>4, RestIs
<1>6. State(w, s, {}, {n}) /\ w.net = h.net /\ w.defs = h.defs
  <2>1. {} \cup {n} = {n}
    OBVIOUS
  <2>2. State(w, s, {}, {} \cup {n}) /\ w.net = h.net /\ w.defs = h.defs
    BY <1>2, <1>5, RewriteRule
  <2> QED
    BY <2>1, <2>2
<1>7. Says(w, s) = p /\ NamedOf(w) = NamedOf(h) /\ Proper(w)
  <2>1. Says(w, s) = p
    BY <1>4, <1>5, <1>6, SaysSame
  <2>2. NamedOf(w) = NamedOf(h)
    BY <1>5, <1>6, NamedSame
  <2> QED
    BY <1>5, <1>6, <2>1, <2>2 DEF Proper
<1>8. TopNet(w) = n
  <2>1. Piled(w, s)
    BY <1>6 DEF State
  <2> QED
    BY <1>5, <2>1, PiledIs
<1>9. Off(q, w, s, {}, {n}, n)
  BY <1>3, <1>6, <1>8, OffRule
<1>10. /\ State(q, t, {n}, {n}) /\ n \in {n} /\ n \notin ToSet(t) /\ Len(t) = Len(s) - 1 /\ Len(t) \in Nat
       /\ Says(q, t) = below /\ NamedOf(q) = NamedOf(h) /\ Proper(q)
       /\ p[Len(p)] = h.net[n].says /\ q.net = h.net
  <2>1. {} \cup {n} = {n}
    OBVIOUS
  <2> QED
    BY <1>4, <1>6, <1>7, <1>9, <2>1 DEF Off, Popped
<1>11. State(q, t, {n}, {})
  <2>1. Piled(q, t) /\ Fits(q, {} \cup {n})
    <3>1. {} \cup {n} = {n}
      OBVIOUS
    <3> QED
      BY <1>10, <3>1 DEF State
  <2>2. Fits(q, {})
    BY <1>10, <2>1, FitsDrop
  <2> QED
    BY <1>10, <2>2 DEF State
<1>12. Len(t) < MaxStack
  <2>1. PICK a, b : a = Len(t) /\ b = Len(s)
    OBVIOUS
  <2> QED
    BY <1>5, <1>10, <2>1, SessionAssumption
<1>13. Yields(Settled(stack_add(q, n)), Append(below, p[Len(p)]), NamedOf(h))
  BY <1>10, <1>11, <1>12, AddFinish
<1>14. Append(below, p[Len(p)]) = p
  <2>1. PICK Z : Z = {h.net[s[k]].says : k \in 1..Len(s)}
    OBVIOUS
  <2>2. \A k \in 1..Len(s) : h.net[s[k]].says \in Z
    BY <2>1
  <2>3. p \in Seq(Z)
    BY <1>4, <1>5, <2>2, SaysIs
  <2>4. PICK L : L = Len(p)
    OBVIOUS
  <2>5. L \in Nat /\ L > 0
    BY <1>5, <2>4
  <2>6. below = SubSeq(p, 1, L - 1)
    BY <1>4, <2>4
  <2>7. /\ below \in Seq(Z) /\ Len(below) = L - 1 /\ \A k \in 1..(L - 1) : below[k] = p[k]
        /\ p[L] \in Z
    BY <2>3, <2>4, <2>5, <2>6
  <2>8. PICK e : e = Append(below, p[L])
    OBVIOUS
  <2>9. e \in Seq(Z) /\ Len(e) = L /\ \A k \in 1..L : e[k] = p[k]
    BY <2>5, <2>7, <2>8
  <2> QED
    BY <2>3, <2>4, <2>8, <2>9, SameSeq
<1> QED
  BY <1>1, <1>2, <1>3, <1>4, <1>13, <1>14

\* The bottom of the bottom.
LEMMA BelowTwo ==
  ASSUME NEW Z, NEW p \in Seq(Z), Len(p) > 1
  PROVE  LET b == SubSeq(p, 1, Len(p) - 1)
         IN  SubSeq(b, 1, Len(b) - 1) = SubSeq(p, 1, Len(p) - 2) /\ b[Len(b)] = p[Len(p) - 1]
<1>1. PICK L : L = Len(p)
  OBVIOUS
<1>2. PICK b : b = SubSeq(p, 1, L - 1)
  OBVIOUS
<1>3. L \in Nat /\ L > 1
  BY <1>1
<1>4. b \in Seq(Z) /\ Len(b) = L - 1 /\ \A k \in 1..(L - 1) : b[k] = p[k]
  BY <1>1, <1>2, <1>3
<1>5. PICK c : c = SubSeq(b, 1, L - 2)
  OBVIOUS
<1>6. c \in Seq(Z) /\ Len(c) = L - 2 /\ \A k \in 1..(L - 2) : c[k] = b[k]
  BY <1>3, <1>4, <1>5
<1>7. PICK d : d = SubSeq(p, 1, L - 2)
  OBVIOUS
<1>8. d \in Seq(Z) /\ Len(d) = L - 2 /\ \A k \in 1..(L - 2) : d[k] = p[k]
  BY <1>1, <1>3, <1>7
<1>9. \A k \in 1..(L - 2) : k \in 1..(L - 1)
  BY <1>3
<1>10. c = d
  <2>1. \A k \in 1..Len(c) : c[k] = d[k]
    BY <1>4, <1>6, <1>8, <1>9
  <2>2. Len(c) = Len(d)
    BY <1>6, <1>8
  <2> QED
    BY <1>6, <1>8, <2>1, <2>2, SameSeq
<1>11. (L - 1) - 1 = L - 2 /\ L - 1 \in 1..(L - 1)
  BY <1>3
<1> QED
  BY <1>1, <1>2, <1>4, <1>5, <1>7, <1>10, <1>11

\* A command that replaces the two networks on top by one.
LEMMA PairYields ==
  ASSUME NEW h, NEW s, Rest(h, s), Len(s) > 1, NEW says \in Content
  PROVE  LET p == Says(h, s)
             rest == stack_pop(h)
             two == TopNet(rest)
         IN  /\ Yields(Settled(stack_add(Combined(stack_pop(rest), TopNet(h), two, says), two)),
                       Append(SubSeq(p, 1, Len(p) - 2), says), NamedOf(h))
             /\ h.net[TopNet(h)].says = p[Len(p)] /\ h.net[two].says = p[Len(p) - 1]
             /\ p[Len(p)] \in Content /\ p[Len(p) - 1] \in Content
<1>1. PICK n : n = TopNet(h)
  OBVIOUS
<1>2. PICK q : q = stack_pop(h)
  OBVIOUS
<1>3. PICK m : m = TopNet(q)
  OBVIOUS
<1>4. PICK u : u = stack_pop(q)
  OBVIOUS
<1>5. PICK p, below, least : /\ p = Says(h, s) /\ below = SubSeq(p, 1, Len(p) - 1)
                             /\ least = SubSeq(p, 1, Len(p) - 2)
  OBVIOUS
<1>6. PICK t, v : t = Front(s) /\ v = Front(t)
  OBVIOUS
<1>7. /\ State(h, s, {}, {}) /\ Proper(h) /\ Listed(h) /\ Len(s) \in Nat /\ Len(s) <= MaxStack
      /\ Len(p) = Len(s) /\ s \in Seq(Chunk) /\ Len(s) > 0
  BY <1>5, RestIs
<1>8. /\ p \in Seq(Content) /\ p[Len(p)] \in Content /\ p[Len(p) - 1] \in Content
      /\ SubSeq(below, 1, Len(below) - 1) = least /\ below[Len(below)] = p[Len(p) - 1]
  <2>1. \A k \in 1..Len(s) : s[k] \in ToSet(s)
    BY <1>7 DEF ToSet
  <2>2. \A k \in 1..Len(s) : h.net[s[k]].says \in Content
    BY <1>7, <2>1, StateListed
  <2>3. p \in Seq(Content)
    BY <1>5, <1>7, <2>2, SaysIs
  <2>4. PICK L : L = Len(p)
    OBVIOUS
  <2>5. L \in Nat /\ L > 1
    BY <1>7, <2>4
  <2>6. p[L] \in Content /\ p[L - 1] \in Content
    BY <2>3, <2>4, <2>5
  <2>7. Len(p) > 1
    BY <2>4, <2>5
  <2>8. SubSeq(below, 1, Len(below) - 1) = least /\ below[Len(below)] = p[Len(p) - 1]
    BY <1>5, <2>3, <2>7, BelowTwo
  <2> QED
    BY <2>3, <2>4, <2>6, <2>8
<1>9. Off(q, h, s, {}, {}, n)
  BY <1>1, <1>2, <1>7, OffRule
<1>10. /\ State(q, t, {n}, {}) /\ Says(q, t) = below /\ NamedOf(q) = NamedOf(h) /\ Proper(q)
       /\ Len(t) = Len(s) - 1 /\ Len(t) \in Nat /\ q.net = h.net /\ p[Len(p)] = h.net[n].says
  <2>1. {} \cup {n} = {n}
    OBVIOUS
  <2> QED
    BY <1>5, <1>6, <1>7, <1>9, <2>1 DEF Off, Popped
<1>11. Len(t) > 0
  <2>1. PICK a, b : a = Len(t) /\ b = Len(s)
    OBVIOUS
  <2> QED
    BY <1>7, <1>10, <2>1
<1>12. Off(u, q, t, {n}, {}, m)
  BY <1>3, <1>4, <1>10, <1>11, OffRule
<1>13. /\ State(u, v, {n, m}, {}) /\ Says(u, v) = least /\ NamedOf(u) = NamedOf(h) /\ Proper(u)
       /\ Len(v) = Len(t) - 1 /\ Len(v) \in Nat /\ h.net[m].says = p[Len(p) - 1]
       /\ v \in Seq(Chunk)
  <2>1. {n} \cup {m} = {n, m}
    OBVIOUS
  <2>2. below[Len(below)] = q.net[m].says
    BY <1>10, <1>12 DEF Off
  <2> QED
    BY <1>6, <1>8, <1>10, <1>12, <2>1, <2>2 DEF Off, Popped
<1>14. Len(v) < MaxStack
  <2>1. PICK a, b, c : a = Len(t) /\ b = Len(s) /\ c = Len(v)
    OBVIOUS
  <2> QED
    BY <1>7, <1>10, <1>13, <2>1, SessionAssumption
<1>15. n # m
  <2>1. m \in ToSet(t) /\ n \notin ToSet(t)
    BY <1>6, <1>9, <1>12 DEF Off, Popped
  <2> QED
    BY <2>1
<1>16. PICK f : f = fsm_destroy(u, n)
  OBVIOUS
<1>17. PICK g : g = fsm_destroy(f, m)
  OBVIOUS
<1>18. PICK r : r = Made(g, says, NULL)
  OBVIOUS
<1>19. Destroyed(f, u, v, {n, m}, {}, n)
  <2>1. n \in {n, m}
    OBVIOUS
  <2> QED
    BY <1>13, <1>16, <2>1, DestroyRule
<1>20. State(f, v, {m}, {}) /\ m \in {m} /\ f.defs = u.defs /\ \A k \in Chunk \ {n} : f.net[k] = u.net[k]
  <2>1. {n, m} \ {n} = {m}
    BY <1>15
  <2> QED
    BY <1>19, <2>1 DEF Destroyed
<1>21. Destroyed(g, f, v, {m}, {}, m)
  BY <1>17, <1>20, DestroyRule
<1>22. /\ State(g, v, {}, {}) /\ g.defs = u.defs /\ g.last = m /\ m \in Chunk
       /\ \A k \in Chunk \ {n, m} : g.net[k] = u.net[k]
  <2>1. {m} \ {m} = {}
    OBVIOUS
  <2> QED
    BY <1>20, <1>21, <2>1 DEF Destroyed
<1>23. malloc(g) = m /\ HasRoom(g)
  <2>1. m # NULL
    BY <1>22, SessionAssumption
  <2> QED
    BY <1>22, <2>1 DEF malloc, HasRoom
<1>24. Gains(r, g, v, {}, {}, m) /\ r.net[m].says = says
  BY <1>18, <1>22, <1>23, MadeRule
<1>25. /\ State(r, v, {m}, {}) /\ r.defs = u.defs /\ Listed(u)
       /\ \A k \in ToSet(v) \cup NetsIn(u.defs) : r.net[k].says = u.net[k].says
  <2>1. {} \cup {m} = {m}
    OBVIOUS
  <2>2. /\ Listed(u) /\ ToSet(v) \subseteq Chunk
        /\ NetsIn(u.defs) \subseteq Held(v, u.defs, {n, m}) /\ Held(v, u.defs, {n, m}) \subseteq Chunk
    BY <1>13, StateListed
  <2>3. ToSet(v) \cap {n, m} = {} /\ NetsIn(u.defs) \cap {n, m} = {}
    BY <1>13 DEF State, Apart
  <2> QED
    BY <1>22, <1>24, <2>1, <2>2, <2>3 DEF Gains
<1>26. Says(r, v) = least
  <2>1. \A k \in ToSet(v) : r.net[k].says = u.net[k].says
    BY <1>25
  <2> QED
    BY <1>13, <2>1, SaysSame
<1>27. NamedOf(r) = NamedOf(h)
  <2>1. \A k \in NetsIn(u.defs) : r.net[k].says = u.net[k].says
    BY <1>25
  <2> QED
    BY <1>13, <1>25, <2>1, NamedSame
<1>28. Proper(r)
  BY <1>13, <1>25 DEF Proper
<1>29. Yields(Settled(stack_add(r, m)), Append(least, says), NamedOf(h))
  BY <1>14, <1>20, <1>24, <1>25, <1>26, <1>27, <1>28, AddFinish
<1>30. r = Combined(u, n, m, says)
  BY <1>16, <1>17, <1>18 DEF Combined
<1> QED
  BY <1>1, <1>2, <1>3, <1>4, <1>5, <1>8, <1>10, <1>13, <1>29, <1>30
\* substitute defined: a new network takes the place of the top.
LEMMA SubstituteYields ==
  ASSUME NEW h, NEW s, Rest(h, s), Len(s) > 0, Room(h) > 0, NEW name \in Defined(h), NEW says \in Content
  PROVE  LET p == Says(h, s)
             top == TopNet(h)
             sub == find_defined(h, name)
             merged == Rewritten(Rewritten(h, top), sub)
         IN  Yields(Settled(stack_add(stack_pop(Made(merged, says, NULL)), malloc(merged))),
                    Append(SubSeq(p, 1, Len(p) - 1), says), NamedOf(h))
<1>1. PICK n : n = TopNet(h)
  OBVIOUS
<1>2. PICK d : d = find_defined(h, name)
  OBVIOUS
<1>3. PICK w : w = Rewritten(h, n)
  OBVIOUS
<1>4. PICK x : x = Rewritten(w, d)
  OBVIOUS
<1>5. PICK m : m = malloc(x)
  OBVIOUS
<1>6. PICK g : g = Made(x, says, NULL)
  OBVIOUS
<1>7. PICK q : q = stack_pop(g)
  OBVIOUS
<1>8. PICK t, p, below : t = Front(s) /\ p = Says(h, s) /\ below = SubSeq(p, 1, Len(p) - 1)
  OBVIOUS
<1>9. /\ State(h, s, {}, {}) /\ Proper(h) /\ Listed(h) /\ Len(s) \in Nat /\ Len(s) <= MaxStack
      /\ n = s[Len(s)] /\ Len(p) = Len(s) /\ s \in Seq(Chunk)
  BY <1>1, <1>8, RestIs
<1>10. State(w, s, {}, {n}) /\ w.net = h.net /\ w.defs = h.defs
  <2>1. {} \cup {n} = {n}
    OBVIOUS
  <2>2. State(w, s, {}, {} \cup {n}) /\ w.net = h.net /\ w.defs = h.defs
    BY <1>3, <1>9, RewriteRule
  <2> QED
    BY <2>1, <2>2
<1>11. State(x, s, {}, {n}) /\ x.net = h.net /\ x.defs = h.defs
  <2>1. d \in NetsIn(h.defs)
    BY <1>2, <1>9, NamedIs
  <2>2. d \notin ToSet(s)
    BY <1>9, <2>1 DEF State, Apart
  <2>3. /\ d \notin ToSet(s) => State(x, s, {}, {n})
        /\ x.net = w.net /\ x.defs = w.defs
    BY <1>4, <1>10, RewriteRule
  <2> QED
    BY <1>10, <2>2, <2>3
<1>12. HasRoom(x)
  <2>1. Room(x) > 0
    BY <1>11 DEF Room
  <2> QED
    BY <2>1, RoomOne
<1>13. Gains(g, x, s, {}, {n}, m) /\ g.net[m].says = says
  BY <1>5, <1>6, <1>11, <1>12, MadeRule
<1>14. /\ State(g, s, {m}, {n}) /\ m \in Chunk /\ m \notin Held(s, h.defs, {}) /\ g.defs = h.defs
       /\ \A k \in Chunk \ {m} : g.net[k] = h.net[k]
  <2>1. {} \cup {m} = {m}
    OBVIOUS
  <2> QED
    BY <1>11, <1>13, <2>1 DEF Gains
<1>15. /\ \A k \in ToSet(s) : g.net[k].says = h.net[k].says
       /\ \A k \in NetsIn(h.defs) : g.net[k].says = h.net[k].says
  <2>1. /\ ToSet(s) \subseteq Held(s, h.defs, {}) /\ NetsIn(h.defs) \subseteq Held(s, h.defs, {})
        /\ Held(s, h.defs, {}) \subseteq Chunk
    BY <1>9, StateListed
  <2> QED
    BY <1>14, <2>1
<1>16. Says(g, s) = p /\ NamedOf(g) = NamedOf(h) /\ Proper(g)
  <2>1. Says(g, s) = p
    BY <1>8, <1>9, <1>15, SaysSame
  <2>2. NamedOf(g) = NamedOf(h)
    BY <1>9, <1>14, <1>15, NamedSame
  <2> QED
    BY <1>9, <1>14, <2>1, <2>2 DEF Proper
<1>17. TopNet(g) = n
  <2>1. Piled(g, s)
    BY <1>14 DEF State
  <2> QED
    BY <1>9, <2>1, PiledIs
<1>18. Off(q, g, s, {m}, {n}, n)
  BY <1>7, <1>14, <1>17, OffRule
<1>19. /\ State(q, t, {m, n}, {n}) /\ m \in {m, n} /\ n \notin ToSet(t) /\ Len(t) = Len(s) - 1
       /\ Len(t) \in Nat /\ Says(q, t) = below /\ NamedOf(q) = NamedOf(h) /\ Proper(q)
       /\ q.net[m].says = says
  <2>1. {m} \cup {n} = {m, n}
    OBVIOUS
  <2> QED
    BY <1>8, <1>13, <1>16, <1>18, <2>1 DEF Off, Popped
<1>20. State(q, t, {m, n}, {})
  <2>1. Piled(q, t) /\ Fits(q, {} \cup {n})
    <3>1. {} \cup {n} = {n}
      OBVIOUS
    <3> QED
      BY <1>19, <3>1 DEF State
  <2>2. Fits(q, {})
    BY <1>19, <2>1, FitsDrop
  <2> QED
    BY <1>19, <2>2 DEF State
<1>21. Len(t) < MaxStack
  <2>1. PICK a, b : a = Len(t) /\ b = Len(s)
    OBVIOUS
  <2> QED
    BY <1>9, <1>19, <2>1, SessionAssumption
<1>22. Yields(Settled(stack_add(q, m)), Append(below, says), NamedOf(h))
  BY <1>19, <1>20, <1>21, AddFinish
<1> QED
  BY <1>1, <1>2, <1>3, <1>4, <1>5, <1>6, <1>7, <1>8, <1>22

\* A command that leaves what the networks say as it was.
LEMMA LookFinish ==
  ASSUME NEW h, NEW s, Rest(h, s), NEW r, NEW X, State(r, s, X, {}), r.defs = h.defs,
         \A k \in Held(s, h.defs, {}) : r.net[k].says = h.net[k].says
  PROVE  Yields(Settled(r), Says(h, s), NamedOf(h))
<1>1. State(h, s, {}, {}) /\ Proper(h) /\ Listed(h) /\ s \in Seq(Chunk) /\ Len(s) \in 0..MaxStack
  BY RestIs DEF Rest
<1>2. ToSet(s) \subseteq Held(s, h.defs, {}) /\ NetsIn(h.defs) \subseteq Held(s, h.defs, {})
  BY DEF Held
<1>3. Says(r, s) = Says(h, s)
  BY <1>1, <1>2, SaysSame
<1>4. NamedOf(r) = NamedOf(h)
  BY <1>1, <1>2, NamedSame
<1>5. Proper(r)
  BY <1>1 DEF Proper
<1> QED
  BY <1>1, <1>3, <1>4, <1>5, FinishRule

\* sort in, sort out: lists, networks and handles stay as they are.
LEMMA SortArcsYields ==
  ASSUME NEW h, NEW s, Rest(h, s)
  PROVE  Yields(Settled(h), Says(h, s), NamedOf(h))
<1>1. State(h, s, {}, {}) /\ Proper(h) /\ Len(s) \in 0..MaxStack
  BY RestIs DEF Rest
<1> QED
  BY <1>1, FinishRule

\* A test destroys the copy it made.
LEMMA TestYields ==
  ASSUME NEW h, NEW s, Rest(h, s), Len(s) > 0, Room(h) > 0
  PROVE  Yields(Settled(fsm_destroy(fsm_copy(h, TopNet(h)), malloc(h))), Says(h, s), NamedOf(h))
<1>1. PICK n : n = TopNet(h)
  OBVIOUS
<1>2. PICK m : m = malloc(h)
  OBVIOUS
<1>3. PICK g : g = fsm_copy(h, n)
  OBVIOUS
<1>4. PICK r : r = fsm_destroy(g, m)
  OBVIOUS
<1>5. State(h, s, {}, {}) /\ HasRoom(h) /\ n \in Held(s, h.defs, {}) /\ Held(s, h.defs, {}) \subseteq Chunk
  <2>1. State(h, s, {}, {}) /\ n \in ToSet(s)
    BY <1>1, RestIs
  <2> QED
    BY <2>1, StateListed, RoomOne
<1>6. Gains(g, h, s, {}, {}, m)
  BY <1>2, <1>3, <1>5, CopyRule
<1>7. State(g, s, {m}, {}) /\ m \in {m}
  <2>1. {} \cup {m} = {m}
    OBVIOUS
  <2> QED
    BY <1>6, <2>1 DEF Gains
<1>8. Destroyed(r, g, s, {m}, {}, m)
  BY <1>4, <1>7, DestroyRule
<1>9. /\ State(r, s, {m} \ {m}, {}) /\ r.defs = h.defs
      /\ \A k \in Held(s, h.defs, {}) : r.net[k].says = h.net[k].says
  BY <1>5, <1>6, <1>8 DEF Destroyed, Gains
<1>10. Yields(Settled(r), Says(h, s), NamedOf(h))
  BY <1>9, LookFinish
<1> QED
  BY <1>1, <1>2, <1>3, <1>4, <1>10

\* test equivalent destroys the two copies it made.
LEMMA EquivalentYields ==
  ASSUME NEW h, NEW s, Rest(h, s), Len(s) > 1, Room(h) > 1
  PROVE  LET one == malloc(h)
             first == fsm_copy(h, TopNet(h))
             two == malloc(first)
             both == fsm_copy(first, SecondNet(h))
         IN  Yields(Settled(fsm_destroy(fsm_destroy(both, one), two)), Says(h, s), NamedOf(h))
<1>1. PICK n : n = TopNet(h)
  OBVIOUS
<1>2. PICK k : k = SecondNet(h)
  OBVIOUS
<1>3. PICK one : one = malloc(h)
  OBVIOUS
<1>4. PICK first : first = fsm_copy(h, n)
  OBVIOUS
<1>5. PICK two : two = malloc(first)
  OBVIOUS
<1>6. PICK both : both = fsm_copy(first, k)
  OBVIOUS
<1>7. PICK f : f = fsm_destroy(both, one)
  OBVIOUS
<1>8. PICK r : r = fsm_destroy(f, two)
  OBVIOUS
<1>9. /\ State(h, s, {}, {}) /\ HasRoom(h) /\ n \in Held(s, h.defs, {}) /\ k \in ToSet(s)
      /\ Held(s, h.defs, {}) \subseteq Chunk
  <2>1. State(h, s, {}, {}) /\ Len(s) \in Nat
    BY RestIs
  <2>2. Len(s) > 0
    <3>1. PICK L : L = Len(s)
      OBVIOUS
    <3> QED
      BY <2>1, <3>1
  <2>3. n \in ToSet(s) /\ k \in ToSet(s)
    BY <1>1, <1>2, <2>2, RestIs
  <2>4. HasRoom(h)
    <3>1. \E x \in Chunk \ {NULL} : h.net[x] = Free
      BY RoomTwo
    <3> QED
      BY <3>1 DEF HasRoom
  <2> QED
    BY <2>1, <2>3, <2>4, StateListed
<1>10. Gains(first, h, s, {}, {}, one)
  BY <1>3, <1>4, <1>9, CopyRule
<1>11. /\ State(first, s, {one}, {}) /\ first.defs = h.defs /\ one \in Chunk
       /\ one \notin Held(s, h.defs, {}) /\ \A x \in Chunk \ {one} : first.net[x] = h.net[x]
  <2>1. {} \cup {one} = {one}
    OBVIOUS
  <2> QED
    BY <1>10, <2>1 DEF Gains
<1>12. HasRoom(first)
  <2>1. \E x \in Chunk \ {one} : h.net[x] = Free
    BY RoomTwo
  <2> QED
    BY <1>11, <2>1 DEF HasRoom
<1>13. k \in Held(s, first.defs, {one})
  BY <1>9 DEF Held
<1>14. Gains(both, first, s, {one}, {}, two)
  BY <1>5, <1>6, <1>11, <1>12, <1>13, CopyRule
<1>15. /\ State(both, s, {one, two}, {}) /\ one \in {one, two} /\ both.defs = h.defs /\ two \in Chunk
       /\ two \notin Held(s, h.defs, {one}) /\ \A x \in Chunk \ {two} : both.net[x] = first.net[x]
  <2>1. {one} \cup {two} = {one, two}
    OBVIOUS
  <2> QED
    BY <1>11, <1>14, <2>1 DEF Gains
<1>16. Destroyed(f, both, s, {one, two}, {}, one)
  BY <1>7, <1>15, DestroyRule
<1>17. /\ State(f, s, {two}, {}) /\ two \in {two} /\ f.defs = h.defs
       /\ \A x \in Chunk \ {one} : f.net[x] = both.net[x]
  <2>1. one # two
    BY <1>15 DEF Held
  <2>2. {one, two} \ {one} = {two}
    BY <2>1
  <2> QED
    BY <1>15, <1>16, <2>2 DEF Destroyed
<1>18. Destroyed(r, f, s, {two}, {}, two)
  BY <1>8, <1>17, DestroyRule
<1>19. /\ State(r, s, {two} \ {two}, {}) /\ r.defs = h.defs
       /\ \A x \in Chunk \ {one, two} : r.net[x] = h.net[x]
  BY <1>11, <1>15, <1>17, <1>18 DEF Destroyed
<1>20. \A x \in Held(s, h.defs, {}) : r.net[x].says = h.net[x].says
  <2>1. Held(s, h.defs, {}) \subseteq Held(s, h.defs, {one})
    BY DEF Held
  <2> QED
    BY <1>9, <1>11, <1>15, <1>19, <2>1
<1>21. Yields(Settled(r), Says(h, s), NamedOf(h))
  BY <1>19, <1>20, LookFinish
<1> QED
  BY <1>1, <1>2, <1>3, <1>4, <1>5, <1>6, <1>7, <1>8, <1>21
\* apply up, down and med keep a handle in the entry on top.
LEMMA HandledYields ==
  ASSUME NEW h, NEW s, Rest(h, s), Len(s) > 0
  PROVE  LET t == stack_find_top(h)
             n == h.cell[t].fsm
         IN  /\ Yields(Settled([h EXCEPT !.cell[t].ah = IF @ = NULL THEN Handle(n, NULL) ELSE @]),
                       Says(h, s), NamedOf(h))
             /\ Yields(Settled([h EXCEPT !.cell[t].amedh = IF @ = NULL THEN Handle(n, h.net[n].cm) ELSE @]),
                       Says(h, s), NamedOf(h))
<1>1. PICK t : t = stack_find_top(h)
  OBVIOUS
<1>2. PICK n : n = h.cell[t].fsm
  OBVIOUS
<1>3. State(h, s, {}, {}) /\ n \in ToSet(s)
  <2>1. TopNet(h) = n
    BY <1>1, <1>2 DEF TopNet
  <2> QED
    BY <2>1, RestIs
<1>4. h \in HeapT /\ n \in Chunk /\ Piled(h, s) /\ Fits(h, {})
  BY <1>3, StateListed DEF State
<1>5. /\ t \in Entries(h) /\ t \in Cell /\ h.cell \in [Cell -> EntryT] /\ h.net \in [Chunk -> NetT]
      /\ h.net[n] \in NetT
  <2>1. t \in Entries(h)
    BY <1>1, <1>4, TopEntry
  <2> QED
    BY <1>4, <2>1 DEF Entries, HeapT
<1>6. PICK e : e = h.cell[t]
  OBVIOUS
<1>7. e \in EntryT /\ e.ah \in HandleT \cup {NULL} /\ e.amedh \in HandleT \cup {NULL} /\ e.fsm = n
  BY <1>2, <1>5, <1>6 DEF EntryT
<1>8. Handle(n, NULL) \in HandleT /\ Handle(n, NULL).net = n
  BY <1>4 DEF Handle, HandleT
<1>9. Handle(n, h.net[n].cm) \in HandleT /\ Handle(n, h.net[n].cm).net = n
  BY <1>4, <1>5 DEF Handle, HandleT, NetT
<1>10. ASSUME NEW a \in HandleT \cup {NULL}, NEW m \in HandleT \cup {NULL},
              a = h.cell[t].ah \/ a.net = h.cell[t].fsm, m = h.cell[t].amedh \/ m.net = h.cell[t].fsm
       PROVE  Yields(Settled(Handled(h, t, a, m)), Says(h, s), NamedOf(h))
  <2>1. PICK r : r = Handled(h, t, a, m)
    OBVIOUS
  <2>2. State(r, s, {}, {}) /\ r.net = h.net /\ r.defs = h.defs
    BY <1>3, <1>5, <1>10, <2>1, HandleRule
  <2> QED
    BY <2>1, <2>2, LookFinish
<1>11. PICK a : a = IF e.ah = NULL THEN Handle(n, NULL) ELSE e.ah
  OBVIOUS
<1>12. PICK m : m = IF e.amedh = NULL THEN Handle(n, h.net[n].cm) ELSE e.amedh
  OBVIOUS
<1>13. [h EXCEPT !.cell[t].ah = IF @ = NULL THEN Handle(n, NULL) ELSE @] = Handled(h, t, a, e.amedh)
  <2>1. [e EXCEPT !.ah = a] = [e EXCEPT !.ah = a, !.amedh = e.amedh]
    BY <1>7 DEF EntryT
  <2>2. [h.cell EXCEPT ![t].ah = a] = [h.cell EXCEPT ![t].ah = a, ![t].amedh = e.amedh]
    BY <1>5, <1>6, <2>1
  <2> QED
    BY <1>4, <1>6, <1>11, <2>2 DEF Handled, HeapT
<1>14. [h EXCEPT !.cell[t].amedh = IF @ = NULL THEN Handle(n, h.net[n].cm) ELSE @] = Handled(h, t, e.ah, m)
  <2>1. [e EXCEPT !.amedh = m] = [e EXCEPT !.ah = e.ah, !.amedh = m]
    BY <1>7 DEF EntryT
  <2>2. [h.cell EXCEPT ![t].amedh = m] = [h.cell EXCEPT ![t].ah = e.ah, ![t].amedh = m]
    BY <1>5, <1>6, <2>1
  <2> QED
    BY <1>4, <1>6, <1>12, <2>2 DEF Handled, HeapT
<1>15. Yields(Settled(Handled(h, t, a, e.amedh)), Says(h, s), NamedOf(h))
  <2>1. a \in HandleT \cup {NULL} /\ (a = h.cell[t].ah \/ a.net = h.cell[t].fsm)
    BY <1>2, <1>6, <1>7, <1>8, <1>11
  <2> QED
    BY <1>6, <1>7, <1>10, <2>1
<1>16. Yields(Settled(Handled(h, t, e.ah, m)), Says(h, s), NamedOf(h))
  <2>1. m \in HandleT \cup {NULL} /\ (m = h.cell[t].amedh \/ m.net = h.cell[t].fsm)
    BY <1>2, <1>6, <1>7, <1>9, <1>12
  <2> QED
    BY <1>6, <1>7, <1>10, <2>1
<1> QED
  BY <1>1, <1>2, <1>13, <1>14, <1>15, <1>16

\* read cmatrix: the top has a matrix of its own.
LEMMA MatrixYields ==
  ASSUME NEW h, NEW s, Rest(h, s), Len(s) > 0,
         NEW cm \in Matrix \ (h.live \cup {h.net[n].cm : n \in Chunk})
  PROVE  Yields(Settled([h EXCEPT !.net[TopNet(h)].cm = cm, !.live = @ \cup {cm}]), Says(h, s), NamedOf(h))
<1>1. PICK n : n = TopNet(h)
  OBVIOUS
<1>2. PICK r : r = [h EXCEPT !.net[n].cm = cm, !.live = @ \cup {cm}]
  OBVIOUS
<1>3. State(h, s, {}, {}) /\ n \in ToSet(s)
  BY <1>1, RestIs
<1>4. /\ State(r, s, {}, {}) /\ r.defs = h.defs
      /\ \A k \in Chunk : r.net[k].says = h.net[k].says
  <2>1. cm \in Matrix \ Matrices(h) /\ r = MatrixRead(h, n, cm)
    BY <1>2 DEF Matrices, MatrixRead
  <2>2. Kept(r, h, s, {}, {})
    BY <1>3, <2>1, MatrixRule
  <2> QED
    BY <2>2 DEF Kept
<1>5. Held(s, h.defs, {}) \subseteq Chunk
  BY <1>3, StateListed
<1>6. Yields(Settled(r), Says(h, s), NamedOf(h))
  BY <1>4, <1>5, LookFinish
<1> QED
  BY <1>1, <1>2, <1>6

\* quit: definitions and stack are emptied.
LEMMA QuitYields ==
  ASSUME NEW h, NEW s, Rest(h, s)
  PROVE  Yields(Settled(stack_clear(remove_all_defined(h))), <<>>, <<>>)
<1>1. PICK g : g = remove_all_defined(h)
  OBVIOUS
<1>2. PICK r : r = stack_clear(g)
  OBVIOUS
<1>3. State(h, s, {}, {})
  BY RestIs
<1>4. State(g, s, {}, ToSet(s)) /\ g.defs = <<>>
  BY <1>1, <1>3, UnbindAllRule
<1>5. State(r, <<>>, {}, {}) /\ r.defs = g.defs
  BY <1>2, <1>4, ClearRule
<1>6. Says(r, <<>>) = <<>> /\ Len(<<>>) \in 0..MaxStack
  BY SessionAssumption DEF Says
<1>7. r.defs = <<>>
  BY <1>4, <1>5
<1>8. ToSet(r.defs) = {} /\ Defined(r) = {}
  BY <1>7 DEF ToSet, Defined, Range
<1>9. NamedOf(r) = <<>>
  BY <1>8 DEF NamedOf
<1>10. Proper(r)
  BY <1>8 DEF Proper
<1> QED
  BY <1>1, <1>2, <1>5, <1>6, <1>9, <1>10, FinishRule

\* The argument of a function is bound to Temporary while its body is parsed.
LEMMA FunctionYields ==
  ASSUME NEW h, NEW s, Rest(h, s), Len(s) < MaxStack, Room(h) > 1, NEW says \in Content
  PROVE  LET argument == malloc(h)
             bound == add_defined(Made(h, says, NULL), argument, Temporary)
             parsed == malloc(bound)
             body == fsm_copy(bound, find_defined(bound, Temporary))
         IN  Yields(Settled(stack_add(remove_defined(body, Temporary), parsed)),
                    Append(Says(h, s), says), NamedOf(h))
<1>1. PICK n : n = malloc(h)
  OBVIOUS
<1>2. PICK g : g = Made(h, says, NULL)
  OBVIOUS
<1>3. PICK b : b = add_defined(g, n, Temporary)
  OBVIOUS
<1>4. PICK k : k = find_defined(b, Temporary)
  OBVIOUS
<1>5. PICK m : m = malloc(b)
  OBVIOUS
<1>6. PICK c : c = fsm_copy(b, k)
  OBVIOUS
<1>7. PICK r : r = remove_defined(c, Temporary)
  OBVIOUS
<1>8. /\ State(h, s, {}, {}) /\ Proper(h) /\ Listed(h) /\ s \in Seq(Chunk) /\ HasRoom(h)
      /\ ToSet(s) \subseteq Held(s, h.defs, {}) /\ NetsIn(h.defs) \subseteq Held(s, h.defs, {})
      /\ Held(s, h.defs, {}) \subseteq Chunk
  <2>1. HasRoom(h)
    <3>1. \E x \in Chunk \ {NULL} : h.net[x] = Free
      BY RoomTwo
    <3> QED
      BY <3>1 DEF HasRoom
  <2> QED
    BY <2>1, RestIs, StateListed
<1>9. Gains(g, h, s, {}, {}, n) /\ g.net[n].says = says
  BY <1>1, <1>2, <1>8, MadeRule
<1>10. /\ State(g, s, {n}, {}) /\ n \in {n} /\ n \in Chunk /\ n \notin Held(s, h.defs, {})
       /\ g.defs = h.defs /\ \A x \in Chunk \ {n} : g.net[x] = h.net[x]
  <2>1. {} \cup {n} = {n}
    OBVIOUS
  <2> QED
    BY <1>9, <2>1 DEF Gains
<1>11. Temporary \in Name \cup {Temporary} /\ Temporary \notin TooLong /\ Temporary \notin Name
  BY SessionAssumption
<1>12. Taken(b, g, s, {n}, {}, Temporary, n)
  BY <1>3, <1>10, <1>11, BindRule
<1>13. \A x \in ToSet(h.defs) : x.name # Temporary
  BY <1>8, <1>11 DEF Proper
<1>14. Temporary \notin Defined(g)
  <2>1. Listed(g)
    BY <1>10, StateListed
  <2> QED
    BY <1>10, <1>13, <2>1, NamedIs
<1>15. State(b, s, {}, {}) /\ Binds(b, g, Temporary, n) /\ b.net = g.net
  <2>1. {n} \ {n} = {}
    OBVIOUS
  <2> QED
    BY <1>12, <1>14, <2>1 DEF Taken
<1>16. PICK y : y = [name |-> Temporary, net |-> n]
  OBVIOUS
<1>17. y.name = Temporary /\ y.net = n /\ ToSet(b.defs) = ToSet(h.defs) \cup {y}
  <2>1. {x \in ToSet(h.defs) : x.name # Temporary} = ToSet(h.defs)
    BY <1>13
  <2> QED
    BY <1>10, <1>15, <1>16, <2>1 DEF Binds
<1>18. Listed(b)
  BY <1>15, StateListed
<1>19. k = n /\ k \in Held(s, b.defs, {})
  <2>1. \A x \in ToSet(b.defs) : find_defined(b, x.name) = x.net
    BY <1>18, FoundIs DEF Listed
  <2>2. k = n
    BY <1>4, <1>17, <2>1
  <2>3. \E x \in ToSet(b.defs) : x.net = n
    BY <1>17
  <2>4. n \in NetsIn(b.defs)
    BY <1>18, <2>3, NetsOfSet DEF Listed
  <2> QED
    BY <2>2, <2>4 DEF Held
<1>20. HasRoom(b)
  <2>1. \E x \in Chunk \ {n} : h.net[x] = Free
    BY RoomTwo
  <2> QED
    BY <1>10, <1>15, <2>1 DEF HasRoom
<1>21. Gains(c, b, s, {}, {}, m) /\ c.net[m].says = b.net[k].says
  BY <1>5, <1>6, <1>15, <1>19, <1>20, CopyRule
<1>22. /\ State(c, s, {m}, {}) /\ m \in {m} /\ m \in Chunk /\ m \notin Held(s, b.defs, {})
       /\ c.defs = b.defs /\ \A x \in Chunk \ {m} : c.net[x] = b.net[x]
  <2>1. {} \cup {m} = {m}
    OBVIOUS
  <2> QED
    BY <1>21, <2>1 DEF Gains
<1>23. Dropped(r, c, s, {m}, {}, Temporary)
  BY <1>7, <1>22, UnbindRule
<1>24. /\ State(r, s, {m}, {}) /\ Unbinds(r, c, Temporary)
       /\ \A x \in ToSet(s) \cup {m} : r.net[x] = c.net[x]
  BY <1>23 DEF Dropped
<1>25. r.net[m].says = says
  BY <1>9, <1>15, <1>19, <1>21, <1>22, <1>24
<1>26. ToSet(s) \subseteq Held(s, b.defs, {}) /\ NetsIn(b.defs) \subseteq Held(s, b.defs, {})
  BY DEF Held
<1>27. Says(r, s) = Says(h, s)
  <2>1. \A x \in ToSet(s) : r.net[x].says = h.net[x].says
    BY <1>8, <1>10, <1>15, <1>22, <1>24, <1>26
  <2> QED
    BY <1>8, <2>1, SaysSame
<1>28. Unbinds(r, h, Temporary)
  <2>1. ToSet(r.defs) = {x \in ToSet(h.defs) : x.name # Temporary}
    BY <1>17, <1>22, <1>24 DEF Unbinds
  <2>2. ASSUME NEW x \in ToSet(r.defs)
        PROVE  r.net[x.net] = h.net[x.net]
    <3>1. x \in ToSet(h.defs) /\ x \in ToSet(b.defs)
      BY <1>17, <2>1
    <3>2. x.net \in NetsIn(h.defs) /\ x.net \in NetsIn(b.defs)
      BY <1>8, <1>18, <3>1, NetsOfSet DEF Listed
    <3>3. x.net \in Chunk /\ x.net # n /\ x.net # m
      BY <1>8, <1>10, <1>22, <1>26, <3>2
    <3>4. r.net[x.net] = c.net[x.net]
      BY <1>24 DEF Unbinds
    <3> QED
      BY <1>10, <1>15, <1>22, <3>3, <3>4
  <2> QED
    BY <2>1, <2>2 DEF Unbinds
<1>29. NamedOf(r) = NamedOf(h)
  <2>1. Listed(r)
    BY <1>24, StateListed
  <2>2. NamedOf(r) = Without(NamedOf(h), Temporary)
    BY <1>8, <1>28, <2>1, NamedUnbind
  <2>3. PICK f, D : f = NamedOf(h) /\ D = DOMAIN f
    OBVIOUS
  <2>4. f = [x \in D |-> f[x]] /\ Temporary \notin D
    BY <1>8, <1>13, <2>3, NamedIs
  <2>5. D \ {Temporary} = D
    BY <2>4
  <2>6. Without(f, Temporary) = [x \in D |-> f[x]]
    BY <2>3, <2>5 DEF Without
  <2> QED
    BY <2>2, <2>3, <2>4, <2>6
<1>30. Proper(r)
  BY <1>8, <1>28 DEF Proper, Unbinds
<1>31. Yields(Settled(stack_add(r, m)), Append(Says(h, s), says), NamedOf(h))
  BY <1>22, <1>24, <1>25, <1>27, <1>29, <1>30, AddFinish
<1> QED
  BY <1>1, <1>2, <1>3, <1>4, <1>5, <1>6, <1>7, <1>31
-----------------------------------------------------------------------------
(***************************************************************************)
(* The inductive invariant: between two commands the lists are well formed,*)
(* nothing is held but by them, and the handles fit.                       *)
(***************************************************************************)
IInv == Rest(memory, OnStack(memory))

\* What a command that yields pile and named has made true.
LEMMA YieldsIs ==
  ASSUME NEW h, NEW pile, NEW named, Yields(h, pile, named)
  PROVE  Rest(h, OnStack(h)) /\ PileOf(h) = pile /\ NamedOf(h) = named
<1>1. PICK s : Rest(h, s) /\ Says(h, s) = pile /\ NamedOf(h) = named
  BY DEF Yields
<1>2. OnStack(h) = s /\ s \in Seq(Chunk)
  BY <1>1, RestIs
<1>3. DOMAIN s = 1..Len(s)
  BY <1>2
<1>4. PileOf(h) = Says(h, s)
  BY <1>2, <1>3 DEF PileOf, Says
<1> QED
  BY <1>1, <1>2, <1>4

\* The session begins with an empty stack and no definitions.
LEMMA InitYields ==
  ASSUME Init
  PROVE  Yields(memory, <<>>, <<>>)
<1>1. PICK m : m = Least(Cell)
  OBVIOUS
<1>2. m \in Cell
  <2>1. Cell # {}
    <3>1. Cardinality({}) = 0
      BY FS_EmptySet
    <3>2. ~(MaxStack < 0) /\ MaxStack < Cardinality(Cell)
      BY SessionAssumption
    <3> QED
      BY <3>1, <3>2
  <2> QED
    BY <1>1, <2>1, LeastIs, SessionAssumption
<1>3. PICK C : C = [c \in Cell |-> IF c = m THEN Sentinel(NULL) ELSE Unused]
  OBVIOUS
<1>4. /\ memory.main = m /\ memory.cell = C /\ memory.net = [n \in Chunk |-> Free]
      /\ memory.last = NULL /\ memory.defs = <<>> /\ memory.live = {}
      /\ memory.broken = FALSE /\ memory.turned = FALSE /\ memory.shared = FALSE
  BY <1>1, <1>3 DEF Init
<1>5. /\ Sentinel(NULL) \in EntryT /\ Sentinel(NULL).number = -1 /\ Sentinel(NULL).next = NULL
      /\ Unused \in EntryT /\ Unused.number = -2
  <2>1. PICK z : z = Sentinel(NULL)
    OBVIOUS
  <2>2. z = [number |-> -1, fsm |-> NULL, ah |-> [net |-> NULL, cm |-> NULL],
             amedh |-> [net |-> NULL, cm |-> NULL], next |-> NULL, previous |-> NULL]
    BY <2>1 DEF Sentinel, Unused, Garbage
  <2>3. [net |-> NULL, cm |-> NULL] \in HandleT
    BY DEF HandleT
  <2>4. z \in EntryT /\ z.number = -1 /\ z.next = NULL
    BY <2>2, <2>3 DEF EntryT
  <2>5. Unused \in EntryT /\ Unused.number = -2
    BY DEF Unused, EntryT
  <2> QED
    BY <2>1, <2>4, <2>5
<1>6. Free \in NetT
  BY DEF Free, NetT
<1>7. memory \in HeapT
  <2>1. C \in [Cell -> EntryT]
    BY <1>3, <1>5
  <2>2. [n \in Chunk |-> Free] \in [Chunk -> NetT]
    BY <1>6
  <2>3. <<>> \in Seq(DefT)
    OBVIOUS
  <2>4. memory = [main |-> m, cell |-> C, net |-> [n \in Chunk |-> Free], last |-> NULL, defs |-> <<>>,
                  live |-> {}, broken |-> FALSE, turned |-> FALSE, shared |-> FALSE]
    BY <1>1, <1>3 DEF Init
  <2> QED
    BY <1>2, <2>1, <2>2, <2>3, <2>4 DEF HeapT
<1>8. PICK p : p = <<m>>
  OBVIOUS
<1>9. Chain(m, C, p)
  <2>1. p \in Seq(Cell) /\ p # <<>> /\ p[1] = m /\ Len(p) = 1
    BY <1>2, <1>8
  <2>2. C[m] = Sentinel(NULL) /\ \A c \in Cell : c # m => C[c] = Unused
    BY <1>2, <1>3
  <2>3. \A j, k \in 1..Len(p) : j = 1 /\ k = 1
    BY <2>1
  <2>4. \A k \in 1..(Len(p) - 1) : FALSE
    BY <2>1
  <2> QED
    BY <1>5, <2>1, <2>2, <2>3, <2>4 DEF Chain
<1>10. Piled(memory, <<>>)
  <2>1. NetsOf(C, p) = <<>>
    <3>1. PICK t : t = <<>>
      OBVIOUS
    <3>2. t \in Seq(Chunk \cup {NULL}) /\ Len(t) = 0 /\ Len(p) - 1 = 0
      BY <1>8, <3>1
    <3>3. \A k \in 1..0 : FALSE
      OBVIOUS
    <3>4. t = NetsOf(C, p)
      BY ONLY <3>2, <3>3, NetsIs
    <3> QED
      BY <3>1, <3>4
  <2> QED
    BY <1>4, <1>7, <1>9, <2>1 DEF Piled
<1>11. ToSet(<<>>) = {} /\ NetsIn(<<>>) = {} /\ Len(<<>>) = 0
  BY DEF ToSet, NetsIn
<1>12. Apart(<<>>, memory.defs, {})
  BY <1>4, <1>11 DEF Apart, Inj, Distinct
<1>13. Memory(memory, Held(<<>>, memory.defs, {}))
  BY <1>4, <1>11 DEF Memory, Held
<1>14. Fits(memory, {})
  <2>1. \A c \in Cell : ~(C[c].number >= 0)
    <3>1. ~(-1 >= 0) /\ ~(-2 >= 0)
      OBVIOUS
    <3> QED
      BY <1>3, <1>5, <3>1
  <2> QED
    BY <1>4, <2>1 DEF Fits, Entries
<1>15. Rest(memory, <<>>)
  <2>1. 0 \in 0..MaxStack
    BY SessionAssumption
  <2> QED
    BY <1>4, <1>10, <1>11, <1>12, <1>13, <1>14, <2>1 DEF Rest, State
<1>16. Says(memory, <<>>) = <<>>
  BY <1>11 DEF Says
<1>17. NamedOf(memory) = <<>>
  <2>1. Defined(memory) = {}
    BY <1>4 DEF Defined, Range
  <2> QED
    BY <2>1 DEF NamedOf
<1> QED
  BY <1>15, <1>16, <1>17 DEF Yields
\* Every command does what Desk says and keeps the invariant.
LEMMA StepYields ==
  ASSUME IInv, Next
  PROVE  IInv' /\ Promise!Next
<1>1. PICK s : s = OnStack(memory)
  OBVIOUS
<1>2. PICK p : p = Says(memory, s)
  OBVIOUS
<1>3. /\ Rest(memory, s) /\ Len(s) \in Nat /\ stack_size(memory) = Len(s) /\ Len(p) = Len(s)
      /\ PileOf(memory) = p /\ Listed(memory) /\ DOMAIN NamedOf(memory) = Defined(memory)
  <2>1. Rest(memory, s)
    BY <1>1 DEF IInv
  <2>2. Yields(memory, p, NamedOf(memory))
    BY <1>2, <2>1 DEF Yields
  <2> QED
    BY <1>2, <2>1, <2>2, YieldsIs, RestIs, NamedIs
<1>4. ASSUME NEW pile, NEW named, Yields(memory', pile, named)
      PROVE  IInv' /\ PileOf(memory)' = pile /\ NamedOf(memory)' = named
  BY <1>4, YieldsIs DEF IInv
<1>5. ASSUME NEW says \in Content, NEW minimal, Regex(says, minimal)
      PROVE  IInv' /\ Promise!Enter(says)
  <2>1. /\ Len(s) < MaxStack /\ Room(memory) > 0
        /\ memory' = Settled(stack_add(Minimized(Made(memory, says, NULL), malloc(memory), minimal).heap,
                                       malloc(memory)))
    BY <1>3, <1>5 DEF Regex, Becomes, Grows
  <2>2. Yields(memory', Append(p, says), NamedOf(memory))
    BY <1>2, <1>3, <2>1, RegexYields
  <2>3. IInv' /\ PileOf(memory)' = Append(p, says) /\ NamedOf(memory)' = NamedOf(memory)
    BY <1>4, <2>2
  <2>4. done' = [command |-> <<"regex", says>>, odd |-> ~ done.odd]
    BY <1>5 DEF Regex, Becomes, Does
  <2> QED
    BY <1>3, <2>3, <2>4 DEF Promise!Enter, Promise!Does, Promise!Leaves
<1>6. ASSUME NEW name \in Name, NEW says \in Content, NEW minimal, DefineRegex(name, says, minimal)
      PROVE  IInv' /\ Promise!Bind(name, says)
  <2>1. /\ Room(memory) > 0
        /\ memory' = Settled(add_defined(Minimized(Made(memory, says, NULL), malloc(memory), minimal).heap,
                                         Minimized(Made(memory, says, NULL), malloc(memory), minimal).net, name))
    BY <1>3, <1>6, Zenon DEF DefineRegex, Becomes
  <2>2. Yields(memory', p, IF name \in TooLong THEN NamedOf(memory) ELSE With(NamedOf(memory), name, says))
    BY <1>2, <1>3, <2>1, DefineRegexYields
  <2>3. IInv' /\ PileOf(memory)' = p /\ NamedOf(memory)' = IF name \in TooLong THEN NamedOf(memory) ELSE With(NamedOf(memory), name, says)
    BY <1>4, <2>2
  <2>4. done' = [command |-> <<"define regex", name, says>>, odd |-> ~ done.odd]
    BY <1>6, Zenon DEF DefineRegex, Becomes, Does
  <2> QED
    BY <1>3, <2>1, <2>3, <2>4, Zenon DEF Promise!Bind, Promise!Does, Promise!Bound, With
<1>7. ASSUME NEW says \in Content, RegexFunction(says)
      PROVE  IInv' /\ Promise!EnterApplied(says)
  <2>1. /\ Len(s) < MaxStack /\ Room(memory) > 1
        /\ memory' = Settled(stack_add(remove_defined(fsm_copy(add_defined(Made(memory, says, NULL), malloc(memory), Temporary),
               find_defined(add_defined(Made(memory, says, NULL), malloc(memory), Temporary), Temporary)), Temporary),
             malloc(add_defined(Made(memory, says, NULL), malloc(memory), Temporary))))
    BY <1>3, <1>7 DEF RegexFunction, Becomes, Grows
  <2>2. Yields(memory', Append(p, says), NamedOf(memory))
    BY <1>2, <1>3, <2>1, FunctionYields
  <2>3. IInv' /\ PileOf(memory)' = Append(p, says) /\ NamedOf(memory)' = NamedOf(memory)
    BY <1>4, <2>2
  <2>4. done' = [command |-> <<"function", says>>, odd |-> ~ done.odd]
    BY <1>7 DEF RegexFunction, Becomes, Does
  <2> QED
    BY <1>3, <2>1, <2>3, <2>4 DEF Promise!EnterApplied, Promise!Does, Promise!Leaves
<1>8. ASSUME NEW name \in Name, DefineTop(name)
      PROVE  IInv' /\ Promise!BindTop(name)
  <2>1. /\ Len(s) > 0
        /\ memory' = Settled(add_defined(stack_pop(memory), TopNet(memory), name))
    BY <1>3, <1>8 DEF DefineTop, Becomes, Stack
  <2>5. PICK named : named = IF name \in TooLong THEN NamedOf(memory) ELSE With(NamedOf(memory), name, p[Len(p)])
    OBVIOUS
  <2>2. Yields(memory', SubSeq(p, 1, Len(p) - 1), named)
    BY <1>2, <1>3, <2>1, <2>5, DefineTopYields
  <2>3. IInv' /\ PileOf(memory)' = SubSeq(p, 1, Len(p) - 1) /\ NamedOf(memory)' = named
    BY <1>4, <2>2
  <2>4. done' = [command |-> <<"define", name>>, odd |-> ~ done.odd]
    BY <1>8 DEF DefineTop, Becomes, Does
  <2> QED
    BY <1>3, <2>1, <2>3, <2>4, <2>5 DEF Promise!BindTop, Promise!Does, Promise!Bound, Promise!Size, Promise!Top, Promise!Below, With
<1>9. ASSUME NEW name \in Name, Undefine(name)
      PROVE  IInv' /\ Promise!Forget(name)
  <2>1. /\ TRUE
        /\ memory' = Settled(remove_defined(memory, name))
    BY <1>3, <1>9 DEF Undefine, Becomes
  <2>2. Yields(memory', p, Without(NamedOf(memory), name))
    BY <1>2, <1>3, <2>1, UndefineYields
  <2>3. IInv' /\ PileOf(memory)' = p /\ NamedOf(memory)' = Without(NamedOf(memory), name)
    BY <1>4, <2>2
  <2>4. done' = [command |-> <<"undefine", name>>, odd |-> ~ done.odd]
    BY <1>9 DEF Undefine, Becomes, Does
  <2> QED
    BY <1>3, <2>1, <2>3, <2>4 DEF Promise!Forget, Promise!Does, Without
<1>10. ASSUME NEW name \in Name, Push(name)
      PROVE  IInv' /\ Promise!Recall(name)
  <2>1. /\ Len(s) < MaxStack /\ Room(memory) > 0 /\ name \in Defined(memory)
        /\ memory' = Settled(stack_add(fsm_copy(memory, find_defined(memory, name)), malloc(memory)))
    BY <1>3, <1>10 DEF Push, Becomes, Grows
  <2>2. Yields(memory', Append(p, NamedOf(memory)[name]), NamedOf(memory))
    BY <1>2, <1>3, <2>1, PushYields
  <2>3. IInv' /\ PileOf(memory)' = Append(p, NamedOf(memory)[name]) /\ NamedOf(memory)' = NamedOf(memory)
    BY <1>4, <2>2
  <2>4. done' = [command |-> <<"push", name>>, odd |-> ~ done.odd]
    BY <1>10 DEF Push, Becomes, Does
  <2> QED
    BY <1>3, <2>1, <2>3, <2>4 DEF Promise!Recall, Promise!Does, Promise!Leaves
<1>11. ASSUME Pop
      PROVE  IInv' /\ Promise!Discard
  <2>1. /\ Len(s) > 0
        /\ memory' = Settled(fsm_destroy(stack_pop(memory), TopNet(memory)))
    BY <1>3, <1>11 DEF Pop, Becomes, Stack
  <2>2. Yields(memory', SubSeq(p, 1, Len(p) - 1), NamedOf(memory))
    BY <1>2, <1>3, <2>1, PopYields
  <2>3. IInv' /\ PileOf(memory)' = SubSeq(p, 1, Len(p) - 1) /\ NamedOf(memory)' = NamedOf(memory)
    BY <1>4, <2>2
  <2>4. done' = [command |-> <<"pop">>, odd |-> ~ done.odd]
    BY <1>11 DEF Pop, Becomes, Does
  <2> QED
    BY <1>3, <2>1, <2>3, <2>4 DEF Promise!Discard, Promise!Does, Promise!Leaves, Promise!Size, Promise!Below
<1>12. ASSUME Clear
      PROVE  IInv' /\ Promise!Empty
  <2>1. /\ TRUE
        /\ memory' = Settled(stack_clear(memory))
    BY <1>3, <1>12 DEF Clear, Becomes
  <2>2. Yields(memory', <<>>, NamedOf(memory))
    BY <1>2, <1>3, <2>1, ClearYields
  <2>3. IInv' /\ PileOf(memory)' = <<>> /\ NamedOf(memory)' = NamedOf(memory)
    BY <1>4, <2>2
  <2>4. done' = [command |-> <<"clear">>, odd |-> ~ done.odd]
    BY <1>12 DEF Clear, Becomes, Does
  <2> QED
    BY <1>3, <2>1, <2>3, <2>4 DEF Promise!Empty, Promise!Does, Promise!Leaves
<1>13. ASSUME Rotate
      PROVE  IInv' /\ Promise!Exchange
  <2>1. /\ Len(s) > 0
        /\ memory' = Settled(stack_rotate(memory))
    BY <1>3, <1>13 DEF Rotate, Becomes, Stack
  <2>2. Yields(memory', [p EXCEPT ![1] = p[Len(p)], ![Len(p)] = p[1]], NamedOf(memory))
    BY <1>2, <1>3, <2>1, RotateYields
  <2>3. IInv' /\ PileOf(memory)' = [p EXCEPT ![1] = p[Len(p)], ![Len(p)] = p[1]] /\ NamedOf(memory)' = NamedOf(memory)
    BY <1>4, <2>2
  <2>4. done' = [command |-> <<"rotate">>, odd |-> ~ done.odd]
    BY <1>13 DEF Rotate, Becomes, Does
  <2> QED
    BY <1>3, <2>1, <2>3, <2>4 DEF Promise!Exchange, Promise!Does, Promise!Leaves, Promise!Size, Promise!Top
<1>14. ASSUME Unary
       PROVE  IInv' /\ Promise!Alter
  <2>1. PICK says : says = Change(memory.net[TopNet(memory)].says)
    OBVIOUS
  <2>2. /\ Len(s) > 0
        /\ memory' = Settled(stack_add(Saying(stack_pop(memory), TopNet(memory), says), TopNet(memory)))
        /\ done' = [command |-> <<"unary">>, odd |-> ~ done.odd]
    BY <1>3, <1>14, <2>1 DEF Unary, Becomes, Stack, Does
  <2>3. memory.net[TopNet(memory)].says = p[Len(p)] /\ p[Len(p)] \in Content
    <3>1. TopNet(memory) \in ToSet(s) /\ State(memory, s, {}, {}) /\ p[Len(p)] = memory.net[TopNet(memory)].says
      BY <1>2, <1>3, <2>2, RestIs
    <3> QED
      BY <3>1, StateListed
  <2>4. says = Change(p[Len(p)]) /\ says \in Content
    BY <2>1, <2>3, SessionAssumption
  <2>5. Yields(memory', Append(SubSeq(p, 1, Len(p) - 1), says), NamedOf(memory))
    BY <1>2, <1>3, <2>2, <2>4, UnaryYields
  <2>6. /\ IInv' /\ PileOf(memory)' = Append(SubSeq(p, 1, Len(p) - 1), says)
        /\ NamedOf(memory)' = NamedOf(memory)
    BY <1>4, <2>5
  <2> QED
    BY <1>3, <2>2, <2>4, <2>6
    DEF Promise!Alter, Promise!Does, Promise!Leaves, Promise!Size, Promise!Top, Promise!Below
<1>15. ASSUME NEW command \in {"sort", "sort arcs", "test", "test equivalent", "apply", "apply med",
                               "read cmatrix"},
              Does(<<command>>), Yields(memory', p, NamedOf(memory))
       PROVE  IInv' /\ Promise!Look
  <2>1. IInv' /\ PileOf(memory)' = p /\ NamedOf(memory)' = NamedOf(memory)
    BY <1>4, <1>15, Zenon
  <2> QED
    BY <1>3, <1>15, <2>1, Zenon DEF Promise!Look, Promise!Does, Does
<1>16. ASSUME Resort
       PROVE  IInv' /\ Promise!Look
  <2>1. /\ Len(s) > 0 /\ Does(<<"sort">>)
        /\ memory' = Settled(stack_add(stack_pop(Rewritten(memory, TopNet(memory))), TopNet(memory)))
    BY <1>3, <1>16 DEF Resort, Becomes, Stack
  <2>2. Yields(memory', p, NamedOf(memory))
    BY <1>2, <1>3, <2>1, ResortYields
  <2> QED
    BY <1>15, <2>1, <2>2
<1>17. ASSUME Test
       PROVE  IInv' /\ Promise!Look
  <2>1. /\ Len(s) > 0 /\ Room(memory) > 0 /\ Does(<<"test">>)
        /\ memory' = Settled(fsm_destroy(fsm_copy(memory, TopNet(memory)), malloc(memory)))
    BY <1>3, <1>17 DEF Test, Becomes, Stack
  <2>2. Yields(memory', p, NamedOf(memory))
    BY <1>2, <1>3, <2>1, TestYields
  <2> QED
    BY <1>15, <2>1, <2>2
<1>18. ASSUME TestEquivalent
       PROVE  IInv' /\ Promise!Look
  <2>1. Len(s) > 1
    <3>1. Len(s) >= 2
      BY <1>3, <1>18, Zenon DEF TestEquivalent, Stack
    <3> QED
      BY <1>3, <3>1
  <2>2. /\ Room(memory) > 1 /\ Does(<<"test equivalent">>)
        /\ memory' = Settled(fsm_destroy(fsm_destroy(
                       fsm_copy(fsm_copy(memory, TopNet(memory)), SecondNet(memory)), malloc(memory)),
                       malloc(fsm_copy(memory, TopNet(memory)))))
    BY <1>18, Zenon DEF TestEquivalent, Becomes
  <2>3. Yields(memory', p, NamedOf(memory))
    BY <1>2, <1>3, <2>1, <2>2, EquivalentYields, Zenon
  <2> QED
    BY <1>15, <2>2, <2>3, Zenon
<1>19. ASSUME Apply
       PROVE  IInv' /\ Promise!Look
  <2>1. PICK t : t = stack_find_top(memory)
    OBVIOUS
  <2>2. /\ Len(s) > 0 /\ Does(<<"apply">>)
        /\ memory' = Settled([memory EXCEPT !.cell[t].ah =
                                IF @ = NULL THEN Handle(memory.cell[t].fsm, NULL) ELSE @])
    BY <1>3, <1>19, <2>1 DEF Apply, Becomes, Stack
  <2>3. Yields(memory', p, NamedOf(memory))
    BY <1>2, <1>3, <2>1, <2>2, HandledYields
  <2> QED
    BY <1>15, <2>2, <2>3
<1>20. ASSUME ApplyMed
       PROVE  IInv' /\ Promise!Look
  <2>1. PICK t : t = stack_find_top(memory)
    OBVIOUS
  <2>2. PICK n : n = memory.cell[t].fsm
    OBVIOUS
  <2>3. /\ Len(s) > 0 /\ Does(<<"apply med">>)
        /\ memory' = Settled([memory EXCEPT !.cell[t].amedh =
                                IF @ = NULL THEN Handle(n, memory.net[n].cm) ELSE @])
    <3>1. Len(s) > 0
      <4>1. Stack(1)
        BY <1>20, Zenon DEF ApplyMed
      <4> QED
        BY <1>3, <4>1 DEF Stack
    <3> QED
      BY <1>20, <2>1, <2>2, <3>1, Zenon DEF ApplyMed, Becomes
  <2>4. Yields(memory', p, NamedOf(memory))
    BY <1>2, <1>3, <2>1, <2>2, <2>3, HandledYields, Zenon
  <2> QED
    BY <1>15, <2>3, <2>4, Zenon
<1>21. ASSUME ReadMatrix
       PROVE  IInv' /\ Promise!Look
  <2>1. PICK cm \in Matrix \ (memory.live \cup {memory.net[n].cm : n \in Chunk}) :
          Becomes(<<"read cmatrix">>, [memory EXCEPT !.net[TopNet(memory)].cm = cm, !.live = @ \cup {cm}])
    BY <1>21, Zenon DEF ReadMatrix
  <2>2. /\ Len(s) > 0 /\ Does(<<"read cmatrix">>)
        /\ memory' = Settled([memory EXCEPT !.net[TopNet(memory)].cm = cm, !.live = @ \cup {cm}])
    <3>1. Len(s) > 0
      <4>1. Stack(1)
        BY <1>21, Zenon DEF ReadMatrix
      <4> QED
        BY <1>3, <4>1 DEF Stack
    <3> QED
      BY <2>1, <3>1, Zenon DEF Becomes
  <2>3. Yields(memory', p, NamedOf(memory))
    BY <1>2, <1>3, <2>1, <2>2, MatrixYields, Zenon
  <2> QED
    BY <1>15, <2>2, <2>3, Zenon
<1>22. /\ Len(s) > 1 =>
             /\ \A says \in Content :
                  Yields(Settled(stack_add(Combined(stack_pop(stack_pop(memory)), TopNet(memory),
                                                    TopNet(stack_pop(memory)), says),
                                           TopNet(stack_pop(memory)))),
                         Append(SubSeq(p, 1, Len(p) - 2), says), NamedOf(memory))
             /\ memory.net[TopNet(memory)].says = p[Len(p)]
             /\ memory.net[TopNet(stack_pop(memory))].says = p[Len(p) - 1]
             /\ p[Len(p)] \in Content /\ p[Len(p) - 1] \in Content
  BY <1>2, <1>3, PairYields, SessionAssumption
<1>23. ASSUME NEW says \in Content, NEW command, Len(s) > 1, Does(command),
              memory' = Settled(stack_add(Combined(stack_pop(stack_pop(memory)), TopNet(memory),
                                                   TopNet(stack_pop(memory)), says),
                                          TopNet(stack_pop(memory)))),
              \/ /\ command = <<"crossproduct">> \/ command = <<"compose">>
                 /\ says = Compose(p[Len(p)], p[Len(p) - 1])
              \/ command = <<"unite">> /\ says = Unite(p[Len(p)], p[Len(p) - 1])
       PROVE  IInv' /\ Promise!Merge
  <2>1. Yields(memory', Append(SubSeq(p, 1, Len(p) - 2), says), NamedOf(memory))
    BY <1>22, <1>23
  <2>2. /\ IInv' /\ PileOf(memory)' = Append(SubSeq(p, 1, Len(p) - 2), says)
        /\ NamedOf(memory)' = NamedOf(memory)
    BY <1>4, <2>1
  <2> QED
    BY <1>3, <1>23, <2>2
    DEF Promise!Merge, Promise!Does, Promise!Leaves, Promise!Size, Promise!Top, Promise!Second,
        Promise!Below, Does
<1>24. ASSUME Crossproduct
       PROVE  IInv' /\ Promise!Merge
  <2>1. Len(s) > 1
    <3>1. Len(s) >= 2
      BY <1>3, <1>24 DEF Crossproduct, Stack
    <3> QED
      BY <1>3, <3>1
  <2>2. PICK says : says = Compose(p[Len(p)], p[Len(p) - 1])
    OBVIOUS
  <2>3. /\ Does(<<"crossproduct">>) /\ says \in Content
        /\ memory' = Settled(stack_add(Combined(stack_pop(stack_pop(memory)), TopNet(memory),
                                                TopNet(stack_pop(memory)), says),
                                       TopNet(stack_pop(memory))))
    BY <1>22, <1>24, <2>1, <2>2, SessionAssumption DEF Crossproduct, Becomes, Pair
  <2> QED
    BY <1>23, <2>1, <2>2, <2>3
<1>25. ASSUME ComposeAll
       PROVE  IInv' /\ Promise!Merge
  <2>1. Len(s) > 1
    BY <1>3, <1>25 DEF ComposeAll
  <2>2. PICK says : says = Compose(p[Len(p)], p[Len(p) - 1])
    OBVIOUS
  <2>3. /\ Does(<<"compose">>) /\ says \in Content
        /\ memory' = Settled(stack_add(Combined(stack_pop(stack_pop(memory)), TopNet(memory),
                                                TopNet(stack_pop(memory)), says),
                                       TopNet(stack_pop(memory))))
    BY <1>22, <1>25, <2>1, <2>2, SessionAssumption DEF ComposeAll, Round, Pair
  <2> QED
    BY <1>23, <2>1, <2>2, <2>3
<1>26. ASSUME UniteAll
       PROVE  IInv' /\ Promise!Merge
  <2>1. Len(s) > 1
    BY <1>3, <1>26, Zenon DEF UniteAll
  <2>2. PICK says : says = Unite(p[Len(p)], p[Len(p) - 1])
    OBVIOUS
  <2>3. says = Unite(p[Len(p) - 1], p[Len(p)]) /\ says \in Content
    BY <1>22, <2>1, <2>2, SessionAssumption
  <2>4. /\ Does(<<"unite">>)
        /\ memory' = Settled(stack_add(Combined(stack_pop(stack_pop(memory)), TopNet(memory),
                                                TopNet(stack_pop(memory)), says),
                                       TopNet(stack_pop(memory))))
    BY <1>22, <1>26, <2>1, <2>2, <2>3 DEF UniteAll, Round, Pair
  <2> QED
    BY <1>23, <2>1, <2>2, <2>3, <2>4
<1>27. ASSUME NEW name \in Name, SubstituteDefined(name)
       PROVE  IInv' /\ Promise!PutFor(name)
  <2>1. PICK says : says = Compose(memory.net[TopNet(memory)].says, memory.net[find_defined(memory, name)].says)
    OBVIOUS
  <2>2. /\ Len(s) > 0 /\ Room(memory) > 0 /\ name \in Defined(memory)
        /\ memory' = Settled(stack_add(stack_pop(Made(Rewritten(Rewritten(memory, TopNet(memory)),
                                                                find_defined(memory, name)), says, NULL)),
                                       malloc(Rewritten(Rewritten(memory, TopNet(memory)),
                                                        find_defined(memory, name)))))
        /\ done' = [command |-> <<"substitute", name>>, odd |-> ~ done.odd]
    BY <1>3, <1>27, <2>1 DEF SubstituteDefined, Becomes, Stack, Does
  <2>3. /\ memory.net[TopNet(memory)].says = p[Len(p)] /\ p[Len(p)] \in Content
        /\ memory.net[find_defined(memory, name)].says = NamedOf(memory)[name]
        /\ NamedOf(memory)[name] \in Content
    <3>1. TopNet(memory) \in ToSet(s) /\ State(memory, s, {}, {}) /\ p[Len(p)] = memory.net[TopNet(memory)].says
      BY <1>2, <1>3, <2>2, RestIs
    <3>2. /\ NamedOf(memory)[name] = memory.net[find_defined(memory, name)].says
          /\ find_defined(memory, name) \in NetsIn(memory.defs)
      BY <1>3, <2>2, NamedIs
    <3> QED
      BY <3>1, <3>2, StateListed
  <2>4. says = Compose(p[Len(p)], NamedOf(memory)[name]) /\ says \in Content
    BY <2>1, <2>3, SessionAssumption
  <2>5. Yields(memory', Append(SubSeq(p, 1, Len(p) - 1), says), NamedOf(memory))
    BY <1>2, <1>3, <2>2, <2>4, SubstituteYields
  <2>6. /\ IInv' /\ PileOf(memory)' = Append(SubSeq(p, 1, Len(p) - 1), says)
        /\ NamedOf(memory)' = NamedOf(memory)
    BY <1>4, <2>5
  <2> QED
    BY <1>3, <2>2, <2>4, <2>6
    DEF Promise!PutFor, Promise!Does, Promise!Leaves, Promise!Size, Promise!Top, Promise!Below
<1>28. ASSUME Quit
       PROVE  IInv' /\ Promise!Quit
  <2>1. /\ memory' = Settled(stack_clear(remove_all_defined(memory)))
        /\ done' = [command |-> <<"quit">>, odd |-> ~ done.odd]
    BY <1>28 DEF Quit, Does
  <2>2. Yields(memory', <<>>, <<>>)
    BY <1>3, <2>1, QuitYields
  <2>3. IInv' /\ PileOf(memory)' = <<>> /\ NamedOf(memory)' = <<>>
    BY <1>4, <2>2
  <2> QED
    BY <2>1, <2>3 DEF Promise!Quit, Promise!Does
<1>29. ASSUME ReverseTop
       PROVE  IInv' /\ Promise!Alter
  <2>1. PICK says : says = Change(memory.net[TopNet(memory)].says)
    OBVIOUS
  <2>2. /\ Len(s) > 0 /\ Room(memory) > 0
        /\ memory' = Settled(stack_add(fsm_destroy(Made(stack_pop(memory), says, NULL), TopNet(memory)),
                                       malloc(stack_pop(memory))))
        /\ done' = [command |-> <<"reverse">>, odd |-> ~ done.odd]
    BY <1>3, <1>29, <2>1 DEF ReverseTop, Becomes, Stack, Does
  <2>3. memory.net[TopNet(memory)].says = p[Len(p)] /\ p[Len(p)] \in Content
    <3>1. TopNet(memory) \in ToSet(s) /\ State(memory, s, {}, {}) /\ p[Len(p)] = memory.net[TopNet(memory)].says
      BY <1>2, <1>3, <2>2, RestIs
    <3> QED
      BY <3>1, StateListed
  <2>4. says = Change(p[Len(p)]) /\ says \in Content
    BY <2>1, <2>3, SessionAssumption
  <2>5. Yields(memory', Append(SubSeq(p, 1, Len(p) - 1), says), NamedOf(memory))
    BY <1>2, <1>3, <2>2, <2>4, ReverseYields
  <2>6. /\ IInv' /\ PileOf(memory)' = Append(SubSeq(p, 1, Len(p) - 1), says)
        /\ NamedOf(memory)' = NamedOf(memory)
    BY <1>4, <2>5
  <2> QED
    BY <1>3, <2>2, <2>4, <2>6
    DEF Promise!Alter, Promise!Does, Promise!Leaves, Promise!Size, Promise!Top, Promise!Below
<1>30. ASSUME SortArcs
       PROVE  IInv' /\ Promise!Look
  <2>1. Does(<<"sort arcs">>) /\ memory' = Settled(memory)
    BY <1>30 DEF SortArcs, Becomes
  <2>2. Yields(memory', p, NamedOf(memory))
    BY <1>2, <1>3, <2>1, SortArcsYields
  <2> QED
    BY <1>15, <2>1, <2>2
<1> QED
  BY <1>5, <1>6, <1>7, <1>8, <1>9, <1>10, <1>11, <1>12, <1>13, <1>14, <1>16, <1>17, <1>18, <1>19,
     <1>20, <1>21, <1>24, <1>25, <1>26, <1>27, <1>28, <1>29, <1>30, Zenon
  DEF Next, Promise!Next
-----------------------------------------------------------------------------
\* A step that is no command changes nothing.
LEMMA StepHolds ==
  ASSUME IInv, [Next]_vars
  PROVE  IInv' /\ [Promise!Next]_Promise!vars
<1>1. CASE Next
  BY <1>1, StepYields
<1>2. CASE UNCHANGED vars
  <2>1. memory' = memory /\ done' = done
    BY <1>2 DEF vars
  <2>2. IInv' /\ PileOf(memory)' = PileOf(memory) /\ NamedOf(memory)' = NamedOf(memory)
    BY <2>1 DEF IInv
  <2> QED
    BY <2>1, <2>2 DEF Promise!vars
<1> QED
  BY <1>1, <1>2

\* The invariant holds at first, and Desk begins as the session does.
LEMMA InitHolds ==
  ASSUME Init
  PROVE  IInv /\ Promise!Init
<1>1. IInv /\ PileOf(memory) = <<>> /\ NamedOf(memory) = <<>>
  BY InitYields, YieldsIs DEF IInv
<1> QED
  BY <1>1 DEF Init, Promise!Init

\* The invariant implies that every network is owned once.
LEMMA OwnedFromInv ==
  ASSUME IInv
  PROVE  OwnedOnce
<1>1. PICK s : s = OnStack(memory)
  OBVIOUS
<1>2. PICK d : d = memory.defs
  OBVIOUS
<1>3. PICK e : e = [i \in DOMAIN d |-> d[i].net]
  OBVIOUS
<1>4. PICK owned : owned = s \o e
  OBVIOUS
<1>5. State(memory, s, {}, {}) /\ s \in Seq(Chunk) /\ Listed(memory)
  BY <1>1, RestIs DEF IInv
<1>6. /\ d \in Seq(DefT) /\ Distinct(d) /\ Inj(s) /\ ToSet(s) \cap NetsIn(d) = {}
      /\ Memory(memory, Held(s, d, {}))
  BY <1>2, <1>5 DEF State, Apart, Listed
<1>7. PICK m, n : m = Len(s) /\ n = Len(d)
  OBVIOUS
<1>8. m \in Nat /\ n \in Nat /\ DOMAIN d = 1..n /\ \A i \in 1..n : d[i].net \in Chunk
  <2>1. m \in Nat /\ n \in Nat /\ DOMAIN d = 1..n /\ \A i \in 1..n : d[i] \in DefT
    BY <1>5, <1>6, <1>7
  <2>2. \A x \in DefT : x.net \in Chunk
    BY DEF DefT
  <2> QED
    BY <2>1, <2>2
<1>9. e \in Seq(Chunk) /\ Len(e) = n /\ \A i \in 1..n : e[i] = d[i].net
  BY <1>3, <1>8
<1>10. /\ owned \in Seq(Chunk) /\ Len(owned) = m + n
       /\ \A k \in 1..m : owned[k] = s[k]
      /\ \A k \in 1..n : owned[m + k] = e[k]
  <2>1. s \in Seq(Chunk) /\ e \in Seq(Chunk) /\ m = Len(s) /\ n = Len(e)
    BY <1>5, <1>7, <1>9
  <2>2. /\ s \o e \in Seq(Chunk) /\ Len(s \o e) = m + n
        /\ \A k \in 1..m : (s \o e)[k] = s[k]
        /\ \A k \in 1..n : (s \o e)[m + k] = e[k]
    BY ONLY <2>1, Joined
  <2> QED
    BY <1>4, <2>2
<1>11. DOMAIN owned = 1..(m + n)
  BY <1>10
<1>12. /\ \A k \in 1..m : s[k] \in ToSet(s)
       /\ \A k \in 1..n : d[k].net \in NetsIn(d)
  BY <1>5, <1>7 DEF ToSet, NetsIn
<1>13. \A j \in 1..(m + n) : j \in 1..m \/ \E k \in 1..n : j = m + k
  <2> TAKE j \in 1..(m + n)
  <2>1. CASE j <= m
    BY <1>8, <2>1
  <2>2. CASE j > m
    <3>1. j - m \in 1..n /\ j = m + (j - m)
      BY <1>8, <2>2
    <3> QED
      BY <3>1
  <2> QED
    BY <1>8, <2>1, <2>2
<1>14. IsInjective(owned)
  <2>1. \A i, j \in 1..(m + n) : owned[i] = owned[j] => i = j
    <3> SUFFICES ASSUME NEW i \in 1..(m + n), NEW j \in 1..(m + n), owned[i] = owned[j]
                 PROVE  i = j
      OBVIOUS
    <3>1. CASE i \in 1..m /\ j \in 1..m
      BY <1>6, <1>7, <1>10, <3>1 DEF Inj
    <3>2. ASSUME NEW a \in 1..n, i = m + a, NEW b \in 1..n, j = m + b
          PROVE  i = j
      <4>1. owned[i] = d[a].net /\ owned[j] = d[b].net
        BY <1>9, <1>10, <3>2
      <4>2. a = b
        BY <1>6, <1>7, <3>2, <4>1 DEF Distinct
      <4> QED
        BY <3>2, <4>2
    <3>3. ASSUME i \in 1..m, NEW b \in 1..n, j = m + b
          PROVE  FALSE
      BY <1>6, <1>9, <1>10, <1>12, <3>3
    <3>4. ASSUME j \in 1..m, NEW a \in 1..n, i = m + a
          PROVE  FALSE
      BY <1>6, <1>9, <1>10, <1>12, <3>4
    <3> QED
      BY <1>13, <3>1, <3>2, <3>3, <3>4
  <2> QED
    BY <1>11, <2>1 DEF IsInjective
<1>15. PICK H : H = Held(s, d, {})
  OBVIOUS
<1>16. \A x \in ToSet(owned) : x \in H
  <2>1. ToSet(owned) = {owned[k] : k \in 1..(m + n)}
    BY <1>11 DEF ToSet
  <2>2. \A k \in 1..(m + n) : owned[k] \in H
    <3> TAKE k \in 1..(m + n)
    <3>1. CASE k \in 1..m
      BY <1>10, <1>12, <1>15, <3>1 DEF Held
    <3>2. ASSUME NEW a \in 1..n, k = m + a
          PROVE  owned[k] \in H
      <4>1. owned[k] = d[a].net
        BY <1>9, <1>10, <3>2
      <4> QED
        BY <1>12, <1>15, <4>1 DEF Held
    <3> QED
      BY <1>13, <3>1, <3>2
  <2> QED
    BY <2>1, <2>2
<1>17. /\ \A x \in ToSet(owned) : memory.net[x] # Free
       /\ ~memory.shared =>
            /\ ~memory.broken
            /\ \A x \in ToSet(owned) : memory.net[x].cm # NULL => memory.net[x].cm \in memory.live
            /\ \A x, y \in ToSet(owned) :
                 memory.net[x].cm # NULL /\ memory.net[x].cm = memory.net[y].cm => x = y
  BY <1>6, <1>15, <1>16 DEF Memory
<1>18. owned = OnStack(memory) \o [i \in DOMAIN memory.defs |-> memory.defs[i].net]
  BY <1>1, <1>2, <1>3, <1>4
<1>19. PICK held : held = {x \in ToSet(owned) : memory.net[x].cm # NULL}
  OBVIOUS
<1>20. ~memory.shared =>
         /\ ~memory.broken
         /\ \A x \in held : memory.net[x].cm \in memory.live
         /\ \A x, y \in held : memory.net[x].cm = memory.net[y].cm => x = y
  BY <1>17, <1>19
<1> QED
  BY <1>14, <1>17, <1>18, <1>19, <1>20 DEF OwnedOnce

\* The invariant implies that every handle fits its network.
LEMMA FitFromInv ==
  ASSUME IInv
  PROVE  HandlesFit
<1>1. Fits(memory, {})
  BY DEF IInv, Rest, State
<1> QED
  BY <1>1 DEF Fits, Fit, HandlesFit
-----------------------------------------------------------------------------
(***************************************************************************)
(* The invariant holds in every state: before a command, whatever it is,   *)
(* the stack ends in its one sentinel, and stack.c and define.c hold every *)
(* network that iface.c has not lost.                                      *)
(***************************************************************************)
THEOREM InvariantHolds == Spec => []IInv
<1>1. Init => IInv
  BY InitHolds
<1>2. IInv /\ [Next]_vars => IInv'
  BY StepHolds
<1> QED
  BY <1>1, <1>2, PTL DEF Spec

(***************************************************************************)
(* No network is on the stack twice, in two definitions, or in both, none  *)
(* of them was freed, and while no network with a matrix was copied none   *)
(* of them shares its matrix, which is allocated, and nothing was freed    *)
(* twice: stack_pop, define and fsm_destroy hand over what they take.      *)
(***************************************************************************)
THEOREM OwnershipHolds == Spec => []OwnedOnce
<1>1. IInv => OwnedOnce
  BY OwnedFromInv
<1> QED
  BY <1>1, InvariantHolds, PTL

(***************************************************************************)
(* Every command that gives states or symbols of a network other numbers,  *)
(* or frees it, takes it off the stack and with it the handles that        *)
(* stack_get_ah made for it, and fsm_sort_arcs, which does not take it     *)
(* off, leaves the numbers; so those that are kept fit, until stack_rotate *)
(* moves a network to another entry.                                       *)
(***************************************************************************)
THEOREM HandlesHold == Spec => []HandlesFit
<1>1. IInv => HandlesFit
  BY FitFromInv
<1> QED
  BY <1>1, InvariantHolds, PTL

(***************************************************************************)
(* The commands of iface.c, on lists of addresses, do to the contents what *)
(* Desk says a stack of contents and names for contents would do.          *)
(***************************************************************************)
THEOREM SessionActsAsDesk == Spec => ActsAsDesk
<1>1. Init => Promise!Init
  BY InitHolds
<1>2. IInv /\ [Next]_vars => [Promise!Next]_Promise!vars
  BY StepHolds
<1> QED
  BY <1>1, <1>2, InvariantHolds, PTL DEF Spec, ActsAsDesk, Promise!Spec
=============================================================================
