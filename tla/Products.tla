------------------------------ MODULE Products ------------------------------
(***************************************************************************)
(* The operations of foma/constructions.c that run two networks in         *)
(* parallel: intersection, difference, composition, cross product, shuffle *)
(* and the test of equivalence, and fsm_unflatten, which runs one network  *)
(* against itself.  A state of the result is a pair (a triple) of states,  *)
(* numbered when it is first met; the hash table of the triples and the    *)
(* agenda on the integer stack are left out but for fsm_equivalent, which  *)
(* may leave pairs on that stack.                                          *)
(***************************************************************************)
EXTENDS Alphabet
LOCAL INSTANCE SequencesExt

Pairs(S, T, Sel(_, _)) == {p \in S \X T : Sel(p[1], p[2])}

\* The operands, minimized and with one alphabet.
Aligned(net1, net2) == fsm_merge_sigma(fsm_minimize(net1), fsm_minimize(net2))

\* Pairs of states that step together, on the same symbols.
InStep(one, two) ==
  Built(<<0, 0>>,
        {<< <<p[1][1], p[2][1]>>, p[1][2], p[1][3], <<p[1][4], p[2][4]>> >> :
           p \in Pairs(one.arcs, two.arcs, LAMBDA a, b : a[2] = b[2] /\ a[3] = b[3])},
        one.fin \X two.fin, one.sig)
Intersection(nets) ==
  IF Trivial(nets[1]) \/ Trivial(nets[2]) THEN fsm_empty_set
  ELSE fsm_coaccessible(InStep(nets[1], nets[2]))
fsm_intersect(net1, net2) == Intersection(Aligned(net1, net2))

\* A second component of n2 stands for a net2 that can no longer follow.
Difference(one, two) ==
  LET dead == two.n
      Follow(a, q) == {b[4] : b \in {c \in two.arcs : c[1] = q /\ c[2] = a[2] /\ c[3] = a[3]}}
      Step(a, q) == << <<a[1], q>>, a[2], a[3],
                       <<a[4], IF Follow(a, q) = {} THEN dead
                               ELSE CHOOSE r \in Follow(a, q) : TRUE>> >>
  IN  Built(<<0, 0>>, {Step(a, q) : a \in one.arcs, q \in 0 .. dead},
            one.fin \X ((0 .. dead) \ two.fin), one.sig)
DifferenceOf(nets) == fsm_minimize(Difference(nets[1], nets[2]))
fsm_minus(net1, net2) == DifferenceOf(Aligned(net1, net2))

-----------------------------------------------------------------------------
(* Composition.                                                            *)

WithFlags(net, other) ==
  sigma_sort([net EXCEPT !.sig =
    FoldSet(LAMBDA name, sig : sigma_add(name, sig), @,
            {x \in Names(other.sig) \ Names(net.sig) : flag_check(x)})])

Bucket(k) == IF k = IDENTITY THEN UNKNOWN ELSE k

\* The arcs of the product that follow an output of net1 into net2; in a mode
\* other than 0 EPSILON is not followed.
Through(one, two, mode) ==
  {<< <<p[1][1], p[2][1], mode>>,
      IF p[1][3] = IDENTITY /\ p[2][2] = UNKNOWN THEN UNKNOWN ELSE p[1][2],
      IF p[1][3] = UNKNOWN /\ p[2][2] = IDENTITY THEN UNKNOWN ELSE p[2][3],
      <<p[1][4], p[2][4], 0>> >> :
     p \in Pairs(one.arcs, two.arcs, LAMBDA a, b : /\ Bucket(a[3]) = Bucket(b[2])
                                                   /\ a[3] = EPSILON => mode = 0)}

\* Those where one network waits.  With two modes it is net2 first; with three,
\* the waits of one side follow each other.  flags: the flag diacritics that
\* count as EPSILON.
Waiting(one, two, tristate, flags) ==
  {<< <<a[1], b, 0>>, a[2], a[3], <<a[4], b, 0>> >> :
      a \in {c \in one.arcs : c[3] \in flags}, b \in 0 .. two.n - 1}
  \cup
  {<< <<a[1], b, m>>, a[2], EPSILON, <<a[4], b, IF tristate THEN 1 ELSE 0>> >> :
      a \in {c \in one.arcs : c[3] = EPSILON}, b \in 0 .. two.n - 1,
      m \in IF tristate THEN {0, 1} ELSE {0}}
  \cup
  {<< <<a, b[1], m>>, b[2], b[3], <<a, b[4], 1>> >> :
      a \in 0 .. one.n - 1, b \in {c \in two.arcs : c[2] \in flags},
      m \in IF tristate THEN {0, 1, 2} ELSE {0, 1}}
  \cup
  {<< <<a, b[1], m>>, EPSILON, b[3], <<a, b[4], IF tristate THEN 2 ELSE 1>> >> :
      a \in 0 .. one.n - 1, b \in {c \in two.arcs : c[2] = EPSILON},
      m \in IF tristate THEN {0, 2} ELSE {0, 1}}

Composing(one, two, tristate, flags) ==
  LET modes == IF tristate THEN 0 .. 2 ELSE 0 .. 1
  IN  Built(<<0, 0, 0>>,
            UNION {Through(one, two, m) : m \in modes} \cup Waiting(one, two, tristate, flags),
            one.fin \X two.fin \X modes, one.sig)
ComposedOf(nets, tristate, flagIsEpsilon) ==
  IF Trivial(nets[1]) \/ Trivial(nets[2]) THEN fsm_empty_set
  ELSE fsm_coaccessible(fsm_topsort(fsm_coaccessible(
         Composing(nets[1], nets[2], tristate,
           {k \in Real(nets[1].sig) : flagIsEpsilon /\ flag_check(nets[1].sig[k])}))))

\* g_compose_tristate and g_flag_is_epsilon are the two options of the session.
AlignedWithFlags(net1, net2) == fsm_merge_sigma(WithFlags(net1, net2), WithFlags(net2, net1))
fsm_compose(net1, net2, tristate, flagIsEpsilon) ==
  ComposedOf(IF flagIsEpsilon THEN AlignedWithFlags(fsm_minimize(net1), fsm_minimize(net2))
               ELSE Aligned(net1, net2), tristate, flagIsEpsilon)

-----------------------------------------------------------------------------
(* Cross product and shuffle.                                              *)

\* Mutant: @ of one side still stands for the same symbol as on the other.
LooseKept(k) == k

Loose(k) == IF k = IDENTITY THEN UNKNOWN ELSE k

\* Both step, or one waits in a final state.
Crossed(one, two) ==
  LET Label(a, b) == IF a[2] = IDENTITY /\ b[2] = IDENTITY
                     THEN {<<IDENTITY, IDENTITY>>, <<UNKNOWN, UNKNOWN>>}
                     ELSE {<<Loose(a[2]), Loose(b[2])>>}
  IN  Built(<<0, 0>>,
        UNION {{<< <<a[1], b[1]>>, l[1], l[2], <<a[4], b[4]>> >> : l \in Label(a, b)} :
                 a \in one.arcs, b \in two.arcs}
        \cup {<< <<q, b[1]>>, EPSILON, Loose(b[2]), <<q, b[4]>> >> : q \in one.fin, b \in two.arcs}
        \cup {<< <<a[1], q>>, Loose(a[2]), EPSILON, <<a[4], q>> >> : a \in one.arcs, q \in two.fin},
        one.fin \X two.fin, one.sig)
\* EPSILON and UNKNOWN get into the alphabet when they are on an arc.
Declaring(net) ==
  [net EXCEPT !.sig = FoldSet(LAMBDA k, sig : WithSpecial(k, sig), @,
                              {EPSILON, UNKNOWN} \cap {a[i] : a \in net.arcs, i \in {2, 3}})]
CrossedOf(nets) == fsm_coaccessible(Declaring(Crossed(nets[1], nets[2])))
fsm_cross_product(net1, net2) == CrossedOf(Aligned(net1, net2))

\* What fsm_minimize returns is not kept, here and in fsm_unflatten: the operands may
\* not be empty, for then their networks are gone.
Shuffled(one, two) ==
  Built(<<0, 0>>,
        {<< <<a[1], b>>, a[2], a[3], <<a[4], b>> >> : a \in one.arcs, b \in 0 .. two.n - 1}
        \cup
        {<< <<a, b[1]>>, b[2], b[3], <<a, b[4]>> >> : a \in 0 .. one.n - 1, b \in two.arcs},
        one.fin \X two.fin, one.sig)
ShuffledOf(nets) == Shuffled(nets[1], nets[2])
fsm_shuffle(net1, net2) == ShuffledOf(Aligned(net1, net2))

\* Two arcs in a row become one: the first has the upper symbol, the second the
\* lower one, repeat stands for "the same" and epsilon for nothing.
Unflattened(min, epsilon, repeat) ==
  LET Spelled(k) == IF k = epsilon THEN EPSILON ELSE k
      Label(i, o) == IF o = repeat THEN <<Spelled(i), Spelled(i)>>
                     ELSE <<Spelled(Loose(i)), Spelled(Loose(o))>>
  IN  Built(0, {<<p[1][1], Label(p[1][2], p[2][2])[1], Label(p[1][2], p[2][2])[2], p[2][4]>> :
                  p \in Pairs(min.arcs, min.arcs, LAMBDA a, b : a[4] = b[1])}, min.fin, min.sig)
fsm_unflatten(net, epsilon_sym, repeat_sym) ==
  Unflattened(fsm_minimize(net), sigma_find(epsilon_sym, net.sig), sigma_find(repeat_sym, net.sig))

-----------------------------------------------------------------------------
(* Path equivalence.                                                       *)

Labels(net, q) == {<<a[2], a[3]>> : a \in {b \in net.arcs : b[1] = q}}
Target(net, q, l) == CHOOSE r \in 0 .. net.n - 1 : <<q, l[1], l[2], r>> \in net.arcs

\* The ways the test can end: its answer, and whether pairs are left on the integer
\* stack.  The arcs of a state come in any order; the networks are deterministic.
RECURSIVE From(_, _, _, _)
From(one, two, agenda, seen) ==
  LET a == Head(agenda)[1]
      b == Head(agenda)[2]
      shared == Labels(one, a) \cap Labels(two, b)
      new == {<<Target(one, a, l), Target(two, b, l)>> : l \in shared} \ seen
  IN  IF agenda = <<>> THEN {[answer |-> TRUE, left |-> FALSE]}
      ELSE IF (a \in one.fin) # (b \in two.fin)
      THEN {[answer |-> FALSE, left |-> Len(agenda) > 1]}
      ELSE IF Labels(one, a) \ shared # {}          \* some were pushed before
      THEN {[answer |-> FALSE, left |-> Len(agenda) > 1 \/ some] :
              some \in IF new = {} THEN {FALSE} ELSE BOOLEAN}
      ELSE IF Labels(two, b) \ shared # {}
      THEN {[answer |-> FALSE, left |-> Len(agenda) > 1 \/ new # {}]}
      ELSE UNION {From(one, two, order \o Tail(agenda), seen \cup new) : order \in SetToSeqs(new)}
EquivalentOf(nets) == From(nets[1], nets[2], << <<0, 0>> >>, {<<0, 0>>})
fsm_equivalent(net1, net2) == EquivalentOf(fsm_merge_sigma(net1, net2))
=============================================================================
