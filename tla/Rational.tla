------------------------------ MODULE Rational ------------------------------
(***************************************************************************)
(* The other constructions of foma: those that splice networks together    *)
(* with EPSILON arcs (foma/constructions.c, foma/reverse.c), those that    *)
(* rewrite the arcs of one network (foma/extract.c, foma/structures.c) and *)
(* those that are formulas over the rest.  A copy of a network is the      *)
(* network itself; the header of a result is what the code leaves there.   *)
(***************************************************************************)
EXTENDS Products

Nothing == Claims(NO, NO, NO, NO, UNK, NO)

\* Where an operation numbers the nodes itself, every node stays.
Everywhere(no, arcs, fin) ==
  [n |-> Cardinality(DOMAIN no),
   arcs |-> {<<no[a[1]], a[2], a[3], no[a[4]]>> : a \in arcs},
   fin |-> {no[q] : q \in fin}]
Numbered(start, arcs, fin) ==
  Everywhere(Numbering(start, UNION {{a[1], a[4]} : a \in arcs} \cup fin), arcs, fin)
Assembled(all, sig, hdr) == Network(all.n, all.arcs, all.fin, sig, hdr)

\* The end of the building handle: a network that cannot leave its start state is
\* the empty one.
Done(all, sig) ==
  IF all.fin = {} \/ (0 \notin all.fin /\ \A a \in all.arcs : a[1] # 0) THEN fsm_empty_set
  ELSE sigma_sort(fsm_state_close(all.n, all.arcs, all.fin, sig))
fsm_construct_done(start, arcs, fin, sig) == Done(Numbered(start, arcs, fin), sig)

\* The arcs of net as arcs of another alphabet, found there by name.
ByName(net, sig) ==
  {<<a[1], IF a[2] < MINSIGMA THEN a[2] ELSE sigma_find(net.sig[a[2]], sig),
           IF a[3] < MINSIGMA THEN a[3] ELSE sigma_find(net.sig[a[3]], sig), a[4]>> : a \in net.arcs}
AllNamed(net, sig) == FoldSet(LAMBDA k, s : Named(IF k < MINSIGMA THEN k ELSE net.sig[k], s), sig,
                              {a[2] : a \in net.arcs} \cup {a[3] : a \in net.arcs})

-----------------------------------------------------------------------------
(* Splicing.                                                               *)

OneArc(sig, k) == Network(2, {<<0, k, k, 1>>}, {1}, sig, Exact)
fsm_symbol(name) ==
  IF name = EPSILON
  THEN Network(1, {}, {0}, EPSILON :> EPSILON, Claims(NO, YES, NO, NO, YES, NO))
  ELSE IF name < MINSIGMA THEN OneArc(name :> name, name) ELSE OneArc(MINSIGMA :> name, MINSIGMA)

\* The arcs and the final states of net with node <<i, q>> for its state q.
Tagged(net, i) == {<< <<i, a[1]>>, a[2], a[3], <<i, a[4]>> >> : a \in net.arcs}
Finals(net, i) == {<<i, q>> : q \in net.fin}
Jump(p, q) == <<p, EPSILON, EPSILON, q>>

Chained(one, two) ==
  Assembled(Numbered(<<1, 0>>,
            Tagged(one, 1) \cup Tagged(two, 2) \cup {Jump(q, <<2, 0>>) : q \in Finals(one, 1)},
            Finals(two, 2)),
          WithSpecial(EPSILON, one.sig),
          [one.hdr EXCEPT !.eps = NO, !.det = NO, !.min = NO, !.pru = NO])
ChainedOf(nets) == fsm_minimize(Chained(nets[1], nets[2]))
fsm_concat(net1, net2) ==
  IF net1.fin = {} \/ net2.fin = {} THEN fsm_empty_set ELSE ChainedOf(fsm_merge_sigma(net1, net2))

Joint(one, two) ==
  Assembled(Numbered(<<0, 0>>,
            Tagged(one, 1) \cup Tagged(two, 2)
              \cup {Jump(<<0, 0>>, <<1, 0>>), Jump(<<0, 0>>, <<2, 0>>)},
            Finals(one, 1) \cup Finals(two, 2)),
          WithSpecial(EPSILON, one.sig), Nothing)
JointOf(nets) == Joint(nets[1], nets[2])
fsm_union(net1, net2) == JointOf(fsm_merge_sigma(net1, net2))

\* A new start state; whoever is final may start again.
Closure(min, final) ==
  Assembled(Numbered(<<0, 0>>,
            Tagged(min, 1) \cup {Jump(<<0, 0>>, <<1, 0>>)}
              \cup {Jump(q, <<0, 0>>) : q \in Finals(min, 1)},
            Finals(min, 1) \cup (IF final THEN {<<0, 0>>} ELSE {})),
          WithSpecial(EPSILON, min.sig), Nothing)

fsm_kleene_star(net) == Closure(fsm_minimize(net), TRUE)
fsm_kleene_plus(net) == Closure(fsm_minimize(net), FALSE)
fsm_optionality(net) == fsm_union(net, fsm_empty_string)

RECURSIVE Repeated(_, _, _, _)
Repeated(acc, net, i, counts) ==                 \* counts: <<m, n>>
  IF i > counts[2] THEN acc
  ELSE Repeated(fsm_concat(acc, IF i > counts[1] THEN fsm_optionality(net) ELSE net),
                net, i + 1, counts)
fsm_concat_m_n(net, m, n) == Repeated(fsm_empty_string, net, 1, <<m, n>>)

\* fsm_completes for acceptors whose numbers have no gap, the restriction its
\* comment states.  The sink is one that is there already when there is one.
Completed(min, sig, fin, complement) ==
  LET complete == /\ IDENTITY \in DOMAIN min.sig
                  /\ Cardinality(min.arcs) = Cardinality(DOMAIN sig \ {EPSILON}) * min.n
      sinks == {q \in 0 .. min.n - 1 : /\ (q \in fin) = complement
                                       /\ \A a \in min.arcs : a[1] = q => a[4] = q}
      sink == IF sinks = {} THEN min.n ELSE Min(sinks)
      n == Max({min.n, sink + 1})
      To(q, k) == {a[4] : a \in {b \in min.arcs : b[1] = q /\ b[2] = k}}
      Next(q, k) == IF q = sink \/ To(q, k) = {} THEN sink ELSE CHOOSE r \in To(q, k) : TRUE
      hdr == [min.hdr EXCEPT !.loop = NO, !.comp = YES, !.pru = NO]
  IN  IF complete
      THEN Network(min.n, min.arcs, fin, sig, [hdr EXCEPT !.min = YES, !.det = YES])
      ELSE Network(n, {<<q, k, k, Next(q, k)>> : q \in 0 .. n - 1, k \in 2 .. sigma_max(sig)},
                   fin \cup (IF complement /\ sink = min.n THEN {sink} ELSE {}),
                   sig, [hdr EXCEPT !.min = NO])
Completes(min, complement) ==
  Completed(min, WithSpecial(IDENTITY, sigma_remove_num(UNKNOWN, min.sig)),
            IF complement THEN (0 .. min.n - 1) \ min.fin ELSE min.fin, complement)

ClaimedMinimal(net) == IF net.hdr.min = YES THEN net ELSE fsm_minimize(net)
fsm_complete(net) == Completes(ClaimedMinimal(net), FALSE)
fsm_complement(net) == Completes(ClaimedMinimal(net), TRUE)

\* Every state may run through net2 and come back.
Ignoring(one, two) ==
  LET Splice(q) == {<< <<q, 1 + a[1]>>, a[2], a[3], <<q, 1 + a[4]>> >> : a \in two.arcs}
                   \cup {Jump(<<q, 0>>, <<q, 1>>)}
                   \cup {Jump(<<q, 1 + f>>, <<q, 0>>) : f \in two.fin}
  IN  Assembled(Numbered(<<0, 0>>,
                {<< <<a[1], 0>>, a[2], a[3], <<a[4], 0>> >> : a \in one.arcs}
                  \cup UNION {Splice(q) : q \in 0 .. one.n - 1},
                {<<q, 0>> : q \in one.fin}),
              one.sig, Claims(NO, NO, NO, NO, NO, NO))
IgnoringOf(nets) == Ignoring(nets[1], nets[2])
fsm_ignore(net1, net2) ==
  IF fsm_isempty(net2) THEN fsm_minimize(net1) ELSE IgnoringOf(Aligned(net1, net2))

fsm_reverse(net) ==
  [fsm_construct_done(<<0, 0>>,
     {<< <<1, a[4]>>, a[2], a[3], <<1, a[1]>> >> : a \in net.arcs}
       \cup {Jump(<<0, 0>>, <<1, q>>) : q \in net.fin},
     {<<1, 0>>}, net.sig) EXCEPT !.hdr.det = NO, !.hdr.eps = NO]

-----------------------------------------------------------------------------
(* Rewriting the arcs.                                                     *)

OneSide(net, side) ==
  LET Kept(k) == IF k = UNKNOWN THEN IDENTITY ELSE k
      closed == fsm_state_close(net.n, {<<a[1], Kept(a[side]), Kept(a[side]), a[4]>> :
                                          a \in net.arcs}, net.fin, net.sig)
  IN  sigma_cleanup(fsm_update_flags(closed, NO, NO, NO, UNK, UNK, UNK), 0)
fsm_upper(net) == OneSide(net, 2)
fsm_lower(net) == OneSide(net, 3)

fsm_invert(net) == [net EXCEPT !.arcs = {<<a[1], a[3], a[2], a[4]>> : a \in @}]

\* original and substitute are names, EPSILON one of them, as the grammar writes it.
Relabelled(net, o, s, sig) ==
  LET New(k) == IF k = o THEN s ELSE k
  IN  [net EXCEPT !.arcs = {<<a[1], New(a[2]), New(a[3]), a[4]>> : a \in @}, !.sig = Without(sig, {o})]
\* Mutant: the claims stay as they were before two names became one.
UndoneClaims(net) == sigma_cleanup(sigma_sort(net), 0)
Undone(net) == sigma_cleanup(fsm_update_flags(sigma_sort(net), NO, NO, NO, NO, NO, NO), 0)
fsm_substitute_symbol(net, original, substitute) ==
  IF original = substitute \/ sigma_find(original, net.sig) = -1 THEN net
  ELSE fsm_determinize(Undone(
         Relabelled(net, sigma_find(original, net.sig),
                     sigma_find(substitute, Named(substitute, net.sig)), Named(substitute, net.sig))))

\* An arc label:label is replaced by a copy of substitute, an arc with the label on
\* one side by its cross product with the other side.
InsertedFor(a, r, sig, sub) ==
  LET Name(k) == IF k < MINSIGMA THEN k ELSE sig[k]
  IN  IF a[2] = r /\ a[3] = r THEN sub
      ELSE fsm_minimize(fsm_cross_product(IF a[2] = r THEN sub ELSE fsm_symbol(Name(a[2])),
                                          IF a[3] = r THEN sub ELSE fsm_symbol(Name(a[3]))))
\* inserted: arc |-> network.
Inserting(one, inserted, sig) ==
  LET Detour(a) ==
        {<< <<a, b[1]>>, b[2], b[3], <<a, b[4]>> >> : b \in ByName(inserted[a], sig)}
        \cup {Jump(<<<<>>, a[1]>>, <<a, 0>>)}
        \cup {Jump(<<a, f>>, <<<<>>, a[4]>>) : f \in inserted[a].fin}
  IN  fsm_construct_done(<<<<>>, 0>>,
        {<< <<<<>>, a[1]>>, a[2], a[3], <<<<>>, a[4]>> >> : a \in one.arcs \ DOMAIN inserted}
          \cup UNION {Detour(a) : a \in DOMAIN inserted},
        {<<<<>>, f>> : f \in one.fin}, sig)
Inserts(one, inserted) ==
  Inserting(one, inserted, FoldSet(LAMBDA a, s : AllNamed(inserted[a], s), one.sig, DOMAIN inserted))
Labelled(one, sub, r) ==
  IF r = -1 THEN one
  ELSE Inserts(one, [a \in {b \in one.arcs : r \in {b[2], b[3]}} |-> InsertedFor(a, r, one.sig, sub)])
LabelledOf(nets, original) == Labelled(nets[1], nets[2], sigma_find(original, nets[1].sig))
fsm_substitute_label(net, original, substitute) ==
  LabelledOf(fsm_merge_sigma(net, substitute), original)

\* Every arc becomes two, the upper symbol and then the lower one; name stands for
\* EPSILON.
Flattened(min, sig, name) ==
  LET Spelled(k) == IF k = EPSILON THEN sigma_find(name, sig) ELSE k
      Row(a) == {<< <<0, a[1]>>, Spelled(a[2]), Spelled(a[2]), <<1, a>> >>,
                 << <<1, a>>, Spelled(a[3]), Spelled(a[3]), <<0, a[4]>> >>}
  IN  fsm_construct_done(<<0, 0>>, UNION {Row(a) : a \in min.arcs}, {<<0, q>> : q \in min.fin}, sig)
FlattenedBy(min, name) ==
  Flattened(min, IF \E a \in min.arcs : EPSILON \in {a[2], a[3]} THEN Named(name, min.sig) ELSE min.sig,
            name)
fsm_flatten(net, name) == FlattenedBy(fsm_minimize(net), name)

\* unknownOnly: mode 1.
WithoutOpen(net, unknownOnly) ==
  LET open == IF unknownOnly THEN {UNKNOWN} ELSE {UNKNOWN, IDENTITY}
  IN  fsm_construct_done(0, {a \in net.arcs : {a[2], a[3]} \cap open = {}}, net.fin, net.sig)
fsm_close_sigma(net, unknownOnly) == fsm_minimize(WithoutOpen(net, unknownOnly))

\* Symbols that have no arc from a state lead to the sink, and stay there.
Numbers(sig) == 2 .. sigma_max(sig)
fsm_add_sink(net, final) ==
  LET sink == net.n
      Missing(q) == {k \in Numbers(net.sig) : \A a \in net.arcs : a[1] = q => a[2] # k}
  IN  fsm_construct_done(0,
        net.arcs \cup {<<sink, k, k, sink>> : k \in Numbers(net.sig)}
          \cup UNION {{<<q, k, k, sink>> : k \in Missing(q)} : q \in 0 .. net.n - 1},
        net.fin \cup (IF final THEN {sink} ELSE {}), net.sig)

\* where: the states that get the loops.
fsm_add_loop(net, marker, where) ==
  LET sig == AllNamed(marker, net.sig)
      at == CASE where = "finals" -> net.fin
              [] where = "nonfinals" -> (0 .. net.n - 1) \ net.fin
              [] OTHER -> 0 .. net.n - 1
  IN  fsm_construct_done(0, net.arcs \cup {<<q, b[2], b[3], q>> : q \in at, b \in ByName(marker, sig)},
                         net.fin, sig)

\* An arc to a final state goes by a state before it where the marker is written.
fsm_mark_fsm_tail(net, marker) ==
  LET sig == AllNamed(marker, net.sig)
      By(q) == IF q \in net.fin THEN <<1, q>> ELSE <<0, q>>
      entered == {a[4] : a \in net.arcs} \cap net.fin
  IN  fsm_construct_done(<<0, 0>>,
        {<< <<0, a[1]>>, a[2], a[3], By(a[4])>> : a \in net.arcs}
          \cup {<< <<1, q>>, b[2], b[3], <<0, q>> >> : q \in entered, b \in ByName(marker, sig)},
        {<<0, q>> : q \in 0 .. net.n - 1}, sig)

\* The one arc x:y of rewr replaces x after what net accepts.
RewrittenLeft(one, arc) ==
  LET x == arc[2]
      y == arc[3]
      sink == one.n
      Has(q, k) == \E a \in one.arcs : a[1] = q /\ a[2] = k
      missing == {<<q, k, IF k = x /\ q \in one.fin THEN y ELSE k, sink>> :
                    <<q, k>> \in {p \in (0 .. one.n - 1) \X (Numbers(one.sig) \cup {x}) : ~ Has(p[1], p[2])}}
      arcs == {<<a[1], a[2], IF a[2] = x /\ a[1] \in one.fin THEN y ELSE a[3], a[4]>> : a \in one.arcs}
      absorbed == {<<sink, k, k, sink>> : k \in IF missing = {} THEN {} ELSE Numbers(one.sig)}
  IN  fsm_construct_done(0, arcs \cup missing \cup absorbed,
                         0 .. IF missing = {} THEN sink - 1 ELSE sink, one.sig)
RewrittenLeftOf(nets) == RewrittenLeft(nets[1], CHOOSE b \in nets[2].arcs : b[1] = 0)
fsm_left_rewr(net, rewr) == RewrittenLeftOf(fsm_merge_sigma(net, rewr))
=============================================================================
