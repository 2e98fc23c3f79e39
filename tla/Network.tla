------------------------------ MODULE Network ------------------------------
(***************************************************************************)
(* The networks of foma: struct fsm with its states, its alphabet and the  *)
(* claims its header makes, and the functions that build, trim,            *)
(* determinize and minimize one.                                           *)
(*                                                                         *)
(* net.n     the states are 0 .. n-1, state 0 is the start state           *)
(* net.arcs  the arcs <<source, in, out, target>>, symbols by number       *)
(* net.fin   the final states                                              *)
(* net.sig   the alphabet: number |-> name; 0, 1 and 2 name themselves     *)
(* net.hdr   the claims is_deterministic, is_pruned, is_minimized,         *)
(*           is_epsilon_free, is_loop_free and is_completed                *)
(*                                                                         *)
(* A name is a number too, in the order of strcmp.  The order of lines and *)
(* the numbers of new states are not kept, but for the start state's.      *)
(***************************************************************************)
EXTENDS Integers, Sequences, FiniteSets, FiniteSetsExt, TLC

EPSILON == 0
UNKNOWN == 1
IDENTITY == 2
MINSIGMA == 3

YES == "yes"
NO == "no"
UNK == "unknown"

Claims(det, pru, min, eps, loop, comp) ==
  [det |-> det, pru |-> pru, min |-> min, eps |-> eps, loop |-> loop, comp |-> comp]

fsm_update_flags(net, det, pru, min, eps, loop, comp) ==
  [net EXCEPT !.hdr = Claims(det, pru, min, eps, loop, comp)]

NoSigma == <<>>                                  \* sigma_create: number -1
sigma_max(sig) == IF DOMAIN sig = {} THEN -1 ELSE Max(DOMAIN sig)
Bound(f, k, v) == [j \in DOMAIN f \cup {k} |-> IF j = k THEN v ELSE f[j]]
With(sig, k, name) == Bound(sig, k, name)
Without(sig, K) == [k \in DOMAIN sig \ K |-> sig[k]]

Network(n, arcs, fin, sig, hdr) ==
  [n |-> n, arcs |-> arcs, fin |-> fin, sig |-> sig, hdr |-> hdr]

-----------------------------------------------------------------------------
(* The simplest networks.                                                  *)

Exact == Claims(YES, YES, YES, YES, YES, NO)

fsm_empty_set == Network(1, {}, {}, NoSigma, Exact)
fsm_empty_string == Network(1, {}, {0}, NoSigma, Exact)
fsm_identity ==
  Network(2, {<<0, IDENTITY, IDENTITY, 1>>}, {1}, IDENTITY :> IDENTITY, Exact)
fsm_universal ==
  Network(1, {<<0, IDENTITY, IDENTITY, 0>>}, {0}, IDENTITY :> IDENTITY,
          Claims(YES, YES, YES, YES, NO, NO))

-----------------------------------------------------------------------------
(* Building a network arc by arc.                                          *)

\* The nodes that arcs lead to from those of new; seen holds those found before.
RECURSIVE Reached(_, _, _)
Reached(arcs, seen, new) ==
  IF new = {} THEN seen
  ELSE LET all == seen \cup new
       IN  Reached(arcs, all, {a[4] : a \in {b \in arcs : b[1] \in new}} \ all)

\* What fsm_state_add_arc notes while the arcs come in: an arc EPSILON:EPSILON,
\* and a symbol pair that leads from one state to two.
HasEpsilonArc(arcs) == \E a \in arcs : a[2] = EPSILON /\ a[3] = EPSILON
Branches(arcs) ==
  \E a \in arcs, b \in arcs : a[1] = b[1] /\ a[2] = b[2] /\ a[3] = b[3] /\ a[4] # b[4]

Closed(n, arcs, fin, sig) ==
  Network(n, arcs, fin, sig,
          Claims(IF HasEpsilonArc(arcs) \/ Branches(arcs) THEN NO ELSE YES, UNK, UNK,
                 IF HasEpsilonArc(arcs) THEN NO ELSE YES, UNK, UNK))

\* fsm_state_close; an arc EPSILON:EPSILON from a state to itself is never added.
fsm_state_close(n, arcs, fin, sig) ==
  Closed(n, {a \in arcs : ~ (a[2] = EPSILON /\ a[3] = EPSILON /\ a[1] = a[4])}, fin, sig)

\* The members of S in some order.
Listed(S) == FoldSet(LAMBDA x, list : Append(list, x), <<>>, S)

\* The start node is 0, the others follow.
Numbering(start, nodes) ==
  LET order == <<start>> \o Listed(nodes \ {start})
  IN  [x \in nodes \cup {start} |-> (CHOOSE i \in DOMAIN order : order[i] = x) - 1]

Renamed(no, arcs, fin, sig) ==
  fsm_state_close(Cardinality(DOMAIN no),
    {<<no[a[1]], a[2], a[3], no[a[4]]>> : a \in {b \in arcs : b[1] \in DOMAIN no}},
    {no[x] : x \in fin \cap DOMAIN no}, sig)

\* A construction that numbers the nodes as it meets them, from node start on.
Built(start, arcs, fin, sig) == Renamed(Numbering(start, Reached(arcs, {}, {start})), arcs, fin, sig)

-----------------------------------------------------------------------------
(* Trimming.                                                               *)

Coaccessible(net) ==
  Reached({<<a[4], 0, 0, a[1]>> : a \in net.arcs}, {}, net.fin)

Trimmed(net, live) ==
  LET no == [q \in live \cup {0} |-> IF q = 0 THEN 0 ELSE 1 + Cardinality({p \in live \ {0} : p < q})]
  IN  Network(Cardinality(live),
              {<<no[a[1]], a[2], a[3], no[a[4]]>> :
                 a \in {b \in net.arcs : b[1] \in live /\ b[4] \in live}},
              {no[q] : q \in net.fin}, net.sig, [net.hdr EXCEPT !.pru = YES])

fsm_coaccessible(net) ==
  IF net.fin = {} THEN Network(1, {}, {}, NoSigma, [net.hdr EXCEPT !.pru = YES])
  ELSE Trimmed(net, Coaccessible(net))

\* What is deterministic already keeps its unreachable states; trimming then drops
\* state 0 when only they lead to a final one, and the others have numbers from 1 up to
\* their count: what follows reads past its tables.
LosesStart(net) == Coaccessible(net) # {} /\ 0 \notin Coaccessible(net)

\* fsm_topsort renumbers the states and finds out whether there is a loop; a state that
\* is not reached from state 0 counts as one.
HasLoop(net) ==
  \E q \in 0 .. net.n - 1 :
    q \in Reached(net.arcs, {}, {a[4] : a \in {b \in net.arcs : b[1] = q}})

Unreached(net) == (0 .. net.n - 1) \ Reached(net.arcs, {}, {0})
fsm_topsort(net) == [net EXCEPT !.hdr.loop = IF HasLoop(net) \/ Unreached(net) # {} THEN NO ELSE YES]

-----------------------------------------------------------------------------
(* Determinizing and minimizing.                                           *)

EpsilonClosure(arcs, Q) ==
  Reached({a \in arcs : a[2] = EPSILON /\ a[3] = EPSILON}, {}, Q)

\* The arcs that leave the set Q of states.
Leaving(arcs, Q) ==
  {<<Q, p[1], p[2],
     EpsilonClosure(arcs, {a[4] : a \in {b \in arcs : b[1] \in Q /\ <<b[2], b[3]>> = p}})>> :
     p \in {<<a[2], a[3]>> : a \in {b \in arcs : b[1] \in Q}} \ {<<EPSILON, EPSILON>>}}

RECURSIVE SetArcs(_, _, _, _)      \* the sets met, those to expand, the arcs so far
SetArcs(arcs, seen, new, found) ==
  IF new = {} THEN found
  ELSE LET more == UNION {Leaving(arcs, Q) : Q \in new}
       IN  SetArcs(arcs, seen \cup new, {a[4] : a \in more} \ (seen \cup new), found \cup more)

\* The subset construction from the set T0; a set is final when a member is.
Subsets(net, T0, arcs) ==
  Built(T0, arcs, {Q \in {T0} \cup {a[4] : a \in arcs} : Q \cap net.fin # {}}, net.sig)
SubsetsFrom(net, T0) == Subsets(net, T0, SetArcs(net.arcs, {}, {T0}, {}))

fsm_determinize(net) ==
  IF net.hdr.det = YES THEN net
  ELSE IF ~ HasEpsilonArc(net.arcs) /\ ~ Branches(net.arcs)
       THEN [net EXCEPT !.hdr.det = YES, !.hdr.eps = YES]
       ELSE SubsetsFrom(net, EpsilonClosure(net.arcs, {0}))

\* The classes of the coarsest partition that tells final states from others and
\* states from others by where a pair leads: class[q] is the least state of q's.
Refined(net, cls) ==
  LET key == [q \in DOMAIN cls |-> <<cls[q], {<<a[2], a[3], cls[a[4]]>> :
                                                a \in {b \in net.arcs : b[1] = q}}>>]
  IN  [q \in DOMAIN cls |-> Min({p \in DOMAIN cls : key[p] = key[q]})]

RECURSIVE Stable(_, _, _)
Stable(net, cls, finer) == IF finer = cls THEN cls ELSE Stable(net, finer, Refined(net, finer))

Classes(net) ==
  LET Q == 0 .. net.n - 1
  IN  Stable(net, [q \in Q |-> -1], [q \in Q |-> Min({p \in Q : (p \in net.fin) = (q \in net.fin)})])

Folded(net, cls) ==
  Renamed(Numbering(cls[0], {cls[q] : q \in DOMAIN cls}),
          {<<cls[a[1]], a[2], a[3], cls[a[4]]>> : a \in net.arcs}, {cls[q] : q \in net.fin}, net.sig)

fsm_minimize_hop(net) ==
  IF net.fin = {} THEN fsm_empty_set ELSE Folded(net, Classes(net))

\* fsm_minimize step by step: each is left out when the header says it is done.
Determinate(net) == IF net.hdr.det = YES THEN net ELSE fsm_determinize(net)
Pruned(net) == IF net.hdr.pru = YES THEN net ELSE fsm_coaccessible(net)
Minimal(net) == IF net.hdr.min = YES THEN net
                ELSE fsm_update_flags(fsm_minimize_hop(net), YES, YES, YES, YES, UNK, UNK)
fsm_minimize(net) == Minimal(Pruned(Determinate(net)))

\* The test itself, of a network that is minimal already.
Trivial(net) == net.fin = {} /\ net.arcs = {} /\ net.n = 1
fsm_isempty(net) == Trivial(fsm_minimize(net))
=============================================================================
