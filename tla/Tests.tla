------------------------------- MODULE Tests -------------------------------
(***************************************************************************)
(* The questions foma answers about a network (foma/structures.c), and the *)
(* networks it extracts on the way: a walk that keeps, for every state,    *)
(* what one side of the word is ahead of the other.                        *)
(***************************************************************************)
EXTENDS Formulas

ArcsOf(net, q) == {a \in net.arcs : a[1] = q}

\* The test asks the line after the first one for state 0 and for state -1, the end.
Universal(only) ==
  LET next == IF Cardinality(ArcsOf(only, 0)) > 1 THEN 0 ELSE IF only.n > 1 THEN 1 ELSE -1
  IN  /\ 0 \in only.fin /\ next = 0
      /\ <<0, IDENTITY, IDENTITY, 0>> \in only.arcs
      /\ next = -1 /\ sigma_max(only.sig) < MINSIGMA
fsm_isuniversal(net) == Universal(fsm_compact(fsm_minimize(net)))

\* No input symbol twice in a state, and EPSILON only by itself.
fsm_issequential(net) ==
  \A a \in net.arcs, b \in net.arcs :
    a[1] = b[1] /\ a # b => a[2] # b[2] /\ a[2] # EPSILON

-----------------------------------------------------------------------------
(* The debt of a state: what the upper side is ahead, what the lower side  *)
(* is ahead; one of them is empty.                                         *)

Even == << <<>>, <<>> >>
Symbol(k) == IF k = EPSILON THEN <<>> ELSE <<k>>
Ahead(debt, a) ==
  LET up == debt[1] \o Symbol(a[2])
      low == debt[2] \o Symbol(a[3])
  IN  IF up # <<>> /\ low # <<>> THEN <<Tail(up), Tail(low)>> ELSE <<up, low>>

\* Mutant: what is still owed in a final state is not looked at.
MismatchNotFinal(net, debt, a) ==
  LET up == debt[1] \o Symbol(a[2])
      low == debt[2] \o Symbol(a[3])
  IN  \/ UNKNOWN \in {a[2], a[3]}
      \/ a[2] = IDENTITY /\ debt # Even
      \/ up # <<>> /\ low # <<>> /\ Head(up) # Head(low)

\* The arc and the debt do not go together.
Mismatch(net, debt, a) ==
  LET up == debt[1] \o Symbol(a[2])
      low == debt[2] \o Symbol(a[3])
  IN  \/ UNKNOWN \in {a[2], a[3]}
      \/ a[2] = IDENTITY /\ debt # Even
      \/ up # <<>> /\ low # <<>> /\ Head(up) # Head(low)
      \/ a[4] \in net.fin /\ Ahead(debt, a) # Even

\* The walk: the debt that every state is first met with, and the arcs that fail.
RECURSIVE Walk(_, _, _, _)
Walk(net, agenda, debts, failed) ==
  IF agenda = <<>> THEN [debts |-> debts, failed |-> failed]
  ELSE LET a == Head(agenda)
           new == Ahead(debts[a[1]], a)
       IN  IF \/ Mismatch(net, debts[a[1]], a)
              \/ a[4] \in DOMAIN debts /\ debts[a[4]] # new
           THEN Walk(net, Tail(agenda), debts, failed \cup {a})
           ELSE IF a[4] \in DOMAIN debts THEN Walk(net, Tail(agenda), debts, failed)
           ELSE Walk(net, Listed(ArcsOf(net, a[4])) \o Tail(agenda), Bound(debts, a[4], new), failed)

Walked(net) == Walk(net, Listed(ArcsOf(net, 0)), 0 :> Even, {})

\* The string of a debt is freed when the next arc is followed.  It is not read again
\* when it has one symbol, and its state one way in and one way out that uses it up.
ReadsFreed(net, debts) ==
  \E q \in DOMAIN debts :
    /\ debts[q] # Even
    /\ \/ Len(debts[q][1]) + Len(debts[q][2]) > 1
       \/ Cardinality(ArcsOf(net, q)) > 1
       \/ Cardinality({a \in net.arcs : a[4] = q}) > 1
       \/ \E a \in ArcsOf(net, q) : Len(Ahead(debts[q], a)[1]) + Len(Ahead(debts[q], a)[2]) > 1

\* The answers the test may give: any, once it has compared freed strings.
Answer(min, walk) == IF ReadsFreed(min, walk.debts) THEN BOOLEAN ELSE {walk.failed = {}}
AnswerFor(min) == Answer(min, Walked(min))
fsm_isidentity(net) == AnswerFor(fsm_minimize(net))

fsm_isfunctional(net) == fsm_isidentity(fsm_minimize(Composed(fsm_invert(net), net)))

\* Every arc of a state gets a lower symbol of its own; names are made up when the
\* alphabet is too small.  keep: arcs that have EPSILON there keep it.
Lowered(wide, keep) ==
  LET Own(q) == LET row == Listed({a \in ArcsOf(wide, q) : ~ keep \/ a[3] # EPSILON})
                IN  {<<q, IF row[i][2] = IDENTITY THEN UNKNOWN ELSE row[i][2], 2 + i, row[i][4]>> :
                       i \in DOMAIN row}
  IN  [wide EXCEPT !.arcs = UNION {Own(q) : q \in 0 .. wide.n - 1}
                            \cup {a \in @ : keep /\ a[3] = EPSILON}]
Widened(min) ==
  LET widest == Max({Cardinality(ArcsOf(min, q)) : q \in 0 .. min.n - 1})
  IN  sigma_sort([min EXCEPT !.sig = FoldSet(LAMBDA k, s : sigma_add(NewSym(k), s), @,
                                             1 .. widest - (sigma_max(min.sig) - 2))])

fsm_lowerdet(net) == Lowered(Widened(fsm_minimize(net)), FALSE)
fsm_lowerdeteps(net) == Lowered(Widened(fsm_minimize(net)), TRUE)

OwnIsIdentity(own) == fsm_isidentity(fsm_minimize(Composed(fsm_invert(own), own)))
fsm_isunambiguous(net) == OwnIsIdentity(fsm_lowerdet(net))

-----------------------------------------------------------------------------

\* The inputs with a path that fails; its arcs get a lower symbol that is then
\* looked for.  The operand may not be empty.
Killing(min, failed, k) ==
  [min EXCEPT !.arcs = {IF a \in failed THEN <<a[1], a[2], k, a[4]>> ELSE a : a \in @},
              !.sig = With(@, k, Kill)]
\* Mutant: the numbers are not closed up.
WithoutKillGap(net) == [net EXCEPT !.sig = sigma_remove(Kill, @)]
WithoutKill(net) == sigma_sort([net EXCEPT !.sig = sigma_remove(Kill, @)])
NonidentityOf(min) ==
  WithoutKill(fsm_upper(Composed(
    sigma_sort(Killing(min, Walked(min).failed, Max({MINSIGMA, sigma_max(min.sig) + 1}))),
    fsm_contains(fsm_symbol(Kill)))))
fsm_extract_nonidentity(net) == NonidentityOf(fsm_minimize(net))

AmbiguousFor(own) ==
  fsm_topsort(fsm_minimize(fsm_upper(
    Composed(own, fsm_extract_nonidentity(Composed(fsm_invert(own), own))))))
fsm_extract_ambiguous_domain(net) ==
  sigma_sort(fsm_compact(sigma_cleanup(AmbiguousFor(fsm_lowerdet(net)), 1)))

fsm_extract_ambiguous(net) ==
  fsm_topsort(fsm_minimize(Composed(fsm_extract_ambiguous_domain(net), net)))
fsm_extract_unambiguous(net) ==
  fsm_topsort(fsm_minimize(Composed(fsm_complement(fsm_extract_ambiguous_domain(net)), net)))

fsm_markallfinal(net) == [net EXCEPT !.fin = 0 .. net.n - 1]
=============================================================================
