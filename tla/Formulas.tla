------------------------------ MODULE Formulas ------------------------------
(***************************************************************************)
(* The constructions of foma/constructions.c and foma/structures.c that    *)
(* are formulas over the others.  They are written as the code composes    *)
(* them, with the auxiliary symbols it uses and removes again; a call of   *)
(* fsm_minimize around an operand whose reader minimizes it anyway is left *)
(* out.  The options of fsm_compose have the values they start with.       *)
(***************************************************************************)
EXTENDS Rational

Composed(net1, net2) == fsm_compose(net1, net2, FALSE, FALSE)

RECURSIVE Concats(_)
Concats(nets) == IF Len(nets) = 1 THEN Head(nets)
                 ELSE fsm_concat(Head(nets), Concats(Tail(nets)))

Deleted(net) == fsm_cross_product(net, fsm_empty_string)
Inserted(net) == fsm_cross_product(fsm_empty_string, net)

-----------------------------------------------------------------------------

fsm_contains(net) == fsm_concat(fsm_concat(fsm_universal, net), fsm_universal)

\* [?+ A ?* & A ?*] | [A ?+ & A]
Twice(net, plus) ==
  fsm_union(fsm_intersect(Concats(<<plus, net, fsm_universal>>), fsm_concat(net, fsm_universal)),
            fsm_intersect(fsm_concat(net, plus), net))
fsm_contains_one(net) ==
  fsm_minus(fsm_contains(net), fsm_contains(Twice(net, fsm_kleene_plus(fsm_identity))))

fsm_contains_opt_one(net) ==
  fsm_union(fsm_contains_one(net), fsm_complement(fsm_contains(net)))

fsm_term_negation(net) == fsm_intersect(fsm_identity, fsm_complement(net))

Not(name) == fsm_term_negation(fsm_symbol(name))          \* any other symbol
Avoiding(name) == fsm_kleene_star(Not(name))              \* \x*

fsm_precedes(net1, net2) ==
  fsm_complement(fsm_contains(Concats(<<net2, fsm_universal, net1>>)))
fsm_follows(net1, net2) ==
  fsm_complement(fsm_contains(Concats(<<net1, fsm_universal, net2>>)))

\* [~[?* [A-0] ?*] [A .x. B]]* ~[?* [A-0] ?*]
Replacing(none, cross) ==
  fsm_concat(fsm_minimize(fsm_kleene_star(fsm_minimize(fsm_concat(none, cross)))), none)
NoneOf(net) ==
  fsm_minimize(fsm_complement(fsm_minimize(
    fsm_contains(fsm_minimize(fsm_intersect(net, fsm_kleene_plus(fsm_identity)))))))
fsm_simple_replace(net1, net2) ==
  Replacing(NoneOf(net1), fsm_minimize(fsm_cross_product(net1, net2)))

fsm_priority_union_upper(net1, net2) ==
  fsm_union(net1, Composed(fsm_complement(fsm_upper(net1)), net2))
fsm_priority_union_lower(net1, net2) ==
  fsm_union(net1, Composed(net2, fsm_complement(fsm_lower(net1))))
fsm_lenient_compose(net1, net2) == fsm_priority_union_upper(Composed(net1, net2), net1)

-----------------------------------------------------------------------------
(* Quotients and internal ignoring.                                        *)

fsm_quotient_left(net1, net2) ==
  fsm_lower(Composed(net2, fsm_concat(Deleted(net1), fsm_universal)))
fsm_quotient_right(net1, net2) ==
  fsm_lower(Composed(net1, fsm_concat(fsm_universal, Deleted(net2))))

\* The numbers are not closed up when the auxiliary symbol goes.
Dropped(net, name) == [net EXCEPT !.sig = sigma_remove(name, @)]

\* inner: the strings without the separator.
Interleaving(net1, net2, sep, inner) ==
  fsm_lower(Composed(
    fsm_intersect(fsm_ignore(net2, Concats(<<sep, inner, sep>>)), fsm_ignore(net1, sep)),
    fsm_kleene_star(fsm_concat(fsm_kleene_star(Deleted(Not(Separator))),
                               fsm_optionality(Concats(<<Deleted(sep), inner, Deleted(sep)>>))))))
fsm_quotient_interleave(net1, net2) ==
  Dropped(Interleaving(net1, net2, fsm_symbol(Separator), Avoiding(Separator)), Separator)

IgnoringInside(nets, mark) ==
  fsm_lower(Composed(
    fsm_ignore(nets[1], mark),
    Composed(fsm_complement(fsm_union(fsm_concat(mark, fsm_universal), fsm_concat(fsm_universal, mark))),
             fsm_simple_replace(mark, nets[2]))))
fsm_ignore_internal(net1, net2) ==
  IF fsm_isempty(net2) THEN fsm_minimize(net1)
  ELSE Dropped(IgnoringInside(Aligned(net1, net2), fsm_symbol(Inner)), Inner)

-----------------------------------------------------------------------------
(* Context restriction: X only between a left and a right context of LR.   *)

\* A context that is not given is the empty string: it stays as it is.
Context(net) ==
  IF net = fsm_empty_string THEN net
  ELSE sigma_sort([net EXCEPT !.sig = sigma_substitute(Boundary, BoundaryCopy, sigma_add(Var, @))])

RECURSIVE Between(_, _, _, _)
Between(contexts, var, notvar, acc) ==
  IF contexts = <<>> THEN acc
  ELSE Between(Tail(contexts), var, notvar,
         fsm_minimize(fsm_union(
           Concats(<<Context(Head(contexts)[1]), var, notvar, var, Context(Head(contexts)[2])>>), acc)))

\* X stands somewhere without a context of LR.
Unlicensed(X, LR, var, notvar) ==
  fsm_intersect(
    Concats(<<notvar, var, sigma_sort([X EXCEPT !.sig = sigma_add(Var, @)]), var, notvar>>),
    fsm_complement(Concats(<<notvar, Between(LR, var, notvar, fsm_empty_set), notvar>>)))
Unmark(bad) == IF sigma_find(Var, bad.sig) = -1 THEN bad ELSE fsm_substitute_symbol(bad, Var, EPSILON)
\* Between two boundaries, that are then erased.
Bounded(all, copy) ==
  IF sigma_find(BoundaryCopy, all.sig) = -1 THEN all
  ELSE fsm_substitute_symbol(
         fsm_intersect(Concats(<<copy, Avoiding(BoundaryCopy), copy>>), all), BoundaryCopy, EPSILON)
fsm_context_restrict(X, LR) ==
  Bounded(fsm_complement(Unmark(Unlicensed(X, LR, fsm_symbol(Var), fsm_minimize(Avoiding(Var))))),
          fsm_symbol(BoundaryCopy))

-----------------------------------------------------------------------------
(* Equal substrings: the strings of net where everything between left and  *)
(* right is the same.                                                      *)

fsm_symbol_occurs(net, name, sides) ==
  \E a \in net.arcs, i \in sides : a[i] = sigma_find(name, net.sig)

\* The symbols of the pairs on the arcs; no arcs, no network.
fsm_sigma_pairs_net(net) ==
  LET pairs == {<<0, a[2], a[3], 1>> : a \in net.arcs}
      built == fsm_state_close(2, pairs, {1}, net.sig)
  IN  IF pairs = {} THEN fsm_empty_set
      ELSE sigma_cleanup([built EXCEPT !.hdr.min = YES, !.hdr.loop = YES], 1)

fsm_sigma_net(net) ==
  LET built == fsm_state_close(2, {<<0, k, k, 1>> : k \in DOMAIN net.sig \ {EPSILON, UNKNOWN}},
                               {1}, net.sig)
  IN  sigma_cleanup([built EXCEPT !.hdr.min = YES, !.hdr.loop = YES], 1)

Brackets(sig) == sigma_add(RightBracket, sigma_add(LeftBracket, sig))
Bracketing(left, right, LB, RB, neither) ==
  fsm_concat(
    fsm_kleene_star(fsm_concat(neither,
      fsm_union(fsm_concat(left, Inserted(LB)), fsm_concat(Inserted(RB), right)))), neither)
\* Two bracketed substrings at least.
BracketFilter(NOBR, rest) == Concats(<<NOBR, rest, fsm_kleene_plus(rest)>>)
RemoveBrackets(LB, RB, NOBR) ==
  fsm_kleene_star(fsm_union(Deleted(LB), fsm_union(Deleted(RB), NOBR)))
\* The symbols that stand between brackets.
Inside(Leq, LB, RB, NORB, outside) ==
  fsm_sigma_pairs_net(fsm_lower(Composed(Leq,
    fsm_concat(fsm_kleene_star(Concats(<<outside, Deleted(LB), NORB, Deleted(RB)>>)), outside))))
\* Brackets with nothing left in them go, if all are empty.
Cleanup(LB, RB, NOLB) ==
  fsm_minimize(fsm_union(
    fsm_concat(NOLB, fsm_kleene_star(Concats(<<Deleted(LB), Deleted(RB), NOLB>>))),
    fsm_complement(fsm_contains(fsm_concat(LB, RB)))))
\* Every left bracket moves over the same symbol.
Move(syms, LB, NOLB) ==
  LET Over(name) == fsm_concat(
        fsm_kleene_star(Concats(<<NOLB, Deleted(LB), fsm_symbol(name), Inserted(LB)>>)), NOLB)
  IN  fsm_minimize(FoldSet(LAMBDA x, m : fsm_union(m, Over(x)), fsm_empty_string, syms))

RECURSIVE Zapped(_, _, _)
Zapped(clean, cleanup, move) ==
  IF fsm_symbol_occurs(clean, LeftBracket, {3})
  THEN Zapped(Composed(Composed(clean, move), cleanup), cleanup, move) ELSE clean

Zapping(Leq, cleanup, move) == Zapped(Composed(Leq, cleanup), cleanup, move)
Unbracketed(all) ==
  sigma_sort(fsm_compact([all EXCEPT !.sig = sigma_remove(RightBracket, sigma_remove(LeftBracket, @))]))
\* marked: net with the brackets in its alphabet; bypass: what has no two substrings.
Equalized(net, marked, Leq, bypass, syms, LB, RB, NOLB) ==
  IF syms = {} THEN net
  ELSE Unbracketed(fsm_minimize(Composed(marked, fsm_union(
         fsm_lower(Zapping(Leq, Cleanup(LB, RB, NOLB), Move(syms, LB, NOLB))), bypass))))
Equalizing(net, marked, bracketed, filter, LB, RB, NOBR, NOLB) ==
  Equalized(net, marked, Composed(bracketed, filter),
    fsm_lower(Composed(bracketed, Composed(fsm_complement(filter), RemoveBrackets(LB, RB, NOBR)))),
    Names(Inside(Composed(bracketed, filter), LB, RB, Avoiding(RightBracket),
                 fsm_kleene_star(Deleted(Not(LeftBracket)))).sig), LB, RB, NOLB)
EqualBetween(net, marked, left, right, LB, RB, NOBR) ==
  Equalizing(net, marked,
    Composed(marked, Bracketing(left, right, LB, RB, fsm_complement(fsm_contains(fsm_union(left, right))))),
    BracketFilter(NOBR, Concats(<<LB, NOBR, RB, NOBR>>)), LB, RB, NOBR, Avoiding(LeftBracket))
EqualWith(net, left, right, LB, RB) ==
  EqualBetween(net, sigma_sort([net EXCEPT !.sig = Brackets(@)]), left, right, LB, RB,
               fsm_minimize(fsm_complement(fsm_contains(fsm_union(LB, RB)))))
fsm_equal_substrings(net, left, right) ==
  EqualWith(net, left, right, fsm_symbol(LeftBracket), fsm_symbol(RightBracket))

-----------------------------------------------------------------------------
(* Formulas of logic.                                                      *)

\* \x* x \x* x \x*
Quantified(x, avoid) == Concats(<<avoid, x, avoid, x, avoid>>)
fsm_quantifier(name) == Quantified(fsm_symbol(name), Avoiding(name))

union_quantifiers(names) ==
  LET sig == FoldSet(LAMBDA x, s : sigma_add(x, s), NoSigma, names)
  IN  Network(1, {<<0, k, k, 0>> : k \in DOMAIN sig}, {0}, sig, Claims(YES, YES, YES, YES, NO, NO))

\* x < y = \y* x \y* [x | y Q* x] ?*
Preceding(x, y, avoid, quantifiers) ==
  Concats(<<avoid, x, avoid,
            fsm_union(x, Concats(<<y, union_quantifiers(quantifiers), x>>)), fsm_universal>>)
fsm_logical_precedence(name1, name2, quantifiers) ==
  Preceding(fsm_symbol(name1), fsm_symbol(name2), Avoiding(name2), quantifiers)

\* x = y = ?* [x y|y x]/Q ?* [x y|y x]/Q ?*
Meeting(both) == Concats(<<fsm_universal, both, fsm_universal, both, fsm_universal>>)
EitherWay(x, y) == fsm_union(fsm_concat(x, y), fsm_concat(y, x))
fsm_logical_eq(name1, name2, quantifiers) ==
  Meeting(fsm_ignore(EitherWay(fsm_symbol(name1), fsm_symbol(name2)), union_quantifiers(quantifiers)))
=============================================================================
