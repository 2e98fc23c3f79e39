------------------------------- MODULE MCLexc -------------------------------
EXTENDS Lexc, Formulas

a == 100
b == 101
ab == 50      \* a name spelled ab


W(word, to) == [word |-> word, to |-> to]
P(upper, lower, to) == [upper |-> upper, lower |-> lower, to |-> to]
N(net, to) == [network |-> net, to |-> to]

MCLines ==
  {W(<<a, b, a>>, "#"), W(<<b, a>>, "#"), W(<<b, b, a>>, "Stem"), W(<<b>>, "Root"),
   P(<<a, b>>, <<b>>, "#"), P(<<0, a>>, <<0, a>>, "#"),
   P(<<0>>, <<0>>, "#"), N(fsm_term_negation(fsm_symbol(b)), "#"),
   N(fsm_minimize(fsm_cross_product(fsm_symbol(a), fsm_empty_string)), "#")}
MCSpelling == (ab :> <<a, b>>)
=============================================================================
