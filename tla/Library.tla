------------------------------ MODULE Library ------------------------------
(***************************************************************************)
(* The library of foma as its callers see it: a network at hand, the       *)
(* functions that make another one of it and those that answer a question. *)
(* The result of a call is the network at hand of the next, with the       *)
(* alphabet and the claims the last call left in it.                       *)
(*                                                                         *)
(* Every call is an action, on copies of its operands, for it uses them    *)
(* up.  fsm_equivalent may leave pairs on the integer stack, which the     *)
(* next product takes for its own.                                         *)
(***************************************************************************)
EXTENDS FlagElim

CONSTANTS
  Start,       \* the networks to begin with
  Operands,    \* the second operands: networks for a first call, for later ones
  Sym,         \* the names given to functions that take one: x, y and a marker
  MaxCalls,    \* bound on the calls in a row
  MaxStates    \* bound on the states of a network that every function works on

ASSUME LibraryAssumption ==
  /\ DOMAIN Sym = {"x", "y", "marker"}
  /\ MaxCalls \in Nat \ {0}
  /\ MaxStates \in Nat \ {0}

VARIABLES
  net,         \* the network at hand
  call,        \* the call just made: function, operands, result, answer
  left,        \* int_stack: "clean", or "pairs" of another call on it, or "mixed" up
  calls        \* the number of calls so far

vars == <<net, call, left, calls>>

NoCall == [op |-> "none", args |-> <<>>, out |-> fsm_empty_set, answer |-> FALSE]

Init ==
  /\ net \in Start
  /\ call = NoCall
  /\ left = "clean"
  /\ calls = 0

-----------------------------------------------------------------------------
(* What the code assumes of its operands.                                  *)

Acceptor(n) == \A a \in n.arcs : a[2] = a[3] /\ a[2] # UNKNOWN
GapFree(n) == Real(n.sig) = MINSIGMA .. sigma_max(n.sig) \/ Real(n.sig) = {}
Deterministic(n) == ~ HasEpsilonArc(n.arcs) /\ ~ Branches(n.arcs)
Finite(n) == ~ HasLoop(n)
Knows(n, name) == name \in Names(n.sig)
\* What is on the arcs is in the alphabet, and a special symbol for the others if one of
\* them is on an arc: fsm_merge_sigma looks there only.
Declared(n) ==
  /\ \A a \in n.arcs : {a[2], a[3]} \ {EPSILON, UNKNOWN, IDENTITY} \subseteq DOMAIN n.sig
  /\ (\E a \in n.arcs : {a[2], a[3]} \cap {UNKNOWN, IDENTITY} # {})
     => {UNKNOWN, IDENTITY} \cap DOMAIN n.sig # {}
HasWords(n) == Reached(n.arcs, {}, {0}) \cap n.fin # {}
\* A start state that leads to a final one, if there is one: fsm_coaccessible numbers
\* another state 0 otherwise.
Live(n) == n.fin = {} \/ 0 \in Coaccessible(n)

-----------------------------------------------------------------------------
(* A call.                                                                 *)

Ready ==
  /\ call.op = "none"
  /\ left # "mixed"
  /\ calls < MaxCalls
  /\ Declared(net) /\ GapFree(net) /\ Live(net)

Made(op, args, out) ==
  /\ net' = out
  /\ call' = [op |-> op, args |-> args, out |-> out, answer |-> FALSE]
  /\ calls' = calls + 1

Makes(op, args, out) == left = "clean" /\ Made(op, args, out) /\ UNCHANGED left

\* What becomes of the pairs when n is minimized: fsm_determinize clears the stack but
\* first takes what it finds there for EPSILON arcs, if there are such arcs at all;
\* fsm_coaccessible takes it for states unless it has marked every state before.
Meets(n) ==
  IF n.hdr.det # YES THEN IF HasEpsilonArc(n.arcs) THEN "mixed" ELSE "clean"
  ELSE IF n.hdr.pru = YES THEN "pairs"
  ELSE IF Coaccessible(n) = 0 .. n.n - 1 THEN "clean" ELSE "mixed"
Met(n1, n2) == IF left = "clean" THEN "clean"
               ELSE IF Meets(n1) = "pairs" THEN Meets(n2) ELSE Meets(n1)

\* Only calls that minimize their operands first are followed when there are pairs.
After(op, args, out, mixed) ==
  IF Met(args[1], args[Len(args)]) \in mixed
  THEN left' = "mixed" /\ UNCHANGED <<net, call, calls>>
  ELSE Made(op, args, out) /\ left' = "clean"

\* A product pushes its own pairs on what is there.
Multiplies(op, args, out) == After(op, args, out, {"pairs", "mixed"})
\* fsm_minus clears the stack before.
Clears(op, args, out) == After(op, args, out, {"mixed"})

Answers(op, args, answer) ==
  /\ left = "clean"
  /\ call' = [op |-> op, args |-> args, out |-> net, answer |-> answer]
  /\ calls' = calls + 1
  /\ UNCHANGED <<net, left>>

-----------------------------------------------------------------------------

Spliced(o) ==
  \/ Makes("concat", <<net, o>>, fsm_concat(net, o))
  \/ Makes("union", <<net, o>>, fsm_union(net, o))
  \/ Makes("substitute_label", <<net, o>>, fsm_substitute_label(net, Sym["x"], o))
     /\ Acceptor(net) /\ Acceptor(o)
  \/ Makes("ignore", <<net, o>>, fsm_ignore(net, o)) /\ Acceptor(net) /\ Acceptor(o)

Repetition ==
  \/ Makes("kleene_star", <<net>>, fsm_kleene_star(net))
  \/ Makes("kleene_plus", <<net>>, fsm_kleene_plus(net))
  \/ Makes("optionality", <<net>>, fsm_optionality(net))
  \/ Makes("concat_m_n", <<net>>, fsm_concat_m_n(net, 1, 2))

Boolean(o) ==
  /\ Acceptor(net)
  /\ \/ /\ Acceptor(o)
        /\ \/ Multiplies("intersect", <<net, o>>, fsm_intersect(net, o))
           \/ Clears("minus", <<net, o>>, fsm_minus(net, o))
           \/ /\ HasWords(net) /\ HasWords(o)
              /\ Multiplies("shuffle", <<net, o>>, fsm_shuffle(net, o))
     \/ Makes("complete", <<net>>, fsm_complete(net))
     \/ Makes("complement", <<net>>, fsm_complement(net))
     \/ Makes("term_negation", <<net>>, fsm_term_negation(net))

Relational(o) ==
  \/ Multiplies("compose", <<net, o>>, fsm_compose(net, o, FALSE, FALSE))
  \/ Multiplies("compose", <<net, o>>, fsm_compose(net, o, TRUE, FALSE))
  \/ Multiplies("compose_flags", <<net, o>>, fsm_compose(net, o, FALSE, TRUE))
  \/ /\ Acceptor(net) /\ Acceptor(o)
     /\ Multiplies("cross_product", <<net, o>>, fsm_cross_product(net, o))
  \/ Makes("priority_union_upper", <<net, o>>, fsm_priority_union_upper(net, o))
  \/ Makes("priority_union_lower", <<net, o>>, fsm_priority_union_lower(net, o))
  \/ Makes("lenient_compose", <<net, o>>, fsm_lenient_compose(net, o))
  \/ Makes("upper", <<net>>, fsm_upper(net))
  \/ Makes("lower", <<net>>, fsm_lower(net))
  \/ Makes("invert", <<net>>, fsm_invert(net))
  \/ Makes("reverse", <<net>>, fsm_reverse(net))

\* The network and its alphabet, worked over.
Kept ==
  \/ Makes("same", <<net>>, fsm_determinize(net))
  \/ Makes("same", <<net>>, fsm_minimize(net))
  \/ Makes("same", <<net>>, fsm_coaccessible(net))
  \/ Made("same", <<net>>, fsm_topsort(net)) /\ left' = "clean"
  \/ Makes("same", <<net>>, sigma_sort(net))
  \/ Makes("same", <<net>>, sigma_cleanup(net, 0))
  \/ ~ LosesFirst(net) /\ Makes("compact", <<net>>, sigma_sort(fsm_compact(net)))
  \/ Makes("rename", <<net>>, fsm_substitute_symbol(net, Sym["x"], Sym["y"]))
  \/ Makes("erase", <<net>>, fsm_substitute_symbol(net, Sym["x"], EPSILON))
  \/ ~ LosesStart(WithoutOpen(net, FALSE)) /\ Makes("close_sigma", <<net>>, fsm_close_sigma(net, FALSE))
  \/ Makes("sigma_net", <<net>>, fsm_sigma_net(net))
  \/ Makes("sigma_pairs_net", <<net>>, fsm_sigma_pairs_net(net))
  \/ /\ \A a \in net.arcs : {a[2], a[3]} \cap {UNKNOWN, IDENTITY} = {}
     /\ HasWords(net) /\ ~ Knows(net, Sym["marker"])
     /\ Makes("same", <<net>>,
              fsm_unflatten(fsm_flatten(net, Sym["marker"]), Sym["marker"], BoundaryCopy))

Searches(o) ==
  /\ Acceptor(net)
  /\ \/ Makes("contains", <<net>>, fsm_contains(net))
     \/ Makes("contains_one", <<net>>, fsm_contains_one(net))
     \/ Makes("contains_opt_one", <<net>>, fsm_contains_opt_one(net))
     \/ /\ Acceptor(o)
        /\ \/ Makes("precedes", <<net, o>>, fsm_precedes(net, o))
           \/ Makes("follows", <<net, o>>, fsm_follows(net, o))
           \/ Makes("simple_replace", <<net, o>>, fsm_simple_replace(net, o))
           \/ Makes("quotient_left", <<net, o>>, fsm_quotient_left(net, o))
           \/ Makes("quotient_right", <<net, o>>, fsm_quotient_right(net, o))
           \/ Makes("quotient_interleave", <<net, o>>, fsm_quotient_interleave(net, o))
           \/ Makes("ignore_internal", <<net, o>>, fsm_ignore_internal(net, o))
           \/ Makes("context_restrict", <<net, o, fsm_empty_string>>,
                    fsm_context_restrict(net, << <<o, fsm_empty_string>> >>))
           \/ Makes("context_restrict", <<net, fsm_symbol(Boundary), o>>,
                    fsm_context_restrict(net, << <<fsm_symbol(Boundary), o>> >>))

\* What the rewrite rules are built from.
Marked ==
  /\ Acceptor(net) /\ Deterministic(net) /\ ~ Knows(net, Sym["marker"])
  /\ \/ sigma_max(net.sig) >= IDENTITY /\ Makes("add_sink", <<net>>, fsm_add_sink(net, TRUE))
     \/ \E where \in {"all", "finals", "nonfinals"} :
          Makes(where, <<net>>, fsm_add_loop(net, fsm_symbol(Sym["marker"]), where))
     \/ Makes("mark_fsm_tail", <<net>>, fsm_mark_fsm_tail(net, fsm_symbol(Sym["marker"])))
     \/ Makes("left_rewr", <<net>>,
              fsm_left_rewr(net, fsm_cross_product(fsm_symbol(Sym["x"]), fsm_symbol(Sym["y"]))))

Logic ==
  /\ calls = 0 /\ net.arcs = {}
  /\ \/ Makes("quantifier", <<>>, fsm_quantifier(Sym["x"]))
     \/ Makes("logical_precedence", <<>>,
              fsm_logical_precedence(Sym["x"], Sym["y"], {Sym["x"], Sym["y"]}))
     \/ Makes("logical_eq", <<>>, fsm_logical_eq(Sym["x"], Sym["y"], {Sym["x"], Sym["y"]}))

EqualSubstrings ==
  /\ Acceptor(net) /\ Finite(net) /\ Names(net.sig) \cap {Sym["x"], Sym["y"]} = {Sym["x"], Sym["y"]}
  /\ Makes("equal_substrings", <<net>>,
           fsm_equal_substrings(net, fsm_symbol(Sym["x"]), fsm_symbol(Sym["y"])))

Extracts ==
  /\ HasWords(net)
  /\ \/ Makes("lowerdet", <<net>>, fsm_lowerdet(net))
     \/ Makes("lowerdeteps", <<net>>, fsm_lowerdeteps(net))
     \/ Makes("extract_nonidentity", <<net>>, fsm_extract_nonidentity(net))
     \/ Makes("extract_ambiguous", <<net>>, fsm_extract_ambiguous(net))
     \/ Makes("extract_unambiguous", <<net>>, fsm_extract_unambiguous(net))
     \/ Makes("markallfinal", <<net>>, fsm_markallfinal(net))

Flags ==
  /\ flag_extract(net) # {}
  /\ \/ Acceptor(net) /\ Makes("flag_eliminate", <<net>>, flag_eliminate(net, TRUE, NoValue))
     \/ \E name \in {f.name : f \in flag_extract(net)} :
          Acceptor(net) /\ Makes("flag_eliminate", <<net>>, flag_eliminate(net, FALSE, name))
     \/ Makes("flag_twosided", <<net>>, flag_twosided(net))

-----------------------------------------------------------------------------
(* Questions.                                                              *)

Asks ==
  \/ Answers("isempty", <<net>>, fsm_isempty(net))
  \/ ~ LosesFirst(fsm_minimize(net)) /\ Answers("isuniversal", <<net>>, fsm_isuniversal(net))
  \/ Answers("issequential", <<net>>, fsm_issequential(net))
  \/ \E yes \in fsm_isidentity(net) : Answers("isidentity", <<net>>, yes)
  \/ \E yes \in fsm_isfunctional(net) : Answers("isfunctional", <<net>>, yes)
  \/ \E yes \in fsm_isunambiguous(net) : HasWords(net) /\ Answers("isunambiguous", <<net>>, yes)

Compares(o) ==
  /\ Deterministic(net) /\ Deterministic(o)
  /\ left = "clean"
  /\ \E way \in fsm_equivalent(net, o) :
       /\ call' = [op |-> "equivalent", args |-> <<net, o>>, out |-> net, answer |-> way.answer]
       /\ left' = IF way.left THEN "pairs" ELSE "clean"
  /\ calls' = calls + 1
  /\ UNCHANGED net

\* The caller goes on with the result.
Goes == call.op # "none" /\ call' = NoCall /\ UNCHANGED <<net, left, calls>>

Next ==
  \/ Goes
  \/ Ready /\ (Flags \/ EqualSubstrings)
  \/ /\ Ready /\ net.n <= MaxStates
     /\ \/ Repetition \/ Kept \/ Marked \/ Extracts \/ Asks \/ Logic
        \/ \E o \in Operands[calls + 1] :
             \/ Spliced(o) \/ Boolean(o) \/ Relational(o) \/ Searches(o) \/ Compares(o)

Spec == Init /\ [][Next]_vars
=============================================================================
