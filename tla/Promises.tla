------------------------------ MODULE Promises ------------------------------
(***************************************************************************)
(* What a call of the library promises: the words and pairs its result     *)
(* accepts, the answers to questions, the claims in the header and the     *)
(* alphabet.                                                               *)
(***************************************************************************)
EXTENDS Library, Meaning

CONSTANTS
  Others,      \* letters that no network knows
  PairLength,  \* bound on the words of a pair
  WordLength   \* bound on the words of an acceptor

X == Sym["x"]
Y == Sym["y"]
marker == Sym["marker"]

N1 == call.args[1]
N2 == call.args[2]
Letters == UNION {Names(call.args[i].sig) : i \in DOMAIN call.args}
Alpha == (Letters \cup Names(call.out.sig) \cup Others \cup {X, Y}) \ {Boundary}

Pairs1 == Relation(N1, Alpha, PairLength)
Pairs2 == Relation(N2, Alpha, PairLength)
PairsOut == Relation(call.out, Alpha, PairLength)
Words1 == Left(Relation(N1, Alpha, WordLength))
Words2 == Left(Relation(N2, Alpha, WordLength))
All == Words(Alpha, WordLength)

\* The result is the acceptor of the words.
AcceptsJust(words) ==
  Relation(call.out, Alpha, WordLength) = Same({w \in words : Len(w) <= WordLength})
RelatesJust(pairs) == PairsOut = pairs

EmptyPair == << <<>>, <<>> >>

\* The words of net with every state final: those it can begin to read.
Begun(n) == Left(Relation([n EXCEPT !.fin = 0 .. n.n - 1], Alpha, WordLength))

Open(n) == \E a \in n.arcs : {a[2], a[3]} \cap {UNKNOWN, IDENTITY} # {}
AllOnArcs(n) == \A k \in Real(n.sig) : \E a \in n.arcs : k \in {a[2], a[3]}
NoUnknown(n) == \A a \in n.arcs : UNKNOWN \notin {a[2], a[3]}

RECURSIVE Substituted(_, _, _)                \* every letter x by a word of S
Substituted(w, x, S) ==
  IF w = <<>> THEN {<<>>}
  ELSE {u \o v : u \in IF Head(w) = x THEN S ELSE {<<Head(w)>>}, v \in Substituted(Tail(w), x, S)}

Mapped(pairs, x, u) ==                        \* every letter x by the word u
  LET New(w) == CHOOSE v \in Substituted(w, x, {u}) : TRUE
  IN  {<<New(p[1]), New(p[2])>> : p \in pairs}

Unmarked(w) == SelectSeq(w, LAMBDA x : x # marker)
Before(w, i) == SubSeq(w, 1, i - 1)

\* Markers stand only where the word so far, without them, is as asked.
MarkedWhere(Ok(_)) ==
  {w \in All : Unmarked(w) \in Words1 /\ \A i \in DOMAIN w : w[i] = marker => Ok(Unmarked(Before(w, i)))}

\* Exactly one marker after each beginning that is a word.
TailMarked ==
  {w \in All :
     /\ Unmarked(w) \in Begun(N1)
     /\ \A i \in DOMAIN w :
          IF w[i] = marker
          THEN i > 1 /\ w[i - 1] # marker /\ Unmarked(Before(w, i)) \in Words1
          ELSE i > 1 /\ w[i - 1] # marker => Unmarked(Before(w, i)) \notin Words1
     /\ w # <<>> /\ w[Len(w)] # marker => Unmarked(w) \notin Words1}

\* x becomes y after what net accepts.
LeftRewritten ==
  {<<w, [i \in DOMAIN w |-> IF w[i] = X /\ Before(w, i) \in Words1 THEN Y ELSE w[i]]>> :
     w \in {u \in All : Len(u) <= PairLength}}

\* Every stretch of X stands between a left and a right context.
Restricted ==
  LET Context1(n) == Left(Relation(n, Alpha \cup {Boundary}, WordLength + 1))
      L == Context1(N2)
      R == Context1(call.args[3])
  IN  {w \in All : \A s \in Stretches(w, Words1) :
         /\ Suffixes(<<Boundary>> \o SubSeq(w, 1, s[1])) \cap L # {}
         /\ Prefixes(SubSeq(w, s[2] + 1, Len(w)) \o <<Boundary>>) \cap R # {}}

\* Some word of S ends, in w, before one of T begins.
SomeBefore(w, S, T) == \E s \in Stretches(w, S), t \in Stretches(w, T) : s[2] <= t[1]

\* What stands between each pair of x and y is the same word.
Equal(w) ==
  LET at == {s \in (1 .. Len(w)) \X (1 .. Len(w)) :
               /\ s[1] < s[2] /\ w[s[1]] = X /\ w[s[2]] = Y
               /\ \A i \in s[1] + 1 .. s[2] - 1 : w[i] \notin {X, Y}}
      Within(s) == SubSeq(w, s[1] + 1, s[2] - 1)
  IN  \A s \in at, t \in at : Within(s) = Within(t)

\* Inputs with two paths; the arcs a network has for ? may not differ in their output.
Ambiguous(n) ==
  LET arcs == Concrete(n, Alpha)
      both == {<< <<p[1][1], p[2][1], d>>, p[1][2], p[1][2], <<p[1][4], p[2][4], d \/ p[1] # p[2]>> >> :
                 p \in {q \in arcs \X arcs : q[1][2] = q[2][2]}, d \in BOOLEAN}
  IN  Left(Accepted(both, <<0, 0, FALSE>>, n.fin \X n.fin \X {TRUE}, PairLength))
Plain(n) == NoUnknown(n) /\ \A a \in n.arcs : a[2] # EPSILON

-----------------------------------------------------------------------------
(* What apply_check_flag lets pass.                                        *)

FlagNames == {Flag[x].name : x \in DOMAIN Flag}

Passes(f, v) ==                               \* v: <<value, negated>>
  CASE f.type \in {"P", "N", "C"} -> TRUE
    [] f.type = "U" -> v[1] = NoValue \/ (v[1] = f.value) # v[2]
    [] f.type = "D" -> v[1] = NoValue \/ (f.value # NoValue /\ (v[1] = f.value) = v[2])
    [] f.type = "R" -> v[1] # NoValue /\ (f.value = NoValue \/ (v[1] = f.value /\ ~ v[2]))
Becomes(f, v) ==
  CASE f.type = "C" -> <<NoValue, FALSE>>
    [] f.type \in {"D", "R"} -> v
    [] OTHER -> <<f.value, f.type = "N">>

Values == [FlagNames -> ({NoValue} \cup {Flag[x].value : x \in DOMAIN Flag}) \X BOOLEAN]
Unset == [n \in FlagNames |-> <<NoValue, FALSE>>]

\* The words that apply finds in an acceptor: a state of its search is a state of the
\* network and the values of the flags; flags take no room.
Found(n) ==
  LET arcs == Concrete(n, Alpha)
      IsFlag(a) == a[2] \in DOMAIN Flag
      Obeyed(a, v) ==
        LET f == Flag[a[2]]
        IN  IF Passes(f, v[f.name])
            THEN {<< <<a[1], v>>, EPSILON, EPSILON, <<a[4], [v EXCEPT ![f.name] = Becomes(f, @)]>> >>}
            ELSE {}
      search == UNION {IF IsFlag(a) THEN Obeyed(a, v)
                       ELSE {<< <<a[1], v>>, a[2], a[3], <<a[4], v>> >>} : a \in arcs, v \in Values}
  IN  Left(Accepted(search, <<0, Unset>>, n.fin \X Values, WordLength))
\* The network with its flags taken for EPSILON.
Unflagged(n) ==
  LET Bare(k) == IF k \in DOMAIN n.sig /\ n.sig[k] \in DOMAIN Flag THEN EPSILON ELSE k
  IN  [n EXCEPT !.arcs = {<<a[1], Bare(a[2]), Bare(a[3]), a[4]>> : a \in @}]
Unflag(n) == Relation(Unflagged(n), Alpha \ DOMAIN Flag, PairLength)

-----------------------------------------------------------------------------
(* The formulas of logic: of words that hold x twice and y twice.          *)

At(w, name) == {i \in DOMAIN w : w[i] = name}
TwiceEach(w) == Cardinality(At(w, X)) = 2 /\ Cardinality(At(w, Y)) = 2
OnlyVars(w, i, j) == \A k \in i + 1 .. j - 1 : w[k] \in {X, Y}

\* x ends before y begins, or just as it begins.
PrecedesIn(w) ==
  /\ Min(At(w, X)) < Min(At(w, Y))
  /\ OnlyVars(w, Min(At(w, Y)), Max(At(w, X)))

\* x and y begin together and end together, where letters stand between.
Spans(w, name) == \E i \in DOMAIN w : w[i] \notin {X, Y} /\ Min(At(w, name)) < i /\ i < Max(At(w, name))
Together(w, i, j) == OnlyVars(w, Min({i, j}), Max({i, j}))
EqualIn(w) ==
  /\ Together(w, Min(At(w, X)), Min(At(w, Y)))
  /\ Together(w, Max(At(w, X)), Max(At(w, Y)))

-----------------------------------------------------------------------------
(* The properties.                                                         *)

\* The words and pairs of a result are those its operation promises, whatever
\* call made the operand: foma/constructions.c, foma/structures.c. The two cases
\* where the documents and the code disagree follow the code, and what the
\* documents say is LenientAsDocumented and PriorityLowerAsDocumented below.
\* Calls where the rejected half of a pair could be mixed are not followed
\* (left = "mixed" in Library), nor operands with a gap in their numbers
\* (GapFree): their findings are in the README.
LanguageRight ==
  CASE call.op \in {"none", "isempty", "isuniversal", "issequential", "isidentity",
                    "isfunctional", "isunambiguous", "equivalent", "flag_eliminate"} -> TRUE
    [] call.op = "same" -> RelatesJust(Pairs1)
    [] call.op = "concat" -> RelatesJust(Concat(Pairs1, Pairs2, PairLength))
    [] call.op = "union" -> RelatesJust(Pairs1 \cup Pairs2)
    [] call.op = "kleene_star" -> RelatesJust(Star(Pairs1, PairLength))
    [] call.op = "kleene_plus" -> RelatesJust(Concat(Pairs1, Star(Pairs1, PairLength), PairLength))
    [] call.op = "optionality" -> RelatesJust(Pairs1 \cup {EmptyPair})
    [] call.op = "concat_m_n" -> RelatesJust(Pairs1 \cup Concat(Pairs1, Pairs1, PairLength))
    [] call.op = "substitute_label" ->
         IF X \in Names(N1.sig) \cup Names(N2.sig)
         THEN AcceptsJust(UNION {Substituted(w, X, Words2) : w \in Words1})
         ELSE AcceptsJust(Words1)
    [] call.op = "ignore" ->
         AcceptsJust(UNION {Spread(w, Left(Star(Same(Words2), WordLength)), WordLength, FALSE) : w \in Words1})
    [] call.op = "ignore_internal" ->
         AcceptsJust(UNION {Spread(w, Left(Star(Same(Words2), WordLength)), WordLength, TRUE) : w \in Words1})
    [] call.op = "intersect" -> AcceptsJust(Words1 \cap Words2)
    [] call.op = "minus" -> AcceptsJust(Words1 \ Words2)
    [] call.op = "shuffle" -> AcceptsJust(UNION {Shuffles(u, w) : u \in Words1, w \in Words2})
    [] call.op = "complete" -> AcceptsJust(Words1)
    [] call.op = "complement" -> AcceptsJust(All \ Words1)
    [] call.op = "term_negation" -> AcceptsJust({w \in All : Len(w) = 1} \ Words1)
    [] call.op = "compose" -> RelatesJust(Composition(N1, N2, Alpha, PairLength))
    [] call.op = "compose_flags" ->
         Unflag(call.out) = Composition(Unflagged(N1), Unflagged(N2), Alpha \ DOMAIN Flag, PairLength)
    [] call.op = "cross_product" ->
         RelatesJust(Upto(Words1 \X Words2, PairLength))
    [] call.op = "priority_union_upper" ->
         RelatesJust(Pairs1 \cup {p \in Pairs2 : <<p[1], p[1]>> \notin Domain(N1, Alpha, PairLength)})
    [] call.op = "priority_union_lower" ->
         RelatesJust(Pairs1 \cup {p \in Pairs2 : <<p[2], p[2]>> \notin Image(N1, Alpha, PairLength)})
    [] call.op = "lenient_compose" ->
         LET inner == fsm_compose(N1, N2, FALSE, FALSE)
         IN  RelatesJust(Composition(N1, N2, Alpha, PairLength)
               \cup {p \in Pairs1 : <<p[1], p[1]>> \notin Domain(inner, Alpha, PairLength)})
    [] call.op = "upper" -> RelatesJust(Domain(N1, Alpha, PairLength))
    [] call.op = "lower" -> RelatesJust(Image(N1, Alpha, PairLength))
    [] call.op = "invert" -> RelatesJust(Swapped(Pairs1))
    [] call.op = "reverse" -> RelatesJust({<<Mirror(p[1]), Mirror(p[2])>> : p \in Pairs1})
    [] call.op = "compact" -> NoUnknown(N1) => RelatesJust(Pairs1)
    [] call.op = "rename" -> ~ Open(N1) => RelatesJust(Mapped(Pairs1, X, <<Y>>))
    [] call.op = "erase" ->
         ~ Open(N1) /\ Finite(N1)
         => PairsOut \subseteq Mapped(Relation(N1, Alpha, 2 * PairLength), X, <<>>)
            /\ Mapped(Pairs1, X, <<>>) \subseteq PairsOut
    [] call.op = "close_sigma" ->
         RelatesJust({p \in Pairs1 : \A i \in {1, 2} : \A j \in DOMAIN p[i] : p[i][j] \in Names(N1.sig)})
    [] call.op = "sigma_net" ->
         AcceptsJust({<<a>> : a \in Names(N1.sig) \cup
                        (IF IDENTITY \in DOMAIN N1.sig THEN Alpha \ Names(N1.sig) ELSE {})})
    [] call.op = "sigma_pairs_net" ->
         ~ Open(N1) \/ AllOnArcs(N1)
         => RelatesJust({<<Word(a[2]), Word(a[3])>> : a \in Concrete(N1, Alpha)})
    [] call.op = "contains" -> AcceptsJust({w \in All : Stretches(w, Words1) # {}})
    [] call.op = "contains_one" ->
         AcceptsJust({w \in All : Cardinality(Stretches(w, Words1)) = 1})
    [] call.op = "contains_opt_one" ->
         AcceptsJust({w \in All : Cardinality(Stretches(w, Words1)) <= 1})
    [] call.op = "precedes" -> AcceptsJust({w \in All : ~ SomeBefore(w, Words2, Words1)})
    [] call.op = "follows" -> AcceptsJust({w \in All : ~ SomeBefore(w, Words1, Words2)})
    [] call.op = "simple_replace" ->
         <<>> \notin Words1
         => RelatesJust(Upto(UNION {{<<w, v>> : v \in Rewritten(w, Words1, Words2, PairLength)} :
                                      w \in {u \in All : Len(u) <= PairLength}}, PairLength))
    [] call.op = "quotient_left" -> AcceptsJust(Left(Quotient(N2, N1, {1}, {0}, Alpha, WordLength)))
    [] call.op = "quotient_right" -> AcceptsJust(Left(Quotient(N1, N2, {0}, {1}, Alpha, WordLength)))
    [] call.op = "quotient_interleave" ->
         AcceptsJust(Left(Quotient(N1, N2, {0}, {0}, Alpha, WordLength)))
    [] call.op = "context_restrict" ->
         (Open(N1) \/ Open(call.args[3]) => Boundary \notin Letters) => AcceptsJust(Restricted)
    [] call.op = "add_sink" -> AcceptsJust(Words1 \cup (All \ Begun(N1)))
    [] call.op = "all" -> AcceptsJust(MarkedWhere(LAMBDA u : TRUE))
    [] call.op = "finals" -> AcceptsJust(MarkedWhere(LAMBDA u : u \in Words1))
    [] call.op = "nonfinals" -> AcceptsJust(MarkedWhere(LAMBDA u : u \notin Words1))
    [] call.op = "mark_fsm_tail" -> AcceptsJust(TailMarked)
    [] call.op = "left_rewr" -> RelatesJust(LeftRewritten)
    [] call.op = "quantifier" -> AcceptsJust({w \in All : Cardinality(At(w, X)) = 2})
    [] call.op = "logical_precedence" ->
         LET words == Left(Relation(call.out, {X, Y, marker}, 5))
         IN  \A w \in Words({X, Y, marker}, 5) : TwiceEach(w) => (w \in words) = PrecedesIn(w)
    [] call.op = "logical_eq" ->
         LET words == Left(Relation(call.out, {X, Y, marker}, 5))
         IN  \A w \in Words({X, Y, marker}, 5) :
               TwiceEach(w) /\ Spans(w, X) /\ Spans(w, Y) => (w \in words) = EqualIn(w)
    [] call.op = "equal_substrings" ->
         LET Long(n) == Left(Relation(n, Alpha, 2 * WordLength))
         IN  Long(call.out) = {w \in Long(N1) : Equal(w)}
    [] call.op \in {"lowerdet", "lowerdeteps"} ->
         /\ LET old == Alpha \ (Names(call.out.sig) \ Names(N1.sig))
            IN  Domain(call.out, old, PairLength) = Domain(N1, old, PairLength)
         /\ call.op = "lowerdet" /\ ~ Open(N1)
            => \A p \in PairsOut, q \in PairsOut : p[2] = q[2] => p[1] = q[1]
    [] call.op = "extract_nonidentity" ->
         /\ {p[1] : p \in {q \in Pairs1 : q[1] # q[2]}} \subseteq Left(Domain(call.out, Alpha, PairLength))
         /\ Domain(call.out, Alpha, PairLength) \subseteq Domain(N1, Alpha, PairLength)
    [] call.op = "extract_ambiguous" ->
         Plain(N1) => /\ PairsOut \subseteq Pairs1
                      /\ {p \in Pairs1 : p[1] \in Ambiguous(fsm_minimize(N1))} \subseteq PairsOut
    [] call.op = "extract_unambiguous" ->
         Plain(N1) => PairsOut \subseteq {p \in Pairs1 : p[1] \notin Ambiguous(fsm_minimize(N1))}
    [] call.op = "markallfinal" -> RelatesJust(Relation([N1 EXCEPT !.fin = 0 .. N1.n - 1], Alpha, PairLength))
    [] call.op = "flag_twosided" ->
         /\ Unflag(call.out) = Unflag(N1)
         /\ \A a \in Concrete(call.out, Alpha) : {a[2], a[3]} \cap DOMAIN Flag # {} => a[2] = a[3]

\* Lenient composition is A .O. B = [A .o. B] .P. B, as the shell's help
\* (foma/iface.c:231) and the comment at foma/constructions.c:2335 say. It does
\* not hold: fsm_lenient_compose falls back on A, and no run checks it.
LenientAsDocumented ==
  call.op = "lenient_compose" =>
    LET inner == fsm_compose(N1, N2, FALSE, FALSE)
    IN  RelatesJust(Composition(N1, N2, Alpha, PairLength)
          \cup {p \in Pairs2 : <<p[1], p[1]>> \notin Domain(inner, Alpha, PairLength)})

\* The lower priority union is A .p. B = A | [~[A.l] .o. B], as the shell's help
\* (foma/iface.c:248) says. It does not hold: fsm_priority_union_lower tests the
\* lower side of B, and no run checks it.
PriorityLowerAsDocumented ==
  call.op = "priority_union_lower" =>
    RelatesJust(Pairs1 \cup {p \in Pairs2 : <<p[1], p[1]>> \notin Image(N1, Alpha, PairLength)})

\* Eliminating flags leaves the words that apply finds while it obeys them:
\* flag_eliminate in foma/flags.c against apply_check_flag in foma/apply.c.
FlagsEliminated ==
  call.op = "flag_eliminate" =>
    Found(call.out) = Found(N1)

\* A claim YES in the header is true: fsm_minimize and fsm_determinize go by it.
ClaimsTrue(op, n) ==
  /\ n.hdr.det = YES => Deterministic(n)
  /\ n.hdr.eps = YES => ~ HasEpsilonArc(n.arcs)
  /\ n.hdr.loop = YES => ~ HasLoop(n)
  /\ n.hdr.pru = YES => \/ n.fin = {} /\ n.n = 1
                        \/ 0 .. n.n - 1 = Coaccessible(n) \cap Reached(n.arcs, {}, {0})
  /\ n.hdr.min = YES /\ op \notin {"lowerdet", "lowerdeteps", "markallfinal"} => Cardinality({Classes(n)[q] : q \in 0 .. n.n - 1}) = n.n
FlagsTruthful == call.op # "none" => ClaimsTrue(call.op, call.out)

\* The alphabet of a result: every symbol of an arc has a name, no two numbers the
\* same, and the numbers go up from 3 in the order of the names.
AlphabetSound ==
  call.op # "none" =>
    LET sig == call.out.sig
    IN  /\ \/ call.op = "ignore_internal" /\ Open(N2)
           \/ \A a \in call.out.arcs : {a[2], a[3]} \ {EPSILON, UNKNOWN, IDENTITY} \subseteq DOMAIN sig
        /\ \A i \in Real(sig), j \in Real(sig) : i < j => sig[i] < sig[j]
        /\ (\A i \in DOMAIN call.args : GapFree(call.args[i]))
           /\ call.op \notin {"quotient_interleave", "ignore_internal"} => GapFree(call.out)

\* An answer yes is true, and an answer no where words this short can tell.
VerdictsRight ==
  LET Freed(n) == ReadsFreed(fsm_minimize(n), Walked(fsm_minimize(n)).debts)
      Small(n) == Finite(n) /\ n.n <= PairLength + 1
  IN  CASE call.op = "isempty" -> call.answer = ~ HasWords(N1)
        [] call.op = "isuniversal" -> call.answer => Words1 = All
        [] call.op = "issequential" ->
             call.answer /\ NoUnknown(N1) =>
               LET arcs == Concrete(N1, Alpha)
               IN  \A a \in arcs, b \in arcs : a[1] = b[1] /\ a # b => a[2] # b[2] /\ a[2] # EPSILON
        [] call.op = "isidentity" ->
             \/ Freed(N1)
             \/ LET same == \A p \in Pairs1 : p[1] = p[2]
                IN  (call.answer => same) /\ (Small(N1) /\ same => call.answer)
        [] call.op = "isfunctional" ->
             \/ Freed(Composed(fsm_invert(N1), N1))
             \/ call.answer => \A p \in Pairs1, q \in Pairs1 : p[1] = q[1] => p[2] = q[2]
        [] call.op = "isunambiguous" ->
             \/ Freed(Composed(fsm_invert(fsm_lowerdet(N1)), fsm_lowerdet(N1)))
             \/ call.answer /\ Plain(N1) => Ambiguous(fsm_minimize(N1)) = {}
        [] call.op = "equivalent" ->
             /\ call.answer => Pairs1 = Pairs2
             /\ ~ call.answer /\ Acceptor(N1) /\ Acceptor(N2) /\ N1.hdr.min = YES /\ N2.hdr.min = YES
                /\ N1.n + N2.n <= WordLength + 2 => Words1 # Words2
        [] OTHER -> TRUE
=============================================================================
