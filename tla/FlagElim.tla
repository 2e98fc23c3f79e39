------------------------------ MODULE FlagElim ------------------------------
(***************************************************************************)
(* Flag diacritics inside networks: foma/flags.c.  A flag is a symbol of   *)
(* several characters; Flag[name] is what flag_get_type, flag_get_name and *)
(* flag_get_value take out of it.  A value that is not given is NoValue.   *)
(***************************************************************************)
EXTENDS Tests

CONSTANT Flag                  \* name |-> [type, name, value]

ASSUME FlagAssumption == \A x \in DOMAIN Flag : flag_check(x)

NoValue == 0

flag_extract(net) == {Flag[x] : x \in {y \in Names(net.sig) : flag_check(y)}}
flag_create_symbol(f) == fsm_symbol(CHOOSE x \in DOMAIN Flag : Flag[x] = f)

\* What an earlier flag ff does to a later flag f of the same name.
flag_build(f, ff) ==
  LET equal == f.value = ff.value
      null == f.value = NoValue
      Sets(types) == ff.type \in types
      succeed ==
        \/ f.type = "U" /\ Sets({"C"})
        \/ f.type = "U" /\ Sets({"P"}) /\ equal
        \/ f.type = "R" /\ null /\ Sets({"U", "P", "N"})
        \/ f.type = "R" /\ ~ null /\ Sets({"U", "P"}) /\ equal
        \/ f.type = "D" /\ Sets({"C"})
        \/ f.type = "D" /\ ~ null /\ Sets({"P"}) /\ ~ equal
        \/ f.type = "D" /\ ~ null /\ Sets({"N"}) /\ equal
      fail ==
        \/ f.type = "U" /\ Sets({"U", "P"}) /\ ~ equal
        \/ f.type = "U" /\ Sets({"N"}) /\ equal
        \/ f.type = "R" /\ Sets({"C"})
        \/ f.type = "R" /\ ~ null /\ Sets({"U", "P"}) /\ ~ equal
        \/ f.type = "R" /\ ~ null /\ Sets({"N"})
        \/ f.type = "D" /\ null /\ Sets({"U", "P", "N"})
        \/ f.type = "D" /\ ~ null /\ Sets({"U", "P"}) /\ equal
        \/ f.type = "D" /\ ~ null /\ Sets({"N"}) /\ ~ equal
  IN  IF f.name # ff.name THEN "none"
      ELSE IF succeed THEN "succeed" ELSE IF fail THEN "fail" ELSE "none"

\* The union of flag symbols, minimized.
Symbols(flags) ==
  FoldSet(LAMBDA f, net : fsm_minimize(fsm_union(net, flag_create_symbol(f))), fsm_empty_set, flags)

\* Mutant: R, that fails when nothing is set, has the filter of the other types.
FilteringAlike(f, self, failing, unless) ==
  fsm_complement(fsm_contains(Concats(<<failing, unless, self>>)))

\* ~[?* FAIL ~$SUCCEED THISFLAG ?*], and ~[(?* FAIL) ~$SUCCEED THISFLAG ?*] for R.
Filtering(f, self, failing, unless) ==
  fsm_complement(
    IF f.type = "R"
    THEN fsm_concat(fsm_optionality(fsm_concat(fsm_universal, failing)),
                    Concats(<<unless, self, fsm_universal>>))
    ELSE fsm_contains(Concats(<<failing, unless, self>>)))
Filter(f, flags) ==
  LET Those(status) == Symbols({ff \in flags : flag_build(f, ff) = status})
  IN  Filtering(f, flag_create_symbol(f), Those("fail"), fsm_complement(fsm_contains(Those("succeed"))))

\* The flags of a name (all: the name is not looked at) become EPSILON.
flag_purge(net, all, name) ==
  LET gone == {k \in Real(net.sig) : flag_check(net.sig[k]) /\ (all \/ Flag[net.sig[k]].name = name)}
      Left(k) == IF k \in gone THEN EPSILON ELSE k
  IN  [net EXCEPT !.sig = Without(@, gone),
                  !.arcs = {<<a[1], Left(a[2]), Left(a[3]), a[4]>> : a \in @},
                  !.hdr.det = NO, !.hdr.min = NO, !.hdr.eps = NO]

RECURSIVE Filters(_, _, _)                    \* net: the filters so far
Filters(todo, flags, net) ==
  IF todo = {} THEN net
  ELSE LET f == CHOOSE f \in todo : TRUE
       IN  Filters(todo \ {f}, flags, IF net.n = 0 THEN Filter(f, flags)
                                      ELSE fsm_intersect(net, Filter(f, flags)))
NoFilter == [fsm_empty_set EXCEPT !.n = 0]
Filtered(net, filter) == IF filter.n = 0 THEN net ELSE Composed(filter, Composed(net, filter))

\* A flag with no flag that makes it fail or succeed gets no filter.  The pathcount
\* is 0 for a network without final states.
Eliminated(net, all, name, flags) ==
  IF net.fin = {} \/ (~ all /\ \A f \in flags : f.name # name) THEN net
  ELSE fsm_topsort(sigma_sort(sigma_cleanup(fsm_minimize(flag_purge(
         Filtered(net, Filters({f \in flags : /\ all \/ f.name = name
                                              /\ \E ff \in flags : flag_build(f, ff) # "none"},
                               flags, NoFilter)), all, name)), 0)))
flag_eliminate(net, all, name) == Eliminated(net, all, name, flag_extract(net))

\* Every flag gets on both sides: an arc with a flag on one side that says
\* something else on the other becomes two.
flag_twosided(net) ==
  LET IsFlag(k) == k > IDENTITY /\ flag_check(net.sig[k])
      Copied(a) == IF IsFlag(a[2]) /\ a[3] = EPSILON THEN <<a[1], a[2], a[2], a[4]>>
                   ELSE IF IsFlag(a[3]) /\ a[2] = EPSILON THEN <<a[1], a[3], a[3], a[4]>>
                   ELSE a
      copied == {Copied(a) : a \in net.arcs}
      split == {a \in copied : a[2] # a[3] /\ (IsFlag(a[2]) \/ IsFlag(a[3]))}
      Two(a) == {<< <<0, a[1]>>, a[2], IF IsFlag(a[2]) THEN a[2] ELSE EPSILON, <<1, a>> >>,
                 << <<1, a>>, IF IsFlag(a[3]) THEN a[3] ELSE EPSILON, a[3], <<0, a[4]>> >>}
      new == Numbered(<<0, 0>>,
               {<< <<0, a[1]>>, a[2], a[3], <<0, a[4]>> >> : a \in copied \ split}
                 \cup UNION {Two(a) : a \in split}, {<<0, q>> : q \in net.fin})
      undone == [net.hdr EXCEPT !.det = UNK, !.min = UNK]
  IN  IF copied = net.arcs /\ split = {} THEN net
      ELSE IF split = {}
      THEN fsm_topsort(fsm_minimize([net EXCEPT !.arcs = copied, !.hdr = [undone EXCEPT !.pru = UNK]]))
      ELSE fsm_topsort(fsm_minimize(Network(new.n, new.arcs, new.fin, net.sig, undone)))
=============================================================================
