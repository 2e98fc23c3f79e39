-------------------------------- MODULE Lexc --------------------------------
(***************************************************************************)
(* The compiler of lexicons: foma/lexcread.c, as foma/lexc.l calls it.     *)
(*                                                                         *)
(* Entries are read line by line into a graph of states.  Words that begin *)
(* alike share their beginning; then, from the longest remainder to the    *)
(* shortest, words that end alike are made to share their end.  What is    *)
(* left is numbered and handed to the library.                             *)
(*                                                                         *)
(* States are numbered as they are created, so the list of the program,    *)
(* the newest first, is in descending order.                               *)
(***************************************************************************)
EXTENDS Meaning

CONSTANTS
  Multichar,   \* the names of more than one letter that may be declared
  Spelling,    \* how these are spelled
  Lexicons,    \* the names of lexicons that may be defined
  Lines,       \* the entries: [word, to], [upper, lower, to] or [network, to]
  MaxLines,    \* bound on the number of entries
  Align,       \* the values of the variable lexc-align
  Alpha,       \* the names the words are looked at over
  WordLength   \* the words looked at

ASSUME LexcAssumption ==
  /\ "#" \notin Lexicons
  /\ DOMAIN Spelling = Multichar
  /\ \A m \in Multichar : Len(Spelling[m]) > 1
  /\ {MaxLines, WordLength} \subseteq Nat /\ Align \subseteq BOOLEAN

VARIABLES
  lexc,    \* the record of the alphabet, the lexicons and the states
  read,    \* the entries read so far, in their order
  todo,    \* the states still to be looked at for a common end
  pc,
  result   \* the network

vars == <<lexc, read, todo, pc, result>>

Init ==
  /\ pc = "symbols"
  /\ read = <<>> /\ todo = <<>> /\ result = fsm_empty_set
  /\ \E b \in Align :
     lexc = [align |-> b,              \* g_lexc_align
             sigma |-> NoSigma,        \* lexsigma, and the hash table that finds its names
             mc |-> {},                \* the names of more than one letter
             lexstates |-> <<>>,       \* [name, state], in the order of their creation
             outgoing |-> {},          \* the lexicons that were defined: has_outgoing
             clexicon |-> "",
             unknown |-> FALSE,        \* net_has_unknown
             n |-> 0,                  \* the states are 1 .. n
             trans |-> {},             \* <<state, in, out, target>>
             mergeable |-> <<>>, distance |-> <<>>, merge_with |-> <<>>]

-----------------------------------------------------------------------------
(* The alphabet.                                                           *)

\* A new symbol gets an arc beside every @ that the networks read so far have.
lexc_update_unknowns(h, k) ==
  {<<a[1], k, k, a[4]>> : a \in {b \in h.trans : IDENTITY \in {b[2], b[3]}}}

lexc_add_sigma_hash(h, name) ==
  IF sigma_find(name, h.sigma) # -1 THEN h
  ELSE LET sig == Named(name, h.sigma)
       IN  [h EXCEPT !.sigma = sig,
                     !.trans = @ \cup (IF h.unknown
                                       THEN lexc_update_unknowns(h, sigma_find(name, sig)) ELSE {})]

Knowing(h, names) == FoldSeq(LAMBDA x, m : lexc_add_sigma_hash(m, x), h, names)

\* The longest name that the string begins with, or its first letter; 0 stays EPSILON.
RECURSIVE Tokens(_, _)
Tokens(mc, string) ==
  IF string = <<>> THEN <<>>
  ELSE LET found == {m \in mc : IsPrefix(Spelling[m], string)}
           longest == CHOOSE m \in found : \A l \in found : Len(Spelling[l]) <= Len(Spelling[m])
       IN  IF found = {} THEN <<Head(string)>> \o Tokens(mc, Tail(string))
           ELSE <<longest>> \o Tokens(mc, SubSeq(string, Len(Spelling[longest]) + 1, Len(string)))

Bare(word) == SelectSeq(word, LAMBDA x : x # EPSILON)

\* lexc_pad: the shorter side is filled up.
Padded(u, v) ==
  [i \in 1 .. Max({Len(u), Len(v), 1}) |->
     <<IF i <= Len(u) THEN u[i] ELSE EPSILON, IF i <= Len(v) THEN v[i] ELSE EPSILON>>]

\* lexc_medpad: letters that are alike side by side, others against EPSILON.
Cost(u, v) ==
  LET c[x \in 0 .. Len(u), y \in 0 .. Len(v)] ==
        IF x = 0 THEN y ELSE IF y = 0 THEN x
        ELSE Min({c[x - 1, y - 1] + (IF u[x] = v[y] THEN 0 ELSE 100), c[x - 1, y] + 1, c[x, y - 1] + 1})
  IN  c

Diagonal(u, v, c, x, y) ==
  x > 0 /\ y > 0 /\ c[x, y] = c[x - 1, y - 1] + (IF u[x] = v[y] THEN 0 ELSE 100)

RECURSIVE Steps(_, _, _, _, _)
Steps(u, v, c, x, y) ==
  IF x = 0 /\ y = 0 THEN <<>>
  ELSE IF Diagonal(u, v, c, x, y)
       THEN Append(Steps(u, v, c, x - 1, y - 1), <<u[x], v[y]>>)
  ELSE IF x > 0 /\ (y = 0 \/ c[x, y] = c[x - 1, y] + 1)
       THEN Append(Steps(u, v, c, x - 1, y), <<u[x], EPSILON>>)
  ELSE Append(Steps(u, v, c, x, y - 1), <<EPSILON, v[y]>>)

Alignment(u, v) ==
  IF u = <<>> /\ v = <<>> THEN << <<EPSILON, EPSILON>> >>
  ELSE Steps(Bare(u), Bare(v), Cost(Bare(u), Bare(v)), Len(Bare(u)), Len(Bare(v)))

\* A word without a colon stands for both sides, and is never aligned.
IsNetwork(line) == "network" \in DOMAIN line
IsPair(line) == "upper" \in DOMAIN line
Upper(line) == IF IsPair(line) THEN line.upper ELSE line.word
Lower(line) == IF IsPair(line) THEN line.lower ELSE line.word
Matched(line, u, v) == IF lexc.align /\ IsPair(line) THEN Alignment(u, v) ELSE Padded(u, v)

-----------------------------------------------------------------------------
(* The states.                                                             *)

StateOf(h, name) ==
  LET i == CHOOSE j \in DOMAIN h.lexstates : h.lexstates[j].name = name IN h.lexstates[i].state
LexiconNames(h) == {l.name : l \in ToSet(h.lexstates)}
LexiconStates(h) == {l.state : l \in ToSet(h.lexstates)}

\* k more states, the first at distance d from the lexicon it leads to.
lexc_add_state(h, k, mergeable, d) ==
  [h EXCEPT !.n = @ + k,
            !.mergeable = @ \o [j \in 1 .. k |-> mergeable],
            !.distance = @ \o [j \in 1 .. k |-> Max({0, d + 1 - j})],
            !.merge_with = @ \o [j \in 1 .. k |-> h.n + j]]

lexc_set_current_lexicon(h, name) ==
  IF name \in LexiconNames(h) THEN h
  ELSE [lexc_add_state(h, 1, 0, 0) EXCEPT !.lexstates = Append(@, [name |-> name, state |-> h.n + 1])]

\* The arcs of w from its i-th pair on, by states of its own.
Branch(h, s, w, i, dest) ==
  LET Node(j) == IF j < i THEN s ELSE IF j = Len(w) THEN dest ELSE h.n + j - i + 1
  IN  [lexc_add_state(h, Len(w) - i, 1, Len(w) - i)
         EXCEPT !.trans = @ \cup {<<Node(j - 1), w[j][1], w[j][2], Node(j)>> : j \in i .. Len(w)}]

\* Where the i-th pair of w leads already, never to a lexicon, so not for the last pair.
Ways(h, s, w, i) ==
  IF i = Len(w) THEN {}
  ELSE {a[4] : a \in {b \in h.trans : b[1] = s /\ b[2] = w[i][1] /\ b[3] = w[i][2]}}
       \ LexiconStates(h)

\* A state that two words go through has more than one way on, and is not merged.
SharedKept(h, s) == h     \* mutant: it is
Shared(h, s) == [h EXCEPT !.mergeable[s] = 0]

\* The newest arc is met first, and the newest leads to the newest state.
RECURSIVE Follow(_, _, _, _, _)
Follow(h, s, w, i, dest) ==
  LET ways == Ways(h, s, w, i)
  IN  IF ways = {} THEN Branch(h, s, w, i, dest)
      ELSE Follow(Shared(h, Max(ways)), Max(ways), w, i + 1, dest)

lexc_add_word(h, w, dest) ==
  IF w = <<>> THEN h ELSE Follow(h, StateOf(h, h.clexicon), w, 1, dest)

-----------------------------------------------------------------------------
(* Networks as entries.                                                    *)

Unknowns(net) == \E a \in net.arcs : a[2] \in {IDENTITY, UNKNOWN} \/ a[3] = UNKNOWN

\* What the @ of a network stands for: the symbols that only the others know.
Others(h, net) == {k \in Real(h.sigma) : h.sigma[k] \notin Names(net.sig)}

\* The states of net are added as they are, an EPSILON before and one behind.
Spliced(h, net, s, dest) ==
  LET New(k) == IF k \in DOMAIN net.sig THEN sigma_find(net.sig[k], h.sigma) ELSE EPSILON
      arcs == {<<h.n + 1 + a[1], New(a[2]), New(a[3]), h.n + 1 + a[4]>> : a \in net.arcs}
      more == {<<a[1], k, k, a[4]>> : a \in {b \in arcs : IDENTITY \in {b[2], b[3]}}, k \in Others(h, net)}
  IN  [lexc_add_state(h, net.n, 0, 0) EXCEPT
         !.trans = @ \cup arcs \cup more \cup {<<s, EPSILON, EPSILON, h.n + 1>>}
                     \cup {<<h.n + 1 + q, EPSILON, EPSILON, dest>> : q \in net.fin},
         !.unknown = @ \/ Unknowns(net)]

lexc_add_network(h, net, dest) ==
  LET order == SetToSortSeq(DOMAIN net.sig, <)
  IN  Spliced(Knowing(h, [i \in DOMAIN order |-> net.sig[order[i]]]), net, StateOf(h, h.clexicon), dest)

-----------------------------------------------------------------------------
(* Reading.                                                                *)

Declare(m) ==
  /\ pc = "symbols" /\ m \notin lexc.mc
  /\ lexc' = [lexc_add_sigma_hash(lexc, m) EXCEPT !.mc = @ \cup {m}]
  /\ UNCHANGED <<read, todo, pc, result>>

\* LEXICON name
Lexicon(name) ==
  /\ pc \in {"symbols", "entries"} /\ name # lexc.clexicon
  /\ lexc' = [lexc_set_current_lexicon(lexc, name) EXCEPT !.outgoing = @ \cup {name}, !.clexicon = name]
  /\ pc' = "entries"
  /\ UNCHANGED <<read, todo, result>>

Reads(entry) == /\ pc = "entries" /\ Len(read) < MaxLines
                /\ read' = Append(read, entry)
                /\ UNCHANGED <<todo, pc, result>>

\* upper:lower target ;  the symbols first, then the lexicon it goes on to, then the word.
AddWord(line) ==
  LET u == Tokens(lexc.mc, Upper(line))
      v == Tokens(lexc.mc, Lower(line))
      known == Knowing(lexc, Bare(u) \o Bare(v))
      h == lexc_set_current_lexicon(known, line.to)
      pairs == Matched(line, u, v)
      No(x) == IF x = EPSILON THEN EPSILON ELSE sigma_find(x, h.sigma)
      w == [i \in DOMAIN pairs |-> <<No(pairs[i][1]), No(pairs[i][2])>>]
  IN  /\ Reads([from |-> lexc.clexicon, to |-> line.to, upper |-> u, lower |-> v, pairs |-> pairs])
      /\ lexc' = lexc_add_word(h, w, StateOf(h, line.to))

\* < regex > target ;
AddNetwork(line) ==
  LET h == lexc_set_current_lexicon(lexc, line.to)
  IN  /\ Reads([from |-> lexc.clexicon, to |-> line.to, network |-> line.network])
      /\ lexc' = lexc_add_network(h, line.network, StateOf(h, line.to))

-----------------------------------------------------------------------------
(* Common ends.                                                            *)

\* The pairs from state s to the next lexicon, and that lexicon: where only one arc
\* leaves a state it is the first of its list.
RECURSIVE Remainder(_, _)
Remainder(h, s) ==
  IF s \in LexiconStates(h) THEN <<s>>
  ELSE LET a == CHOOSE b \in h.trans : b[1] = s
       IN  << <<a[2], a[3]>> >> \o Remainder(h, a[4])

RECURSIVE Chain(_, _)
Chain(h, s) ==
  IF s \in LexiconStates(h) THEN {} ELSE {s} \cup Chain(h, (CHOOSE b \in h.trans : b[1] = s)[4])

\* The list for one length: its first state is met first, the others are put behind it.
OfLength(h, d) ==
  LET S == {s \in 1 .. h.n : h.mergeable[s] = 1 /\ h.distance[s] = d}
  IN  IF S = {} THEN <<>> ELSE <<Max(S)>> \o SetToSortSeq(S \ {Max(S)}, <)

\* Mutant: the shortest remainders first.
EndOfFileShortest ==
  /\ pc = "entries"
  /\ LET longest == Max({0} \cup ToSet(lexc.distance))
     IN  todo' = FlattenSeq([i \in 1 .. longest |-> OfLength(lexc, i)])
  /\ pc' = "merge"
  /\ UNCHANGED <<lexc, read, result>>

EndOfFile ==
  /\ pc = "entries"
  /\ LET longest == Max({0} \cup ToSet(lexc.distance))
     IN  todo' = FlattenSeq([i \in 1 .. longest |-> OfLength(lexc, longest + 1 - i)])
  /\ pc' = "merge"
  /\ UNCHANGED <<lexc, read, result>>

\* The states that end as s does: what the hash table and lexc_eq_paths find.
Alike(s) ==
  {m \in 1 .. lexc.n : /\ m # s /\ lexc.mergeable[m] = 1
                       /\ lexc.distance[m] = lexc.distance[s]
                       /\ Remainder(lexc, m) = Remainder(lexc, s)}

Merge ==
  /\ pc = "merge" /\ todo # <<>>
  /\ LET s == Head(todo)
         gone == UNION {Chain(lexc, m) : m \in Alike(s)}
     IN  lexc' = IF lexc.mergeable[s] # 1 THEN lexc
                 ELSE [lexc EXCEPT
                         !.merge_with = [m \in DOMAIN @ |-> IF m \in Alike(s) THEN s ELSE @[m]],
                         !.mergeable = [m \in DOMAIN @ |-> IF m \in gone THEN 2 ELSE @[m]]]
  /\ todo' = Tail(todo)
  /\ UNCHANGED <<read, pc, result>>

-----------------------------------------------------------------------------
(* The network.                                                            *)

Live(h) == {s \in 1 .. h.n : h.mergeable[s] # 2}
Kept(h) == {<<a[1], a[2], a[3], h.merge_with[a[4]]>> : a \in {b \in h.trans : b[1] \in Live(h)}}

Root(h) == IF "Root" \in LexiconNames(h) THEN StateOf(h, "Root") ELSE Min(Live(h))

\* 0 for Root, the number of states met on the way to Root less one for #, and
\* one after the other for those that have none yet.
lexc_number_states(h) ==
  LET hash == IF "#" \in LexiconNames(h) THEN StateOf(h, "#") ELSE 0
      smax == Cardinality({s \in Live(h) : s >= Root(h)})
      rest == Live(h) \ {Root(h), hash}
  IN  [s \in Live(h) |-> IF s = hash THEN smax - 1 ELSE IF s = Root(h) THEN 0
                         ELSE 1 + Cardinality({r \in rest : r > s})]

\* Final: #, and the lexicons that were gone on to but never defined.
FinalStates(h) == {StateOf(h, name) : name \in LexiconNames(h) \ (h.outgoing \ {"#"})}

Compiled(h, no) ==
  LET net == Network(Cardinality(Live(h)),
                     {<<no[a[1]], a[2], a[3], no[a[4]]>> : a \in Kept(h)},
                     {no[s] : s \in FinalStates(h)}, WithSpecial(EPSILON, h.sigma),
                     Claims(UNK, UNK, UNK, UNK, UNK, UNK))
  IN  fsm_determinize(sigma_sort(sigma_cleanup(net, 0)))

\* Two states with one number leave a place in the array that nobody has written.
Distinct(h, no) == \A s \in Live(h), t \in Live(h) : no[s] = no[t] => s = t

lexc_to_fsm ==
  /\ pc = "merge" /\ todo = <<>>
  /\ IF "#" \notin LexiconNames(lexc)
     THEN pc' = "done" /\ result' = fsm_empty_set
     ELSE LET no == lexc_number_states(lexc)
              net == Compiled(lexc, no)
          IN  IF Distinct(lexc, no) /\ ~ LosesStart(net)
              THEN pc' = "done" /\ result' = fsm_topsort(fsm_minimize(net))
              ELSE pc' = "crashed" /\ UNCHANGED result
  /\ UNCHANGED <<lexc, read, todo>>

Next ==
  \/ \E m \in Multichar : Declare(m)
  \/ \E name \in Lexicons : Lexicon(name)
  \/ \E line \in Lines : IF IsNetwork(line) THEN AddNetwork(line) ELSE AddWord(line)
  \/ EndOfFile \/ Merge \/ lexc_to_fsm

Spec == Init /\ [][Next]_vars
-----------------------------------------------------------------------------
(* What a lexicon promises.                                                *)

\* Every lexicon is a node, and so is what lies between the ends of an entry.
EntryArcs(i, A) ==
  LET e == read[i]
      Of(name) == <<0, name>>
      Between(q) == <<i, q>>
      letters == Bare(e.upper) \o Bare(e.lower)
      up == Len(Bare(e.upper))
      Node(j) == IF j = 0 THEN Of(e.from) ELSE IF j > Len(letters) THEN Of(e.to) ELSE Between(j)
      Letter(j, side) == IF j \in side THEN letters[j] ELSE EPSILON
  IN  IF IsNetwork(e)
      THEN {<<Between(a[1]), a[2], a[3], Between(a[4])>> : a \in Concrete(e.network, A)}
           \cup {<<Of(e.from), EPSILON, EPSILON, Between(0)>>}
           \cup {<<Between(q), EPSILON, EPSILON, Of(e.to)>> : q \in e.network.fin}
      ELSE {<<Node(j - 1), Letter(j, 1 .. up), Letter(j, up + 1 .. Len(letters)), Node(j)>> :
              j \in 1 .. Len(letters) + 1}

\* From Root, or else the first lexicon, to #, or to one that was never defined.
Denotation(A, len) ==
  LET start == IF "Root" \in LexiconNames(lexc) THEN "Root" ELSE lexc.lexstates[1].name
      ends == IF "#" \in LexiconNames(lexc) THEN LexiconNames(lexc) \ lexc.outgoing ELSE {}
  IN  Accepted(UNION {EntryArcs(i, A) : i \in DOMAIN read}, <<0, start>>,
               {<<0, name>> : name \in ends}, len)

\* A network brings EPSILON into an alphabet whose @ were read before: each of them
\* gets an arc EPSILON:EPSILON beside it.
LateEpsilon ==
  \E i \in DOMAIN read, j \in DOMAIN read :
    /\ i < j /\ IsNetwork(read[i]) /\ IsNetwork(read[j])
    /\ Unknowns(read[i].network)
    /\ EPSILON \in DOMAIN read[j].network.sig
    /\ \A k \in 1 .. i : IsNetwork(read[k]) => EPSILON \notin DOMAIN read[k].network.sig

\* A word that begins with an empty pair goes on inside a network of its lexicon.
EntersNetwork ==
  \E i \in DOMAIN read, j \in DOMAIN read :
    /\ i < j /\ IsNetwork(read[i]) /\ ~ IsNetwork(read[j]) /\ read[i].from = read[j].from
    /\ Len(read[j].pairs) > 1 /\ read[j].pairs[1] = <<EPSILON, EPSILON>>

\* Aligning an entry like 0:0 leaves no pair, and nothing is added.
LosesEntry == \E i \in DOMAIN read : ~ IsNetwork(read[i]) /\ read[i].pairs = <<>>

\* The network accepts what the entries spell on the ways from Root to #: sharing
\* beginnings and ends, numbering, and spelling out what @ stands for as names come to
\* be known neither add a pair of words nor lose one.
LexiconRight ==
  (pc = "done" /\ ~ LateEpsilon /\ ~ EntersNetwork /\ ~ LosesEntry)
    => Relation(result, Alpha, WordLength) = Denotation(Alpha, WordLength)

\* While ends are merged: what is still there leads to states that are still there and
\* lead on as before; the newest state, which the list begins with, stays, as
\* removing the first of the list leaves it pointing to what was freed; and when all
\* lengths are done no two states end alike.
MergesKeepEnds ==
  pc \in {"merge", "done", "crashed"} =>
    /\ \A a \in {b \in lexc.trans : b[1] \in Live(lexc)} :
         LET t == lexc.merge_with[a[4]]
         IN  /\ t \in Live(lexc)
             /\ t # a[4] => Remainder(lexc, t) = Remainder(lexc, a[4])
    /\ lexc.n \in Live(lexc)
    /\ todo = <<>> => \A s \in Live(lexc) : lexc.mergeable[s] = 1 => Alike(s) = {}

\* A state has a number of its own, # the last.
NumbersDistinct ==
  (pc \in {"done", "crashed"} /\ "#" \in LexiconNames(lexc))
    => Distinct(lexc, lexc_number_states(lexc))
=============================================================================
