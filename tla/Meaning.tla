------------------------------ MODULE Meaning ------------------------------
(***************************************************************************)
(* What the constructions of foma promise, as operations on sets of pairs  *)
(* of words: the reference the networks are compared with.  A word is a    *)
(* sequence of names, and only words of at most len names are looked at.   *)
(* A is the set of the names words are made of; those a network does not   *)
(* know are what its ? and its @ stand for.                                *)
(***************************************************************************)
EXTENDS Alphabet, SequencesExt

\* The arcs of net over the names: <<source, in, out, target>>, 0 for nothing.
Concrete(net, A) ==
  LET other == (A \ Names(net.sig)) \ {Boundary}
      Known(k) == IF k = EPSILON THEN {EPSILON} ELSE {net.sig[j] : j \in {k} \cap DOMAIN net.sig}
      Side(k) == IF k = UNKNOWN THEN other ELSE Known(k)
      Both(a) == IF a[2] = IDENTITY THEN {<<x, x>> : x \in other}
                 ELSE IF a[2] = UNKNOWN /\ a[3] = UNKNOWN
                 THEN {p \in other \X other : p[1] # p[2]}
                 ELSE Side(a[2]) \X Side(a[3])
  IN  UNION {{<<a[1], p[1], p[2], a[4]>> : p \in Both(a)} : a \in net.arcs}

Word(x) == IF x = EPSILON THEN <<>> ELSE <<x>>

\* The pairs that lead from a start node to a final one.
Accepted(arcs, start, fin, len) ==
  LET from == [q \in {a[1] : a \in arcs} |-> {a \in arcs : a[1] = q}]
      Step(c) == IF c[1] \notin DOMAIN from THEN {}
                 ELSE {<<a[4], c[2] \o Word(a[2]), c[3] \o Word(a[3])>> : a \in from[c[1]]}
      Short(c) == Len(c[2]) <= len /\ Len(c[3]) <= len
      RECURSIVE All(_, _)
      All(seen, new) ==
        IF new = {} THEN seen
        ELSE LET known == seen \cup new
             IN  All(known, {c \in UNION {Step(d) : d \in new} : Short(c)} \ known)
  IN  {<<c[2], c[3]>> : c \in {d \in All({}, {<<start, <<>>, <<>>>>}) : d[1] \in fin}}

Relation(net, A, len) == Accepted(Concrete(net, A), 0, net.fin, len)

\* One side only, the other of any length.
Erased(arcs, side) == {<<a[1], a[side], a[side], a[4]>> : a \in arcs}
Domain(net, A, len) == Accepted(Erased(Concrete(net, A), 2), 0, net.fin, len)
Image(net, A, len) == Accepted(Erased(Concrete(net, A), 3), 0, net.fin, len)

IsAcceptor(net) == \A a \in net.arcs : a[2] = a[3] /\ a[2] # UNKNOWN
Same(words) == {<<u, u>> : u \in words}
Left(pairs) == {p[1] : p \in pairs}

RECURSIVE Words(_, _)
Words(A, len) == IF len = 0 THEN {<<>>}
                 ELSE {<<>>} \cup {<<x>> \o w : x \in A, w \in Words(A, len - 1)}

-----------------------------------------------------------------------------
(* Operations on sets of pairs.                                            *)

Upto(pairs, len) == {p \in pairs : Len(p[1]) <= len /\ Len(p[2]) <= len}
Concat(R, S, len) == Upto({<<p[1] \o q[1], p[2] \o q[2]>> : p \in R, q \in S}, len)

RECURSIVE StarFrom(_, _, _)
StarFrom(R, acc, len) ==
  LET more == acc \cup Concat(acc, R, len)
  IN  IF more = acc THEN acc ELSE StarFrom(R, more, len)
Star(R, len) == StarFrom(R, {<< <<>>, <<>> >>}, len)

Swapped(R) == {<<p[2], p[1]>> : p \in R}
Mirror(w) == [i \in DOMAIN w |-> w[Len(w) + 1 - i]]

\* The composition of two graphs, the middle word of any length.
ComposedPairs(arcs1, fin1, arcs2, fin2, n1, n2, len) ==
  LET both == {<< <<a[1], b[1]>>, a[2], b[3], <<a[4], b[4]>> >> :
                 <<a, b>> \in {p \in arcs1 \X arcs2 : p[1][3] = p[2][2] /\ p[1][3] # EPSILON}}
      first == {<< <<a[1], q>>, a[2], EPSILON, <<a[4], q>> >> :
                  a \in {b \in arcs1 : b[3] = EPSILON}, q \in 0 .. n2 - 1}
      second == {<< <<q, b[1]>>, EPSILON, b[3], <<q, b[4]>> >> :
                  b \in {a \in arcs2 : a[2] = EPSILON}, q \in 0 .. n1 - 1}
  IN  Accepted(both \cup first \cup second, <<0, 0>>, fin1 \X fin2, len)

Composition(net1, net2, A, len) ==
  ComposedPairs(Concrete(net1, A), net1.fin, Concrete(net2, A), net2.fin, net1.n, net2.n, len)

\* The words of net without a word of del: at phase 0 and then at phase 1 letters
\* are kept, or eaten by del, or both, as the sets of phases keep and eat say.
Quotient(net, del, keep, eat, A, len) ==
  LET arcs == Concrete(net, A)
      food == Concrete(del, A)
      nodes == (0 .. net.n - 1) \X (0 .. del.n - 1)
      Free(l) == {p \in l \X {0, 1} : p[1][2] = EPSILON}
  IN  Accepted(
        {<< <<i, a[1], q>>, a[2], a[3], <<i, a[4], q>> >> :
            i \in keep, a \in arcs, q \in 0 .. del.n - 1}
        \cup {<< <<p[2], p[1][1], q>>, EPSILON, EPSILON, <<p[2], p[1][4], q>> >> :
            p \in Free(arcs), q \in 0 .. del.n - 1}
        \cup {<< <<p[2], q, p[1][1]>>, EPSILON, EPSILON, <<p[2], q, p[1][4]>> >> :
            p \in Free(food), q \in 0 .. net.n - 1}
        \cup {<< <<i, p[1][1], p[2][1]>>, EPSILON, EPSILON, <<i, p[1][4], p[2][4]>> >> :
            i \in eat, p \in {r \in arcs \X food : r[1][2] = r[2][2]}}
        \cup {<< <<0, p[1], p[2]>>, EPSILON, EPSILON, <<1, p[1], p[2]>> >> : p \in nodes},
        <<0, 0, 0>>, {1} \X net.fin \X del.fin, len)

RECURSIVE Shuffles(_, _)
Shuffles(u, w) ==
  IF u = <<>> THEN {w} ELSE IF w = <<>> THEN {u}
  ELSE {<<Head(u)>> \o x : x \in Shuffles(Tail(u), w)}
       \cup {<<Head(w)>> \o x : x \in Shuffles(u, Tail(w))}

\* w with words of S between its letters; if inner, not before or after them.
RECURSIVE Spread(_, _, _, _)
Spread(w, S, len, inner) ==
  IF Len(w) = 0 THEN IF inner THEN {<<>>} ELSE S
  ELSE IF inner /\ Len(w) = 1 THEN {w}
  ELSE {x \in {pre \o <<Head(w)>> \o rest :
                 pre \in IF inner THEN {<<>>} ELSE S,
                 rest \in IF inner
                          THEN {s \o r : s \in S, r \in Spread(Tail(w), S, len, TRUE)}
                          ELSE Spread(Tail(w), S, len, FALSE)} : Len(x) <= len}

\* The stretches <<i, j>> of w, from after letter i to letter j, that are in S.
Stretches(w, S) == {s \in (0 .. Len(w)) \X (0 .. Len(w)) :
                      s[1] <= s[2] /\ SubSeq(w, s[1] + 1, s[2]) \in S}


\* w with stretches of S replaced by words of T, and none of S in what is left.
RECURSIVE Rewritten(_, _, _, _)
Rewritten(w, S, T, len) ==
  LET Plain(u) == Stretches(u, S) = {}
      cuts == {c \in (0 .. Len(w)) \X (1 .. Len(w)) :
                 /\ c[1] < c[2]
                 /\ SubSeq(w, c[1] + 1, c[2]) \in S
                 /\ Plain(SubSeq(w, 1, c[1]))}
  IN  {u \in {w} : Plain(w)}
      \cup UNION {{u \in {SubSeq(w, 1, c[1]) \o t \o r :
                          t \in T, r \in Rewritten(SubSeq(w, c[2] + 1, Len(w)), S, T, len)} :
                     Len(u) <= len} : c \in cuts}
=============================================================================
