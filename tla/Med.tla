-------------------------------- MODULE Med --------------------------------
(***************************************************************************)
(* Approximate search: foma/spelling.c.  apply_med finds the words of a    *)
(* network that are nearest to a given one, by an A* search over pairs of  *)
(* a place in the word and a state.  The estimate of what is still to pay  *)
(* comes from two tables made with the handle: the letters that can be met *)
(* from each state on, found in one search that also finds the strongly    *)
(* connected components, and those that can be met in the next two arcs.   *)
(*                                                                         *)
(* net.lines[q]  the lines of state q: a sequence of [in, target]          *)
(* net.fin       the final states                                          *)
(* net.max       sigma_max                                                 *)
(*                                                                         *)
(* A network here is an acceptor without EPSILON, its symbols are numbers. *)
(* A node of the search carries the pairs on the way to it, in the program *)
(* its parent.                                                             *)
(***************************************************************************)
EXTENDS Integers, Sequences, SequencesExt

CONSTANTS
  Nets, Matrices,   \* the networks, and for each the matrices, NoMatrix or a function
  NoMatrix,
  Inputs,           \* the words looked up, a letter that is not in the alphabet as 2
  Limits, Cutoffs,  \* med_limit and med_cutoff
  AgendaSize,       \* INITIAL_AGENDA_SIZE
  HeapMax,          \* med_max_heap_size
  MaxCalls          \* bound on the words looked up with a handle

ASSUME MedAssumption ==
  /\ AgendaSize \in Nat \ {0, 1, 2} /\ {HeapMax, MaxCalls} \subseteq Nat
  /\ Limits \subseteq Nat \ {0} /\ Cutoffs \subseteq Nat

EPSILON == 0
IDENTITY == 2
maxdepth == 2

VARIABLES
  net, cm,                   \* the network and its confusion matrix
  letterbits, nletterbits,   \* the letters that can be met from a state on, and soon
  dfs,                       \* the search for components
  pc,
  word, limit, cutoff,       \* intword, med_limit, med_cutoff
  heap, size, count,         \* the nodes to be expanded, agenda_size, astarcount
  curr,                      \* the node being expanded
  answers,                   \* what the call has returned so far
  ended,                     \* why it returned NULL
  calls

search == <<word, limit, cutoff, heap, count, curr, answers, ended, calls, size>>
vars == <<net, cm, letterbits, nletterbits, dfs, pc, search>>

States(n) == DOMAIN n.lines
Line(v, i) == net.lines[v][i]

-----------------------------------------------------------------------------
(* Matrices: cost[in, out], EPSILON for nothing.                           *)

cmatrix_init(max) == [p \in (0 .. max) \X (0 .. max) |-> IF p[1] = p[2] THEN 0 ELSE 1]
cmatrix_default_substitute(m, cost) ==
  [p \in DOMAIN m |-> IF 0 \in {p[1], p[2]} THEN m[p] ELSE IF p[1] = p[2] THEN 0 ELSE cost]
cmatrix_default_insert(m, cost) == [p \in DOMAIN m |-> IF p[1] = 0 THEN cost ELSE m[p]]
cmatrix_default_delete(m, cost) == [p \in DOMAIN m |-> IF p[2] = 0 THEN cost ELSE m[p]]
cmatrix_set_cost(m, in, out, cost) == IF <<in, out>> \in DOMAIN m THEN [m EXCEPT ![in, out] = cost] ELSE m

\* The cost of a pair; one symbol against itself costs nothing.
CostOf(m, in, out) == IF in = out THEN 0 ELSE IF m = NoMatrix THEN 1 ELSE m[in, out]

-----------------------------------------------------------------------------
(* fsm_create_letter_lookup: the letters from each state on.               *)

Nothing == [heap |-> <<>>]
Init ==
  /\ net \in Nets /\ cm \in Matrices[net.max]
  /\ letterbits = [q \in States(net) |-> {}] /\ nletterbits = letterbits
  /\ dfs = [index |-> 1, no |-> [q \in States(net) |-> 0], low |-> [q \in States(net) |-> 0],
            ts |-> <<>>, arcs |-> <<>>, v |-> 0, i |-> 1]
  /\ pc = "enter"
  /\ word = <<>> /\ limit = 0 /\ cutoff = 0 /\ heap = <<>> /\ size = AgendaSize /\ count = 1
  /\ curr = Nothing /\ answers = <<>> /\ ended = "" /\ calls = 0

OnStack(q) == q \in ToSet(dfs.ts)
Lower(v, w) == [dfs EXCEPT !.low[v] = Min({@, dfs.low[w]})]
Looks(from, to) == /\ pc = from /\ pc' = to /\ UNCHANGED <<net, cm, nletterbits, search>>

\* l1: a state met for the first time.
Enter ==
  /\ Looks("enter", IF net.lines[dfs.v] = <<>> THEN "leave" ELSE "arc")
  /\ dfs' = [dfs EXCEPT !.no[dfs.v] = dfs.index, !.low[dfs.v] = dfs.index,
                        !.index = @ + 1, !.ts = Append(@, dfs.v)]
  /\ UNCHANGED letterbits

\* l2: an arc to a state that was not met before: go there, and come back later.
Descend ==
  LET a == Line(dfs.v, dfs.i)
  IN  /\ pc = "arc" /\ dfs.no[a.target] = 0
      /\ Looks("arc", "enter")
      /\ letterbits' = [letterbits EXCEPT ![dfs.v] = @ \cup {a.in}]
      /\ dfs' = [dfs EXCEPT !.arcs = Append(@, <<dfs.v, dfs.i>>), !.v = a.target, !.i = 1]

\* l2: an arc to one that was.
Across ==
  LET a == Line(dfs.v, dfs.i)
  IN  /\ pc = "arc" /\ dfs.no[a.target] # 0
      /\ Looks("arc", "line")
      /\ dfs' = IF OnStack(a.target) THEN Lower(dfs.v, a.target) ELSE dfs
      /\ letterbits' = [letterbits EXCEPT ![dfs.v] = @ \cup {a.in} \cup letterbits[a.target]]

\* l3: the next line of the state, if there is one.
NextLine ==
  /\ Looks("line", IF dfs.i < Len(net.lines[dfs.v]) THEN "arc" ELSE "leave")
  /\ dfs' = IF dfs.i < Len(net.lines[dfs.v]) THEN [dfs EXCEPT !.i = @ + 1] ELSE dfs
  /\ UNCHANGED letterbits

\* The states of the component whose root v is: those from v on.
Component(v) == {dfs.ts[k] : k \in (CHOOSE k \in DOMAIN dfs.ts : dfs.ts[k] = v) .. Len(dfs.ts)}
CopiedNot(C) == letterbits                 \* mutant: only the root knows all letters
Copied(C) == [q \in DOMAIN letterbits |-> IF q \in C THEN letterbits[dfs.v] ELSE letterbits[q]]

\* l4: the root of a component gives its letters to the others.
Leave ==
  LET C == Component(dfs.v)
      root == dfs.low[dfs.v] = dfs.no[dfs.v]
  IN  /\ Looks("leave", "back")
      /\ letterbits' = IF root THEN Copied(C) ELSE letterbits
      /\ dfs' = IF root THEN [dfs EXCEPT !.ts = SelectSeq(@, LAMBDA q : q \notin C)] ELSE dfs

\* Back on the arc by which a state was entered.
Back ==
  LET v == Last(dfs.arcs)[1]
      i == Last(dfs.arcs)[2]
      a == Line(v, i)
  IN  /\ dfs.arcs # <<>>
      /\ Looks("back", "line")
      /\ letterbits' = [letterbits EXCEPT ![v] = @ \cup {a.in} \cup letterbits[a.target]]
      /\ dfs' = [Lower(v, a.target) EXCEPT !.arcs = Front(@), !.v = v, !.i = i]

RECURSIVE Soon(_, _)
Soon(q, depth) ==
  IF depth = maxdepth THEN {}
  ELSE UNION {{a.in} \cup Soon(a.target, depth + 1) : a \in ToSet(net.lines[q])}

\* The letters of the next arcs, for each state by a search of its own.
Near ==
  /\ pc = "back" /\ dfs.arcs = <<>>
  /\ nletterbits' = [q \in States(net) |-> Soon(q, 0)]
  /\ pc' = "ready"
  /\ UNCHANGED <<net, cm, letterbits, dfs, search>>

-----------------------------------------------------------------------------
(* The estimate.                                                           *)

Missing(letters, bits) == Cardinality({k \in DOMAIN letters : letters[k] \notin bits})
EstimateBoth(far, near) == far + near      \* mutant: a letter is counted twice
Estimate(far, near) == Max({far, near})

calculate_h(w, pos, q) ==
  Estimate(Missing(SubSeq(w, pos + 1, Len(w)), letterbits[q]),
           Missing(SubSeq(w, pos + 1, Min({pos + maxdepth, Len(w)})), nletterbits[q]))

-----------------------------------------------------------------------------
(* The heap, as an array: least f first, of these the furthest in the word.*)

Node(w, pos, q, g, pairs) ==
  [pos |-> pos, state |-> q, g |-> g, f |-> g + calculate_h(w, pos, q), pairs |-> pairs]

Before(m, n) == m.f < n.f \/ (m.f <= n.f /\ m.pos > n.pos)
GivesWay(parent, n) == parent.f > n.f \/ (parent.f >= n.f /\ parent.pos <= n.pos)

RECURSIVE Raised(_, _, _)
Raised(h, j, node) ==
  IF j > 1 /\ GivesWay(h[j \div 2], node)
  THEN Raised([h EXCEPT ![j] = h[j \div 2]], j \div 2, node)
  ELSE [h EXCEPT ![j] = node]

RECURSIVE Sunk(_, _, _)
Sunk(h, i, node) ==
  LET child == IF 2 * i # Len(h) /\ Before(h[2 * i + 1], h[2 * i]) THEN 2 * i + 1 ELSE 2 * i
  IN  IF 2 * i <= Len(h) /\ Before(h[child], node)
      THEN Sunk([h EXCEPT ![i] = h[child]], child, node)
      ELSE [h EXCEPT ![i] = node]

node_delete_min(h) == IF Len(h) = 1 THEN <<>> ELSE Sunk(Front(h), 1, Last(h))

\* s.full: the agenda has no more room and may not grow.
node_insert(s, node) ==
  IF s.full \/ (s.count >= s.size - 1 /\ s.size * 2 >= HeapMax) THEN [s EXCEPT !.full = TRUE]
  ELSE [full |-> FALSE, count |-> s.count + 1,
        size |-> IF s.count >= s.size - 1 THEN s.size * 2 ELSE s.size,
        heap |-> Raised(Append(s.heap, node), Len(s.heap) + 1, node)]

-----------------------------------------------------------------------------
(* apply_med.                                                              *)

Uses == UNCHANGED <<net, cm, letterbits, nletterbits, dfs>>

\* A word for a handle: at once, or before the answers to the last one have all come.
Call(w, lim, cut) ==
  /\ pc \in {"ready", "answer"} /\ calls < MaxCalls
  /\ LET s == node_insert([heap |-> <<>>, count |-> 1, size |-> size, full |-> FALSE],
                          Node(w, 0, 0, 0, <<>>))
     IN  heap' = s.heap /\ count' = s.count
  /\ word' = w /\ limit' = lim /\ cutoff' = cut
  /\ answers' = <<>> /\ ended' = "" /\ calls' = calls + 1 /\ curr' = Nothing
  /\ pc' = "search"
  /\ Uses /\ UNCHANGED size

End(why) == pc' = "ready" /\ ended' = why

\* The least node; a final state at the end of the word is an answer.
Take ==
  /\ pc = "search"
  /\ IF heap = <<>> THEN End("cutoff") /\ UNCHANGED <<heap, curr, answers>>
     ELSE LET node == heap[1]
              found == node.state \in net.fin /\ node.pos = Len(word)
          IN  /\ heap' = node_delete_min(heap) /\ curr' = node
              /\ IF node.f > cutoff THEN End("cutoff") /\ UNCHANGED answers
                 ELSE /\ answers' = IF found THEN Append(answers, [pairs |-> node.pairs, cost |-> node.g])
                                    ELSE answers
                      /\ pc' = IF found THEN "answer" ELSE "expand"
                      /\ UNCHANGED ended
  /\ Uses /\ UNCHANGED <<word, limit, cutoff, size, count, calls>>

\* apply_med with NULL: what the node leads to is still to be added.
Resume ==
  /\ pc = "answer"
  /\ IF Len(answers) = limit THEN End("limit") ELSE pc' = "expand" /\ UNCHANGED ended
  /\ Uses /\ UNCHANGED <<word, limit, cutoff, heap, size, count, curr, answers, calls>>

WithinLess(f) == f < cutoff                \* mutant: not what costs just the cutoff
Within(f) == f <= cutoff

\* What the i-th line of the state leads to: its symbol left out of the word, its symbol
\* for the letter, and with the first line the letter with the state kept.
Moves(i) ==
  LET a == Line(curr.state, i)
      letter == word[curr.pos + 1]
      To(pos, q, in, out) == Node(word, pos, q, curr.g + CostOf(cm, in, out),
                                  Append(curr.pairs, <<in, out>>))
      deleted == <<To(curr.pos, a.target, a.in, EPSILON)>>
      matched == <<To(curr.pos + 1, a.target, a.in, letter)>>
      inserted == <<To(curr.pos + 1, curr.state, EPSILON, letter)>>
  IN  IF net.lines[curr.state] = <<>>
      THEN IF curr.pos = Len(word) THEN <<>> ELSE inserted
      ELSE deleted \o (IF curr.pos = Len(word) THEN <<>>
                       ELSE IF i = 1 THEN matched \o inserted ELSE matched)

Expand ==
  /\ pc = "expand"
  /\ LET lines == IF net.lines[curr.state] = <<>> THEN 1 ELSE Len(net.lines[curr.state])
         nodes == SelectSeq(FlattenSeq([i \in 1 .. lines |-> Moves(i)]), LAMBDA n : Within(n.f))
         s == FoldLeft(node_insert, [heap |-> heap, count |-> count, size |-> size, full |-> FALSE], nodes)
     IN  /\ heap' = s.heap /\ count' = s.count /\ size' = s.size
         /\ IF s.full THEN End("full") ELSE pc' = "search" /\ UNCHANGED ended
  /\ Uses /\ UNCHANGED <<word, limit, cutoff, curr, answers, calls>>

Next ==
  \/ Enter \/ Descend \/ Across \/ NextLine \/ Leave \/ Back \/ Near
  \/ \E w \in Inputs, lim \in Limits, cut \in Cutoffs : Call(w, lim, cut)
  \/ Take \/ Resume \/ Expand

Spec == Init /\ [][Next]_vars
-----------------------------------------------------------------------------
(* What is right.                                                          *)

RECURSIVE Ahead(_, _)
Ahead(Q, letters) ==
  LET arcs == UNION {ToSet(net.lines[q]) : q \in Q}
      more == Q \cup {a.target : a \in arcs}
  IN  IF more = Q THEN {a.in : a \in arcs} ELSE Ahead(more, letters)

\* The one search through the network, with an end in each component, finds for every
\* state the letters on all paths from it, loops and crossing arcs included: a letter too
\* few and the estimate is above the true cost and answers are lost, one too many and the
\* search is only slower, which nobody would notice.
LettersExact ==
  pc \in {"ready", "search"} => \A q \in States(net) : letterbits[q] = Ahead({q}, {})

\* The words of the network, of at most len letters.
RECURSIVE SpeltFrom(_, _)
SpeltFrom(q, len) ==
  {<<>> : x \in {q} \cap net.fin}
  \cup (IF len = 0 THEN {}
        ELSE UNION {{<<a.in>> \o u : u \in SpeltFrom(a.target, len - 1)} : a \in ToSet(net.lines[q])})

\* The least cost of turning u into w.
RECURSIVE Distance(_, _)
Distance(u, w) ==
  IF u = <<>> /\ w = <<>> THEN 0
  ELSE Min((IF u = <<>> THEN {} ELSE {CostOf(cm, Head(u), EPSILON) + Distance(Tail(u), w)})
           \cup (IF w = <<>> THEN {} ELSE {CostOf(cm, EPSILON, Head(w)) + Distance(u, Tail(w))})
           \cup (IF u = <<>> \/ w = <<>> THEN {}
                 ELSE {CostOf(cm, Head(u), Head(w)) + Distance(Tail(u), Tail(w))}))

Spelling(pairs, side) == SelectSeq([k \in DOMAIN pairs |-> pairs[k][side]], LAMBDA x : x # EPSILON)
Found(k) == Spelling(answers[k].pairs, 1)

\* Answers come in the order of their costs, each is a word of the network set beside the
\* word asked for, and comes first with the least cost it can have.
CheapestFirst ==
  pc = "answer" =>
    /\ \A k \in 2 .. Len(answers) : answers[k - 1].cost <= answers[k].cost
    /\ \A k \in DOMAIN answers :
         /\ Found(k) \in SpeltFrom(0, Len(Found(k)))
         /\ Spelling(answers[k].pairs, 2) = word
         /\ (\A j \in 1 .. k - 1 : Found(j) # Found(k)) => answers[k].cost = Distance(Found(k), word)

\* When the search ends by itself, every word within the cutoff was an answer.
NothingMissed ==
  (pc = "ready" /\ ended = "cutoff") =>
    \A u \in SpeltFrom(0, Len(word) + cutoff) :
      Distance(u, word) <= cutoff => \E k \in DOMAIN answers : Found(k) = u

\* The limit is one on the number of words: no word is an answer twice.
AnswersDistinct == \A j \in DOMAIN answers, k \in DOMAIN answers : Found(j) = Found(k) => j = k
=============================================================================
