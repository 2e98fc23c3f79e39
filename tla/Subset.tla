------------------------------- MODULE Subset -------------------------------
(***************************************************************************)
(* fsm_subset (foma/determinize.c): fsm_determinize and fsm_epsilon_remove *)
(* by one worklist construction, with the builder of foma/dynarray.c that  *)
(* it writes its lines to.                                                 *)
(*                                                                         *)
(* The epsilon closure is the least closed set here (module EClosure shows *)
(* that e_closure computes it).  Left open: the order in which the arcs by *)
(* one symbol are met.                                                     *)
(***************************************************************************)
EXTENDS Integers, FiniteSets, SequencesExt

CONSTANTS
  State,    \* the states of the input
  Symbol,   \* the single symbols that stand for in:out pairs, numbers
  Epsilon,  \* the one that stands for EPSILON:EPSILON
  Nets,     \* the inputs
  Words     \* the words in which input and result are compared

\* A struct fsm: start and final states, arcs <<source, symbol, target>>.
Automaton ==
  [start : SUBSET State, final : SUBSET State,
   arcs : SUBSET (State \X (Symbol \cup {Epsilon}) \X State)]

ASSUME SubsetAssumption ==
  /\ Symbol \subseteq Int /\ Epsilon \notin Symbol
  /\ Nets \subseteq Automaton
  /\ \A n \in Nets : n.start # {}
  /\ Words \subseteq Seq(Symbol)

None == -1

VARIABLES
  net,              \* the input
  op,               \* the operation asked for
  current_setnum,   \* the number of the last set found
  sets,             \* the sets found: set_table through T_ptr
  T,                \* the set being expanded
  unmarked,         \* int_stack: the sets still to be expanded, the next one last
  built,            \* history: the sets expanded, in the order of their lines
  todo,             \* the arcs of the states of T still ahead of the tails
  last,             \* slookup: the last target added for a symbol of T
  out,              \* the arcs of the machine built
  repeated,         \* some arc has two lines in it
  outfinal,         \* its final states
  is_deterministic, \* the flag of the input, then that of the machine built
  pc

vars == <<net, op, current_setnum, sets, T, unmarked, built, todo, last, out,
          repeated, outfinal, is_deterministic, pc>>

-----------------------------------------------------------------------------

\* The least set that holds S and is closed under the epsilon arcs of n.
EClose(n, S) ==
  {s \in State :
     \A X \in SUBSET State :
       /\ S \subseteq X
       /\ \A e \in n.arcs : e[2] = Epsilon /\ e[1] \in X => e[3] \in X
       => s \in X}

\* The states that those of S have arcs to by symbol a.
Move(n, S, a) == {t \in State : \E s \in S : <<s, a, t>> \in n.arcs}

HasEpsilon(n) == \E e \in n.arcs : e[2] = Epsilon

\* init_trans_array and memoize_e_closure find no choice anywhere.
deterministic(n) ==
  /\ \A e \in n.arcs : e[2] = Epsilon => e[1] = e[3]
  /\ \A e1, e2 \in n.arcs :
       e1[2] # Epsilon /\ e1[1] = e2[1] /\ e1[2] = e2[2] => e1 = e2

\* What the flag is_deterministic says of machine n, whichever its start state is.
NoChoice(n) == deterministic(n) /\ ~HasEpsilon(n) /\ \E s \in n.start : n.start = {s}

\* The test of the second early return: nothing to choose, and state 0 is the start.
IsDeterministic(n) == deterministic(n) /\ ~HasEpsilon(n) /\ n.start = {0}

\* The test of the third: what was asked for is there already.
IsEpsilonFree(n, o) == o = "epsilon_remove" /\ ~HasEpsilon(n)

(***************************************************************************)
(* The flag of the input is as earlier functions have left it: it may be   *)
(* NO or UNK of a machine without choices, but YES of no other             *)
(* (FlagsTruthful of Promises).                                            *)
(***************************************************************************)
Init ==
  /\ net \in Nets
  /\ op \in {"determinize", "epsilon_remove"}
  /\ current_setnum = -1
  /\ sets = [k \in {} |-> {}]
  /\ T = None
  /\ unmarked = <<>> /\ built = <<>>
  /\ todo = {}
  /\ last = [a \in Symbol |-> None]
  /\ out = {} /\ repeated = FALSE /\ outfinal = {}
  /\ is_deterministic \in {b \in BOOLEAN : b => NoChoice(net)}
  /\ pc = "start"

\* Mutant: the third return claims what only the second has tested.
ReturnAsIsClaims ==
  /\ pc = "start"
  /\ \/ is_deterministic /\ UNCHANGED is_deterministic
     \/ ~is_deterministic /\ IsDeterministic(net) /\ is_deterministic' = TRUE
     \/ ~is_deterministic /\ ~IsDeterministic(net) /\ IsEpsilonFree(net, op)
        /\ is_deterministic' = TRUE
  /\ pc' = "returned"
  /\ UNCHANGED <<net, op, current_setnum, sets, T, unmarked, built, todo, last, out,
                 repeated, outfinal>>

(***************************************************************************)
(* ReturnAsIs: the early returns.  The flag is believed; or it is found to *)
(* be right and set; or, for fsm_epsilon_remove, it stays what it was.     *)
(***************************************************************************)
ReturnAsIs ==
  /\ pc = "start"
  /\ \/ is_deterministic /\ UNCHANGED is_deterministic
     \/ ~is_deterministic /\ IsDeterministic(net) /\ is_deterministic' = TRUE
     \/ ~is_deterministic /\ ~IsDeterministic(net) /\ IsEpsilonFree(net, op)
        /\ UNCHANGED is_deterministic
  /\ pc' = "returned"
  /\ UNCHANGED <<net, op, current_setnum, sets, T, unmarked, built, todo, last, out,
                 repeated, outfinal>>

\* Mutant: without int_stack_clear set 0 also waits on the stack.
BeginKeepsStack ==
  /\ pc = "start" /\ ~is_deterministic
  /\ ~IsDeterministic(net) /\ ~IsEpsilonFree(net, op)
  /\ current_setnum' = 0
  /\ sets' = [k \in {0} |-> EClose(net, net.start)]
  /\ T' = 0 /\ unmarked' = <<0>>
  /\ is_deterministic' = TRUE
  /\ pc' = "open"
  /\ UNCHANGED <<net, op, built, todo, last, out, repeated, outfinal>>

(***************************************************************************)
(* Begin: the closure of the start states is set 0.  add_T_ptr pushes it   *)
(* as it does every set; int_stack_clear takes it off the stack, for it is *)
(* expanded at once.  fsm_state_init sets the flag.                        *)
(***************************************************************************)
Begin ==
  /\ pc = "start" /\ ~is_deterministic
  /\ ~IsDeterministic(net) /\ ~IsEpsilonFree(net, op)
  /\ current_setnum' = 0
  /\ sets' = [k \in {0} |-> EClose(net, net.start)]
  /\ T' = 0 /\ unmarked' = <<>>
  /\ is_deterministic' = TRUE
  /\ pc' = "open"
  /\ UNCHANGED <<net, op, built, todo, last, out, repeated, outfinal>>

(***************************************************************************)
(* OpenState: fsm_state_set_current_state, and the tails of all its states *)
(* go back to their first arcs.                                            *)
(***************************************************************************)
OpenState ==
  /\ pc = "open"
  /\ outfinal' = IF sets[T] \cap net.final # {} THEN outfinal \cup {T} ELSE outfinal
  /\ todo' = {e \in net.arcs : e[1] \in sets[T] /\ e[2] # Epsilon}
  /\ pc' = "arcs"
  /\ UNCHANGED <<net, op, current_setnum, sets, T, unmarked, built, last, out,
                 repeated, is_deterministic>>

\* Mutant: a second target by a symbol leaves the flag alone.
AddArcKeepsFlag(a, U) ==
  IF last[a] = U THEN UNCHANGED <<last, out, repeated, is_deterministic>>
  ELSE /\ last' = [last EXCEPT ![a] = U]
       /\ out' = out \cup {<<T, a, U>>}
       /\ repeated' = (repeated \/ <<T, a, U>> \in out)
       /\ UNCHANGED is_deterministic

(***************************************************************************)
(* fsm_state_add_arc: an arc is skipped when it is the last one added by   *)
(* its symbol; a second target by a symbol clears the flag.                *)
(***************************************************************************)
AddArc(a, U) ==
  IF last[a] = U THEN UNCHANGED <<last, out, repeated, is_deterministic>>
  ELSE /\ last' = [last EXCEPT ![a] = U]
       /\ out' = out \cup {<<T, a, U>>}
       /\ repeated' = (repeated \/ <<T, a, U>> \in out)
       /\ is_deterministic' = (is_deterministic /\ last[a] = None)

\* Mutant: a set that is found is pushed again.
AddSetPushesFound(a, S) ==
  \/ \E U \in DOMAIN sets :
       /\ sets[U] = S /\ AddArc(a, U)
       /\ unmarked' = Append(unmarked, U)
       /\ UNCHANGED <<current_setnum, sets>>
  \/ /\ \A U \in DOMAIN sets : sets[U] # S
     /\ current_setnum' = current_setnum + 1
     /\ sets' = [k \in 0..current_setnum' |-> IF k = current_setnum' THEN S ELSE sets[k]]
     /\ unmarked' = Append(unmarked, current_setnum')
     /\ AddArc(a, current_setnum')

(***************************************************************************)
(* AddSet: nhash_find_insert finds the number of S, or S becomes the next  *)
(* set and add_T_ptr pushes it; the arc by a to it is added.               *)
(***************************************************************************)
AddSet(a, S) ==
  \/ /\ \E U \in DOMAIN sets : sets[U] = S /\ AddArc(a, U)
     /\ UNCHANGED <<current_setnum, sets, unmarked>>
  \/ /\ \A U \in DOMAIN sets : sets[U] # S
     /\ current_setnum' = current_setnum + 1
     /\ sets' = [k \in 0..current_setnum' |-> IF k = current_setnum' THEN S ELSE sets[k]]
     /\ unmarked' = Append(unmarked, current_setnum')
     /\ AddArc(a, current_setnum')

\* The next symbol that any state of T still has arcs by.
minsym(a) == /\ \E e \in todo : e[2] = a
             /\ \A e \in todo : a <= e[2]

\* Mutant: the set of the targets is not closed.
MoveSymbolOpen(a) ==
  /\ pc = "arcs" /\ op = "determinize" /\ minsym(a)
  /\ AddSet(a, Move(net, sets[T], a))
  /\ todo' = {e \in todo : e[2] # a}
  /\ UNCHANGED <<net, op, T, built, outfinal, pc>>

\* Mutant: the tails are not moved on.
MoveSymbolStays(a) ==
  /\ pc = "arcs" /\ op = "determinize" /\ minsym(a)
  /\ AddSet(a, EClose(net, Move(net, sets[T], a)))
  /\ UNCHANGED <<net, op, T, built, todo, outfinal, pc>>

\* MoveSymbol: fsm_determinize takes all targets by the symbol together.
MoveSymbol(a) ==
  /\ pc = "arcs" /\ op = "determinize" /\ minsym(a)
  /\ AddSet(a, EClose(net, Move(net, sets[T], a)))
  /\ todo' = {e \in todo : e[2] # a}
  /\ UNCHANGED <<net, op, T, built, outfinal, pc>>

\* MoveArc: fsm_epsilon_remove takes each target on its own.
MoveArc(e) ==
  /\ pc = "arcs" /\ op = "epsilon_remove" /\ e \in todo /\ minsym(e[2])
  /\ AddSet(e[2], EClose(net, {e[3]}))
  /\ todo' = todo \ {e}
  /\ UNCHANGED <<net, op, T, built, outfinal, pc>>

(***************************************************************************)
(* EndState: fsm_state_end_state, after which the lines of T are complete; *)
(* then next_unmarked, or fsm_state_close when no set is left.             *)
(***************************************************************************)
EndState ==
  /\ pc = "arcs" /\ todo = {}
  /\ last' = [a \in Symbol |-> None]
  /\ built' = Append(built, T)
  /\ \/ /\ unmarked # <<>>
        /\ T' = Last(unmarked) /\ unmarked' = Front(unmarked)
        /\ pc' = "open"
     \/ /\ unmarked = <<>>
        /\ pc' = "closed"
        /\ UNCHANGED <<T, unmarked>>
  /\ UNCHANGED <<net, op, current_setnum, sets, todo, out, repeated, outfinal,
                 is_deterministic>>

Next ==
  \/ ReturnAsIs
  \/ Begin
  \/ OpenState
  \/ \E a \in Symbol : MoveSymbol(a)
  \/ \E e \in todo : MoveArc(e)
  \/ EndState

Fairness == WF_vars(Next)

Spec == Init /\ [][Next]_vars /\ Fairness

-----------------------------------------------------------------------------

\* The machine returned.
Result ==
  IF pc = "returned" THEN net ELSE [start |-> {0}, final |-> outfinal, arcs |-> out]

TypeOK ==
  /\ net \in Automaton
  /\ op \in {"determinize", "epsilon_remove"}
  /\ current_setnum \in Nat \cup {-1}
  /\ sets \in [0..current_setnum -> SUBSET State]
  /\ T \in {None} \cup 0..current_setnum
  /\ unmarked \in Seq(0..current_setnum) /\ built \in Seq(0..current_setnum)
  /\ todo \subseteq net.arcs
  /\ last \in [Symbol -> {None} \cup 0..current_setnum]
  /\ out \subseteq (0..current_setnum) \X Symbol \X (0..current_setnum)
  /\ outfinal \subseteq 0..current_setnum
  /\ repeated \in BOOLEAN /\ is_deterministic \in BOOLEAN
  /\ pc \in {"start", "returned", "open", "arcs", "closed"}

\* The set at hand.
AtHand == IF pc = "closed" THEN {} ELSE {T}

\* The sets that the operation leads to from set S by symbol a.
Successors(S, a) ==
  IF op = "determinize"
  THEN {EClose(net, Move(net, S, a))} \ {{}}
  ELSE {EClose(net, {t}) : t \in Move(net, S, a)}

\* The sets that set number V has arcs to by symbol a.
Targets(V, a) == {sets[U] : U \in {W \in DOMAIN sets : <<V, a, W>> \in out}}

(***************************************************************************)
(* EachOnce: every number given out is in one place once: among those      *)
(* whose lines are written, at hand, or on the stack.                      *)
(***************************************************************************)
EachOnce ==
  /\ IsInjective(built) /\ IsInjective(unmarked)
  /\ ToSet(built) \cap ToSet(unmarked) = {}
  /\ AtHand \cap (ToSet(built) \cup ToSet(unmarked)) = {}
  /\ 0..current_setnum = ToSet(built) \cup AtHand \cup ToSet(unmarked)

(***************************************************************************)
(* ExpandedExactly: a set has one number, and none is pushed or expanded   *)
(* again or forgotten on the stack; those expanded have exactly the arcs   *)
(* and the finality their sets give them.                                  *)
(***************************************************************************)
ExpandedExactly ==
  pc \in {"open", "arcs", "closed"} =>
    /\ IsInjective(sets)
    /\ sets[0] = EClose(net, net.start)
    /\ EachOnce
    /\ \A V \in ToSet(built) :
         /\ V \in outfinal <=> sets[V] \cap net.final # {}
         /\ \A a \in Symbol : Targets(V, a) = Successors(sets[V], a)

(***************************************************************************)
(* FlagIsRight: is_deterministic of the machine returned, on which later   *)
(* calls return early, is never set when there is a choice; it is set by   *)
(* fsm_determinize on every way out, and of a machine built it is exact.   *)
(***************************************************************************)
FlagIsRight ==
  pc \in {"returned", "closed"} =>
    /\ is_deterministic => NoChoice(Result)
    /\ op = "determinize" => is_deterministic
    /\ pc = "closed" => (NoChoice(Result) => is_deterministic)

\* The states, of those in S, where machine m is after the empty word and after a
\* symbol more; an epsilon arc may be followed at any time.
Closure(m, S, X) ==
  {s \in S : \A Y \in SUBSET S :
     X \subseteq Y /\ (\A e \in m.arcs : e[2] = Epsilon /\ e[1] \in Y => e[3] \in Y) => s \in Y}
Step(m, S, X, a) == Closure(m, S, {t \in S : \E s \in X : <<s, a, t>> \in m.arcs})

\* The states after each beginning of word w, and after all of it.
Reading(m, S, w) ==
  LET after[k \in 0..Len(w)] ==
        IF k = 0 THEN Closure(m, S, m.start) ELSE Step(m, S, after[k - 1], w[k])
  IN  after
After(m, S, w) == Reading(m, S, w)[Len(w)]

(***************************************************************************)
(* LanguageKept: the machine returned accepts the words that the input     *)
(* accepts.                                                                *)
(***************************************************************************)
LanguageKept ==
  pc \in {"returned", "closed"} =>
    \A w \in Words :
      After(net, State, w) \cap net.final # {} <=>
      After(Result, IF pc = "returned" THEN State ELSE DOMAIN sets, w) \cap Result.final # {}

\* Terminates: fsm_subset returns.
Terminates == <>(pc \in {"returned", "closed"})

(***************************************************************************)
(* NoRepeatedArc: fsm_state_add_arc "Check if we already added this        *)
(* particular arc and skip".                                               *)
(***************************************************************************)
NoRepeatedArc == ~repeated
=============================================================================
