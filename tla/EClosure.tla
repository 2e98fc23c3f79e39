------------------------------ MODULE EClosure ------------------------------
(***************************************************************************)
(* e_closure and the set lookup of foma/determinize.c, call after call.    *)
(*                                                                         *)
(* Three tables remember what has been seen: e_table (members of the set   *)
(* being made), marktable (states followed) and mark in e_closure_memo     *)
(* (states pushed).  None is ever cleared: an entry counts only when it    *)
(* equals mainloop, which must therefore be new to all of them at every    *)
(* call.  The lookup reads the marks that the call has left in e_table.    *)
(***************************************************************************)
EXTENDS Naturals, Sequences, FiniteSets, SequencesExt, Functions

CONSTANTS
  State,      \* the states of the machine
  Graphs,     \* the relations its epsilon arcs may form
  MaxCalls    \* bound on the calls

ASSUME EClosureAssumption ==
  /\ MaxCalls \in Nat
  /\ IsFiniteSet(State)
  /\ \A E \in Graphs : E \subseteq State \X State

VARIABLES
  eps,         \* the epsilon arcs, without loops (memoize_e_closure drops them)
  mainloop,    \* the stamp of this call
  e_table, marktable, mark,
  temp_move,   \* the set being made
  states,      \* how many of its members the caller put there
  i,           \* the next of those to follow
  ptr_stack,   \* states to visit, the top first
  sets,        \* the sets stored, in the order of their numbers
  ret,         \* what the call returned: a number in sets
  calls,       \* the calls so far
  pc

vars == <<eps, mainloop, e_table, marktable, mark, temp_move, states, i, ptr_stack,
          sets, ret, calls, pc>>

-----------------------------------------------------------------------------

\* The targets of a state's memo chain.
Targets(s) == {t \in State : <<s, t>> \in eps}

Init ==
  /\ \E E \in Graphs : eps = {e \in E : e[1] # e[2]}
  /\ mainloop = 1
  /\ e_table = [s \in State |-> 0]
  /\ marktable = [s \in State |-> 0]
  /\ mark = [s \in State |-> 0]
  /\ temp_move = <<>> /\ states = 0 /\ i = 1 /\ ptr_stack = <<>>
  /\ sets = <<>> /\ ret = 0 /\ calls = 0
  /\ pc = "caller"

(***************************************************************************)
(* Collect: fsm_subset puts the targets S of a move in temp_move and       *)
(* stamps them, then calls e_closure.  It advances mainloop before the     *)
(* call and e_closure takes that back, so the stamps of the two agree.     *)
(***************************************************************************)
Collect(S) ==
  /\ pc = "caller" /\ calls < MaxCalls
  /\ temp_move' = SetToSeq(S)
  /\ states' = Cardinality(S)
  /\ e_table' = [s \in State |-> IF s \in S THEN mainloop ELSE e_table[s]]
  /\ i' = 1
  /\ calls' = calls + 1
  /\ pc' = "closure"
  /\ UNCHANGED <<eps, mainloop, marktable, mark, ptr_stack, sets, ret>>

\* Mutant: the position in the caller's states is not advanced.
FollowSame ==
  /\ pc = "closure" /\ ptr_stack = <<>> /\ i <= states
  /\ ptr_stack' = IF Targets(temp_move[i]) = {} THEN ptr_stack ELSE <<temp_move[i]>>
  /\ UNCHANGED <<eps, mainloop, e_table, marktable, mark, temp_move, states, i, sets,
                 ret, calls, pc>>

\* Follow: the next of the caller's states is pushed, unless it leads nowhere.
Follow ==
  /\ pc = "closure" /\ ptr_stack = <<>> /\ i <= states
  /\ i' = i + 1
  /\ ptr_stack' = IF Targets(temp_move[i]) = {} THEN ptr_stack ELSE <<temp_move[i]>>
  /\ UNCHANGED <<eps, mainloop, e_table, marktable, mark, temp_move, states, sets,
                 ret, calls, pc>>

\* Seen: a state popped that was followed before in this call.
Seen ==
  /\ pc = "closure" /\ ptr_stack # <<>>
  /\ marktable[Head(ptr_stack)] = mainloop
  /\ ptr_stack' = Tail(ptr_stack)
  /\ UNCHANGED <<eps, mainloop, e_table, marktable, mark, temp_move, states, i, sets,
                 ret, calls, pc>>

\* Mutant: the state is appended whether or not it is a member.
VisitAppends ==
  LET s    == Head(ptr_stack)
      next == {t \in Targets(s) : t # s /\ mark[t] # mainloop}
  IN /\ pc = "closure" /\ ptr_stack # <<>>
     /\ marktable[s] # mainloop
     /\ marktable' = [marktable EXCEPT ![s] = mainloop]
     /\ mark' = [t \in State |-> IF t = s \/ t \in next THEN mainloop ELSE mark[t]]
     /\ e_table' = [e_table EXCEPT ![s] = mainloop]
     /\ temp_move' = Append(temp_move, s)
     /\ \E order \in SetToSeqs(next) : ptr_stack' = order \o Tail(ptr_stack)
     /\ UNCHANGED <<eps, mainloop, states, i, sets, ret, calls, pc>>

(***************************************************************************)
(* Visit: a state popped for the first time joins the set, and the targets *)
(* of its chain that have not been pushed are pushed.                      *)
(***************************************************************************)
Visit ==
  LET s    == Head(ptr_stack)
      next == {t \in Targets(s) : t # s /\ mark[t] # mainloop}
  IN /\ pc = "closure" /\ ptr_stack # <<>>
     /\ marktable[s] # mainloop
     /\ marktable' = [marktable EXCEPT ![s] = mainloop]
     /\ mark' = [t \in State |-> IF t = s \/ t \in next THEN mainloop ELSE mark[t]]
     /\ e_table' = [e_table EXCEPT ![s] = mainloop]
     /\ temp_move' = IF e_table[s] = mainloop THEN temp_move ELSE Append(temp_move, s)
     /\ \E order \in SetToSeqs(next) : ptr_stack' = order \o Tail(ptr_stack)
     /\ UNCHANGED <<eps, mainloop, states, i, sets, ret, calls, pc>>

\* The stored sets of this size whose members all bear the stamp of the call.
Matches == {n \in DOMAIN sets : /\ Cardinality(sets[n]) = Len(temp_move)
                                /\ \A s \in sets[n] : e_table[s] = mainloop}

\* Mutant: mainloop is not advanced past the stamps of the call.
ReturnSameStamp ==
  /\ pc = "closure" /\ ptr_stack = <<>> /\ i > states
  /\ \/ ret' \in Matches /\ UNCHANGED sets
     \/ /\ Matches = {}
        /\ sets' = Append(sets, Range(temp_move))
        /\ ret' = Len(sets')
  /\ pc' = "caller"
  /\ UNCHANGED <<eps, mainloop, e_table, marktable, mark, temp_move, states, i,
                 ptr_stack, calls>>

(***************************************************************************)
(* Return: the number of the stored set that matches, or of the set stored *)
(* now; mainloop moves past every stamp (the code advances it just before  *)
(* the lookup, which compares with mainloop - 1).                          *)
(***************************************************************************)
Return ==
  /\ pc = "closure" /\ ptr_stack = <<>> /\ i > states
  /\ \/ ret' \in Matches /\ UNCHANGED sets
     \/ /\ Matches = {}
        /\ sets' = Append(sets, Range(temp_move))
        /\ ret' = Len(sets')
  /\ mainloop' = mainloop + 1
  /\ pc' = "caller"
  /\ UNCHANGED <<eps, e_table, marktable, mark, temp_move, states, i, ptr_stack, calls>>

Next ==
  \/ \E S \in (SUBSET State) \ {{}} : Collect(S)
  \/ Follow
  \/ Seen
  \/ Visit
  \/ Return

Spec == Init /\ [][Next]_vars /\ WF_vars(Follow \/ Seen \/ Visit \/ Return)

-----------------------------------------------------------------------------

\* The states the epsilon arcs lead to from S, in any number of steps.
Closure(S) ==
  {s \in State :
     \A X \in SUBSET State :
       S \subseteq X /\ (\A e \in eps : e[1] \in X => e[2] \in X) => s \in X}

\* What the caller put in temp_move.
Moved == {temp_move[k] : k \in 1..states}

\* TypeOK: stamps are never from the future.
TypeOK ==
  /\ e_table \in [State -> 0..mainloop]
  /\ marktable \in [State -> 0..mainloop]
  /\ mark \in [State -> 0..mainloop]
  /\ temp_move \in Seq(State) /\ ptr_stack \in Seq(State)
  /\ states \in 0..Len(temp_move)
  /\ ret \in 0..Len(sets)
  /\ pc \in {"caller", "closure"}

(***************************************************************************)
(* ReturnsClosure: every call returns the number of exactly the epsilon    *)
(* closure of the states it was given, whatever earlier calls have left in *)
(* the tables, and equal sets get equal numbers.                           *)
(***************************************************************************)
ReturnsClosure ==
  /\ pc = "caller" /\ calls > 0 => sets[ret] = Closure(Moved)
  /\ \A m, n \in DOMAIN sets : sets[m] = sets[n] => m = n

(***************************************************************************)
(* BufferSuffices: temp_move, with room for one entry per state and one    *)
(* more, is never overrun, since no state enters it twice.                 *)
(***************************************************************************)
BufferSuffices == Len(temp_move) <= Cardinality(State)

\* Returns: a call comes to an end, also when the epsilon arcs form a cycle.
Returns == pc = "closure" ~> pc = "caller"
=============================================================================
