------------------------------ MODULE Worklist ------------------------------
(***************************************************************************)
(* How the constructions write a machine (foma/dynarray.c): states are     *)
(* numbered when an arc first leads to them and wait on int_stack; each is *)
(* written, all its lines together, when it is popped.  So do fsm_subset,  *)
(* fsm_intersect, fsm_compose and the others; which arcs there are is left *)
(* open here.                                                              *)
(***************************************************************************)
EXTENDS Integers, Sequences, SequencesExt

CONSTANTS
  MaxStates,  \* bound on the states of the machine
  MaxLines    \* bound on its lines

ASSUME WorklistAssumption == MaxStates \in Nat \ {0} /\ MaxLines \in Nat \ {0}

VARIABLES
  lines,      \* current_fsm_head: the lines written, in order
  statecount, \* the states numbered so far
  int_stack,  \* the states numbered but not yet written, the top first
  current,    \* the state being written and whether it is final
  wpc

wvars == <<lines, statecount, int_stack, current, wpc>>

(***************************************************************************)
(* A line: a struct fsm_state.  The label of an arc stands for its in:out  *)
(* pair and tells the arcs apart; a line without arc has -1 for both.      *)
(***************************************************************************)
Line(s, l, t, f) == [state_no |-> s, label |-> l, target |-> t, final_state |-> f]

\* The line that ends every machine.
Sentinel == Line(-1, -1, -1, FALSE)

WInit ==
  /\ lines = <<>>
  /\ statecount = 1
  /\ int_stack = <<0>>
  /\ current = [state_no |-> -1, final |-> FALSE]
  /\ wpc = "pop"

\* SetCurrentState: a state is popped and opened.
SetCurrentState ==
  /\ wpc = "pop" /\ int_stack # <<>>
  /\ \E f \in BOOLEAN : current' = [state_no |-> Head(int_stack), final |-> f]
  /\ int_stack' = Tail(int_stack)
  /\ wpc' = "arcs"
  /\ UNCHANGED <<lines, statecount>>

\* AddArc: an arc to a state that has a number, or to a new one.
AddArc(t) ==
  /\ wpc = "arcs"
  /\ Len(lines) + 1 + Len(int_stack) < MaxLines
  /\ IF t < statecount THEN UNCHANGED <<statecount, int_stack>>
     ELSE statecount' = statecount + 1 /\ int_stack' = <<t>> \o int_stack
  /\ lines' = Append(lines, Line(current.state_no, Len(lines), t, current.final))
  /\ UNCHANGED <<current, wpc>>

\* EndState: a state without arcs gets a line of its own.
EndState ==
  /\ wpc = "arcs"
  /\ lines' = IF lines # <<>> /\ Last(lines).state_no = current.state_no THEN lines
              ELSE Append(lines, Line(current.state_no, -1, -1, current.final))
  /\ wpc' = "pop"
  /\ UNCHANGED <<statecount, int_stack, current>>

\* Close: nothing is left on the stack.
Close ==
  /\ wpc = "pop" /\ int_stack = <<>>
  /\ wpc' = "closed"
  /\ UNCHANGED <<lines, statecount, int_stack, current>>

WNext ==
  \/ SetCurrentState
  \/ \E t \in 0..statecount : t < MaxStates /\ AddArc(t)
  \/ EndState
  \/ Close
=============================================================================
