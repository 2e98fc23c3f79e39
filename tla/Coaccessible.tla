---------------------------- MODULE Coaccessible ----------------------------
(***************************************************************************)
(* fsm_coaccessible (foma/coaccessible.c): the states from which no final  *)
(* state can be reached are removed, in place, from the array of lines.    *)
(*                                                                         *)
(* The lines kept move down from i to j, renumbered.  A final state that   *)
(* loses all its lines gets a new one when the first line of the next      *)
(* state is met, by looking back at line i-1, which a line that moved may  *)
(* have overwritten.  The machines are those of Worklist, whose order of   *)
(* lines decides whether that goes well.                                   *)
(***************************************************************************)
EXTENDS Worklist, FiniteSets

VARIABLES
  fsm,        \* the lines, from 0 on, ended by the sentinel
  inverses,   \* for each state the other states with arcs to it
  coacc,      \* the states marked
  unvisited,  \* int_stack again, as a set: the order does not matter
  markcount,
  mapping,    \* the new numbers; -1 where malloc's content is still there
  added,      \* the states that have lines in the result
  i, j, new_linecount, new_arccount,
  net,        \* what the call returns in net->statecount and net->arccount
  pc

cvars == <<fsm, inverses, coacc, unvisited, markcount, mapping, added, i, j,
           new_linecount, new_arccount, net, pc>>
vars == <<wvars, cvars>>

-----------------------------------------------------------------------------

States == 0..(statecount - 1)

Init ==
  /\ WInit
  /\ fsm = [k \in {} |-> Sentinel]
  /\ inverses = [s \in {} |-> {}]
  /\ coacc = {} /\ unvisited = {} /\ markcount = 0
  /\ mapping = [s \in {} |-> -1] /\ added = {}
  /\ i = 0 /\ j = 0 /\ new_linecount = 0 /\ new_arccount = 0
  /\ net = [statecount |-> 0, arccount |-> 0]
  /\ pc = "build"

\* Build: the machine is written before fsm_coaccessible is called.
Build == pc = "build" /\ WNext /\ UNCHANGED cvars

(***************************************************************************)
(* Enter: the inverse table is made (loops are left out), and the final    *)
(* states are marked and pushed.                                           *)
(***************************************************************************)
Enter ==
  LET finals == {l.state_no : l \in {m \in ToSet(lines) : m.final_state}}
  IN /\ pc = "build" /\ wpc = "closed"
     /\ fsm' = [k \in 0..Len(lines) |-> IF k = Len(lines) THEN Sentinel ELSE lines[k + 1]]
     /\ inverses' = [t \in States |-> {s \in States \ {t} :
                       \E l \in ToSet(lines) : l.state_no = s /\ l.target = t}]
     /\ coacc' = finals
     /\ unvisited' = finals
     /\ markcount' = Cardinality(finals)
     /\ net' = [statecount |-> statecount,
                arccount |-> Cardinality({l \in ToSet(lines) : l.target # -1})]
     /\ pc' = "mark"
     /\ UNCHANGED <<wvars, mapping, added, i, j, new_linecount, new_arccount>>

(***************************************************************************)
(* Mark: a state is popped and those that lead to it are marked.  When all *)
(* are, the call returns at once.                                          *)
(***************************************************************************)
Mark(s) ==
  LET new == inverses[s] \ coacc
  IN /\ pc = "mark" /\ s \in unvisited
     /\ coacc' = coacc \cup new
     /\ markcount' = markcount + Cardinality(new)
     /\ IF markcount' >= statecount THEN unvisited' = {} /\ pc' = "done"
        ELSE unvisited' = (unvisited \ {s}) \cup new /\ UNCHANGED pc
     /\ UNCHANGED <<wvars, fsm, inverses, mapping, added, i, j, new_linecount,
                    new_arccount, net>>

\* Number: state 0 always exists; the other marked states are counted from 1.
Number ==
  /\ pc = "mark" /\ unvisited = {}
  /\ mapping' = [s \in States |-> IF s = 0 THEN 0
                                  ELSE IF s \in coacc THEN Cardinality(coacc \cap 1..s)
                                  ELSE -1]
  /\ pc' = "compact"
  /\ UNCHANGED <<wvars, fsm, inverses, coacc, unvisited, markcount, added, i, j,
                 new_linecount, new_arccount, net>>

\* Mutant: the state before gets a line also when it has others.
LostFinalAny(k) ==
  /\ k > 0 /\ fsm[k - 1].state_no # fsm[k].state_no
  /\ fsm[k - 1].final_state

\* The state of the line before k is final, has ended, and has lost all lines.
LostFinal(k) ==
  /\ k > 0 /\ fsm[k - 1].state_no # fsm[k].state_no
  /\ fsm[k - 1].final_state
  /\ fsm[k - 1].state_no \notin added

\* Machine m after a line for that state is added.
AddFinal(m, k) == [m EXCEPT ![j] = Line(mapping[m[k - 1].state_no], -1, -1, TRUE)]

\* A line is kept when its state and its target are marked.
Kept(l) == l.state_no \in coacc /\ (l.target = -1 \/ l.target \in coacc)

\* Its new form.
Renumbered(l) ==
  Line(mapping[l.state_no], l.label, IF l.target = -1 THEN -1 ELSE mapping[l.target],
       l.final_state)

(***************************************************************************)
(* CopyLine: the line for the state before, if it has lost all of its own; *)
(* then line i, if it is kept.                                             *)
(***************************************************************************)
CopyLine ==
  LET lost  == LostFinal(i)
      now   == IF lost THEN AddFinal(fsm, i) ELSE fsm
      to    == IF lost THEN j + 1 ELSE j
      line  == now[i]
      keep  == Kept(line)
  IN /\ pc = "compact" /\ fsm[i].state_no # -1
     /\ fsm' = IF keep THEN [now EXCEPT ![to] = Renumbered(line)] ELSE now
     /\ j' = IF keep THEN to + 1 ELSE to
     /\ added' = added \cup (IF lost THEN {fsm[i - 1].state_no} ELSE {})
                       \cup (IF keep THEN {line.state_no} ELSE {})
     /\ new_linecount' = new_linecount + (j' - j)
     /\ new_arccount' = new_arccount + (IF keep /\ line.target # -1 THEN 1 ELSE 0)
     /\ i' = i + 1
     /\ UNCHANGED <<wvars, inverses, coacc, unvisited, markcount, mapping, net, pc>>

\* The lines of fsm_empty().
EmptyLines == [k \in 0..1 |-> IF k = 0 THEN Line(0, -1, -1, FALSE) ELSE Sentinel]

\* Mutant: the last state is not looked back at.
FinishNoLast ==
  /\ pc = "compact" /\ fsm[i].state_no = -1
  /\ fsm' = IF markcount = 0 THEN EmptyLines
            ELSE [fsm EXCEPT ![j] = Sentinel]
  /\ UNCHANGED <<j, new_linecount>>
  /\ net' = [statecount |-> markcount, arccount |-> new_arccount]
  /\ pc' = "done"
  /\ UNCHANGED <<wvars, inverses, coacc, unvisited, markcount, mapping, added, i,
                 new_arccount>>

(***************************************************************************)
(* Finish: the last state may have lost all its lines too; then the        *)
(* sentinel.  With nothing marked the machine becomes fsm_empty().         *)
(***************************************************************************)
Finish ==
  LET lost == /\ i > 1 /\ fsm[i - 1].final_state
              /\ fsm[i - 1].state_no \notin added
      now  == IF lost THEN AddFinal(fsm, i) ELSE fsm
  IN /\ pc = "compact" /\ fsm[i].state_no = -1
     /\ j' = IF lost THEN j + 1 ELSE j
     /\ new_linecount' = IF lost THEN new_linecount + 1 ELSE new_linecount
     /\ fsm' = IF markcount = 0 THEN EmptyLines
               ELSE [now EXCEPT ![j'] = Sentinel]
     /\ net' = [statecount |-> markcount, arccount |-> new_arccount]
     /\ pc' = "done"
     /\ UNCHANGED <<wvars, inverses, coacc, unvisited, markcount, mapping, added, i,
                    new_arccount>>

Next ==
  \/ Build
  \/ Enter
  \/ \E s \in unvisited : Mark(s)
  \/ Number
  \/ CopyLine
  \/ Finish

Spec == Init /\ [][Next]_vars

-----------------------------------------------------------------------------

\* The states of the input on a path to a final state.
Useful ==
  {s \in States :
     \A X \in SUBSET States :
       /\ \A l \in ToSet(lines) : l.final_state => l.state_no \in X
       /\ \A l \in ToSet(lines) : l.target \in X => l.state_no \in X
       => s \in X}

\* The lines of the result before the sentinel.
ResultLines == {k \in DOMAIN fsm : \A m \in 0..k : fsm[m].state_no # -1}

\* The number a useful state must get.
Rank(s) == Cardinality({u \in Useful : u < s})

\* TypeOK: the counters and stacks of the call are about states that exist.
TypeOK ==
  /\ coacc \subseteq States /\ unvisited \subseteq coacc /\ added \subseteq States
  /\ pc # "build" => markcount \in 0..statecount
  /\ i \in 0..Len(lines) /\ j \in 0..Len(lines)
  /\ DOMAIN mapping \in {{}, States}
  /\ pc \in {"build", "mark", "compact", "done"}

(***************************************************************************)
(* ReadsIntact: the lines that fsm_coaccessible still has to read are not  *)
(* overwritten by those it has moved down or added, and where line i-1,    *)
(* which it looks back at, is overwritten, the old and the new numbers of  *)
(* its state are the same.                                                 *)
(***************************************************************************)
ReadsIntact ==
  pc = "compact" =>
    /\ j <= i
    /\ \A k \in i..(Len(lines) - 1) : fsm[k] = lines[k + 1]
    /\ i > 0 => fsm[i - 1].state_no = lines[i].state_no

\* The arcs of the input between useful states, and the lines of the result that have arcs.
UsefulArcs == {l \in ToSet(lines) : l.target # -1 /\ {l.state_no, l.target} \subseteq Useful}
ResultArcs == {k \in ResultLines : fsm[k].target # -1}

(***************************************************************************)
(* TrimResult: the machine that fsm_coaccessible leaves is the input       *)
(* without the states that lead to no final state: the arcs between the    *)
(* others, each once, their finality, the lines of a state together, its   *)
(* counts; the states numbered without gaps in the old order.              *)
(***************************************************************************)
Trimmed ==
  /\ {<<fsm[k].state_no, fsm[k].label, fsm[k].target>> : k \in ResultArcs}
       = {<<Rank(l.state_no), l.label, Rank(l.target)>> : l \in UsefulArcs}
  /\ Cardinality(ResultArcs) = Cardinality(UsefulArcs)
  /\ net.arccount = Cardinality(UsefulArcs)
  /\ {fsm[k].state_no : k \in ResultLines} = {0} \cup {Rank(s) : s \in Useful}
  /\ net.statecount = Cardinality(Useful)
  /\ \A k \in ResultLines, s \in Useful : fsm[k].state_no = Rank(s) =>
       (fsm[k].final_state <=> \E l \in ToSet(lines) : l.state_no = s /\ l.final_state)
  /\ \A k, m, n \in ResultLines : k < m /\ m < n /\ fsm[k].state_no = fsm[n].state_no
       => fsm[m].state_no = fsm[k].state_no /\ fsm[m].target # -1

TrimResult == pc = "done" => Trimmed
=============================================================================
