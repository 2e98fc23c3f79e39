------------------------------ MODULE Hopcroft ------------------------------
(***************************************************************************)
(* What fsm_minimize_hop (foma/minimize.c) promises, one step per block    *)
(* that a splitter cuts: worklist partition refinement of a deterministic  *)
(* machine.                                                                *)
(*                                                                         *)
(* work holds the (block, symbol) pairs the agenda still owes.  A pair is  *)
(* taken, the states with an arc by that symbol into that block become     *)
(* touched, and every block that touched cuts is split in two.  Which half *)
(* of a split block is queued is left open here (Hopcroft's algorithm is   *)
(* correct for either), so the module also covers the choice that the      *)
(* comments of refine_states describe and the one its code makes.          *)
(***************************************************************************)

EXTENDS DFA

CONSTANTS
  State,    \* the states of the machine
  Symbol,   \* the single symbols that stand for in:out pairs
  Nets      \* the machines to minimize

ASSUME NetsAssumption == Nets \subseteq Machine(State, Symbol)

VARIABLES
  net,      \* the machine being minimized (never changes)
  blocks,   \* the groups of states, a partition of State
  work,     \* the pairs <<block, symbol>> still to be used as splitters
  touched   \* the sources of the arcs into the splitter in use

vars == <<net, blocks, work, touched>>

-----------------------------------------------------------------------------

\* Mutant: the inverse table holds the arcs the way they run.
PreForward(B, a) == {t \in State : \E s \in B : <<s, a, t>> \in net.arcs}

\* The states with an arc by symbol a into block B.
Pre(B, a) == {s \in State : \E t \in B : <<s, a, t>> \in net.arcs}

\* The splitters that can split anything.
Splitters(Bs) == {w \in Bs \X Symbol : Pre(w[1], w[2]) # {}}

\* Some states of block B are touched and some are not.
Cut(B) == B \cap touched # {} /\ B \ touched # {}

Discrete(Bs) == \A B \in Bs : \A s, t \in B : s = t

\* Mutant: only the final states start on the agenda.
InitFinalsOnly ==
  /\ net \in Nets
  /\ blocks = {net.final, State \ net.final} \ {{}}
  /\ work = Splitters({net.final})
  /\ touched = {}

(***************************************************************************)
(* Init: the final and the other states, both on the agenda for all        *)
(* symbols.                                                                *)
(***************************************************************************)
Init ==
  /\ net \in Nets
  /\ blocks = {net.final, State \ net.final} \ {{}}
  /\ work = Splitters(blocks)
  /\ touched = {}

(***************************************************************************)
(* TakeSplitter: the next symbol of the block at the head of the agenda;   *)
(* the previous splitter has done all its splits.                          *)
(***************************************************************************)
TakeSplitter(B, a) ==
  /\ <<B, a>> \in work
  /\ \A C \in blocks : ~Cut(C)
  /\ work' = work \ {<<B, a>>}
  /\ touched' = Pre(B, a)
  /\ UNCHANGED <<net, blocks>>

\* Mutant: a block that is on the agenda is treated like one that is not.
RequeuesOneHalf(B, W) ==
  LET In  == B \cap touched
      Out == B \ touched
  IN \A a \in Symbol :
       \/ <<In, a>> \in W \/ Pre(In, a) = {}
       \/ <<Out, a>> \in W \/ Pre(Out, a) = {}

(***************************************************************************)
(* What W, the pairs queued for the halves of the split block B, must      *)
(* hold: both halves when B itself was owed by that symbol, else one.      *)
(***************************************************************************)
Requeues(B, W) ==
  LET In  == B \cap touched
      Out == B \ touched
  IN \A a \in Symbol :
       \/ {<<In, a>>, <<Out, a>>} \cap Splitters({In, Out}) \subseteq W
       \/ /\ <<B, a>> \notin work
          /\ \/ <<In, a>> \in W \/ Pre(In, a) = {}
             \/ <<Out, a>> \in W \/ Pre(Out, a) = {}

\* Mutant: the states moved to the new block are not taken out of the old one.
SplitBlockLeaves(B) ==
  /\ Cut(B)
  /\ blocks' = blocks \cup {B \cap touched}
  /\ work' = work \cup Splitters({B \cap touched})
  /\ UNCHANGED <<net, touched>>

(***************************************************************************)
(* SplitBlock: a block cut by touched becomes its two halves.  When that   *)
(* leaves only singletons the refinement stops at once, owing nothing.     *)
(***************************************************************************)
SplitBlock(B) ==
  LET halves == {B \cap touched, B \ touched}
  IN /\ Cut(B)
     /\ blocks' = (blocks \ {B}) \cup halves
     /\ \/ \E W \in SUBSET Splitters(halves) :
             /\ Requeues(B, W)
             /\ work' = {w \in work : w[1] # B} \cup W
        \/ Discrete(blocks') /\ work' = {}
     /\ UNCHANGED <<net, touched>>

\* Stop: every block is a singleton, so the machine is already minimal.
Stop ==
  /\ work # {}
  /\ Discrete(blocks)
  /\ work' = {}
  /\ UNCHANGED <<net, blocks, touched>>

Next ==
  \/ \E w \in work : TakeSplitter(w[1], w[2])
  \/ \E B \in blocks : SplitBlock(B)
  \/ Stop

Fairness == WF_vars(Next)

Spec == Init /\ [][Next]_vars /\ Fairness

-----------------------------------------------------------------------------

Terminated == work = {} /\ \A B \in blocks : ~Cut(B)

\* Ways to group the states: each state is labelled by one of its group.
Grouping == {f \in [State -> State] : \A s \in State : f[f[s]] = f[s]}

(***************************************************************************)
(* A congruence groups states only if they agree on finality and on the    *)
(* groups their arcs lead to.  States that some congruence groups accept   *)
(* the same words.                                                         *)
(***************************************************************************)
Congruence(f) ==
  \A s, t \in State : f[s] = f[t] =>
    /\ s \in net.final => t \in net.final
    /\ \A a \in Symbol, s1 \in State : <<s, a, s1>> \in net.arcs =>
         \E t1 \in State : <<t, a, t1>> \in net.arcs /\ f[t1] = f[s1]

\* TypeOK: the groups (struct p) are a partition of the states, and every debt
\* on the agenda is of a group that exists.
TypeOK ==
  /\ net \in Machine(State, Symbol)
  /\ blocks \subseteq (SUBSET State) \ {{}}
  /\ UNION blocks = State
  /\ \A B, C \in blocks : B # C => B \cap C = {}
  /\ touched \subseteq State
  /\ work \subseteq Splitters(blocks)

(***************************************************************************)
(* Equivalent states are never separated: minimization may not split a     *)
(* class it must merge (refine_states only splits on real differences).    *)
(***************************************************************************)
NeverSeparatesEquivalent ==
  \A f \in Grouping : Congruence(f) =>
    \A s, t \in State : f[s] = f[t] => \A B \in blocks : s \in B => t \in B

(***************************************************************************)
(* What is owed is enough: when a state of a block leads by a symbol into  *)
(* block C, every state of its block does too, or into a block D where C   *)
(* or D is still owed by that symbol; unless the splitter in use is about  *)
(* to separate the two.                                                    *)
(***************************************************************************)
WorkCovers ==
  \A B, C \in blocks, a \in Symbol : \A p, q \in B, p1 \in C :
    <<p, a, p1>> \in net.arcs /\ (p \in touched <=> q \in touched) =>
      \/ <<C, a>> \in work
      \/ \E D \in blocks : \E q1 \in D :
           <<q, a, q1>> \in net.arcs /\ (C = D \/ <<D, a>> \in work)

(***************************************************************************)
(* When the agenda is empty the blocks are exactly the classes of the      *)
(* coarsest congruence: the machine rebuild_machine makes is minimal.      *)
(***************************************************************************)
Minimal ==
  Terminated =>
    \A s, t \in State :
      (\E B \in blocks : s \in B /\ t \in B) <=>
      (\E f \in Grouping : Congruence(f) /\ f[s] = f[t])

=============================================================================
