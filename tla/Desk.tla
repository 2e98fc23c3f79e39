-------------------------------- MODULE Desk --------------------------------
(***************************************************************************)
(* What the interactive session promises: a stack of languages, and names  *)
(* for languages.  Pushing a name copies, defining from the stack moves,   *)
(* and what is done to one network changes no other.  Every command leaves *)
(* its name in done, so that none can pass for another or for none at all. *)
(***************************************************************************)
EXTENDS Sequences, Naturals

CONSTANTS
  Content,        \* what the networks may say
  Name,           \* the names that may be defined
  TooLong,        \* those that define.c refuses
  Change(_),      \* what a command on the top network makes of it
  Compose(_, _),  \* a command on two networks, the top one first
  Unite(_, _)     \* one whose arguments may be exchanged

VARIABLES
  pile,    \* the contents of the stack, bottom first
  named,   \* the contents of the names that are defined
  done     \* the command just carried out, and whether their number is odd

vars == <<pile, named, done>>

Init == pile = <<>> /\ named = <<>> /\ done = [command |-> <<"start">>, odd |-> FALSE]

Does(command) == done' = [command |-> command, odd |-> ~ done.odd]

Size == Len(pile)
Top == pile[Size]
Second == pile[Size - 1]
Below(k) == SubSeq(pile, 1, Size - k)

Bound(n, c) ==
  IF n \in TooLong THEN named
  ELSE [m \in DOMAIN named \cup {n} |-> IF m = n THEN c ELSE named[m]]

Leaves(seq) == pile' = seq /\ UNCHANGED named

Enter(c) == Does(<<"regex", c>>) /\ Leaves(Append(pile, c))

(* A function is applied to its argument, whose name nobody sees. *)
EnterApplied(c) == Does(<<"function", c>>) /\ Leaves(Append(pile, c))

Bind(n, c) == Does(<<"define regex", n, c>>) /\ named' = Bound(n, c) /\ UNCHANGED pile

BindTop(n) ==
  /\ Does(<<"define", n>>)
  /\ Size > 0
  /\ named' = Bound(n, Top)
  /\ pile' = Below(1)

Forget(n) ==
  /\ Does(<<"undefine", n>>)
  /\ named' = [m \in DOMAIN named \ {n} |-> named[m]]
  /\ UNCHANGED pile

Recall(n) == Does(<<"push", n>>) /\ n \in DOMAIN named /\ Leaves(Append(pile, named[n]))

PutFor(n) ==
  /\ Does(<<"substitute", n>>)
  /\ Size > 0
  /\ n \in DOMAIN named
  /\ Leaves(Append(Below(1), Compose(Top, named[n])))

Discard == Does(<<"pop">>) /\ Size > 0 /\ Leaves(Below(1))
Empty == Does(<<"clear">>) /\ Leaves(<<>>)
Exchange ==
  Does(<<"rotate">>) /\ Size > 0 /\ Leaves([pile EXCEPT ![1] = Top, ![Size] = pile[1]])
Alter ==
  /\ \E command \in {"unary", "reverse"} : Does(<<command>>)
  /\ Size > 0
  /\ Leaves(Append(Below(1), Change(Top)))

(* The top network comes first, or the order does not matter. *)
Merge ==
  /\ Size > 1
  /\ \/ /\ \/ Does(<<"crossproduct">>) \/ Does(<<"compose">>)
        /\ Leaves(Append(Below(2), Compose(Top, Second)))
     \/ Does(<<"unite">>) /\ Leaves(Append(Below(2), Unite(Top, Second)))

(* Sorting, testing, applying: what the networks say stays as it is. *)
Look ==
  /\ \E command \in {"sort", "sort arcs", "test", "test equivalent", "apply", "apply med",
                     "read cmatrix"} : Does(<<command>>)
  /\ UNCHANGED <<pile, named>>

Quit == Does(<<"quit">>) /\ pile' = <<>> /\ named' = <<>>

Next ==
  \/ \E c \in Content : Enter(c) \/ EnterApplied(c)
  \/ \E n \in Name :
       \/ BindTop(n) \/ Forget(n) \/ Recall(n) \/ PutFor(n)
       \/ \E c \in Content : Bind(n, c)
  \/ Discard \/ Empty \/ Exchange \/ Alter \/ Merge \/ Look \/ Quit

Spec == Init /\ [][Next]_vars
=============================================================================
