------------------------------ MODULE Session ------------------------------
(***************************************************************************)
(* The interactive session of foma: the stack of networks (stack.c), a     *)
(* doubly linked list that ends in a sentinel and keeps with every network *)
(* the apply handles made for it; the list of definitions (define.c); and  *)
(* the commands that use them (iface.c, interface.l).                      *)
(*                                                                         *)
(* Networks are chunks of memory, for the commands pass them by address:   *)
(* who still owns one, and which handle was made for it, is what can go    *)
(* wrong.  What a network says is a member of Content; what the library    *)
(* does to it is a constant operator.  A command is an action, or one per  *)
(* round when it loops until a single network is left.                     *)
(***************************************************************************)
EXTENDS Integers, FiniteSets, SequencesExt

CONSTANTS
  Content, Name, TooLong,
  Change(_), Compose(_, _), Unite(_, _),
  Void,        \* the content that is the empty language
  Temporary,   \* the name define.c knows the argument of a function by
  Chunk,       \* addresses of networks
  Matrix,      \* addresses of confusion matrices
  Cell,        \* addresses of stack entries
  MaxStack,    \* bound on the networks on the stack
  MaxHandles,  \* bound on the handles that are kept
  NULL

ASSUME SessionAssumption ==
  /\ Void \in Content /\ {"free", "lost"} \cap Content = {}
  /\ \A c \in Content, d \in Content :
       /\ Change(c) \in Content /\ Compose(c, d) \in Content
       /\ Unite(c, d) \in Content /\ Unite(c, d) = Unite(d, c)
  /\ TooLong \subseteq Name /\ Temporary \notin Name
  /\ Chunk \subseteq Nat /\ Matrix \subseteq Nat /\ Cell \subseteq Nat
  /\ MaxStack \in Nat /\ MaxHandles \in Nat
  /\ IsFiniteSet(Cell) /\ MaxStack < Cardinality(Cell)
  /\ NULL \notin Chunk \cup Matrix \cup Cell

VARIABLES
  memory,   \* the record of the lists and of what is allocated
  doing,    \* the command at work: "none", a loop over the stack, or "quit"
  done      \* the command just carried out, and whether their number is odd

vars == <<memory, doing, done>>

(* A handle of apply.c or spelling.c: the network and the matrix it points to; *)
(* Garbage when that network is no longer there, or its states or symbols have *)
(* other numbers than the tables of the handle were made for.                  *)
Handle(n, cm) == [net |-> n, cm |-> cm]
Garbage == [net |-> NULL, cm |-> NULL]

Free == [says |-> "free", cm |-> NULL]
Lost == [says |-> "lost", cm |-> NULL]
Unused == [number |-> -2, fsm |-> NULL, ah |-> NULL, amedh |-> NULL,
           next |-> NULL, previous |-> NULL]
Sentinel(before) == [Unused EXCEPT !.number = -1, !.ah = Garbage, !.amedh = Garbage,
                                   !.previous = before]

Least(S) == CHOOSE x \in S : \A y \in S : x <= y
NewCell(h) == Least({c \in Cell : h.cell[c].number = -2})

Init ==
  /\ doing = "none"
  /\ done = [command |-> <<"start">>, odd |-> FALSE]
  /\ memory = [main |-> Least(Cell),
               cell |-> [c \in Cell |-> IF c = Least(Cell) THEN Sentinel(NULL) ELSE Unused],
               net |-> [n \in Chunk |-> Free],
               last |-> NULL,      \* the chunk this command freed last
               defs |-> <<>>,      \* [name, net], the first one at the address never changed
               live |-> {},        \* the matrices that are allocated
               broken |-> FALSE,   \* memory was freed twice
               turned |-> FALSE,   \* the stack was rotated since it was last empty
               shared |-> FALSE]   \* a network that has a matrix was copied

(* The loops of stack.c stop where next is NULL, or where the number is -1. *)
stack_size(h) ==
  LET from[c \in Cell] == IF h.cell[c].next = NULL THEN 0 ELSE 1 + from[h.cell[c].next]
  IN  from[h.main]

(* The entries from the bottom up, and the sentinel they end with. *)
Path(h) ==
  LET from[c \in Cell] ==
        IF h.cell[c].number < 0 THEN <<c>> ELSE <<c>> \o from[h.cell[c].next]
  IN  from[h.main]

stack_isempty(h) == h.cell[h.main].next = NULL

stack_find_top(h) == LET path == Path(h) IN path[Len(path) - 1]
stack_find_second(h) == h.cell[stack_find_top(h)].previous

Entries(h) == {c \in Cell : h.cell[c].number >= 0}
TopNet(h) == h.cell[stack_find_top(h)].fsm
SecondNet(h) == h.cell[stack_find_second(h)].fsm

(* The handles that were made for what a network was until now: it is freed, or its *)
(* states or symbols get other numbers.                                             *)
Outdated(handle, n) ==
  IF handle # NULL /\ handle.net = n THEN Garbage ELSE handle
Rewritten(h, n) ==
  [h EXCEPT !.cell = [c \in Cell |->
    [h.cell[c] EXCEPT !.ah = Outdated(@, n), !.amedh = Outdated(@, n)]]]

(* The allocator of the C library gives the chunk of this size freed last. *)
Room(h) == Cardinality({n \in Chunk : h.net[n] = Free})
malloc(h) == IF h.last # NULL THEN h.last ELSE Least({n \in Chunk : h.net[n] = Free})
Made(h, says, cm) ==
  [h EXCEPT !.net[malloc(h)] = [says |-> says, cm |-> cm], !.last = NULL]

(* fsm_destroy: the matrix first, then the network. *)
fsm_destroy(h, n) ==
  IF n = NULL THEN h
  ELSE LET cm == h.net[n].cm
       IN  [Rewritten(h, n) EXCEPT
              !.net[n] = Free, !.last = n,
              !.live = @ \ {cm},
              !.broken = @ \/ h.net[n] = Free \/ (cm # NULL /\ cm \notin h.live)]

(* fsm_copy takes the header as it is, the address of the matrix with it. *)
fsm_copy(h, n) ==
  [Made(h, h.net[n].says, h.net[n].cm) EXCEPT !.shared = @ \/ h.net[n].cm # NULL]

stack_init(h) ==
  LET c == NewCell(h) IN [h EXCEPT !.main = c, !.cell[c] = Sentinel(NULL)]

(* The networks are destroyed from the bottom up, then all entries are freed. *)
stack_clear(h) ==
  LET path == Path(h)
      freed[k \in 0..Len(path) - 1] ==
        IF k = 0 THEN h ELSE fsm_destroy(freed[k - 1], h.cell[path[k]].fsm)
  IN  stack_init([freed[Len(path) - 1] EXCEPT !.cell = [c \in Cell |-> Unused],
                                              !.turned = FALSE])

stack_add(h, n) ==
  LET path == Path(h)
      i == Len(path) - 1
      c == path[i + 1]
      d == NewCell(h)
  IN  [h EXCEPT !.cell[d] = Sentinel(c),
                !.cell[c] = [number |-> i, fsm |-> n, ah |-> NULL, amedh |-> NULL, next |-> d,
                             previous |-> IF i = 0 THEN NULL ELSE path[i]]]

(* stack_pop; the network it returns is TopNet of the stack before. *)
stack_pop(h) ==
  LET t == stack_find_top(h)
      e == h.cell[t]
  IN  IF stack_size(h) = 1 THEN stack_clear([h EXCEPT !.cell[h.main].fsm = NULL])
      ELSE [h EXCEPT !.cell[e.previous].next = e.next,
                     !.cell[e.next].previous = e.previous,
                     !.cell[t] = Unused]

stack_rotate(h) ==
  LET t == stack_find_top(h)
  IN  IF stack_size(h) = 1 THEN h
      ELSE [h EXCEPT !.cell[h.main].fsm = h.cell[t].fsm,
                     !.cell[t].fsm = h.cell[h.main].fsm,
                     !.turned = TRUE]
-----------------------------------------------------------------------------
Defined(h) == {d.name : d \in Range(h.defs)}
At(h, name) == CHOOSE i \in DOMAIN h.defs : h.defs[i].name = name
find_defined(h, name) == h.defs[At(h, name)].net

(* add_defined: a new entry goes behind the first, which stays where it is. *)
add_defined(h, n, name) ==
  LET new == [name |-> name, net |-> n]
  IN  IF name \in TooLong THEN h
      ELSE IF name \in Defined(h)
           THEN [fsm_destroy(h, find_defined(h, name)) EXCEPT !.defs[At(h, name)] = new]
      ELSE [h EXCEPT !.defs = IF h.defs = <<>> THEN <<new>> ELSE InsertAt(@, 2, new)]

remove_defined(h, name) ==
  IF name \notin Defined(h) THEN h
  ELSE [fsm_destroy(h, find_defined(h, name)) EXCEPT !.defs = RemoveAt(@, At(h, name))]

remove_all_defined(h) ==
  LET freed[k \in 0..Len(h.defs)] ==
        IF k = 0 THEN h ELSE fsm_destroy(freed[k - 1], h.defs[k].net)
  IN  [freed[Len(h.defs)] EXCEPT !.defs = <<>>]
-----------------------------------------------------------------------------
AtPrompt == doing = "none" /\ ~ memory.broken
Stack(k) == AtPrompt /\ stack_size(memory) >= k          \* iface_stack_check
Grows == stack_size(memory) < MaxStack

(* What no later command can tell apart: the contents of networks that nobody has. *)
Owned(h) == {h.cell[c].fsm : c \in Entries(h)} \cup {d.net : d \in Range(h.defs)}
Settled(h) ==
  [h EXCEPT !.last = NULL,
            !.net = [n \in Chunk |-> IF h.net[n] = Free \/ n \in Owned(h) THEN h.net[n] ELSE Lost],
            !.shared = @ /\ (h.broken \/ \E n \in Owned(h) : h.net[n].cm # NULL)]

Does(command) == done' = [command |-> command, odd |-> ~ done.odd]
Becomes(command, h) == Does(command) /\ memory' = Settled(h) /\ UNCHANGED doing

(* fsm_topsort(fsm_minimize(n)): an empty network that is not known to be minimal *)
(* is destroyed and another one returned.                                         *)
Minimized(h, n, minimal) ==
  IF minimal \/ h.net[n].says # Void THEN [heap |-> h, net |-> n]
  ELSE LET gone == fsm_destroy(h, n) IN [heap |-> Made(gone, Void, NULL), net |-> malloc(gone)]

(* regex <regex>; : what is added is the network that was parsed, not the minimized one. *)
Regex(says, minimal) ==
  LET parsed == malloc(memory)
      after == Minimized(Made(memory, says, NULL), parsed, minimal)
  IN  /\ AtPrompt /\ Grows /\ Room(memory) > 0
      /\ Becomes(<<"regex", says>>, stack_add(after.heap, parsed))

(* define <name> <regex>; *)
DefineRegex(name, says, minimal) ==
  LET after == Minimized(Made(memory, says, NULL), malloc(memory), minimal)
  IN  /\ AtPrompt /\ Room(memory) > 0
      /\ Becomes(<<"define regex", name, says>>, add_defined(after.heap, after.net, name))

(* regex f(<regex>); : the argument is defined while the body of f, which copies it, *)
(* is parsed, and then removed (function_apply in regex.y).                           *)
RegexFunction(says) ==
  LET argument == malloc(memory)
      bound == add_defined(Made(memory, says, NULL), argument, Temporary)
      parsed == malloc(bound)
      body == fsm_copy(bound, find_defined(bound, Temporary))
  IN  /\ AtPrompt /\ Grows /\ Room(memory) > 1
      /\ Becomes(<<"function", says>>, stack_add(remove_defined(body, Temporary), parsed))

DefineTop(name) ==
  /\ Stack(1)
  /\ Becomes(<<"define", name>>, add_defined(stack_pop(memory), TopNet(memory), name))

Undefine(name) == AtPrompt /\ Becomes(<<"undefine", name>>, remove_defined(memory, name))

\* Mutant: the network of the definition itself is put on the stack.
PushUncopied(name) ==
  /\ AtPrompt /\ Grows /\ Room(memory) > 0
  /\ name \in Defined(memory)
  /\ Becomes(<<"push", name>>, stack_add(memory, find_defined(memory, name)))

Push(name) ==
  /\ AtPrompt /\ Grows /\ Room(memory) > 0
  /\ name \in Defined(memory)
  /\ Becomes(<<"push", name>>, stack_add(fsm_copy(memory, find_defined(memory, name)), malloc(memory)))

Pop == Stack(1) /\ Becomes(<<"pop">>, fsm_destroy(stack_pop(memory), TopNet(memory)))

Clear == AtPrompt /\ Becomes(<<"clear">>, stack_clear(memory))

Rotate == Stack(1) /\ Becomes(<<"rotate">>, stack_rotate(memory))

Saying(h, n, says) == [Rewritten(h, n) EXCEPT !.net[n].says = says]

(* negate, invert, prune ...: take the top network, work on it, add it again. *)
Unary ==
  /\ Stack(1)
  /\ LET n == TopNet(memory)
     IN  Becomes(<<"unary">>, stack_add(Saying(stack_pop(memory), n, Change(memory.net[n].says)), n))

(* reverse: the library makes another network, without matrix, and then frees this one. *)
ReverseTop ==
  /\ Stack(1) /\ Room(memory) > 0
  /\ LET n == TopNet(memory)
         off == stack_pop(memory)
         made == Made(off, Change(memory.net[n].says), NULL)
     IN  Becomes(<<"reverse">>, stack_add(fsm_destroy(made, n), malloc(off)))

\* Mutant: the network stays on the stack, with the handles it had.
ResortInPlace == Stack(1) /\ Becomes(<<"sort">>, Rewritten(memory, TopNet(memory)))

(* compact sigma, sort net: first sort the alphabet of the network on the stack. *)
Resort ==
  /\ Stack(1)
  /\ LET n == TopNet(memory)
     IN  Becomes(<<"sort">>, stack_add(stack_pop(Rewritten(memory, n)), n))

(* sort in, sort out: lines change places with others of the same state, in the array *)
(* where they are; the network stays on the stack and its handles with it.  All that   *)
(* a handle was made from stays: the address of the lines and where those of each      *)
(* state begin (apply_create_statemap, map_firstlines), the symbols by number          *)
(* (apply_create_sigarray), the flags and letters per state; no command of the shell   *)
(* makes an index of a handle.  arcs_sorted_in and _out, which change, are read anew    *)
(* by every call (apply.c:255, 267).                                                    *)
SortArcs == Stack(1) /\ Becomes(<<"sort arcs">>, memory)

(* The library takes two networks, frees them and returns a third. *)
Combined(h, one, two, says) == Made(fsm_destroy(fsm_destroy(h, one), two), says, NULL)

(* one = stack_pop(); two = stack_pop(); stack_add(op(one, two)) *)
Pair(Op(_, _)) ==
  LET one == TopNet(memory)
      rest == stack_pop(memory)
      two == TopNet(rest)
      made == Combined(stack_pop(rest), one, two, Op(memory.net[one].says, memory.net[two].says))
  IN  stack_add(made, two)

Crossproduct == Stack(2) /\ Becomes(<<"crossproduct">>, Pair(Compose))

(* compose, concatenate, union, intersect, shuffle: until one network is left.  The *)
(* last three are op(stack_pop(), stack_pop()): the compiler chooses which is first. *)
Round(kind, h) ==
  /\ (Stack(2) \/ doing = kind) /\ ~ memory.broken
  /\ Does(<<kind>>)
  /\ memory' = Settled(h)
  /\ doing' = IF stack_size(h) > 1 THEN kind ELSE "none"

\* Mutant: the top network is the second operand.
ComposeAllSwapped ==
  stack_size(memory) > 1 /\ Round("compose", Pair(LAMBDA c, d : Compose(d, c)))

ComposeAll == stack_size(memory) > 1 /\ Round("compose", Pair(Compose))
UniteAll ==
  /\ stack_size(memory) > 1
  /\ \/ Round("unite", Pair(Unite))
     \/ Round("unite", Pair(LAMBDA c, d : Unite(d, c)))

(* substitute defined: both alphabets are merged where the networks are; the network *)
(* that was on the stack is popped, and nobody frees it.                              *)
SubstituteDefined(name) ==
  /\ Stack(1) /\ Room(memory) > 0
  /\ name \in Defined(memory)
  /\ LET top == TopNet(memory)
         sub == find_defined(memory, name)
         merged == Rewritten(Rewritten(memory, top), sub)
         says == Compose(memory.net[top].says, memory.net[sub].says)
     IN  Becomes(<<"substitute", name>>, stack_add(stack_pop(Made(merged, says, NULL)), malloc(merged)))

(* test null, test functional ...: on copies, which are destroyed. *)
Test ==
  /\ Stack(1) /\ Room(memory) > 0
  /\ Becomes(<<"test">>, fsm_destroy(fsm_copy(memory, TopNet(memory)), malloc(memory)))

TestEquivalent ==
  /\ Stack(2) /\ Room(memory) > 1
  /\ LET one == malloc(memory)
         first == fsm_copy(memory, TopNet(memory))
         two == malloc(first)
         both == fsm_copy(first, SecondNet(memory))
     IN  Becomes(<<"test equivalent">>, fsm_destroy(fsm_destroy(both, one), two))

Handles(h) ==
  Cardinality({c \in Entries(h) : h.cell[c].ah # NULL})
    + Cardinality({c \in Entries(h) : h.cell[c].amedh # NULL})

(* stack_get_ah, stack_get_med_ah: a handle is made at the first use. *)
Apply ==
  /\ Stack(1) /\ Handles(memory) < MaxHandles
  /\ LET t == stack_find_top(memory)
     IN  Becomes(<<"apply">>, [memory EXCEPT !.cell[t].ah =
           IF @ = NULL THEN Handle(memory.cell[t].fsm, NULL) ELSE @])

ApplyMed ==
  /\ Stack(1) /\ Handles(memory) < MaxHandles
  /\ LET t == stack_find_top(memory)
         n == memory.cell[t].fsm
     IN  Becomes(<<"apply med">>, [memory EXCEPT !.cell[t].amedh =
           IF @ = NULL THEN Handle(n, memory.net[n].cm) ELSE @])

(* read cmatrix: cmatrix_init allocates; what was there before is not freed. *)
ReadMatrix ==
  /\ Stack(1)
  /\ \E cm \in Matrix \ (memory.live \cup {memory.net[n].cm : n \in Chunk}) :
       Becomes(<<"read cmatrix">>, [memory EXCEPT !.net[TopNet(memory)].cm = cm, !.live = @ \cup {cm}])

Quit ==
  /\ AtPrompt
  /\ memory' = Settled(stack_clear(remove_all_defined(memory)))
  /\ doing' = "quit"
  /\ Does(<<"quit">>)

Next ==
  \/ \E says \in Content :
       \/ RegexFunction(says)
       \/ \E minimal \in {TRUE, says # Void} :
            Regex(says, minimal) \/ \E name \in Name : DefineRegex(name, says, minimal)
  \/ \E name \in Name :
       DefineTop(name) \/ Undefine(name) \/ Push(name) \/ SubstituteDefined(name)
  \/ Pop \/ Clear \/ Rotate
  \/ Unary \/ ReverseTop \/ Resort \/ SortArcs \/ Crossproduct
  \/ ComposeAll \/ UniteAll
  \/ Test \/ TestEquivalent
  \/ Apply \/ ApplyMed \/ ReadMatrix
  \/ Quit

Spec == Init /\ [][Next]_vars
-----------------------------------------------------------------------------
OnStack(h) == LET path == Path(h) IN [k \in 1..Len(path) - 1 |-> h.cell[path[k]].fsm]

(* Every network that the stack or a definition has is allocated, and no other of them *)
(* has it; while no network with a matrix was copied (fsm_copy, structures.c:815), the *)
(* same is true of the matrices, and nothing is freed twice (fsm_destroy).              *)
OwnedOnce ==
  LET owned == OnStack(memory) \o [i \in DOMAIN memory.defs |-> memory.defs[i].net]
      held == {n \in ToSet(owned) : memory.net[n].cm # NULL}
  IN  /\ IsInjective(owned)
      /\ \A n \in ToSet(owned) : memory.net[n] # Free
      /\ ~ memory.shared =>
           /\ ~ memory.broken
           /\ \A n \in held : memory.net[n].cm \in memory.live
           /\ \A n, m \in held : memory.net[n].cm = memory.net[m].cm => n = m

(* The handles kept with an entry of the stack are of its network, and its states and  *)
(* symbols still have the numbers the handles were made for: the commands that renumber *)
(* them (compact sigma, sort net and those that make something else of the network)     *)
(* take the network off and add it again, and a definition that substitute defined      *)
(* renumbers is on no stack.  It is not claimed of a stack that was rotated since it    *)
(* was last empty (stack_rotate in stack.c exchanges networks and leaves handles).      *)
HandlesFit ==
  ~ memory.turned =>
    \A c \in Entries(memory) :
      LET e == memory.cell[c]
      IN  \A handle \in {e.ah, e.amedh} \ {NULL} : handle.net = e.fsm

(* iface.c:101-103, the help of the shell: apply <string> up, down to the top network *)
(* on stack.  The handle that apply up would use is one of the top network.            *)
AppliesToTop ==
  stack_size(memory) > 0 =>
    LET e == memory.cell[stack_find_top(memory)]
    IN  e.ah # NULL => e.ah.net = e.fsm

(* README.cmatrix:1, "Subsequent apply med commands will use this matrix": the matrix  *)
(* apply med would use is the one read for the top network, and it is allocated.        *)
MedUsesMatrix ==
  stack_size(memory) > 0 =>
    LET e == memory.cell[stack_find_top(memory)]
        cm == memory.net[e.fsm].cm
    IN  cm # NULL => cm \in memory.live /\ (e.amedh # NULL => e.amedh.cm = cm)

PileOf(h) == LET nets == OnStack(h) IN [k \in DOMAIN nets |-> h.net[nets[k]].says]
NamedOf(h) == [n \in Defined(h) |-> h.net[find_defined(h, n)].says]

Promise == INSTANCE Desk WITH pile <- PileOf(memory), named <- NamedOf(memory)

(* The lists and the addresses behave as a stack of contents and names for contents *)
(* would (Desk): a copy is a copy, and no command changes what another entry says.   *)
ActsAsDesk == Promise!Spec
=============================================================================
