# foma: a TLA+ model of the finite-state toolkit

foma compiles regular expressions, lexicons and rewrite rules into finite-state
automata and transducers and applies these to words. The modules here model the
algorithms everything else rests on (determinization, pruning, minimization,
topological sorting), the library of constructions and tests built on them, the
compiler of lexicons, the shell with its stack and definitions, and the two
searches that apply a network to a word. TLC checks them on small instances;
TLAPS proves the algorithms of determinization, pruning, minimization and
topological sorting, and that a search returns the accepting paths of a word, each
once, for machines of any size, and the shell for stacks and definitions of any size.

Paths such as `minimize.c` are under `src/foma/`.

## 1. The system

A network (`struct fsm`, `fomalib.h`) is an array of lines `state_no in out
target final_state start_state`, the lines of a state adjacent, ended by a line
with `state_no = -1`; a header with counts and with flags that say what is known
of the network (`is_deterministic`, `is_pruned`, `is_minimized`,
`is_epsilon_free`, `is_loop_free`, `arcs_sorted_in/out`); and an alphabet
(`sigma`). 0, 1 and 2 are EPSILON, UNKNOWN and IDENTITY: nothing, any symbol
that the alphabet does not know (`?`), and any such symbol against itself (`@`).

The library is sequential. What makes it hard is state shared between functions
and state kept between calls: static working tables with stamps that are never
cleared, one global integer stack, header flags on which later calls return
early, alphabets that must be without gaps, arrays compacted in place, networks
handed on by address and freed by whom they are handed to, and application
handles that suspend a search with every result and resume it with the next call.

| Component | State it keeps | Operations | Interacts with | What makes it correct |
|---|---|---|---|---|
| Minimization, `minimize.c` | groups, agenda, counters per group, inverse arcs with tails, arenas, stamps | `fsm_minimize`, `fsm_minimize_hop`, `_brz` | determinizes and prunes first unless the flags say it is done | the result is the minimal machine; the work ends; arenas suffice |
| Subset construction, `determinize.c` | table of sets, stamp tables, move buffer, stack of sets, epsilon lists | `fsm_determinize`, `fsm_epsilon_remove`, a star-freeness test | writes with `dynarray.c`, stacks on `int_stack.c` | language kept; each set expanded once; flags right |
| Line builder, `dynarray.c` | lines so far, lookup of the last arc by symbol pair, counts, flags | `fsm_state_*`; construct and read handles | all constructions | one machine, its flags and counts right |
| Pruning, `coaccessible.c` | inverse lists, marks, the array being compacted | `fsm_coaccessible` | input from any construction | exactly the useful part remains |
| Topological sort, `topsort.c` | in-arc counts, treated, order, path counts | `fsm_topsort` | every command ends with it; printing commands trust `is_loop_free` and `pathcount` | cycle found iff there is one; order; path count |
| Application, `apply.c` | search stack, marks, flag values, output buffer, index, iterator | `apply_down/up/words`, `apply_index`, `apply_reset_enumerator` | reads a network; used by the session, `flookup.c`, the bindings | every accepting path is returned, once; calls return |
| Products and algebra, `constructions.c` | worklist of pairs or triples on the global stack, triplet hash | union, concatenation, closure, complement, intersection, composition, ... | merge of alphabets first, line builder, minimization after | the language of the result; its claims; its alphabet |
| Alphabets, `sigma.c` | the symbol list | add, remove, clean up, sort, find | everything that merges networks | numbers on arcs and in the list agree, without gaps |
| Flags, `flags.c` | none between calls | `flag_eliminate`, `flag_twosided` | composition, minimization | eliminating flags leaves the words that obeying them leaves |
| Structures and tests, `structures.c` | quantifier list | copies, tests (`fsm_isidentity`, ...), extractions | work on copies, destroy them | verdicts right; copies share nothing |
| Session, `stack.c`, `iface.c`, `interface.l` | stack of networks with cached handles; variables | every command of the shell | pops operands, pushes results | one owner for each network; a cached handle searches the network beside it |
| Definitions, `define.c` | list of names and networks with a fixed first entry | define, redefine, remove, find | the parser copies out of it | a name keeps its language whatever happens to others |
| Lexicon compiler, `lexcread.c`, `lexc.l` | tree of states, lexicon states, hash of ends, word buffers | one call per token of the grammar | line builder, minimization | the relation the entries say |
| Approximate search, `spelling.c`, `cmatrix.l` | A* heap and nodes, letter sets, costs | `apply_med` | reads a network and its matrix | cheapest first; nothing within the cutoff missed |
| Tries and tables, `trie.c`, `stringhash.c` | trie hash | word list to network | | the words added |
| Rewrite rules, `rewrite.c` | rule batch | compilation of `->` rules | the constructions | semantics of replacement |
| Reversal, projections, `reverse.c`, `extract.c` | none | one pass each | line builder | mirrored or projected language |
| Parser and lexers, `regex.y`, `*.l` | the network parsed so far | | calls the constructions | |
| Files, `io.c` | | read and write | | |
| Programs, `foma.c`, `flookup.c`, `cgflookup.c`; helpers `utf8.c`, `mem.c`; `python/` | | | | |

There are no threads, no messages and nothing that must survive a crash.
`PROJECT.json` lists the hazards line by line, with the properties about each.

## 2. The modules

### The algorithms, step by step

* **`DFA`** Deterministic machines as sets of arcs, and what it means to be trim.
* **`Hopcroft`** What `fsm_minimize_hop` promises, one step per group cut: the
  set of groups, the pairs of group and symbol still owed as splitters, the
  states touched by the splitter in use. Which half of a split group is queued
  is left open, as both are right.
* **`MinimizeHop`** `fsm_minimize_hop` itself. `PopAgenda`, `NextSymbol`,
  `KeepGroup`, `SkipState`, `SplitFirst`, `SplitMore`, `EndRefine`, `Abort`,
  `Rebuild` are its loops, taken apart where its state can be seen to be
  inconsistent: one step per state of `temp_move` in `refine_states`. Groups
  carry `count`, `t_count`, `inv_count`, `inv_t_count`; an agenda entry carries
  the index that says whether the symbols start over. It implements `Hopcroft`
  under the mapping at its end (`Abs`, `ImplementsHopcroft`): what is owed is,
  for an agenda entry, the symbols from its index on, and for the group in use
  those that its tails have not passed.
* **`EClosure`** `e_closure` with its stamps: `e_table`, `marktable`, the `mark`
  of a memo entry, the counter `mainloop`, set back on entry and advanced on
  return, and the table of sets found by the stamps of their members. Calls
  follow each other as `fsm_subset` makes them.
* **`Subset`** `fsm_subset` for determinization and epsilon removal, with the
  three early returns (the flag of the input is believed, found to be right and
  set, or left alone), the table of sets, the stack of those to be expanded, a
  sequence on which a number may lie twice, the arcs written by
  `fsm_state_add_arc` and its lookup of one target per symbol. The history
  variable `built` lists the sets in the order in which their lines were written.
  It uses a closure of epsilon arcs by definition; that `e_closure` computes it is
  what the run `eclosure` shows.
* **`Worklist`** How a product (`fsm_intersect` is the model) drives the line
  builder: states get numbers as they are met and are expanded from a stack, so
  the lines of a state are together but states need not come in order. It
  produces the machines that pruning must cope with.
* **`Coaccessible`** `fsm_coaccessible` on what `Worklist` has written: marking
  from the final states, numbering, then the copying of one line per step inside
  the same array, with the extra line of a final state that loses its arcs.
* **`Topsort`** `fsm_topsort`; the widths of the in-arc counter and the path
  counters are the constants `InvLimit` and `PathLimit`. The arcs between two
  states are followed together, and in which order the targets come is open.
* **`Apply`** One handle of `apply.c`: `Start` (a call with a word, which clears
  what the last search left), `Again` (a call with NULL), `Reset`, and the steps
  of `apply_net`: `Enter`, `MarkState`, `FollowArc`, `NoArc`, `Pop`,
  `Exhausted`. The stack saves line, positions, mark, index list and the flag
  value that the arc overwrites.
* **`Med`** One handle of `spelling.c`. `Enter`, `Descend`, `Across`,
  `NextLine`, `Leave`, `Back` are the labels l1 to l4 of
  `fsm_create_letter_lookup` and its loop, a step each; then `Call`, `Take`,
  `Resume`, `Expand` are `apply_med`: an array heap with its order, the estimate
  from two letter tables, the cutoff, the limit, the agenda that grows and may be
  full. A confusion matrix is what the `cmatrix_*` functions make of it.
* **`Lexc`** `lexcread.c` with a step per entry read: tokens, alignment
  (`lexc_medpad`), the states a word shares with earlier ones (`lexc_add_word`),
  networks spliced in (`lexc_add_network`), late symbols beside `@` arcs
  (`lexc_update_unknowns`); then `EndOfFile` sorts the ends by length, `Merge`
  makes one state share its end, and `lexc_to_fsm` numbers and builds.

### The library, call by call

Networks here are records (states, arcs as a set, finals, alphabet as a function
from numbers to names, header claims); a function of the library is an operator
on them that makes the arcs, claims and alphabet the code makes.

* **`Network`** The record, trimming, determinization, minimization,
  topological sort with the early returns on the header's word.
* **`Alphabet`** `sigma.c`, `fsm_merge_sigma` with the expansion of `?` and `@`
  over what only the other network knows, `fsm_compact`.
* **`Products`** Everything that runs two networks in parallel.
* **`Rational`** Splicing with epsilon arcs, rewriting of arcs, reversal and
  projections, the building handle.
* **`Formulas`** The constructions that are formulas over these, composed as the
  code composes them with its auxiliary symbols.
* **`Tests`** `fsm_isidentity`, `fsm_isfunctional`, ... with the debts they carry
  from state to state, and what is extracted on the way.
* **`FlagElim`** `flags.c`.
* **`Library`** composes these: a network at hand, every function an action on
  it, the result the operand of the next call with the claims and alphabet the
  last one left. Pairs that `fsm_equivalent` leaves on the global stack are state.
* **`Meaning`** The reference: the relation a network stands for over a set of
  names, on words up to a length, and operations on relations.
* **`Promises`** For every call of `Library`, what it should return, in terms of
  `Meaning` alone. Exemptions are listed in section 3.

### The shell

* **`Desk`** What the shell promises: a stack of contents and names for
  contents, no addresses.
* **`Session`** The doubly linked stack with its sentinel and handles, the list
  of definitions, networks as chunks of memory that are allocated, handed over,
  freed. Commands that loop over the whole stack are a step per round. What a
  handle knows of its network are the address, where the lines of each state begin
  and the numbers of symbols; so a network that is renumbered (`Rewritten`:
  `compact sigma`, `sort net`, `substitute defined`) or freed leaves its handles
  outdated, while `sort in` and `sort out`, which move lines within their state and
  keep network and handles on the stack (`SortArcs`), do not: the order of the lines
  and `arcs_sorted_in/out` are read anew by every call (`apply.c:255`, `267`). It
  implements `Desk` (`ActsAsDesk`).

`MC*` modules give each of these something to work on; `HopcroftProofs`,
`MinimizeHopProofs`, `EClosureProofs`, `SubsetProofs`, `CoaccessibleProofs`,
`TopsortProofs`, `ApplyProofs` and `SessionProofs` hold the proofs.

## 3. The runs

| Run | What it shows | Bounds and why they are enough |
|---|---|---|
| `hopcroft` | groups partition the states, equivalent states are never separated, what is owed suffices, the result is minimal | 3 states, 2 symbols, every trim machine whose first symbol forms a cycle, chain, fan or loop. The proofs cover all sizes. |
| `minimize_hop` | counters agree with the groups between refinements, arenas suffice, the machine returned is minimal, every step implements `Hopcroft`, it ends | 5 states, 2 symbols. Five states are needed for a group that is split while it waits half used on the agenda and for a group that splits itself and leaves a rest. |
| `eclosure` | three calls in a row return exactly the closures, within the buffer, and end | 3 states, all graphs of at most 4 epsilon arcs, which has cycles, diamonds and closures found again in the table; stale stamps need two calls, three let the first leave stamps for the third. |
| `subset` | language kept; every set numbered, pushed and expanded once; `is_deterministic` right on every way out; it ends | 3 states, 2 symbols, 3 arcs by one symbol, one by the other, epsilon chain and loop, start states 0, 1 or both (so that a deterministic machine may fail the test for state 0), a flag that is set or not where it may be, final states; words up to length 3, enough to go round the loops of the input once and leave them. |
| `coaccessible` | nothing is overwritten before it is read; exactly the useful part remains, with its counts | every machine that `Worklist` can write with up to 4 states and 6 lines: state 0 dead or alive, last state dropped, finals that lose all arcs, states out of order. |
| `topsort` | a cycle is declared iff there is one; order and path count right or overflow | 4 states, up to 2 arcs between two of them, one arc back; the path counters overflow at 6, so that the sum over the final states and a single count both can. |
| `apply` | flags, output and marks are those of the path, no state is on the path more than twice with the same input consumed, every accepting path is returned exactly once, every call returns | 39 machines (all seven kinds of flag, epsilons, UNKNOWN and IDENTITY, loops that consume nothing, with and without index), words of length 1 and 2, three calls, broken off or reset anywhere between two results. |
| `library` | about seventy functions, two calls in a row (9275 states): each result is the relation promised, its claims are true and its alphabet sound; verdicts agree with the words; flags are eliminated as a search obeys them | first operands of up to two states with `?`, `@`, epsilons, one- and two-sided arcs, flags; a second call on what the first returned when it has at most two states; words up to length 3, pairs up to length 2, over the letters involved and others no network knows, so that `?` and `@` differ. |
| `session` | no network has two owners or is used after it is freed, cached handles fit whether a network is renumbered, replaced or has its arcs sorted in place, every command does what `Desk` says | up to 3 networks on the stack, two names and one too long, one handle, one matrix; two contents whose composition is not symmetric. Addresses are only compared, so states that differ in them alone are one (`VIEW Shape`). |
| `session_matrix` (violation) | a matrix read after the first `apply med` is not used | as above |
| `lexc` | the network of a lexicon relates the words its entries say; states merged accept the same ends | up to 3 entries of a pool of 9 that has common beginnings and ends, pairs, literal 0 on one and both sides, two spliced networks, a name of two letters declared or not, two lexicons; both values of `lexc-align`; words up to length 3. Three entries are what is needed for two ends merged that a third must keep apart. |
| `med` | the letters foreseen from each state are exactly those ahead; answers come cheapest first, with the least cost; none within the cutoff is missed | every acceptor of 3 states with up to two arcs each whose states are all useful, and two with two components of which one is left while unfinished; a matrix of uneven costs and none; two words, one with an unknown letter, in a row on one handle, the second before or after the answers of the first; limit 4, cutoff 2, an agenda that fills up at 64. |

Every property of a passing run has a mutant, or two: an operator named for the fault
beside the definition that it replaces, with which TLC finds the property violated.
Deadlock checking is off because the functions modelled return and the bounded
calls come to an end.

**Fairness.** The code is a sequential program that runs on once called, so
weak fairness of the steps of a running call is assumed where a run asks for an
end, and no more: `WF(Next)` in `Hopcroft`, `MinimizeHop` and `Subset`, where the
module is one call, weak fairness of the search alone in `EClosure` and `Apply`,
where making a further call is up to the caller. `Hopcroft` has it so that the
refinement includes it. The other modules make no promise of progress.

### What the promises leave out

The promises of `Promises` hold for every call the run makes but for these,
where the code does something else; each is a conjunct with a comment there.

* *Alphabets.* `fsm_quotient_interleave` and the internal ignore leave a gap in
  the numbers; a result is required to have none only if its operands had none.
  `fsm_complete` and what rests on it is only promised for alphabets without gaps.
* *Open networks* (with `?` or `@`). Rename and erase, the internal ignore by its
  second operand, `fsm_sigma_pairs_net`, the restriction by contexts in its right
  context, and `?:?` in compositions are only promised for closed ones;
  `fsm_issequential` and `fsm_compact` for networks without `?` arcs.
* *Boundary.* `fsm_context_restrict` only when centre and right context are closed
  once `.#.` occurs.
* *Claims.* `fsm_lowerdet`, `fsm_lowerdeteps` and `fsm_markallfinal` keep the claim
  to be minimal, true or not; `is_completed` is not checked.
* *Verdicts.* Identity, functionality and ambiguity when the walk reads a debt it
  has freed (`ReadsFreed`); `fsm_isuniversal` only in one direction.
* *Flags.* Kinds N and E, and R when no other flag of its name occurs.
* *`close sigma`* is not called when it would leave final states but none that state 0
  leads to: the program then reads past its tables (`LosesStart` of `Network`).
* *The integer stack.* With pairs left on it by `fsm_equivalent` only functions
  that clear it or do not read it follow; a call that would mix them up ends the
  run (`left = "mixed"`), and nothing is said of its result.
* *Lenient composition and the lower priority union* are promised as the code has
  them. The help says something else (11 and 12 below).

In `Lexc`, `LexiconRight` leaves out an entry of EPSILON on both sides under
`lexc-align`, a literal 0 first in a word after a network, `@` arcs before EPSILON
is known, and a lexicon that crashes the program. In `Session`, `HandlesFit` holds
until the stack is rotated, `OwnedOnce` until a matrix is shared by a copy.

### Where the code differs from what it says

`PROJECT.json` lists these under "findings". One has its run. The others can be
reproduced by adding a property or a network to a run, or were met by reading
and confirmed by calling the library:

1. `structures.c:815`: `session_matrix`. A copy shares the matrix of the original
   and frees it.
2. `stack.c:215`: rotating leaves the handles where they were. Add `AppliesToTop`
   to `MCSession.cfg`.
3. `topsort.c:39` counts arcs into a state in an `unsigned short`. A state with
   65537 of them is taken up after the first and an acyclic network is declared
   cyclic. Check `LoopFreeExact` with `Nets <- WideNets` of `MCTopsort`.
4. `apply.c:917,923` unmark a state when a visit is left, though an earlier visit
   to the same state may still be on the stack; there is one mark per state. Then
   `apply_down` on a loop that consumes nothing through two states need not end,
   contrary to the comment at `apply.c:784`. Check `AtMostTwice` with
   `Nets <- LoopNets` of `MCApply`. The library does return `a` without end.
5. `minimize.c:394-396` compares a count with a part of it, so that the comment's
   "smaller of tP, newP" is always `newP`. The result is right, as `Hopcroft`
   allows either. Add `QueuesSmallerHalf` to `MCMinimizeHop.cfg`.
6. `dynarray.c:114` remembers one target per pair of symbols, so an arc can be
   written twice. Add `NoRepeatedArc` to `MCSubset.cfg`.
7. `lexcread.c:796`: two states with one number when Root is not the first
   lexicon. Add `NumbersDistinct` to `MCLexc.cfg`.
8. `spelling.c:27`: the limit counts alignments, one word is several answers. Add
   `AnswersDistinct` to `MCMed.cfg`.
9. `apply.c:843`: where the direction of a call has no index, `apply_set_iptr`
   returns before it resets `state_has_index`, which may still be that of a call in
   the other direction. With an index for `apply_down` only, `apply_up` returns NULL
   for a word it returned before the first `apply_down` on the same handle. This came
   out of the proof of `EveryPathReturned`, which needs `Indexable` to say that a
   handle has both indexes or none. Check `ListFitsState` with
   `Nets <- OneSidedNets` of `MCApply`.
10. Those of `lexcread.c:206`, `:486`, `:748`, `:1071` are the exemptions of
   `LexiconRight`; those of `constructions.c:2113`, `:2352`, `:3142`,
   `structures.c:322`, `:517` and `flags.c:120` are exemptions of the promises above.
   Dropping the exemption shows them. `spelling.c:70` was met while reading.
11. `constructions.c:2337`: the help (`iface.c:231`) and the comment at
   `constructions.c:2335` define `A .O. B` as `[A .o. B] .P. B`; the code computes
   `[A .o. B] .P. A`. `0 .O. ?` is the empty word, and would be `?`. Add
   `LenientAsDocumented` to `MCLibrary.cfg`.
12. `constructions.c:2329`: the help (`iface.c:248`) defines `A .p. B` as
   `A | [~[A.l] .o. B]`; the code computes `A | [B .o. ~[A.l]]`. `a .p. a:b` has
   the pair a:b, and would not. Add `PriorityLowerAsDocumented` to `MCLibrary.cfg`.

## 4. The proofs

Each theorem is of the form `Spec => []P`, or `Spec => Abstract!Spec`, for every
value of the constants that satisfies the assumption of its module. The
assumptions say what the data are (machines over given states and symbols, lines
of a certain form), that finite things are finite, and for `Hopcroft` and
`MinimizeHop` that the machine is deterministic, which `fsm_minimize` sees to.

**`HopcroftProofs`.** The invariant `Inv` adds to the properties checked two
facts that make them inductive: all states of a group agree on finality
(`FinalityUniform`), and the touched states are exactly closed under every
congruence (`TouchedClosed`: no congruence relates a touched state to an
untouched one), without which a cut could separate equivalent states. The heart
is `SplitBlockInv`: after a cut, what covered the pair of states through the old
group covers it through one of its halves, whichever is queued, because the
machine is deterministic. At the end `WorkCovers` with nothing owed says that the
groups are themselves a congruence (`FinishedIsCongruence`), and
`NeverSeparatesEquivalent` that it is the coarsest.
Theorems: `TypeCorrect`, `Coarse`, `Covered`, `MinimalWhenDone`.

**`MinimizeHopProofs`.** `Implements` is the refinement: `MinimizeHop` implements
`Hopcroft`. The invariant has three parts. The groups (`Refining`, `Quiet`): each
group is either dealt with, so that its counters are those of its members, or
waits with the counters it had when `refine_states` was called, which are those of
its members together with the states that have already left it for the half-done
split (`Whole`, `HalfDone`); a state still to be moved is counted at its new home
(`Home`). The debts: what `Hopcroft` owes is what the agenda's entries owe, plus
the group in use while it is not queued again (`Debts`, `Owes`); what a group in
use owes is read off the tails of any of its states, since all have passed the
same symbols (`Uniform`). The abort: when there are N groups there are no more
states to tell apart, by counting, so that dropping the agenda loses nothing.
`ReturnsMinimal` then needs no argument of its own about equivalence: `Minimal` is
carried over from `HopcroftProofs` by the mapping, and `Rebuild` numbers groups one
to one (`Numbers`). Other theorems: `TypeCorrect`, `CountersRight`, `ArenasHold`.

**`EClosureProofs`.** `Stamps` says that between two calls every stamp is from the
past, so that during a call each stamp equal to `mainloop` was set in it; without it
the rest is not inductive. `Members` and `Pending` are the two halves of a closure:
what is stamped is reached, and what has been followed leads only to what is
followed or waits. `ClosureRight` (with the numbering of equal sets), `BufferFits`,
`TypeCorrect`.

**`SubsetProofs`.** `Inv` adds what holds of the set being expanded (`ExpandingT`:
the arcs written so far are those of the symbols and tails passed, and the lookup
names an arc written) and of the sets that wait (`UnmarkedClean`: no line has
been written for them). That every number is in one place once (`EachOnce`) is kept
by a push because the number is new, and by a pop because the stack holds none
twice (`AppendFacts`, `PopFacts`). Theorems: `TypeCorrect`; `SubsetConstruction`:
each set has one number, is never pushed or expanded again nor forgotten, and gets
exactly the arcs of the subset construction and the right finality; `FlagExact`:
`is_deterministic` says no more than is true on every early return, provided it
did on the way in, and just what holds of the lines after the loop (`FlagSoFar`), and
`fsm_determinize` has set it on every way out (`DeterminizeSoFar`: there a second
target by a symbol never comes); `LanguagePreserved`: the result accepts the same
words. The last
one is an induction over the length of words, made with a least element of the set
of lengths where the two machines part, since the library's induction theorems
cannot be used.

**`CoaccessibleProofs`** starts from everything that `Worklist` can write, with an
invariant of its own (`WInv`) of which `Descends` matters: the state written after
p is one that an arc of p leads to, unless p numbered none. `Reading` compares the
position written with the position read. A final state that loses all its lines gets
an extra one, and what makes room for it is that one of its arcs was dropped, or a
line before it (`Gap`, `NoGap`); if none was dropped anywhere before, the state has
kept a line. `Written`, `Counted` and `Blocks` say what has been written so far.
Theorems: `ReadsHold`, `TrimRight`, `TypeCorrect`.

**`TopsortProofs`.** `Counters` (`invcount` is the number of arcs into a state that
are still to be followed) and `Stacked` (a state waits exactly when there are none)
carry the order. Both fail when `invcount` wraps around, which it does (finding 3),
so the theorems are about runs on machines in which every state is entered by fewer
arcs than the counter can hold (`Narrow`): `OrderRight`, and `CyclesFound`, where
states never treated enter each other, which in a finite machine is a cycle. That
one also needs a state other than 0 to be entered by some arc (`Entered`): a state
that none enters is never treated and the machine declared cyclic. The commands that
sort a network have pruned it, so that all its states are reached.
For the paths, `Counted` says that `pathcount` is the sum over the arcs followed so
far, exactly until something does not fit and at most that afterwards, and that after
an overflow some state has too many. The arcs not followed yet are the reason that no
term of a sum changes later: a state whose count still grows is not treated, so none
of its own arcs has been followed (`Gives`). At the end all have been, and the walks
satisfy the same equation (`WalksFollowArcs`), because no walk is longer than the
order: that is an exchange of two sums over the table of `WalksTo`. The lemmas on
`Sum` stand in for induction over sets: each takes a smallest set on which it would
fail. A path counter must be able to hold 1, hence `PathLimit` is not 0 or 1.
Theorems: `OrderRight`, `CyclesFound`, `PathsCounted`, `TypeCorrect`.

**`ApplyProofs`.** `apply.c` remembers one value with each position it leaves. The
invariant `FlagInv` says that there is a history, the flags after each arc of the
path, in which passing the arc gives the next element and putting the value saved
back gives the element before: saving one value is enough because a flag arc
changes one flag, and it is not saved where nothing changes (`PassUndone`). The history of
the output is the same with `opos`, whose place in the buffer is never overwritten
below (`OutputRight`). The marks need the lists of an index to hold lines of one
state only (`FrameOK`), or the mark put back would be that of another state.

That every accepting path is returned once (`EveryPathReturned`) rests on four
invariants. `RunInv`: the path on the stack can be traced (`Trace`: each line leads
from a state, a position in the word and values of the flags to the next), and the
search stands where it leads. `ListInv`: the lines ahead hold none twice, and where
a state is entered all that match the word, in the order of the table or in that of
an index with the list of epsilon as its tail (`IndexListLists`). `Positive`: where
no loop consumes nothing a path comes to no place twice, so every mark is that of a
first visit and never forbids a line. `Complete`: each accepting path either has
been returned, once, or is still to come, by a line left at some entry of the stack or
one ahead (`ToCome`), and not both. At the end nothing is to come. The accepting paths
are those of at most `MaxPath` lines because a longer one would come to a place
twice (`PathBound`, by counting). The assumption on the machines is `WellFormed`,
what the table of lines is for `apply_create_statemap`.

With loops that consume nothing at single states (`SingleLoops`) the visits of a
place follow each other on the path (`VisitsTogether`); `Twice` then says that the
mark of a state is that of its last visit here, negative for a second, which the
test before a line is followed refuses to enter again. Without `SingleLoops` it is not
inductive, which is finding 4: leaving a later visit of a state unmarks it
while an earlier one is on the path with others between.

What is returned is right also where something may be missing, on machines with
loops of any kind and with an index for one direction only (`ResultsGenuine`): a
result is an accepting path and none is given twice, since a step of the search adds
no path to those to come (`Behind`).

Theorems: `FlagsRight`, `OutputRight`, `MarksRight`, `EveryPathReturned`,
`ResultsGenuine`, `TwiceAtMost`, `DepthBounded` (the stack is at most twice as high
as there are places), `TypeCorrect`.

**`SessionProofs`.** The invariant is `Rest(memory, pile)`, for the pile of networks
found on the stack. `Piled`: the entries form one chain from `main` to the sentinel,
numbered from the bottom up, linked both ways, and every other cell is unused (`Chain`); so the loops of `stack.c` meet the networks of the pile in order
(`PathIs`, `SizeIs`, by a least place where they would not). `Apart`: the networks
of the pile, those of the definitions and those that the command at work holds (`X`)
are all different. `Memory`: these are allocated, and while no matrix is shared each
has its own. `Fits`: the handles were made for the network
beside them, except for networks that the command has renumbered (`N`).
`OwnedOnce` and `HandlesFit` are not inductive without it: a command goes through
states in which a network has no owner in any list, or in which `malloc` returns
the address of a network that some handle was made for, and what makes that right is
that a network is freed or renumbered only when its entry, and the handles with it,
is off the stack or about to be taken off. `SortArcs` needs none of this: nothing a
handle was made from changes (section 2). Each function
of `stack.c`, `define.c`, `structures.c` has a rule that says how it moves a network
between pile, definitions and `X` (`PopRule`, `AddRule`, `DestroyRule`, `StoreRule`,
`BindRule`, `UnbindRule`...); the lemma of a command (`PopYields` to `QuitYields`)
puts them together in the order of the code and says what stack and definitions
then say, which is the step of `Desk`. The loops that destroy all networks of a list
are functions over its places (`FreesAll`). The assumptions are that contents are
not the two marks `Free` and `Lost` are recognized by, that union is symmetric, and
that cells are finitely many but more than the stack may hold.
Theorems: `InvariantHolds`, `OwnershipHolds`, `HandlesHold`, `SessionActsAsDesk`.

Only model-checked, and why:

* Liveness (calls that return), which needs fairness and ENABLED.
* `AtMostTwice` on machines with a loop that consumes nothing through several
  states: it is not true of all of them (finding 4) and is a claim about those of the
  run, as is `Returns`.
* `Meaning`, `Lexc` and `Med` use recursive operators (relations, alignments, a
  heap), which the prover cannot use, and with them everything in `Promises`,
  `LexiconRight`, `MergesKeepEnds`, `LettersExact`, `CheapestFirst`,
  `NothingMissed`.

## 5. Not modelled

* `fsm_minimize_brz`: a different route to the same result, four calls of what
  is modelled; chosen by a variable that is off by default. The star-freeness test
  inside `fsm_subset`, growth of tables and buffers, the order of sets of equal hash.
* In `Apply`: random words; the printing options; `obey-flags` off; the binary
  search of sorted arcs, which only skips lines that cannot match as long as the arcs
  of a network that claims `arcs_sorted_in` or `_out` are sorted; the trie that
  cuts a word into symbols (words are given as symbols). `apply_words` on a
  handle with an index is run but its completeness is not claimed.
* In `Library`: `fsm_letter_machine`, which takes the names of symbols apart;
  the stubs `fsm_sequentialize` and `fsm_bimachine`; the order of lines.
* In `Session`: what the order of arcs does to a search (`Apply` takes lines in any
  order); that other commands too may return another network than they were given
  (the extraction commands, `letter machine`, `eliminate flags`), as `reverse` does
  (`ReverseTop`; `Unary` stands for the commands that work on the network they were
  given); printing, options, loading of stacks and definitions from files,
  `name net`, `words-file`, the texts of defined functions.
* In `Lexc`: the lexer with its escapes, the Definitions section, a declared name
  that holds a literal 0, declarations after the first entry.
* In `Med`: networks with EPSILON arcs and transducers; costs of 0
  (`README.cmatrix`: "All costs must be positive"); the texts that `print_match`
  writes; setting limit or cutoff between two answers; the text format of matrices.
* Rewrite rules (`rewrite.c`): a formula of the size of a small program over some
  twenty auxiliary symbols; the networks on the way are beyond what TLC can
  enumerate. Its building blocks are in `Library`.
* `io.c`, the programs, the Python bindings, `utf8.c`, `mem.c`, the lexers:
  formatting, text and options. `trie.c` and `stringhash.c`: tables with no
  state beyond what is put in them.

## 6. Plan

The order was: `Hopcroft`/`MinimizeHop`, `EClosure`/`Subset`,
`Worklist`/`Coaccessible`, `Topsort`, `Apply`; then `Network` to `Promises`,
`Session`/`Desk`, `Lexc`, `Med`. What is left:

1. Proofs about `Med`: its heap and its letter tables are recursive operators, which
   have to be written as functions first. `CheapestFirst` needs the order of the heap,
   kept by `Raised` and `Sunk`, and letter tables that never say less than is still to
   be paid.
2. Proofs about `Lexc`, for the same reason, beginning with `MergesKeepEnds`.
3. A measure that decreases with every step of `Search` where loops that consume
   nothing are at single states: `DepthBounded` bounds the stack, `Returns` is checked.
4. `rewrite.c`, if a way is found to check its formula in parts, and `read_prolog` and
   the binary format of `io.c` as conversions.
