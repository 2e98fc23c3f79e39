------------------------------- MODULE Apply -------------------------------
(***************************************************************************)
(* The runtime of foma (foma/apply.c): apply_down, apply_up and            *)
(* apply_words search a machine depth first, one result per call.          *)
(*                                                                         *)
(* The handle keeps the search between calls: a stack of the positions     *)
(* left, each with the mark of its state and the flag value that the arc   *)
(* taken has overwritten, and a mark for every state that bounds loops     *)
(* which consume no input.  A word is given as the symbols that            *)
(* apply_create_sigmatch finds in it, and every symbol prints as itself.   *)
(***************************************************************************)
EXTENDS Integers, Sequences, SequencesExt, FiniteSets

Epsilon == 0
Unknown == 1
Identity == 2

CONSTANTS
  Flag,     \* the flag diacritics: symbol |-> [type, name, value]
  Nets,     \* the machines
  Words,    \* the words to apply
  Modes,    \* the calls made: "down", "up", "words"
  MaxWords  \* bound on the words applied one after the other

NoValue == "none"

LineType == [state_no : Int, in : Int, out : Int, target : Int, final_state : BOOLEAN]

(***************************************************************************)
(* A table of lines as apply_create_statemap takes it to be: the first is  *)
(* of state 0, those of a state follow each other and agree on whether it  *)
(* is final, every target has a line, and the last line is the sentinel.   *)
(***************************************************************************)
WellFormed(lines) ==
  LET own == 1..(Len(lines) - 1)
  IN /\ lines \in Seq(LineType) /\ Len(lines) > 1
     /\ lines[1].state_no = 0 /\ lines[Len(lines)].state_no = -1
     /\ \A k \in own : /\ lines[k].state_no >= 0
                       /\ \/ lines[k].target = -1
                          \/ \E m \in own : lines[m].state_no = lines[k].target
     /\ \A j, k \in own : lines[j].state_no = lines[k].state_no =>
          /\ lines[j].final_state = lines[k].final_state
          /\ \A m \in j..k : lines[m].state_no = lines[k].state_no

\* The names of the flags; flag_list holds the value of each.
FlagName == {Flag[f].name : f \in DOMAIN Flag}

(***************************************************************************)
(* A machine: its lines from 0 on, with the sentinel, and the states that  *)
(* have an index on the input side and on the output side.                 *)
(***************************************************************************)
ASSUME ApplyAssumption ==
  /\ MaxWords \in Nat /\ Modes \subseteq {"down", "up", "words"}
  /\ \A f \in DOMAIN Flag : Flag[f].type \in {"U", "C", "D", "N", "P", "R", "E"}
  /\ DOMAIN Flag \cap {Epsilon, Unknown, Identity} = {}
  /\ \A w \in Words : w \in Seq(Int)
  /\ \A n \in Nets : /\ WellFormed(n.lines)
                     /\ \E k \in DOMAIN n.lines : n.lines[k].final_state

VARIABLES
  net,
  mode, word,        \* the mode of the handle, and instring
  ptr,               \* the line at hand
  ipos, opos,        \* how far word and outstring go
  outstring,
  marks,             \* by state: 0 unseen, p+1 seen at p, -(p+1) seen twice
  searchstack,       \* the positions left, the top last
  flag_list,         \* by name: the value and whether it is negated
  iptr,              \* the lines still ahead in the list of an indexed state
  state_has_index,
  returned,          \* the paths of the results for this word, in order
  calls,             \* how many words have been applied
  iterator,          \* apply_words is under way
  pc

vars == <<net, mode, word, ptr, ipos, opos, outstring, marks, searchstack, flag_list,
          iptr, state_has_index, returned, calls, iterator, pc>>

-----------------------------------------------------------------------------

\* Line k, counted from 0.
Line(k) == net.lines[k + 1]
LineNo == 0..(Len(net.lines) - 2)
States == {Line(k).state_no : k \in LineNo}
State == Line(ptr).state_no

\* The first line of a state.
statemap(s) == CHOOSE k \in LineNo : /\ Line(k).state_no = s
                                     /\ \A m \in LineNo : Line(m).state_no = s => k <= m

\* The lines of a set as they follow each other.
InOrder(S) ==
  CHOOSE q \in [1..Cardinality(S) -> S] : \A i, j \in DOMAIN q : i < j => q[i] < q[j]

symin(k) == IF mode = "up" THEN Line(k).out ELSE Line(k).in
symout(k) == IF mode = "up" THEN Line(k).in ELSE Line(k).out

IsFlag(a) == a \in DOMAIN Flag

\* The symbol at a position of the word.
sigmatch(i) == word[i + 1]

(***************************************************************************)
(* apply_check_flag: the value of the flag after the check, the empty set  *)
(* when it fails.                                                          *)
(***************************************************************************)
CheckFlag(f, fl) ==
  LET v    == fl[f.name]
      same == v.value = f.value
      set  == v.value # NoValue
  IN CASE f.type = "U" ->
            IF ~set \/ (same /\ ~v.neg) THEN {[v EXCEPT !.value = f.value]}
            ELSE IF ~same /\ v.neg THEN {[value |-> f.value, neg |-> FALSE]}
            ELSE {}
       [] f.type = "C" -> {[value |-> NoValue, neg |-> FALSE]}
       [] f.type = "D" -> IF ~set \/ (f.value # NoValue /\ same = v.neg) THEN {v} ELSE {}
       [] f.type = "N" -> {[value |-> f.value, neg |-> TRUE]}
       [] f.type = "P" -> {[value |-> f.value, neg |-> FALSE]}
       [] f.type = "R" ->
            IF set /\ (f.value = NoValue \/ (same /\ ~v.neg)) THEN {v} ELSE {}
       [] f.type = "E" ->
            IF (IF f.value \in FlagName THEN fl[f.value] = v ELSE ~set) THEN {v} ELSE {}

\* The values of all flags after a symbol is passed; the empty set if it may not be.
PassFlag(a, fl) ==
  IF IsFlag(a)
  THEN {[fl EXCEPT ![Flag[a].name] = v] : v \in CheckFlag(Flag[a], fl)}
  ELSE {fl}

(***************************************************************************)
(* apply_match_length, and apply_match_str but for the flags: how much of  *)
(* the word symbol a consumes at i, or -1.                                 *)
(***************************************************************************)
MatchLength(a, i) ==
  IF a = Epsilon \/ IsFlag(a) \/ mode = "words" THEN 0
  ELSE IF i < Len(word) /\ (sigmatch(i) = a \/
                            (a \in {Identity, Unknown} /\ sigmatch(i) = Identity)) THEN 1
  ELSE -1

\* What apply_append writes for an arc; flags are not shown.
Printed(k) ==
  IF mode = "words" THEN <<IF IsFlag(symin(k)) THEN Epsilon ELSE symin(k),
                           IF IsFlag(symout(k)) THEN Epsilon ELSE symout(k)>>
  ELSE IF symout(k) = Epsilon \/ IsFlag(symout(k)) THEN <<>>
  ELSE IF symout(k) = Identity THEN <<sigmatch(ipos)>>
  ELSE <<symout(k)>>

\* outstring after s is written at opos; what lies behind is never shown.
WriteAt(s) == SubSeq(outstring, 1, opos) \o s

-----------------------------------------------------------------------------

\* The index that apply_index has made for the mode, as the set of its states.
Indexed == IF mode = "up" THEN net.index_out ELSE net.index_in

\* Epsilon also stands for flags in an index, and IDENTITY for UNKNOWN.
IndexSymbol(a) == IF IsFlag(a) THEN Epsilon ELSE IF a = Unknown THEN Identity ELSE a

(***************************************************************************)
(* The list of a symbol in an index: the first line, the others backwards, *)
(* then the list of epsilon, which is the tail of all.                     *)
(***************************************************************************)
IndexList(s, a) ==
  LET own(b) == InOrder({k \in LineNo : /\ Line(k).state_no = s
                                        /\ Line(k).target # -1
                                        /\ IndexSymbol(symin(k)) = b})
      list(b) == IF own(b) = <<>> THEN <<>> ELSE <<Head(own(b))>> \o Reverse(Tail(own(b)))
  IN IF a = Epsilon THEN list(Epsilon) ELSE list(a) \o list(Epsilon)

(***************************************************************************)
(* apply_set_iptr at line k and position i: nothing is touched when the    *)
(* mode has no index.  Behind the word the symbol is what happens to be    *)
(* there.                                                                  *)
(***************************************************************************)
SetIptr(k, i) ==
  IF Indexed = {} THEN UNCHANGED <<iptr, state_has_index>>
  ELSE IF Line(k).state_no \notin Indexed THEN iptr' = <<>> /\ state_has_index' = FALSE
  ELSE /\ \E a \in IF i < Len(word) THEN {sigmatch(i)}
                    ELSE {Epsilon} \cup {symin(m) : m \in LineNo} :
            iptr' = IndexList(Line(k).state_no, IndexSymbol(a))
       /\ state_has_index' = TRUE

-----------------------------------------------------------------------------

NoFlags == [f \in FlagName |-> [value |-> NoValue, neg |-> FALSE]]

Init ==
  /\ net \in Nets
  /\ mode \in Modes
  /\ word = <<>>
  /\ ptr = 0 /\ ipos = 0 /\ opos = 0 /\ outstring = <<>>
  /\ marks = [s \in States |-> 0]
  /\ searchstack = <<>>
  /\ flag_list = NoFlags
  /\ iptr = <<>> /\ state_has_index = FALSE
  /\ returned = <<>> /\ calls = 0 /\ iterator = FALSE
  /\ pc = "idle"

\* Mutant: the marks of a search broken off are kept.
StartKeepsMarks(m, w) ==
  /\ pc \in {"idle", "exhausted", "result"} /\ calls < MaxWords
  /\ ~iterator
  /\ mode' = m
  /\ word' = IF m = "words" THEN <<>> ELSE w
  /\ ptr' = 0 /\ ipos' = 0 /\ opos' = 0
  /\ searchstack' = <<>>
  /\ flag_list' = NoFlags
  /\ returned' = <<>>
  /\ calls' = calls + 1
  /\ iterator' = (m = "words")
  /\ pc' = "open"
  /\ state_has_index' = IF searchstack = <<>> THEN state_has_index
                        ELSE Head(searchstack).has_index
  /\ UNCHANGED <<net, outstring, marks, iptr>>

(***************************************************************************)
(* Start: a call with a word, or the first of apply_words.  What an        *)
(* earlier search has left is cleared (apply_force_clear_stack unmarks the *)
(* states on its path), and state 0 is entered.  The callers reset the     *)
(* enumerator after apply_words.                                           *)
(***************************************************************************)
Start(m, w) ==
  LET path == {Line(searchstack[k].ptr).state_no : k \in DOMAIN searchstack} \cup {State}
  IN /\ pc \in {"idle", "exhausted", "result"} /\ calls < MaxWords
     /\ ~iterator
     /\ mode' = m
     /\ word' = IF m = "words" THEN <<>> ELSE w
     /\ marks' = IF searchstack = <<>> THEN marks
                 ELSE [s \in States |-> IF s \in path THEN 0 ELSE marks[s]]
     /\ ptr' = 0 /\ ipos' = 0 /\ opos' = 0
     /\ searchstack' = <<>>
     /\ flag_list' = NoFlags
     /\ returned' = <<>>
     /\ calls' = calls + 1
     /\ iterator' = (m = "words")
     /\ pc' = "open"
     /\ state_has_index' = IF searchstack = <<>> THEN state_has_index
                           ELSE Head(searchstack).has_index
     /\ UNCHANGED <<net, outstring, iptr>>

\* Open: apply_set_iptr for the start state.
Open ==
  /\ pc = "open"
  /\ IF Indexed = {} THEN iptr' = <<>> /\ UNCHANGED state_has_index ELSE SetIptr(0, 0)
  /\ pc' = "enter"
  /\ UNCHANGED <<net, mode, word, ptr, ipos, opos, outstring, marks, searchstack,
                 flag_list, returned, calls, iterator>>

\* The path searched: the lines followed.
Path == [k \in DOMAIN searchstack |-> searchstack[k].ptr]

\* At a final state with all of the word consumed the call returns a result.
AtResult == Line(ptr).final_state /\ (mode = "words" \/ ipos = Len(word))

Enter ==
  /\ pc = "enter"
  /\ IF AtResult THEN pc' = "result" /\ returned' = Append(returned, Path)
     ELSE pc' = "mark" /\ UNCHANGED returned
  /\ UNCHANGED <<net, mode, word, ptr, ipos, opos, outstring, marks, searchstack,
                 flag_list, iptr, state_has_index, calls, iterator>>

\* Again: a call with NULL goes on after the last result.
Again ==
  /\ pc = "result"
  /\ pc' = "mark"
  /\ UNCHANGED <<net, mode, word, ptr, ipos, opos, outstring, marks, searchstack,
                 flag_list, iptr, state_has_index, returned, calls, iterator>>

\* Reset: apply_reset_enumerator; the stack stays.
Reset ==
  /\ pc \in {"exhausted", "result"}
  /\ marks' = [s \in States |-> 0]
  /\ iterator' = FALSE
  /\ pc' = "idle"
  /\ UNCHANGED <<net, mode, word, ptr, ipos, opos, outstring, searchstack, flag_list,
                 iptr, state_has_index, returned, calls>>

\* Mutant: a state entered again is marked like one entered for the first time.
MarkStateOnce ==
  /\ pc = "mark"
  /\ marks' = [marks EXCEPT ![State] = ipos + 1]
  /\ pc' = "follow"
  /\ UNCHANGED <<net, mode, word, ptr, ipos, opos, outstring, searchstack, flag_list,
                 iptr, state_has_index, returned, calls, iterator>>

\* MarkState: apply_mark_state.
MarkState ==
  /\ pc = "mark"
  /\ marks' = [marks EXCEPT ![State] = IF @ = ipos + 1 THEN -(ipos + 1) ELSE ipos + 1]
  /\ pc' = "follow"
  /\ UNCHANGED <<net, mode, word, ptr, ipos, opos, outstring, searchstack, flag_list,
                 iptr, state_has_index, returned, calls, iterator>>

(***************************************************************************)
(* The lines that apply_follow_next_arc tries, in order: those left in the *)
(* index list, or those of the state from the line at hand on.             *)
(***************************************************************************)
Ahead ==
  IF state_has_index THEN iptr
  ELSE InOrder({k \in LineNo : k >= ptr /\ Line(k).state_no = State
                               /\ Line(k).target # -1})

(***************************************************************************)
(* Line k may be followed: it matches, it is not a third entry to its      *)
(* target at this position, and its flag allows it.  (The binary search    *)
(* skips only lines that do not match.)                                    *)
(***************************************************************************)
Follows(k) ==
  LET eat == MatchLength(symin(k), ipos)
  IN /\ eat # -1
     /\ -1 - ipos - eat # marks[Line(k).target]
     /\ PassFlag(symin(k), flag_list) # {}

\* The position in Ahead of the line that is followed.
NextArc == {n \in DOMAIN Ahead : /\ Follows(Ahead[n])
                                 /\ \A m \in 1..(n - 1) : ~Follows(Ahead[m])}

\* What apply_stack_push saves before line n of Ahead is followed.
Pushed(n, saved) ==
  [ptr |-> Ahead[n], ipos |-> ipos, opos |-> opos, mark |-> marks[State],
   iptr |-> IF state_has_index THEN SubSeq(iptr, n, Len(iptr)) ELSE iptr,
   has_index |-> state_has_index, flag |-> saved]

\* Mutant: the flags are not saved.
FollowArcNoFlag(n) ==
  LET k == Ahead[n]
  IN /\ pc = "follow" /\ n \in NextArc
     /\ searchstack' = Append(searchstack, Pushed(n, {}))
     /\ outstring' = WriteAt(Printed(k))
     /\ opos' = opos + Len(Printed(k))
     /\ ipos' = ipos + MatchLength(symin(k), ipos)
     /\ ptr' = statemap(Line(k).target)
     /\ flag_list' \in PassFlag(symin(k), flag_list)
     /\ SetIptr(ptr', ipos')
     /\ pc' = "enter"
     /\ UNCHANGED <<net, mode, word, marks, returned, calls, iterator>>

(***************************************************************************)
(* FollowArc: the position is pushed, with the old value of the flag that  *)
(* a U, C, P or N arc may change, and the target is entered.               *)
(***************************************************************************)
FollowArc(n) ==
  LET k == Ahead[n]
      a == symin(k)
      saved == IF IsFlag(a) /\ Flag[a].type \in {"U", "C", "P", "N"}
               THEN {<<Flag[a].name, flag_list[Flag[a].name]>>} ELSE {}
  IN /\ pc = "follow" /\ n \in NextArc
     /\ searchstack' = Append(searchstack, Pushed(n, saved))
     /\ outstring' = WriteAt(Printed(k))
     /\ opos' = opos + Len(Printed(k))
     /\ ipos' = ipos + MatchLength(a, ipos)
     /\ ptr' = statemap(Line(k).target)
     /\ flag_list' \in PassFlag(a, flag_list)
     /\ SetIptr(ptr', ipos')
     /\ pc' = "enter"
     /\ UNCHANGED <<net, mode, word, marks, returned, calls, iterator>>

\* Mutant: the search goes on at the state.
NoArcStays ==
  /\ pc = "follow" /\ NextArc = {}
  /\ marks' = [marks EXCEPT ![State] = 0]
  /\ pc' = "mark"
  /\ UNCHANGED <<net, mode, word, ptr, ipos, opos, outstring, searchstack, flag_list,
                 iptr, state_has_index, returned, calls, iterator>>

\* NoArc: no line can be followed; the state is unmarked.
NoArc ==
  /\ pc = "follow" /\ NextArc = {}
  /\ marks' = [marks EXCEPT ![State] = 0]
  /\ pc' = "pop"
  /\ UNCHANGED <<net, mode, word, ptr, ipos, opos, outstring, searchstack, flag_list,
                 iptr, state_has_index, returned, calls, iterator>>

\* The line popped is the last that could be followed: apply_at_last_arc.
AtLastArc(f) ==
  IF f.has_index THEN Len(f.iptr) <= 1
  ELSE Line(f.ptr).state_no # Line(f.ptr + 1).state_no

\* The flags after apply_stack_pop has put back the value saved, if any.
Restored(saved) ==
  [x \in FlagName |-> IF \E v \in saved : v[1] = x THEN (CHOOSE v \in saved : TRUE)[2]
                      ELSE flag_list[x]]

\* Mutant: opos is not put back.
PopOpos ==
  LET f == Last(searchstack)
      s == Line(f.ptr).state_no
  IN /\ pc = "pop" /\ searchstack # <<>>
     /\ searchstack' = Front(searchstack)
     /\ ipos' = f.ipos /\ UNCHANGED opos
     /\ state_has_index' = f.has_index
     /\ flag_list' = Restored(f.flag)
     /\ IF AtLastArc(f)
        THEN /\ marks' = [marks EXCEPT ![s] = 0]
             /\ ptr' = f.ptr /\ iptr' = f.iptr
             /\ UNCHANGED pc
        ELSE /\ marks' = [marks EXCEPT ![s] = f.mark]
             /\ ptr' = IF f.has_index THEN f.ptr ELSE f.ptr + 1
             /\ iptr' = IF f.has_index THEN Tail(f.iptr) ELSE f.iptr
             /\ pc' = "follow"
     /\ UNCHANGED <<net, mode, word, outstring, returned, calls, iterator>>

(***************************************************************************)
(* Pop: the last position left is taken back, with its mark and flag.  At  *)
(* its last arc its state is unmarked, else the arc is skipped.            *)
(***************************************************************************)
Pop ==
  LET f == Last(searchstack)
      s == Line(f.ptr).state_no
  IN /\ pc = "pop" /\ searchstack # <<>>
     /\ searchstack' = Front(searchstack)
     /\ ipos' = f.ipos /\ opos' = f.opos
     /\ state_has_index' = f.has_index
     /\ flag_list' = Restored(f.flag)
     /\ IF AtLastArc(f)
        THEN /\ marks' = [marks EXCEPT ![s] = 0]
             /\ ptr' = f.ptr /\ iptr' = f.iptr
             /\ UNCHANGED pc
        ELSE /\ marks' = [marks EXCEPT ![s] = f.mark]
             /\ ptr' = IF f.has_index THEN f.ptr ELSE f.ptr + 1
             /\ iptr' = IF f.has_index THEN Tail(f.iptr) ELSE f.iptr
             /\ pc' = "follow"
     /\ UNCHANGED <<net, mode, word, outstring, returned, calls, iterator>>

\* Exhausted: nothing is left; the call returns NULL.
Exhausted ==
  /\ pc = "pop" /\ searchstack = <<>>
  /\ pc' = "exhausted"
  /\ UNCHANGED <<net, mode, word, ptr, ipos, opos, outstring, marks, searchstack,
                 flag_list, iptr, state_has_index, returned, calls, iterator>>

\* What a call does once it has been made.
Search == Open \/ Enter \/ MarkState \/ (\E n \in NextArc : FollowArc(n)) \/ NoArc \/ Pop
            \/ Exhausted

Next ==
  \/ \E m \in Modes, w \in Words : Start(m, w)
  \/ Again
  \/ Reset
  \/ Search

\* A call runs; whether another is made is up to the caller.
Spec == Init /\ [][Next]_vars /\ WF_vars(Search)

-----------------------------------------------------------------------------

\* A call stands at a state it has entered or come back to.
AtState == pc \in {"enter", "result", "mark", "follow"}

\* The types of the handle's fields.
TypeOK ==
  /\ mode \in Modes /\ ptr \in LineNo
  /\ ipos \in 0..Len(word) /\ opos \in 0..Len(outstring)
  /\ \A k \in DOMAIN searchstack : searchstack[k].ptr \in LineNo
  /\ \A x \in FlagName : flag_list[x].neg \in BOOLEAN
  /\ state_has_index \in BOOLEAN /\ iterator \in BOOLEAN /\ calls \in 0..MaxWords
  /\ pc \in {"idle", "open", "enter", "result", "mark", "follow", "pop", "exhausted"}

(***************************************************************************)
(* A state is marked only while its lines are tried or it is on the path.  *)
(* So wherever a search is broken off, the next word is begun without a    *)
(* mark, though apply_force_clear_stack ("Make sure stack is empty and     *)
(* marks reset") unmarks nothing but the states on the stack.              *)
(***************************************************************************)
MarksOnPath ==
  \A s \in States : marks[s] # 0 =>
    \/ pc = "follow" /\ s = State
    \/ \E k \in DOMAIN searchstack : Line(searchstack[k].ptr).state_no = s

(***************************************************************************)
(* The flags always have the values that the flags on the path searched    *)
(* give them, whatever has been tried and taken back since (apply_net:     *)
(* "we can be sure to return to the previous global flag state by just     *)
(* remembering that last flag change").                                    *)
(***************************************************************************)
FlagsFollowPath ==
  LET after[n \in 0..Len(searchstack)] ==
        IF n = 0 THEN {NoFlags}
        ELSE UNION {PassFlag(symin(Path[n]), fl) : fl \in after[n - 1]}
  IN after[Len(searchstack)] = {flag_list}

(***************************************************************************)
(* The output is that of the path searched: nothing of a branch taken back *)
(* is left in it, and nothing is lost when a later call goes on.           *)
(***************************************************************************)
OutputIsPath ==
  LET out(n) == LET k == Path[n] IN
                IF mode # "words" /\ symout(k) = Identity
                THEN <<sigmatch(searchstack[n].ipos)>> ELSE Printed(k)
      written[n \in 0..Len(searchstack)] == IF n = 0 THEN <<>> ELSE written[n - 1] \o out(n)
  IN SubSeq(outstring, 1, opos) = written[Len(searchstack)]

(***************************************************************************)
(* No state is on the path more than twice with the same part of the word  *)
(* consumed (apply_mark_state: "If we enter the same state twice with the  *)
(* same number of input symbols consumed, we abandon the search").  It is  *)
(* what bounds a search through a loop that consumes nothing.              *)
(***************************************************************************)
AtMostTwice ==
  AtState =>
    \A s \in States, i \in 0..Len(word) :
      Cardinality({k \in DOMAIN searchstack : /\ Line(searchstack[k].ptr).state_no = s
                                              /\ searchstack[k].ipos = i})
        + (IF s = State /\ i = ipos THEN 1 ELSE 0) <= 2

\* Every loop of the machine that consumes nothing is at a single state.
SingleLoops ==
  \E f \in [States -> States] :
    \A k \in LineNo : /\ Line(k).target \notin {-1, Line(k).state_no}
                     /\ (mode = "words" \/ symin(k) = Epsilon \/ IsFlag(symin(k)))
                     => f[Line(k).state_no] < f[Line(k).target]

\* No loop of the machine consumes nothing.
LoopFree ==
  \E f \in [States -> States] :
    \A k \in LineNo : Line(k).target # -1 /\ (mode = "words" \/ symin(k) = Epsilon \/
                                              IsFlag(symin(k)))
                        => f[Line(k).state_no] < f[Line(k).target]

(***************************************************************************)
(* The handle has an index for the direction applied, or none at all, and  *)
(* none for apply_words, which would take the list of a symbol it reads    *)
(* from the word of an earlier call.  (Where the direction applied has     *)
(* none, apply_set_iptr leaves state_has_index as the other has set it.)   *)
(***************************************************************************)
Indexable ==
  /\ mode = "words" => Indexed = {}
  /\ Indexed = {} => net.index_in = {} /\ net.index_out = {}

(***************************************************************************)
(* The accepting paths: the lines followed from state 0, the symbols and   *)
(* flags of which let the word pass, to a final state and its end.  With   *)
(* no loop that consumes nothing none is longer than MaxPath.              *)
(***************************************************************************)
Further(r) ==
  UNION {{[path |-> Append(r.path, k), state |-> Line(k).target,
           ipos |-> r.ipos + MatchLength(symin(k), r.ipos), flags |-> fl]
           : fl \in PassFlag(symin(k), r.flags)}
         : k \in {m \in LineNo : /\ Line(m).state_no = r.state /\ Line(m).target # -1
                                 /\ MatchLength(symin(m), r.ipos) # -1}}

Accepts(r) ==
  /\ \E k \in LineNo : Line(k).state_no = r.state /\ Line(k).final_state
  /\ mode = "words" \/ r.ipos = Len(word)

MaxPath == (Len(word) + 1) * Cardinality(States)

AcceptingPaths ==
  LET runs[n \in 0..MaxPath] ==
        IF n = 0 THEN {[path |-> <<>>, state |-> 0, ipos |-> 0, flags |-> NoFlags]}
        ELSE UNION {Further(r) : r \in runs[n - 1]}
  IN UNION {{r.path : r \in {x \in runs[n] : Accepts(x)}} : n \in 0..MaxPath}

(***************************************************************************)
(* The results of a word, from the first to NULL, are the paths of the     *)
(* machine that accept it, each once, also when the word was begun while   *)
(* the results of another were not all asked for.                          *)
(***************************************************************************)
EveryPathOnce ==
  pc = "exhausted" /\ LoopFree /\ Indexable =>
    /\ ToSet(returned) = AcceptingPaths
    /\ Cardinality(ToSet(returned)) = Len(returned)

\* Every call returns, with a result or with NULL.
Returns == pc = "open" ~> pc \in {"result", "exhausted"}
=============================================================================
