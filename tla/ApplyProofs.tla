---------------------------- MODULE ApplyProofs ----------------------------
(***************************************************************************)
(* Proofs about Apply for machines and words of any size: however a search *)
(* is broken off, resumed and taken back, the flags, the output and the    *)
(* marks of the handle are those of the path it is on, the path goes round *)
(* no loop at one state for ever, and the results of a word are its        *)
(* accepting paths, each once.                                             *)
(***************************************************************************)
EXTENDS Apply, FiniteSetTheorems, WellFoundedInduction, TLAPS

\* The handle keeps the values of all flags, whatever these are.
IsValues(fl) == fl = [x \in FlagName |-> fl[x]]

\* The flags fl with the value saved put back, as apply_stack_pop does.
Undo(saved, fl) ==
  [x \in FlagName |-> IF \E v \in saved : v[1] = x THEN (CHOOSE v \in saved : TRUE)[2]
                      ELSE fl[x]]

\* What FollowArc saves before symbol a is passed.
Saved(a, fl) ==
  IF IsFlag(a) /\ Flag[a].type \in {"U", "C", "P", "N"}
  THEN {<<Flag[a].name, fl[Flag[a].name]>>} ELSE {}

\* symin of machine n in mode m.
SymIn(m, n, k) == IF m = "up" THEN n.lines[k + 1].out ELSE n.lines[k + 1].in

(***************************************************************************)
(* h gives the flags after each arc of the path st, which leads to fl; the *)
(* value saved with an arc undoes what it has done.                        *)
(***************************************************************************)
Passed(m, nt, st, h, n) ==
  /\ PassFlag(SymIn(m, nt, st[n].ptr), h[n - 1]) = {h[n]}
  /\ Undo(st[n].flag, h[n]) = h[n - 1]

FlagHistory(m, nt, st, fl, h) ==
  /\ h[0] = NoFlags
  /\ h[Len(st)] = fl
  /\ \A n \in 0..Len(st) : IsValues(h[n])
  /\ \A n \in 1..Len(st) : Passed(m, nt, st, h, n)

HasHistory(m, nt, st, fl) == \E h : FlagHistory(m, nt, st, fl, h)

AnyStack(st) == \E S : st \in Seq(S)

FlagInv == AnyStack(searchstack) /\ HasHistory(mode, net, searchstack, flag_list)

-----------------------------------------------------------------------------

(***************************************************************************)
(* Passing a symbol has at most one outcome, and what FollowArc saves      *)
(* before it is enough to undo it.                                         *)
(***************************************************************************)
LEMMA PassUndone ==
  ASSUME NEW a, NEW fl, IsValues(fl), NEW fl2 \in PassFlag(a, fl)
  PROVE  /\ PassFlag(a, fl) = {fl2}
         /\ IsValues(fl2)
         /\ Undo(Saved(a, fl), fl2) = fl
<1>1. CASE ~IsFlag(a)
  BY <1>1 DEF PassFlag, Undo, Saved, IsValues
<1>2. CASE IsFlag(a)
  <2> DEFINE f == Flag[a]
  <2>1. f.name \in FlagName
    BY <1>2 DEF FlagName, IsFlag
  <2>2. f.type \in {"U", "C", "D", "N", "P", "R", "E"}
    BY <1>2, ApplyAssumption DEF IsFlag
  <2>3. \A v, v2 \in CheckFlag(f, fl) : v = v2
    BY <2>2 DEF CheckFlag
  <2>4. f.type \notin {"U", "C", "P", "N"} => CheckFlag(f, fl) \subseteq {fl[f.name]}
    BY <2>2 DEF CheckFlag
  <2> HIDE DEF f
  <2>5. PICK v \in CheckFlag(f, fl) : fl2 = [fl EXCEPT ![f.name] = v]
    BY <1>2 DEF PassFlag, f
  <2>6. PassFlag(a, fl) = {fl2}
    BY <1>2, <2>3, <2>5 DEF PassFlag, f
  <2>7. /\ IsValues(fl2)
        /\ fl2[f.name] = v
        /\ \A x \in FlagName : x # f.name => fl2[x] = fl[x]
    BY <2>1, <2>5 DEF IsValues
  <2>8. Undo(Saved(a, fl), fl2) = fl
    <3>1. CASE f.type \in {"U", "C", "P", "N"}
      <4>1. Saved(a, fl) = {<<f.name, fl[f.name]>>}
        BY <1>2, <3>1 DEF Saved, f
      <4>2. PICK nm, old : nm = f.name /\ old = fl[f.name]
        OBVIOUS
      <4>3. (CHOOSE w \in {<<nm, old>>} : TRUE) = <<nm, old>>
        OBVIOUS
      <4>4. \A x : (\E w \in {<<nm, old>>} : w[1] = x) <=> x = nm
        OBVIOUS
      <4>5. Undo({<<nm, old>>}, fl2) = [x \in FlagName |-> IF x = nm THEN old ELSE fl2[x]]
        BY ONLY <4>3, <4>4 DEF Undo
      <4>6. \A x \in FlagName : (IF x = nm THEN old ELSE fl2[x]) = fl[x]
        BY <2>7, <4>2
      <4>7. Undo(Saved(a, fl), fl2) = [x \in FlagName |-> fl[x]]
        BY <4>1, <4>2, <4>5, <4>6
      <4> QED
        BY <4>7 DEF IsValues
    <3>2. CASE f.type \notin {"U", "C", "P", "N"}
      <4>1. Saved(a, fl) = {} /\ v = fl[f.name]
        BY <1>2, <2>4, <3>2 DEF Saved, f
      <4>2. Undo(Saved(a, fl), fl2) = [x \in FlagName |-> fl[x]]
        BY <2>7, <4>1 DEF Undo
      <4> QED
        BY <4>2 DEF IsValues
    <3> QED
      BY <3>1, <3>2
  <2> QED
    BY <2>6, <2>7, <2>8
<1> QED
  BY <1>1, <1>2

\* What is left of a stack when its top is popped.
LEMMA FrontType ==
  ASSUME NEW S, NEW st \in Seq(S), st # <<>>
  PROVE  /\ Front(st) \in Seq(S) /\ Len(Front(st)) = Len(st) - 1 /\ Len(st) \in Nat \ {0}
         /\ \A n \in 1..Len(Front(st)) : Front(st)[n] = st[n]
<1> DEFINE st2 == Front(st)
<1>1. Len(st) \in Nat \ {0}
  OBVIOUS
<1>2. st2 = [n \in 1..(Len(st) - 1) |-> st[n]]
  BY <1>1 DEF Front
<1> HIDE DEF st2
<1>3. Len(st) - 1 \in Nat /\ 1..(Len(st) - 1) \subseteq DOMAIN st /\ DOMAIN st = 1..Len(st)
  BY <1>1
<1>4. \A n \in 1..(Len(st) - 1) : st[n] \in S
  BY <1>3
<1>5. st2 \in [1..(Len(st) - 1) -> S]
  BY ONLY <1>2, <1>4
<1>6. /\ st2 \in Seq(S) /\ Len(st2) = Len(st) - 1
      /\ \A n \in 1..Len(st2) : st2[n] = st[n]
  BY <1>2, <1>3, <1>5
<1> QED
  BY ONLY <1>1, <1>6 DEF st2

\* No arc: no flag has a value.
LEMMA NoHistory ==
  ASSUME NEW m, NEW nt
  PROVE  HasHistory(m, nt, <<>>, NoFlags)
<1> DEFINE h == [n \in {0} |-> NoFlags]
<1>1. FlagHistory(m, nt, <<>>, NoFlags, h)
  BY DEF FlagHistory, IsValues, NoFlags
<1> QED
  BY <1>1 DEF HasHistory

\* An arc is followed: its entry records the line and what is saved.
LEMMA HistoryGrows ==
  ASSUME NEW m, NEW nt, NEW st, AnyStack(st), NEW fl, HasHistory(m, nt, st, fl),
         NEW e, NEW fl2 \in PassFlag(SymIn(m, nt, e.ptr), fl), e.flag = Saved(SymIn(m, nt, e.ptr), fl)
  PROVE  AnyStack(Append(st, e)) /\ HasHistory(m, nt, Append(st, e), fl2)
<1>1. PICK S : st \in Seq(S)
  BY DEF AnyStack
<1>2. PICK h : FlagHistory(m, nt, st, fl, h)
  BY DEF HasHistory
<1> DEFINE st2 == Append(st, e)
           h2 == [n \in 0..Len(st2) |-> IF n = Len(st2) THEN fl2 ELSE h[n]]
<1>3. /\ st2 \in Seq(S \cup {e}) /\ Len(st2) = Len(st) + 1 /\ Len(st) \in Nat
      /\ st2[Len(st2)] = e /\ \A n \in 1..Len(st) : st2[n] = st[n]
  <2>1. st \in Seq(S \cup {e})
    BY <1>1
  <2> QED
    BY <2>1
<1>4. IsValues(fl)
  BY <1>2, <1>3 DEF FlagHistory
<1>5. /\ PassFlag(SymIn(m, nt, e.ptr), fl) = {fl2} /\ IsValues(fl2) /\ Undo(e.flag, fl2) = fl
  BY <1>4, PassUndone
<1> HIDE DEF st2
<1>6. h2[0] = NoFlags /\ h2[Len(st2)] = fl2
  BY <1>2, <1>3 DEF FlagHistory
<1>7. \A n \in 0..Len(st) : h2[n] = h[n]
  BY <1>3
<1> HIDE DEF h2
<1>8. \A n \in 0..Len(st2) : IsValues(h2[n])
  BY <1>2, <1>3, <1>5, <1>6, <1>7 DEF FlagHistory
<1>9. ASSUME NEW n \in 1..Len(st2)
      PROVE  Passed(m, nt, st2, h2, n)
  <2>1. CASE n = Len(st2)
    <3>1. h2[n - 1] = fl /\ h2[n] = fl2 /\ st2[n] = e
      BY <1>2, <1>3, <1>6, <1>7, <2>1 DEF FlagHistory
    <3> QED
      BY ONLY <1>5, <3>1 DEF Passed
  <2>2. CASE n # Len(st2)
    <3>1. n \in 1..Len(st) /\ n - 1 \in 0..Len(st)
      BY <1>3, <2>2
    <3>2. Passed(m, nt, st, h, n)
      BY <1>2, <3>1 DEF FlagHistory
    <3>3. h2[n] = h[n] /\ h2[n - 1] = h[n - 1] /\ st2[n] = st[n]
      BY <1>3, <1>7, <3>1
    <3> QED
      BY ONLY <3>2, <3>3 DEF Passed
  <2> QED
    BY <2>1, <2>2
<1>10. FlagHistory(m, nt, st2, fl2, h2)
  BY <1>6, <1>8, <1>9 DEF FlagHistory
<1> QED
  BY <1>3, <1>10 DEF HasHistory, AnyStack, st2

\* The last arc is taken back, and the value saved with it put back.
LEMMA HistoryShrinks ==
  ASSUME NEW m, NEW nt, NEW st, AnyStack(st), st # <<>>, NEW fl, HasHistory(m, nt, st, fl)
  PROVE  AnyStack(Front(st)) /\ HasHistory(m, nt, Front(st), Undo(Last(st).flag, fl))
<1>1. PICK S : st \in Seq(S)
  BY DEF AnyStack
<1>2. PICK h : FlagHistory(m, nt, st, fl, h)
  BY DEF HasHistory
<1> DEFINE st2 == Front(st)
<1>3. /\ st2 \in Seq(S) /\ Len(st2) = Len(st) - 1 /\ Len(st) \in Nat \ {0}
      /\ \A n \in 1..Len(st2) : st2[n] = st[n]
  BY <1>1, FrontType
<1> HIDE DEF st2
<1>4. Undo(st[Len(st)].flag, fl) = h[Len(st2)]
  <2>1. Passed(m, nt, st, h, Len(st)) /\ h[Len(st)] = fl
    BY <1>2, <1>3 DEF FlagHistory
  <2> QED
    BY <2>1, <1>3 DEF Passed
<1>5. ASSUME NEW n \in 1..Len(st2)
      PROVE  Passed(m, nt, st2, h, n)
  <2>1. Passed(m, nt, st, h, n) /\ st2[n] = st[n]
    BY <1>2, <1>3 DEF FlagHistory
  <2> QED
    BY ONLY <2>1 DEF Passed
<1>6. \A n \in 0..Len(st2) : IsValues(h[n])
  BY <1>2, <1>3 DEF FlagHistory
<1>7. h[0] = NoFlags
  BY <1>2 DEF FlagHistory
<1>8. FlagHistory(m, nt, st2, Undo(st[Len(st)].flag, fl), h)
  BY <1>4, <1>5, <1>6, <1>7 DEF FlagHistory
<1> QED
  BY <1>3, <1>8 DEF HasHistory, AnyStack, st2, Last

-----------------------------------------------------------------------------

\* At first no flag is set and nothing is on the stack.
LEMMA InitFlags == Init => FlagInv
<1> SUFFICES ASSUME Init PROVE FlagInv
  OBVIOUS
<1>1. searchstack = <<>> /\ flag_list = NoFlags
  BY DEF Init
<1>2. <<>> \in Seq({})
  OBVIOUS
<1>3. HasHistory(mode, net, <<>>, NoFlags)
  BY NoHistory
<1> QED
  BY ONLY <1>1, <1>2, <1>3 DEF FlagInv, AnyStack

\* Every step keeps a history of the flags.
LEMMA NextFlags == FlagInv /\ [Next]_vars => FlagInv'
<1> SUFFICES ASSUME FlagInv, [Next]_vars
             PROVE  FlagInv'
  OBVIOUS
<1>0. AnyStack(searchstack) /\ HasHistory(mode, net, searchstack, flag_list)
  BY DEF FlagInv
<1>1. ASSUME NEW m \in Modes, NEW w \in Words, Start(m, w)
      PROVE  FlagInv'
  <2>1. searchstack' = <<>> /\ flag_list' = NoFlags
    BY <1>1 DEF Start
  <2>2. <<>> \in Seq({})
    OBVIOUS
  <2>3. HasHistory(mode', net', <<>>, NoFlags)
    BY NoHistory
  <2> QED
    BY ONLY <2>1, <2>2, <2>3 DEF FlagInv, AnyStack
<1>2. ASSUME NEW n \in NextArc, FollowArc(n)
      PROVE  FlagInv'
  <2> DEFINE k == Ahead[n]
             e == Pushed(n, Saved(symin(k), flag_list))
  <2>1. /\ searchstack' = Append(searchstack, e)
        /\ flag_list' \in PassFlag(symin(k), flag_list)
        /\ mode' = mode /\ net' = net
    BY <1>2 DEF FollowArc, Saved
  <2>2. e.ptr = k /\ e.flag = Saved(symin(k), flag_list)
    BY DEF Pushed
  <2>3. symin(k) = SymIn(mode, net, k)
    BY DEF symin, SymIn, Line
  <2> HIDE DEF k, e
  <2>4. e.flag = Saved(SymIn(mode, net, e.ptr), flag_list)
        /\ flag_list' \in PassFlag(SymIn(mode, net, e.ptr), flag_list)
    BY ONLY <2>1, <2>2, <2>3
  <2>5. /\ AnyStack(Append(searchstack, e))
        /\ HasHistory(mode, net, Append(searchstack, e), flag_list')
    BY ONLY <1>0, <2>4, ApplyAssumption, HistoryGrows
  <2> QED
    BY ONLY <2>1, <2>5 DEF FlagInv
<1>3. CASE Pop
  <2>1. /\ searchstack # <<>> /\ searchstack' = Front(searchstack)
        /\ flag_list' = Undo(Last(searchstack).flag, flag_list)
        /\ mode' = mode /\ net' = net
    BY <1>3 DEF Pop, Restored, Undo
  <2>2. /\ AnyStack(Front(searchstack))
        /\ HasHistory(mode, net, Front(searchstack), Undo(Last(searchstack).flag, flag_list))
    BY ONLY <1>0, <2>1, HistoryShrinks
  <2> QED
    BY ONLY <2>1, <2>2 DEF FlagInv
<1>4. CASE /\ searchstack' = searchstack /\ flag_list' = flag_list
           /\ mode' = mode /\ net' = net
  BY ONLY <1>0, <1>4 DEF FlagInv
<1>5. CASE Open
  BY <1>4, <1>5 DEF Open
<1>6. CASE Enter
  BY <1>4, <1>6 DEF Enter
<1>7. CASE MarkState
  BY <1>4, <1>7 DEF MarkState
<1>8. CASE NoArc
  BY <1>4, <1>8 DEF NoArc
<1>9. CASE Exhausted
  BY <1>4, <1>9 DEF Exhausted
<1>10. CASE Again
  BY <1>4, <1>10 DEF Again
<1>11. CASE Reset
  BY <1>4, <1>11 DEF Reset
<1>12. CASE UNCHANGED vars
  BY <1>4, <1>12 DEF vars
<1> QED
  BY <1>1, <1>2, <1>3, <1>5, <1>6, <1>7, <1>8, <1>9, <1>10, <1>11, <1>12 DEF Next, Search

-----------------------------------------------------------------------------

\* A set of naturals that is not empty has a least member.
LEMMA LeastOf ==
  ASSUME NEW M \in SUBSET Nat, M # {}
  PROVE  \E m \in M : \A n \in M : m <= n
<1>1. PICK m \in M : \A n \in M : ~(n < m)
  <2>1. IsWellFoundedOn(OpToRel(<, Nat), Nat)
    BY NatLessThanWellFounded, Zenon
  <2>2. PICK m \in M : \A n \in M : <<n, m>> \notin OpToRel(<, Nat)
    BY <2>1, WFMin, Zenon
  <2> QED
    BY <2>2 DEF OpToRel
<1> QED
  BY <1>1

(***************************************************************************)
(* The flags always have the values that the flags on the path give them:  *)
(* apply_net "can be sure to return to the previous global flag state by   *)
(* just remembering that last flag change".                                *)
(***************************************************************************)
THEOREM FlagsRight == Spec => []FlagsFollowPath
<1>1. FlagInv => FlagsFollowPath
  <2> SUFFICES ASSUME FlagInv
               PROVE  FlagsFollowPath
    OBVIOUS
  <2>1. PICK S, h : searchstack \in Seq(S) /\ FlagHistory(mode, net, searchstack, flag_list, h)
    BY DEF FlagInv, AnyStack, HasHistory
  <2>2. PICK L \in Nat : L = Len(searchstack)
    BY <2>1
  <2> DEFINE step(f, n) ==
               IF n = 0 THEN {NoFlags}
               ELSE UNION {PassFlag(symin(Path[n]), fl) : fl \in f[n - 1]}
             Rec(f) == f = [n \in 0..L |-> step(f, n)]
             g == [n \in 0..L |-> {h[n]}]
  <2>3. ASSUME NEW n \in 1..L
        PROVE  PassFlag(symin(Path[n]), h[n - 1]) = {h[n]}
    <3>1. Passed(mode, net, searchstack, h, n) /\ Path[n] = searchstack[n].ptr
      BY <2>1, <2>2 DEF FlagHistory, Path
    <3> QED
      BY ONLY <3>1 DEF Passed, symin, SymIn, Line
  <2>4. Rec(g)
    <3>1. \A n \in 0..L : step(g, n) = {h[n]}
      <4> TAKE n \in 0..L
      <4>1. CASE n = 0
        BY <4>1, <2>1 DEF FlagHistory
      <4>2. CASE n # 0
        <5>1. n \in 1..L /\ n - 1 \in 0..L
          BY <4>2, <2>2
        <5>2. g[n - 1] = {h[n - 1]}
          BY <5>1
        <5>3. step(g, n) = PassFlag(symin(Path[n]), h[n - 1])
          BY ONLY <4>2, <5>2
        <5> QED
          BY <2>3, <5>1, <5>3
      <4> QED
        BY <4>1, <4>2
    <3> QED
      BY ONLY <3>1
  <2>5. PICK after : after = CHOOSE f : Rec(f)
    OBVIOUS
  <2>6. Rec(after)
    <3> HIDE DEF Rec
    <3> QED
      BY <2>4, <2>5
  <2>7. \A n \in 0..L : after[n] = {h[n]}
    <3> DEFINE M == {n \in 0..L : after[n] # {h[n]}}
    <3> SUFFICES ASSUME M # {} PROVE FALSE
      OBVIOUS
    <3>1. PICK n \in M : \A m \in M : n <= m
      <4>1. M \in SUBSET Nat
        BY <2>2
      <4> HIDE DEF M
      <4> QED
        BY <4>1, LeastOf
    <3>2. n \in 0..L /\ after[n] = step(after, n) /\ after[n] # {h[n]}
      BY <2>6
    <3>3. CASE n = 0
      BY <2>1, <3>2, <3>3 DEF FlagHistory
    <3>4. CASE n # 0
      <4>1. n \in 1..L /\ n - 1 \in 0..L /\ ~(n <= n - 1)
        BY <2>2, <3>2, <3>4
      <4>2. after[n - 1] = {h[n - 1]}
        BY <3>1, <4>1
      <4>3. step(after, n) = PassFlag(symin(Path[n]), h[n - 1])
        BY ONLY <3>4, <4>2
      <4> QED
        BY <2>3, <3>2, <4>1, <4>3
    <3> QED
      BY <3>3, <3>4
  <2>8. after[L] = {flag_list}
    BY <2>1, <2>2, <2>7 DEF FlagHistory
  <2> QED
    BY ONLY <2>2, <2>5, <2>8 DEF FlagsFollowPath
<1> QED
  BY InitFlags, NextFlags, <1>1, PTL DEF Spec

-----------------------------------------------------------------------------

\* What apply_append writes for line k of machine n at position i of word w.
Shown(m, n, w, i, k) ==
  LET in  == SymIn(m, n, k)
      out == IF m = "up" THEN n.lines[k + 1].in ELSE n.lines[k + 1].out
  IN IF m = "words" THEN <<IF IsFlag(in) THEN Epsilon ELSE in,
                           IF IsFlag(out) THEN Epsilon ELSE out>>
     ELSE IF out = Epsilon \/ IsFlag(out) THEN <<>>
     ELSE IF out = Identity THEN <<w[i + 1]>>
     ELSE <<out>>

(***************************************************************************)
(* h gives what has been written before each arc of the path st: the entry *)
(* keeps its length, and out still holds it, whatever lies behind.         *)
(***************************************************************************)
Wrote(m, nt, w, st, h, n) ==
  /\ h[n] = h[n - 1] \o Shown(m, nt, w, st[n].ipos, st[n].ptr)
  /\ st[n].opos = Len(h[n - 1])

OutputHistory(m, nt, w, st, out, o, S, h) ==
  /\ out \in Seq(S) /\ o \in 0..Len(out)
  /\ \A n \in 0..Len(st) : h[n] \in Seq(S)
  /\ h[0] = <<>>
  /\ h[Len(st)] = SubSeq(out, 1, o)
  /\ \A n \in 1..Len(st) : Wrote(m, nt, w, st, h, n)

HasOutput(m, nt, w, st, out, o) == \E S, h : OutputHistory(m, nt, w, st, out, o, S, h)

OutputInv == AnyStack(searchstack) /\ HasOutput(mode, net, word, searchstack, outstring, opos)

-----------------------------------------------------------------------------

\* What an arc prints, as a sequence.
LEMMA ShownType ==
  ASSUME NEW m, NEW n, NEW w, NEW i, NEW k
  PROVE  \E S : Shown(m, n, w, i, k) \in Seq(S)
<1>1. \A x, y : <<>> \in Seq({x}) /\ <<x>> \in Seq({x}) /\ <<x, y>> \in Seq({x, y})
  OBVIOUS
<1> QED
  BY <1>1 DEF Shown

\* What is kept of the output when the last arc is taken back.
LEMMA PrefixKept ==
  ASSUME NEW S, NEW out \in Seq(S), NEW o \in 0..Len(out), NEW a \in Seq(S), NEW T, NEW b \in Seq(T),
         a \o b = SubSeq(out, 1, o)
  PROVE  SubSeq(out, 1, Len(a)) = a /\ Len(a) \in 0..Len(out)
<1>1. /\ Len(a) \in Nat /\ Len(b) \in Nat /\ Len(out) \in Nat
      /\ DOMAIN a = 1..Len(a)
  OBVIOUS
<1>2. Len(SubSeq(out, 1, o)) = o /\ \A i \in 1..o : SubSeq(out, 1, o)[i] = out[i]
  BY <1>1
<1>3. a \in Seq(S \cup T) /\ b \in Seq(S \cup T)
  OBVIOUS
<1>4. Len(a \o b) = Len(a) + Len(b) /\ \A i \in 1..Len(a) : (a \o b)[i] = a[i]
  BY <1>1, <1>3
<1>5. Len(a) \in 0..o
  BY <1>1, <1>2, <1>4
<1>6. \A i \in 1..Len(a) : out[i] = a[i]
  BY <1>1, <1>2, <1>4, <1>5
<1>7. /\ SubSeq(out, 1, Len(a)) \in Seq(S) /\ Len(SubSeq(out, 1, Len(a))) = Len(a)
      /\ \A i \in 1..Len(a) : SubSeq(out, 1, Len(a))[i] = out[i]
  BY <1>1, <1>5
<1> QED
  BY <1>1, <1>5, <1>6, <1>7

\* A new word: nothing is written yet, whatever the buffer holds.
LEMMA NoOutput ==
  ASSUME NEW m, NEW nt, NEW w, NEW S, NEW out \in Seq(S)
  PROVE  HasOutput(m, nt, w, <<>>, out, 0)
<1> DEFINE h == [n \in {0} |-> <<>>]
<1>1. SubSeq(out, 1, 0) = <<>> /\ 0 \in 0..Len(out) /\ Len(<<>>) = 0
  OBVIOUS
<1>2. h[0] = <<>> /\ <<>> \in Seq(S)
  OBVIOUS
<1> HIDE DEF h
<1>3. \A n \in 0..Len(<<>>) : n = 0
  BY <1>1
<1>4. \A n \in 1..Len(<<>>) : FALSE
  BY <1>1
<1>5. OutputHistory(m, nt, w, <<>>, out, 0, S, h)
  BY ONLY out \in Seq(S), <1>1, <1>2, <1>3, <1>4 DEF OutputHistory
<1> QED
  BY <1>5 DEF HasOutput

\* An arc is followed, and what it shows is written behind the output so far.
LEMMA OutputGrows ==
  ASSUME NEW m, NEW nt, NEW w, NEW st, AnyStack(st), NEW out, NEW o,
         HasOutput(m, nt, w, st, out, o),
         NEW e, e.opos = o, NEW s, s = Shown(m, nt, w, e.ipos, e.ptr)
  PROVE  /\ AnyStack(Append(st, e))
         /\ HasOutput(m, nt, w, Append(st, e), SubSeq(out, 1, o) \o s, o + Len(s))
<1>1. PICK T : st \in Seq(T)
  BY DEF AnyStack
<1>2. PICK S, h : OutputHistory(m, nt, w, st, out, o, S, h)
  BY DEF HasOutput
<1>3. PICK R : s \in Seq(R)
  BY ShownType
<1> DEFINE st2 == Append(st, e)
           out2 == SubSeq(out, 1, o) \o s
           h2 == [n \in 0..Len(st2) |-> IF n = Len(st2) THEN out2 ELSE h[n]]
<1>4. /\ st2 \in Seq(T \cup {e}) /\ Len(st2) = Len(st) + 1 /\ Len(st) \in Nat
      /\ st2[Len(st2)] = e /\ \A n \in 1..Len(st) : st2[n] = st[n]
  <2>1. st \in Seq(T \cup {e})
    BY <1>1
  <2> QED
    BY <2>1
<1>5. /\ out \in Seq(S) /\ o \in 0..Len(out) /\ Len(SubSeq(out, 1, o)) = o
      /\ h[Len(st)] = SubSeq(out, 1, o) /\ SubSeq(out, 1, o) \in Seq(S \cup R)
      /\ s \in Seq(S \cup R) /\ Len(s) \in Nat
  <2>1. out \in Seq(S) /\ o \in 0..Len(out) /\ h[Len(st)] = SubSeq(out, 1, o)
    BY <1>2 DEF OutputHistory
  <2>2. SubSeq(out, 1, o) \in Seq(S) /\ Len(SubSeq(out, 1, o)) = o
    BY <2>1
  <2> QED
    BY <1>3, <2>1, <2>2
<1>6. /\ out2 \in Seq(S \cup R) /\ Len(out2) = o + Len(s) /\ SubSeq(out2, 1, o + Len(s)) = out2
      /\ o + Len(s) \in 0..Len(out2)
  <2>1. out2 \in Seq(S \cup R) /\ Len(out2) = o + Len(s) /\ o \in Nat
    BY <1>5, SMTT(30)
  <2> HIDE DEF out2
  <2>2. \A q \in Seq(S \cup R) : SubSeq(q, 1, Len(q)) = q /\ Len(q) \in Nat
    OBVIOUS
  <2>3. Len(out2) \in 0..Len(out2)
    BY <2>1, <2>2
  <2> QED
    BY ONLY <2>1, <2>2, <2>3
<1>7. out2 = h[Len(st)] \o s
  BY <1>5
<1> HIDE DEF st2, out2
<1>8. h2[0] = <<>> /\ h2[Len(st2)] = out2
  BY <1>2, <1>4 DEF OutputHistory
<1>9. \A n \in 0..Len(st) : h2[n] = h[n]
  BY <1>4
<1> HIDE DEF h2
<1>10. \A n \in 0..Len(st2) : h2[n] \in Seq(S \cup R)
  <2>1. \A n \in 0..Len(st) : h[n] \in Seq(S)
    BY <1>2 DEF OutputHistory
  <2>2. \A n \in 0..Len(st) : h[n] \in Seq(S \cup R)
    BY <2>1
  <2> QED
    BY <1>4, <1>6, <1>8, <1>9, <2>2
<1>11. ASSUME NEW n \in 1..Len(st2)
       PROVE  Wrote(m, nt, w, st2, h2, n)
  <2>1. CASE n = Len(st2)
    <3>1. h2[n - 1] = h[Len(st)] /\ h2[n] = h[Len(st)] \o s /\ st2[n] = e /\ e.opos = Len(h[Len(st)])
      <4>1. n - 1 = Len(st) /\ n - 1 \in 0..Len(st)
        BY <1>4, <2>1
      <4>2. h2[n - 1] = h[Len(st)]
        BY ONLY <1>9, <4>1
      <4>3. e.opos = Len(h[Len(st)])
        BY ONLY <1>5, e.opos = o
      <4> QED
        BY ONLY <1>4, <1>7, <1>8, <2>1, <4>2, <4>3
    <3> QED
      BY ONLY <3>1, s = Shown(m, nt, w, e.ipos, e.ptr) DEF Wrote
  <2>2. CASE n # Len(st2)
    <3>1. n \in 1..Len(st) /\ n - 1 \in 0..Len(st) /\ n \in 0..Len(st)
      BY <1>4, <2>2
    <3>2. Wrote(m, nt, w, st, h, n)
      BY <1>2, <3>1 DEF OutputHistory
    <3>3. h2[n] = h[n] /\ h2[n - 1] = h[n - 1] /\ st2[n] = st[n]
      BY <1>4, <1>9, <3>1
    <3> QED
      BY ONLY <3>2, <3>3 DEF Wrote
  <2> QED
    BY <2>1, <2>2
<1>12. OutputHistory(m, nt, w, st2, out2, o + Len(s), S \cup R, h2)
  BY <1>6, <1>8, <1>10, <1>11 DEF OutputHistory
<1>13. AnyStack(st2) /\ HasOutput(m, nt, w, st2, out2, o + Len(s))
  BY <1>4, <1>12 DEF HasOutput, AnyStack
<1> QED
  BY ONLY <1>13 DEF st2, out2

\* The last arc is taken back: opos is put back, the buffer stays.
LEMMA OutputShrinks ==
  ASSUME NEW m, NEW nt, NEW w, NEW st, AnyStack(st), st # <<>>, NEW out, NEW o,
         HasOutput(m, nt, w, st, out, o)
  PROVE  AnyStack(Front(st)) /\ HasOutput(m, nt, w, Front(st), out, Last(st).opos)
<1>1. PICK T : st \in Seq(T)
  BY DEF AnyStack
<1>2. PICK S, h : OutputHistory(m, nt, w, st, out, o, S, h)
  BY DEF HasOutput
<1> DEFINE st2 == Front(st)
<1>3. /\ st2 \in Seq(T) /\ Len(st2) = Len(st) - 1 /\ Len(st) \in Nat \ {0}
      /\ \A n \in 1..Len(st2) : st2[n] = st[n]
  BY <1>1, FrontType
<1> HIDE DEF st2
<1>4. PICK a, s : /\ a = h[Len(st2)] /\ a \in Seq(S)
                  /\ s = Shown(m, nt, w, st[Len(st)].ipos, st[Len(st)].ptr)
                  /\ h[Len(st)] = a \o s
                  /\ st[Len(st)].opos = Len(a)
  <2>1. Wrote(m, nt, w, st, h, Len(st)) /\ h[Len(st2)] \in Seq(S) /\ Len(st2) = Len(st) - 1
    BY <1>2, <1>3 DEF OutputHistory
  <2> QED
    BY ONLY <2>1 DEF Wrote
<1>5. PICK R : s \in Seq(R)
  BY ONLY <1>4, ShownType
<1>6. out \in Seq(S) /\ o \in 0..Len(out) /\ a \o s = SubSeq(out, 1, o)
  BY ONLY <1>2, <1>4 DEF OutputHistory
<1>7. SubSeq(out, 1, Len(a)) = a /\ Len(a) \in 0..Len(out)
  <2>1. a \in Seq(S)
    BY ONLY <1>4
  <2> QED
    BY ONLY <1>5, <1>6, <2>1, PrefixKept
<1>8. ASSUME NEW n \in 1..Len(st2)
      PROVE  Wrote(m, nt, w, st2, h, n)
  <2>1. Wrote(m, nt, w, st, h, n) /\ st2[n] = st[n]
    BY <1>2, <1>3 DEF OutputHistory
  <2> QED
    BY ONLY <2>1 DEF Wrote
<1>9. \A n \in 0..Len(st2) : h[n] \in Seq(S)
  BY <1>2, <1>3 DEF OutputHistory
<1>10. h[0] = <<>>
  BY <1>2 DEF OutputHistory
<1>11. OutputHistory(m, nt, w, st2, out, Len(a), S, h)
  BY ONLY <1>4, <1>6, <1>7, <1>8, <1>9, <1>10 DEF OutputHistory
<1> QED
  BY ONLY <1>1, <1>3, <1>4, <1>11 DEF HasOutput, AnyStack, st2, Last

-----------------------------------------------------------------------------

\* At first nothing is written.
LEMMA InitOutput == Init => OutputInv
<1> SUFFICES ASSUME Init PROVE OutputInv
  OBVIOUS
<1>1. searchstack = <<>> /\ outstring = <<>> /\ opos = 0
  BY DEF Init
<1>2. <<>> \in Seq({})
  OBVIOUS
<1>3. HasOutput(mode, net, word, <<>>, <<>>, 0)
  BY <1>2, NoOutput
<1> QED
  BY ONLY <1>1, <1>2, <1>3 DEF OutputInv, AnyStack

\* Every step keeps the output that of the path.
LEMMA NextOutput == OutputInv /\ [Next]_vars => OutputInv'
<1> SUFFICES ASSUME OutputInv, [Next]_vars
             PROVE  OutputInv'
  OBVIOUS
<1>0. AnyStack(searchstack) /\ HasOutput(mode, net, word, searchstack, outstring, opos)
  BY DEF OutputInv
<1>1. ASSUME NEW m \in Modes, NEW w \in Words, Start(m, w)
      PROVE  OutputInv'
  <2>1. searchstack' = <<>> /\ opos' = 0 /\ outstring' = outstring
    BY <1>1 DEF Start
  <2>2. <<>> \in Seq({})
    OBVIOUS
  <2>3. PICK S : outstring \in Seq(S)
    BY <1>0 DEF HasOutput, OutputHistory
  <2>4. HasOutput(mode', net', word', <<>>, outstring, 0)
    BY ONLY <2>3, NoOutput
  <2> QED
    BY ONLY <2>1, <2>2, <2>4 DEF OutputInv, AnyStack
<1>2. ASSUME NEW n \in NextArc, FollowArc(n)
      PROVE  OutputInv'
  <2> DEFINE k == Ahead[n]
  <2>1. PICK e : /\ searchstack' = Append(searchstack, e)
                 /\ e.ptr = k /\ e.ipos = ipos /\ e.opos = opos
    BY <1>2 DEF FollowArc, Pushed
  <2>2. /\ outstring' = SubSeq(outstring, 1, opos) \o Printed(k)
        /\ opos' = opos + Len(Printed(k))
        /\ mode' = mode /\ net' = net /\ word' = word
    BY <1>2 DEF FollowArc, WriteAt
  <2> HIDE DEF k
  <2>3. Printed(k) = Shown(mode, net, word, ipos, k)
    BY DEF Printed, Shown, symin, symout, SymIn, Line, sigmatch
  <2>4. PICK s : s = Printed(k) /\ s = Shown(mode, net, word, e.ipos, e.ptr)
    BY ONLY <2>1, <2>3
  <2>5. /\ AnyStack(Append(searchstack, e))
        /\ HasOutput(mode, net, word, Append(searchstack, e),
                     SubSeq(outstring, 1, opos) \o s, opos + Len(s))
    BY ONLY <1>0, <2>1, <2>4, OutputGrows
  <2> QED
    BY ONLY <2>1, <2>2, <2>4, <2>5 DEF OutputInv
<1>3. CASE Pop
  <2>1. /\ searchstack # <<>> /\ searchstack' = Front(searchstack)
        /\ opos' = Last(searchstack).opos /\ outstring' = outstring
        /\ mode' = mode /\ net' = net /\ word' = word
    BY <1>3 DEF Pop
  <2>2. /\ AnyStack(Front(searchstack))
        /\ HasOutput(mode, net, word, Front(searchstack), outstring, Last(searchstack).opos)
    BY ONLY <1>0, <2>1, OutputShrinks
  <2> QED
    BY ONLY <2>1, <2>2 DEF OutputInv
<1>4. CASE /\ searchstack' = searchstack /\ outstring' = outstring /\ opos' = opos
           /\ mode' = mode /\ net' = net /\ word' = word
  BY ONLY <1>0, <1>4 DEF OutputInv
<1>5. CASE Open
  BY <1>4, <1>5 DEF Open
<1>6. CASE Enter
  BY <1>4, <1>6 DEF Enter
<1>7. CASE MarkState
  BY <1>4, <1>7 DEF MarkState
<1>8. CASE NoArc
  BY <1>4, <1>8 DEF NoArc
<1>9. CASE Exhausted
  BY <1>4, <1>9 DEF Exhausted
<1>10. CASE Again
  BY <1>4, <1>10 DEF Again
<1>11. CASE Reset
  BY <1>4, <1>11 DEF Reset
<1>12. CASE UNCHANGED vars
  BY <1>4, <1>12 DEF vars
<1> QED
  BY <1>1, <1>2, <1>3, <1>5, <1>6, <1>7, <1>8, <1>9, <1>10, <1>11, <1>12 DEF Next, Search

(***************************************************************************)
(* The output is that of the path searched: nothing of a branch taken back *)
(* is left in it, and nothing is lost when a later call goes on.           *)
(***************************************************************************)
THEOREM OutputRight == Spec => []OutputIsPath
<1>1. OutputInv => OutputIsPath
  <2> SUFFICES ASSUME OutputInv
               PROVE  OutputIsPath
    OBVIOUS
  <2>1. PICK T, S, h : /\ searchstack \in Seq(T)
                       /\ OutputHistory(mode, net, word, searchstack, outstring, opos, S, h)
    BY DEF OutputInv, AnyStack, HasOutput
  <2>2. PICK L \in Nat : L = Len(searchstack)
    BY <2>1
  <2> DEFINE out(n) == LET k == Path[n] IN
                       IF mode # "words" /\ symout(k) = Identity
                       THEN <<sigmatch(searchstack[n].ipos)>> ELSE Printed(k)
             step(f, n) == IF n = 0 THEN <<>> ELSE f[n - 1] \o out(n)
             Rec(f) == f = [n \in 0..L |-> step(f, n)]
             g == [n \in 0..L |-> h[n]]
  <2>3. ASSUME NEW n \in 1..L
        PROVE  h[n] = h[n - 1] \o out(n)
    <3>1. Wrote(mode, net, word, searchstack, h, n) /\ Path[n] = searchstack[n].ptr
      BY <2>1, <2>2 DEF OutputHistory, Path
    <3>2. PICK k, i : k = searchstack[n].ptr /\ i = searchstack[n].ipos
      OBVIOUS
    <3>3. out(n) = Shown(mode, net, word, i, k)
      <4>1. out(n) = IF mode # "words" /\ symout(k) = Identity
                     THEN <<sigmatch(i)>> ELSE Printed(k)
        BY ONLY <3>1, <3>2
      <4>2. ~IsFlag(Identity) /\ Identity # Epsilon
        BY ApplyAssumption DEF IsFlag, Identity, Epsilon
      <4> QED
        BY ONLY <4>1, <4>2 DEF Shown, Printed, symin, symout, SymIn, Line, sigmatch
    <3> QED
      BY ONLY <3>1, <3>2, <3>3 DEF Wrote
  <2> HIDE DEF out
  <2>4. Rec(g)
    <3>1. \A n \in 0..L : step(g, n) = h[n]
      <4> TAKE n \in 0..L
      <4>1. CASE n = 0
        BY <4>1, <2>1 DEF OutputHistory
      <4>2. CASE n # 0
        <5>1. n \in 1..L /\ n - 1 \in 0..L
          BY <4>2, <2>2
        <5>2. g[n - 1] = h[n - 1]
          BY <5>1
        <5> QED
          BY ONLY <2>3, <4>2, <5>1, <5>2
      <4> QED
        BY <4>1, <4>2
    <3> QED
      BY ONLY <3>1
  <2>5. PICK written : written = CHOOSE f : Rec(f)
    OBVIOUS
  <2>6. Rec(written)
    <3> HIDE DEF Rec
    <3> QED
      BY <2>4, <2>5
  <2>7. \A n \in 0..L : written[n] = h[n]
    <3> DEFINE M == {n \in 0..L : written[n] # h[n]}
    <3> SUFFICES ASSUME M # {} PROVE FALSE
      OBVIOUS
    <3>1. PICK n \in M : \A m \in M : n <= m
      <4>1. M \in SUBSET Nat
        BY <2>2
      <4> HIDE DEF M
      <4> QED
        BY <4>1, LeastOf
    <3>2. n \in 0..L /\ written[n] = step(written, n) /\ written[n] # h[n]
      BY <2>6
    <3>3. CASE n = 0
      BY <2>1, <3>2, <3>3 DEF OutputHistory
    <3>4. CASE n # 0
      <4>1. n \in 1..L /\ n - 1 \in 0..L /\ ~(n <= n - 1)
        BY <2>2, <3>2, <3>4
      <4>2. written[n - 1] = h[n - 1]
        BY <3>1, <4>1
      <4> QED
        BY ONLY <2>3, <3>2, <3>4, <4>1, <4>2
    <3> QED
      BY <3>3, <3>4
  <2>8. written[L] = SubSeq(outstring, 1, opos)
    BY <2>1, <2>2, <2>7 DEF OutputHistory
  <2> QED
    BY ONLY <2>2, <2>5, <2>8, Zenon DEF OutputIsPath, out
<1> QED
  BY InitOutput, NextOutput, <1>1, PTL DEF Spec

-----------------------------------------------------------------------------

\* The lines of machine n: state, target, whether it is final; the arcs of state s.
LinesIn(n) == 0..(Len(n.lines) - 2)
StateAt(n, k) == n.lines[k + 1].state_no
TargetOf(n, k) == n.lines[k + 1].target
FinalAt(n, k) == n.lines[k + 1].final_state
LinesOf(n, s) == {k \in LinesIn(n) : StateAt(n, k) = s /\ TargetOf(n, k) # -1}

\* A position left that an index has led to: the list kept begins with its line.
FrameOK(n, idx, f) ==
  f.has_index => idx # {} /\ f.iptr \in Seq(LinesOf(n, StateAt(n, f.ptr))) /\ f.iptr # <<>>

OnPath(n, st, s) == \E k \in DOMAIN st : StateAt(n, st[k].ptr) = s

\* While a state is searched by its index, the list ahead is of its lines.
IndexOK ==
  AtState /\ state_has_index => /\ iptr \in Seq(LinesOf(net, StateAt(net, ptr)))
                                /\ Indexed = {} => iptr = <<>>

MarksInv ==
  /\ net \in Nets
  /\ AnyStack(searchstack)
  /\ marks = [s \in States |-> marks[s]]
  /\ \A k \in DOMAIN searchstack : FrameOK(net, Indexed, searchstack[k])
  /\ IndexOK
  /\ pc = "open" => ptr = 0
  /\ \A s \in States : marks[s] # 0 => \/ pc = "follow" /\ s = StateAt(net, ptr)
                                       \/ OnPath(net, searchstack, s)

-----------------------------------------------------------------------------

(***************************************************************************)
(* The members of a finite set of numbers can be put in order: the place   *)
(* of each is how many are not above it.                                   *)
(***************************************************************************)
Increasing(q) == \A i, j \in DOMAIN q : i < j => q[i] < q[j]

\* InOrder puts a finite set of numbers into order.
LEMMA InOrderType ==
  ASSUME NEW S \in SUBSET Int, IsFiniteSet(S)
  PROVE  /\ InOrder(S) \in Seq(S) /\ Increasing(InOrder(S))
         /\ \A k \in S : \E i \in DOMAIN InOrder(S) : InOrder(S)[i] = k
<1> DEFINE n == Cardinality(S)
           upto(k) == {m \in S : m <= k}
           r == [k \in S |-> Cardinality(upto(k))]
           Sorted(q) == \A i, j \in DOMAIN q : i < j => q[i] < q[j]
<1>1. n \in Nat
  BY FS_CardinalityType
<1>2. \A k \in S : /\ upto(k) \subseteq S /\ k \in upto(k)
                   /\ IsFiniteSet(upto(k)) /\ Cardinality(upto(k)) \in 1..n
  <2> SUFFICES ASSUME NEW k \in S
               PROVE  /\ upto(k) \subseteq S /\ k \in upto(k)
                      /\ IsFiniteSet(upto(k)) /\ Cardinality(upto(k)) \in 1..n
    OBVIOUS
  <2>1. upto(k) \subseteq S /\ k \in upto(k)
    OBVIOUS
  <2> HIDE DEF upto
  <2>2. IsFiniteSet(upto(k)) /\ Cardinality(upto(k)) <= n
    BY <2>1, FS_Subset
  <2>3. Cardinality(upto(k)) \in Nat /\ Cardinality(upto(k)) # 0
    BY <2>1, <2>2, FS_CardinalityType, FS_EmptySet
  <2> QED
    BY <1>1, <2>1, <2>2, <2>3
<1>3. \A j, k \in S : j < k => r[j] < r[k]
  <2> SUFFICES ASSUME NEW j \in S, NEW k \in S, j < k
               PROVE  Cardinality(upto(j)) < Cardinality(upto(k))
    OBVIOUS
  <2>1. upto(j) \subseteq upto(k) /\ k \in upto(k) /\ k \notin upto(j)
    <3>1. j \in Int /\ k \in Int
      OBVIOUS
    <3>2. \A m \in Int : m <= j => m <= k
      BY ONLY <3>1, j < k
    <3>3. ~(k <= j) /\ k <= k
      BY ONLY <3>1, j < k
    <3>4. \A m \in S : m <= j => m <= k
      BY <3>2
    <3> QED
      BY ONLY <3>3, <3>4, k \in S
  <2>2. IsFiniteSet(upto(k)) /\ Cardinality(upto(k)) \in Nat /\ Cardinality(upto(j)) \in Nat
    BY <1>1, <1>2
  <2> HIDE DEF upto
  <2>3. Cardinality(upto(j)) <= Cardinality(upto(k))
        /\ (Cardinality(upto(j)) = Cardinality(upto(k)) => upto(j) = upto(k))
    BY <2>1, <2>2, FS_Subset
  <2> QED
    BY <2>1, <2>2, <2>3
<1>4. r \in [S -> 1..n]
  BY <1>2
<1> HIDE DEF upto, r
<1>5. \A j, k \in S : r[j] = r[k] => j = k
  BY <1>1, <1>3, <1>4
<1>6. \A i \in 1..n : \E k \in S : r[k] = i
  <2>1. r \in Injection(S, 1..n)
    BY <1>4, <1>5 DEF Injection, IsInjective
  <2>2. IsFiniteSet(1..n) /\ Cardinality(1..n) = n
    BY <1>1, FS_Interval
  <2>3. r \in Surjection(S, 1..n)
    BY <2>1, <2>2, FS_Injection
  <2> QED
    BY <2>3 DEF Surjection
<1> DEFINE q0 == [i \in 1..n |-> CHOOSE k \in S : r[k] = i]
<1>7. \A i \in 1..n : q0[i] \in S /\ r[q0[i]] = i
  BY <1>6
<1>8. q0 \in [1..n -> S] /\ DOMAIN q0 = 1..n
  BY <1>7
<1> HIDE DEF q0
<1>9. Sorted(q0)
  <2> SUFFICES ASSUME NEW i \in 1..n, NEW j \in 1..n, i < j
               PROVE  q0[i] < q0[j]
    BY <1>8
  <2>1. q0[i] \in S /\ q0[j] \in S /\ r[q0[i]] = i /\ r[q0[j]] = j
    BY <1>7
  <2>2. i \in Int /\ j \in Int /\ ~(j < i) /\ ~(j = i) /\ q0[i] \in Int /\ q0[j] \in Int
    <3>1. i \in Int /\ j \in Int
      BY <1>1
    <3>2. q0[i] \in Int /\ q0[j] \in Int
      BY <2>1
    <3>3. ~(j < i) /\ ~(j = i)
      BY ONLY <3>1, i < j
    <3> QED
      BY ONLY <3>1, <3>2, <3>3
  <2>3. ~(q0[j] < q0[i])
    BY ONLY <1>3, <2>1, <2>2
  <2>4. q0[j] # q0[i]
    BY ONLY <2>1, <2>2
  <2> QED
    BY ONLY <2>2, <2>3, <2>4
<1> HIDE DEF Sorted
<1>10. InOrder(S) = CHOOSE q \in [1..n -> S] : Sorted(q)
  BY DEF InOrder, Sorted
<1>11. PICK q : q = InOrder(S) /\ q \in [1..n -> S] /\ Sorted(q)
  BY <1>8, <1>9, <1>10
<1>12. q \in Seq(S) /\ DOMAIN q = 1..n
  BY <1>1, <1>11
<1>13. \A i, j \in 1..n : q[i] = q[j] => i = j
  <2> SUFFICES ASSUME NEW i \in 1..n, NEW j \in 1..n, q[i] = q[j]
               PROVE  i = j
    OBVIOUS
  <2>1. i \in Int /\ j \in Int /\ q[i] \in Int
    <3>1. i \in Int /\ j \in Int
      BY <1>1
    <3>2. q[i] \in S
      BY ONLY <1>11, i \in 1..n
    <3> QED
      BY <3>1, <3>2
  <2>2. ~(i < j) /\ ~(j < i)
    BY <1>11, <1>12, <2>1 DEF Sorted
  <2> QED
    BY ONLY <2>1, <2>2
<1>14. \A k \in S : \E i \in 1..n : q[i] = k
  <2>1. q \in Injection(1..n, S)
    BY <1>11, <1>13 DEF Injection, IsInjective
  <2>2. IsFiniteSet(1..n) /\ Cardinality(1..n) = n
    BY <1>1, FS_Interval
  <2>3. q \in Surjection(1..n, S)
    BY <2>1, <2>2, FS_Injection
  <2> QED
    BY <2>3 DEF Surjection
<1> QED
  BY <1>11, <1>12, <1>14 DEF Sorted, Increasing

\* So it does with lines.
LEMMA LinesFinite ==
  ASSUME net \in Nets, NEW S \in SUBSET LineNo
  PROVE  /\ InOrder(S) \in Seq(S) /\ Increasing(InOrder(S))
         /\ \A k \in S : \E i \in DOMAIN InOrder(S) : InOrder(S)[i] = k
<1>1. Len(net.lines) \in Nat
  BY ApplyAssumption
<1>2. PICK i, j : i = 0 /\ j = Len(net.lines) - 2 /\ i \in Int /\ j \in Int
  BY <1>1
<1>3. IsFiniteSet(i..j)
  BY <1>2, FS_Interval
<1>4. LineNo \in SUBSET Int /\ IsFiniteSet(LineNo)
  BY <1>2, <1>3 DEF LineNo
<1>5. S \in SUBSET Int /\ IsFiniteSet(S)
  BY <1>4, FS_Subset
<1> QED
  BY <1>5, InOrderType

\* Every list of an index has lines of its state only.
LEMMA IndexListType ==
  ASSUME net \in Nets, NEW s, NEW a
  PROVE  IndexList(s, a) \in Seq(LinesOf(net, s))
<1> DEFINE of(b) == {k \in LineNo : /\ Line(k).state_no = s
                                    /\ Line(k).target # -1
                                    /\ IndexSymbol(symin(k)) = b}
           own(b) == InOrder(of(b))
           list(b) == IF own(b) = <<>> THEN <<>> ELSE <<Head(own(b))>> \o Reverse(Tail(own(b)))
<1>1. \A q \in Seq(LinesOf(net, s)) : Reverse(q) \in Seq(LinesOf(net, s))
  <2> SUFFICES ASSUME NEW q \in Seq(LinesOf(net, s))
               PROVE  Reverse(q) \in Seq(LinesOf(net, s))
    OBVIOUS
  <2>1. \A i \in 1..Len(q) : Len(q) - i + 1 \in 1..Len(q) /\ q[Len(q) - i + 1] \in LinesOf(net, s)
    OBVIOUS
  <2>2. Reverse(q) \in [1..Len(q) -> LinesOf(net, s)]
    BY <2>1 DEF Reverse
  <2> QED
    BY <2>2
<1>2. ASSUME NEW b
      PROVE  list(b) \in Seq(LinesOf(net, s))
  <2>1. of(b) \in SUBSET LineNo /\ of(b) \in SUBSET LinesOf(net, s)
    BY DEF LinesOf, LinesIn, LineNo, Line, StateAt, TargetOf
  <2> HIDE DEF of
  <2>2. own(b) \in Seq(LinesOf(net, s))
    BY <2>1, LinesFinite
  <2> HIDE DEF own
  <2>3. CASE own(b) = <<>>
    BY <2>3
  <2>4. CASE own(b) # <<>>
    <3>1. <<Head(own(b))>> \in Seq(LinesOf(net, s)) /\ Tail(own(b)) \in Seq(LinesOf(net, s))
      BY <2>2, <2>4
    <3>2. Reverse(Tail(own(b))) \in Seq(LinesOf(net, s))
      BY <1>1, <3>1
    <3>3. list(b) = <<Head(own(b))>> \o Reverse(Tail(own(b)))
      BY <2>4
    <3> QED
      BY ONLY <3>1, <3>2, <3>3
  <2> QED
    BY <2>3, <2>4
<1>3. IndexList(s, a) = IF a = Epsilon THEN list(Epsilon) ELSE list(a) \o list(Epsilon)
  BY DEF IndexList
<1> HIDE DEF list
<1> QED
  BY <1>2, <1>3

\* apply_set_iptr leaves the list of the state it is called for.
LEMMA SetIptrType ==
  ASSUME net \in Nets, net' = net, mode' = mode, NEW k, NEW i, SetIptr(k, i), Indexed # {}
  PROVE  state_has_index' => iptr' \in Seq(LinesOf(net, StateAt(net, k)))
<1>1. CASE Line(k).state_no \notin Indexed
  BY <1>1 DEF SetIptr
<1>2. CASE Line(k).state_no \in Indexed
  BY <1>2, IndexListType DEF SetIptr, Line, StateAt
<1> QED
  BY <1>1, <1>2

\* What is tried next is a line of the state at hand.
LEMMA AheadType ==
  ASSUME MarksInv, pc = "follow"
  PROVE  Ahead \in Seq(LinesOf(net, State))
<1>1. CASE state_has_index
  BY <1>1 DEF MarksInv, IndexOK, AtState, Ahead, State, Line, StateAt
<1>2. CASE ~state_has_index
  <2> DEFINE S == {k \in LineNo : k >= ptr /\ Line(k).state_no = State /\ Line(k).target # -1}
  <2>1. S \in SUBSET LineNo /\ S \in SUBSET LinesOf(net, State)
    BY DEF LinesOf, LinesIn, LineNo, Line, StateAt, TargetOf
  <2>2. Ahead = InOrder(S)
    BY <1>2 DEF Ahead
  <2> HIDE DEF S
  <2>3. Ahead \in Seq(S)
    BY <2>1, <2>2, LinesFinite DEF MarksInv
  <2> QED
    BY <2>1, <2>3
<1> QED
  BY <1>1, <1>2

-----------------------------------------------------------------------------

\* At first nothing is marked.
LEMMA InitMarks == Init => MarksInv
<1> SUFFICES ASSUME Init PROVE MarksInv
  OBVIOUS
<1>1. /\ net \in Nets /\ searchstack = <<>> /\ marks = [s \in States |-> 0]
      /\ state_has_index = FALSE /\ ptr = 0
  BY DEF Init
<1>2. AnyStack(searchstack)
  <2>1. <<>> \in Seq({})
    OBVIOUS
  <2> QED
    BY <1>1, <2>1 DEF AnyStack
<1> QED
  BY <1>1, <1>2 DEF MarksInv, IndexOK

\* A new word: all that was marked has been on the stack, or nothing was.
LEMMA StartMarks ==
  ASSUME MarksInv, NEW m \in Modes, NEW w \in Words, Start(m, w)
  PROVE  MarksInv'
<1> DEFINE path == {Line(searchstack[k].ptr).state_no : k \in DOMAIN searchstack} \cup {State}
<1>1. /\ pc # "follow" /\ net' = net /\ searchstack' = <<>> /\ pc' = "open" /\ ptr' = 0
      /\ marks' = IF searchstack = <<>> THEN marks
                  ELSE [s \in States |-> IF s \in path THEN 0 ELSE marks[s]]
  BY DEF Start
<1>2. \A s \in States : marks[s] # 0 => OnPath(net, searchstack, s)
  BY <1>1 DEF MarksInv
<1>3. States' = States
  BY <1>1 DEF States, LineNo, Line
<1>4. \A s \in States : marks'[s] = 0
  <2>1. CASE searchstack = <<>>
    <3>1. \A s \in States : ~OnPath(net, searchstack, s)
      BY <2>1 DEF OnPath
    <3> QED
      BY <1>1, <1>2, <2>1, <3>1
  <2>2. CASE searchstack # <<>>
    <3>1. \A s : OnPath(net, searchstack, s) => s \in path
      BY DEF OnPath, StateAt, Line
    <3> HIDE DEF path
    <3> QED
      BY <1>1, <1>2, <2>2, <3>1
  <2> QED
    BY <2>1, <2>2
<1>5. marks' = [s \in States' |-> marks'[s]]
  <2> HIDE DEF path
  <2>1. marks = [s \in States |-> marks[s]]
    BY DEF MarksInv
  <2> QED
    BY <1>1, <1>3, <2>1
<1>6. AnyStack(<<>>) /\ DOMAIN <<>> = {}
  <2>1. <<>> \in Seq({})
    OBVIOUS
  <2> QED
    BY <2>1 DEF AnyStack
<1>7. (AnyStack(searchstack))'
  BY <1>1, <1>6 DEF AnyStack
<1>8. IndexOK' /\ net' \in Nets /\ \A k \in DOMAIN searchstack' : FALSE
  BY <1>1, <1>6 DEF IndexOK, AtState, MarksInv
<1> QED
  BY <1>1, <1>3, <1>4, <1>5, <1>7, <1>8 DEF MarksInv

\* The lines and their states stay as they are while net and mode do.
LEMMA SameLines ==
  ASSUME net' = net, mode' = mode
  PROVE  States' = States /\ Indexed' = Indexed
BY DEF States, Indexed, LineNo, Line

\* A line is followed: its state goes on the path with the mark it has.
LEMMA FollowMarks ==
  ASSUME MarksInv, NEW n \in NextArc, FollowArc(n)
  PROVE  MarksInv'
<1> DEFINE k == Ahead[n]
<1>1. PICK e : /\ searchstack' = Append(searchstack, e)
               /\ e.ptr = k /\ e.has_index = state_has_index
               /\ e.iptr = IF state_has_index THEN SubSeq(iptr, n, Len(iptr)) ELSE iptr
  <2>1. \E saved : searchstack' = Append(searchstack, Pushed(n, saved))
    BY DEF FollowArc
  <2>2. \A saved : LET f == Pushed(n, saved) IN
          /\ f.ptr = k /\ f.has_index = state_has_index
          /\ f.iptr = IF state_has_index THEN SubSeq(iptr, n, Len(iptr)) ELSE iptr
    BY DEF Pushed
  <2> QED
    BY <2>1, <2>2
<1>2. /\ pc = "follow" /\ pc' = "enter" /\ net' = net /\ mode' = mode /\ marks' = marks
      /\ SetIptr(ptr', ipos') /\ n \in DOMAIN Ahead
  BY DEF FollowArc, NextArc
<1>3. Ahead \in Seq(LinesOf(net, State)) /\ k \in LinesOf(net, State) /\ n \in 1..Len(Ahead)
  <2>1. Ahead \in Seq(LinesOf(net, State))
    BY <1>2, AheadType
  <2> QED
    BY <1>2, <2>1
<1>4. StateAt(net, k) = State /\ State = StateAt(net, ptr)
  BY <1>3 DEF LinesOf, State, StateAt, Line
<1> HIDE DEF k
<1>5. PICK S : searchstack \in Seq(S)
  BY DEF MarksInv, AnyStack
<1>6. /\ searchstack' \in Seq(S \cup {e})
      /\ DOMAIN searchstack' = DOMAIN searchstack \cup {Len(searchstack) + 1}
      /\ searchstack'[Len(searchstack) + 1] = e
      /\ \A i \in DOMAIN searchstack : searchstack'[i] = searchstack[i]
  <2>1. searchstack \in Seq(S \cup {e})
    BY <1>5
  <2> QED
    BY <1>1, <2>1
<1>7. FrameOK(net, Indexed, e)
  <2>1. CASE state_has_index
    <3>1. Ahead = iptr
      BY <2>1 DEF Ahead
    <3>2. Indexed # {}
      BY <1>2, <1>3, <2>1, <3>1 DEF MarksInv, IndexOK, AtState
    <3>3. \A X : \A q \in Seq(X) : \A i \in 1..Len(q) :
            SubSeq(q, i, Len(q)) \in Seq(X) /\ Len(SubSeq(q, i, Len(q))) = Len(q) - i + 1
      OBVIOUS
    <3>4. SubSeq(iptr, n, Len(iptr)) \in Seq(LinesOf(net, State))
          /\ Len(SubSeq(iptr, n, Len(iptr))) = Len(iptr) - n + 1
      BY ONLY <1>3, <3>1, <3>3
    <3>5. e.iptr = SubSeq(iptr, n, Len(iptr)) /\ Len(iptr) \in Nat /\ n \in 1..Len(iptr)
      BY <1>1, <1>3, <2>1, <3>1
    <3>6. Len(e.iptr) # 0 /\ Len(<<>>) = 0
      BY ONLY <3>4, <3>5
    <3>7. e.iptr \in Seq(LinesOf(net, State)) /\ e.iptr # <<>>
      BY ONLY <3>4, <3>5, <3>6
    <3> QED
      BY ONLY <1>1, <1>4, <3>2, <3>7 DEF FrameOK
  <2>2. CASE ~state_has_index
    BY ONLY <1>1, <2>2 DEF FrameOK
  <2> QED
    BY <2>1, <2>2
<1>8. States' = States /\ Indexed' = Indexed
  BY <1>2, SameLines
<1>9. ASSUME NEW i \in DOMAIN searchstack'
      PROVE  FrameOK(net', Indexed', searchstack'[i])
  <2>1. CASE i \in DOMAIN searchstack
    BY <1>2, <1>6, <1>8, <2>1 DEF MarksInv
  <2>2. CASE i = Len(searchstack) + 1
    BY ONLY <1>2, <1>6, <1>7, <1>8, <2>2
  <2> QED
    BY <1>6, <2>1, <2>2
<1>10. IndexOK'
  <2> SUFFICES ASSUME state_has_index'
               PROVE  /\ iptr' \in Seq(LinesOf(net', StateAt(net', ptr')))
                      /\ Indexed' = {} => iptr' = <<>>
    BY DEF IndexOK
  <2>1. CASE Indexed # {}
    <3>1. iptr' \in Seq(LinesOf(net, StateAt(net, ptr')))
      BY <1>2, <2>1, SetIptrType DEF MarksInv
    <3> QED
      BY ONLY <1>2, <1>8, <2>1, <3>1
  <2>2. CASE Indexed = {}
    <3>1. iptr' = iptr /\ state_has_index
      BY <1>2, <2>2 DEF SetIptr
    <3>2. iptr = <<>>
      BY <1>2, <2>2, <3>1 DEF MarksInv, IndexOK, AtState
    <3> QED
      BY <3>1, <3>2
  <2> QED
    BY <2>1, <2>2
<1>11. ASSUME NEW s \in States, marks[s] # 0
       PROVE  OnPath(net', searchstack', s)
  <2>1. CASE s = StateAt(net, ptr)
    <3>1. StateAt(net', searchstack'[Len(searchstack) + 1].ptr) = s
      BY ONLY <1>1, <1>2, <1>4, <1>6, <2>1
    <3> QED
      BY ONLY <1>6, <3>1 DEF OnPath
  <2>2. CASE OnPath(net, searchstack, s)
    BY ONLY <1>2, <1>6, <2>2 DEF OnPath
  <2> QED
    BY <1>11, <2>1, <2>2 DEF MarksInv
<1>12. AnyStack(searchstack')
  BY <1>6 DEF AnyStack
<1>13. net' \in Nets /\ marks' = [s \in States' |-> marks'[s]]
  BY <1>2, <1>8 DEF MarksInv
<1>14. \A s \in States' : marks'[s] # 0 => OnPath(net', searchstack', s)
  BY ONLY <1>2, <1>8, <1>11
<1> QED
  BY ONLY <1>2, <1>9, <1>10, <1>12, <1>13, <1>14 DEF MarksInv

\* A position is taken back: its state is unmarked, or tried on with its old mark.
LEMMA PopMarks ==
  ASSUME MarksInv, Pop
  PROVE  MarksInv'
<1>1. PICK f : f = Last(searchstack)
  OBVIOUS
<1>2. /\ pc = "pop" /\ searchstack # <<>> /\ searchstack' = Front(searchstack)
      /\ net' = net /\ mode' = mode /\ state_has_index' = f.has_index
  BY <1>1 DEF Pop
<1>3. \/ /\ marks' = [marks EXCEPT ![StateAt(net, f.ptr)] = 0] /\ pc' = "pop"
      \/ /\ marks' = [marks EXCEPT ![StateAt(net, f.ptr)] = f.mark] /\ pc' = "follow"
         /\ StateAt(net, ptr') = StateAt(net, f.ptr)
         /\ f.has_index => iptr' = Tail(f.iptr)
  <2>1. CASE AtLastArc(f)
    BY <1>1, <1>2, <2>1 DEF Pop, StateAt, Line
  <2>2. CASE ~AtLastArc(f)
    <3>1. /\ marks' = [marks EXCEPT ![StateAt(net, f.ptr)] = f.mark] /\ pc' = "follow"
          /\ ptr' = IF f.has_index THEN f.ptr ELSE f.ptr + 1
          /\ f.has_index => iptr' = Tail(f.iptr)
      BY <1>1, <2>2 DEF Pop, StateAt, Line
    <3>2. ~f.has_index => StateAt(net, f.ptr + 1) = StateAt(net, f.ptr)
      BY <2>2 DEF AtLastArc, StateAt, Line
    <3> QED
      BY ONLY <3>1, <3>2
  <2> QED
    BY <2>1, <2>2
<1>4. PICK S : searchstack \in Seq(S)
  BY DEF MarksInv, AnyStack
<1>5. /\ searchstack' \in Seq(S)
      /\ DOMAIN searchstack = DOMAIN searchstack' \cup {Len(searchstack)}
      /\ searchstack[Len(searchstack)] = f
      /\ \A i \in DOMAIN searchstack' : searchstack'[i] = searchstack[i]
  <2>1. /\ searchstack' \in Seq(S) /\ Len(searchstack') = Len(searchstack) - 1
        /\ Len(searchstack) \in Nat \ {0}
        /\ \A i \in 1..Len(searchstack') : searchstack'[i] = searchstack[i]
    BY <1>2, <1>4, FrontType
  <2>2. DOMAIN searchstack = 1..Len(searchstack) /\ DOMAIN searchstack' = 1..Len(searchstack')
    BY <1>4, <2>1
  <2> QED
    BY <1>1, <2>1, <2>2 DEF Last
<1>6. States' = States /\ Indexed' = Indexed
  BY <1>2, SameLines
<1>0. \A i \in DOMAIN searchstack : FrameOK(net, Indexed, searchstack[i])
  BY DEF MarksInv
<1>7. FrameOK(net, Indexed, f)
  BY ONLY <1>0, <1>5, Zenon
<1>8. \A i \in DOMAIN searchstack' : FrameOK(net', Indexed', searchstack'[i])
  BY ONLY <1>0, <1>2, <1>5, <1>6, Zenon
<1>9. IndexOK'
  <2> SUFFICES ASSUME pc' = "follow", f.has_index
               PROVE  /\ iptr' \in Seq(LinesOf(net', StateAt(net', ptr')))
                      /\ Indexed' = {} => iptr' = <<>>
    BY <1>2, <1>3 DEF IndexOK, AtState
  <2>1. StateAt(net, ptr') = StateAt(net, f.ptr) /\ iptr' = Tail(f.iptr)
    BY <1>3
  <2>2. Indexed # {} /\ f.iptr \in Seq(LinesOf(net, StateAt(net, f.ptr))) /\ f.iptr # <<>>
    BY <1>7 DEF FrameOK
  <2>3. \A X : \A q \in Seq(X) : q # <<>> => Tail(q) \in Seq(X)
    OBVIOUS
  <2>4. Tail(f.iptr) \in Seq(LinesOf(net, StateAt(net, f.ptr)))
    BY ONLY <2>2, <2>3
  <2> QED
    BY ONLY <1>2, <1>6, <2>1, <2>2, <2>4
<1>10. ASSUME NEW s \in States, marks'[s] # 0
       PROVE  \/ pc' = "follow" /\ s = StateAt(net', ptr')
              \/ OnPath(net', searchstack', s)
  <2>1. marks = [x \in States |-> marks[x]]
    BY DEF MarksInv
  <2>2. CASE s = StateAt(net, f.ptr)
    <3>1. pc' = "follow" /\ StateAt(net, ptr') = StateAt(net, f.ptr)
      BY <1>3, <1>10, <2>1, <2>2
    <3> QED
      BY ONLY <1>2, <2>2, <3>1
  <2>3. CASE s # StateAt(net, f.ptr)
    <3>1. marks[s] # 0
      BY <1>3, <1>10, <2>1, <2>3
    <3>2. OnPath(net, searchstack, s)
      BY <1>2, <3>1 DEF MarksInv
    <3>3. OnPath(net, searchstack', s)
      BY ONLY <1>5, <2>3, <3>2, Zenon DEF OnPath
    <3> QED
      BY <1>2, <3>3
  <2> QED
    BY <2>2, <2>3
<1>11. AnyStack(searchstack')
  BY <1>5 DEF AnyStack
<1>12. net' \in Nets /\ marks' = [s \in States' |-> marks'[s]]
  <2>1. net \in Nets /\ marks = [x \in States |-> marks[x]]
    BY DEF MarksInv
  <2> QED
    BY <1>2, <1>3, <1>6, <2>1
<1> QED
  BY ONLY <1>3, <1>6, <1>8, <1>9, <1>10, <1>11, <1>12 DEF MarksInv

\* The marks of other states, the stack and the lists ahead are left alone.
LEMMA LocalMarks ==
  ASSUME MarksInv, net' = net, mode' = mode, searchstack' = searchstack,
         ptr' = ptr, pc' # "open",
         marks' = [s \in States |-> marks'[s]],
         \A s \in States : marks'[s] # 0 => \/ marks[s] # 0 /\ (pc = "follow" => pc' = "follow")
                                            \/ pc' = "follow" /\ s = StateAt(net, ptr)
                                            \/ OnPath(net, searchstack, s),
         IndexOK'
  PROVE  MarksInv'
<1>1. States' = States /\ Indexed' = Indexed
  BY SameLines
<1>2. AnyStack(searchstack') /\ net' \in Nets
      /\ \A k \in DOMAIN searchstack' : FrameOK(net', Indexed', searchstack'[k])
  BY <1>1 DEF MarksInv
<1>3. \A s \in States' : marks'[s] # 0 => \/ pc' = "follow" /\ s = StateAt(net', ptr')
                                          \/ OnPath(net', searchstack', s)
  <2>1. \A s \in States : marks[s] # 0 => \/ pc = "follow" /\ s = StateAt(net, ptr)
                                          \/ OnPath(net, searchstack, s)
    BY DEF MarksInv
  <2> QED
    BY <1>1, <2>1
<1> QED
  BY <1>1, <1>2, <1>3 DEF MarksInv

\* Every step keeps the marks on the path.
LEMMA NextMarks == MarksInv /\ [Next]_vars => MarksInv'
<1> SUFFICES ASSUME MarksInv, [Next]_vars
             PROVE  MarksInv'
  OBVIOUS
<1>0. /\ marks = [s \in States |-> marks[s]] /\ IndexOK
      /\ \A s \in States : marks[s] # 0 => \/ pc = "follow" /\ s = StateAt(net, ptr)
                                           \/ OnPath(net, searchstack, s)
  BY DEF MarksInv
<1>1. ASSUME NEW m \in Modes, NEW w \in Words, Start(m, w)
      PROVE  MarksInv'
  BY <1>1, StartMarks
<1>2. ASSUME NEW n \in NextArc, FollowArc(n)
      PROVE  MarksInv'
  BY <1>2, FollowMarks
<1>3. CASE Pop
  BY <1>3, PopMarks
<1>4. CASE Open
  <2>1. /\ pc = "open" /\ pc' = "enter" /\ net' = net /\ mode' = mode
        /\ searchstack' = searchstack /\ ptr' = ptr /\ marks' = marks
        /\ IF Indexed = {} THEN iptr' = <<>> ELSE SetIptr(0, 0)
    BY <1>4 DEF Open
  <2>2. Indexed' = Indexed /\ net \in Nets /\ ptr = 0
    BY <2>1, SameLines DEF MarksInv
  <2>3. ASSUME state_has_index'
        PROVE  iptr' \in Seq(LinesOf(net, StateAt(net, 0))) /\ (Indexed = {} => iptr' = <<>>)
    <3>1. CASE Indexed = {}
      <4>1. \A X : <<>> \in Seq(X)
        OBVIOUS
      <4> QED
        BY ONLY <2>1, <3>1, <4>1
    <3>2. CASE Indexed # {}
      BY <2>1, <2>2, <2>3, <3>2, SetIptrType
    <3> QED
      BY <3>1, <3>2
  <2>4. IndexOK'
    BY ONLY <2>1, <2>2, <2>3 DEF IndexOK
  <2> QED
    BY ONLY MarksInv, <1>0, <2>1, <2>4, LocalMarks
<1>5. CASE MarkState
  <2>1. /\ pc = "mark" /\ pc' = "follow" /\ net' = net /\ mode' = mode
        /\ searchstack' = searchstack /\ ptr' = ptr
        /\ iptr' = iptr /\ state_has_index' = state_has_index
        /\ \E v : marks' = [marks EXCEPT ![StateAt(net, ptr)] = v]
    BY <1>5 DEF MarkState, State, StateAt, Line
  <2>2. IndexOK'
    BY <1>0, <2>1 DEF IndexOK, AtState, Indexed
  <2>3. /\ marks' = [s \in States |-> marks'[s]]
        /\ \A s \in States : marks'[s] # 0 => s = StateAt(net, ptr) \/ marks[s] # 0
    BY <1>0, <2>1
  <2> QED
    BY ONLY MarksInv, <2>1, <2>2, <2>3, LocalMarks
<1>6. CASE NoArc
  <2>1. /\ pc = "follow" /\ pc' = "pop" /\ net' = net /\ mode' = mode
        /\ searchstack' = searchstack /\ ptr' = ptr
        /\ marks' = [marks EXCEPT ![StateAt(net, ptr)] = 0]
    BY <1>6 DEF NoArc, State, StateAt, Line
  <2>2. IndexOK'
    BY <2>1 DEF IndexOK, AtState
  <2>3. /\ marks' = [s \in States |-> marks'[s]]
        /\ \A s \in States : marks'[s] # 0 => OnPath(net, searchstack, s)
    BY <1>0, <2>1
  <2> QED
    BY ONLY MarksInv, <2>1, <2>2, <2>3, LocalMarks
<1>7. CASE /\ net' = net /\ mode' = mode /\ searchstack' = searchstack /\ ptr' = ptr
           /\ iptr' = iptr /\ state_has_index' = state_has_index
           /\ marks' = marks /\ pc # "follow" /\ pc' # "open" /\ (AtState' => AtState)
  <2>1. IndexOK'
    BY <1>0, <1>7 DEF IndexOK, Indexed
  <2>2. marks' = [s \in States |-> marks'[s]]
    BY <1>0, <1>7
  <2> QED
    BY ONLY MarksInv, <1>7, <2>1, <2>2, LocalMarks
<1>8. CASE Enter
  BY <1>7, <1>8 DEF Enter, AtState
<1>9. CASE Exhausted
  BY <1>7, <1>9 DEF Exhausted, AtState
<1>10. CASE Again
  BY <1>7, <1>10 DEF Again, AtState
<1>11. CASE Reset
  <2>1. /\ pc' = "idle" /\ net' = net /\ mode' = mode
        /\ searchstack' = searchstack /\ ptr' = ptr
        /\ marks' = [s \in States |-> 0]
    BY <1>11 DEF Reset
  <2>2. IndexOK'
    BY <2>1 DEF IndexOK, AtState
  <2>3. /\ marks' = [s \in States |-> marks'[s]] /\ \A s \in States : marks'[s] = 0
    BY <2>1
  <2> QED
    BY ONLY MarksInv, <2>1, <2>2, <2>3, LocalMarks
<1>12. CASE UNCHANGED vars
  <2>1. States' = States /\ Indexed' = Indexed
    BY <1>12, SameLines DEF vars
  <2>2. IndexOK'
    BY <1>0, <1>12, <2>1 DEF IndexOK, AtState, vars
  <2> QED
    BY <1>12, <2>1, <2>2 DEF MarksInv, vars
<1> QED
  BY <1>1, <1>2, <1>3, <1>4, <1>5, <1>6, <1>8, <1>9, <1>10, <1>11, <1>12 DEF Next, Search

(***************************************************************************)
(* A state is marked only while its lines are tried or it is on the path,  *)
(* so that each word is begun without a mark ("Make sure stack is empty    *)
(* and marks reset") wherever the search before was broken off.            *)
(***************************************************************************)
THEOREM MarksRight == Spec => []MarksOnPath
<1>1. MarksInv => MarksOnPath
  BY DEF MarksInv, MarksOnPath, OnPath, StateAt, State, Line
<1> QED
  BY InitMarks, NextMarks, <1>1, PTL DEF Spec

-----------------------------------------------------------------------------

\* What a search is about.
Task == [net |-> net, mode |-> mode, word |-> word]

\* MatchLength in task t.
Eats(t, a, i) ==
  IF a = Epsilon \/ IsFlag(a) \/ t.mode = "words" THEN 0
  ELSE IF i < Len(t.word) /\ (t.word[i + 1] = a \/
                              (a \in {Identity, Unknown} /\ t.word[i + 1] = Identity)) THEN 1
  ELSE -1

(***************************************************************************)
(* Where a search may stand: a state, the part of the word consumed and    *)
(* the flags.  Line k leads from c to d.                                   *)
(***************************************************************************)
Config(t, c) ==
  /\ \E k \in LinesIn(t.net) : StateAt(t.net, k) = c.state
  /\ c.ipos \in 0..Len(t.word)
  /\ IsValues(c.flags)

Moves(t, k, c, d) ==
  LET a == SymIn(t.mode, t.net, k)
  IN /\ k \in LinesIn(t.net) /\ StateAt(t.net, k) = c.state /\ TargetOf(t.net, k) # -1
     /\ Eats(t, a, c.ipos) # -1
     /\ PassFlag(a, c.flags) = {d.flags}
     /\ d = [state |-> TargetOf(t.net, k), ipos |-> c.ipos + Eats(t, a, c.ipos), flags |-> d.flags]

Origin == [state |-> 0, ipos |-> 0, flags |-> NoFlags]

\* h gives where each line of the path p leads.
Trace(t, p, h) ==
  /\ h[0] = Origin
  /\ \A n \in 0..Len(p) : Config(t, h[n])
  /\ \A n \in 1..Len(p) : Moves(t, p[n], h[n - 1], h[n])

IsTask(t) == t.net \in Nets /\ t.word \in Seq(Int)

\* The path on a stack, and that the entry f was left at c when it led to d.
PathOf(st) == [k \in DOMAIN st |-> st[k].ptr]
LeftAt(f, c, d) == f.ipos = c.ipos /\ Undo(f.flag, d.flags) = c.flags

RunOf(t, st, h) ==
  /\ Trace(t, PathOf(st), h)
  /\ \A n \in 1..Len(st) : LeftAt(st[n], h[n - 1], h[n])

HasRun(t, st, c) == \E h : RunOf(t, st, h) /\ h[Len(st)] = c

\* The search stands where the path on its stack leads.
Here == [state |-> StateAt(net, ptr), ipos |-> ipos, flags |-> flag_list]

RunInv ==
  /\ IsTask(Task) /\ AnyStack(searchstack) /\ ptr \in LinesIn(net)
  /\ HasRun(Task, searchstack, Here)

-----------------------------------------------------------------------------

\* What WellFormed says of the lines, counted from 0.
LEMMA NetFacts ==
  ASSUME NEW n \in Nets
  PROVE  /\ Len(n.lines) \in Nat /\ Len(n.lines) > 1 /\ 0 \in LinesIn(n)
         /\ StateAt(n, 0) = 0 /\ StateAt(n, Len(n.lines) - 1) = -1
         /\ \A k \in LinesIn(n) : /\ k \in Nat /\ StateAt(n, k) \in Nat
                                  /\ TargetOf(n, k) # -1 =>
                                       \E m \in LinesIn(n) : StateAt(n, m) = TargetOf(n, k)
         /\ \A j, k \in LinesIn(n) : StateAt(n, j) = StateAt(n, k) =>
              /\ FinalAt(n, j) = FinalAt(n, k)
              /\ \A m \in j..k : StateAt(n, m) = StateAt(n, k)
<1> DEFINE own == 1..(Len(n.lines) - 1)
<1>1. WellFormed(n.lines)
  BY ApplyAssumption
<1>2. /\ n.lines \in Seq(LineType) /\ Len(n.lines) > 1
      /\ n.lines[1].state_no = 0 /\ n.lines[Len(n.lines)].state_no = -1
      /\ \A k \in own : /\ n.lines[k].state_no >= 0
                        /\ \/ n.lines[k].target = -1
                           \/ \E m \in own : n.lines[m].state_no = n.lines[k].target
      /\ \A j, k \in own : n.lines[j].state_no = n.lines[k].state_no =>
           /\ n.lines[j].final_state = n.lines[k].final_state
           /\ \A m \in j..k : n.lines[m].state_no = n.lines[k].state_no
  BY <1>1 DEF WellFormed
<1>3. Len(n.lines) \in Nat /\ \A k \in own : n.lines[k].state_no \in Int
  <2>1. PICK L : L = n.lines /\ L \in Seq(LineType)
    BY <1>2
  <2>2. Len(L) \in Nat /\ \A k \in 1..(Len(L) - 1) : L[k] \in LineType
    BY ONLY <2>1
  <2>3. \A r \in LineType : r.state_no \in Int
    BY DEF LineType
  <2> QED
    BY <2>1, <2>2, <2>3
<1>4. \A k \in LinesIn(n) : k + 1 \in own /\ k \in Nat
  BY <1>2, <1>3 DEF LinesIn
<1>5. \A k \in own : k - 1 \in LinesIn(n) /\ k - 1 + 1 = k
  BY <1>2, <1>3 DEF LinesIn
<1>6. 0 \in LinesIn(n) /\ Len(n.lines) - 1 + 1 = Len(n.lines)
  BY <1>2, <1>3 DEF LinesIn
<1>7. ASSUME NEW k \in LinesIn(n)
      PROVE  /\ k \in Nat /\ StateAt(n, k) \in Nat
             /\ TargetOf(n, k) # -1 => \E m \in LinesIn(n) : StateAt(n, m) = TargetOf(n, k)
  <2>1. StateAt(n, k) \in Nat
    BY <1>2, <1>3, <1>4 DEF StateAt
  <2>2. ASSUME TargetOf(n, k) # -1
        PROVE  \E m \in LinesIn(n) : StateAt(n, m) = TargetOf(n, k)
    <3>1. PICK m \in own : n.lines[m].state_no = n.lines[k + 1].target
      BY <1>2, <1>4, <2>2 DEF TargetOf
    <3>2. StateAt(n, m - 1) = TargetOf(n, k)
      BY <1>5, <3>1 DEF StateAt, TargetOf
    <3> QED
      BY <1>5, <3>2
  <2> QED
    BY <1>4, <2>1, <2>2
<1>8. ASSUME NEW j \in LinesIn(n), NEW k \in LinesIn(n), StateAt(n, j) = StateAt(n, k)
      PROVE  /\ FinalAt(n, j) = FinalAt(n, k)
             /\ \A m \in j..k : StateAt(n, m) = StateAt(n, k)
  <2>1. n.lines[j + 1].state_no = n.lines[k + 1].state_no
    BY <1>8 DEF StateAt
  <2>2. \A m \in j..k : m + 1 \in (j + 1)..(k + 1)
    BY <1>4
  <2>3. j + 1 \in own /\ k + 1 \in own
    BY <1>4
  <2> HIDE DEF own
  <2>4. /\ n.lines[j + 1].final_state = n.lines[k + 1].final_state
        /\ \A m \in (j + 1)..(k + 1) : n.lines[m].state_no = n.lines[k + 1].state_no
    BY ONLY <1>2, <2>1, <2>3, Zenon
  <2> QED
    BY ONLY <2>2, <2>4, Zenon DEF StateAt, FinalAt
<1>9. StateAt(n, 0) = 0 /\ StateAt(n, Len(n.lines) - 1) = -1
  BY <1>2, <1>6 DEF StateAt
<1> QED
  BY ONLY <1>2, <1>3, <1>6, <1>7, <1>8, <1>9

\* A line leads to a place the search may stand at.
LEMMA MovesType ==
  ASSUME NEW t, IsTask(t), NEW k, NEW c, Config(t, c), NEW d, Moves(t, k, c, d)
  PROVE  /\ Config(t, d)
         /\ d.state = TargetOf(t.net, k)
         /\ d.ipos = c.ipos + Eats(t, SymIn(t.mode, t.net, k), c.ipos)
         /\ c.ipos <= d.ipos
<1> DEFINE a == SymIn(t.mode, t.net, k)
<1>1. /\ k \in LinesIn(t.net) /\ TargetOf(t.net, k) # -1 /\ Eats(t, a, c.ipos) # -1
      /\ PassFlag(a, c.flags) = {d.flags}
      /\ d = [state |-> TargetOf(t.net, k), ipos |-> c.ipos + Eats(t, a, c.ipos), flags |-> d.flags]
  BY DEF Moves
<1>2. c.ipos \in 0..Len(t.word) /\ IsValues(c.flags) /\ Len(t.word) \in Nat
  BY DEF Config, IsTask
<1> HIDE DEF a
<1>3. d.state = TargetOf(t.net, k) /\ d.ipos = c.ipos + Eats(t, a, c.ipos)
  BY <1>1
<1>4. Eats(t, a, c.ipos) = 0 \/ (Eats(t, a, c.ipos) = 1 /\ c.ipos < Len(t.word))
  BY <1>1 DEF Eats
<1>5. d.ipos \in 0..Len(t.word) /\ c.ipos <= d.ipos
  BY <1>2, <1>3, <1>4
<1>6. \E m \in LinesIn(t.net) : StateAt(t.net, m) = d.state
  BY <1>1, <1>3, NetFacts DEF IsTask
<1>7. IsValues(d.flags)
  <2>1. d.flags \in PassFlag(a, c.flags)
    BY <1>1
  <2> QED
    BY <1>2, <2>1, PassUndone
<1> QED
  BY <1>3, <1>5, <1>6, <1>7 DEF Config, a

\* The start is a place the search may stand at.
LEMMA OriginType ==
  ASSUME NEW t, IsTask(t)
  PROVE  Config(t, Origin)
<1>1. IsValues(NoFlags)
  BY DEF IsValues, NoFlags
<1>2. Len(t.word) \in Nat
  BY DEF IsTask
<1>3. 0 \in LinesIn(t.net) /\ StateAt(t.net, 0) = 0
  BY NetFacts DEF IsTask
<1> QED
  BY <1>1, <1>2, <1>3 DEF Config, Origin

\* Where a path leads does not depend on how it is traced.
LEMMA SamePlace ==
  ASSUME NEW t, NEW p, NEW q, NEW g, NEW h, Trace(t, p, g), Trace(t, q, h),
         NEW n \in Nat, n <= Len(p), n <= Len(q), Len(p) \in Nat, Len(q) \in Nat,
         \A j \in 1..n : p[j] = q[j]
  PROVE  g[n] = h[n]
<1> DEFINE M == {i \in 0..n : g[i] # h[i]}
<1> SUFFICES ASSUME M # {} PROVE FALSE
  OBVIOUS
<1>1. PICK i \in M : \A j \in M : i <= j
  <2>1. M \in SUBSET Nat
    OBVIOUS
  <2> HIDE DEF M
  <2> QED
    BY <2>1, LeastOf
<1>2. i # 0
  BY DEF Trace
<1>3. i \in 1..n /\ i - 1 \in 0..n /\ ~(i <= i - 1) /\ i \in 1..Len(p) /\ i \in 1..Len(q)
  BY <1>1, <1>2
<1>4. g[i - 1] = h[i - 1] /\ p[i] = q[i]
  BY <1>1, <1>3
<1>5. Moves(t, p[i], g[i - 1], g[i]) /\ Moves(t, q[i], h[i - 1], h[i])
  BY <1>3 DEF Trace
<1>6. PICK k, c, d, e : /\ k = p[i] /\ c = g[i - 1] /\ d = g[i] /\ e = h[i]
                        /\ Moves(t, k, c, d) /\ Moves(t, k, c, e)
  BY <1>4, <1>5
<1>7. d.flags = e.flags
  BY <1>6 DEF Moves
<1>8. d = e
  BY <1>6, <1>7 DEF Moves
<1> QED
  BY <1>6, <1>8

-----------------------------------------------------------------------------

\* A line is followed: the path grows by it.
LEMMA RunGrows ==
  ASSUME NEW t, IsTask(t), NEW st, AnyStack(st), NEW h, RunOf(t, st, h),
         NEW e, NEW d, Moves(t, e.ptr, h[Len(st)], d), LeftAt(e, h[Len(st)], d)
  PROVE  AnyStack(Append(st, e)) /\ HasRun(t, Append(st, e), d)
<1>1. PICK S : st \in Seq(S)
  BY DEF AnyStack
<1> DEFINE st2 == Append(st, e)
           g == [n \in 0..Len(st2) |-> IF n = Len(st2) THEN d ELSE h[n]]
<1>2. /\ st2 \in Seq(S \cup {e}) /\ Len(st2) = Len(st) + 1 /\ Len(st) \in Nat
      /\ st2[Len(st2)] = e /\ \A n \in 1..Len(st) : st2[n] = st[n]
  <2>1. st \in Seq(S \cup {e})
    BY <1>1
  <2> QED
    BY <2>1
<1>3. DOMAIN st = 1..Len(st) /\ DOMAIN st2 = 1..Len(st2)
  BY <1>1, <1>2
<1> HIDE DEF st2
<1>4. /\ Len(PathOf(st)) = Len(st) /\ Len(PathOf(st2)) = Len(st2)
      /\ \A n \in 1..Len(st) : PathOf(st)[n] = st[n].ptr
      /\ \A n \in 1..Len(st2) : PathOf(st2)[n] = st2[n].ptr
  BY <1>2, <1>3 DEF PathOf
<1>5. /\ g[Len(st2)] = d /\ \A n \in 0..Len(st) : g[n] = h[n]
      /\ Len(st2) - 1 = Len(st) /\ 0 \in 0..Len(st)
  BY <1>2
<1> HIDE DEF g
<1>6. g[0] = Origin
  BY <1>5 DEF RunOf, Trace
<1>7. /\ \A n \in 0..Len(st) : Config(t, h[n])
      /\ \A n \in 1..Len(st) : Moves(t, st[n].ptr, h[n - 1], h[n]) /\ LeftAt(st[n], h[n - 1], h[n])
  BY <1>4 DEF RunOf, Trace
<1>8. Config(t, d)
  BY <1>5, <1>7, MovesType
<1>9. \A n \in 0..Len(st2) : Config(t, g[n])
  <2>1. \A n \in 0..Len(st2) : n = Len(st2) \/ n \in 0..Len(st)
    BY <1>2
  <2> QED
    BY ONLY <1>5, <1>7, <1>8, <2>1, Zenon
<1>10. ASSUME NEW n \in 1..Len(st2)
       PROVE  Moves(t, st2[n].ptr, g[n - 1], g[n]) /\ LeftAt(st2[n], g[n - 1], g[n])
  <2>1. CASE n = Len(st2)
    <3>1. st2[n] = e /\ g[n] = d /\ g[n - 1] = h[Len(st)]
      <4>1. n - 1 = Len(st) /\ n - 1 \in 0..Len(st)
        BY <1>2, <2>1
      <4> QED
        BY ONLY <1>2, <1>5, <2>1, <4>1
    <3> QED
      BY <3>1
  <2>2. CASE n # Len(st2)
    <3>1. n \in 1..Len(st) /\ n \in 0..Len(st) /\ n - 1 \in 0..Len(st)
      BY <1>2, <2>2
    <3>2. st2[n] = st[n] /\ g[n] = h[n] /\ g[n - 1] = h[n - 1]
      BY ONLY <1>2, <1>5, <3>1
    <3> QED
      BY <1>7, <3>1, <3>2
  <2> QED
    BY <2>1, <2>2
<1>11. RunOf(t, st2, g)
  BY ONLY <1>4, <1>6, <1>9, <1>10, Zenon DEF RunOf, Trace
<1> QED
  BY ONLY <1>2, <1>5, <1>11, Zenon DEF AnyStack, HasRun, st2

\* The last line is taken back.
LEMMA RunShrinks ==
  ASSUME NEW t, IsTask(t), NEW st, AnyStack(st), st # <<>>, NEW h, RunOf(t, st, h)
  PROVE  /\ AnyStack(Front(st)) /\ Len(st) \in Nat \ {0} /\ Len(Front(st)) = Len(st) - 1
         /\ \A n \in 1..Len(Front(st)) : Front(st)[n] = st[n]
         /\ RunOf(t, Front(st), h)
         /\ Config(t, h[Len(st) - 1])
         /\ Moves(t, Last(st).ptr, h[Len(st) - 1], h[Len(st)])
         /\ LeftAt(Last(st), h[Len(st) - 1], h[Len(st)])
<1>1. PICK S : st \in Seq(S)
  BY DEF AnyStack
<1> DEFINE st2 == Front(st)
<1>2. /\ st2 \in Seq(S) /\ Len(st2) = Len(st) - 1 /\ Len(st) \in Nat \ {0}
      /\ \A n \in 1..Len(st2) : st2[n] = st[n]
  BY <1>1, FrontType
<1>3. DOMAIN st = 1..Len(st) /\ DOMAIN st2 = 1..Len(st2)
  BY <1>1, <1>2
<1> HIDE DEF st2
<1>4. /\ Len(PathOf(st)) = Len(st) /\ Len(PathOf(st2)) = Len(st2)
      /\ \A n \in 1..Len(st) : PathOf(st)[n] = st[n].ptr
      /\ \A n \in 1..Len(st2) : PathOf(st2)[n] = st2[n].ptr
  BY <1>2, <1>3 DEF PathOf
<1>5. /\ h[0] = Origin
      /\ \A n \in 0..Len(st) : Config(t, h[n])
      /\ \A n \in 1..Len(st) : Moves(t, st[n].ptr, h[n - 1], h[n]) /\ LeftAt(st[n], h[n - 1], h[n])
  BY <1>4 DEF RunOf, Trace
<1>6. /\ \A n \in 0..Len(st2) : n \in 0..Len(st)
      /\ \A n \in 1..Len(st2) : n \in 1..Len(st)
      /\ Len(st) \in 1..Len(st) /\ Len(st) - 1 \in 0..Len(st)
  BY <1>2
<1>7. \A n \in 1..Len(st2) : Moves(t, PathOf(st2)[n], h[n - 1], h[n]) /\ LeftAt(st2[n], h[n - 1], h[n])
  BY <1>2, <1>4, <1>5, <1>6
<1>8. RunOf(t, st2, h)
  BY ONLY <1>4, <1>5, <1>6, <1>7, Zenon DEF RunOf, Trace
<1>9. /\ Config(t, h[Len(st) - 1])
      /\ Moves(t, st[Len(st)].ptr, h[Len(st) - 1], h[Len(st)])
      /\ LeftAt(st[Len(st)], h[Len(st) - 1], h[Len(st)])
  BY ONLY <1>5, <1>6, Zenon
<1> QED
  BY ONLY <1>2, <1>8, <1>9, Zenon DEF AnyStack, st2, Last

\* Nothing has been followed yet.
LEMMA NoRun ==
  ASSUME NEW t, IsTask(t)
  PROVE  AnyStack(<<>>) /\ HasRun(t, <<>>, Origin)
<1> DEFINE h == [n \in {0} |-> Origin]
<1>1. Len(<<>>) = 0 /\ Len(PathOf(<<>>)) = 0 /\ h[0] = Origin
  BY DEF PathOf
<1>2. <<>> \in Seq({})
  OBVIOUS
<1>3. Config(t, Origin)
  BY OriginType
<1> HIDE DEF h
<1>4. /\ \A n \in 0..0 : n = 0
      /\ \A n \in 1..0 : FALSE
  OBVIOUS
<1>5. RunOf(t, <<>>, h)
  BY ONLY <1>1, <1>3, <1>4 DEF RunOf, Trace
<1> QED
  BY ONLY <1>1, <1>2, <1>5 DEF AnyStack, HasRun

-----------------------------------------------------------------------------

\* The first line of a state.
LEMMA StatemapType ==
  ASSUME net \in Nets, NEW s, \E k \in LinesIn(net) : StateAt(net, k) = s
  PROVE  /\ statemap(s) \in LinesIn(net) /\ StateAt(net, statemap(s)) = s
         /\ \A m \in LinesIn(net) : StateAt(net, m) = s => statemap(s) <= m
<1> DEFINE M == {k \in LinesIn(net) : StateAt(net, k) = s}
<1>1. M \in SUBSET Nat /\ M # {}
  BY NetFacts
<1>2. PICK k \in M : \A m \in M : k <= m
  <2> HIDE DEF M
  <2> QED
    BY <1>1, LeastOf
<1>3. LineNo = LinesIn(net) /\ \A m : Line(m).state_no = StateAt(net, m)
  BY DEF LineNo, LinesIn, Line, StateAt
<1> DEFINE P(j) == j \in LinesIn(net) /\ StateAt(net, j) = s
                   /\ \A m \in LinesIn(net) : StateAt(net, m) = s => j <= m
<1>4. P(k)
  BY <1>2
<1>5. statemap(s) = CHOOSE j : P(j)
  BY <1>3 DEF statemap
<1> HIDE DEF P
<1>6. P(statemap(s))
  BY <1>4, <1>5
<1> QED
  BY <1>6 DEF P

\* The names of the search and those of its task.
LEMMA TaskNames ==
  /\ Task.net = net /\ Task.mode = mode /\ Task.word = word
  /\ LineNo = LinesIn(net)
  /\ \A k : /\ symin(k) = SymIn(mode, net, k)
            /\ Line(k).state_no = StateAt(net, k)
            /\ Line(k).target = TargetOf(net, k)
            /\ Line(k).final_state = FinalAt(net, k)
  /\ \A a, i : MatchLength(a, i) = Eats(Task, a, i)
<1>1. Task.net = net /\ Task.mode = mode /\ Task.word = word
  BY DEF Task
<1>2. \A a, i : MatchLength(a, i) = Eats(Task, a, i)
  BY <1>1 DEF MatchLength, Eats, sigmatch
<1> QED
  BY <1>1, <1>2 DEF LineNo, LinesIn, symin, SymIn, Line, StateAt, TargetOf, FinalAt

-----------------------------------------------------------------------------

\* At first the search stands at the start, with nothing on its stack.
LEMMA InitRun == Init => RunInv
<1> SUFFICES ASSUME Init PROVE RunInv
  OBVIOUS
<1>1. /\ net \in Nets /\ word = <<>> /\ ptr = 0 /\ ipos = 0
      /\ searchstack = <<>> /\ flag_list = NoFlags
  BY DEF Init
<1>2. IsTask(Task)
  BY <1>1 DEF IsTask, Task
<1>3. Here = Origin /\ ptr \in LinesIn(net)
  BY <1>1, NetFacts DEF Here, Origin
<1>4. AnyStack(<<>>) /\ HasRun(Task, <<>>, Origin)
  BY ONLY <1>2, NoRun
<1> QED
  BY ONLY <1>1, <1>2, <1>3, <1>4 DEF RunInv

\* Each word is begun at the start.
LEMMA StartRun ==
  ASSUME RunInv, NEW m \in Modes, NEW w \in Words, Start(m, w)
  PROVE  RunInv'
<1>1. /\ net' = net /\ word' \in {<<>>, w} /\ ptr' = 0 /\ ipos' = 0
      /\ searchstack' = <<>> /\ flag_list' = NoFlags
  BY DEF Start
<1>2. IsTask(Task')
  <2>1. net \in Nets
    BY DEF RunInv, IsTask, Task
  <2>2. word' \in Seq(Int)
    <3>1. <<>> \in Seq(Int) /\ w \in Seq(Int)
      BY ApplyAssumption
    <3> QED
      BY ONLY <1>1, <3>1
  <2> QED
    BY <1>1, <2>1, <2>2 DEF IsTask, Task
<1>3. Here' = Origin /\ ptr' \in LinesIn(net')
  <2>1. net \in Nets
    BY DEF RunInv, IsTask, Task
  <2> QED
    BY <1>1, <2>1, NetFacts DEF Here, Origin
<1>4. AnyStack(<<>>) /\ HasRun(Task', <<>>, Origin)
  BY ONLY <1>2, NoRun
<1> QED
  BY ONLY <1>1, <1>2, <1>3, <1>4 DEF RunInv

\* What FollowArc does, for the line k that is followed.
LEMMA FollowFacts ==
  ASSUME MarksInv, RunInv, NEW n \in NextArc, FollowArc(n)
  PROVE  LET k == Ahead[n] IN
         /\ pc = "follow" /\ pc' = "enter" /\ Task' = Task /\ net' = net /\ mode' = mode
         /\ word' = word /\ marks' = marks /\ returned' = returned
         /\ n \in 1..Len(Ahead) /\ Ahead \in Seq(LinesOf(net, State))
         /\ k \in LinesIn(net) /\ StateAt(net, k) = State /\ TargetOf(net, k) # -1
         /\ Follows(k) /\ \A i \in 1..(n - 1) : ~Follows(Ahead[i])
         /\ ptr' = statemap(TargetOf(net, k))
         /\ ipos' = ipos + Eats(Task, SymIn(mode, net, k), ipos)
         /\ flag_list' \in PassFlag(SymIn(mode, net, k), flag_list)
         /\ SetIptr(ptr', ipos')
         /\ \E e : /\ searchstack' = Append(searchstack, e)
                   /\ e.ptr = k /\ e.ipos = ipos /\ e.mark = marks[State]
                   /\ e.has_index = state_has_index
                   /\ e.iptr = IF state_has_index THEN SubSeq(iptr, n, Len(iptr)) ELSE iptr
                   /\ e.flag = Saved(SymIn(mode, net, k), flag_list)
<1> DEFINE k == Ahead[n]
<1>1. /\ pc = "follow" /\ pc' = "enter" /\ net' = net /\ mode' = mode /\ word' = word
      /\ marks' = marks /\ returned' = returned /\ n \in DOMAIN Ahead
      /\ Follows(k) /\ \A i \in 1..(n - 1) : ~Follows(Ahead[i])
      /\ SetIptr(ptr', ipos')
  BY DEF FollowArc, NextArc
<1>2. Task' = Task
  BY <1>1 DEF Task
<1>3. Ahead \in Seq(LinesOf(net, State)) /\ n \in 1..Len(Ahead) /\ k \in LinesOf(net, State)
  <2>1. Ahead \in Seq(LinesOf(net, State))
    BY <1>1, AheadType
  <2> QED
    BY <1>1, <2>1
<1>4. k \in LinesIn(net) /\ StateAt(net, k) = State /\ TargetOf(net, k) # -1
  BY <1>3 DEF LinesOf, LinesIn
<1>5. /\ ptr' = statemap(TargetOf(net, k))
      /\ ipos' = ipos + Eats(Task, SymIn(mode, net, k), ipos)
      /\ flag_list' \in PassFlag(SymIn(mode, net, k), flag_list)
  BY TaskNames DEF FollowArc
<1>6. \E e : /\ searchstack' = Append(searchstack, e)
             /\ e.ptr = k /\ e.ipos = ipos /\ e.mark = marks[State]
             /\ e.has_index = state_has_index
             /\ e.iptr = IF state_has_index THEN SubSeq(iptr, n, Len(iptr)) ELSE iptr
             /\ e.flag = Saved(SymIn(mode, net, k), flag_list)
  <2>1. symin(k) = SymIn(mode, net, k)
    BY TaskNames
  <2>2. searchstack' = Append(searchstack, Pushed(n, Saved(symin(k), flag_list)))
    BY DEF FollowArc, Saved
  <2>3. \A s : LET f == Pushed(n, s) IN
          /\ f.ptr = k /\ f.ipos = ipos /\ f.mark = marks[State] /\ f.has_index = state_has_index
          /\ f.iptr = IF state_has_index THEN SubSeq(iptr, n, Len(iptr)) ELSE iptr
          /\ f.flag = s
    BY DEF Pushed
  <2> QED
    BY ONLY <2>1, <2>2, <2>3
<1> QED
  BY <1>1, <1>2, <1>3, <1>4, <1>5, <1>6

\* A line followed makes the path one longer; it leads to where the search stands.
LEMMA FollowRun ==
  ASSUME MarksInv, RunInv, NEW n \in NextArc, FollowArc(n)
  PROVE  RunInv'
<1>1. PICK k, e : /\ k = Ahead[n]
                  /\ searchstack' = Append(searchstack, e)
                  /\ e.ptr = k /\ e.ipos = ipos
                  /\ e.flag = Saved(SymIn(mode, net, k), flag_list)
  BY FollowFacts
<1>2. /\ Task' = Task /\ net' = net /\ k \in LinesIn(net) /\ StateAt(net, k) = StateAt(net, ptr)
      /\ TargetOf(net, k) # -1 /\ Follows(k)
      /\ ptr' = statemap(TargetOf(net, k))
      /\ ipos' = ipos + Eats(Task, SymIn(mode, net, k), ipos)
      /\ flag_list' \in PassFlag(SymIn(mode, net, k), flag_list)
  BY <1>1, FollowFacts, TaskNames DEF State
<1>3. PICK h : RunOf(Task, searchstack, h) /\ h[Len(searchstack)] = Here
  BY DEF RunInv, HasRun
<1>4. IsTask(Task) /\ AnyStack(searchstack) /\ net \in Nets
  BY DEF RunInv, IsTask, Task
<1>5. Config(Task, Here)
  <2>1. PICK S : searchstack \in Seq(S)
    BY <1>4 DEF AnyStack
  <2>2. Len(searchstack) \in 0..Len(PathOf(searchstack))
    BY <2>1 DEF PathOf
  <2> QED
    BY <1>3, <2>2 DEF RunOf, Trace
<1>6. IsValues(flag_list)
  BY <1>5 DEF Config, Here
<1>7. /\ PassFlag(SymIn(mode, net, k), flag_list) = {flag_list'}
      /\ Undo(e.flag, flag_list') = flag_list
  BY <1>1, <1>2, <1>6, PassUndone
<1>8. PICK d : d = [state |-> TargetOf(net, k), flags |-> flag_list',
                    ipos |-> ipos + Eats(Task, SymIn(mode, net, k), ipos)]
  OBVIOUS
<1>9. Eats(Task, SymIn(mode, net, k), ipos) # -1
  BY <1>2, TaskNames DEF Follows
<1>10. Moves(Task, k, Here, d) /\ LeftAt(e, Here, d)
  <2>1. Task.net = net /\ Task.mode = mode
    BY TaskNames
  <2>2. Here.state = StateAt(net, k) /\ Here.ipos = ipos /\ Here.flags = flag_list
    BY <1>2 DEF Here
  <2>3. d.flags = flag_list'
    BY <1>8
  <2> QED
    BY ONLY <1>1, <1>2, <1>7, <1>8, <1>9, <2>1, <2>2, <2>3 DEF Moves, LeftAt
<1>11. Here' = d /\ ptr' \in LinesIn(net)
  <2>1. \E j \in LinesIn(net) : StateAt(net, j) = TargetOf(net, k)
    BY <1>2, <1>4, NetFacts
  <2>2. ptr' \in LinesIn(net) /\ StateAt(net, ptr') = TargetOf(net, k)
    BY <1>2, <1>4, <2>1, StatemapType
  <2> QED
    BY <1>2, <1>8, <2>2 DEF Here
<1>12. /\ AnyStack(searchstack')
       /\ HasRun(Task, searchstack', d)
  <2>1. PICK t, st : t = Task /\ st = searchstack
    OBVIOUS
  <2>2. Moves(t, e.ptr, h[Len(st)], d) /\ LeftAt(e, h[Len(st)], d)
    BY ONLY <1>1, <1>3, <1>10, <2>1
  <2>3. IsTask(t) /\ AnyStack(st) /\ RunOf(t, st, h)
    BY ONLY <1>3, <1>4, <2>1
  <2>4. AnyStack(Append(st, e)) /\ HasRun(t, Append(st, e), d)
    BY ONLY <2>2, <2>3, RunGrows
  <2> QED
    BY ONLY <1>1, <2>1, <2>4
<1> QED
  BY ONLY <1>2, <1>4, <1>11, <1>12 DEF RunInv

\* A line taken back leaves the search where it stood before, flags included.
LEMMA PopRun ==
  ASSUME RunInv, Pop
  PROVE  RunInv'
<1>1. PICK f, st : f = Last(searchstack) /\ st = searchstack
  OBVIOUS
<1>2. /\ searchstack # <<>> /\ searchstack' = Front(searchstack)
      /\ ipos' = f.ipos /\ flag_list' = Undo(f.flag, flag_list)
      /\ net' = net /\ Task' = Task
  BY <1>1 DEF Pop, Restored, Undo, Task
<1>3. PICK h : RunOf(Task, searchstack, h) /\ h[Len(searchstack)] = Here
  BY DEF RunInv, HasRun
<1>4. IsTask(Task) /\ AnyStack(searchstack) /\ net \in Nets
  BY DEF RunInv, IsTask, Task
<1>5. PICK c : c = h[Len(st) - 1]
  OBVIOUS
<1>6. /\ AnyStack(Front(st)) /\ Len(Front(st)) = Len(st) - 1
      /\ RunOf(Task, Front(st), h) /\ Config(Task, c)
      /\ Moves(Task, f.ptr, c, h[Len(st)])
      /\ LeftAt(f, c, h[Len(st)])
  BY ONLY <1>1, <1>2, <1>3, <1>4, <1>5, RunShrinks
<1>7. f.ptr \in LinesIn(net) /\ StateAt(net, f.ptr) = c.state
  BY <1>6, TaskNames DEF Moves
<1>8. ptr' \in LinesIn(net) /\ StateAt(net, ptr') = StateAt(net, f.ptr)
  <2>1. CASE ptr' = f.ptr
    BY <1>7, <2>1
  <2>2. CASE ptr' # f.ptr
    <3>1. ptr' = f.ptr + 1 /\ StateAt(net, f.ptr + 1) = StateAt(net, f.ptr)
      BY <1>1, <2>2 DEF Pop, AtLastArc, Line, StateAt
    <3>2. f.ptr \in Nat /\ f.ptr + 1 \in 0..(Len(net.lines) - 1) /\ Len(net.lines) \in Nat
      BY <1>4, <1>7, NetFacts DEF LinesIn
    <3>3. f.ptr + 1 # Len(net.lines) - 1
      BY <1>4, <1>7, <3>1, NetFacts
    <3>4. f.ptr + 1 \in LinesIn(net)
      BY <3>2, <3>3 DEF LinesIn
    <3> QED
      BY <3>1, <3>4
  <2> QED
    BY <2>1, <2>2
<1>9. Here' = c
  <2>1. c.ipos = ipos' /\ c.flags = flag_list' /\ c.state = StateAt(net, ptr')
    BY <1>1, <1>2, <1>3, <1>6, <1>7, <1>8 DEF LeftAt, Here
  <2>2. h[0] = Origin
    BY <1>3 DEF RunOf, Trace
  <2>3. c = [state |-> c.state, ipos |-> c.ipos, flags |-> c.flags]
    <3>1. Len(st) - 1 = 0 \/ Moves(Task, PathOf(Front(st))[Len(st) - 1], h[Len(st) - 1 - 1], c)
      <4>1. PICK S : Front(st) \in Seq(S)
        BY <1>6 DEF AnyStack
      <4>2. Len(PathOf(Front(st))) = Len(Front(st)) /\ Len(Front(st)) \in Nat
        BY <4>1 DEF PathOf
      <4>3. Len(st) - 1 # 0 => Len(st) - 1 \in 1..Len(PathOf(Front(st)))
        BY <1>6, <4>2
      <4> QED
        BY <1>5, <1>6, <4>3 DEF RunOf, Trace
    <3>2. CASE Len(st) - 1 = 0
      BY <1>5, <2>2, <3>2 DEF Origin
    <3>3. CASE Len(st) - 1 # 0
      BY <3>1, <3>3 DEF Moves
    <3> QED
      BY <3>2, <3>3
  <2> QED
    BY <1>2, <2>1, <2>3 DEF Here
<1>10. RunOf(Task, searchstack', h) /\ h[Len(searchstack')] = Here'
  BY <1>1, <1>2, <1>5, <1>6, <1>9
<1> QED
  BY ONLY <1>1, <1>2, <1>4, <1>6, <1>8, <1>10 DEF RunInv, HasRun

\* Every step keeps the search where its path leads.
LEMMA NextRun == MarksInv /\ RunInv /\ [Next]_vars => RunInv'
<1> SUFFICES ASSUME MarksInv, RunInv, [Next]_vars
             PROVE  RunInv'
  OBVIOUS
<1>1. ASSUME NEW m \in Modes, NEW w \in Words, Start(m, w)
      PROVE  RunInv'
  BY <1>1, StartRun
<1>2. ASSUME NEW n \in NextArc, FollowArc(n)
      PROVE  RunInv'
  BY <1>2, FollowRun
<1>3. CASE Pop
  BY <1>3, PopRun
<1>4. CASE UNCHANGED <<net, mode, word, ptr, ipos, searchstack, flag_list>>
  <2>1. Task' = Task /\ Here' = Here
    BY <1>4 DEF Task, Here
  <2> QED
    BY ONLY RunInv, <1>4, <2>1 DEF RunInv
<1>5. CASE Open
  BY <1>4, <1>5 DEF Open
<1>6. CASE Enter
  BY <1>4, <1>6 DEF Enter
<1>7. CASE MarkState
  BY <1>4, <1>7 DEF MarkState
<1>8. CASE NoArc
  BY <1>4, <1>8 DEF NoArc
<1>9. CASE Exhausted
  BY <1>4, <1>9 DEF Exhausted
<1>10. CASE Again
  BY <1>4, <1>10 DEF Again
<1>11. CASE Reset
  BY <1>4, <1>11 DEF Reset
<1>12. CASE UNCHANGED vars
  BY <1>4, <1>12 DEF vars
<1> QED
  BY <1>1, <1>2, <1>3, <1>5, <1>6, <1>7, <1>8, <1>9, <1>10, <1>11, <1>12 DEF Next, Search

-----------------------------------------------------------------------------

(***************************************************************************)
(* Sequences that list the members of a set, each once.                    *)
(***************************************************************************)
Members(q) == {q[i] : i \in 1..Len(q)}
Distinct(q) == \A i, j \in 1..Len(q) : q[i] = q[j] => i = j
Lists(q, S) == q \in Seq(S) /\ Distinct(q) /\ Members(q) = S
From(q, n) == {q[j] : j \in n..Len(q)}

\* InOrder lists its set.
LEMMA InOrderLists ==
  ASSUME net \in Nets, NEW S \in SUBSET LineNo
  PROVE  Lists(InOrder(S), S)
<1>1. PICK q : q = InOrder(S) /\ q \in Seq(S) /\ Increasing(q) /\ \A k \in S : \E i \in DOMAIN q : q[i] = k
  BY LinesFinite
<1>2. DOMAIN q = 1..Len(q) /\ Len(q) \in Nat /\ \A i \in 1..Len(q) : q[i] \in S
  BY <1>1
<1>3. S \subseteq Int
  BY NetFacts DEF LineNo
<1>4. Distinct(q)
  <2> SUFFICES ASSUME NEW i \in 1..Len(q), NEW j \in 1..Len(q), q[i] = q[j]
               PROVE  i = j
    BY DEF Distinct
  <2>1. i \in Int /\ j \in Int /\ q[i] \in Int
    <3>1. i \in Int /\ j \in Int
      BY <1>2
    <3>2. q[i] \in S
      BY ONLY <1>2, i \in 1..Len(q)
    <3> QED
      BY ONLY <1>3, <3>1, <3>2
  <2>2. ~(i < j) /\ ~(j < i)
    BY <1>1, <1>2, <2>1 DEF Increasing
  <2> QED
    BY ONLY <2>1, <2>2
<1> QED
  BY <1>1, <1>2, <1>4 DEF Lists, Members

\* What is behind place n of a list, and in order behind a line.
LEMMA TailLists ==
  ASSUME NEW S, NEW q \in Seq(S), Distinct(q), q # <<>>
  PROVE  /\ Tail(q) \in Seq(S) /\ Distinct(Tail(q))
         /\ Members(Tail(q)) = {q[j] : j \in 2..Len(q)} /\ q[1] \notin Members(Tail(q))
<1>1. /\ Len(q) \in Nat \ {0} /\ Tail(q) \in Seq(S) /\ Len(Tail(q)) = Len(q) - 1
      /\ \A i \in 1..(Len(q) - 1) : Tail(q)[i] = q[i + 1]
  OBVIOUS
<1>2. /\ \A i \in 1..(Len(q) - 1) : i + 1 \in 2..Len(q) /\ i + 1 \in 1..Len(q) /\ i + 1 # 1
      /\ \A j \in 2..Len(q) : j - 1 \in 1..(Len(q) - 1) /\ j - 1 + 1 = j
      /\ 1 \in 1..Len(q)
  BY <1>1
<1>3. Distinct(Tail(q))
  <2> SUFFICES ASSUME NEW i \in 1..(Len(q) - 1), NEW j \in 1..(Len(q) - 1), q[i + 1] = q[j + 1]
               PROVE  i = j
    BY <1>1 DEF Distinct
  <2>1. i + 1 = j + 1
    BY <1>2 DEF Distinct
  <2> QED
    BY <1>1, <2>1
<1>4. Members(Tail(q)) = {q[j] : j \in 2..Len(q)}
  BY <1>1, <1>2 DEF Members
<1>5. \A j \in 2..Len(q) : j \in 1..Len(q) /\ j # 1
  BY <1>1
<1>6. q[1] \notin {q[j] : j \in 2..Len(q)}
  BY <1>2, <1>5 DEF Distinct
<1> QED
  BY <1>1, <1>3, <1>4, <1>6

\* The end of a list from place n on.
LEMMA SubSeqLists ==
  ASSUME NEW S, NEW q \in Seq(S), Distinct(q), NEW n \in 1..Len(q)
  PROVE  LET r == SubSeq(q, n, Len(q)) IN
         /\ r \in Seq(S) /\ r # <<>> /\ r[1] = q[n] /\ Distinct(r)
         /\ From(r, 2) = From(q, n + 1)
<1>1. PICK r : r = SubSeq(q, n, Len(q))
  OBVIOUS
<1>2. Len(q) \in Nat /\ n \in Nat
  OBVIOUS
<1>3. /\ r \in Seq(S) /\ Len(r) = Len(q) - n + 1
      /\ \A i \in 1..Len(r) : r[i] = q[n + i - 1]
  BY <1>1, <1>2
<1>4. /\ Len(r) \in Nat \ {0} /\ 1 \in 1..Len(r) /\ n + 1 - 1 = n
      /\ \A i \in 1..Len(r) : n + i - 1 \in 1..Len(q)
      /\ \A i, j \in 1..Len(r) : n + i - 1 = n + j - 1 => i = j
      /\ \A i \in 2..Len(r) : i \in 1..Len(r) /\ n + i - 1 \in (n + 1)..Len(q)
      /\ \A j \in (n + 1)..Len(q) : j - n + 1 \in 2..Len(r) /\ n + (j - n + 1) - 1 = j
  BY <1>2, <1>3
<1>5. r # <<>> /\ r[1] = q[n]
  BY <1>3, <1>4
<1>6. Distinct(r)
  <2> SUFFICES ASSUME NEW i \in 1..Len(r), NEW j \in 1..Len(r), r[i] = r[j]
               PROVE  i = j
    BY DEF Distinct
  <2>1. q[n + i - 1] = q[n + j - 1]
    BY <1>3
  <2>2. n + i - 1 = n + j - 1
    BY <1>4, <2>1 DEF Distinct
  <2> QED
    BY ONLY <1>4, <2>2, i \in 1..Len(r), j \in 1..Len(r)
<1>7. {r[j] : j \in 2..Len(r)} = {q[j] : j \in (n + 1)..Len(q)}
  <2>1. ASSUME NEW i \in 2..Len(r)
        PROVE  r[i] \in {q[j] : j \in (n + 1)..Len(q)}
    <3>1. i \in 1..Len(r) /\ n + i - 1 \in (n + 1)..Len(q)
      BY ONLY <1>4, i \in 2..Len(r)
    <3>2. r[i] = q[n + i - 1]
      BY ONLY <1>3, <3>1
    <3> QED
      BY ONLY <3>1, <3>2
  <2>2. ASSUME NEW j \in (n + 1)..Len(q)
        PROVE  q[j] \in {r[i] : i \in 2..Len(r)}
    <3>1. PICK i : i = j - n + 1 /\ i \in 2..Len(r) /\ n + i - 1 = j
      BY ONLY <1>4, j \in (n + 1)..Len(q)
    <3>2. i \in 1..Len(r)
      BY ONLY <1>4, <3>1
    <3>3. r[i] = q[j]
      BY ONLY <1>3, <3>1, <3>2
    <3> QED
      BY ONLY <3>1, <3>3
  <2> QED
    BY ONLY <2>1, <2>2
<1>8. From(r, 2) = From(q, n + 1)
  BY <1>7 DEF From
<1> QED
  BY <1>1, <1>3, <1>5, <1>6, <1>8

\* Behind place n of a list in order stand the greater members.
LEMMA IncreasingBehind ==
  ASSUME NEW S \in SUBSET Int, NEW q, Lists(q, S), Increasing(q), NEW n \in 1..Len(q)
  PROVE  {q[j] : j \in (n + 1)..Len(q)} = {k \in S : k > q[n]}
<1>1. Len(q) \in Nat /\ n \in Nat /\ DOMAIN q = 1..Len(q) /\ \A i \in 1..Len(q) : q[i] \in S /\ q[i] \in Int
  <2>1. q \in Seq(S)
    BY DEF Lists
  <2>2. Len(q) \in Nat /\ DOMAIN q = 1..Len(q) /\ \A i \in 1..Len(q) : q[i] \in S
    BY ONLY <2>1
  <2>3. n \in Nat /\ \A k \in S : k \in Int
    BY <2>2
  <2> QED
    BY <2>2, <2>3
<1>2. ASSUME NEW j \in (n + 1)..Len(q)
      PROVE  q[j] \in {k \in S : k > q[n]}
  <2>1. j \in 1..Len(q) /\ n < j
    BY <1>1
  <2>2. q[n] < q[j] /\ q[n] \in Int /\ q[j] \in Int /\ q[j] \in S
    BY <1>1, <2>1 DEF Increasing
  <2> QED
    BY <2>2
<1>3. ASSUME NEW k \in S, k > q[n]
      PROVE  k \in {q[j] : j \in (n + 1)..Len(q)}
  <2>1. PICK j \in 1..Len(q) : q[j] = k
    BY DEF Lists, Members
  <2>2. q[n] \in Int /\ k \in Int /\ ~(k < q[n]) /\ k # q[n]
    <3>1. q[n] \in Int /\ k \in Int
      BY <1>1
    <3> QED
      BY ONLY <3>1, <1>3
  <2>3. ~(j < n) /\ j # n
    BY <1>1, <2>1, <2>2 DEF Increasing
  <2>4. j \in (n + 1)..Len(q)
    BY <1>1, <2>3
  <2> QED
    BY <2>1, <2>4
<1> QED
  BY <1>2, <1>3

\* Lists of disjoint sets, joined.
LEMMA ListsJoined ==
  ASSUME NEW S, NEW T, NEW p, NEW q, Lists(p, S), Lists(q, T), S \cap T = {}
  PROVE  Lists(p \o q, S \cup T)
<1>1. /\ p \in Seq(S) /\ q \in Seq(T) /\ p \in Seq(S \cup T) /\ q \in Seq(S \cup T)
      /\ Distinct(p) /\ Distinct(q) /\ Members(p) = S /\ Members(q) = T
  BY DEF Lists
<1>2. PICK r, m, n : r = p \o q /\ m = Len(p) /\ n = Len(q)
  OBVIOUS
<1>3. /\ r \in Seq(S \cup T) /\ Len(r) = m + n /\ m \in Nat /\ n \in Nat
      /\ \A i \in 1..m : r[i] = p[i] /\ p[i] \in S
      /\ \A i \in (m + 1)..(m + n) : r[i] = q[i - m]
      /\ \A i \in 1..n : q[i] \in T
  BY <1>1, <1>2
<1>4. /\ \A i \in 1..(m + n) : i \in 1..m \/ i \in (m + 1)..(m + n)
      /\ \A i \in (m + 1)..(m + n) : i - m \in 1..n /\ i \in 1..(m + n)
      /\ \A i \in 1..m : i \in 1..(m + n)
      /\ \A i \in 1..n : i + m \in (m + 1)..(m + n) /\ i + m - m = i
      /\ \A i, j \in (m + 1)..(m + n) : i - m = j - m => i = j
  BY <1>3
<1>5. Distinct(r)
  <2> SUFFICES ASSUME NEW i \in 1..(m + n), NEW j \in 1..(m + n), r[i] = r[j]
               PROVE  i = j
    BY <1>3 DEF Distinct
  <2>1. CASE i \in 1..m /\ j \in 1..m
    BY <1>1, <1>2, <1>3, <2>1 DEF Distinct
  <2>2. CASE i \in (m + 1)..(m + n) /\ j \in (m + 1)..(m + n)
    <3>1. q[i - m] = q[j - m]
      BY <1>3, <2>2
    <3>2. i - m = j - m
      BY <1>1, <1>2, <1>4, <2>2, <3>1 DEF Distinct
    <3> QED
      BY <1>4, <2>2, <3>2
  <2>3. CASE i \in 1..m /\ j \in (m + 1)..(m + n)
    BY <1>3, <1>4, <2>3
  <2>4. CASE j \in 1..m /\ i \in (m + 1)..(m + n)
    BY <1>3, <1>4, <2>4
  <2> QED
    BY <1>4, <2>1, <2>2, <2>3, <2>4
<1>6. Members(r) = S \cup T
  <2>1. Members(r) \subseteq S \cup T
    BY <1>3, <1>4 DEF Members
  <2>2. ASSUME NEW x \in S
        PROVE  x \in Members(r)
    <3>1. PICK i \in 1..m : p[i] = x
      BY <1>1, <1>2 DEF Members
    <3> QED
      BY <1>3, <1>4, <3>1 DEF Members
  <2>3. ASSUME NEW x \in T
        PROVE  x \in Members(r)
    <3>1. PICK i \in 1..n : q[i] = x
      BY <1>1, <1>2 DEF Members
    <3>2. i + m \in (m + 1)..(m + n) /\ i + m - m = i /\ i + m \in 1..(m + n)
      BY <1>3, <1>4
    <3>3. r[i + m] = x
      BY <1>3, <3>1, <3>2
    <3> QED
      BY <1>3, <3>2, <3>3 DEF Members
  <2> QED
    BY <2>1, <2>2, <2>3
<1> QED
  BY <1>2, <1>3, <1>5, <1>6 DEF Lists

\* The first member, then the others backwards.
LEMMA ListsTurned ==
  ASSUME NEW S, NEW q, Lists(q, S), q # <<>>
  PROVE  Lists(<<Head(q)>> \o Reverse(Tail(q)), S)
<1>1. q \in Seq(S) /\ Distinct(q) /\ Members(q) = S
  BY DEF Lists
<1>2. PICK n \in Nat \ {0} : n = Len(q)
  BY <1>1
<1>3. PICK u : u = Tail(q)
  OBVIOUS
<1>4. u \in Seq(S) /\ Len(u) = n - 1 /\ \A i \in 1..(n - 1) : u[i] = q[i + 1]
  BY <1>1, <1>2, <1>3
<1>5. PICK v : v = Reverse(u)
  OBVIOUS
<1>6. v = [i \in 1..(n - 1) |-> u[(n - 1) - i + 1]]
  BY <1>4, <1>5 DEF Reverse
<1>7. /\ \A i \in 1..(n - 1) : (n - 1) - i + 1 \in 1..(n - 1) /\ (n - 1) - i + 1 + 1 = n - i + 1
      /\ n - 1 \in Nat
      /\ \A i \in 1..(n - 1) : i + 1 \in 1..n
  BY <1>2
<1>8. \A i \in 1..(n - 1) : v[i] = q[n - i + 1]
  BY <1>4, <1>6, <1>7
<1>9. \A i \in 1..(n - 1) : v[i] \in S
  BY <1>4, <1>6, <1>7
<1>10. v \in Seq(S) /\ Len(v) = n - 1
  <2>1. v \in [1..(n - 1) -> S]
    BY <1>6, <1>9
  <2> QED
    BY ONLY <1>6, <1>7, <2>1
<1>11. PICK x : x = q[1] /\ Head(q) = x /\ x \in S
  BY <1>1, <1>2
<1>12. PICK r : r = <<Head(q)>> \o v
  OBVIOUS
<1>13. r \in Seq(S) /\ Len(r) = n /\ r[1] = q[1] /\ \A i \in 2..n : r[i] = v[i - 1]
  <2>1. <<x>> \in Seq(S) /\ Len(<<x>>) = 1 /\ <<x>>[1] = x
    BY <1>11
  <2>2. r = <<x>> \o v
    BY <1>11, <1>12
  <2> QED
    BY ONLY <1>2, <1>10, <1>11, <2>1, <2>2
<1>14. /\ \A i \in 2..n : i - 1 \in 1..(n - 1) /\ n - (i - 1) + 1 = n - i + 2
       /\ \A i \in 1..n : i = 1 \/ i \in 2..n
       /\ \A i \in 2..n : n - i + 2 \in 2..n /\ n - i + 2 \in 1..n /\ n - (n - i + 2) + 2 = i
       /\ \A i, j \in 2..n : n - i + 2 = n - j + 2 => i = j
       /\ \A i \in 2..n : i \in 1..n /\ i # 1
       /\ 1 \in 1..n
  BY <1>2
<1>15. \A i \in 2..n : r[i] = q[n - i + 2]
  <2> TAKE i \in 2..n
  <2>1. r[i] = v[i - 1] /\ i - 1 \in 1..(n - 1)
    BY <1>13, <1>14
  <2>2. v[i - 1] = q[n - (i - 1) + 1]
    BY <1>8, <2>1
  <2> QED
    BY <1>14, <2>1, <2>2
<1>16. Distinct(r)
  <2> SUFFICES ASSUME NEW i \in 1..n, NEW j \in 1..n, r[i] = r[j]
               PROVE  i = j
    BY <1>13 DEF Distinct
  <2>1. \A a, b \in 1..n : q[a] = q[b] => a = b
    BY <1>1, <1>2 DEF Distinct
  <2>2. CASE i = 1 \/ j = 1
    BY ONLY <2>1, <2>2, <1>13, <1>14, <1>15, r[i] = r[j], i \in 1..n, j \in 1..n
  <2>3. CASE i \in 2..n /\ j \in 2..n
    BY ONLY <2>1, <2>3, <1>14, <1>15, r[i] = r[j]
  <2> QED
    BY <1>14, <2>2, <2>3
<1>17. Members(r) = S
  <2>1. \A y \in S : \E i \in 1..n : r[i] = y
    <3> TAKE y \in S
    <3>1. PICK j \in 1..n : q[j] = y
      BY <1>1, <1>2 DEF Members
    <3>2. CASE j = 1
      BY <1>13, <1>14, <3>1, <3>2
    <3>3. CASE j \in 2..n
      BY <1>14, <1>15, <3>1, <3>3
    <3> QED
      BY <1>14, <3>2, <3>3
  <2>2. \A i \in 1..n : r[i] \in S
    BY <1>13
  <2> QED
    BY <1>13, <2>1, <2>2 DEF Members
<1> QED
  BY <1>5, <1>3, <1>12, <1>13, <1>16, <1>17 DEF Lists

-----------------------------------------------------------------------------

(***************************************************************************)
(* The list of a symbol in an index has the lines with the symbol and      *)
(* those with epsilon or a flag, each once.                                *)
(***************************************************************************)
ListedUnder(m, n, s, a) == {k \in LinesOf(n, s) : IndexSymbol(SymIn(m, n, k)) \in {a, Epsilon}}

\* The list of a symbol in an index has each line listed under it once.
LEMMA IndexListLists ==
  ASSUME net \in Nets, NEW s, NEW a
  PROVE  Lists(IndexList(s, a), ListedUnder(mode, net, s, a))
<1> DEFINE of(b) == {k \in LineNo : /\ Line(k).state_no = s
                                    /\ Line(k).target # -1
                                    /\ IndexSymbol(symin(k)) = b}
           own(b) == InOrder(of(b))
           list(b) == IF own(b) = <<>> THEN <<>> ELSE <<Head(own(b))>> \o Reverse(Tail(own(b)))
<1>1. ASSUME NEW b
      PROVE  Lists(list(b), of(b))
  <2>1. of(b) \in SUBSET LineNo
    OBVIOUS
  <2> HIDE DEF of
  <2>2. Lists(own(b), of(b))
    BY <2>1, InOrderLists
  <2> HIDE DEF own
  <2>3. CASE own(b) = <<>>
    BY <2>2, <2>3
  <2>4. CASE own(b) # <<>>
    <3>1. Lists(<<Head(own(b))>> \o Reverse(Tail(own(b))), of(b))
      BY <2>2, <2>4, ListsTurned
    <3> QED
      BY <2>4, <3>1
  <2> QED
    BY <2>3, <2>4
<1>2. \A b : of(b) = {k \in LinesOf(net, s) : IndexSymbol(SymIn(mode, net, k)) = b}
  BY TaskNames DEF LinesOf
<1>3. IndexList(s, a) = IF a = Epsilon THEN list(Epsilon) ELSE list(a) \o list(Epsilon)
  BY DEF IndexList
<1>4. a # Epsilon => of(a) \cap of(Epsilon) = {}
  BY <1>2
<1>5. of(a) \cup of(Epsilon) = ListedUnder(mode, net, s, a)
  BY <1>2 DEF ListedUnder
<1> HIDE DEF list, of
<1>6. CASE a = Epsilon
  BY <1>1, <1>3, <1>5, <1>6
<1>7. CASE a # Epsilon
  <2>1. Lists(list(a) \o list(Epsilon), of(a) \cup of(Epsilon))
    BY <1>1, <1>4, <1>7, ListsJoined
  <2> QED
    BY <1>3, <1>5, <1>7, <2>1
<1> QED
  BY <1>6, <1>7

\* The list ahead has every line that matches.
Whole == \A k \in LinesOf(net, State) : MatchLength(symin(k), ipos) # -1 => k \in Members(Ahead)

\* What Open and FollowArc leave at the state they enter.
Entered ==
  /\ net \in Nets
  /\ IF state_has_index
     THEN /\ mode # "words"
          /\ \E a : /\ Lists(iptr, ListedUnder(mode, net, StateAt(net, ptr), IndexSymbol(a)))
                    /\ ipos < Len(word) => a = word[ipos + 1]
     ELSE \A k \in LinesIn(net) : StateAt(net, k) = StateAt(net, ptr) => ptr <= k

\* Without an index the lines ahead are those of the state from ptr on, in order.
LEMMA AheadInOrder ==
  ASSUME net \in Nets, ~state_has_index
  PROVE  /\ Lists(Ahead, {k \in LinesOf(net, StateAt(net, ptr)) : k >= ptr})
         /\ Increasing(Ahead)
<1>1. Ahead = InOrder({k \in LinesOf(net, StateAt(net, ptr)) : k >= ptr})
  <2>1. {k \in LineNo : k >= ptr /\ Line(k).state_no = State /\ Line(k).target # -1}
          = {k \in LinesOf(net, StateAt(net, ptr)) : k >= ptr}
    BY TaskNames DEF LinesOf, State
  <2> QED
    BY <2>1 DEF Ahead
<1>2. {k \in LinesOf(net, StateAt(net, ptr)) : k >= ptr} \in SUBSET LineNo
  BY TaskNames DEF LinesOf
<1> QED
  BY <1>1, <1>2, InOrderLists, LinesFinite

\* Where a state has just been entered all of its lines that match are ahead.
LEMMA EnteredWhole == Entered => Whole
<1> SUFFICES ASSUME Entered, NEW k \in LinesOf(net, StateAt(net, ptr)),
                    MatchLength(symin(k), ipos) # -1
             PROVE  k \in Members(Ahead)
  BY DEF Whole, State, StateAt, Line
<1>1. net \in Nets
  BY DEF Entered
<1>2. CASE ~state_has_index
  <2>1. ptr <= k
    BY <1>2 DEF Entered, LinesOf
  <2>2. k \in {j \in LinesOf(net, StateAt(net, ptr)) : j >= ptr}
    BY <2>1
  <2> QED
    BY <1>1, <1>2, <2>2, AheadInOrder DEF Lists
<1>3. CASE state_has_index
  <2>1. PICK a : /\ Lists(iptr, ListedUnder(mode, net, StateAt(net, ptr), IndexSymbol(a)))
                 /\ ipos < Len(word) => a = word[ipos + 1]
    BY <1>3 DEF Entered
  <2>2. mode # "words"
    BY <1>3 DEF Entered
  <2>3. PICK b : b = symin(k)
    OBVIOUS
  <2>4. IndexSymbol(b) \in {IndexSymbol(a), Epsilon}
    <3>1. ~IsFlag(Identity) /\ ~IsFlag(Unknown) /\ ~IsFlag(Epsilon)
      BY ApplyAssumption DEF IsFlag
    <3>2. CASE b = Epsilon \/ IsFlag(b)
      BY <3>1, <3>2 DEF IndexSymbol, Unknown, Epsilon
    <3>3. CASE ~(b = Epsilon \/ IsFlag(b))
      <4>1. ipos < Len(word) /\ (word[ipos + 1] = b \/ (b \in {Identity, Unknown} /\ word[ipos + 1] = Identity))
        BY <2>2, <2>3, <3>3 DEF MatchLength, sigmatch
      <4>2. a = b \/ (b \in {Identity, Unknown} /\ a = Identity)
        BY <2>1, <4>1
      <4> QED
        BY <3>1, <4>2 DEF IndexSymbol, Identity, Unknown
    <3> QED
      BY <3>2, <3>3
  <2>5. k \in ListedUnder(mode, net, StateAt(net, ptr), IndexSymbol(a))
    BY <2>3, <2>4, TaskNames DEF ListedUnder
  <2>6. Ahead = iptr
    BY <1>3 DEF Ahead
  <2> QED
    BY <2>1, <2>5, <2>6 DEF Lists
<1> QED
  BY <1>2, <1>3

\* The same after a step.
LEMMA NextEntered == Entered' => Whole'
BY EnteredWhole, PTL

-----------------------------------------------------------------------------

(***************************************************************************)
(* The lists an index gives have no line twice; the one saved begins with  *)
(* the line followed.  Where a state has been entered, all of its lines    *)
(* that match are ahead.                                                   *)
(***************************************************************************)
Saves(f) == f.has_index => Distinct(f.iptr) /\ f.iptr[1] = f.ptr

ListInv ==
  /\ net.index_in = {} /\ net.index_out = {} =>
       ~state_has_index /\ \A n \in DOMAIN searchstack : ~searchstack[n].has_index
  /\ AtState /\ state_has_index => Distinct(iptr)
  /\ \A n \in DOMAIN searchstack : Saves(searchstack[n])
  /\ pc \in {"enter", "result", "mark"} /\ Indexable => Whole
  /\ pc = "open" => ipos = 0

\* The lines ahead are of the state at hand, each once.
LEMMA AheadOnce ==
  ASSUME MarksInv, ListInv, pc = "follow"
  PROVE  /\ Ahead \in Seq(LinesOf(net, State)) /\ Distinct(Ahead)
<1>1. Ahead \in Seq(LinesOf(net, State)) /\ net \in Nets
  BY AheadType DEF MarksInv
<1>2. CASE state_has_index
  BY <1>1, <1>2 DEF ListInv, AtState, Ahead
<1>3. CASE ~state_has_index
  BY <1>1, <1>3, AheadInOrder DEF Lists
<1> QED
  BY <1>1, <1>2, <1>3

\* apply_set_iptr at line k, which is the first of its state.
LEMMA SetIptrEntered ==
  ASSUME net \in Nets, net' = net, mode' = mode, word' = word, SetIptr(ptr', ipos'),
         ptr' \in LinesIn(net),
         \A k \in LinesIn(net) : StateAt(net, k) = StateAt(net, ptr') => ptr' <= k,
         Indexable, Indexed = {} => ~state_has_index
  PROVE  Entered'
<1>1. CASE Indexed = {} \/ StateAt(net, ptr') \notin Indexed
  <2>1. ~state_has_index'
    BY <1>1 DEF SetIptr, StateAt, Line
  <2> QED
    BY <2>1 DEF Entered
<1>2. CASE Indexed # {} /\ StateAt(net, ptr') \in Indexed
  <2>1. mode # "words"
    BY <1>2 DEF Indexable
  <2>2. PICK a : /\ iptr' = IndexList(StateAt(net, ptr'), IndexSymbol(a))
                 /\ ipos' < Len(word) => a = word[ipos' + 1]
    BY <1>2 DEF SetIptr, StateAt, Line, sigmatch
  <2>3. Lists(iptr', ListedUnder(mode, net, StateAt(net, ptr'), IndexSymbol(a)))
    BY <2>2, IndexListLists
  <2>4. state_has_index'
    BY <1>2 DEF SetIptr, StateAt, Line
  <2> QED
    BY <2>1, <2>2, <2>3, <2>4 DEF Entered
<1> QED
  BY <1>1, <1>2

\* apply_set_iptr leaves a list with no line twice.
LEMMA SetIptrDistinct ==
  ASSUME net \in Nets, NEW k, NEW i, SetIptr(k, i), state_has_index => Distinct(iptr)
  PROVE  /\ state_has_index' => Distinct(iptr')
         /\ Indexed = {} => state_has_index' = state_has_index
<1>1. CASE Indexed = {}
  BY <1>1 DEF SetIptr
<1>2. CASE Indexed # {} /\ Line(k).state_no \notin Indexed
  BY <1>2 DEF SetIptr
<1>3. CASE Indexed # {} /\ Line(k).state_no \in Indexed
  <2>1. PICK a : iptr' = IndexList(Line(k).state_no, a)
    BY <1>3 DEF SetIptr
  <2> QED
    BY <1>3, <2>1, IndexListLists DEF Lists
<1> QED
  BY <1>1, <1>2, <1>3

-----------------------------------------------------------------------------

\* At first no list is in use.
LEMMA InitLists == Init => ListInv
<1> SUFFICES ASSUME Init PROVE ListInv
  OBVIOUS
<1>1. /\ searchstack = <<>> /\ state_has_index = FALSE /\ pc = "idle"
  BY DEF Init
<1> QED
  BY <1>1 DEF ListInv, AtState

\* Indexable is about the machine and the mode.
LEMMA SameIndexable ==
  ASSUME net' = net, mode' = mode
  PROVE  Indexable' <=> Indexable
BY DEF Indexable, Indexed

\* Where the handle has no index no list is in use.
LEMMA NoneIndexed ==
  ASSUME ListInv, Indexable
  PROVE  Indexed = {} => ~state_has_index
BY DEF ListInv, Indexable

\* A new word begins with the list of no entry.
LEMMA StartLists ==
  ASSUME ListInv, NEW m \in Modes, NEW w \in Words, Start(m, w), AnyStack(searchstack)
  PROVE  ListInv'
<1>1. /\ net' = net /\ searchstack' = <<>> /\ pc' = "open" /\ ipos' = 0
      /\ state_has_index' = IF searchstack = <<>> THEN state_has_index
                            ELSE Head(searchstack).has_index
  BY DEF Start
<1>2. searchstack # <<>> => 1 \in DOMAIN searchstack /\ Head(searchstack) = searchstack[1]
  BY DEF AnyStack
<1> QED
  BY <1>1, <1>2 DEF ListInv, AtState

\* The start state is entered with its list.
LEMMA OpenLists ==
  ASSUME MarksInv, RunInv, ListInv, Open
  PROVE  ListInv'
<1>1. /\ pc = "open" /\ pc' = "enter" /\ net' = net /\ mode' = mode /\ word' = word
      /\ searchstack' = searchstack /\ ptr' = ptr /\ ipos' = ipos /\ ptr = 0
      /\ IF Indexed = {} THEN iptr' = <<>> /\ state_has_index' = state_has_index ELSE SetIptr(0, 0)
  BY DEF Open, MarksInv
<1>2. net \in Nets
  BY DEF MarksInv
<1>3. state_has_index' => Distinct(iptr')
  <2>1. CASE Indexed = {}
    BY <1>1, <2>1 DEF Distinct
  <2>2. CASE Indexed # {} /\ StateAt(net, 0) \notin Indexed
    BY <1>1, <2>2 DEF SetIptr, Line, StateAt
  <2>3. CASE Indexed # {} /\ StateAt(net, 0) \in Indexed
    <3>1. PICK a : iptr' = IndexList(StateAt(net, 0), a)
      BY <1>1, <2>3 DEF SetIptr, Line, StateAt
    <3> QED
      BY <1>2, <3>1, IndexListLists DEF Lists
  <2> QED
    BY <2>1, <2>2, <2>3
<1>4. net.index_in = {} /\ net.index_out = {} => ~state_has_index'
  BY <1>1 DEF ListInv, Indexed
<1>5. Indexable => Entered'
  <2> SUFFICES ASSUME Indexable PROVE Entered'
    OBVIOUS
  <2>1. \A k \in LinesIn(net) : StateAt(net, k) = StateAt(net, 0) => 0 <= k
    BY <1>2, NetFacts
  <2>2. 0 \in LinesIn(net)
    BY <1>2, NetFacts
  <2>3. CASE Indexed = {}
    <3>1. ~state_has_index'
      BY <1>1, <2>3, NoneIndexed
    <3> QED
      BY <1>1, <1>2, <2>1, <3>1 DEF Entered
  <2>4. CASE Indexed # {}
    <3>1. SetIptr(ptr', ipos')
      <4>1. ipos = 0
        BY <1>1 DEF ListInv
      <4> QED
        BY <1>1, <2>4, <4>1
    <3> QED
      BY ONLY <1>1, <1>2, <2>1, <2>2, <2>4, <3>1, Indexable, SetIptrEntered
  <2> QED
    BY <2>3, <2>4
<1>6. Indexable' => Whole'
  BY <1>1, <1>5, SameIndexable, NextEntered
<1> QED
  BY <1>1, <1>3, <1>4, <1>6 DEF ListInv

\* What is saved with a line begins with it; the target is entered with its list.
LEMMA FollowLists ==
  ASSUME MarksInv, RunInv, ListInv, NEW n \in NextArc, FollowArc(n)
  PROVE  ListInv'
<1>1. PICK k, e : /\ k = Ahead[n]
                  /\ searchstack' = Append(searchstack, e)
                  /\ e.ptr = k /\ e.has_index = state_has_index
                  /\ e.iptr = IF state_has_index THEN SubSeq(iptr, n, Len(iptr)) ELSE iptr
  BY FollowFacts
<1>2. /\ pc = "follow" /\ pc' = "enter" /\ net' = net /\ mode' = mode /\ word' = word
      /\ n \in 1..Len(Ahead) /\ Ahead \in Seq(LinesOf(net, State))
      /\ k \in LinesIn(net) /\ TargetOf(net, k) # -1
      /\ ptr' = statemap(TargetOf(net, k)) /\ SetIptr(ptr', ipos')
  BY <1>1, FollowFacts
<1>3. net \in Nets /\ AnyStack(searchstack)
  BY DEF MarksInv
<1>4. /\ ptr' \in LinesIn(net)
      /\ \A m \in LinesIn(net) : StateAt(net, m) = StateAt(net, ptr') => ptr' <= m
  <2>1. \E j \in LinesIn(net) : StateAt(net, j) = TargetOf(net, k)
    BY <1>2, <1>3, NetFacts
  <2> QED
    BY <1>2, <1>3, <2>1, StatemapType
<1>5. state_has_index => Distinct(iptr)
  BY <1>2 DEF ListInv, AtState
<1>6. /\ state_has_index' => Distinct(iptr')
      /\ Indexed = {} => state_has_index' = state_has_index
  BY ONLY <1>2, <1>3, <1>5, SetIptrDistinct
<1>7. net.index_in = {} /\ net.index_out = {} => ~state_has_index' /\ ~e.has_index
  BY <1>1, <1>6 DEF ListInv, Indexed
<1>8. Saves(e)
  <2> SUFFICES ASSUME state_has_index
               PROVE  Distinct(e.iptr) /\ e.iptr[1] = k
    BY <1>1 DEF Saves
  <2>1. Ahead = iptr /\ Distinct(iptr)
    BY <1>5 DEF Ahead
  <2>2. e.iptr = SubSeq(iptr, n, Len(iptr)) /\ k = iptr[n]
    BY <1>1, <2>1
  <2> QED
    BY <1>2, <2>1, <2>2, SubSeqLists
<1>9. \A i \in DOMAIN searchstack' : \/ i \in DOMAIN searchstack /\ searchstack'[i] = searchstack[i]
                                    \/ searchstack'[i] = e
  <2>1. PICK S : searchstack \in Seq(S)
    BY <1>3 DEF AnyStack
  <2>2. searchstack \in Seq(S \cup {e})
    BY <2>1
  <2> QED
    BY <1>1, <2>2
<1>10. \A i \in DOMAIN searchstack' : Saves(searchstack'[i])
  BY <1>8, <1>9 DEF ListInv
<1>11. Indexable => Entered'
  <2> SUFFICES ASSUME Indexable PROVE Entered'
    OBVIOUS
  <2>1. Indexed = {} => ~state_has_index
    BY NoneIndexed
  <2> QED
    BY ONLY <1>2, <1>3, <1>4, <2>1, Indexable, SetIptrEntered
<1>12. Indexable' => Whole'
  BY <1>2, <1>11, SameIndexable, NextEntered
<1>13. net.index_in = {} /\ net.index_out = {} => \A i \in DOMAIN searchstack' : ~searchstack'[i].has_index
  BY <1>7, <1>9 DEF ListInv
<1> QED
  BY <1>2, <1>6, <1>7, <1>10, <1>12, <1>13 DEF ListInv

\* An entry popped gives back the rest of its list.
LEMMA PopLists ==
  ASSUME MarksInv, ListInv, Pop
  PROVE  ListInv'
<1>1. PICK f : f = Last(searchstack)
  OBVIOUS
<1>2. /\ searchstack # <<>> /\ searchstack' = Front(searchstack)
      /\ net' = net /\ state_has_index' = f.has_index /\ pc' \in {"pop", "follow"}
      /\ pc' = "follow" /\ f.has_index => iptr' = Tail(f.iptr)
  BY <1>1 DEF Pop
<1>3. PICK S : searchstack \in Seq(S)
  BY DEF MarksInv, AnyStack
<1>4. /\ \A i \in DOMAIN searchstack' : i \in DOMAIN searchstack /\ searchstack'[i] = searchstack[i]
      /\ Len(searchstack) \in DOMAIN searchstack /\ f = searchstack[Len(searchstack)]
  BY <1>1, <1>2, <1>3, FrontType DEF Last
<1>5. Saves(f) /\ FrameOK(net, Indexed, f)
  BY <1>4 DEF ListInv, MarksInv
<1>6. f.has_index => Distinct(Tail(f.iptr))
  BY <1>5, TailLists DEF Saves, FrameOK
<1>7. net.index_in = {} /\ net.index_out = {} =>
        ~f.has_index /\ \A i \in DOMAIN searchstack' : ~searchstack'[i].has_index
  BY <1>4 DEF ListInv
<1>8. \A i \in DOMAIN searchstack' : Saves(searchstack'[i])
  BY <1>4 DEF ListInv
<1> QED
  BY <1>2, <1>6, <1>7, <1>8 DEF ListInv, AtState

\* Every step keeps the lists right.
LEMMA NextLists == MarksInv /\ RunInv /\ ListInv /\ [Next]_vars => ListInv'
<1> SUFFICES ASSUME MarksInv, RunInv, ListInv, [Next]_vars
             PROVE  ListInv'
  OBVIOUS
<1>1. ASSUME NEW m \in Modes, NEW w \in Words, Start(m, w)
      PROVE  ListInv'
  BY <1>1, StartLists DEF RunInv
<1>2. ASSUME NEW n \in NextArc, FollowArc(n)
      PROVE  ListInv'
  BY <1>2, FollowLists
<1>3. CASE Pop
  BY <1>3, PopLists
<1>4. CASE Open
  BY <1>4, OpenLists
<1>5. CASE /\ UNCHANGED <<net, mode, word, ptr, ipos, searchstack, iptr, state_has_index>>
           /\ pc' # "open" /\ (AtState' => AtState)
           /\ (pc' \in {"enter", "result", "mark"} => pc \in {"enter", "result", "mark"})
  <2>1. Indexable' <=> Indexable
    BY <1>5, SameIndexable
  <2>2. Whole' <=> Whole
    BY <1>5 DEF Whole, Ahead, State, Line, LineNo, MatchLength, symin, sigmatch
  <2> QED
    BY ONLY ListInv, <1>5, <2>1, <2>2 DEF ListInv
<1>6. CASE Enter
  BY <1>5, <1>6 DEF Enter, AtState
<1>7. CASE MarkState
  BY <1>5, <1>7 DEF MarkState, AtState
<1>8. CASE NoArc
  BY <1>5, <1>8 DEF NoArc, AtState
<1>9. CASE Exhausted
  BY <1>5, <1>9 DEF Exhausted, AtState
<1>10. CASE Again
  BY <1>5, <1>10 DEF Again, AtState
<1>11. CASE Reset
  BY <1>5, <1>11 DEF Reset, AtState
<1>12. CASE UNCHANGED vars
  <2>1. Indexable' <=> Indexable
    BY <1>12, SameIndexable DEF vars
  <2>2. Whole' <=> Whole
    BY <1>12 DEF vars, Whole, Ahead, State, Line, LineNo, MatchLength, symin, sigmatch
  <2> QED
    BY ONLY ListInv, <1>12, <2>1, <2>2 DEF ListInv, vars, AtState
<1> QED
  BY <1>1, <1>2, <1>3, <1>4, <1>6, <1>7, <1>8, <1>9, <1>10, <1>11, <1>12 DEF Next, Search

-----------------------------------------------------------------------------

(***************************************************************************)
(* Where no loop consumes nothing: f numbers the states so that whatever   *)
(* consumes nothing leads upwards.                                         *)
(***************************************************************************)
StatesOf(n) == {StateAt(n, k) : k \in LinesIn(n)}

Upwards(t, f) ==
  /\ f \in [StatesOf(t.net) -> StatesOf(t.net)]
  /\ \A k \in LinesIn(t.net) :
       /\ TargetOf(t.net, k) # -1
       /\ t.mode = "words" \/ SymIn(t.mode, t.net, k) = Epsilon \/ IsFlag(SymIn(t.mode, t.net, k))
       => f[StateAt(t.net, k)] < f[TargetOf(t.net, k)]

Before(f, c, d) == c.ipos < d.ipos \/ (c.ipos = d.ipos /\ f[c.state] < f[d.state])

\* LoopFree in terms of the task.
LEMMA LoopFreeTask == LoopFree <=> \E f : Upwards(Task, f)
<1>1. States = StatesOf(net)
  BY DEF States, StatesOf, LineNo, LinesIn, Line, StateAt
<1>2. \A f \in [States -> States] :
        Upwards(Task, f) <=>
          \A k \in LineNo : Line(k).target # -1 /\ (mode = "words" \/ symin(k) = Epsilon \/
                                                    IsFlag(symin(k)))
                              => f[Line(k).state_no] < f[Line(k).target]
  BY <1>1, TaskNames DEF Upwards
<1>3. \A f : Upwards(Task, f) => f \in [States -> States]
  BY <1>1, TaskNames DEF Upwards
<1> QED
  BY ONLY <1>2, <1>3 DEF LoopFree

\* A place the search may stand at, as numbers.
LEMMA PlaceType ==
  ASSUME NEW t, IsTask(t), NEW f, Upwards(t, f), NEW c, Config(t, c)
  PROVE  c.ipos \in Nat /\ c.state \in StatesOf(t.net) /\ f[c.state] \in Nat
<1>1. c.state \in StatesOf(t.net) /\ c.ipos \in 0..Len(t.word) /\ Len(t.word) \in Nat
  BY DEF Config, StatesOf, IsTask
<1>2. \A s \in StatesOf(t.net) : s \in Nat
  BY NetFacts DEF StatesOf, IsTask
<1>3. f[c.state] \in StatesOf(t.net)
  BY <1>1 DEF Upwards
<1> QED
  BY <1>1, <1>2, <1>3

\* A line leads on in the word, or upwards.
LEMMA MovesUp ==
  ASSUME NEW t, IsTask(t), NEW f, Upwards(t, f), NEW c, Config(t, c),
         NEW k, NEW d, Moves(t, k, c, d)
  PROVE  Before(f, c, d)
<1> DEFINE a == SymIn(t.mode, t.net, k)
<1>1. /\ k \in LinesIn(t.net) /\ StateAt(t.net, k) = c.state /\ TargetOf(t.net, k) # -1
      /\ Eats(t, a, c.ipos) # -1
  BY DEF Moves
<1>2. d.state = TargetOf(t.net, k) /\ d.ipos = c.ipos + Eats(t, a, c.ipos)
  BY MovesType
<1>3. c.ipos \in Nat
  BY PlaceType
<1>4. CASE t.mode = "words" \/ a = Epsilon \/ IsFlag(a)
  <2>1. Eats(t, a, c.ipos) = 0
    BY <1>4 DEF Eats
  <2>2. f[c.state] < f[d.state]
    BY <1>1, <1>2, <1>4 DEF Upwards
  <2> QED
    BY <1>2, <1>3, <2>1, <2>2 DEF Before
<1>5. CASE ~(t.mode = "words" \/ a = Epsilon \/ IsFlag(a))
  <2>1. Eats(t, a, c.ipos) = 1
    BY <1>1, <1>5 DEF Eats
  <2> QED
    BY <1>2, <1>3, <2>1 DEF Before
<1> QED
  BY <1>4, <1>5

\* And so does any part of a path.
LEMMA PathUp ==
  ASSUME NEW t, IsTask(t), NEW f, Upwards(t, f), NEW p, NEW h, Trace(t, p, h), Len(p) \in Nat,
         NEW i \in 0..Len(p), NEW j \in 0..Len(p), i < j
  PROVE  Before(f, h[i], h[j])
<1> DEFINE M == {n \in 0..Len(p) : i < n /\ ~Before(f, h[i], h[n])}
<1> SUFFICES ASSUME M # {} PROVE FALSE
  OBVIOUS
<1>1. PICK n \in M : \A m \in M : n <= m
  <2>1. M \in SUBSET Nat
    OBVIOUS
  <2> HIDE DEF M
  <2> QED
    BY <2>1, LeastOf
<1>2. n \in 1..Len(p) /\ n - 1 \in 0..Len(p) /\ i <= n - 1 /\ ~(n <= n - 1)
  BY <1>1
<1>3. Moves(t, p[n], h[n - 1], h[n])
  BY <1>2 DEF Trace
<1>4. PICK b, c, d : b = h[i] /\ c = h[n - 1] /\ d = h[n]
  OBVIOUS
<1>5. Config(t, b) /\ Config(t, c) /\ Config(t, d)
  BY <1>2, <1>4 DEF Trace
<1>6. Before(f, c, d)
  BY <1>3, <1>4, <1>5, MovesUp
<1>7. b = c \/ Before(f, b, c)
  <2>1. CASE i = n - 1
    BY <1>4, <2>1
  <2>2. CASE i # n - 1
    <3>1. i < n - 1 /\ n - 1 \notin M
      BY <1>1, <1>2, <2>2
    <3> QED
      BY <1>2, <1>4, <3>1
  <2> QED
    BY <2>1, <2>2
<1>8. /\ b.ipos \in Nat /\ f[b.state] \in Nat /\ c.ipos \in Nat /\ f[c.state] \in Nat
      /\ d.ipos \in Nat /\ f[d.state] \in Nat
  BY <1>5, PlaceType
<1>9. Before(f, b, d)
  <2>1. CASE b = c
    BY ONLY <1>6, <2>1
  <2>2. CASE Before(f, b, c)
    BY ONLY <1>6, <1>8, <2>2, SMTT(30) DEF Before
  <2> QED
    BY ONLY <1>7, <2>1, <2>2
<1> QED
  BY <1>1, <1>4, <1>9

\* The path has not been at the state and position at hand before.
LEMMA NewPlace ==
  ASSUME RunInv, LoopFree, NEW k \in DOMAIN searchstack
  PROVE  ~(StateAt(net, searchstack[k].ptr) = StateAt(net, ptr) /\ searchstack[k].ipos = ipos)
<1>1. PICK f : Upwards(Task, f)
  BY LoopFreeTask
<1>2. PICK h : RunOf(Task, searchstack, h) /\ h[Len(searchstack)] = Here
  BY DEF RunInv, HasRun
<1>3. PICK S : searchstack \in Seq(S)
  BY DEF RunInv, AnyStack
<1>4. PICK L \in Nat : L = Len(searchstack) /\ Len(PathOf(searchstack)) = L
  BY <1>3 DEF PathOf
<1>5. k \in 1..L /\ k - 1 \in 0..L /\ L \in 0..L /\ k - 1 < L
  BY <1>3, <1>4
<1>6. Before(f, h[k - 1], h[L])
  <2>1. Trace(Task, PathOf(searchstack), h) /\ IsTask(Task)
    BY <1>2 DEF RunOf, RunInv
  <2> QED
    BY <1>1, <1>4, <1>5, <2>1, PathUp
<1>7. Moves(Task, searchstack[k].ptr, h[k - 1], h[k]) /\ LeftAt(searchstack[k], h[k - 1], h[k])
  BY <1>2, <1>3, <1>4, <1>5 DEF RunOf, Trace, PathOf
<1>8. StateAt(net, searchstack[k].ptr) = h[k - 1].state /\ searchstack[k].ipos = h[k - 1].ipos
  BY <1>7, TaskNames DEF Moves, LeftAt
<1>9. h[L].state = StateAt(net, ptr) /\ h[L].ipos = ipos
  BY <1>2, <1>4 DEF Here
<1>10. Config(Task, h[L]) /\ IsTask(Task)
  BY <1>2, <1>4, <1>5 DEF RunOf, Trace, RunInv
<1>11. f[h[L].state] \in Nat /\ h[L].ipos \in Nat
  BY <1>1, <1>10, PlaceType
<1> QED
  BY <1>6, <1>8, <1>9, <1>11 DEF Before

-----------------------------------------------------------------------------

(***************************************************************************)
(* Then no state is marked as seen twice: a mark is that of a visit on the *)
(* path.                                                                   *)
(***************************************************************************)
VisitedAt(n, st, s, m) == \E k \in DOMAIN st : StateAt(n, st[k].ptr) = s /\ m = st[k].ipos + 1

Positive ==
  LoopFree =>
    /\ pc = "follow" => marks[StateAt(net, ptr)] = ipos + 1
    /\ \A k \in DOMAIN searchstack : searchstack[k].mark = searchstack[k].ipos + 1
    /\ \A s \in States : marks[s] # 0 => \/ pc = "follow" /\ s = StateAt(net, ptr)
                                         \/ VisitedAt(net, searchstack, s, marks[s])

\* LoopFree is about the machine and the mode.
LEMMA SameLoopFree ==
  ASSUME net' = net, mode' = mode
  PROVE  (LoopFree' <=> LoopFree) /\ States' = States
BY DEF LoopFree, States, LineNo, Line, symin

\* At first nothing is marked.
LEMMA InitPositive == Init => Positive
<1> SUFFICES ASSUME Init PROVE Positive
  OBVIOUS
<1>1. searchstack = <<>> /\ marks = [s \in States |-> 0] /\ pc = "idle"
  BY DEF Init
<1> QED
  BY <1>1 DEF Positive

\* The mark of a state left is that of the visit pushed.
LEMMA FollowPositive ==
  ASSUME MarksInv, RunInv, Positive, NEW n \in NextArc, FollowArc(n)
  PROVE  Positive'
<1>1. PICK k, e : /\ searchstack' = Append(searchstack, e)
                  /\ e.ptr = k /\ e.ipos = ipos /\ e.mark = marks[State]
                  /\ StateAt(net, k) = State
  BY FollowFacts
<1>2. /\ pc = "follow" /\ pc' = "enter" /\ net' = net /\ mode' = mode /\ marks' = marks
  BY FollowFacts
<1>3. LoopFree' <=> LoopFree
  BY <1>2, SameLoopFree
<1>4. States' = States
  BY <1>2, SameLoopFree
<1>5. PICK S : searchstack \in Seq(S)
  BY DEF RunInv, AnyStack
<1>6. PICK L \in Nat : /\ L = Len(searchstack) /\ DOMAIN searchstack = 1..L
                       /\ DOMAIN searchstack' = 1..(L + 1) /\ searchstack'[L + 1] = e
                       /\ \A i \in 1..L : searchstack'[i] = searchstack[i]
  <2>1. searchstack \in Seq(S \cup {e})
    BY <1>5
  <2> QED
    BY <1>1, <2>1
<1>7. \A i \in 1..(L + 1) : i \in 1..L \/ i = L + 1
  OBVIOUS
<1>8. \A i \in 1..L : i \in 1..(L + 1)
  OBVIOUS
<1>9. L + 1 \in 1..(L + 1)
  OBVIOUS
<1>10. State = StateAt(net, ptr)
  BY DEF State, StateAt, Line
<1> SUFFICES ASSUME LoopFree
             PROVE  /\ \A i \in 1..(L + 1) : searchstack'[i].mark = searchstack'[i].ipos + 1
                    /\ \A s \in States : marks[s] # 0 => VisitedAt(net, searchstack', s, marks[s])
  BY <1>2, <1>3, <1>4, <1>6 DEF Positive
<1>11. \A i \in 1..(L + 1) : searchstack'[i].mark = searchstack'[i].ipos + 1
  <2>1. e.mark = e.ipos + 1
    BY <1>1, <1>2, <1>10 DEF Positive
  <2>2. \A i \in 1..L : searchstack[i].mark = searchstack[i].ipos + 1
    BY <1>6 DEF Positive
  <2> QED
    BY ONLY <1>6, <1>7, <2>1, <2>2
<1>12. ASSUME NEW s \in States, marks[s] # 0
       PROVE  VisitedAt(net, searchstack', s, marks[s])
  <2>1. CASE s = State
    <3>1. marks[s] = e.ipos + 1 /\ StateAt(net, e.ptr) = s
      BY <1>1, <1>2, <1>10, <2>1 DEF Positive
    <3> QED
      BY <1>6, <1>9, <3>1 DEF VisitedAt
  <2>2. CASE s # State
    <3>1. VisitedAt(net, searchstack, s, marks[s])
      BY <1>10, <1>12, <2>2 DEF Positive
    <3> QED
      BY <1>6, <1>8, <3>1 DEF VisitedAt
  <2> QED
    BY <2>1, <2>2
<1> QED
  BY <1>11, <1>12

\* An entry popped gives its visit its mark back, or the state is unmarked.
LEMMA PopPositive ==
  ASSUME MarksInv, RunInv, Positive, Pop
  PROVE  Positive'
<1>1. PICK f : f = Last(searchstack)
  OBVIOUS
<1>2. /\ searchstack # <<>> /\ searchstack' = Front(searchstack)
      /\ net' = net /\ mode' = mode /\ ipos' = f.ipos
      /\ \/ /\ pc' = "pop" /\ marks' = [marks EXCEPT ![StateAt(net, f.ptr)] = 0]
         \/ /\ pc' = "follow" /\ marks' = [marks EXCEPT ![StateAt(net, f.ptr)] = f.mark]
            /\ StateAt(net, ptr') = StateAt(net, f.ptr)
  <2>1. CASE AtLastArc(f)
    BY <1>1, <2>1 DEF Pop, StateAt, Line
  <2>2. CASE ~AtLastArc(f)
    BY <1>1, <2>2 DEF Pop, AtLastArc, StateAt, Line
  <2> QED
    BY <2>1, <2>2
<1>3. (LoopFree' <=> LoopFree) /\ States' = States
  BY <1>2, SameLoopFree
<1>4. PICK S : searchstack \in Seq(S)
  BY DEF RunInv, AnyStack
<1>5. /\ \A i \in DOMAIN searchstack' : i \in DOMAIN searchstack /\ searchstack'[i] = searchstack[i]
      /\ Len(searchstack) \in DOMAIN searchstack /\ f = searchstack[Len(searchstack)]
      /\ \A i \in DOMAIN searchstack : i \in DOMAIN searchstack' \/ i = Len(searchstack)
  BY <1>1, <1>2, <1>4, FrontType DEF Last
<1>6. marks = [s \in States |-> marks[s]]
  BY DEF MarksInv
<1> SUFFICES ASSUME LoopFree
             PROVE  /\ pc' = "follow" => marks'[StateAt(net, ptr')] = ipos' + 1
                    /\ \A k \in DOMAIN searchstack' : searchstack'[k].mark = searchstack'[k].ipos + 1
                    /\ \A s \in States : marks'[s] # 0 =>
                         \/ pc' = "follow" /\ s = StateAt(net, ptr')
                         \/ VisitedAt(net, searchstack', s, marks'[s])
  BY <1>2, <1>3 DEF Positive
<1>7. \A k \in DOMAIN searchstack : searchstack[k].mark = searchstack[k].ipos + 1
  BY DEF Positive
<1>8. StateAt(net, f.ptr) \in States
  <2>1. f.ptr \in LinesIn(net)
    <3>1. PICK h : RunOf(Task, searchstack, h)
      BY DEF RunInv, HasRun
    <3>2. Moves(Task, f.ptr, h[Len(searchstack) - 1], h[Len(searchstack)])
      <4>1. IsTask(Task) /\ AnyStack(searchstack)
        BY DEF RunInv
      <4> QED
        BY ONLY <1>1, <1>2, <3>1, <4>1, RunShrinks
    <3> QED
      BY <3>2, TaskNames DEF Moves
  <2> QED
    BY <2>1, TaskNames DEF States
<1>9. pc' = "follow" => marks'[StateAt(net, ptr')] = ipos' + 1
  BY <1>2, <1>5, <1>6, <1>7, <1>8
<1>10. ASSUME NEW s \in States, marks'[s] # 0, ~(pc' = "follow" /\ s = StateAt(net, ptr'))
       PROVE  VisitedAt(net, searchstack', s, marks'[s])
  <2>1. s # StateAt(net, f.ptr) /\ marks'[s] = marks[s]
    BY <1>2, <1>6, <1>10
  <2>2. VisitedAt(net, searchstack, s, marks[s])
    BY <1>10, <2>1 DEF Positive, Pop
  <2> QED
    BY <1>5, <2>1, <2>2 DEF VisitedAt
<1> QED
  BY <1>5, <1>7, <1>9, <1>10

\* Every step keeps each mark that of a visit on the path.
LEMMA NextPositive == MarksInv /\ MarksInv' /\ RunInv /\ Positive /\ [Next]_vars => Positive'
<1> SUFFICES ASSUME MarksInv, MarksInv', RunInv, Positive, [Next]_vars
             PROVE  Positive'
  OBVIOUS
<1>0. marks = [s \in States |-> marks[s]] /\ StateAt(net, ptr) \in States
  <2>1. marks = [s \in States |-> marks[s]]
    BY DEF MarksInv
  <2> QED
    BY <2>1, TaskNames DEF RunInv, States
<1>1. ASSUME NEW m \in Modes, NEW w \in Words, Start(m, w)
      PROVE  Positive'
  <2>1. searchstack' = <<>> /\ pc' = "open"
    BY <1>1 DEF Start
  <2>2. \A s \in States' : marks'[s] = 0
    BY <2>1 DEF MarksInv, OnPath
  <2> QED
    BY <2>1, <2>2 DEF Positive
<1>2. ASSUME NEW n \in NextArc, FollowArc(n)
      PROVE  Positive'
  BY <1>2, FollowPositive
<1>3. CASE Pop
  BY <1>3, PopPositive
<1>4. CASE MarkState
  <2>1. /\ pc = "mark" /\ pc' = "follow" /\ net' = net /\ mode' = mode
        /\ searchstack' = searchstack /\ ptr' = ptr /\ ipos' = ipos
        /\ marks' = [marks EXCEPT ![StateAt(net, ptr)] = IF @ = ipos + 1 THEN -(ipos + 1) ELSE ipos + 1]
    BY <1>4 DEF MarkState, State, StateAt, Line
  <2>2. (LoopFree' <=> LoopFree) /\ States' = States
    BY <2>1, SameLoopFree
  <2> SUFFICES ASSUME LoopFree
               PROVE  /\ marks'[StateAt(net, ptr)] = ipos + 1
                      /\ \A s \in States : s # StateAt(net, ptr) => marks'[s] = marks[s]
    BY <2>1, <2>2 DEF Positive
  <2>3. marks[StateAt(net, ptr)] # ipos + 1
    <3> SUFFICES ASSUME marks[StateAt(net, ptr)] = ipos + 1 PROVE FALSE
      OBVIOUS
    <3>1. ipos \in Nat
      <4>1. PICK h : RunOf(Task, searchstack, h) /\ h[Len(searchstack)] = Here
        BY DEF RunInv, HasRun
      <4>2. PICK S : searchstack \in Seq(S)
        BY DEF RunInv, AnyStack
      <4>3. Len(searchstack) \in 0..Len(PathOf(searchstack))
        BY <4>2 DEF PathOf
      <4>4. Config(Task, Here) /\ IsTask(Task)
        BY <4>1, <4>3 DEF RunOf, Trace, RunInv
      <4> QED
        BY <4>4 DEF Config, Here, IsTask
    <3>2. VisitedAt(net, searchstack, StateAt(net, ptr), ipos + 1)
      BY <1>0, <2>1, <3>1 DEF Positive
    <3>3. PICK k \in DOMAIN searchstack : /\ StateAt(net, searchstack[k].ptr) = StateAt(net, ptr)
                                          /\ ipos + 1 = searchstack[k].ipos + 1
      BY <3>2 DEF VisitedAt
    <3>4. searchstack[k].ipos \in Nat
      <4>1. PICK h : RunOf(Task, searchstack, h)
        BY DEF RunInv, HasRun
      <4>2. PICK S : searchstack \in Seq(S)
        BY DEF RunInv, AnyStack
      <4>3. /\ Len(searchstack) = Len(PathOf(searchstack)) /\ k \in 1..Len(searchstack)
            /\ k - 1 \in 0..Len(searchstack)
        BY <4>2 DEF PathOf
      <4>4. Config(Task, h[k - 1]) /\ IsTask(Task) /\ searchstack[k].ipos = h[k - 1].ipos
        BY <4>1, <4>3 DEF RunOf, Trace, RunInv, LeftAt
      <4> QED
        BY <4>4 DEF Config, IsTask
    <3> QED
      BY <3>1, <3>3, <3>4, NewPlace
  <2> QED
    BY <1>0, <2>1, <2>3
<1>5. CASE NoArc
  <2>1. /\ pc = "follow" /\ pc' = "pop" /\ net' = net /\ mode' = mode
        /\ searchstack' = searchstack
        /\ marks' = [marks EXCEPT ![StateAt(net, ptr)] = 0]
    BY <1>5 DEF NoArc, State, StateAt, Line
  <2>2. (LoopFree' <=> LoopFree) /\ States' = States
    BY <2>1, SameLoopFree
  <2> QED
    BY <1>0, <2>1, <2>2 DEF Positive
<1>6. CASE /\ UNCHANGED <<net, mode, searchstack, marks>> /\ pc # "follow" /\ pc' # "follow"
  <2>2. (LoopFree' <=> LoopFree) /\ States' = States
    BY <1>6, SameLoopFree
  <2> QED
    BY <1>6, <2>2 DEF Positive
<1>7. CASE Enter
  BY <1>6, <1>7 DEF Enter
<1>8. CASE Open
  BY <1>6, <1>8 DEF Open
<1>9. CASE Exhausted
  BY <1>6, <1>9 DEF Exhausted
<1>10. CASE Again
  BY <1>6, <1>10 DEF Again
<1>11. CASE Reset
  <2>1. /\ pc' = "idle" /\ net' = net /\ mode' = mode
        /\ searchstack' = searchstack /\ marks' = [s \in States |-> 0]
    BY <1>11 DEF Reset
  <2>2. (LoopFree' <=> LoopFree) /\ States' = States /\ \A s \in States : marks'[s] = 0
    BY <2>1, SameLoopFree
  <2> QED
    BY <2>1, <2>2 DEF Positive
<1>12. CASE UNCHANGED vars
  <2>1. (LoopFree' <=> LoopFree) /\ States' = States
    BY <1>12, SameLoopFree DEF vars
  <2> QED
    BY <1>12, <2>1 DEF Positive, vars
<1> QED
  BY <1>1, <1>2, <1>3, <1>4, <1>5, <1>7, <1>8, <1>9, <1>10, <1>11, <1>12 DEF Next, Search

-----------------------------------------------------------------------------

(***************************************************************************)
(* The accepting paths, and those of them that are still to come: they go  *)
(* on from where the search stands, or by a line left behind on the stack. *)
(***************************************************************************)
AcceptsAt(t, c) ==
  /\ \E k \in LinesIn(t.net) : StateAt(t.net, k) = c.state /\ FinalAt(t.net, k)
  /\ t.mode = "words" \/ c.ipos = Len(t.word)

Accepted(t, p) ==
  p \in Seq(LinesIn(t.net)) /\ \E h : Trace(t, p, h) /\ AcceptsAt(t, h[Len(p)])

\* The lines still to be tried when the entry f is popped.
Left(n, f) == IF f.has_index THEN {f.iptr[j] : j \in 2..Len(f.iptr)}
              ELSE {k \in LinesOf(n, StateAt(n, f.ptr)) : k > f.ptr}

Begins(p, st, n) == n <= Len(p) /\ \A j \in 1..n : p[j] = st[j].ptr
GoesOn(p, st) == Begins(p, st, Len(st)) /\ Len(st) < Len(p)

Pending(nt, st, p) ==
  \E n \in 0..(Len(st) - 1) : Begins(p, st, n) /\ n < Len(p) /\ p[n + 1] \in Left(nt, st[n + 1])

ToCome(p) ==
  \/ Pending(net, searchstack, p)
  \/ pc \in {"open", "enter"} /\ Begins(p, searchstack, Len(searchstack))
  \/ pc \in {"result", "mark"} /\ GoesOn(p, searchstack)
  \/ pc = "follow" /\ GoesOn(p, searchstack) /\ p[Len(searchstack) + 1] \in Members(Ahead)

\* Of the accepting paths, each has been returned, once, or is still to come.
Complete ==
  /\ AnyStack(returned)
  /\ pc = "exhausted" => searchstack = <<>>
  /\ LoopFree /\ Indexable /\ pc # "idle" =>
       /\ \A p : Accepted(Task, p) => (p \in Members(returned) <=> ~ToCome(p))
       /\ \A p \in Members(returned) : Accepted(Task, p)
       /\ Distinct(returned)

-----------------------------------------------------------------------------

Grown(st, st2, L) == Len(st) = L /\ Len(st2) = L + 1 /\ \A n \in 1..L : st2[n] = st[n]

\* What a stack with one more entry has pending.
LEMMA Stacked ==
  ASSUME NEW nt, NEW st, NEW st2, NEW L \in Nat, Grown(st, st2, L), NEW p, Len(p) \in Nat
  PROVE  /\ Begins(p, st2, L + 1) <=> GoesOn(p, st) /\ p[L + 1] = st2[L + 1].ptr
         /\ Pending(nt, st2, p) <=> \/ Pending(nt, st, p)
                                    \/ GoesOn(p, st) /\ p[L + 1] \in Left(nt, st2[L + 1])
<1>0. Len(st) = L /\ Len(st2) = L + 1 /\ \A n \in 1..L : st2[n] = st[n]
  BY DEF Grown
<1>1. /\ \A n \in 1..(L + 1) : n \in 1..L \/ n = L + 1
      /\ \A n \in 1..L : n \in 1..(L + 1)
      /\ \A n \in 0..((L + 1) - 1) : n \in 0..(L - 1) \/ n = L
      /\ \A n \in 0..(L - 1) : n \in 0..((L + 1) - 1) /\ n + 1 \in 1..L
      /\ \A n \in 0..L : \A j \in 1..n : j \in 1..L
      /\ L \in 0..L /\ L \in 0..((L + 1) - 1) /\ L + 1 \in 1..(L + 1)
      /\ \A n \in 0..(L - 1) : n \in 0..L
      /\ L + 1 <= Len(p) <=> L < Len(p)
      /\ L < Len(p) => L <= Len(p)
  BY <1>0
<1>2. \A n \in 0..L : Begins(p, st2, n) <=> Begins(p, st, n)
  <2> SUFFICES ASSUME NEW n \in 0..L
               PROVE  Begins(p, st2, n) <=> Begins(p, st, n)
    OBVIOUS
  <2>1. \A j \in 1..n : st2[j] = st[j]
    BY <1>0, <1>1
  <2> QED
    BY <2>1 DEF Begins
<1>3. Begins(p, st2, L + 1) <=> GoesOn(p, st) /\ p[L + 1] = st2[L + 1].ptr
  BY <1>0, <1>1 DEF Begins, GoesOn
<1>4. Pending(nt, st2, p) <=> \/ Pending(nt, st, p)
                              \/ GoesOn(p, st) /\ p[L + 1] \in Left(nt, st2[L + 1])
  <2>1. ASSUME Pending(nt, st2, p)
        PROVE  \/ Pending(nt, st, p)
               \/ GoesOn(p, st) /\ p[L + 1] \in Left(nt, st2[L + 1])
    <3>1. PICK n \in 0..((L + 1) - 1) : Begins(p, st2, n) /\ n < Len(p) /\ p[n + 1] \in Left(nt, st2[n + 1])
      BY <1>0, <2>1 DEF Pending
    <3>2. CASE n = L
      BY <1>0, <1>1, <1>2, <3>1, <3>2 DEF GoesOn
    <3>3. CASE n \in 0..(L - 1)
      <4>1. Begins(p, st, n) /\ st2[n + 1] = st[n + 1]
        BY <1>0, <1>1, <1>2, <3>1, <3>3
      <4> QED
        BY <1>0, <3>1, <3>3, <4>1 DEF Pending
    <3> QED
      BY <1>1, <3>2, <3>3
  <2>2. ASSUME Pending(nt, st, p)
        PROVE  Pending(nt, st2, p)
    <3>1. PICK n \in 0..(L - 1) : Begins(p, st, n) /\ n < Len(p) /\ p[n + 1] \in Left(nt, st[n + 1])
      BY <1>0, <2>2 DEF Pending
    <3>2. Begins(p, st2, n) /\ st2[n + 1] = st[n + 1] /\ n \in 0..((L + 1) - 1)
      BY <1>0, <1>1, <1>2, <3>1
    <3> QED
      BY <1>0, <3>1, <3>2 DEF Pending
  <2>3. ASSUME GoesOn(p, st), p[L + 1] \in Left(nt, st2[L + 1])
        PROVE  Pending(nt, st2, p)
    <3>1. Begins(p, st2, L) /\ L < Len(p) /\ L \in 0..((L + 1) - 1)
      BY <1>0, <1>1, <1>2, <2>3 DEF GoesOn
    <3> QED
      BY <1>0, <2>3, <3>1 DEF Pending
  <2> QED
    BY <2>1, <2>2, <2>3
<1> QED
  BY <1>3, <1>4

\* A path that begins as the one searched leads to where the search stands.
LEMMA PathHere ==
  ASSUME RunInv, NEW p, p \in Seq(LinesIn(net)), NEW g, Trace(Task, p, g),
         Begins(p, searchstack, Len(searchstack))
  PROVE  g[Len(searchstack)] = Here
<1>1. PICK h : RunOf(Task, searchstack, h) /\ h[Len(searchstack)] = Here
  BY DEF RunInv, HasRun
<1>2. PICK S : searchstack \in Seq(S)
  BY DEF RunInv, AnyStack
<1>3. PICK q, n : q = PathOf(searchstack) /\ n = Len(searchstack)
  OBVIOUS
<1>4. n \in Nat /\ Len(q) = n /\ \A j \in 1..n : q[j] = searchstack[j].ptr
  BY <1>2, <1>3 DEF PathOf
<1>5. n <= Len(p) /\ n <= Len(q) /\ Len(p) \in Nat /\ \A j \in 1..n : p[j] = q[j]
  BY <1>3, <1>4, SMTT(30) DEF Begins
<1>6. Trace(Task, q, h)
  BY <1>1, <1>3 DEF RunOf
<1>7. g[n] = h[n]
  BY ONLY <1>4, <1>5, <1>6, Trace(Task, p, g), SamePlace
<1> QED
  BY <1>1, <1>3, <1>7

\* The next line of an accepting path is one of the state at hand, and it matches.
LEMMA NextMatches ==
  ASSUME RunInv, NEW p, Accepted(Task, p), GoesOn(p, searchstack)
  PROVE  LET k == p[Len(searchstack) + 1] IN
         /\ k \in LinesOf(net, State)
         /\ MatchLength(symin(k), ipos) # -1
         /\ PassFlag(symin(k), flag_list) # {}
<1>1. PICK g : Trace(Task, p, g) /\ p \in Seq(LinesIn(net))
  BY TaskNames DEF Accepted
<1>2. PICK S : searchstack \in Seq(S)
  BY DEF RunInv, AnyStack
<1>3. PICK n \in Nat : n = Len(searchstack)
  BY <1>2
<1>4. g[n] = Here
  BY <1>1, <1>3, PathHere DEF GoesOn
<1>5. n + 1 \in 1..Len(p) /\ n + 1 - 1 = n
  BY <1>1, <1>3 DEF GoesOn
<1>6. PICK k, d : k = p[n + 1] /\ d = g[n + 1] /\ Moves(Task, k, Here, d)
  BY <1>1, <1>4, <1>5 DEF Trace
<1>7. /\ k \in LinesIn(net) /\ StateAt(net, k) = StateAt(net, ptr) /\ TargetOf(net, k) # -1
      /\ Eats(Task, SymIn(mode, net, k), ipos) # -1
      /\ PassFlag(SymIn(mode, net, k), flag_list) = {d.flags}
  BY <1>6, TaskNames DEF Moves, Here
<1> QED
  BY <1>3, <1>6, <1>7, TaskNames DEF LinesOf, State

\* Where no loop consumes nothing it is followed.
LEMMA NextFollows ==
  ASSUME MarksInv, RunInv, Positive, LoopFree, pc = "follow",
         NEW p, Accepted(Task, p), GoesOn(p, searchstack)
  PROVE  Follows(p[Len(searchstack) + 1])
<1>1. PICK k : /\ k = p[Len(searchstack) + 1]
               /\ k \in LinesOf(net, State)
               /\ MatchLength(symin(k), ipos) # -1
               /\ PassFlag(symin(k), flag_list) # {}
  BY NextMatches
<1>2. net \in Nets
  BY DEF MarksInv
<1>3. TargetOf(net, k) \in States
  <2>1. \E m \in LinesIn(net) : StateAt(net, m) = TargetOf(net, k)
    BY <1>1, <1>2, NetFacts DEF LinesOf
  <2> QED
    BY <2>1, TaskNames DEF States
<1>4. PICK h : RunOf(Task, searchstack, h) /\ h[Len(searchstack)] = Here
  BY DEF RunInv, HasRun
<1>5. PICK S : searchstack \in Seq(S)
  BY DEF RunInv, AnyStack
<1>6. PICK L \in Nat : L = Len(searchstack) /\ L = Len(PathOf(searchstack)) /\ DOMAIN searchstack = 1..L
  BY <1>5 DEF PathOf
<1>7. IsTask(Task) /\ \A n \in 0..L : Config(Task, h[n])
  BY <1>4, <1>6 DEF RunInv, RunOf, Trace
<1>8. \A n \in 0..L : h[n].ipos \in Nat
  BY <1>7 DEF Config, IsTask
<1>9. ipos \in Nat
  BY <1>4, <1>6, <1>8 DEF Here
<1>10. \A j \in 1..L : searchstack[j].ipos \in Nat
  <2> TAKE j \in 1..L
  <2>1. j - 1 \in 0..L
    OBVIOUS
  <2>2. searchstack[j].ipos = h[j - 1].ipos
    BY <1>4, <1>6 DEF RunOf, LeftAt
  <2> QED
    BY <1>8, <2>1, <2>2
<1>11. PICK m : m = marks[TargetOf(net, k)]
  OBVIOUS
<1>12. m \in Nat
  <2>1. CASE m = 0
    BY <2>1
  <2>2. CASE m # 0
    <3>1. \/ TargetOf(net, k) = StateAt(net, ptr) /\ m = ipos + 1
          \/ VisitedAt(net, searchstack, TargetOf(net, k), m)
      BY <1>3, <1>11, <2>2 DEF Positive
    <3> QED
      BY <1>6, <1>9, <1>10, <3>1 DEF VisitedAt
  <2> QED
    BY <2>1, <2>2
<1>13. MatchLength(symin(k), ipos) \in Nat
  BY <1>1 DEF MatchLength
<1>14. -1 - ipos - MatchLength(symin(k), ipos) # m
  BY <1>9, <1>12, <1>13
<1> QED
  BY <1>1, <1>11, <1>14, TaskNames DEF Follows

-----------------------------------------------------------------------------

\* The line of an entry is not among those left.
LEMMA OwnNotLeft ==
  ASSUME MarksInv, RunInv, ListInv, NEW n \in DOMAIN searchstack
  PROVE  searchstack[n].ptr \notin Left(net, searchstack[n])
<1>1. PICK f : f = searchstack[n]
  OBVIOUS
<1>2. Saves(f) /\ FrameOK(net, Indexed, f)
  BY <1>1 DEF ListInv, MarksInv
<1>3. CASE f.has_index
  <2>1. f.ptr \notin Members(Tail(f.iptr)) /\ Members(Tail(f.iptr)) = {f.iptr[j] : j \in 2..Len(f.iptr)}
    BY <1>2, <1>3, TailLists DEF Saves, FrameOK
  <2> QED
    BY <1>1, <1>3, <2>1 DEF Left
<1>4. CASE ~f.has_index
  <2>1. \A k \in LinesOf(net, StateAt(net, f.ptr)) : k \in Nat
    BY NetFacts DEF LinesOf, MarksInv
  <2>2. f.ptr \in Nat => ~(f.ptr > f.ptr)
    OBVIOUS
  <2> QED
    BY <1>1, <1>4, <2>1, <2>2 DEF Left
<1> QED
  BY <1>3, <1>4

\* So the path searched is none of those pending.
LEMMA PathNotPending ==
  ASSUME MarksInv, RunInv, ListInv
  PROVE  /\ ~Pending(net, searchstack, Path)
         /\ Begins(Path, searchstack, Len(searchstack)) /\ Len(Path) = Len(searchstack)
         /\ ~GoesOn(Path, searchstack)
<1>1. PICK S : searchstack \in Seq(S)
  BY DEF RunInv, AnyStack
<1>2. PICK L \in Nat : L = Len(searchstack) /\ DOMAIN searchstack = 1..L
  BY <1>1
<1>3. Len(Path) = L /\ \A j \in 1..L : Path[j] = searchstack[j].ptr
  BY <1>2 DEF Path
<1>4. Begins(Path, searchstack, L) /\ ~(L < Len(Path))
  BY <1>2, <1>3 DEF Begins
<1>5. ASSUME NEW n \in 0..(L - 1), Path[n + 1] \in Left(net, searchstack[n + 1])
      PROVE  FALSE
  <2>1. n + 1 \in 1..L
    BY <1>2
  <2> QED
    BY <1>2, <1>3, <1>5, <2>1, OwnNotLeft
<1> QED
  BY <1>2, <1>3, <1>4, <1>5 DEF Pending, GoesOn

\* Where the path ends the search, it is one that accepts, and only there.
LEMMA PathAccepted ==
  ASSUME MarksInv, RunInv
  PROVE  Accepted(Task, Path) <=> AtResult
<1>1. PICK h : RunOf(Task, searchstack, h) /\ h[Len(searchstack)] = Here
  BY DEF RunInv, HasRun
<1>2. PICK S : searchstack \in Seq(S)
  BY DEF RunInv, AnyStack
<1>3. PICK L \in Nat : L = Len(searchstack) /\ DOMAIN searchstack = 1..L
  BY <1>2
<1>4. Path = PathOf(searchstack) /\ Len(Path) = L /\ Trace(Task, Path, h)
  BY <1>1, <1>3 DEF Path, PathOf, RunOf
<1>5. Path \in Seq(LinesIn(net))
  <2>1. \A n \in 1..L : Path[n] \in LinesIn(net)
    BY <1>4, TaskNames DEF Trace, Moves
  <2>2. DOMAIN Path = 1..L
    BY <1>3 DEF Path
  <2>3. Path \in [1..L -> LinesIn(net)]
    BY <2>1, <2>2 DEF Path
  <2> QED
    BY <2>3
<1>6. Begins(Path, searchstack, Len(searchstack))
  <2>1. \A j \in 1..L : Path[j] = searchstack[j].ptr
    BY <1>3 DEF Path
  <2> QED
    BY <1>3, <1>4, <2>1 DEF Begins
<1>7. Accepted(Task, Path) <=> AcceptsAt(Task, Here)
  <2>1. ASSUME AcceptsAt(Task, Here)
        PROVE  Accepted(Task, Path)
    BY <1>1, <1>3, <1>4, <1>5, <2>1, TaskNames DEF Accepted
  <2>2. ASSUME Accepted(Task, Path)
        PROVE  AcceptsAt(Task, Here)
    <3>1. PICK g : Trace(Task, Path, g) /\ AcceptsAt(Task, g[Len(Path)])
      BY <2>2 DEF Accepted
    <3>2. g[Len(searchstack)] = Here
      BY <1>5, <1>6, <3>1, PathHere
    <3> QED
      BY <1>3, <1>4, <3>1, <3>2
  <2> QED
    BY <2>1, <2>2
<1>8. net \in Nets /\ ptr \in LinesIn(net)
  BY DEF MarksInv, RunInv
<1>9. (\E k \in LinesIn(net) : StateAt(net, k) = StateAt(net, ptr) /\ FinalAt(net, k))
        <=> Line(ptr).final_state
  <2>1. \A k \in LinesIn(net) : StateAt(net, k) = StateAt(net, ptr) => FinalAt(net, k) = FinalAt(net, ptr)
    BY <1>8, NetFacts
  <2> QED
    BY <1>8, <2>1, TaskNames
<1>10. AcceptsAt(Task, Here) <=> AtResult
  BY <1>9, TaskNames DEF AcceptsAt, AtResult, Here
<1> QED
  BY <1>7, <1>10

\* A path that begins as the one searched and does not go on is that one.
LEMMA GoesOnOrIs ==
  ASSUME RunInv, NEW p \in Seq(LinesIn(net)), Begins(p, searchstack, Len(searchstack)), p # Path
  PROVE  GoesOn(p, searchstack)
<1>1. PICK S : searchstack \in Seq(S)
  BY DEF RunInv, AnyStack
<1>2. PICK L \in Nat : L = Len(searchstack) /\ DOMAIN searchstack = 1..L
  BY <1>1
<1>3. Len(p) \in Nat /\ L <= Len(p) /\ \A j \in 1..L : p[j] = searchstack[j].ptr
  BY <1>2 DEF Begins
<1>4. Len(p) # L
  <2> SUFFICES ASSUME Len(p) = L PROVE p = Path
    OBVIOUS
  <2>1. p = [j \in 1..L |-> p[j]]
    BY <1>2
  <2>2. Path = [j \in 1..L |-> searchstack[j].ptr]
    BY <1>2 DEF Path
  <2> QED
    BY <1>3, <2>1, <2>2
<1> QED
  BY <1>2, <1>3, <1>4 DEF GoesOn

-----------------------------------------------------------------------------

\* The task is the machine, the mode and the word.
LEMMA SameTask ==
  ASSUME net' = net, mode' = mode, word' = word
  PROVE  Task' = Task /\ (Indexable' <=> Indexable) /\ (LoopFree' <=> LoopFree)
BY SameIndexable, SameLoopFree DEF Task

\* Nothing has been returned, or the accepting paths to come are as before.
LEMMA NothingNew ==
  ASSUME Complete, net' = net, mode' = mode, word' = word, returned' = returned, pc # "idle",
         pc' = "exhausted" => searchstack' = <<>>,
         LoopFree /\ Indexable => \A p : Accepted(Task, p) => (ToCome(p)' <=> ToCome(p))
  PROVE  Complete'
<1>1. Task' = Task /\ (Indexable' <=> Indexable) /\ (LoopFree' <=> LoopFree)
  BY SameTask
<1>2. AnyStack(returned') /\ (pc' = "exhausted" => searchstack' = <<>>)
  BY DEF Complete
<1>3. ASSUME LoopFree, Indexable
      PROVE  /\ \A p : Accepted(Task', p) => (p \in Members(returned') <=> ~ToCome(p)')
             /\ \A p \in Members(returned') : Accepted(Task', p)
             /\ Distinct(returned')
  <2>1. \A p : Accepted(Task, p) => (ToCome(p)' <=> ToCome(p))
    BY ONLY <1>3, LoopFree /\ Indexable => \A p : Accepted(Task, p) => (ToCome(p)' <=> ToCome(p))
  <2>2. /\ \A p : Accepted(Task, p) => (p \in Members(returned) <=> ~ToCome(p))
        /\ \A p \in Members(returned) : Accepted(Task, p)
        /\ Distinct(returned)
    BY <1>3 DEF Complete
  <2> QED
    BY ONLY <1>1, <2>1, <2>2, returned' = returned
<1> QED
  BY ONLY <1>1, <1>2, <1>3 DEF Complete

\* At the start of a word nothing is returned and all is still to come.
LEMMA StartComplete ==
  ASSUME NEW m \in Modes, NEW w \in Words, Start(m, w)
  PROVE  Complete'
<1>1. searchstack' = <<>> /\ returned' = <<>> /\ pc' = "open"
  BY DEF Start
<1>2. AnyStack(<<>>) /\ Members(<<>>) = {} /\ Distinct(<<>>)
  <2>1. <<>> \in Seq({})
    OBVIOUS
  <2> QED
    BY <2>1 DEF AnyStack, Members, Distinct
<1>3. ASSUME NEW p, Accepted(Task', p)
      PROVE  ToCome(p)'
  <2>1. Len(p) \in Nat
    BY <1>3 DEF Accepted
  <2>2. Begins(p, <<>>, Len(<<>>))
    BY <2>1 DEF Begins
  <2> QED
    BY <1>1, <2>2 DEF ToCome
<1> QED
  BY ONLY <1>1, <1>2, <1>3 DEF Complete

\* At the end of an accepting path the path is returned.
LEMMA EnterComplete ==
  ASSUME MarksInv, RunInv, ListInv, Complete, Enter
  PROVE  Complete'
<1>1. /\ pc = "enter" /\ net' = net /\ mode' = mode /\ word' = word /\ searchstack' = searchstack
      /\ pc' \in {"result", "mark"}
      /\ returned' = IF AtResult THEN Append(returned, Path) ELSE returned
  BY DEF Enter
<1>2. \A p : ToCome(p)' <=> Pending(net, searchstack, p) \/ GoesOn(p, searchstack)
  BY <1>1 DEF ToCome
<1>3. \A p : ToCome(p) <=> \/ Pending(net, searchstack, p)
                           \/ Begins(p, searchstack, Len(searchstack))
  BY <1>1 DEF ToCome
<1>4. \A p : GoesOn(p, searchstack) => Begins(p, searchstack, Len(searchstack))
  BY DEF GoesOn
<1>5. \A p : Accepted(Task, p) => p \in Seq(LinesIn(net))
  BY TaskNames DEF Accepted
<1>0. PICK q : q = Path
  OBVIOUS
<1>6. \A p : Accepted(Task, p) /\ p # q => (ToCome(p)' <=> ToCome(p))
  BY <1>0, <1>2, <1>3, <1>4, <1>5, GoesOnOrIs
<1>7. ToCome(q) /\ ~ToCome(q)'
  <2>1. /\ ~Pending(net, searchstack, q) /\ Begins(q, searchstack, Len(searchstack))
        /\ ~GoesOn(q, searchstack)
    BY <1>0, PathNotPending
  <2> QED
    BY ONLY <1>2, <1>3, <2>1
<1>8. CASE ~AtResult
  <2>0. ~Accepted(Task, q)
    BY <1>0, <1>8, PathAccepted
  <2>1. \A p : Accepted(Task, p) => (ToCome(p)' <=> ToCome(p))
    BY ONLY <1>6, <2>0
  <2>2. returned' = returned /\ pc # "idle" /\ pc' # "exhausted"
    BY <1>1, <1>8
  <2> QED
    BY ONLY Complete, <1>1, <2>1, <2>2, NothingNew
<1>9. CASE AtResult
  <2>1. PICK r : q = Path /\ r = returned
    BY <1>0
  <2>2. PICK S : r \in Seq(S)
    BY <2>1 DEF Complete, AnyStack
  <2>3. PICK N \in Nat : N = Len(r)
    BY <2>2
  <2>4. PICK r2 : r2 = Append(r, q)
    OBVIOUS
  <2>5. /\ r2 \in Seq(S \cup {q}) /\ Len(r2) = N + 1 /\ r2[N + 1] = q
        /\ \A i \in 1..N : r2[i] = r[i]
    <3>1. r \in Seq(S \cup {q})
      BY <2>2
    <3> QED
      BY <2>3, <2>4, <3>1
  <2>6. returned' = r2
    BY <1>1, <1>9, <2>1, <2>4
  <2>7. /\ \A i \in 1..(N + 1) : i \in 1..N \/ i = N + 1
        /\ \A i \in 1..N : i \in 1..(N + 1)
        /\ N + 1 \in 1..(N + 1)
    OBVIOUS
  <2>8. Members(r2) = Members(r) \cup {q}
    BY <2>3, <2>5, <2>7 DEF Members
  <2>9. Accepted(Task, q)
    BY <1>9, <2>1, PathAccepted
  <2>10. Task' = Task /\ (Indexable' <=> Indexable) /\ (LoopFree' <=> LoopFree)
    BY <1>1, SameTask
  <2>11. AnyStack(returned') /\ pc' # "exhausted"
    BY <1>1, <2>5, <2>6 DEF AnyStack
  <2>12. ASSUME LoopFree, Indexable
         PROVE  /\ \A p : Accepted(Task', p) => (p \in Members(returned') <=> ~ToCome(p)')
                /\ \A p \in Members(returned') : Accepted(Task', p)
                /\ Distinct(returned')
    <3>1. /\ \A p : Accepted(Task, p) => (p \in Members(r) <=> ~ToCome(p))
          /\ \A p \in Members(r) : Accepted(Task, p)
          /\ Distinct(r)
      BY <1>1, <2>1, <2>12 DEF Complete
    <3>2. ToCome(q) /\ ~ToCome(q)' /\ q \notin Members(r)
      BY ONLY <1>7, <2>9, <3>1
    <3>3. \A p : Accepted(Task, p) => (p \in Members(r2) <=> ~ToCome(p)')
      BY ONLY <1>6, <2>1, <2>8, <3>1, <3>2
    <3>4. Distinct(r2)
      <4> SUFFICES ASSUME NEW i \in 1..(N + 1), NEW j \in 1..(N + 1), r2[i] = r2[j]
                   PROVE  i = j
        BY <2>5 DEF Distinct
      <4>1. \A a \in 1..N : r2[a] # q
        BY <2>3, <2>5, <3>2 DEF Members
      <4>2. \A a, b \in 1..N : r2[a] = r2[b] => a = b
        BY <2>3, <2>5, <3>1 DEF Distinct
      <4> QED
        BY ONLY <2>5, <2>7, <4>1, <4>2, i \in 1..(N + 1), j \in 1..(N + 1), r2[i] = r2[j]
    <3> QED
      BY ONLY <2>6, <2>8, <2>9, <2>10, <3>1, <3>3, <3>4
  <2> QED
    BY ONLY <2>10, <2>11, <2>12 DEF Complete
<1> QED
  BY <1>8, <1>9

\* A state marked is searched line by line: all that match are ahead.
LEMMA MarkComplete ==
  ASSUME RunInv, ListInv, Complete, MarkState
  PROVE  Complete'
<1>1. /\ pc = "mark" /\ net' = net /\ mode' = mode /\ word' = word /\ searchstack' = searchstack
      /\ pc' = "follow" /\ returned' = returned
      /\ ptr' = ptr /\ iptr' = iptr /\ state_has_index' = state_has_index
  BY DEF MarkState
<1>2. Ahead' = Ahead
  BY <1>1 DEF Ahead, State, Line, LineNo
<1>3. ASSUME LoopFree, Indexable, NEW p, Accepted(Task, p)
      PROVE  ToCome(p)' <=> ToCome(p)
  <2>1. ToCome(p)' <=> \/ Pending(net, searchstack, p)
                       \/ GoesOn(p, searchstack) /\ p[Len(searchstack) + 1] \in Members(Ahead)
    BY <1>1, <1>2 DEF ToCome
  <2>2. ToCome(p) <=> Pending(net, searchstack, p) \/ GoesOn(p, searchstack)
    BY <1>1 DEF ToCome
  <2>3. GoesOn(p, searchstack) => p[Len(searchstack) + 1] \in Members(Ahead)
    BY <1>1, <1>3, NextMatches DEF ListInv, Whole
  <2> QED
    BY <2>1, <2>2, <2>3
<1> QED
  BY <1>1, <1>3, NothingNew

\* Where no line can be followed no accepting path goes on.
LEMMA NoArcComplete ==
  ASSUME MarksInv, RunInv, ListInv, Positive, Complete, NoArc
  PROVE  Complete'
<1>1. /\ pc = "follow" /\ net' = net /\ mode' = mode /\ word' = word /\ searchstack' = searchstack
      /\ pc' = "pop" /\ returned' = returned /\ NextArc = {}
  BY DEF NoArc
<1>2. \A n \in 1..Len(Ahead) : ~Follows(Ahead[n])
  <2> DEFINE M == {n \in 1..Len(Ahead) : Follows(Ahead[n])}
  <2> SUFFICES ASSUME M # {} PROVE FALSE
    OBVIOUS
  <2>1. Ahead \in Seq(LinesOf(net, State))
    BY <1>1, AheadOnce
  <2>2. PICK n \in M : \A m \in M : n <= m
    <3>1. M \in SUBSET Nat
      OBVIOUS
    <3> HIDE DEF M
    <3> QED
      BY <3>1, LeastOf
  <2>3. n \in DOMAIN Ahead /\ Follows(Ahead[n])
    BY <2>1, <2>2
  <2>4. \A m \in 1..(n - 1) : m \in 1..Len(Ahead) /\ ~(n <= m)
    BY <2>1, <2>2
  <2>5. n \in NextArc
    BY <2>2, <2>3, <2>4 DEF NextArc
  <2> QED
    BY <1>1, <2>5
<1>3. ASSUME LoopFree, NEW p, Accepted(Task, p)
      PROVE  ToCome(p)' <=> ToCome(p)
  <2>1. ToCome(p)' <=> Pending(net, searchstack, p)
    BY <1>1 DEF ToCome
  <2>2. ToCome(p) <=> \/ Pending(net, searchstack, p)
                      \/ GoesOn(p, searchstack) /\ p[Len(searchstack) + 1] \in Members(Ahead)
    BY <1>1 DEF ToCome
  <2>3. GoesOn(p, searchstack) => p[Len(searchstack) + 1] \notin Members(Ahead)
    BY <1>1, <1>2, <1>3, NextFollows DEF Members
  <2> QED
    BY <2>1, <2>2, <2>3
<1> QED
  BY <1>1, <1>3, NothingNew

-----------------------------------------------------------------------------

\* What is left when line n of those ahead is followed.
LEMMA LeftAhead ==
  ASSUME MarksInv, RunInv, ListInv, pc = "follow", NEW n \in 1..Len(Ahead), NEW e,
         e.ptr = Ahead[n], e.has_index = state_has_index,
         e.iptr = IF state_has_index THEN SubSeq(iptr, n, Len(iptr)) ELSE iptr
  PROVE  Left(net, e) = {Ahead[j] : j \in (n + 1)..Len(Ahead)}
<1>1. PICK q, S : q = Ahead /\ S = LinesOf(net, State)
  OBVIOUS
<1>2. q \in Seq(S) /\ Distinct(q) /\ n \in 1..Len(q) /\ e.ptr = q[n]
  BY <1>1, AheadOnce
<1>3. net \in Nets
  BY DEF MarksInv
<1>4. CASE state_has_index
  <2>1. e.iptr = SubSeq(q, n, Len(q))
    BY <1>1, <1>4 DEF Ahead
  <2>2. {e.iptr[j] : j \in 2..Len(e.iptr)} = {q[j] : j \in (n + 1)..Len(q)}
    <3>1. From(e.iptr, 2) = From(q, n + 1)
      BY ONLY <1>2, <2>1, SubSeqLists
    <3> QED
      BY ONLY <3>1 DEF From
  <2> QED
    BY <1>1, <1>4, <2>2 DEF Left
<1>5. CASE ~state_has_index
  <2>1. PICK T : T = {k \in S : k >= ptr}
    OBVIOUS
  <2>2. S = LinesOf(net, StateAt(net, ptr))
    BY <1>1 DEF State, StateAt, Line
  <2>3. Lists(q, T) /\ Increasing(q)
    BY ONLY <1>1, <1>3, <1>5, <2>1, <2>2, AheadInOrder
  <2>4. \A k \in S : k \in Nat /\ StateAt(net, k) = StateAt(net, ptr)
    BY <1>3, <2>2, NetFacts DEF LinesOf
  <2>5. T \in SUBSET Int
    BY <2>1, <2>4
  <2>6. {q[j] : j \in (n + 1)..Len(q)} = {k \in T : k > q[n]}
    BY ONLY <1>2, <2>3, <2>5, IncreasingBehind
  <2>7. q[n] \in T
    BY <1>2, <2>3 DEF Lists, Members
  <2>8. ptr \in Nat
    BY <1>3, NetFacts DEF RunInv
  <2>9. {k \in T : k > q[n]} = {k \in S : k > q[n]}
    <3>1. \A k \in S : k > q[n] => k >= ptr
      <4> TAKE k \in S
      <4>1. k \in Nat /\ q[n] \in Nat /\ q[n] >= ptr
        BY <2>1, <2>4, <2>7
      <4> QED
        BY ONLY <2>8, <4>1
    <3> QED
      BY <2>1, <3>1
  <2>10. LinesOf(net, StateAt(net, e.ptr)) = S
    BY <1>2, <2>1, <2>2, <2>4, <2>7
  <2> QED
    BY <1>1, <1>2, <1>5, <2>6, <2>9, <2>10 DEF Left
<1> QED
  BY <1>4, <1>5

\* A line is followed: the lines passed over lead to no accepting path.
LEMMA FollowComplete ==
  ASSUME MarksInv, RunInv, ListInv, Positive, Complete, NEW n \in NextArc, FollowArc(n)
  PROVE  Complete'
<1>1. PICK k, e, q : /\ q = Ahead /\ k = q[n]
                     /\ searchstack' = Append(searchstack, e)
                     /\ e.ptr = k /\ e.has_index = state_has_index
                     /\ e.iptr = IF state_has_index THEN SubSeq(iptr, n, Len(iptr)) ELSE iptr
  BY FollowFacts
<1>2. /\ pc = "follow" /\ pc' = "enter" /\ net' = net /\ mode' = mode /\ word' = word
      /\ returned' = returned
      /\ n \in 1..Len(q) /\ q \in Seq(LinesOf(net, State))
      /\ \A i \in 1..(n - 1) : ~Follows(q[i])
  BY <1>1, FollowFacts
<1>3. Left(net, e) = {q[j] : j \in (n + 1)..Len(q)}
  BY <1>1, <1>2, LeftAhead
<1>4. PICK S : searchstack \in Seq(S)
  BY DEF RunInv, AnyStack
<1>5. PICK st, st2 : st = searchstack /\ st2 = searchstack'
  OBVIOUS
<1>6. PICK L \in Nat : /\ L = Len(st) /\ Len(st2) = L + 1 /\ st2[L + 1] = e
                       /\ \A i \in 1..L : st2[i] = st[i]
  <2>1. searchstack \in Seq(S \cup {e})
    BY <1>4
  <2> QED
    BY <1>1, <1>5, <2>1
<1>7. ASSUME LoopFree, NEW p, Accepted(Task, p)
      PROVE  ToCome(p)' <=> ToCome(p)
  <2>1. p \in Seq(LinesIn(net)) /\ Len(p) \in Nat
    BY <1>7, TaskNames DEF Accepted
  <2>2. /\ Begins(p, st2, L + 1) <=> GoesOn(p, st) /\ p[L + 1] = k
        /\ Pending(net, st2, p) <=> \/ Pending(net, st, p)
                                    \/ GoesOn(p, st) /\ p[L + 1] \in Left(net, e)
    <3>1. PICK nt : nt = net
      OBVIOUS
    <3>2. /\ Begins(p, st2, L + 1) <=> GoesOn(p, st) /\ p[L + 1] = st2[L + 1].ptr
          /\ Pending(nt, st2, p) <=> \/ Pending(nt, st, p)
                                     \/ GoesOn(p, st) /\ p[L + 1] \in Left(nt, st2[L + 1])
      <4>1. Grown(st, st2, L)
        BY <1>6 DEF Grown
      <4> QED
        BY ONLY <2>1, <4>1, L \in Nat, Stacked
    <3> QED
      BY <1>1, <1>6, <3>1, <3>2
  <2>3. ToCome(p)' <=> Pending(net, st2, p) \/ Begins(p, st2, L + 1)
    BY <1>2, <1>5, <1>6 DEF ToCome
  <2>4. ToCome(p) <=> Pending(net, st, p) \/ (GoesOn(p, st) /\ p[L + 1] \in Members(q))
    BY <1>1, <1>2, <1>5, <1>6 DEF ToCome
  <2>5. GoesOn(p, st) => Follows(p[L + 1])
    BY <1>2, <1>5, <1>6, <1>7, NextFollows
  <2>6. GoesOn(p, st) => (p[L + 1] \in Members(q) <=> p[L + 1] = k \/ p[L + 1] \in Left(net, e))
    <3>1. /\ \A i \in 1..Len(q) : i \in 1..(n - 1) \/ i = n \/ i \in (n + 1)..Len(q)
          /\ \A i \in (n + 1)..Len(q) : i \in 1..Len(q)
      BY <1>2
    <3>2. \A i \in 1..(n - 1) : GoesOn(p, st) => p[L + 1] # q[i]
      BY <1>2, <2>5
    <3> QED
      BY <1>1, <1>2, <1>3, <3>1, <3>2 DEF Members
  <2> QED
    BY ONLY <2>2, <2>3, <2>4, <2>6
<1> QED
  BY <1>2, <1>7, NothingNew

-----------------------------------------------------------------------------

\* The lines ahead without an index.
AheadFrom ==
  net \in Nets /\ ~state_has_index =>
    Members(Ahead) = {k \in LinesOf(net, StateAt(net, ptr)) : k >= ptr}

\* What AheadInOrder says of the members.
LEMMA AheadMembers == AheadFrom
BY AheadInOrder DEF Lists, AheadFrom

\* The same after a step.
LEMMA NextAhead == AheadFrom'
BY AheadMembers, PTL

\* At its last arc an entry has nothing left.
LEMMA LastLeft ==
  ASSUME net \in Nets, NEW f, FrameOK(net, Indexed, f), AtLastArc(f), f.ptr \in LinesIn(net)
  PROVE  Left(net, f) = {}
<1>1. CASE f.has_index
  <2>1. Len(f.iptr) \in Nat /\ Len(f.iptr) <= 1
    BY <1>1 DEF FrameOK, AtLastArc
  <2>2. 2..Len(f.iptr) = {}
    BY <2>1
  <2> QED
    BY <1>1, <2>2 DEF Left
<1>2. CASE ~f.has_index
  <2> SUFFICES ASSUME NEW k \in LinesOf(net, StateAt(net, f.ptr)), k > f.ptr
               PROVE  FALSE
    BY <1>2 DEF Left
  <2>1. k \in LinesIn(net) /\ StateAt(net, k) = StateAt(net, f.ptr) /\ k \in Nat /\ f.ptr \in Nat
    BY NetFacts DEF LinesOf
  <2>2. f.ptr + 1 \in f.ptr..k
    BY <2>1
  <2>3. StateAt(net, f.ptr + 1) = StateAt(net, k)
    BY <2>1, <2>2, NetFacts
  <2>4. StateAt(net, f.ptr + 1) # StateAt(net, f.ptr)
    BY <1>2, TaskNames DEF AtLastArc
  <2> QED
    BY <2>1, <2>3, <2>4
<1> QED
  BY <1>1, <1>2

\* An entry is popped: what was left of it lies ahead.
LEMMA PopToCome ==
  ASSUME MarksInv, RunInv, ListInv, Pop
  PROVE  \A p : Accepted(Task, p) => (ToCome(p)' <=> ToCome(p))
<1>1. PICK f : f = Last(searchstack)
  OBVIOUS
<1>2. /\ pc = "pop" /\ searchstack # <<>> /\ searchstack' = Front(searchstack)
      /\ net' = net /\ mode' = mode /\ word' = word /\ returned' = returned
      /\ state_has_index' = f.has_index
      /\ \/ pc' = "pop" /\ AtLastArc(f)
         \/ /\ pc' = "follow" /\ ~AtLastArc(f)
            /\ f.has_index => iptr' = Tail(f.iptr)
            /\ ~f.has_index => ptr' = f.ptr + 1
  BY <1>1 DEF Pop
<1>3. PICK S : searchstack \in Seq(S)
  BY DEF RunInv, AnyStack
<1>4. PICK st, st2 : st = Front(searchstack) /\ st2 = searchstack
  OBVIOUS
<1>5. PICK L \in Nat : /\ L = Len(st) /\ Len(st2) = L + 1 /\ st2[L + 1] = f
                       /\ \A i \in 1..L : st2[i] = st[i]
                       /\ L + 1 \in DOMAIN searchstack
  <2>1. PICK M : M = Len(searchstack) - 1
    OBVIOUS
  <2>2. M \in Nat /\ Len(searchstack) = M + 1 /\ M + 1 \in DOMAIN searchstack
    BY <1>2, <1>3, <2>1
  <2>3. DOMAIN st = 1..M /\ Len(st) = M /\ \A i \in 1..M : st[i] = searchstack[i]
    BY <1>2, <1>3, <1>4, <2>1, <2>2 DEF Front
  <2> QED
    BY <1>1, <1>4, <2>2, <2>3 DEF Last
<1>6. net \in Nets /\ Saves(f) /\ FrameOK(net, Indexed, f)
  BY <1>4, <1>5 DEF MarksInv, ListInv
<1>7. f.ptr \in LinesIn(net)
  <2>1. PICK h : RunOf(Task, searchstack, h)
    BY DEF RunInv, HasRun
  <2>2. Moves(Task, f.ptr, h[Len(searchstack) - 1], h[Len(searchstack)])
    <3>1. IsTask(Task) /\ AnyStack(searchstack)
      BY DEF RunInv
    <3> QED
      BY ONLY <1>1, <1>2, <2>1, <3>1, RunShrinks
  <2> QED
    BY <2>2, TaskNames DEF Moves
<1>8. pc' = "pop" => Left(net, f) = {}
  BY <1>2, <1>6, <1>7, LastLeft
<1>9. pc' = "follow" => Members(Ahead') = Left(net, f)
  <2> SUFFICES ASSUME pc' = "follow" PROVE Members(Ahead') = Left(net, f)
    OBVIOUS
  <2>1. CASE f.has_index
    <3>1. Ahead' = Tail(f.iptr)
      BY <1>2, <2>1 DEF Ahead
    <3>2. Members(Tail(f.iptr)) = {f.iptr[j] : j \in 2..Len(f.iptr)}
      BY <1>6, <2>1, TailLists DEF Saves, FrameOK
    <3> QED
      BY <2>1, <3>1, <3>2 DEF Left
  <2>2. CASE ~f.has_index
    <3>1. Members(Ahead') = {k \in LinesOf(net, StateAt(net, f.ptr + 1)) : k >= f.ptr + 1}
      BY <1>2, <1>6, <2>2, NextAhead DEF AheadFrom
    <3>2. StateAt(net, f.ptr + 1) = StateAt(net, f.ptr)
      BY <1>2, <2>2, TaskNames DEF AtLastArc
    <3>3. \A k \in LinesOf(net, StateAt(net, f.ptr)) : k >= f.ptr + 1 <=> k > f.ptr
      <4>1. \A k \in LinesIn(net) : k \in Nat
        BY <1>6, NetFacts
      <4> QED
        BY <1>7, <4>1 DEF LinesOf
    <3> QED
      BY <2>2, <3>1, <3>2, <3>3 DEF Left
  <2> QED
    BY <2>1, <2>2
<1>10. ASSUME NEW p, Accepted(Task, p)
       PROVE  ToCome(p)' <=> ToCome(p)
  <2>1. Len(p) \in Nat
    BY <1>10 DEF Accepted
  <2>2. Pending(net, st2, p) <=> \/ Pending(net, st, p)
                                 \/ GoesOn(p, st) /\ p[L + 1] \in Left(net, f)
    <3>1. PICK nt : nt = net
      OBVIOUS
    <3>2. Pending(nt, st2, p) <=> \/ Pending(nt, st, p)
                                  \/ GoesOn(p, st) /\ p[L + 1] \in Left(nt, st2[L + 1])
      <4>1. Grown(st, st2, L)
        BY <1>5 DEF Grown
      <4> QED
        BY ONLY <2>1, <4>1, L \in Nat, Stacked
    <3> QED
      BY <1>5, <3>1, <3>2
  <2>3. ToCome(p) <=> Pending(net, st2, p)
    BY <1>2, <1>4 DEF ToCome
  <2>4. searchstack' = st
    BY <1>2, <1>4
  <2>5. CASE pc' = "pop"
    <3>1. ToCome(p)' <=> Pending(net, st, p)
      BY <1>2, <2>4, <2>5 DEF ToCome
    <3> QED
      BY <1>8, <2>2, <2>3, <2>5, <3>1
  <2>6. CASE pc' = "follow"
    <3>1. ToCome(p)' <=> Pending(net, st, p) \/ (GoesOn(p, st) /\ p[L + 1] \in Members(Ahead'))
      BY <1>2, <1>5, <2>4, <2>6 DEF ToCome
    <3> QED
      BY <1>9, <2>2, <2>3, <2>6, <3>1
  <2> QED
    BY <1>2, <2>5, <2>6
<1> QED
  BY <1>10

\* So the accepting paths to come are as before.
LEMMA PopComplete ==
  ASSUME MarksInv, RunInv, ListInv, Complete, Pop
  PROVE  Complete'
<1>1. /\ pc = "pop" /\ net' = net /\ mode' = mode /\ word' = word /\ returned' = returned
      /\ pc' # "exhausted"
  BY DEF Pop
<1>2. \A p : Accepted(Task, p) => (ToCome(p)' <=> ToCome(p))
  BY PopToCome
<1> QED
  BY ONLY Complete, <1>1, <1>2, NothingNew

-----------------------------------------------------------------------------

\* At first no word is searched.
LEMMA InitComplete == Init => Complete
<1> SUFFICES ASSUME Init PROVE Complete
  OBVIOUS
<1>1. returned = <<>> /\ pc = "idle"
  BY DEF Init
<1>2. <<>> \in Seq({})
  OBVIOUS
<1> QED
  BY <1>1, <1>2 DEF Complete, AnyStack

\* Every step keeps each accepting path either returned or still to come.
LEMMA NextComplete ==
  MarksInv /\ RunInv /\ ListInv /\ Positive /\ Complete /\ [Next]_vars => Complete'
<1> SUFFICES ASSUME MarksInv, RunInv, ListInv, Positive, Complete, [Next]_vars
             PROVE  Complete'
  OBVIOUS
<1>1. ASSUME NEW m \in Modes, NEW w \in Words, Start(m, w)
      PROVE  Complete'
  BY <1>1, StartComplete
<1>2. ASSUME NEW n \in NextArc, FollowArc(n)
      PROVE  Complete'
  BY <1>2, FollowComplete
<1>3. CASE Enter
  BY <1>3, EnterComplete
<1>4. CASE MarkState
  BY <1>4, MarkComplete
<1>5. CASE NoArc
  BY <1>5, NoArcComplete
<1>6. CASE Pop
  BY <1>6, PopComplete
<1>7. CASE Open
  <2>1. /\ pc = "open" /\ pc' = "enter" /\ net' = net /\ mode' = mode /\ word' = word
        /\ searchstack' = searchstack /\ returned' = returned
    BY <1>7 DEF Open
  <2>2. \A p : ToCome(p)' <=> ToCome(p)
    BY <2>1 DEF ToCome
  <2> QED
    BY <2>1, <2>2, NothingNew
<1>8. CASE Again
  <2>1. /\ pc = "result" /\ pc' = "mark" /\ net' = net /\ mode' = mode /\ word' = word
        /\ searchstack' = searchstack /\ returned' = returned
    BY <1>8 DEF Again
  <2>2. \A p : ToCome(p)' <=> ToCome(p)
    BY <2>1 DEF ToCome
  <2> QED
    BY <2>1, <2>2, NothingNew
<1>9. CASE Exhausted
  <2>1. /\ pc = "pop" /\ pc' = "exhausted" /\ net' = net /\ mode' = mode /\ word' = word
        /\ searchstack' = searchstack /\ returned' = returned /\ searchstack = <<>>
    BY <1>9 DEF Exhausted
  <2>2. \A p : ToCome(p)' <=> ToCome(p)
    BY <2>1 DEF ToCome
  <2> QED
    BY <2>1, <2>2, NothingNew
<1>10. CASE Reset
  <2>1. pc' = "idle" /\ returned' = returned
    BY <1>10 DEF Reset
  <2> QED
    BY <2>1 DEF Complete
<1>11. CASE UNCHANGED vars
  <2>1. /\ pc' = pc /\ net' = net /\ mode' = mode /\ word' = word
        /\ searchstack' = searchstack /\ returned' = returned
    BY <1>11 DEF vars
  <2>2. CASE pc = "idle"
    BY <2>1, <2>2 DEF Complete
  <2>3. CASE pc # "idle"
    <3>1. Ahead' = Ahead
      BY <1>11 DEF vars, Ahead, State, Line, LineNo
    <3>2. \A p : ToCome(p)' <=> ToCome(p)
      BY <2>1, <3>1 DEF ToCome
    <3>3. pc' = "exhausted" => searchstack' = <<>>
      BY <2>1 DEF Complete
    <3> QED
      BY <2>1, <2>3, <3>2, <3>3, NothingNew
  <2> QED
    BY <2>2, <2>3
<1> QED
  BY <1>1, <1>2, <1>3, <1>4, <1>5, <1>6, <1>7, <1>8, <1>9, <1>10, <1>11 DEF Next, Search

-----------------------------------------------------------------------------

(***************************************************************************)
(* The paths of n lines that can be traced in task t, and AcceptingPaths'  *)
(* record of where each leads.                                             *)
(***************************************************************************)
Traced(t, n) == {p \in Seq(LinesIn(t.net)) : Len(p) = n /\ \E h : Trace(t, p, h)}
EndOf(t, p) == (CHOOSE h : Trace(t, p, h))[Len(p)]
RunTo(p, c) == [path |-> p, state |-> c.state, ipos |-> c.ipos, flags |-> c.flags]
RunsOf(t, n) == {RunTo(p, EndOf(t, p)) : p \in Traced(t, n)}

\* Where a path leads, however it is traced.
LEMMA EndOfTrace ==
  ASSUME NEW t, NEW p, NEW h, Trace(t, p, h), Len(p) \in Nat
  PROVE  EndOf(t, p) = h[Len(p)]
<1>1. PICK g : g = CHOOSE x : Trace(t, p, x)
  OBVIOUS
<1>2. Trace(t, p, g)
  BY <1>1
<1>3. PICK n : n = Len(p)
  OBVIOUS
<1>4. n \in Nat /\ n <= Len(p) /\ \A j \in 1..n : p[j] = p[j]
  BY <1>3
<1>5. g[n] = h[n]
  BY ONLY <1>2, <1>4, Trace(t, p, h), Len(p) \in Nat, SamePlace
<1> QED
  BY <1>1, <1>3, <1>5 DEF EndOf

\* A path traced goes on by each line that leads further, and by no other.
LEMMA TraceGrows ==
  ASSUME NEW t, IsTask(t), NEW S, NEW p \in Seq(S), NEW h, Trace(t, p, h),
         NEW k, NEW d, Moves(t, k, h[Len(p)], d)
  PROVE  \E g : Trace(t, Append(p, k), g) /\ g[Len(p) + 1] = d
<1>1. PICK q, L : q = Append(p, k) /\ L = Len(p)
  OBVIOUS
<1>2. L \in Nat /\ Len(q) = L + 1 /\ q[L + 1] = k /\ \A i \in 1..L : q[i] = p[i]
  <2>1. p \in Seq(S \cup {k})
    OBVIOUS
  <2> QED
    BY <1>1, <2>1
<1> DEFINE g == [n \in 0..(L + 1) |-> IF n = L + 1 THEN d ELSE h[n]]
<1>3. g[L + 1] = d /\ \A n \in 0..L : g[n] = h[n]
  BY <1>2
<1> HIDE DEF g
<1>4. /\ \A n \in 0..(L + 1) : n \in 0..L \/ n = L + 1
      /\ \A n \in 1..(L + 1) : n \in 1..L \/ n = L + 1
      /\ \A n \in 1..L : n \in 0..L /\ n - 1 \in 0..L
      /\ L + 1 - 1 = L /\ L \in 0..L /\ 0 \in 0..L
  BY <1>2
<1>5. /\ h[0] = Origin
      /\ \A n \in 0..L : Config(t, h[n])
      /\ \A n \in 1..L : Moves(t, p[n], h[n - 1], h[n])
  BY <1>1 DEF Trace
<1>6. Config(t, d)
  BY <1>1, <1>4, <1>5, MovesType
<1>7. \A n \in 0..(L + 1) : Config(t, g[n])
  BY ONLY <1>3, <1>4, <1>5, <1>6
<1>8. \A n \in 1..(L + 1) : Moves(t, q[n], g[n - 1], g[n])
  <2> TAKE n \in 1..(L + 1)
  <2>1. CASE n \in 1..L
    <3>1. q[n] = p[n] /\ g[n] = h[n] /\ g[n - 1] = h[n - 1]
      BY <1>2, <1>3, <1>4, <2>1
    <3> QED
      BY <1>5, <2>1, <3>1
  <2>2. CASE n = L + 1
    BY <1>1, <1>2, <1>3, <1>4, <2>2
  <2> QED
    BY <1>4, <2>1, <2>2
<1>9. Trace(t, q, g)
  BY <1>2, <1>3, <1>4, <1>5, <1>7, <1>8 DEF Trace
<1> QED
  BY <1>1, <1>3, <1>9

\* What holds of a path without its last line.
LEMMA TraceShrinks ==
  ASSUME NEW t, NEW S, NEW p \in Seq(S), NEW k \in S, NEW h, Trace(t, Append(p, k), h)
  PROVE  Trace(t, p, h) /\ Moves(t, k, h[Len(p)], h[Len(p) + 1])
<1>1. PICK q, L : q = Append(p, k) /\ L = Len(p)
  OBVIOUS
<1>2. L \in Nat /\ Len(q) = L + 1 /\ q[L + 1] = k /\ \A i \in 1..L : q[i] = p[i]
  BY <1>1
<1>3. /\ h[0] = Origin
      /\ \A n \in 0..(L + 1) : Config(t, h[n])
      /\ \A n \in 1..(L + 1) : Moves(t, q[n], h[n - 1], h[n])
  BY <1>1, <1>2 DEF Trace
<1>4. /\ \A n \in 0..L : n \in 0..(L + 1)
      /\ \A n \in 1..L : n \in 1..(L + 1)
      /\ L + 1 \in 1..(L + 1) /\ L + 1 - 1 = L
  BY <1>2
<1>5. \A n \in 1..L : Moves(t, p[n], h[n - 1], h[n])
  <2> TAKE n \in 1..L
  <2>1. Moves(t, q[n], h[n - 1], h[n]) /\ q[n] = p[n]
    BY <1>2, <1>3, <1>4
  <2> QED
    BY ONLY <2>1
<1>6. Moves(t, k, h[L], h[L + 1])
  <2>0. L \in Nat
    BY <1>2
  <2>3. PICK m : m = L + 1
    OBVIOUS
  <2>1. m = L + 1 /\ m \in 1..(L + 1) /\ m - 1 = L
    BY ONLY <2>0, <2>3
  <2>2. Moves(t, q[m], h[m - 1], h[m])
    BY ONLY <1>3, <2>1
  <2> QED
    BY ONLY <1>2, <2>1, <2>2
<1> QED
  BY <1>1, <1>3, <1>4, <1>5, <1>6 DEF Trace

\* One round of AcceptingPaths, from the place c.
LEMMA FurtherMoves ==
  ASSUME NEW p, NEW c, IsValues(c.flags), NEW x
  PROVE  x \in Further(RunTo(p, c)) <=>
           \E k, d : Moves(Task, k, c, d) /\ x = RunTo(Append(p, k), d)
<1>0. PICK r : r = RunTo(p, c)
  OBVIOUS
<1>1. r.path = p /\ r.state = c.state /\ r.ipos = c.ipos /\ r.flags = c.flags
  BY <1>0 DEF RunTo
<1>2. Task.net = net /\ Task.mode = mode
  BY TaskNames
<1>3. x \in Further(r) <=>
        \E k \in LinesIn(net) :
          /\ StateAt(net, k) = c.state /\ TargetOf(net, k) # -1
          /\ Eats(Task, SymIn(mode, net, k), c.ipos) # -1
          /\ \E fl \in PassFlag(SymIn(mode, net, k), c.flags) :
               x = [path |-> Append(p, k), state |-> TargetOf(net, k),
                    ipos |-> c.ipos + Eats(Task, SymIn(mode, net, k), c.ipos), flags |-> fl]
  BY <1>1, TaskNames DEF Further
<1>4. ASSUME x \in Further(r)
      PROVE  \E k, d : Moves(Task, k, c, d) /\ x = RunTo(Append(p, k), d)
  <2>1. PICK k, fl :
          /\ k \in LinesIn(net) /\ fl \in PassFlag(SymIn(mode, net, k), c.flags)
          /\ StateAt(net, k) = c.state /\ TargetOf(net, k) # -1
          /\ Eats(Task, SymIn(mode, net, k), c.ipos) # -1
          /\ x = [path |-> Append(p, k), state |-> TargetOf(net, k),
                  ipos |-> c.ipos + Eats(Task, SymIn(mode, net, k), c.ipos), flags |-> fl]
    BY <1>3, <1>4
  <2>2. PICK d : d = [state |-> TargetOf(net, k),
                      ipos |-> c.ipos + Eats(Task, SymIn(mode, net, k), c.ipos), flags |-> fl]
    OBVIOUS
  <2>3. d.flags = fl /\ PassFlag(SymIn(mode, net, k), c.flags) = {fl}
    <3>1. PICK a, fl0 : a = SymIn(mode, net, k) /\ fl0 = c.flags
      OBVIOUS
    <3>2. PassFlag(a, fl0) = {fl}
      <4>1. fl \in PassFlag(a, fl0) /\ IsValues(fl0)
        BY <2>1, <3>1
      <4> QED
        BY ONLY <4>1, PassUndone
    <3> QED
      BY <2>2, <3>1, <3>2
  <2>4. Moves(Task, k, c, d)
    BY ONLY <1>2, <2>1, <2>2, <2>3 DEF Moves
  <2>5. x = RunTo(Append(p, k), d)
    BY ONLY <2>1, <2>2 DEF RunTo
  <2> QED
    BY <2>4, <2>5
<1>5. ASSUME NEW k, NEW d, Moves(Task, k, c, d), x = RunTo(Append(p, k), d)
      PROVE  x \in Further(r)
  <2>1. /\ k \in LinesIn(net) /\ StateAt(net, k) = c.state /\ TargetOf(net, k) # -1
        /\ Eats(Task, SymIn(mode, net, k), c.ipos) # -1
        /\ d.flags \in PassFlag(SymIn(mode, net, k), c.flags)
        /\ d.state = TargetOf(net, k) /\ d.ipos = c.ipos + Eats(Task, SymIn(mode, net, k), c.ipos)
    BY <1>2, <1>5 DEF Moves
  <2>2. x = [path |-> Append(p, k), state |-> TargetOf(net, k),
             ipos |-> c.ipos + Eats(Task, SymIn(mode, net, k), c.ipos), flags |-> d.flags]
    BY <1>5, <2>1 DEF RunTo
  <2> QED
    BY <1>3, <2>1, <2>2
<1> QED
  BY <1>0, <1>4, <1>5

\* One round of AcceptingPaths gives the paths of one line more.
LEMMA RunsFurther ==
  ASSUME IsTask(Task), NEW n \in Nat
  PROVE  UNION {Further(r) : r \in RunsOf(Task, n)} = RunsOf(Task, n + 1)
<1>1. Task.net = net
  BY TaskNames
<1>2. PICK S : S = LinesIn(net)
  OBVIOUS
<1>3. ASSUME NEW p \in Traced(Task, n)
      PROVE  /\ p \in Seq(S) /\ Len(p) = n
             /\ \E h : Trace(Task, p, h) /\ h[n] = EndOf(Task, p)
             /\ IsValues(EndOf(Task, p).flags)
  <2>1. PICK h : Trace(Task, p, h) /\ p \in Seq(S) /\ Len(p) = n
    BY <1>1, <1>2 DEF Traced
  <2>2. h[n] = EndOf(Task, p)
    BY ONLY <2>1, n \in Nat, EndOfTrace
  <2>3. Config(Task, h[n])
    BY <2>1 DEF Trace
  <2> QED
    BY <2>1, <2>2, <2>3 DEF Config
<1>4. ASSUME NEW x, x \in UNION {Further(r) : r \in RunsOf(Task, n)}
      PROVE  x \in RunsOf(Task, n + 1)
  <2>1. PICK p \in Traced(Task, n) : x \in Further(RunTo(p, EndOf(Task, p)))
    BY <1>4 DEF RunsOf
  <2>2. PICK h : p \in Seq(S) /\ Len(p) = n /\ Trace(Task, p, h) /\ h[n] = EndOf(Task, p)
    BY <1>3
  <2>3. PICK k, d : Moves(Task, k, h[n], d) /\ x = RunTo(Append(p, k), d)
    BY <1>3, <2>1, <2>2, FurtherMoves
  <2>4. k \in S
    BY <1>1, <1>2, <2>3 DEF Moves
  <2>5. PICK q : q = Append(p, k) /\ q \in Seq(S) /\ Len(q) = n + 1
    <3>1. Append(p, k) \in Seq(S) /\ Len(Append(p, k)) = n + 1
      BY ONLY <2>2, <2>4
    <3> QED
      BY ONLY <3>1
  <2>6. PICK g : Trace(Task, q, g) /\ g[n + 1] = d
    <3>1. PICK t : t = Task
      OBVIOUS
    <3>2. IsTask(t) /\ p \in Seq(S) /\ Trace(t, p, h) /\ Moves(t, k, h[Len(p)], d)
      BY <2>2, <2>3, <3>1
    <3>3. \E g : Trace(t, Append(p, k), g) /\ g[Len(p) + 1] = d
      BY ONLY <3>2, TraceGrows
    <3> QED
      BY ONLY <2>2, <2>5, <3>1, <3>3
  <2>7. q \in Traced(Task, n + 1) /\ EndOf(Task, q) = d
    <3>1. EndOf(Task, q) = g[Len(q)]
      <4>1. Len(q) \in Nat
        BY <2>5
      <4> QED
        BY ONLY <2>6, <4>1, EndOfTrace
    <3> QED
      BY <1>1, <1>2, <2>5, <2>6, <3>1 DEF Traced
  <2> QED
    BY <2>3, <2>5, <2>7 DEF RunsOf
<1>5. ASSUME NEW x \in RunsOf(Task, n + 1)
      PROVE  x \in UNION {Further(r) : r \in RunsOf(Task, n)}
  <2>1. PICK q \in Traced(Task, n + 1) : x = RunTo(q, EndOf(Task, q))
    BY DEF RunsOf
  <2>2. PICK g : q \in Seq(S) /\ Len(q) = n + 1 /\ Trace(Task, q, g)
    BY <1>1, <1>2, <2>1 DEF Traced
  <2>3. PICK p, k : p \in Seq(S) /\ k \in S /\ q = Append(p, k) /\ Len(p) = n
    <3>1. q # <<>>
      BY <2>2
    <3>2. PICK p : p = [i \in 1..n |-> q[i]]
      OBVIOUS
    <3>3. p \in Seq(S) /\ Len(p) = n /\ q[n + 1] \in S
      BY <2>2, <3>2
    <3>4. q = Append(p, q[n + 1])
      BY <2>2, <3>2, <3>3
    <3> QED
      BY <3>3, <3>4
  <2>4. Trace(Task, p, g) /\ Moves(Task, k, g[n], g[n + 1])
    <3>1. PICK t : t = Task
      OBVIOUS
    <3>2. Trace(t, Append(p, k), g)
      BY <2>2, <2>3, <3>1
    <3>3. Trace(t, p, g) /\ Moves(t, k, g[Len(p)], g[Len(p) + 1])
      BY ONLY <2>3, <3>2, TraceShrinks
    <3> QED
      BY ONLY <2>3, <3>1, <3>3
  <2>5. EndOf(Task, p) = g[n] /\ EndOf(Task, q) = g[n + 1]
    <3>1. Len(p) \in Nat /\ Len(q) \in Nat
      BY <2>2, <2>3
    <3>2. EndOf(Task, p) = g[Len(p)]
      BY ONLY <2>4, <3>1, EndOfTrace
    <3>3. EndOf(Task, q) = g[Len(q)]
      BY ONLY <2>2, <3>1, EndOfTrace
    <3> QED
      BY <2>2, <2>3, <3>2, <3>3
  <2>6. p \in Traced(Task, n)
    BY <1>1, <1>2, <2>3, <2>4 DEF Traced
  <2>7. x \in Further(RunTo(p, EndOf(Task, p)))
    <3>1. PICK c, d : c = EndOf(Task, p) /\ d = EndOf(Task, q)
      OBVIOUS
    <3>2. Moves(Task, k, c, d) /\ x = RunTo(Append(p, k), d) /\ IsValues(c.flags)
      BY <1>3, <2>1, <2>3, <2>4, <2>5, <2>6, <3>1
    <3>3. x \in Further(RunTo(p, c))
      BY ONLY <3>2, FurtherMoves
    <3> QED
      BY <3>1, <3>3
  <2> QED
    BY <2>6, <2>7 DEF RunsOf
<1> QED
  BY <1>4, <1>5

-----------------------------------------------------------------------------

\* A machine has finitely many states.
LEMMA StatesFinite ==
  ASSUME NEW n \in Nets
  PROVE  IsFiniteSet(StatesOf(n)) /\ Cardinality(StatesOf(n)) \in Nat
<1>1. PICK i, j : i = 0 /\ j = Len(n.lines) - 2
  OBVIOUS
<1>2. i \in Int /\ j \in Int /\ LinesIn(n) = i..j
  BY <1>1, NetFacts DEF LinesIn
<1>3. IsFiniteSet(i..j)
  BY ONLY <1>2, FS_Interval
<1>4. PICK S : S = LinesIn(n)
  OBVIOUS
<1>5. IsFiniteSet(S)
  BY <1>2, <1>3, <1>4
<1> DEFINE g == [k \in S |-> StateAt(n, k)]
<1>6. g \in Surjection(S, StatesOf(n))
  BY <1>4 DEF Surjection, StatesOf
<1>7. IsFiniteSet(StatesOf(n))
  BY ONLY <1>5, <1>6, FS_Surjection
<1> QED
  BY ONLY <1>7, FS_CardinalityType

(***************************************************************************)
(* Where no loop consumes nothing a path comes to no state twice with the  *)
(* same part of the word consumed: it is no longer than there are such     *)
(* places.                                                                 *)
(***************************************************************************)
LEMMA PathBound ==
  ASSUME NEW t, IsTask(t), NEW f, Upwards(t, f), NEW p, NEW h, Trace(t, p, h), Len(p) \in Nat
  PROVE  Len(p) + 1 <= (Len(t.word) + 1) * Cardinality(StatesOf(t.net))
<1>1. PICK L, W, T : L = Len(p) /\ W = Len(t.word) /\ T = StatesOf(t.net)
  OBVIOUS
<1>2. L \in Nat /\ W \in Nat
  BY <1>1 DEF IsTask
<1>3. IsFiniteSet(T)
  BY <1>1, StatesFinite DEF IsTask
<1>4. IsFiniteSet(0..W) /\ Cardinality(0..W) = W + 1
  <2>1. 0 \in Int /\ W \in Int /\ ~(0 > W) /\ W - 0 + 1 = W + 1
    BY <1>2
  <2> QED
    BY ONLY <2>1, FS_Interval
<1>5. IsFiniteSet(0..L) /\ Cardinality(0..L) = L + 1
  <2>1. 0 \in Int /\ L \in Int /\ ~(0 > L) /\ L - 0 + 1 = L + 1
    BY <1>2
  <2> QED
    BY ONLY <2>1, FS_Interval
<1>6. PICK P : P = (0..W) \X T
  OBVIOUS
<1>7. IsFiniteSet(P) /\ Cardinality(P) = (W + 1) * Cardinality(T)
  <2>1. IsFiniteSet((0..W) \X T) /\ Cardinality((0..W) \X T) = Cardinality(0..W) * Cardinality(T)
    BY ONLY <1>3, <1>4, FS_Product
  <2> QED
    BY <1>4, <1>6, <2>1
<1> DEFINE g == [n \in 0..L |-> <<h[n].ipos, h[n].state>>]
<1>8. \A n \in 0..L : /\ Config(t, h[n]) /\ h[n].ipos \in 0..W
                      /\ h[n].ipos \in Nat /\ h[n].state \in T /\ f[h[n].state] \in Nat
  <2> TAKE n \in 0..L
  <2>1. PICK c : c = h[n] /\ Config(t, c)
    BY <1>1 DEF Trace
  <2>2. c.ipos \in Nat /\ c.state \in T /\ f[c.state] \in Nat
    BY <1>1, <2>1, PlaceType
  <2> QED
    BY <1>1, <2>1, <2>2 DEF Config
<1>9. \A i, j \in 0..L : i < j => h[i].ipos # h[j].ipos \/ h[i].state # h[j].state
  <2> SUFFICES ASSUME NEW i \in 0..L, NEW j \in 0..L, i < j,
                      h[i].ipos = h[j].ipos, h[i].state = h[j].state
               PROVE  FALSE
    OBVIOUS
  <2>1. Before(f, h[i], h[j])
    <3>1. i \in 0..Len(p) /\ j \in 0..Len(p)
      BY <1>1
    <3> QED
      BY <3>1, PathUp
  <2>2. h[j].ipos \in Nat /\ f[h[j].state] \in Nat
    BY <1>8
  <2> QED
    BY <2>1, <2>2 DEF Before
<1>10. g \in Injection(0..L, P)
  <2>1. g \in [0..L -> P]
    BY <1>6, <1>8
  <2>2. ASSUME NEW i \in 0..L, NEW j \in 0..L, g[i] = g[j]
        PROVE  i = j
    <3>1. h[i].ipos = h[j].ipos /\ h[i].state = h[j].state
      BY <2>2
    <3>2. ~(i < j) /\ ~(j < i)
      BY <1>9, <3>1
    <3> QED
      BY <1>2, <3>2
  <2>3. DOMAIN g = 0..L
    OBVIOUS
  <2> HIDE DEF g
  <2> QED
    BY <2>1, <2>2, <2>3 DEF Injection, IsInjective
<1> HIDE DEF g
<1>11. Cardinality(0..L) <= Cardinality(P)
  BY ONLY <1>7, <1>10, FS_Injection
<1> QED
  BY <1>1, <1>5, <1>7, <1>11

\* AcceptingPaths are the accepting paths of at most MaxPath lines.
LEMMA AcceptingTraced ==
  ASSUME IsTask(Task), MaxPath \in Nat
  PROVE  \A p : p \in AcceptingPaths <=> Accepted(Task, p) /\ Len(p) <= MaxPath
<1>1. PICK N \in Nat : N = MaxPath
  OBVIOUS
<1> DEFINE step(f, n) ==
             IF n = 0 THEN {[path |-> <<>>, state |-> 0, ipos |-> 0, flags |-> NoFlags]}
             ELSE UNION {Further(r) : r \in f[n - 1]}
           Rec(f) == f = [n \in 0..N |-> step(f, n)]
           g == [n \in 0..N |-> RunsOf(Task, n)]
<1>2. RunsOf(Task, 0) = {[path |-> <<>>, state |-> 0, ipos |-> 0, flags |-> NoFlags]}
  <2>1. \E h : Trace(Task, <<>>, h)
    <3>1. HasRun(Task, <<>>, Origin)
      BY NoRun
    <3>2. PathOf(<<>>) = <<>>
      BY DEF PathOf
    <3> QED
      BY <3>1, <3>2 DEF HasRun, RunOf
  <2>2. PICK h : Trace(Task, <<>>, h)
    BY <2>1
  <2>0. PICK e : e = <<>>
    OBVIOUS
  <2>3. e = <<>> /\ Len(e) = 0 /\ e \in Seq(LinesIn(net))
    BY <2>0
  <2>4. EndOf(Task, e) = h[Len(e)]
    <3>1. Trace(Task, e, h) /\ Len(e) \in Nat
      BY <2>2, <2>3
    <3> QED
      BY ONLY <3>1, EndOfTrace
  <2>5. EndOf(Task, e) = Origin
    BY <2>2, <2>3, <2>4 DEF Trace
  <2>6. Traced(Task, 0) = {e}
    <3>1. \A p \in Seq(LinesIn(net)) : Len(p) = 0 => p = e
      BY <2>3
    <3> QED
      BY <2>2, <2>3, <3>1, TaskNames DEF Traced
  <2>7. RunTo(e, Origin) = [path |-> <<>>, state |-> 0, ipos |-> 0, flags |-> NoFlags]
    BY <2>3 DEF RunTo, Origin
  <2> QED
    BY <2>5, <2>6, <2>7 DEF RunsOf
<1>3. \A n \in 1..N : /\ n - 1 \in 0..N /\ n \in 0..N /\ n # 0 /\ ~(n <= n - 1)
                      /\ UNION {Further(r) : r \in RunsOf(Task, n - 1)} = RunsOf(Task, n)
  <2> TAKE n \in 1..N
  <2>1. PICK m \in Nat : m = n - 1 /\ n = m + 1
    OBVIOUS
  <2>2. UNION {Further(r) : r \in RunsOf(Task, m)} = RunsOf(Task, m + 1)
    BY RunsFurther
  <2> QED
    BY <2>1, <2>2
<1>4. Rec(g)
  <2>1. \A n \in 0..N : step(g, n) = RunsOf(Task, n)
    <3> TAKE n \in 0..N
    <3>1. CASE n = 0
      BY <1>2, <3>1
    <3>2. CASE n # 0
      <4>1. n \in 1..N
        BY <3>2
      <4>2. g[n - 1] = RunsOf(Task, n - 1)
        BY <1>3, <4>1
      <4>3. step(g, n) = UNION {Further(r) : r \in RunsOf(Task, n - 1)}
        BY ONLY <3>2, <4>2
      <4> QED
        BY <1>3, <4>1, <4>3
    <3> QED
      BY <3>1, <3>2
  <2> QED
    BY ONLY <2>1
<1>5. PICK runs : runs = CHOOSE f : Rec(f)
  OBVIOUS
<1>6. Rec(runs)
  <2> HIDE DEF Rec
  <2> QED
    BY <1>4, <1>5
<1>7. \A n \in 0..N : runs[n] = RunsOf(Task, n)
  <2> DEFINE M == {n \in 0..N : runs[n] # RunsOf(Task, n)}
  <2> SUFFICES ASSUME M # {} PROVE FALSE
    OBVIOUS
  <2>1. PICK n \in M : \A m \in M : n <= m
    <3>1. M \in SUBSET Nat
      OBVIOUS
    <3> HIDE DEF M
    <3> QED
      BY <3>1, LeastOf
  <2>2. n \in 0..N /\ runs[n] = step(runs, n) /\ runs[n] # RunsOf(Task, n)
    BY <1>6
  <2>3. CASE n = 0
    BY <1>2, <2>2, <2>3
  <2>4. CASE n # 0
    <3>1. n \in 1..N
      BY <2>2, <2>4
    <3>2. runs[n - 1] = RunsOf(Task, n - 1)
      BY <1>3, <2>1, <3>1
    <3>3. step(runs, n) = UNION {Further(r) : r \in RunsOf(Task, n - 1)}
      BY ONLY <2>4, <3>2
    <3> QED
      BY <1>3, <2>2, <3>1, <3>3
  <2> QED
    BY <2>3, <2>4
<1>8. AcceptingPaths = UNION {{r.path : r \in {x \in runs[n] : Accepts(x)}} : n \in 0..N}
  BY <1>1, <1>5 DEF AcceptingPaths
<1>9. AcceptingPaths = UNION {{r.path : r \in {x \in RunsOf(Task, n) : Accepts(x)}} : n \in 0..N}
  <2>1. \A n \in 0..N : {r.path : r \in {x \in runs[n] : Accepts(x)}}
                          = {r.path : r \in {x \in RunsOf(Task, n) : Accepts(x)}}
    BY ONLY <1>7
  <2> QED
    BY ONLY <1>8, <2>1
<1>10. \A p, c : Accepts(RunTo(p, c)) <=> AcceptsAt(Task, c)
  BY TaskNames DEF Accepts, AcceptsAt, RunTo
<1>11. \A p, c : RunTo(p, c).path = p
  BY DEF RunTo
<1>12. ASSUME NEW p \in AcceptingPaths
       PROVE  Accepted(Task, p) /\ Len(p) <= N
  <2>1. PICK n, r : n \in 0..N /\ r \in RunsOf(Task, n) /\ Accepts(r) /\ p = r.path
    BY <1>9
  <2>2. PICK q \in Traced(Task, n) : r = RunTo(q, EndOf(Task, q))
    BY <2>1 DEF RunsOf
  <2>3. p = q /\ AcceptsAt(Task, EndOf(Task, p))
    BY <1>10, <1>11, <2>1, <2>2
  <2>4. PICK h : p \in Seq(LinesIn(Task.net)) /\ Len(p) = n /\ Trace(Task, p, h)
    BY <2>2, <2>3 DEF Traced
  <2>5. EndOf(Task, p) = h[Len(p)]
    BY <2>1, <2>4, EndOfTrace
  <2> QED
    BY <2>1, <2>3, <2>4, <2>5 DEF Accepted
<1>13. ASSUME NEW p, Accepted(Task, p), Len(p) <= N
       PROVE  p \in AcceptingPaths
  <2>1. PICK h : p \in Seq(LinesIn(Task.net)) /\ Trace(Task, p, h) /\ AcceptsAt(Task, h[Len(p)])
    BY <1>13 DEF Accepted
  <2>2. PICK n : n = Len(p)
    OBVIOUS
  <2>3. n \in 0..N
    BY <1>13, <2>1, <2>2
  <2>4. EndOf(Task, p) = h[Len(p)]
    BY <2>1, EndOfTrace
  <2>5. p \in Traced(Task, n)
    BY <2>1, <2>2 DEF Traced
  <2>6. PICK r : r = RunTo(p, EndOf(Task, p))
    OBVIOUS
  <2>7. r \in RunsOf(Task, n) /\ Accepts(r) /\ r.path = p
    BY <1>10, <1>11, <2>1, <2>4, <2>5, <2>6 DEF RunsOf
  <2> QED
    BY ONLY <1>9, <2>3, <2>7
<1> QED
  BY <1>1, <1>12, <1>13

\* Where no loop consumes nothing MaxPath bounds no accepting path.
LEMMA AcceptedBound ==
  ASSUME IsTask(Task), LoopFree
  PROVE  MaxPath \in Nat /\ \A p : p \in AcceptingPaths <=> Accepted(Task, p)
<1>1. States = StatesOf(net) /\ Task.net = net /\ Task.word = word
  BY TaskNames DEF States, StatesOf, LineNo, LinesIn, Line, StateAt
<1>2. Cardinality(States) \in Nat /\ Len(word) \in Nat
  BY <1>1, StatesFinite DEF IsTask
<1>3. MaxPath \in Nat
  <2>1. \A a, b \in Nat : (a + 1) * b \in Nat
    OBVIOUS
  <2> QED
    BY <1>2, <2>1 DEF MaxPath
<1>4. ASSUME NEW p, Accepted(Task, p)
      PROVE  Len(p) <= MaxPath
  <2>1. PICK h : Trace(Task, p, h) /\ Len(p) \in Nat
    BY <1>4 DEF Accepted
  <2>2. PICK f : Upwards(Task, f)
    BY LoopFreeTask
  <2>3. Len(p) + 1 <= (Len(word) + 1) * Cardinality(States)
    <3>1. PICK t : t = Task
      OBVIOUS
    <3>2. Len(p) + 1 <= (Len(t.word) + 1) * Cardinality(StatesOf(t.net))
      <4>1. IsTask(t) /\ Upwards(t, f) /\ Trace(t, p, h)
        BY <2>1, <2>2, <3>1
      <4> QED
        BY ONLY <2>1, <4>1, PathBound
    <3> QED
      BY <1>1, <3>1, <3>2
  <2>4. Len(p) + 1 <= MaxPath
    BY <2>3 DEF MaxPath
  <2> QED
    BY <1>3, <2>1, <2>4
<1> QED
  BY <1>3, <1>4, AcceptingTraced

\* A sequence that lists nothing twice has as many members as places.
LEMMA DistinctCount ==
  ASSUME NEW q, AnyStack(q), Distinct(q)
  PROVE  ToSet(q) = Members(q) /\ Cardinality(Members(q)) = Len(q)
<1>1. PICK S : q \in Seq(S)
  BY DEF AnyStack
<1>2. PICK L \in Nat : L = Len(q) /\ DOMAIN q = 1..L
  BY <1>1
<1>3. ToSet(q) = Members(q)
  BY <1>2 DEF ToSet, Members
<1>4. IsFiniteSet(1..L) /\ Cardinality(1..L) = L
  <2>1. 1 \in Int /\ L \in Int /\ (1 > L => L = 0) /\ L - 1 + 1 = L
    BY <1>2
  <2>2. IsFiniteSet(1..L) /\ Cardinality(1..L) = IF 1 > L THEN 0 ELSE L - 1 + 1
    BY ONLY <2>1, FS_Interval
  <2> QED
    BY <2>1, <2>2
<1> DEFINE g == [i \in 1..L |-> q[i]]
<1>5. g \in Bijection(1..L, Members(q))
  <2>1. g \in [1..L -> Members(q)] /\ DOMAIN g = 1..L /\ \A i \in 1..L : g[i] = q[i]
    BY <1>2 DEF Members
  <2> HIDE DEF g
  <2>2. IsInjective(g)
    BY <1>2, <2>1 DEF IsInjective, Distinct
  <2>3. \A x \in Members(q) : \E i \in 1..L : g[i] = x
    BY <1>2, <2>1 DEF Members
  <2> QED
    BY <2>1, <2>2, <2>3 DEF Bijection, Injection, Surjection
<1>6. ExistsBijection(1..L, Members(q))
  BY <1>5 DEF ExistsBijection
<1>7. Cardinality(Members(q)) = L
  BY ONLY <1>4, <1>6, FS_Bijection
<1> QED
  BY <1>2, <1>3, <1>7

\* When nothing is left to come all accepting paths have been returned.
LEMMA CompleteReturns ==
  RunInv /\ Complete => EveryPathOnce
<1> SUFFICES ASSUME RunInv, Complete, pc = "exhausted", LoopFree, Indexable
             PROVE  /\ ToSet(returned) = AcceptingPaths
                    /\ Cardinality(ToSet(returned)) = Len(returned)
  BY DEF EveryPathOnce
<1>1. searchstack = <<>> /\ AnyStack(returned) /\ Distinct(returned)
  BY DEF Complete
<1>2. \A p : ~ToCome(p)
  BY <1>1 DEF ToCome, Pending
<1>3. \A p : p \in Members(returned) <=> Accepted(Task, p)
  BY <1>2 DEF Complete
<1>4. \A p : p \in AcceptingPaths <=> Accepted(Task, p)
  BY AcceptedBound DEF RunInv
<1>5. Members(returned) = AcceptingPaths
  BY ONLY <1>3, <1>4
<1>6. ToSet(returned) = Members(returned) /\ Cardinality(Members(returned)) = Len(returned)
  BY <1>1, DistinctCount
<1> QED
  BY <1>5, <1>6

(***************************************************************************)
(* The results of a word, from the first to NULL, are the accepting paths  *)
(* of the machine, each once, also where the word was begun while results  *)
(* of another were not all asked for.                                      *)
(***************************************************************************)
THEOREM EveryPathReturned == Spec => []EveryPathOnce
<1>1. Init => MarksInv /\ RunInv /\ ListInv /\ Positive /\ Complete
  BY InitMarks, InitRun, InitLists, InitPositive, InitComplete
<1>2. MarksInv /\ RunInv /\ ListInv /\ Positive /\ Complete /\ [Next]_vars
        => MarksInv' /\ RunInv' /\ ListInv' /\ Positive' /\ Complete'
  BY NextMarks, NextRun, NextLists, NextPositive, NextComplete
<1> QED
  BY <1>1, <1>2, CompleteReturns, PTL DEF Spec

-----------------------------------------------------------------------------

(***************************************************************************)
(* What is returned, on every machine: whatever loops it has and whichever *)
(* states are indexed, a result is an accepting path, and it is behind the *)
(* search, which comes to no path a second time.                           *)
(***************************************************************************)
Genuine ==
  /\ \A p \in Members(returned) : Accepted(Task, p)
  /\ Distinct(returned)

Behind ==
  /\ AnyStack(returned) /\ Genuine
  /\ pc # "idle" => \A p \in Members(returned) : ~ToCome(p)

\* A step of the search that returns nothing and adds no path to those to come.
LEMMA NothingAdded ==
  ASSUME Behind, net' = net, mode' = mode, word' = word, returned' = returned, pc # "idle",
         \A p : Accepted(Task, p) /\ ToCome(p)' => ToCome(p)
  PROVE  Behind'
<1>1. Task' = Task
  BY SameTask
<1>2. /\ AnyStack(returned) /\ Distinct(returned)
      /\ \A p \in Members(returned) : Accepted(Task, p) /\ ~ToCome(p)
  BY DEF Behind, Genuine
<1>3. \A p \in Members(returned') : Accepted(Task', p) /\ ~ToCome(p)'
  BY ONLY <1>1, <1>2, returned' = returned, \A p : Accepted(Task, p) /\ ToCome(p)' => ToCome(p)
<1>4. AnyStack(returned') /\ Distinct(returned')
  BY ONLY <1>2, returned' = returned
<1> QED
  BY ONLY <1>3, <1>4 DEF Behind, Genuine

\* At the start of a word nothing is returned.
LEMMA StartBehind ==
  ASSUME NEW m \in Modes, NEW w \in Words, Start(m, w)
  PROVE  Behind'
<1>1. returned' = <<>>
  BY DEF Start
<1>2. AnyStack(<<>>) /\ Members(<<>>) = {} /\ Distinct(<<>>)
  <2>1. <<>> \in Seq({})
    OBVIOUS
  <2> QED
    BY <2>1 DEF AnyStack, Members, Distinct
<1> QED
  BY ONLY <1>1, <1>2 DEF Behind, Genuine

\* The path returned is one that accepts, was still to come, and is so no more.
LEMMA EnterBehind ==
  ASSUME MarksInv, RunInv, ListInv, Behind, Enter
  PROVE  Behind'
<1>1. /\ pc = "enter" /\ net' = net /\ mode' = mode /\ word' = word /\ searchstack' = searchstack
      /\ pc' \in {"result", "mark"}
      /\ returned' = IF AtResult THEN Append(returned, Path) ELSE returned
  BY DEF Enter
<1>2. \A p : ToCome(p)' <=> Pending(net, searchstack, p) \/ GoesOn(p, searchstack)
  BY <1>1 DEF ToCome
<1>3. \A p : ToCome(p) <=> \/ Pending(net, searchstack, p)
                           \/ Begins(p, searchstack, Len(searchstack))
  BY <1>1 DEF ToCome
<1>4. \A p : ToCome(p)' => ToCome(p)
  BY <1>2, <1>3 DEF GoesOn
<1>5. CASE ~AtResult
  BY <1>1, <1>4, <1>5, NothingAdded
<1>6. CASE AtResult
  <2>1. PICK q, r : q = Path /\ r = returned
    OBVIOUS
  <2>2. /\ ~Pending(net, searchstack, q) /\ Begins(q, searchstack, Len(searchstack))
        /\ ~GoesOn(q, searchstack)
    BY <2>1, PathNotPending
  <2>3. ToCome(q) /\ ~ToCome(q)'
    BY ONLY <1>2, <1>3, <2>2
  <2>4. PICK S : r \in Seq(S)
    BY <2>1 DEF Behind, AnyStack
  <2>5. PICK N \in Nat : N = Len(r)
    BY <2>4
  <2>6. PICK r2 : r2 = Append(r, q)
    OBVIOUS
  <2>7. /\ r2 \in Seq(S \cup {q}) /\ Len(r2) = N + 1 /\ r2[N + 1] = q
        /\ \A i \in 1..N : r2[i] = r[i]
    <3>1. r \in Seq(S \cup {q})
      BY <2>4
    <3> QED
      BY <2>5, <2>6, <3>1
  <2>8. returned' = r2
    BY <1>1, <1>6, <2>1, <2>6
  <2>9. /\ \A i \in 1..(N + 1) : i \in 1..N \/ i = N + 1
        /\ \A i \in 1..N : i \in 1..(N + 1)
        /\ N + 1 \in 1..(N + 1)
    OBVIOUS
  <2>10. Members(r2) = Members(r) \cup {q}
    BY <2>5, <2>7, <2>9 DEF Members
  <2>11. /\ \A p \in Members(r) : Accepted(Task, p) /\ ~ToCome(p)
         /\ Distinct(r)
    BY <1>1, <2>1 DEF Behind, Genuine
  <2>12. Accepted(Task, q) /\ q \notin Members(r)
    BY <1>6, <2>1, <2>3, <2>11, PathAccepted
  <2>13. \A p \in Members(r2) : Accepted(Task, p) /\ ~ToCome(p)'
    BY ONLY <1>4, <2>3, <2>10, <2>11, <2>12
  <2>14. Distinct(r2)
    <3> SUFFICES ASSUME NEW i \in 1..(N + 1), NEW j \in 1..(N + 1), r2[i] = r2[j]
                 PROVE  i = j
      BY <2>7 DEF Distinct
    <3>1. \A a \in 1..N : r2[a] # q
      BY <2>5, <2>7, <2>12 DEF Members
    <3>2. \A a, b \in 1..N : r2[a] = r2[b] => a = b
      BY <2>5, <2>7, <2>11 DEF Distinct
    <3> QED
      BY ONLY <2>7, <2>9, <3>1, <3>2, i \in 1..(N + 1), j \in 1..(N + 1), r2[i] = r2[j]
  <2>15. Task' = Task
    BY <1>1, SameTask
  <2>16. AnyStack(r2)
    BY <2>7 DEF AnyStack
  <2> QED
    BY ONLY <2>8, <2>13, <2>14, <2>15, <2>16 DEF Behind, Genuine
<1> QED
  BY <1>5, <1>6

\* A line is followed: what is left of the lines ahead was ahead.
LEMMA FollowBehind ==
  ASSUME MarksInv, RunInv, ListInv, Behind, NEW n \in NextArc, FollowArc(n)
  PROVE  Behind'
<1>1. PICK k, e, q : /\ q = Ahead /\ k = q[n]
                     /\ searchstack' = Append(searchstack, e)
                     /\ e.ptr = k /\ e.has_index = state_has_index
                     /\ e.iptr = IF state_has_index THEN SubSeq(iptr, n, Len(iptr)) ELSE iptr
  BY FollowFacts
<1>2. /\ pc = "follow" /\ pc' = "enter" /\ net' = net /\ mode' = mode /\ word' = word
      /\ returned' = returned
      /\ n \in 1..Len(q) /\ q \in Seq(LinesOf(net, State))
  BY <1>1, FollowFacts
<1>3. Left(net, e) = {q[j] : j \in (n + 1)..Len(q)}
  BY <1>1, <1>2, LeftAhead
<1>4. k \in Members(q) /\ Left(net, e) \subseteq Members(q)
  <2>1. \A j \in (n + 1)..Len(q) : j \in 1..Len(q)
    BY <1>2
  <2> QED
    BY <1>1, <1>2, <1>3, <2>1 DEF Members
<1>5. PICK S : searchstack \in Seq(S)
  BY DEF RunInv, AnyStack
<1>6. PICK st, st2 : st = searchstack /\ st2 = searchstack'
  OBVIOUS
<1>7. PICK L \in Nat : /\ L = Len(st) /\ Len(st2) = L + 1 /\ st2[L + 1] = e
                       /\ \A i \in 1..L : st2[i] = st[i]
  <2>1. searchstack \in Seq(S \cup {e})
    BY <1>5
  <2> QED
    BY <1>1, <1>6, <2>1
<1>8. ASSUME NEW p, Accepted(Task, p), ToCome(p)'
      PROVE  ToCome(p)
  <2>1. p \in Seq(LinesIn(net)) /\ Len(p) \in Nat
    BY <1>8, TaskNames DEF Accepted
  <2>2. /\ Begins(p, st2, L + 1) <=> GoesOn(p, st) /\ p[L + 1] = k
        /\ Pending(net, st2, p) <=> \/ Pending(net, st, p)
                                    \/ GoesOn(p, st) /\ p[L + 1] \in Left(net, e)
    <3>1. PICK nt : nt = net
      OBVIOUS
    <3>2. /\ Begins(p, st2, L + 1) <=> GoesOn(p, st) /\ p[L + 1] = st2[L + 1].ptr
          /\ Pending(nt, st2, p) <=> \/ Pending(nt, st, p)
                                     \/ GoesOn(p, st) /\ p[L + 1] \in Left(nt, st2[L + 1])
      <4>1. Grown(st, st2, L)
        BY <1>7 DEF Grown
      <4> QED
        BY ONLY <2>1, <4>1, L \in Nat, Stacked
    <3> QED
      BY <1>1, <1>7, <3>1, <3>2
  <2>3. ToCome(p)' <=> Pending(net, st2, p) \/ Begins(p, st2, L + 1)
    BY <1>2, <1>6, <1>7 DEF ToCome
  <2>4. ToCome(p) <=> Pending(net, st, p) \/ (GoesOn(p, st) /\ p[L + 1] \in Members(q))
    BY <1>1, <1>2, <1>6, <1>7 DEF ToCome
  <2> QED
    BY ONLY <1>4, <1>8, <2>2, <2>3, <2>4
<1> QED
  BY <1>2, <1>8, NothingAdded

\* The entry popped puts back ahead what it had left.
LEMMA PopBehind ==
  ASSUME MarksInv, RunInv, ListInv, Behind, Pop
  PROVE  Behind'
<1>1. PICK f : f = Last(searchstack)
  OBVIOUS
<1>2. /\ pc = "pop" /\ net' = net /\ mode' = mode /\ word' = word /\ returned' = returned
      /\ searchstack' = Front(searchstack)
  BY DEF Pop
<1>3. \A p : Accepted(Task, p) => (ToCome(p)' <=> ToCome(p))
  BY PopToCome
<1> QED
  BY <1>2, <1>3, NothingAdded

\* A path to come was to come before every step but the first of a word.
LEMMA NextBehind == MarksInv /\ RunInv /\ ListInv /\ Behind /\ [Next]_vars => Behind'
<1> SUFFICES ASSUME MarksInv, RunInv, ListInv, Behind, [Next]_vars
             PROVE  Behind'
  OBVIOUS
<1>1. ASSUME NEW m \in Modes, NEW w \in Words, Start(m, w)
      PROVE  Behind'
  BY <1>1, StartBehind
<1>2. ASSUME NEW n \in NextArc, FollowArc(n)
      PROVE  Behind'
  BY <1>2, FollowBehind
<1>3. CASE Enter
  BY <1>3, EnterBehind
<1>4. CASE Pop
  BY <1>4, PopBehind
<1>5. CASE Open
  <2>1. /\ pc = "open" /\ pc' = "enter" /\ net' = net /\ mode' = mode /\ word' = word
        /\ searchstack' = searchstack /\ returned' = returned
    BY <1>5 DEF Open
  <2>2. \A p : ToCome(p)' <=> ToCome(p)
    BY <2>1 DEF ToCome
  <2> QED
    BY <2>1, <2>2, NothingAdded
<1>6. CASE Again
  <2>1. /\ pc = "result" /\ pc' = "mark" /\ net' = net /\ mode' = mode /\ word' = word
        /\ searchstack' = searchstack /\ returned' = returned
    BY <1>6 DEF Again
  <2>2. \A p : ToCome(p)' <=> ToCome(p)
    BY <2>1 DEF ToCome
  <2> QED
    BY <2>1, <2>2, NothingAdded
<1>7. CASE MarkState
  <2>1. /\ pc = "mark" /\ pc' = "follow" /\ net' = net /\ mode' = mode /\ word' = word
        /\ searchstack' = searchstack /\ returned' = returned
    BY <1>7 DEF MarkState
  <2>2. \A p : ToCome(p)' => ToCome(p)
    BY <2>1 DEF ToCome
  <2> QED
    BY <2>1, <2>2, NothingAdded
<1>8. CASE NoArc
  <2>1. /\ pc = "follow" /\ pc' = "pop" /\ net' = net /\ mode' = mode /\ word' = word
        /\ searchstack' = searchstack /\ returned' = returned
    BY <1>8 DEF NoArc
  <2>2. \A p : ToCome(p)' => ToCome(p)
    BY <2>1 DEF ToCome
  <2> QED
    BY <2>1, <2>2, NothingAdded
<1>9. CASE Exhausted
  <2>1. /\ pc = "pop" /\ pc' = "exhausted" /\ net' = net /\ mode' = mode /\ word' = word
        /\ searchstack' = searchstack /\ returned' = returned
    BY <1>9 DEF Exhausted
  <2>2. \A p : ToCome(p)' <=> ToCome(p)
    BY <2>1 DEF ToCome
  <2> QED
    BY <2>1, <2>2, NothingAdded
<1>10. CASE Reset
  <2>1. pc' = "idle" /\ net' = net /\ mode' = mode /\ word' = word /\ returned' = returned
    BY <1>10 DEF Reset
  <2>2. Task' = Task
    BY <2>1, SameTask
  <2> QED
    BY <2>1, <2>2 DEF Behind, Genuine
<1>11. CASE UNCHANGED vars
  <2>1. /\ pc' = pc /\ net' = net /\ mode' = mode /\ word' = word
        /\ searchstack' = searchstack /\ returned' = returned
    BY <1>11 DEF vars
  <2>2. CASE pc = "idle"
    <3>1. Task' = Task
      BY <2>1, SameTask
    <3> QED
      BY <2>1, <2>2, <3>1 DEF Behind, Genuine
  <2>3. CASE pc # "idle"
    <3>1. Ahead' = Ahead
      BY <1>11 DEF vars, Ahead, State, Line, LineNo
    <3>2. \A p : ToCome(p)' <=> ToCome(p)
      BY <2>1, <3>1 DEF ToCome
    <3> QED
      BY <2>1, <2>3, <3>2, NothingAdded
  <2> QED
    BY <2>2, <2>3
<1> QED
  BY <1>1, <1>2, <1>3, <1>4, <1>5, <1>6, <1>7, <1>8, <1>9, <1>10, <1>11 DEF Next, Search

\* At first nothing is returned.
LEMMA InitBehind == Init => Behind
<1> SUFFICES ASSUME Init PROVE Behind
  OBVIOUS
<1>1. returned = <<>> /\ pc = "idle"
  BY DEF Init
<1>2. <<>> \in Seq({})
  OBVIOUS
<1> QED
  BY <1>1, <1>2 DEF Behind, Genuine, AnyStack, Members, Distinct

(***************************************************************************)
(* At any moment, on every machine and with every index: the results given *)
(* for the word so far are paths of the machine that accept it, and no     *)
(* path has been given twice.  (Where a loop consumes nothing, or only the *)
(* other direction has an index, some may be missing: EveryPathReturned.)  *)
(***************************************************************************)
THEOREM ResultsGenuine == Spec => []Genuine
<1>1. Init => MarksInv /\ RunInv /\ ListInv /\ Behind
  BY InitMarks, InitRun, InitLists, InitBehind
<1>2. MarksInv /\ RunInv /\ ListInv /\ Behind /\ [Next]_vars
        => MarksInv' /\ RunInv' /\ ListInv' /\ Behind'
  BY NextMarks, NextRun, NextLists, NextBehind
<1>3. Behind => Genuine
  BY DEF Behind
<1> QED
  BY <1>1, <1>2, <1>3, PTL DEF Spec

-----------------------------------------------------------------------------

(***************************************************************************)
(* Where every loop that consumes nothing is at one state: f numbers the   *)
(* states so that whatever consumes nothing stays or leads upwards.        *)
(***************************************************************************)
UpOrStays(t, f) ==
  /\ f \in [StatesOf(t.net) -> StatesOf(t.net)]
  /\ \A k \in LinesIn(t.net) :
       /\ TargetOf(t.net, k) \notin {-1, StateAt(t.net, k)}
       /\ t.mode = "words" \/ SymIn(t.mode, t.net, k) = Epsilon \/ IsFlag(SymIn(t.mode, t.net, k))
       => f[StateAt(t.net, k)] < f[TargetOf(t.net, k)]

\* Where the search stands but for the flags, and that d is not behind c.
Spot(c) == <<c.state, c.ipos>>
NotBehind(f, c, d) == Spot(c) = Spot(d) \/ Before(f, c, d)

\* SingleLoops in terms of the task.
LEMMA SingleLoopsTask == SingleLoops <=> \E f : UpOrStays(Task, f)
<1>1. States = StatesOf(net)
  BY DEF States, StatesOf, LineNo, LinesIn, Line, StateAt
<1>2. \A f \in [States -> States] :
        UpOrStays(Task, f) <=>
          \A k \in LineNo : /\ Line(k).target \notin {-1, Line(k).state_no}
                            /\ (mode = "words" \/ symin(k) = Epsilon \/ IsFlag(symin(k)))
                            => f[Line(k).state_no] < f[Line(k).target]
  BY <1>1, TaskNames DEF UpOrStays
<1>3. \A f : UpOrStays(Task, f) => f \in [States -> States]
  BY <1>1, TaskNames DEF UpOrStays
<1> QED
  BY ONLY <1>2, <1>3 DEF SingleLoops

\* A spot as numbers.
LEMMA SpotType ==
  ASSUME NEW t, IsTask(t), NEW f, UpOrStays(t, f), NEW c, Config(t, c)
  PROVE  c.ipos \in Nat /\ c.state \in StatesOf(t.net) /\ f[c.state] \in Nat
<1>1. c.state \in StatesOf(t.net) /\ c.ipos \in 0..Len(t.word) /\ Len(t.word) \in Nat
  BY DEF Config, StatesOf, IsTask
<1>2. \A s \in StatesOf(t.net) : s \in Nat
  BY NetFacts DEF StatesOf, IsTask
<1>3. f[c.state] \in StatesOf(t.net)
  BY <1>1 DEF UpOrStays
<1> QED
  BY <1>1, <1>2, <1>3

\* A line stays, leads on in the word, or upwards.
LEMMA MovesOn ==
  ASSUME NEW t, IsTask(t), NEW f, UpOrStays(t, f), NEW c, Config(t, c),
         NEW k, NEW d, Moves(t, k, c, d)
  PROVE  NotBehind(f, c, d)
<1> DEFINE a == SymIn(t.mode, t.net, k)
<1>1. /\ k \in LinesIn(t.net) /\ StateAt(t.net, k) = c.state /\ TargetOf(t.net, k) # -1
      /\ Eats(t, a, c.ipos) # -1
  BY DEF Moves
<1>2. d.state = TargetOf(t.net, k) /\ d.ipos = c.ipos + Eats(t, a, c.ipos)
  BY MovesType
<1>3. c.ipos \in Nat
  BY SpotType
<1>4. CASE t.mode = "words" \/ a = Epsilon \/ IsFlag(a)
  <2>1. Eats(t, a, c.ipos) = 0
    BY <1>4 DEF Eats
  <2>2. d.ipos = c.ipos
    BY <1>2, <1>3, <2>1
  <2>3. CASE d.state = c.state
    BY <2>2, <2>3 DEF NotBehind, Spot
  <2>4. CASE d.state # c.state
    <3>1. f[c.state] < f[d.state]
      BY <1>1, <1>2, <1>4, <2>4 DEF UpOrStays
    <3> QED
      BY <2>2, <3>1 DEF NotBehind, Before
  <2> QED
    BY <2>3, <2>4
<1>5. CASE ~(t.mode = "words" \/ a = Epsilon \/ IsFlag(a))
  <2>1. Eats(t, a, c.ipos) = 1
    BY <1>1, <1>5 DEF Eats
  <2> QED
    BY <1>2, <1>3, <2>1 DEF NotBehind, Before
<1> QED
  BY <1>4, <1>5

\* And so does any part of a path.
LEMMA PathOn ==
  ASSUME NEW t, IsTask(t), NEW f, UpOrStays(t, f), NEW p, NEW h, Trace(t, p, h), Len(p) \in Nat,
         NEW i \in 0..Len(p), NEW j \in 0..Len(p), i <= j
  PROVE  NotBehind(f, h[i], h[j])
<1> DEFINE M == {n \in 0..Len(p) : i <= n /\ ~NotBehind(f, h[i], h[n])}
<1> SUFFICES ASSUME M # {} PROVE FALSE
  OBVIOUS
<1>1. PICK n \in M : \A m \in M : n <= m
  <2>1. M \in SUBSET Nat
    OBVIOUS
  <2> HIDE DEF M
  <2> QED
    BY <2>1, LeastOf
<1>2. n # i
  BY <1>1 DEF NotBehind
<1>3. n \in 1..Len(p) /\ n - 1 \in 0..Len(p) /\ i <= n - 1 /\ ~(n <= n - 1)
  BY <1>1, <1>2
<1>4. Moves(t, p[n], h[n - 1], h[n])
  BY <1>3 DEF Trace
<1>5. PICK b, c, d : b = h[i] /\ c = h[n - 1] /\ d = h[n]
  OBVIOUS
<1>6. Config(t, b) /\ Config(t, c) /\ Config(t, d)
  BY <1>1, <1>3, <1>5 DEF Trace
<1>7. NotBehind(f, c, d)
  BY <1>4, <1>5, <1>6, MovesOn
<1>8. NotBehind(f, b, c)
  <2>1. n - 1 \notin M
    BY <1>1, <1>3
  <2> QED
    BY <1>3, <1>5, <2>1
<1>9. /\ b.ipos \in Nat /\ f[b.state] \in Nat /\ c.ipos \in Nat /\ f[c.state] \in Nat
      /\ d.ipos \in Nat /\ f[d.state] \in Nat
  BY <1>6, SpotType
<1>10. NotBehind(f, b, d)
  BY ONLY <1>7, <1>8, <1>9, SMTT(30) DEF NotBehind, Before, Spot
<1> QED
  BY <1>1, <1>5, <1>10

\* A path that comes back to a spot has been there all the time.
LEMMA PathStays ==
  ASSUME NEW t, IsTask(t), NEW f, UpOrStays(t, f), NEW p, NEW h, Trace(t, p, h), Len(p) \in Nat,
         NEW i \in 0..Len(p), NEW m \in 0..Len(p), NEW j \in 0..Len(p), i <= m, m <= j,
         Spot(h[i]) = Spot(h[j])
  PROVE  Spot(h[m]) = Spot(h[j])
<1>1. PICK b, c, d : b = h[i] /\ c = h[m] /\ d = h[j]
  OBVIOUS
<1>2. Config(t, b) /\ Config(t, c) /\ Config(t, d)
  BY <1>1 DEF Trace
<1>3. /\ b.ipos \in Nat /\ f[b.state] \in Nat /\ c.ipos \in Nat /\ f[c.state] \in Nat
      /\ d.ipos \in Nat /\ f[d.state] \in Nat
  BY <1>2, SpotType
<1>4. NotBehind(f, b, c) /\ NotBehind(f, c, d)
  BY <1>1, PathOn
<1>5. Spot(b) = Spot(d)
  BY <1>1
<1>6. Spot(c) = Spot(d)
  BY ONLY <1>3, <1>4, <1>5, SMTT(30) DEF NotBehind, Before, Spot
<1> QED
  BY <1>1, <1>6

-----------------------------------------------------------------------------

\* The state and position at which the entry f was left, and those at hand.
Place(n, f) == <<StateAt(n, f.ptr), f.ipos>>
Stand == <<StateAt(net, ptr), ipos>>

\* The places on the stack and the one at hand are those of the path.
LEMMA Places ==
  ASSUME RunInv
  PROVE  /\ Len(searchstack) \in Nat /\ DOMAIN searchstack = 1..Len(searchstack)
         /\ ipos \in Nat /\ StateAt(net, ptr) \in States
         /\ \A k \in DOMAIN searchstack : /\ searchstack[k].ipos \in 0..Len(word)
                                          /\ searchstack[k].ipos \in Nat
                                          /\ StateAt(net, searchstack[k].ptr) \in States
         /\ \E h : /\ Trace(Task, PathOf(searchstack), h) /\ IsTask(Task)
                   /\ Len(PathOf(searchstack)) = Len(searchstack)
                   /\ Spot(h[Len(searchstack)]) = Stand
                   /\ \A k \in DOMAIN searchstack : Spot(h[k - 1]) = Place(net, searchstack[k])
<1>1. PICK h : RunOf(Task, searchstack, h) /\ h[Len(searchstack)] = Here
  BY DEF RunInv, HasRun
<1>2. PICK S : searchstack \in Seq(S)
  BY DEF RunInv, AnyStack
<1>3. PICK L \in Nat : /\ L = Len(searchstack) /\ Len(PathOf(searchstack)) = L
                       /\ DOMAIN searchstack = 1..L /\ DOMAIN PathOf(searchstack) = 1..L
                       /\ L \in 0..L
  BY <1>2 DEF PathOf
<1>4. /\ Trace(Task, PathOf(searchstack), h) /\ IsTask(Task)
      /\ \A n \in 0..L : Config(Task, h[n])
      /\ \A n \in 1..L : LeftAt(searchstack[n], h[n - 1], h[n])
      /\ \A n \in 1..L : Moves(Task, searchstack[n].ptr, h[n - 1], h[n])
  <2>1. Trace(Task, PathOf(searchstack), h) /\ IsTask(Task)
    BY <1>1 DEF RunOf, RunInv
  <2>2. \A n \in 1..L : PathOf(searchstack)[n] = searchstack[n].ptr
    BY <1>3 DEF PathOf
  <2> QED
    BY <1>1, <1>3, <2>1, <2>2 DEF RunOf, Trace
<1>5. \A k \in 1..L : /\ k - 1 \in 0..L
                      /\ searchstack[k].ipos = h[k - 1].ipos
                      /\ StateAt(net, searchstack[k].ptr) = h[k - 1].state
                      /\ searchstack[k].ptr \in LinesIn(net)
  <2> TAKE k \in 1..L
  <2>1. LeftAt(searchstack[k], h[k - 1], h[k]) /\ Moves(Task, searchstack[k].ptr, h[k - 1], h[k])
    BY <1>4
  <2>2. k - 1 \in 0..L
    BY <1>3
  <2> QED
    BY <2>1, <2>2, TaskNames DEF LeftAt, Moves
<1>6. \A n \in 0..L : h[n].ipos \in 0..Len(word) /\ Len(word) \in Nat
  BY <1>4, TaskNames DEF Config, IsTask
<1>7. Spot(h[L]) = Stand /\ ipos = h[L].ipos
  BY <1>1, <1>3 DEF Spot, Stand, Here
<1>8. \A k \in 1..L : Spot(h[k - 1]) = Place(net, searchstack[k])
  BY <1>5 DEF Spot, Place
<1>9. ipos \in Nat
  BY <1>3, <1>6, <1>7
<1>10. \A k \in 1..L : searchstack[k].ipos \in 0..Len(word) /\ searchstack[k].ipos \in Nat
  BY <1>5, <1>6
<1>11. /\ StateAt(net, ptr) \in States
       /\ \A k \in 1..L : StateAt(net, searchstack[k].ptr) \in States
  BY <1>5, TaskNames DEF RunInv, States
<1> QED
  BY ONLY <1>3, <1>4, <1>7, <1>8, <1>9, <1>10, <1>11

\* Visits of one place follow each other on the path, up to the one at hand.
LEMMA VisitsTogether ==
  ASSUME RunInv, SingleLoops,
         NEW i \in DOMAIN searchstack, NEW m \in DOMAIN searchstack, i <= m
  PROVE  /\ Place(net, searchstack[i]) = Stand => Place(net, searchstack[m]) = Stand
         /\ \A j \in DOMAIN searchstack :
              m <= j /\ Place(net, searchstack[i]) = Place(net, searchstack[j])
                => Place(net, searchstack[m]) = Place(net, searchstack[j])
<1>1. PICK f : UpOrStays(Task, f)
  BY SingleLoopsTask
<1>2. PICK h : /\ Trace(Task, PathOf(searchstack), h) /\ IsTask(Task)
               /\ Len(PathOf(searchstack)) = Len(searchstack)
               /\ Spot(h[Len(searchstack)]) = Stand
               /\ \A k \in DOMAIN searchstack : Spot(h[k - 1]) = Place(net, searchstack[k])
  BY Places
<1>3. PICK L \in Nat : L = Len(searchstack) /\ DOMAIN searchstack = 1..L
  BY Places, Zenon
<1>4. L = Len(PathOf(searchstack)) /\ Len(PathOf(searchstack)) \in Nat
  BY <1>2, <1>3
<1>5. i - 1 \in 0..L /\ m - 1 \in 0..L /\ i - 1 <= m - 1 /\ m - 1 <= L /\ L \in 0..L
  BY <1>3
<1>6. Spot(h[i - 1]) = Spot(h[L]) => Spot(h[m - 1]) = Spot(h[L])
  BY <1>1, <1>2, <1>4, <1>5, PathStays
<1>7. ASSUME NEW j \in DOMAIN searchstack, m <= j, Spot(h[i - 1]) = Spot(h[j - 1])
      PROVE  Spot(h[m - 1]) = Spot(h[j - 1])
  <2>1. j - 1 \in 0..L /\ m - 1 <= j - 1
    BY <1>3, <1>7
  <2> QED
    BY <1>1, <1>2, <1>4, <1>5, <1>7, <2>1, PathStays
<1> QED
  BY <1>2, <1>3, <1>6, <1>7

-----------------------------------------------------------------------------

(***************************************************************************)
(* Then a second visit of a place comes right behind the first.  The mark  *)
(* saved with an entry is that of its visit, negative where it is the      *)
(* second, and there is no third: the first leaves the mark that the       *)
(* second finds, and the second the one that apply_follow_next_arc does    *)
(* not enter.                                                              *)
(***************************************************************************)
MarkOf(n, st, k) ==
  IF k > 1 /\ Place(n, st[k - 1]) = Place(n, st[k]) THEN -1 - st[k].ipos ELSE st[k].ipos + 1

Thrice(n, st, k) == /\ k > 2
                    /\ Place(n, st[k - 2]) = Place(n, st[k - 1])
                    /\ Place(n, st[k - 1]) = Place(n, st[k])

MarkedBy(n, st, s, m) == \E k \in DOMAIN st : StateAt(n, st[k].ptr) = s /\ m = MarkOf(n, st, k)

\* The search has come back to where it was before its last line.
Back == searchstack # <<>> /\ Place(net, searchstack[Len(searchstack)]) = Stand

Twice ==
  SingleLoops =>
    /\ pc = "open" => searchstack = <<>>
    /\ pc = "follow" => marks[StateAt(net, ptr)] = IF Back THEN -1 - ipos ELSE ipos + 1
    /\ pc \in {"enter", "result", "mark"} /\ Back => marks[StateAt(net, ptr)] = ipos + 1
    /\ \A k \in DOMAIN searchstack : searchstack[k].mark = MarkOf(net, searchstack, k)
    /\ \A k \in DOMAIN searchstack : ~Thrice(net, searchstack, k)
    /\ AtState /\ Back /\ Len(searchstack) > 1 =>
         Place(net, searchstack[Len(searchstack) - 1]) # Stand
    /\ \A s \in States : marks[s] # 0 => \/ pc = "follow" /\ s = StateAt(net, ptr)
                                         \/ MarkedBy(net, searchstack, s, marks[s])

\* SingleLoops is about the machine and the mode.
LEMMA SameSingleLoops ==
  ASSUME net' = net, mode' = mode
  PROVE  (SingleLoops' <=> SingleLoops) /\ States' = States
BY DEF SingleLoops, States, LineNo, Line, symin

\* At first nothing is marked.
LEMMA InitTwice == Init => Twice
<1> SUFFICES ASSUME Init PROVE Twice
  OBVIOUS
<1>1. searchstack = <<>> /\ marks = [s \in States |-> 0] /\ pc = "idle"
  BY DEF Init
<1>2. ~Back /\ DOMAIN searchstack = {}
  BY <1>1 DEF Back
<1> QED
  BY <1>1, <1>2 DEF Twice

\* A mark depends on what is below.
LEMMA SameMark ==
  ASSUME NEW n, NEW st, NEW st2, NEW k \in Nat, st2[k] = st[k], k > 1 => st2[k - 1] = st[k - 1]
  PROVE  MarkOf(n, st2, k) = MarkOf(n, st, k)
BY DEF MarkOf

\* So does a third visit.
LEMMA SameThrice ==
  ASSUME NEW n, NEW st, NEW st2, NEW k \in Nat, st2[k] = st[k],
         k > 1 => st2[k - 1] = st[k - 1], k > 2 => st2[k - 2] = st[k - 2]
  PROVE  Thrice(n, st2, k) <=> Thrice(n, st, k)
BY DEF Thrice

(***************************************************************************)
(* A line is followed.  If it leads back to where it started, the visit it *)
(* leaves was a first, for after a second the mark forbids it.             *)
(***************************************************************************)
LEMMA FollowTwice ==
  ASSUME MarksInv, RunInv, Twice, NEW n \in NextArc, FollowArc(n)
  PROVE  Twice'
<1>1. PICK k, e : /\ searchstack' = Append(searchstack, e)
                  /\ e.ptr = k /\ e.ipos = ipos /\ e.mark = marks[State]
                  /\ k \in LinesIn(net) /\ StateAt(net, k) = State /\ TargetOf(net, k) # -1
                  /\ Follows(k) /\ ptr' = statemap(TargetOf(net, k))
  BY FollowFacts
<1>2. /\ pc = "follow" /\ pc' = "enter" /\ net' = net /\ mode' = mode /\ marks' = marks
      /\ word' = word
  BY FollowFacts
<1>3. (SingleLoops' <=> SingleLoops) /\ States' = States
  BY <1>2, SameSingleLoops
<1>4. PICK S : searchstack \in Seq(S)
  BY DEF RunInv, AnyStack
<1>5. PICK L \in Nat : /\ L = Len(searchstack) /\ DOMAIN searchstack = 1..L
                       /\ DOMAIN searchstack' = 1..(L + 1) /\ searchstack'[L + 1] = e
                       /\ \A i \in 1..L : searchstack'[i] = searchstack[i]
                       /\ Len(searchstack') = L + 1 /\ (searchstack = <<>> <=> L = 0)
                       /\ searchstack' # <<>>
  <2>1. searchstack \in Seq(S \cup {e})
    BY <1>4
  <2> QED
    BY <1>1, <2>1
<1>6. \A i \in 1..(L + 1) : i \in 1..L \/ i = L + 1
  OBVIOUS
<1>7. State = StateAt(net, ptr)
  BY DEF State, StateAt, Line
<1>8. Place(net, e) = Stand /\ Place(net', e) = Stand
  BY <1>1, <1>2, <1>7 DEF Place, Stand
<1> SUFFICES ASSUME SingleLoops
             PROVE  /\ Back' => marks[StateAt(net, ptr')] = ipos' + 1
                    /\ \A i \in 1..(L + 1) : searchstack'[i].mark = MarkOf(net, searchstack', i)
                    /\ \A i \in 1..(L + 1) : ~Thrice(net, searchstack', i)
                    /\ Back' /\ Len(searchstack') > 1 =>
                         Place(net, searchstack'[Len(searchstack') - 1]) # Stand'
                    /\ \A s \in States : marks[s] # 0 => MarkedBy(net, searchstack', s, marks[s])
  BY <1>2, <1>3, <1>5 DEF Twice
<1>9. marks[State] = (IF Back THEN -1 - ipos ELSE ipos + 1) /\ ipos \in Nat
  BY <1>2, <1>7, Places DEF Twice
<1>10. Back <=> L > 0 /\ Place(net, searchstack[L]) = Stand
  BY <1>5 DEF Back
<1>11. ASSUME Back'
       PROVE  ~Back /\ Stand' = Stand /\ marks[StateAt(net, ptr')] = ipos' + 1
  <2>1. Place(net', searchstack'[Len(searchstack')]) = Stand'
    BY <1>11 DEF Back
  <2>2. Stand' = Stand
    BY <1>5, <1>8, <2>1
  <2>3. StateAt(net, ptr') = State /\ ipos' = ipos
    BY <1>2, <1>7, <2>2 DEF Stand
  <2>4. TargetOf(net, k) = State
    <3>1. net \in Nets /\ \E m \in LinesIn(net) : StateAt(net, m) = TargetOf(net, k)
      BY <1>1, NetFacts DEF MarksInv
    <3>2. StateAt(net, statemap(TargetOf(net, k))) = TargetOf(net, k)
      BY <3>1, StatemapType
    <3> QED
      BY <1>1, <2>3, <3>2
  <2>5. ipos' = ipos + MatchLength(symin(k), ipos)
    <3>1. ipos' = ipos + MatchLength(symin(Ahead[n]), ipos)
      BY DEF FollowArc
    <3>2. e.ptr = Ahead[n]
      BY <1>1, <1>4 DEF FollowArc, Pushed
    <3> QED
      BY <1>1, <3>1, <3>2
  <2>6. MatchLength(symin(k), ipos) \in {-1, 0, 1}
    BY DEF MatchLength
  <2>7. MatchLength(symin(k), ipos) = 0
    BY <1>9, <2>3, <2>5, <2>6
  <2>8. -1 - ipos - MatchLength(symin(k), ipos) # marks[Line(k).target]
    BY <1>1 DEF Follows
  <2>9. Line(k).target = State
    BY <2>4 DEF Line, TargetOf
  <2>10. marks[State] # -1 - ipos
    BY <1>9, <2>7, <2>8, <2>9
  <2> QED
    BY <1>9, <2>2, <2>3, <2>10
<1>12. ASSUME NEW i \in 1..(L + 1)
       PROVE  searchstack'[i].mark = MarkOf(net, searchstack', i) /\ ~Thrice(net, searchstack', i)
  <2>1. CASE i \in 1..L
    <3>1. /\ i \in Nat /\ searchstack'[i] = searchstack[i]
          /\ i > 1 => searchstack'[i - 1] = searchstack[i - 1]
          /\ i > 2 => searchstack'[i - 2] = searchstack[i - 2]
      <4>1. (i > 1 => i - 1 \in 1..L) /\ (i > 2 => i - 2 \in 1..L) /\ i \in Nat
        BY <2>1
      <4> QED
        BY <1>5, <2>1, <4>1
    <3>2. searchstack[i].mark = MarkOf(net, searchstack, i) /\ ~Thrice(net, searchstack, i)
      BY <1>5, <2>1 DEF Twice
    <3>3. PICK st, st2 : st = searchstack /\ st2 = searchstack'
      OBVIOUS
    <3>4. MarkOf(net, st2, i) = MarkOf(net, st, i) /\ (Thrice(net, st2, i) <=> Thrice(net, st, i))
      BY <3>1, <3>3, SameMark, SameThrice
    <3> QED
      BY <3>1, <3>2, <3>3, <3>4
  <2>2. CASE i = L + 1
    <3>1. searchstack'[i] = e /\ (L > 0 => searchstack'[L] = searchstack[L] /\ L \in 1..L)
          /\ (L > 1 => searchstack'[L - 1] = searchstack[L - 1])
      <4>1. (L > 1 => L - 1 \in 1..L) /\ (L > 0 => L \in 1..L)
        OBVIOUS
      <4> QED
        BY <1>5, <2>2, <4>1
    <3>2. i - 1 = L /\ i - 2 = L - 1 /\ (i > 1 <=> L > 0) /\ (i > 2 <=> L > 1)
      BY <2>2
    <3>3. MarkOf(net, searchstack', i) = IF Back THEN -1 - ipos ELSE ipos + 1
      BY <1>1, <1>8, <1>10, <3>1, <3>2 DEF MarkOf
    <3>4. ~Thrice(net, searchstack', i)
      <4> SUFFICES ASSUME Thrice(net, searchstack', i) PROVE FALSE
        OBVIOUS
      <4>1. L > 1 /\ Place(net, searchstack[L - 1]) = Place(net, searchstack[L])
            /\ Place(net, searchstack[L]) = Stand
        BY <1>8, <3>1, <3>2 DEF Thrice
      <4>2. Back
        BY <1>10, <4>1
      <4> QED
        BY <1>2, <1>5, <4>1, <4>2 DEF Twice, AtState
    <3> QED
      BY <1>1, <1>9, <3>1, <3>3, <3>4
  <2> QED
    BY <1>6, <2>1, <2>2
<1>13. ASSUME Back', Len(searchstack') > 1
       PROVE  Place(net, searchstack'[Len(searchstack') - 1]) # Stand'
  <2>1. L > 0 /\ L \in 1..L /\ Len(searchstack') - 1 = L
    BY <1>5, <1>13
  <2>2. searchstack'[Len(searchstack') - 1] = searchstack[L]
    BY <1>5, <2>1
  <2> QED
    BY <1>10, <1>11, <1>13, <2>1, <2>2
<1>14. ASSUME NEW s \in States, marks[s] # 0
       PROVE  MarkedBy(net, searchstack', s, marks[s])
  <2>1. CASE s = State
    <3>1. L + 1 \in 1..(L + 1)
      OBVIOUS
    <3>2. marks[s] = MarkOf(net, searchstack', L + 1) /\ StateAt(net, searchstack'[L + 1].ptr) = s
      BY <1>1, <1>5, <1>12, <2>1, <3>1
    <3> QED
      BY <1>5, <3>1, <3>2 DEF MarkedBy
  <2>2. CASE s # State
    <3>1. MarkedBy(net, searchstack, s, marks[s])
      BY <1>7, <1>14, <2>2 DEF Twice
    <3>2. PICK i \in 1..L : StateAt(net, searchstack[i].ptr) = s /\ marks[s] = MarkOf(net, searchstack, i)
      BY <1>5, <3>1 DEF MarkedBy
    <3>3. i \in 1..(L + 1) /\ i \in DOMAIN searchstack
      BY <1>5
    <3>4. marks[s] = searchstack[i].mark
      BY <3>2, <3>3 DEF Twice
    <3>5. marks[s] = MarkOf(net, searchstack', i) /\ StateAt(net, searchstack'[i].ptr) = s
      BY <1>5, <1>12, <3>2, <3>3, <3>4
    <3> QED
      BY <1>5, <3>3, <3>5 DEF MarkedBy
  <2> QED
    BY <2>1, <2>2
<1> QED
  BY <1>11, <1>12, <1>13, <1>14

-----------------------------------------------------------------------------

\* An entry popped gives its visit its mark back, or the state is unmarked.
LEMMA PopTwice ==
  ASSUME MarksInv, RunInv, Twice, Pop
  PROVE  Twice'
<1>1. PICK f : f = Last(searchstack)
  OBVIOUS
<1>2. /\ pc = "pop" /\ searchstack # <<>> /\ searchstack' = Front(searchstack)
      /\ net' = net /\ mode' = mode /\ ipos' = f.ipos
      /\ \/ /\ pc' = "pop" /\ marks' = [marks EXCEPT ![StateAt(net, f.ptr)] = 0]
         \/ /\ pc' = "follow" /\ marks' = [marks EXCEPT ![StateAt(net, f.ptr)] = f.mark]
            /\ StateAt(net, ptr') = StateAt(net, f.ptr)
  <2>1. CASE AtLastArc(f)
    BY <1>1, <2>1 DEF Pop, StateAt, Line
  <2>2. CASE ~AtLastArc(f)
    BY <1>1, <2>2 DEF Pop, AtLastArc, StateAt, Line
  <2> QED
    BY <2>1, <2>2
<1>3. (SingleLoops' <=> SingleLoops) /\ States' = States
  BY <1>2, SameSingleLoops
<1>4. PICK S : searchstack \in Seq(S)
  BY DEF RunInv, AnyStack
<1>5. PICK L \in Nat : /\ Len(searchstack) = L + 1 /\ DOMAIN searchstack = 1..(L + 1)
                       /\ searchstack[L + 1] = f
                       /\ Len(searchstack') = L /\ DOMAIN searchstack' = 1..L
                       /\ (searchstack' = <<>> <=> L = 0)
                       /\ \A i \in 1..L : searchstack'[i] = searchstack[i]
  <2>1. /\ searchstack' \in Seq(S) /\ Len(searchstack') = Len(searchstack) - 1
        /\ Len(searchstack) \in Nat \ {0}
        /\ \A i \in 1..Len(searchstack') : searchstack'[i] = searchstack[i]
    BY <1>2, <1>4, FrontType
  <2>2. PICK L \in Nat : L = Len(searchstack')
    BY <2>1
  <2>3. Len(searchstack) = L + 1 /\ DOMAIN searchstack = 1..(L + 1) /\ DOMAIN searchstack' = 1..L
        /\ (searchstack' = <<>> <=> L = 0)
    BY <1>4, <2>1, <2>2
  <2> QED
    BY <1>1, <2>1, <2>2, <2>3 DEF Last
<1>6. marks = [s \in States |-> marks[s]] /\ StateAt(net, f.ptr) \in States
  <2>1. L + 1 \in DOMAIN searchstack
    BY <1>5
  <2>2. StateAt(net, searchstack[L + 1].ptr) \in States
    BY <2>1, Places
  <2> QED
    BY <1>5, <2>2 DEF MarksInv
<1>7. \A i \in 1..L : i \in 1..(L + 1)
  OBVIOUS
<1> SUFFICES ASSUME SingleLoops
             PROVE  /\ pc' = "follow" =>
                         marks'[StateAt(net, ptr')] = IF Back' THEN -1 - ipos' ELSE ipos' + 1
                    /\ \A i \in 1..L : searchstack'[i].mark = MarkOf(net, searchstack', i)
                    /\ \A i \in 1..L : ~Thrice(net, searchstack', i)
                    /\ pc' = "follow" /\ Back' /\ L > 1 => Place(net, searchstack'[L - 1]) # Stand'
                    /\ \A s \in States : marks'[s] # 0 =>
                         \/ pc' = "follow" /\ s = StateAt(net, ptr')
                         \/ MarkedBy(net, searchstack', s, marks'[s])
  BY <1>2, <1>3, <1>5 DEF Twice, AtState
<1>8. \A i \in 1..(L + 1) : /\ searchstack[i].mark = MarkOf(net, searchstack, i)
                            /\ ~Thrice(net, searchstack, i)
  BY <1>5 DEF Twice
<1>9. ASSUME NEW i \in 1..L
      PROVE  /\ MarkOf(net, searchstack', i) = MarkOf(net, searchstack, i)
             /\ searchstack'[i].mark = MarkOf(net, searchstack', i)
             /\ ~Thrice(net, searchstack', i)
  <2>1. /\ i \in Nat /\ searchstack'[i] = searchstack[i]
        /\ i > 1 => searchstack'[i - 1] = searchstack[i - 1]
        /\ i > 2 => searchstack'[i - 2] = searchstack[i - 2]
    <3>1. (i > 1 => i - 1 \in 1..L) /\ (i > 2 => i - 2 \in 1..L) /\ i \in Nat
      OBVIOUS
    <3> QED
      BY <1>5, <3>1
  <2>2. PICK st, st2 : st = searchstack /\ st2 = searchstack'
    OBVIOUS
  <2>3. MarkOf(net, st2, i) = MarkOf(net, st, i) /\ (Thrice(net, st2, i) <=> Thrice(net, st, i))
    BY <2>1, <2>2, SameMark, SameThrice
  <2> QED
    BY <1>7, <1>8, <2>1, <2>2, <2>3
<1>10. ASSUME pc' = "follow"
       PROVE  /\ Stand' = Place(net, f)
              /\ Back' <=> L > 0 /\ Place(net, searchstack[L]) = Place(net, f)
              /\ marks'[StateAt(net, ptr')] = f.mark
  <2>1. Stand' = Place(net, f)
    BY <1>2, <1>10 DEF Stand, Place
  <2>2. L > 0 => searchstack'[L] = searchstack[L]
    BY <1>5
  <2>3. Back' <=> L > 0 /\ Place(net, searchstack[L]) = Place(net, f)
    BY <1>2, <1>5, <2>1, <2>2 DEF Back
  <2> QED
    BY <1>2, <1>6, <1>10, <2>1, <2>3
<1>11. ASSUME pc' = "follow"
       PROVE  marks'[StateAt(net, ptr')] = IF Back' THEN -1 - ipos' ELSE ipos' + 1
  <2>1. f.mark = MarkOf(net, searchstack, L + 1)
    BY <1>5, <1>8
  <2>2. MarkOf(net, searchstack, L + 1)
          = IF L > 0 /\ Place(net, searchstack[L]) = Place(net, f) THEN -1 - ipos' ELSE ipos' + 1
    <3>1. L + 1 - 1 = L /\ (L + 1 > 1 <=> L > 0)
      OBVIOUS
    <3> QED
      BY <1>2, <1>5, <3>1 DEF MarkOf
  <2> QED
    BY <1>10, <1>11, <2>1, <2>2
<1>12. ASSUME pc' = "follow", Back', L > 1
       PROVE  Place(net, searchstack'[L - 1]) # Stand'
  <2>1. L - 1 \in 1..L /\ L + 1 \in 1..(L + 1) /\ L + 1 - 2 = L - 1 /\ L + 1 - 1 = L /\ L + 1 > 2
    BY <1>12
  <2>2. searchstack'[L - 1] = searchstack[L - 1]
    BY <1>5, <2>1
  <2>3. ~Thrice(net, searchstack, L + 1)
    BY <1>8, <2>1
  <2> QED
    BY <1>5, <1>10, <1>12, <2>1, <2>2, <2>3 DEF Thrice
<1>13. ASSUME NEW s \in States, marks'[s] # 0, ~(pc' = "follow" /\ s = StateAt(net, ptr'))
       PROVE  MarkedBy(net, searchstack', s, marks'[s])
  <2>1. s # StateAt(net, f.ptr) /\ marks'[s] = marks[s]
    BY <1>2, <1>6, <1>13
  <2>2. MarkedBy(net, searchstack, s, marks[s])
    BY <1>2, <1>13, <2>1 DEF Twice
  <2>3. PICK i \in 1..(L + 1) : /\ StateAt(net, searchstack[i].ptr) = s
                                /\ marks[s] = MarkOf(net, searchstack, i)
    BY <1>5, <2>2 DEF MarkedBy
  <2>4. i \in 1..L
    BY <1>5, <2>1, <2>3
  <2> QED
    BY <1>5, <1>9, <2>1, <2>3, <2>4 DEF MarkedBy
<1> QED
  BY <1>9, <1>11, <1>12, <1>13

(***************************************************************************)
(* A state is marked: it has the mark of a first visit here only if the    *)
(* search has come back to it, since the visits of a place follow each     *)
(* other.                                                                  *)
(***************************************************************************)
LEMMA MarkTwice ==
  ASSUME MarksInv, RunInv, Twice, MarkState
  PROVE  Twice'
<1>1. /\ pc = "mark" /\ pc' = "follow" /\ net' = net /\ mode' = mode
      /\ searchstack' = searchstack /\ ptr' = ptr /\ ipos' = ipos
      /\ marks' = [marks EXCEPT ![StateAt(net, ptr)] = IF @ = ipos + 1 THEN -(ipos + 1) ELSE ipos + 1]
  BY DEF MarkState, State, StateAt, Line
<1>2. (SingleLoops' <=> SingleLoops) /\ States' = States
  BY <1>1, SameSingleLoops
<1>3. Stand' = Stand /\ (Back' <=> Back)
  BY <1>1 DEF Stand, Back
<1>4. marks = [s \in States |-> marks[s]] /\ StateAt(net, ptr) \in States /\ ipos \in Nat
  BY Places DEF MarksInv
<1> SUFFICES ASSUME SingleLoops
             PROVE  marks'[StateAt(net, ptr)] = IF Back THEN -1 - ipos ELSE ipos + 1
  <2>1. \A s \in States : s # StateAt(net, ptr) => marks'[s] = marks[s]
    BY <1>1, <1>4
  <2> QED
    BY <1>1, <1>2, <1>3, <2>1 DEF Twice, AtState
<1>5. CASE Back
  <2>1. marks[StateAt(net, ptr)] = ipos + 1
    BY <1>1, <1>5 DEF Twice
  <2> QED
    BY <1>1, <1>4, <1>5, <2>1
<1>6. CASE ~Back
  <2> SUFFICES ASSUME marks[StateAt(net, ptr)] = ipos + 1 PROVE FALSE
    BY <1>1, <1>4, <1>6
  <2>1. MarkedBy(net, searchstack, StateAt(net, ptr), ipos + 1)
    BY <1>1, <1>4 DEF Twice
  <2>2. PICK k \in DOMAIN searchstack : /\ StateAt(net, searchstack[k].ptr) = StateAt(net, ptr)
                                        /\ ipos + 1 = MarkOf(net, searchstack, k)
    BY <2>1 DEF MarkedBy
  <2>3. searchstack[k].ipos \in Nat
    BY Places
  <2>4. searchstack[k].ipos = ipos
    BY <1>4, <2>2, <2>3 DEF MarkOf
  <2>5. Place(net, searchstack[k]) = Stand
    BY <2>2, <2>4 DEF Place, Stand
  <2>6. PICK L \in Nat : L = Len(searchstack) /\ DOMAIN searchstack = 1..L
    BY Places, Zenon
  <2>7. L \in DOMAIN searchstack /\ k <= L /\ L # 0
    BY <2>6
  <2>8. Place(net, searchstack[L]) = Stand
    BY <2>5, <2>7, VisitsTogether
  <2>9. searchstack # <<>>
    BY <2>7
  <2> QED
    BY <1>6, <2>6, <2>8, <2>9 DEF Back
<1> QED
  BY <1>5, <1>6

\* Every step keeps the visits and their marks in order.
LEMMA NextTwice == MarksInv /\ MarksInv' /\ RunInv /\ Twice /\ [Next]_vars => Twice'
<1> SUFFICES ASSUME MarksInv, MarksInv', RunInv, Twice, [Next]_vars
             PROVE  Twice'
  OBVIOUS
<1>0. marks = [s \in States |-> marks[s]] /\ StateAt(net, ptr) \in States
  BY Places DEF MarksInv
<1>1. ASSUME NEW m \in Modes, NEW w \in Words, Start(m, w)
      PROVE  Twice'
  <2>1. searchstack' = <<>> /\ pc' = "open"
    BY <1>1 DEF Start
  <2>2. \A s \in States' : marks'[s] = 0
    BY <2>1 DEF MarksInv, OnPath
  <2>3. ~Back' /\ DOMAIN searchstack' = {}
    BY <2>1 DEF Back
  <2> QED
    BY <2>1, <2>2, <2>3 DEF Twice, AtState
<1>2. ASSUME NEW n \in NextArc, FollowArc(n)
      PROVE  Twice'
  BY <1>2, FollowTwice
<1>3. CASE Pop
  BY <1>3, PopTwice
<1>4. CASE MarkState
  BY <1>4, MarkTwice
<1>5. CASE NoArc
  <2>1. /\ pc = "follow" /\ pc' = "pop" /\ net' = net /\ mode' = mode
        /\ searchstack' = searchstack
        /\ marks' = [marks EXCEPT ![StateAt(net, ptr)] = 0]
    BY <1>5 DEF NoArc, State, StateAt, Line
  <2>2. (SingleLoops' <=> SingleLoops) /\ States' = States
    BY <2>1, SameSingleLoops
  <2>3. \A s \in States : marks'[s] # 0 => s # StateAt(net, ptr) /\ marks'[s] = marks[s]
    BY <1>0, <2>1
  <2> QED
    BY <2>1, <2>2, <2>3 DEF Twice, AtState
<1>6. CASE Open
  <2>1. /\ pc = "open" /\ pc' = "enter" /\ net' = net /\ mode' = mode /\ marks' = marks
        /\ searchstack' = searchstack
    BY <1>6 DEF Open
  <2>2. (SingleLoops' <=> SingleLoops) /\ States' = States
    BY <2>1, SameSingleLoops
  <2> SUFFICES ASSUME SingleLoops PROVE Twice'
    BY <2>2 DEF Twice
  <2>3. searchstack' = <<>>
    BY <2>1 DEF Twice
  <2>4. ~Back' /\ DOMAIN searchstack' = {}
    BY <2>3 DEF Back
  <2> QED
    BY <2>1, <2>2, <2>4 DEF Twice
<1>7. ASSUME UNCHANGED <<net, mode, searchstack, marks, ptr, ipos>>,
             pc # "follow", pc' \notin {"open", "follow"},
             AtState' => pc \in {"enter", "result", "mark"}
      PROVE  Twice'
  <2>1. (SingleLoops' <=> SingleLoops) /\ States' = States
    BY <1>7, SameSingleLoops
  <2>2. Stand' = Stand /\ (Back' <=> Back)
    BY <1>7 DEF Stand, Back
  <2> QED
    BY <1>7, <2>1, <2>2 DEF Twice, AtState
<1>8. CASE Enter
  BY <1>7, <1>8 DEF Enter, AtState
<1>9. CASE Exhausted
  BY <1>7, <1>9 DEF Exhausted, AtState
<1>10. CASE Again
  BY <1>7, <1>10 DEF Again, AtState
<1>11. CASE Reset
  <2>1. /\ pc' = "idle" /\ net' = net /\ mode' = mode
        /\ searchstack' = searchstack /\ marks' = [s \in States |-> 0]
    BY <1>11 DEF Reset
  <2>2. (SingleLoops' <=> SingleLoops) /\ States' = States /\ \A s \in States : marks'[s] = 0
    BY <2>1, SameSingleLoops
  <2> QED
    BY <2>1, <2>2 DEF Twice, AtState
<1>12. CASE UNCHANGED vars
  <2>1. (SingleLoops' <=> SingleLoops) /\ States' = States
    BY <1>12, SameSingleLoops DEF vars
  <2>2. (Back' <=> Back) /\ Stand' = Stand
    BY <1>12 DEF vars, Back, Stand
  <2> QED
    BY <1>12, <2>1, <2>2 DEF Twice, vars, AtState
<1> QED
  BY <1>1, <1>2, <1>3, <1>4, <1>5, <1>6, <1>8, <1>9, <1>10, <1>11, <1>12 DEF Next, Search

-----------------------------------------------------------------------------

\* A set of at most two numbers.
LEMMA PairCount ==
  ASSUME NEW a \in Nat, NEW b \in Nat, NEW K \in SUBSET {a, b}
  PROVE  Cardinality(K) \in Nat /\ Cardinality(K) <= 2 /\ (a = b => Cardinality(K) <= 1)
<1>1. IsFiniteSet({a}) /\ Cardinality({a}) = 1 /\ IsFiniteSet({})
  BY FS_Singleton, FS_EmptySet
<1>2. IsFiniteSet({a} \cup {b}) /\ Cardinality({a} \cup {b}) =
        IF b \in {a} THEN Cardinality({a}) ELSE Cardinality({a}) + 1
  BY <1>1, FS_AddElement
<1>3. {a} \cup {b} = {a, b}
  OBVIOUS
<1>4. IsFiniteSet({a, b}) /\ Cardinality({a, b}) <= 2 /\ (a = b => Cardinality({a, b}) <= 1)
  BY <1>1, <1>2, <1>3
<1>5. IsFiniteSet(K) /\ Cardinality(K) <= Cardinality({a, b})
  BY <1>4, FS_Subset
<1>6. Cardinality(K) \in Nat /\ Cardinality({a, b}) \in Nat
  BY <1>4, <1>5, FS_CardinalityType
<1> QED
  BY ONLY <1>4, <1>5, <1>6

(***************************************************************************)
(* The entries of one place are neighbours, two at most, and the last one  *)
(* alone where it is also the place at hand.                               *)
(***************************************************************************)
LEMMA TwiceSuffices == RunInv /\ Twice /\ SingleLoops => AtMostTwice
<1> SUFFICES ASSUME RunInv, Twice, SingleLoops, AtState, NEW s \in States, NEW i \in 0..Len(word)
             PROVE  Cardinality({k \in DOMAIN searchstack :
                                   Line(searchstack[k].ptr).state_no = s /\ searchstack[k].ipos = i})
                      + (IF s = State /\ i = ipos THEN 1 ELSE 0) <= 2
  BY DEF AtMostTwice
<1> DEFINE K == {k \in DOMAIN searchstack : Place(net, searchstack[k]) = <<s, i>>}
<1>1. {k \in DOMAIN searchstack :
         Line(searchstack[k].ptr).state_no = s /\ searchstack[k].ipos = i} = K
  BY DEF Place, StateAt, Line
<1>2. (s = State /\ i = ipos) <=> Stand = <<s, i>>
  BY DEF Stand, State, StateAt, Line
<1>3. PICK L \in Nat : L = Len(searchstack) /\ DOMAIN searchstack = 1..L
  BY Places, Zenon
<1>4. K \in SUBSET Nat /\ \A k \in K : k \in 1..L /\ Place(net, searchstack[k]) = <<s, i>>
  BY <1>3
<1>5. \A k \in 1..L : Place(net, searchstack[k]) = <<s, i>> => k \in K
  BY <1>3
<1> HIDE DEF K
<1> SUFFICES Cardinality(K) + (IF Stand = <<s, i>> THEN 1 ELSE 0) <= 2
  BY <1>1, <1>2
<1>6. CASE K = {}
  <2>1. Cardinality(K) = 0
    BY <1>6, FS_EmptySet
  <2> QED
    BY <2>1
<1>7. CASE K # {} /\ Stand = <<s, i>>
  <2>1. ASSUME NEW k \in K
        PROVE  k = L
    <3> SUFFICES ASSUME k # L PROVE FALSE
      OBVIOUS
    <3>1. k \in 1..L /\ Place(net, searchstack[k]) = Stand
      BY <1>4, <1>7
    <3>2. k <= L - 1 /\ L - 1 \in 1..L /\ k <= L /\ L \in 1..L /\ L > 1
      BY <3>1
    <3>3. Place(net, searchstack[L - 1]) = Stand /\ Place(net, searchstack[L]) = Stand
      BY <1>3, <3>1, <3>2, VisitsTogether
    <3>4. Back
      BY <1>3, <3>2, <3>3 DEF Back
    <3> QED
      BY <1>3, <3>2, <3>3, <3>4 DEF Twice
  <2>2. K \in SUBSET {L, L}
    BY <2>1
  <2>3. Cardinality(K) \in Nat /\ Cardinality(K) <= 1
    BY <2>2, PairCount
  <2> QED
    BY <1>7, <2>3
<1>8. CASE K # {} /\ Stand # <<s, i>>
  <2>1. PICK b \in K : \A k \in K : b <= k
    BY <1>4, <1>8, LeastOf
  <2>2. ASSUME NEW k \in K
        PROVE  k \in {b, b + 1}
    <3> SUFFICES ASSUME k \notin {b, b + 1} PROVE FALSE
      OBVIOUS
    <3>1. /\ b \in 1..L /\ k \in 1..L /\ b <= k
          /\ Place(net, searchstack[b]) = <<s, i>> /\ Place(net, searchstack[k]) = <<s, i>>
      BY <1>4, <2>1
    <3>2. /\ b + 1 \in 1..L /\ b + 2 \in 1..L /\ b <= b + 1 /\ b <= b + 2
          /\ b + 1 <= k /\ b + 2 <= k /\ b + 2 > 2 /\ b + 2 - 1 = b + 1 /\ b + 2 - 2 = b
      BY <3>1
    <3>3. Place(net, searchstack[b + 1]) = <<s, i>> /\ Place(net, searchstack[b + 2]) = <<s, i>>
      BY <1>3, <3>1, <3>2, VisitsTogether
    <3>4. Thrice(net, searchstack, b + 2)
      BY <3>1, <3>2, <3>3 DEF Thrice
    <3> QED
      BY <1>3, <3>2, <3>4 DEF Twice
  <2>3. b \in Nat /\ b + 1 \in Nat /\ K \in SUBSET {b, b + 1}
    BY <1>4, <2>1, <2>2
  <2>4. Cardinality(K) \in Nat /\ Cardinality(K) <= 2
    BY <2>3, PairCount
  <2> QED
    BY <1>8, <2>4
<1> QED
  BY <1>6, <1>7, <1>8

(***************************************************************************)
(* Where every loop that consumes nothing is at one state, no state is on  *)
(* the path more than twice with the same part of the word consumed        *)
(* (apply_mark_state), however the search has backtracked.  Through two    *)
(* states this is not so: the second visit of a state, when it is left,    *)
(* takes the mark of the first away.                                       *)
(***************************************************************************)
THEOREM TwiceAtMost == Spec => [](SingleLoops => AtMostTwice)
<1>1. Init => MarksInv /\ RunInv /\ Twice
  BY InitMarks, InitRun, InitTwice
<1>2. MarksInv /\ RunInv /\ Twice /\ [Next]_vars => MarksInv' /\ RunInv' /\ Twice'
  BY NextMarks, NextRun, NextTwice
<1>3. RunInv /\ Twice => (SingleLoops => AtMostTwice)
  BY TwiceSuffices
<1> QED
  BY <1>1, <1>2, <1>3, PTL DEF Spec

-----------------------------------------------------------------------------

\* The values of a flag, and of all.
FlagValue == [value : {Flag[f].value : f \in DOMAIN Flag} \cup {NoValue}, neg : BOOLEAN]
FlagValues == [FlagName -> FlagValue]

\* What is typed without regard to the path.
Sorts ==
  /\ mode \in Modes /\ calls \in 0..MaxWords
  /\ state_has_index \in BOOLEAN /\ iterator \in BOOLEAN
  /\ pc \in {"idle", "open", "enter", "result", "mark", "follow", "pop", "exhausted"}
  /\ flag_list \in FlagValues
  /\ AnyStack(searchstack)
  /\ \A k \in DOMAIN searchstack : /\ searchstack[k].has_index \in BOOLEAN
                                   /\ \A v \in searchstack[k].flag : v[2] \in FlagValue

\* A flag passed keeps the values of flags.
LEMMA PassType ==
  ASSUME NEW a, NEW fl \in FlagValues, NEW fl2 \in PassFlag(a, fl)
  PROVE  fl2 \in FlagValues
<1>1. CASE ~IsFlag(a)
  BY <1>1 DEF PassFlag
<1>2. CASE IsFlag(a)
  <2> DEFINE f == Flag[a]
  <2>1. /\ f.name \in FlagName /\ f.value \in {Flag[g].value : g \in DOMAIN Flag}
        /\ f.type \in {"U", "C", "D", "N", "P", "R", "E"}
    BY <1>2, ApplyAssumption DEF IsFlag, FlagName
  <2>2. PICK v \in CheckFlag(f, fl) : fl2 = [fl EXCEPT ![f.name] = v]
    BY <1>2 DEF PassFlag
  <2>3. fl[f.name] \in FlagValue
    BY <2>1 DEF FlagValues
  <2> HIDE DEF f
  <2>4. PICK V, u : V = {Flag[g].value : g \in DOMAIN Flag} \cup {NoValue} /\ u = fl[f.name]
    OBVIOUS
  <2>5. FlagValue = [value : V, neg : BOOLEAN] /\ f.value \in V /\ NoValue \in V
    BY <2>1, <2>4 DEF FlagValue
  <2>6. u \in [value : V, neg : BOOLEAN]
    BY <2>3, <2>4, <2>5
  <2>7. \/ v = u
        \/ v = [u EXCEPT !.value = f.value]
        \/ v = [value |-> NoValue, neg |-> FALSE]
        \/ \E b \in BOOLEAN : v = [value |-> f.value, neg |-> b]
    <3>1. \/ v = fl[f.name]
          \/ v = [fl[f.name] EXCEPT !.value = f.value]
          \/ v = [value |-> NoValue, neg |-> FALSE]
          \/ \E b \in BOOLEAN : v = [value |-> f.value, neg |-> b]
      BY <2>1, <2>2 DEF CheckFlag
    <3> QED
      BY ONLY <2>4, <3>1
  <2>8. [u EXCEPT !.value = f.value] \in [value : V, neg : BOOLEAN]
    BY ONLY <2>5, <2>6
  <2>9. v \in FlagValue
    <3>1. /\ [value |-> NoValue, neg |-> FALSE] \in [value : V, neg : BOOLEAN]
          /\ \A b \in BOOLEAN : [value |-> f.value, neg |-> b] \in [value : V, neg : BOOLEAN]
      BY ONLY <2>5
    <3>2. v \in [value : V, neg : BOOLEAN]
      BY ONLY <2>6, <2>7, <2>8, <3>1, Zenon
    <3> QED
      BY ONLY <2>5, <3>2
  <2> QED
    BY <2>2, <2>9 DEF FlagValues
<1> QED
  BY <1>1, <1>2

\* The start of everything is typed.
LEMMA InitSorts == Init => Sorts
<1> SUFFICES ASSUME Init PROVE Sorts
  OBVIOUS
<1>1. NoFlags \in FlagValues
  BY DEF NoFlags, FlagValues, FlagValue
<1>2. AnyStack(<<>>) /\ DOMAIN <<>> = {}
  <2>1. <<>> \in Seq({})
    OBVIOUS
  <2> QED
    BY <2>1 DEF AnyStack
<1>3. 0 \in 0..MaxWords
  BY ApplyAssumption
<1>4. /\ mode \in Modes /\ calls = 0 /\ state_has_index = FALSE /\ iterator = FALSE
      /\ pc = "idle" /\ flag_list = NoFlags /\ searchstack = <<>>
  BY DEF Init
<1> QED
  BY <1>1, <1>2, <1>3, <1>4 DEF Sorts

\* Every step keeps the types.
LEMMA NextSorts == MarksInv /\ RunInv /\ RunInv' /\ Sorts /\ [Next]_vars => Sorts'
<1> SUFFICES ASSUME MarksInv, RunInv, RunInv', Sorts, [Next]_vars PROVE Sorts'
  OBVIOUS
<1>0. AnyStack(searchstack')
  BY DEF RunInv
<1>1. ASSUME NEW m \in Modes, NEW w \in Words, Start(m, w)
      PROVE  Sorts'
  <2>1. NoFlags \in FlagValues
    BY DEF NoFlags, FlagValues, FlagValue
  <2>2. state_has_index' \in BOOLEAN
    <3>1. CASE searchstack = <<>>
      BY <1>1, <3>1 DEF Start, Sorts
    <3>2. CASE searchstack # <<>>
      <4>1. PICK S : searchstack \in Seq(S)
        BY DEF Sorts, AnyStack
      <4>2. Head(searchstack) = searchstack[1] /\ 1 \in DOMAIN searchstack
        BY <3>2, <4>1
      <4> QED
        BY <1>1, <3>2, <4>2 DEF Start, Sorts
    <3> QED
      BY <3>1, <3>2
  <2>3. /\ mode' = m /\ calls < MaxWords /\ calls' = calls + 1 /\ iterator' = (m = "words")
        /\ pc' = "open" /\ flag_list' = NoFlags /\ searchstack' = <<>>
    BY <1>1 DEF Start
  <2>4. calls' \in 0..MaxWords
    BY <2>3, ApplyAssumption DEF Sorts
  <2>5. DOMAIN searchstack' = {}
    BY <2>3
  <2> QED
    BY <1>0, <2>1, <2>2, <2>3, <2>4, <2>5 DEF Sorts
<1>2. ASSUME NEW i \in Int, NEW k \in Int, SetIptr(k, i)
      PROVE  state_has_index' \in BOOLEAN
  BY <1>2 DEF SetIptr, Sorts
<1>3. ASSUME NEW n \in NextArc, FollowArc(n)
      PROVE  Sorts'
  <2>1. /\ pc' = "enter" /\ mode' = mode /\ calls' = calls /\ iterator' = iterator
        /\ flag_list' \in PassFlag(symin(Ahead[n]), flag_list) /\ SetIptr(ptr', ipos')
    BY <1>3 DEF FollowArc
  <2>2. flag_list' \in FlagValues
    BY <2>1, PassType DEF Sorts
  <2>3. state_has_index' \in BOOLEAN
    BY <2>1 DEF SetIptr, Sorts
  <2>4. PICK e : /\ searchstack' = Append(searchstack, e) /\ e.has_index = state_has_index
                 /\ e.flag = Saved(SymIn(mode, net, Ahead[n]), flag_list)
    BY <1>3, FollowFacts
  <2>5. \A v \in e.flag : v[2] \in FlagValue
    <3>1. \A a : IsFlag(a) => flag_list[Flag[a].name] \in FlagValue
      BY DEF Sorts, FlagValues, FlagName, IsFlag
    <3> QED
      BY <2>4, <3>1 DEF Saved
  <2>6. PICK S : searchstack \in Seq(S)
    BY DEF Sorts, AnyStack
  <2>7. ASSUME NEW j \in DOMAIN searchstack'
        PROVE  searchstack'[j] = e \/ (j \in DOMAIN searchstack /\ searchstack'[j] = searchstack[j])
    <3>1. searchstack \in Seq(S \cup {e})
      BY <2>6
    <3> QED
      BY <2>4, <2>7, <3>1
  <2>8. \A j \in DOMAIN searchstack' : /\ searchstack'[j].has_index \in BOOLEAN
                                       /\ \A v \in searchstack'[j].flag : v[2] \in FlagValue
    BY <2>4, <2>5, <2>7 DEF Sorts
  <2> QED
    BY <1>0, <2>1, <2>2, <2>3, <2>8 DEF Sorts
<1>4. CASE Pop
  <2>1. PICK f : f = Last(searchstack)
    OBVIOUS
  <2>2. /\ pc = "pop" /\ pc' \in {"pop", "follow"} /\ searchstack # <<>>
        /\ searchstack' = Front(searchstack) /\ state_has_index' = f.has_index
        /\ flag_list' = Restored(f.flag) /\ mode' = mode /\ calls' = calls /\ iterator' = iterator
    BY <1>4, <2>1 DEF Pop
  <2>3. PICK S : searchstack \in Seq(S)
    BY DEF Sorts, AnyStack
  <2>4. /\ Len(searchstack) \in DOMAIN searchstack /\ f = searchstack[Len(searchstack)]
        /\ \A j \in DOMAIN searchstack' : j \in DOMAIN searchstack /\ searchstack'[j] = searchstack[j]
    BY <2>1, <2>2, <2>3, FrontType DEF Last
  <2>5. f.has_index \in BOOLEAN /\ \A v \in f.flag : v[2] \in FlagValue
    BY <2>4 DEF Sorts
  <2>6. flag_list' \in FlagValues
    <3>1. \A x \in FlagName : flag_list[x] \in FlagValue
      BY DEF Sorts, FlagValues
    <3>2. \A x \in FlagName : flag_list'[x] \in FlagValue
      BY <2>2, <2>5, <3>1 DEF Restored
    <3> QED
      BY <2>2, <3>2 DEF Restored, FlagValues
  <2>7. \A j \in DOMAIN searchstack' : /\ searchstack'[j].has_index \in BOOLEAN
                                       /\ \A v \in searchstack'[j].flag : v[2] \in FlagValue
    BY <2>4 DEF Sorts
  <2> QED
    BY <1>0, <2>2, <2>5, <2>6, <2>7 DEF Sorts
<1>5. CASE Open
  <2>1. state_has_index' \in BOOLEAN
    BY <1>5 DEF Open, SetIptr, Sorts
  <2> QED
    BY <1>0, <1>5, <2>1 DEF Open, Sorts
<1>6. CASE Enter \/ MarkState \/ NoArc \/ Exhausted \/ Again \/ Reset
  BY <1>0, <1>6 DEF Enter, MarkState, NoArc, Exhausted, Again, Reset, Sorts
<1>7. CASE UNCHANGED vars
  BY <1>0, <1>7 DEF vars, Sorts
<1> QED
  BY <1>1, <1>3, <1>4, <1>5, <1>6, <1>7 DEF Next, Search

\* The fields of the handle keep their types.
THEOREM TypeCorrect == Spec => []TypeOK
<1>1. Init => MarksInv /\ RunInv /\ OutputInv /\ Sorts
  BY InitMarks, InitRun, InitOutput, InitSorts
<1>2. MarksInv /\ RunInv /\ OutputInv /\ Sorts /\ [Next]_vars
        => MarksInv' /\ RunInv' /\ OutputInv' /\ Sorts'
  BY NextMarks, NextRun, NextOutput, NextSorts
<1>3. RunInv /\ OutputInv /\ Sorts => TypeOK
  <2> SUFFICES ASSUME RunInv, OutputInv, Sorts PROVE TypeOK
    OBVIOUS
  <2>1. ptr \in LineNo
    BY TaskNames DEF RunInv
  <2>2. PICK h : RunOf(Task, searchstack, h) /\ h[Len(searchstack)] = Here
    BY DEF RunInv, HasRun
  <2>3. PICK S : searchstack \in Seq(S)
    BY DEF Sorts, AnyStack
  <2>4. PICK L \in Nat : /\ L = Len(searchstack) /\ Len(PathOf(searchstack)) = L
                         /\ DOMAIN searchstack = 1..L
                         /\ \A k \in 1..L : PathOf(searchstack)[k] = searchstack[k].ptr
    BY <2>3 DEF PathOf
  <2>5. Config(Task, h[L]) /\ \A k \in 1..L : Moves(Task, searchstack[k].ptr, h[k - 1], h[k])
    BY <2>2, <2>4 DEF RunOf, Trace
  <2>6. ipos \in 0..Len(word)
    BY <2>2, <2>4, <2>5, TaskNames DEF Config, Here
  <2>7. \A k \in DOMAIN searchstack : searchstack[k].ptr \in LineNo
    BY <2>4, <2>5, TaskNames DEF Moves
  <2>8. opos \in 0..Len(outstring)
    BY DEF OutputInv, HasOutput, OutputHistory
  <2>9. \A x \in FlagName : flag_list[x].neg \in BOOLEAN
    BY DEF Sorts, FlagValues, FlagValue
  <2> QED
    BY <2>1, <2>6, <2>7, <2>8, <2>9 DEF Sorts, TypeOK
<1> QED
  BY <1>1, <1>2, <1>3, PTL DEF Spec

-----------------------------------------------------------------------------

(***************************************************************************)
(* No two entries of the stack are of the same state with the same mark,   *)
(* so there are no more than states and marks.                             *)
(***************************************************************************)
LEMMA DepthAtMost ==
  ASSUME RunInv, Twice, SingleLoops
  PROVE  Len(searchstack) <= 2 * (Len(word) + 1) * Cardinality(States)
<1>1. PICK L, W, T : L = Len(searchstack) /\ W = Len(word) /\ T = States
  OBVIOUS
<1>2. L \in Nat /\ DOMAIN searchstack = 1..L
  BY <1>1, Places
<1>3. W \in Nat /\ IsFiniteSet(T) /\ Cardinality(T) \in Nat
  <2>1. net \in Nets /\ word \in Seq(Int)
    BY TaskNames DEF RunInv, IsTask
  <2>2. States = StatesOf(net)
    BY TaskNames DEF States, StatesOf
  <2> QED
    BY <1>1, <2>1, <2>2, StatesFinite
<1>4. IsFiniteSet(1..L) /\ Cardinality(1..L) = L
  BY <1>2, FS_Interval
<1>5. PICK M : M = 1..(W + 1)
  OBVIOUS
<1>6. IsFiniteSet(M) /\ Cardinality(M) = W + 1
  BY <1>3, <1>5, FS_Interval
<1>7. IsFiniteSet(1..2) /\ Cardinality(1..2) = 2
  <2>1. 1 \in Int /\ 2 \in Int /\ ~(1 > 2) /\ 2 - 1 + 1 = 2
    OBVIOUS
  <2> QED
    BY ONLY <2>1, FS_Interval
<1>8. PICK P, Q : P = (1..2) \X M /\ Q = P \X T
  OBVIOUS
<1>9. IsFiniteSet(Q) /\ Cardinality(Q) = 2 * (W + 1) * Cardinality(T)
  <2>1. IsFiniteSet(P) /\ Cardinality(P) = 2 * (W + 1)
    <3>1. IsFiniteSet((1..2) \X M)
          /\ Cardinality((1..2) \X M) = Cardinality((1..2)) * Cardinality(M)
      BY ONLY <1>6, <1>7, FS_Product
    <3> QED
      BY <1>6, <1>7, <1>8, <3>1
  <2>2. IsFiniteSet(P \X T) /\ Cardinality(P \X T) = Cardinality(P) * Cardinality(T)
    BY ONLY <1>3, <2>1, FS_Product
  <2> QED
    BY <1>8, <2>1, <2>2
\* Which visit an entry is of: the second when the one below is of the same place.
<1> DEFINE Visit(k) == IF k > 1 /\ Place(net, searchstack[k - 1]) = Place(net, searchstack[k]) THEN 2 ELSE 1
           g == [k \in 1..L |-> <<<<Visit(k), searchstack[k].ipos + 1>>,
                                  StateAt(net, searchstack[k].ptr)>>]
<1>10. g \in [1..L -> Q]
  <2>1. \A k \in 1..L : /\ searchstack[k].ipos + 1 \in M /\ StateAt(net, searchstack[k].ptr) \in T
                        /\ Visit(k) \in (1..2)
    <3>1. \A k \in 1..L : searchstack[k].ipos \in 0..W /\ StateAt(net, searchstack[k].ptr) \in T
      BY <1>1, <1>2, Places
    <3>2. \A k \in 1..L : Visit(k) \in 1..2
      OBVIOUS
    <3>3. \A n \in 0..W : n + 1 \in M
      BY <1>3, <1>5
    <3> HIDE DEF Visit
    <3> QED
      BY ONLY <3>1, <3>2, <3>3
  <2> HIDE DEF Visit
  <2> QED
    BY <1>8, <2>1
<1>11. ASSUME NEW i \in 1..L, NEW j \in 1..L, i < j,
              Place(net, searchstack[i]) = Place(net, searchstack[j]), Visit(i) = Visit(j)
       PROVE  FALSE
  <2>1. /\ j - 1 \in 1..L /\ i + 1 \in 1..L /\ i <= j - 1 /\ i <= i + 1 /\ i + 1 <= j /\ j - 1 <= j
        /\ j > 1 /\ i + 1 - 1 = i /\ i + 1 - 2 = i - 1
    BY <1>2, <1>11
  <2>2. Place(net, searchstack[j - 1]) = Place(net, searchstack[j])
    BY <1>2, <1>11, <2>1, VisitsTogether
  <2>3. Place(net, searchstack[i + 1]) = Place(net, searchstack[j])
    BY <1>2, <1>11, <2>1, VisitsTogether
  <2>4. Visit(i) = 2
    BY <1>11, <2>1, <2>2
  <2>5. i > 1 /\ Place(net, searchstack[i - 1]) = Place(net, searchstack[i])
    BY <2>4
  <2>6. Thrice(net, searchstack, i + 1)
    BY <1>11, <2>1, <2>3, <2>5 DEF Thrice
  <2> QED
    BY <1>2, <2>1, <2>6 DEF Twice
<1>12. ASSUME NEW i \in 1..L, NEW j \in 1..L, g[i] = g[j]
       PROVE  i = j
  <2>1. searchstack[i].ipos \in Nat /\ searchstack[j].ipos \in Nat
    BY <1>2, Places
  <2>2. /\ searchstack[i].ipos + 1 = searchstack[j].ipos + 1
        /\ StateAt(net, searchstack[i].ptr) = StateAt(net, searchstack[j].ptr)
        /\ Visit(i) = Visit(j)
    <3> HIDE DEF Visit
    <3> QED
      BY <1>12
  <2>3. Place(net, searchstack[i]) = Place(net, searchstack[j])
    BY <2>1, <2>2 DEF Place
  <2>5. ~(i < j)
    BY <1>11, <2>2, <2>3
  <2>6. ~(j < i)
    BY <1>11, <2>2, <2>3
  <2> QED
    BY <1>2, <2>5, <2>6
<1>13. g \in Injection(1..L, Q)
  <2>1. DOMAIN g = 1..L
    OBVIOUS
  <2> HIDE DEF g
  <2> QED
    BY <1>10, <1>12, <2>1 DEF Injection, IsInjective
<1> HIDE DEF g
<1>14. Cardinality(1..L) <= Cardinality(Q)
  BY ONLY <1>9, <1>13, FS_Injection
<1> QED
  BY <1>1, <1>4, <1>9, <1>14

(***************************************************************************)
(* So the search stack, which apply_stack_push lets grow as needed, stays  *)
(* within twice the places there are: a call cannot go down forever.       *)
(***************************************************************************)
THEOREM DepthBounded ==
  Spec => [](SingleLoops => Len(searchstack) <= 2 * (Len(word) + 1) * Cardinality(States))
<1>1. Init => MarksInv /\ RunInv /\ Twice
  BY InitMarks, InitRun, InitTwice
<1>2. MarksInv /\ RunInv /\ Twice /\ [Next]_vars => MarksInv' /\ RunInv' /\ Twice'
  BY NextMarks, NextRun, NextTwice
<1>3. RunInv /\ Twice =>
        (SingleLoops => Len(searchstack) <= 2 * (Len(word) + 1) * Cardinality(States))
  BY DepthAtMost
<1> QED
  BY <1>1, <1>2, <1>3, PTL DEF Spec

=============================================================================
