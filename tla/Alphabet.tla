------------------------------ MODULE Alphabet ------------------------------
(***************************************************************************)
(* The alphabets of foma: foma/sigma.c, fsm_merge_sigma and fsm_compact.   *)
(*                                                                         *)
(* The list of a sigma is in the order of its numbers, so a function from  *)
(* numbers to names stands for it.  sigma_sort gives the names the numbers *)
(* from 3 on in their order; a name of more than one character is "long".  *)
(***************************************************************************)
EXTENDS Network

\* The names below those of the letters: the word boundary, the names that
\* fsm_lowerdet makes up, the auxiliary symbols of the library, flag diacritics.
Boundary == 3            \* ".#."
NewSym(k) == 3 + k
BoundaryCopy == 10       \* "@#@"
LeftBracket == 11        \* "@<eq<@"
Separator == 12          \* "@>@"
RightBracket == 13       \* "@>eq>@"
Kill == 14               \* "@KILL@"
Var == 15                \* "@VARX@"
Inner == 16              \* "@i<@"
FirstLetter == 100
utf8long(name) == name < FirstLetter
flag_check(name) == name \in 20 .. FirstLetter - 1

Real(sig) == {k \in DOMAIN sig : k >= MINSIGMA}
Names(sig) == {sig[k] : k \in Real(sig)}

-----------------------------------------------------------------------------

sigma_find(name, sig) ==
  IF \E k \in DOMAIN sig : sig[k] = name THEN Min({k \in DOMAIN sig : sig[k] = name}) ELSE -1

\* The new number follows the last one; whether the name is there is not looked at.
sigma_add(name, sig) == With(sig, Max({MINSIGMA, sigma_max(sig) + 1}), name)
sigma_add_special(k, sig) == With(sig, k, k)
WithSpecial(k, sig) == IF k \in DOMAIN sig THEN sig ELSE sigma_add_special(k, sig)

\* What a handle for building does with the name of an arc.
Named(name, sig) == IF sigma_find(name, sig) # -1 THEN sig
                    ELSE IF name < MINSIGMA THEN sigma_add_special(name, sig)
                    ELSE sigma_add(name, sig)

sigma_remove(name, sig) == Without(sig, {sigma_find(name, sig)})
sigma_remove_num(k, sig) == Without(sig, {k})

sigma_substitute(name, sub, sig) ==
  LET k == sigma_find(name, sig) IN [j \in DOMAIN sig |-> IF j = k THEN sub ELSE sig[j]]

\* The arcs with the symbols above IDENTITY replaced.
Replaced(arcs, f) ==
  LET new(k) == IF k > IDENTITY THEN f[k] ELSE k
  IN  {<<a[1], new(a[2]), new(a[3]), a[4]>> : a \in arcs}

\* The numbers of sigma_sort.
Rank(sig, k) == MINSIGMA + Cardinality({j \in Real(sig) : sig[j] < sig[k]})
Renumbered(sig, f) ==
  [k \in (DOMAIN sig \ Real(sig)) \cup {f[j] : j \in Real(sig)} |->
     IF k < MINSIGMA THEN k ELSE sig[CHOOSE j \in Real(sig) : f[j] = k]]

sigma_sort(net) ==
  LET rank == [k \in Real(net.sig) |-> Rank(net.sig, k)]
  IN  [net EXCEPT !.sig = Renumbered(net.sig, rank), !.arcs = Replaced(net.arcs, rank)]

\* The names of the numbers in used stay, those from 3 on numbered again without a gap.
Retained(net, used) ==
  LET no == [k \in Real(used) |-> MINSIGMA + Cardinality({j \in Real(used) : j < k})]
  IN  [net EXCEPT !.sig = Renumbered(used, no), !.arcs = Replaced(net.arcs, no)]

\* Names that are on no arc go, unless force = 0 and IDENTITY or UNKNOWN stands
\* for what is not there.
sigma_cleanup(net, force) ==
  LET attested == {a[2] : a \in net.arcs} \cup {a[3] : a \in net.arcs}
  IN  IF force = 0 /\ {UNKNOWN, IDENTITY} \cap DOMAIN net.sig # {} THEN net
      ELSE Retained(net, [k \in DOMAIN net.sig \cap attested |-> net.sig[k]])

-----------------------------------------------------------------------------
(* fsm_merge_sigma: one alphabet for two networks.                         *)

\* The arcs with what ? and @ stood for spelled out: new holds the numbers of the
\* names that the network has just come to know.
Expanded(arcs, new) ==
  LET more(a) ==
        IF a[2] = IDENTITY THEN {<<a[1], k, k, a[4]>> : k \in new}
        ELSE IF a[2] = UNKNOWN /\ a[3] # UNKNOWN THEN {<<a[1], k, a[3], a[4]>> : k \in new}
        ELSE IF a[2] # UNKNOWN /\ a[3] = UNKNOWN THEN {<<a[1], a[2], k, a[4]>> : k \in new}
        ELSE IF a[2] = UNKNOWN
             THEN {<<a[1], p[1], p[2], a[4]>> :
                     p \in {q \in (new \cup {UNKNOWN}) \X (new \cup {UNKNOWN}) : q[1] # q[2]}}
        ELSE {}
  IN  arcs \cup UNION {more(a) : a \in arcs}

WithBoundary(net, other) ==
  IF Boundary \in Names(other.sig) \ Names(net.sig)
  THEN sigma_sort([net EXCEPT !.sig = sigma_add(Boundary, @)]) ELSE net

\* The names of both in their order.
Joined(sig1, sig2) ==
  LET all == Names(sig1) \cup Names(sig2)
      at == [x \in all |-> MINSIGMA + Cardinality({y \in all : y < x})]
  IN  [k \in ((DOMAIN sig1 \cup DOMAIN sig2) \cap (0 .. MINSIGMA - 1)) \cup {at[x] : x \in all} |->
         IF k < MINSIGMA THEN k ELSE CHOOSE x \in all : at[x] = k]

\* The network over the alphabet sig.
Moved(net, sig) ==
  [net EXCEPT !.sig = sig,
              !.arcs = Expanded(Replaced(@, [k \in Real(net.sig) |-> sigma_find(net.sig[k], sig)]),
                                {k \in Real(sig) : /\ sig[k] \notin Names(net.sig)
                                                   /\ {UNKNOWN, IDENTITY} \cap DOMAIN net.sig # {}})]
BothMoved(net1, net2, sig) == <<Moved(net1, sig), Moved(net2, sig)>>
Sharing(net1, net2) == BothMoved(net1, net2, Joined(net1.sig, net2.sig))

fsm_merge_sigma(net1, net2) == Sharing(WithBoundary(net1, net2), WithBoundary(net2, net1))

-----------------------------------------------------------------------------

\* fsm_compact drops the short names that are on arcs k:k only, and in every
\* state go where IDENTITY goes.
Removable(net) ==
  LET On(q, k) == {a[4] : a \in {b \in net.arcs : b[1] = q /\ b[2] = k /\ b[3] = k}}
      Alike(k) == \A q \in 0 .. net.n - 1 :
                    \/ On(q, k) \cup On(q, IDENTITY) = {}
                    \/ On(q, k) \cap On(q, IDENTITY) # {}
  IN  {k \in Real(net.sig) : /\ ~ utf8long(net.sig[k])
                             /\ Alike(k)
                             /\ \A a \in net.arcs : k \in {a[2], a[3]} => a[2] = a[3]}
\* It unlinks a name from the one before, and there is none before the first.
LosesFirst(net) ==
  Real(net.sig) = DOMAIN net.sig /\ Real(net.sig) # {} /\ Min(Real(net.sig)) \in Removable(net)

Rid(net, removable) ==
  IF removable = {} THEN net
  ELSE sigma_cleanup([net EXCEPT !.arcs = {a \in net.arcs : a[2] \notin removable},
                                 !.sig = Without(net.sig, removable)], 0)
fsm_compact(net) == Rid(net, Removable(net))
=============================================================================
