------------------------- MODULE PlanSequencesProofs -------------------------
(***************************************************************************)
(* What the folds of PlanSequences hold.  FlattenSeq is defined by a       *)
(* recursive function over the positions of a sequence, so these facts     *)
(* need induction; as the library's induction theorems take an operator,   *)
(* it is derived here for a set of numbers, from the library's fact that   *)
(* < is well-founded on the natural numbers.                               *)
(***************************************************************************)
EXTENDS PlanSequences, SequenceTheorems, WellFoundedInduction, TLAPS

\* A set of natural numbers that is not empty has a least element.
LEMMA LeastElement ==
  ASSUME NEW T \in SUBSET Nat, T # {}
  PROVE  \E x \in T : \A y \in T : x <= y
<1> DEFINE R == OpToRel(<, Nat)
<1>1. IsWellFoundedOn(R, Nat) BY NatLessThanWellFounded
<1>2. \A a, b \in Nat : <<a, b>> \in R <=> a < b BY DEF OpToRel
<1> HIDE DEF R
<1>3. PICK x \in T : \A y \in T : <<y, x>> \notin R BY <1>1, WFMin
<1>4. ASSUME NEW y \in T PROVE x <= y
  <2>1. ~(y < x) BY <1>2, <1>3
  <2> QED BY <2>1
<1> QED BY <1>4

\* Induction over the natural numbers, for a set instead of a predicate.
LEMMA Induction ==
  ASSUME NEW S, 0 \in S, \A n \in Nat : n \in S => n + 1 \in S
  PROVE  Nat \subseteq S
<1> DEFINE T == Nat \ S
<1>1. SUFFICES ASSUME T # {} PROVE FALSE OBVIOUS
<1>2. PICK x \in T : \A y \in T : x <= y BY <1>1, LeastElement
<1>3. x # 0 /\ x - 1 \in Nat /\ x - 1 \notin T BY <1>2
<1> QED BY <1>2, <1>3

\* f[i] is the first i members of s, one after the other.
Chain(s, m, f) == f = [i \in 1 .. m |-> IF i = 1 THEN s[i] ELSE f[i - 1] \o s[i]]

\* There is such a function, however many members are wanted.
LEMMA ChainExists ==
  ASSUME NEW s
  PROVE  \A m \in Nat : \E f : Chain(s, m, f)
<1> DEFINE S == {m \in Nat : \E f : Chain(s, m, f)}
<1>1. 0 \in S
  <2> DEFINE f == [i \in 1 .. 0 |-> s]
  <2>1. f = [i \in 1 .. 0 |-> IF i = 1 THEN s[i] ELSE f[i - 1] \o s[i]] OBVIOUS
  <2> QED BY <2>1 DEF Chain
<1>2. ASSUME NEW m \in Nat, m \in S PROVE m + 1 \in S
  <2>1. PICK f : Chain(s, m, f) BY <1>2
  <2> DEFINE last == IF m = 0 THEN s[m + 1] ELSE f[m] \o s[m + 1]
             g == [i \in 1 .. m + 1 |-> IF i = m + 1 THEN last ELSE f[i]]
  <2>2. \A i \in 1 .. m : f[i] = IF i = 1 THEN s[i] ELSE f[i - 1] \o s[i] BY <2>1 DEF Chain
  <2>0. last = IF m = 0 THEN s[m + 1] ELSE f[m] \o s[m + 1] OBVIOUS
  <2> HIDE DEF last
  <2>3. g[m + 1] = last /\ \A i \in 1 .. m : g[i] = f[i] OBVIOUS
  <2>4. g = [i \in 1 .. m + 1 |-> g[i]] OBVIOUS
  <2> HIDE DEF g
  <2>5. ASSUME NEW i \in 1 .. m + 1 PROVE g[i] = IF i = 1 THEN s[i] ELSE g[i - 1] \o s[i]
    <3>1. CASE i \in 1 .. m
      <4>1. CASE i = 1 BY <3>1, <4>1, <2>2, <2>3
      <4>2. CASE i # 1
        <5>1. i - 1 \in 1 .. m BY <3>1, <4>2
        <5> QED BY <5>1, <3>1, <4>2, <2>2, <2>3
      <4> QED BY <4>1, <4>2
    <3>2. CASE i = m + 1
      <4>1. CASE m = 0 BY <3>2, <4>1, <2>0, <2>3
      <4>2. CASE m # 0
        <5>1. m \in 1 .. m /\ i - 1 = m /\ i # 1 BY <3>2, <4>2
        <5>2. g[i - 1] = f[m] BY <5>1, <2>3
        <5> QED BY <5>1, <5>2, <4>2, <3>2, <2>0, <2>3
      <4> QED BY <4>1, <4>2
    <3> QED BY <3>1, <3>2
  <2>6. Chain(s, m + 1, g) BY <2>4, <2>5 DEF Chain
  <2> QED BY <2>6
<1> HIDE DEF S
<1>3. Nat \subseteq S BY <1>1, <1>2, Induction
<1> QED BY <1>3 DEF S

\* What FlattenSeq computes: the sequences of s, one after the other.
LEMMA FlattenIsChained ==
  ASSUME NEW V, NEW s \in Seq(V)
  PROVE  \/ Len(s) = 0 /\ FlattenSeq(s) = <<>>
         \/ Len(s) # 0 /\ \E f : Chain(s, Len(s), f) /\ FlattenSeq(s) = f[Len(s)]
<1>1. CASE Len(s) = 0
  <2>1. s = <<>> BY <1>1
  <2> QED BY <1>1, <2>1 DEF FlattenSeq
<1>2. CASE Len(s) # 0
  <2> DEFINE f == CHOOSE f : Chain(s, Len(s), f)
  <2>1. Chain(s, Len(s), f) BY ChainExists
  <2>2. FlattenSeq(s) = f[Len(s)] BY <1>2 DEF FlattenSeq, Chain
  <2> QED BY <1>2, <2>1, <2>2
<1> QED BY <1>1, <1>2

\* Two sequences one after the other have the members of both.
LEMMA ConcatMembers ==
  ASSUME NEW W, NEW s \in Seq(W), NEW t \in Seq(W)
  PROVE  s \o t \in Seq(W) /\ ToSet(s \o t) = ToSet(s) \cup ToSet(t)
<1> DEFINE u == s \o t
<1>1. /\ u \in Seq(W) /\ Len(u) = Len(s) + Len(t) /\ Len(s) \in Nat /\ Len(t) \in Nat
      /\ DOMAIN u = 1 .. Len(u) /\ DOMAIN s = 1 .. Len(s) /\ DOMAIN t = 1 .. Len(t)
  OBVIOUS
<1>2. \A i \in 1 .. Len(s) : u[i] = s[i] OBVIOUS
<1>3. \A i \in 1 .. Len(t) : u[Len(s) + i] = t[i] OBVIOUS
<1> HIDE DEF u
<1>4. ASSUME NEW i \in DOMAIN u PROVE u[i] \in ToSet(s) \cup ToSet(t)
  <2>1. CASE i <= Len(s) BY <2>1, <1>1, <1>2 DEF ToSet
  <2>2. CASE i > Len(s)
    <3>1. i - Len(s) \in 1 .. Len(t) /\ Len(s) + (i - Len(s)) = i BY <2>2, <1>1
    <3>2. u[i] = t[i - Len(s)] BY <3>1, <1>3
    <3> QED BY <3>1, <3>2, <1>1 DEF ToSet
  <2> QED BY <2>1, <2>2, <1>1
<1>5. ASSUME NEW i \in DOMAIN s PROVE s[i] \in ToSet(u)
  <2>1. i \in DOMAIN u BY <1>1
  <2> QED BY <2>1, <1>1, <1>2 DEF ToSet
<1>6. ASSUME NEW i \in DOMAIN t PROVE t[i] \in ToSet(u)
  <2>1. Len(s) + i \in DOMAIN u BY <1>1
  <2> QED BY <2>1, <1>1, <1>3 DEF ToSet
<1>7. ToSet(u) = ToSet(s) \cup ToSet(t) BY <1>4, <1>5, <1>6 DEF ToSet
<1> QED BY <1>1, <1>7 DEF u

\* The members of a flattened sequence are those of the sequences in it.
LEMMA FlattenMembers ==
  ASSUME NEW W, NEW s \in Seq(Seq(W))
  PROVE  /\ FlattenSeq(s) \in Seq(W)
         /\ ToSet(FlattenSeq(s)) = UNION {ToSet(s[i]) : i \in 1 .. Len(s)}
<1>1. CASE Len(s) = 0
  <2>1. FlattenSeq(s) = <<>> BY <1>1, FlattenIsChained
  <2>2. ToSet(<<>>) = {} BY DEF ToSet
  <2> QED BY <1>1, <2>1, <2>2
<1>2. CASE Len(s) # 0
  <2>1. PICK f : Chain(s, Len(s), f) /\ FlattenSeq(s) = f[Len(s)] BY <1>2, FlattenIsChained
  <2>2. Len(s) \in Nat /\ \A i \in 1 .. Len(s) : s[i] \in Seq(W) OBVIOUS
  <2>3. \A i \in 1 .. Len(s) : f[i] = IF i = 1 THEN s[i] ELSE f[i - 1] \o s[i] BY <2>1 DEF Chain
  <2> DEFINE P(m) == f[m] \in Seq(W) /\ ToSet(f[m]) = UNION {ToSet(s[i]) : i \in 1 .. m}
             S == {m \in Nat : m \in 1 .. Len(s) => P(m)}
  <2>4. 0 \in S OBVIOUS
  <2>5. ASSUME NEW m \in Nat, m \in S PROVE m + 1 \in S
    <3>1. SUFFICES ASSUME m + 1 \in 1 .. Len(s) PROVE P(m + 1) OBVIOUS
    <3>2. CASE m = 0
      <4>1. f[m + 1] = s[m + 1] /\ 1 .. m + 1 = {1} /\ m + 1 = 1 BY <2>3, <3>1, <3>2
      <4> QED BY <4>1, <2>2, <3>1
    <3>3. CASE m # 0
      <4>1. m \in 1 .. Len(s) /\ m + 1 # 1 /\ (m + 1) - 1 = m BY <3>1, <3>3, <2>2
      <4>2. P(m) BY <4>1, <2>5
      <4>3. f[m + 1] = f[m] \o s[m + 1] BY <4>1, <3>1, <2>3
      <4>4. /\ f[m + 1] \in Seq(W)
            /\ ToSet(f[m + 1]) = ToSet(f[m]) \cup ToSet(s[m + 1])
        BY <4>2, <4>3, <3>1, <2>2, ConcatMembers
      <4>5. 1 .. m + 1 = (1 .. m) \cup {m + 1} OBVIOUS
      <4>6. UNION {ToSet(s[i]) : i \in 1 .. m + 1} = (UNION {ToSet(s[i]) : i \in 1 .. m}) \cup ToSet(s[m + 1])
        BY <4>5
      <4> QED BY <4>2, <4>4, <4>6
    <3> QED BY <3>2, <3>3
  <2> HIDE DEF S
  <2>6. Nat \subseteq S BY <2>4, <2>5, Induction
  <2>7. Len(s) \in 1 .. Len(s) BY <1>2, <2>2
  <2>8. P(Len(s)) BY <2>2, <2>6, <2>7 DEF S
  <2> QED BY <2>1, <2>8
<1> QED BY <1>1, <1>2

\* Select keeps the members at the positions in S, and nothing else.
LEMMA SelectMembers ==
  ASSUME NEW W, NEW s \in Seq(W), NEW S
  PROVE  /\ Select(s, S) \in Seq(W)
         /\ ToSet(Select(s, S)) = {s[i] : i \in S \cap DOMAIN s}
<1> DEFINE parts == [i \in DOMAIN s |-> IF i \in S THEN <<s[i]>> ELSE <<>>]
<1>1. DOMAIN s = 1 .. Len(s) /\ Len(s) \in Nat /\ \A i \in DOMAIN s : s[i] \in W OBVIOUS
<1>2. parts \in Seq(Seq(W)) /\ Len(parts) = Len(s) BY <1>1
<1>3. \A x : ToSet(<<x>>) = {x} BY DEF ToSet
<1>4. ToSet(<<>>) = {} BY DEF ToSet
<1>5. \A i \in DOMAIN s : ToSet(parts[i]) = IF i \in S THEN {s[i]} ELSE {} BY <1>3, <1>4
<1>6. Select(s, S) = FlattenSeq(parts) BY DEF Select
<1> HIDE DEF parts
<1>7. Select(s, S) \in Seq(W) /\ ToSet(Select(s, S)) = UNION {ToSet(parts[i]) : i \in 1 .. Len(s)}
  BY <1>2, <1>6, FlattenMembers
<1>8. UNION {ToSet(parts[i]) : i \in 1 .. Len(s)} = {s[i] : i \in S \cap DOMAIN s}
  BY <1>1, <1>5
<1> QED BY <1>7, <1>8

-----------------------------------------------------------------------------
(* Short sequences, and members one by one                                  *)

\* The members of short sequences.
LEMMA OfOne == (\A x : ToSet(<<x>>) = {x}) /\ ToSet(<<>>) = {}
BY DEF ToSet

\* The members of a sequence with one more.
LEMMA AppendMembers ==
  ASSUME NEW W, NEW s \in Seq(W), NEW x \in W
  PROVE  ToSet(Append(s, x)) = ToSet(s) \cup {x}
<1> DEFINE u == Append(s, x)
<1>1. DOMAIN u = 1 .. Len(s) + 1 /\ Len(s) \in Nat /\ DOMAIN s = 1 .. Len(s) OBVIOUS
<1>2. u[Len(s) + 1] = x /\ \A i \in 1 .. Len(s) : u[i] = s[i] OBVIOUS
<1> HIDE DEF u
<1>3. ToSet(u) = ToSet(s) \cup {x} BY <1>1, <1>2 DEF ToSet
<1> QED BY <1>3 DEF u

\* A sequence without members is empty.
LEMMA EmptyMembers ==
  ASSUME NEW W, NEW s \in Seq(W)
  PROVE  ToSet(s) = {} <=> s = <<>>
<1>1. DOMAIN s = 1 .. Len(s) /\ Len(s) \in Nat OBVIOUS
<1>2. ASSUME ToSet(s) = {} PROVE s = <<>>
  <2>1. ~(1 \in DOMAIN s) BY <1>2 DEF ToSet
  <2>2. Len(s) = 0 BY <1>1, <2>1
  <2> QED BY <2>2
<1>3. ToSet(<<>>) = {} BY DEF ToSet
<1> QED BY <1>2, <1>3

\* What is taken out of a sequence of operations, or of entries.
LEMMA TakenOut ==
  ASSUME NEW W, NEW s \in Seq(W), NEW D
  PROVE  /\ Select(s, {i \in DOMAIN s : s[i] \in D}) \in Seq(W)
         /\ ToSet(Select(s, {i \in DOMAIN s : s[i] \in D})) = ToSet(s) \cap D
<1> DEFINE at == {i \in DOMAIN s : s[i] \in D}
<1>1. Select(s, at) \in Seq(W) /\ ToSet(Select(s, at)) = {s[i] : i \in at \cap DOMAIN s} BY SelectMembers
<1>2. {s[i] : i \in at \cap DOMAIN s} = ToSet(s) \cap D BY DEF ToSet
<1> QED BY <1>1, <1>2

\* Heads and tails.
LEMMA ElementsTyped ==
  ASSUME NEW W, NEW s \in Seq(W)
  PROVE  /\ ToSet(s) \subseteq W /\ DOMAIN s = 1 .. Len(s) /\ Len(s) \in Nat
         /\ s # <<>> => /\ Head(s) \in ToSet(s) /\ Head(s) \in W /\ Tail(s) \in Seq(W)
                        /\ ToSet(Tail(s)) \subseteq ToSet(s) /\ ToSet(s) = {Head(s)} \cup ToSet(Tail(s))
<1>1. DOMAIN s = 1 .. Len(s) /\ Len(s) \in Nat /\ \A i \in DOMAIN s : s[i] \in W OBVIOUS
<1>2. ToSet(s) \subseteq W BY <1>1 DEF ToSet
<1>3. ASSUME s # <<>>
      PROVE  /\ Head(s) \in ToSet(s) /\ Head(s) \in W /\ Tail(s) \in Seq(W)
             /\ ToSet(Tail(s)) \subseteq ToSet(s) /\ ToSet(s) = {Head(s)} \cup ToSet(Tail(s))
  <2> DEFINE u == Tail(s)
  <2>1. 1 \in DOMAIN s /\ Head(s) = s[1] BY <1>1, <1>3
  <2>2. u \in Seq(W) /\ Len(u) = Len(s) - 1 /\ DOMAIN u = 1 .. Len(u) /\ \A i \in 1 .. Len(u) : u[i] = s[i + 1]
    BY <1>3
  <2> HIDE DEF u
  <2>3. ToSet(u) \subseteq ToSet(s)
    <3>1. ASSUME NEW i \in DOMAIN u PROVE u[i] \in ToSet(s)
      <4>1. i + 1 \in DOMAIN s BY <1>1, <2>2
      <4> QED BY <4>1, <2>2 DEF ToSet
    <3> QED BY <3>1 DEF ToSet
  <2>4. ASSUME NEW i \in DOMAIN s PROVE s[i] \in {s[1]} \cup ToSet(u)
    <3>1. CASE i = 1 BY <3>1
    <3>2. CASE i # 1
      <4>1. i - 1 \in DOMAIN u /\ u[i - 1] = s[i] BY <3>2, <1>1, <2>2
      <4> QED BY <4>1 DEF ToSet
    <3> QED BY <3>1, <3>2
  <2>5. s[1] \in ToSet(s) /\ s[1] \in W BY <1>1, <2>1 DEF ToSet
  <2>6. ToSet(s) \subseteq {s[1]} \cup ToSet(u) BY <2>4 DEF ToSet
  <2> QED BY <2>1, <2>2, <2>3, <2>5, <2>6 DEF u
<1> QED BY <1>1, <1>2, <1>3

-----------------------------------------------------------------------------
(* Planners                                                                 *)

OneOf(ops, S) == ops = <<>> \/ \E op \in S : ops = <<op>>

\* A planner returns at most one operation.
LEMMA OneOfFacts ==
  ASSUME NEW S, NEW ops, OneOf(ops, S)
  PROVE  ops \in Seq(S) /\ (ops = <<>> => ToSet(ops) = {}) /\ \A op : ops = <<op>> => ToSet(ops) = {op}
<1>1. \A op : ToSet(<<op>>) = {op} BY DEF ToSet
<1>2. ToSet(<<>>) = {} BY DEF ToSet
<1>3. ops \in Seq(S)
  <2>1. CASE ops = <<>> BY <2>1
  <2>2. CASE ops # <<>>
    <3>1. PICK op \in S : ops = <<op>> BY <2>2 DEF OneOf
    <3> QED BY <3>1
  <2> QED BY <2>1, <2>2
<1> QED BY <1>1, <1>2, <1>3

\* A loop of a planner visits everything there is.
Visited(seq, K) == seq \in Seq(K) /\ {seq[i] : i \in 1 .. Len(seq)} = K
Yields(G, K, W) == \A k \in K : OneOf(G[k], W)
Each(seq, G) == [i \in DOMAIN seq |-> G[seq[i]]]
Collected(G, K) == UNION {ToSet(G[k]) : k \in K}

\* A loop that appends what each item yields collects just that.
LEMMA Concatenated ==
  ASSUME NEW W, NEW K, NEW seq, Visited(seq, K), NEW G, Yields(G, K, W)
  PROVE  FlattenSeq(Each(seq, G)) \in Seq(W) /\ ToSet(FlattenSeq(Each(seq, G))) = Collected(G, K)
<1> DEFINE parts == Each(seq, G)
<1>0. parts = [i \in DOMAIN seq |-> G[seq[i]]] BY DEF Each
<1>1. /\ DOMAIN seq = 1 .. Len(seq) /\ Len(seq) \in Nat /\ \A i \in DOMAIN seq : seq[i] \in K
      /\ {seq[i] : i \in 1 .. Len(seq)} = K
  BY DEF Visited
<1>2. \A i \in DOMAIN seq : G[seq[i]] \in Seq(W) BY <1>1, OneOfFacts DEF Yields
<1> HIDE DEF parts
<1>3. parts \in [1 .. Len(seq) -> Seq(W)] BY <1>0, <1>1, <1>2
<1>4. \A i \in 1 .. Len(seq) : parts[i] = G[seq[i]] BY <1>0, <1>1
<1>5. parts \in Seq(Seq(W)) /\ Len(parts) = Len(seq) BY <1>1, <1>3
<1>6. /\ FlattenSeq(parts) \in Seq(W)
      /\ ToSet(FlattenSeq(parts)) = UNION {ToSet(parts[i]) : i \in 1 .. Len(seq)}
  BY ONLY <1>5, FlattenMembers
<1>7. \A x : (\E i \in 1 .. Len(seq) : x \in ToSet(parts[i])) <=> (\E k \in K : x \in ToSet(G[k]))
  BY <1>1, <1>4
<1>8. UNION {ToSet(parts[i]) : i \in 1 .. Len(seq)} = UNION {ToSet(G[k]) : k \in K}
  BY <1>7
<1> QED BY <1>6, <1>8 DEF parts, Collected

\* A loop that carries something from one position to the next.
Carries(N, X, base, step, f) ==
  f \in [0 .. N -> X] /\ f[0] = base /\ \A n \in 1 .. N : f[n] = step[<<n, f[n - 1]>>]

LEMMA LoopExists ==
  ASSUME NEW X, NEW base \in X, NEW N \in Nat, NEW step \in [(1 .. N) \X X -> X]
  PROVE  \E f : Carries(N, X, base, step, f)
<1> DEFINE Good(m, f) == f \in [0 .. m -> X] /\ f[0] = base /\ \A n \in 1 .. m : f[n] = step[<<n, f[n - 1]>>]
           S == {m \in Nat : m <= N => \E f : Good(m, f)}
<1>1. 0 \in S
  <2>1. Good(0, [n \in 0 .. 0 |-> base]) OBVIOUS
  <2> QED BY <2>1
<1>2. ASSUME NEW m \in Nat, m \in S PROVE m + 1 \in S
  <2>1. SUFFICES ASSUME m + 1 <= N PROVE \E f : Good(m + 1, f) OBVIOUS
  <2>2. PICK f : Good(m, f) BY <1>2, <2>1
  <2> DEFINE last == step[<<m + 1, f[m]>>]
             g == [n \in 0 .. m + 1 |-> IF n = m + 1 THEN last ELSE f[n]]
  <2>3. f[m] \in X /\ last \in X BY <2>1, <2>2
  <2>0. last = step[<<m + 1, f[m]>>] OBVIOUS
  <2> HIDE DEF last
  <2>4. g \in [0 .. m + 1 -> X] BY <2>2, <2>3
  <2>5. g[m + 1] = last /\ \A n \in 0 .. m : g[n] = f[n] OBVIOUS
  <2> HIDE DEF g
  <2>6. ASSUME NEW n \in 1 .. m + 1 PROVE g[n] = step[<<n, g[n - 1]>>]
    <3>1. CASE n = m + 1
      <4>1. n - 1 \in 0 .. m /\ g[n - 1] = f[m] BY <3>1, <2>5
      <4> QED BY <3>1, <4>1, <2>0, <2>5
    <3>2. CASE n # m + 1
      <4>1. n \in 1 .. m /\ n \in 0 .. m /\ n - 1 \in 0 .. m BY <3>2
      <4>2. g[n] = f[n] /\ g[n - 1] = f[n - 1] BY <4>1, <2>5
      <4> QED BY <4>1, <4>2, <2>2
    <3> QED BY <3>1, <3>2
  <2>7. g[0] = base BY <2>2, <2>5
  <2>8. Good(m + 1, g) BY <2>4, <2>6, <2>7
  <2> QED BY <2>8
<1> HIDE DEF S
<1>3. Nat \subseteq S BY ONLY <1>1, <1>2, Induction
<1>4. \E f : Good(N, f) BY <1>3 DEF S
<1> QED BY <1>4 DEF Carries

\* What only grows from one position to the next only grows.
LEMMA LoopGrows ==
  ASSUME NEW N \in Nat, NEW f, \A n \in 1 .. N : f[n - 1] \subseteq f[n]
  PROVE  \A m, n \in 0 .. N : m <= n => f[m] \subseteq f[n]
<1> DEFINE S == {k \in Nat : \A m, n \in 0 .. N : n = m + k => f[m] \subseteq f[n]}
<1>1. 0 \in S OBVIOUS
<1>2. ASSUME NEW k \in Nat, k \in S PROVE k + 1 \in S
  <2>1. SUFFICES ASSUME NEW m \in 0 .. N, NEW n \in 0 .. N, n = m + (k + 1) PROVE f[m] \subseteq f[n] OBVIOUS
  <2>2. n \in 1 .. N /\ n - 1 \in 0 .. N /\ n - 1 = m + k BY <2>1
  <2> QED BY <1>2, <2>2
<1> HIDE DEF S
<1>3. Nat \subseteq S BY ONLY <1>1, <1>2, Induction
<1>4. ASSUME NEW m \in 0 .. N, NEW n \in 0 .. N, m <= n PROVE f[m] \subseteq f[n]
  <2>1. n - m \in Nat /\ n = m + (n - m) BY <1>4
  <2> QED BY <1>3, <2>1 DEF S
<1> QED BY <1>4

\* What holds at the start and carries over holds at every position.
LEMMA LoopTyped ==
  ASSUME NEW X, NEW N \in Nat, NEW f, f[0] \in X, \A n \in 1 .. N : f[n - 1] \in X => f[n] \in X
  PROVE  \A n \in 0 .. N : f[n] \in X
<1> DEFINE S == {n \in Nat : n <= N => f[n] \in X}
<1>1. 0 \in S OBVIOUS
<1>2. ASSUME NEW n \in Nat, n \in S PROVE n + 1 \in S
  <2>1. SUFFICES ASSUME n + 1 <= N PROVE f[n + 1] \in X OBVIOUS
  <2>2. n + 1 \in 1 .. N /\ f[(n + 1) - 1] \in X BY <1>2, <2>1
  <2> QED BY <2>2
<1> HIDE DEF S
<1>3. Nat \subseteq S BY ONLY <1>1, <1>2, Induction
<1> QED BY <1>3 DEF S

-----------------------------------------------------------------------------
(* What the members of a sequence are to those before them                  *)

\* Every member is in relation R to every later one.
InOrder(s, R) == \A i, j \in DOMAIN s : i < j => <<s[i], s[j]>> \in R

\* One sequence after the other.
LEMMA ConcatInOrder ==
  ASSUME NEW W, NEW s \in Seq(W), NEW t \in Seq(W), NEW R, InOrder(s, R), InOrder(t, R),
         \A x \in ToSet(s), y \in ToSet(t) : <<x, y>> \in R
  PROVE  InOrder(s \o t, R)
<1> DEFINE u == s \o t
<1>1. /\ Len(u) = Len(s) + Len(t) /\ Len(s) \in Nat /\ Len(t) \in Nat
      /\ DOMAIN u = 1 .. Len(u) /\ DOMAIN s = 1 .. Len(s) /\ DOMAIN t = 1 .. Len(t)
      /\ \A i \in 1 .. Len(s) : u[i] = s[i]
      /\ \A i \in 1 .. Len(t) : u[Len(s) + i] = t[i]
  OBVIOUS
<1> HIDE DEF u
<1>2. \A i \in DOMAIN u : IF i <= Len(s) THEN i \in DOMAIN s /\ u[i] = s[i]
                          ELSE i - Len(s) \in DOMAIN t /\ u[i] = t[i - Len(s)]
  <2>1. SUFFICES ASSUME NEW i \in DOMAIN u, ~(i <= Len(s)) PROVE i - Len(s) \in DOMAIN t /\ u[i] = t[i - Len(s)]
    BY <1>1
  <2>2. i - Len(s) \in 1 .. Len(t) /\ Len(s) + (i - Len(s)) = i BY <1>1, <2>1
  <2> QED BY <1>1, <2>2
<1>3. ASSUME NEW i \in DOMAIN u, NEW j \in DOMAIN u, i < j PROVE <<u[i], u[j]>> \in R
  <2>0. i \in Nat /\ j \in Nat BY <1>1
  <2>1. CASE j <= Len(s)
    <3>1. i \in DOMAIN s /\ j \in DOMAIN s /\ u[i] = s[i] /\ u[j] = s[j] BY <1>1, <1>2, <1>3, <2>0, <2>1
    <3> QED BY <1>3, <3>1 DEF InOrder
  <2>2. CASE ~(i <= Len(s))
    <3>1. ~(j <= Len(s)) /\ i - Len(s) < j - Len(s) BY <1>1, <1>3, <2>0, <2>2
    <3>2. i - Len(s) \in DOMAIN t /\ j - Len(s) \in DOMAIN t /\ u[i] = t[i - Len(s)] /\ u[j] = t[j - Len(s)]
      BY <1>2, <2>2, <3>1
    <3> QED BY <3>1, <3>2 DEF InOrder
  <2>3. CASE i <= Len(s) /\ ~(j <= Len(s))
    <3>1. i \in DOMAIN s /\ u[i] = s[i] /\ j - Len(s) \in DOMAIN t /\ u[j] = t[j - Len(s)] BY <1>2, <2>3
    <3> QED BY <3>1 DEF ToSet
  <2> QED BY <2>1, <2>2, <2>3
<1> QED BY <1>3 DEF InOrder, u

\* All the sequences of a sequence, one after the other.
LEMMA FlattenInOrder ==
  ASSUME NEW W, NEW s \in Seq(Seq(W)), NEW R, \A i \in DOMAIN s : InOrder(s[i], R),
         \A i, j \in DOMAIN s : i < j => \A x \in ToSet(s[i]), y \in ToSet(s[j]) : <<x, y>> \in R
  PROVE  InOrder(FlattenSeq(s), R)
<1>0. DOMAIN s = 1 .. Len(s) /\ Len(s) \in Nat /\ \A i \in 1 .. Len(s) : s[i] \in Seq(W) OBVIOUS
<1>1. CASE Len(s) = 0
  <2>1. FlattenSeq(s) = <<>> BY <1>1, FlattenIsChained
  <2> QED BY <2>1 DEF InOrder
<1>2. CASE Len(s) # 0
  <2>1. PICK f : Chain(s, Len(s), f) /\ FlattenSeq(s) = f[Len(s)] BY <1>2, FlattenIsChained
  <2>3. \A i \in 1 .. Len(s) : f[i] = IF i = 1 THEN s[i] ELSE f[i - 1] \o s[i] BY <2>1 DEF Chain
  <2> DEFINE P(m) == /\ f[m] \in Seq(W) /\ InOrder(f[m], R)
                     /\ \A x \in ToSet(f[m]) : \E i \in 1 .. m : x \in ToSet(s[i])
             S == {m \in Nat : m \in 1 .. Len(s) => P(m)}
  <2>4. 0 \in S OBVIOUS
  <2>5. ASSUME NEW m \in Nat, m \in S PROVE m + 1 \in S
    <3>1. SUFFICES ASSUME m + 1 \in 1 .. Len(s) PROVE P(m + 1) OBVIOUS
    <3>2. CASE m = 0
      <4>1. f[m + 1] = s[m + 1] /\ m + 1 = 1 /\ m + 1 \in DOMAIN s /\ m + 1 \in 1 .. m + 1 BY <1>0, <2>3, <3>1, <3>2
      <4>2. f[m + 1] \in Seq(W) /\ InOrder(f[m + 1], R) BY <1>0, <4>1
      <4>3. \A x \in ToSet(f[m + 1]) : \E i \in 1 .. m + 1 : x \in ToSet(s[i]) BY <4>1
      <4> QED BY <4>2, <4>3
    <3>3. CASE m # 0
      <4>1. m \in 1 .. Len(s) /\ m + 1 # 1 /\ (m + 1) - 1 = m BY <1>0, <3>1, <3>3
      <4>2. P(m) BY <4>1, <2>5
      <4>3. f[m + 1] = f[m] \o s[m + 1] BY <4>1, <3>1, <2>3
      <4>4. \A x \in ToSet(f[m]), y \in ToSet(s[m + 1]) : <<x, y>> \in R
        <5>1. SUFFICES ASSUME NEW x \in ToSet(f[m]), NEW y \in ToSet(s[m + 1]) PROVE <<x, y>> \in R OBVIOUS
        <5>2. PICK i \in 1 .. m : x \in ToSet(s[i]) BY <4>2, <5>1
        <5>3. i \in DOMAIN s /\ m + 1 \in DOMAIN s /\ i < m + 1 BY <1>0, <3>1, <5>2
        <5> QED BY <5>1, <5>2, <5>3
      <4>5. s[m + 1] \in Seq(W) /\ InOrder(s[m + 1], R) BY <1>0, <3>1
      <4>6. f[m] \in Seq(W) /\ InOrder(f[m], R) BY <4>2
      <4>7. InOrder(f[m] \o s[m + 1], R) BY ONLY <4>4, <4>5, <4>6, ConcatInOrder
      <4>8. f[m] \o s[m + 1] \in Seq(W) /\ ToSet(f[m] \o s[m + 1]) = ToSet(f[m]) \cup ToSet(s[m + 1])
        BY ONLY <4>5, <4>6, ConcatMembers
      <4>9. \A x \in ToSet(f[m + 1]) : \E i \in 1 .. m + 1 : x \in ToSet(s[i])
        <5>1. 1 .. m + 1 = (1 .. m) \cup {m + 1} OBVIOUS
        <5> QED BY <4>2, <4>3, <4>8, <5>1
      <4> QED BY <4>3, <4>7, <4>8, <4>9
    <3> QED BY <3>2, <3>3
  <2> HIDE DEF S
  <2>6. Nat \subseteq S BY <2>4, <2>5, Induction
  <2>7. Len(s) \in 1 .. Len(s) BY <1>0, <1>2
  <2>8. P(Len(s)) BY <1>0, <2>6, <2>7 DEF S
  <2> QED BY <2>1, <2>8
<1> QED BY <1>1, <1>2

\* What is selected is in the order it was in.
LEMMA SelectInOrder ==
  ASSUME NEW W, NEW s \in Seq(W), NEW S, NEW R, InOrder(s, R)
  PROVE  InOrder(Select(s, S), R)
<1> DEFINE parts == [i \in DOMAIN s |-> IF i \in S THEN <<s[i]>> ELSE <<>>]
<1>1. DOMAIN s = 1 .. Len(s) /\ Len(s) \in Nat /\ \A i \in DOMAIN s : s[i] \in W OBVIOUS
<1>2. parts \in Seq(Seq(W)) /\ DOMAIN parts = DOMAIN s BY <1>1
<1>3. \A i \in DOMAIN s : InOrder(parts[i], R) BY DEF InOrder
<1>4. \A i \in DOMAIN s : \A x \in ToSet(parts[i]) : x = s[i] BY OfOne
<1>5. Select(s, S) = FlattenSeq(parts) BY DEF Select
<1> HIDE DEF parts
<1>6. \A i, j \in DOMAIN parts : i < j => \A x \in ToSet(parts[i]), y \in ToSet(parts[j]) : <<x, y>> \in R
  BY <1>2, <1>4 DEF InOrder
<1>7. \A i \in DOMAIN parts : InOrder(parts[i], R) BY <1>2, <1>3
<1>8. InOrder(FlattenSeq(parts), R) BY ONLY <1>2, <1>6, <1>7, FlattenInOrder
<1> QED BY <1>5, <1>8

\* Two members are never the same.
Distinct(s) == \A i, j \in DOMAIN s : i # j => s[i] # s[j]

\* Of a sequence without repetition neither has what is selected.
LEMMA SelectDistinct ==
  ASSUME NEW W, NEW s \in Seq(W), NEW S, Distinct(s)
  PROVE  Distinct(Select(s, S))
<1> DEFINE R == {r \in W \X W : r[1] # r[2]}
<1>0. \A x, y : <<x, y>> \in R <=> x \in W /\ y \in W /\ x # y OBVIOUS
<1> HIDE DEF R
<1>1. DOMAIN s = 1 .. Len(s) /\ \A i \in DOMAIN s : s[i] \in W OBVIOUS
<1>2. InOrder(s, R) BY <1>0, <1>1 DEF InOrder, Distinct
<1>3. InOrder(Select(s, S), R) BY <1>2, SelectInOrder
<1>4. Select(s, S) \in Seq(W) BY SelectMembers
<1>5. DOMAIN Select(s, S) = 1 .. Len(Select(s, S)) /\ Len(Select(s, S)) \in Nat BY <1>4
<1>6. ASSUME NEW i \in DOMAIN Select(s, S), NEW j \in DOMAIN Select(s, S), i # j
      PROVE  Select(s, S)[i] # Select(s, S)[j]
  <2>1. i < j \/ j < i BY <1>5, <1>6
  <2> QED BY <1>0, <1>3, <2>1 DEF InOrder
<1> QED BY <1>6 DEF Distinct

\* A loop that visits each item once, with a planner that returns at most one
\* operation.
LEMMA EachInOrder ==
  ASSUME NEW W, NEW K, NEW seq, Visited(seq, K), Distinct(seq), NEW G, Yields(G, K, W), NEW R,
         \A k, l \in K : k # l => \A x \in ToSet(G[k]), y \in ToSet(G[l]) : <<x, y>> \in R
  PROVE  InOrder(FlattenSeq(Each(seq, G)), R)
<1> DEFINE parts == Each(seq, G)
<1>0. parts = [i \in DOMAIN seq |-> G[seq[i]]] BY DEF Each
<1>1. DOMAIN seq = 1 .. Len(seq) /\ Len(seq) \in Nat /\ \A i \in DOMAIN seq : seq[i] \in K BY DEF Visited
<1>2. \A i \in DOMAIN seq : G[seq[i]] \in Seq(W) BY <1>1, OneOfFacts DEF Yields
<1> HIDE DEF parts
<1>3. parts \in [1 .. Len(seq) -> Seq(W)] BY <1>0, <1>1, <1>2
<1>4. parts \in Seq(Seq(W)) /\ DOMAIN parts = DOMAIN seq BY <1>1, <1>3
<1>5. \A i \in DOMAIN parts : parts[i] = G[seq[i]] BY <1>0
<1>6. \A i \in DOMAIN parts : InOrder(parts[i], R)
  <2>1. SUFFICES ASSUME NEW i \in DOMAIN parts PROVE InOrder(parts[i], R) OBVIOUS
  <2>2. parts[i] = <<>> \/ \E x \in W : parts[i] = <<x>> BY <1>1, <1>4, <1>5, <2>1 DEF Yields, OneOf
  <2>3. InOrder(<<>>, R) /\ \A x : InOrder(<<x>>, R) BY DEF InOrder
  <2> QED BY <2>2, <2>3
<1>7. \A i, j \in DOMAIN parts : i < j => \A x \in ToSet(parts[i]), y \in ToSet(parts[j]) : <<x, y>> \in R
  <2>1. SUFFICES ASSUME NEW i \in DOMAIN parts, NEW j \in DOMAIN parts, i < j
                 PROVE  \A x \in ToSet(parts[i]), y \in ToSet(parts[j]) : <<x, y>> \in R
    OBVIOUS
  <2>2. seq[i] \in K /\ seq[j] \in K /\ seq[i] # seq[j] BY <1>1, <1>4, <2>1 DEF Distinct
  <2> QED BY <1>5, <2>2
<1>8. InOrder(FlattenSeq(parts), R) BY ONLY <1>4, <1>6, <1>7, FlattenInOrder
<1> QED BY <1>8 DEF parts

\* What is left after the first member.
LEMMA TailInOrder ==
  ASSUME NEW W, NEW s \in Seq(W), s # <<>>, NEW R, InOrder(s, R)
  PROVE  InOrder(Tail(s), R) /\ \A y \in ToSet(Tail(s)) : <<Head(s), y>> \in R
<1>1. /\ DOMAIN s = 1 .. Len(s) /\ Len(s) \in Nat /\ Len(s) # 0 /\ Head(s) = s[1]
      /\ DOMAIN Tail(s) = 1 .. Len(s) - 1 /\ \A i \in 1 .. Len(s) - 1 : Tail(s)[i] = s[i + 1]
  OBVIOUS
<1>2. ASSUME NEW i \in DOMAIN Tail(s), NEW j \in DOMAIN Tail(s), i < j PROVE <<Tail(s)[i], Tail(s)[j]>> \in R
  <2>1. i + 1 \in DOMAIN s /\ j + 1 \in DOMAIN s /\ i + 1 < j + 1 /\ Tail(s)[i] = s[i + 1] /\ Tail(s)[j] = s[j + 1]
    BY <1>1, <1>2
  <2> QED BY <2>1 DEF InOrder
<1>3. ASSUME NEW y \in ToSet(Tail(s)) PROVE <<Head(s), y>> \in R
  <2>1. PICK i \in DOMAIN Tail(s) : Tail(s)[i] = y BY DEF ToSet
  <2>2. 1 \in DOMAIN s /\ i + 1 \in DOMAIN s /\ 1 < i + 1 /\ y = s[i + 1] BY <1>1, <2>1
  <2> QED BY <1>1, <2>2 DEF InOrder
<1> QED BY <1>2, <1>3 DEF InOrder

\* Where in a loop an item is visited.
Place(seq, k) == CHOOSE n \in DOMAIN seq : seq[n] = k

LEMMA PlaceFacts ==
  ASSUME NEW K, NEW seq, Visited(seq, K), Distinct(seq)
  PROVE  /\ \A k \in K : Place(seq, k) \in 1 .. Len(seq) /\ seq[Place(seq, k)] = k
         /\ \A n \in 1 .. Len(seq) : seq[n] \in K /\ Place(seq, seq[n]) = n
<1>1. DOMAIN seq = 1 .. Len(seq) /\ {seq[n] : n \in 1 .. Len(seq)} = K BY DEF Visited
<1>2. ASSUME NEW k \in K PROVE Place(seq, k) \in 1 .. Len(seq) /\ seq[Place(seq, k)] = k
  <2>1. \E n \in DOMAIN seq : seq[n] = k BY <1>1
  <2> QED BY <1>1, <2>1 DEF Place
<1>3. ASSUME NEW n \in 1 .. Len(seq) PROVE seq[n] \in K /\ Place(seq, seq[n]) = n
  <2>1. seq[n] \in K BY <1>1
  <2> QED BY <1>1, <1>2, <2>1 DEF Distinct
<1> QED BY <1>2, <1>3
=============================================================================
