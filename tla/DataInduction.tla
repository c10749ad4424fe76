---------------------------- MODULE DataInduction ----------------------------
(***************************************************************************)
(* Lemmas for what is computed step by step: induction over the naturals,  *)
(* with a set in place of a predicate, so that the provers can use it; the *)
(* function that a recursion over the naturals defines; the greatest of a  *)
(* set; and the values a fold passes through.                              *)
(***************************************************************************)
EXTENDS Integers, FiniteSetsExt, WellFoundedInduction, TLAPS

LEMMA Induction ==
  ASSUME NEW S, S \subseteq Nat, 0 \in S, \A n \in S : n + 1 \in S
  PROVE  S = Nat
<1>. SUFFICES ASSUME Nat \ S # {} PROVE FALSE
  OBVIOUS
<1>. DEFINE Less == {p \in Nat \X Nat : p[1] < p[2]}
<1>1. IsWellFoundedOn(Less, Nat)
  BY NatLessThanWellFounded DEF OpToRel
<1>2. \E n \in Nat \ S : \A m \in Nat \ S : ~ (<<m, n>> \in Less)
  <2>. HIDE DEF Less
  <2>. QED
    BY <1>1, WFMin
<1>3. PICK n \in Nat \ S : \A m \in Nat \ S : ~ (<<m, n>> \in Less)
  BY <1>2
<1>4. n # 0 /\ n - 1 \in Nat /\ <<n - 1, n>> \in Less
  OBVIOUS
<1>5. n - 1 \in S
  BY <1>3, <1>4
<1>. QED
  BY <1>4, <1>5

----------------------------------------------------------------------------
(* A recursion over the naturals: f[n + 1] = next[n][f[n]]                 *)

Follows(f, m, first, next) ==
  /\ f[0] = first
  /\ \A k \in 0 .. m - 1 : f[k + 1] = next[k][f[k]]

LEMMA FollowsUnique ==
  ASSUME NEW first, NEW next, NEW m \in Nat, NEW n \in Nat, NEW f, NEW g,
         Follows(f, m, first, next), Follows(g, n, first, next)
  PROVE  \A k \in Nat : k <= m /\ k <= n => f[k] = g[k]
<1>. DEFINE S == {k \in Nat : k <= m /\ k <= n => f[k] = g[k]}
<1>1. 0 \in S
  BY DEF Follows
<1>2. ASSUME NEW k \in S PROVE k + 1 \in S
  <2>. SUFFICES ASSUME k + 1 <= m, k + 1 <= n PROVE f[k + 1] = g[k + 1]
    OBVIOUS
  <2>1. k \in 0 .. m - 1 /\ k \in 0 .. n - 1
    OBVIOUS
  <2>2. f[k] = g[k]
    OBVIOUS
  <2>3. f[k + 1] = next[k][f[k]] /\ g[k + 1] = next[k][g[k]]
    BY <2>1 DEF Follows
  <2>. QED
    BY <2>2, <2>3
<1>3. S = Nat
  <2>. HIDE DEF S
  <2>1. S \subseteq Nat
    BY DEF S
  <2>. QED
    BY <1>1, <1>2, <2>1, Induction
<1>. QED
  BY <1>3

LEMMA FollowsLonger ==
  ASSUME NEW V, NEW first \in V, NEW next \in [Nat -> [V -> V]], NEW m \in Nat,
         NEW f \in [0 .. m -> V], Follows(f, m, first, next)
  PROVE  \E g \in [0 .. m + 1 -> V] : Follows(g, m + 1, first, next)
<1>. DEFINE last == next[m][f[m]]
            g == [k \in 0 .. m + 1 |-> IF k = m + 1 THEN last ELSE f[k]]
<1>1. last \in V
  <2>1. m \in 0 .. m /\ f[m] \in V
    OBVIOUS
  <2>. QED
    BY <2>1
<1>. HIDE DEF last
<1>2. \A k \in 0 .. m : k \in 0 .. m + 1 /\ k # m + 1
  OBVIOUS
<1>3. \A k \in 0 .. m + 1 : k # m + 1 => k \in 0 .. m
  OBVIOUS
<1>4. g \in [0 .. m + 1 -> V]
  BY <1>1, <1>3
<1>5. g[m + 1] = last /\ \A k \in 0 .. m : g[k] = f[k]
  BY <1>2
<1>. HIDE DEF g
<1>6. ASSUME NEW k \in 0 .. (m + 1) - 1 PROVE g[k + 1] = next[k][g[k]]
  <2>1. k \in 0 .. m
    OBVIOUS
  <2>2. CASE k = m
    BY <1>5, <2>1, <2>2 DEF last
  <2>3. CASE k # m
    <3>1. k \in 0 .. m - 1 /\ k + 1 \in 0 .. m
      BY <2>1, <2>3
    <3>2. f[k + 1] = next[k][f[k]]
      BY <3>1 DEF Follows
    <3>. QED
      BY <1>5, <2>1, <3>1, <3>2
  <2>. QED
    BY <2>2, <2>3
<1>7. g[0] = first
  <2>1. 0 \in 0 .. m
    OBVIOUS
  <2>. QED
    BY <1>5, <2>1 DEF Follows
<1>. QED
  BY <1>4, <1>6, <1>7 DEF Follows

LEMMA FollowsExists ==
  ASSUME NEW V, NEW first \in V, NEW next \in [Nat -> [V -> V]], NEW n \in Nat
  PROVE  \E f \in [0 .. n -> V] : Follows(f, n, first, next)
<1>. DEFINE S == {m \in Nat : \E f \in [0 .. m -> V] : Follows(f, m, first, next)}
<1>1. 0 \in S
  <2>1. [k \in 0 .. 0 |-> first] \in [0 .. 0 -> V]
    OBVIOUS
  <2>2. Follows([k \in 0 .. 0 |-> first], 0, first, next)
    BY DEF Follows
  <2>. QED
    BY <2>1, <2>2
<1>2. ASSUME NEW m \in S PROVE m + 1 \in S
  <2>1. m \in Nat /\ m + 1 \in Nat
    OBVIOUS
  <2>2. PICK f \in [0 .. m -> V] : Follows(f, m, first, next)
    OBVIOUS
  <2>3. \E g \in [0 .. m + 1 -> V] : Follows(g, m + 1, first, next)
    BY <2>1, <2>2, FollowsLonger
  <2>. QED
    BY <2>1, <2>3
<1>3. S = Nat
  <2>. HIDE DEF S
  <2>1. S \subseteq Nat
    BY DEF S
  <2>. QED
    BY <1>1, <1>2, <2>1, Induction
<1>. QED
  BY <1>3

Computes(f, first, next) == f[0] = first /\ \A k \in Nat : f[k + 1] = next[k][f[k]]

LEMMA Recursion ==
  ASSUME NEW V, NEW first \in V, NEW next \in [Nat -> [V -> V]]
  PROVE  \E f \in [Nat -> V] : Computes(f, first, next)
<1>. DEFINE Part(n) == CHOOSE f \in [0 .. n -> V] : Follows(f, n, first, next)
            f == [n \in Nat |-> Part(n)[n]]
<1>1. \A n \in Nat : Part(n) \in [0 .. n -> V] /\ Follows(Part(n), n, first, next)
  BY FollowsExists
<1>. HIDE DEF Part
<1>2. f \in [Nat -> V]
  BY <1>1
<1>3. f[0] = first
  BY <1>1 DEF Follows
<1>4. ASSUME NEW k \in Nat PROVE f[k + 1] = next[k][f[k]]
  <2>1. \A i \in 0 .. (k + 1) - 1 : Part(k + 1)[i + 1] = next[i][Part(k + 1)[i]]
    <3>1. k + 1 \in Nat
      OBVIOUS
    <3>. QED
      BY <1>1, <3>1 DEF Follows
  <2>2. Part(k + 1)[k + 1] = next[k][Part(k + 1)[k]]
    <3>1. k \in 0 .. (k + 1) - 1
      OBVIOUS
    <3>. QED
      BY <2>1, <3>1
  <2>3. Part(k + 1)[k] = Part(k)[k]
    <3>1. Follows(Part(k + 1), k + 1, first, next) /\ Follows(Part(k), k, first, next)
      BY <1>1
    <3>. QED
      BY <3>1, FollowsUnique
  <2>4. f[k] = Part(k)[k] /\ f[k + 1] = Part(k + 1)[k + 1]
    OBVIOUS
  <2>. QED
    BY <2>2, <2>3, <2>4
<1>. HIDE DEF f
<1>. QED
  BY <1>2, <1>3, <1>4 DEF Computes

----------------------------------------------------------------------------
(* The least of a set and the greatest of a bounded one                    *)

LEMMA HasLeast ==
  ASSUME NEW S, S \subseteq Nat, S # {}
  PROVE  \E x \in S : \A y \in S : x <= y
<1>. SUFFICES ASSUME ~ \E x \in S : \A y \in S : x <= y PROVE FALSE
  OBVIOUS
<1>. DEFINE T == {n \in Nat : \A x \in S : n <= x}
<1>1. T = Nat
  <2>1. 0 \in T
    OBVIOUS
  <2>2. \A n \in T : n + 1 \in T
    OBVIOUS
  <2>. HIDE DEF T
  <2>3. T \subseteq Nat
    BY DEF T
  <2>. QED
    BY <2>1, <2>2, <2>3, Induction
<1>2. PICK x \in S : TRUE
  OBVIOUS
<1>3. x + 1 \in T
  BY <1>1
<1>. QED
  BY <1>2, <1>3

LEMMA HasGreatest ==
  ASSUME NEW S, S \subseteq Nat, S # {}, NEW n \in Nat, \A x \in S : x <= n
  PROVE  Max(S) \in S /\ \A x \in S : x <= Max(S)
<1>. DEFINE T == {k \in Nat : \A x \in S : x <= n - k}
            E == \E x \in S : \A y \in S : x >= y
<1>1. SUFFICES E
  BY DEF Max
<1>2. SUFFICES ASSUME ~ E PROVE FALSE
  OBVIOUS
<1>3. 0 \in T
  OBVIOUS
<1>4. ASSUME NEW k \in T PROVE k + 1 \in T
  <2>1. n - k \notin S
    BY <1>2
  <2>. QED
    BY <2>1
<1>5. T = Nat
  <2>1. T \subseteq Nat
    OBVIOUS
  <2>. HIDE DEF T
  <2>. QED
    BY <1>3, <1>4, <2>1, Induction
<1>6. n + 1 \in T
  BY <1>5
<1>7. PICK x \in S : TRUE
  OBVIOUS
<1>8. x \in Nat /\ x <= n - (n + 1)
  BY <1>6, <1>7
<1>. QED
  BY <1>8

LEMMA MaxUnique ==
  ASSUME NEW S, S \subseteq Nat, NEW m \in S, \A x \in S : x <= m
  PROVE  Max(S) = m
<1>1. Max(S) \in S /\ \A x \in S : x <= Max(S)
  <2>1. m \in Nat /\ S # {}
    OBVIOUS
  <2>. QED
    BY <2>1, HasGreatest
<1>2. Max(S) \in Nat /\ m \in Nat /\ Max(S) <= m /\ m <= Max(S)
  BY <1>1
<1>. QED
  BY <1>2

----------------------------------------------------------------------------
(* MapThenFoldSet over 1 .. n that takes the greatest, as FoldLeft does:   *)
(* op[k][v] is what the step with index k makes of v.                      *)

\* What a fold of the subset s has after each of the first indices.
PassStep(s, op, V) ==
  [k \in Nat |-> [v \in V |-> IF k + 1 \in s THEN op[k + 1][v] ELSE v]]

Passes(f, s, base, op) ==
  /\ f[0] = base
  /\ \A k \in Nat : f[k + 1] = IF k + 1 \in s THEN op[k + 1][f[k]] ELSE f[k]

UpTo(s, m) == \A k \in Nat : k \in s => k <= m
Without(t, s, m) == \A k \in Nat : k \in t <=> k \in s /\ k # m

LEMMA PassesExists ==
  ASSUME NEW n \in Nat, NEW V, NEW base \in V, NEW op \in [1 .. n -> [V -> V]],
         NEW s \in SUBSET (1 .. n)
  PROVE  \E f \in [Nat -> V] : Passes(f, s, base, op)
<1>. DEFINE step == PassStep(s, op, V)
<1>1. step \in [Nat -> [V -> V]]
  <2>1. ASSUME NEW k \in Nat, NEW v \in V
        PROVE  (IF k + 1 \in s THEN op[k + 1][v] ELSE v) \in V
    <3>1. CASE k + 1 \in s
      <4>1. k + 1 \in 1 .. n
        BY <3>1
      <4>. QED
        BY <3>1, <4>1
    <3>. QED
      BY <3>1
  <2>. QED
    BY <2>1 DEF PassStep
<1>2. \A k \in Nat, v \in V : step[k][v] = IF k + 1 \in s THEN op[k + 1][v] ELSE v
  BY DEF PassStep
<1>. HIDE DEF step
<1>3. PICK f \in [Nat -> V] : Computes(f, base, step)
  BY <1>1, Recursion
<1>4. ASSUME NEW k \in Nat PROVE f[k + 1] = IF k + 1 \in s THEN op[k + 1][f[k]] ELSE f[k]
  <2>1. f[k] \in V
    OBVIOUS
  <2>2. step[k][f[k]] = IF k + 1 \in s THEN op[k + 1][f[k]] ELSE f[k]
    BY <1>2, <2>1
  <2>. QED
    BY <1>3, <2>2 DEF Computes
<1>5. Passes(f, s, base, op)
  BY <1>3, <1>4 DEF Passes, Computes
<1>. QED
  BY <1>5

\* Two folds agree as long as they have had the same indices.
LEMMA PassesAgree ==
  ASSUME NEW s, NEW t, NEW base, NEW op, NEW f, NEW g, NEW m \in Nat,
         Passes(f, s, base, op), Passes(g, t, base, op),
         \A k \in Nat : k <= m => (k \in s <=> k \in t)
  PROVE  f[m] = g[m]
<1>. DEFINE S == {k \in Nat : k <= m => f[k] = g[k]}
<1>1. 0 \in S
  BY DEF Passes
<1>2. ASSUME NEW k \in S PROVE k + 1 \in S
  <2>1. k \in Nat /\ k + 1 \in Nat
    OBVIOUS
  <2>2. ASSUME k + 1 <= m PROVE f[k + 1] = g[k + 1]
    <3>1. f[k] = g[k]
      BY <2>1, <2>2
    <3>2. k + 1 \in s <=> k + 1 \in t
      BY <2>1, <2>2
    <3>3. f[k + 1] = IF k + 1 \in s THEN op[k + 1][f[k]] ELSE f[k]
      BY <2>1 DEF Passes
    <3>4. g[k + 1] = IF k + 1 \in t THEN op[k + 1][g[k]] ELSE g[k]
      BY <2>1 DEF Passes
    <3>. QED
      BY <3>1, <3>2, <3>3, <3>4, Zenon
  <2>. QED
    BY <2>1, <2>2
<1>3. S = Nat
  <2>1. S \subseteq Nat
    OBVIOUS
  <2>. HIDE DEF S
  <2>. QED
    BY <1>1, <1>2, <2>1, Induction
<1>. QED
  BY <1>3

\* A fold that has had all its indices does not change.
LEMMA PassesRests ==
  ASSUME NEW s, NEW base, NEW op, NEW f, Passes(f, s, base, op),
         NEW m \in Nat, NEW n \in Nat, m <= n, UpTo(s, m)
  PROVE  f[n] = f[m]
<1>. DEFINE S == {k \in Nat : f[m + k] = f[m]}
<1>1. 0 \in S
  OBVIOUS
<1>2. ASSUME NEW k \in S PROVE k + 1 \in S
  <2>1. k \in Nat /\ m + k \in Nat /\ m + (k + 1) = (m + k) + 1 /\ ~ ((m + k) + 1 <= m)
    OBVIOUS
  <2>2. (m + k) + 1 \notin s
    BY <2>1 DEF UpTo
  <2>3. f[(m + k) + 1] = f[m + k]
    BY <2>1, <2>2 DEF Passes
  <2>. QED
    BY <2>1, <2>3
<1>3. S = Nat
  <2>1. S \subseteq Nat
    OBVIOUS
  <2>. HIDE DEF S
  <2>. QED
    BY <1>1, <1>2, <2>1, Induction
<1>4. n - m \in Nat /\ m + (n - m) = n
  OBVIOUS
<1>5. f[m + (n - m)] = f[m]
  BY <1>3, <1>4
<1>. QED
  BY <1>4, <1>5

\* A fold ends with the step of its greatest index.
LEMMA PassesLast ==
  ASSUME NEW n \in Nat, NEW s, NEW t, NEW m, m \in 1 .. n, NEW base, NEW op, NEW f, NEW g,
         m \in s, UpTo(s, m), Without(t, s, m),
         Passes(f, s, base, op), Passes(g, t, base, op)
  PROVE  f[n] = op[m][g[n]]
<1>1. m \in Nat /\ m - 1 \in Nat /\ m <= n /\ m - 1 <= n /\ (m - 1) + 1 = m
  OBVIOUS
<1>2. f[n] = f[m]
  BY <1>1, PassesRests
<1>3. \A k \in Nat : k <= m - 1 => (k \in s <=> k \in t)
  BY <1>1 DEF Without
<1>7. UpTo(t, m - 1)
  <2>1. \A k \in Nat : k \in t => k <= m - 1
    BY <1>1 DEF UpTo, Without
  <2>. QED
    BY <2>1 DEF UpTo
<1>4. g[n] = g[m - 1]
  BY <1>1, <1>7, PassesRests
<1>6. f[m - 1] = g[m - 1]
  BY <1>1, <1>3, PassesAgree
<1>5. f[(m - 1) + 1] = IF (m - 1) + 1 \in s THEN op[(m - 1) + 1][f[m - 1]] ELSE f[m - 1]
  BY <1>1 DEF Passes
<1>. QED
  BY <1>1, <1>2, <1>4, <1>5, <1>6

FoldsTo(it, n, base, op) ==
  \A s \in SUBSET (1 .. n) :
    it[s] = IF s = {} THEN base ELSE op[Max(s)][it[s \ {Max(s)}]]

LEMMA FoldExists ==
  ASSUME NEW n \in Nat, NEW V, NEW base \in V, NEW op \in [1 .. n -> [V -> V]]
  PROVE  \E it \in [SUBSET (1 .. n) -> V] : FoldsTo(it, n, base, op)
<1>. DEFINE Of(s) == CHOOSE f \in [Nat -> V] : Passes(f, s, base, op)
            it == [s \in SUBSET (1 .. n) |-> Of(s)[n]]
<1>1. \A s \in SUBSET (1 .. n) : Of(s) \in [Nat -> V] /\ Passes(Of(s), s, base, op)
  BY PassesExists
<1>. HIDE DEF Of
<1>2. it \in [SUBSET (1 .. n) -> V]
  BY <1>1
<1>3. ASSUME NEW s \in SUBSET (1 .. n), s = {} PROVE it[s] = base
  <2>1. Of(s)[n] = Of(s)[0]
    <3>1. UpTo(s, 0)
      BY <1>3 DEF UpTo
    <3>. QED
      BY <1>1, <3>1, PassesRests
  <2>. QED
    BY <1>1, <2>1 DEF Passes
<1>4. ASSUME NEW s \in SUBSET (1 .. n), s # {}
      PROVE  it[s] = op[Max(s)][it[s \ {Max(s)}]]
  <2>1. Max(s) \in s /\ \A x \in s : x <= Max(s)
    <3>1. s \subseteq Nat /\ \A x \in s : x <= n
      OBVIOUS
    <3>. QED
      BY <1>4, <3>1, HasGreatest
  <2>. DEFINE t == s \ {Max(s)}
  <2>2. ASSUME NEW m, m = Max(s), NEW f, NEW g, Passes(f, s, base, op), Passes(g, t, base, op)
        PROVE  f[n] = op[m][g[n]]
    <3>1. m \in 1 .. n /\ m \in s /\ \A x \in s : x <= m
      BY <2>1, <2>2
    <3>2. Without(t, s, m)
      BY <2>2, <3>1 DEF Without
    <3>3. UpTo(s, m)
      BY <3>1 DEF UpTo
    <3>. HIDE DEF t, it
    <3>. QED
      BY <2>2, <3>1, <3>2, <3>3, PassesLast
  <2>3. t \in SUBSET (1 .. n)
    OBVIOUS
  <2>. HIDE DEF t
  <2>4. Of(s)[n] = op[Max(s)][Of(t)[n]]
    BY <1>1, <2>2, <2>3
  <2>5. it[s] = Of(s)[n] /\ it[t] = Of(t)[n]
    BY <2>3
  <2>. HIDE DEF it
  <2>6. it[s] = op[Max(s)][it[t]]
    BY <2>4, <2>5
  <2>. QED
    BY <2>6 DEF t
<1>. HIDE DEF it
<1>5. FoldsTo(it, n, base, op)
  BY <1>3, <1>4 DEF FoldsTo
<1>. QED
  BY <1>2, <1>5

\* The indices a fold has had after k steps.
LEMMA Prefix ==
  ASSUME NEW n \in Nat, NEW k \in 1 .. n
  PROVE  /\ 1 .. k \in SUBSET (1 .. n) /\ 1 .. k # {}
         /\ Max(1 .. k) = k
         /\ (1 .. k) \ {k} = 1 .. (k - 1)
<1>1. 1 .. k \subseteq Nat /\ k \in 1 .. k /\ \A x \in 1 .. k : x <= k
  OBVIOUS
<1>2. Max(1 .. k) = k
  BY <1>1, MaxUnique
<1>. QED
  BY <1>1, <1>2
=============================================================================
