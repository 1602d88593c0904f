-------------------------------- MODULE Replays --------------------------------
(***************************************************************************)
(* A replay starts from what a document c says and applies one step after  *)
(* the other: the mutations of the journal to the authorization rows, the  *)
(* transitions to the shared objects, the actions to the artifacts, the    *)
(* parents of what was found to what was found.  A replay is what its      *)
(* recursive definition says, whatever is applied.                         *)
(***************************************************************************)
EXTENDS Integers, WellFoundedInduction, TLAPS

CONSTANTS
    Start(_),       \* what the replay of a document starts from
    Apply(_, _, _)  \* the k-th step of the document, applied to what was left

\* What is left after each number of steps.
Replayed(c) ==
    LET left[k \in Nat] == IF k = 0 THEN Start(c) ELSE Apply(c, left[k - 1], k)
    IN left

\* Every set of numbers has a least member.  (The library's induction theorems
\* have an operator parameter; induction is done here by the least counterexample.)
LEMMA LeastNat ==
    ASSUME NEW T, T \subseteq Nat, T # {}
    PROVE  \E m \in T : \A k \in T : m <= k
  <1> DEFINE R == OpToRel(<, Nat)
  <1>1. IsWellFoundedOn(R, Nat)
    BY NatLessThanWellFounded
  <1>2. \A x, y \in Nat : x < y => <<x, y>> \in R
    BY DEF OpToRel
  <1> HIDE DEF R
  <1>3. PICK x \in T : \A y \in T : ~(<<y, x>> \in R)
    BY <1>1, WFMin
  <1>4. \A k \in T : ~(k < x)
    BY <1>2, <1>3
  <1>5. x \in Nat /\ \A k \in T : k \in Nat
    OBVIOUS
  <1> QED BY <1>4, <1>5

\* g replays the first n steps of c.
Replays(c, g, n) ==
    g = [k \in 0..n |-> IF k = 0 THEN Start(c) ELSE Apply(c, g[k - 1], k)]

\* Two replays agree as far as both go.
LEMMA ReplaysUnique ==
    ASSUME NEW c, NEW m \in Nat, NEW n \in Nat, NEW g, NEW h,
           Replays(c, g, m), Replays(c, h, n)
    PROVE  \A k \in Nat : k <= m /\ k <= n => g[k] = h[k]
  <1> DEFINE T == {k \in Nat : k <= m /\ k <= n /\ g[k] # h[k]}
  <1>0. SUFFICES ASSUME T # {} PROVE FALSE
    OBVIOUS
  <1>1. PICK k \in T : \A j \in T : k <= j
    <2> T \subseteq Nat OBVIOUS
    <2> HIDE DEF T
    <2> QED BY <1>0, LeastNat
  <1>2. k \in 0..m /\ k \in 0..n
    OBVIOUS
  <1>3. /\ g[k] = IF k = 0 THEN Start(c) ELSE Apply(c, g[k - 1], k)
        /\ h[k] = IF k = 0 THEN Start(c) ELSE Apply(c, h[k - 1], k)
    BY <1>2 DEF Replays
  <1>4. k # 0
    BY <1>3
  <1>5. k - 1 \notin T /\ k - 1 \in Nat
    BY <1>1, <1>4
  <1>6. g[k - 1] = h[k - 1]
    BY <1>2, <1>5
  <1> QED BY <1>3, <1>6

\* There is a replay of any length.
LEMMA ReplaysExist ==
    ASSUME NEW c, NEW n \in Nat
    PROVE  \E g : Replays(c, g, n)
  <1> DEFINE T == {k \in Nat : ~\E g : Replays(c, g, k)}
  <1>0. SUFFICES ASSUME T # {} PROVE FALSE
    OBVIOUS
  <1>1. PICK k \in T : \A j \in T : k <= j
    <2> T \subseteq Nat OBVIOUS
    <2> HIDE DEF T
    <2> QED BY <1>0, LeastNat
  <1>2. k \in Nat /\ ~\E g : Replays(c, g, k)
    OBVIOUS
  <1>3. CASE k = 0
    <2> DEFINE g == [j \in 0..0 |-> Start(c)]
    <2>1. Replays(c, g, 0)
      BY DEF Replays
    <2> QED BY <1>2, <1>3, <2>1
  <1>4. CASE k # 0
    <2>1. k - 1 \in Nat /\ k - 1 \notin T
      BY <1>1, <1>4
    <2>2. PICK g : Replays(c, g, k - 1)
      BY <2>1
    <2> DEFINE h == [j \in 0..k |-> IF j = k THEN Apply(c, g[k - 1], k) ELSE g[j]]
    <2>3. \A j \in 0..(k - 1) : g[j] = IF j = 0 THEN Start(c) ELSE Apply(c, g[j - 1], j)
      BY <2>2 DEF Replays
    <2>4. \A j \in 0..k : h[j] = IF j = 0 THEN Start(c) ELSE Apply(c, h[j - 1], j)
      <3> SUFFICES ASSUME NEW j \in 0..k
                   PROVE h[j] = IF j = 0 THEN Start(c) ELSE Apply(c, h[j - 1], j)
        OBVIOUS
      <3>1. CASE j = k
        <4>1. h[j] = Apply(c, g[k - 1], k) /\ h[k - 1] = g[k - 1]
          BY <3>1, <1>2, <1>4
        <4> QED BY <4>1, <3>1, <1>4
      <3>2. CASE j # k
        <4>1. j \in 0..(k - 1) /\ h[j] = g[j]
          BY <3>2, <1>2
        <4>2. j # 0 => j - 1 \in 0..k /\ j - 1 # k /\ h[j - 1] = g[j - 1]
          BY <3>2, <1>2
        <4> QED BY <4>1, <4>2, <2>3
      <3> QED BY <3>1, <3>2
    <2>5. Replays(c, h, k)
      <3> DEFINE b == [j \in 0..k |-> IF j = 0 THEN Start(c) ELSE Apply(c, h[j - 1], j)]
      <3>1. DOMAIN h = 0..k /\ DOMAIN b = 0..k
        OBVIOUS
      <3>2. \A j \in 0..k : h[j] = b[j]
        BY <2>4
      <3>3. h = b
        BY <3>1, <3>2
      <3> QED BY <3>3 DEF Replays
    <2> QED BY <1>2, <2>5
  <1> QED BY <1>3, <1>4

(* No step leaves what the replay starts from, and one more step is applied to
   what those before it left: the recursive function exists and obeys its equation. *)
LEMMA ReplayStep ==
    ASSUME NEW c
    PROVE  /\ Replayed(c)[0] = Start(c)
           /\ \A n \in Nat : Replayed(c)[n + 1] = Apply(c, Replayed(c)[n], n + 1)
  <1> DEFINE Body(f) == [k \in Nat |-> IF k = 0 THEN Start(c) ELSE Apply(c, f[k - 1], k)]
             left == CHOOSE f : f = Body(f)
  <1>1. \E f : f = Body(f)
    <2> DEFINE g(n) == CHOOSE g : Replays(c, g, n)
               f == [n \in Nat |-> g(n)[n]]
    <2>1. \A n \in Nat : Replays(c, g(n), n)
      BY ReplaysExist
    <2> HIDE DEF g
    <2>2. \A n \in Nat : f[n] = IF n = 0 THEN Start(c) ELSE Apply(c, f[n - 1], n)
      <3> SUFFICES ASSUME NEW n \in Nat
                   PROVE f[n] = IF n = 0 THEN Start(c) ELSE Apply(c, f[n - 1], n)
        OBVIOUS
      <3>1. g(n)[n] = IF n = 0 THEN Start(c) ELSE Apply(c, g(n)[n - 1], n)
        <4>1. n \in 0..n OBVIOUS
        <4> QED BY <2>1, <4>1 DEF Replays
      <3>2. n # 0 => g(n)[n - 1] = g(n - 1)[n - 1]
        BY <2>1, ReplaysUnique
      <3> QED BY <3>1, <3>2
    <2>3. f = Body(f)
      BY <2>2
    <2> QED BY <2>3
  <1>2. left = Body(left)
    BY <1>1
  <1>3. Replayed(c) = left
    BY DEF Replayed
  <1> HIDE DEF left
  <1>4. \A n \in Nat : left[n] = IF n = 0 THEN Start(c) ELSE Apply(c, left[n - 1], n)
    BY <1>2
  <1> HIDE DEF Body
  <1> QED BY <1>3, <1>4

\* The replay looks at no step beyond those it replays.
LEMMA ReplaySame ==
    ASSUME NEW c, NEW d, NEW n \in Nat, Start(c) = Start(d),
           \A k \in 1..n : \A left : Apply(c, left, k) = Apply(d, left, k)
    PROVE  Replayed(c)[n] = Replayed(d)[n]
  <1> DEFINE T == {k \in Nat : k <= n /\ Replayed(c)[k] # Replayed(d)[k]}
  <1>0. SUFFICES ASSUME T # {} PROVE FALSE
    OBVIOUS
  <1>1. PICK k \in T : \A j \in T : k <= j
    <2> T \subseteq Nat
      OBVIOUS
    <2> HIDE DEF T
    <2> QED BY <1>0, LeastNat
  <1>2. k # 0
    BY ReplayStep
  <1>3. k - 1 \in Nat /\ k - 1 \notin T /\ k \in 1..n
    BY <1>1, <1>2
  <1>4. Replayed(c)[k - 1] = Replayed(d)[k - 1]
    BY <1>3
  <1>5. k = (k - 1) + 1
    OBVIOUS
  <1>6. /\ Replayed(c)[k] = Apply(c, Replayed(c)[k - 1], k)
        /\ Replayed(d)[k] = Apply(d, Replayed(d)[k - 1], k)
    BY <1>3, <1>5, ReplayStep
  <1> QED BY <1>3, <1>4, <1>6

\* What is closed under the steps holds all that is ever left.
LEMMA ReplayWithin ==
    ASSUME NEW c, NEW S, Start(c) \in S,
           \A left \in S : \A k \in Nat : Apply(c, left, k + 1) \in S
    PROVE  \A n \in Nat : Replayed(c)[n] \in S
  <1> DEFINE T == {k \in Nat : Replayed(c)[k] \notin S}
  <1>0. SUFFICES ASSUME T # {} PROVE FALSE
    OBVIOUS
  <1>1. PICK k \in T : \A j \in T : k <= j
    <2> T \subseteq Nat
      OBVIOUS
    <2> HIDE DEF T
    <2> QED BY <1>0, LeastNat
  <1>2. k # 0
    BY ReplayStep
  <1>3. k - 1 \in Nat /\ (k - 1) + 1 = k /\ Replayed(c)[k - 1] \in S
    BY <1>1, <1>2
  <1> QED BY <1>3, ReplayStep
=============================================================================
