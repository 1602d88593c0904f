---------------------------- MODULE AnalyzerProofs ----------------------------
(***************************************************************************)
(* Proofs about the analyzers, for every set of documents that they        *)
(* accept as valid and not only those that the evaluations' edits reach.   *)
(***************************************************************************)
EXTENDS MCAnalyzers, Sequences, FiniteSetTheorems, TLAPS

\* The result is the evaluation of the documents as they are.
ResultCurrent == result = EvaluateBy(analyzer, ctx)

(* Every step evaluates the documents it leaves behind. *)
LEMMA ResultFollows == Spec => []ResultCurrent
  <1>1. Init => ResultCurrent
    BY DEF Init, ResultCurrent
  <1>2. ResultCurrent /\ [Next]_vars => ResultCurrent'
    BY DEF ResultCurrent, Next, Drift, Reapprove, Redeclare, Evaluated, vars
  <1> QED BY <1>1, <1>2, PTL DEF Spec

-----------------------------------------------------------------------------
(* Replays and walks: what their recursive definitions say.               *)

\* The k-th transition, applied to what those before it left.
StateStart(c) == State!Start(c)
StateStep(c, left, k) == State!Replay(c, left, State!Ordered(c)[k])
StateReplay == INSTANCE Replays WITH Start <- StateStart, Apply <- StateStep

\* No transition leaves the objects as the manifest has them, and one more is one
\* more step.
LEMMA StateReplayStep ==
    ASSUME NEW c
    PROVE  /\ State!After(c, 0) = State!Start(c)
           /\ \A n \in Nat : State!After(c, n + 1) = StateStep(c, State!After(c, n), n + 1)
  <1>1. \A n : State!After(c, n) = StateReplay!Replayed(c)[n]
    BY DEF State!After, StateReplay!Replayed, StateStart, StateStep
  <1> QED BY <1>1, StateReplay!ReplayStep DEF StateStart

\* The k-th action of the list, applied to what those before it left.
ArtifactStart(c) == Artifacts!Start(c)
ArtifactStep(c, left, k) ==
    IF Artifacts!Known(c, "actions", c.request.order[k])
    THEN Artifacts!Replay(c, left, c.request.order[k])
    ELSE left
ArtifactReplay == INSTANCE Replays WITH Start <- ArtifactStart, Apply <- ArtifactStep

\* The same for the actions on artifacts.
LEMMA ArtifactReplayStep ==
    ASSUME NEW c
    PROVE  /\ Artifacts!After(c, 0) = Artifacts!Start(c)
           /\ \A n \in Nat : Artifacts!After(c, n + 1) = ArtifactStep(c, Artifacts!After(c, n), n + 1)
  <1>1. \A n : Artifacts!After(c, n) = ArtifactReplay!Replayed(c)[n]
    BY DEF Artifacts!After, ArtifactReplay!Replayed, ArtifactStart, ArtifactStep
  <1> QED BY <1>1, ArtifactReplay!ReplayStep DEF ArtifactStart

\* A walk starts with a node and gathers the parents of what it has found.
Self(walk) == {walk.from}
OneUp(walk, found, k) == found \cup {walk.parent[y] : y \in found \cap DOMAIN walk.parent}
Walk == INSTANCE Replays WITH Start <- Self, Apply <- OneUp

\* x and what is at most k steps above it: what AncestorsOf walks through.
Above(parent, x) == Walk!Replayed([parent |-> parent, from |-> x])

\* The walk is defined, for any relation of parents.
LEMMA AboveSteps ==
    ASSUME NEW parent, NEW x
    PROVE  /\ Above(parent, x)[0] = {x}
           /\ \A k \in Nat : Above(parent, x)[k + 1] =
                Above(parent, x)[k]
                \cup {parent[y] : y \in Above(parent, x)[k] \cap DOMAIN parent}
  <1> DEFINE walk == [parent |-> parent, from |-> x]
  <1>1. walk.parent = parent /\ walk.from = x
    OBVIOUS
  <1> HIDE DEF walk
  <1>2. /\ Walk!Replayed(walk)[0] = Self(walk)
        /\ \A k \in Nat : Walk!Replayed(walk)[k + 1] = OneUp(walk, Walk!Replayed(walk)[k], k + 1)
    BY Walk!ReplayStep
  <1>3. Above(parent, x) = Walk!Replayed(walk)
    BY DEF Above, walk
  <1>4. Above(parent, x)[0] = {x}
    BY <1>1, <1>2, <1>3 DEF Self
  <1>5. \A k \in Nat : Above(parent, x)[k + 1] =
                Above(parent, x)[k]
                \cup {parent[y] : y \in Above(parent, x)[k] \cap DOMAIN parent}
    <2> SUFFICES ASSUME NEW k \in Nat
                 PROVE  Above(parent, x)[k + 1] =
                          Above(parent, x)[k]
                          \cup {parent[y] : y \in Above(parent, x)[k] \cap DOMAIN parent}
      OBVIOUS
    <2>1. Above(parent, x)[k + 1] = OneUp(walk, Above(parent, x)[k], k + 1)
      BY <1>2, <1>3
    <2>2. OneUp(walk, Above(parent, x)[k], k + 1) =
            Above(parent, x)[k]
            \cup {walk.parent[y] : y \in Above(parent, x)[k] \cap DOMAIN walk.parent}
      BY DEF OneUp
    <2> QED BY <1>1, <2>1, <2>2
  <1> QED BY <1>4, <1>5

-----------------------------------------------------------------------------
(* Numbers.                                                               *)

\* A finite set of integers has a greatest member.
LEMMA Greatest ==
    ASSUME NEW S, S \subseteq Int, IsFiniteSet(S), S # {}
    PROVE  Max(S) \in S /\ \A x \in S : x <= Max(S)
  <1> DEFINE Tops(U) == \E m \in U : \A x \in U : m >= x
             T == {n \in Nat : \E U : /\ U \subseteq Int /\ U # {}
                                      /\ IsFiniteSet(U) /\ Cardinality(U) = n /\ ~Tops(U)}
  <1>1. ASSUME T # {} PROVE FALSE
    <2>1. PICK n \in T : \A k \in T : n <= k
      BY <1>1, Walk!LeastNat
    <2>2. PICK U : U \subseteq Int /\ U # {} /\ IsFiniteSet(U) /\ Cardinality(U) = n /\ ~Tops(U)
      BY <2>1
    <2>3. PICK x \in U : TRUE
      BY <2>2
    <2>4. IsFiniteSet(U \ {x}) /\ Cardinality(U \ {x}) = n - 1
      BY <2>2, <2>3, FS_RemoveElement
    <2>5. U \ {x} # {}
      BY <2>2, <2>3
    <2>6. n - 1 \in Nat /\ ~(n <= n - 1)
      BY <2>1, <2>4, FS_CardinalityType
    <2>7. Tops(U \ {x})
      BY <2>1, <2>2, <2>4, <2>5, <2>6
    <2>8. PICK m \in U \ {x} : \A y \in U \ {x} : m >= y
      BY <2>7
    <2>9. m \in Int /\ x \in Int
      BY <2>2, <2>3
    <2>10. CASE m >= x
      BY <2>2, <2>8, <2>10
    <2>11. CASE x > m
      <3>1. \A y \in U : x >= y
        BY <2>2, <2>8, <2>9, <2>11
      <3> QED BY <2>2, <2>3, <3>1
    <2> QED BY <2>9, <2>10, <2>11
  <1>2. Cardinality(S) \in Nat
    BY FS_CardinalityType
  <1>3. Tops(S)
    BY <1>1, <1>2, Zenon
  <1>4. \E m \in S : \A x \in S : m >= x
    BY <1>3
  <1>5. Max(S) \in S /\ \A x \in S : Max(S) >= x
    BY <1>4 DEF Max
  <1> QED BY <1>5

-----------------------------------------------------------------------------
(* Forests.                                                               *)

\* The forest has finitely many nodes with a parent, so the walk ends.
LEMMA AncestorsAbove ==
    ASSUME NEW parent, NEW x, IsFiniteSet(DOMAIN parent)
    PROVE  \E n \in Nat : \A y : AncestorsOf(parent, y) = Above(parent, y)[n]
  <1>1. Cardinality(DOMAIN parent) + 1 \in Nat
    BY FS_CardinalityType
  <1>2. \A y : AncestorsOf(parent, y) = Above(parent, y)[Cardinality(DOMAIN parent) + 1]
    BY DEF AncestorsOf, Above, Walk!Replayed, Self, OneUp
  <1> QED BY <1>1, <1>2

\* The walk only gathers.
LEMMA AboveGrows ==
    ASSUME NEW parent, NEW x, NEW n \in Nat, NEW k \in 0..n
    PROVE  Above(parent, x)[k] \subseteq Above(parent, x)[n]
  <1> DEFINE a == Above(parent, x)
             T == {m \in Nat : k <= m /\ ~(a[k] \subseteq a[m])}
  <1>1. \A m \in Nat : a[m] \subseteq a[m + 1]
    BY AboveSteps
  <1> HIDE DEF a
  <1>2. ASSUME T # {} PROVE FALSE
    <2>1. PICK m \in T : \A j \in T : m <= j
      BY <1>2, Walk!LeastNat
    <2>2. m # k
      BY <2>1
    <2>3. m - 1 \in Nat /\ (m - 1) + 1 = m /\ ~(m <= m - 1) /\ k <= m - 1
      BY <2>1, <2>2
    <2>4. a[k] \subseteq a[m - 1]
      BY <2>1, <2>3
    <2>5. a[m - 1] \subseteq a[(m - 1) + 1]
      BY <1>1, <2>3
    <2> QED BY <2>3, <2>4, <2>5
  <1> QED BY <1>2 DEF a

\* What holds of x, and of the parent of whatever it holds of, holds of all above x.
LEMMA AncestorsWithin ==
    ASSUME NEW parent, NEW x, IsFiniteSet(DOMAIN parent), NEW S, x \in S,
           \A y \in S \cap DOMAIN parent : y \in AncestorsOf(parent, x) => parent[y] \in S
    PROVE  AncestorsOf(parent, x) \subseteq S
  <1> DEFINE a == Above(parent, x)
  <1>1. a[0] = {x} /\ \A k \in Nat : a[k + 1] = a[k] \cup {parent[y] : y \in a[k] \cap DOMAIN parent}
    BY AboveSteps
  <1>2. PICK n \in Nat : AncestorsOf(parent, x) = a[n]
    BY AncestorsAbove
  <1>3. \A k \in 0..n : a[k] \subseteq a[n]
    BY AboveGrows
  <1> HIDE DEF a
  <1> DEFINE T == {k \in 0..n : ~(a[k] \subseteq S)}
  <1>4. ASSUME T # {} PROVE FALSE
    <2>0. T \subseteq Nat
      OBVIOUS
    <2>1. PICK m \in T : \A k \in T : m <= k
      <3> HIDE DEF T
      <3> QED BY <1>4, <2>0, Walk!LeastNat
    <2>2. m # 0
      BY <1>1
    <2>3. m - 1 \in 0..n /\ (m - 1) + 1 = m /\ ~(m <= m - 1)
      BY <2>2
    <2>4. a[m - 1] \subseteq S /\ a[m - 1] \subseteq a[n]
      BY <1>3, <2>1, <2>3
    <2>5. a[(m - 1) + 1] = a[m - 1] \cup {parent[y] : y \in a[m - 1] \cap DOMAIN parent}
      BY <1>1, <2>3
    <2>6. a[m] \subseteq S
      BY <1>2, <2>3, <2>4, <2>5
    <2> QED BY <2>6
  <1>5. n \in 0..n
    OBVIOUS
  <1> QED BY <1>2, <1>4, <1>5

\* What is above x is x or above its parent.
LEMMA AncestorsBelow ==
    ASSUME NEW parent, NEW x, IsFiniteSet(DOMAIN parent),
           NEW r \in AncestorsOf(parent, x), r # x
    PROVE  x \in DOMAIN parent /\ r \in AncestorsOf(parent, parent[x])
  <1> DEFINE a == Above(parent, x)
             b == Above(parent, parent[x])
             Beyond(k) == {x} \cup IF x \in DOMAIN parent THEN b[k] ELSE {}
             T == {k \in Nat : ~(a[k] \subseteq Beyond(k))}
  <1>1. a[0] = {x} /\ \A k \in Nat : a[k + 1] = a[k] \cup {parent[y] : y \in a[k] \cap DOMAIN parent}
    BY AboveSteps
  <1>2. b[0] = {parent[x]}
        /\ \A k \in Nat : b[k + 1] = b[k] \cup {parent[y] : y \in b[k] \cap DOMAIN parent}
    BY AboveSteps
  <1> HIDE DEF a, b
  <1>3. ASSUME NEW k \in Nat, x \in DOMAIN parent PROVE parent[x] \in b[k]
    <2> DEFINE W == {j \in Nat : parent[x] \notin b[j]}
    <2>1. ASSUME W # {} PROVE FALSE
      <3>1. PICK m \in W : \A j \in W : m <= j
        BY <2>1, Walk!LeastNat
      <3>2. m # 0
        BY <1>2
      <3>3. m - 1 \in Nat /\ (m - 1) + 1 = m /\ ~(m <= m - 1)
        BY <3>2
      <3>4. parent[x] \in b[m - 1]
        BY <3>1, <3>3
      <3>5. b[m - 1] \subseteq b[(m - 1) + 1]
        BY <1>2, <3>3
      <3> QED BY <3>3, <3>4, <3>5
    <2> QED BY <2>1
  <1>4. ASSUME T # {} PROVE FALSE
    <2>1. PICK m \in T : \A k \in T : m <= k
      BY <1>4, Walk!LeastNat
    <2>2. m # 0
      BY <1>1
    <2>3. m - 1 \in Nat /\ (m - 1) + 1 = m /\ ~(m <= m - 1)
      BY <2>2
    <2>4. a[m - 1] \subseteq Beyond(m - 1)
      BY <2>1, <2>3
    <2>5. a[(m - 1) + 1] = a[m - 1] \cup {parent[y] : y \in a[m - 1] \cap DOMAIN parent}
      BY <1>1, <2>3
    <2>6. b[(m - 1) + 1] = b[m - 1] \cup {parent[y] : y \in b[m - 1] \cap DOMAIN parent}
      BY <1>2, <2>3
    <2>7. x \in DOMAIN parent => parent[x] \in b[m]
      BY <1>3, <2>1
    <2>8. a[m] = a[m - 1] \cup {parent[y] : y \in a[m - 1] \cap DOMAIN parent}
          /\ b[m] = b[m - 1] \cup {parent[y] : y \in b[m - 1] \cap DOMAIN parent}
      BY <2>3, <2>5, <2>6
    <2>9. a[m] \subseteq Beyond(m)
      <3>1. CASE x \in DOMAIN parent
        BY <2>4, <2>7, <2>8, <3>1
      <3>2. CASE x \notin DOMAIN parent
        BY <2>4, <2>8, <3>2
      <3> QED BY <3>1, <3>2
    <2> QED BY <2>9
  <1>5. \A k \in Nat : a[k] \subseteq Beyond(k)
    BY <1>4
  <1>6. PICK n \in Nat : \A y : AncestorsOf(parent, y) = Above(parent, y)[n]
    BY AncestorsAbove
  <1>7. AncestorsOf(parent, x) = a[n] /\ AncestorsOf(parent, parent[x]) = b[n]
    BY <1>6 DEF a, b
  <1> QED BY <1>5, <1>7

-----------------------------------------------------------------------------
(* Numbers in the documents.                                              *)

\* Of each of some kinds there are at most the given items, and the given ones
\* of their fields are integers (dataclass annotations say so; no check does).
NumberedItems(items, names, ints) ==
    \A kind \in DOMAIN ints :
        /\ kind \in DOMAIN items /\ DOMAIN items[kind] \subseteq names[kind]
        /\ \A x \in DOMAIN items[kind] : \A f \in ints[kind] :
              f \in DOMAIN items[kind][x] /\ items[kind][x][f] \in Int

Numbered(c, names, ints) ==
    /\ "manifest" \in DOMAIN c
    /\ "items" \in DOMAIN c.manifest
    /\ NumberedItems(c.manifest.items, names, ints)

\* A change of anything but the items.
LEMMA NumberedElsewhere ==
    ASSUME NEW names, NEW ints, NEW c, Numbered(c, names, ints), NEW d, DOMAIN d = DOMAIN c,
           DOMAIN d.manifest = DOMAIN c.manifest, d.manifest.items = c.manifest.items
    PROVE  Numbered(d, names, ints)
  BY DEF Numbered

\* A change of the items of one kind.
LEMMA NumberedKind ==
    ASSUME NEW names, NEW ints, NEW c, Numbered(c, names, ints), NEW kind, NEW new,
           kind \in DOMAIN ints => \A x \in DOMAIN new :
              /\ x \in names[kind]
              /\ \A f \in ints[kind] : f \in DOMAIN new[x] /\ new[x][f] \in Int
    PROVE  Numbered([c EXCEPT !.manifest.items[kind] = new], names, ints)
  <1> DEFINE d == [c EXCEPT !.manifest.items[kind] = new]
             items == [c.manifest.items EXCEPT ![kind] = new]
  <1>1. "manifest" \in DOMAIN c /\ "items" \in DOMAIN c.manifest
        /\ NumberedItems(c.manifest.items, names, ints)
    BY DEF Numbered
  <1>2. "manifest" \in DOMAIN d /\ "items" \in DOMAIN d.manifest /\ d.manifest.items = items
    BY <1>1
  <1>3. NumberedItems(items, names, ints)
    BY <1>1 DEF NumberedItems
  <1> HIDE DEF d, items
  <1>4. Numbered(d, names, ints)
    BY <1>2, <1>3 DEF Numbered
  <1> QED BY <1>4 DEF d

\* A change of one item.
LEMMA NumberedItem ==
    ASSUME NEW names, NEW ints, NEW c, Numbered(c, names, ints), NEW kind, NEW id, NEW new,
           Known(c, kind, id) /\ kind \in DOMAIN ints
             => \A f \in ints[kind] : f \in DOMAIN new /\ new[f] \in Int
    PROVE  Numbered([c EXCEPT !.manifest.items[kind][id] = new], names, ints)
  <1> DEFINE all == [c.manifest.items[kind] EXCEPT ![id] = new]
  <1>1. [c EXCEPT !.manifest.items[kind][id] = new] = [c EXCEPT !.manifest.items[kind] = all]
    OBVIOUS
  <1>2. NumberedItems(c.manifest.items, names, ints)
    BY DEF Numbered
  <1>3. kind \in DOMAIN ints => \A x \in DOMAIN all :
              /\ x \in names[kind]
              /\ \A f \in ints[kind] : f \in DOMAIN all[x] /\ all[x][f] \in Int
    BY <1>2 DEF NumberedItems, Known, Ids
  <1> HIDE DEF all
  <1>4. Numbered([c EXCEPT !.manifest.items[kind] = all], names, ints)
    BY <1>3, NumberedKind
  <1> QED BY <1>1, <1>4

\* A change of one field.
LEMMA NumberedField ==
    ASSUME NEW names, NEW ints, NEW c, Numbered(c, names, ints), NEW kind, NEW id, NEW f, NEW v,
           kind \in DOMAIN ints /\ f \in ints[kind] => v \in Int
    PROVE  Numbered(SetField(c, kind, id, f, v), names, ints)
  <1> DEFINE new == [c.manifest.items[kind][id] EXCEPT ![f] = v]
  <1>1. SetField(c, kind, id, f, v) = [c EXCEPT !.manifest.items[kind][id] = new]
    BY DEF SetField
  <1>2. NumberedItems(c.manifest.items, names, ints)
    BY DEF Numbered
  <1>3. Known(c, kind, id) /\ kind \in DOMAIN ints => \A g \in ints[kind] : g \in DOMAIN new /\ new[g] \in Int
    BY <1>2 DEF NumberedItems, Known, Ids
  <1> HIDE DEF new
  <1>4. Numbered([c EXCEPT !.manifest.items[kind][id] = new], names, ints)
    BY <1>3, NumberedItem
  <1> QED BY <1>1, <1>4

\* The numbers that the cases of field edits write are integers.
IntegerCases(ints, cases) ==
    \A t \in cases : t[1] \in DOMAIN ints /\ t[3] \in ints[t[1]] => t[4] \in Int
IntegerGroups(ints, cases) ==
    \A t \in cases : t[1] \in DOMAIN ints =>
        \A f \in ints[t[1]] : f \in DOMAIN t[3] => t[3][f] \in Int

\* Single fields are changed, alone or with what the policy expects.
LEMMA NumberedFields ==
    ASSUME NEW names, NEW ints, NEW c, Numbered(c, names, ints), NEW cases, IntegerCases(ints, cases)
    PROVE  \A d \in FieldEdits(c, cases) \cup CoherentEdits(c, cases) : Numbered(d, names, ints)
  <1>1. \A d \in FieldEdits(c, cases) : Numbered(d, names, ints)
    BY NumberedField DEF FieldEdits, IntegerCases
  <1>2. ASSUME NEW t \in cases, Known(c, t[1], t[2])
        PROVE  Numbered(SetField([c EXCEPT !.policy.expected[t[1]][t[2]][t[3]] = t[4]],
                                 t[1], t[2], t[3], t[4]), names, ints)
    <2> DEFINE b == [c EXCEPT !.policy.expected[t[1]][t[2]][t[3]] = t[4]]
    <2>1. DOMAIN b = DOMAIN c /\ b.manifest = c.manifest
      BY DEF Numbered
    <2> HIDE DEF b
    <2>2. Numbered(b, names, ints) /\ Known(b, t[1], t[2])
      BY <1>2, <2>1, NumberedElsewhere DEF Known, Ids
    <2>3. Numbered(SetField(b, t[1], t[2], t[3], t[4]), names, ints)
      BY <2>2, NumberedField DEF IntegerCases
    <2> QED BY <2>3 DEF b
  <1>3. \A d \in CoherentEdits(c, cases) : Numbered(d, names, ints)
    BY <1>2 DEF CoherentEdits
  <1> QED BY <1>1, <1>3

\* The same for groups of fields.
LEMMA NumberedGroups ==
    ASSUME NEW names, NEW ints, NEW c, Numbered(c, names, ints), NEW cases, IntegerGroups(ints, cases)
    PROVE  \A d \in GroupEdits(c, cases) : Numbered(d, names, ints)
  <1> SUFFICES ASSUME NEW t \in cases, Known(c, t[1], t[2])
               PROVE  Numbered([c EXCEPT !.manifest.items[t[1]][t[2]] = Replaced(@, t[3])], names, ints)
    BY DEF GroupEdits
  <1> DEFINE new == Replaced(c.manifest.items[t[1]][t[2]], t[3])
  <1>1. [c EXCEPT !.manifest.items[t[1]][t[2]] = Replaced(@, t[3])]
           = [c EXCEPT !.manifest.items[t[1]][t[2]] = new]
    OBVIOUS
  <1>2. NumberedItems(c.manifest.items, names, ints)
    BY DEF Numbered
  <1>3. t[1] \in DOMAIN ints => \A f \in ints[t[1]] : f \in DOMAIN new /\ new[f] \in Int
    BY <1>2 DEF NumberedItems, Known, Ids, Replaced, IntegerGroups
  <1> HIDE DEF new
  <1>4. Numbered([c EXCEPT !.manifest.items[t[1]][t[2]] = new], names, ints)
    BY <1>3, NumberedItem
  <1> QED BY <1>1, <1>4

\* An item is dropped, listed twice, or owned by someone else.
LEMMA NumberedInventory ==
    ASSUME NEW names, NEW ints, NEW c, Numbered(c, names, ints),
           \A kind \in DOMAIN ints : "owner_id" \notin ints[kind]
    PROVE  \A d \in InventoryEdits(c) : Numbered(d, names, ints)
  <1>0. "manifest" \in DOMAIN c /\ "items" \in DOMAIN c.manifest
        /\ NumberedItems(c.manifest.items, names, ints)
    BY DEF Numbered
  <1>1. SUFFICES ASSUME NEW kind \in DOMAIN c.manifest.items, NEW id \in Ids(c, kind)
                 PROVE  /\ Numbered([c EXCEPT !.manifest.items[kind] = Without(@, id)], names, ints)
                        /\ Numbered([c EXCEPT !.manifest.repeated = @ \cup {kind}], names, ints)
                        /\ Numbered(SetField(c, kind, id, "owner_id", Other), names, ints)
    <2>1. \A S : \A x \in SomeOf(S) : x \in S
      BY DEF SomeOf
    <2>2. SUFFICES ASSUME NEW kind \in DOMAIN c.manifest.items,
                          NEW id \in SomeOf(Ids(c, kind)),
                          NEW d \in {[c EXCEPT !.manifest.items[kind] = Without(@, id)],
                                    [c EXCEPT !.manifest.repeated = @ \cup {kind}]}
                                   \cup (IF "owner_id" \in DOMAIN Item(c, kind, id)
                                         THEN {SetField(c, kind, id, "owner_id", Other)} ELSE {})
                   PROVE  Numbered(d, names, ints)
      BY DEF InventoryEdits
    <2>3. id \in Ids(c, kind)
      BY <2>1
    <2>4. \/ d = [c EXCEPT !.manifest.items[kind] = Without(@, id)]
          \/ d = [c EXCEPT !.manifest.repeated = @ \cup {kind}]
          \/ d = SetField(c, kind, id, "owner_id", Other)
      BY <2>2
    <2> QED BY <1>1, <2>3, <2>4
  <1>2. Numbered([c EXCEPT !.manifest.items[kind] = Without(@, id)], names, ints)
    <2> DEFINE new == Without(c.manifest.items[kind], id)
    <2>1. [c EXCEPT !.manifest.items[kind] = Without(@, id)] = [c EXCEPT !.manifest.items[kind] = new]
      OBVIOUS
    <2>2. kind \in DOMAIN ints => \A x \in DOMAIN new :
              /\ x \in names[kind]
              /\ \A f \in ints[kind] : f \in DOMAIN new[x] /\ new[x][f] \in Int
      BY <1>0 DEF NumberedItems, Without
    <2> HIDE DEF new
    <2>3. Numbered([c EXCEPT !.manifest.items[kind] = new], names, ints)
      BY <2>2, NumberedKind
    <2> QED BY <2>1, <2>3
  <1>3. Numbered([c EXCEPT !.manifest.repeated = @ \cup {kind}], names, ints)
    <2> DEFINE d == [c EXCEPT !.manifest.repeated = @ \cup {kind}]
    <2>1. DOMAIN d = DOMAIN c /\ DOMAIN d.manifest = DOMAIN c.manifest /\ d.manifest.items = c.manifest.items
      BY <1>0
    <2> HIDE DEF d
    <2>2. Numbered(d, names, ints)
      BY <2>1, NumberedElsewhere
    <2> QED BY <2>2 DEF d
  <1>4. Numbered(SetField(c, kind, id, "owner_id", Other), names, ints)
    BY NumberedField
  <1> QED BY <1>2, <1>3, <1>4

\* The header of the manifest, its pins, the request, the earlier assessments, the
\* declaration, the policy: the items stay what they are.
LEMMA NumberedHeaders ==
    ASSUME NEW names, NEW ints, NEW c, Numbered(c, names, ints), NEW cases
    PROVE  /\ \A d \in ManifestEdits(c) \cup PinEdits(c) : Numbered(d, names, ints)
           /\ \A d \in RequestEdits(c) \cup CallerEdits(c) : Numbered(d, names, ints)
           /\ \A d \in UpstreamEdits(c) \cup TrustEdits(c) \cup RepeatEdits(c) : Numbered(d, names, ints)
           /\ \A d \in FactEdits(c, cases) \cup MissingFacts(c, cases) : Numbered(d, names, ints)
           /\ \A d \in PolicyEdits(c, cases) : Numbered(d, names, ints)
           /\ \A truth : Numbered(Redeclared(c, truth), names, ints)
           /\ Numbered(Repinned(c), names, ints)
  <1> DEFINE Same(d) == /\ DOMAIN d = DOMAIN c
                        /\ DOMAIN d.manifest = DOMAIN c.manifest
                        /\ d.manifest.items = c.manifest.items
  <1>0. "manifest" \in DOMAIN c /\ "items" \in DOMAIN c.manifest
    BY DEF Numbered
  <1>1. \A d \in ManifestEdits(c) : Same(d)
    BY <1>0 DEF ManifestEdits
  <1>2. \A d \in PinEdits(c) : Same(d)
    BY <1>0 DEF PinEdits
  <1>3. \A d \in RequestEdits(c) : Same(d)
    BY <1>0 DEF RequestEdits
  <1>4. \A d \in CallerEdits(c) : Same(d)
    BY <1>0 DEF CallerEdits
  <1>5. \A d \in UpstreamEdits(c) : Same(d)
    BY <1>0 DEF UpstreamEdits
  <1>6. \A d \in TrustEdits(c) : Same(d)
    BY <1>0 DEF TrustEdits
  <1>7. \A d \in RepeatEdits(c) : Same(d)
    BY <1>0 DEF RepeatEdits
  <1>8. \A d \in FactEdits(c, cases) : Same(d)
    BY <1>0 DEF FactEdits
  <1>9. \A d \in MissingFacts(c, cases) : Same(d)
    <2> SUFFICES ASSUME NEW u \in cases,
                        NEW d \in {[c EXCEPT !.up[u].facts = Without(@, id)] :
                                     id \in DOMAIN c.up[u].facts}
                 PROVE  Same(d)
      BY DEF MissingFacts
    <2> QED BY <1>0
  <1>10. \A d \in PolicyEdits(c, cases) : Same(d)
    BY <1>0 DEF PolicyEdits
  <1>11. \A truth : Same(Redeclared(c, truth))
    BY <1>0 DEF Redeclared
  <1>12. Same(Repinned(c))
    BY <1>0 DEF Repinned
  <1>13. \A d : Same(d) => Numbered(d, names, ints)
    BY NumberedElsewhere
  <1> HIDE DEF Same
  <1> QED BY <1>1, <1>2, <1>3, <1>4, <1>5, <1>6, <1>7, <1>8, <1>9, <1>10, <1>11, <1>12, <1>13

\* Edits that every evaluation makes.
LEMMA NumberedCommon ==
    ASSUME NEW names, NEW ints, NEW c, Numbered(c, names, ints),
           \A kind \in DOMAIN ints : "owner_id" \notin ints[kind]
    PROVE  \A d \in CommonEdits(c) : Numbered(d, names, ints)
  BY NumberedInventory, NumberedHeaders DEF CommonEdits

\* An item of another kind is added.
LEMMA NumberedAdded ==
    ASSUME NEW names, NEW ints, NEW c, Numbered(c, names, ints), NEW kind, kind \notin DOMAIN ints,
           NEW id, NEW item
    PROVE  Numbered(Added(c, kind, id, item), names, ints)
  <1> DEFINE new == (id :> item) @@ c.manifest.items[kind]
             b == [c EXCEPT !.manifest.items[kind] = new]
             d == Added(c, kind, id, item)
  <1>1. DOMAIN d = DOMAIN b /\ DOMAIN d.manifest = DOMAIN b.manifest
        /\ d.manifest.items = b.manifest.items
    <2> HIDE DEF new
    <2>1. "manifest" \in DOMAIN c /\ "items" \in DOMAIN c.manifest
      BY DEF Numbered
    <2>2. d = [b EXCEPT !.policy.required[kind] = @ \cup {id}]
      BY DEF Added, new
    <2> HIDE DEF d
    <2> QED BY <2>1, <2>2
  <1>2. Numbered(b, names, ints)
    <2> HIDE DEF new
    <2> QED BY NumberedKind
  <1> HIDE DEF b, d
  <1>3. Numbered(d, names, ints)
    BY <1>1, <1>2, NumberedElsewhere
  <1> QED BY <1>3 DEF d

\* The documents of an evaluation hold the items they are made of.
LEMMA NumberedContext ==
    ASSUME NEW names, NEW ints, NEW items, NumberedItems(items, names, ints),
           NEW expected, NEW facts, NEW main, NEW extra, NEW fields
    PROVE  Numbered(Context(items, expected, facts, main, extra, fields), names, ints)
  <1> DEFINE c == Context(items, expected, facts, main, extra, fields)
  <1>1. "manifest" \in DOMAIN c /\ "items" \in DOMAIN c.manifest /\ c.manifest.items = items
    BY DEF Context, Repinned
  <1> HIDE DEF c
  <1>2. Numbered(c, names, ints)
    BY <1>1 DEF Numbered
  <1> QED BY <1>2 DEF c

-----------------------------------------------------------------------------
(* Delegations.                                                            *)

\* What a valid set of delegations says of each and of its parent.
LEMMA DelegationsFormed ==
    ASSUME NEW c, Delegation!Evaluate(c).valid
    PROVE  /\ Delegation!Evaluate(c).facts = Delegation!Facts(c)
           /\ \A d \in Delegation!Ids(c, "delegations") :
                Delegation!Item(c, "delegations", d).requested_capability_ids # {}
           /\ LET parent == Delegation!ParentsBy(c, "delegations", "parent_delegation_id")
              IN \A d \in DOMAIN parent :
                    /\ d \in Delegation!Ids(c, "delegations")
                    /\ parent[d] \in Delegation!Ids(c, "delegations")
  <1>1. Delegation!ManifestValid(c) /\ Delegation!Evaluate(c).facts = Delegation!Facts(c)
    BY DEF Delegation!Evaluate, Delegation!Outcome, Delegation!Rejected
  <1>2. \A d \in Delegation!Ids(c, "delegations") :
                Delegation!Item(c, "delegations", d).requested_capability_ids # {}
    BY <1>1 DEF Delegation!ManifestValid
  <1>3. \A d \in Delegation!Ids(c, "delegations") :
           LET p == Delegation!Item(c, "delegations", d).parent_delegation_id
           IN p = Delegation!None \/ p \in Delegation!Ids(c, "delegations")
    BY <1>1 DEF Delegation!ManifestValid, Delegation!Known
  <1> QED BY <1>1, <1>2, <1>3 DEF Delegation!ParentsBy

\* Nothing effective to build on, so what a delegation asks for is laundered.
LEMMA NothingPassedOn ==
    ASSUME NEW c, NEW d, Delegation!Item(c, "delegations", d).requested_capability_ids # {}
    PROVE  Delegation!LinkRisks(c, d, {}) # {}
  <1> DEFINE del == Delegation!Item(c, "delegations", d)
  <1>1. PICK k \in del.requested_capability_ids : TRUE
    OBVIOUS
  <1>2. DOMAIN Delegation!LevelsOf(c, {}) = {}
    BY DEF Delegation!LevelsOf
  <1>3. \A cap : Delegation!Exceeds(cap, Delegation!LevelsOf(c, {}))
    BY <1>2 DEF Delegation!Exceeds
  <1>4. "capability_laundering" \in Delegation!LinkRisks(c, d, {})
    BY <1>1, <1>3 DEF Delegation!LinkRisks, Delegation!Fired
  <1> QED BY <1>4

\* The delegation that each was derived from, and what each asks for.
DelegationParent(c) == Delegation!ParentsBy(c, "delegations", "parent_delegation_id")
Asks(c, d) == Delegation!Item(c, "delegations", d).requested_capability_ids

\* The chain of handoffs has an assessment, in which each delegation is judged by
\* what its parent was allowed.  (This needs neither that the chains end nor that
\* there are finitely many.)
LEMMA DelegationsJudged ==
    ASSUME NEW c, Delegation!Evaluate(c).valid
    PROVE  /\ DOMAIN Delegation!Facts(c) = Delegation!Ids(c, "delegations")
           /\ \A d \in Delegation!Ids(c, "delegations") : Delegation!Facts(c)[d] =
                Delegation!RecordRisks(c, d,
                    Delegation!Cardinality(Delegation!AncestorsOf(DelegationParent(c), d)))
                \cup IF d \notin DOMAIN DelegationParent(c) THEN {}
                     ELSE Delegation!LinkRisks(c, d,
                              IF Delegation!Facts(c)[DelegationParent(c)[d]] # {} THEN {}
                              ELSE Asks(c, DelegationParent(c)[d]))
  <1> DEFINE D == Delegation!Ids(c, "delegations")
             parent == DelegationParent(c)
             asks(d) == Asks(c, d)
             own(d) == Delegation!RecordRisks(c, d,
                           Delegation!Cardinality(Delegation!AncestorsOf(parent, d)))
             link(d, e) == own(d) \cup IF d \notin DOMAIN parent THEN {}
                                       ELSE Delegation!LinkRisks(c, d, e)
             bare(d) == link(d, {})
             full(d) == link(d, asks(parent[d]))
             Solves(f) == f = [d \in D |->
                 own(d) \cup IF d \notin DOMAIN parent THEN {}
                             ELSE Delegation!LinkRisks(c, d,
                                      IF f[parent[d]] # {} THEN {} ELSE asks(parent[d]))]
             facts == CHOOSE f : Solves(f)
  <1>1. \A d \in DOMAIN parent : d \in D /\ parent[d] \in D
    BY DelegationsFormed DEF DelegationParent
  <1>2. \A d \in DOMAIN parent : bare(d) # {}
    BY <1>1, DelegationsFormed, NothingPassedOn DEF Asks
  <1>3. Delegation!Facts(c) = facts
    BY DEF Delegation!Facts, DelegationParent, Asks
  <1>4. \A d \in D : d \notin DOMAIN parent => bare(d) = full(d)
    OBVIOUS
  <1>6. \A f : Solves(f) <=> f = [d \in D |-> IF f[parent[d]] # {} THEN bare(d) ELSE full(d)]
    <2> SUFFICES ASSUME NEW f
                 PROVE  Solves(f) <=> f = [d \in D |-> IF f[parent[d]] # {} THEN bare(d) ELSE full(d)]
      OBVIOUS
    <2>1. ASSUME NEW d \in D
          PROVE  (own(d) \cup IF d \notin DOMAIN parent THEN {}
                              ELSE Delegation!LinkRisks(c, d,
                                      IF f[parent[d]] # {} THEN {} ELSE asks(parent[d])))
                 = IF f[parent[d]] # {} THEN bare(d) ELSE full(d)
      <3> HIDE DEF own, asks, parent, D
      <3>1. CASE f[parent[d]] # {}
        BY <3>1
      <3>2. CASE f[parent[d]] = {}
        BY <3>2
      <3> QED BY <3>1, <3>2
    <2> DEFINE mine(d) == own(d) \cup IF d \notin DOMAIN parent THEN {}
                                      ELSE Delegation!LinkRisks(c, d,
                                              IF f[parent[d]] # {} THEN {} ELSE asks(parent[d]))
               split(d) == IF f[parent[d]] # {} THEN bare(d) ELSE full(d)
    <2>2. \A d \in D : mine(d) = split(d)
      BY <2>1
    <2> HIDE DEF own, asks, parent, D, bare, full, mine, split
    <2>3. [d \in D |-> mine(d)] = [d \in D |-> split(d)]
      BY <2>2
    <2> QED BY <2>3 DEF mine, split
  <1> HIDE DEF bare, full, parent, D, Solves
  <1>7. \E f : Solves(f)
    <2> DEFINE Closed(S) == /\ \A d \in D : full(d) # {} => d \in S
                            /\ \A d \in DOMAIN parent : parent[d] \in S => d \in S
               N == {d \in D : \A S : Closed(S) => d \in S}
               f == [d \in D |-> IF parent[d] \in N THEN bare(d) ELSE full(d)]
    <2>1. \A d \in D : full(d) # {} => d \in N
      OBVIOUS
    <2>2. \A d \in DOMAIN parent : parent[d] \in N => d \in N
      BY <1>1
    <2>3. \A S : Closed(S) => N \subseteq S
      OBVIOUS
    <2>4. N \subseteq D
      OBVIOUS
    <2> HIDE DEF N
    <2>5. \A d \in D : f[d] = IF parent[d] \in N THEN bare(d) ELSE full(d)
      OBVIOUS
    <2> HIDE DEF f
    <2>6. ASSUME NEW d \in N, f[d] = {} PROVE FALSE
      <3>1. d \in DOMAIN parent => parent[d] \notin N
        BY <1>2, <2>4, <2>5, <2>6
      <3>2. full(d) = {}
        BY <1>4, <2>4, <2>5, <2>6, <3>1
      <3>3. Closed(N \ {d})
        BY <2>1, <2>2, <3>1, <3>2
      <3> QED BY <2>3, <3>3
    <2>7. ASSUME NEW d \in D, d \notin N PROVE f[d] = {}
      <3>1. d \in DOMAIN parent => parent[d] \notin N
        BY <2>2, <2>7
      <3>2. f[d] = full(d)
        BY <1>4, <2>5, <3>1
      <3> QED BY <2>1, <2>7, <3>2
    <2>8. ASSUME NEW d \in D
          PROVE  f[d] = IF f[parent[d]] # {} THEN bare(d) ELSE full(d)
      <3>1. CASE d \in DOMAIN parent
        BY <1>1, <2>5, <2>6, <2>7, <3>1
      <3>2. CASE d \notin DOMAIN parent
        BY <1>4, <2>5, <3>2
      <3> QED BY <3>1, <3>2
    <2>9. f = [d \in D |-> IF f[parent[d]] # {} THEN bare(d) ELSE full(d)]
      BY <2>8 DEF f
    <2> QED BY <1>6, <2>9
  <1>8. Solves(facts)
    BY <1>7
  <1> HIDE DEF facts
  <1>9. /\ DOMAIN facts = D
        /\ \A d \in D : facts[d] =
             own(d) \cup IF d \notin DOMAIN parent THEN {}
                         ELSE Delegation!LinkRisks(c, d,
                                  IF facts[parent[d]] # {} THEN {} ELSE asks(parent[d]))
    <2> HIDE DEF own, asks
    <2> QED BY <1>8 DEF Solves
  <1> HIDE DEF asks
  <1> QED BY <1>3, <1>9 DEF D, parent, asks

\* What an allowed delegation says of its parent.
LEMMA AllowedLinks ==
    ASSUME NEW c, Delegation!Evaluate(c).valid, NEW d \in DOMAIN DelegationParent(c),
           Delegation!Facts(c)[d] = {}
    PROVE  /\ Delegation!Facts(c)[DelegationParent(c)[d]] = {}
           /\ Delegation!LinkRisks(c, d, Asks(c, DelegationParent(c)[d])) = {}
  <1> DEFINE facts == Delegation!Facts(c)
             p == DelegationParent(c)[d]
             link(e) == Delegation!LinkRisks(c, d, e)
  <1>1. d \in Delegation!Ids(c, "delegations")
    BY DelegationsFormed DEF DelegationParent
  <1>2. link(IF facts[p] # {} THEN {} ELSE Asks(c, p)) = {}
    BY <1>1, DelegationsJudged
  <1>3. link({}) # {}
    BY <1>1, DelegationsFormed, NothingPassedOn
  <1> HIDE DEF link, facts, p
  <1>4. facts[p] = {}
    BY <1>2, <1>3
  <1>5. link(Asks(c, p)) = {}
    BY <1>2, <1>4
  <1> QED BY <1>4, <1>5 DEF link, facts, p

(* The denied delegations are those denied by themselves and those further down
   their chains, in whatever valid set of delegations: a child is judged by what
   its parent effectively has. *)
THEOREM DelegationFacts ==
    ASSUME NEW c, Delegation!Evaluate(c).valid
    PROVE  \A p \in Delegation!RestsOn(c) :
               p[2] \in Delegation!Denied(Delegation!Facts(c))
                   => p[1] \in Delegation!Denied(Delegation!Facts(c))
  <1> DEFINE facts == Delegation!Facts(c)
             parent == DelegationParent(c)
  <1>1. \A d \in DOMAIN parent : d \in DOMAIN facts /\ (facts[d] = {} => facts[parent[d]] = {})
    BY AllowedLinks, DelegationsJudged, DelegationsFormed DEF DelegationParent
  <1>2. Delegation!RestsOn(c) = {<<d, parent[d]>> : d \in DOMAIN parent}
    BY DEF Delegation!RestsOn, DelegationParent
  <1> HIDE DEF facts, parent
  <1> QED BY <1>1, <1>2 DEF Delegation!Denied, facts

-----------------------------------------------------------------------------
(* Plans.                                                                 *)

\* A goal is denied for every reason for which a part of its plan is.
LEMMA PlanFacts ==
    ASSUME NEW c, Plan!Evaluate(c).valid
    PROVE  \A p \in Plan!RestsOn(c) :
               p[2] \in Plan!Denied(Plan!Evaluate(c).facts)
                   => p[1] \in Plan!Denied(Plan!Evaluate(c).facts)
  <1> DEFINE plan == ({"steps"} \X Plan!Ids(c, "steps"))
                     \cup ({"mutations"} \X Plan!Ids(c, "mutations"))
             goals == {"goals"} \X Plan!Ids(c, "goals")
             parts == [x \in plan |-> IF x[1] = "steps" THEN Plan!StepRisks(c, x[2])
                                                        ELSE Plan!MutationRisks(c, x[2])]
             facts == [x \in plan \cup goals |->
                          IF x \in plan THEN parts[x] ELSE Plan!GoalRisks(c, x[2], parts)]
  <1>1. Plan!Evaluate(c).facts = facts
    BY DEF Plan!Evaluate, Plan!Outcome, Plan!Rejected, Plan!Facts
  <1>2. SUFFICES ASSUME NEW p \in Plan!RestsOn(c), p[2] \in Plan!Denied(facts)
                 PROVE  p[1] \in Plan!Denied(facts)
    BY <1>1
  <1>3. PICK g \in Plan!Ids(c, "goals") :
            p[1] = <<"goals", g>> /\ p[2] \in Plan!PartsOf(c, g)
    BY <1>2 DEF Plan!RestsOn
  <1>4. p[2] \in plan
    BY <1>3 DEF Plan!PartsOf, Plan!StepsOf
  <1>5. p[1] \in goals /\ p[1] \notin plan
    BY <1>3
  <1> HIDE DEF plan, goals
  <1>6. facts[p[2]] = parts[p[2]] /\ facts[p[1]] = Plan!GoalRisks(c, g, parts)
    BY <1>3, <1>4, <1>5
  <1>7. parts[p[2]] # {} /\ p[1] \in DOMAIN facts
    BY <1>2, <1>5, <1>6, Zenon DEF Plan!Denied
  <1> HIDE DEF parts, facts
  <1>8. Plan!GoalRisks(c, g, parts) # {}
    BY <1>3, <1>7 DEF Plan!GoalRisks
  <1> QED BY <1>6, <1>7, <1>8 DEF Plan!Denied

(* Nothing is allowed that rests on something denied: a delegation on its      *)
(* parent, a goal's assessment on its plan's steps and mutations; whatever the *)
(* documents, their number of items and the edits that led to them.            *)
THEOREM DenialInheritedCorrect == Spec => []DenialInherited
  <1>1. ResultCurrent => DenialInherited
    <2> SUFFICES ASSUME ResultCurrent PROVE DenialInherited
      OBVIOUS
    <2>1. CASE analyzer = "delegation"
      <3>1. result = Delegation!Evaluate(ctx)
        BY <2>1 DEF ResultCurrent, EvaluateBy
      <3>2. ASSUME result.valid, NEW p \in Delegation!RestsOn(ctx), p[2] \in Denied(result.facts)
            PROVE  p[1] \in Denied(result.facts)
        BY <3>1, <3>2, DelegationsFormed, DelegationFacts DEF Denied, Delegation!Denied
      <3> QED BY <2>1, <3>2 DEF DenialInherited
    <2>2. CASE analyzer = "plan"
      <3>1. result = Plan!Evaluate(ctx)
        BY <2>2 DEF ResultCurrent, EvaluateBy
      <3>2. ASSUME result.valid, NEW p \in Plan!RestsOn(ctx), p[2] \in Denied(result.facts)
            PROVE  p[1] \in Denied(result.facts)
        BY <3>1, <3>2, PlanFacts DEF Denied, Plan!Denied
      <3> QED BY <2>2, <3>2 DEF DenialInherited
    <2>3. CASE analyzer \notin {"delegation", "plan"}
      BY <2>3 DEF DenialInherited
    <2> QED BY <2>1, <2>2, <2>3
  <1> QED BY <1>1, ResultFollows, PTL

-----------------------------------------------------------------------------
(* Nothing is gained along a chain.                                        *)

\* The operators of an instance are those of Assessment.
LEMMA DelegationShares ==
    /\ \A S : Delegation!Cardinality(S) = Cardinality(S) /\ Delegation!Max(S) = Max(S)
    /\ \A parent, x : Delegation!AncestorsOf(parent, x) = AncestorsOf(parent, x)
  BY DEF Delegation!Cardinality, Cardinality, Delegation!Max, Max, Delegation!AncestorsOf, AncestorsOf

\* The numbers of a set of delegations that are compared.
DelegationInts == [delegations |-> {"issued_at_epoch", "expires_at_epoch"},
                   capabilities |-> {"privilege_level"}]

\* Where the numbers are integers, so are those that the analyzer compares.
LEMMA DelegationNumbers ==
    ASSUME NEW c, NEW names, Numbered(c, names, DelegationInts)
    PROVE  /\ Delegation!Ids(c, "delegations") \subseteq names["delegations"]
           /\ Delegation!Ids(c, "capabilities") \subseteq names["capabilities"]
           /\ \A d \in Delegation!Ids(c, "delegations") :
                /\ Delegation!Item(c, "delegations", d).issued_at_epoch \in Int
                /\ Delegation!Item(c, "delegations", d).expires_at_epoch \in Int
           /\ \A k \in Delegation!Ids(c, "capabilities") :
                Delegation!Item(c, "capabilities", k).privilege_level \in Int
  BY DEF Numbered, NumberedItems, DelegationInts, Delegation!Ids, Delegation!Item

\* A capability within the levels of others is below one of them.
LEMMA WithinLevels ==
    ASSUME NEW c, NEW caps, IsFiniteSet(caps),
           \A k \in caps : Delegation!Item(c, "capabilities", k).privilege_level \in Int,
           NEW cap, cap.privilege_level \in Int, ~Delegation!Exceeds(cap, Delegation!LevelsOf(c, caps))
    PROVE  \E j \in caps : /\ Delegation!Item(c, "capabilities", j).family = cap.family
                           /\ cap.privilege_level <= Delegation!Item(c, "capabilities", j).privilege_level
  <1> DEFINE item(k) == Delegation!Item(c, "capabilities", k)
             peers == {x \in caps : item(x).family = cap.family}
             level == [x \in peers |-> item(x).privilege_level]
             held == {item(k).privilege_level : k \in peers}
             levels == Delegation!LevelsOf(c, caps)
  <1>1. cap.family \in DOMAIN levels /\ ~(cap.privilege_level > levels[cap.family])
    BY DEF Delegation!Exceeds
  <1>2. cap.family \in {item(k).family : k \in caps} /\ levels[cap.family] = Delegation!Max(held)
    BY <1>1, Zenon DEF Delegation!LevelsOf
  <1> HIDE DEF levels, item
  <1>3. PICK k \in peers : TRUE
    BY <1>2
  <1>4. held \subseteq Int /\ held # {}
    BY <1>3 DEF item
  <1>5. IsFiniteSet(held)
    <2>1. IsFiniteSet(peers)
      BY FS_Subset
    <2>2. level \in Surjection(peers, held)
      BY DEF Surjection
    <2> HIDE DEF peers, level, held
    <2> QED BY <2>1, <2>2, FS_Surjection
  <1>6. Max(held) \in held
    <2> HIDE DEF held
    <2> QED BY <1>4, <1>5, Greatest
  <1>7. PICK j \in peers : item(j).privilege_level = Max(held)
    BY <1>6
  <1>8. Max(held) \in Int /\ ~(cap.privilege_level > Max(held))
    BY <1>1, <1>2, <1>4, <1>6, DelegationShares
  <1> QED BY <1>7, <1>8 DEF item

\* An allowed delegation has what its parent hands on, or less.
LEMMA LinkAttenuates ==
    ASSUME NEW c, Delegation!Evaluate(c).valid, NEW names, IsFiniteSet(names["capabilities"]),
           Numbered(c, names, DelegationInts), NEW d \in DOMAIN DelegationParent(c),
           Delegation!Facts(c)[d] = {}
    PROVE  Delegation!Attenuates(c, d, DelegationParent(c)[d])
  <1> DEFINE p == DelegationParent(c)[d]
             del == Delegation!Item(c, "delegations", d)
             par == Delegation!Item(c, "delegations", p)
             cap(k) == Delegation!Item(c, "capabilities", k)
  <1>1. /\ d \in Delegation!Ids(c, "delegations") /\ p \in Delegation!Ids(c, "delegations")
        /\ p = del.parent_delegation_id
    BY DelegationsFormed DEF DelegationParent, Delegation!ParentsBy
  <1>2. \A x \in Delegation!Ids(c, "delegations") : Asks(c, x) \subseteq Delegation!Ids(c, "capabilities")
    BY DEF Asks, Delegation!Evaluate, Delegation!Outcome, Delegation!Rejected, Delegation!ManifestValid
  <1>3. Delegation!LinkRisks(c, d, Asks(c, p)) = {}
    BY AllowedLinks
  <1> HIDE DEF p
  <1>4. /\ "identity_continuity" \notin Delegation!LinkRisks(c, d, Asks(c, p))
        /\ "provenance_mismatch" \notin Delegation!LinkRisks(c, d, Asks(c, p))
        /\ "capability_laundering" \notin Delegation!LinkRisks(c, d, Asks(c, p))
    BY <1>3
  <1>5. /\ par.original_principal_id = del.original_principal_id /\ par.tenant_id = del.tenant_id
        /\ par.original_request_sha256 = del.original_request_sha256
        /\ ~(del.issued_at_epoch < par.issued_at_epoch) /\ ~(del.expires_at_epoch > par.expires_at_epoch)
        /\ \A k \in del.requested_capability_ids :
              ~Delegation!Exceeds(cap(k), Delegation!LevelsOf(c, Asks(c, p)))
    BY <1>1, <1>4 DEF Delegation!LinkRisks, Delegation!Fired
  <1>6. par.issued_at_epoch <= del.issued_at_epoch /\ del.expires_at_epoch <= par.expires_at_epoch
    BY <1>1, <1>5, DelegationNumbers
  <1>7. ASSUME NEW k \in del.requested_capability_ids
        PROVE  \E j \in Asks(c, p) : cap(j).family = cap(k).family /\ cap(k).privilege_level <= cap(j).privilege_level
    <2>1. k \in Delegation!Ids(c, "capabilities")
      BY <1>1, <1>2 DEF Asks
    <2>2. IsFiniteSet(Asks(c, p))
      BY <1>1, <1>2, DelegationNumbers, FS_Subset
    <2>3. \A x \in Asks(c, p) : cap(x).privilege_level \in Int
      BY <1>1, <1>2, DelegationNumbers
    <2>4. cap(k).privilege_level \in Int
      BY <2>1, DelegationNumbers
    <2> HIDE DEF cap
    <2>5. ~Delegation!Exceeds(cap(k), Delegation!LevelsOf(c, Asks(c, p)))
      BY <1>5
    <2> QED BY <2>2, <2>3, <2>4, <2>5, WithinLevels DEF cap
  <1> QED BY <1>5, <1>6, <1>7 DEF Delegation!Attenuates, Asks, p

\* What is attenuated twice is attenuated.
LEMMA AttenuatesOn ==
    ASSUME NEW c, NEW names, Numbered(c, names, DelegationInts),
           \A x \in Delegation!Ids(c, "delegations") : Asks(c, x) \subseteq Delegation!Ids(c, "capabilities"),
           NEW d \in Delegation!Ids(c, "delegations"), NEW a \in Delegation!Ids(c, "delegations"),
           NEW p \in Delegation!Ids(c, "delegations"),
           Delegation!Attenuates(c, d, a), Delegation!Attenuates(c, a, p)
    PROVE  Delegation!Attenuates(c, d, p)
  <1> DEFINE item(x) == Delegation!Item(c, "delegations", x)
             cap(k) == Delegation!Item(c, "capabilities", k)
  <1>1. \A x \in {d, a, p} : item(x).issued_at_epoch \in Int /\ item(x).expires_at_epoch \in Int
    BY DelegationNumbers
  <1>2. \A x \in {d, a, p} : \A k \in Asks(c, x) : cap(k).privilege_level \in Int
    BY DelegationNumbers
  <1> HIDE DEF item, cap
  <1>3. /\ item(d).original_principal_id = item(p).original_principal_id
        /\ item(d).tenant_id = item(p).tenant_id
        /\ item(d).original_request_sha256 = item(p).original_request_sha256
        /\ item(p).issued_at_epoch <= item(d).issued_at_epoch
        /\ item(d).expires_at_epoch <= item(p).expires_at_epoch
    BY <1>1 DEF Delegation!Attenuates, item
  <1>4. ASSUME NEW k \in Asks(c, d)
        PROVE  \E j \in Asks(c, p) : cap(j).family = cap(k).family /\ cap(k).privilege_level <= cap(j).privilege_level
    <2>1. PICK i \in Asks(c, a) : cap(i).family = cap(k).family /\ cap(k).privilege_level <= cap(i).privilege_level
      BY DEF Delegation!Attenuates, Asks, cap
    <2>2. PICK j \in Asks(c, p) : cap(j).family = cap(i).family /\ cap(i).privilege_level <= cap(j).privilege_level
      BY DEF Delegation!Attenuates, Asks, cap
    <2>3. cap(k).privilege_level <= cap(j).privilege_level
      BY <1>2, <2>1, <2>2
    <2> QED BY <2>1, <2>2, <2>3
  <1> QED BY <1>3, <1>4 DEF Delegation!Attenuates, Asks, item, cap

(* In a valid set of delegations an allowed one has no more than any of those it
   comes from, however long the chain: _evaluate compares each with its parent
   only. *)
THEOREM DelegationsAttenuate ==
    ASSUME NEW c, Delegation!Evaluate(c).valid, NEW names,
           IsFiniteSet(names["delegations"]), IsFiniteSet(names["capabilities"]),
           Numbered(c, names, DelegationInts)
    PROVE  Delegation!Attenuated(c, Delegation!Facts(c))
  <1> DEFINE D == Delegation!Ids(c, "delegations")
             parent == DelegationParent(c)
             facts == Delegation!Facts(c)
  <1>1. DOMAIN facts = D /\ \A d \in DOMAIN parent : d \in D /\ parent[d] \in D
    BY DelegationsJudged, DelegationsFormed DEF DelegationParent
  <1>2. IsFiniteSet(DOMAIN parent)
    BY <1>1, DelegationNumbers, FS_Subset
  <1>3. \A x \in D : Asks(c, x) \subseteq Delegation!Ids(c, "capabilities")
    BY DEF Asks, Delegation!Evaluate, Delegation!Outcome, Delegation!Rejected, Delegation!ManifestValid
  <1>4. \A d \in DOMAIN parent : facts[d] = {} => facts[parent[d]] = {}
    BY AllowedLinks
  <1>5. \A d \in DOMAIN parent : facts[d] = {} => Delegation!Attenuates(c, d, parent[d])
    BY LinkAttenuates
  <1> HIDE DEF D, parent, facts
  <1>6. ASSUME NEW d \in D, facts[d] = {}
        PROVE  \A a \in AncestorsOf(parent, d) : facts[a] = {} /\ a \in D /\ Delegation!Attenuates(c, d, a)
    <2> DEFINE S == {a \in D : facts[a] = {} /\ Delegation!Attenuates(c, d, a)}
    <2>1. Delegation!Attenuates(c, d, d)
      <3>1. /\ Delegation!Item(c, "delegations", d).issued_at_epoch \in Int
            /\ Delegation!Item(c, "delegations", d).expires_at_epoch \in Int
            /\ \A k \in Asks(c, d) : Delegation!Item(c, "capabilities", k).privilege_level \in Int
        BY <1>3, <1>6, DelegationNumbers DEF D
      <3> QED BY <3>1 DEF Delegation!Attenuates, Asks
    <2>2. ASSUME NEW a \in S, a \in DOMAIN parent PROVE parent[a] \in S
      <3>1. facts[parent[a]] = {} /\ Delegation!Attenuates(c, a, parent[a]) /\ parent[a] \in D
        BY <1>1, <1>4, <1>5, <2>2
      <3>2. Delegation!Attenuates(c, d, parent[a])
        BY <1>3, <1>6, <3>1, AttenuatesOn DEF D
      <3> QED BY <3>1, <3>2
    <2>3. d \in S
      BY <1>6, <2>1
    <2> HIDE DEF S
    <2>4. AncestorsOf(parent, d) \subseteq S
      BY <1>2, <2>2, <2>3, AncestorsWithin
    <2> QED BY <2>4 DEF S
  <1>7. \A d : Delegation!AncestorsOf(parent, d) = AncestorsOf(parent, d)
    BY DelegationShares
  <1>8. \A a \in D : a \in Delegation!Denied(facts) <=> facts[a] # {}
    BY <1>1 DEF Delegation!Denied
  <1> QED BY <1>6, <1>7, <1>8 DEF Delegation!Attenuated, D, parent, facts, DelegationParent

\* The same of the instances for budgets and messages.
LEMMA ForestsShared ==
    \A parent, x : /\ Budget!AncestorsOf(parent, x) = AncestorsOf(parent, x)
                   /\ Messages!AncestorsOf(parent, x) = AncestorsOf(parent, x)
  BY DEF Budget!AncestorsOf, Budget!Cardinality, Messages!AncestorsOf, Messages!Cardinality,
     AncestorsOf, Cardinality

\* The ceilings of the envelopes.
BudgetInts == [budgets |-> Budget!Ceilings]

\* The same for the ceilings of the envelopes.
LEMMA BudgetNumbers ==
    ASSUME NEW c, NEW names, Numbered(c, names, BudgetInts)
    PROVE  /\ Budget!Ids(c, "budgets") \subseteq names["budgets"]
           /\ \A b \in Budget!Ids(c, "budgets"), f \in Budget!Ceilings : Budget!Item(c, "budgets", b)[f] \in Int
  BY DEF Numbered, NumberedItems, BudgetInts, Budget!Ids, Budget!Item

(* In a valid set of envelopes none below the root of an allowed run has a higher
   ceiling than any of those it was carved from, however often they were divided:
   _derive compares each allocation's two envelopes only. *)
THEOREM BudgetsAttenuate ==
    ASSUME NEW c, Budget!Evaluate(c).valid, NEW names, IsFiniteSet(names["budgets"]),
           Numbered(c, names, BudgetInts)
    PROVE  Budget!Attenuated(c, Budget!Evaluate(c).facts)
  <1> DEFINE B == Budget!Ids(c, "budgets")
             parent == Budget!ParentOf(c)
             item(b) == Budget!Item(c, "budgets", b)
             facts == Budget!Facts(c)
  <1>1. Budget!ManifestValid(c) /\ Budget!Evaluate(c).facts = facts
    BY DEF Budget!Evaluate, Budget!Outcome, Budget!Rejected
  <1>2. \A b \in DOMAIN parent : b \in B /\ parent[b] \in B
    <2> SUFFICES ASSUME NEW b \in DOMAIN parent PROVE b \in B /\ parent[b] \in B
      OBVIOUS
    <2> DEFINE alloc(a) == Budget!Item(c, "allocations", a)
               A == Budget!Ids(c, "allocations")
               first == CHOOSE a \in A : alloc(a).child_budget_id = b
    <2>1. \E a \in A : alloc(a).child_budget_id = b
      BY DEF Budget!ParentOf
    <2>2. first \in A /\ alloc(first).child_budget_id = b
      BY <2>1
    <2>3. parent[b] = alloc(first).parent_budget_id
      BY <2>1 DEF Budget!ParentOf
    <2>4. \A a \in A : alloc(a).parent_budget_id \in B /\ alloc(a).child_budget_id \in B
      BY <1>1 DEF Budget!ManifestValid, Budget!Known
    <2> QED BY <2>2, <2>3, <2>4
  <1>3. IsFiniteSet(DOMAIN parent)
    BY <1>2, BudgetNumbers, FS_Subset
  <1>4. \A b \in B, f \in Budget!Ceilings : item(b)[f] \in Int
    BY BudgetNumbers
  <1> SUFFICES ASSUME NEW r \in Budget!Ids(c, "runs") \ Budget!Denied(facts),
                      NEW b \in Budget!Descendants(c, Budget!Item(c, "runs", r).root_budget_id)
               PROVE  \A a \in AncestorsOf(parent, b), f \in Budget!Ceilings : item(b)[f] <= item(a)[f]
    BY <1>1, ForestsShared DEF Budget!Attenuated
  <1> DEFINE root == Budget!Item(c, "runs", r).root_budget_id
             below == Budget!Descendants(c, root)
  <1>5. root \notin DOMAIN parent
    BY <1>1 DEF Budget!ManifestValid
  <1>6. below = {d \in B : root \in AncestorsOf(parent, d)}
    BY ForestsShared DEF Budget!Descendants
  <1>7. Budget!RunRisks(c, r) = {}
    BY DEF Budget!Denied, Budget!Facts
  <1>8. "delegated_budget_amplification" \notin Budget!AllocationRisks(c, root)
    BY <1>7 DEF Budget!RunRisks
  <1>9. \A d \in below \ {root}, f \in Budget!Ceilings : ~(item(d)[f] > item(parent[d])[f])
    BY <1>8 DEF Budget!AllocationRisks, Budget!Fired
  <1> DEFINE S == {a \in below : \A f \in Budget!Ceilings : item(b)[f] <= item(a)[f]}
  <1> HIDE DEF B, parent, root, item, below
  <1>10. b \in S
    BY <1>4, <1>6 DEF below, root
  <1>11. ASSUME NEW a \in S, a \in DOMAIN parent PROVE parent[a] \in S
    <2>1. a # root /\ a \in B /\ parent[a] \in B
      BY <1>2, <1>5, <1>11
    <2>2. root \in AncestorsOf(parent, parent[a])
      BY <1>3, <1>6, <1>11, <2>1, AncestorsBelow
    <2>3. ASSUME NEW f \in Budget!Ceilings PROVE item(b)[f] <= item(parent[a])[f]
      <3>1. ~(item(a)[f] > item(parent[a])[f]) /\ item(b)[f] <= item(a)[f]
        BY <1>9, <1>11, <2>1
      <3>2. item(a)[f] \in Int /\ item(b)[f] \in Int /\ item(parent[a])[f] \in Int
        BY <1>4, <1>6, <1>10, <2>1
      <3> QED BY <3>1, <3>2
    <2> QED BY <1>6, <2>1, <2>2, <2>3
  <1> HIDE DEF S
  <1>12. AncestorsOf(parent, b) \subseteq S
    BY <1>3, <1>10, <1>11, AncestorsWithin
  <1> QED BY <1>12 DEF S

\* The message that each answers or passes on, and the times of messages.
MessageParent(c) == Messages!ParentsBy(c, "messages", "parent_message_id")
MessageInts == [messages |-> {"issued_at_epoch", "expires_at_epoch"}]

\* The same for the times of the messages.
LEMMA MessageNumbers ==
    ASSUME NEW c, NEW names, Numbered(c, names, MessageInts)
    PROVE  /\ Messages!Ids(c, "messages") \subseteq names["messages"]
           /\ \A m \in Messages!Ids(c, "messages") :
                /\ Messages!Item(c, "messages", m).issued_at_epoch \in Int
                /\ Messages!Item(c, "messages", m).expires_at_epoch \in Int
  BY DEF Numbered, NumberedItems, MessageInts, Messages!Ids, Messages!Item

(* In a valid set of messages one that is allowed with all it came from belongs to
   the same work as each of those, and is sent and expires within their times,
   however long the chain: _derive compares each with its parent only. *)
THEOREM MessagesContinue ==
    ASSUME NEW c, Messages!Evaluate(c).valid, NEW names, IsFiniteSet(names["messages"]),
           Numbered(c, names, MessageInts)
    PROVE  Messages!Continued(c, Messages!Evaluate(c).facts)
  <1> DEFINE M == Messages!Ids(c, "messages")
             parent == MessageParent(c)
             item(m) == Messages!Item(c, "messages", m)
             facts == Messages!Facts(c)
             Same(m, a) == /\ item(m).original_principal_id = item(a).original_principal_id
                           /\ item(m).tenant_id = item(a).tenant_id
                           /\ item(m).task_id = item(a).task_id /\ item(m).goal_id = item(a).goal_id
                           /\ item(a).issued_at_epoch <= item(m).issued_at_epoch
                           /\ item(m).expires_at_epoch <= item(a).expires_at_epoch
  <1>1. Messages!ManifestValid(c) /\ Messages!Evaluate(c).facts = facts
    BY DEF Messages!Evaluate, Messages!Outcome, Messages!Rejected
  <1>2. \A m \in M : item(m).parent_message_id = Messages!None \/ item(m).parent_message_id \in M
    BY <1>1 DEF Messages!ManifestValid, Messages!MessageValid, Messages!Known
  <1>3. \A m \in DOMAIN parent : /\ m \in M /\ parent[m] \in M
                                 /\ item(m).parent_message_id = parent[m] /\ parent[m] # Messages!None
    BY <1>2 DEF MessageParent, Messages!ParentsBy
  <1>4. IsFiniteSet(DOMAIN parent)
    BY <1>3, MessageNumbers, FS_Subset
  <1>5. \A m \in M : item(m).issued_at_epoch \in Int /\ item(m).expires_at_epoch \in Int
    BY MessageNumbers
  <1>6. ASSUME NEW m \in DOMAIN parent, m \notin Messages!Denied(facts)
        PROVE  Same(m, parent[m])
    <2>1. Messages!ParentRisks(c, m) = {}
      BY <1>3, <1>6 DEF Messages!Denied, Messages!Facts
    <2>2. "provenance_discontinuity" \notin Messages!ParentRisks(c, m)
      BY <2>1
    <2>3. Messages!Continues(c, item(m), item(parent[m]))
      BY <1>3, <2>2 DEF Messages!ParentRisks, Messages!Fired
    <2> HIDE DEF item
    <2>4. /\ \A f \in {"original_principal_id", "tenant_id", "task_id", "goal_id"} : item(m)[f] = item(parent[m])[f]
          /\ item(m).issued_at_epoch >= item(parent[m]).issued_at_epoch
          /\ item(m).expires_at_epoch <= item(parent[m]).expires_at_epoch
      BY <2>3 DEF Messages!Continues
    <2>5. item(parent[m]).issued_at_epoch <= item(m).issued_at_epoch
      BY <1>3, <1>5, <2>4
    <2> QED BY <2>4, <2>5
  <1> HIDE DEF M, parent, facts
  <1>7. ASSUME NEW m \in M, AncestorsOf(parent, m) \cap Messages!Denied(facts) = {}
        PROVE  \A a \in AncestorsOf(parent, m) : Same(m, a)
    <2> DEFINE S == {a \in M : Same(m, a)}
    <2>1. m \in S
      BY <1>5, <1>7
    <2>2. ASSUME NEW a \in S, a \in DOMAIN parent, a \in AncestorsOf(parent, m)
          PROVE  parent[a] \in S
      <3>1. Same(a, parent[a])
        BY <1>6, <1>7, <2>2
      <3>2. Same(m, a) /\ a \in M /\ parent[a] \in M
        BY <1>3, <2>2
      <3> HIDE DEF item
      <3>3. Same(m, parent[a])
        BY <1>5, <3>1, <3>2
      <3> QED BY <3>2, <3>3
    <2> HIDE DEF S
    <2>3. AncestorsOf(parent, m) \subseteq S
      BY <1>4, <2>1, <2>2, AncestorsWithin
    <2> QED BY <2>3 DEF S
  <1>8. \A m : Messages!AncestorsOf(parent, m) = AncestorsOf(parent, m)
    BY ForestsShared
  <1> QED BY <1>1, <1>7, <1>8 DEF Messages!Continued, M, parent, facts, MessageParent

-----------------------------------------------------------------------------
(* Writes of shared objects.                                              *)

\* The transition that commits k-th, and the risks it is found to have.
Transition(c, k) == State!Item(c, "transitions", State!Ordered(c)[k])

TransitionRisks(c, k) ==
    LET t == Transition(c, k)
        left == State!After(c, k - 1)
    IN State!BoundRisks(c, t, left) \cup State!KeyRisks(c, t, left) \cup State!VersionRisks(c, t, left)

\* It is applied when it has none, unless it is a read.
Applied(c, k) == TransitionRisks(c, k) = {} /\ Transition(c, k).intent # "read"

\* What one more transition leaves.
LEMMA StateEffect ==
    ASSUME NEW c, NEW k \in Nat, k # 0
    PROVE  LET left == State!After(c, k - 1)
               next == State!After(c, k)
               t == Transition(c, k)
           IN /\ next.facts = State!With(left.facts, State!Ordered(c)[k], TransitionRisks(c, k))
              /\ next.versions = IF Applied(c, k)
                                 THEN [left.versions EXCEPT ![t.object_id] = t.proposed_version]
                                 ELSE left.versions
              /\ next.hashes = IF Applied(c, k)
                               THEN [left.hashes EXCEPT ![t.object_id] = t.proposed_state_sha256]
                               ELSE left.hashes
  <1>1. k - 1 \in Nat /\ k = (k - 1) + 1
    OBVIOUS
  <1>2. State!After(c, k) = StateStep(c, State!After(c, k - 1), k)
    BY <1>1, StateReplayStep
  <1> QED BY <1>2 DEF StateStep, State!Replay, TransitionRisks, Transition, Applied

\* A write is applied only onto the version and the state that it expects.
LEMMA AppliedWrites ==
    ASSUME NEW c, NEW k, Applied(c, k)
    PROVE  LET left == State!After(c, k - 1)
               t == Transition(c, k)
           IN /\ t.expected_version = left.versions[t.object_id]
              /\ t.expected_state_sha256 = left.hashes[t.object_id]
              /\ t.proposed_version = t.expected_version + 1
  <1> DEFINE left == State!After(c, k - 1)
             t == Transition(c, k)
  <1>1. State!VersionRisks(c, t, left) = {} /\ t.intent # "read"
    BY DEF Applied, TransitionRisks
  <1>2. "stale_expected_version" \notin State!VersionRisks(c, t, left)
        /\ "expected_state_mismatch" \notin State!VersionRisks(c, t, left)
        /\ "version_non_monotonic" \notin State!VersionRisks(c, t, left)
    BY <1>1
  <1>3. t.expected_version = left.versions[t.object_id]
    BY <1>1, <1>2 DEF State!VersionRisks, State!Fired
  <1>4. t.expected_state_sha256 = left.hashes[t.object_id]
    BY <1>1, <1>2, Zenon DEF State!VersionRisks, State!Fired
  <1>5. t.proposed_version = t.expected_version + 1
    BY <1>1, <1>2, Zenon DEF State!VersionRisks, State!Fired
  <1> QED BY <1>3, <1>4, <1>5

\* A replay of distinct transitions of known objects: N of them.
Commits(c, N) ==
    /\ N \in Nat
    /\ \A k \in 1..N : Transition(c, k).object_id \in State!Ids(c, "objects")
    /\ \A j, k \in 1..N : j # k => State!Ordered(c)[j] # State!Ordered(c)[k]

\* Once judged, a transition is not judged again.
LEMMA JudgedOnce ==
    ASSUME NEW c, NEW N, Commits(c, N)
    PROVE  \A n \in 0..N : \A k \in 1..n :
               State!After(c, n).facts[State!Ordered(c)[k]] = TransitionRisks(c, k)
  <1> DEFINE T == {n \in 0..N : ~\A k \in 1..n :
                     State!After(c, n).facts[State!Ordered(c)[k]] = TransitionRisks(c, k)
                     /\ State!Ordered(c)[k] \in DOMAIN State!After(c, n).facts}
  <1>0. SUFFICES ASSUME T # {} PROVE FALSE
    OBVIOUS
  <1>1. PICK n \in T : \A j \in T : n <= j
    <2> T \subseteq Nat BY DEF Commits
    <2> HIDE DEF T
    <2> QED BY <1>0, Walk!LeastNat, Zenon
  <1>2. N \in Nat /\ n \in 0..N /\ n # 0
    BY DEF Commits
  <1>3. n - 1 \in 0..N /\ n - 1 \notin T
    BY <1>1, <1>2
  <1>4. \A k \in 1..(n - 1) :
            /\ State!After(c, n - 1).facts[State!Ordered(c)[k]] = TransitionRisks(c, k)
            /\ State!Ordered(c)[k] \in DOMAIN State!After(c, n - 1).facts
    BY <1>3
  <1>5. State!After(c, n).facts
          = State!With(State!After(c, n - 1).facts, State!Ordered(c)[n], TransitionRisks(c, n))
    <2>1. n \in Nat /\ n # 0
      BY <1>2
    <2> HIDE DEF T
    <2> QED BY <2>1, StateEffect
  <1>6. ASSUME NEW k \in 1..n
        PROVE  /\ State!After(c, n).facts[State!Ordered(c)[k]] = TransitionRisks(c, k)
               /\ State!Ordered(c)[k] \in DOMAIN State!After(c, n).facts
    <2>1. CASE k = n
      BY <1>5, <2>1 DEF State!With
    <2>2. CASE k # n
      <3>1. k \in 1..(n - 1) /\ State!Ordered(c)[k] # State!Ordered(c)[n]
        BY <1>2, <2>2 DEF Commits
      <3> QED BY <1>4, <1>5, <3>1 DEF State!With
    <2> QED BY <2>1, <2>2
  <1> QED BY <1>1, <1>6

\* The greatest of some numbers and of a greater one.
LEMMA MaxNext ==
    ASSUME NEW n \in Nat, NEW S, S \subseteq 0..n
    PROVE  /\ State!Max(S \cup {n + 1}) = n + 1
           /\ Artifacts!Max(S \cup {n + 1}) = n + 1
  <1> DEFINE W == S \cup {n + 1}
  <1>1. \A x \in W : (\A y \in W : x >= y) => x = n + 1
    <2> TAKE x \in W
    <2> HAVE \A y \in W : x >= y
    <2> QED OBVIOUS
  <1>2. n + 1 \in W /\ \A y \in W : n + 1 >= y
    OBVIOUS
  <1> HIDE DEF W
  <1>3. (CHOOSE x \in W : \A y \in W : x >= y) = n + 1
    BY <1>1, <1>2
  <1>4. State!Max(W) = n + 1
    BY <1>3 DEF State!Max
  <1>5. Artifacts!Max(W) = n + 1
    BY <1>3 DEF Artifacts!Max
  <1> QED BY <1>4, <1>5 DEF W

\* The applied writes of an object among the first n transitions, and the version
\* and state of the object that they leave.
AppliedTo(c, o, n) == {k \in 1..n : Applied(c, k) /\ Transition(c, k).object_id = o}

LeftBy(c, o, n) ==
    LET start == State!Item(c, "objects", o)
        done == AppliedTo(c, o, n)
        last == Transition(c, State!Max(done))
    IN <<IF done = {} THEN start.version ELSE last.proposed_version,
         IF done = {} THEN start.state_sha256 ELSE last.proposed_state_sha256>>

\* The version and state of an object are those that its last applied write left.
LEMMA WritesLeave ==
    ASSUME NEW c, NEW N, Commits(c, N)
    PROVE  \A n \in 0..N : \A o \in State!Ids(c, "objects") :
               <<State!After(c, n).versions[o], State!After(c, n).hashes[o]>> = LeftBy(c, o, n)
  <1> DEFINE Good(n) ==
                LET left == State!After(c, n) IN
                /\ DOMAIN left.versions = State!Ids(c, "objects")
                /\ DOMAIN left.hashes = State!Ids(c, "objects")
                /\ \A o \in State!Ids(c, "objects") :
                     <<left.versions[o], left.hashes[o]>> = LeftBy(c, o, n)
             T == {n \in 0..N : ~Good(n)}
  <1>0. SUFFICES ASSUME T # {} PROVE FALSE
    BY Zenon
  <1>1. PICK n \in T : \A j \in T : n <= j
    <2> T \subseteq Nat BY DEF Commits
    <2> HIDE DEF T
    <2> QED BY <1>0, Walk!LeastNat, Zenon
  <1>2. N \in Nat /\ n \in 0..N /\ ~Good(n)
    BY DEF Commits
  <1> HIDE DEF T
  <1>3. Good(0)
    <2>1. State!After(c, 0) = State!Start(c)
      BY StateReplayStep
    <2>2. \A o : AppliedTo(c, o, 0) = {}
      BY DEF AppliedTo
    <2> QED BY <2>1, <2>2 DEF State!Start, LeftBy
  <1>4. n # 0
    BY <1>2, <1>3
  <1>5. n - 1 \in 0..N /\ n - 1 \in Nat /\ n = (n - 1) + 1 /\ n \in 1..N
    BY <1>2, <1>4
  <1>6. Good(n - 1)
    BY <1>1, <1>5 DEF T
  <1> DEFINE left == State!After(c, n - 1)
             next == State!After(c, n)
             t == Transition(c, n)
  <1>7. /\ next.versions = IF Applied(c, n)
                           THEN [left.versions EXCEPT ![t.object_id] = t.proposed_version]
                           ELSE left.versions
        /\ next.hashes = IF Applied(c, n)
                         THEN [left.hashes EXCEPT ![t.object_id] = t.proposed_state_sha256]
                         ELSE left.hashes
    BY <1>2, <1>4, StateEffect
  <1>8. ASSUME NEW o \in State!Ids(c, "objects")
        PROVE  <<next.versions[o], next.hashes[o]>> = LeftBy(c, o, n)
    <2>1. CASE Applied(c, n) /\ t.object_id = o
      <3>1. AppliedTo(c, o, n) = AppliedTo(c, o, n - 1) \cup {n}
        BY <1>5, <2>1 DEF AppliedTo
      <3>2. AppliedTo(c, o, n - 1) \subseteq 0..(n - 1)
        BY DEF AppliedTo
      <3>3. State!Max(AppliedTo(c, o, n)) = n
        BY <1>5, <3>1, <3>2, MaxNext
      <3>4. LeftBy(c, o, n) = <<t.proposed_version, t.proposed_state_sha256>>
        BY <3>1, <3>3 DEF LeftBy
      <3>5. next.versions[o] = t.proposed_version /\ next.hashes[o] = t.proposed_state_sha256
        BY <1>6, <1>7, <2>1
      <3> QED BY <3>4, <3>5
    <2>2. CASE ~(Applied(c, n) /\ t.object_id = o)
      <3>1. AppliedTo(c, o, n) = AppliedTo(c, o, n - 1)
        BY <1>5, <2>2 DEF AppliedTo
      <3>2. LeftBy(c, o, n) = LeftBy(c, o, n - 1)
        BY <3>1 DEF LeftBy
      <3>3. next.versions[o] = left.versions[o] /\ next.hashes[o] = left.hashes[o]
        BY <1>6, <1>7, <2>2
      <3> QED BY <1>6, <3>2, <3>3
    <2> QED BY <2>1, <2>2
  <1>9. Good(n)
    BY <1>6, <1>7, <1>8
  <1> QED BY <1>2, <1>9

\* The writes that are allowed can be done one after the other.
LEMMA SerialWrites ==
    ASSUME NEW c, Commits(c, State!Cardinality(State!Ids(c, "transitions")))
    PROVE  State!Serial(c, State!Facts(c))
  <1> DEFINE N == State!Cardinality(State!Ids(c, "transitions"))
             facts == State!Facts(c)
  <1>1. N \in Nat
    BY DEF Commits
  <1>2. \A k \in 1..N : facts[State!Ordered(c)[k]] = TransitionRisks(c, k)
    BY <1>1, JudgedOnce DEF State!Facts, State!Derive
  <1>3. \A o : State!WritesOf(c, facts, o) = AppliedTo(c, o, N)
    BY <1>2 DEF State!WritesOf, AppliedTo, Applied, Transition
  <1>4. SUFFICES ASSUME NEW o \in State!Ids(c, "objects"), NEW k \in AppliedTo(c, o, N)
                 PROVE  LET before == {j \in AppliedTo(c, o, N) : j < k}
                            start == State!Item(c, "objects", o)
                            t == Transition(c, k)
                            last == Transition(c, State!Max(before))
                        IN /\ t.proposed_version = t.expected_version + 1
                           /\ t.expected_version =
                                IF before = {} THEN start.version ELSE last.proposed_version
                           /\ t.expected_state_sha256 =
                                IF before = {} THEN start.state_sha256 ELSE last.proposed_state_sha256
    BY <1>3 DEF State!Serial, Transition
  <1> HIDE DEF N, facts
  <1>5. k \in 1..N /\ k - 1 \in 0..N /\ Applied(c, k) /\ Transition(c, k).object_id = o
    BY <1>1, <1>4 DEF AppliedTo
  <1>6. {j \in AppliedTo(c, o, N) : j < k} = AppliedTo(c, o, k - 1)
    BY <1>1, <1>5 DEF AppliedTo
  <1>7. <<State!After(c, k - 1).versions[o], State!After(c, k - 1).hashes[o]>> = LeftBy(c, o, k - 1)
    BY <1>5, WritesLeave DEF N
  <1> QED BY <1>5, <1>6, <1>7, AppliedWrites DEF LeftBy

-----------------------------------------------------------------------------
(* The order of the commits.                                              *)

\* The members of S that the relation R puts before x.
Below(S, R, x) == {y \in S : <<y, x>> \in R}

(* In a finite set that R orders strictly and totally, every rank from 0 on is
   the rank of a member: two members never have one rank, so none is left out. *)
LEMMA RankTaken ==
    ASSUME NEW S, IsFiniteSet(S), NEW R,
           \A x \in S : <<x, x>> \notin R,
           \A x, y, z \in S : <<x, y>> \in R /\ <<y, z>> \in R => <<x, z>> \in R,
           \A x, y \in S : x # y => <<x, y>> \in R \/ <<y, x>> \in R,
           NEW k \in 1..Cardinality(S)
    PROVE  \E x \in S : Cardinality(Below(S, R, x)) = k - 1
  <1> DEFINE n == Cardinality(S)
             rank == [x \in S |-> Cardinality(Below(S, R, x))]
             others == (0..(n - 1)) \ {k - 1}
  <1>1. n \in Nat
    BY FS_CardinalityType
  <1>2. \A x \in S : IsFiniteSet(Below(S, R, x)) /\ Cardinality(Below(S, R, x)) \in 0..(n - 1)
    <2> TAKE x \in S
    <2>1. Below(S, R, x) \in SUBSET S /\ x \notin Below(S, R, x)
      BY DEF Below
    <2>2. IsFiniteSet(Below(S, R, x)) /\ Cardinality(Below(S, R, x)) <= n
          /\ Cardinality(Below(S, R, x)) # n
      BY <2>1, FS_Subset
    <2>3. Cardinality(Below(S, R, x)) \in Nat
      BY <2>2, FS_CardinalityType
    <2> QED BY <1>1, <2>2, <2>3
  <1>3. ASSUME NEW x \in S, NEW y \in S, <<x, y>> \in R
        PROVE  Cardinality(Below(S, R, x)) # Cardinality(Below(S, R, y))
    <2>1. Below(S, R, x) \in SUBSET Below(S, R, y)
      BY <1>3 DEF Below
    <2>2. x \in Below(S, R, y) /\ x \notin Below(S, R, x)
      BY <1>3 DEF Below
    <2> QED BY <1>2, <2>1, <2>2, FS_Subset
  <1>4. SUFFICES ASSUME \A x \in S : Cardinality(Below(S, R, x)) # k - 1
                 PROVE  FALSE
    OBVIOUS
  <1>5. rank \in [S -> others]
    BY <1>2, <1>4
  <1>6. IsFiniteSet(others) /\ Cardinality(others) = n - 1
    <2>1. k \in 1..n /\ n - 1 \in Int /\ 0 \in Int
      BY <1>1
    <2>2. IsFiniteSet(0..(n - 1)) /\ Cardinality(0..(n - 1)) = n
      BY <1>1, <2>1, FS_Interval
    <2>3. k - 1 \in 0..(n - 1)
      BY <1>1, <2>1
    <2> DEFINE all == 0..(n - 1)
               this == k - 1
    <2>4. IsFiniteSet(all) /\ Cardinality(all) = n /\ this \in all
      BY <2>2, <2>3
    <2> HIDE DEF n, all, this
    <2>5. IsFiniteSet(all \ {this}) /\ Cardinality(all \ {this}) = Cardinality(all) - 1
      BY <2>4, FS_RemoveElement
    <2>6. IsFiniteSet(all \ {this}) /\ Cardinality(all \ {this}) = n - 1
      BY <2>4, <2>5
    <2> QED BY <2>6 DEF all, this
  <1>7. PICK x \in S, y \in S : x # y /\ rank[x] = rank[y]
    <2>1. Cardinality(others) < Cardinality(S)
      BY <1>1, <1>6
    <2> HIDE DEF rank, others, n
    <2> QED BY <1>5, <1>6, <2>1, FS_PigeonHole
  <1> QED BY <1>3, <1>7, Zenon

\* An instance's cardinality is the cardinality.
LEMMA SameCardinality == \A S : State!Cardinality(S) = Cardinality(S)
  BY DEF State!Cardinality, Cardinality

\* The transitions are dated: each has the epochs that order the commits, and an
\* identifier of which the model knows how it sorts.
Epochs == {"commit_at_epoch", "issued_at_epoch"}
TransitionNames == [transitions |-> {State!TransitionIds[k] : k \in 1..6}]
TransitionInts == [transitions |-> Epochs]

Dated(c) == Numbered(c, TransitionNames, TransitionInts)

\* In dated documents a transition has a rank, and its epochs are integers.
LEMMA DatedTransitions ==
    ASSUME NEW c, Dated(c), NEW x \in State!Ids(c, "transitions")
    PROVE  /\ \E k \in 1..6 : State!TransitionIds[k] = x
           /\ \A f \in Epochs : State!Item(c, "transitions", x)[f] \in Int
  BY DEF Dated, Numbered, NumberedItems, TransitionNames, TransitionInts, State!Ids, State!Item

\* Identifiers that differ have ranks that differ.
LEMMA RankOfTransition ==
    ASSUME NEW x, \E k \in 1..6 : State!TransitionIds[k] = x
    PROVE  State!RankOf(x) \in 1..6 /\ State!TransitionIds[State!RankOf(x)] = x
  <1>1. DOMAIN State!TransitionIds = 1..6
    BY DEF State!TransitionIds
  <1> HIDE DEF State!TransitionIds
  <1> QED BY <1>1 DEF State!RankOf

\* Any two of the transitions are ordered by when they commit, when they were issued
\* and their identifiers: sorting them leaves each its own place.
LEMMA CommitsOrdered ==
    ASSUME NEW c, Dated(c),
           \A x \in State!Ids(c, "transitions") :
              State!Item(c, "transitions", x).object_id \in State!Ids(c, "objects")
    PROVE  Commits(c, State!Cardinality(State!Ids(c, "transitions")))
  <1> DEFINE S == State!Ids(c, "transitions")
             R == {p \in S \X S : State!CommitsBefore(c, p[1], p[2])}
             commit(x) == State!Item(c, "transitions", x).commit_at_epoch
             issued(x) == State!Item(c, "transitions", x).issued_at_epoch
             rank(x) == State!RankOf(x)
  <1>1. \A x \in S : commit(x) \in Int /\ issued(x) \in Int
    BY DatedTransitions DEF Epochs
  <1>2. \A x \in S : rank(x) \in 1..6 /\ State!TransitionIds[rank(x)] = x
    BY RankOfTransition, DatedTransitions
  <1>3. \A x, y \in S :
            <<x, y>> \in R <=> \/ commit(x) < commit(y)
                               \/ commit(x) = commit(y) /\ issued(x) < issued(y)
                               \/ commit(x) = commit(y) /\ issued(x) = issued(y) /\ rank(x) < rank(y)
    BY DEF State!CommitsBefore
  <1>4. \A x, y \in S : x # y => rank(x) # rank(y)
    BY <1>2
  <1>5. IsFiniteSet(S)
    <2> DEFINE f == [x \in S |-> rank(x)]
    <2>1. f \in Injection(S, 1..6)
      BY <1>2, <1>4 DEF Injection, IsInjective
    <2>2. IsFiniteSet(1..6)
      <3>1. 1 \in Int /\ 6 \in Int
        OBVIOUS
      <3> QED BY <3>1, FS_Interval, Zenon
    <2> HIDE DEF f
    <2> QED BY <2>1, <2>2, FS_Injection
  <1> HIDE DEF S, R, commit, issued, rank
  <1>6. \A x \in S : <<x, x>> \notin R
    BY <1>1, <1>2, <1>3
  <1>7. \A x, y, z \in S : <<x, y>> \in R /\ <<y, z>> \in R => <<x, z>> \in R
    BY <1>1, <1>2, <1>3
  <1>8. \A x, y \in S : x # y => <<x, y>> \in R \/ <<y, x>> \in R
    BY <1>1, <1>2, <1>3, <1>4
  <1>9. \A k \in 1..Cardinality(S) : \E x \in S : Cardinality(Below(S, R, x)) = k - 1
    BY <1>5, <1>6, <1>7, <1>8, RankTaken
  <1>10. \A x \in S : {y \in S : State!CommitsBefore(c, y, x)} = Below(S, R, x)
    BY DEF Below, R
  <1>11. ASSUME NEW k \in 1..Cardinality(S)
         PROVE  /\ State!Ordered(c)[k] \in S
                /\ Cardinality(Below(S, R, State!Ordered(c)[k])) = k - 1
    <2>1. State!Ordered(c)[k]
            = CHOOSE x \in S : State!Cardinality({y \in S : State!CommitsBefore(c, y, x)}) = k - 1
      BY SameCardinality DEF State!Ordered, State!OrderedBy, S
    <2>2. \E x \in S : State!Cardinality({y \in S : State!CommitsBefore(c, y, x)}) = k - 1
      BY <1>9, <1>10, SameCardinality
    <2>3. /\ State!Ordered(c)[k] \in S
          /\ State!Cardinality({y \in S : State!CommitsBefore(c, y, State!Ordered(c)[k])}) = k - 1
      BY <2>1, <2>2
    <2> QED BY <2>3, <1>10, SameCardinality
  <1>12. Cardinality(S) \in Nat
    BY <1>5, FS_CardinalityType
  <1>13. \A j, k \in 1..Cardinality(S) : j # k => State!Ordered(c)[j] # State!Ordered(c)[k]
    BY <1>11, <1>12
  <1>14. \A k \in 1..Cardinality(S) : Transition(c, k).object_id \in State!Ids(c, "objects")
    BY <1>11 DEF S, Transition
  <1>15. State!Cardinality(State!Ids(c, "transitions")) = Cardinality(S)
    BY SameCardinality DEF S
  <1> QED BY <1>12, <1>13, <1>14, <1>15 DEF Commits

(* The writes of a valid set of dated transitions that are allowed together can be
   done one after the other. *)
THEOREM StateSerial ==
    ASSUME NEW c, Dated(c), State!Evaluate(c).valid
    PROVE  State!Serial(c, State!Evaluate(c).facts)
  <1>1. State!ManifestValid(c) /\ State!Evaluate(c).facts = State!Facts(c)
    BY DEF State!Evaluate, State!Outcome, State!Rejected
  <1>2. \A x \in State!Ids(c, "transitions") :
            State!Item(c, "transitions", x).object_id \in State!Ids(c, "objects")
    BY <1>1, Zenon DEF State!ManifestValid, State!TransitionValid, State!Known
  <1> QED BY <1>1, <1>2, CommitsOrdered, SerialWrites

-----------------------------------------------------------------------------
(* Actions on artifacts.                                                  *)

\* The list of actions names each once.
Listed(c) ==
    /\ "request" \in DOMAIN c
    /\ "order" \in DOMAIN c.request
    /\ Len(c.request.order) \in Nat
    /\ DOMAIN c.request.order = 1..Len(c.request.order)
    /\ \A j, k \in DOMAIN c.request.order : c.request.order[j] = c.request.order[k] => j = k

\* The k-th action of the list, whether the manifest has it, and the risks it is
\* found to have.
Act(c, k) == Artifacts!Item(c, "actions", c.request.order[k])

Present(c, k) == Artifacts!Known(c, "actions", c.request.order[k])

ActRisks(c, k) ==
    Artifacts!PathRisks(c, c.request.order[k])
    \cup Artifacts!OriginRisks(c, c.request.order[k], Artifacts!After(c, k - 1))

\* What it leaves of its artifact when it is allowed.
ActLeaves(c, k) ==
    IF Act(c, k).operation = "execute" THEN Act(c, k).expected_base_sha256
    ELSE Act(c, k).proposed_content_sha256

\* What one more action of the list leaves.
LEMMA ArtifactEffect ==
    ASSUME NEW c, NEW k \in Nat, k # 0
    PROVE  LET left == Artifacts!After(c, k - 1)
               next == Artifacts!After(c, k)
               applied == ActRisks(c, k) = {} /\ Act(c, k).operation # "execute"
           IN IF Present(c, k)
              THEN /\ next.facts = Artifacts!With(left.facts, c.request.order[k], ActRisks(c, k))
                   /\ next.content = IF applied
                                     THEN [left.content EXCEPT ![Act(c, k).artifact_id]
                                              = Act(c, k).proposed_content_sha256]
                                     ELSE left.content
              ELSE next = left
  <1>1. k - 1 \in Nat /\ k = (k - 1) + 1
    OBVIOUS
  <1>2. Artifacts!After(c, k) = ArtifactStep(c, Artifacts!After(c, k - 1), k)
    BY <1>1, ArtifactReplayStep
  <1>3. CASE Present(c, k)
    BY <1>2, <1>3 DEF ArtifactStep, Artifacts!Replay, ActRisks, Act, Present
  <1>4. CASE ~Present(c, k)
    BY <1>2, <1>4 DEF ArtifactStep, Present
  <1> QED BY <1>3, <1>4

\* An action is allowed only from the content that it expects.
LEMMA ActExpects ==
    ASSUME NEW c, NEW k, ActRisks(c, k) = {}
    PROVE  Act(c, k).expected_base_sha256 = Artifacts!After(c, k - 1).content[Act(c, k).artifact_id]
  <1>1. "base_digest_mismatch" \notin
            Artifacts!OriginRisks(c, c.request.order[k], Artifacts!After(c, k - 1))
    BY DEF ActRisks
  <1> QED BY <1>1, Zenon DEF Artifacts!OriginRisks, Artifacts!Fired, Act

\* The actions of the list that the manifest has are on artifacts that it has.
Targeted(c) ==
    \A k \in 1..Len(c.request.order) :
        Present(c, k) => Act(c, k).artifact_id \in Artifacts!Ids(c, "artifacts")

\* Once judged, an action is not judged again.
LEMMA ActJudgedOnce ==
    ASSUME NEW c, Listed(c)
    PROVE  \A n \in 0..Len(c.request.order) : \A k \in 1..n :
               Present(c, k) => Artifacts!After(c, n).facts[c.request.order[k]] = ActRisks(c, k)
  <1> DEFINE N == Len(c.request.order)
             order == c.request.order
             Good(n) == \A k \in 1..n : Present(c, k) =>
                           /\ Artifacts!After(c, n).facts[order[k]] = ActRisks(c, k)
                           /\ order[k] \in DOMAIN Artifacts!After(c, n).facts
             T == {n \in 0..N : ~Good(n)}
  <1>0. N \in Nat /\ \A j, k \in 1..N : order[j] = order[k] => j = k
    BY DEF Listed
  <1> HIDE DEF N, order
  <1>1. SUFFICES ASSUME T # {} PROVE FALSE
    BY DEF N, order
  <1>2. PICK n \in T : \A j \in T : n <= j
    <2> T \subseteq Nat BY <1>0
    <2> HIDE DEF T
    <2> QED BY <1>1, Walk!LeastNat
  <1>3. n \in 0..N /\ ~Good(n) /\ n # 0
    OBVIOUS
  <1>4. Good(n - 1)
    BY <1>0, <1>2, <1>3
  <1>5. n \in Nat /\ n \in 1..N
    BY <1>0, <1>3
  <1> HIDE DEF T
  <1>6. IF Present(c, n)
        THEN Artifacts!After(c, n).facts
               = Artifacts!With(Artifacts!After(c, n - 1).facts, order[n], ActRisks(c, n))
        ELSE Artifacts!After(c, n) = Artifacts!After(c, n - 1)
    BY <1>3, <1>5, ArtifactEffect, Zenon DEF order
  <1>7. ASSUME NEW k \in 1..n, Present(c, k)
        PROVE  /\ Artifacts!After(c, n).facts[order[k]] = ActRisks(c, k)
               /\ order[k] \in DOMAIN Artifacts!After(c, n).facts
    <2>1. CASE k = n
      BY <1>6, <1>7, <2>1 DEF Artifacts!With
    <2>2. CASE k # n
      <3>1. k \in 1..(n - 1) /\ order[k] # order[n]
        BY <1>0, <1>5, <2>2
      <3> QED BY <1>4, <1>6, <1>7, <3>1 DEF Artifacts!With
    <2> QED BY <2>1, <2>2
  <1> QED BY <1>3, <1>7

\* The allowed actions on an artifact among the first n of the list, and the content
\* that they leave.
AllowedOn(c, a, n) ==
    {k \in 1..n : Present(c, k) /\ ActRisks(c, k) = {} /\ Act(c, k).artifact_id = a}

ContentLeft(c, a, n) ==
    IF AllowedOn(c, a, n) = {} THEN Artifacts!Item(c, "artifacts", a).content_sha256
    ELSE ActLeaves(c, Artifacts!Max(AllowedOn(c, a, n)))

\* The content of an artifact is what the last allowed action on it left.
LEMMA ActionsLeave ==
    ASSUME NEW c, Listed(c), Targeted(c)
    PROVE  \A n \in 0..Len(c.request.order) : \A a \in Artifacts!Ids(c, "artifacts") :
               Artifacts!After(c, n).content[a] = ContentLeft(c, a, n)
  <1> DEFINE N == Len(c.request.order)
             Good(n) ==
                /\ DOMAIN Artifacts!After(c, n).content = Artifacts!Ids(c, "artifacts")
                /\ \A a \in Artifacts!Ids(c, "artifacts") :
                     Artifacts!After(c, n).content[a] = ContentLeft(c, a, n)
             T == {n \in 0..N : ~Good(n)}
  <1>0. N \in Nat
    BY DEF Listed
  <1> HIDE DEF N
  <1>1. SUFFICES ASSUME T # {} PROVE FALSE
    BY DEF N
  <1>2. PICK n \in T : \A j \in T : n <= j
    <2> T \subseteq Nat BY <1>0
    <2> HIDE DEF T
    <2> QED BY <1>1, Walk!LeastNat
  <1>3. n \in 0..N /\ ~Good(n)
    OBVIOUS
  <1> HIDE DEF T
  <1>4. Good(0)
    <2>1. Artifacts!After(c, 0) = Artifacts!Start(c)
      BY ArtifactReplayStep
    <2>2. \A a : AllowedOn(c, a, 0) = {}
      BY DEF AllowedOn
    <2> QED BY <2>1, <2>2 DEF Artifacts!Start, ContentLeft
  <1>5. n # 0
    BY <1>3, <1>4
  <1>6. n - 1 \in 0..N /\ n - 1 \in Nat /\ n = (n - 1) + 1 /\ n \in 1..N /\ n \in Nat
    BY <1>0, <1>3, <1>5
  <1>7. Good(n - 1)
    BY <1>2, <1>6 DEF T
  <1> DEFINE left == Artifacts!After(c, n - 1)
             next == Artifacts!After(c, n)
             act == Act(c, n)
  <1>8. /\ Present(c, n) =>
             next.content = IF ActRisks(c, n) = {} /\ act.operation # "execute"
                            THEN [left.content EXCEPT ![act.artifact_id] = act.proposed_content_sha256]
                            ELSE left.content
        /\ ~Present(c, n) => next = left
    BY <1>5, <1>6, ArtifactEffect
  <1>9. ASSUME NEW a \in Artifacts!Ids(c, "artifacts")
        PROVE  next.content[a] = ContentLeft(c, a, n)
    <2>1. CASE Present(c, n) /\ ActRisks(c, n) = {} /\ act.artifact_id = a
      <3>1. AllowedOn(c, a, n) = AllowedOn(c, a, n - 1) \cup {n}
        BY <1>6, <2>1 DEF AllowedOn
      <3>2. AllowedOn(c, a, n - 1) \subseteq 0..(n - 1)
        BY DEF AllowedOn
      <3>3. Artifacts!Max(AllowedOn(c, a, n)) = n
        BY <1>6, <3>1, <3>2, MaxNext
      <3>4. ContentLeft(c, a, n) = ActLeaves(c, n)
        BY <3>1, <3>3 DEF ContentLeft
      <3>5. act.expected_base_sha256 = left.content[a]
        BY <2>1, ActExpects
      <3> QED BY <1>7, <1>8, <2>1, <3>4, <3>5 DEF ActLeaves
    <2>2. CASE ~(Present(c, n) /\ ActRisks(c, n) = {} /\ act.artifact_id = a)
      <3>1. AllowedOn(c, a, n) = AllowedOn(c, a, n - 1)
        BY <1>6, <2>2 DEF AllowedOn
      <3>2. ContentLeft(c, a, n) = ContentLeft(c, a, n - 1)
        BY <3>1 DEF ContentLeft
      <3>3. next.content[a] = left.content[a]
        BY <1>7, <1>8, <2>2
      <3> QED BY <1>7, <3>2, <3>3
    <2> QED BY <2>1, <2>2
  <1>10. DOMAIN next.content = Artifacts!Ids(c, "artifacts")
    BY <1>7, <1>8
  <1> QED BY <1>3, <1>9, <1>10

(* The actions on an artifact that a valid manifest has and that are allowed together
   can be done one after the other, in whatever order it lists them. *)
THEOREM ArtifactsSerial ==
    ASSUME NEW c, Listed(c), Artifacts!Evaluate(c).valid
    PROVE  Artifacts!Serial(c, Artifacts!Evaluate(c).facts)
  <1> DEFINE N == Len(c.request.order)
             facts == Artifacts!Facts(c)
  <1>1. Artifacts!ManifestValid(c) /\ Artifacts!Evaluate(c).facts = facts
    BY DEF Artifacts!Evaluate, Artifacts!Outcome, Artifacts!Rejected
  <1>2. Targeted(c)
    BY <1>1 DEF Artifacts!ManifestValid, Artifacts!ActionValid, Artifacts!Known, Targeted, Present, Act
  <1>3. N \in Nat /\ DOMAIN c.request.order = 1..N
    BY DEF Listed
  <1>4. \A k \in 1..N : Present(c, k) => facts[c.request.order[k]] = ActRisks(c, k)
    BY <1>3, ActJudgedOnce DEF Artifacts!Facts, Artifacts!Derive
  <1>5. \A a : Artifacts!ActionsOn(c, facts, a) = AllowedOn(c, a, N)
    BY <1>3, <1>4 DEF Artifacts!ActionsOn, AllowedOn, Present, Act
  <1>6. SUFFICES ASSUME NEW a \in Artifacts!Ids(c, "artifacts"), NEW k \in AllowedOn(c, a, N)
                 PROVE  LET before == {j \in AllowedOn(c, a, N) : j < k} IN
                        Act(c, k).expected_base_sha256 =
                           IF before = {} THEN Artifacts!Item(c, "artifacts", a).content_sha256
                           ELSE ActLeaves(c, Artifacts!Max(before))
    <2> HIDE DEF N, facts
    <2>1. Artifacts!Evaluate(c).facts = facts
      BY <1>1
    <2>2. SUFFICES ASSUME NEW a \in Artifacts!Ids(c, "artifacts"),
                          NEW k \in Artifacts!ActionsOn(c, facts, a)
                   PROVE  LET before == {j \in Artifacts!ActionsOn(c, facts, a) : j < k} IN
                          Act(c, k).expected_base_sha256 =
                             IF before = {} THEN Artifacts!Item(c, "artifacts", a).content_sha256
                             ELSE ActLeaves(c, Artifacts!Max(before))
      BY <2>1, Zenon DEF Artifacts!Serial, Act, ActLeaves
    <2> QED BY <1>5, <2>2
  <1> HIDE DEF N, facts
  <1>7. k \in 1..N /\ k - 1 \in 0..N /\ ActRisks(c, k) = {} /\ Act(c, k).artifact_id = a
    BY <1>3, <1>6 DEF AllowedOn
  <1>8. {j \in AllowedOn(c, a, N) : j < k} = AllowedOn(c, a, k - 1)
    BY <1>3, <1>7 DEF AllowedOn
  <1>9. Artifacts!After(c, k - 1).content[a] = ContentLeft(c, a, k - 1)
    BY <1>2, <1>7, ActionsLeave DEF N
  <1> QED BY <1>7, <1>8, <1>9, ActExpects DEF ContentLeft

-----------------------------------------------------------------------------
(* The edits leave the numbers numbers.                                    *)

\* The families of edits of an instance are those of Assessment.
LEMMA StateEdits ==
    ASSUME NEW c
    PROVE  /\ State!CommonEdits(c) = CommonEdits(c)
           /\ State!PinEdits(c) = PinEdits(c) /\ State!TrustEdits(c) = TrustEdits(c)
           /\ State!RepeatEdits(c) = RepeatEdits(c)
           /\ \A cases : /\ State!FieldEdits(c, cases) = FieldEdits(c, cases)
                         /\ State!CoherentEdits(c, cases) = CoherentEdits(c, cases)
                         /\ State!GroupEdits(c, cases) = GroupEdits(c, cases)
                         /\ State!FactEdits(c, cases) = FactEdits(c, cases)
                         /\ State!MissingFacts(c, cases) = MissingFacts(c, cases)
                         /\ State!PolicyEdits(c, cases) = PolicyEdits(c, cases)
  <1>1. State!CommonEdits(c) = CommonEdits(c)
    BY DEF State!CommonEdits, State!InventoryEdits, State!ManifestEdits, State!RequestEdits,
       State!UpstreamEdits, State!CallerEdits, State!SomeOf, State!Without, State!SetField, State!Item,
       State!Ids, State!Other, CommonEdits, InventoryEdits, ManifestEdits, RequestEdits,
       UpstreamEdits, CallerEdits, SomeOf, Without, SetField, Item, Ids, Other
  <1>2. /\ State!PinEdits(c) = PinEdits(c) /\ State!TrustEdits(c) = TrustEdits(c)
        /\ State!RepeatEdits(c) = RepeatEdits(c)
    BY DEF State!PinEdits, State!TrustEdits, State!RepeatEdits, State!Other,
       PinEdits, TrustEdits, RepeatEdits, Other
  <1>3. \A cases : /\ State!FieldEdits(c, cases) = FieldEdits(c, cases)
                   /\ State!CoherentEdits(c, cases) = CoherentEdits(c, cases)
                   /\ State!GroupEdits(c, cases) = GroupEdits(c, cases)
    BY DEF State!FieldEdits, State!CoherentEdits, State!GroupEdits, State!Known, State!Ids, State!Item,
       State!SetField, State!Replaced,
       FieldEdits, CoherentEdits, GroupEdits, Known, Ids, Item, SetField, Replaced
  <1>4. \A cases : /\ State!FactEdits(c, cases) = FactEdits(c, cases)
                   /\ State!MissingFacts(c, cases) = MissingFacts(c, cases)
                   /\ State!PolicyEdits(c, cases) = PolicyEdits(c, cases)
    BY DEF State!FactEdits, State!MissingFacts, State!PolicyEdits, State!HasFact, State!Fact, State!Without,
       State!SomeOf, FactEdits, MissingFacts, PolicyEdits, HasFact, Fact, Without, SomeOf
  <1> QED BY <1>1, <1>2, <1>3, <1>4

\* The same of delegations.
LEMMA DelegationEdits ==
    ASSUME NEW c
    PROVE  /\ Delegation!CommonEdits(c) = CommonEdits(c)
           /\ Delegation!PinEdits(c) = PinEdits(c) /\ Delegation!TrustEdits(c) = TrustEdits(c)
           /\ Delegation!RepeatEdits(c) = RepeatEdits(c)
           /\ \A cases : /\ Delegation!FieldEdits(c, cases) = FieldEdits(c, cases)
                         /\ Delegation!CoherentEdits(c, cases) = CoherentEdits(c, cases)
                         /\ Delegation!GroupEdits(c, cases) = GroupEdits(c, cases)
                         /\ Delegation!FactEdits(c, cases) = FactEdits(c, cases)
                         /\ Delegation!MissingFacts(c, cases) = MissingFacts(c, cases)
                         /\ Delegation!PolicyEdits(c, cases) = PolicyEdits(c, cases)
  <1>1. Delegation!CommonEdits(c) = CommonEdits(c)
    BY DEF Delegation!CommonEdits, Delegation!InventoryEdits, Delegation!ManifestEdits, Delegation!RequestEdits,
       Delegation!UpstreamEdits, Delegation!CallerEdits, Delegation!SomeOf, Delegation!Without, Delegation!SetField, Delegation!Item,
       Delegation!Ids, Delegation!Other, CommonEdits, InventoryEdits, ManifestEdits, RequestEdits,
       UpstreamEdits, CallerEdits, SomeOf, Without, SetField, Item, Ids, Other
  <1>2. /\ Delegation!PinEdits(c) = PinEdits(c) /\ Delegation!TrustEdits(c) = TrustEdits(c)
        /\ Delegation!RepeatEdits(c) = RepeatEdits(c)
    BY DEF Delegation!PinEdits, Delegation!TrustEdits, Delegation!RepeatEdits, Delegation!Other,
       PinEdits, TrustEdits, RepeatEdits, Other
  <1>3. \A cases : /\ Delegation!FieldEdits(c, cases) = FieldEdits(c, cases)
                   /\ Delegation!CoherentEdits(c, cases) = CoherentEdits(c, cases)
                   /\ Delegation!GroupEdits(c, cases) = GroupEdits(c, cases)
    BY DEF Delegation!FieldEdits, Delegation!CoherentEdits, Delegation!GroupEdits, Delegation!Known, Delegation!Ids, Delegation!Item,
       Delegation!SetField, Delegation!Replaced,
       FieldEdits, CoherentEdits, GroupEdits, Known, Ids, Item, SetField, Replaced
  <1>4. \A cases : /\ Delegation!FactEdits(c, cases) = FactEdits(c, cases)
                   /\ Delegation!MissingFacts(c, cases) = MissingFacts(c, cases)
                   /\ Delegation!PolicyEdits(c, cases) = PolicyEdits(c, cases)
    BY DEF Delegation!FactEdits, Delegation!MissingFacts, Delegation!PolicyEdits, Delegation!HasFact, Delegation!Fact, Delegation!Without,
       Delegation!SomeOf, FactEdits, MissingFacts, PolicyEdits, HasFact, Fact, Without, SomeOf
  <1> QED BY <1>1, <1>2, <1>3, <1>4

\* The same of budgets.
LEMMA BudgetEdits ==
    ASSUME NEW c
    PROVE  /\ Budget!CommonEdits(c) = CommonEdits(c)
           /\ Budget!PinEdits(c) = PinEdits(c) /\ Budget!TrustEdits(c) = TrustEdits(c)
           /\ Budget!RepeatEdits(c) = RepeatEdits(c)
           /\ \A cases : /\ Budget!FieldEdits(c, cases) = FieldEdits(c, cases)
                         /\ Budget!CoherentEdits(c, cases) = CoherentEdits(c, cases)
                         /\ Budget!GroupEdits(c, cases) = GroupEdits(c, cases)
                         /\ Budget!FactEdits(c, cases) = FactEdits(c, cases)
                         /\ Budget!MissingFacts(c, cases) = MissingFacts(c, cases)
                         /\ Budget!PolicyEdits(c, cases) = PolicyEdits(c, cases)
  <1>1. Budget!CommonEdits(c) = CommonEdits(c)
    BY DEF Budget!CommonEdits, Budget!InventoryEdits, Budget!ManifestEdits, Budget!RequestEdits,
       Budget!UpstreamEdits, Budget!CallerEdits, Budget!SomeOf, Budget!Without, Budget!SetField, Budget!Item,
       Budget!Ids, Budget!Other, CommonEdits, InventoryEdits, ManifestEdits, RequestEdits,
       UpstreamEdits, CallerEdits, SomeOf, Without, SetField, Item, Ids, Other
  <1>2. /\ Budget!PinEdits(c) = PinEdits(c) /\ Budget!TrustEdits(c) = TrustEdits(c)
        /\ Budget!RepeatEdits(c) = RepeatEdits(c)
    BY DEF Budget!PinEdits, Budget!TrustEdits, Budget!RepeatEdits, Budget!Other,
       PinEdits, TrustEdits, RepeatEdits, Other
  <1>3. \A cases : /\ Budget!FieldEdits(c, cases) = FieldEdits(c, cases)
                   /\ Budget!CoherentEdits(c, cases) = CoherentEdits(c, cases)
                   /\ Budget!GroupEdits(c, cases) = GroupEdits(c, cases)
    BY DEF Budget!FieldEdits, Budget!CoherentEdits, Budget!GroupEdits, Budget!Known, Budget!Ids, Budget!Item,
       Budget!SetField, Budget!Replaced,
       FieldEdits, CoherentEdits, GroupEdits, Known, Ids, Item, SetField, Replaced
  <1>4. \A cases : /\ Budget!FactEdits(c, cases) = FactEdits(c, cases)
                   /\ Budget!MissingFacts(c, cases) = MissingFacts(c, cases)
                   /\ Budget!PolicyEdits(c, cases) = PolicyEdits(c, cases)
    BY DEF Budget!FactEdits, Budget!MissingFacts, Budget!PolicyEdits, Budget!HasFact, Budget!Fact, Budget!Without,
       Budget!SomeOf, FactEdits, MissingFacts, PolicyEdits, HasFact, Fact, Without, SomeOf
  <1> QED BY <1>1, <1>2, <1>3, <1>4

\* The same of messages.
LEMMA MessagesEdits ==
    ASSUME NEW c
    PROVE  /\ Messages!CommonEdits(c) = CommonEdits(c)
           /\ Messages!PinEdits(c) = PinEdits(c) /\ Messages!TrustEdits(c) = TrustEdits(c)
           /\ Messages!RepeatEdits(c) = RepeatEdits(c)
           /\ \A cases : /\ Messages!FieldEdits(c, cases) = FieldEdits(c, cases)
                         /\ Messages!CoherentEdits(c, cases) = CoherentEdits(c, cases)
                         /\ Messages!GroupEdits(c, cases) = GroupEdits(c, cases)
                         /\ Messages!FactEdits(c, cases) = FactEdits(c, cases)
                         /\ Messages!MissingFacts(c, cases) = MissingFacts(c, cases)
                         /\ Messages!PolicyEdits(c, cases) = PolicyEdits(c, cases)
  <1>1. Messages!CommonEdits(c) = CommonEdits(c)
    BY DEF Messages!CommonEdits, Messages!InventoryEdits, Messages!ManifestEdits, Messages!RequestEdits,
       Messages!UpstreamEdits, Messages!CallerEdits, Messages!SomeOf, Messages!Without, Messages!SetField, Messages!Item,
       Messages!Ids, Messages!Other, CommonEdits, InventoryEdits, ManifestEdits, RequestEdits,
       UpstreamEdits, CallerEdits, SomeOf, Without, SetField, Item, Ids, Other
  <1>2. /\ Messages!PinEdits(c) = PinEdits(c) /\ Messages!TrustEdits(c) = TrustEdits(c)
        /\ Messages!RepeatEdits(c) = RepeatEdits(c)
    BY DEF Messages!PinEdits, Messages!TrustEdits, Messages!RepeatEdits, Messages!Other,
       PinEdits, TrustEdits, RepeatEdits, Other
  <1>3. \A cases : /\ Messages!FieldEdits(c, cases) = FieldEdits(c, cases)
                   /\ Messages!CoherentEdits(c, cases) = CoherentEdits(c, cases)
                   /\ Messages!GroupEdits(c, cases) = GroupEdits(c, cases)
    BY DEF Messages!FieldEdits, Messages!CoherentEdits, Messages!GroupEdits, Messages!Known, Messages!Ids, Messages!Item,
       Messages!SetField, Messages!Replaced,
       FieldEdits, CoherentEdits, GroupEdits, Known, Ids, Item, SetField, Replaced
  <1>4. \A cases : /\ Messages!FactEdits(c, cases) = FactEdits(c, cases)
                   /\ Messages!MissingFacts(c, cases) = MissingFacts(c, cases)
                   /\ Messages!PolicyEdits(c, cases) = PolicyEdits(c, cases)
    BY DEF Messages!FactEdits, Messages!MissingFacts, Messages!PolicyEdits, Messages!HasFact, Messages!Fact, Messages!Without,
       Messages!SomeOf, FactEdits, MissingFacts, PolicyEdits, HasFact, Fact, Without, SomeOf
  <1> QED BY <1>1, <1>2, <1>3, <1>4

\* Every edit of the evaluation of the states leaves the transitions dated.
LEMMA DatedEdits ==
    ASSUME NEW c, Dated(c)
    PROVE  \A d \in State!Edits(c) : Dated(d)
  <1>0. \A kind \in DOMAIN TransitionInts : "owner_id" \notin TransitionInts[kind]
    BY DEF TransitionInts, Epochs
  <1>1. \A d \in CommonEdits(c) \cup PinEdits(c) \cup TrustEdits(c) : Dated(d)
    BY <1>0, NumberedCommon, NumberedHeaders DEF Dated
  <1>2. \A cases : \A d \in FactEdits(c, cases) \cup PolicyEdits(c, cases) : Dated(d)
    BY NumberedHeaders DEF Dated
  <1>3. \A cases : IntegerCases(TransitionInts, cases) => \A d \in FieldEdits(c, cases) : Dated(d)
    BY NumberedFields DEF Dated
  <1>4. \A b, cases : Dated(b) /\ IntegerGroups(TransitionInts, cases) => \A d \in GroupEdits(b, cases) : Dated(d)
    BY NumberedGroups DEF Dated
  <1>5. \A d \in State!DocumentEdits(c) : Dated(d)
    <2>1. IntegerCases(TransitionInts, State!DocumentCases)
      BY DEF IntegerCases, TransitionInts, Epochs, State!DocumentCases
    <2> QED BY <1>1, <1>2, <1>3, <2>1, StateEdits DEF State!DocumentEdits
  <1>6. \A d \in State!RaceEdits(c) : Dated(d)
    <2>1. IntegerGroups(TransitionInts, State!RaceCases)
      BY DEF IntegerGroups, TransitionInts, Epochs, State!RaceCases
    <2>2. IntegerGroups(TransitionInts, {<<"transitions", "ticket_2", State!ReleaseAgain(c)>>})
      <3> DEFINE again == State!ReleaseAgain(c)
      <3>1. \A f \in Epochs : f \in DOMAIN again => again[f] \in Int
        BY DEF Epochs, State!ReleaseAgain, State!Replaced
      <3> HIDE DEF again
      <3> QED BY <3>1 DEF IntegerGroups, TransitionInts, again
    <2>3. IntegerGroups(TransitionInts, {<<"transitions", "task_read", State!AfterCancel>>})
      BY DEF IntegerGroups, TransitionInts, Epochs, State!AfterCancel
    <2> DEFINE b == [c EXCEPT !.policy.intents = State!With(@, "task", {"read", "cancel", "rollback", "mutate"})]
    <2>4. DOMAIN b = DOMAIN c /\ b.manifest = c.manifest
      BY DEF Dated, Numbered
    <2> HIDE DEF b
    <2>5. Dated(b)
      BY <2>4, NumberedElsewhere DEF Dated
    <2>6. State!RaceEdits(c) \subseteq GroupEdits(c, State!RaceCases)
            \cup GroupEdits(c, {<<"transitions", "ticket_2", State!ReleaseAgain(c)>>})
            \cup GroupEdits(b, {<<"transitions", "task_read", State!AfterCancel>>})
      BY StateEdits DEF State!RaceEdits, b
    <2>7. \A d \in GroupEdits(c, State!RaceCases)
                   \cup GroupEdits(c, {<<"transitions", "ticket_2", State!ReleaseAgain(c)>>}) : Dated(d)
      BY <1>4, <2>1, <2>2
    <2>8. \A d \in GroupEdits(b, {<<"transitions", "task_read", State!AfterCancel>>}) : Dated(d)
      BY <1>4, <2>3, <2>5
    <2> QED BY <2>6, <2>7, <2>8
  <1>7. \A d \in State!UseEdits(c) : Dated(d)
    <2>1. IntegerCases(TransitionInts, State!UseCases)
      BY DEF IntegerCases, TransitionInts, Epochs, State!UseCases
    <2> QED BY <1>2, <1>3, <2>1, StateEdits DEF State!UseEdits
  <1> QED BY <1>5, <1>6, <1>7 DEF State!Edits

\* The transitions of the evaluation's fixture are dated.
LEMMA DatedBase == Dated(State!Base)
  <1> DEFINE before == State!Context(State!Items, {"objects"}, State!Upstreams, {"transitions"},
                                     State!Rules, State!Canonical)
  <1>1. "manifest" \in DOMAIN before /\ "items" \in DOMAIN before.manifest
        /\ before.manifest.items = State!Items
    BY DEF State!Context, State!Repinned
  <1> HIDE DEF before
  <1>2. /\ DOMAIN State!Base = DOMAIN before
        /\ State!Base.manifest = before.manifest
    BY <1>1 DEF State!Base, State!Truthful, State!Redeclared, before
  <1>3. NumberedItems(State!Items, TransitionNames, TransitionInts)
    <2> DEFINE all == State!Items["transitions"]
    <2>1. /\ "transitions" \in DOMAIN State!Items
          /\ DOMAIN all = {"task_read", "ticket_1", "ticket_2", "release", "telemetry", "task_cancel"}
      BY DEF State!Items
    <2>2. \A x \in DOMAIN all : \E k \in 1..6 : State!TransitionIds[k] = x
      BY <2>1 DEF State!TransitionIds
    <2> DEFINE Timed(t) == \A f \in Epochs : f \in DOMAIN t /\ t[f] \in Int
    <2>3. Timed(all["task_read"])
      BY DEF State!Items, State!StateTransition, Epochs
    <2>4. Timed(all["ticket_1"])
      BY DEF State!Items, State!StateTransition, Epochs
    <2>5. Timed(all["ticket_2"])
      BY DEF State!Items, State!StateTransition, Epochs
    <2>6. Timed(all["release"])
      BY DEF State!Items, State!StateTransition, Epochs
    <2>7. Timed(all["telemetry"])
      BY DEF State!Items, State!StateTransition, Epochs
    <2>8. Timed(all["task_cancel"])
      BY DEF State!Items, State!StateTransition, Epochs
    <2>9. \A x \in DOMAIN all : Timed(all[x])
      BY <2>1, <2>3, <2>4, <2>5, <2>6, <2>7, <2>8
    <2> HIDE DEF Timed
    <2>10. DOMAIN all \subseteq {State!TransitionIds[k] : k \in 1..6}
      BY <2>2
    <2> HIDE DEF all
    <2> QED BY <2>1, <2>9, <2>10 DEF NumberedItems, TransitionNames, TransitionInts, Timed, all
  <1> QED BY <1>1, <1>2, <1>3 DEF Dated, Numbered

\* The items of the fixtures of which there are numbers.
DelegationNames == [delegations |-> {"root", "child", "deploy"},
                    capabilities |-> {"tool.read", "tool.write", "model.deploy"}]
BudgetNames == [budgets |-> {"root", "child"}]
MessageNames == [messages |-> {"retrieval", "root", "child", "release", "advisory"}]

\* Every change of the delegations' documents leaves their numbers integers.
LEMMA DelegationsNumbered ==
    ASSUME NEW c, Numbered(c, DelegationNames, DelegationInts)
    PROVE  \A d \in Delegation!Edits(c) : Numbered(d, DelegationNames, DelegationInts)
  <1> DEFINE N(d) == Numbered(d, DelegationNames, DelegationInts)
  <1>1. \A kind \in DOMAIN DelegationInts : "owner_id" \notin DelegationInts[kind]
    BY DEF DelegationInts
  <1>2. \A d \in CommonEdits(c) \cup PinEdits(c) \cup RepeatEdits(c) : N(d)
    BY <1>1, NumberedCommon, NumberedHeaders
  <1>3. \A cases : \A d \in FactEdits(c, cases) \cup PolicyEdits(c, cases) : N(d)
    BY NumberedHeaders
  <1>4. \A cases : IntegerCases(DelegationInts, cases)
                     => \A d \in FieldEdits(c, cases) \cup CoherentEdits(c, cases) : N(d)
    BY NumberedFields
  <1> HIDE DEF N
  <1>5. \A d \in Delegation!DocumentEdits(c) : N(d)
    <2>1. IntegerCases(DelegationInts, Delegation!DocumentCases)
      BY DEF IntegerCases, DelegationInts, Delegation!DocumentCases
    <2>2. IntegerCases(DelegationInts, Delegation!SwitchCases)
      <3>1. \A t \in Delegation!SwitchCases : t[3] \in {"accepts_delegation", "privileged"}
        <4> SUFFICES ASSUME NEW t, \/ t = <<"agents", "releaser", "accepts_delegation", FALSE>>
                                   \/ t = <<"capabilities", "model.deploy", "privileged", FALSE>>
                     PROVE  t[3] \in {"accepts_delegation", "privileged"}
          BY Zenon DEF Delegation!SwitchCases
        <4>1. CASE t = <<"agents", "releaser", "accepts_delegation", FALSE>>
          BY <4>1
        <4>2. CASE t = <<"capabilities", "model.deploy", "privileged", FALSE>>
          BY <4>2
        <4> QED BY <4>1, <4>2
      <3> QED BY <3>1 DEF IntegerCases, DelegationInts
    <2>3. IntegerCases(DelegationInts, Delegation!DocumentCases \cup Delegation!SwitchCases)
      BY <2>1, <2>2 DEF IntegerCases
    <2> QED BY <1>2, <1>3, <1>4, <2>3, DelegationEdits DEF Delegation!DocumentEdits
  <1>6. \A d \in Delegation!DelegationEdits(c) : N(d)
    <2>1. IntegerCases(DelegationInts, Delegation!DelegationCases)
      BY DEF IntegerCases, DelegationInts, Delegation!DelegationCases
    <2>2. IntegerCases(DelegationInts, Delegation!AgentCases)
      <3>1. \A t \in Delegation!AgentCases :
              t[3] \in {"accepts_delegation", "max_delegation_depth", "required_p7i_invariant_ids"}
        <4>1. \A t \in {<<"agents", "broker", "accepts_delegation", FALSE>>} : t[3] = "accepts_delegation"
          OBVIOUS
        <4>2. \A t \in {<<"agents", "executor", "max_delegation_depth", 1>>,
                        <<"capabilities", "model.deploy", "required_p7i_invariant_ids", {}>>} :
                 t[3] \in {"max_delegation_depth", "required_p7i_invariant_ids"}
          OBVIOUS
        <4> QED BY <4>1, <4>2, Zenon DEF Delegation!AgentCases
      <3> QED BY <3>1 DEF IntegerCases, DelegationInts
    <2> QED BY <1>3, <1>4, <2>1, <2>2, DelegationEdits DEF Delegation!DelegationEdits
  <1> QED BY <1>5, <1>6 DEF Delegation!Edits, N

\* The same for the envelopes' documents.
LEMMA BudgetsNumbered ==
    ASSUME NEW c, Numbered(c, BudgetNames, BudgetInts)
    PROVE  \A d \in Budget!Edits(c) : Numbered(d, BudgetNames, BudgetInts)
  <1> DEFINE N(d) == Numbered(d, BudgetNames, BudgetInts)
  <1>1. \A kind \in DOMAIN BudgetInts : "owner_id" \notin BudgetInts[kind]
    BY DEF BudgetInts, Budget!Ceilings
  <1>2. \A d \in CommonEdits(c) \cup PinEdits(c) \cup TrustEdits(c) : N(d)
    BY <1>1, NumberedCommon, NumberedHeaders
  <1>3. \A cases : \A d \in FactEdits(c, cases) \cup PolicyEdits(c, cases) \cup MissingFacts(c, cases) : N(d)
    BY NumberedHeaders
  <1>4. \A cases : IntegerCases(BudgetInts, cases)
                     => \A d \in FieldEdits(c, cases) \cup CoherentEdits(c, cases) : N(d)
    BY NumberedFields
  <1>5. \A id, item : N(Budget!Added(c, "events", id, item))
    BY NumberedAdded, Zenon DEF Budget!Added, Added, BudgetInts
  <1> HIDE DEF N
  <1>6. \A d \in Budget!DocumentEdits(c) : N(d)
    BY <1>2, <1>3, BudgetEdits DEF Budget!DocumentEdits
  <1>7. \A d \in Budget!DriftEdits(c) : N(d)
    <2>1. IntegerCases(BudgetInts, Budget!DriftCases)
      BY DEF IntegerCases, BudgetInts, Budget!DriftCases, Budget!Ceilings
    <2>2. IntegerCases(BudgetInts, Budget!InvalidCases)
      BY DEF IntegerCases, BudgetInts, Budget!InvalidCases
    <2> QED BY <1>4, <2>1, <2>2, BudgetEdits DEF Budget!DriftEdits
  <1>8. \A d \in Budget!RunEdits(c) : N(d)
    <2>1. IntegerCases(BudgetInts, Budget!RunCases)
      BY DEF IntegerCases, BudgetInts, Budget!RunCases
    <2>2. IntegerCases(BudgetInts, Budget!CeilingCases)
      BY DEF IntegerCases, BudgetInts, Budget!CeilingCases
    <2> QED BY <1>3, <1>4, <1>5, <2>1, <2>2, BudgetEdits DEF Budget!RunEdits
  <1> QED BY <1>6, <1>7, <1>8 DEF Budget!Edits, N

\* The same for the messages' documents.
LEMMA MessagesNumbered ==
    ASSUME NEW c, Numbered(c, MessageNames, MessageInts)
    PROVE  \A d \in Messages!Edits(c) : Numbered(d, MessageNames, MessageInts)
  <1> DEFINE N(d) == Numbered(d, MessageNames, MessageInts)
  <1>1. \A kind \in DOMAIN MessageInts : "owner_id" \notin MessageInts[kind]
    BY DEF MessageInts
  <1>2. \A d \in CommonEdits(c) \cup PinEdits(c) \cup TrustEdits(c) : N(d)
    BY <1>1, NumberedCommon, NumberedHeaders
  <1>3. \A cases : \A d \in FactEdits(c, cases) \cup PolicyEdits(c, cases) : N(d)
    BY NumberedHeaders
  <1>4. \A cases : IntegerCases(MessageInts, cases)
                     => \A d \in FieldEdits(c, cases) \cup CoherentEdits(c, cases) : N(d)
    BY NumberedFields
  <1>5. \A cases : IntegerGroups(MessageInts, cases) => \A d \in GroupEdits(c, cases) : N(d)
    BY NumberedGroups
  <1>6. \A d : DOMAIN d = DOMAIN c /\ d.manifest = c.manifest => N(d)
    BY NumberedElsewhere
  <1>7. "manifest" \in DOMAIN c
    BY DEF Numbered
  <1>8. \A d, id : N(d) => N(Messages!SetField(d, "messages", id, "intent", "command"))
    <2> SUFFICES ASSUME NEW d, NEW id, N(d) PROVE N(Messages!SetField(d, "messages", id, "intent", "command"))
      OBVIOUS
    <2>1. Messages!SetField(d, "messages", id, "intent", "command") = SetField(d, "messages", id, "intent", "command")
      BY DEF Messages!SetField, SetField
    <2>2. "intent" \notin MessageInts["messages"]
      BY DEF MessageInts
    <2> QED BY <2>1, <2>2, NumberedField
  <1> HIDE DEF N
  <1>9. \A d \in Messages!DocumentEdits(c) : N(d)
    BY <1>2, <1>3, <1>6, <1>7, MessagesEdits DEF Messages!DocumentEdits
  <1>10. \A d \in Messages!ReferenceEdits(c) : N(d)
    <2>1. IntegerCases(MessageInts, Messages!ReferenceCases)
      BY DEF IntegerCases, MessageInts, Messages!ReferenceCases
    <2>2. IntegerCases(MessageInts, Messages!RepeatedCases)
      <3>1. \A t \in Messages!RepeatedCases : t[3] = "capability_repeated"
        BY DEF Messages!RepeatedCases
      <3> QED BY <3>1 DEF IntegerCases, MessageInts
    <2>3. IntegerCases(MessageInts, Messages!ReferenceCases \cup Messages!RepeatedCases)
      BY <2>1, <2>2 DEF IntegerCases
    <2> QED BY <1>4, <2>3, MessagesEdits DEF Messages!ReferenceEdits
  <1>11. \A d \in Messages!ChannelEdits(c) : N(d)
    <2>1. IntegerCases(MessageInts, Messages!ChannelCases) /\ IntegerCases(MessageInts, Messages!OpenCases)
      BY DEF IntegerCases, MessageInts, Messages!ChannelCases, Messages!OpenCases
    <2> QED BY <1>4, <2>1, MessagesEdits DEF Messages!ChannelEdits
  <1>12. \A d \in Messages!LaunderEdits(c) : N(d)
    BY <1>4, <1>5, <1>8, MessagesEdits DEF Messages!LaunderEdits, IntegerCases, IntegerGroups, MessageInts
  <1>13. \A d \in Messages!MessageEdits(c) : N(d)
    <2>1. \A m \in {"retrieval", "child"} : IntegerCases(MessageInts, Messages!MessageCases(m))
      BY DEF IntegerCases, MessageInts, Messages!MessageCases, Messages!Now
    <2>2. IntegerCases(MessageInts, Messages!WorkCases)
      BY DEF IntegerCases, MessageInts, Messages!WorkCases, Messages!Now
    <2>3. IntegerGroups(MessageInts, Messages!SenderCases)
      BY DEF IntegerGroups, MessageInts, Messages!SenderCases, Messages!Now
    <2>4. \A d \in GroupEdits(c, Messages!SenderCases) \cup FieldEdits(c, Messages!WorkCases) : N(d)
      BY <1>4, <1>5, <2>2, <2>3
    <2>5. \A m \in {"retrieval", "child"} : \A d \in FieldEdits(c, Messages!MessageCases(m)) : N(d)
      BY <1>4, <2>1
    <2>6. Messages!MessageEdits(c) = (UNION {FieldEdits(c, Messages!MessageCases(m)) : m \in {"retrieval", "child"}})
            \cup GroupEdits(c, Messages!SenderCases) \cup FieldEdits(c, Messages!WorkCases)
      BY MessagesEdits DEF Messages!MessageEdits
    <2>7. SUFFICES ASSUME NEW d \in Messages!MessageEdits(c) PROVE N(d)
      OBVIOUS
    <2>8. \/ d \in UNION {FieldEdits(c, Messages!MessageCases(m)) : m \in {"retrieval", "child"}}
          \/ d \in GroupEdits(c, Messages!SenderCases) \cup FieldEdits(c, Messages!WorkCases)
      BY <2>6, <2>7
    <2>9. CASE d \in UNION {FieldEdits(c, Messages!MessageCases(m)) : m \in {"retrieval", "child"}}
      <3>1. PICK m \in {"retrieval", "child"} : d \in FieldEdits(c, Messages!MessageCases(m))
        BY <2>9
      <3> QED BY <2>5, <3>1
    <2> QED BY <2>4, <2>8, <2>9
  <1>14. \A d \in Messages!UpstreamFactEdits(c) : N(d)
    BY <1>3, MessagesEdits DEF Messages!UpstreamFactEdits
  <1> QED BY <1>9, <1>10, <1>11, <1>12, <1>13, <1>14 DEF Messages!Edits, N

\* The delegations and capabilities of the fixture have the numbers.
LEMMA DelegationBase == Numbered(Delegation!Base, DelegationNames, DelegationInts)
  <1> DEFINE items == Delegation!Items
  <1>1. /\ "manifest" \in DOMAIN Delegation!Base /\ "items" \in DOMAIN Delegation!Base.manifest
        /\ Delegation!Base.manifest.items = items
    BY DEF Delegation!Base, Delegation!Context, Delegation!Repinned
  <1>2. NumberedItems(items, DelegationNames, DelegationInts)
    <2> DEFINE dels == items["delegations"]
               caps == items["capabilities"]
    <2>1. {"delegations", "capabilities"} \subseteq DOMAIN items
          /\ DOMAIN dels = {"root", "child", "deploy"}
          /\ DOMAIN caps = {"tool.read", "tool.write", "model.deploy"}
      BY DEF Delegation!Items
    <2> DEFINE Timed(d) == \A f \in {"issued_at_epoch", "expires_at_epoch"} : f \in DOMAIN d /\ d[f] \in Int
    <2>2. Timed(dels["root"])
      BY DEF Delegation!Items, Delegation!DelegationRecord
    <2>3. Timed(dels["child"])
      BY DEF Delegation!Items, Delegation!DelegationRecord
    <2>4. Timed(dels["deploy"])
      BY DEF Delegation!Items, Delegation!DelegationRecord
    <2>5. \A x \in DOMAIN caps : "privilege_level" \in DOMAIN caps[x] /\ caps[x]["privilege_level"] \in Int
      BY DEF Delegation!Items, Delegation!AgentCapability
    <2>6. \A x \in DOMAIN dels : Timed(dels[x])
      BY <2>1, <2>2, <2>3, <2>4
    <2> HIDE DEF items
    <2> QED BY <2>1, <2>5, <2>6 DEF NumberedItems, DelegationNames, DelegationInts
  <1> HIDE DEF items
  <1> QED BY <1>1, <1>2 DEF Numbered

\* The envelopes of the fixture have ceilings.
LEMMA BudgetBase == Numbered(Budget!Base, BudgetNames, BudgetInts)
  <1> DEFINE items == Budget!Items
             before == Budget!Context(items, {"rates", "budgets", "runs"}, Budget!Upstreams, {"runs"}, << >>,
                                      Budget!Canonical)
  <1>1. /\ "manifest" \in DOMAIN before /\ "items" \in DOMAIN before.manifest
        /\ before.manifest.items = items
    BY DEF Budget!Context, Budget!Repinned
  <1> HIDE DEF before
  <1>2. DOMAIN Budget!Base = DOMAIN before /\ Budget!Base.manifest = before.manifest
    BY <1>1 DEF Budget!Base, Budget!Truthful, Budget!Redeclared, before
  <1>3. NumberedItems(items, BudgetNames, BudgetInts)
    <2> DEFINE all == items["budgets"]
    <2>1. "budgets" \in DOMAIN items /\ DOMAIN all = {"root", "child"}
      BY DEF Budget!Items
    <2> DEFINE Limited(b) == \A f \in Budget!Ceilings : f \in DOMAIN b /\ b[f] \in Int
    <2>2. Limited(all["root"])
      BY DEF Budget!Items, Budget!Envelope, Budget!Ceilings
    <2>3. Limited(all["child"])
      BY DEF Budget!Items, Budget!Envelope, Budget!Ceilings
    <2>4. \A x \in DOMAIN all : Limited(all[x])
      BY <2>1, <2>2, <2>3
    <2> HIDE DEF items
    <2> QED BY <2>1, <2>4 DEF NumberedItems, BudgetNames, BudgetInts
  <1> HIDE DEF items
  <1> QED BY <1>1, <1>2, <1>3 DEF Numbered

\* The messages of the fixture are dated.
LEMMA MessageBase == Numbered(Messages!Base, MessageNames, MessageInts)
  <1> DEFINE items == Messages!Items
             before == Messages!Context(items, {"channels"}, Messages!Upstreams, {"messages"}, Messages!Rules,
                                        Messages!Canonical)
  <1>1. /\ "manifest" \in DOMAIN before /\ "items" \in DOMAIN before.manifest
        /\ before.manifest.items = items
    BY DEF Messages!Context, Messages!Repinned
  <1> HIDE DEF before
  <1>2. DOMAIN Messages!Base = DOMAIN before /\ Messages!Base.manifest = before.manifest
    BY <1>1 DEF Messages!Base, Messages!Truthful, Messages!Redeclared, before
  <1>3. NumberedItems(items, MessageNames, MessageInts)
    <2> DEFINE all == Messages!Messages
    <2>1. "messages" \in DOMAIN items /\ items["messages"] = all
          /\ DOMAIN all = {"retrieval", "root", "child", "release", "advisory"}
      BY DEF Messages!Items, Messages!Messages
    <2> DEFINE Timed(m) == \A f \in {"issued_at_epoch", "expires_at_epoch"} : f \in DOMAIN m /\ m[f] \in Int
    <2>2. Timed(all["retrieval"])
      BY DEF Messages!Messages, Messages!AgentMessage, Messages!Now
    <2>3. Timed(all["root"])
      BY DEF Messages!Messages, Messages!AgentMessage, Messages!Now
    <2>4. Timed(all["child"])
      BY DEF Messages!Messages, Messages!AgentMessage, Messages!Now
    <2>5. Timed(all["release"])
      BY DEF Messages!Messages, Messages!AgentMessage, Messages!Now
    <2>6. Timed(all["advisory"])
      BY DEF Messages!Messages, Messages!AgentMessage, Messages!Now
    <2>7. \A x \in DOMAIN all : Timed(all[x])
      BY <2>1, <2>2, <2>3, <2>4, <2>5, <2>6
    <2> HIDE DEF items, all
    <2> QED BY <2>1, <2>7 DEF NumberedItems, MessageNames, MessageInts
  <1> HIDE DEF items
  <1> QED BY <1>1, <1>2, <1>3 DEF Numbered

-----------------------------------------------------------------------------
(* The edits leave the actions listed once.                               *)

\* A change of anything but the list.
LEMMA ListedElsewhere ==
    ASSUME NEW c, Listed(c), NEW d, DOMAIN d = DOMAIN c,
           DOMAIN d.request = DOMAIN c.request, d.request.order = c.request.order
    PROVE  Listed(d)
  BY DEF Listed

\* The families of edits that leave the list alone.
LEMMA ListedFamilies ==
    ASSUME NEW c, Listed(c), NEW cases
    PROVE  /\ \A d \in Artifacts!FieldEdits(c, cases) \cup Artifacts!GroupEdits(c, cases) : Listed(d)
           /\ \A d \in Artifacts!CoherentEdits(c, cases) \cup Artifacts!FactEdits(c, cases) : Listed(d)
           /\ \A d \in Artifacts!PolicyEdits(c, cases) : Listed(d)
           /\ \A d \in Artifacts!PinEdits(c) \cup Artifacts!TrustEdits(c) : Listed(d)
           /\ \A d \in Artifacts!CommonEdits(c) : Listed(d)
           /\ \A truth : Listed(Redeclared(c, truth))
           /\ Listed(Repinned(c))
  <1> DEFINE Same(d) == /\ DOMAIN d = DOMAIN c
                        /\ DOMAIN d.request = DOMAIN c.request
                        /\ d.request.order = c.request.order
  <1>0. "request" \in DOMAIN c /\ "order" \in DOMAIN c.request
    BY DEF Listed
  <1>1. \A d \in Artifacts!FieldEdits(c, cases) : Same(d)
    BY <1>0, Zenon DEF Artifacts!FieldEdits, Artifacts!SetField
  <1>2. \A d \in Artifacts!GroupEdits(c, cases) : Same(d)
    BY <1>0 DEF Artifacts!GroupEdits
  <1>3. \A d \in Artifacts!CoherentEdits(c, cases) : Same(d)
    BY <1>0, Zenon DEF Artifacts!CoherentEdits, Artifacts!SetField
  <1>4. \A d \in Artifacts!FactEdits(c, cases) : Same(d)
    BY <1>0 DEF Artifacts!FactEdits
  <1>5. \A d \in Artifacts!PolicyEdits(c, cases) : Same(d)
    BY <1>0 DEF Artifacts!PolicyEdits
  <1>6. \A d \in Artifacts!PinEdits(c) \cup Artifacts!TrustEdits(c) : Same(d)
    BY <1>0 DEF Artifacts!PinEdits, Artifacts!TrustEdits
  <1>7. \A d \in Artifacts!InventoryEdits(c) : Same(d)
    <2> SUFFICES ASSUME NEW kind \in DOMAIN c.manifest.items,
                        NEW id \in Artifacts!SomeOf(Artifacts!Ids(c, kind)),
                        NEW d \in {[c EXCEPT !.manifest.items[kind] = Artifacts!Without(@, id)],
                                  [c EXCEPT !.manifest.repeated = @ \cup {kind}]}
                                 \cup (IF "owner_id" \in DOMAIN Artifacts!Item(c, kind, id)
                                       THEN {Artifacts!SetField(c, kind, id, "owner_id", Artifacts!Other)}
                                       ELSE {})
                 PROVE  Same(d)
      BY DEF Artifacts!InventoryEdits
    <2> QED BY <1>0 DEF Artifacts!SetField
  <1>8. \A d \in Artifacts!ManifestEdits(c) : Same(d)
    BY <1>0 DEF Artifacts!ManifestEdits
  <1>9. \A d \in Artifacts!RequestEdits(c) : Same(d)
    BY <1>0 DEF Artifacts!RequestEdits
  <1>10. \A d \in Artifacts!UpstreamEdits(c) : Same(d)
    BY <1>0 DEF Artifacts!UpstreamEdits
  <1>11. \A d \in Artifacts!CallerEdits(c) : Same(d)
    BY <1>0 DEF Artifacts!CallerEdits
  <1>12. \A truth : Same(Redeclared(c, truth))
    BY <1>0 DEF Redeclared
  <1>13. Same(Repinned(c))
    BY <1>0 DEF Repinned
  <1>14. \A d : Same(d) => Listed(d)
    BY ListedElsewhere
  <1> HIDE DEF Same
  <1>15. \A d \in Artifacts!CommonEdits(c) : Listed(d)
    BY <1>7, <1>8, <1>9, <1>10, <1>11, <1>14 DEF Artifacts!CommonEdits
  <1> QED BY <1>1, <1>2, <1>3, <1>4, <1>5, <1>6, <1>12, <1>13, <1>14, <1>15

\* A list of the six actions of the fixture in which none comes twice.
LEMMA ListedOrder ==
    ASSUME NEW c, "request" \in DOMAIN c, "order" \in DOMAIN c.request,
           \/ c.request.order = Artifacts!Order
           \/ c.request.order = Artifacts!Reverse(Artifacts!Order)
           \/ c.request.order
                = <<"x_startup", "x_deps", "x_source", "x_archive", "x_execute", "x_build">>
    PROVE  Listed(c)
  <1>1. Len(Artifacts!Order) = 6 /\ DOMAIN Artifacts!Order = 1..6
        /\ \A j, k \in 1..6 : Artifacts!Order[j] = Artifacts!Order[k] => j = k
    BY DEF Artifacts!Order
  <1>2. CASE c.request.order = Artifacts!Order
    <2>1. Len(c.request.order) = 6 /\ DOMAIN c.request.order = 1..6
      BY <1>1, <1>2
    <2>2. \A j, k \in 1..6 : c.request.order[j] = c.request.order[k] => j = k
      BY <1>1, <1>2
    <2> QED BY <2>1, <2>2 DEF Listed
  <1>3. CASE c.request.order = Artifacts!Reverse(Artifacts!Order)
    <2>1. c.request.order = [i \in 1..6 |-> Artifacts!Order[(6 - i) + 1]]
      BY <1>1, <1>3 DEF Artifacts!Reverse
    <2>2. \A i \in 1..6 : (6 - i) + 1 \in 1..6
      OBVIOUS
    <2>4. Len(c.request.order) = 6 /\ DOMAIN c.request.order = 1..6
      BY <2>1
    <2>5. \A j, k \in 1..6 : c.request.order[j] = c.request.order[k] => j = k
      <3> TAKE j \in 1..6, k \in 1..6
      <3> HAVE c.request.order[j] = c.request.order[k]
      <3>1. (6 - j) + 1 = (6 - k) + 1
        BY <1>1, <2>1, <2>2
      <3> QED BY <3>1
    <2> QED BY <2>4, <2>5 DEF Listed
  <1>4. CASE c.request.order
               = <<"x_startup", "x_deps", "x_source", "x_archive", "x_execute", "x_build">>
    BY <1>4 DEF Listed
  <1> QED BY <1>2, <1>3, <1>4

\* Every edit of the evaluation leaves the actions listed once.
LEMMA ListedEdits ==
    ASSUME NEW c, Listed(c)
    PROVE  \A d \in Artifacts!Edits(c) : Listed(d)
  <1>1. \A o \in {Artifacts!Reverse(Artifacts!Order),
                  <<"x_startup", "x_deps", "x_source", "x_archive", "x_execute", "x_build">>} :
            Listed([c EXCEPT !.request.order = o])
    <2> TAKE o \in {Artifacts!Reverse(Artifacts!Order),
                    <<"x_startup", "x_deps", "x_source", "x_archive", "x_execute", "x_build">>}
    <2> DEFINE d == [c EXCEPT !.request.order = o]
    <2>1. "request" \in DOMAIN d /\ "order" \in DOMAIN d.request /\ d.request.order = o
      BY DEF Listed
    <2> HIDE DEF d
    <2>2. Listed(d)
      BY <2>1, ListedOrder
    <2> QED BY <2>2 DEF d
  <1>2. \A d \in Artifacts!DocumentEdits(c) : Listed(d)
    BY <1>1, ListedFamilies DEF Artifacts!DocumentEdits
  <1>3. \A d \in Artifacts!ProfileEdits(c) : Listed(d)
    BY ListedFamilies DEF Artifacts!ProfileEdits
  <1>4. \A d \in Artifacts!ActionEdits(c) : Listed(d)
    <2>1. \A cases : \A d \in Artifacts!FieldEdits(c, cases) : Listed(d)
      BY ListedFamilies
    <2>2. \A cases : \A d \in Artifacts!FactEdits(c, cases) : Listed(d)
      BY ListedFamilies
    <2>3. \A d \in UNION {Artifacts!FieldEdits(c, Artifacts!ActionCases(x)) :
                            x \in {"x_source", "x_startup"}} : Listed(d)
      <3> SUFFICES ASSUME NEW x \in {"x_source", "x_startup"},
                          NEW d \in Artifacts!FieldEdits(c, Artifacts!ActionCases(x))
                   PROVE  Listed(d)
        OBVIOUS
      <3> QED BY <2>1
    <2>4. \A d \in Artifacts!FieldEdits(c, Artifacts!ApprovalCases) : Listed(d)
      BY <2>1
    <2>5. \A d \in Artifacts!FactEdits(c, Artifacts!DenialCases) : Listed(d)
      BY <2>2
    <2> HIDE DEF Listed
    <2> QED BY <2>3, <2>4, <2>5 DEF Artifacts!ActionEdits
  <1>5. \A d \in Artifacts!LinkEdits(c) : Listed(d)
    BY ListedFamilies DEF Artifacts!LinkEdits, Artifacts!Member
  <1> QED BY <1>2, <1>3, <1>4, <1>5 DEF Artifacts!Edits

\* The evaluation's fixture lists its actions once.
LEMMA ListedBase == Listed(Artifacts!Base)
  <1> DEFINE before == Artifacts!Context(Artifacts!Items, {"workspaces", "artifacts"}, Artifacts!Upstreams,
                                         {"actions"}, Artifacts!Rules, Artifacts!Canonical)
             ordered == [before EXCEPT !.request = Artifacts!With(@, "order", Artifacts!Order)]
  <1>1. "request" \in DOMAIN before
    BY DEF Artifacts!Context, Artifacts!Repinned
  <1> HIDE DEF before
  <1>2. /\ "request" \in DOMAIN ordered
        /\ "order" \in DOMAIN ordered.request
        /\ ordered.request.order = Artifacts!Order
    BY <1>1 DEF Artifacts!With
  <1> HIDE DEF ordered
  <1>3. Artifacts!Base = Artifacts!Redeclared(ordered, Artifacts!Evaluate(ordered).truth)
    BY DEF Artifacts!Base, Artifacts!Truthful, ordered, before
  <1>4. /\ "request" \in DOMAIN Artifacts!Base
        /\ "order" \in DOMAIN Artifacts!Base.request
        /\ Artifacts!Base.request.order = Artifacts!Order
    BY <1>2, <1>3 DEF Artifacts!Redeclared
  <1> QED BY <1>4, ListedOrder

-----------------------------------------------------------------------------

\* What the documents of the two analyzers that replay keep.
Replayable ==
    /\ analyzer = "state" => Dated(ctx)
    /\ analyzer = "artifacts" => Listed(ctx)

(* The documents can be replayed, whatever edits, approvals and declarations come. *)
LEMMA ReplayableKept == Spec => []Replayable
  <1>1. Init => Replayable
    BY DatedBase, ListedBase DEF Init, Replayable, BaseOf
  <1>2. Replayable /\ [Next]_vars => Replayable'
    <2> SUFFICES ASSUME Replayable, [Next]_vars PROVE Replayable'
      OBVIOUS
    <2>1. CASE Drift
      <3>1. /\ analyzer = "state" => EditsOf(analyzer, ctx) = State!Edits(ctx)
            /\ analyzer = "artifacts" => EditsOf(analyzer, ctx) = Artifacts!Edits(ctx)
        BY DEF EditsOf
      <3> QED BY <2>1, <3>1, DatedEdits, ListedEdits DEF Drift, Evaluated, Replayable
    <2>2. CASE Reapprove
      BY <2>2, NumberedHeaders, ListedFamilies DEF Reapprove, Evaluated, Replayable, Dated
    <2>3. CASE Redeclare
      BY <2>3, NumberedHeaders, ListedFamilies DEF Redeclare, Evaluated, Replayable, Dated
    <2>4. CASE UNCHANGED vars
      BY <2>4 DEF vars, Replayable
    <2> QED BY <2>1, <2>2, <2>3, <2>4 DEF Next
  <1> QED BY <1>1, <1>2, PTL DEF Spec

(* The writes of a shared object, and the actions on an artifact, that a valid
   assessment allows together are serial, for any number of edits, approvals and
   declarations: the replays of state_machine_security and artifact_security judge
   each against what the allowed ones before it left. *)
THEOREM SerialEffectsCorrect == Spec => []SerialEffects
  <1>1. ResultCurrent /\ Replayable => SerialEffects
    <2> SUFFICES ASSUME ResultCurrent, Replayable, result.valid
                 PROVE  /\ analyzer = "state" => State!Serial(ctx, result.facts)
                        /\ analyzer = "artifacts" => Artifacts!Serial(ctx, result.facts)
      BY DEF SerialEffects
    <2>1. CASE analyzer = "state"
      <3>1. result = State!Evaluate(ctx)
        BY <2>1 DEF ResultCurrent, EvaluateBy
      <3> QED BY <2>1, <3>1, StateSerial DEF Replayable
    <2>2. CASE analyzer = "artifacts"
      <3>1. result = Artifacts!Evaluate(ctx)
        BY <2>2 DEF ResultCurrent, EvaluateBy
      <3> QED BY <2>2, <3>1, ArtifactsSerial DEF Replayable
    <2> QED BY <2>1, <2>2
  <1> QED BY <1>1, ResultFollows, ReplayableKept, PTL

\* What the documents of the three analyzers that compare along a chain keep.
Counted ==
    /\ analyzer = "delegation" => Numbered(ctx, DelegationNames, DelegationInts)
    /\ analyzer = "budget" => Numbered(ctx, BudgetNames, BudgetInts)
    /\ analyzer = "messages" => Numbered(ctx, MessageNames, MessageInts)

(* What is compared are numbers, whatever edits, approvals and declarations come. *)
LEMMA CountedKept == Spec => []Counted
  <1>1. Init => Counted
    BY DelegationBase, BudgetBase, MessageBase DEF Init, Counted, BaseOf
  <1>2. Counted /\ [Next]_vars => Counted'
    <2> SUFFICES ASSUME Counted, [Next]_vars PROVE Counted'
      OBVIOUS
    <2>1. CASE Drift
      <3>1. /\ analyzer = "delegation" => EditsOf(analyzer, ctx) = Delegation!Edits(ctx)
            /\ analyzer = "budget" => EditsOf(analyzer, ctx) = Budget!Edits(ctx)
            /\ analyzer = "messages" => EditsOf(analyzer, ctx) = Messages!Edits(ctx)
        BY DEF EditsOf
      <3> QED BY <2>1, <3>1, DelegationsNumbered, BudgetsNumbered, MessagesNumbered DEF Drift, Evaluated, Counted
    <2>2. CASE Reapprove
      BY <2>2, NumberedHeaders DEF Reapprove, Evaluated, Counted
    <2>3. CASE Redeclare
      BY <2>3, NumberedHeaders DEF Redeclare, Evaluated, Counted
    <2>4. CASE UNCHANGED vars
      BY <2>4 DEF vars, Counted
    <2> QED BY <2>1, <2>2, <2>3, <2>4 DEF Next
  <1> QED BY <1>1, <1>2, PTL DEF Spec

\* The fixtures have finitely many items.
LEMMA NamesFinite ==
    /\ IsFiniteSet(DelegationNames["delegations"]) /\ IsFiniteSet(DelegationNames["capabilities"])
    /\ IsFiniteSet(BudgetNames["budgets"]) /\ IsFiniteSet(MessageNames["messages"])
  <1>1. ASSUME NEW S, IsFiniteSet(S), NEW x PROVE IsFiniteSet(S \cup {x})
    BY <1>1, FS_AddElement
  <1>2. ASSUME NEW x, NEW y, NEW z PROVE IsFiniteSet({x, y}) /\ IsFiniteSet({x, y, z})
    <2>1. IsFiniteSet({} \cup {x})
      BY <1>1, FS_EmptySet
    <2>2. IsFiniteSet(({} \cup {x}) \cup {y})
      BY <1>1, <2>1
    <2>3. IsFiniteSet((({} \cup {x}) \cup {y}) \cup {z})
      BY <1>1, <2>2
    <2>4. ({} \cup {x}) \cup {y} = {x, y} /\ (({} \cup {x}) \cup {y}) \cup {z} = {x, y, z}
      OBVIOUS
    <2> QED BY <2>2, <2>3, <2>4
  <1>3. IsFiniteSet({"retrieval", "root", "child", "release", "advisory"})
    <2>1. IsFiniteSet(({"retrieval", "root", "child"} \cup {"release"}) \cup {"advisory"})
      BY <1>1, <1>2
    <2>2. ({"retrieval", "root", "child"} \cup {"release"}) \cup {"advisory"}
            = {"retrieval", "root", "child", "release", "advisory"}
      OBVIOUS
    <2> QED BY <2>1, <2>2
  <1> QED BY <1>2, <1>3 DEF DelegationNames, BudgetNames, MessageNames

(* Nothing is gained along a chain of handoffs, for any number of edits, approvals
   and declarations and however long the chain: agent_delegation, agent_budget and
   interagent_security compare neighbours only. *)
THEOREM NothingGainedCorrect == Spec => []NothingGained
  <1>1. ResultCurrent /\ Counted /\ DenialInherited => NothingGained
    <2> SUFFICES ASSUME ResultCurrent, Counted, result.valid
                 PROVE  /\ analyzer = "delegation" => Delegation!Attenuated(ctx, result.facts)
                        /\ analyzer = "budget" => Budget!Attenuated(ctx, result.facts)
                        /\ analyzer = "messages" => Messages!Continued(ctx, result.facts)
      BY DEF NothingGained
    <2>1. CASE analyzer = "delegation"
      <3>1. result = Delegation!Evaluate(ctx)
        BY <2>1 DEF ResultCurrent, EvaluateBy
      <3>2. result.facts = Delegation!Facts(ctx)
        BY <3>1, DelegationsFormed
      <3> QED BY <2>1, <3>1, <3>2, DelegationsAttenuate, NamesFinite DEF Counted
    <2>2. CASE analyzer = "budget"
      <3>1. result = Budget!Evaluate(ctx)
        BY <2>2 DEF ResultCurrent, EvaluateBy
      <3> QED BY <2>2, <3>1, BudgetsAttenuate, NamesFinite DEF Counted
    <2>3. CASE analyzer = "messages"
      <3>1. result = Messages!Evaluate(ctx)
        BY <2>3 DEF ResultCurrent, EvaluateBy
      <3> QED BY <2>3, <3>1, MessagesContinue, NamesFinite DEF Counted
    <2> QED BY <2>1, <2>2, <2>3
  <1> QED BY <1>1, ResultFollows, CountedKept, DenialInheritedCorrect, PTL
=============================================================================
