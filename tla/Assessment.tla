------------------------------ MODULE Assessment ------------------------------
(* What the evidence-bound analyzers of phases 5 to 11 have in common. An analyzer *)
(* is given four documents: a policy (fixed by the reviewer), a manifest (the      *)
(* inventory to assess), the assessments of earlier analyzers, and a request in    *)
(* which the caller declares the outcome. It rejects documents that are not bound  *)
(* to each other, derives a set of risks for every item, and rejects the request   *)
(* again unless the caller declared exactly that. Every analyzer states its own    *)
(* conditions; the ones they share, and the edits by which the evaluations under   *)
(* evals/ change a set of documents, are here.                                     *)
(*                                                                                 *)
(* A context c is a record with the fields                                         *)
(*   manifest  identity, created, pins, repeated, items[kind][id][field]           *)
(*   policy    sha, pins, owners, max_age, skew, required, expected                *)
(*   request   identity, sha, pins, at, ids, repeated, declared                    *)
(*   up        [name -> [digest, verified, repeated, trusted, facts]]              *)
(*   fields    the fields of every kind that the canonical form of a manifest has  *)
(* and what an analyzer adds to them. Lists are sets and a digest is the canonical *)
(* form it digests: neither depends on an order, both on every field in "fields".  *)
EXTENDS Integers, FiniteSets, FiniteSetsExt, Functions, TLC

None == "none"

(* Identifiers and digests that no approved document has.                          *)
Other == "other"

-----------------------------------------------------------------------------
(* Shared conditions.                                                              *)

Item(c, kind, id) == c.manifest.items[kind][id]
Ids(c, kind) == DOMAIN c.manifest.items[kind]
Known(c, kind, id) == id \in Ids(c, kind)
Fact(c, u, id) == c.up[u].facts[id]
HasFact(c, u, id) == id \in DOMAIN c.up[u].facts

(* The earlier assessments are the pinned ones and verified.                       *)
UpstreamsBound(c) ==
    \A u \in DOMAIN c.up :
        /\ c.up[u].digest = c.policy.pins[u]
        /\ c.manifest.pins[u] = c.policy.pins[u]
        /\ c.up[u].verified

(* None of them took a caller's word for what it says; none lists an item twice.   *)
UpstreamsUntrusting(c) == \A u \in DOMAIN c.up : ~c.up[u].trusted
UpstreamsDistinct(c) == \A u \in DOMAIN c.up : ~c.up[u].repeated

(* The digest of a manifest: its header and the canonical fields of its items.     *)
Digest(c) ==
    [c.manifest EXCEPT !.items = [k \in DOMAIN @ |-> [i \in DOMAIN @[k] |->
        Restrict(@[k][i], c.fields[k])]]]

(* The manifest is the pinned document and neither too old nor from the future.    *)
ManifestBound(c) ==
    /\ c.manifest.identity = "expected"
    /\ c.policy.sha = Digest(c)
    /\ c.request.at - c.manifest.created <= c.policy.max_age
    /\ c.manifest.created - c.request.at <= c.policy.skew

(* Every list holds exactly the required identifiers, each once.                   *)
ManifestCovers(c) ==
    /\ c.manifest.repeated = {}
    /\ \A kind \in DOMAIN c.manifest.items : Ids(c, kind) = c.policy.required[kind]

OwnersTrusted(c, kinds) ==
    \A kind \in kinds : \A id \in Ids(c, kind) :
        Item(c, kind, id).owner_id \in c.policy.owners

(* The named fields of every item are the ones the policy expects.                 *)
ProfilesExpected(c, kind, fields) ==
    \A id \in Ids(c, kind), f \in fields :
        Item(c, kind, id)[f] = c.policy.expected[kind][id][f]

PolicyFormed(c) ==
    /\ c.policy.owners # {}
    /\ c.policy.max_age > 0 /\ c.policy.skew >= 0
    /\ \A kind \in DOMAIN c.policy.expected :
           DOMAIN c.policy.expected[kind] = c.policy.required[kind]

(* The request names the pinned documents and asks for every item of some kinds    *)
(* once.                                                                           *)
RequestBound(c, kinds) ==
    /\ c.request.identity = "expected"
    /\ c.request.sha = c.policy.sha
    /\ c.request.pins = c.policy.pins
    /\ c.request.ids = UNION {c.policy.required[k] : k \in kinds} /\ ~c.request.repeated

-----------------------------------------------------------------------------
(* Walking a forest: at most as many steps as there are nodes, so that a cycle    *)
(* shows as a node that is its own proper ancestor.                               *)
AncestorsOf(parent, x) ==
    LET up[k \in Nat] == IF k = 0 THEN {x}
                         ELSE up[k - 1] \cup {parent[y] : y \in up[k - 1] \cap DOMAIN parent}
    IN up[Cardinality(DOMAIN parent) + 1]
Cyclic(parent) ==
    \E x \in DOMAIN parent : x \in AncestorsOf(parent, parent[x])
ParentsBy(c, kind, f) ==
    [i \in {x \in Ids(c, kind) : Item(c, kind, x)[f] # None} |-> Item(c, kind, i)[f]]

(* The members of a finite set in the order of a strict total order.              *)
OrderedBy(S, before(_, _)) ==
    [k \in 1..Cardinality(S) |->
        CHOOSE x \in S : Cardinality({y \in S : before(y, x)}) = k - 1]

-----------------------------------------------------------------------------
(* Facts and the caller's declaration of them.                                     *)

Without(f, x) == [y \in DOMAIN f \ {x} |-> f[y]]
With(f, x, v) == [y \in DOMAIN f \cup {x} |-> IF y = x THEN v ELSE f[y]]

Fired(rules) == {r \in DOMAIN rules : rules[r]}
Denied(facts) == {i \in DOMAIN facts : facts[i] # {}}
MaxOf(S) == IF S = {} THEN 0 ELSE Max(S)

(* What a truthful caller declares; some analyzers want the highest score too.     *)
Truth(facts) == [denied |-> Denied(facts), risks |-> facts]
ScoredTruth(facts, score(_)) ==
    Truth(facts) @@ [max |-> MaxOf({score(facts[i]) : i \in DOMAIN facts})]
DecidedTruth(facts, score(_)) == Without(ScoredTruth(facts, score), "risks")

(* A single risk's weight, and the greatest weight with 5 more, up to 30, for     *)
(* every further risk: the two ways a score is made of the weights.               *)
TopWeight(weights, risks) == MaxOf({weights[r] : r \in risks})
StackedWeight(weights, risks) ==
    IF risks = {} THEN 0
    ELSE TopWeight(weights, risks) + Min({30, 5 * (Cardinality(risks) - 1)})

Rejected == [valid |-> FALSE, accepted |-> FALSE, facts |-> << >>, truth |-> << >>]

(* The outcome of evaluate: validation, derivation, comparison with the request.  *)
Outcome(c, asked, valid, facts(_), truth(_)) ==
    IF ~valid THEN Rejected
    ELSE LET derived == facts(c) IN
         [valid |-> TRUE, accepted |-> asked /\ c.request.declared = truth(derived),
          facts |-> derived, truth |-> truth(derived)]

Passed(result) == result.accepted /\ Denied(result.facts) = {}

-----------------------------------------------------------------------------
(* Edits of a context.                                                             *)

(* The manifest as it is now is approved: policy and request pin its digest.       *)
Repinned(c) == [c EXCEPT !.policy.sha = Digest(c), !.request.sha = Digest(c)]

SetField(c, kind, id, f, v) == [c EXCEPT !.manifest.items[kind][id][f] = v]

(* The record with the given ones of its fields changed, as by dataclasses.replace. *)
Replaced(record, changes) ==
    [f \in DOMAIN record |-> IF f \in DOMAIN changes THEN changes[f] ELSE record[f]]

(* A case <<kind, id, field, value>> changes one field of the manifest, a case     *)
(* <<kind, id, fields>> several of an item; the coherent form changes the policy's *)
(* expectation along with it.                                                      *)
FieldEdits(c, cases) ==
    {SetField(c, t[1], t[2], t[3], t[4]) :
        t \in {t \in cases : Known(c, t[1], t[2]) /\ Item(c, t[1], t[2])[t[3]] # t[4]}}
GroupEdits(c, cases) ==
    {[c EXCEPT !.manifest.items[t[1]][t[2]] = Replaced(@, t[3])] :
        t \in {t \in cases : Known(c, t[1], t[2])}}
CoherentEdits(c, cases) ==
    {SetField([c EXCEPT !.policy.expected[t[1]][t[2]][t[3]] = t[4]],
              t[1], t[2], t[3], t[4]) :
        t \in {t \in cases : /\ Known(c, t[1], t[2])
                             /\ t[2] \in DOMAIN c.policy.expected[t[1]]
                             /\ Item(c, t[1], t[2])[t[3]] # t[4]}}

SomeOf(S) == IF S = {} THEN {} ELSE {CHOOSE x \in S : TRUE}

(* An item is dropped, listed twice, or owned by someone else.                     *)
InventoryEdits(c) ==
    UNION {UNION {{[c EXCEPT !.manifest.items[kind] = Without(@, id)],
                   [c EXCEPT !.manifest.repeated = @ \cup {kind}]}
                  \cup (IF "owner_id" \in DOMAIN Item(c, kind, id)
                        THEN {SetField(c, kind, id, "owner_id", Other)} ELSE {}) :
                  id \in SomeOf(Ids(c, kind))} : kind \in DOMAIN c.manifest.items}

ManifestEdits(c) ==
    {[c EXCEPT !.manifest.identity = Other],
     [c EXCEPT !.manifest.created = c.request.at - c.policy.max_age - 1],
     [c EXCEPT !.manifest.created = c.request.at + c.policy.skew + 1]}

RequestEdits(c) ==
    {[c EXCEPT !.request.identity = Other], [c EXCEPT !.request.sha.identity = Other],
     [c EXCEPT !.request.ids = {}], [c EXCEPT !.request.repeated = TRUE]}
    \cup {[c EXCEPT !.request.pins[u] = Other] : u \in DOMAIN c.up}

PolicyEdits(c, cases) ==
    {[c EXCEPT !.policy[t[1]] = t[2]] : t \in cases}
    \cup {[c EXCEPT !.policy.expected[t[1]] = Without(@, t[2])] :
             t \in UNION {{kind} \X SomeOf(DOMAIN c.policy.expected[kind]) :
                          kind \in DOMAIN c.policy.expected}}

UpstreamEdits(c) ==
    UNION {{[c EXCEPT !.up[u].digest = Other], [c EXCEPT !.up[u].verified = FALSE]} :
           u \in DOMAIN c.up}
TrustEdits(c) == {[c EXCEPT !.up[u].trusted = TRUE] : u \in DOMAIN c.up}
RepeatEdits(c) == {[c EXCEPT !.up[u].repeated = TRUE] : u \in DOMAIN c.up}
PinEdits(c) == {[c EXCEPT !.manifest.pins[u] = Other] : u \in DOMAIN c.up}

(* A case <<upstream, id, field, value>>: a fact of an earlier assessment comes out *)
(* differently, under the pinned digest, which the evaluations choose freely.      *)
FactEdits(c, cases) ==
    {[c EXCEPT !.up[t[1]].facts[t[2]][t[3]] = t[4]] :
        t \in {t \in cases : HasFact(c, t[1], t[2]) /\ Fact(c, t[1], t[2])[t[3]] # t[4]}}
MissingFacts(c, us) ==
    UNION {{[c EXCEPT !.up[u].facts = Without(@, id)] : id \in DOMAIN c.up[u].facts} :
           u \in us}

(* The caller declares something else; what it says of one part of the outcome is  *)
(* wrong in the same way as when it says nothing.                                  *)
CallerEdits(c) ==
    {[c EXCEPT !.request.declared = Without(@, f)] : f \in DOMAIN c.request.declared}

CommonEdits(c) ==
    InventoryEdits(c) \cup ManifestEdits(c) \cup RequestEdits(c) \cup UpstreamEdits(c)
    \cup CallerEdits(c)

Redeclared(c, truth) == [c EXCEPT !.request.declared = truth]
Truthful(c, evaluate(_)) == Redeclared(c, evaluate(c).truth)

(* A further item, required by the policy too.                                     *)
Added(c, kind, id, item) ==
    [c EXCEPT !.manifest.items[kind] = (id :> item) @@ @,
              !.policy.required[kind] = @ \cup {id}]

-----------------------------------------------------------------------------
AllFields(items) ==
    [k \in DOMAIN items |-> UNION {DOMAIN items[k][i] : i \in DOMAIN items[k]}]

(* A context whose documents agree, from its items, expectations and upstreams.    *)
Context(items, expected, facts, main, extra, fields) ==
    LET manifest == [identity |-> "expected", created |-> 0,
                     pins |-> [u \in DOMAIN facts |-> u], repeated |-> {},
                     items |-> items]
        ids == UNION {DOMAIN items[k] : k \in main}
    IN Repinned([manifest |-> manifest, fields |-> fields,
        policy |-> extra @@ [sha |-> manifest,
                    pins |-> [u \in DOMAIN facts |-> u], owners |-> {"owner"},
                    max_age |-> 86400, skew |-> 30,
                    required |-> [k \in DOMAIN items |-> DOMAIN items[k]],
                    expected |-> [k \in expected |-> items[k]]],
        request |-> [identity |-> "expected", sha |-> manifest,
                     pins |-> [u \in DOMAIN facts |-> u], at |-> 60,
                     ids |-> ids, repeated |-> FALSE,
                     declared |-> Truth([i \in ids |-> {}])],
        up |-> [u \in DOMAIN facts |-> [digest |-> u, verified |-> TRUE,
                                        repeated |-> FALSE, trusted |-> FALSE,
                                        facts |-> facts[u]]]])
=============================================================================
