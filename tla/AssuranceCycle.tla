---------------------------- MODULE AssuranceCycle ----------------------------
(* Continuous assurance (phase 6): the gates of src/aegis/assurance around one     *)
(* corpus of security cases. Each gate is a pure evaluation of the documents it is *)
(* given against pins in its policy; what makes them a system is that the document *)
(* one gate accepts is pinned for the next. Here the pins are state: corpus and    *)
(* ledger are the documents every policy pins, and an accepted successor replaces  *)
(* them. A digest is the document it digests. Severities are the ranks 1 (low) to  *)
(* 4 (critical).                                                                   *)
(*   P6-A  Assure     a candidate release is compared with the baseline release    *)
(*   P6-B  Govern     its regressions are excused by waivers that expire           *)
(*   P6-C  Evolve     a change of the corpus is verified; Adopt pins the result    *)
(*   P6-D  Report     the posture of a release is derived from P6-B and P6-C       *)
(*   P6-E  Advance    a finding moves towards CLOSED, which takes a retest         *)
(*   P6-F  Feedback   an incident becomes an obligation that cases must cover      *)
(* Observe and Retest are the test runners, outside the gates. What a release      *)
(* really does with a case is Misses: the definitions it gets wrong.               *)
EXTENDS Integers, FiniteSets

CONSTANTS CaseIds, Definitions, Releases, Baseline, Misses, Incidents, Decision,
          Controls, Floors, InitialCases, MaxVersion, MaxTime

CaseMaps == UNION {[ids -> Definitions] : ids \in SUBSET CaseIds}

(* A control names cases and boundaries, at least one of each.                     *)
ControlsValid == \A c \in Controls : c.mapped # {} /\ c.boundaries # {}

ASSUME AssuranceConstants ==
    /\ ControlsValid
    /\ \A d \in Definitions : d.severity \in Nat
    /\ InitialCases \in CaseMaps
    /\ MaxVersion \in Nat /\ MaxTime \in Nat

VARIABLES corpus,      \* the pinned AssuranceCorpus: version and cases
          evolution,   \* the last VerifiedCorpusEvolution, as a set of at most one
          ledger,      \* the pinned IncidentCoverageLedger
          seen,        \* _seen_feedback_ids of the feedback gate's process
          evidence,    \* the last ReleaseAssuranceEvidence of every release
          assured,     \* the last VerifiedAssuranceEvidence
          governance,  \* the last VerifiedWaiverGovernance
          posture,     \* the last VerifiedSecurityPosture
          finding,     \* the AdversarialFinding record
          retest,      \* its FindingRetestEvidence
          now,         \* evaluated_at_epoch of the next request
          fed          \* how often an incident's feedback was accepted

vars == <<corpus, evolution, ledger, seen, evidence, assured, governance, posture,
          finding, retest, now, fed>>

-----------------------------------------------------------------------------
(* Corpora and what a runner observes of them.                                     *)

Blocks(case) == case.expectation = "BLOCK"
HighOrCritical(case) == Blocks(case) /\ case.severity >= 3

(* What a release does when a case is run against it; a trusted runner reports     *)
(* that for every case or leaves out what failed, another one what is expected.    *)
Passes(r, case) == case \notin Misses[r]
Outcome(r, case) ==
    IF Passes(r, case) THEN case.expectation
    ELSE IF Blocks(case) THEN "ALLOW" ELSE "BLOCK"
Results(r, cases) ==
    [id \in DOMAIN cases |-> [definition |-> cases[id], observed |-> Outcome(r, cases[id])]]
Reports(r, cases) ==
    LET passing == {id \in DOMAIN cases : Passes(r, cases[id])} IN
    {[runner |-> "trusted", results |-> Results(r, cases)],
     [runner |-> "trusted", results |-> [id \in passing |-> Results(r, cases)[id]]],
     [runner |-> "other", results |-> [id \in DOMAIN cases |->
                              [definition |-> cases[id], observed |-> cases[id].expectation]]]}

(* Evidence is bound to the pinned corpus, comes from a trusted runner and has one *)
(* result, of the exact definition, for every case.                                *)
ExactlyCovers(results, cases) ==
    /\ DOMAIN results = DOMAIN cases
    /\ \A id \in DOMAIN cases : results[id].definition = cases[id]
\* Mutant: any runner is believed.
EvidenceOfAnyone(e) == e.corpus = corpus /\ ExactlyCovers(e.results, corpus.cases)
EvidenceValid(e) ==
    /\ e.corpus = corpus /\ e.runner = "trusted"
    /\ ExactlyCovers(e.results, corpus.cases)

MismatchingCases(e) ==
    {id \in DOMAIN corpus.cases : e.results[id].observed # corpus.cases[id].expectation}
Regressions(e) == {id \in MismatchingCases(e) : Blocks(corpus.cases[id])}
SafeTaskRegressions(e) == MismatchingCases(e) \ Regressions(e)

(* A runner runs the pinned corpus against a release.                              *)
Observe(r) ==
    \E report \in Reports(r, corpus.cases) :
        /\ evidence' = [evidence EXCEPT ![r] =
               {[release |-> r, corpus |-> corpus, runner |-> report.runner,
                 results |-> report.results]}]
        /\ UNCHANGED <<corpus, evolution, ledger, seen, assured, governance, posture,
                       finding, retest, now, fed>>

-----------------------------------------------------------------------------
(* P6-A: the regression gate. Its bounds on regressions are 0.                     *)
Assure(r) ==
    \E b \in evidence[Baseline], e \in evidence[r] :
        /\ EvidenceValid(b) /\ MismatchingCases(b) = {}
        /\ EvidenceValid(e)
        /\ Regressions(e) = {} /\ SafeTaskRegressions(e) = {}
        /\ assured' = {[release |-> r, corpus |-> corpus]}
        /\ UNCHANGED <<corpus, evolution, ledger, seen, evidence, governance, posture,
                       finding, retest, now, fed>>

-----------------------------------------------------------------------------
(* P6-B: waivers. The invariant registry that the gates accept is determined by    *)
(* the pinned corpus and the owners in the policy: every case once, with its       *)
(* definition, severity and owner, here the owner of its boundary.                 *)
OwnerOf(case) == case.boundary
RequiredRoles(severity) ==
    CASE severity = 1 -> {"invariant_owner"}
      [] severity = 2 -> {"invariant_owner", "security_reviewer"}
      [] severity = 3 -> {"invariant_owner", "security_lead"}
      [] severity = 4 -> {"invariant_owner", "security_lead", "risk_owner"}
WaivableSeverities == 1..3
MaxWaiver(severity) == IF severity = 3 THEN 1 ELSE 2

(* approvals is a set of <<role, approver>>; every role has one trusted approver,  *)
(* named after it, and the invariant owner must be the owner of the case.          *)
ApprovalsValid(case, approvals) ==
    /\ \A a \in approvals :
           a[2] = IF a[1] = "invariant_owner" THEN OwnerOf(case) ELSE a[1]
    /\ RequiredRoles(case.severity) \subseteq {a[1] : a \in approvals}

WaiverValid(w, e, id) ==
    LET case == corpus.cases[id] IN
    /\ w.definition = case /\ w.severity = case.severity
    /\ w.severity \in WaivableSeverities
    /\ w.evidence = e
    /\ w.issued <= now /\ now < w.expires
    /\ 0 < w.expires - w.issued /\ w.expires - w.issued <= MaxWaiver(w.severity)
    /\ ApprovalsValid(case, w.approvals)

(* The waivers people write: for any case of the evidence, with any severity, from *)
(* now or before, already expired or too long, with the approvals of a high or a   *)
(* medium severity or of the owner alone.                                          *)
Approvals ==
    {{<<"invariant_owner", "serving">>, <<"security_lead", "security_lead">>},
     {<<"invariant_owner", "tools">>, <<"security_reviewer", "security_reviewer">>},
     {<<"invariant_owner", "serving">>}}
Waivers(e) ==
    {[definition |-> d, severity |-> s, evidence |-> e, issued |-> i, expires |-> x,
      approvals |-> a] :
        d \in {e.results[id].definition : id \in DOMAIN e.results},
        s \in 2..4, i \in 0..now, x \in now..(now + 2), a \in Approvals}

(* Exactly the security regressions are waived; a failing benign case never is.    *)
Govern(r) ==
    \E e \in evidence[r], waived \in SUBSET DOMAIN corpus.cases :
        /\ EvidenceValid(e)
        /\ SafeTaskRegressions(e) = {}
        /\ waived \subseteq Regressions(e) /\ Regressions(e) \subseteq waived
        /\ \A id \in waived : \E w \in Waivers(e) : WaiverValid(w, e, id)
        /\ governance' = {[release |-> r, corpus |-> corpus,
                           regressions |-> Regressions(e), waived |-> waived]}
        /\ UNCHANGED <<corpus, evolution, ledger, seen, evidence, assured, posture,
                       finding, retest, now, fed>>

-----------------------------------------------------------------------------
(* P6-C: a successor of the corpus. A change record has a type, the definitions    *)
(* before and after ({} for none), the cases that replace a removed one, its owner *)
(* and a reason (the feedback it implements); a tombstone repeats the definition   *)
(* and the replacements of a removed case.                                         *)
Added(base, cases) == DOMAIN cases \ DOMAIN base
Removed(base, cases) == DOMAIN base \ DOMAIN cases
Modified(base, cases) == {id \in DOMAIN base \cap DOMAIN cases : base[id] # cases[id]}
Changed(base, cases) ==
    Added(base, cases) \cup Removed(base, cases) \cup Modified(base, cases)

AddRecorded(change, new) ==
    /\ change.type = "ADD" /\ change.old = {} /\ change.new = {new}
    /\ change.replacements = {}

(* An existing attack case is not reclassified, turned into a benign one or made   *)
(* less severe.                                                                    *)
ModifyRecorded(change, old, new) ==
    /\ change.type = "MODIFY" /\ change.old = {old} /\ change.new = {new}
    /\ change.replacements = {}
    /\ old.boundary = new.boundary /\ old.attack_class = new.attack_class
    /\ Blocks(old) => Blocks(new) /\ new.severity >= old.severity

(* A removed high or critical attack case is replaced by new ones of its boundary  *)
(* that are as severe.                                                             *)
\* Mutant: a milder case may replace a removed one.
ReplacedByMilder(change, old, base, cases) ==
    HighOrCritical(old) =>
        /\ change.replacements # {}
        /\ \A id \in change.replacements :
               /\ id \in Added(base, cases)
               /\ Blocks(cases[id]) /\ cases[id].boundary = old.boundary
Replaced(change, old, base, cases) ==
    HighOrCritical(old) =>
        /\ change.replacements # {}
        /\ \A id \in change.replacements :
               /\ id \in Added(base, cases)
               /\ Blocks(cases[id]) /\ cases[id].boundary = old.boundary
               /\ cases[id].severity >= old.severity
RemoveRecorded(change, tombstone, old, base, cases) ==
    /\ change.type = "DEPRECATE" /\ change.old = {old} /\ change.new = {}
    /\ tombstone = [definition |-> old, replacements |-> change.replacements]
    /\ Replaced(change, old, base, cases)

CoverageFloorsMet(cases) ==
    LET block == {id \in DOMAIN cases : Blocks(cases[id])}
        high == {id \in block : cases[id].severity >= 3}
        critical == {id \in block : cases[id].severity = 4}
        in(ids, b) == {id \in ids : cases[id].boundary = b}
    IN /\ Cardinality(critical) >= Floors.critical
       /\ Cardinality(high) >= Floors.high
       /\ Cardinality(DOMAIN cases \ block) >= Floors.allow
       /\ \A b \in DOMAIN Floors.boundary :
              /\ Cardinality(in(block, b)) >= Floors.boundary[b].block
              /\ Cardinality(in(high, b)) >= Floors.boundary[b].high

EvolutionValid(base, cases, manifest) ==
    /\ DOMAIN cases # {}
    /\ \A id \in DOMAIN manifest.changes : manifest.changes[id].owner = "trusted"
    /\ DOMAIN manifest.changes = Changed(base, cases)
    /\ \A id \in Added(base, cases) : AddRecorded(manifest.changes[id], cases[id])
    /\ \A id \in Modified(base, cases) :
           ModifyRecorded(manifest.changes[id], base[id], cases[id])
    /\ DOMAIN manifest.tombstones = Removed(base, cases)
    /\ \A id \in Removed(base, cases) :
           RemoveRecorded(manifest.changes[id], manifest.tombstones[id], base[id],
                          base, cases)
    /\ CoverageFloorsMet(cases)

(* The corpora people propose change one case, or remove one and add one.          *)
WithCase(cases, id, d) ==
    [i \in DOMAIN cases \cup {id} |-> IF i = id THEN d ELSE cases[i]]
WithoutCase(cases, id) == [i \in DOMAIN cases \ {id} |-> cases[i]]
Proposals(base) ==
    LET set == {WithCase(base, id, d) : id \in CaseIds, d \in Definitions}
    IN set \cup {WithoutCase(cases, id) : cases \in set \cup {base}, id \in DOMAIN base}

(* The manifests written for them name the added case as the replacement of the    *)
(* removed one or none; some are not by a trusted owner, some have no records.     *)
Manifests(base, cases, reasons) ==
    LET changes(repl, reason, owner) == [id \in Changed(base, cases) |->
            [type |-> IF id \notin DOMAIN base THEN "ADD"
                      ELSE IF id \notin DOMAIN cases THEN "DEPRECATE" ELSE "MODIFY",
             old |-> IF id \in DOMAIN base THEN {base[id]} ELSE {},
             new |-> IF id \in DOMAIN cases THEN {cases[id]} ELSE {},
             replacements |-> IF id \in DOMAIN cases THEN {} ELSE repl,
             owner |-> owner, reason |-> reason]]
        stones(repl) == [id \in Removed(base, cases) |->
                            [definition |-> base[id], replacements |-> repl]]
        some == {{}, Added(base, cases)}
    IN {[changes |-> changes(repl, reason, owner), tombstones |-> stones(repl)] :
           repl \in some, reason \in reasons, owner \in {"trusted", "other"}}
       \cup {[changes |-> [id \in {} |-> id], tombstones |-> stones(repl)] : repl \in some}

(* A change is made on review or to implement a feedback on an incident.            *)
Reasons == {<<"review">>} \cup ({"f1", "f2"} \X Incidents)

Evolve ==
    /\ corpus.version < MaxVersion
    /\ \E cases \in Proposals(corpus.cases) :
       \E manifest \in Manifests(corpus.cases, cases, Reasons) :
           /\ EvolutionValid(corpus.cases, cases, manifest)
           /\ evolution' = {[baseline |-> corpus, manifest |-> manifest,
                             candidate |-> [version |-> corpus.version + 1,
                                            cases |-> cases]]}
    /\ UNCHANGED <<corpus, ledger, seen, evidence, assured, governance, posture,
                   finding, retest, now, fed>>

(* The verified successor is pinned in the policies.                               *)
Adopt ==
    \E v \in evolution :
        /\ v.baseline = corpus
        /\ corpus' = v.candidate
        /\ UNCHANGED <<evolution, ledger, seen, evidence, assured, governance, posture,
                       finding, retest, now, fed>>

-----------------------------------------------------------------------------
(* P6-D: the posture of a release.                                                 *)
MissingCases(control) == control.mapped \ DOMAIN corpus.cases
MissingBoundaries(control) ==
    control.boundaries \ {corpus.cases[id].boundary : id \in DOMAIN corpus.cases}
ControlStatus(control, g) ==
    LET exceptions == control.mapped \cap g.waived
        missing == MissingCases(control) # {} \/ MissingBoundaries(control) # {}
    IN IF exceptions # {} /\ ~control.exception_permitted THEN "EXCEPTIONED"
       ELSE IF missing THEN "NOT_EVALUATED"
       ELSE IF exceptions # {} THEN "EXCEPTIONED" ELSE "SATISFIED"
IsRed(control, status) ==
    \/ status = "EXCEPTIONED" /\ (~control.exception_permitted \/ control.severity = 4)
    \/ status = "NOT_EVALUATED" /\ control.severity >= 3
Rating(g) ==
    IF \E c \in Controls : IsRed(c, ControlStatus(c, g)) THEN "RED"
    ELSE IF \E c \in Controls : ControlStatus(c, g) # "SATISFIED" THEN "AMBER"
    ELSE "GREEN"

(* The governance is the release's on the corpus reported on, and consistent; the  *)
(* evolution is the one that led to it.                                            *)
\* Mutant: the waivers of an earlier corpus are taken.
GovernanceOfAnyCorpus(g, r) ==
    /\ g.release = r
    /\ g.waived \subseteq g.regressions
    /\ g.regressions \subseteq DOMAIN corpus.cases
GovernanceBound(g, r) ==
    /\ g.release = r /\ g.corpus = corpus
    /\ g.waived \subseteq g.regressions
    /\ g.regressions \subseteq DOMAIN corpus.cases
EvolutionAdopted(v) == v.candidate = corpus

(* The rating the caller declares, if any, must be the derived one.                *)
Report(r) ==
    \E g \in governance, v \in evolution, declared \in {"GREEN", "AMBER", "RED", "none"} :
        /\ GovernanceBound(g, r) /\ EvolutionAdopted(v)
        /\ declared \in {"none", Rating(g)}
        /\ posture' = {[release |-> r, corpus |-> corpus, rating |-> Rating(g)]}
        /\ UNCHANGED <<corpus, evolution, ledger, seen, evidence, assured, governance,
                       finding, retest, now, fed>>

-----------------------------------------------------------------------------
(* P6-E: the life of a finding. target is the release that is to fix it, closure   *)
(* the retest that showed it fixed.                                                *)
MaxRetestAge == 1
NextState == [OPEN |-> "FIX_IN_PROGRESS", FIX_IN_PROGRESS |-> "READY_FOR_RETEST",
              READY_FOR_RETEST |-> "CLOSED"]

(* What a record says of its cases is derived from the pinned corpus and registry. *)
FindingValid(f) ==
    /\ f.cases # {} /\ f.cases \subseteq DOMAIN corpus.cases
    /\ \A id \in f.cases : Blocks(corpus.cases[id])
    /\ f.boundaries = {corpus.cases[id].boundary : id \in f.cases}
    /\ f.owners = {OwnerOf(corpus.cases[id]) : id \in f.cases}
    /\ \A id \in f.cases : corpus.cases[id].severity <= f.severity
    /\ \E id \in f.cases : corpus.cases[id].severity = f.severity
    /\ f.state = "OPEN" => f.target = "none" /\ f.closure = {}
    /\ f.state # "OPEN" => f.target # "none"
    /\ (f.state = "CLOSED") = (f.closure # {})

TransitionValid(f, g) ==
    /\ f.state \in DOMAIN NextState /\ g.state = NextState[f.state]
    /\ g.severity = f.severity /\ g.cases = f.cases
    /\ g.boundaries = f.boundaries /\ g.owners = f.owners
    /\ g.version = f.version + 1
    /\ f.updated < g.updated /\ g.updated <= now
    /\ f.state # "OPEN" => g.target = f.target

\* Mutant: a retest of any release is taken.
RetestOfAnyRelease(t, f, g) ==
    /\ t.runner = "trusted" /\ t.ready = f /\ t.corpus = corpus
    /\ t.executed <= now /\ f.updated <= t.executed
    /\ now - t.executed <= MaxRetestAge
    /\ ExactlyCovers(t.results, corpus.cases)
    /\ \A id \in f.cases : t.results[id].observed = corpus.cases[id].expectation
    /\ g.closure = {t}
RetestValid(t, f, g) ==
    /\ t.runner = "trusted" /\ t.ready = f
    /\ t.release = g.target /\ t.corpus = corpus
    /\ t.executed <= now /\ f.updated <= t.executed
    /\ now - t.executed <= MaxRetestAge
    /\ ExactlyCovers(t.results, corpus.cases)
    /\ \A id \in f.cases : t.results[id].observed = corpus.cases[id].expectation
    /\ g.closure = {t}

NewFinding(ids, severity) ==
    [state |-> "OPEN", version |-> 1, severity |-> severity, cases |-> ids,
     boundaries |-> {corpus.cases[id].boundary : id \in ids},
     owners |-> {OwnerOf(corpus.cases[id]) : id \in ids},
     updated |-> now, target |-> "none", closure |-> {}]

Open ==
    /\ finding = {}
    /\ \E ids \in SUBSET DOMAIN corpus.cases, s \in 1..4 :
           FindingValid(NewFinding(ids, s)) /\ finding' = {NewFinding(ids, s)}
    /\ UNCHANGED <<corpus, evolution, ledger, seen, evidence, assured, governance,
                   posture, retest, now, fed>>

(* Retest evidence, of any release at any stage of the fix.                        *)
Retest(r) ==
    \E f \in finding, report \in Reports(r, corpus.cases) :
        /\ f.state \in {"FIX_IN_PROGRESS", "READY_FOR_RETEST"}
        /\ retest' = {[ready |-> f, release |-> r, corpus |-> corpus,
                       executed |-> now, runner |-> report.runner,
                       results |-> report.results]}
        /\ UNCHANGED <<corpus, evolution, ledger, seen, evidence, assured, governance,
                       posture, finding, now, fed>>

(* The next record somebody proposes of a finding.                                 *)
Proposed(f, updated, target, closure) ==
    [f EXCEPT !.state = NextState[@], !.version = @ + 1, !.updated = updated,
              !.target = target, !.closure = closure]

Advance ==
    \E f \in finding, u \in 0..now, r \in Releases, closure \in {{}, retest} :
        LET g == Proposed(f, u, r, closure) IN
        /\ f.state \in DOMAIN NextState
        /\ FindingValid(f) /\ FindingValid(g)
        /\ TransitionValid(f, g)
        /\ g.state = "CLOSED" => \E t \in retest : RetestValid(t, f, g)
        /\ finding' = {g}
        /\ UNCHANGED <<corpus, evolution, ledger, seen, evidence, assured, governance,
                       posture, retest, now, fed>>

-----------------------------------------------------------------------------
(* P6-F: an incident's feedback. Decision[i] is the verified incident decision; an *)
(* incident's trace digest is its identifier, and a case is marked with traces.    *)
MinimumSeverity == [QUARANTINE |-> 3, REVOKE_DEPLOYMENT |-> 4]
MaterialSignals(i) == Decision[i].signals \ {"normal_query"}
IncidentValid(i) ==
    /\ Decision[i].verified /\ Decision[i].action \in DOMAIN MinimumSeverity
    /\ MaterialSignals(i) # {}

Covers(case, o) ==
    o.incident \in case.traces /\ Blocks(case) /\ case.severity >= o.severity
Covered(cases, o) == \E id \in DOMAIN cases : Covers(cases[id], o)

Obligation(i, version) ==
    [incident |-> i, severity |-> MinimumSeverity[Decision[i].action],
     signals |-> MaterialSignals(i), version |-> version]

(* A ledger is a set of obligations, one per incident; its successor keeps them    *)
(* all and adds this incident's.                                                   *)
LedgerValid(l) == \A o, p \in l.obligations : o.incident = p.incident => o = p
\* Mutant: the incident is not looked for among the old obligations.
LedgerAppended(old, new, i, version) ==
    /\ new.version = old.version + 1
    /\ old.obligations \subseteq new.obligations
    /\ new.obligations \ old.obligations = {Obligation(i, version)}
LedgerExtended(old, new, i, version) ==
    /\ LedgerValid(old) /\ LedgerValid(new)
    /\ new.version = old.version + 1
    /\ old.obligations \subseteq new.obligations
    /\ Cardinality(new.obligations \ old.obligations) = 1
    /\ new.obligations \ old.obligations = {Obligation(i, version)}

(* The cases an incident is linked to are new or changed for that very feedback.   *)
LinkValid(id, signals, cases, changes, i, f) ==
    /\ Blocks(cases[id]) /\ cases[id].severity >= MinimumSeverity[Decision[i].action]
    /\ cases[id].boundary = "serving" /\ cases[id].attack_class = "incident"
    /\ i \in cases[id].traces
    /\ id \in DOMAIN changes /\ changes[id].type \in {"ADD", "MODIFY"}
    /\ changes[id].owner = "trusted" /\ changes[id].new = {cases[id]}
    /\ changes[id].reason = <<f, i>>
    /\ signals # {} /\ signals \subseteq MaterialSignals(i)

(* Together they stand for all the incident's material signals.                    *)
SignalsLinked(links, i) == UNION {links[id] : id \in DOMAIN links} = MaterialSignals(i)

(* The evolution that implements the feedback starts from the pinned corpus.       *)
EvolutionPending(v) == v.baseline = corpus

Ledgers(i, version) ==
    {[version |-> v, obligations |-> obs \cup {Obligation(i, version)}] :
        v \in {ledger.version, ledger.version + 1}, obs \in SUBSET ledger.obligations}

Feedback(i) ==
    \E f \in {"f1", "f2"}, v \in evolution :
    \E l \in Ledgers(i, v.candidate.version), ids \in SUBSET DOMAIN v.candidate.cases :
        LET cases == v.candidate.cases IN
        /\ IncidentValid(i)
        /\ EvolutionPending(v)
        /\ LedgerExtended(ledger, l, i, v.candidate.version)
        /\ f \notin seen
        /\ \E links \in [ids -> SUBSET Decision[i].signals] :
               /\ \A id \in ids :
                      LinkValid(id, links[id], cases, v.manifest.changes, i, f)
               /\ SignalsLinked(links, i)
        /\ \A o \in l.obligations : Covered(cases, o)
        /\ ledger' = l /\ corpus' = v.candidate
        /\ seen' = seen \cup {f}
        /\ fed' = [fed EXCEPT ![i] = @ + 1]
        /\ UNCHANGED <<evolution, evidence, assured, governance, posture, finding,
                       retest, now>>

(* The feedback gate's process is started anew: what it has seen was in memory.    *)
Restart ==
    /\ seen # {} /\ seen' = {}
    /\ UNCHANGED <<corpus, evolution, ledger, evidence, assured, governance, posture,
                   finding, retest, now, fed>>

Tick ==
    /\ now < MaxTime /\ now' = now + 1
    /\ UNCHANGED <<corpus, evolution, ledger, seen, evidence, assured, governance,
                   posture, finding, retest, fed>>

-----------------------------------------------------------------------------
Init ==
    /\ corpus = [version |-> 1, cases |-> InitialCases]
    /\ ledger = [version |-> 1, obligations |-> {}]
    /\ evidence = [r \in Releases |-> {}]
    /\ evolution = {} /\ assured = {} /\ governance = {} /\ posture = {}
    /\ finding = {} /\ retest = {} /\ seen = {}
    /\ now = 0 /\ fed = [i \in Incidents |-> 0]

ReleaseStep == \E r \in Releases : Observe(r) \/ Assure(r) \/ Govern(r) \/ Report(r)
FindingStep == Open \/ Advance \/ \E r \in Releases : Retest(r)
CorpusStep == Evolve \/ Adopt \/ Restart \/ \E i \in Incidents : Feedback(i)

Next == ReleaseStep \/ FindingStep \/ CorpusStep \/ Tick

Spec == Init /\ [][Next]_vars

-----------------------------------------------------------------------------
Corpora == [version : Nat, cases : CaseMaps]
AtMostOne(S) == \A x, y \in S : x = y

(* The documents the policies pin are well formed, every gate has at most one      *)
(* verdict outstanding, and a verdict names a release and a corpus of that form.   *)
TypeOK ==
    /\ corpus \in Corpora
    /\ ledger.version \in Nat /\ LedgerValid(ledger)
    /\ \A v \in evolution : v.baseline \in Corpora /\ v.candidate \in Corpora
    /\ DOMAIN evidence = Releases
    /\ \A r \in Releases : \A e \in evidence[r] : e.corpus \in Corpora /\ e.release = r
    /\ \A v \in assured \cup governance \cup posture :
           v.release \in Releases /\ v.corpus \in Corpora
    /\ \A S \in {evolution, assured, governance, posture, finding, retest} : AtMostOne(S)
    /\ now \in Nat /\ fed \in [Incidents -> Nat]

(* An accepted change of the corpus never lowers what a boundary is tested for: a  *)
(* high or critical attack case is kept, strengthened, or replaced in its boundary *)
(* by one as severe, whether the change comes alone or with an incident's feedback.*)
Kept(base, cases) ==
    \A id \in DOMAIN base : HighOrCritical(base[id]) =>
        \E jd \in DOMAIN cases :
            /\ Blocks(cases[jd]) /\ cases[jd].boundary = base[id].boundary
            /\ cases[jd].severity >= base[id].severity
CoverageKept == [][Kept(corpus.cases, corpus'.cases)]_vars

(* An incident's feedback is accepted at most once, under whatever feedback id and *)
(* even by a gate that was restarted and has forgotten the ids it saw; and the     *)
(* ledger has an obligation for exactly the incidents fed back.                    *)
FedBackOnce ==
    \A i \in Incidents :
        /\ fed[i] \in {0, 1}
        /\ fed[i] = 1 <=> \E o \in ledger.obligations : o.incident = i

(* A finding is closed only when the release that was to fix it really passes the  *)
(* cases it affects, as they were defined when it was closed: evidence of another  *)
(* release, of an earlier corpus or record, from an unknown runner or without the  *)
(* failing cases never closes it.                                                  *)
ClosedFixed ==
    \A f \in finding : f.state = "CLOSED" =>
        \E t \in f.closure :
            /\ t.release = f.target /\ f.cases \subseteq DOMAIN t.corpus.cases
            /\ \A id \in f.cases : Passes(f.target, t.corpus.cases[id])

(* A posture is green only if the release really passes every case the controls    *)
(* are mapped to, in the corpus reported on.                                       *)
PostureHonest ==
    \A p \in posture : p.rating = "GREEN" =>
        \A c \in Controls : \A id \in c.mapped :
            id \in DOMAIN p.corpus.cases /\ Passes(p.release, p.corpus.cases[id])

(* A release the regression gate accepted passes the whole corpus it was run on.   *)
AssuredPasses ==
    \A v \in assured : \A id \in DOMAIN v.corpus.cases : Passes(v.release, v.corpus.cases[id])

(* "a known incident cannot be silently forgotten merely by changing which cases   *)
(* are present": every obligation of the ledger is covered by the pinned corpus.   *)
IncidentsRemembered == \A o \in ledger.obligations : Covered(corpus.cases, o)
=============================================================================
