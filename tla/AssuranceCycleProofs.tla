------------------------- MODULE AssuranceCycleProofs -------------------------
(* For every set of cases, releases, incidents and controls, and whatever the      *)
(* releases get wrong: changes of the corpus keep its coverage, an incident is fed *)
(* back once, a closed finding is fixed, an assured release passes and a green     *)
(* posture is earned. The inductive invariant says of every document that is still *)
(* to be used what it was checked against when it was made.                        *)
EXTENDS AssuranceCycle, TLAPS

(* A report of a trusted runner is true of the corpus it names.                    *)
ReportTrue(e) ==
    e.runner = "trusted" =>
        \A id \in DOMAIN e.results :
            /\ id \in DOMAIN e.corpus.cases
            /\ e.results[id].observed = e.corpus.cases[id].expectation =>
                   Passes(e.release, e.corpus.cases[id])

EvolutionsKeep == \A v \in evolution : Kept(v.baseline.cases, v.candidate.cases)
EvidenceTrue == \A r \in Releases : \A e \in evidence[r] : ReportTrue(e)
RetestsTrue == \A t \in retest : ReportTrue(t)
GovernanceTrue ==
    \A g \in governance : \A id \in DOMAIN g.corpus.cases :
        id \in g.waived \/ Passes(g.release, g.corpus.cases[id])

Verdicts == ClosedFixed /\ PostureHonest /\ AssuredPasses
Sources == EvolutionsKeep /\ EvidenceTrue /\ RetestsTrue /\ GovernanceTrue
Inv == TypeOK /\ Sources /\ FedBackOnce /\ Verdicts

-----------------------------------------------------------------------------
(* What a corpus change that P6-C accepts keeps.                                   *)
LEMMA EvolutionKeeps ==
    ASSUME NEW base \in CaseMaps, NEW cases \in CaseMaps, NEW manifest,
           EvolutionValid(base, cases, manifest)
    PROVE  Kept(base, cases)
<1> SUFFICES ASSUME NEW id \in DOMAIN base, HighOrCritical(base[id])
             PROVE  \E jd \in DOMAIN cases :
                        /\ Blocks(cases[jd]) /\ cases[jd].boundary = base[id].boundary
                        /\ cases[jd].severity >= base[id].severity
    BY DEF Kept
<1>1. base[id].severity \in Nat
    BY AssuranceConstants DEF CaseMaps
<1>2. CASE id \in Removed(base, cases)
    <2>1. Replaced(manifest.changes[id], base[id], base, cases)
        BY <1>2 DEF EvolutionValid, RemoveRecorded
    <2>2. PICK jd \in manifest.changes[id].replacements : TRUE
        BY <2>1 DEF Replaced
    <2>3. jd \in DOMAIN cases /\ Blocks(cases[jd])
          /\ cases[jd].boundary = base[id].boundary
          /\ cases[jd].severity >= base[id].severity
        BY <2>1, <2>2 DEF Replaced, Added
    <2> QED BY <2>3
<1>3. CASE id \in Modified(base, cases)
    <2>1. ModifyRecorded(manifest.changes[id], base[id], cases[id])
        BY <1>3 DEF EvolutionValid
    <2>2. id \in DOMAIN cases
        BY <1>3 DEF Modified
    <2> QED BY <2>1, <2>2 DEF ModifyRecorded, HighOrCritical
<1>4. CASE id \in DOMAIN cases /\ cases[id] = base[id]
    BY <1>1, <1>4 DEF HighOrCritical
<1> QED BY <1>2, <1>3, <1>4 DEF Removed, Modified

\* What may be proposed as the next set of cases is a set of cases.
LEMMA ProposalsTyped ==
    ASSUME NEW base \in CaseMaps, NEW cases \in Proposals(base)
    PROVE  cases \in CaseMaps
<1>1. ASSUME NEW c \in CaseMaps, NEW id \in CaseIds, NEW d \in Definitions
      PROVE  WithCase(c, id, d) \in CaseMaps
    <2>1. PICK ids \in SUBSET CaseIds : c \in [ids -> Definitions]
        BY DEF CaseMaps
    <2>2. WithCase(c, id, d) \in [ids \cup {id} -> Definitions]
        BY <2>1 DEF WithCase
    <2> QED BY <2>2 DEF CaseMaps
<1>2. ASSUME NEW c \in CaseMaps, NEW id PROVE WithoutCase(c, id) \in CaseMaps
    <2>1. PICK ids \in SUBSET CaseIds : c \in [ids -> Definitions]
        BY DEF CaseMaps
    <2>2. WithoutCase(c, id) \in [ids \ {id} -> Definitions]
        BY <2>1 DEF WithoutCase
    <2> QED BY <2>2 DEF CaseMaps
<1>3. {WithCase(base, id, d) : id \in CaseIds, d \in Definitions} \subseteq CaseMaps
    BY <1>1
<1> QED BY <1>2, <1>3 DEF Proposals

(* A runner's reports of a release on the pinned corpus are true.                  *)
LEMMA ReportsTrue ==
    ASSUME NEW r, NEW report \in Reports(r, corpus.cases), NEW e,
           e.runner = report.runner, e.results = report.results,
           e.release = r, e.corpus = corpus
    PROVE  ReportTrue(e)
<1>1. ASSUME NEW c, Outcome(r, c) = c.expectation PROVE Passes(r, c)
    BY <1>1 DEF Outcome, Blocks, Passes
<1>2. report.runner = "trusted" =>
          DOMAIN report.results \subseteq DOMAIN corpus.cases
          /\ \A id \in DOMAIN report.results :
                 report.results[id].observed = Outcome(r, corpus.cases[id])
    <2> DEFINE cases == corpus.cases
               passing == {id \in DOMAIN cases : Passes(r, cases[id])}
               partial == [id \in passing |-> Results(r, cases)[id]]
    <2>1. /\ DOMAIN Results(r, cases) = DOMAIN cases
          /\ \A id \in DOMAIN cases : Results(r, cases)[id].observed = Outcome(r, cases[id])
        BY DEF Results
    <2>2. \/ report.results = Results(r, cases)
          \/ report.results = partial
          \/ report.runner = "other"
        BY DEF Reports
    <2>3. DOMAIN partial = passing /\ passing \subseteq DOMAIN cases
          /\ \A id \in passing : partial[id] = Results(r, cases)[id]
        OBVIOUS
    <2> HIDE DEF passing, partial
    <2> QED BY <2>1, <2>2, <2>3
<1> QED BY <1>1, <1>2 DEF ReportTrue

-----------------------------------------------------------------------------
(* The invariant holds initially, and every action preserves it.                   *)
LEMMA InitInv == Init => Inv
<1> SUFFICES ASSUME Init PROVE Inv
    OBVIOUS
<1>1. TypeOK
    BY AssuranceConstants DEF Init, TypeOK, Corpora, LedgerValid, AtMostOne
<1>2. Sources
    BY DEF Init, Sources, EvolutionsKeep, EvidenceTrue, RetestsTrue, GovernanceTrue
<1>3. FedBackOnce
    BY DEF Init, FedBackOnce
<1>4. Verdicts
    BY DEF Init, Verdicts, ClosedFixed, PostureHonest, AssuredPasses
<1> QED BY <1>1, <1>2, <1>3, <1>4 DEF Inv

\* A test runner adds only reports that are true if it is the trusted one.
LEMMA ObserveInv ==
    ASSUME Inv, NEW r \in Releases, Observe(r) PROVE Inv'
<1>1. PICK report \in Reports(r, corpus.cases) :
          evidence' = [evidence EXCEPT ![r] =
              {[release |-> r, corpus |-> corpus, runner |-> report.runner,
                results |-> report.results]}]
    BY DEF Observe
<1> DEFINE e == [release |-> r, corpus |-> corpus, runner |-> report.runner,
                 results |-> report.results]
<1>2. /\ DOMAIN evidence' = Releases /\ evidence'[r] = {e}
      /\ \A q \in Releases \ {r} : evidence'[q] = evidence[q]
    BY <1>1 DEF Inv, TypeOK
<1>3. ReportTrue(e)
    BY ReportsTrue
<1>4. UNCHANGED <<corpus, evolution, ledger, assured, governance, posture, finding,
                  retest, now, fed>>
    BY DEF Observe
<1>5. TypeOK'
    BY <1>2, <1>4 DEF Inv, TypeOK, LedgerValid, AtMostOne, Corpora
<1>6. Sources'
    BY <1>2, <1>3, <1>4 DEF Inv, Sources, EvolutionsKeep, EvidenceTrue, RetestsTrue,
       GovernanceTrue, ReportTrue, Kept
<1>7. FedBackOnce' /\ Verdicts'
    BY <1>4 DEF Inv, FedBackOnce, Verdicts, ClosedFixed, PostureHonest, AssuredPasses
<1> QED BY <1>5, <1>6, <1>7 DEF Inv

(* Valid evidence is true of the pinned corpus.                                    *)
LEMMA ValidEvidence ==
    ASSUME Inv, NEW r \in Releases, NEW e \in evidence[r], EvidenceValid(e)
    PROVE  /\ e.release = r
           /\ \A id \in DOMAIN corpus.cases \ MismatchingCases(e) :
                  Passes(r, corpus.cases[id])
BY DEF Inv, TypeOK, Sources, EvidenceTrue, ReportTrue, EvidenceValid, ExactlyCovers,
       MismatchingCases

\* The release gate draws its verdict from a report that it may trust.
LEMMA AssureInv ==
    ASSUME Inv, NEW r \in Releases, Assure(r) PROVE Inv'
<1>1. PICK e \in evidence[r] : EvidenceValid(e) /\ Regressions(e) = {}
                               /\ SafeTaskRegressions(e) = {}
    BY DEF Assure
<1>2. MismatchingCases(e) = {}
    BY <1>1 DEF SafeTaskRegressions
<1>3. \A id \in DOMAIN corpus.cases : Passes(r, corpus.cases[id])
    BY <1>1, <1>2, ValidEvidence
<1>4. /\ assured' = {[release |-> r, corpus |-> corpus]}
      /\ UNCHANGED <<corpus, evolution, ledger, evidence, governance, posture, finding,
                     retest, now, fed>>
    BY DEF Assure
<1>5. TypeOK'
    BY <1>4 DEF Inv, TypeOK, LedgerValid, AtMostOne, Corpora
<1>6. Sources'
    BY <1>4 DEF Inv, Sources, EvolutionsKeep, EvidenceTrue, RetestsTrue,
       GovernanceTrue, ReportTrue, Kept
<1>7. FedBackOnce' /\ Verdicts'
    BY <1>3, <1>4 DEF Inv, FedBackOnce, Verdicts, ClosedFixed, PostureHonest,
       AssuredPasses
<1> QED BY <1>5, <1>6, <1>7 DEF Inv

\* The waiver gate settles the failures of the report it was given.
LEMMA GovernInv ==
    ASSUME Inv, NEW r \in Releases, Govern(r) PROVE Inv'
<1>1. PICK e \in evidence[r], waived \in SUBSET DOMAIN corpus.cases :
          /\ EvidenceValid(e) /\ SafeTaskRegressions(e) = {}
          /\ Regressions(e) \subseteq waived
          /\ governance' = {[release |-> r, corpus |-> corpus,
                             regressions |-> Regressions(e), waived |-> waived]}
    BY DEF Govern
<1>2. MismatchingCases(e) \subseteq waived
    BY <1>1 DEF SafeTaskRegressions
<1>3. \A id \in DOMAIN corpus.cases : id \in waived \/ Passes(r, corpus.cases[id])
    BY <1>1, <1>2, ValidEvidence
<1>4. UNCHANGED <<corpus, evolution, ledger, evidence, assured, posture, finding,
                  retest, now, fed>>
    BY DEF Govern
<1>5. TypeOK'
    BY <1>1, <1>4 DEF Inv, TypeOK, LedgerValid, AtMostOne, Corpora
<1>6. Sources'
    BY <1>1, <1>3, <1>4 DEF Inv, Sources, EvolutionsKeep, EvidenceTrue, RetestsTrue,
       GovernanceTrue, ReportTrue, Kept
<1>7. FedBackOnce' /\ Verdicts'
    BY <1>4 DEF Inv, FedBackOnce, Verdicts, ClosedFixed, PostureHonest, AssuredPasses
<1> QED BY <1>5, <1>6, <1>7 DEF Inv

\* The posture gate repeats what the verdicts it was given say.
LEMMA ReportInv ==
    ASSUME Inv, NEW r \in Releases, Report(r) PROVE Inv'
<1>1. PICK g \in governance :
          /\ g.release = r /\ g.corpus = corpus
          /\ posture' = {[release |-> r, corpus |-> corpus, rating |-> Rating(g)]}
    BY DEF Report, GovernanceBound
<1>2. ASSUME Rating(g) = "GREEN", NEW c \in Controls, NEW id \in c.mapped
      PROVE  id \in DOMAIN corpus.cases /\ Passes(r, corpus.cases[id])
    <2>1. ControlStatus(c, g) = "SATISFIED"
        BY <1>2 DEF Rating
    <2>2. id \in DOMAIN corpus.cases /\ id \notin g.waived
        BY <2>1 DEF ControlStatus, MissingCases
    <2> QED BY <1>1, <2>2 DEF Inv, Sources, GovernanceTrue
<1>3. UNCHANGED <<corpus, evolution, ledger, evidence, assured, governance, finding,
                  retest, now, fed>>
    BY DEF Report
<1>4. TypeOK'
    BY <1>1, <1>3 DEF Inv, TypeOK, LedgerValid, AtMostOne, Corpora
<1>5. Sources'
    BY <1>3 DEF Inv, Sources, EvolutionsKeep, EvidenceTrue, RetestsTrue,
       GovernanceTrue, ReportTrue, Kept
<1>6. PostureHonest'
    BY <1>1, <1>2 DEF PostureHonest
<1>7. FedBackOnce' /\ Verdicts'
    BY <1>3, <1>6 DEF Inv, FedBackOnce, Verdicts, ClosedFixed, AssuredPasses
<1> QED BY <1>4, <1>5, <1>7 DEF Inv

\* The corpus gate accepts only a successor that keeps the coverage.
LEMMA EvolveInv ==
    ASSUME Inv, Evolve PROVE Inv'
<1>1. PICK cases, manifest :
          /\ cases \in Proposals(corpus.cases)
          /\ EvolutionValid(corpus.cases, cases, manifest)
          /\ evolution' = {[baseline |-> corpus, manifest |-> manifest,
                            candidate |-> [version |-> corpus.version + 1,
                                           cases |-> cases]]}
    BY DEF Evolve
<1>2. corpus.cases \in CaseMaps /\ corpus.version \in Nat /\ cases \in CaseMaps
    BY <1>1, ProposalsTyped DEF Inv, TypeOK, Corpora
<1>3. Kept(corpus.cases, cases)
    BY <1>1, <1>2, EvolutionKeeps
<1>4. UNCHANGED <<corpus, ledger, evidence, assured, governance, posture, finding,
                  retest, now, fed>>
    BY DEF Evolve
<1>5. TypeOK'
    BY <1>1, <1>2, <1>4 DEF Inv, TypeOK, LedgerValid, AtMostOne, Corpora
<1>6. EvolutionsKeep'
    BY <1>1, <1>3, <1>4 DEF EvolutionsKeep
<1>7. Sources'
    BY <1>4, <1>6 DEF Inv, Sources, EvidenceTrue, RetestsTrue, GovernanceTrue, ReportTrue
<1>8. FedBackOnce' /\ Verdicts'
    BY <1>4 DEF Inv, FedBackOnce, Verdicts, ClosedFixed, PostureHonest, AssuredPasses
<1> QED BY <1>5, <1>7, <1>8 DEF Inv

\* An accepted successor is pinned: verdicts of other corpora lose nothing by it.
LEMMA AdoptInv ==
    ASSUME Inv, Adopt PROVE Inv' /\ Kept(corpus.cases, corpus'.cases)
<1>1. PICK v \in evolution : v.baseline = corpus /\ corpus' = v.candidate
    BY DEF Adopt
<1>2. UNCHANGED <<evolution, ledger, evidence, assured, governance, posture, finding,
                  retest, now, fed>>
    BY DEF Adopt
<1>3. Kept(corpus.cases, corpus'.cases)
    BY <1>1 DEF Inv, Sources, EvolutionsKeep
<1>4. TypeOK'
    BY <1>1, <1>2 DEF Inv, TypeOK, LedgerValid, AtMostOne
<1>5. Sources'
    BY <1>2 DEF Inv, Sources, EvolutionsKeep, EvidenceTrue, RetestsTrue,
       GovernanceTrue, ReportTrue, Kept
<1>6. FedBackOnce' /\ Verdicts'
    BY <1>2 DEF Inv, FedBackOnce, Verdicts, ClosedFixed, PostureHonest, AssuredPasses
<1> QED BY <1>3, <1>4, <1>5, <1>6 DEF Inv

\* A new finding has no retest yet.
LEMMA OpenInv ==
    ASSUME Inv, Open PROVE Inv'
<1>1. PICK f : finding' = {f} /\ f.state = "OPEN"
    <2>1. PICK ids, s : finding' = {NewFinding(ids, s)}
        BY DEF Open
    <2>2. NewFinding(ids, s).state = "OPEN"
        BY DEF NewFinding
    <2> QED BY <2>1, <2>2
<1>2. UNCHANGED <<corpus, evolution, ledger, evidence, assured, governance, posture,
                  retest, now, fed>>
    BY DEF Open
<1>3. TypeOK'
    BY <1>1, <1>2 DEF Inv, TypeOK, LedgerValid, AtMostOne
<1>4. Sources'
    BY <1>2 DEF Inv, Sources, EvolutionsKeep, EvidenceTrue, RetestsTrue,
       GovernanceTrue, ReportTrue, Kept
<1>5. FedBackOnce' /\ Verdicts'
    BY <1>1, <1>2 DEF Inv, FedBackOnce, Verdicts, ClosedFixed, PostureHonest,
       AssuredPasses
<1> QED BY <1>3, <1>4, <1>5 DEF Inv

\* A retest is true of its release if the trusted runner reports it.
LEMMA RetestInv ==
    ASSUME Inv, NEW r \in Releases, Retest(r) PROVE Inv'
<1>1. PICK f \in finding, report \in Reports(r, corpus.cases) :
          retest' = {[ready |-> f, release |-> r, corpus |-> corpus, executed |-> now,
                      runner |-> report.runner, results |-> report.results]}
    BY DEF Retest
<1>2. UNCHANGED <<corpus, evolution, ledger, evidence, assured, governance, posture,
                  finding, now, fed>>
    BY DEF Retest
<1> DEFINE t == [ready |-> f, release |-> r, corpus |-> corpus, executed |-> now,
                 runner |-> report.runner, results |-> report.results]
<1>3. ReportTrue(t)
    BY ReportsTrue
<1>4. RetestsTrue'
    BY <1>1, <1>3 DEF RetestsTrue, ReportTrue
<1>5. TypeOK'
    BY <1>1, <1>2 DEF Inv, TypeOK, LedgerValid, AtMostOne
<1>6. Sources'
    BY <1>2, <1>4 DEF Inv, Sources, EvolutionsKeep, EvidenceTrue, GovernanceTrue,
       ReportTrue, Kept
<1>7. FedBackOnce' /\ Verdicts'
    BY <1>2 DEF Inv, FedBackOnce, Verdicts, ClosedFixed, PostureHonest, AssuredPasses
<1> QED BY <1>5, <1>6, <1>7 DEF Inv

\* A finding moves by the transitions of its lifecycle, and to closed on a true retest.
LEMMA AdvanceInv ==
    ASSUME Inv, Advance PROVE Inv'
<1>1. PICK f, g :
          /\ f \in finding
          /\ FindingValid(g) /\ TransitionValid(f, g)
          /\ g.state = "CLOSED" => \E t \in retest : RetestValid(t, f, g)
          /\ finding' = {g}
    BY DEF Advance
<1>2. UNCHANGED <<corpus, evolution, ledger, evidence, assured, governance, posture,
                  retest, now, fed>>
    BY DEF Advance
<1>3. ASSUME g.state = "CLOSED"
      PROVE  \E t \in g.closure :
                 /\ t.release = g.target /\ g.cases \subseteq DOMAIN t.corpus.cases
                 /\ \A id \in g.cases : Passes(g.target, t.corpus.cases[id])
    <2>1. PICK t \in retest : RetestValid(t, f, g)
        BY <1>1, <1>3
    <2>2. /\ t \in g.closure /\ t.release = g.target /\ t.corpus = corpus
          /\ t.runner = "trusted" /\ DOMAIN t.results = DOMAIN corpus.cases
        BY <2>1 DEF RetestValid, ExactlyCovers
    <2>3. g.cases = f.cases /\ g.cases \subseteq DOMAIN corpus.cases
        BY <1>1 DEF FindingValid, TransitionValid
    <2>4. ReportTrue(t)
        BY DEF Inv, Sources, RetestsTrue
    <2>5. \A id \in g.cases : Passes(g.target, corpus.cases[id])
        BY <2>1, <2>2, <2>3, <2>4 DEF RetestValid, ReportTrue
    <2> QED BY <2>2, <2>3, <2>5
<1>4. ClosedFixed'
    BY <1>1, <1>3 DEF ClosedFixed
<1>5. TypeOK'
    BY <1>1, <1>2 DEF Inv, TypeOK, LedgerValid, AtMostOne
<1>6. Sources'
    BY <1>2 DEF Inv, Sources, EvolutionsKeep, EvidenceTrue, RetestsTrue,
       GovernanceTrue, ReportTrue, Kept
<1>7. FedBackOnce' /\ Verdicts'
    BY <1>2, <1>4 DEF Inv, FedBackOnce, Verdicts, PostureHonest, AssuredPasses
<1> QED BY <1>5, <1>6, <1>7 DEF Inv

\* An incident fed back becomes cases of the corpus and an entry of the ledger.
LEMMA FeedbackInv ==
    ASSUME Inv, NEW i \in Incidents, Feedback(i)
    PROVE  Inv' /\ Kept(corpus.cases, corpus'.cases)
<1>1. PICK v, l :
          /\ v \in evolution
          /\ v.baseline = corpus
          /\ LedgerExtended(ledger, l, i, v.candidate.version)
          /\ ledger' = l /\ corpus' = v.candidate
    BY DEF Feedback, EvolutionPending
<1>2. /\ fed' = [fed EXCEPT ![i] = @ + 1]
      /\ UNCHANGED <<evolution, evidence, assured, governance, posture, finding, retest,
                     now>>
    BY DEF Feedback
<1>3. Kept(corpus.cases, corpus'.cases)
    BY <1>1 DEF Inv, Sources, EvolutionsKeep
<1> DEFINE o == Obligation(i, v.candidate.version)
<1>4. /\ LedgerValid(ledger') /\ ledger'.version \in Nat
      /\ o \notin ledger.obligations /\ o.incident = i
      /\ ledger'.obligations = ledger.obligations \cup {o}
    BY <1>1 DEF LedgerExtended, Obligation, Inv, TypeOK
<1>5. ~ \E p \in ledger.obligations : p.incident = i
    BY <1>4 DEF LedgerValid
<1>6. FedBackOnce'
    BY <1>2, <1>4, <1>5 DEF FedBackOnce, Inv, TypeOK
<1>7. fed' \in [Incidents -> Nat]
    BY <1>2 DEF Inv, TypeOK
<1>8. TypeOK'
    BY <1>1, <1>2, <1>4, <1>7 DEF Inv, TypeOK, AtMostOne
<1>9. Sources'
    BY <1>2 DEF Inv, Sources, EvolutionsKeep, EvidenceTrue, RetestsTrue,
       GovernanceTrue, ReportTrue, Kept
<1>10. Verdicts'
    BY <1>2 DEF Inv, Verdicts, ClosedFixed, PostureHonest, AssuredPasses
<1> QED BY <1>3, <1>6, <1>8, <1>9, <1>10 DEF Inv

(* Neither a restart, the clock nor a stuttering step touches the documents.       *)
LEMMA IdleInv ==
    ASSUME Inv, Restart \/ Tick \/ UNCHANGED vars PROVE Inv'
<1>1. UNCHANGED <<corpus, evolution, ledger, evidence, assured, governance, posture,
                  finding, retest, fed>>
    BY DEF Restart, Tick, vars
<1>2. now' \in Nat
    BY DEF Restart, Tick, vars, Inv, TypeOK
<1>3. TypeOK'
    BY <1>1, <1>2 DEF Inv, TypeOK, LedgerValid, AtMostOne
<1>4. Sources'
    BY <1>1 DEF Inv, Sources, EvolutionsKeep, EvidenceTrue, RetestsTrue,
       GovernanceTrue, ReportTrue, Kept
<1>5. FedBackOnce' /\ Verdicts'
    BY <1>1 DEF Inv, FedBackOnce, Verdicts, ClosedFixed, PostureHonest, AssuredPasses
<1> QED BY <1>3, <1>4, <1>5 DEF Inv

\* Every step keeps the invariant.
LEMMA NextInv ==
    ASSUME Inv, [Next]_vars PROVE Inv'
BY ObserveInv, AssureInv, GovernInv, ReportInv, EvolveInv, AdoptInv, OpenInv,
   RetestInv, AdvanceInv, FeedbackInv, IdleInv
   DEF Next, ReleaseStep, FindingStep, CorpusStep

\* The invariant holds in every state.
THEOREM Invariance == Spec => []Inv
BY InitInv, NextInv, PTL DEF Spec

-----------------------------------------------------------------------------
(* The pinned documents stay well formed: no sequence of evaluations leaves a      *)
(* corpus, a ledger or a verdict the next gate could not read.                     *)
THEOREM TypeCorrect == Spec => []TypeOK
BY Invariance, PTL DEF Inv

(* An incident is turned into an obligation at most once (incident_feedback.py),   *)
(* whatever the gate's process remembers.                                          *)
THEOREM IncidentFedBackOnce == Spec => []FedBackOnce
BY Invariance, PTL DEF Inv

(* Closing a finding takes a fixed release (finding_lifecycle.py).                 *)
THEOREM ClosingTakesAFix == Spec => []ClosedFixed
<1>1. Inv => ClosedFixed
    BY DEF Inv, Verdicts
<1> QED BY <1>1, Invariance, PTL

(* A green posture means the mapped cases pass (posture_reporting.py on top of     *)
(* waiver_governance.py).                                                          *)
THEOREM GreenIsEarned == Spec => []PostureHonest
<1>1. Inv => PostureHonest
    BY DEF Inv, Verdicts
<1> QED BY <1>1, Invariance, PTL

(* The regression gate only accepts releases that pass (regression.py).            *)
THEOREM AssuranceIsEarned == Spec => []AssuredPasses
<1>1. Inv => AssuredPasses
    BY DEF Inv, Verdicts
<1> QED BY <1>1, Invariance, PTL

(* No accepted evolution lowers a boundary's coverage (corpus_evolution.py).       *)
THEOREM CoverageIsKept == Spec => CoverageKept
<1>1. ASSUME Inv, Next PROVE corpus' = corpus \/ Kept(corpus.cases, corpus'.cases)
    <2>1. CASE ReleaseStep
        BY <2>1 DEF ReleaseStep, Observe, Assure, Govern, Report
    <2>2. CASE FindingStep
        BY <2>2 DEF FindingStep, Open, Advance, Retest
    <2>3. CASE CorpusStep
        BY <1>1, <2>3, AdoptInv, FeedbackInv DEF CorpusStep, Evolve, Restart
    <2>4. CASE Tick
        BY <2>4 DEF Tick
    <2> QED BY <1>1, <2>1, <2>2, <2>3, <2>4 DEF Next
<1>2. ASSUME Inv PROVE Kept(corpus.cases, corpus.cases)
    <2>1. \A id \in DOMAIN corpus.cases : corpus.cases[id].severity \in Nat
        BY <1>2, AssuranceConstants DEF Inv, TypeOK, Corpora, CaseMaps
    <2> QED BY <2>1 DEF Kept, HighOrCritical
<1>3. ASSUME Inv, [Next]_vars PROVE [Kept(corpus.cases, corpus'.cases)]_vars
    BY <1>1, <1>2, <1>3
<1> QED BY <1>3, Invariance, PTL DEF Spec, CoverageKept
=============================================================================
