------------------------------- MODULE PhaseExit -------------------------------
(* The integrated exit gates aegis/agentic/phase8_exit_security.py (P8-L) and      *)
(* aegis/training/phase9_exit_security.py (P9-I). The evidence of a phase's        *)
(* milestones is a chain: every milestone starts from the assessment and the state *)
(* the previous one ended with. The gate adds the local and remote verification    *)
(* records, what the evidence does not claim and, in phase 9, the exercises. Here  *)
(* the order of a list counts: a manifest keeps it next to the items.              *)
EXTENDS Assessment, SequencesExt

MilestonePins == {"assessment_schema_version", "assessment_mode", "assessment_sha256", "manifest_sha256"}
ExercisePins == {"attack_class", "entry_milestone_id", "propagation_path", "attack_input_sha256",
                 "detection_milestone_id", "recovery_state_sha256"}
Claims == {"production_runtime", "cryptographic_attestation"}
Assumptions == {"synthetic-fixtures", "no-production-runtime"}

Position(order, m) == CHOOSE k \in DOMAIN order : order[k] = m

(* _ordered_path: milestones in the order of the phase, none twice.               *)
OrderedPath(c, path) ==
    /\ path # << >> /\ Range(path) \subseteq Range(c.policy.order)
    /\ \A j, k \in DOMAIN path :
           j < k => Position(c.policy.order, path[j]) < Position(c.policy.order, path[k])

MilestonesPinned(c) ==
    LET p == c.policy IN
    /\ p.identity = "expected" /\ p.max_age >= 0 /\ p.skew >= 0
    /\ DOMAIN p.expected["milestones"] = Range(p.order)
    /\ \A m \in DOMAIN p.expected["milestones"] :
           None \notin {p.expected["milestones"][m][f] :
                            f \in {"assessment_sha256", "manifest_sha256", "output_state_sha256"}}

(* Phase 9 pins the exercises too and wants every milestone verified locally.     *)
ExercisesPinned(c) ==
    LET p == c.policy IN
    /\ p.scenario_order = p.profile
    /\ DOMAIN p.expected["exercises"] = Range(p.profile)
    /\ p.scopes = Range(p.order)
    /\ \A s \in Range(p.profile) :
           LET e == p.expected["exercises"][s] IN
           /\ OrderedPath(c, e.propagation_path) /\ e.propagation_path[1] = e.entry_milestone_id
           /\ e.detection_milestone_id \in Range(e.propagation_path)
           /\ None \notin {e.attack_class, e.attack_input_sha256, e.recovery_state_sha256}

PolicyValid(c) == MilestonesPinned(c) /\ (c.policy.exercised => ExercisesPinned(c))

(* _validate_manifest_shape, in phase 9 with the exercises, and the digest.       *)
EvidenceFormed(c) ==
    /\ \A m \in Ids(c, "milestones") : LET evidence == Item(c, "milestones", m) IN
           /\ evidence.network_operations >= 0
           /\ None \notin {evidence.manifest_sha256, evidence.assessment_sha256,
                           evidence.predecessor_assessment_sha256, evidence.input_state_sha256,
                           evidence.output_state_sha256}
    /\ \A v \in Ids(c, "records") : LET record == Item(c, "records", v) IN
           record.evidence_sha256 # None /\ record.steps_executed >= 0
ExercisesFormed(c) ==
    \A s \in Ids(c, "exercises") : LET e == Item(c, "exercises", s) IN
        /\ {e.entry_milestone_id, e.detection_milestone_id} \subseteq Range(c.policy.order)
        /\ OrderedPath(c, e.propagation_path) /\ e.network_operations >= 0
        /\ None \notin {e.attack_class, e.attack_input_sha256, e.recovery_state_sha256}
ManifestValid(c) ==
    /\ c.manifest.identity = "expected" /\ c.manifest.lineage = c.policy.lineage
    /\ c.manifest.repeated = {} /\ c.policy.sha = Digest(c)
    /\ EvidenceFormed(c) /\ ExercisesFormed(c)

-----------------------------------------------------------------------------
(* derive                                                                          *)

(* The milestone that a milestone follows: the last one before it that is there.  *)
Predecessor(c, k) ==
    LET before == {j \in 1..(k - 1) : Known(c, "milestones", c.policy.order[j])}
    IN IF before = {} THEN [assessment_sha256 |-> "zero", output_state_sha256 |-> "zero"]
       ELSE Item(c, "milestones", c.policy.order[Max(before)])

ListRisks(c, kind, order, coverage, ordering) ==
    (IF Ids(c, kind) = Range(order) THEN {} ELSE {coverage})
    \cup (IF c.manifest.order[kind] = order THEN {} ELSE {ordering})

MilestoneRisks(c, k) ==
    LET m == c.policy.order[k]
        evidence == Item(c, "milestones", m)
        expected == c.policy.expected["milestones"][m]
        before == Predecessor(c, k)
    IN Fired([
        domain_binding_mismatch |-> evidence.control_domain # m,
        lineage_mismatch |->
            \/ evidence.step_index # k \/ evidence.lineage # c.manifest.lineage
            \/ evidence.input_state_sha256 # before.output_state_sha256
            \/ evidence.output_state_sha256 # expected.output_state_sha256,
        evidence_chain_broken |-> evidence.predecessor_assessment_sha256 # before.assessment_sha256,
        evidence_digest_mismatch |-> \E f \in MilestonePins : evidence[f] # expected[f],
        upstream_safety_failed |-> ~evidence.safe,
        caller_declared_safety_trusted |-> evidence.caller_declared_safety_trusted,
        network_side_effect_reported |-> evidence.network_operations # 0])

ExerciseRisks(c, s) ==
    LET e == Item(c, "exercises", s) IN Fired([
        compromise_scenario_binding_mismatch |->
            \/ \E f \in ExercisePins : e[f] # c.policy.expected["exercises"][s][f]
            \/ e.propagation_path[1] # e.entry_milestone_id
            \/ e.detection_milestone_id \notin Range(e.propagation_path),
        compromise_not_detected |-> ~e.detected,
        promotion_fail_open |-> ~e.promotion_blocked,
        network_side_effect_reported |-> e.network_operations # 0])

(* Of several passing local records of a scope the last one listed counts.        *)
Local == {"local_focused_pass", "local_full_pass"}
LocallyVerified(c, scope) ==
    LET listed == c.manifest.order["records"]
        passing == {k \in DOMAIN listed : LET record == Item(c, "records", listed[k]) IN
                        record.scope = scope /\ record.status \in Local}
        last == Item(c, "records", listed[Max(passing)])
    IN passing # {} /\ last.runner_started /\ last.steps_executed > 0

Remote == {"remote_ci_pass", "remote_ci_blocked", "remote_ci_fail"}
RemoteRecords(c) == {v \in Ids(c, "records") : Item(c, "records", v).status \in Remote}
RemoteRisks(c) ==
    IF Cardinality(RemoteRecords(c)) # 1 THEN {"remote_ci_invalid"}
    ELSE LET remote == Item(c, "records", CHOOSE v \in RemoteRecords(c) : TRUE)
             ran == remote.runner_started /\ remote.steps_executed > 0
             idle == ~remote.runner_started /\ remote.steps_executed = 0
         IN Fired([
            remote_ci_invalid |->
                \/ remote.status = "remote_ci_pass" /\ ~(ran /\ remote.reason_code = None)
                \/ remote.status = "remote_ci_blocked" /\ ~(idle /\ remote.reason_code \in c.policy.reasons)
                \/ remote.status = "remote_ci_fail" /\ ~ran,
            remote_ci_execution_failed |-> remote.status = "remote_ci_fail"])

Risks(c) ==
    LET order == c.policy.order IN
    ListRisks(c, "milestones", order, "milestone_coverage_invalid", "milestone_order_invalid")
    \cup ListRisks(c, "exercises", c.policy.scenario_order, "compromise_scenario_coverage_invalid",
                   "compromise_scenario_order_invalid")
    \cup UNION {MilestoneRisks(c, k) : k \in {j \in DOMAIN order : Known(c, "milestones", order[j])}}
    \cup UNION {ExerciseRisks(c, s) : s \in Range(c.policy.scenario_order) \cap Ids(c, "exercises")}
    \cup RemoteRisks(c)
    \cup Fired([
        synthetic_assumption_missing |-> c.manifest.assumptions # Assumptions,
        unsupported_production_claim |-> c.manifest.claims # {},
        local_verification_incomplete |-> \E scope \in c.policy.scopes : ~LocallyVerified(c, scope)])

Decision(c) ==
    CASE Risks(c) # {} -> "fail"
      [] \E v \in RemoteRecords(c) : Item(c, "records", v).status = "remote_ci_pass" -> "pass"
      [] OTHER -> "pass_with_external_ci_limitation"

Facts(c) == [exit |-> Risks(c)]

(* The request names the manifest and policy and is made in time.                 *)
Asked(c) ==
    /\ c.request.identity = "expected" /\ c.request.sha = c.policy.sha
    /\ c.request.at - c.manifest.created <= c.policy.max_age
    /\ c.manifest.created - c.request.at <= c.policy.skew

(* A caller repeats the evidence and says what comes of it.                       *)
Declared(c) ==
    [decision |-> Decision(c),
     assessments |-> [m \in Ids(c, "milestones") |-> Item(c, "milestones", m).assessment_sha256],
     detected |-> [s \in Ids(c, "exercises") |-> Item(c, "exercises", s).detected],
     blocked |-> [s \in Ids(c, "exercises") |-> Item(c, "exercises", s).promotion_blocked],
     verified |-> [v \in Ids(c, "records") |-> Item(c, "records", v).status]]

Evaluate(c) ==
    Outcome(c, Asked(c), PolicyValid(c) /\ ManifestValid(c), Facts, LAMBDA facts : Declared(c))

-----------------------------------------------------------------------------
(* Fixtures of three milestones and two exercises.                                *)

Order == <<"m1", "m2", "m3">>
Profile == <<"poisoning", "substitution">>

MilestoneEvidence(k) ==
    LET before == IF k = 1 THEN "zero" ELSE Order[k - 1] IN
    [control_domain |-> Order[k], step_index |-> k, lineage |-> "lineage", manifest_sha256 |-> Order[k],
     assessment_sha256 |-> Order[k], predecessor_assessment_sha256 |-> before,
     input_state_sha256 |-> before, output_state_sha256 |-> Order[k],
     assessment_schema_version |-> Order[k], assessment_mode |-> "synthetic",
     safe |-> TRUE, caller_declared_safety_trusted |-> FALSE, network_operations |-> 0]
Milestones == [m1 |-> MilestoneEvidence(1), m2 |-> MilestoneEvidence(2), m3 |-> MilestoneEvidence(3)]

CompromiseExerciseEvidence(s, path, detection) ==
    [attack_class |-> s, entry_milestone_id |-> path[1], propagation_path |-> path,
     attack_input_sha256 |-> s, detection_milestone_id |-> detection, detected |-> TRUE,
     promotion_blocked |-> TRUE, recovery_state_sha256 |-> s, network_operations |-> 0]
Exercises ==
    [poisoning |-> CompromiseExerciseEvidence("poisoning", Order, "m2"),
     substitution |-> CompromiseExerciseEvidence("substitution", <<"m2", "m3">>, "m2")]

VerificationRecord(scope, status, started, steps, reason) ==
    [scope |-> scope, status |-> status, evidence_sha256 |-> scope, runner_started |-> started,
     steps_executed |-> steps, reason_code |-> reason]
Records ==
    LET Pass(m) == VerificationRecord(m, "local_focused_pass", TRUE, 1, None) IN
    [l1 |-> Pass("m1"), l2 |-> Pass("m2"), l3 |-> Pass("m3"),
     ci |-> VerificationRecord("phase", "remote_ci_blocked", FALSE, 0, "billing")]

GateContext(exercised) ==
    LET profile == IF exercised THEN Profile ELSE << >>
        items == [milestones |-> Milestones, records |-> Records,
                  exercises |-> IF exercised THEN Exercises ELSE << >>]
        rules == [identity |-> "expected", lineage |-> "lineage", order |-> Order, profile |-> profile,
                  scenario_order |-> profile, exercised |-> exercised, scopes |-> Range(Order),
                  reasons |-> {"billing"}]
        plain == Context(items, {"milestones", "exercises"}, << >>, {}, rules, AllFields(items))
    IN Truthful(Repinned([plain EXCEPT !.manifest = @ @@
            [lineage |-> "lineage", assumptions |-> Assumptions, claims |-> {},
             order |-> [milestones |-> Order, exercises |-> profile, records |-> <<"l1", "l2", "l3", "ci">>]]]),
            Evaluate)

Phase8Base == GateContext(FALSE)
Phase9Base == GateContext(TRUE)

(* Request, manifest and policy cases.                                            *)
DocumentEdits(c) ==
    ManifestEdits(c) \cup CallerEdits(c)
    \cup {[c EXCEPT !.request.identity = Other], [c EXCEPT !.request.sha.identity = Other],
          [c EXCEPT !.policy.identity = Other], [c EXCEPT !.policy.skew = -1],
          [c EXCEPT !.policy.expected["milestones"] = Without(@, "m2")],
          [c EXCEPT !.manifest.lineage = Other],
          [c EXCEPT !.manifest.repeated = @ \cup {"milestones"}],
          [c EXCEPT !.manifest.assumptions = @ \ {"synthetic-fixtures"}],
          [c EXCEPT !.manifest.assumptions = @ \cup {Other}]}
    \cup {[c EXCEPT !.manifest.claims = @ \cup {claim}] : claim \in Claims}
    \cup (IF c.policy.exercised THEN {[c EXCEPT !.policy.scenario_order = Reverse(@)]} ELSE {})

(* An item is left out of a list; two of them change places.                      *)
ListEdits(c) ==
    UNION {LET listed == c.manifest.order[kind] IN
           {[c EXCEPT !.manifest.order[kind] = SelectSeq(@, LAMBDA i : i # x),
                      !.manifest.items[kind] = Without(@, x)] : x \in SomeOf(Range(listed))}
           \cup (IF Len(listed) < 2 THEN {}
                 ELSE {[c EXCEPT !.manifest.order[kind] =
                            [k \in DOMAIN @ |-> CASE k = 1 -> @[2] [] k = 2 -> @[1] [] OTHER -> @[k]]]}) :
           kind \in {"milestones", "exercises"}}

MilestoneEdits(c) ==
    FieldEdits(c, UNION {{
        <<"milestones", m, "control_domain", Other>>, <<"milestones", m, "step_index", 99>>,
        <<"milestones", m, "lineage", Other>>, <<"milestones", m, "manifest_sha256", Other>>,
        <<"milestones", m, "assessment_sha256", Other>>,
        <<"milestones", m, "predecessor_assessment_sha256", Other>>,
        <<"milestones", m, "input_state_sha256", Other>>, <<"milestones", m, "output_state_sha256", Other>>,
        <<"milestones", m, "safe", FALSE>>, <<"milestones", m, "caller_declared_safety_trusted", TRUE>>,
        <<"milestones", m, "network_operations", 1>>, <<"milestones", m, "network_operations", -1>>,
        <<"milestones", m, "assessment_schema_version", Other>>,
        <<"milestones", m, "assessment_mode", Other>>} : m \in {"m1", "m2"}})

ExerciseEdits(c) ==
    FieldEdits(c, UNION {{
        <<"exercises", s, "attack_class", Other>>, <<"exercises", s, "entry_milestone_id", "m3">>,
        <<"exercises", s, "propagation_path", <<"m2">>>>, <<"exercises", s, "propagation_path", <<"m3", "m2">>>>,
        <<"exercises", s, "attack_input_sha256", Other>>, <<"exercises", s, "detection_milestone_id", "m1">>,
        <<"exercises", s, "detected", FALSE>>, <<"exercises", s, "promotion_blocked", FALSE>>,
        <<"exercises", s, "recovery_state_sha256", Other>>, <<"exercises", s, "network_operations", 1>>} :
        s \in {"substitution"}})

RecordEdits(c) ==
    FieldEdits(c, {<<"records", "l1", "status", "not_run">>, <<"records", "l1", "runner_started", FALSE>>,
                   <<"records", "l2", "steps_executed", 0>>, <<"records", "ci", "reason_code", Other>>})
    \cup (IF Item(c, "records", "ci").status # "remote_ci_blocked" THEN {}
          ELSE FieldEdits(c, {<<"records", "ci", "runner_started", TRUE>>, <<"records", "ci", "steps_executed", 1>>}))
    \cup GroupEdits(c, {<<"records", "ci", Without(VerificationRecord("phase", t[1], t[2], t[3], t[4]), "scope")>> :
            t \in {<<"remote_ci_fail", TRUE, 5, "failed">>, <<"remote_ci_pass", FALSE, 14, None>>,
                   <<"remote_ci_pass", TRUE, 0, None>>, <<"remote_ci_pass", TRUE, 14, "billing">>}})
    \cup {[c EXCEPT !.manifest.items["records"] = ("again" :> Item(c, "records", "ci")) @@ @,
                    !.manifest.order["records"] = Append(SelectSeq(@, LAMBDA v : v # "again"), "again")]}

Edits(c) ==
    DocumentEdits(c) \cup ListEdits(c) \cup MilestoneEdits(c) \cup ExerciseEdits(c) \cup RecordEdits(c)
=============================================================================
