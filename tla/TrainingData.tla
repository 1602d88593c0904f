----------------------------- MODULE TrainingData -----------------------------
(* What goes into a training run and what comes out of it: the admission of       *)
(* selected data, a base model and adapters to fine-tuning,                       *)
(* aegis/training/fine_tuning_security.py (P9-C), the sensitive data on both sides *)
(* of the run, sensitive_data_security.py (P9-G), and the promotion of the model   *)
(* to a registry, model_promotion_security.py (P9-H). The conventions are those of *)
(* TrainingRun; the digest of a record, or of a finding, is what it digests.       *)
EXTENDS TrainingRun

-----------------------------------------------------------------------------
(* P9-C: admission to fine-tuning. The adapters are a sequence, their order being *)
(* the order in which they are stacked; the selected records are a set, the code  *)
(* sorts them wherever it looks at them.                                          *)

Grant(c) == Item(c, "grant", "grant")
BaseModel(c) == Item(c, "base", "base")
Hyperparameters(c) == Item(c, "hyper", "hyper")

TuningPolicyValid(c) ==
    /\ Distinct(c.policy.adapter_ids)
    /\ DOMAIN c.policy.expected["adapters"] = Range(c.policy.adapter_ids)
    /\ c.policy.modes # {} /\ c.policy.formats # {} /\ c.policy.target_modules # {}
    /\ c.policy.max_rank > 0 /\ c.policy.max_alpha > 0 /\ c.policy.max_depth > 0
    /\ \A f \in {"learning_rate_micros", "epochs_milli"} :
           0 < c.policy.least[f] /\ c.policy.least[f] <= c.policy.most[f]
    /\ \A f \in {"batch_size", "max_steps", "gradient_accumulation_steps"} : c.policy.most[f] > 0
    /\ c.policy.seeds # {} /\ c.policy.max_age >= 0 /\ c.policy.skew >= 0

DatasetFields == {"dataset_id", "dataset_version"}

TuningManifestValid(c) ==
    /\ c.manifest.identity = "expected" /\ ~Differs(c, "route", DatasetFields)
    /\ Distinct(Listed(c, "adapters", "adapter_id"))
    /\ \A i \in Ids(c, "adapters"), f \in {"target_modules", "parent_adapter_ids"} : Distinct(Item(c, "adapters", i)[f])
    /\ Grant(c).issued_at_epoch <= Grant(c).expires_at_epoch
    /\ \A f \in DOMAIN Hyperparameters(c) \ {"seed"} : Hyperparameters(c)[f] > 0

SelectedTrainingDataDigest(c) == [p9b |-> c.manifest.pins["p9b"], record_ids |-> Route(c).selected_record_ids]

SelectionRisks(c) ==
    LET assessed == Fact(c, "p9b", "dataset") IN
    UpstreamRisks(c, "p9b")
    \cup Fired([upstream_invalid |-> \E f \in DatasetFields : assessed[f] # c.policy.expected["route"][f],
                selected_data_mismatch |->
                    \/ Differs(c, "route", {"selected_record_ids", "selected_data_sha256"})
                    \/ Route(c).selected_record_ids # assessed.included_record_ids
                    \/ Route(c).selected_data_sha256 # SelectedTrainingDataDigest(c)])

(* The grant is for this principal and task, this data and this base model.       *)
GrantRisks(c) ==
    LET grant == Grant(c) IN
    Fired([authorization_invalid |->
               \/ Differs(c, "grant", {"grant_id"})
               \/ grant.p9b_assessment_sha256 # c.manifest.pins["p9b"]
               \/ grant.selected_data_sha256 # Route(c).selected_data_sha256
               \/ grant.base_model_artifact_sha256 # BaseModel(c).artifact_sha256
               \/ grant.allowed_modes = {} \/ ~(grant.allowed_modes \subseteq c.policy.modes),
           principal_task_mismatch |->
               \E f \in {"principal_id", "task_id"} : Differs(c, "route", {f}) \/ grant[f] # Route(c)[f],
           authorization_expired |->
               c.request.at < grant.issued_at_epoch - c.policy.skew \/ c.request.at > grant.expires_at_epoch])

BaseModelRisks(c) ==
    Fired([base_model_identity_mismatch |-> Differs(c, "base", {"model_id", "revision"}),
           base_model_digest_mismatch |-> Differs(c, "base", {"artifact_sha256", "package_sha256", "tokenizer_sha256"}),
           base_model_runtime_mismatch |-> Differs(c, "base", {"runtime_profile"})])

(* An adapter stacks only on adapters listed before it.                           *)
AdapterRisks(c, i) ==
    LET x == Item(c, "adapters", i)
        seen == {Item(c, "adapters", j).adapter_id : j \in 1..(i - 1)}
    IN Fired([mode_unauthorized |-> x.mode \notin c.policy.modes \cap Grant(c).allowed_modes,
              adapter_format_unsafe |-> x.serialization_format \notin c.policy.formats,
              adapter_rank_invalid |-> x.rank \notin 1..c.policy.max_rank,
              adapter_alpha_invalid |-> x.alpha_bps \notin 1..c.policy.max_alpha,
              adapter_target_unauthorized |->
                  x.target_modules = << >> \/ ~(Range(x.target_modules) \subseteq c.policy.target_modules),
              adapter_init_mismatch |-> Unexpected(c, "adapters", x, x.adapter_id, {"init_sha256"}),
              remote_or_custom_code |-> x.remote_code \/ x.custom_code \/ x.native_extensions,
              adapter_stack_invalid |->
                  \/ Len(x.parent_adapter_ids) > c.policy.max_depth \/ ~(Range(x.parent_adapter_ids) \subseteq seen)])

TuningRisks(c) ==
    LET hyper == Hyperparameters(c) IN
    SelectionRisks(c) \cup GrantRisks(c) \cup BaseModelRisks(c)
    \cup UNION {AdapterRisks(c, i) : i \in Ids(c, "adapters")}
    \cup Fired([adapter_coverage_mismatch |-> Listed(c, "adapters", "adapter_id") # c.policy.adapter_ids,
                adapter_stack_invalid |-> Len(c.manifest.items["adapters"]) > c.policy.max_depth,
                hyperparameter_out_of_policy |->
                    \/ \E f \in DOMAIN c.policy.least : hyper[f] < c.policy.least[f]
                    \/ \E f \in DOMAIN c.policy.most : hyper[f] > c.policy.most[f]
                    \/ hyper.seed \notin c.policy.seeds,
                output_identity_mismatch |-> Differs(c, "route", {"planned_output_artifact_id"})])

TuningClaims ==
    [upstream_p9b_bound |-> {"upstream_invalid", "upstream_binding_mismatch"},
     authorization_verified |-> {"authorization_invalid", "authorization_expired", "principal_task_mismatch"},
     base_model_binding_verified |->
         {"base_model_identity_mismatch", "base_model_digest_mismatch", "base_model_runtime_mismatch"},
     adapter_policy_verified |->
         {"mode_unauthorized", "adapter_coverage_mismatch", "adapter_format_unsafe", "adapter_rank_invalid",
          "adapter_alpha_invalid", "adapter_target_unauthorized", "adapter_init_mismatch", "adapter_stack_invalid",
          "remote_or_custom_code"},
     hyperparameter_policy_verified |-> {"hyperparameter_out_of_policy"}]

(* Of the upstream and of the hyperparameters the caller declares nothing.        *)
TuningFacts(c) == ClaimFacts(TuningClaims, TuningRisks(c))
TuningTruth(c, facts) ==
    Restrict(Route(c), DatasetFields \cup {"selected_record_ids", "selected_data_sha256"})
    @@ [base_model_artifact_sha256 |-> BaseModel(c).artifact_sha256, adapter_ids |-> Listed(c, "adapters", "adapter_id")]
    @@ Without(Without(ClaimsDeclared(facts), "upstream_p9b_bound"), "hyperparameter_policy_verified")

TuningEvaluate(c) ==
    Outcome(c, ServingAsked(c), TuningPolicyValid(c) /\ TuningManifestValid(c) /\ ManifestBound(c),
            TuningFacts, LAMBDA facts : TuningTruth(c, facts))

-----------------------------------------------------------------------------
(* The evaluation's job: two records, one base model, an adapter on another.      *)

TuningSelection == [selected_record_ids |-> {"r1", "r2"}, selected_data_sha256 |-> [p9b |-> "p9b", record_ids |-> {"r1", "r2"}]]
TuningRoute ==
    TuningSelection @@ [dataset_id |-> "dataset", dataset_version |-> "v1", principal_id |-> "trainer", task_id |-> "task",
                        planned_output_artifact_id |-> "adapter"]
FineTuneBaseModelEvidence ==
    [model_id |-> "base", revision |-> "r42", artifact_sha256 |-> "artifact", package_sha256 |-> "package",
     tokenizer_sha256 |-> "tokenizer", runtime_profile |-> "safe"]
FineTuneAdapterSpec(id, mode, rank, alpha, targets, parents) ==
    [adapter_id |-> id, mode |-> mode, serialization_format |-> "safetensors", rank |-> rank, alpha_bps |-> alpha,
     target_modules |-> targets, init_sha256 |-> id, parent_adapter_ids |-> parents, remote_code |-> FALSE,
     custom_code |-> FALSE, native_extensions |-> FALSE]
FineTuneHyperparameters ==
    [learning_rate_micros |-> 200, epochs_milli |-> 2500, batch_size |-> 8, max_steps |-> 1200, seed |-> 17,
     gradient_accumulation_steps |-> 4]
FineTuneAuthorizationEvidence ==
    [grant_id |-> "grant", principal_id |-> "trainer", task_id |-> "task", p9b_assessment_sha256 |-> "p9b",
     base_model_artifact_sha256 |-> "artifact", selected_data_sha256 |-> TuningSelection.selected_data_sha256,
     issued_at_epoch |-> 0, expires_at_epoch |-> 660, allowed_modes |-> {"lora", "adapter"}]

TuningItems ==
    [route |-> [route |-> TuningRoute], base |-> [base |-> FineTuneBaseModelEvidence],
     adapters |-> <<FineTuneAdapterSpec("helpdesk", "lora", 16, 3200, <<"q_proj", "v_proj">>, << >>),
                    FineTuneAdapterSpec("security", "adapter", 8, 1600, <<"o_proj">>, <<"helpdesk">>)>>,
     hyper |-> [hyper |-> FineTuneHyperparameters], grant |-> [grant |-> FineTuneAuthorizationEvidence]]
TuningRules ==
    [expected |-> [route |-> TuningRoute, base |-> FineTuneBaseModelEvidence, grant |-> FineTuneAuthorizationEvidence,
                   adapters |-> [helpdesk |-> TuningItems.adapters[1], security |-> TuningItems.adapters[2]]],
     adapter_ids |-> <<"helpdesk", "security">>, modes |-> {"lora", "adapter"}, formats |-> {"safetensors"},
     target_modules |-> {"q_proj", "k_proj", "v_proj", "o_proj"}, max_rank |-> 32, max_alpha |-> 6400, max_depth |-> 2,
     least |-> [learning_rate_micros |-> 50, epochs_milli |-> 500],
     most |-> [learning_rate_micros |-> 500, epochs_milli |-> 4000, batch_size |-> 16, max_steps |-> 2000,
               gradient_accumulation_steps |-> 8],
     seeds |-> {17, 23}, max_age |-> 300, skew |-> 5]
TuningCanonical == AllFields(TuningItems)
PoisoningAssessment == [dataset_id |-> "dataset", dataset_version |-> "v1", included_record_ids |-> {"r1", "r2"}]
TuningBase ==
    Truthful(Context(TuningItems, {}, [p9b |-> [dataset |-> PoisoningAssessment]], {}, TuningRules, TuningCanonical),
             TuningEvaluate)

(* The digest of a smaller selection is recomputed, or left behind.               *)
SelectionDriftEdits(c) ==
    LET dropped == FieldEdits(c, SetTo("route", "route", {"selected_record_ids"}, {"r1"}))
    IN dropped
       \cup {SetField(d, "route", "route", "selected_data_sha256", SelectedTrainingDataDigest(d)) : d \in dropped}
       \cup FieldEdits(c, SetTo("route", "route", {"selected_data_sha256"}, Unseen))
       \cup FieldEdits(c, SetTo("route", "route", DatasetFields \cup {"planned_output_artifact_id", "principal_id", "task_id"}, Other))
       \cup FactEdits(c, SetTo("p9b", "dataset", DatasetFields, Other))
       \cup FactEdits(c, SetTo("p9b", "dataset", {"included_record_ids"}, {"r1"}))

GrantDriftEdits(c) ==
    FieldEdits(c, SetTo("grant", "grant", {"grant_id", "principal_id", "task_id", "p9b_assessment_sha256",
                                           "base_model_artifact_sha256"}, "elsewhere"))
    \cup FieldEdits(c, SetTo("grant", "grant", {"selected_data_sha256"}, [digest |-> "elsewhere"]))
    \cup FieldEdits(c, {<<"grant", "grant", "expires_at_epoch", 59>>, <<"grant", "grant", "issued_at_epoch", 66>>})
    \cup FieldEdits(c, SetTo("grant", "grant", {"allowed_modes"}, {}) \cup SetTo("grant", "grant", {"allowed_modes"}, {"full"}))
    \cup FieldEdits(c, SetTo("base", "base", DOMAIN FineTuneBaseModelEvidence, Other))

AdapterDriftEdits(c) ==
    UNION {FieldEdits(c, {<<"adapters", i, "serialization_format", "pickle">>, <<"adapters", i, "mode", "full">>,
                          <<"adapters", i, "init_sha256", Other>>})
           \cup FieldEdits(c, {<<"adapters", i, "rank", 0>>, <<"adapters", i, "rank", 33>>,
                               <<"adapters", i, "alpha_bps", 0>>, <<"adapters", i, "alpha_bps", 6401>>})
           \cup FieldEdits(c, {<<"adapters", i, "target_modules", <<"lm_head">>>>,
                               <<"adapters", i, "parent_adapter_ids", <<Other>>>>})
           \cup FieldEdits(c, SetTo("adapters", i, {"remote_code", "custom_code", "native_extensions"}, TRUE)) :
           i \in Ids(c, "adapters")}
    \cup RowEdits(c, {"adapters"}) \cup TurnedRows(c, {"adapters"})

HyperparameterEdits(c) ==
    FieldEdits(c, {<<"hyper", "hyper", t[1], t[2]>> :
                   t \in {<<"learning_rate_micros", 1>>, <<"learning_rate_micros", 501>>, <<"epochs_milli", 1>>,
                          <<"epochs_milli", 4001>>, <<"batch_size", 17>>, <<"max_steps", 2001>>, <<"seed", 999>>,
                          <<"gradient_accumulation_steps", 9>>, <<"gradient_accumulation_steps", 0>>}})

TuningPolicyEdits(c) ==
    {[c EXCEPT !.policy.adapter_ids = Append(@, "helpdesk")],
     [c EXCEPT !.policy.expected["adapters"] = Without(@, "helpdesk")],
     [c EXCEPT !.policy.modes = {}], [c EXCEPT !.policy.seeds = {}], [c EXCEPT !.policy.max_depth = 0],
     [c EXCEPT !.policy.least["epochs_milli"] = 4001], [c EXCEPT !.policy.most["batch_size"] = 0]}

TuningEdits(c) ==
    ServingEdits(c) \cup SelectionDriftEdits(c) \cup GrantDriftEdits(c) \cup AdapterDriftEdits(c)
    \cup HyperparameterEdits(c) \cup TuningPolicyEdits(c)

-----------------------------------------------------------------------------
(* P9-G: the findings of a scanner in the records that went into the training and *)
(* its evaluation, what was done with them, and what the model put out.           *)

FindingIds(x) == [j \in DOMAIN x.findings |-> x.findings[j].finding_id]
FindingKinds(x) == {x.findings[j].kind : j \in DOMAIN x.findings}
PersonalKinds == {"pii_email", "pii_phone"}
SecretKinds == {"api_secret", "canary_token"}
Surfaces == {"training_input", "evaluation_input", "model_output"}

SensitivePolicyValid(c) ==
    LET ids == c.policy.record_ids
        expected == c.policy.expected["records"]
        findings == FlattenSeq([i \in DOMAIN ids |-> expected[ids[i]].finding_ids])
    IN /\ ids # << >> /\ Distinct(ids) /\ DOMAIN expected = Range(ids)
       /\ Distinct(findings) /\ Range(findings) = DOMAIN c.policy.expected["findings"]
       /\ Distinct(c.policy.expected["route"].included_training_record_ids)
       /\ Distinct(c.policy.expected["route"].output_record_ids)
       /\ c.policy.max_age >= 0 /\ c.policy.skew >= 0

SensitiveManifestValid(c) ==
    /\ Ids(c, "records") # {} /\ Distinct(Listed(c, "records", "record_id"))
    /\ Distinct(FlattenSeq([i \in Ids(c, "records") |-> FindingIds(Item(c, "records", i))]))
    /\ \A i \in Ids(c, "records") : \A j \in DOMAIN Item(c, "records", i).findings :
           LET x == Item(c, "records", i).findings[j] IN 0 <= x.start_offset /\ x.start_offset < x.end_offset
    /\ Distinct(Route(c).included_training_record_ids) /\ Distinct(Route(c).output_record_ids)
    /\ Route(c).network_operations >= 0

(* The most sensitive kind that was found decides.                                *)
DerivedSensitivity(x) ==
    CASE "canary_token" \in FindingKinds(x) -> "canary"
      [] "canary_token" \notin FindingKinds(x) /\ "api_secret" \in FindingKinds(x) -> "secret"
      [] FindingKinds(x) \cap SecretKinds = {} /\ FindingKinds(x) \cap PersonalKinds # {} -> "personal"
      [] OTHER -> "public"

(* What has to be done with an input follows from what was found in it, personal  *)
(* data before secrets.                                                           *)
HandlingRisks(x) ==
    LET input == x.surface \in {"training_input", "evaluation_input"}
        personal == FindingKinds(x) \cap PersonalKinds # {}
        secret == FindingKinds(x) \cap SecretKinds # {}
        sanitized == x.sanitized_content_sha256 # x.content_sha256
    IN Fired([redaction_policy_mismatch |->
                  /\ input
                  /\ \/ personal /\ ~(x.disposition = "redact" /\ sanitized /\ x.included)
                     \/ ~personal /\ ~secret /\ ~(x.disposition = "allow" /\ ~sanitized),
              quarantine_policy_mismatch |->
                  input /\ ~personal /\ secret /\ (x.disposition # "quarantine" \/ x.included),
              output_sensitive_reproduction |-> x.surface = "model_output" /\ x.findings # << >>])

SensitiveRecordRisks(c, i) ==
    LET x == Item(c, "records", i)
        known == x.record_id \in DOMAIN c.policy.expected["records"]
        expected == c.policy.expected["records"][x.record_id]
        differs(fields) == Unexpected(c, "records", x, x.record_id, fields)
        redacts == x.disposition = "redact" \/ (known /\ expected.disposition = "redact")
    IN HandlingRisks(x)
       \cup Fired([record_surface_mismatch |-> differs({"surface"}),
                   record_digest_mismatch |-> differs({"content_sha256", "sanitized_content_sha256"}),
                   classification_mismatch |-> differs({"sensitivity"}) \/ x.sensitivity # DerivedSensitivity(x),
                   finding_coverage_mismatch |-> ~known \/ FindingIds(x) # expected.finding_ids,
                   finding_evidence_mismatch |->
                       \E j \in DOMAIN x.findings :
                           LET id == x.findings[j].finding_id
                           IN \/ id \notin DOMAIN c.policy.expected["findings"]
                              \/ x.findings[j] # c.policy.expected["findings"][id],
                   redaction_policy_mismatch |-> differs({"disposition"}) /\ redacts,
                   quarantine_policy_mismatch |-> differs({"disposition"}) /\ ~redacts,
                   training_inclusion_mismatch |-> differs({"included"})])

RecordsWhere(c, test(_)) == SelectSeq(c.manifest.items["records"], test)
OutputRecords(c) == RecordsWhere(c, LAMBDA x : x.surface = "model_output")
TrainedRecords(c) == RecordsWhere(c, LAMBDA x : x.surface = "training_input" /\ x.included)
RecordIdsOf(s) == [i \in DOMAIN s |-> s[i].record_id]
SensitiveOutputBatchDigest(c) ==
    LET s == OutputRecords(c) IN [batch |-> [i \in DOMAIN s |-> <<s[i].record_id, s[i].sanitized_content_sha256>>]]

SensitiveRisks(c) ==
    LET evaluation == {"evaluation_id", "checkpoint_id"}
        batch == SensitiveOutputBatchDigest(c)
    IN UpstreamRisks(c, "p9f") \cup UNION {SensitiveRecordRisks(c, i) : i \in Ids(c, "records")}
       \cup Fired([evaluation_identity_mismatch |->
                       \E f \in evaluation : \/ Route(c)[f] # c.policy.expected["route"][f]
                                             \/ Fact(c, "p9f", "evaluation")[f] # c.policy.expected["route"][f],
                   scanner_profile_mismatch |-> Differs(c, "route", {"scanner_profile_sha256"}),
                   canary_registry_mismatch |-> Differs(c, "route", {"canary_registry_sha256"}),
                   record_coverage_mismatch |-> Listed(c, "records", "record_id") # c.policy.record_ids,
                   training_inclusion_mismatch |->
                       \/ Route(c).included_training_record_ids # RecordIdsOf(TrainedRecords(c))
                       \/ Differs(c, "route", {"included_training_record_ids"}),
                   output_batch_mismatch |->
                       \/ Route(c).output_record_ids # RecordIdsOf(OutputRecords(c))
                       \/ Route(c).output_batch_sha256 # batch
                       \/ Differs(c, "route", {"output_record_ids", "output_batch_sha256"}),
                   network_operation_unexpected |-> Route(c).network_operations # 0])

SensitiveClaims ==
    LET findings == {"record_digest_mismatch", "finding_coverage_mismatch", "finding_evidence_mismatch"}
    IN [upstream_p9f_bound |-> {"upstream_invalid", "upstream_binding_mismatch", "evaluation_identity_mismatch"},
        input_governance_verified |->
            findings \cup {"record_coverage_mismatch", "record_surface_mismatch", "classification_mismatch",
                           "redaction_policy_mismatch", "quarantine_policy_mismatch", "training_inclusion_mismatch",
                           "scanner_profile_mismatch", "canary_registry_mismatch"},
        output_governance_verified |-> findings \cup {"output_sensitive_reproduction", "output_batch_mismatch"}]

(* Whether a canary came out is read off the records, not off a risk.             *)
CanaryReproduced(c) ==
    Fired([canary_reproduced |->
               \E i \in DOMAIN OutputRecords(c) : "canary_token" \in FindingKinds(OutputRecords(c)[i])])

SensitiveFacts(c) ==
    ClaimFacts(SensitiveClaims, SensitiveRisks(c)) @@ [canary_reproduction_clear |-> CanaryReproduced(c)]
SensitiveTruth(c, facts) ==
    [record_ids |-> Listed(c, "records", "record_id")]
    @@ Restrict(Route(c), {"evaluation_id", "checkpoint_id", "included_training_record_ids", "output_record_ids"})
    @@ ClaimsDeclared(facts)

SensitiveEvaluate(c) ==
    Outcome(c, EvidenceAsked(c), SensitivePolicyValid(c) /\ SensitiveManifestValid(c) /\ EvidencePinned(c),
            SensitiveFacts, LAMBDA facts : SensitiveTruth(c, facts))

-----------------------------------------------------------------------------
(* The evaluation's records: inputs of every sensitivity and two clean outputs.   *)

SensitiveFindingEvidence(id, kind) ==
    [finding_id |-> id, kind |-> kind, detector_rule_id |-> kind, detector_rule_sha256 |-> kind,
     token_fingerprint_sha256 |-> id, start_offset |-> 5, end_offset |-> 15]
SensitiveRecordEvidence(id, surface, sensitivity, findings, disposition, included) ==
    [record_id |-> id, surface |-> surface, content_sha256 |-> id,
     sanitized_content_sha256 |-> IF disposition = "allow" THEN id ELSE disposition, sensitivity |-> sensitivity,
     findings |-> findings, disposition |-> disposition, included |-> included]
SensitiveRecords ==
    LET found(id, kind) == <<SensitiveFindingEvidence(id, kind)>>
        open(id, surface, included) == SensitiveRecordEvidence(id, surface, "public", << >>, "allow", included)
    IN <<open("train_public", "training_input", TRUE),
         SensitiveRecordEvidence("train_pii", "training_input", "personal", found("email", "pii_email"), "redact", TRUE),
         SensitiveRecordEvidence("train_secret", "training_input", "secret", found("secret", "api_secret"),
                                 "quarantine", FALSE),
         SensitiveRecordEvidence("train_canary", "training_input", "canary", found("canary", "canary_token"),
                                 "quarantine", FALSE),
         SensitiveRecordEvidence("eval_pii", "evaluation_input", "personal", found("phone", "pii_phone"), "redact", TRUE),
         open("output_1", "model_output", FALSE), open("output_2", "model_output", FALSE)>>

EvaluatedModel == [evaluation_id |-> "evaluation", checkpoint_id |-> "checkpoint"]
SensitiveRoute ==
    EvaluatedModel
    @@ [scanner_profile_sha256 |-> "scanner", canary_registry_sha256 |-> "registry",
        included_training_record_ids |-> <<"train_public", "train_pii">>,
        output_record_ids |-> <<"output_1", "output_2">>,
        output_batch_sha256 |-> [batch |-> <<<<"output_1", "output_1">>, <<"output_2", "output_2">>>>],
        network_operations |-> 0]
SensitiveItems == [route |-> [route |-> SensitiveRoute], records |-> SensitiveRecords]
SensitiveRules ==
    LET records == SensitiveRecords
        at(id) == CHOOSE i \in DOMAIN records : records[i].record_id = id
        found == UNION {Range(records[i].findings) : i \in DOMAIN records}
    IN [record_ids |-> RecordIdsOf(records),
        expected |-> [route |-> SensitiveRoute,
                      records |-> [id \in Range(RecordIdsOf(records)) |->
                          records[at(id)] @@ [finding_ids |-> FindingIds(records[at(id)])]],
                      findings |-> [id \in {x.finding_id : x \in found} |-> CHOOSE x \in found : x.finding_id = id]],
        max_age |-> 300, skew |-> 5]
SensitiveCanonical == AllFields(SensitiveItems)
SensitiveBase ==
    Truthful(Context(SensitiveItems, {}, [p9f |-> [evaluation |-> EvaluatedModel]], {}, SensitiveRules,
                     SensitiveCanonical), SensitiveEvaluate)

(* One record is not what was approved. The first output keeps its place, so that *)
(* what was found in it stays found.                                              *)
RecordDriftEdits(c) ==
    LET drifted(x) ==
            {[x EXCEPT !.surface = s] : s \in IF x.record_id = "output_1" THEN {} ELSE Surfaces}
            \cup {[x EXCEPT !.content_sha256 = Other], [x EXCEPT !.sanitized_content_sha256 = Other]}
            \cup {[x EXCEPT !.sensitivity = s] : s \in {"public", "personal", "canary"}}
            \cup {[x EXCEPT !.disposition = d] : d \in {"allow", "redact", "quarantine", "deny"}}
            \cup {[x EXCEPT !.included = ~SensitiveRecords[i].included] :
                     i \in {i \in DOMAIN SensitiveRecords : SensitiveRecords[i].record_id = x.record_id}}
    IN UNION {{[c EXCEPT !.manifest.items["records"][i] = y] : y \in drifted(Item(c, "records", i)) \ {Item(c, "records", i)}} :
              i \in {i \in Ids(c, "records") :
                     \A j \in DOMAIN SensitiveRecords : SensitiveRecords[j].record_id = Item(c, "records", i).record_id
                         => SensitiveRecords[j] = Item(c, "records", i)}}

(* A finding is removed or described differently; an output turns out to have one. *)
FindingDriftEdits(c) ==
    LET found == {i \in Ids(c, "records") : /\ Item(c, "records", i).findings # << >>
                                            /\ Item(c, "records", i).record_id # "output_1"}
        first(i) == Item(c, "records", i).findings[1]
        reported(i) == {<< >>} \cup {<<[first(i) EXCEPT ![f] = Other]>> :
                                         f \in {"detector_rule_id", "detector_rule_sha256", "token_fingerprint_sha256"}}
                       \cup {<<[first(i) EXCEPT !.kind = "canary_token"]>>, <<[first(i) EXCEPT !.kind = "pii_email"]>>,
                             <<[first(i) EXCEPT !.end_offset = 5]>>}
    IN FieldEdits(c, UNION {{<<"records", i, "findings", s>> : s \in reported(i)} : i \in found})
       \cup GroupEdits(c, {<<"records", i, [findings |-> <<SensitiveFindingEvidence(Other, t[1])>>, sensitivity |-> t[2],
                                            disposition |-> "deny"]>> :
                           i \in {i \in Ids(c, "records") : Item(c, "records", i).record_id = "output_1"},
                           t \in {<<"pii_email", "personal">>, <<"api_secret", "secret">>, <<"canary_token", "canary">>}})

GovernanceDriftEdits(c) ==
    FieldEdits(c, SetTo("route", "route", {"scanner_profile_sha256", "canary_registry_sha256"} \cup DOMAIN EvaluatedModel, Other)
                  \cup SetTo("route", "route", {"output_batch_sha256"}, Unseen))
    \cup FieldEdits(c, SetTo("route", "route", {"output_batch_sha256"}, SensitiveOutputBatchDigest(c)))
    \cup FieldEdits(c, SetTo("route", "route", {"included_training_record_ids"}, <<"train_public">>)
                       \cup SetTo("route", "route", {"included_training_record_ids"},
                                  <<"train_public", "train_pii", "train_secret">>)
                       \cup SetTo("route", "route", {"output_record_ids"}, <<"output_2", "output_1">>)
                       \cup SetTo("route", "route", {"output_record_ids"}, <<"output_1">>))
    \cup FieldEdits(c, SetTo("route", "route", {"network_operations"}, 1))
    \cup FactEdits(c, SetTo("p9f", "evaluation", DOMAIN EvaluatedModel, Other))

SensitivePolicyEdits(c) ==
    {[c EXCEPT !.policy.record_ids = << >>], [c EXCEPT !.policy.record_ids = Append(@, "train_pii")],
     [c EXCEPT !.policy.expected["records"] = Without(@, "output_2")],
     [c EXCEPT !.policy.expected["findings"] = Without(@, "phone")],
     [c EXCEPT !.policy.expected["route"].included_training_record_ids = <<"train_pii", "train_pii">>],
     [c EXCEPT !.policy.expected["route"].output_record_ids = <<"output_1", "output_1">>]}

SensitiveEdits(c) ==
    SubjectEdits(c) \cup RecordDriftEdits(c) \cup FindingDriftEdits(c) \cup GovernanceDriftEdits(c)
    \cup RowEdits(c, {"records"}) \cup TurnedRows(c, {"records"}) \cup SensitivePolicyEdits(c)
-----------------------------------------------------------------------------
(* P9-H: promotion of the trained model to a registry. The bridge is the release  *)
(* of the supply chain (phase 5) the promotion hands over to. A source and a URI  *)
(* are a prefix and a rest, the target of a promotion the registry's name for it. *)

MutableNames == {"latest", "stable", "current", "prod", "production", "default"}
DataOnlyFormats == {"safetensors", "onnx"}
PackageRoles == {"primary_model", "config", "tokenizer", "adapter", "quantization_metadata", "external_data"}
Bridge(c) == Item(c, "bridge", "bridge")
PromotionGrant(c) == Item(c, "authorization", "authorization")
PromotionTarget(c) == <<Route(c).registry_namespace, Route(c).registry_model_name, Route(c).registry_version>>

PromotionPolicyValid(c) ==
    LET ids == c.policy.artifact_ids
        expected == c.policy.expected["artifacts"]
    IN /\ ids # << >> /\ Distinct(ids) /\ DOMAIN expected = Range(ids)
       /\ \A x \in DOMAIN expected :
              /\ expected[x].component_role \in PackageRoles /\ expected[x].artifact_format \in DataOnlyFormats
              /\ expected[x].size_bytes >= 0
       /\ Cardinality({x \in DOMAIN expected : expected[x].component_role = "primary_model"}) = 1
       /\ {c.policy.expected["route"].registry_version, c.policy.expected["bridge"].tag} \cap MutableNames = {}
       /\ c.policy.expected["route"].revocation_epoch > 0 /\ c.policy.max_age >= 0 /\ c.policy.skew >= 0

PromotionManifestValid(c) ==
    /\ Ids(c, "artifacts") # {} /\ Distinct(Listed(c, "artifacts", "artifact_id"))
    /\ \A i \in Ids(c, "artifacts") : Item(c, "artifacts", i).size_bytes >= 0
    /\ PromotionGrant(c).issued_at_epoch <= PromotionGrant(c).expires_at_epoch
    /\ Route(c).revocation_epoch > 0 /\ Route(c).network_operations >= 0

GovernedFields == {"governance_id", "evaluation_id", "checkpoint_id"}
PromotedModelFields ==
    {"model_id", "revision", "base_model_id", "base_model_revision", "final_checkpoint_artifact_sha256"}
RegistryFields == {"registry_namespace", "registry_model_name", "registry_version", "immutable_artifact_uri"}

(* The release handed over is the pinned one, digest and every field of it, and   *)
(* made under the supply chain's current policies and schemas.                    *)
Phase5Versions ==
    [p5a_policy_version |-> "p5a", p5a_manifest_schema_version |-> "p5a", p5b_policy_version |-> "p5b",
     p5b_manifest_schema_version |-> "p5b", p5c_policy_version |-> "p5c", p5c_release_schema_version |-> "p5c"]
BridgeMismatch(c) ==
    \/ Bridge(c) # c.policy.expected["bridge"]
    \/ \E f \in DOMAIN Phase5Versions : Bridge(c)[f] # Phase5Versions[f]

PromotionRisks(c) ==
    LET grant == PromotionGrant(c)
        route == Route(c)
    IN UpstreamRisks(c, "p9g")
       \cup Fired([training_lineage_mismatch |->
                       \/ Differs(c, "route", GovernedFields \cup {"execution_id", "job_id"})
                       \/ \E f \in GovernedFields :
                              Fact(c, "p9g", "governance")[f] # c.policy.expected["route"][f],
                   model_identity_mismatch |-> Differs(c, "route", PromotedModelFields),
                   artifact_coverage_mismatch |-> Listed(c, "artifacts", "artifact_id") # c.policy.artifact_ids,
                   artifact_metadata_mismatch |->
                       \E i \in Ids(c, "artifacts") :
                           LET x == Item(c, "artifacts", i) IN
                           \/ Unexpected(c, "artifacts", x, x.artifact_id,
                                         {"component_role", "artifact_format", "sha256", "size_bytes"})
                           \/ x.source[1] # c.policy.expected["artifacts"][x.artifact_id].source[1],
                   phase5_bridge_mismatch |-> BridgeMismatch(c),
                   registry_identity_mismatch |-> Differs(c, "route", RegistryFields),
                   mutable_reference_unsafe |->
                       \/ route.overwrite_existing \/ route.mutable_alias_update
                       \/ route.registry_version \in MutableNames \/ Bridge(c).tag \in MutableNames
                       \/ route.immutable_artifact_uri[1] # "registry+sha256",
                   promotion_authorization_invalid |->
                       \/ Differs(c, "authorization", {"authorization_id", "grant_id", "principal_id"})
                       \/ grant.action # "promote-model" \/ grant.target # PromotionTarget(c)
                       \/ grant.p9g_assessment_sha256 # c.manifest.pins["p9g"],
                   authorization_expired |->
                       c.request.at < grant.issued_at_epoch - c.policy.skew \/ c.request.at > grant.expires_at_epoch,
                   predecessor_mismatch |-> Differs(c, "route", {"predecessor_version"}),
                   rollback_binding_mismatch |-> Differs(c, "route", {"rollback_release_digest"}),
                   revocation_policy_mismatch |->
                       Differs(c, "route", {"revocation_epoch"}) \/ route.revocation_epoch <= c.manifest.created,
                   network_operation_unexpected |-> route.network_operations # 0])

(* Every claim of the assessment is the decision.                                 *)
PromotionFacts(c) == [decision |-> PromotionRisks(c)]
PromotionTruth(c, facts) ==
    [artifact_ids |-> Listed(c, "artifacts", "artifact_id")]
    @@ Restrict(Route(c), {"model_id", "revision", "registry_namespace", "registry_model_name", "registry_version"})
    @@ SafetyDeclared(facts, {"upstream_bound", "training_lineage_valid", "phase5_provenance_bound",
                              "registry_target_immutable", "promotion_authorized", "promotion_safe"})

PromotionEvaluate(c) ==
    Outcome(c, EvidenceAsked(c), PromotionPolicyValid(c) /\ PromotionManifestValid(c) /\ EvidencePinned(c),
            PromotionFacts, LAMBDA facts : PromotionTruth(c, facts))

-----------------------------------------------------------------------------
(* The evaluation's promotion of a model with its adapter and its tokenizer.      *)

PromotionArtifactEvidence(id, role, format, size) ==
    [artifact_id |-> id, component_role |-> role, artifact_format |-> format, sha256 |-> id, size_bytes |-> size,
     source |-> <<"staging", id>>]
Phase5ProvenanceBridgeEvidence ==
    Phase5Versions @@
    [package_id |-> "package", package_publisher_id |-> "publisher", package_manifest_sha256 |-> "package",
     registry_id |-> "registry", channel |-> "candidate", tag |-> "release", release_digest |-> "release"]
ModelPromotionAuthorizationEvidence ==
    [authorization_id |-> "authorization", grant_id |-> "grant", principal_id |-> "manager", action |-> "promote-model",
     target |-> <<"namespace", "model", "r1">>, p9g_assessment_sha256 |-> "p9g", issued_at_epoch |-> 50,
     expires_at_epoch |-> 180]
GovernedModel == [governance_id |-> "governance", evaluation_id |-> "evaluation", checkpoint_id |-> "checkpoint"]
PromotionRoute ==
    GovernedModel
    @@ [execution_id |-> "execution", job_id |-> "job", model_id |-> "model", revision |-> "r1", base_model_id |-> "base",
        base_model_revision |-> "base_r1", final_checkpoint_artifact_sha256 |-> "checkpoint",
        registry_namespace |-> "namespace", registry_model_name |-> "model", registry_version |-> "r1",
        immutable_artifact_uri |-> <<"registry+sha256", "release">>, predecessor_version |-> "r0",
        rollback_release_digest |-> "previous", revocation_epoch |-> 86400, overwrite_existing |-> FALSE,
        mutable_alias_update |-> FALSE, network_operations |-> 0]
PromotionItems ==
    [route |-> [route |-> PromotionRoute], bridge |-> [bridge |-> Phase5ProvenanceBridgeEvidence],
     authorization |-> [authorization |-> ModelPromotionAuthorizationEvidence],
     artifacts |-> <<PromotionArtifactEvidence("weights", "primary_model", "safetensors", 800),
                     PromotionArtifactEvidence("adapter", "adapter", "safetensors", 16),
                     PromotionArtifactEvidence("tokenizer", "tokenizer", "onnx", 64)>>]
PromotionRules ==
    [expected |-> [route |-> PromotionRoute, bridge |-> Phase5ProvenanceBridgeEvidence,
                   authorization |-> ModelPromotionAuthorizationEvidence,
                   artifacts |-> [weights |-> PromotionItems.artifacts[1], adapter |-> PromotionItems.artifacts[2],
                                  tokenizer |-> PromotionItems.artifacts[3]]],
     artifact_ids |-> <<"weights", "adapter", "tokenizer">>, max_age |-> 300, skew |-> 5]
PromotionCanonical == AllFields(PromotionItems)
PromotionBase ==
    Truthful(Context(PromotionItems, {}, [p9g |-> [governance |-> GovernedModel]], {}, PromotionRules, PromotionCanonical),
             PromotionEvaluate)

PromotionDriftEdits(c) ==
    FieldEdits(c, SetTo("route", "route", GovernedFields \cup PromotedModelFields
                        \cup {"execution_id", "job_id", "registry_namespace", "registry_model_name", "registry_version",
                              "predecessor_version", "rollback_release_digest"}, Other)
                  \cup {<<"route", "route", "registry_version", "latest">>})
    \cup FieldEdits(c, {<<"route", "route", "immutable_artifact_uri", <<"registry+sha256", Other>>>>,
                        <<"route", "route", "immutable_artifact_uri", <<"registry", "release">>>>})
    \cup FieldEdits(c, SetTo("route", "route", {"overwrite_existing", "mutable_alias_update"}, TRUE))
    \cup FieldEdits(c, {<<"route", "route", "revocation_epoch", 86401>>, <<"route", "route", "revocation_epoch", -1>>,
                        <<"route", "route", "network_operations", 1>>})
    \cup FactEdits(c, SetTo("p9g", "governance", GovernedFields, Other))

HandoverDriftEdits(c) ==
    FieldEdits(c, SetTo("bridge", "bridge", DOMAIN Phase5ProvenanceBridgeEvidence, Other)
                  \cup {<<"bridge", "bridge", "tag", "latest">>})
    \cup {SetField([c EXCEPT !.policy.expected["bridge"][f] = "p4"], "bridge", "bridge", f, "p4") : f \in DOMAIN Phase5Versions}
    \cup FieldEdits(c, SetTo("authorization", "authorization", {"authorization_id", "grant_id", "principal_id", "action",
                                                                "p9g_assessment_sha256"}, "elsewhere"))
    \cup FieldEdits(c, SetTo("authorization", "authorization", {"target"}, <<"namespace", "model", Other>>))
    \cup FieldEdits(c, {<<"authorization", "authorization", "expires_at_epoch", 59>>,
                        <<"authorization", "authorization", "issued_at_epoch", 66>>})
    \cup UNION {FieldEdits(c, SetTo("artifacts", i, {"artifact_id", "sha256"}, Other)
                              \cup {<<"artifacts", i, "component_role", "external_data">>,
                                    <<"artifacts", i, "artifact_format", "pickle">>})
                \cup FieldEdits(c, {<<"artifacts", i, "size_bytes", Item(c, "artifacts", i).size_bytes + 1>>})
                \cup FieldEdits(c, {<<"artifacts", i, "source", <<Other, "artifact">>>>}) : i \in Ids(c, "artifacts")}
    \cup RowEdits(c, {"artifacts"}) \cup TurnedRows(c, {"artifacts"})

PromotionPolicyEdits(c) ==
    {[c EXCEPT !.policy.artifact_ids = Append(@, "weights")],
     [c EXCEPT !.policy.expected["artifacts"]["weights"].component_role = Other],
     [c EXCEPT !.policy.expected["artifacts"]["weights"].component_role = "config"],
     [c EXCEPT !.policy.expected["artifacts"]["weights"].artifact_format = "pickle"],
     [c EXCEPT !.policy.expected["route"].registry_version = "latest"],
     [c EXCEPT !.policy.expected["bridge"].tag = "latest"],
     [c EXCEPT !.policy.expected["route"].revocation_epoch = 0]}

PromotionEdits(c) ==
    SubjectEdits(c) \cup PromotionDriftEdits(c) \cup HandoverDriftEdits(c) \cup PromotionPolicyEdits(c)
=============================================================================
