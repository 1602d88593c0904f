----------------------------- MODULE TrainingRun -----------------------------
(* A training run and the evaluation of what it produced: the execution of the    *)
(* job, aegis/training/training_execution_security.py (P9-D), the checkpoints it  *)
(* is resumed from, checkpoint_integrity_security.py (P9-E), and the benchmark    *)
(* its result is claimed on, evaluation_governance_security.py (P9-F). Like the   *)
(* analyzers of phase 10, whose conventions for sequences, claims and edits are   *)
(* taken from InferenceServing, they turn most disagreements into risks of one    *)
(* assessment. The lists of a runtime are sequences; Wildcard stands for an       *)
(* entry with a "*" in it.                                                        *)
EXTENDS InferenceServing

Wildcard == "*"

Job(c) == Item(c, "job", "job")
Code(c) == Item(c, "code", "code")
Environment(c) == Item(c, "environment", "environment")

(* The named fields are not the ones the policy expects of a single item.         *)
Differs(c, kind, fields) ==
    \E f \in fields : Item(c, kind, kind)[f] # c.policy.expected[kind][f]

(* Every claim is declared for itself, and the decision as one of them.           *)
ClaimsDeclared(facts) == [k \in DOMAIN facts |-> facts[k] = {}]

-----------------------------------------------------------------------------
(* P9-D: the execution of an admitted training job.                               *)

ExecutionPolicyValid(c) ==
    LET runtime == c.policy.expected["environment"]
        secrets == c.policy.expected["secrets"]
        capabilities == c.policy.expected["capabilities"]
    IN /\ c.policy.expected["job"].attempt > 0
       /\ c.policy.max_age >= 0 /\ c.policy.skew >= 0
       /\ \A s \in {runtime.environment_variable_names, runtime.network_egress, runtime.writable_paths,
                    c.policy.secret_ids, c.policy.capability_ids} : Distinct(s)
       /\ Wildcard \notin Range(runtime.network_egress) \cup Range(runtime.writable_paths)
       /\ DOMAIN secrets = Range(c.policy.secret_ids)
       /\ \A x \in DOMAIN secrets, f \in {"provider", "version", "purpose", "scope", "mount_path"} :
              secrets[x][f] # Wildcard
       /\ DOMAIN capabilities = Range(c.policy.capability_ids)
       /\ \A x \in DOMAIN capabilities :
              /\ capabilities[x].resource # Wildcard /\ capabilities[x].actions # << >>
              /\ Distinct(capabilities[x].actions) /\ Wildcard \notin Range(capabilities[x].actions)

ExecutionManifestValid(c) ==
    /\ c.manifest.identity = "expected" /\ Job(c).attempt > 0
    /\ \A f \in {"environment_variable_names", "network_egress", "writable_paths", "host_mounts"} :
           Distinct(Environment(c)[f])
    /\ Distinct(Listed(c, "secrets", "secret_id"))
    /\ \A i \in Ids(c, "secrets") :
           Item(c, "secrets", i).issued_at_epoch <= Item(c, "secrets", i).expires_at_epoch
    /\ Distinct(Listed(c, "capabilities", "capability_id"))
    /\ \A i \in Ids(c, "capabilities") :
           LET actions == Item(c, "capabilities", i).actions IN actions # << >> /\ Distinct(actions)

AdmissionRisks(c) ==
    LET admitted == Fact(c, "p9c", "admission")
        expected == c.policy.expected["route"]
        output == "planned_output_artifact_id"
    IN UpstreamRisks(c, "p9c")
       \cup Fired([upstream_binding_mismatch |->
                       \/ Route(c).manifest_id # expected.manifest_id
                       \/ \E f \in {"manifest_id", "principal_id", "task_id"} : admitted[f] # expected[f],
                   output_identity_mismatch |->
                       Route(c)[output] # expected[output] \/ admitted[output] # expected[output]])

LaunchRisks(c) ==
    Fired([job_identity_mismatch |-> Differs(c, "job", {"job_id", "attempt", "launch_nonce_sha256"}),
           scheduler_identity_mismatch |->
               Differs(c, "job", {"scheduler", "namespace", "queue", "service_account", "executor_principal",
                                  "identity_token_audience"}),
           code_identity_mismatch |-> Differs(c, "code", {"repository_id", "commit_sha", "tree_sha", "entrypoint"}),
           code_integrity_mismatch |-> Differs(c, "code", {"entrypoint_sha256", "dependency_lock_sha256"}),
           config_mismatch |-> Differs(c, "code", {"config_sha256"}),
           dynamic_or_remote_code |->
               \/ ~Code(c).source_read_only \/ Code(c).remote_fetch_allowed
               \/ Code(c).dynamic_dependency_install \/ Code(c).custom_startup_script])

RuntimeRisks(c) ==
    LET env == Environment(c) IN
    Fired([environment_identity_mismatch |->
               Differs(c, "environment", {"image_ref", "image_sha256", "python_version", "framework_version",
                                          "accelerator_runtime"}),
           privileged_runtime |->
               env.privileged \/ env.host_network \/ env.allow_privilege_escalation \/ env.docker_socket_mounted,
           network_policy_mismatch |->
               Differs(c, "environment", {"network_egress"}) \/ Wildcard \in Range(env.network_egress),
           filesystem_policy_mismatch |->
               \/ Differs(c, "environment", {"writable_paths"}) \/ Wildcard \in Range(env.writable_paths)
               \/ env.host_mounts # << >> \/ ~env.root_filesystem_read_only,
           device_policy_mismatch |-> Differs(c, "environment", {"device_profile"}),
           env_allowlist_mismatch |-> Differs(c, "environment", {"environment_variable_names"})])

(* What an item of the list differs in from the policy's expectation of its id;   *)
(* of an id the policy does not know nothing is expected.                         *)
Unexpected(c, kind, x, id, fields) ==
    \/ id \notin DOMAIN c.policy.expected[kind]
    \/ \E f \in fields : x[f] # c.policy.expected[kind][id][f]

(* A lease runs at the time of the evaluation and was given to the job's executor. *)
SecretRisks(c, i) ==
    LET x == Item(c, "secrets", i)
        differs(fields) == Unexpected(c, "secrets", x, x.secret_id, fields)
    IN Fired([secret_coverage_mismatch |-> differs({"provider", "version", "purpose", "mount_path"}),
              secret_scope_excessive |-> differs({"scope"}) \/ x.scope = Wildcard,
              secret_lease_invalid |->
                  \/ x.issued_to_principal # c.policy.expected["job"].executor_principal
                  \/ c.request.at < x.issued_at_epoch - c.policy.skew \/ c.request.at > x.expires_at_epoch,
              secret_exposure_unsafe |-> x.exportable \/ x.injected_as_environment_variable])

CapabilityRisks(c, i) ==
    LET x == Item(c, "capabilities", i)
        known == x.capability_id \in DOMAIN c.policy.expected["capabilities"]
    IN Fired([capability_coverage_mismatch |-> ~known,
              capability_excessive |->
                  known /\ (\/ Unexpected(c, "capabilities", x, x.capability_id, {"resource", "actions"})
                            \/ x.resource = Wildcard \/ Wildcard \in Range(x.actions))])

ExecutionRisks(c) ==
    AdmissionRisks(c) \cup LaunchRisks(c) \cup RuntimeRisks(c)
    \cup UNION {SecretRisks(c, i) : i \in Ids(c, "secrets")}
    \cup UNION {CapabilityRisks(c, i) : i \in Ids(c, "capabilities")}
    \cup Fired([secret_coverage_mismatch |-> Listed(c, "secrets", "secret_id") # c.policy.secret_ids,
                capability_coverage_mismatch |->
                    Listed(c, "capabilities", "capability_id") # c.policy.capability_ids])

ExecutionClaims ==
    [upstream_p9c_bound |-> {"upstream_invalid", "upstream_binding_mismatch", "output_identity_mismatch"},
     job_identity_verified |-> {"job_identity_mismatch", "scheduler_identity_mismatch"},
     code_config_provenance_verified |->
         {"code_identity_mismatch", "code_integrity_mismatch", "config_mismatch", "dynamic_or_remote_code"},
     environment_policy_verified |->
         {"environment_identity_mismatch", "privileged_runtime", "network_policy_mismatch",
          "filesystem_policy_mismatch", "device_policy_mismatch", "env_allowlist_mismatch"},
     secret_least_privilege_verified |->
         {"secret_coverage_mismatch", "secret_scope_excessive", "secret_lease_invalid", "secret_exposure_unsafe"},
     capability_least_privilege_verified |-> {"capability_coverage_mismatch", "capability_excessive"}]

ExecutionFacts(c) == ClaimFacts(ExecutionClaims, ExecutionRisks(c))
ExecutionTruth(c, facts) ==
    [job_id |-> Job(c).job_id, commit_sha |-> Code(c).commit_sha, config_sha256 |-> Code(c).config_sha256,
     image_sha256 |-> Environment(c).image_sha256, secret_ids |-> Listed(c, "secrets", "secret_id"),
     capability_ids |-> Listed(c, "capabilities", "capability_id")]
    @@ ClaimsDeclared(facts)

ExecutionEvaluate(c) ==
    Outcome(c, ServingAsked(c), ExecutionPolicyValid(c) /\ ExecutionManifestValid(c) /\ ManifestBound(c),
            ExecutionFacts, LAMBDA facts : ExecutionTruth(c, facts))

-----------------------------------------------------------------------------
(* The evaluation's job, with a secret for the model it reads and one for the     *)
(* adapter it writes, and the capability for each.                                *)

TrainingJobIdentityEvidence ==
    [job_id |-> "job", scheduler |-> "scheduler", namespace |-> "training", queue |-> "gpu",
     service_account |-> "trainer", executor_principal |-> "executor", identity_token_audience |-> "control",
     attempt |-> 1, launch_nonce_sha256 |-> "nonce"]
TrainingCodeEvidence ==
    [repository_id |-> "repository", commit_sha |-> "commit", tree_sha |-> "tree", entrypoint |-> "entrypoint",
     entrypoint_sha256 |-> "entry", config_sha256 |-> "config", dependency_lock_sha256 |-> "lock",
     source_read_only |-> TRUE, remote_fetch_allowed |-> FALSE, dynamic_dependency_install |-> FALSE,
     custom_startup_script |-> FALSE]
TrainingRuntimeEnvironmentEvidence ==
    [image_ref |-> "image_ref", image_sha256 |-> "image", python_version |-> "3.12", framework_version |-> "4.57",
     accelerator_runtime |-> "cuda", device_profile |-> "a100", environment_variable_names |-> <<"job_id", "seed">>,
     network_egress |-> <<"store", "metrics">>, writable_paths |-> <<"checkpoints", "output">>, host_mounts |-> << >>,
     root_filesystem_read_only |-> TRUE, privileged |-> FALSE, host_network |-> FALSE,
     allow_privilege_escalation |-> FALSE, docker_socket_mounted |-> FALSE]
TrainingSecretLeaseEvidence(id, scope) ==
    [secret_id |-> id, provider |-> "broker", version |-> "v7", purpose |-> scope, scope |-> scope,
     mount_path |-> id, issued_to_principal |-> "executor", issued_at_epoch |-> -30, expires_at_epoch |-> 300,
     exportable |-> FALSE, injected_as_environment_variable |-> FALSE]
TrainingCapabilityEvidence(id, resource, actions) ==
    [capability_id |-> id, resource |-> resource, actions |-> actions]

TrainingAdmission ==
    [manifest_id |-> "admission", principal_id |-> "trainer", task_id |-> "task",
     planned_output_artifact_id |-> "adapter"]
ExecutionItems ==
    [route |-> [route |-> Restrict(TrainingAdmission, {"manifest_id", "planned_output_artifact_id"})],
     job |-> [job |-> TrainingJobIdentityEvidence], code |-> [code |-> TrainingCodeEvidence],
     environment |-> [environment |-> TrainingRuntimeEnvironmentEvidence],
     secrets |-> <<TrainingSecretLeaseEvidence("model_secret", "model_read"),
                   TrainingSecretLeaseEvidence("output_secret", "output_write")>>,
     capabilities |-> <<TrainingCapabilityEvidence("model_cap", "model", <<"read">>),
                        TrainingCapabilityEvidence("output_cap", "adapter", <<"create", "write">>)>>]
ExecutionRules ==
    [expected |-> [route |-> TrainingAdmission, job |-> TrainingJobIdentityEvidence, code |-> TrainingCodeEvidence,
                   environment |-> TrainingRuntimeEnvironmentEvidence,
                   secrets |-> [model_secret |-> ExecutionItems.secrets[1], output_secret |-> ExecutionItems.secrets[2]],
                   capabilities |-> [model_cap |-> ExecutionItems.capabilities[1],
                                     output_cap |-> ExecutionItems.capabilities[2]]],
     secret_ids |-> <<"model_secret", "output_secret">>, capability_ids |-> <<"model_cap", "output_cap">>,
     max_age |-> 300, skew |-> 5]
ExecutionCanonical == AllFields(ExecutionItems)
ExecutionBase ==
    Truthful(Context(ExecutionItems, {}, [p9c |-> [admission |-> TrainingAdmission]], {}, ExecutionRules,
                     ExecutionCanonical), ExecutionEvaluate)

SetTo(kind, id, fields, v) == {<<kind, id, f, v>> : f \in fields}

JobDriftEdits(c) ==
    FieldEdits(c, SetTo("route", "route", {"manifest_id", "planned_output_artifact_id"}, Other))
    \cup FieldEdits(c, SetTo("job", "job", DOMAIN TrainingJobIdentityEvidence \ {"attempt"}, Other))
    \cup FieldEdits(c, {<<"job", "job", "attempt", 0>>, <<"job", "job", "attempt", 2>>})
    \cup FieldEdits(c, SetTo("code", "code", {"repository_id", "commit_sha", "tree_sha", "entrypoint", "entrypoint_sha256",
                                              "config_sha256", "dependency_lock_sha256"}, Other))
    \cup FieldEdits(c, SetTo("code", "code", {"source_read_only"}, FALSE))
    \cup FieldEdits(c, SetTo("code", "code", {"remote_fetch_allowed", "dynamic_dependency_install",
                                              "custom_startup_script"}, TRUE))
    \cup FactEdits(c, SetTo("p9c", "admission", DOMAIN TrainingAdmission, Other))

RuntimeDriftEdits(c) ==
    LET env == Environment(c) IN
    FieldEdits(c, SetTo("environment", "environment", {"image_ref", "image_sha256", "python_version",
                        "framework_version", "accelerator_runtime", "device_profile"}, Other))
    \cup FieldEdits(c, SetTo("environment", "environment", {"privileged", "host_network", "allow_privilege_escalation",
                             "docker_socket_mounted"}, TRUE))
    \cup FieldEdits(c, SetTo("environment", "environment", {"root_filesystem_read_only"}, FALSE))
    \cup FieldEdits(c, SetTo("environment", "environment", {"host_mounts"}, <<Other>>))
    \cup UNION {FieldEdits(c, SetTo("environment", "environment", {f},
                           TrainingRuntimeEnvironmentEvidence[f] \o <<Other>>)
                    \cup SetTo("environment", "environment", {f}, Reverse(TrainingRuntimeEnvironmentEvidence[f]))
                    \cup SetTo("environment", "environment", {f}, <<Wildcard>>)) :
                f \in {"environment_variable_names", "network_egress", "writable_paths"}}

SecretDriftEdits(c) ==
    UNION {FieldEdits(c, SetTo("secrets", i, {"secret_id", "provider", "version", "purpose", "mount_path",
                                              "issued_to_principal"}, Other))
           \cup FieldEdits(c, SetTo("secrets", i, {"scope"}, Wildcard))
           \cup FieldEdits(c, {<<"secrets", i, "expires_at_epoch", 59>>, <<"secrets", i, "issued_at_epoch", 66>>,
                               <<"secrets", i, "issued_at_epoch", 301>>})
           \cup FieldEdits(c, SetTo("secrets", i, {"exportable", "injected_as_environment_variable"}, TRUE)) :
           i \in Ids(c, "secrets")}
CapabilityDriftEdits(c) ==
    UNION {FieldEdits(c, SetTo("capabilities", i, {"capability_id"}, Other) \cup SetTo("capabilities", i, {"resource"}, Wildcard))
           \cup FieldEdits(c, SetTo("capabilities", i, {"actions"}, <<"create", "write", "delete">>)
                              \cup SetTo("capabilities", i, {"actions"}, <<Wildcard>>)
                              \cup SetTo("capabilities", i, {"actions"}, << >>)) :
           i \in Ids(c, "capabilities")}

(* The policy itself would grant everything, or leaves an item out.               *)
ExecutionPolicyEdits(c) ==
    {[c EXCEPT !.policy.expected["job"].attempt = 0],
     [c EXCEPT !.policy.expected["environment"].network_egress = <<Wildcard>>],
     [c EXCEPT !.policy.expected["environment"].writable_paths = <<Wildcard>>],
     [c EXCEPT !.policy.secret_ids = Append(@, "model_secret")],
     [c EXCEPT !.policy.expected["secrets"] = Without(@, "model_secret")],
     [c EXCEPT !.policy.expected["capabilities"] = Without(@, "model_cap")]}
    \cup {[c EXCEPT !.policy.expected["secrets"][x].scope = Wildcard] :
             x \in DOMAIN c.policy.expected["secrets"]}
    \cup UNION {{[c EXCEPT !.policy.expected["capabilities"][x].resource = Wildcard],
                 [c EXCEPT !.policy.expected["capabilities"][x].actions = <<Wildcard>>]} :
                x \in DOMAIN c.policy.expected["capabilities"]}

ExecutionEdits(c) ==
    ServingEdits(c) \cup JobDriftEdits(c) \cup RuntimeDriftEdits(c) \cup SecretDriftEdits(c)
    \cup CapabilityDriftEdits(c) \cup RowEdits(c, {"secrets", "capabilities"})
    \cup TurnedRows(c, {"secrets", "capabilities"}) \cup ExecutionPolicyEdits(c)

-----------------------------------------------------------------------------
(* P9-E: the checkpoints of the run and what is done with the latest of them.     *)

(* The request and the manifest name one subject; that it is the policy's own     *)
(* only the pinned digest of the manifest says.                                   *)
EvidencePinned(c) ==
    /\ c.policy.sha = Digest(c)
    /\ c.request.at <= c.manifest.created + c.policy.max_age
    /\ c.request.at >= c.manifest.created - c.policy.skew
EvidenceAsked(c) == c.request.identity = c.manifest.identity /\ c.request.sha = Digest(c)

Authorization(c) == Item(c, "authorization", "authorization")

CheckpointPolicyValid(c) ==
    LET ids == c.policy.checkpoint_ids
        expected == c.policy.expected["checkpoints"]
    IN /\ ids # << >> /\ Distinct(ids) /\ DOMAIN expected = Range(ids)
       /\ \A x \in DOMAIN expected : expected[x].step \in 0..c.policy.max_step
       /\ c.policy.formats # {} /\ c.policy.actions # {}
       /\ c.policy.rollback_targets \subseteq Range(ids)
       /\ c.policy.max_step > 0 /\ c.policy.max_age >= 0 /\ c.policy.skew >= 0

CheckpointManifestValid(c) ==
    /\ Ids(c, "checkpoints") # {} /\ Distinct(Listed(c, "checkpoints", "checkpoint_id"))
    /\ \A i \in Ids(c, "checkpoints") :
           LET x == Item(c, "checkpoints", i) IN x.attempt > 0 /\ x.step >= 0 /\ x.epoch_milli >= 0
    /\ Authorization(c).issued_at_epoch <= Authorization(c).expires_at_epoch
    /\ Route(c).next_step >= 0

LineageRisks(c) ==
    LET subject == {"execution_id", "job_id"} IN
    UpstreamRisks(c, "p9d")
    \cup Fired([lineage_identity_mismatch |->
                    \E f \in subject : \/ Route(c)[f] # c.policy.expected["route"][f]
                                       \/ Fact(c, "p9d", "execution")[f] # c.policy.expected["route"][f],
                checkpoint_coverage_mismatch |->
                    Listed(c, "checkpoints", "checkpoint_id") # c.policy.checkpoint_ids])

CheckpointStates ==
    {"model_state_sha256", "optimizer_state_sha256", "rng_state_sha256", "data_cursor_sha256", "trainer_state_sha256"}

(* A checkpoint continues the one listed before it.                               *)
CheckpointRisksOf(c, i) ==
    LET x == Item(c, "checkpoints", i)
        before == IF i = 1 THEN None ELSE Item(c, "checkpoints", i - 1).checkpoint_id
        differs(fields) == Unexpected(c, "checkpoints", x, x.checkpoint_id, fields)
    IN Fired([checkpoint_job_scope_mismatch |->
                  x.execution_id # Route(c).execution_id \/ x.job_id # Route(c).job_id \/ x.attempt # 1,
              checkpoint_step_invalid |->
                  \/ differs({"step"}) \/ x.step > c.policy.max_step
                  \/ i > 1 /\ x.step <= Item(c, "checkpoints", IF i > 1 THEN i - 1 ELSE i).step,
              checkpoint_parent_mismatch |-> differs({"parent_checkpoint_id"}) \/ x.parent_checkpoint_id # before,
              checkpoint_state_mismatch |-> differs(CheckpointStates),
              checkpoint_artifact_mismatch |-> differs({"artifact_sha256"}),
              checkpoint_format_unsafe |-> x.serialization_format \notin c.policy.formats,
              checkpoint_mutability_unsafe |-> ~x.immutable,
              checkpoint_external_reference_unsafe |-> x.external_reference \/ x.custom_deserializer])

(* The checkpoint an operation names: the listed one, or none.                    *)
NamedCheckpoint(c, id) ==
    {Item(c, "checkpoints", i) : i \in {i \in Ids(c, "checkpoints") : Item(c, "checkpoints", i).checkpoint_id = id}}

AuthorizationRisks(c) ==
    LET auth == Authorization(c) IN
    Fired([rollback_authorization_invalid |->
               \/ auth.principal_id # c.policy.expected["route"].principal_id
               \/ auth.p9d_assessment_sha256 # c.manifest.pins["p9d"]
               \/ \E f \in {"action", "source_checkpoint_id", "target_checkpoint_id"} : auth[f] # Route(c)[f]
               \/ Route(c).action = "rollback" /\ auth.reason_code # "approved_rollback",
           authorization_expired |->
               c.request.at < auth.issued_at_epoch - c.policy.skew \/ c.request.at > auth.expires_at_epoch])

(* Resuming goes on from the source, rolling back from an allowed earlier target, *)
(* and saving makes a checkpoint that is not listed yet.                          *)
OperationRisks(c) ==
    LET route == Route(c)
        source == NamedCheckpoint(c, route.source_checkpoint_id)
        target == NamedCheckpoint(c, route.target_checkpoint_id)
        goesOnFrom(named) == \E x \in named : route.next_step = x.step + 1
    IN AuthorizationRisks(c)
       \cup Fired([action_unauthorized |-> route.action \notin c.policy.actions,
                   action_source_mismatch |->
                       \/ NamedCheckpoint(c, route.active_checkpoint_id) = {}
                       \/ source = {} \/ route.source_checkpoint_id # route.active_checkpoint_id,
                   action_target_mismatch |->
                       CASE route.action = "resume" -> target = {} \/ target # source
                         [] route.action = "rollback" -> ~ \E x \in source, y \in target : y.step < x.step
                         [] route.action = "save" -> target # {},
                   next_step_invalid |->
                       CASE route.action = "resume" -> ~goesOnFrom(source)
                         [] route.action = "rollback" -> ~goesOnFrom(target)
                         [] route.action = "save" -> ~ \E x \in source : route.next_step > x.step,
                   rollback_target_unauthorized |->
                       route.action = "rollback"
                       /\ (target = {} \/ route.target_checkpoint_id \notin c.policy.rollback_targets)])

CheckpointRisks(c) ==
    LineageRisks(c) \cup UNION {CheckpointRisksOf(c, i) : i \in Ids(c, "checkpoints")} \cup OperationRisks(c)

CheckpointClaims ==
    [upstream_p9d_bound |-> {"upstream_invalid", "upstream_binding_mismatch", "lineage_identity_mismatch"},
     checkpoint_lineage_verified |->
         {"checkpoint_coverage_mismatch", "checkpoint_job_scope_mismatch", "checkpoint_step_invalid",
          "checkpoint_parent_mismatch"},
     checkpoint_state_integrity_verified |->
         {"checkpoint_state_mismatch", "checkpoint_artifact_mismatch", "checkpoint_format_unsafe",
          "checkpoint_mutability_unsafe", "checkpoint_external_reference_unsafe"},
     operation_authorization_verified |->
         {"action_unauthorized", "action_source_mismatch", "action_target_mismatch", "next_step_invalid",
          "rollback_authorization_invalid", "rollback_target_unauthorized", "authorization_expired"}]

CheckpointFacts(c) == ClaimFacts(CheckpointClaims, CheckpointRisks(c))
OperationFields == {"active_checkpoint_id", "action", "source_checkpoint_id", "target_checkpoint_id", "next_step"}
CheckpointTruth(c, facts) ==
    [checkpoint_ids |-> Listed(c, "checkpoints", "checkpoint_id"), operation |-> Restrict(Route(c), OperationFields)]
    @@ ClaimsDeclared(facts)

CheckpointEvaluate(c) ==
    Outcome(c, EvidenceAsked(c), CheckpointPolicyValid(c) /\ CheckpointManifestValid(c) /\ EvidencePinned(c),
            CheckpointFacts, LAMBDA facts : CheckpointTruth(c, facts))

-----------------------------------------------------------------------------
(* The evaluation's lineage of three checkpoints, resumed from the last.          *)

TrainingCheckpointEvidence(id, step, parent) ==
    [checkpoint_id |-> id, execution_id |-> "execution", job_id |-> "job", attempt |-> 1, step |-> step,
     epoch_milli |-> step * 3, parent_checkpoint_id |-> parent, model_state_sha256 |-> id,
     optimizer_state_sha256 |-> id, rng_state_sha256 |-> id, data_cursor_sha256 |-> id,
     trainer_state_sha256 |-> id, artifact_sha256 |-> id, serialization_format |-> "safetensors",
     immutable |-> TRUE, external_reference |-> FALSE, custom_deserializer |-> FALSE]
CheckpointOperationAuthorization ==
    [principal_id |-> "trainer", p9d_assessment_sha256 |-> "p9d", action |-> "resume",
     source_checkpoint_id |-> "c800", target_checkpoint_id |-> "c800", issued_at_epoch |-> -30,
     expires_at_epoch |-> 300, reason_code |-> "preempted"]
RunExecution == [execution_id |-> "execution", job_id |-> "job"]
Checkpoints ==
    <<TrainingCheckpointEvidence("c0", 0, None), TrainingCheckpointEvidence("c400", 400, "c0"),
      TrainingCheckpointEvidence("c800", 800, "c400")>>
CheckpointItems ==
    [route |-> [route |-> RunExecution @@ [active_checkpoint_id |-> "c800", action |-> "resume",
                    source_checkpoint_id |-> "c800", target_checkpoint_id |-> "c800", next_step |-> 801]],
     checkpoints |-> Checkpoints, authorization |-> [authorization |-> CheckpointOperationAuthorization]]
CheckpointRules ==
    [expected |-> [route |-> RunExecution @@ [principal_id |-> "trainer"],
                   checkpoints |-> [c0 |-> Checkpoints[1], c400 |-> Checkpoints[2], c800 |-> Checkpoints[3]]],
     checkpoint_ids |-> <<"c0", "c400", "c800">>, formats |-> {"safetensors"},
     actions |-> {"save", "resume", "rollback"}, rollback_targets |-> {"c400"}, max_step |-> 2000,
     max_age |-> 300, skew |-> 5]
CheckpointCanonical == AllFields(CheckpointItems)
CheckpointBase ==
    Truthful(Context(CheckpointItems, {}, [p9d |-> [execution |-> RunExecution]], {}, CheckpointRules,
                     CheckpointCanonical), CheckpointEvaluate)

LineageDriftEdits(c) ==
    UNION {FieldEdits(c, SetTo("checkpoints", i, CheckpointStates \cup {"checkpoint_id", "execution_id", "job_id",
                               "parent_checkpoint_id", "artifact_sha256", "serialization_format"}, Other))
           \cup FieldEdits(c, {<<"checkpoints", i, "attempt", 2>>, <<"checkpoints", i, "step", 401>>,
                               <<"checkpoints", i, "step", 2001>>, <<"checkpoints", i, "step", -1>>})
           \cup FieldEdits(c, SetTo("checkpoints", i, {"external_reference", "custom_deserializer"}, TRUE))
           \cup FieldEdits(c, SetTo("checkpoints", i, {"immutable"}, FALSE)) : i \in Ids(c, "checkpoints")}
    \cup FieldEdits(c, SetTo("route", "route", DOMAIN RunExecution, Other))
    \cup FactEdits(c, SetTo("p9d", "execution", DOMAIN RunExecution, Other))

OperationDriftEdits(c) ==
    FieldEdits(c, SetTo("route", "route", {"active_checkpoint_id", "source_checkpoint_id", "target_checkpoint_id"}, "c400"))
    \cup FieldEdits(c, {<<"route", "route", "next_step", 900>>, <<"authorization", "authorization", "expires_at_epoch", 59>>,
                        <<"authorization", "authorization", "issued_at_epoch", 100>>})
    \cup FieldEdits(c, SetTo("authorization", "authorization", {"source_checkpoint_id", "target_checkpoint_id"}, "c400"))
    \cup FieldEdits(c, SetTo("authorization", "authorization", {"principal_id", "p9d_assessment_sha256"}, Other))
    \cup FieldEdits(c, {<<"authorization", "authorization", "action", "rollback">>})

(* A rollback that is authorized, except for where it goes, how it goes on from   *)
(* there or why.                                                                  *)
RollbackEdits(c) ==
    LET rolledBack(target, step, reason) ==
            [c EXCEPT !.manifest.items["route"]["route"] =
                          [action |-> "rollback", target_checkpoint_id |-> target, next_step |-> step] @@ @,
                      !.manifest.items["authorization"]["authorization"] =
                          [action |-> "rollback", target_checkpoint_id |-> target, reason_code |-> reason] @@ @]
    IN {rolledBack("c0", 1, "approved_rollback"), rolledBack("c800", 801, "approved_rollback"),
        rolledBack("c400", 402, "approved_rollback"), rolledBack("c400", 401, "preempted")}

CheckpointPolicyEdits(c) ==
    {[c EXCEPT !.policy.checkpoint_ids = << >>], [c EXCEPT !.policy.formats = {}], [c EXCEPT !.policy.actions = {}],
     [c EXCEPT !.policy.actions = {"save"}], [c EXCEPT !.policy.rollback_targets = {Other}],
     [c EXCEPT !.policy.max_step = 700], [c EXCEPT !.policy.expected["checkpoints"] = Without(@, "c400")]}

SubjectEdits(c) == {d \in ServingEdits(c) : d.manifest.identity = c.manifest.identity}

CheckpointEdits(c) ==
    SubjectEdits(c) \cup LineageDriftEdits(c) \cup OperationDriftEdits(c) \cup RollbackEdits(c)
    \cup RowEdits(c, {"checkpoints"}) \cup TurnedRows(c, {"checkpoints"}) \cup CheckpointPolicyEdits(c)

-----------------------------------------------------------------------------
(* P9-F: the benchmark a result is claimed on. The records of the benchmark are   *)
(* a sequence, what the training saw are sets; a URI is a prefix and a path.      *)

Benchmark(c) == Item(c, "benchmark", "benchmark")
Protocol(c) == Item(c, "protocol", "protocol")
Result(c) == Item(c, "result", "result")

BenchmarkPolicyValid(c) ==
    LET protocol == c.policy.expected["protocol"]
        ids == c.policy.record_ids
    IN /\ ids # << >> /\ Distinct(ids) /\ DOMAIN c.policy.expected["records"] = Range(ids)
       /\ protocol.metric_ids # << >> /\ Distinct(protocol.metric_ids)
       /\ Distinct(protocol.fewshot_example_ids)
       /\ protocol.sample_limit = Len(ids)
       /\ protocol.temperature_milli >= 0 /\ protocol.max_output_tokens > 0
       /\ c.policy.expected["result"].score_basis_points \in 0..10000
       /\ c.policy.expected["result"].evaluated_record_ids = ids
       /\ c.policy.max_age >= 0 /\ c.policy.skew >= 0

BenchmarkManifestValid(c) ==
    LET protocol == Protocol(c) IN
    /\ Ids(c, "records") # {} /\ Distinct(Listed(c, "records", "record_id"))
    /\ protocol.metric_ids # << >> /\ Distinct(protocol.metric_ids)
    /\ Distinct(protocol.fewshot_example_ids)
    /\ protocol.sample_limit > 0 /\ protocol.temperature_milli >= 0 /\ protocol.max_output_tokens > 0
    /\ protocol.network_operations >= 0
    /\ Result(c).score_basis_points \in 0..10000 /\ Distinct(Result(c).evaluated_record_ids)

ExposureFields ==
    {"training_record_ids", "training_canonical_fingerprint_sha256s", "training_transform_fingerprint_sha256s"}
TrainingExposureDigest(c) == Restrict(Route(c), ExposureFields) @@ [p9e |-> c.manifest.pins["p9e"]]

SourceFields == {"benchmark_id", "benchmark_version", "split", "owner", "uri", "immutable_revision"}
BenchmarkSnapshotDigest(c) == Restrict(Benchmark(c), SourceFields) @@ [records |-> c.manifest.items["records"]]

BenchmarkSourceRisks(c) ==
    LET expected == c.policy.expected["benchmark"]
        checkpoint == {"checkpoint_lineage_id", "checkpoint_id"}
    IN UpstreamRisks(c, "p9e")
       \cup Fired([checkpoint_identity_mismatch |->
                       \E f \in checkpoint : \/ Route(c)[f] # c.policy.expected["route"][f]
                                             \/ Fact(c, "p9e", "checkpoint")[f] # c.policy.expected["route"][f],
                   training_exposure_binding_mismatch |->
                       \/ Route(c).training_exposure_sha256 # TrainingExposureDigest(c)
                       \/ Differs(c, "route", ExposureFields \cup {"training_exposure_sha256"}),
                   benchmark_identity_mismatch |-> Differs(c, "benchmark", {"benchmark_id", "benchmark_version", "split"}),
                   benchmark_source_mismatch |-> \/ Differs(c, "benchmark", {"owner", "immutable_revision"})
                                                 \/ Benchmark(c).uri[1] # expected.uri[1],
                   benchmark_snapshot_mismatch |->
                       \/ Benchmark(c).snapshot_sha256 # BenchmarkSnapshotDigest(c)
                       \/ Benchmark(c).snapshot_sha256 # expected.snapshot_sha256,
                   eval_record_coverage_mismatch |-> Listed(c, "records", "record_id") # c.policy.record_ids,
                   hidden_label_exposure |-> Benchmark(c).labels_exposed_to_training,
                   dynamic_or_external_data |-> Benchmark(c).dynamic_generation \/ Benchmark(c).external_fetch])

RecordDigests == {"payload_sha256", "label_sha256", "canonical_fingerprint_sha256", "transform_fingerprint_sha256"}

(* A record that the training has seen, under its own id, its fingerprint or that *)
(* of a transformation.                                                           *)
RecordRisks(c, i) ==
    LET x == Item(c, "records", i) IN
    Fired([eval_record_digest_mismatch |-> Unexpected(c, "records", x, x.record_id, RecordDigests),
           record_id_overlap |-> x.record_id \in Route(c).training_record_ids,
           canonical_fingerprint_overlap |->
               x.canonical_fingerprint_sha256 \in Route(c).training_canonical_fingerprint_sha256s,
           transform_fingerprint_overlap |->
               x.transform_fingerprint_sha256 \in Route(c).training_transform_fingerprint_sha256s,
           training_derivation_leak |-> x.derived_from_training_record_id # None])

ProtocolRisks(c) ==
    LET protocol == Protocol(c)
        ids == Listed(c, "records", "record_id")
    IN Fired([scoring_code_mismatch |-> Differs(c, "protocol", {"scoring_code_sha256"}),
              prompt_template_mismatch |-> Differs(c, "protocol", {"prompt_template_sha256"}),
              metric_mismatch |-> Differs(c, "protocol", {"metric_ids"}),
              fewshot_config_mismatch |->
                  \/ Differs(c, "protocol", {"fewshot_example_ids", "fewshot_examples_sha256"})
                  \/ Range(protocol.fewshot_example_ids) \cap Range(ids) # {},
              shuffle_seed_mismatch |-> Differs(c, "protocol", {"shuffle_seed"}),
              sample_count_mismatch |-> Differs(c, "protocol", {"sample_limit"}) \/ protocol.sample_limit # Len(ids),
              inference_config_mismatch |-> Differs(c, "protocol", {"temperature_milli", "max_output_tokens"}),
              network_operation_unexpected |-> protocol.network_operations # 0,
              result_evidence_mismatch |->
                  \/ Differs(c, "result", DOMAIN Result(c))
                  \/ Result(c).checkpoint_id # Route(c).checkpoint_id
                  \/ Result(c).evaluated_record_ids # ids])

BenchmarkRisks(c) ==
    BenchmarkSourceRisks(c) \cup UNION {RecordRisks(c, i) : i \in Ids(c, "records")} \cup ProtocolRisks(c)

BenchmarkClaims ==
    [upstream_p9e_bound |-> {"upstream_invalid", "upstream_binding_mismatch", "checkpoint_identity_mismatch"},
     benchmark_provenance_verified |->
         {"benchmark_identity_mismatch", "benchmark_source_mismatch", "benchmark_snapshot_mismatch",
          "eval_record_coverage_mismatch", "eval_record_digest_mismatch"},
     contamination_checks_clear |->
         {"training_exposure_binding_mismatch", "record_id_overlap", "canonical_fingerprint_overlap",
          "transform_fingerprint_overlap", "training_derivation_leak", "hidden_label_exposure",
          "dynamic_or_external_data"},
     protocol_verified |->
         {"scoring_code_mismatch", "prompt_template_mismatch", "metric_mismatch", "fewshot_config_mismatch",
          "shuffle_seed_mismatch", "sample_count_mismatch", "inference_config_mismatch",
          "network_operation_unexpected"},
     result_evidence_bound |-> {"result_evidence_mismatch"}]

(* The caller declares every claim but the one about the result, which the whole  *)
(* contains.                                                                      *)
BenchmarkFacts(c) == ClaimFacts(BenchmarkClaims, BenchmarkRisks(c))
BenchmarkTruth(c, facts) ==
    [checkpoint_id |-> Route(c).checkpoint_id,
     benchmark |-> Restrict(Benchmark(c), {"benchmark_id", "benchmark_version", "split"}),
     evaluated_record_ids |-> Result(c).evaluated_record_ids, score_basis_points |-> Result(c).score_basis_points]
    @@ Without(ClaimsDeclared(facts), "result_evidence_bound")

BenchmarkEvaluate(c) ==
    Outcome(c, EvidenceAsked(c), BenchmarkPolicyValid(c) /\ BenchmarkManifestValid(c) /\ EvidencePinned(c),
            BenchmarkFacts, LAMBDA facts : BenchmarkTruth(c, facts))

-----------------------------------------------------------------------------
(* The evaluation's benchmark of three records, scored for one checkpoint.        *)

BenchmarkRecordEvidence(id) ==
    [record_id |-> id, payload_sha256 |-> id, label_sha256 |-> id, canonical_fingerprint_sha256 |-> id,
     transform_fingerprint_sha256 |-> id, derived_from_training_record_id |-> None]
BenchmarkRecords == <<BenchmarkRecordEvidence("e1"), BenchmarkRecordEvidence("e2"), BenchmarkRecordEvidence("e3")>>
BenchmarkSourceEvidence ==
    LET source == [benchmark_id |-> "benchmark", benchmark_version |-> "v1", split |-> "heldout", owner |-> "curation",
                   uri |-> <<"benchmarks", "security">>, immutable_revision |-> "r1"]
    IN source @@ [snapshot_sha256 |-> source @@ [records |-> BenchmarkRecords], labels_exposed_to_training |-> FALSE,
                  dynamic_generation |-> FALSE, external_fetch |-> FALSE]
EvaluationProtocolEvidence ==
    [scoring_code_sha256 |-> "scoring", prompt_template_sha256 |-> "prompt", metric_ids |-> <<"accuracy", "violations">>,
     fewshot_example_ids |-> <<"fewshot">>, fewshot_examples_sha256 |-> "fewshot", shuffle_seed |-> 29,
     sample_limit |-> 3, temperature_milli |-> 0, max_output_tokens |-> 64, network_operations |-> 0]
EvaluationResultEvidence ==
    [result_id |-> "result", checkpoint_id |-> "checkpoint", evaluated_record_ids |-> <<"e1", "e2", "e3">>,
     output_records_sha256 |-> "outputs", score_basis_points |-> 8333]

BenchmarkExposure ==
    LET seen == [training_record_ids |-> {"t1", "t2"}, training_canonical_fingerprint_sha256s |-> {"t1", "t2"},
                 training_transform_fingerprint_sha256s |-> {"t1", "t2"}]
    IN seen @@ [training_exposure_sha256 |-> seen @@ [p9e |-> "p9e"]]
EvaluatedCheckpoint == [checkpoint_lineage_id |-> "lineage", checkpoint_id |-> "checkpoint"]

BenchmarkItems ==
    [route |-> [route |-> EvaluatedCheckpoint @@ BenchmarkExposure],
     benchmark |-> [benchmark |-> BenchmarkSourceEvidence], records |-> BenchmarkRecords,
     protocol |-> [protocol |-> EvaluationProtocolEvidence], result |-> [result |-> EvaluationResultEvidence]]
BenchmarkRules ==
    [expected |-> [route |-> BenchmarkItems.route.route, benchmark |-> BenchmarkSourceEvidence,
                   records |-> [e1 |-> BenchmarkRecords[1], e2 |-> BenchmarkRecords[2], e3 |-> BenchmarkRecords[3]],
                   protocol |-> EvaluationProtocolEvidence, result |-> EvaluationResultEvidence],
     record_ids |-> <<"e1", "e2", "e3">>, max_age |-> 300, skew |-> 5]
BenchmarkCanonical == AllFields(BenchmarkItems)
BenchmarkBase ==
    Truthful(Context(BenchmarkItems, {}, [p9e |-> [checkpoint |-> EvaluatedCheckpoint]], {}, BenchmarkRules,
                     BenchmarkCanonical), BenchmarkEvaluate)

(* The snapshot digest follows a change of what it covers, or is left behind.     *)
Resnapped(c) == SetField(c, "benchmark", "benchmark", "snapshot_sha256", BenchmarkSnapshotDigest(c))
SourceDriftEdits(c) ==
    LET drifted == FieldEdits(c, SetTo("benchmark", "benchmark", SourceFields \ {"uri"}, Other))
                   \cup FieldEdits(c, SetTo("benchmark", "benchmark", {"uri"}, <<"elsewhere", "security">>)
                                      \cup SetTo("benchmark", "benchmark", {"uri"}, <<"benchmarks", Other>>))
                   \cup RowEdits(c, {"records"}) \cup TurnedRows(c, {"records"})
                   \cup UNION {FieldEdits(c, SetTo("records", i, RecordDigests \cup {"record_id"}, Other)
                                             \cup SetTo("records", i, RecordDigests \cup {"record_id",
                                                        "derived_from_training_record_id"}, "t1")) : i \in Ids(c, "records")}
    IN drifted \cup {Resnapped(d) : d \in drifted}
       \cup FieldEdits(c, SetTo("benchmark", "benchmark", {"snapshot_sha256"}, Unseen))
       \cup FieldEdits(c, SetTo("benchmark", "benchmark", {"labels_exposed_to_training", "dynamic_generation",
                                "external_fetch"}, TRUE))

(* What the training saw is understated, with the digest of it or without.        *)
Reexposed(c) == SetField(c, "route", "route", "training_exposure_sha256", TrainingExposureDigest(c))
ExposureDriftEdits(c) ==
    LET drifted == FieldEdits(c, SetTo("route", "route", ExposureFields, {"t1"})
                                 \cup SetTo("route", "route", ExposureFields, {"t1", "t2", "e1"}))
    IN drifted \cup {Reexposed(d) : d \in drifted}
       \cup FieldEdits(c, SetTo("route", "route", {"training_exposure_sha256"}, Unseen))
       \cup FieldEdits(c, SetTo("route", "route", DOMAIN EvaluatedCheckpoint, Other))
       \cup FactEdits(c, SetTo("p9e", "checkpoint", DOMAIN EvaluatedCheckpoint, Other))

ProtocolDriftEdits(c) ==
    FieldEdits(c, SetTo("protocol", "protocol", {"scoring_code_sha256", "prompt_template_sha256",
                                                 "fewshot_examples_sha256"}, Other))
    \cup FieldEdits(c, SetTo("protocol", "protocol", {"metric_ids"}, <<"accuracy">>)
                       \cup SetTo("protocol", "protocol", {"metric_ids"}, <<"violations", "accuracy">>)
                       \cup SetTo("protocol", "protocol", {"fewshot_example_ids"}, <<Other>>)
                       \cup SetTo("protocol", "protocol", {"fewshot_example_ids"}, <<"e1">>))
    \cup FieldEdits(c, {<<"protocol", "protocol", "shuffle_seed", 30>>, <<"protocol", "protocol", "sample_limit", 2>>,
                        <<"protocol", "protocol", "sample_limit", 4>>, <<"protocol", "protocol", "temperature_milli", 700>>,
                        <<"protocol", "protocol", "max_output_tokens", 1024>>,
                        <<"protocol", "protocol", "network_operations", 1>>,
                        <<"result", "result", "score_basis_points", 9999>>,
                        <<"result", "result", "score_basis_points", 10001>>})
    \cup FieldEdits(c, SetTo("result", "result", {"result_id", "checkpoint_id", "output_records_sha256"}, Other))
    \cup FieldEdits(c, SetTo("result", "result", {"evaluated_record_ids"}, <<"e1", "e2">>)
                       \cup SetTo("result", "result", {"evaluated_record_ids"}, <<"e3", "e2", "e1">>))

BenchmarkPolicyEdits(c) ==
    {[c EXCEPT !.policy.record_ids = << >>], [c EXCEPT !.policy.record_ids = Append(@, "e1")],
     [c EXCEPT !.policy.expected["records"] = Without(@, "e1")],
     [c EXCEPT !.policy.expected["protocol"].metric_ids = << >>],
     [c EXCEPT !.policy.expected["protocol"].sample_limit = 2],
     [c EXCEPT !.policy.expected["protocol"].max_output_tokens = 0],
     [c EXCEPT !.policy.expected["result"].evaluated_record_ids = <<"e1">>],
     [c EXCEPT !.policy.expected["result"].score_basis_points = 10001]}

BenchmarkEdits(c) ==
    SubjectEdits(c) \cup SourceDriftEdits(c) \cup ExposureDriftEdits(c) \cup ProtocolDriftEdits(c)
    \cup BenchmarkPolicyEdits(c)
=============================================================================
