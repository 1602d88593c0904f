------------------------------ MODULE AgentReview ------------------------------
(* What stands between an agent's step and its effect: the people who approve it,  *)
(* aegis/agentic/human_approval_security.py (P8-F), and the tool result it later   *)
(* takes for a fact, aegis/agentic/tool_observation_security.py (P8-D).            *)
EXTENDS Assessment

Now == 60

UpstreamsValid(c) == UpstreamsBound(c) /\ UpstreamsUntrusting(c)

-----------------------------------------------------------------------------
(* P8-F: human approval                                                            *)

RuleProfile ==
    {"action_class", "risk", "maximum_autonomy", "requires_human", "required_reviewer_roles",
     "minimum_approver_count", "requires_independent_approvers", "allow_edit", "max_approval_age_seconds"}
ActionBinding ==
    {"run_id", "goal_id", "step_id", "delegation_id", "original_principal_id", "tenant_id", "actor_agent_id",
     "action_class", "requested_autonomy", "requester_identity_id", "irreversible"}

ApprovalPolicyValid(c) ==
    /\ c.policy.owners # {} /\ c.policy.max_age > 0 /\ c.policy.skew >= 0
    /\ DOMAIN c.policy.roles = DOMAIN c.policy.groups

(* The named fields of an item are pinned, or the item is not known to the policy. *)
Pinned(c, kind, fields) ==
    /\ Ids(c, kind) \subseteq DOMAIN c.policy.expected[kind]
    /\ ProfilesExpected(c, kind, fields)

ApprovalManifestValid(c) ==
    /\ ManifestBound(c) /\ ManifestCovers(c) /\ OwnersTrusted(c, {"actions", "approvals"})
    /\ Pinned(c, "rules", RuleProfile) /\ Pinned(c, "actions", ActionBinding)
    /\ \A r \in Ids(c, "rules") :
           LET rule == Item(c, "rules", r) IN
           /\ rule.minimum_approver_count >= 0 /\ rule.max_approval_age_seconds > 0
           /\ rule.required_reviewer_roles # {}
    /\ \A a \in Ids(c, "actions") :
           LET action == Item(c, "actions", a) IN
           /\ None \notin {action.args_sha256, action.plan_sha256}
           /\ \E r \in Ids(c, "rules") : Item(c, "rules", r).action_class = action.action_class
    /\ \A p \in Ids(c, "approvals") :
           LET approval == Item(c, "approvals", p) IN
           /\ Known(c, "actions", approval.action_id)
           /\ None \notin {approval.bound_args_sha256, approval.bound_plan_sha256, approval.approval_nonce}

AutonomyOrder == [supervised |-> 0, bounded |-> 1, conditional |-> 2, unsupervised |-> 3]

(* The rule of an action's class; no two rules of the fixture share one.           *)
RuleOf(c, action) ==
    Item(c, "rules", CHOOSE r \in Ids(c, "rules") : Item(c, "rules", r).action_class = action.action_class)
ApprovalsOf(c, a) == {p \in Ids(c, "approvals") : Item(c, "approvals", p).action_id = a}

SafeState(fact) == fact.decision \in {"allow", "allowed", "safe", "holds"}

(* What is wrong with one approval of an action.                                   *)
ApprovalRecordRisks(c, a, p) ==
    LET action == Item(c, "actions", a)
        approval == Item(c, "approvals", p)
        rule == RuleOf(c, action)
        reviewer == approval.reviewer_identity_id
        edits == approval.decision = "edit"
    IN Fired([
        approver_unauthorized |->
            \/ reviewer \notin DOMAIN c.policy.roles
            \/ approval.reviewer_role \notin c.policy.roles[reviewer] \cap rule.required_reviewer_roles
            \/ approval.reviewer_group_id # c.policy.groups[reviewer],
        self_approval |->
            reviewer \in {action.requester_identity_id, action.actor_agent_id, action.original_principal_id},
        action_binding_mismatch |-> approval.bound_args_sha256 # action.args_sha256,
        plan_binding_mismatch |-> approval.bound_plan_sha256 # action.plan_sha256,
        approval_future |-> approval.issued_at_epoch > c.request.at + c.policy.skew,
        approval_expired |->
            \/ approval.expires_at_epoch < c.request.at
            \/ c.request.at - approval.issued_at_epoch > rule.max_approval_age_seconds
            \/ approval.expires_at_epoch < approval.issued_at_epoch,
        approval_replay |->
            \E q \in Ids(c, "approvals") \ {p} : Item(c, "approvals", q).approval_nonce = approval.approval_nonce,
        approval_rejected |-> approval.decision = "reject",
        edit_not_allowed |-> edits /\ ~rule.allow_edit,
        edit_binding_mismatch |->
            IF edits THEN approval.edited_args_sha256 \in {None, action.args_sha256}
            ELSE approval.edited_args_sha256 # None])

(* An approval without risks counts, whether it approves the arguments or edits    *)
(* them.                                                                           *)
ValidApprovals(c, a) == {p \in ApprovalsOf(c, a) : ApprovalRecordRisks(c, a, p) = {}}

ApproverRisks(c, a) ==
    LET rule == RuleOf(c, Item(c, "actions", a))
        valid == ValidApprovals(c, a)
        Fewer(f) == Cardinality({Item(c, "approvals", p)[f] : p \in valid}) < rule.minimum_approver_count
    IN Fired([
        required_approval_missing |-> rule.requires_human /\ ApprovalsOf(c, a) = {},
        insufficient_approver_count |->
            rule.requires_human /\ Cardinality(valid) < rule.minimum_approver_count,
        approver_separation_violation |->
            /\ rule.requires_independent_approvers /\ rule.minimum_approver_count > 1
            /\ Cardinality(valid) >= rule.minimum_approver_count
            /\ Fewer("reviewer_group_id") \/ Fewer("reviewer_identity_id")])

ActionRisks(c, a) ==
    LET action == Item(c, "actions", a)
        rule == RuleOf(c, action)
        known == HasFact(c, "p8c", action.step_id)
        planned == known /\ SafeState(Fact(c, "p8c", action.step_id))
    IN Fired([
        autonomy_level_exceeded |->
            AutonomyOrder[action.requested_autonomy] > AutonomyOrder[rule.maximum_autonomy],
        human_stop_bypass |-> action.irreversible /\ ~rule.requires_human,
        upstream_plan_unsafe |-> ~planned,
        goal_step_mismatch |-> planned /\ Fact(c, "p8c", action.step_id).goal_id # action.goal_id,
        upstream_budget_unsafe |->
            ~HasFact(c, "p8e", action.run_id) \/ ~SafeState(Fact(c, "p8e", action.run_id)),
        upstream_observation_unsafe |->
            \E o \in DOMAIN c.up["p8d"].facts :
                Fact(c, "p8d", o).step_id = action.step_id /\ ~SafeState(Fact(c, "p8d", o))])

ApprovalFacts(c) ==
    [a \in Ids(c, "actions") |->
        ActionRisks(c, a) \cup ApproverRisks(c, a)
        \cup UNION {ApprovalRecordRisks(c, a, p) : p \in ApprovalsOf(c, a)}]

(* An action waits when nothing but an approval is missing; only otherwise is it   *)
(* denied, and the caller declares the two apart.                                  *)
ApprovalTruth(facts) ==
    LET paused == {a \in Denied(facts) :
                       facts[a] \subseteq {"required_approval_missing", "insufficient_approver_count"}}
    IN [paused |-> paused, denied |-> Denied(facts) \ paused, risks |-> facts]

ApprovalEvaluate(c) ==
    Outcome(c, RequestBound(c, {"actions"}),
            ApprovalPolicyValid(c) /\ UpstreamsValid(c) /\ ApprovalManifestValid(c),
            ApprovalFacts, ApprovalTruth)

-----------------------------------------------------------------------------
(* The evaluation's fixture, with three of its five actions.                      *)

HumanApprovalRule(class, risk, autonomy, roles, count, independent, edit, age) ==
    [action_class |-> class, risk |-> risk, maximum_autonomy |-> autonomy, requires_human |-> count > 0,
     required_reviewer_roles |-> roles, minimum_approver_count |-> count,
     requires_independent_approvers |-> independent, allow_edit |-> edit, max_approval_age_seconds |-> age]
PendingHumanAction(name, principal, tenant, autonomy, irreversible) ==
    [run_id |-> name, goal_id |-> name, step_id |-> name, delegation_id |-> name,
     original_principal_id |-> principal, tenant_id |-> tenant, actor_agent_id |-> name,
     action_class |-> name, args_sha256 |-> name, plan_sha256 |-> name, requested_autonomy |-> autonomy,
     requester_identity_id |-> principal, irreversible |-> irreversible, owner_id |-> "owner"]
HumanApprovalRecord(action, reviewer, age, expires) ==
    [action_id |-> action, reviewer_identity_id |-> reviewer, reviewer_role |-> reviewer,
     reviewer_group_id |-> reviewer, decision |-> "approve", bound_args_sha256 |-> action,
     bound_plan_sha256 |-> action, edited_args_sha256 |-> None, approval_nonce |-> reviewer,
     issued_at_epoch |-> Now - age, expires_at_epoch |-> Now + expires, owner_id |-> "owner"]

ApprovalItems ==
    [rules |-> [search |-> HumanApprovalRule("search", "low", "unsupervised", {"observer"}, 0, FALSE, FALSE, 600),
                ticket |-> HumanApprovalRule("ticket", "sensitive", "conditional", {"ops"}, 1, FALSE, TRUE, 600),
                release |-> HumanApprovalRule("release", "irreversible", "supervised",
                                              {"releaser", "security"}, 2, TRUE, FALSE, 300)],
     actions |-> [search |-> PendingHumanAction("search", "user-a", "tenant-A", "unsupervised", FALSE),
                  ticket |-> PendingHumanAction("ticket", "user-a", "tenant-A", "conditional", FALSE),
                  release |-> PendingHumanAction("release", "admin", "platform", "supervised", TRUE)],
     approvals |-> [ticket |-> HumanApprovalRecord("ticket", "ops", 30, 300),
                    operations |-> HumanApprovalRecord("release", "releaser", 25, 240),
                    independent |-> HumanApprovalRecord("release", "security", 20, 240)]]

(* Every field of the manifest is in its canonical form.                           *)
ApprovalCanonical == AllFields(ApprovalItems)

ApprovalUpstreams ==
    LET names == {"search", "ticket", "release"} IN
    [p8c |-> [s \in names |-> [goal_id |-> s, decision |-> "allow"]],
     p8d |-> [o \in names |-> [step_id |-> o, decision |-> "allow"]],
     p8e |-> [r \in names |-> [decision |-> "allow"]]]

(* A reviewer's identity, role and group have one name here.                      *)
ApprovalRules ==
    LET reviewers == {"ops", "releaser", "security"} IN
    [roles |-> [r \in reviewers |-> {r}], groups |-> [r \in reviewers |-> r]]

ApprovalBase ==
    Truthful(Context(ApprovalItems, {"rules", "actions"}, ApprovalUpstreams, {"actions"}, ApprovalRules,
                     ApprovalCanonical), ApprovalEvaluate)

(* An approval is withdrawn, and the policy requires it no longer.                 *)
CoherentDrop(c) ==
    {[c EXCEPT !.manifest.items["approvals"] = Without(@, p), !.policy.required["approvals"] = @ \ {p}] :
        p \in Ids(c, "approvals")}

ApprovalDocumentEdits(c) ==
    CommonEdits(c) \cup PinEdits(c) \cup TrustEdits(c)
    \cup PolicyEdits(c, {<<"owners", {}>>, <<"max_age", 0>>, <<"skew", -1>>})
    \cup {[c EXCEPT !.policy.groups = Without(@, "ops")]}
    \cup FieldEdits(c, {<<"actions", "ticket", "args_sha256", None>>, <<"actions", "ticket", "plan_sha256", None>>,
                        <<"approvals", "ticket", "action_id", Other>>,
                        <<"approvals", "ticket", "bound_args_sha256", None>>,
                        <<"approvals", "ticket", "approval_nonce", None>>})
ApprovalDriftEdits(c) ==
    FieldEdits(c, {<<"rules", "release", "maximum_autonomy", "unsupervised">>,
                   <<"rules", "release", "requires_human", FALSE>>,
                   <<"rules", "release", "minimum_approver_count", 1>>,
                   <<"rules", "ticket", "allow_edit", FALSE>>, <<"actions", "ticket", "run_id", "search">>,
                   <<"actions", "ticket", "goal_id", "search">>, <<"actions", "ticket", "step_id", "search">>,
                   <<"actions", "ticket", "original_principal_id", Other>>,
                   <<"actions", "ticket", "tenant_id", Other>>,
                   <<"actions", "ticket", "requested_autonomy", "unsupervised">>})
ApprovalRecordEdits(c) ==
    CoherentDrop(c)
    \cup UNION {FieldEdits(c, {
        <<"approvals", p, "decision", "reject">>, <<"approvals", p, "expires_at_epoch", Now - 1>>,
        <<"approvals", p, "issued_at_epoch", Now - 700>>, <<"approvals", p, "issued_at_epoch", Now + 100>>,
        <<"approvals", p, "reviewer_role", "observer">>, <<"approvals", p, "reviewer_group_id", Other>>,
        <<"approvals", p, "reviewer_identity_id", Other>>, <<"approvals", p, "bound_args_sha256", Other>>,
        <<"approvals", p, "bound_plan_sha256", Other>>}) : p \in {"ticket", "operations"}}
    \cup GroupEdits(c, {
        <<"approvals", "ticket", [reviewer_identity_id |-> "user-a"]>>,
        <<"approvals", "ticket", [reviewer_identity_id |-> "ticket"]>>,
        <<"approvals", "ticket", [approval_nonce |-> "security"]>>,
        <<"approvals", "operations", [decision |-> "edit", edited_args_sha256 |-> "edited"]>>,
        <<"approvals", "ticket", [decision |-> "edit", edited_args_sha256 |-> None]>>,
        <<"approvals", "ticket", [decision |-> "edit", edited_args_sha256 |-> "ticket"]>>,
        <<"approvals", "ticket", [decision |-> "approve", edited_args_sha256 |-> "edited"]>>,
        <<"approvals", "independent", [reviewer_identity_id |-> "releaser", reviewer_role |-> "releaser",
                                       reviewer_group_id |-> "releaser"]>>,
        <<"approvals", "ticket", [issued_at_epoch |-> Now - 20, expires_at_epoch |-> Now - 30]>>})
ApprovalCoherentEdits(c) ==
    CoherentEdits(c, {<<"actions", "ticket", "requested_autonomy", "unsupervised">>,
                      <<"actions", "ticket", "goal_id", Other>>, <<"rules", "release", "requires_human", FALSE>>,
                      <<"rules", "release", "max_approval_age_seconds", 10>>})
    \cup FactEdits(c, {<<"p8c", "ticket", "decision", "deny">>, <<"p8d", "ticket", "decision", "deny">>,
                       <<"p8e", "ticket", "decision", "deny">>})
    \cup MissingFacts(c, {"p8c", "p8e"})

ApprovalEdits(c) ==
    ApprovalDocumentEdits(c) \cup ApprovalDriftEdits(c) \cup ApprovalRecordEdits(c) \cup ApprovalCoherentEdits(c)

-----------------------------------------------------------------------------
(* P8-D: tool observations                                                         *)

ContractProfile ==
    {"tenant_scope", "effect", "authoritative_result", "max_result_age_seconds", "requires_side_effect_ack",
     "required_p7i_invariant_ids"}

ObservationPolicyValid(c) == c.policy.owners # {} /\ c.policy.max_age > 0 /\ c.policy.skew >= 0

(* An item names a tool, a snapshot, an invocation and a result of the manifest.   *)
Refers(c, item, kinds) ==
    \A f \in DOMAIN kinds : Known(c, kinds[f], item[f])

ObservationManifestValid(c) ==
    LET anchors == [tool_id |-> "contracts", environment_snapshot_id |-> "snapshots"]
        produced == anchors @@ [invocation_id |-> "invocations"]
    IN
    /\ ManifestBound(c) /\ ManifestCovers(c) /\ OwnersTrusted(c, DOMAIN c.manifest.items)
    /\ Pinned(c, "contracts", ContractProfile)
    /\ Pinned(c, "snapshots", {"tenant_id", "state_version", "state_sha256"})
    /\ \A i \in Ids(c, "invocations") : Refers(c, Item(c, "invocations", i), anchors)
    /\ \A r \in Ids(c, "results") : Refers(c, Item(c, "results", r), produced)
    /\ \A o \in Ids(c, "observations") :
           Refers(c, Item(c, "observations", o), produced @@ [result_id |-> "results"])

(* The acknowledgement of a side effect is a digest over these three.              *)
Ack(result) == <<result.side_effect_id, result.payload_sha256, result.observed_environment_version>>

OriginRisks(c, o) ==
    LET observation == Item(c, "observations", o)
        result == Item(c, "results", observation.result_id)
        invocation == Item(c, "invocations", observation.invocation_id)
        scope == Item(c, "contracts", observation.tool_id).tenant_scope
        Differs(f) == observation[f] # invocation[f]
    IN Fired([
        invocation_result_mismatch |-> result.invocation_id # observation.invocation_id,
        tool_identity_mismatch |-> result.tool_id # invocation.tool_id \/ Differs("tool_id"),
        argument_digest_mismatch |-> result.args_sha256 # invocation.args_sha256,
        tenant_mismatch |->
            Differs("tenant_id") \/ (scope \notin {"shared", "system"} /\ scope # invocation.tenant_id),
        task_mismatch |-> Differs("task_id"),
        principal_mismatch |-> Differs("original_principal_id"),
        goal_step_mismatch |-> Differs("goal_id") \/ Differs("step_id")])

(* Time, replay, environment and acknowledgement of the result observed.           *)
ResultRisks(c, o) ==
    LET observation == Item(c, "observations", o)
        result == Item(c, "results", observation.result_id)
        invocation == Item(c, "invocations", observation.invocation_id)
        contract == Item(c, "contracts", observation.tool_id)
        before == Item(c, "snapshots", invocation.environment_snapshot_id)
        after == Item(c, "snapshots", observation.environment_snapshot_id)
        now == c.request.at
        acknowledges == contract.requires_side_effect_ack \/ contract.effect # "read_only"
        silent == result.side_effect_id = None \/ result.side_effect_ack_sha256 = << >>
    IN Fired([
        result_time_invalid |->
            \/ result.produced_at_epoch < invocation.issued_at_epoch
            \/ result.expires_at_epoch < result.produced_at_epoch
            \/ result.produced_at_epoch > now + c.policy.skew,
        stale_result |->
            \/ now > result.expires_at_epoch
            \/ now - result.produced_at_epoch > contract.max_result_age_seconds,
        replay_result |->
            \E r \in Ids(c, "results") \ {observation.result_id} :
                Item(c, "results", r).result_nonce = result.result_nonce,
        environment_state_spoof |->
            \/ result.environment_snapshot_id # invocation.environment_snapshot_id
            \/ observation.environment_version # result.observed_environment_version
            \/ observation.environment_state_sha256 # result.observed_environment_state_sha256
            \/ observation.environment_state_sha256 # after.state_sha256,
        environment_version_regression |->
            \/ result.observed_environment_version < before.state_version
            \/ observation.environment_version < before.state_version,
        side_effect_unacknowledged |-> acknowledges /\ silent,
        side_effect_ack_mismatch |-> acknowledges /\ ~silent /\ result.side_effect_ack_sha256 # Ack(result)])

(* An invocation without a delegation is not asked for one.                        *)
AuthorityRisks(c, o) ==
    LET observation == Item(c, "observations", o)
        invocation == Item(c, "invocations", observation.invocation_id)
        Unsafe(u, id) == ~HasFact(c, u, id) \/ Fact(c, u, id).decision \notin {"allow", "allowed", "safe"}
    IN Fired([
        upstream_plan_unsafe |-> Unsafe("p8c", invocation.step_id),
        upstream_delegation_unsafe |->
            invocation.delegation_id # None /\ Unsafe("p8a", invocation.delegation_id),
        required_invariant_unsafe |->
            /\ HasFact(c, "p7i", "unsafe_invariant_ids")
            /\ Item(c, "contracts", observation.tool_id).required_p7i_invariant_ids
               \cap Fact(c, "p7i", "unsafe_invariant_ids").ids # {}])

(* The trust an observation may claim: verified only when nothing else is wrong.   *)
TrustRisks(c, o, risks) ==
    LET observation == Item(c, "observations", o)
        attested == Item(c, "results", observation.result_id).attestation_sha256 \in c.policy.attestations
        trust == IF /\ Item(c, "contracts", observation.tool_id).authoritative_result
                    /\ attested /\ risks = {}
                 THEN "verified" ELSE "tool_asserted"
    IN Fired([observation_laundering |-> observation.claimed_trust = "verified" /\ trust # "verified",
              observation_trust_mismatch |-> observation.claimed_trust # trust])

ObservationFacts(c) ==
    [o \in Ids(c, "observations") |->
        LET risks == OriginRisks(c, o) \cup ResultRisks(c, o) \cup AuthorityRisks(c, o)
        IN risks \cup TrustRisks(c, o, risks)]

ObservationEvaluate(c) ==
    Outcome(c, RequestBound(c, {"observations"}),
            ObservationPolicyValid(c) /\ UpstreamsValid(c) /\ ObservationManifestValid(c),
            ObservationFacts, Truth)

-----------------------------------------------------------------------------
(* The evaluation's fixture, with three of its four tools.                        *)

ToolContract(scope, effect, authoritative, age) ==
    [tenant_scope |-> scope, effect |-> effect, authoritative_result |-> authoritative,
     max_result_age_seconds |-> age, requires_side_effect_ack |-> effect # "read_only",
     required_p7i_invariant_ids |-> {<<"invariant", scope, effect>>}, owner_id |-> "owner"]
EnvironmentSnapshot(tenant, version) ==
    [tenant_id |-> tenant, state_version |-> version, state_sha256 |-> <<tenant, version>>, owner_id |-> "owner"]
Work(tool, principal, tenant) ==
    [tool_id |-> tool, original_principal_id |-> principal, tenant_id |-> tenant, task_id |-> tool,
     goal_id |-> tool, step_id |-> tool, owner_id |-> "owner"]
ToolInvocation(tool, principal, tenant, snapshot, age) ==
    Work(tool, principal, tenant) @@ [delegation_id |-> tool, args_sha256 |-> tool,
     environment_snapshot_id |-> snapshot, issued_at_epoch |-> Now - age]
ToolResult(tool, snapshot, tenant, version, effect, age, expires) ==
    [invocation_id |-> tool, tool_id |-> tool, args_sha256 |-> tool, payload_sha256 |-> tool,
     result_nonce |-> tool, environment_snapshot_id |-> snapshot, observed_environment_version |-> version,
     observed_environment_state_sha256 |-> <<tenant, version>>, side_effect_id |-> effect,
     side_effect_ack_sha256 |-> IF effect = None THEN << >> ELSE <<effect, tool, version>>,
     attestation_sha256 |-> effect, produced_at_epoch |-> Now - age, expires_at_epoch |-> Now + expires,
     owner_id |-> "owner"]
ToolObservation(tool, principal, tenant, snapshot, version, trust) ==
    Work(tool, principal, tenant) @@ [result_id |-> tool, invocation_id |-> tool,
     environment_snapshot_id |-> snapshot, environment_version |-> version,
     environment_state_sha256 |-> <<tenant, version>>, content_sha256 |-> tool, claimed_trust |-> trust]

ObservationItems ==
    [contracts |-> [search |-> ToolContract("tenant-A", "read_only", FALSE, 120),
                    ticket |-> ToolContract("tenant-A", "mutating", TRUE, 120),
                    release |-> ToolContract("shared", "irreversible", TRUE, 90)],
     snapshots |-> [t10 |-> EnvironmentSnapshot("tenant-A", 10), t11 |-> EnvironmentSnapshot("tenant-A", 11),
                    r42 |-> EnvironmentSnapshot("platform", 42), r43 |-> EnvironmentSnapshot("platform", 43)],
     invocations |-> [search |-> ToolInvocation("search", "user-a", "tenant-A", "t10", 20),
                      ticket |-> ToolInvocation("ticket", "user-a", "tenant-A", "t10", 18),
                      release |-> ToolInvocation("release", "admin", "platform", "r42", 16)],
     results |-> [search |-> ToolResult("search", "t10", "tenant-A", 10, None, 19, 80),
                  ticket |-> ToolResult("ticket", "t10", "tenant-A", 11, "side-ticket", 13, 80),
                  release |-> ToolResult("release", "r42", "platform", 43, "side-release", 9, 60)],
     observations |-> [search |-> ToolObservation("search", "user-a", "tenant-A", "t10", 10, "tool_asserted"),
                       ticket |-> ToolObservation("ticket", "user-a", "tenant-A", "t11", 11, "verified"),
                       release |-> ToolObservation("release", "admin", "platform", "r43", 43, "verified")]]
ObservationCanonical == AllFields(ObservationItems)

ObservationUpstreams ==
    LET allowed == [x \in {"search", "ticket", "release"} |-> [decision |-> "allow"]] IN
    [p8a |-> allowed, p8c |-> allowed, p7i |-> [unsafe_invariant_ids |-> [ids |-> {}]]]

ObservationBase ==
    Truthful(Context(ObservationItems, {"contracts", "snapshots"}, ObservationUpstreams, {"observations"},
                     [attestations |-> {"side-ticket", "side-release"}], ObservationCanonical),
             ObservationEvaluate)

ObservationDocumentEdits(c) ==
    CommonEdits(c) \cup PinEdits(c) \cup TrustEdits(c)
    \cup PolicyEdits(c, {<<"owners", {}>>, <<"max_age", 0>>, <<"skew", -1>>})
    \cup {[c EXCEPT !.policy.required[k] = @ \ {"release"}] : k \in {"contracts", "results", "observations"}}
ContractEdits(c) ==
    UNION {FieldEdits(c, {
        <<"contracts", t, "tenant_scope", Other>>, <<"contracts", t, "effect", "unknown">>,
        <<"contracts", t, "max_result_age_seconds", 999>>, <<"contracts", t, "required_p7i_invariant_ids", {}>>}) :
        t \in {"search", "ticket"}}
    \cup FieldEdits(c, {<<"contracts", "ticket", "authoritative_result", FALSE>>,
                        <<"snapshots", "t10", "tenant_id", Other>>,
                        <<"snapshots", "t11", "state_sha256", <<Other>> >>})
    \cup CoherentEdits(c, {<<"contracts", "search", "requires_side_effect_ack", TRUE>>})
InvocationEdits(c) ==
    UNION {FieldEdits(c, {
        <<"invocations", i, "tool_id", "search">>, <<"invocations", i, "tenant_id", Other>>,
        <<"invocations", i, "original_principal_id", Other>>, <<"invocations", i, "task_id", Other>>,
        <<"invocations", i, "goal_id", Other>>, <<"invocations", i, "step_id", Other>>,
        <<"invocations", i, "args_sha256", Other>>, <<"invocations", i, "environment_snapshot_id", Other>>}) :
        i \in {"ticket", "release"}}
ResultEdits(c) ==
    UNION {FieldEdits(c, {
        <<"results", r, "invocation_id", "search">>, <<"results", r, "tool_id", "search">>,
        <<"results", r, "args_sha256", "unseen">>, <<"results", r, "result_nonce", "search">>,
        <<"results", r, "produced_at_epoch", Now + 100>>, <<"results", r, "expires_at_epoch", Now - 1>>,
        <<"results", r, "observed_environment_version", 0>>,
        <<"results", r, "observed_environment_state_sha256", <<Other>> >>,
        <<"results", r, "side_effect_ack_sha256", << >> >>, <<"results", r, "side_effect_ack_sha256", <<Other>> >>,
        <<"results", r, "attestation_sha256", None>>, <<"results", r, "attestation_sha256", Other>>}) :
        r \in {"ticket", "release"}}
    \cup FieldEdits(c, {<<"results", "search", "expires_at_epoch", Now - 1>>})
ObservationRecordEdits(c) ==
    UNION {FieldEdits(c, {
        <<"observations", o, "result_id", "search">>, <<"observations", o, "invocation_id", "search">>,
        <<"observations", o, "tool_id", "search">>, <<"observations", o, "original_principal_id", "unseen">>,
        <<"observations", o, "tenant_id", "unseen">>, <<"observations", o, "task_id", "unseen">>,
        <<"observations", o, "goal_id", "unseen">>, <<"observations", o, "step_id", "unseen">>,
        <<"observations", o, "environment_version", 0>>,
        <<"observations", o, "environment_state_sha256", <<"unseen">> >>}) : o \in {"ticket", "release"}}
    \cup FieldEdits(c, {<<"observations", "search", "claimed_trust", "verified">>})
ObservationUpstreamEdits(c) ==
    FactEdits(c, {<<"p8a", "ticket", "decision", "deny">>, <<"p8c", "release", "decision", "deny">>,
                  <<"p7i", "unsafe_invariant_ids", "ids", {<<"invariant", "tenant-A", "mutating">>}>>})
    \cup MissingFacts(c, {"p8a", "p8c"})

ObservationEdits(c) ==
    ObservationDocumentEdits(c) \cup ContractEdits(c) \cup InvocationEdits(c) \cup ResultEdits(c)
    \cup ObservationRecordEdits(c) \cup ObservationUpstreamEdits(c)

(* What the canonical form covers and no rule reads: the content the agent is told *)
(* it observed.                                                                    *)
ContentEdits(c) == FieldEdits(c, {<<"observations", "ticket", "content_sha256", Other>>})
=============================================================================
