------------------------------ MODULE AgentPlan ------------------------------
(* Goals and plans of agents, aegis/agentic/goal_plan_security.py (P8-C). A goal  *)
(* has a root instruction; the steps of its plan and the mutations of the plan    *)
(* cite the instructions they follow; an instruction may come from memory or from *)
(* a tool. Steps and mutations are allowed or denied, goals hold or are violated. *)
EXTENDS Assessment, Sequences

TrustRank == [untrusted |-> 1, contextual |-> 2, user_authorized |-> 3,
              delegated_authorized |-> 4, system |-> 5]
Trust(i) == TrustRank[i.trust]

Priority ==
    [instruction_laundering |-> 100, goal_scope_expansion |-> 98, termination_bypass |-> 96,
     rollback_bypass |-> 94, delegated_goal_continuity |-> 92, upstream_delegation_denied |-> 90,
     plan_mutation_unauthorized |-> 88, plan_step_unauthorized |-> 86,
     instruction_precedence_violation |-> 84, memory_instruction_escalation |-> 82,
     tool_output_instruction_escalation |-> 80, capability_scope_mismatch |-> 78,
     architecture_invariant_unsafe |-> 76, upstream_memory_denied |-> 74,
     memory_context_mismatch |-> 72, goal_provenance_broken |-> 70, cross_tenant |-> 68,
     cross_session |-> 66, plan_sequence_invalid |-> 64, step_limit_exceeded |-> 62,
     expired_goal |-> 60]

(* A derived instruction's provenance digests its parent's and its own content.   *)
ProvenanceDigest(parent, content) == Append(parent, content)

InstructionProfile == {"source", "directive", "trust", "precedence", "allowed_action_classes"}
GoalProfile == {"root_instruction_id", "original_principal_id", "tenant_id", "session_id",
                "delegation_id", "allowed_action_classes", "max_step_count"}

PolicyValid(c) ==
    LET p == c.policy IN
    /\ PolicyFormed(c)
    /\ p.required["instructions"] # {} /\ p.required["goals"] # {} /\ p.required["steps"] # {}
    /\ p.agents # {} /\ p.mutation_agents # {}
    /\ \A g \in p.required["goals"] :
           /\ p.expected["goals"][g].max_step_count > 0
           /\ p.expected["goals"][g].allowed_action_classes \subseteq DOMAIN p.capabilities
    /\ DOMAIN p.capabilities # {} /\ DOMAIN p.invariants = DOMAIN p.capabilities
    /\ Range(p.rollback) \subseteq DOMAIN p.capabilities
    /\ p.irreversible \subseteq DOMAIN p.capabilities \cap DOMAIN p.rollback

UpstreamsValid(c) ==
    /\ UpstreamsBound(c) /\ UpstreamsDistinct(c)
    /\ \A u \in DOMAIN c.up : DOMAIN c.up[u].facts # {}

InstructionValid(c, i) ==
    LET ins == Item(c, "instructions", i) IN
    /\ ins.precedence > 0 /\ ins.content_sha256 # None /\ ins.provenance_sha256 # << >>
    /\ ins.parent_instruction_id = None \/ Known(c, "instructions", ins.parent_instruction_id)
    /\ ins.memory_retrieval_id = None \/ HasFact(c, "p8b", ins.memory_retrieval_id)
    /\ ins.tool_output_sha256 # Other
    /\ IF ins.sanitized THEN ins.sanitization_evidence_sha256 \in c.policy.sanitizations
       ELSE ins.sanitization_evidence_sha256 = None
    /\ ins.source = "memory" => ins.memory_retrieval_id # None
    /\ ins.source = "tool_output" => ins.tool_output_sha256 # None

(* A derived instruction continues its parent's provenance and gains neither      *)
(* precedence nor trust unless it was sanitized.                                  *)
InstructionDerived(c, i) ==
    LET ins == Item(c, "instructions", i) IN
    ins.parent_instruction_id # None =>
        LET parent == Item(c, "instructions", ins.parent_instruction_id) IN
        /\ ins.provenance_sha256 = ProvenanceDigest(parent.provenance_sha256, ins.content_sha256)
        /\ ins.precedence > parent.precedence \/ Trust(ins) > Trust(parent) => ins.sanitized

GoalValid(c, g) ==
    LET goal == Item(c, "goals", g) IN
    /\ Known(c, "instructions", goal.root_instruction_id)
    /\ goal.delegation_id = None \/ HasFact(c, "p8a", goal.delegation_id)
    /\ goal.max_step_count > 0 /\ goal.expires_at_epoch > goal.created_at_epoch
    /\ goal.created_at_epoch <= c.request.at + c.policy.skew
    /\ LET root == Item(c, "instructions", goal.root_instruction_id) IN
       /\ root.goal_id = g
       /\ \A f \in {"original_principal_id", "tenant_id", "session_id"} : root[f] = goal[f]

StepValid(c, s) ==
    LET step == Item(c, "steps", s) IN
    /\ Known(c, "goals", step.goal_id)
    /\ step.source_instruction_ids \subseteq Ids(c, "instructions")
    /\ step.memory_retrieval_ids \subseteq DOMAIN c.up["p8b"].facts
    /\ step.rollback_for_step_id = None \/ Known(c, "steps", step.rollback_for_step_id)
    /\ step.agent_id \in c.policy.agents /\ step.action_class \in DOMAIN c.policy.capabilities
    /\ None \notin step.capability_ids
    /\ step.irreversible = (step.action_class \in c.policy.irreversible)
    /\ step.sequence > 0
    /\ step.created_at_epoch >= Item(c, "goals", step.goal_id).created_at_epoch

MutationValid(c, m) ==
    LET mutation == Item(c, "mutations", m) IN
    /\ Known(c, "goals", mutation.goal_id)
    /\ mutation.proposed_instruction_ids \cup {mutation.source_instruction_id}
         \subseteq Ids(c, "instructions")
    /\ mutation.target_step_id = None \/ Known(c, "steps", mutation.target_step_id)
    /\ mutation.actor_agent_id \in c.policy.mutation_agents
    /\ mutation.proposed_action_class \in {None} \cup DOMAIN c.policy.capabilities
    /\ mutation.created_at_epoch >= Item(c, "goals", mutation.goal_id).created_at_epoch

ManifestValid(c) ==
    /\ ManifestBound(c) /\ ManifestCovers(c)
    /\ OwnersTrusted(c, DOMAIN c.manifest.items)
    /\ ProfilesExpected(c, "instructions", InstructionProfile)
    /\ \A i \in Ids(c, "instructions") : InstructionValid(c, i)
    /\ ~Cyclic(ParentsBy(c, "instructions", "parent_instruction_id"))
    /\ \A i \in Ids(c, "instructions") : InstructionDerived(c, i)
    /\ ProfilesExpected(c, "goals", GoalProfile)
    /\ \A g \in Ids(c, "goals") : GoalValid(c, g)
    /\ \A s \in Ids(c, "steps") : StepValid(c, s)
    /\ \A m \in Ids(c, "mutations") : MutationValid(c, m)

-----------------------------------------------------------------------------
(* evaluate                                                                        *)

GoalOf(c, x) == Item(c, "goals", x.goal_id)
Root(c, goal) == Item(c, "instructions", goal.root_instruction_id)
StepsOf(c, g) == {s \in Ids(c, "steps") : Item(c, "steps", s).goal_id = g}
Weak(i) == i.source \in {"memory", "tool_output", "external_content"}

DelegationRisks(c, goal) ==
    IF goal.delegation_id = None THEN {}
    ELSE LET d == Fact(c, "p8a", goal.delegation_id) IN Fired([
        upstream_delegation_denied |-> d.decision # "allow",
        delegated_goal_continuity |-> d.original_principal_id # goal.original_principal_id
                                      \/ d.tenant_id # goal.tenant_id])

InstructionContextRisks(c, i, g) ==
    LET goal == Item(c, "goals", g)
        read == IF i.memory_retrieval_id = None THEN {} ELSE {Fact(c, "p8b", i.memory_retrieval_id)}
    IN Fired([
        goal_provenance_broken |-> i.goal_id \notin {None, g}
                                   \/ i.original_principal_id # goal.original_principal_id,
        cross_tenant |-> i.tenant_id # goal.tenant_id,
        cross_session |-> i.session_id # goal.session_id,
        upstream_memory_denied |-> \E r \in read : r.decision # "allow",
        memory_context_mismatch |->
            \E r \in read : r.tenant_id # goal.tenant_id \/ r.session_id # goal.session_id])

InvariantUnsafe(c, v) == ~HasFact(c, "p7i", v) \/ Fact(c, "p7i", v).state # "holds"
DelegatesAll(c, goal, action) ==
    goal.delegation_id # None =>
        c.policy.capabilities[action] \subseteq Fact(c, "p8a", goal.delegation_id).requested_capability_ids

(* The numbers of a goal's steps are 1, 2, ... and no more than it may have.      *)
SequenceRisks(c, g) ==
    LET steps == StepsOf(c, g) IN Fired([
        step_limit_exceeded |-> Cardinality(steps) > Item(c, "goals", g).max_step_count,
        plan_sequence_invalid |->
            {Item(c, "steps", s).sequence : s \in steps} # 1..Cardinality(steps)])

(* An instruction of at least the root's standing ended the goal before the step. *)
Terminated(c, g, step) ==
    LET root == Root(c, Item(c, "goals", g)) IN
    \E i \in Ids(c, "instructions") : LET ins == Item(c, "instructions", i) IN
        /\ ins.goal_id = g /\ ins.directive = "terminate"
        /\ ins.issued_at_epoch <= step.created_at_epoch
        /\ ins.precedence >= root.precedence /\ Trust(ins) >= Trust(root)

RollbackAction(c, action) ==
    IF action \in DOMAIN c.policy.rollback THEN c.policy.rollback[action] ELSE None

StepRisks(c, s) ==
    LET step == Item(c, "steps", s)
        goal == GoalOf(c, step)
        root == Root(c, goal)
        action == step.action_class
        sources == {Item(c, "instructions", i) : i \in step.source_instruction_ids}
        reads == {Fact(c, "p8b", r) : r \in step.memory_retrieval_ids}
        low == {i \in sources : Weak(i) /\ Trust(i) < Trust(root)}
        launders == action \notin root.allowed_action_classes /\ low # {}
    IN SequenceRisks(c, step.goal_id) \cup DelegationRisks(c, goal)
       \cup (UNION {InstructionContextRisks(c, i, step.goal_id) : i \in sources})
       \cup Fired([
        expired_goal |-> c.request.at >= goal.expires_at_epoch,
        plan_step_unauthorized |-> sources = {},
        goal_provenance_broken |-> goal.root_instruction_id \notin step.source_instruction_ids,
        goal_scope_expansion |->
            action \notin goal.allowed_action_classes \cap root.allowed_action_classes,
        capability_scope_mismatch |-> step.capability_ids # c.policy.capabilities[action]
                                      \/ ~DelegatesAll(c, goal, action),
        architecture_invariant_unsafe |->
            \E v \in c.policy.invariants[action] : InvariantUnsafe(c, v),
        upstream_memory_denied |-> \E r \in reads : r.decision # "allow",
        cross_tenant |-> \E r \in reads : r.tenant_id # goal.tenant_id,
        cross_session |-> \E r \in reads : r.session_id # goal.session_id,
        instruction_laundering |-> launders,
        memory_instruction_escalation |-> launders /\ \E i \in low : i.source = "memory",
        tool_output_instruction_escalation |-> launders /\ \E i \in low : i.source = "tool_output",
        instruction_precedence_violation |->
            \E i \in low : i.directive \in {"terminate", "rollback"} /\ ~i.sanitized,
        termination_bypass |-> /\ Terminated(c, step.goal_id, step)
                               /\ action # RollbackAction(c, action),
        rollback_bypass |->
            \/ /\ step.irreversible /\ RollbackAction(c, action) # None
               /\ \A o \in StepsOf(c, step.goal_id) : LET other == Item(c, "steps", o) IN
                      ~(/\ other.rollback_for_step_id = s
                        /\ other.action_class = RollbackAction(c, action)
                        /\ other.sequence > step.sequence)
            \/ /\ step.rollback_for_step_id # None
               /\ LET target == Item(c, "steps", step.rollback_for_step_id) IN
                  \/ RollbackAction(c, target.action_class) # action
                  \/ step.sequence <= target.sequence])

MutationRisks(c, m) ==
    LET mutation == Item(c, "mutations", m)
        goal == GoalOf(c, mutation)
        root == Root(c, goal)
        source == Item(c, "instructions", mutation.source_instruction_id)
        action == mutation.proposed_action_class
        weaker == source.precedence < root.precedence \/ Trust(source) < Trust(root)
        launders == weaker /\ Weak(source) /\ ~source.sanitized
    IN DelegationRisks(c, goal) \cup InstructionContextRisks(c, source, mutation.goal_id)
       \cup Fired([
        plan_mutation_unauthorized |-> weaker \/
            /\ mutation.mutation_type \in {"terminate", "rollback"}
            /\ source.directive \notin {"terminate", "rollback", "constraint"},
        instruction_laundering |-> launders,
        memory_instruction_escalation |-> launders /\ source.source = "memory",
        tool_output_instruction_escalation |-> launders /\ source.source = "tool_output",
        goal_scope_expansion |-> action \notin
            {None} \cup (goal.allowed_action_classes \cap root.allowed_action_classes),
        capability_scope_mismatch |-> action # None /\ ~DelegatesAll(c, goal, action),
        architecture_invariant_unsafe |->
            action # None /\ \E v \in c.policy.invariants[action] : InvariantUnsafe(c, v),
        instruction_precedence_violation |->
            \E i \in mutation.proposed_instruction_ids : LET ins == Item(c, "instructions", i) IN
                ins.precedence > root.precedence /\ Trust(ins) < Trust(root)])

(* Steps, mutations and goals are told apart by their kind, not by their names.   *)
PartsOf(c, g) ==
    ({"steps"} \X StepsOf(c, g))
    \cup ({"mutations"} \X {m \in Ids(c, "mutations") : Item(c, "mutations", m).goal_id = g})

GoalRisks(c, g, parts) ==
    LET goal == Item(c, "goals", g) IN
    DelegationRisks(c, goal) \cup (UNION {parts[x] : x \in PartsOf(c, g)})
    \cup (IF c.request.at >= goal.expires_at_epoch THEN {"expired_goal"} ELSE {})

Facts(c) ==
    LET plan == ({"steps"} \X Ids(c, "steps")) \cup ({"mutations"} \X Ids(c, "mutations"))
        parts == [x \in plan |-> IF x[1] = "steps" THEN StepRisks(c, x[2])
                                                   ELSE MutationRisks(c, x[2])]
    IN [x \in plan \cup ({"goals"} \X Ids(c, "goals")) |->
            IF x \in plan THEN parts[x] ELSE GoalRisks(c, x[2], parts)]

(* The state of an invariant that a mutation's action needs is looked up without  *)
(* asking whether there is one: evaluate ends with a KeyError if there is none.   *)
InvariantsFound(c) ==
    \A m \in Ids(c, "mutations") : LET action == Item(c, "mutations", m).proposed_action_class IN
        action # None => c.policy.invariants[action] \subseteq DOMAIN c.up["p7i"].facts

Asked(c) == RequestBound(c, {"goals", "steps", "mutations"})

Evaluate(c) ==
    Outcome(c, Asked(c),
            PolicyValid(c) /\ UpstreamsValid(c) /\ ManifestValid(c) /\ InvariantsFound(c), Facts,
            LAMBDA facts : DecidedTruth(facts, LAMBDA rs : StackedWeight(Priority, rs)))

(* A goal rests on the steps and the mutations of its plan.                       *)
RestsOn(c) == UNION {{<<"goals", g>>} \X PartsOf(c, g) : g \in Ids(c, "goals")}

-----------------------------------------------------------------------------
(* The evaluation's fixture: a query that a memory hints at, a tool read with its *)
(* output, and a deployment that the system may stop or roll back.                *)

InstructionRecord(goal, source, directive, trust, precedence, actions, issued) ==
    [goal_id |-> goal, source |-> source, directive |-> directive, trust |-> trust,
     precedence |-> precedence, tenant_id |-> "tenant-a", session_id |-> "s1",
     original_principal_id |-> "user-a", content_sha256 |-> "content",
     provenance_sha256 |-> <<goal>>, parent_instruction_id |-> None,
     memory_retrieval_id |-> None, tool_output_sha256 |-> None,
     allowed_action_classes |-> actions, sanitized |-> FALSE,
     sanitization_evidence_sha256 |-> None, issued_at_epoch |-> issued, owner_id |-> "owner"]
Derived(parent, i) ==
    [i EXCEPT !.parent_instruction_id = parent,
              !.provenance_sha256 = ProvenanceDigest(@, i.content_sha256)]
AgentGoal(root, delegation, actions, steps) ==
    [root_instruction_id |-> root, original_principal_id |-> "user-a", tenant_id |-> "tenant-a",
     session_id |-> "s1", delegation_id |-> delegation, allowed_action_classes |-> actions,
     max_step_count |-> steps, created_at_epoch |-> 10, expires_at_epoch |-> 1000,
     owner_id |-> "owner"]
PlanStep(goal, sequence, action, sources, capabilities, reads, irreversible, rollback) ==
    [goal_id |-> goal, sequence |-> sequence, agent_id |-> "agent", action_class |-> action,
     source_instruction_ids |-> sources, capability_ids |-> capabilities,
     memory_retrieval_ids |-> reads, irreversible |-> irreversible,
     rollback_for_step_id |-> rollback, created_at_epoch |-> 20, owner_id |-> "owner"]
PlanMutation(goal, target, type, source, action, proposed) ==
    [goal_id |-> goal, actor_agent_id |-> "planner", target_step_id |-> target,
     mutation_type |-> type, source_instruction_id |-> source, proposed_action_class |-> action,
     proposed_instruction_ids |-> proposed, created_at_epoch |-> 30, owner_id |-> "owner"]

Items ==
    [instructions |-> [
        ask |-> InstructionRecord("find", "user_goal", "objective", "user_authorized", 80, {"query"}, 10),
        hint |-> Derived("ask", [InstructionRecord("find", "memory", "suggestion", "contextual", 30,
                     {"query"}, 12) EXCEPT !.memory_retrieval_id = "prefs"]),
        task |-> InstructionRecord("use", "delegated_goal", "objective", "delegated_authorized", 70, {"read"}, 10),
        output |-> Derived("task", [InstructionRecord("use", "tool_output", "suggestion", "untrusted", 20,
                     {"read"}, 12) EXCEPT !.tool_output_sha256 = "payload"]),
        ship |-> InstructionRecord("release", "user_goal", "objective", "user_authorized", 80, {"deploy", "undo"}, 10),
        stop |-> InstructionRecord("release", "system_policy", "terminate", "system", 100, {"undo"}, 55),
        revert |-> InstructionRecord("release", "system_policy", "rollback", "system", 100, {"undo"}, 12)],
     goals |-> [find |-> AgentGoal("ask", "d_find", {"query"}, 2), use |-> AgentGoal("task", "d_use", {"read"}, 2),
                release |-> AgentGoal("ship", "d_release", {"deploy", "undo"}, 3)],
     steps |-> [
        s_find |-> PlanStep("find", 1, "query", {"ask", "hint"}, {"search", "retrieve"}, {"prefs"}, FALSE, None),
        s_use |-> PlanStep("use", 1, "read", {"task", "output"}, {"tool"}, {}, FALSE, None),
        s_deploy |-> PlanStep("release", 1, "deploy", {"ship"}, {"model"}, {}, TRUE, None),
        s_undo |-> PlanStep("release", 2, "undo", {"ship", "revert"}, {"model"}, {}, FALSE, "s_deploy")],
     mutations |-> [
        m_find |-> PlanMutation("find", "s_find", "append", "ask", "query", {"ask"}),
        m_undo |-> PlanMutation("release", "s_deploy", "rollback", "revert", "undo", {"ship", "revert"})]]

(* canonical_goal_plan_manifest_bytes writes every field of every item.           *)
Canonical == AllFields(Items)

Delegation(capabilities) ==
    [decision |-> "allow", original_principal_id |-> "user-a", tenant_id |-> "tenant-a",
     requested_capability_ids |-> capabilities]
Upstreams ==
    [p8a |-> [d_find |-> Delegation({"search", "retrieve"}), d_use |-> Delegation({"tool"}),
              d_release |-> Delegation({"model"})],
     p8b |-> [prefs |-> [decision |-> "allow", tenant_id |-> "tenant-a", session_id |-> "s1"]],
     p7i |-> [tenant |-> [state |-> "holds"], tools |-> [state |-> "holds"], release |-> [state |-> "holds"]]]

Rules ==
    [agents |-> {"agent"}, mutation_agents |-> {"planner"}, sanitizations |-> {"sanitizer"},
     capabilities |-> [query |-> {"search", "retrieve"}, read |-> {"tool"}, deploy |-> {"model"}, undo |-> {"model"}],
     invariants |-> [query |-> {"tenant"}, read |-> {"tools"}, deploy |-> {"release"}, undo |-> {"release"}],
     rollback |-> [deploy |-> "undo"], irreversible |-> {"deploy"}]

Base == Truthful(Context(Items, {"instructions", "goals"}, Upstreams,
                         {"goals", "steps", "mutations"}, Rules, Canonical), Evaluate)

(* Request, manifest, upstream, policy and caller cases.                          *)
DocumentEdits(c) ==
    CommonEdits(c) \cup PinEdits(c) \cup RepeatEdits(c)
    \cup PolicyEdits(c, {<<"agents", {}>>, <<"mutation_agents", {}>>, <<"max_age", 0>>,
        <<"invariants", Without(c.policy.invariants, "read")>>,
        <<"rollback", [deploy |-> Other]>>, <<"rollback", << >> >>, <<"irreversible", {Other}>>})

InstructionEdits(c) ==
    FieldEdits(c, {
        <<"instructions", "hint", "source", "system_policy">>, <<"instructions", "output", "source", "user_goal">>,
        <<"instructions", "hint", "directive", "objective">>, <<"instructions", "output", "directive", "terminate">>,
        <<"instructions", "hint", "trust", "system">>, <<"instructions", "output", "trust", "user_authorized">>,
        <<"instructions", "hint", "precedence", 95>>, <<"instructions", "output", "precedence", 90>>,
        <<"instructions", "hint", "allowed_action_classes", {"query", "read"}>>,
        <<"instructions", "hint", "parent_instruction_id", Other>>,
        <<"instructions", "ask", "parent_instruction_id", "hint">>,
        <<"instructions", "hint", "provenance_sha256", <<Other>> >>,
        <<"instructions", "hint", "content_sha256", None>>,
        <<"instructions", "hint", "memory_retrieval_id", Other>>,
        <<"instructions", "hint", "memory_retrieval_id", None>>,
        <<"instructions", "output", "tool_output_sha256", Other>>,
        <<"instructions", "output", "tool_output_sha256", None>>,
        <<"instructions", "hint", "sanitization_evidence_sha256", Other>>})
    \cup GroupEdits(c, {<<"instructions", "hint",
        [sanitized |-> TRUE, sanitization_evidence_sha256 |-> "unapproved"]>>})

PlanEdits(c) ==
    FieldEdits(c, {
        <<"goals", "find", "root_instruction_id", "task">>, <<"goals", "find", "original_principal_id", Other>>,
        <<"goals", "find", "tenant_id", "tenant-b">>, <<"goals", "find", "session_id", "s2">>,
        <<"goals", "find", "delegation_id", "d_use">>, <<"goals", "find", "allowed_action_classes", {"query", "read"}>>,
        <<"goals", "find", "max_step_count", 99>>, <<"goals", "find", "expires_at_epoch", 5>>,
        <<"goals", "find", "created_at_epoch", 160>>,
        <<"steps", "s_find", "goal_id", Other>>, <<"steps", "s_find", "source_instruction_ids", {"ask", Other}>>,
        <<"steps", "s_find", "memory_retrieval_ids", {Other}>>, <<"steps", "s_undo", "rollback_for_step_id", Other>>,
        <<"steps", "s_find", "agent_id", Other>>, <<"steps", "s_find", "action_class", Other>>,
        <<"steps", "s_find", "capability_ids", {None}>>, <<"steps", "s_find", "sequence", 0>>,
        <<"steps", "s_find", "created_at_epoch", 5>>, <<"steps", "s_deploy", "irreversible", FALSE>>,
        <<"mutations", "m_find", "goal_id", Other>>, <<"mutations", "m_find", "source_instruction_id", Other>>,
        <<"mutations", "m_find", "target_step_id", Other>>, <<"mutations", "m_find", "proposed_instruction_ids", {Other}>>,
        <<"mutations", "m_find", "actor_agent_id", Other>>, <<"mutations", "m_find", "proposed_action_class", Other>>,
        <<"mutations", "m_find", "created_at_epoch", 5>>})

(* Cases in which the documents agree and a step, a mutation or a goal is denied.  *)
IntegrityEdits(c) ==
    FactEdits(c, {
        <<"p8a", "d_find", "decision", "deny">>, <<"p8a", "d_release", "decision", "deny">>,
        <<"p8a", "d_find", "original_principal_id", Other>>, <<"p8a", "d_find", "tenant_id", "tenant-b">>,
        <<"p8a", "d_find", "requested_capability_ids", {"search"}>>, <<"p8b", "prefs", "decision", "deny">>,
        <<"p8b", "prefs", "tenant_id", "tenant-b">>, <<"p8b", "prefs", "session_id", "s2">>,
        <<"p7i", "tools", "state", "violated">>, <<"p7i", "release", "state", "violated">>})
    \cup MissingFacts(c, {"p7i"})
    \cup FieldEdits(c, {
        <<"steps", "s_find", "capability_ids", {"search"}>>, <<"steps", "s_find", "source_instruction_ids", {"hint"}>>,
        <<"steps", "s_find", "source_instruction_ids", {"ask", "task"}>>, <<"steps", "s_undo", "sequence", 3>>,
        <<"steps", "s_deploy", "created_at_epoch", 59>>, <<"goals", "find", "expires_at_epoch", 60>>,
        <<"mutations", "m_find", "proposed_action_class", "deploy">>,
        <<"mutations", "m_find", "mutation_type", "terminate">>})
    \cup GroupEdits(c, {
        <<"steps", "s_find", [action_class |-> "read", capability_ids |-> {"tool"}]>>,
        <<"steps", "s_use", [action_class |-> "deploy", capability_ids |-> {"model"}, irreversible |-> TRUE]>>,
        <<"steps", "s_undo", [action_class |-> "deploy", irreversible |-> TRUE, rollback_for_step_id |-> None]>>,
        <<"mutations", "m_find", [source_instruction_id |-> "hint", proposed_instruction_ids |-> {"ask", "hint"}]>>})

Edits(c) == DocumentEdits(c) \cup InstructionEdits(c) \cup PlanEdits(c) \cup IntegrityEdits(c)
=============================================================================
