--------------------------- MODULE AgentDelegation ---------------------------
(* Delegation of authority between agents, aegis/agentic/delegation_security.py   *)
(* (P8-A). A delegation hands capabilities from one agent to another on behalf of *)
(* an original principal; what a denied delegation passes on is nothing, so that  *)
(* a chain of handoffs carries only what every link of it was allowed.            *)
EXTENDS Assessment

AgentProfile == {"role", "tenant_id", "trust_domain", "maximum_capability_ids",
    "p7b_path_ids", "p7h_route_ids", "accepts_delegation", "max_delegation_depth"}
CapabilityProfile == {"family", "privilege_level", "tenant_scope", "privileged",
    "required_p7h_route_ids", "required_p7i_invariant_ids"}

Canonical ==
    [agents |-> AgentProfile \cup {"owner_id"}, capabilities |-> CapabilityProfile,
     delegations |-> {"parent_delegation_id", "original_principal_id", "delegator_agent_id",
        "delegatee_agent_id", "task_class", "tenant_id", "requested_capability_ids",
        "original_request_sha256", "issued_at_epoch", "expires_at_epoch", "owner_id"}]

PolicyValid(c) ==
    LET p == c.policy IN
    /\ PolicyFormed(c)
    /\ \A k \in DOMAIN p.required : p.required[k] # {}
    /\ p.trust_domains # {} /\ p.max_chain_depth > 0
    /\ \A k \in p.required["capabilities"] :
           p.expected["capabilities"][k].privilege_level > 0
    /\ \A a \in p.required["agents"] :
           p.expected["agents"][a].max_delegation_depth \in 1..p.max_chain_depth
    /\ DOMAIN p.principal_tenant # {}
    /\ DOMAIN p.principal_tasks = DOMAIN p.principal_tenant
    /\ DOMAIN p.principal_levels = DOMAIN p.principal_tenant
    /\ \A o \in DOMAIN p.principal_tenant :
           /\ p.principal_tasks[o] # {}
           /\ DOMAIN p.principal_levels[o] # {}
           /\ \A f \in DOMAIN p.principal_levels[o] : p.principal_levels[o][f] > 0

UpstreamsValid(c) ==
    UpstreamsBound(c) /\ UpstreamsDistinct(c) /\ \A u \in DOMAIN c.up : DOMAIN c.up[u].facts # {}

ManifestValid(c) ==
    /\ ManifestBound(c) /\ ManifestCovers(c)
    /\ OwnersTrusted(c, {"agents", "delegations"})
    /\ ProfilesExpected(c, "agents", AgentProfile)
    /\ \A a \in Ids(c, "agents") : LET agent == Item(c, "agents", a) IN
           /\ agent.trust_domain \in c.policy.trust_domains
           /\ agent.p7b_path_ids \subseteq DOMAIN c.up["p7b"].facts
           /\ agent.p7h_route_ids \subseteq DOMAIN c.up["p7h"].facts
           /\ agent.max_delegation_depth \in 1..c.policy.max_chain_depth
           /\ agent.maximum_capability_ids \subseteq Ids(c, "capabilities")
    /\ ProfilesExpected(c, "capabilities", CapabilityProfile)
    /\ \A k \in Ids(c, "capabilities") : LET cap == Item(c, "capabilities", k) IN
           /\ cap.privilege_level > 0
           /\ cap.required_p7h_route_ids \subseteq DOMAIN c.up["p7h"].facts
           /\ cap.required_p7i_invariant_ids \subseteq DOMAIN c.up["p7i"].facts
    /\ \A d \in Ids(c, "delegations") : LET del == Item(c, "delegations", d) IN
           /\ Known(c, "agents", del.delegator_agent_id)
           /\ Known(c, "agents", del.delegatee_agent_id)
           /\ del.original_principal_id \in DOMAIN c.policy.principal_tenant
           /\ del.requested_capability_ids # {}
           /\ del.requested_capability_ids \subseteq Ids(c, "capabilities")
           /\ del.parent_delegation_id = None \/ Known(c, "delegations", del.parent_delegation_id)
           /\ del.original_request_sha256 # None
           /\ del.issued_at_epoch <= c.request.at + c.policy.skew
           /\ del.issued_at_epoch < del.expires_at_epoch
    /\ ~Cyclic(ParentsBy(c, "delegations", "parent_delegation_id"))

-----------------------------------------------------------------------------
(* evaluate_record. Levels are the highest privilege of each family held.         *)
LevelsOf(c, caps) ==
    [f \in {Item(c, "capabilities", k).family : k \in caps} |->
        Max({Item(c, "capabilities", k).privilege_level :
             k \in {x \in caps : Item(c, "capabilities", x).family = f}})]
Exceeds(cap, levels) ==
    cap.family \notin DOMAIN levels \/ cap.privilege_level > levels[cap.family]

(* What depends on the record alone, at a given depth of its chain.               *)
RecordRisks(c, d, depth) ==
    LET del == Item(c, "delegations", d)
        from == Item(c, "agents", del.delegator_agent_id)
        to == Item(c, "agents", del.delegatee_agent_id)
        asked == {Item(c, "capabilities", k) : k \in del.requested_capability_ids}
        routes == UNION {k.required_p7h_route_ids : k \in asked}
        invariants == UNION {k.required_p7i_invariant_ids : k \in asked}
        home == {del.tenant_id, "system"}
    IN Fired([
        chain_too_deep |-> depth > Min({c.policy.max_chain_depth, from.max_delegation_depth,
                                        to.max_delegation_depth}),
        untrusted_agent |-> ~to.accepts_delegation,
        cross_tenant |->
            \/ del.tenant_id # c.policy.principal_tenant[del.original_principal_id]
            \/ from.tenant_id \notin home \/ to.tenant_id \notin home
            \/ /\ {del.delegator_agent_id, del.delegatee_agent_id} \cap c.policy.shared # {}
               /\ del.tenant_id # "system"
               /\ \E k \in asked : k.tenant_scope = "tenant_bound",
        task_not_authorized |->
            del.task_class \notin c.policy.principal_tasks[del.original_principal_id],
        expired |-> del.expires_at_epoch <= c.request.at,
        confused_deputy |-> \E k \in asked :
            Exceeds(k, c.policy.principal_levels[del.original_principal_id]),
        scope_amplification |->
            \/ ~(del.requested_capability_ids \subseteq to.maximum_capability_ids)
            \/ ~(del.requested_capability_ids \subseteq from.maximum_capability_ids)
            \/ ~(routes \subseteq from.p7h_route_ids \cup to.p7h_route_ids),
        upstream_privilege_exposed |->
            \E p \in from.p7b_path_ids \cup to.p7b_path_ids : Fact(c, "p7b", p).exposed,
        control_plane_route_exposed |-> \E r \in routes : Fact(c, "p7h", r).exposed,
        architecture_invariant_unsafe |->
            \/ \E k \in asked : k.privileged /\ k.required_p7i_invariant_ids = {}
            \/ \E i \in invariants : Fact(c, "p7i", i).state \in {"degraded", "violated"}])

\* Mutant: the lifetime of the parent forgotten.
LinkRisksUntimed(c, d, effective) ==
    LET del == Item(c, "delegations", d)
        par == Item(c, "delegations", del.parent_delegation_id)
    IN Fired([
        chain_discontinuity |-> par.delegatee_agent_id # del.delegator_agent_id,
        identity_continuity |-> \/ par.original_principal_id # del.original_principal_id
                                \/ par.tenant_id # del.tenant_id,
        provenance_mismatch |-> \/ par.original_request_sha256 # del.original_request_sha256
                                \/ del.issued_at_epoch < par.issued_at_epoch,
        capability_laundering |-> \E k \in del.requested_capability_ids :
            Exceeds(Item(c, "capabilities", k), LevelsOf(c, effective))])

(* What depends on the parent and on the capabilities it effectively passed on.   *)
LinkRisks(c, d, effective) ==
    LET del == Item(c, "delegations", d)
        par == Item(c, "delegations", del.parent_delegation_id)
    IN Fired([
        chain_discontinuity |-> par.delegatee_agent_id # del.delegator_agent_id,
        identity_continuity |-> \/ par.original_principal_id # del.original_principal_id
                                \/ par.tenant_id # del.tenant_id,
        provenance_mismatch |-> \/ par.original_request_sha256 # del.original_request_sha256
                                \/ del.issued_at_epoch < par.issued_at_epoch
                                \/ del.expires_at_epoch > par.expires_at_epoch,
        capability_laundering |-> \E k \in del.requested_capability_ids :
            Exceeds(Item(c, "capabilities", k), LevelsOf(c, effective))])

\* Mutant: a refused parent passes on what it asked for.
FactsAsRequested(c) ==
    LET parent == ParentsBy(c, "delegations", "parent_delegation_id")
        depth(d) == Cardinality(AncestorsOf(parent, d))
        risks[d \in Ids(c, "delegations")] ==
            RecordRisks(c, d, depth(d)) \cup
            IF d \notin DOMAIN parent THEN {}
            ELSE LinkRisks(c, d, Item(c, "delegations", parent[d]).requested_capability_ids)
    IN risks

Facts(c) ==
    LET parent == ParentsBy(c, "delegations", "parent_delegation_id")
        depth(d) == Cardinality(AncestorsOf(parent, d))
        risks[d \in Ids(c, "delegations")] ==
            RecordRisks(c, d, depth(d)) \cup
            IF d \notin DOMAIN parent THEN {}
            ELSE LinkRisks(c, d, IF risks[parent[d]] # {} THEN {}
                                 ELSE Item(c, "delegations", parent[d]).requested_capability_ids)
    IN risks

Asked(c) == RequestBound(c, {"delegations"})

Evaluate(c) ==
    Outcome(c, Asked(c), PolicyValid(c) /\ UpstreamsValid(c) /\ ManifestValid(c), Facts, Truth)

(* A delegation rests on the one it was derived from.                             *)
RestsOn(c) ==
    LET parent == ParentsBy(c, "delegations", "parent_delegation_id")
    IN {<<d, parent[d]>> : d \in DOMAIN parent}

(* What delegation d has of one above it in its chain, a: the same principal,     *)
(* tenant and request, no longer a life, and no capability that a did not ask for *)
(* at that level of its family.                                                   *)
Attenuates(c, d, a) ==
    LET del == Item(c, "delegations", d)
        above == Item(c, "delegations", a)
        cap(k) == Item(c, "capabilities", k)
    IN /\ del.original_principal_id = above.original_principal_id
       /\ del.tenant_id = above.tenant_id
       /\ del.original_request_sha256 = above.original_request_sha256
       /\ above.issued_at_epoch <= del.issued_at_epoch
       /\ del.expires_at_epoch <= above.expires_at_epoch
       /\ \A k \in del.requested_capability_ids : \E j \in above.requested_capability_ids :
              cap(j).family = cap(k).family /\ cap(k).privilege_level <= cap(j).privilege_level

(* All that an allowed delegation comes from is allowed and had what it hands on. *)
Attenuated(c, facts) ==
    \A d \in Ids(c, "delegations") \ Denied(facts) :
        \A a \in AncestorsOf(ParentsBy(c, "delegations", "parent_delegation_id"), d) :
            a \notin Denied(facts) /\ Attenuates(c, d, a)

-----------------------------------------------------------------------------
(* The evaluation's fixture: a chain of two tool delegations and a deployment.    *)

AgentIdentity(role, tenant, domain, caps, path, routes) ==
    [role |-> role, tenant_id |-> tenant, trust_domain |-> domain, owner_id |-> "owner",
     maximum_capability_ids |-> caps, p7b_path_ids |-> {path}, p7h_route_ids |-> routes,
     accepts_delegation |-> TRUE, max_delegation_depth |-> 3]
AgentCapability(family, level, scope, privileged, routes, invariants) ==
    [family |-> family, privilege_level |-> level, tenant_scope |-> scope,
     privileged |-> privileged, required_p7h_route_ids |-> routes,
     required_p7i_invariant_ids |-> invariants]
DelegationRecord(parent, principal, from, to, task, tenant, caps, issued, expires) ==
    [parent_delegation_id |-> parent, original_principal_id |-> principal,
     delegator_agent_id |-> from, delegatee_agent_id |-> to, task_class |-> task,
     tenant_id |-> tenant, requested_capability_ids |-> caps,
     original_request_sha256 |-> task, issued_at_epoch |-> issued,
     expires_at_epoch |-> expires, owner_id |-> "owner"]

Items ==
    LET tools == {"tool.read", "tool.write"} IN
    [agents |-> [
        orchestrator |-> AgentIdentity("orchestrator", "tenant-a", "runtime", tools, "path-o", {}),
        broker |-> AgentIdentity("tool_broker", "tenant-a", "runtime", tools, "path-b", {}),
        executor |-> AgentIdentity("tool_agent", "tenant-a", "runtime", tools, "path-e", {}),
        release_orchestrator |-> AgentIdentity("orchestrator", "system", "release",
                                               {"model.deploy"}, "path-p", {"promote"}),
        releaser |-> AgentIdentity("release_agent", "system", "release", {"model.deploy"},
                                   "path-r", {"promote"})],
     capabilities |-> [x \in tools \cup {"model.deploy"} |->
        IF x = "model.deploy"
        THEN AgentCapability("model", 3, "system", TRUE, {"promote"}, {"release"})
        ELSE AgentCapability("tool", IF x = "tool.read" THEN 1 ELSE 2, "tenant_bound",
                             x = "tool.write", {}, {"authz"})],
     delegations |-> [
        root |-> DelegationRecord(None, "user-a", "orchestrator", "broker", "tool_lookup",
                                  "tenant-a", {"tool.read"}, -120, 1800),
        child |-> DelegationRecord("root", "user-a", "broker", "executor", "tool_lookup",
                                   "tenant-a", {"tool.read"}, -90, 1500),
        deploy |-> DelegationRecord(None, "admin", "release_orchestrator", "releaser",
                                    "model_release", "system", {"model.deploy"}, -80, 900)]]

Upstreams ==
    [p7b |-> [x \in {"path-o", "path-b", "path-e", "path-p", "path-r"} |-> [exposed |-> FALSE]],
     p7h |-> [promote |-> [exposed |-> FALSE]],
     p7i |-> [authz |-> [state |-> "holds"], release |-> [state |-> "holds"]]]

(* The fields of AgentDelegationPolicy that are not expectations of single items. *)
Principals ==
    LET ids == {"user-a", "limited", "admin"} IN
    [trust_domains |-> {"runtime", "release"}, max_chain_depth |-> 3,
     shared |-> {"release_orchestrator", "releaser"},
     principal_tenant |-> [x \in ids |-> IF x = "admin" THEN "system" ELSE "tenant-a"],
     principal_tasks |-> [x \in ids |-> IF x = "admin" THEN {"model_release"}
                                        ELSE {"tool_lookup"}],
     principal_levels |-> [x \in ids |-> IF x = "admin" THEN [model |-> 3]
                                         ELSE [tool |-> IF x = "limited" THEN 1 ELSE 2]]]

Base == Context(Items, {"agents", "capabilities"}, Upstreams, {"delegations"}, Principals,
                Canonical)

(* Inventory, drift, reference, policy and upstream cases.                        *)
DocumentCases ==
    {<<"agents", "executor", "trust_domain", Other>>, <<"agents", "executor", "role", Other>>,
     <<"agents", "executor", "tenant_id", Other>>, <<"agents", "releaser", "trust_domain", "runtime">>,
     <<"agents", "broker", "maximum_capability_ids", {"tool.read"}>>,
     <<"agents", "broker", "p7b_path_ids", {"path-e"}>>, <<"agents", "broker", "p7b_path_ids", {Other}>>,
     <<"agents", "releaser", "p7h_route_ids", {}>>, <<"agents", "releaser", "p7h_route_ids", {Other}>>,
     <<"agents", "releaser", "max_delegation_depth", 1>>,
     <<"capabilities", "model.deploy", "family", Other>>,
     <<"capabilities", "model.deploy", "privilege_level", 1>>,
     <<"capabilities", "model.deploy", "tenant_scope", "tenant_bound">>,
     <<"capabilities", "model.deploy", "required_p7h_route_ids", {}>>,
     <<"capabilities", "model.deploy", "required_p7h_route_ids", {Other}>>,
     <<"capabilities", "model.deploy", "required_p7i_invariant_ids", {Other}>>}

SwitchCases ==
    {<<"agents", "releaser", "accepts_delegation", FALSE>>,
     <<"capabilities", "model.deploy", "privileged", FALSE>>}

DocumentEdits(c) ==
    CommonEdits(c) \cup PinEdits(c) \cup RepeatEdits(c)
    \cup FieldEdits(c, DocumentCases \cup SwitchCases)
    \cup PolicyEdits(c, {<<"max_chain_depth", 0>>, <<"max_chain_depth", 2>>,
        <<"principal_tasks", [c.policy.principal_tasks EXCEPT !["user-a"] = {}]>>,
        <<"principal_tasks", Without(c.policy.principal_tasks, "limited")>>})

(* Structure and semantics of the delegations.                                    *)
DelegationCases ==
    {<<"delegations", "root", "delegator_agent_id", Other>>,
     <<"delegations", "root", "delegatee_agent_id", Other>>,
     <<"delegations", "root", "original_principal_id", Other>>,
     <<"delegations", "root", "requested_capability_ids", {}>>,
     <<"delegations", "root", "requested_capability_ids", {Other}>>,
     <<"delegations", "root", "parent_delegation_id", Other>>,
     <<"delegations", "root", "parent_delegation_id", "child">>,
     <<"delegations", "root", "original_request_sha256", None>>,
     <<"delegations", "root", "issued_at_epoch", 300>>,
     <<"delegations", "root", "expires_at_epoch", -200>>,
     <<"delegations", "root", "expires_at_epoch", 0>>,
     <<"delegations", "root", "tenant_id", "tenant-b">>,
     <<"delegations", "root", "task_class", "model_release">>,
     <<"delegations", "root", "requested_capability_ids", {"model.deploy"}>>,
     <<"delegations", "deploy", "requested_capability_ids", {"tool.read"}>>,
     <<"delegations", "child", "requested_capability_ids", {"tool.write"}>>,
     <<"delegations", "child", "delegator_agent_id", "orchestrator">>,
     <<"delegations", "child", "original_principal_id", "limited">>,
     <<"delegations", "child", "original_request_sha256", Other>>,
     <<"delegations", "child", "expires_at_epoch", 1900>>}

AgentCases ==
    {<<"agents", "broker", "accepts_delegation", FALSE>>}
    \cup
    {<<"agents", "executor", "max_delegation_depth", 1>>,
     <<"capabilities", "model.deploy", "required_p7i_invariant_ids", {}>>}

DelegationEdits(c) ==
    FieldEdits(c, DelegationCases) \cup CoherentEdits(c, AgentCases)
    \cup FactEdits(c, {<<"p7b", "path-r", "exposed", TRUE>>, <<"p7h", "promote", "exposed", TRUE>>,
                       <<"p7i", "release", "state", "violated">>})

Edits(c) == DocumentEdits(c) \cup DelegationEdits(c)
=============================================================================
