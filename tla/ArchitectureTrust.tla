--------------------------- MODULE ArchitectureTrust ---------------------------
(* What the architecture relies on: the third parties its services call,           *)
(* aegis/architecture/dependency_trust.py (P7-E); the administrative changes that  *)
(* can reconfigure it, control_plane_security.py beside it (P7-H); and the         *)
(* invariants that earlier analyses together uphold, invariant_blast_radius.py     *)
(* (P7-I). None of them walks a graph: a route, a change and an invariant are      *)
(* listed in the manifest and judged one by one.                                   *)
EXTENDS DataPaths

(* The request repeats the scope, in any number of copies.                         *)
ScopeAsked(c) ==
    /\ c.request.identity = "expected" /\ c.request.sha = c.policy.sha
    /\ c.request.pins = c.policy.pins
    /\ c.request.ids = ScopeOf(c.policy.entries, c.policy.targets)

(* A control's weakness counts once, however many controls share it.               *)
AnyWeak(c, controls) == {weak[1] : weak \in Weak(c, controls)}

-----------------------------------------------------------------------------
(* P7-E: external dependencies                                                     *)

EgressRank == [public |-> 1, internal |-> 2, confidential |-> 3, restricted |-> 4, secret |-> 5]

DependencyPolicyValid(c) ==
    /\ PolicyFormed(c)
    /\ \A part \in {"entries", "targets", "providers"} : c.policy[part] # {}
    /\ \A kind \in {"dependencies", "routes"} : c.policy.required[kind] # {}

DependencyUpstreamsValid(c) ==
    /\ c.architecture = c.policy.pins["architecture"] /\ PostureBound(c)
    /\ \A u \in {"p7a", "p7b", "p7c", "p7d"} :
           /\ c.up[u].verified /\ c.up[u].digest = c.policy.pins[u]
           /\ c.up[u].facts["evidence"].architecture = c.architecture.version

DependenciesValid(c) ==
    /\ OwnersTrusted(c, {"dependencies"})
    /\ ProfilesExpected(c, "dependencies",
           {"dependency_type", "endpoint_host", "endpoint_port", "transport_mode", "authentication_mode",
            "expected_server_identity", "required_control_ids", "fail_closed"})
    /\ ControlsKnown(c, "dependencies")
    /\ \A d \in Ids(c, "dependencies") :
           LET dependency == Item(c, "dependencies", d)
               expected == c.policy.expected["dependencies"][d]
           IN /\ dependency.provider_id \in c.policy.providers
              /\ SensitivityRank[dependency.criticality] >= SensitivityRank[expected.criticality]
              /\ dependency.egress_data_classes \subseteq expected.egress_data_classes
              /\ dependency.exposed_secret_ids \subseteq expected.exposed_secret_ids

(* A route comes over a chain of flows that ends at the service making the call;   *)
(* where the chain starts, and whose controls it passes, is not asked.             *)
EgressRoutesValid(c) ==
    /\ OwnersTrusted(c, {"routes"})
    /\ ProfilesExpected(c, "routes", {"source_asset_id", "dependency_id", "via_flow_ids", "required_control_ids"})
    /\ ControlsKnown(c, "routes")
    /\ \A r \in Ids(c, "routes") :
           LET route == Item(c, "routes", r) IN
           /\ route.source_asset_id \in c.architecture.assets /\ Known(c, "dependencies", route.dependency_id)
           /\ route.via_flow_ids # << >> /\ route.via_flow_ids[1] \in DOMAIN c.architecture.flows
           /\ RouteConnects(c, route.via_flow_ids,
                            c.architecture.flows[route.via_flow_ids[1]].source_asset_id, route.source_asset_id)

DependencyManifestValid(c) ==
    /\ ManifestBound(c) /\ c.manifest.pins["architecture"] = c.policy.pins["architecture"]
    /\ ManifestCovers(c) /\ DependenciesValid(c) /\ EgressRoutesValid(c)

EgressControls(c, r) ==
    LET route == Item(c, "routes", r)
    IN route.required_control_ids \cup Item(c, "dependencies", route.dependency_id).required_control_ids

DependencyReasons(c, r) ==
    LET dependency == Item(c, "dependencies", Item(c, "routes", r).dependency_id)
    IN Fired([plaintext |-> dependency.transport_mode = "plaintext",
              unauthenticated |-> dependency.authentication_mode = None,
              missing_identity |-> dependency.expected_server_identity = None,
              fail_open |-> dependency.criticality = "critical" /\ ~dependency.fail_closed])
       \cup AnyWeak(c, EgressControls(c, r))

DependencyScore(c, r) ==
    LET dependency == Item(c, "dependencies", Item(c, "routes", r).dependency_id)
        weak == Weak(c, EgressControls(c, r))
    IN SensitivityRank[dependency.criticality] * 20 + Bonus(24, dependency.exposed_secret_ids # {})
       + MaxOf({EgressRank[x] - 2 : x \in dependency.egress_data_classes} \cup {0}) * 8
       + CountOf(weak, "exceptioned") * 14 + CountOf(weak, "not_evaluated") * 12
       + Bonus(30, dependency.transport_mode = "plaintext")
       + Bonus(24, dependency.authentication_mode = None) + Bonus(18, ~dependency.fail_closed)

DependencyFacts(c) ==
    [r \in {r \in Ids(c, "routes") : /\ Item(c, "routes", r).source_asset_id \in c.policy.entries
                                     /\ Item(c, "routes", r).dependency_id \in c.policy.targets} |->
        DependencyReasons(c, r)]

DependencyEvaluate(c) ==
    Outcome(c, ScopeAsked(c),
            DependencyPolicyValid(c) /\ DependencyUpstreamsValid(c) /\ DependencyManifestValid(c),
            DependencyFacts, LAMBDA facts : PathTruth(facts, LAMBDA r : DependencyScore(c, r)))

-----------------------------------------------------------------------------
(* The evaluation's third parties and the routes to them; each has one control.    *)

ExternalDependency(type, criticality, transport, authentication, classes, secrets) ==
    [provider_id |-> type, dependency_type |-> type, criticality |-> criticality, endpoint_host |-> type,
     endpoint_port |-> 443, transport_mode |-> transport, authentication_mode |-> authentication,
     expected_server_identity |-> type, owner_id |-> "owner", egress_data_classes |-> classes,
     exposed_secret_ids |-> secrets, required_control_ids |-> {type}, fail_closed |-> TRUE]
ServiceEgressRoute(source, dependency, flows) ==
    [source_asset_id |-> source, dependency_id |-> dependency, owner_id |-> "owner", via_flow_ids |-> flows,
     required_control_ids |-> {dependency}]

DependencyArchitecture ==
    [version |-> "expected", assets |-> {"external", "api", "agent", "tool", "runtime", "telemetry"},
     flows |-> [user |-> ArchitectureFlow("external", "api", {"edge"}),
                agent |-> ArchitectureFlow("api", "agent", {"authz"}),
                tool |-> ArchitectureFlow("agent", "tool", {"auth"}),
                model |-> ArchitectureFlow("agent", "runtime", {"isolation"}),
                telemetry |-> ArchitectureFlow("runtime", "telemetry", {"integrity"})]]

DependencyItems ==
    [dependencies |->
        [model |-> ExternalDependency("model", "high", "mtls", "oauth2", {"internal", "confidential"}, {}),
         tool |-> ExternalDependency("tool", "critical", "mtls", "signed", {"confidential", "restricted"}, {"tool"}),
         telemetry |-> ExternalDependency("telemetry", "medium", "tls", "oauth2", {"internal", "confidential"}, {}),
         registry |-> ExternalDependency("registry", "high", "private_link", "mtls", {"internal"}, {}),
         idp |-> ExternalDependency("idp", "critical", "mtls", "mtls", {"internal"}, {})],
     routes |->
        [model |-> ServiceEgressRoute("runtime", "model", <<"user", "agent", "model">>),
         tool |-> ServiceEgressRoute("tool", "tool", <<"user", "agent", "tool">>),
         telemetry |-> ServiceEgressRoute("telemetry", "telemetry", <<"user", "agent", "model", "telemetry">>),
         registry |-> ServiceEgressRoute("runtime", "registry", <<"user", "agent", "model">>),
         idp |-> ServiceEgressRoute("api", "idp", <<"user">>)]]

DependencyUpstreams ==
    [posture |-> Satisfied({"model", "tool", "telemetry", "registry", "idp"})]
    @@ [u \in {"p7a", "p7b", "p7c", "p7d"} |-> [evidence |-> [architecture |-> "expected"]]]
DependencyRules ==
    [entries |-> {"runtime", "tool", "telemetry", "api"}, targets |-> DOMAIN DependencyItems.dependencies,
     providers |-> DOMAIN DependencyItems.dependencies, catalog |-> "catalog"]
DependencyCanonical == AllFields(DependencyItems)
DependencyBase ==
    Truthful(WithArchitecture(WithPosture(Scoped(
        Context(DependencyItems, DOMAIN DependencyItems, DependencyUpstreams, {"routes"}, DependencyRules,
                DependencyCanonical))), DependencyArchitecture), DependencyEvaluate)

DependencyDriftEdits(c) ==
    FieldEdits(c, {<<"dependencies", "tool", "provider_id", Other>>,
                   <<"dependencies", "tool", "dependency_type", "telemetry">>,
                   <<"dependencies", "tool", "criticality", "low">>,
                   <<"dependencies", "tool", "endpoint_host", Other>>, <<"dependencies", "tool", "endpoint_port", 80>>,
                   <<"dependencies", "tool", "transport_mode", "plaintext">>,
                   <<"dependencies", "tool", "authentication_mode", None>>,
                   <<"dependencies", "tool", "expected_server_identity", Other>>,
                   <<"dependencies", "model", "egress_data_classes", {"internal", "confidential", "secret"}>>,
                   <<"dependencies", "model", "exposed_secret_ids", {"root"}>>,
                   <<"dependencies", "tool", "required_control_ids", {}>>,
                   <<"dependencies", "tool", "fail_closed", FALSE>>,
                   <<"routes", "tool", "source_asset_id", "runtime">>, <<"routes", "tool", "dependency_id", "model">>,
                   <<"routes", "tool", "via_flow_ids", <<"user", "agent", "model">>>>,
                   <<"routes", "tool", "via_flow_ids", <<"user", "tool">>>>,
                   <<"routes", "tool", "required_control_ids", {}>>})

(* Approved by the policy as well: the route no longer fits the architecture, or   *)
(* the dependency is trusted less.                                                 *)
DependencyCoherentEdits(c) ==
    CoherentEdits(c, {<<"routes", "tool", "via_flow_ids", <<"user", "tool">>>>,
                      <<"routes", "tool", "via_flow_ids", << >>>>,
                      <<"routes", "tool", "source_asset_id", "runtime">>,
                      <<"routes", "tool", "required_control_ids", {Other}>>,
                      <<"dependencies", "tool", "transport_mode", "plaintext">>,
                      <<"dependencies", "model", "authentication_mode", None>>,
                      <<"dependencies", "idp", "expected_server_identity", None>>,
                      <<"dependencies", "tool", "fail_closed", FALSE>>})

DependencyPolicyEdits(c) ==
    PolicyEdits(c, {<<"owners", {}>>, <<"providers", {}>>, <<"entries", {}>>, <<"targets", {"tool"}>>,
                    <<"max_age", 0>>})

DependencyEdits(c) ==
    CommonEdits(c) \cup DependencyDriftEdits(c) \cup DependencyCoherentEdits(c) \cup DependencyPolicyEdits(c)
    \cup ArchitectureEdits(c, "tool") \cup PostureEdits(c, {"tool", "model"})
    \cup FactEdits(c, {<<u, "evidence", "architecture", Other>> : u \in {"p7a", "p7b", "p7c", "p7d"}})
-----------------------------------------------------------------------------
(* P7-H: administrative changes. A binding <<upstream, id>> ties a resource to an  *)
(* item of an earlier assessment, or to a control of the posture.                  *)

ChangePolicyValid(c) ==
    LET expected == c.policy.expected["routes"] IN
    /\ PolicyFormed(c)
    /\ \A kind \in DOMAIN c.policy.required : c.policy.required[kind] # {}
    /\ c.policy.approvers # {} /\ c.policy.executors # {} /\ c.policy.observation_age > 0
    /\ \A r \in c.policy.required["routes"] :
           /\ expected[r].principal_id \in c.policy.required["principals"]
           /\ expected[r].resource_id \in c.policy.required["resources"]
           /\ expected[r].approval_principal_ids # {}
           /\ expected[r].approval_principal_ids \subseteq c.policy.approvers \ {expected[r].principal_id}
           /\ expected[r].execution_identity_id \in c.policy.executors

ChangeUpstreamsValid(c) ==
    /\ PostureBound(c)
    /\ \A u \in {"p7b", "p7e", "p7f", "p7g"} :
           c.up[u].verified /\ c.up[u].digest = c.policy.pins[u] /\ ~c.up[u].repeated

BindingKnown(c, binding) == binding[1] \in DOMAIN c.up /\ HasFact(c, binding[1], binding[2])
BindingExposed(c, binding) ==
    LET fact == Fact(c, binding[1], binding[2])
    IN IF binding[1] = "posture" THEN fact.status # "satisfied"
       ELSE IF binding[1] = "p7g" THEN fact.blind_spot ELSE fact.exposed
TelemetryKnown(c, kind, field) ==
    \A x \in Ids(c, kind) : Item(c, kind, x)[field] \subseteq DOMAIN c.up["p7g"].facts

AdministratorsValid(c) ==
    /\ ProfilesExpected(c, "principals", {"principal_type", "p7b_path_ids", "break_glass_capable"})
    /\ \A p \in Ids(c, "principals") : Item(c, "principals", p).p7b_path_ids \subseteq DOMAIN c.up["p7b"].facts

ResourcesValid(c) ==
    /\ ProfilesExpected(c, "resources",
           {"resource_type", "upstream_binding_ids", "required_control_ids", "required_telemetry_requirement_ids",
            "separation_of_duties_required", "break_glass_permitted"})
    /\ ControlsKnown(c, "resources") /\ TelemetryKnown(c, "resources", "required_telemetry_requirement_ids")
    /\ \A x \in Ids(c, "resources") :
           LET resource == Item(c, "resources", x) IN
           /\ SensitivityRank[resource.sensitivity]
                  >= SensitivityRank[c.policy.expected["resources"][x].sensitivity]
           /\ resource.current_version # None
           /\ \A binding \in resource.upstream_binding_ids : BindingKnown(c, binding)

(* An emergency needs a principal and a resource made for it, and a reason.        *)
BreakGlassValid(route, principal, resource) ==
    IF route.break_glass
    THEN principal.break_glass_capable /\ resource.break_glass_permitted /\ route.emergency_reason # None
    ELSE route.emergency_reason = None

ChangeRouteValid(c, route) ==
    LET principal == Item(c, "principals", route.principal_id)
        resource == Item(c, "resources", route.resource_id)
    IN /\ route.execution_identity_id \in c.policy.executors
       /\ route.approval_principal_ids \subseteq c.policy.approvers
       /\ resource.separation_of_duties_required => route.principal_id \notin route.approval_principal_ids
       /\ resource.required_control_ids \subseteq route.required_control_ids
       /\ resource.required_telemetry_requirement_ids \subseteq route.telemetry_requirement_ids
       /\ route.proposed_version # resource.current_version
       /\ route.target_state_sha256 # None /\ route.change_ticket_id # None
       /\ BreakGlassValid(route, principal, resource)
       /\ route.verified_at_epoch - c.request.at <= c.policy.skew
       /\ c.request.at - route.verified_at_epoch <= c.policy.observation_age

ChangeRoutesValid(c) ==
    /\ \A r \in Ids(c, "routes") :
           /\ Known(c, "principals", Item(c, "routes", r).principal_id)
           /\ Known(c, "resources", Item(c, "routes", r).resource_id)
    /\ ProfilesExpected(c, "routes",
           {"principal_id", "resource_id", "operation", "execution_identity_id", "approval_principal_ids",
            "required_control_ids", "telemetry_requirement_ids", "proposed_version", "break_glass"})
    /\ ControlsKnown(c, "routes") /\ TelemetryKnown(c, "routes", "telemetry_requirement_ids")
    /\ \A r \in Ids(c, "routes") : ChangeRouteValid(c, Item(c, "routes", r))

ChangeManifestValid(c) ==
    /\ ManifestBound(c) /\ ManifestCovers(c) /\ c.manifest.pins = c.policy.pins
    /\ OwnersTrusted(c, {"principals", "resources", "routes"})
    /\ AdministratorsValid(c) /\ ResourcesValid(c) /\ ChangeRoutesValid(c)

(* A change is exposed by what it rests on, or because it touches the very policy  *)
(* that lets its principal act, or the very telemetry that reports it.             *)
ChangeReasons(c, r) ==
    LET route == Item(c, "routes", r)
        principal == Item(c, "principals", route.principal_id)
        resource == Item(c, "resources", route.resource_id)
        bindings == resource.upstream_binding_ids
    IN Fired([admin_path |-> \E x \in principal.p7b_path_ids : Fact(c, "p7b", x).exposed,
              upstream |-> \E binding \in bindings : BindingExposed(c, binding),
              blind_spot |-> \E x \in route.telemetry_requirement_ids : Fact(c, "p7g", x).blind_spot,
              self_authorization |-> /\ resource.resource_type = "authorization"
                                     /\ \E x \in principal.p7b_path_ids : <<"p7b", x>> \in bindings,
              self_audit |-> /\ resource.resource_type = "telemetry"
                             /\ \E x \in route.telemetry_requirement_ids : <<"p7g", x>> \in bindings,
              destructive |-> resource.sensitivity = "critical" /\ route.operation \in {"disable", "delete"}])
       \cup AnyWeak(c, route.required_control_ids)

ChangeWeights ==
    [admin_path |-> 28, upstream |-> 24, exceptioned |-> 18, not_evaluated |-> 16, blind_spot |-> 26,
     self_authorization |-> 32, self_audit |-> 35, destructive |-> 30]
ChangeScore(c, r) ==
    LET base == [low |-> 20, medium |-> 40, high |-> 65, critical |-> 85]
    IN base[Item(c, "resources", Item(c, "routes", r).resource_id).sensitivity]
       + MapThenSumSet(LAMBDA x : ChangeWeights[x], ChangeReasons(c, r))

ChangeFacts(c) == [r \in Ids(c, "routes") |-> ChangeReasons(c, r)]

ChangeEvaluate(c) ==
    Outcome(c, RequestBound(c, {"routes"}),
            ChangePolicyValid(c) /\ ChangeUpstreamsValid(c) /\ ChangeManifestValid(c),
            ChangeFacts, LAMBDA facts : PathTruth(facts, LAMBDA r : ChangeScore(c, r)))

-----------------------------------------------------------------------------
(* The evaluation's control plane, without the gate of releases and the assurance  *)
(* settings, which are configured like the egress policy.                          *)

AdministrativePrincipal(type, path, emergency) ==
    [principal_type |-> type, owner_id |-> "owner", p7b_path_ids |-> {path}, break_glass_capable |-> emergency]
ControlPlaneResource(type, sensitivity, bindings, control, telemetry, emergency) ==
    [resource_type |-> type, sensitivity |-> sensitivity, owner_id |-> "owner", current_version |-> "v1",
     upstream_binding_ids |-> bindings, required_control_ids |-> {"approval", control},
     required_telemetry_requirement_ids |-> {"change"} \cup telemetry, separation_of_duties_required |-> TRUE,
     break_glass_permitted |-> emergency]
AdministrativeChangeRoute(principal, resource, operation, control, telemetry, emergency) ==
    [principal_id |-> principal, resource_id |-> resource, operation |-> operation, owner_id |-> "owner",
     execution_identity_id |-> resource, approval_principal_ids |-> {"security", "platform"},
     required_control_ids |-> {"approval", control}, telemetry_requirement_ids |-> {"change"} \cup telemetry,
     proposed_version |-> "v2", target_state_sha256 |-> resource, break_glass |-> emergency,
     emergency_reason |-> IF emergency THEN "reason" ELSE None, verified_at_epoch |-> 30,
     change_ticket_id |-> "ticket"]

ChangeItems ==
    [principals |->
        [authz |-> AdministrativePrincipal("security", "admin_authz", FALSE),
         observability |-> AdministrativePrincipal("security", "admin_observability", FALSE),
         network |-> AdministrativePrincipal("security", "admin_network", FALSE),
         breakglass |-> AdministrativePrincipal("break_glass", "admin_breakglass", TRUE)],
     resources |->
        [authz |-> ControlPlaneResource("authorization", "critical", {<<"p7b", "target_authz">>}, "authz", {"privilege"}, FALSE),
         telemetry |-> ControlPlaneResource("telemetry", "critical", {<<"p7g", "egress">>, <<"p7g", "failover">>},
                                            "integrity", {}, FALSE),
         egress |-> ControlPlaneResource("egress", "critical", {<<"p7e", "model">>, <<"p7e", "tool">>}, "egress",
                                         {"egress"}, FALSE),
         fallback |-> ControlPlaneResource("fallback", "high", {<<"p7f", "model">>, <<"p7f", "tool">>}, "fallback",
                                           {"failover"}, FALSE),
         trust |-> ControlPlaneResource("trust", "critical", {<<"p7e", "model">>, <<"posture", "trust">>}, "trust", {}, TRUE)],
     routes |->
        [authz |-> AdministrativeChangeRoute("authz", "authz", "update", "authz", {"privilege"}, FALSE),
         telemetry |-> AdministrativeChangeRoute("observability", "telemetry", "update", "integrity", {}, FALSE),
         egress |-> AdministrativeChangeRoute("network", "egress", "update", "egress", {"egress"}, FALSE),
         fallback |-> AdministrativeChangeRoute("network", "fallback", "update", "fallback", {"failover"}, FALSE),
         trust |-> AdministrativeChangeRoute("authz", "trust", "rotate", "trust", {}, FALSE),
         emergency |-> AdministrativeChangeRoute("breakglass", "trust", "rotate", "trust", {}, TRUE)]]

Unexposed(ids) == [x \in ids |-> [exposed |-> FALSE]]
ChangeUpstreams ==
    [posture |-> Satisfied({"approval", "authz", "integrity", "egress", "fallback", "trust"}),
     p7b |-> Unexposed({"admin_authz", "admin_observability", "admin_network", "admin_breakglass", "target_authz"}),
     p7e |-> Unexposed({"model", "tool"}), p7f |-> Unexposed({"model", "tool"}),
     p7g |-> [x \in {"change", "privilege", "egress", "failover"} |-> [blind_spot |-> FALSE]]]
ChangeRules ==
    [approvers |-> {"security", "platform", "incident"}, executors |-> DOMAIN ChangeItems.resources,
     observation_age |-> 40, catalog |-> "catalog"]
ChangeCanonical == AllFields(ChangeItems)
ChangeBase ==
    Truthful(WithPosture(Context(ChangeItems, DOMAIN ChangeItems, ChangeUpstreams, {"routes"}, ChangeRules,
                                 ChangeCanonical)), ChangeEvaluate)

ChangeDriftEdits(c) ==
    FieldEdits(c,
             {<<"principals", "authz", "principal_type", "human">>,
              <<"principals", "authz", "p7b_path_ids", {"admin_network"}>>,
              <<"principals", "authz", "break_glass_capable", TRUE>>,
              <<"resources", "egress", "resource_type", "trust">>, <<"resources", "egress", "sensitivity", "low">>,
              <<"resources", "egress", "upstream_binding_ids", {<<"p7e", "model">>}>>,
              <<"resources", "egress", "required_control_ids", {"approval"}>>,
              <<"resources", "egress", "required_telemetry_requirement_ids", {"change"}>>,
              <<"resources", "egress", "separation_of_duties_required", FALSE>>,
              <<"resources", "egress", "break_glass_permitted", TRUE>>,
              <<"resources", "egress", "current_version", None>>,
              <<"routes", "egress", "principal_id", Other>>, <<"routes", "egress", "principal_id", "authz">>,
              <<"routes", "egress", "resource_id", Other>>, <<"routes", "egress", "resource_id", "trust">>,
              <<"routes", "egress", "operation", "delete">>, <<"routes", "egress", "execution_identity_id", Other>>,
              <<"routes", "egress", "execution_identity_id", "trust">>,
              <<"routes", "egress", "approval_principal_ids", {"security"}>>,
              <<"routes", "egress", "required_control_ids", {"approval"}>>,
              <<"routes", "egress", "telemetry_requirement_ids", {"change"}>>,
              <<"routes", "egress", "proposed_version", "v3">>, <<"routes", "egress", "proposed_version", "v1">>,
              <<"routes", "egress", "target_state_sha256", None>>, <<"routes", "egress", "break_glass", TRUE>>,
              <<"routes", "emergency", "emergency_reason", None>>, <<"routes", "egress", "emergency_reason", "reason">>,
              <<"routes", "egress", "change_ticket_id", None>>, <<"routes", "egress", "verified_at_epoch", 19>>,
              <<"routes", "egress", "verified_at_epoch", 91>>})

(* Approved by the policy as well: dangling references, a route that asks for less *)
(* than its resource, and the changes that govern themselves.                      *)
ChangeCoherentEdits(c) ==
    CoherentEdits(c, {<<"resources", "egress", "upstream_binding_ids", {<<"p7e", Other>>}>>,
                      <<"resources", "egress", "upstream_binding_ids", {<<Other, "model">>}>>,
                      <<"principals", "authz", "p7b_path_ids", {Other}>>,
                      <<"resources", "egress", "required_control_ids", {"approval", "egress", Other}>>,
                      <<"routes", "egress", "required_control_ids", {"approval"}>>,
                      <<"routes", "egress", "telemetry_requirement_ids", {"change"}>>,
                      <<"routes", "egress", "approval_principal_ids", {"network", "security"}>>,
                      <<"routes", "egress", "approval_principal_ids", {"security", Other}>>,
                      <<"routes", "egress", "approval_principal_ids", {}>>,
                      <<"routes", "egress", "break_glass", TRUE>>, <<"routes", "egress", "proposed_version", "v1">>,
                      <<"resources", "authz", "upstream_binding_ids", {<<"p7b", "admin_authz">>}>>,
                      <<"resources", "telemetry", "upstream_binding_ids", {<<"p7g", "change">>, <<"p7g", "failover">>}>>,
                      <<"routes", "egress", "operation", "delete">>})

ChangeUpstreamEdits(c) ==
    RepeatEdits(c) \cup PinEdits(c) \cup PostureEdits(c, {"approval", "trust"})
    \cup FactEdits(c, {<<"p7b", "admin_network", "exposed", TRUE>>, <<"p7e", "model", "exposed", TRUE>>,
                       <<"p7f", "model", "exposed", TRUE>>, <<"p7g", "change", "blind_spot", TRUE>>})
    \cup MissingFacts(c, {"p7g"})

ChangePolicyEdits(c) ==
    PolicyEdits(c, {<<"approvers", {}>>, <<"executors", {}>>, <<"observation_age", 0>>, <<"owners", {}>>})

ChangeEdits(c) ==
    CommonEdits(c) \cup ChangeDriftEdits(c) \cup ChangeCoherentEdits(c) \cup ChangeUpstreamEdits(c)
    \cup ChangePolicyEdits(c)
-----------------------------------------------------------------------------
(* P7-I: invariants across the layers, each bound to items of the earlier          *)
(* assessments and to controls                                                     *)

Layers == {"p7a", "p7b", "p7c", "p7d", "p7e", "p7f", "p7g", "p7h"}

InvariantPolicyValid(c) ==
    /\ PolicyFormed(c) /\ c.policy.required["invariants"] # {}
    /\ DOMAIN c.policy.min_layers = c.policy.required["invariants"]
    /\ \A i \in c.policy.required["invariants"] :
           LET expected == c.policy.expected["invariants"][i] IN
           /\ expected.required_binding_ids # {} /\ expected.required_control_ids # {}
           /\ c.policy.min_layers[i] >= 2
           /\ \A binding \in expected.required_binding_ids : binding[1] \in Layers \cup {"posture"}

(* An assessment that lists something twice counts as one that lists nothing.      *)
InvariantUpstreamsValid(c) ==
    /\ PostureBound(c)
    /\ \A u \in Layers : /\ c.up[u].verified /\ c.up[u].digest = c.policy.pins[u]
                         /\ ~c.up[u].repeated /\ DOMAIN c.up[u].facts # {}

InvariantCatalogValid(c) ==
    /\ ManifestBound(c) /\ ManifestCovers(c) /\ c.manifest.pins = c.policy.pins
    /\ OwnersTrusted(c, {"invariants"}) /\ ControlsKnown(c, "invariants")
    /\ ProfilesExpected(c, "invariants",
           {"required_binding_ids", "protected_asset_ids", "affected_identity_ids", "dependency_ids",
            "control_plane_route_ids", "required_control_ids"})
    /\ \A i \in Ids(c, "invariants") :
           LET invariant == Item(c, "invariants", i) IN
           /\ SensitivityRank[invariant.severity]
                  >= SensitivityRank[c.policy.expected["invariants"][i].severity]
           /\ invariant.title # None
           /\ \A binding \in invariant.required_binding_ids : BindingKnown(c, binding)
           /\ Cardinality({binding[1] : binding \in invariant.required_binding_ids}) >= c.policy.min_layers[i]

(* An exposed binding violates the invariant, except that of a control: a control  *)
(* degrades it, and only if the invariant requires that control by name.           *)
ViolatingBindings(c, i) ==
    {binding \in Item(c, "invariants", i).required_binding_ids : BindingExposed(c, binding)}
DegradedControls(c, i) ==
    {x \in Item(c, "invariants", i).required_control_ids : BindingExposed(c, <<"posture", x>>)}
InvariantState(c, i) ==
    IF \E binding \in ViolatingBindings(c, i) : binding[1] # "posture" THEN "violated"
    ELSE IF DegradedControls(c, i) # {} THEN "degraded" ELSE "holds"

InvariantReasons(c, i) ==
    IF InvariantState(c, i) = "holds" THEN {}
    ELSE {<<"binding", binding>> : binding \in ViolatingBindings(c, i)}
         \cup {<<"control", <<"posture", x>>>> : x \in DegradedControls(c, i)}

BlastEntities(c, i) ==
    UNION {{f} \X Item(c, "invariants", i)[f] :
           f \in {"protected_asset_ids", "affected_identity_ids", "dependency_ids", "control_plane_route_ids"}}
BlastScore(c, i) ==
    LET base == [low |-> 20, medium |-> 40, high |-> 65, critical |-> 85]
        violating == ViolatingBindings(c, i)
    IN base[Item(c, "invariants", i).severity]
       + (IF InvariantState(c, i) = "degraded" THEN 10 ELSE 25)
       + Max({0, Cardinality({binding[1] : binding \in violating}) - 1}) * 8
       + Max({0, Cardinality(BlastEntities(c, i)) - 1}) * 3 + Max({0, Cardinality(violating) - 1}) * 4

InvariantFacts(c) == [i \in Ids(c, "invariants") |-> InvariantReasons(c, i)]
InvariantTruth(c, facts) ==
    LET inState(s) == {i \in DOMAIN facts : InvariantState(c, i) = s}
        broken == Denied(facts)
    IN [violated |-> inState("violated"), degraded |-> inState("degraded"),
        radius |-> Cardinality(UNION {BlastEntities(c, i) : i \in broken}),
        max |-> MaxOf({BlastScore(c, i) : i \in broken})]

InvariantEvaluate(c) ==
    Outcome(c, RequestBound(c, {"invariants"}),
            InvariantPolicyValid(c) /\ InvariantUpstreamsValid(c) /\ InvariantCatalogValid(c),
            InvariantFacts, LAMBDA facts : InvariantTruth(c, facts))

-----------------------------------------------------------------------------
(* Four of the evaluation's eight invariants, with fewer bindings of a layer.      *)

ArchitectureInvariant(severity, bindings, controls, assets, identities, dependencies, routes) ==
    [title |-> "title", owner_id |-> "owner", severity |-> severity,
     required_binding_ids |-> bindings \cup ({"posture"} \X controls), protected_asset_ids |-> assets,
     affected_identity_ids |-> identities, dependency_ids |-> dependencies, control_plane_route_ids |-> routes,
     required_control_ids |-> controls \cup {"telemetry"}]

InvariantItems ==
    [invariants |->
        [tool |-> ArchitectureInvariant("critical",
             {<<"p7a", "tool">>, <<"p7b", "tool">>, <<"p7d", "credential">>, <<"p7e", "tool">>, <<"p7g", "tool">>,
              <<"p7h", "authz">>}, {"authz", "sod"}, {"tools", "credential"}, {"agent", "admin"}, {"tool"}, {"authz"}),
         tenant |-> ArchitectureInvariant("critical",
             {<<"p7a", "data">>, <<"p7b", "tenant">>, <<"p7c", "tenant">>, <<"p7e", "model">>, <<"p7g", "egress">>,
              <<"p7h", "egress">>}, {"isolation", "dlp"}, {"index", "context"}, {"user", "agent"}, {"model"}, {"egress"}),
         secret |-> ArchitectureInvariant("critical",
             {<<"p7d", "credential">>, <<"p7d", "signing">>, <<"p7e", "tool">>, <<"p7g", "egress">>,
              <<"p7h", "trust">>}, {"secrets"}, {"credential", "key"}, {"release", "admin"}, {"tool", "model"}, {"trust"}),
         failover |-> ArchitectureInvariant("high",
             {<<"p7e", "model">>, <<"p7f", "model">>, <<"p7f", "tool">>, <<"p7g", "egress">>, <<"p7h", "fallback">>},
             {"failover", "authz"}, {"fallback"}, {"agent"}, {"model", "tool"}, {"fallback"})]]

InvariantUpstreams ==
    [posture |-> Satisfied({"authz", "sod", "isolation", "dlp", "secrets", "failover", "telemetry"}),
     p7a |-> Unexposed({"tool", "data"}), p7b |-> Unexposed({"tool", "tenant"}), p7c |-> Unexposed({"tenant"}),
     p7d |-> Unexposed({"credential", "signing"}), p7e |-> Unexposed({"tool", "model"}),
     p7f |-> Unexposed({"tool", "model"}), p7h |-> Unexposed({"authz", "egress", "trust", "fallback"}),
     p7g |-> [x \in {"tool", "egress"} |-> [blind_spot |-> FALSE]]]
InvariantRules ==
    [catalog |-> "catalog", min_layers |-> [i \in DOMAIN InvariantItems.invariants |-> 4]]
InvariantCanonical == AllFields(InvariantItems)
InvariantBase ==
    Truthful(WithPosture(Context(InvariantItems, DOMAIN InvariantItems, InvariantUpstreams, {"invariants"},
                                 InvariantRules, InvariantCanonical)), InvariantEvaluate)

InvariantDriftEdits(c) ==
    FieldEdits(c, {<<"invariants", "secret", "severity", "low">>, <<"invariants", "secret", "title", None>>,
                   <<"invariants", "secret", "required_binding_ids", {<<"p7d", "credential">>, <<"p7e", "tool">>}>>,
                   <<"invariants", "secret", "protected_asset_ids", {Other}>>,
                   <<"invariants", "secret", "affected_identity_ids", {Other}>>,
                   <<"invariants", "secret", "dependency_ids", {Other}>>,
                   <<"invariants", "secret", "control_plane_route_ids", {"egress"}>>,
                   <<"invariants", "secret", "required_control_ids", {"secrets"}>>})

(* Approved by the policy as well: too few layers, bindings that do not exist.     *)
InvariantCoherentEdits(c) ==
    CoherentEdits(c, {<<"invariants", "secret", "required_binding_ids",
                        {<<"p7d", "credential">>, <<"p7e", "tool">>, <<"posture", "secrets">>}>>,
                      <<"invariants", "secret", "required_binding_ids",
                        {<<"p7d", Other>>, <<"p7e", "tool">>, <<"p7g", "egress">>, <<"p7h", "trust">>}>>,
                      <<"invariants", "secret", "required_binding_ids",
                        {<<Other, Other>>, <<"p7e", "tool">>, <<"p7g", "egress">>, <<"p7h", "trust">>}>>,
                      <<"invariants", "secret", "required_control_ids", {"secrets", Other}>>})

InvariantUpstreamEdits(c) ==
    RepeatEdits(c) \cup PinEdits(c) \cup PostureEdits(c, {"authz", "telemetry"})
    \cup {[c EXCEPT !.up["p7c"].facts = [x \in {} |-> 0]]}
    \cup FactEdits(c, {<<u, x, "exposed", TRUE>> : u \in Layers \ {"p7g"}, x \in {"tool", "tenant", "credential", "trust"}}
                      \cup {<<"p7g", "egress", "blind_spot", TRUE>>})

InvariantPolicyEdits(c) ==
    PolicyEdits(c, {<<"owners", {}>>, <<"max_age", 0>>})
    \cup {[c EXCEPT !.policy.min_layers = ("tool" :> 1) @@ @], [c EXCEPT !.policy.min_layers = Without(@, "tool")]}
    \cup {[c EXCEPT !.policy.expected["invariants"][i].required_binding_ids = {<<Other, Other>>}] :
              i \in {"tool"} \cap DOMAIN c.policy.expected["invariants"]}

InvariantEdits(c) ==
    CommonEdits(c) \cup InvariantDriftEdits(c) \cup InvariantCoherentEdits(c) \cup InvariantUpstreamEdits(c)
    \cup InvariantPolicyEdits(c)
=============================================================================
