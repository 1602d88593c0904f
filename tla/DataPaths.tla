------------------------------- MODULE DataPaths -------------------------------
(* Paths of what must not leak: tenant data on its way to a sink, the data_*.py    *)
(* modules of aegis/architecture (P7-C), and secrets on their way to a surface,    *)
(* aegis/architecture/secrets_exposure.py (P7-D). A path follows the edges of one  *)
(* piece of data or one secret, from its home to the first target it meets.        *)
EXTENDS ArchitecturePaths

(* The edges of one subject, the walks from its home, and the ones that arrive.    *)
SubjectWalks(c, kind, subjectKind, subject, home, from, to) ==
    [x \in c.policy.entries |->
        Walks([e \in {e \in Ids(c, kind) : Item(c, kind, e)[subject] = x} |->
                  [source |-> Item(c, kind, e)[from], target |-> Item(c, kind, e)[to]]],
              Item(c, subjectKind, x)[home], c.policy.targets, c.policy.max_path_hops)]
Arrivals(c, kind, walks, to) ==
    UNION {{p \in walks[x].paths : p # << >> /\ Item(c, kind, p[Len(p)])[to] \in c.policy.targets} :
           x \in DOMAIN walks}

Reason(name, holds) == IF holds THEN {<<name, name>>} ELSE {}
Bonus(n, holds) == IF holds THEN n ELSE 0

-----------------------------------------------------------------------------
(* P7-C: data paths                                                                *)

ClassificationRank == [public |-> 0, internal |-> 1, confidential |-> 2, restricted |-> 3, secret |-> 4]

DataPolicyValid(c) ==
    /\ PathPolicyFormed(c)
    /\ c.policy.entries \subseteq c.policy.required["data"]
    /\ c.policy.required["data"] \subseteq DOMAIN c.policy.tenants \cap DOMAIN c.policy.sinks
    /\ c.policy.targets \subseteq DOMAIN c.policy.ceilings \cap DOMAIN c.policy.finals
    /\ c.policy.egress \subseteq c.policy.targets

(* The upstream analyses were made of this architecture, this posture and, P7-B,   *)
(* of that very P7-A.                                                              *)
DataUpstreamValid(c) ==
    /\ ArchitectureBound(c) /\ PostureValid(c) /\ AttackAssessmentBound(c)
    /\ c.up["p7b"].digest = c.policy.pins["p7b"] /\ c.up["p7b"].verified /\ ~c.up["p7b"].trusted
    /\ c.up["p7b"].facts["evidence"] = [p7a |-> c.up["p7a"].digest] @@ c.up["p7a"].facts["evidence"]

(* An edge's controls are known, but need not be controls of its route.            *)
DataManifestValid(c) ==
    /\ ManifestBound(c) /\ ManifestCovers(c) /\ OwnersTrusted(c, {"data", "edges"})
    /\ PinnedAs(c, "data", {"tenant_id", "data_kind", "origin_asset_id"})
    /\ PinnedAs(c, "edges", {"data_id", "source_asset_id", "target_asset_id", "via_flow_ids",
                             "required_control_ids", "transform"})
    /\ \A d \in Ids(c, "data") :
           /\ Item(c, "data", d).origin_asset_id \in c.architecture.assets
           /\ ClassificationRank[Item(c, "data", d).classification]
                  >= ClassificationRank[c.policy.expected["data"][d].classification]
    /\ \A e \in Ids(c, "edges") :
           LET edge == Item(c, "edges", e) IN
           /\ Known(c, "data", edge.data_id)
           /\ {edge.source_asset_id, edge.target_asset_id} \subseteq c.architecture.assets
           /\ edge.source_asset_id # edge.target_asset_id
           /\ RouteConnects(c, edge.via_flow_ids, edge.source_asset_id, edge.target_asset_id)
    /\ ControlsKnown(c, "edges")

DataWalks(c) == SubjectWalks(c, "edges", "data", "data_id", "origin_asset_id", "source_asset_id", "target_asset_id")
DataPaths(c) == Arrivals(c, "edges", DataWalks(c), "target_asset_id")

(* Data may arrive where its class is too high if it was reduced on the last edge  *)
(* in a way the sink accepts; a sink may accept nothing but reduced data.          *)
DataReasons(c, p) ==
    LET last == Item(c, "edges", p[Len(p)])
        data == Item(c, "data", last.data_id)
        final == last.transform \in c.policy.finals[last.target_asset_id]
        reduced == last.transform \in {"redacted", "aggregated", "tokenized"}
        fits == ClassificationRank[data.classification]
                    <= ClassificationRank[c.policy.ceilings[last.target_asset_id]]
    IN {<<"tenant", e>> : e \in {e \in Edges(p) : Item(c, "edges", e).destination_tenant_id
                                                     \notin c.policy.tenants[last.data_id]}}
       \cup Reason("sink", last.target_asset_id \notin c.policy.sinks[last.data_id])
       \cup Reason("class", ~fits /\ ~(reduced /\ final)) \cup Reason("transform", ~final)
       \cup Weak(c, ControlsOn(c, "edges", p))

DataScore(c, p) ==
    LET last == Item(c, "edges", p[Len(p)])
        reasons == DataReasons(c, p)
    IN 5 + ClassificationRank[Item(c, "data", last.data_id).classification] * 20 + Len(p) * 2
       + Bonus(12, last.target_asset_id \in c.policy.egress)
       + CountOf(reasons, "tenant") * 20 + CountOf(reasons, "sink") * 16 + CountOf(reasons, "class") * 18
       + CountOf(reasons, "transform") * 12
       + CountOf(reasons, "exceptioned") * 10 + CountOf(reasons, "not_evaluated") * 6

DataFacts(c) == [p \in DataPaths(c) |-> DataReasons(c, p)]
DataBounded(c) == WithinBounds(c, Range(DataWalks(c)), DataPaths(c))

DataEvaluate(c) ==
    Outcome(c, PathRequestBound(c),
            DataPolicyValid(c) /\ DataUpstreamValid(c) /\ DataManifestValid(c) /\ DataBounded(c),
            DataFacts, LAMBDA facts : PathTruth(facts, LAMBDA p : DataScore(c, p)))

-----------------------------------------------------------------------------
(* The evaluation's data, without the two edges that expose some of it: a ticket's *)
(* answer stays with its tenant, and a credential stops at the agent.              *)

DataObject(tenant, kind, class, origin) ==
    [tenant_id |-> tenant, data_kind |-> kind, classification |-> class, origin_asset_id |-> origin,
     owner_id |-> "owner"]
DataFlowEdge(data, source, target, tenant, transform, flow, controls) ==
    [data_id |-> data, source_asset_id |-> source, target_asset_id |-> target,
     destination_tenant_id |-> tenant, transform |-> transform, owner_id |-> "owner",
     via_flow_ids |-> <<flow>>, required_control_ids |-> controls]

DataArchitecture ==
    [version |-> "expected", assets |-> {"user", "agent", "retriever", "vectors", "tools", "secrets", "runtime", "telemetry"},
     flows |-> [vectors_retriever |-> ArchitectureFlow("vectors", "retriever", {"tenant"}),
                retriever_agent |-> ArchitectureFlow("retriever", "agent", {"tenant", "filter"}),
                agent_runtime |-> ArchitectureFlow("agent", "runtime", {"privacy"}),
                agent_user |-> ArchitectureFlow("agent", "user", {"tenant", "output"}),
                secrets_tools |-> ArchitectureFlow("secrets", "tools", {"broker"}),
                tools_agent |-> ArchitectureFlow("tools", "agent", {"tool"}),
                runtime_telemetry |-> ArchitectureFlow("runtime", "telemetry", {"minimize"})]]

DataItems ==
    [data |-> [ticket |-> DataObject("a", "content", "confidential", "vectors"),
               credential |-> DataObject("platform", "credential", "secret", "secrets"),
               event |-> DataObject("platform", "telemetry", "internal", "runtime")],
     edges |->
        [fetch |-> DataFlowEdge("ticket", "vectors", "retriever", "a", "plain", "vectors_retriever", {"tenant"}),
         context |-> DataFlowEdge("ticket", "retriever", "agent", "a", "plain", "retriever_agent", {"tenant", "filter"}),
         prompt |-> DataFlowEdge("ticket", "agent", "runtime", "a", "plain", "agent_runtime", {"privacy"}),
         answer |-> DataFlowEdge("ticket", "agent", "user", "a", "plain", "agent_user", {"tenant", "output"}),
         lease |-> DataFlowEdge("credential", "secrets", "tools", "platform", "tokenized", "secrets_tools", {"broker"}),
         result |-> DataFlowEdge("credential", "tools", "agent", "platform", "tokenized", "tools_agent", {"tool"}),
         report |-> DataFlowEdge("event", "runtime", "telemetry", "platform", "redacted", "runtime_telemetry", {"minimize"})]]

Evidence == [architecture |-> "expected", posture |-> "posture", catalog |-> "catalog"]
DataUpstreams ==
    [posture |-> Satisfied({"tenant", "filter", "privacy", "output", "broker", "tool", "minimize"}),
     p7a |-> [evidence |-> Evidence], p7b |-> [evidence |-> [p7a |-> "p7a"] @@ Evidence]]
DataRules ==
    [entries |-> {"ticket", "credential", "event"}, targets |-> {"user", "runtime", "telemetry"},
     egress |-> {"user"}, catalog |-> "catalog", max_path_hops |-> 8, max_paths |-> 128,
     tenants |-> [ticket |-> {"a"}, credential |-> {"platform"}, event |-> {"platform"}],
     sinks |-> [ticket |-> {"runtime", "user"}, credential |-> {"telemetry"}, event |-> {"telemetry"}],
     ceilings |-> [user |-> "confidential", runtime |-> "restricted", telemetry |-> "internal"],
     finals |-> [user |-> {"plain", "redacted"}, runtime |-> {"plain", "tokenized"},
                 telemetry |-> {"redacted", "aggregated"}]]
DataCanonical == AllFields(DataItems)
DataBase ==
    Truthful(WithArchitecture(WithPosture(Scoped(
        Context(DataItems, DOMAIN DataItems, DataUpstreams, {"data"}, DataRules, DataCanonical))),
        DataArchitecture), DataEvaluate)

(* A further edge, approved by the policy.                                         *)
WithEdge(c, id, edge) ==
    [Added(c, "edges", id, edge) EXCEPT !.policy.expected["edges"] = (id :> edge) @@ @]

DataDriftEdits(c) ==
    FieldEdits(c, {<<"data", "ticket", "origin_asset_id", "secrets">>, <<"data", "ticket", "tenant_id", "b">>,
                   <<"data", "ticket", "data_kind", Other>>, <<"data", "credential", "classification", "public">>,
                   <<"edges", "context", "data_id", Other>>, <<"edges", "context", "data_id", "credential">>,
                   <<"edges", "context", "target_asset_id", "retriever">>,
                   <<"edges", "context", "target_asset_id", "tools">>,
                   <<"edges", "context", "via_flow_ids", <<"agent_runtime">>>>,
                   <<"edges", "context", "required_control_ids", {"filter"}>>,
                   <<"edges", "context", "transform", "redacted">>})
DataTenantEdits(c) == FieldEdits(c, {<<"edges", "answer", "destination_tenant_id", "c">>})
DataCoherentEdits(c) ==
    CoherentEdits(c, {<<"edges", "context", "via_flow_ids", <<"runtime_telemetry">>>>,
                      <<"edges", "context", "required_control_ids", {Other}>>,
                      <<"edges", "report", "transform", "plain">>,
                      <<"data", "ticket", "classification", "secret">>})
    \cup {WithEdge(c, "leak", DataFlowEdge("credential", "agent", "user", "a", "plain", "agent_user", {"output"}))}
DataPolicyEdits(c) ==
    PathPolicyEdits(c, "ticket", "user") \cup PolicyEdits(c, {<<"owners", {}>>})
    \cup {[c EXCEPT !.policy.ceilings = Without(@, "runtime")], [c EXCEPT !.policy.egress = {"agent"}]}

EvidenceEdits(c) ==
    FactEdits(c, {<<"p7a", "evidence", f, Other>> : f \in DOMAIN Evidence}
                 \cup {<<"p7b", "evidence", f, Other>> : f \in DOMAIN Evidence \cup {"p7a"}})

DataEdits(c) ==
    CommonEdits(c) \cup TrustEdits(c) \cup DataDriftEdits(c) \cup DataTenantEdits(c) \cup DataCoherentEdits(c)
    \cup DataPolicyEdits(c) \cup ArchitectureEdits(c, "tools_agent") \cup EvidenceEdits(c)
    \cup PostureEdits(c, {"tenant", "minimize"}) \cup PostureSummaryEdits(c)

-----------------------------------------------------------------------------
(* P7-D: secret exposure paths                                                     *)

SecretSensitivityRank == [medium |-> 1, high |-> 2, critical |-> 3]
SecretScopeRank == [workload |-> 2, platform |-> 3, supply |-> 3, security |-> 4, root |-> 5]

SecretPolicyValid(c) ==
    /\ c.policy.entries # {} /\ c.policy.entries \subseteq c.policy.required["secrets"]
    /\ c.policy.targets # {} /\ c.policy.targets \subseteq c.policy.required["surfaces"]
    /\ \A kind \in DOMAIN c.policy.expected : DOMAIN c.policy.expected[kind] = c.policy.required[kind]
    /\ \A rule \in {"rotation", "surfaces_of", "scopes_of"} : DOMAIN c.policy[rule] = c.policy.required["secrets"]
    /\ \A x \in c.policy.required["secrets"] :
           c.policy.rotation[x] > 0 /\ c.policy.surfaces_of[x] # {} /\ c.policy.scopes_of[x] # {}
    /\ c.policy.max_age > 0 /\ c.policy.skew >= 0 /\ c.policy.max_path_hops > 0 /\ c.policy.max_paths > 0

(* Each earlier analysis is of this architecture; whether they agree with each     *)
(* other on the posture, or believed a caller, is not asked.                       *)
SecretUpstreamValid(c) ==
    /\ ArchitecturePinned(c) /\ PostureBound(c)
    /\ \A u \in {"p7a", "p7b", "p7c"} :
           /\ c.up[u].verified /\ c.up[u].digest = c.policy.pins[u]
           /\ c.up[u].facts["evidence"].architecture = c.architecture.version

SurfacesValid(c) ==
    /\ PinnedAs(c, "surfaces", {"surface_type", "exposure_scope", "trust_zone", "architecture_asset_id"})
    /\ \A x \in Ids(c, "surfaces") :
           Item(c, "surfaces", x).architecture_asset_id \in c.architecture.assets \cup {None}

SecretsValid(c) ==
    /\ PinnedAs(c, "secrets", {"home_surface_id", "kind", "authority_scope", "trust_root"})
    /\ \A x \in Ids(c, "secrets") :
           LET secret == Item(c, "secrets", x) IN
           /\ Known(c, "surfaces", secret.home_surface_id)
           /\ SecretSensitivityRank[secret.sensitivity]
                  >= SecretSensitivityRank[c.policy.expected["secrets"][x].sensitivity]
           /\ 0 < secret.rotated_at_epoch /\ secret.rotated_at_epoch < secret.expires_at_epoch
           /\ secret.rotated_at_epoch <= c.request.at + c.policy.skew

(* Where the edge runs over flows of the architecture, they connect the assets its *)
(* surfaces stand for and carry its controls.                                      *)
SecretRouteValid(c, edge) ==
    LET route == edge.via_flow_ids
        flow(k) == c.architecture.flows[route[k]]
        asset(x) == Item(c, "surfaces", x).architecture_asset_id
    IN /\ \A k \in DOMAIN route : route[k] \in DOMAIN c.architecture.flows
       /\ route # << >> =>
             /\ \A k \in 1..(Len(route) - 1) : flow(k).target_asset_id = flow(k + 1).source_asset_id
             /\ asset(edge.source_surface_id) \in {None, flow(1).source_asset_id}
             /\ asset(edge.target_surface_id) \in {None, flow(Len(route)).target_asset_id}
             /\ edge.required_control_ids \subseteq RouteControls(c, route)

SecretEdgesValid(c) ==
    /\ PinnedAs(c, "edges", {"secret_id", "source_surface_id", "target_surface_id", "channel", "via_flow_ids",
                             "required_control_ids"})
    /\ ControlsKnown(c, "edges")
    /\ \A e \in Ids(c, "edges") :
           LET edge == Item(c, "edges", e) IN
           /\ Known(c, "secrets", edge.secret_id)
           /\ {edge.source_surface_id, edge.target_surface_id} \subseteq Ids(c, "surfaces")
           /\ edge.source_surface_id # edge.target_surface_id
           /\ SecretRouteValid(c, edge)

SecretManifestValid(c) ==
    /\ ManifestBound(c) /\ ManifestCovers(c) /\ OwnersTrusted(c, {"surfaces", "secrets", "edges"})
    /\ SurfacesValid(c) /\ SecretsValid(c) /\ SecretEdgesValid(c)

SecretWalks(c) ==
    SubjectWalks(c, "edges", "secrets", "secret_id", "home_surface_id", "source_surface_id", "target_surface_id")
SecretPaths(c) == Arrivals(c, "edges", SecretWalks(c), "target_surface_id")

(* Every surface and every edge on the way counts, not only the last.              *)
SecretOf(c, p) == Item(c, "edges", p[1]).secret_id
Egress(c, p) ==
    \E e \in Edges(p) : Item(c, "surfaces", Item(c, "edges", e).target_surface_id).external_egress
SecretReasons(c, p) ==
    LET x == SecretOf(c, p)
        secret == Item(c, "secrets", x)
        reached == {Item(c, "edges", e).target_surface_id : e \in Edges(p)}
        named(name, S) == {<<name, y>> : y \in S}
    IN named("unauthorized", reached \ c.policy.surfaces_of[x])
       \cup named("scope", {y \in reached : Item(c, "surfaces", y).exposure_scope \notin c.policy.scopes_of[x]})
       \cup named("plaintext", {e \in Edges(p) : Item(c, "edges", e).plaintext_exposure /\ x \in c.policy.no_plaintext})
       \cup named("copy", {e \in Edges(p) : Item(c, "edges", e).persistent_copy /\ x \in c.policy.no_copy})
       \cup Reason("overdue", c.request.at - secret.rotated_at_epoch > c.policy.rotation[x])
       \cup Reason("expired", c.request.at >= secret.expires_at_epoch)
       \cup Reason("root_egress", secret.trust_root /\ Egress(c, p))
       \cup Weak(c, ControlsOn(c, "edges", p))

SecretScore(c, p) ==
    LET secret == Item(c, "secrets", SecretOf(c, p))
        n(name) == CountOf(SecretReasons(c, p), name)
    IN 10 + SecretSensitivityRank[secret.sensitivity] * 28 + SecretScopeRank[secret.authority_scope] * 5
       + Len(p) * 2 + n("unauthorized") * 18 + n("scope") * 14 + n("plaintext") * 22 + n("copy") * 15
       + n("exceptioned") * 10 + n("not_evaluated") * 6 + n("overdue") * 18 + n("expired") * 24
       + Bonus(30, secret.trust_root) + Bonus(25, Egress(c, p))

SecretFacts(c) == [p \in SecretPaths(c) |-> SecretReasons(c, p)]
SecretBounded(c) == WithinBounds(c, Range(SecretWalks(c)), SecretPaths(c))

SecretEvaluate(c) ==
    Outcome(c, PathRequestBound(c),
            SecretPolicyValid(c) /\ SecretUpstreamValid(c) /\ SecretManifestValid(c) /\ SecretBounded(c),
            SecretFacts, LAMBDA facts : PathTruth(facts, LAMBDA p : SecretScore(c, p)))

-----------------------------------------------------------------------------
(* The evaluation's secrets, without the build token, which fares like the root    *)
(* key.                                                                            *)

ExposureSurface(scope, asset, egress) ==
    [surface_type |-> scope, exposure_scope |-> scope, trust_zone |-> scope, owner_id |-> "owner",
     architecture_asset_id |-> asset, external_egress |-> egress]
SecretMaterial(kind, sensitivity, scope, home, root) ==
    [kind |-> kind, sensitivity |-> sensitivity, authority_scope |-> scope, owner_id |-> "owner",
     home_surface_id |-> home, rotated_at_epoch |-> 10, expires_at_epoch |-> 100, trust_root |-> root]
SecretTransferEdge(secret, source, target, channel, flows, controls) ==
    [secret_id |-> secret, source_surface_id |-> source, target_surface_id |-> target, channel |-> channel,
     owner_id |-> "owner", via_flow_ids |-> flows, required_control_ids |-> controls,
     plaintext_exposure |-> FALSE, persistent_copy |-> FALSE]

SecretArchitecture ==
    [version |-> "expected", assets |-> {"secrets", "tools", "registry", "runtime", "telemetry"},
     flows |-> [registry_runtime |-> ArchitectureFlow("registry", "runtime", {"isolation", "injection"}),
                runtime_telemetry |-> ArchitectureFlow("runtime", "telemetry", {"redaction"})]]

SecretItems ==
    [surfaces |->
        [config |-> ExposureSurface("workload", None, FALSE), build |-> ExposureSurface("platform", None, FALSE),
         artifact |-> ExposureSurface("platform", None, FALSE), vault |-> ExposureSurface("security", "secrets", FALSE),
         tool |-> ExposureSurface("workload", "tools", FALSE), registry |-> ExposureSurface("supply", "registry", FALSE),
         runtime |-> ExposureSurface("supply", "runtime", FALSE),
         telemetry |-> ExposureSurface("security", "telemetry", FALSE),
         external |-> ExposureSurface("external", None, TRUE)],
     secrets |->
        [tool |-> SecretMaterial("api_token", "high", "workload", "config", FALSE),
         model |-> SecretMaterial("publisher_key", "critical", "supply", "vault", FALSE),
         runtime |-> SecretMaterial("service", "high", "supply", "registry", FALSE),
         telemetry |-> SecretMaterial("export", "high", "security", "runtime", FALSE),
         root |-> SecretMaterial("root_key", "critical", "root", "vault", TRUE)],
     edges |->
        [tool |-> SecretTransferEdge("tool", "config", "tool", "broker", << >>, {"broker"}),
         model_build |-> SecretTransferEdge("model", "vault", "build", "signing", << >>, {"isolation"}),
         model_registry |-> SecretTransferEdge("model", "build", "registry", "signing", << >>, {"isolation"}),
         runtime |-> SecretTransferEdge("runtime", "registry", "runtime", "injection", <<"registry_runtime">>,
                                        {"isolation", "injection"}),
         telemetry |-> SecretTransferEdge("telemetry", "runtime", "telemetry", "export", <<"runtime_telemetry">>,
                                          {"redaction"}),
         root_build |-> SecretTransferEdge("root", "vault", "build", "signing", << >>, {"isolation"}),
         root_artifact |-> SecretTransferEdge("root", "build", "artifact", "signing", << >>, {"isolation", "scan"})]]

SecretUpstreams ==
    [posture |-> Satisfied({"broker", "isolation", "injection", "redaction", "scan", "egress"})]
    @@ [u \in {"p7a", "p7b", "p7c"} |-> [evidence |-> [architecture |-> "expected"]]]
SecretRules ==
    [entries |-> DOMAIN SecretItems.secrets, catalog |-> "catalog", max_path_hops |-> 8, max_paths |-> 64,
     targets |-> {"tool", "artifact", "registry", "runtime", "telemetry", "external"},
     rotation |-> [x \in DOMAIN SecretItems.secrets |-> IF x = "root" THEN 52 ELSE 55],
     surfaces_of |-> [tool |-> {"tool"}, model |-> {"build", "registry"}, runtime |-> {"runtime"},
                      telemetry |-> {"telemetry"}, root |-> {"build", "artifact"}],
     scopes_of |-> [tool |-> {"workload"}, model |-> {"platform", "supply"}, runtime |-> {"supply"},
                    telemetry |-> {"security"}, root |-> {"platform"}],
     no_plaintext |-> DOMAIN SecretItems.secrets, no_copy |-> {"model", "root"}]
SecretCanonical == AllFields(SecretItems)
SecretBase ==
    Truthful(WithArchitecture(WithPosture(Scoped(
        Context(SecretItems, DOMAIN SecretItems, SecretUpstreams, {"secrets"}, SecretRules, SecretCanonical))),
        SecretArchitecture), SecretEvaluate)

SecretDriftEdits(c) ==
    FieldEdits(c, {<<"surfaces", "build", "surface_type", "external">>, <<"surfaces", "build", "exposure_scope", "external">>,
                   <<"surfaces", "build", "trust_zone", "external">>, <<"surfaces", "tool", "architecture_asset_id", "runtime">>,
                   <<"secrets", "model", "home_surface_id", "config">>, <<"secrets", "model", "kind", "api_token">>,
                   <<"secrets", "model", "authority_scope", "workload">>, <<"secrets", "model", "sensitivity", "medium">>,
                   <<"secrets", "root", "trust_root", FALSE>>, <<"secrets", "tool", "rotated_at_epoch", 0>>,
                   <<"secrets", "tool", "expires_at_epoch", 10>>,
                   <<"edges", "model_registry", "secret_id", Other>>, <<"edges", "model_registry", "secret_id", "tool">>,
                   <<"edges", "model_registry", "target_surface_id", Other>>,
                   <<"edges", "model_registry", "target_surface_id", "build">>,
                   <<"edges", "model_registry", "target_surface_id", "external">>,
                   <<"edges", "model_registry", "channel", "logging">>,
                   <<"edges", "runtime", "via_flow_ids", <<"runtime_telemetry">>>>,
                   <<"edges", "runtime", "required_control_ids", {"injection"}>>})

(* Not pinned: these make the secret's path exposed instead.                       *)
SecretHandlingEdits(c) ==
    FieldEdits(c, {<<"edges", "model_registry", "plaintext_exposure", TRUE>>,
                   <<"edges", "root_artifact", "persistent_copy", TRUE>>,
                   <<"secrets", "model", "rotated_at_epoch", 4>>, <<"secrets", "telemetry", "expires_at_epoch", 59>>})

SecretCoherentEdits(c) ==
    CoherentEdits(c, {<<"edges", "root_artifact", "required_control_ids", {Other}>>,
                      <<"edges", "runtime", "via_flow_ids", <<Other>>>>,
                      <<"edges", "runtime", "required_control_ids", {"egress"}>>,
                      <<"edges", "root_artifact", "target_surface_id", "external">>})

SecretPolicyEdits(c) ==
    PathPolicyEdits(c, "model", "registry")
    \cup {[c EXCEPT !.policy.rotation["tool"] = 0], [c EXCEPT !.policy.surfaces_of = Without(@, "tool")]}

SecretEdits(c) ==
    CommonEdits(c) \cup SecretDriftEdits(c) \cup SecretHandlingEdits(c) \cup SecretCoherentEdits(c)
    \cup SecretPolicyEdits(c) \cup ArchitectureEdits(c, "registry_runtime")
    \cup PostureEdits(c, {"isolation", "scan"})
    \cup FactEdits(c, {<<u, "evidence", "architecture", Other>> : u \in {"p7a", "p7b", "p7c"}})
=============================================================================
