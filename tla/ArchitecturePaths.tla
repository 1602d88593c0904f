--------------------------- MODULE ArchitecturePaths ---------------------------
(* Paths through the architecture: from an entry to a sensitive asset,             *)
(* aegis/architecture/attack_paths.py (P7-A), and from a principal to a capability *)
(* it should not have, the privilege_*.py modules beside it (P7-B). Both walk a    *)
(* graph of the manifest and call a path exposed by the posture (P6-D) of the      *)
(* controls on it. The caller declares the exposed paths and their greatest score. *)
EXTENDS Assessment, Sequences

(* The simple paths from a start as sequences of edges, no longer than "hops" and  *)
(* not continued at a stop, and whether the bound cut one short.                   *)
Walks(edges, start, stops, hops) ==
    LET At(p) == IF p = << >> THEN start ELSE edges[p[Len(p)]].target
        Visited(p) == {start} \cup {edges[p[k]].target : k \in DOMAIN p}
        Onward(p) == {e \in DOMAIN edges : /\ p = << >> \/ At(p) \notin stops
                                           /\ edges[e].source = At(p)
                                           /\ edges[e].target \notin Visited(p)}
        walk[k \in Nat] ==
            IF k = 0 THEN {<< >>}
            ELSE LET shorter == walk[k - 1]
                 IN shorter \cup UNION {{Append(p, e) : e \in Onward(p)} :
                                        p \in {q \in shorter : Len(q) = k - 1}}
        all == walk[hops]
    IN [paths |-> all, truncated |-> \E p \in all : Len(p) = hops /\ Onward(p) # {}]

Edges(p) == {p[k] : k \in DOMAIN p}
Links(c, kind, source, target) ==
    [e \in Ids(c, kind) |-> [source |-> Item(c, kind, e)[source], target |-> Item(c, kind, e)[target]]]

(* What the caller declares of the paths: which are exposed and the worst of them. *)
PathTruth(facts, score(_)) ==
    [denied |-> Denied(facts), max |-> MaxOf({score(p) : p \in Denied(facts)})]

SensitivityRank == [low |-> 1, medium |-> 2, high |-> 3, critical |-> 4]

-----------------------------------------------------------------------------
(* The posture: a status for every control, and the lists it gives of them.        *)

Statuses == {"satisfied", "exceptioned", "not_evaluated"}
ControlsAt(c, s) == {x \in DOMAIN c.up["posture"].facts : Fact(c, "posture", x).status = s}
Listed(c) == [c EXCEPT !.up["posture"] = [listed |-> [s \in Statuses |-> ControlsAt(c, s)]] @@ @]

PostureBound(c) ==
    LET posture == c.up["posture"] IN
    /\ posture.digest = c.policy.pins["posture"] /\ posture.catalog = c.policy.catalog
    /\ posture.verified /\ ~posture.repeated
    /\ posture.listed = [s \in Statuses |-> ControlsAt(c, s)]
PostureValid(c) ==
    /\ PostureBound(c) /\ ~c.up["posture"].trusted
    /\ c.up["posture"].count = Cardinality(DOMAIN c.up["posture"].facts)

ControlsOn(c, kind, p) == UNION {Item(c, kind, e).required_control_ids : e \in Edges(p)}
ControlsKnown(c, kind) ==
    \A e \in Ids(c, kind) : Item(c, kind, e).required_control_ids \subseteq DOMAIN c.up["posture"].facts

(* The controls of a path that do not hold, by what is known of them.              *)
Weak(c, controls) ==
    UNION {{<<s, x>> : x \in controls \cap ControlsAt(c, s)} : s \in {"exceptioned", "not_evaluated"}}
CountOf(reasons, name) == Cardinality({r \in reasons : r[1] = name})

(* A posture in which every control holds, before it is listed.                    *)
Satisfied(controls) == [x \in controls |-> [status |-> "satisfied"]]
WithPosture(c) ==
    Listed([c EXCEPT !.up["posture"] =
        [catalog |-> "catalog", count |-> Cardinality(DOMAIN c.up["posture"].facts)] @@ @])

PostureEdits(c, controls) ==
    {Listed(d) : d \in FactEdits(c, {"posture"} \X controls \X {"status"} \X {"exceptioned", "not_evaluated"})}
    \cup {[c EXCEPT !.up["posture"].catalog = Other], [c EXCEPT !.up["posture"].listed["satisfied"] = {}],
          [c EXCEPT !.up["posture"].repeated = TRUE]}
    \cup {LET d == Listed([c EXCEPT !.up["posture"].facts = Without(@, x)])
          IN [d EXCEPT !.up["posture"].count = Cardinality(DOMAIN d.up["posture"].facts)] :
          x \in controls \cap DOMAIN c.up["posture"].facts}
PostureSummaryEdits(c) ==
    {[c EXCEPT !.up["posture"].count = 0], [c EXCEPT !.up["posture"].trusted = TRUE]}

-----------------------------------------------------------------------------
(* The scope of an analysis: entries and targets, which the request repeats.       *)
ScopeOf(entries, targets) == ({"entry"} \X entries) \cup ({"target"} \X targets)
Scoped(c) == [c EXCEPT !.request.ids = ScopeOf(c.policy.entries, c.policy.targets)]

PathPolicyFormed(c) ==
    /\ c.policy.owners # {} /\ c.policy.entries # {} /\ c.policy.targets # {}
    /\ c.policy.max_age >= 0 /\ c.policy.skew >= 0
    /\ c.policy.max_path_hops > 0 /\ c.policy.max_paths > 0
    /\ \A kind \in DOMAIN c.policy.expected :
           c.policy.required[kind] \subseteq DOMAIN c.policy.expected[kind]

PathRequestBound(c) ==
    /\ c.request.identity = "expected" /\ c.request.sha = c.policy.sha
    /\ c.request.pins = c.policy.pins /\ ~c.request.repeated
    /\ c.request.ids = ScopeOf(c.policy.entries, c.policy.targets)

(* More than the required items is accepted, and pinned nowhere.                   *)
Covered(c) ==
    /\ c.manifest.repeated = {}
    /\ \A kind \in DOMAIN c.manifest.items : c.policy.required[kind] \subseteq Ids(c, kind)
PinnedAs(c, kind, fields) ==
    \A id \in DOMAIN c.policy.expected[kind], f \in fields :
        Known(c, kind, id) /\ Item(c, kind, id)[f] = c.policy.expected[kind][id][f]

(* The walks of an analysis stayed within the policy's bounds.                     *)
WithinBounds(c, walks, paths) ==
    /\ \A w \in walks : ~w.truncated
    /\ Cardinality(paths) <= c.policy.max_paths

PathPolicyEdits(c, entry, target) ==
    PolicyEdits(c, {<<"max_path_hops", 1>>, <<"max_path_hops", 0>>, <<"max_paths", 1>>,
                    <<"entries", {entry}>>, <<"targets", {target}>>})

-----------------------------------------------------------------------------
(* P7-A: attack paths                                                              *)

AttackPolicyValid(c) ==
    /\ PathPolicyFormed(c)
    /\ c.policy.entries \cap c.policy.targets = {}
    /\ c.policy.entries \cup c.policy.targets \subseteq c.policy.required["assets"]
    /\ DOMAIN c.policy.floors \subseteq c.policy.required["assets"]
    /\ c.policy.unguarded \subseteq c.policy.required["flows"]
    /\ \A a \in DOMAIN c.policy.expected["assets"] :
           c.policy.expected["assets"][a].trust_zone \in c.policy.zones

CrossesZone(c, f) ==
    LET flow == Item(c, "flows", f)
    IN Item(c, "assets", flow.source_asset_id).trust_zone # Item(c, "assets", flow.target_asset_id).trust_zone

AttackManifestValid(c) ==
    /\ ManifestBound(c) /\ Covered(c) /\ OwnersTrusted(c, {"assets", "flows"})
    /\ \A a \in Ids(c, "assets") : Item(c, "assets", a).trust_zone \in c.policy.zones
    /\ PinnedAs(c, "assets", {"trust_zone"})
    /\ \A a \in DOMAIN c.policy.floors :
           SensitivityRank[Item(c, "assets", a).sensitivity] >= SensitivityRank[c.policy.floors[a]]
    /\ \A f \in Ids(c, "flows") :
           LET flow == Item(c, "flows", f) IN
           /\ {flow.source_asset_id, flow.target_asset_id} \subseteq Ids(c, "assets")
           /\ flow.source_asset_id # flow.target_asset_id
           /\ CrossesZone(c, f) => flow.required_control_ids # {} \/ f \in c.policy.unguarded
    /\ PinnedAs(c, "flows", {"source_asset_id", "target_asset_id", "required_control_ids"})

AttackWalks(c) ==
    [pair \in c.policy.entries \X c.policy.targets |->
        Walks(Links(c, "flows", "source_asset_id", "target_asset_id"), pair[1], {pair[2]},
              c.policy.max_path_hops)]
AttackPaths(c) ==
    LET walks == AttackWalks(c) IN
    UNION {{p \in walks[pair].paths :
               p # << >> /\ Item(c, "flows", p[Len(p)]).target_asset_id = pair[2]} : pair \in DOMAIN walks}

(* Why a path is exposed: controls that do not hold, zones crossed without one.    *)
AttackReasons(c, p) ==
    Weak(c, ControlsOn(c, "flows", p))
    \cup {<<"unguarded", f>> : f \in {f \in Edges(p) : CrossesZone(c, f) /\ Item(c, "flows", f).required_control_ids = {}}}

AttackScore(c, p) ==
    LET reasons == AttackReasons(c, p)
        target == Item(c, "flows", p[Len(p)]).target_asset_id
    IN SensitivityRank[Item(c, "assets", target).sensitivity] * 20
       + Cardinality({k \in DOMAIN p : CrossesZone(c, p[k])}) * 3
       + CountOf(reasons, "exceptioned") * 10 + CountOf(reasons, "not_evaluated") * 6
       + CountOf(reasons, "unguarded") * 12 + Max({0, 8 - Len(p)})

AttackFacts(c) == [p \in AttackPaths(c) |-> AttackReasons(c, p)]
AttackBounded(c) == WithinBounds(c, Range(AttackWalks(c)), AttackPaths(c))

AttackEvaluate(c) ==
    Outcome(c, PathRequestBound(c),
            /\ AttackPolicyValid(c) /\ AttackManifestValid(c)
            /\ PostureValid(c) /\ ControlsKnown(c, "flows") /\ AttackBounded(c),
            AttackFacts, LAMBDA facts : PathTruth(facts, LAMBDA p : AttackScore(c, p)))

-----------------------------------------------------------------------------
(* The evaluation's architecture, with the tool authorization control satisfied.   *)

ArchitectureAsset(zone, sensitivity) ==
    [trust_zone |-> zone, owner_id |-> "owner", sensitivity |-> sensitivity]
ArchitectureFlow(source, target, controls) ==
    [source_asset_id |-> source, target_asset_id |-> target, owner_id |-> "owner",
     required_control_ids |-> controls]

ArchitectureAssets ==
    [user |-> ArchitectureAsset("internet", "low"), api |-> ArchitectureAsset("edge", "medium"),
     agent |-> ArchitectureAsset("application", "high"), retriever |-> ArchitectureAsset("application", "medium"),
     vectors |-> ArchitectureAsset("data", "high"), tools |-> ArchitectureAsset("privileged", "high"),
     secrets |-> ArchitectureAsset("secrets", "critical"), registry |-> ArchitectureAsset("supply", "high"),
     runtime |-> ArchitectureAsset("inference", "critical"), telemetry |-> ArchitectureAsset("security", "high")]
ArchitectureFlows ==
    [user_api |-> ArchitectureFlow("user", "api", {"input"}),
     api_agent |-> ArchitectureFlow("api", "agent", {"prompt"}),
     agent_retriever |-> ArchitectureFlow("agent", "retriever", {"retrieval"}),
     retriever_vectors |-> ArchitectureFlow("retriever", "vectors", {"access"}),
     agent_tools |-> ArchitectureFlow("agent", "tools", {"tool"}),
     tools_secrets |-> ArchitectureFlow("tools", "secrets", {"tool", "least"}),
     registry_runtime |-> ArchitectureFlow("registry", "runtime", {"provenance", "isolation"}),
     agent_runtime |-> ArchitectureFlow("agent", "runtime", {"isolation", "privacy"}),
     runtime_telemetry |-> ArchitectureFlow("runtime", "telemetry", {"abuse"})]

AttackItems == [assets |-> ArchitectureAssets, flows |-> ArchitectureFlows]
AttackUpstreams ==
    [posture |-> Satisfied(UNION {ArchitectureFlows[f].required_control_ids : f \in DOMAIN ArchitectureFlows})]
AttackRules ==
    [entries |-> {"user", "registry"}, targets |-> {"secrets", "runtime"}, unguarded |-> {},
     zones |-> {ArchitectureAssets[a].trust_zone : a \in DOMAIN ArchitectureAssets},
     floors |-> [secrets |-> "critical", runtime |-> "critical"], catalog |-> "catalog",
     max_path_hops |-> 8, max_paths |-> 128]
AttackCanonical == AllFields(AttackItems)
AttackBase ==
    Truthful(WithPosture(Scoped(Context(AttackItems, {"assets", "flows"}, AttackUpstreams, {"assets"},
                                        AttackRules, AttackCanonical))), AttackEvaluate)

(* A flow nobody required, guarded by a control the posture does not know.         *)
ExtraFlow(c) ==
    [c EXCEPT !.manifest.items["flows"] = [extra |-> ArchitectureFlow("retriever", "agent", {Other})] @@ @]

AttackDriftEdits(c) ==
    FieldEdits(c, {<<"assets", "agent", "trust_zone", Other>>, <<"assets", "agent", "trust_zone", "data">>,
                   <<"assets", "secrets", "sensitivity", "high">>,
                   <<"flows", "agent_tools", "source_asset_id", Other>>,
                   <<"flows", "agent_tools", "target_asset_id", "agent">>,
                   <<"flows", "agent_tools", "target_asset_id", "runtime">>,
                   <<"flows", "agent_tools", "required_control_ids", {"input"}>>,
                   <<"flows", "agent_tools", "required_control_ids", {}>>})
    \cup {ExtraFlow(c)}

(* Flow and pin changed together: the flow is then unguarded or its control weak.  *)
AttackCoherentEdits(c) ==
    CoherentEdits(c, {<<"flows", "agent_tools", "required_control_ids", {}>>})
    \cup {[d EXCEPT !.policy.unguarded = {"agent_tools"}] :
              d \in CoherentEdits(c, {<<"flows", "agent_tools", "required_control_ids", {}>>})}

AttackEdits(c) ==
    CommonEdits(c) \cup AttackDriftEdits(c) \cup AttackCoherentEdits(c) \cup PostureEdits(c, {"tool", "isolation"})
    \cup PostureSummaryEdits(c)
    \cup PathPolicyEdits(c, "registry", "user")
    \cup {[c EXCEPT !.policy.zones = @ \ {"secrets"}]}

-----------------------------------------------------------------------------
(* P7-B: privilege paths                                                           *)

TierRank == [untrusted |-> 0, tenant |-> 1, service |-> 2, privileged |-> 3, security |-> 4]
ScopeRank == [public |-> 0, tenant |-> 1, workload |-> 2, security |-> 3]

(* The architecture is the pinned one, and what P7-A says was derived from it and  *)
(* from the posture in use here.                                                   *)
ArchitecturePinned(c) ==
    /\ c.architecture = c.policy.pins["architecture"]
    /\ c.manifest.pins["architecture"] = c.policy.pins["architecture"]
ArchitectureBound(c) ==
    /\ ArchitecturePinned(c)
    /\ \A f \in DOMAIN c.architecture.flows :
           {c.architecture.flows[f].source_asset_id, c.architecture.flows[f].target_asset_id}
               \subseteq c.architecture.assets
AttackAssessmentBound(c) ==
    LET p7a == c.up["p7a"] IN
    /\ p7a.digest = c.policy.pins["p7a"] /\ p7a.verified /\ ~p7a.trusted
    /\ p7a.facts["evidence"] =
           [architecture |-> c.architecture.version, posture |-> c.up["posture"].digest,
            catalog |-> c.up["posture"].catalog]

(* A route is a chain of flows between two assets; the controls an edge relies on  *)
(* are controls of its route.                                                      *)
RouteConnects(c, route, from, to) ==
    LET flows == c.architecture.flows IN
    /\ \A k \in DOMAIN route :
           /\ route[k] \in DOMAIN flows
           /\ flows[route[k]].source_asset_id = IF k = 1 THEN from ELSE flows[route[k - 1]].target_asset_id
    /\ flows[route[Len(route)]].target_asset_id = to
RouteControls(c, route) == UNION {c.architecture.flows[route[k]].required_control_ids : k \in DOMAIN route}

PrivilegePolicyValid(c) ==
    /\ PathPolicyFormed(c)
    /\ c.policy.entries \subseteq c.policy.required["principals"]
    /\ c.policy.targets \subseteq c.policy.required["capabilities"]

Holds(c, principal, capability) ==
    /\ Known(c, "capabilities", capability)
    /\ TierRank[Item(c, "principals", principal).privilege_tier]
           >= TierRank[Item(c, "capabilities", capability).minimum_privilege_tier]

PrincipalsValid(c) ==
    /\ PinnedAs(c, "principals", {"principal_type", "home_asset_id", "privilege_tier", "privilege_scope",
                                  "native_capability_ids"})
    /\ \A p \in Ids(c, "principals") :
           LET principal == Item(c, "principals", p) IN
           /\ principal.home_asset_id \in c.architecture.assets
           /\ \A x \in principal.native_capability_ids : Holds(c, p, x)

CapabilitiesValid(c) ==
    /\ PinnedAs(c, "capabilities", {"target_asset_id"})
    /\ \A x \in Ids(c, "capabilities") : Item(c, "capabilities", x).target_asset_id \in c.architecture.assets
    /\ \A x \in c.policy.required["capabilities"] :
           LET capability == Item(c, "capabilities", x)
               floor == c.policy.expected["capabilities"][x]
           IN /\ SensitivityRank[capability.sensitivity] >= SensitivityRank[floor.sensitivity]
              /\ TierRank[capability.minimum_privilege_tier] >= TierRank[floor.minimum_privilege_tier]

TransitionsValid(c) ==
    /\ PinnedAs(c, "transitions", {"source_principal_id", "target_principal_id", "via_flow_ids",
                                   "required_control_ids", "granted_capability_ids"})
    /\ \A e \in Ids(c, "transitions") :
           LET edge == Item(c, "transitions", e) IN
           /\ {edge.source_principal_id, edge.target_principal_id} \subseteq Ids(c, "principals")
           /\ edge.source_principal_id # edge.target_principal_id
           /\ \A x \in edge.granted_capability_ids : Holds(c, edge.target_principal_id, x)
           /\ RouteConnects(c, edge.via_flow_ids, Item(c, "principals", edge.source_principal_id).home_asset_id,
                            Item(c, "principals", edge.target_principal_id).home_asset_id)
           /\ edge.required_control_ids \subseteq RouteControls(c, edge.via_flow_ids)

PrivilegeManifestValid(c) ==
    /\ ManifestBound(c) /\ Covered(c) /\ OwnersTrusted(c, {"principals", "capabilities", "transitions"})
    /\ PrincipalsValid(c) /\ CapabilitiesValid(c) /\ TransitionsValid(c)
    /\ ControlsKnown(c, "transitions")

(* What a path brings: the target capabilities its last edge adds to those held    *)
(* before; the walk never stops at one.                                            *)
Gained(c, e) ==
    LET edge == Item(c, "transitions", e)
    IN edge.granted_capability_ids \cup Item(c, "principals", edge.target_principal_id).native_capability_ids
NewlyAcquired(c, entry, p) ==
    LET native == Item(c, "principals", entry).native_capability_ids
    IN IF p = << >> THEN native
       ELSE Gained(c, p[Len(p)]) \ (native \cup UNION {Gained(c, p[k]) : k \in 1..(Len(p) - 1)})

PrivilegeWalks(c) ==
    [entry \in c.policy.entries |->
        Walks(Links(c, "transitions", "source_principal_id", "target_principal_id"), entry, {},
              c.policy.max_path_hops)]
PrivilegePaths(c) ==
    LET walks == PrivilegeWalks(c) IN
    UNION {UNION {{<<x, entry, p>> : x \in c.policy.targets \cap NewlyAcquired(c, entry, p)} :
                  p \in walks[entry].paths} : entry \in c.policy.entries}

(* How far the principals of a path rise above its entry, in tier or in scope.     *)
Rise(c, path, rank, field) ==
    LET principals == {path[2]} \cup {Item(c, "transitions", e).target_principal_id : e \in Edges(path[3])}
    IN Max({rank[Item(c, "principals", x)[field]] : x \in principals})
       - rank[Item(c, "principals", path[2])[field]]

PrivilegeReasons(c, path) ==
    LET matters == \/ Rise(c, path, TierRank, "privilege_tier") > 0
                   \/ Rise(c, path, ScopeRank, "privilege_scope") > 0
                   \/ SensitivityRank[Item(c, "capabilities", path[1]).sensitivity] >= 3
    IN IF matters THEN Weak(c, ControlsOn(c, "transitions", path[3])) ELSE {}

PrivilegeScore(c, path) ==
    LET weak == Weak(c, ControlsOn(c, "transitions", path[3]))
    IN SensitivityRank[Item(c, "capabilities", path[1]).sensitivity] * 20
       + Rise(c, path, TierRank, "privilege_tier") * 7 + Rise(c, path, ScopeRank, "privilege_scope") * 5
       + CountOf(weak, "exceptioned") * 12 + CountOf(weak, "not_evaluated") * 7
       + Max({0, 8 - Len(path[3])})

PrivilegeFacts(c) == [path \in PrivilegePaths(c) |-> PrivilegeReasons(c, path)]
PrivilegeBounded(c) == WithinBounds(c, Range(PrivilegeWalks(c)), PrivilegePaths(c))

PrivilegeEvaluate(c) ==
    Outcome(c, PathRequestBound(c),
            /\ PrivilegePolicyValid(c) /\ ArchitectureBound(c) /\ PostureValid(c)
            /\ AttackAssessmentBound(c) /\ PrivilegeManifestValid(c) /\ PrivilegeBounded(c),
            PrivilegeFacts, LAMBDA facts : PathTruth(facts, LAMBDA path : PrivilegeScore(c, path)))

-----------------------------------------------------------------------------
(* The evaluation's identities: a user becomes a tenant, an agent, a tool and at   *)
(* last the broker of secrets; a publisher's release becomes the running model.    *)

IdentityPrincipal(home, tier, scope, native) ==
    [principal_type |-> home, home_asset_id |-> home, owner_id |-> "owner", privilege_tier |-> tier,
     privilege_scope |-> scope, native_capability_ids |-> native]
Capability(target, sensitivity, tier) ==
    [target_asset_id |-> target, owner_id |-> "owner", sensitivity |-> sensitivity,
     minimum_privilege_tier |-> tier]
PrivilegeTransition(source, target, flow, controls, granted) ==
    [source_principal_id |-> source, target_principal_id |-> target, owner_id |-> "owner",
     via_flow_ids |-> <<flow>>, required_control_ids |-> controls, granted_capability_ids |-> granted]

PrivilegeItems ==
    [principals |->
        [user |-> IdentityPrincipal("user", "untrusted", "public", {}),
         tenant |-> IdentityPrincipal("api", "tenant", "tenant", {"session"}),
         agent |-> IdentityPrincipal("agent", "service", "workload", {"invoke_agent"}),
         tool |-> IdentityPrincipal("tools", "privileged", "workload", {"invoke_tool"}),
         broker |-> IdentityPrincipal("secrets", "security", "security", {"read_secret"}),
         publisher |-> IdentityPrincipal("registry", "service", "workload", {"publish"}),
         model |-> IdentityPrincipal("runtime", "privileged", "workload", {"infer"})],
     capabilities |->
        [session |-> Capability("api", "low", "tenant"), invoke_agent |-> Capability("agent", "medium", "service"),
         invoke_tool |-> Capability("tools", "high", "privileged"),
         read_secret |-> Capability("secrets", "critical", "security"),
         publish |-> Capability("registry", "high", "service"),
         load |-> Capability("runtime", "critical", "privileged"),
         infer |-> Capability("runtime", "high", "privileged")],
     transitions |->
        [login |-> PrivilegeTransition("user", "tenant", "user_api", {"input"}, {"session"}),
         inject |-> PrivilegeTransition("tenant", "agent", "api_agent", {"prompt"}, {"invoke_agent"}),
         call |-> PrivilegeTransition("agent", "tool", "agent_tools", {"tool"}, {"invoke_tool"}),
         fetch |-> PrivilegeTransition("tool", "broker", "tools_secrets", {"tool", "least"}, {"read_secret"}),
         admit |-> PrivilegeTransition("publisher", "model", "registry_runtime", {"provenance"}, {"load"}),
         run |-> PrivilegeTransition("agent", "model", "agent_runtime", {"privacy"}, {"infer"})]]

PrivilegeUpstreams ==
    AttackUpstreams
    @@ [p7a |-> [evidence |-> [architecture |-> "expected", posture |-> "posture", catalog |-> "catalog"]]]
PrivilegeRules ==
    [entries |-> {"user", "publisher"}, targets |-> {"read_secret", "load"}, catalog |-> "catalog",
     max_path_hops |-> 8, max_paths |-> 128]

(* The architecture beside the manifest, pinned by all three documents.            *)
Architecture == [version |-> "expected", assets |-> DOMAIN ArchitectureAssets, flows |-> ArchitectureFlows]
WithArchitecture(c, architecture) ==
    LET pin == [architecture |-> architecture] IN
    Repinned(pin @@ [c EXCEPT !.policy.pins = pin @@ @, !.request.pins = pin @@ @, !.manifest.pins = pin @@ @])
ArchitectureEdits(c, flow) ==
    {[c EXCEPT !.architecture.version = Other], [c EXCEPT !.manifest.pins["architecture"].version = Other],
     [c EXCEPT !.request.pins["architecture"].version = Other],
     [c EXCEPT !.architecture.flows[flow].required_control_ids = {}]}

PrivilegeCanonical == AllFields(PrivilegeItems)
PrivilegeBase ==
    Truthful(WithArchitecture(WithPosture(Scoped(
        Context(PrivilegeItems, DOMAIN PrivilegeItems, PrivilegeUpstreams, {"principals"}, PrivilegeRules,
                PrivilegeCanonical))), Architecture), PrivilegeEvaluate)

PrivilegeDriftEdits(c) ==
    FieldEdits(c, {<<"principals", "agent", "home_asset_id", "tools">>, <<"principals", "agent", "principal_type", Other>>,
                   <<"principals", "tool", "privilege_tier", "service">>,
                   <<"principals", "tool", "privilege_scope", "security">>,
                   <<"principals", "agent", "native_capability_ids", {"invoke_agent", "read_secret"}>>,
                   <<"capabilities", "read_secret", "target_asset_id", "runtime">>,
                   <<"capabilities", "read_secret", "sensitivity", "high">>,
                   <<"capabilities", "read_secret", "minimum_privilege_tier", "privileged">>,
                   <<"transitions", "call", "source_principal_id", "user">>,
                   <<"transitions", "call", "target_principal_id", "agent">>,
                   <<"transitions", "call", "via_flow_ids", <<"agent_runtime">>>>,
                   <<"transitions", "call", "via_flow_ids", <<Other>>>>,
                   <<"transitions", "call", "required_control_ids", {"prompt"}>>,
                   <<"transitions", "call", "required_control_ids", {Other}>>,
                   <<"transitions", "call", "granted_capability_ids", {"read_secret"}>>})

(* The drift approved by the policy too: what is left are the rules between items. *)
PrivilegeCoherentEdits(c) ==
    CoherentEdits(c, {<<"principals", "agent", "native_capability_ids", {"invoke_agent", "read_secret"}>>,
                      <<"principals", "tool", "privilege_tier", "service">>,
                      <<"transitions", "call", "granted_capability_ids", {"read_secret"}>>,
                      <<"transitions", "call", "via_flow_ids", <<"agent_runtime">>>>,
                      <<"transitions", "call", "required_control_ids", {"prompt"}>>,
                      <<"principals", "agent", "home_asset_id", "tools">>})

PrivilegeEdits(c) ==
    CommonEdits(c) \cup TrustEdits(c) \cup PrivilegeDriftEdits(c) \cup PrivilegeCoherentEdits(c)
    \cup ArchitectureEdits(c, "agent_tools") \cup PostureEdits(c, {"tool", "provenance"}) \cup PostureSummaryEdits(c)
    \cup PathPolicyEdits(c, "publisher", "load")
    \cup FactEdits(c, {<<"p7a", "evidence", f, Other>> : f \in {"architecture", "posture", "catalog"}})
=============================================================================
