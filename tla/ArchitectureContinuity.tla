------------------------ MODULE ArchitectureContinuity ------------------------
(* What is left of the architecture's protection when parts of it fail: the        *)
(* fallbacks for dependencies that are lost, aegis/architecture/                   *)
(* resilience_manifest.py and resilience_analysis.py (P7-F), and the telemetry     *)
(* that would report it, telemetry_manifest.py and telemetry_analysis.py (P7-G).   *)
EXTENDS ArchitectureTrust

(* The request is for every item of one kind, in any number of copies.             *)
Asked(c, kind) ==
    /\ c.request.identity = "expected" /\ c.request.sha = c.policy.sha
    /\ c.request.pins = c.policy.pins /\ c.request.ids = c.policy.required[kind]

-----------------------------------------------------------------------------
(* P7-F: failure scenarios and their fallbacks. A cache is a set of at most one    *)
(* time at which it was filled.                                                    *)

TransportRank == [plaintext |-> 0, tls |-> 1, mtls |-> 2, private_link |-> 3]
AuthenticationRank == [none |-> 0, api_key |-> 1, oauth2 |-> 2, signed |-> 3, mtls |-> 4]

FallbackPolicyValid(c) ==
    LET fallbacks == c.policy.required["fallbacks"]
        scenarios == c.policy.required["scenarios"]
        expected == c.policy.expected["fallbacks"]
    IN /\ PolicyFormed(c) /\ fallbacks # {} /\ scenarios # {}
       /\ DOMAIN c.policy.fallbacks_of = scenarios /\ DOMAIN c.policy.max_cache_age = fallbacks
       /\ \A s \in scenarios : c.policy.fallbacks_of[s] # {}
       /\ \A s \in scenarios : \A f \in c.policy.fallbacks_of[s] :
              f \in fallbacks /\ expected[f].scenario_id = s
       /\ UNION Range(c.policy.fallbacks_of) = fallbacks
       /\ \A f \in fallbacks : expected[f].retry_attempts >= 0 /\ c.policy.max_cache_age[f] >= 0

(* The dependencies are judged in one assessment, once each, from the same posture. *)
FallbackUpstreamsValid(c) ==
    LET p7e == c.up["p7e"] IN
    /\ p7e.verified /\ p7e.digest = c.policy.pins["p7e"] /\ p7e.graph = c.policy.pins["graph"]
    /\ p7e.posture = c.policy.pins["posture"] /\ p7e.catalog = c.policy.catalog /\ ~p7e.repeated
    /\ PostureBound(c)

ScenariosValid(c) ==
    /\ OwnersTrusted(c, {"scenarios"})
    /\ ProfilesExpected(c, "scenarios", {"dependency_id", "failure_state", "required_control_ids"})
    /\ ControlsKnown(c, "scenarios")
    /\ \A s \in Ids(c, "scenarios") : HasFact(c, "p7e", Item(c, "scenarios", s).dependency_id)

(* What a fallback of each mode may do.                                            *)
FallbackShape(fallback, primary) ==
    LET target == fallback.target_dependency_id
        still == fallback.retry_attempts = 0
        uncached == fallback.cached_at_epoch = {}
    IN CASE fallback.mode = "fail_closed" ->
              /\ target = None /\ still /\ uncached
              /\ fallback.egress_data_classes = {} /\ fallback.secret_ids = {}
              /\ fallback.disabled_control_ids = {}
         [] fallback.mode = "retry_primary" -> target = primary /\ fallback.retry_attempts > 0 /\ uncached
         [] fallback.mode = "alternate" -> target \notin {None, primary} /\ still /\ uncached
         [] fallback.mode = "local_safe" -> target = None /\ still /\ uncached /\ fallback.secret_ids = {}
         [] fallback.mode = "cache" -> target = None /\ still /\ ~uncached

FallbackValid(c, f) ==
    LET fallback == Item(c, "fallbacks", f)
        expected == c.policy.expected["fallbacks"][f]
        scenario == Item(c, "scenarios", fallback.scenario_id)
        accounted == fallback.preserved_control_ids \cup fallback.disabled_control_ids
    IN /\ Known(c, "scenarios", fallback.scenario_id)
       /\ fallback.target_dependency_id # None => HasFact(c, "p7e", fallback.target_dependency_id)
       /\ fallback.preserved_control_ids \cap fallback.disabled_control_ids = {}
       /\ accounted = scenario.required_control_ids /\ accounted \subseteq DOMAIN c.up["posture"].facts
       /\ fallback.egress_data_classes \subseteq expected.egress_data_classes
       /\ fallback.secret_ids \subseteq expected.secret_ids
       /\ fallback.retry_attempts \in 0..expected.retry_attempts
       /\ \A t \in fallback.cached_at_epoch : t <= c.request.at + c.policy.skew
       /\ FallbackShape(fallback, scenario.dependency_id)

FallbackManifestValid(c) ==
    /\ ManifestBound(c) /\ ManifestCovers(c)
    /\ \A p \in {"p7e", "graph"} : c.manifest.pins[p] = c.policy.pins[p]
    /\ ScenariosValid(c) /\ OwnersTrusted(c, {"fallbacks"})
    /\ ProfilesExpected(c, "fallbacks",
           {"scenario_id", "mode", "target_dependency_id", "preserved_control_ids", "disabled_control_ids"})
    /\ \A f \in Ids(c, "fallbacks") : FallbackValid(c, f)
    /\ \A s \in Ids(c, "scenarios") :
           {f \in Ids(c, "fallbacks") : Item(c, "fallbacks", f).scenario_id = s} = c.policy.fallbacks_of[s]

(* A fallback is exposed by what it gives up: controls, the trust of the primary,  *)
(* or the freshness of what it serves. One that fails closed serves nothing.       *)
FallbackReasons(c, f) ==
    LET fallback == Item(c, "fallbacks", f)
        scenario == Item(c, "scenarios", fallback.scenario_id)
        primary == Fact(c, "p7e", scenario.dependency_id)
        alternate == Fact(c, "p7e", fallback.target_dependency_id)
        ages == {c.request.at - t : t \in fallback.cached_at_epoch}
        is(mode) == fallback.mode = mode
    IN {<<"disabled", x>> : x \in fallback.disabled_control_ids}
       \cup (IF is("fail_closed") THEN {} ELSE Weak(c, fallback.preserved_control_ids))
       \cup Reason("retrying_untrusted", is("retry_primary") /\ scenario.failure_state = "untrusted")
       \cup Reason("alternate_exposed", is("alternate") /\ alternate.exposed)
       \cup Reason("weaker_transport", /\ is("alternate")
                /\ TransportRank[alternate.transport_mode] < TransportRank[primary.transport_mode])
       \cup Reason("weaker_authentication", /\ is("alternate")
                /\ AuthenticationRank[alternate.authentication_mode] < AuthenticationRank[primary.authentication_mode])
       \cup Reason("future_cache", is("cache") /\ \E age \in ages : age < 0)
       \cup Reason("stale_cache", is("cache") /\ \E age \in ages : age > c.policy.max_cache_age[f])

FallbackScore(c, f) ==
    LET fallback == Item(c, "fallbacks", f)
        reasons == FallbackReasons(c, f)
        has(name) == CountOf(reasons, name) > 0
        classes == {EgressRank[x] : x \in fallback.egress_data_classes}
        primary == Fact(c, "p7e", Item(c, "scenarios", fallback.scenario_id).dependency_id)
    IN SensitivityRank[primary.criticality] * 18 + Bonus(18, fallback.secret_ids # {})
       + Max({0, MaxOf(classes) - 2}) * 7
       + CountOf(reasons, "disabled") * 20 + CountOf(reasons, "exceptioned") * 14
       + CountOf(reasons, "not_evaluated") * 12 + Bonus(24, has("alternate_exposed"))
       + Bonus(18, has("weaker_transport") \/ has("weaker_authentication"))
       + Bonus(30, has("retrying_untrusted")) + Bonus(20, has("stale_cache"))

FallbackFacts(c) == [f \in Ids(c, "fallbacks") |-> FallbackReasons(c, f)]

(* The caller declares scenarios: one is exposed when any of its fallbacks is.     *)
FallbackTruth(c, facts) ==
    [PathTruth(facts, LAMBDA f : FallbackScore(c, f)) EXCEPT
        !.denied = {Item(c, "fallbacks", f).scenario_id : f \in @}]

FallbackEvaluate(c) ==
    Outcome(c, Asked(c, "scenarios"),
            FallbackPolicyValid(c) /\ FallbackUpstreamsValid(c) /\ FallbackManifestValid(c),
            FallbackFacts, LAMBDA facts : FallbackTruth(c, facts))

-----------------------------------------------------------------------------
(* The evaluation's plan, without the identity provider, which fails closed like   *)
(* the tool.                                                                       *)

DependencyFailureScenario(dependency, state, controls) ==
    [dependency_id |-> dependency, failure_state |-> state, owner_id |-> "owner", required_control_ids |-> controls]
FallbackStrategy(scenario, mode, target, controls, classes, retries, cached) ==
    [scenario_id |-> scenario, mode |-> mode, owner_id |-> "owner", target_dependency_id |-> target,
     preserved_control_ids |-> controls, disabled_control_ids |-> {}, egress_data_classes |-> classes,
     secret_ids |-> {}, retry_attempts |-> retries, cached_at_epoch |-> cached]

FallbackItems ==
    [scenarios |->
        [model_lost |-> DependencyFailureScenario("primary", "unavailable", {"model", "authz", "local"}),
         model_untrusted |-> DependencyFailureScenario("primary", "untrusted", {"model", "authz"}),
         model_degraded |-> DependencyFailureScenario("primary", "degraded", {"model", "authz"}),
         tool_lost |-> DependencyFailureScenario("tool", "unavailable", {"tool", "closed"}),
         telemetry_degraded |-> DependencyFailureScenario("telemetry", "degraded", {"telemetry", "cache"}),
         registry_lost |-> DependencyFailureScenario("registry", "unavailable", {"registry", "cache"})],
     fallbacks |->
        [local |-> FallbackStrategy("model_lost", "local_safe", None, {"model", "authz", "local"}, {"internal"}, 0, {}),
         secondary |-> FallbackStrategy("model_untrusted", "alternate", "secondary", {"model", "authz"},
                                        {"confidential"}, 0, {}),
         retry |-> FallbackStrategy("model_degraded", "retry_primary", "primary", {"model", "authz"},
                                    {"confidential"}, 2, {}),
         closed |-> FallbackStrategy("tool_lost", "fail_closed", None, {"tool", "closed"}, {}, 0, {}),
         telemetry |-> FallbackStrategy("telemetry_degraded", "cache", None, {"telemetry", "cache"}, {"internal"}, 0, {0}),
         registry |-> FallbackStrategy("registry_lost", "cache", None, {"registry", "cache"}, {"internal"}, 0, {0})]]

ThirdPartyTrustPath(criticality, transport, authentication) ==
    [criticality |-> criticality, transport_mode |-> transport, authentication_mode |-> authentication, exposed |-> FALSE]
FallbackUpstreams ==
    [posture |-> Satisfied({"model", "authz", "local", "tool", "closed", "telemetry", "registry", "cache"}),
     p7e |-> [primary |-> ThirdPartyTrustPath("high", "mtls", "oauth2"),
              secondary |-> ThirdPartyTrustPath("high", "mtls", "oauth2"),
              tool |-> ThirdPartyTrustPath("critical", "mtls", "signed"),
              telemetry |-> ThirdPartyTrustPath("medium", "tls", "oauth2"),
              registry |-> ThirdPartyTrustPath("high", "private_link", "mtls")]]
FallbackRules ==
    [catalog |-> "catalog",
     fallbacks_of |-> [s \in DOMAIN FallbackItems.scenarios |->
                          {f \in DOMAIN FallbackItems.fallbacks : FallbackItems.fallbacks[f].scenario_id = s}],
     max_cache_age |-> [f \in DOMAIN FallbackItems.fallbacks |->
                           IF f = "telemetry" THEN 300 ELSE IF f = "registry" THEN 3600 ELSE 0]]

(* P7-E's assessment names the graph, the posture and the catalog it was made from. *)
WithDependencyGraph(c) ==
    LET pin == [graph |-> "graph"] IN
    Repinned([c EXCEPT !.up["p7e"] = [graph |-> "graph", posture |-> "posture", catalog |-> "catalog"] @@ @,
                       !.policy.pins = pin @@ @, !.request.pins = pin @@ @, !.manifest.pins = pin @@ @])
FallbackCanonical == AllFields(FallbackItems)
FallbackBase ==
    Truthful(WithDependencyGraph(WithPosture(
        Context(FallbackItems, DOMAIN FallbackItems, FallbackUpstreams, {"scenarios"}, FallbackRules,
                FallbackCanonical))), FallbackEvaluate)

FallbackDriftEdits(c) ==
    FieldEdits(c, {<<"scenarios", "model_lost", "dependency_id", Other>>, <<"scenarios", "model_lost", "dependency_id", "tool">>,
                   <<"scenarios", "model_lost", "failure_state", "degraded">>,
                   <<"scenarios", "model_lost", "required_control_ids", {"model", "authz"}>>,
                   <<"fallbacks", "local", "scenario_id", Other>>, <<"fallbacks", "local", "scenario_id", "model_degraded">>,
                   <<"fallbacks", "local", "mode", "fail_closed">>,
                   <<"fallbacks", "secondary", "target_dependency_id", "registry">>,
                   <<"fallbacks", "local", "preserved_control_ids", {"model", "authz"}>>,
                   <<"fallbacks", "local", "disabled_control_ids", {"local"}>>,
                   <<"fallbacks", "local", "egress_data_classes", {"internal", "secret"}>>,
                   <<"fallbacks", "secondary", "secret_ids", {"root"}>>, <<"fallbacks", "retry", "retry_attempts", 3>>,
                   <<"fallbacks", "retry", "retry_attempts", 0>>, <<"fallbacks", "telemetry", "cached_at_epoch", {}>>,
                   <<"fallbacks", "telemetry", "cached_at_epoch", {91}>>})

(* Approved by the policy as well: shapes no mode allows, and fallbacks that give  *)
(* something up.                                                                   *)
FallbackCoherentEdits(c) ==
    CoherentEdits(c, {<<"fallbacks", "closed", "egress_data_classes", {"internal"}>>,
                      <<"fallbacks", "retry", "target_dependency_id", None>>,
                      <<"fallbacks", "secondary", "target_dependency_id", "primary">>,
                      <<"fallbacks", "secondary", "target_dependency_id", Other>>,
                      <<"fallbacks", "local", "secret_ids", {"root"}>>,
                      <<"fallbacks", "telemetry", "target_dependency_id", "telemetry">>,
                      <<"fallbacks", "retry", "disabled_control_ids", {"authz"}>>,
                      <<"fallbacks", "retry", "preserved_control_ids", {"model"}>>,
                      <<"scenarios", "model_degraded", "failure_state", "untrusted">>})
FallbackDegradingEdits(c) ==
    FieldEdits(c, {<<"fallbacks", "telemetry", "cached_at_epoch", {-241}>>,
                   <<"fallbacks", "registry", "cached_at_epoch", {61}>>})
    \cup UNION {CoherentEdits(d, {<<"fallbacks", "local", "disabled_control_ids", {"local"}>>}) :
               d \in CoherentEdits(c, {<<"fallbacks", "local", "preserved_control_ids", {"model", "authz"}>>})}

FallbackUpstreamEdits(c) ==
    PostureEdits(c, {"model", "cache"}) \cup MissingFacts(c, {"p7e"})
    \cup {[c EXCEPT !.up["p7e"].repeated = TRUE], [c EXCEPT !.manifest.pins["graph"] = Other],
          [c EXCEPT !.manifest.pins["p7e"] = Other], [c EXCEPT !.request.pins["graph"] = Other]}
    \cup {[c EXCEPT !.up["p7e"][part] = Other] : part \in {"graph", "posture", "catalog"}}
    \cup FactEdits(c, {<<"p7e", "secondary", "exposed", TRUE>>, <<"p7e", "secondary", "transport_mode", "tls">>,
                       <<"p7e", "secondary", "authentication_mode", "api_key">>})

FallbackPolicyEdits(c) ==
    PolicyEdits(c, {<<"owners", {}>>, <<"max_age", 0>>, <<"skew", -1>>})
    \cup {[c EXCEPT !.policy.fallbacks_of[s] = @ \ {"retry"}] : s \in {"model_degraded"}}
    \cup {[c EXCEPT !.policy.fallbacks_of["model_lost"] = @ \cup {"retry"}],
          [c EXCEPT !.policy.max_cache_age["telemetry"] = -1]}

FallbackEdits(c) ==
    CommonEdits(c) \cup FallbackDriftEdits(c) \cup FallbackCoherentEdits(c) \cup FallbackDegradingEdits(c)
    \cup FallbackUpstreamEdits(c) \cup FallbackPolicyEdits(c)
-----------------------------------------------------------------------------
(* P7-G: telemetry. Every requirement has a route from a producer to the sinks.    *)

TelemetryPolicyValid(c) ==
    LET requirements == c.policy.required["requirements"]
        expected == c.policy.expected["routes"]
    IN /\ PolicyFormed(c) /\ c.policy.observers # {} /\ c.policy.observation_age > 0
       /\ \A kind \in DOMAIN c.policy.required : c.policy.required[kind] # {}
       /\ DOMAIN c.policy.fallbacks_of = requirements
       /\ \A r \in DOMAIN expected : expected[r].requirement_id \in requirements
       /\ \A q \in requirements : Cardinality({r \in DOMAIN expected : expected[r].requirement_id = q}) = 1
       /\ \A q \in requirements : c.policy.expected["requirements"][q].max_detection_latency_seconds > 0

TelemetryUpstreamsValid(c) ==
    /\ PostureBound(c)
    /\ \A u \in {"p7a", "p7b", "p7c", "p7d", "p7e", "p7f"} : c.up[u].verified /\ c.up[u].digest = c.policy.pins[u]

RequirementsValid(c) ==
    /\ ProfilesExpected(c, "requirements",
           {"event_class", "source_kind", "source_object_ids", "required_field_ids", "requires_alert",
            "max_detection_latency_seconds"})
    /\ \A q \in Ids(c, "requirements") :
           LET requirement == Item(c, "requirements", q) IN
           /\ SensitivityRank[requirement.severity]
                  >= SensitivityRank[c.policy.expected["requirements"][q].severity]
           /\ \A x \in requirement.source_object_ids : HasFact(c, requirement.source_kind, x)

(* A node may be more capable than the policy wants it, never less.                *)
NodesValid(c) ==
    /\ ProfilesExpected(c, "nodes", {"node_type", "trust_zone"})
    /\ \A n \in Ids(c, "nodes"), f \in {"integrity_validation_capable", "append_only_capable", "alert_capable"} :
           c.policy.expected["nodes"][n][f] => Item(c, "nodes", n)[f]

RouteShaped(c, route) ==
    LET types == [k \in DOMAIN route.node_ids |-> Item(c, "nodes", route.node_ids[k]).node_type]
    IN /\ Len(types) >= 4 /\ types[1] = "producer" /\ types[2] = "collector"
       /\ {"processor", "audit"} \subseteq Range(types)
       /\ Item(c, "requirements", route.requirement_id).requires_alert => "alert" \in Range(types)

RouteValid(c, route) ==
    /\ route.observer_id \in c.policy.observers
    /\ Known(c, "requirements", route.requirement_id)
    /\ Range(route.node_ids) \subseteq Ids(c, "nodes") /\ RouteShaped(c, route)
    /\ c.request.at - route.observed_at_epoch <= c.policy.observation_age
    /\ route.observed_at_epoch - c.request.at <= c.policy.skew
    /\ route.covered_fallback_scenario_ids \subseteq DOMAIN c.up["p7f"].facts
    /\ route.dropped_field_ids \subseteq Item(c, "requirements", route.requirement_id).required_field_ids

RoutesOf(c, q) == {r \in Ids(c, "routes") : Item(c, "routes", r).requirement_id = q}

TelemetryManifestValid(c) ==
    /\ ManifestBound(c) /\ ManifestCovers(c) /\ c.manifest.pins = c.policy.pins
    /\ OwnersTrusted(c, {"requirements", "nodes", "routes"})
    /\ RequirementsValid(c) /\ NodesValid(c)
    /\ ProfilesExpected(c, "routes", {"requirement_id", "node_ids", "required_control_ids"})
    /\ ControlsKnown(c, "routes")
    /\ \A r \in Ids(c, "routes") : RouteValid(c, Item(c, "routes", r))
    /\ \A q \in Ids(c, "requirements") : Cardinality(RoutesOf(c, q)) = 1

RouteOf(c, q) == Item(c, "routes", CHOOSE r \in RoutesOf(c, q) : TRUE)
Unobserved(c, q) == c.policy.fallbacks_of[q] \ RouteOf(c, q).covered_fallback_scenario_ids

(* Why a requirement is a blind spot: what its route was seen to do wrong.         *)
BlindSpotReasons(c, q) ==
    LET requirement == Item(c, "requirements", q)
        route == RouteOf(c, q)
    IN Fired([source_signature |-> ~route.source_signature_valid,
              chain_integrity |-> ~route.chain_integrity_valid,
              append_only |-> ~route.append_only_acknowledged,
              alert_path |-> requirement.requires_alert /\ ~route.alert_path_operational,
              latency |-> route.observed_detection_latency_seconds > requirement.max_detection_latency_seconds,
              fallback_gap |-> Unobserved(c, q) # {},
              fields_dropped |-> route.dropped_field_ids # {}])
       \cup AnyWeak(c, route.required_control_ids)

BlindSpotWeights ==
    [source_signature |-> 25, chain_integrity |-> 30, append_only |-> 22, alert_path |-> 24, latency |-> 14,
     exceptioned |-> 18, not_evaluated |-> 16, fallback_gap |-> 20, fields_dropped |-> 12]
BlindSpotScore(c, q) ==
    LET base == [low |-> 20, medium |-> 40, high |-> 65, critical |-> 85]
        beyond(S) == Max({0, Cardinality(S) - 1})
    IN base[Item(c, "requirements", q).severity]
       + MapThenSumSet(LAMBDA x : BlindSpotWeights[x], BlindSpotReasons(c, q))
       + beyond(Unobserved(c, q)) * 6 + beyond(RouteOf(c, q).dropped_field_ids) * 4

TelemetryFacts(c) == [q \in Ids(c, "requirements") |-> BlindSpotReasons(c, q)]

TelemetryEvaluate(c) ==
    Outcome(c, Asked(c, "requirements"),
            TelemetryPolicyValid(c) /\ TelemetryUpstreamsValid(c) /\ TelemetryManifestValid(c),
            TelemetryFacts, LAMBDA facts : PathTruth(facts, LAMBDA q : BlindSpotScore(c, q)))

-----------------------------------------------------------------------------
(* The evaluation's plan, with one requirement for each kind of source.            *)

TelemetryEventRequirement(severity, source, objects, alert, latency) ==
    [event_class |-> source, severity |-> severity, source_kind |-> source, source_object_ids |-> objects,
     required_field_ids |-> {"event", "detail"}, requires_alert |-> alert,
     max_detection_latency_seconds |-> latency, owner_id |-> "owner"]
TelemetryNode(type) ==
    [node_type |-> type, owner_id |-> "owner", trust_zone |-> type,
     integrity_validation_capable |-> type # "producer", append_only_capable |-> type = "audit",
     alert_capable |-> type = "alert"]
TelemetryRoute(requirement, alert, scenarios) ==
    [requirement_id |-> requirement, owner_id |-> "owner", observer_id |-> "verifier",
     node_ids |-> <<"producer", "collector", "processor", "audit">> \o (IF alert THEN <<"alert">> ELSE << >>),
     required_control_ids |-> {"integrity", "append_only"} \cup (IF alert THEN {"routing"} ELSE {})
                              \cup (IF scenarios # {} THEN {"failover"} ELSE {}),
     observed_at_epoch |-> 30, source_signature_valid |-> TRUE, chain_integrity_valid |-> TRUE,
     append_only_acknowledged |-> TRUE, alert_path_operational |-> TRUE,
     observed_detection_latency_seconds |-> 30, covered_fallback_scenario_ids |-> scenarios, dropped_field_ids |-> {}]

FailureScenarioIds == {"idp", "model", "telemetry", "tool"}
TelemetryFallbacks ==
    [authentication |-> {"idp"}, privilege |-> {}, egress |-> {}, secret |-> {},
     dependency |-> {"model", "telemetry", "tool"}, failover |-> FailureScenarioIds, control |-> {"telemetry"}]
TelemetryRequirements ==
    [authentication |-> TelemetryEventRequirement("high", "p7a", {"external_tool"}, FALSE, 120),
     privilege |-> TelemetryEventRequirement("critical", "p7b", {"admin", "tool"}, TRUE, 60),
     egress |-> TelemetryEventRequirement("critical", "p7c", {"egress"}, TRUE, 60),
     secret |-> TelemetryEventRequirement("critical", "p7d", {"access"}, TRUE, 45),
     dependency |-> TelemetryEventRequirement("high", "p7e", {"tool", "model"}, TRUE, 90),
     failover |-> TelemetryEventRequirement("critical", "p7f", FailureScenarioIds, TRUE, 45),
     control |-> TelemetryEventRequirement("critical", "posture", {"integrity", "failover", "routing"}, TRUE, 45)]
TelemetryRoutes ==
    [q \in DOMAIN TelemetryRequirements |->
        TelemetryRoute(q, TelemetryRequirements[q].requires_alert, TelemetryFallbacks[q])]
TelemetryItems ==
    [requirements |-> TelemetryRequirements,
     nodes |-> [n \in {"producer", "collector", "processor", "audit", "alert"} |-> TelemetryNode(n)],
     routes |-> TelemetryRoutes]
TelemetryUpstreams ==
    LET listed(ids) == [x \in ids |-> [listed |-> TRUE]] IN
    [posture |-> Satisfied({"integrity", "append_only", "routing", "failover"}),
     p7a |-> listed({"external_tool"}), p7b |-> listed({"admin", "tool"}), p7c |-> listed({"egress"}),
     p7d |-> listed({"access"}), p7e |-> listed({"tool", "model"}), p7f |-> listed(FailureScenarioIds)]
TelemetryRules ==
    [catalog |-> "catalog", observers |-> {"verifier"}, observation_age |-> 40, fallbacks_of |-> TelemetryFallbacks]
TelemetryCanonical == AllFields(TelemetryItems)
TelemetryBase ==
    Truthful(WithPosture(Context(TelemetryItems, DOMAIN TelemetryItems, TelemetryUpstreams, {"requirements"},
                                 TelemetryRules, TelemetryCanonical)), TelemetryEvaluate)

TelemetryDriftEdits(c) ==
    FieldEdits(c, {<<"requirements", "secret", "event_class", "p7c">>, <<"requirements", "secret", "severity", "low">>,
                   <<"requirements", "secret", "source_kind", "p7c">>, <<"requirements", "privilege", "source_object_ids", {"tool"}>>,
                   <<"requirements", "secret", "required_field_ids", {"event"}>>,
                   <<"requirements", "secret", "requires_alert", FALSE>>,
                   <<"requirements", "secret", "max_detection_latency_seconds", 999>>,
                   <<"nodes", "collector", "node_type", "producer">>, <<"nodes", "collector", "trust_zone", Other>>,
                   <<"nodes", "collector", "integrity_validation_capable", FALSE>>,
                   <<"nodes", "audit", "append_only_capable", FALSE>>, <<"nodes", "alert", "alert_capable", FALSE>>,
                   <<"routes", "secret", "observer_id", Other>>, <<"routes", "secret", "requirement_id", "egress">>,
                   <<"routes", "secret", "node_ids", <<"producer", "processor", "collector", "audit", "alert">>>>,
                   <<"routes", "secret", "required_control_ids", {"integrity"}>>,
                   <<"routes", "secret", "observed_at_epoch", 19>>, <<"routes", "secret", "observed_at_epoch", 91>>,
                   <<"routes", "failover", "covered_fallback_scenario_ids", {Other}>>,
                   <<"routes", "secret", "dropped_field_ids", {Other}>>})

TelemetryCoherentEdits(c) ==
    CoherentEdits(c, {<<"requirements", "egress", "source_object_ids", {Other}>>,
                      <<"requirements", "secret", "max_detection_latency_seconds", 0>>,
                      <<"routes", "secret", "required_control_ids", {"integrity", Other}>>,
                      <<"routes", "secret", "node_ids", <<"producer", "collector", "processor", Other, "alert">>>>,
                      <<"routes", "secret", "node_ids", <<"producer", "collector", "processor", "audit">>>>,
                      <<"routes", "secret", "node_ids", <<"producer", "processor", "collector", "audit", "alert">>>>,
                      <<"routes", "secret", "requirement_id", "egress">>})

(* What an observer reports of a route, approved or not.                           *)
TelemetryObservationEdits(c) ==
    FieldEdits(c, {<<"routes", "secret", "source_signature_valid", FALSE>>,
                   <<"routes", "secret", "chain_integrity_valid", FALSE>>,
                   <<"routes", "egress", "append_only_acknowledged", FALSE>>,
                   <<"routes", "secret", "alert_path_operational", FALSE>>,
                   <<"routes", "dependency", "observed_detection_latency_seconds", 91>>,
                   <<"routes", "dependency", "covered_fallback_scenario_ids", {"model"}>>,
                   <<"routes", "egress", "dropped_field_ids", {"detail"}>>})

TelemetryEdits(c) ==
    CommonEdits(c) \cup TelemetryDriftEdits(c) \cup TelemetryCoherentEdits(c) \cup TelemetryObservationEdits(c)
    \cup PinEdits(c) \cup PostureEdits(c, {"integrity", "routing"})
    \cup MissingFacts(c, {"p7a", "p7b", "p7f"})
    \cup PolicyEdits(c, {<<"owners", {}>>, <<"observers", {}>>, <<"observation_age", 0>>})
=============================================================================
