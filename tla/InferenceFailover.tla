--------------------------- MODULE InferenceFailover ---------------------------
(* A serving replica fails: the router that moves the request to another replica,  *)
(* aegis/inference/replica_routing_security.py (P10-H), and the response to the    *)
(* incident with the exit gate of the phase, incident_response_security.py (P10-I). *)
EXTENDS InferenceServing

-----------------------------------------------------------------------------
(* P10-H: replicas, routing decisions, scale events and failovers.                 *)

NoLineage == [lineage |-> None]

ReplicaPolicyValid(c) ==
    LET expected == c.policy.expected["replicas"]
        route == c.policy.expected["route"]
    IN /\ SessionOwned(route)
       /\ c.policy.replica_ids # << >> /\ Distinct(c.policy.replica_ids)
       /\ DOMAIN expected = Range(c.policy.replica_ids)
       /\ \A r \in DOMAIN expected : expected[r].instance_generation >= 0 /\ expected[r].route_generation >= 0
       /\ c.policy.routing_ids # << >> /\ c.policy.failover_ids # << >>
       /\ \A ids \in {c.policy.routing_ids, c.policy.scale_event_ids, c.policy.failover_ids} : Distinct(ids)
       /\ c.policy.reasons # {}
       /\ route.router_generation >= c.policy.minimum_router_generation /\ c.policy.minimum_router_generation >= 0
       /\ c.policy.min_ready > 0 /\ c.policy.max_replicas > 0 /\ c.policy.max_inflight > 0
       /\ c.policy.max_heartbeat_age >= 0 /\ c.policy.max_age >= 0 /\ c.policy.skew >= 0
       /\ c.policy.min_ready <= c.policy.max_replicas /\ Len(c.policy.replica_ids) <= c.policy.max_replicas

ReplicaManifestValid(c) ==
    /\ c.manifest.identity = "expected" /\ SessionOwned(Route(c)) /\ Route(c).router_generation >= 0
    /\ Ids(c, "replicas") # {} /\ Distinct(Listed(c, "replicas", "replica_id"))
    /\ \A i \in Ids(c, "replicas") : Item(c, "replicas", i).capacity_requests > 0
    /\ Ids(c, "routing") # {} /\ Distinct(Listed(c, "routing", "routing_id"))
    /\ Distinct(Listed(c, "scale", "scale_event_id")) /\ Distinct(Listed(c, "failovers", "failover_id"))
    /\ \A i \in Ids(c, "scale") : /\ Item(c, "scale", i).from_desired_replicas >= 0
                                  /\ Item(c, "scale", i).to_desired_replicas >= 0

(* A replica by its name: the one record there is, or none.                        *)
ReplicaNamed(c, id) ==
    {Item(c, "replicas", i) : i \in {i \in Ids(c, "replicas") : Item(c, "replicas", i).replica_id = id}}
Serving(r) == r.state = "ready" /\ r.healthy /\ r.accepting_requests /\ ~r.fenced

IdentityFields ==
    {"replica_id", "process_id", "endpoint_id", "instance_generation", "route_generation", "target_model_id",
     "target_model_revision", "adapter_ids", "adapter_generation", "partition_ids", "config_sha256"}
LineageDigest(r) ==
    Restrict(r, {"replica_id", "instance_generation", "config_sha256", "predecessor_replica_id",
                 "predecessor_lineage_sha256"})

(* A replica that took over from another names it, as it was, and is younger.      *)
LineageMismatch(c, r, expected) ==
    \/ r.predecessor_replica_id # expected.predecessor_replica_id
    \/ r.predecessor_lineage_sha256 # expected.predecessor_lineage_sha256
    \/ /\ r.predecessor_replica_id # None
       /\ ~ \E q \in ReplicaNamed(c, r.predecessor_replica_id) :
                /\ r.predecessor_lineage_sha256 = LineageDigest(q)
                /\ r.instance_generation > q.instance_generation

StateRisks(c, r) ==
    Fired([replica_health_unsafe |->
               \/ r.state = "ready" /\ ~Serving(r)
               \/ r.state \notin {"ready", "failed"} /\ r.accepting_requests /\ r.fenced,
           routing_generation_mismatch |-> r.state = "ready" /\ r.route_generation # Route(c).router_generation,
           stale_replica_not_fenced |-> r.state = "failed" /\ (r.healthy \/ r.accepting_requests \/ ~r.fenced)])

(* A replica the policy does not know is told apart by the list of replicas; here  *)
(* it is compared with itself.                                                     *)
ReplicaRisks(c, r) ==
    LET known == r.replica_id \in DOMAIN c.policy.expected["replicas"]
        expected == IF known THEN c.policy.expected["replicas"][r.replica_id] ELSE r
    IN StateRisks(c, r)
       \cup Fired([replica_identity_mismatch |->
                       ~known \/ Restrict(r, IdentityFields) # Restrict(expected, IdentityFields),
                   replica_route_mismatch |->
                       \E f \in {"target_model_id", "target_model_revision", "adapter_ids", "adapter_generation",
                                 "partition_ids"} : r[f] # Route(c)[f],
                   replica_capacity_exceeded |-> \/ r.inflight_requests > r.capacity_requests
                                                 \/ r.inflight_requests > c.policy.max_inflight,
                   replica_heartbeat_stale |->
                       \/ c.manifest.created - r.heartbeat_epoch > c.policy.max_heartbeat_age
                       \/ r.heartbeat_epoch > c.manifest.created + c.policy.skew,
                   lineage_mismatch |-> LineageMismatch(c, r, expected)])

(* Requests are told apart by what identifies them: the key is that, digested.     *)
KeyFields == RequestFields \cup {"stream_id"}
RequestKey(x) == Restrict(x, KeyFields)

RoutingRisks(c, i) ==
    LET e == Item(c, "routing", i)
        selected == ReplicaNamed(c, e.selected_replica_id)
    IN Fired([routing_sequence_mismatch |-> e.sequence_no # i,
              routing_chain_mismatch |->
                  e.previous_routing_sha256 # ChainBefore(c, "routing", Route(c).prior_ledger, i),
              idempotency_binding_mismatch |-> \/ RequestKey(e) # RequestKey(Route(c))
                                               \/ e.idempotency_key_sha256 # RequestKey(Route(c)),
              routing_to_unsafe_replica |->
                  \/ ~ \E r \in selected : Serving(r) /\ e.selected_instance_generation = r.instance_generation
                  \/ e.reason_code \notin c.policy.reasons,
              routing_generation_mismatch |-> e.router_generation # Route(c).router_generation])

ScaleAuthorization(router, e) ==
    [router_id |-> router] @@ Restrict(e, {"from_desired_replicas", "to_desired_replicas", "reason_code"})
ScaleRisks(c, i) ==
    LET e == Item(c, "scale", i) IN
    Fired([scale_sequence_mismatch |-> e.sequence_no # i,
           scale_chain_mismatch |-> e.previous_scale_event_sha256 # ChainBefore(c, "scale", Route(c).prior_ledger, i),
           scale_authorization_mismatch |-> e.authorization_sha256 # ScaleAuthorization(Route(c).router_id, e),
           scale_bounds_unsafe |-> \/ e.from_desired_replicas <= 0 \/ e.to_desired_replicas <= 0
                                   \/ e.to_desired_replicas > c.policy.max_replicas
                                   \/ e.observed_ready_replicas > e.to_desired_replicas])

FailoverAuthorization(router, e) ==
    [router_id |-> router] @@ Restrict(e, {"failed_replica_id", "successor_replica_id", "new_router_generation"})

(* A failover leaves the failed replica fenced and its successor serving, under a  *)
(* router generation in which nothing is routed to the failed one.                 *)
FailoverRisks(c, i) ==
    LET e == Item(c, "failovers", i)
        failed == ReplicaNamed(c, e.failed_replica_id)
        successor == ReplicaNamed(c, e.successor_replica_id)
    IN Fired([failover_binding_mismatch |->
                  \/ e.failed_replica_id = e.successor_replica_id
                  \/ ~ \E r \in failed : e.failed_instance_generation = r.instance_generation
                  \/ ~ \E r \in successor : e.successor_instance_generation = r.instance_generation /\ Serving(r),
              failover_fence_missing |->
                  \E r \in failed : r.state # "failed" \/ ~r.fenced \/ r.accepting_requests,
              failover_generation_mismatch |-> \/ e.fence_epoch < e.failure_epoch
                                               \/ e.prior_router_generation >= e.new_router_generation
                                               \/ e.new_router_generation # Route(c).router_generation,
              failover_authorization_mismatch |-> e.authorization_sha256 # FailoverAuthorization(Route(c).router_id, e),
              stale_replica_not_fenced |->
                  \E k \in Ids(c, "routing") : /\ Item(c, "routing", k).router_generation >= e.new_router_generation
                                               /\ Item(c, "routing", k).selected_replica_id = e.failed_replica_id])

ReplicaRouteFields == StreamRouteFields \cup {"stream_id", "output_channel_id", "frame_ids"}
ReadyReplicas(c) == {i \in Ids(c, "replicas") : Item(c, "replicas", i).state = "ready"}

RoutingPlanRisks(c) ==
    UpstreamRisks(c, "p10g")
    \cup UNION {ReplicaRisks(c, Item(c, "replicas", i)) : i \in Ids(c, "replicas")}
    \cup UNION {RoutingRisks(c, i) : i \in Ids(c, "routing")} \cup UNION {ScaleRisks(c, i) : i \in Ids(c, "scale")}
    \cup UNION {FailoverRisks(c, i) : i \in Ids(c, "failovers")}
    \cup Fired([request_route_mismatch |-> RouteMismatch(c, "p10g", ReplicaRouteFields),
                router_identity_mismatch |->
                    \E f \in {"router_id", "router_generation"} : Route(c)[f] # c.policy.expected["route"][f],
                router_generation_rollback |-> Route(c).router_generation < c.policy.minimum_router_generation,
                replica_coverage_mismatch |-> Listed(c, "replicas", "replica_id") # c.policy.replica_ids,
                endpoint_alias |-> ~Distinct(Listed(c, "replicas", "endpoint_id")),
                process_alias |-> ~Distinct(Listed(c, "replicas", "process_id")),
                ready_quorum_insufficient |-> Cardinality(ReadyReplicas(c)) < c.policy.min_ready,
                routing_coverage_mismatch |-> Listed(c, "routing", "routing_id") # c.policy.routing_ids,
                scale_coverage_mismatch |-> Listed(c, "scale", "scale_event_id") # c.policy.scale_event_ids,
                failover_coverage_mismatch |-> Listed(c, "failovers", "failover_id") # c.policy.failover_ids,
                prior_request_ledger_mismatch |-> PriorLedgerMismatch(c),
                request_replay |-> RequestKey(Route(c)) \in Route(c).prior_ids,
                network_operation_unexpected |-> Route(c).network_operations # 0])

ReplicaClaims ==
    [upstream_p10g_bound |-> {"upstream_invalid", "upstream_binding_mismatch"},
     replica_identity_verified |->
         {"replica_coverage_mismatch", "replica_identity_mismatch", "replica_route_mismatch", "endpoint_alias",
          "process_alias"},
     health_and_capacity_verified |->
         {"replica_health_unsafe", "replica_capacity_exceeded", "replica_heartbeat_stale", "ready_quorum_insufficient"},
     routing_generation_verified |->
         {"router_identity_mismatch", "router_generation_rollback", "routing_generation_mismatch",
          "routing_sequence_mismatch", "routing_chain_mismatch", "routing_to_unsafe_replica"},
     autoscaling_verified |->
         {"scale_coverage_mismatch", "scale_sequence_mismatch", "scale_chain_mismatch",
          "scale_authorization_mismatch", "scale_bounds_unsafe"},
     failover_fencing_verified |->
         {"failover_coverage_mismatch", "failover_binding_mismatch", "failover_fence_missing",
          "failover_generation_mismatch", "failover_authorization_mismatch", "stale_replica_not_fenced"},
     idempotency_replay_verified |->
         {"idempotency_binding_mismatch", "request_replay", "prior_request_ledger_mismatch"},
     lineage_verified |-> {"lineage_mismatch"}]

ReplicaFacts(c) == ClaimFacts(ReplicaClaims, RoutingPlanRisks(c))
ReplicaTruth(c, facts) ==
    [identity |-> Restrict(Route(c), RequestFields \cup {"router_id", "router_generation"}),
     replicas |-> Listed(c, "replicas", "replica_id"), routing |-> Listed(c, "routing", "routing_id")]
    @@ SafetyDeclared(facts, DOMAIN ReplicaClaims \cup {"replica_routing_safe"})

ReplicaEvaluate(c) ==
    Outcome(c, ServingAsked(c), ReplicaPolicyValid(c) /\ ReplicaManifestValid(c) /\ ManifestBound(c),
            ReplicaFacts, LAMBDA facts : ReplicaTruth(c, facts))

-----------------------------------------------------------------------------
(* The evaluation's replicas: a failed and fenced, b and c serve, c replaced a.    *)

RoutedRequest ==
    StreamedRequest @@ [stream_id |-> "stream", output_channel_id |-> "channel", frame_ids |-> <<"f1", "f2">>]
ReplicaEvidence(id, instance, generation, state, inflight, predecessor, lineage) ==
    [replica_id |-> id, process_id |-> id, endpoint_id |-> id, instance_generation |-> instance,
     route_generation |-> generation, state |-> state, healthy |-> state = "ready",
     accepting_requests |-> state = "ready", fenced |-> state # "ready", inflight_requests |-> inflight,
     capacity_requests |-> 8, heartbeat_epoch |-> -2, config_sha256 |-> id,
     predecessor_replica_id |-> predecessor, predecessor_lineage_sha256 |-> lineage]
    @@ Restrict(RoutedRequest, {"target_model_id", "target_model_revision", "adapter_ids", "adapter_generation",
                                "partition_ids"})
Replicas ==
    LET a == ReplicaEvidence("a", 7, 41, "failed", 0, None, NoLineage)
    IN <<a, ReplicaEvidence("b", 9, 42, "ready", 2, None, NoLineage),
         ReplicaEvidence("c", 8, 42, "ready", 1, "a", LineageDigest(a))>>
ReplicaPrior == [prior |-> {RequestKey([RoutedRequest EXCEPT !.request_id = "earlier"])}]
RoutingDecisionEvidence ==
    RequestKey(RoutedRequest)
    @@ [routing_id |-> "routing", sequence_no |-> 1, router_generation |-> 42, selected_replica_id |-> "b",
        selected_instance_generation |-> 9, idempotency_key_sha256 |-> RequestKey(RoutedRequest),
        reason_code |-> "failover", previous_routing_sha256 |-> ReplicaPrior]
ScaleEventEvidence ==
    LET scaled == [from_desired_replicas |-> 2, to_desired_replicas |-> 3, reason_code |-> "replace"]
    IN scaled @@ [scale_event_id |-> "scale", sequence_no |-> 1, observed_ready_replicas |-> 2,
                  authorization_sha256 |-> ScaleAuthorization("router", scaled),
                  previous_scale_event_sha256 |-> ReplicaPrior]
FailoverEvidence ==
    LET moved == [failed_replica_id |-> "a", successor_replica_id |-> "b", new_router_generation |-> 42]
    IN moved @@ [failover_id |-> "failover", failed_instance_generation |-> 7, successor_instance_generation |-> 9,
                 failure_epoch |-> -6, fence_epoch |-> -5, prior_router_generation |-> 41,
                 authorization_sha256 |-> FailoverAuthorization("router", moved)]

ReplicaItems ==
    [route |-> [route |-> RoutedRequest @@ [router_id |-> "router", router_generation |-> 42,
                                            prior_ids |-> ReplicaPrior.prior, prior_ledger |-> ReplicaPrior,
                                            network_operations |-> 0]],
     replicas |-> Replicas, routing |-> <<RoutingDecisionEvidence>>, scale |-> <<ScaleEventEvidence>>,
     failovers |-> <<FailoverEvidence>>]
ReplicaRules ==
    [expected |-> [route |-> ReplicaItems.route.route,
                   replicas |-> [a |-> Replicas[1], b |-> Replicas[2], c |-> Replicas[3]]],
     replica_ids |-> <<"a", "b", "c">>, routing_ids |-> <<"routing">>, scale_event_ids |-> <<"scale">>,
     failover_ids |-> <<"failover">>, reasons |-> {"failover", "rebalance"}, minimum_router_generation |-> 42,
     min_ready |-> 2, max_replicas |-> 4, max_inflight |-> 8, max_heartbeat_age |-> 30, max_age |-> 300, skew |-> 5]
ReplicaCanonical == AllFields(ReplicaItems)
ReplicaBase ==
    Truthful(Context(ReplicaItems, {}, [p10g |-> [route |-> RoutedRequest]], {}, ReplicaRules, ReplicaCanonical),
             ReplicaEvaluate)

ReplicaDriftEdits(c) ==
    UNION {FieldEdits(c, {<<"replicas", i, f, Other>> :
               f \in {"process_id", "endpoint_id", "target_model_id", "target_model_revision", "config_sha256",
                      "predecessor_replica_id"}})
           \cup FieldEdits(c, {<<"replicas", i, "instance_generation", 10>>, <<"replicas", i, "route_generation", 40>>,
                               <<"replicas", i, "inflight_requests", 9>>, <<"replicas", i, "capacity_requests", 0>>,
                               <<"replicas", i, "heartbeat_epoch", -31>>, <<"replicas", i, "heartbeat_epoch", 6>>,
                               <<"replicas", i, "adapter_generation", 1>>})
           \cup FieldEdits(c, {<<"replicas", i, "adapter_ids", <<"style", "policy">>>>})
           \cup FieldEdits(c, {<<"replicas", i, "predecessor_lineage_sha256", Unseen>>}) : i \in Ids(c, "replicas")}
    \cup UNION {FieldEdits(c, {<<"replicas", i, f, i = 1>> : f \in {"healthy", "accepting_requests"}}
                              \cup {<<"replicas", i, "fenced", i # 1>>})
                \cup FieldEdits(c, {<<"replicas", i, "state", s>> :
                                    s \in IF i = 1 THEN {"ready", "starting"} ELSE {"failed", "draining"}}) :
                i \in Ids(c, "replicas")}
    \cup FieldEdits(c, {<<"replicas", 3, f, "b">> : f \in {"endpoint_id", "process_id"}})

MovementEdits(c) ==
    FieldEdits(c, {<<"routing", 1, f, Other>> : f \in {"routing_id", "request_id", "stream_id", "reason_code"}}
                  \cup {<<"routing", 1, "tenant_id", "beta">>, <<"routing", 1, "selected_replica_id", "a">>})
    \cup FieldEdits(c, {<<"routing", 1, "sequence_no", 2>>, <<"routing", 1, "router_generation", 41>>,
                        <<"routing", 1, "selected_instance_generation", 8>>})
    \cup FieldEdits(c, {<<"routing", 1, f, Unseen>> : f \in {"idempotency_key_sha256", "previous_routing_sha256"}})
    \cup FieldEdits(c, {<<"scale", 1, "sequence_no", 2>>, <<"scale", 1, "from_desired_replicas", 0>>,
                        <<"scale", 1, "to_desired_replicas", 0>>, <<"scale", 1, "to_desired_replicas", 99>>,
                        <<"scale", 1, "observed_ready_replicas", 4>>})
    \cup FieldEdits(c, {<<"scale", 1, f, Other>> : f \in {"scale_event_id", "reason_code"}})
    \cup FieldEdits(c, {<<"scale", 1, f, Unseen>> : f \in {"authorization_sha256", "previous_scale_event_sha256"}})
    \cup FieldEdits(c, {<<"failovers", 1, "failover_id", Other>>, <<"failovers", 1, "failed_replica_id", "c">>,
                        <<"failovers", 1, "successor_replica_id", "a">>})
    \cup FieldEdits(c, {<<"failovers", 1, "failed_instance_generation", 8>>, <<"failovers", 1, "fence_epoch", -7>>,
                        <<"failovers", 1, "successor_instance_generation", 10>>, <<"failovers", 1, "failure_epoch", 10>>,
                        <<"failovers", 1, "prior_router_generation", 42>>, <<"failovers", 1, "new_router_generation", 43>>})
    \cup FieldEdits(c, {<<"failovers", 1, "authorization_sha256", Unseen>>})
    \cup {[c EXCEPT !.manifest.items[k] = << >>] : k \in {"routing", "scale", "failovers"}}

(* The other replica is scaled to, or failed over to, under a fresh authorization: *)
(* the movement itself has to be judged.                                           *)
AuthorizedMovementEdits(c) ==
    LET rescaled == [from_desired_replicas |-> 2, to_desired_replicas |-> 5, reason_code |-> "replace"]
        moved == [failed_replica_id |-> "c", successor_replica_id |-> "b", new_router_generation |-> 42]
    IN GroupEdits(c, {<<"scale", 1, rescaled @@ [authorization_sha256 |-> ScaleAuthorization("router", rescaled)]>>})
       \cup GroupEdits(c, {<<"failovers", 1, moved @@ [failed_instance_generation |-> 8,
                                authorization_sha256 |-> FailoverAuthorization("router", moved)]>>})

ReplicaRouteEdits(c) ==
    RouteEdits(c, "p10g", ModelFields)
    \cup FieldEdits(c, {<<"route", "route", f, Other>> : f \in {"stream_id", "output_channel_id", "router_id"}})
    \cup FieldEdits(c, {<<"route", "route", "partition_ids", <<"gpu1", "mig0">>>>, <<"route", "route", "frame_ids", <<"f2", "f1">>>>})
    \cup FieldEdits(c, {<<"route", "route", "router_generation", 41>>})
    \cup FactEdits(c, {<<"p10g", "route", f, Other>> : f \in {"stream_id", "output_channel_id"}})
    \cup FactEdits(c, {<<"p10g", "route", "partition_ids", <<"gpu1", "mig0">>>>, <<"p10g", "route", "frame_ids", <<"f2", "f1">>>>})

ReplicaPolicyEdits(c) ==
    {[c EXCEPT !.policy.expected["route"].router_id = "another"], [c EXCEPT !.policy.expected["route"].router_generation = 41],
     [c EXCEPT !.policy.replica_ids = <<"a", "b">>], [c EXCEPT !.policy.expected["route"].prior_ledger = Unseen]}
    \cup {[c EXCEPT !.policy[t[1]] = t[2]] :
             t \in {<<"minimum_router_generation", 43>>, <<"min_ready", 5>>, <<"max_replicas", 2>>,
                    <<"max_inflight", 0>>, <<"max_heartbeat_age", -1>>, <<"max_age", -1>>, <<"skew", -1>>}}

ReplicaEdits(c) ==
    ServingEdits(c) \cup ReplicaRouteEdits(c) \cup RowEdits(c, {"replicas"}) \cup TurnedRows(c, {"replicas"})
    \cup ReplicaDriftEdits(c) \cup MovementEdits(c) \cup AuthorizedMovementEdits(c)
    \cup LedgerEdits(c, RequestKey(RoutedRequest)) \cup ReplicaPolicyEdits(c)

-----------------------------------------------------------------------------
(* P10-I: one chain of evidence leads from the signals of an incident through its  *)
(* containment and the recovery to the forensic artifacts.                         *)

EvidenceKinds == <<"signals", "containment", "recovery", "forensics">>
EvidenceId == [signals |-> "signal_id", containment |-> "action_id", recovery |-> "recovery_id",
               forensics |-> "artifact_id"]
EvidenceType == [signals |-> "signal_type", containment |-> "action_type", recovery |-> "recovery_type",
                 forensics |-> "artifact_kind"]
GateLists == {"required_controls", "validated_controls", "local_runtime_gates", "deferred_mastery_items"}
Gate(c) == Item(c, "gate", "gate")
Evidence(c, kind) == c.manifest.items[kind]

IncidentPolicyValid(c) ==
    /\ \A kind \in Range(EvidenceKinds) : /\ c.policy.ids[kind] # << >> /\ Distinct(c.policy.ids[kind])
                                          /\ c.policy.types[kind] # {}
    /\ \A f \in {"adapter_ids", "partition_ids", "replica_ids", "routing_ids"} :
           c.policy.expected["route"][f] # << >> /\ Distinct(c.policy.expected["route"][f])
    /\ \A f \in GateLists : c.policy.expected["gate"][f] # << >> /\ Distinct(c.policy.expected["gate"][f])
    /\ c.policy.minimum_router_generation >= 0 /\ c.policy.max_detection >= 0 /\ c.policy.max_containment >= 0
    /\ c.policy.max_age >= 0 /\ c.policy.skew >= 0

IncidentManifestValid(c) ==
    /\ c.manifest.identity = "expected" /\ Route(c).router_generation >= 0
    /\ \A f \in {"adapter_ids", "partition_ids", "replica_ids", "routing_ids"} :
           Route(c)[f] # << >> /\ Distinct(Route(c)[f])
    /\ \A kind \in Range(EvidenceKinds) : Ids(c, kind) # {} /\ Distinct(Listed(c, kind, EvidenceId[kind]))
    /\ \A kind \in {"signals", "containment", "recovery"} : \A i \in Ids(c, kind) : Item(c, kind, i).sequence_no > 0
    /\ \A i \in Ids(c, "containment") :
           Item(c, "containment", i).completed_at_epoch >= Item(c, "containment", i).started_at_epoch
    /\ \A f \in GateLists : Gate(c)[f] # << >> /\ Distinct(Gate(c)[f])

(* What the chain names before the row of a kind at a position: the row before it, *)
(* the last row of the kind before, or the incident itself.                        *)
IncidentSeed(x) == Restrict(x, RequestFields \cup {"incident_id"})
CustodyDigest(f) ==
    Restrict(f, {"artifact_id", "artifact_kind", "source_id", "content_sha256", "previous_artifact_sha256"})
RowDigest(kind, row) == IF kind = "forensics" THEN row.chain_of_custody_sha256 ELSE row
IncidentChainBefore(c, k, i) ==
    IF i > 1 THEN RowDigest(EvidenceKinds[k], Evidence(c, EvidenceKinds[k])[i - 1])
    ELSE IF k > 1 THEN RowDigest(EvidenceKinds[k - 1], Last(Evidence(c, EvidenceKinds[k - 1])))
    ELSE IncidentSeed(Route(c))

CoverageMismatch(c, kind) ==
    \/ Listed(c, kind, EvidenceId[kind]) # c.policy.ids[kind]
    \/ ~ c.policy.types[kind] \subseteq Range(Listed(c, kind, EvidenceType[kind]))

SignalRisks(c, i) ==
    LET s == Item(c, "signals", i) IN
    Fired([signal_sequence_mismatch |-> s.sequence_no # i,
           signal_chain_mismatch |-> s.previous_signal_sha256 # IncidentChainBefore(c, 1, i),
           signal_binding_mismatch |-> Restrict(s, RequestFields) # Restrict(Route(c), RequestFields),
           detection_latency_exceeded |->
               s.observed_at_epoch - Route(c).detection_started_at_epoch \notin 0..c.policy.max_detection])

ContainmentAuthorization(incident, a) ==
    [incident_id |-> incident] @@ Restrict(a, {"action_id", "action_type", "target_id"})

(* Each kind of containment that counts has one thing it must be done to; how long *)
(* it took is counted from the earliest signal.                                    *)
ContainmentTargets(c) ==
    [fence_compromised_replica |-> Route(c).compromised_replica_id,
     advance_router_generation |-> Route(c).router_id, revoke_stream |-> Route(c).stream_id]
ContainmentRisks(c, i) ==
    LET a == Item(c, "containment", i)
        first == Min(Range(Listed(c, "signals", "observed_at_epoch")))
    IN Fired([containment_sequence_mismatch |-> a.sequence_no # i,
              containment_chain_mismatch |-> a.previous_action_sha256 # IncidentChainBefore(c, 2, i),
              containment_authorization_mismatch |->
                  a.authorization_sha256 # ContainmentAuthorization(Route(c).incident_id, a),
              containment_target_mismatch |->
                  /\ a.action_type \in DOMAIN ContainmentTargets(c)
                  /\ a.target_id # ContainmentTargets(c)[a.action_type],
              containment_latency_exceeded |-> a.completed_at_epoch - first > c.policy.max_containment])

(* The generation a recovery step must not fall behind: of the router, or the      *)
(* highest that an earlier step saw.                                               *)
GenerationBefore(c, i) ==
    Max({Route(c).router_generation} \cup {Item(c, "recovery", k).observed_generation : k \in 1..(i - 1)})
RecoveryRisks(c, i) ==
    LET r == Item(c, "recovery", i) IN
    Fired([recovery_sequence_mismatch |-> r.sequence_no # i,
           recovery_chain_mismatch |-> r.previous_recovery_sha256 # IncidentChainBefore(c, 3, i),
           recovery_generation_rollback |-> \/ r.observed_generation < r.expected_generation
                                            \/ r.observed_generation < GenerationBefore(c, i),
           recovery_not_verified |-> ~r.verified])

ForensicRisks(c, i) ==
    LET f == Item(c, "forensics", i) IN
    Fired([forensic_chain_mismatch |-> f.previous_artifact_sha256 # IncidentChainBefore(c, 4, i),
           forensic_artifact_digest_mismatch |-> f.chain_of_custody_sha256 # CustodyDigest(f),
           forensic_immutability_unproven |-> ~f.immutable_snapshot])

ControlsExpected(c) ==
    \A f \in {"required_controls", "validated_controls"} :
        Gate(c)[f] = c.policy.expected["gate"].required_controls

(* The gate's status carries the debt: validation wants some of it deferred.       *)
ExitGateRisks(c) ==
    LET g == Gate(c) IN
    Fired([exit_gate_control_coverage_mismatch |->
               \/ ~ControlsExpected(c)
               \/ g.local_runtime_gates # c.policy.expected["gate"].local_runtime_gates,
           deferred_mastery_debt_missing |->
               g.deferred_mastery_items # c.policy.expected["gate"].deferred_mastery_items,
           hosted_ci_claim_unsupported |-> g.hosted_ci_execution_verified,
           production_claim_unsupported |-> g.production_validation_claimed,
           professional_mastery_claim_unsupported |-> g.professional_mastery_complete,
           exit_gate_status_mismatch |-> ~g.phase10_exit_eligible \/ g.status # "pass_with_deferred"])

IncidentRouteFields ==
    ModelFields \cup {"partition_ids", "stream_id", "router_id", "replica_ids", "routing_ids"}
IncidentRisks(c) ==
    UNION {SignalRisks(c, i) : i \in Ids(c, "signals")} \cup UNION {ContainmentRisks(c, i) : i \in Ids(c, "containment")}
    \cup UNION {RecoveryRisks(c, i) : i \in Ids(c, "recovery")} \cup UNION {ForensicRisks(c, i) : i \in Ids(c, "forensics")}
    \cup ExitGateRisks(c)
    \cup Fired([upstream_p10h_invalid |-> \/ ~c.up["p10h"].verified \/ c.up["p10h"].trusted
                                          \/ c.up["p10h"].digest # c.policy.pins["p10h"],
                upstream_binding_mismatch |-> c.manifest.pins["p10h"] # c.policy.pins["p10h"],
                request_route_mismatch |->
                    \/ RouteMismatch(c, "p10h", IncidentRouteFields)
                    \/ Route(c).router_generation < c.policy.minimum_router_generation
                    \/ Route(c).router_generation # Fact(c, "p10h", "route").router_generation,
                incident_identity_mismatch |->
                    \/ \E f \in {"incident_id", "compromised_replica_id"} :
                           Route(c)[f] # c.policy.expected["route"][f]
                    \/ Route(c).compromised_replica_id \notin Range(Route(c).replica_ids),
                signal_coverage_mismatch |-> CoverageMismatch(c, "signals"),
                containment_coverage_mismatch |-> CoverageMismatch(c, "containment"),
                recovery_coverage_mismatch |-> CoverageMismatch(c, "recovery"),
                forensic_coverage_mismatch |-> CoverageMismatch(c, "forensics"),
                network_operation_unexpected |-> Route(c).network_operations # 0])

IncidentClaims ==
    [upstream_p10h_bound |-> {"upstream_p10h_invalid"},
     detection_verified |->
         {"signal_coverage_mismatch", "signal_sequence_mismatch", "signal_chain_mismatch",
          "signal_binding_mismatch", "detection_latency_exceeded"},
     containment_verified |->
         {"containment_coverage_mismatch", "containment_sequence_mismatch", "containment_chain_mismatch",
          "containment_authorization_mismatch", "containment_target_mismatch", "containment_latency_exceeded"},
     recovery_verified |->
         {"recovery_coverage_mismatch", "recovery_sequence_mismatch", "recovery_chain_mismatch",
          "recovery_generation_rollback", "recovery_not_verified"},
     forensic_chain_verified |->
         {"forensic_coverage_mismatch", "forensic_artifact_digest_mismatch", "forensic_chain_mismatch",
          "forensic_immutability_unproven"},
     deferred_mastery_debt_carried |-> {"deferred_mastery_debt_missing"}]

(* The gate's own claim does not count the local runtime gates; the decision does. *)
IncidentFacts(c) ==
    ClaimFacts(IncidentClaims, IncidentRisks(c))
    @@ [phase10_exit_gate_verified |->
            ExitGateRisks(c) \ (IF ControlsExpected(c) THEN {"exit_gate_control_coverage_mismatch"} ELSE {})]

(* Unlike in the analyzers before it, every part is declared by itself.            *)
IncidentTruth(c, facts) ==
    [identity |-> Restrict(Route(c), RequestFields \cup {"incident_id", "compromised_replica_id", "router_generation"}),
     parts |-> [k \in DOMAIN facts |-> facts[k] = {}],
     claims |-> Restrict(Gate(c), {"hosted_ci_execution_verified", "production_validation_claimed",
                                   "professional_mastery_complete"})]

IncidentEvaluate(c) ==
    Outcome(c, ServingAsked(c), IncidentPolicyValid(c) /\ IncidentManifestValid(c) /\ ManifestBound(c),
            IncidentFacts, LAMBDA facts : IncidentTruth(c, facts))

-----------------------------------------------------------------------------
(* The evaluation's incident: replica a is compromised, found by two signals,      *)
(* contained by three actions and replaced by c in two steps.                      *)

IncidentRoute ==
    RoutedRequest @@ [router_id |-> "router", router_generation |-> 42, replica_ids |-> <<"a", "b", "c">>,
                      routing_ids |-> <<"routing">>, incident_id |-> "incident", compromised_replica_id |-> "a",
                      detection_started_at_epoch |-> 0, network_operations |-> 0]
IncidentSignalEvidence(seq, id, source) ==
    Restrict(IncidentRoute, RequestFields)
    @@ [signal_id |-> id, sequence_no |-> seq, signal_type |-> id, source_id |-> source, observed_at_epoch |-> seq]
ContainmentActionEvidence(seq, type, target) ==
    LET action == [action_id |-> type, action_type |-> type, target_id |-> target]
    IN action @@ [sequence_no |-> seq, started_at_epoch |-> 4 + seq, completed_at_epoch |-> 5 + seq,
                  authorization_sha256 |-> ContainmentAuthorization("incident", action)]
RecoveryStepEvidence(seq, type, target, generation) ==
    [recovery_id |-> type, sequence_no |-> seq, recovery_type |-> type, target_id |-> target,
     expected_generation |-> generation, observed_generation |-> generation, verified |-> TRUE]
ForensicArtifactEvidence(kind, source) ==
    [artifact_id |-> kind, artifact_kind |-> kind, source_id |-> source, content_sha256 |-> kind,
     immutable_snapshot |-> TRUE]

(* The rows of a kind, each naming the one before it and the first one naming seed. *)
PreviousField == [signals |-> "previous_signal_sha256", containment |-> "previous_action_sha256",
                  recovery |-> "previous_recovery_sha256", forensics |-> "previous_artifact_sha256"]
Naming(kind, row, previous) ==
    LET named == row @@ [f \in {PreviousField[kind]} |-> previous]
    IN IF kind = "forensics" THEN named @@ [chain_of_custody_sha256 |-> CustodyDigest(named)] ELSE named
Chained(kind, seed, rows) ==
    FoldLeft(LAMBDA done, row :
                 Append(done, Naming(kind, row, IF done = << >> THEN seed ELSE RowDigest(kind, Last(done)))),
             << >>, rows)

IncidentSignals ==
    Chained("signals", IncidentSeed(IncidentRoute),
            <<IncidentSignalEvidence(1, "integrity", "a"), IncidentSignalEvidence(2, "routing", "router")>>)
IncidentContainment ==
    Chained("containment", Last(IncidentSignals),
            <<ContainmentActionEvidence(1, "fence_compromised_replica", "a"),
              ContainmentActionEvidence(2, "advance_router_generation", "router"),
              ContainmentActionEvidence(3, "revoke_stream", "stream")>>)
IncidentRecovery ==
    Chained("recovery", Last(IncidentContainment),
            <<RecoveryStepEvidence(1, "replace", "c", 43), RecoveryStepEvidence(2, "reopen", "router", 44)>>)
ForensicsOf(recovery) ==
    Chained("forensics", Last(recovery),
            <<ForensicArtifactEvidence("log", "router"), ForensicArtifactEvidence("snapshot", "a")>>)
Phase10ExitGateEvidence ==
    [required_controls |-> <<"p10a", "p10i">>, validated_controls |-> <<"p10a", "p10i">>,
     local_runtime_gates |-> <<"gpu", "host">>, deferred_mastery_items |-> <<"cluster">>,
     hosted_ci_execution_verified |-> FALSE, production_validation_claimed |-> FALSE,
     phase10_exit_eligible |-> TRUE, professional_mastery_complete |-> FALSE, status |-> "pass_with_deferred"]

IncidentItems ==
    [route |-> [route |-> IncidentRoute], signals |-> IncidentSignals, containment |-> IncidentContainment,
     recovery |-> IncidentRecovery, forensics |-> ForensicsOf(IncidentRecovery), gate |-> [gate |-> Phase10ExitGateEvidence]]
IncidentRules ==
    [expected |-> [route |-> IncidentRoute, gate |-> Phase10ExitGateEvidence],
     ids |-> [signals |-> <<"integrity", "routing">>, recovery |-> <<"replace", "reopen">>,
              containment |-> <<"fence_compromised_replica", "advance_router_generation", "revoke_stream">>,
              forensics |-> <<"log", "snapshot">>],
     types |-> [signals |-> {"integrity", "routing"}, recovery |-> {"replace", "reopen"},
                containment |-> {"fence_compromised_replica", "advance_router_generation", "revoke_stream"},
                forensics |-> {"log", "snapshot"}],
     minimum_router_generation |-> 42, max_detection |-> 10, max_containment |-> 30, max_age |-> 300, skew |-> 5]
IncidentCanonical == AllFields(IncidentItems)
IncidentBase ==
    Truthful(Context(IncidentItems, {}, [p10h |-> [route |-> IncidentRoute]], {}, IncidentRules, IncidentCanonical),
             IncidentEvaluate)

IncidentRouteEdits(c) ==
    RouteEdits(c, "p10h", ModelFields)
    \cup FieldEdits(c, {<<"route", "route", f, Other>> : f \in {"stream_id", "router_id", "incident_id"}}
                       \cup {<<"route", "route", "compromised_replica_id", "b">>})
    \cup FieldEdits(c, {<<"route", "route", "partition_ids", <<"gpu1", "mig0">>>>,
                        <<"route", "route", "replica_ids", <<"b", "c">>>>, <<"route", "route", "routing_ids", <<Other>>>>})
    \cup FieldEdits(c, {<<"route", "route", "router_generation", g>> : g \in {41, 45}}
                       \cup {<<"route", "route", "detection_started_at_epoch", t>> : t \in {-11, 2}})
    \cup FactEdits(c, {<<"p10h", "route", f, Other>> : f \in {"stream_id", "router_id"}})
    \cup FactEdits(c, {<<"p10h", "route", f, << >>>> : f \in {"partition_ids", "replica_ids", "routing_ids"}})
    \cup FactEdits(c, {<<"p10h", "route", "router_generation", 46>>})

(* One row of the chain is not what was written when the next one was chained to   *)
(* it, or was not written in time, in order or by the right hand.                  *)
ResponseEdits(c) ==
    UNION {FieldEdits(c, {<<"signals", i, f, Other>> : f \in {"signal_id", "signal_type", "source_id", "request_id"}}
                         \cup {<<"signals", i, "tenant_id", "beta">>})
           \cup FieldEdits(c, {<<"signals", i, "session_id", <<"acme", Other>>>>})
           \cup FieldEdits(c, {<<"signals", i, "sequence_no", 8>>} \cup {<<"signals", i, "observed_at_epoch", t>> : t \in {-1, 99}})
           \cup FieldEdits(c, {<<"signals", i, "previous_signal_sha256", Unseen>>}) : i \in Ids(c, "signals")}
    \cup UNION {FieldEdits(c, {<<"containment", i, f, Other>> : f \in {"action_id", "action_type", "target_id"}})
                \cup FieldEdits(c, {<<"containment", i, "sequence_no", 5>>, <<"containment", i, "completed_at_epoch", 99>>,
                                    <<"containment", i, "completed_at_epoch", 1>>})
                \cup FieldEdits(c, {<<"containment", i, f, Unseen>> : f \in {"authorization_sha256", "previous_action_sha256"}}) :
                i \in Ids(c, "containment")}
    \cup UNION {FieldEdits(c, {<<"recovery", i, f, Other>> : f \in {"recovery_id", "recovery_type", "target_id"}})
                \cup FieldEdits(c, {<<"recovery", i, "sequence_no", 5>>, <<"recovery", i, "observed_generation", 1>>})
                \cup FieldEdits(c, {<<"recovery", i, "verified", FALSE>>})
                \cup FieldEdits(c, {<<"recovery", i, "previous_recovery_sha256", Unseen>>}) : i \in Ids(c, "recovery")}
    \cup UNION {FieldEdits(c, {<<"forensics", i, f, Other>> : f \in {"artifact_id", "artifact_kind", "source_id", "content_sha256"}})
                \cup FieldEdits(c, {<<"forensics", i, "immutable_snapshot", FALSE>>})
                \cup FieldEdits(c, {<<"forensics", i, f, Unseen>> : f \in {"previous_artifact_sha256", "chain_of_custody_sha256"}}) :
                i \in Ids(c, "forensics")}

(* The last recovery step sees an older generation, and the artifacts are chained  *)
(* to it: the step itself has to be judged.                                        *)
RechainedRecoveryEdits(c) ==
    LET rechained == [IncidentRecovery EXCEPT ![2].expected_generation = 42, ![2].observed_generation = 42]
    IN {[c EXCEPT !.manifest.items["recovery"] = rechained,
                  !.manifest.items["forensics"] = ForensicsOf(rechained)]}

ExitGateEdits(c) ==
    FieldEdits(c, {<<"gate", "gate", f, << >>>> : f \in GateLists})
    \cup FieldEdits(c, {<<"gate", "gate", f, <<"p10a">>>> : f \in GateLists})
    \cup FieldEdits(c, {<<"gate", "gate", f, TRUE>> :
             f \in {"hosted_ci_execution_verified", "production_validation_claimed", "professional_mastery_complete"}}
             \cup {<<"gate", "gate", "phase10_exit_eligible", FALSE>>})
    \cup FieldEdits(c, {<<"gate", "gate", "status", s>> : s \in {"pass", "fail"}})

IncidentPolicyEdits(c) ==
    {[c EXCEPT !.policy.expected["route"].incident_id = "another"], [c EXCEPT !.policy.ids["signals"] = << >>],
     [c EXCEPT !.policy.expected["gate"].required_controls = <<"p10a", "p10i", "p10j">>]}
    \cup {[c EXCEPT !.policy[t[1]] = t[2]] :
             t \in {<<"minimum_router_generation", 47>>, <<"max_detection", 0>>, <<"max_containment", 1>>,
                    <<"max_age", -1>>, <<"skew", -1>>}}

IncidentEdits(c) ==
    ServingEdits(c) \cup IncidentRouteEdits(c) \cup RowEdits(c, Range(EvidenceKinds))
    \cup TurnedRows(c, Range(EvidenceKinds)) \cup ResponseEdits(c) \cup RechainedRecoveryEdits(c)
    \cup ExitGateEdits(c) \cup IncidentPolicyEdits(c)
=============================================================================
