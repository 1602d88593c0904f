--------------------------- MODULE InferenceServing ---------------------------
(* Serving one request: the accelerator partitions that are leased to it,          *)
(* aegis/inference/accelerator_isolation_security.py (P10-F), and the stream that  *)
(* carries its output, streaming_security.py (P10-G). Unlike the earlier phases    *)
(* these analyzers turn most disagreements into risks of one assessment, which the *)
(* next analyzer of the chain wants to be empty.                                   *)
(*                                                                                 *)
(* Evidence whose order counts is a sequence: the items of such a kind are known   *)
(* by their positions. The manifest's own fields are one item, "route". A session  *)
(* is the pair of its tenant and its name, and the digest of a record the record.  *)
EXTENDS Assessment, SequencesExt

Route(c) == Item(c, "route", "route")
Listed(c, kind, f) == [i \in Ids(c, kind) |-> Item(c, kind, i)[f]]
Distinct(s) == Cardinality(Range(s)) = Len(s)
Unseen == [digest |-> Other]

SessionOwned(x) == x.session_id[1] = x.tenant_id

(* The digest a row of a chain must name: the row before it, or the seed.          *)
ChainBefore(c, kind, seed, i) == IF i = 1 THEN seed ELSE Item(c, kind, i - 1)

(* What an analyzer holds against the assessment before it in the chain, and       *)
(* whether both are about the request the policy expects.                          *)
UpstreamRisks(c, u) ==
    Fired([upstream_invalid |-> ~c.up[u].verified \/ c.up[u].trusted,
           upstream_binding_mismatch |-> \/ c.manifest.pins[u] # c.policy.pins[u]
                                         \/ c.up[u].digest # c.policy.pins[u]])
RouteMismatch(c, u, fields) ==
    \E f \in fields : \/ Route(c)[f] # c.policy.expected["route"][f]
                      \/ Fact(c, u, "route")[f] # Route(c)[f]

(* The ledger of what was served before: the digest of its members.                *)
PriorLedgerMismatch(c) ==
    LET digest == [prior |-> Route(c).prior_ids]
    IN digest # Route(c).prior_ledger \/ digest # c.policy.expected["route"].prior_ledger

(* The request is bound to the pinned manifest; the rest of it is the declaration. *)
ServingAsked(c) == c.request.identity = "expected" /\ c.request.sha = Digest(c)

(* Every flag a caller declares has to say what was derived of the whole.          *)
SafetyDeclared(facts, flags) == [f \in flags |-> Denied(facts) = {}]

RequestFields == {"request_id", "tenant_id", "session_id"}
ModelFields == RequestFields \cup {"target_model_id", "target_model_revision", "adapter_ids", "adapter_generation"}

-----------------------------------------------------------------------------
(* P10-F: the partitions of accelerators, and the leases on them.                  *)

AcceleratorModes == {"exclusive_gpu", "mig"}

AcceleratorPolicyValid(c) ==
    LET expected == c.policy.expected["partitions"] IN
    /\ SessionOwned(c.policy.expected["route"])
    /\ c.policy.partition_ids # << >> /\ Distinct(c.policy.partition_ids)
    /\ c.policy.lease_ids # << >> /\ Distinct(c.policy.lease_ids)
    /\ {DOMAIN expected, DOMAIN c.policy.max_reserved, DOMAIN c.policy.max_allocated}
           = {Range(c.policy.partition_ids)}
    /\ c.policy.modes # {} /\ c.policy.modes \subseteq AcceleratorModes
    /\ c.policy.expected["route"].adapter_generation >= 0 /\ c.policy.max_age >= 0 /\ c.policy.skew >= 0
    /\ \A x \in DOMAIN expected :
           /\ expected[x].partition_mode \in c.policy.modes
           /\ expected[x].memory_epoch >= 0 /\ expected[x].memory_generation >= 0
           /\ 0 < c.policy.max_allocated[x] /\ c.policy.max_allocated[x] <= c.policy.max_reserved[x]
           /\ expected[x].device_nodes # {}

MigEvidence(x) ==
    <<x.mig_gpu_instance_id # None, x.mig_compute_instance_id # None, x.mig_profile # None,
      x.memory_slice_ids # {}>>

AcceleratorManifestValid(c) ==
    /\ c.manifest.identity = "expected" /\ SessionOwned(Route(c))
    /\ Ids(c, "partitions") # {} /\ Distinct(Listed(c, "partitions", "partition_id"))
    /\ \A i \in Ids(c, "partitions") :
           LET x == Item(c, "partitions", i) IN
           /\ SessionOwned(x)
           /\ x.memory_epoch >= 0 /\ x.memory_generation >= 0
           /\ 0 <= x.allocated_memory_bytes /\ x.allocated_memory_bytes <= x.reserved_memory_bytes
           /\ Range(MigEvidence(x)) = {x.partition_mode = "mig"}
    /\ Ids(c, "leases") # {} /\ Distinct(Listed(c, "leases", "lease_id"))
    /\ \A i \in Ids(c, "leases") :
           LET lease == Item(c, "leases", i) IN
           lease.expires_at_epoch > lease.issued_at_epoch /\ lease.generation >= 0

ProbeMismatch(c) ==
    LET probe == Item(c, "probe", "probe")
        expected == c.policy.expected["probe"]
    IN \/ probe.raw_evidence_sha256 # Without(probe, "raw_evidence_sha256")
       \/ probe.probe_id # expected.probe_id \/ probe.raw_evidence_sha256 # expected.raw_evidence_sha256
       \/ ~probe.hardware_present \/ ~probe.nvidia_smi_available
       \/ probe.collected_at_epoch < c.manifest.created - c.policy.max_age
       \/ probe.collected_at_epoch > c.manifest.created + c.policy.skew

(* What the topology digest of a partition covers.                                 *)
TopologyFields ==
    {"partition_id", "physical_gpu_id", "gpu_uuid", "pci_bdf", "driver_version", "partition_mode",
     "mig_gpu_instance_id", "mig_compute_instance_id", "mig_profile", "memory_slice_ids",
     "co_resident_tenant_ids", "co_resident_partition_ids", "co_resident_mig_gpu_instance_ids",
     "co_resident_memory_slice_ids", "iommu_group_id", "iommu_group_members", "device_nodes"}

MigMismatch(x, expected) ==
    \/ \E f \in {"mig_gpu_instance_id", "mig_compute_instance_id", "mig_profile", "memory_slice_ids"} :
           x[f] # expected[f]
    \/ x.mig_gpu_instance_id \in x.co_resident_mig_gpu_instance_ids

(* The risks of a partition that the policy knows; a partition it does not know    *)
(* differs from every expectation, whatever else is said of it.                    *)
ForeignPartitionRisks ==
    {"device_identity_mismatch", "device_node_scope_mismatch", "iommu_group_mismatch",
     "memory_budget_exceeded", "address_space_reuse"}
PartitionRisks(c, x) ==
    LET expected == c.policy.expected["partitions"][x.partition_id]
        stranger == x.co_resident_tenant_ids \ {Route(c).tenant_id} # {}
        mig == x.partition_mode = "mig"
        differs(fields) == Restrict(x, fields) # Restrict(expected, fields)
    IN Fired([device_identity_mismatch |-> differs(TopologyFields),
              unsafe_partition_mode |-> x.partition_mode \notin c.policy.modes,
              device_assignment_mismatch |->
                  <<x.tenant_id, x.session_id>> # <<Route(c).tenant_id, Route(c).session_id>>,
              cross_tenant_device_share |-> stranger /\ ~mig,
              mig_instance_mismatch |->
                  \/ stranger /\ (x.co_resident_partition_ids = {} \/ x.co_resident_mig_gpu_instance_ids = {})
                  \/ mig /\ MigMismatch(x, expected),
              mig_memory_slice_overlap |->
                  mig /\ x.memory_slice_ids \cap x.co_resident_memory_slice_ids # {},
              device_node_scope_mismatch |-> differs({"device_nodes"}),
              cgroup_device_policy_missing |-> ~x.cgroup_device_policy_enforced,
              iommu_disabled |-> ~x.iommu_enabled,
              iommu_group_mismatch |-> differs({"iommu_group_id", "iommu_group_members"}),
              dma_peer_access_unauthorized |-> x.peer_access_enabled,
              gpudirect_rdma_unauthorized |-> x.gpudirect_rdma_enabled,
              memory_budget_exceeded |-> \/ x.reserved_memory_bytes > c.policy.max_reserved[x.partition_id]
                                         \/ x.allocated_memory_bytes > c.policy.max_allocated[x.partition_id],
              address_space_reuse |-> x.address_space_id # expected.address_space_id,
              memory_epoch_mismatch |-> \/ x.memory_epoch < expected.memory_epoch
                                        \/ x.memory_generation < expected.memory_generation,
              profiling_access_unsafe |-> x.profiling_access_enabled,
              telemetry_access_unsafe |-> ~x.telemetry_admin_only,
              side_channel_profile_unsafe |->
                  x.shared_l2 \/ x.shared_memory_controller \/ x.shared_copy_engines \/ x.shared_scheduler])

(* The allocation a lease stands for: whose memory it is, and in which generation. *)
LeasedFrom(c, lease) ==
    {Item(c, "partitions", i) : i \in {i \in Ids(c, "partitions") :
                                       Item(c, "partitions", i).partition_id = lease.partition_id}}
Allocation(lease, x) ==
    [partition_id |-> lease.partition_id, tenant_id |-> lease.tenant_id, session_id |-> lease.session_id,
     generation |-> lease.generation, memory_epoch |-> x.memory_epoch, address_space_id |-> x.address_space_id]

LeaseRisks(c, i) ==
    LET lease == Item(c, "leases", i)
        leased == LeasedFrom(c, lease)
    IN Fired([lease_replay |-> lease.lease_id \in Route(c).prior_ids,
              lease_binding_mismatch |->
                  \/ Restrict(lease, RequestFields) # Restrict(Route(c), RequestFields)
                  \/ leased = {}
                  \/ lease.previous_lease_sha256 # ChainBefore(c, "leases", Route(c).prior_ledger, i),
              lease_expired |-> ~ /\ lease.issued_at_epoch <= c.manifest.created
                                  /\ c.manifest.created <= lease.expires_at_epoch,
              lease_generation_rollback |-> \E x \in leased : lease.generation < x.memory_generation,
              memory_owner_mismatch |->
                  \/ leased = {}
                  \/ \E x \in leased : lease.allocation_sha256 # Allocation(lease, x)])

AcceleratorRisks(c) ==
    LET ids == Listed(c, "partitions", "partition_id") IN
    UpstreamRisks(c, "p10e")
    \cup UNION {IF ids[i] \in DOMAIN c.policy.expected["partitions"]
                THEN PartitionRisks(c, Item(c, "partitions", i)) ELSE ForeignPartitionRisks : i \in DOMAIN ids}
    \cup UNION {LeaseRisks(c, i) : i \in Ids(c, "leases")}
    \cup Fired([request_route_mismatch |-> RouteMismatch(c, "p10e", ModelFields),
                host_probe_binding_mismatch |-> ProbeMismatch(c),
                device_coverage_mismatch |-> ids # c.policy.partition_ids,
                address_space_reuse |-> ~Distinct(Listed(c, "partitions", "address_space_id")),
                lease_coverage_mismatch |-> Listed(c, "leases", "lease_id") # c.policy.lease_ids,
                prior_lease_ledger_mismatch |-> PriorLedgerMismatch(c),
                network_operation_unexpected |-> Route(c).network_operations # 0])

(* The claims of the assessment, each of them lost by the risks named with it.     *)
AcceleratorClaims ==
    [upstream_p10e_bound |-> {"upstream_invalid", "upstream_binding_mismatch"},
     host_probe_bound |-> {"host_probe_binding_mismatch"},
     device_assignment_verified |->
         {"device_coverage_mismatch", "device_identity_mismatch", "device_assignment_mismatch",
          "unsafe_partition_mode", "cross_tenant_device_share", "mig_instance_mismatch",
          "mig_memory_slice_overlap", "device_node_scope_mismatch"},
     dma_isolation_verified |->
         {"cgroup_device_policy_missing", "iommu_disabled", "iommu_group_mismatch",
          "dma_peer_access_unauthorized", "gpudirect_rdma_unauthorized"},
     memory_isolation_verified |->
         {"memory_budget_exceeded", "memory_owner_mismatch", "address_space_reuse", "memory_epoch_mismatch"},
     side_channel_profile_verified |->
         {"profiling_access_unsafe", "telemetry_access_unsafe", "side_channel_profile_unsafe"},
     lease_safety_verified |->
         {"lease_coverage_mismatch", "lease_expired", "lease_replay", "lease_generation_rollback",
          "lease_binding_mismatch", "prior_lease_ledger_mismatch"}]

(* The facts of an assessment: for each claim, and for its decision, the risks.    *)
ClaimFacts(claims, risks) ==
    [k \in DOMAIN claims |-> claims[k] \cap risks] @@ [decision |-> risks]

AcceleratorFacts(c) == ClaimFacts(AcceleratorClaims, AcceleratorRisks(c))
AcceleratorTruth(c, facts) ==
    [identity |-> Restrict(Route(c), RequestFields), partitions |-> Listed(c, "partitions", "partition_id"),
     leases |-> Listed(c, "leases", "lease_id")]
    @@ SafetyDeclared(facts, DOMAIN AcceleratorClaims \cup {"accelerator_safe"})

AcceleratorEvaluate(c) ==
    Outcome(c, ServingAsked(c), AcceleratorPolicyValid(c) /\ AcceleratorManifestValid(c) /\ ManifestBound(c),
            AcceleratorFacts, LAMBDA facts : AcceleratorTruth(c, facts))

-----------------------------------------------------------------------------
(* The evaluation's host: one partition of a shared device and one whole device.   *)

ServedRequest ==
    [request_id |-> "request", tenant_id |-> "acme", session_id |-> <<"acme", "s1">>,
     target_model_id |-> "model", target_model_revision |-> "r1", adapter_ids |-> <<"policy", "style">>,
     adapter_generation |-> 2]
AcceleratorHostProbe ==
    LET probe == [probe_id |-> "probe", collected_at_epoch |-> -5, hostname_sha256 |-> "host",
                  kernel_release |-> "kernel", nvidia_smi_available |-> TRUE, hardware_present |-> TRUE,
                  inventories |-> "inventories"]
    IN probe @@ [raw_evidence_sha256 |-> probe]
AcceleratorPartitionEvidence(id, mode, instance, slices, tenants, partitions, instances, others, epoch, generation, reserved) ==
    [partition_id |-> id, physical_gpu_id |-> id, gpu_uuid |-> id, pci_bdf |-> id, driver_version |-> "570",
     partition_mode |-> mode, tenant_id |-> "acme", session_id |-> <<"acme", "s1">>,
     mig_gpu_instance_id |-> instance, mig_compute_instance_id |-> instance, mig_profile |-> instance,
     memory_slice_ids |-> slices, co_resident_tenant_ids |-> tenants, co_resident_partition_ids |-> partitions,
     co_resident_mig_gpu_instance_ids |-> instances, co_resident_memory_slice_ids |-> others,
     iommu_group_id |-> id, iommu_group_members |-> {id}, device_nodes |-> {id},
     cgroup_device_policy_enforced |-> TRUE, iommu_enabled |-> TRUE, peer_access_enabled |-> FALSE,
     gpudirect_rdma_enabled |-> FALSE, profiling_access_enabled |-> FALSE, telemetry_admin_only |-> TRUE,
     shared_l2 |-> FALSE, shared_memory_controller |-> FALSE, shared_copy_engines |-> FALSE,
     shared_scheduler |-> FALSE, address_space_id |-> id, memory_epoch |-> epoch,
     memory_generation |-> generation, reserved_memory_bytes |-> reserved, allocated_memory_bytes |-> 12]
AcceleratorLeaseEvidence(id, x, previous) ==
    LET lease == [lease_id |-> id, request_id |-> "request", tenant_id |-> "acme", session_id |-> <<"acme", "s1">>,
                  partition_id |-> x.partition_id, issued_at_epoch |-> -20, expires_at_epoch |-> 120,
                  generation |-> x.memory_generation, previous_lease_sha256 |-> previous]
    IN lease @@ [allocation_sha256 |-> Allocation(lease, x)]

AcceleratorPartitions ==
    <<AcceleratorPartitionEvidence("mig0", "mig", "gi3", {"m0", "m1"}, {"beta"}, {"beta_mig"}, {"gi4"}, {"m2", "m3"}, 7, 19, 20),
      AcceleratorPartitionEvidence("gpu1", "exclusive_gpu", None, {}, {}, {}, {}, {}, 4, 8, 40)>>
AcceleratorPrior == [prior |-> {"lease_a", "lease_b"}]
AcceleratorLeases ==
    LET first == AcceleratorLeaseEvidence("lease1", AcceleratorPartitions[1], AcceleratorPrior)
    IN <<first, AcceleratorLeaseEvidence("lease2", AcceleratorPartitions[2], first)>>

AcceleratorItems ==
    [route |-> [route |-> ServedRequest @@ [prior_ids |-> AcceleratorPrior.prior, prior_ledger |-> AcceleratorPrior,
                                            network_operations |-> 0]],
     probe |-> [probe |-> AcceleratorHostProbe], partitions |-> AcceleratorPartitions, leases |-> AcceleratorLeases]
AcceleratorRules ==
    [expected |-> [route |-> AcceleratorItems.route.route, probe |-> AcceleratorHostProbe,
                   partitions |-> [mig0 |-> AcceleratorPartitions[1], gpu1 |-> AcceleratorPartitions[2]]],
     partition_ids |-> <<"mig0", "gpu1">>, lease_ids |-> <<"lease1", "lease2">>, modes |-> AcceleratorModes,
     max_reserved |-> [mig0 |-> 20, gpu1 |-> 40], max_allocated |-> [mig0 |-> 20, gpu1 |-> 40],
     max_age |-> 300, skew |-> 5]
AcceleratorCanonical == AllFields(AcceleratorItems)
AcceleratorBase ==
    Truthful(Context(AcceleratorItems, {}, [p10e |-> [route |-> ServedRequest]], {}, AcceleratorRules,
                     AcceleratorCanonical), AcceleratorEvaluate)

(* Edits the evaluations of P10-F to P10-I share: the manifest's header, a list    *)
(* that is cut, turned around or repeats itself, the assessment before it and the  *)
(* caller's declaration.                                                           *)
RowEdits(c, kinds) ==
    UNION {{[c EXCEPT !.manifest.items[k] = Front(@)], [c EXCEPT !.manifest.items[k] = Append(@, Last(@))]} :
           k \in {k \in kinds : Len(c.manifest.items[k]) > 1}}
TurnedRows(c, kinds) ==
    {[c EXCEPT !.manifest.items[k] = Reverse(@)] :
        k \in {k \in kinds : Len(c.manifest.items[k]) > 1 /\ ~ \E i \in Ids(c, k) : Item(c, k, i) = Last(c.manifest.items[k])
                                                              /\ i # Len(c.manifest.items[k])}}
RouteEdits(c, u, fields) ==
    FieldEdits(c, {<<"route", "route", f, Other>> : f \in fields \cap {"request_id", "target_model_id", "target_model_revision"}})
    \cup GroupEdits(c, {<<"route", "route", [tenant_id |-> "beta", session_id |-> <<"beta", "s1">>]>>})
    \cup FieldEdits(c, {<<"route", "route", "session_id", <<"acme", Other>>>>, <<"route", "route", "tenant_id", "beta">>,
                        <<"route", "route", "adapter_ids", <<"style", "policy">>>>})
    \cup FieldEdits(c, {<<"route", "route", "adapter_generation", 1>>, <<"route", "route", "network_operations", 1>>})
    \cup FactEdits(c, {<<u, "route", f, Other>> : f \in fields \cap {"request_id", "tenant_id", "target_model_id", "target_model_revision"}})
    \cup FactEdits(c, {<<u, "route", "session_id", <<"acme", Other>>>>, <<u, "route", "adapter_ids", <<"style", "policy">>>>})
    \cup FactEdits(c, {<<u, "route", "adapter_generation", 1>>})
ServingEdits(c) ==
    ManifestEdits(c) \cup UpstreamEdits(c) \cup TrustEdits(c) \cup PinEdits(c) \cup CallerEdits(c)
    \cup {[c EXCEPT !.request.identity = Other], [c EXCEPT !.request.sha.identity = Other]}

(* One field of a partition, or of a lease, is not what was approved.              *)
PartitionDriftEdits(c) ==
    UNION {FieldEdits(c, {<<"partitions", i, f, Other>> :
               f \in {"physical_gpu_id", "gpu_uuid", "pci_bdf", "driver_version", "iommu_group_id", "address_space_id"}})
           \cup FieldEdits(c, {<<"partitions", i, f, FALSE>> :
                f \in {"cgroup_device_policy_enforced", "iommu_enabled", "telemetry_admin_only"}})
           \cup FieldEdits(c, {<<"partitions", i, f, TRUE>> :
                f \in {"peer_access_enabled", "gpudirect_rdma_enabled", "profiling_access_enabled", "shared_l2",
                       "shared_memory_controller", "shared_copy_engines", "shared_scheduler"}})
           \cup FieldEdits(c, {<<"partitions", i, f, {Other}>> : f \in {"device_nodes", "iommu_group_members"}})
           \cup FieldEdits(c, {<<"partitions", i, f, 3>> : f \in {"memory_epoch", "memory_generation"}})
           \cup FieldEdits(c, {<<"partitions", i, "reserved_memory_bytes", 41>>,
                               <<"partitions", i, "allocated_memory_bytes", 42>>})
           \cup FieldEdits(c, {<<"partitions", i, "session_id", <<"acme", Other>>>>})
           \cup GroupEdits(c, {<<"partitions", i, [tenant_id |-> "beta", session_id |-> <<"beta", "s9">>]>>,
                               <<"partitions", i, [partition_mode |-> "mps", mig_gpu_instance_id |-> None,
                                   mig_compute_instance_id |-> None, mig_profile |-> None, memory_slice_ids |-> {}]>>}) :
           i \in Ids(c, "partitions")}
TopologyDriftEdits(c) ==
    FieldEdits(c, {<<"partitions", 1, f, Other>> : f \in {"mig_gpu_instance_id", "mig_compute_instance_id", "mig_profile"}})
    \cup FieldEdits(c, {<<"partitions", 1, "memory_slice_ids", {"m0"}>>, <<"partitions", 1, "co_resident_partition_ids", {}>>,
                        <<"partitions", 1, "co_resident_mig_gpu_instance_ids", {}>>,
                        <<"partitions", 2, "memory_slice_ids", {"m9"}>>, <<"partitions", 2, "co_resident_tenant_ids", {"beta"}>>})
    \cup FieldEdits(c, {<<"partitions", 2, "address_space_id", "mig0">>, <<"partitions", 2, "partition_mode", "time_slice">>})

(* The pins of the topology follow the change: the partition's shape has to be     *)
(* judged by itself.                                                               *)
PartitionPinEdits(c) ==
    LET cases == {<<"mig0", 1, "co_resident_memory_slice_ids", {"m1", "m2"}>>,
                  <<"mig0", 1, "co_resident_mig_gpu_instance_ids", {"gi3"}>>,
                  <<"gpu1", 2, "co_resident_tenant_ids", {"beta"}>>, <<"gpu1", 2, "device_nodes", {}>>}
    IN {SetField([c EXCEPT !.policy.expected["partitions"][t[1]][t[3]] = t[4]], "partitions", t[2], t[3], t[4]) :
           t \in {t \in cases : Known(c, "partitions", t[2]) /\ t[1] \in DOMAIN c.policy.expected["partitions"]
                                /\ Item(c, "partitions", t[2]).partition_id = t[1]
                                /\ Item(c, "partitions", t[2])[t[3]] # t[4]}}

LeaseDriftEdits(c) ==
    UNION {FieldEdits(c, {<<"leases", i, f, Other>> : f \in {"lease_id", "request_id", "partition_id"}})
           \cup FieldEdits(c, {<<"leases", i, "lease_id", "lease_a">>})
           \cup FieldEdits(c, {<<"leases", i, "session_id", <<"acme", Other>>>>})
           \cup FieldEdits(c, {<<"leases", i, "issued_at_epoch", 1>>, <<"leases", i, "expires_at_epoch", -1>>,
                               <<"leases", i, "expires_at_epoch", -20>>, <<"leases", i, "generation", 7>>})
           \cup FieldEdits(c, {<<"leases", i, f, Unseen>> : f \in {"allocation_sha256", "previous_lease_sha256"}})
           \cup GroupEdits(c, {<<"leases", i, [tenant_id |-> "beta", session_id |-> <<"beta", "s9">>]>>}) :
           i \in Ids(c, "leases")}
ProbeEdits(c) ==
    FieldEdits(c, {<<"probe", "probe", f, Other>> : f \in {"probe_id", "hostname_sha256", "kernel_release", "inventories"}})
    \cup FieldEdits(c, {<<"probe", "probe", f, FALSE>> : f \in {"nvidia_smi_available", "hardware_present"}})
    \cup FieldEdits(c, {<<"probe", "probe", "collected_at_epoch", -301>>, <<"probe", "probe", "collected_at_epoch", 6>>})
    \cup FieldEdits(c, {<<"probe", "probe", "raw_evidence_sha256", Unseen>>})

(* The ledger of earlier leases or streams forgets one, or names this one.         *)
LedgerEdits(c, id) ==
    FieldEdits(c, {<<"route", "route", "prior_ids", {id}>>})
    \cup FieldEdits(c, {<<"route", "route", "prior_ledger", Unseen>>})
    \cup GroupEdits(c, {<<"route", "route", [prior_ids |-> {id}, prior_ledger |-> [prior |-> {id}]]>>})

AcceleratorPolicyEdits(c) ==
    {[c EXCEPT !.policy.expected["partitions"] = Without(@, "mig0")], [c EXCEPT !.policy.modes = {"mig", "mps"}],
     [c EXCEPT !.policy.modes = {}], [c EXCEPT !.policy.max_reserved["mig0"] = 0], [c EXCEPT !.policy.skew = -1],
     [c EXCEPT !.policy.max_allocated["gpu1"] = 41], [c EXCEPT !.policy.lease_ids = <<"lease1", "lease1">>],
     [c EXCEPT !.policy.expected["route"].tenant_id = "beta"]}

AcceleratorEdits(c) ==
    ServingEdits(c) \cup RouteEdits(c, "p10e", ModelFields) \cup RowEdits(c, {"partitions", "leases"})
    \cup TurnedRows(c, {"partitions", "leases"}) \cup PartitionDriftEdits(c) \cup TopologyDriftEdits(c)
    \cup PartitionPinEdits(c) \cup LeaseDriftEdits(c) \cup ProbeEdits(c) \cup LedgerEdits(c, "lease1")
    \cup AcceleratorPolicyEdits(c)

-----------------------------------------------------------------------------
(* P10-G: the stream of output frames. A payload is a pair, of a text and the word *)
(* "text" or of a tool and its arguments; its digest is the pair, its encoding the *)
(* pair with the frame's kind. Payloads have a size; the JSON inside the encoding  *)
(* escapes line breaks, so that no payload can look like a further event.          *)

Stream(c) == Item(c, "stream", "stream")
PayloadBytes(payload) == IF payload[2] = "huge" THEN 1000 ELSE IF payload[2] = "long" THEN 400 ELSE 40
EncodedBytes(payload) == PayloadBytes(payload) + 50
TerminalKinds == {"cancelled", "final"}

StreamPolicyValid(c) ==
    LET expected == c.policy.expected["stream"] IN
    /\ SessionOwned(c.policy.expected["route"])
    /\ c.policy.expected["route"].partition_ids # << >> /\ Distinct(c.policy.expected["route"].partition_ids)
    /\ c.policy.frame_ids # << >> /\ Distinct(c.policy.frame_ids)
    /\ expected.content_type = "text/event-stream" /\ expected.encoding = "utf-8"
    /\ \A f \in {"max_frame_bytes", "max_total_output_bytes", "max_buffered_bytes", "max_unacked_frames"} :
           expected[f] > 0
    /\ c.policy.max_tool_arguments_bytes > 0 /\ c.policy.max_cancel_lag_frames >= 0
    /\ c.policy.max_age >= 0 /\ c.policy.skew >= 0
    /\ expected.max_frame_bytes <= expected.max_total_output_bytes
    /\ expected.max_buffered_bytes <= expected.max_total_output_bytes
    /\ c.policy.tools # {} /\ expected.terminal_kind \in TerminalKinds

(* A tool call carries the tool and its arguments, no other frame does.            *)
StreamManifestValid(c) ==
    LET s == Stream(c) IN
    /\ c.manifest.identity = "expected" /\ SessionOwned(Route(c)) /\ SessionOwned(s)
    /\ Route(c).partition_ids # << >> /\ Distinct(Route(c).partition_ids)
    /\ \A f \in {"max_frame_bytes", "max_total_output_bytes", "max_buffered_bytes", "max_unacked_frames"} : s[f] > 0
    /\ Ids(c, "frames") # {} /\ Distinct(Listed(c, "frames", "frame_id"))
    /\ \A i \in Ids(c, "frames") :
           LET frame == Item(c, "frames", i)
               tool == {frame.tool_name # None, frame.tool_arguments_json # None, frame.tool_arguments_sha256 # None}
           IN frame.seq_no > 0 /\ frame.encoded_bytes > 0 /\ tool = {frame.kind = "tool_call"}
    /\ s.requested_after_seq >= 0 /\ s.effective_before_seq > 0

(* How many frames up to a frame were sent since the last one acknowledged.        *)
UnackedAt(c, i) == i - MaxOf({k \in 1..i : Item(c, "frames", k).acked})
TerminalFrames(c) == {i \in Ids(c, "frames") : Item(c, "frames", i).kind \in TerminalKinds}
TotalBytes(c) == MapThenSumSet(LAMBDA i : Item(c, "frames", i).encoded_bytes, Ids(c, "frames"))
SeedFields == {"stream_id", "output_channel_id", "request_id", "tenant_id", "session_id", "stream_generation"}

ToolRisks(c, frame) ==
    Fired([tool_call_unauthorized |-> frame.tool_name \notin c.policy.tools,
           tool_argument_digest_mismatch |-> frame.tool_arguments_sha256 # frame.tool_arguments_json,
           tool_call_framing_unsafe |->
               \/ PayloadBytes(<<frame.tool_name, frame.tool_arguments_json>>) > c.policy.max_tool_arguments_bytes
               \/ frame.payload_text # <<frame.tool_name, frame.tool_arguments_json>>])

FrameRisks(c, i) ==
    LET frame == Item(c, "frames", i)
        s == Stream(c)
        expected == c.policy.expected["stream"]
    IN Fired([frame_sequence_mismatch |-> frame.seq_no # i,
              frame_chain_mismatch |->
                  frame.previous_frame_sha256 # ChainBefore(c, "frames", s.frame_chain_seed_sha256, i),
              frame_digest_mismatch |-> \/ frame.payload_sha256 # frame.payload_text
                                        \/ frame.sse_sha256 # <<frame.kind>> \o frame.payload_text
                                        \/ frame.encoded_bytes # EncodedBytes(frame.payload_text),
              frame_size_exceeded |-> \/ frame.encoded_bytes > s.max_frame_bytes
                                      \/ frame.encoded_bytes > expected.max_frame_bytes,
              unacked_window_exceeded |-> \/ UnackedAt(c, i) > s.max_unacked_frames
                                          \/ UnackedAt(c, i) > expected.max_unacked_frames,
              output_after_cancel |-> \E k \in TerminalFrames(c) : k < i])
       \cup (IF frame.kind = "tool_call" THEN ToolRisks(c, frame) ELSE {})

(* The cancellation was authorized for this stream and this moment, and the frame  *)
(* that announces it is where it took effect.                                      *)
CancellationFields == {"stream_id", "tenant_id", "session_id", "cancellation_id", "requested_after_seq", "reason_code"}
CancellationRisks(c) ==
    LET s == Stream(c)
        expected == c.policy.expected["stream"]
        frames == c.manifest.items["frames"]
        cancelled == s.terminal_kind = "cancelled"
    IN Fired([cancellation_binding_mismatch |->
                  \/ s.cancellation_id # expected.cancellation_id
                  \/ s.authorization_sha256 # Restrict(s, CancellationFields)
                  \/ s.authorization_sha256 # expected.authorization_sha256
                  \/ s.effective_before_seq <= s.requested_after_seq
                  \/ s.effective_before_seq - s.requested_after_seq > c.policy.max_cancel_lag_frames
                  \/ cancelled /\ (IF s.effective_before_seq > Len(frames) THEN TRUE
                                   ELSE frames[s.effective_before_seq].kind # "cancelled"),
              output_after_cancel |->
                  cancelled /\ \E i \in DOMAIN frames :
                      \/ frames[i].seq_no > s.effective_before_seq
                      \/ frames[i].seq_no = s.effective_before_seq /\ frames[i].kind # "cancelled"])

BackpressureRisks(c) ==
    LET s == Stream(c)
        expected == c.policy.expected["stream"]
    IN Fired([backpressure_budget_exceeded |->
                  \/ \E f \in {"max_frame_bytes", "max_total_output_bytes", "max_buffered_bytes", "max_unacked_frames"} :
                         s[f] # expected[f]
                  \/ s.observed_high_water_bytes > s.max_buffered_bytes
                  \/ s.observed_high_water_bytes > expected.max_buffered_bytes
                  \/ c.policy.require_backpressure_observed /\ s.producer_pause_count <= 0
                  \/ c.policy.require_queue_drained /\ ~s.queue_drained,
              unacked_window_exceeded |->
                  \/ s.observed_high_water_unacked_frames > s.max_unacked_frames
                  \/ s.observed_high_water_unacked_frames > expected.max_unacked_frames])

StreamRouteFields == ModelFields \cup {"partition_ids"}
\* Mutant: nothing more is looked at once the earlier assessment is invalid.
StreamRisksEarly(c) ==
    LET s == Stream(c)
        expected == c.policy.expected["stream"]
    IN IF UpstreamRisks(c, "p10f") # {} THEN UpstreamRisks(c, "p10f") ELSE UNION {FrameRisks(c, i) : i \in Ids(c, "frames")}
       \cup CancellationRisks(c) \cup BackpressureRisks(c)
       \cup Fired([request_route_mismatch |-> RouteMismatch(c, "p10f", StreamRouteFields),
                   stream_identity_mismatch |->
                       \/ Restrict(s, RequestFields) # Restrict(Route(c), RequestFields)
                       \/ s.stream_id # expected.stream_id \/ s.stream_generation # expected.stream_generation,
                   output_channel_mismatch |-> s.output_channel_id # expected.output_channel_id,
                   content_type_unsafe |-> s.content_type # expected.content_type,
                   encoding_unsafe |-> s.encoding # expected.encoding,
                   frame_chain_mismatch |-> s.frame_chain_seed_sha256 # Restrict(s, SeedFields),
                   frame_coverage_mismatch |-> Listed(c, "frames", "frame_id") # c.policy.frame_ids,
                   total_output_exceeded |-> \/ TotalBytes(c) > s.max_total_output_bytes
                                             \/ TotalBytes(c) > expected.max_total_output_bytes,
                   terminal_frame_mismatch |-> \/ Cardinality(TerminalFrames(c)) # 1
                                               \/ Last(c.manifest.items["frames"]).kind # s.terminal_kind
                                               \/ s.terminal_kind # expected.terminal_kind,
                   stream_replay |-> s.stream_id \in Route(c).prior_ids,
                   prior_stream_ledger_mismatch |-> PriorLedgerMismatch(c),
                   network_operation_unexpected |-> Route(c).network_operations # 0])

StreamRisks(c) ==
    LET s == Stream(c)
        expected == c.policy.expected["stream"]
    IN UpstreamRisks(c, "p10f") \cup UNION {FrameRisks(c, i) : i \in Ids(c, "frames")}
       \cup CancellationRisks(c) \cup BackpressureRisks(c)
       \cup Fired([request_route_mismatch |-> RouteMismatch(c, "p10f", StreamRouteFields),
                   stream_identity_mismatch |->
                       \/ Restrict(s, RequestFields) # Restrict(Route(c), RequestFields)
                       \/ s.stream_id # expected.stream_id \/ s.stream_generation # expected.stream_generation,
                   output_channel_mismatch |-> s.output_channel_id # expected.output_channel_id,
                   content_type_unsafe |-> s.content_type # expected.content_type,
                   encoding_unsafe |-> s.encoding # expected.encoding,
                   frame_chain_mismatch |-> s.frame_chain_seed_sha256 # Restrict(s, SeedFields),
                   frame_coverage_mismatch |-> Listed(c, "frames", "frame_id") # c.policy.frame_ids,
                   total_output_exceeded |-> \/ TotalBytes(c) > s.max_total_output_bytes
                                             \/ TotalBytes(c) > expected.max_total_output_bytes,
                   terminal_frame_mismatch |-> \/ Cardinality(TerminalFrames(c)) # 1
                                               \/ Last(c.manifest.items["frames"]).kind # s.terminal_kind
                                               \/ s.terminal_kind # expected.terminal_kind,
                   stream_replay |-> s.stream_id \in Route(c).prior_ids,
                   prior_stream_ledger_mismatch |-> PriorLedgerMismatch(c),
                   network_operation_unexpected |-> Route(c).network_operations # 0])

StreamClaims ==
    [upstream_p10f_bound |-> {"upstream_invalid", "upstream_binding_mismatch"},
     output_channel_verified |->
         {"request_route_mismatch", "output_channel_mismatch", "stream_identity_mismatch", "content_type_unsafe",
          "encoding_unsafe"},
     frame_integrity_verified |->
         {"frame_coverage_mismatch", "frame_sequence_mismatch", "frame_chain_mismatch", "frame_digest_mismatch",
          "frame_size_exceeded", "total_output_exceeded", "terminal_frame_mismatch", "output_after_cancel"},
     backpressure_verified |-> {"backpressure_budget_exceeded", "unacked_window_exceeded"},
     cancellation_verified |-> {"cancellation_binding_mismatch", "output_after_cancel", "terminal_frame_mismatch"},
     tool_framing_verified |->
         {"tool_call_framing_unsafe", "tool_call_unauthorized", "tool_argument_digest_mismatch"},
     replay_verified |-> {"stream_replay", "prior_stream_ledger_mismatch"}]

StreamFacts(c) == ClaimFacts(StreamClaims, StreamRisks(c))
StreamTruth(c, facts) ==
    [identity |-> Restrict(Route(c), RequestFields), frames |-> Listed(c, "frames", "frame_id"),
     channel |-> <<Stream(c).stream_id, Stream(c).output_channel_id, Stream(c).terminal_kind>>]
    @@ SafetyDeclared(facts, DOMAIN StreamClaims \cup {"streaming_safe"})

StreamEvaluate(c) ==
    Outcome(c, ServingAsked(c), StreamPolicyValid(c) /\ StreamManifestValid(c) /\ ManifestBound(c),
            StreamFacts, LAMBDA facts : StreamTruth(c, facts))

-----------------------------------------------------------------------------
(* The evaluation's stream: two frames of text, a tool call and the cancellation.  *)

StreamFrameEvidence(id, seq, kind, payload, acked, previous) ==
    LET called == kind = "tool_call" IN
    [frame_id |-> id, seq_no |-> seq, kind |-> kind, payload_text |-> payload, payload_sha256 |-> payload,
     sse_sha256 |-> <<kind>> \o payload, encoded_bytes |-> EncodedBytes(payload), acked |-> acked,
     previous_frame_sha256 |-> previous, tool_name |-> IF called THEN payload[1] ELSE None,
     tool_arguments_json |-> IF called THEN payload[2] ELSE None,
     tool_arguments_sha256 |-> IF called THEN payload[2] ELSE None]
StreamingOutputEvidence ==
    LET identity == [stream_id |-> "stream", output_channel_id |-> "channel", request_id |-> "request",
                     tenant_id |-> "acme", session_id |-> <<"acme", "s1">>, stream_generation |-> 3]
        cancellation == [cancellation_id |-> "cancel", requested_after_seq |-> 2, reason_code |-> "user"]
    IN identity @@ cancellation
       @@ [content_type |-> "text/event-stream", encoding |-> "utf-8", max_frame_bytes |-> 512,
           max_total_output_bytes |-> 2048, max_buffered_bytes |-> 1024, max_unacked_frames |-> 2,
           frame_chain_seed_sha256 |-> identity, effective_before_seq |-> 4,
           authorization_sha256 |-> Restrict(identity @@ cancellation, CancellationFields),
           observed_high_water_bytes |-> 700, observed_high_water_unacked_frames |-> 1, producer_pause_count |-> 2,
           queue_drained |-> TRUE, terminal_kind |-> "cancelled"]

StreamFrames ==
    LET first == StreamFrameEvidence("f1", 1, "token", <<"text", "ticket">>, TRUE,
                                     StreamingOutputEvidence.frame_chain_seed_sha256)
        second == StreamFrameEvidence("f2", 2, "token", <<"text", "status">>, TRUE, first)
        third == StreamFrameEvidence("f3", 3, "tool_call", <<"lookup_ticket", "ticket">>, FALSE, second)
    IN <<first, second, third, StreamFrameEvidence("f4", 4, "cancelled", <<"text", "user">>, TRUE, third)>>

StreamPrior == [prior |-> {"stream_a", "stream_b"}]
StreamedRequest == ServedRequest @@ [partition_ids |-> AcceleratorRules.partition_ids]
StreamItems ==
    [route |-> [route |-> StreamedRequest @@ [prior_ids |-> StreamPrior.prior, prior_ledger |-> StreamPrior,
                                              network_operations |-> 0]],
     stream |-> [stream |-> StreamingOutputEvidence], frames |-> StreamFrames]
(* The evaluation's policy requires both; it has no case that waives either.       *)
StreamRules ==
    [expected |-> [route |-> StreamItems.route.route, stream |-> StreamingOutputEvidence],
     frame_ids |-> <<"f1", "f2", "f3", "f4">>, max_cancel_lag_frames |-> 2, max_tool_arguments_bytes |-> 256,
     require_backpressure_observed |-> TRUE, require_queue_drained |-> TRUE,
     tools |-> {"lookup_ticket", "search_kb"}, max_age |-> 300, skew |-> 5]
StreamCanonical == AllFields(StreamItems)
StreamBase ==
    Truthful(Context(StreamItems, {}, [p10f |-> [route |-> StreamedRequest]], {}, StreamRules, StreamCanonical),
             StreamEvaluate)

StreamDriftEdits(c) ==
    FieldEdits(c, {<<"stream", "stream", f, Other>> :
        f \in {"stream_id", "output_channel_id", "request_id", "content_type", "encoding", "cancellation_id", "reason_code"}})
    \cup FieldEdits(c, {<<"stream", "stream", "max_frame_bytes", 513>>, <<"stream", "stream", "max_total_output_bytes", 2049>>,
                        <<"stream", "stream", "max_buffered_bytes", 1025>>, <<"stream", "stream", "max_unacked_frames", 3>>,
                        <<"stream", "stream", "stream_generation", 2>>, <<"stream", "stream", "requested_after_seq", 0>>,
                        <<"stream", "stream", "effective_before_seq", 10>>,
                        <<"stream", "stream", "observed_high_water_bytes", 1025>>,
                        <<"stream", "stream", "observed_high_water_unacked_frames", 3>>,
                        <<"stream", "stream", "producer_pause_count", 0>>})
    \cup FieldEdits(c, {<<"stream", "stream", f, Unseen>> : f \in {"frame_chain_seed_sha256", "authorization_sha256"}})
    \cup FieldEdits(c, {<<"stream", "stream", "queue_drained", FALSE>>})
    \cup FieldEdits(c, {<<"stream", "stream", "terminal_kind", "final">>})
    \cup FieldEdits(c, {<<"stream", "stream", "session_id", <<"acme", Other>>>>})
    \cup GroupEdits(c, {<<"stream", "stream", [tenant_id |-> "beta", session_id |-> <<"beta", "s1">>]>>})

FrameDriftEdits(c) ==
    UNION {FieldEdits(c, {<<"frames", i, "frame_id", Other>>})
           \cup FieldEdits(c, {<<"frames", i, "seq_no", i + 10>>, <<"frames", i, "encoded_bytes", 91>>})
           \cup FieldEdits(c, {<<"frames", i, "payload_sha256", <<"text", Other>>>>,
                               <<"frames", i, "sse_sha256", <<"token", "text", Other>>>>})
           \cup FieldEdits(c, {<<"frames", i, "previous_frame_sha256", Unseen>>}) : i \in Ids(c, "frames")}
    \cup FieldEdits(c, {<<"frames", 3, "tool_name", "shell">>, <<"frames", 3, "tool_arguments_sha256", Other>>})
    \cup FieldEdits(c, {<<"frames", 3, "payload_text", <<"lookup_ticket", Other>>>>})
    \cup FieldEdits(c, {<<"frames", 4, "kind", "final">>})

(* The frames as a sender that keeps the chain would send them after changing one. *)
Rechained(c, frames) ==
    LET built[i \in DOMAIN frames] ==
            StreamFrameEvidence(frames[i].frame_id, i, frames[i].kind, frames[i].payload_text, frames[i].acked,
                                IF i = 1 THEN Stream(c).frame_chain_seed_sha256 ELSE built[i - 1])
    IN [c EXCEPT !.manifest.items["frames"] = built]
RechainedEdits(c) ==
    LET frames == c.manifest.items["frames"]
        with(i, f, v) == [frames EXCEPT ![i][f] = v]
    IN IF Len(frames) # 4 THEN {}
       ELSE {Rechained(c, with(1, "payload_text", <<"text", "huge">>)),
             Rechained(c, with(3, "payload_text", <<"lookup_ticket", "long">>)),
             Rechained(c, with(3, "payload_text", <<"shell", "ticket">>)),
             Rechained(c, [i \in 1..4 |-> [frames[i] EXCEPT !.acked = i = 1]]),
             Rechained(c, Append(frames, [frames[1] EXCEPT !.frame_id = "f5", !.payload_text = <<"text", "after">>])),
             Rechained(c, <<frames[2], frames[1], frames[3], frames[4]>>)}

StreamPolicyEdits(c) ==
    {[c EXCEPT !.policy.expected["stream"].content_type = "json"], [c EXCEPT !.policy.expected["stream"].encoding = "utf-16"],
     [c EXCEPT !.policy.expected["stream"].max_frame_bytes = 0], [c EXCEPT !.policy.expected["stream"].max_total_output_bytes = 100],
     [c EXCEPT !.policy.expected["stream"].max_buffered_bytes = 2049], [c EXCEPT !.policy.tools = {}],
     [c EXCEPT !.policy.expected["stream"].terminal_kind = "token"],
     [c EXCEPT !.policy.expected["stream"].authorization_sha256 = Unseen],
     [c EXCEPT !.policy.expected["route"].prior_ledger = Unseen]}

StreamEdits(c) ==
    ServingEdits(c) \cup RouteEdits(c, "p10f", ModelFields) \cup RowEdits(c, {"frames"})
    \cup TurnedRows(c, {"frames"}) \cup StreamDriftEdits(c) \cup FrameDriftEdits(c) \cup RechainedEdits(c)
    \cup FieldEdits(c, {<<"route", "route", "partition_ids", <<"gpu1", "mig0">>>>})
    \cup FactEdits(c, {<<"p10f", "route", "partition_ids", <<"gpu1", "mig0">>>>})
    \cup LedgerEdits(c, "stream") \cup StreamPolicyEdits(c)
=============================================================================
