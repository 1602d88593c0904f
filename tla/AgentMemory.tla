----------------------------- MODULE AgentMemory -----------------------------
(* Memory of agents, aegis/agentic/memory_security.py (P8-B). Stores hold         *)
(* memories, a write puts one memory into its store, a retrieval reads several;   *)
(* writes and retrievals are what is allowed or denied.                           *)
EXTENDS Assessment

ClassRank == [public |-> 1, internal |-> 2, confidential |-> 3, restricted |-> 4]
TrustRank == [untrusted |-> 1, user_asserted |-> 2, delegated |-> 3, verified_system |-> 4]

StoreProfile == {"scope", "tenant_id", "session_binding_required",
    "allowed_writer_agent_ids", "allowed_reader_agent_ids", "maximum_classification",
    "minimum_persisted_trust", "retention_seconds", "required_p7i_invariant_ids"}

Canonical ==
    [stores |-> StoreProfile \cup {"owner_id"},
     memories |-> {"store_id", "tenant_id", "session_id", "classification", "trust_label",
        "content_sha256", "source_context_sha256", "source_kind", "created_by_agent_id",
        "original_principal_id", "delegation_id", "parent_memory_ids", "p7c_path_ids",
        "sanitized", "sanitization_evidence_sha256", "created_at_epoch", "expires_at_epoch",
        "revoked_at_epoch", "supersedes_memory_id", "owner_id"},
     writes |-> {"memory_id", "writer_agent_id", "original_principal_id", "tenant_id",
        "session_id", "delegation_id", "source_context_sha256", "requested_classification",
        "requested_trust_label", "issued_at_epoch", "owner_id"},
     retrievals |-> {"reader_agent_id", "original_principal_id", "tenant_id", "session_id",
        "memory_ids", "declared_trust_by_memory", "declared_classification_by_memory",
        "issued_at_epoch", "owner_id"}]

PolicyValid(c) ==
    LET p == c.policy IN
    /\ PolicyFormed(c)
    /\ \A k \in DOMAIN p.required : p.required[k] # {}
    /\ p.agents # {} /\ DOMAIN p.principal_tenant # {}
    /\ DOMAIN p.writer_max_trust = p.agents
    /\ \A s \in p.required["stores"] : p.expected["stores"][s].retention_seconds > 0
    /\ None \notin p.sanitizations

UpstreamsValid(c) ==
    /\ UpstreamsBound(c) /\ UpstreamsDistinct(c)
    /\ \A u \in DOMAIN c.up : DOMAIN c.up[u].facts # {}

(* An actor is a known agent acting for a known principal.                        *)
KnownActor(c, agent, principal) ==
    agent \in c.policy.agents /\ principal \in DOMAIN c.policy.principal_tenant
KnownDelegation(c, d) == d = None \/ HasFact(c, "p8a", d)
NotFuture(c, t) == t <= c.request.at + c.policy.skew

MemoryValid(c, m) ==
    LET mem == Item(c, "memories", m) IN
    /\ Known(c, "stores", mem.store_id)
    /\ mem.content_sha256 # None /\ mem.source_context_sha256 # None
    /\ KnownActor(c, mem.created_by_agent_id, mem.original_principal_id)
    /\ KnownDelegation(c, mem.delegation_id)
    /\ mem.parent_memory_ids \subseteq Ids(c, "memories")
    /\ mem.p7c_path_ids \subseteq DOMAIN c.up["p7c"].facts
    /\ mem.supersedes_memory_id = None \/ Known(c, "memories", mem.supersedes_memory_id)
    /\ IF mem.sanitized THEN mem.sanitization_evidence_sha256 \in c.policy.sanitizations
       ELSE mem.sanitization_evidence_sha256 = None
    /\ mem.created_at_epoch < mem.expires_at_epoch
    /\ mem.revoked_at_epoch = -1 \/ mem.created_at_epoch <= mem.revoked_at_epoch

(* All memories a memory is derived from.                                         *)
Sources(c, m) ==
    LET parents(S) == UNION {Item(c, "memories", x).parent_memory_ids : x \in S}
        reach[k \in Nat] == IF k = 0 THEN parents({m})
                            ELSE reach[k - 1] \cup parents(reach[k - 1])
    IN reach[Cardinality(Ids(c, "memories"))]

ManifestValid(c) ==
    /\ ManifestBound(c) /\ ManifestCovers(c)
    /\ OwnersTrusted(c, DOMAIN c.manifest.items)
    /\ ProfilesExpected(c, "stores", StoreProfile)
    /\ \A s \in Ids(c, "stores") : LET store == Item(c, "stores", s) IN
           /\ store.allowed_writer_agent_ids \cup store.allowed_reader_agent_ids
                \subseteq c.policy.agents
           /\ store.retention_seconds > 0
           /\ store.required_p7i_invariant_ids \subseteq DOMAIN c.up["p7i"].facts
    /\ \A m \in Ids(c, "memories") : MemoryValid(c, m)
    /\ \A m \in Ids(c, "memories") : m \notin Sources(c, m)
    /\ \A w \in Ids(c, "writes") : LET write == Item(c, "writes", w) IN
           /\ Known(c, "memories", write.memory_id)
           /\ KnownActor(c, write.writer_agent_id, write.original_principal_id)
           /\ KnownDelegation(c, write.delegation_id)
           /\ write.source_context_sha256 # None /\ NotFuture(c, write.issued_at_epoch)
    /\ \A r \in Ids(c, "retrievals") : LET read == Item(c, "retrievals", r) IN
           /\ KnownActor(c, read.reader_agent_id, read.original_principal_id)
           /\ read.memory_ids # {} /\ read.memory_ids \subseteq Ids(c, "memories")
           /\ DOMAIN read.declared_trust_by_memory = read.memory_ids
           /\ DOMAIN read.declared_classification_by_memory = read.memory_ids
           /\ NotFuture(c, read.issued_at_epoch)

-----------------------------------------------------------------------------
(* evaluate                                                                        *)

Exposed(c, mem) == \E p \in mem.p7c_path_ids : Fact(c, "p7c", p).exposed
Unsafe(c, store) == \E i \in store.required_p7i_invariant_ids :
                        Fact(c, "p7i", i).state \in {"degraded", "violated"}
Outside(store, tenant) == store.tenant_id \notin {tenant, "system"}
Lasting(store) == store.scope \in {"tenant", "system"}
Raised(mem, rank) == TrustRank[mem.trust_label] > rank
Lowered(mem, rank) == ClassRank[mem.classification] < rank

(* The delegation that a memory was written under is allowed and is the writer's. *)
Delegated(c, write, mem) ==
    IF mem.delegation_id = None THEN mem.trust_label # "delegated"
    ELSE LET d == Fact(c, "p8a", mem.delegation_id) IN
         /\ d.decision = "allow" /\ d.delegatee_agent_id = write.writer_agent_id
         /\ d.original_principal_id = write.original_principal_id
         /\ d.tenant_id = write.tenant_id

WriteRisks(c, w) ==
    LET write == Item(c, "writes", w)
        mem == Item(c, "memories", write.memory_id)
        store == Item(c, "stores", mem.store_id)
        parents == {Item(c, "memories", p) : p \in mem.parent_memory_ids}
        before == IF mem.supersedes_memory_id = None THEN {}
                  ELSE {Item(c, "memories", mem.supersedes_memory_id)}
        raises == /\ ~mem.sanitized
                  /\ \/ parents # {} /\ Raised(mem, Max({TrustRank[p.trust_label] : p \in parents}))
                     \/ \E b \in before : Raised(mem, TrustRank[b.trust_label])
        lowers == /\ ~mem.sanitized
                  /\ \/ parents # {} /\ Lowered(mem, Max({ClassRank[p.classification] : p \in parents}))
                     \/ \E b \in before : Lowered(mem, ClassRank[b.classification])
        weak == ~mem.sanitized /\ TrustRank[mem.trust_label] < TrustRank[store.minimum_persisted_trust]
    IN Fired([
        writer_unauthorized |-> write.writer_agent_id \notin store.allowed_writer_agent_ids,
        cross_tenant |->
            \/ write.tenant_id # c.policy.principal_tenant[write.original_principal_id]
            \/ mem.tenant_id # write.tenant_id \/ Outside(store, write.tenant_id)
            \/ \E p \in parents : p.tenant_id # mem.tenant_id,
        cross_session |->
            IF store.session_binding_required
            THEN \/ write.session_id = None \/ mem.session_id # write.session_id
                 \/ \E p \in parents : p.session_id # mem.session_id
            ELSE store.scope = "system" /\ write.session_id # None,
        provenance_broken |->
            \/ write.source_context_sha256 # mem.source_context_sha256
            \/ write.requested_classification # mem.classification
            \/ write.requested_trust_label # mem.trust_label
            \/ write.writer_agent_id # mem.created_by_agent_id
            \/ write.original_principal_id # mem.original_principal_id
            \/ write.delegation_id # mem.delegation_id
            \/ mem.expires_at_epoch > mem.created_at_epoch + store.retention_seconds
            \/ \E b \in before : b.tenant_id # mem.tenant_id \/ b.store_id # mem.store_id,
        trust_upgrade |-> raises \/ Raised(mem, TrustRank[c.policy.writer_max_trust[write.writer_agent_id]]),
        classification_downgrade |->
            lowers \/ ClassRank[mem.classification] > ClassRank[store.maximum_classification],
        memory_laundering |-> raises \/ lowers,
        delegation_mismatch |-> ~Delegated(c, write, mem),
        untrusted_persistence |-> weak,
        poison_persistence |-> Lasting(store) /\ (weak \/
            /\ ~mem.sanitized /\ TrustRank[mem.trust_label] < TrustRank["delegated"]
            /\ mem.source_kind \in {"user_message", "tool_result", "external_content"}),
        upstream_data_exposure |-> Exposed(c, mem),
        architecture_invariant_unsafe |-> Unsafe(c, store)])

ReadRisks(c, r) ==
    LET read == Item(c, "retrievals", r)
        mem(m) == Item(c, "memories", m)
        store(m) == Item(c, "stores", mem(m).store_id)
        some(P(_)) == \E m \in read.memory_ids : P(m)
    IN Fired([
        reader_unauthorized |-> some(LAMBDA m : read.reader_agent_id \notin store(m).allowed_reader_agent_ids),
        cross_tenant |->
            \/ read.tenant_id # c.policy.principal_tenant[read.original_principal_id]
            \/ some(LAMBDA m : mem(m).tenant_id # read.tenant_id \/ Outside(store(m), read.tenant_id)),
        cross_session |-> some(LAMBDA m : /\ store(m).session_binding_required
                                          /\ read.session_id = None \/ mem(m).session_id # read.session_id),
        revoked_memory |-> some(LAMBDA m : mem(m).revoked_at_epoch \in 0..c.request.at),
        expired_memory |-> some(LAMBDA m : mem(m).expires_at_epoch <= c.request.at),
        superseded_memory |->
            some(LAMBDA m : \E x \in Ids(c, "memories") : mem(x).supersedes_memory_id = m),
        retrieval_trust_mismatch |->
            some(LAMBDA m : read.declared_trust_by_memory[m] # mem(m).trust_label),
        retrieval_classification_mismatch |->
            some(LAMBDA m : read.declared_classification_by_memory[m] # mem(m).classification),
        upstream_data_exposure |-> some(LAMBDA m : Exposed(c, mem(m))),
        architecture_invariant_unsafe |-> some(LAMBDA m : Unsafe(c, store(m)))])

Facts(c) ==
    [i \in Ids(c, "writes") \cup Ids(c, "retrievals") |->
        IF Known(c, "writes", i) THEN WriteRisks(c, i) ELSE ReadRisks(c, i)]

Asked(c) == RequestBound(c, {"writes", "retrievals"})

Evaluate(c) ==
    Outcome(c, Asked(c), PolicyValid(c) /\ UpstreamsValid(c) /\ ManifestValid(c), Facts, Truth)

-----------------------------------------------------------------------------
(* The evaluation's fixture: a query kept for a session, a summary derived from   *)
(* it, and a profile that superseded an older one. Times are shifted so that a    *)
(* revocation is never negative.                                                  *)

MemoryStore(scope, agents, trust, bound, retention) ==
    [scope |-> scope, tenant_id |-> "tenant-a", session_binding_required |-> bound,
     allowed_writer_agent_ids |-> agents, allowed_reader_agent_ids |-> agents,
     maximum_classification |-> "confidential", minimum_persisted_trust |-> trust,
     retention_seconds |-> retention, required_p7i_invariant_ids |-> {"tenant"},
     owner_id |-> "owner"]
MemoryRecord(store, session, trust, kind, agent, delegation, parents, sanitized, supersedes) ==
    [store_id |-> store, tenant_id |-> "tenant-a", session_id |-> session,
     classification |-> "confidential", trust_label |-> trust, content_sha256 |-> "content",
     source_context_sha256 |-> "source", source_kind |-> kind, created_by_agent_id |-> agent,
     original_principal_id |-> "user-a", delegation_id |-> delegation,
     parent_memory_ids |-> parents, p7c_path_ids |-> {"path"}, sanitized |-> sanitized,
     sanitization_evidence_sha256 |-> IF sanitized THEN "sanitizer" ELSE None,
     created_at_epoch |-> 10, expires_at_epoch |-> 1000, revoked_at_epoch |-> -1,
     supersedes_memory_id |-> supersedes, owner_id |-> "owner"]
MemoryWrite(memory, session, agent, delegation, trust) ==
    [memory_id |-> memory, writer_agent_id |-> agent, original_principal_id |-> "user-a",
     tenant_id |-> "tenant-a", session_id |-> session, delegation_id |-> delegation,
     source_context_sha256 |-> "source", requested_classification |-> "confidential",
     requested_trust_label |-> trust, issued_at_epoch |-> 20, owner_id |-> "owner"]
MemoryRetrieval(session, agent, memories, trust) ==
    [reader_agent_id |-> agent, original_principal_id |-> "user-a", tenant_id |-> "tenant-a",
     session_id |-> session, memory_ids |-> memories,
     declared_trust_by_memory |-> [m \in memories |-> trust],
     declared_classification_by_memory |-> [m \in memories |-> "confidential"],
     issued_at_epoch |-> 30, owner_id |-> "owner"]

Items ==
    [stores |-> [
        session |-> MemoryStore("session", {"orchestrator"}, "user_asserted", TRUE, 3600),
        tenant |-> MemoryStore("tenant", {"retriever", "broker"}, "delegated", FALSE, 86400)],
     memories |-> [
        query |-> MemoryRecord("session", "s1", "user_asserted", "user_message",
                               "orchestrator", None, {}, FALSE, None),
        summary |-> MemoryRecord("tenant", None, "delegated", "derived_summary", "retriever",
                                 "retrieve", {"query"}, TRUE, None),
        old |-> MemoryRecord("tenant", None, "delegated", "state", "retriever", "retrieve",
                             {}, FALSE, None),
        profile |-> MemoryRecord("tenant", None, "delegated", "state", "retriever", "retrieve",
                                 {"old"}, FALSE, "old")],
     writes |-> [
        w_query |-> MemoryWrite("query", "s1", "orchestrator", None, "user_asserted"),
        w_summary |-> MemoryWrite("summary", None, "retriever", "retrieve", "delegated"),
        w_profile |-> MemoryWrite("profile", None, "retriever", "retrieve", "delegated")],
     retrievals |-> [
        r_query |-> MemoryRetrieval("s1", "orchestrator", {"query"}, "user_asserted"),
        r_durable |-> MemoryRetrieval(None, "retriever", {"summary", "profile"}, "delegated")]]

Upstreams ==
    [p8a |-> [retrieve |-> [decision |-> "allow", delegatee_agent_id |-> "retriever",
                            original_principal_id |-> "user-a", tenant_id |-> "tenant-a"]],
     p7c |-> [path |-> [exposed |-> FALSE]], p7i |-> [tenant |-> [state |-> "holds"]]]

Actors ==
    [agents |-> {"orchestrator", "retriever", "broker"}, sanitizations |-> {"sanitizer"},
     principal_tenant |-> [x \in {"user-a", "user-b"} |-> IF x = "user-a" THEN "tenant-a" ELSE "tenant-b"],
     writer_max_trust |-> [orchestrator |-> "user_asserted", retriever |-> "delegated",
                           broker |-> "delegated"]]

Base == Context(Items, {"stores"}, Upstreams, {"writes", "retrievals"}, Actors, Canonical)

(* Inventory, upstream, store, policy and caller cases.                           *)
DocumentEdits(c) ==
    CommonEdits(c) \cup PinEdits(c) \cup RepeatEdits(c)
    \cup FieldEdits(c, {
        <<"stores", "tenant", "scope", "system">>, <<"stores", "tenant", "tenant_id", "tenant-b">>,
        <<"stores", "tenant", "session_binding_required", TRUE>>,
        <<"stores", "tenant", "allowed_writer_agent_ids", {"retriever"}>>,
        <<"stores", "tenant", "allowed_reader_agent_ids", {"retriever", Other}>>,
        <<"stores", "tenant", "maximum_classification", "restricted">>,
        <<"stores", "tenant", "minimum_persisted_trust", "user_asserted">>,
        <<"stores", "tenant", "retention_seconds", 999>>,
        <<"stores", "tenant", "required_p7i_invariant_ids", {Other}>>})
    \cup PolicyEdits(c, {<<"agents", {}>>, <<"sanitizations", {None}>>,
        <<"principal_tenant", << >> >>,
        <<"writer_max_trust", Without(c.policy.writer_max_trust, "orchestrator")>>})
    \cup CoherentEdits(c, {<<"stores", "tenant", "retention_seconds", 0>>,
                           <<"stores", "tenant", "allowed_writer_agent_ids", {Other}>>})

(* Broken references of memories, writes and retrievals.                          *)
ReferenceEdits(c) ==
    FieldEdits(c, {
        <<"memories", "summary", "store_id", Other>>, <<"memories", "summary", "content_sha256", None>>,
        <<"memories", "summary", "source_context_sha256", None>>,
        <<"memories", "summary", "created_by_agent_id", Other>>,
        <<"memories", "summary", "original_principal_id", Other>>,
        <<"memories", "summary", "delegation_id", Other>>,
        <<"memories", "summary", "parent_memory_ids", {Other}>>,
        <<"memories", "query", "parent_memory_ids", {"summary"}>>,
        <<"memories", "summary", "p7c_path_ids", {Other}>>,
        <<"memories", "profile", "supersedes_memory_id", Other>>,
        <<"memories", "summary", "sanitization_evidence_sha256", Other>>,
        <<"memories", "summary", "sanitized", FALSE>>,
        <<"memories", "summary", "expires_at_epoch", 5>>, <<"memories", "summary", "revoked_at_epoch", 5>>,
        <<"writes", "w_summary", "memory_id", Other>>, <<"writes", "w_summary", "writer_agent_id", Other>>,
        <<"writes", "w_summary", "original_principal_id", Other>>,
        <<"writes", "w_summary", "delegation_id", Other>>,
        <<"writes", "w_summary", "source_context_sha256", None>>,
        <<"writes", "w_summary", "issued_at_epoch", 200>>,
        <<"retrievals", "r_durable", "reader_agent_id", Other>>,
        <<"retrievals", "r_durable", "original_principal_id", Other>>,
        <<"retrievals", "r_durable", "memory_ids", {}>>, <<"retrievals", "r_durable", "memory_ids", {Other}>>,
        <<"retrievals", "r_durable", "declared_trust_by_memory", [summary |-> "delegated"]>>,
        <<"retrievals", "r_durable", "issued_at_epoch", 200>>})

(* Cases in which the documents agree and a write or a retrieval is denied.       *)
UseEdits(c) ==
    FieldEdits(c, {
        <<"writes", "w_summary", "writer_agent_id", "orchestrator">>,
        <<"writes", "w_summary", "tenant_id", "tenant-b">>, <<"writes", "w_query", "session_id", "s2">>,
        <<"writes", "w_summary", "source_context_sha256", Other>>,
        <<"writes", "w_summary", "requested_classification", "internal">>,
        <<"writes", "w_summary", "requested_trust_label", "user_asserted">>,
        <<"memories", "summary", "created_by_agent_id", "broker">>,
        <<"memories", "summary", "original_principal_id", "user-b">>,
        <<"memories", "summary", "trust_label", "verified_system">>,
        <<"memories", "summary", "classification", "restricted">>,
        <<"memories", "profile", "supersedes_memory_id", "query">>,
        <<"memories", "profile", "expires_at_epoch", 90000>>,
        <<"memories", "profile", "expires_at_epoch", 60>>, <<"memories", "profile", "revoked_at_epoch", 60>>,
        <<"memories", "old", "supersedes_memory_id", "profile">>,
        <<"retrievals", "r_durable", "reader_agent_id", "orchestrator">>,
        <<"retrievals", "r_durable", "tenant_id", "tenant-b">>,
        <<"retrievals", "r_query", "session_id", "s2">>,
        <<"retrievals", "r_durable", "declared_trust_by_memory",
            [summary |-> "delegated", profile |-> "verified_system"]>>,
        <<"retrievals", "r_durable", "declared_classification_by_memory",
            [summary |-> "confidential", profile |-> "public"]>>})
    \cup GroupEdits(c, {
        <<"memories", "summary", [trust_label |-> "user_asserted", sanitized |-> FALSE,
                                  sanitization_evidence_sha256 |-> None]>>,
        <<"memories", "profile", [trust_label |-> "verified_system", classification |-> "internal"]>>,
        <<"retrievals", "r_durable", [memory_ids |-> {"old"},
            declared_trust_by_memory |-> [old |-> "delegated"],
            declared_classification_by_memory |-> [old |-> "confidential"]]>>})
    \cup CoherentEdits(c, {<<"stores", "tenant", "session_binding_required", TRUE>>})
    \cup PolicyEdits(c, {<<"writer_max_trust", [c.policy.writer_max_trust EXCEPT !["retriever"] = "user_asserted"]>>})
    \cup FactEdits(c, {<<"p8a", "retrieve", "decision", "deny">>, <<"p7c", "path", "exposed", TRUE>>,
                       <<"p7i", "tenant", "state", "violated">>})

Edits(c) == DocumentEdits(c) \cup ReferenceEdits(c) \cup UseEdits(c)
=============================================================================
