----------------------------- MODULE AgentRecovery -----------------------------
(* Rollback, restore and resume of agents, aegis/agentic/recovery_security.py     *)
(* (P8-J). A recovery leads from a checkpoint to another: everything the target   *)
(* has is restored, everything only a distrusted source has is quarantined or     *)
(* revoked, and nothing comes back that was taken away before.                    *)
EXTENDS Assessment

ItemProfile == {"kind", "tenant_id", "session_id", "original_principal_id", "source_ref_id",
                "content_sha256", "generation", "persistence_state"}
CheckpointProfile == {"tenant_id", "session_id", "original_principal_id", "parent_checkpoint_id",
                      "generation", "state_sha256", "item_ids", "trust"}

Modes == {"resume", "rollback", "restore", "forensic"}

PolicyValid(c) ==
    LET p == c.policy IN
    /\ PolicyFormed(c) /\ p.max_checkpoint_age > 0
    /\ p.non_restorable \cup p.refresh_required \subseteq p.required["items"]
    /\ p.authorization_required \subseteq Modes /\ p.destructive \subseteq Modes

(* Verified: the binding and the further check that matters here, both flags.     *)
UpstreamsValid(c) == UpstreamsBound(c) /\ UpstreamsUntrusting(c)

AncestryValid(c) ==
    LET parent == ParentsBy(c, "checkpoints", "parent_checkpoint_id") IN
    /\ ~Cyclic(parent)
    /\ \A x \in DOMAIN parent :
           /\ Known(c, "checkpoints", parent[x])
           /\ LET child == Item(c, "checkpoints", x)
                  above == Item(c, "checkpoints", parent[x])
              IN /\ above.tenant_id = child.tenant_id
                 /\ above.original_principal_id = child.original_principal_id
                 /\ above.generation < child.generation

CheckpointValid(c, x) ==
    LET checkpoint == Item(c, "checkpoints", x) IN
    /\ checkpoint.generation >= 0 /\ checkpoint.state_sha256 # None
    /\ checkpoint.expires_at_epoch >= checkpoint.created_at_epoch
    /\ checkpoint.item_ids \subseteq Ids(c, "items")
    /\ \A i \in checkpoint.item_ids : Item(c, "items", i).generation <= checkpoint.generation

AuthorizationValid(c, a) ==
    LET auth == Item(c, "authorizations", a) IN
    /\ None \notin {auth.actor_agent_id, auth.original_principal_id, auth.tenant_id}
    /\ auth.allowed_modes # {} /\ auth.max_rollback_generations >= 0
    /\ auth.expires_at_epoch >= auth.issued_at_epoch
    /\ auth.approved_item_ids \subseteq Ids(c, "items")

RecoveryValid(c, r) ==
    LET op == Item(c, "recoveries", r) IN
    /\ {op.source_checkpoint_id, op.target_checkpoint_id} \subseteq Ids(c, "checkpoints")
    /\ op.authorization_id = None \/ Known(c, "authorizations", op.authorization_id)
    /\ op.restore_item_ids \cup op.quarantine_item_ids \cup op.revoke_item_ids \subseteq Ids(c, "items")
    /\ None \notin {op.expected_source_state_sha256, op.expected_target_state_sha256}

ManifestValid(c) ==
    /\ ManifestBound(c) /\ ManifestCovers(c)
    /\ OwnersTrusted(c, DOMAIN c.manifest.items)
    /\ \A i \in Ids(c, "items") : LET item == Item(c, "items", i) IN
           item.generation >= 0 /\ None \notin {item.source_ref_id, item.content_sha256}
    /\ ProfilesExpected(c, "items", ItemProfile)
    /\ \A x \in Ids(c, "checkpoints") : CheckpointValid(c, x)
    /\ ProfilesExpected(c, "checkpoints", CheckpointProfile)
    /\ AncestryValid(c)
    /\ \A a \in Ids(c, "authorizations") : AuthorizationValid(c, a)
    /\ \A r \in Ids(c, "recoveries") : RecoveryValid(c, r)

-----------------------------------------------------------------------------
(* derive                                                                          *)

Source(c, r) == Item(c, "checkpoints", Item(c, "recoveries", r).source_checkpoint_id)
Target(c, r) == Item(c, "checkpoints", Item(c, "recoveries", r).target_checkpoint_id)
RollbackGenerations(c, r) == MaxOf({0, Source(c, r).generation - Target(c, r).generation})

(* The earlier assessment that speaks of an item of some kind; a message or a     *)
(* credential has none.                                                           *)
Witnesses == [memory |-> "p8b", artifact |-> "p8i", task_state |-> "p8h", policy_state |-> "p8h"]
Unsafe == [p8b |-> {"upstream_memory_unsafe", "unsafe_memory_reintroduction"},
           p8i |-> {"upstream_artifact_unsafe", "unsafe_artifact_reintroduction"},
           p8h |-> {"upstream_state_unsafe", "state_rollback_unsafe"}]
UpstreamRisks(c, item) ==
    IF item.kind \notin DOMAIN Witnesses THEN {}
    ELSE LET u == Witnesses[item.kind] IN
         CASE ~HasFact(c, u, item.source_ref_id) -> {"recovery_provenance_broken"}
           [] Fact(c, u, item.source_ref_id).decision # "allow" -> Unsafe[u]
           [] OTHER -> {}

Reintroduction ==
    [message |-> "unsafe_message_reintroduction", memory |-> "unsafe_memory_reintroduction",
     artifact |-> "unsafe_artifact_reintroduction"]

(* Where the recovery starts and ends.                                            *)
CheckpointRisks(c, r) ==
    LET op == Item(c, "recoveries", r)
        source == Source(c, r)
        target == Target(c, r)
        Differs(f) == source[f] # op[f] \/ target[f] # op[f]
        now == c.request.at
        floor == IF op.tenant_id \in DOMAIN c.policy.floor THEN c.policy.floor[op.tenant_id] ELSE 0
    IN Fired([
        recovery_target_stale |->
            \/ op.expected_source_state_sha256 # source.state_sha256
            \/ op.expected_target_state_sha256 # target.state_sha256
            \/ op.issued_at_epoch < target.created_at_epoch \/ op.issued_at_epoch > now + c.policy.skew,
        item_tenant_mismatch |-> Differs("tenant_id"),
        item_session_mismatch |-> Differs("session_id"),
        item_principal_mismatch |-> Differs("original_principal_id"),
        checkpoint_untrusted |-> target.trust \in {"compromised", "quarantined"},
        resume_after_compromise |-> op.mode = "resume" /\ source.trust # "trusted",
        checkpoint_expired |-> \/ now > target.expires_at_epoch
                               \/ now - target.created_at_epoch > c.policy.max_checkpoint_age,
        checkpoint_rollback_past_floor |-> target.generation < floor,
        target_newer_than_source |-> op.mode = "rollback" /\ target.generation > source.generation,
        resume_target_mismatch |-> /\ op.mode = "resume"
                                   /\ op.source_checkpoint_id # op.target_checkpoint_id])

(* What the recovery does with the items of both.                                 *)
PartitionRisks(c, r) ==
    LET op == Item(c, "recoveries", r)
        restore == op.restore_item_ids
        quarantine == op.quarantine_item_ids
        revoke == op.revoke_item_ids
        kept == Target(c, r).item_ids
        State(i) == Item(c, "items", i).persistence_state
    IN Fired([
        recovery_provenance_broken |->
            \/ ~(restore \subseteq kept)
            \/ restore \cap (quarantine \cup revoke) # {} \/ quarantine \cap revoke # {},
        partition_incomplete |-> restore # kept,
        quarantine_bypass |->
            \/ /\ Source(c, r).trust # "trusted"
               /\ ~(Source(c, r).item_ids \ kept \subseteq quarantine \cup revoke)
            \/ \E i \in quarantine \ c.policy.non_restorable : State(i) = "active",
        revocation_bypass |-> \E i \in revoke :
            State(i) # "revoked" /\ Item(c, "items", i).kind # "credential"])

RestoreRisks(c, r, i) ==
    LET op == Item(c, "recoveries", r)
        item == Item(c, "items", i)
        target == Target(c, r)
        Taken(state) == item.persistence_state = state
    IN UpstreamRisks(c, item)
       \cup (IF i \notin c.policy.non_restorable THEN {}
             ELSE IF item.kind \in DOMAIN Reintroduction THEN {Reintroduction[item.kind]}
             ELSE {"revocation_bypass"})
       \cup Fired([
        item_tenant_mismatch |-> item.tenant_id # op.tenant_id,
        item_session_mismatch |-> item.session_id # op.session_id,
        item_principal_mismatch |-> item.original_principal_id # op.original_principal_id,
        recovery_provenance_broken |-> \/ item.generation > target.generation
                                       \/ item.created_at_epoch > target.created_at_epoch,
        item_revoked |-> Taken("revoked"), item_quarantined |-> Taken("quarantined"),
        item_superseded |-> Taken("superseded"),
        credential_resurrection |-> item.kind = "credential" /\ i \in c.policy.refresh_required])

AuthorizationRisks(c, r) ==
    LET op == Item(c, "recoveries", r)
        auths == {Item(c, "authorizations", a) : a \in {op.authorization_id} \cap Ids(c, "authorizations")}
        destructive == op.mode \in c.policy.destructive \/ op.revoke_item_ids # {}
        touched == op.restore_item_ids \cup op.quarantine_item_ids \cup op.revoke_item_ids
    IN Fired([
        destructive_rollback_unauthorized |->
            \/ auths = {} /\ (destructive \/ op.mode \in c.policy.authorization_required)
            \/ destructive /\ \E a \in auths : ~a.destructive_allowed,
        authorization_scope_mismatch |-> \E a \in auths :
            \/ op.mode \notin a.allowed_modes
            \/ \E f \in {"actor_agent_id", "original_principal_id", "tenant_id"} : a[f] # op[f],
        authorization_expired |-> \E a \in auths :
            \/ op.issued_at_epoch \notin a.issued_at_epoch..a.expires_at_epoch
            \/ c.request.at > a.expires_at_epoch,
        authorization_item_mismatch |-> \E a \in auths : ~(touched \subseteq a.approved_item_ids),
        rollback_depth_exceeded |-> \E a \in auths :
            RollbackGenerations(c, r) > a.max_rollback_generations])

Facts(c) ==
    [r \in Ids(c, "recoveries") |->
        CheckpointRisks(c, r) \cup PartitionRisks(c, r) \cup AuthorizationRisks(c, r)
        \cup UNION {RestoreRisks(c, r, i) : i \in Item(c, "recoveries", r).restore_item_ids}]

Asked(c) == RequestBound(c, {"recoveries"})

Evaluate(c) ==
    Outcome(c, Asked(c), PolicyValid(c) /\ UpstreamsValid(c) /\ ManifestValid(c), Facts,
            LAMBDA facts : Truth(facts) @@
                [target |-> [r \in DOMAIN facts |-> Item(c, "recoveries", r).target_checkpoint_id]])

-----------------------------------------------------------------------------
(* The evaluation's fixture: three trusted checkpoints and a compromised one with *)
(* three items more; a resume, a rollback and a restore to the last trusted one.  *)

Now == 60
Owned == [tenant_id |-> "tenant-A", session_id |-> "session-a", original_principal_id |-> "user-a",
          owner_id |-> "owner"]
RecoveryItem(kind, source, generation, state, age) ==
    Owned @@ [kind |-> kind, source_ref_id |-> source, content_sha256 |-> source, generation |-> generation,
              persistence_state |-> state, created_at_epoch |-> Now - age]
RecoveryCheckpoint(parent, generation, hash, items, trust, age) ==
    Owned @@ [parent_checkpoint_id |-> parent, generation |-> generation, state_sha256 |-> hash,
              item_ids |-> items, trust |-> trust, created_at_epoch |-> Now - age,
              expires_at_epoch |-> Now + 7200]
RecoveryAuthorization(mode, items, depth, destructive) ==
    Without(Owned, "session_id") @@
    [actor_agent_id |-> "recovery", allowed_modes |-> {mode}, approved_item_ids |-> items,
     max_rollback_generations |-> depth, destructive_allowed |-> destructive,
     issued_at_epoch |-> Now - 60, expires_at_epoch |-> Now + 600]
RecoveryOperation(mode, agent, source, restore, quarantine, revoke, auth) ==
    Owned @@ [mode |-> mode, actor_agent_id |-> agent, source_checkpoint_id |-> source,
              target_checkpoint_id |-> "safe_2", restore_item_ids |-> restore,
              quarantine_item_ids |-> quarantine, revoke_item_ids |-> revoke, authorization_id |-> auth,
              expected_source_state_sha256 |-> source, expected_target_state_sha256 |-> "safe_2",
              issued_at_epoch |-> Now - 15]

Kept == {"task", "memory", "artifact", "policy", "message"}
Dropped == {"rejected", "credential", "poisoned"}
RecoveryItems ==
    [task |-> RecoveryItem("task_state", "state-task", 0, "active", 600),
     memory |-> RecoveryItem("memory", "memory-current", 1, "active", 500),
     artifact |-> RecoveryItem("artifact", "artifact-config", 2, "active", 400),
     policy |-> RecoveryItem("policy_state", "state-policy", 2, "active", 390),
     message |-> RecoveryItem("message", "message-safe", 2, "active", 380),
     rejected |-> RecoveryItem("message", "message-rejected", 3, "quarantined", 220),
     credential |-> RecoveryItem("credential", "credential-stale", 3, "revoked", 210),
     poisoned |-> RecoveryItem("artifact", "artifact-poisoned", 3, "quarantined", 200)]
Checkpoints ==
    [root |-> RecoveryCheckpoint(None, 0, "root", {"task"}, "trusted", 590),
     safe_1 |-> RecoveryCheckpoint("root", 1, "safe_1", {"task", "memory"}, "trusted", 480),
     safe_2 |-> RecoveryCheckpoint("safe_1", 2, "safe_2", Kept, "trusted", 350),
     compromised |-> RecoveryCheckpoint("safe_2", 3, "compromised", Kept \cup Dropped, "compromised", 180)]
Authorizations ==
    [a_rollback |-> RecoveryAuthorization("rollback", Kept \cup Dropped, 2, TRUE),
     a_restore |-> RecoveryAuthorization("restore", Kept, 0, FALSE)]
Recoveries ==
    [resume |-> RecoveryOperation("resume", "orchestrator", "safe_2", Kept, {}, {}, None),
     rollback |-> RecoveryOperation("rollback", "recovery", "compromised", Kept, {"rejected", "poisoned"},
                                    {"credential"}, "a_rollback"),
     restore |-> RecoveryOperation("restore", "recovery", "safe_1", Kept, {}, {}, "a_restore")]
Items == [items |-> RecoveryItems, checkpoints |-> Checkpoints, authorizations |-> Authorizations,
          recoveries |-> Recoveries]

(* canonical_agent_recovery_manifest_bytes writes every field.                    *)
Canonical == AllFields(Items)

Upstreams ==
    LET Says(d) == [decision |-> d] IN
    [p8b |-> ("memory-current" :> Says("allow")),
     p8i |-> ("artifact-config" :> Says("allow") @@ "artifact-poisoned" :> Says("deny")),
     p8h |-> ("state-task" :> Says("allow") @@ "state-policy" :> Says("allow"))]
Rules ==
    [floor |-> ("tenant-A" :> 1), non_restorable |-> {"rejected", "poisoned"},
     refresh_required |-> {"credential"}, authorization_required |-> {"rollback", "restore"},
     destructive |-> {"rollback"}, max_checkpoint_age |-> 86400]

Base == Truthful(Context(Items, {"items", "checkpoints"}, Upstreams, {"recoveries"}, Rules, Canonical),
                 Evaluate)

(* Request, upstream, manifest, owner and policy cases.                           *)
DocumentEdits(c) ==
    CommonEdits(c) \cup PinEdits(c) \cup TrustEdits(c) \cup MissingFacts(c, {"p8b", "p8h"})
    \cup {[c EXCEPT !.request.at = 10000]}
    \cup FactEdits(c, {<<"p8b", "memory-current", "decision", "deny">>,
                       <<"p8i", "artifact-config", "decision", "deny">>,
                       <<"p8h", "state-task", "decision", "deny">>})
    \cup PolicyEdits(c, {<<"owners", {}>>, <<"max_age", 0>>, <<"skew", -1>>, <<"max_checkpoint_age", 0>>,
                         <<"non_restorable", {Other}>>, <<"destructive", {Other}>>})

StateEdits(c) ==
    LET cases ==
        {<<"items", "memory", "content_sha256", None>>, <<"items", "memory", "tenant_id", Other>>,
         <<"items", "memory", "persistence_state", "revoked">>,
         <<"items", "artifact", "persistence_state", "quarantined">>,
         <<"items", "message", "persistence_state", "superseded">>, <<"items", "artifact", "generation", 3>>,
         <<"checkpoints", "safe_2", "parent_checkpoint_id", Other>>,
         <<"checkpoints", "root", "parent_checkpoint_id", "safe_2">>,
         <<"checkpoints", "safe_2", "generation", 0>>, <<"checkpoints", "safe_2", "state_sha256", "unseen">>,
         <<"checkpoints", "safe_2", "trust", "compromised">>,
         <<"checkpoints", "safe_2", "item_ids", Kept \cup {Other}>>}
    IN FieldEdits(c, cases \cup {<<"checkpoints", "safe_2", "expires_at_epoch", Now - 1>>})
       \cup CoherentEdits(c, cases)

OperationEdits(c) ==
    UNION {FieldEdits(c, {
        <<"recoveries", r, "tenant_id", Other>>, <<"recoveries", r, "session_id", Other>>,
        <<"recoveries", r, "original_principal_id", Other>>,
        <<"recoveries", r, "expected_source_state_sha256", Other>>,
        <<"recoveries", r, "expected_target_state_sha256", Other>>,
        <<"recoveries", r, "restore_item_ids", Kept \ {"message"}>>,
        <<"recoveries", r, "quarantine_item_ids", {"memory"}>>}
        \cup {<<"recoveries", r, "restore_item_ids", Kept \cup {i}>> : i \in Dropped}) :
        r \in {"resume", "rollback"}}

MoveEdits(c) ==
    LET Moved(r, source, target, restore) ==
            <<"recoveries", r, [source_checkpoint_id |-> source, target_checkpoint_id |-> target,
                                expected_source_state_sha256 |-> source,
                                expected_target_state_sha256 |-> target, restore_item_ids |-> restore]>>
    IN GroupEdits(c, {
        Moved("resume", "compromised", "compromised", Kept \cup Dropped),
        Moved("resume", "safe_2", "safe_1", {"task", "memory"}),
        Moved("rollback", "compromised", "root", {"task"}),
        Moved("rollback", "safe_1", "safe_2", Kept)})
       \cup FieldEdits(c, {<<"recoveries", "rollback", "quarantine_item_ids", {"rejected"}>>,
                           <<"recoveries", "rollback", "authorization_id", None>>,
                           <<"recoveries", "restore", "authorization_id", None>>})

AuthorizationEdits(c) ==
    UNION {FieldEdits(c, {
        <<"authorizations", a, "actor_agent_id", Other>>, <<"authorizations", a, "original_principal_id", Other>>,
        <<"authorizations", a, "tenant_id", "third">>, <<"authorizations", a, "allowed_modes", {"resume"}>>,
        <<"authorizations", a, "expires_at_epoch", Now - 1>>,
        <<"authorizations", a, "approved_item_ids", Kept \ {"task"}>>}) : a \in {"a_rollback", "a_restore"}}
    \cup FieldEdits(c, {<<"authorizations", "a_rollback", "max_rollback_generations", 0>>,
                        <<"authorizations", "a_rollback", "destructive_allowed", FALSE>>})

Edits(c) ==
    DocumentEdits(c) \cup StateEdits(c) \cup OperationEdits(c) \cup MoveEdits(c) \cup AuthorizationEdits(c)
=============================================================================
