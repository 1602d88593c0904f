------------------------------ MODULE AgentState ------------------------------
(* Shared state that agents change, aegis/agentic/state_machine_security.py       *)
(* (P8-H). Transitions of versioned objects are replayed in the order in which    *)
(* they commit: each is judged against the versions that the allowed ones before  *)
(* it left, and changes them only if it is allowed itself.                        *)
EXTENDS Assessment

ObjectProfile == {"object_type", "tenant_id", "version", "state_sha256"}

(* What two uses of one idempotency key must agree on.                            *)
SemanticFingerprint(t) ==
    Restrict(t, {"object_id", "message_id", "approval_action_id", "observation_id",
        "actor_agent_id", "original_principal_id", "tenant_id", "intent", "expected_version",
        "expected_state_sha256", "proposed_version", "proposed_state_sha256",
        "payload_sha256", "irreversible"})

PolicyValid(c) ==
    LET p == c.policy
        objects == p.required["objects"]
    IN /\ PolicyFormed(c)
       /\ DOMAIN p.intents = objects /\ DOMAIN p.controls = objects
       /\ p.approval_required \cup p.observation_required \cup p.lease_required
            \cup p.irreversible \subseteq objects

UpstreamsValid(c) == UpstreamsBound(c) /\ UpstreamsUntrusting(c)

ObjectValid(c, o) ==
    LET object == Item(c, "objects", o) IN
    /\ object.version >= 0 /\ object.state_sha256 # None
    /\ c.policy.intents[o] # {} /\ c.policy.controls[o] # {}

LeaseValid(c, l) ==
    LET lease == Item(c, "leases", l) IN
    /\ Known(c, "objects", lease.object_id) /\ lease.owner_agent_id # None
    /\ lease.expires_at_epoch >= lease.issued_at_epoch

TransitionValid(c, x) ==
    LET t == Item(c, "transitions", x) IN
    /\ Known(c, "objects", t.object_id) /\ t.message_id # None
    /\ None \notin {t.expected_state_sha256, t.proposed_state_sha256, t.payload_sha256}
    /\ t.idempotency_key # ""
    /\ t.lease_id = None \/ Known(c, "leases", t.lease_id)
    /\ (t.approval_bound_version = -1) = (t.approval_bound_state_sha256 = None)
    /\ t.commit_at_epoch >= t.issued_at_epoch

ManifestValid(c) ==
    /\ ManifestBound(c) /\ ManifestCovers(c)
    /\ OwnersTrusted(c, DOMAIN c.manifest.items)
    /\ ProfilesExpected(c, "objects", ObjectProfile)
    /\ \A o \in Ids(c, "objects") : ObjectValid(c, o)
    /\ \A l \in Ids(c, "leases") : LeaseValid(c, l)
    /\ \A x \in Ids(c, "transitions") : TransitionValid(c, x)

-----------------------------------------------------------------------------
(* derive                                                                          *)

(* The identifiers as they sort.                                                  *)
TransitionIds == <<"release", "task_cancel", "task_read", "telemetry", "ticket_1", "ticket_2">>
RankOf(x) == CHOOSE k \in DOMAIN TransitionIds : TransitionIds[k] = x

CommitsBefore(c, x, y) ==
    LET t == Item(c, "transitions", x)
        u == Item(c, "transitions", y)
    IN \/ t.commit_at_epoch < u.commit_at_epoch
       \/ t.commit_at_epoch = u.commit_at_epoch /\ t.issued_at_epoch < u.issued_at_epoch
       \/ /\ t.commit_at_epoch = u.commit_at_epoch /\ t.issued_at_epoch = u.issued_at_epoch
          /\ RankOf(x) < RankOf(y)
Ordered(c) == OrderedBy(Ids(c, "transitions"), LAMBDA x, y : CommitsBefore(c, x, y))

Transitions(c) == {Item(c, "transitions", x) : x \in Ids(c, "transitions")}
(* The transitions that would write the version of the object that t would.       *)
Writers(c, t) ==
    {x \in Ids(c, "transitions") : LET u == Item(c, "transitions", x) IN
        /\ u.intent # "read"
        /\ u.object_id = t.object_id /\ u.expected_version = t.expected_version}
Uses(c, observation) ==
    {x \in Ids(c, "transitions") : Item(c, "transitions", x).observation_id = observation}

Safe(c, u, id) == HasFact(c, u, id) /\ Fact(c, u, id).decision = "allow"
Irreversible(c, t) == t.irreversible \/ t.object_id \in c.policy.irreversible

(* Who asks, on whose word: message, approval, observation and lease.             *)
BoundRisks(c, t, pre) ==
    LET o == t.object_id
        message == IF Safe(c, "p8g", t.message_id) THEN {Fact(c, "p8g", t.message_id)} ELSE {}
        lease == IF t.lease_id = None THEN {} ELSE {Item(c, "leases", t.lease_id)}
        leased == o \in c.policy.lease_required
    IN Fired([
        tenant_mismatch |-> t.tenant_id # Item(c, "objects", o).tenant_id
                            \/ \E m \in message : m.tenant_id # t.tenant_id,
        intent_unauthorized |-> t.intent \notin c.policy.intents[o],
        control_mismatch |-> t.concurrency_control \notin c.policy.controls[o],
        upstream_message_unsafe |-> message = {},
        principal_mismatch |-> \E m \in message : m.sender_agent_id # t.actor_agent_id,
        upstream_approval_unsafe |->
            /\ o \in c.policy.approval_required \/ t.approval_action_id # None
            /\ ~Safe(c, "p8f", t.approval_action_id),
        approval_to_use_race |->
            /\ o \in c.policy.approval_required
            /\ \/ t.approval_bound_version # pre.versions[o]
               \/ t.approval_bound_state_sha256 # pre.hashes[o],
        upstream_observation_unsafe |->
            /\ o \in c.policy.observation_required \/ t.observation_id # None
            /\ ~Safe(c, "p8d", t.observation_id),
        duplicate_side_effect |->
            t.observation_id # None /\ Cardinality(Uses(c, t.observation_id)) > 1,
        lease_required |-> leased /\ lease = {},
        lease_object_mismatch |-> leased /\ \E l \in lease : l.object_id # o,
        lease_owner_mismatch |-> leased /\ \E l \in lease : l.owner_agent_id # t.actor_agent_id,
        lease_expired |-> leased /\ \E l \in lease :
            t.commit_at_epoch \notin l.issued_at_epoch..l.expires_at_epoch])

KeyRisks(c, t, pre) ==
    LET used == t.idempotency_key \in DOMAIN pre.seen
        same == used /\ pre.seen[t.idempotency_key] = SemanticFingerprint(t)
    IN Fired([
        duplicate_execution |-> same,
        irreversible_replay |-> same /\ Irreversible(c, t),
        idempotency_reuse_mismatch |-> used /\ ~same,
        control_mismatch |->
            t.idempotency_key = None /\ t.concurrency_control = "idempotency_key"])

(* A read keeps what it expects; a write meets the version and state it expects,  *)
(* is alone in writing it, and follows no cancellation.                           *)
VersionRisks(c, t, pre) ==
    LET o == t.object_id
        rivals == Cardinality(Writers(c, t)) > 1
        write == t.intent # "read"
        moved == t.expected_state_sha256 # pre.hashes[o]
    IN Fired([
        stale_expected_version |-> write /\ t.expected_version # pre.versions[o],
        lost_update |-> write /\ (t.expected_version < pre.versions[o] \/ rivals),
        expected_state_mismatch |-> write /\ moved,
        toctou_state_change |-> write /\ moved,
        version_non_monotonic |->
            IF write THEN t.proposed_version # t.expected_version + 1
            ELSE \/ t.proposed_version # t.expected_version
                 \/ t.proposed_state_sha256 # t.expected_state_sha256,
        concurrent_conflict |-> write /\ rivals,
        rollback_race |-> /\ write /\ rivals
                          /\ \E x \in Writers(c, t) : Item(c, "transitions", x).intent = "rollback",
        cancel_execute_race |-> write /\ o \in pre.cancelled /\ t.intent # "rollback",
        intent_unauthorized |-> write /\ t.irreversible /\ t.intent \notin {"commit", "mutate"},
        control_mismatch |-> write /\ Irreversible(c, t) /\ t.idempotency_key = None])

\* Mutant: a refused write moves the version all the same.
ReplayRefused(c, pre, x) ==
    LET t == Item(c, "transitions", x)
        o == t.object_id
        risks == BoundRisks(c, t, pre) \cup KeyRisks(c, t, pre) \cup VersionRisks(c, t, pre)
        applied == t.intent # "read"
    IN [facts |-> With(pre.facts, x, risks),
        versions |-> IF applied THEN [pre.versions EXCEPT ![o] = t.proposed_version]
                     ELSE pre.versions,
        hashes |-> IF applied THEN [pre.hashes EXCEPT ![o] = t.proposed_state_sha256]
                   ELSE pre.hashes,
        cancelled |-> CASE applied /\ t.intent = "cancel" -> pre.cancelled \cup {o}
                        [] applied /\ t.intent = "rollback" -> pre.cancelled \ {o}
                        [] OTHER -> pre.cancelled,
        seen |-> IF t.idempotency_key = None THEN pre.seen
                 ELSE pre.seen @@ (t.idempotency_key :> SemanticFingerprint(t))]

(* One transition: its key counts as used whether or not it is allowed; its       *)
(* effect only takes place if it is.                                              *)
Replay(c, pre, x) ==
    LET t == Item(c, "transitions", x)
        o == t.object_id
        risks == BoundRisks(c, t, pre) \cup KeyRisks(c, t, pre) \cup VersionRisks(c, t, pre)
        applied == risks = {} /\ t.intent # "read"
    IN [facts |-> With(pre.facts, x, risks),
        versions |-> IF applied THEN [pre.versions EXCEPT ![o] = t.proposed_version]
                     ELSE pre.versions,
        hashes |-> IF applied THEN [pre.hashes EXCEPT ![o] = t.proposed_state_sha256]
                   ELSE pre.hashes,
        cancelled |-> CASE applied /\ t.intent = "cancel" -> pre.cancelled \cup {o}
                        [] applied /\ t.intent = "rollback" -> pre.cancelled \ {o}
                        [] OTHER -> pre.cancelled,
        seen |-> IF t.idempotency_key = None THEN pre.seen
                 ELSE pre.seen @@ (t.idempotency_key :> SemanticFingerprint(t))]

Start(c) ==
    [facts |-> << >>, cancelled |-> {}, seen |-> << >>,
     versions |-> [o \in Ids(c, "objects") |-> Item(c, "objects", o).version],
     hashes |-> [o \in Ids(c, "objects") |-> Item(c, "objects", o).state_sha256]]

(* What the first n transitions leave.                                            *)
After(c, n) ==
    LET order == Ordered(c)
        left[k \in Nat] == IF k = 0 THEN Start(c) ELSE Replay(c, left[k - 1], order[k])
    IN left[n]

Derive(c) == After(c, Cardinality(Ids(c, "transitions")))

Facts(c) == Derive(c).facts

Asked(c) == RequestBound(c, {"transitions"})

Evaluate(c) ==
    Outcome(c, Asked(c), PolicyValid(c) /\ UpstreamsValid(c) /\ ManifestValid(c), Facts,
            LAMBDA facts : Truth(facts) @@ [final |-> Derive(c).versions])

(* The positions, in the order of the commits, of the allowed writes of an object. *)
WritesOf(c, facts, o) ==
    {k \in 1..Cardinality(Ids(c, "transitions")) :
        LET t == Item(c, "transitions", Ordered(c)[k]) IN
        t.object_id = o /\ t.intent # "read" /\ facts[Ordered(c)[k]] = {}}

(* The allowed writes of an object are a chain: in the order they commit, each    *)
(* starts where the one before it ended and raises the version by one.            *)
Serial(c, facts) ==
    \A o \in Ids(c, "objects") : \A k \in WritesOf(c, facts, o) :
        LET write(j) == Item(c, "transitions", Ordered(c)[j])
            before == {j \in WritesOf(c, facts, o) : j < k}
            start == Item(c, "objects", o)
        IN /\ write(k).proposed_version = write(k).expected_version + 1
           /\ write(k).expected_version =
                  IF before = {} THEN start.version ELSE write(Max(before)).proposed_version
           /\ write(k).expected_state_sha256 =
                  IF before = {} THEN start.state_sha256
                  ELSE write(Max(before)).proposed_state_sha256

-----------------------------------------------------------------------------
(* The evaluation's fixture: two writes of a ticket, an irreversible release, a   *)
(* leased change of the telemetry, a task that is read and then cancelled.        *)

StateObject(type, tenant, version, hash) ==
    [object_type |-> type, tenant_id |-> tenant, version |-> version, state_sha256 |-> hash,
     owner_id |-> "owner"]
LeaseRecord(object, agent) ==
    [object_id |-> object, owner_agent_id |-> agent, issued_at_epoch |-> 5,
     expires_at_epoch |-> 180, owner_id |-> "owner"]
StateTransition(object, message, action, observation, agent, tenant, intent, control, version, hashes, key, lease, irreversible, issued) ==
    LET approved == action # None IN
    [object_id |-> object, message_id |-> message, approval_action_id |-> action,
     observation_id |-> observation, actor_agent_id |-> agent,
     original_principal_id |-> "user-a", tenant_id |-> tenant, intent |-> intent,
     concurrency_control |-> control, expected_version |-> version,
     expected_state_sha256 |-> hashes[1],
     proposed_version |-> IF intent = "read" THEN version ELSE version + 1,
     proposed_state_sha256 |-> hashes[2], idempotency_key |-> key, lease_id |-> lease,
     approval_bound_version |-> IF approved THEN version ELSE -1,
     approval_bound_state_sha256 |-> IF approved THEN hashes[1] ELSE None,
     payload_sha256 |-> "payload", irreversible |-> irreversible,
     issued_at_epoch |-> issued, commit_at_epoch |-> issued + 1, owner_id |-> "owner"]

Objects ==
    [ticket |-> StateObject("tool_resource", "tenant-a", 10, "ticket-10"),
     release |-> StateObject("release", "platform", 42, "release-42"),
     telemetry |-> StateObject("telemetry", "platform", 7, "telemetry-7"),
     task |-> StateObject("task", "tenant-a", 3, "task-3")]
Leases == [l_telemetry |-> LeaseRecord("telemetry", "a_security")]
Items ==
    [objects |-> Objects, leases |-> Leases, transitions |-> [
        task_read |-> StateTransition("task", "g_read", None, None, "a_main", "tenant-a", "read",
            "expected_version", 3, <<"task-3", "task-3">>, None, None, FALSE, 10),
        ticket_1 |-> StateTransition("ticket", "g_ticket", "v_ticket", "o_ticket_1", "a_tool", "tenant-a",
            "mutate", "expected_version", 10, <<"ticket-10", "ticket-11">>, "k_ticket_1", None, FALSE, 20),
        ticket_2 |-> StateTransition("ticket", "g_ticket", "v_ticket", "o_ticket_2", "a_tool", "tenant-a",
            "mutate", "expected_version", 11, <<"ticket-11", "ticket-12">>, "k_ticket_2", None, FALSE, 30),
        release |-> StateTransition("release", "g_release", "v_release", "o_release", "a_release", "platform",
            "commit", "idempotency_key", 42, <<"release-42", "release-43">>, "k_release", None, TRUE, 40),
        telemetry |-> StateTransition("telemetry", "g_telemetry", "v_telemetry", "o_telemetry", "a_security",
            "platform", "mutate", "lease", 7, <<"telemetry-7", "telemetry-8">>, "k_telemetry",
            "l_telemetry", FALSE, 45),
        task_cancel |-> StateTransition("task", "g_read", None, None, "a_main", "tenant-a", "cancel",
            "expected_version", 3, <<"task-3", "task-4">>, "k_cancel", None, FALSE, 50)]]

(* canonical_agent_state_transition_manifest_bytes writes every field.            *)
Canonical == AllFields(Items)

Message(agent, tenant) == [decision |-> "allow", sender_agent_id |-> agent, tenant_id |-> tenant]
Allowed(ids) == [i \in ids |-> [decision |-> "allow"]]
Upstreams ==
    [p8d |-> Allowed({"o_ticket_1", "o_ticket_2", "o_release", "o_telemetry"}),
     p8f |-> Allowed({"v_ticket", "v_release", "v_telemetry"}),
     p8g |-> [g_read |-> Message("a_main", "tenant-a"), g_ticket |-> Message("a_tool", "tenant-a"),
              g_release |-> Message("a_release", "platform"),
              g_telemetry |-> Message("a_security", "platform")]]

Rules ==
    [intents |-> [ticket |-> {"read", "mutate", "rollback"},
                  release |-> {"read", "reserve", "commit", "rollback"},
                  telemetry |-> {"read", "mutate", "rollback"},
                  task |-> {"read", "cancel", "rollback"}],
     controls |-> [ticket |-> {"expected_version", "serializable"},
                   release |-> {"idempotency_key", "serializable"}, telemetry |-> {"lease"},
                   task |-> {"expected_version", "idempotency_key"}],
     approval_required |-> {"ticket", "release", "telemetry"},
     observation_required |-> {"ticket", "release", "telemetry"},
     lease_required |-> {"telemetry"}, irreversible |-> {"release"}]

Base == Truthful(Context(Items, {"objects"}, Upstreams, {"transitions"}, Rules, Canonical), Evaluate)

(* Single fields that do not fit the rest of the manifest or the policy.          *)
DocumentCases ==
    {<<"transitions", "ticket_2", "object_id", Other>>, <<"transitions", "ticket_2", "message_id", None>>,
     <<"transitions", "ticket_2", "expected_state_sha256", None>>,
     <<"transitions", "ticket_2", "proposed_state_sha256", None>>,
     <<"transitions", "ticket_2", "payload_sha256", None>>,
     <<"transitions", "ticket_1", "approval_bound_state_sha256", None>>,
     <<"transitions", "ticket_2", "commit_at_epoch", 5>>,
     <<"leases", "l_telemetry", "expires_at_epoch", 4>>,
     <<"objects", "ticket", "object_type", "release">>, <<"objects", "ticket", "tenant_id", "tenant-b">>,
     <<"objects", "ticket", "version", 11>>, <<"objects", "ticket", "state_sha256", Other>>}

(* Request, manifest, upstream, coverage, owner, reference and policy cases.      *)
DocumentEdits(c) ==
    CommonEdits(c) \cup PinEdits(c) \cup TrustEdits(c) \cup FieldEdits(c, DocumentCases)
    \cup PolicyEdits(c, {
        <<"owners", {}>>, <<"max_age", 0>>, <<"skew", -1>>,
        <<"intents", Without(c.policy.intents, "ticket")>>,
        <<"controls", Without(c.policy.controls, "ticket")>>,
        <<"approval_required", {Other}>>, <<"observation_required", {Other}>>,
        <<"lease_required", {Other}>>, <<"irreversible", {Other}>>})

(* Changes of several fields of a transition, as functions of the evaluation.     *)
RaceCases ==
    {<<"transitions", "ticket_2", [expected_version |-> 10, expected_state_sha256 |-> "ticket-10",
        proposed_version |-> 11, proposed_state_sha256 |-> "ticket-x"]>>,
     <<"transitions", "ticket_2", [idempotency_key |-> "k_ticket_1", payload_sha256 |-> Other]>>,
     <<"transitions", "ticket_2", [approval_bound_version |-> 10,
        approval_bound_state_sha256 |-> "ticket-10"]>>,
     <<"transitions", "task_read", [intent |-> "rollback", proposed_version |-> 4,
        proposed_state_sha256 |-> "task-back", idempotency_key |-> "k_back",
        issued_at_epoch |-> 49, commit_at_epoch |-> 51]>>,
     <<"leases", "l_telemetry", [issued_at_epoch |-> 50, expires_at_epoch |-> 160]>>}
(* A second release, the same in all but its time; a change after the task's      *)
(* cancellation, by a policy that would allow it.                                 *)
ReleaseAgain(c) == Replaced(Item(c, "transitions", "release"), [issued_at_epoch |-> 42, commit_at_epoch |-> 43])
AfterCancel ==
    [intent |-> "mutate", expected_version |-> 4, expected_state_sha256 |-> "task-4",
     proposed_version |-> 5, proposed_state_sha256 |-> "task-5", idempotency_key |-> "k_after",
     issued_at_epoch |-> 55, commit_at_epoch |-> 56]

RaceEdits(c) ==
    GroupEdits(c, RaceCases)
    \cup (IF Known(c, "transitions", "release")
          THEN GroupEdits(c, {<<"transitions", "ticket_2", ReleaseAgain(c)>>}) ELSE {})
    \cup GroupEdits([c EXCEPT !.policy.intents = With(@, "task", {"read", "cancel", "rollback", "mutate"})],
                    {<<"transitions", "task_read", AfterCancel>>})

UseCases ==
    {<<"transitions", "ticket_1", "expected_version", 9>>, <<"transitions", "ticket_2", "expected_version", 10>>,
     <<"transitions", "ticket_1", "expected_state_sha256", Other>>,
     <<"transitions", "ticket_2", "expected_state_sha256", Other>>,
     <<"transitions", "release", "expected_state_sha256", Other>>,
     <<"transitions", "ticket_1", "proposed_version", 10>>, <<"transitions", "release", "proposed_version", 44>>,
     <<"transitions", "telemetry", "lease_id", None>>, <<"leases", "l_telemetry", "expires_at_epoch", 10>>,
     <<"leases", "l_telemetry", "owner_agent_id", Other>>, <<"leases", "l_telemetry", "object_id", "ticket">>,
     <<"transitions", "release", "approval_bound_state_sha256", Other>>,
     <<"transitions", "ticket_2", "observation_id", "o_ticket_1">>,
     <<"transitions", "release", "idempotency_key", None>>,
     <<"transitions", "ticket_1", "concurrency_control", "none">>,
     <<"transitions", "task_cancel", "intent", "commit">>, <<"transitions", "ticket_1", "tenant_id", "tenant-b">>}
UseEdits(c) ==
    FieldEdits(c, UseCases) \cup FactEdits(c, {
        <<"p8g", "g_ticket", "sender_agent_id", Other>>, <<"p8g", "g_ticket", "tenant_id", Other>>,
        <<"p8g", "g_release", "decision", "deny">>, <<"p8f", "v_release", "decision", "deny">>,
        <<"p8d", "o_telemetry", "decision", "deny">>})

Edits(c) == DocumentEdits(c) \cup RaceEdits(c) \cup UseEdits(c)
=============================================================================
