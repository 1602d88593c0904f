----------------------------- MODULE AgentMessages -----------------------------
(* Messages between agents, aegis/agentic/message_security.py (P8-G): who may say  *)
(* what to whom on which channel, under which delegation and approval, and what a  *)
(* chain of messages may turn a piece of information into.                         *)
EXTENDS Assessment

ChannelProfile ==
    {"channel_type", "allowed_sender_ids", "allowed_receiver_ids", "allowed_intents", "tenant_scope",
     "required_schema_version", "protocol_version", "allowed_capability_ids",
     "command_requires_approval", "required_approval_action_id", "max_message_age_seconds"}

PolicyValid(c) ==
    /\ c.policy.owners # {} /\ c.policy.max_age > 0 /\ c.policy.skew >= 0
    /\ c.policy.internal \cup c.policy.external # {}
    /\ DOMAIN c.policy.identities = c.policy.internal \cup c.policy.external
    /\ None \notin Range(c.policy.identities)

UpstreamsValid(c) == UpstreamsBound(c) /\ UpstreamsUntrusting(c)

ChannelValid(c, x) ==
    LET channel == Item(c, "channels", x) IN
    /\ x \in DOMAIN c.policy.expected["channels"]
    /\ \A f \in ChannelProfile : channel[f] = c.policy.expected["channels"][x][f]
    /\ {} \notin {channel.allowed_sender_ids, channel.allowed_receiver_ids, channel.allowed_intents}
    /\ channel.protocol_version > 0 /\ channel.max_message_age_seconds > 0
    /\ channel.command_requires_approval <=> (channel.required_approval_action_id # None)

MessageValid(c, m) ==
    LET message == Item(c, "messages", m) IN
    /\ Known(c, "channels", message.channel_id)
    /\ None \notin {message.sender_identity_sha256, message.payload_sha256, message.nonce}
    /\ message.parent_message_id = None \/ Known(c, "messages", message.parent_message_id)
    /\ ~message.capability_repeated

ManifestValid(c) ==
    /\ ManifestBound(c) /\ ManifestCovers(c) /\ OwnersTrusted(c, {"channels", "messages"})
    /\ \A x \in Ids(c, "channels") : ChannelValid(c, x)
    /\ \A m \in Ids(c, "messages") : MessageValid(c, m)
    /\ ~Cyclic(ParentsBy(c, "messages", "parent_message_id"))

-----------------------------------------------------------------------------
(* derive                                                                          *)

Safe(fact) == fact.decision \in {"allow", "allowed", "safe", "holds"}

Channel(c, m) == Item(c, "channels", Item(c, "messages", m).channel_id)

ChannelRisks(c, m) ==
    LET message == Item(c, "messages", m)
        channel == Channel(c, m)
    IN Fired([
        sender_identity_mismatch |->
            \/ message.sender_agent_id \notin DOMAIN c.policy.identities
            \/ message.sender_identity_sha256 # c.policy.identities[message.sender_agent_id],
        sender_unauthorized |-> message.sender_agent_id \notin channel.allowed_sender_ids,
        receiver_unauthorized |-> message.receiver_agent_id \notin channel.allowed_receiver_ids,
        intent_unauthorized |-> message.intent \notin channel.allowed_intents,
        schema_mismatch |-> \/ message.schema_version # channel.required_schema_version
                            \/ message.protocol_version > channel.protocol_version,
        protocol_downgrade |-> message.protocol_version < channel.protocol_version,
        capability_negotiation_mismatch |->
            ~(message.capability_ids \subseteq channel.allowed_capability_ids),
        tenant_mismatch |-> /\ channel.tenant_scope \notin {"shared", "system", "external"}
                            /\ message.tenant_id # channel.tenant_scope,
        external_command_escalation |->
            channel.channel_type = "external" /\ message.intent = "command"])

FreshnessRisks(c, m) ==
    LET message == Item(c, "messages", m)
        now == c.request.at
    IN Fired([
        message_future |-> message.issued_at_epoch > now + c.policy.skew,
        message_time_invalid |-> message.expires_at_epoch < message.issued_at_epoch,
        message_stale |-> \/ message.expires_at_epoch < now
                          \/ now - message.issued_at_epoch > Channel(c, m).max_message_age_seconds,
        message_replay |-> \E o \in Ids(c, "messages") \ {m} : Item(c, "messages", o).nonce = message.nonce])

(* What the earlier assessments say of the message's step, delegation, approval.  *)
PlanRisks(c, message) ==
    CASE ~HasFact(c, "p8c", message.step_id) -> {"upstream_plan_unsafe"}
      [] ~Safe(Fact(c, "p8c", message.step_id)) -> {"upstream_plan_unsafe"}
      [] Fact(c, "p8c", message.step_id).goal_id # message.goal_id -> {"goal_mismatch"}
      [] OTHER -> {}

DelegationRisks(c, message) ==
    CASE message.delegation_id = None ->
            IF message.sender_agent_id \in c.policy.internal /\ message.intent \in {"request", "command"}
            THEN {"delegation_mismatch"} ELSE {}
      [] ~HasFact(c, "p8a", message.delegation_id) -> {"upstream_delegation_unsafe"}
      [] ~Safe(Fact(c, "p8a", message.delegation_id)) -> {"upstream_delegation_unsafe"}
      [] OTHER -> LET delegation == Fact(c, "p8a", message.delegation_id) IN Fired([
            principal_mismatch |-> delegation.original_principal_id # message.original_principal_id,
            tenant_mismatch |-> delegation.tenant_id # message.tenant_id,
            capability_escalation |-> ~(message.capability_ids \subseteq delegation.capability_ids)])

ApprovalRisks(c, m) ==
    LET message == Item(c, "messages", m)
        known == HasFact(c, "p8f", message.approval_action_id)
    IN IF ~(Channel(c, m).command_requires_approval /\ message.intent = "command") THEN {}
       ELSE Fired([
        required_approval_missing |->
            ~known \/ message.approval_action_id # Channel(c, m).required_approval_action_id,
        upstream_approval_unsafe |-> known /\ ~Safe(Fact(c, "p8f", message.approval_action_id))])

(* A message continues its parent: same work, same or child delegation, in time. A *)
(* root delegation continues a message that has none: the code compares str(None). *)
Continues(c, message, parent) ==
    LET above == Fact(c, "p8a", message.delegation_id).parent_delegation_id IN
    /\ \A f \in {"original_principal_id", "tenant_id", "task_id", "goal_id"} : message[f] = parent[f]
    /\ \/ message.delegation_id = parent.delegation_id
       \/ /\ HasFact(c, "p8a", message.delegation_id)
          /\ above = parent.delegation_id
    /\ message.issued_at_epoch >= parent.issued_at_epoch
    /\ message.expires_at_epoch <= parent.expires_at_epoch

ParentRisks(c, m) ==
    LET message == Item(c, "messages", m)
        p == message.parent_message_id
        parent == Item(c, "messages", p)
    IN IF p = None THEN {}
       ELSE Fired([
        parent_chain_broken |-> parent.receiver_agent_id # message.sender_agent_id,
        provenance_discontinuity |-> ~Continues(c, message, parent),
        command_laundering |-> /\ message.intent = "command"
                               /\ \/ parent.intent = "information"
                                  \/ Channel(c, p).channel_type = "external"
                                  \/ parent.sender_agent_id \in c.policy.external])

Facts(c) ==
    [m \in Ids(c, "messages") |->
        ChannelRisks(c, m) \cup FreshnessRisks(c, m) \cup ApprovalRisks(c, m) \cup ParentRisks(c, m)
        \cup PlanRisks(c, Item(c, "messages", m)) \cup DelegationRisks(c, Item(c, "messages", m))]

Asked(c) == RequestBound(c, {"messages"})

Evaluate(c) ==
    Outcome(c, Asked(c), PolicyValid(c) /\ UpstreamsValid(c) /\ ManifestValid(c), Facts, Truth)

(* Where a message and all it came from are allowed, they are one piece of work,   *)
(* and none is sent before, or lives on after, any of those it came from.          *)
Continued(c, facts) ==
    \A m \in Ids(c, "messages") :
        LET message == Item(c, "messages", m)
            chain == AncestorsOf(ParentsBy(c, "messages", "parent_message_id"), m)
        IN chain \cap Denied(facts) = {} =>
            \A a \in chain : LET above == Item(c, "messages", a) IN
                /\ message.original_principal_id = above.original_principal_id
                /\ message.tenant_id = above.tenant_id
                /\ message.task_id = above.task_id /\ message.goal_id = above.goal_id
                /\ above.issued_at_epoch <= message.issued_at_epoch
                /\ message.expires_at_epoch <= above.expires_at_epoch

-----------------------------------------------------------------------------
(* The evaluation's fixture, with one of its three approved commands.             *)

Now == 60
MessageChannelPolicy(type, sender, receiver, intent, scope, capabilities, approval, age) ==
    [channel_type |-> type, allowed_sender_ids |-> {sender}, allowed_receiver_ids |-> {receiver},
     allowed_intents |-> {intent}, tenant_scope |-> scope, required_schema_version |-> "v1",
     protocol_version |-> 2, allowed_capability_ids |-> capabilities,
     command_requires_approval |-> approval # None, required_approval_action_id |-> approval,
     max_message_age_seconds |-> age, owner_id |-> "owner"]
Channels ==
    [c_retrieval |-> MessageChannelPolicy("direct", "orch", "retrieval", "request", "tenant-A",
                                          {"search", "retrieve"}, None, 180),
     c_root |-> MessageChannelPolicy("brokered", "orch", "broker", "request", "tenant-A", {"tool"}, None, 180),
     c_child |-> MessageChannelPolicy("brokered", "broker", "executor", "command", "tenant-A", {"tool"}, None, 150),
     c_release |-> MessageChannelPolicy("direct", "release", "deployer", "command", "shared", {"deploy"},
                                        "a_release", 120),
     c_advisory |-> MessageChannelPolicy("external", "advisor", "security", "information", "external", {},
                                         None, 90)]

AgentMessage(channel, sender, receiver, principal, tenant, task, delegation, approval, intent, capabilities, parent, age, expires) ==
    [channel_id |-> channel, sender_agent_id |-> sender, receiver_agent_id |-> receiver,
     sender_identity_sha256 |-> sender, original_principal_id |-> principal, tenant_id |-> tenant,
     task_id |-> task, goal_id |-> task, step_id |-> task, delegation_id |-> delegation,
     approval_action_id |-> approval, intent |-> intent, schema_version |-> "v1", protocol_version |-> 2,
     capability_ids |-> capabilities, capability_repeated |-> FALSE, payload_sha256 |-> channel,
     parent_message_id |-> parent, nonce |-> channel, issued_at_epoch |-> Now - age,
     expires_at_epoch |-> Now + expires, owner_id |-> "owner"]
Messages ==
    [retrieval |-> AgentMessage("c_retrieval", "orch", "retrieval", "user-a", "tenant-A", "t_retrieval",
                                "d_retrieval", None, "request", {"search", "retrieve"}, None, 30, 120),
     root |-> AgentMessage("c_root", "orch", "broker", "user-a", "tenant-A", "t_tool", "d_root", None,
                           "request", {"tool"}, None, 28, 120),
     child |-> AgentMessage("c_child", "broker", "executor", "user-a", "tenant-A", "t_tool", "d_child", None,
                            "command", {"tool"}, "root", 24, 100),
     release |-> AgentMessage("c_release", "release", "deployer", "admin", "platform", "t_release",
                              "d_release", "a_release", "command", {"deploy"}, None, 20, 80),
     advisory |-> AgentMessage("c_advisory", "advisor", "security", "advisor", "external", "t_advisory",
                               None, None, "information", {}, None, 10, 60)]
Items == [channels |-> Channels, messages |-> Messages]

(* canonical_agent_message_manifest_bytes writes every field.                     *)
Canonical == AllFields(Items)

Upstreams ==
    LET Delegation(parent, principal, tenant, capabilities) ==
            [parent_delegation_id |-> parent, original_principal_id |-> principal, tenant_id |-> tenant,
             capability_ids |-> capabilities, decision |-> "allow"]
        tasks == {"t_retrieval", "t_tool", "t_release", "t_advisory"}
    IN [p8a |-> [d_retrieval |-> Delegation(None, "user-a", "tenant-A", {"search", "retrieve"}),
                 d_root |-> Delegation(None, "user-a", "tenant-A", {"tool"}),
                 d_child |-> Delegation("d_root", "user-a", "tenant-A", {"tool"}),
                 d_release |-> Delegation(None, "admin", "platform", {"deploy"})],
        p8c |-> [t \in tasks |-> [goal_id |-> t, decision |-> "allow"]],
        p8f |-> [a_release |-> [decision |-> "allow"], a_telemetry |-> [decision |-> "allow"]]]

Rules ==
    LET internal == {"orch", "retrieval", "broker", "executor", "release", "deployer", "security"} IN
    [internal |-> internal, external |-> {"advisor"}, identities |-> [a \in internal \cup {"advisor"} |-> a]]

Base == Truthful(Context(Items, {"channels"}, Upstreams, {"messages"}, Rules, Canonical), Evaluate)

(* Request, manifest, upstream, coverage, reference and policy cases.             *)
DocumentEdits(c) ==
    CommonEdits(c) \cup PinEdits(c) \cup TrustEdits(c)
    \cup PolicyEdits(c, {<<"owners", {}>>, <<"max_age", 0>>, <<"skew", -1>>})
    \cup {[c EXCEPT !.policy.identities = Without(@, "orch")],
          [c EXCEPT !.policy.identities = ("orch" :> None) @@ @],
          [c EXCEPT !.policy.external = {}]}
ReferenceCases ==
    {<<"messages", "retrieval", "channel_id", Other>>,
     <<"messages", "retrieval", "payload_sha256", None>>,
     <<"messages", "retrieval", "sender_identity_sha256", None>>,
     <<"messages", "child", "parent_message_id", Other>>,
     <<"messages", "root", "parent_message_id", "child">>,
     <<"messages", "retrieval", "nonce", None>>}
RepeatedCases == {<<"messages", "retrieval", "capability_repeated", TRUE>>}
ReferenceEdits(c) == FieldEdits(c, ReferenceCases \cup RepeatedCases)

ChannelCases ==
    {<<"channels", "c_retrieval", "channel_type", "broadcast">>,
     <<"channels", "c_retrieval", "allowed_sender_ids", {"security"}>>,
     <<"channels", "c_retrieval", "allowed_receiver_ids", {"deployer"}>>,
     <<"channels", "c_retrieval", "allowed_intents", {"command"}>>,
     <<"channels", "c_retrieval", "tenant_scope", Other>>,
     <<"channels", "c_retrieval", "required_schema_version", "v0">>,
     <<"channels", "c_retrieval", "protocol_version", 1>>,
     <<"channels", "c_retrieval", "allowed_capability_ids", {"search"}>>,
     <<"channels", "c_release", "command_requires_approval", FALSE>>,
     <<"channels", "c_release", "max_message_age_seconds", 999>>}
OpenCases ==
    {<<"channels", "c_retrieval", "allowed_intents", {"command"}>>,
     <<"channels", "c_release", "command_requires_approval", FALSE>>,
     <<"channels", "c_retrieval", "protocol_version", 0>>}
ChannelEdits(c) == FieldEdits(c, ChannelCases) \cup CoherentEdits(c, OpenCases)

(* The coherent change lets the external channel carry commands.                  *)
LaunderEdits(c) ==
    {SetField(d, "messages", "advisory", "intent", "command") :
        d \in CoherentEdits(c, {<<"channels", "c_advisory", "allowed_intents", {"information", "command"}>>})}
    \cup GroupEdits(c, {<<"messages", "release", [parent_message_id |-> "advisory"]>>})

MessageCases(m) ==
    {<<"messages", m, "sender_identity_sha256", Other>>, <<"messages", m, "receiver_agent_id", "security">>,
     <<"messages", m, "tenant_id", "unseen">>, <<"messages", m, "original_principal_id", Other>>,
     <<"messages", m, "goal_id", Other>>, <<"messages", m, "step_id", Other>>,
     <<"messages", m, "schema_version", "v9">>, <<"messages", m, "protocol_version", 3>>,
     <<"messages", m, "intent", "approval_notice">>, <<"messages", m, "capability_ids", {"search", "deploy"}>>,
     <<"messages", m, "delegation_id", None>>,
     <<"messages", m, "expires_at_epoch", Now - 1>>, <<"messages", m, "issued_at_epoch", Now - 500>>,
     <<"messages", m, "issued_at_epoch", Now + 100>>}
SenderCases ==
    {<<"messages", "retrieval", [sender_agent_id |-> "security", sender_identity_sha256 |-> "security"]>>,
     <<"messages", "child", [sender_agent_id |-> "security", sender_identity_sha256 |-> "security"]>>,
     <<"messages", "retrieval", [issued_at_epoch |-> Now - 10, expires_at_epoch |-> Now - 20]>>,
     <<"messages", "child", [nonce |-> "c_root"]>>}
WorkCases ==
    {<<"messages", "release", "approval_action_id", None>>,
     <<"messages", "release", "approval_action_id", "a_telemetry">>,
     <<"messages", "child", "task_id", Other>>, <<"messages", "child", "delegation_id", "d_retrieval">>,
     <<"messages", "child", "issued_at_epoch", Now - 40>>,
     <<"messages", "child", "expires_at_epoch", Now + 150>>}
MessageEdits(c) ==
    (UNION {FieldEdits(c, MessageCases(m)) : m \in {"retrieval", "child"}})
    \cup GroupEdits(c, SenderCases) \cup FieldEdits(c, WorkCases)

UpstreamFactEdits(c) ==
    FactEdits(c, {<<"p8a", "d_retrieval", "decision", "deny">>, <<"p8a", "d_child", "decision", "deny">>,
                  <<"p8a", "d_child", "parent_delegation_id", None>>,
                  <<"p8c", "t_tool", "decision", "deny">>, <<"p8f", "a_release", "decision", "deny">>})

Edits(c) ==
    DocumentEdits(c) \cup ReferenceEdits(c) \cup ChannelEdits(c) \cup LaunderEdits(c) \cup MessageEdits(c)
    \cup UpstreamFactEdits(c)
=============================================================================
