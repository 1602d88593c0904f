---------------------------- MODULE AgentForensics ----------------------------
(* Provenance and forensics of an incident, aegis/agentic/incident_forensics_*.py *)
(* (P8-K). From the events that triggered an incident the analyzer derives its    *)
(* scope, every event that one of them reaches, and denies the incident unless    *)
(* everything in scope is contained, preserved, reconstructed in order, and every *)
(* agent in it comes back only afterwards, from a safe checkpoint.                *)
EXTENDS Assessment, SequencesExt

EventProfile == {"sequence", "agent_id", "original_principal_id", "tenant_id", "session_id", "kind",
                 "object_id", "parent_event_ids", "previous_event_sha256", "payload_sha256",
                 "observed_at_epoch"}
IncidentProfile == {"trigger_event_ids", "containment_action_ids", "forensic_package_id",
                    "reentry_authorization_ids", "contained_at_epoch"}

(* A digest in the hash chain of an agent: what it covers, newest first.          *)
ZERO_SHA256 == << >>
incident_event_digest(event) ==
    <<Restrict(event, DOMAIN event \ {"previous_event_sha256", "event_sha256"})>>
        \o event.previous_event_sha256
(* Digests sort the lists they cover, so the order of a reconstruction is in none. *)
reconstruction_digest(ids) == Range(ids)
forensic_package_digest(package) == Without(package, "reconstruction_event_ids")
evidence_scope_digest(c, ids) == [e \in Range(ids) |-> Item(c, "events", e).event_sha256]

PolicyValid(c) ==
    LET p == c.policy IN
    /\ PolicyFormed(c)
    /\ p.required["events"] # {} /\ p.required["incidents"] # {}
    /\ DOMAIN p.safe_checkpoint_id_by_agent = DOMAIN p.replacement_credential_sha256_by_agent
    /\ DOMAIN p.safe_checkpoint_id_by_agent = DOMAIN p.minimum_reentry_state_version_by_agent
    /\ None \notin Range(p.replacement_credential_sha256_by_agent)
    /\ p.max_package_age > 0

(* Unlike the earlier analyzers, one unsafe fact anywhere rejects the request.    *)
UpstreamsValid(c) ==
    /\ UpstreamsBound(c) /\ UpstreamsUntrusting(c)
    /\ \A u \in DOMAIN c.up : /\ DOMAIN c.up[u].facts # {}
                              /\ \A i \in DOMAIN c.up[u].facts : Fact(c, u, i).decision = "allow"

Event(c, e) == Item(c, "events", e)
EventsOf(c, agent) == {e \in Ids(c, "events") : Event(c, e).agent_id = agent}
(* The event of the same agent right before e, if there is one.                   *)
Previous(c, e) ==
    LET earlier == {x \in EventsOf(c, Event(c, e).agent_id) :
                       Event(c, x).sequence < Event(c, e).sequence}
    IN {x \in earlier : \A y \in earlier : Event(c, y).sequence <= Event(c, x).sequence}

EventChainValid(c) ==
    /\ \A e \in Ids(c, "events") : Event(c, e).sequence > 0
    /\ IsInjective([e \in Ids(c, "events") |-> Event(c, e).sequence])
    /\ \A e \in Ids(c, "events") :
           /\ Event(c, e).previous_event_sha256 =
                  IF Previous(c, e) = {} THEN ZERO_SHA256
                  ELSE Event(c, CHOOSE x \in Previous(c, e) : TRUE).event_sha256
           /\ \A x \in Event(c, e).parent_event_ids :
                  /\ Known(c, "events", x) /\ Event(c, x).sequence < Event(c, e).sequence
                  /\ Event(c, x).observed_at_epoch <= Event(c, e).observed_at_epoch

ManifestValid(c) ==
    /\ ManifestBound(c) /\ ManifestCovers(c)
    /\ OwnersTrusted(c, DOMAIN c.manifest.items)
    /\ \A e \in Ids(c, "events") : Event(c, e).event_sha256 = incident_event_digest(Event(c, e))
    /\ ProfilesExpected(c, "events", EventProfile)
    /\ ProfilesExpected(c, "incidents", IncidentProfile)
    /\ \A a \in Ids(c, "actions") : Item(c, "actions", a).evidence_digest_valid
    /\ \A p \in Ids(c, "packages") : LET t == Item(c, "packages", p).generated_at_epoch IN
           t <= c.request.at + c.policy.skew /\ c.request.at - t <= c.policy.max_package_age
    /\ EventChainValid(c)

-----------------------------------------------------------------------------
(* derive                                                                          *)

Sequenced(c, events) == OrderedBy(events, LAMBDA x, y : Event(c, x).sequence < Event(c, y).sequence)

(* The parents an event declares and the one before it of the same agent.         *)
event_parent_ids(c, e) == Event(c, e).parent_event_ids \cup Previous(c, e)

(* Everything the triggers reach: an event follows its parents in sequence, so    *)
(* one pass in that order finds it.                                               *)
derive_scope(c, triggers) ==
    Sequenced(c, FoldLeft(LAMBDA scope, e :
                              IF e \in triggers \/ event_parent_ids(c, e) \cap scope # {}
                              THEN scope \cup {e} ELSE scope,
                          {}, Sequenced(c, Ids(c, "events"))))

Scope(c, i) ==
    LET triggers == Item(c, "incidents", i).trigger_event_ids IN
    IF triggers = {} \/ ~(triggers \subseteq Ids(c, "events")) THEN << >>
    ELSE derive_scope(c, triggers)
ScopeAgents(c, i) == {Event(c, e).agent_id : e \in Range(Scope(c, i))}
Objects(c, i, kinds) ==
    {Event(c, e).object_id : e \in {e \in Range(Scope(c, i)) : Event(c, e).kind \in kinds}}

ActionsOf(c, i) ==
    {a \in Item(c, "incidents", i).containment_action_ids :
        Known(c, "actions", a) /\ Item(c, "actions", a).incident_id = i}

(* Everything in scope is contained, between the first trigger and the deadline.  *)
ContainmentRisks(c, i) ==
    LET incident == Item(c, "incidents", i)
        scope == Scope(c, i)
        actions == {Item(c, "actions", a) : a \in ActionsOf(c, i)}
        started == {Event(c, e).observed_at_epoch :
                       e \in incident.trigger_event_ids \cap Ids(c, "events")}
        Has(kind, targets) == \A t \in targets : \E a \in actions : a.kind = kind /\ a.target_id = t
        evidence == {a \in ActionsOf(c, i) : /\ Item(c, "actions", a).kind = "preserve_evidence"
                                             /\ Item(c, "actions", a).target_id = i}
        Kept(p(_)) == \A a \in evidence : p(Item(c, "actions", a))
    IN Fired([
        incident_trigger_invalid |-> scope = << >>,
        post_containment_activity |->
            \E e \in Range(scope) : Event(c, e).observed_at_epoch > incident.contained_at_epoch,
        containment_action_invalid |-> ActionsOf(c, i) # incident.containment_action_ids,
        containment_time_invalid |-> \E a \in actions :
            \/ a.issued_at_epoch > incident.contained_at_epoch
            \/ a.issued_at_epoch < (IF started = {} THEN incident.contained_at_epoch ELSE Min(started)),
        agent_not_quarantined |-> ~Has("quarantine_agent", ScopeAgents(c, i)),
        channel_not_isolated |-> ~Has("isolate_channel", Objects(c, i, {"message"})),
        state_not_frozen |-> ~Has("freeze_state", Objects(c, i, {"state_transition", "recovery"})),
        credential_not_revoked |-> ~Has("revoke_credential", Objects(c, i, {"credential_use"})),
        evidence_scope_incomplete |->
            Cardinality(evidence) # 1 \/ ~Kept(LAMBDA a : a.evidence_event_ids = scope),
        evidence_digest_mismatch |-> Cardinality(evidence) = 1
            /\ ~Kept(LAMBDA a : a.evidence_digest_sha256 = evidence_scope_digest(c, scope))])

PackageOf(c, i) ==
    {Item(c, "packages", p) :
        p \in {Item(c, "incidents", i).forensic_package_id} \cap Ids(c, "packages")}

PackageRisks(c, i) ==
    LET scope == Scope(c, i)
        packages == {p \in PackageOf(c, i) : p.incident_id = i}
    IN Fired([
        forensic_package_missing |-> packages = {},
        forensic_package_scope_mismatch |-> \E p \in packages : p.scope_event_ids # scope,
        forensic_package_hash_mismatch |-> \E p \in packages :
            p.preserved_event_sha256_by_id # evidence_scope_digest(c, scope),
        reconstruction_order_invalid |-> \E p \in packages : p.reconstruction_event_ids # scope,
        reconstruction_root_mismatch |-> \E p \in packages :
            p.root_event_ids # Item(c, "incidents", i).trigger_event_ids,
        containment_time_invalid |-> \E p \in packages :
            p.generated_at_epoch < Item(c, "incidents", i).contained_at_epoch])

(* An agent of the scope comes back once, after containment and the package.      *)
ReentryRisks(c, i) ==
    LET incident == Item(c, "incidents", i)
        listed == {r \in incident.reentry_authorization_ids :
                      Known(c, "reentries", r) /\ Item(c, "reentries", r).incident_id = i}
        agents == DOMAIN c.policy.safe_checkpoint_id_by_agent \cap ScopeAgents(c, i)
        returning == {Item(c, "reentries", r).agent_id : r \in listed}
        checked == {Item(c, "reentries", r) :
                       r \in {r \in listed : Item(c, "reentries", r).agent_id \in agents}}
        bound == Max({incident.contained_at_epoch}
                     \cup {p.generated_at_epoch : p \in PackageOf(c, i)})
    IN Fired([
        reentry_unauthorized |-> \/ listed # incident.reentry_authorization_ids
                                 \/ Cardinality(returning) # Cardinality(listed)
                                 \/ returning # agents,
        reentry_checkpoint_mismatch |-> \E r \in checked :
            r.safe_checkpoint_id # c.policy.safe_checkpoint_id_by_agent[r.agent_id],
        reentry_credential_not_rotated |-> \E r \in checked :
            r.replacement_credential_sha256 # c.policy.replacement_credential_sha256_by_agent[r.agent_id],
        reentry_state_version_stale |-> \E r \in checked :
            r.minimum_state_version < c.policy.minimum_reentry_state_version_by_agent[r.agent_id],
        reentry_package_mismatch |-> \E r \in checked :
            r.forensic_package_sha256 \notin {forensic_package_digest(p) : p \in PackageOf(c, i)},
        reentry_before_containment |-> \E r \in checked :
            \/ Min({r.issued_at_epoch, r.not_before_epoch}) < bound
            \/ r.not_before_epoch > r.expires_at_epoch,
        reentry_expired |-> \E r \in checked : r.expires_at_epoch < c.request.at])

Facts(c) ==
    [i \in Ids(c, "incidents") |-> ContainmentRisks(c, i) \cup PackageRisks(c, i) \cup ReentryRisks(c, i)]

Asked(c) == RequestBound(c, {"incidents"}) /\ c.request.at >= c.manifest.created

Reconstruction(c, i) ==
    IF \E p \in PackageOf(c, i) : p.incident_id = i THEN reconstruction_digest(Scope(c, i)) ELSE {}

(* The caller declares what is complete and the scope, not the risks.             *)
Evaluate(c) ==
    Outcome(c, Asked(c), PolicyValid(c) /\ UpstreamsValid(c) /\ ManifestValid(c), Facts,
            LAMBDA facts : [
                complete |-> DOMAIN facts \ Denied(facts),
                scope |-> [i \in DOMAIN facts |-> Scope(c, i)],
                reconstruction |-> [i \in DOMAIN facts |-> Reconstruction(c, i)],
                reentries |-> [i \in DOMAIN facts |->
                                  Item(c, "incidents", i).reentry_authorization_ids]])

-----------------------------------------------------------------------------
(* The evaluation's fixture, without the events that no condition tells apart: an *)
(* alert at the planner reaches the worker in a message, and the worker's change  *)
(* of a state reaches the planner's recovery.                                     *)

Now == 60

IncidentEvent(sequence, agent, kind, object, parents, previous) ==
    LET event == [sequence |-> sequence, agent_id |-> agent, original_principal_id |-> "user-a",
                  tenant_id |-> "tenant-A", session_id |-> "session-a", kind |-> kind,
                  object_id |-> object, parent_event_ids |-> parents,
                  previous_event_sha256 |-> previous, payload_sha256 |-> "payload",
                  event_sha256 |-> ZERO_SHA256, observed_at_epoch |-> Now - 100 + 8 * sequence,
                  owner_id |-> "owner"]
    IN [event EXCEPT !.event_sha256 = incident_event_digest(event)]

E1 == IncidentEvent(1, "planner", "alert", "indicator", {}, ZERO_SHA256)
E2 == IncidentEvent(2, "planner", "message", "channel", {"e1"}, E1.event_sha256)
E3 == IncidentEvent(3, "worker", "credential_use", "credential", {"e2"}, ZERO_SHA256)
E4 == IncidentEvent(4, "worker", "state_transition", "state", {"e3"}, E3.event_sha256)
E5 == IncidentEvent(5, "planner", "recovery", "checkpoint", {"e4"}, E2.event_sha256)
Events == [e1 |-> E1, e2 |-> E2, e3 |-> E3, e4 |-> E4, e5 |-> E5]
EventIds == <<"e1", "e2", "e3", "e4", "e5">>
Hashes == [e \in DOMAIN Events |-> Events[e].event_sha256]

ContainmentAction(kind, target, events) ==
    [incident_id |-> "incident-1", kind |-> kind, target_id |-> target, evidence_event_ids |-> events,
     evidence_digest_valid |-> TRUE,
     evidence_digest_sha256 |-> IF kind = "preserve_evidence" THEN Hashes ELSE << >>,
     issued_at_epoch |-> Now - 36, owner_id |-> "owner"]
Actions ==
    [planner |-> ContainmentAction("quarantine_agent", "planner", <<"e1", "e2", "e5">>),
     worker |-> ContainmentAction("quarantine_agent", "worker", <<"e3", "e4">>),
     channel |-> ContainmentAction("isolate_channel", "channel", <<"e2">>),
     state |-> ContainmentAction("freeze_state", "state", <<"e4">>),
     recovery |-> ContainmentAction("freeze_state", "checkpoint", <<"e5">>),
     credential |-> ContainmentAction("revoke_credential", "credential", <<"e3">>),
     evidence |-> ContainmentAction("preserve_evidence", "incident-1", EventIds)]

ForensicPackage ==
    [incident_id |-> "incident-1", scope_event_ids |-> EventIds, reconstruction_event_ids |-> EventIds,
     root_event_ids |-> {"e1"}, preserved_event_sha256_by_id |-> Hashes,
     generated_at_epoch |-> Now - 25, owner_id |-> "owner"]
ReentryAuthorization(agent, credential, issued) ==
    [incident_id |-> "incident-1", agent_id |-> agent, safe_checkpoint_id |-> "safe",
     forensic_package_sha256 |-> forensic_package_digest(ForensicPackage),
     replacement_credential_sha256 |-> credential, minimum_state_version |-> 9,
     issued_at_epoch |-> issued, not_before_epoch |-> issued, expires_at_epoch |-> Now + 600,
     owner_id |-> "owner"]
IncidentCase ==
    [trigger_event_ids |-> {"e1"}, containment_action_ids |-> DOMAIN Actions,
     forensic_package_id |-> "package-1", reentry_authorization_ids |-> {"r_planner", "r_worker"},
     contained_at_epoch |-> Now - 30, owner_id |-> "owner"]
Items ==
    [events |-> Events, actions |-> Actions, packages |-> ("package-1" :> ForensicPackage),
     reentries |-> [r_planner |-> ReentryAuthorization("planner", "rotated-p", Now - 15),
                    r_worker |-> ReentryAuthorization("worker", "rotated-w", Now - 14)],
     incidents |-> ("incident-1" :> IncidentCase)]

(* The canonical form has every field; it sorts the reconstruction.               *)
Canonical == [AllFields(Items) EXCEPT !.packages = @ \ {"reconstruction_event_ids"}]

Upstreams == [u \in {"p8g", "p8h", "p8i", "p8j"} |-> [record |-> [decision |-> "allow"]]]
Rules ==
    [safe_checkpoint_id_by_agent |-> [planner |-> "safe", worker |-> "safe"],
     replacement_credential_sha256_by_agent |-> [planner |-> "rotated-p", worker |-> "rotated-w"],
     minimum_reentry_state_version_by_agent |-> [planner |-> 9, worker |-> 9],
     max_package_age |-> 3600]

Base == Truthful(Context(Items, {"events", "incidents"}, Upstreams, {"incidents"}, Rules, Canonical),
                 Evaluate)

DocumentEdits(c) ==
    CommonEdits(c) \cup PinEdits(c) \cup TrustEdits(c) \cup MissingFacts(c, DOMAIN c.up)
    \cup {[c EXCEPT !.request.at = c.manifest.created - 10]}
    \cup FactEdits(c, {<<u, "record", "decision", "deny">> : u \in DOMAIN c.up})
    \cup PolicyEdits(c, {
        <<"owners", {}>>, <<"max_age", 0>>, <<"skew", -1>>, <<"max_package_age", 0>>,
        <<"safe_checkpoint_id_by_agent", [planner |-> "safe"]>>,
        <<"minimum_reentry_state_version_by_agent", [planner |-> 9]>>,
        <<"replacement_credential_sha256_by_agent", [planner |-> "rotated-p", worker |-> None]>>})

(* An event is changed and its digest taken anew; the digest is not taken anew    *)
(* when the chain itself is.                                                      *)
Rehashed(c, e) ==
    SetField(c, "events", e, "event_sha256", incident_event_digest(Event(c, e)))
EventEdits(c) ==
    LET cases == {<<"events", "e4", "payload_sha256", Other>>, <<"events", "e4", "tenant_id", Other>>,
                  <<"events", "e4", "original_principal_id", Other>>, <<"events", "e4", "object_id", Other>>,
                  <<"events", "e4", "parent_event_ids", {Other}>>, <<"events", "e4", "parent_event_ids", {"e5"}>>,
                  <<"events", "e4", "sequence", 3>>, <<"events", "e4", "observed_at_epoch", Now - 90>>}
    IN {Rehashed(d, "e4") : d \in {d \in FieldEdits(c, cases) \cup CoherentEdits(c, cases) :
                                      Known(d, "events", "e4")}}
       \cup FieldEdits(c, {<<"events", "e2", "previous_event_sha256", ZERO_SHA256>>})

ContainmentEdits(c) ==
    FieldEdits(c,
        {<<"actions", a, "target_id", Other>> : a \in DOMAIN Actions}
        \cup {<<"actions", a, "kind", "preserve_evidence">> : a \in DOMAIN Actions \ {"evidence"}}
        \cup {<<"actions", "evidence", "kind", "quarantine_agent">>,
              <<"actions", "worker", "issued_at_epoch", Now - 200>>,
              <<"actions", "worker", "issued_at_epoch", Now - 20>>,
              <<"actions", "worker", "evidence_digest_valid", FALSE>>,
              <<"actions", "evidence", "evidence_event_ids", Front(EventIds)>>,
              <<"actions", "evidence", "evidence_digest_sha256", << >> >>})

PackageEdits(c) ==
    FieldEdits(c,
        {<<"packages", "package-1", "incident_id", Other>>,
         <<"packages", "package-1", "scope_event_ids", Front(EventIds)>>,
         <<"packages", "package-1", "reconstruction_event_ids", <<"e1", "e3", "e2", "e4", "e5">> >>,
         <<"packages", "package-1", "root_event_ids", {"e2"}>>,
         <<"packages", "package-1", "preserved_event_sha256_by_id", [Hashes EXCEPT !["e4"] = ZERO_SHA256]>>}
        \cup {<<"packages", "package-1", "generated_at_epoch", t>> : t \in {Now - 40, Now + 100, Now - 10000}})

ReentryEdits(c) ==
    FieldEdits(c, {<<"reentries", "r_worker", t[1], t[2]>> : t \in {
        <<"incident_id", Other>>, <<"agent_id", Other>>, <<"safe_checkpoint_id", Other>>,
        <<"forensic_package_sha256", [forensic_package_digest(ForensicPackage) EXCEPT !.incident_id = Other]>>,
        <<"replacement_credential_sha256", Other>>, <<"minimum_state_version", 1>>,
        <<"issued_at_epoch", Now - 40>>, <<"not_before_epoch", Now - 40>>, <<"expires_at_epoch", Now - 1>>}})

IncidentEdits(c) ==
    LET cases == {<<"incidents", "incident-1", t[1], t[2]>> : t \in {
            <<"trigger_event_ids", {"e2"}>>, <<"containment_action_ids", DOMAIN Actions \ {"evidence"}>>,
            <<"forensic_package_id", Other>>, <<"reentry_authorization_ids", {"r_planner"}>>,
            <<"contained_at_epoch", Now - 80>>}}
    IN FieldEdits(c, cases) \cup CoherentEdits(c, cases)

Edits(c) ==
    DocumentEdits(c) \cup EventEdits(c) \cup ContainmentEdits(c) \cup PackageEdits(c)
    \cup ReentryEdits(c) \cup IncidentEdits(c)
=============================================================================
