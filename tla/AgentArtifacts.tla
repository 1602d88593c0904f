---------------------------- MODULE AgentArtifacts ----------------------------
(* What agents do to files, aegis/agentic/artifact_security.py (P8-I). The        *)
(* actions are replayed in the order of the manifest's list: an allowed one gives *)
(* its artifact new content and a new level of trust, a denied one changes        *)
(* nothing. The digest that pins the manifest sorts every list it covers, so it   *)
(* does not fix that order; the request must repeat it.                           *)
EXTENDS Assessment, SequencesExt

(* A path is the sequence of its parts; an absolute one starts with "/".          *)
PathReason(path) ==
    IF path = << >> THEN {"path_escape"}
    ELSE IF path[1] = "/" THEN {"absolute_path"}
    ELSE IF \E k \in DOMAIN path : path[k] \in {"", ".", "..", "\\"} THEN {"path_escape"}
    ELSE {}
Under(path, prefixes) == \E p \in prefixes : IsPrefix(p, path)

(* A link leads out of the tree when its target, taken from the link's directory, *)
(* climbs above the root on the way. << >> stands for no link.                    *)
Depths(path) ==
    FoldLeft(LAMBDA ds, part : Append(ds, Last(ds) + CASE part = ".." -> -1 [] part = "." -> 0 [] OTHER -> 1),
             <<0>>, path)
LinkEscapes(source, target) ==
    /\ target # << >>
    /\ \/ target[1] = "/" \/ "\\" \in Range(target)
       \/ \E d \in Range(Depths(Front(source) \o target)) : d < 0

WorkspaceProfile == {"tenant_id", "root_path", "allowed_write_prefixes", "allowed_execute_prefixes",
                     "build_context_prefixes"}
ArtifactProfile == {"workspace_id", "tenant_id", "relative_path", "kind", "trust", "content_sha256",
                    "executable", "symlink_target", "hardlink_target"}

PolicyValid(c) ==
    /\ PolicyFormed(c)
    /\ c.policy.max_archive_members > 0 /\ c.policy.max_archive_total_bytes > 0
    /\ DOMAIN c.policy.kinds = c.policy.required["workspaces"]
    /\ DOMAIN c.policy.operations # {}

UpstreamsValid(c) == UpstreamsBound(c) /\ UpstreamsUntrusting(c)

WorkspaceValid(c, w) ==
    LET workspace == Item(c, "workspaces", w) IN
    /\ workspace.root_path # << >> /\ workspace.root_path[1] = "/"
    /\ \A p \in workspace.allowed_write_prefixes \cup workspace.allowed_execute_prefixes
                  \cup workspace.build_context_prefixes : PathReason(p) = {}

ArtifactValid(c, a) ==
    LET artifact == Item(c, "artifacts", a)
        path == artifact.relative_path
    IN /\ Known(c, "workspaces", artifact.workspace_id) /\ artifact.content_sha256 # None
       /\ PathReason(path) = {}
       /\ artifact.tenant_id = Item(c, "workspaces", artifact.workspace_id).tenant_id
       /\ artifact.kind \in c.policy.kinds[artifact.workspace_id]
       /\ ~LinkEscapes(path, artifact.symlink_target) /\ ~LinkEscapes(path, artifact.hardlink_target)

ActionValid(c, x) ==
    LET action == Item(c, "actions", x) IN
    /\ Known(c, "artifacts", action.artifact_id)
    /\ None \notin {action.plan_step_id, action.message_id, action.expected_base_sha256,
                    action.proposed_content_sha256, action.source_request_sha256, action.patch_sha256}
    /\ action.issued_at_epoch <= c.request.at + c.policy.skew
    /\ action.source_artifact_ids \subseteq Ids(c, "artifacts")
    /\ action.proposed_kind \in DOMAIN c.policy.operations
    /\ \A m \in action.archive_members :
           m.size_bytes >= 0 /\ (m.member_type \in {"symlink", "hardlink"} => m.link_target # << >>)

ManifestValid(c) ==
    /\ ManifestBound(c) /\ ManifestCovers(c)
    /\ OwnersTrusted(c, DOMAIN c.manifest.items)
    /\ ProfilesExpected(c, "workspaces", WorkspaceProfile)
    /\ ProfilesExpected(c, "artifacts", ArtifactProfile)
    /\ \A w \in Ids(c, "workspaces") : WorkspaceValid(c, w)
    /\ \A a \in Ids(c, "artifacts") : ArtifactValid(c, a)
    /\ \A x \in Ids(c, "actions") : ActionValid(c, x)

-----------------------------------------------------------------------------
(* derive                                                                          *)

Safe(c, u, id) == HasFact(c, u, id) /\ Fact(c, u, id).decision = "allow"
Approved(c, x) == Safe(c, "p8f", Item(c, "actions", x).approval_action_id)
RequiresApproval(c, action) ==
    \/ action.proposed_kind \in c.policy.approval_required_kinds
    \/ action.operation \in {"execute", "publish"} \/ action.proposed_executable
    \/ Under(action.target_relative_path, c.policy.control_paths \cup c.policy.dependency_paths)

Unproven == {"untrusted_input", "generated"}

(* Where the action writes and what it links to.                                  *)
PathRisks(c, x) ==
    LET action == Item(c, "actions", x)
        artifact == Item(c, "artifacts", action.artifact_id)
        workspace == Item(c, "workspaces", artifact.workspace_id)
        path == action.target_relative_path
        members == action.archive_members
        Outside(paths) == Under(path, paths) /\ ~Approved(c, x)
    IN PathReason(path) \cup Fired([
        out_of_scope_write |-> PathReason(path) = {} /\ ~Under(path, workspace.allowed_write_prefixes),
        cross_tenant |-> {action.tenant_id} # {artifact.tenant_id, workspace.tenant_id},
        symlink_escape |-> LinkEscapes(path, action.proposed_symlink_target),
        hardlink_escape |-> LinkEscapes(path, action.proposed_hardlink_target),
        archive_limit_exceeded |->
            \/ Cardinality(members) > c.policy.max_archive_members
            \/ MapThenSumSet(LAMBDA m : m.size_bytes, members) > c.policy.max_archive_total_bytes,
        archive_traversal |-> \E m \in members : PathReason(m.member_path) # {},
        archive_link_escape |-> \E m \in members :
            m.member_type \in {"symlink", "hardlink"} /\ LinkEscapes(m.member_path, m.link_target),
        control_path_persistence |-> Outside(c.policy.control_paths),
        dependency_persistence |-> Outside(c.policy.dependency_paths),
        build_context_poisoning |->
            Outside(workspace.build_context_prefixes) /\ action.proposed_trust \in Unproven,
        executable_write |-> /\ action.proposed_executable
                             /\ ~Approved(c, x) \/ ~Under(path, workspace.allowed_execute_prefixes)])

(* On whose plan, approval and transition, and from which content.                *)
OriginRisks(c, x, pre) ==
    LET action == Item(c, "actions", x)
        artifact == Item(c, "artifacts", action.artifact_id)
        operation == action.operation
    IN Fired([
        kind_unauthorized |-> action.proposed_kind \notin c.policy.kinds[artifact.workspace_id],
        operation_unauthorized |-> operation \notin c.policy.operations[action.proposed_kind],
        base_digest_mismatch |-> action.expected_base_sha256 # pre.content[action.artifact_id],
        upstream_plan_unsafe |-> ~Safe(c, "p8c", action.plan_step_id),
        provenance_mismatch |-> /\ Safe(c, "p8c", action.plan_step_id)
                                /\ Fact(c, "p8c", action.plan_step_id).agent_id # action.actor_agent_id,
        upstream_state_unsafe |-> /\ operation \in c.policy.state_required_operations
                                  /\ ~Safe(c, "p8h", action.state_transition_id),
        upstream_approval_unsafe |-> RequiresApproval(c, action) /\ ~Approved(c, x),
        provenance_missing |-> /\ operation \in c.policy.provenance_required_operations
                               /\ None \in {action.actor_agent_id, action.original_principal_id},
        generated_code_laundering |->
            /\ \E s \in action.source_artifact_ids : pre.trust[s] \in Unproven
            /\ action.proposed_trust \notin Unproven,
        execution_unapproved |-> operation = "execute" /\ ~Approved(c, x)])

Replay(c, pre, x) ==
    LET action == Item(c, "actions", x)
        risks == PathRisks(c, x) \cup OriginRisks(c, x, pre)
        applied == risks = {} /\ action.operation # "execute"
    IN [facts |-> With(pre.facts, x, risks),
        content |-> IF applied THEN [pre.content EXCEPT ![action.artifact_id] = action.proposed_content_sha256]
                    ELSE pre.content,
        trust |-> IF applied THEN [pre.trust EXCEPT ![action.artifact_id] = action.proposed_trust]
                  ELSE pre.trust]

Start(c) ==
    [facts |-> << >>,
     content |-> [a \in Ids(c, "artifacts") |-> Item(c, "artifacts", a).content_sha256],
     trust |-> [a \in Ids(c, "artifacts") |-> Item(c, "artifacts", a).trust]]

(* What the first n actions of the list leave; one that was dropped from the      *)
(* manifest is not in it.                                                         *)
After(c, n) ==
    LET order == c.request.order
        left[k \in Nat] ==
            IF k = 0 THEN Start(c)
            ELSE IF Known(c, "actions", order[k]) THEN Replay(c, left[k - 1], order[k])
            ELSE left[k - 1]
    IN left[n]

Derive(c) == After(c, Len(c.request.order))

Facts(c) == Derive(c).facts

Asked(c) == RequestBound(c, {"actions"})

Evaluate(c) ==
    Outcome(c, Asked(c), PolicyValid(c) /\ UpstreamsValid(c) /\ ManifestValid(c), Facts,
            LAMBDA facts : Truth(facts) @@ [results |-> Derive(c).content])

(* The positions in the list of the allowed actions on an artifact.               *)
ActionsOn(c, facts, a) ==
    {k \in DOMAIN c.request.order : LET x == c.request.order[k] IN
        /\ Known(c, "actions", x) /\ facts[x] = {}
        /\ Item(c, "actions", x).artifact_id = a}

(* Whatever order the actions are listed in, the allowed ones of an artifact      *)
(* start from its approved content and each from what the one before it left.     *)
Serial(c, facts) ==
    \A a \in Ids(c, "artifacts") : \A k \in ActionsOn(c, facts, a) :
        LET action(j) == Item(c, "actions", c.request.order[j])
            before == {j \in ActionsOn(c, facts, a) : j < k}
            left(j) == IF action(j).operation = "execute" THEN action(j).expected_base_sha256
                       ELSE action(j).proposed_content_sha256
        IN action(k).expected_base_sha256 =
               IF before = {} THEN Item(c, "artifacts", a).content_sha256 ELSE left(Max(before))

-----------------------------------------------------------------------------
(* The evaluation's fixture, less artifacts that no condition tells apart.        *)

WorkspaceRoot(tenant, root, write, execute) ==
    [tenant_id |-> tenant, root_path |-> <<"/", root>>, allowed_write_prefixes |-> write,
     allowed_execute_prefixes |-> execute, build_context_prefixes |-> {<<"build", "context">>},
     owner_id |-> "owner"]
WorkspaceArtifact(workspace, tenant, path, kind, trust, content, executable) ==
    [workspace_id |-> workspace, tenant_id |-> tenant, relative_path |-> path, kind |-> kind,
     trust |-> trust, content_sha256 |-> content, executable |-> executable,
     symlink_target |-> << >>, hardlink_target |-> << >>, owner_id |-> "owner"]
ArchiveMember(path, type, size, target) ==
    [member_path |-> path, member_type |-> type, size_bytes |-> size, link_target |-> target]
ArtifactAction(artifact, operation, agent, tenant, step, approval, path, content, kind, trust, executable, members) ==
    [artifact_id |-> artifact, operation |-> operation, actor_agent_id |-> agent,
     original_principal_id |-> "user-a", tenant_id |-> tenant, plan_step_id |-> step,
     approval_action_id |-> approval, state_transition_id |-> step, message_id |-> "message",
     target_relative_path |-> path, expected_base_sha256 |-> content[1],
     proposed_content_sha256 |-> content[2], source_artifact_ids |-> {},
     source_request_sha256 |-> "request", patch_sha256 |-> "patch", proposed_kind |-> kind,
     proposed_trust |-> trust, proposed_executable |-> executable,
     proposed_symlink_target |-> << >>, proposed_hardlink_target |-> << >>,
     archive_members |-> members, issued_at_epoch |-> 0, owner_id |-> "owner"]

Workspaces ==
    [tenant |-> WorkspaceRoot("tenant-A", "tenant-a", {<<"src", "generated">>, <<"scratch">>},
                              {<<"src", "generated">>}),
     repo |-> WorkspaceRoot("platform", "repo",
                            {<<"pyproject.toml">>, <<"scripts">>, <<"scratch">>, <<"Dockerfile">>}, {<<"scripts">>})]
Startup == <<"scripts", "startup.sh">>
Artifacts ==
    [source |-> WorkspaceArtifact("tenant", "tenant-A", <<"src", "generated", "summary.py">>, "source",
                                  "generated", "source-v1", FALSE),
     deps |-> WorkspaceArtifact("repo", "platform", <<"pyproject.toml">>, "dependency_manifest",
                                "trusted_control", "deps-v1", FALSE),
     startup |-> WorkspaceArtifact("repo", "platform", Startup, "startup_hook", "trusted_control",
                                   "startup-v1", TRUE),
     archive |-> WorkspaceArtifact("repo", "platform", <<"incoming", "bundle.tar">>, "archive",
                                   "untrusted_input", "archive-v1", FALSE),
     build |-> WorkspaceArtifact("repo", "platform", <<"Dockerfile">>, "build_config", "trusted_control",
                                 "build-v1", FALSE)]
Actions ==
    [x_source |-> ArtifactAction("source", "modify", "coder", "tenant-A", "s_source", None,
        <<"src", "generated", "summary.py">>, <<"source-v1", "source-v2">>, "source", "generated", FALSE, {}),
     x_deps |-> ArtifactAction("deps", "modify", "release", "platform", "s_deps", "v_deps",
        <<"pyproject.toml">>, <<"deps-v1", "deps-v2">>, "dependency_manifest", "trusted_control", FALSE, {}),
     x_startup |-> ArtifactAction("startup", "modify", "security", "platform", "s_startup", "v_startup",
        Startup, <<"startup-v1", "startup-v2">>, "startup_hook", "trusted_control", TRUE, {}),
     x_archive |-> ArtifactAction("archive", "extract", "tool", "platform", "s_archive", None,
        <<"scratch", "extracted">>, <<"archive-v1", "archive-v2">>, "archive", "untrusted_input", FALSE,
        {ArchiveMember(<<"model", "config.json">>, "file", 512, << >>)}),
     x_execute |-> ArtifactAction("startup", "execute", "security", "platform", "s_execute", "v_execute",
        Startup, <<"startup-v2", "startup-v2">>, "startup_hook", "trusted_control", TRUE, {}),
     x_build |-> ArtifactAction("build", "modify", "release", "platform", "s_build", "v_build",
        <<"Dockerfile">>, <<"build-v1", "build-v2">>, "build_config", "trusted_control", FALSE, {})]
Items == [workspaces |-> Workspaces, artifacts |-> Artifacts, actions |-> Actions]
Order == <<"x_source", "x_deps", "x_startup", "x_archive", "x_execute", "x_build">>

(* The canonical form has every field; the order of the lists is not in it.       *)
Canonical == AllFields(Items)

Upstreams ==
    LET Step(agent) == [decision |-> "allow", agent_id |-> agent]
        steps == [s_source |-> Step("coder"), s_deps |-> Step("release"), s_startup |-> Step("security"),
                  s_archive |-> Step("tool"), s_execute |-> Step("security"), s_build |-> Step("release")]
    IN [p8c |-> steps, p8h |-> [s \in DOMAIN steps |-> [decision |-> "allow"]],
        p8f |-> [v \in {"v_deps", "v_startup", "v_execute", "v_build"} |-> [decision |-> "allow"]]]

Rules ==
    LET controlled == {"dependency_manifest", "startup_hook", "build_config"} IN
    [operations |-> [source |-> {"create", "modify", "delete", "execute"}, dependency_manifest |-> {"modify"},
                     startup_hook |-> {"modify", "execute"}, archive |-> {"extract", "modify"},
                     build_config |-> {"modify"}],
     kinds |-> [tenant |-> {"source", "archive"}, repo |-> {"source", "archive"} \cup controlled],
     approval_required_kinds |-> controlled,
     control_paths |-> {<<"scripts">>, <<"Dockerfile">>}, dependency_paths |-> {<<"pyproject.toml">>},
     state_required_operations |-> {"modify", "delete", "extract", "execute", "publish"},
     provenance_required_operations |-> {"create", "modify", "extract", "publish"},
     max_archive_members |-> 2, max_archive_total_bytes |-> 1000]

Base ==
    LET c == Context(Items, {"workspaces", "artifacts"}, Upstreams, {"actions"}, Rules, Canonical)
    IN Truthful([c EXCEPT !.request = With(@, "order", Order)], Evaluate)

(* Request, manifest, upstream, coverage and owner cases; the list of actions in  *)
(* another order, which the digest does not see.                                  *)
DocumentEdits(c) ==
    CommonEdits(c) \cup PinEdits(c) \cup TrustEdits(c)
    \cup {[c EXCEPT !.request.order = o] : o \in IF c.request.order # Order THEN {}
            ELSE {Reverse(Order), <<"x_startup", "x_deps", "x_source", "x_archive", "x_execute", "x_build">>}}
    \cup PolicyEdits(c, {<<"owners", {}>>, <<"max_age", 0>>, <<"skew", -1>>, <<"max_archive_members", 0>>,
        <<"max_archive_total_bytes", 0>>, <<"kinds", Without(c.policy.kinds, "repo")>>})

ProfileEdits(c) ==
    LET cases ==
        {<<"workspaces", "tenant", "tenant_id", Other>>, <<"workspaces", "tenant", "root_path", <<Other>> >>,
         <<"workspaces", "tenant", "allowed_write_prefixes", {<<".">>}>>,
         <<"workspaces", "repo", "allowed_execute_prefixes", {<<".">>}>>,
         <<"workspaces", "repo", "build_context_prefixes", {<<".">>}>>,
         <<"artifacts", "source", "tenant_id", Other>>, <<"artifacts", "source", "kind", "executable">>,
         <<"artifacts", "source", "content_sha256", "unseen">>,
         <<"artifacts", "source", "symlink_target", <<"..", "..", "..", "etc">> >>,
         <<"artifacts", "source", "hardlink_target", <<"..", "..", "..", "etc">> >>}
    IN CoherentEdits(c, cases) \cup FieldEdits(c, cases \cup
        {<<"artifacts", "source", "trust", "trusted_control">>, <<"artifacts", "source", "executable", TRUE>>,
         <<"artifacts", "source", "relative_path", <<"src", "generated", Other>> >>})

Member(c, path, type, size, target) ==
    FieldEdits(c, {<<"actions", "x_archive", "archive_members", {ArchiveMember(path, type, size, target)}>>})

ActionCases(x) ==
    {<<"actions", x, "target_relative_path", <<"..", "escape">> >>,
     <<"actions", x, "target_relative_path", <<"/", "etc">> >>,
     <<"actions", x, "target_relative_path", <<"..", "\\", "escape">> >>,
     <<"actions", x, "tenant_id", Other>>, <<"actions", x, "expected_base_sha256", Other>>,
     <<"actions", x, "actor_agent_id", Other>>}
ApprovalCases ==
    {<<"actions", x, "approval_action_id", None>> : x \in {"x_deps", "x_startup", "x_execute", "x_build"}}
DenialCases ==
    {<<u, s, "decision", "deny">> : u \in {"p8c", "p8h"}, s \in {"s_source", "s_startup"}}
    \cup {<<"p8f", "v_startup", "decision", "deny">>}
ActionEdits(c) ==
    FieldEdits(c, ApprovalCases) \cup FactEdits(c, DenialCases)
    \cup UNION {FieldEdits(c, ActionCases(x)) : x \in {"x_source", "x_startup"}}

LinkEdits(c) ==
    LET out == <<"..", "..", "..", "etc">> IN
    FieldEdits(c, {<<"actions", "x_source", "proposed_symlink_target", out>>,
                   <<"actions", "x_source", "proposed_hardlink_target", out>>,
                   <<"actions", "x_source", "proposed_kind", "dependency_manifest">>,
                   <<"actions", "x_archive", "archive_members",
                     {ArchiveMember(<<f>>, "file", 1, << >>) : f \in {"f1", "f2", "f3"}}>>})
    \cup Member(c, out, "file", 10, << >>) \cup Member(c, <<"/", "etc">>, "file", 10, << >>)
    \cup Member(c, <<"model", "link">>, "symlink", 0, out) \cup Member(c, <<"model", "link">>, "hardlink", 0, out)
    \cup Member(c, <<"huge.bin">>, "file", 2000, << >>)
    \cup GroupEdits(c, {
        <<"actions", "x_source", [source_artifact_ids |-> {"source"}, proposed_trust |-> "trusted_control"]>>,
        <<"actions", "x_build", [source_artifact_ids |-> {"archive"}, proposed_trust |-> "verified"]>>,
        <<"actions", "x_source", [target_relative_path |-> <<"build", "context", "generated.py">>]>>,
        <<"actions", "x_source", [target_relative_path |-> <<"scratch", "run.py">>,
                                  proposed_executable |-> TRUE, approval_action_id |-> "v_startup"]>>})

Edits(c) == DocumentEdits(c) \cup ProfileEdits(c) \cup ActionEdits(c) \cup LinkEdits(c)
=============================================================================
