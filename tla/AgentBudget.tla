------------------------------ MODULE AgentBudget ------------------------------
(* Execution budgets of agent runs, aegis/agentic/execution_budget_security.py    *)
(* (P8-E): envelopes form a forest by allocation, events form a forest by parent, *)
(* and every run is judged against its root envelope and all that descend from it.*)
EXTENDS Assessment, Sequences

Ceilings == {"max_model_calls", "max_tool_calls", "max_total_tokens",
    "max_cost_microusd", "max_elapsed_ms", "max_steps", "max_recursion_depth",
    "max_fanout_per_event", "max_retries_per_operation",
    "max_repeated_operation_count", "max_irreversible_actions",
    "max_irreversible_actions_per_minute"}
AdditiveCeilings == {"max_model_calls", "max_tool_calls", "max_total_tokens",
    "max_cost_microusd", "max_steps", "max_irreversible_actions"}
Scope == {"original_principal_id", "tenant_id", "goal_id"}

Weights == [
    delegated_budget_amplification |-> 120, delegated_budget_oversubscribed |-> 116,
    irreversible_rate_limit |-> 112, irreversible_count_limit |-> 108,
    cost_claim_mismatch |-> 104, cost_limit |-> 102, loop_detected |-> 100,
    retry_limit |-> 98, recursion_limit |-> 96, fanout_limit |-> 94,
    model_call_limit |-> 90, tool_call_limit |-> 88, token_limit |-> 86,
    step_limit |-> 84, elapsed_limit |-> 82, upstream_tool_observation_unsafe |-> 80,
    upstream_plan_unsafe |-> 78, upstream_delegation_unsafe |-> 76,
    identity_mismatch |-> 74, tenant_mismatch |-> 72, goal_mismatch |-> 70]

-----------------------------------------------------------------------------
ParentOf(c) ==
    [b \in {Item(c, "allocations", a).child_budget_id : a \in Ids(c, "allocations")} |->
        Item(c, "allocations", CHOOSE a \in Ids(c, "allocations") :
            Item(c, "allocations", a).child_budget_id = b).parent_budget_id]
EventParent(c) == ParentsBy(c, "events", "parent_event_id")

PolicyValid(c) ==
    /\ PolicyFormed(c)
    /\ \A k \in {"rates", "budgets", "runs", "events"} : c.policy.required[k] # {}
    /\ \A m \in c.policy.required["rates"] :
           /\ c.policy.expected["rates"][m].input_rate >= 0
           /\ c.policy.expected["rates"][m].output_rate >= 0

EventValid(c, e) ==
    LET ev == Item(c, "events", e) IN
    /\ Known(c, "runs", ev.run_id) /\ Known(c, "budgets", ev.budget_id)
    /\ LET run == Item(c, "runs", ev.run_id) IN
       /\ run.started_at_ms <= ev.started_at_ms /\ ev.started_at_ms <= ev.ended_at_ms
       /\ ev.ended_at_ms <= run.completed_at_ms
    /\ ev.attempt >= 1
    /\ ev.parent_event_id # None =>
           /\ Known(c, "events", ev.parent_event_id)
           /\ Item(c, "events", ev.parent_event_id).run_id = ev.run_id
    /\ IF ev.event_type = "model_call"
       THEN Known(c, "rates", ev.model_id) /\ ev.input_tokens >= 0 /\ ev.output_tokens >= 0
       ELSE ev.model_id = None /\ ev.input_tokens = 0 /\ ev.output_tokens = 0
    /\ ev.claimed_cost_microusd >= 0
    /\ (ev.event_type = "tool_call") = (ev.p8d_observation_id # None)

ManifestValid(c) ==
    /\ ManifestBound(c) /\ ManifestCovers(c)
    /\ OwnersTrusted(c, DOMAIN c.manifest.items)
    /\ ProfilesExpected(c, "rates", {"input_rate", "output_rate"})
    /\ ProfilesExpected(c, "budgets", Scope \cup {"delegation_id"} \cup Ceilings)
    /\ \A b \in Ids(c, "budgets") :
           /\ \A f \in Ceilings : Item(c, "budgets", b)[f] >= 0
           /\ \A f \in {"max_elapsed_ms", "max_recursion_depth", "max_fanout_per_event",
                        "max_repeated_operation_count"} : Item(c, "budgets", b)[f] > 0
    /\ \A a \in Ids(c, "allocations") :
           LET al == Item(c, "allocations", a) IN
           /\ Known(c, "budgets", al.parent_budget_id)
           /\ Known(c, "budgets", al.child_budget_id)
           /\ al.parent_budget_id # al.child_budget_id
           /\ \A b \in Ids(c, "allocations") \ {a} :
                  Item(c, "allocations", b).child_budget_id # al.child_budget_id
    /\ ~Cyclic(ParentOf(c))
    /\ \A r \in Ids(c, "runs") :
           LET run == Item(c, "runs", r) IN
           /\ Known(c, "budgets", run.root_budget_id)
           /\ run.started_at_ms <= run.completed_at_ms
           /\ run.root_budget_id \notin DOMAIN ParentOf(c)
    /\ ProfilesExpected(c, "runs", Scope \cup {"root_budget_id"})
    /\ \A e \in Ids(c, "events") : EventValid(c, e)
    /\ ~Cyclic(EventParent(c))

-----------------------------------------------------------------------------
(* derive                                                                          *)

CeilCost(tokens, rate) == (tokens * rate + 999) \div 1000
DerivedCost(c, e) ==
    LET ev == Item(c, "events", e) IN
    IF ev.event_type # "model_call" THEN 0
    ELSE LET rate == Item(c, "rates", ev.model_id) IN
         CeilCost(ev.input_tokens, rate.input_rate)
         + CeilCost(ev.output_tokens, rate.output_rate)

Allowed(c, u, id) == HasFact(c, u, id) /\ Fact(c, u, id).decision = "allow"

Descendants(c, b) == {d \in Ids(c, "budgets") : b \in AncestorsOf(ParentOf(c), d)}
ChildrenOf(c, b) == {d \in DOMAIN ParentOf(c) : ParentOf(c)[d] = b}

(* Risks of the allocations below one root envelope.                              *)
AllocationRisks(c, root) ==
    LET below == Descendants(c, root)
        budget(b) == Item(c, "budgets", b)
        made == {a \in Ids(c, "allocations") :
                     Item(c, "allocations", a).parent_budget_id \in below}
    IN Fired([
        delegated_budget_amplification |->
            \E b \in below \ {root}, f \in Ceilings : budget(b)[f] > budget(ParentOf(c)[b])[f],
        delegated_budget_oversubscribed |->
            \E b \in below, f \in AdditiveCeilings :
                /\ ChildrenOf(c, b) # {}
                /\ MapThenSumSet(LAMBDA d : budget(d)[f], ChildrenOf(c, b)) > budget(b)[f],
        upstream_delegation_unsafe |->
            \E a \in made : ~Allowed(c, "p8a", Item(c, "allocations", a).delegation_id),
        identity_mismatch |->
            \E a \in made : LET al == Item(c, "allocations", a) IN
                \/ budget(al.child_budget_id).delegation_id # al.delegation_id
                \/ /\ Allowed(c, "p8a", al.delegation_id)
                   /\ Fact(c, "p8a", al.delegation_id).delegatee_agent_id
                        # al.delegatee_agent_id])

EventRisks(c, run, e) ==
    LET ev == Item(c, "events", e)
        budget == Item(c, "budgets", ev.budget_id)
        observed == Allowed(c, "p8d", ev.p8d_observation_id)
        seen == Fact(c, "p8d", ev.p8d_observation_id)
        tool == ev.event_type = "tool_call"
        differs(f) == ev[f] # run[f] \/ budget[f] # run[f]
    IN Fired([
        identity_mismatch |->
            \/ ev.budget_id \notin Descendants(c, run.root_budget_id)
            \/ differs("original_principal_id")
            \/ ev.delegation_id # budget.delegation_id,
        tenant_mismatch |-> differs("tenant_id")
                            \/ (tool /\ observed /\ seen.tenant_id # ev.tenant_id),
        goal_mismatch |-> differs("goal_id")
                          \/ (tool /\ observed /\ seen.goal_id # ev.goal_id),
        upstream_delegation_unsafe |->
            ev.delegation_id # None /\ ~Allowed(c, "p8a", ev.delegation_id),
        upstream_plan_unsafe |-> ~Allowed(c, "p8c", ev.step_id),
        upstream_tool_observation_unsafe |-> tool /\ ~observed,
        cost_claim_mismatch |-> ev.claimed_cost_microusd # DerivedCost(c, e)])

(* Limits that count over a set of events, for the run and for every envelope.    *)
CountedRisks(c, es, budget) ==
    LET ev(e) == Item(c, "events", e)
        count(t) == Cardinality({e \in es : ev(e).event_type = t})
    IN Fired([
        model_call_limit |-> count("model_call") > budget.max_model_calls,
        tool_call_limit |-> count("tool_call") > budget.max_tool_calls,
        token_limit |-> MapThenSumSet(LAMBDA e : ev(e).input_tokens + ev(e).output_tokens, es)
                            > budget.max_total_tokens,
        cost_limit |-> MapThenSumSet(LAMBDA e : DerivedCost(c, e), es)
                            > budget.max_cost_microusd,
        step_limit |-> count("agent_step") > budget.max_steps,
        irreversible_count_limit |->
            Cardinality({e \in es : ev(e).irreversible}) > budget.max_irreversible_actions])

(* Limits of the run as a whole, against its root envelope.                        *)
ShapeRisks(c, run, es, budget) ==
    LET ev(e) == Item(c, "events", e)
        depth(e) == Cardinality(AncestorsOf(EventParent(c), e))
        fanout(e) == Cardinality({x \in DOMAIN EventParent(c) : EventParent(c)[x] = e})
        same(e) == Cardinality({x \in es : ev(x).operation_key = ev(e).operation_key})
        burst(e) == Cardinality({x \in es : /\ ev(x).irreversible
                                            /\ ev(x).started_at_ms >= ev(e).started_at_ms
                                            /\ ev(x).started_at_ms - ev(e).started_at_ms < 60000})
    IN Fired([
        elapsed_limit |-> run.completed_at_ms - run.started_at_ms > budget.max_elapsed_ms,
        recursion_limit |-> \E e \in es : depth(e) > budget.max_recursion_depth,
        fanout_limit |-> \E e \in es : fanout(e) > budget.max_fanout_per_event,
        retry_limit |-> \E e \in es : ev(e).attempt - 1 > budget.max_retries_per_operation,
        loop_detected |-> \E e \in es : same(e) > budget.max_repeated_operation_count,
        irreversible_rate_limit |-> \E e \in es :
            ev(e).irreversible /\ burst(e) > budget.max_irreversible_actions_per_minute])

RunRisks(c, r) ==
    LET run == Item(c, "runs", r)
        root == Item(c, "budgets", run.root_budget_id)
        es == {e \in Ids(c, "events") : Item(c, "events", e).run_id = r}
        within(b) == {e \in es : Item(c, "events", e).budget_id \in Descendants(c, b)}
    IN  AllocationRisks(c, run.root_budget_id)
        \cup Fired([identity_mismatch |-> root.original_principal_id # run.original_principal_id,
                    tenant_mismatch |-> root.tenant_id # run.tenant_id,
                    goal_mismatch |-> root.goal_id # run.goal_id])
        \cup UNION {EventRisks(c, run, e) : e \in es}
        \cup CountedRisks(c, es, root) \cup ShapeRisks(c, run, es, root)
        \cup UNION {CountedRisks(c, within(b), Item(c, "budgets", b)) :
                    b \in Descendants(c, run.root_budget_id)}

Facts(c) == [r \in Ids(c, "runs") |-> RunRisks(c, r)]

Asked(c) == RequestBound(c, {"runs"})
UpstreamsValid(c) == UpstreamsBound(c) /\ UpstreamsUntrusting(c)

Evaluate(c) ==
    Outcome(c, Asked(c), PolicyValid(c) /\ UpstreamsValid(c) /\ ManifestValid(c), Facts,
            LAMBDA facts : ScoredTruth(facts, LAMBDA rs : TopWeight(Weights, rs)))

(* No envelope of an allowed run has a higher ceiling than any it was carved from. *)
Attenuated(c, facts) ==
    \A r \in Ids(c, "runs") \ Denied(facts) :
        \A b \in Descendants(c, Item(c, "runs", r).root_budget_id) :
            \A a \in AncestorsOf(ParentOf(c), b), f \in Ceilings :
                Item(c, "budgets", b)[f] <= Item(c, "budgets", a)[f]

-----------------------------------------------------------------------------
(* The evaluation's release run: a root envelope, one allocation, three events.   *)

Envelope(delegation, calls, tools, tokens, cost, elapsed, steps, depth, irreversible) ==
    [original_principal_id |-> "admin", tenant_id |-> "platform", goal_id |-> "release",
     delegation_id |-> delegation, max_model_calls |-> calls, max_tool_calls |-> tools,
     max_total_tokens |-> tokens, max_cost_microusd |-> cost, max_elapsed_ms |-> elapsed,
     max_steps |-> steps, max_recursion_depth |-> depth, max_fanout_per_event |-> 2,
     max_retries_per_operation |-> 1, max_repeated_operation_count |-> 2,
     max_irreversible_actions |-> irreversible,
     max_irreversible_actions_per_minute |-> 1, owner_id |-> "owner"]

Event(parent, budget, type, delegation, model, tokens, cost, started, observation) ==
    [run_id |-> "run", parent_event_id |-> parent, budget_id |-> budget,
     event_type |-> type, operation_key |-> type, original_principal_id |-> "admin",
     tenant_id |-> "platform", goal_id |-> "release", step_id |-> "step",
     delegation_id |-> delegation, model_id |-> model, input_tokens |-> tokens[1],
     output_tokens |-> tokens[2], claimed_cost_microusd |-> cost, attempt |-> 1,
     started_at_ms |-> started, ended_at_ms |-> started + 400,
     irreversible |-> observation # None, p8d_observation_id |-> observation,
     owner_id |-> "owner"]

Items ==
    [rates |-> [release |-> [input_rate |-> 50, output_rate |-> 100,
                                     owner_id |-> "owner"]],
             budgets |-> [root |-> Envelope(None, 2, 2, 4000, 500, 30000, 4, 4, 2),
                          child |-> Envelope("deploy", 1, 1, 3000, 400, 20000, 1, 3, 1)],
             allocations |-> [alloc |-> [parent_budget_id |-> "root",
                 child_budget_id |-> "child", delegatee_agent_id |-> "executor",
                 delegation_id |-> "deploy", owner_id |-> "owner"]],
             runs |-> [run |-> [root_budget_id |-> "root",
                 original_principal_id |-> "admin", tenant_id |-> "platform",
                 goal_id |-> "release", started_at_ms |-> 0, completed_at_ms |-> 9000,
                 owner_id |-> "owner"]],
             events |->
                [plan |-> Event(None, "root", "agent_step", None, None, <<0, 0>>, 0, 200, None),
                 check |-> Event("plan", "child", "model_call", "deploy", "release",
                                 <<1500, 300>>, 105, 1000, None),
                 ship |-> Event("check", "child", "tool_call", "deploy", None, <<0, 0>>, 0,
                                2500, "observed")]]

Upstreams == [p8a |-> [deploy |-> [decision |-> "allow", delegatee_agent_id |-> "executor"]],
             p8c |-> [step |-> [decision |-> "allow"]],
             p8d |-> [observed |-> [decision |-> "allow", tenant_id |-> "platform",
                                    goal_id |-> "release"]]]

Canonical == AllFields(Items)
Base == Truthful(Context(Items, {"rates", "budgets", "runs"}, Upstreams, {"runs"}, << >>,
                         Canonical), Evaluate)

(* Request, manifest, upstream, coverage, owner and policy cases.                  *)
DocumentEdits(c) ==
    CommonEdits(c) \cup PinEdits(c) \cup TrustEdits(c)
    \cup PolicyEdits(c, {<<"owners", {}>>, <<"max_age", 0>>, <<"skew", -1>>})

(* Drift and reference cases.                                                      *)
DriftCases ==
    {<<"rates", "release", "input_rate", 51>>, <<"budgets", "root", "goal_id", Other>>,
     <<"budgets", "child", "max_cost_microusd", 999>>,
     <<"runs", "run", "tenant_id", Other>>, <<"runs", "run", "root_budget_id", Other>>,
     <<"runs", "run", "root_budget_id", "child">>, <<"runs", "run", "completed_at_ms", -1>>,
     <<"allocations", "alloc", "parent_budget_id", Other>>,
     <<"allocations", "alloc", "parent_budget_id", "child">>,
     <<"allocations", "alloc", "child_budget_id", "root">>,
     <<"events", "check", "run_id", Other>>, <<"events", "check", "budget_id", Other>>,
     <<"events", "check", "parent_event_id", Other>>,
     <<"events", "plan", "parent_event_id", "ship">>,
     <<"events", "check", "attempt", 0>>, <<"events", "check", "model_id", Other>>,
     <<"events", "check", "input_tokens", -1>>, <<"events", "plan", "event_type", "tool_call">>,
     <<"events", "ship", "event_type", "model_call">>, <<"events", "ship", "ended_at_ms", 0>>,
     <<"events", "ship", "started_at_ms", -100>>,
     <<"events", "ship", "claimed_cost_microusd", -1>>,
     <<"events", "ship", "p8d_observation_id", None>>}

InvalidCases ==
    {<<"rates", "release", "input_rate", -1>>, <<"budgets", "root", "max_elapsed_ms", 0>>,
     <<"budgets", "child", "max_retries_per_operation", -1>>}

DriftEdits(c) == FieldEdits(c, DriftCases) \cup CoherentEdits(c, InvalidCases)

(* Cases in which the documents agree and the run is denied. One input token more  *)
(* costs one unit more, for costs are rounded up; an envelope may be one unit short.*)
RunCases ==
    {<<"allocations", "alloc", "delegation_id", Other>>,
     <<"allocations", "alloc", "delegatee_agent_id", Other>>,
     <<"runs", "run", "completed_at_ms", 90000>>,
     <<"events", "check", "input_tokens", 2800>>, <<"events", "check", "input_tokens", 1501>>,
     <<"events", "check", "attempt", 3>>,
     <<"events", "check", "claimed_cost_microusd", 7>>,
     <<"events", "ship", "original_principal_id", Other>>,
     <<"events", "ship", "tenant_id", Other>>, <<"events", "ship", "goal_id", Other>>,
     <<"events", "ship", "delegation_id", Other>>, <<"events", "ship", "step_id", Other>>}

CeilingCases ==
    {<<"rates", "release", "input_rate", 200>>, <<"budgets", "child", "max_model_calls", 0>>,
     <<"budgets", "child", "max_model_calls", 3>>,
     <<"budgets", "child", "max_cost_microusd", 104>>, <<"budgets", "root", "max_steps", 0>>,
     <<"budgets", "root", "max_elapsed_ms", 1>>, <<"budgets", "root", "max_recursion_depth", 1>>,
     <<"budgets", "root", "max_irreversible_actions_per_minute", 0>>}

RunEdits(c) ==
    FieldEdits(c, RunCases) \cup CoherentEdits(c, CeilingCases)
    \cup FactEdits(c, {
        <<"p8a", "deploy", "decision", "deny">>, <<"p8a", "deploy", "delegatee_agent_id", "third">>,
        <<"p8c", "step", "decision", "deny">>, <<"p8d", "observed", "decision", "deny">>,
        <<"p8d", "observed", "tenant_id", "third">>, <<"p8d", "observed", "goal_id", "third">>})
    \cup MissingFacts(c, {"p8a", "p8c", "p8d"})
    \cup {Added(c, "events", "again", Item(c, "events", "ship")) :
             e \in {"ship"} \cap Ids(c, "events")}
    \cup {Added(c, "events", "fork", [Item(c, "events", "check") EXCEPT !.model_id = "release"]) :
             e \in {"check"} \cap Ids(c, "events")}

Edits(c) == DocumentEdits(c) \cup DriftEdits(c) \cup RunEdits(c)
=============================================================================
