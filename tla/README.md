# AegisDesk: a TLA+ verification of its control paths and assurance gates

AegisDesk (`aegis/`) is a help-desk agent in which a language model proposes tool
calls and deterministic code decides what may happen. Its hard logic is of two kinds.
Where one operation leaves traces in several SQLite files or plain files that no
transaction spans, a crash, a retry, a second process or a restored backup meets the
operation half way. And where a decision rests on documents that were approved,
measured or declared at another time by someone else, a gate must notice every way in
which they no longer belong together. This project models both, checks them with TLC
on small instances, and proves the main results about the state machines with TLAPS
for every value of the constants.

## 1. Inventory

### Effects: what a high-impact tool call passes through (`aegis/approvals`, `aegis/effects`)

| Component | State | Operations | What is hard, and what makes it correct |
|---|---|---|---|
| Durable approvals and workflow journal (P2-K) | approval rows with status and expiry, workflow rows | create, get, decide, resolve, consume, require_pending, complete | Two reviewers race; expiry is applied lazily and rolled back with the transaction that saw it; the process dies between decision, consumption and completion. Nobody approves their own request, and the four journals agree on the outcome. |
| Outbox and effect ledger (P2-L) | outbox rows, effect ledger in another database | enqueue, begin, execute, acknowledge, cancel | Crash between effect and acknowledgement. One effect per approval, the bound one. |
| Execution-time authorization (P2-M) | subject, resource and policy rows, denials | setters, execute, deliver | Authorization changes between approval and effect, and between effect and retry. Entitled at the moment of the effect; a denial is final. |
| Versioned and signed authorization (P2-N, P2-O) | version rows, key rows, evidence | evaluate, verify | Evidence is gathered in several transactions and used in a later one. |
| Control-plane anchor and recovery (P2-P, P2-Q) | generation and change journal in one file, authorization rows and a marker in another | initialize, prepare, apply, mark, activate, recover, fence | Four transactions over two files, several processes, any of them dying. A change is applied once, evidence accepted by the fence is current, recovery finishes what can be finished. |
| Protected checkpoint, receipts, default stack (P2-R, P2-S, P3-A) | checkpoint, receipts and witness outside; local databases that can be restored | synchronize, issue and observe receipts, start and recover the stack, deliver | Both local databases are restored and changed differently. All effects belong to one history. |

### Checkpoints of the agent (`aegis/agent/checkpoint_*`)

| Component | State | Operations | What is hard, and what makes it correct |
|---|---|---|---|
| Integrity checkpointer, confidentiality, keys (P4-A to P4-C) | rows, chain heads in an anchor file, key versions | put, put_writes, delete_thread, migrate | The anchor is replaced before the database commits. |
| Backup and restore (P4-D, P4-E) | backup packages | create, restore, roll back | A restore is several file replacements. |
| Lifecycle commands (P4-M, P4-O, P4-P) | caller's journal, provider's command rows, receipts | issue, execute, reconcile, restart | Nothing says that an interrupted operation ran. No operation runs twice, no receipt is unearned, the journal always opens. |
| Journal witness (P4-N) | a second file that attests the journal | open, verify or advance around every call | Journal and witness are not atomic, and older journals are put back. Nothing answered is forgotten or repeated; no false alarm. |

### Gates over evidence (`aegis/assurance`, `aegis/architecture`, `aegis/agentic`, `aegis/training`, `aegis/inference`)

| Component | State | Operations | What is hard, and what makes it correct |
|---|---|---|---|
| Continuous assurance (P6-A to P6-F) | the pinned corpus of cases and incident ledger, the last verdict of each gate, a finding, feedback ids seen in memory | compare releases, govern waivers, verify a corpus change, report a posture, move a finding, feed an incident back | Evidence of another release, corpus, runner or time is offered; the gate restarts; changes follow each other. An incident is fed back once, a closed finding is fixed, a green posture and an assured release pass, no change loses coverage. |
| Architecture analyzers (P7-A to P7-I) | none; nine pure analyses, each pinned to earlier ones | evaluate | Bounded walks, conditions spread over several documents. Nothing but the approved inventory passes; one reason hides no other. |
| Agent analyzers (P8-A to P8-L) | none; twelve analyses of delegation, memory, plans, observations, budgets, approvals, messages, state transitions, artifacts, recovery, incidents, and the phase's exit gate | evaluate | Chains and replays: what a refused parent passes on, which of two writers won. Refusal is inherited; allowed effects are serial. |
| Training analyzers (P9-C to P9-I), inference analyzers (P10-F to P10-I) | none; chains of digests over ordered records | evaluate | Lost, repeated or reordered records whose digests were recomputed; claims that each cover several conditions. |

### The rest

The agent runner and its in-memory review path, execution budgets, detection pipeline,
incidents, serving telemetry, the model supply chain (privacy ledger, registry cache,
keys) and the platform controls (identity broker, key and secret rotation, limiter)
keep state and are planned, as are the analyzers P9-A, P9-B and P10-A to P10-E.
Retrieval, browser, network and artifact checks, the tool gateway, telemetry
formatting, fixtures, registries, HTTP wiring, labs and the vulnerable baselines hold
no state that a model would tell us more about. `PROJECT.json` lists every component
with its sources and its status, and every hazard with the line where it bites.

### How the parts interact

`AgentRunner.review_and_resume` drives the approval store, the workflow journal, the
outbox worker and the execution-time authorizer in sequence. In the default stack the
authorizer's rows belong to the control plane: a change goes through the P2-Q
coordinator, then the P2-R checkpoint is synchronized, and every delivery reads the
generation, the versions and the rows, and passes the receipt fence twice. Lifecycle
commands share only the checkpoint store with the agent, whose saves interfere with
them. The gates over evidence call nothing; a gate's assessment has a digest, and the
next gate's policy pins it. In the first two groups shared state is a database row or
a file; there are no messages. What a
process has read before is in its local variables, so every model keeps a `pc` and a
`job` (or `call`) per process, and one action per transaction or file write.

## 2. Modules

| Module | Models | Composes or is refined by |
|---|---|---|
| `AuthorizationState` | authorization, version and key rows and the mutations on them | extended by the next three |
| `FencedChange` | abstract: a change is one atomic step between closing and opening the fence | refined by `ControlPlane` |
| `ControlPlane` | `control_plane_recovery.py`, `rollback_anchor.py` | |
| `GovernedHistory` | abstract: one growing history; effects are entitled by it | refined by `HighImpactChain` |
| `HighImpactChain` | `protected_checkpoint.py`, `checkpoint_receipt_boundary.py`, `receipt_witness.py`, `default_high_impact.py`, `signed_authorization.py` | takes local changes at the grain that `ControlPlane` shows to be right |
| `ExecutionAuthorization` | the rows and `_authorization_reason` of `revalidation.py` | extended by `DurableReview` |
| `ReviewedEffect` | abstract: request, decision, consumption, one entitled effect or none | refined by `DurableReview` |
| `DurableReview` | `approvals/durable.py`, `effects/durable.py`, `revalidation.py`, `_review_and_resume_durable` of `graph.py` | composes the four stores with the call that drives them |
| `LifecycleCommands` | the P4-P coordinator, provider and receipts over the P4-M journal and the external lifecycle operations | composes four stores |
| `AnsweredLedger` | abstract: one ledger of commands that only grows; answers come from it, and an answered command is not invoked | refined by `WitnessedJournal` |
| `WitnessedJournal` | `checkpoint_lifecycle_journal_witness.py` over the P4-M journal | takes the lifecycle operation as one step |
| `AssuranceCycle` | the six gates of `aegis/assurance` | composes them: what one accepts is pinned for the others |
| `Assessment` | what the analyzers share: binding of policy, manifest, upstream assessments and request, the outcome, and the ways in which the evaluations under `evals/` change documents | extended by all that follow |
| `AgentDelegation`, `AgentMemory`, `AgentPlan`, `AgentReview` (observations and approvals), `AgentBudget`, `AgentMessages`, `AgentState`, `AgentArtifacts`, `AgentRecovery`, `AgentForensics` | P8-A to P8-K | |
| `PhaseExit` | the exit gates P8-L and P9-I | |
| `ArchitecturePaths`, `DataPaths`, `ArchitectureTrust`, `ArchitectureContinuity` | P7-A and B; C and D; E, H and I; F and G | |
| `InferenceServing`, `InferenceFailover` | P10-F and G; H and I | the second extends the first |
| `TrainingRun`, `TrainingData` | P9-D, E and F; C, G and H | extend `InferenceServing` for records in order and claims |
| `MCAnalyzers` | the documents of one analyzer drift, are approved, are declared | composes every analyzer with its evaluation |
| `Replays` | no code: what starts somewhere and is changed step by step | its lemmas are instantiated for the journal's mutations, the transitions of an object, the actions on artifacts, and the walk up a chain |

`MC...` modules give the constants their values (`WitnessedJournal` needs none: its cfg
does); `...Proofs` modules hold theorems.
Operators marked `Mutant` next to a definition are variants with a plausible bug. They
are used by no specification; `PROJECT.json` pairs each with the property that finds it.

### How state and actions correspond to the code

*ControlPlane.* `anchorGen` and `journal` are the anchor file, `exec` and `auth` the
execution file; `NULL` columns are `NoChange` and `NoMutation`. `Prepare`,
`ApplyExecution`, `MarkApplied` and `Activate` are the four transactions of `commit`;
`RecoverPending` and `RecoverInspect` are the two reads of `recover`, after which it
joins the same steps. A replica gathers evidence with `ReadGeneration`, `ReadVersions`
and `ReadAuthorization` and uses it with `UseEvidence` under the fence. A mutation can
be one that raises when applied (a subject without a row, a key epoch that does not
grow), because `prepare` does not look.

*DurableReview.* A session is one call of `review_and_resume`. `Loaded(a)` is a row as
an operation sees it: an overdue approval reads as expired although the stored status
may lag, since the update is rolled back when the operation raises. `overdue` replaces
the clock, so an approval may expire at any moment. `ChangeAuthorization` covers every
setter. `delivery_attempts`, which nothing reads, is left out.

*HighImpactChain.* A journal head is a hash chain, modelled by the sequence of changes;
a receipt hashes its predecessor and is the sequence of heads. The steps of the fence
are atomic, as the local anchor lock is held; the crash between persisting a receipt
and witnessing it is a branch of `Crash`. `Restore` brings back the journal, the rows
and the ledger together, between deliveries. A decision whose age ran out is a
nondeterministic denial.

*LifecycleCommands.* Contents of a store are the sequence of events that made it;
ciphertext is randomized, so a fingerprint is the contents. `Torn` is how far a killed
operation can have come; `Busy` is a journal transaction that gives up on a locked
database. `Put` is atomic under the saver's lock, except that a crash can leave the
row without the anchor.

*WitnessedJournal.* An attestation is a copy of the journal, and a row's position is
its fence. Every call verifies or advances the witness, acts, and advances it again
before it answers; an error in between skips that. `RestoreJournal` puts an older
copy back while no call runs. Calls that the witness rejects change nothing.

*AssuranceCycle.* A gate of phase 6 is a pure evaluation against pins in its policy. The
pins are the state here: `corpus` and `ledger` are the documents every policy pins, and
the assumption that turns the gates into a system is that an accepted successor is
pinned next (`Adopt`, and the end of `Feedback`). A digest is the document it digests.
`Observe` and `Retest` are test runners: a trusted one reports what the release really
does (`Misses`), possibly for some of the cases only; another one reports what is
wanted. The gates are offered any of these, at any later time. The registry of
invariants that P6-B wants is determined by corpus and policy and is not a variable.
`Restart` empties `seen`, which is all the gate keeps in memory. `fed` counts accepted
feedback and is read by no gate.

*Assessment and the analyzers.* A context is the set of documents an analyzer is given.
`PolicyValid`, `UpstreamsValid`, `ManifestValid` and `Asked` are the validations, in the
terms of the fields the code compares; `Facts` gives every item the set of its risks;
`Outcome` is `evaluate`: rejected, or derived and then compared with the caller's
declaration. `Base` is the fixture of the analyzer's evaluation, reduced to the items its
conditions tell apart, and `Edits` are the changes that evaluation makes, each as one
value of one field or a small group of fields. P8-E has two more, at the boundary its
evaluation does not reach: one input token more, which costs a whole unit because costs
are rounded up, and a cost ceiling one unit too low. Where an evaluation leaves the policy
alone (P9-C to P9-G, P10-I), `PolicyEdits` break the conditions of `_validate_policy`, the
lines `PROJECT.json` gives for them. `Rules` are the values the fixture gives the fields
of the policy; switches that no case of the evaluation turns off (P10-G's
`require_backpressure_observed` and `require_queue_drained`) are on. Lists whose order no condition looks at are
sets. In phases 9 and 10 records are sequences, because chains and sequence numbers are
compared, and the facts are the claims of the assessment with the risks that refute each.
A digest is the canonical form it digests, restricted to the fields that the code puts
into it, so a field outside the digest can drift without a mismatch. A goal of a plan
rests on its steps and mutations, which have their facts under their kind and identifier.
In `PROJECT.json` the entry of an analyzer's main definitions (`Facts`, `Derive`,
`ManifestValid` and the like) also stands for the operators they are split into.

*Replays.* `State!After(c, n)` and `Artifacts!After(c, n)` are what the first n
transitions or actions leave; `Derive` is all of them. `Serial` is stated by position in
that order: the allowed write before, or the manifest's object if there is none, left
the version and state that a write starts from.

## 3. Runs

Every passing run completes its state space. Deadlock is checked except in `analyzers`
and `assurance_cycle`, where a behaviour ends when the changes, versions and times are used up.

| Run | Bounds | Shows |
|---|---|---|
| `control_plane` | 2 processes (one may be killed), 1 replica, 2 changes out of 4 mutations, two of which can be inapplicable | recognizable crash states, current evidence, replay of the journal gives the rows, nothing goes back, mutations applied once, refinement of `FencedChange`; every change that can be finished is finished |
| `durable_review` | 1 access request, 2 racing sessions, all reviewers, authorization changes, expiry | outcomes agree, one bound effect, truthful outbox, entitlement at the effect, refinement of `ReviewedEffect` |
| `durable_review_recovery` | a password reset, 2 tenants, one session that is never killed | a consumed approval is settled while its reviewer retries |
| `high_impact_restore` | 2 deliveries of 1 record, a revocation and its reversal (3 generations), 1 restore | one history, witness follows the checkpoint, the receipt fence implies the checkpoint fence, an outbox row is settled once and as completed only after its effect, effects refine `GovernedHistory`; the checkpoint converges unless the restore forked the journal |
| `high_impact_stranded` (violation) | | a retry cancels the outbox row of an effect that exists |
| `high_impact_receipts` (violation) | | two changes without a delivery in between leave a gap in the receipts for ever |
| `lifecycle_commands` | a migration, a snapshot and a restore, one slot, 2 events | no operation runs twice, receipts are earned, records agree and only move forward, the journal opens |
| `lifecycle_settles` | a migration and a snapshot, up to 3 changes of the store | an interrupted command with usable evidence is settled |
| `lifecycle_stale_fence` (violation) | | reconcile carries out a command whose fence is stale |
| `witnessed_journal` | a migration and a restore, 2 events, 1 journal copy, put back once | nothing answered is lost or repeated; no false alarm without a rollback; refinement of `AnsweredLedger` |
| `assurance_cycle` | 3 case ids, 5 definitions, 2 releases with a weakness each, 1 incident with two signals, 2 controls, corpus versions and times up to 3 | an incident is fed back once across restarts, closing takes a fix, green and assured are earned, corpus changes keep coverage |
| `analyzers` | 32 analyzers on their fixtures; for 22 every pair of changes, for the 10 with most changes every single one; every change may be approved, and every outcome truthfully declared | only the unchanged documents pass, refusal is inherited and sticks, nothing is gained along a chain of handoffs, allowed effects are serial |

**Why the bounds are enough.** The interesting cases need two of something: two
changes to have a stale one, two processes to race, two deliveries of one record, two
commands to have a stale fence, one restore to fork a history. Two changes in
`control_plane` reach every pair of statuses and a stalled process that wakes up after
a later change is active; with three changes the liveness check no longer ends in
reasonable time, and the theorems below cover that case. Three generations let a
restored journal reach the checkpoint's generation number again along another path.
In `assurance_cycle` releases, findings and incidents use the corpus and not each other's
state, so a behaviour of `MCAssuranceCycle` follows one of them, next to one reviewed
change of the corpus or, for incidents, to every change; the theorems cover the product.
In `analyzers` a pair of changes is what it takes for one document to be made to agree
with another; the evaluations themselves make one change at a time, mostly.
`DriftNeverPasses` also says that the unchanged fixture passes, so no validation is
vacuous. The fixtures bound it: changes other than the evaluation's (and the two of P8-E)
are not tried. `DenialSticks` is about the steps that leave the manifest as it is; a
change of the manifest may take a reason for a denial away.
Chains of delegations, envelopes and messages have at most two links there;
`NothingGained` for longer ones is what `NothingGainedCorrect` is for.

**Expected violations.** Each states a sentence of the repository's own documentation
and is quoted in `PROJECT.json` under `findings`. `high_impact_stranded`: a retry must
not "strand that already-recorded effect"; the P2-M path alone keeps this
(`OutboxTruthful`). `high_impact_receipts`: restarts "preserve one receipt chain".
`lifecycle_stale_fence`: a coordinator "must reject stale commands". Two more sentences
are stated and not in a run. `RecoveryConverges` (`ControlPlane`): recovery "moves a
recognized partial change forward", which a journalled change that cannot be applied
prevents for ever; `CompletableConverges` is what holds. `IncidentsRemembered`
(`AssuranceCycle`): a known incident "cannot be silently forgotten merely by changing
which cases are present", which holds when an incident is fed back and not after a later
change of the corpus, because P6-C does not look at the ledger; the document limits
itself to evidence-level continuity. Each is violated when it is added to the cfg of the
component's run.

**Fairness.** `control_plane`: a `Reliable` process finishes the steps it has begun
(weak) and keeps calling `recover()` (strong, as the anchor is locked in between),
which is what the start of every process does. `durable_review_recovery`: a session
that is never killed takes its steps, and its reviewer repeats the call until the
workflow is settled; the code leaves that retry to the client. `high_impact_restore`:
some process applies, activates and synchronizes, which each start of the stack does.
`lifecycle_settles`: the coordinator reopens after a crash, takes its steps and is
asked again to reconcile each open command, and crashes and locked databases end at
some time. Without the last, no retry protocol settles anything.

## 4. Proofs

Theorems hold for any number of processes, records, changes and commands, with the
named `ASSUME`s only: `NULL`-like constants differ from the values they stand beside,
functions have their types. Each module proves `Spec => []Inv` from an inductive
invariant, one step per action. `EarnedCorrect` and the other safety theorems of
`LifecycleCommandsProofs` add the hypothesis that there is one coordinator.

*Replays.* Replays and walks are recursive functions. That such a function exists, and
that one more change is one more step of it (`ReplayStep`), is proved once: partial
replays agree and there is one of any length. The library's induction theorems take an
operator as a parameter, which the provers cannot instantiate; so induction is done by
the least counterexample (`LeastNat`), and what is replayed is a parameter of the
module: `Start` and `Apply`. `ControlPlaneProofs` and `HighImpactChainProofs` instantiate
it with the initial rows and `Mutate`, `AnalyzerProofs` with the objects of a manifest and
their transitions, with the artifacts and the actions on them, and with a node and the
parents of what has been found. `ReplaySame`: a replay looks at no step beyond those
it replays.

*ControlPlaneProofs.* `Invariance` strengthens `JournalChain` and `Recognizable` with
what each process knows at each label: the change it works on is bound to the row it
read, and at `activate` that row is applied or beyond. That is needed because a
process stalled in the middle acts on what it read long ago. From it: `TypeCorrect`,
`ChainCorrect`, `AlwaysRecognizable`, `EvidenceIsCurrent`, `ForwardCorrect`,
`AppliedOnceCorrect`, and `Refinement` (every step is a step of `FencedChange` or
leaves its variables alone). `JournalReplaysCorrect`: the rows are the replay of the
journal up to the executed generation, or up to the change that the marker names. A step
either leaves the rows and all that was replayed alone, or applies the change that comes
next, and is `ReplayStep`.

*DurableReviewProofs.* The invariant relates, per approval, the status of the approval,
workflow, outbox and ledger rows to the label of every session working on it.
`DecisionsEligible`, `OutcomesAgree`, `EffectOnce`, `OutboxCorrect`, `EffectsEntitled`,
and `Refinement` to `ReviewedEffect`, through the loaded status, which makes the
rolled-back expiry invisible.

*HighImpactChainProofs.* The invariant says that the receipts are the prefixes of the
checkpoint, the witness a prefix of the receipts, and all effects within the
checkpoint. `HistoryCorrect`, `WitnessCorrect`, `FencesCorrect`, `CompletedCorrect`,
`EffectsCorrect`. `RowSettledCorrect`: a delivery at label `ack` has its effect recorded
(`SessionFacts`), and no restore takes an effect back, so whichever of several deliveries
settles the outbox row settles it truthfully. `RowsCorrect`: the local rows are the replay of the local journal,
through restores, because what a restore brings back was once local; and from that
`GovernedCorrect`, the refinement of `GovernedHistory`, whose entitlement replays the
history and not the rows.

*LifecycleCommandsProofs.* `TypeCorrect` for any number of callers; for one coordinator
`OpensCorrect`, `OnceCorrect`, `AgreeCorrect` and `ForwardCorrect`, from the invariant
`Safe`: the journal row, the provider's row, the receipt and the caller's label of a
command fit together, and the two marks bound the fences. `EarnedCorrect` adds what
the call has achieved (`EarnedFacts`): the operation of the command at label `receipt`
is done, and a save of the agent, which comes at any time, only adds to contents and
never takes it back (`SavesKeep`). In `Achieved` a copy of the store and its anchor
counts only if both files are there, which the proof wanted said.

*WitnessedJournalProofs.* What survives a rollback is the witness, so the invariant keeps
every returned command and receipt in the witness, says that the files the code wrote
are sound (unique ids; exactly committed rows have an anchor), and that the journal
continues the witness whenever a call runs or no copy was ever put back. The lemma
`ContinuationAccepted` shows that the comparison in the code rejects no continuation.
`TypeCorrect`, `HistoryCorrect`, `HeldCorrect`, `NoAlarmCorrect`, `OnceCorrect`, for any
number of commands, copies and restores. `Refinement` to `AnsweredLedger`: the ledger is
the witnessed journal (`Shown`), so a step that writes only the journal shows nothing, and
advancing the witness is growth by everything written since (`WitnessGrows`). The
provider is invoked at a row of the journal that was just started; the journal continues
the witness then and has each id once, so the ledger shows no outcome of that command
(`InvocationUnanswered`).

*AssuranceCycleProofs.* For any corpus, releases, incidents, controls and floors.
Verdicts are about what a release does, while a gate sees only reports; so the invariant
carries the truth along the documents: a report with the trusted runner's name is true
of the release and corpus it names (`EvidenceTrue`, `RetestsTrue`), an outstanding
governance verdict waives or passes every case of its own corpus (`GovernanceTrue`), and
an outstanding evolution keeps coverage (`EvolutionsKeep`, from the lemma
`EvolutionKeeps` about the corpus gate). `TypeCorrect`, `IncidentFedBackOnce`,
`ClosingTakesAFix`, `GreenIsEarned`, `AssuranceIsEarned`, `CoverageIsKept`.

*AnalyzerProofs.* The results about single analyzers are about every valid set of
documents, not those the edits reach. `DelegationFacts`: a delegation whose parent is
denied is denied, for chains of any length and even for a relation in which they do not
end, because denial of the parent leaves nothing to pass on and nothing is asked of
nothing. `PlanFacts` does the same for goals. `DelegationsAttenuate`, `BudgetsAttenuate`
and `MessagesContinue` are about chains: the code compares a delegation, an envelope or a
message with its neighbour only, and these say what that gives for everything above it,
however far. What holds of an item and, with anything, of its parent, holds of its whole
chain (`AncestorsWithin`; `AncestorsOf` takes as many steps as there are items, which are
finitely many), and comparisons compose because what is compared are integers. Capability levels are compared by their maximum, so an inherited capability
is below one of the parent's (`WithinLevels`, `Greatest`). `StateSerial` and `ArtifactsSerial`:
allowed writes are serial. The replay is followed step by step (`WritesLeave`,
`ActionsLeave`: the content of an object is what the last allowed write of it left), and
a write is allowed only from there. The order of the commits sorts by epoch and
identifier; that every transition has its own place is a counting argument
(`RankTaken`: in a finite total order every rank is taken). `DenialInheritedCorrect`,
`NothingGainedCorrect` and `SerialEffectsCorrect` put these together with an invariant:
the result is the evaluation of the documents as they are, numbers stay numbers and
items stay finitely many (`Numbered`, kept by every kind of edit: `CountedKept`), and the
request keeps listing each action once, whatever edits are made (`ReplayableKept`).
Without the last `SerialEffectsCorrect` would be false: an action listed twice is judged
twice, and the later judgement is the one that is kept.

**Proved and in no run any more.** `JournalChain`, `EffectsGoverned`, `CompletedHadEffect`
(`RowSettled` implies it), `HeldUnique`,
`AnsweredOnce` (the refinement of `AnsweredLedger` implies both), `DenialInherited` (a
part of `NothingGained`), and the type invariants of `DurableReview`,
`LifecycleCommands`, `WitnessedJournal` and `AssuranceCycle`: the theorems show them for
every instance.

**Only model-checked.** Liveness under fairness (`CompletableConverges`,
`ConsumedSettles`, `CheckpointConverges`, `EvidenceSettles`), which is out of the
prover's reach. `DriftNeverPasses` and `DenialSticks`: both are about the fixtures and
their edits, the first by enumeration of what differs from a fixture, the second by a
comparison of the risks before and after each of several hundred edits; a proof would
repeat that enumeration. Every other property of a passing run is a theorem.

## 5. What is not modelled, and known limits

* One coordinator per lifecycle journal: with two, `JournalOpens` and `MutatedOnce`
  fail; the documentation claims no fencing between several.
* `RetryableWhileBehind` (`HighImpactChain`) and `AnchorHeld` (`LifecycleCommands`) are
  stated and in no run: the code does not keep them, as the hazards explain.
* A lifecycle restore is bound to the paths of its backup, not to the contents: a later
  snapshot to the same paths changes what it puts back. No document says otherwise, and
  the runs write their one slot once.
* A restore at an unchanged generation can lose a ledger row, and with it the memory
  of an effect: a documented limit of the local ledger.
* The first start of the default stack, and a signer built before `recover()` completes
  a rotation, are hazards without a property yet.
* `delete_thread`, the stand-alone P2-N replica, and P4-O's reconcile, which P4-P's
  replaces, are not modelled.
* A checkpoint that is merely behind is handled like a forged receipt
  (`checkpoint_receipt_boundary.py:168`), and two callers of one lifecycle journal act on
  what they read before; both are outside what the documentation promises.
* The analyzers P9-A, P9-B and P10-A to P10-E are not modelled: P9-C and P10-F take their
  assessments as given. Texts of rejections, counters in an assessment and its own digest
  are left out of every analyzer.
* Some fields are compared by no condition, and a change of them is invisible: identifiers
  of a policy that are not matched with the manifest's in P9-E to P9-H, extra items that
  P7-A and P7-B accept beside the required ones, timestamps of containment and recovery in
  P10-I. The models have these comparisons exactly as the code does, and the evaluations'
  changes do not touch what is not compared.
* Cryptography is assumed: digests are injective and tags unforgeable.
* The first start of the P4-N coordinator can be interrupted between its key and its
  witness file, after which it refuses to open; `RefuseToOpen` has this, and no
  document promises otherwise.

## 6. Plan

1. `VersionedDelivery`: the lagging replica of P2-N and P2-O, key rotation, and the
   first start of the default stack.
2. `CheckpointStore`: the integrity chain, write sets, per-thread deletion, backup
   packages and the restore boundary (P4-A to P4-E).
3. `ReviewInMemory`: the approval store, the runner's table of pending runs, and the
   execution budgets and bounded loop around it.
4. `Detection` and `Incidents`: event and alert chains, rules on late events; incident
   transitions with their digest chain and the execution ledger.
5. `Supply`: privacy ledger, registry cache, key lifecycle; `ServingAbuse`: telemetry
   cursor; `Platform`: identity broker generations, key and secret rotation.
6. The remaining analyzers (P9-A, P9-B, P10-A to P10-E) on `Assessment`.
7. Proofs: the invariants of the new state machines, and for the analyzers of training
   and inference what `NothingGained` is for agents: what an allowed end of a chain of
   records says of all the records before it, for any valid documents.
