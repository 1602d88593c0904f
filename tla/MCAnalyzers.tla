----------------------------- MODULE MCAnalyzers -----------------------------
(* The evidence-bound analyzers, each from the documents of its evaluation: the    *)
(* documents drift, the manifest is approved as it then is, the caller corrects    *)
(* what it declares, and the analyzer evaluates the result after every step.       *)
EXTENDS Assessment

CONSTANTS Analyzers,    \* the analyzers of this run
          Single,       \* those of them of which one change is made
          MaxEdits      \* how many changes are combined for the others

VARIABLES analyzer, ctx, edits, result
vars == <<analyzer, ctx, edits, result>>

Delegation == INSTANCE AgentDelegation
Budget == INSTANCE AgentBudget
Memory == INSTANCE AgentMemory
Plan == INSTANCE AgentPlan
State == INSTANCE AgentState
Forensics == INSTANCE AgentForensics
Artifacts == INSTANCE AgentArtifacts
Recovery == INSTANCE AgentRecovery
Messages == INSTANCE AgentMessages
Gate == INSTANCE PhaseExit
Review == INSTANCE AgentReview
Architecture == INSTANCE ArchitectureContinuity     \* with the modules it extends
Serving == INSTANCE InferenceFailover
Training == INSTANCE TrainingData

(* The analyzers with most changes, of which the run makes one at a time.          *)
Large ==
    {"forensics", "recovery", "observation", "execution", "checkpoint", "benchmark",
     "sensitive", "accelerator", "replica", "incident"}
All ==
    {"delegation", "budget", "memory", "plan", "state", "artifacts", "messages",
     "approval", "phase8", "phase9", "attack", "privilege", "data", "secret",
     "dependency", "change", "invariant", "fallback", "telemetry", "tuning",
     "promotion", "stream"} \cup Large

BaseOf(a) ==
    CASE a = "delegation" -> Delegation!Base
      [] a = "budget" -> Budget!Base
      [] a = "memory" -> Memory!Base
      [] a = "plan" -> Plan!Base
      [] a = "state" -> State!Base
      [] a = "forensics" -> Forensics!Base
      [] a = "artifacts" -> Artifacts!Base
      [] a = "recovery" -> Recovery!Base
      [] a = "messages" -> Messages!Base
      [] a = "approval" -> Review!ApprovalBase
      [] a = "observation" -> Review!ObservationBase
      [] a = "phase8" -> Gate!Phase8Base
      [] a = "attack" -> Architecture!AttackBase
      [] a = "privilege" -> Architecture!PrivilegeBase
      [] a = "data" -> Architecture!DataBase
      [] a = "secret" -> Architecture!SecretBase
      [] a = "dependency" -> Architecture!DependencyBase
      [] a = "change" -> Architecture!ChangeBase
      [] a = "invariant" -> Architecture!InvariantBase
      [] a = "fallback" -> Architecture!FallbackBase
      [] a = "telemetry" -> Architecture!TelemetryBase
      [] a = "execution" -> Training!ExecutionBase
      [] a = "checkpoint" -> Training!CheckpointBase
      [] a = "benchmark" -> Training!BenchmarkBase
      [] a = "tuning" -> Training!TuningBase
      [] a = "sensitive" -> Training!SensitiveBase
      [] a = "promotion" -> Training!PromotionBase
      [] a = "phase9" -> Gate!Phase9Base
      [] a = "accelerator" -> Serving!AcceleratorBase
      [] a = "stream" -> Serving!StreamBase
      [] a = "replica" -> Serving!ReplicaBase
      [] a = "incident" -> Serving!IncidentBase

EvaluateBy(a, c) ==
    CASE a = "delegation" -> Delegation!Evaluate(c)
      [] a = "budget" -> Budget!Evaluate(c)
      [] a = "memory" -> Memory!Evaluate(c)
      [] a = "plan" -> Plan!Evaluate(c)
      [] a = "state" -> State!Evaluate(c)
      [] a = "forensics" -> Forensics!Evaluate(c)
      [] a = "artifacts" -> Artifacts!Evaluate(c)
      [] a = "recovery" -> Recovery!Evaluate(c)
      [] a = "messages" -> Messages!Evaluate(c)
      [] a = "approval" -> Review!ApprovalEvaluate(c)
      [] a = "observation" -> Review!ObservationEvaluate(c)
      [] a \in {"phase8", "phase9"} -> Gate!Evaluate(c)
      [] a = "attack" -> Architecture!AttackEvaluate(c)
      [] a = "privilege" -> Architecture!PrivilegeEvaluate(c)
      [] a = "data" -> Architecture!DataEvaluate(c)
      [] a = "secret" -> Architecture!SecretEvaluate(c)
      [] a = "dependency" -> Architecture!DependencyEvaluate(c)
      [] a = "change" -> Architecture!ChangeEvaluate(c)
      [] a = "invariant" -> Architecture!InvariantEvaluate(c)
      [] a = "fallback" -> Architecture!FallbackEvaluate(c)
      [] a = "telemetry" -> Architecture!TelemetryEvaluate(c)
      [] a = "execution" -> Training!ExecutionEvaluate(c)
      [] a = "checkpoint" -> Training!CheckpointEvaluate(c)
      [] a = "benchmark" -> Training!BenchmarkEvaluate(c)
      [] a = "tuning" -> Training!TuningEvaluate(c)
      [] a = "sensitive" -> Training!SensitiveEvaluate(c)
      [] a = "promotion" -> Training!PromotionEvaluate(c)
      [] a = "accelerator" -> Serving!AcceleratorEvaluate(c)
      [] a = "stream" -> Serving!StreamEvaluate(c)
      [] a = "replica" -> Serving!ReplicaEvaluate(c)
      [] a = "incident" -> Serving!IncidentEvaluate(c)

EditsOf(a, c) ==
    CASE a = "delegation" -> Delegation!Edits(c)
      [] a = "budget" -> Budget!Edits(c)
      [] a = "memory" -> Memory!Edits(c)
      [] a = "plan" -> Plan!Edits(c)
      [] a = "state" -> State!Edits(c)
      [] a = "forensics" -> Forensics!Edits(c)
      [] a = "artifacts" -> Artifacts!Edits(c)
      [] a = "recovery" -> Recovery!Edits(c)
      [] a = "messages" -> Messages!Edits(c)
      [] a = "approval" -> Review!ApprovalEdits(c)
      [] a = "observation" -> Review!ObservationEdits(c)
      [] a \in {"phase8", "phase9"} -> Gate!Edits(c)
      [] a = "attack" -> Architecture!AttackEdits(c)
      [] a = "privilege" -> Architecture!PrivilegeEdits(c)
      [] a = "data" -> Architecture!DataEdits(c)
      [] a = "secret" -> Architecture!SecretEdits(c)
      [] a = "dependency" -> Architecture!DependencyEdits(c)
      [] a = "change" -> Architecture!ChangeEdits(c)
      [] a = "invariant" -> Architecture!InvariantEdits(c)
      [] a = "fallback" -> Architecture!FallbackEdits(c)
      [] a = "telemetry" -> Architecture!TelemetryEdits(c)
      [] a = "execution" -> Training!ExecutionEdits(c)
      [] a = "checkpoint" -> Training!CheckpointEdits(c)
      [] a = "benchmark" -> Training!BenchmarkEdits(c)
      [] a = "tuning" -> Training!TuningEdits(c)
      [] a = "sensitive" -> Training!SensitiveEdits(c)
      [] a = "promotion" -> Training!PromotionEdits(c)
      [] a = "accelerator" -> Serving!AcceleratorEdits(c)
      [] a = "stream" -> Serving!StreamEdits(c)
      [] a = "replica" -> Serving!ReplicaEdits(c)
      [] a = "incident" -> Serving!IncidentEdits(c)

-----------------------------------------------------------------------------
Init ==
    /\ analyzer \in Analyzers
    /\ ctx = BaseOf(analyzer)
    /\ edits = 0
    /\ result = EvaluateBy(analyzer, ctx)

Evaluated == result' = EvaluateBy(analyzer, ctx') /\ UNCHANGED analyzer

(* One of the documents changes.                                                   *)
Drift ==
    /\ edits < IF analyzer \in Single THEN 1 ELSE MaxEdits
    /\ edits' = edits + 1
    /\ ctx' \in EditsOf(analyzer, ctx)
    /\ Evaluated

(* The reviewer pins the manifest as it is now.                                    *)
Reapprove ==
    /\ ctx.policy.sha # Digest(ctx)
    /\ ctx' = Repinned(ctx)
    /\ Evaluated /\ UNCHANGED edits

(* The caller is told that it declared something else and declares the outcome.    *)
Redeclare ==
    /\ result.valid /\ ~result.accepted
    /\ ctx' = Redeclared(ctx, result.truth)
    /\ ctx' # ctx
    /\ Evaluated /\ UNCHANGED edits

Next == Drift \/ Reapprove \/ Redeclare
Spec == Init /\ [][Next]_vars

-----------------------------------------------------------------------------
(* What is assessed: everything but the request and the pinned digest.             *)
Assessed(c) == <<c.manifest, Without(c.policy, "sha"), c.up>>

(* An assessment passes only on the documents of the evaluation's fixture, and on  *)
(* those it does: no change of them, no two changes that each make the other look  *)
(* right, no approval of the changed manifest and no declaration lets an analyzer  *)
(* accept with every item allowed.                                                 *)
DriftNeverPasses ==
    /\ Passed(result) => Assessed(ctx) = Assessed(BaseOf(analyzer))
    /\ ctx = BaseOf(analyzer) => Passed(result)

(* While the manifest stays as it is, a denied path, route or claim is not allowed *)
(* again by a change of the earlier assessments, the policy or the declaration:    *)
(* no analyzer stops at the reason such a change adds and loses the one there was. *)
(* A change of the manifest itself may take a reason away; that none of them lets  *)
(* the assessment pass is DriftNeverPasses.                                        *)
DenialSticks ==
    [][ctx'.manifest = ctx.manifest =>
          \A i \in Denied(result.facts) :
              result'.valid /\ i \in DOMAIN result'.facts => i \in Denied(result'.facts)]_vars

(* Nothing is allowed that rests on something denied: a delegation on its parent,  *)
(* a goal's assessment on its plans, instructions and mutations.                   *)
DenialInherited ==
    LET rests == CASE analyzer = "delegation" -> Delegation!RestsOn(ctx)
                   [] analyzer = "plan" -> Plan!RestsOn(ctx)
                   [] OTHER -> {}
    IN \A p \in rests : result.valid /\ p[2] \in Denied(result.facts)
                            => p[1] \in Denied(result.facts)

(* However long a chain of handoffs is, nothing is gained along it: what rests on  *)
(* something denied is denied, an allowed delegation has the principal, the life   *)
(* and the capability levels of all it comes from or less, no envelope of an       *)
(* allowed run exceeds one it was carved from, and a message whose chain is        *)
(* allowed continues all of it. Each analyzer compares neighbours only.            *)
NothingGained ==
    /\ DenialInherited
    /\ result.valid =>
        /\ analyzer = "delegation" => Delegation!Attenuated(ctx, result.facts)
        /\ analyzer = "budget" => Budget!Attenuated(ctx, result.facts)
        /\ analyzer = "messages" => Messages!Continued(ctx, result.facts)

(* The writes of a shared object, and the actions on an artifact, that are allowed *)
(* together can be done one after the other, each from what the one before left:   *)
(* a transition that lost a race is denied, however versions and order are set.    *)
SerialEffects ==
    result.valid =>
        /\ analyzer = "state" => State!Serial(ctx, result.facts)
        /\ analyzer = "artifacts" => Artifacts!Serial(ctx, result.facts)
=============================================================================
