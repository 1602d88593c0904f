----------------------------- MODULE DurableReview -----------------------------
(***************************************************************************)
(* From a request for a high-impact tool to its effect, across restarts:   *)
(* aegis/approvals/durable.py (approval ledger and workflow journal),      *)
(* aegis/effects/durable.py (outbox, effect ledger, worker),               *)
(* aegis/effects/revalidation.py (execution-time authorization) and        *)
(* AgentRunner._review_and_resume_durable in aegis/agent/graph.py, which   *)
(* runs them.                                                              *)
(*                                                                         *)
(* The approval database (approvals, workflows, outbox) and the execution  *)
(* database (effects, denials, authorization) commit separately.  A        *)
(* session is one call of review_and_resume: six transactions with other   *)
(* sessions, expiry, authorization changes and crashes in between.         *)
(***************************************************************************)
EXTENDS ExecutionAuthorization, Naturals

CONSTANTS
    Approvals,  \* approval identifiers (fresh random tokens)
    Sessions,   \* concurrent calls of review_and_resume
    Reliable,   \* sessions whose process is never killed
    Reviewers,  \* principals that call it: user, tenant, approver role
    InitialRows,    \* how the authorization rows may be seeded
    NoRequest, NoJob

Decisions == {"approve", "reject"}

ReviewUsers == {r.user : r \in Reviewers}

ASSUME ReviewerAssumption ==
    /\ \A r \in Reviewers : r.approver \in BOOLEAN
    /\ Nobody \notin ReviewUsers
    /\ NoRequest \notin Requests
    /\ InitialRows \subseteq Rows
    /\ NoJob \notin Approvals \X Reviewers \X Decisions

VARIABLES
    approval,   \* approval_records: status, request, user who decided
    overdue,    \* approvals whose expires_at has passed
    workflow,   \* approval_workflows: status or outcome, request
    outbox,     \* effect_outbox: status, request
    ledger,     \* synthetic_effect_ledger: rows per approval, request of the last
    denied,     \* execution_authorization_denials
    auth,       \* the authorization rows
    pc, job     \* each session's next transaction, and its arguments

dbVars   == <<approval, workflow, outbox>>
execVars == <<ledger, denied, auth>>
vars     == <<approval, overdue, workflow, outbox, ledger, denied, auth, pc, job>>

Labels == {"idle", "decide", "resolve", "get", "begin", "execute", "cancel", "ack",
           "approved", "rejected"}

TypeOK ==
    /\ approval \in [Approvals ->
        [status : {"none", "pending", "approved", "rejected", "consumed", "expired"},
         request : Requests \cup {NoRequest}, by : ReviewUsers \cup {Nobody}]]
    /\ overdue \subseteq Approvals
    /\ workflow \in [Approvals ->
        [status : {"none", "pending", "approved", "rejected"},
         request : Requests \cup {NoRequest}]]
    /\ outbox \in [Approvals ->
        [status : {"none", "pending", "completed", "cancelled"},
         request : Requests \cup {NoRequest}]]
    /\ ledger \in [Approvals -> [rows : Nat, request : Requests \cup {NoRequest}]]
    /\ denied \subseteq Approvals
    /\ auth \in Rows
    /\ pc \in [Sessions -> Labels]
    /\ job \in [Sessions -> (Approvals \X Reviewers \X Decisions) \cup {NoJob}]

Init ==
    /\ approval = [a \in Approvals |->
                    [status |-> "none", request |-> NoRequest, by |-> Nobody]]
    /\ overdue = {}
    /\ workflow = [a \in Approvals |-> [status |-> "none", request |-> NoRequest]]
    /\ outbox = [a \in Approvals |-> [status |-> "none", request |-> NoRequest]]
    /\ ledger = [a \in Approvals |-> [rows |-> 0, request |-> NoRequest]]
    /\ denied = {}
    /\ auth \in InitialRows
    /\ pc = [s \in Sessions |-> "idle"]
    /\ job = [s \in Sessions |-> NoJob]

-----------------------------------------------------------------------------
(* The approval ledger and the clock.                                      *)

\* _load_locked: a record that may still be used reads as expired once due.
Loaded(a) ==
    IF a \in overdue /\ approval[a].status \in {"pending", "approved"}
    THEN "expired" ELSE approval[a].status

\* AgentRunner._execute binds the workflow context, so create writes the
\* approval and the workflow row in one transaction.
Create(a, q) ==
    /\ approval[a].status = "none"
    /\ approval' = [approval EXCEPT ![a] =
                    [status |-> "pending", request |-> q, by |-> Nobody]]
    /\ workflow' = [workflow EXCEPT ![a] = [status |-> "pending", request |-> q]]
    /\ UNCHANGED <<overdue, outbox, execVars, pc, job>>

Elapse(a) ==
    /\ approval[a].status # "none"
    /\ a \notin overdue
    /\ overdue' = overdue \cup {a}
    /\ UNCHANGED <<dbVars, execVars, pc, job>>

\* get() commits the expiry that it observes.
Get(a) ==
    /\ Loaded(a) # approval[a].status
    /\ approval' = [approval EXCEPT ![a].status = Loaded(a)]
    /\ UNCHANGED <<overdue, workflow, outbox, execVars, pc, job>>

\* consume(), or resolve_after_review() where no effect pipeline is wired.
Consume(a, q) ==
    /\ approval[a].request = q
    /\ Loaded(a) = "approved"
    /\ approval' = [approval EXCEPT ![a].status = "consumed"]
    /\ UNCHANGED <<overdue, workflow, outbox, execVars, pc, job>>

-----------------------------------------------------------------------------
(* One session of review_and_resume.                                       *)

Goto(s, l) == pc' = [pc EXCEPT ![s] = l] /\ UNCHANGED job

\* The call returns, raises or dies with its process.
Leave(s) ==
    /\ pc' = [pc EXCEPT ![s] = "idle"]
    /\ job' = [job EXCEPT ![s] = NoJob]

\* require_pending: a missing or completed workflow raises at once.
Start(s, a, r, d) ==
    /\ pc[s] = "idle"
    /\ workflow[a].status = "pending"
    /\ job' = [job EXCEPT ![s] = <<a, r, d>>]
    /\ pc' = [pc EXCEPT ![s] = "decide"]
    /\ UNCHANGED <<dbVars, overdue, execVars>>

Desired(d) == IF d = "approve" THEN "approved" ELSE "rejected"

\* Mutant: an approver may decide on a request of their own.
MayDecideSelf(a, r) == r.approver /\ r.tenant = approval[a].request.tenant

MayDecide(a, r) ==
    /\ r.approver
    /\ r.tenant = approval[a].request.tenant
    /\ r.user # approval[a].request.user

\* The same decision by the same reviewer is let through to finish the work.
SameRecoveryDecision(a, r, d) ==
    /\ approval[a].by = r.user
    /\ \/ Loaded(a) = Desired(d)
       \/ Loaded(a) = "consumed" /\ d = "approve"

\* Mutant: as in the in-memory store, a decision cannot be repeated.
DecideOnce(s) ==
    LET a == job[s][1]
        r == job[s][2]
        d == job[s][3]
    IN  /\ pc[s] = "decide"
        /\ IF MayDecide(a, r) /\ Loaded(a) = "pending"
           THEN /\ approval' = [approval EXCEPT ![a].status = Desired(d), ![a].by = r.user]
                /\ Goto(s, "resolve")
           ELSE Leave(s) /\ UNCHANGED approval
        /\ UNCHANGED <<overdue, workflow, outbox, execVars>>

\* Raising rolls back the transaction, the expiry it observed included.
Decide(s) ==
    LET a == job[s][1]
        r == job[s][2]
        d == job[s][3]
    IN  /\ pc[s] = "decide"
        /\ \/ /\ MayDecide(a, r)
              /\ Loaded(a) = "pending"
              /\ approval' = [approval EXCEPT ![a].status = Desired(d), ![a].by = r.user]
              /\ Goto(s, "resolve")
           \/ /\ MayDecide(a, r)
              /\ SameRecoveryDecision(a, r, d)
              /\ Goto(s, "resolve")
              /\ UNCHANGED approval
           \/ /\ ~(MayDecide(a, r) /\ (Loaded(a) = "pending" \/ SameRecoveryDecision(a, r, d)))
              /\ Leave(s)
              /\ UNCHANGED approval
        /\ UNCHANGED <<overdue, workflow, outbox, execVars>>

\* Insert or find the outbox row for a, copied from the approval record.
Enqueue(a) ==
    outbox' = IF outbox[a].status = "none"
              THEN [outbox EXCEPT ![a] = [status |-> "pending", request |-> approval[a].request]]
              ELSE outbox

\* Mutant: the approval is consumed in one transaction and the effect is
\* enqueued in another, which a retry does not repeat.
ResolveConsumed(s) ==
    LET a == job[s][1]
    IN  /\ pc[s] = "resolve"
        /\ \/ /\ approval[a].status = "rejected"
              /\ Goto(s, "rejected")
              /\ UNCHANGED <<approval, outbox>>
           \/ /\ Loaded(a) = "approved"
              /\ approval' = [approval EXCEPT ![a].status = "consumed"]
              /\ Enqueue(a)
              /\ Goto(s, "get")
           \/ /\ Loaded(a) = "consumed"
              /\ Goto(s, "approved")
              /\ UNCHANGED <<approval, outbox>>
           \/ /\ Loaded(a) \notin {"approved", "rejected", "consumed"}
              /\ Leave(s)
              /\ UNCHANGED <<approval, outbox>>
        /\ UNCHANGED <<overdue, workflow, execVars>>

\* Mutant: the deadline counts for the decision only.
ResolveLate(s) ==
    LET a == job[s][1]
    IN  /\ pc[s] = "resolve"
        /\ IF approval[a].status = "rejected"
           THEN Goto(s, "rejected") /\ UNCHANGED <<approval, outbox>>
           ELSE /\ approval' = [approval EXCEPT ![a].status = "consumed"]
                /\ Enqueue(a)
                /\ Goto(s, "get")
        /\ UNCHANGED <<overdue, workflow, execVars>>

\* resolve_after_review_and_enqueue, one transaction; the arguments are those
\* of the workflow row, checked against the approval's binding.
Resolve(s) ==
    LET a     == job[s][1]
        bound == approval[a].request = workflow[a].request
    IN  /\ pc[s] = "resolve"
        /\ \/ /\ bound
              /\ Loaded(a) = "rejected"
              /\ Goto(s, "rejected")
              /\ UNCHANGED <<approval, outbox>>
           \/ /\ bound
              /\ Loaded(a) \in {"approved", "consumed"}
              /\ approval' = [approval EXCEPT ![a].status = "consumed"]
              /\ Enqueue(a)
              /\ Goto(s, "get")
           \/ /\ ~(bound /\ Loaded(a) \in {"approved", "rejected", "consumed"})
              /\ Leave(s)
              /\ UNCHANGED <<approval, outbox>>
        /\ UNCHANGED <<overdue, workflow, execVars>>

\* deliver() refuses a cancelled row ...
GetOutbox(s) ==
    /\ pc[s] = "get"
    /\ IF outbox[job[s][1]].status = "cancelled" THEN Leave(s) ELSE Goto(s, "begin")
    /\ UNCHANGED <<dbVars, overdue, execVars>>

\* ... but begin_delivery does not look again; it only counts the attempt.
BeginDelivery(s) ==
    /\ pc[s] = "begin"
    /\ Goto(s, "execute")
    /\ UNCHANGED <<dbVars, overdue, execVars>>

Perform(a) ==
    ledger' = [ledger EXCEPT ![a] = [rows |-> ledger[a].rows + 1, request |-> outbox[a].request]]

\* Mutant: current authorization is checked before the effect already made.
ExecuteCheckFirst(s) ==
    LET a == job[s][1]
    IN  /\ pc[s] = "execute"
        /\ \/ /\ a \notin denied
              /\ AuthorizationReason(auth, outbox[a].request) = "allowed"
              /\ IF ledger[a].rows = 0 THEN Perform(a) ELSE UNCHANGED ledger
              /\ Goto(s, "ack")
              /\ UNCHANGED denied
           \/ /\ \/ a \in denied
                 \/ AuthorizationReason(auth, outbox[a].request) # "allowed"
              /\ denied' = denied \cup {a}
              /\ Goto(s, "cancel")
              /\ UNCHANGED ledger
        /\ UNCHANGED <<dbVars, overdue, auth>>

\* Mutant: the ledger is not consulted for the idempotency key.
ExecuteTwice(s) ==
    LET a == job[s][1]
    IN  /\ pc[s] = "execute"
        /\ a \notin denied
        /\ AuthorizationReason(auth, outbox[a].request) = "allowed"
        /\ Perform(a)
        /\ Goto(s, "ack")
        /\ UNCHANGED <<dbVars, overdue, denied, auth>>

\* One transaction on the execution database: the effect already recorded,
\* then the denial already recorded, then current authorization.
Execute(s) ==
    LET a       == job[s][1]
        allowed == AuthorizationReason(auth, outbox[a].request) = "allowed"
    IN  /\ pc[s] = "execute"
        /\ \/ /\ ledger[a].rows > 0
              /\ Goto(s, "ack")
              /\ UNCHANGED <<ledger, denied>>
           \/ /\ ledger[a].rows = 0
              /\ a \notin denied
              /\ allowed
              /\ Perform(a)
              /\ Goto(s, "ack")
              /\ UNCHANGED denied
           \/ /\ ledger[a].rows = 0
              /\ a \in denied \/ ~allowed
              /\ denied' = denied \cup {a}
              /\ Goto(s, "cancel")
              /\ UNCHANGED ledger
        /\ UNCHANGED <<dbVars, overdue, auth>>

\* Mutant: cancelling writes a status the readers do not know.
CancelMisspelt(s) ==
    /\ pc[s] = "cancel"
    /\ outbox' = [outbox EXCEPT ![job[s][1]].status = "canceled"]
    /\ Leave(s)
    /\ UNCHANGED <<approval, overdue, workflow, execVars>>

\* cancel() leaves a completed row alone; deliver() then raises.
Cancel(s) ==
    LET a == job[s][1]
    IN  /\ pc[s] = "cancel"
        /\ outbox' = IF outbox[a].status = "completed" THEN outbox
                     ELSE [outbox EXCEPT ![a].status = "cancelled"]
        /\ Leave(s)
        /\ UNCHANGED <<approval, overdue, workflow, execVars>>

\* complete() acknowledges a pending row and leaves any other alone.
Acknowledge(s) ==
    LET a == job[s][1]
    IN  /\ pc[s] = "ack"
        /\ outbox' = IF outbox[a].status = "pending"
                     THEN [outbox EXCEPT ![a].status = "completed"]
                     ELSE outbox
        /\ Goto(s, "approved")
        /\ UNCHANGED <<approval, overdue, workflow, execVars>>

\* DurableWorkflowStore.complete raises when another session was first.
CompleteWorkflow(s) ==
    LET a == job[s][1]
    IN  /\ pc[s] \in {"approved", "rejected"}
        /\ workflow' = IF workflow[a].status = "pending"
                       THEN [workflow EXCEPT ![a].status = pc[s]]
                       ELSE workflow
        /\ Leave(s)
        /\ UNCHANGED <<approval, overdue, outbox, execVars>>

Crash(s) ==
    /\ s \notin Reliable
    /\ pc[s] # "idle"
    /\ Leave(s)
    /\ UNCHANGED <<dbVars, overdue, execVars>>

-----------------------------------------------------------------------------

ChangeAuthorization ==
    /\ \/ \E u \in Users, v \in Subject : v.found /\ auth' = SetSubject(auth, u, v)
       \/ \E k \in Resources, v \in Resource : v.found /\ auth' = SetResource(auth, k, v)
       \/ \E t \in Tenants, b \in BOOLEAN : auth' = SetPasswordResetEnabled(auth, t, b)
    /\ UNCHANGED <<dbVars, overdue, ledger, denied, pc, job>>

Step(s) ==
    \/ Decide(s)
    \/ Resolve(s)
    \/ GetOutbox(s)
    \/ BeginDelivery(s)
    \/ Execute(s)
    \/ Cancel(s)
    \/ Acknowledge(s)
    \/ CompleteWorkflow(s)

Next ==
    \/ \E a \in Approvals :
        \/ Elapse(a)
        \/ Get(a)
        \/ \E q \in Requests : Create(a, q) \/ Consume(a, q)
    \/ \E s \in Sessions :
        \/ \E a \in Approvals, r \in Reviewers, d \in Decisions : Start(s, a, r, d)
        \/ Step(s)
        \/ Crash(s)
    \/ ChangeAuthorization

Spec == Init /\ [][Next]_vars

\* The reviewer whose approval was consumed calls again, as long as the
\* workflow is pending, from a session whose process is not killed.
Retry(s, a) ==
    /\ approval[a].status = "consumed"
    /\ \E r \in Reviewers :
        MayDecide(a, r) /\ r.user = approval[a].by /\ Start(s, a, r, "approve")

FairSpec ==
    /\ Spec
    /\ \A s \in Reliable :
        /\ WF_vars(Step(s))
        /\ \A a \in Approvals : SF_vars(Retry(s, a))

-----------------------------------------------------------------------------
(* Properties.                                                             *)

\* A decision that stands was made by an approver of the requester's tenant
\* who is not the requester, whoever raced to decide, retried or expired it.
DecidedByOther ==
    \A a \in Approvals :
        approval[a].by # Nobody \/ approval[a].status \in {"approved", "rejected", "consumed"} =>
            \E r \in Reviewers :
                /\ r.user = approval[a].by
                /\ r.approver
                /\ r.tenant = approval[a].request.tenant
                /\ r.user # approval[a].request.user

\* The three journals agree on how a workflow ended: "approved" only after the
\* effect was made for a consumed approval, "rejected" only when nothing was
\* enqueued and nothing happened.
OutcomeAgrees ==
    \A a \in Approvals :
        /\ workflow[a].status = "approved" =>
            approval[a].status = "consumed" /\ outbox[a].status = "completed" /\ ledger[a].rows = 1
        /\ workflow[a].status = "rejected" =>
            approval[a].status = "rejected" /\ outbox[a].status = "none" /\ ledger[a].rows = 0

\* However often a row is delivered, there is one effect at most, it is the one
\* the approval bound, and it never coexists with a denial.
OneBoundEffect ==
    \A a \in Approvals : ledger[a].rows > 0 =>
        /\ ledger[a].rows = 1
        /\ ledger[a].request = approval[a].request
        /\ approval[a].status = "consumed"
        /\ a \notin denied

\* The outbox never contradicts the execution database: an acknowledged row
\* has its effect, a cancelled row has none and is denied for good.
OutboxTruthful ==
    \A a \in Approvals :
        /\ outbox[a].status = "completed" => ledger[a].rows = 1
        /\ outbox[a].status = "cancelled" => ledger[a].rows = 0 /\ a \in denied

EntitledStep ==
    \A a \in Approvals :
        /\ ledger'[a].rows # ledger[a].rows => Entitled(auth, approval[a].request)
        /\ a \in denied => a \in denied' /\ ledger'[a].rows = ledger[a].rows

\* An effect is recorded only in a step in which the requester is entitled by
\* the rows of that moment, and never after a denial, however authorization
\* was taken away and given back since the approval.
EntitledAtEffect == [][EntitledStep]_vars

\* The request as its reviewer sees it, for the abstract specification.
Phase(a) ==
    IF approval[a].status = "consumed"
    THEN IF ledger[a].rows > 0 THEN "performed"
         ELSE IF a \in denied THEN "denied" ELSE "committed"
    ELSE IF Loaded(a) = "pending" THEN "asked"
    ELSE IF Loaded(a) = "expired" THEN "lapsed"
    ELSE Loaded(a)

Reviewed == INSTANCE ReviewedEffect WITH
    phase <- [a \in Approvals |-> Phase(a)],
    open  <- [a \in Approvals |->
                approval[a].request # NoRequest /\ Entitled(auth, approval[a].request)]

\* The durable workflow implements the reviewed effect, although an expiry it
\* observes is rolled back whenever the operation that observed it raises.
RefinesReviewedEffect == Reviewed!RSpec

\* A consumed approval is not stranded by crashes: while its reviewer retries,
\* the effect is made and the workflow completed, or the effect is denied.
ConsumedSettles ==
    \A a \in Approvals :
        approval[a].status = "consumed" ~> workflow[a].status = "approved" \/ a \in denied
=============================================================================
