-------------------------- MODULE DurableReviewProofs --------------------------
(***************************************************************************)
(* Proofs about DurableReview, for any number of approvals, sessions,      *)
(* reviewers and requests.  The inductive invariant relates the rows of    *)
(* one approval across the two databases (ApprovalFacts) and what a        *)
(* session in mid-call may rely on (SessionFacts); the latter only uses    *)
(* facts that no step takes back, which is what lets sessions interleave.  *)
(***************************************************************************)
EXTENDS DurableReview, TLAPS

Decided(a) == approval[a].status \in {"approved", "rejected", "consumed"}

EligibleBy(a) ==
    \E r \in Reviewers :
        /\ r.user = approval[a].by
        /\ r.approver
        /\ r.tenant = approval[a].request.tenant
        /\ r.user # approval[a].request.user

ApprovalFacts(a) ==
    /\ approval[a].status = "none" <=> workflow[a].status = "none"
    /\ approval[a].status # "none" =>
        approval[a].request \in Requests /\ workflow[a].request = approval[a].request
    /\ approval[a].status = "none" => approval[a].by = Nobody
    /\ approval[a].by # Nobody \/ Decided(a) => EligibleBy(a)
    /\ outbox[a].status # "none" =>
        approval[a].status = "consumed" /\ outbox[a].request = approval[a].request
    /\ ledger[a].rows > 0 =>
        /\ ledger[a].rows = 1
        /\ ledger[a].request = approval[a].request
        /\ outbox[a].status # "none"
        /\ a \notin denied
    /\ a \in denied => outbox[a].status # "none"
    /\ outbox[a].status = "completed" => ledger[a].rows > 0
    /\ outbox[a].status = "cancelled" => a \in denied
    /\ workflow[a].status = "approved" => outbox[a].status = "completed"
    /\ workflow[a].status = "rejected" => approval[a].status = "rejected"

Jobs == Approvals \X Reviewers \X Decisions

SessionFacts(s) ==
    pc[s] # "idle" =>
        /\ job[s] \in Jobs
        /\ workflow[job[s][1]].status # "none"
        /\ pc[s] \in {"get", "begin", "execute", "cancel", "ack"} =>
            outbox[job[s][1]].status # "none"
        /\ pc[s] = "cancel" => job[s][1] \in denied
        /\ pc[s] = "ack" => ledger[job[s][1]].rows > 0
        /\ pc[s] = "approved" => outbox[job[s][1]].status = "completed"
        /\ pc[s] = "rejected" => approval[job[s][1]].status = "rejected"

IInv ==
    /\ TypeOK
    /\ \A a \in Approvals : ApprovalFacts(a)
    /\ \A s \in Sessions : SessionFacts(s)

\* What no step takes back.
Stable ==
    \A a \in Approvals :
        /\ workflow[a].status # "none" => workflow'[a].status # "none"
        /\ outbox[a].status # "none" => outbox'[a].status # "none"
        /\ outbox[a].status = "completed" => outbox'[a].status = "completed"
        /\ a \in denied => a \in denied'
        /\ ledger[a].rows > 0 => ledger'[a].rows > 0
        /\ approval[a].status = "rejected" => approval'[a].status = "rejected"

\* The invariant holds when no approval was created.
LEMMA InitIInv == Init => IInv
  <1> SUFFICES ASSUME Init PROVE IInv
    OBVIOUS
  <1>1. TypeOK
    BY ReviewerAssumption DEF Init, TypeOK, Labels
  <1>2. ASSUME NEW a \in Approvals PROVE ApprovalFacts(a)
    BY DEF Init, ApprovalFacts, Decided
  <1>3. ASSUME NEW s \in Sessions PROVE SessionFacts(s)
    BY DEF Init, SessionFacts
  <1> QED BY <1>1, <1>2, <1>3 DEF IInv

\* Sessions that do not move keep what they rely on.
LEMMA OthersKeep ==
    ASSUME IInv, Stable, NEW s \in Sessions, pc'[s] = pc[s], job'[s] = job[s]
    PROVE  SessionFacts(s)'
  <1> SUFFICES ASSUME pc[s] # "idle" PROVE SessionFacts(s)'
    BY DEF SessionFacts
  <1>1. SessionFacts(s)
    BY DEF IInv
  <1>2. job[s] \in Jobs /\ job[s][1] \in Approvals
    BY <1>1 DEF SessionFacts, Jobs
  <1> QED BY <1>1, <1>2 DEF SessionFacts, Stable

\* So it is enough to look at the session that moves.
LEMMA SessionStep ==
    ASSUME IInv, Stable, NEW s \in Sessions,
           \A z \in Sessions \ {s} : pc'[z] = pc[z] /\ job'[z] = job[z],
           SessionFacts(s)'
    PROVE  \A z \in Sessions : SessionFacts(z)'
  <1> TAKE z \in Sessions
  <1>1. CASE z = s
    BY <1>1
  <1>2. CASE z # s
    BY <1>2, OthersKeep
  <1> QED BY <1>1, <1>2

\* A session that is not idle works on an approval that fits its label.
LEMMA JobType ==
    ASSUME IInv, NEW s \in Sessions, pc[s] # "idle"
    PROVE  /\ job[s] \in Jobs
           /\ job[s][1] \in Approvals
           /\ job[s][2] \in Reviewers
           /\ job[s][3] \in Decisions
           /\ ApprovalFacts(job[s][1])
           /\ workflow[job[s][1]].status # "none"
  BY DEF IInv, SessionFacts, Jobs

\* The same, with the job's parts as constants of the step.
LEMMA JobParts ==
    ASSUME IInv, NEW s \in Sessions, pc[s] # "idle"
    PROVE  \E a \in Approvals, r \in Reviewers, d \in Decisions :
            /\ job[s][1] = a /\ job[s][2] = r /\ job[s][3] = d
            /\ job[s] \in Jobs
            /\ ApprovalFacts(a)
            /\ workflow[a].status # "none"
  BY JobType

ApprovalRow == [status : {"none", "pending", "approved", "rejected", "consumed", "expired"},
                request : Requests \cup {NoRequest}, by : ReviewUsers \cup {Nobody}]

\* Writing a status, or a status and a reviewer, keeps the ledger's type.
LEMMA LedgerType ==
    ASSUME approval \in [Approvals -> ApprovalRow], NEW a \in Approvals,
           NEW st \in {"approved", "rejected", "consumed", "expired"}
    PROVE  /\ [approval EXCEPT ![a].status = st] \in [Approvals -> ApprovalRow]
           /\ \A u \in ReviewUsers :
                [approval EXCEPT ![a].status = st, ![a].by = u] \in [Approvals -> ApprovalRow]
  <1>1. approval[a] \in ApprovalRow
    OBVIOUS
  <1>2. [approval[a] EXCEPT !.status = st] \in ApprovalRow
    BY <1>1 DEF ApprovalRow
  <1>3. [approval EXCEPT ![a].status = st] \in [Approvals -> ApprovalRow]
    BY <1>2
  <1>4. ASSUME NEW u \in ReviewUsers
        PROVE  [approval EXCEPT ![a].status = st, ![a].by = u] \in [Approvals -> ApprovalRow]
    <2> DEFINE f == [approval EXCEPT ![a].status = st]
    <2>1. f \in [Approvals -> ApprovalRow]
      BY <1>3
    <2> HIDE DEF f
    <2>2. f[a] \in ApprovalRow
      BY <2>1
    <2>3. [f[a] EXCEPT !.by = u] \in ApprovalRow
      BY <2>2 DEF ApprovalRow
    <2>4. [f EXCEPT ![a].by = u] \in [Approvals -> ApprovalRow]
      BY <2>1, <2>3
    <2> QED BY <2>4 DEF f
  <1> QED BY <1>3, <1>4

\* Leaving: nothing is owed to an idle session.
LEMMA LeaveFacts ==
    ASSUME IInv, NEW s \in Sessions, Leave(s)
    PROVE  /\ pc' \in [Sessions -> Labels]
           /\ job' \in [Sessions -> Jobs \cup {NoJob}]
           /\ SessionFacts(s)'
           /\ \A z \in Sessions \ {s} : pc'[z] = pc[z] /\ job'[z] = job[z]
  BY DEF Leave, IInv, TypeOK, Labels, SessionFacts, Jobs

\* A session that goes on to a label leaves the other sessions alone.
LEMMA GotoFacts ==
    ASSUME IInv, NEW s \in Sessions, NEW l \in Labels, Goto(s, l)
    PROVE  /\ pc' \in [Sessions -> Labels]
           /\ job' \in [Sessions -> Jobs \cup {NoJob}]
           /\ pc'[s] = l
           /\ job' = job
           /\ \A z \in Sessions \ {s} : pc'[z] = pc[z] /\ job'[z] = job[z]
  BY DEF Goto, IInv, TypeOK, Labels, Jobs

-----------------------------------------------------------------------------
(* Steps that leave every database row alone.                              *)

LEMMA QuietStep ==
    ASSUME IInv, UNCHANGED <<approval, workflow, outbox, ledger, denied>>
    PROVE  Stable /\ \A a \in Approvals : ApprovalFacts(a)'
  BY DEF IInv, Stable, ApprovalFacts, Decided, EligibleBy

\* Leaving without a write: return, exception or crash.
LEMMA QuietLeave ==
    ASSUME IInv, NEW s \in Sessions, Leave(s), UNCHANGED <<dbVars, overdue, execVars>>
    PROVE  IInv'
  <1> USE DEF dbVars, execVars
  <1>1. Stable /\ \A a \in Approvals : ApprovalFacts(a)'
    BY QuietStep
  <1>2. \A z \in Sessions : SessionFacts(z)'
    BY <1>1, LeaveFacts, SessionStep
  <1>3. TypeOK'
    BY LeaveFacts DEF IInv, TypeOK, Jobs
  <1> QED BY <1>1, <1>2, <1>3 DEF IInv

\* Moving on without a write, when what the next label relies on holds.
LEMMA QuietGoto ==
    ASSUME IInv, NEW s \in Sessions, pc[s] # "idle", NEW l \in Labels, Goto(s, l),
           l \in {"get", "begin", "execute", "cancel", "ack"} =>
                outbox[job[s][1]].status # "none",
           l = "cancel" => job[s][1] \in denied,
           l = "ack" => ledger[job[s][1]].rows > 0,
           l = "approved" => outbox[job[s][1]].status = "completed",
           l = "rejected" => approval[job[s][1]].status = "rejected",
           UNCHANGED <<dbVars, overdue, execVars>>
    PROVE  IInv'
  <1> USE DEF dbVars, execVars
  <1>1. Stable /\ \A a \in Approvals : ApprovalFacts(a)'
    BY QuietStep
  <1>2. SessionFacts(s)'
    BY GotoFacts, JobType DEF SessionFacts
  <1>3. \A z \in Sessions : SessionFacts(z)'
    BY <1>1, <1>2, GotoFacts, SessionStep
  <1>4. TypeOK'
    BY GotoFacts DEF IInv, TypeOK, Jobs
  <1> QED BY <1>1, <1>3, <1>4 DEF IInv

\* A call of review_and_resume begins while its workflow is pending.
LEMMA StartStep ==
    ASSUME IInv, NEW s \in Sessions, NEW a \in Approvals, NEW r \in Reviewers,
           NEW d \in Decisions, Start(s, a, r, d)
    PROVE  IInv'
  <1> USE DEF dbVars, execVars
  <1>1. Stable /\ \A b \in Approvals : ApprovalFacts(b)'
    BY QuietStep DEF Start
  <1>2. job'[s] = <<a, r, d>> /\ pc'[s] = "decide"
    BY DEF Start, IInv, TypeOK
  <1>3. SessionFacts(s)'
    BY <1>2 DEF SessionFacts, Start, Jobs
  <1>4. \A z \in Sessions : SessionFacts(z)'
    BY <1>1, <1>3, SessionStep DEF Start, IInv, TypeOK
  <1>5. TypeOK'
    BY DEF Start, IInv, TypeOK, Labels
  <1> QED BY <1>1, <1>4, <1>5 DEF IInv

\* Authorization changes and time passes at any label of any session.
LEMMA EnvironmentStep ==
    ASSUME IInv,
           \/ ChangeAuthorization
           \/ \E a \in Approvals : Elapse(a)
    PROVE  IInv'
  <1> USE DEF dbVars, execVars
  <1>1. UNCHANGED <<approval, workflow, outbox, ledger, denied, pc, job>>
    BY DEF ChangeAuthorization, Elapse
  <1>2. Stable /\ \A a \in Approvals : ApprovalFacts(a)'
    BY <1>1, QuietStep
  <1>3. \A z \in Sessions : SessionFacts(z)'
    BY <1>1, <1>2, OthersKeep
  <1>4. auth \in Rows
    BY DEF IInv, TypeOK
  <1>5. auth' \in Rows
    <2>1. ASSUME NEW u \in Users, NEW v \in Subject PROVE SetSubject(auth, u, v) \in Rows
      BY <1>4 DEF Rows, SetSubject
    <2>2. ASSUME NEW k \in Resources, NEW v \in Resource PROVE SetResource(auth, k, v) \in Rows
      BY <1>4 DEF Rows, SetResource
    <2>3. ASSUME NEW t \in Tenants, NEW b \in BOOLEAN
          PROVE  SetPasswordResetEnabled(auth, t, b) \in Rows
      BY <1>4 DEF Rows, SetPasswordResetEnabled
    <2> QED BY <1>4, <2>1, <2>2, <2>3 DEF ChangeAuthorization, Elapse
  <1>6. overdue' \subseteq Approvals
    BY DEF IInv, TypeOK, ChangeAuthorization, Elapse
  <1>7. TypeOK'
    BY <1>1, <1>5, <1>6 DEF IInv, TypeOK
  <1> QED BY <1>2, <1>3, <1>7 DEF IInv

-----------------------------------------------------------------------------
(* Steps that write the approval ledger.                                   *)

\* Approvals that a step does not touch keep their facts.
LEMMA UntouchedFacts ==
    ASSUME IInv, NEW b \in Approvals,
           approval'[b] = approval[b], workflow'[b] = workflow[b], outbox'[b] = outbox[b],
           ledger'[b] = ledger[b], b \in denied' <=> b \in denied
    PROVE  ApprovalFacts(b)'
  <1>1. ApprovalFacts(b)
    BY DEF IInv
  <1> QED BY <1>1 DEF ApprovalFacts, Decided, EligibleBy

\* A new approval comes with its workflow and nothing decided.
LEMMA CreateStep ==
    ASSUME IInv, NEW a \in Approvals, NEW q \in Requests, Create(a, q)
    PROVE  IInv'
  <1> USE DEF execVars
  <1>1. TypeOK'
    BY DEF Create, IInv, TypeOK
  <1>2. ApprovalFacts(a)
    BY DEF IInv
  <1>3. /\ approval'[a] = [status |-> "pending", request |-> q, by |-> Nobody]
        /\ workflow'[a] = [status |-> "pending", request |-> q]
        /\ UNCHANGED <<outbox, ledger, denied, pc, job>>
        /\ \A b \in Approvals \ {a} : approval'[b] = approval[b] /\ workflow'[b] = workflow[b]
    BY DEF Create, IInv, TypeOK
  <1>4. ApprovalFacts(a)'
    BY <1>2, <1>3 DEF ApprovalFacts, Decided, Create
  <1>5. \A b \in Approvals : ApprovalFacts(b)'
    BY <1>3, <1>4, UntouchedFacts
  <1>6. Stable
    BY <1>3 DEF Stable, Create
  <1>7. \A z \in Sessions : SessionFacts(z)'
    BY <1>3, <1>6, OthersKeep
  <1> QED BY <1>1, <1>5, <1>7 DEF IInv

\* A new status for one approval, from one that is not yet final.
LEMMA StatusFacts ==
    ASSUME IInv, NEW a \in Approvals, NEW st \in {"consumed", "expired"},
           approval' = [approval EXCEPT ![a].status = st],
           approval[a].status \in {"pending", "approved", "consumed"},
           st = "expired" => approval[a].status # "consumed",
           st = "consumed" => approval[a].status # "pending",
           UNCHANGED <<workflow, outbox, ledger, denied>>
    PROVE  Stable /\ \A b \in Approvals : ApprovalFacts(b)'
  <1>1. ApprovalFacts(a)
    BY DEF IInv
  <1>2. /\ approval'[a].status = st
        /\ approval'[a].request = approval[a].request
        /\ approval'[a].by = approval[a].by
        /\ \A b \in Approvals \ {a} : approval'[b] = approval[b]
    BY DEF IInv, TypeOK
  <1>3. Decided(a)' => Decided(a)
    BY <1>2 DEF Decided
  <1>4. EligibleBy(a) => EligibleBy(a)'
    BY <1>2 DEF EligibleBy
  <1>5. ApprovalFacts(a)'
    BY <1>1, <1>2, <1>3, <1>4 DEF ApprovalFacts
  <1>6. \A b \in Approvals : ApprovalFacts(b)'
    BY <1>2, <1>5, UntouchedFacts
  <1> QED BY <1>2, <1>6 DEF Stable

\* Reading an overdue approval may store that it expired.
LEMMA GetStep ==
    ASSUME IInv, NEW a \in Approvals, Get(a)
    PROVE  IInv'
  <1> USE DEF execVars
  <1>1. Loaded(a) = "expired" /\ approval[a].status \in {"pending", "approved"}
    BY DEF Get, Loaded
  <1>2. Stable /\ \A b \in Approvals : ApprovalFacts(b)'
    BY <1>1, StatusFacts DEF Get
  <1>3. \A z \in Sessions : SessionFacts(z)'
    BY <1>2, OthersKeep DEF Get
  <1>4. TypeOK'
    BY <1>1, LedgerType DEF Get, IInv, TypeOK, ApprovalRow
  <1> QED BY <1>2, <1>3, <1>4 DEF IInv

\* An approval is consumed when it is approved, for the request it was created with.
LEMMA ConsumeStep ==
    ASSUME IInv, NEW a \in Approvals, NEW q \in Requests, Consume(a, q)
    PROVE  IInv'
  <1> USE DEF execVars
  <1>1. approval[a].status = "approved"
    BY DEF Consume, Loaded
  <1>2. Stable /\ \A b \in Approvals : ApprovalFacts(b)'
    BY <1>1, StatusFacts DEF Consume
  <1>3. \A z \in Sessions : SessionFacts(z)'
    BY <1>2, OthersKeep DEF Consume
  <1>4. TypeOK'
    BY LedgerType DEF Consume, IInv, TypeOK, ApprovalRow
  <1> QED BY <1>2, <1>3, <1>4 DEF IInv

\* A decision is stored for a pending approval and by an eligible reviewer.
LEMMA DecideStep ==
    ASSUME IInv, NEW s \in Sessions, Decide(s)
    PROVE  IInv'
  <1> USE DEF dbVars, execVars
  <1>0. pc[s] = "decide"
    BY DEF Decide
  <1>1. PICK a \in Approvals, r \in Reviewers, d \in Decisions :
            /\ job[s][1] = a /\ job[s][2] = r /\ job[s][3] = d
            /\ job[s] \in Jobs
            /\ ApprovalFacts(a)
            /\ workflow[a].status # "none"
    BY <1>0, JobParts
  <1>2. CASE Leave(s) /\ UNCHANGED approval
    BY <1>2, QuietLeave DEF Decide
  <1>3. CASE Goto(s, "resolve") /\ UNCHANGED approval
    BY <1>0, <1>3, QuietGoto DEF Decide, Labels
  <1>4. CASE /\ MayDecide(a, r)
             /\ Loaded(a) = "pending"
             /\ approval' = [approval EXCEPT ![a].status = Desired(d), ![a].by = r.user]
             /\ Goto(s, "resolve")
    <2>1. approval[a].status = "pending"
      BY <1>4 DEF Loaded
    <2>2. r.user \in ReviewUsers /\ Desired(d) \in {"approved", "rejected"}
      BY <1>1 DEF ReviewUsers, Desired
    <2>3. /\ approval'[a].status = Desired(d)
          /\ approval'[a].by = r.user
          /\ approval'[a].request = approval[a].request
          /\ \A b \in Approvals \ {a} : approval'[b] = approval[b]
      BY <1>1, <1>4 DEF IInv, TypeOK
    <2>4. UNCHANGED <<overdue, workflow, outbox, ledger, denied, auth>>
      BY DEF Decide
    <2>5. EligibleBy(a)'
      BY <1>1, <1>4, <2>3 DEF EligibleBy, MayDecide
    <2>6. ApprovalFacts(a)'
      BY <1>1, <2>1, <2>2, <2>3, <2>4, <2>5 DEF ApprovalFacts
    <2>7. \A b \in Approvals : ApprovalFacts(b)'
      BY <2>3, <2>4, <2>6, UntouchedFacts
    <2>8. Stable
      BY <2>1, <2>3, <2>4 DEF Stable
    <2>9. "resolve" \in Labels
      BY DEF Labels
    <2>10. SessionFacts(s)'
      BY <1>1, <1>4, <2>4, <2>9, GotoFacts DEF SessionFacts
    <2>11. \A z \in Sessions : SessionFacts(z)'
      BY <1>4, <2>8, <2>9, <2>10, GotoFacts, SessionStep
    <2>12. approval' \in [Approvals -> ApprovalRow]
      BY <1>4, <2>2, LedgerType DEF IInv, TypeOK, ApprovalRow
    <2>13. TypeOK'
      BY <1>4, <2>4, <2>9, <2>12, GotoFacts DEF IInv, TypeOK, Jobs, ApprovalRow
    <2> QED BY <2>7, <2>11, <2>13 DEF IInv
  <1> QED BY <1>1, <1>2, <1>3, <1>4 DEF Decide

\* The workflow takes over the decision, and an approval for it is consumed and queued.
LEMMA ResolveStep ==
    ASSUME IInv, NEW s \in Sessions, Resolve(s)
    PROVE  IInv'
  <1> USE DEF dbVars, execVars
  <1>0. pc[s] = "resolve"
    BY DEF Resolve
  <1>1. PICK a \in Approvals :
            /\ job[s][1] = a
            /\ job[s] \in Jobs
            /\ ApprovalFacts(a)
            /\ workflow[a].status # "none"
    BY <1>0, JobParts
  <1>2. CASE Leave(s) /\ UNCHANGED <<approval, outbox>>
    BY <1>2, QuietLeave DEF Resolve
  <1>3. CASE Loaded(a) = "rejected" /\ Goto(s, "rejected") /\ UNCHANGED <<approval, outbox>>
    BY <1>0, <1>1, <1>3, QuietGoto DEF Resolve, Labels, Loaded
  <1>4. CASE /\ Loaded(a) \in {"approved", "consumed"}
             /\ approval' = [approval EXCEPT ![a].status = "consumed"]
             /\ Enqueue(a)
             /\ Goto(s, "get")
    <2>1. approval[a].status \in {"approved", "consumed"}
      BY <1>4 DEF Loaded
    <2>2. UNCHANGED <<overdue, workflow, ledger, denied, auth>>
      BY DEF Resolve
    <2>3. /\ approval'[a].status = "consumed"
          /\ approval'[a].request = approval[a].request
          /\ approval'[a].by = approval[a].by
          /\ \A b \in Approvals \ {a} : approval'[b] = approval[b]
      BY <1>1, <1>4 DEF IInv, TypeOK
    <2>4. /\ outbox[a].status # "none" => outbox' = outbox
          /\ outbox[a].status = "none" =>
                outbox'[a] = [status |-> "pending", request |-> approval[a].request]
          /\ \A b \in Approvals \ {a} : outbox'[b] = outbox[b]
          /\ outbox' \in [Approvals ->
                [status : {"none", "pending", "completed", "cancelled"},
                 request : Requests \cup {NoRequest}]]
      BY <1>1, <1>4, <2>1 DEF Enqueue, IInv, TypeOK, ApprovalFacts
    <2>5. EligibleBy(a)'
      BY <1>1, <2>1, <2>3 DEF ApprovalFacts, Decided, EligibleBy
    <2>6. ApprovalFacts(a)'
      <3>1. CASE outbox[a].status # "none"
        BY <3>1, <1>1, <2>1, <2>2, <2>3, <2>4, <2>5 DEF ApprovalFacts
      <3>2. CASE outbox[a].status = "none"
        BY <3>2, <1>1, <2>1, <2>2, <2>3, <2>4, <2>5 DEF ApprovalFacts
      <3> QED BY <3>1, <3>2
    <2>7. \A b \in Approvals : ApprovalFacts(b)'
      BY <2>2, <2>3, <2>4, <2>6, UntouchedFacts
    <2>8. Stable
      BY <2>1, <2>2, <2>3, <2>4 DEF Stable
    <2>9. "get" \in Labels /\ outbox'[a].status # "none"
      BY <2>4 DEF Labels
    <2>10. SessionFacts(s)'
      BY <1>1, <1>4, <2>2, <2>9, GotoFacts DEF SessionFacts
    <2>11. \A z \in Sessions : SessionFacts(z)'
      BY <1>4, <2>8, <2>9, <2>10, GotoFacts, SessionStep
    <2>12. approval' \in [Approvals -> ApprovalRow]
      BY <1>4, LedgerType DEF IInv, TypeOK, ApprovalRow
    <2>13. TypeOK'
      BY <1>4, <2>2, <2>4, <2>9, <2>12, GotoFacts DEF IInv, TypeOK, Jobs, ApprovalRow
    <2> QED BY <2>7, <2>11, <2>13 DEF IInv
  <1> QED BY <1>1, <1>2, <1>3, <1>4 DEF Resolve

-----------------------------------------------------------------------------
(* Steps of the worker and of the workflow journal.                        *)

\* The type of the rows that hold a status and a request.
LEMMA RowType ==
    ASSUME NEW S, NEW f \in [Approvals -> [status : S, request : Requests \cup {NoRequest}]],
           NEW a \in Approvals, NEW st \in S
    PROVE  [f EXCEPT ![a].status = st] \in
                [Approvals -> [status : S, request : Requests \cup {NoRequest}]]
  OBVIOUS

\* The outbox row is read and marked as being delivered.
LEMMA DeliveryStep ==
    ASSUME IInv, NEW s \in Sessions, GetOutbox(s) \/ BeginDelivery(s)
    PROVE  IInv'
  <1>1. pc[s] \in {"get", "begin"}
    BY DEF GetOutbox, BeginDelivery
  <1>2. outbox[job[s][1]].status # "none"
    BY <1>1 DEF IInv, SessionFacts
  <1>3. CASE Leave(s)
    BY <1>3, QuietLeave DEF GetOutbox, BeginDelivery, Leave
  <1>4. ASSUME NEW l \in {"begin", "execute"}, Goto(s, l) PROVE IInv'
    BY <1>1, <1>2, <1>4, QuietGoto DEF GetOutbox, BeginDelivery, Labels
  <1> QED BY <1>3, <1>4 DEF GetOutbox, BeginDelivery

\* The effect is recorded once, or denied for good, in one transaction.
LEMMA ExecuteStep ==
    ASSUME IInv, NEW s \in Sessions, Execute(s)
    PROVE  IInv'
  <1> USE DEF dbVars, execVars
  <1>0. pc[s] = "execute"
    BY DEF Execute
  <1>1. PICK a \in Approvals :
            /\ job[s][1] = a
            /\ job[s] \in Jobs
            /\ ApprovalFacts(a)
            /\ workflow[a].status # "none"
    BY <1>0, JobParts
  <1>2. outbox[a].status # "none"
    BY <1>0, <1>1 DEF IInv, SessionFacts
  <1>3. UNCHANGED <<approval, workflow, outbox, overdue, auth>>
    BY DEF Execute
  <1>4. "ack" \in Labels /\ "cancel" \in Labels
    BY DEF Labels
  <1>5. CASE ledger[a].rows > 0 /\ Goto(s, "ack") /\ UNCHANGED <<ledger, denied>>
    BY <1>0, <1>1, <1>2, <1>3, <1>4, <1>5, QuietGoto
  <1>6. CASE /\ ledger[a].rows = 0
             /\ a \notin denied
             /\ Perform(a)
             /\ Goto(s, "ack")
             /\ UNCHANGED denied
    <2>1. /\ ledger'[a] = [rows |-> 1, request |-> outbox[a].request]
          /\ \A b \in Approvals \ {a} : ledger'[b] = ledger[b]
          /\ ledger' \in [Approvals -> [rows : Nat, request : Requests \cup {NoRequest}]]
      BY <1>6 DEF Perform, IInv, TypeOK
    <2>2. ApprovalFacts(a)'
      BY <1>1, <1>2, <1>3, <1>6, <2>1 DEF ApprovalFacts, Decided, EligibleBy
    <2>3. \A b \in Approvals : ApprovalFacts(b)'
      BY <1>3, <1>6, <2>1, <2>2, UntouchedFacts
    <2>4. Stable
      BY <1>3, <1>6, <2>1 DEF Stable
    <2>5. SessionFacts(s)'
      BY <1>1, <1>2, <1>3, <1>4, <1>6, <2>1, GotoFacts DEF SessionFacts
    <2>6. \A z \in Sessions : SessionFacts(z)'
      BY <1>4, <1>6, <2>4, <2>5, GotoFacts, SessionStep
    <2>7. TypeOK'
      BY <1>3, <1>4, <1>6, <2>1, GotoFacts DEF IInv, TypeOK, Jobs
    <2> QED BY <2>3, <2>6, <2>7 DEF IInv
  <1>7. CASE /\ ledger[a].rows = 0
             /\ denied' = denied \cup {a}
             /\ Goto(s, "cancel")
             /\ UNCHANGED ledger
    <2>1. ApprovalFacts(a)'
      BY <1>1, <1>2, <1>3, <1>7 DEF ApprovalFacts, Decided, EligibleBy
    <2>2. \A b \in Approvals : ApprovalFacts(b)'
      BY <1>3, <1>7, <2>1, UntouchedFacts
    <2>3. Stable
      BY <1>3, <1>7 DEF Stable
    <2>4. SessionFacts(s)'
      BY <1>1, <1>2, <1>3, <1>4, <1>7, GotoFacts DEF SessionFacts
    <2>5. \A z \in Sessions : SessionFacts(z)'
      BY <1>4, <1>7, <2>3, <2>4, GotoFacts, SessionStep
    <2>6. TypeOK'
      BY <1>3, <1>4, <1>7, GotoFacts DEF IInv, TypeOK, Jobs
    <2> QED BY <2>2, <2>5, <2>6 DEF IInv
  <1> QED BY <1>1, <1>5, <1>6, <1>7 DEF Execute

\* The outbox row of a denied effect is cancelled.
LEMMA CancelStep ==
    ASSUME IInv, NEW s \in Sessions, Cancel(s)
    PROVE  IInv'
  <1> USE DEF dbVars, execVars
  <1>0. pc[s] = "cancel"
    BY DEF Cancel
  <1>1. PICK a \in Approvals :
            /\ job[s][1] = a
            /\ job[s] \in Jobs
            /\ ApprovalFacts(a)
            /\ workflow[a].status # "none"
    BY <1>0, JobParts
  <1>2. a \in denied /\ outbox[a].status # "none"
    BY <1>0, <1>1 DEF IInv, SessionFacts
  <1>3. CASE outbox[a].status = "completed"
    BY <1>1, <1>3, QuietLeave DEF Cancel
  <1>4. CASE outbox[a].status # "completed"
    <2>1. outbox' = [outbox EXCEPT ![a].status = "cancelled"]
      BY <1>1, <1>4 DEF Cancel
    <2>2. /\ outbox'[a].status = "cancelled"
          /\ outbox'[a].request = outbox[a].request
          /\ \A b \in Approvals \ {a} : outbox'[b] = outbox[b]
      BY <2>1 DEF IInv, TypeOK
    <2>3. UNCHANGED <<approval, workflow, ledger, denied, overdue, auth>> /\ Leave(s)
      BY DEF Cancel
    <2>4. ApprovalFacts(a)'
      BY <1>1, <1>2, <1>4, <2>2, <2>3 DEF ApprovalFacts, Decided, EligibleBy
    <2>5. \A b \in Approvals : ApprovalFacts(b)'
      BY <2>2, <2>3, <2>4, UntouchedFacts
    <2>6. Stable
      BY <1>4, <2>2, <2>3 DEF Stable
    <2>7. \A z \in Sessions : SessionFacts(z)'
      BY <2>3, <2>6, LeaveFacts, SessionStep
    <2>8. TypeOK'
      BY <2>1, <2>3, LeaveFacts, RowType DEF IInv, TypeOK, Jobs
    <2> QED BY <2>5, <2>7, <2>8 DEF IInv
  <1> QED BY <1>3, <1>4

\* The outbox row of a recorded effect is acknowledged.
LEMMA AcknowledgeStep ==
    ASSUME IInv, NEW s \in Sessions, Acknowledge(s)
    PROVE  IInv'
  <1> USE DEF dbVars, execVars
  <1>0. pc[s] = "ack"
    BY DEF Acknowledge
  <1>1. PICK a \in Approvals :
            /\ job[s][1] = a
            /\ job[s] \in Jobs
            /\ ApprovalFacts(a)
            /\ workflow[a].status # "none"
    BY <1>0, JobParts
  <1>2. ledger[a].rows > 0 /\ outbox[a].status \in {"pending", "completed"}
    BY <1>0, <1>1 DEF IInv, TypeOK, SessionFacts, ApprovalFacts
  <1>3. "approved" \in Labels /\ Goto(s, "approved")
    BY DEF Labels, Acknowledge
  <1>4. CASE outbox[a].status = "completed"
    BY <1>0, <1>1, <1>3, <1>4, QuietGoto DEF Acknowledge
  <1>5. CASE outbox[a].status = "pending"
    <2>1. outbox' = [outbox EXCEPT ![a].status = "completed"]
      BY <1>1, <1>5 DEF Acknowledge
    <2>2. /\ outbox'[a].status = "completed"
          /\ outbox'[a].request = outbox[a].request
          /\ \A b \in Approvals \ {a} : outbox'[b] = outbox[b]
      BY <2>1 DEF IInv, TypeOK
    <2>3. UNCHANGED <<approval, workflow, ledger, denied, overdue, auth>>
      BY DEF Acknowledge
    <2>4. ApprovalFacts(a)'
      BY <1>1, <1>2, <1>5, <2>2, <2>3 DEF ApprovalFacts, Decided, EligibleBy
    <2>5. \A b \in Approvals : ApprovalFacts(b)'
      BY <2>2, <2>3, <2>4, UntouchedFacts
    <2>6. Stable
      BY <1>5, <2>2, <2>3 DEF Stable
    <2>7. SessionFacts(s)'
      BY <1>1, <1>3, <2>2, <2>3, GotoFacts DEF SessionFacts
    <2>8. \A z \in Sessions : SessionFacts(z)'
      BY <1>3, <2>6, <2>7, GotoFacts, SessionStep
    <2>9. TypeOK'
      BY <1>3, <2>1, <2>3, GotoFacts, RowType DEF IInv, TypeOK, Jobs
    <2> QED BY <2>5, <2>8, <2>9 DEF IInv
  <1> QED BY <1>2, <1>4, <1>5

\* The workflow is completed with what the ledger holds.
LEMMA CompleteStep ==
    ASSUME IInv, NEW s \in Sessions, CompleteWorkflow(s)
    PROVE  IInv'
  <1> USE DEF dbVars, execVars
  <1>0. pc[s] \in {"approved", "rejected"}
    BY DEF CompleteWorkflow
  <1>1. PICK a \in Approvals :
            /\ job[s][1] = a
            /\ job[s] \in Jobs
            /\ ApprovalFacts(a)
            /\ workflow[a].status # "none"
    BY <1>0, JobParts
  <1>2. /\ pc[s] = "approved" => outbox[a].status = "completed"
        /\ pc[s] = "rejected" => approval[a].status = "rejected"
    BY <1>0, <1>1 DEF IInv, SessionFacts
  <1>3. CASE workflow[a].status # "pending"
    BY <1>1, <1>3, QuietLeave DEF CompleteWorkflow
  <1>4. CASE workflow[a].status = "pending"
    <2>1. workflow' = [workflow EXCEPT ![a].status = pc[s]]
      BY <1>1, <1>4 DEF CompleteWorkflow
    <2>2. /\ workflow'[a].status = pc[s]
          /\ workflow'[a].request = workflow[a].request
          /\ \A b \in Approvals \ {a} : workflow'[b] = workflow[b]
      BY <2>1 DEF IInv, TypeOK
    <2>3. UNCHANGED <<approval, outbox, ledger, denied, overdue, auth>> /\ Leave(s)
      BY DEF CompleteWorkflow
    <2>4. ApprovalFacts(a)'
      BY <1>0, <1>1, <1>2, <1>4, <2>2, <2>3 DEF ApprovalFacts, Decided, EligibleBy
    <2>5. \A b \in Approvals : ApprovalFacts(b)'
      BY <2>2, <2>3, <2>4, UntouchedFacts
    <2>6. Stable
      BY <1>0, <2>2, <2>3 DEF Stable
    <2>7. \A z \in Sessions : SessionFacts(z)'
      BY <2>3, <2>6, LeaveFacts, SessionStep
    <2>8. TypeOK'
      BY <1>0, <2>1, <2>3, LeaveFacts, RowType DEF IInv, TypeOK, Jobs
    <2> QED BY <2>5, <2>7, <2>8 DEF IInv
  <1> QED BY <1>3, <1>4

-----------------------------------------------------------------------------
(* The invariant and what follows from it.                                 *)

\* One step of the workflow, whichever it is, keeps the invariant.
LEMMA NextIInv == IInv /\ [Next]_vars => IInv'
  <1> SUFFICES ASSUME IInv, [Next]_vars PROVE IInv'
    OBVIOUS
  <1>1. CASE UNCHANGED vars
    BY <1>1 DEF vars, IInv, TypeOK, ApprovalFacts, Decided, EligibleBy, SessionFacts
  <1>2. ASSUME NEW s \in Sessions, Step(s) PROVE IInv'
    BY <1>2, DecideStep, ResolveStep, DeliveryStep, ExecuteStep, CancelStep, AcknowledgeStep,
       CompleteStep DEF Step
  <1>3. ASSUME NEW s \in Sessions, Crash(s) PROVE IInv'
    BY <1>3, QuietLeave DEF Crash
  <1>4. ASSUME NEW a \in Approvals, NEW q \in Requests, Create(a, q) \/ Consume(a, q)
        PROVE  IInv'
    BY <1>4, CreateStep, ConsumeStep
  <1> QED BY <1>1, <1>2, <1>3, <1>4, EnvironmentStep, GetStep, StartStep DEF Next

\* The rows of the two databases and the sessions' positions stay consistent.
THEOREM Invariance == Spec => []IInv
  BY InitIInv, NextIInv, PTL DEF Spec

\* Every row and every session keeps its type.
THEOREM TypeCorrect == Spec => []TypeOK
  <1>1. IInv => TypeOK
    BY DEF IInv
  <1> QED BY <1>1, Invariance, PTL

\* No decision that stands was made by the requester, by another tenant's
\* approver or by someone who is no approver (decide in approvals/durable.py).
THEOREM DecisionsEligible == Spec => []DecidedByOther
  <1>1. IInv => DecidedByOther
    BY DEF IInv, ApprovalFacts, DecidedByOther, EligibleBy, Decided
  <1> QED BY <1>1, Invariance, PTL

\* The workflow journal, the approval ledger, the outbox and the effect ledger
\* agree on how every review ended (complete in approvals/durable.py).
THEOREM OutcomesAgree == Spec => []OutcomeAgrees
  <1>1. IInv => OutcomeAgrees
    BY DEF IInv, TypeOK, ApprovalFacts, OutcomeAgrees
  <1> QED BY <1>1, Invariance, PTL

\* An approval has one effect at most, the one it bound, and no denial beside
\* it (execute in effects/revalidation.py).
THEOREM EffectOnce == Spec => []OneBoundEffect
  <1>1. IInv => OneBoundEffect
    BY DEF IInv, ApprovalFacts, OneBoundEffect
  <1> QED BY <1>1, Invariance, PTL

\* What the outbox says of an effect is true in the execution database
\* (complete and cancel in effects/durable.py and effects/revalidation.py).
THEOREM OutboxCorrect == Spec => []OutboxTruthful
  <1>1. IInv => OutboxTruthful
    BY DEF IInv, TypeOK, ApprovalFacts, OutboxTruthful
  <1> QED BY <1>1, Invariance, PTL

-----------------------------------------------------------------------------
(* Entitlement, and the abstract specification.                            *)

\* The ordered checks of _authorization_reason allow exactly the entitled.
LEMMA AllowedIsEntitled ==
    ASSUME NEW x \in Rows, NEW q \in Requests
    PROVE  AuthorizationReason(x, q) = "allowed" <=> Entitled(x, q)
  <1>1. q.action \in {"request_access", "request_password_reset"}
    BY RequestAssumption DEF Actions
  <1>2. CASE q.action = "request_password_reset"
    BY <1>2 DEF AuthorizationReason, Entitled
  <1>3. CASE q.action = "request_access"
    <2>1. CASE <<q.tenant, q.resource>> \in Resources
      BY <1>3, <2>1 DEF AuthorizationReason, Entitled
    <2>2. CASE <<q.tenant, q.resource>> \notin Resources
      BY <1>3, <2>2 DEF AuthorizationReason, Entitled
    <2> QED BY <2>1, <2>2
  <1> QED BY <1>1, <1>2, <1>3

\* What an Execute step does to the execution database.
LEMMA ExecuteEffect ==
    ASSUME IInv, NEW s \in Sessions, Execute(s)
    PROVE  \E a \in Approvals :
            /\ approval[a].status = "consumed"
            /\ approval[a].request \in Requests
            /\ \/ UNCHANGED <<ledger, denied>>
               \/ /\ a \notin denied
                  /\ ledger[a].rows = 0
                  /\ Entitled(auth, approval[a].request)
                  /\ ledger'[a].rows = 1
                  /\ \A b \in Approvals \ {a} : ledger'[b] = ledger[b]
                  /\ UNCHANGED denied
               \/ /\ ledger[a].rows = 0
                  /\ a \in denied \/ ~Entitled(auth, approval[a].request)
                  /\ denied' = denied \cup {a}
                  /\ UNCHANGED ledger
  <1>0. pc[s] = "execute"
    BY DEF Execute
  <1>1. PICK a \in Approvals :
            /\ job[s][1] = a
            /\ job[s] \in Jobs
            /\ ApprovalFacts(a)
            /\ workflow[a].status # "none"
    BY <1>0, JobParts
  <1>2. outbox[a].status # "none"
    BY <1>0, <1>1 DEF IInv, SessionFacts
  <1>3. /\ approval[a].status = "consumed"
        /\ approval[a].request \in Requests
        /\ outbox[a].request = approval[a].request
    BY <1>1, <1>2 DEF ApprovalFacts
  <1>4. AuthorizationReason(auth, outbox[a].request) = "allowed"
            <=> Entitled(auth, approval[a].request)
    BY <1>3, AllowedIsEntitled DEF IInv, TypeOK
  <1>5. CASE UNCHANGED <<ledger, denied>>
    BY <1>3, <1>5
  <1>6. CASE /\ ledger[a].rows = 0 /\ a \notin denied
             /\ AuthorizationReason(auth, outbox[a].request) = "allowed"
             /\ Perform(a) /\ UNCHANGED denied
    BY <1>3, <1>4, <1>6 DEF Perform, IInv, TypeOK
  <1>7. CASE /\ ledger[a].rows = 0
             /\ a \in denied \/ AuthorizationReason(auth, outbox[a].request) # "allowed"
             /\ denied' = denied \cup {a} /\ UNCHANGED ledger
    BY <1>3, <1>4, <1>7
  <1> QED BY <1>1, <1>5, <1>6, <1>7 DEF Execute

\* Steps other than Execute leave the execution database's journals alone.
LEMMA OnlyExecuteWrites ==
    ASSUME [Next]_vars, ~ \E s \in Sessions : Execute(s)
    PROVE  UNCHANGED <<ledger, denied>>
  <1> USE DEF dbVars, execVars
  <1>1. CASE UNCHANGED vars
    BY <1>1 DEF vars
  <1>2. ASSUME NEW s \in Sessions, Step(s) PROVE UNCHANGED <<ledger, denied>>
    BY <1>2 DEF Step, Decide, Resolve, GetOutbox, BeginDelivery, Cancel, Acknowledge,
        CompleteWorkflow
  <1>3. ASSUME NEW s \in Sessions, Crash(s) PROVE UNCHANGED <<ledger, denied>>
    BY <1>3 DEF Crash
  <1> QED BY <1>1, <1>2, <1>3
        DEF Next, Elapse, Get, Create, Consume, Start, ChangeAuthorization

\* Effects are made only while their requester is entitled and never after a
\* denial (execute in effects/revalidation.py).
THEOREM EffectsEntitled == Spec => EntitledAtEffect
  <1>1. IInv /\ [Next]_vars => [EntitledStep]_vars
    <2> SUFFICES ASSUME IInv, [Next]_vars PROVE EntitledStep
      OBVIOUS
    <2>1. CASE \E s \in Sessions : Execute(s)
      <3>1. PICK a \in Approvals :
            /\ approval[a].status = "consumed"
            /\ approval[a].request \in Requests
            /\ \/ UNCHANGED <<ledger, denied>>
               \/ /\ a \notin denied
                  /\ ledger[a].rows = 0
                  /\ Entitled(auth, approval[a].request)
                  /\ ledger'[a].rows = 1
                  /\ \A b \in Approvals \ {a} : ledger'[b] = ledger[b]
                  /\ UNCHANGED denied
               \/ /\ ledger[a].rows = 0
                  /\ a \in denied \/ ~Entitled(auth, approval[a].request)
                  /\ denied' = denied \cup {a}
                  /\ UNCHANGED ledger
        BY <2>1, ExecuteEffect
      <3> QED BY <3>1 DEF EntitledStep
    <2>2. CASE ~ \E s \in Sessions : Execute(s)
      BY <2>2, OnlyExecuteWrites DEF EntitledStep
    <2> QED BY <2>1, <2>2
  <1> QED BY <1>1, Invariance, PTL DEF Spec, EntitledAtEffect

\* A step that moves one approval's phase and no other's is an abstract move.
LEMMA MovePhase ==
    ASSUME NEW a \in Approvals, NEW from, NEW to,
           Phase(a) = from, Phase(a)' = to,
           \A b \in Approvals \ {a} : Phase(b)' = Phase(b)
    PROVE  Reviewed!Move(a, from, to)
  BY DEF Reviewed!Move

\* Phases are a function of these rows.
LEMMA SamePhase ==
    ASSUME NEW a \in Approvals,
           approval'[a] = approval[a], ledger'[a] = ledger[a],
           a \in denied' <=> a \in denied, a \in overdue' <=> a \in overdue
    PROVE  Phase(a)' = Phase(a)
  BY DEF Phase, Loaded

\* What each status that is read means as a phase.
LEMMA PhaseOf ==
    ASSUME IInv, NEW a \in Approvals
    PROVE  /\ approval[a].status = "none" => Phase(a) = "none"
           /\ Loaded(a) = "pending" => Phase(a) = "asked"
           /\ Loaded(a) = "expired" => Phase(a) = "lapsed"
           /\ Loaded(a) = "approved" => Phase(a) = "approved"
           /\ Loaded(a) = "rejected" => Phase(a) = "rejected"
           /\ approval[a].status = "consumed" =>
                /\ ledger[a].rows > 0 => Phase(a) = "performed"
                /\ ledger[a].rows = 0 /\ a \in denied => Phase(a) = "denied"
                /\ ledger[a].rows = 0 /\ a \notin denied => Phase(a) = "committed"
  BY DEF Phase, Loaded, IInv, TypeOK

\* Nothing is in the execution database before the approval is consumed.
LEMMA NothingBefore ==
    ASSUME IInv, NEW a \in Approvals, approval[a].status # "consumed"
    PROVE  ledger[a].rows = 0 /\ a \notin denied
  BY DEF IInv, TypeOK, ApprovalFacts

\* Only an approval that exists can become overdue.
OverdueExists == \A a \in overdue : approval[a].status # "none"

\* Steps that write approvals keep every other approval's row, and leave none
\* without a status.
LEMMA OverdueStep ==
    ASSUME IInv, OverdueExists, [Next]_vars
    PROVE  OverdueExists'
  <1> USE DEF dbVars, execVars
  <1>1. CASE UNCHANGED <<approval, overdue>>
    BY <1>1 DEF OverdueExists
  <1>2. ASSUME NEW a \in Approvals, Elapse(a) PROVE OverdueExists'
    BY <1>2 DEF Elapse, OverdueExists
  <1>3. ASSUME NEW a \in Approvals, UNCHANGED overdue, approval'[a].status # "none",
               \A b \in Approvals \ {a} : approval'[b] = approval[b]
        PROVE  OverdueExists'
    BY <1>3 DEF OverdueExists, IInv, TypeOK
  <1>4. ASSUME NEW a \in Approvals, Get(a) PROVE OverdueExists'
    BY <1>3, <1>4 DEF Get, Loaded, IInv, TypeOK
  <1>5. ASSUME NEW a \in Approvals, NEW q \in Requests, Create(a, q) \/ Consume(a, q)
        PROVE  OverdueExists'
    BY <1>3, <1>5 DEF Create, Consume, IInv, TypeOK
  <1>6. ASSUME NEW s \in Sessions, Decide(s) \/ Resolve(s) PROVE OverdueExists'
    <2>1. pc[s] # "idle"
      BY <1>6 DEF Decide, Resolve
    <2>2. PICK a \in Approvals, d \in Decisions : job[s][1] = a /\ job[s][3] = d
      BY <2>1, JobParts
    <2>3. CASE UNCHANGED approval
      BY <1>1, <1>6, <2>3 DEF Decide, Resolve
    <2>4. ASSUME NEW u, approval' = [approval EXCEPT ![a].status = Desired(d), ![a].by = u]
          PROVE  OverdueExists'
      BY <1>3, <1>6, <2>4 DEF Decide, Resolve, Desired, IInv, TypeOK
    <2>5. CASE approval' = [approval EXCEPT ![a].status = "consumed"]
      BY <1>3, <1>6, <2>5 DEF Decide, Resolve, IInv, TypeOK
    <2> QED BY <1>6, <2>2, <2>3, <2>4, <2>5 DEF Decide, Resolve
  <1>7. ASSUME NEW s \in Sessions, Step(s) PROVE OverdueExists'
    BY <1>1, <1>6, <1>7 DEF Step, GetOutbox, BeginDelivery, Execute, Cancel, Acknowledge,
        CompleteWorkflow
  <1> QED BY <1>1, <1>2, <1>4, <1>5, <1>7
        DEF Next, vars, Start, Crash, ChangeAuthorization

\* Only approvals that exist are overdue.
LEMMA OverdueInvariance == Spec => []OverdueExists
  <1>1. Init => OverdueExists
    BY DEF Init, OverdueExists
  <1> QED BY <1>1, OverdueStep, Invariance, PTL DEF Spec

-----------------------------------------------------------------------------

\* Creating an approval is asking for the effect.
LEMMA RefineCreate ==
    ASSUME IInv, OverdueExists, NEW a \in Approvals, NEW q \in Requests, Create(a, q)
    PROVE  Reviewed!Ask(a)
  <1>1. Phase(a) = "none" /\ a \notin overdue
    BY PhaseOf DEF Create, OverdueExists
  <1>2. approval'[a].status = "pending" /\ \A b \in Approvals \ {a} : approval'[b] = approval[b]
    BY DEF Create, IInv, TypeOK
  <1>3. UNCHANGED <<ledger, denied, overdue>>
    BY DEF Create, execVars
  <1>4. Phase(a)' = "asked"
    BY <1>1, <1>2, <1>3 DEF Phase, Loaded
  <1>5. \A b \in Approvals \ {a} : Phase(b)' = Phase(b)
    BY <1>2, <1>3, SamePhase
  <1> QED BY <1>1, <1>4, <1>5, MovePhase DEF Reviewed!Ask

\* The deadline passing is the lapse; committing the expiry changes nothing.
LEMMA RefineElapse ==
    ASSUME IInv, NEW a \in Approvals, Elapse(a)
    PROVE  Reviewed!Lapse(a) \/ \A b \in Approvals : Phase(b)' = Phase(b)
  <1>1. UNCHANGED <<approval, ledger, denied>> /\ overdue' = overdue \cup {a} /\ a \notin overdue
    BY DEF Elapse, dbVars, execVars
  <1>2. \A b \in Approvals \ {a} : Phase(b)' = Phase(b)
    BY <1>1, SamePhase
  <1>3. CASE approval[a].status = "pending"
    <2>1. Phase(a) = "asked" /\ Phase(a)' = "lapsed"
      BY <1>1, <1>3 DEF Phase, Loaded
    <2> QED BY <1>2, <2>1, MovePhase DEF Reviewed!Lapse
  <1>4. CASE approval[a].status = "approved"
    <2>1. Phase(a) = "approved" /\ Phase(a)' = "lapsed"
      BY <1>1, <1>4 DEF Phase, Loaded
    <2> QED BY <1>2, <2>1, MovePhase DEF Reviewed!Lapse
  <1>5. CASE approval[a].status \notin {"pending", "approved"}
    <2>1. Phase(a)' = Phase(a)
      BY <1>1, <1>5 DEF Phase, Loaded
    <2> QED BY <1>2, <2>1
  <1> QED BY <1>3, <1>4, <1>5

\* Storing an expiry is invisible: the approval already reads as expired.
LEMMA RefineGet ==
    ASSUME IInv, NEW a \in Approvals, Get(a)
    PROVE  \A b \in Approvals : Phase(b)' = Phase(b)
  <1>1. /\ Loaded(a) = "expired" /\ approval[a].status \in {"pending", "approved"}
        /\ UNCHANGED <<ledger, denied, overdue>>
    BY DEF Get, Loaded, execVars
  <1>2. approval'[a].status = "expired" /\ \A b \in Approvals \ {a} : approval'[b] = approval[b]
    BY <1>1 DEF Get, IInv, TypeOK
  <1>3. Phase(a)' = Phase(a)
    BY <1>1, <1>2 DEF Phase, Loaded
  <1> QED BY <1>1, <1>2, <1>3, SamePhase

\* Consuming an approval, from a session or directly, commits it.
LEMMA RefineConsumed ==
    ASSUME IInv, NEW a \in Approvals, Loaded(a) \in {"approved", "consumed"},
           approval' = [approval EXCEPT ![a].status = "consumed"],
           UNCHANGED <<ledger, denied, overdue>>
    PROVE  Reviewed!Commit(a) \/ \A b \in Approvals : Phase(b)' = Phase(b)
  <1>1. approval'[a].status = "consumed" /\ \A b \in Approvals \ {a} : approval'[b] = approval[b]
    BY DEF IInv, TypeOK
  <1>2. \A b \in Approvals \ {a} : Phase(b)' = Phase(b)
    BY <1>1, SamePhase
  <1>3. CASE Loaded(a) = "approved"
    <2>1. approval[a].status # "consumed" /\ Phase(a) = "approved"
      BY <1>3, PhaseOf DEF Loaded
    <2>2. Phase(a)' = "committed"
      BY <1>1, <2>1, NothingBefore DEF Phase
    <2> QED BY <1>2, <2>1, <2>2, MovePhase DEF Reviewed!Commit
  <1>4. CASE Loaded(a) = "consumed"
    <2>1. approval[a].status = "consumed"
      BY <1>4 DEF Loaded
    <2>2. Phase(a)' = Phase(a)
      BY <1>1, <2>1 DEF Phase
    <2> QED BY <1>2, <2>2
  <1> QED BY <1>3, <1>4

\* Deciding is approving or rejecting what was asked, or is invisible.
LEMMA RefineDecide ==
    ASSUME IInv, NEW s \in Sessions, Decide(s)
    PROVE  \/ \E a \in Approvals : Reviewed!Approve(a) \/ Reviewed!Reject(a)
           \/ \A b \in Approvals : Phase(b)' = Phase(b)
  <1>0. pc[s] = "decide" /\ UNCHANGED <<overdue, ledger, denied>>
    BY DEF Decide, execVars
  <1>1. PICK a \in Approvals, r \in Reviewers, d \in Decisions :
            job[s][1] = a /\ job[s][2] = r /\ job[s][3] = d
    BY <1>0, JobParts
  <1>2. CASE UNCHANGED approval
    BY <1>0, <1>2, SamePhase
  <1>3. CASE /\ Loaded(a) = "pending"
             /\ approval' = [approval EXCEPT ![a].status = Desired(d), ![a].by = r.user]
    <2>1. /\ approval'[a].status = Desired(d)
          /\ \A b \in Approvals \ {a} : approval'[b] = approval[b]
      BY <1>3 DEF IInv, TypeOK
    <2>2. Phase(a) = "asked" /\ a \notin overdue
      BY <1>3, PhaseOf DEF Loaded
    <2>3. \A b \in Approvals \ {a} : Phase(b)' = Phase(b)
      BY <1>0, <2>1, SamePhase
    <2>4. CASE d = "approve"
      <3>1. Phase(a)' = "approved"
        BY <1>0, <2>1, <2>2, <2>4 DEF Phase, Loaded, Desired
      <3> QED BY <2>2, <2>3, <3>1, MovePhase DEF Reviewed!Approve
    <2>5. CASE d # "approve"
      <3>1. Phase(a)' = "rejected"
        BY <1>0, <2>1, <2>2, <2>5 DEF Phase, Loaded, Desired
      <3> QED BY <2>2, <2>3, <3>1, MovePhase DEF Reviewed!Reject
    <2> QED BY <2>4, <2>5
  <1> QED BY <1>1, <1>2, <1>3 DEF Decide

\* Executing performs or denies what was approved, or is invisible.
LEMMA RefineExecute ==
    ASSUME IInv, NEW s \in Sessions, Execute(s)
    PROVE  \/ \E a \in Approvals : Reviewed!Perform(a) \/ Reviewed!Deny(a)
           \/ \A b \in Approvals : Phase(b)' = Phase(b)
  <1>1. UNCHANGED <<approval, overdue>>
    BY DEF Execute, dbVars
  <1>2. PICK a \in Approvals :
            /\ approval[a].status = "consumed"
            /\ approval[a].request \in Requests
            /\ \/ UNCHANGED <<ledger, denied>>
               \/ /\ a \notin denied
                  /\ ledger[a].rows = 0
                  /\ Entitled(auth, approval[a].request)
                  /\ ledger'[a].rows = 1
                  /\ \A b \in Approvals \ {a} : ledger'[b] = ledger[b]
                  /\ UNCHANGED denied
               \/ /\ ledger[a].rows = 0
                  /\ a \in denied \/ ~Entitled(auth, approval[a].request)
                  /\ denied' = denied \cup {a}
                  /\ UNCHANGED ledger
    BY ExecuteEffect
  <1>3. CASE UNCHANGED <<ledger, denied>>
    BY <1>1, <1>3, SamePhase
  <1>4. CASE ledger[a].rows = 0 /\ a \notin denied /\ ledger'[a].rows = 1
    <2>1. Phase(a) = "committed" /\ Phase(a)' = "performed"
      BY <1>1, <1>2, <1>4 DEF Phase
    <2>2. \A b \in Approvals \ {a} : Phase(b)' = Phase(b)
      BY <1>1, <1>2, <1>4, SamePhase
    <2>3. approval[a].request # NoRequest /\ Entitled(auth, approval[a].request)
      BY <1>2, <1>4, ReviewerAssumption
    <2> QED BY <2>1, <2>2, <2>3, MovePhase DEF Reviewed!Perform
  <1>5. CASE ledger[a].rows = 0 /\ denied' = denied \cup {a} /\ UNCHANGED ledger
    <2>1. CASE a \in denied
      BY <1>1, <1>5, <2>1, SamePhase
    <2>2. CASE a \notin denied
      <3>1. Phase(a) = "committed" /\ Phase(a)' = "denied"
        BY <1>1, <1>2, <1>5, <2>2 DEF Phase
      <3>2. \A b \in Approvals \ {a} : Phase(b)' = Phase(b)
        BY <1>1, <1>5, SamePhase
      <3>3. ~Entitled(auth, approval[a].request)
        BY <1>2, <1>5, <2>2
      <3> QED BY <3>1, <3>2, <3>3, MovePhase DEF Reviewed!Deny
    <2> QED BY <2>1, <2>2
  <1> QED BY <1>2, <1>3, <1>4, <1>5

\* Every step is an abstract step or changes no phase.
LEMMA NextRefines ==
    ASSUME IInv, OverdueExists, [Next]_vars
    PROVE  Reviewed!RNext \/ \A b \in Approvals : Phase(b)' = Phase(b)
  <1> USE DEF dbVars, execVars
  <1>1. CASE UNCHANGED <<approval, overdue, ledger, denied>>
    BY <1>1, SamePhase
  <1>2. ASSUME NEW s \in Sessions, Resolve(s)
        PROVE  Reviewed!RNext \/ \A b \in Approvals : Phase(b)' = Phase(b)
    <2>1. pc[s] # "idle" /\ UNCHANGED <<overdue, ledger, denied>>
      BY <1>2 DEF Resolve
    <2>2. PICK a \in Approvals : job[s][1] = a
      BY <2>1, JobParts
    <2>3. CASE UNCHANGED approval
      BY <2>1, <2>3, <1>1
    <2>4. CASE /\ Loaded(a) \in {"approved", "consumed"}
               /\ approval' = [approval EXCEPT ![a].status = "consumed"]
      BY <2>1, <2>4, RefineConsumed DEF Reviewed!RNext
    <2> QED BY <1>2, <2>2, <2>3, <2>4 DEF Resolve
  <1>3. ASSUME NEW s \in Sessions, Step(s)
        PROVE  Reviewed!RNext \/ \A b \in Approvals : Phase(b)' = Phase(b)
    <2>1. CASE Decide(s)
      BY <2>1, RefineDecide DEF Reviewed!RNext
    <2>2. CASE Execute(s)
      BY <2>2, RefineExecute DEF Reviewed!RNext
    <2> QED BY <1>1, <1>2, <1>3, <2>1, <2>2
        DEF Step, GetOutbox, BeginDelivery, Cancel, Acknowledge, CompleteWorkflow
  <1>4. ASSUME NEW a \in Approvals, NEW q \in Requests, Create(a, q)
        PROVE  Reviewed!RNext
    BY <1>4, RefineCreate DEF Reviewed!RNext
  <1>5. ASSUME NEW a \in Approvals, NEW q \in Requests, Consume(a, q)
        PROVE  Reviewed!RNext \/ \A b \in Approvals : Phase(b)' = Phase(b)
    BY <1>5, RefineConsumed DEF Consume, Reviewed!RNext
  <1>6. ASSUME NEW a \in Approvals, Elapse(a)
        PROVE  Reviewed!RNext \/ \A b \in Approvals : Phase(b)' = Phase(b)
    BY <1>6, RefineElapse DEF Reviewed!RNext
  <1> QED BY <1>1, <1>3, <1>4, <1>5, <1>6, RefineGet
        DEF Next, vars, Start, Crash, ChangeAuthorization

\* The six transactions of a review call, spread over two databases, implement
\* the reviewed effect (_review_and_resume_durable in agent/graph.py).
THEOREM Refinement == Spec => RefinesReviewedEffect
  <1>1. Init => Reviewed!RInit
    BY DEF Init, Reviewed!RInit, Phase, Loaded
  <1>2. IInv /\ OverdueExists /\ [Next]_vars =>
            [Reviewed!RNext]_([a \in Approvals |-> Phase(a)])
    BY NextRefines
  <1> QED BY <1>1, <1>2, Invariance, OverdueInvariance, PTL
        DEF Spec, RefinesReviewedEffect, Reviewed!RSpec
=============================================================================
