---------------------------- MODULE HighImpactChain ----------------------------
(***************************************************************************)
(* The default high-impact effect chain: aegis/effects/                    *)
(* default_high_impact.py over protected_checkpoint.py (P2-R),             *)
(* checkpoint_receipt_boundary.py and receipt_witness.py (P2-S),           *)
(* rollback_anchor.py (P2-P) and signed_authorization.py (P2-O).           *)
(*                                                                         *)
(* The local databases (generation journal and execution state, with the   *)
(* effect ledger) can be restored together from a backup.  A checkpoint, a *)
(* table of receipts for it and a witness of the receipts are kept outside *)
(* and never go back.  Delivery passes a fence that compares all of them,  *)
(* once for its evidence and again for the effect.                         *)
(*                                                                         *)
(* Local changes are taken at the grain that module ControlPlane justifies *)
(* (one change in flight, prepared, applied, activated, by whichever       *)
(* process commits or recovers).  A journal head is a hash chain over the  *)
(* changes, so it is modelled by the sequence of changes itself, and a     *)
(* receipt, which hashes its predecessor, by the sequence of the heads.    *)
(***************************************************************************)
EXTENDS AuthorizationState, Sequences

CONSTANTS
    Records, Needs, Submissions,    \* as in GovernedHistory
    Workers,        \* concurrent calls of deliver
    KeyEpochs,      \* signing-key epochs the key fixture has a key for
    NoSubmission,   \* no change in flight
    NoRecord,
    MaxGeneration,  \* bound: generations of the local journal
    MaxRestores     \* bound: restores from the backup

ASSUME ChainAssumption ==
    /\ Needs \in [Records -> SUBSET Targets]
    /\ \A c \in Submissions : c.mutation \in Mutations
    /\ NoSubmission \notin Submissions
    /\ MaxGeneration \in Nat
    /\ MaxRestores \in Nat

VARIABLES
    active,     \* active rows of control_plane_changes, by generation
    change,     \* the row in flight, and whether it is applied
    auth,       \* authorization, version and key rows
    ledger,     \* synthetic_effect_ledger
    denied,     \* authorization_provenance_denials
    backup,     \* a copy of the five, taken at some time
    restores,
    checkpoint, \* protected_control_plane_checkpoints
    issued,     \* authenticated_checkpoint_receipts
    witness,    \* receipt_witness
    stack,      \* the process that builds and runs the default stack
    signer,     \* key epoch its signer was built for
    outbox,     \* effect_outbox, of the approval database
    pc, job,    \* each delivery's next step, and what it has read
    effects     \* history: every effect ever recorded, and when

localVars   == <<active, change, auth, ledger, denied>>
keptVars    == <<backup, restores>>
outsideVars == <<issued, witness>>
stackVars   == <<stack, signer>>
vars == <<active, change, auth, ledger, denied, backup, restores, checkpoint,
          issued, witness, stack, signer, outbox, pc, job, effects>>

Journal == Seq(Submissions)

NoneInFlight == [entry |-> NoSubmission, applied |-> FALSE]

InFlight == [entry : Submissions, applied : BOOLEAN] \cup {NoneInFlight}

Local == [active : Journal, change : InFlight, auth : Authorization,
          ledger : SUBSET Records, denied : SUBSET Records]

LocalNow == [active |-> active, change |-> change, auth |-> auth,
             ledger |-> ledger, denied |-> denied]

NoJob == [record |-> NoRecord, gen |-> 0, versions |-> [policy |-> 0, revocation |-> 0],
          allowed |-> FALSE]

Jobs == [record : Records \cup {NoRecord}, gen : Nat, versions : Versions, allowed : BOOLEAN]

Labels == {"idle", "begun", "gen", "versions", "decided", "cancel", "ack"}

TypeOK ==
    /\ LocalNow \in Local
    /\ backup \in Local
    /\ restores \in 0..MaxRestores
    /\ checkpoint \in Journal
    /\ issued \in Seq(Journal)
    /\ witness \in Seq(Journal)
    /\ stack \in {"down", "starting", "recovered", "up"}
    /\ signer \in Nat
    /\ outbox \in [Records -> {"pending", "completed", "cancelled"}]
    /\ pc \in [Workers -> Labels]
    /\ job \in [Workers -> Jobs]
    /\ effects \subseteq [record : Records, at : Journal]

InitialLocal == [active |-> <<>>, change |-> NoneInFlight, auth |-> InitialAuthorization,
                 ledger |-> {}, denied |-> {}]

Init ==
    /\ active = <<>>
    /\ change = NoneInFlight
    /\ auth = InitialAuthorization
    /\ ledger = {}
    /\ denied = {}
    /\ backup = InitialLocal
    /\ restores = 0
    /\ checkpoint = <<>>
    /\ issued = <<>>
    /\ witness = <<>>
    /\ stack = "down"
    /\ signer = 0
    /\ outbox = [r \in Records |-> "pending"]
    /\ pc = [w \in Workers |-> "idle"]
    /\ job = [w \in Workers |-> NoJob]
    /\ effects = {}

-----------------------------------------------------------------------------
(* Control-plane changes, by whichever process commits or recovers.        *)

Prefix(s, t) == Len(s) <= Len(t) /\ \A i \in 1..Len(s) : s[i] = t[i]

Generation(j) == Len(j) + 1

\* locked_active_generation of the local coordinator yields.
Converged == change = NoneInFlight

Prepare(c) ==
    /\ Converged
    /\ \A i \in 1..Len(active) : active[i].id # c.id
    /\ Generation(active) < MaxGeneration
    /\ change' = [entry |-> c, applied |-> FALSE]
    /\ UNCHANGED <<active, auth, ledger, denied, keptVars, checkpoint, outsideVars,
                   stackVars, outbox, pc, job, effects>>

ApplyChange ==
    /\ ~Converged
    /\ ~change.applied
    /\ Applicable(auth, change.entry.mutation)
    /\ auth' = Mutate(auth, change.entry.mutation)
    /\ change' = [change EXCEPT !.applied = TRUE]
    /\ UNCHANGED <<active, ledger, denied, keptVars, checkpoint, outsideVars,
                   stackVars, outbox, pc, job, effects>>

\* Mutant: the row leaves the journal's pending set, its applied mark stays.
ActivateKeepsMark ==
    /\ change.applied
    /\ active' = Append(active, change.entry)
    /\ change' = [change EXCEPT !.entry = NoSubmission]
    /\ UNCHANGED <<auth, ledger, denied, keptVars, checkpoint, outsideVars,
                   stackVars, outbox, pc, job, effects>>

Activate ==
    /\ change.applied
    /\ active' = Append(active, change.entry)
    /\ change' = NoneInFlight
    /\ UNCHANGED <<auth, ledger, denied, keptVars, checkpoint, outsideVars,
                   stackVars, outbox, pc, job, effects>>

\* Mutant: the checkpoint is moved without comparing the journal heads.
SynchronizeBlind ==
    /\ Converged
    /\ Len(checkpoint) < Len(active)
    /\ checkpoint' = SubSeq(active, 1, Len(checkpoint) + 1)
    /\ UNCHANGED <<localVars, keptVars, outsideVars, stackVars, outbox, pc, job, effects>>

\* Mutant: only a checkpoint one generation behind is brought up to date.
SynchronizeLast ==
    /\ Converged
    /\ Len(active) = Len(checkpoint) + 1
    /\ Prefix(checkpoint, active)
    /\ checkpoint' = active
    /\ UNCHANGED <<localVars, keptVars, outsideVars, stackVars, outbox, pc, job, effects>>

\* synchronize_checkpoint: one turn of its loop, a transaction of its own.
\* It raises when the checkpoint is not a prefix of the local journal.
Synchronize ==
    /\ Converged
    /\ Prefix(checkpoint, active)
    /\ Len(checkpoint) < Len(active)
    /\ checkpoint' = Append(checkpoint, active[Len(checkpoint) + 1])
    /\ UNCHANGED <<localVars, keptVars, outsideVars, stackVars, outbox, pc, job, effects>>

-----------------------------------------------------------------------------
(* The receipt fence.  The local coordinator's lock is held throughout, so *)
(* neither the journal nor the checkpoint changes while it is passed.      *)

\* The receipt source has, or can sign, a receipt for the checkpoint.
Issuable ==
    LET g == Generation(checkpoint)
    IN  \/ g <= Len(issued) /\ issued[g] = checkpoint
        \/ g = Len(issued) + 1

\* Mutant: the receipt is signed for a change before it is checkpointed.
IssueEarly ==
    IF Generation(checkpoint) = Len(issued) + 1 THEN Append(issued, active) ELSE issued

\* The table after source.current(), which returns its row for the checkpoint.
Issue ==
    IF Generation(checkpoint) = Len(issued) + 1 THEN Append(issued, checkpoint) ELSE issued

\* Mutant: the source answers with the last receipt that it signed.
ReceiptCached == IF issued = <<>> THEN Issue ELSE issued

Receipt == SubSeq(Issue, 1, Generation(checkpoint))

\* The witness knows the receipt, or it continues what the witness knows.
Witnessable ==
    \/ Prefix(Receipt, witness)
    \/ Len(Receipt) = Len(witness) + 1 /\ Prefix(witness, Receipt)

\* What the two stores outside hold after the fence was tried.
Observe ==
    /\ issued' = IF Issuable THEN Issue ELSE issued
    /\ witness' = IF Issuable /\ Witnessable /\ Len(Receipt) > Len(witness)
                  THEN Receipt ELSE witness

\* Mutant: the receipt's generation is compared, its journal head is not.
AgreesByNumber == Issuable /\ Witnessable /\ Len(Receipt) = Generation(active)

\* The accepted receipt has the local generation and the local head.
ReceiptAgrees ==
    /\ Issuable
    /\ Witnessable
    /\ Len(Receipt) = Generation(active)
    /\ Receipt[Len(Receipt)] = active

FenceOpen == Converged /\ ReceiptAgrees

\* The fence of P2-R, which the default chain does not call: execution
\* marker, local generation and head are those of the checkpoint itself.
ProtectedFenceOpen == Converged /\ checkpoint = active

-----------------------------------------------------------------------------
(* The stack is built once per process.                                    *)

\* The signer is built from the key registry before anything is recovered.
StartStack ==
    /\ stack = "down"
    /\ auth.keyEpoch \in KeyEpochs
    /\ stack' = "starting"
    /\ signer' = auth.keyEpoch
    /\ UNCHANGED <<localVars, keptVars, checkpoint, outsideVars, outbox, pc, job, effects>>

\* recover() returned.
RecoverStack ==
    /\ stack = "starting"
    /\ Converged
    /\ checkpoint = active
    /\ stack' = "recovered"
    /\ UNCHANGED <<localVars, keptVars, checkpoint, outsideVars, signer, outbox, pc, job, effects>>

\* The fence is tried before the stack is returned.
ValidateStack ==
    /\ stack = "recovered"
    /\ IF Converged THEN Observe ELSE UNCHANGED outsideVars
    /\ stack' = IF FenceOpen THEN "up" ELSE "down"
    /\ UNCHANGED <<localVars, keptVars, checkpoint, signer, outbox, pc, job, effects>>

\* Building fails or the process dies; in the middle of the fence, a receipt
\* may be in the table that the witness has not seen.
Crash ==
    /\ stack # "down"
    /\ stack' = "down"
    /\ pc' = [w \in Workers |-> "idle"]
    /\ job' = [w \in Workers |-> NoJob]
    /\ \/ UNCHANGED issued
       \/ /\ stack = "recovered" \/ \E w \in Workers : pc[w] \in {"begun", "decided"}
          /\ Converged
          /\ Issuable
          /\ issued' = Issue
    /\ UNCHANGED <<localVars, keptVars, checkpoint, witness, signer, outbox, effects>>

Snapshot ==
    /\ restores < MaxRestores
    /\ backup' = LocalNow
    /\ UNCHANGED <<localVars, restores, checkpoint, outsideVars, stackVars, outbox, pc, job, effects>>

\* Both local databases are put back as they were, between two deliveries;
\* the process opens them anew for every transaction and may keep running.
Restore ==
    /\ restores < MaxRestores
    /\ \A w \in Workers : pc[w] = "idle"
    /\ restores' = restores + 1
    /\ active' = backup.active
    /\ change' = backup.change
    /\ auth' = backup.auth
    /\ ledger' = backup.ledger
    /\ denied' = backup.denied
    /\ UNCHANGED <<backup, checkpoint, outsideVars, stackVars, outbox, pc, job, effects>>

-----------------------------------------------------------------------------
(* AuthenticatedCheckpointDurableEffectWorker.deliver.                     *)

Goto(w, l) == pc' = [pc EXCEPT ![w] = l] /\ UNCHANGED job

Leave(w) ==
    /\ pc' = [pc EXCEPT ![w] = "idle"]
    /\ job' = [job EXCEPT ![w] = NoJob]

\* get() refuses a cancelled row; begin_delivery() only counts the attempt.
Deliver(w, r) ==
    /\ stack = "up"
    /\ pc[w] = "idle"
    /\ outbox[r] # "cancelled"
    /\ pc' = [pc EXCEPT ![w] = "begun"]
    /\ job' = [job EXCEPT ![w].record = r]
    /\ UNCHANGED <<localVars, keptVars, checkpoint, outsideVars, stackVars, outbox, effects>>

\* A convergence error is raised to the caller; a receipt error cancels.
ReadGeneration(w) ==
    /\ pc[w] = "begun"
    /\ \/ /\ ~Converged
          /\ Leave(w)
          /\ UNCHANGED outsideVars
       \/ /\ Converged
          /\ Observe
          /\ ~ReceiptAgrees
          /\ Goto(w, "cancel")
       \/ /\ Observe
          /\ FenceOpen
          /\ job' = [job EXCEPT ![w].gen = Generation(active)]
          /\ pc' = [pc EXCEPT ![w] = "gen"]
    /\ UNCHANGED <<localVars, keptVars, checkpoint, stackVars, outbox, effects>>

ReadVersions(w) ==
    /\ pc[w] = "gen"
    /\ job' = [job EXCEPT ![w].versions = auth.versions]
    /\ pc' = [pc EXCEPT ![w] = "versions"]
    /\ UNCHANGED <<localVars, keptVars, checkpoint, outsideVars, stackVars, outbox, effects>>

Entitled(a, r) == \A t \in Needs[r] : a.flag[t]

\* The decision is taken and signed by the stack's signer.
Decide(w) ==
    /\ pc[w] = "versions"
    /\ job' = [job EXCEPT ![w].allowed = Entitled(auth, job[w].record)]
    /\ pc' = [pc EXCEPT ![w] = "decided"]
    /\ UNCHANGED <<localVars, keptVars, checkpoint, outsideVars, stackVars, outbox, effects>>

\* Mutant: an authentic decision is enough, whatever it says.
ValidKeyOnly(w) == signer = auth.keyEpoch

\* _decision_failure finds nothing: current key, current versions, allowed.
Valid(w) ==
    /\ signer = auth.keyEpoch
    /\ job[w].versions = auth.versions
    /\ job[w].allowed

\* execute_with_decision: the effect already recorded, then the denial
\* already recorded, then the decision; valid evidence may have expired.
ExecuteDecision(w, r) ==
    \/ /\ r \in ledger
       /\ Goto(w, "ack")
       /\ UNCHANGED <<ledger, denied, effects>>
    \/ /\ r \notin ledger \cup denied
       /\ Valid(w)
       /\ ledger' = ledger \cup {r}
       /\ effects' = effects \cup {[record |-> r, at |-> active]}
       /\ Goto(w, "ack")
       /\ UNCHANGED denied
    \/ /\ r \notin ledger
       /\ denied' = denied \cup {r}
       /\ Goto(w, "cancel")
       /\ UNCHANGED <<ledger, effects>>

\* The envelope is for the active generation, under a key in the registry
\* (which a restore may have made older than the signer).
EnvelopeAccepted(w) == job[w].gen = Generation(active) /\ signer <= auth.keyEpoch

\* execute_with_anchored_decision: the envelope is checked before the ledger
\* is consulted, with the fence held until the effect is recorded.
Execute(w) ==
    /\ pc[w] = "decided"
    /\ \/ /\ ~Converged
          /\ Leave(w)
          /\ UNCHANGED <<outsideVars, ledger, denied, effects>>
       \/ /\ Converged
          /\ Observe
          /\ ~(ReceiptAgrees /\ EnvelopeAccepted(w))
          /\ Goto(w, "cancel")
          /\ UNCHANGED <<ledger, denied, effects>>
       \/ /\ Observe
          /\ FenceOpen
          /\ EnvelopeAccepted(w)
          /\ ExecuteDecision(w, job[w].record)
    /\ UNCHANGED <<active, change, auth, keptVars, checkpoint, stackVars, outbox>>

Cancel(w) ==
    /\ pc[w] = "cancel"
    /\ outbox' = IF outbox[job[w].record] = "completed" THEN outbox
                 ELSE [outbox EXCEPT ![job[w].record] = "cancelled"]
    /\ Leave(w)
    /\ UNCHANGED <<localVars, keptVars, checkpoint, outsideVars, stackVars, effects>>

\* Mutant: the row is completed whatever another delivery made of it.
AcknowledgeAnyway(w) ==
    /\ pc[w] = "ack"
    /\ outbox' = [outbox EXCEPT ![job[w].record] = "completed"]
    /\ Leave(w)
    /\ UNCHANGED <<localVars, keptVars, checkpoint, outsideVars, stackVars, effects>>

\* complete() changes a pending row only.
Acknowledge(w) ==
    /\ pc[w] = "ack"
    /\ outbox' = IF outbox[job[w].record] = "pending"
                 THEN [outbox EXCEPT ![job[w].record] = "completed"] ELSE outbox
    /\ Leave(w)
    /\ UNCHANGED <<localVars, keptVars, checkpoint, outsideVars, stackVars, effects>>

-----------------------------------------------------------------------------

Next ==
    \/ \E c \in Submissions : Prepare(c)
    \/ ApplyChange
    \/ Activate
    \/ Synchronize
    \/ StartStack
    \/ RecoverStack
    \/ ValidateStack
    \/ Crash
    \/ Snapshot
    \/ Restore
    \/ \E w \in Workers :
        \/ \E r \in Records : Deliver(w, r)
        \/ ReadGeneration(w)
        \/ ReadVersions(w)
        \/ Decide(w)
        \/ Execute(w)
        \/ Cancel(w)
        \/ Acknowledge(w)

Spec == Init /\ [][Next]_vars

\* Some process keeps running recover(), as every start of the stack does.
FairSpec ==
    /\ Spec
    /\ WF_vars(ApplyChange)
    /\ WF_vars(Activate)
    /\ WF_vars(Synchronize)

-----------------------------------------------------------------------------
(* Properties.                                                             *)

\* Whatever is restored, lost and committed anew in the local databases, the
\* effects ever recorded belong to one history of changes, the checkpointed
\* one: there are no two effects of diverging journals.
OneHistory == \A e \in effects : Prefix(e.at, checkpoint)

\* The receipt table and the witness follow the checkpoint: row g is the
\* checkpoint's own head of generation g, and the witness knows the first so
\* many rows, so an honest source is never accused of equivocation.
WitnessFollows ==
    /\ Len(issued) <= Generation(checkpoint)
    /\ \A g \in 1..Len(issued) : Len(issued[g]) = g - 1 /\ Prefix(issued[g], checkpoint)
    /\ Prefix(witness, issued)

\* The default chain tests a receipt where P2-R tested the checkpoint; when
\* it lets a delivery pass, P2-R's own conditions hold, with the local state
\* restored or not.
FencesAgree == FenceOpen => ProtectedFenceOpen

\* When an effect is recorded, the evidence for it, gathered in three earlier
\* transactions, describes the authorization rows of that very moment, and
\* the journal they belong to is the checkpointed one.
EffectsGoverned ==
    [][\A e \in effects' \ effects : e.at = checkpoint /\ Entitled(auth, e.record)]_vars

\* A completed outbox row had its effect, even one that a restore has since
\* removed from the ledger.
CompletedHadEffect ==
    \A r \in Records : outbox[r] = "completed" => \E e \in effects : e.record = r

\* Two deliveries of one record may part: one meets an older generation and
\* cancels, the other records the effect and acknowledges.  Whichever writes
\* the outbox row first settles it for both, and it is settled as completed
\* only after the effect.
RowSettled ==
    [][\A r \in Records : outbox'[r] # outbox[r] =>
        /\ outbox[r] = "pending"
        /\ outbox'[r] = "completed" => \E e \in effects : e.record = r]_vars

Governed == INSTANCE GovernedHistory WITH history <- checkpoint

\* The chain implements one growing history under which every effect was
\* entitled at the moment it was recorded.
RefinesGovernedHistory == Governed!Spec

\* A checkpoint that lags its journal (a crash after local activation, once
\* or repeatedly) catches up, unless a restore makes the two diverge.
CheckpointConverges ==
    Len(checkpoint) < Len(active)
        ~> (Len(checkpoint) >= Len(active) \/ ~Prefix(checkpoint, active))

-----------------------------------------------------------------------------
(* Statements of the documentation that the chain does not meet.           *)

\* p2m, p2n and p2o: an effect that exists is never stranded, a retry after a
\* crash completes its outbox row.
EffectNeverStranded ==
    \A r \in Records : outbox[r] = "cancelled" => \A e \in effects : e.record # r

\* p2r: while the checkpoint is merely behind, delivery is retryable.
RetryableWhileBehind ==
    [][\A w \in Workers :
        pc[w] # "cancel" /\ pc'[w] = "cancel" =>
            ~(Prefix(checkpoint, active) /\ Len(checkpoint) < Len(active))]_vars

\* The receipt source: its receipts stay one chain across restarts, so in a
\* stack that was validated, whenever local state and checkpoint agree there
\* is an acceptable receipt for them.
ReceiptChainExtends == stack = "up" /\ ProtectedFenceOpen => ReceiptAgrees
=============================================================================
