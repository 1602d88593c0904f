------------------------- MODULE HighImpactChainProofs -------------------------
(***************************************************************************)
(* Proofs about HighImpactChain, for any number of changes, records,       *)
(* deliveries, generations and restores.  The inductive invariant adds to  *)
(* the properties themselves that every ledger, a backed-up one included,  *)
(* holds recorded effects only (LedgerFacts), and what a delivery may      *)
(* still rely on of what it read (SessionFacts): its evidence is current   *)
(* as long as the generation it read is and no change is applied to it.    *)
(***************************************************************************)
EXTENDS HighImpactChain, Integers, SequenceTheorems, TLAPS

-----------------------------------------------------------------------------
(* The replay of a journal's mutations.                                    *)

\* A replay starts from the initial rows, and its k-th step is the k-th mutation.
StartRows(M) == InitialAuthorization
MutateRows(M, a, k) == Mutate(a, M[k])
Rows == INSTANCE Replays WITH Start <- StartRows, Apply <- MutateRows

\* The replay of no mutation is the initial rows, and one more mutation changes what
\* those before it left.
LEMMA ReplayStep ==
    ASSUME NEW M
    PROVE  /\ Replay(M, 0) = InitialAuthorization
           /\ \A n \in Nat : Replay(M, n + 1) = Mutate(Replay(M, n), M[n + 1])
  <1>1. \A n : Replay(M, n) = Rows!Replayed(M)[n]
    BY DEF Replay, Rows!Replayed, StartRows, MutateRows
  <1> QED BY <1>1, Rows!ReplayStep DEF StartRows, MutateRows

\* The replay looks at no mutation beyond those it replays.
LEMMA ReplaySame ==
    ASSUME NEW M, NEW N, NEW n \in Nat, \A k \in 1..n : M[k] = N[k]
    PROVE  Replay(M, n) = Replay(N, n)
  <1>1. Replay(M, n) = Rows!Replayed(M)[n] /\ Replay(N, n) = Rows!Replayed(N)[n]
    BY DEF Replay, Rows!Replayed, StartRows, MutateRows
  <1>2. \A k \in 1..n : \A a : MutateRows(M, a, k) = MutateRows(N, a, k)
    BY DEF MutateRows
  <1>3. StartRows(M) = StartRows(N)
    BY DEF StartRows
  <1> QED BY <1>1, <1>2, <1>3, Rows!ReplaySame

-----------------------------------------------------------------------------
(* What the invariant adds to the checked properties.                      *)

Recorded(r) == \E e \in effects : e.record = r

LedgerFacts ==
    /\ \A r \in ledger : Recorded(r)
    /\ \A r \in backup.ledger : Recorded(r)

Gathering == {"gen", "versions", "decided"}

SessionFacts(w) ==
    /\ pc[w] # "idle" => job[w].record \in Records
    /\ pc[w] = "ack" => Recorded(job[w].record)
    /\ pc[w] \in Gathering => job[w].gen <= Generation(active)
    /\ pc[w] \in Gathering /\ job[w].gen = Generation(active) /\ ~change.applied =>
        /\ pc[w] # "gen" => job[w].versions = auth.versions
        /\ pc[w] = "decided" => (job[w].allowed <=> Entitled(auth, job[w].record))

IInv ==
    /\ TypeOK
    /\ OneHistory
    /\ WitnessFollows
    /\ CompletedHadEffect
    /\ LedgerFacts
    /\ \A w \in Workers : SessionFacts(w)

-----------------------------------------------------------------------------
(* Sequences.                                                              *)

\* A sequence is a prefix of itself, extended or not.
LEMMA PrefixAppend ==
    ASSUME NEW S, NEW s \in Seq(S), NEW x \in S
    PROVE  /\ Append(s, x) \in Seq(S)
           /\ Len(Append(s, x)) = Len(s) + 1
           /\ Append(s, x)[Len(s) + 1] = x
           /\ Prefix(s, s)
           /\ Prefix(s, Append(s, x))
BY DEF Prefix

\* Being a prefix is transitive.
LEMMA PrefixTrans ==
    ASSUME NEW S, NEW s \in Seq(S), NEW t \in Seq(S), NEW u \in Seq(S),
           Prefix(s, t), Prefix(t, u)
    PROVE  Prefix(s, u)
BY DEF Prefix

\* A prefix of full length is the whole sequence.
LEMMA PrefixEqual ==
    ASSUME NEW S, NEW s \in Seq(S), NEW t \in Seq(S), Prefix(s, t), Len(s) >= Len(t)
    PROVE  s = t
<1>1. Len(s) = Len(t) /\ \A i \in 1..Len(s) : s[i] = t[i]
    BY DEF Prefix
<1>2. QED
    BY <1>1, SeqEqual

-----------------------------------------------------------------------------
(* The receipt fence.                                                      *)

\* A receipt that can be issued ends in the checkpoint, and the table it
\* leaves behind still follows the checkpoint.
LEMMA ReceiptFacts ==
    ASSUME TypeOK, WitnessFollows, Issuable
    PROVE  /\ Issue \in Seq(Journal)
           /\ Len(Issue) = Generation(checkpoint)
           /\ Receipt = Issue
           /\ Issue[Len(Issue)] = checkpoint
           /\ Prefix(issued, Issue)
           /\ \A g \in 1..Len(Issue) : Len(Issue[g]) = g - 1 /\ Prefix(Issue[g], checkpoint)
<1> DEFINE g == Generation(checkpoint)
<1> USE DEF Generation
<1>1. /\ checkpoint \in Journal
      /\ issued \in Seq(Journal)
      /\ Len(checkpoint) \in Nat
      /\ Len(issued) \in Nat
    BY LenProperties DEF TypeOK, Journal
<1>2. Prefix(checkpoint, checkpoint) /\ Prefix(issued, issued)
    BY <1>1 DEF Prefix
<1>3. CASE g = Len(issued) + 1
    <2>1. Issue = Append(issued, checkpoint)
        BY <1>3 DEF Issue
    <2>2. /\ Issue \in Seq(Journal)
          /\ Len(Issue) = g
          /\ Issue[Len(Issue)] = checkpoint
          /\ Prefix(issued, Issue)
        BY <2>1, <1>1, <1>3, PrefixAppend
    <2>3. \A i \in 1..Len(Issue) : Len(Issue[i]) = i - 1 /\ Prefix(Issue[i], checkpoint)
        BY <2>1, <2>2, <1>1, <1>2, <1>3 DEF WitnessFollows, Prefix
    <2>4. Receipt = Issue
        BY <2>2, <1>1 DEF Receipt
    <2>5. QED
        BY <2>2, <2>3, <2>4
<1>4. CASE g # Len(issued) + 1
    <2>1. Issue = issued
        BY <1>4 DEF Issue
    <2>2. Len(issued) = g /\ issued[g] = checkpoint
        BY <1>4, <1>1 DEF Issuable, WitnessFollows
    <2>3. Receipt = Issue
        BY <2>1, <2>2, <1>1 DEF Receipt
    <2>4. QED
        BY <2>1, <2>2, <2>3, <1>1, <1>2 DEF WitnessFollows
<1>5. QED
    BY <1>3, <1>4

\* Trying the fence leaves the outside stores well-formed.
LEMMA ObserveKeeps ==
    ASSUME TypeOK, WitnessFollows, Observe, UNCHANGED checkpoint
    PROVE  /\ issued' \in Seq(Journal)
           /\ witness' \in Seq(Journal)
           /\ WitnessFollows'
<1>1. /\ checkpoint \in Journal
      /\ issued \in Seq(Journal)
      /\ witness \in Seq(Journal)
    BY DEF TypeOK
<1>2. CASE ~Issuable
    BY <1>1, <1>2 DEF Observe, WitnessFollows, Generation
<1>3. CASE Issuable
    <2>1. issued' = Issue
        BY <1>3 DEF Observe
    <2>2. witness' = Issue \/ witness' = witness
        BY <1>3, ReceiptFacts DEF Observe
    <2>3. Prefix(Issue, Issue) /\ Prefix(witness, Issue)
        <3>1. Prefix(witness, issued) /\ Prefix(issued, Issue) /\ Issue \in Seq(Journal)
            BY <1>3, ReceiptFacts DEF WitnessFollows
        <3>2. Prefix(Issue, Issue)
            BY <3>1 DEF Prefix
        <3>3. QED
            BY <3>1, <3>2, <1>1, PrefixTrans
    <2>4. /\ Len(Issue) = Generation(checkpoint)
          /\ \A g \in 1..Len(Issue) : Len(Issue[g]) = g - 1 /\ Prefix(Issue[g], checkpoint)
          /\ Issue \in Seq(Journal)
        BY <1>3, ReceiptFacts
    <2>5. Len(issued') <= Generation(checkpoint')
        BY <2>1, <2>4, <1>1 DEF Generation, Journal
    <2>6. \A g \in 1..Len(issued') : Len(issued'[g]) = g - 1 /\ Prefix(issued'[g], checkpoint')
        BY <2>1, <2>4 DEF Prefix
    <2>7. Prefix(witness', issued')
        BY <2>1, <2>2, <2>3 DEF Prefix
    <2>8. QED
        BY <2>1, <2>2, <2>4, <2>5, <2>6, <2>7, <1>1 DEF WitnessFollows
<1>4. QED
    BY <1>2, <1>3

\* A fence that is open shows the checkpoint itself.
LEMMA OpenFence ==
    ASSUME TypeOK, WitnessFollows, FenceOpen
    PROVE  checkpoint = active
BY ReceiptFacts DEF FenceOpen, ReceiptAgrees

-----------------------------------------------------------------------------
(* The inductive invariant.                                                *)

\* The initial state: nothing changed, issued, delivered or recorded.
LEMMA Initially == Init => IInv
<1> SUFFICES ASSUME Init PROVE IInv
    OBVIOUS
<1> USE DEF Init
<1>1. <<>> \in Journal /\ <<>> \in Seq(Journal) /\ Len(<<>>) = 0
    BY EmptySeq DEF Journal
<1>2. InitialAuthorization \in Authorization
    BY DEF InitialAuthorization, Authorization, Versions
<1>3. InitialLocal \in Local /\ LocalNow \in Local
    BY <1>1, <1>2 DEF InitialLocal, Local, LocalNow, InFlight
<1>4. NoJob \in Jobs
    BY DEF NoJob, Jobs, Versions
<1>5. TypeOK
    BY <1>1, <1>3, <1>4, ChainAssumption DEF TypeOK, Labels
<1>6. OneHistory /\ CompletedHadEffect
    BY DEF OneHistory, CompletedHadEffect
<1>7. WitnessFollows
    BY <1>1 DEF WitnessFollows, Prefix, Generation
<1>8. LedgerFacts
    BY DEF LedgerFacts, InitialLocal
<1>9. \A w \in Workers : SessionFacts(w)
    BY DEF SessionFacts, Gathering
<1>10. QED
    BY <1>5, <1>6, <1>7, <1>8, <1>9 DEF IInv

\* What TypeOK says of the parts of the local state.
LEMMA LocalTypes ==
    ASSUME TypeOK
    PROVE  /\ active \in Journal
           /\ change \in InFlight
           /\ auth \in Authorization
           /\ ledger \subseteq Records
           /\ denied \subseteq Records
           /\ Len(active) \in Nat
<1>1. /\ active \in Journal
      /\ change \in InFlight
      /\ auth \in Authorization
      /\ ledger \subseteq Records
      /\ denied \subseteq Records
    BY DEF TypeOK, LocalNow, Local
<1>2. QED
    BY <1>1, LenProperties DEF Journal

\* A mutation keeps the shape of the authorization rows.
LEMMA MutateType ==
    ASSUME NEW a \in Authorization, NEW m \in Mutations
    PROVE  Mutate(a, m) \in Authorization
<1>1. m \in Mutation
    BY MutationAssumption
<1>2. a.flag \in [Targets -> BOOLEAN] /\ a.versions \in Versions /\ a.keyEpoch \in Nat
    BY DEF Authorization
<1>3. Mutate(a, m).flag \in [Targets -> BOOLEAN]
    BY <1>1, <1>2 DEF Mutate, Mutation
<1>4. Mutate(a, m).versions \in Versions
    BY <1>2 DEF Mutate, Versions, Bump
<1>5. Mutate(a, m).keyEpoch \in Nat
    BY <1>1, <1>2 DEF Mutate, Mutation
<1>6. Mutate(a, m) = [flag |-> Mutate(a, m).flag, versions |-> Mutate(a, m).versions,
                      keyEpoch |-> Mutate(a, m).keyEpoch]
    BY DEF Mutate
<1>7. QED
    BY <1>3, <1>4, <1>5, <1>6 DEF Authorization

\* The change in flight, when there is one, is a submission.
LEMMA PendingEntry ==
    ASSUME TypeOK, ~Converged \/ change.applied
    PROVE  /\ change.entry \in Submissions
           /\ change.entry.mutation \in Mutations
           /\ [change EXCEPT !.applied = TRUE] \in InFlight
<1>1. change # NoneInFlight
    BY DEF Converged, NoneInFlight
<1>2. change \in [entry : Submissions, applied : BOOLEAN]
    BY <1>1, LocalTypes DEF InFlight
<1>3. [change EXCEPT !.applied = TRUE] \in [entry : Submissions, applied : BOOLEAN]
    BY <1>2
<1>4. QED
    BY <1>2, <1>3, ChainAssumption DEF InFlight

\* A delivery that does not move keeps its facts while the local state stands.
LEMMA OtherSession ==
    ASSUME NEW w \in Workers, SessionFacts(w), pc'[w] = pc[w], job'[w] = job[w],
           UNCHANGED <<active, change, auth>>, effects \subseteq effects'
    PROVE  SessionFacts(w)'
BY DEF SessionFacts, Recorded, Gathering, Generation, Entitled

\* A delivery that moves on or ends keeps its type.
LEMMA MoveType ==
    ASSUME TypeOK, NEW v \in Workers, NEW l \in Labels, Goto(v, l) \/ Leave(v)
    PROVE  job' \in [Workers -> Jobs] /\ pc' \in [Workers -> Labels]
<1>1. NoJob \in Jobs
    BY DEF NoJob, Jobs, Versions
<1>2. QED
    BY <1>1 DEF Goto, Leave, TypeOK, Labels

\* A change is prepared.
LEMMA PrepareKeeps ==
    ASSUME IInv, NEW c \in Submissions, Prepare(c)
    PROVE  IInv'
<1> USE DEF IInv
<1>1. TypeOK'
    BY LocalTypes DEF Prepare, Converged, InFlight, NoneInFlight, TypeOK, LocalNow,
        Local, keptVars, outsideVars, stackVars
<1>2. OneHistory'
    BY DEF Prepare, Converged, NoneInFlight, OneHistory, Prefix, keptVars, outsideVars,
        stackVars
<1>3. WitnessFollows'
    BY DEF Prepare, Converged, NoneInFlight, WitnessFollows, Prefix, Generation,
        keptVars, outsideVars, stackVars
<1>4. CompletedHadEffect'
    BY DEF Prepare, Converged, NoneInFlight, CompletedHadEffect, keptVars, outsideVars,
        stackVars
<1>5. LedgerFacts'
    BY DEF Prepare, Converged, NoneInFlight, LedgerFacts, Recorded, keptVars,
        outsideVars, stackVars
<1>6. \A w \in Workers : SessionFacts(w)'
    BY DEF Prepare, Converged, NoneInFlight, SessionFacts, Recorded, Gathering,
        Generation, Entitled, keptVars, outsideVars, stackVars
<1>7. QED
    BY <1>1, <1>2, <1>3, <1>4, <1>5, <1>6

\* A change is applied.
LEMMA ApplyChangeKeeps ==
    ASSUME IInv, ApplyChange
    PROVE  IInv'
<1> USE DEF IInv
<1>1. TypeOK'
    BY LocalTypes, MutateType, PendingEntry DEF ApplyChange, TypeOK, LocalNow, Local,
        keptVars, outsideVars, stackVars
<1>2. OneHistory'
    BY DEF ApplyChange, OneHistory, Prefix, keptVars, outsideVars, stackVars
<1>3. WitnessFollows'
    BY DEF ApplyChange, WitnessFollows, Prefix, Generation, keptVars, outsideVars,
        stackVars
<1>4. CompletedHadEffect'
    BY DEF ApplyChange, CompletedHadEffect, keptVars, outsideVars, stackVars
<1>5. LedgerFacts'
    BY DEF ApplyChange, LedgerFacts, Recorded, keptVars, outsideVars, stackVars
<1>6. \A w \in Workers : SessionFacts(w)'
    BY DEF ApplyChange, SessionFacts, Recorded, Gathering, Generation, Entitled,
        keptVars, outsideVars, stackVars
<1>7. QED
    BY <1>1, <1>2, <1>3, <1>4, <1>5, <1>6

\* A change is activated; evidence of the old generation is no longer used.
LEMMA ActivateKeeps ==
    ASSUME IInv, Activate
    PROVE  IInv'
<1> USE DEF IInv
<1>1. TypeOK'
    BY LocalTypes, PendingEntry, PrefixAppend DEF Activate, TypeOK, LocalNow, Local,
        Journal, InFlight, keptVars, outsideVars, stackVars
<1>2. OneHistory'
    BY DEF Activate, NoneInFlight, OneHistory, Prefix, keptVars, outsideVars, stackVars
<1>3. WitnessFollows'
    BY DEF Activate, NoneInFlight, WitnessFollows, Prefix, Generation, keptVars,
        outsideVars, stackVars
<1>4. CompletedHadEffect'
    BY DEF Activate, NoneInFlight, CompletedHadEffect, keptVars, outsideVars, stackVars
<1>5. LedgerFacts'
    BY DEF Activate, NoneInFlight, LedgerFacts, Recorded, keptVars, outsideVars,
        stackVars
<1>6. \A w \in Workers : SessionFacts(w)'
    <2>1. Generation(active') = Generation(active) + 1
        BY LocalTypes, PendingEntry, PrefixAppend DEF Activate, Generation, Journal
    <2>2. \A w \in Workers : pc[w] \in Gathering => job[w].gen <= Generation(active) /\ job[w].gen \in Nat
        BY DEF SessionFacts, TypeOK, Jobs
    <2>3. Generation(active) \in Nat
        BY LocalTypes DEF Generation
    <2>4. QED
        BY <2>1, <2>2, <2>3 DEF Activate, SessionFacts, Recorded
<1>7. QED
    BY <1>1, <1>2, <1>3, <1>4, <1>5, <1>6

\* The checkpoint advances along the local journal.
LEMMA SynchronizeKeeps ==
    ASSUME IInv, Synchronize
    PROVE  IInv'
<1> USE DEF IInv
<1>0. /\ checkpoint \in Journal
      /\ active \in Journal
      /\ Len(checkpoint) \in Nat
      /\ Len(active) \in Nat
      /\ active[Len(checkpoint) + 1] \in Submissions
      /\ checkpoint' = Append(checkpoint, active[Len(checkpoint) + 1])
      /\ checkpoint' \in Journal
      /\ Len(checkpoint') = Len(checkpoint) + 1
      /\ Prefix(checkpoint, checkpoint')
    BY LocalTypes, PrefixAppend DEF Synchronize, TypeOK, Journal
<1>1. TypeOK'
    <2>1. checkpoint' \in Journal
        BY <1>0, PrefixAppend DEF Journal
    <2>2. QED
        BY <2>1 DEF Synchronize, TypeOK, LocalNow, localVars, keptVars, outsideVars,
            stackVars
<1>2. OneHistory'
    BY <1>0, PrefixTrans DEF Synchronize, OneHistory, TypeOK, Journal
<1>3. WitnessFollows'
    <2>1. \A g \in 1..Len(issued) : issued[g] \in Journal
        BY ElementOfSeq DEF TypeOK
    <2>2. \A g \in 1..Len(issued) : Prefix(issued[g], checkpoint')
        BY <1>0, <2>1, PrefixTrans DEF WitnessFollows, Journal
    <2>3. Len(issued) \in Nat /\ Len(issued) <= Generation(checkpoint')
        BY <1>0, LenProperties DEF WitnessFollows, Generation, TypeOK
    <2>4. issued' = issued /\ witness' = witness
        BY DEF Synchronize, outsideVars
    <2>5. QED
        BY <2>2, <2>3, <2>4 DEF WitnessFollows, Prefix
<1>4. CompletedHadEffect'
    BY DEF Synchronize, CompletedHadEffect, localVars, keptVars, outsideVars, stackVars
<1>5. LedgerFacts'
    BY DEF Synchronize, LedgerFacts, Recorded, localVars, keptVars, outsideVars,
        stackVars
<1>6. \A w \in Workers : SessionFacts(w)'
    BY DEF Synchronize, SessionFacts, Recorded, Gathering, Generation, Entitled,
        localVars, keptVars, outsideVars, stackVars
<1>7. QED
    BY <1>1, <1>2, <1>3, <1>4, <1>5, <1>6

\* The signer is built.
LEMMA StartStackKeeps ==
    ASSUME IInv, StartStack
    PROVE  IInv'
<1> USE DEF IInv
<1>1. TypeOK'
    BY LocalTypes DEF StartStack, Authorization, TypeOK, LocalNow, Local, localVars,
        keptVars, outsideVars, stackVars
<1>2. OneHistory'
    BY DEF StartStack, OneHistory, Prefix, localVars, keptVars, outsideVars, stackVars
<1>3. WitnessFollows'
    BY DEF StartStack, WitnessFollows, Prefix, Generation, localVars, keptVars,
        outsideVars, stackVars
<1>4. CompletedHadEffect'
    BY DEF StartStack, CompletedHadEffect, localVars, keptVars, outsideVars, stackVars
<1>5. LedgerFacts'
    BY DEF StartStack, LedgerFacts, Recorded, localVars, keptVars, outsideVars,
        stackVars
<1>6. \A w \in Workers : SessionFacts(w)'
    BY DEF StartStack, SessionFacts, Recorded, Gathering, Generation, Entitled,
        localVars, keptVars, outsideVars, stackVars
<1>7. QED
    BY <1>1, <1>2, <1>3, <1>4, <1>5, <1>6

\* Recovery returns.
LEMMA RecoverStackKeeps ==
    ASSUME IInv, RecoverStack
    PROVE  IInv'
<1> USE DEF IInv
<1>1. TypeOK'
    BY LocalTypes DEF RecoverStack, TypeOK, LocalNow, Local, localVars, keptVars,
        outsideVars, stackVars
<1>2. OneHistory'
    BY DEF RecoverStack, OneHistory, Prefix, localVars, keptVars, outsideVars, stackVars
<1>3. WitnessFollows'
    BY DEF RecoverStack, WitnessFollows, Prefix, Generation, localVars, keptVars,
        outsideVars, stackVars
<1>4. CompletedHadEffect'
    BY DEF RecoverStack, CompletedHadEffect, localVars, keptVars, outsideVars, stackVars
<1>5. LedgerFacts'
    BY DEF RecoverStack, LedgerFacts, Recorded, localVars, keptVars, outsideVars,
        stackVars
<1>6. \A w \in Workers : SessionFacts(w)'
    BY DEF RecoverStack, SessionFacts, Recorded, Gathering, Generation, Entitled,
        localVars, keptVars, outsideVars, stackVars
<1>7. QED
    BY <1>1, <1>2, <1>3, <1>4, <1>5, <1>6

\* The fence is tried at start.
LEMMA ValidateStackKeeps ==
    ASSUME IInv, ValidateStack
    PROVE  IInv'
<1> USE DEF IInv
<1>1. TypeOK'
    <2>1. issued' \in Seq(Journal) /\ witness' \in Seq(Journal)
        BY ObserveKeeps DEF ValidateStack, TypeOK, outsideVars
    <2>2. QED
        BY <2>1 DEF ValidateStack, TypeOK, LocalNow, localVars, keptVars
<1>2. OneHistory'
    BY DEF ValidateStack, OneHistory, Prefix, localVars, keptVars, outsideVars,
        stackVars
<1>3. WitnessFollows'
    <2>1. CASE Converged
        BY <2>1, ObserveKeeps DEF ValidateStack
    <2>2. CASE ~Converged
        BY <2>2 DEF ValidateStack, outsideVars, WitnessFollows, Prefix, Generation
    <2>3. QED
        BY <2>1, <2>2
<1>4. CompletedHadEffect'
    BY DEF ValidateStack, CompletedHadEffect, localVars, keptVars, outsideVars,
        stackVars
<1>5. LedgerFacts'
    BY DEF ValidateStack, LedgerFacts, Recorded, localVars, keptVars, outsideVars,
        stackVars
<1>6. \A w \in Workers : SessionFacts(w)'
    BY DEF ValidateStack, SessionFacts, Recorded, Gathering, Generation, Entitled,
        localVars, keptVars, outsideVars, stackVars
<1>7. QED
    BY <1>1, <1>2, <1>3, <1>4, <1>5, <1>6

\* The process dies.
LEMMA CrashKeeps ==
    ASSUME IInv, Crash
    PROVE  IInv'
<1> USE DEF IInv
<1>1. TypeOK'
    <2>1. issued' \in Seq(Journal)
        BY ReceiptFacts DEF Crash, TypeOK
    <2>2. NoJob \in Jobs
        BY DEF NoJob, Jobs, Versions
    <2>3. QED
        BY <2>1, <2>2 DEF Crash, TypeOK, Labels, LocalNow, localVars, keptVars
<1>2. OneHistory'
    BY DEF Crash, OneHistory, Prefix, localVars, keptVars
<1>3. WitnessFollows'
    <2>1. CASE issued' = issued
        BY <2>1 DEF Crash, WitnessFollows, Prefix, Generation
    <2>2. CASE Issuable /\ issued' = Issue
        <3>1. Prefix(witness, Issue)
            BY <2>2, ReceiptFacts, PrefixTrans DEF WitnessFollows, TypeOK
        <3>2. /\ Len(Issue) <= Generation(checkpoint)
              /\ \A g \in 1..Len(Issue) : Len(Issue[g]) = g - 1 /\ Prefix(Issue[g], checkpoint)
            BY <2>2, ReceiptFacts, LenProperties DEF Generation, TypeOK, Journal
        <3>3. checkpoint' = checkpoint /\ witness' = witness
            BY DEF Crash
        <3>4. QED
            BY <2>2, <3>1, <3>2, <3>3 DEF WitnessFollows, Prefix, Generation
    <2>3. QED
        BY <2>1, <2>2 DEF Crash
<1>4. CompletedHadEffect'
    BY DEF Crash, CompletedHadEffect, localVars, keptVars
<1>5. LedgerFacts'
    BY DEF Crash, LedgerFacts, Recorded, localVars, keptVars
<1>6. \A w \in Workers : SessionFacts(w)'
    BY DEF Crash, SessionFacts, Recorded, Gathering, Generation, Entitled, localVars,
        keptVars
<1>7. QED
    BY <1>1, <1>2, <1>3, <1>4, <1>5, <1>6

\* A backup is taken.
LEMMA SnapshotKeeps ==
    ASSUME IInv, Snapshot
    PROVE  IInv'
<1> USE DEF IInv
<1>1. TypeOK'
    BY LocalTypes DEF Snapshot, LocalNow, TypeOK, Local, localVars, outsideVars,
        stackVars
<1>2. OneHistory'
    BY DEF Snapshot, LocalNow, OneHistory, Prefix, localVars, outsideVars, stackVars
<1>3. WitnessFollows'
    BY DEF Snapshot, LocalNow, WitnessFollows, Prefix, Generation, localVars,
        outsideVars, stackVars
<1>4. CompletedHadEffect'
    BY DEF Snapshot, LocalNow, CompletedHadEffect, localVars, outsideVars, stackVars
<1>5. LedgerFacts'
    BY DEF Snapshot, LocalNow, LedgerFacts, Recorded, localVars, outsideVars, stackVars
<1>6. \A w \in Workers : SessionFacts(w)'
    BY DEF Snapshot, LocalNow, SessionFacts, Recorded, Gathering, Generation, Entitled,
        localVars, outsideVars, stackVars
<1>7. QED
    BY <1>1, <1>2, <1>3, <1>4, <1>5, <1>6

\* The backup is put back; no delivery is under way.
LEMMA RestoreKeeps ==
    ASSUME IInv, Restore
    PROVE  IInv'
<1> USE DEF IInv
<1>1. TypeOK'
    <2>1. backup = [active |-> backup.active, change |-> backup.change, auth |-> backup.auth,
                    ledger |-> backup.ledger, denied |-> backup.denied]
        BY DEF TypeOK, Local
    <2>2. LocalNow' = backup
        BY <2>1 DEF Restore, LocalNow
    <2>3. restores' \in 0..MaxRestores
        BY ChainAssumption DEF Restore, TypeOK
    <2>4. QED
        BY <2>2, <2>3 DEF Restore, TypeOK, outsideVars, stackVars
<1>2. OneHistory'
    BY DEF Restore, OneHistory, Prefix, outsideVars, stackVars
<1>3. WitnessFollows'
    BY DEF Restore, WitnessFollows, Prefix, Generation, outsideVars, stackVars
<1>4. CompletedHadEffect'
    BY DEF Restore, CompletedHadEffect, outsideVars, stackVars
<1>5. LedgerFacts'
    BY DEF Restore, LedgerFacts, Recorded, outsideVars, stackVars
<1>6. \A w \in Workers : SessionFacts(w)'
    BY DEF Restore, SessionFacts, Recorded, Gathering, Generation, Entitled,
        outsideVars, stackVars
<1>7. QED
    BY <1>1, <1>2, <1>3, <1>4, <1>5, <1>6

\* A delivery begins.
LEMMA DeliverKeeps ==
    ASSUME IInv, NEW v \in Workers, NEW r \in Records, Deliver(v, r)
    PROVE  IInv'
<1> USE DEF IInv
<1>1. TypeOK'
    <2>1. job' \in [Workers -> Jobs]
        BY DEF Deliver, TypeOK, Jobs
    <2>2. pc' \in [Workers -> Labels]
        BY DEF Deliver, TypeOK, Labels
    <2>3. QED
        BY <2>1, <2>2 DEF Deliver, TypeOK, LocalNow, localVars, keptVars, outsideVars,
            stackVars
<1>2. OneHistory'
    BY DEF Deliver, OneHistory, Prefix, localVars, keptVars, outsideVars, stackVars
<1>3. WitnessFollows'
    BY DEF Deliver, WitnessFollows, Prefix, Generation, localVars, keptVars,
        outsideVars, stackVars
<1>4. CompletedHadEffect'
    BY DEF Deliver, CompletedHadEffect, localVars, keptVars, outsideVars, stackVars
<1>5. LedgerFacts'
    BY DEF Deliver, LedgerFacts, Recorded, localVars, keptVars, outsideVars, stackVars
<1>6. \A w \in Workers : SessionFacts(w)'
    <2>1. ASSUME NEW w \in Workers \ {v} PROVE SessionFacts(w)'
        <3>1. pc'[w] = pc[w] /\ job'[w] = job[w]
            BY DEF Deliver, Goto, Leave, TypeOK
        <3>2. UNCHANGED <<active, change, auth>> /\ effects \subseteq effects'
            BY DEF Deliver, localVars
        <3>3. QED
            BY <3>1, <3>2, OtherSession
    <2>2. SessionFacts(v)'
        BY DEF Deliver, SessionFacts, Recorded, Gathering, TypeOK, Jobs
    <2>3. QED
        BY <2>1, <2>2
<1>7. QED
    BY <1>1, <1>2, <1>3, <1>4, <1>5, <1>6

\* A delivery passes the fence for its evidence.
LEMMA ReadGenerationKeeps ==
    ASSUME IInv, NEW v \in Workers, ReadGeneration(v)
    PROVE  IInv'
<1> USE DEF IInv
<1>1. TypeOK'
    <2>0. Generation(active) \in Nat
        BY LocalTypes DEF Generation
    <2>1. job' \in [Workers -> Jobs] /\ pc' \in [Workers -> Labels]
        <3>1. CASE Leave(v) \/ Goto(v, "cancel")
            BY <3>1, MoveType DEF Labels
        <3>2. CASE /\ job' = [job EXCEPT ![v].gen = Generation(active)]
                   /\ pc' = [pc EXCEPT ![v] = "gen"]
            <4>1. job' \in [Workers -> Jobs]
                BY <2>0, <3>2 DEF TypeOK, Jobs
            <4>2. QED
                BY <4>1, <3>2 DEF TypeOK, Labels
        <3>3. QED
            BY <3>1, <3>2 DEF ReadGeneration
    <2>2. issued' \in Seq(Journal) /\ witness' \in Seq(Journal)
        BY ObserveKeeps DEF ReadGeneration, TypeOK, outsideVars
    <2>3. QED
        BY <2>1, <2>2 DEF ReadGeneration, TypeOK, LocalNow, localVars, keptVars, stackVars
<1>2. OneHistory'
    BY DEF ReadGeneration, Goto, Leave, NoJob, OneHistory, Prefix, localVars, keptVars,
        outsideVars, stackVars
<1>3. WitnessFollows'
    <2>1. CASE Observe
        BY <2>1, ObserveKeeps DEF ReadGeneration
    <2>2. CASE UNCHANGED outsideVars
        BY <2>2 DEF ReadGeneration, outsideVars, WitnessFollows, Prefix, Generation
    <2>3. QED
        BY <2>1, <2>2 DEF ReadGeneration
<1>4. CompletedHadEffect'
    BY DEF ReadGeneration, Goto, Leave, NoJob, CompletedHadEffect, localVars, keptVars,
        outsideVars, stackVars
<1>5. LedgerFacts'
    BY DEF ReadGeneration, Goto, Leave, NoJob, LedgerFacts, Recorded, localVars,
        keptVars, outsideVars, stackVars
<1>6. \A w \in Workers : SessionFacts(w)'
    <2>1. ASSUME NEW w \in Workers \ {v} PROVE SessionFacts(w)'
        <3>1. pc'[w] = pc[w] /\ job'[w] = job[w]
            BY DEF ReadGeneration, Goto, Leave, TypeOK
        <3>2. UNCHANGED <<active, change, auth>> /\ effects \subseteq effects'
            BY DEF ReadGeneration, localVars
        <3>3. QED
            BY <3>1, <3>2, OtherSession
    <2>2. SessionFacts(v)'
        <3>1. CASE Leave(v) \/ Goto(v, "cancel")
            BY <3>1 DEF ReadGeneration, Goto, Leave, SessionFacts, Recorded, Gathering,
                TypeOK
        <3>2. CASE /\ job' = [job EXCEPT ![v].gen = Generation(active)]
                   /\ pc' = [pc EXCEPT ![v] = "gen"]
            <4>1. /\ pc'[v] = "gen"
                  /\ job'[v].gen = Generation(active)
                  /\ job'[v].record = job[v].record
                BY <3>2 DEF TypeOK, Jobs
            <4>2. active' = active /\ job[v].record \in Records /\ Generation(active) \in Nat
                BY LocalTypes DEF ReadGeneration, SessionFacts, localVars, Generation
            <4>3. QED
                BY <4>1, <4>2 DEF SessionFacts, Gathering, Generation
        <3>3. QED
            BY <3>1, <3>2 DEF ReadGeneration
    <2>3. QED
        BY <2>1, <2>2
<1>7. QED
    BY <1>1, <1>2, <1>3, <1>4, <1>5, <1>6

\* The versions are read.
LEMMA ReadVersionsKeeps ==
    ASSUME IInv, NEW v \in Workers, ReadVersions(v)
    PROVE  IInv'
<1> USE DEF IInv
<1>1. TypeOK'
    <2>1. job' \in [Workers -> Jobs] /\ pc' \in [Workers -> Labels]
        <3>1. auth.versions \in Versions
            BY LocalTypes DEF Authorization
        <3>2. job' \in [Workers -> Jobs]
            BY <3>1 DEF ReadVersions, TypeOK, Jobs
        <3>3. pc' \in [Workers -> Labels]
            BY DEF ReadVersions, TypeOK, Labels
        <3>4. QED
            BY <3>2, <3>3
    <2>2. QED
        BY <2>1 DEF ReadVersions, TypeOK, LocalNow, localVars, keptVars, outsideVars,
            stackVars
<1>2. OneHistory'
    BY DEF ReadVersions, OneHistory, Prefix, localVars, keptVars, outsideVars, stackVars
<1>3. WitnessFollows'
    BY DEF ReadVersions, WitnessFollows, Prefix, Generation, localVars, keptVars,
        outsideVars, stackVars
<1>4. CompletedHadEffect'
    BY DEF ReadVersions, CompletedHadEffect, localVars, keptVars, outsideVars, stackVars
<1>5. LedgerFacts'
    BY DEF ReadVersions, LedgerFacts, Recorded, localVars, keptVars, outsideVars,
        stackVars
<1>6. \A w \in Workers : SessionFacts(w)'
    <2>1. ASSUME NEW w \in Workers \ {v} PROVE SessionFacts(w)'
        <3>1. pc'[w] = pc[w] /\ job'[w] = job[w]
            BY DEF ReadVersions, Goto, Leave, TypeOK
        <3>2. UNCHANGED <<active, change, auth>> /\ effects \subseteq effects'
            BY DEF ReadVersions, localVars
        <3>3. QED
            BY <3>1, <3>2, OtherSession
    <2>2. SessionFacts(v)'
        BY DEF ReadVersions, SessionFacts, Recorded, Gathering, TypeOK, Jobs, Generation,
            localVars
    <2>3. QED
        BY <2>1, <2>2
<1>7. QED
    BY <1>1, <1>2, <1>3, <1>4, <1>5, <1>6

\* The decision is taken.
LEMMA DecideKeeps ==
    ASSUME IInv, NEW v \in Workers, Decide(v)
    PROVE  IInv'
<1> USE DEF IInv
<1>1. TypeOK'
    <2>1. Entitled(auth, job[v].record) \in BOOLEAN
        BY DEF Entitled
    <2>2. job' \in [Workers -> Jobs]
        BY <2>1 DEF Decide, TypeOK, Jobs
    <2>3. pc' \in [Workers -> Labels]
        BY DEF Decide, TypeOK, Labels
    <2>4. QED
        BY <2>2, <2>3 DEF Decide, TypeOK, LocalNow, localVars, keptVars, outsideVars,
            stackVars
<1>2. OneHistory'
    BY DEF Decide, OneHistory, Prefix, localVars, keptVars, outsideVars, stackVars
<1>3. WitnessFollows'
    BY DEF Decide, WitnessFollows, Prefix, Generation, localVars, keptVars, outsideVars,
        stackVars
<1>4. CompletedHadEffect'
    BY DEF Decide, CompletedHadEffect, localVars, keptVars, outsideVars, stackVars
<1>5. LedgerFacts'
    BY DEF Decide, LedgerFacts, Recorded, localVars, keptVars, outsideVars, stackVars
<1>6. \A w \in Workers : SessionFacts(w)'
    <2>1. ASSUME NEW w \in Workers \ {v} PROVE SessionFacts(w)'
        <3>1. pc'[w] = pc[w] /\ job'[w] = job[w]
            BY DEF Decide, Goto, Leave, TypeOK
        <3>2. UNCHANGED <<active, change, auth>> /\ effects \subseteq effects'
            BY DEF Decide, localVars
        <3>3. QED
            BY <3>1, <3>2, OtherSession
    <2>2. SessionFacts(v)'
        <3>1. /\ pc[v] = "versions" /\ pc'[v] = "decided"
              /\ job'[v] = [job[v] EXCEPT !.allowed = Entitled(auth, job[v].record)]
              /\ UNCHANGED <<active, change, auth>>
            BY DEF Decide, TypeOK, localVars
        <3>2. /\ job'[v].record = job[v].record /\ job'[v].gen = job[v].gen
              /\ job'[v].versions = job[v].versions
              /\ job'[v].allowed = Entitled(auth, job[v].record)
            BY <3>1 DEF TypeOK, Jobs
        <3>3. SessionFacts(v)
            OBVIOUS
        <3>4. QED
            BY <3>1, <3>2, <3>3 DEF SessionFacts, Gathering, Generation, Entitled
    <2>3. QED
        BY <2>1, <2>2
<1>7. QED
    BY <1>1, <1>2, <1>3, <1>4, <1>5, <1>6

\* The effect is recorded, found, denied or refused.
LEMMA ExecuteKeeps ==
    ASSUME IInv, NEW v \in Workers, Execute(v)
    PROVE  IInv'
<1> USE DEF IInv
<1>1. TypeOK'
    <2>1. job' \in [Workers -> Jobs] /\ pc' \in [Workers -> Labels]
        BY MoveType DEF Execute, ExecuteDecision, Labels
    <2>2. issued' \in Seq(Journal) /\ witness' \in Seq(Journal)
        BY ObserveKeeps DEF Execute, TypeOK, outsideVars
    <2>3. job[v].record \in Records
        BY DEF Execute, SessionFacts
    <2>4. /\ ledger' \subseteq Records
          /\ denied' \subseteq Records
          /\ effects' \subseteq [record : Records, at : Journal]
        BY <2>3, LocalTypes DEF Execute, ExecuteDecision, TypeOK
    <2>5. LocalNow' \in Local
        BY <2>4, LocalTypes DEF Execute, LocalNow, Local
    <2>6. QED
        BY <2>1, <2>2, <2>4, <2>5 DEF Execute, TypeOK, keptVars, stackVars
<1>2. OneHistory'
    <2>1. ASSUME NEW e \in effects' \ effects PROVE Prefix(e.at, checkpoint)
        <3>1. e.at = active /\ FenceOpen
            BY <2>1 DEF Execute, ExecuteDecision
        <3>2. checkpoint = active /\ checkpoint \in Journal
            BY <3>1, OpenFence DEF TypeOK
        <3>3. QED
            BY <3>1, <3>2 DEF Prefix, Journal
    <2>2. QED
        BY <2>1 DEF Execute, OneHistory
<1>3. WitnessFollows'
    <2>1. CASE Observe
        BY <2>1, ObserveKeeps DEF Execute
    <2>2. CASE UNCHANGED outsideVars
        BY <2>2 DEF Execute, outsideVars, WitnessFollows, Prefix, Generation
    <2>3. QED
        BY <2>1, <2>2 DEF Execute
<1>4. CompletedHadEffect'
    BY DEF Execute, ExecuteDecision, Goto, Leave, NoJob, CompletedHadEffect, keptVars,
        outsideVars, stackVars
<1>5. LedgerFacts'
    BY DEF Execute, ExecuteDecision, Goto, Leave, NoJob, LedgerFacts, Recorded,
        keptVars, outsideVars, stackVars
<1>6. \A w \in Workers : SessionFacts(w)'
    <2>1. ASSUME NEW w \in Workers \ {v} PROVE SessionFacts(w)'
        <3>1. pc'[w] = pc[w] /\ job'[w] = job[w]
            BY DEF Execute, Goto, Leave, TypeOK, ExecuteDecision
        <3>2. UNCHANGED <<active, change, auth>> /\ effects \subseteq effects'
            BY DEF Execute, localVars, ExecuteDecision
        <3>3. QED
            BY <3>1, <3>2, OtherSession
    <2>2. SessionFacts(v)'
        <3>1. \/ pc'[v] = "idle"
              \/ /\ pc'[v] = "cancel" /\ job'[v] = job[v]
              \/ /\ pc'[v] = "ack" /\ job'[v] = job[v] /\ job[v].record \in ledger'
            BY DEF Execute, ExecuteDecision, Goto, Leave, TypeOK
        <3>2. job[v].record \in Records
            BY DEF Execute, SessionFacts
        <3>3. QED
            BY <1>5, <3>1, <3>2 DEF SessionFacts, LedgerFacts, Gathering
    <2>3. QED
        BY <2>1, <2>2
<1>7. QED
    BY <1>1, <1>2, <1>3, <1>4, <1>5, <1>6

\* The row is cancelled.
LEMMA CancelKeeps ==
    ASSUME IInv, NEW v \in Workers, Cancel(v)
    PROVE  IInv'
<1> USE DEF IInv
<1>1. TypeOK'
    <2>1. job' \in [Workers -> Jobs] /\ pc' \in [Workers -> Labels]
        BY MoveType DEF Cancel, Labels
    <2>2. outbox' \in [Records -> {"pending", "completed", "cancelled"}]
        BY DEF Cancel, TypeOK
    <2>3. QED
        BY <2>1, <2>2 DEF Cancel, TypeOK, LocalNow, localVars, keptVars, outsideVars,
            stackVars
<1>2. OneHistory'
    BY DEF Cancel, Leave, NoJob, OneHistory, Prefix, localVars, keptVars, outsideVars,
        stackVars
<1>3. WitnessFollows'
    BY DEF Cancel, Leave, NoJob, WitnessFollows, Prefix, Generation, localVars,
        keptVars, outsideVars, stackVars
<1>4. CompletedHadEffect'
    BY DEF Cancel, Leave, NoJob, CompletedHadEffect, localVars, keptVars, outsideVars,
        stackVars
<1>5. LedgerFacts'
    BY DEF Cancel, Leave, NoJob, LedgerFacts, Recorded, localVars, keptVars,
        outsideVars, stackVars
<1>6. \A w \in Workers : SessionFacts(w)'
    <2>1. ASSUME NEW w \in Workers \ {v} PROVE SessionFacts(w)'
        <3>1. pc'[w] = pc[w] /\ job'[w] = job[w]
            BY DEF Cancel, Goto, Leave, TypeOK
        <3>2. UNCHANGED <<active, change, auth>> /\ effects \subseteq effects'
            BY DEF Cancel, localVars
        <3>3. QED
            BY <3>1, <3>2, OtherSession
    <2>2. SessionFacts(v)'
        BY DEF Cancel, Leave, SessionFacts, Recorded, Gathering, TypeOK
    <2>3. QED
        BY <2>1, <2>2
<1>7. QED
    BY <1>1, <1>2, <1>3, <1>4, <1>5, <1>6

\* The row is acknowledged.
LEMMA AcknowledgeKeeps ==
    ASSUME IInv, NEW v \in Workers, Acknowledge(v)
    PROVE  IInv'
<1> USE DEF IInv
<1>1. TypeOK'
    <2>1. job' \in [Workers -> Jobs] /\ pc' \in [Workers -> Labels]
        BY MoveType DEF Acknowledge, Labels
    <2>2. outbox' \in [Records -> {"pending", "completed", "cancelled"}]
        BY DEF Acknowledge, TypeOK
    <2>3. QED
        BY <2>1, <2>2 DEF Acknowledge, TypeOK, LocalNow, localVars, keptVars, outsideVars,
            stackVars
<1>2. OneHistory'
    BY DEF Acknowledge, Leave, NoJob, OneHistory, Prefix, localVars, keptVars,
        outsideVars, stackVars
<1>3. WitnessFollows'
    BY DEF Acknowledge, Leave, NoJob, WitnessFollows, Prefix, Generation, localVars,
        keptVars, outsideVars, stackVars
<1>4. CompletedHadEffect'
    BY DEF Acknowledge, CompletedHadEffect, SessionFacts, Recorded, TypeOK
<1>5. LedgerFacts'
    BY DEF Acknowledge, Leave, NoJob, LedgerFacts, Recorded, localVars, keptVars,
        outsideVars, stackVars
<1>6. \A w \in Workers : SessionFacts(w)'
    <2>1. ASSUME NEW w \in Workers \ {v} PROVE SessionFacts(w)'
        <3>1. pc'[w] = pc[w] /\ job'[w] = job[w]
            BY DEF Acknowledge, Goto, Leave, TypeOK
        <3>2. UNCHANGED <<active, change, auth>> /\ effects \subseteq effects'
            BY DEF Acknowledge, localVars
        <3>3. QED
            BY <3>1, <3>2, OtherSession
    <2>2. SessionFacts(v)'
        BY DEF Acknowledge, Leave, SessionFacts, Recorded, Gathering, TypeOK
    <2>3. QED
        BY <2>1, <2>2
<1>7. QED
    BY <1>1, <1>2, <1>3, <1>4, <1>5, <1>6

\* A step that changes nothing.
LEMMA StutterKeeps ==
    ASSUME IInv, UNCHANGED vars
    PROVE  IInv'
<1> USE DEF IInv
<1>1. TypeOK'
    BY LocalTypes DEF vars, TypeOK, LocalNow, Local
<1>2. OneHistory'
    BY DEF vars, OneHistory, Prefix
<1>3. WitnessFollows'
    BY DEF vars, WitnessFollows, Prefix, Generation
<1>4. CompletedHadEffect'
    BY DEF vars, CompletedHadEffect
<1>5. LedgerFacts'
    BY DEF vars, LedgerFacts, Recorded
<1>6. \A w \in Workers : SessionFacts(w)'
    BY DEF vars, SessionFacts, Recorded, Gathering, Generation, Entitled
<1>7. QED
    BY <1>1, <1>2, <1>3, <1>4, <1>5, <1>6

\* Every step keeps the invariant.
LEMMA Inductive == IInv /\ [Next]_vars => IInv'
BY PrepareKeeps, ApplyChangeKeeps, ActivateKeeps, SynchronizeKeeps, StartStackKeeps,
    RecoverStackKeeps, ValidateStackKeeps, CrashKeeps, SnapshotKeeps, RestoreKeeps,
    DeliverKeeps, ReadGenerationKeeps, ReadVersionsKeeps, DecideKeeps, ExecuteKeeps,
    CancelKeeps, AcknowledgeKeeps, StutterKeeps DEF Next

\* The inductive invariant holds throughout: the properties below are parts
\* of it or follow from it.
THEOREM Invariance == Spec => []IInv
BY Initially, Inductive, PTL DEF Spec

\* The chain is type-correct for every set of changes, records and
\* deliveries, and whatever is restored.
THEOREM TypeCorrect == Spec => []TypeOK
BY Invariance, PTL DEF IInv

\* Effects never belong to two diverging journals, however often the local
\* databases are restored and changed differently.
THEOREM HistoryCorrect == Spec => []OneHistory
BY Invariance, PTL DEF IInv

\* The receipts and the witness follow the checkpoint.
THEOREM WitnessCorrect == Spec => []WitnessFollows
BY Invariance, PTL DEF IInv

\* A completed outbox row had its effect.
THEOREM CompletedCorrect == Spec => []CompletedHadEffect
BY Invariance, PTL DEF IInv

\* Whatever deliveries of one record race, its outbox row is settled once, and
\* as completed only after the effect: a delivery that is about to
\* acknowledge has the effect recorded (SessionFacts), and no step forgets it.
THEOREM RowSettledCorrect == Spec => RowSettled
<1> DEFINE Settles(r) == outbox'[r] # outbox[r] =>
               outbox[r] = "pending" /\ (outbox'[r] = "completed" => Recorded(r))
<1>1. ASSUME IInv, [Next]_vars, NEW r \in Records PROVE Settles(r)
    <2>0. outbox \in [Records -> {"pending", "completed", "cancelled"}]
        BY <1>1 DEF IInv, TypeOK
    <2>1. ASSUME NEW w \in Workers, Cancel(w) PROVE Settles(r)
        <3>1. \/ outbox'[r] = outbox[r]
              \/ outbox[r] # "completed" /\ outbox'[r] = "cancelled"
            BY <2>0, <2>1 DEF Cancel
        <3>2. QED
            BY <2>0, <3>1
    <2>2. ASSUME NEW w \in Workers, Acknowledge(w) PROVE Settles(r)
        <3>1. Recorded(job[w].record)
            BY <1>1, <2>2 DEF Acknowledge, IInv, SessionFacts
        <3>2. CASE r = job[w].record /\ outbox[r] = "pending"
            BY <3>1, <3>2
        <3>3. CASE r = job[w].record /\ outbox[r] # "pending"
            BY <2>2, <3>3 DEF Acknowledge
        <3>4. CASE r # job[w].record
            BY <2>0, <2>2, <3>4 DEF Acknowledge
        <3>5. QED
            BY <3>2, <3>3, <3>4
    <2>3. CASE UNCHANGED outbox
        BY <2>3
    <2>4. QED
        BY <1>1, <2>1, <2>2, <2>3 DEF Next, vars, Prepare, ApplyChange, Activate,
            Synchronize, StartStack, RecoverStack, ValidateStack, Crash, Snapshot, Restore,
            Deliver, ReadGeneration, ReadVersions, Decide, Execute
<1>2. IInv /\ [Next]_vars =>
        [\A r \in Records : outbox'[r] # outbox[r] =>
            /\ outbox[r] = "pending"
            /\ outbox'[r] = "completed" => \E e \in effects : e.record = r]_vars
    BY <1>1 DEF Recorded
<1>3. QED
    BY <1>2, Invariance, PTL DEF Spec, RowSettled

\* Passing the receipt fence implies the conditions of the P2-R fence.
THEOREM FencesCorrect == Spec => []FencesAgree
<1>1. IInv => FencesAgree
    BY OpenFence DEF IInv, FencesAgree, ProtectedFenceOpen, FenceOpen
<1>2. QED
    BY <1>1, Invariance, PTL

\* What it takes to record an effect: the fence is open, and the rows of the
\* moment, which belong to the checkpointed journal, entitle the request.
LEMMA EffectSteps ==
    ASSUME IInv, [Next]_vars, NEW e \in effects' \ effects
    PROVE  /\ Converged /\ checkpoint = active /\ UNCHANGED checkpoint
           /\ e.record \in Records /\ Entitled(auth, e.record)
           /\ e = [record |-> e.record, at |-> checkpoint]
           /\ effects' = effects \cup {e}
<1>1. PICK w \in Workers : Execute(w)
    BY DEF Next, vars, Prepare, ApplyChange, Activate, Synchronize, StartStack,
        RecoverStack, ValidateStack, Crash, Snapshot, Restore, Deliver, ReadGeneration,
        ReadVersions, Decide, Cancel, Acknowledge
<1>2. /\ pc[w] = "decided"
      /\ FenceOpen
      /\ EnvelopeAccepted(w)
      /\ Valid(w)
      /\ e = [record |-> job[w].record, at |-> active]
      /\ effects' = effects \cup {e}
      /\ UNCHANGED checkpoint
    BY <1>1 DEF Execute, ExecuteDecision
<1>3. checkpoint = active
    BY <1>2, OpenFence DEF IInv
<1>4. job[w].record \in Records /\ Entitled(auth, job[w].record)
    BY <1>2 DEF IInv, SessionFacts, Gathering, EnvelopeAccepted, Valid, FenceOpen,
        Converged, NoneInFlight
<1>5. QED
    BY <1>2, <1>3, <1>4 DEF FenceOpen

\* An effect is recorded under the checkpointed journal and while the rows of
\* that moment entitle it, whatever happened since its evidence was read.
THEOREM EffectsCorrect == Spec => EffectsGoverned
<1>1. IInv /\ [Next]_vars =>
        [\A e \in effects' \ effects : e.at = checkpoint /\ Entitled(auth, e.record)]_vars
    BY EffectSteps
<1>2. QED
    BY <1>1, Invariance, PTL DEF Spec, EffectsGoverned

-----------------------------------------------------------------------------
(* The local rows follow the local journal, so the chain implements the    *)
(* abstract governed history.                                              *)

\* The authorization rows that the changes of journal h lead to.
RowsAfter(h) == Replay([k \in 1..Len(h) |-> h[k].mutation], Len(h))

\* The rows a are those of the active changes h, and of the change in flight
\* once it is applied.
RowsFollow(h, c, a) ==
    a = IF c.applied THEN Mutate(RowsAfter(h), c.entry.mutation) ELSE RowsAfter(h)

\* So they are now, and so they were when the backup was taken.
LocalFollows ==
    /\ RowsFollow(active, change, auth)
    /\ RowsFollow(backup.active, backup.change, backup.auth)

\* One more change is one more mutation.
LEMMA RowsAfterAppend ==
    ASSUME NEW h \in Journal, NEW c \in Submissions
    PROVE  RowsAfter(Append(h, c)) = Mutate(RowsAfter(h), c.mutation)
<1> DEFINE M == [k \in 1..Len(h) |-> h[k].mutation]
           N == [k \in 1..Len(Append(h, c)) |-> Append(h, c)[k].mutation]
<1>1. /\ Len(h) \in Nat
      /\ Len(Append(h, c)) = Len(h) + 1
      /\ Append(h, c)[Len(h) + 1] = c
      /\ \A k \in 1..Len(h) : Append(h, c)[k] = h[k]
    BY AppendProperties, LenProperties DEF Journal
<1>2. N[Len(h) + 1] = c.mutation /\ \A k \in 1..Len(h) : N[k] = M[k]
    BY <1>1
<1>3. RowsAfter(h) = Replay(M, Len(h)) /\ RowsAfter(Append(h, c)) = Replay(N, Len(h) + 1)
    BY <1>1 DEF RowsAfter
<1> HIDE DEF M, N
<1>4. Replay(N, Len(h) + 1) = Mutate(Replay(N, Len(h)), N[Len(h) + 1])
    BY <1>1, ReplayStep
<1>5. Replay(N, Len(h)) = Replay(M, Len(h))
    BY <1>1, <1>2, ReplaySame
<1>6. QED
    BY <1>2, <1>3, <1>4, <1>5

\* At first there are no changes, in the databases or in the backup.
LEMMA InitiallyFollows == Init => LocalFollows
<1> SUFFICES ASSUME Init PROVE LocalFollows
    OBVIOUS
<1>1. RowsAfter(<<>>) = InitialAuthorization
    BY EmptySeq, ReplayStep DEF RowsAfter
<1>2. QED
    BY <1>1 DEF Init, InitialLocal, NoneInFlight, LocalFollows, RowsFollow

\* Every step keeps the rows with their journal, a restore included.
LEMMA FollowsInductive == IInv /\ LocalFollows /\ [Next]_vars => LocalFollows'
<1> SUFFICES ASSUME IInv, LocalFollows, [Next]_vars PROVE LocalFollows'
    OBVIOUS
<1>1. ASSUME NEW c \in Submissions, Prepare(c) PROVE LocalFollows'
    BY <1>1 DEF Prepare, Converged, NoneInFlight, LocalFollows, RowsFollow, keptVars
<1>2. CASE ApplyChange
    <2>1. change'.applied /\ change'.entry = change.entry
        BY <1>2, PendingEntry, LocalTypes DEF ApplyChange, IInv, InFlight, NoneInFlight
    <2>2. QED
        BY <1>2, <2>1 DEF ApplyChange, LocalFollows, RowsFollow, keptVars
<1>3. CASE Activate
    <2>1. active \in Journal /\ change.entry \in Submissions
        BY <1>3, LocalTypes, PendingEntry DEF Activate, IInv
    <2>2. RowsAfter(active') = Mutate(RowsAfter(active), change.entry.mutation)
        BY <1>3, <2>1, RowsAfterAppend DEF Activate
    <2>3. QED
        BY <1>3, <2>2 DEF Activate, NoneInFlight, LocalFollows, RowsFollow, keptVars
<1>4. CASE Snapshot
    BY <1>4 DEF Snapshot, LocalNow, localVars, LocalFollows, RowsFollow
<1>5. CASE Restore
    BY <1>5 DEF Restore, LocalFollows, RowsFollow
<1>6. CASE UNCHANGED <<active, change, auth, backup>>
    BY <1>6 DEF LocalFollows, RowsFollow
<1>7. QED
    BY <1>1, <1>2, <1>3, <1>4, <1>5, <1>6 DEF Next, vars, Synchronize, StartStack,
        RecoverStack, ValidateStack, Crash, Deliver, ReadGeneration, ReadVersions, Decide,
        Execute, Cancel, Acknowledge, localVars, keptVars

\* The authorization rows, whatever was restored, are those that the changes
\* of the local journal lead to, so a journal never vouches for rows that it
\* did not produce.
THEOREM RowsCorrect == Spec => []LocalFollows
BY InitiallyFollows, FollowsInductive, Invariance, PTL DEF Spec

\* A step of the chain extends the history by the next change, records an
\* entitled effect under it, or does not show.
LEMMA GovernedSteps ==
    ASSUME IInv, LocalFollows, [Next]_vars
    PROVE  [Governed!Next]_<<checkpoint, effects>>
<1>1. CASE Synchronize
    <2>1. active[Len(checkpoint) + 1] \in Submissions
        BY <1>1, LocalTypes, LenProperties, ElementOfSeq DEF Synchronize, IInv, TypeOK, Journal
    <2>2. QED
        BY <1>1, <2>1 DEF Synchronize, Governed!Next, Governed!Extend
<1>2. ASSUME NEW e \in effects' \ effects PROVE Governed!Next
    <2>1. /\ Converged /\ checkpoint = active /\ UNCHANGED checkpoint
          /\ e.record \in Records /\ Entitled(auth, e.record)
          /\ e = [record |-> e.record, at |-> checkpoint]
          /\ effects' = effects \cup {e}
        BY <1>2, EffectSteps
    <2>2. auth = RowsAfter(checkpoint)
        BY <2>1 DEF LocalFollows, RowsFollow, Converged, NoneInFlight
    <2>3. Governed!AuthorizationAfter(checkpoint) = RowsAfter(checkpoint)
        BY Zenon DEF Governed!AuthorizationAfter, RowsAfter, Replay, Governed!Replay,
            Mutate, Governed!Mutate, Bump, Governed!Bump,
            InitialAuthorization, Governed!InitialAuthorization
    <2>4. Governed!Entitled(RowsAfter(checkpoint), e.record)
        BY <2>1, <2>2 DEF Entitled, Governed!Entitled
    <2>5. Governed!Record(e.record)
        BY <2>1, <2>3, <2>4 DEF Governed!Record
    <2>6. QED
        BY <2>1, <2>5 DEF Governed!Next
<1>3. CASE ~Synchronize /\ effects' \ effects = {}
    <2>1. effects \subseteq effects' /\ UNCHANGED checkpoint
        BY <1>3 DEF Next, vars, Prepare, ApplyChange, Activate, StartStack,
            RecoverStack, ValidateStack, Crash, Snapshot, Restore, Deliver, ReadGeneration,
            ReadVersions, Decide, Execute, ExecuteDecision, Cancel, Acknowledge
    <2>2. QED
        BY <1>3, <2>1
<1>4. QED
    BY <1>1, <1>2, <1>3

\* The chain implements one growing history of changes under which every
\* effect was entitled when it was recorded, whatever is restored, lost,
\* crashed or delivered concurrently.
THEOREM GovernedCorrect == Spec => RefinesGovernedHistory
<1>1. Init => Governed!Init
    BY DEF Init, Governed!Init
<1>2. IInv /\ LocalFollows /\ [Next]_vars => [Governed!Next]_<<checkpoint, effects>>
    BY GovernedSteps
<1>3. QED
    BY <1>1, <1>2, Invariance, RowsCorrect, PTL DEF Spec, RefinesGovernedHistory, Governed!Spec
=============================================================================
