------------------------ MODULE WitnessedJournalProofs ------------------------
(***************************************************************************)
(* Proofs about WitnessedJournal, for any commands and any number of       *)
(* journal copies and restores.                                            *)
(*                                                                         *)
(* The properties are not inductive by themselves: HistoryKept speaks of   *)
(* the journal, which an operator can put back, while what survives is the *)
(* witness.  Inv therefore keeps every answer in the witness (Answers) and *)
(* says that the journal continues it whenever a call runs or no copy was  *)
(* ever put back (Ahead).                                                  *)
(***************************************************************************)
EXTENDS WitnessedJournal, FiniteSetTheorems, TLAPS

\* Journal j keeps all that w had and no row of it went back.
Continues(w, j) ==
    /\ Len(j) >= Len(w)
    /\ \A f \in DOMAIN w : RowContinues(j[f], w[f])

\* A file the code wrote: ids are unique, and exactly committed rows have an anchor.
Sound(j) ==
    /\ \A f, g \in DOMAIN j : j[f].cmd = j[g].cmd => f = g
    /\ \A f \in DOMAIN j : j[f].state = "committed" <=> j[f].after # Absent

SoundFiles ==
    /\ Sound(journal)
    /\ witness # Absent => Sound(witness)
    /\ \A j \in copies : Sound(j)

Holds(w, h) ==
    h.fence \in DOMAIN w /\ w[h.fence].cmd = h.cmd /\ w[h.fence].pre.anchor = h.expected

Records(w, r) ==
    /\ r.fence \in DOMAIN w /\ w[r.fence].cmd = r.cmd
    /\ w[r.fence].state = "committed" /\ w[r.fence].after = r.after

\* What was answered is witnessed.
Answers ==
    /\ \A h \in held : Holds(witness, h)
    /\ \A r \in receipts : Records(witness, r)

\* Before the first start has written the witness nothing was answered.
Witnessed ==
    /\ witness = Absent => held = {} /\ receipts = {} /\ pc \in {"closed", "opened", "create"}
    /\ pc = "create" => witness = Absent

Ahead == witness # Absent /\ (restores = 0 \/ Serving) => Continues(witness, journal)

\* The state of the row that a call of each label works on.
StateAt(l) ==
    CASE l = "start" -> {"prepared"}
      [] l \in {"demote", "invoke", "fail", "commit"} -> {"provider_started"}
      [] l = "prove" -> {"reconciliation_required"}
      [] l = "sync" -> {"committed"}

CallFacts ==
    /\ pc = "issue" => call.kind = "issue"
    /\ Serving /\ call.kind = "issue" => pc \in {"issue", "sync"}
    /\ Serving /\ call.kind # "issue" =>
          /\ call.fence \in DOMAIN journal
          /\ journal[call.fence].cmd = call.cmd
          /\ journal[call.fence].state \in StateAt(pc)

Inv == TypeOK /\ SoundFiles /\ Answers /\ Witnessed /\ Ahead /\ CallFacts

-----------------------------------------------------------------------------
(* Continuation.                                                           *)

\* Ranks are numbers that tell the states apart, as _STATE_RANK does.
LEMMA RankFacts ==
    /\ \A s \in States : Rank(s) \in 0..3
    /\ \A s, t \in States : Rank(s) = Rank(t) => s = t
    /\ \A s \in States : Rank(s) >= 3 => s = "committed"
<1>1. /\ Rank("prepared") = 0 /\ Rank("provider_started") = 1
      /\ Rank("reconciliation_required") = 2 /\ Rank("committed") = 3
  BY DEF Rank
<1> QED
  BY <1>1 DEF States

\* A journal continues itself.
LEMMA ContinuesItself ==
    ASSUME NEW j \in Seq(Row)
    PROVE  Continues(j, j)
<1>1. ASSUME NEW f \in DOMAIN j PROVE RowContinues(j[f], j[f])
  <2>1. j[f] \in Row
    OBVIOUS
  <2>2. j[f].state \in States
    BY <2>1 DEF Row
  <2>3. Rank(j[f].state) \in 0..3
    BY <2>2, RankFacts
  <2> QED
    BY <2>3 DEF RowContinues
<1> QED
  BY <1>1 DEF Continues

\* Continuation is transitive.
LEMMA ContinuesTransitive ==
    ASSUME NEW i \in Seq(Row), NEW j \in Seq(Row), NEW k \in Seq(Row),
           Continues(i, j), Continues(j, k)
    PROVE  Continues(i, k)
<1>1. Len(k) >= Len(i)
  BY DEF Continues
<1>2. ASSUME NEW f \in DOMAIN i PROVE RowContinues(k[f], i[f])
  <2>1. f \in DOMAIN j /\ f \in DOMAIN k
    BY DEF Continues
  <2>2. RowContinues(j[f], i[f]) /\ RowContinues(k[f], j[f])
    BY <2>1 DEF Continues
  <2>3. i[f] \in Row /\ j[f] \in Row /\ k[f] \in Row
    BY <2>1
  <2>4. i[f].state \in States /\ j[f].state \in States /\ k[f].state \in States
    BY <2>3 DEF Row
  <2>5. Rank(i[f].state) \in 0..3 /\ Rank(j[f].state) \in 0..3 /\ Rank(k[f].state) \in 0..3
    BY <2>4, RankFacts
  <2> QED
    BY <2>2, <2>5 DEF RowContinues
<1> QED
  BY <1>1, <1>2 DEF Continues

\* _classify_current_against_witness rejects no journal that continues the witness.
LEMMA ContinuationAccepted ==
    ASSUME NEW w \in Seq(Row), NEW j \in Seq(Row), Sound(w), Sound(j), Continues(w, j)
    PROVE  Accepts(w, j)
<1>1. Len(j) >= Len(w) /\ \A f \in DOMAIN w : f \in DOMAIN j /\ RowContinues(j[f], w[f])
  BY DEF Continues
<1>2. CommittedFences(w) \subseteq CommittedFences(j)
  BY <1>1 DEF CommittedFences, RowContinues
<1>3. HighestNotBelow(j, w)
  <2>1. \A f \in CommittedFences(w) : f \in CommittedFences(j) /\ f >= f
    BY <1>2 DEF CommittedFences
  <2> QED
    BY <2>1 DEF HighestNotBelow
<1>4. Cardinality(CommittedFences(j)) >= Cardinality(CommittedFences(w))
  <2>1. DOMAIN j = 1..Len(j) /\ Len(j) \in Nat
    OBVIOUS
  <2>2. IsFiniteSet(1..Len(j))
    BY <2>1, FS_Interval
  <2>3. IsFiniteSet(CommittedFences(j))
    <3>1. CommittedFences(j) \subseteq 1..Len(j)
      BY <2>1 DEF CommittedFences
    <3> QED
      BY <3>1, <2>2, FS_Subset
  <2>4. /\ IsFiniteSet(CommittedFences(w))
        /\ Cardinality(CommittedFences(w)) <= Cardinality(CommittedFences(j))
    BY <1>2, <2>3, FS_Subset
  <2>5. Cardinality(CommittedFences(w)) \in Nat /\ Cardinality(CommittedFences(j)) \in Nat
    BY <2>3, <2>4, FS_CardinalityType
  <2> QED
    BY <2>4, <2>5
<1>5. ASSUME ~StrictProgress(w, j) PROVE j = w
  <2>1. Len(j) = Len(w)
    BY <1>1, <1>5 DEF StrictProgress
  <2>2. ASSUME NEW f \in DOMAIN w PROVE j[f] = w[f]
    <3>1. RowContinues(j[f], w[f]) /\ f \in DOMAIN j
      BY <1>1
    <3>2. j[f] \in Row /\ w[f] \in Row
      BY <3>1
    <3>3. j[f].state \in States /\ w[f].state \in States
      BY <3>2 DEF Row
    <3>4. ~(Rank(j[f].state) > Rank(w[f].state))
      BY <1>5 DEF StrictProgress
    <3>5. Rank(j[f].state) >= Rank(w[f].state)
      BY <3>1 DEF RowContinues
    <3>6. Rank(j[f].state) = Rank(w[f].state)
      <4>1. Rank(j[f].state) \in 0..3 /\ Rank(w[f].state) \in 0..3
        BY <3>3, RankFacts
      <4> QED
        BY <4>1, <3>4, <3>5
    <3>7. j[f].state = w[f].state
      BY <3>3, <3>6, RankFacts
    <3>8. j[f].after = w[f].after
      <4>1. CASE w[f].state = "committed"
        BY <4>1, <3>1 DEF RowContinues
      <4>2. CASE w[f].state # "committed"
        BY <4>2, <3>1, <3>7 DEF Sound
      <4> QED
        BY <4>1, <4>2
    <3>9. j[f].cmd = w[f].cmd /\ j[f].pre = w[f].pre
      BY <3>1 DEF RowContinues
    <3> QED
      BY <3>2, <3>7, <3>8, <3>9 DEF Row
  <2> QED
    BY <2>1, <2>2
<1> QED
  BY <1>1, <1>3, <1>4, <1>5 DEF Accepts

\* What the code accepts is a continuation.
LEMMA AcceptedContinues ==
    ASSUME NEW w, NEW j, Accepts(w, j)
    PROVE  Continues(w, j)
BY DEF Accepts, Continues

\* Answers in a file are in every continuation of it.
LEMMA AnswersCarry ==
    ASSUME NEW w \in Seq(Row), NEW j \in Seq(Row), Continues(w, j)
    PROVE  /\ \A h : Holds(w, h) => Holds(j, h)
           /\ \A r : Records(w, r) => Records(j, r)
<1>1. \A f \in DOMAIN w : f \in DOMAIN j /\ RowContinues(j[f], w[f])
  BY DEF Continues
<1> QED
  BY <1>1 DEF Holds, Records, RowContinues

-----------------------------------------------------------------------------
(* Journal writes.                                                         *)

\* _set_state to a later state other than committed.
LEMMA SetStateForward ==
    ASSUME journal \in Seq(Row), Sound(journal), NEW f \in DOMAIN journal, NEW s \in States,
           journal[f].state # "committed", s # "committed",
           Rank(s) >= Rank(journal[f].state), SetState(f, s)
    PROVE  /\ journal' \in Seq(Row) /\ Sound(journal') /\ Continues(journal, journal')
           /\ DOMAIN journal' = DOMAIN journal
           /\ journal'[f].state = s /\ journal'[f].cmd = journal[f].cmd
<1> DEFINE j == journal
           k == journal'
<1>0. k = [j EXCEPT ![f].state = s]
  BY DEF SetState
<1>1. j[f] \in Row
  OBVIOUS
<1>2. k[f] = [j[f] EXCEPT !.state = s]
  BY <1>0
<1>3. k[f] \in Row /\ k[f].state = s /\ k[f].cmd = j[f].cmd /\ k[f].pre = j[f].pre
        /\ k[f].after = j[f].after
  BY <1>1, <1>2 DEF Row
<1>4. k \in Seq(Row) /\ Len(k) = Len(j) /\ DOMAIN k = DOMAIN j
  BY <1>0, <1>2, <1>3
<1>5. \A g \in DOMAIN j : g # f => k[g] = j[g]
  BY <1>0
<1>6. Sound(k)
  BY <1>3, <1>4, <1>5 DEF Sound
<1>7. Continues(j, k)
  <2>1. Continues(j, j)
    BY ContinuesItself
  <2>2. RowContinues(k[f], j[f])
    BY <1>3 DEF RowContinues
  <2> QED
    BY <1>4, <1>5, <2>1, <2>2 DEF Continues
<1> QED
  BY <1>3, <1>4, <1>6, <1>7

\* _commit_receipt
LEMMA CommitForward ==
    ASSUME journal \in Seq(Row), Sound(journal), store.anchor \in Nat,
           call.fence \in DOMAIN journal, journal[call.fence].state # "committed", CommitReceipt
    PROVE  /\ journal' \in Seq(Row) /\ Sound(journal') /\ Continues(journal, journal')
           /\ DOMAIN journal' = DOMAIN journal
           /\ journal'[call.fence].state = "committed"
           /\ journal'[call.fence].cmd = journal[call.fence].cmd
<1> DEFINE j == journal
           k == journal'
           f == call.fence
           a == store.anchor
<1>0. k = [j EXCEPT ![f].state = "committed", ![f].after = a]
  BY DEF CommitReceipt
<1>1. j[f] \in Row
  OBVIOUS
<1>2. k[f] = [j[f] EXCEPT !.state = "committed", !.after = a]
  BY <1>0, <1>1 DEF Row
<1>3. k[f] \in Row /\ k[f].state = "committed" /\ k[f].cmd = j[f].cmd /\ k[f].pre = j[f].pre
        /\ k[f].after = a
  BY <1>1, <1>2 DEF Row, States
<1>4. DOMAIN k = DOMAIN j /\ \A g \in DOMAIN j : g # f => k[g] = j[g]
  BY <1>0
<1>5. k \in Seq(Row) /\ Len(k) = Len(j) /\ DOMAIN k = DOMAIN j
  <2>1. DOMAIN j = 1..Len(j) /\ Len(j) \in Nat /\ \A g \in DOMAIN j : j[g] \in Row
    OBVIOUS
  <2>2. \A g \in DOMAIN j : k[g] \in Row
    BY <1>3, <1>4, <2>1
  <2>3. k = [g \in DOMAIN k |-> k[g]]
    BY <1>0
  <2>4. k \in [1..Len(j) -> Row]
    BY <1>4, <2>1, <2>2, <2>3
  <2> QED
    BY <2>1, <2>4
<1>6. a # Absent
  BY JournalAssumption
<1>7. Sound(k)
  BY <1>3, <1>5, <1>4, <1>6 DEF Sound
<1>8. Continues(j, k)
  <2>1. Continues(j, j)
    BY ContinuesItself
  <2>2. Rank("committed") >= Rank(j[f].state)
    <3>1. j[f].state \in States
      BY <1>1 DEF Row
    <3> QED
      BY <3>1 DEF Rank, States
  <2>3. RowContinues(k[f], j[f])
    BY <1>3, <2>2 DEF RowContinues
  <2> QED
    BY <1>5, <1>4, <2>1, <2>3 DEF Continues
<1> QED
  BY <1>3, <1>5, <1>7, <1>8

\* A new command at the end of the journal.
LEMMA AppendForward ==
    ASSUME NEW j \in Seq(Row), Sound(j), NEW c \in Commands, NEW p \in Store,
           \A f \in DOMAIN j : j[f].cmd # c
    PROVE  LET k == Append(j, [cmd |-> c, pre |-> p, state |-> "prepared", after |-> Absent]) IN
             k \in Seq(Row) /\ Sound(k) /\ Continues(j, k)
<1> DEFINE row == [cmd |-> c, pre |-> p, state |-> "prepared", after |-> Absent]
           k == Append(j, row)
<1>1. row \in Row
  BY DEF Row, States
<1>2. k \in Seq(Row) /\ Len(k) = Len(j) + 1 /\ DOMAIN k = 1..(Len(j) + 1)
  BY <1>1
<1>3. \A f \in DOMAIN j : k[f] = j[f]
  BY <1>1
<1>4. k[Len(j) + 1] = row
  BY <1>1
<1>5. DOMAIN j = 1..Len(j) /\ Len(j) \in Nat
  OBVIOUS
<1>6. Sound(k)
  <2>1. \A f \in DOMAIN k : f \in DOMAIN j \/ f = Len(j) + 1
    BY <1>2, <1>5
  <2>2. \A f \in DOMAIN k : k[f].state = "committed" <=> k[f].after # Absent
    BY <1>3, <1>4, <2>1 DEF Sound
  <2>3. \A f, g \in DOMAIN k : k[f].cmd = k[g].cmd => f = g
    BY <1>3, <1>4, <2>1 DEF Sound
  <2> QED
    BY <2>2, <2>3 DEF Sound
<1>7. Continues(j, k)
  <2>1. Continues(j, j)
    BY ContinuesItself
  <2> QED
    BY <1>2, <1>3, <1>5, <2>1 DEF Continues
<1> QED
  BY <1>2, <1>6, <1>7

\* _recover_started_commands
LEMMA DemoteForward ==
    ASSUME NEW j \in Seq(Row), Sound(j)
    PROVE  LET k == [f \in DOMAIN j |-> Demoted(j[f])] IN
             k \in Seq(Row) /\ Sound(k) /\ Continues(j, k)
<1> DEFINE k == [f \in DOMAIN j |-> Demoted(j[f])]
<1>1. ASSUME NEW f \in DOMAIN j
      PROVE  /\ k[f] \in Row /\ k[f].cmd = j[f].cmd /\ k[f].after = j[f].after
             /\ k[f].state = "committed" <=> j[f].state = "committed"
             /\ RowContinues(k[f], j[f])
  <2>0. j[f] \in Row
    OBVIOUS
  <2>1. j[f] \in Row /\ j[f].state \in States
    BY <2>0 DEF Row
  <2>2. CASE j[f].state = "provider_started"
    <3>1. k[f] = [j[f] EXCEPT !.state = "reconciliation_required"]
      BY <2>2 DEF Demoted
    <3>2. k[f] \in Row /\ k[f].state = "reconciliation_required" /\ k[f].cmd = j[f].cmd
            /\ k[f].pre = j[f].pre /\ k[f].after = j[f].after
      BY <2>1, <3>1 DEF Row, States
    <3> QED
      BY <2>2, <3>2 DEF RowContinues, Rank
  <2>3. CASE j[f].state # "provider_started"
    <3>1. k[f] = j[f]
      BY <2>3 DEF Demoted
    <3>2. Rank(j[f].state) \in 0..3
      BY <2>1, RankFacts
    <3> QED
      BY <2>1, <3>1, <3>2 DEF RowContinues
  <2> QED
    BY <2>2, <2>3
<1>2. DOMAIN j = 1..Len(j) /\ Len(j) \in Nat
  OBVIOUS
<1>3. k \in Seq(Row) /\ Len(k) = Len(j) /\ DOMAIN k = DOMAIN j
  <2>1. k \in [1..Len(j) -> Row]
    BY <1>1, <1>2
  <2> QED
    BY <2>1, <1>2
<1>4. Sound(k)
  BY <1>1, <1>3 DEF Sound
<1>5. Continues(j, k)
  BY <1>1, <1>3, <1>2 DEF Continues
<1> QED
  BY <1>3, <1>4, <1>5

-----------------------------------------------------------------------------
(* The invariant.                                                          *)

\* A lifecycle operation leaves a store, a backup and an event number.
LEMMA ProviderTypes ==
    ASSUME TypeOK, NEW c \in Commands, ProviderOperation(c)
    PROVE  store' \in Store /\ backup' \in Store \cup {Absent} /\ clock' \in 0..MaxEvents
<1> USE JournalAssumption
<1>1. c \in Migrations \/ c \in Snapshots \/ c \in Restores
  BY DEF Commands
<1>2. CASE c \in Migrations
  <2>1. /\ clock < MaxEvents
        /\ clock' = IF store.legacy THEN clock + 1 ELSE clock
        /\ store' = IF store.legacy THEN [store EXCEPT !.legacy = FALSE, !.anchor = clock + 1]
                    ELSE store
        /\ backup' = backup
    BY <1>2 DEF ProviderOperation
  <2>2. clock' \in 0..MaxEvents /\ clock + 1 \in Nat
    BY <2>1 DEF TypeOK
  <2>3. store' \in Store
    BY <2>1, <2>2 DEF TypeOK, Store
  <2> QED
    BY <2>1, <2>2, <2>3 DEF TypeOK
<1>3. CASE c \in Snapshots
  BY <1>3 DEF ProviderOperation, TypeOK, Store
<1>4. CASE c \in Restores
  BY <1>4 DEF ProviderOperation, TypeOK, Store
<1> QED
  BY <1>1, <1>2, <1>3, <1>4

\* A journal write that goes forward, with everything else on disk left alone.
LEMMA JournalForward ==
    ASSUME Inv, journal' \in Seq(Row), Sound(journal'), Continues(journal, journal'),
           UNCHANGED <<fileVars, answerVars, operatorVars>>,
           call' # NoCall => Serving
    PROVE  SoundFiles' /\ Answers' /\ Ahead'
<1> USE DEF fileVars, answerVars, operatorVars
<1>1. SoundFiles'
  BY DEF Inv, SoundFiles
<1>2. Answers'
  BY DEF Inv, Answers
<1>3. Ahead'
  <2> SUFFICES ASSUME witness # Absent, restores = 0 \/ call' # NoCall
               PROVE  Continues(witness, journal')
    BY DEF Ahead, Serving
  <2>1. Continues(witness, journal)
    BY DEF Inv, Ahead, Serving
  <2>2. witness \in Seq(Row) /\ journal \in Seq(Row)
    BY DEF Inv, TypeOK
  <2> QED
    BY <2>1, <2>2, ContinuesTransitive
<1> QED
  BY <1>1, <1>2, <1>3

\* _verify_or_advance_witness keeps every answer and brings the witness up to date.
LEMMA VerifyForward ==
    ASSUME Inv, witness # Absent, VerifyOrAdvance, UNCHANGED <<journal, answerVars, operatorVars>>
    PROVE  SoundFiles' /\ Answers' /\ Ahead' /\ witness' # Absent
             /\ witness' \in Seq(Row) \cup {Absent}
<1> USE DEF answerVars, operatorVars
<1>1. witness' = journal /\ Continues(witness, journal)
  BY AcceptedContinues DEF VerifyOrAdvance
<1>2. witness \in Seq(Row) /\ journal \in Seq(Row)
  BY DEF Inv, TypeOK
<1>3. journal # Absent
  BY <1>2, JournalAssumption
<1>4. SoundFiles'
  BY <1>1 DEF Inv, SoundFiles
<1>5. Answers'
  BY <1>1, <1>2, AnswersCarry DEF Inv, Answers
<1>6. Ahead'
  BY <1>1, <1>2, ContinuesItself DEF Ahead
<1> QED
  BY <1>1, <1>2, <1>3, <1>4, <1>5, <1>6

\* The constructor preserves the invariant.
LEMMA OpenPreserves ==
    ASSUME Inv, Open
    PROVE  Inv'
<1> USE DEF fileVars, answerVars, operatorVars, storeVars, Goto
<1>1. CASE OpenJournal
  <2>1. journal \in Seq(Row) /\ Sound(journal)
    BY DEF Inv, TypeOK, SoundFiles
  <2>2. journal' \in Seq(Row) /\ Sound(journal') /\ Continues(journal, journal')
    BY <1>1, <2>1, DemoteForward DEF OpenJournal
  <2>3. pc = "closed" /\ pc' = "opened" /\ call = NoCall /\ call' = NoCall
    BY <1>1 DEF OpenJournal, Inv, TypeOK
  <2>4. SoundFiles' /\ Answers' /\ Ahead'
    BY <1>1, <2>2, <2>3, JournalForward DEF OpenJournal
  <2>5. TypeOK'
    BY <1>1, <2>2, <2>3 DEF OpenJournal, Inv, TypeOK, Labels
  <2>6. Witnessed' /\ CallFacts'
    BY <1>1, <2>3 DEF OpenJournal, Inv, Witnessed, CallFacts, Serving
  <2> QED
    BY <2>4, <2>5, <2>6 DEF Inv
<1>2. CASE CreateKey
  <2>1. pc = "opened" /\ pc' = "create" /\ call = NoCall /\ call' = NoCall
    BY <1>2 DEF CreateKey, Inv, TypeOK
  <2>2. TypeOK'
    BY <1>2, <2>1 DEF CreateKey, Inv, TypeOK, Labels
  <2> QED
    BY <1>2, <2>1, <2>2 DEF CreateKey, Inv, SoundFiles, Answers, Witnessed, Ahead, CallFacts, Serving
<1>3. CASE CreateWitness
  <2>1. pc = "create" /\ pc' = "idle" /\ call = NoCall /\ call' = NoCall
    BY <1>3 DEF CreateWitness, Inv, TypeOK
  <2>2. journal \in Seq(Row) /\ journal # Absent /\ witness' = journal /\ journal' = journal
    BY <1>3, JournalAssumption DEF CreateWitness, Inv, TypeOK
  <2>3. TypeOK'
    BY <1>3, <2>1, <2>2 DEF CreateWitness, Inv, TypeOK, Labels
  <2>4. held = {} /\ receipts = {}
    BY <2>1 DEF Inv, Witnessed
  <2>5. Ahead'
    BY <2>2, ContinuesItself DEF Ahead
  <2> QED
    BY <1>3, <2>1, <2>2, <2>3, <2>4, <2>5
       DEF CreateWitness, Inv, SoundFiles, Answers, Witnessed, CallFacts, Serving
<1>4. CASE OpenWitness
  <2>1. pc = "opened" /\ pc' = "idle" /\ call = NoCall /\ call' = NoCall
    BY <1>4 DEF OpenWitness, Inv, TypeOK
  <2>2. SoundFiles' /\ Answers' /\ Ahead' /\ witness' # Absent
          /\ witness' \in Seq(Row) \cup {Absent}
    BY <1>4, VerifyForward DEF OpenWitness
  <2>3. TypeOK'
    BY <1>4, <2>1, <2>2 DEF OpenWitness, VerifyOrAdvance, Inv, TypeOK, Labels
  <2> QED
    BY <2>1, <2>2, <2>3 DEF Inv, Witnessed, CallFacts, Serving
<1>5. CASE RefuseToOpen
  <2>1. pc' = "closed" /\ call = NoCall /\ call' = NoCall
    BY <1>5 DEF RefuseToOpen, Inv, TypeOK
  <2>2. UNCHANGED <<store, backup, clock, journal, witness, keyfile, held, receipts, invoked,
                    copies, restores>>
    BY <1>5 DEF RefuseToOpen
  <2>3. TypeOK'
    BY <2>1, <2>2 DEF Inv, TypeOK, Labels
  <2> QED
    BY <2>1, <2>2, <2>3 DEF Inv, SoundFiles, Answers, Witnessed, Ahead, CallFacts, Serving
<1> QED
  BY <1>1, <1>2, <1>3, <1>4, <1>5 DEF Open

\* The beginning of every call preserves the invariant.
LEMMA CallPreserves ==
    ASSUME Inv,
           \/ \E c \in Commands : IssueCommand(c)
           \/ \E kind \in {"execute", "reconcile"}, h \in held : Serve(kind, h)
    PROVE  Inv'
<1> USE DEF fileVars, answerVars, operatorVars, storeVars
<1>1. ASSUME NEW c \in Commands, IssueCommand(c) PROVE Inv'
  <2>1. pc = "idle" /\ witness # Absent
    BY <1>1 DEF IssueCommand, Inv, Witnessed
  <2>2. SoundFiles' /\ Answers' /\ Ahead' /\ witness' # Absent
          /\ witness' \in Seq(Row) \cup {Absent}
    BY <1>1, <2>1, VerifyForward DEF IssueCommand
  <2>3. pc' = "issue" /\ call' = [kind |-> "issue", cmd |-> c, fence |-> 0]
    BY <1>1 DEF IssueCommand
  <2>4. call' \in Call /\ call' # NoCall /\ call'.kind = "issue"
    BY <2>3, JournalAssumption DEF Call
  <2>5. TypeOK'
    BY <1>1, <2>2, <2>3, <2>4 DEF IssueCommand, VerifyOrAdvance, Inv, TypeOK, Labels
  <2> QED
    BY <2>2, <2>3, <2>4, <2>5 DEF Inv, Witnessed, CallFacts, Serving
<1>2. ASSUME NEW kind \in {"execute", "reconcile"}, NEW h \in held, Serve(kind, h) PROVE Inv'
  <2>1. pc = "idle" /\ witness # Absent
    BY <1>2 DEF Serve, Inv, Witnessed
  <2>2. SoundFiles' /\ Answers' /\ Ahead' /\ witness' # Absent
          /\ witness' \in Seq(Row) \cup {Absent}
    BY <1>2, <2>1, VerifyForward DEF Serve
  <2>3. h \in Command /\ h.cmd \in Commands /\ h.fence \in Nat
    <3>1. h \in Command
      BY DEF Inv, TypeOK
    <3> QED
      BY <3>1 DEF Command
  <2>4. /\ pc' \in {"idle", "sync", "demote", "prove", "start"}
        /\ pc' # "idle" => Loaded(h) /\ journal[h.fence].state \in StateAt(pc')
    <3>1. pc' = AfterLoad(kind, h)
      BY <1>2 DEF Serve
    <3>2. CASE ~Loaded(h)
      BY <3>1, <3>2 DEF AfterLoad
    <3>3. CASE Loaded(h)
      <4>1. journal[h.fence] \in Row
        BY <3>3 DEF Loaded, Inv, TypeOK
      <4>2. journal[h.fence].state \in States
        BY <4>1 DEF Row
      <4>3. CASE journal[h.fence].state = "committed"
        BY <3>1, <3>3, <4>3 DEF AfterLoad, StateAt
      <4>4. CASE journal[h.fence].state = "provider_started"
        BY <3>1, <3>3, <4>4 DEF AfterLoad, StateAt
      <4>5. CASE journal[h.fence].state = "reconciliation_required"
        BY <3>1, <3>3, <4>5 DEF AfterLoad, StateAt
      <4>6. CASE journal[h.fence].state = "prepared"
        BY <3>1, <3>3, <4>6 DEF AfterLoad, StateAt
      <4> QED
        BY <4>2, <4>3, <4>4, <4>5, <4>6 DEF States
    <3> QED
      BY <3>2, <3>3
  <2>5. CASE pc' = "idle"
    <3>1. call' = NoCall
      BY <1>2, <2>5 DEF Serve
    <3>2. TypeOK'
      BY <1>2, <2>2, <2>5, <3>1 DEF Serve, VerifyOrAdvance, Inv, TypeOK, Labels
    <3> QED
      BY <2>2, <2>5, <3>1, <3>2 DEF Inv, Witnessed, CallFacts, Serving
  <2>6. CASE pc' # "idle"
    <3>1. call' = [kind |-> kind, cmd |-> h.cmd, fence |-> h.fence]
      BY <1>2, <2>6 DEF Serve
    <3>2. call' \in Call /\ call' # NoCall /\ call'.kind # "issue"
            /\ call'.cmd = h.cmd /\ call'.fence = h.fence
      BY <2>3, <3>1, JournalAssumption DEF Call
    <3>3. TypeOK'
      BY <1>2, <2>2, <2>4, <2>6, <3>2 DEF Serve, VerifyOrAdvance, Inv, TypeOK, Labels
    <3>4. journal' = journal
      BY <1>2 DEF Serve
    <3>5. CallFacts'
      BY <2>4, <2>6, <3>2, <3>4 DEF CallFacts, Loaded
    <3>6. Witnessed'
      BY <2>2, <2>4 DEF Witnessed
    <3> QED
      BY <2>2, <3>3, <3>5, <3>6 DEF Inv
  <2> QED
    BY <2>5, <2>6
<1> QED
  BY <1>1, <1>2

\* A journal write of a call in progress: what is left to show is what the call knows.
LEMMA StepPreserves ==
    ASSUME Inv, journal' \in Seq(Row), Sound(journal'), Continues(journal, journal'), Serving,
           UNCHANGED <<fileVars, answerVars, operatorVars>>,
           store' \in Store, backup' \in Store \cup {Absent}, clock' \in 0..MaxEvents,
           invoked' \in [Commands -> Nat],
           \/ pc' = "idle" /\ call' = NoCall
           \/ pc' \in Labels \ {"closed", "opened", "create", "idle"} /\ call' = call,
           CallFacts'
    PROVE  Inv'
<1> USE DEF fileVars, answerVars, operatorVars
<1>1. SoundFiles' /\ Answers' /\ Ahead'
  BY JournalForward
<1>2. pc \notin {"closed", "opened", "create", "idle"} /\ call \in Call /\ call # NoCall
  BY DEF Inv, TypeOK, Serving
<1>3. witness # Absent
  BY <1>2 DEF Inv, Witnessed
<1>4. TypeOK'
  BY <1>2 DEF Inv, TypeOK, Labels
<1>5. Witnessed'
  BY <1>3 DEF Witnessed
<1> QED
  BY <1>1, <1>4, <1>5 DEF Inv

\* What holds while a call is served.
LEMMA ServingFacts ==
    ASSUME Inv, pc \notin {"closed", "opened", "create", "idle"}
    PROVE  /\ Serving /\ call \in Call /\ call.cmd \in Commands /\ call.fence \in Nat
           /\ journal \in Seq(Row) /\ Sound(journal) /\ witness # Absent
           /\ store \in Store /\ store.anchor \in Nat
           /\ backup \in Store \cup {Absent} /\ clock \in 0..MaxEvents
           /\ invoked \in [Commands -> Nat]
<1>1. call \in Call /\ Serving
  BY DEF Inv, TypeOK, Serving
<1>2. store \in Store
  BY DEF Inv, TypeOK
<1>3. call.cmd \in Commands /\ call.fence \in Nat
  BY <1>1 DEF Call
<1>4. store.anchor \in Nat
  BY <1>2 DEF Store
<1>5. witness # Absent
  BY DEF Inv, Witnessed
<1> QED
  BY <1>1, <1>2, <1>3, <1>4, <1>5 DEF Inv, TypeOK, SoundFiles

\* The steps of a call up to its answer preserve the invariant.
LEMMA StepInvariant ==
    ASSUME Inv, Issue \/ Demote \/ Start \/ Invoke \/ Fail \/ Commit \/ Prove
    PROVE  Inv'
<1> USE DEF fileVars, answerVars, operatorVars, storeVars, Goto, Finish
<1>0. pc \in {"issue", "demote", "start", "invoke", "fail", "commit", "prove"}
  BY DEF Issue, Demote, Start, Invoke, Fail, Commit, Prove
<1>a. /\ Serving /\ call \in Call /\ call.cmd \in Commands
      /\ journal \in Seq(Row) /\ Sound(journal)
      /\ store \in Store /\ store.anchor \in Nat
      /\ backup \in Store \cup {Absent} /\ clock \in 0..MaxEvents
      /\ invoked \in [Commands -> Nat]
  BY <1>0, ServingFacts
<1>b. Continues(journal, journal)
  BY <1>a, ContinuesItself
<1>c. pc # "issue" => /\ call.kind # "issue" /\ call.fence \in DOMAIN journal
                      /\ journal[call.fence].cmd = call.cmd
                      /\ journal[call.fence].state \in StateAt(pc)
  BY <1>0, <1>a DEF Inv, CallFacts
<1>d. /\ Rank("prepared") = 0 /\ Rank("provider_started") = 1
      /\ Rank("reconciliation_required") = 2
  BY DEF Rank
<1>e. /\ StateAt("demote") = {"provider_started"} /\ StateAt("invoke") = {"provider_started"}
      /\ StateAt("fail") = {"provider_started"} /\ StateAt("commit") = {"provider_started"}
      /\ StateAt("start") = {"prepared"} /\ StateAt("prove") = {"reconciliation_required"}
      /\ StateAt("sync") = {"committed"}
  BY DEF StateAt
<1>1. CASE Issue
  <2>1. pc' = "sync" /\ call' = call /\ call.kind = "issue"
    BY <1>1 DEF Issue, Inv, CallFacts
  <2>2. journal' \in Seq(Row) /\ Sound(journal') /\ Continues(journal, journal')
    <3>1. CASE FenceOf(call.cmd) # {}
      <4>1. journal' = journal
        BY <1>1, <3>1 DEF Issue
      <4> QED
        BY <4>1, <1>a, <1>b
    <3>2. CASE FenceOf(call.cmd) = {}
      <4>1. \A f \in DOMAIN journal : journal[f].cmd # call.cmd
        BY <3>2 DEF FenceOf
      <4>2. journal' = Append(journal, [cmd |-> call.cmd, pre |-> store,
                                        state |-> "prepared", after |-> Absent])
        BY <1>1, <3>2 DEF Issue
      <4> QED
        BY <4>1, <4>2, <1>a, AppendForward
    <3> QED
      BY <3>1, <3>2
  <2>3. CallFacts'
    BY <2>1 DEF CallFacts, Serving
  <2> QED
    BY <1>1, <1>a, <2>1, <2>2, <2>3, StepPreserves DEF Issue, Labels
<1>2. CASE Demote
  <2>1. pc = "demote" /\ journal[call.fence].state = "provider_started"
    BY <1>2, <1>c, <1>e DEF Demote
  <2>2. SetState(call.fence, "reconciliation_required")
    BY <1>2 DEF Demote
  <2>3. /\ journal' \in Seq(Row) /\ Sound(journal') /\ Continues(journal, journal')
        /\ DOMAIN journal' = DOMAIN journal
        /\ journal'[call.fence].state = "reconciliation_required"
        /\ journal'[call.fence].cmd = journal[call.fence].cmd
    <3>1. /\ journal \in Seq(Row) /\ Sound(journal) /\ call.fence \in DOMAIN journal
          /\ journal[call.fence].state # "committed"
      BY <1>a, <1>c, <2>1
    <3>2. "reconciliation_required" \in States /\ "reconciliation_required" # "committed"
            /\ Rank("reconciliation_required") >= Rank(journal[call.fence].state)
      BY <1>d, <2>1 DEF States
    <3> QED
      BY <2>2, <3>1, <3>2, SetStateForward
  <2>4. \/ pc' = "idle" /\ call' = NoCall
        \/ pc' = "prove" /\ call' = call
    BY <1>2 DEF Demote
  <2>5. CallFacts'
    BY <1>c, <1>e, <2>1, <2>3, <2>4 DEF CallFacts, Serving
  <2> QED
    BY <1>2, <1>a, <2>3, <2>4, <2>5, StepPreserves DEF Demote, Labels
<1>3. CASE Start
  <2>1. pc = "start" /\ journal[call.fence].state = "prepared"
    BY <1>3, <1>c, <1>e DEF Start
  <2>2. SetState(call.fence, "provider_started")
    BY <1>3 DEF Start
  <2>3. /\ journal' \in Seq(Row) /\ Sound(journal') /\ Continues(journal, journal')
        /\ DOMAIN journal' = DOMAIN journal
        /\ journal'[call.fence].state = "provider_started"
        /\ journal'[call.fence].cmd = journal[call.fence].cmd
    <3>1. /\ journal \in Seq(Row) /\ Sound(journal) /\ call.fence \in DOMAIN journal
          /\ journal[call.fence].state # "committed"
      BY <1>a, <1>c, <2>1
    <3>2. "provider_started" \in States /\ "provider_started" # "committed"
            /\ Rank("provider_started") >= Rank(journal[call.fence].state)
      BY <1>d, <2>1 DEF States
    <3> QED
      BY <2>2, <3>1, <3>2, SetStateForward
  <2>4. pc' = "invoke" /\ call' = call
    BY <1>3 DEF Start
  <2>5. CallFacts'
    BY <1>c, <1>e, <2>1, <2>3, <2>4 DEF CallFacts, Serving
  <2> QED
    BY <1>3, <1>a, <2>3, <2>4, <2>5, StepPreserves DEF Start, Labels
<1>4. CASE Invoke
  <2>1. pc = "invoke" /\ pc' \in {"commit", "fail"} /\ call' = call /\ journal' = journal
    BY <1>4 DEF Invoke
  <2>2. store' \in Store /\ backup' \in Store \cup {Absent} /\ clock' \in 0..MaxEvents
    <3>1. CASE ProviderOperation(call.cmd)
      BY <3>1, <1>a, ProviderTypes DEF Inv
    <3>2. CASE UNCHANGED storeVars
      BY <3>2, <1>a
    <3> QED
      BY <1>4, <3>1, <3>2 DEF Invoke
  <2>3. invoked' \in [Commands -> Nat]
    BY <1>4, <1>a DEF Invoke
  <2>4. CallFacts'
    BY <1>c, <1>e, <2>1 DEF CallFacts, Serving
  <2> QED
    BY <1>4, <1>a, <1>b, <2>1, <2>2, <2>3, <2>4, StepPreserves DEF Invoke, Labels
<1>5. CASE Fail
  <2>1. pc = "fail" /\ journal[call.fence].state = "provider_started"
    BY <1>5, <1>c, <1>e DEF Fail
  <2>2. SetState(call.fence, "reconciliation_required")
    BY <1>5 DEF Fail
  <2>3. journal' \in Seq(Row) /\ Sound(journal') /\ Continues(journal, journal')
    <3>1. /\ journal \in Seq(Row) /\ Sound(journal) /\ call.fence \in DOMAIN journal
          /\ journal[call.fence].state # "committed"
      BY <1>a, <1>c, <2>1
    <3>2. "reconciliation_required" \in States /\ "reconciliation_required" # "committed"
            /\ Rank("reconciliation_required") >= Rank(journal[call.fence].state)
      BY <1>d, <2>1 DEF States
    <3> QED
      BY <2>2, <3>1, <3>2, SetStateForward
  <2>4. pc' = "idle" /\ call' = NoCall
    BY <1>5 DEF Fail
  <2>5. CallFacts'
    BY <2>4 DEF CallFacts, Serving
  <2> QED
    BY <1>5, <1>a, <2>3, <2>4, <2>5, StepPreserves DEF Fail, Labels
<1>6. ASSUME pc # "issue", CommitReceipt
      PROVE  /\ journal' \in Seq(Row) /\ Sound(journal') /\ Continues(journal, journal')
             /\ DOMAIN journal' = DOMAIN journal
             /\ journal'[call.fence].state = "committed"
             /\ journal'[call.fence].cmd = journal[call.fence].cmd
  <2>1. journal[call.fence].state # "committed"
    <3>1. pc # "sync"
      BY <1>0
    <3> QED
      BY <1>0, <1>c, <1>e, <1>6
  <2> QED
    <3>1. /\ journal \in Seq(Row) /\ Sound(journal) /\ call.fence \in DOMAIN journal
          /\ store.anchor \in Nat
      BY <1>a, <1>c, <1>6
    <3> QED
      BY <1>6, <2>1, <3>1, CommitForward
<1>7. CASE Commit
  <2>1. pc = "commit" /\ pc' = "sync" /\ call' = call /\ CommitReceipt
    BY <1>7 DEF Commit
  <2>2. CallFacts'
    BY <1>c, <1>e, <1>6, <2>1 DEF CallFacts, Serving
  <2> QED
    BY <1>7, <1>a, <1>6, <2>1, <2>2, StepPreserves DEF Commit, Labels
<1>8. CASE Prove
  <2>1. pc = "prove"
    BY <1>8 DEF Prove
  <2>2. CASE CommitReceipt /\ pc' = "sync" /\ call' = call
    <3>1. CallFacts'
      BY <1>c, <1>e, <1>6, <2>1, <2>2 DEF CallFacts, Serving
    <3> QED
      BY <1>8, <1>a, <1>6, <2>1, <2>2, <3>1, StepPreserves DEF Prove, Labels
  <2>3. CASE pc' = "idle" /\ call' = NoCall /\ journal' = journal
    <3>1. CallFacts'
      BY <2>3 DEF CallFacts, Serving
    <3> QED
      BY <1>8, <1>a, <1>b, <2>3, <3>1, StepPreserves DEF Prove, Labels
  <2> QED
    BY <1>8, <2>2, <2>3 DEF Prove
<1> QED
  BY <1>1, <1>2, <1>3, <1>4, <1>5, <1>7, <1>8

\* The answer of a call preserves the invariant: it is witnessed first.
LEMMA SyncInvariant ==
    ASSUME Inv, Sync
    PROVE  Inv'
<1> USE DEF fileVars, operatorVars, storeVars, Finish
<1>0. pc = "sync" /\ pc' = "idle" /\ call' = NoCall /\ journal' = journal
  BY DEF Sync
<1>1. /\ Serving /\ call \in Call /\ call.cmd \in Commands /\ call.fence \in Nat
      /\ journal \in Seq(Row) /\ Sound(journal) /\ witness # Absent
  BY <1>0, ServingFacts
<1>2. Continues(witness, journal)
  BY <1>1 DEF Inv, Ahead
<1>3. Accepts(witness, journal)
  BY <1>1, <1>2, ContinuationAccepted DEF Inv, TypeOK, SoundFiles
<1>4. VerifyOrAdvance /\ Answer
  BY <1>3 DEF Sync
<1>5. witness' = journal /\ witness' # Absent
  BY <1>1, <1>4, JournalAssumption DEF VerifyOrAdvance
<1>6. /\ \A h \in held : Holds(journal, h)
      /\ \A r \in receipts : Records(journal, r)
  BY <1>1, <1>2, AnswersCarry DEF Inv, TypeOK, Answers
<1>7. /\ held' \subseteq Command /\ receipts' \subseteq Receipt
      /\ \A h \in held' : Holds(journal, h)
      /\ \A r \in receipts' : Records(journal, r)
  <2>1. CASE call.kind = "issue"
    <3>1. receipts' = receipts
      BY <1>4, <2>1 DEF Answer
    <3>2. ASSUME NEW h \in held', h \notin held PROVE h \in Command /\ Holds(journal, h)
      <4>1. PICK f \in FenceOf(call.cmd) :
              h = [cmd |-> call.cmd, fence |-> f, expected |-> journal[f].pre.anchor]
        BY <1>4, <2>1, <3>2 DEF Answer
      <4>2. f \in DOMAIN journal /\ journal[f].cmd = call.cmd /\ f \in Nat
        BY <1>1, <4>1 DEF FenceOf
      <4>3. journal[f] \in Row
        BY <1>1, <4>2
      <4>4. journal[f].pre.anchor \in Nat
        BY <4>3 DEF Row, Store
      <4> QED
        BY <1>1, <4>1, <4>2, <4>4 DEF Command, Holds
    <3> QED
      BY <1>6, <3>1, <3>2 DEF Inv, TypeOK
  <2>2. CASE call.kind # "issue"
    <3>1. held' = held
      BY <1>4, <2>2 DEF Answer
    <3>2. /\ call.fence \in DOMAIN journal /\ journal[call.fence].cmd = call.cmd
          /\ journal[call.fence].state = "committed"
      BY <1>0, <1>1, <2>2 DEF Inv, CallFacts, StateAt
    <3>3. journal[call.fence] \in Row
      BY <1>1, <3>2
    <3>4. journal[call.fence].after \in Nat
      BY <1>1, <3>2, <3>3 DEF Sound, Row
    <3>5. ASSUME NEW r \in receipts', r \notin receipts PROVE r \in Receipt /\ Records(journal, r)
      <4>1. r = [cmd |-> call.cmd, fence |-> call.fence, after |-> journal[call.fence].after]
        BY <1>4, <2>2, <3>5 DEF Answer
      <4> QED
        BY <1>1, <3>2, <3>4, <4>1 DEF Receipt, Records
    <3> QED
      BY <1>6, <3>1, <3>5 DEF Inv, TypeOK
  <2> QED
    BY <2>1, <2>2
<1>8. TypeOK'
  BY <1>0, <1>1, <1>4, <1>5, <1>7 DEF Sync, VerifyOrAdvance, Inv, TypeOK, Labels
<1>9. SoundFiles'
  BY <1>0, <1>5 DEF Sync, Inv, SoundFiles
<1>10. Answers'
  BY <1>5, <1>7 DEF Answers
<1>11. Ahead'
  BY <1>0, <1>1, <1>5, ContinuesItself DEF Ahead
<1>12. Witnessed' /\ CallFacts'
  BY <1>0, <1>5 DEF Witnessed, CallFacts, Serving
<1> QED
  BY <1>8, <1>9, <1>10, <1>11, <1>12 DEF Inv

\* Errors, saves, crashes and the operator preserve the invariant.
LEMMA EnvironmentPreserves ==
    ASSUME Inv, Busy \/ Put \/ Crash \/ CopyJournal \/ RestoreJournal
    PROVE  Inv'
<1> USE DEF fileVars, answerVars, operatorVars, storeVars, Finish
<1>1. CASE Busy
  <2>1. pc \notin {"closed", "opened", "create", "idle"} /\ pc' = "idle" /\ call' = NoCall
    BY <1>1 DEF Busy
  <2>2. /\ Serving /\ journal \in Seq(Row) /\ Sound(journal)
        /\ store \in Store /\ backup \in Store \cup {Absent} /\ clock \in 0..MaxEvents
        /\ invoked \in [Commands -> Nat]
    BY <2>1, ServingFacts
  <2>3. Continues(journal, journal) /\ CallFacts'
    BY <2>1, <2>2, ContinuesItself DEF CallFacts, Serving
  <2> QED
    BY <1>1, <2>1, <2>2, <2>3, StepPreserves DEF Busy
<1>2. CASE Put
  <2>1. UNCHANGED <<backup, journal, witness, keyfile, pc, call, held, receipts, invoked,
                    copies, restores>>
    BY <1>2 DEF Put
  <2>2. clock' \in 0..MaxEvents /\ clock + 1 \in Nat
    BY <1>2, JournalAssumption DEF Put, Inv, TypeOK
  <2>3. store' \in Store
    <3>1. store \in Store /\ store' = [store EXCEPT !.anchor = clock + 1, !.rows = store.rows + 1]
      BY <1>2 DEF Put, Inv, TypeOK
    <3>2. store.rows + 1 \in Nat
      BY <3>1 DEF Store
    <3> QED
      BY <2>2, <3>1, <3>2 DEF Store
  <2>4. TypeOK'
    BY <2>1, <2>2, <2>3 DEF Inv, TypeOK
  <2> QED
    BY <2>1, <2>4 DEF Inv, SoundFiles, Answers, Witnessed, Ahead, CallFacts, Serving
<1>3. CASE Crash
  <2>1. /\ pc' = "closed" /\ call' = NoCall
        /\ UNCHANGED <<journal, witness, keyfile, held, receipts, copies, restores>>
    BY <1>3 DEF Crash
  <2>2. /\ store' \in Store /\ backup' \in Store \cup {Absent} /\ clock' \in 0..MaxEvents
        /\ invoked' \in [Commands -> Nat]
    <3>1. CASE UNCHANGED <<storeVars, invoked>>
      BY <3>1 DEF Inv, TypeOK
    <3>2. CASE /\ pc = "invoke" /\ ProviderOperation(call.cmd)
               /\ invoked' = [invoked EXCEPT ![call.cmd] = @ + 1]
      <4>1. call.cmd \in Commands /\ invoked \in [Commands -> Nat]
        BY <3>2, ServingFacts
      <4> QED
        BY <3>2, <4>1, ProviderTypes DEF Inv
    <3> QED
      BY <1>3, <3>1, <3>2 DEF Crash
  <2>3. TypeOK'
    BY <2>1, <2>2 DEF Inv, TypeOK, Labels
  <2> QED
    BY <2>1, <2>3 DEF Inv, SoundFiles, Answers, Witnessed, Ahead, CallFacts, Serving
<1>4. CASE CopyJournal
  <2>1. /\ UNCHANGED <<store, backup, clock, journal, witness, keyfile, pc, call, held,
                       receipts, invoked, restores>>
        /\ copies' = copies \cup {journal}
    BY <1>4 DEF CopyJournal
  <2>2. TypeOK'
    BY <2>1 DEF Inv, TypeOK
  <2> QED
    BY <2>1, <2>2 DEF Inv, SoundFiles, Answers, Witnessed, Ahead, CallFacts, Serving
<1>5. CASE RestoreJournal
  <2>1. /\ UNCHANGED <<store, backup, clock, witness, keyfile, pc, call, held, receipts,
                       invoked, copies>>
        /\ pc \in {"closed", "idle"} /\ journal' \in copies
        /\ restores < MaxRestores /\ restores' = restores + 1
    BY <1>5 DEF RestoreJournal
  <2>2. call = NoCall /\ restores' # 0 /\ restores' \in 0..MaxRestores
    BY <2>1, JournalAssumption DEF Inv, TypeOK
  <2>3. TypeOK'
    BY <2>1, <2>2 DEF Inv, TypeOK
  <2> QED
    BY <2>1, <2>2, <2>3 DEF Inv, SoundFiles, Answers, Witnessed, Ahead, CallFacts, Serving
<1> QED
  BY <1>1, <1>2, <1>3, <1>4, <1>5

-----------------------------------------------------------------------------
(* Results.                                                                *)

\* The invariant holds in every state of the guarded journal.
THEOREM Invariance == Spec => []Inv
<1>1. Init => Inv
  <2> SUFFICES ASSUME Init PROVE Inv
    OBVIOUS
  <2>1. journal = <<>> /\ journal \in Seq(Row) /\ DOMAIN journal = {}
    BY DEF Init
  <2>2. store \in Store /\ backup \in Store \cup {Absent}
    <3>1. store = [anchor |-> 0, rows |-> 1, legacy |-> TRUE] /\ backup \in {Absent, store}
      BY DEF Init
    <3>2. store \in Store
      BY <3>1 DEF Store
    <3> QED
      BY <3>1, <3>2
  <2>3. TypeOK
    <3>1. clock \in 0..MaxEvents /\ restores \in 0..MaxRestores
      BY JournalAssumption DEF Init
    <3>2. invoked \in [Commands -> Nat]
      BY DEF Init
    <3> QED
      BY <2>1, <2>2, <3>1, <3>2 DEF Init, TypeOK, Labels
  <2>4. SoundFiles /\ Answers /\ Witnessed /\ Ahead /\ CallFacts
    BY <2>1 DEF Init, SoundFiles, Sound, Answers, Witnessed, Ahead, CallFacts, Serving
  <2> QED
    BY <2>3, <2>4 DEF Inv
<1>2. Inv /\ [Next]_vars => Inv'
  <2> SUFFICES ASSUME Inv, [Next]_vars PROVE Inv'
    OBVIOUS
  <2>1. CASE Open
    BY <2>1, OpenPreserves
  <2>2. CASE \/ \E c \in Commands : IssueCommand(c)
             \/ \E kind \in {"execute", "reconcile"}, h \in held : Serve(kind, h)
    BY <2>2, CallPreserves
  <2>3. CASE Step
    BY <2>3, StepInvariant, SyncInvariant DEF Step
  <2>4. CASE Busy \/ Put \/ Crash \/ CopyJournal \/ RestoreJournal
    BY <2>4, EnvironmentPreserves
  <2>5. CASE UNCHANGED vars
    BY <2>5 DEF vars, Inv, TypeOK, SoundFiles, Answers, Witnessed, Ahead, CallFacts, Serving
  <2> QED
    BY <2>1, <2>2, <2>3, <2>4, <2>5 DEF Next
<1> QED
  BY <1>1, <1>2, PTL DEF Spec

\* Journal, witness, calls and answers keep their types.
THEOREM TypeCorrect == Spec => []TypeOK
<1>1. Inv => TypeOK
  BY DEF Inv
<1> QED
  BY <1>1, Invariance, PTL

\* While a call is served the journal has every command and receipt that was returned,
\* however often older journals were put back: each call verifies the witness first.
THEOREM HistoryCorrect == Spec => []HistoryKept
<1>1. Inv => HistoryKept
  <2> SUFFICES ASSUME Inv, Serving
               PROVE  /\ \A h \in held : Loaded(h)
                      /\ \A r \in receipts :
                            /\ r.fence \in CommittedFences(journal)
                            /\ journal[r.fence].cmd = r.cmd
                            /\ journal[r.fence].after = r.after
    BY DEF HistoryKept
  <2>1. pc \notin {"closed", "opened", "create", "idle"}
    BY DEF Inv, TypeOK, Serving
  <2>2. witness # Absent /\ journal \in Seq(Row)
    BY <2>1, ServingFacts
  <2>3. witness \in Seq(Row) /\ Continues(witness, journal)
    BY <2>2 DEF Inv, TypeOK, Ahead
  <2>4. /\ \A h \in held : Holds(journal, h)
        /\ \A r \in receipts : Records(journal, r)
    BY <2>2, <2>3, AnswersCarry DEF Inv, Answers
  <2> QED
    BY <2>4 DEF Holds, Records, Loaded, CommittedFences
<1> QED
  BY <1>1, Invariance, PTL

\* No fence and no command id is handed out twice for different commands, because every
\* command is in the witness, whose ids are unique, before its caller has it.
THEOREM HeldCorrect == Spec => []HeldUnique
<1>1. Inv => HeldUnique
  <2> SUFFICES ASSUME Inv, NEW g \in held, NEW h \in held, g.fence = h.fence \/ g.cmd = h.cmd
               PROVE  g = h
    BY DEF HeldUnique
  <2>1. Holds(witness, g) /\ Holds(witness, h) /\ Sound(witness)
    BY DEF Inv, Answers, Witnessed, SoundFiles
  <2>2. g.fence = h.fence
    BY <2>1 DEF Holds, Sound
  <2>3. g.cmd = h.cmd /\ g.expected = h.expected
    BY <2>1, <2>2 DEF Holds
  <2>4. g \in Command /\ h \in Command
    BY DEF Inv, TypeOK
  <2> QED
    BY <2>2, <2>3, <2>4 DEF Command
<1> QED
  BY <1>1, Invariance, PTL

\* A journal that was never rolled back is never rejected by the witness, wherever the
\* process died between the two files.
THEOREM NoAlarmCorrect == Spec => []NoFalseAlarm
<1>1. Inv => NoFalseAlarm
  <2> SUFFICES ASSUME Inv, restores = 0, witness # Absent
               PROVE  Accepts(witness, journal)
    BY DEF NoFalseAlarm
  <2>1. /\ witness \in Seq(Row) /\ journal \in Seq(Row)
        /\ Sound(witness) /\ Sound(journal) /\ Continues(witness, journal)
    BY DEF Inv, TypeOK, SoundFiles, Ahead
  <2> QED
    BY <2>1, ContinuationAccepted
<1> QED
  BY <1>1, Invariance, PTL

\* The provider is not invoked for a command whose receipt was returned.
THEOREM OnceCorrect == Spec => AnsweredOnce
<1> DEFINE Kept == \A r \in receipts : invoked'[r.cmd] = invoked[r.cmd]
<1>1. Inv /\ [Next]_vars => [Kept]_vars
  <2> SUFFICES ASSUME Inv, Next PROVE Kept
    OBVIOUS
  <2>1. \/ invoked' = invoked
        \/ pc = "invoke" /\ invoked' = [invoked EXCEPT ![call.cmd] = @ + 1]
    BY DEF Next, Open, OpenJournal, CreateKey, CreateWitness, OpenWitness, RefuseToOpen,
           IssueCommand, Serve, Step, Issue, Demote, Start, Invoke, Fail, Commit, Prove, Sync,
           Busy, Put, Crash, CopyJournal, RestoreJournal
  <2>2. ASSUME pc = "invoke", NEW r \in receipts PROVE r.cmd # call.cmd
    <3>1. /\ Serving /\ witness # Absent /\ journal \in Seq(Row) /\ Sound(journal)
      BY <2>2, ServingFacts
    <3>2. witness \in Seq(Row) /\ Continues(witness, journal)
      BY <3>1 DEF Inv, TypeOK, Ahead
    <3>3. Records(journal, r)
      BY <3>1, <3>2, AnswersCarry DEF Inv, Answers
    <3>4. /\ call.fence \in DOMAIN journal /\ journal[call.fence].cmd = call.cmd
          /\ journal[call.fence].state = "provider_started"
      BY <2>2, <3>1 DEF Inv, CallFacts, StateAt
    <3> QED
      BY <3>1, <3>3, <3>4 DEF Records, Sound
  <2>3. \A r \in receipts : r.cmd \in Commands
    BY DEF Inv, TypeOK, Receipt
  <2>4. invoked \in [Commands -> Nat]
    BY DEF Inv, TypeOK
  <2> QED
    BY <2>1, <2>2, <2>3, <2>4
<1>2. Spec => [][Next]_vars
  BY PTL DEF Spec
<1> QED
  BY <1>1, <1>2, Invariance, PTL DEF AnsweredOnce

-----------------------------------------------------------------------------
(* The refinement of AnsweredLedger.                                       *)

ShownRow == [cmd : Commands, expected : Nat, after : Nat \cup {Absent}]

\* A journal of rows shows one row for each fence.
LEMMA ShownFacts ==
    ASSUME NEW w \in Seq(Row)
    PROVE  /\ Shown(w) \in Seq(ShownRow) /\ Len(Shown(w)) = Len(w) /\ DOMAIN Shown(w) = DOMAIN w
           /\ \A f \in DOMAIN w :
                 /\ Shown(w)[f].cmd = w[f].cmd
                 /\ Shown(w)[f].expected = w[f].pre.anchor
                 /\ Shown(w)[f].after = w[f].after
<1> DEFINE s == [f \in DOMAIN w |-> [cmd |-> w[f].cmd, expected |-> w[f].pre.anchor,
                                     after |-> w[f].after]]
<1>1. Shown(w) = s
  BY JournalAssumption DEF Shown
<1>2. DOMAIN w = 1..Len(w) /\ Len(w) \in Nat
  OBVIOUS
<1>3. ASSUME NEW f \in DOMAIN w PROVE s[f] \in ShownRow
  <2>1. w[f] \in Row
    OBVIOUS
  <2>2. w[f].cmd \in Commands /\ w[f].pre.anchor \in Nat /\ w[f].after \in Nat \cup {Absent}
    BY <2>1 DEF Row, Store
  <2> QED
    BY <2>2 DEF ShownRow
<1>4. s \in [1..Len(w) -> ShownRow]
  BY <1>2, <1>3
<1>5. s \in Seq(ShownRow) /\ Len(s) = Len(w)
  BY <1>2, <1>4
<1> QED
  BY <1>1, <1>5

\* A witness advanced to a continuation of it shows a ledger that grew.
LEMMA WitnessGrows ==
    ASSUME Inv, witness' \in Seq(Row), Sound(witness'),
           witness # Absent => Continues(witness, witness')
    PROVE  Ledger!Grow
<1> DEFINE new == Shown(witness')
<1>1. /\ Len(new) = Len(witness') /\ DOMAIN new = DOMAIN witness'
      /\ \A f \in DOMAIN witness' :
            /\ new[f].cmd = witness'[f].cmd
            /\ new[f].expected = witness'[f].pre.anchor
            /\ new[f].after = witness'[f].after
  BY ShownFacts
<1>2. \A f, g \in DOMAIN new : new[f].cmd = new[g].cmd => f = g
  BY <1>1 DEF Sound
<1>3. CASE witness = Absent
  <2>1. Shown(witness) = <<>>
    BY <1>3 DEF Shown
  <2>2. Len(Shown(witness)) = 0 /\ DOMAIN Shown(witness) = {} /\ Len(new) \in Nat
    BY <1>1, <2>1
  <2> QED
    BY <1>2, <2>2 DEF Ledger!Grow
<1>4. CASE witness # Absent
  <2> DEFINE old == Shown(witness)
  <2>1. witness \in Seq(Row) /\ Sound(witness) /\ Continues(witness, witness')
    BY <1>4 DEF Inv, TypeOK, SoundFiles
  <2>2. /\ Len(old) = Len(witness) /\ DOMAIN old = DOMAIN witness
        /\ \A f \in DOMAIN witness :
              /\ old[f].cmd = witness[f].cmd
              /\ old[f].expected = witness[f].pre.anchor
              /\ old[f].after = witness[f].after
    BY <2>1, ShownFacts
  <2>3. ASSUME NEW f \in DOMAIN old PROVE Ledger!Kept(old[f], new[f])
    <3>1. f \in DOMAIN witness' /\ RowContinues(witness'[f], witness[f])
      BY <2>1, <2>2 DEF Continues
    <3>2. witness[f].after # Absent => witness[f].state = "committed"
      BY <2>1, <2>2 DEF Sound
    <3>3. /\ old[f].cmd = witness[f].cmd /\ old[f].expected = witness[f].pre.anchor
          /\ old[f].after = witness[f].after
          /\ new[f].cmd = witness'[f].cmd /\ new[f].expected = witness'[f].pre.anchor
          /\ new[f].after = witness'[f].after
      BY <1>1, <2>2, <3>1
    <3> QED
      BY <3>1, <3>2, <3>3 DEF Ledger!Kept, RowContinues
  <2>4. Len(old) <= Len(new)
    BY <1>1, <2>1, <2>2 DEF Continues
  <2> QED
    BY <1>2, <2>3, <2>4 DEF Ledger!Grow
<1> QED
  BY <1>3, <1>4

\* Verifying or advancing the witness before a call records what the journal has.
LEMMA AdvanceRecords ==
    ASSUME Inv, VerifyOrAdvance \/ (witness = Absent /\ witness' = journal),
           UNCHANGED <<answerVars, invoked>>
    PROVE  Ledger!Record
<1>1. journal \in Seq(Row) /\ Sound(journal) /\ witness' = journal
  BY DEF Inv, TypeOK, SoundFiles, VerifyOrAdvance
<1>2. witness # Absent => Continues(witness, journal)
  BY AcceptedContinues DEF VerifyOrAdvance
<1>3. Ledger!Grow
  BY <1>1, <1>2, WitnessGrows
<1> QED
  BY <1>3 DEF Ledger!Record, answerVars

\* The provider is invoked only for a command that the ledger shows without an outcome:
\* its row in the journal was started, and the journal continues the witness.
LEMMA InvocationUnanswered ==
    ASSUME Inv, pc = "invoke", invoked' = [invoked EXCEPT ![call.cmd] = @ + 1],
           UNCHANGED <<witness, answerVars>>
    PROVE  call.cmd \in Commands /\ Ledger!Invoke(call.cmd)
<1> DEFINE old == Shown(witness)
<1>1. /\ Serving /\ witness # Absent /\ journal \in Seq(Row) /\ Sound(journal)
      /\ call.cmd \in Commands
  BY ServingFacts
<1>2. witness \in Seq(Row) /\ Sound(witness) /\ Continues(witness, journal)
  BY <1>1 DEF Inv, TypeOK, SoundFiles, Ahead
<1>3. /\ call.fence \in DOMAIN journal /\ journal[call.fence].cmd = call.cmd
      /\ journal[call.fence].state = "provider_started"
  BY <1>1 DEF Inv, CallFacts, StateAt
<1>4. /\ DOMAIN old = DOMAIN witness
      /\ \A f \in DOMAIN witness : old[f].cmd = witness[f].cmd /\ old[f].after = witness[f].after
  BY <1>2, ShownFacts
<1>5. ASSUME NEW f \in DOMAIN old, old[f].cmd = call.cmd PROVE old[f].after = Absent
  <2>1. f \in DOMAIN journal /\ RowContinues(journal[f], witness[f])
    BY <1>2, <1>4 DEF Continues
  <2>2. journal[f].cmd = call.cmd
    BY <1>4, <1>5, <2>1 DEF RowContinues
  <2>3. f = call.fence
    BY <1>1, <1>3, <2>1, <2>2 DEF Sound
  <2>4. witness[f].state # "committed"
    BY <1>3, <2>1, <2>3 DEF RowContinues
  <2> QED
    BY <1>2, <1>4, <2>4 DEF Sound
<1> QED
  BY <1>1, <1>5 DEF Ledger!Invoke, answerVars

\* The end of a call grows the ledger by the answer it returns, or changes nothing.
LEMMA SyncAnswers ==
    ASSUME Inv, Sync
    PROVE  \/ UNCHANGED <<witness, answerVars, invoked>>
           \/ Ledger!Record
           \/ \E f \in DOMAIN Shown(witness)' : Ledger!ReturnCommand(f) \/ Ledger!ReturnReceipt(f)
<1>1. CASE ~Accepts(witness, journal)
  BY <1>1 DEF Sync, fileVars, answerVars
<1>2. CASE Accepts(witness, journal)
  <2> DEFINE new == Shown(journal)
  <2>0. pc = "sync"
    BY DEF Sync
  <2>1. /\ VerifyOrAdvance /\ Answer /\ witness' = journal /\ journal' = journal
        /\ invoked' = invoked
    BY <1>2 DEF Sync, VerifyOrAdvance
  <2>2. /\ Serving /\ call \in Call /\ journal \in Seq(Row) /\ Sound(journal)
        /\ witness # Absent
    BY <2>0, ServingFacts
  <2>3. Ledger!Grow
    BY <2>1, <2>2, <1>2, AcceptedContinues, WitnessGrows
  <2>4. /\ DOMAIN new = DOMAIN journal
        /\ \A f \in DOMAIN journal :
              /\ new[f].cmd = journal[f].cmd
              /\ new[f].expected = journal[f].pre.anchor
              /\ new[f].after = journal[f].after
    BY <2>2, ShownFacts
  <2>5. Shown(witness)' = new
    BY <2>1 DEF Shown
  <2>6. CASE call.kind = "issue" /\ FenceOf(call.cmd) = {}
    <3>1. held' = held /\ receipts' = receipts
      BY <2>1, <2>6 DEF Answer
    <3> QED
      BY <2>1, <2>3, <3>1 DEF Ledger!Record
  <2>7. CASE call.kind = "issue" /\ FenceOf(call.cmd) # {}
    <3>1. PICK f \in DOMAIN journal : journal[f].cmd = call.cmd
      BY <2>7 DEF FenceOf
    <3>2. FenceOf(call.cmd) = {f}
      BY <2>2, <3>1 DEF FenceOf, Sound
    <3>3. /\ held' = held \cup {[cmd |-> new[f].cmd, fence |-> f, expected |-> new[f].expected]}
          /\ receipts' = receipts
      BY <2>1, <2>4, <2>7, <3>1, <3>2 DEF Answer
    <3>4. Ledger!ReturnCommand(f)
      BY <2>1, <2>3, <2>5, <3>3 DEF Ledger!ReturnCommand
    <3> QED
      BY <2>4, <2>5, <3>1, <3>4
  <2>8. CASE call.kind # "issue"
    <3> DEFINE f == call.fence
    <3>1. f \in DOMAIN journal /\ journal[f].cmd = call.cmd /\ journal[f].state = "committed"
      BY <2>0, <2>2, <2>8 DEF Inv, CallFacts, StateAt
    <3>2. new[f].after # Absent
      BY <2>2, <2>4, <3>1 DEF Sound
    <3>3. /\ receipts' = receipts \cup {[cmd |-> new[f].cmd, fence |-> f, after |-> new[f].after]}
          /\ held' = held
      BY <2>1, <2>4, <2>8, <3>1 DEF Answer
    <3>4. Ledger!ReturnReceipt(f)
      BY <2>1, <2>3, <2>5, <3>2, <3>3 DEF Ledger!ReturnReceipt
    <3> QED
      BY <2>4, <2>5, <3>1, <3>4
  <2> QED
    BY <2>6, <2>7, <2>8
<1> QED
  BY <1>1, <1>2

\* Every step of the journal and its witness is a step of the ledger or shows nothing.
LEMMA NextRefines ==
    ASSUME Inv, [Next]_vars
    PROVE  [Ledger!Next]_<<Shown(witness), held, receipts, invoked>>
<1> DEFINE unseen == UNCHANGED <<witness, answerVars, invoked>>
<1>1. CASE unseen
  BY <1>1 DEF Shown, answerVars
<1>2. CASE Open
  <2>1. CASE CreateWitness
    <3>1. witness = Absent /\ witness' = journal /\ UNCHANGED <<answerVars, invoked>>
      BY <2>1 DEF CreateWitness, Inv, Witnessed
    <3> QED
      BY <3>1, AdvanceRecords DEF Ledger!Next
  <2>2. CASE OpenWitness
    <3>1. VerifyOrAdvance /\ UNCHANGED <<answerVars, invoked>>
      BY <2>2 DEF OpenWitness
    <3>2. Ledger!Record
      BY <3>1, AdvanceRecords
    <3> QED
      BY <3>2 DEF Ledger!Next
  <2>3. CASE OpenJournal \/ CreateKey \/ RefuseToOpen
    BY <2>3, <1>1 DEF OpenJournal, CreateKey, RefuseToOpen, fileVars
  <2> QED
    BY <1>2, <2>1, <2>2, <2>3 DEF Open
<1>3. CASE \/ \E c \in Commands : IssueCommand(c)
           \/ \E kind \in {"execute", "reconcile"}, h \in held : Serve(kind, h)
  <2>1. VerifyOrAdvance /\ UNCHANGED <<answerVars, invoked>>
    BY <1>3 DEF IssueCommand, Serve
  <2>2. Ledger!Record
    BY <2>1, AdvanceRecords
  <2> QED
    BY <2>2 DEF Ledger!Next
<1>4. CASE Invoke
  <2>1. /\ pc = "invoke" /\ invoked' = [invoked EXCEPT ![call.cmd] = @ + 1]
        /\ UNCHANGED <<witness, answerVars>>
    BY <1>4 DEF Invoke, fileVars
  <2> QED
    BY <2>1, InvocationUnanswered DEF Ledger!Next
<1>5. CASE Sync
  BY <1>1, <1>5, SyncAnswers DEF Ledger!Next
<1>6. CASE Issue \/ Demote \/ Start \/ Fail \/ Commit \/ Prove
  BY <1>1, <1>6 DEF Issue, Demote, Start, Fail, Commit, Prove, fileVars
<1>7. CASE Crash
  <2>1. UNCHANGED <<witness, answerVars>>
    BY <1>7 DEF Crash, fileVars
  <2>2. CASE UNCHANGED invoked
    BY <1>1, <2>1, <2>2
  <2>3. CASE pc = "invoke" /\ invoked' = [invoked EXCEPT ![call.cmd] = @ + 1]
    BY <2>1, <2>3, InvocationUnanswered DEF Ledger!Next
  <2> QED
    BY <1>7, <2>2, <2>3 DEF Crash
<1>8. CASE Busy \/ Put \/ CopyJournal \/ RestoreJournal
  BY <1>1, <1>8 DEF Busy, Put, CopyJournal, RestoreJournal, fileVars
<1>9. CASE UNCHANGED vars
  BY <1>1, <1>9 DEF vars, answerVars
<1> QED
  BY <1>2, <1>3, <1>4, <1>5, <1>6, <1>7, <1>8, <1>9 DEF Next, Step

\* Two files, crashes and journals put back look to the callers like the ledger of answered
\* commands: what is returned can no longer be taken back, and an answered command never
\* reaches the provider.
THEOREM Refinement == Spec => RefinesAnsweredLedger
<1>1. Init => Ledger!Init
  BY DEF Init, Ledger!Init, Shown
<1>2. Inv /\ [Next]_vars => [Ledger!Next]_<<Shown(witness), held, receipts, invoked>>
  BY NextRefines
<1> QED
  BY <1>1, <1>2, Invariance, PTL DEF Spec, RefinesAnsweredLedger, Ledger!Spec

=============================================================================
