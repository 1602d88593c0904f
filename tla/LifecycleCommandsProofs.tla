------------------------ MODULE LifecycleCommandsProofs ------------------------
(***************************************************************************)
(* Proofs about LifecycleCommands.  Types hold for any callers; the rest   *)
(* is for a journal with one coordinator, as the properties say, and for   *)
(* any number of commands, slots, saves and crashes.  The inductive        *)
(* invariant says what the records of a command must be at each step of    *)
(* the caller that works on it (CallFacts).                                *)
(***************************************************************************)
EXTENDS LifecycleCommands, SequenceTheorems, TLAPS

-----------------------------------------------------------------------------
(* Types.                                                                  *)

LEMMA AppendType ==
    ASSUME NEW s \in Contents, NEW k \in {"row", "key"}, NEW n \in Nat
    PROVE  Append(s, [kind |-> k, n |-> n]) \in Contents
  <1>1. [kind |-> k, n |-> n] \in Events
    BY DEF Events
  <1> QED BY <1>1, AppendProperties DEF Contents

\* Wherever a call goes next, its label and its variables have their types.
LEMMA CallTypes ==
    ASSUME TypeOK, NEW w \in Callers
    PROVE  /\ \A l \in Labels : Goto(w, l) => pc' \in [Callers -> Labels]
           /\ Finish(w) => pc' \in [Callers -> Labels] /\ job' \in [Callers -> Job]
           /\ Raise(w) => pc' \in [Callers -> Labels] /\ job' \in [Callers -> Job]
           /\ \A r \in File : Return(w, r) => pc' \in [Callers -> Labels] /\ job' \in [Callers -> Job]
           /\ \A c \in Commands : \A s \in Slots \cup {NoSlot} : \A b \in BOOLEAN : \A l \in Labels :
                Begin(w, c, s, b, l) => pc' \in [Callers -> Labels] /\ job' \in [Callers -> Job]
  <1>1. \A l \in Labels : Goto(w, l) => pc' \in [Callers -> Labels]
    BY DEF TypeOK, Goto
  <1>2. NoJob \in Job
    BY DEF NoJob, Job, File
  <1>3. Finish(w) => pc' \in [Callers -> Labels] /\ job' \in [Callers -> Job]
    BY <1>1, <1>2 DEF TypeOK, Finish, Labels
  <1>4. Raise(w) => pc' \in [Callers -> Labels] /\ job' \in [Callers -> Job]
    BY <1>1, <1>3 DEF TypeOK, Raise, Labels
  <1>5. ASSUME NEW r \in File, Return(w, r)
        PROVE  pc' \in [Callers -> Labels] /\ job' \in [Callers -> Job]
    <2>1. pc' \in [Callers -> Labels]
      BY <1>1, <1>5 DEF Return, Labels
    <2>2. [job[w] EXCEPT !.receipt = r] \in Job
      BY DEF TypeOK, Job
    <2>3. job' \in [Callers -> Job]
      BY <1>5, <2>2 DEF Return, TypeOK
    <2> QED BY <2>1, <2>3
  <1>6. ASSUME NEW c \in Commands, NEW s \in Slots \cup {NoSlot}, NEW b \in BOOLEAN, NEW l \in Labels,
               Begin(w, c, s, b, l)
        PROVE  pc' \in [Callers -> Labels] /\ job' \in [Callers -> Job]
    <2>1. [cmd |-> c, slot |-> s, reconciling |-> b, receipt |-> Absent] \in Job
      BY DEF Job, File
    <2> QED BY <1>1, <1>6, <2>1 DEF Begin, TypeOK
  <1> QED BY <1>1, <1>3, <1>4, <1>5, <1>6

\* Whatever is written to a row of the journal is a row.
LEMMA RowTypes ==
    ASSUME TypeOK, NEW c \in Commands, journal[c] # Absent
    PROVE  /\ journal[c] \in JournalRow
           /\ \A st \in JournalStates : WithState(journal[c], st) \in JournalRow
           /\ \A f \in File : [journal[c] EXCEPT !.state = "committed", !.after = f, !.signed = f]
                                \in JournalRow
  <1>1. journal[c] \in JournalRow
    BY DEF TypeOK
  <1> QED BY <1>1 DEF JournalRow, WithState, JournalStates, File

\* A caller at work has a command of the journal, and a row of the provider once it
\* needs one.
Working(w) == pc[w] \notin {"closed", "idle"}

WorkFacts(w) ==
    /\ Working(w) =>
         /\ job[w].cmd \in Issued
         /\ job[w].slot \in SlotsFor(job[w].cmd)
    /\ pc[w] \in {"mark", "mutate", "receipt", "settle"} => provider[job[w].cmd] # Absent

Work == TypeOK /\ \A w \in Callers : WorkFacts(w)

\* Only a migration works without a slot.
LEMMA SlotTypes ==
    ASSUME NEW c \in Commands
    PROVE  /\ SlotsFor(c) \subseteq Slots \cup {NoSlot}
           /\ Operation[c] # "migration" => SlotsFor(c) = Slots
           /\ Operation[c] \in Operations
  BY CommandAssumption DEF SlotsFor

\* A lifecycle operation, whole or torn, leaves contents in the stores.
LEMMA StoreTypes ==
    ASSUME Work, NEW w \in Callers, pc[w] = "mutate",
           \/ InnerOperation(job[w].cmd, job[w].slot)
           \/ Torn(job[w].cmd, job[w].slot)
    PROVE  /\ store' \in [db : Contents, anchor : Contents]
           /\ clock' \in 0..MaxEvents
           /\ backups' \in [Slots -> [db : File, anchor : File]]
  <1> DEFINE c == job[w].cmd
             s == job[w].slot
  <1>1. c \in Commands /\ s \in SlotsFor(c)
    BY DEF Work, WorkFacts, Working, Issued
  <1>2. store \in [db : Contents, anchor : Contents] /\ clock \in 0..MaxEvents
        /\ backups \in [Slots -> [db : File, anchor : File]] /\ MaxEvents \in Nat
    BY CommandAssumption DEF Work, TypeOK
  <1>3. \A x \in Contents : clock < MaxEvents => Reencrypted(x) \in Contents
    BY <1>2, AppendType DEF Reencrypted
  <1>4. CASE Operation[c] = "migration"
    <2>1. Migrate \/ Torn(c, s)
      BY <1>4 DEF InnerOperation
    <2>2. CASE Migrate
      BY <1>2, <1>3, <2>2 DEF Migrate
    <2>3. CASE Torn(c, s)
      BY <1>2, <1>3, <1>4, <2>3 DEF Torn
    <2> QED BY <2>1, <2>2, <2>3
  <1>5. CASE Operation[c] = "snapshot"
    <2>1. SnapshotPair(s) \/ Torn(c, s)
      BY <1>5 DEF InnerOperation
    <2>2. s \in Slots
      BY <1>1, <1>5, SlotTypes
    <2>3. CASE SnapshotPair(s)
      BY <1>2, <2>2, <2>3 DEF SnapshotPair, File
    <2>4. CASE Torn(c, s)
      <3>1. PICK pair \in {[backups[s] EXCEPT !.db = Absent], [backups[s] EXCEPT !.db = store.db],
                           [db |-> store.db, anchor |-> Absent], [db |-> store.db, anchor |-> <<>>]} :
               backups' = [backups EXCEPT ![s] = pair]
        BY <1>5, <2>4 DEF Torn
      <3>2. <<>> \in Contents
        BY DEF Contents
      <3>3. pair \in [db : File, anchor : File]
        BY <1>2, <2>2, <3>1, <3>2 DEF File
      <3>4. store' = store /\ clock' = clock
        BY <1>5, <2>4 DEF Torn
      <3> QED BY <1>2, <2>2, <3>1, <3>3, <3>4
    <2> QED BY <2>1, <2>3, <2>4
  <1>6. CASE Operation[c] = "restore"
    <2>1. RestorePair(s) \/ Torn(c, s)
      BY <1>6 DEF InnerOperation
    <2>2. s \in Slots
      BY <1>1, <1>6, SlotTypes
    <2>3. CASE RestorePair(s)
      BY <1>2, <2>2, <2>3 DEF RestorePair, File
    <2>4. CASE Torn(c, s)
      BY <1>2, <1>6, <2>2, <2>4 DEF Torn, File
    <2> QED BY <2>1, <2>3, <2>4
  <1> QED BY <1>1, <1>4, <1>5, <1>6, SlotTypes DEF Operations

\* A save of the agent leaves contents in the stores.
LEMMA InsertTypes ==
    ASSUME TypeOK, Insert
    PROVE  /\ store' \in [db : Contents, anchor : Contents]
           /\ clock' \in 0..MaxEvents
           /\ backups' \in [Slots -> [db : File, anchor : File]]
  <1>1. store \in [db : Contents, anchor : Contents] /\ clock \in 0..MaxEvents /\ MaxEvents \in Nat
    BY CommandAssumption DEF TypeOK
  <1>2. Append(store.db, [kind |-> "row", n |-> clock + 1]) \in Contents
    BY <1>1, AppendType
  <1>3. PICK anchor \in {store.anchor, Append(store.db, [kind |-> "row", n |-> clock + 1])} :
           store' = [db |-> Append(store.db, [kind |-> "row", n |-> clock + 1]), anchor |-> anchor]
    BY Zenon DEF Insert
  <1>4. store' \in [db : Contents, anchor : Contents]
    BY <1>1, <1>2, <1>3
  <1> QED BY <1>1, <1>4 DEF Insert, TypeOK

\* The variables a step leaves alone keep their types.
LEMMA KeepTypes ==
    ASSUME TypeOK
    PROVE  /\ UNCHANGED storeVars =>
                /\ store' \in [db : Contents, anchor : Contents]
                /\ clock' \in 0..MaxEvents
                /\ backups' \in [Slots -> [db : File, anchor : File]]
           /\ UNCHANGED journal => journal' \in [Commands -> JournalRow \cup {Absent}]
           /\ UNCHANGED <<issued, committed>> => issued' \in Nat /\ committed' \in Nat
           /\ UNCHANGED provider => provider' \in [Commands -> ProviderRow \cup {Absent}]
           /\ UNCHANGED outcome => outcome' \in [Commands -> File]
           /\ UNCHANGED pc => pc' \in [Callers -> Labels]
           /\ UNCHANGED job => job' \in [Callers -> Job]
           /\ UNCHANGED mutated => mutated' \in [Commands -> Nat]
  BY DEF TypeOK, storeVars

\* The steps on the journal of the caller keep the types.
LEMMA CoordinatorTypes ==
    ASSUME Work, NEW w \in Callers,
           \/ Open(w) \/ Demote(w) \/ Start(w) \/ Fail(w) \/ Commit(w) \/ Confirm(w) \/ Busy(w)
           \/ \E c \in Commands : IssueCommand(w, c)
           \/ \E c \in Commands : \E s \in SlotsFor(c) : Execute(w, c, s) \/ Reconcile(w, c, s)
    PROVE  TypeOK'
  <1> USE DEF journalVars, storeVars, providerVars, callVars
  <1>0. TypeOK
    BY DEF Work
  <1>1. ASSUME Working(w)
        PROVE  job[w].cmd \in Commands /\ journal[job[w].cmd] # Absent
    BY <1>1 DEF Work, WorkFacts, Issued
  <1>2. ASSUME Working(w), NEW st \in JournalStates, NEW next, SetState(w, st, next),
               next => pc' \in [Callers -> Labels] /\ job' \in [Callers -> Job]
        PROVE  TypeOK'
    <2>1. journal' \in [Commands -> JournalRow \cup {Absent}]
      <3>1. WithState(journal[job[w].cmd], st) \in JournalRow
        BY <1>0, <1>1, <1>2, RowTypes
      <3> QED BY <1>0, <1>2, <3>1 DEF SetState, TypeOK
    <2>2. pc' \in [Callers -> Labels] /\ job' \in [Callers -> Job]
      BY <1>0, <1>2, CallTypes DEF SetState
    <2>3. UNCHANGED <<storeVars, issued, committed, providerVars, mutated>>
      BY <1>2 DEF SetState
    <2> QED BY <1>0, <2>1, <2>2, <2>3, KeepTypes DEF TypeOK
  <1>3. CASE Open(w)
    <2>1. journal' \in [Commands -> JournalRow \cup {Absent}]
      <3>1. ASSUME NEW c \in Commands, c \in Issued
            PROVE  WithState(journal[c], "reconciliation_required") \in JournalRow
        BY <1>0, <3>1, RowTypes DEF Issued, JournalStates
      <3> QED BY <1>0, <1>3, <3>1 DEF Open, TypeOK
    <2> QED BY <1>0, <1>3, <2>1, CallTypes, KeepTypes DEF Open, TypeOK
  <1>4. CASE Demote(w)
    BY <1>0, <1>2, <1>4, CallTypes DEF Demote, Working, JournalStates, Labels, TypeOK
  <1>5. CASE Start(w)
    BY <1>0, <1>2, <1>5, CallTypes DEF Start, Working, JournalStates, Labels, TypeOK
  <1>6. CASE Fail(w)
    BY <1>0, <1>2, <1>6, CallTypes DEF Fail, Working, JournalStates
  <1>7. CASE Commit(w)
    <2>1. job[w].cmd \in Commands /\ journal[job[w].cmd] # Absent
      BY <1>1, <1>7 DEF Commit, Working
    <2>2. (IF job[w].reconciling THEN job[w].receipt ELSE store.anchor) \in File
      BY <1>0 DEF TypeOK, Job, File
    <2>3. journal' \in [Commands -> JournalRow \cup {Absent}]
      <3> DEFINE f == IF job[w].reconciling THEN job[w].receipt ELSE store.anchor
      <3>1. [journal[job[w].cmd] EXCEPT !.state = "committed", !.after = f, !.signed = f] \in JournalRow
        BY <1>0, <2>1, <2>2, RowTypes
      <3> QED BY <1>0, <1>7, <3>1 DEF Commit, TypeOK
    <2>4. committed' \in Nat
      <3>1. journal[job[w].cmd].fence \in Nat /\ committed \in Nat
        BY <1>0, <2>1, RowTypes DEF TypeOK, JournalRow
      <3>2. committed' \in {committed, journal[job[w].cmd].fence}
        BY <1>7 DEF Commit
      <3> QED BY <3>1, <3>2
    <2>5. pc' \in [Callers -> Labels] /\ job' \in [Callers -> Job]
      BY <1>0, <1>7, CallTypes DEF Commit
    <2>6. UNCHANGED <<storeVars, issued, provider, outcome, mutated>>
      BY <1>7 DEF Commit
    <2> QED BY <1>0, <2>3, <2>4, <2>5, <2>6, KeepTypes DEF TypeOK
  <1>8. CASE Confirm(w)
    BY <1>0, <1>8, CallTypes, KeepTypes DEF Confirm, TypeOK, Labels
  <1>9. CASE Busy(w)
    BY <1>0, <1>9, CallTypes, KeepTypes DEF Busy, TypeOK
  <1>10. ASSUME NEW c \in Commands, IssueCommand(w, c) PROVE TypeOK'
    <2>1. [fence |-> issued + 1, expected |-> store.anchor, state |-> "prepared",
           after |-> Absent, signed |-> Absent] \in JournalRow
      BY <1>0 DEF TypeOK, JournalRow, JournalStates, File
    <2>2. journal' \in [Commands -> JournalRow \cup {Absent}] /\ issued' \in Nat
      BY <1>0, <1>10, <2>1 DEF IssueCommand, TypeOK
    <2> QED BY <1>0, <1>10, <2>2, KeepTypes DEF IssueCommand, TypeOK
  <1>11. ASSUME NEW c \in Commands, NEW s \in SlotsFor(c), Execute(w, c, s) \/ Reconcile(w, c, s)
         PROVE  TypeOK'
    <2>1. pc' \in [Callers -> Labels] /\ job' \in [Callers -> Job]
      <3>1. PICK b \in BOOLEAN, l \in Labels : Begin(w, c, s, b, l)
        BY <1>11 DEF Execute, Reconcile, Labels
      <3> QED BY <1>0, <3>1, CallTypes, SlotTypes
    <2> QED BY <1>0, <1>11, <2>1, KeepTypes DEF Execute, Reconcile, TypeOK
  <1> QED BY <1>3, <1>4, <1>5, <1>6, <1>7, <1>8, <1>9, <1>10, <1>11

\* The row that the provider prepares is a row of the provider.
LEMMA PreparedType ==
    ASSUME Work, NEW w \in Callers, pc[w] = "prepare"
    PROVE  PreparedRow(job[w].cmd, job[w].slot) \in ProviderRow
  <1> DEFINE c == job[w].cmd
             s == job[w].slot
  <1>1. TypeOK /\ c \in Commands /\ s \in SlotsFor(c)
    BY DEF Work, WorkFacts, Working, Issued
  <1>2. s \in Slots \cup {NoSlot} /\ (Operation[c] = "restore" => s \in Slots)
    BY <1>1, SlotTypes
  <1>3. Backup(c, s) \in [db : File, anchor : File]
    BY <1>1, <1>2 DEF Backup, NoBackup, File, TypeOK
  <1> QED BY <1>1, <1>2, <1>3 DEF PreparedRow, TypeOK, ProviderRow

\* The steps on the records of the provider, and a crash, keep the types.
LEMMA ProviderTypes ==
    ASSUME Work, NEW w \in Callers,
           \/ GetOutcome(w) \/ PrepareCommand(w) \/ Mark(w) \/ Mutate(w)
           \/ Recover(w) \/ PutReceipt(w) \/ Settle(w) \/ Crash(w)
    PROVE  TypeOK'
  <1> USE DEF journalVars, storeVars, providerVars
  <1> DEFINE c == job[w].cmd
             s == job[w].slot
  <1>0. TypeOK
    BY DEF Work
  <1>1. ASSUME Working(w)
        PROVE  c \in Commands /\ s \in SlotsFor(c)
    BY <1>1 DEF Work, WorkFacts, Issued
  <1>2. ASSUME c \in Commands, provider[c] # Absent, NEW st \in {"mutation_started", "committed"},
               provider' = [provider EXCEPT ![c].state = st]
        PROVE  provider' \in [Commands -> ProviderRow \cup {Absent}]
    <2>1. [provider[c] EXCEPT !.state = st] \in ProviderRow
      BY <1>0, <1>2 DEF TypeOK, ProviderRow
    <2> QED BY <1>0, <1>2, <2>1 DEF TypeOK
  <1>3. \A l \in Labels : Goto(w, l) => pc' \in [Callers -> Labels]
    BY <1>0, CallTypes
  <1>4. ASSUME c \in Commands, Return(w, outcome[c])
        PROVE  pc' \in [Callers -> Labels] /\ job' \in [Callers -> Job]
    BY <1>0, <1>4, CallTypes DEF TypeOK
  <1>5. Raise(w) => pc' \in [Callers -> Labels] /\ job' \in [Callers -> Job]
    BY <1>0, CallTypes
  <1>6. CASE GetOutcome(w)
    <2>1. c \in Commands
      BY <1>1, <1>6 DEF GetOutcome, Working
    <2>2. pc' \in [Callers -> Labels] /\ job' \in [Callers -> Job]
      BY <1>0, <1>3, <1>4, <1>5, <1>6, <2>1 DEF GetOutcome, TypeOK, Labels
    <2> QED BY <1>0, <1>6, <2>2, KeepTypes DEF GetOutcome, TypeOK
  <1>7. CASE PrepareCommand(w)
    <2>1. c \in Commands /\ s \in SlotsFor(c)
      BY <1>1, <1>7 DEF PrepareCommand, Working
    <2>2. PreparedRow(c, s) \in ProviderRow
      BY <1>7, PreparedType DEF PrepareCommand
    <2>3. provider' \in [Commands -> ProviderRow \cup {Absent}]
      BY <1>0, <1>7, <2>1, <2>2 DEF PrepareCommand, TypeOK
    <2>4. pc' \in [Callers -> Labels] /\ job' \in [Callers -> Job]
      BY <1>0, <1>3, <1>5, <1>7 DEF PrepareCommand, TypeOK, Labels
    <2> QED BY <1>0, <1>7, <2>3, <2>4, KeepTypes DEF PrepareCommand, TypeOK
  <1>8. CASE Mark(w)
    <2>1. c \in Commands /\ provider[c] # Absent
      BY <1>1, <1>8 DEF Mark, Working, Work, WorkFacts
    <2>2. provider' \in [Commands -> ProviderRow \cup {Absent}]
      BY <1>2, <1>8, <2>1 DEF Mark
    <2>3. pc' \in [Callers -> Labels]
      BY <1>3, <1>8 DEF Mark, Labels
    <2> QED BY <1>0, <1>8, <2>2, <2>3, KeepTypes DEF Mark, TypeOK
  <1>9. CASE Mutate(w)
    <2>1. c \in Commands
      BY <1>1, <1>9 DEF Mutate, Working
    <2>2. mutated' \in [Commands -> Nat]
      BY <1>0, <1>9, <2>1 DEF Mutate, TypeOK
    <2>3. pc' \in [Callers -> Labels] /\ job' \in [Callers -> Job]
      BY <1>0, <1>3, <1>5, <1>9 DEF Mutate, TypeOK, Labels
    <2>4. /\ store' \in [db : Contents, anchor : Contents]
          /\ clock' \in 0..MaxEvents
          /\ backups' \in [Slots -> [db : File, anchor : File]]
      <3>1. \/ InnerOperation(c, s) \/ Torn(c, s) \/ UNCHANGED storeVars
        BY <1>9 DEF Mutate
      <3>2. pc[w] = "mutate"
        BY <1>9 DEF Mutate
      <3> QED BY <1>0, <3>1, <3>2, StoreTypes, KeepTypes
    <2> QED BY <1>0, <1>9, <2>2, <2>3, <2>4, KeepTypes DEF Mutate, TypeOK
  <1>10. CASE Recover(w)
    <2>1. c \in Commands
      BY <1>1, <1>10 DEF Recover, Working
    <2>2. \/ UNCHANGED provider
          \/ provider[c] # Absent /\ provider' = [provider EXCEPT ![c].state = "committed"]
      BY <1>10 DEF Recover, Known
    <2>3. provider' \in [Commands -> ProviderRow \cup {Absent}]
      BY <1>0, <1>2, <2>1, <2>2, KeepTypes
    <2>4. pc' \in [Callers -> Labels] /\ job' \in [Callers -> Job]
      BY <1>0, <1>3, <1>4, <1>5, <1>10, <2>1 DEF Recover, TypeOK, Labels
    <2> QED BY <1>0, <1>10, <2>3, <2>4, KeepTypes DEF Recover, TypeOK
  <1>11. CASE PutReceipt(w)
    <2>1. c \in Commands
      BY <1>1, <1>11 DEF PutReceipt, Working
    <2> DEFINE receipt == IF outcome[c] = Absent THEN store.anchor ELSE outcome[c]
    <2>2. receipt \in File
      BY <1>0, <2>1 DEF TypeOK, File
    <2>3. outcome' \in [Commands -> File]
      BY <1>0, <1>11, <2>1, <2>2 DEF PutReceipt, TypeOK
    <2>4. [job[w] EXCEPT !.receipt = receipt] \in Job
      BY <1>0, <2>2 DEF TypeOK, Job
    <2>5. job' \in [Callers -> Job]
      BY <1>0, <1>11, <2>4 DEF PutReceipt, TypeOK
    <2>6. pc' \in [Callers -> Labels]
      BY <1>3, <1>11 DEF PutReceipt, Labels
    <2> QED BY <1>0, <1>11, <2>3, <2>5, <2>6, KeepTypes DEF PutReceipt, TypeOK
  <1>12. CASE Settle(w)
    <2>1. c \in Commands /\ provider[c] # Absent
      BY <1>1, <1>12 DEF Settle, Working, Work, WorkFacts
    <2>2. provider' \in [Commands -> ProviderRow \cup {Absent}]
      BY <1>2, <1>12, <2>1 DEF Settle
    <2>3. pc' \in [Callers -> Labels] /\ job' \in [Callers -> Job]
      <3>1. job[w].receipt \in File
        BY <1>0 DEF TypeOK, Job
      <3> QED BY <1>0, <1>12, <3>1, CallTypes DEF Settle
    <2> QED BY <1>0, <1>12, <2>2, <2>3, KeepTypes DEF Settle, TypeOK
  <1>13. CASE Crash(w)
    <2>1. pc' \in [Callers -> Labels] /\ job' \in [Callers -> Job]
      <3>1. NoJob \in Job
        BY DEF NoJob, Job, File
      <3> QED BY <1>0, <1>3, <1>13, <3>1 DEF Crash, Labels, TypeOK
    <2>2. CASE UNCHANGED <<storeVars, mutated>>
      BY <1>0, <1>13, <2>1, <2>2, KeepTypes DEF Crash, TypeOK
    <2>3. CASE Insert /\ UNCHANGED mutated
      BY <1>0, <1>13, <2>1, <2>3, InsertTypes, KeepTypes DEF Crash, TypeOK
    <2>4. CASE pc[w] = "mutate" /\ Torn(c, s) /\ mutated' = [mutated EXCEPT ![c] = @ + 1]
      <3>1. c \in Commands
        BY <1>1, <2>4 DEF Working
      <3>2. mutated' \in [Commands -> Nat]
        BY <1>0, <2>4, <3>1 DEF TypeOK
      <3> QED BY <1>0, <1>13, <2>1, <2>4, <3>2, StoreTypes, KeepTypes DEF Crash, TypeOK
    <2> QED BY <1>13, <2>2, <2>3, <2>4 DEF Crash
  <1> QED BY <1>6, <1>7, <1>8, <1>9, <1>10, <1>11, <1>12, <1>13

\* No step removes a row.
Kept ==
    \A c \in Commands :
        /\ journal[c] # Absent => journal'[c] # Absent
        /\ provider[c] # Absent => provider'[c] # Absent

\* No row of the journal or of the provider is ever removed.
LEMMA RowsKept ==
    ASSUME Work, [Next]_vars
    PROVE  Kept
  <1> USE DEF journalVars, storeVars, providerVars, callVars
  <1>0. TypeOK
    BY DEF Work
  <1> SUFFICES ASSUME NEW c \in Commands
               PROVE  /\ journal[c] # Absent => journal'[c] # Absent
                      /\ provider[c] # Absent => provider'[c] # Absent
    BY DEF Kept
  <1>1. ASSUME journal[c] # Absent
        PROVE  /\ \A st \in JournalStates : WithState(journal[c], st) # Absent
               /\ \A f \in File : [journal[c] EXCEPT !.state = "committed", !.after = f, !.signed = f]
                                    # Absent
    BY <1>0, <1>1, RowTypes, AbsentAssumption
  <1>2. ASSUME provider[c] # Absent, NEW st \in {"mutation_started", "committed"}
        PROVE  [provider[c] EXCEPT !.state = st] # Absent
    <2>1. [provider[c] EXCEPT !.state = st] \in ProviderRow
      BY <1>0, <1>2 DEF TypeOK, ProviderRow
    <2> QED BY <2>1, AbsentAssumption
  <1>3. CASE UNCHANGED vars
    BY <1>3 DEF vars
  <1>4. CASE Put
    BY <1>4 DEF Put
  <1>5. ASSUME NEW w \in Callers, NEW st \in JournalStates, NEW next, SetState(w, st, next)
        PROVE  /\ journal[c] # Absent => journal'[c] # Absent
               /\ provider[c] # Absent => provider'[c] # Absent
    BY <1>0, <1>1, <1>5 DEF SetState, TypeOK
  <1>6. ASSUME NEW w \in Callers, Open(w) \/ Step(w) \/ Busy(w) \/ Crash(w)
        PROVE  /\ journal[c] # Absent => journal'[c] # Absent
               /\ provider[c] # Absent => provider'[c] # Absent
    <2>1. CASE Open(w)
      BY <1>1, <2>1 DEF Open, Issued, JournalStates
    <2>2. CASE Demote(w) \/ Start(w) \/ Fail(w)
      BY <1>5, <2>2 DEF Demote, Start, Fail, JournalStates
    <2>3. CASE Commit(w)
      <3>1. (IF job[w].reconciling THEN job[w].receipt ELSE store.anchor) \in File
        BY <1>0 DEF TypeOK, Job, File
      <3>2. UNCHANGED provider
        BY <2>3 DEF Commit
      <3>3. \/ UNCHANGED journal
            \/ \E f \in File : journal' = [journal EXCEPT ![job[w].cmd] =
                 [journal[job[w].cmd] EXCEPT !.state = "committed", !.after = f, !.signed = f]]
        BY <2>3, <3>1 DEF Commit
      <3> QED BY <1>0, <1>1, <3>2, <3>3 DEF TypeOK
    <2>4. CASE GetOutcome(w) \/ Mutate(w) \/ PutReceipt(w) \/ Confirm(w) \/ Busy(w) \/ Crash(w)
      BY <2>4 DEF GetOutcome, Mutate, PutReceipt, Confirm, Busy, Crash
    <2>5. CASE PrepareCommand(w)
      <3>1. provider'[c] = provider[c] \/ provider[c] = Absent
            \/ (c = job[w].cmd /\ provider'[c] = PreparedRow(c, job[w].slot))
        BY <1>0, <2>5 DEF PrepareCommand, TypeOK
      <3> QED BY <2>5, <3>1 DEF PrepareCommand, PreparedRow
    <2>6. CASE Mark(w) \/ Settle(w)
      BY <1>0, <1>2, <2>6 DEF Mark, Settle, TypeOK
    <2>7. CASE Recover(w)
      <3>1. \/ UNCHANGED provider
            \/ provider' = [provider EXCEPT ![job[w].cmd].state = "committed"]
        BY <2>7 DEF Recover
      <3> QED BY <1>0, <1>2, <2>7, <3>1 DEF Recover, TypeOK
    <2> QED BY <1>6, <2>1, <2>2, <2>3, <2>4, <2>5, <2>6, <2>7 DEF Step
  <1>7. ASSUME NEW w \in Callers, NEW d \in Commands, IssueCommand(w, d)
        PROVE  /\ journal[c] # Absent => journal'[c] # Absent
               /\ provider[c] # Absent => provider'[c] # Absent
    BY <1>0, <1>7 DEF IssueCommand, TypeOK
  <1>8. ASSUME NEW w \in Callers, NEW d \in Commands, NEW s \in SlotsFor(d),
               Execute(w, d, s) \/ Reconcile(w, d, s)
        PROVE  journal' = journal /\ provider' = provider
    BY <1>8 DEF Execute, Reconcile
  <1> QED BY <1>3, <1>4, <1>6, <1>7, <1>8 DEF Next

\* What a step of one caller leaves of the others.
LEMMA OthersWork ==
    ASSUME Work, Kept, NEW v \in Callers, pc'[v] = pc[v], job'[v] = job[v]
    PROVE  WorkFacts(v)'
  BY DEF Work, WorkFacts, Working, Kept, Issued, SlotsFor

\* Only the caller that acts moves, and it keeps its command or takes up another.
LEMMA Moves ==
    ASSUME TypeOK, NEW w \in Callers,
           \/ Open(w) \/ Step(w) \/ Busy(w) \/ Crash(w)
           \/ \E c \in Commands : \E s \in SlotsFor(c) : Execute(w, c, s) \/ Reconcile(w, c, s)
    PROVE  \A v \in Callers \ {w} : pc'[v] = pc[v] /\ job'[v] = job[v]
  <1> SUFFICES ASSUME NEW v \in Callers, v # w
               PROVE  pc'[v] = pc[v] /\ job'[v] = job[v]
    OBVIOUS
  <1>1. /\ \A l : Goto(w, l) => pc'[v] = pc[v]
        /\ Finish(w) => pc'[v] = pc[v] /\ job'[v] = job[v]
        /\ Raise(w) => pc'[v] = pc[v] /\ job'[v] = job[v]
        /\ \A r : Return(w, r) => pc'[v] = pc[v] /\ job'[v] = job[v]
        /\ \A c, s, b, l : Begin(w, c, s, b, l) => pc'[v] = pc[v] /\ job'[v] = job[v]
    BY DEF TypeOK, Goto, Finish, Raise, Return, Begin
  <1>2. CASE Open(w) \/ Commit(w) \/ Confirm(w) \/ Busy(w)
    BY <1>1, <1>2 DEF Open, Commit, Confirm, Busy
  <1>3. CASE Demote(w) \/ Start(w) \/ Fail(w)
    BY <1>1, <1>3 DEF Demote, Start, Fail, SetState
  <1>4. CASE GetOutcome(w)
    BY <1>1, <1>4 DEF GetOutcome
  <1>5. CASE PrepareCommand(w)
    BY <1>1, <1>5 DEF PrepareCommand
  <1>6. CASE Mark(w) \/ Mutate(w)
    BY <1>1, <1>6 DEF Mark, Mutate
  <1>7. CASE Recover(w)
    BY <1>1, <1>7 DEF Recover
  <1>8. CASE PutReceipt(w) \/ Settle(w) \/ Crash(w)
    BY <1>1, <1>8 DEF PutReceipt, Settle, Crash, TypeOK
  <1>9. ASSUME NEW c \in Commands, NEW s \in SlotsFor(c), Execute(w, c, s) \/ Reconcile(w, c, s)
        PROVE  pc'[v] = pc[v] /\ job'[v] = job[v]
    BY <1>1, <1>9 DEF Execute, Reconcile
  <1> QED BY <1>2, <1>3, <1>4, <1>5, <1>6, <1>7, <1>8, <1>9 DEF Step

\* A call keeps its command and its slot until it ends.
LEMMA Continues ==
    ASSUME Work, NEW w \in Callers, Step(w)
    PROVE  /\ Working(w)
           /\ \/ pc'[w] = "idle"
              \/ job'[w].cmd = job[w].cmd /\ job'[w].slot = job[w].slot
           /\ pc'[w] \in {"mark", "mutate", "receipt", "settle"} =>
                pc[w] \in {"mark", "mutate", "receipt"} \/ provider'[job[w].cmd] # Absent
  <1>0. TypeOK
    BY DEF Work
  <1>1. /\ \A l : Goto(w, l) => pc'[w] = l
        /\ Finish(w) => pc'[w] = "idle"
        /\ Raise(w) => \/ pc'[w] = "idle"
                       \/ pc'[w] = "fail" /\ job' = job
        /\ \A r : Return(w, r) =>
             /\ job'[w].cmd = job[w].cmd /\ job'[w].slot = job[w].slot
             /\ pc'[w] \in {"confirm", "commit"}
    BY <1>0 DEF TypeOK, Goto, Finish, Raise, Return, Job
  <1>2. CASE Commit(w) \/ Confirm(w)
    BY <1>1, <1>2 DEF Commit, Confirm, Working
  <1>3. CASE Demote(w) \/ Start(w) \/ Fail(w)
    BY <1>1, <1>3 DEF Demote, Start, Fail, SetState, Working
  <1>4. CASE GetOutcome(w)
    BY <1>1, <1>4 DEF GetOutcome, Working
  <1>5. CASE PrepareCommand(w)
    <2>1. job[w].cmd \in Commands
      BY <1>5 DEF PrepareCommand, Work, WorkFacts, Working, Issued
    <2>2. PreparedRow(job[w].cmd, job[w].slot) # Absent
      BY <1>5, PreparedType, AbsentAssumption DEF PrepareCommand
    <2>3. pc'[w] \in {"mark"} => provider'[job[w].cmd] # Absent
      BY <1>0, <1>1, <1>5, <2>1, <2>2 DEF PrepareCommand, TypeOK
    <2> QED BY <1>1, <1>5, <2>3 DEF PrepareCommand, Working
  <1>6. CASE Mark(w) \/ Mutate(w)
    BY <1>1, <1>6 DEF Mark, Mutate, Working
  <1>7. CASE Recover(w)
    BY <1>1, <1>7 DEF Recover, Working, Known
  <1>8. CASE PutReceipt(w)
    BY <1>0, <1>1, <1>8 DEF PutReceipt, Working, TypeOK, Job
  <1>9. CASE Settle(w)
    BY <1>1, <1>9 DEF Settle, Working
  <1> QED BY <1>2, <1>3, <1>4, <1>5, <1>6, <1>7, <1>8, <1>9 DEF Step

\* Every step keeps the types and what a call knows of its command.
LEMMA WorkStep == Work /\ [Next]_vars => Work'
  <1> SUFFICES ASSUME Work, [Next]_vars PROVE Work'
    OBVIOUS
  <1>0. TypeOK /\ Kept
    BY RowsKept DEF Work
  <1>1. CASE UNCHANGED vars
    BY <1>1 DEF vars, Work, TypeOK, WorkFacts, Working, Issued
  <1>2. CASE Put
    <2>1. UNCHANGED <<pc, job, journal, issued, committed, provider, outcome, mutated>>
      BY <1>2 DEF Put, journalVars, providerVars, callVars
    <2>2. TypeOK'
      BY <1>0, <1>2, <2>1, InsertTypes, KeepTypes DEF Put, TypeOK
    <2> QED BY <1>0, <2>1, <2>2, OthersWork DEF Work
  <1>3. ASSUME NEW w \in Callers, Step(w) PROVE Work'
    <2>1. TypeOK'
      BY <1>3, CoordinatorTypes, ProviderTypes DEF Step
    <2>2. WorkFacts(w)'
      <3>1. job[w].cmd \in Issued /\ job[w].slot \in SlotsFor(job[w].cmd)
        BY <1>3, Continues DEF Work, WorkFacts
      <3>2. pc[w] \in {"mark", "mutate", "receipt"} => provider[job[w].cmd] # Absent
        BY DEF Work, WorkFacts
      <3>3. pc'[w] \in {"mark", "mutate", "receipt", "settle"} => provider'[job[w].cmd] # Absent
        BY <1>0, <1>3, <3>1, <3>2, Continues DEF Kept, Issued
      <3> QED BY <1>0, <1>3, <3>1, <3>3, Continues DEF WorkFacts, Working, Kept, Issued, SlotsFor
    <2>3. \A v \in Callers : WorkFacts(v)'
      BY <1>0, <1>3, <2>2, Moves, OthersWork
    <2> QED BY <2>1, <2>3 DEF Work
  <1>4. ASSUME NEW w \in Callers, Open(w) \/ Busy(w) \/ Crash(w) PROVE Work'
    <2>1. TypeOK'
      BY <1>4, CoordinatorTypes, ProviderTypes
    <2>2. pc'[w] \in {"idle", "closed"}
      BY <1>0, <1>4 DEF Open, Busy, Crash, Finish, Goto, TypeOK
    <2>3. WorkFacts(w)'
      BY <2>2 DEF WorkFacts, Working
    <2> QED BY <1>0, <1>4, <2>1, <2>3, Moves, OthersWork DEF Work
  <1>5. ASSUME NEW w \in Callers, NEW c \in Commands, IssueCommand(w, c) PROVE Work'
    <2>1. TypeOK'
      BY <1>5, CoordinatorTypes
    <2> QED BY <1>0, <1>5, <2>1, OthersWork DEF Work, IssueCommand, callVars
  <1>6. ASSUME NEW w \in Callers, NEW c \in Commands, NEW s \in SlotsFor(c),
               Execute(w, c, s) \/ Reconcile(w, c, s)
        PROVE  Work'
    <2>1. TypeOK'
      BY <1>6, CoordinatorTypes
    <2>2. WorkFacts(w)'
      <3>1. c \in Issued /\ journal' = journal
        BY <1>6 DEF Execute, Reconcile, journalVars
      <3>2. job'[w].cmd = c /\ job'[w].slot = s /\ pc'[w] \in {"demote", "start", "recover"}
        BY <1>0, <1>6 DEF Execute, Reconcile, Begin, Goto, TypeOK
      <3> QED BY <3>1, <3>2 DEF WorkFacts, Working, Issued, SlotsFor
    <2> QED BY <1>0, <1>6, <2>1, <2>2, Moves, OthersWork DEF Work
  <1> QED BY <1>1, <1>2, <1>3, <1>4, <1>5, <1>6 DEF Next

\* They hold when nothing was issued.
LEMMA InitWork == Init => Work
  <1> SUFFICES ASSUME Init PROVE Work
    OBVIOUS
  <1>1. InitialContents \in Contents
    <2>1. [kind |-> "row", n |-> 0] \in Events
      BY DEF Events
    <2> QED BY <2>1 DEF InitialContents, Contents
  <1>2. NoJob \in Job /\ NoBackup \in [db : File, anchor : File]
    BY DEF NoJob, Job, File, NoBackup
  <1>3. TypeOK
    BY <1>1, <1>2, CommandAssumption DEF Init, TypeOK, Labels, File
  <1>4. \A w \in Callers : WorkFacts(w)
    BY DEF Init, WorkFacts, Working
  <1> QED BY <1>3, <1>4 DEF Work

\* Every variable keeps its type, whatever the number of coordinators: a step never
\* finds a missing row where it needs one.
THEOREM TypeCorrect == Spec => []TypeOK
  <1>1. Work => TypeOK
    BY DEF Work
  <1> QED BY <1>1, InitWork, WorkStep, PTL DEF Spec

-----------------------------------------------------------------------------
(* One coordinator.                                                        *)

\* The records of a command, and the marks over all of them.
RecordFacts(c) ==
    /\ c \in Issued =>
         /\ journal[c].fence <= issued
         /\ journal[c].signed = journal[c].after
         /\ journal[c].state = "committed" => journal[c].fence <= committed /\ outcome[c] # Absent
         /\ journal[c].state # "committed" => journal[c].after = Absent
    /\ outcome[c] # Absent => provider[c] # Absent /\ provider[c].state # "prepared"
    /\ provider[c] # Absent => c \in Issued /\ journal[c].state # "prepared"
    /\ mutated[c] > 0 => provider[c] # Absent /\ provider[c].state # "prepared"
    /\ mutated[c] <= 1

Marks ==
    /\ issued = 0 \/ \E c \in Issued : journal[c].fence = issued
    /\ committed = 0 \/ \E c \in Committed : journal[c].fence = committed

\* What the caller may rely on, at each of its steps.
CallFacts(w) ==
    LET c == job[w].cmd IN
    /\ pc[w] = "demote" => journal[c].state = "provider_started"
    /\ pc[w] = "start" => journal[c].state = "prepared" /\ ~job[w].reconciling
    /\ Working(w) /\ pc[w] \notin {"demote", "start"} =>
         journal[c].state =
           IF job[w].reconciling THEN "reconciliation_required" ELSE "provider_started"
    /\ pc[w] = "fail" => ~job[w].reconciling
    /\ pc[w] = "mark" => provider[c].state = "prepared"
    /\ pc[w] = "mutate" => provider[c].state = "mutation_started" /\ mutated[c] = 0
    /\ pc[w] \in {"receipt", "settle"} => provider[c].state # "prepared"
    /\ pc[w] \in {"settle", "confirm", "commit"} => outcome[c] # Absent

Safe(w) ==
    /\ Work
    /\ \A c \in Commands : RecordFacts(c)
    /\ Marks
    /\ CallFacts(w)

Records == (\A c \in Commands : RecordFacts(c)) /\ Marks

\* The invariant gives the three properties that the run checks.
LEMMA SafeImplies ==
    ASSUME NEW w, Safe(w)
    PROVE  JournalOpens /\ MutatedOnce /\ RecordsAgree
  <1>1. \A c \in Commands : RecordFacts(c)
    BY DEF Safe
  <1>2. MutatedOnce /\ RecordsAgree
    BY <1>1 DEF MutatedOnce, RecordsAgree, RecordFacts, Committed
  <1>3. \A c \in Issued : Readable(c)
    BY <1>1 DEF Readable, RecordFacts, Issued
  <1>4. Highest(issued, Issued) /\ Highest(committed, Committed)
    BY <1>1 DEF Safe, Marks, Highest, RecordFacts, Issued, Committed
  <1> QED BY <1>2, <1>3, <1>4 DEF JournalOpens, StoreVerified

\* Rows change state without touching the marks or a committed row.
LEMMA DemoteRecords ==
    ASSUME NEW w \in Callers, Safe(w), NEW S \in SUBSET Issued, NEW st \in JournalStates \ {"prepared", "committed"},
           \A c \in S : journal[c].state # "committed",
           journal' = [c \in Commands |-> IF c \in S THEN WithState(journal[c], st) ELSE journal[c]],
           UNCHANGED <<issued, committed, provider, outcome, mutated>>
    PROVE  Records'
  <1>0. TypeOK
    BY DEF Safe, Work
  <1>1. ASSUME NEW c \in Commands
        PROVE  /\ c \in Issued' <=> c \in Issued
               /\ c \in S => journal'[c] = WithState(journal[c], st) /\ journal[c] \in JournalRow
               /\ c \notin S => journal'[c] = journal[c]
    BY <1>0, RowTypes, AbsentAssumption DEF Issued
  <1>2. ASSUME NEW c \in Commands
        PROVE  /\ c \in Issued => journal'[c].fence = journal[c].fence
               /\ c \in Issued => (journal'[c].state = "committed" <=> journal[c].state = "committed")
               /\ c \in S => journal'[c].state = st /\ journal'[c].signed = Absent
                             /\ journal'[c].after = journal[c].after
    BY <1>1 DEF WithState, JournalRow
  <1>3. ASSUME NEW c \in Commands PROVE RecordFacts(c)'
    <2>1. RecordFacts(c)
      BY DEF Safe
    <2>2. CASE c \in S
      BY <1>1, <1>2, <2>1, <2>2 DEF RecordFacts
    <2>3. CASE c \notin S
      BY <1>1, <2>1, <2>3 DEF RecordFacts
    <2> QED BY <2>2, <2>3
  <1>4. Marks'
    <2>1. Issued' = Issued /\ Committed' = Committed
      BY <1>1, <1>2 DEF Issued, Committed
    <2> QED BY <1>2, <2>1 DEF Safe, Marks, Issued, Committed
  <1> QED BY <1>3, <1>4 DEF Records

\* A step that changes neither the journal nor any fact about the provider's rows.
LEMMA SameRecords ==
    ASSUME NEW w, Safe(w), UNCHANGED <<journal, issued, committed, provider, outcome, mutated>>
    PROVE  Records'
  BY DEF Safe, Records, RecordFacts, Marks, Issued, Committed

\* What a working caller knows of its command.
LEMMA CallerKnows ==
    ASSUME NEW w \in Callers, Safe(w), Working(w)
    PROVE  /\ job[w].cmd \in Issued /\ job[w].cmd \in Commands
           /\ journal[job[w].cmd] \in JournalRow
           /\ journal[job[w].cmd].state # "committed"
           /\ Readable(job[w].cmd)
  <1>1. job[w].cmd \in Issued /\ job[w].cmd \in Commands
    BY DEF Safe, Work, WorkFacts, Issued
  <1>2. journal[job[w].cmd] \in JournalRow
    BY <1>1, RowTypes DEF Safe, Work, Issued
  <1>3. journal[job[w].cmd].state # "committed"
    BY DEF Safe, CallFacts
  <1>4. Readable(job[w].cmd)
    BY <1>1 DEF Safe, RecordFacts, Readable
  <1> QED BY <1>1, <1>2, <1>3, <1>4

\* The next step of the caller after each way to leave an action.
LEMMA Leaves ==
    ASSUME TypeOK, NEW w \in Callers
    PROVE  /\ \A l : Goto(w, l) => pc'[w] = l
           /\ Finish(w) => pc'[w] = "idle"
           /\ Raise(w) => IF job[w].reconciling THEN pc'[w] = "idle"
                          ELSE pc'[w] = "fail" /\ job' = job
           /\ \A r : Return(w, r) =>
                /\ job'[w].cmd = job[w].cmd /\ job'[w].reconciling = job[w].reconciling
                /\ pc'[w] \in {"confirm", "commit"}
           /\ \A c, s, b, l : Begin(w, c, s, b, l) =>
                pc'[w] = l /\ job'[w].cmd = c /\ job'[w].reconciling = b
  BY DEF TypeOK, Goto, Finish, Raise, Return, Job, Begin

\* A transition of the journal below commit fits the other records.
LEMMA SetStateSafe ==
    ASSUME NEW w \in Callers, Safe(w), Working(w), NEW st \in JournalStates \ {"prepared", "committed"},
           NEW next, SetState(w, st, next)
    PROVE  /\ Records'
           /\ next
           /\ journal'[job[w].cmd].state = st
  <1> DEFINE c == job[w].cmd
  <1>1. c \in Issued /\ c \in Commands /\ journal[c] \in JournalRow /\ Readable(c)
        /\ journal[c].state # "committed"
    BY CallerKnows
  <1>2. journal' = [journal EXCEPT ![c] = WithState(@, st)] /\ next
        /\ UNCHANGED <<issued, committed, provider, outcome, mutated>>
    BY <1>1 DEF SetState, providerVars
  <1>3. journal \in [Commands -> JournalRow \cup {Absent}]
    BY DEF Safe, Work, TypeOK
  <1> DEFINE S == {c}
  <1>4. journal' = [d \in Commands |-> IF d \in S THEN WithState(journal[d], st) ELSE journal[d]]
    BY <1>2, <1>3
  <1>5. Records'
    <2>1. S \in SUBSET Issued /\ \A d \in S : journal[d].state # "committed"
      BY <1>1
    <2> HIDE DEF S
    <2> QED BY <1>2, <1>4, <2>1, DemoteRecords
  <1>6. journal'[c].state = st
    BY <1>1, <1>4 DEF WithState, JournalRow
  <1> QED BY <1>2, <1>5, <1>6

\* The steps on the journal of the caller keep the records in agreement.
LEMMA CoordinatorSafe ==
    ASSUME NEW w \in Callers, Safe(w),
           \/ Open(w) \/ Demote(w) \/ Start(w) \/ Fail(w) \/ Commit(w) \/ Confirm(w) \/ Busy(w)
           \/ \E c \in Commands : IssueCommand(w, c)
           \/ \E c \in Commands : \E s \in SlotsFor(c) : Execute(w, c, s) \/ Reconcile(w, c, s)
    PROVE  Records' /\ CallFacts(w)'
  <1> USE DEF journalVars, providerVars
  <1>0. TypeOK
    BY DEF Safe, Work
  <1>1. CASE Open(w)
    <2>1. CallFacts(w)'
      BY <1>0, <1>1, Leaves DEF Open, CallFacts, Working
    <2> DEFINE S == {c \in Issued : journal[c].state = "provider_started"}
    <2>2. journal' = [c \in Commands |->
             IF c \in S THEN WithState(journal[c], "reconciliation_required") ELSE journal[c]]
      BY <1>1 DEF Open
    <2>3. S \in SUBSET Issued /\ \A c \in S : journal[c].state # "committed"
      OBVIOUS
    <2> QED BY <1>1, <2>1, <2>2, <2>3, DemoteRecords DEF Open, JournalStates
  <1>2. CASE Demote(w)
    <2>1. /\ Records'
          /\ IF job[w].reconciling THEN Goto(w, "recover") /\ UNCHANGED job ELSE Finish(w)
          /\ journal'[job[w].cmd].state = "reconciliation_required"
      <3>1. "reconciliation_required" \in JournalStates \ {"prepared", "committed"} /\ Working(w)
        BY <1>2 DEF JournalStates, Demote, Working
      <3> QED BY <1>2, <3>1, SetStateSafe DEF Demote
    <2> QED BY <1>0, <2>1, Leaves DEF CallFacts, Working
  <1>3. CASE Start(w)
    <2>1. /\ Records'
          /\ Goto(w, "get") /\ UNCHANGED job
          /\ journal'[job[w].cmd].state = "provider_started"
      <3>1. "provider_started" \in JournalStates \ {"prepared", "committed"} /\ Working(w)
        BY <1>3 DEF JournalStates, Start, Working
      <3> QED BY <1>3, <3>1, SetStateSafe DEF Start
    <2>2. ~job[w].reconciling
      BY <1>3 DEF Start, Safe, CallFacts
    <2> QED BY <1>0, <2>1, <2>2, Leaves DEF CallFacts, Working
  <1>4. CASE Fail(w)
    <2>1. Records' /\ Finish(w)
      <3>1. "reconciliation_required" \in JournalStates \ {"prepared", "committed"} /\ Working(w)
        BY <1>4 DEF JournalStates, Fail, Working
      <3> QED BY <1>4, <3>1, SetStateSafe DEF Fail
    <2> QED BY <1>0, <2>1, Leaves DEF CallFacts, Working
  <1>5. CASE Commit(w)
    <2> DEFINE c == job[w].cmd
               f == IF job[w].reconciling THEN job[w].receipt ELSE store.anchor
    <2>1. c \in Issued /\ c \in Commands /\ journal[c] \in JournalRow /\ Readable(c) /\ outcome[c] # Absent
      BY <1>5, CallerKnows DEF Commit, Working, Safe, CallFacts
    <2>2. /\ journal' = [journal EXCEPT ![c] =
                [@ EXCEPT !.state = "committed", !.after = f, !.signed = f]]
          /\ committed' = IF journal[c].fence > committed THEN journal[c].fence ELSE committed
          /\ UNCHANGED <<issued, provider, outcome, mutated>>
      BY <1>5, <2>1 DEF Commit
    <2>3. /\ journal'[c] \in JournalRow /\ journal'[c].fence = journal[c].fence
          /\ journal'[c].state = "committed" /\ journal'[c].after = f /\ journal'[c].signed = f
      <3>1. f \in File
        BY <1>0 DEF TypeOK, Job, File
      <3> QED BY <1>0, <2>1, <2>2, <3>1 DEF TypeOK, JournalRow, JournalStates
    <2>4. \A d \in Commands : d # c => journal'[d] = journal[d]
      BY <1>0, <2>2 DEF TypeOK
    <2>5. Issued' = Issued /\ Committed' = Committed \cup {c}
      BY <2>1, <2>3, <2>4, AbsentAssumption DEF Issued, Committed
    <2>6. committed \in Nat /\ journal[c].fence \in Nat /\ committed' \in Nat
          /\ committed <= committed' /\ journal[c].fence <= committed'
      BY <1>0, <2>1, <2>2 DEF TypeOK, JournalRow
    <2>7. issued' = issued /\ provider' = provider /\ outcome' = outcome /\ mutated' = mutated
      BY <2>2
    <2>8. ASSUME NEW d \in Commands PROVE RecordFacts(d)'
      <3>1. RecordFacts(d)
        BY DEF Safe
      <3>2. CASE d = c
        BY <2>1, <2>3, <2>5, <2>6, <2>7, <3>1, <3>2 DEF RecordFacts
      <3>3. CASE d # c
        <4>1. journal'[d] = journal[d] /\ (d \in Issued' <=> d \in Issued)
          BY <2>4, <2>5, <3>3
        <4>2. d \in Issued => journal[d].fence \in Nat
          BY <1>0, RowTypes DEF Issued, JournalRow
        <4> QED BY <2>6, <2>7, <3>1, <4>1, <4>2 DEF RecordFacts
      <3> QED BY <3>2, <3>3
    <2>9. Marks'
      <3>1. issued' = 0 \/ \E d \in Issued' : journal'[d].fence = issued'
        BY <2>2, <2>3, <2>4, <2>5 DEF Safe, Marks, Issued
      <3>2. committed' = 0 \/ \E d \in Committed' : journal'[d].fence = committed'
        <4>1. CASE journal[c].fence > committed
          BY <2>2, <2>3, <2>5, <4>1
        <4>2. CASE ~(journal[c].fence > committed)
          BY <2>2, <2>3, <2>4, <2>5, <4>2 DEF Safe, Marks, Committed, Issued
        <4> QED BY <4>1, <4>2
      <3> QED BY <3>1, <3>2 DEF Marks
    <2>10. CallFacts(w)'
      BY <1>0, <1>5, Leaves DEF Commit, CallFacts, Working
    <2> QED BY <2>8, <2>9, <2>10 DEF Records
  <1>6. CASE Confirm(w)
    <2>1. Records'
      BY <1>6, SameRecords DEF Confirm
    <2>2. outcome[job[w].cmd] # Absent
          /\ journal[job[w].cmd].state =
               IF job[w].reconciling THEN "reconciliation_required" ELSE "provider_started"
      BY <1>6 DEF Confirm, Safe, CallFacts, Working
    <2> QED BY <1>0, <1>6, <2>1, <2>2, Leaves DEF Confirm, CallFacts, Working
  <1>7. CASE Busy(w)
    BY <1>0, <1>7, SameRecords, Leaves DEF Busy, CallFacts, Working
  <1>8. ASSUME NEW c \in Commands, IssueCommand(w, c) PROVE Records' /\ CallFacts(w)'
    <2> DEFINE row == [fence |-> issued + 1, expected |-> store.anchor, state |-> "prepared",
                       after |-> Absent, signed |-> Absent]
    <2>1. /\ pc[w] = "idle" /\ journal[c] = Absent
          /\ journal' = [journal EXCEPT ![c] = row]
          /\ issued' = issued + 1
          /\ UNCHANGED <<committed, provider, outcome, mutated, pc, job>>
      BY <1>8 DEF IssueCommand, callVars
    <2>2. journal'[c] = row /\ \A d \in Commands : d # c => journal'[d] = journal[d]
      BY <1>0, <2>1 DEF TypeOK
    <2>3. row \in JournalRow
      BY <1>0 DEF TypeOK, JournalRow, JournalStates, File
    <2>4. Issued' = Issued \cup {c} /\ Committed' = Committed
      BY <2>1, <2>2, <2>3, AbsentAssumption DEF Issued, Committed
    <2>5. ASSUME NEW d \in Commands PROVE RecordFacts(d)'
      <3>1. RecordFacts(d)
        BY DEF Safe
      <3>2. CASE d = c
        BY <1>0, <2>1, <2>2, <2>4, <3>1, <3>2 DEF RecordFacts, Issued, TypeOK
      <3>3. CASE d # c
        <4>1. journal'[d] = journal[d] /\ (d \in Issued' <=> d \in Issued)
          BY <2>2, <2>4, <3>3
        <4>2. d \in Issued => journal[d].fence \in Nat
          BY <1>0, RowTypes DEF Issued, JournalRow
        <4> QED BY <1>0, <2>1, <3>1, <4>1, <4>2 DEF RecordFacts, TypeOK
      <3> QED BY <3>2, <3>3
    <2>6. Marks'
      <3>1. issued' = 0 \/ \E d \in Issued' : journal'[d].fence = issued'
        BY <2>1, <2>2, <2>4
      <3>2. c \notin Committed
        BY <2>1 DEF Committed, Issued
      <3>3. committed' = 0 \/ \E d \in Committed' : journal'[d].fence = committed'
        BY <2>1, <2>2, <2>4, <3>2 DEF Safe, Marks, Committed, Issued
      <3> QED BY <3>1, <3>3 DEF Marks
    <2>7. CallFacts(w)'
      BY <2>1 DEF CallFacts, Working
    <2> QED BY <2>5, <2>6, <2>7 DEF Records
  <1>9. ASSUME NEW c \in Commands, NEW s \in SlotsFor(c), Execute(w, c, s) \/ Reconcile(w, c, s)
        PROVE  Records' /\ CallFacts(w)'
    <2>1. Records'
      BY <1>9, SameRecords DEF Execute, Reconcile
    <2>2. /\ journal' = journal
          /\ job'[w].cmd = c
          /\ \/ pc'[w] = "demote" /\ journal[c].state = "provider_started"
             \/ pc'[w] = "start" /\ journal[c].state = "prepared" /\ job'[w].reconciling = FALSE
             \/ pc'[w] = "recover" /\ journal[c].state = "reconciliation_required"
                /\ job'[w].reconciling = TRUE
      <3>1. journal' = journal
        BY <1>9 DEF Execute, Reconcile
      <3>2. ASSUME NEW b, NEW l, Begin(w, c, s, b, l)
            PROVE  pc'[w] = l /\ job'[w].cmd = c /\ job'[w].reconciling = b
        BY <1>0, <3>2 DEF Begin, Goto, TypeOK
      <3>3. CASE Execute(w, c, s)
        BY <3>1, <3>2, <3>3 DEF Execute, MayStart
      <3>4. CASE Reconcile(w, c, s)
        BY <3>1, <3>2, <3>4 DEF Reconcile
      <3> QED BY <1>9, <3>3, <3>4
    <2>3. pc'[w] \in {"demote", "start", "recover"}
      BY <2>2
    <2>4. CallFacts(w)'
      BY <2>2, <2>3 DEF CallFacts, Working
    <2> QED BY <2>1, <2>4
  <1> QED BY <1>1, <1>2, <1>3, <1>4, <1>5, <1>6, <1>7, <1>8, <1>9

\* A change of the provider's records of one command that is under way.
LEMMA ProviderRecords ==
    ASSUME NEW w, Safe(w), NEW c \in Issued, journal[c].state # "prepared",
           UNCHANGED <<journal, issued, committed>>,
           \A d \in Commands : d # c =>
             provider'[d] = provider[d] /\ outcome'[d] = outcome[d] /\ mutated'[d] = mutated[d],
           provider'[c] # Absent,
           outcome[c] # Absent => outcome'[c] # Absent,
           outcome'[c] # Absent \/ mutated'[c] > 0 => provider'[c].state # "prepared",
           mutated'[c] <= 1
    PROVE  Records'
  <1>1. Marks'
    BY DEF Safe, Marks, Issued, Committed
  <1>2. ASSUME NEW d \in Commands PROVE RecordFacts(d)'
    <2>1. RecordFacts(d) /\ Issued' = Issued
      BY DEF Safe, Issued
    <2>2. CASE d = c
      BY <2>1, <2>2 DEF RecordFacts
    <2>3. CASE d # c
      BY <2>1, <2>3 DEF RecordFacts
    <2> QED BY <2>2, <2>3
  <1> QED BY <1>1, <1>2 DEF Records

\* The steps on the records of the provider, and a crash, keep them in agreement.
LEMMA ProviderSafe ==
    ASSUME NEW w \in Callers, Safe(w),
           \/ GetOutcome(w) \/ PrepareCommand(w) \/ Mark(w) \/ Mutate(w)
           \/ Recover(w) \/ PutReceipt(w) \/ Settle(w) \/ Crash(w)
    PROVE  Records' /\ CallFacts(w)'
  <1> USE DEF journalVars, providerVars
  <1> DEFINE c == job[w].cmd
  <1>0. TypeOK
    BY DEF Safe, Work
  <1>1. ASSUME Working(w), pc[w] \notin {"demote", "start"}
        PROVE  /\ c \in Issued /\ c \in Commands /\ RecordFacts(c)
               /\ journal[c].state # "prepared"
               /\ journal[c].state =
                    IF job[w].reconciling THEN "reconciliation_required" ELSE "provider_started"
    <2>1. c \in Issued /\ c \in Commands /\ RecordFacts(c)
      BY <1>1, CallerKnows DEF Safe
    <2> QED BY <1>1, <2>1 DEF Safe, CallFacts
  <1>2. CASE GetOutcome(w)
    <2>1. Records'
      BY <1>2, SameRecords DEF GetOutcome
    <2>2. journal[c].state =
            IF job[w].reconciling THEN "reconciliation_required" ELSE "provider_started"
      BY <1>1, <1>2 DEF GetOutcome, Working
    <2> QED BY <1>0, <1>2, <2>1, <2>2, Leaves DEF GetOutcome, CallFacts, Working
  <1>3. CASE PrepareCommand(w)
    <2>1. /\ c \in Issued /\ c \in Commands /\ RecordFacts(c) /\ journal[c].state # "prepared"
          /\ journal[c].state =
               IF job[w].reconciling THEN "reconciliation_required" ELSE "provider_started"
      BY <1>1, <1>3 DEF PrepareCommand, Working
    <2> DEFINE row == PreparedRow(c, job[w].slot)
    <2>2. UNCHANGED <<journal, issued, committed, outcome, mutated>>
      BY <1>3 DEF PrepareCommand
    <2>3. CASE Observable(c, job[w].slot) /\ row.slot = job[w].slot
      <3>1. /\ provider' = [provider EXCEPT ![c] = row]
            /\ CASE row.state = "mutation_started" -> Goto(w, "recover") /\ UNCHANGED job
                 [] row.state = "prepared" /\ journal[c].expected = store.anchor ->
                      Goto(w, "mark") /\ UNCHANGED job
                 [] OTHER -> Raise(w)
        BY <1>3, <2>3 DEF PrepareCommand
      <3>2. provider'[c] = row /\ \A d \in Commands : d # c => provider'[d] = provider[d]
        BY <1>0, <2>1, <3>1 DEF TypeOK
      <3>3. row # Absent
        BY <1>3, PreparedType, AbsentAssumption DEF PrepareCommand, Safe
      <3>4. outcome'[c] # Absent \/ mutated'[c] > 0 => provider'[c].state # "prepared"
        BY <2>1, <2>2, <3>2 DEF RecordFacts, PreparedRow
      <3>5. Records'
        <4>1. mutated'[c] <= 1
          BY <2>1, <2>2 DEF RecordFacts
        <4>2. provider'[c] # Absent
          BY <3>2, <3>3
        <4>3. \A d \in Commands : d # c =>
                provider'[d] = provider[d] /\ outcome'[d] = outcome[d] /\ mutated'[d] = mutated[d]
          BY <2>2, <3>2
        <4> QED BY <2>1, <2>2, <3>4, <4>1, <4>2, <4>3, ProviderRecords
      <3>6. CallFacts(w)'
        BY <1>0, <2>1, <2>2, <3>1, <3>2, Leaves DEF CallFacts, Working
      <3> QED BY <3>5, <3>6
    <2>4. CASE ~(Observable(c, job[w].slot) /\ row.slot = job[w].slot)
      <3>1. Raise(w) /\ UNCHANGED provider
        BY <1>3, <2>4 DEF PrepareCommand
      <3>2. Records'
        BY <2>2, <3>1, SameRecords
      <3> QED BY <1>0, <2>1, <2>2, <3>1, <3>2, Leaves DEF CallFacts, Working
    <2> QED BY <2>3, <2>4
  <1>4. CASE Mark(w)
    <2>1. /\ c \in Issued /\ c \in Commands /\ RecordFacts(c) /\ journal[c].state # "prepared"
          /\ journal[c].state =
               IF job[w].reconciling THEN "reconciliation_required" ELSE "provider_started"
          /\ provider[c] # Absent /\ provider[c].state = "prepared"
      BY <1>1, <1>4 DEF Mark, Working, Safe, CallFacts, Work, WorkFacts
    <2>2. provider[c] \in ProviderRow
      BY <1>0, <2>1 DEF TypeOK
    <2>3. /\ provider'[c] \in ProviderRow /\ provider'[c].state = "mutation_started"
          /\ \A d \in Commands : d # c => provider'[d] = provider[d]
          /\ UNCHANGED <<journal, issued, committed, outcome, mutated, job>>
          /\ pc'[w] = "mutate"
      BY <1>0, <1>4, <2>1, <2>2, Leaves DEF Mark, TypeOK, ProviderRow
    <2>4. mutated[c] = 0
      BY <1>0, <2>1 DEF RecordFacts, TypeOK
    <2>5. Records'
      BY <2>1, <2>3, <2>4, AbsentAssumption, ProviderRecords
    <2> QED BY <2>1, <2>3, <2>4, <2>5 DEF CallFacts, Working
  <1>5. ASSUME pc[w] = "mutate", mutated' = [mutated EXCEPT ![c] = @ + 1],
               UNCHANGED <<journal, issued, committed, provider, outcome>>
        PROVE  Records'
    <2>1. /\ c \in Issued /\ c \in Commands /\ journal[c].state # "prepared"
          /\ provider[c] # Absent /\ provider[c].state = "mutation_started" /\ mutated[c] = 0
      BY <1>1, <1>5 DEF Working, Safe, CallFacts, Work, WorkFacts
    <2>2. mutated'[c] <= 1 /\ \A d \in Commands : d # c => mutated'[d] = mutated[d]
      BY <1>0, <1>5, <2>1 DEF TypeOK
    <2> QED BY <1>5, <2>1, <2>2, ProviderRecords
  <1>6. CASE Mutate(w)
    <2>1. pc[w] = "mutate" /\ UNCHANGED <<journal, issued, committed, provider, outcome>>
      BY <1>6 DEF Mutate
    <2>2. Records'
      BY <1>5, <1>6, <2>1 DEF Mutate
    <2>3. provider[c].state = "mutation_started"
          /\ journal[c].state =
               IF job[w].reconciling THEN "reconciliation_required" ELSE "provider_started"
      BY <1>1, <2>1 DEF Working, Safe, CallFacts
    <2>4. \/ pc'[w] = "receipt" /\ job' = job
          \/ Raise(w)
      BY <1>0, <1>6, Leaves DEF Mutate
    <2> QED BY <1>0, <2>1, <2>2, <2>3, <2>4, Leaves DEF CallFacts, Working
  <1>7. CASE Recover(w)
    <2>1. /\ c \in Issued /\ c \in Commands /\ RecordFacts(c) /\ journal[c].state # "prepared"
          /\ journal[c].state =
               IF job[w].reconciling THEN "reconciliation_required" ELSE "provider_started"
      BY <1>1, <1>7 DEF Recover, Working
    <2>2. UNCHANGED <<journal, issued, committed, outcome, mutated>>
      BY <1>7 DEF Recover
    <2>3. \/ UNCHANGED provider
          \/ /\ provider[c] # Absent /\ outcome[c] # Absent /\ Return(w, outcome[c])
             /\ provider' = [provider EXCEPT ![c].state = "committed"]
      BY <1>7 DEF Recover, Known
    <2>4. CASE UNCHANGED provider
      <3>1. Records'
        BY <2>2, <2>4, SameRecords
      <3>2. \/ Raise(w)
            \/ outcome[c] # Absent /\ Return(w, outcome[c])
            \/ pc'[w] = "get" /\ job' = job
            \/ pc'[w] = "receipt" /\ job' = job /\ provider[c].state = "mutation_started"
        BY <1>0, <1>7, Leaves DEF Recover
      <3> QED BY <1>0, <2>1, <2>2, <2>4, <3>1, <3>2, Leaves DEF CallFacts, Working
    <2>5. CASE /\ provider[c] # Absent /\ outcome[c] # Absent /\ Return(w, outcome[c])
               /\ provider' = [provider EXCEPT ![c].state = "committed"]
      <3>1. provider[c] \in ProviderRow
        BY <1>0, <2>1, <2>5 DEF TypeOK
      <3>2. /\ provider'[c] \in ProviderRow /\ provider'[c].state = "committed"
            /\ \A d \in Commands : d # c => provider'[d] = provider[d]
        BY <1>0, <2>1, <2>5, <3>1 DEF TypeOK, ProviderRow
      <3>3. mutated[c] <= 1
        BY <2>1 DEF RecordFacts
      <3>4. Records'
        BY <2>1, <2>2, <3>2, <3>3, AbsentAssumption, ProviderRecords
      <3> QED BY <1>0, <2>1, <2>2, <2>5, <3>4, Leaves DEF CallFacts, Working
    <2> QED BY <2>3, <2>4, <2>5
  <1>8. CASE PutReceipt(w)
    <2>1. /\ c \in Issued /\ c \in Commands /\ RecordFacts(c) /\ journal[c].state # "prepared"
          /\ journal[c].state =
               IF job[w].reconciling THEN "reconciliation_required" ELSE "provider_started"
          /\ provider[c] # Absent /\ provider[c].state # "prepared"
      BY <1>1, <1>8 DEF PutReceipt, Working, Safe, CallFacts, Work, WorkFacts
    <2> DEFINE receipt == IF outcome[c] = Absent THEN store.anchor ELSE outcome[c]
    <2>2. receipt # Absent
      BY <1>0, AbsentAssumption DEF TypeOK
    <2>3. /\ outcome'[c] = receipt /\ \A d \in Commands : d # c => outcome'[d] = outcome[d]
          /\ UNCHANGED <<journal, issued, committed, provider, mutated>>
          /\ pc'[w] = "settle" /\ job'[w].cmd = c /\ job'[w].reconciling = job[w].reconciling
      BY <1>0, <1>8, <2>1, Leaves DEF PutReceipt, TypeOK, Job
    <2>4. mutated[c] <= 1
      BY <2>1 DEF RecordFacts
    <2>5. Records'
      BY <2>1, <2>2, <2>3, <2>4, ProviderRecords
    <2> QED BY <2>1, <2>2, <2>3, <2>5 DEF CallFacts, Working
  <1>9. CASE Settle(w)
    <2>1. /\ c \in Issued /\ c \in Commands /\ RecordFacts(c) /\ journal[c].state # "prepared"
          /\ journal[c].state =
               IF job[w].reconciling THEN "reconciliation_required" ELSE "provider_started"
          /\ provider[c] # Absent /\ outcome[c] # Absent
      BY <1>1, <1>9 DEF Settle, Working, Safe, CallFacts, Work, WorkFacts
    <2>2. provider[c] \in ProviderRow
      BY <1>0, <2>1 DEF TypeOK
    <2>3. /\ provider'[c] \in ProviderRow /\ provider'[c].state = "committed"
          /\ \A d \in Commands : d # c => provider'[d] = provider[d]
          /\ UNCHANGED <<journal, issued, committed, outcome, mutated>>
      BY <1>0, <1>9, <2>1, <2>2 DEF Settle, TypeOK, ProviderRow
    <2>4. mutated[c] <= 1
      BY <2>1 DEF RecordFacts
    <2>5. Records'
      BY <2>1, <2>3, <2>4, AbsentAssumption, ProviderRecords
    <2> QED BY <1>0, <1>9, <2>1, <2>3, <2>5, Leaves DEF Settle, CallFacts, Working
  <1>10. CASE Crash(w)
    <2>1. CallFacts(w)'
      BY <1>0, <1>10, Leaves DEF Crash, CallFacts, Working
    <2>2. UNCHANGED <<journal, issued, committed, provider, outcome>>
      BY <1>10 DEF Crash
    <2>3. \/ UNCHANGED mutated
          \/ pc[w] = "mutate" /\ mutated' = [mutated EXCEPT ![c] = @ + 1]
      BY <1>10 DEF Crash
    <2> QED BY <1>5, <2>1, <2>2, <2>3, SameRecords
  <1> QED BY <1>2, <1>3, <1>4, <1>6, <1>7, <1>8, <1>9, <1>10

\* Every step of the only coordinator keeps the invariant.
LEMMA SafeStep ==
    ASSUME NEW w \in Callers, Callers = {w}, Safe(w), [Next]_vars
    PROVE  Safe(w)'
  <1>1. Work'
    BY WorkStep DEF Safe
  <1>2. CASE UNCHANGED vars
    <2>1. Records'
      BY <1>2, SameRecords DEF vars
    <2> QED BY <1>1, <1>2, <2>1 DEF Safe, Records, CallFacts, Working, vars
  <1>3. CASE Put
    <2>1. Records'
      BY <1>3, SameRecords DEF Put, journalVars, providerVars
    <2> QED BY <1>1, <1>3, <2>1
            DEF Safe, Records, CallFacts, Working, Put, journalVars, providerVars, callVars
  <1>4. CASE Next /\ ~Put
    <2>1. Records' /\ CallFacts(w)'
      BY <1>4, CoordinatorSafe, ProviderSafe DEF Next, Step
    <2> QED BY <1>1, <2>1 DEF Safe, Records
  <1> QED BY <1>2, <1>3, <1>4

\* The invariant holds when nothing was issued.
LEMMA InitSafe ==
    ASSUME NEW w \in Callers, Init
    PROVE  Safe(w)
  <1>1. Work
    BY InitWork
  <1>2. Issued = {} /\ Committed = {}
    BY DEF Init, Issued, Committed
  <1>3. \A c \in Commands : RecordFacts(c)
    BY <1>2 DEF Init, RecordFacts
  <1>4. Marks /\ CallFacts(w)
    BY DEF Init, Marks, CallFacts, Working
  <1> QED BY <1>1, <1>3, <1>4 DEF Safe

\* However the coordinator and the process are interrupted, the next coordinator can
\* open the journal: every row authenticates and both fence marks are exact.
THEOREM OpensCorrect ==
    ASSUME NEW CONSTANT w \in Callers, Callers = {w}
    PROVE  Spec => []JournalOpens
  <1>1. Init => Safe(w)
    BY InitSafe
  <1>2. Safe(w) /\ [Next]_vars => Safe(w)'
    BY SafeStep
  <1>3. Safe(w) => JournalOpens
    BY SafeImplies
  <1> QED BY <1>1, <1>2, <1>3, PTL DEF Spec

\* No retry, reconciliation or restart makes the provider invoke the operation of a
\* command a second time.
THEOREM OnceCorrect ==
    ASSUME NEW CONSTANT w \in Callers, Callers = {w}
    PROVE  Spec => []MutatedOnce
  <1>1. Init => Safe(w)
    BY InitSafe
  <1>2. Safe(w) /\ [Next]_vars => Safe(w)'
    BY SafeStep
  <1>3. Safe(w) => MutatedOnce
    BY SafeImplies
  <1> QED BY <1>1, <1>2, <1>3, PTL DEF Spec

\* The journal, the provider's rows and the receipts never contradict each other,
\* though no transaction spans any two of them.
THEOREM AgreeCorrect ==
    ASSUME NEW CONSTANT w \in Callers, Callers = {w}
    PROVE  Spec => []RecordsAgree
  <1>1. Init => Safe(w)
    BY InitSafe
  <1>2. Safe(w) /\ [Next]_vars => Safe(w)'
    BY SafeStep
  <1>3. Safe(w) => RecordsAgree
    BY SafeImplies
  <1> QED BY <1>1, <1>2, <1>3, PTL DEF Spec

\* No step takes a record of a command back.
LEMMA ForwardSteps ==
    ASSUME NEW w \in Callers, Callers = {w}, Safe(w), [Next]_vars, NEW c \in Commands
    PROVE  RecordsForwardStep(c)
  <1> USE DEF journalVars, providerVars
  <1>0. TypeOK /\ Kept /\ (c \in Issued => journal[c] \in JournalRow)
    BY RowsKept, RowTypes DEF Safe, Work, Issued
  <1>1. ASSUME journal'[c] = journal[c], outcome'[c] = outcome[c]
        PROVE  RecordsForwardStep(c)
    BY <1>0, <1>1 DEF RecordsForwardStep, Issued, Rank, JournalRow, JournalStates
  <1>2. ASSUME c \in Issued, NEW st \in JournalStates, journal'[c] = WithState(journal[c], st),
               Rank(st) > Rank(journal[c].state), outcome'[c] = outcome[c]
        PROVE  RecordsForwardStep(c)
    <2>1. journal[c].state # "committed"
      BY <1>2 DEF Rank, JournalStates
    <2> QED BY <1>0, <1>2, <2>1
            DEF RecordsForwardStep, Issued, Committed, Kept, WithState, Rank, JournalRow, JournalStates
  <1>3. ASSUME NEW st \in JournalStates, NEW next, SetState(w, st, next), Working(w),
               Rank(st) > Rank(journal[job[w].cmd].state)
        PROVE  RecordsForwardStep(c)
    <2>1. job[w].cmd \in Issued /\ Readable(job[w].cmd)
      BY <1>3, CallerKnows
    <2>2. journal' = [journal EXCEPT ![job[w].cmd] = WithState(@, st)] /\ outcome' = outcome
      BY <1>3, <2>1 DEF SetState
    <2>3. CASE c = job[w].cmd
      BY <1>0, <1>2, <1>3, <2>1, <2>2, <2>3 DEF TypeOK
    <2>4. CASE c # job[w].cmd
      BY <1>0, <1>1, <2>2, <2>4 DEF TypeOK
    <2> QED BY <2>3, <2>4
  <1>4. CASE UNCHANGED vars \/ Put
    BY <1>1, <1>4 DEF vars, Put
  <1>5. CASE Open(w)
    <2>1. CASE c \in Issued /\ journal[c].state = "provider_started"
      BY <1>2, <1>5, <2>1 DEF Open, Rank, JournalStates
    <2>2. CASE ~(c \in Issued /\ journal[c].state = "provider_started")
      BY <1>1, <1>5, <2>2 DEF Open
    <2> QED BY <2>1, <2>2
  <1>6. CASE Demote(w)
    <2>1. journal[job[w].cmd].state = "provider_started" /\ Working(w)
      BY <1>6 DEF Demote, Safe, CallFacts, Working
    <2> QED BY <1>3, <1>6, <2>1 DEF Demote, Rank, JournalStates
  <1>7. CASE Start(w)
    <2>1. journal[job[w].cmd].state = "prepared" /\ Working(w)
      BY <1>7 DEF Start, Safe, CallFacts, Working
    <2> QED BY <1>3, <1>7, <2>1 DEF Start, Rank, JournalStates
  <1>8. CASE Fail(w)
    <2>1. journal[job[w].cmd].state = "provider_started" /\ Working(w)
      BY <1>8 DEF Fail, Safe, CallFacts, Working
    <2> QED BY <1>3, <1>8, <2>1 DEF Fail, Rank, JournalStates
  <1>9. CASE Commit(w)
    <2> DEFINE f == IF job[w].reconciling THEN job[w].receipt ELSE store.anchor
    <2>1. Working(w)
      BY <1>9 DEF Commit, Working
    <2>2. journal[job[w].cmd].state # "committed" /\ Readable(job[w].cmd)
      BY <2>1, CallerKnows
    <2>3. /\ journal' = [journal EXCEPT ![job[w].cmd] =
                [@ EXCEPT !.state = "committed", !.after = f, !.signed = f]]
          /\ outcome' = outcome
      BY <1>9, <2>2 DEF Commit
    <2>4. CASE c = job[w].cmd
      <3>1. journal'[c] = [journal[c] EXCEPT !.state = "committed", !.after = f, !.signed = f]
        BY <1>0, <2>3, <2>4 DEF TypeOK
      <3> QED BY <1>0, <2>2, <2>3, <2>4, <3>1
              DEF RecordsForwardStep, Issued, Committed, Kept, Rank, JournalRow, JournalStates
    <2>5. CASE c # job[w].cmd
      BY <1>0, <1>1, <2>3, <2>5 DEF TypeOK
    <2> QED BY <2>4, <2>5
  <1>10. CASE PutReceipt(w)
    <2>1. journal' = journal /\ (outcome[c] # Absent => outcome'[c] = outcome[c])
      BY <1>0, <1>10 DEF PutReceipt, TypeOK
    <2> QED BY <1>0, <2>1 DEF RecordsForwardStep, Issued, Rank, JournalRow, JournalStates
  <1>11. CASE GetOutcome(w) \/ Mutate(w) \/ Confirm(w) \/ Busy(w) \/ Crash(w)
              \/ PrepareCommand(w) \/ Mark(w) \/ Recover(w) \/ Settle(w)
    <2>1. journal' = journal /\ outcome' = outcome
      BY <1>11 DEF GetOutcome, Mutate, Confirm, Busy, Crash, PrepareCommand, Mark, Recover, Settle
    <2> QED BY <1>1, <2>1
  <1>12. ASSUME NEW d \in Commands, IssueCommand(w, d)
         PROVE  RecordsForwardStep(c)
    <2>1. CASE c = d
      BY <1>12, <2>1 DEF IssueCommand, RecordsForwardStep, Issued, Committed
    <2>2. CASE c # d
      BY <1>0, <1>1, <1>12, <2>2 DEF IssueCommand, TypeOK
    <2> QED BY <2>1, <2>2
  <1>13. ASSUME NEW d \in Commands, NEW s \in SlotsFor(d), Execute(w, d, s) \/ Reconcile(w, d, s)
         PROVE  RecordsForwardStep(c)
    BY <1>1, <1>13 DEF Execute, Reconcile
  <1> QED BY <1>4, <1>5, <1>6, <1>7, <1>8, <1>9, <1>10, <1>11, <1>12, <1>13 DEF Next, Step

\* A row of the journal keeps its identity and advances in the witness's order;
\* committed rows and receipts are final.
THEOREM ForwardCorrect ==
    ASSUME NEW CONSTANT w \in Callers, Callers = {w}
    PROVE  Spec => RecordsForward
  <1>1. Init => Safe(w)
    BY InitSafe
  <1>2. Safe(w) /\ [Next]_vars => Safe(w)'
    BY SafeStep
  <1>3. Safe(w) /\ [Next]_vars => [\A c \in Commands : RecordsForwardStep(c)]_vars
    BY ForwardSteps
  <1> QED BY <1>1, <1>2, <1>3, PTL DEF Spec, RecordsForward

-----------------------------------------------------------------------------
(* What a receipt is given for.                                            *)

\* Events that come after those of x take nothing of x away.
LEMMA ContentsGrow ==
    ASSUME NEW x \in Contents, NEW y \in Contents, NEW e \in Events
    PROVE  /\ IsPrefix(x, x)
           /\ IsPrefix(x, y) => IsPrefix(x, Append(y, e))
           /\ ~Legacy(x) => ~Legacy(Append(x, e))
           /\ e.kind = "key" => ~Legacy(Append(x, e))
  <1>1. x \in Seq(Events) /\ y \in Seq(Events)
    BY DEF Contents
  <1>2. IsPrefix(x, x)
    BY <1>1 DEF IsPrefix
  <1>3. ASSUME NEW z \in Seq(Events)
        PROVE  /\ Len(Append(z, e)) = Len(z) + 1 /\ Len(z) \in Nat
               /\ Append(z, e)[Len(z) + 1] = e
               /\ \A i \in 1..Len(z) : Append(z, e)[i] = z[i]
    BY AppendProperties
  <1>4. ASSUME IsPrefix(x, y) PROVE IsPrefix(x, Append(y, e))
    <2>1. Len(x) \in Nat /\ Len(y) \in Nat /\ Len(x) <= Len(y)
      BY <1>1, <1>4 DEF IsPrefix
    <2>2. SubSeq(y, 1, Len(x)) = SubSeq(Append(y, e), 1, Len(x))
      <3>1. SubSeq(y, 1, Len(x)) = [i \in 1..Len(x) |-> y[i]]
        BY <1>1, <2>1
      <3>2. SubSeq(Append(y, e), 1, Len(x)) = [i \in 1..Len(x) |-> Append(y, e)[i]]
        <4>1. Append(y, e) \in Seq(Events) /\ Len(x) <= Len(Append(y, e))
          BY <1>1, <1>3, <2>1
        <4> QED BY <2>1, <4>1
      <3>3. \A i \in 1..Len(x) : i \in 1..Len(y)
        BY <2>1
      <3> QED BY <1>1, <1>3, <3>1, <3>2, <3>3
    <2> QED BY <1>1, <1>3, <1>4, <2>1, <2>2 DEF IsPrefix
  <1>5. ~Legacy(x) => ~Legacy(Append(x, e))
    BY <1>1, <1>3 DEF Legacy
  <1>6. e.kind = "key" => ~Legacy(Append(x, e))
    BY <1>1, <1>3 DEF Legacy
  <1> QED BY <1>2, <1>4, <1>5, <1>6

\* The caller works on the slot of the provider's row, and once the operation has
\* returned, or recovery has inferred that it did, its purpose is achieved.
EarnedFacts(w) ==
    /\ pc[w] \in {"mark", "mutate", "receipt"} =>
         provider[job[w].cmd].slot = job[w].slot
    /\ pc[w] = "receipt" => Achieved(job[w].cmd)

Earning(w) == Safe(w) /\ EarnedFacts(w)

\* The operation achieves its purpose when it returns.
LEMMA OperationAchieves ==
    ASSUME TypeOK, NEW c \in Commands, NEW s \in SlotsFor(c), provider[c].slot = s,
           InnerOperation(c, s), provider' = provider
    PROVE  Achieved(c)'
  <1>1. /\ store \in [db : Contents, anchor : Contents] /\ clock \in Nat
        /\ backups \in [Slots -> [db : File, anchor : File]]
    BY DEF TypeOK
  <1>2. \A x \in Contents : ~Legacy(Reencrypted(x))
    <2> SUFFICES ASSUME NEW x \in Contents, Legacy(x) PROVE ~Legacy(Reencrypted(x))
      BY DEF Reencrypted
    <2>1. [kind |-> "key", n |-> clock + 1] \in Events
      BY <1>1 DEF Events
    <2>2. ~Legacy(Append(x, [kind |-> "key", n |-> clock + 1]))
      BY <2>1, ContentsGrow
    <2> QED BY <2>2 DEF Reencrypted
  <1>3. \A x \in Contents : IsPrefix(x, x)
    <2> SUFFICES ASSUME NEW x \in Contents PROVE IsPrefix(x, x)
      OBVIOUS
    <2>1. [kind |-> "row", n |-> 0] \in Events
      BY DEF Events
    <2> QED BY <2>1, ContentsGrow
  <1>4. CASE Operation[c] = "migration"
    <2>1. store'.db = Reencrypted(store.db)
      BY <1>4 DEF InnerOperation, Migrate
    <2>2. ~Legacy(store'.db)
      BY <1>1, <1>2, <2>1
    <2> QED BY <1>4, <2>2 DEF Achieved
  <1>5. CASE Operation[c] = "snapshot"
    <2>1. s \in Slots
      BY <1>1, <1>5, SlotTypes
    <2>2. backups'[s] = store /\ store' = store
      BY <1>1, <1>5, <2>1 DEF InnerOperation, SnapshotPair
    <2>3. store.db # Absent /\ store.anchor # Absent
      BY <1>1, AbsentAssumption
    <2>4. backups'[s].db # Absent /\ backups'[s].anchor # Absent
          /\ IsPrefix(backups'[s].db, store'.db) /\ IsPrefix(backups'[s].anchor, store'.anchor)
      BY <1>1, <1>3, <2>2, <2>3
    <2>5. provider'[c].slot = s
      BY <1>1
    <2> QED BY <1>5, <2>4, <2>5 DEF Achieved
  <1>6. CASE Operation[c] = "restore"
    <2>1. s \in Slots
      BY <1>1, <1>6, SlotTypes
    <2>2. backups' = backups /\ store' = backups[s] /\ backups[s].db # Absent /\ backups[s].anchor # Absent
      BY <1>6 DEF InnerOperation, RestorePair
    <2>3. backups[s].db \in Contents /\ backups[s].anchor \in Contents
      BY <1>1, <2>1, <2>2 DEF File
    <2>4. /\ backups'[s].db # Absent /\ backups'[s].anchor # Absent
          /\ IsPrefix(backups'[s].db, store'.db) /\ IsPrefix(backups'[s].anchor, store'.anchor)
      BY <1>3, <2>2, <2>3
    <2>5. provider'[c].slot = s
      BY <1>1
    <2> QED BY <1>6, <2>4, <2>5 DEF Achieved
  <1> QED BY <1>1, <1>4, <1>5, <1>6, SlotTypes DEF Operations

\* What recovery takes for a proof that the operation was carried out is one.
LEMMA ProofSuffices ==
    ASSUME TypeOK, NEW c \in Commands, provider[c].slot \in SlotsFor(c),
           Proven(c, provider[c].slot)
    PROVE  Achieved(c)
  <1>1. \A x \in Contents : IsPrefix(x, x)
    <2> SUFFICES ASSUME NEW x \in Contents PROVE IsPrefix(x, x)
      OBVIOUS
    <2>1. [kind |-> "row", n |-> 0] \in Events
      BY DEF Events
    <2> QED BY <2>1, ContentsGrow
  <1>2. store.db \in Contents /\ store.anchor \in Contents
    BY DEF TypeOK
  <1>3. CASE Operation[c] = "migration"
    <2>1. ~Legacy(store.db)
      BY <1>3 DEF Proven
    <2> QED BY <1>3, <2>1 DEF Achieved
  <1>4. CASE Operation[c] = "restore"
    <2>1. store.db = provider[c].backup.db /\ store.anchor = provider[c].backup.anchor
      BY <1>4 DEF Proven
    <2>2. store.db # Absent /\ store.anchor # Absent
      BY <1>2, AbsentAssumption
    <2> QED BY <1>1, <1>2, <1>4, <2>1, <2>2 DEF Achieved
  <1>5. CASE Operation[c] = "snapshot"
    <2>1. /\ backups[provider[c].slot].db = provider[c].db
          /\ backups[provider[c].slot].anchor = provider[c].anchor
      BY <1>5 DEF Proven
    <2> DEFINE pair == backups[provider[c].slot]
    <2>2. pair = [db |-> provider[c].db, anchor |-> provider[c].anchor]
      <3>1. provider[c].slot \in Slots
        BY <1>5, SlotTypes
      <3>2. pair \in [db : File, anchor : File]
        BY <3>1 DEF TypeOK
      <3> QED BY <2>1, <3>2
    <2> QED BY <1>5, <2>2 DEF Achieved
  <1> QED BY <1>3, <1>4, <1>5, SlotTypes DEF Operations

\* Rows that another thread saves undo nothing.
LEMMA SavesKeep ==
    ASSUME TypeOK, NEW c \in Commands, provider[c] # Absent, provider[c].slot \in SlotsFor(c),
           Achieved(c), Put
    PROVE  Achieved(c)'
  <1> DEFINE e == [kind |-> "row", n |-> clock + 1]
  <1>1. /\ store \in [db : Contents, anchor : Contents] /\ e \in Events
        /\ backups \in [Slots -> [db : File, anchor : File]]
        /\ provider \in [Commands -> ProviderRow \cup {Absent}]
    BY DEF TypeOK, Events
  <1>2. store'.db = Append(store.db, e) /\ store'.anchor = Append(store.anchor, e)
        /\ store.db = store.anchor
    <2>1. PICK anchor \in {store.anchor, Append(store.db, e)} :
              store' = [db |-> Append(store.db, e), anchor |-> anchor]
      BY Zenon DEF Put, Insert
    <2>2. store'.db = Append(store.db, e)
      BY <2>1
    <2> QED BY <2>2 DEF Put, Insert
  <1>3. UNCHANGED <<provider, backups>>
    BY DEF Put, Insert, providerVars
  <1>4. \A x \in Contents : /\ IsPrefix(x, store.db) => IsPrefix(x, store'.db)
                            /\ IsPrefix(x, store.anchor) => IsPrefix(x, store'.anchor)
    BY <1>1, <1>2, ContentsGrow
  <1>5. CASE Operation[c] = "migration"
    <2>1. ~Legacy(store.db)
      BY <1>5 DEF Achieved
    <2>2. ~Legacy(store'.db)
      BY <1>1, <1>2, <2>1, ContentsGrow
    <2> QED BY <1>5, <2>2 DEF Achieved
  <1>6. CASE Operation[c] = "snapshot"
    <2> DEFINE pair == backups[provider[c].slot]
    <2>1. \/ pair = [db |-> provider[c].db, anchor |-> provider[c].anchor]
          \/ /\ pair.db # Absent /\ pair.anchor # Absent
             /\ IsPrefix(pair.db, store.db) /\ IsPrefix(pair.anchor, store.anchor)
      BY <1>6 DEF Achieved
    <2>2. pair \in [db : File, anchor : File]
      BY <1>1, <1>6, SlotTypes
    <2>3. \/ pair = [db |-> provider[c].db, anchor |-> provider[c].anchor]
          \/ /\ pair.db # Absent /\ pair.anchor # Absent
             /\ IsPrefix(pair.db, store'.db) /\ IsPrefix(pair.anchor, store'.anchor)
      BY <1>4, <2>1, <2>2 DEF File
    <2> QED BY <1>3, <1>6, <2>3 DEF Achieved
  <1>7. CASE Operation[c] = "restore"
    <2> DEFINE Copied(pair) == /\ pair.db # Absent /\ pair.anchor # Absent
                               /\ IsPrefix(pair.db, store.db) /\ IsPrefix(pair.anchor, store.anchor)
               CopiedThen(pair) == /\ pair.db # Absent /\ pair.anchor # Absent
                               /\ IsPrefix(pair.db, store'.db) /\ IsPrefix(pair.anchor, store'.anchor)
    <2>1. Copied(provider[c].backup) \/ Copied(backups[provider[c].slot])
      BY <1>7 DEF Achieved
    <2>2. provider[c].backup \in [db : File, anchor : File]
      BY <1>1 DEF ProviderRow
    <2>3. backups[provider[c].slot] \in [db : File, anchor : File]
      BY <1>1, <1>7, SlotTypes
    <2>4. CopiedThen(provider[c].backup) \/ CopiedThen(backups[provider[c].slot])
      BY <1>4, <2>1, <2>2, <2>3 DEF File
    <2> QED BY <1>3, <1>7, <2>4 DEF Achieved
  <1> QED BY <1>5, <1>6, <1>7, SlotTypes DEF Operations

\* A receipt is written where the operation has just left what it is for, and saves
\* of the agent afterwards only add to that.
LEMMA EarnedStep ==
    ASSUME NEW w \in Callers, Callers = {w}, Earning(w), [Next]_vars
    PROVE  Earning(w)'
  <1> USE DEF journalVars, storeVars, providerVars, callVars
  <1> DEFINE c == job[w].cmd
             s == job[w].slot
  <1>1. Safe(w)'
    BY SafeStep DEF Earning
  <1>2. TypeOK /\ Safe(w) /\ EarnedFacts(w)
    BY DEF Earning, Safe, Work
  <1>3. pc[w] \in {"mark", "mutate", "receipt"} =>
          c \in Commands /\ s \in SlotsFor(c) /\ provider[c] # Absent /\ provider[c].slot = s
    BY <1>2 DEF EarnedFacts, Safe, Work, WorkFacts, Working, Issued
  <1>4. CASE UNCHANGED vars
    BY <1>1, <1>2, <1>4 DEF Earning, EarnedFacts, Achieved, vars
  <1>5. CASE Put
    <2>1. pc' = pc /\ job' = job /\ provider' = provider
      BY <1>5 DEF Put
    <2>2. ASSUME NEW d \in Commands, d = c, pc[w] = "receipt"
          PROVE  Achieved(d)'
      <3>1. Achieved(d) /\ provider[d] # Absent /\ provider[d].slot \in SlotsFor(d)
        BY <1>2, <1>3, <2>2 DEF EarnedFacts
      <3> QED BY <1>2, <1>5, <3>1, SavesKeep
    <2>3. pc[w] = "receipt" => Achieved(c)'
      BY <1>3, <2>1, <2>2
    <2>4. EarnedFacts(w)'
      BY <1>2, <2>1, <2>3 DEF EarnedFacts
    <2> QED BY <1>1, <2>4 DEF Earning
  <1>6. ASSUME pc'[w] \notin {"mark", "mutate", "receipt"}
        PROVE  Earning(w)'
    BY <1>1, <1>6 DEF Earning, EarnedFacts
  <1>7. CASE PrepareCommand(w)
    <2>1. CASE pc'[w] = "mark"
      <3>1. c \in Commands
        BY <1>2, <1>7 DEF PrepareCommand, Safe, Work, WorkFacts, Working, Issued
      <3>2. PreparedRow(c, s).slot = s /\ provider' = [provider EXCEPT ![c] = PreparedRow(c, s)]
            /\ job' = job
        BY <1>2, <1>7, <2>1, Leaves DEF PrepareCommand
      <3>3. provider'[c].slot = s
        BY <1>2, <3>1, <3>2 DEF TypeOK
      <3>4. EarnedFacts(w)'
        BY <2>1, <3>2, <3>3 DEF EarnedFacts
      <3> QED BY <1>1, <3>4 DEF Earning
    <2>2. pc'[w] \in {"mark", "recover", "idle", "fail"}
      BY <1>2, <1>7, Leaves DEF PrepareCommand
    <2> QED BY <1>6, <2>1, <2>2
  <1>8. CASE Mark(w)
    <2>1. pc'[w] = "mutate" /\ job' = job
      BY <1>2, <1>8, Leaves DEF Mark
    <2>2. provider'[c].slot = s
      <3>1. provider[c] \in ProviderRow
        BY <1>2, <1>3, <1>8 DEF Mark, TypeOK
      <3> QED BY <1>2, <1>3, <1>8, <3>1 DEF Mark, TypeOK, ProviderRow
    <2>3. EarnedFacts(w)'
      BY <2>1, <2>2 DEF EarnedFacts
    <2> QED BY <1>1, <2>3 DEF Earning
  <1>9. CASE Mutate(w)
    <2>1. CASE InnerOperation(c, s) /\ pc'[w] = "receipt" /\ job' = job
      <3>1. provider' = provider
        BY <1>9 DEF Mutate
      <3>2. Achieved(c)'
        BY <1>2, <1>3, <1>9, <2>1, <3>1, OperationAchieves DEF Mutate
      <3>3. EarnedFacts(w)'
        BY <1>3, <1>9, <2>1, <3>1, <3>2 DEF EarnedFacts, Mutate
      <3> QED BY <1>1, <3>3 DEF Earning
    <2>2. CASE Raise(w)
      BY <1>2, <1>6, <2>2, Leaves
    <2>3. \/ InnerOperation(c, s) /\ pc'[w] = "receipt" /\ job' = job
          \/ Raise(w)
      BY <1>2, <1>9, Leaves DEF Mutate
    <2> QED BY <2>1, <2>2, <2>3
  <1>10. CASE Recover(w)
    <2>1. CASE pc'[w] = "receipt"
      <3>1. Known(c, s) /\ Proven(c, s) /\ UNCHANGED <<job, provider, storeVars>>
        BY <1>2, <1>10, <2>1, Leaves DEF Recover
      <3>2. c \in Commands /\ s \in SlotsFor(c)
        BY <1>2, <1>10 DEF Recover, Safe, Work, WorkFacts, Working, Issued
      <3>3. Achieved(c)
        BY <1>2, <3>1, <3>2, ProofSuffices DEF Known
      <3>4. Achieved(c)'
        BY <3>1, <3>3 DEF Achieved
      <3>5. EarnedFacts(w)'
        BY <3>1, <3>4 DEF EarnedFacts, Known
      <3> QED BY <1>1, <3>5 DEF Earning
    <2>2. pc'[w] \notin {"mark", "mutate"}
      BY <1>2, <1>10, Leaves DEF Recover
    <2> QED BY <1>6, <2>1, <2>2
  <1>11. CASE Open(w) \/ Demote(w) \/ Start(w) \/ Fail(w) \/ Commit(w) \/ GetOutcome(w)
              \/ PutReceipt(w) \/ Settle(w) \/ Confirm(w) \/ Busy(w) \/ Crash(w)
              \/ \E d \in Commands : \E t \in SlotsFor(d) : Execute(w, d, t) \/ Reconcile(w, d, t)
    <2> DEFINE Elsewhere == pc'[w] \notin {"mark", "mutate", "receipt"}
    <2>1. ASSUME Demote(w) \/ Start(w) \/ Fail(w) PROVE Elsewhere
      BY <1>2, <2>1, Leaves DEF Demote, Start, Fail, SetState
    <2>2. ASSUME GetOutcome(w) \/ PutReceipt(w) \/ Settle(w) \/ Confirm(w) PROVE Elsewhere
      BY <1>2, <2>2, Leaves DEF GetOutcome, PutReceipt, Settle, Confirm
    <2>3. ASSUME Open(w) \/ Commit(w) \/ Busy(w) \/ Crash(w) PROVE Elsewhere
      BY <1>2, <2>3, Leaves DEF Open, Commit, Busy, Crash
    <2>4. ASSUME NEW d \in Commands, NEW t \in SlotsFor(d), Execute(w, d, t) \/ Reconcile(w, d, t)
          PROVE  Elsewhere
      BY <1>2, <2>4 DEF Execute, Reconcile, Begin, Goto, TypeOK
    <2> QED BY <1>6, <1>11, <2>1, <2>2, <2>3, <2>4
  <1>12. ASSUME NEW d \in Commands, IssueCommand(w, d)
         PROVE  Earning(w)'
    <2>1. pc'[w] = "idle"
      BY <1>12 DEF IssueCommand
    <2> QED BY <1>6, <2>1
  <1> QED BY <1>4, <1>5, <1>7, <1>8, <1>9, <1>10, <1>11, <1>12 DEF Next, Step

\* No receipt of the provider is given for an operation that was not carried out,
\* neither when it returned nor when recovery inferred from the store that it had,
\* whatever crashes and saves came in between.
THEOREM EarnedCorrect ==
    ASSUME NEW CONSTANT w \in Callers, Callers = {w}
    PROVE  Spec => ReceiptEarned
  <1> DEFINE Earned == \A c \in Commands : outcome[c] = Absent /\ outcome'[c] # Absent => Achieved(c)
  <1>1. Init => Earning(w)
    BY InitSafe DEF Init, Earning, EarnedFacts
  <1>2. Earning(w) /\ [Next]_vars => Earning(w)'
    BY EarnedStep
  <1>3. Earning(w) /\ [Next]_vars => [Earned]_vars
    <2> SUFFICES ASSUME Earning(w), [Next]_vars, NEW c \in Commands,
                        outcome[c] = Absent, outcome'[c] # Absent
                 PROVE  Achieved(c)
      OBVIOUS
    <2>1. PutReceipt(w)
      <3>1. outcome' # outcome
        OBVIOUS
      <3>2. ~UNCHANGED vars /\ ~Put
        BY <3>1 DEF vars, Put, providerVars
      <3>3. ~(Open(w) \/ Busy(w) \/ Crash(w) \/ Commit(w) \/ Confirm(w))
        BY <3>1 DEF Open, Busy, Crash, Commit, Confirm, providerVars
      <3>4. ~(Demote(w) \/ Start(w) \/ Fail(w))
        BY <3>1 DEF Demote, Start, Fail, SetState, providerVars
      <3>5. ~(GetOutcome(w) \/ PrepareCommand(w) \/ Mark(w) \/ Mutate(w) \/ Recover(w) \/ Settle(w))
        BY <3>1 DEF GetOutcome, PrepareCommand, Mark, Mutate, Recover, Settle, providerVars
      <3>6. ASSUME NEW d \in Commands, NEW s \in SlotsFor(d)
            PROVE  ~(Execute(w, d, s) \/ Reconcile(w, d, s))
        BY <3>1 DEF Execute, Reconcile, providerVars
      <3>7. ASSUME NEW d \in Commands PROVE ~IssueCommand(w, d)
        BY <3>1 DEF IssueCommand, providerVars
      <3> QED BY <3>2, <3>3, <3>4, <3>5, <3>6, <3>7 DEF Next, Step
    <2>2. c = job[w].cmd /\ pc[w] = "receipt"
      BY <2>1 DEF PutReceipt, Earning, Safe, Work, TypeOK
    <2> QED BY <2>2 DEF Earning, EarnedFacts
  <1> QED BY <1>1, <1>2, <1>3, PTL DEF Spec, ReceiptEarned
=============================================================================
