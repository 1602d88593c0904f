--------------------------- MODULE LifecycleCommands ---------------------------
(***************************************************************************)
(* Checkpoint lifecycle commands that survive crashes (P4-M, P4-O, P4-P):  *)
(* the coordinator of aegis/agent/checkpoint_lifecycle_provider_state_     *)
(* machine.py over the durable journal of checkpoint_lifecycle_journal.py, *)
(* the provider's command table and outcome receipts, and the lifecycle    *)
(* operations of checkpoint_external_lifecycle.py.                         *)
(*                                                                         *)
(* One command leaves traces in four places that no transaction spans: the *)
(* caller's journal, the provider's command row, the store it mutates      *)
(* (database and anchor) and the provider's receipt.  Every durable write  *)
(* is a step of its own and the process can die before each of them.       *)
(*                                                                         *)
(* A store's contents are the events that made it: a row written, or a     *)
(* re-encryption under the active key.  Ciphertext is randomized, so an    *)
(* event never recurs, and a fingerprint is modelled by the contents.      *)
(***************************************************************************)
EXTENDS Integers, SequencesExt

CONSTANTS
    Commands,       \* command ids
    Operation,      \* the operation of each
    Slots, NoSlot,  \* backup file pairs a snapshot writes and a restore reads
    Callers,        \* threads or processes with a coordinator on the journal
    NoCommand,
    Absent,         \* a missing row or file, or a NULL column
    MaxEvents       \* bound: events that change the store

Operations == {"migration", "snapshot", "restore"}

ASSUME CommandAssumption ==
    /\ Operation \in [Commands -> Operations]
    /\ MaxEvents \in Nat
    /\ NoCommand \notin Commands

VARIABLES
    store,      \* live checkpoint database, and the anchor's heads
    clock,      \* number of the last event
    backups,    \* file pairs, by slot
    journal,    \* lifecycle_commands
    issued,     \* journal_meta.highest_issued_fence
    committed,  \* journal_meta.highest_committed_fence
    provider,   \* provider_commands
    outcome,    \* provider_outcome_receipts: anchor_fingerprint_after
    pc, job,    \* each caller's next step, and what it holds
    mutated     \* history: times the inner operation was invoked

journalVars  == <<journal, issued, committed>>
storeVars    == <<store, clock, backups>>
providerVars == <<provider, outcome>>
callVars     == <<pc, job>>
vars == <<store, clock, backups, journal, issued, committed, provider, outcome,
          pc, job, mutated>>

Events == [kind : {"row", "key"}, n : Nat]

Contents == Seq(Events)

File == Contents \cup {Absent}

JournalStates == {"prepared", "provider_started", "reconciliation_required", "committed"}

\* signed: the anchor_fingerprint_after the row's integrity tag was made for.
JournalRow == [fence : Nat, expected : Contents, state : JournalStates,
               after : File, signed : File]

\* pre: the observation stored with the row; slot stands for argument_digest.
ProviderRow == [slot : Slots \cup {NoSlot}, state : {"prepared", "mutation_started", "committed"},
                db : Contents, anchor : Contents, backup : [db : File, anchor : File]]

\* A missing row or file is none of the values that may be there.
ASSUME AbsentAssumption ==
    Absent \notin Contents /\ Absent \notin JournalRow /\ Absent \notin ProviderRow

Job == [cmd : Commands \cup {NoCommand}, slot : Slots \cup {NoSlot},
        reconciling : BOOLEAN, receipt : File]

NoJob == [cmd |-> NoCommand, slot |-> NoSlot, reconciling |-> FALSE, receipt |-> Absent]

Labels == {"closed", "idle", "demote", "start", "get", "prepare", "mark", "mutate",
           "recover", "receipt", "settle", "confirm", "commit", "fail"}

TypeOK ==
    /\ store \in [db : Contents, anchor : Contents]
    /\ clock \in 0..MaxEvents
    /\ backups \in [Slots -> [db : File, anchor : File]]
    /\ journal \in [Commands -> JournalRow \cup {Absent}]
    /\ issued \in Nat
    /\ committed \in Nat
    /\ provider \in [Commands -> ProviderRow \cup {Absent}]
    /\ outcome \in [Commands -> File]
    /\ pc \in [Callers -> Labels]
    /\ job \in [Callers -> Job]
    /\ mutated \in [Commands -> Nat]

NoBackup == [db |-> Absent, anchor |-> Absent]

\* A database with one row under the legacy key, and the anchor of it.
InitialContents == <<[kind |-> "row", n |-> 0]>>

Init ==
    /\ store = [db |-> InitialContents, anchor |-> InitialContents]
    /\ clock = 0
    /\ backups = [s \in Slots |-> NoBackup]
    /\ journal = [c \in Commands |-> Absent]
    /\ issued = 0
    /\ committed = 0
    /\ provider = [c \in Commands |-> Absent]
    /\ outcome = [c \in Commands |-> Absent]
    /\ pc = [w \in Callers |-> "closed"]
    /\ job = [w \in Callers |-> NoJob]
    /\ mutated = [c \in Commands |-> 0]

Goto(w, l) == pc' = [pc EXCEPT ![w] = l]

\* Return or raise to the caller.
Finish(w) ==
    /\ Goto(w, "idle")
    /\ job' = [job EXCEPT ![w] = NoJob]

-----------------------------------------------------------------------------
(* The journal.                                                            *)

Issued == {c \in Commands : journal[c] # Absent}

Committed == {c \in Issued : journal[c].state = "committed"}

\* _row_to_record accepts the row.
Readable(c) == journal[c].signed = journal[c].after

\* max(fences) = mark, with the default 0 of an empty set.
Highest(mark, S) ==
    /\ \A c \in S : journal[c].fence <= mark
    /\ mark = 0 \/ \E c \in S : journal[c].fence = mark

\* _verify_store
StoreVerified ==
    /\ \A c \in Issued : Readable(c)
    /\ Highest(issued, Issued)
    /\ Highest(committed, Committed)

\* The UPDATE of _set_state: it leaves anchor_fingerprint_after alone, but signs
\* the row the caller loaded, whose anchor_fingerprint_after was NULL.
WithState(row, state) == [row EXCEPT !.state = state, !.signed = Absent]

\* Mutant of Open: interrupted commands are made ready for another attempt.
OpenRetries(w) ==
    /\ pc[w] = "closed"
    /\ StoreVerified
    /\ journal' = [c \in Commands |->
          IF c \in Issued /\ journal[c].state = "provider_started"
          THEN WithState(journal[c], "prepared")
          ELSE journal[c]]
    /\ Finish(w)
    /\ UNCHANGED <<storeVars, issued, committed, providerVars, mutated>>

\* The coordinator's constructor.
Open(w) ==
    /\ pc[w] = "closed"
    /\ StoreVerified
    /\ journal' = [c \in Commands |->
          IF c \in Issued /\ journal[c].state = "provider_started"
          THEN WithState(journal[c], "reconciliation_required")
          ELSE journal[c]]
    /\ Finish(w)
    /\ UNCHANGED <<storeVars, issued, committed, providerVars, mutated>>

IssueCommand(w, c) ==
    /\ pc[w] = "idle"
    /\ journal[c] = Absent
    /\ journal' = [journal EXCEPT ![c] =
          [fence |-> issued + 1, expected |-> store.anchor, state |-> "prepared",
           after |-> Absent, signed |-> Absent]]
    /\ issued' = issued + 1
    /\ UNCHANGED <<storeVars, committed, providerVars, callVars, mutated>>

SlotsFor(c) == IF Operation[c] = "migration" THEN {NoSlot} ELSE Slots

Begin(w, c, s, reconciling, l) ==
    /\ job' = [job EXCEPT ![w] = [cmd |-> c, slot |-> s, reconciling |-> reconciling,
                                  receipt |-> Absent]]
    /\ Goto(w, l)

\* The checks of execute on a prepared command.
MayStart(c) ==
    /\ journal[c].state = "prepared"
    /\ journal[c].fence > committed
    /\ journal[c].expected = store.anchor

\* execute, up to its first write.  A committed command is answered from the
\* journal and any other is refused; neither changes anything.
Execute(w, c, s) ==
    /\ pc[w] = "idle"
    /\ c \in Issued /\ Readable(c)
    /\ \/ journal[c].state = "provider_started" /\ Begin(w, c, s, FALSE, "demote")
       \/ MayStart(c) /\ Begin(w, c, s, FALSE, "start")
    /\ UNCHANGED <<storeVars, journalVars, providerVars, mutated>>

\* reconcile, up to its first write.
Reconcile(w, c, s) ==
    /\ pc[w] = "idle"
    /\ c \in Issued /\ Readable(c)
    /\ \/ journal[c].state = "provider_started" /\ Begin(w, c, s, TRUE, "demote")
       \/ journal[c].state = "reconciliation_required" /\ Begin(w, c, s, TRUE, "recover")
    /\ UNCHANGED <<storeVars, journalVars, providerVars, mutated>>

\* _set_state, which refuses an unreadable row.
SetState(w, state, next) ==
    LET c == job[w].cmd IN
    /\ \/ /\ Readable(c)
          /\ journal' = [journal EXCEPT ![c] = WithState(@, state)]
          /\ next
       \/ ~Readable(c) /\ Finish(w) /\ UNCHANGED journal
    /\ UNCHANGED <<storeVars, issued, committed, providerVars, mutated>>

Demote(w) ==
    /\ pc[w] = "demote"
    /\ SetState(w, "reconciliation_required",
          IF job[w].reconciling THEN Goto(w, "recover") /\ UNCHANGED job ELSE Finish(w))

\* Mutant of Start: the provider is called before the intent is durable.
StartUnrecorded(w) ==
    /\ pc[w] = "start"
    /\ Goto(w, "get")
    /\ UNCHANGED <<storeVars, journalVars, providerVars, job, mutated>>

Start(w) ==
    /\ pc[w] = "start"
    /\ SetState(w, "provider_started", Goto(w, "get") /\ UNCHANGED job)

\* Mutant of Fail: the provider's name for the state is stored.
FailAsProvider(w) ==
    /\ pc[w] = "fail"
    /\ SetState(w, "mutation_started", Finish(w))

\* The provider raised in execute.
Fail(w) ==
    /\ pc[w] = "fail"
    /\ SetState(w, "reconciliation_required", Finish(w))

\* Mutant of Commit: the committed fence follows the last commit, not the highest.
CommitLatest(w) ==
    LET c == job[w].cmd
        after == IF job[w].reconciling THEN job[w].receipt ELSE store.anchor IN
    /\ pc[w] = "commit"
    /\ IF Readable(c)
       THEN /\ journal' = [journal EXCEPT ![c] =
                  [@ EXCEPT !.state = "committed", !.after = after, !.signed = after]]
            /\ committed' = journal[c].fence
       ELSE UNCHANGED <<journal, committed>>
    /\ Finish(w)
    /\ UNCHANGED <<storeVars, issued, providerVars, mutated>>

\* _commit_receipt.  execute stores the anchor of this moment, reconcile the
\* receipt's.
Commit(w) ==
    LET c == job[w].cmd
        after == IF job[w].reconciling THEN job[w].receipt ELSE store.anchor IN
    /\ pc[w] = "commit"
    /\ IF Readable(c)
       THEN /\ journal' = [journal EXCEPT ![c] =
                  [@ EXCEPT !.state = "committed", !.after = after, !.signed = after]]
            /\ committed' = IF journal[c].fence > committed THEN journal[c].fence ELSE committed
       ELSE UNCHANGED <<journal, committed>>
    /\ Finish(w)
    /\ UNCHANGED <<storeVars, issued, providerVars, mutated>>

-----------------------------------------------------------------------------
(* The provider.                                                           *)

\* A call into the provider raises: execute still records the ambiguity.
Raise(w) ==
    IF job[w].reconciling THEN Finish(w) ELSE Goto(w, "fail") /\ UNCHANGED job

\* It returns a receipt: reconcile still compares it with the anchor.
Return(w, receipt) ==
    IF job[w].reconciling
    THEN job' = [job EXCEPT ![w].receipt = receipt] /\ Goto(w, "confirm")
    ELSE Goto(w, "commit") /\ UNCHANGED job

\* command_store.require finds the row, made with the same arguments.
Known(c, s) == provider[c] # Absent /\ provider[c].slot = s

\* execute_lifecycle_command looks for the outcome first.
GetOutcome(w) ==
    LET c == job[w].cmd IN
    /\ pc[w] = "get"
    /\ CASE outcome[c] = Absent -> Goto(w, "prepare") /\ UNCHANGED job
         [] outcome[c] # Absent /\ Known(c, job[w].slot) -> Return(w, outcome[c])
         [] OTHER -> Raise(w)
    /\ UNCHANGED <<storeVars, journalVars, providerVars, mutated>>

Backup(c, s) == IF Operation[c] = "restore" THEN backups[s] ELSE NoBackup

\* _pre_observation reads the backup files of a restore.
Observable(c, s) ==
    Operation[c] = "restore" => backups[s].db # Absent /\ backups[s].anchor # Absent

\* The row prepare returns: the one found, or a new one with this observation.
PreparedRow(c, s) ==
    IF provider[c] # Absent THEN provider[c]
    ELSE [slot |-> s, state |-> "prepared", db |-> store.db, anchor |-> store.anchor,
          backup |-> Backup(c, s)]

\* prepare, and what execute_lifecycle_command makes of the row.
PrepareCommand(w) ==
    LET c   == job[w].cmd
        s   == job[w].slot
        row == PreparedRow(c, s) IN
    /\ pc[w] = "prepare"
    /\ IF Observable(c, s) /\ row.slot = s
       THEN /\ provider' = [provider EXCEPT ![c] = row]
            /\ CASE row.state = "mutation_started" -> Goto(w, "recover") /\ UNCHANGED job
                 [] row.state = "prepared" /\ journal[c].expected = store.anchor ->
                      Goto(w, "mark") /\ UNCHANGED job
                 [] OTHER -> Raise(w)
       ELSE Raise(w) /\ UNCHANGED provider
    /\ UNCHANGED <<storeVars, journalVars, outcome, mutated>>

Mark(w) ==
    /\ pc[w] = "mark"
    /\ provider' = [provider EXCEPT ![job[w].cmd].state = "mutation_started"]
    /\ Goto(w, "mutate")
    /\ UNCHANGED <<storeVars, journalVars, outcome, job, mutated>>

Legacy(contents) == ~\E i \in 1..Len(contents) : contents[i].kind = "key"

Rows(contents) == Cardinality({i \in 1..Len(contents) : contents[i].kind = "row"})

\* Re-encryption skips rows already under the active key.
Reencrypted(contents) ==
    IF Legacy(contents) THEN Append(contents, [kind |-> "key", n |-> clock + 1]) ELSE contents

\* migrate_to_active_encryption_key: it first verifies the rows by the anchor.
Migrate ==
    /\ store.db = store.anchor
    /\ clock < MaxEvents
    /\ LET new == Reencrypted(store.db) IN store' = [db |-> new, anchor |-> new]
    /\ clock' = clock + 1
    /\ UNCHANGED backups

\* snapshot_pair
SnapshotPair(s) ==
    /\ backups' = [backups EXCEPT ![s] = store]
    /\ UNCHANGED <<store, clock>>

\* restore_pair
RestorePair(s) ==
    /\ backups[s].db # Absent /\ backups[s].anchor # Absent
    /\ store' = backups[s]
    /\ UNCHANGED <<clock, backups>>

InnerOperation(c, s) ==
    CASE Operation[c] = "migration" -> Migrate
      [] Operation[c] = "snapshot" -> SnapshotPair(s)
      [] Operation[c] = "restore" -> RestorePair(s)

\* How far a killed operation can have come.  The anchor is replaced before the
\* database commits; a snapshot unlinks and copies the database, then unlinks and
\* rewrites the anchor file.
Torn(c, s) ==
    CASE Operation[c] = "migration" ->
           /\ store.db = store.anchor /\ clock < MaxEvents
           /\ store' = [store EXCEPT !.anchor = Reencrypted(store.db)]
           /\ clock' = clock + 1
           /\ UNCHANGED backups
      [] Operation[c] = "snapshot" ->
           /\ \E pair \in {[backups[s] EXCEPT !.db = Absent], [backups[s] EXCEPT !.db = store.db],
                           [db |-> store.db, anchor |-> Absent], [db |-> store.db, anchor |-> <<>>]} :
                backups' = [backups EXCEPT ![s] = pair]
           /\ UNCHANGED <<store, clock>>
      [] Operation[c] = "restore" ->
           /\ backups[s].db # Absent /\ backups[s].anchor # Absent
           /\ store' = [store EXCEPT !.anchor = backups[s].anchor]
           /\ UNCHANGED <<clock, backups>>

\* _invoke_inner, under the saver's lock: done, or raised.  A migration and a restore
\* are then rolled back; the files of a snapshot stay as they are.
Mutate(w) ==
    LET c == job[w].cmd IN
    /\ pc[w] = "mutate"
    /\ mutated' = [mutated EXCEPT ![c] = @ + 1]
    /\ \/ InnerOperation(c, job[w].slot) /\ Goto(w, "receipt") /\ UNCHANGED job
       \/ Raise(w) /\ UNCHANGED storeVars
       \/ Operation[c] = "snapshot" /\ Torn(c, job[w].slot) /\ Raise(w)
    /\ UNCHANGED <<journalVars, providerVars>>

\* Mutant of Proven: a migration is inferred from the anchor alone.
ProvenByAnchor(c, s) ==
    LET before == provider[c] IN
    CASE Operation[c] = "migration" -> before.anchor # store.anchor
      [] Operation[c] = "snapshot" ->
           backups[s].db = before.db /\ backups[s].anchor = before.anchor
      [] Operation[c] = "restore" ->
           store.db = before.backup.db /\ store.anchor = before.backup.anchor

\* _migration_commit_proven, _snapshot_commit_proven, _restore_commit_proven
Proven(c, s) ==
    LET before == provider[c] IN
    CASE Operation[c] = "migration" ->
           /\ Rows(before.db) = Rows(store.db)
           /\ Legacy(before.db) /\ ~Legacy(store.db)
           /\ before.anchor # store.anchor
      [] Operation[c] = "snapshot" ->
           backups[s].db = before.db /\ backups[s].anchor = before.anchor
      [] Operation[c] = "restore" ->
           store.db = before.backup.db /\ store.anchor = before.backup.anchor

\* Mutant of Recover: a command without a receipt is carried out again.
RecoverBlind(w) ==
    LET c == job[w].cmd
        s == job[w].slot IN
    /\ pc[w] = "recover"
    /\ CASE ~Known(c, s) -> Raise(w) /\ UNCHANGED provider
         [] Known(c, s) /\ outcome[c] # Absent ->
              /\ provider' = [provider EXCEPT ![c].state = "committed"]
              /\ Return(w, outcome[c])
         [] OTHER -> Goto(w, "mark") /\ UNCHANGED <<job, provider>>
    /\ UNCHANGED <<storeVars, journalVars, outcome, mutated>>

\* Mutant of Recover: it expects the row of a receipt to be committed already.
RecoverSettledOnly(w) ==
    LET c == job[w].cmd
        s == job[w].slot IN
    /\ pc[w] = "recover"
    /\ CASE Known(c, s) /\ provider[c].state = "committed" -> Return(w, outcome[c])
         [] Known(c, s) /\ provider[c].state = "prepared" -> Goto(w, "get") /\ UNCHANGED job
         [] Known(c, s) /\ provider[c].state = "mutation_started" /\ outcome[c] = Absent
            /\ Proven(c, s) -> Goto(w, "receipt") /\ UNCHANGED job
         [] OTHER -> Raise(w)
    /\ UNCHANGED <<storeVars, journalVars, providerVars, mutated>>

\* recover_lifecycle_command, up to the receipt.
Recover(w) ==
    LET c == job[w].cmd
        s == job[w].slot IN
    /\ pc[w] = "recover"
    /\ CASE ~Known(c, s) -> Raise(w) /\ UNCHANGED provider
         [] Known(c, s) /\ outcome[c] # Absent ->
              /\ provider' = [provider EXCEPT ![c].state = "committed"]
              /\ Return(w, outcome[c])
         [] Known(c, s) /\ outcome[c] = Absent /\ provider[c].state = "prepared" ->
              Goto(w, "get") /\ UNCHANGED <<job, provider>>
         [] Known(c, s) /\ outcome[c] = Absent /\ provider[c].state = "mutation_started"
            /\ Proven(c, s) ->
              Goto(w, "receipt") /\ UNCHANGED <<job, provider>>
         [] OTHER -> Raise(w) /\ UNCHANGED provider
    /\ UNCHANGED <<storeVars, journalVars, outcome, mutated>>

\* outcome_store.put keeps the receipt it finds.
PutReceipt(w) ==
    LET c == job[w].cmd
        receipt == IF outcome[c] = Absent THEN store.anchor ELSE outcome[c] IN
    /\ pc[w] = "receipt"
    /\ outcome' = [outcome EXCEPT ![c] = receipt]
    /\ job' = [job EXCEPT ![w].receipt = receipt]
    /\ Goto(w, "settle")
    /\ UNCHANGED <<storeVars, journalVars, provider, mutated>>

Settle(w) ==
    /\ pc[w] = "settle"
    /\ provider' = [provider EXCEPT ![job[w].cmd].state = "committed"]
    /\ Return(w, job[w].receipt)
    /\ UNCHANGED <<storeVars, journalVars, outcome, mutated>>

\* reconcile commits only while the receipt names the current anchor.
Confirm(w) ==
    /\ pc[w] = "confirm"
    /\ IF job[w].receipt = store.anchor THEN Goto(w, "commit") /\ UNCHANGED job ELSE Finish(w)
    /\ UNCHANGED <<storeVars, journalVars, providerVars, mutated>>

-----------------------------------------------------------------------------
(* The rest of the program, and crashes.                                   *)

\* Another thread saves a checkpoint: it reads the head of its thread, which fails
\* on a torn store, inserts the row and then advances the anchor.
Insert ==
    /\ store.db = store.anchor
    /\ clock < MaxEvents
    /\ LET new == Append(store.db, [kind |-> "row", n |-> clock + 1]) IN
       \E anchor \in {store.anchor, new} : store' = [db |-> new, anchor |-> anchor]
    /\ clock' = clock + 1
    /\ UNCHANGED backups

Put ==
    /\ Insert
    /\ store'.anchor = store'.db
    /\ UNCHANGED <<journalVars, providerVars, callVars, mutated>>

\* A transaction of the journal gives up on a locked database: it is rolled back and
\* the error is raised.  (Of the provider's tables the same is true, with the effect
\* of a crash and a new coordinator.)
Busy(w) ==
    /\ pc[w] \in {"demote", "start", "fail", "commit"}
    /\ Finish(w)
    /\ UNCHANGED <<storeVars, journalVars, providerVars, mutated>>

\* The process dies, perhaps in the middle of the operation or of a save.
Crash(w) ==
    LET c == job[w].cmd IN
    /\ pc[w] # "closed"
    /\ Goto(w, "closed")
    /\ job' = [job EXCEPT ![w] = NoJob]
    /\ \/ UNCHANGED <<storeVars, mutated>>
       \/ Insert /\ store'.anchor # store'.db /\ UNCHANGED mutated
       \/ /\ pc[w] = "mutate"
          /\ Torn(c, job[w].slot)
          /\ mutated' = [mutated EXCEPT ![c] = @ + 1]
    /\ UNCHANGED <<journalVars, providerVars>>

Step(w) ==
    \/ Demote(w) \/ Start(w) \/ Fail(w) \/ Commit(w)
    \/ GetOutcome(w) \/ PrepareCommand(w) \/ Mark(w) \/ Mutate(w)
    \/ Recover(w) \/ PutReceipt(w) \/ Settle(w) \/ Confirm(w)

Next ==
    \/ \E w \in Callers :
          \/ Open(w) \/ Step(w) \/ Busy(w) \/ Crash(w)
          \/ \E c \in Commands : IssueCommand(w, c)
          \/ \E c \in Commands : \E s \in SlotsFor(c) : Execute(w, c, s) \/ Reconcile(w, c, s)
    \/ Put

Spec == Init /\ [][Next]_vars

\* An operator retries every open command with its own arguments, and the process
\* is not killed, nor the databases locked, for ever.
FairSpec ==
    /\ Spec
    /\ \A w \in Callers :
         /\ WF_vars(Open(w))
         /\ WF_vars(Step(w))
         /\ \A c \in Commands : \A s \in SlotsFor(c) : SF_vars(Reconcile(w, c, s))
    /\ <>[][~\E w \in Callers : Busy(w) \/ Crash(w)]_vars

-----------------------------------------------------------------------------
(* Properties of a journal with one coordinator.                           *)

\* Whatever the crashes, retries and reconciliations, the journal is one that the
\* next coordinator opens: _verify_store accepts every row and both marks.
JournalOpens == StoreVerified

\* The inner lifecycle operation of a command is invoked at most once, however
\* often the command is executed, reconciled and interrupted.
MutatedOnce == \A c \in Commands : mutated[c] <= 1

\* The three records of a command never contradict each other: a committed
\* journal row has a receipt, a receipt a provider row that was started, and a
\* started provider row a journal row that left prepared.
RecordsAgree ==
    \A c \in Commands :
      /\ c \in Committed => outcome[c] # Absent
      /\ outcome[c] # Absent => provider[c] # Absent /\ provider[c].state # "prepared"
      /\ provider[c] # Absent => c \in Issued /\ journal[c].state # "prepared"
      /\ mutated[c] > 0 => provider[c] # Absent /\ provider[c].state # "prepared"

Rank(state) ==
    CASE state = "prepared" -> 0
      [] state = "provider_started" -> 1
      [] state = "reconciliation_required" -> 2
      [] state = "committed" -> 3

RecordsForwardStep(c) ==
    /\ c \in Issued =>
         /\ journal'[c] # Absent
         /\ journal'[c].fence = journal[c].fence
         /\ journal'[c].expected = journal[c].expected
         /\ Rank(journal'[c].state) >= Rank(journal[c].state)
    /\ c \in Committed => journal'[c] = journal[c]
    /\ outcome[c] # Absent => outcome'[c] = outcome[c]

\* A row keeps its identity and only advances in the order the journal witness
\* (_STATE_RANK) expects, and a committed row or a receipt never changes again.
RecordsForward == [][\A c \in Commands : RecordsForwardStep(c)]_vars

\* What the operation of c was to achieve has been achieved, up to rows that other
\* threads have added since.
Achieved(c) ==
    LET before == provider[c]
        Copied(pair) ==
           /\ pair.db # Absent /\ pair.anchor # Absent
           /\ IsPrefix(pair.db, store.db) /\ IsPrefix(pair.anchor, store.anchor) IN
    CASE Operation[c] = "migration" -> ~Legacy(store.db)
      [] Operation[c] = "snapshot" ->
           \/ backups[before.slot] = [db |-> before.db, anchor |-> before.anchor]
           \/ Copied(backups[before.slot])
      [] Operation[c] = "restore" ->
           \/ Copied(before.backup)
           \/ Copied(backups[before.slot])

\* A provider receipt, whether the operation just ran or recovery inferred that it
\* did, is written only when the store shows what the command was to achieve.
ReceiptEarned ==
    [][\A c \in Commands :
         outcome[c] = Absent /\ outcome'[c] # Absent => Achieved(c)]_vars

\* The evidence for an interrupted command settles it: a receipt that names the
\* current anchor, a provider row from before the mutation, or a proven mutation.
Resolvable(c) ==
    /\ c \in Issued /\ journal[c].state \in {"provider_started", "reconciliation_required"}
    /\ provider[c] # Absent
    /\ IF outcome[c] # Absent THEN outcome[c] = store.anchor
       ELSE \/ /\ provider[c].state = "prepared"
               /\ journal[c].expected = store.anchor
               /\ Observable(c, provider[c].slot)
            \/ provider[c].state = "mutation_started" /\ Proven(c, provider[c].slot)

\* reconcile does not leave a command open for ever while there is evidence for it.
EvidenceSettles == \A c \in Commands : []<>~Resolvable(c)

-----------------------------------------------------------------------------
(* Statements of the documentation that the code does not keep.            *)

\* A command whose fence is not above the highest committed one is not carried out.
FenceHeld ==
    \A w \in Callers : pc[w] = "mutate" => journal[job[w].cmd].fence > committed

\* A command is not carried out on an anchor other than the one it was issued for.
AnchorHeld ==
    \A w \in Callers : pc[w] = "mutate" => journal[job[w].cmd].expected = store.anchor
=============================================================================
