--------------------------- MODULE WitnessedJournal ---------------------------
(***************************************************************************)
(* The journal of lifecycle commands guarded by a rollback witness (P4-N): *)
(* the coordinator of aegis/agent/checkpoint_lifecycle_journal_witness.py  *)
(* over the journal of checkpoint_lifecycle_journal.py (P4-M, with P4-M's  *)
(* own reconcile).                                                         *)
(*                                                                         *)
(* The journal and the witness are two files that no transaction spans.    *)
(* One process uses them; it can die before every durable write, and while *)
(* no call runs an operator can put back an older authentic copy of the    *)
(* journal together with its key.  The witness and its key stay.           *)
(*                                                                         *)
(* Digests and tags are modelled by what they bind, so an attestation is a *)
(* copy of the journal.  Fences are given out without gaps, so the journal *)
(* is the sequence of its rows and a row's position is its fence.  A       *)
(* store's anchor fingerprint is the number of the event that made it:     *)
(* ciphertext is randomized, so only a restored backup brings one back.    *)
(***************************************************************************)
EXTENDS Integers, Sequences, FiniteSets

CONSTANTS
    Migrations, Snapshots, Restores,    \* command ids, by operation
    Absent,         \* a missing file, or a NULL column
    NoCall,         \* the coordinator serves no call
    MaxEvents,      \* bound: events that change the store
    MaxCopies,      \* bound: journal copies taken
    MaxRestores     \* bound: journal copies put back

Commands == Migrations \cup Snapshots \cup Restores

States == {"prepared", "provider_started", "reconciliation_required", "committed"}

Store == [anchor : Nat, rows : Nat, legacy : BOOLEAN]

\* pre: the observation made at issue; its anchor is expected_anchor_fingerprint.
Row == [cmd : Commands, pre : Store, state : States, after : Nat \cup {Absent}]

\* A command as its callers hold it, and a receipt.
Command == [cmd : Commands, fence : Nat, expected : Nat]
Receipt == [cmd : Commands, fence : Nat, after : Nat]

\* fence is 0 in an issue call, which does not have one yet.
Call == [kind : {"issue", "execute", "reconcile"}, cmd : Commands, fence : Nat]

ASSUME JournalAssumption ==
    /\ Migrations \cap Snapshots = {} /\ Migrations \cap Restores = {}
    /\ Snapshots \cap Restores = {}
    /\ MaxEvents \in Nat /\ MaxCopies \in Nat /\ MaxRestores \in Nat
    /\ Absent \notin Nat /\ Absent \notin Store /\ Absent \notin Seq(Row)
    /\ NoCall \notin Call

VARIABLES
    store, backup,  \* the checkpoint database with its anchor, and the backup pair
    clock,          \* number of the last event
    journal,        \* lifecycle_commands, in the order of the fences
    witness,        \* the attestation in the witness file
    keyfile,        \* the witness key file exists
    pc, call,       \* the coordinator's next step, and the call it serves
    held, receipts, \* history: commands and receipts returned to callers
    invoked,        \* history: invocations of the provider, by command
    copies,         \* older journal files kept by an operator
    restores        \* history: copies put back

storeVars == <<store, backup, clock>>
fileVars == <<witness, keyfile>>
answerVars == <<held, receipts>>
operatorVars == <<copies, restores>>
vars == <<store, backup, clock, journal, witness, keyfile, pc, call, held, receipts,
          invoked, copies, restores>>

Labels == {"closed", "opened", "create", "idle", "issue", "demote", "start", "invoke",
           "fail", "commit", "prove", "sync"}

TypeOK ==
    /\ store \in Store
    /\ backup \in Store \cup {Absent}
    /\ clock \in 0..MaxEvents
    /\ journal \in Seq(Row)
    /\ witness \in Seq(Row) \cup {Absent}
    /\ keyfile \in BOOLEAN
    /\ pc \in Labels
    /\ call \in Call \cup {NoCall}
    /\ pc \in {"closed", "opened", "create", "idle"} <=> call = NoCall
    /\ held \subseteq Command
    /\ receipts \subseteq Receipt
    /\ invoked \in [Commands -> Nat]
    /\ copies \subseteq Seq(Row)
    /\ restores \in 0..MaxRestores

\* A backup pair may be left from earlier snapshots.
Init ==
    /\ store = [anchor |-> 0, rows |-> 1, legacy |-> TRUE]
    /\ backup \in {Absent, store}
    /\ clock = 0
    /\ journal = <<>>
    /\ witness = Absent
    /\ keyfile = FALSE
    /\ pc = "closed"
    /\ call = NoCall
    /\ held = {}
    /\ receipts = {}
    /\ invoked = [c \in Commands |-> 0]
    /\ copies = {}
    /\ restores = 0

Goto(l) == pc' = l /\ UNCHANGED call

\* Return or raise to the caller.
Finish == pc' = "idle" /\ call' = NoCall

-----------------------------------------------------------------------------
(* The witness.                                                            *)

\* Mutant: a command found started ranks above one that needs reconciliation.
RankStartedAbove(state) ==
    CASE state = "prepared" -> 0
      [] state = "provider_started" -> 2
      [] state = "reconciliation_required" -> 1
      [] state = "committed" -> 3

Rank(state) ==
    CASE state = "prepared" -> 0
      [] state = "provider_started" -> 1
      [] state = "reconciliation_required" -> 2
      [] state = "committed" -> 3

CommittedFences(j) == {f \in DOMAIN j : j[f].state = "committed"}

\* highest_committed_fence of one is not below that of the other.
HighestNotBelow(j, w) ==
    \A f \in CommittedFences(w) : \E g \in CommittedFences(j) : g >= f

\* A witnessed row and the row that now has its fence.
RowContinues(now, previous) ==
    /\ now.cmd = previous.cmd /\ now.pre = previous.pre
    /\ Rank(now.state) >= Rank(previous.state)
    /\ previous.state = "committed" => now.state = "committed" /\ now.after = previous.after

\* Some counter or some state is ahead of what was witnessed.
StrictProgress(w, j) ==
    \/ Len(j) > Len(w)
    \/ Cardinality(CommittedFences(j)) > Cardinality(CommittedFences(w))
    \/ \E f \in DOMAIN w : Rank(j[f].state) > Rank(w[f].state)

\* Mutant: only issued fences and identities are compared, not the progress of a command.
AcceptsIssuedOnly(w, j) ==
    /\ Len(j) >= Len(w)
    /\ \A f \in DOMAIN w : j[f].cmd = w[f].cmd /\ j[f].pre = w[f].pre

\* _classify_current_against_witness finds no reason to reject journal j.
Accepts(w, j) ==
    /\ Len(j) >= Len(w)
    /\ HighestNotBelow(j, w)
    /\ Cardinality(CommittedFences(j)) >= Cardinality(CommittedFences(w))
    /\ \A f \in DOMAIN w : RowContinues(j[f], w[f])
    /\ j = w \/ StrictProgress(w, j)

\* _verify_or_advance_witness, when it does not raise.
VerifyOrAdvance ==
    /\ Accepts(witness, journal)
    /\ witness' = journal
    /\ UNCHANGED keyfile

-----------------------------------------------------------------------------
(* The constructor: the journal is opened first, then the witness.         *)

Demoted(row) ==
    IF row.state = "provider_started"
    THEN [row EXCEPT !.state = "reconciliation_required"] ELSE row

\* P4-M's constructor, with _recover_started_commands.
OpenJournal ==
    /\ pc = "closed"
    /\ journal' = [f \in DOMAIN journal |-> Demoted(journal[f])]
    /\ Goto("opened")
    /\ UNCHANGED <<storeVars, fileVars, answerVars, invoked, operatorVars>>

\* A first start: the key file is written before the witness file.
CreateKey ==
    /\ pc = "opened"
    /\ witness = Absent /\ ~keyfile /\ journal = <<>>
    /\ keyfile' = TRUE
    /\ Goto("create")
    /\ UNCHANGED <<storeVars, journal, witness, answerVars, invoked, operatorVars>>

CreateWitness ==
    /\ pc = "create"
    /\ witness' = journal
    /\ Goto("idle")
    /\ UNCHANGED <<storeVars, journal, keyfile, answerVars, invoked, operatorVars>>

OpenWitness ==
    /\ pc = "opened"
    /\ witness # Absent /\ keyfile
    /\ VerifyOrAdvance
    /\ Goto("idle")
    /\ UNCHANGED <<storeVars, journal, answerVars, invoked, operatorVars>>

\* The constructor raises: one of the two files is missing, both are and the journal
\* has commands, or the journal is not a continuation of what was witnessed.
RefuseToOpen ==
    /\ pc = "opened"
    /\ \/ (witness # Absent) # keyfile
       \/ witness = Absent /\ ~keyfile /\ journal # <<>>
       \/ witness # Absent /\ keyfile /\ ~Accepts(witness, journal)
    /\ Goto("closed")
    /\ UNCHANGED <<storeVars, journal, fileVars, answerVars, invoked, operatorVars>>

-----------------------------------------------------------------------------
(* The calls.  Each first verifies or advances the witness (a rejected     *)
(* call changes nothing), and again before it returns; an error raised by  *)
(* the journal in between skips the second time.                           *)

FenceOf(c) == {f \in DOMAIN journal : journal[f].cmd = c}

IssueCommand(c) ==
    /\ pc = "idle"
    /\ VerifyOrAdvance
    /\ pc' = "issue"
    /\ call' = [kind |-> "issue", cmd |-> c, fence |-> 0]
    /\ UNCHANGED <<storeVars, journal, answerVars, invoked, operatorVars>>

\* The journal's issue_command: an id that was issued before gets the same command.
Issue ==
    /\ pc = "issue"
    /\ journal' = IF FenceOf(call.cmd) # {} THEN journal
                  ELSE Append(journal, [cmd |-> call.cmd, pre |-> store,
                                        state |-> "prepared", after |-> Absent])
    /\ Goto("sync")
    /\ UNCHANGED <<storeVars, fileVars, answerVars, invoked, operatorVars>>

\* _load_record_for_command finds the row of command h.
Loaded(h) ==
    /\ h.fence \in DOMAIN journal
    /\ journal[h.fence].cmd = h.cmd
    /\ journal[h.fence].pre.anchor = h.expected

\* The fence and the anchor let a prepared command start.
MayStart(h) ==
    /\ \A f \in CommittedFences(journal) : f < h.fence
    /\ h.expected = store.anchor

\* Where execute and reconcile go on; raising leaves the coordinator idle.
AfterLoad(kind, h) ==
    LET state == journal[h.fence].state IN
    IF ~Loaded(h) THEN "idle"
    ELSE CASE state = "committed" -> "sync"
           [] state = "provider_started" -> "demote"
           [] state = "reconciliation_required" -> IF kind = "execute" THEN "idle" ELSE "prove"
           [] state = "prepared" -> IF kind = "execute" /\ MayStart(h) THEN "start" ELSE "idle"

\* execute or reconcile of a command that some caller was given.
Serve(kind, h) ==
    /\ pc = "idle"
    /\ VerifyOrAdvance
    /\ pc' = AfterLoad(kind, h)
    /\ call' = IF pc' = "idle" THEN NoCall
               ELSE [kind |-> kind, cmd |-> h.cmd, fence |-> h.fence]
    /\ UNCHANGED <<storeVars, journal, answerVars, invoked, operatorVars>>

SetState(f, state) == journal' = [journal EXCEPT ![f].state = state]

\* A row found in provider_started, left by a commit that failed.
Demote ==
    /\ pc = "demote"
    /\ SetState(call.fence, "reconciliation_required")
    /\ IF call.kind = "execute" THEN Finish ELSE Goto("prove")
    /\ UNCHANGED <<storeVars, fileVars, answerVars, invoked, operatorVars>>

Start ==
    /\ pc = "start"
    /\ SetState(call.fence, "provider_started")
    /\ Goto("invoke")
    /\ UNCHANGED <<storeVars, fileVars, answerVars, invoked, operatorVars>>

\* The lifecycle operation itself (its own steps are those of LifecycleCommands).
ProviderOperation(c) ==
    CASE c \in Migrations ->
           /\ clock < MaxEvents
           /\ clock' = IF store.legacy THEN clock + 1 ELSE clock
           /\ store' = IF store.legacy THEN [store EXCEPT !.legacy = FALSE, !.anchor = clock + 1]
                       ELSE store
           /\ UNCHANGED backup
      [] c \in Snapshots ->
           /\ backup' = store
           /\ UNCHANGED <<store, clock>>
      [] c \in Restores ->
           /\ backup # Absent
           /\ store' = backup
           /\ UNCHANGED <<backup, clock>>

\* The operation returns, or raises having had its effect or not.
Invoke ==
    /\ pc = "invoke"
    /\ invoked' = [invoked EXCEPT ![call.cmd] = @ + 1]
    /\ \/ ProviderOperation(call.cmd) /\ pc' \in {"commit", "fail"}
       \/ UNCHANGED storeVars /\ pc' = "fail"
    /\ UNCHANGED <<call, journal, fileVars, answerVars, operatorVars>>

Fail ==
    /\ pc = "fail"
    /\ SetState(call.fence, "reconciliation_required")
    /\ Finish
    /\ UNCHANGED <<storeVars, fileVars, answerVars, invoked, operatorVars>>

\* _commit_receipt
CommitReceipt ==
    journal' = [journal EXCEPT ![call.fence].state = "committed",
                               ![call.fence].after = store.anchor]

Commit ==
    /\ pc = "commit"
    /\ CommitReceipt
    /\ Goto("sync")
    /\ UNCHANGED <<storeVars, fileVars, answerVars, invoked, operatorVars>>

\* _migration_commit_proven
MigrationCommitProven(before) ==
    /\ before.rows > 0 /\ before.rows = store.rows
    /\ before.legacy /\ ~store.legacy
    /\ before.anchor # store.anchor

\* The end of reconcile.
Prove ==
    /\ pc = "prove"
    /\ IF call.cmd \in Migrations /\ MigrationCommitProven(journal[call.fence].pre)
       THEN CommitReceipt /\ Goto("sync")
       ELSE Finish /\ UNCHANGED journal
    /\ UNCHANGED <<storeVars, fileVars, answerVars, invoked, operatorVars>>

\* What the call returns.
Answer ==
    IF call.kind = "issue"
    THEN /\ held' = held \cup {[cmd |-> call.cmd, fence |-> f, expected |-> journal[f].pre.anchor] :
                               f \in FenceOf(call.cmd)}
         /\ UNCHANGED receipts
    ELSE /\ receipts' = receipts \cup {[cmd |-> call.cmd, fence |-> call.fence,
                                        after |-> journal[call.fence].after]}
         /\ UNCHANGED held

\* Mutant: the answer is returned without advancing the witness.
SyncAnswerOnly ==
    /\ pc = "sync"
    /\ Answer
    /\ Finish
    /\ UNCHANGED <<storeVars, journal, fileVars, invoked, operatorVars>>

\* _sync_after_journal_mutation, then the answer.
Sync ==
    /\ pc = "sync"
    /\ IF Accepts(witness, journal) THEN VerifyOrAdvance /\ Answer
       ELSE UNCHANGED <<fileVars, answerVars>>
    /\ Finish
    /\ UNCHANGED <<storeVars, journal, invoked, operatorVars>>

-----------------------------------------------------------------------------
(* The environment.                                                        *)

\* A transaction of the journal gives up on a locked database and the call raises.
Busy ==
    /\ pc \in {"issue", "demote", "start", "fail", "commit"}
    /\ Finish
    /\ UNCHANGED <<storeVars, journal, fileVars, answerVars, invoked, operatorVars>>

\* The agent saves a checkpoint, under the active key.
Put ==
    /\ clock < MaxEvents
    /\ clock' = clock + 1
    /\ store' = [store EXCEPT !.anchor = clock + 1, !.rows = @ + 1]
    /\ UNCHANGED <<backup, journal, fileVars, pc, call, answerVars, invoked, operatorVars>>

\* The process dies, perhaps when the operation has taken effect.
Crash ==
    /\ pc # "closed"
    /\ pc' = "closed" /\ call' = NoCall
    /\ \/ UNCHANGED <<storeVars, invoked>>
       \/ /\ pc = "invoke"
          /\ ProviderOperation(call.cmd)
          /\ invoked' = [invoked EXCEPT ![call.cmd] = @ + 1]
    /\ UNCHANGED <<journal, fileVars, answerVars, operatorVars>>

CopyJournal ==
    /\ Cardinality(copies) < MaxCopies
    /\ copies' = copies \cup {journal}
    /\ UNCHANGED <<storeVars, journal, fileVars, pc, call, answerVars, invoked, restores>>

\* An older copy of the journal is put back while no call runs.
RestoreJournal ==
    /\ pc \in {"closed", "idle"}
    /\ restores < MaxRestores
    /\ \E j \in copies : j # journal /\ journal' = j
    /\ restores' = restores + 1
    /\ UNCHANGED <<storeVars, fileVars, pc, call, answerVars, invoked, copies>>

-----------------------------------------------------------------------------
Open == OpenJournal \/ CreateKey \/ CreateWitness \/ OpenWitness \/ RefuseToOpen

Step == Issue \/ Demote \/ Start \/ Invoke \/ Fail \/ Commit \/ Prove \/ Sync

Next ==
    \/ Open
    \/ \E c \in Commands : IssueCommand(c)
    \/ \E kind \in {"execute", "reconcile"}, h \in held : Serve(kind, h)
    \/ Step
    \/ Busy \/ Put \/ Crash \/ CopyJournal \/ RestoreJournal

Spec == Init /\ [][Next]_vars

-----------------------------------------------------------------------------
(* Properties.                                                             *)

\* The coordinator serves a call.
Serving == call # NoCall

\* While a call is served, the journal holds every command that was ever returned to a
\* caller, and every returned receipt with its anchor, whatever copies of the journal
\* were put back and wherever the process died in between.
HistoryKept ==
    Serving =>
        /\ \A h \in held : Loaded(h)
        /\ \A r \in receipts :
              /\ r.fence \in CommittedFences(journal)
              /\ journal[r.fence].cmd = r.cmd
              /\ journal[r.fence].after = r.after

\* A fence is never handed out twice: two commands held by callers that agree in their
\* fence or in their id are the same command, also across journal rollbacks.
HeldUnique ==
    \A g, h \in held : g.fence = h.fence \/ g.cmd = h.cmd => g = h

\* Without a rollback of the journal the witness never rejects it, however the process
\* died between the journal's writes and the witness's.
NoFalseAlarm ==
    restores = 0 /\ witness # Absent => Accepts(witness, journal)

\* Once a receipt was returned the provider is not invoked for its command again.
AnsweredOnce ==
    [][\A r \in receipts : invoked'[r.cmd] = invoked[r.cmd]]_vars

\* What a witnessed journal shows: the command, expected anchor and outcome at each fence.
Shown(w) ==
    IF w = Absent THEN <<>>
    ELSE [f \in DOMAIN w |-> [cmd |-> w[f].cmd, expected |-> w[f].pre.anchor, after |-> w[f].after]]

Ledger == INSTANCE AnsweredLedger WITH ledger <- Shown(witness)

\* Two files that no transaction spans, crashes and journals put back look to the callers
\* like one ledger that only grows: what is returned is in it, and the provider is never
\* invoked for a command that it shows committed.
RefinesAnsweredLedger == Ledger!Spec

=============================================================================
