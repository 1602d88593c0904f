----------------------------- MODULE ControlPlane -----------------------------
(***************************************************************************)
(* Crash-safe control-plane changes across two SQLite files:               *)
(* aegis/effects/control_plane_recovery.py                                 *)
(* (CrashSafeControlPlaneCoordinator and the users of its fence).          *)
(*                                                                         *)
(* The anchor database holds the active generation and the change journal; *)
(* the execution database holds the authorization state and a marker of    *)
(* the last generation applied to it.  Each file commits atomically, the   *)
(* pair does not: a change goes prepared -> applied -> active through four *)
(* transactions, and any process may crash between two of them or race     *)
(* with another process committing or recovering.                          *)
(***************************************************************************)
EXTENDS AuthorizationState

CONSTANTS
    Procs,      \* processes that run commit, recover or initialize
    Reliable,   \* those of them that are never killed in mid-operation
    Replicas,   \* processes that issue authorization evidence
    ChangeIds,  \* change identifiers callers may submit
    NoChange,   \* NULL in last_change_id
    NoMutation  \* NULL in last_mutation_sha256

ASSUME NullAssumption ==
    /\ NoMutation \notin Mutations
    /\ NoChange \notin ChangeIds

VARIABLES
    anchorGen,  \* control_plane_generations.current_generation, 0 = no row
    journal,    \* control_plane_changes, by change_id
    exec,       \* execution_control_plane_state, gen 0 = no row
    auth,       \* subject, policy, version and key rows of the execution database
    pc,         \* where each process is in commit, recover or initialize
    cur,        \* the change each process is working on
    rpc,        \* where each replica is in evaluate
    ev          \* the evidence each replica has gathered

anchorVars == <<anchorGen, journal>>
execVars   == <<exec, auth>>
procVars   == <<pc, cur>>
evVars     == <<rpc, ev>>
vars       == <<anchorGen, journal, exec, auth, pc, cur, rpc, ev>>

Statuses == {"none", "prepared", "applied", "active"}

Row == [from : Nat, target : Nat, mutation : Mutations \cup {NoMutation},
        status : Statuses]

NoRow == [from |-> 0, target |-> 0, mutation |-> NoMutation, status |-> "none"]

NoEvidence == [gen      |-> 0,
               versions |-> [policy |-> 0, revocation |-> 0],
               flag     |-> [t \in Targets |-> FALSE]]

TypeOK ==
    /\ anchorGen \in Nat
    /\ journal \in [ChangeIds -> Row]
    /\ exec \in [gen : Nat, change : ChangeIds \cup {NoChange},
                 mutation : Mutations \cup {NoMutation}]
    /\ auth \in Authorization
    /\ pc \in [Procs -> {"idle", "init", "inspect", "apply", "mark", "activate"}]
    /\ cur \in [Procs -> ChangeIds \cup {NoChange}]
    /\ rpc \in [Replicas -> {"idle", "gen", "versions", "decided"}]
    /\ ev \in [Replicas -> [gen : Nat, versions : Versions, flag : [Targets -> BOOLEAN]]]

Init ==
    /\ anchorGen = 0
    /\ journal = [c \in ChangeIds |-> NoRow]
    /\ exec = [gen |-> 0, change |-> NoChange, mutation |-> NoMutation]
    /\ auth = InitialAuthorization
    /\ pc = [p \in Procs |-> "idle"]
    /\ cur = [p \in Procs |-> NoChange]
    /\ rpc = [r \in Replicas |-> "idle"]
    /\ ev = [r \in Replicas |-> NoEvidence]

-----------------------------------------------------------------------------
(* Reads of the two databases.                                             *)

Pending(c) == journal[c].status \in {"prepared", "applied"}

NonePending == \A c \in ChangeIds : ~Pending(c)

\* The execution marker names change c with its target and its mutation.
Marks(c) ==
    /\ exec.gen = journal[c].target
    /\ exec.change = c
    /\ exec.mutation = journal[c].mutation

\* Mutant: only the anchor is consulted, as before the journal existed.
AnchorOnlyFence == anchorGen # 0

\* What locked_active_generation requires before it yields anchorGen.
FenceOpen ==
    /\ NonePending
    /\ anchorGen # 0
    /\ exec.gen = anchorGen

-----------------------------------------------------------------------------
(* Coordinator steps.  A change row's from, target and mutation are never  *)
(* updated, so the copy a process holds is the row itself.                 *)

Goto(p, l) == pc' = [pc EXCEPT ![p] = l]

\* The operation returns, raises or its process dies: its locals are gone.
Leave(p) ==
    /\ pc' = [pc EXCEPT ![p] = "idle"]
    /\ cur' = [cur EXCEPT ![p] = NoChange]

InitializeAnchor(p) ==
    /\ pc[p] = "idle"
    /\ anchorGen \in {0, 1}
    /\ anchorGen' = 1
    /\ Goto(p, "init")
    /\ UNCHANGED <<journal, execVars, cur, evVars>>

InitializeExecution(p) ==
    /\ pc[p] = "init"
    /\ exec' = IF exec.gen = 0 /\ anchorGen = 1
               THEN [gen |-> 1, change |-> NoChange, mutation |-> NoMutation]
               ELSE exec
    /\ Leave(p)
    /\ UNCHANGED <<anchorVars, auth, evVars>>

\* Mutant: the check for another change in flight is missing.
PrepareSecond(p, c, m) ==
    /\ pc[p] = "idle"
    /\ journal[c].status = "none"
    /\ anchorGen # 0
    /\ journal' = [journal EXCEPT ![c] = [from |-> anchorGen, target |-> anchorGen + 1,
                                         mutation |-> m, status |-> "prepared"]]
    /\ cur' = [cur EXCEPT ![p] = c]
    /\ Goto(p, "apply")
    /\ UNCHANGED <<anchorGen, execVars, evVars>>

\* Mutant: an existing row is rebound to the new mutation.
PrepareReplace(p, c, m) ==
    /\ pc[p] = "idle"
    /\ NonePending
    /\ anchorGen # 0
    /\ journal' = [journal EXCEPT ![c] = [from |-> anchorGen, target |-> anchorGen + 1,
                                         mutation |-> m, status |-> "prepared"]]
    /\ cur' = [cur EXCEPT ![p] = c]
    /\ Goto(p, "apply")
    /\ UNCHANGED <<anchorGen, execVars, evVars>>

\* commit(c, m): prepare inserts the row, or finds it with the same mutation.
Prepare(p, c, m) ==
    /\ pc[p] = "idle"
    /\ \/ /\ journal[c].status # "none"
          /\ journal[c].mutation = m
          /\ UNCHANGED journal
       \/ /\ journal[c].status = "none"
          /\ NonePending
          /\ anchorGen # 0
          /\ journal' = [journal EXCEPT ![c] =
                [from |-> anchorGen, target |-> anchorGen + 1,
                 mutation |-> m, status |-> "prepared"]]
    /\ cur' = [cur EXCEPT ![p] = c]
    /\ Goto(p, "apply")
    /\ UNCHANGED <<anchorGen, execVars, evVars>>

\* recover() reads the pending row in one transaction ...
RecoverPending(p, c) ==
    /\ pc[p] = "idle"
    /\ Pending(c)
    /\ cur' = [cur EXCEPT ![p] = c]
    /\ Goto(p, "inspect")
    /\ UNCHANGED <<anchorVars, execVars, evVars>>

\* Mutant: a change already applied to the execution database is refused.
RecoverUnappliedOnly(p) ==
    /\ pc[p] = "inspect"
    /\ \/ /\ exec.gen = journal[cur[p]].from
          /\ Goto(p, "apply")
          /\ UNCHANGED cur
       \/ /\ exec.gen # journal[cur[p]].from
          /\ Leave(p)
    /\ UNCHANGED <<anchorVars, execVars, evVars>>

\* ... and the execution marker in another, to decide where to resume.
RecoverInspect(p) ==
    /\ pc[p] = "inspect"
    /\ \/ /\ exec.gen = journal[cur[p]].from
          /\ Goto(p, "apply")
          /\ UNCHANGED cur
       \/ /\ Marks(cur[p])
          /\ Goto(p, "mark")
          /\ UNCHANGED cur
       \/ /\ exec.gen # journal[cur[p]].from
          /\ ~Marks(cur[p])
          /\ Leave(p)
    /\ UNCHANGED <<anchorVars, execVars, evVars>>

\* Apply cur[p] under guard g.
ApplyUnder(p, g) ==
    LET ch == journal[cur[p]]
    IN  /\ pc[p] = "apply"
        /\ g
        /\ Applicable(auth, ch.mutation)
        /\ auth' = Mutate(auth, ch.mutation)
        /\ exec' = [gen |-> ch.target, change |-> cur[p], mutation |-> ch.mutation]
        /\ Goto(p, "mark")
        /\ UNCHANGED <<cur, anchorVars, evVars>>

\* Mutant: the marker is not compared, so a retry applies the change again.
ApplyAgain(p) == ApplyUnder(p, exec.gen \in {journal[cur[p]].from, journal[cur[p]].target})

\* Mutant: a stale process applies its change whatever came after it.
ApplyStale(p) == ApplyUnder(p, exec.gen # 0 /\ ~Marks(cur[p]))

\* Mutant: the mutation and the marker are written in two transactions.
ApplyWithoutMarker(p) ==
    /\ pc[p] = "apply"
    /\ exec.gen = journal[cur[p]].from
    /\ Applicable(auth, journal[cur[p]].mutation)
    /\ auth' = Mutate(auth, journal[cur[p]].mutation)
    /\ Leave(p)
    /\ UNCHANGED <<exec, anchorVars, evVars>>

ApplyExecution(p) ==
    LET c  == cur[p]
        ch == journal[c]
    IN  /\ pc[p] = "apply"
        /\ \/ /\ Marks(c)
              /\ Goto(p, "mark")
              /\ UNCHANGED <<execVars, cur>>
           \/ /\ exec.gen = ch.from
              /\ Applicable(auth, ch.mutation)
              /\ auth' = Mutate(auth, ch.mutation)
              /\ exec' = [gen |-> ch.target, change |-> c, mutation |-> ch.mutation]
              /\ Goto(p, "mark")
              /\ UNCHANGED cur
           \/ /\ ~Marks(c)
              /\ ~(exec.gen = ch.from /\ Applicable(auth, ch.mutation))
              /\ Leave(p)
              /\ UNCHANGED execVars
        /\ UNCHANGED <<anchorVars, evVars>>

\* The anchor write lock is held while the execution marker is read.
MarkApplied(p) ==
    LET c == cur[p]
    IN  /\ pc[p] = "mark"
        /\ \/ /\ \/ journal[c].status = "active"
                 \/ Marks(c)
              /\ journal' = IF journal[c].status = "prepared"
                            THEN [journal EXCEPT ![c].status = "applied"]
                            ELSE journal
              /\ Goto(p, "activate")
              /\ UNCHANGED cur
           \/ /\ journal[c].status # "active"
              /\ ~Marks(c)
              /\ Leave(p)
              /\ UNCHANGED journal
        /\ UNCHANGED <<anchorGen, execVars, evVars>>

\* Mutant: activation writes a status the journal does not know.
ActivateUnknownStatus(p) ==
    /\ pc[p] = "activate"
    /\ anchorGen' = journal[cur[p]].target
    /\ journal' = [journal EXCEPT ![cur[p]].status = "activated"]
    /\ Leave(p)
    /\ UNCHANGED <<execVars, evVars>>

Activate(p) ==
    LET c == cur[p]
    IN  /\ pc[p] = "activate"
        /\ \/ /\ journal[c].status = "applied"
              /\ Marks(c)
              /\ anchorGen = journal[c].from
              /\ anchorGen' = journal[c].target
              /\ journal' = [journal EXCEPT ![c].status = "active"]
           \/ /\ ~(journal[c].status = "applied" /\ Marks(c) /\ anchorGen = journal[c].from)
              /\ UNCHANGED anchorVars
        /\ Leave(p)
        /\ UNCHANGED <<execVars, evVars>>

Crash(p) ==
    /\ p \notin Reliable
    /\ pc[p] # "idle"
    /\ Leave(p)
    /\ UNCHANGED <<anchorVars, execVars, evVars>>

-----------------------------------------------------------------------------
(* Evidence.  RecoverableAnchoredAuthorizationReplica.evaluate reads the   *)
(* generation through the fence, then the versions, then the authorization *)
(* rows, each in its own transaction.                                      *)

ReadGeneration(r) ==
    /\ rpc[r] = "idle"
    /\ FenceOpen
    /\ ev' = [ev EXCEPT ![r].gen = anchorGen]
    /\ rpc' = [rpc EXCEPT ![r] = "gen"]
    /\ UNCHANGED <<anchorVars, execVars, procVars>>

ReadVersions(r) ==
    /\ rpc[r] = "gen"
    /\ ev' = [ev EXCEPT ![r].versions = auth.versions]
    /\ rpc' = [rpc EXCEPT ![r] = "versions"]
    /\ UNCHANGED <<anchorVars, execVars, procVars>>

ReadAuthorization(r) ==
    /\ rpc[r] = "versions"
    /\ ev' = [ev EXCEPT ![r].flag = auth.flag]
    /\ rpc' = [rpc EXCEPT ![r] = "decided"]
    /\ UNCHANGED <<anchorVars, execVars, procVars>>

\* execute_with_anchored_decision accepts r's evidence: the anchor lock is
\* held, the fence is open and the envelope carries the active generation.
Accepts(r) ==
    /\ rpc[r] = "decided"
    /\ FenceOpen
    /\ ev[r].gen = anchorGen

\* Accepted, rejected or its process lost: the evidence is not used again.
UseEvidence(r) ==
    /\ rpc[r] # "idle"
    /\ rpc' = [rpc EXCEPT ![r] = "idle"]
    /\ ev' = [ev EXCEPT ![r] = NoEvidence]
    /\ UNCHANGED <<anchorVars, execVars, procVars>>

-----------------------------------------------------------------------------

Step(p) ==
    \/ InitializeExecution(p)
    \/ RecoverInspect(p)
    \/ ApplyExecution(p)
    \/ MarkApplied(p)
    \/ Activate(p)

Recover(p) == \E c \in ChangeIds : RecoverPending(p, c)

Next ==
    \/ \E p \in Procs :
        \/ InitializeAnchor(p)
        \/ \E c \in ChangeIds, m \in Mutations : Prepare(p, c, m)
        \/ Recover(p)
        \/ Step(p)
        \/ Crash(p)
    \/ \E r \in Replicas :
        \/ ReadGeneration(r)
        \/ ReadVersions(r)
        \/ ReadAuthorization(r)
        \/ UseEvidence(r)

Spec == Init /\ [][Next]_vars

\* A reliable process finishes what it starts and keeps running recover(), as
\* the default stack does whenever it is built; nothing else need ever step.
FairSpec ==
    /\ Spec
    /\ \A p \in Reliable : WF_vars(Step(p)) /\ SF_vars(Recover(p))

-----------------------------------------------------------------------------
(* Properties.                                                             *)

\* The journal is one gapless chain: the active changes are exactly the steps
\* 1 -> 2 -> ... -> anchorGen, one change each, and the change in flight (at
\* most one, whoever prepared it) is the step after the active generation.
JournalChain ==
    /\ \A c \in ChangeIds :
        /\ journal[c].status # "none" => journal[c].target = journal[c].from + 1
        /\ journal[c].status = "active" => journal[c].target \in 2..anchorGen
        /\ Pending(c) => journal[c].target = anchorGen + 1
    /\ \A c, d \in ChangeIds :
        /\ journal[c].status # "none" /\ journal[d].status # "none"
        /\ journal[c].target = journal[d].target
        => c = d
    /\ \A g \in 2..anchorGen :
        \E c \in ChangeIds : journal[c].status = "active" /\ journal[c].target = g

\* However commits, recoveries and crashes interleave, the execution database
\* is at the active generation or one step ahead of it, and ahead only with
\* the marker of the change in flight, so recovery always recognizes what it
\* finds (recover's two error branches are unreachable).
Recognizable ==
    /\ exec.gen # 0 =>
        \/ exec.gen = anchorGen
        \/ exec.gen = anchorGen + 1 /\ \E c \in ChangeIds : Pending(c) /\ Marks(c)
    /\ \A c \in ChangeIds : journal[c].status = "applied" => Marks(c)

\* The change that leads to generation g in the change rows j.
ChangeTo(j, g) == CHOOSE c \in ChangeIds : j[c].status # "none" /\ j[c].target = g

\* How many changes the execution marker says the authorization rows have seen.
Marked == IF exec.gen = 0 THEN 0 ELSE exec.gen - 1

\* The authorization rows are the initial ones with the journal's changes
\* replayed in generation order, each once, up to the execution marker.
JournalReplays ==
    auth = Replay([k \in 1..Marked |-> journal[ChangeTo(journal, k + 1)].mutation], Marked)

\* Evidence that execute_with_anchored_decision accepts describes the
\* authorization state of that very moment, although its three parts were
\* read in three earlier transactions with changes in between.
EvidenceCurrent ==
    \A r \in Replicas :
        Accepts(r) => ev[r].versions = auth.versions /\ ev[r].flag = auth.flag

NeverBack(c) ==
    journal[c].status # "none" =>
        /\ journal'[c].from = journal[c].from
        /\ journal'[c].target = journal[c].target
        /\ journal'[c].mutation = journal[c].mutation
        /\ journal[c].status = "active" => journal'[c].status = "active"
        /\ journal[c].status = "applied" => journal'[c].status \in {"applied", "active"}

ForwardStep ==
    /\ anchorGen' \in {anchorGen, anchorGen + 1}
    /\ exec'.gen \in {exec.gen, exec.gen + 1}
    /\ \A c \in ChangeIds : NeverBack(c)

\* Generations and the history behind them only move forward: a journal row
\* never changes what it binds or goes back a status, and neither the anchor
\* nor the execution marker skips or revisits a generation.
ForwardOnly == [][ForwardStep]_vars

AppliedOnceStep ==
    /\ exec.gen # 0 /\ exec'.gen # exec.gen =>
        \E c \in ChangeIds :
            /\ journal[c].status = "prepared"
            /\ exec'.change = c
            /\ exec'.gen = journal[c].target
            /\ auth' = Mutate(auth, journal[c].mutation)
    /\ exec'.gen = exec.gen => auth' = auth

\* The authorization rows and the generation marker move together: a mutation
\* is applied exactly when the marker moves to its target, so once, although
\* several processes may be committing and recovering the same change.
AppliedOnce == [][AppliedOnceStep]_vars

\* Recovery moves a prepared or applied change forward until it is active,
\* wherever the processes that were working on it died.
RecoveryConverges ==
    \A c \in ChangeIds : exec.gen # 0 /\ Pending(c) ~> journal[c].status = "active"

\* The change was applied, or can be.
Completable(c) ==
    exec.gen = journal[c].target \/ Applicable(auth, journal[c].mutation)

\* The same for a change whose mutation can be applied, whatever other changes
\* cannot: nothing that was in flight before or is submitted later stands in
\* its way.
CompletableConverges ==
    \A c \in ChangeIds :
        exec.gen # 0 /\ Pending(c) /\ Completable(c) ~> journal[c].status = "active"

\* The view through the fence, for the abstract specification.
Mode ==
    IF exec.gen = 0 THEN "down"
    ELSE IF NonePending THEN "open"
    ELSE IF exec.gen = anchorGen THEN "submitted" ELSE "changed"

Fenced == INSTANCE FencedChange WITH mode <- Mode, gen <- exec.gen, state <- auth

\* The coordinator implements the fenced atomic change.
RefinesFencedChange == Fenced!ASpec
=============================================================================
