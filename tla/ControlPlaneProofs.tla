-------------------------- MODULE ControlPlaneProofs --------------------------
(***************************************************************************)
(* Proofs about ControlPlane, for any number of processes, replicas,       *)
(* changes and mutations.  The inductive invariant adds to the checked     *)
(* properties what a process in mid-operation knows about its change and   *)
(* what a replica's half-gathered evidence still guarantees.               *)
(***************************************************************************)
EXTENDS ControlPlane, Integers, TLAPS

-----------------------------------------------------------------------------
(* The replay of a journal's mutations.                                    *)

\* A replay starts from the initial rows, and its k-th step is the k-th mutation.
StartRows(M) == InitialAuthorization
MutateRows(M, a, k) == Mutate(a, M[k])
Rows == INSTANCE Replays WITH Start <- StartRows, Apply <- MutateRows

\* The replay of no mutation is the initial rows, and one more mutation changes what
\* those before it left.
LEMMA ReplayStep ==
    ASSUME NEW M
    PROVE  /\ Replay(M, 0) = InitialAuthorization
           /\ \A n \in Nat : Replay(M, n + 1) = Mutate(Replay(M, n), M[n + 1])
  <1>1. \A n : Replay(M, n) = Rows!Replayed(M)[n]
    BY DEF Replay, Rows!Replayed, StartRows, MutateRows
  <1> QED BY <1>1, Rows!ReplayStep DEF StartRows, MutateRows

\* The replay looks at no mutation beyond those it replays.
LEMMA ReplaySame ==
    ASSUME NEW M, NEW N, NEW n \in Nat, \A k \in 1..n : M[k] = N[k]
    PROVE  Replay(M, n) = Replay(N, n)
  <1>1. Replay(M, n) = Rows!Replayed(M)[n] /\ Replay(N, n) = Rows!Replayed(N)[n]
    BY DEF Replay, Rows!Replayed, StartRows, MutateRows
  <1>2. \A k \in 1..n : \A a : MutateRows(M, a, k) = MutateRows(N, a, k)
    BY DEF MutateRows
  <1>3. StartRows(M) = StartRows(N)
    BY DEF StartRows
  <1> QED BY <1>1, <1>2, <1>3, Rows!ReplaySame

-----------------------------------------------------------------------------
(* What the invariant adds to the checked properties.                      *)

\* A process in mid-operation works on a change that is in the journal.
WorkingOnRow ==
    \A p \in Procs : pc[p] \notin {"idle", "init"} =>
        cur[p] \in ChangeIds /\ journal[cur[p]].status # "none"

RowShape ==
    \A c \in ChangeIds : journal[c].status # "none" =>
        /\ journal[c].from >= 1
        /\ journal[c].target = journal[c].from + 1
        /\ journal[c].mutation \in Mutations
        /\ journal[c].status = "active" => journal[c].target \in 2..anchorGen
        /\ Pending(c) => journal[c].target = anchorGen + 1

OneRowPerTarget ==
    \A c, d \in ChangeIds :
        /\ journal[c].status # "none" /\ journal[d].status # "none"
        /\ journal[c].target = journal[d].target
        => c = d

NoGap ==
    \A g \in 2..anchorGen :
        \E c \in ChangeIds : journal[c].status = "active" /\ journal[c].target = g

MarkerAhead ==
    exec.gen # 0 =>
        \/ exec.gen = anchorGen
        \/ exec.gen = anchorGen + 1 /\ \E c \in ChangeIds : Pending(c) /\ Marks(c)

AppliedIsMarked ==
    \A c \in ChangeIds : journal[c].status = "applied" => Marks(c)

\* Evidence gathered under a generation that is still the one both databases
\* hold has not been overtaken by any change.
EvidenceHolds ==
    \A r \in Replicas : rpc[r] # "idle" =>
        /\ ev[r].gen <= anchorGen
        /\ exec.gen # 0
        /\ ev[r].gen = anchorGen /\ exec.gen = anchorGen =>
            /\ rpc[r] \in {"versions", "decided"} => ev[r].versions = auth.versions
            /\ rpc[r] = "decided" => ev[r].flag = auth.flag

IInv ==
    /\ TypeOK
    /\ WorkingOnRow
    /\ RowShape
    /\ OneRowPerTarget
    /\ NoGap
    /\ MarkerAhead
    /\ AppliedIsMarked
    /\ EvidenceHolds

-----------------------------------------------------------------------------

\* Mutating an authorization state yields an authorization state.
LEMMA MutateType ==
    ASSUME NEW a \in Authorization, NEW m \in Mutations
    PROVE  Mutate(a, m) \in Authorization
  <1>1. m \in Mutation
    BY MutationAssumption
  <1>2. CASE m.kind = "signing_key_rotation"
    BY <1>1, <1>2 DEF Authorization, Mutation, Kinds, Versions, Mutate, Bump
  <1>3. CASE m.kind # "signing_key_rotation"
    BY <1>1, <1>3 DEF Authorization, Mutation, Kinds, Versions, Mutate, Bump
  <1> QED BY <1>2, <1>3

\* The invariant holds when nothing is initialized.
LEMMA InitIInv == Init => IInv
  <1> SUFFICES ASSUME Init PROVE IInv
    OBVIOUS
  <1>1. InitialAuthorization \in Authorization
    BY DEF InitialAuthorization, Authorization, Versions
  <1>2. NoRow \in Row
    BY DEF NoRow, Row, Statuses
  <1>3. NoEvidence \in [gen : Nat, versions : Versions, flag : [Targets -> BOOLEAN]]
    BY DEF NoEvidence, Versions
  <1>4. TypeOK
    BY <1>1, <1>2, <1>3 DEF Init, TypeOK
  <1>5. \A c \in ChangeIds : journal[c].status = "none"
    BY DEF Init, NoRow
  <1> QED
    BY <1>4, <1>5 DEF Init, IInv, WorkingOnRow, RowShape, OneRowPerTarget, NoGap,
        MarkerAhead, AppliedIsMarked, EvidenceHolds

-----------------------------------------------------------------------------
(* Steps that leave both databases alone, and steps of replicas.           *)

\* Whatever a process does with its locals, as long as it keeps working on a
\* journalled change, the databases' part of the invariant is untouched.
LEMMA LocalStep ==
    ASSUME IInv, UNCHANGED <<anchorVars, execVars, evVars>>,
           pc' \in [Procs -> {"idle", "init", "inspect", "apply", "mark", "activate"}],
           cur' \in [Procs -> ChangeIds \cup {NoChange}],
           WorkingOnRow'
    PROVE  IInv'
  <1> USE DEF anchorVars, execVars, evVars
  <1>1. TypeOK'
    BY DEF IInv, TypeOK
  <1>2. RowShape' /\ OneRowPerTarget' /\ NoGap' /\ MarkerAhead' /\ AppliedIsMarked'
    BY DEF IInv, RowShape, OneRowPerTarget, NoGap, MarkerAhead, AppliedIsMarked, Pending, Marks
  <1>3. EvidenceHolds'
    BY DEF IInv, EvidenceHolds
  <1> QED BY <1>1, <1>2, <1>3 DEF IInv

\* Returning, raising or dying is such a step.
LEMMA LeaveStep ==
    ASSUME IInv, NEW p \in Procs, Leave(p), UNCHANGED <<anchorVars, execVars, evVars>>
    PROVE  IInv'
  <1>1. pc' \in [Procs -> {"idle", "init", "inspect", "apply", "mark", "activate"}]
    BY DEF IInv, TypeOK, Leave
  <1>2. cur' \in [Procs -> ChangeIds \cup {NoChange}]
    BY DEF IInv, TypeOK, Leave
  <1>3. WorkingOnRow'
    BY DEF IInv, TypeOK, WorkingOnRow, Leave, anchorVars
  <1> QED BY <1>1, <1>2, <1>3, LocalStep

\* So is moving on to the next step with the same change.
LEMMA GotoStep ==
    ASSUME IInv, NEW p \in Procs, NEW l \in {"apply", "mark", "activate"},
           pc[p] \notin {"idle", "init"},
           Goto(p, l), UNCHANGED <<anchorVars, execVars, evVars, cur>>
    PROVE  IInv'
  <1>1. pc' \in [Procs -> {"idle", "init", "inspect", "apply", "mark", "activate"}]
    BY DEF IInv, TypeOK, Goto
  <1>2. cur' \in [Procs -> ChangeIds \cup {NoChange}]
    BY DEF IInv, TypeOK
  <1>3. WorkingOnRow'
    BY DEF IInv, TypeOK, WorkingOnRow, Goto, anchorVars
  <1> QED BY <1>1, <1>2, <1>3, LocalStep

\* A replica that gathers or uses evidence changes only what it has read.
LEMMA ReplicaStep ==
    ASSUME IInv, NEW r \in Replicas,
           ReadGeneration(r) \/ ReadVersions(r) \/ ReadAuthorization(r) \/ UseEvidence(r)
    PROVE  IInv'
  <1> USE DEF anchorVars, execVars, procVars
  <1>1. UNCHANGED <<anchorVars, execVars, procVars>>
    BY DEF ReadGeneration, ReadVersions, ReadAuthorization, UseEvidence
  <1>2. /\ WorkingOnRow' /\ RowShape' /\ OneRowPerTarget' /\ NoGap'
        /\ MarkerAhead' /\ AppliedIsMarked'
    BY <1>1 DEF IInv, WorkingOnRow, RowShape, OneRowPerTarget, NoGap, MarkerAhead,
        AppliedIsMarked, Pending, Marks
  <1>3. NoEvidence \in [gen : Nat, versions : Versions, flag : [Targets -> BOOLEAN]]
    BY DEF NoEvidence, Versions
  <1>4. TypeOK' /\ EvidenceHolds'
    <2>1. CASE ReadGeneration(r)
      BY <1>1, <2>1 DEF IInv, TypeOK, EvidenceHolds, ReadGeneration, FenceOpen
    <2>2. CASE ReadVersions(r)
      <3>1. auth.versions \in Versions
        BY DEF IInv, TypeOK, Authorization
      <3>2. TypeOK'
        BY <1>1, <2>2, <3>1 DEF IInv, TypeOK, ReadVersions
      <3>3. EvidenceHolds'
        BY <1>1, <2>2, <3>1 DEF IInv, TypeOK, EvidenceHolds, ReadVersions
      <3> QED BY <3>2, <3>3
    <2>3. CASE ReadAuthorization(r)
      BY <1>1, <2>3 DEF IInv, TypeOK, EvidenceHolds, ReadAuthorization, Authorization
    <2>4. CASE UseEvidence(r)
      BY <1>1, <1>3, <2>4 DEF IInv, TypeOK, EvidenceHolds, UseEvidence
    <2> QED BY <2>1, <2>2, <2>3, <2>4
  <1> QED BY <1>2, <1>4 DEF IInv

-----------------------------------------------------------------------------
(* Steps that write one of the databases.                                  *)

\* Initialization of the anchor keeps the invariant.
LEMMA InitializeAnchorStep ==
    ASSUME IInv, NEW p \in Procs, InitializeAnchor(p)
    PROVE  IInv'
  <1> USE DEF InitializeAnchor, Goto, execVars, evVars
  <1>1. TypeOK' /\ WorkingOnRow'
    BY DEF IInv, TypeOK, WorkingOnRow
  <1>2. anchorGen \in {0, 1} /\ anchorGen' = 1 /\ UNCHANGED <<journal, exec, auth, rpc, ev>>
    OBVIOUS
  <1>3. \A c \in ChangeIds : anchorGen = 0 => journal[c].status = "none"
    BY <1>2 DEF IInv, TypeOK, RowShape, Row, Statuses, Pending
  <1>4. anchorGen = 0 => exec.gen = 0
    BY <1>2, <1>3 DEF IInv, TypeOK, MarkerAhead, Pending
  <1>5. RowShape' /\ OneRowPerTarget' /\ NoGap' /\ AppliedIsMarked'
    BY <1>2, <1>3 DEF IInv, TypeOK, RowShape, OneRowPerTarget, NoGap, AppliedIsMarked, Pending, Marks
  <1>6. MarkerAhead'
    BY <1>2, <1>4 DEF IInv, TypeOK, MarkerAhead, Pending, Marks
  <1>7. EvidenceHolds'
    BY <1>2, <1>4 DEF IInv, TypeOK, EvidenceHolds
  <1> QED BY <1>1, <1>5, <1>6, <1>7 DEF IInv

\* The first start writes the marker of the first generation.
LEMMA InitializeExecutionStep ==
    ASSUME IInv, NEW p \in Procs, InitializeExecution(p)
    PROVE  IInv'
  <1>1. CASE ~(exec.gen = 0 /\ anchorGen = 1)
    BY <1>1, LeaveStep DEF InitializeExecution, execVars
  <1>2. CASE exec.gen = 0 /\ anchorGen = 1
    <2> USE DEF InitializeExecution, Leave, anchorVars, evVars
    <2>1. /\ exec' = [gen |-> 1, change |-> NoChange, mutation |-> NoMutation]
          /\ UNCHANGED <<anchorGen, journal, auth, rpc, ev>>
      BY <1>2
    <2>2. TypeOK' /\ WorkingOnRow'
      BY <2>1 DEF IInv, TypeOK, WorkingOnRow
    <2>3. \A c \in ChangeIds : journal[c].status # "applied"
      BY <1>2 DEF IInv, TypeOK, RowShape, AppliedIsMarked, Marks, Row
    <2>4. RowShape' /\ OneRowPerTarget' /\ NoGap' /\ AppliedIsMarked'
      BY <2>1, <2>3 DEF IInv, RowShape, OneRowPerTarget, NoGap, AppliedIsMarked, Pending
    <2>5. MarkerAhead' /\ EvidenceHolds'
      BY <1>2, <2>1 DEF IInv, MarkerAhead, EvidenceHolds
    <2> QED BY <2>2, <2>4, <2>5 DEF IInv
  <1> QED BY <1>1, <1>2

\* A change is journalled when no other is pending, bound to the next generation.
LEMMA PrepareStep ==
    ASSUME IInv, NEW p \in Procs, NEW c \in ChangeIds, NEW m \in Mutations, Prepare(p, c, m)
    PROVE  IInv'
  <1> USE DEF execVars, evVars
  <1>1. CASE journal[c].status # "none" /\ UNCHANGED journal
    <2>1. pc' \in [Procs -> {"idle", "init", "inspect", "apply", "mark", "activate"}]
      BY DEF IInv, TypeOK, Prepare, Goto
    <2>2. cur' \in [Procs -> ChangeIds \cup {NoChange}]
      BY DEF IInv, TypeOK, Prepare
    <2>3. WorkingOnRow'
      BY <1>1 DEF IInv, TypeOK, WorkingOnRow, Prepare, Goto
    <2> QED BY <1>1, <2>1, <2>2, <2>3, LocalStep DEF Prepare, anchorVars
  <1>2. CASE journal[c].status = "none" /\ NonePending /\ anchorGen # 0
    <2> DEFINE row == [from |-> anchorGen, target |-> anchorGen + 1,
                       mutation |-> m, status |-> "prepared"]
    <2>1. journal' = [journal EXCEPT ![c] = row] /\ UNCHANGED <<anchorGen, exec, auth, rpc, ev>>
      BY <1>2 DEF Prepare
    <2>2. row \in Row
      BY DEF IInv, TypeOK, Row, Statuses
    <2>3. journal'[c] = row /\ \A d \in ChangeIds \ {c} : journal'[d] = journal[d]
      BY <2>1 DEF IInv, TypeOK
    <2>4. TypeOK'
      BY <2>1, <2>2 DEF IInv, TypeOK, Prepare, Goto
    <2>5. WorkingOnRow'
      BY <2>3 DEF IInv, TypeOK, WorkingOnRow, Prepare, Goto
    <2>6. \A d \in ChangeIds \ {c} : journal[d].status \in {"none", "active"}
      BY <1>2 DEF IInv, TypeOK, Row, Statuses, NonePending, Pending
    <2>7. RowShape'
      BY <1>2, <2>1, <2>3 DEF IInv, TypeOK, RowShape, Pending
    <2>8. OneRowPerTarget'
      <3>1. \A d \in ChangeIds \ {c} :
                journal[d].status # "none" => journal[d].target # anchorGen + 1
        BY <2>6 DEF IInv, TypeOK, RowShape
      <3> QED BY <2>3, <3>1 DEF IInv, OneRowPerTarget
    <2>9. NoGap'
      BY <1>2, <2>1, <2>3 DEF IInv, NoGap
    <2>10. MarkerAhead' /\ AppliedIsMarked'
      BY <1>2, <2>1, <2>3, <2>6 DEF IInv, MarkerAhead, AppliedIsMarked, Pending, Marks
    <2>11. EvidenceHolds'
      BY <2>1 DEF IInv, EvidenceHolds
    <2> QED BY <2>4, <2>5, <2>7, <2>8, <2>9, <2>10, <2>11 DEF IInv
  <1> QED BY <1>1, <1>2 DEF Prepare

\* Recovery takes up the pending change as the journal has it.
LEMMA RecoverPendingStep ==
    ASSUME IInv, NEW p \in Procs, NEW c \in ChangeIds, RecoverPending(p, c)
    PROVE  IInv'
  <1>1. pc' \in [Procs -> {"idle", "init", "inspect", "apply", "mark", "activate"}]
    BY DEF IInv, TypeOK, RecoverPending, Goto
  <1>2. cur' \in [Procs -> ChangeIds \cup {NoChange}]
    BY DEF IInv, TypeOK, RecoverPending
  <1>3. WorkingOnRow'
    BY DEF IInv, TypeOK, WorkingOnRow, RecoverPending, Goto, Pending, anchorVars
  <1> QED BY <1>1, <1>2, <1>3, LocalStep DEF RecoverPending

\* Recovery enters the steps of a commit where the marker says it stopped.
LEMMA RecoverInspectStep ==
    ASSUME IInv, NEW p \in Procs, RecoverInspect(p)
    PROVE  IInv'
  BY LeaveStep, GotoStep DEF RecoverInspect

\* The one write of the execution database's authorization rows: it can only
\* be the change in flight, one generation ahead, not yet marked applied.
LEMMA ApplyIsNext ==
    ASSUME IInv, NEW c \in ChangeIds, journal[c].status # "none", exec.gen = journal[c].from
    PROVE  /\ journal[c].status = "prepared"
           /\ exec.gen = anchorGen
           /\ journal[c].target = anchorGen + 1
           /\ \A d \in ChangeIds : journal[d].status # "applied"
  <1>1. journal[c].status \in {"prepared", "applied", "active"} /\ anchorGen \in Nat
    BY DEF IInv, TypeOK, Row, Statuses
  <1>2. exec.gen # 0 /\ (exec.gen = anchorGen \/ exec.gen = anchorGen + 1)
    BY DEF IInv, RowShape, MarkerAhead
  <1>3. journal[c].from \in Nat /\ journal[c].target = journal[c].from + 1
    BY DEF IInv, TypeOK, RowShape, Row
  <1>4. journal[c].status # "active"
    BY <1>1, <1>2, <1>3 DEF IInv, RowShape
  <1>5. journal[c].target = anchorGen + 1
    BY <1>1, <1>4 DEF IInv, RowShape, Pending
  <1>6. exec.gen = anchorGen
    BY <1>1, <1>2, <1>3, <1>5
  <1>7. ASSUME NEW d \in ChangeIds, journal[d].status = "applied" PROVE FALSE
    BY <1>1, <1>6, <1>7 DEF IInv, RowShape, AppliedIsMarked, Pending, Marks
  <1> QED BY <1>1, <1>4, <1>5, <1>6, <1>7

\* Rows and marker change together, from the generation the change was bound to.
LEMMA ApplyExecutionStep ==
    ASSUME IInv, NEW p \in Procs, ApplyExecution(p)
    PROVE  IInv'
  <1>1. PICK c \in ChangeIds : c = cur[p] /\ journal[c].status # "none" /\ pc[p] = "apply"
    BY DEF IInv, WorkingOnRow, ApplyExecution
  <1> DEFINE ch == journal[c]
  <1>2. CASE /\ exec.gen = ch.from
             /\ auth' = Mutate(auth, ch.mutation)
             /\ exec' = [gen |-> ch.target, change |-> c, mutation |-> ch.mutation]
             /\ Goto(p, "mark")
             /\ UNCHANGED cur
    <2>1. /\ ch.status = "prepared" /\ exec.gen = anchorGen /\ ch.target = anchorGen + 1
          /\ \A d \in ChangeIds : journal[d].status # "applied"
      BY <1>1, <1>2, ApplyIsNext
    <2>2. UNCHANGED <<anchorGen, journal, rpc, ev>>
      BY DEF ApplyExecution, anchorVars, evVars
    <2>3. ch.mutation \in Mutations
      BY <1>1 DEF IInv, RowShape
    <2>4. auth' \in Authorization
      BY <1>2, <2>3, MutateType DEF IInv, TypeOK
    <2>5. anchorGen \in Nat /\ ch.target \in Nat
      BY <2>1 DEF IInv, TypeOK
    <2>6. TypeOK'
      BY <1>1, <1>2, <2>2, <2>3, <2>4, <2>5 DEF IInv, TypeOK, Goto
    <2>7. WorkingOnRow'
      BY <1>1, <1>2, <2>2 DEF IInv, TypeOK, WorkingOnRow, Goto
    <2>8. RowShape' /\ OneRowPerTarget' /\ NoGap'
      BY <2>2 DEF IInv, RowShape, OneRowPerTarget, NoGap, Pending
    <2>9. Marks(c)' /\ Pending(c)' /\ exec'.gen = anchorGen' + 1
      BY <1>1, <1>2, <2>1, <2>2 DEF Marks, Pending
    <2>10. MarkerAhead' /\ AppliedIsMarked'
      BY <1>1, <2>1, <2>2, <2>9 DEF MarkerAhead, AppliedIsMarked
    <2>11. EvidenceHolds'
      BY <2>2, <2>5, <2>9 DEF IInv, EvidenceHolds
    <2> QED BY <2>6, <2>7, <2>8, <2>10, <2>11 DEF IInv
  <1>3. CASE Goto(p, "mark") /\ UNCHANGED <<execVars, cur>>
    BY <1>1, <1>3, GotoStep DEF ApplyExecution
  <1>4. CASE Leave(p) /\ UNCHANGED execVars
    BY <1>4, LeaveStep DEF ApplyExecution
  <1> QED BY <1>1, <1>2, <1>3, <1>4 DEF ApplyExecution

\* The journal says applied only of a change whose rows and marker are there.
LEMMA MarkAppliedStep ==
    ASSUME IInv, NEW p \in Procs, MarkApplied(p)
    PROVE  IInv'
  <1> USE DEF execVars, evVars
  <1>1. PICK c \in ChangeIds : c = cur[p] /\ journal[c].status # "none" /\ pc[p] = "mark"
    BY DEF IInv, WorkingOnRow, MarkApplied
  <1>2. CASE UNCHANGED journal
    BY <1>1, <1>2, LeaveStep, GotoStep DEF MarkApplied, anchorVars
  <1>3. CASE /\ journal[c].status = "prepared" /\ Marks(c)
             /\ journal' = [journal EXCEPT ![c].status = "applied"]
             /\ Goto(p, "activate")
             /\ UNCHANGED cur
    <2>1. UNCHANGED <<anchorGen, exec, auth, rpc, ev>>
      BY DEF MarkApplied
    <2>2. journal \in [ChangeIds -> Row] /\ journal[c] \in Row
      BY <1>1 DEF IInv, TypeOK
    <2>3. /\ journal'[c].status = "applied"
          /\ journal'[c].from = journal[c].from
          /\ journal'[c].target = journal[c].target
          /\ journal'[c].mutation = journal[c].mutation
          /\ \A d \in ChangeIds \ {c} : journal'[d] = journal[d]
      BY <1>1, <1>3, <2>2 DEF Row
    <2>4. journal' \in [ChangeIds -> Row]
      BY <1>1, <1>3, <2>2 DEF Row, Statuses
    <2>5. TypeOK'
      BY <1>3, <2>1, <2>4 DEF IInv, TypeOK, Goto
    <2>6. WorkingOnRow'
      BY <1>1, <1>3, <2>3 DEF IInv, TypeOK, WorkingOnRow, Goto
    <2>7. RowShape'
      BY <1>1, <1>3, <2>1, <2>3 DEF IInv, RowShape, Pending
    <2>8. OneRowPerTarget'
      BY <1>1, <2>3 DEF IInv, OneRowPerTarget
    <2>9. NoGap'
      BY <1>1, <1>3, <2>1, <2>3 DEF IInv, NoGap
    <2>10. Marks(c)' /\ Pending(c)'
      BY <1>1, <1>3, <2>1, <2>3 DEF Marks, Pending
    <2>11. MarkerAhead'
      BY <1>1, <1>3, <2>1, <2>3, <2>10 DEF IInv, MarkerAhead, Pending, Marks
    <2>12. AppliedIsMarked'
      BY <1>1, <2>1, <2>3, <2>10 DEF IInv, AppliedIsMarked, Marks
    <2>13. EvidenceHolds'
      BY <2>1 DEF IInv, EvidenceHolds
    <2> QED BY <2>5, <2>6, <2>7, <2>8, <2>9, <2>11, <2>12, <2>13 DEF IInv
  <1> QED BY <1>1, <1>2, <1>3 DEF MarkApplied

\* Activation moves the anchor to the generation the execution marker is at;
\* no other change can be in flight then.
LEMMA ActivateStep ==
    ASSUME IInv, NEW p \in Procs, Activate(p)
    PROVE  IInv'
  <1> USE DEF execVars, evVars
  <1>1. PICK c \in ChangeIds : c = cur[p] /\ journal[c].status # "none"
    BY DEF IInv, WorkingOnRow, Activate
  <1>2. CASE UNCHANGED anchorVars
    BY <1>2, LeaveStep DEF Activate
  <1>3. CASE /\ journal[c].status = "applied" /\ Marks(c) /\ anchorGen = journal[c].from
             /\ anchorGen' = journal[c].target
             /\ journal' = [journal EXCEPT ![c].status = "active"]
    <2>1. UNCHANGED <<exec, auth, rpc, ev>> /\ Leave(p)
      BY DEF Activate
    <2>2. journal \in [ChangeIds -> Row] /\ journal[c] \in Row /\ anchorGen \in Nat
      BY <1>1 DEF IInv, TypeOK
    <2>3. /\ journal'[c].status = "active"
          /\ journal'[c].from = journal[c].from
          /\ journal'[c].target = journal[c].target
          /\ journal'[c].mutation = journal[c].mutation
          /\ \A d \in ChangeIds \ {c} : journal'[d] = journal[d]
      BY <1>1, <1>3, <2>2 DEF Row
    <2>4. journal' \in [ChangeIds -> Row]
      BY <1>1, <1>3, <2>2 DEF Row, Statuses
    <2>5. journal[c].target = anchorGen + 1 /\ anchorGen >= 1 /\ anchorGen' = anchorGen + 1
      BY <1>1, <1>3 DEF IInv, RowShape
    <2>6. TypeOK'
      BY <2>1, <2>2, <2>4, <2>5 DEF IInv, TypeOK, Leave
    <2>7. WorkingOnRow'
      BY <1>1, <2>1, <2>3 DEF IInv, TypeOK, WorkingOnRow, Leave
    <2>8. \A d \in ChangeIds \ {c} : journal[d].status \in {"none", "active"}
      <3> SUFFICES ASSUME NEW d \in ChangeIds \ {c}, journal[d].status \notin {"none", "active"}
                   PROVE  FALSE
        OBVIOUS
      <3>1. Pending(d) /\ journal[d].status # "none"
        BY DEF IInv, TypeOK, Row, Statuses, Pending
      <3>2. journal[d].target = journal[c].target
        BY <2>5, <3>1 DEF IInv, RowShape
      <3> QED BY <1>1, <3>1, <3>2 DEF IInv, OneRowPerTarget
    <2>9. RowShape'
      <3>1. \A d \in ChangeIds \ {c} : journal'[d].status # "none" =>
                /\ journal'[d].from >= 1
                /\ journal'[d].target = journal'[d].from + 1
                /\ journal'[d].mutation \in Mutations
                /\ journal'[d].status = "active"
                /\ journal'[d].target \in 2..anchorGen'
        BY <2>2, <2>3, <2>5, <2>8 DEF IInv, RowShape, Row
      <3>2. /\ journal'[c].from >= 1
            /\ journal'[c].target = journal'[c].from + 1
            /\ journal'[c].mutation \in Mutations
            /\ journal'[c].target \in 2..anchorGen'
        BY <1>1, <2>2, <2>3, <2>5 DEF IInv, RowShape
      <3> QED BY <2>3, <3>1, <3>2 DEF RowShape, Pending
    <2>10. OneRowPerTarget'
      BY <1>1, <2>3 DEF IInv, OneRowPerTarget
    <2>11. NoGap'
      BY <1>1, <1>3, <2>2, <2>3, <2>5 DEF IInv, NoGap
    <2>12. exec'.gen = anchorGen'
      BY <1>3, <2>1 DEF Marks
    <2>13. MarkerAhead' /\ AppliedIsMarked'
      BY <2>3, <2>8, <2>12 DEF MarkerAhead, AppliedIsMarked
    <2>14. EvidenceHolds'
      BY <2>1, <2>2, <2>5 DEF IInv, TypeOK, EvidenceHolds
    <2> QED BY <2>6, <2>7, <2>9, <2>10, <2>11, <2>13, <2>14 DEF IInv
  <1> QED BY <1>1, <1>2, <1>3 DEF Activate

\* A process that dies loses what it knew and nothing else.
LEMMA CrashStep ==
    ASSUME IInv, NEW p \in Procs, Crash(p)
    PROVE  IInv'
  BY LeaveStep DEF Crash

\* Every step keeps the invariant.
LEMMA NextIInv == IInv /\ [Next]_vars => IInv'
  <1> SUFFICES ASSUME IInv, [Next]_vars PROVE IInv'
    OBVIOUS
  <1>1. CASE UNCHANGED vars
    <2>1. WorkingOnRow'
      BY <1>1 DEF vars, IInv, WorkingOnRow
    <2> QED BY <1>1, <2>1, LocalStep DEF vars, anchorVars, execVars, evVars, IInv, TypeOK
  <1>2. CASE Next
    BY <1>2, InitializeAnchorStep, InitializeExecutionStep, PrepareStep, RecoverPendingStep,
       RecoverInspectStep, ApplyExecutionStep, MarkAppliedStep, ActivateStep, CrashStep,
       ReplicaStep DEF Next, Step, Recover
  <1> QED BY <1>1, <1>2

\* The invariant holds in every state.
THEOREM Invariance == Spec => []IInv
  BY InitIInv, NextIInv, PTL DEF Spec

-----------------------------------------------------------------------------
(* The checked properties, for every value of the constants.               *)

\* Every variable keeps its type.
THEOREM TypeCorrect == Spec => []TypeOK
  <1>1. IInv => TypeOK
    BY DEF IInv
  <1> QED BY <1>1, Invariance, PTL

\* The journal is one gapless chain with at most one change in flight.
THEOREM ChainCorrect == Spec => []JournalChain
  <1>1. IInv => JournalChain
    BY DEF IInv, JournalChain, RowShape, OneRowPerTarget, NoGap, Pending
  <1> QED BY <1>1, Invariance, PTL

\* Recovery recognizes whatever state the crashes left.
THEOREM AlwaysRecognizable == Spec => []Recognizable
  <1>1. IInv => Recognizable
    BY DEF IInv, Recognizable, MarkerAhead, AppliedIsMarked
  <1> QED BY <1>1, Invariance, PTL

\* Accepted evidence is current when it is accepted.
THEOREM EvidenceIsCurrent == Spec => []EvidenceCurrent
  <1>1. IInv => EvidenceCurrent
    BY DEF IInv, EvidenceCurrent, EvidenceHolds, Accepts, FenceOpen
  <1> QED BY <1>1, Invariance, PTL

-----------------------------------------------------------------------------
(* Action properties.                                                      *)

\* What each step does to the execution database.
LEMMA ExecChanges ==
    ASSUME IInv, [Next]_vars
    PROVE  \/ UNCHANGED execVars
           \/ /\ exec.gen = 0 /\ exec'.gen = 1 /\ anchorGen = 1
              /\ UNCHANGED <<auth, anchorVars>>
           \/ /\ exec.gen # 0 /\ exec.gen = anchorGen /\ exec'.gen = exec.gen + 1
              /\ UNCHANGED anchorVars
              /\ \E c \in ChangeIds :
                    /\ journal[c].status = "prepared"
                    /\ exec'.change = c
                    /\ exec'.gen = journal[c].target
                    /\ Applicable(auth, journal[c].mutation)
                    /\ auth' = Mutate(auth, journal[c].mutation)
  <1>1. CASE UNCHANGED vars
    BY <1>1 DEF vars, execVars
  <1>2. ASSUME NEW p \in Procs, InitializeExecution(p)
        PROVE  \/ UNCHANGED execVars
               \/ /\ exec.gen = 0 /\ exec'.gen = 1 /\ anchorGen = 1
                  /\ UNCHANGED <<auth, anchorVars>>
    BY <1>2 DEF InitializeExecution, execVars
  <1>3. ASSUME NEW p \in Procs, ApplyExecution(p), ~UNCHANGED execVars
        PROVE  /\ exec.gen # 0 /\ exec.gen = anchorGen /\ exec'.gen = exec.gen + 1
               /\ UNCHANGED anchorVars
               /\ \E c \in ChangeIds :
                    /\ journal[c].status = "prepared"
                    /\ exec'.change = c
                    /\ exec'.gen = journal[c].target
                    /\ Applicable(auth, journal[c].mutation)
                    /\ auth' = Mutate(auth, journal[c].mutation)
    <2>1. PICK c \in ChangeIds : c = cur[p] /\ journal[c].status # "none"
      BY <1>3 DEF IInv, WorkingOnRow, ApplyExecution
    <2>2. /\ exec.gen = journal[c].from
          /\ Applicable(auth, journal[c].mutation)
          /\ auth' = Mutate(auth, journal[c].mutation)
          /\ exec' = [gen |-> journal[c].target, change |-> c, mutation |-> journal[c].mutation]
          /\ UNCHANGED anchorVars
      BY <1>3, <2>1 DEF ApplyExecution, execVars
    <2>3. /\ journal[c].status = "prepared"
          /\ exec.gen = anchorGen
          /\ journal[c].target = anchorGen + 1
      BY <2>1, <2>2, ApplyIsNext
    <2>4. exec.gen # 0
      BY <2>1, <2>2 DEF IInv, RowShape
    <2> QED BY <2>2, <2>3, <2>4
  <1>4. CASE Next /\ ~\E p \in Procs : InitializeExecution(p) \/ ApplyExecution(p)
    BY <1>4 DEF Next, Step, Recover, InitializeAnchor, Prepare, RecoverPending, RecoverInspect,
       MarkApplied, Activate, Crash, ReadGeneration, ReadVersions, ReadAuthorization, UseEvidence
  <1> QED BY <1>1, <1>2, <1>3, <1>4

\* The row prepare inserts.
Prepared(m) == [from |-> anchorGen, target |-> anchorGen + 1,
                mutation |-> m, status |-> "prepared"]

\* What each step does to the anchor database.
LEMMA AnchorChanges ==
    ASSUME IInv, [Next]_vars
    PROVE  \/ UNCHANGED anchorVars
           \/ /\ anchorGen \in {0, 1} /\ anchorGen' = 1 /\ UNCHANGED <<journal, exec, auth>>
           \/ /\ UNCHANGED <<anchorGen, exec, auth>> /\ anchorGen # 0 /\ NonePending
              /\ \E c \in ChangeIds :
                    /\ journal[c].status = "none"
                    /\ \E m \in Mutations : journal' = [journal EXCEPT ![c] = Prepared(m)]
           \/ /\ UNCHANGED <<anchorGen, exec, auth>>
              /\ \E c \in ChangeIds :
                    /\ journal[c].status = "prepared"
                    /\ journal' = [journal EXCEPT ![c].status = "applied"]
           \/ /\ UNCHANGED <<exec, auth>>
              /\ \E c \in ChangeIds :
                    /\ journal[c].status = "applied" /\ Marks(c)
                    /\ anchorGen = journal[c].from /\ anchorGen' = journal[c].target
                    /\ journal' = [journal EXCEPT ![c].status = "active"]
  <1> USE DEF anchorVars, execVars
  <1>1. CASE UNCHANGED vars
    BY <1>1 DEF vars
  <1>2. ASSUME NEW p \in Procs, InitializeAnchor(p)
        PROVE  anchorGen \in {0, 1} /\ anchorGen' = 1 /\ UNCHANGED <<journal, exec, auth>>
    BY <1>2 DEF InitializeAnchor
  <1>3. ASSUME NEW p \in Procs, NEW c \in ChangeIds, NEW m \in Mutations, Prepare(p, c, m),
               ~UNCHANGED anchorVars
        PROVE  /\ UNCHANGED <<anchorGen, exec, auth>> /\ anchorGen # 0 /\ NonePending
               /\ journal[c].status = "none"
               /\ journal' = [journal EXCEPT ![c] = Prepared(m)]
    BY <1>3 DEF Prepare, Prepared
  <1>4. ASSUME NEW p \in Procs, MarkApplied(p), ~UNCHANGED anchorVars
        PROVE  /\ UNCHANGED <<anchorGen, exec, auth>>
               /\ \E c \in ChangeIds :
                    /\ journal[c].status = "prepared"
                    /\ journal' = [journal EXCEPT ![c].status = "applied"]
    BY <1>4 DEF MarkApplied, IInv, WorkingOnRow
  <1>5. ASSUME NEW p \in Procs, Activate(p), ~UNCHANGED anchorVars
        PROVE  /\ UNCHANGED <<exec, auth>>
               /\ \E c \in ChangeIds :
                    /\ journal[c].status = "applied" /\ Marks(c)
                    /\ anchorGen = journal[c].from /\ anchorGen' = journal[c].target
                    /\ journal' = [journal EXCEPT ![c].status = "active"]
    BY <1>5 DEF Activate, IInv, WorkingOnRow
  <1>6. CASE UNCHANGED anchorVars
    BY <1>6
  <1>7. CASE Next /\ ~UNCHANGED anchorVars
    <2>1. \/ \E p \in Procs : InitializeAnchor(p) \/ MarkApplied(p) \/ Activate(p)
          \/ \E p \in Procs, c \in ChangeIds, m \in Mutations : Prepare(p, c, m)
      BY <1>7 DEF Next, Step, Recover, InitializeExecution, RecoverPending, RecoverInspect,
         ApplyExecution, Crash, ReadGeneration, ReadVersions, ReadAuthorization, UseEvidence
    <2> QED BY <1>2, <1>3, <1>4, <1>5, <1>7, <2>1
  <1> QED BY <1>1, <1>6, <1>7

\* No step takes a generation or a status back.
LEMMA ForwardSteps == IInv /\ [Next]_vars => ForwardStep
  <1> SUFFICES ASSUME IInv, [Next]_vars PROVE ForwardStep
    OBVIOUS
  <1>1. journal \in [ChangeIds -> Row] /\ anchorGen \in Nat /\ exec.gen \in Nat
    BY DEF IInv, TypeOK
  <1>2. exec'.gen \in {exec.gen, exec.gen + 1}
    BY <1>1, ExecChanges DEF execVars
  <1>3. anchorGen' \in {anchorGen, anchorGen + 1}
    <2>1. \A c \in ChangeIds : journal[c].status = "applied" =>
            journal[c].target = anchorGen + 1
      BY DEF IInv, RowShape, Pending
    <2> QED BY <1>1, <2>1, AnchorChanges DEF anchorVars
  <1>4. ASSUME NEW c \in ChangeIds PROVE NeverBack(c)
    <2>1. CASE UNCHANGED journal
      BY <1>1, <2>1 DEF NeverBack
    <2>2. ASSUME NEW d \in ChangeIds, journal[d].status = "none",
                 NEW m \in Mutations, journal' = [journal EXCEPT ![d] = Prepared(m)]
          PROVE  NeverBack(c)
      BY <1>1, <2>2 DEF NeverBack
    <2>3. ASSUME NEW d \in ChangeIds, journal[d].status = "prepared",
                 journal' = [journal EXCEPT ![d].status = "applied"]
          PROVE  NeverBack(c)
      BY <1>1, <2>3 DEF NeverBack, Row
    <2>4. ASSUME NEW d \in ChangeIds, journal[d].status = "applied",
                 journal' = [journal EXCEPT ![d].status = "active"]
          PROVE  NeverBack(c)
      BY <1>1, <2>4 DEF NeverBack, Row
    <2> QED BY <2>1, <2>2, <2>3, <2>4, AnchorChanges DEF anchorVars
  <1> QED BY <1>2, <1>3, <1>4 DEF ForwardStep

\* Generations and journal rows only move forward, in every step.
THEOREM ForwardCorrect == Spec => ForwardOnly
  <1>1. IInv /\ [Next]_vars => [ForwardStep]_vars
    BY ForwardSteps
  <1> QED BY <1>1, Invariance, PTL DEF Spec, ForwardOnly

\* Each mutation is applied in the step that moves the marker, and only then.
THEOREM AppliedOnceCorrect == Spec => AppliedOnce
  <1>1. IInv /\ [Next]_vars => [AppliedOnceStep]_vars
    <2> SUFFICES ASSUME IInv, [Next]_vars PROVE AppliedOnceStep
      OBVIOUS
    <2>1. exec.gen \in Nat
      BY DEF IInv, TypeOK
    <2> QED BY <2>1, ExecChanges DEF AppliedOnceStep, execVars
  <1> QED BY <1>1, Invariance, PTL DEF Spec, AppliedOnce

-----------------------------------------------------------------------------
(* The journal accounts for the authorization rows.                        *)

\* Up to the execution marker, every generation has its change.
LEMMA RowUpToMarker ==
    ASSUME IInv, NEW g \in 2..exec.gen
    PROVE  \E c \in ChangeIds : journal[c].status # "none" /\ journal[c].target = g
  <1>1. exec.gen \in Nat /\ anchorGen \in Nat
    BY DEF IInv, TypeOK
  <1>2. CASE g <= anchorGen
    BY <1>1, <1>2 DEF IInv, NoGap
  <1>3. CASE g > anchorGen
    <2>1. g = exec.gen /\ \E c \in ChangeIds : Pending(c) /\ Marks(c)
      BY <1>1, <1>3 DEF IInv, MarkerAhead
    <2> QED BY <2>1 DEF Pending, Marks
  <1> QED BY <1>1, <1>2, <1>3

\* A row that leads to a generation is the row the replay takes for it, and
\* stays so.
LEMMA RowStays ==
    ASSUME IInv, IInv', [Next]_vars, NEW c \in ChangeIds, journal[c].status # "none"
    PROVE  /\ ChangeTo(journal, journal[c].target) = c
           /\ ChangeTo(journal', journal[c].target) = c
           /\ journal'[c].mutation = journal[c].mutation
  <1>1. journal \in [ChangeIds -> Row]
    BY DEF IInv, TypeOK
  <1>2. journal'[c].status # "none"
    <2>1. CASE UNCHANGED journal
      BY <2>1
    <2>2. ASSUME NEW d \in ChangeIds, journal[d].status = "none",
                 NEW m \in Mutations, journal' = [journal EXCEPT ![d] = Prepared(m)]
          PROVE  journal'[c].status # "none"
      BY <1>1, <2>2
    <2>3. ASSUME NEW d \in ChangeIds, NEW s \in {"applied", "active"},
                 journal' = [journal EXCEPT ![d].status = s]
          PROVE  journal'[c].status # "none"
      BY <1>1, <2>3 DEF Row
    <2> QED BY <2>1, <2>2, <2>3, AnchorChanges DEF anchorVars
  <1>3. journal'[c].target = journal[c].target /\ journal'[c].mutation = journal[c].mutation
    BY ForwardSteps DEF ForwardStep, NeverBack
  <1>4. ChangeTo(journal, journal[c].target) = c
    BY DEF IInv, OneRowPerTarget, ChangeTo
  <1>5. ChangeTo(journal', journal[c].target) = c
    BY <1>2, <1>3 DEF IInv, OneRowPerTarget, ChangeTo
  <1> QED BY <1>3, <1>4, <1>5

\* A step that changes the rows applies the change that the journal has next.
LEMMA ReplaySteps == IInv /\ IInv' /\ JournalReplays /\ [Next]_vars => JournalReplays'
  <1> SUFFICES ASSUME IInv, IInv', JournalReplays, [Next]_vars PROVE JournalReplays'
    OBVIOUS
  <1> DEFINE M == [k \in 1..Marked |-> journal[ChangeTo(journal, k + 1)].mutation]
             N == [k \in 1..Marked' |-> journal'[ChangeTo(journal', k + 1)].mutation]
  <1>1. exec.gen \in Nat /\ exec'.gen \in Nat /\ Marked \in Nat /\ Marked' \in Nat
    <2>1. exec.gen \in Nat /\ exec'.gen \in Nat
      BY DEF IInv, TypeOK
    <2> QED BY <2>1 DEF Marked
  <1>2. ASSUME NEW k \in 1..Marked
        PROVE  journal'[ChangeTo(journal', k + 1)].mutation = journal[ChangeTo(journal, k + 1)].mutation
    <2>1. k + 1 \in 2..exec.gen
      BY <1>1 DEF Marked
    <2>2. PICK c \in ChangeIds : journal[c].status # "none" /\ journal[c].target = k + 1
      BY <2>1, RowUpToMarker
    <2>3. ChangeTo(journal, k + 1) = c /\ ChangeTo(journal', k + 1) = c
      BY <2>2, RowStays
    <2> QED BY <2>2, <2>3, RowStays
  <1>3. auth = Replay(M, Marked)
    BY DEF JournalReplays
  <1>4. Marked <= Marked' => Replay(N, Marked) = Replay(M, Marked)
    <2> SUFFICES ASSUME Marked <= Marked' PROVE Replay(N, Marked) = Replay(M, Marked)
      OBVIOUS
    <2>1. \A k \in 1..Marked : N[k] = M[k]
      BY <1>1, <1>2
    <2> HIDE DEF M, N
    <2> QED BY <1>1, <2>1, ReplaySame
  <1>5. CASE UNCHANGED auth /\ Marked' = Marked
    BY <1>1, <1>3, <1>4, <1>5 DEF JournalReplays
  <1>6. ASSUME NEW c \in ChangeIds, journal[c].status = "prepared", exec.gen # 0,
               exec'.gen = exec.gen + 1, exec'.gen = journal[c].target,
               auth' = Mutate(auth, journal[c].mutation)
        PROVE  JournalReplays'
    <2>1. Marked' = Marked + 1 /\ journal[c].target = Marked' + 1
      BY <1>1, <1>6 DEF Marked
    <2>2. journal'[ChangeTo(journal', Marked' + 1)].mutation = journal[c].mutation
      BY <1>6, <2>1, RowStays
    <2>3. N[Marked + 1] = journal[c].mutation
      BY <1>1, <2>1, <2>2
    <2>4. Replay(N, Marked + 1) = Mutate(Replay(N, Marked), N[Marked + 1])
      <3> HIDE DEF N
      <3> QED BY <1>1, ReplayStep
    <2>5. auth' = Replay(N, Marked')
      BY <1>1, <1>3, <1>4, <1>6, <2>1, <2>3, <2>4
    <2> QED BY <2>5 DEF JournalReplays
  <1> QED BY <1>1, <1>5, <1>6, ExecChanges DEF execVars, Marked

\* The authorization rows are at every moment the journal's changes up to the
\* execution marker, in generation order and each once.
THEOREM JournalReplaysCorrect == Spec => []JournalReplays
  <1>1. Init => JournalReplays
    BY ReplayStep DEF Init, JournalReplays, Marked
  <1> QED BY <1>1, ReplaySteps, Invariance, PTL DEF Spec

-----------------------------------------------------------------------------
(* The abstract specification.                                             *)

\* With one change in flight, activating it opens the fence.
LEMMA ActivationOpens ==
    ASSUME IInv, NEW c \in ChangeIds, journal[c].status = "applied",
           journal' = [journal EXCEPT ![c].status = "active"]
    PROVE  NonePending'
  <1> SUFFICES ASSUME NEW d \in ChangeIds, Pending(d)' PROVE FALSE
    BY DEF NonePending
  <1>1. journal \in [ChangeIds -> Row]
    BY DEF IInv, TypeOK
  <1>2. d # c /\ Pending(d) /\ journal[d].status # "none"
    BY <1>1 DEF Pending, Row
  <1>3. journal[d].target = journal[c].target
    BY <1>2 DEF IInv, RowShape, Pending
  <1> QED BY <1>2, <1>3 DEF IInv, OneRowPerTarget

\* Every step closes the fence, changes all at once, opens it, or does neither.
LEMMA ModeSteps ==
    ASSUME IInv, IInv', [Next]_vars
    PROVE  [Fenced!ANext]_<<Mode, exec.gen, auth>>
  <1> USE DEF Fenced!ANext, Fenced!Start, Fenced!Submit, Fenced!Change, Fenced!Open
  <1>1. journal \in [ChangeIds -> Row] /\ anchorGen \in Nat /\ exec.gen \in Nat
    BY DEF IInv, TypeOK
  <1>2. exec.gen # 0 => exec.gen = anchorGen \/ (exec.gen = anchorGen + 1 /\ ~NonePending)
    BY DEF IInv, MarkerAhead, NonePending
  <1>3. CASE UNCHANGED <<anchorVars, execVars>>
    BY <1>3 DEF Mode, NonePending, Pending, anchorVars, execVars
  <1>4. CASE /\ exec.gen = 0 /\ exec'.gen = 1 /\ anchorGen = 1
             /\ UNCHANGED <<auth, anchorVars>>
    <2>1. Mode = "down" /\ Mode' \in {"open", "submitted"}
      BY <1>4 DEF Mode, anchorVars
    <2> QED BY <1>4, <2>1
  <1>5. CASE /\ exec.gen # 0 /\ exec.gen = anchorGen /\ exec'.gen = exec.gen + 1
             /\ UNCHANGED anchorVars
             /\ \E c \in ChangeIds :
                    /\ journal[c].status = "prepared"
                    /\ Applicable(auth, journal[c].mutation)
                    /\ auth' = Mutate(auth, journal[c].mutation)
    <2>1. PICK c \in ChangeIds :
                    /\ journal[c].status = "prepared"
                    /\ Applicable(auth, journal[c].mutation)
                    /\ auth' = Mutate(auth, journal[c].mutation)
      BY <1>5
    <2>2. ~NonePending /\ ~NonePending'
      BY <1>5, <2>1 DEF NonePending, Pending, anchorVars
    <2>3. Mode = "submitted" /\ Mode' = "changed"
      BY <1>1, <1>5, <2>2 DEF Mode, anchorVars
    <2>4. journal[c].mutation \in Mutations
      BY <2>1 DEF IInv, RowShape
    <2> QED BY <1>5, <2>1, <2>3, <2>4 DEF Applicable, Mutate, Bump,
              Fenced!Applicable, Fenced!Mutate, Fenced!Bump
  <1>6. CASE UNCHANGED execVars /\ ~UNCHANGED anchorVars
    <2>1. CASE anchorGen \in {0, 1} /\ anchorGen' = 1 /\ UNCHANGED <<journal, exec, auth>>
      BY <1>1, <1>2, <2>1 DEF Mode, NonePending, Pending, IInv, RowShape
    <2>2. CASE /\ UNCHANGED <<anchorGen, exec, auth>> /\ NonePending
               /\ \E c \in ChangeIds, m \in Mutations :
                        journal' = [journal EXCEPT ![c] = Prepared(m)]
      <3>1. ~NonePending'
        BY <1>1, <2>2 DEF NonePending, Pending, Prepared
      <3> QED BY <1>2, <2>2, <3>1 DEF Mode
    <2>3. CASE /\ UNCHANGED <<anchorGen, exec, auth>>
               /\ \E c \in ChangeIds :
                    /\ journal[c].status = "prepared"
                    /\ journal' = [journal EXCEPT ![c].status = "applied"]
      <3>1. ~NonePending /\ ~NonePending'
        BY <1>1, <2>3 DEF NonePending, Pending, Row
      <3> QED BY <2>3, <3>1 DEF Mode
    <2>4. CASE /\ UNCHANGED <<exec, auth>>
               /\ \E c \in ChangeIds :
                    /\ journal[c].status = "applied" /\ Marks(c)
                    /\ anchorGen = journal[c].from /\ anchorGen' = journal[c].target
                    /\ journal' = [journal EXCEPT ![c].status = "active"]
      <3>1. PICK c \in ChangeIds :
                    /\ journal[c].status = "applied" /\ Marks(c)
                    /\ anchorGen = journal[c].from /\ anchorGen' = journal[c].target
                    /\ journal' = [journal EXCEPT ![c].status = "active"]
        BY <2>4
      <3>2. NonePending' /\ ~NonePending
        BY <3>1, ActivationOpens DEF NonePending, Pending
      <3>3. exec.gen # 0 /\ exec.gen # anchorGen
        BY <1>1, <3>1 DEF IInv, RowShape, Marks
      <3> QED BY <2>4, <3>2, <3>3 DEF Mode
    <2> QED BY <1>6, <2>1, <2>2, <2>3, <2>4, AnchorChanges
  <1> QED BY <1>3, <1>4, <1>5, <1>6, ExecChanges

\* The coordinator's four transactions per change implement one fenced change.
THEOREM Refinement == Spec => RefinesFencedChange
  <1>1. Init => Fenced!AInit
    BY DEF Init, Fenced!AInit, Mode, InitialAuthorization, Fenced!InitialAuthorization
  <1>2. IInv /\ IInv' /\ [Next]_vars => [Fenced!ANext]_(Fenced!avars)
    BY ModeSteps DEF Fenced!avars
  <1> QED BY <1>1, <1>2, Invariance, PTL DEF Spec, RefinesFencedChange, Fenced!ASpec
=============================================================================
