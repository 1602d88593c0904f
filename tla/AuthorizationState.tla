-------------------------- MODULE AuthorizationState --------------------------
(***************************************************************************)
(* The authorization rows of the execution database and the three typed    *)
(* mutations of them: ControlPlaneMutation and _apply_mutation_locked in   *)
(* aegis/effects/control_plane_recovery.py.                                *)
(*                                                                         *)
(* One synthetic authority and one tenant are modelled.  A target is the   *)
(* row a mutation addresses: a subject, the tenant's reset policy or an    *)
(* issuer; a flag is a subject's active bit or the policy's enabled bit.   *)
(***************************************************************************)
EXTENDS Naturals

CONSTANTS
    Targets,    \* names a mutation may address
    Known,      \* the targets whose rows exist in the execution database
    Mutations   \* the mutations callers may submit

Kinds == {"subject_active", "password_reset_enabled", "signing_key_rotation"}

Mutation == [kind : Kinds, target : Targets, on : BOOLEAN, epoch : Nat]

ASSUME MutationAssumption ==
    /\ Mutations \subseteq Mutation
    /\ Known \subseteq Targets

Versions == [policy : Nat, revocation : Nat]

Authorization == [flag : [Targets -> BOOLEAN], versions : Versions, keyEpoch : Nat]

InitialAuthorization ==
    [flag     |-> [t \in Targets |-> t \in Known],
     versions |-> [policy |-> 1, revocation |-> 1],
     keyEpoch |-> 1]

\* _apply_mutation_locked raises unless the addressed row exists and, for a
\* key rotation, the epoch grows.
Applicable(a, m) ==
    /\ m.target \in Known
    /\ m.kind = "signing_key_rotation" => m.epoch > a.keyEpoch

Bump(n, b) == IF b THEN n + 1 ELSE n

Mutate(a, m) ==
    [flag     |-> IF m.kind = "signing_key_rotation"
                  THEN a.flag ELSE [a.flag EXCEPT ![m.target] = m.on],
     versions |-> [policy     |-> Bump(a.versions.policy,
                                       m.kind = "password_reset_enabled"),
                   revocation |-> Bump(a.versions.revocation,
                                       m.kind = "subject_active")],
     keyEpoch |-> IF m.kind = "signing_key_rotation" THEN m.epoch ELSE a.keyEpoch]

\* The rows after the first n of the changes M, applied in order to the rows
\* that a new deployment starts with.
Replay(M, n) ==
    LET after[k \in Nat] ==
            IF k = 0 THEN InitialAuthorization ELSE Mutate(after[k - 1], M[k])
    IN  after[n]
=============================================================================
