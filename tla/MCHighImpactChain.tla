-------------------------- MODULE MCHighImpactChain --------------------------
(* Instances of HighImpactChain for TLC.                                   *)
EXTENDS HighImpactChain, TLC

CONSTANTS alice, reset, r1, r2, w1, w2, c1, c2

M(k, t, b, e) == [kind |-> k, target |-> t, on |-> b, epoch |-> e]

Revoke == M("subject_active", alice, FALSE, 0)
Allow  == M("subject_active", alice, TRUE, 0)
Rotate == M("signing_key_rotation", reset, FALSE, 2)

MCMutations == {Revoke, Allow, Rotate}

\* A revocation and its reversal, in either order.
Reversal == {[id |-> c1, mutation |-> Revoke], [id |-> c2, mutation |-> Allow]}

Rotation == {[id |-> c1, mutation |-> Revoke], [id |-> c2, mutation |-> Rotate]}

OneFlag == [r \in Records |-> {alice}]

\* MaxGeneration is counted from 1, so two changes fit under 3.
=============================================================================
