---------------------------- MODULE MCControlPlane ----------------------------
(* Instances of ControlPlane for TLC.                                      *)
EXTENDS ControlPlane, TLC

CONSTANTS p1, p2, r1, c1, c2, c3, alice, reset, ghost

\* Revocation, a policy change and two key rotations to the same epoch (the
\* second of them cannot be applied), and a subject that does not exist.
M(k, t, b, e) == [kind |-> k, target |-> t, on |-> b, epoch |-> e]

Revoke   == M("subject_active", alice, FALSE, 0)
Restore  == M("subject_active", alice, TRUE, 0)
NoReset  == M("password_reset_enabled", reset, FALSE, 0)
Rotate   == M("signing_key_rotation", reset, FALSE, 2)
Unknown  == M("subject_active", ghost, FALSE, 0)

MCMutations   == {Revoke, Restore, Rotate, Unknown}
=============================================================================
