--------------------------- MODULE MCDurableReview ---------------------------
(* Instances of DurableReview for TLC.                                     *)
EXTENDS DurableReview, TLC

CONSTANTS a1, a2, s1, s2, alice, bob, carol, here, there, ops, db

\* alice asks and is an approver herself, bob reviews, and carol is an approver
\* of the other tenant.
Principal(u, t, b) == [user |-> u, tenant |-> t, approver |-> b]

MCReviewers  == {Principal(alice, here, TRUE), Principal(bob, here, TRUE),
                 Principal(carol, there, TRUE)}
TwoReviewers == {Principal(bob, here, TRUE), Principal(carol, here, TRUE)}

Access == [user |-> alice, tenant |-> here, action |-> "request_access", resource |-> db]
Reset  == [user |-> alice, tenant |-> here, action |-> "request_password_reset",
           resource |-> Nobody]

AccessOnly == {Access}
ResetOnly  == {Reset}

OneResource == {<<here, db>>}

Seeded(t, rs, x, reset) ==
    [subject  |-> [u \in Users |-> [found |-> TRUE, active |-> TRUE, tenant |-> t, roles |-> rs]],
     resource |-> [k \in Resources |-> [found |-> TRUE, enabled |-> TRUE,
                                        owner |-> Nobody, role |-> x]],
     reset    |-> reset]

Symmetric == Permutations({s1, s2}) \cup Permutations({a1, a2})

MCRows == {Seeded(here, {ops}, ops, {here})}
ResetRows == {Seeded(here, {}, NoRole, {here})}
=============================================================================
