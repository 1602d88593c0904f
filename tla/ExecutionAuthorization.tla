------------------------ MODULE ExecutionAuthorization ------------------------
(***************************************************************************)
(* The server-owned authorization rows that are consulted just before an   *)
(* effect, the setters that change them, and the decision they yield:      *)
(* SyntheticAuthorizationStateStore in aegis/effects/revalidation.py.      *)
(*                                                                         *)
(* A request is what an approval binds: requester, tenant, action and the  *)
(* one argument that the decision reads, the resource.                     *)
(***************************************************************************)

CONSTANTS
    Users, Tenants, Roles,
    Resources,  \* pairs <<tenant, name>> that may have a row
    Owners,     \* user ids that may own a resource
    Nobody,     \* NULL in owner_user_id
    NoRole,     \* NULL in required_role
    Requests    \* what callers may ask for

Actions == {"request_access", "request_password_reset"}

ASSUME RequestAssumption ==
    /\ \A q \in Requests :
        /\ q.user \in Users
        /\ q.tenant \in Tenants
        /\ q.action \in Actions
    /\ Nobody \notin Users \cup Owners
    /\ NoRole \notin Roles

Subject  == [found : BOOLEAN, active : BOOLEAN, tenant : Tenants, roles : SUBSET Roles]
Resource == [found : BOOLEAN, enabled : BOOLEAN,
             owner : Owners \cup {Nobody}, role : Roles \cup {NoRole}]

\* A tenant without a policy row has password reset disabled.
Rows == [subject  : [Users -> Subject],
         resource : [Resources -> Resource],
         reset    : SUBSET Tenants]

\* The setters.  set_subject and set_resource write a whole row; ensure_* write
\* one only when there is none, the others one column of an existing row, so
\* what any of them does is one of these.
SetSubject(a, u, s) == [a EXCEPT !.subject[u] = s]

SetResource(a, k, v) == [a EXCEPT !.resource[k] = v]

SetPasswordResetEnabled(a, t, b) ==
    [a EXCEPT !.reset = IF b THEN a.reset \cup {t} ELSE a.reset \ {t}]

\* Mutant: the current role is not compared with the resource's.
ReasonAnyRole(a, q) ==
    LET s == a.subject[q.user]
        k == <<q.tenant, q.resource>>
        v == a.resource[k]
    IN  IF ~(s.found /\ s.active /\ s.tenant = q.tenant) THEN "subject_inactive"
        ELSE IF q.action = "request_password_reset"
        THEN IF q.tenant \in a.reset THEN "allowed" ELSE "password_reset_disabled"
        ELSE IF k \in Resources /\ v.found /\ v.enabled /\ v.owner \in {Nobody, q.user}
        THEN "allowed" ELSE "resource_disabled"

\* Mutant: membership of the bound tenant is not compared.
ReasonAnyTenant(a, q) ==
    LET s == a.subject[q.user]
    IN  IF s.found /\ s.active /\ (q.action = "request_access" \/ q.tenant \in a.reset)
        THEN "allowed" ELSE "subject_inactive"

\* The first reason that applies, in the order of _authorization_reason.
AuthorizationReason(a, q) ==
    LET s == a.subject[q.user]
        k == <<q.tenant, q.resource>>
        v == a.resource[k]
    IN  IF ~s.found THEN "subject_not_found"
        ELSE IF ~s.active THEN "subject_inactive"
        ELSE IF s.tenant # q.tenant THEN "tenant_membership_changed"
        ELSE IF q.action = "request_password_reset"
        THEN IF q.tenant \in a.reset THEN "allowed" ELSE "password_reset_disabled"
        ELSE IF k \notin Resources \/ ~v.found THEN "resource_not_found"
        ELSE IF ~v.enabled THEN "resource_disabled"
        ELSE IF v.owner \notin {Nobody, q.user} THEN "resource_owner_mismatch"
        ELSE IF v.role \notin {NoRole} \cup s.roles THEN "required_role_missing"
        ELSE "allowed"

\* What the execution-time check is for, said of the rows directly.
Entitled(a, q) ==
    /\ a.subject[q.user].found
    /\ a.subject[q.user].active
    /\ a.subject[q.user].tenant = q.tenant
    /\ q.action = "request_password_reset" => q.tenant \in a.reset
    /\ q.action = "request_access" =>
        \E k \in Resources :
            /\ k = <<q.tenant, q.resource>>
            /\ a.resource[k].found
            /\ a.resource[k].enabled
            /\ a.resource[k].owner \in {Nobody, q.user}
            /\ a.resource[k].role \in a.subject[q.user].roles \cup {NoRole}
=============================================================================
