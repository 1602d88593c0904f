----------------------------- MODULE ReviewedEffect ----------------------------
(***************************************************************************)
(* What the approval workflow promises of each request: it is decided once *)
(* by an eligible reviewer or lapses, a commitment to act follows only an  *)
(* approval that has not lapsed, and a commitment ends in one effect, made *)
(* while the requester is entitled to it, or in one final denial, made     *)
(* while the requester is not.                                             *)
(***************************************************************************)
CONSTANT Approvals

VARIABLES
    phase,
    open    \* open[a]: a's requester is entitled at this moment

RInit == phase = [a \in Approvals |-> "none"]

Move(a, from, to) == phase[a] = from /\ phase' = [phase EXCEPT ![a] = to]

Ask(a)     == Move(a, "none", "asked")
Approve(a) == Move(a, "asked", "approved")
Reject(a)  == Move(a, "asked", "rejected")
Lapse(a)   == Move(a, "asked", "lapsed") \/ Move(a, "approved", "lapsed")
Commit(a)  == Move(a, "approved", "committed")
Perform(a) == open[a] /\ Move(a, "committed", "performed")
Deny(a)    == ~open[a] /\ Move(a, "committed", "denied")

RNext ==
    \E a \in Approvals :
        Ask(a) \/ Approve(a) \/ Reject(a) \/ Lapse(a) \/ Commit(a) \/ Perform(a) \/ Deny(a)

RSpec == RInit /\ [][RNext]_phase
=============================================================================
