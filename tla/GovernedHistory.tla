---------------------------- MODULE GovernedHistory ----------------------------
(***************************************************************************)
(* What the default high-impact chain promises: there is one history of    *)
(* control-plane changes, it only grows, and an effect is recorded only    *)
(* while the history entitles its request.  Where the history is kept, how *)
(* it is recovered and what is restored from a backup does not show.       *)
(***************************************************************************)
EXTENDS AuthorizationState, Sequences

CONSTANTS
    Records,        \* outbox records, one bound request each
    Needs,          \* the flags a record's request needs to be on
    Submissions     \* changes administrators submit: an id and a mutation

VARIABLES history, effects

Entitled(a, r) == \A t \in Needs[r] : a.flag[t]

\* The authorization rows that a history of changes leads to.
AuthorizationAfter(h) == Replay([k \in 1..Len(h) |-> h[k].mutation], Len(h))

Init == history = <<>> /\ effects = {}

Extend ==
    /\ \E c \in Submissions : history' = Append(history, c)
    /\ UNCHANGED effects

Record(r) ==
    /\ Entitled(AuthorizationAfter(history), r)
    /\ effects' = effects \cup {[record |-> r, at |-> history]}
    /\ UNCHANGED history

Next == Extend \/ \E r \in Records : Record(r)

Spec == Init /\ [][Next]_<<history, effects>>
=============================================================================
