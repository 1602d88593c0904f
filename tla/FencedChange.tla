----------------------------- MODULE FencedChange -----------------------------
(***************************************************************************)
(* What the control plane promises to whoever looks through its fence:     *)
(* authorization state changes one mutation at a time, each under a new    *)
(* generation, only while the fence is closed; the fence closes for one    *)
(* submitted change and reopens only after exactly that change was made.   *)
(***************************************************************************)
EXTENDS AuthorizationState

VARIABLES mode, gen, state

avars == <<mode, gen, state>>

AInit == mode = "down" /\ gen = 0 /\ state = InitialAuthorization

Start ==
    /\ mode = "down"
    /\ mode' \in {"open", "submitted"}
    /\ gen' = 1
    /\ UNCHANGED state

Submit == mode = "open" /\ mode' = "submitted" /\ UNCHANGED <<gen, state>>

Change ==
    /\ mode = "submitted"
    /\ mode' = "changed"
    /\ gen' = gen + 1
    /\ \E m \in Mutations : Applicable(state, m) /\ state' = Mutate(state, m)

Open == mode = "changed" /\ mode' = "open" /\ UNCHANGED <<gen, state>>

ANext == Start \/ Submit \/ Change \/ Open

ASpec == AInit /\ [][ANext]_avars
=============================================================================
