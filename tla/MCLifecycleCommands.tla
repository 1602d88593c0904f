-------------------------- MODULE MCLifecycleCommands --------------------------
(* Instances of LifecycleCommands for TLC.                                 *)
EXTENDS LifecycleCommands, TLC

CONSTANTS m1, m2, s1, r1, b1, b2, w1, w2

\* One command of each operation, and a second migration.
MCOperation == [c \in Commands |->
    CASE c \in {m1, m2} -> "migration" [] c = s1 -> "snapshot" [] c = r1 -> "restore"]
=============================================================================
