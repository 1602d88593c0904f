----------------------------- MODULE AnsweredLedger ----------------------------
(***************************************************************************)
(* What the witnessed coordinator promises its callers: there is one       *)
(* ledger of commands and nobody can take it back.  A caller is given a    *)
(* command or a receipt only when the ledger has it, and the provider is   *)
(* never invoked for a command whose outcome is in the ledger.  Journal    *)
(* files, copies of them, the witness and crashes do not show.             *)
(***************************************************************************)
EXTENDS Integers, Sequences

CONSTANTS
    Commands,
    Absent      \* the outcome of a command that has none yet

VARIABLES
    ledger,     \* ledger[f]: command, expected anchor and outcome at fence f
    held,       \* commands returned to callers
    receipts,   \* receipts returned to callers
    invoked     \* invocations of the provider, by command

Init ==
    /\ ledger = <<>>
    /\ held = {} /\ receipts = {}
    /\ invoked = [c \in Commands |-> 0]

\* A fence keeps its command for ever, and a command its outcome.
Kept(row, later) ==
    /\ later.cmd = row.cmd /\ later.expected = row.expected
    /\ row.after # Absent => later.after = row.after

\* The ledger may only grow, and no command gets a second fence.
Grow ==
    /\ Len(ledger) <= Len(ledger')
    /\ \A f \in DOMAIN ledger : Kept(ledger[f], ledger'[f])
    /\ \A f, g \in DOMAIN ledger' : ledger'[f].cmd = ledger'[g].cmd => f = g

Record ==
    Grow /\ UNCHANGED <<held, receipts, invoked>>

ReturnCommand(f) ==
    /\ Grow
    /\ held' = held \cup {[cmd |-> ledger'[f].cmd, fence |-> f, expected |-> ledger'[f].expected]}
    /\ UNCHANGED <<receipts, invoked>>

ReturnReceipt(f) ==
    /\ Grow
    /\ ledger'[f].after # Absent
    /\ receipts' = receipts \cup {[cmd |-> ledger'[f].cmd, fence |-> f, after |-> ledger'[f].after]}
    /\ UNCHANGED <<held, invoked>>

Invoke(c) ==
    /\ \A f \in DOMAIN ledger : ledger[f].cmd = c => ledger[f].after = Absent
    /\ invoked' = [invoked EXCEPT ![c] = @ + 1]
    /\ UNCHANGED <<ledger, held, receipts>>

Next ==
    \/ Record
    \/ \E f \in DOMAIN ledger' : ReturnCommand(f) \/ ReturnReceipt(f)
    \/ \E c \in Commands : Invoke(c)

Spec == Init /\ [][Next]_<<ledger, held, receipts, invoked>>
=============================================================================
