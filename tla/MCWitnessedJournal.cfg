SPECIFICATION Spec
CONSTANTS
    Migrations = {m1}
    Snapshots = {}
    Restores = {r1}
    Absent = Absent
    NoCall = NoCall
    MaxEvents = 2
    MaxCopies = 1
    MaxRestores = 1
INVARIANTS
    HistoryKept
    NoFalseAlarm
PROPERTIES
    RefinesAnsweredLedger
