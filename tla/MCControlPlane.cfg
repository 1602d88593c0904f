SPECIFICATION FairSpec
CONSTANTS
  p1 = p1
  p2 = p2
  r1 = r1
  c1 = c1
  c2 = c2
  c3 = c3
  alice = alice
  reset = reset
  ghost = ghost
  NoChange = NoChange
  NoMutation = NoMutation
  Procs = {p1, p2}
  Reliable = {p2}
  Replicas = {r1}
  ChangeIds = {c1, c2}
  Targets = {alice, reset, ghost}
  Known = {alice, reset}
  Mutations <- MCMutations
INVARIANTS
    TypeOK
    Recognizable
    EvidenceCurrent
    JournalReplays
PROPERTIES
    ForwardOnly
    AppliedOnce
    RefinesFencedChange
    CompletableConverges
