SPECIFICATION FairSpec
CONSTANTS
  alice = alice
  reset = reset
  r1 = r1
  r2 = r2
  w1 = w1
  w2 = w2
  c1 = c1
  c2 = c2
  NoSubmission = NoSubmission
  NoRecord = NoRecord
  Targets = {alice, reset}
  Known = {alice, reset}
  Mutations <- MCMutations
  Records = {r1}
  Needs <- OneFlag
  Submissions <- Reversal
  Workers = {w1, w2}
  KeyEpochs = {1, 2}
  MaxGeneration = 3
  MaxRestores = 1
INVARIANTS
    TypeOK
    OneHistory
    WitnessFollows
    FencesAgree
PROPERTIES
    RowSettled
    RefinesGovernedHistory
    CheckpointConverges
