SPECIFICATION Spec
CONSTANTS
  a1 = a1
  a2 = a2
  s1 = s1
  s2 = s2
  alice = alice
  bob = bob
  carol = carol
  here = here
  there = there
  ops = ops
  db = db
  Nobody = Nobody
  NoRole = NoRole
  NoRequest = NoRequest
  NoJob = NoJob
  Users = {alice}
  Owners = {bob}
  Tenants = {here}
  Roles = {ops}
  Resources <- OneResource
  Requests <- AccessOnly
  Approvals = {a1}
  Sessions = {s1, s2}
  Reliable = {}
  Reviewers <- MCReviewers
  InitialRows <- MCRows
SYMMETRY Symmetric
INVARIANTS
    DecidedByOther
    OutcomeAgrees
    OneBoundEffect
    OutboxTruthful
PROPERTIES
    EntitledAtEffect
    RefinesReviewedEffect
