SPECIFICATION FairSpec
CONSTANTS
  a1 = a1
  a2 = a2
  s1 = s1
  s2 = s2
  alice = alice
  bob = bob
  carol = carol
  here = here
  there = there
  ops = ops
  db = db
  Nobody = Nobody
  NoRole = NoRole
  NoRequest = NoRequest
  NoJob = NoJob
  Users = {alice}
  Owners = {bob}
  Tenants = {here, there}
  Roles = {}
  Resources = {}
  Requests <- ResetOnly
  Approvals = {a1}
  Sessions = {s1, s2}
  Reliable = {s1}
  Reviewers <- TwoReviewers
  InitialRows <- ResetRows
PROPERTIES
    ConsumedSettles
