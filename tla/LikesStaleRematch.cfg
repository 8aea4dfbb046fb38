\* Two resolutions of the same pair race with an unmatch.
CONSTANTS
  ana = ana  bob = bob  a = a  b = b  b2 = b2  NoOwner = NoOwner  r1 = r1  r2 = r2
  Users = {ana, bob}
  Identities = {a, b}
  Rank <- AnaFirst
  InitialOwner <- OneEach
  Reqs = {r1, r2}
  Intents = {"OPEN"}
  ExpiryDays = {0}
  MaxTime = 0
  MaxLikes = 4
  MaxDeletes = 0
  MaxUnmatches = 2
  MaxBlocks = 0
  MaxClaims = 0
  MaxChanges = 0
  MaxRestarts = 0
SPECIFICATION Spec
INVARIANT UnmatchHolds
\* The bounded system may stop: the requests run out.
CHECK_DEADLOCK FALSE
