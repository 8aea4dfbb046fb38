\* One request at a time, every operation.
CONSTANTS
  ana = ana  bob = bob  a = a  b = b  b2 = b2  NoOwner = NoOwner  r1 = r1  r2 = r2
  Users = {ana, bob}
  Identities = {a, b}
  Rank <- AnaFirst
  InitialOwner <- OneEach
  Reqs = {r1}
  Intents = {"OPEN", "CASUAL", "RELATIONSHIP"}
  ExpiryDays = {0, 1}
  MaxTime = 1
  MaxLikes = 4
  MaxDeletes = 1
  MaxUnmatches = 2
  MaxBlocks = 1
  MaxClaims = 0
  MaxChanges = 2
  MaxRestarts = 1
SPECIFICATION Spec
INVARIANTS TypeOK MatchedIffActive MatchIsMutual UnmatchHolds
\* The bounded system may stop: the requests run out.
CHECK_DEADLOCK FALSE
CONSTRAINT ChangesApart
