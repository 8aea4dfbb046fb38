\* Two requests at once: likes, a delete, an unmatch, and the claim of an identity.
CONSTANTS
  ana = ana  bob = bob  a = a  b = b  b2 = b2  NoOwner = NoOwner  r1 = r1  r2 = r2
  Users = {ana, bob}
  Identities = {a, b, b2}
  Rank <- AnaFirst
  InitialOwner <- B2Unowned
  Reqs = {r1, r2}
  Intents = {"OPEN"}
  ExpiryDays = {0}
  MaxTime = 0
  MaxLikes = 4
  MaxDeletes = 1
  MaxUnmatches = 1
  MaxBlocks = 0
  MaxClaims = 1
  MaxChanges = 1
  MaxRestarts = 0
SPECIFICATION Spec
SYMMETRY RequestSymmetry
INVARIANT OnlyLateLikesMissed
\* The bounded system may stop: the requests run out.
CHECK_DEADLOCK FALSE
CONSTRAINT FewOthers
