SPECIFICATION Spec
CONSTANTS
  r1 = r1
  r2 = r2
  r3 = r3
  k1 = k1
  k2 = k2
  h1 = h1
  h2 = h2
  NoRequest = NoRequest
  NoKey = NoKey
  NoHash = NoHash
  Requests <- ThreeRequests
  Keys <- OneKey
  Hashes <- TwoHashes
  StoreMayFail = TRUE
  ProcessMayCrash = TRUE
SYMMETRY Symmetric
INVARIANTS
  TypeOK
  OneOwner
  AtMostOnce
  ReplayIsOriginal
PROPERTIES
  ImplementsClaim
CHECK_DEADLOCK FALSE
