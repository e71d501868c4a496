SPECIFICATION Spec
CONSTANTS
  f1 = f1  f2 = f2
  h1 = h1  h2 = h2
  k1 = k1  k2 = k2  k3 = k3
  b1 = b1
  NoFile = NoFile  NoHash = NoHash  NoRun = NoRun
  Files = {f1, f2}
  Hashes = {h1, h2}
  Approves = {k1, k2}
  Rebinds = {b1}
  CallsFail = FALSE
  MayCrash = FALSE
INVARIANTS
  ApprovedBytesOnly
