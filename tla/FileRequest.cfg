SPECIFICATION FlowSpec
CONSTANTS
  c1 = c1
  m1 = m1
  a1 = a1  a2 = a2
  f1 = f1  f2 = f2
  v1 = v1
  r1 = r1  r2 = r2
  NoMission = NoMission
  NoTask = NoTask
  NoFile = NoFile
  NoVersion = NoVersion
  NoApproval = NoApproval
  Commands = {c1}
  Missions = {m1}
  Approvals = {a1, a2}
  Files = {f1, f2}
  Versions = {v1}
  Fetches = {r1, r2}
  RequestOf <- OneRequest
SYMMETRY FlowSymmetry
INVARIANTS
  FlowTypeOK
  OnlySelectedLeaves
  ReceiptIsHeld
PROPERTIES
  DecisionStands
  ImplementsHandover
