SPECIFICATION RecordsSpec
CONSTANTS
  u1 = u1  u2 = u2
  p1 = p1  p2 = p2  p3 = p3
  k1 = k1  k2 = k2
  c1 = c1  c2 = c2
  m1 = m1  m2 = m2  m3 = m3
  NoUser = NoUser
  NoToken = NoToken
  NoMission = NoMission
  NoTask = NoTask
  Users = {u1, u2}
  Tokens = {p1, p2, p3}
  CloudCalls = {k1, k2}
  Commands = {c1, c2}
  Missions = {m1, m2, m3}
  Ids = {1, 2, 3}
  MaxClock = 2
SYMMETRY RecordSymmetry
CHECK_DEADLOCK FALSE
INVARIANTS
  RecordsTypeOK
  PresentsLiveToken
  OneTaskPerCommand
  AuditVerifies
