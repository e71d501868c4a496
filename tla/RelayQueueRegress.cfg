SPECIFICATION Spec
CONSTANTS
  s1 = s1  s2 = s2  s3 = s3
  r1 = r1  r2 = r2
  k1 = k1
  w1 = w1  w2 = w2
  NoKey = NoKey
  NoTask = NoTask
  Sends = {s1, s2}
  Receivers = {r1}
  To <- PairTo
  Keys = {k1}
  KeyOf <- PairKeyOf
  Workers = {w1, w2}
  MaxAttempts = 2
  MaxBatch = 1
  Responses <- LaterResponses
PROPERTIES
  RepeatedAckKeepsProgress
