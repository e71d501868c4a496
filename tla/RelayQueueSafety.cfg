SPECIFICATION Spec
CONSTANTS
  s1 = s1  s2 = s2  s3 = s3
  r1 = r1  r2 = r2
  k1 = k1
  w1 = w1  w2 = w2
  NoKey = NoKey
  NoTask = NoTask
  Sends = {s1, s2, s3}
  Receivers = {r1}
  To <- TrioTo
  Keys = {k1}
  KeyOf <- TrioKeyOf
  Workers = {w1, w2}
  MaxAttempts = 2
  MaxBatch = 2
  Responses <- LaterResponses
SYMMETRY PairSymmetry
INVARIANTS
  TypeOK
  MessageAgreesWithTask
  IdempotentSend
PROPERTIES
  TerminalIsFinal
  AckIsFinal
  ImplementsLifecycle
