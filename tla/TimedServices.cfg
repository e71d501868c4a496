SPECIFICATION TimedSpec
CONSTANTS
  t1 = t1  t2 = t2
  e1 = e1  e2 = e2
  s1 = s1  s2 = s2
  r1 = r1
  o1 = o1  o2 = o2  o3 = o3  o4 = o4
  h1 = h1  h2 = h2
  NoTransfer = NoTransfer
  NoOp = NoOp
  NoSession = NoSession
  Transfers = {t1, t2}
  Sweeps = {e1, e2}
  Sessions = {s1, s2}
  Ops = {o1, o2, o3, o4}
  TtlOf <- TimersOps
  Runs = {r1}
  CallOf <- RunsCall
  ProbeCommands = 1
  MaxIterations = 2
  Hearts = {h1, h2}
  OnlineFor = 1
  StaleFor = 2
  SweepTakes = 1
INVARIANTS
  TimedTypeOK
  NoDanglingTransfer
  OneOperationAtATime
PROPERTIES
  ExpiredIsFinal
  ReceiptCounts
  OverdueSettles
  EverySessionCloses
  EveryRunSettles
  AnswerIsFinal
  DisabledFadesOut
