SPECIFICATION DeliverySpec
CONSTANTS
  s1 = s1  s2 = s2
  r1 = r1
  p1 = p1  p2 = p2
  w1 = w1  w2 = w2
  NoKey = NoKey
  NoTask = NoTask
  NoWorker = NoWorker
  Sends = {s1}
  Receivers = {r1}
  To <- ToOne
  Keys = {}
  KeyOf <- Unkeyed
  Workers = {w1, w2}
  MaxAttempts = 2
  MaxBatch = 1
  Responses <- AgentResponses
  Polls = {p1, p2}
  Owner <- OneOwner
  ChatTasks = {s1}
INVARIANTS
  WrittenBeforeAck
