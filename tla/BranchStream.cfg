SPECIFICATION FairSpec
CONSTANTS
  Calls = {k1, k2}
  Streams = {s1, s2}
  k1 = k1
  k2 = k2
  s1 = s1
  s2 = s2
  NoStream = NoStream
  NoCall = NoCall
  NoResult = NoResult
  MaxFaults = 1
INVARIANTS AnswerIsOwn NoZombieFuture OneLoopPerCall CountUnlessRaced
PROPERTIES WaitingIsHeard CallsReturn HandlersEnd StreamIsReplaced ImplementsBranchCall
CHECK_DEADLOCK FALSE
