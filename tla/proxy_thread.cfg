SPECIFICATION FairSpec
CONSTANTS
  Hosts = {h1, h2}
  MaxRequests = 3
  MaxReplies = 2
  MaxRepeats = 2
INVARIANTS
  TypeOK
  CacheStale
  AnswersMatch
  SentInOrder
PROPERTIES
  ReachesItsHost
  PolledInOrder
  EachPolled
CHECK_DEADLOCK FALSE
