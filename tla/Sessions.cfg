SPECIFICATION FairSpec
CONSTANTS
  p1 = p1
  p2 = p2
  t1 = t1
  t2 = t2
  scanner = scanner
  Tok <- TwoTokens
  Client <- TwoClients
  Scanner = scanner
  Id = id
  Free = free
  Expire = 1
INVARIANTS TypeOK ListedAreSessions SessionsAreListed
PROPERTIES ResetEndsSessions IdleSessionsEnd
