SPECIFICATION FairSpec
CONSTANTS
  p1 = p1
  p2 = p2
  t1 = t1
  t2 = t2
  scanner = scanner
  Tok <- OneToken
  Client <- TwoClients
  Scanner = scanner
  Id = id
  Free = free
  Expire = 1
PROPERTY SignOutIsFinal
