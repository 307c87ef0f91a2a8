\* Three groups, three requests known at a time, one overlap or clear.  The
\* clock can always tick: deadlock is checked.
SPECIFICATION Spec
CONSTANTS
  x = x
  c = c
  d = d
  w = w
  Element <- MCElement
  Info <- MCInfo
  Sentence <- MCSentence
  Intent <- MCIntent
  Skipping <- MCSkipping
  Filters <- MCFilters
  Watched <- MCWatched
  Conv = {c1, c2, c3}
  None = None
  MaxDepth = 2
  Delay = 1
  Timeout = 1
  Req = {1, 2, 3}
  MaxInFlight = 2
  MaxTroubles = 1
INVARIANT TypeOK
INVARIANT OneItemPerGroup
INVARIANT ForgottenInTime
INVARIANT SearchIsComplete
INVARIANT SentenceBeforeHistory
INVARIANT UsedIsRemembered
PROPERTY OnlyOwnTokensEnter
PROPERTY IdleIsDropped
