SPECIFICATION FairSpec
CONSTANTS
  a = a
  b = b
  Player = {a, b}
  Caller = {a}
  Results <- MCResults
  Page = {0}
  PageSize = 1
  Req = {r1, r2}
  Nothing = Nothing
  CacheFails = TRUE
  Throws = TRUE
  Limit = 1
  ShareId = {i1}
INVARIANTS
  TypeOK
  ImprovementSweepsPages
  AtMostLimit
  ShareHasImage
PROPERTIES
  CacheConverges
  RefusedOnlyForAWhile
