SPECIFICATION NativeSpec
CONSTANTS
  EntityBanks <- ScannedBanks
  Haystacks <- ShortTexts
  MaxMatches = 3
  NoCandidate = NoCandidate
  t1 = t1
  t2 = t2
  t3 = t3
  json = json
  yaml = yaml
  other = other
  bankA = bankA
  bankB = bankB
  Threads = {t1, t2, t3}
  Sources = {json, yaml, other}
  KeyOf <- MCKeyOf
  MaxEntries = 1
  MaxSourceKeys = 1
  MaxCalls = 4
  NoSource = NoSource
  Banks <- MCBanks
  Limit = 2
  MaxSearches = 1
  Nobody = Nobody
  Workloads <- MCWorkloads
INVARIANTS
  LayersAreExact
  CacheIsSound
  SearchesUseSoundCaches
PROPERTIES
  ImplementsLeftmostFirst
  CallsEnd
CHECK_DEADLOCK FALSE
