\* Searches, watchlist runs and samples over two days, with the daily refresh.
SPECIFICATION Spec
CONSTANTS
  cafe = cafe
  bar = bar
  cafes = cafes
  bars = bars
  ann = ann
  r1 = r1
  r2 = r2
  w1 = w1
  None = None
  Businesses <- Shops
  Host <- HostOf
  Queries <- Trades
  Osm <- OsmLists
  Google <- GoogleLists
  Requests <- Slots
  People <- Everyone
  Lists <- AllLists
  Settings <- SearchSettings
  DiscoveryTTL = 2
  AuditTTL = 1
  SampleTTL = 1
  IndexTTL = 1
  WindowS = 0
  Day = 1
  BUCKETS = 2
  MAX_WATCHLISTS = 1
  FREE_PREVIEW_LEADS = 1
  MaxTime = 3
CHECK_DEADLOCK FALSE
INVARIANTS
  
  OneStoryADay
  NewOnce
