SPECIFICATION MCSpec
CONSTANTS
  Base = 4
  W16 = 2
  W32 = 3
  W128 = 2
  Magic <- MCMagic
  Space = 0
  NotUtf8 = 3
  Records <- MCRecords
  MaxDamaged = 24
  Items <- MCItems
  Hops = 3
  Metrics <- MCMetrics
  MaxCount = 7
  Zero = 4
  LastPlace = 7
INVARIANT RecordsExact
 
INVARIANT SeriesTrue
CHECK_DEADLOCK FALSE
