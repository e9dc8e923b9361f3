\* Scaled down: a minimum of 3, a ceiling of 8, steps of 3 and 1, an hour of 12.
SPECIFICATION FairSpec
CONSTANTS
  MinHeart = 3
  MaxHeart = 9
  HeartStep = 3
  SuccessStep = 1
  MaxFailCount = 2
  BaseSuccCount = 2
  StableTestCount = 1
  OneWeek = 1
  NowSec = 1
  HardFloor = 2
  MaxPerHour = 2
  MaxConsecutiveFailures = 3
  JitterPcts <- FewJitters
  ActiveReadings <- IdleOnly
  Overruns <- SometimesLate
  OneHour = 12
  StartsWatched = 1
INVARIANTS TypeOK IntervalInRange LoopInv StoreHoldsLearned HourWithinCaps
PROPERTIES NoBeatAfterStop SleepEnds
