CONSTANTS
  GcFile = {"f1", "f2", "f3"}
  Sizes = {1, 2}
  Ages = {1, 2, 3}
  Ttl = 3
  HighWatermark = 3
  LowWatermark = 2
  MaxTouched = 1
  Policies = {"Lru", "SmallestFirst", "TtlOnly"}
SPECIFICATION GcSpec
INVARIANT OnlyExpiredGo
