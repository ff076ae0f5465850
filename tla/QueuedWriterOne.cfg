SPECIFICATION FairSpec
CONSTANTS
  p1 = p1
  p2 = p2
  NoItem = NoItem
  Pushers <- OnePusher
  RouteOf <- OneRoute
  NumWorkers = 2
  QueueCapacity = 2
  CounterModulus = 256
  TimedPush = FALSE
  QuiescentStop = TRUE
  AllowForce = TRUE
  MaxItems = 4
INVARIANTS NoItemLost StopDrains CounterAccounts
PROPERTIES StopReturns ItemsReachWorkers
