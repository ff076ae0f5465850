SPECIFICATION FairSpec
CONSTANTS
  p1 = p1
  p2 = p2
  NoItem = NoItem
  Pushers <- TwoPushers
  RouteOf <- MixedRoute
  NumWorkers = 2
  QueueCapacity = 1
  CounterModulus = 256
  TimedPush = TRUE
  QuiescentStop = TRUE
  AllowForce = TRUE
  MaxItems = 2
INVARIANTS NoItemDuplicated KeyOrder NoSilentDrop
PROPERTIES PushReturns
