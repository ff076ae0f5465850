SPECIFICATION FairSpec
CONSTANTS
  p1 = p1
  p2 = p2
  NoItem = NoItem
  Pushers <- OnePusher
  RouteOf <- OneRoute
  NumWorkers = 1
  QueueCapacity = 1
  CounterModulus = 256
  TimedPush = FALSE
  QuiescentStop = TRUE
  AllowForce = FALSE
  MaxItems = 3
PROPERTIES PushReturns
