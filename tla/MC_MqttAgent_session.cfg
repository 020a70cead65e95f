SPECIFICATION Spec
CONSTANTS
  t1 = t1
  t2 = t2
  Tasks <- TwoTasks
  Resubscribe = Resubscribe
  NoCommand = NoCommand
  PoolSize = 2
  Events = {"connectionLost", "sendFails", "sessionLost"}
INVARIANT TypeOK
INVARIANT WaiterHasCommand
INVARIANT MutexHandedOver
PROPERTY SubscriptionsKept
CHECK_DEADLOCK FALSE
