SPECIFICATION FairSpec
CONSTANTS
  t1 = t1
  t2 = t2
  Tasks <- TwoTasks
  Resubscribe = Resubscribe
  NoCommand = NoCommand
  PoolSize = 3
  Events = {}
PROPERTY RequestAnswered
