\* Three tasks, two keys: a lock is dropped and made again while others wait.
SPECIFICATION FairSpec
CONSTANTS
  t1 = t1
  t2 = t2
  t3 = t3
  k1 = k1
  k2 = k2
  l1 = l1
  l2 = l2
  l3 = l3
  Tasks <- MCTasks
  Keys <- MCKeys
  Locks <- MCLocks
  NoTask = NoTask
  NoKey = NoKey
  NoLock = NoLock
INVARIANTS TypeOK MutualExclusion LockLivesWhileUsed
PROPERTIES MutexSpec EveryoneServed
CHECK_DEADLOCK TRUE
