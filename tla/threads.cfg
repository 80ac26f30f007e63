SPECIFICATION FairSpec
CONSTANTS
  t1 = t1
  t2 = t2
  handler = handler
  Threads = {t1, t2}
  Handlers = {}
  Host <- NoHost
  Free = free
  Orphan = orphan
  MaxForks = 1
  QueueSize = 2
  ForkAnywhere = FALSE
INVARIANTS TypeOK NobodyStuck MutualExclusion LockOrder NoDescriptorLost DrainsOwnSocket RebindsAfterFork ConfiguredOnce
PROPERTIES CallsReturn CallsRunDown ImplementsProcessSocket
