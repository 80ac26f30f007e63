SPECIFICATION FairSpec
CONSTANTS
  t1 = t1
  t2 = t2
  handler = handler
  Threads = {t1, t2}
  Handlers = {}
  Host <- NoHost
  Free = free
  Orphan = orphan
  MaxForks = 0
  QueueSize = 2
  ForkAnywhere = FALSE
PROPERTY ReturnsImmediately
