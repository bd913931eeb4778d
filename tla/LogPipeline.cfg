\* Two producers, more chunks than ring slots: the ring wraps and fills, every
\* failure path and the shutdown can strike at any point, and the supervisor's
\* threads are scheduled fairly.
CONSTANTS
  Containers = {c1, c2}
  c1 = c1
  c2 = c2
  LOG_BUFFER_CAPACITY = 2
  PipeCapacity = 1
  MaxChunks = 2
  CallsMayFail = TRUE
  NoEntry = NoEntry
SPECIFICATION FairSpec
INVARIANTS TypeOK LogInOrder Accounted FlushedBeforeExit NoLostWakeup
PROPERTIES RingIsQueue OutputReachesLog ShutdownEndsConsumer ProducerEndsAtEof
