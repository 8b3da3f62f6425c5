CONSTANTS
  Capacity = 3
  Streams = {s1, s2}
  Consumers = {mtcp}
  NULL = null
SPECIFICATION FairSpec
INVARIANTS TypeOK RingInv NoNullDequeued NoOverwrite
PROPERTIES RefinesFifo Drains
