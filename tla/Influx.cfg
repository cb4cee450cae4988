SPECIFICATION SignalSpec
CHECK_DEADLOCK FALSE
CONSTANTS
  Writers = {scraper, hook}
  BufferSize = 2
  Configs = {"off", "on", "broken"}
  MaxPoints = 4
  MaxReconfigs = 3
INVARIANTS
  TypeOK
  Conservation
  KeepsNewest
  DeliveredInOrder
  DepthAccounted
  NeverClamped
PROPERTIES
  FullBufferFlushed
  EveryPointLeaves
