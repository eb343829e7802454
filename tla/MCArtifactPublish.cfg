SPECIFICATION FairSpec
CONSTANTS
  Writers = {w1, w2}
  Readers = {r1}
  Nothing = Nothing
  Original = Original
  Device = Device
  MaxOutages = 2
INVARIANTS
  PublishedWhole
  DurableOnceReturned
  OneNewWinner
PROPERTIES
  ReturnLeavesNoTemp
  CallsReturn
  ImplementsAtomicFile
CHECK_DEADLOCK FALSE
