SPECIFICATION Spec
CONSTANTS
  ann = ann
  bob = bob
  People = {ann, bob}
  Setups <- StoreSetups
INVARIANTS TypeOK CountedOnce StreamCounts Converges
PROPERTIES DeletedSticky ReadNeverBack
CHECK_DEADLOCK FALSE
