SPECIFICATION Spec
CONSTANTS
  Clients = {"a", "b", "c"}
  Capacity = 4
  Amounts = {1, 3}
INVARIANTS TypeOK
PROPERTIES AtomicBucket
