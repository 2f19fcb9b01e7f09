\* Three task identifiers compete for two places.
CONSTANTS
  k1 = k1
  k2 = k2
  k3 = k3
  a1 = a1
  a2 = a2
  Keys <- ThreeKeys
  Attributions <- TwoAttributions
  Capacity = 2
  MaxInsertions = 7
SPECIFICATION StoreSpec
INVARIANTS
  OrderBounded
PROPERTIES
  ImplementsOriginStore
