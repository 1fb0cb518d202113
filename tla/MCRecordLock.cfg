SPECIFICATION Spec
CHECK_DEADLOCK FALSE
CONSTANTS
  alice = alice
  bob = bob
  aliceTab = aliceTab
  aliceReload = aliceReload
  bobTab = bobTab
  MaxClock = 3
  RowIds = {1, 2, 3}
  Leases = {aliceTab, aliceReload}
  Admins = {alice, bob}
  AdminOf <- MCAdminOf
  Calls = {k1, k2}
  LockTtl = 1
  MaxAttempts = 2
  NoRow = NoRow
  NoLease = NoLease
INVARIANTS
  NoOrphanLock
PROPERTIES
  ImplementsEditLease
SYMMETRY Symmetry
