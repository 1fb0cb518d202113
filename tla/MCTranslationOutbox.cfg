SPECIFICATION FairSpec
CONSTANTS
  store = store
  coupon = coupon
  Docs = {store, coupon}
  Requires <- MCRequires
  Curates <- MCCurates
  Workers = {w1, w2}
  Texts = {1, 2}
  Human = Human
  NoText = NoText
  NoDoc = NoDoc
  NoJob = NoJob
  Nobody = Nobody
  Scenarios <- MCScenarios
  ReconcileLimit = 1
  MaxJobs = 8
  MaxEdits = 2
  MaxFaults = 1
INVARIANTS
  OnePendingPerKey
  NoWriteForgotten
  NoWakeStorm
PROPERTIES
  LocaleNeverRegresses
  OnlyTheLeaseSettles
  EveryWriteIsReflected
  EveryParentIsWoken
CHECK_DEADLOCK FALSE
