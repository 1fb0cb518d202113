SPECIFICATION Spec
CONSTANTS
  store1 = store1
  bank1 = bank1
  r1 = r1
  r2 = r2
  telegram1 = telegram1
  telegram2 = telegram2
  subscription1 = subscription1
  job1 = job1
  job2 = job2
  w1 = w1
  w2 = w2
  Entities = {store1, bank1}
  Kind <- KindOf
  Redirects = {r1, r2}
  Jobs = {job1, job2}
  Pages = {telegram1, telegram2, subscription1}
  PageKind <- PageKinds
  Routes = {"a", "b", "c", "d", "e", "s", "stores/a"}
  Reserved = {"s"}
  Slugs = {"a", "b", "d", "stores/a"}
  RouteOfSlug <- SlugRoutes
  Names = {"n", "m"}
  DealRoute <- DealPages
  Paths <- AllPaths
  Fold <- Folded
  External = "https"
  Templates = {"dealTemplate"}
  Default = "default"
  MaxHops = 2
  MaxActive = 4
  Absent = Absent
  Nobody = Nobody
  Writers = {w1, w2}
  Menu <- Requests
  PagePath <- PagePaths
  LegacyTables <- Contents
  Free = Free
  NoRequest = NoRequest
SYMMETRY Symmetry
CONSTRAINT FewDocuments
INVARIANTS
  NoRedirectLoop
  NoLockCycle
PROPERTIES
  NoNewClash
  AliasesFollowThePage
  SiteSpec
