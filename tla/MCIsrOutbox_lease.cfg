SPECIFICATION Spec
CONSTANTS
  o1 = o1
  o2 = o2
  home = home
  offer = offer
  arabicHome = arabicHome
  arabicOffer = arabicOffer
  ar = ar
  routesScope = routesScope
  translationKey = translationKey
  manualKey = manualKey
  Paths = {arabicHome, arabicOffer}
  Locales = {ar}
  NoLocale = NoLocale
  Tree <- MCTree
  Scopes = {}
  Offers = {o1, o2}
  MaxPaths = 1
  MaxBytes = 1
  Ids = {r1, r2}
  Workers = {w1, w2}
  Keys = {translationKey}
  NoKey = NoKey
  DebouncedKeys = {}
  DelayedKeys = {translationKey}
  Writes <- TranslationWrites
  OfferPaths = {}
  RoutesScope = routesScope
  ManualLimit = 1
  OtherError = OtherError
  ClientError = ClientError
  NoError = NoError
  Nobody = Nobody
  NoId = NoId
SYMMETRY Symmetry
INVARIANTS
  NothingForgotten
  StoredPayloadsParse
  OnePendingPerKey
  RetryCanMerge
PROPERTIES
  RequirementsSurvive
  SupersededIsCarried
  OnlyTheLeaseSettles
  ImplementsDelivery
