SPECIFICATION SpecD
CONSTANTS
  o1 = o1
  o2 = o2
  home = home
  offer = offer
  arabicHome = arabicHome
  arabicOffer = arabicOffer
  ar = ar
  routesScope = routesScope
  translationKey = translationKey
  manualKey = manualKey
  Paths = {arabicHome}
  Locales = {ar}
  NoLocale = NoLocale
  Tree <- MCTree
  Scopes = {}
  Offers = {}
  MaxPaths = 1
  MaxBytes = 1
  Ids = {r1, r2}
  Workers = {w1}
  Keys = {translationKey}
  NoKey = NoKey
  DebouncedKeys = {translationKey}
  DelayedKeys = {}
  Writes <- TranslationWrites
  OfferPaths = {}
  RoutesScope = routesScope
  ManualLimit = 1
  OtherError = OtherError
  ClientError = ClientError
  NoError = NoError
  Nobody = Nobody
  NoId = NoId
INVARIANTS
  NoLaterWriteSuppressed
