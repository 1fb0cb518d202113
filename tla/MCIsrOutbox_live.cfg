SPECIFICATION FairSpec
CONSTANTS
  o1 = o1
  o2 = o2
  home = home
  offer = offer
  arabicHome = arabicHome
  arabicOffer = arabicOffer
  ar = ar
  routesScope = routesScope
  translationKey = translationKey
  manualKey = manualKey
  Paths = {offer, arabicHome}
  Locales = {ar}
  NoLocale = NoLocale
  Tree <- MCTree
  Scopes = {routesScope}
  Offers = {}
  MaxPaths = 1
  MaxBytes = 1
  Ids = {r1, r2}
  Workers = {w1}
  Keys = {manualKey, translationKey}
  NoKey = NoKey
  DebouncedKeys = {translationKey}
  DelayedKeys = {}
  Writes <- MixedWrites
  OfferPaths = {offer}
  RoutesScope = routesScope
  ManualLimit = 2
  OtherError = OtherError
  ClientError = ClientError
  NoError = NoError
  Nobody = Nobody
  NoId = NoId
PROPERTIES
  RequirementsSurvive
  ManualRefreshEnds
  DeletionConverges
  EveryChangeIsHandedOver
