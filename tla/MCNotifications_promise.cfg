\* Two notifications, two texts, every kind of provider, a crash anywhere.
CONSTANTS
  Keys = {k1, k2}
  Texts = {t1, t2}
  Providers <- ProvidersMC
  MaxDelivery = 2
  MaxEpochs = 2
  MaxClaims = 2
SPECIFICATION Spec
INVARIANTS
  OneText
  RecoveredClean
PROPERTIES
  PromiseSpec
