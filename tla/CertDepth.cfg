CONSTANTS
  None = None
  Offline = Offline
  url = url
  responderUrl = responderUrl
  rootKey = rootKey
  interKey = interKey
  oldKey = oldKey
  leafKey = leafKey
  Cert <- MCCert
  Url <- MCUrl
  Authority <- MCAuthority
  Configs <- MCConfigs
  Hellos <- MCHellos
  MaxListed = 1
SPECIFICATION Spec
CHECK_DEADLOCK FALSE
INVARIANT RefusedWithinDepth
