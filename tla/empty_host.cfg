SPECIFICATION Spec
CONSTANTS
  Sources <- RouteSources
  RequestsFor <- MCRequestsFor
  LowerCase <- MCLowerCase
  Width <- MCWidth
  Mapped = 1
  Addresses <- MCAddresses
  Networks <- MCNetworks
  Urls <- MCUrls
  HostTexts <- MCHostTexts
  ByteOrder <- MCByteOrder
  TokenWords <- MCTokenWords
  ValidToken <- MCValidToken
INVARIANT PublicNamed
