SPECIFICATION Spec
CONSTANTS
  Sources <- MCSources
  RequestsFor <- MCRequestsFor
  LowerCase <- MCLowerCase
  Width <- MCWidth
  Mapped = 1
  Addresses <- MCAddresses
  Networks <- MCNetworks
  Urls <- MCUrls
  HostTexts <- MCHostTexts
  ByteOrder <- MCByteOrder
  TokenWords <- MCTokenWords
  ValidToken <- MCValidToken
INVARIANTS TypeOK Layered RefusalsExact RoutedExactly ClientsExact HopsRemoved ForwardedOwn LoginsRead TokensFound LogsRedacted
