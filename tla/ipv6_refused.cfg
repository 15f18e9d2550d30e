SPECIFICATION Spec
CONSTANTS
  Symbols <- AllSymbols
  Texts <- UrlTexts
  MaxDepth = 2
  MaxTokens = 5
  MaxNumber = 5
  Signings = {FALSE}
  PublicPath <- NoBase
INVARIANT DiscoveredAllowed
