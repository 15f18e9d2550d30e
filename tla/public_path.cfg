SPECIFICATION Spec
CONSTANTS
  Symbols <- AllSymbols
  Texts <- UrlTexts
  MaxDepth = 2
  MaxTokens = 5
  MaxNumber = 5
  Signings = {TRUE, FALSE}
  PublicPath <- Base
INVARIANT BaseServed
