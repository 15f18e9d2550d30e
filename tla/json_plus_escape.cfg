SPECIFICATION Spec
CONSTANTS
  Symbols <- AllSymbols
  Texts <- StringTexts
  MaxDepth = 2
  MaxTokens = 5
  MaxNumber = 5
  Signings = {TRUE, FALSE}
  PublicPath <- NoBase
INVARIANT ValidatedJson
