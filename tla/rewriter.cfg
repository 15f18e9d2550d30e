SPECIFICATION Spec
CONSTANTS
  Symbols <- AllSymbols
  Texts <- AllTexts
  MaxDepth = 2
  MaxTokens = 5
  MaxNumber = 5
  Signings = {TRUE, FALSE}
  PublicPath <- NoBase
INVARIANTS TypeOK InBounds SpliceSafe ScanExact OutputExact RoundTrip
PROPERTY Advances
