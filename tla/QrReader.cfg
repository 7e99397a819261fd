SPECIFICATION Spec
CONSTANTS
  Texts <- MCTexts
INVARIANTS
  ScannerReadsText
  BlocksAreCodewords
  ScannerReadsBits
  FunctionPatternsStand
  CheapestMaskWins
