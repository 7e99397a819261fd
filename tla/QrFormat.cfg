SPECIFICATION Spec
CONSTANTS
  Texts <- MCTexts
INVARIANTS
  FormatCopiesAgree
