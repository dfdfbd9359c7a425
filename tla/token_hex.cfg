\* GetHexStringFromBytes against a reference encoding, signed and unsigned char.
CONSTANTS
  Missing = Missing
  Files <- HexFiles
  Anchors <- HexAnchors
  Tails <- HexTails
  Overreads <- HexOverreads
  SigSeqs <- HexSigSeqs
  WINDOW <- MCWindow
  MaxCalls = 1
SPECIFICATION Spec
INVARIANT TokenIdIsHexOfSignature
