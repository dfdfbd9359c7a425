\* The 64-byte hash window of createtoken/CreateToken, scaled to 2 bytes.
CONSTANTS
  Missing = Missing
  Files <- WinFiles
  Anchors <- WinAnchors
  Tails <- WinTails
  Overreads <- WinOverreads
  SigSeqs <- WinSigSeqs
  WINDOW <- MCWindow
  MaxCalls = 2
SPECIFICATION Spec
INVARIANT CommitmentBinding
