SPECIFICATION Spec
CONSTANTS
  a1 = a1
  a2 = a2
  a3 = a3
  Addr = {a1, a2, a3}
  LocalAddr = {}
  NoPiece = NoPiece
  NumPieces = 2
  PieceLength = 3
  FileSize = 4
  OffsetRange = 256
  MaxIn = 1
  MaxOut = 2
  MaxRetries = 2
  EndGamePercent = 50
  FlakyStorage = FALSE
  Unreadable = {0}
  MaxEvents = 1
  MaxPayload = 1
SYMMETRY Symmetry
INVARIANTS TypeOK PendingMatches NoDuplicateRequest RequestsUnheld RequestServable CountsMatch OwnVerified PrefixWritten RequestKeptAlive ExpirySeen SilentDropped
PROPERTIES VerifiedForever NoBacktracking
