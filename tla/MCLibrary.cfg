CONSTANTS
  Elem = {e1, e2}
  Zero = Zero
  Garbage = Garbage
  InitialCounts <- MCInitialCounts
  MaxCount = 6
  Item = {i1, i2}
  VectorCounts <- MCInitialCounts
  MaxCapacity = 6
  Key = {k1, k2, k3}
  Value = {v1, v2}
  MapCounts <- MCMapCounts
  date = date
  server = server
  Option <- MCOption
  NameLen <- MCNameLen
  PhraseLen <- MCPhraseLen
  StatusCodes <- MCStatusCodes
  MaxLen = 1
  Block = {b1, b2, b3, b4, b5}
  Null = Null
  Base = 2
  Numbers <- MCNumbers
  Slack = 2
  MaxData = 4
  MaxResult = 9

SPECIFICATION LibrarySpec

INVARIANTS LibraryTypeOK NoStaleCell ResponseTypeOK ComposeFits OwnedOnce NothingElseIsLost
           NumberIsWritten OutputFits OutputIsWhole
PROPERTIES IsFifo IsList IsDictionary CompressEnds
