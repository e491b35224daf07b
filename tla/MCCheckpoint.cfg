\* Foreign writes while two files are verified, over two containers.
CONSTANTS
  Files <- MCFiles
  Blocks <- MCBlocks
  Contents <- MCContents
  Revisions <- MCRevisions
  Expected <- MCExpected
  Index = "index"
  Indexes <- MCIndexes
  None = None
  MaxWrites = 2
  MaxRuns = 2
SPECIFICATION Spec
INVARIANTS TypeOK ReceiptTrue
PROPERTY AcceptedExact
