\* Every window, answer and extent over small pages; see MCDirectRead.tla.
CONSTANTS
  Page = 8
  Word = 128
  Garbage = Garbage
  WeightBytes = 5
  ScaleBytes = 2
  FileSizes <- MCFileSizes
  Offsets <- MCOffsets
  RowCounts <- MCRowCounts
SPECIFICATION DirectSpec
INVARIANTS DirectTypeOK WindowLegal SliceExact ReadSatisfiable
