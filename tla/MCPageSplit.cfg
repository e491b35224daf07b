\* Two calls over shared scratch buffers, a token rewritten in between.
CONSTANTS
  Primaries <- MCPrimaries
  Extras <- MCExtras
  NoCache = NoCache
  Pages <- MCPages
  PageSize <- MCPageSize
  Dst = 2
  Data = 2
  Scale = 1
  DstStride = 7
  Blank = Blank
  Indices <- MCIndices
  MaxWrites = 1
  MaxCalls = 2
SPECIFICATION Spec
INVARIANTS TypeOK ProgramsFit TokensExact
