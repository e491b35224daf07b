\* Two callers, no, one or three cache slots, both modes; see MCRowStore.tla.
CONSTANTS
  t1 = t1
  t2 = t2
  NoThread = NoThread
  Threads <- MCThreads
  Rows <- MCRows
  Table <- MCTable
  Blocks <- MCBlocks
  Zero = 0
  Stale = 20
  Works <- MCWorks
  Budgets <- MCBudgets
  Ranges <- MCRanges
  NumLocks = 2
  MaxCalls = 3
  MaxSnapshots = 1
SPECIFICATION Spec
SYMMETRY ThreadSymmetry
INVARIANTS TypeOK SlotExclusive CacheExact OutputExact CountersBalance SnapshotOrdered
PROPERTY ImplementsExactLookup
