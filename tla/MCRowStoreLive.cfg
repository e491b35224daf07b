\* Every lookup returns: two callers whose ids share a slot, one of them
\* twice; no observer of the counters and no symmetry, which liveness excludes.
CONSTANTS
  t1 = t1
  t2 = t2
  NoThread = NoThread
  Threads <- MCThreads
  Rows <- MCRows
  Table <- MCTable
  Blocks <- MCBlocks
  Zero = 0
  Stale = 20
  Works <- FewWorks
  Budgets <- MCBudgets
  Ranges <- MCRanges
  NumLocks = 2
  MaxCalls = 3
  MaxSnapshots = 0
SPECIFICATION FairSpec
PROPERTY LookupsReturn
