\* Three calls and replays in any mix, one stream; see MCEngramAdapter.tla.
CONSTANTS
  Rows <- MCRows
  Table <- MCTable
  Zero = 0
  Ranges <- MCRanges
  Junk = Junk
  Pending = Pending
  Raised = Raised
  Requests <- MCRequests
  Counts <- MCCounts
  Callback = Callback
  MaxCalls = 3
SPECIFICATION FairSpec
INVARIANTS OutputsExact OperationsFit
PROPERTIES CallsComplete ImplementsExactGather
