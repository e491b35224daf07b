\* One launcher and one smoke command over two containers; see MCLauncher.tla.
CONSTANTS
  Launcher = "launcher"
  Commands <- MCCommands
  Checks = 2
  Missing = Missing
  Torn = Torn
  MaxRuns = 2
  MaxCommands = 1
SPECIFICATION FairSpec
INVARIANTS TypeOK ReceiptsWhole ReadyReceipts ServerStopped
PROPERTIES ServeDecides SignalEnds
