\* A process with and one without the adapter; see MCImportHook.tla.
CONSTANTS
  launcher = launcher
  worker = worker
  Processes <- AllProcesses
  Enabled <- EnabledProcesses
  Ratios <- AllRatios
  MaxImports = 3
SPECIFICATION HookSpec
INVARIANTS HookTypeOK HooksApplied
\* A process may end when its imports have failed too often.
CHECK_DEADLOCK FALSE
