--------------------------- MODULE MCImportHook ---------------------------
(* The launcher, which runs without the adapter, and a worker that runs    *)
(* with it; both modules imported, one of them again after a failure.      *)
EXTENDS ImportHook

CONSTANTS launcher, worker

AllProcesses == {launcher, worker}
EnabledProcesses == {worker}
AllRatios == {1, 4}
=============================================================================
