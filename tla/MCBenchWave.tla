---------------------------- MODULE MCBenchWave ----------------------------
(* A single stream, then two at once.                                      *)
EXTENDS BenchWave

MCWaves == <<1, 2>>
=============================================================================
