\* A wave of one stream and a wave of two; see MCBenchWave.tla.
CONSTANTS
  Waves <- MCWaves
  MaxTime = 2
  MaxEvents = 3
  MaxTokens = 2
  None = None
SPECIFICATION Spec
INVARIANTS SharedExact OverlapExact
