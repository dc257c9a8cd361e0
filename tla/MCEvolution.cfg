CONSTANTS
  POPULATION = 5
  GENS = 2
  TEIG = 3
  SIMULATIONS = 2
  Score <- MCScore
  ISLANDS = 2
  PARALLEL = 2
  ITERATIONS_PER_CYCLE = 1
  Kinds <- MCKinds
  Sampling <- MCSampling
  FAULTS <- MCFaults
  MAX_CYCLES = 2
SPECIFICATION Spec
INVARIANTS FitnessIsCurrent IslandsDiverge UpdatesCountOnce NoIslandFallsBehind
PROPERTIES IterationEnds
CHECK_DEADLOCK FALSE
