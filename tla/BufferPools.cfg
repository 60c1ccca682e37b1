SPECIFICATION Spec
CONSTANTS
  Thread = {t1, t2, t3}
  POOL_SIZE = 2
  GENERATIONS = 5
SYMMETRY Threads
INVARIANTS
  SlotsConserved
  WaitsBriefly

