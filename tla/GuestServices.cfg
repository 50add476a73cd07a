SPECIFICATION Spec
CONSTANTS
  Requests = {r1, r2}
  Stays = {s1, s2}
  Foreigners = {s1, s2}
  Keys = {k1}
  NoKey = NoKey
  MaxRows = 2
  Mixes <- MCMixes
SYMMETRY MCSymmetry
INVARIANTS OneJobPerKey CompletedWasDone StepsWereTaken GeneratedMeansCovered
CHECK_DEADLOCK FALSE
