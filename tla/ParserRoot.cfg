SPECIFICATION MCSpec
CONSTANTS
  Names <- MCNames
  MaxSymbols = 2
  MaxDepth = 5
  MaxExpr = 15
  MaxArgs = 4
  Iterations = 5
  Tolerance <- MCTolerance
  NewtonStep <- MCNewtonStep
  Uint = 8
  Cut <- MCCut
  Plugged <- MCPlugged
  MaxTyped = 5
INVARIANTS DocumentedRootFinder
