SPECIFICATION Spec
CONSTANTS
  Txns = {t1, t2}
  Handlers <- BenchAndResults
INVARIANT DocumentedOrder
