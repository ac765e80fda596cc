SPECIFICATION FairSpec
CONSTANTS
  Txns = {t1, t2, t3}
  Handlers <- Bench
INVARIANT NoDeadlock
PROPERTY EveryTransactionEnds
