\* Every number of indices up to three, every set of them that fails, and
\* limits of one, two and at least as many goroutines as indices.
SPECIFICATION FairSpec
CONSTANTS
  Concurrencies <- MCConcurrencies
  DefaultConcurrency = 16
  MaxTotal = 3
INVARIANTS TypeOK NilMeansAll NeverOwnCancellation NoIndexTwice
PROPERTY Returns
\* The loop is over once it has returned.
CHECK_DEADLOCK FALSE
