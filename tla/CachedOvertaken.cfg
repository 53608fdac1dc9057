\* As many reads stopped as it takes to overtake one under way.
SPECIFICATION Spec
CONSTANTS
  rA = rA
  rB = rB
  wA = wA
  key = key
  whole = whole
  range = range
  f1 = f1
  f2 = f2
  NoFlight = NoFlight
  Keys <- OneKey
  CacheKeys <- Whole
  KeyOf <- MCKeyOf
  Readers <- TwoReaders
  Writers <- OneWriter
  Flights <- TwoFlights
  MaxVersion = 1
  Size <- MCSize
  MaxBytes = 2
  Retries = 3
  MaxCancels = 3
  Unlimited = FALSE
  Outside = FALSE
SYMMETRY Symmetry
INVARIANT KeptIsCurrent
