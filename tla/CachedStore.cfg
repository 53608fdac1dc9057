\* Reads and writes through the cache, another process writing the store, and
\* two reads stopped by their callers: too few to overtake one under way.
SPECIFICATION Spec
CONSTANTS
  rA = rA
  rB = rB
  wA = wA
  key = key
  whole = whole
  range = range
  f1 = f1
  f2 = f2
  NoFlight = NoFlight
  Keys <- OneKey
  CacheKeys <- WholeAndRange
  KeyOf <- MCKeyOf
  Readers <- TwoReaders
  Writers <- OneWriter
  Flights <- TwoFlights
  MaxVersion = 2
  Size <- MCSize
  MaxBytes = 2
  Retries = 3
  MaxCancels = 2
  Unlimited = FALSE
  Outside = TRUE
SYMMETRY Symmetry
INVARIANTS TypeOK KeptIsCurrent ReadsSeeWrites OneReadOfTheStore BytesAreHeld
