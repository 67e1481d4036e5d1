\* Transactions of up to three steps on grown and on hand-written tables.
SPECIFICATION Spec
CONSTANTS
  t = t
  a = a
  b = b
  padded = padded
  x = x
  y = y
  more = more
  null = null
  Names = {t}
  Spellings = {a, b, padded}
  Values = {x, y}
  NoId = NoId
  Trim <- Pad
  Class <- Pad
  Special <- Comparisons
  Files <- ByHand
  MaxSteps = 3
INVARIANTS FastPathAgreesWithScan IndexTracksRows IndexNamesItsRows
PROPERTY ImplementsMap
