\* Two calls in flight over two constraints, on a single worker thread
\* (the tightest pool).
CONSTANTS
  Constraints = {c1, c2}
  Calls = {k1, k2}
  Workers = 1
SPECIFICATION Spec
INVARIANTS CalledBackOnceAtEnd MaskOrError
PROPERTY Answered
