SPECIFICATION Spec
CONSTANTS
  Elem = {a, b, c}
  Sizes = {1, 2, 3, 4}
  NULL = NULL
INVARIANT RingSound
PROPERTY RefinesFifo
