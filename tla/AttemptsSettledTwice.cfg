SPECIFICATION Spec
CONSTANTS
  Questions = {q1}
  Requests = {r1, r2}
  MaxAttempts = 2
SYMMETRY Symmetry
PROPERTY SettledIsFinal
