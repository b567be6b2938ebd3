\* Two requests at a time on up to three attempts.
SPECIFICATION Spec
CONSTANTS
  Questions = {q1}
  Requests = {r1, r2}
  MaxAttempts = 3
SYMMETRY Symmetry
CONSTRAINT FirstIsAnswered
INVARIANT ActiveAttemptsBounded
INVARIANT ResultIsOfAnswers
PROPERTY SettledStays
