--------------------------- MODULE MCQuizAttempts ---------------------------
(* Instances of QuizAttempts for TLC.  Questions are alike, and requests   *)
(* are alike: both are symmetric in everything but liveness.               *)
EXTENDS QuizAttempts, TLC

Symmetry == Permutations(Questions) \cup Permutations(Requests)

(* What is answered has no influence on which attempts are started or     *)
(* settled: it is explored in the first attempt only.                     *)
FirstIsAnswered == \A a \in Attempts : a > 1 => answer[a] = NoAnswers

=============================================================================
