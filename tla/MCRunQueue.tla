---------------------------- MODULE MCRunQueue ----------------------------
(* Model values and symmetry for model-checking RunQueue. *)
EXTENDS RunQueue, TLC

\* Sound for safety: handlers, workers and the users other than the requester
\* are interchangeable.
Symmetry ==
    Permutations(Handlers) \cup Permutations(Workers)
      \cup Permutations(Users \ {Requester})
=============================================================================
