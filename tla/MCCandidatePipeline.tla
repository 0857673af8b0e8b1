------------------------ MODULE MCCandidatePipeline ------------------------
(* Model values for the runs of CandidatePipeline. *)
EXTENDS CandidatePipeline, TLC

CONSTANTS k1, k2, k3, w1, w2, p1, p2

\* Keys, workers and peers are interchangeable; the liveness run and those that
\* check one worker do not use it.
Symmetry == Permutations(Keys) \cup Permutations(Workers) \cup Permutations(Peers)
=============================================================================
