-------------------------- MODULE MCSessionExecute --------------------------
(* Instances of SessionExecute for TLC. *)
EXTENDS SessionExecute, TLC

CONSTANTS k1, k2

ThreadSymmetry == Permutations(Threads)

(* Empty, within the batch bound, repeated, with a bad key, too long. *)
KeyListChoices == {<<>>, <<k1, k2>>, <<k1, k1>>, <<k2, BadKey>>, <<k1, k2, k1>>}
=============================================================================
