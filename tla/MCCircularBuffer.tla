-------------------------- MODULE MCCircularBuffer --------------------------
(* Symmetry of CircularBuffer: its elements are alike, and so are its      *)
(* producers.                                                              *)
EXTENDS CircularBuffer, TLC

Alike == Permutations(Elements) \cup Permutations(Producers)

=============================================================================
