-------------------------- MODULE MCStreamManager --------------------------
(***************************************************************************)
(* StreamManager for TLC: connections, keys and tasks are interchangeable  *)
(* model values in the runs that check no liveness property.               *)
(***************************************************************************)
EXTENDS StreamManagerFanOut, TLC

Symmetry ==
    Permutations(Clients) \cup Permutations(Keys) \cup Permutations(Tasks)

=============================================================================
