--------------------------- MODULE MCClientSending ---------------------------
(* The threads that log are interchangeable. *)
EXTENDS ClientSending, TLC

MCSymmetry == Permutations(Threads)
==============================================================================
