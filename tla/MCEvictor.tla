------------------------------ MODULE MCEvictor ------------------------------
(* Instances of Evictor for TLC: callers and idents are interchangeable. *)
EXTENDS Evictor

MCSymmetry == Permutations(Caller) \cup Permutations(Ident)
=============================================================================
