------------------------------ MODULE MCErsRing ------------------------------
(* TLC instances of ErsRing. *)
EXTENDS ErsRing, TLC

\* Callers differ only in what they do.
CallerSymmetry == Permutations(Caller)

=============================================================================
