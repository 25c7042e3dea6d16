----------------------------- MODULE MCLifetime -----------------------------
(***************************************************************************)
(* A system target that is copied and a home target that is linked.        *)
(* Processes and ids are interchangeable.                                  *)
(***************************************************************************)
EXTENDS Lifetime, TLC

CONSTANTS t1, t2
MCSymmetry == Permutations(Procs) \cup Permutations(Lifetimes)
=============================================================================
