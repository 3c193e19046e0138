---------------------------- MODULE MCRunRecords -----------------------------
(* Instances of RunRecords for TLC. *)
EXTENDS RunRecords, TLC

CONSTANTS a, b   \* looks

\* A soft criterion that blocks, and one that a re-freeze makes advisory.
Blocking == <<TRUE>>
Demoted == <<TRUE, FALSE>>

\* One look is as good as another; no run has a liveness property.
Symmetric == Permutations(Looks)
=============================================================================
