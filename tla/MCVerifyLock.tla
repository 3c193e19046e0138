---------------------------- MODULE MCVerifyLock ----------------------------
(* Instances of VerifyLock for TLC. *)
EXTENDS VerifyLock, TLC

\* Processes are interchangeable; used by the runs without liveness.
Symmetry == Permutations(Procs)
=============================================================================
