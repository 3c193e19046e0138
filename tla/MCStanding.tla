----------------------------- MODULE MCStanding ------------------------------
(* Instances of Standing for TLC: the contracts a spec is frozen with. *)
EXTENDS Standing

Mech(severity) == [tier |-> "hard", severity |-> severity, threshold |-> FALSE,
                   text |-> "first"]
Soft(severity, threshold) == [tier |-> "soft", severity |-> severity, threshold |-> threshold,
                              text |-> "first"]

\* Specs with one kind of criterion.
SoftOnly == {[s |-> Soft("blocking", TRUE)]}
MechanicalOnly == {[h |-> Mech("unset")]}
OneKind == SoftOnly \cup MechanicalOnly

\* A re-freeze that drops or adds the mechanical criterion, and makes the soft
\* one advisory or blocking.
Departing == {[h |-> Mech("unset"), s |-> Soft("blocking", FALSE)],
              [s |-> Soft("advisory", FALSE)]}
=============================================================================
