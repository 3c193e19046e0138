----------------------------- MODULE MCBaselines -----------------------------
(* Instances of Baselines for TLC: what the project's specs cover. *)
EXTENDS Baselines, TLC

Web(keys) == [keys |-> keys, native |-> FALSE]
Native(keys) == [keys |-> keys, native |-> TRUE]

\* Two web specs of one component; its native spec; then another component, which
\* resembles the first and resembles less the baseline that no spec ever covers.
Renamed == {<<Web(<<"a">>), Web(<<"a">>)>>, <<Native(<<"a">>)>>, <<Web(<<"c">>)>>}

Similar == [p \in Keys \X Keys |->
              CASE p \in {<<"a", "c">>, <<"c", "a">>} -> 2
                [] p \in {<<"b", "c">>, <<"c", "b">>} -> 1
                [] OTHER -> 0]

Symmetry == Permutations(Verifiers)
=============================================================================
