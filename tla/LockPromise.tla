---------------------------- MODULE LockPromise ------------------------------
(***************************************************************************)
(* What the verify lock promises to those who take it, without files: a    *)
(* section that excludes as long as it is sound, and that becomes unsound  *)
(* only after some process is gone.  It is sound again at the latest       *)
(* when it has emptied.                                                    *)
(***************************************************************************)
EXTENDS TLAPS

CONSTANT Procs

VARIABLES
    inside,  \* the processes in the section
    killed,  \* the processes that are gone
    sound    \* the next to enter is alone

vars == <<inside, killed, sound>>

Alone(S) == \A p, q \in S : p = q

Init == inside = {} /\ killed = {} /\ sound = TRUE

Enter(p) ==
    /\ p \notin inside \cup killed
    /\ sound => inside = {}
    /\ inside' = inside \cup {p}
    /\ UNCHANGED <<killed, sound>>

\* Whoever goes, orderly or not, never makes the section unsound.
Goes(p) ==
    /\ inside' = inside \ {p}
    /\ sound => sound'
    /\ sound' => sound \/ Alone(inside')

Leave(p) ==
    /\ p \in inside
    /\ Goes(p)
    /\ UNCHANGED killed

Die(p) ==
    /\ p \notin killed
    /\ Goes(p)
    /\ killed' = killed \cup {p}

\* The price of stealing from the dead.
Disturb ==
    /\ killed # {}
    /\ sound' \in BOOLEAN
    /\ sound' => Alone(inside)
    /\ UNCHANGED <<inside, killed>>

Next == (\E p \in Procs : Enter(p) \/ Leave(p) \/ Die(p)) \/ Disturb

Spec == Init /\ [][Next]_vars

\* Exclusion, of a section that is sound.
Exclusive == sound => Alone(inside)

\* Nothing makes it unsound before a process is gone, by a kill or an exit.
SoundUntilKill == killed = {} => sound

(* The promise is worth having: a sound section holds one process at most, and *)
(* nothing takes the soundness away before a process is gone.                  *)
THEOREM PromiseExcludes == Spec => [](Exclusive /\ SoundUntilKill)
<1> DEFINE Inv == Exclusive /\ SoundUntilKill
<1> USE DEF Exclusive, SoundUntilKill, Alone
<1>1. Init => Inv
  BY DEF Init
<1>2. Inv /\ [Next]_vars => Inv'
  <2> SUFFICES ASSUME Inv, [Next]_vars PROVE Inv'
    OBVIOUS
  <2>1. ASSUME NEW p \in Procs, Enter(p) PROVE Inv'
    BY <2>1 DEF Enter
  <2>2. ASSUME NEW p \in Procs, Leave(p) PROVE Inv'
    BY <2>2 DEF Leave, Goes
  <2>3. ASSUME NEW p \in Procs, Die(p) PROVE Inv'
    BY <2>3 DEF Die, Goes
  <2>4. CASE Disturb
    BY <2>4 DEF Disturb
  <2>5. CASE UNCHANGED vars
    BY <2>5 DEF vars
  <2> QED
    BY <2>1, <2>2, <2>3, <2>4, <2>5 DEF Next
<1> QED
  BY <1>1, <1>2, PTL DEF Spec
=============================================================================
