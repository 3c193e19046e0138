-------------------------- MODULE VerifyLockProofs --------------------------
(***************************************************************************)
(* What the verify lock guarantees for every number of processes, of kills *)
(* and of retries, with and without link(2).                               *)
(***************************************************************************)
EXTENDS VerifyLock, TLAPS

(* The file, sideways copies, locations, bytes, waits and kills keep their shape. *)
THEOREM TypeCorrect == Spec => []TypeOK
<1>1. Init => TypeOK
  BY ConstantsAssumption DEF Init, TypeOK, Maybe, Location
<1>2. TypeOK /\ [Next]_vars => TypeOK'
  <2> SUFFICES ASSUME TypeOK, [Next]_vars PROVE TypeOK'
    OBVIOUS
  <2> USE DEF TypeOK, Maybe, Location, Goto, At
  <2>1. ASSUME NEW p \in Procs, Start(p) PROVE TypeOK'
    BY <2>1 DEF Start
  <2>2. ASSUME NEW p \in Procs, TryCreate(p) PROVE TypeOK'
    BY <2>2, ConstantsAssumption DEF TryCreate, LockFile
  <2>3. ASSUME NEW p \in Procs, TryCreateExists(p) PROVE TypeOK'
    BY <2>3 DEF TryCreateExists
  <2>4. ASSUME NEW p \in Procs, WriteContents(p) PROVE TypeOK'
    BY <2>4 DEF WriteContents, Filled, LockFile
  <2>5. ASSUME NEW p \in Procs, ReadHolder(p) PROVE TypeOK'
    BY <2>5 DEF ReadHolder
  <2>6. ASSUME NEW p \in Procs, JudgeStale(p) PROVE TypeOK'
    BY <2>6 DEF JudgeStale
  <2>7. ASSUME NEW p \in Procs, JudgeLive(p) PROVE TypeOK'
    BY <2>7 DEF JudgeLive
  <2>8. ASSUME NEW p \in Procs, RenameAside(p) PROVE TypeOK'
    BY <2>8 DEF RenameAside
  <2>9. ASSUME NEW p \in Procs, InspectStolen(p) PROVE TypeOK'
    BY <2>9 DEF InspectStolen
  <2>10. ASSUME NEW p \in Procs, RestoreStolen(p) PROVE TypeOK'
    BY <2>10 DEF RestoreStolen
  <2>11. ASSUME NEW p \in Procs, Fail(p) PROVE TypeOK'
    BY <2>11, ConstantsAssumption DEF Fail
  <2>12. ASSUME NEW p \in Procs, Wait(p) PROVE TypeOK'
    BY <2>12, ConstantsAssumption DEF Wait
  <2>13. ASSUME NEW p \in Procs, CheckOurs(p) PROVE TypeOK'
    BY <2>13 DEF CheckOurs
  <2>14. ASSUME NEW p \in Procs, Unlink(p) PROVE TypeOK'
    BY <2>14 DEF Unlink
  <2>15. ASSUME NEW p \in Procs, Kill(p) PROVE TypeOK'
    BY <2>15 DEF Kill
  <2>16. CASE UNCHANGED vars
    BY <2>16 DEF vars
  <2> QED
    BY <2>1, <2>2, <2>3, <2>4, <2>5, <2>6, <2>7, <2>8, <2>9, <2>10, <2>11,
       <2>12, <2>13, <2>14, <2>15, <2>16 DEF Next, Acquiring, Releasing
<1> QED
  BY <1>1, <1>2, PTL DEF Spec

-----------------------------------------------------------------------------

(* If the path names every process inside the section, there is at most one. *)
LEMMA OwnedExcludes == Owned => MutualExclusion
  BY DEF Owned, MutualExclusion, Holders

(* One step keeps the path's owner unless a thief touches a live lock. *)
LEMMA OwnershipStep ==
  ASSUME TypeOK, Owned, [Next]_vars, ~ThiefMovesLiveLock
  PROVE  Owned'
<1> USE DEF TypeOK, Owned, Holders, Alive, At, Goto, Location
<1>1. ASSUME NEW p \in Procs, Start(p) PROVE Owned'
  BY <1>1 DEF Start
<1>2. ASSUME NEW p \in Procs, TryCreate(p) PROVE Owned'
  <2>1. Holders = {}
    BY <1>2 DEF TryCreate
  <2>2. file' # NoFile /\ file'.pid = p
    BY <1>2, ConstantsAssumption DEF TryCreate
  <2>3. Holders' \subseteq {p}
    BY <1>2, <2>1 DEF TryCreate
  <2> QED
    BY <2>2, <2>3
<1>3. ASSUME NEW p \in Procs, TryCreateExists(p) PROVE Owned'
  BY <1>3 DEF TryCreateExists
<1>4. ASSUME NEW p \in Procs, WriteContents(p) PROVE Owned'
  <2>1. p \in Holders
    BY <1>4 DEF WriteContents
  <2>2. file \in LockFile /\ file.pid = p
    BY <2>1 DEF Maybe
  <2>3. file' # NoFile /\ file'.pid = p
    <3>1. [pid |-> p, whole |-> TRUE] \in LockFile
      BY DEF LockFile
    <3>2. file' = [pid |-> p, whole |-> TRUE] \/ file' = file
      BY <1>4 DEF WriteContents, Filled
    <3>3. NoFile \notin LockFile
      BY ConstantsAssumption DEF LockFile
    <3>4. CASE file' = [pid |-> p, whole |-> TRUE]
      BY <3>1, <3>3, <3>4
    <3>5. CASE file' = file
      BY <2>2, <3>3, <3>5
    <3> QED
      BY <3>2, <3>4, <3>5
  <2>4. Holders' \subseteq {p}
    BY <1>4, <2>2 DEF WriteContents
  <2> QED
    BY <2>3, <2>4
<1>5. ASSUME NEW p \in Procs, ReadHolder(p) PROVE Owned'
  BY <1>5 DEF ReadHolder
<1>6. ASSUME NEW p \in Procs, JudgeStale(p) \/ JudgeLive(p) PROVE Owned'
  BY <1>6 DEF JudgeStale, JudgeLive
<1>7. ASSUME NEW p \in Procs, RenameAside(p) PROVE Owned'
  <2>1. CASE file = NoFile
    BY <1>7, <2>1 DEF RenameAside
  <2>2. CASE file # NoFile
    <3>1. ~Alive(file.pid)
      BY <1>7, <2>2 DEF RenameAside, ThiefMovesLiveLock
    <3>2. Holders = {}
      BY <3>1
    <3> QED
      BY <1>7, <2>2, <3>2 DEF RenameAside
  <2> QED
    BY <2>1, <2>2
<1>8. ASSUME NEW p \in Procs, InspectStolen(p) PROVE Owned'
  BY <1>8 DEF InspectStolen
<1>9. ASSUME NEW p \in Procs, RestoreStolen(p) PROVE Owned'
  BY <1>9 DEF RestoreStolen, ThiefMovesLiveLock
<1>10. ASSUME NEW p \in Procs, Fail(p) \/ Wait(p) PROVE Owned'
  BY <1>10 DEF Fail, Wait
<1>11. ASSUME NEW p \in Procs, CheckOurs(p) PROVE Owned'
  BY <1>11 DEF CheckOurs
<1>12. ASSUME NEW p \in Procs, Unlink(p) PROVE Owned'
  <2>1. p \in Holders
    BY <1>12 DEF Unlink
  <2>2. Holders \subseteq {p}
    BY <2>1
  <2>3. Holders' = {}
    BY <1>12, <2>2 DEF Unlink
  <2> QED
    BY <2>3
<1>13. ASSUME NEW p \in Procs, Kill(p) PROVE Owned'
  BY <1>13 DEF Kill
<1>14. CASE UNCHANGED vars
  BY <1>14 DEF vars
<1> QED
  BY <1>1, <1>2, <1>3, <1>4, <1>5, <1>6, <1>7, <1>8, <1>9, <1>10, <1>11,
     <1>12, <1>13, <1>14 DEF Next, Acquiring, Releasing

(* Exclusion is only ever lost to the steal protocol: a thief that judged one  *)
(* holder dead and moves, or puts back, the lock of a live one.                *)
THEOREM OnlyThieves == Spec => OnlyThievesBreakOwnership
<1>1. TypeOK /\ [Next]_vars
        => [Owned => Owned' \/ ThiefMovesLiveLock]_vars
  BY OwnershipStep
<1> QED
  BY <1>1, TypeCorrect, PTL DEF Spec, OnlyThievesBreakOwnership

-----------------------------------------------------------------------------

(* While nobody is gone no process believes a holder dead, so nobody   *)
(* steals, and the path names whoever is inside.                               *)
NoThieves ==
    \A p \in Procs : /\ pc[p] \notin {"rename", "inspect", "restore"}
                     /\ pc[p] = "judge" => seen[p] \in LockFile

KillFreeInv == NoThieves /\ Owned

LEMMA KillFreeStep ==
  ASSUME TypeOK, dead = {}, KillFreeInv, [Next]_vars, dead' = {}
  PROVE  KillFreeInv'
<1> USE DEF TypeOK, NoThieves, KillFreeInv
<1>1. ~ThiefMovesLiveLock
  BY DEF ThiefMovesLiveLock
<1>2. Owned'
  BY <1>1, OwnershipStep
<1> USE DEF Goto, Location, At, Alive
<1>3. ASSUME NEW p \in Procs, Start(p) \/ TryCreate(p) \/ TryCreateExists(p)
      PROVE NoThieves'
  BY <1>3 DEF Start, TryCreate, TryCreateExists
<1>4. ASSUME NEW p \in Procs, WriteContents(p) PROVE NoThieves'
  BY <1>4 DEF WriteContents
<1>5. ASSUME NEW p \in Procs, ReadHolder(p) PROVE NoThieves'
  BY <1>5 DEF ReadHolder, Maybe
<1>6. ASSUME NEW p \in Procs, JudgeStale(p) PROVE FALSE
  BY <1>6 DEF JudgeStale, MayBeOld
<1>7. ASSUME NEW p \in Procs, JudgeLive(p) PROVE NoThieves'
  BY <1>7 DEF JudgeLive
<1>8. ASSUME NEW p \in Procs,
             RenameAside(p) \/ InspectStolen(p) \/ RestoreStolen(p)
      PROVE FALSE
  BY <1>8 DEF RenameAside, InspectStolen, RestoreStolen
<1>9. ASSUME NEW p \in Procs, Fail(p) \/ Wait(p) PROVE NoThieves'
  BY <1>9 DEF Fail, Wait
<1>10. ASSUME NEW p \in Procs, CheckOurs(p) \/ Unlink(p) PROVE NoThieves'
  BY <1>10 DEF CheckOurs, Unlink
<1>11. ASSUME NEW p \in Procs, Kill(p) PROVE FALSE
  BY <1>11 DEF Kill
<1>12. ASSUME UNCHANGED vars PROVE NoThieves'
  BY <1>12 DEF vars
<1>13. NoThieves'
  BY <1>3, <1>4, <1>5, <1>6, <1>7, <1>8, <1>9, <1>10, <1>11, <1>12
     DEF Next, Acquiring, Releasing
<1> QED
  BY <1>2, <1>13

(* Nobody comes back from the dead. *)
LEMMA DeadGrows == [Next]_vars => dead \subseteq dead'
  BY DEF Next, Acquiring, Releasing, Start, TryCreate, TryCreateExists,
         WriteContents, ReadHolder, JudgeStale, JudgeLive, RenameAside,
         InspectStolen, RestoreStolen, Fail, Wait, CheckOurs, Unlink, Kill, vars

(* Contention alone never lets two processes in, whatever their number. *)
THEOREM ExclusionUntilKill == Spec => []ExclusiveUntilKill
<1> DEFINE Inv == dead = {} => KillFreeInv
<1>1. Init => Inv
  BY DEF Init, KillFreeInv, NoThieves, Owned, Holders
<1>2. TypeOK /\ Inv /\ [Next]_vars => Inv'
  BY KillFreeStep, DeadGrows
<1>3. Inv => ExclusiveUntilKill
  BY OwnedExcludes DEF KillFreeInv, ExclusiveUntilKill
<1> QED
  BY <1>1, <1>2, <1>3, TypeCorrect, PTL DEF Spec

-----------------------------------------------------------------------------

(* Whoever leaves the section, by itself or by a kill, keeps it sound; if it   *)
(* was not, it is again only for a single process.                             *)
LEMMA GoesKeepsSound ==
  ASSUME TypeOK, [Next]_vars, ~ThiefMovesLiveLock, NEW p, Holders' = Holders \ {p}
  PROVE  Promise!Goes(p)
<1>1. Owned => Owned'
  BY OwnershipStep
<1>2. Owned' => Promise!Alone(Holders')
  BY DEF Owned, Promise!Alone
<1> QED
  BY <1>1, <1>2 DEF Promise!Goes

(* A step that moves nobody in or out is a disturbance, or none at all. *)
LEMMA StaysDisturbs ==
  ASSUME TypeOK, dead = {} => KillFreeInv, [Next]_vars,
         Holders' = Holders, dead' = dead
  PROVE  [Promise!Next]_Promise!vars
<1>1. CASE Owned' = Owned
  BY <1>1 DEF Promise!vars
<1>2. CASE Owned' # Owned
  <2>1. dead # {}
    <3> SUFFICES ASSUME dead = {} PROVE FALSE
      OBVIOUS
    <3>1. KillFreeInv /\ KillFreeInv'
      BY KillFreeStep
    <3> QED
      BY <3>1, <1>2 DEF KillFreeInv, Owned
  <2>2. Owned' => Promise!Alone(Holders)
    <3>1. Owned' => MutualExclusion'
      BY OwnedExcludes, PTL
    <3> QED
      BY <3>1 DEF MutualExclusion, Promise!Alone
  <2>3. Owned' \in BOOLEAN
    BY DEF Owned
  <2> QED
    BY <2>1, <2>2, <2>3 DEF Promise!Next, Promise!Disturb
<1> QED
  BY <1>1, <1>2

(* Every step of the lock is a step of the promise, or none. *)
LEMMA PromiseStep ==
  ASSUME TypeOK, dead = {} => KillFreeInv, [Next]_vars
  PROVE  [Promise!Next]_Promise!vars
<1>1. ASSUME NEW p \in Procs, TryCreate(p) PROVE Promise!Enter(p)
  <2> USE <1>1 DEF TypeOK, TryCreate, Holders, Alive, At, Goto, Location
  <2>1. p \notin Holders \cup dead
    OBVIOUS
  <2>2. Holders' = Holders \cup {p}
    OBVIOUS
  <2>3. Owned => Holders = {}
    BY DEF Owned
  <2>4. Owned' = Owned
    <3>1. CASE Owned
      <4>1. Holders' = {p} /\ file' # NoFile /\ file'.pid = p
        BY <2>2, <2>3, <3>1, ConstantsAssumption DEF LockFile
      <4>2. Owned'
        BY <4>1 DEF Owned
      <4> QED
        BY <3>1, <4>2 DEF Owned
    <3>2. CASE ~Owned
      <4>1. PICK q \in Holders : TRUE
        BY <3>2 DEF Owned
      <4>2. q \in Holders' /\ q # p /\ file'.pid = p
        BY <2>1, <2>2, <4>1
      <4>3. ~Owned'
        BY <4>2 DEF Owned
      <4> QED
        BY <3>2, <4>3 DEF Owned
    <3> QED
      BY <3>1, <3>2
  <2> QED
    BY <2>1, <2>2, <2>3, <2>4 DEF Promise!Enter
<1>2. ASSUME NEW p \in Procs, Releasing(p)
      PROVE  Promise!Leave(p) \/ (Holders' = Holders /\ dead' = dead)
  <2> USE DEF TypeOK, Holders, Alive, At, Goto, Location
  <2>1. p \in Holders /\ dead' = dead
    BY <1>2 DEF Releasing, CheckOurs, Unlink
  <2>2. Holders' = Holders \/ Holders' = Holders \ {p}
    BY <1>2 DEF Releasing, CheckOurs, Unlink
  <2>3. ~ThiefMovesLiveLock
    BY <1>2 DEF Releasing, CheckOurs, Unlink, ThiefMovesLiveLock
  <2> QED
    BY <2>1, <2>2, <2>3, GoesKeepsSound DEF Promise!Leave
<1>3. ASSUME NEW p \in Procs, Kill(p) PROVE Promise!Die(p)
  <2>1. Holders' = Holders \ {p}
    BY <1>3 DEF Kill, Holders, Alive
  <2>2. ~ThiefMovesLiveLock
    BY <1>3 DEF Kill, ThiefMovesLiveLock
  <2> QED
    BY <1>3, <2>1, <2>2, GoesKeepsSound DEF Promise!Die, Kill, Alive
<1>4. ASSUME NEW p \in Procs, Start(p) \/ Acquiring(p), ~TryCreate(p)
      PROVE  Holders' = Holders /\ dead' = dead
  <2> USE DEF TypeOK, Holders, Alive, At, Goto, Location
  <2>1. CASE Start(p) \/ TryCreateExists(p)
    BY <2>1 DEF Start, TryCreateExists
  <2>2. CASE WriteContents(p)
    BY <2>2 DEF WriteContents
  <2>3. CASE ReadHolder(p) \/ JudgeStale(p) \/ JudgeLive(p)
    BY <2>3 DEF ReadHolder, JudgeStale, JudgeLive
  <2>4. CASE RenameAside(p) \/ InspectStolen(p) \/ RestoreStolen(p)
    BY <2>4 DEF RenameAside, InspectStolen, RestoreStolen
  <2>5. CASE Fail(p) \/ Wait(p)
    BY <2>5 DEF Fail, Wait
  <2> QED
    BY <1>4, <2>1, <2>2, <2>3, <2>4, <2>5 DEF Acquiring
<1>5. CASE UNCHANGED vars
  <2>1. Holders' = Holders /\ dead' = dead
    BY <1>5 DEF vars, Holders, Alive
  <2> QED
    BY <2>1, StaysDisturbs
<1>6. ASSUME NEW p \in Procs,
             Start(p) \/ Acquiring(p) \/ Releasing(p) \/ Kill(p)
      PROVE  [Promise!Next]_Promise!vars
  <2>1. CASE Holders' = Holders /\ dead' = dead
    BY <2>1, StaysDisturbs
  <2>2. CASE Promise!Enter(p) \/ Promise!Leave(p) \/ Promise!Die(p)
    BY <2>2 DEF Promise!Next
  <2> QED
    BY <1>1, <1>2, <1>3, <1>4, <1>6, <2>1, <2>2
<1> QED
  BY <1>5, <1>6 DEF Next

(* The lock implements the promise: it excludes while the path names whoever  *)
(* is inside, and only a thief that follows a death makes it stop naming them.*)
THEOREM LockKeepsPromise == Spec => KeepsPromise
<1> DEFINE Inv == dead = {} => KillFreeInv
<1>1. Init => Inv /\ Promise!Init
  BY DEF Init, KillFreeInv, NoThieves, Owned, Holders, Promise!Init
<1>2. TypeOK /\ Inv /\ [Next]_vars => Inv' /\ [Promise!Next]_Promise!vars
  BY KillFreeStep, DeadGrows, PromiseStep
<1> QED
  BY <1>1, <1>2, TypeCorrect, PTL DEF Spec, KeepsPromise, Promise!Spec
=============================================================================
