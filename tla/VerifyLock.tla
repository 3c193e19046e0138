----------------------------- MODULE VerifyLock -----------------------------
(***************************************************************************)
(* The cross-process verify lock: one file, node_modules/.validity/        *)
(* .verify.lock, created exclusively, deleted by its owner, and stolen by  *)
(* a competitor when the process it names has died.                        *)
(*                                                                         *)
(* Every action below is one system call (link, open, write, read, kill 0, *)
(* rename, unlink) of one process: processes interleave between any two of *)
(* them, and kill -9 may fall anywhere.  A process acquires and releases   *)
(* any number of times under one pid (the MCP server is long-lived).       *)
(* Process ids are not reused.                                             *)
(***************************************************************************)
EXTENDS Naturals, FiniteSets

CONSTANTS
    Procs,       \* process ids
    NoFile,      \* the path does not exist
    Linkable,    \* TRUE: link(2) works; FALSE: the O_EXCL fallback is taken
    MaxCrashes,  \* bound: how many processes may be gone
    MaxRetries   \* bound: waits one attempt may make before its deadline

ASSUME ConstantsAssumption ==
    /\ NoFile \notin [pid : Procs, whole : BOOLEAN]
    /\ Linkable \in BOOLEAN
    /\ MaxCrashes \in Nat
    /\ MaxRetries \in Nat

VARIABLES
    file,   \* what the lock path holds
    aside,  \* aside[p]: what `<path>.stale.<p>` holds
    pc,     \* where each process is in acquire / hold / release
    seen,   \* seen[p]: the bytes p read from the lock path and is judging
    waits,  \* waits[p]: waits made by p's current attempt
    dead    \* the processes that are gone

vars == <<file, aside, pc, seen, waits, dead>>

\* A lock file is the inode its creator made; `whole` once the contents are in.
LockFile == [pid : Procs, whole : BOOLEAN]
Maybe == LockFile \cup {NoFile}

Location == {"idle", "try1", "read", "judge", "rename", "inspect", "restore",
             "try2", "write", "decide", "held", "unlink"}

Alive(p) == p \notin dead

At(p, l) == Alive(p) /\ pc[p] = l
Goto(p, l) == pc' = [pc EXCEPT ![p] = l]

Init ==
    /\ file = NoFile
    /\ aside = [p \in Procs |-> NoFile]
    /\ pc = [p \in Procs |-> "idle"]
    /\ seen = [p \in Procs |-> NoFile]
    /\ waits = [p \in Procs |-> 0]
    /\ dead = {}

-----------------------------------------------------------------------------
(* acquireVerifyLock *)

Start(p) ==
    /\ At(p, "idle")
    /\ Goto(p, "try1")
    /\ UNCHANGED <<file, aside, seen, waits, dead>>

\* Mutated form: the create replaces an existing file.
TryCreateReplaces(p) ==
    /\ At(p, "try1") \/ At(p, "try2")
    /\ file' = [pid |-> p, whole |-> Linkable]
    /\ Goto(p, IF Linkable THEN "held" ELSE "write")
    /\ waits' = [waits EXCEPT ![p] = 0]
    /\ UNCHANGED <<aside, seen, dead>>

\* link(2) puts a complete record in place; O_EXCL leaves an empty file first.
TryCreate(p) ==
    /\ At(p, "try1") \/ At(p, "try2")
    /\ file = NoFile
    /\ file' = [pid |-> p, whole |-> Linkable]
    /\ Goto(p, IF Linkable THEN "held" ELSE "write")
    /\ waits' = [waits EXCEPT ![p] = 0]
    /\ UNCHANGED <<aside, seen, dead>>

TryCreateExists(p) ==
    /\ At(p, "try1") \/ At(p, "try2")
    /\ file # NoFile
    /\ Goto(p, IF pc[p] = "try1" THEN "read" ELSE "decide")
    /\ UNCHANGED <<file, aside, seen, waits, dead>>

\* The write goes through the descriptor: to p's inode, wherever it now is.
Filled(f, p) == IF f = [pid |-> p, whole |-> FALSE]
                THEN [pid |-> p, whole |-> TRUE] ELSE f

WriteContents(p) ==
    /\ At(p, "write")
    /\ file' = Filled(file, p)
    /\ aside' = [q \in Procs |-> Filled(aside[q], p)]
    /\ Goto(p, "held")
    /\ UNCHANGED <<seen, waits, dead>>

ReadHolder(p) ==
    /\ At(p, "read")
    /\ seen' = [seen EXCEPT ![p] = file]
    /\ Goto(p, IF file = NoFile THEN "try2" ELSE "judge")
    /\ UNCHANGED <<file, aside, waits, dead>>

\* An unparseable file may be over ten minutes old only when it is still the
\* one that was read and its creator died before writing it.
MayBeOld(p) == file = seen[p] /\ seen[p].pid \in dead

\* Mutated form: the holder's liveness is not asked.
JudgeAlwaysStale(p) ==
    /\ At(p, "judge")
    /\ Goto(p, "rename")
    /\ seen' = [seen EXCEPT ![p] = NoFile]
    /\ UNCHANGED <<file, aside, waits, dead>>

JudgeStale(p) ==
    /\ At(p, "judge")
    /\ IF seen[p].whole THEN seen[p].pid \in dead ELSE MayBeOld(p)
    /\ Goto(p, "rename")
    /\ seen' = [seen EXCEPT ![p] = NoFile]
    /\ UNCHANGED <<file, aside, waits, dead>>

\* Mutated form: a failing kill(pid, 0) counts as alive whatever its code.
JudgeAnyLive(p) ==
    /\ At(p, "judge")
    /\ Goto(p, "try2")
    /\ seen' = [seen EXCEPT ![p] = NoFile]
    /\ UNCHANGED <<file, aside, waits, dead>>

JudgeLive(p) ==
    /\ At(p, "judge")
    /\ seen[p].whole => Alive(seen[p].pid)
    /\ Goto(p, "try2")
    /\ seen' = [seen EXCEPT ![p] = NoFile]
    /\ UNCHANGED <<file, aside, waits, dead>>

RenameAside(p) ==
    /\ At(p, "rename")
    /\ IF file = NoFile
       THEN Goto(p, "try2") /\ UNCHANGED <<file, aside>>
       ELSE /\ aside' = [aside EXCEPT ![p] = file]
            /\ file' = NoFile
            /\ Goto(p, "inspect")
    /\ UNCHANGED <<seen, waits, dead>>

\* Re-read the stolen bytes: a live holder's lock goes back, a dead one's goes.
InspectStolen(p) ==
    /\ At(p, "inspect")
    /\ IF aside[p].whole /\ Alive(aside[p].pid)
       THEN Goto(p, "restore") /\ UNCHANGED aside
       ELSE Goto(p, "try2") /\ aside' = [aside EXCEPT ![p] = NoFile]
    /\ UNCHANGED <<file, seen, waits, dead>>

\* rename(2) replaces whatever the path holds by now.
RestoreStolen(p) ==
    /\ At(p, "restore")
    /\ file' = aside[p]
    /\ aside' = [aside EXCEPT ![p] = NoFile]
    /\ Goto(p, "try2")
    /\ UNCHANGED <<seen, waits, dead>>

Fail(p) ==
    /\ At(p, "decide")
    /\ Goto(p, "idle")
    /\ waits' = [waits EXCEPT ![p] = 0]
    /\ UNCHANGED <<file, aside, seen, dead>>

\* Mutated form: a deadline that starts over.
WaitAfresh(p) ==
    /\ At(p, "decide")
    /\ Goto(p, "try1")
    /\ UNCHANGED <<file, aside, seen, waits, dead>>

Wait(p) ==
    /\ At(p, "decide")
    /\ waits[p] < MaxRetries
    /\ waits' = [waits EXCEPT ![p] = @ + 1]
    /\ Goto(p, "try1")
    /\ UNCHANGED <<file, aside, seen, dead>>

-----------------------------------------------------------------------------
(* release(), the exit handler, and kill -9 *)

Ours(p) == file = [pid |-> p, whole |-> TRUE]

CheckOurs(p) ==
    /\ At(p, "held")
    /\ Goto(p, IF Ours(p) THEN "unlink" ELSE "idle")
    /\ UNCHANGED <<file, aside, seen, waits, dead>>

Unlink(p) ==
    /\ At(p, "unlink")
    /\ file' = NoFile
    /\ Goto(p, "idle")
    /\ UNCHANGED <<aside, seen, waits, dead>>

\* kill -9 at any point; of an idle process, also its normal exit: a competitor
\* that has read its lock finds the pid dead all the same.
Kill(p) ==
    /\ Alive(p)
    /\ Cardinality(dead) < MaxCrashes
    /\ dead' = dead \cup {p}
    /\ UNCHANGED <<file, aside, pc, seen, waits>>

Acquiring(p) ==
    \/ TryCreate(p) \/ TryCreateExists(p) \/ WriteContents(p)
    \/ ReadHolder(p) \/ JudgeStale(p) \/ JudgeLive(p)
    \/ RenameAside(p) \/ InspectStolen(p) \/ RestoreStolen(p)
    \/ Fail(p) \/ Wait(p)

Releasing(p) == CheckOurs(p) \/ Unlink(p)

Next ==
    \E p \in Procs : Start(p) \/ Acquiring(p) \/ Releasing(p) \/ Kill(p)

\* acquireVerifyLock is a synchronous loop: once called it keeps running.
\* Nothing says that anyone starts an attempt, or that a verify ends.
Fairness == \A p \in Procs : WF_vars(Acquiring(p))

Spec == Init /\ [][Next]_vars
FairSpec == Spec /\ Fairness

-----------------------------------------------------------------------------
(* Properties *)

\* Every variable keeps the shape the code gives it: file contents at the lock
\* path and beside it, a location per process, the bytes last read, the waits.
TypeOK ==
    /\ file \in Maybe
    /\ aside \in [Procs -> Maybe]
    /\ pc \in [Procs -> Location]
    /\ seen \in [Procs -> Maybe]
    /\ waits \in [Procs -> 0..MaxRetries]
    /\ dead \subseteq Procs

\* The processes that may be inside the section the lock guards.
Holders == {p \in Procs : Alive(p) /\ pc[p] \in {"write", "held", "unlink"}}

\* No two live processes are between a successful acquireVerifyLock and the end
\* of release(): the fold over scorecard.json is serialized.
MutualExclusion == \A p, q \in Holders : p = q

\* As long as nobody is gone, by a kill or an exit, the lock excludes, under any
\* contention.
ExclusiveUntilKill == dead = {} => MutualExclusion

\* A live process named by the lock path is one that holds the lock: the error
\* "A verify is already running (pid ...)" is true when it is thrown.
NoPhantomLock ==
    file # NoFile /\ Alive(file.pid) => file.pid \in Holders

\* The path names every process inside the section.
Owned == \A p \in Holders : file # NoFile /\ file.pid = p

\* A competitor that judged some holder dead moves aside a live process's lock,
\* or puts one back over whatever the path holds.
ThiefMovesLiveLock ==
    \E p \in Procs :
        \/ /\ pc[p] = "rename" /\ pc'[p] = "inspect"
           /\ Alive(file.pid)
        \/ pc[p] = "restore" /\ pc'[p] = "try2"

\* Exclusion is lost in no other way: not by a kill at any point, not by
\* contention, a failed attempt, a timeout, or a steal of a dead holder's lock.
OnlyThievesBreakOwnership ==
    [][Owned => Owned' \/ ThiefMovesLiveLock]_vars

\* Together: the lock keeps the promise of a section that excludes while the
\* path names whoever is inside, which only a thief after a death can undo.
Promise == INSTANCE LockPromise WITH
    inside <- Holders, killed <- dead, sound <- Owned
KeepsPromise == Promise!Spec

\* An unparseable lock is thrown away only when its creator is dead ("no live
\* writer could be mid-create").
TornLockKept ==
    [][\A p \in Procs :
         (aside[p] # NoFile /\ ~aside[p].whole /\ aside'[p] = NoFile)
           => aside[p].pid \in dead]_vars

\* release() deletes no lock but its own process's.
ReleaseOwnLock ==
    [][\A p \in Procs :
         pc[p] = "unlink" /\ pc'[p] = "idle" /\ file # NoFile
           => file.pid = p]_vars

\* Every attempt comes to an end: the lock is acquired, the attempt fails with
\* VerifyLockHeldError, or the process is killed.
AttemptEnds ==
    \A p \in Procs : pc[p] = "try1" ~> pc[p] \in {"held", "idle"} \/ ~Alive(p)

\* An attempt that starts on a dead process's lock does not leave that lock in
\* place: a kill -9 never wedges the project.
StaleLockRemoved ==
    \A p, d \in Procs :
        (/\ pc[p] = "try1" /\ p # d /\ ~Alive(d)
         /\ file = [pid |-> d, whole |-> TRUE])
          ~> file # [pid |-> d, whole |-> TRUE] \/ ~Alive(p)
=============================================================================
