------------------------------ MODULE Baselines ------------------------------
(***************************************************************************)
(* Baseline screenshots.  A verify renders the keys of a spec, compares     *)
(* each shot with .validity/baselines/<key>.png, and establishes that file  *)
(* from the first render that may be trusted.  `validity accept` copies the *)
(* shots of a run, here the newest that is over or one still going on, over *)
(* the baselines; a human deletes baselines.  A full                        *)
(* `verify --all` ends with a sweep that reports baselines nobody renders   *)
(* any more, and pairs them with new keys that look like renames.           *)
(*                                                                         *)
(* Verifies may overlap: the verify lock can have two holders, and accept   *)
(* takes no lock.  Every read, existence check and copy of a baseline is a  *)
(* step, a copy two: the file exists, and is no image, before it is whole.  *)
(***************************************************************************)
EXTENDS Integers, Sequences, FiniteSets

CONSTANTS
    Keys,        \* <componentId>__<variantSlug>
    Looks,       \* what a shot can show; |a - b| pixels differ
    MaxDiff,     \* maxDiffPixels of the expect.screenshot check
    Confidence,  \* renameConfidence of two keys, 0 for null
    Projects,    \* the sequences of specs the project may have
    Old,         \* keys accepted before
    Outcomes,    \* how a render may end
    Verifiers,   \* processes that verify
    MaxVerifies, MaxEdits, MaxHuman, MaxKills
                 \* bounds: verifies, edits, accepts and deletions, kills

Outcome == {"clean",    \* the other checks pass
            "tainted",  \* ... on evidence that demotes a pass
            "red",      \* another mechanical check fails
            "blank",    \* the checks pass, the shot is empty
            "threw",    \* renderError
            "skipped"}  \* a mechanical check fails and no shot is taken
FrozenSpec == [keys : Seq(Keys), native : BOOLEAN]

ASSUME BaselinesAssumption ==
    /\ Keys # {}
    /\ Looks \subseteq Int /\ Looks # {}
    /\ MaxDiff \in Nat
    /\ Confidence \in [Keys \X Keys -> Nat]
    /\ Projects \subseteq Seq(FrozenSpec) /\ Projects # {}
    /\ Old \subseteq Keys
    /\ Outcomes \subseteq Outcome
    /\ MaxVerifies \in Nat /\ MaxEdits \in Nat /\ MaxHuman \in Nat /\ MaxKills \in Nat

VARIABLES
    look,     \* look[k]: what the code renders for k
    specs,    \* the frozen specs, in the order of a sweep
    verifies, edits, humans, kills,
    disk,     \* disk[k]: the baseline file of k
    filed,    \* the screenshots directory of the newest run that is over
    verifier, \* verifier[v]
    accept,   \* what `validity accept` has still to copy
    failed    \* history: looks that failed against the settled baseline of k

vars == <<look, specs, verifies, edits, humans, kills, disk, filed, verifier, accept, failed>>

-----------------------------------------------------------------------------
\* Files and directories.

Origin == {"web", "native", "human"}

\* from and sound are history: who wrote the image, and whether the render it is
\* of had nothing wrong with it.
File == [state : {"none", "partial", "mixed", "whole"}, look : Looks,
         from : Origin, sound : BOOLEAN]
AnyLook == CHOOSE l \in Looks : TRUE
Unreadable(state) == [state |-> state, look |-> AnyLook, from |-> "human", sound |-> FALSE]
Image(l, from, sound) == [state |-> "whole", look |-> l, from |-> from, sound |-> sound]
Exists(f) == f.state # "none"
IsImage(f) == f.state = "whole"

\* Shots by key.
Directory == UNION {[K -> Looks] : K \in SUBSET Keys}
Empty == [k \in {} |-> AnyLook]
With(dir, k, l) == [x \in DOMAIN dir \cup {k} |-> IF x = k THEN l ELSE dir[x]]
Without(dir, k) == [x \in DOMAIN dir \ {k} |-> dir[x]]

\* What a file holds once a copy of an image into it ends: that image, unless
\* another writer had the file open too.
Copied(file, image) ==
    IF file.state = "partial" THEN {image} ELSE {image, file, Unreadable("mixed")}

-----------------------------------------------------------------------------
\* The comparison of a shot with a baseline.

Status == {"pass", "fail", "unverifiable"}
Pixels(a, b) == IF a < b THEN b - a ELSE a - b

\* diffAgainstBaseline, then evaluateScreenshotExpects; without a readable
\* baseline the check stays the executor's stub.
Compared(file, l) ==
    IF ~IsImage(file) THEN "unverifiable"
    ELSE IF Pixels(file.look, l) <= MaxDiff THEN "pass" ELSE "fail"

\* refoldAfterScreenshot: the other checks of the criterion, the screenshot
\* check, and the demoting taints.
Refolded(outcome, shot) ==
    IF outcome = "red" \/ shot = "fail" THEN "fail"
    ELSE IF shot = "unverifiable" \/ outcome = "tainted" THEN "unverifiable" ELSE "pass"

\* Mutant: only a blank shot is refused.
WorthyUnlessBlank(outcome, shot) == outcome # "blank"

\* renderIsBaselineWorthy
Worthy(outcome, shot) == outcome # "blank" /\ Refolded(outcome, shot) # "fail"

-----------------------------------------------------------------------------
\* planBaselineLifecycle.

\* topCandidate: the strict winner of a pool, if any.  A key listed twice ties
\* with itself.
Top(k, pool, twice) ==
    {c \in pool \ twice : /\ Confidence[k, c] > 0
                          /\ \A d \in pool \ {c} : Confidence[k, d] < Confidence[k, c]}

\* Mutant: the new key need not prefer the orphan.
RenamesOneWay(orphans, news, twice) ==
    {p \in orphans \X news : p[2] \in Top(p[1], news, twice)}

Renames(orphans, news, twice) ==
    {p \in orphans \X news : p[2] \in Top(p[1], news, twice) /\ p[1] \in Top(p[2], orphans, {})}

\* lives[k]: how many renders of the cycle were of k.
Plan(lives, baseline) ==
    LET live == {k \in Keys : lives[k] > 0}
        orphans == baseline \ live
        news == live \ baseline
        renames == Renames(orphans, news, {k \in Keys : lives[k] > 1})
    IN [orphans |-> {k \in orphans : \A p \in renames : p[1] # k},
        newBaselines |-> {k \in news : \A p \in renames : p[2] # k},
        renames |-> renames]

NoPlan == [orphans |-> {}, newBaselines |-> {}, renames |-> {}]
PlanType == [orphans : SUBSET Keys, newBaselines : SUBSET Keys, renames : SUBSET (Keys \X Keys)]

-----------------------------------------------------------------------------
\* Verifies.

Phase == {"idle", "spec", "render", "diff", "meta", "exists", "copy", "copying", "swept"}
AnyKey == CHOOSE k \in Keys : TRUE

\* covered, threw and had are history: the keys of the sweep's specs so far, those
\* whose render threw, and those with a baseline when it began.
Verifier == [phase : Phase, sweep : BOOLEAN, left : Seq(FrozenSpec), native : BOOLEAN,
             todo : Seq(Keys), key : Keys, outcome : Outcome,
             shot : Status, meta : Status, ref : File,
             dir : Directory, lives : [Keys -> 0..2], errored : BOOLEAN,
             plan : PlanType,
             covered : SUBSET Keys, threw : SUBSET Keys, had : SUBSET Keys]

Idle == [phase |-> "idle", sweep |-> FALSE, left |-> <<>>, native |-> FALSE,
         todo |-> <<>>, key |-> AnyKey, outcome |-> "clean",
         shot |-> "unverifiable", meta |-> "unverifiable", ref |-> Unreadable("none"),
         dir |-> Empty, lives |-> [k \in Keys |-> 0], errored |-> FALSE,
         plan |-> NoPlan, covered |-> {}, threw |-> {}, had |-> {}]

NoAccept == [todo |-> Empty, busy |-> FALSE, key |-> AnyKey]

Init ==
    /\ look = [k \in Keys |-> AnyLook]
    /\ specs \in Projects
    /\ verifies = 0 /\ edits = 0 /\ humans = 0 /\ kills = 0
    /\ disk = [k \in Keys |-> IF k \in Old THEN Image(AnyLook, "human", TRUE)
                              ELSE Unreadable("none")]
    /\ filed = Empty
    /\ verifier = [v \in Verifiers |-> Idle]
    /\ accept = NoAccept
    /\ failed = [k \in Keys |-> {}]

project == <<look, specs, edits>>
human == <<humans, accept>>
verifying == <<verifies, verifier>>

Is(v, phase) == verifier[v].phase = phase
Become(v, r) == verifier' = [verifier EXCEPT ![v] = r]

\* The next render of the spec, what was held of the last one forgotten.
NextRender(r) == [r EXCEPT !.phase = "render", !.key = AnyKey, !.outcome = "clean",
                           !.shot = "unverifiable", !.meta = "unverifiable",
                           !.ref = Unreadable("none")]

Writing(k) == \E v \in Verifiers : Is(v, "copying") /\ verifier[v].key = k

\* A sweep of all specs, or the verify of one.
Begin(v) ==
    /\ Is(v, "idle") /\ verifies < MaxVerifies /\ verifies' = verifies + 1
    /\ \/ Become(v, [Idle EXCEPT !.phase = "spec", !.sweep = TRUE, !.left = specs,
                                 !.had = {k \in Keys : Exists(disk[k])}])
       \/ \E i \in DOMAIN specs : Become(v, [Idle EXCEPT !.phase = "spec", !.left = <<specs[i]>>])
    /\ UNCHANGED <<project, human, kills, disk, filed, failed>>

\* Only a sweep reports on the keys it went over.
Covered(r, s) == IF r.sweep THEN r.covered \cup {s.keys[i] : i \in DOMAIN s.keys} ELSE {}

\* prepareVerification: the run directory and the renders of the spec.
Prepare(v) ==
    /\ Is(v, "spec") /\ verifier[v].left # <<>>
    /\ LET r == verifier[v] s == Head(r.left)
       IN Become(v, [r EXCEPT !.phase = "render", !.left = Tail(r.left), !.native = s.native,
                              !.todo = s.keys, !.dir = Empty, !.covered = Covered(r, s)])
    /\ UNCHANGED <<project, verifies, human, kills, disk, filed, failed>>

\* The engine catches what a verify of a spec throws, before it rendered.
PrepareFails(v) ==
    /\ Is(v, "spec") /\ verifier[v].left # <<>>
    /\ LET r == verifier[v]
       IN Become(v, [r EXCEPT !.left = Tail(r.left), !.errored = TRUE,
                              !.covered = Covered(r, Head(r.left))])
    /\ UNCHANGED <<project, verifies, human, kills, disk, filed, failed>>

\* The native engine of a sweep compares nothing with a baseline.
Compares(r, outcome) ==
    outcome \notin {"threw", "skipped"} /\ ~(r.native /\ r.sweep)

\* A native sweep records an unconfirmed render as the spec's error; a web one
\* only as the render's.
Errors(r, outcome) == r.native /\ r.sweep /\ outcome = "threw"

Counted(lives, k, outcome) ==
    IF outcome = "threw" \/ lives[k] = 2 THEN lives ELSE [lives EXCEPT ![k] = @ + 1]

\* The next render of the spec, its shot written to the run directory.  Only
\* the web capture leaves a shot out.
Shoot(v, outcome) ==
    /\ Is(v, "render") /\ verifier[v].todo # <<>>
    /\ LET r == verifier[v] k == Head(r.todo)
           shot == [r EXCEPT
                       !.todo = Tail(@),
                       !.dir = IF outcome = "skipped" THEN @ ELSE With(@, k, look[k]),
                       !.lives = IF r.sweep THEN Counted(@, k, outcome) ELSE @,
                       !.errored = @ \/ Errors(r, outcome),
                       !.threw = IF r.sweep /\ outcome = "threw" THEN @ \cup {k} ELSE @]
       IN /\ r.native => outcome # "skipped"
          /\ Become(v, IF Compares(r, outcome)
                       THEN [shot EXCEPT !.phase = "diff", !.key = k, !.outcome = outcome]
                       ELSE NextRender(shot))
    /\ UNCHANGED <<project, verifies, human, kills, disk, filed, failed>>

\* The verdict of the screenshot check.  The native loop keeps the same diff
\* for the record and goes on to confirmBaseline.
Diff(v) ==
    /\ Is(v, "diff")
    /\ LET r == verifier[v] k == r.key
           shot == Compared(disk[k], r.dir[k])
       IN /\ Become(v, [r EXCEPT !.shot = shot, !.ref = disk[k],
                                 !.meta = IF r.native THEN shot ELSE @,
                                 !.phase = IF r.native THEN "exists" ELSE "meta"])
          /\ failed' = IF shot = "fail" /\ ~Writing(k)
                       THEN [failed EXCEPT ![k] = @ \cup {r.dir[k]}] ELSE failed
    /\ UNCHANGED <<project, verifies, human, kills, disk, filed>>

\* The web render layer compares again, for the record, and decides whether the
\* shot may become the baseline.
Record(v) ==
    /\ Is(v, "meta")
    /\ LET r == verifier[v]
           seen == [r EXCEPT !.meta = Compared(disk[r.key], r.dir[r.key])]
       IN Become(v, IF Worthy(r.outcome, r.shot) THEN [seen EXCEPT !.phase = "exists"]
                    ELSE NextRender(seen))
    /\ UNCHANGED <<project, verifies, human, kills, disk, filed, failed>>

\* confirmBaseline: the fast path, ...
CheckExists(v) ==
    /\ Is(v, "exists")
    /\ Become(v, IF Exists(disk[verifier[v].key]) THEN NextRender(verifier[v])
                 ELSE [verifier[v] EXCEPT !.phase = "copy"])
    /\ UNCHANGED <<project, verifies, human, kills, disk, filed, failed>>

\* Mutant: a plain copy.
CopyBeginsAnyway(v) ==
    /\ Is(v, "copy")
    /\ Become(v, [verifier[v] EXCEPT !.phase = "copying"])
    /\ disk' = [disk EXCEPT ![verifier[v].key] = Unreadable("partial")]
    /\ UNCHANGED <<project, verifies, human, kills, filed, failed>>

\* Mutant: a copy that fails removes what it left, EEXIST included.
CopyBeginsOrCleans(v) ==
    /\ Is(v, "copy")
    /\ LET k == verifier[v].key
       IN IF Exists(disk[k])
          THEN /\ Become(v, NextRender(verifier[v]))
               /\ disk' = [disk EXCEPT ![k] = Unreadable("none")]
          ELSE /\ Become(v, [verifier[v] EXCEPT !.phase = "copying"])
               /\ disk' = [disk EXCEPT ![k] = Unreadable("partial")]
    /\ UNCHANGED <<project, verifies, human, kills, filed, failed>>

\* ... the exclusive create of COPYFILE_EXCL, or EEXIST, ...
CopyBegins(v) ==
    /\ Is(v, "copy")
    /\ LET k == verifier[v].key
       IN IF Exists(disk[k])
          THEN Become(v, NextRender(verifier[v])) /\ UNCHANGED disk
          ELSE /\ Become(v, [verifier[v] EXCEPT !.phase = "copying"])
               /\ disk' = [disk EXCEPT ![k] = Unreadable("partial")]
    /\ UNCHANGED <<project, verifies, human, kills, filed, failed>>

\* ... and the bytes.
CopyEnds(v) ==
    /\ Is(v, "copying")
    /\ LET r == verifier[v] k == r.key
           own == Image(r.dir[k], IF r.native THEN "native" ELSE "web",
                        r.outcome \in {"clean", "tainted"})
       IN \E f \in Copied(disk[k], own) : disk' = [disk EXCEPT ![k] = f]
    /\ Become(v, NextRender(verifier[v]))
    /\ UNCHANGED <<project, verifies, human, kills, filed, failed>>

\* The run is filed; an MCP verify is over.
EndSpec(v) ==
    /\ Is(v, "render") /\ verifier[v].todo = <<>>
    /\ filed' = verifier[v].dir
    /\ Become(v, [verifier[v] EXCEPT !.phase = "spec", !.dir = Empty])
    /\ UNCHANGED <<project, verifies, human, kills, disk, failed>>

\* Mutant: a sweep with an error reports all the same.
EndSweepAnyway(v) ==
    /\ Is(v, "spec") /\ verifier[v].left = <<>>
    /\ LET r == verifier[v]
       IN Become(v, IF r.sweep
                    THEN [r EXCEPT !.phase = "swept",
                                   !.plan = Plan(r.lives, {k \in Keys : Exists(disk[k])})]
                    ELSE Idle)
    /\ UNCHANGED <<project, verifies, human, kills, disk, filed, failed>>

\* sweepBaselineLifecycle, at the end of a sweep of all specs without an error.
EndSweep(v) ==
    /\ Is(v, "spec") /\ verifier[v].left = <<>>
    /\ LET r == verifier[v]
       IN Become(v, IF r.sweep /\ ~r.errored
                    THEN [r EXCEPT !.phase = "swept",
                                   !.plan = Plan(r.lives, {k \in Keys : Exists(disk[k])})]
                    ELSE Idle)
    /\ UNCHANGED <<project, verifies, human, kills, disk, filed, failed>>

Exit(v) ==
    /\ Is(v, "swept") /\ Become(v, Idle)
    /\ UNCHANGED <<project, verifies, human, kills, disk, filed, failed>>

\* kill -9; the run directory stays.
Kill(v) ==
    /\ ~Is(v, "idle") /\ kills < MaxKills /\ kills' = kills + 1
    /\ filed' = verifier[v].dir
    /\ Become(v, Idle)
    /\ UNCHANGED <<project, verifies, human, disk, failed>>

-----------------------------------------------------------------------------
\* People.

Edit(k, l) ==
    /\ edits < MaxEdits /\ edits' = edits + 1
    /\ l # look[k] /\ look' = [look EXCEPT ![k] = l]
    /\ UNCHANGED <<specs, human, kills, disk, filed, verifying, failed>>

\* A component is renamed, or a spec is added or dropped.
Respecify(p) ==
    /\ edits < MaxEdits /\ edits' = edits + 1
    /\ p # specs /\ specs' = p
    /\ UNCHANGED <<look, human, kills, disk, filed, verifying, failed>>

\* validity accept <run-id>, for a run that may still be going on.
Accept(dir) ==
    /\ accept.todo = Empty
    /\ humans < MaxHuman /\ humans' = humans + 1
    /\ dir # Empty
    /\ accept' = [accept EXCEPT !.todo = dir]
    /\ UNCHANGED <<project, kills, disk, filed, verifying, failed>>

\* The unconditional copy of one shot truncates what is there, ...
AcceptBegins(k) ==
    /\ k \in DOMAIN accept.todo /\ ~accept.busy
    /\ accept' = [accept EXCEPT !.busy = TRUE, !.key = k]
    /\ disk' = [disk EXCEPT ![k] = Unreadable(IF Writing(k) THEN "mixed" ELSE "partial")]
    /\ failed' = [failed EXCEPT ![k] = {}]
    /\ UNCHANGED <<project, humans, kills, filed, verifying>>

\* ... then writes.
AcceptEnds ==
    /\ accept.busy
    /\ LET k == accept.key
       IN /\ \E f \in Copied(disk[k], Image(accept.todo[k], "human", TRUE)) :
                disk' = [disk EXCEPT ![k] = f]
          /\ failed' = [failed EXCEPT ![k] = {}]
          /\ accept' = [todo |-> Without(accept.todo, k), busy |-> FALSE, key |-> AnyKey]
    /\ UNCHANGED <<project, humans, kills, filed, verifying>>

KillAccept ==
    /\ accept.todo # Empty /\ kills < MaxKills /\ kills' = kills + 1
    /\ accept' = NoAccept
    /\ UNCHANGED <<project, humans, disk, filed, verifying, failed>>

\* "Safe to delete", or the way to re-baseline a native render.  Not while the
\* file is being written, when the writer would keep the old inode.
Delete(k) ==
    /\ humans < MaxHuman /\ humans' = humans + 1
    /\ Exists(disk[k]) /\ ~Writing(k) /\ ~accept.busy
    /\ disk' = [disk EXCEPT ![k] = Unreadable("none")]
    /\ failed' = [failed EXCEPT ![k] = {}]
    /\ UNCHANGED <<project, accept, kills, filed, verifying>>

-----------------------------------------------------------------------------
Verifying(v) ==
    \/ Begin(v) \/ Prepare(v) \/ PrepareFails(v)
    \/ \E outcome \in Outcomes : Shoot(v, outcome)
    \/ Diff(v) \/ Record(v) \/ CheckExists(v) \/ CopyBegins(v) \/ CopyEnds(v)
    \/ EndSpec(v) \/ EndSweep(v) \/ Exit(v) \/ Kill(v)

Human ==
    \/ \E k \in Keys, l \in Looks : Edit(k, l)
    \/ \E p \in Projects : Respecify(p)
    \/ \E dir \in {filed} \cup {verifier[v].dir : v \in Verifiers} : Accept(dir)
    \/ \E k \in Keys : AcceptBegins(k) \/ Delete(k)
    \/ AcceptEnds \/ KillAccept

Next == (\E v \in Verifiers : Verifying(v)) \/ Human

Spec == Init /\ [][Next]_vars

-----------------------------------------------------------------------------
TypeOK ==
    /\ look \in [Keys -> Looks]
    /\ specs \in Projects
    /\ verifies \in 0..MaxVerifies /\ edits \in 0..MaxEdits
    /\ humans \in 0..MaxHuman /\ kills \in 0..MaxKills
    /\ disk \in [Keys -> File]
    /\ filed \in Directory
    /\ verifier \in [Verifiers -> Verifier]
    /\ accept \in [todo : Directory, busy : BOOLEAN, key : Keys]
    /\ failed \in [Keys -> SUBSET Looks]

\* An image, once whole, is replaced by people only: "the render layer never
\* clobbers a baseline a user has accepted" (baselines.ts:20), whatever other
\* renders see between their check and their copy.  A copy that began before the
\* file was accepted still writes into it.
PeopleReplace(k) ==
    \/ accept.busy /\ accept.key = k
    \/ accept'.busy /\ accept'.key = k
    \/ humans' # humans
RenderKeepsBaseline ==
    [][\A k \in Keys :
         IsImage(disk[k]) /\ disk'[k] # disk[k] => PeopleReplace(k) \/ Writing(k)]_vars

\* The gate does not heal itself: once a look has failed against the baseline of
\* its key it does not pass, in any run by anyone, before people touch that
\* baseline.  "A stable baseline keeps a regression failing every run"
\* (server.ts:4752).
GateDoesNotHeal ==
    [][\A v \in Verifiers :
         /\ Is(v, "diff") /\ verifier'[v].phase \in {"meta", "exists"}
         /\ verifier'[v].shot = "pass"
         => verifier[v].dir[verifier[v].key] \notin failed[verifier[v].key]]_vars

\* A web render that was blank or failed a check never vouches for another:
\* "never a false green off an unvalidated snapshot" (render.ts:587).
NoFalseGreen ==
    \A v \in Verifiers : verifier[v].shot = "pass" /\ verifier[v].ref.from = "web"
                          => verifier[v].ref.sound

\* The report of a sweep accounts for each baseline nobody rendered and for each
\* render without one exactly once, and pairs them one to one: "Orphan -> new
\* pairs a rename would migrate (strong, mutual-best, 1:1)" (baselines.ts:309).
PlanIsMatching ==
    \A v \in Verifiers :
        LET plan == verifier[v].plan
            from == {p[1] : p \in plan.renames}
            to == {p[2] : p \in plan.renames}
        IN /\ \A p, q \in plan.renames : p[1] = q[1] <=> p[2] = q[2]
           /\ from \cap plan.orphans = {} /\ to \cap plan.newBaselines = {}
           /\ (from \cup plan.orphans) \cap (to \cup plan.newBaselines) = {}

\* What a sweep calls an orphan, "safe to delete", no spec covers; unless its
\* render threw, see PruneIsSafe.
PrunesUncovered ==
    \A v \in Verifiers :
        verifier[v].plan.orphans \cap verifier[v].covered \subseteq verifier[v].threw

-----------------------------------------------------------------------------
\* What the comments say and the code does not keep: see the README.

\* "a run where a spec failed to render ... every un-rendered key would masquerade
\* as an orphan" (verify-all.ts:1639-1641).
PruneIsSafe ==
    \A v \in Verifiers : verifier[v].plan.orphans \cap verifier[v].covered = {}

\* "so the tool can OFFER `validity accept` to migrate the baseline instead of
\* silently re-establishing it" (baselines.ts:279-280).
RenameIsOffered ==
    \A v \in Verifiers :
        LET r == verifier[v] news == (r.covered \ r.threw) \ r.had
        IN Is(v, "swept") => \A p \in Renames(r.had \ r.covered, news, {}) : p \in r.plan.renames

\* "Native uses a STRICTER gate than web" (server.ts:4740).
NativeBaselineIsSound ==
    \A k \in Keys : IsImage(disk[k]) /\ disk[k].from = "native" => disk[k].sound

\* A shot is compared with one of its own platform: web, iOS and Android
\* runs mint the same key for a component, and share its file.
ComparedWithItsKind ==
    \A v \in Verifiers :
        LET r == verifier[v]
        IN r.shot # "unverifiable" /\ r.ref.from # "human" => r.native = (r.ref.from = "native")

\* The verdict and the pixel count of one record are of one baseline.
RecordAgrees ==
    \A v \in Verifiers :
        LET r == verifier[v]
        IN Is(v, "exists") /\ r.meta # "unverifiable" => r.meta = r.shot

\* A copy leaves an image or nothing: "a missing baseline just means no diff next
\* time, which is the same as the first-run state" (baselines.ts:201-203).
NoTornBaseline ==
    \A k \in Keys :
        disk[k].state \in {"partial", "mixed"} =>
            Writing(k) \/ (accept.busy /\ accept.key = k)

=============================================================================
