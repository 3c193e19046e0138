------------------------------ MODULE Standing -------------------------------
(***************************************************************************)
(* The standing of one frozen spec over time: a developer edits and        *)
(* commits, runs verifies (over MCP, or `verify --all`), re-freezes the    *)
(* spec, and an agent scores its soft criteria.  Each verify records a run *)
(* and folds it into the spec's card and signal queue with the operators   *)
(* of module Scorecard.                                                    *)
(*                                                                         *)
(* Verifies are serialized by the verify lock (module VerifyLock), so a    *)
(* verify is one step.  Scoring is two steps: the evidence of the latest   *)
(* run is shown, and later the scores are recorded.                        *)
(*                                                                         *)
(* What the renders look like is `look`, a function of the working tree;   *)
(* only an edit of code the spec depends on can change it.                 *)
(***************************************************************************)
EXTENDS Scorecard

CONSTANTS
    Contracts,    \* the contracts the spec can be frozen with
    Looks,        \* appearances of its renders
    Bulk,         \* was the spec bulk-created (on probation)?
    MaxCommits,   \* bound on head
    MaxVersions,  \* bound on the frozen versions
    MaxStreak,    \* bound on the clean streak
    Steps         \* which of the optional behaviours below happen

OptionalSteps == {"uncommitted",  \* a verify runs on uncommitted edits
                  "discard",      \* uncommitted edits are thrown away
                  "refreeze",     \* the spec is edited and frozen again
                  "unfolded",     \* a verify records its run but not its fold
                  "overtaken",    \* a verify runs while a scorer is thinking
                  "sweep",        \* verify --all, on a developer's machine
                  "judge",        \* verify --all --judge
                  "park"}         \* a human suppresses signals

ASSUME CriteriaAssumption == IsFiniteSet(Criteria)
ASSUME ContractsAssumption ==
    /\ Contracts # {}
    /\ \A c \in Contracts : IsPartial(c, Clause) /\ DOMAIN c # {}
ASSUME BoundsAssumption ==
    /\ Looks # {} /\ Bulk \in BOOLEAN
    /\ MaxCommits \in Nat /\ MaxVersions \in Nat \ {0} /\ MaxStreak \in Nat
    /\ Steps \subseteq OptionalSteps

VARIABLES
    head,     \* the number of the HEAD commit
    touched,  \* the commits that changed code the spec depends on
    dirty,    \* are there uncommitted edits of that code?
    look,     \* what the working tree renders
    base,     \* what the HEAD commit renders
    spec,     \* the frozen spec on disk
    run,      \* the spec's latest recorded run
    shown,    \* what the scorer is looking at
    card,     \* the spec's entry in scorecard.json
    queue,    \* its rows in signals.json
    folded,   \* ghost: has the latest run been folded?
    judged,   \* ghost: what the last score of each criterion was a judgment of
    acked     \* ghost: criteria about which a human parked or closed a row

vars == <<head, touched, dirty, look, base, spec, run, shown, card, queue,
          folded, judged, acked>>
code == <<head, touched, dirty, look, base>>

Spec0(c) == [version |-> 1, contract |-> c, probation |-> Bulk]
NoRun == [version |-> 0, sha |-> 0, look |-> CHOOSE l \in Looks : TRUE,
          tainted |-> FALSE, verdicts |-> NoCriteria, contract |-> NoCriteria]
NotShown == [rubric |-> NoCriteria, look |-> NoRun.look]
NotJudged == [text |-> "none", look |-> NoRun.look, score |-> "none"]

Init ==
    /\ head = 0 /\ touched = {} /\ dirty = FALSE
    /\ look \in Looks /\ base = look
    /\ \E c \in Contracts : spec = Spec0(c)
    /\ run = NoRun /\ shown = NotShown /\ folded = TRUE
    /\ card = NoCard
    /\ queue = [row \in Rows |-> Closed]
    /\ judged = [i \in Criteria |-> NotJudged]
    /\ acked = {}

-----------------------------------------------------------------------------
\* The developer.

Edit(l) ==
    /\ dirty' = TRUE /\ look' = l
    /\ UNCHANGED <<head, touched, base, spec, run, shown, card, queue, folded, judged, acked>>

\* Commits the edits.
Commit ==
    /\ head < MaxCommits
    /\ dirty
    /\ head' = head + 1 /\ touched' = touched \cup {head + 1}
    /\ dirty' = FALSE /\ base' = look
    /\ UNCHANGED <<look, spec, run, shown, card, queue, folded, judged, acked>>

\* Commits code the spec does not depend on.
CommitOther ==
    /\ head < MaxCommits
    /\ head' = head + 1
    /\ UNCHANGED <<touched, dirty, look, base, spec, run, shown, card, queue,
                   folded, judged, acked>>

Discard ==
    /\ "discard" \in Steps
    /\ dirty
    /\ dirty' = FALSE /\ look' = base
    /\ UNCHANGED <<head, touched, base, spec, run, shown, card, queue, folded, judged, acked>>

\* updateSpec then freezeSpec: a new version with a new contract; the
\* probation marker survives.
Refreeze(c) ==
    /\ "refreeze" \in Steps
    /\ spec.version < MaxVersions
    /\ c # spec.contract
    /\ spec' = [spec EXCEPT !.version = @ + 1, !.contract = c]
    /\ UNCHANGED <<code, run, shown, card, queue, folded, judged, acked>>

-----------------------------------------------------------------------------
\* Git questions.

MovedSince(sha) == \E k \in touched : sha < k
Moved == {sha \in 0..head : MovedSince(sha)}

\* lastObservedSha: of a soft criterion if there is one, else of any.
ObservedShas ==
    LET soft == SoftOf(card.criteria)
    IN {card.criteria[i].sha : i \in IF soft # {} THEN soft ELSE DOMAIN card.criteria}

\* codeChangedForSpec, for a spec with declared targets in a git checkout.
CodeChanged(since) == IF dirty \/ MovedSince(since) THEN "yes" ELSE "no"

-----------------------------------------------------------------------------
\* Verifies.

Hard == {i \in DOMAIN spec.contract : spec.contract[i].tier = "hard"}

\* The runs a verify can record now.  On tainted evidence a mechanical pass
\* has been clamped to unverifiable before it is recorded.
Runs ==
    {r \in [version : {spec.version}, sha : {head}, look : {look}, tainted : BOOLEAN,
            verdicts : [Hard -> {"pass", "fail", "unverifiable"}],
            contract : {spec.contract}] :
        r.tainted => \A i \in Hard : r.verdicts[i] # "pass"}

\* observationFromVerdicts.
Observe(r, changed, unchanged, softStatus, carriesTaints) ==
    [version |-> spec.version, sha |-> r.sha, probation |-> spec.probation,
     codeChanged |-> changed, renderUnchanged |-> unchanged,
     criteria |-> [i \in DOMAIN spec.contract |->
        [tier |-> spec.contract[i].tier,
         severity |-> spec.contract[i].severity,
         threshold |-> spec.contract[i].threshold,
         status |-> IF i \in Hard THEN r.verdicts[i] ELSE softStatus[i],
         tainted |-> carriesTaints /\ r.tainted]]]

Unscored == [i \in Criteria |-> "unscored"]

\* renderUnchangedForFold: identical to the previous run of this version.
RenderUnchanged == run.version = spec.version /\ run.look = look

\* observationConfirmsProbationClear.
ConfirmsClear(obs) ==
    LET hard == HardOf(obs.criteria)
    IN /\ hard # {}
       /\ \A i \in hard :
             \/ obs.criteria[i].status = "pass"
             \/ obs.criteria[i].severity = "advisory" /\ obs.criteria[i].status # "fail"
       /\ \A i \in DOMAIN obs.criteria : ~obs.criteria[i].tainted

ClearProbation(obs) ==
    spec' = IF ConfirmsClear(obs) THEN [spec EXCEPT !.probation = FALSE] ELSE spec

Recorded(r) ==
    /\ dirty => "uncommitted" \in Steps
    /\ card'.streak.count <= MaxStreak
    /\ run' = r
    /\ shown' = IF "overtaken" \in Steps THEN shown ELSE NotShown

\* Criteria that no longer fail or rot are not acknowledged any more.
StillAcked(crit) ==
    {i \in acked : i \in DOMAIN crit /\ (crit[i].status # "pass" \/ crit[i].stale)}

\* foldVerifyIntoScorecard, the fold of an MCP verify.
Verify(r) ==
    /\ \E since \in IF card = NoCard THEN {0} ELSE ObservedShas :
        LET changed == IF card = NoCard THEN "unknown" ELSE CodeChanged(since)
            obs == Observe(r, changed, RenderUnchanged, Unscored, TRUE)
            merged == Merge(queue, Opens(card, obs), Closes(card, obs))
        IN /\ card' = Reconcile(card, obs)
           /\ queue' = Reopened(CloseAnswered(merged, spec.contract, card'), Moved)
           /\ ClearProbation(obs)
    /\ Recorded(r) /\ folded' = TRUE
    /\ acked' = StillAcked(card'.criteria)
    /\ UNCHANGED <<code, judged>>

\* The process dies after the run is indexed, or the fold returns
\* written: false (scorecard-unreadable, io-error).
VerifyUnfolded(r) ==
    /\ "unfolded" \in Steps
    /\ UNCHANGED <<code, spec, card, queue, judged, acked>>
    /\ Recorded(r) /\ folded' = FALSE

\* toSpecObservations: no taints, no codeChanged, no renderUnchanged.
SweepObs(r, softStatus) == Observe(r, "unknown", FALSE, softStatus, FALSE)

\* verify --all of local origin: merges the queue without the suppression
\* lifecycle.
Sweep(r) ==
    /\ "sweep" \in Steps
    /\ LET obs == SweepObs(r, Unscored)
       IN /\ card' = Reconcile(card, obs)
          /\ queue' = Merge(queue, Opens(card, obs), Closes(card, obs))
          /\ ClearProbation(obs)
    /\ Recorded(r) /\ folded' = TRUE
    /\ acked' = StillAcked(card'.criteria)
    /\ UNCHANGED <<code, judged>>

\* The number of a score is told apart only where a contract has a threshold.
Numbers == IF \E c \in Contracts : \E i \in DOMAIN c : c[i].threshold
           THEN Scores ELSE {"none"}

ScoresOf(ids) == [id : ids, status : {"pass", "fail", "unverifiable"}, score : Numbers]

\* verify --all --judge: a first fold, the judge's score of one criterion on
\* top of it, then a second fold in which the scored criterion is observed
\* with the status the judge gave it.
SweepJudged(r, s) ==
    /\ "judge" \in Steps
    /\ LET first == Reconcile(card, SweepObs(r, Unscored))
           scored == ApplyScore(first, s, r.sha)
           obs == SweepObs(r, [Unscored EXCEPT ![s.id] = s.status])
           afterFirst == Merge(queue, Opens(card, SweepObs(r, Unscored)),
                                      Closes(card, SweepObs(r, Unscored)))
           afterJudge == Reopened(Merge(afterFirst, ScoreOpens(first, s), ScoreCloses(first, s)),
                                  Moved)
       IN /\ s.id \in SoftOf(spec.contract) /\ Scorable(first, s)
          /\ card' = Reconcile(scored, obs)
          /\ queue' = Merge(afterJudge, Opens(scored, obs), Closes(scored, obs))
          /\ ClearProbation(obs)
    /\ Recorded(r) /\ folded' = TRUE
    /\ judged' = [judged EXCEPT ![s.id] =
                    [text |-> spec.contract[s.id].text, look |-> r.look, score |-> s.score]]
    /\ acked' = StillAcked(card'.criteria)
    /\ UNCHANGED <<code>>

-----------------------------------------------------------------------------
\* The scorer, and the human at the queue.

\* handleScoreSoftCriteria: the rubric is the frozen spec's, the screenshots are
\* the latest run's.
Show ==
    /\ run # NoRun
    /\ shown' = [rubric |-> spec.contract, look |-> run.look]
    /\ UNCHANGED <<code, spec, run, card, queue, folded, judged, acked>>

\* handleRecordSoftScores: the score is stamped with the sha of the latest
\* run, read when the score arrives.
Record(s) ==
    /\ shown # NotShown
    /\ s.id \in SoftOf(shown.rubric) /\ Scorable(card, s)
    /\ card' = ApplyScore(card, s, run.sha)
    /\ card'.streak.count <= MaxStreak
    /\ queue' = Reopened(Merge(queue, ScoreOpens(card, s), ScoreCloses(card, s)), Moved)
    /\ judged' = [judged EXCEPT ![s.id] =
                    [text |-> shown.rubric[s.id].text, look |-> shown.look, score |-> s.score]]
    /\ shown' = NotShown
    /\ acked' = StillAcked(card'.criteria)
    /\ UNCHANGED <<code, spec, run, folded>>

\* suppressSignal, then persistSignalTransitions.
Suppress(row) ==
    /\ "park" \in Steps
    /\ queue[row].state = "open"
    /\ queue' = Reopened([queue EXCEPT ![row] = [state |-> "suppressed", parkedAt |-> head]],
                         Moved)
    /\ acked' = acked \cup ({row[2]} \cap Criteria)
    /\ UNCHANGED <<code, spec, run, shown, card, folded, judged>>

\* resolveSignalManual.
Resolve(row) ==
    /\ "park" \in Steps
    /\ queue[row].state # "closed"
    /\ queue' = Reopened([queue EXCEPT ![row] = Closed], Moved)
    /\ acked' = acked \cup ({row[2]} \cap Criteria)
    /\ UNCHANGED <<code, spec, run, shown, card, folded, judged>>

Developing == (\E l \in Looks : Edit(l)) \/ Commit \/ CommitOther \/ Discard \/ \E c \in Contracts : Refreeze(c)

Verifying == \E r \in Runs : \/ Verify(r)
                             \/ VerifyUnfolded(r)
                             \/ Sweep(r)
                             \/ \E s \in ScoresOf(Criteria) : SweepJudged(r, s)

Scoring == Show \/ \E s \in ScoresOf(Criteria) : Record(s)

Tending == \E row \in Rows : Suppress(row) \/ Resolve(row)

Next == Developing \/ Verifying \/ Scoring \/ Tending

Spec == Init /\ [][Next]_vars

-----------------------------------------------------------------------------
\* Types.

\* The recorded run: a verdict of the lattice for each mechanical criterion.
RunOK ==
    /\ run = [version |-> run.version, sha |-> run.sha, look |-> run.look,
              tainted |-> run.tainted, verdicts |-> run.verdicts, contract |-> run.contract]
    /\ run.version \in 0..spec.version /\ run.sha \in 0..head
    /\ run.look \in Looks /\ run.tainted \in BOOLEAN
    /\ run.contract \in Contracts \cup {NoCriteria}
    /\ run.verdicts \in [HardOf(run.contract) -> {"pass", "fail", "unverifiable"}]

\* The scorecard entry: only statuses, scores and commits that exist.
CardOK ==
    /\ card = [version |-> card.version, criteria |-> card.criteria, streak |-> card.streak]
    /\ card.version \in 0..spec.version
    /\ IsPartial(card.criteria, Entry)
    /\ card.streak \in [count : Nat, lastSha : 0..head]

\* Whatever is folded, scored, re-frozen or parked, every variable keeps its shape.
TypeOK ==
    /\ head \in 0..MaxCommits /\ touched \subseteq 1..head
    /\ dirty \in BOOLEAN /\ look \in Looks /\ base \in Looks
    /\ spec \in [version : 1..MaxVersions, contract : Contracts, probation : BOOLEAN]
    /\ RunOK /\ CardOK
    /\ shown \in [rubric : Contracts \cup {NoCriteria}, look : Looks]
    /\ queue \in [Rows -> RowStates]
    /\ folded \in BOOLEAN /\ acked \subseteq Criteria
    /\ judged \in [Criteria -> [text : Texts \cup {"none"}, look : Looks, score : Scores]]

-----------------------------------------------------------------------------
\* Soft scores.

\* What a signed-off or certified spec counts as a current judgment.
FreshPasses == {i \in SoftOf(card.criteria) :
                   card.criteria[i].status = "pass" /\ ~card.criteria[i].stale}

\* Right after a fold, a soft pass that is not flagged stale was given by a
\* scorer who saw what the folded run shows: "a soft score rests on the PIXELS
\* the judge saw" (render-identity.ts:6).
FreshPassSawTheRender ==
    folded => \A i \in FreshPasses : judged[i].look = run.look

\* ... and, once the frozen spec has been folded, answers its text: "a soft pass
\* scored against v1's criterion text is not evidence for v2's"
\* (render-identity.ts:47).
FreshPassAnswersContract ==
    card.version = spec.version =>
        \A i \in FreshPasses : judged[i].text = spec.contract[i].text

\* A stale score is somebody's task: its needs-rescoring row is in the queue,
\* parked, or was closed by a human.
StaleIsQueued ==
    \A i \in SoftOf(card.criteria) :
        card.criteria[i].stale => i \in acked \/ queue[<<"needs-rescoring", i>>].state # "closed"

-----------------------------------------------------------------------------
\* The stop signal.

Green == SignedOff(card.criteria) /\ folded

\* The criteria that gate by the contract of the latest run.
Gating == {i \in DOMAIN run.contract : run.contract[i].severity # "advisory"}

\* A signed-off card has every gating mechanical criterion of the contract
\* passing in the run it was folded from: no score, carry or re-freeze stands
\* in for a mechanical verdict (scorecard.ts:1160, "Gate integrity").
MechanicalGreenIsProven ==
    Green => \A i \in Gating \cap DOMAIN run.verdicts : run.verdicts[i] = "pass"

\* No criterion that gates by the frozen contract fails on a signed-off card:
\* "the frozen spec, not the prior tick, owns those weights" (scorecard.ts:920).
GreenHonoursSeverity ==
    Green => \A i \in Gating : card.criteria[i].status = "pass"

\* A judgment below the contract's threshold never signs off.
GreenMeetsThreshold ==
    Green => \A i \in Gating \ DOMAIN run.verdicts :
                run.contract[i].threshold => judged[i].score # "low"

\* Degraded evidence never signs off a gating criterion: it cannot "launder an
\* older taint away" (scorecard.ts:929).
GreenIsUntainted == Green => ~run.tainted \/ Gating = {}

-----------------------------------------------------------------------------
\* The queue.

\* A mechanical criterion that fails or cannot be verified is somebody's task.
FailingIsQueued ==
    \A i \in HardOf(card.criteria) :
        card.criteria[i].status # "pass" =>
            \/ i \in acked
            \/ \E kind \in CriterionKinds : queue[<<kind, i>>].state # "closed"

\* An open row describes the card: nothing that recovered, was scored or left
\* the spec is still a task.
OpenRowIsLive(row) ==
    LET i == row[2]
        status == Was(card, i)
    IN CASE row = CoverageDrop -> Coverage(card.criteria) \notin {Unmeasured, 100}
         [] row[1] = "needs-scoring" -> status = "unscored"
         [] row[1] = "needs-rescoring" -> i \in DOMAIN card.criteria /\ card.criteria[i].stale
         [] OTHER -> status \in {"fail", "unverifiable"}

NoZombieSignals == \A row \in Rows : queue[row].state = "open" => OpenRowIsLive(row)

\* "Criteria that left the spec are zombies: resolve any open signals that
\* referenced them" (scorecard.ts:861): no open row names a departed criterion.
DepartedSignalsClosed ==
    \A row \in Rows \ {CoverageDrop} :
        queue[row].state = "open" => row[2] \in DOMAIN card.criteria

\* A spec still on probation has caused nothing of high severity: it "CANNOT
\* generate high-severity signals" (spec-schema.ts:615).
NoRegressionOnProbation ==
    spec.probation => \A i \in Criteria : queue[<<"regression", i>>].state = "closed"

-----------------------------------------------------------------------------
\* Certification.

\* "Consecutive CLEAN verifications at the current specHash, counted once per
\* distinct commit": with the first commit numbered 0, commits from the
\* first clean one to the last bound the count.
StreakCountsCommits == card.streak.count <= card.streak.lastSha + 1
=============================================================================
