------------------------------ MODULE Scorecard ------------------------------
(***************************************************************************)
(* The pure half of a spec's standing: what packages/verify-spec writes    *)
(* into .validity/scorecard.json and .validity/signals.json for one spec   *)
(* when a verify is folded, when soft scores are recorded and when a human *)
(* parks or closes a signal.  Every operator is a function of its          *)
(* arguments; module Standing holds the state and the interleavings.       *)
(*                                                                         *)
(* A criterion is described by three partial functions over Criteria: the  *)
(* frozen contract, what one verify observed, and the scorecard entry.     *)
(* Details, timestamps and judge names are left out.  "property" criteria  *)
(* behave as "hard" ones everywhere here, and a numeric soft score is one  *)
(* of "none", "low" (below the threshold) or "high".                       *)
(***************************************************************************)
EXTENDS Integers, FiniteSets

CONSTANT Criteria

Tiers == {"hard", "soft"}
Severities == {"unset", "blocking", "advisory"}
Statuses == {"pass", "fail", "unverifiable", "unscored"}
Scores == {"none", "low", "high"}

\* A criterion of a frozen spec; threshold: is a softThreshold set?
Texts == {"first", "second"}
Clause == [tier : Tiers, severity : Severities, threshold : BOOLEAN, text : Texts]

\* A criterion of a tick's observation, and of the scorecard.
Observed == [tier : Tiers, severity : Severities, threshold : BOOLEAN,
             status : Statuses, tainted : BOOLEAN]
Entry == [tier : Tiers, severity : Severities, threshold : BOOLEAN,
          status : Statuses, score : Scores, tainted : BOOLEAN,
          stale : BOOLEAN, sha : Nat]

\* f is a partial function from Criteria to S.
IsPartial(f, S) == DOMAIN f \subseteq Criteria /\ f \in [DOMAIN f -> S]
NoCriteria == [i \in {} |-> {}]

-----------------------------------------------------------------------------
\* Rollups of a criteria map.

\* Mutant: a criterion gates only when it says so.
BlocksWhenNamed(c) == c.severity = "blocking"

Blocks(c) == c.severity # "advisory"
ThresholdMet(c) == c.threshold => c.score # "low"
Signs(c) == c.status = "pass" /\ ~c.tainted /\ (c.tier = "soft" => ThresholdMet(c))

\* The stop rule.
SignedOff(crit) ==
    /\ DOMAIN crit # {}
    /\ \A i \in DOMAIN crit : Blocks(crit[i]) => Signs(crit[i])

HardOf(crit) == {i \in DOMAIN crit : crit[i].tier = "hard"}
SoftOf(crit) == {i \in DOMAIN crit : crit[i].tier = "soft"}

\* Percent of the mechanical criteria that are decided, rounded half up;
\* Unmeasured when there are none.
Unmeasured == -1
Coverage(crit) ==
    LET total == Cardinality(HardOf(crit))
        decided == Cardinality({i \in HardOf(crit) : crit[i].status \in {"pass", "fail"}})
    IN IF total = 0 THEN Unmeasured ELSE (200 * decided + total) \div (2 * total)

\* Clean for certification: signed off, and no blocking score is stale.
Clean(crit) ==
    SignedOff(crit) /\ \A i \in DOMAIN crit : ~(Blocks(crit[i]) /\ crit[i].stale)

-----------------------------------------------------------------------------
\* reconcileScorecard for one observed spec.  A card is the spec's entry: the
\* contract version it was folded from (0: no entry yet), its criteria and
\* the clean streak.  An obs has the fields of SpecObservation.

NoStreak == [count |-> 0, lastSha |-> 0]
NoCard == [version |-> 0, criteria |-> NoCriteria, streak |-> NoStreak]

SpecChanged(card, obs) == card.version # 0 /\ card.version # obs.version

\* Rule 1: an unscored observation does not erase a soft score.
CarriesScore(card, obs, i) ==
    /\ obs.criteria[i].status = "unscored"
    /\ i \in DOMAIN card.criteria
    /\ card.criteria[i].tier = "soft"
    /\ card.criteria[i].status # "unscored"

CodeMoved(before, obs) ==
    /\ ~obs.renderUnchanged
    /\ \/ obs.codeChanged = "yes"
       \/ obs.codeChanged = "unknown" /\ obs.sha # before.sha

\* Mutants: a quiet tick makes a stale score fresh; a score keeps the taints it
\* was given on; it keeps the severity it was given under.
CarriedUnstaled(before, seen, obs) ==
    [before EXCEPT !.severity = IF seen.severity = "unset" THEN @ ELSE seen.severity,
                   !.threshold = @ \/ seen.threshold,
                   !.stale = CodeMoved(before, obs),
                   !.tainted = seen.tainted]
CarriedTaints(before, seen, obs) ==
    [before EXCEPT !.severity = IF seen.severity = "unset" THEN @ ELSE seen.severity,
                   !.threshold = @ \/ seen.threshold,
                   !.stale = @ \/ CodeMoved(before, obs)]
CarriedSeverity(before, seen, obs) ==
    [before EXCEPT !.threshold = @ \/ seen.threshold,
                   !.stale = @ \/ CodeMoved(before, obs),
                   !.tainted = seen.tainted]

CarriedScore(before, seen, obs) ==
    [before EXCEPT !.severity = IF seen.severity = "unset" THEN @ ELSE seen.severity,
                   !.threshold = @ \/ seen.threshold,
                   !.stale = @ \/ CodeMoved(before, obs),
                   !.tainted = seen.tainted]

FreshEntry(seen, obs) ==
    [tier |-> seen.tier, severity |-> seen.severity, threshold |-> seen.threshold,
     status |-> seen.status, score |-> "none", tainted |-> seen.tainted,
     stale |-> FALSE, sha |-> obs.sha]

\* Criteria the observation omits are carried only within one frozen version.
\* (Mutant: they are carried across a re-freeze.)
KeptAlways(card, obs) == DOMAIN card.criteria \ DOMAIN obs.criteria

KeptCriteria(card, obs) ==
    IF SpecChanged(card, obs) THEN {} ELSE DOMAIN card.criteria \ DOMAIN obs.criteria

NextCriteria(card, obs) ==
    [i \in DOMAIN obs.criteria \cup KeptCriteria(card, obs) |->
        IF i \notin DOMAIN obs.criteria THEN card.criteria[i]
        ELSE IF CarriesScore(card, obs, i)
             THEN CarriedScore(card.criteria[i], obs.criteria[i], obs)
             ELSE FreshEntry(obs.criteria[i], obs)]

\* Counted once per distinct commit, says the comment on cleanStreak.
NextStreak(card, obs, crit) ==
    LET streak == card.streak
        restarts == SpecChanged(card, obs) \/ streak.count = 0
        advances == obs.codeChanged = "yes" \/ streak.lastSha # obs.sha
    IN IF ~Clean(crit) THEN NoStreak
       ELSE IF restarts THEN [count |-> 1, lastSha |-> obs.sha]
       ELSE IF advances THEN [count |-> streak.count + 1, lastSha |-> obs.sha]
       ELSE streak

Reconcile(card, obs) ==
    LET crit == NextCriteria(card, obs)
    IN [version |-> obs.version, criteria |-> crit, streak |-> NextStreak(card, obs, crit)]

-----------------------------------------------------------------------------
\* The signals a fold emits.  A row of the queue is <<kind, criterion>>;
\* coverage-drop is about the whole spec.  The notices that are born resolved
\* (recovered, spec-changed) are no rows: only what they close is modelled.

CriterionKinds == {"regression", "unverifiable", "needs-review",
                   "needs-scoring", "needs-rescoring"}
CoverageDrop == <<"coverage-drop", "spec">>
Rows == (CriterionKinds \X Criteria) \cup {CoverageDrop}

Was(card, i) == IF i \in DOMAIN card.criteria THEN card.criteria[i].status ELSE "absent"

\* The kind of row criterion i opens, or "none".
\* (Mutant: a criterion that is unverifiable from the start opens nothing.)
OpenedOnlyOnChange(card, obs, i) ==
    LET was == Was(card, i)
        now == obs.criteria[i].status
    IN CASE now = "fail" /\ was \in {"pass", "absent"} -> "regression"
         [] now = "unverifiable" /\ was = "pass" -> "unverifiable"
         [] OTHER -> "none"

OpenedKind(card, obs, i) ==
    LET was == Was(card, i)
        now == obs.criteria[i].status
    IN CASE CarriesScore(card, obs, i) ->
                IF card.criteria[i].stale \/ CodeMoved(card.criteria[i], obs)
                THEN "needs-rescoring" ELSE "none"
         [] now = "unscored" /\ ~CarriesScore(card, obs, i) ->
                IF was = "absent" \/ card.criteria[i].tier # "soft"
                THEN "needs-scoring" ELSE "none"
         [] now = "fail" /\ was = "pass" ->
                IF obs.probation THEN "needs-review" ELSE "regression"
         [] now = "fail" /\ was = "absent" -> "regression"
         [] now = "unverifiable" /\ was \in {"pass", "absent"} -> "unverifiable"
         [] OTHER -> "none"

\* The coverages were both measured, and the first is the lower.
Lower(c, d) == c # Unmeasured /\ d # Unmeasured /\ c < d

Opens(card, obs) ==
    LET opened == {<<OpenedKind(card, obs, i), i>> : i \in DOMAIN obs.criteria}
        worse == Lower(Coverage(NextCriteria(card, obs)), Coverage(card.criteria))
    IN {row \in opened : row[1] # "none"} \cup IF worse THEN {CoverageDrop} ELSE {}

\* A recovery closes whatever said that the criterion was not passing.
\* (Mutant: only the regression.)
RecoveryClosesRegression(i) == {<<"regression", i>>}

RecoveryCloses(i) == {"regression", "unverifiable", "needs-review"} \X {i}

Recovers(card, obs, i) ==
    /\ ~CarriesScore(card, obs, i)
    /\ Was(card, i) \in {"fail", "unverifiable"}
    /\ obs.criteria[i].status = "pass"

\* On a re-freeze a departed criterion's rows are closed by its last status.
DepartedCloses(before, i) ==
    LET kinds == CASE before.status = "fail" -> {"regression", "needs-review"}
                   [] before.status = "unverifiable" -> {"unverifiable"}
                   [] before.status = "unscored" -> {"needs-scoring"}
                   [] OTHER -> {}
    IN (kinds \cup (IF before.stale THEN {"needs-rescoring"} ELSE {})) \X {i}

Departed(card, obs) ==
    IF SpecChanged(card, obs) THEN DOMAIN card.criteria \ DOMAIN obs.criteria ELSE {}

Closes(card, obs) ==
    LET better == Lower(Coverage(card.criteria), Coverage(NextCriteria(card, obs)))
        recovered == {i \in DOMAIN obs.criteria : Recovers(card, obs, i)}
    IN (UNION {RecoveryCloses(i) : i \in recovered})
         \cup (UNION {DepartedCloses(card.criteria[i], i) : i \in Departed(card, obs)})
         \cup (IF better THEN {CoverageDrop} ELSE {})

-----------------------------------------------------------------------------
\* applySoftScores for one criterion: [id, status, score] judged at run sha.

Scorable(card, s) == s.id \in DOMAIN card.criteria /\ card.criteria[s.id].tier = "soft"

\* A pass on tainted evidence is stored as unverifiable.
Clamped(before, s) ==
    IF s.status = "pass" /\ before.tainted THEN "unverifiable" ELSE s.status

\* Mutants: the numeric score is dropped; the stale flag is not reset.
ScoredWithoutNumber(card, s, sha) ==
    LET before == card.criteria[s.id]
    IN [card.criteria EXCEPT ![s.id] =
           [before EXCEPT !.status = Clamped(before, s), !.stale = FALSE, !.sha = sha]]
ScoredStillStale(card, s, sha) ==
    LET before == card.criteria[s.id]
    IN [card.criteria EXCEPT ![s.id] =
           [before EXCEPT !.status = Clamped(before, s), !.score = s.score, !.sha = sha]]

ScoredCriteria(card, s, sha) ==
    LET before == card.criteria[s.id]
    IN [card.criteria EXCEPT ![s.id] =
           [before EXCEPT !.status = Clamped(before, s), !.score = s.score,
                          !.stale = FALSE, !.sha = sha]]

ScoredStreak(streak, crit, sha) ==
    IF ~Clean(crit) THEN NoStreak
    ELSE IF streak.count = 0 THEN [count |-> 1, lastSha |-> sha]
    ELSE IF streak.lastSha # sha THEN [count |-> streak.count + 1, lastSha |-> sha]
    ELSE streak

ApplyScore(card, s, sha) ==
    LET crit == ScoredCriteria(card, s, sha)
    IN [version |-> card.version, criteria |-> crit,
        streak |-> ScoredStreak(card.streak, crit, sha)]

ScoreOpens(card, s) ==
    LET before == card.criteria[s.id]
    IN IF before.status = "pass" /\ Clamped(before, s) = "fail"
       THEN {<<"regression", s.id>>} ELSE {}

ScoreCloses(card, s) ==
    LET before == card.criteria[s.id]
        recovers == before.status \in {"fail", "unverifiable"} /\ Clamped(before, s) = "pass"
    IN (IF before.status = "unscored" THEN {<<"needs-scoring", s.id>>} ELSE {})
         \cup (IF before.stale THEN {<<"needs-rescoring", s.id>>} ELSE {})
         \cup (IF recovers THEN RecoveryCloses(s.id) ELSE {})

-----------------------------------------------------------------------------
\* The queue: per row, closed, open, or suppressed at a commit.

Closed == [state |-> "closed", parkedAt |-> 0]
Open == [state |-> "open", parkedAt |-> 0]
RowStates == [state : {"closed", "open", "suppressed"}, parkedAt : Nat]

\* mergeSignals: a re-fired suppressed row stays parked; a row that opens is
\* never among those the same fold closes.
Merge(queue, opens, closes) ==
    [row \in Rows |->
        CASE row \in closes -> Closed
          [] row \in opens \ closes /\ queue[row].state # "suppressed" -> Open
          [] OTHER -> queue[row]]

\* staleSignalReason: the state on disk already answers the row.
Answered(row, contract, card) ==
    LET i == row[2]
        recorded == i \in DOMAIN card.criteria
    IN /\ row # CoverageDrop
       /\ \/ i \notin DOMAIN contract
          \/ /\ row[1] = "needs-scoring"
             /\ recorded /\ card.criteria[i].status # "unscored"
          \/ /\ row[1] = "needs-rescoring"
             /\ recorded /\ card.criteria[i].status # "unscored" /\ ~card.criteria[i].stale
          \/ /\ row[1] \in {"needs-scoring", "needs-rescoring"}
             /\ contract[i].tier # "soft"
          \/ /\ row[1] \in {"regression", "needs-review", "unverifiable"}
             /\ recorded /\ card.criteria[i].status = "pass"

\* reconcileSuppressedSignals.  A parked row is closed when this call observed
\* the spec and the row is answered; otherwise it is reopened when code the spec
\* depends on was committed since it was parked (moved: the commits that holds of).
CloseAnswered(queue, contract, card) ==
    [row \in Rows |->
        IF queue[row].state = "suppressed" /\ Answered(row, contract, card)
        THEN Closed ELSE queue[row]]

Reopened(queue, moved) ==
    [row \in Rows |->
        IF queue[row].state = "suppressed" /\ queue[row].parkedAt \in moved
        THEN Open ELSE queue[row]]
=============================================================================
