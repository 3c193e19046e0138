--------------------------- MODULE StandingProofs ---------------------------
(***************************************************************************)
(* What the sign-off of a spec is worth for every set of criteria, every   *)
(* contract, any number of commits and re-freezes, and every combination   *)
(* of the optional behaviours.                                             *)
(***************************************************************************)
EXTENDS Standing, FiniteSetTheorems, TLAPS

(* What a fold writes for a criterion that was observed with a mechanical   *)
(* status: an entry of its own, whatever the card held.                     *)
LEMMA ObservedIsWritten ==
    ASSUME NEW c, NEW obs, NEW i \in DOMAIN obs.criteria,
           obs.criteria[i].status # "unscored"
    PROVE  /\ i \in DOMAIN Reconcile(c, obs).criteria
           /\ Reconcile(c, obs).criteria[i] = FreshEntry(obs.criteria[i], obs)
<1>1. ~CarriesScore(c, obs, i)
  BY DEF CarriesScore
<1>2. i \in DOMAIN NextCriteria(c, obs)
  BY DEF NextCriteria
<1>3. NextCriteria(c, obs)[i] = FreshEntry(obs.criteria[i], obs)
  BY <1>1, <1>2 DEF NextCriteria
<1> QED
  BY <1>2, <1>3 DEF Reconcile

(* An observation of a run describes the frozen contract, and repeats the   *)
(* verdicts of its mechanical criteria.                                     *)
LEMMA ObservationOfRun ==
    ASSUME NEW r \in Runs, NEW ch, NEW un, NEW st, NEW tn
    PROVE  LET obs == Observe(r, ch, un, st, tn)
           IN /\ DOMAIN obs.criteria = DOMAIN spec.contract
              /\ \A i \in DOMAIN spec.contract :
                    /\ obs.criteria[i].tier = spec.contract[i].tier
                    /\ obs.criteria[i].severity = spec.contract[i].severity
                    /\ obs.criteria[i].threshold = spec.contract[i].threshold
                    /\ obs.criteria[i].tainted = (tn /\ r.tainted)
                    /\ i \in Hard => obs.criteria[i].status = r.verdicts[i]
                    /\ i \notin Hard => obs.criteria[i].status = st[i]
  BY DEF Observe

(* A recorded run has the verdicts of the contract it was made under. *)
LEMMA RunShape ==
    ASSUME NEW r \in Runs
    PROVE  /\ r.contract = spec.contract
           /\ DOMAIN r.verdicts = HardOf(r.contract)
           /\ \A i \in HardOf(r.contract) : r.verdicts[i] \in {"pass", "fail", "unverifiable"}
  BY DEF Runs, Hard, HardOf

-----------------------------------------------------------------------------

(* After a fold the card repeats the verdicts of the latest run: no carry,  *)
(* score or re-freeze stands in for a mechanical verdict.                   *)
Mirrors(i) ==
    /\ i \in DOMAIN card.criteria
    /\ card.criteria[i].tier = "hard"
    /\ card.criteria[i].severity = run.contract[i].severity
    /\ card.criteria[i].status = run.verdicts[i]

MirrorInv ==
    /\ DOMAIN run.verdicts = HardOf(run.contract)
    /\ folded => \A i \in HardOf(run.contract) : Mirrors(i)

LEMMA FoldMirrors ==
    ASSUME NEW r \in Runs, NEW c, NEW ch, NEW un, NEW st, NEW tn,
           card' = Reconcile(c, Observe(r, ch, un, st, tn)), run' = r
    PROVE  MirrorInv'
<1> DEFINE obs == Observe(r, ch, un, st, tn)
<1>2. /\ run'.contract = spec.contract
      /\ DOMAIN run'.verdicts = HardOf(run'.contract)
  BY RunShape
<1>3. ASSUME NEW i \in HardOf(run'.contract) PROVE Mirrors(i)'
  <2>1. i \in DOMAIN spec.contract /\ spec.contract[i].tier = "hard" /\ i \in Hard
    BY <1>2, <1>3 DEF HardOf, Hard
  <2>2. r.verdicts[i] # "unscored"
    BY <1>2, <1>3, RunShape
  <2>3. /\ i \in DOMAIN obs.criteria
        /\ obs.criteria[i].tier = "hard"
        /\ obs.criteria[i].severity = spec.contract[i].severity
        /\ obs.criteria[i].status = r.verdicts[i]
    BY <2>1, ObservationOfRun
  <2>4. /\ i \in DOMAIN card'.criteria
        /\ card'.criteria[i] = FreshEntry(obs.criteria[i], obs)
    BY <2>2, <2>3, ObservedIsWritten
  <2> QED
    BY <1>2, <2>3, <2>4 DEF Mirrors, FreshEntry
<1> QED
  BY <1>2, <1>3 DEF MirrorInv

LEMMA ScoreMirrors ==
    ASSUME MirrorInv, NEW s, Record(s) PROVE MirrorInv'
<1>1. /\ card' = ApplyScore(card, s, run.sha)
      /\ s.id \in DOMAIN card.criteria /\ card.criteria[s.id].tier = "soft"
      /\ UNCHANGED <<run, folded>>
  BY DEF Record, Scorable
<1>2. card'.criteria = ScoredCriteria(card, s, run.sha)
  BY <1>1 DEF ApplyScore
<1>3. ASSUME NEW i \in DOMAIN card.criteria, card.criteria[i].tier = "hard"
      PROVE  i \in DOMAIN card'.criteria /\ card'.criteria[i] = card.criteria[i]
  BY <1>1, <1>2, <1>3 DEF ScoredCriteria
<1> QED
  BY <1>1, <1>2, <1>3 DEF MirrorInv, Mirrors

LEMMA MirrorStep == MirrorInv /\ [Next]_vars => MirrorInv'
<1> SUFFICES ASSUME MirrorInv, [Next]_vars PROVE MirrorInv'
  OBVIOUS
<1>1. ASSUME UNCHANGED <<run, card, folded>> PROVE MirrorInv'
  BY <1>1 DEF MirrorInv, Mirrors
<1>2. CASE Developing
  BY <1>1, <1>2 DEF Developing, Edit, Commit, CommitOther, Discard, Refreeze
<1>3. CASE Tending
  BY <1>1, <1>3 DEF Tending, Suppress, Resolve
<1>4. CASE Show
  BY <1>1, <1>4 DEF Show
<1>5. ASSUME NEW s \in ScoresOf(Criteria), Record(s) PROVE MirrorInv'
  BY <1>5, ScoreMirrors
<1>6. ASSUME NEW r \in Runs, Verify(r) PROVE MirrorInv'
  BY <1>6, FoldMirrors DEF Verify, Recorded
<1>7. ASSUME NEW r \in Runs, VerifyUnfolded(r) PROVE MirrorInv'
  BY <1>7, RunShape DEF VerifyUnfolded, Recorded, MirrorInv
<1>8. ASSUME NEW r \in Runs, Sweep(r) PROVE MirrorInv'
  BY <1>8, FoldMirrors DEF Sweep, Recorded, SweepObs
<1>9. ASSUME NEW r \in Runs, NEW s \in ScoresOf(Criteria), SweepJudged(r, s) PROVE MirrorInv'
  BY <1>9, FoldMirrors DEF SweepJudged, Recorded, SweepObs
<1>10. CASE UNCHANGED vars
  BY <1>1, <1>10 DEF vars
<1> QED
  BY <1>2, <1>3, <1>4, <1>5, <1>6, <1>7, <1>8, <1>9, <1>10
     DEF Next, Verifying, Scoring

(* A spec signs off only on mechanical criteria that the latest run proved, *)
(* whatever was scored, carried, re-frozen, suppressed or swept before.     *)
THEOREM GreenIsProven == Spec => []MechanicalGreenIsProven
<1>1. Init => MirrorInv
  BY DEF Init, MirrorInv, NoCard, NoRun, NoCriteria, HardOf
<1>2. MirrorInv => MechanicalGreenIsProven
  <2> SUFFICES ASSUME MirrorInv, Green, NEW i \in Gating \cap DOMAIN run.verdicts
               PROVE  run.verdicts[i] = "pass"
    BY DEF MechanicalGreenIsProven
  <2>1. Mirrors(i) /\ run.contract[i].severity # "advisory"
    BY DEF MirrorInv, Green, Gating
  <2>2. card.criteria[i].status = "pass"
    BY <2>1 DEF Mirrors, Green, SignedOff, Blocks, Signs
  <2> QED
    BY <2>1, <2>2 DEF Mirrors
<1> QED
  BY <1>1, <1>2, MirrorStep, PTL DEF Spec

-----------------------------------------------------------------------------

(* What a fold keeps of the shape of a card. *)
LEMMA ReconcileTypes ==
    ASSUME NEW c, NEW obs,
           IsPartial(c.criteria, Entry), IsPartial(obs.criteria, Observed),
           obs.sha \in Nat
    PROVE  IsPartial(Reconcile(c, obs).criteria, Entry)
<1> DEFINE crit == NextCriteria(c, obs)
<1>1. DOMAIN crit = DOMAIN obs.criteria \cup KeptCriteria(c, obs)
  BY DEF NextCriteria
<1>2. KeptCriteria(c, obs) \subseteq DOMAIN c.criteria \ DOMAIN obs.criteria
  BY DEF KeptCriteria
<1>3. ASSUME NEW i \in DOMAIN crit PROVE crit[i] \in Entry
  <2>1. CASE i \notin DOMAIN obs.criteria
    <3>1. i \in DOMAIN c.criteria
      BY <2>1, <1>1, <1>2
    <3>2. crit[i] = c.criteria[i]
      BY <2>1 DEF NextCriteria
    <3> QED
      BY <3>1, <3>2 DEF IsPartial
  <2>2. CASE i \in DOMAIN obs.criteria /\ CarriesScore(c, obs, i)
    <3> DEFINE before == c.criteria[i]
               seen == obs.criteria[i]
    <3>1. before \in Entry /\ seen \in Observed
      BY <2>2 DEF CarriesScore, IsPartial
    <3>2. CodeMoved(before, obs) \in BOOLEAN
      BY DEF CodeMoved
    <3>3. CarriedScore(before, seen, obs) \in Entry
      BY <3>1, <3>2 DEF CarriedScore, Entry, Observed
    <3>4. crit[i] = CarriedScore(before, seen, obs)
      BY <2>2 DEF NextCriteria
    <3> QED
      BY <3>3, <3>4
  <2>3. CASE i \in DOMAIN obs.criteria /\ ~CarriesScore(c, obs, i)
    <3>1. obs.criteria[i] \in Observed
      BY <2>3 DEF IsPartial
    <3>2. FreshEntry(obs.criteria[i], obs) \in Entry
      BY <3>1 DEF FreshEntry, Observed, Entry, Scores
    <3>3. crit[i] = FreshEntry(obs.criteria[i], obs)
      BY <2>3 DEF NextCriteria
    <3> QED
      BY <3>2, <3>3
  <2> QED
    BY <2>1, <2>2, <2>3
<1>4. crit \in [DOMAIN crit -> Entry]
  BY <1>3 DEF NextCriteria
<1>5. DOMAIN crit \subseteq Criteria
  BY <1>1, <1>2 DEF IsPartial
<1> QED
  BY <1>4, <1>5 DEF Reconcile, IsPartial

LEMMA StreakTypes ==
    ASSUME NEW streak, NEW H, NEW sha \in H,
           streak \in [count : Nat, lastSha : H], 0 \in H
    PROVE  /\ \A c, obs, crit : c.streak = streak /\ obs.sha = sha
                 => NextStreak(c, obs, crit) \in [count : Nat, lastSha : H]
           /\ \A crit : ScoredStreak(streak, crit, sha) \in [count : Nat, lastSha : H]
  BY DEF NextStreak, ScoredStreak, NoStreak

(* The observation of a run has the shape of the frozen contract. *)
LEMMA ObserveTypes ==
    ASSUME TypeOK, NEW r \in Runs, NEW ch, NEW un, NEW tn \in BOOLEAN,
           NEW st, \A i \in Criteria : st[i] \in Statuses
    PROVE  LET obs == Observe(r, ch, un, st, tn)
           IN /\ IsPartial(obs.criteria, Observed)
              /\ obs.sha = head
              /\ obs.version = spec.version
<1> DEFINE obs == Observe(r, ch, un, st, tn)
<1>1. /\ IsPartial(spec.contract, Clause)
      /\ r.tainted \in BOOLEAN /\ r.sha = head
  BY ContractsAssumption DEF TypeOK, Runs
<1>2. DOMAIN obs.criteria = DOMAIN spec.contract
  BY DEF Observe
<1>3. ASSUME NEW i \in DOMAIN spec.contract PROVE obs.criteria[i] \in Observed
  <2>1. spec.contract[i] \in Clause /\ i \in Criteria
    BY <1>1 DEF IsPartial
  <2>2. i \in Hard => r.verdicts[i] \in Statuses
    BY DEF Runs, Statuses
  <2>3. (IF i \in Hard THEN r.verdicts[i] ELSE st[i]) \in Statuses
    BY <2>1, <2>2
  <2>4. (tn /\ r.tainted) \in BOOLEAN
    OBVIOUS
  <2>5. obs.criteria[i] =
          [tier |-> spec.contract[i].tier, severity |-> spec.contract[i].severity,
           threshold |-> spec.contract[i].threshold,
           status |-> IF i \in Hard THEN r.verdicts[i] ELSE st[i],
           tainted |-> tn /\ r.tainted]
    BY DEF Observe
  <2> QED
    BY <2>1, <2>3, <2>4, <2>5 DEF Clause, Observed
<1>4. obs.criteria \in [DOMAIN obs.criteria -> Observed]
  BY <1>2, <1>3 DEF Observe
<1>5. obs.sha = head /\ obs.version = spec.version
  BY <1>1 DEF Observe
<1> QED
  BY <1>1, <1>2, <1>4, <1>5 DEF IsPartial

(* The card that a fold of a run computes. *)
LEMMA FoldShape ==
    ASSUME TypeOK, NEW r \in Runs, NEW ch, NEW un, NEW tn \in BOOLEAN,
           NEW st, \A i \in Criteria : st[i] \in Statuses,
           NEW c, IsPartial(c.criteria, Entry),
           c.streak \in [count : Nat, lastSha : 0..head]
    PROVE  LET d == Reconcile(c, Observe(r, ch, un, st, tn))
           IN /\ d = [version |-> d.version, criteria |-> d.criteria, streak |-> d.streak]
              /\ d.version = spec.version
              /\ IsPartial(d.criteria, Entry)
              /\ d.streak \in [count : Nat, lastSha : 0..head]
<1> DEFINE obs == Observe(r, ch, un, st, tn)
           d == Reconcile(c, obs)
<1>1. IsPartial(obs.criteria, Observed) /\ obs.sha = head /\ obs.version = spec.version
  BY ObserveTypes
<1>2. head \in Nat
  BY BoundsAssumption DEF TypeOK
<1>3. IsPartial(d.criteria, Entry)
  BY <1>1, <1>2, ReconcileTypes
<1>4. NextStreak(c, obs, NextCriteria(c, obs)) \in [count : Nat, lastSha : 0..head]
  <2>1. head \in 0..head /\ 0 \in 0..head
    BY <1>2
  <2> QED
    BY <1>1, <2>1, StreakTypes
<1>5. /\ d = [version |-> d.version, criteria |-> d.criteria, streak |-> d.streak]
      /\ d.version = spec.version
      /\ d.streak = NextStreak(c, obs, NextCriteria(c, obs))
  BY <1>1 DEF Reconcile
<1> QED
  BY <1>3, <1>4, <1>5

(* ... and, written to disk, it keeps the scorecard's shape. *)
LEMMA FoldTypes ==
    ASSUME TypeOK, NEW r \in Runs, NEW ch, NEW un, NEW tn \in BOOLEAN,
           NEW st, \A i \in Criteria : st[i] \in Statuses,
           NEW c, IsPartial(c.criteria, Entry),
           c.streak \in [count : Nat, lastSha : 0..head],
           card' = Reconcile(c, Observe(r, ch, un, st, tn)),
           head' = head, spec'.version = spec.version
    PROVE  CardOK'
<1>1. /\ card' = [version |-> card'.version, criteria |-> card'.criteria, streak |-> card'.streak]
      /\ card'.version = spec.version
      /\ IsPartial(card'.criteria, Entry)
      /\ card'.streak \in [count : Nat, lastSha : 0..head]
  BY FoldShape
<1>2. spec.version \in Nat
  BY BoundsAssumption DEF TypeOK
<1> QED
  BY <1>1, <1>2 DEF CardOK

(* The run that a verify records. *)
LEMMA RunTypes ==
    ASSUME TypeOK, NEW r \in Runs, run' = r, head' = head, spec'.version = spec.version
    PROVE  RunOK'
<1>1. /\ r = [version |-> r.version, sha |-> r.sha, look |-> r.look, tainted |-> r.tainted,
              verdicts |-> r.verdicts, contract |-> r.contract]
      /\ r.version = spec.version /\ r.sha = head /\ r.look = look
      /\ r.tainted \in BOOLEAN /\ r.contract = spec.contract
      /\ r.verdicts \in [Hard -> {"pass", "fail", "unverifiable"}]
  BY DEF Runs
<1>2. Hard = HardOf(r.contract)
  BY <1>1 DEF Hard, HardOf
<1>3. spec.version \in 0..spec.version /\ head \in 0..head
  BY BoundsAssumption DEF TypeOK
<1> QED
  BY <1>1, <1>2, <1>3 DEF RunOK, TypeOK

(* What a score does to the shape of a card. *)
LEMMA ApplyScoreTypes ==
    ASSUME NEW c, IsPartial(c.criteria, Entry), NEW H, NEW sha \in H, H \subseteq Nat, 0 \in H,
           c.streak \in [count : Nat, lastSha : H],
           NEW s \in ScoresOf(Criteria), Scorable(c, s)
    PROVE  LET d == ApplyScore(c, s, sha)
           IN /\ d = [version |-> d.version, criteria |-> d.criteria, streak |-> d.streak]
              /\ d.version = c.version
              /\ IsPartial(d.criteria, Entry)
              /\ d.streak \in [count : Nat, lastSha : H]
<1> DEFINE crit == ScoredCriteria(c, s, sha)
           before == c.criteria[s.id]
           after == [before EXCEPT !.status = Clamped(before, s), !.score = s.score,
                                   !.stale = FALSE, !.sha = sha]
<1>1. s.id \in DOMAIN c.criteria /\ before \in Entry
  BY DEF Scorable, IsPartial
<1>2. s.score \in Scores /\ s.status \in Statuses
  BY DEF ScoresOf, Numbers, Scores, Statuses
<1>3. Clamped(before, s) \in Statuses
  BY <1>2 DEF Clamped, Statuses
<1>4. after \in Entry
  BY <1>1, <1>2, <1>3 DEF Entry
<1>5. crit = [c.criteria EXCEPT ![s.id] = after]
  BY DEF ScoredCriteria
<1>6. IsPartial(crit, Entry)
  BY <1>1, <1>4, <1>5 DEF IsPartial
<1>7. ScoredStreak(c.streak, crit, sha) \in [count : Nat, lastSha : H]
  BY StreakTypes
<1>8. ApplyScore(c, s, sha) =
        [version |-> c.version, criteria |-> crit, streak |-> ScoredStreak(c.streak, crit, sha)]
  BY DEF ApplyScore
<1> QED
  BY <1>6, <1>7, <1>8

(* The operations on the queue keep its shape. *)
LEMMA QueueTypes ==
    ASSUME NEW q \in [Rows -> RowStates]
    PROVE  /\ \A opens, closes : Merge(q, opens, closes) \in [Rows -> RowStates]
           /\ \A contract, c : CloseAnswered(q, contract, c) \in [Rows -> RowStates]
           /\ \A moved : Reopened(q, moved) \in [Rows -> RowStates]
<1>1. Open \in RowStates /\ Closed \in RowStates
  BY DEF Open, Closed, RowStates
<1> QED
  BY <1>1 DEF Merge, CloseAnswered, Reopened

LEMMA ClearProbationTypes ==
    ASSUME TypeOK, NEW obs, ClearProbation(obs)
    PROVE  /\ spec' \in [version : 1..MaxVersions, contract : Contracts, probation : BOOLEAN]
           /\ spec'.version = spec.version /\ spec'.contract = spec.contract
  BY DEF ClearProbation, TypeOK

(* Every step of the developer, a verify, a scorer or a human at the queue  *)
(* keeps the shape of every variable.                                       *)
LEMMA TypeStep == TypeOK /\ [Next]_vars => TypeOK'
<1> SUFFICES ASSUME TypeOK, [Next]_vars PROVE TypeOK'
  OBVIOUS
<1>0. /\ \A i \in Criteria : Unscored[i] \in Statuses
      /\ TRUE \in BOOLEAN /\ FALSE \in BOOLEAN
  BY DEF Unscored, Statuses
<1>a. /\ IsPartial(card.criteria, Entry)
      /\ card.streak \in [count : Nat, lastSha : 0..head]
      /\ queue \in [Rows -> RowStates]
  BY DEF TypeOK, CardOK
<1>1. ASSUME NEW l \in Looks, Edit(l) PROVE TypeOK'
  BY <1>1 DEF Edit, TypeOK, RunOK, CardOK
<1>2. CASE Commit
  <2>1. /\ head \in Nat /\ head' \in 0..MaxCommits /\ touched' \subseteq 1..head'
        /\ 0..head \subseteq 0..head'
    BY <1>2, BoundsAssumption DEF Commit, TypeOK
  <2> QED
    BY <1>2, <2>1 DEF Commit, TypeOK, RunOK, CardOK
<1>3. CASE CommitOther
  <2>1. /\ head \in Nat /\ head' \in 0..MaxCommits /\ touched' \subseteq 1..head'
        /\ 0..head \subseteq 0..head'
    BY <1>3, BoundsAssumption DEF CommitOther, TypeOK
  <2> QED
    BY <1>3, <2>1 DEF CommitOther, TypeOK, RunOK, CardOK
<1>4. CASE Discard
  BY <1>4 DEF Discard, TypeOK, RunOK, CardOK
<1>5. ASSUME NEW c \in Contracts, Refreeze(c) PROVE TypeOK'
  <2>1. /\ spec' \in [version : 1..MaxVersions, contract : Contracts, probation : BOOLEAN]
        /\ 0..spec.version \subseteq 0..spec'.version
    <3>1. /\ spec' = [spec EXCEPT !.version = spec.version + 1, !.contract = c]
          /\ spec.version \in 1..MaxVersions /\ spec.version < MaxVersions
      BY <1>5 DEF Refreeze, TypeOK
    <3>2. spec.version + 1 \in 1..MaxVersions /\ 0..spec.version \subseteq 0..(spec.version + 1)
      BY <3>1, BoundsAssumption
    <3>3. spec \in [version : 1..MaxVersions, contract : Contracts, probation : BOOLEAN]
      BY DEF TypeOK
    <3> QED
      BY <3>1, <3>2, <3>3
  <2> QED
    BY <1>5, <2>1 DEF Refreeze, code, TypeOK, RunOK, CardOK
<1>6. ASSUME NEW r \in Runs, Recorded(r) PROVE shown' \in [rubric : Contracts \cup {NoCriteria}, look : Looks]
  BY <1>6, BoundsAssumption DEF Recorded, NotShown, NoRun, TypeOK
<1>7. StillAcked(card'.criteria) \subseteq Criteria
  BY DEF StillAcked, TypeOK
<1>8. ASSUME NEW r \in Runs, Verify(r) PROVE TypeOK'
  <2>1. PICK ch : /\ card' = Reconcile(card, Observe(r, ch, RenderUnchanged, Unscored, TRUE))
                  /\ ClearProbation(Observe(r, ch, RenderUnchanged, Unscored, TRUE))
                  /\ queue' = Reopened(CloseAnswered(Merge(queue,
                         Opens(card, Observe(r, ch, RenderUnchanged, Unscored, TRUE)),
                         Closes(card, Observe(r, ch, RenderUnchanged, Unscored, TRUE))),
                         spec.contract, card'), Moved)
    BY <1>8 DEF Verify
  <2>2. /\ spec' \in [version : 1..MaxVersions, contract : Contracts, probation : BOOLEAN]
        /\ spec'.version = spec.version
    BY <2>1, ClearProbationTypes
  <2>3. CardOK'
    BY <1>0, <1>a, <1>8, <2>1, <2>2, FoldTypes DEF Verify, code
  <2>4. RunOK'
    BY <1>8, <2>2, RunTypes DEF Verify, Recorded, code
  <2>5. queue' \in [Rows -> RowStates]
    BY <1>a, <2>1, QueueTypes
  <2> QED
    BY <1>6, <1>7, <1>8, <2>2, <2>3, <2>4, <2>5 DEF Verify, code, TypeOK
<1>9. ASSUME NEW r \in Runs, VerifyUnfolded(r) PROVE TypeOK'
  <2>1. RunOK'
    BY <1>9, RunTypes DEF VerifyUnfolded, Recorded, code
  <2> QED
    BY <1>6, <1>9, <2>1 DEF VerifyUnfolded, Recorded, code, TypeOK, CardOK
<1>10. ASSUME NEW r \in Runs, Sweep(r) PROVE TypeOK'
  <2> DEFINE obs == Observe(r, "unknown", FALSE, Unscored, FALSE)
  <2>1. /\ card' = Reconcile(card, obs) /\ ClearProbation(obs)
        /\ queue' = Merge(queue, Opens(card, obs), Closes(card, obs))
    BY <1>10 DEF Sweep, SweepObs
  <2>2. /\ spec' \in [version : 1..MaxVersions, contract : Contracts, probation : BOOLEAN]
        /\ spec'.version = spec.version
    BY <2>1, ClearProbationTypes
  <2>3. CardOK'
    BY <1>0, <1>a, <1>10, <2>1, <2>2, FoldTypes DEF Sweep, code
  <2>4. RunOK'
    BY <1>10, <2>2, RunTypes DEF Sweep, Recorded, code
  <2>5. queue' \in [Rows -> RowStates]
    BY <1>a, <2>1, QueueTypes
  <2> QED
    BY <1>6, <1>7, <1>10, <2>2, <2>3, <2>4, <2>5 DEF Sweep, code, TypeOK
<1>11. ASSUME NEW r \in Runs, NEW s \in ScoresOf(Criteria), SweepJudged(r, s) PROVE TypeOK'
  <2> DEFINE obs1 == Observe(r, "unknown", FALSE, Unscored, FALSE)
             st == [Unscored EXCEPT ![s.id] = s.status]
             obs == Observe(r, "unknown", FALSE, st, FALSE)
             first == Reconcile(card, obs1)
             scored == ApplyScore(first, s, r.sha)
  <2>1. /\ card' = Reconcile(scored, obs) /\ ClearProbation(obs) /\ Scorable(first, s)
        /\ s.id \in DOMAIN spec.contract
        /\ queue' = Merge(Reopened(Merge(Merge(queue, Opens(card, obs1), Closes(card, obs1)),
                                         ScoreOpens(first, s), ScoreCloses(first, s)), Moved),
                          Opens(scored, obs), Closes(scored, obs))
    BY <1>11 DEF SweepJudged, SweepObs, SoftOf
  <2>2. /\ spec' \in [version : 1..MaxVersions, contract : Contracts, probation : BOOLEAN]
        /\ spec'.version = spec.version
    BY <2>1, ClearProbationTypes
  <2>3. /\ head \in Nat /\ 0 \in 0..head /\ 0..head \subseteq Nat
        /\ r.sha \in 0..head
    <3>2. head \in Nat
      BY BoundsAssumption DEF TypeOK
    <3>3. r.sha = head
      BY DEF Runs
    <3> QED
      BY <3>2, <3>3
  <2>4. /\ IsPartial(first.criteria, Entry)
        /\ first.streak \in [count : Nat, lastSha : 0..head]
        /\ first = [version |-> first.version, criteria |-> first.criteria, streak |-> first.streak]
    BY <1>0, <1>a, FoldShape
  <2>5. /\ IsPartial(scored.criteria, Entry)
        /\ scored.streak \in [count : Nat, lastSha : 0..head]
    BY <2>1, <2>3, <2>4, ApplyScoreTypes
  <2>6. \A i \in Criteria : st[i] \in Statuses
    BY DEF ScoresOf, Statuses, Unscored
  <2>7. CardOK'
    BY <1>0, <1>11, <2>1, <2>2, <2>5, <2>6, FoldTypes DEF SweepJudged, code
  <2>8. RunOK'
    BY <1>11, <2>2, RunTypes DEF SweepJudged, Recorded, code
  <2>9. queue' \in [Rows -> RowStates]
    BY <1>a, <2>1, QueueTypes
  <2>10. judged' \in [Criteria -> [text : Texts \cup {"none"}, look : Looks, score : Scores]]
    <3>1. s.id \in DOMAIN first.criteria /\ s.id \in Criteria /\ s.score \in Scores
      BY <2>1 DEF Scorable, ScoresOf, Numbers, Scores
    <3>2. r.look \in Looks
      BY DEF Runs, TypeOK
    <3>3. spec.contract[s.id].text \in Texts
      BY <2>1, ContractsAssumption DEF TypeOK, IsPartial, Clause
    <3> QED
      BY <1>11, <3>1, <3>2, <3>3 DEF SweepJudged, TypeOK
  <2> QED
    BY <1>6, <1>7, <1>11, <2>2, <2>7, <2>8, <2>9, <2>10 DEF SweepJudged, code, TypeOK
<1>12. CASE Show
  BY <1>12 DEF Show, code, TypeOK, RunOK, CardOK
<1>13. ASSUME NEW s \in ScoresOf(Criteria), Record(s) PROVE TypeOK'
  <2>1. /\ run.sha \in 0..head /\ 0 \in 0..head /\ 0..head \subseteq Nat
    BY BoundsAssumption DEF TypeOK, RunOK
  <2>2. CardOK'
    <3>1. /\ card = [version |-> card.version, criteria |-> card.criteria, streak |-> card.streak]
          /\ card.version \in 0..spec.version
      BY DEF TypeOK, CardOK
    <3>2. /\ card' = ApplyScore(card, s, run.sha) /\ Scorable(card, s)
          /\ head' = head /\ spec' = spec
      BY <1>13 DEF Record, code
    <3>3. /\ card' = [version |-> card'.version, criteria |-> card'.criteria, streak |-> card'.streak]
          /\ card'.version = card.version
          /\ IsPartial(card'.criteria, Entry)
          /\ card'.streak \in [count : Nat, lastSha : 0..head]
      <4> DEFINE d == ApplyScore(card, s, run.sha)
      <4>1. Scorable(card, s)
        BY <3>2
      <4>2. /\ d = [version |-> d.version, criteria |-> d.criteria, streak |-> d.streak]
            /\ d.version = card.version
            /\ IsPartial(d.criteria, Entry)
            /\ d.streak \in [count : Nat, lastSha : 0..head]
        BY <1>a, <2>1, <4>1, ApplyScoreTypes
      <4>3. card' = d
        BY <3>2
      <4> QED
        BY <4>2, <4>3
    <3> QED
      BY <3>1, <3>2, <3>3 DEF CardOK
  <2>3. queue' \in [Rows -> RowStates]
    BY <1>a, <1>13, QueueTypes DEF Record
  <2>4. shown' \in [rubric : Contracts \cup {NoCriteria}, look : Looks]
    BY <1>13, BoundsAssumption DEF Record, NotShown, NoRun
  <2>5. judged' \in [Criteria -> [text : Texts \cup {"none"}, look : Looks, score : Scores]]
    <3>1. s.id \in Criteria /\ s.score \in Scores
      BY DEF ScoresOf, Numbers, Scores
    <3>2. s.id \in DOMAIN shown.rubric
      BY <1>13 DEF Record, SoftOf
    <3>3. IsPartial(shown.rubric, Clause)
      BY <3>2, ContractsAssumption DEF TypeOK, NoCriteria
    <3>4. shown.rubric[s.id].text \in Texts /\ shown.look \in Looks
      BY <3>2, <3>3 DEF IsPartial, Clause, TypeOK
    <3> QED
      BY <1>13, <3>1, <3>4 DEF Record, TypeOK
  <2> QED
    BY <1>7, <1>13, <2>2, <2>3, <2>4, <2>5 DEF Record, code, TypeOK, RunOK
<1>14. ASSUME NEW row \in Rows, Suppress(row) PROVE TypeOK'
  <2>1. [queue EXCEPT ![row] = [state |-> "suppressed", parkedAt |-> head]] \in [Rows -> RowStates]
    BY <1>a, BoundsAssumption DEF RowStates, TypeOK
  <2>2. queue' \in [Rows -> RowStates]
    BY <1>14, <2>1, QueueTypes DEF Suppress
  <2> QED
    BY <1>14, <2>2 DEF Suppress, code, TypeOK, RunOK, CardOK
<1>15. ASSUME NEW row \in Rows, Resolve(row) PROVE TypeOK'
  <2>1. [queue EXCEPT ![row] = Closed] \in [Rows -> RowStates]
    BY <1>a DEF RowStates, Closed
  <2>2. queue' \in [Rows -> RowStates]
    BY <1>15, <2>1, QueueTypes DEF Resolve
  <2> QED
    BY <1>15, <2>2 DEF Resolve, code, TypeOK, RunOK, CardOK
<1>16. CASE UNCHANGED vars
  BY <1>16 DEF vars, TypeOK, RunOK, CardOK
<1> QED
  BY <1>1, <1>2, <1>3, <1>4, <1>5, <1>8, <1>9, <1>10, <1>11, <1>12, <1>13, <1>14, <1>15, <1>16
     DEF Next, Developing, Verifying, Scoring, Tending

(* Whatever happens to the spec, its card, run, queue and judgments keep    *)
(* their shape: no status outside the lattice is ever persisted.            *)
THEOREM TypeCorrect == Spec => []TypeOK
<1>1. Init => TypeOK
  <2>1. 0 \in 0..MaxCommits /\ 1 \in 1..MaxVersions /\ 0 \in 0..0
    BY BoundsAssumption
  <2>2. NoRun.look \in Looks
    BY BoundsAssumption DEF NoRun
  <2>3. Closed \in RowStates
    BY DEF Closed, RowStates
  <2> SUFFICES ASSUME Init PROVE TypeOK
    OBVIOUS
  <2>4. RunOK
    BY <2>1, <2>2 DEF Init, RunOK, NoRun, NoCriteria, HardOf, Spec0
  <2>5. CardOK
    BY <2>1 DEF Init, CardOK, NoCard, NoCriteria, NoStreak, IsPartial, Spec0
  <2>6. spec \in [version : 1..MaxVersions, contract : Contracts, probation : BOOLEAN]
    BY <2>1, BoundsAssumption DEF Init, Spec0
  <2>7. shown \in [rubric : Contracts \cup {NoCriteria}, look : Looks]
    BY <2>2 DEF Init, NotShown
  <2>8. judged \in [Criteria -> [text : Texts \cup {"none"}, look : Looks, score : Scores]]
    <3>1. NotJudged \in [text : Texts \cup {"none"}, look : Looks, score : Scores]
      BY <2>2 DEF NotJudged, Scores
    <3> QED
      BY <3>1 DEF Init
  <2>9. queue \in [Rows -> RowStates]
    BY <2>3 DEF Init
  <2>10. /\ head \in 0..MaxCommits /\ touched \subseteq 1..head
         /\ dirty \in BOOLEAN /\ look \in Looks /\ base \in Looks
         /\ folded \in BOOLEAN /\ acked \subseteq Criteria
    BY <2>1 DEF Init
  <2> QED
    BY <2>4, <2>5, <2>6, <2>7, <2>8, <2>9, <2>10 DEF TypeOK
<1> QED
  BY <1>1, TypeStep, PTL DEF Spec

-----------------------------------------------------------------------------

(* The entries of c are criteria of the frozen contract, with its weights. *)
Weighed(c) ==
    \A i \in DOMAIN c.criteria :
       /\ i \in DOMAIN spec.contract
       /\ c.criteria[i].severity = spec.contract[i].severity

(* The card of a spec that is never re-frozen has the contract's weights,   *)
(* and, once the latest run has been folded, an entry for each criterion.   *)
FollowsContract ==
    /\ run.contract \in {NoCriteria, spec.contract}
    /\ Weighed(card)
    /\ folded => DOMAIN run.contract \subseteq DOMAIN card.criteria

(* Without sweeps its entries carry the taint of the latest folded run. *)
CarriesTaint ==
    folded => \A i \in DOMAIN run.contract \cap DOMAIN card.criteria :
                 card.criteria[i].tainted = run.tainted

(* What a fold writes for a criterion of the contract, carried or not. *)
LEMMA FoldFollows ==
    ASSUME NEW r \in Runs, NEW c, NEW ch, NEW un, NEW tn \in BOOLEAN, NEW st,
           IsPartial(c.criteria, Entry), Weighed(c)
    PROVE  LET obs == Observe(r, ch, un, st, tn)
               d == Reconcile(c, obs)
           IN /\ DOMAIN d.criteria = DOMAIN spec.contract
              /\ \A i \in DOMAIN spec.contract :
                    /\ d.criteria[i].severity = spec.contract[i].severity
                    /\ d.criteria[i].tainted = obs.criteria[i].tainted
<1> DEFINE obs == Observe(r, ch, un, st, tn)
           crit == NextCriteria(c, obs)
<1>1. /\ DOMAIN obs.criteria = DOMAIN spec.contract
      /\ \A i \in DOMAIN spec.contract :
            obs.criteria[i].severity = spec.contract[i].severity
  BY ObservationOfRun
<1> HIDE DEF obs
<1>2. DOMAIN crit = DOMAIN spec.contract
  BY <1>1 DEF NextCriteria, KeptCriteria, Weighed
<1>3. ASSUME NEW i \in DOMAIN spec.contract
      PROVE  /\ crit[i].severity = spec.contract[i].severity
             /\ crit[i].tainted = obs.criteria[i].tainted
  <2> DEFINE before == c.criteria[i]
             seen == obs.criteria[i]
  <2>1. CASE CarriesScore(c, obs, i)
    <3>1. crit[i] = CarriedScore(before, seen, obs)
      BY <1>1, <1>2, <2>1 DEF NextCriteria
    <3>2. before \in Entry /\ before.severity = spec.contract[i].severity
      BY <2>1 DEF CarriesScore, IsPartial, Weighed
    <3>3. /\ CarriedScore(before, seen, obs).severity
               = IF seen.severity = "unset" THEN before.severity ELSE seen.severity
          /\ CarriedScore(before, seen, obs).tainted = seen.tainted
      BY <3>2 DEF CarriedScore, Entry
    <3> QED
      BY <1>1, <3>1, <3>2, <3>3
  <2>2. CASE ~CarriesScore(c, obs, i)
    <3>1. crit[i] = FreshEntry(seen, obs)
      BY <1>1, <1>2, <2>2 DEF NextCriteria
    <3> QED
      BY <1>1, <3>1 DEF FreshEntry
  <2> QED
    BY <2>1, <2>2
<1>4. Reconcile(c, obs).criteria = crit
  BY DEF Reconcile
<1> QED
  BY <1>2, <1>3, <1>4 DEF obs

(* A score changes neither the weights of a card nor its taints. *)
LEMMA ScoreFollows ==
    ASSUME NEW c, IsPartial(c.criteria, Entry), NEW s, NEW sha, Scorable(c, s)
    PROVE  LET d == ApplyScore(c, s, sha)
           IN /\ DOMAIN d.criteria = DOMAIN c.criteria
              /\ \A i \in DOMAIN c.criteria :
                    /\ d.criteria[i].severity = c.criteria[i].severity
                    /\ d.criteria[i].tainted = c.criteria[i].tainted
<1> DEFINE before == c.criteria[s.id]
           after == [before EXCEPT !.status = Clamped(before, s), !.score = s.score,
                                   !.stale = FALSE, !.sha = sha]
<1>1. s.id \in DOMAIN c.criteria /\ before \in Entry
  BY DEF Scorable, IsPartial
<1>2. after.severity = before.severity /\ after.tainted = before.tainted
  BY <1>1 DEF Entry
<1>3. ApplyScore(c, s, sha).criteria = [c.criteria EXCEPT ![s.id] = after]
  BY DEF ApplyScore, ScoredCriteria
<1> QED
  BY <1>1, <1>2, <1>3

LEMMA FollowsStep ==
    ASSUME "refreeze" \notin Steps
    PROVE  TypeOK /\ FollowsContract /\ [Next]_vars => FollowsContract'
<1> SUFFICES ASSUME TypeOK, FollowsContract, [Next]_vars PROVE FollowsContract'
  OBVIOUS
<1>0. IsPartial(card.criteria, Entry)
  BY DEF TypeOK, CardOK
<1>1. ASSUME UNCHANGED <<run, card, folded, spec>> PROVE FollowsContract'
  BY <1>1 DEF FollowsContract, Weighed
<1>2. ASSUME NEW r \in Runs, NEW c, NEW ch, NEW un, NEW tn \in BOOLEAN, NEW st,
             IsPartial(c.criteria, Entry), Weighed(c),
             card' = Reconcile(c, Observe(r, ch, un, st, tn)), run' = r,
             spec'.contract = spec.contract
      PROVE  FollowsContract'
  <2>1. r.contract = spec.contract
    BY RunShape
  <2>2. /\ DOMAIN card'.criteria = DOMAIN spec.contract
        /\ \A i \in DOMAIN spec.contract : card'.criteria[i].severity = spec.contract[i].severity
    BY <1>2, FoldFollows
  <2> QED
    BY <1>2, <2>1, <2>2 DEF FollowsContract, Weighed
<1>fold. ASSUME NEW r \in Runs, NEW ch, NEW un, NEW tn \in BOOLEAN, NEW st, NEW d,
             d = Reconcile(card, Observe(r, ch, un, st, tn))
      PROVE  /\ DOMAIN d.criteria = DOMAIN spec.contract
             /\ \A i \in DOMAIN spec.contract :
                   d.criteria[i].severity = spec.contract[i].severity
  <2>1. Weighed(card)
    BY DEF FollowsContract
  <2> QED
    BY <1>0, <1>fold, <2>1, FoldFollows
<1>3. CASE Developing
  BY <1>1, <1>3 DEF Developing, Edit, Commit, CommitOther, Discard, Refreeze
<1>4. CASE Tending
  BY <1>1, <1>4 DEF Tending, Suppress, Resolve
<1>5. CASE Show
  BY <1>1, <1>5 DEF Show
<1>6. ASSUME NEW s \in ScoresOf(Criteria), Record(s) PROVE FollowsContract'
  <2>1. /\ card' = ApplyScore(card, s, run.sha) /\ Scorable(card, s)
        /\ UNCHANGED <<run, folded, spec>>
    BY <1>6 DEF Record
  <2>2. /\ DOMAIN card'.criteria = DOMAIN card.criteria
        /\ \A i \in DOMAIN card.criteria : card'.criteria[i].severity = card.criteria[i].severity
    BY <1>0, <2>1, ScoreFollows
  <2> QED
    BY <2>1, <2>2 DEF FollowsContract, Weighed
<1>7. ASSUME NEW r \in Runs, Verify(r) PROVE FollowsContract'
  <2>1. PICK ch : /\ card' = Reconcile(card, Observe(r, ch, RenderUnchanged, Unscored, TRUE))
                  /\ ClearProbation(Observe(r, ch, RenderUnchanged, Unscored, TRUE))
    BY <1>7 DEF Verify
  <2>2. run' = r /\ spec'.contract = spec.contract
    BY <1>7, <2>1, ClearProbationTypes DEF Verify, Recorded
  <2> QED
    BY <1>0, <1>2, <2>1, <2>2 DEF FollowsContract
<1>8. ASSUME NEW r \in Runs, VerifyUnfolded(r) PROVE FollowsContract'
  <2>1. r.contract = spec.contract
    BY RunShape
  <2> QED
    BY <1>8, <2>1 DEF VerifyUnfolded, Recorded, FollowsContract, Weighed
<1>9. ASSUME NEW r \in Runs, Sweep(r) PROVE FollowsContract'
  <2>1. /\ card' = Reconcile(card, Observe(r, "unknown", FALSE, Unscored, FALSE))
        /\ ClearProbation(Observe(r, "unknown", FALSE, Unscored, FALSE))
    BY <1>9 DEF Sweep, SweepObs
  <2>2. run' = r /\ spec'.contract = spec.contract
    BY <1>9, <2>1, ClearProbationTypes DEF Sweep, Recorded
  <2> QED
    BY <1>0, <1>2, <2>1, <2>2 DEF FollowsContract
<1>10. ASSUME NEW r \in Runs, NEW s \in ScoresOf(Criteria), SweepJudged(r, s)
       PROVE  FollowsContract'
  <2> DEFINE st == [Unscored EXCEPT ![s.id] = s.status]
             first == Reconcile(card, Observe(r, "unknown", FALSE, Unscored, FALSE))
             scored == ApplyScore(first, s, r.sha)
  <2>1. /\ card' = Reconcile(scored, Observe(r, "unknown", FALSE, st, FALSE))
        /\ ClearProbation(Observe(r, "unknown", FALSE, st, FALSE)) /\ Scorable(first, s)
        /\ run' = r
    BY <1>10 DEF SweepJudged, SweepObs, Recorded
  <2>2. spec'.contract = spec.contract
    BY <2>1, ClearProbationTypes
  <2>3. IsPartial(first.criteria, Entry)
    <3>1. \A i \in Criteria : Unscored[i] \in Statuses
      BY DEF Unscored, Statuses
    <3>2. card.streak \in [count : Nat, lastSha : 0..head]
      BY DEF TypeOK, CardOK
    <3> QED
      BY <1>0, <3>1, <3>2, FoldShape
  <2>4. /\ DOMAIN first.criteria = DOMAIN spec.contract
        /\ \A i \in DOMAIN spec.contract : first.criteria[i].severity = spec.contract[i].severity
    <3>1. first = Reconcile(card, Observe(r, "unknown", FALSE, Unscored, FALSE))
      OBVIOUS
    <3>2. FALSE \in BOOLEAN
      OBVIOUS
    <3> HIDE DEF first
    <3>3. ASSUME NEW un, NEW tn \in BOOLEAN,
                 first = Reconcile(card, Observe(r, "unknown", un, Unscored, tn))
          PROVE  DOMAIN first.criteria = DOMAIN spec.contract
      BY <1>fold, <3>3
    <3>4. ASSUME NEW un, NEW tn \in BOOLEAN, NEW i \in DOMAIN spec.contract,
                 first = Reconcile(card, Observe(r, "unknown", un, Unscored, tn))
          PROVE  first.criteria[i].severity = spec.contract[i].severity
      BY <1>fold, <3>4
    <3>5. DOMAIN first.criteria = DOMAIN spec.contract
      BY <3>1, <3>2, <3>3
    <3>6. ASSUME NEW i \in DOMAIN spec.contract
          PROVE  first.criteria[i].severity = spec.contract[i].severity
      BY <3>1, <3>2, <3>4
    <3> QED
      BY <3>5, <3>6
  <2>5. /\ DOMAIN scored.criteria = DOMAIN first.criteria
        /\ \A i \in DOMAIN first.criteria : scored.criteria[i].severity = first.criteria[i].severity
    <3> HIDE DEF first
    <3> QED
      BY <2>1, <2>3, ScoreFollows
  <2>6. IsPartial(scored.criteria, Entry)
    <3>1. r.sha \in 0..head /\ 0 \in 0..head /\ 0..head \subseteq Nat
      BY BoundsAssumption DEF Runs, TypeOK
    <3>2. first.streak \in [count : Nat, lastSha : 0..head]
      <4>1. \A i \in Criteria : Unscored[i] \in Statuses
        BY DEF Unscored, Statuses
      <4>2. card.streak \in [count : Nat, lastSha : 0..head]
        BY DEF TypeOK, CardOK
      <4> QED
        BY <1>0, <4>1, <4>2, FoldShape
    <3> QED
      BY <2>1, <2>3, <3>1, <3>2, ApplyScoreTypes
  <2>7. Weighed(scored)
    BY <2>4, <2>5 DEF Weighed
  <2> QED
    BY <1>2, <2>1, <2>2, <2>6, <2>7
<1>11. CASE UNCHANGED vars
  BY <1>1, <1>11 DEF vars
<1> QED
  BY <1>3, <1>4, <1>5, <1>6, <1>7, <1>8, <1>9, <1>10, <1>11 DEF Next, Verifying, Scoring

LEMMA FollowsInit == Init => FollowsContract
  BY DEF Init, FollowsContract, Weighed, NoRun, NoCard, NoCriteria

(* The weights of a spec that is not re-frozen are never lost: whatever is   *)
(* carried, scored or swept, no criterion that gates is missing from a green *)
(* card, or not passing on it.                                               *)
THEOREM GreenIsWeighed ==
    ASSUME "refreeze" \notin Steps PROVE Spec => []GreenHonoursSeverity
<1>1. FollowsContract => GreenHonoursSeverity
  <2> SUFFICES ASSUME FollowsContract, Green, NEW i \in Gating
               PROVE  card.criteria[i].status = "pass"
    BY DEF GreenHonoursSeverity
  <2>1. /\ i \in DOMAIN card.criteria
        /\ card.criteria[i].severity # "advisory"
    BY DEF FollowsContract, Weighed, Green, Gating, NoCriteria
  <2> QED
    BY <2>1 DEF Green, SignedOff, Blocks, Signs
<1> QED
  BY <1>1, FollowsInit, FollowsStep, TypeCorrect, PTL DEF Spec

LEMMA TaintStep ==
    ASSUME {"refreeze", "sweep", "judge"} \cap Steps = {}
    PROVE  TypeOK /\ FollowsContract /\ CarriesTaint /\ [Next]_vars => CarriesTaint'
<1> SUFFICES ASSUME TypeOK, FollowsContract, CarriesTaint, [Next]_vars PROVE CarriesTaint'
  OBVIOUS
<1>0. IsPartial(card.criteria, Entry)
  BY DEF TypeOK, CardOK
<1>1. ASSUME UNCHANGED <<run, card, folded>> PROVE CarriesTaint'
  BY <1>1 DEF CarriesTaint
<1>fold. ASSUME NEW r \in Runs, NEW ch, NEW un, NEW tn \in BOOLEAN, NEW st, NEW d,
             d = Reconcile(card, Observe(r, ch, un, st, tn))
      PROVE  \A i \in DOMAIN spec.contract :
                d.criteria[i].tainted = Observe(r, ch, un, st, tn).criteria[i].tainted
  <2>1. Weighed(card)
    BY DEF FollowsContract
  <2> QED
    BY <1>0, <1>fold, <2>1, FoldFollows
<1>2. CASE Developing
  BY <1>1, <1>2 DEF Developing, Edit, Commit, CommitOther, Discard, Refreeze
<1>3. CASE Tending
  BY <1>1, <1>3 DEF Tending, Suppress, Resolve
<1>4. CASE Show
  BY <1>1, <1>4 DEF Show
<1>5. ASSUME NEW s \in ScoresOf(Criteria), Record(s) PROVE CarriesTaint'
  <2>1. /\ card' = ApplyScore(card, s, run.sha) /\ Scorable(card, s)
        /\ UNCHANGED <<run, folded>>
    BY <1>5 DEF Record
  <2>2. /\ DOMAIN card'.criteria = DOMAIN card.criteria
        /\ \A i \in DOMAIN card.criteria : card'.criteria[i].tainted = card.criteria[i].tainted
    BY <1>0, <2>1, ScoreFollows
  <2> QED
    BY <2>1, <2>2 DEF CarriesTaint
<1>6. ASSUME NEW r \in Runs, Verify(r) PROVE CarriesTaint'
  <2>1. PICK ch : card' = Reconcile(card, Observe(r, ch, RenderUnchanged, Unscored, TRUE))
    BY <1>6 DEF Verify
  <2>2. run' = r /\ r.contract = spec.contract
    BY <1>6, RunShape DEF Verify, Recorded
  <2> DEFINE obs == Observe(r, ch, RenderUnchanged, Unscored, TRUE)
  <2>3. \A i \in DOMAIN spec.contract : card'.criteria[i].tainted = obs.criteria[i].tainted
    <3>1. obs = Observe(r, ch, RenderUnchanged, Unscored, TRUE) /\ TRUE \in BOOLEAN
      OBVIOUS
    <3> HIDE DEF obs
    <3>2. ASSUME NEW un, NEW tn \in BOOLEAN, NEW i \in DOMAIN spec.contract,
                 obs = Observe(r, ch, un, Unscored, tn), card' = Reconcile(card, obs)
          PROVE  card'.criteria[i].tainted = obs.criteria[i].tainted
      BY <1>fold, <3>2
    <3>3. card' = Reconcile(card, obs)
      BY <2>1, <3>1
    <3>4. ASSUME NEW i \in DOMAIN spec.contract
          PROVE  card'.criteria[i].tainted = obs.criteria[i].tainted
      BY <3>1, <3>2, <3>3
    <3> QED
      BY <3>4
  <2>4. \A i \in DOMAIN spec.contract : obs.criteria[i].tainted = r.tainted
    BY DEF Observe, Runs
  <2> QED
    BY <2>2, <2>3, <2>4 DEF CarriesTaint
<1>7. ASSUME NEW r \in Runs, VerifyUnfolded(r) PROVE CarriesTaint'
  BY <1>7 DEF VerifyUnfolded, CarriesTaint
<1>8. ASSUME NEW r \in Runs, NEW s, Sweep(r) \/ SweepJudged(r, s) PROVE FALSE
  BY <1>8 DEF Sweep, SweepJudged
<1>9. CASE UNCHANGED vars
  BY <1>1, <1>9 DEF vars
<1> QED
  BY <1>2, <1>3, <1>4, <1>5, <1>6, <1>7, <1>8, <1>9 DEF Next, Verifying, Scoring

(* With verifies over MCP only, and no re-freeze, degraded evidence never    *)
(* signs off a gating criterion: a carried pass takes the taint of the       *)
(* capture it is carried over, and a pass scored on it is not one.           *)
THEOREM GreenIsClean ==
    ASSUME {"refreeze", "sweep", "judge"} \cap Steps = {}
    PROVE  Spec => []GreenIsUntainted
<1>1. "refreeze" \notin Steps
  OBVIOUS
<1>2. Init => CarriesTaint
  BY DEF Init, CarriesTaint, NoRun, NoCard, NoCriteria
<1>3. FollowsContract /\ CarriesTaint => GreenIsUntainted
  <2> SUFFICES ASSUME FollowsContract, CarriesTaint, Green, NEW i \in Gating
               PROVE  ~run.tainted
    BY DEF GreenIsUntainted
  <2>1. /\ i \in DOMAIN card.criteria
        /\ card.criteria[i].severity # "advisory"
        /\ card.criteria[i].tainted = run.tainted
    BY DEF FollowsContract, Weighed, CarriesTaint, Green, Gating, NoCriteria
  <2> QED
    BY <2>1 DEF Green, SignedOff, Blocks, Signs
<1>4. TypeOK /\ FollowsContract /\ [Next]_vars => FollowsContract'
  BY <1>1, FollowsStep
<1> QED
  BY <1>2, <1>3, <1>4, FollowsInit, TaintStep, TypeCorrect, PTL DEF Spec

-----------------------------------------------------------------------------
\* The queue.

(* A criterion keeps its tier whatever contract it is in. *)
SameTiers ==
    \A k, l \in Contracts : \A i \in DOMAIN k \cap DOMAIN l : k[i].tier = l[i].tier

(* The kinds of row that say a mechanical criterion is not passing. *)
TaskKinds == {"regression", "unverifiable", "needs-review"}

Tasked(q, i) == \E kind \in TaskKinds : q[<<kind, i>>].state # "closed"

(* Entries have their contract's tier, and mechanical ones are decided. *)
TiersOK(c) ==
    \A i \in DOMAIN c.criteria :
       /\ \A k \in Contracts : i \in DOMAIN k => c.criteria[i].tier = k[i].tier
       /\ c.criteria[i].tier = "hard" => c.criteria[i].status # "unscored"

(* A card folded from the frozen version has the criteria of its contract. *)
WholeFor(c) ==
    /\ c.version = 0 => DOMAIN c.criteria = {}
    /\ c.version = spec.version => DOMAIN c.criteria = DOMAIN spec.contract

(* FailingIsQueued, of any card, queue and acknowledgements, without the rows *)
(* that a scorer's task opens.                                               *)
Queued(c, q, a) ==
    \A i \in HardOf(c.criteria) :
       c.criteria[i].status # "pass" => i \in a \/ Tasked(q, i)

QueueInv == TiersOK(card) /\ WholeFor(card) /\ Queued(card, queue, acked)

(* What a fold writes for each criterion of the contract, and for no other. *)
LEMMA FoldWhole ==
    ASSUME TypeOK, SameTiers, NEW r \in Runs, NEW c, NEW ch, NEW un, NEW tn, NEW st,
           IsPartial(c.criteria, Entry), c.version \in 0 .. spec.version,
           TiersOK(c), WholeFor(c)
    PROVE  LET obs == Observe(r, ch, un, st, tn)
               d == Reconcile(c, obs)
           IN /\ TiersOK(d)
              /\ d.version = spec.version
              /\ DOMAIN d.criteria = DOMAIN spec.contract
              /\ \A i \in HardOf(d.criteria) :
                    /\ i \in DOMAIN obs.criteria /\ ~CarriesScore(c, obs, i)
                    /\ d.criteria[i].status = obs.criteria[i].status
                    /\ obs.criteria[i].status \in {"pass", "fail", "unverifiable"}
<1> DEFINE obs == Observe(r, ch, un, st, tn)
           crit == NextCriteria(c, obs)
<1>1. /\ DOMAIN obs.criteria = DOMAIN spec.contract
      /\ \A i \in DOMAIN spec.contract :
            /\ obs.criteria[i].tier = spec.contract[i].tier
            /\ i \in Hard => obs.criteria[i].status = r.verdicts[i]
  BY ObservationOfRun
<1>2. obs.version = spec.version
  BY DEF Observe
<1>3. Reconcile(c, obs).criteria = crit /\ Reconcile(c, obs).version = spec.version
  BY <1>2 DEF Reconcile
<1>4. spec.contract \in Contracts
  BY DEF TypeOK
<1> HIDE DEF obs
<1>5. DOMAIN crit = DOMAIN spec.contract
  <2>1. CASE SpecChanged(c, obs)
    BY <1>1, <2>1 DEF NextCriteria, KeptCriteria
  <2>2. CASE ~SpecChanged(c, obs)
    <3>1. DOMAIN c.criteria \subseteq DOMAIN spec.contract
      BY <1>2, <2>2 DEF SpecChanged, WholeFor
    <3> QED
      BY <1>1, <3>1 DEF NextCriteria, KeptCriteria
  <2> QED
    BY <2>1, <2>2
<1>6. ASSUME NEW i \in DOMAIN spec.contract, CarriesScore(c, obs, i)
      PROVE  crit[i].tier = "soft" /\ spec.contract[i].tier = "soft"
  <2>1. crit[i] = CarriedScore(c.criteria[i], obs.criteria[i], obs)
    BY <1>1, <1>5, <1>6 DEF NextCriteria
  <2>2. c.criteria[i] \in Entry /\ c.criteria[i].tier = "soft"
    BY <1>6 DEF CarriesScore, IsPartial
  <2>3. CarriedScore(c.criteria[i], obs.criteria[i], obs).tier = c.criteria[i].tier
    BY <2>2 DEF CarriedScore, Entry
  <2>4. spec.contract[i].tier = c.criteria[i].tier
    BY <1>4, <1>6 DEF CarriesScore, TiersOK
  <2> QED
    BY <2>1, <2>2, <2>3, <2>4
<1>7. ASSUME NEW i \in DOMAIN spec.contract, ~CarriesScore(c, obs, i)
      PROVE  /\ crit[i].tier = spec.contract[i].tier
             /\ crit[i].status = obs.criteria[i].status
  <2>1. crit[i] = FreshEntry(obs.criteria[i], obs)
    BY <1>1, <1>5, <1>7 DEF NextCriteria
  <2> QED
    BY <1>1, <2>1 DEF FreshEntry
<1>8. ASSUME NEW i \in DOMAIN spec.contract, spec.contract[i].tier = "hard"
      PROVE  obs.criteria[i].status \in {"pass", "fail", "unverifiable"}
  <2>1. i \in Hard /\ i \in HardOf(r.contract)
    BY <1>8, RunShape DEF Hard, HardOf
  <2> QED
    BY <1>1, <2>1, RunShape
<1>9. \A i \in DOMAIN spec.contract : crit[i].tier = spec.contract[i].tier
  BY <1>6, <1>7
<1>10. ASSUME NEW i \in HardOf(crit)
       PROVE  /\ i \in DOMAIN obs.criteria /\ ~CarriesScore(c, obs, i)
              /\ crit[i].status = obs.criteria[i].status
              /\ obs.criteria[i].status \in {"pass", "fail", "unverifiable"}
  <2>1. i \in DOMAIN spec.contract /\ crit[i].tier = "hard"
    BY <1>5, <1>10 DEF HardOf
  <2>2. ~CarriesScore(c, obs, i)
    BY <1>6, <2>1
  <2> QED
    BY <1>1, <1>7, <1>8, <1>9, <2>1, <2>2
<1>11. TiersOK(Reconcile(c, obs))
  <2> SUFFICES ASSUME NEW i \in DOMAIN spec.contract
               PROVE  /\ \A k \in Contracts : i \in DOMAIN k => crit[i].tier = k[i].tier
                      /\ crit[i].tier = "hard" => crit[i].status # "unscored"
    BY <1>3, <1>5 DEF TiersOK
  <2>1. \A k \in Contracts : i \in DOMAIN k => crit[i].tier = k[i].tier
    BY <1>4, <1>9 DEF SameTiers
  <2>2. crit[i].tier = "hard" => crit[i].status # "unscored"
    BY <1>5, <1>10 DEF HardOf
  <2> QED
    BY <2>1, <2>2
<1> QED
  BY <1>3, <1>5, <1>10, <1>11 DEF obs

(* No fold closes a row of a mechanical criterion it does not see passing. *)
LEMMA ClosesOnlyPassing ==
    ASSUME NEW c, NEW obs, NEW i \in DOMAIN obs.criteria, obs.criteria[i].status # "pass",
           NEW kind \in TaskKinds
    PROVE  <<kind, i>> \notin Closes(c, obs)
<1>1. ASSUME NEW j \in DOMAIN obs.criteria, Recovers(c, obs, j)
      PROVE  <<kind, i>> \notin RecoveryCloses(j)
  BY <1>1 DEF Recovers, RecoveryCloses
<1>2. ASSUME NEW j \in Departed(c, obs) PROVE <<kind, i>> \notin DepartedCloses(c.criteria[j], j)
  BY <1>2 DEF Departed, DepartedCloses
<1>3. <<kind, i>> # CoverageDrop
  BY DEF TaskKinds, CoverageDrop
<1> DEFINE closedBy(j) == DepartedCloses(c.criteria[j], j)
           departed == Departed(c, obs)
           recovered == {j \in DOMAIN obs.criteria : Recovers(c, obs, j)}
           byRecovery == UNION {RecoveryCloses(j) : j \in recovered}
           byDeparture == UNION {closedBy(j) : j \in departed}
           better == Lower(Coverage(c.criteria), Coverage(NextCriteria(c, obs)))
           byCoverage == IF better THEN {CoverageDrop} ELSE {}
<1>4. Closes(c, obs) = byRecovery \cup byDeparture \cup byCoverage
  BY DEF Closes
<1>5. <<kind, i>> \notin byRecovery
  BY <1>1
<1>6. <<kind, i>> \notin byDeparture
  <2>1. \A j \in departed : <<kind, i>> \notin closedBy(j)
    BY <1>2
  <2> HIDE DEF closedBy, departed
  <2> QED
    BY <2>1
<1> HIDE DEF better
<1>7. <<kind, i>> \notin byCoverage
  BY <1>3
<1> HIDE DEF byRecovery, byDeparture, byCoverage
<1> QED
  BY <1>4, <1>5, <1>6, <1>7

(* A mechanical criterion that was not failing before opens a row. *)
LEMMA FailureOpens ==
    ASSUME NEW c, NEW obs, NEW i \in DOMAIN obs.criteria, ~CarriesScore(c, obs, i),
           obs.criteria[i].status \in {"fail", "unverifiable"},
           Was(c, i) \in {"pass", "absent"}
    PROVE  \E kind \in TaskKinds : <<kind, i>> \in Opens(c, obs)
<1>1. OpenedKind(c, obs, i) \in TaskKinds
  BY DEF OpenedKind, TaskKinds
<1>2. <<OpenedKind(c, obs, i), i>> \in Opens(c, obs)
  BY <1>1 DEF Opens, TaskKinds
<1> QED
  BY <1>1, <1>2

(* Merging closes a row only when the fold does. *)
LEMMA MergeKeeps ==
    ASSUME NEW q \in [Rows -> RowStates], NEW opens, NEW closes, NEW row \in Rows,
           row \notin closes, row \in opens \/ q[row].state # "closed"
    PROVE  Merge(q, opens, closes)[row].state # "closed"
  BY DEF Merge, Open, RowStates

LEMMA TaskRows == \A i \in Criteria : \A kind \in TaskKinds : <<kind, i>> \in Rows
  BY DEF Rows, CriterionKinds, TaskKinds

(* A fold leaves every mechanical criterion that does not pass with a row, or *)
(* acknowledged.                                                             *)
LEMMA FoldQueues ==
    ASSUME TypeOK, SameTiers, NEW r \in Runs, NEW c, NEW ch, NEW un, NEW tn, NEW st,
           NEW q \in [Rows -> RowStates], NEW a,
           IsPartial(c.criteria, Entry), c.version \in 0 .. spec.version,
           TiersOK(c), WholeFor(c), Queued(c, q, a)
    PROVE  LET obs == Observe(r, ch, un, st, tn)
           IN Queued(Reconcile(c, obs), Merge(q, Opens(c, obs), Closes(c, obs)), a)
<1> DEFINE obs == Observe(r, ch, un, st, tn)
           d == Reconcile(c, obs)
           merged == Merge(q, Opens(c, obs), Closes(c, obs))
<1>1. /\ DOMAIN d.criteria = DOMAIN spec.contract
      /\ \A i \in HardOf(d.criteria) :
            /\ i \in DOMAIN obs.criteria /\ ~CarriesScore(c, obs, i)
            /\ d.criteria[i].status = obs.criteria[i].status
            /\ obs.criteria[i].status \in {"pass", "fail", "unverifiable"}
  BY FoldWhole
<1>2. TiersOK(d)
  BY FoldWhole
<1>3. spec.contract \in Contracts /\ DOMAIN spec.contract \subseteq Criteria
  BY ContractsAssumption DEF TypeOK, IsPartial
<1> HIDE DEF obs, d
<1> SUFFICES ASSUME NEW i \in HardOf(d.criteria), d.criteria[i].status # "pass", i \notin a
             PROVE  Tasked(merged, i)
  BY DEF Queued, obs, d
<1>4. /\ i \in DOMAIN obs.criteria /\ ~CarriesScore(c, obs, i)
      /\ obs.criteria[i].status \in {"fail", "unverifiable"}
      /\ i \in DOMAIN spec.contract /\ i \in Criteria
  BY <1>1, <1>3 DEF HardOf
<1>5. \A kind \in TaskKinds : <<kind, i>> \in Rows /\ <<kind, i>> \notin Closes(c, obs)
  BY <1>4, ClosesOnlyPassing, TaskRows
<1>6. CASE Was(c, i) \in {"pass", "absent"}
  <2>1. PICK kind \in TaskKinds : <<kind, i>> \in Opens(c, obs)
    BY <1>4, <1>6, FailureOpens
  <2>2. merged[<<kind, i>>].state # "closed"
    BY <1>5, <2>1, MergeKeeps
  <2> QED
    BY <2>2 DEF Tasked
<1>7. CASE Was(c, i) \notin {"pass", "absent"}
  <2>1. i \in DOMAIN c.criteria /\ c.criteria[i].status # "pass"
    BY <1>7 DEF Was
  <2>2. c.criteria[i].tier = "hard"
    <3>1. d.criteria[i].tier = "hard" /\ i \in DOMAIN d.criteria
      BY DEF HardOf
    <3>2. d.criteria[i].tier = spec.contract[i].tier /\ c.criteria[i].tier = spec.contract[i].tier
      BY <1>2, <1>3, <1>4, <2>1, <3>1 DEF TiersOK
    <3> QED
      BY <3>1, <3>2
  <2>3. PICK kind \in TaskKinds : q[<<kind, i>>].state # "closed"
    BY <2>1, <2>2 DEF Queued, HardOf, Tasked
  <2>4. merged[<<kind, i>>].state # "closed"
    BY <1>5, <2>3, MergeKeeps
  <2> QED
    BY <2>4 DEF Tasked
<1> QED
  BY <1>6, <1>7

(* A score touches neither a mechanical criterion nor its rows. *)
LEMMA ScoreQueues ==
    ASSUME NEW c, IsPartial(c.criteria, Entry), TiersOK(c), NEW s, NEW sha, Scorable(c, s),
           NEW q \in [Rows -> RowStates], NEW a, Queued(c, q, a)
    PROVE  LET d == ApplyScore(c, s, sha)
           IN /\ TiersOK(d) /\ d.version = c.version
              /\ DOMAIN d.criteria = DOMAIN c.criteria
              /\ Queued(d, Merge(q, ScoreOpens(c, s), ScoreCloses(c, s)), a)
<1> DEFINE d == ApplyScore(c, s, sha)
           before == c.criteria[s.id]
           after == [before EXCEPT !.status = Clamped(before, s), !.score = s.score,
                                   !.stale = FALSE, !.sha = sha]
           merged == Merge(q, ScoreOpens(c, s), ScoreCloses(c, s))
<1>1. s.id \in DOMAIN c.criteria /\ before \in Entry /\ before.tier = "soft"
  BY DEF Scorable, IsPartial
<1>2. after.tier = "soft"
  BY <1>1 DEF Entry
<1>3. d.criteria = [c.criteria EXCEPT ![s.id] = after] /\ d.version = c.version
  BY DEF ApplyScore, ScoredCriteria
<1> HIDE DEF d, after
<1>4. \A i \in DOMAIN c.criteria : i # s.id => d.criteria[i] = c.criteria[i]
  BY <1>3
<1>5. DOMAIN d.criteria = DOMAIN c.criteria /\ d.criteria[s.id].tier = "soft"
  BY <1>1, <1>2, <1>3
<1>6. TiersOK(d)
  BY <1>1, <1>4, <1>5 DEF TiersOK
<1>7. ASSUME NEW i \in HardOf(d.criteria), d.criteria[i].status # "pass", i \notin a
      PROVE  Tasked(merged, i)
  <2>1. i # s.id /\ i \in DOMAIN c.criteria /\ d.criteria[i] = c.criteria[i] /\ i \in HardOf(c.criteria)
    BY <1>4, <1>5, <1>7 DEF HardOf
  <2>2. PICK kind \in TaskKinds : q[<<kind, i>>].state # "closed"
    BY <1>7, <2>1 DEF Queued, Tasked
  <2>3. <<kind, i>> \notin ScoreCloses(c, s)
    BY <2>1 DEF ScoreCloses, RecoveryCloses
  <2>4. <<kind, i>> \in Rows
    BY <2>1, TaskRows DEF IsPartial
  <2>5. merged[<<kind, i>>].state # "closed"
    BY <2>2, <2>3, <2>4, MergeKeeps
  <2> QED
    BY <2>5 DEF Tasked
<1> QED
  BY <1>3, <1>5, <1>6, <1>7 DEF Queued, d

(* Reopening closes nothing, and a parked row is closed only when the card    *)
(* answers it.                                                               *)
LEMMA ReopenKeeps ==
    ASSUME NEW q \in [Rows -> RowStates], NEW moved, NEW row \in Rows, q[row].state # "closed"
    PROVE  Reopened(q, moved)[row].state # "closed"
  BY DEF Reopened, Open

LEMMA UnansweredKeeps ==
    ASSUME NEW q \in [Rows -> RowStates], NEW k, NEW c, NEW i \in DOMAIN k,
           i \in DOMAIN c.criteria, c.criteria[i].status # "pass",
           NEW kind \in TaskKinds, <<kind, i>> \in Rows, q[<<kind, i>>].state # "closed"
    PROVE  CloseAnswered(q, k, c)[<<kind, i>>].state # "closed"
<1>1. ~Answered(<<kind, i>>, k, c)
  BY DEF Answered, TaskKinds
<1> QED
  BY <1>1 DEF CloseAnswered

LEMMA QueueStep ==
    ASSUME SameTiers PROVE TypeOK /\ QueueInv /\ [Next]_vars => QueueInv'
<1> SUFFICES ASSUME TypeOK, QueueInv, [Next]_vars PROVE QueueInv'
  OBVIOUS
<1>0. /\ IsPartial(card.criteria, Entry) /\ card.version \in 0 .. spec.version
      /\ queue \in [Rows -> RowStates]
      /\ spec.contract \in Contracts /\ DOMAIN spec.contract \subseteq Criteria
      /\ spec.version \in 1 .. MaxVersions
  BY ContractsAssumption DEF TypeOK, CardOK, IsPartial
<1>inv. TiersOK(card) /\ WholeFor(card) /\ Queued(card, queue, acked)
  BY DEF QueueInv
<1>1. ASSUME UNCHANGED <<card, queue, acked, spec>> PROVE QueueInv'
  BY <1>1 DEF QueueInv, TiersOK, WholeFor, Queued, Tasked
<1>folded. ASSUME NEW d, TiersOK(d), d.version = spec.version,
                  DOMAIN d.criteria = DOMAIN spec.contract,
                  Queued(d, queue', acked), card' = d,
                  acked' = StillAcked(card'.criteria), UNCHANGED <<spec.version, spec.contract>>
           PROVE  QueueInv'
  <2>1. TiersOK(card)'
    BY <1>folded DEF TiersOK
  <2>2. WholeFor(card)'
    BY <1>0, <1>folded DEF WholeFor
  <2>3. Queued(card, queue, acked)'
    BY <1>folded DEF Queued, Tasked, StillAcked, HardOf
  <2> QED
    BY <2>1, <2>2, <2>3 DEF QueueInv
<1>whole. ASSUME NEW r \in Runs, NEW c, NEW ch, NEW un, NEW tn, NEW st, NEW d,
                 IsPartial(c.criteria, Entry), c.version \in 0 .. spec.version,
                 TiersOK(c), WholeFor(c), d = Reconcile(c, Observe(r, ch, un, st, tn))
          PROVE  /\ TiersOK(d) /\ d.version = spec.version
                 /\ DOMAIN d.criteria = DOMAIN spec.contract
  <2>1. /\ TiersOK(Reconcile(c, Observe(r, ch, un, st, tn)))
        /\ Reconcile(c, Observe(r, ch, un, st, tn)).version = spec.version
        /\ DOMAIN Reconcile(c, Observe(r, ch, un, st, tn)).criteria = DOMAIN spec.contract
    BY <1>whole, FoldWhole
  <2> QED
    BY <1>whole, <2>1
<1>probation. ASSUME NEW obs, ClearProbation(obs) PROVE UNCHANGED <<spec.version, spec.contract>>
  BY <1>probation DEF ClearProbation, TypeOK
<1>2. ASSUME NEW l \in Looks, Edit(l) PROVE QueueInv'
  BY <1>1, <1>2 DEF Edit
<1>3. CASE Commit \/ CommitOther \/ Discard \/ Show
  BY <1>1, <1>3 DEF Commit, CommitOther, Discard, Show
<1>4. ASSUME NEW k \in Contracts, Refreeze(k) PROVE QueueInv'
  <2>1. UNCHANGED <<card, queue, acked>> /\ spec'.version = spec.version + 1
    BY <1>4 DEF Refreeze, TypeOK
  <2>2. WholeFor(card)'
    BY <1>0, <1>inv, <2>1 DEF WholeFor
  <2> QED
    BY <1>inv, <2>1, <2>2 DEF QueueInv, TiersOK, Queued, Tasked
<1>5. ASSUME NEW r \in Runs, Verify(r) PROVE QueueInv'
  <2>1. PICK ch :
          LET obs == Observe(r, ch, RenderUnchanged, Unscored, TRUE)
              merged == Merge(queue, Opens(card, obs), Closes(card, obs))
          IN /\ card' = Reconcile(card, obs)
             /\ queue' = Reopened(CloseAnswered(merged, spec.contract, card'), Moved)
             /\ ClearProbation(obs)
    BY <1>5 DEF Verify
  <2> DEFINE obs == Observe(r, ch, RenderUnchanged, Unscored, TRUE)
             d == Reconcile(card, obs)
             merged == Merge(queue, Opens(card, obs), Closes(card, obs))
             answered == CloseAnswered(merged, spec.contract, d)
  <2>2. TiersOK(d) /\ d.version = spec.version /\ DOMAIN d.criteria = DOMAIN spec.contract
    BY <1>0, <1>inv, <1>whole
  <2>3. Queued(d, merged, acked)
    BY <1>0, <1>inv, FoldQueues
  <2>4. merged \in [Rows -> RowStates]
    BY <1>0, QueueTypes
  <2>5. /\ card' = d /\ queue' = Reopened(answered, Moved) /\ ClearProbation(obs)
        /\ acked' = StillAcked(card'.criteria)
    BY <1>5, <2>1 DEF Verify
  <2> HIDE DEF obs, d, merged
  <2>6. answered \in [Rows -> RowStates]
    BY <2>4, QueueTypes
  <2>7. ASSUME NEW i \in HardOf(d.criteria), d.criteria[i].status # "pass", i \notin acked
        PROVE  Tasked(queue', i)
    <3>1. PICK kind \in TaskKinds : merged[<<kind, i>>].state # "closed"
      BY <2>3, <2>7 DEF Queued, Tasked
    <3>2. i \in DOMAIN spec.contract /\ i \in DOMAIN d.criteria /\ <<kind, i>> \in Rows
      BY <1>0, <2>2, TaskRows DEF HardOf
    <3>3. answered[<<kind, i>>].state # "closed"
      BY <2>4, <2>7, <3>1, <3>2, UnansweredKeeps
    <3> HIDE DEF answered
    <3>4. Reopened(answered, Moved)[<<kind, i>>].state # "closed"
      BY <2>6, <3>2, <3>3, ReopenKeeps
    <3> QED
      BY <2>5, <3>4 DEF Tasked
  <2>8. Queued(d, queue', acked)
    BY <2>7 DEF Queued
  <2> QED
    BY <1>folded, <1>probation, <2>2, <2>5, <2>8
<1>6. ASSUME NEW r \in Runs, VerifyUnfolded(r) PROVE QueueInv'
  BY <1>1, <1>6 DEF VerifyUnfolded
<1>7. ASSUME NEW r \in Runs, Sweep(r) PROVE QueueInv'
  <2> DEFINE obs == Observe(r, "unknown", FALSE, Unscored, FALSE)
             d == Reconcile(card, obs)
             merged == Merge(queue, Opens(card, obs), Closes(card, obs))
  <2>1. /\ card' = d /\ queue' = merged /\ ClearProbation(obs)
        /\ acked' = StillAcked(card'.criteria)
    BY <1>7 DEF Sweep, SweepObs
  <2>2. TiersOK(d) /\ d.version = spec.version /\ DOMAIN d.criteria = DOMAIN spec.contract
    BY <1>0, <1>inv, <1>whole
  <2>3. Queued(d, merged, acked)
    BY <1>0, <1>inv, FoldQueues
  <2> HIDE DEF obs, d, merged
  <2> QED
    BY <1>folded, <1>probation, <2>1, <2>2, <2>3
<1>8. ASSUME NEW r \in Runs, NEW s \in ScoresOf(Criteria), SweepJudged(r, s) PROVE QueueInv'
  <2> DEFINE st == [Unscored EXCEPT ![s.id] = s.status]
             obs1 == Observe(r, "unknown", FALSE, Unscored, FALSE)
             first == Reconcile(card, obs1)
             scored == ApplyScore(first, s, r.sha)
             obs2 == Observe(r, "unknown", FALSE, st, FALSE)
             d == Reconcile(scored, obs2)
             q1 == Merge(queue, Opens(card, obs1), Closes(card, obs1))
             q2 == Merge(q1, ScoreOpens(first, s), ScoreCloses(first, s))
             q3 == Reopened(q2, Moved)
             q4 == Merge(q3, Opens(scored, obs2), Closes(scored, obs2))
  <2>1. /\ card' = d /\ queue' = q4 /\ ClearProbation(obs2) /\ Scorable(first, s)
        /\ acked' = StillAcked(card'.criteria)
    BY <1>8 DEF SweepJudged, SweepObs
  <2>2. /\ TiersOK(first) /\ first.version = spec.version
        /\ DOMAIN first.criteria = DOMAIN spec.contract
    BY <1>0, <1>inv, <1>whole
  <2>3. Queued(first, q1, acked)
    BY <1>0, <1>inv, FoldQueues
  <2>4. \A i \in Criteria : Unscored[i] \in Statuses
    BY DEF Unscored, Statuses
  <2>5. card.streak \in [count : Nat, lastSha : 0..head]
    BY DEF TypeOK, CardOK
  <2>6. IsPartial(first.criteria, Entry) /\ first.streak \in [count : Nat, lastSha : 0..head]
    BY <1>0, <2>4, <2>5, FoldShape
  <2>7. q1 \in [Rows -> RowStates]
    BY <1>0, QueueTypes
  <2>8. r.sha \in 0..head /\ 0 \in 0..head /\ 0..head \subseteq Nat
    BY BoundsAssumption DEF Runs, TypeOK
  <2> HIDE DEF first, q1
  <2>9. IsPartial(scored.criteria, Entry)
    BY <2>1, <2>6, <2>8, ApplyScoreTypes
  <2>10. /\ TiersOK(scored) /\ scored.version = first.version
         /\ DOMAIN scored.criteria = DOMAIN first.criteria
         /\ Queued(scored, q2, acked)
    BY <2>1, <2>2, <2>3, <2>6, <2>7, ScoreQueues
  <2>11. q2 \in [Rows -> RowStates]
    BY <2>7, QueueTypes
  <2>12. q3 \in [Rows -> RowStates]
    BY <2>11, QueueTypes
  <2> HIDE DEF scored, q2
  <2>13. Queued(scored, q3, acked)
    <3>1. ASSUME NEW i \in HardOf(scored.criteria), scored.criteria[i].status # "pass", i \notin acked
          PROVE  Tasked(q3, i)
      <4>1. PICK kind \in TaskKinds : q2[<<kind, i>>].state # "closed"
        BY <2>10, <3>1 DEF Queued, Tasked
      <4>2. <<kind, i>> \in Rows
        BY <2>9, <3>1, TaskRows DEF IsPartial, HardOf
      <4>3. q3[<<kind, i>>].state # "closed"
        BY <2>11, <4>1, <4>2, ReopenKeeps
      <4> QED
        BY <4>3 DEF Tasked
    <3> QED
      BY <3>1 DEF Queued
  <2>14. WholeFor(scored) /\ scored.version \in 0 .. spec.version
    BY <1>0, <2>2, <2>10 DEF WholeFor
  <2> HIDE DEF q3, st
  <2>15. TiersOK(d) /\ d.version = spec.version /\ DOMAIN d.criteria = DOMAIN spec.contract
    BY <2>9, <2>10, <2>14, <1>whole
  <2>16. Queued(d, q4, acked)
    BY <2>9, <2>10, <2>12, <2>13, <2>14, FoldQueues
  <2> HIDE DEF obs2, d, q4
  <2> QED
    BY <1>folded, <1>probation, <2>1, <2>15, <2>16
<1>9. ASSUME NEW s \in ScoresOf(Criteria), Record(s) PROVE QueueInv'
  <2> DEFINE d == ApplyScore(card, s, run.sha)
             merged == Merge(queue, ScoreOpens(card, s), ScoreCloses(card, s))
  <2>1. /\ card' = d /\ queue' = Reopened(merged, Moved) /\ Scorable(card, s)
        /\ acked' = StillAcked(card'.criteria) /\ UNCHANGED spec
    BY <1>9 DEF Record
  <2>2. /\ TiersOK(d) /\ d.version = card.version
        /\ DOMAIN d.criteria = DOMAIN card.criteria
        /\ Queued(d, merged, acked)
    BY <1>0, <1>inv, <2>1, ScoreQueues
  <2>3. merged \in [Rows -> RowStates]
    BY <1>0, QueueTypes
  <2> HIDE DEF d, merged
  <2>4. ASSUME NEW i \in HardOf(d.criteria), d.criteria[i].status # "pass", i \notin acked'
        PROVE  Tasked(queue', i)
    <3>1. i \notin acked
      BY <2>1, <2>4 DEF StillAcked, HardOf
    <3>2. PICK kind \in TaskKinds : merged[<<kind, i>>].state # "closed"
      BY <2>2, <2>4, <3>1 DEF Queued, Tasked
    <3>3. <<kind, i>> \in Rows
      BY <1>0, <2>2, <2>4, TaskRows DEF IsPartial, HardOf
    <3>4. Reopened(merged, Moved)[<<kind, i>>].state # "closed"
      BY <2>3, <3>2, <3>3, ReopenKeeps
    <3> QED
      BY <2>1, <3>4 DEF Tasked
  <2> QED
    BY <1>inv, <2>1, <2>2, <2>4 DEF QueueInv, TiersOK, WholeFor, Queued
<1>10. ASSUME NEW row \in Rows, Suppress(row) \/ Resolve(row) PROVE QueueInv'
  <2> DEFINE q == IF Suppress(row)
                  THEN [queue EXCEPT ![row] = [state |-> "suppressed", parkedAt |-> head]]
                  ELSE [queue EXCEPT ![row] = Closed]
  <2>1. /\ queue' = Reopened(q, Moved) /\ acked' = acked \cup ({row[2]} \cap Criteria)
        /\ UNCHANGED <<spec, card>>
    BY <1>10 DEF Suppress, Resolve
  <2>2. q \in [Rows -> RowStates]
    BY <1>0 DEF RowStates, Closed, TypeOK
  <2>3. \A other \in Rows : other # row => q[other] = queue[other]
    BY <1>0
  <2> HIDE DEF q
  <2>4. ASSUME NEW i \in HardOf(card.criteria), card.criteria[i].status # "pass", i \notin acked'
        PROVE  Tasked(queue', i)
    <3>1. PICK kind \in TaskKinds : queue[<<kind, i>>].state # "closed"
      BY <1>inv, <2>1, <2>4 DEF Queued, Tasked
    <3>2. <<kind, i>> \in Rows /\ <<kind, i>> # row
      BY <1>0, <2>1, <2>4, TaskRows DEF IsPartial, HardOf
    <3>3. Reopened(q, Moved)[<<kind, i>>].state # "closed"
      BY <2>2, <2>3, <3>1, <3>2, ReopenKeeps
    <3> QED
      BY <2>1, <3>3 DEF Tasked
  <2> QED
    BY <1>inv, <2>1, <2>4 DEF QueueInv, TiersOK, WholeFor, Queued
<1>11. CASE UNCHANGED vars
  BY <1>1, <1>11 DEF vars
<1> QED
  BY <1>2, <1>3, <1>4, <1>5, <1>6, <1>7, <1>8, <1>9, <1>10, <1>11
     DEF Next, Developing, Verifying, Scoring, Tending

(* As long as no criterion changes its tier, each mechanical criterion that   *)
(* fails or cannot be verified has a row, or a human closed it: no merge,     *)
(* recovery of another, re-freeze, unfolded run or reconciliation of parked   *)
(* rows loses the last one.                                                   *)
THEOREM FailuresAreQueued == ASSUME SameTiers PROVE Spec => []FailingIsQueued
<1>1. Init => QueueInv
  BY BoundsAssumption
     DEF Init, QueueInv, TiersOK, WholeFor, Queued, HardOf, NoCard, NoCriteria, Spec0
<1>2. QueueInv => FailingIsQueued
  BY DEF QueueInv, Queued, Tasked, TaskKinds, FailingIsQueued, CriterionKinds
<1> QED
  BY <1>1, <1>2, QueueStep, TypeCorrect, PTL DEF Spec

-----------------------------------------------------------------------------
\* Thresholds.

(* The entries of a spec that is never re-frozen have its tiers and           *)
(* thresholds, and a soft one the number of the last judgment of it.          *)
KeepsScores(c, j) ==
    \A i \in DOMAIN c.criteria :
       /\ i \in DOMAIN spec.contract
       /\ c.criteria[i].tier = spec.contract[i].tier
       /\ c.criteria[i].threshold = spec.contract[i].threshold
       /\ c.criteria[i].tier = "soft" /\ c.criteria[i].status # "unscored"
            => c.criteria[i].score = j[i].score

(* A fold that observes no soft status invents no number and loses none. *)
LEMMA FoldKeepsScores ==
    ASSUME NEW r \in Runs, NEW c, NEW ch, NEW un, NEW tn, NEW j,
           DOMAIN spec.contract \subseteq Criteria, spec.contract \in [DOMAIN spec.contract -> Clause],
           IsPartial(c.criteria, Entry), KeepsScores(c, j)
    PROVE  KeepsScores(Reconcile(c, Observe(r, ch, un, Unscored, tn)), j)
<1> DEFINE obs == Observe(r, ch, un, Unscored, tn)
           crit == NextCriteria(c, obs)
<1>1. /\ DOMAIN obs.criteria = DOMAIN spec.contract
      /\ \A i \in DOMAIN spec.contract :
            /\ obs.criteria[i].tier = spec.contract[i].tier
            /\ obs.criteria[i].threshold = spec.contract[i].threshold
            /\ i \notin Hard => obs.criteria[i].status = Unscored[i]
  BY ObservationOfRun
<1>2. Reconcile(c, obs).criteria = crit
  BY DEF Reconcile
<1> HIDE DEF obs
<1>3. DOMAIN crit = DOMAIN spec.contract
  BY <1>1 DEF NextCriteria, KeptCriteria, KeepsScores
<1> SUFFICES ASSUME NEW i \in DOMAIN spec.contract
             PROVE  /\ crit[i].tier = spec.contract[i].tier
                    /\ crit[i].threshold = spec.contract[i].threshold
                    /\ crit[i].tier = "soft" /\ crit[i].status # "unscored"
                         => crit[i].score = j[i].score
  BY <1>2, <1>3 DEF KeepsScores, obs
<1>4. CASE CarriesScore(c, obs, i)
  <2> DEFINE before == c.criteria[i]
             seen == obs.criteria[i]
  <2>1. crit[i] = CarriedScore(before, seen, obs)
    BY <1>1, <1>3, <1>4 DEF NextCriteria
  <2>2. /\ before \in Entry /\ before.tier = spec.contract[i].tier
        /\ before.threshold = spec.contract[i].threshold
        /\ before.tier = "soft" /\ before.status # "unscored" /\ before.score = j[i].score
    BY <1>4 DEF CarriesScore, IsPartial, KeepsScores
  <2>3. LET after == CarriedScore(before, seen, obs)
        IN /\ after.tier = before.tier /\ after.score = before.score
           /\ after.threshold = (before.threshold \/ seen.threshold)
    BY <2>2 DEF CarriedScore, Entry
  <2>4. seen.threshold = before.threshold
    BY <1>1, <2>2
  <2> HIDE DEF before, seen
  <2>5. crit[i].threshold = before.threshold
    <3>1. before.threshold \in BOOLEAN
      BY <2>2 DEF Entry
    <3> QED
      BY <2>1, <2>3, <2>4, <3>1
  <2> QED
    BY <2>1, <2>2, <2>3, <2>5
<1>5. CASE ~CarriesScore(c, obs, i)
  <2>1. crit[i] = FreshEntry(obs.criteria[i], obs)
    BY <1>1, <1>3, <1>5 DEF NextCriteria
  <2>2. spec.contract[i].tier = "soft" => obs.criteria[i].status = "unscored"
    BY <1>1 DEF Hard, Unscored
  <2> QED
    BY <1>1, <2>1, <2>2 DEF FreshEntry
<1> QED
  BY <1>4, <1>5

LEMMA ScoreStep ==
    ASSUME {"refreeze", "judge"} \cap Steps = {}
    PROVE  TypeOK /\ KeepsScores(card, judged) /\ [Next]_vars => KeepsScores(card, judged)'
<1> SUFFICES ASSUME TypeOK, KeepsScores(card, judged), [Next]_vars
             PROVE  KeepsScores(card, judged)'
  OBVIOUS
<1>0. /\ IsPartial(card.criteria, Entry)
      /\ DOMAIN spec.contract \subseteq Criteria
      /\ spec.contract \in [DOMAIN spec.contract -> Clause]
  BY ContractsAssumption DEF TypeOK, CardOK, IsPartial
<1>1. ASSUME UNCHANGED <<card, judged, spec>> PROVE KeepsScores(card, judged)'
  BY <1>1 DEF KeepsScores
<1>2. ASSUME NEW r \in Runs, NEW ch, NEW un, NEW tn, NEW obs,
             obs = Observe(r, ch, un, Unscored, tn),
             card' = Reconcile(card, obs), ClearProbation(obs), UNCHANGED judged
      PROVE  KeepsScores(card, judged)'
  <2>1. KeepsScores(card', judged)
    BY <1>0, <1>2, FoldKeepsScores
  <2>2. spec'.contract = spec.contract
    BY <1>2, ClearProbationTypes
  <2> QED
    BY <1>2, <2>1, <2>2 DEF KeepsScores
<1>3. CASE Developing
  BY <1>1, <1>3 DEF Developing, Edit, Commit, CommitOther, Discard, Refreeze
<1>4. CASE Tending
  BY <1>1, <1>4 DEF Tending, Suppress, Resolve
<1>5. CASE Show
  BY <1>1, <1>5 DEF Show
<1>6. ASSUME NEW s \in ScoresOf(Criteria), Record(s) PROVE KeepsScores(card, judged)'
  <2> DEFINE before == card.criteria[s.id]
             after == [before EXCEPT !.status = Clamped(before, s), !.score = s.score,
                                     !.stale = FALSE, !.sha = run.sha]
             judgment == [text |-> shown.rubric[s.id].text, look |-> shown.look,
                          score |-> s.score]
  <2>1. /\ card' = ApplyScore(card, s, run.sha) /\ Scorable(card, s)
        /\ judged' = [judged EXCEPT ![s.id] = judgment] /\ UNCHANGED spec
    BY <1>6 DEF Record
  <2>2. s.id \in DOMAIN card.criteria /\ before \in Entry /\ s.id \in Criteria
    BY <1>0, <2>1 DEF Scorable, IsPartial
  <2>3. card'.criteria = [card.criteria EXCEPT ![s.id] = after]
    BY <2>1 DEF ApplyScore, ScoredCriteria
  <2>4. after.tier = before.tier /\ after.threshold = before.threshold /\ after.score = s.score
    BY <2>2 DEF Entry
  <2>5. judged'[s.id].score = s.score /\ \A i \in Criteria : i # s.id => judged'[i] = judged[i]
    BY <2>1, <2>2 DEF TypeOK
  <2> HIDE DEF after, judgment
  <2>6. ASSUME NEW i \in DOMAIN card'.criteria
        PROVE  /\ i \in DOMAIN spec.contract
               /\ card'.criteria[i].tier = spec.contract[i].tier
               /\ card'.criteria[i].threshold = spec.contract[i].threshold
               /\ card'.criteria[i].tier = "soft" /\ card'.criteria[i].status # "unscored"
                    => card'.criteria[i].score = judged'[i].score
    <3>1. CASE i = s.id
      BY <2>2, <2>3, <2>4, <2>5, <3>1 DEF KeepsScores
    <3>2. CASE i # s.id
      <4>1. i \in DOMAIN card.criteria /\ card'.criteria[i] = card.criteria[i] /\ i \in Criteria
        BY <1>0, <2>3, <3>2 DEF IsPartial
      <4> QED
        BY <2>5, <3>2, <4>1 DEF KeepsScores
    <3> QED
      BY <3>1, <3>2
  <2> QED
    BY <2>1, <2>6 DEF KeepsScores
<1>7. ASSUME NEW r \in Runs, Verify(r) PROVE KeepsScores(card, judged)'
  <2>1. PICK ch :
          /\ card' = Reconcile(card, Observe(r, ch, RenderUnchanged, Unscored, TRUE))
          /\ ClearProbation(Observe(r, ch, RenderUnchanged, Unscored, TRUE))
    BY <1>7 DEF Verify
  <2>2. UNCHANGED judged
    BY <1>7 DEF Verify
  <2> QED
    BY <1>2, <2>1, <2>2
<1>8. ASSUME NEW r \in Runs, VerifyUnfolded(r) PROVE KeepsScores(card, judged)'
  BY <1>1, <1>8 DEF VerifyUnfolded
<1>9. ASSUME NEW r \in Runs, Sweep(r) PROVE KeepsScores(card, judged)'
  <2>1. /\ card' = Reconcile(card, Observe(r, "unknown", FALSE, Unscored, FALSE))
        /\ ClearProbation(Observe(r, "unknown", FALSE, Unscored, FALSE)) /\ UNCHANGED judged
    BY <1>9 DEF Sweep, SweepObs
  <2> QED
    BY <1>2, <2>1
<1>10. ASSUME NEW r \in Runs, NEW s, SweepJudged(r, s) PROVE FALSE
  BY <1>10 DEF SweepJudged
<1>11. CASE UNCHANGED vars
  BY <1>1, <1>11 DEF vars
<1> QED
  BY <1>3, <1>4, <1>5, <1>6, <1>7, <1>8, <1>9, <1>10, <1>11 DEF Next, Verifying, Scoring

(* Without re-freezes and without `verify --all --judge`: a gating soft       *)
(* criterion whose last judgment is below its threshold keeps the spec from   *)
(* signing off, however often that judgment is carried, over whatever runs,   *)
(* sweeps and late scores.                                                    *)
THEOREM GreenIsAboveThreshold ==
    ASSUME {"refreeze", "judge"} \cap Steps = {}
    PROVE  Spec => []GreenMeetsThreshold
<1>1. "refreeze" \notin Steps
  OBVIOUS
<1>2. Init => KeepsScores(card, judged) /\ MirrorInv
  BY DEF Init, KeepsScores, MirrorInv, NoRun, NoCard, NoCriteria, HardOf
<1>3. FollowsContract /\ MirrorInv /\ KeepsScores(card, judged) /\ TypeOK => GreenMeetsThreshold
  <2> SUFFICES ASSUME FollowsContract, MirrorInv, KeepsScores(card, judged), TypeOK, Green,
                      NEW i \in Gating \ DOMAIN run.verdicts, run.contract[i].threshold
               PROVE  judged[i].score # "low"
    BY DEF GreenMeetsThreshold
  <2>1. i \in DOMAIN run.contract /\ run.contract = spec.contract
    BY DEF Gating, FollowsContract, NoCriteria
  <2>2. i \in DOMAIN card.criteria /\ card.criteria[i].severity # "advisory"
    BY <2>1 DEF FollowsContract, Weighed, Green, Gating
  <2>3. Signs(card.criteria[i])
    BY <2>2 DEF Green, SignedOff, Blocks
  <2>4. card.criteria[i].tier = "soft"
    <3>1. spec.contract[i].tier # "hard"
      BY <2>1 DEF MirrorInv, HardOf
    <3>2. spec.contract[i] \in Clause
      BY <2>1, ContractsAssumption DEF TypeOK, IsPartial
    <3> QED
      BY <2>2, <3>1, <3>2 DEF Clause, Tiers, KeepsScores
  <2>5. card.criteria[i].threshold /\ card.criteria[i].score = judged[i].score
    BY <2>1, <2>2, <2>3, <2>4 DEF KeepsScores, Signs
  <2> QED
    BY <2>3, <2>4, <2>5 DEF Signs, ThresholdMet
<1>4. TypeOK /\ FollowsContract /\ [Next]_vars => FollowsContract'
  BY <1>1, FollowsStep
<1> QED
  BY <1>2, <1>3, <1>4, FollowsInit, ScoreStep, MirrorStep, TypeCorrect, PTL DEF Spec

-----------------------------------------------------------------------------
\* Stale scores.

(* A fold leaves the criteria of the frozen contract, and no other. *)
LEMMA FoldDomain ==
    ASSUME NEW r \in Runs, NEW c, NEW ch, NEW un, NEW tn, NEW st, NEW obs, NEW d, WholeFor(c),
           obs = Observe(r, ch, un, st, tn), d = Reconcile(c, obs)
    PROVE  /\ d.version = spec.version
           /\ DOMAIN d.criteria = DOMAIN spec.contract
           /\ DOMAIN obs.criteria = DOMAIN spec.contract
<1>1. DOMAIN obs.criteria = DOMAIN spec.contract /\ obs.version = spec.version
  BY DEF Observe
<1>2. DOMAIN NextCriteria(c, obs) = DOMAIN spec.contract
  BY <1>1 DEF NextCriteria, KeptCriteria, SpecChanged, WholeFor
<1> QED
  BY <1>1, <1>2 DEF Reconcile

(* Whatever is stale after a fold was carried, and has its row. *)
LEMMA FoldStales ==
    ASSUME NEW r \in Runs, NEW c, NEW ch, NEW un, NEW tn, NEW st, NEW obs, NEW d,
           obs = Observe(r, ch, un, st, tn), d = Reconcile(c, obs),
           DOMAIN spec.contract \subseteq Criteria, spec.contract \in [DOMAIN spec.contract -> Clause],
           IsPartial(c.criteria, Entry), WholeFor(c), NEW q \in [Rows -> RowStates],
           NEW i \in DOMAIN d.criteria, d.criteria[i].stale
    PROVE  /\ i \in DOMAIN spec.contract /\ spec.contract[i].tier = "soft"
           /\ <<"needs-rescoring", i>> \in Rows
           /\ Merge(q, Opens(c, obs), Closes(c, obs))[<<"needs-rescoring", i>>].state # "closed"
<1> DEFINE row == <<"needs-rescoring", i>>
<1>1. /\ DOMAIN d.criteria = DOMAIN spec.contract
      /\ DOMAIN obs.criteria = DOMAIN spec.contract
  BY FoldDomain
<1>2. i \in Hard => obs.criteria[i].status = r.verdicts[i]
  BY <1>1, ObservationOfRun
<1>3. i \in DOMAIN spec.contract /\ i \in Criteria
  BY <1>1
<1>4. d.criteria = NextCriteria(c, obs)
  BY DEF Reconcile
<1>5. CarriesScore(c, obs, i)
  <2>1. ASSUME ~CarriesScore(c, obs, i) PROVE d.criteria[i] = FreshEntry(obs.criteria[i], obs)
    BY <1>1, <1>3, <1>4, <2>1 DEF NextCriteria
  <2> QED
    BY <2>1 DEF FreshEntry
<1>6. spec.contract[i].tier = "soft"
  <2>1. i \notin Hard
    <3>1. i \in Hard => i \in HardOf(r.contract)
      BY RunShape DEF Hard, HardOf
    <3> QED
      BY <1>2, <1>5, <3>1, RunShape DEF CarriesScore
  <2>2. spec.contract[i] \in Clause
    BY <1>3
  <2> QED
    BY <1>3, <2>1, <2>2 DEF Hard, Clause, Tiers
<1>7. c.criteria[i].stale \/ CodeMoved(c.criteria[i], obs)
  <2>1. d.criteria[i] = CarriedScore(c.criteria[i], obs.criteria[i], obs)
    BY <1>1, <1>3, <1>4, <1>5 DEF NextCriteria
  <2>2. c.criteria[i] \in Entry
    BY <1>5 DEF CarriesScore, IsPartial
  <2>3. CarriedScore(c.criteria[i], obs.criteria[i], obs).stale
            = (c.criteria[i].stale \/ CodeMoved(c.criteria[i], obs))
    BY <2>2 DEF CarriedScore, Entry
  <2>4. CarriedScore(c.criteria[i], obs.criteria[i], obs).stale
    BY <2>1, Zenon
  <2> QED
    BY <2>3, <2>4, Zenon
<1>8. OpenedKind(c, obs, i) = "needs-rescoring"
  <2>1. OpenedKind(c, obs, i) = IF c.criteria[i].stale \/ CodeMoved(c.criteria[i], obs)
                                THEN "needs-rescoring" ELSE "none"
    <3>1. obs.criteria[i].status = "unscored"
      BY <1>5 DEF CarriesScore
    <3> QED
      BY <1>5, <3>1 DEF OpenedKind
  <2> QED
    BY <1>7, <2>1, Zenon
<1>9. row \in Opens(c, obs)
  BY <1>1, <1>3, <1>8 DEF Opens
<1>10. row \notin Closes(c, obs)
  <2> DEFINE closedBy(j) == DepartedCloses(c.criteria[j], j)
             departed == Departed(c, obs)
             recovered == {j \in DOMAIN obs.criteria : Recovers(c, obs, j)}
             byRecovery == UNION {RecoveryCloses(j) : j \in recovered}
             byDeparture == UNION {closedBy(j) : j \in departed}
             better == Lower(Coverage(c.criteria), Coverage(NextCriteria(c, obs)))
             byCoverage == IF better THEN {CoverageDrop} ELSE {}
  <2>1. Closes(c, obs) = byRecovery \cup byDeparture \cup byCoverage
    BY DEF Closes
  <2>2. row \notin byRecovery
    BY DEF RecoveryCloses
  <2>3. row \notin byDeparture
    <3>1. \A j \in departed : row \notin closedBy(j)
      BY <1>1, <1>3 DEF Departed, DepartedCloses
    <3> HIDE DEF closedBy, departed, row
    <3> QED
      BY <3>1
  <2> HIDE DEF better
  <2>4. row \notin byCoverage
    BY DEF CoverageDrop
  <2> HIDE DEF byRecovery, byDeparture, byCoverage, row
  <2> QED
    BY <2>1, <2>2, <2>3, <2>4
<1>11. row \in Rows
  BY <1>3 DEF Rows, CriterionKinds
<1> HIDE DEF row
<1>12. Merge(q, Opens(c, obs), Closes(c, obs))[row].state # "closed"
  BY <1>9, <1>10, <1>11, MergeKeeps
<1> QED
  BY <1>3, <1>6, <1>11, <1>12 DEF row

StaleInv == WholeFor(card) /\ StaleIsQueued

LEMMA StaleStep == TypeOK /\ StaleInv /\ [Next]_vars => StaleInv'
<1> SUFFICES ASSUME TypeOK, StaleInv, [Next]_vars PROVE StaleInv'
  OBVIOUS
<1>0. /\ IsPartial(card.criteria, Entry) /\ card.version \in 0 .. spec.version
      /\ queue \in [Rows -> RowStates]
      /\ DOMAIN spec.contract \subseteq Criteria
      /\ spec.contract \in [DOMAIN spec.contract -> Clause]
      /\ spec.version \in 1 .. MaxVersions
  BY ContractsAssumption DEF TypeOK, CardOK, IsPartial
<1>inv. WholeFor(card) /\ StaleIsQueued
  BY DEF StaleInv
<1>1. ASSUME UNCHANGED <<card, queue, acked, spec>> PROVE StaleInv'
  BY <1>1 DEF StaleInv, WholeFor, StaleIsQueued
<1>folded. ASSUME NEW d, card' = d, d.version = spec.version,
                  DOMAIN d.criteria = DOMAIN spec.contract,
                  UNCHANGED <<spec.version, spec.contract>>,
                  \A i \in DOMAIN d.criteria : d.criteria[i].stale =>
                       queue'[<<"needs-rescoring", i>>].state # "closed"
           PROVE  StaleInv'
  BY <1>0, <1>folded DEF StaleInv, WholeFor, StaleIsQueued, SoftOf
<1>probation. ASSUME NEW obs, ClearProbation(obs) PROVE UNCHANGED <<spec.version, spec.contract>>
  BY <1>probation DEF ClearProbation, TypeOK
<1>2. ASSUME NEW l \in Looks, Edit(l) PROVE StaleInv'
  BY <1>1, <1>2 DEF Edit
<1>3. CASE Commit \/ CommitOther \/ Discard \/ Show
  BY <1>1, <1>3 DEF Commit, CommitOther, Discard, Show
<1>4. ASSUME NEW k \in Contracts, Refreeze(k) PROVE StaleInv'
  <2>1. UNCHANGED <<card, queue, acked>> /\ spec'.version = spec.version + 1
    BY <1>4 DEF Refreeze, TypeOK
  <2> QED
    BY <1>0, <1>inv, <2>1 DEF StaleInv, WholeFor, StaleIsQueued
<1>5. ASSUME NEW r \in Runs, Verify(r) PROVE StaleInv'
  <2>1. PICK ch :
          LET obs == Observe(r, ch, RenderUnchanged, Unscored, TRUE)
              merged == Merge(queue, Opens(card, obs), Closes(card, obs))
          IN /\ card' = Reconcile(card, obs)
             /\ queue' = Reopened(CloseAnswered(merged, spec.contract, card'), Moved)
             /\ ClearProbation(obs)
    BY <1>5 DEF Verify
  <2> DEFINE obs == Observe(r, ch, RenderUnchanged, Unscored, TRUE)
             d == Reconcile(card, obs)
             merged == Merge(queue, Opens(card, obs), Closes(card, obs))
             answered == CloseAnswered(merged, spec.contract, d)
  <2>2. obs = Observe(r, ch, RenderUnchanged, Unscored, TRUE) /\ d = Reconcile(card, obs)
    OBVIOUS
  <2>3. card' = d /\ queue' = Reopened(answered, Moved) /\ ClearProbation(obs)
    BY <2>1
  <2>4. merged \in [Rows -> RowStates] /\ answered \in [Rows -> RowStates]
    BY <1>0, QueueTypes
  <2>5. ASSUME NEW i \in DOMAIN d.criteria, d.criteria[i].stale
        PROVE  queue'[<<"needs-rescoring", i>>].state # "closed"
    <3> DEFINE row == <<"needs-rescoring", i>>
    <3> HIDE DEF obs, d
    <3>1. /\ i \in DOMAIN spec.contract /\ spec.contract[i].tier = "soft" /\ row \in Rows
          /\ merged[row].state # "closed"
      BY <1>0, <1>inv, <2>2, <2>5, FoldStales
    <3>2. ~Answered(row, spec.contract, d)
      BY <2>5, <3>1 DEF Answered
    <3> HIDE DEF merged, row
    <3>3. answered[row].state # "closed"
      BY <3>1, <3>2 DEF CloseAnswered
    <3> HIDE DEF answered
    <3> QED
      BY <2>3, <2>4, <3>1, <3>3, ReopenKeeps DEF row
  <2> HIDE DEF obs, d, merged, answered
  <2>6. d.version = spec.version /\ DOMAIN d.criteria = DOMAIN spec.contract
    BY <1>inv, <2>2, FoldDomain
  <2> QED
    BY <1>folded, <1>probation, <2>3, <2>5, <2>6
<1>6. ASSUME NEW r \in Runs, VerifyUnfolded(r) PROVE StaleInv'
  BY <1>1, <1>6 DEF VerifyUnfolded
<1>7. ASSUME NEW r \in Runs, Sweep(r) PROVE StaleInv'
  <2> DEFINE obs == Observe(r, "unknown", FALSE, Unscored, FALSE)
             d == Reconcile(card, obs)
             merged == Merge(queue, Opens(card, obs), Closes(card, obs))
  <2>1. obs = Observe(r, "unknown", FALSE, Unscored, FALSE) /\ d = Reconcile(card, obs)
    OBVIOUS
  <2>2. card' = d /\ queue' = merged /\ ClearProbation(obs)
    BY <1>7 DEF Sweep, SweepObs
  <2> HIDE DEF obs, d
  <2>3. \A i \in DOMAIN d.criteria : d.criteria[i].stale =>
            merged[<<"needs-rescoring", i>>].state # "closed"
    BY <1>0, <1>inv, <2>1, FoldStales
  <2>4. d.version = spec.version /\ DOMAIN d.criteria = DOMAIN spec.contract
    BY <1>inv, <2>1, FoldDomain
  <2> QED
    BY <1>folded, <1>probation, <2>2, <2>3, <2>4
<1>8. ASSUME NEW r \in Runs, NEW s \in ScoresOf(Criteria), SweepJudged(r, s) PROVE StaleInv'
  <2> DEFINE st == [Unscored EXCEPT ![s.id] = s.status]
             obs1 == Observe(r, "unknown", FALSE, Unscored, FALSE)
             first == Reconcile(card, obs1)
             scored == ApplyScore(first, s, r.sha)
             obs2 == Observe(r, "unknown", FALSE, st, FALSE)
             d == Reconcile(scored, obs2)
             q1 == Merge(queue, Opens(card, obs1), Closes(card, obs1))
             q2 == Merge(q1, ScoreOpens(first, s), ScoreCloses(first, s))
             q3 == Reopened(q2, Moved)
             q4 == Merge(q3, Opens(scored, obs2), Closes(scored, obs2))
  <2>1. /\ card' = d /\ queue' = q4 /\ ClearProbation(obs2) /\ Scorable(first, s)
    BY <1>8 DEF SweepJudged, SweepObs
  <2>2. obs1 = Observe(r, "unknown", FALSE, Unscored, FALSE) /\ first = Reconcile(card, obs1)
    OBVIOUS
  <2>3. \A i \in Criteria : Unscored[i] \in Statuses
    BY DEF Unscored, Statuses
  <2>4. card.streak \in [count : Nat, lastSha : 0..head]
    BY DEF TypeOK, CardOK
  <2>5. IsPartial(first.criteria, Entry) /\ first.streak \in [count : Nat, lastSha : 0..head]
    BY <1>0, <2>3, <2>4, FoldShape
  <2>6. q1 \in [Rows -> RowStates]
    BY <1>0, QueueTypes
  <2>7. r.sha \in 0..head /\ 0 \in 0..head /\ 0..head \subseteq Nat
    BY BoundsAssumption DEF Runs, TypeOK
  <2> HIDE DEF obs1, first, q1
  <2>8. first.version = spec.version /\ DOMAIN first.criteria = DOMAIN spec.contract
    BY <1>inv, <2>2, FoldDomain
  <2>9. IsPartial(scored.criteria, Entry)
    BY <2>1, <2>5, <2>7, ApplyScoreTypes
  <2>10. scored.version = first.version /\ DOMAIN scored.criteria = DOMAIN first.criteria
    BY DEF ApplyScore, ScoredCriteria
  <2>11. q2 \in [Rows -> RowStates]
    BY <2>6, QueueTypes
  <2> HIDE DEF q2
  <2>12. q3 \in [Rows -> RowStates]
    BY <2>11, QueueTypes
  <2>13. WholeFor(scored)
    BY <1>0, <2>8, <2>10 DEF WholeFor
  <2>14. obs2 = Observe(r, "unknown", FALSE, st, FALSE) /\ d = Reconcile(scored, obs2)
    OBVIOUS
  <2> HIDE DEF scored, q3, st, obs2, d
  <2>15. \A i \in DOMAIN d.criteria : d.criteria[i].stale =>
            q4[<<"needs-rescoring", i>>].state # "closed"
    BY <1>0, <2>9, <2>12, <2>13, <2>14, FoldStales
  <2>16. d.version = spec.version /\ DOMAIN d.criteria = DOMAIN spec.contract
    BY <2>13, <2>14, FoldDomain
  <2> HIDE DEF q4
  <2> QED
    BY <1>folded, <1>probation, <2>1, <2>15, <2>16
<1>9. ASSUME NEW s \in ScoresOf(Criteria), Record(s) PROVE StaleInv'
  <2> DEFINE before == card.criteria[s.id]
             after == [before EXCEPT !.status = Clamped(before, s), !.score = s.score,
                                     !.stale = FALSE, !.sha = run.sha]
             merged == Merge(queue, ScoreOpens(card, s), ScoreCloses(card, s))
  <2>1. /\ card' = ApplyScore(card, s, run.sha) /\ queue' = Reopened(merged, Moved)
        /\ Scorable(card, s) /\ acked' = StillAcked(card'.criteria) /\ UNCHANGED spec
    BY <1>9 DEF Record
  <2>2. s.id \in DOMAIN card.criteria /\ before \in Entry
    BY <1>0, <2>1 DEF Scorable, IsPartial
  <2>3. card'.criteria = [card.criteria EXCEPT ![s.id] = after] /\ card'.version = card.version
    BY <2>1 DEF ApplyScore, ScoredCriteria
  <2>4. after.stale = FALSE
    BY <2>2 DEF Entry
  <2>5. merged \in [Rows -> RowStates]
    BY <1>0, QueueTypes
  <2> HIDE DEF after, merged
  <2>6. ASSUME NEW i \in SoftOf(card'.criteria), card'.criteria[i].stale, i \notin acked'
        PROVE  queue'[<<"needs-rescoring", i>>].state # "closed"
    <3> DEFINE row == <<"needs-rescoring", i>>
    <3>1. /\ i # s.id /\ i \in DOMAIN card.criteria /\ card'.criteria[i] = card.criteria[i]
          /\ i \in SoftOf(card.criteria)
      BY <2>2, <2>3, <2>4, <2>6 DEF SoftOf
    <3>2. i \notin acked
      BY <2>1, <2>6 DEF StillAcked, SoftOf
    <3>3. queue[row].state # "closed"
      BY <1>inv, <2>6, <3>1, <3>2 DEF StaleIsQueued
    <3>4. row \in Rows /\ row \notin ScoreCloses(card, s)
      BY <1>0, <3>1 DEF Rows, CriterionKinds, IsPartial, ScoreCloses, RecoveryCloses
    <3> HIDE DEF row
    <3>5. merged[row].state # "closed"
      BY <1>0, <3>3, <3>4, MergeKeeps DEF merged
    <3>6. Reopened(merged, Moved)[row].state # "closed"
      BY <2>5, <3>4, <3>5, ReopenKeeps
    <3> QED
      BY <2>1, <3>6 DEF row
  <2>7. WholeFor(card)'
    BY <1>inv, <2>1, <2>3 DEF WholeFor
  <2> QED
    BY <2>6, <2>7 DEF StaleInv, StaleIsQueued
<1>10. ASSUME NEW parked \in Rows, Suppress(parked) \/ Resolve(parked) PROVE StaleInv'
  <2> DEFINE q == IF Suppress(parked)
                  THEN [queue EXCEPT ![parked] = [state |-> "suppressed", parkedAt |-> head]]
                  ELSE [queue EXCEPT ![parked] = Closed]
  <2>1. /\ queue' = Reopened(q, Moved) /\ acked' = acked \cup ({parked[2]} \cap Criteria)
        /\ UNCHANGED <<spec, card>>
    BY <1>10 DEF Suppress, Resolve
  <2>2. q \in [Rows -> RowStates]
    BY <1>0 DEF RowStates, Closed, TypeOK
  <2>3. \A other \in Rows : other # parked => q[other] = queue[other]
    BY <1>0
  <2> HIDE DEF q
  <2>4. ASSUME NEW i \in SoftOf(card.criteria), card.criteria[i].stale, i \notin acked'
        PROVE  queue'[<<"needs-rescoring", i>>].state # "closed"
    <3> DEFINE row == <<"needs-rescoring", i>>
    <3>1. i \in Criteria /\ queue[row].state # "closed"
      BY <1>0, <1>inv, <2>1, <2>4 DEF StaleIsQueued, IsPartial, SoftOf
    <3>2. row \in Rows /\ row # parked
      BY <2>1, <2>4, <3>1 DEF Rows, CriterionKinds
    <3> HIDE DEF row
    <3> QED
      BY <2>1, <2>2, <2>3, <3>1, <3>2, ReopenKeeps DEF row
  <2> QED
    BY <1>inv, <2>1, <2>4 DEF StaleInv, StaleIsQueued, WholeFor
<1>11. CASE UNCHANGED vars
  BY <1>1, <1>11 DEF vars
<1> QED
  BY <1>2, <1>3, <1>4, <1>5, <1>6, <1>7, <1>8, <1>9, <1>10, <1>11
     DEF Next, Developing, Verifying, Scoring, Tending

LEMMA StaleInit == Init => StaleInv
  BY BoundsAssumption
     DEF Init, StaleInv, WholeFor, StaleIsQueued, SoftOf, NoCard, NoCriteria, Spec0

(* A stale score never gets lost: for every contract, re-freeze, sweep, judge *)
(* and human, its row is in the queue, parked, or was closed by hand since    *)
(* the score went stale.                                                      *)
THEOREM StaleScoresAreQueued == Spec => []StaleIsQueued
<1>1. StaleInv => StaleIsQueued
  BY DEF StaleInv
<1> QED
  BY <1>1, StaleInit, StaleStep, TypeCorrect, PTL DEF Spec

-----------------------------------------------------------------------------
\* Fresh passes.

Fresh(c, i) == c.criteria[i].tier = "soft" /\ c.criteria[i].status = "pass" /\ ~c.criteria[i].stale

(* When neither edits are thrown away, nor folds lost, nor scores overtaken:  *)
(* unless there are edits, or commits of code since the latest run, the       *)
(* working tree still renders what that run saw; no entry is of a later       *)
(* commit than that run; and the scorer looks at that run.                    *)
RenderInv ==
    /\ WholeFor(card)
    /\ folded
    /\ run # NoRun => dirty \/ MovedSince(run.sha) \/ run.look = look
    /\ \A i \in DOMAIN card.criteria : card.criteria[i].sha <= run.sha
    /\ run = NoRun => card = NoCard
    /\ shown # NotShown => shown.look = run.look
    /\ \A i \in DOMAIN card.criteria : Fresh(card, i) => judged[i].look = run.look

(* A commit seen from an earlier one is seen from all before it. *)
LEMMA MovedSinceEarlier ==
    ASSUME touched \subseteq Nat, NEW m \in Nat, NEW n \in Nat, m <= n, MovedSince(n)
    PROVE  MovedSince(m)
  BY DEF MovedSince

(* An entry is fresh after a fold only if its score was fresh and the fold    *)
(* did not see the code move; every entry is of the run or was carried.       *)
LEMMA FoldFreshness ==
    ASSUME NEW r \in Runs, NEW c, NEW ch, NEW un, NEW tn, NEW obs, NEW d,
           obs = Observe(r, ch, un, Unscored, tn), d = Reconcile(c, obs),
           spec.contract \in [DOMAIN spec.contract -> Clause],
           DOMAIN spec.contract \subseteq Criteria,
           IsPartial(c.criteria, Entry), WholeFor(c),
           NEW i \in DOMAIN d.criteria
    PROVE  /\ \/ d.criteria[i].sha = r.sha
              \/ i \in DOMAIN c.criteria /\ d.criteria[i].sha = c.criteria[i].sha
           /\ Fresh(d, i) => /\ i \in DOMAIN c.criteria /\ Fresh(c, i)
                             /\ ~CodeMoved(c.criteria[i], obs)
<1>1. /\ DOMAIN d.criteria = DOMAIN spec.contract
      /\ DOMAIN obs.criteria = DOMAIN spec.contract
  BY FoldDomain
<1>2. d.criteria = NextCriteria(c, obs)
  BY DEF Reconcile
<1>3. CASE CarriesScore(c, obs, i)
  <2> DEFINE before == c.criteria[i]
             after == CarriedScore(before, obs.criteria[i], obs)
  <2>1. d.criteria[i] = after
    BY <1>1, <1>2, <1>3 DEF NextCriteria
  <2>2. i \in DOMAIN c.criteria /\ before \in Entry
    BY <1>3 DEF CarriesScore, IsPartial
  <2>3. /\ after.sha = before.sha /\ after.tier = before.tier /\ after.status = before.status
        /\ after.stale = (before.stale \/ CodeMoved(before, obs))
    BY <2>2 DEF CarriedScore, Entry
  <2> HIDE DEF before, after
  <2>4. ~d.criteria[i].stale => ~before.stale /\ ~CodeMoved(before, obs)
    BY <2>1, <2>3, Zenon
  <2>5. Fresh(d, i) => Fresh(c, i) /\ ~CodeMoved(before, obs)
    BY <2>1, <2>3, <2>4 DEF Fresh, before
  <2> QED
    BY <2>1, <2>2, <2>3, <2>5 DEF before
<1>4. CASE ~CarriesScore(c, obs, i)
  <2>1. d.criteria[i] = FreshEntry(obs.criteria[i], obs)
    BY <1>1, <1>2, <1>4 DEF NextCriteria
  <2>2. obs.sha = r.sha
    BY DEF Observe
  <2>3. ~Fresh(d, i)
    <3>1. CASE i \in Hard
      <4>1. d.criteria[i].tier = "hard"
        BY <1>1, <2>1, <3>1, ObservationOfRun DEF FreshEntry, Hard
      <4> QED
        BY <4>1 DEF Fresh
    <3>2. CASE i \notin Hard
      <4>1. d.criteria[i].status = "unscored"
        BY <1>1, <2>1, <3>2, ObservationOfRun DEF FreshEntry, Unscored
      <4> QED
        BY <4>1 DEF Fresh
    <3> QED
      BY <3>1, <3>2
  <2> QED
    BY <2>1, <2>2, <2>3 DEF FreshEntry
<1> QED
  BY <1>3, <1>4

LEMMA ObserveFields ==
    ASSUME NEW r, NEW ch, NEW un, NEW st, NEW tn, NEW obs,
           obs = Observe(r, ch, un, st, tn)
    PROVE  obs.codeChanged = ch /\ obs.renderUnchanged = un
  BY DEF Observe

(* A score the fold keeps fresh was given on what this verify renders too.    *)
LEMMA KeptJudgment ==
    ASSUME TypeOK, RenderInv, NEW r \in Runs,
           NEW since \in IF card = NoCard THEN {0} ELSE ObservedShas,
           NEW ch, ch = IF card = NoCard THEN "unknown" ELSE CodeChanged(since),
           NEW un, un = RenderUnchanged, NEW tn, NEW obs,
           obs = Observe(r, ch, un, Unscored, tn),
           NEW i \in DOMAIN card.criteria, Fresh(card, i),
           ~CodeMoved(card.criteria[i], obs)
    PROVE  judged[i].look = r.look
<1>1. r.look = look /\ judged[i].look = run.look
  BY DEF Runs, RenderInv
<1>2. CASE un
  BY <1>1, <1>2 DEF RenderUnchanged
<1>3. CASE ~un
  <2>1. card # NoCard
    BY DEF NoCard, NoCriteria
  <2>2. obs.codeChanged = ch /\ obs.renderUnchanged = un
    BY ObserveFields
  <2>3. ~obs.renderUnchanged
    BY <1>3, <2>2, Zenon
  <2>4. obs.codeChanged # "yes"
    BY <2>3 DEF CodeMoved
  <2>5. ~dirty /\ ~MovedSince(since)
    BY <2>1, <2>2, <2>4 DEF CodeChanged
  <2>6. since \in Nat /\ since <= run.sha /\ touched \subseteq Nat /\ run.sha \in Nat
    <3>1. PICK j \in DOMAIN card.criteria : since = card.criteria[j].sha
      BY <2>1 DEF ObservedShas, SoftOf
    <3>2. card.criteria[j].sha \in Nat
      BY DEF TypeOK, CardOK, IsPartial, Entry
    <3> QED
      BY <3>1, <3>2 DEF RenderInv, TypeOK, RunOK
  <2>7. ~MovedSince(run.sha)
    BY <2>5, <2>6, MovedSinceEarlier
  <2>8. run.look = look
    BY <2>1, <2>5, <2>7 DEF RenderInv
  <2> QED
    BY <1>1, <2>8
<1>4. un \in BOOLEAN
  BY DEF RenderUnchanged
<1> QED
  BY <1>2, <1>3, <1>4

(* The one fold of a verify over MCP: a fresh pass was judged on what this    *)
(* verify renders too.                                                        *)
LEMMA VerifyFreshness ==
    ASSUME TypeOK, RenderInv, NEW r \in Runs, Verify(r)
    PROVE  /\ WholeFor(card)'
           /\ \A i \in DOMAIN card'.criteria :
                /\ card'.criteria[i].sha <= r.sha
                /\ Fresh(card', i) => judged[i].look = r.look
<1>1. /\ IsPartial(card.criteria, Entry) /\ WholeFor(card)
      /\ DOMAIN spec.contract \subseteq Criteria
      /\ spec.contract \in [DOMAIN spec.contract -> Clause]
      /\ spec.version \in 1 .. MaxVersions
  BY ContractsAssumption DEF TypeOK, CardOK, IsPartial, RenderInv
<1>2. ASSUME NEW o, ClearProbation(o)
      PROVE  spec'.version = spec.version /\ spec'.contract = spec.contract
  BY <1>2 DEF ClearProbation, TypeOK
<1>3. ASSUME NEW since \in IF card = NoCard THEN {0} ELSE ObservedShas,
             NEW ch, ch = (IF card = NoCard THEN "unknown" ELSE CodeChanged(since)),
             NEW un, un = RenderUnchanged, NEW tn, NEW obs,
             obs = Observe(r, ch, un, Unscored, tn),
             card' = Reconcile(card, obs), ClearProbation(obs)
      PROVE  /\ WholeFor(card)'
             /\ \A i \in DOMAIN card'.criteria :
                  /\ card'.criteria[i].sha <= r.sha
                  /\ Fresh(card', i) => judged[i].look = r.look
  <2>1. card'.version = spec.version /\ DOMAIN card'.criteria = DOMAIN spec.contract
    BY <1>1, <1>3, FoldDomain
  <2>2. WholeFor(card)'
    BY <1>1, <1>2, <1>3, <2>1 DEF WholeFor
  <2>3. ASSUME NEW i \in DOMAIN card'.criteria
        PROVE  /\ card'.criteria[i].sha <= r.sha
               /\ Fresh(card', i) => judged[i].look = r.look
    <3>1. /\ \/ card'.criteria[i].sha = r.sha
             \/ i \in DOMAIN card.criteria /\ card'.criteria[i].sha = card.criteria[i].sha
          /\ Fresh(card', i) => /\ i \in DOMAIN card.criteria /\ Fresh(card, i)
                                /\ ~CodeMoved(card.criteria[i], obs)
      BY <1>1, <1>3, <2>3, FoldFreshness
    <3>2. run.sha \in 0..head /\ head \in Nat /\ r.sha = head
      BY BoundsAssumption DEF TypeOK, RunOK, Runs
    <3>3. ASSUME i \in DOMAIN card.criteria PROVE card.criteria[i].sha <= head
      <4>1. card.criteria[i].sha \in Nat /\ card.criteria[i].sha <= run.sha
        BY <1>1, <3>3 DEF IsPartial, Entry, RenderInv
      <4> QED
        BY <3>2, <4>1
    <3>4. card'.criteria[i].sha <= r.sha
      BY <3>1, <3>2, <3>3
    <3>5. ASSUME Fresh(card', i) PROVE judged[i].look = r.look
      BY <1>3, <3>1, <3>5, KeptJudgment
    <3> QED
      BY <3>4, <3>5
  <2> QED
    BY <2>2, <2>3
<1>4. \E since \in IF card = NoCard THEN {0} ELSE ObservedShas :
        LET changed == IF card = NoCard THEN "unknown" ELSE CodeChanged(since)
            obs == Observe(r, changed, RenderUnchanged, Unscored, TRUE)
        IN card' = Reconcile(card, obs) /\ ClearProbation(obs)
  BY DEF Verify
<1> QED
  BY <1>3, <1>4

LEMMA RenderStep ==
    ASSUME {"discard", "unfolded", "overtaken", "sweep", "judge"} \cap Steps = {}
    PROVE  TypeOK /\ RenderInv /\ [Next]_vars => RenderInv'
<1> SUFFICES ASSUME TypeOK, RenderInv, [Next]_vars PROVE RenderInv'
  OBVIOUS
<1>0. /\ IsPartial(card.criteria, Entry)
      /\ head \in Nat /\ touched \subseteq 1..head /\ run.sha \in 0..head
      /\ card.version \in 0 .. spec.version /\ spec.version \in 1 .. MaxVersions
  BY BoundsAssumption DEF TypeOK, CardOK, RunOK
<1>1. ASSUME UNCHANGED <<touched, dirty, look, spec, run, shown, card, folded, judged>>
      PROVE  RenderInv'
  BY <1>1 DEF RenderInv, WholeFor, MovedSince, Fresh
<1>2. ASSUME NEW l \in Looks, Edit(l) PROVE RenderInv'
  BY <1>2 DEF Edit, RenderInv, WholeFor, Fresh
<1>3. CASE Commit
  <2>1. MovedSince(run.sha)'
    BY <1>0, <1>3 DEF Commit, MovedSince
  <2> QED
    BY <1>3, <2>1 DEF Commit, RenderInv, WholeFor, Fresh
<1>4. CASE CommitOther
  BY <1>1, <1>4 DEF CommitOther
<1>5. CASE Discard
  BY <1>5 DEF Discard
<1>6. ASSUME NEW k \in Contracts, Refreeze(k) PROVE RenderInv'
  <2>1. /\ UNCHANGED <<touched, dirty, look, run, shown, card, folded, judged>>
        /\ spec'.version = spec.version + 1
    BY <1>6 DEF Refreeze, code, TypeOK
  <2>2. WholeFor(card)'
    BY <1>0, <2>1 DEF WholeFor, RenderInv
  <2> QED
    BY <2>1, <2>2 DEF RenderInv, MovedSince, Fresh
<1>7. CASE Show
  BY <1>7 DEF Show, RenderInv, WholeFor, MovedSince, Fresh, code
<1>8. ASSUME NEW s \in ScoresOf(Criteria), Record(s) PROVE RenderInv'
  <2> DEFINE before == card.criteria[s.id]
             after == [before EXCEPT !.status = Clamped(before, s), !.score = s.score,
                                     !.stale = FALSE, !.sha = run.sha]
             judgment == [text |-> shown.rubric[s.id].text, look |-> shown.look,
                          score |-> s.score]
  <2>1. /\ card' = ApplyScore(card, s, run.sha) /\ Scorable(card, s) /\ shown # NotShown
        /\ judged' = [judged EXCEPT ![s.id] = judgment] /\ shown' = NotShown
        /\ UNCHANGED <<touched, dirty, look, spec, run, folded>>
    BY <1>8 DEF Record, code
  <2>2. s.id \in DOMAIN card.criteria /\ before \in Entry /\ s.id \in Criteria
    BY <1>0, <2>1 DEF Scorable, IsPartial
  <2>3. card'.criteria = [card.criteria EXCEPT ![s.id] = after] /\ card'.version = card.version
    BY <2>1 DEF ApplyScore, ScoredCriteria
  <2>4. after.sha = run.sha
    BY <2>2 DEF Entry
  <2>5. /\ judged'[s.id].look = run.look
        /\ \A i \in Criteria : i # s.id => judged'[i] = judged[i]
    BY <2>1, <2>2 DEF TypeOK, RenderInv
  <2> HIDE DEF after, judgment
  <2>6. \A i \in DOMAIN card.criteria : i # s.id => card'.criteria[i] = card.criteria[i]
    BY <2>3
  <2>7. \A i \in DOMAIN card'.criteria : card'.criteria[i].sha <= run.sha
    BY <1>0, <2>2, <2>3, <2>4, <2>6 DEF RenderInv
  <2>8. ASSUME NEW i \in DOMAIN card'.criteria, Fresh(card', i) PROVE judged'[i].look = run.look
    <3>1. CASE i = s.id
      BY <2>5, <3>1
    <3>2. CASE i # s.id
      <4>1. i \in DOMAIN card.criteria /\ card'.criteria[i] = card.criteria[i] /\ i \in Criteria
        BY <1>0, <2>3, <2>6, <3>2 DEF IsPartial
      <4> QED
        BY <2>5, <2>8, <3>2, <4>1 DEF RenderInv, Fresh
    <3> QED
      BY <3>1, <3>2
  <2>9. run # NoRun
    BY <2>2 DEF RenderInv, NoCard, NoCriteria
  <2>10. WholeFor(card)'
    BY <2>1, <2>3 DEF RenderInv, WholeFor
  <2> QED
    BY <2>1, <2>7, <2>8, <2>9, <2>10 DEF RenderInv, MovedSince
<1>9. ASSUME NEW r \in Runs, Verify(r) PROVE RenderInv'
  <2>1. /\ run' = r /\ folded' = TRUE /\ shown' = NotShown
        /\ UNCHANGED <<touched, dirty, look, judged>>
    BY <1>9 DEF Verify, Recorded, code
  <2>2. r.look = look /\ r # NoRun
    BY <1>0 DEF Runs, NoRun
  <2>3. /\ WholeFor(card)'
        /\ \A i \in DOMAIN card'.criteria :
             /\ card'.criteria[i].sha <= r.sha
             /\ Fresh(card', i) => judged[i].look = r.look
    BY <1>9, VerifyFreshness
  <2> QED
    BY <2>1, <2>2, <2>3 DEF RenderInv
<1>10. ASSUME NEW r \in Runs, NEW s, VerifyUnfolded(r) \/ Sweep(r) \/ SweepJudged(r, s) PROVE FALSE
  BY <1>10 DEF VerifyUnfolded, Sweep, SweepJudged
<1>11. CASE Tending
  BY <1>1, <1>11 DEF Tending, Suppress, Resolve, code
<1>12. CASE UNCHANGED vars
  BY <1>1, <1>12 DEF vars
<1> QED
  BY <1>2, <1>3, <1>4, <1>5, <1>6, <1>7, <1>8, <1>9, <1>10, <1>11, <1>12
     DEF Next, Developing, Verifying, Scoring

(* Verified over MCP only, with no fold lost, no edit thrown away and no      *)
(* score overtaken: a soft pass that is not flagged stale was given by a      *)
(* scorer who saw what the latest run shows, through any number of edits,     *)
(* commits, re-freezes and scores, although the code question is asked of one *)
(* criterion's commit for all of them.                                        *)
THEOREM FreshPassesSawTheRender ==
    ASSUME {"discard", "unfolded", "overtaken", "sweep", "judge"} \cap Steps = {}
    PROVE  Spec => []FreshPassSawTheRender
<1>1. Init => RenderInv
  BY DEF Init, RenderInv, WholeFor, NoRun, NoCard, NoCriteria, Spec0, NotShown
<1>2. RenderInv => FreshPassSawTheRender
  BY DEF RenderInv, FreshPassSawTheRender, FreshPasses, SoftOf, Fresh
<1> QED
  BY <1>1, <1>2, RenderStep, TypeCorrect, PTL DEF Spec
-----------------------------------------------------------------------------
\* Rows that describe the card.

(* A criterion stays in the contract, and mechanical or soft, over every      *)
(* re-freeze.                                                                 *)
SameCriteria ==
    \A k, l \in Contracts :
       DOMAIN k = DOMAIN l /\ \A i \in DOMAIN k : k[i].tier = l[i].tier

(* OpenRowIsLive, of any card. *)
LiveIn(c, row) ==
    /\ row = CoverageDrop => Coverage(c.criteria) \notin {Unmeasured, 100}
    /\ row[1] = "needs-scoring" => Was(c, row[2]) = "unscored"
    /\ row[1] = "needs-rescoring" => row[2] \in DOMAIN c.criteria /\ c.criteria[row[2]].stale
    /\ row[1] \in TaskKinds => Was(c, row[2]) \in {"fail", "unverifiable"}

(* Parked rows too: they come back without being looked at again. *)
RowsLive(c, q) == \A row \in Rows : q[row].state # "closed" => LiveIn(c, row)

(* A card that was folded has the criteria of the contract, with their tiers; *)
(* only a judgment is stale.                                                  *)
Covers(c) ==
    /\ DOMAIN c.criteria # {} => DOMAIN c.criteria = DOMAIN spec.contract
    /\ \A i \in DOMAIN c.criteria :
         /\ c.criteria[i].tier = spec.contract[i].tier
         /\ c.criteria[i].tier = "hard" => c.criteria[i].status # "unscored"
         /\ c.criteria[i].stale => c.criteria[i].tier = "soft" /\ c.criteria[i].status # "unscored"

LEMMA CoverageRange ==
    ASSUME NEW crit, DOMAIN crit \subseteq Criteria
    PROVE  /\ Coverage(crit) \in Int /\ Coverage(crit) <= 100
           /\ Coverage(crit) = Unmeasured <=> HardOf(crit) = {}
<1> DEFINE hard == HardOf(crit)
           decided == {i \in HardOf(crit) : crit[i].status \in {"pass", "fail"}}
           t == Cardinality(hard)
           d == Cardinality(decided)
<1>1. IsFiniteSet(hard) /\ t \in Nat /\ (t = 0 <=> hard = {})
  BY CriteriaAssumption, FS_Subset, FS_CardinalityType, FS_EmptySet DEF HardOf
<1>2. d \in Nat /\ d <= t
  BY <1>1, FS_Subset, FS_CardinalityType
<1>3. Coverage(crit) = IF t = 0 THEN Unmeasured ELSE (200 * d + t) \div (2 * t)
  BY DEF Coverage
<1> HIDE DEF t, d, hard, decided
<1>4. CASE t = 0
  BY <1>1, <1>3, <1>4 DEF Unmeasured, hard
<1>5. CASE t # 0
  <2>1. t > 0 /\ 2 * t > 0 /\ 200 * d + t \in Nat /\ 2 * t \in Nat
    BY <1>1, <1>2, <1>5
  <2> DEFINE c == (200 * d + t) \div (2 * t)
  <2>2. c \in Int /\ 2 * t * c <= 200 * d + t /\ c >= 0
    BY <2>1, <1>1, <1>2
  <2> HIDE DEF c
  <2>3. c <= 100
    <3> SUFFICES ASSUME c >= 101 PROVE FALSE
      BY <2>2
    <3>1. 2 * t * c >= 2 * t * 101
      BY <2>1, <2>2, <1>1
    <3> QED
      BY <1>1, <1>2, <2>1, <2>2, <3>1
  <2> QED
    BY <1>1, <1>3, <1>5, <2>2, <2>3 DEF Unmeasured, hard, c
<1> QED
  BY <1>4, <1>5

(* Coverage looks at mechanical entries only. *)
LEMMA CoverageOfHard ==
    ASSUME NEW c, NEW d, HardOf(c) = HardOf(d),
           \A i \in HardOf(c) : c[i].status = d[i].status
    PROVE  Coverage(c) = Coverage(d)
<1>1. {i \in HardOf(c) : c[i].status \in {"pass", "fail"}}
        = {i \in HardOf(d) : d[i].status \in {"pass", "fail"}}
  OBVIOUS
<1> QED
  BY <1>1 DEF Coverage

(* What a fold writes of each criterion of the contract. *)
LEMMA FoldWrites ==
    ASSUME NEW r \in Runs, NEW c, NEW ch, NEW un, NEW tn, NEW st, NEW obs, NEW d,
           obs = Observe(r, ch, un, st, tn), d = Reconcile(c, obs), Covers(c),
           IsPartial(c.criteria, Entry)
    PROVE  /\ DOMAIN obs.criteria = DOMAIN spec.contract
           /\ DOMAIN d.criteria = DOMAIN spec.contract
           /\ DOMAIN c.criteria \subseteq DOMAIN spec.contract
           /\ \A i \in DOMAIN spec.contract :
                /\ CarriesScore(c, obs, i) =>
                     /\ i \in DOMAIN c.criteria /\ c.criteria[i].tier = "soft"
                     /\ d.criteria[i].tier = c.criteria[i].tier
                     /\ d.criteria[i].status = c.criteria[i].status
                     /\ d.criteria[i].stale = (c.criteria[i].stale \/ CodeMoved(c.criteria[i], obs))
                /\ ~CarriesScore(c, obs, i) =>
                     /\ d.criteria[i].tier = spec.contract[i].tier
                     /\ d.criteria[i].status = obs.criteria[i].status
                     /\ ~d.criteria[i].stale
<1>1. /\ DOMAIN obs.criteria = DOMAIN spec.contract
      /\ \A i \in DOMAIN spec.contract : obs.criteria[i].tier = spec.contract[i].tier
  BY ObservationOfRun
<1>2. DOMAIN c.criteria \subseteq DOMAIN spec.contract
  BY DEF Covers
<1>3. KeptCriteria(c, obs) = {}
  BY <1>1, <1>2 DEF KeptCriteria
<1>4. d.criteria = NextCriteria(c, obs)
  BY DEF Reconcile
<1>5. /\ DOMAIN d.criteria = DOMAIN spec.contract
      /\ \A i \in DOMAIN spec.contract :
           d.criteria[i] = IF CarriesScore(c, obs, i)
                           THEN CarriedScore(c.criteria[i], obs.criteria[i], obs)
                           ELSE FreshEntry(obs.criteria[i], obs)
  BY <1>1, <1>3, <1>4 DEF NextCriteria
<1>6. ASSUME NEW i \in DOMAIN spec.contract, CarriesScore(c, obs, i)
      PROVE  /\ i \in DOMAIN c.criteria /\ c.criteria[i].tier = "soft"
             /\ d.criteria[i].tier = c.criteria[i].tier
             /\ d.criteria[i].status = c.criteria[i].status
             /\ d.criteria[i].stale = (c.criteria[i].stale \/ CodeMoved(c.criteria[i], obs))
  <2> DEFINE before == c.criteria[i]
             after == CarriedScore(before, obs.criteria[i], obs)
  <2>1. i \in DOMAIN c.criteria /\ before.tier = "soft" /\ before \in Entry
    BY <1>6 DEF CarriesScore, IsPartial
  <2>2. d.criteria[i] = after
    BY <1>5, <1>6
  <2>3. /\ after.tier = before.tier /\ after.status = before.status
        /\ after.stale = (before.stale \/ CodeMoved(before, obs))
    BY <2>1 DEF CarriedScore, Entry
  <2> HIDE DEF before, after
  <2>4. d.criteria[i].stale = (before.stale \/ CodeMoved(before, obs))
    BY <2>2, <2>3, Zenon
  <2>5. d.criteria[i].tier = before.tier /\ d.criteria[i].status = before.status
    BY <2>2, <2>3, Zenon
  <2> QED
    BY <2>1, <2>4, <2>5, Zenon DEF before
<1>7. ASSUME NEW i \in DOMAIN spec.contract, ~CarriesScore(c, obs, i)
      PROVE  /\ d.criteria[i].tier = spec.contract[i].tier
             /\ d.criteria[i].status = obs.criteria[i].status
             /\ ~d.criteria[i].stale
  <2> DEFINE fresh == FreshEntry(obs.criteria[i], obs)
  <2>1. d.criteria[i] = fresh
    BY <1>5, <1>7, Zenon
  <2>2. fresh.tier = obs.criteria[i].tier /\ fresh.status = obs.criteria[i].status /\ fresh.stale = FALSE
    BY DEF FreshEntry
  <2> HIDE DEF fresh
  <2>3. obs.criteria[i].tier = spec.contract[i].tier
    BY <1>1
  <2> QED
    BY <2>1, <2>2, <2>3, Zenon
<1> QED
  BY <1>1, <1>2, <1>5, <1>6, <1>7

(* What a fold observes of each criterion: a mechanical verdict, nothing, or  *)
(* the status that a judge has just given to one that was not stale since.    *)
Judges(c, st) ==
    \A i \in DOMAIN spec.contract \ Hard :
       \/ st[i] = "unscored"
       \/ /\ st[i] \in {"pass", "fail", "unverifiable"}
          /\ i \in DOMAIN c.criteria
          /\ c.criteria[i].status # "unscored" /\ ~c.criteria[i].stale

LEMMA FoldSees ==
    ASSUME NEW r \in Runs, NEW c, NEW ch, NEW un, NEW tn, NEW st, NEW obs,
           obs = Observe(r, ch, un, st, tn), Covers(c), Judges(c, st),
           NEW i \in DOMAIN spec.contract
    PROVE  /\ spec.contract[i].tier = "hard" => obs.criteria[i].status \in {"pass", "fail", "unverifiable"}
           /\ spec.contract[i].tier # "hard" =>
                \/ obs.criteria[i].status = "unscored"
                \/ /\ obs.criteria[i].status \in {"pass", "fail", "unverifiable"}
                   /\ i \in DOMAIN c.criteria
                   /\ c.criteria[i].status # "unscored" /\ ~c.criteria[i].stale
<1>1. i \in Hard <=> spec.contract[i].tier = "hard"
  BY DEF Hard
<1>2. i \in Hard => obs.criteria[i].status = r.verdicts[i] /\ r.verdicts[i] \in {"pass", "fail", "unverifiable"}
  <2>1. i \in Hard => i \in HardOf(r.contract)
    BY RunShape DEF Hard, HardOf
  <2> QED
    BY <2>1, RunShape, ObservationOfRun
<1>3. i \notin Hard => obs.criteria[i].status = st[i]
  BY ObservationOfRun
<1> QED
  BY <1>1, <1>2, <1>3 DEF Judges

LEMMA FoldCovers ==
    ASSUME NEW r \in Runs, NEW c, NEW ch, NEW un, NEW tn, NEW st, NEW obs, NEW d,
           obs = Observe(r, ch, un, st, tn), d = Reconcile(c, obs), Covers(c), Judges(c, st),
           IsPartial(c.criteria, Entry), spec.contract \in [DOMAIN spec.contract -> Clause]
    PROVE  Covers(d)
<1>1. DOMAIN d.criteria = DOMAIN spec.contract
  BY FoldWrites
<1>2. ASSUME NEW i \in DOMAIN d.criteria
      PROVE  /\ d.criteria[i].tier = spec.contract[i].tier
             /\ d.criteria[i].tier = "hard" => d.criteria[i].status # "unscored"
             /\ d.criteria[i].stale => d.criteria[i].tier = "soft" /\ d.criteria[i].status # "unscored"
  <2>1. CASE CarriesScore(c, obs, i)
    <3>1. /\ i \in DOMAIN c.criteria /\ c.criteria[i].tier = "soft"
          /\ d.criteria[i].tier = c.criteria[i].tier
          /\ d.criteria[i].status = c.criteria[i].status
      BY <1>1, <2>1, FoldWrites
    <3> QED
      BY <2>1, <3>1 DEF Covers, CarriesScore
  <2>2. CASE ~CarriesScore(c, obs, i)
    <3>1. /\ d.criteria[i].tier = spec.contract[i].tier
          /\ d.criteria[i].status = obs.criteria[i].status /\ ~d.criteria[i].stale
      BY <1>1, <2>2, FoldWrites
    <3> QED
      BY <1>1, <3>1, FoldSees
  <2> QED
    BY <2>1, <2>2
<1> QED
  BY <1>1, <1>2 DEF Covers

LEMMA RecoveryIsClosed ==
    ASSUME NEW c, NEW obs, NEW i \in DOMAIN obs.criteria, Recovers(c, obs, i), NEW kind \in TaskKinds
    PROVE  <<kind, i>> \in Closes(c, obs)
<1>1. <<kind, i>> \in RecoveryCloses(i)
  BY DEF RecoveryCloses, TaskKinds
<1>2. RecoveryCloses(i) \in {RecoveryCloses(j) : j \in {k \in DOMAIN obs.criteria : Recovers(c, obs, k)}}
  OBVIOUS
<1>3. <<kind, i>> \in UNION {RecoveryCloses(j) : j \in {k \in DOMAIN obs.criteria : Recovers(c, obs, k)}}
  BY <1>1, <1>2
<1> QED
  BY <1>3, Zenon DEF Closes

(* A row that described the card describes it after the fold, or the fold     *)
(* closes it.                                                                 *)
LEMMA RowStaysLive ==
    ASSUME NEW r \in Runs, NEW c, NEW ch, NEW un, NEW tn, NEW st, NEW obs, NEW d,
           obs = Observe(r, ch, un, st, tn), d = Reconcile(c, obs), Covers(c), Judges(c, st),
           IsPartial(c.criteria, Entry), spec.contract \in [DOMAIN spec.contract -> Clause],
           NEW kind \in CriterionKinds, NEW i, LiveIn(c, <<kind, i>>),
           <<kind, i>> \notin Closes(c, obs)
    PROVE  LiveIn(d, <<kind, i>>)
<1>1. /\ DOMAIN obs.criteria = DOMAIN spec.contract /\ DOMAIN d.criteria = DOMAIN spec.contract
      /\ DOMAIN c.criteria \subseteq DOMAIN spec.contract
  BY FoldWrites
<1>2. i \in DOMAIN c.criteria
  BY DEF LiveIn, Was, CriterionKinds, TaskKinds
<1>3. /\ i \in DOMAIN spec.contract /\ c.criteria[i].tier = spec.contract[i].tier
      /\ c.criteria[i].tier \in {"hard", "soft"}
  BY <1>1, <1>2 DEF Covers, IsPartial, Entry, Tiers
<1>4. /\ spec.contract[i].tier = "hard" => obs.criteria[i].status \in {"pass", "fail", "unverifiable"}
      /\ spec.contract[i].tier # "hard" =>
           \/ obs.criteria[i].status = "unscored"
           \/ /\ obs.criteria[i].status \in {"pass", "fail", "unverifiable"}
              /\ c.criteria[i].status # "unscored" /\ ~c.criteria[i].stale
  BY <1>3, FoldSees
<1>5. CarriesScore(c, obs, i) => /\ d.criteria[i].status = c.criteria[i].status
                                 /\ d.criteria[i].stale = (c.criteria[i].stale \/ CodeMoved(c.criteria[i], obs))
  BY <1>3, FoldWrites
<1>6. ~CarriesScore(c, obs, i) => d.criteria[i].status = obs.criteria[i].status
  BY <1>3, FoldWrites
<1>7. Was(c, i) = c.criteria[i].status /\ Was(d, i) = d.criteria[i].status
  BY <1>1, <1>2, <1>3 DEF Was
<1>8. kind # CoverageDrop[1] /\ <<kind, i>> # CoverageDrop
  BY DEF CoverageDrop, CriterionKinds
<1>9. CASE kind = "needs-scoring"
  <2>1. c.criteria[i].status = "unscored"
    BY <1>7, <1>9 DEF LiveIn
  <2>2. c.criteria[i].tier # "hard" /\ ~CarriesScore(c, obs, i)
    BY <1>2, <2>1 DEF Covers, CarriesScore
  <2> QED
    BY <1>3, <1>4, <1>6, <1>7, <1>8, <1>9, <2>1, <2>2 DEF LiveIn, TaskKinds
<1>10. CASE kind = "needs-rescoring"
  <2>1. c.criteria[i].stale
    BY <1>10 DEF LiveIn
  <2>2. c.criteria[i].tier = "soft" /\ c.criteria[i].status # "unscored"
    BY <1>2, <2>1 DEF Covers
  <2>3. CarriesScore(c, obs, i)
    BY <1>2, <1>3, <1>4, <2>1, <2>2 DEF CarriesScore
  <2>4. d.criteria[i].stale
    BY <1>5, <2>1, <2>3, Zenon
  <2> QED
    BY <1>1, <1>3, <1>8, <1>10, <2>4 DEF LiveIn, TaskKinds
<1>11. CASE kind \in TaskKinds
  <2>1. c.criteria[i].status \in {"fail", "unverifiable"}
    BY <1>7, <1>11 DEF LiveIn
  <2>2. CASE CarriesScore(c, obs, i)
    BY <1>5, <1>7, <1>8, <1>11, <2>1, <2>2 DEF LiveIn, TaskKinds
  <2>3. CASE ~CarriesScore(c, obs, i)
    <3>1. obs.criteria[i].status \in {"pass", "fail", "unverifiable"}
      BY <1>2, <1>3, <1>4, <2>1, <2>3 DEF CarriesScore
    <3>2. obs.criteria[i].status # "pass"
      BY <1>1, <1>3, <1>7, <1>11, <2>1, <2>3, RecoveryIsClosed DEF Recovers
    <3> QED
      BY <1>6, <1>7, <1>8, <1>11, <2>3, <3>1, <3>2 DEF LiveIn, TaskKinds
  <2> QED
    BY <2>2, <2>3
<1> QED
  BY <1>9, <1>10, <1>11 DEF CriterionKinds, TaskKinds

(* A row that a fold opens describes the card the fold writes. *)
LEMMA RowOpensLive ==
    ASSUME NEW r \in Runs, NEW c, NEW ch, NEW un, NEW tn, NEW st, NEW obs, NEW d,
           obs = Observe(r, ch, un, st, tn), d = Reconcile(c, obs), Covers(c), Judges(c, st),
           IsPartial(c.criteria, Entry), spec.contract \in [DOMAIN spec.contract -> Clause],
           NEW i \in DOMAIN spec.contract, OpenedKind(c, obs, i) # "none"
    PROVE  /\ OpenedKind(c, obs, i) \in CriterionKinds
           /\ LiveIn(d, <<OpenedKind(c, obs, i), i>>)
<1> DEFINE kind == OpenedKind(c, obs, i)
           now == obs.criteria[i].status
<1>1. DOMAIN obs.criteria = DOMAIN spec.contract /\ DOMAIN d.criteria = DOMAIN spec.contract
  BY FoldWrites
<1>2. Was(d, i) = d.criteria[i].status
  BY <1>1 DEF Was
<1>3. CASE CarriesScore(c, obs, i)
  <2>1. now = "unscored" /\ i \in DOMAIN c.criteria
    BY <1>3 DEF CarriesScore
  <2>2. kind = IF c.criteria[i].stale \/ CodeMoved(c.criteria[i], obs) THEN "needs-rescoring" ELSE "none"
    BY <1>3, <2>1 DEF OpenedKind
  <2>3. c.criteria[i].stale \/ CodeMoved(c.criteria[i], obs)
    BY <2>2, Zenon
  <2>4. d.criteria[i].stale = (c.criteria[i].stale \/ CodeMoved(c.criteria[i], obs))
    BY <1>3, FoldWrites
  <2>5. d.criteria[i].stale
    BY <2>3, <2>4, Zenon
  <2>6. kind = "needs-rescoring"
    BY <2>2, <2>3, Zenon
  <2> HIDE DEF kind
  <2> QED
    BY <1>1, <2>5, <2>6 DEF LiveIn, CoverageDrop, CriterionKinds, TaskKinds, kind
<1>4. CASE ~CarriesScore(c, obs, i)
  <2>1. d.criteria[i].status = now
    BY <1>4, FoldWrites
  <2>2. \/ now = "unscored" /\ kind = "needs-scoring"
        \/ now = "fail" /\ kind \in {"needs-review", "regression"}
        \/ now = "unverifiable" /\ kind = "unverifiable"
    BY <1>4 DEF OpenedKind
  <2> HIDE DEF kind
  <2> QED
    BY <1>2, <2>1, <2>2 DEF LiveIn, CoverageDrop, CriterionKinds, TaskKinds, kind
<1> QED
  BY <1>3, <1>4

(* Coverage that fell below full, and its row. *)
LEMMA CoverageStaysLive ==
    ASSUME NEW r \in Runs, NEW c, NEW ch, NEW un, NEW tn, NEW st, NEW obs, NEW d,
           obs = Observe(r, ch, un, st, tn), d = Reconcile(c, obs), Covers(c), Judges(c, st),
           IsPartial(c.criteria, Entry), spec.contract \in [DOMAIN spec.contract -> Clause],
           DOMAIN spec.contract \subseteq Criteria,
           CoverageDrop \notin Closes(c, obs),
           CoverageDrop \in Opens(c, obs) \/ LiveIn(c, CoverageDrop)
    PROVE  LiveIn(d, CoverageDrop)
<1> DEFINE before == Coverage(c.criteria)
           after == Coverage(d.criteria)
<1>1. /\ DOMAIN d.criteria = DOMAIN spec.contract
      /\ DOMAIN c.criteria \subseteq DOMAIN spec.contract
      /\ d.criteria = NextCriteria(c, obs)
  BY FoldWrites DEF Reconcile
<1>2. Covers(d)
  BY FoldCovers
<1>3. HardOf(c.criteria) # {} => HardOf(d.criteria) # {}
  BY <1>1, <1>2 DEF HardOf, Covers
<1>4. /\ before \in Int /\ before <= 100 /\ (before = Unmeasured <=> HardOf(c.criteria) = {})
      /\ after \in Int /\ after <= 100 /\ (after = Unmeasured <=> HardOf(d.criteria) = {})
  BY <1>1, CoverageRange
<1>5. ~Lower(before, after)
  BY <1>1, Zenon DEF Closes
<1>6. Lower(after, before) \/ before \notin {Unmeasured, 100}
  <2>1. CASE LiveIn(c, CoverageDrop)
    BY <2>1 DEF LiveIn
  <2>2. CASE CoverageDrop \in Opens(c, obs)
    <3>1. \A i \in DOMAIN obs.criteria : OpenedKind(c, obs, i) # CoverageDrop[1]
      BY DEF OpenedKind, CoverageDrop
    <3>2. \A i \in DOMAIN obs.criteria : <<OpenedKind(c, obs, i), i>> # CoverageDrop
      BY <3>1 DEF CoverageDrop
    <3>3. CoverageDrop \notin {<<OpenedKind(c, obs, i), i>> : i \in DOMAIN obs.criteria}
      BY <3>2
    <3>4. Lower(Coverage(NextCriteria(c, obs)), Coverage(c.criteria))
      BY <2>2, <3>3, Zenon DEF Opens
    <3> QED
      BY <1>1, <3>4
  <2> QED
    BY <2>1, <2>2
<1> HIDE DEF before, after
<1>7. after \notin {Unmeasured, 100}
  BY <1>3, <1>4, <1>5, <1>6 DEF Lower
<1> QED
  BY <1>7 DEF LiveIn, CoverageDrop, TaskKinds, after

LEMMA MergedRow ==
    ASSUME NEW q \in [Rows -> RowStates], NEW opens, NEW closes, NEW row \in Rows,
           Merge(q, opens, closes)[row].state # "closed"
    PROVE  row \notin closes /\ (row \in opens \/ q[row].state # "closed")
  BY DEF Merge, Closed, RowStates

(* After a fold every row that is not closed describes the card. *)
LEMMA FoldLive ==
    ASSUME NEW r \in Runs, NEW c, NEW ch, NEW un, NEW tn, NEW st, NEW obs, NEW d,
           obs = Observe(r, ch, un, st, tn), d = Reconcile(c, obs), Covers(c), Judges(c, st),
           IsPartial(c.criteria, Entry), spec.contract \in [DOMAIN spec.contract -> Clause],
           DOMAIN spec.contract \subseteq Criteria,
           NEW q \in [Rows -> RowStates], RowsLive(c, q)
    PROVE  Covers(d) /\ RowsLive(d, Merge(q, Opens(c, obs), Closes(c, obs)))
<1>1. Covers(d)
  BY FoldCovers
<1>2. ASSUME NEW row \in Rows, Merge(q, Opens(c, obs), Closes(c, obs))[row].state # "closed"
      PROVE  LiveIn(d, row)
  <2>1. row \notin Closes(c, obs) /\ (row \in Opens(c, obs) \/ q[row].state # "closed")
    BY <1>2, MergedRow
  <2>2. row \in Opens(c, obs) \/ LiveIn(c, row)
    BY <2>1 DEF RowsLive
  <2>3. CASE row = CoverageDrop
    BY <2>1, <2>2, <2>3, CoverageStaysLive
  <2>4. ASSUME NEW kind \in CriterionKinds, NEW i \in Criteria, row = <<kind, i>> PROVE LiveIn(d, row)
    <3>1. CASE LiveIn(c, row)
      BY <2>1, <2>4, <3>1, RowStaysLive
    <3>2. CASE row \in Opens(c, obs)
      <4>1. row # CoverageDrop
        BY <2>4 DEF CoverageDrop, CriterionKinds
      <4>2. /\ row \in {<<OpenedKind(c, obs, j), j>> : j \in DOMAIN obs.criteria}
            /\ row[1] # "none"
        BY <3>2, <4>1, Zenon DEF Opens
      <4>3. PICK j \in DOMAIN obs.criteria : row = <<OpenedKind(c, obs, j), j>>
        BY <4>2
      <4>4. j \in DOMAIN spec.contract /\ OpenedKind(c, obs, j) # "none"
        BY <4>2, <4>3, FoldWrites
      <4> QED
        BY <4>3, <4>4, RowOpensLive
    <3> QED
      BY <2>2, <3>1, <3>2
  <2> QED
    BY <2>3, <2>4 DEF Rows
<1> QED
  BY <1>1, <1>2 DEF RowsLive

(* A score moves one soft criterion: the rows that no longer describe it are  *)
(* those it closes, and the row it opens does.                                *)
LEMMA ScoreLive ==
    ASSUME NEW c, IsPartial(c.criteria, Entry), Covers(c), NEW sha,
           NEW s \in ScoresOf(Criteria), Scorable(c, s),
           NEW q \in [Rows -> RowStates], RowsLive(c, q),
           NEW d, d = ApplyScore(c, s, sha)
    PROVE  /\ Covers(d) /\ RowsLive(d, Merge(q, ScoreOpens(c, s), ScoreCloses(c, s)))
           /\ s.id \in DOMAIN d.criteria
           /\ d.criteria[s.id].status # "unscored" /\ ~d.criteria[s.id].stale
<1> DEFINE before == c.criteria[s.id]
           after == [before EXCEPT !.status = Clamped(before, s), !.score = s.score,
                                   !.stale = FALSE, !.sha = sha]
           merged == Merge(q, ScoreOpens(c, s), ScoreCloses(c, s))
<1>1. s.id \in DOMAIN c.criteria /\ before \in Entry /\ before.tier = "soft"
  BY DEF Scorable, IsPartial
<1>2. Clamped(before, s) \in {"pass", "fail", "unverifiable"}
  BY DEF Clamped, ScoresOf
<1>3. after.tier = "soft" /\ after.status = Clamped(before, s) /\ after.stale = FALSE
  BY <1>1 DEF Entry
<1>4. d.criteria = [c.criteria EXCEPT ![s.id] = after]
  BY DEF ApplyScore, ScoredCriteria
<1> HIDE DEF after, merged
<1>5. /\ DOMAIN d.criteria = DOMAIN c.criteria /\ d.criteria[s.id] = after
      /\ \A i \in DOMAIN c.criteria : i # s.id => d.criteria[i] = c.criteria[i]
  BY <1>1, <1>4
<1>6. Covers(d)
  BY <1>1, <1>2, <1>3, <1>5 DEF Covers
<1>7. ASSUME NEW row \in Rows, merged[row].state # "closed" PROVE LiveIn(d, row)
  <2>1. /\ row \notin ScoreCloses(c, s)
        /\ row \in ScoreOpens(c, s) \/ LiveIn(c, row)
    BY <1>7, MergedRow DEF RowsLive, merged
  <2>2. CASE row = CoverageDrop
    <3>1. row \notin ScoreOpens(c, s)
      BY <2>2 DEF ScoreOpens, CoverageDrop
    <3>2. HardOf(c.criteria) = HardOf(d.criteria) /\ s.id \notin HardOf(c.criteria)
      BY <1>1, <1>3, <1>5 DEF HardOf
    <3>3. \A i \in HardOf(c.criteria) : c.criteria[i].status = d.criteria[i].status
      BY <1>5, <3>2 DEF HardOf
    <3>4. Coverage(c.criteria) = Coverage(d.criteria)
      BY <3>2, <3>3, CoverageOfHard
    <3> QED
      BY <2>1, <2>2, <3>1, <3>4 DEF LiveIn, CoverageDrop, TaskKinds
  <2>3. ASSUME NEW kind \in CriterionKinds, NEW i \in Criteria, row = <<kind, i>> PROVE LiveIn(d, row)
    <3>0. row # CoverageDrop
      BY <2>3 DEF CoverageDrop, CriterionKinds
    <3>1. CASE i # s.id
      <4>1. LiveIn(c, row)
        BY <2>1, <2>3, <3>1 DEF ScoreOpens
      <4>2. Was(d, i) = Was(c, i)
        BY <1>5, <3>1 DEF Was
      <4> QED
        BY <1>5, <2>3, <3>0, <3>1, <4>1, <4>2 DEF LiveIn
    <3>2. CASE i = s.id
      <4>1. Was(c, i) = before.status /\ Was(d, i) = Clamped(before, s)
        BY <1>1, <1>3, <1>5, <3>2 DEF Was
      <4>2. CASE kind = "needs-scoring"
        <5>1. before.status = "unscored"
          BY <2>1, <2>3, <4>1, <4>2 DEF LiveIn, ScoreOpens
        <5> QED
          BY <2>1, <2>3, <3>2, <4>2, <5>1 DEF ScoreCloses
      <4>3. CASE kind = "needs-rescoring"
        <5>1. before.stale
          BY <2>1, <2>3, <3>2, <4>3 DEF LiveIn, ScoreOpens
        <5> QED
          BY <2>1, <2>3, <3>2, <4>3, <5>1 DEF ScoreCloses
      <4>4. CASE kind \in TaskKinds
        <5>1. CASE row \in ScoreOpens(c, s)
          <6>1. Clamped(before, s) = "fail"
            BY <5>1 DEF ScoreOpens
          <6> QED
            BY <2>3, <3>0, <4>1, <4>4, <6>1 DEF LiveIn, TaskKinds
        <5>2. CASE LiveIn(c, row)
          <6>1. before.status \in {"fail", "unverifiable"}
            BY <2>3, <4>1, <4>4, <5>2 DEF LiveIn
          <6>2. Clamped(before, s) # "pass"
            BY <2>1, <2>3, <3>2, <4>4, <6>1 DEF ScoreCloses, RecoveryCloses, TaskKinds
          <6> QED
            BY <1>2, <2>3, <3>0, <4>1, <4>4, <6>2 DEF LiveIn, TaskKinds
        <5> QED
          BY <2>1, <5>1, <5>2
      <4> QED
        BY <4>2, <4>3, <4>4 DEF CriterionKinds, TaskKinds
    <3> QED
      BY <3>1, <3>2
  <2> QED
    BY <2>2, <2>3 DEF Rows
<1> QED
  BY <1>1, <1>2, <1>3, <1>5, <1>6, <1>7 DEF RowsLive, merged

(* Reopening wakes only rows that were kept, and a reconciliation of parked   *)
(* rows or a human closes rows and opens none.                                *)
LEMMA ReopenLive ==
    ASSUME NEW c, NEW q \in [Rows -> RowStates], NEW moved, RowsLive(c, q)
    PROVE  RowsLive(c, Reopened(q, moved))
<1>1. ASSUME NEW row \in Rows, Reopened(q, moved)[row].state # "closed"
      PROVE  q[row].state # "closed"
  BY <1>1 DEF Reopened
<1> QED
  BY <1>1 DEF RowsLive

LEMMA AnswerLive ==
    ASSUME NEW c, NEW q \in [Rows -> RowStates], NEW k, RowsLive(c, q)
    PROVE  RowsLive(c, CloseAnswered(q, k, c))
<1>1. ASSUME NEW row \in Rows, CloseAnswered(q, k, c)[row].state # "closed"
      PROVE  q[row].state # "closed"
  BY <1>1 DEF CloseAnswered, Closed
<1> QED
  BY <1>1 DEF RowsLive

LiveInv == Covers(card) /\ RowsLive(card, queue)

(* obs is what some run shows a fold of c. *)
Sees(c, obs) ==
    \E r \in Runs : \E ch, un, st, tn : obs = Observe(r, ch, un, st, tn) /\ Judges(c, st)

LEMMA LiveStep ==
    ASSUME "refreeze" \in Steps => SameCriteria
    PROVE  TypeOK /\ LiveInv /\ [Next]_vars => LiveInv'
<1> SUFFICES ASSUME TypeOK, LiveInv, [Next]_vars PROVE LiveInv'
  OBVIOUS
<1>0. /\ IsPartial(card.criteria, Entry) /\ card.streak \in [count : Nat, lastSha : 0..head]
      /\ queue \in [Rows -> RowStates]
      /\ spec.contract \in Contracts /\ DOMAIN spec.contract \subseteq Criteria
      /\ spec.contract \in [DOMAIN spec.contract -> Clause]
  BY ContractsAssumption DEF TypeOK, CardOK, IsPartial
<1>inv. Covers(card) /\ RowsLive(card, queue)
  BY DEF LiveInv
<1>kept. ASSUME NEW d, NEW q, Covers(d), RowsLive(d, q),
                card' = d, queue' = q, UNCHANGED spec.contract
         PROVE  LiveInv'
  BY <1>kept DEF LiveInv, Covers, RowsLive, LiveIn
<1>1. ASSUME UNCHANGED <<card, queue, spec>> PROVE LiveInv'
  BY <1>1, <1>inv, <1>kept
<1>unscored. \A c : Judges(c, Unscored)
  BY <1>0 DEF Judges, Unscored
<1>probation. ASSUME NEW obs, ClearProbation(obs) PROVE UNCHANGED spec.contract
  BY <1>probation, ClearProbationTypes
<1>fold. ASSUME NEW c, NEW obs, Sees(c, obs), IsPartial(c.criteria, Entry), Covers(c),
                NEW q \in [Rows -> RowStates], RowsLive(c, q)
         PROVE  /\ Covers(Reconcile(c, obs))
                /\ RowsLive(Reconcile(c, obs), Merge(q, Opens(c, obs), Closes(c, obs)))
                /\ Merge(q, Opens(c, obs), Closes(c, obs)) \in [Rows -> RowStates]
  <2>1. PICK r \in Runs : \E ch, un, st, tn : obs = Observe(r, ch, un, st, tn) /\ Judges(c, st)
    BY <1>fold DEF Sees
  <2>2. PICK ch, un, st, tn : obs = Observe(r, ch, un, st, tn) /\ Judges(c, st)
    BY <2>1
  <2> QED
    BY <1>0, <1>fold, <2>2, FoldLive, QueueTypes
<1>sees. ASSUME NEW r \in Runs, NEW c, NEW ch, NEW un, NEW tn
         PROVE  Sees(c, Observe(r, ch, un, Unscored, tn))
  BY <1>unscored, Zenon DEF Sees
<1>2. ASSUME NEW l \in Looks, Edit(l) PROVE LiveInv'
  BY <1>1, <1>2 DEF Edit
<1>3. CASE Commit \/ CommitOther \/ Discard \/ Show
  BY <1>1, <1>3 DEF Commit, CommitOther, Discard, Show
<1>4. ASSUME NEW k \in Contracts, Refreeze(k) PROVE LiveInv'
  <2>1. UNCHANGED <<card, queue>> /\ spec'.contract = k /\ SameCriteria
    BY <1>4 DEF Refreeze, TypeOK
  <2>2. DOMAIN k = DOMAIN spec.contract /\ \A i \in DOMAIN k : k[i].tier = spec.contract[i].tier
    BY <1>0, <2>1 DEF SameCriteria
  <2>3. Covers(card)'
    BY <1>inv, <2>1, <2>2 DEF Covers
  <2> QED
    BY <1>inv, <2>1, <2>3 DEF LiveInv, RowsLive, LiveIn
<1>5. ASSUME NEW r \in Runs, Verify(r) PROVE LiveInv'
  <2>1. PICK ch :
          LET obs == Observe(r, ch, RenderUnchanged, Unscored, TRUE)
              merged == Merge(queue, Opens(card, obs), Closes(card, obs))
          IN /\ card' = Reconcile(card, obs)
             /\ queue' = Reopened(CloseAnswered(merged, spec.contract, card'), Moved)
             /\ ClearProbation(obs)
    BY <1>5 DEF Verify
  <2> DEFINE obs == Observe(r, ch, RenderUnchanged, Unscored, TRUE)
             d == Reconcile(card, obs)
             merged == Merge(queue, Opens(card, obs), Closes(card, obs))
             answered == CloseAnswered(merged, spec.contract, d)
  <2>2. Sees(card, obs)
    BY <1>sees
  <2>3. card' = d /\ queue' = Reopened(answered, Moved) /\ ClearProbation(obs)
    BY <2>1
  <2> HIDE DEF obs
  <2>4. Covers(d) /\ RowsLive(d, merged) /\ merged \in [Rows -> RowStates]
    BY <1>0, <1>inv, <1>fold, <2>2
  <2> HIDE DEF d, merged
  <2>5. RowsLive(d, answered) /\ answered \in [Rows -> RowStates]
    BY <2>4, AnswerLive, QueueTypes
  <2> HIDE DEF answered
  <2>6. RowsLive(d, Reopened(answered, Moved))
    BY <2>5, ReopenLive
  <2> QED
    BY <1>kept, <1>probation, <2>3, <2>4, <2>6
<1>6. ASSUME NEW r \in Runs, VerifyUnfolded(r) PROVE LiveInv'
  BY <1>1, <1>6 DEF VerifyUnfolded
<1>7. ASSUME NEW r \in Runs, Sweep(r) PROVE LiveInv'
  <2> DEFINE obs == Observe(r, "unknown", FALSE, Unscored, FALSE)
             d == Reconcile(card, obs)
             merged == Merge(queue, Opens(card, obs), Closes(card, obs))
  <2>1. card' = d /\ queue' = merged /\ ClearProbation(obs)
    BY <1>7 DEF Sweep, SweepObs
  <2>2. Sees(card, obs)
    BY <1>sees
  <2> HIDE DEF obs
  <2>3. Covers(d) /\ RowsLive(d, merged)
    BY <1>0, <1>inv, <1>fold, <2>2
  <2> HIDE DEF d, merged
  <2> QED
    BY <1>kept, <1>probation, <2>1, <2>3
<1>8. ASSUME NEW r \in Runs, NEW s \in ScoresOf(Criteria), SweepJudged(r, s) PROVE LiveInv'
  <2> DEFINE st == [Unscored EXCEPT ![s.id] = s.status]
             obs1 == Observe(r, "unknown", FALSE, Unscored, FALSE)
             first == Reconcile(card, obs1)
             scored == ApplyScore(first, s, r.sha)
             obs2 == Observe(r, "unknown", FALSE, st, FALSE)
             d == Reconcile(scored, obs2)
             q1 == Merge(queue, Opens(card, obs1), Closes(card, obs1))
             q2 == Merge(q1, ScoreOpens(first, s), ScoreCloses(first, s))
             q3 == Reopened(q2, Moved)
             q4 == Merge(q3, Opens(scored, obs2), Closes(scored, obs2))
  <2>1. card' = d /\ queue' = q4 /\ ClearProbation(obs2) /\ Scorable(first, s)
    BY <1>8 DEF SweepJudged, SweepObs
  <2>2. Covers(first) /\ RowsLive(first, q1) /\ q1 \in [Rows -> RowStates]
    <3>1. Sees(card, obs1)
      BY <1>sees
    <3> HIDE DEF obs1
    <3> QED
      BY <1>0, <1>inv, <1>fold, <3>1
  <2>3. \A i \in Criteria : Unscored[i] \in Statuses
    BY DEF Unscored, Statuses
  <2>4. IsPartial(first.criteria, Entry) /\ first.streak \in [count : Nat, lastSha : 0..head]
    BY <1>0, <2>3, FoldShape
  <2>5. r.sha \in 0..head /\ 0 \in 0..head /\ 0..head \subseteq Nat
    BY BoundsAssumption DEF Runs, TypeOK
  <2> HIDE DEF first, q1
  <2>6. IsPartial(scored.criteria, Entry)
    BY <2>1, <2>4, <2>5, ApplyScoreTypes
  <2>7. /\ Covers(scored) /\ RowsLive(scored, q2)
        /\ s.id \in DOMAIN scored.criteria
        /\ scored.criteria[s.id].status # "unscored" /\ ~scored.criteria[s.id].stale
    BY <2>1, <2>2, <2>4, ScoreLive
  <2>8. q2 \in [Rows -> RowStates]
    BY <2>2, QueueTypes
  <2> HIDE DEF scored, q2
  <2>9. RowsLive(scored, q3) /\ q3 \in [Rows -> RowStates]
    BY <2>7, <2>8, ReopenLive, QueueTypes
  <2>10. Judges(scored, st)
    <3>1. \A i \in Criteria : st[i] = IF i = s.id THEN s.status ELSE "unscored"
      BY DEF Unscored
    <3>2. s.status \in {"pass", "fail", "unverifiable"}
      BY DEF ScoresOf
    <3> HIDE DEF st
    <3> QED
      BY <1>0, <2>7, <3>1, <3>2 DEF Judges
  <2> HIDE DEF q3, st
  <2>11. Sees(scored, obs2)
    BY <2>10, Zenon DEF Sees
  <2> HIDE DEF obs2
  <2>12. Covers(d) /\ RowsLive(d, q4)
    BY <2>6, <2>7, <2>9, <2>11, <1>fold
  <2> HIDE DEF d, q4
  <2> QED
    BY <1>kept, <1>probation, <2>1, <2>12
<1>9. ASSUME NEW s \in ScoresOf(Criteria), Record(s) PROVE LiveInv'
  <2> DEFINE d == ApplyScore(card, s, run.sha)
             merged == Merge(queue, ScoreOpens(card, s), ScoreCloses(card, s))
  <2>1. card' = d /\ queue' = Reopened(merged, Moved) /\ Scorable(card, s) /\ UNCHANGED spec
    BY <1>9 DEF Record
  <2>2. Covers(d) /\ RowsLive(d, merged)
    BY <1>0, <1>inv, <2>1, ScoreLive
  <2>3. merged \in [Rows -> RowStates]
    BY <1>0, QueueTypes
  <2> HIDE DEF d, merged
  <2>4. RowsLive(d, Reopened(merged, Moved))
    BY <2>2, <2>3, ReopenLive
  <2> QED
    BY <1>kept, <2>1, <2>2, <2>4
<1>10. ASSUME NEW row \in Rows, Suppress(row) \/ Resolve(row) PROVE LiveInv'
  <2> DEFINE q == IF Suppress(row)
                  THEN [queue EXCEPT ![row] = [state |-> "suppressed", parkedAt |-> head]]
                  ELSE [queue EXCEPT ![row] = Closed]
  <2>1. queue' = Reopened(q, Moved) /\ UNCHANGED <<spec, card>>
    BY <1>10 DEF Suppress, Resolve
  <2>2. q \in [Rows -> RowStates]
    BY <1>0 DEF RowStates, Closed, TypeOK
  <2>3. queue[row].state # "closed"
    BY <1>10 DEF Suppress, Resolve
  <2>4. \A other \in Rows : other # row => q[other] = queue[other]
    BY <1>0
  <2> HIDE DEF q
  <2>5. RowsLive(card, q)
    BY <1>inv, <2>3, <2>4 DEF RowsLive
  <2>6. RowsLive(card, Reopened(q, Moved))
    BY <2>2, <2>5, ReopenLive
  <2> QED
    BY <1>inv, <1>kept, <2>1, <2>6
<1>11. CASE UNCHANGED vars
  BY <1>1, <1>11 DEF vars
<1> QED
  BY <1>2, <1>3, <1>4, <1>5, <1>6, <1>7, <1>8, <1>9, <1>10, <1>11
     DEF Next, Developing, Verifying, Scoring, Tending

(* As long as a re-freeze keeps the criteria and their tiers, an open row     *)
(* describes the card: whatever recovers, is scored again or is covered again *)
(* takes its row with it, and what a human parked comes back only while it is *)
(* still so.                                                                  *)
THEOREM OpenRowsAreLive ==
    ASSUME "refreeze" \in Steps => SameCriteria
    PROVE  Spec => []NoZombieSignals
<1>1. Init => LiveInv
  BY DEF Init, LiveInv, Covers, RowsLive, NoCard, NoCriteria, Closed
<1>2. ASSUME LiveInv PROVE NoZombieSignals
  <2> SUFFICES ASSUME NEW row \in Rows, queue[row].state = "open" PROVE OpenRowIsLive(row)
    BY DEF NoZombieSignals
  <2>1. LiveIn(card, row)
    BY <1>2 DEF LiveInv, RowsLive
  <2>2. row = CoverageDrop \/ row[1] \in CriterionKinds
    BY DEF Rows
  <2> QED
    BY <2>1, <2>2 DEF LiveIn, OpenRowIsLive, CriterionKinds, TaskKinds, CoverageDrop
<1> QED
  BY <1>1, <1>2, LiveStep, TypeCorrect, PTL DEF Spec
=============================================================================
