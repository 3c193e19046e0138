----------------------------- MODULE RunRecords ------------------------------
(***************************************************************************)
(* The records of a spec's runs, and who writes them.                      *)
(*                                                                         *)
(* A verify marks its run as in flight, writes a start record, renders,    *)
(* overwrites the record, appends a row to the spec's timeline, folds the  *)
(* run into the scorecard and clears the mark.  Scores arrive for any run, *)
(* by submit_report, record_soft_scores and the automated judge, each of   *)
(* which reads a record, awaits something and writes the whole of it back. *)
(* `validity clean` removes old runs.  Verifies exclude each other by the  *)
(* verify lock; nothing else does.                                         *)
(*                                                                         *)
(* One spec, with a mechanical criterion that gates and a soft one that    *)
(* gates in some versions of the contract.  How the scorecard reduces what *)
(* it is given is the subject of Standing; here it is what it was folded   *)
(* from and which run its score is of.                                     *)
(***************************************************************************)
EXTENDS Integers, Sequences, FiniteSets

CONSTANTS
    Sessions,     \* scoring calls that may be in progress together
    Looks,        \* what a render may look like
    SoftGates,    \* SoftGates[v]: the soft criterion blocks in version v
    Keep,         \* runs that clean keeps
    Stable,       \* passing runs that make a hardening candidate
    NoLook,
    Steps,        \* the optional steps a run takes
    MaxRuns, MaxVersions, MaxCalls, MaxKills   \* bounds

ASSUME RecordsAssumption ==
    /\ MaxRuns \in Nat /\ MaxVersions \in Nat \ {0} /\ MaxCalls \in Nat /\ MaxKills \in Nat
    /\ Keep \in Nat \ {0} /\ Stable \in Nat \ {0}
    /\ SoftGates \in [1 .. MaxVersions -> BOOLEAN]
    /\ NoLook \notin Looks

VARIABLES
    version,   \* of the frozen contract
    meta,      \* meta[r]: run-meta.json of run r
    marker,    \* runs with an in-flight marker
    rows,      \* runs.jsonl: the run each row is of
    verify,    \* the verify in progress
    carry,     \* carry[r]: the score that r's response carried forward
    card,      \* the spec's entry of the scorecard
    session,   \* session[s]: a scoring call and the record it read
    judge,     \* the automated judge, the record and the card it read
    proposal,  \* a hardening candidate is open
    kills, calls   \* how many there were

vars == <<version, meta, marker, rows, verify, carry, card, session, judge, proposal,
          kills, calls>>
verifyVars == <<marker, verify, carry, proposal, kills>>

Runs == 1 .. MaxRuns
Verdict == {"pass", "fail", "unverifiable"}

\* The render a score was given for: its look and its contract.
Basis == [look : Looks \cup {NoLook}, version : 0 .. MaxVersions]

\* Evidence under a demoting taint leaves the mechanical verdict unverifiable; the
\* model knows no other reason for it.
Meta == [status : {"absent", "started", "done"}, version : 0 .. MaxVersions,
         look : Looks \cup {NoLook}, mech : Verdict, soft : Verdict, basis : Basis,
         signed : BOOLEAN]
Card == [run : 0 .. MaxRuns, version : 0 .. MaxVersions, mech : Verdict, soft : Verdict,
         signed : BOOLEAN]
Carry == [soft : Verdict, basis : Basis]

NoBasis == [look |-> NoLook, version |-> 0]
NoMeta == [status |-> "absent", version |-> 0, look |-> NoLook, mech |-> "unverifiable",
           soft |-> "unverifiable", basis |-> NoBasis, signed |-> FALSE]
NoCard == [run |-> 0, version |-> 0, mech |-> "unverifiable", soft |-> "unverifiable",
           signed |-> FALSE]
NoCarry == [soft |-> "unverifiable", basis |-> NoBasis]
NoSession == [at |-> "idle", run |-> 0, meta |-> NoMeta, version |-> 0]

TypeOK ==
    /\ version \in 1 .. MaxVersions
    /\ meta \in [Runs -> Meta]
    /\ marker \subseteq Runs
    /\ rows \in Seq(Runs)
    /\ verify \in [at : {"idle", "marked", "started", "rendering", "recorded", "indexed",
                         "folded", "leaving"},
                   run : 0 .. MaxRuns, prev : Meta, shot : Meta]
    /\ verify.at # "idle" => verify.run \in marker
    /\ carry \in [Runs -> Carry]
    /\ card \in Card
    /\ session \in [Sessions -> [at : {"idle", "submitting", "stamping"},
                                 run : 0 .. MaxRuns, meta : Meta, version : 0 .. MaxVersions]]
    /\ judge \in [at : {"idle", "judging"}, run : 0 .. MaxRuns, meta : Meta, card : Card]
    /\ proposal \in BOOLEAN
    /\ kills \in 0 .. MaxKills /\ calls \in 0 .. MaxCalls

Init ==
    /\ version = 1
    /\ meta = [r \in Runs |-> NoMeta]
    /\ marker = {} /\ rows = <<>>
    /\ verify = [at |-> "idle", run |-> 0, prev |-> NoMeta, shot |-> NoMeta]
    /\ carry = [r \in Runs |-> NoCarry]
    /\ card = NoCard
    /\ session = [s \in Sessions |-> NoSession]
    /\ judge = [at |-> "idle", run |-> 0, meta |-> NoMeta, card |-> NoCard]
    /\ proposal = FALSE
    /\ kills = 0 /\ calls = 0

-----------------------------------------------------------------------------
(* Readers *)

\* Started, never finished, and no longer marked as in flight.
Incomplete == {r \in Runs : meta[r].status = "started" /\ r \notin marker}

RowRuns == {rows[i] : i \in 1 .. Len(rows)}

Newest(S) == {r \in S : \A q \in S : q <= r}

\* readSpecRunHistory(.., 1): incomplete runs come after whatever was indexed.
LatestAmong(last) ==
    IF Incomplete \ last # {} THEN Newest(Incomplete \ last) ELSE last
Latest == LatestAmong(IF rows = <<>> THEN {} ELSE {rows[Len(rows)]})

\* The first row of r comes before any of q.
IndexedBefore(r, q) == \E i \in 1 .. Len(rows) : rows[i] = r /\ \A j \in 1 .. i : rows[j] # q

\* r comes before q in the timeline that clean reads, each run once.
Before(r, q) ==
    IF r \in RowRuns /\ q \in RowRuns THEN IndexedBefore(r, q)
    ELSE q \notin RowRuns /\ (r \in RowRuns \/ r < q)

\* The stop rule over a record's verdicts, by the contract of a version.
SignedOff(m, v) == m.mech = "pass" /\ (m.soft = "pass" \/ (v > 0 /\ ~SoftGates[v]))

Tainted(m) == m.mech = "unverifiable"

\* A pass on tainted evidence is withheld.
Clamp(m, verdict) == IF verdict = "pass" /\ Tainted(m) THEN "unverifiable" ELSE verdict

\* applySoftScores, on a card.
Scored(c, verdict) ==
    LET d == [c EXCEPT !.soft = Clamp(c, verdict)]
    IN  [d EXCEPT !.signed = SignedOff(d, d.version)]

\* The record of a run whose directory is gone is not written.
Store(r, m) == meta' = [meta EXCEPT ![r] = IF @.status = "absent" THEN @ ELSE m]

-----------------------------------------------------------------------------
(* verify *)

Begin ==
    /\ verify.at = "idle"
    /\ verify.run < MaxRuns
    /\ verify' = [verify EXCEPT !.at = "marked", !.run = @ + 1,
                                !.prev = NoMeta, !.shot = NoMeta]
    /\ marker' = marker \cup {verify.run + 1}
    /\ UNCHANGED <<version, meta, rows, carry, card, session, judge, proposal, kills, calls>>

\* Mutated form: the marker is cleared once the run has its start record.
StartUnmarks ==
    /\ verify.at = "marked"
    /\ verify' = [verify EXCEPT !.at = "started"]
    /\ meta' = [meta EXCEPT ![verify.run] = [NoMeta EXCEPT !.status = "started"]]
    /\ marker' = marker \ {verify.run}
    /\ UNCHANGED <<version, rows, carry, card, session, judge, proposal, kills, calls>>

WriteStart ==
    /\ verify.at = "marked"
    /\ verify' = [verify EXCEPT !.at = "started"]
    /\ meta' = [meta EXCEPT ![verify.run] = [NoMeta EXCEPT !.status = "started"]]
    /\ UNCHANGED <<version, marker, rows, carry, card, session, judge, proposal, kills, calls>>

\* Setup that needs a hand, nothing to render, a throw: no record is written.
Abort ==
    /\ "abort" \in Steps
    /\ verify.at \in {"started", "rendering"}
    /\ verify' = [verify EXCEPT !.at = "leaving"]
    /\ UNCHANGED <<version, meta, marker, rows, carry, card, session, judge, proposal, kills, calls>>

\* The previous run, before this one is indexed.
LoadPrevious ==
    /\ verify.at = "started"
    /\ \/ /\ Latest = {}
          /\ verify' = [verify EXCEPT !.at = "rendering",
                                      !.shot = [NoMeta EXCEPT !.version = version]]
       \/ \E r \in Latest :
            verify' = [verify EXCEPT !.at = "rendering", !.prev = meta[r],
                                     !.shot = [NoMeta EXCEPT !.version = version]]
    /\ UNCHANGED <<version, meta, marker, rows, carry, card, session, judge, proposal, kills, calls>>

\* A directory that was removed before the render began is made again.
Render(look, mech) ==
    LET m == [verify.shot EXCEPT !.status = "done", !.look = look, !.mech = mech]
        n == [m EXCEPT !.signed = SignedOff(m, m.version)]
    IN  /\ verify.at = "rendering"
        /\ verify' = [verify EXCEPT !.at = "recorded", !.shot = n]
        /\ Store(verify.run, n) \/ meta' = [meta EXCEPT ![verify.run] = n]
        /\ UNCHANGED <<version, marker, rows, carry, card, session, judge, proposal, kills, calls>>

\* A record that could not be written is not indexed.
Index ==
    /\ verify.at = "recorded"
    /\ verify' = [verify EXCEPT !.at = "indexed"]
    /\ rows' = IF meta[verify.run].status = "absent" THEN rows ELSE Append(rows, verify.run)
    /\ UNCHANGED <<version, meta, marker, carry, card, session, judge, proposal, kills, calls>>

CanCarry(m) == m.soft = "fail" \/ (m.soft = "pass" /\ ~Tainted(m))

\* Mutated form: the render is not compared.
CarryUnseen(prev, shot) ==
    IF prev.status = "done" /\ prev.version = shot.version /\ CanCarry(prev)
    THEN [soft |-> prev.soft, basis |-> prev.basis]
    ELSE NoCarry

\* partitionSoftCriteria: a score of the same contract whose render has not moved.
CarryForward(prev, shot) ==
    IF /\ prev.status = "done" /\ prev.version = shot.version
       /\ prev.look = shot.look
       /\ CanCarry(prev)
    THEN [soft |-> prev.soft, basis |-> prev.basis]
    ELSE NoCarry

\* The runs hardening looks at: back to the first of another contract, or one
\* without a record.
Window(v) ==
    LET R == RowRuns \cup Incomplete
    IN  {r \in R : \A q \in R : q >= r => meta[q].version = v /\ meta[q].status = "done"}

Steady(v) ==
    {r \in Window(v) : \A q \in Window(v) :
        q >= r => /\ meta[q].soft = "pass" /\ ~Tainted(meta[q])
                  /\ \A l \in Newest(Window(v)) : meta[q].look = meta[l].look}

\* Into the scorecard, whose score stands or does not; then the hardening
\* candidates are computed anew.
Fold(stands) ==
    LET shot == verify.shot
        c == [run |-> verify.run, version |-> shot.version, mech |-> shot.mech,
              soft |-> IF stands THEN card.soft ELSE "unverifiable", signed |-> FALSE]
    IN  /\ verify.at = "indexed"
        /\ verify' = [verify EXCEPT !.at = "folded"]
        /\ card' = [c EXCEPT !.signed = SignedOff(c, c.version)]
        /\ carry' = [carry EXCEPT ![verify.run] = CarryForward(verify.prev, shot)]
        /\ proposal' = (SoftGates[shot.version] /\ Cardinality(Steady(shot.version)) >= Stable)
        /\ UNCHANGED <<version, meta, marker, rows, session, judge, kills, calls>>

\* A spec of command checks alone has nothing to render: its record is indexed and
\* never folded (server.ts:2616).
End ==
    /\ \/ verify.at \in {"folded", "leaving"}
       \/ "abort" \in Steps /\ verify.at = "indexed"
    /\ verify' = [verify EXCEPT !.at = "idle", !.prev = NoMeta, !.shot = NoMeta]
    /\ marker' = marker \ {verify.run}
    /\ UNCHANGED <<version, meta, rows, carry, card, session, judge, proposal, kills, calls>>

\* kill -9: nothing is tidied up, and the lock is taken from the dead.
Kill ==
    /\ kills < MaxKills
    /\ verify.at # "idle"
    /\ kills' = kills + 1
    /\ verify' = [verify EXCEPT !.at = "idle", !.prev = NoMeta, !.shot = NoMeta]
    /\ UNCHANGED <<version, meta, marker, rows, carry, card, session, judge, proposal, calls>>

Verify ==
    \/ Begin \/ WriteStart \/ Abort \/ LoadPrevious
    \/ \E look \in Looks, mech \in Verdict : Render(look, mech)
    \/ Index
    \/ \E stands \in BOOLEAN : Fold(stands)
    \/ End \/ Kill

-----------------------------------------------------------------------------
(* Scores *)

Read(s, at, r) ==
    session' = [session EXCEPT ![s] = [at |-> at, run |-> r, meta |-> meta[r],
                                       version |-> version]]
Called == calls < MaxCalls /\ calls' = calls + 1
Done(s) == session' = [session EXCEPT ![s] = NoSession]

\* submit_report: the agent names a run that a verify returned, or one that a
\* dead verify left behind; a marker that is left is cleared.
SubmitReads(s, r) ==
    /\ session[s].at = "idle"
    /\ verify.at = "idle" \/ verify.run # r
    /\ meta[r].status # "absent"
    /\ Called
    /\ marker' = marker \ {r}
    /\ Read(s, "submitting", r)
    /\ UNCHANGED <<version, meta, rows, verify, carry, card, judge, proposal, kills>>

\* Mutated form: the stop rule is asked before the checks' verdicts are joined.
SubmittedRaw(m, v, verdict, basis) ==
    IF m.status = "done"
    THEN [m EXCEPT !.soft = Clamp(m, verdict), !.basis = basis,
                   !.signed = Clamp(m, verdict) = "pass"]
    ELSE m

\* What is written of a score, by a contract: that of a scorer who looked, or the
\* carried one.
Submitted(m, v, verdict, basis) ==
    IF m.status = "done"
    THEN LET n == [m EXCEPT !.soft = Clamp(m, verdict), !.basis = basis]
         IN  [n EXCEPT !.signed = SignedOff(n, v)]
    ELSE m

\* Mutated form: the card is seeded from the run that the score is of.
CardReseeded(r, m, verdict) ==
    Scored([run |-> r, version |-> m.version, mech |-> m.mech, soft |-> m.soft,
            signed |-> FALSE], Clamp(m, verdict))

\* What the record refused does not reach the card; a card there must be.
CardSubmitted(r, m, verdict) ==
    IF card.run = 0 THEN card ELSE Scored(card, Clamp(m, verdict))

\* Without a citable render there is no pass, and the whole report is refused.  The
\* spec is read some time after the record.
SubmitWrites(s, verdict) ==
    LET r == session[s].run  m == session[s].meta IN
    /\ session[s].at = "submitting"
    /\ m.status = "done" \/ verdict = "fail"
    /\ \E v \in session[s].version .. version :
         \/ Store(r, Submitted(m, v, verdict, [look |-> m.look, version |-> m.version]))
         \/ /\ carry[r].soft = verdict
            /\ Store(r, Submitted(m, v, verdict, carry[r].basis))
    /\ rows' = IF meta[r].status = "absent" THEN rows ELSE Append(rows, r)
    /\ card' = CardSubmitted(r, m, verdict)
    /\ Done(s)
    /\ UNCHANGED <<version, judge, calls, verifyVars>>

\* record_soft_scores: the latest run is the evidence; its record is read now
\* and stamped after an await.
RecordScores(s, verdict) ==
    /\ "record" \in Steps
    /\ session[s].at = "idle"
    /\ card.run # 0
    /\ Called
    /\ \/ /\ \A r \in Latest : meta[r].status = "absent"
          /\ verdict = "fail"
          /\ UNCHANGED session
       \/ \E r \in Latest :
            /\ meta[r].status # "absent"
            /\ meta[r].status = "done" \/ verdict = "fail"
            /\ Read(s, "stamping", r)
    /\ card' = Scored(card, verdict)
    /\ UNCHANGED <<version, meta, rows, judge, verifyVars>>

RecordStamps(s) ==
    /\ session[s].at = "stamping"
    /\ Store(session[s].run, session[s].meta)
    /\ Done(s)
    /\ UNCHANGED <<version, rows, card, judge, calls, verifyVars>>

\* The judge: any recorded run of the contract that is frozen now.
JudgeReads(r) ==
    /\ "judge" \in Steps
    /\ judge.at = "idle"
    /\ meta[r].status = "done" /\ meta[r].version = version
    /\ card.run # 0
    /\ Called
    /\ judge' = [at |-> "judging", run |-> r, meta |-> meta[r], card |-> card]
    /\ UNCHANGED <<version, meta, rows, card, session, verifyVars>>

\* It saves the card it read, scored, and takes the sign-off from there.
JudgeWrites(verdict) ==
    LET c == Scored(judge.card, verdict)  m == judge.meta IN
    /\ judge.at = "judging"
    /\ card' = c
    /\ Store(judge.run, [m EXCEPT !.soft = c.soft, !.signed = c.signed,
                                  !.basis = [look |-> m.look, version |-> m.version]])
    /\ judge' = [at |-> "idle", run |-> 0, meta |-> NoMeta, card |-> NoCard]
    /\ UNCHANGED <<version, rows, session, calls, verifyVars>>

Scoring ==
    \/ \E s \in Sessions, r \in Runs : SubmitReads(s, r)
    \/ \E s \in Sessions, verdict \in {"pass", "fail"} :
         SubmitWrites(s, verdict) \/ RecordScores(s, verdict)
    \/ \E s \in Sessions : RecordStamps(s)
    \/ \E r \in Runs : JudgeReads(r)
    \/ \E verdict \in {"pass", "fail"} : JudgeWrites(verdict)

-----------------------------------------------------------------------------
(* The rest of the world *)

Refreeze ==
    /\ version < MaxVersions
    /\ version' = version + 1
    /\ UNCHANGED <<meta, rows, card, session, judge, calls, verifyVars>>

\* Mutated form: a run's place in the timeline is that of its last row.
KeptByLastRow ==
    LET T == RowRuns \cup Incomplete
        last(r) == {i \in 1 .. Len(rows) : rows[i] = r}
    IN  {r \in T : Cardinality({q \in T : \E i \in last(q) : \A j \in last(r) : j < i}) < Keep}

Kept ==
    LET T == RowRuns \cup Incomplete
    IN  {r \in T : Cardinality({q \in T : Before(r, q)}) < Keep}

\* `validity clean` removes the directories of all runs but the last few of the
\* timeline; one that is in flight has no row yet.
Clean ==
    /\ "clean" \in Steps
    /\ meta' = [r \in Runs |-> IF r \in Kept THEN meta[r] ELSE NoMeta]
    /\ meta' # meta
    /\ UNCHANGED <<version, rows, card, session, judge, calls, verifyVars>>

Next == Verify \/ Scoring \/ Refreeze \/ Clean

Spec == Init /\ [][Next]_vars

-----------------------------------------------------------------------------
(* Properties *)

(* A score that a run's record holds was given by someone who saw that run's   *)
(* render under that run's contract, through any chain of carried scores       *)
(* (lean-verify.ts, partitionSoftCriteria), overlapping writers included.      *)
CarryIsEvidence ==
    \A r \in Runs : meta[r].soft # "unverifiable" =>
        meta[r].basis = [look |-> meta[r].look, version |-> meta[r].version]

(* What a run's checks proved is never rewritten: no scorer that read a record *)
(* before the run ended writes it back afterwards (run.ts, readIncompleteRuns).*)
CompletedStands ==
    [][\A r \in Runs : meta[r].status = "done" =>
          \/ meta'[r].status = "absent"
          \/ /\ meta'[r].status = "done" /\ meta'[r].mech = meta[r].mech
             /\ meta'[r].look = meta[r].look /\ meta'[r].version = meta[r].version]_vars

JudgedOnAnother(r) ==
    judge.at = "judging" /\ judge'.at = "idle" /\ judge.run = r /\ judge.card.run # r
PutBack(r) ==
    \E s \in Sessions : /\ session[s].at = "stamping" /\ session'[s].at = "idle"
                        /\ session[s].run = r /\ session[s].meta.signed

(* A run's record becomes signed off only when its own verdicts satisfy its     *)
(* contract.  The ways around it: the judge takes the sign-off from a card of  *)
(* another run, a score of a run whose contract has been replaced, and a stamp *)
(* that puts an older record back.                                             *)
SignOffIsEarned ==
    [][\A r \in Runs : (meta'[r].signed /\ ~meta[r].signed) =>
          \/ SignedOff(meta'[r], meta'[r].version)
          \/ JudgedOnAnother(r)
          \/ meta[r].version # version
          \/ PutBack(r)]_vars

(* Of all writers of the scorecard only the judge, which holds the card over   *)
(* the call of a model, replaces a newer fold by an older one.                 *)
OnlyTheJudgeForgets ==
    [][card'.run < card.run => judge.at = "judging" /\ judge'.at = "idle"]_vars

IndexedLate(q, r) == q < r /\ IndexedBefore(r, q)

(* Scoring an old run again does not cost the newest one its directory: clean  *)
(* keeps the newest indexed run (runs.ts, selectRunsToPrune).  It is displaced *)
(* by a run that a dead verify left: while that is incomplete, and when a      *)
(* score has indexed it late.                                                  *)
NewestIsKept ==
    [][\A r \in Newest(RowRuns) :
          (/\ Incomplete = {} /\ meta[r].status # "absent"
           /\ \A q \in RowRuns : ~IndexedLate(q, r)) => meta'[r].status # "absent"]_vars

(* When a soft criterion has passed the last runs on identical evidence, a     *)
(* verify leaves a hardening candidate open (hardening.ts:6-9).                *)
StablePassIsProposed ==
    LET r == verify.run  Last == {q \in Runs : r - Stable <= q /\ q < r} IN
    (/\ verify.at = "folded"
     /\ r > Stable
     /\ SoftGates[version]
     /\ \A q \in Last \cup {r} : /\ meta[q].status = "done" /\ meta[q].version = version
                               /\ meta[q].look = meta[r].look
     /\ \A q \in Last : meta[q].soft = "pass" /\ ~Tainted(meta[q]))
        => proposal

(* Whoever asks for the last run finds a record (runs.ts:216-218).             *)
LastRunExists == \A r \in Latest : meta[r].status # "absent"

(* A run that started, did not finish and is not running is listed as          *)
(* incomplete (server.ts:3121-3127).                                           *)
CrashIsSeen ==
    \A r \in Runs : (meta[r].status = "started" /\ (verify.at = "idle" \/ verify.run # r))
                      => r \in Incomplete

(* A record signed off is signed off by its own verdicts.                      *)
SignedRunIsProven ==
    \A r \in Runs : meta[r].signed => SignedOff(meta[r], meta[r].version)

(* A stamp of provenance leaves the score of its run as it is.                 *)
StampKeepsScores ==
    [][\A s \in Sessions : (session[s].at = "stamping" /\ session'[s].at = "idle") =>
          \A r \in Runs : meta'[r].soft = meta[r].soft]_vars

=============================================================================
