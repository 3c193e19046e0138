--------------------------- MODULE RunRecordsProofs --------------------------
(***************************************************************************)
(* What holds of the records of a spec's runs for any number of scoring    *)
(* calls, runs, looks and versions.                                        *)
(*                                                                         *)
(* Every writer holds a copy: of a record, of the card, of a score that    *)
(* was carried.  The invariant says which runs the copies may be of        *)
(* (Placed), that a copy still agrees with the record it will replace      *)
(* (Agree), and that the score in a copy is of the copy's own render       *)
(* (Evidence).                                                             *)
(***************************************************************************)
EXTENDS RunRecords, FiniteSetTheorems, TLAPS

Own(m) == [look |-> m.look, version |-> m.version]

\* The score in a record was given for the record's own render, and nothing is
\* signed off before it is done.
Scores(m) == /\ m.soft # "unverifiable" => m.basis = Own(m)
             /\ m.signed => m.status = "done"

\* Two records that differ in their score only.
Like(m, n) == /\ m.status = n.status /\ m.mech = n.mech
              /\ m.look = n.look /\ m.version = n.version

\* m is a copy of the record of run r, if there still is one.
CopyOf(r, m) == meta[r].status # "absent" => Like(meta[r], m)

\* The verify has not recorded, indexed, folded its run.
Unrecorded == verify.at \in {"marked", "started", "rendering", "leaving"}
Unindexed == Unrecorded \/ verify.at = "recorded"
Unfolded == Unindexed \/ verify.at = "indexed"

Past(r, pending) == r <= verify.run /\ (pending => r # verify.run)

Placed ==
    /\ \A r \in Runs : meta[r].status # "absent" => r <= verify.run
    /\ verify.at = "marked" => meta[verify.run].status = "absent"
    /\ Unrecorded => meta[verify.run].status # "done"
    /\ \A i \in 1 .. Len(rows) : Past(rows[i], Unindexed)
    /\ \A s \in Sessions : session[s].at # "idle" =>
         /\ session[s].run \in Runs /\ Past(session[s].run, Unindexed)
         /\ session[s].at = "submitting" => Past(session[s].run, verify.at # "idle")
    /\ judge.at = "judging" =>
         /\ judge.run \in Runs /\ Past(judge.run, Unrecorded)
         /\ Past(judge.card.run, Unfolded)
    /\ Past(card.run, Unfolded)
    /\ \A r \in Runs : carry[r].soft # "unverifiable" => Past(r, Unfolded)

\* A card folded from run r has the verdicts and the version of its record.
CardAgrees(c) ==
    \A r \in Runs : (c.run = r /\ meta[r].status # "absent") =>
        c.mech = meta[r].mech /\ c.version = meta[r].version

Agree ==
    /\ \A s \in Sessions : session[s].at # "idle" =>
         /\ CopyOf(session[s].run, session[s].meta)
         /\ session[s].meta.version <= session[s].version /\ session[s].version <= version
    /\ judge.at = "judging" =>
         /\ CopyOf(judge.run, judge.meta) /\ judge.meta.status = "done"
         /\ CardAgrees(judge.card)
         /\ judge.card.run = judge.run =>
              judge.card.mech = judge.meta.mech /\ judge.card.version = judge.meta.version
    /\ CardAgrees(card)
    /\ verify.at \in {"recorded", "indexed"} => CopyOf(verify.run, verify.shot)
    /\ \A r \in Runs : meta[r].version <= version
    /\ verify.shot.version <= version

Evidence ==
    /\ \A r \in Runs : Scores(meta[r])
    /\ Scores(verify.prev) /\ verify.shot.soft = "unverifiable"
    /\ \A s \in Sessions : session[s].at # "idle" => Scores(session[s].meta)
    /\ \A r \in Runs : (carry[r].soft # "unverifiable" /\ meta[r].status # "absent") =>
         carry[r].basis = Own(meta[r])
    /\ \A s \in Sessions :
         (session[s].at = "submitting" /\ carry[session[s].run].soft # "unverifiable") =>
           carry[session[s].run].basis = Own(session[s].meta)

IInv == TypeOK /\ Placed /\ Agree /\ Evidence

-----------------------------------------------------------------------------
(* Types *)

LEMMA Bounds ==
    MaxRuns \in Nat /\ MaxVersions \in Nat \ {0} /\ MaxCalls \in Nat /\ MaxKills \in Nat
BY RecordsAssumption DEF RecordsAssumption

LEMMA RecordsTyped ==
    ASSUME TypeOK
    PROVE  /\ NoMeta \in Meta /\ NoCard \in Card /\ NoCarry \in Carry
           /\ NoBasis \in Basis
           /\ \A r \in Runs : meta[r] \in Meta
           /\ verify.at # "idle" => verify.run \in Runs
BY Bounds DEF TypeOK, NoMeta, NoCard, NoCarry, NoBasis, Meta, Card, Carry, Basis, Verdict, Runs

LEMMA ScoredTyped ==
    ASSUME NEW c \in Card, NEW verdict \in Verdict
    PROVE  /\ Scored(c, verdict) \in Card
           /\ Scored(c, verdict).run = c.run
           /\ Scored(c, verdict).mech = c.mech
           /\ Scored(c, verdict).version = c.version
           /\ Scored(c, verdict).signed = SignedOff(Scored(c, verdict), c.version)
<1>1. /\ Clamp(c, verdict) \in Verdict
      /\ \A d, v : SignedOff(d, v) \in BOOLEAN
  BY DEF Clamp, Verdict, SignedOff
<1> DEFINE d == [c EXCEPT !.soft = Clamp(c, verdict)]
<1>2. /\ d \in Card /\ d.run = c.run /\ d.mech = c.mech /\ d.version = c.version
  BY <1>1 DEF Card
<1>3. Scored(c, verdict) = [d EXCEPT !.signed = SignedOff(d, d.version)]
  BY DEF Scored
<1> HIDE DEF d
<1>4. /\ Scored(c, verdict) \in Card
      /\ Scored(c, verdict).run = d.run /\ Scored(c, verdict).mech = d.mech
      /\ Scored(c, verdict).soft = d.soft
      /\ Scored(c, verdict).version = d.version
      /\ Scored(c, verdict).signed = SignedOff(d, d.version)
  BY <1>1, <1>2, <1>3 DEF Card
<1> QED
  BY <1>2, <1>4 DEF SignedOff

(* A record that is written back by a scorer: the score changes, and the   *)
(* sign-off with it.                                                        *)
LEMMA SubmittedTyped ==
    ASSUME NEW m \in Meta, NEW v \in 0 .. MaxVersions, NEW verdict \in Verdict, NEW b \in Basis
    PROVE  /\ Submitted(m, v, verdict, b) \in Meta
           /\ Like(m, Submitted(m, v, verdict, b))
           /\ m.status = "done" =>
                /\ Submitted(m, v, verdict, b).basis = b
                /\ Submitted(m, v, verdict, b).signed = SignedOff(Submitted(m, v, verdict, b), v)
           /\ m.status # "done" => Submitted(m, v, verdict, b) = m
<1>1. /\ Clamp(m, verdict) \in Verdict
      /\ \A d, w : SignedOff(d, w) \in BOOLEAN
  BY DEF Clamp, Verdict, SignedOff
<1> DEFINE n == [m EXCEPT !.soft = Clamp(m, verdict), !.basis = b]
<1>2. n \in Meta /\ Like(m, n) /\ n.basis = b
  BY <1>1 DEF Meta, Like
<1>3. m.status = "done" => Submitted(m, v, verdict, b) = [n EXCEPT !.signed = SignedOff(n, v)]
  BY DEF Submitted
<1> HIDE DEF n
<1>4. CASE m.status = "done"
  <2> DEFINE o == [n EXCEPT !.signed = SignedOff(n, v)]
  <2>1. /\ o \in Meta /\ Like(n, o) /\ o.basis = b /\ o.signed = SignedOff(n, v)
        /\ o.mech = n.mech /\ o.soft = n.soft
    BY <1>1, <1>2 DEF Meta, Like
  <2> QED
    BY <1>2, <1>3, <1>4, <2>1 DEF Like, SignedOff
<1>5. CASE m.status # "done"
  BY <1>5 DEF Submitted, Like
<1> QED
  BY <1>4, <1>5

(* A score that is carried was some run's, with its render. *)
LEMMA CarryTyped ==
    ASSUME NEW m \in Meta, NEW n \in Meta
    PROVE  /\ CarryForward(m, n) \in Carry
           /\ CarryForward(m, n).soft # "unverifiable" =>
                /\ CarryForward(m, n) = [soft |-> m.soft, basis |-> m.basis]
                /\ m.soft # "unverifiable"
                /\ m.look = n.look /\ m.version = n.version
BY Bounds DEF CarryForward, CanCarry, NoCarry, NoBasis, Carry, Meta, Basis, Verdict

(* The latest run is incomplete, or the last that was indexed. *)
LEMMA LatestIsKnown ==
    ASSUME TypeOK, NEW r \in Latest
    PROVE  /\ r \in Runs
           /\ \/ meta[r].status = "started" /\ r \notin marker
              \/ Len(rows) \in 1 .. Len(rows) /\ r = rows[Len(rows)]
<1>1. r \in Incomplete \/ (rows # <<>> /\ r = rows[Len(rows)])
  BY DEF Latest, LatestAmong, Newest
<1>2. CASE r \in Incomplete
  BY <1>2 DEF Incomplete
<1>3. CASE rows # <<>> /\ r = rows[Len(rows)]
  <2>1. rows \in Seq(Runs)
    BY DEF TypeOK
  <2>2. Len(rows) \in 1 .. Len(rows) /\ rows[Len(rows)] \in Runs
    BY <1>3, <2>1
  <2> QED
    BY <1>3, <2>2
<1> QED
  BY <1>1, <1>2, <1>3

LEMMA StoreTyped ==
    ASSUME TypeOK, NEW r \in Runs, NEW m \in Meta, Store(r, m)
    PROVE  /\ meta' \in [Runs -> Meta]
           /\ \A q \in Runs : q # r => meta'[q] = meta[q]
           /\ meta'[r] = IF meta[r].status = "absent" THEN meta[r] ELSE m
BY DEF TypeOK, Store

\* A verify in progress, as TypeOK has it.
Verifies == [at : {"idle", "marked", "started", "rendering", "recorded", "indexed",
                   "folded", "leaving"},
             run : 0 .. MaxRuns, prev : Meta, shot : Meta]

LEMMA InitTyped == Init => TypeOK
<1> SUFFICES ASSUME Init PROVE TypeOK
  OBVIOUS
<1>1. /\ NoMeta \in Meta /\ NoCard \in Card /\ NoCarry \in Carry
  BY Bounds DEF NoMeta, NoCard, NoCarry, NoBasis, Meta, Card, Carry, Basis, Verdict
<1>2. /\ meta \in [Runs -> Meta] /\ carry \in [Runs -> Carry]
      /\ card \in Card /\ rows \in Seq(Runs) /\ marker = {}
  BY <1>1 DEF Init
<1>3. NoSession \in [at : {"idle", "submitting", "stamping"}, run : 0 .. MaxRuns,
                     meta : Meta, version : 0 .. MaxVersions]
  BY <1>1, Bounds DEF NoSession
<1>4. session \in [Sessions -> [at : {"idle", "submitting", "stamping"}, run : 0 .. MaxRuns,
                                meta : Meta, version : 0 .. MaxVersions]]
  BY <1>3 DEF Init
<1>5. verify \in Verifies /\ verify.at = "idle"
  BY <1>1, Bounds DEF Init, Verifies
<1>6. judge \in [at : {"idle", "judging"}, run : 0 .. MaxRuns, meta : Meta, card : Card]
  BY <1>1, Bounds DEF Init
<1>7. version \in 1 .. MaxVersions /\ kills \in 0 .. MaxKills /\ calls \in 0 .. MaxCalls
  BY Bounds DEF Init
<1>8. proposal \in BOOLEAN
  BY DEF Init
<1> QED
  BY <1>1, <1>2, <1>4, <1>5, <1>6, <1>7, <1>8 DEF TypeOK, Verifies

LEMMA VerifyTyped ==
    ASSUME TypeOK, Verify PROVE TypeOK'
<1>0. /\ NoMeta \in Meta /\ NoCarry \in Carry /\ NoMeta.soft = "unverifiable"
      /\ verify.at # "idle" => verify.run \in Runs
      /\ verify.prev \in Meta /\ verify.shot \in Meta
      /\ \A d, v : SignedOff(d, v) \in BOOLEAN
  BY RecordsTyped DEF TypeOK, SignedOff, NoMeta
<1>1. CASE Begin
  <2>1. verify.run + 1 \in Runs /\ verify.run + 1 \in 0 .. MaxRuns
    BY <1>1, Bounds DEF Begin, TypeOK, Runs
  <2>2. verify \in Verifies
    BY DEF TypeOK, Verifies
  <2>3. verify' = [verify EXCEPT !.at = "marked", !.run = verify.run + 1,
                                 !.prev = NoMeta, !.shot = NoMeta]
    BY <1>1 DEF Begin
  <2>4. verify' \in Verifies /\ verify'.run = verify.run + 1
    BY <1>0, <2>1, <2>2, <2>3 DEF Verifies
  <2>5. marker' \subseteq Runs /\ verify'.run \in marker'
    BY <1>1, <2>1, <2>4 DEF Begin, TypeOK
  <2> QED
    BY <1>1, <2>4, <2>5 DEF Begin, TypeOK, Verifies
<1>2. CASE WriteStart
  <2>1. [NoMeta EXCEPT !.status = "started"] \in Meta
    BY <1>0 DEF Meta
  <2> QED
    BY <1>0, <1>2, <2>1 DEF WriteStart, TypeOK
<1>3. CASE Abort
  BY <1>3 DEF Abort, TypeOK
<1>4. CASE LoadPrevious
  <2>1. [NoMeta EXCEPT !.version = version] \in Meta
    <3>1. version \in 0 .. MaxVersions
      BY Bounds DEF TypeOK
    <3> QED
      BY <1>0, <3>1 DEF Meta
  <2>2. \A r \in Latest : meta[r] \in Meta
    BY LatestIsKnown DEF TypeOK
  <2> QED
    BY <1>0, <1>4, <2>1, <2>2 DEF LoadPrevious, TypeOK
<1>5. ASSUME NEW look \in Looks, NEW mech \in Verdict, Render(look, mech) PROVE TypeOK'
  <2> DEFINE m == [verify.shot EXCEPT !.status = "done", !.look = look, !.mech = mech]
             n == [m EXCEPT !.signed = SignedOff(m, m.version)]
  <2>1. m \in Meta
    BY <1>0 DEF Meta
  <2> HIDE DEF m
  <2>2. n \in Meta
    BY <1>0, <2>1 DEF Meta
  <2> HIDE DEF n
  <2>3. /\ verify.at = "rendering"
        /\ verify' = [verify EXCEPT !.at = "recorded", !.shot = n]
        /\ Store(verify.run, n) \/ meta' = [meta EXCEPT ![verify.run] = n]
        /\ UNCHANGED <<version, marker, rows, carry, card, session, judge, proposal, kills, calls>>
    BY <1>5 DEF Render, m, n
  <2>4. meta' \in [Runs -> Meta]
    BY <1>0, <2>2, <2>3, StoreTyped DEF TypeOK
  <2> QED
    BY <2>2, <2>3, <2>4 DEF TypeOK
<1>6. CASE Index
  <2>1. rows' \in Seq(Runs)
    BY <1>0, <1>6 DEF Index, TypeOK
  <2> QED
    BY <1>6, <2>1 DEF Index, TypeOK
<1>7. ASSUME NEW stands \in BOOLEAN, Fold(stands) PROVE TypeOK'
  <2> DEFINE c == [run |-> verify.run, version |-> verify.shot.version, mech |-> verify.shot.mech,
                   soft |-> IF stands THEN card.soft ELSE "unverifiable", signed |-> FALSE]
  <2>1. c \in Card
    BY <1>0 DEF TypeOK, Card, Meta, Verdict
  <2> HIDE DEF c
  <2>2. card' = [c EXCEPT !.signed = SignedOff(c, c.version)]
    BY <1>7 DEF Fold, c
  <2>3. card' \in Card
    BY <1>0, <2>1, <2>2 DEF Card
  <2>4. carry' \in [Runs -> Carry]
    BY <1>0, <1>7, CarryTyped DEF Fold, TypeOK
  <2>5. proposal' \in BOOLEAN
    BY <1>7 DEF Fold
  <2> QED
    BY <1>0, <1>7, <2>3, <2>4, <2>5 DEF Fold, TypeOK
<1>8. CASE End
  BY <1>0, <1>8 DEF End, TypeOK
<1>9. CASE Kill
  <2>1. verify' = [verify EXCEPT !.at = "idle", !.prev = NoMeta, !.shot = NoMeta]
        /\ kills' \in 0 .. MaxKills
    BY <1>9, Bounds DEF Kill, TypeOK
  <2>2. verify' \in Verifies /\ verify'.at = "idle"
    BY <1>0, <2>1 DEF TypeOK, Verifies
  <2> QED
    BY <1>9, <2>1, <2>2 DEF Kill, TypeOK, Verifies
<1> QED
  BY <1>1, <1>2, <1>3, <1>4, <1>5, <1>6, <1>7, <1>8, <1>9 DEF Verify

\* A scoring call, and the judge, as TypeOK has them.
Calls == [at : {"idle", "submitting", "stamping"}, run : 0 .. MaxRuns, meta : Meta,
          version : 0 .. MaxVersions]
Judges == [at : {"idle", "judging"}, run : 0 .. MaxRuns, meta : Meta, card : Card]

LEMMA ScoringTyped ==
    ASSUME TypeOK, Placed, Scoring PROVE TypeOK'
<1>0. /\ NoMeta \in Meta /\ NoCard \in Card
      /\ session \in [Sessions -> Calls] /\ judge \in Judges /\ card \in Card
      /\ \A r \in Runs : meta[r] \in Meta /\ r \in 0 .. MaxRuns
      /\ version \in 0 .. MaxVersions /\ 0 \in 0 .. MaxRuns /\ 0 \in 0 .. MaxVersions
      /\ {"pass", "fail"} \subseteq Verdict
  BY RecordsTyped, Bounds DEF TypeOK, Calls, Judges, Runs, Verdict
<1>1. NoSession \in Calls
  BY <1>0 DEF NoSession, Calls
<1>2. ASSUME NEW s \in Sessions, NEW at \in {"submitting", "stamping"}, NEW r \in Runs, Read(s, at, r)
      PROVE  session' \in [Sessions -> Calls]
  <2>1. [at |-> at, run |-> r, meta |-> meta[r], version |-> version] \in Calls
    BY <1>0 DEF Calls
  <2> QED
    BY <1>0, <1>2, <2>1 DEF Read
<1>3. ASSUME NEW s \in Sessions, Done(s) PROVE session' \in [Sessions -> Calls]
  BY <1>0, <1>1, <1>3 DEF Done
<1>4. Called => calls' \in 0 .. MaxCalls
  BY Bounds DEF Called, TypeOK
<1>5. ASSUME NEW s \in Sessions, NEW r \in Runs, SubmitReads(s, r) PROVE TypeOK'
  <2>1. /\ session' \in [Sessions -> Calls] /\ calls' \in 0 .. MaxCalls
    BY <1>2, <1>4, <1>5 DEF SubmitReads
  <2>2. /\ marker' \subseteq Runs
        /\ verify'.at # "idle" => verify'.run \in marker'
    BY <1>5 DEF SubmitReads, TypeOK
  <2> QED
    BY <1>5, <2>1, <2>2 DEF SubmitReads, TypeOK, Calls
<1>6. ASSUME NEW s \in Sessions, NEW verdict \in {"pass", "fail"}, SubmitWrites(s, verdict)
      PROVE  TypeOK'
  <2> DEFINE r == session[s].run  m == session[s].meta
             b == [look |-> m.look, version |-> m.version]
  <2>0. session[s].version \in 0 .. MaxVersions /\ version \in 1 .. MaxVersions
    BY <1>0 DEF Calls, TypeOK
  <2>1. /\ r \in Runs /\ m \in Meta /\ verdict \in Verdict
        /\ session[s].version .. version \subseteq 0 .. MaxVersions
    BY <1>0, <1>6, <2>0, Bounds DEF Calls, SubmitWrites, Placed
  <2>2. b \in Basis /\ carry[r].basis \in Basis
    BY <2>1 DEF Meta, Basis, TypeOK, Carry
  <2>3. PICK v \in session[s].version .. version, c \in Basis :
            Store(r, Submitted(m, v, verdict, c))
    BY <1>6, <2>2 DEF SubmitWrites
  <2>4. meta' \in [Runs -> Meta]
    BY <2>1, <2>3, SubmittedTyped, StoreTyped
  <2>5. rows' \in Seq(Runs)
    BY <1>6, <2>1 DEF SubmitWrites, TypeOK
  <2>6. card' \in Card
    <3>1. Clamp(m, verdict) \in Verdict
      BY <2>1 DEF Clamp, Verdict
    <3> QED
      BY <1>0, <1>6, <3>1, ScoredTyped DEF SubmitWrites, CardSubmitted
  <2> QED
    BY <1>3, <1>6, <2>4, <2>5, <2>6 DEF SubmitWrites, verifyVars, TypeOK, Calls
<1>7. ASSUME NEW s \in Sessions, NEW verdict \in {"pass", "fail"}, RecordScores(s, verdict)
      PROVE  TypeOK'
  <2>1. card' \in Card
    BY <1>0, <1>7, ScoredTyped DEF RecordScores
  <2>2. session' \in [Sessions -> Calls]
    BY <1>0, <1>2, <1>7, LatestIsKnown DEF RecordScores
  <2>3. calls' \in 0 .. MaxCalls
    BY <1>4, <1>7 DEF RecordScores
  <2> QED
    BY <1>7, <2>1, <2>2, <2>3 DEF RecordScores, verifyVars, TypeOK, Calls
<1>8. ASSUME NEW s \in Sessions, RecordStamps(s) PROVE TypeOK'
  <2>1. session[s].run \in Runs /\ session[s].meta \in Meta
    BY <1>0, <1>8 DEF Calls, RecordStamps, Placed
  <2>2. meta' \in [Runs -> Meta]
    BY <1>8, <2>1, StoreTyped DEF RecordStamps
  <2> QED
    BY <1>3, <1>8, <2>2 DEF RecordStamps, verifyVars, TypeOK, Calls
<1>9. ASSUME NEW r \in Runs, JudgeReads(r) PROVE TypeOK'
  <2>1. judge' \in Judges
    BY <1>0, <1>9 DEF JudgeReads, Judges
  <2> QED
    BY <1>4, <1>9, <2>1 DEF JudgeReads, verifyVars, TypeOK, Judges
<1>10. ASSUME NEW verdict \in {"pass", "fail"}, JudgeWrites(verdict) PROVE TypeOK'
  <2> DEFINE c == Scored(judge.card, verdict)  m == judge.meta
             b == [look |-> m.look, version |-> m.version]
             n == [m EXCEPT !.soft = c.soft, !.signed = c.signed, !.basis = b]
  <2>1. judge.run \in Runs /\ m \in Meta /\ c \in Card
    BY <1>0, <1>10, ScoredTyped DEF Judges, JudgeWrites, Placed
  <2>2. b \in Basis
    BY <2>1 DEF Meta, Basis
  <2>3. c.soft \in Verdict /\ c.signed \in BOOLEAN
    BY <2>1 DEF Card
  <2>4. card' = c /\ Store(judge.run, n)
    BY <1>10 DEF JudgeWrites
  <2> HIDE DEF c, b
  <2>5. n \in Meta
    BY <2>1, <2>2, <2>3 DEF Meta
  <2>6. meta' \in [Runs -> Meta]
    BY <2>1, <2>4, <2>5, StoreTyped
  <2>7. judge' \in Judges
    BY <1>0, <1>10 DEF JudgeWrites, Judges
  <2> QED
    BY <1>10, <2>1, <2>4, <2>6, <2>7 DEF JudgeWrites, verifyVars, TypeOK, Judges
<1> QED
  BY <1>5, <1>6, <1>7, <1>8, <1>9, <1>10 DEF Scoring

LEMMA RestTyped ==
    ASSUME TypeOK, Refreeze \/ Clean PROVE TypeOK'
<1>1. CASE Refreeze
  <2>1. version' \in 1 .. MaxVersions
    BY <1>1, Bounds DEF Refreeze, TypeOK
  <2> QED
    BY <1>1, <2>1 DEF Refreeze, verifyVars, TypeOK
<1>2. CASE Clean
  <2>1. meta' \in [Runs -> Meta]
    BY <1>2, RecordsTyped DEF Clean, TypeOK
  <2> QED
    BY <1>2, <2>1 DEF Clean, verifyVars, TypeOK
<1> QED
  BY <1>1, <1>2

-----------------------------------------------------------------------------
(* Which runs the copies are of *)

LEMMA InitPlaced == Init => Placed
BY Bounds DEF Init, Placed, Past, Unrecorded, Unindexed, Unfolded, NoMeta, NoCard, NoCarry, NoSession, Runs

LEMMA VerifyPlaced ==
    ASSUME TypeOK, Placed, Verify PROVE Placed'
<1> USE DEF Placed, Past, Unrecorded, Unindexed, Unfolded
<1>0. /\ \A i \in 1 .. Len(rows) : rows[i] \in Runs
      /\ verify.run \in 0 .. MaxRuns /\ card.run \in 0 .. MaxRuns
      /\ judge.run \in 0 .. MaxRuns /\ judge.card.run \in 0 .. MaxRuns
      /\ \A s \in Sessions : session[s].run \in 0 .. MaxRuns
      /\ Runs \subseteq Int /\ 0 .. MaxRuns \subseteq Int
  BY Bounds DEF TypeOK, Runs, Card
<1>1. CASE Begin
  <2>1. /\ verify.at = "idle" /\ verify'.at = "marked" /\ verify'.run = verify.run + 1
        /\ verify'.run \in Runs
        /\ UNCHANGED <<version, meta, rows, carry, card, session, judge>>
    BY <1>0, <1>1, Bounds DEF Begin, TypeOK, Runs
  <2>2. meta[verify'.run].status = "absent"
    BY <1>0, <2>1, RecordsTyped DEF Meta
  <2>3. \A p \in Int : p <= verify.run => p <= verify'.run /\ p # verify'.run
    BY <1>0, <2>1
  <2>4. /\ \A i \in 1 .. Len(rows) : rows[i] <= verify.run
        /\ \A s \in Sessions : session[s].at # "idle" =>
             session[s].run \in Runs /\ session[s].run <= verify.run
        /\ judge.at = "judging" =>
             judge.run \in Runs /\ judge.run <= verify.run /\ judge.card.run <= verify.run
        /\ card.run <= verify.run
        /\ \A r \in Runs : meta[r].status # "absent" => r <= verify.run
        /\ \A r \in Runs : carry[r].soft # "unverifiable" => r <= verify.run
    OBVIOUS
  <2> QED
    BY <1>0, <2>1, <2>2, <2>3, <2>4
<1>2. CASE WriteStart
  <2>1. /\ verify.at = "marked" /\ verify'.at = "started" /\ verify'.run = verify.run
        /\ verify.run \in Runs
        /\ UNCHANGED <<version, rows, carry, card, session, judge>>
    BY <1>2, RecordsTyped DEF WriteStart, TypeOK
  <2>2. /\ meta'[verify.run].status = "started"
        /\ \A r \in Runs : r # verify.run => meta'[r] = meta[r]
    BY <1>2, <2>1 DEF WriteStart, TypeOK, NoMeta
  <2> QED
    BY <1>0, <2>1, <2>2
<1>3. CASE Abort
  BY <1>0, <1>3 DEF Abort, TypeOK
<1>4. CASE LoadPrevious
  <2>1. /\ verify.at = "started" /\ verify'.at = "rendering" /\ verify'.run = verify.run
        /\ UNCHANGED <<version, meta, rows, carry, card, session, judge>>
    BY <1>4 DEF LoadPrevious, TypeOK
  <2> QED
    BY <1>0, <2>1
<1>5. ASSUME NEW look \in Looks, NEW mech \in Verdict, Render(look, mech) PROVE Placed'
  <2>1. /\ verify.at = "rendering" /\ verify'.at = "recorded" /\ verify'.run = verify.run
        /\ verify.run \in Runs
        /\ UNCHANGED <<version, rows, carry, card, session, judge>>
    BY <1>5, RecordsTyped DEF Render, TypeOK
  <2>2. \A r \in Runs : r # verify.run => meta'[r] = meta[r]
    BY <1>5, <2>1 DEF Render, Store, TypeOK
  <2> QED
    BY <1>0, <2>1, <2>2
<1>6. CASE Index
  <2>1. /\ verify.at = "recorded" /\ verify'.at = "indexed" /\ verify'.run = verify.run
        /\ verify.run \in Runs
        /\ UNCHANGED <<version, meta, carry, card, session, judge>>
    BY <1>6, RecordsTyped DEF Index, TypeOK
  <2>2. \A i \in 1 .. Len(rows') : rows'[i] <= verify.run
    BY <1>0, <1>6, <2>1 DEF Index, TypeOK
  <2> QED
    BY <1>0, <2>1, <2>2
<1>7. ASSUME NEW stands \in BOOLEAN, Fold(stands) PROVE Placed'
  <2>1. /\ verify.at = "indexed" /\ verify'.at = "folded" /\ verify'.run = verify.run
        /\ verify.run \in Runs /\ card'.run = verify.run
        /\ UNCHANGED <<version, meta, rows, session, judge>>
    BY <1>7, RecordsTyped DEF Fold, TypeOK
  <2>2. \A r \in Runs : r # verify.run => carry'[r] = carry[r]
    BY <1>7, <2>1 DEF Fold, TypeOK
  <2> QED
    BY <1>0, <2>1, <2>2
<1>8. CASE End
  <2>1. /\ verify'.at = "idle" /\ verify'.run = verify.run
        /\ UNCHANGED <<version, meta, rows, carry, card, session, judge>>
    BY <1>8 DEF End, TypeOK
  <2> QED
    BY <1>0, <2>1
<1>9. CASE Kill
  <2>1. /\ verify'.at = "idle" /\ verify'.run = verify.run
        /\ UNCHANGED <<version, meta, rows, carry, card, session, judge>>
    BY <1>9 DEF Kill, TypeOK
  <2> QED
    BY <1>0, <2>1
<1> QED
  BY <1>1, <1>2, <1>3, <1>4, <1>5, <1>6, <1>7, <1>8, <1>9 DEF Verify

(* Outside a verify a record keeps its verdicts and its place, or goes. *)
Quiet ==
    /\ UNCHANGED verify
    /\ \A r \in Runs : meta'[r] = NoMeta \/ Like(meta[r], meta'[r])

LEMMA QuietPlaced ==
    ASSUME TypeOK, TypeOK', Placed, Quiet,
           UNCHANGED carry,
           \A i \in 1 .. Len(rows') : Past(rows'[i], Unindexed),
           Past(card'.run, Unfolded),
           \A s \in Sessions : session'[s].at # "idle" =>
             /\ session'[s].run \in Runs /\ Past(session'[s].run, Unindexed)
             /\ session'[s].at = "submitting" => Past(session'[s].run, verify.at # "idle"),
           judge'.at = "judging" =>
             /\ judge'.run \in Runs /\ Past(judge'.run, Unrecorded)
             /\ Past(judge'.card.run, Unfolded)
    PROVE  Placed'
<1> USE DEF Past, Unrecorded, Unindexed, Unfolded
<1>1. /\ \A r \in Runs : meta'[r].status # "absent" => r <= verify'.run
      /\ verify'.at = "marked" => meta'[verify'.run].status = "absent"
      /\ Unrecorded' => meta'[verify'.run].status # "done"
  BY RecordsTyped DEF Quiet, Like, Placed, NoMeta
<1>2. \A r \in Runs : carry'[r].soft # "unverifiable" => Past(r, Unfolded)'
  BY DEF Quiet, Placed
<1> QED
  BY <1>1, <1>2 DEF Quiet, Placed

Still == UNCHANGED verify /\ \A r \in Runs : Like(meta[r], meta'[r])

(* A score changes neither the checks' verdicts of a record nor what was   *)
(* captured.                                                                *)
LEMMA ScoringIsStill ==
    ASSUME TypeOK, Placed, Agree, Scoring \/ Refreeze PROVE Still
<1>0. /\ \A r \in Runs : meta[r] \in Meta /\ Like(meta[r], meta[r])
      /\ {"pass", "fail"} \subseteq Verdict
  BY RecordsTyped DEF Like, Verdict
<1>1. ASSUME NEW r \in Runs, NEW m \in Meta, NEW n \in Meta, Like(m, n), CopyOf(r, m), Store(r, n)
      PROVE  \A q \in Runs : Like(meta[q], meta'[q])
  BY <1>0, <1>1, StoreTyped DEF CopyOf, Like
<1>2. ASSUME UNCHANGED <<verify, meta>> PROVE Still
  BY <1>0, <1>2 DEF Still
<1>3. ASSUME NEW s \in Sessions, NEW r \in Runs, SubmitReads(s, r) PROVE Still
  BY <1>2, <1>3 DEF SubmitReads
<1>4. ASSUME NEW s \in Sessions, NEW verdict \in {"pass", "fail"}, SubmitWrites(s, verdict)
      PROVE  Still
  <2> DEFINE r == session[s].run  m == session[s].meta
             b == [look |-> m.look, version |-> m.version]
  <2>1. /\ r \in Runs /\ m \in Meta /\ verdict \in Verdict
        /\ session[s].version .. version \subseteq 0 .. MaxVersions
        /\ CopyOf(r, m)
    BY <1>0, <1>4, Bounds DEF TypeOK, SubmitWrites, Placed, Agree
  <2>2. b \in Basis /\ carry[r].basis \in Basis
    BY <2>1 DEF Meta, Basis, TypeOK, Carry
  <2>3. PICK v \in session[s].version .. version, c \in Basis :
            Store(r, Submitted(m, v, verdict, c))
    BY <1>4, <2>2 DEF SubmitWrites
  <2> QED
    BY <1>1, <1>4, <2>1, <2>3, SubmittedTyped DEF SubmitWrites, verifyVars, Still
<1>5. ASSUME NEW s \in Sessions, NEW verdict \in {"pass", "fail"}, RecordScores(s, verdict)
      PROVE  Still
  BY <1>2, <1>5 DEF RecordScores, verifyVars
<1>6. ASSUME NEW s \in Sessions, RecordStamps(s) PROVE Still
  <2>1. /\ session[s].run \in Runs /\ session[s].meta \in Meta
        /\ CopyOf(session[s].run, session[s].meta) /\ Like(session[s].meta, session[s].meta)
    BY <1>6 DEF RecordStamps, TypeOK, Placed, Agree, Like
  <2> QED
    BY <1>1, <1>6, <2>1 DEF RecordStamps, verifyVars, Still
<1>7. ASSUME NEW r \in Runs, JudgeReads(r) PROVE Still
  BY <1>2, <1>7 DEF JudgeReads, verifyVars
<1>8. ASSUME NEW verdict \in {"pass", "fail"}, JudgeWrites(verdict) PROVE Still
  <2> DEFINE c == Scored(judge.card, verdict)  m == judge.meta
             b == [look |-> m.look, version |-> m.version]
             n == [m EXCEPT !.soft = c.soft, !.signed = c.signed, !.basis = b]
  <2>1. /\ judge.run \in Runs /\ m \in Meta /\ c \in Card /\ CopyOf(judge.run, m)
    BY <1>0, <1>8, ScoredTyped DEF TypeOK, JudgeWrites, Placed, Agree
  <2>2. b \in Basis /\ c.soft \in Verdict /\ c.signed \in BOOLEAN
    BY <2>1 DEF Meta, Basis, Card
  <2>3. Store(judge.run, n)
    BY <1>8 DEF JudgeWrites
  <2> HIDE DEF c, b
  <2>4. n \in Meta /\ Like(m, n)
    BY <2>1, <2>2 DEF Meta, Like
  <2> QED
    BY <1>1, <1>8, <2>1, <2>3, <2>4 DEF JudgeWrites, verifyVars, Still
<1>9. CASE Refreeze
  BY <1>2, <1>9 DEF Refreeze, verifyVars
<1> QED
  BY <1>3, <1>4, <1>5, <1>6, <1>7, <1>8, <1>9 DEF Scoring

LEMMA ScoringIsQuiet ==
    ASSUME TypeOK, Placed, Agree, Scoring \/ Refreeze \/ Clean PROVE Quiet
<1>1. CASE Scoring \/ Refreeze
  BY <1>1, ScoringIsStill DEF Still, Quiet
<1>2. CASE Clean
  BY <1>2 DEF Clean, verifyVars, Quiet, Like
<1> QED
  BY <1>1, <1>2

LEMMA ScoringPlaced ==
    ASSUME TypeOK, TypeOK', Placed, Agree, Scoring \/ Refreeze \/ Clean PROVE Placed'
<1> DEFINE Row(R, i) == Past(R[i], Unindexed)
           Call(c) == c.at # "idle" =>
             /\ c.run \in Runs /\ Past(c.run, Unindexed)
             /\ c.at = "submitting" => Past(c.run, verify.at # "idle")
           Judging(j) == j.at = "judging" =>
             /\ j.run \in Runs /\ Past(j.run, Unrecorded) /\ Past(j.card.run, Unfolded)
<1>0. /\ \A i \in 1 .. Len(rows) : Row(rows, i)
      /\ \A s \in Sessions : Call(session[s])
      /\ Judging(judge) /\ Past(card.run, Unfolded)
      /\ Call(NoSession)
  BY DEF Placed, NoSession
<1>1. Quiet
  BY ScoringIsQuiet
<1>2. ASSUME UNCHANGED carry,
             \A i \in 1 .. Len(rows') : Row(rows', i), Past(card'.run, Unfolded),
             \A s \in Sessions : Call(session'[s]), Judging(judge')
      PROVE  Placed'
  BY <1>1, <1>2, QuietPlaced
<1>3. ASSUME NEW s \in Sessions, NEW r \in Runs, SubmitReads(s, r) PROVE Placed'
  <2>1. Past(r, Unindexed) /\ Past(r, verify.at # "idle")
    BY <1>3, RecordsTyped DEF SubmitReads, Placed, Past, Unindexed, Unrecorded
  <2>2. \A t \in Sessions : Call(session'[t])
    BY <1>0, <1>3, <2>1 DEF SubmitReads, Read, TypeOK
  <2> QED
    BY <1>0, <1>2, <1>3, <2>2 DEF SubmitReads
<1>4. ASSUME NEW s \in Sessions, NEW verdict \in {"pass", "fail"}, SubmitWrites(s, verdict)
      PROVE  Placed'
  <2>1. session[s].run \in Runs /\ Past(session[s].run, Unindexed)
    BY <1>4 DEF SubmitWrites, Placed
  <2>2. \A i \in 1 .. Len(rows') : Row(rows', i)
    BY <1>0, <1>4, <2>1 DEF SubmitWrites, TypeOK
  <2>3. card'.run = card.run
    <3>1. Clamp(session[s].meta, verdict) \in Verdict
      BY DEF Clamp, Verdict
    <3> QED
      BY <1>4, <3>1, ScoredTyped DEF SubmitWrites, CardSubmitted, TypeOK
  <2>4. \A t \in Sessions : Call(session'[t])
    BY <1>0, <1>4 DEF SubmitWrites, Done, TypeOK
  <2> QED
    BY <1>0, <1>2, <1>4, <2>2, <2>3, <2>4 DEF SubmitWrites, verifyVars
<1>5. ASSUME NEW s \in Sessions, NEW verdict \in {"pass", "fail"}, RecordScores(s, verdict)
      PROVE  Placed'
  <2>1. card'.run = card.run
    BY <1>5, ScoredTyped DEF RecordScores, TypeOK, Verdict
  <2>2. ASSUME NEW r \in Latest, meta[r].status # "absent"
        PROVE  r \in Runs /\ Past(r, Unindexed)
    <3>1. r \in Runs
      BY LatestIsKnown
    <3>2. CASE meta[r].status = "started" /\ r \notin marker
      <4>1. verify.at # "idle" => r # verify.run
        BY <3>2 DEF TypeOK
      <4> QED
        BY <2>2, <3>1, <4>1 DEF Placed, Past, Unindexed, Unrecorded
    <3>3. CASE Len(rows) \in 1 .. Len(rows) /\ r = rows[Len(rows)]
      BY <1>0, <3>1, <3>3
    <3> QED
      BY <3>1, <3>2, <3>3, LatestIsKnown
  <2>3. \A t \in Sessions : Call(session'[t])
    BY <1>0, <1>5, <2>2 DEF RecordScores, Read, TypeOK
  <2> QED
    BY <1>0, <1>2, <1>5, <2>1, <2>3 DEF RecordScores, verifyVars
<1>6. ASSUME NEW s \in Sessions, RecordStamps(s) PROVE Placed'
  <2>1. \A t \in Sessions : Call(session'[t])
    BY <1>0, <1>6 DEF RecordStamps, Done, TypeOK
  <2> QED
    BY <1>0, <1>2, <1>6, <2>1 DEF RecordStamps, verifyVars
<1>7. ASSUME NEW r \in Runs, JudgeReads(r) PROVE Placed'
  <2>1. Past(r, Unrecorded)
    BY <1>7, RecordsTyped DEF JudgeReads, Placed, Past, Unrecorded
  <2>2. Judging(judge')
    BY <1>0, <1>7, <2>1 DEF JudgeReads
  <2> QED
    BY <1>0, <1>2, <1>7, <2>2 DEF JudgeReads, verifyVars
<1>8. ASSUME NEW verdict \in {"pass", "fail"}, JudgeWrites(verdict) PROVE Placed'
  <2>1. card'.run = judge.card.run
    BY <1>8, ScoredTyped DEF JudgeWrites, TypeOK, Verdict
  <2> QED
    BY <1>0, <1>2, <1>8, <2>1 DEF JudgeWrites, verifyVars
<1>9. CASE Refreeze \/ Clean
  BY <1>0, <1>2, <1>9 DEF Refreeze, Clean, verifyVars
<1> QED
  BY <1>3, <1>4, <1>5, <1>6, <1>7, <1>8, <1>9 DEF Scoring

-----------------------------------------------------------------------------
(* The copies agree with the records *)

LEMMA InitAgree == Init => Agree
BY Bounds DEF Init, Agree, CardAgrees, NoMeta, NoCard, NoSession

LEMMA VerifyAgree ==
    ASSUME TypeOK, Placed, Agree, Verify PROVE Agree'
<1> USE DEF Agree
<1>0. /\ \A r \in Runs : meta[r] \in Meta /\ r \in 1 .. MaxRuns
      /\ \A s \in Sessions : session[s].run \in 0 .. MaxRuns
      /\ version \in 1 .. MaxVersions /\ version \in Int /\ 0 <= version
      /\ verify.at # "idle" => verify.run \in Runs
      /\ NoMeta.version = 0 /\ NoMeta.status = "absent"
  BY RecordsTyped, Bounds DEF TypeOK, Runs, NoMeta
<1>1. ASSUME UNCHANGED <<version, meta, card, session, judge>>,
             verify'.shot.version <= version,
             verify'.at \in {"recorded", "indexed"} =>
               /\ verify.at \in {"recorded", "indexed"}
               /\ verify'.run = verify.run /\ verify'.shot = verify.shot
      PROVE  Agree'
  BY <1>1 DEF CopyOf, CardAgrees
<1>2. ASSUME UNCHANGED <<version, card, session, judge>>, Unrecorded, verify.at # "leaving",
             \A r \in Runs : r # verify.run => meta'[r] = meta[r],
             meta'[verify.run].version <= version,
             verify'.shot.version <= version,
             verify'.at \in {"recorded", "indexed"} => CopyOf(verify.run, verify.shot)',
             verify'.run = verify.run
      PROVE  Agree'
  <2>1. /\ \A s \in Sessions : session[s].at # "idle" =>
              session[s].run \in Runs /\ session[s].run # verify.run
        /\ judge.at = "judging" =>
              judge.run \in Runs /\ judge.run # verify.run /\ judge.card.run # verify.run
        /\ card.run # verify.run
    BY <1>2 DEF Placed, Past, Unrecorded, Unindexed, Unfolded
  <2>2. \A s \in Sessions : session'[s].at # "idle" =>
         /\ CopyOf(session[s].run, session[s].meta)'
         /\ session'[s].meta.version <= session'[s].version /\ session'[s].version <= version'
    BY <1>2, <2>1 DEF CopyOf
  <2>3. judge'.at = "judging" =>
         /\ CopyOf(judge.run, judge.meta)' /\ judge'.meta.status = "done"
         /\ CardAgrees(judge.card)'
         /\ judge'.card.run = judge'.run =>
              judge'.card.mech = judge'.meta.mech /\ judge'.card.version = judge'.meta.version
    BY <1>2, <2>1 DEF CopyOf, CardAgrees
  <2>4. CardAgrees(card)' /\ \A r \in Runs : meta'[r].version <= version'
    BY <1>2, <2>1 DEF CardAgrees
  <2> QED
    BY <1>2, <2>2, <2>3, <2>4 DEF CopyOf
<1>3. CASE Begin
  BY <1>0, <1>1, <1>3 DEF Begin, TypeOK
<1>4. CASE WriteStart
  <2>1. /\ verify'.at = "started" /\ verify'.run = verify.run /\ verify'.shot = verify.shot
        /\ meta'[verify.run].version = 0
        /\ \A r \in Runs : r # verify.run => meta'[r] = meta[r]
    BY <1>0, <1>4 DEF WriteStart, TypeOK, NoMeta
  <2> QED
    BY <1>0, <1>2, <1>4, <2>1 DEF WriteStart, Unrecorded
<1>5. CASE Abort
  BY <1>1, <1>5 DEF Abort, TypeOK
<1>6. CASE LoadPrevious
  <2>1. /\ verify'.at = "rendering" /\ verify'.shot.version = version
        /\ UNCHANGED <<version, meta, card, session, judge>>
    <3>1. [NoMeta EXCEPT !.version = version].version = version
      BY DEF NoMeta
    <3> QED
      BY <1>6, <3>1 DEF LoadPrevious, TypeOK
  <2> QED
    BY <1>0, <1>1, <2>1
<1>7. ASSUME NEW look \in Looks, NEW mech \in Verdict, Render(look, mech) PROVE Agree'
  <2> DEFINE m == [verify.shot EXCEPT !.status = "done", !.look = look, !.mech = mech]
             n == [m EXCEPT !.signed = SignedOff(m, m.version)]
  <2>1. n.version = verify.shot.version
    BY DEF TypeOK, Meta
  <2> HIDE DEF n
  <2>2. /\ verify.at = "rendering" /\ verify'.at = "recorded" /\ verify'.run = verify.run
        /\ verify'.shot = n /\ verify.run \in Runs
        /\ UNCHANGED <<version, card, session, judge>>
    BY <1>0, <1>7 DEF Render, TypeOK, n
  <2>3. /\ \A r \in Runs : r # verify.run => meta'[r] = meta[r]
        /\ meta'[verify.run] = n \/ (meta'[verify.run] = meta[verify.run]
                                     /\ meta[verify.run].status = "absent")
    BY <1>7, <2>2 DEF Render, Store, TypeOK, n
  <2>4. CopyOf(verify.run, verify.shot)' /\ meta'[verify.run].version <= version
    BY <2>1, <2>2, <2>3 DEF CopyOf, Like
  <2> QED
    BY <1>2, <2>1, <2>2, <2>3, <2>4 DEF Unrecorded
<1>8. CASE Index
  BY <1>1, <1>8 DEF Index, TypeOK
<1>9. ASSUME NEW stands \in BOOLEAN, Fold(stands) PROVE Agree'
  <2>1. /\ verify.at = "indexed" /\ verify'.at = "folded" /\ verify'.run = verify.run
        /\ verify'.shot = verify.shot /\ verify.run \in Runs
        /\ UNCHANGED <<version, meta, session, judge>>
        /\ card'.run = verify.run /\ card'.mech = verify.shot.mech
        /\ card'.version = verify.shot.version
    BY <1>0, <1>9 DEF Fold, TypeOK
  <2>2. CardAgrees(card)'
    BY <2>1 DEF CardAgrees, CopyOf, Like
  <2> QED
    BY <2>1, <2>2 DEF CopyOf, CardAgrees
<1>10. CASE End
  <2>1. verify'.at = "idle" /\ verify'.shot.version = 0
    BY <1>0, <1>10 DEF End, TypeOK
  <2> QED
    BY <1>0, <1>1, <1>10, <2>1 DEF End
<1>11. CASE Kill
  <2>1. verify'.at = "idle" /\ verify'.shot.version = 0
    BY <1>0, <1>11 DEF Kill, TypeOK
  <2> QED
    BY <1>0, <1>1, <1>11, <2>1 DEF Kill
<1> QED
  BY <1>3, <1>4, <1>5, <1>6, <1>7, <1>8, <1>9, <1>10, <1>11 DEF Verify

LEMMA QuietAgrees ==
    ASSUME Quiet
    PROVE  /\ \A r \in Runs : \A m : CopyOf(r, m) => (meta'[r].status # "absent" => Like(meta'[r], m))
           /\ \A c : CardAgrees(c) =>
                \A r \in Runs : (c.run = r /\ meta'[r].status # "absent") =>
                  c.mech = meta'[r].mech /\ c.version = meta'[r].version
BY DEF Quiet, CopyOf, CardAgrees, Like, NoMeta

(* What is held while nothing is read: it agrees after a quiet step too. *)
LEMMA QuietAgree ==
    ASSUME TypeOK, TypeOK', Placed, Agree, Quiet,
           version <= version', \A r \in Runs : meta'[r].version <= version',
           CardAgrees(card'),
           \A s \in Sessions : session'[s].at # "idle" =>
             \/ session'[s] = session[s]
             \/ /\ session'[s].run \in Runs /\ CopyOf(session'[s].run, session'[s].meta)
                /\ session'[s].meta.version <= session'[s].version
                /\ session'[s].version <= version,
           judge'.at = "judging" =>
             \/ judge' = judge
             \/ /\ judge'.run \in Runs /\ CopyOf(judge'.run, judge'.meta)
                /\ judge'.meta.status = "done" /\ CardAgrees(judge'.card)
                /\ judge'.card.run = judge'.run =>
                     /\ judge'.card.mech = judge'.meta.mech
                     /\ judge'.card.version = judge'.meta.version
    PROVE  Agree'
<1>1. ASSUME NEW s \in Sessions, session'[s].at # "idle"
      PROVE  /\ CopyOf(session[s].run, session[s].meta)'
             /\ session'[s].meta.version <= session'[s].version
             /\ session'[s].version <= version'
  <2>1. /\ session'[s].run \in Runs /\ CopyOf(session'[s].run, session'[s].meta)
        /\ session'[s].meta.version <= session'[s].version
        /\ session'[s].version <= version
    BY <1>1 DEF Placed, Agree
  <2>2. CopyOf(session[s].run, session[s].meta)'
    BY <2>1, QuietAgrees DEF CopyOf
  <2>3. session'[s].version \in Int /\ version \in Int /\ version' \in Int
    BY Bounds DEF TypeOK
  <2> QED
    BY <2>1, <2>2, <2>3
<1>2. ASSUME judge'.at = "judging"
      PROVE  /\ CopyOf(judge.run, judge.meta)' /\ judge'.meta.status = "done"
             /\ CardAgrees(judge.card)'
             /\ judge'.card.run = judge'.run =>
                  judge'.card.mech = judge'.meta.mech /\ judge'.card.version = judge'.meta.version
  <2>1. /\ judge'.run \in Runs /\ CopyOf(judge'.run, judge'.meta)
        /\ judge'.meta.status = "done" /\ CardAgrees(judge'.card)
        /\ judge'.card.run = judge'.run =>
             judge'.card.mech = judge'.meta.mech /\ judge'.card.version = judge'.meta.version
    BY <1>2 DEF Placed, Agree
  <2> QED
    BY <2>1, QuietAgrees DEF CopyOf, CardAgrees
<1>3. CardAgrees(card)'
  BY QuietAgrees DEF CardAgrees
<1>4. verify'.at \in {"recorded", "indexed"} => CopyOf(verify.run, verify.shot)'
  BY RecordsTyped, QuietAgrees DEF Quiet, Agree, CopyOf
<1>5. verify'.shot.version <= version'
  <2>1. verify.shot.version <= version /\ verify.shot.version \in Int
    BY Bounds DEF Agree, TypeOK, Meta
  <2> QED
    BY <2>1, Bounds DEF Quiet, TypeOK
<1> QED
  BY <1>1, <1>2, <1>3, <1>4, <1>5 DEF Agree

LEMMA ScoringAgree ==
    ASSUME TypeOK, TypeOK', Placed, Agree, Scoring \/ Refreeze \/ Clean PROVE Agree'
<1>0. /\ Quiet /\ version \in Int /\ version' \in Int
      /\ \A r \in Runs : meta[r] \in Meta /\ meta[r].version \in Int /\ meta'[r].version \in Int
      /\ {"pass", "fail"} \subseteq Verdict
      /\ CardAgrees(card) /\ \A r \in Runs : meta[r].version <= version
  BY ScoringIsQuiet, Bounds DEF TypeOK, Meta, Verdict, Agree
<1>1. version <= version'
  <2>1. version' = version \/ version' = version + 1
    BY DEF Scoring, SubmitReads, SubmitWrites, RecordScores, RecordStamps, JudgeReads,
       JudgeWrites, Refreeze, Clean
  <2> QED
    BY <1>0, <2>1
<1>2. \A r \in Runs : meta'[r].version <= version'
  <2>1. \A r \in Runs : meta'[r].version = 0 \/ meta'[r].version = meta[r].version
    BY <1>0 DEF Quiet, Like, NoMeta
  <2>2. 0 <= version
    BY Bounds DEF TypeOK
  <2>3. 0 <= version'
    BY <1>0, <1>1, <2>2
  <2>4. ASSUME NEW r \in Runs PROVE meta'[r].version <= version'
    <3>1. meta[r].version <= version'
      BY <1>0, <1>1
    <3> QED
      BY <2>1, <2>3, <3>1
  <2> QED
    BY <2>4
<1>3. ASSUME CardAgrees(card'), UNCHANGED session, UNCHANGED judge PROVE Agree'
  BY <1>0, <1>1, <1>2, <1>3, QuietAgree
<1>4. ASSUME NEW s \in Sessions, session' = [session EXCEPT ![s] = NoSession],
             CardAgrees(card'), UNCHANGED judge
      PROVE  Agree'
  <2>1. \A t \in Sessions : session'[t].at # "idle" => session'[t] = session[t]
    BY <1>4 DEF TypeOK, NoSession
  <2> QED
    BY <1>0, <1>1, <1>2, <1>4, <2>1, QuietAgree
<1>5. ASSUME NEW s \in Sessions, NEW at, NEW r \in Runs, Read(s, at, r),
             CardAgrees(card'), UNCHANGED judge
      PROVE  Agree'
  <2>1. CopyOf(r, meta[r]) /\ meta[r].version <= version /\ version <= version
    BY <1>0 DEF CopyOf, Like
  <2>2. \A t \in Sessions : session'[t] = session[t] \/
          /\ session'[t].run = r /\ session'[t].meta = meta[r] /\ session'[t].version = version
    BY <1>5 DEF Read, TypeOK
  <2> QED
    BY <1>0, <1>1, <1>2, <1>5, <2>1, <2>2, QuietAgree
<1>6. ASSUME NEW c, NEW d, CardAgrees(c), d.run = c.run, d.mech = c.mech, d.version = c.version
      PROVE  CardAgrees(d)
  BY <1>6 DEF CardAgrees
<1>7. ASSUME NEW c \in Card, CardAgrees(c), NEW verdict \in Verdict PROVE CardAgrees(Scored(c, verdict))
  BY <1>6, <1>7, ScoredTyped
<1>8. ASSUME NEW s \in Sessions, NEW r \in Runs, SubmitReads(s, r) PROVE Agree'
  BY <1>0, <1>5, <1>8 DEF SubmitReads
<1>9. ASSUME NEW s \in Sessions, NEW verdict \in {"pass", "fail"}, SubmitWrites(s, verdict)
      PROVE  Agree'
  <2>1. Clamp(session[s].meta, verdict) \in Verdict
    BY DEF Clamp, Verdict
  <2>2. CardAgrees(card')
    BY <1>0, <1>7, <1>9, <2>1 DEF SubmitWrites, CardSubmitted, TypeOK
  <2> QED
    BY <1>4, <1>9, <2>2 DEF SubmitWrites, Done
<1>10. ASSUME NEW s \in Sessions, NEW verdict \in {"pass", "fail"}, RecordScores(s, verdict)
       PROVE  Agree'
  <2>1. CardAgrees(card') /\ UNCHANGED judge
    BY <1>0, <1>7, <1>10 DEF RecordScores, TypeOK
  <2>2. CASE UNCHANGED session
    BY <1>3, <2>1, <2>2
  <2>3. ASSUME NEW r \in Latest, Read(s, "stamping", r) PROVE Agree'
    BY <1>5, <2>1, <2>3, LatestIsKnown
  <2> QED
    BY <1>10, <2>2, <2>3 DEF RecordScores
<1>11. ASSUME NEW s \in Sessions, RecordStamps(s) PROVE Agree'
  BY <1>0, <1>4, <1>11 DEF RecordStamps, Done
<1>12. ASSUME NEW r \in Runs, JudgeReads(r) PROVE Agree'
  <2>1. /\ judge'.run = r /\ judge'.meta = meta[r] /\ judge'.card = card
        /\ meta[r].status = "done" /\ UNCHANGED <<card, session>>
    BY <1>12 DEF JudgeReads
  <2>2. CopyOf(r, meta[r])
    BY DEF CopyOf, Like
  <2>3. card.run = r => card.mech = meta[r].mech /\ card.version = meta[r].version
    BY <1>0, <2>1 DEF CardAgrees
  <2> QED
    BY <1>0, <1>1, <1>2, <2>1, <2>2, <2>3, QuietAgree
<1>13. ASSUME NEW verdict \in {"pass", "fail"}, JudgeWrites(verdict) PROVE Agree'
  <2>1. CardAgrees(card') /\ judge'.at = "idle" /\ UNCHANGED session
    BY <1>0, <1>7, <1>13 DEF JudgeWrites, TypeOK, Agree
  <2> QED
    BY <1>0, <1>1, <1>2, <2>1, QuietAgree
<1>14. CASE Refreeze \/ Clean
  BY <1>0, <1>3, <1>14 DEF Refreeze, Clean
<1> QED
  BY <1>8, <1>9, <1>10, <1>11, <1>12, <1>13, <1>14 DEF Scoring

-----------------------------------------------------------------------------
(* The score in a copy is of the copy's own render *)

LEMMA InitEvidence == Init => Evidence
BY DEF Init, Evidence, Scores, NoMeta, NoCarry, NoSession

LEMMA VerifyEvidence ==
    ASSUME TypeOK, Placed, Agree, Evidence, Verify PROVE Evidence'
<1> USE DEF Evidence
<1>0. /\ \A r \in Runs : meta[r] \in Meta
      /\ verify.at # "idle" => verify.run \in Runs
      /\ verify.prev \in Meta /\ verify.shot \in Meta
      /\ Scores(NoMeta) /\ NoMeta.soft = "unverifiable"
  BY RecordsTyped DEF TypeOK, Scores, NoMeta
<1>1. ASSUME UNCHANGED <<meta, carry, session>>,
             Scores(verify'.prev), verify'.shot.soft = "unverifiable"
      PROVE  Evidence'
  BY <1>1
<1>2. ASSUME UNCHANGED <<carry, session>>, Unrecorded, verify.run \in Runs,
             \A r \in Runs : r # verify.run => meta'[r] = meta[r],
             Scores(meta'[verify.run]), verify'.prev = verify.prev,
             verify'.shot.soft = "unverifiable"
      PROVE  Evidence'
  <2>1. carry[verify.run].soft = "unverifiable"
    BY <1>2 DEF Placed, Past, Unfolded, Unindexed
  <2> QED
    BY <1>2, <2>1
<1>3. CASE Begin
  BY <1>0, <1>1, <1>3 DEF Begin, TypeOK
<1>4. CASE WriteStart
  <2>1. Scores([NoMeta EXCEPT !.status = "started"])
    BY DEF Scores, NoMeta
  <2>2. /\ verify'.prev = verify.prev /\ verify'.shot = verify.shot
        /\ meta'[verify.run] = [NoMeta EXCEPT !.status = "started"]
        /\ \A r \in Runs : r # verify.run => meta'[r] = meta[r]
    BY <1>0, <1>4 DEF WriteStart, TypeOK
  <2> QED
    BY <1>0, <1>2, <1>4, <2>1, <2>2 DEF WriteStart, Unrecorded
<1>5. CASE Abort
  BY <1>1, <1>5 DEF Abort, TypeOK
<1>6. CASE LoadPrevious
  <2>1. [NoMeta EXCEPT !.version = version].soft = "unverifiable"
    BY DEF NoMeta
  <2>2. verify'.prev = verify.prev \/ \E r \in Runs : verify'.prev = meta[r]
    BY <1>6, LatestIsKnown DEF LoadPrevious, TypeOK
  <2>3. verify'.shot = [NoMeta EXCEPT !.version = version] /\ UNCHANGED <<meta, carry, session>>
    BY <1>6 DEF LoadPrevious, TypeOK
  <2> QED
    BY <1>1, <2>1, <2>2, <2>3
<1>7. ASSUME NEW look \in Looks, NEW mech \in Verdict, Render(look, mech) PROVE Evidence'
  <2> DEFINE m == [verify.shot EXCEPT !.status = "done", !.look = look, !.mech = mech]
             n == [m EXCEPT !.signed = SignedOff(m, m.version)]
  <2>1. n.soft = "unverifiable" /\ n.status = "done"
    BY DEF TypeOK, Meta
  <2> HIDE DEF n
  <2>2. /\ verify.at = "rendering" /\ verify'.prev = verify.prev /\ verify'.shot = n
        /\ verify.run \in Runs /\ UNCHANGED <<carry, session>>
    BY <1>0, <1>7 DEF Render, TypeOK, n
  <2>3. /\ \A r \in Runs : r # verify.run => meta'[r] = meta[r]
        /\ meta'[verify.run] = n \/ meta'[verify.run] = meta[verify.run]
    BY <1>7, <2>2 DEF Render, Store, TypeOK, n
  <2>4. Scores(meta'[verify.run])
    BY <1>0, <2>1, <2>2, <2>3 DEF Scores
  <2> QED
    BY <1>2, <2>1, <2>2, <2>3, <2>4 DEF Unrecorded
<1>8. CASE Index
  BY <1>1, <1>8 DEF Index, TypeOK
<1>9. ASSUME NEW stands \in BOOLEAN, Fold(stands) PROVE Evidence'
  <2> DEFINE f == CarryForward(verify.prev, verify.shot)
  <2>1. /\ verify.at = "indexed" /\ verify'.prev = verify.prev /\ verify'.shot = verify.shot
        /\ verify.run \in Runs /\ UNCHANGED <<meta, session>>
        /\ carry'[verify.run] = f
        /\ \A r \in Runs : r # verify.run => carry'[r] = carry[r]
    BY <1>0, <1>9 DEF Fold, TypeOK
  <2>2. ASSUME f.soft # "unverifiable", meta[verify.run].status # "absent"
        PROVE  f.basis = Own(meta[verify.run])
    <3>1. f.basis = verify.prev.basis /\ verify.prev.basis = Own(verify.prev)
      BY <1>0, <2>2, CarryTyped DEF Scores
    <3>2. Own(verify.prev) = Own(verify.shot)
      BY <1>0, <2>2, CarryTyped DEF Own
    <3>3. Own(verify.shot) = Own(meta[verify.run])
      BY <2>1, <2>2 DEF Agree, CopyOf, Like, Own
    <3> QED
      BY <3>1, <3>2, <3>3
  <2>3. \A s \in Sessions : session[s].at = "submitting" =>
          session[s].run \in Runs /\ session[s].run # verify.run
    BY <2>1 DEF Placed, Past
  <2> QED
    BY <2>1, <2>2, <2>3
<1>10. CASE End
  BY <1>0, <1>1, <1>10 DEF End, TypeOK
<1>11. CASE Kill
  BY <1>0, <1>1, <1>11 DEF Kill, TypeOK
<1> QED
  BY <1>3, <1>4, <1>5, <1>6, <1>7, <1>8, <1>9, <1>10, <1>11 DEF Verify

LEMMA ScoringEvidence ==
    ASSUME TypeOK, Placed, Agree, Evidence, Scoring \/ Refreeze \/ Clean PROVE Evidence'
<1>0. /\ Quiet
      /\ \A r \in Runs : meta[r] \in Meta /\ Scores(meta[r])
      /\ {"pass", "fail"} \subseteq Verdict /\ Scores(NoMeta)
  BY ScoringIsQuiet, RecordsTyped DEF Verdict, Evidence, Scores, NoMeta
<1>1. \A r \in Runs : (carry[r].soft # "unverifiable" /\ meta'[r].status # "absent") =>
         carry[r].basis = Own(meta'[r])
  BY <1>0 DEF Evidence, Quiet, Like, NoMeta, Own
<1>2. ASSUME UNCHANGED carry, \A r \in Runs : Scores(meta'[r]),
             \A s \in Sessions : session'[s].at # "idle" =>
               \/ session'[s] = session[s]
               \/ /\ Scores(session'[s].meta)
                  /\ carry[session'[s].run].soft # "unverifiable" =>
                       carry[session'[s].run].basis = Own(session'[s].meta)
      PROVE  Evidence'
  BY <1>0, <1>1, <1>2 DEF Evidence, Quiet
<1>3. ASSUME NEW s \in Sessions, NEW at, NEW r \in Runs, Read(s, at, r),
             meta[r].status # "absent", UNCHANGED <<carry, meta>>
      PROVE  Evidence'
  <2>1. /\ Scores(meta[r])
        /\ carry[r].soft # "unverifiable" => carry[r].basis = Own(meta[r])
    BY <1>0, <1>3 DEF Evidence
  <2>2. \A t \in Sessions :
          \/ session'[t] = session[t]
          \/ session'[t].run = r /\ session'[t].meta = meta[r]
    BY <1>3 DEF Read, TypeOK
  <2> QED
    BY <1>0, <1>2, <1>3, <2>1, <2>2
<1>4. ASSUME NEW r \in Runs, NEW n \in Meta, Store(r, n), Scores(n)
      PROVE  \A q \in Runs : Scores(meta'[q])
  BY <1>0, <1>4, StoreTyped
<1>5. ASSUME NEW s \in Sessions, Done(s)
      PROVE  \A t \in Sessions : session'[t].at # "idle" => session'[t] = session[t]
  BY <1>5 DEF Done, NoSession, TypeOK
<1>6. ASSUME NEW s \in Sessions, NEW r \in Runs, SubmitReads(s, r) PROVE Evidence'
  BY <1>3, <1>6 DEF SubmitReads
<1>7. ASSUME NEW s \in Sessions, NEW verdict \in {"pass", "fail"}, SubmitWrites(s, verdict)
      PROVE  Evidence'
  <2> DEFINE r == session[s].run  m == session[s].meta
  <2>1. /\ r \in Runs /\ m \in Meta /\ verdict \in Verdict
        /\ session[s].version .. version \subseteq 0 .. MaxVersions
        /\ Scores(m)
        /\ carry[r].soft # "unverifiable" => carry[r].basis = Own(m)
    BY <1>0, <1>7, Bounds DEF TypeOK, SubmitWrites, Placed, Evidence
  <2>2. Own(m) \in Basis
    BY <2>1 DEF Meta, Basis, Own
  <2>3. PICK v \in session[s].version .. version : Store(r, Submitted(m, v, verdict, Own(m)))
    BY <1>7, <2>1 DEF SubmitWrites, Own
  <2> DEFINE n == Submitted(m, v, verdict, Own(m))
  <2>4. n \in Meta /\ Scores(n)
    BY <2>1, <2>2, SubmittedTyped DEF Scores, Like, Own
  <2> HIDE DEF n
  <2>5. \A q \in Runs : Scores(meta'[q])
    BY <1>4, <2>1, <2>3, <2>4 DEF n
  <2> QED
    BY <1>2, <1>5, <1>7, <2>5 DEF SubmitWrites, verifyVars
<1>8. ASSUME NEW s \in Sessions, NEW verdict \in {"pass", "fail"}, RecordScores(s, verdict)
      PROVE  Evidence'
  <2>1. UNCHANGED <<carry, meta>>
    BY <1>8 DEF RecordScores, verifyVars
  <2>2. CASE UNCHANGED session
    BY <1>0, <1>2, <2>1, <2>2
  <2>3. ASSUME NEW r \in Latest, meta[r].status # "absent", Read(s, "stamping", r) PROVE Evidence'
    BY <1>3, <2>1, <2>3, LatestIsKnown
  <2> QED
    BY <1>8, <2>2, <2>3 DEF RecordScores
<1>9. ASSUME NEW s \in Sessions, RecordStamps(s) PROVE Evidence'
  <2>1. /\ session[s].run \in Runs /\ session[s].meta \in Meta /\ Scores(session[s].meta)
    BY <1>9 DEF RecordStamps, TypeOK, Placed, Evidence
  <2>2. \A q \in Runs : Scores(meta'[q])
    BY <1>4, <1>9, <2>1 DEF RecordStamps
  <2> QED
    BY <1>2, <1>5, <1>9, <2>2 DEF RecordStamps, verifyVars
<1>10. ASSUME NEW r \in Runs, JudgeReads(r) PROVE Evidence'
  BY <1>0, <1>2, <1>10 DEF JudgeReads, verifyVars
<1>11. ASSUME NEW verdict \in {"pass", "fail"}, JudgeWrites(verdict) PROVE Evidence'
  <2> DEFINE c == Scored(judge.card, verdict)  m == judge.meta
             n == [m EXCEPT !.soft = c.soft, !.signed = c.signed, !.basis = Own(m)]
  <2>1. /\ judge.run \in Runs /\ m \in Meta /\ c \in Card /\ m.status = "done"
    BY <1>0, <1>11, ScoredTyped DEF TypeOK, JudgeWrites, Placed, Agree
  <2>2. Own(m) \in Basis /\ c.soft \in Verdict /\ c.signed \in BOOLEAN
    BY <2>1 DEF Meta, Basis, Card, Own
  <2>3. Store(judge.run, n)
    BY <1>11 DEF JudgeWrites, Own
  <2> HIDE DEF c
  <2>4. /\ n \in Meta /\ n.basis = Own(m) /\ n.look = m.look /\ n.version = m.version
        /\ n.status = "done"
    BY <2>1, <2>2 DEF Meta
  <2>5. \A q \in Runs : Scores(meta'[q])
    BY <1>4, <2>1, <2>3, <2>4 DEF Scores, Own
  <2> QED
    BY <1>2, <1>11, <2>5 DEF JudgeWrites, verifyVars
<1>12. CASE Refreeze
  BY <1>0, <1>2, <1>12 DEF Refreeze, verifyVars
<1>13. CASE Clean
  BY <1>0, <1>2, <1>13 DEF Clean, verifyVars
<1> QED
  BY <1>6, <1>7, <1>8, <1>9, <1>10, <1>11, <1>12, <1>13 DEF Scoring

-----------------------------------------------------------------------------
(* The invariant, and what follows from it *)

LEMMA InvInit == Init => IInv
BY InitTyped, InitPlaced, InitAgree, InitEvidence DEF IInv

LEMMA InvStep == IInv /\ [Next]_vars => IInv'
<1> SUFFICES ASSUME IInv, [Next]_vars PROVE IInv'
  OBVIOUS
<1> USE DEF IInv
<1>1. CASE Verify
  BY <1>1, VerifyTyped, VerifyPlaced, VerifyAgree, VerifyEvidence
<1>2. CASE Scoring \/ Refreeze \/ Clean
  <2>1. TypeOK'
    BY <1>2, ScoringTyped, RestTyped
  <2> QED
    BY <1>2, <2>1, ScoringPlaced, ScoringAgree, ScoringEvidence
<1>3. CASE UNCHANGED vars
  BY <1>3 DEF vars, TypeOK, Placed, Agree, Evidence, Past, Unrecorded, Unindexed, Unfolded,
     CopyOf, CardAgrees
<1> QED
  BY <1>1, <1>2, <1>3 DEF Next

LEMMA Invariant == Spec => []IInv
BY InvInit, InvStep, PTL DEF Spec

(* The records, the copies that scorers hold and the card keep their shape, *)
(* and a run in progress is marked as in flight (server.ts, handleVerify).   *)
THEOREM TypeCorrect == Spec => []TypeOK
<1>1. IInv => TypeOK
  BY DEF IInv
<1> QED
  BY <1>1, Invariant, PTL

(* For any number of scorers and any interleaving of them with verifies,    *)
(* deaths, re-freezes and cleanings: a recorded score was given for the     *)
(* record's own render, carried scores included (lean-verify.ts,             *)
(* partitionSoftCriteria).                                                  *)
THEOREM EvidenceIsOwn == Spec => []CarryIsEvidence
<1>1. IInv => CarryIsEvidence
  BY DEF IInv, Evidence, Scores, Own, CarryIsEvidence
<1> QED
  BY <1>1, Invariant, PTL

(* No writer puts back a record from before the run ended, nor the verdicts *)
(* or the render of another: a completed run's record keeps what its checks *)
(* proved, or is removed (run.ts, readIncompleteRuns).                      *)
THEOREM CompletedRunStands == Spec => CompletedStands
<1> DEFINE Stands == \A r \in Runs : meta[r].status = "done" =>
             \/ meta'[r].status = "absent"
             \/ /\ meta'[r].status = "done" /\ meta'[r].mech = meta[r].mech
                /\ meta'[r].look = meta[r].look /\ meta'[r].version = meta[r].version
<1>1. IInv /\ [Next]_vars => [Stands]_vars
  <2> SUFFICES ASSUME IInv, Next PROVE Stands
    OBVIOUS
  <2>1. CASE Scoring \/ Refreeze \/ Clean
    <3>1. Quiet
      BY <2>1, ScoringIsQuiet DEF IInv
    <3> QED
      BY <3>1 DEF Quiet, Like, NoMeta
  <2>2. ASSUME UNCHANGED meta PROVE Stands
    BY <2>2
  <2>3. CASE Verify
    <3>1. ASSUME meta[verify.run].status # "done", verify.run \in Runs,
                 \A r \in Runs : r # verify.run => meta'[r] = meta[r]
          PROVE  Stands
      BY <3>1
    <3>2. CASE WriteStart
      BY <3>1, <3>2, RecordsTyped DEF WriteStart, IInv, Placed, Unrecorded, TypeOK
    <3>3. ASSUME NEW look \in Looks, NEW mech \in Verdict, Render(look, mech) PROVE Stands
      <4>1. verify.at = "rendering" /\ verify.run \in Runs
        BY <3>3, RecordsTyped DEF Render, IInv
      <4>2. \A r \in Runs : r # verify.run => meta'[r] = meta[r]
        BY <3>3, <4>1 DEF Render, Store, IInv, TypeOK
      <4> QED
        BY <3>1, <4>1, <4>2 DEF IInv, Placed, Unrecorded
    <3> QED
      BY <2>2, <2>3, <3>2, <3>3 DEF Verify, Begin, Abort, LoadPrevious, Index, Fold, End, Kill
  <2> QED
    BY <2>1, <2>3 DEF Next
<1> QED
  BY <1>1, Invariant, PTL DEF Spec, CompletedStands

(* The card is put back to an older run by nobody but the judge, who saves   *)
(* the card that was read before a model was called (judge.ts, judgeOneRun).*)
THEOREM OnlyTheJudge == Spec => OnlyTheJudgeForgets
<1>1. IInv /\ [Next]_vars =>
        [card'.run < card.run => judge.at = "judging" /\ judge'.at = "idle"]_vars
  <2> SUFFICES ASSUME IInv, Next PROVE card'.run < card.run => judge.at = "judging" /\ judge'.at = "idle"
    OBVIOUS
  <2>0. card \in Card /\ card.run \in Int /\ verify.run \in Int /\ card.run <= verify.run
    BY Bounds DEF IInv, TypeOK, Placed, Past, Card
  <2>1. ASSUME card'.run = card.run PROVE ~(card'.run < card.run)
    BY <2>0, <2>1
  <2>2. ASSUME NEW stands \in BOOLEAN, Fold(stands) PROVE ~(card'.run < card.run)
    <3>1. card'.run = verify.run
      BY <2>2 DEF Fold
    <3> QED
      BY <2>0, <3>1
  <2>3. CASE Verify
    BY <2>1, <2>2, <2>3 DEF Verify, Begin, WriteStart, Abort, LoadPrevious, Render, Index, End, Kill
  <2>4. ASSUME NEW verdict \in Verdict PROVE Scored(card, verdict).run = card.run
    BY <2>0, <2>4, ScoredTyped
  <2>5. ASSUME NEW s \in Sessions, NEW verdict \in {"pass", "fail"}, SubmitWrites(s, verdict)
        PROVE  card'.run = card.run
    <3>1. Clamp(session[s].meta, verdict) \in Verdict
      BY DEF Clamp, Verdict
    <3> QED
      BY <2>4, <2>5, <3>1 DEF SubmitWrites, CardSubmitted
  <2>6. ASSUME NEW s \in Sessions, NEW verdict \in {"pass", "fail"}, RecordScores(s, verdict)
        PROVE  card'.run = card.run
    BY <2>4, <2>6 DEF RecordScores, Verdict
  <2>7. ASSUME NEW verdict \in {"pass", "fail"}, JudgeWrites(verdict)
        PROVE  judge.at = "judging" /\ judge'.at = "idle"
    BY <2>7 DEF JudgeWrites
  <2>8. CASE Scoring
    BY <2>1, <2>5, <2>6, <2>7, <2>8 DEF Scoring, SubmitReads, RecordStamps, JudgeReads
  <2> QED
    BY <2>1, <2>3, <2>8 DEF Next, Refreeze, Clean
<1> QED
  BY <1>1, Invariant, PTL DEF Spec, OnlyTheJudgeForgets

(* A record is signed off by its own verdicts under its own contract, for   *)
(* every interleaving; the ways around that are those SignOffIsEarned names *)
(* (scorecard.ts, computeSignedOff, and its callers in server.ts, judge.ts).*)
THEOREM SignOffEarned == Spec => SignOffIsEarned
<1> DEFINE Earned(r) ==
        (meta'[r].signed /\ ~meta[r].signed) =>
          \/ SignedOff(meta'[r], meta'[r].version)
          \/ JudgedOnAnother(r)
          \/ meta[r].version # version
          \/ PutBack(r)
<1>1. IInv /\ [Next]_vars => [\A r \in Runs : Earned(r)]_vars
  <2> SUFFICES ASSUME IInv, Next PROVE \A r \in Runs : Earned(r)
    OBVIOUS
  <2>0. /\ \A r \in Runs : meta[r] \in Meta
        /\ {"pass", "fail"} \subseteq Verdict /\ NoMeta.signed = FALSE
    BY RecordsTyped DEF IInv, Verdict, NoMeta
  <2>1. ASSUME UNCHANGED meta PROVE \A r \in Runs : Earned(r)
    BY <2>1
  <2>2. ASSUME NEW q \in Runs, NEW n \in Meta, Store(q, n),
               meta[q].status # "absent" => Earned(q)
        PROVE  \A r \in Runs : Earned(r)
    BY <2>0, <2>2, StoreTyped DEF IInv
  <2>3. CASE WriteStart
    <3>1. [NoMeta EXCEPT !.status = "started"].signed = FALSE
      BY DEF NoMeta
    <3> QED
      BY <2>3, <3>1 DEF WriteStart, IInv, TypeOK
  <2>4. ASSUME NEW look \in Looks, NEW mech \in Verdict, Render(look, mech)
        PROVE  \A r \in Runs : Earned(r)
    <3> DEFINE m == [verify.shot EXCEPT !.status = "done", !.look = look, !.mech = mech]
               n == [m EXCEPT !.signed = SignedOff(m, m.version)]
    <3>1. n.signed = SignedOff(n, n.version)
      BY DEF IInv, TypeOK, Meta, SignedOff
    <3>2. Store(verify.run, n) \/ meta' = [meta EXCEPT ![verify.run] = n]
      BY <2>4 DEF Render
    <3> HIDE DEF n
    <3> QED
      BY <3>1, <3>2 DEF IInv, TypeOK, Store
  <2>5. CASE Verify
    BY <2>1, <2>3, <2>4, <2>5 DEF Verify, Begin, Abort, LoadPrevious, Index, Fold, End, Kill
  <2>6. ASSUME NEW s \in Sessions, NEW verdict \in {"pass", "fail"}, SubmitWrites(s, verdict)
        PROVE  \A r \in Runs : Earned(r)
    <3> DEFINE q == session[s].run  m == session[s].meta
               b == [look |-> m.look, version |-> m.version]
    <3>0. /\ q \in Runs /\ m \in Meta /\ verdict \in Verdict
          /\ CopyOf(q, m) /\ Scores(m) /\ m.version <= session[s].version
          /\ session[s].version \in 0 .. MaxVersions /\ version \in 1 .. MaxVersions
      BY <2>0, <2>6, Bounds DEF IInv, TypeOK, SubmitWrites, Placed, Agree, Evidence
    <3>1. /\ session[s].version .. version \subseteq 0 .. MaxVersions
          /\ \A v \in session[s].version .. version : m.version <= v /\ v <= version
      BY <3>0, Bounds DEF Meta
    <3>2. b \in Basis /\ carry[q].basis \in Basis
      BY <3>0 DEF Meta, Basis, IInv, TypeOK, Carry
    <3>3. PICK v \in session[s].version .. version, c \in Basis :
            Store(q, Submitted(m, v, verdict, c))
      BY <2>6, <3>2 DEF SubmitWrites
    <3> DEFINE n == Submitted(m, v, verdict, c)
    <3>4. n \in Meta /\ Like(m, n) /\ (n.signed => SignedOff(n, v))
      BY <3>0, <3>1, <3>3, SubmittedTyped DEF Scores, Like
    <3> HIDE DEF n
    <3>5. ASSUME meta[q].status # "absent" PROVE Earned(q)
      <4>1. meta'[q] = n /\ meta[q].version = m.version /\ n.version = m.version
        BY <3>0, <3>1, <3>3, <3>4, <3>5, StoreTyped DEF IInv, CopyOf, Like, n
      <4>2. m.version = v \/ meta[q].version # version
        BY <3>0, <3>1, <3>3, <4>1, Bounds DEF Meta, IInv, TypeOK
      <4> QED
        BY <3>4, <4>1, <4>2
    <3> QED
      BY <2>2, <3>0, <3>3, <3>4, <3>5 DEF n
  <2>7. ASSUME NEW s \in Sessions, RecordStamps(s) PROVE \A r \in Runs : Earned(r)
    <3>1. /\ session[s].run \in Runs /\ session[s].meta \in Meta
          /\ session[s].at = "stamping" /\ session'[s].at = "idle"
      BY <2>7 DEF RecordStamps, Done, NoSession, IInv, TypeOK, Placed
    <3>2. ASSUME meta[session[s].run].status # "absent" PROVE Earned(session[s].run)
      BY <2>7, <3>1, <3>2, StoreTyped DEF RecordStamps, PutBack, IInv
    <3> QED
      BY <2>2, <2>7, <3>1, <3>2 DEF RecordStamps
  <2>8. ASSUME NEW verdict \in {"pass", "fail"}, JudgeWrites(verdict)
        PROVE  \A r \in Runs : Earned(r)
    <3> DEFINE c == Scored(judge.card, verdict)  m == judge.meta
               b == [look |-> m.look, version |-> m.version]
               n == [m EXCEPT !.soft = c.soft, !.signed = c.signed, !.basis = b]
    <3>1. /\ judge.run \in Runs /\ m \in Meta /\ c \in Card
          /\ c.mech = judge.card.mech /\ c.version = judge.card.version
          /\ c.signed = SignedOff(c, c.version)
          /\ judge.at = "judging" /\ judge'.at = "idle"
          /\ judge.card.run = judge.run =>
               judge.card.mech = m.mech /\ judge.card.version = m.version
      BY <2>0, <2>8, ScoredTyped DEF IInv, TypeOK, JudgeWrites, Placed, Agree
    <3>2. b \in Basis /\ c.soft \in Verdict /\ c.signed \in BOOLEAN
      BY <3>1 DEF Meta, Basis, Card
    <3>3. Store(judge.run, n)
      BY <2>8 DEF JudgeWrites
    <3> HIDE DEF c, b
    <3>4. /\ n \in Meta /\ n.soft = c.soft /\ n.signed = c.signed
          /\ n.mech = m.mech /\ n.version = m.version
      BY <3>1, <3>2 DEF Meta
    <3> HIDE DEF n
    <3>5. ASSUME meta[judge.run].status # "absent" PROVE Earned(judge.run)
      <4>1. meta'[judge.run] = n
        BY <3>1, <3>3, <3>4, <3>5, StoreTyped DEF IInv
      <4>2. CASE judge.card.run = judge.run
        BY <3>1, <3>4, <4>1, <4>2 DEF SignedOff
      <4>3. CASE judge.card.run # judge.run
        BY <3>1, <4>3 DEF JudgedOnAnother
      <4> QED
        BY <4>2, <4>3
    <3> QED
      BY <2>2, <3>1, <3>3, <3>4, <3>5
  <2>9. CASE Scoring
    BY <2>1, <2>6, <2>7, <2>8, <2>9 DEF Scoring, SubmitReads, RecordScores, JudgeReads
  <2>10. CASE Clean
    <3>1. ASSUME NEW r \in Runs PROVE meta'[r] = meta[r] \/ meta'[r] = NoMeta
      BY <2>10, <3>1 DEF Clean
    <3> QED
      BY <2>0, <3>1
  <2> QED
    BY <2>1, <2>5, <2>9, <2>10 DEF Next, Refreeze
<1> QED
  BY <1>1, Invariant, PTL DEF Spec, SignOffIsEarned

(* Whatever the number of runs kept, the newest run that was indexed in its *)
(* turn survives a cleaning (runs.ts, selectRunsToPrune).                   *)
THEOREM NewestKept == Spec => NewestIsKept
<1> DEFINE Last(r) ==
        /\ Incomplete = {} /\ meta[r].status # "absent"
        /\ \A q \in RowRuns : ~IndexedLate(q, r)
           Lasts == \A r \in Newest(RowRuns) : Last(r) => meta'[r].status # "absent"
<1>1. IInv /\ [Next]_vars => [Lasts]_vars
  <2> SUFFICES ASSUME IInv, Next, NEW r \in Newest(RowRuns), Last(r)
               PROVE  meta'[r].status # "absent"
    OBVIOUS
  <2>1. r \in RowRuns /\ RowRuns \subseteq Runs /\ \A q \in RowRuns : q <= r
    BY DEF Newest, RowRuns, IInv, TypeOK
  <2>2. CASE Scoring \/ Refreeze
    BY <2>1, <2>2, ScoringIsStill DEF IInv, Still, Like
  <2>3. CASE Clean
    <3>1. ASSUME NEW q \in RowRuns, Before(r, q) PROVE FALSE
      <4>1. IndexedBefore(r, q)
        BY <2>1, <3>1 DEF Before
      <4>2. \A i \in 1 .. Len(rows) : i \in 1 .. i
        BY DEF IInv, TypeOK
      <4>3. q # r
        BY <4>1, <4>2 DEF IndexedBefore
      <4>4. q < r
        BY <2>1, <4>3 DEF Runs
      <4> QED
        BY <4>1, <4>4 DEF IndexedLate
    <3>2. Cardinality({q \in RowRuns \cup Incomplete : Before(r, q)}) = 0
      <4>1. {q \in RowRuns \cup Incomplete : Before(r, q)} = {}
        BY <3>1
      <4> QED
        BY <4>1, FS_EmptySet
    <3>3. r \in Kept
      BY <2>1, <3>2, RecordsAssumption DEF Kept, RecordsAssumption
    <3> QED
      BY <2>1, <2>3, <3>3 DEF Clean
  <2>4. CASE Verify
    <3>1. ASSUME UNCHANGED meta PROVE meta'[r].status # "absent"
      BY <3>1
    <3>2. CASE WriteStart
      BY <2>1, <3>2, RecordsTyped DEF WriteStart, IInv, TypeOK, NoMeta
    <3>3. ASSUME NEW look \in Looks, NEW mech \in Verdict, Render(look, mech)
          PROVE  meta'[r].status # "absent"
      <4> DEFINE m == [verify.shot EXCEPT !.status = "done", !.look = look, !.mech = mech]
                 n == [m EXCEPT !.signed = SignedOff(m, m.version)]
      <4>1. n.status = "done"
        BY DEF IInv, TypeOK, Meta
      <4>2. Store(verify.run, n) \/ meta' = [meta EXCEPT ![verify.run] = n]
        BY <3>3 DEF Render
      <4> HIDE DEF n
      <4> QED
        BY <2>1, <4>1, <4>2 DEF Store, IInv, TypeOK
    <3> QED
      BY <2>4, <3>1, <3>2, <3>3 DEF Verify, Begin, Abort, LoadPrevious, Index, Fold, End, Kill
  <2> QED
    BY <2>2, <2>3, <2>4 DEF Next
<1> QED
  BY <1>1, Invariant, PTL DEF Spec, NewestIsKept

=============================================================================
