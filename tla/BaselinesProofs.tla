--------------------------- MODULE BaselinesProofs ---------------------------
(***************************************************************************)
(* What the baselines guarantee for every number of overlapping verifies,   *)
(* keys, looks, edits, accepts, deletions and kills.                        *)
(***************************************************************************)
EXTENDS Baselines, TLAPS

(* Files, directories and plans are made of what they should be. *)
LEMMA ConstantsTyped ==
    /\ AnyKey \in Keys /\ AnyLook \in Looks
    /\ \A state \in {"none", "partial", "mixed", "whole"} : Unreadable(state) \in File
    /\ \A l \in Looks, from \in Origin, sound \in BOOLEAN : Image(l, from, sound) \in File
    /\ Empty \in Directory /\ DOMAIN Empty = {}
    /\ NoPlan \in PlanType
<1>1. AnyKey \in Keys /\ AnyLook \in Looks
  BY BaselinesAssumption DEF AnyKey, AnyLook
<1>2. Empty \in [{} -> Looks] /\ {} \in SUBSET Keys /\ DOMAIN Empty = {}
  BY DEF Empty
<1>3. Empty \in Directory
  BY <1>2 DEF Directory
<1> QED
  BY <1>1, <1>2, <1>3 DEF Unreadable, Image, File, Origin, NoPlan, PlanType

LEMMA DirectoryTyped ==
  ASSUME NEW dir \in Directory
  PROVE  /\ DOMAIN dir \subseteq Keys
         /\ \A k \in DOMAIN dir : dir[k] \in Looks
         /\ \A k \in Keys, l \in Looks : With(dir, k, l) \in Directory
         /\ \A k, l : DOMAIN With(dir, k, l) = DOMAIN dir \cup {k}
         /\ \A k : Without(dir, k) \in Directory
<1>1. PICK K \in SUBSET Keys : dir \in [K -> Looks]
  BY DEF Directory
<1>2. ASSUME NEW k \in Keys, NEW l \in Looks
      PROVE  With(dir, k, l) \in Directory
  <2>1. With(dir, k, l) \in [K \cup {k} -> Looks]
    BY <1>1 DEF With
  <2>2. K \cup {k} \in SUBSET Keys
    OBVIOUS
  <2> QED
    BY <2>1, <2>2 DEF Directory
<1>3. ASSUME NEW k
      PROVE  Without(dir, k) \in Directory
  <2>1. Without(dir, k) \in [K \ {k} -> Looks]
    BY <1>1 DEF Without
  <2>2. K \ {k} \in SUBSET Keys
    OBVIOUS
  <2> QED
    BY <2>1, <2>2 DEF Directory
<1>4. \A k, l : DOMAIN With(dir, k, l) = DOMAIN dir \cup {k}
  BY DEF With
<1> QED
  BY <1>1, <1>2, <1>3, <1>4

LEMMA CopiedTyped ==
  ASSUME NEW file \in File, NEW image \in File
  PROVE  Copied(file, image) \subseteq File
  BY ConstantsTyped DEF Copied

(* The keys of a sequence are its head and those of its tail. *)
On(s) == {s[i] : i \in DOMAIN s}

LEMMA OnTail ==
  ASSUME NEW S, NEW s \in Seq(S), s # <<>>
  PROVE  /\ Head(s) \in S /\ Tail(s) \in Seq(S)
         /\ On(s) \subseteq {Head(s)} \cup On(Tail(s))
<1>1. Head(s) \in S /\ Tail(s) \in Seq(S) /\ Len(Tail(s)) = Len(s) - 1 /\ Len(s) \in Nat
  OBVIOUS
<1>2. ASSUME NEW i \in DOMAIN s, i # 1
      PROVE  i - 1 \in DOMAIN Tail(s) /\ Tail(s)[i - 1] = s[i]
  BY <1>1, <1>2
<1>3. s[1] = Head(s)
  OBVIOUS
<1> QED
  BY <1>1, <1>2, <1>3 DEF On

-----------------------------------------------------------------------------
(* The planner. *)

Matching(plan) ==
    LET from == {p[1] : p \in plan.renames}
        to == {p[2] : p \in plan.renames}
    IN /\ \A p, q \in plan.renames : p[1] = q[1] <=> p[2] = q[2]
       /\ from \cap plan.orphans = {} /\ to \cap plan.newBaselines = {}
       /\ (from \cup plan.orphans) \cap (to \cup plan.newBaselines) = {}

(* A pool has one strict winner at most. *)
LEMMA TopUnique ==
  ASSUME NEW k \in Keys, NEW pool \in SUBSET Keys, NEW twice,
         NEW c \in Top(k, pool, twice), NEW d \in Top(k, pool, twice)
  PROVE  c = d
<1>1. Confidence[k, c] \in Nat /\ Confidence[k, d] \in Nat
  BY BaselinesAssumption DEF Top
<1>2. c # d => Confidence[k, c] < Confidence[k, d] /\ Confidence[k, d] < Confidence[k, c]
  BY DEF Top
<1>3. \A m, n \in Nat : ~(m < n /\ n < m)
  OBVIOUS
<1> QED
  BY <1>1, <1>2, <1>3, Zenon

(* So renames, mutual as they are, pair one to one; the rest of a plan is what *)
(* they leave.                                                               *)
LEMMA PlanMatches ==
  ASSUME NEW lives \in [Keys -> 0..2], NEW baseline \in SUBSET Keys
  PROVE  /\ Plan(lives, baseline) \in PlanType
         /\ Matching(Plan(lives, baseline))
         /\ Plan(lives, baseline).orphans \subseteq {k \in Keys : ~(lives[k] > 0)}
<1> DEFINE live == {k \in Keys : lives[k] > 0}
           orphans == baseline \ live
           news == live \ baseline
           twice == {k \in Keys : lives[k] > 1}
           renames == Renames(orphans, news, twice)
           plan == Plan(lives, baseline)
<1>1. /\ plan.orphans = {k \in orphans : \A p \in renames : p[1] # k}
      /\ plan.newBaselines = {k \in news : \A p \in renames : p[2] # k}
      /\ plan.renames = renames
  BY DEF Plan
<1>2. plan \in PlanType
  BY DEF Plan, PlanType, Renames
<1>3. /\ orphans \subseteq Keys /\ news \subseteq Keys /\ orphans \cap news = {}
      /\ renames \subseteq orphans \X news
  BY DEF Renames
<1>4. ASSUME NEW p \in renames, NEW q \in renames
      PROVE  p[1] = q[1] <=> p[2] = q[2]
  <2>1. /\ p[2] \in Top(p[1], news, twice) /\ q[2] \in Top(q[1], news, twice)
        /\ p[1] \in Top(p[2], orphans, {}) /\ q[1] \in Top(q[2], orphans, {})
    BY DEF Renames
  <2>2. p[1] \in Keys /\ q[1] \in Keys /\ p[2] \in Keys /\ q[2] \in Keys
    BY <1>3
  <2> HIDE DEF renames, orphans, news, twice
  <2> QED
    BY <1>3, <2>1, <2>2, TopUnique
<1> HIDE DEF renames, plan
<1>5. Matching(plan)
  BY <1>1, <1>3, <1>4 DEF Matching
<1>6. plan.orphans \subseteq {k \in Keys : ~(lives[k] > 0)}
  BY <1>1
<1> QED
  BY <1>2, <1>5, <1>6 DEF plan

-----------------------------------------------------------------------------
(* The inductive invariant, of the record of a verify.  A render that is being *)
(* compared has its shot in the run directory, and one that may become a        *)
(* baseline has earned it; a sweep accounts for each key it went over by a       *)
(* render, a render that threw, or one still to do, unless it had an error; and   *)
(* it has no plan before its end.                                                *)
HoldsShot(r) ==
    r.phase \in {"diff", "meta", "exists", "copy", "copying"} =>
        r.key \in DOMAIN r.dir /\ r.outcome \notin {"threw", "skipped"}
Earned(r) ==
    r.phase \in {"exists", "copy", "copying"} /\ ~r.native => r.outcome \in {"clean", "tainted"}
Trusts(r) == r.shot = "pass" /\ r.ref.from = "web" => r.ref.sound
Accounts(r) ==
    /\ r.phase = "spec" => r.todo = <<>>
    /\ r.sweep /\ ~r.errored =>
         r.covered \subseteq {k \in Keys : r.lives[k] > 0} \cup r.threw \cup On(r.todo)
Reports(r) ==
    /\ r.phase # "swept" => r.plan = NoPlan
    /\ r.plan.orphans \cap r.covered \subseteq r.threw
    /\ Matching(r.plan)
Sane(r) == HoldsShot(r) /\ Earned(r) /\ Trusts(r) /\ Accounts(r) /\ Reports(r)

(* A web image on disk has earned its place. *)
SoundOnDisk == \A k \in Keys : IsImage(disk[k]) /\ disk[k].from = "web" => disk[k].sound
AcceptHolds == accept.busy => accept.key \in DOMAIN accept.todo

Inv == TypeOK /\ (\A v \in Verifiers : Sane(verifier[v])) /\ SoundOnDisk /\ AcceptHolds

LEMMA NoPlanSane == Matching(NoPlan) /\ NoPlan.orphans = {}
  BY DEF Matching, NoPlan

LEMMA IdleSane ==
    /\ Idle \in Verifier /\ Idle.phase = "idle" /\ Idle.todo = <<>> /\ Idle.plan = NoPlan
    /\ Idle.covered = {} /\ Idle.shot = "unverifiable" /\ ~Idle.errored
    /\ Sane(Idle)
<1>1. /\ AnyKey \in Keys /\ Unreadable("none") \in File /\ Empty \in Directory
      /\ NoPlan \in PlanType
  BY ConstantsTyped
<1>2. <<>> \in Seq(FrozenSpec) /\ <<>> \in Seq(Keys) /\ [k \in Keys |-> 0] \in [Keys -> 0..2]
  OBVIOUS
<1>3. Idle \in Verifier
  BY <1>1, <1>2 DEF Idle, Verifier, Phase, Outcome, Status
<1>4. Sane(Idle)
  BY NoPlanSane DEF Idle, Sane, HoldsShot, Earned, Trusts, Accounts, Reports
<1> QED
  BY <1>3, <1>4 DEF Idle

(* What the record of a verify holds. *)
LEMMA Fields ==
  ASSUME TypeOK, NEW v \in Verifiers
  PROVE  LET r == verifier[v]
         IN /\ r \in Verifier
            /\ r.key \in Keys /\ r.dir \in Directory /\ r.ref \in File
            /\ r.left \in Seq(FrozenSpec) /\ r.todo \in Seq(Keys)
            /\ r.lives \in [Keys -> 0..2] /\ r.outcome \in Outcome
            /\ r.native \in BOOLEAN /\ r.sweep \in BOOLEAN /\ r.errored \in BOOLEAN
            /\ r.shot \in Status /\ r.meta \in Status
            /\ r.threw \in SUBSET Keys /\ r.covered \in SUBSET Keys
<1>1. verifier[v] \in Verifier
  BY DEF TypeOK
<1> QED
  BY <1>1 DEF Verifier

(* A verify that changes its own record only leaves the others as they are. *)
LEMMA BecomeSane ==
  ASSUME Inv, NEW v \in Verifiers, NEW r \in Verifier, Sane(r), Become(v, r)
  PROVE  /\ verifier' \in [Verifiers -> Verifier]
         /\ \A w \in Verifiers : Sane(verifier'[w])
         /\ verifier'[v] = r /\ \A w \in Verifiers \ {v} : verifier'[w] = verifier[w]
<1>1. verifier \in [Verifiers -> Verifier]
  BY DEF Inv, TypeOK
<1>2. verifier' \in [Verifiers -> Verifier]
  BY <1>1 DEF Become
<1>3. verifier'[v] = r /\ \A w \in Verifiers \ {v} : verifier'[w] = verifier[w]
  BY <1>1 DEF Become
<1> QED
  BY <1>2, <1>3 DEF Inv

(* Going on with the next render forgets the last. *)
LEMMA NextRenderSane ==
  ASSUME NEW r \in Verifier, Sane(r), r.phase \notin {"spec", "swept"}
  PROVE  NextRender(r) \in Verifier /\ Sane(NextRender(r))
<1> DEFINE n == NextRender(r)
<1>1. /\ AnyKey \in Keys /\ Unreadable("none") \in File
  BY ConstantsTyped
<1>2. n \in Verifier
  BY <1>1 DEF NextRender, Verifier, Phase, Outcome, Status
<1>3. /\ n.phase = "render" /\ n.shot = "unverifiable"
      /\ n.todo = r.todo /\ n.sweep = r.sweep /\ n.errored = r.errored
      /\ n.covered = r.covered /\ n.lives = r.lives /\ n.threw = r.threw /\ n.plan = r.plan
  BY DEF NextRender, Verifier
<1> HIDE DEF n
<1>4. Sane(n)
  BY <1>3 DEF Sane, HoldsShot, Earned, Trusts, Accounts, Reports
<1> QED
  BY <1>2, <1>4 DEF n

-----------------------------------------------------------------------------
(* Each step of a verify leaves its record sane. *)
SaneStep(v) ==
    /\ verifier' \in [Verifiers -> Verifier]
    /\ \A w \in Verifiers : Sane(verifier'[w])
    /\ \A w \in Verifiers \ {v} : verifier'[w] = verifier[w]

LEMMA BeginSane ==
  ASSUME Inv, NEW v \in Verifiers, Begin(v)
  PROVE  SaneStep(v)
<1> DEFINE all == [Idle EXCEPT !.phase = "spec", !.sweep = TRUE, !.left = specs,
                               !.had = {k \in Keys : Exists(disk[k])}]
           one(i) == [Idle EXCEPT !.phase = "spec", !.left = <<specs[i]>>]
<1>1. specs \in Seq(FrozenSpec) /\ \A i \in DOMAIN specs : <<specs[i]>> \in Seq(FrozenSpec)
  BY BaselinesAssumption DEF Inv, TypeOK
<1>2. PICK r : Become(v, r) /\ (r = all \/ \E i \in DOMAIN specs : r = one(i))
  BY DEF Begin
<1>3. r \in Verifier
  <2>1. all \in Verifier
    BY <1>1, IdleSane DEF Verifier, Phase
  <2>2. \A i \in DOMAIN specs : one(i) \in Verifier
    BY <1>1, IdleSane DEF Verifier, Phase
  <2> QED
    BY <1>2, <2>1, <2>2
<1>4. /\ r.phase = "spec" /\ r.todo = <<>> /\ r.plan = NoPlan /\ r.covered = {}
      /\ r.shot = "unverifiable"
  BY <1>2, IdleSane DEF Verifier
<1>5. Sane(r)
  BY <1>4, NoPlanSane DEF Sane, HoldsShot, Earned, Trusts, Accounts, Reports
<1> QED
  BY <1>2, <1>3, <1>5, BecomeSane DEF SaneStep

LEMMA PrepareSane ==
  ASSUME Inv, NEW v \in Verifiers, Prepare(v)
  PROVE  SaneStep(v)
<1> DEFINE r == verifier[v]
           s == Head(r.left)
           n == [r EXCEPT !.phase = "render", !.left = Tail(r.left), !.native = s.native,
                          !.todo = s.keys, !.dir = Empty, !.covered = Covered(r, s)]
<1>1. /\ r \in Verifier /\ r.phase = "spec" /\ Sane(r) /\ r.left # <<>> /\ Become(v, n)
      /\ r.left \in Seq(FrozenSpec) /\ r.covered \in SUBSET Keys
  BY Fields DEF Inv, Prepare, Is
<1>2. s \in FrozenSpec /\ Tail(r.left) \in Seq(FrozenSpec)
  BY <1>1, OnTail
<1>3. s.keys \in Seq(Keys) /\ s.native \in BOOLEAN
  BY <1>2 DEF FrozenSpec
<1>4. /\ On(s.keys) \in SUBSET Keys
      /\ Covered(r, s) = IF r.sweep THEN r.covered \cup On(s.keys) ELSE {}
  BY <1>3 DEF On, Covered
<1>5. n \in Verifier
  BY <1>1, <1>2, <1>3, <1>4, ConstantsTyped DEF Verifier, Phase
<1>6. /\ n.phase = "render" /\ n.todo = s.keys /\ n.covered = Covered(r, s)
      /\ n.sweep = r.sweep /\ n.errored = r.errored /\ n.lives = r.lives /\ n.threw = r.threw
      /\ n.plan = r.plan /\ n.shot = r.shot /\ n.ref = r.ref
  BY <1>1 DEF Verifier
<1>7. n.plan = NoPlan /\ r.todo = <<>>
  BY <1>1, <1>6 DEF Sane, Reports, Accounts
<1> HIDE DEF n, r, s
<1>8. HoldsShot(n) /\ Earned(n) /\ Trusts(n) /\ Reports(n)
  BY <1>1, <1>6, <1>7, NoPlanSane DEF Sane, HoldsShot, Earned, Trusts, Reports
<1>9. Accounts(n)
  <2>1. On(<<>>) = {}
    BY DEF On
  <2> QED
    BY <1>1, <1>4, <1>6, <1>7, <2>1 DEF Sane, Accounts
<1> QED
  BY <1>1, <1>5, <1>8, <1>9, BecomeSane DEF SaneStep, Sane

LEMMA PrepareFailsSane ==
  ASSUME Inv, NEW v \in Verifiers, PrepareFails(v)
  PROVE  SaneStep(v)
<1> DEFINE r == verifier[v]
           s == Head(r.left)
           n == [r EXCEPT !.left = Tail(r.left), !.errored = TRUE, !.covered = Covered(r, s)]
<1>1. /\ r \in Verifier /\ r.phase = "spec" /\ Sane(r) /\ r.left # <<>> /\ Become(v, n)
      /\ r.left \in Seq(FrozenSpec) /\ r.covered \in SUBSET Keys
  BY Fields DEF Inv, PrepareFails, Is
<1>2. s \in FrozenSpec /\ Tail(r.left) \in Seq(FrozenSpec)
  BY <1>1, OnTail
<1>3. Covered(r, s) \in SUBSET Keys
  BY <1>1, <1>2 DEF FrozenSpec, Covered
<1>4. n \in Verifier
  BY <1>1, <1>2, <1>3 DEF Verifier
<1>5. /\ n.phase = "spec" /\ n.todo = r.todo /\ n.errored /\ n.plan = r.plan
      /\ n.shot = r.shot /\ n.ref = r.ref
  BY <1>1 DEF Verifier
<1> HIDE DEF n, r, s
<1>6. Sane(n)
  BY <1>1, <1>5, NoPlanSane DEF Sane, HoldsShot, Earned, Trusts, Accounts, Reports
<1> QED
  BY <1>1, <1>4, <1>6, BecomeSane DEF SaneStep

LEMMA CountedTyped ==
  ASSUME NEW lives \in [Keys -> 0..2], NEW k \in Keys, NEW outcome
  PROVE  /\ Counted(lives, k, outcome) \in [Keys -> 0..2]
         /\ \A x \in Keys : lives[x] > 0 => Counted(lives, k, outcome)[x] > 0
         /\ outcome # "threw" => Counted(lives, k, outcome)[k] > 0
<1>1. \A x \in Keys : lives[x] \in {0, 1, 2}
  OBVIOUS
<1> QED
  BY <1>1 DEF Counted

LEMMA ShootSane ==
  ASSUME Inv, NEW v \in Verifiers, NEW outcome \in Outcomes, Shoot(v, outcome)
  PROVE  SaneStep(v)
<1> DEFINE r == verifier[v]
           k == Head(r.todo)
           shot == [r EXCEPT
                       !.todo = Tail(@),
                       !.dir = IF outcome = "skipped" THEN @ ELSE With(@, k, look[k]),
                       !.lives = IF r.sweep THEN Counted(@, k, outcome) ELSE @,
                       !.errored = @ \/ Errors(r, outcome),
                       !.threw = IF r.sweep /\ outcome = "threw" THEN @ \cup {k} ELSE @]
           n == [shot EXCEPT !.phase = "diff", !.key = k, !.outcome = outcome]
<1>1. /\ r \in Verifier /\ r.phase = "render" /\ Sane(r) /\ r.todo # <<>>
      /\ Become(v, IF Compares(r, outcome) THEN n ELSE NextRender(shot))
  BY Fields DEF Inv, Shoot, Is
<1>2. /\ r.todo \in Seq(Keys) /\ r.dir \in Directory /\ r.lives \in [Keys -> 0..2]
      /\ r.threw \in SUBSET Keys /\ r.sweep \in BOOLEAN /\ r.errored \in BOOLEAN
      /\ outcome \in Outcome
  BY Fields, BaselinesAssumption DEF Inv
<1>3. /\ k \in Keys /\ Tail(r.todo) \in Seq(Keys)
      /\ On(r.todo) \subseteq {k} \cup On(Tail(r.todo))
  BY <1>1, <1>2, OnTail
<1>4. look[k] \in Looks
  BY <1>3 DEF Inv, TypeOK
<1>5. With(r.dir, k, look[k]) \in Directory /\ k \in DOMAIN With(r.dir, k, look[k])
  <2>1. With(r.dir, k, look[k]) \in Directory
    BY <1>2, <1>3, <1>4, DirectoryTyped, Zenon
  <2>2. k \in DOMAIN With(r.dir, k, look[k])
    BY DEF With
  <2> QED
    BY <2>1, <2>2
<1>6. /\ Counted(r.lives, k, outcome) \in [Keys -> 0..2]
      /\ \A x \in Keys : r.lives[x] > 0 => Counted(r.lives, k, outcome)[x] > 0
      /\ outcome # "threw" => Counted(r.lives, k, outcome)[k] > 0
  BY <1>2, <1>3, CountedTyped
<1>7. shot \in Verifier
  <2>1. (r.errored \/ Errors(r, outcome)) \in BOOLEAN
    BY <1>2 DEF Errors
  <2> QED
    BY <1>1, <1>2, <1>3, <1>5, <1>6, <2>1 DEF Verifier
<1>8. /\ shot.phase = "render" /\ shot.todo = Tail(r.todo)
      /\ shot.dir = IF outcome = "skipped" THEN r.dir ELSE With(r.dir, k, look[k])
      /\ shot.lives = IF r.sweep THEN Counted(r.lives, k, outcome) ELSE r.lives
      /\ shot.threw = IF r.sweep /\ outcome = "threw" THEN r.threw \cup {k} ELSE r.threw
      /\ shot.sweep = r.sweep /\ shot.covered = r.covered /\ shot.plan = r.plan
      /\ shot.shot = r.shot /\ shot.ref = r.ref /\ (r.errored => shot.errored)
  BY <1>1 DEF Verifier
<1> HIDE DEF shot, r, k
<1>9. Accounts(shot)
  BY <1>1, <1>3, <1>6, <1>8 DEF Sane, Accounts
<1>10. Sane(shot)
  BY <1>1, <1>8, <1>9 DEF Sane, HoldsShot, Earned, Trusts, Reports
<1>11. n \in Verifier
  BY <1>2, <1>3, <1>7 DEF Verifier, Phase
<1>12. /\ n.phase = "diff" /\ n.key = k /\ n.outcome = outcome
       /\ n.todo = shot.todo /\ n.dir = shot.dir /\ n.lives = shot.lives
       /\ n.threw = shot.threw /\ n.sweep = shot.sweep /\ n.covered = shot.covered
       /\ n.plan = shot.plan /\ n.shot = shot.shot /\ n.ref = shot.ref
       /\ n.errored = shot.errored
  BY <1>7 DEF Verifier
<1>13. ASSUME Compares(r, outcome)
       PROVE  Sane(n)
  <2>1. outcome \notin {"threw", "skipped"}
    BY <1>13 DEF Compares
  <2> HIDE DEF n
  <2> QED
    BY <1>5, <1>8, <1>10, <1>12, <2>1 DEF Sane, HoldsShot, Earned, Trusts, Accounts, Reports
<1>14. NextRender(shot) \in Verifier /\ Sane(NextRender(shot))
  BY <1>7, <1>8, <1>10, NextRenderSane
<1> HIDE DEF n
<1> QED
  BY <1>1, <1>11, <1>13, <1>14, BecomeSane DEF SaneStep

(* The comparison trusts what is on disk, and a web image there is sound. *)
LEMMA DiffSane ==
  ASSUME Inv, NEW v \in Verifiers, Diff(v)
  PROVE  SaneStep(v)
<1> DEFINE r == verifier[v]
           shot == Compared(disk[r.key], r.dir[r.key])
           n == [r EXCEPT !.shot = shot, !.ref = disk[r.key],
                          !.meta = IF r.native THEN shot ELSE @,
                          !.phase = IF r.native THEN "exists" ELSE "meta"]
<1>1. /\ r \in Verifier /\ r.phase = "diff" /\ Sane(r) /\ Become(v, n)
      /\ r.key \in Keys /\ r.native \in BOOLEAN /\ r.meta \in Status
  BY Fields DEF Inv, Diff, Is
<1>2. disk[r.key] \in File
  BY <1>1 DEF Inv, TypeOK
<1>3. shot \in Status /\ (shot = "pass" => IsImage(disk[r.key]))
  BY DEF Compared, Status
<1>4. disk[r.key].from = "web" /\ shot = "pass" => disk[r.key].sound
  BY <1>1, <1>3 DEF Inv, SoundOnDisk
<1> HIDE DEF shot
<1>5. n \in Verifier
  BY <1>1, <1>2, <1>3 DEF Verifier, Phase
<1>6. /\ n.shot = shot /\ n.ref = disk[r.key]
      /\ n.phase = IF r.native THEN "exists" ELSE "meta"
      /\ n.native = r.native /\ n.key = r.key /\ n.dir = r.dir /\ n.outcome = r.outcome
      /\ n.todo = r.todo /\ n.sweep = r.sweep /\ n.errored = r.errored
      /\ n.covered = r.covered /\ n.lives = r.lives /\ n.threw = r.threw /\ n.plan = r.plan
  BY <1>1 DEF Verifier
<1> HIDE DEF n, r
<1>7. HoldsShot(n) /\ Earned(n) /\ Trusts(n)
  BY <1>1, <1>4, <1>6 DEF Sane, HoldsShot, Earned, Trusts
<1>8. Accounts(n) /\ Reports(n)
  BY <1>1, <1>6 DEF Sane, Accounts, Reports
<1> QED
  BY <1>1, <1>5, <1>7, <1>8, BecomeSane DEF SaneStep, Sane

(* A render that may become the baseline has earned it. *)
LEMMA RecordSane ==
  ASSUME Inv, NEW v \in Verifiers, Record(v)
  PROVE  SaneStep(v)
<1> DEFINE r == verifier[v]
           seen == [r EXCEPT !.meta = Compared(disk[r.key], r.dir[r.key])]
           n == [seen EXCEPT !.phase = "exists"]
<1>1. /\ r \in Verifier /\ r.phase = "meta" /\ Sane(r) /\ r.outcome \in Outcome
      /\ Become(v, IF Worthy(r.outcome, r.shot) THEN n ELSE NextRender(seen))
  BY Fields DEF Inv, Record, Is
<1>2. seen \in Verifier
  BY <1>1 DEF Verifier, Compared, Status
<1>3. n \in Verifier
  BY <1>2 DEF Verifier, Phase
<1>4. \A x \in {seen, n} :
        /\ x.shot = r.shot /\ x.ref = r.ref
        /\ x.native = r.native /\ x.key = r.key /\ x.dir = r.dir /\ x.outcome = r.outcome
        /\ x.todo = r.todo /\ x.sweep = r.sweep /\ x.errored = r.errored
        /\ x.covered = r.covered /\ x.lives = r.lives /\ x.threw = r.threw /\ x.plan = r.plan
  BY <1>1 DEF Verifier
<1>5. seen.phase = "meta" /\ n.phase = "exists"
  BY <1>1, <1>2 DEF Verifier
<1> HIDE DEF n, seen, r
<1>6. Sane(seen)
  BY <1>1, <1>4, <1>5 DEF Sane, HoldsShot, Earned, Trusts, Accounts, Reports
<1>7. ASSUME Worthy(r.outcome, r.shot)
      PROVE  Sane(n)
  <2>1. r.outcome \in {"clean", "tainted"}
    BY <1>1, <1>7 DEF Worthy, Refolded, Outcome, Sane, HoldsShot
  <2> QED
    BY <1>1, <1>4, <1>5, <2>1 DEF Sane, HoldsShot, Earned, Trusts, Accounts, Reports
<1>8. NextRender(seen) \in Verifier /\ Sane(NextRender(seen))
  BY <1>2, <1>5, <1>6, NextRenderSane
<1> QED
  BY <1>1, <1>3, <1>7, <1>8, BecomeSane DEF SaneStep

(* Within a render only the phase goes on. *)
LEMMA OnwardSane ==
  ASSUME Inv, NEW v \in Verifiers, NEW phase \in {"copy", "copying"},
         verifier[v].phase \in {"exists", "copy"},
         Become(v, [verifier[v] EXCEPT !.phase = phase])
  PROVE  SaneStep(v)
<1> DEFINE r == verifier[v]
           n == [r EXCEPT !.phase = phase]
<1>1. r \in Verifier /\ Sane(r)
  BY Fields DEF Inv
<1>2. n \in Verifier
  BY <1>1 DEF Verifier, Phase
<1>3. /\ n.phase = phase /\ n.shot = r.shot /\ n.ref = r.ref
      /\ n.native = r.native /\ n.key = r.key /\ n.dir = r.dir /\ n.outcome = r.outcome
      /\ n.todo = r.todo /\ n.sweep = r.sweep /\ n.errored = r.errored
      /\ n.covered = r.covered /\ n.lives = r.lives /\ n.threw = r.threw /\ n.plan = r.plan
  BY <1>1 DEF Verifier
<1>4. r.phase \in {"exists", "copy"} /\ Become(v, n)
  OBVIOUS
<1> HIDE DEF n, r
<1>5. Sane(n)
  BY <1>1, <1>3, <1>4 DEF Sane, HoldsShot, Earned, Trusts, Accounts, Reports
<1> QED
  BY <1>2, <1>4, <1>5, BecomeSane DEF SaneStep

LEMMA LeaveSane ==
  ASSUME Inv, NEW v \in Verifiers, verifier[v].phase \notin {"spec", "swept"},
         Become(v, NextRender(verifier[v]))
  PROVE  SaneStep(v)
<1>1. verifier[v] \in Verifier /\ Sane(verifier[v])
  BY Fields DEF Inv
<1> QED
  BY <1>1, NextRenderSane, BecomeSane DEF SaneStep

LEMMA CopySane ==
  ASSUME Inv, NEW v \in Verifiers, CheckExists(v) \/ CopyBegins(v) \/ CopyEnds(v)
  PROVE  SaneStep(v)
<1>1. /\ verifier[v].phase \in {"exists", "copy", "copying"}
      /\ \/ Become(v, NextRender(verifier[v]))
         \/ verifier[v].phase = "exists" /\ Become(v, [verifier[v] EXCEPT !.phase = "copy"])
         \/ verifier[v].phase = "copy" /\ Become(v, [verifier[v] EXCEPT !.phase = "copying"])
  BY DEF CheckExists, CopyBegins, CopyEnds, Is
<1> QED
  BY <1>1, LeaveSane, OnwardSane

LEMMA EndSpecSane ==
  ASSUME Inv, NEW v \in Verifiers, EndSpec(v)
  PROVE  SaneStep(v)
<1> DEFINE r == verifier[v]
           n == [r EXCEPT !.phase = "spec", !.dir = Empty]
<1>1. r \in Verifier /\ Sane(r) /\ r.phase = "render" /\ r.todo = <<>> /\ Become(v, n)
  BY Fields DEF Inv, EndSpec, Is
<1>2. n \in Verifier
  BY <1>1, ConstantsTyped DEF Verifier, Phase
<1>3. /\ n.phase = "spec" /\ n.shot = r.shot /\ n.ref = r.ref
      /\ n.todo = r.todo /\ n.sweep = r.sweep /\ n.errored = r.errored
      /\ n.covered = r.covered /\ n.lives = r.lives /\ n.threw = r.threw /\ n.plan = r.plan
  BY <1>1 DEF Verifier
<1> HIDE DEF n, r
<1>4. Sane(n)
  BY <1>1, <1>3 DEF Sane, HoldsShot, Earned, Trusts, Accounts, Reports
<1> QED
  BY <1>1, <1>2, <1>4, BecomeSane DEF SaneStep

(* A sweep without an error has rendered all it covered, or seen it throw. *)
LEMMA EndSweepSane ==
  ASSUME Inv, NEW v \in Verifiers, EndSweep(v)
  PROVE  SaneStep(v)
<1> DEFINE r == verifier[v]
           baseline == {k \in Keys : Exists(disk[k])}
           plan == Plan(r.lives, baseline)
           n == [r EXCEPT !.phase = "swept", !.plan = plan]
<1>1. /\ r \in Verifier /\ Sane(r) /\ r.phase = "spec" /\ r.lives \in [Keys -> 0..2]
      /\ Become(v, IF r.sweep /\ ~r.errored THEN n ELSE Idle)
  BY Fields DEF Inv, EndSweep, Is
<1>2. /\ plan \in PlanType /\ Matching(plan)
      /\ plan.orphans \subseteq {k \in Keys : ~(r.lives[k] > 0)}
  BY <1>1, PlanMatches
<1>3. n \in Verifier
  BY <1>1, <1>2 DEF Verifier, Phase
<1>4. /\ n.phase = "swept" /\ n.shot = r.shot /\ n.ref = r.ref /\ n.plan = plan
      /\ n.todo = r.todo /\ n.sweep = r.sweep /\ n.errored = r.errored
      /\ n.covered = r.covered /\ n.lives = r.lives /\ n.threw = r.threw
  BY <1>1 DEF Verifier
<1> HIDE DEF n, r, plan, baseline
<1>5. ASSUME r.sweep, ~r.errored
      PROVE  Sane(n)
  <2>1. r.covered \subseteq {k \in Keys : r.lives[k] > 0} \cup r.threw
    <3>1. r.todo = <<>> /\ On(<<>>) = {}
      BY <1>1 DEF Sane, Accounts, On
    <3> QED
      BY <1>1, <1>5, <3>1 DEF Sane, Accounts
  <2>2. Reports(n)
    BY <1>2, <1>4, <2>1 DEF Reports
  <2> QED
    BY <1>1, <1>4, <2>2 DEF Sane, HoldsShot, Earned, Trusts, Accounts
<1> QED
  BY <1>1, <1>3, <1>5, IdleSane, BecomeSane DEF SaneStep

LEMMA StopSane ==
  ASSUME Inv, NEW v \in Verifiers, Exit(v) \/ Kill(v)
  PROVE  SaneStep(v)
  BY IdleSane, BecomeSane DEF Exit, Kill, SaneStep

LEMMA VerifyingSane ==
  ASSUME Inv, NEW v \in Verifiers, Verifying(v)
  PROVE  SaneStep(v)
  BY BeginSane, PrepareSane, PrepareFailsSane, ShootSane, DiffSane, RecordSane, CopySane,
     EndSpecSane, EndSweepSane, StopSane DEF Verifying

-----------------------------------------------------------------------------
(* A verify touches one baseline, by a copy only. *)
LEMMA CopyTyped ==
  ASSUME Inv, NEW v \in Verifiers, CopyBegins(v) \/ CopyEnds(v)
  PROVE  disk' \in [Keys -> File] /\ SoundOnDisk'
<1> DEFINE r == verifier[v]
           k == r.key
<1>1. /\ disk \in [Keys -> File] /\ SoundOnDisk /\ k \in Keys
      /\ r.dir \in Directory /\ r.outcome \in Outcome /\ Sane(r)
  BY Fields DEF Inv, TypeOK
<1>2. CASE CopyBegins(v)
  <2>1. disk' = disk \/ disk' = [disk EXCEPT ![k] = Unreadable("partial")]
    BY <1>2 DEF CopyBegins
  <2>2. Unreadable("partial") \in File /\ ~IsImage(Unreadable("partial"))
    BY ConstantsTyped DEF Unreadable, IsImage
  <2> QED
    BY <1>1, <2>1, <2>2 DEF SoundOnDisk
<1>3. CASE CopyEnds(v)
  <2> DEFINE own == Image(r.dir[k], IF r.native THEN "native" ELSE "web",
                          r.outcome \in {"clean", "tainted"})
  <2>1. r.dir[k] \in Looks
    BY <1>1, <1>3, DirectoryTyped DEF CopyEnds, Is, Sane, HoldsShot
  <2>2. own \in File /\ (own.from = "web" => own.sound)
    <3>1. own \in File
      <4>1. (IF r.native THEN "native" ELSE "web") \in Origin
        BY DEF Origin
      <4>2. (r.outcome \in {"clean", "tainted"}) \in BOOLEAN
        OBVIOUS
      <4> QED
        BY <2>1, <4>1, <4>2, ConstantsTyped, Zenon
    <3>2. ~r.native => r.outcome \in {"clean", "tainted"}
      BY <1>1, <1>3 DEF CopyEnds, Is, Sane, Earned
    <3> QED
      BY <3>1, <3>2 DEF Image
  <2>3. PICK f \in Copied(disk[k], own) : disk' = [disk EXCEPT ![k] = f]
    BY <1>3 DEF CopyEnds
  <2> HIDE DEF own
  <2>4. f \in File /\ (IsImage(f) /\ f.from = "web" => f.sound)
    <3>1. f \in File
      <4>1. disk[k] \in File
        BY <1>1
      <4> QED
        BY <2>2, <4>1, CopiedTyped
    <3>2. f \in {own, disk[k], Unreadable("mixed")}
      BY DEF Copied
    <3>3. ~IsImage(Unreadable("mixed"))
      BY DEF IsImage, Unreadable
    <3> QED
      BY <1>1, <2>2, <3>1, <3>2, <3>3 DEF SoundOnDisk
  <2> QED
    BY <1>1, <2>3, <2>4 DEF SoundOnDisk
<1> QED
  BY <1>2, <1>3

LEMMA DiffTyped ==
  ASSUME Inv, NEW v \in Verifiers, Diff(v)
  PROVE  failed' \in [Keys -> SUBSET Looks]
<1> DEFINE r == verifier[v]
           k == r.key
<1>1. failed \in [Keys -> SUBSET Looks] /\ k \in Keys /\ r.dir \in Directory /\ Sane(r)
  BY Fields DEF Inv, TypeOK
<1>2. r.dir[k] \in Looks
  BY <1>1, DirectoryTyped DEF Diff, Is, Sane, HoldsShot
<1>3. failed' = failed \/ failed' = [failed EXCEPT ![k] = @ \cup {r.dir[k]}]
  BY DEF Diff
<1> QED
  BY <1>1, <1>2, <1>3

LEMMA VerifyingTyped ==
  ASSUME Inv, NEW v \in Verifiers, Verifying(v)
  PROVE  TypeOK' /\ SoundOnDisk' /\ AcceptHolds'
<1>1. UNCHANGED <<look, specs, edits, humans, accept>>
  BY DEF Verifying, Begin, Prepare, PrepareFails, Shoot, Diff, Record, CheckExists, CopyBegins,
         CopyEnds, EndSpec, EndSweep, Exit, Kill, project, human
<1>2. verifies' \in 0..MaxVerifies /\ kills' \in 0..MaxKills
  <2>1. /\ verifies' = verifies \/ (verifies < MaxVerifies /\ verifies' = verifies + 1)
        /\ kills' = kills \/ (kills < MaxKills /\ kills' = kills + 1)
    BY Zenon DEF Verifying, Begin, Prepare, PrepareFails, Shoot, Diff, Record, CheckExists,
                 CopyBegins, CopyEnds, EndSpec, EndSweep, Exit, Kill
  <2> QED
    BY <2>1, BaselinesAssumption DEF Inv, TypeOK
<1>4. disk' \in [Keys -> File] /\ SoundOnDisk'
  <2>1. CASE UNCHANGED disk
    BY <2>1 DEF Inv, TypeOK, SoundOnDisk
  <2>2. UNCHANGED disk \/ CopyBegins(v) \/ CopyEnds(v)
    BY DEF Verifying, Begin, Prepare, PrepareFails, Shoot, Diff, Record, CheckExists,
           EndSpec, EndSweep, Exit, Kill
  <2> QED
    BY <2>1, <2>2, CopyTyped
<1>5. filed' \in Directory
  <2>1. filed' = filed \/ filed' = verifier[v].dir
    BY DEF Verifying, Begin, Prepare, PrepareFails, Shoot, Diff, Record, CheckExists, CopyBegins,
           CopyEnds, EndSpec, EndSweep, Exit, Kill
  <2> QED
    BY <2>1, Fields DEF Inv, TypeOK
<1>6. failed' \in [Keys -> SUBSET Looks]
  <2>1. UNCHANGED failed \/ Diff(v)
    BY DEF Verifying, Begin, Prepare, PrepareFails, Shoot, Record, CheckExists, CopyBegins,
           CopyEnds, EndSpec, EndSweep, Exit, Kill
  <2> QED
    BY <2>1, DiffTyped DEF Inv, TypeOK
<1>7. verifier' \in [Verifiers -> Verifier]
  BY VerifyingSane DEF SaneStep
<1>8. TypeOK'
  BY <1>1, <1>2, <1>4, <1>5, <1>6, <1>7 DEF Inv, TypeOK
<1> QED
  BY <1>1, <1>4, <1>8 DEF Inv, AcceptHolds

(* What people do leaves every verify as it is. *)
LEMMA HumanTyped ==
  ASSUME Inv, Human
  PROVE  TypeOK' /\ SoundOnDisk' /\ AcceptHolds' /\ UNCHANGED verifier
<1>1. UNCHANGED <<verifies, verifier, filed>>
  BY DEF Human, Edit, Respecify, Accept, AcceptBegins, AcceptEnds, KillAccept, Delete, verifying
<1>2. look' \in [Keys -> Looks] /\ specs' \in Projects
  BY DEF Inv, TypeOK, Human, Edit, Respecify, Accept, AcceptBegins, AcceptEnds, KillAccept,
         Delete, project
<1>3. edits' \in 0..MaxEdits /\ humans' \in 0..MaxHuman /\ kills' \in 0..MaxKills
  <2>1. /\ edits' = edits \/ (edits < MaxEdits /\ edits' = edits + 1)
        /\ humans' = humans \/ (humans < MaxHuman /\ humans' = humans + 1)
        /\ kills' = kills \/ (kills < MaxKills /\ kills' = kills + 1)
    BY DEF Human, Edit, Respecify, Accept, AcceptBegins, AcceptEnds, KillAccept, Delete,
           project, human
  <2> QED
    BY <2>1, BaselinesAssumption DEF Inv, TypeOK
<1>4. /\ accept' \in [todo : Directory, busy : BOOLEAN, key : Keys]
      /\ AcceptHolds'
  <2>0. /\ accept \in [todo : Directory, busy : BOOLEAN, key : Keys] /\ AcceptHolds
        /\ AnyKey \in Keys /\ Empty \in Directory /\ DOMAIN Empty = {}
    BY ConstantsTyped DEF Inv, TypeOK
  <2>1. CASE UNCHANGED accept
    BY <2>0, <2>1 DEF AcceptHolds
  <2>2. ASSUME NEW dir \in {filed} \cup {verifier[v].dir : v \in Verifiers}, Accept(dir)
        PROVE  /\ accept' \in [todo : Directory, busy : BOOLEAN, key : Keys]
               /\ AcceptHolds'
    <3>1. dir \in Directory
      BY Fields DEF Inv, TypeOK
    <3>2. ~accept.busy
      BY <2>0, <2>2 DEF Accept, AcceptHolds
    <3> QED
      BY <2>0, <2>2, <3>1, <3>2 DEF Accept, AcceptHolds
  <2>3. ASSUME NEW k \in Keys, AcceptBegins(k)
        PROVE  /\ accept' \in [todo : Directory, busy : BOOLEAN, key : Keys]
               /\ AcceptHolds'
    BY <2>0, <2>3 DEF AcceptBegins, AcceptHolds
  <2>4. CASE AcceptEnds
    <3>1. Without(accept.todo, accept.key) \in Directory
      BY <2>0, DirectoryTyped
    <3> QED
      BY <2>0, <2>4, <3>1 DEF AcceptEnds, AcceptHolds
  <2>5. CASE KillAccept
    BY <2>0, <2>5 DEF KillAccept, NoAccept, AcceptHolds
  <2>6. \/ UNCHANGED accept \/ AcceptEnds \/ KillAccept
        \/ \E dir \in {filed} \cup {verifier[v].dir : v \in Verifiers} : Accept(dir)
        \/ \E k \in Keys : AcceptBegins(k)
    BY DEF Human, Edit, Respecify, Delete, human
  <2> QED
    BY <2>1, <2>2, <2>3, <2>4, <2>5, <2>6
<1>5. disk' \in [Keys -> File] /\ SoundOnDisk'
  <2>1. CASE UNCHANGED disk
    BY <2>1 DEF Inv, TypeOK, SoundOnDisk
  <2>2. ASSUME NEW k \in Keys, NEW f \in File, disk' = [disk EXCEPT ![k] = f],
               IsImage(f) /\ f.from = "web" => f.sound
        PROVE  disk' \in [Keys -> File] /\ SoundOnDisk'
    BY <2>2 DEF Inv, TypeOK, SoundOnDisk
  <2>3. \A state \in {"none", "partial", "mixed"} :
          Unreadable(state) \in File /\ ~IsImage(Unreadable(state))
    BY ConstantsTyped DEF Unreadable, IsImage
  <2>4. ASSUME NEW k \in Keys, AcceptBegins(k) \/ Delete(k)
        PROVE  disk' \in [Keys -> File] /\ SoundOnDisk'
    <3>1. PICK state \in {"none", "partial", "mixed"} :
            disk' = [disk EXCEPT ![k] = Unreadable(state)]
      BY <2>4 DEF AcceptBegins, Delete
    <3> QED
      BY <2>2, <2>3, <3>1
  <2>5. CASE AcceptEnds
    <3> DEFINE k == accept.key
               own == Image(accept.todo[k], "human", TRUE)
    <3>1. /\ k \in Keys /\ accept.todo[k] \in Looks
          /\ disk[k] \in File /\ (IsImage(disk[k]) /\ disk[k].from = "web" => disk[k].sound)
      BY <2>5, DirectoryTyped DEF Inv, TypeOK, AcceptHolds, AcceptEnds, SoundOnDisk
    <3>2. own \in File /\ own.sound
      BY <3>1, ConstantsTyped DEF Origin, Image
    <3>3. PICK f \in Copied(disk[k], own) : disk' = [disk EXCEPT ![k] = f]
      BY <2>5 DEF AcceptEnds
    <3> HIDE DEF own, k
    <3>4. f \in File
      BY <3>1, <3>2, CopiedTyped
    <3>5. f \in {own, disk[k], Unreadable("mixed")}
      BY DEF Copied
    <3> QED
      BY <2>2, <2>3, <3>1, <3>2, <3>3, <3>4, <3>5
  <2> QED
    BY <2>1, <2>4, <2>5 DEF Human, Edit, Respecify, Accept, KillAccept
<1>6. failed' \in [Keys -> SUBSET Looks]
  BY DEF Inv, TypeOK, Human, Edit, Respecify, Accept, AcceptBegins, AcceptEnds, KillAccept, Delete
<1>7. TypeOK'
  BY <1>1, <1>2, <1>3, <1>4, <1>5, <1>6 DEF Inv, TypeOK
<1> QED
  BY <1>1, <1>4, <1>5, <1>7

-----------------------------------------------------------------------------
LEMMA InitInv == Init => Inv
<1> SUFFICES ASSUME Init PROVE Inv
  OBVIOUS
<1>1. /\ AnyKey \in Keys /\ AnyLook \in Looks /\ Empty \in Directory
      /\ Unreadable("none") \in File /\ Image(AnyLook, "human", TRUE) \in File
  BY ConstantsTyped DEF Origin
<1>2. disk \in [Keys -> File]
  BY <1>1 DEF Init
<1>3. SoundOnDisk
  BY DEF Init, SoundOnDisk, Unreadable, Image, IsImage
<1>4. accept \in [todo : Directory, busy : BOOLEAN, key : Keys] /\ AcceptHolds
  BY <1>1 DEF Init, NoAccept, AcceptHolds
<1>5. verifier \in [Verifiers -> Verifier] /\ \A v \in Verifiers : Sane(verifier[v])
  BY IdleSane DEF Init
<1>6. TypeOK
  <2>1. look \in [Keys -> Looks] /\ filed \in Directory /\ failed \in [Keys -> SUBSET Looks]
    BY <1>1 DEF Init
  <2>2. /\ verifies \in 0..MaxVerifies /\ edits \in 0..MaxEdits
        /\ humans \in 0..MaxHuman /\ kills \in 0..MaxKills
    BY BaselinesAssumption DEF Init
  <2>3. specs \in Projects
    BY DEF Init
  <2> QED
    BY <1>2, <1>4, <1>5, <2>1, <2>2, <2>3 DEF TypeOK
<1> QED
  BY <1>3, <1>4, <1>5, <1>6 DEF Inv

LEMMA NextInv == Inv /\ [Next]_vars => Inv'
<1> SUFFICES ASSUME Inv, [Next]_vars PROVE Inv'
  OBVIOUS
<1>1. ASSUME NEW v \in Verifiers, Verifying(v)
      PROVE  Inv'
  BY <1>1, VerifyingSane, VerifyingTyped DEF Inv, SaneStep
<1>2. CASE Human
  <2>1. UNCHANGED verifier /\ TypeOK' /\ SoundOnDisk' /\ AcceptHolds'
    BY <1>2, HumanTyped
  <2> QED
    BY <2>1 DEF Inv
<1>3. CASE UNCHANGED vars
  <2>1. /\ UNCHANGED <<look, specs, verifies, edits, humans, kills>>
        /\ UNCHANGED <<disk, filed, verifier, accept, failed>>
    BY <1>3 DEF vars
  <2>2. TypeOK'
    BY <2>1 DEF Inv, TypeOK
  <2> QED
    BY <2>1, <2>2 DEF Inv, SoundOnDisk, AcceptHolds
<1> QED
  BY <1>1, <1>2, <1>3 DEF Next

LEMMA AlwaysInv == Spec => []Inv
  BY InitInv, NextInv, PTL DEF Spec

(* Files, directories, the records of verifies and their plans keep their      *)
(* shape: what render.ts, baselines.ts and accept.ts hold between two calls.     *)
THEOREM TypeCorrect == Spec => []TypeOK
<1>1. Inv => TypeOK
  BY DEF Inv
<1> QED
  BY <1>1, AlwaysInv, PTL

(* No web render that was blank or red vouches for another: render.ts:587, with *)
(* however many renders between the check and the copy of one.                  *)
THEOREM NoFalseGreens == Spec => []NoFalseGreen
<1>1. Inv => NoFalseGreen
  BY DEF Inv, Sane, Trusts, NoFalseGreen
<1> QED
  BY <1>1, AlwaysInv, PTL

(* planBaselineLifecycle pairs one to one and loses nothing, for every set of   *)
(* keys and every measure of their resemblance.                                *)
THEOREM PlansMatch == Spec => []PlanIsMatching
<1>1. Inv => PlanIsMatching
  BY DEF Inv, Sane, Reports, Matching, PlanIsMatching
<1> QED
  BY <1>1, AlwaysInv, PTL

(* verify-all.ts:1642: only a key whose render threw can be called an orphan of   *)
(* a sweep that covered it.                                                      *)
THEOREM PrunesOnlyUncovered == Spec => []PrunesUncovered
<1>1. Inv => PrunesUncovered
  BY DEF Inv, Sane, Reports, PrunesUncovered
<1> QED
  BY <1>1, AlwaysInv, PTL

-----------------------------------------------------------------------------
(* Only a copy into a file that was not there, or the end of a copy, lets a       *)
(* verify change a baseline.                                                     *)
LEMMA StepKeepsBaseline ==
  ASSUME Inv, [Next]_vars, NEW k \in Keys, IsImage(disk[k]), disk'[k] # disk[k]
  PROVE  PeopleReplace(k) \/ Writing(k)
<1>0. disk \in [Keys -> File] /\ humans \in Nat
  BY BaselinesAssumption DEF Inv, TypeOK
<1>1. ASSUME NEW v \in Verifiers, Verifying(v)
      PROVE  PeopleReplace(k) \/ Writing(k)
  <2>1. CopyBegins(v) \/ CopyEnds(v)
    BY <1>1 DEF Verifying, Begin, Prepare, PrepareFails, Shoot, Diff, Record, CheckExists,
                EndSpec, EndSweep, Exit, Kill
  <2>2. CASE CopyBegins(v)
    <3>1. disk' = disk \/ (~Exists(disk[verifier[v].key])
                           /\ disk' = [disk EXCEPT ![verifier[v].key] = Unreadable("partial")])
      BY <2>2 DEF CopyBegins
    <3> QED
      BY <1>0, <3>1 DEF Exists, IsImage
  <2>3. CASE CopyEnds(v)
    <3>1. PICK f : disk' = [disk EXCEPT ![verifier[v].key] = f]
      BY <2>3 DEF CopyEnds
    <3>2. verifier[v].key = k
      BY <1>0, <3>1
    <3> QED
      BY <2>3, <3>2 DEF CopyEnds, Writing, Is
  <2> QED
    BY <2>1, <2>2, <2>3
<1>2. CASE Human
  <2>1. \/ AcceptEnds
        \/ \E x \in Keys : AcceptBegins(x) \/ Delete(x)
    BY <1>2 DEF Human, Edit, Respecify, Accept, KillAccept
  <2>2. ASSUME NEW x \in Keys, Delete(x)
        PROVE  PeopleReplace(k)
    BY <1>0, <2>2 DEF Delete, PeopleReplace
  <2>3. ASSUME NEW x \in Keys, AcceptBegins(x)
        PROVE  PeopleReplace(k)
    <3>1. x = k
      BY <1>0, <2>3 DEF AcceptBegins
    <3>2. accept'.busy /\ accept'.key = x
      BY <2>3 DEF Inv, TypeOK, AcceptBegins
    <3> QED
      BY <3>1, <3>2 DEF PeopleReplace
  <2>4. CASE AcceptEnds
    <3>1. PICK f : disk' = [disk EXCEPT ![accept.key] = f]
      BY <2>4 DEF AcceptEnds
    <3>2. accept.key = k /\ accept.busy
      BY <1>0, <2>4, <3>1 DEF AcceptEnds
    <3> QED
      BY <3>2 DEF PeopleReplace
  <2> QED
    BY <2>1, <2>2, <2>3, <2>4
<1>3. CASE UNCHANGED vars
  BY <1>3 DEF vars
<1> QED
  BY <1>1, <1>2, <1>3 DEF Next

(* baselines.ts:20, for every overlap of verifies: an image that is whole is      *)
(* replaced by people, or by a copy that began before it was there.                *)
THEOREM BaselinesAreKept == Spec => RenderKeepsBaseline
<1>1. Inv /\ [Next]_vars =>
        [\A k \in Keys : IsImage(disk[k]) /\ disk'[k] # disk[k] => PeopleReplace(k) \/ Writing(k)]_vars
  BY StepKeepsBaseline
<1> QED
  BY <1>1, AlwaysInv, PTL DEF Spec, RenderKeepsBaseline

-----------------------------------------------------------------------------
(* A look that failed differs from the image on disk as long as there is one.   *)
(* While a file is written or gone there are none: who writes it found nothing   *)
(* there, and who deletes or replaces it starts the count again.                 *)
StillFails ==
    \A k \in Keys :
        /\ Writing(k) \/ ~Exists(disk[k]) => failed[k] = {}
        /\ IsImage(disk[k]) => \A l \in failed[k] : ~(Pixels(disk[k].look, l) <= MaxDiff)

GateInv == Inv /\ StillFails

LEMMA InitStillFails == Init => StillFails
  BY DEF Init, StillFails

(* A step that leaves disk and history alone, and begins no copy. *)
LEMMA QuietStep ==
  ASSUME StillFails, UNCHANGED <<disk, failed>>,
         \A k \in Keys : Writing(k)' => Writing(k) \/ ~Exists(disk[k])
  PROVE  StillFails'
  BY DEF StillFails

(* Only CopyBegins makes a verify a writer. *)
LEMMA NextRenderPhase ==
  ASSUME NEW r, "phase" \in DOMAIN r
  PROVE  NextRender(r).phase = "render"
  BY DEF NextRender

LEMMA OnlyBeginsCopy ==
  ASSUME Inv, NEW v \in Verifiers, Verifying(v), ~CopyBegins(v)
  PROVE  verifier'[v].phase # "copying"
<1> DEFINE r == verifier[v]
<1>0. verifier \in [Verifiers -> Verifier] /\ r \in Verifier /\ "phase" \in DOMAIN r
  BY Fields DEF Inv, TypeOK, Verifier
<1>1. \A n : Become(v, n) => verifier'[v] = n
  BY <1>0 DEF Become
<1>2. CASE Begin(v)
  BY <1>1, <1>2, IdleSane DEF Begin, Verifier
<1>3. CASE Prepare(v) \/ PrepareFails(v) \/ EndSpec(v)
  BY <1>0, <1>1, <1>3 DEF Prepare, PrepareFails, EndSpec, Is, Verifier
<1>4. ASSUME NEW outcome \in Outcomes, Shoot(v, outcome)
      PROVE  verifier'[v].phase # "copying"
  <2>1. PICK shot : /\ "phase" \in DOMAIN shot
                    /\ \/ \E k : Become(v, [shot EXCEPT !.phase = "diff", !.key = k,
                                                        !.outcome = outcome])
                       \/ Become(v, NextRender(shot))
    BY <1>0, <1>4 DEF Shoot
  <2> QED
    BY <1>1, <2>1, NextRenderPhase
<1>5. CASE Diff(v)
  BY <1>0, <1>1, <1>5 DEF Diff, Verifier
<1>6. CASE Record(v)
  <2>1. PICK seen : /\ "phase" \in DOMAIN seen
                    /\ \/ Become(v, [seen EXCEPT !.phase = "exists"])
                       \/ Become(v, NextRender(seen))
    BY <1>0, <1>6 DEF Record
  <2> QED
    BY <1>1, <2>1, NextRenderPhase
<1>7. CASE CheckExists(v) \/ CopyEnds(v)
  BY <1>0, <1>1, <1>7, NextRenderPhase DEF CheckExists, CopyEnds, Verifier
<1>8. CASE EndSweep(v) \/ Exit(v) \/ Kill(v)
  BY <1>0, <1>1, <1>8, IdleSane DEF EndSweep, Exit, Kill, Verifier
<1> QED
  BY <1>2, <1>3, <1>4, <1>5, <1>6, <1>7, <1>8 DEF Verifying

LEMMA VerifyingFails ==
  ASSUME Inv, StillFails, NEW v \in Verifiers, Verifying(v)
  PROVE  StillFails'
<1> DEFINE r == verifier[v]
<1>0. /\ verifier \in [Verifiers -> Verifier] /\ disk \in [Keys -> File] /\ r.key \in Keys
      /\ failed \in [Keys -> SUBSET Looks] /\ r \in Verifier
  BY Fields DEF Inv, TypeOK
<1>1. /\ verifier' \in [Verifiers -> Verifier]
      /\ \A w \in Verifiers \ {v} : verifier'[w] = verifier[w]
  BY VerifyingSane DEF SaneStep
<1>2. ASSUME NEW k \in Keys, Writing(k)', ~Writing(k)
      PROVE  verifier'[v].phase = "copying" /\ verifier'[v].key = k
  BY <1>1, <1>2 DEF Writing, Is
<1>3. CASE Diff(v)
  <2> DEFINE k == r.key
             shot == Compared(disk[k], r.dir[k])
  <2>1. /\ UNCHANGED disk /\ verifier'[v].phase # "copying"
        /\ failed' = IF shot = "fail" /\ ~Writing(k)
                     THEN [failed EXCEPT ![k] = @ \cup {r.dir[k]}] ELSE failed
    BY <1>0, <1>3 DEF Diff, Become, Verifier
  <2>2. \A x \in Keys : Writing(x)' => Writing(x)
    BY <1>2, <2>1
  <2>3. shot = "fail" => IsImage(disk[k]) /\ ~(Pixels(disk[k].look, r.dir[k]) <= MaxDiff)
    BY DEF Compared
  <2>4. IsImage(disk[k]) => Exists(disk[k])
    BY DEF IsImage, Exists
  <2> HIDE DEF k, shot
  <2> QED
    BY <1>0, <2>1, <2>2, <2>3, <2>4 DEF StillFails, k
<1>4. CASE CopyBegins(v)
  <2>1. CASE Exists(disk[r.key])
    <3>1. verifier'[v].phase = "render" /\ UNCHANGED <<disk, failed>>
      BY <1>0, <1>4, <2>1 DEF CopyBegins, Become, NextRender, Verifier
    <3> QED
      BY <1>2, <3>1, QuietStep
  <2>2. CASE ~Exists(disk[r.key])
    <3>1. /\ disk' = [disk EXCEPT ![r.key] = Unreadable("partial")] /\ UNCHANGED failed
          /\ verifier'[v].key = r.key
      BY <1>0, <1>4, <2>2 DEF CopyBegins, Become, Verifier
    <3>2. ~IsImage(Unreadable("partial"))
      BY DEF Unreadable, IsImage
    <3>3. failed[r.key] = {}
      BY <1>0, <2>2 DEF StillFails
    <3>4. ASSUME NEW k \in Keys, Writing(k)'
          PROVE  Writing(k) \/ k = r.key
      BY <1>2, <3>1, <3>4
    <3> QED
      BY <1>0, <3>1, <3>2, <3>3, <3>4 DEF StillFails
  <2> QED
    BY <2>1, <2>2
<1>5. CASE CopyEnds(v)
  <2>1. PICK f : disk' = [disk EXCEPT ![r.key] = f]
    BY <1>5 DEF CopyEnds
  <2>2. UNCHANGED failed /\ verifier'[v].phase = "render" /\ Writing(r.key)
    BY <1>0, <1>5 DEF CopyEnds, Become, NextRender, Verifier, Writing, Is
  <2>3. failed[r.key] = {}
    BY <1>0, <2>2 DEF StillFails
  <2>4. \A k \in Keys : Writing(k)' => Writing(k)
    BY <1>2, <2>2
  <2> QED
    BY <1>0, <2>1, <2>2, <2>3, <2>4 DEF StillFails
<1>6. CASE ~(Diff(v) \/ CopyBegins(v) \/ CopyEnds(v))
  <2>1. UNCHANGED <<disk, failed>>
    BY <1>6 DEF Verifying, Begin, Prepare, PrepareFails, Shoot, Record, CheckExists,
                EndSpec, EndSweep, Exit, Kill
  <2>2. verifier'[v].phase # "copying"
    BY <1>6, OnlyBeginsCopy
  <2> QED
    BY <1>2, <2>1, <2>2, QuietStep
<1> QED
  BY <1>3, <1>4, <1>5, <1>6

LEMMA HumanFails ==
  ASSUME Inv, StillFails, Human
  PROVE  StillFails'
<1>0. /\ disk \in [Keys -> File] /\ failed \in [Keys -> SUBSET Looks]
      /\ accept \in [todo : Directory, busy : BOOLEAN, key : Keys]
  BY DEF Inv, TypeOK
<1>1. \A k \in Keys : Writing(k)' = Writing(k)
  BY HumanTyped DEF Writing, Is
<1>2. CASE UNCHANGED <<disk, failed>>
  BY <1>1, <1>2, QuietStep
<1>3. ASSUME NEW k \in Keys, NEW f, disk' = [disk EXCEPT ![k] = f],
             failed' = [failed EXCEPT ![k] = {}]
      PROVE  StillFails'
  BY <1>0, <1>1, <1>3 DEF StillFails
<1>4. \/ UNCHANGED <<disk, failed>>
      \/ \E k \in Keys : AcceptBegins(k) \/ Delete(k)
      \/ AcceptEnds
  BY DEF Human, Edit, Respecify, Accept, KillAccept
<1>5. ASSUME NEW k \in Keys, AcceptBegins(k) \/ Delete(k)
      PROVE  StillFails'
  BY <1>3, <1>5 DEF AcceptBegins, Delete
<1>6. CASE AcceptEnds
  <2>1. PICK f : /\ disk' = [disk EXCEPT ![accept.key] = f]
                 /\ failed' = [failed EXCEPT ![accept.key] = {}]
    BY <1>6 DEF AcceptEnds
  <2> QED
    BY <1>0, <1>3, <2>1
<1> QED
  BY <1>2, <1>4, <1>5, <1>6

LEMMA NextStillFails == GateInv /\ [Next]_vars => GateInv'
<1> SUFFICES ASSUME GateInv, [Next]_vars PROVE StillFails'
  BY NextInv DEF GateInv
<1>1. CASE UNCHANGED vars
  <2>1. UNCHANGED <<disk, failed, verifier>>
    BY <1>1 DEF vars
  <2> QED
    BY <2>1, QuietStep DEF GateInv, Writing, Is
<1> QED
  BY <1>1, VerifyingFails, HumanFails DEF GateInv, Next

(* What passes was not among what failed. *)
LEMMA StepDoesNotHeal ==
  ASSUME GateInv, [Next]_vars, NEW v \in Verifiers, Is(v, "diff"),
         verifier'[v].phase \in {"meta", "exists"}, verifier'[v].shot = "pass"
  PROVE  verifier[v].dir[verifier[v].key] \notin failed[verifier[v].key]
<1> DEFINE r == verifier[v]
           k == r.key
           shot == Compared(disk[k], r.dir[k])
<1>0. r \in Verifier /\ k \in Keys /\ verifier \in [Verifiers -> Verifier]
  BY Fields DEF GateInv, Inv, TypeOK
<1>1. verifier'[v] # verifier[v]
  BY DEF Is
<1>2. Verifying(v)
  <2>1. ~(UNCHANGED verifier)
    BY <1>1
  <2>2. \A w \in Verifiers \ {v} : ~Verifying(w)
    BY <1>1, VerifyingSane DEF GateInv, SaneStep
  <2>3. ~Human /\ ~(UNCHANGED vars)
    BY <2>1, HumanTyped DEF GateInv, vars
  <2> QED
    BY <2>2, <2>3 DEF Next
<1>3. Diff(v) \/ Kill(v)
  BY <1>2 DEF Verifying, Begin, Prepare, PrepareFails, Shoot, Record, CheckExists, CopyBegins,
              CopyEnds, EndSpec, EndSweep, Exit, Is
<1>4. CASE Diff(v)
  <2>1. verifier'[v].shot = shot
    BY <1>0, <1>4 DEF Diff, Become, Verifier
  <2>2. IsImage(disk[k]) /\ Pixels(disk[k].look, r.dir[k]) <= MaxDiff
    BY <2>1 DEF Compared
  <2> QED
    BY <1>0, <2>2 DEF GateInv, StillFails
<1>5. CASE Kill(v)
  BY <1>0, <1>5, IdleSane DEF Kill, Become
<1> QED
  BY <1>3, <1>4, <1>5

(* server.ts:4752, for any number of verifies, however they overlap: a look that  *)
(* failed keeps failing until people touch the baseline.                          *)
THEOREM GateStaysRed == Spec => GateDoesNotHeal
<1>1. Init => GateInv
  BY InitInv, InitStillFails DEF GateInv
<1>2. GateInv /\ [Next]_vars =>
        [\A v \in Verifiers :
           /\ Is(v, "diff") /\ verifier'[v].phase \in {"meta", "exists"}
           /\ verifier'[v].shot = "pass"
           => verifier[v].dir[verifier[v].key] \notin failed[verifier[v].key]]_vars
  BY StepDoesNotHeal
<1> QED
  BY <1>1, <1>2, NextStillFails, PTL DEF Spec, GateDoesNotHeal

=============================================================================
