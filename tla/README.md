# A verification project for Validity

Validity runs frozen acceptance specs against an app's components and keeps a
*standing* of every spec on disk: what passed, what must be looked at, what has
been parked, and whether the spec is signed off.  The modules here model the
parts of it that several processes, a developer, an agent and a human change in
turn; TLC checks them on small instances and TLAPS proves the most important
properties for all instances.

Line numbers refer to the repository's files; `packages/` is left out where the
file name is unique.

## 1. Inventory

### 1.1 Components

| Component (code) | State | Operations | Hard behaviour | What makes it correct |
|---|---|---|---|---|
| **Verify lock** (`verify-spec/src/verify-lock.ts`) | the lock file, `<path>.stale.<pid>` beside it | acquire (exclusive create, steal of a dead holder's lock, wait), release, exit handler | interleaved system calls, `kill -9` between any two, retries to a deadline | one live process in the section; a dead holder's lock goes away; every attempt ends |
| **Scorecard reducer** (`scorecard.ts`) | none (pure); writes the entries of `.validity/scorecard.json` | `reconcileScorecard`, `applySoftScores`, `mergeSignals` | long sequences of folds, scores and re-freezes; carried scores | nothing stands in for a mechanical verdict; a fresh soft pass is about the current render and text |
| **Signal lifecycle** (`signal-lifecycle.ts`, `mcp/signal-tools.ts`, `commands/signals.ts`) | `.validity/signals.json` | merge, suppress, resolve, reopen on code change, rebuild | parked rows that are answered or come due while parked | what fails is somebody's task; no open row says what is no longer so |
| **Scorecard fold** (`scorecard-fold.ts`, `render-identity.ts`, `spec-relevance.ts`, `git.ts`) | both files, the run index, git's answers | `foldVerifyIntoScorecard` | partial failure (run recorded, fold not); questions answered from a moving working tree | the fold's answers are about the run it folds |
| **Soft scoring** (`mcp/scorecard-tools.ts`, `mcp/submit-soft-scores.ts`, `judge-gate.ts`) | – | show evidence, record scores, inline scores of `submit_report` | a verify between showing and recording | a score is stamped with what was looked at; mechanical criteria cannot be scored |
| **verify --all** (`commands/verify-all.ts`, `judge.ts`) | – | sweep, sweep with judge, gate | two folds with a judge's score in between; load-await-save | the same standing as the MCP verify's |
| **Spec store** (`specs.ts`, `spec-schema.ts`) | `.validity/specs/<id>/` | create, update, freeze, clear probation | read-modify-write of one file by several tools | a frozen version never changes |
| **Run records** (`run.ts`, `runs.ts`, `retention.ts`, `history.ts`) | `run-meta.json` per run, a timeline of rows per spec | record, index, score, carry, prune | whole records written back after an `await`; dead verifies; pruning what somebody still reads | what a record says is of its own run; the newest run is kept |
| **Native bridge** (`verify-native/src/native-bridge.ts`) | one TCP port, the active socket, ack and connection waiters, the last drive message | bind or delegate, navigate, wait for an ack, take a dead owner's port over | late, early, duplicate acks; superseded sockets; reconnect and replay | an ack confirms the navigation it names; one owner of the port |
| **Native session cache** (`mcp/native-session-cache.ts`, `server.ts` around it) | per project: prepared bundle, devices, readiness, the adb reverse flag | get-or-compute, mark, invalidate | entries dropped and replaced across an `await`; two platforms and two tools on one entry | one miss clears every older fact; the device driven is of the platform asked for; a session heals |
| **Native capture** (`capture-native.ts`, `snapshot-settle.ts`, `metro-heal.ts`) | settle counters, the heal journal | settle gate, Metro restart | timeouts against late paints; a restart budget | only a settled screen is evidence; one automatic restart |
| **MCP verify flow** (`mcp/server.ts`, `mcp/lean-verify.ts`, `plans.ts`, `inflight.ts`) | run directories, plan files, in-flight markers | plan, verify, submit_report | calls out of order or repeated | a report is submitted once, for the plan it verified |
| **Attestation and replay** (`temporal-binding.ts`, `replay-divergence.ts`) | – | classify a freeze against the work's commits | incomplete evidence | "unknown" never becomes "frozen before work" |
| **Maturity, hardening** (`maturity.ts`, `hardening.ts`) | cached maturity, candidate rows | assess, signal a drop, find candidates | window edges; when the window is read | certification needs the streak; a stable pass is proposed |
| **Baselines** (`verify-web/src/baselines.ts`, `render.ts`, `commands/accept.ts`) | one image per component and variant; the shots of each run | diff, confirm, promote, sweep | check and copy are steps apart, across web and native verifies, accepts and deletions | a regression keeps failing until people touch the baseline; nobody is told to delete one in use |
| **Web harness** (`verify-web/src/server.ts`, `prepare.ts`, `capture.ts`, `check-executor.ts`) | a Vite server, a browser | prepare, capture, check | I/O | – |
| **Everything else** (catalog and wrapper generation, reports and dashboard, exporters, bundler plugins, CLI and action) | files | generate | – | – |

### 1.2 How they interact

A *verify* (an MCP call, `verify --all`, or the watcher) takes the verify lock,
captures the spec's targets in the web harness or on a device, records a run,
indexes it for the spec, and folds it: the fold reads the frozen spec, the
previous run, git, `scorecard.json` and `signals.json`, and writes the last two.
An agent then asks for a rubric and screenshots and, later, records soft scores;
`verify --all --judge` asks a model instead.  A human parks or closes signals.
Meanwhile the developer edits, commits, throws edits away and re-freezes specs.
All of them meet in two files, and only verifies hold the lock.  Scores also go to
the record of the run they are of: `submit_report`, `record_soft_scores` and the
judge each read a `run-meta.json`, await a configuration or a model, and write
the whole of it back.

A native capture drives the companion app through the *bridge*: one process owns
the port, others delegate to it over HTTP; each capture climbs a ladder from a
warm re-target over the socket down to a cold boot with a deep link.  Before it, a call
asks which devices are up and whether the companion is current, prepares the app
and brings Metro up; what it learns is kept for the next call, until a
capture misses.

## 2. Modules

| Module | Models | Extends |
|---|---|---|
| `LockPromise` | what the lock promises, without files; its exclusion, proved | TLAPS |
| `VerifyLock` | `verify-lock.ts`, one action per system call; `Promise == INSTANCE LockPromise WITH ...` | |
| `MCVerifyLock` | its instances, with symmetry over processes | `VerifyLock` |
| `VerifyLockProofs` | its theorems, the refinement among them | `VerifyLock`, TLAPS |
| `Scorecard` | the pure half of a spec's standing: the reducer, the sign-off, soft scores, the queue's operations | |
| `Standing` | one frozen spec over time: developer, verifies, scorer, human | `Scorecard` |
| `MCStanding` | contracts to check it with | `Standing` |
| `StandingProofs` | its theorems | `Standing`, TLAPS |
| `RunRecords` | the records and the timeline of a spec's runs: verify step by step, three kinds of scorer, clean | |
| `MCRunRecords` | its instances, with symmetry over looks | `RunRecords` |
| `RunRecordsProofs` | its theorems | `RunRecords`, TLAPS |
| `NativeBridge` | a bridge that owns the port, its sockets, and the companion app | |
| `NativeCapture` | the cold-open ladder, composed with the bridge | `NativeBridge` |
| `MCNativeCapture` | its instances | `NativeCapture` |
| `NativeCaptureProofs` | theorems about both | `NativeCapture`, TLAPS |
| `BridgePort` | who owns the port: bind, probe, delegate, recover | |
| `MCBridgePort` | its instances | `BridgePort` |
| `BridgePortProofs` | its theorems | `BridgePort`, TLAPS |
| `NativeSession` | the warm session of the MCP server: the cache, the calls that share it, the devices and the host project | |
| `MCNativeSession` | what calls ask for | `NativeSession` |
| `NativeSessionProofs` | its theorems | `NativeSession`, TLAPS |
| `Baselines` | the baseline images, as verifies, accepts, deletions and sweeps read and write them | |
| `MCBaselines` | its instance, with symmetry over verifies | `Baselines` |
| `BaselinesProofs` | its theorems | `Baselines`, TLAPS |

### 2.1 VerifyLock

`file` is the lock path, `aside[p]` the path `<path>.stale.<pid>`; `pc[p]` is
where process `p` is, `seen[p]` the bytes it read, `waits[p]` the waits its
attempt made, `dead` the processes that are gone.

| Action | Code |
|---|---|
| `Start`, `TryCreate`, `TryCreateExists` | the loop of `acquireVerifyLock` and `tryCreate`: `linkSync` puts a complete record in place (`Linkable`), or `openSync('wx')` leaves an empty file first |
| `WriteContents` | the write on the O_EXCL path, through the descriptor, so to the inode wherever it was moved |
| `ReadHolder`, `JudgeStale`, `JudgeLive` | `stealIfStale` up to its early returns; an unparseable file counts as old only if it is the one that was read and its creator is dead (ten minutes cannot pass otherwise) |
| `RenameAside`, `InspectStolen`, `RestoreStolen` | the rename, the re-read of the stolen bytes, the rename back (which replaces what the path holds) |
| `Wait`, `Fail` | the deadline: at most `MaxRetries` waits per attempt, and it may pass at any `decide` |
| `CheckOurs`, `Unlink` | `release()` and the exit handler |
| `Kill` | `kill -9`, or the exit of an idle process, whose pid is as dead to whoever read its lock; at most `MaxCrashes` of them |

A process may acquire any number of times.  Process ids are not reused: a reused
pid makes a stale lock look live, which costs a wait and a wrong message, and is
left out.  The exit handler runs only in an exiting process and does what
`release` does.

`LockPromise` is the same seen from outside: `inside` is the section, `killed` the
dead, `sound` whether the next to enter is alone.  The mapping is `Holders`, `dead`
and `Owned` (the path names whoever is inside).  A step of the lock is an `Enter`, a
`Leave`, a `Die`, a `Disturb`, which needs a process that is gone, or a stutter.

### 2.2 Scorecard and Standing

`Scorecard` holds operators only.  A *clause* of the frozen contract has a tier,
a severity ("unset" is the schema's default and gates like "blocking"), whether it
has a soft threshold, and its text.  An *entry* adds status, numeric score
("none", "low", "high"), whether it is tainted or stale, and the commit it was
judged at.  Criteria of tier `property` are treated as `hard`, as the reducer does.

| Variable of `Standing` | Code |
|---|---|
| `head`, `touched`, `dirty` | git: HEAD, the commits that changed code the spec depends on, whether the working tree has such edits |
| `look`, `base` | what the working tree and HEAD render: the data of the render-identity hashes |
| `spec` | the frozen spec on disk; the version stands for its content hash |
| `run` | the latest run of the spec's run index |
| `card`, `queue` | the spec's entry of `scorecard.json`, its rows of `signals.json` |
| `shown` | what `score_soft_criteria` last returned |
| `folded`, `judged`, `acked` | ghosts: was the latest run folded; what was each score a judgment of; which criteria a human parked or closed a row of |

| Action | Code |
|---|---|
| `Edit`, `Commit`, `CommitOther`, `Discard` | the developer |
| `Refreeze` | `updateSpec` and `freezeSpec` in one step (a draft is never folded); the probation marker survives |
| `Verify` | record the run, `foldVerifyIntoScorecard`: observation, `codeChanged`, `renderUnchanged`, `reconcileScorecard`, probation, merge of the queue, suppression lifecycle |
| `VerifyUnfolded` | the process dies after indexing the run, or the fold returns `written: false` |
| `Sweep` | `verify --all` of local origin: its observation carries no taints and no answer about code or render, and the suppression lifecycle does not run |
| `SweepJudged` | `verify --all --judge`: fold, score, second fold of the judged status |
| `Show`, `Record` | `score_soft_criteria`, then `record_soft_scores`, which stamps the latest run's commit at the time it arrives |
| `Suppress`, `Resolve` | the `signals` tool and command |

What is abstracted.  A verify is one step because verifies hold the lock; the
scorer and the human do not, and are steps of their own.  The spec declares
target components and lives in a git checkout, so `codeChanged` is never unknown
for an MCP fold of an existing entry.  The taint of a run is one bit, of all its
criteria.  A scorer answers about criteria of the rubric it was shown.  The notices
that are born resolved (`recovered`, `spec-changed`) appear only through the rows
they close; the kinds other components raise (`judge-gap`, `perf-drift`,
`hardening-candidate`, `maturity-drop`, `replay-divergence`), ages and retention
are left out.  Sweeps of CI origin write neither file.

`Steps` chooses which of the optional behaviours happen.  It exists because the
code's promises do not survive all of them together: each run names the ones it
allows, and section 5 says what the others break.

### 2.3 RunRecords

| Variable | Code |
|---|---|
| `meta[r]` | `run-meta.json`: absent, started (`status: 'in-progress'`) or done; contract version, look, mechanical and soft verdict, `signedOff`.  `basis` is a ghost: the render and contract its score was given for |
| `marker`, `rows` | `.validity/inflight/<run>.json`; `runs.jsonl`, by run |
| `verify` | where the verify that holds the lock is, the previous run's record it loaded, the record it is about to fold |
| `card` | the spec's scorecard entry: the run it was folded from, its verdicts, its sign-off |
| `session[s]`, `judge` | a scoring call with the record (and card) it read |
| `carry[r]` | the score that the response of run `r` told the agent still holds |
| `proposal` | a hardening candidate is open |

| Action | Code |
|---|---|
| `Begin`, `WriteStart`, `End`, `Kill` | `handleVerify`: run id and marker, `writeStartRunMeta`, the `finally`, `kill -9` (the lock is then stolen) |
| `Abort` | early returns and throws of the mode handlers before a record; a spec of command checks alone returns after it is indexed and before the fold (`server.ts:2616`), which is a disjunct of `End` |
| `LoadPrevious` | `loadPreviousRun`, from what `readSpecRunHistory` says is last |
| `Render`, `Index` | `writeRunMeta` of `prepareVerification`, `indexRunForSpec` |
| `Fold` | the scorecard fold, carried scores (`partitionSoftCriteria`), `refreshHardeningCandidates` |
| `SubmitReads`, `SubmitWrites` | `handleSubmitReport` before and after it awaits the configuration; the spec is read later than the record, so at any version between; record, row, then `applySubmittedSoftScores` |
| `RecordScores`, `RecordStamps` | `handleRecordSoftScores`, and its stamp of the record it read before an await |
| `JudgeReads`, `JudgeWrites` | `judgeOneRun` before and after the model answers |
| `Refreeze`, `Clean` | a new version of the contract; `validity clean` |

One mechanical criterion gates; one soft criterion gates in the versions of
`SoftGates`.  What the fold decides about the old score is a choice (`stands`):
that decision is the subject of `Standing`.  A file write is one step, as
`writeFileAtomic` makes it; `record_soft_scores` writes its stamp with a plain
`writeFileSync`, whose torn states are left out.  A submit that changes nothing
writes nothing in the code and the same record and one more row here.  Two
submissions may be in progress as well as a judge and a verify.  The age limit of
`clean`, and `applyArtifactRetention`, which nothing in `src/` calls, are left out.

### 2.4 NativeBridge and NativeCapture

A socket is its number, a JS context of the companion a session, a version the
content hash of what Metro serves.  `host` is the bridge's memory (active socket,
hello, last drive, retained acks, connection epoch), `waiter` the one caller of
`waitForRendered`, `dev` the companion, `up` and `down` the frames on their way.

| Actions | Code |
|---|---|
| `DeviceConnects`, `SocketDrops`, `HostSeesClose`, `HostRestarts` | the connection handler with its replay of the last drive; a drop that each side notices in its own time (heartbeat); the process replaced |
| `HostReceives` | `hello` from the active socket only; `rendered` to its waiter, or retained |
| `Navigate`, `PushReload`, `WaitForRendered`, `StopWaiting` | the handle's `send`, `waitForRendered` and its timer |
| `DeviceReceives`, `DevicePaints`, `DeviceAcks`, `DeviceReloads`, `DeviceTapped`, `DeepLink` | `ValidityNativeRoot.tsx`: an ack is owed per applied drive, and sent two frames later if the target still is the current one, or if its second frame was scheduled before the target was left (`LateAcks`, by a drive, a deep link or a tap); a replay is ignored by a session that was given a target |
| `CodeEdited` | the developer |

`NativeCapture` adds `cap`, the place of one open on the ladder of
`coldOpenLadder`; a new open begins when the last is over.

| Rungs | Code |
|---|---|
| `Begin`, `Guard` | the hello wait and `bridgeReportsStaleBundle` |
| `Reload`, `Redial`, `Kill` | `reloadViaBridge`; terminate and cold start when it fails |
| `Warm`, `Bridge`, `Boot`, `Dial`, `Drive`, `DriveAcked`, `Paint`, `LookAgain` | `openViaBridge`, `navigateForResult`, `paintConfirmed` |
| `OpenTarget`, `Mark`, `Cold`, `OpenTargetCold`, `Dismiss`, `ColdMark` | the deep link, then the cold boot with it |
| `Adopt`, `Adopted` | `adoptDeviceAckForMarker` |

Every await is a step boundary and every wait may end by its timer.  A caller may pass
`skipPreload` on any open that does not force a reload (`Warm`); whether a device with an app that is
not running shows the launcher is open (`Mark`).  Left out:
pixels and settle thresholds, gestures, pushed data, several waiters at once,
platforms (which `BridgePort` has).

### 2.5 BridgePort

`port` is who listens, `mode[h]` what a handle thinks it is, `call[c]` a navigate
in progress.  A bind that fails for another reason than a taken port makes a handle `failed`, for
good; one that fails so in `tryRecoverLocal` is taken to be a taken port.

| Actions | Code |
|---|---|
| `Start`, `Bind`, `Probe`, `Close`, `Crash` | `startNativeBridge`: listen, or ask the holder for its status; `close`; a kill |
| `Navigate`, `Route`, `Hop`, `Served`, `Waited` | `navigateOutcome` by mode: over its own socket, or `POST /navigate` to the owner |
| `Recover`, `Listen` | `tryRecoverLocal`: one attempt per handle at a time |
| `DeviceAttaches`, `DeviceGreets`, `DeviceLeaves`, `StrangerLeaves` | companions of either platform; a process that is no bridge |

### 2.6 NativeSession

`cache` is the project's entry in the map: the source signature of what is prepared,
the devices and the platform they were listed for, the checklist's key and whether it says ready, and the
flag.  `call[c]` is a call between two awaits.  The environment is `booted`, `forwarded`
(adb reverse, of Metro's port and of the bridge's), `build` and `built` (the binary the host calls for, and the one
installed for each platform), `sources`.

| Actions | Code |
|---|---|
| `Begin` | the start of `setupNativeSession`, `reload` included; a verify holds the verify lock |
| `Probe`, `List` | the build hash; `bootedDevices`, from the entry or across its await |
| `PinDevice`, `Check` | the pin, or the refusal of several devices; `readiness`, from the entry or across its await, which forwards Metro's port on the way |
| `Gate` | the checklist as the answer, or `prepared` |
| `Metro` | `ensureCompanionMetro`, and its two refusals |
| `Open`, `Confirm`, `Miss` | the adb reverse of a capture, which may fail unnoticed, and what is done of its outcome: mark, go on with a verify's next target, or drop the entry |
| `Boot`, `ShutDown`, `Restart`, `BumpDeps`, `AddSource`, `Rebuild` | the devices and the developer |

`linked` says whether the entry a call holds is still the one in the map: a write to
another reaches nobody.  `stale` and `reversed` (the pins whose forwards a capture asserted, whether or not adb made them) are history.  The checklist is three of its rows
(a device up, the pinned one among them, the installed build current) and a fault for any other; Metro's content marker, name resolution and what is between two awaits of a capture
are left out (the last is `NativeCapture`).

### 2.7 Baselines

`disk[k]` is the file of a key: none, partial (created, no image yet), mixed (two
writers), or whole with the look it shows.  `verifier[v]` is a verify of one spec (MCP) or a
sweep of all; `phase` is where it is in the render at hand.  `filed` is the
newest finished run, which people may accept, as they may one still going on; `look` is
what the code renders.  `failed` and some fields (`from`, `sound`, `covered`, `threw`,
`had`) are history.

| Actions | Code |
|---|---|
| `Begin`, `Prepare`, `PrepareFails`, `EndSpec` | `verifyOneSpec` and its native twin in the loops of `verify-all.ts`, or an MCP verify: run directory, renders, record |
| `Shoot` | a capture and how it ends; the web one may leave the shot out |
| `Diff` | `diffAgainstBaseline`, `evaluateScreenshotExpects` and the refold (`capture.ts:583`; natively `server.ts:4758`) |
| `Record` | the second comparison of a web render (`render.ts:563`) and `renderIsBaselineWorthy` |
| `CheckExists`, `CopyBegins`, `CopyEnds` | `confirmBaseline`: the fast path, the exclusive create, the bytes |
| `EndSweep`, `Exit` | `sweepBaselineLifecycle`, its plan, its report |
| `Accept`, `AcceptBegins`, `AcceptEnds`, `Delete` | people: `validity accept`, file by file, and a deletion |
| `Edit`, `Respecify`, `Kill`, `KillAccept` | the developer, and `kill -9` |

A look is a number, and two looks differ by their distance; `Confidence` gives how much
two keys resemble each other.  Left out: the padding of shots of two sizes, what cuts the list of
renders of a spec (budgets, or a target that is not found), the dependency
pre-scan that makes a spec's error of renders which ran, and the
pre-interaction shots.  Every spec has one screenshot check, in the criterion
whose other checks `Outcomes` summarises.

## 3. What the runs check

| Run | Instance | Shows |
|---|---|---|
| `lock_held` | 3 processes, O_EXCL, 2 kills, 1 wait, fair | `KeepsPromise`: the lock implements `LockPromise`.  `ExclusiveUntilKill`: before a process is gone, no contention, retry or failed attempt lets two in.  `OnlyThievesBreakOwnership`: afterwards, the path stops naming a process inside only by a step of a thief that moves, or puts back, a live lock.  `AttemptEnds`, `StaleLockRemoved` |
| `lock_two_holders` | 4 processes, 1 kill | *violation*: two live processes inside |
| `standing_core` | bulk-created specs of one criterion of either tier, mechanical or soft with a threshold; two looks; edits verified before they are committed; parked and closed rows | a fresh pass was given to the current render; a green card is untainted and above its threshold; what fails has a row; a stale score is queued, parked or was closed by a human; no open row is about what is no longer so |
| `standing_refrozen` | re-freezes that drop and add a mechanical criterion and make the soft one advisory or blocking; lost folds; sweeps and the judge | failures stay queued; green is proven by the run's own contract; the sign-off follows the new weights |
| `records_ledger` | 2 runs, 2 versions (the soft criterion stops gating), 2 looks, one scoring session beside the judge and the verify, 3 calls, 1 kill, clean keeps 1 | a score is of its run's own render; a finished record stands; a sign-off is earned; only the judge takes the card back to an older run; clean keeps the newest run |
| `records_hardening` | 3 runs of one look, candidates due after 2, no kills | *violation* |
| `native_open` | 2 tokens, 2 sockets, 2 sessions, 2 versions, taps, an unsteady wire | a hello is the active socket's; a reloaded session is re-targeted; nothing yanks the device back; on a steady wire a confirmed render is of fresh code and its evidence of that render; a measurement that arrived is recorded |
| `native_relinked` | one token, three sockets and sessions, nothing going wrong by itself | *violation*: the second delivery's picture is recorded with the first one's measurement |
| `port_owners` | an MCP server with two callers and a command, two platforms, 1 kill, fair | `LocalOwnsPort`; every navigate ends; an orphaned delegate does not leave the port free |
| `session_warm` | 2 calls at once: native verifies of one or two targets, reloading browses, browses that name an emulator for iOS; 2 emulators, 1 change of the environment, 1 fault, fair | `FactsPostdateMiss`; `PinnedOnItsPlatform`; `SkippedForwardWasMade`; `SessionHeals`: once every request can be met for good and calls reach a capture or reload, calls are confirmed for ever |
| `session_stranded` | one caller, an emulator that goes down and comes up, no faults, fair | *violation* |
| `baselines_shared` | 2 verifies or sweeps at once of 3 projects (two web specs of a component, its native spec, a component that replaces it), 3 keys, 2 looks; 1 edit or rename, 1 accept or deletion, 1 kill | `GateDoesNotHeal`, `RenderKeepsBaseline`, `NoFalseGreen`; `PrunesUncovered`, `PlanIsMatching` of what a sweep reports |

Bounds.  Three processes are a dead holder, a thief and an owner whose lock is moved; a
fourth, which enters meanwhile, is needed for two holders and is there in
`lock_two_holders`, as is `link(2)`, and the theorems of section 4 have any number of either.  Two kills let a second holder die
while the first one's lock is being stolen; one wait makes every branch of the deadline
happen and a second attempt start inside the first.  In `Standing`, one commit after
the first separates "before", "at" and "after" a judgment; two looks separate the same from another
render; two versions let a criterion leave or arrive.  `MaxStreak = 2` is one more than
`MaxCommits`, so no clean history is cut short unless the streak over-counts.
Edits are not bounded: they are values, not
counters.  In `RunRecords`, two runs are a previous and a current one, either of which may be
dead, scored late or removed; three calls are a score of each run and one more that
overlaps; the theorems of section 4 do without these bounds.  In `NativeCapture`
two sessions, two sockets and two versions are one reload, one reconnection and
one edit; two tokens are the deep link's and the drive's of one open, or the deep
links of two.  In `BridgePort` the numbers of handles and callers are those of the
code's own scenario: a server whose port dies, two of its calls racing to
take it over, and a command that may be faster.  In `NativeSession` two calls are one
that waits for a probe and one that drops or replaces the entry meanwhile; one
change and one fault make every cached fact wrong in turn.  In `Baselines` two verifies are
one that waits between its check and its copy and one that establishes a
baseline and fails against it; the two specs of one component let the first of them pass afterwards
on what it copied; one edit gives it the other look.  Two edits, or three verifies, take more than the
minutes a run may have, and the theorems do without the bounds.

Every property of a passing run has a mutant of the code that breaks it
(`PROJECT.json`, "mutants"): a carry that resets the stale flag, a taint that is
never refreshed, a recovery that closes one kind of row only, and so on; their
mutated forms stand beside the definitions they replace.  The type invariants of
`VerifyLock`, `Standing`, `RunRecords` and `Baselines` are in no run: they are proved
(section 4), and every other proof of those modules rests on them.

`MeasuredIsRecorded` depends on a limit: the file of unclaimed acks drops its oldest beyond 16
(`native-bridge.ts:215`).  `native_open` gives it as many places as there are tokens, and section 4
proves that this, or any other reason for it not to overflow, is enough; with one place, TLC loses a
measurement (section 5).

Fairness.  `acquireVerifyLock` is a synchronous loop: a process that has entered it and is not
killed keeps running, so each process's acquiring steps are weakly fair, as a whole.
Nothing is assumed of starting, of releasing (a verify may take for ever), or of
kills.  In `BridgePort`, each handle's start and each call's steps are weakly fair: they are
callbacks and timers of a live process.  Nothing is assumed of devices, of closing,
or of a stranger that holds the port.  In `NativeSession` a call's awaits return, each
with a timeout of its own, and an agent that is told to fix something and
re-run calls again; nothing is assumed of the devices or the developer, so
both liveness properties suppose that they leave everything ready in the end.  `Standing`, `RunRecords`, `NativeCapture` and `Baselines` have no
liveness property: neither the developer nor an agent owes the program a step.

`CHECK_DEADLOCK FALSE` stands where the system may stop: when the bounds are used up and
nobody owes a step.

## 4. What is proved

TLAPS proves, for every value of the constants that satisfies the named assumptions:

| Theorem | Statement | Argument |
|---|---|---|
| `VerifyLockProofs!TypeCorrect` | `Spec => []TypeOK` | inductive as it stands |
| `VerifyLockProofs!OnlyThieves` | `Spec => [][Owned => Owned' \/ ThiefMovesLiveLock]_vars` | one case per action; `TypeOK` is all it needs |
| `VerifyLockProofs!ExclusionUntilKill` | `Spec => []ExclusiveUntilKill` | while nobody is dead no process gets past `judge` to `rename`, so there is no thief and the path names every holder; a path names one process |
| `VerifyLockProofs!LockKeepsPromise` | `Spec => KeepsPromise` | each step of the lock is a step of `LockPromise` or a stutter: `TryCreate` enters an empty section or one that is already unsound, releases and kills leave, and a step that only changes whether the path names the holders follows a death, because until then there is no thief |
| `LockPromise!PromiseExcludes` | `Spec => [](Exclusive /\ SoundUntilKill)` of the abstract section | inductive as it stands |
| `StandingProofs!TypeCorrect` | `Spec => []TypeOK` | lemmas on each operator of `Scorecard`: a fold of a typed card and observation, a score, the queue's operations |
| `StandingProofs!GreenIsProven` | `Spec => []MechanicalGreenIsProven` | see below |
| `StandingProofs!GreenIsWeighed` | `Spec => []GreenHonoursSeverity` without re-freezes | the card keeps the frozen contract's severities (`FollowsContract`): a carry falls back on the same word, a score does not touch it |
| `RunRecordsProofs!TypeCorrect`, `EvidenceIsOwn` | `Spec => []TypeOK`, `Spec => []CarryIsEvidence` | see below |
| `RunRecordsProofs!CompletedRunStands`, `SignOffEarned`, `OnlyTheJudge`, `NewestKept` | `CompletedStands`, `SignOffIsEarned`, `OnlyTheJudgeForgets`, `NewestIsKept` | see below |
| `NativeSessionProofs!TypeCorrect`, `FactsFollowMiss` | `Spec => []TypeOK`, `Spec => []FactsPostdateMiss` | see below |
| `NativeSessionProofs!DrivesItsPlatform` | `Spec => []PinnedOnItsPlatform` | a checklist that says ready is of a device of the platform in its key (`KeyedReady`), and a call is ready only at the gate (`Onward`) |
| `NativeSessionProofs!SkipsOnlyMade` | `Spec => []SkippedForwardWasMade` | the flag names an Android device only if some capture asserted its forwards (`ForwardInv`): one that asserted nothing was told to by a flag that named its pin already |
| `BaselinesProofs!GateStaysRed` | `Spec => GateDoesNotHeal` | see below |
| `BaselinesProofs!TypeCorrect`, `NoFalseGreens`, `PlansMatch`, `PrunesOnlyUncovered`, `BaselinesAreKept` | `TypeOK`, `NoFalseGreen`, `PlanIsMatching`, `PrunesUncovered`, `RenderKeepsBaseline` | see below |
| `StandingProofs!FailuresAreQueued` | `Spec => []FailingIsQueued` if no re-freeze changes the tier of a criterion (`SameTiers`) | see below |
| `StandingProofs!StaleScoresAreQueued` | `Spec => []StaleIsQueued` | see below |
| `StandingProofs!OpenRowsAreLive` | `Spec => []NoZombieSignals` if re-freezes keep the criteria and their tiers (`SameCriteria`) | see below |
| `StandingProofs!GreenIsAboveThreshold` | `Spec => []GreenMeetsThreshold` without re-freezes and the judge | see below |
| `StandingProofs!FreshPassesSawTheRender` | `Spec => []FreshPassSawTheRender` without discards, lost folds, overtaken scores, sweeps and the judge | see below |
| `BridgePortProofs!TypeCorrect`, `OneOwner` | `Spec => []TypeOK`, `Spec => []LocalOwnsPort` | inductive with the types (`OwnerStep`): a handle becomes local in the very step that takes a free port, and gives both up at once |
| `NativeCaptureProofs!TypeCorrect`, `HelloIsCurrent`, `ReloadsAreRetargeted`, `NoYank` | `CaptureTypeOK`, `HelloIsOfTheActiveSocket`, `ReloadedSessionIsRetargeted`, `NeverYankedBack` | see below |
| `NativeCaptureProofs!SteadyOpensAreFresh`, `SteadyEvidence` | `Spec => []FreshOnASteadyWire`, `Spec => []EvidenceOnASteadyWire` | see below |
| `NativeCaptureProofs!MeasurementsAreRecorded` | `Spec /\ [][~Overflows]_vars => []MeasuredIsRecorded` | see below |
| `NativeCaptureProofs!RoomForAll` | `Spec => []MeasuredIsRecorded` if `MaxTokens <= RetainedAckLimit` | a token has one place in the file, so it never overflows |
| `StandingProofs!GreenIsClean` | `Spec => []GreenIsUntainted` without re-freezes and sweeps | every entry of a folded run has the taint of that run (`CarriesTaint`), the carried ones included |

`MechanicalGreenIsProven` is not inductive: it says nothing of a card that is not green.
The invariant is that, when the latest run has been folded, the card *mirrors* it: each
mechanical criterion of the run's contract is on the card, as mechanical, with the
run's verdict, and gates if the contract says so.  A fold establishes it, whatever
the card was before (`FoldMirrors`: a mechanical verdict is never "unscored",
so Rule 1 cannot carry an old entry over it; what is carried besides is outside the
contract).  A score keeps it (`ScoreMirrors`: only soft entries are scored).  An edit, a
commit, a re-freeze and a human at the queue do not touch the card or the run.

In `RunRecords` every writer holds a *copy*: of a record, of the card, of a score to be carried.
None of the properties is inductive, because each says nothing of the
copies that will be written back.  The invariant (`IInv`) is that a copy is of a run
that may have one (`Placed`: a run that is not yet recorded is not indexed, not
folded and not held by the judge; one that is not over is held by no submission),
that it still agrees with the record it will replace in all but the score
(`Agree`), and that the score in it is of its own render (`Evidence`).  Records
may be removed at any moment, so each part speaks of runs that have one.
`CompletedRunStands`, `SignOffEarned` and `OnlyTheJudge` follow from it one action at a
time.  `NewestKept` needs no invariant beyond the types: if nothing was indexed
late, no run of the timeline comes after the newest one, whatever `Keep` is.

In `NativeSession` types alone are not inductive: a write to an entry that is gone would leave half an entry
in the map.  The invariant (`FactsInv`) adds that a call holds the map's entry only
while there is one, and that a call whose entry was dropped since it asked no longer
holds it (`Waits`): the drop and the replacement unlink every call at once.

In `Baselines` most of what matters is a fact about one verify's record (`Sane`): while a
shot is being compared or copied it is in the run directory, a web render past `Record` has
earned its copy, and a sweep without an error accounts for each key it covered by a
render, one that threw, or one still to do; so a plan's orphans are keys that nothing rendered.
With it goes that web images on disk are sound.  A plan matches one to one
because a strict best is unique (`TopUnique`) and renames are mutual.
`GateDoesNotHeal` needs `StillFails`: no look fails against a file that is gone or being
written, and each that failed against an image on disk differs from it.  The exclusive create is what
keeps it: a copy starts where nothing is, so nothing has failed there.

The queue's properties speak of rows that a transition opened some folds ago.  `FailuresAreQueued`
strengthens its own statement: a mechanical criterion that fails, or is unverifiable, on the card
has a row of one of the task kinds in the queue or was parked or closed by a person since it passed.
A fold keeps it because a failure either was one before, and then only a pass closes its rows
(`ClosesOnlyPassing`), or is new, and then opens one (`FailureOpens`).  That last step is false for a
criterion that was soft: an entry that failed as soft asks for no task, and when a
re-freeze makes it mechanical the fold sees no transition.  The theorem supposes `SameTiers` and
section 5 has the other case.  `StaleScoresAreQueued` has no hypothesis: a flag is set only by a fold that opens its
row, and whatever closes that row clears the flag.

`OpenRowsAreLive` is the converse: what is open is still so.  Its invariant (`LiveInv`) says it of
parked rows too, because they come back without being looked at, and adds what a fold must know of the card
it starts from (`Covers`): it has the criteria of the contract with their tiers, and only a judgment is stale.
Per row, either the fold closes it or what it said of the old entry is true of the new one (`RowStaysLive`,
`RowOpensLive`); a score does the same for its one criterion (`ScoreLive`).  The row of a coverage drop needs arithmetic:
coverage is at most 100 and is unmeasured exactly when nothing is mechanical (`CoverageRange`), so while it does not rise it stays
below full.  The proof needs a re-freeze to keep its criteria; section 5 has what happens otherwise.

`GreenIsAboveThreshold` rests on `KeepsScores`: the number on the card is the number of the last
judgment, and the threshold is the contract's; a carry copies both, a score writes both, and only the
judge's second fold forgets the number.  `FreshPassesSawTheRender` needs to know what the fold's question about code is worth (`RenderInv`): unless the
working tree is dirty or code was committed since the latest run, the tree still renders what that run saw; no entry is stamped later than
that run; the scorer looks at it.  So a commit that a criterion's stamp precedes is seen by the
fold, although the question is asked of one commit for all.  Each excluded step breaks one of these parts.

On the bridge, each step of the ladder and of the world is first shown to be one of a few steps of the bridge (`BridgeSteps`: a
call of the host, something done to the device, a step of the wire, or nothing), so that what concerns the wire alone is proved once per wire
step.  Types need that only a running bundle is connected and owes acks
(`TypeInv`).  `HelloIsCurrent` adds that a hello under way on the open socket
is of the running bundle (`HelloInv`); `ReloadsAreRetargeted`, that a session without a target on the active
socket has a navigation under way (`RetargetInv`); `NoYank`, that no token on the way, applied or owed is newer than the latest minted, that
the deep link's is in no frame, and that a frame which is no replay is new to the session and to the frames
before it (`TokenInv`, `FramesAreNew`).

`SteadyOpensAreFresh` follows the ladder (`LadderInv`, `FreshInv`): while the wire is steady and the guard has known the
companion, the running bundle is at least as new as the code the open began with, or a
reload, a kill or a cold boot that makes it so is still to come, and then no rung
that confirms can be reached before it.  `SteadyEvidence` follows the acks, wherever they are
(`Acks`: in the device, under way, on file, with who waits): before its deep link is sent, nothing owes, shows or acks the open's link
token (`Untouched`); a waiter's ack is of the token it waits for; and on a steady wire every ack of a token the
ladder may still confirm is of the running bundle (`EvidenceInv`).  A link sent again breaks the last part, which is why the
property excepts it.  `MeasurementsAreRecorded` follows one ack: once
heard it is on file until its claim, because nobody else waits under its token (`RecordInv`);
the claim finds it, and if it comes during the claim it goes to the claimant.

The hypotheses of these theorems are behaviours (`Steps`, `Overflows`), bounds or a shape of the
contracts, each satisfied by the run that checks the property, and each is needed: with
the steps that it excludes, TLC violates the same property (section 5).

Out of the prover's reach and left to TLC: liveness (`AttemptEnds`,
`StaleLockRemoved`, `CallEnds`, `OrphanIsAdopted`, `SessionHeals`).

## 5. Known divergences

Listed runs (`PROJECT.json`, "findings", quotes the lines):

| Run | What happens |
|---|---|
| `lock_two_holders` | a thief delayed before its rename moves a fresh lock aside, and a third process creates another before it is put back |
| `records_hardening` | the hardening candidates are looked for when the newest run has no soft verdict yet, so there never is one |
| `native_relinked` | a deep link is acked but its marker is not seen in time; the cold rung sends the same token again, and on its marker the claim is answered with the first ack, measured in the JS context before the reload |
| `session_stranded` | a checklist that is not ready is cached like any other device fact; the gate answers with it before anything can miss, so booting the device, as it asks, and re-running changes nothing until a call passes `reload` |

Stated in the modules and violated under other constants; TLC reproduces each in
seconds with a configuration that differs from the named run as given:

| Property | Constants | What happens |
|---|---|---|
| `NoPhantomLock` | `lock_two_holders`, 3 processes | a released owner's lock is put back by the thief: "a verify is already running" names a process that is idle |
| `TornLockKept` | the same, `Linkable = FALSE` | a live writer's still empty file is moved by a thief and thrown away as unparseable |
| `ReleaseOwnLock` | `lock_two_holders` | the owner checks the path, its lock is replaced, and it unlinks another's |
| `GreenMeetsThreshold` | `standing_core`, `Steps = {"judge"}` | `scorecard.ts:1145`: a pass below the threshold "does NOT sign off"; `--judge` keeps only the status of the score (`verify-all.ts:933`), its second fold (`:1826`) rebuilds the entry without the number, and the spec signs off |
| `FreshPassSawTheRender` | `standing_core`, `Steps = {"overtaken"}` | the score is stamped with a run the scorer did not see |
| | `Steps = {"uncommitted", "unfolded"}` | the render is compared with the previous run, whose fold was lost |
| | `Steps = {"uncommitted", "discard"}` | edits were verified and scored, then thrown away: no commit and no edit tells the fold |
| | `Steps = {"uncommitted", "sweep"}` | a sweep compares commits only |
| | two soft criteria, `Steps = {"uncommitted", "judge"}` | so does the judge's, for the criterion it does not judge |
| `FailingIsQueued` | contracts `{h}` soft and `{h}` hard, `MaxVersions = 2`, `Steps = {"refreeze"}` | a soft criterion that fails, or was never scored, is made mechanical under the same id (`hardening.ts:112-145` does): the fold sees a failure where it saw no pass, so no transition (`scorecard.ts:981-1044`), and no row is opened |
| `MeasuredIsRecorded` | `native_open`, `RetainedAckLimit = 1` | another open's ack pushes the claimed one out between its arrival and the claim; the code keeps 16, "so a session of unread acks can't grow without limit" (`native-bridge.ts:1483-1484`) |
| `NoZombieSignals` | contracts `{h, s}` and `{s}`, `Steps = {"refreeze", ...}` | with the last mechanical criterion the coverage is gone, and no later fold of that contract finds that it rose, so the coverage-drop row stays open; `scorecard.ts:1601` passes it over because it "ha[s] live close paths".  Likewise a needs-scoring row of a criterion made mechanical, which readers do filter out |
| `DepartedSignalsClosed` | contracts `{h, s}` and `{s}`, `Steps = {"refreeze", ...}` | a departed criterion's rows are closed by its last status; rows of other kinds stay open |
| `StreakCountsCommits` | `standing_core`, `MaxStreak = 3` | a fold never moves the commit a soft score rests on, so every verify at HEAD counts as a changed one and the clean streak grows without commits |
| `GreenIsUntainted` | `standing_core`, `Steps = {"sweep"}` | a sweep drops the taints of its verdicts: a soft pass on a degraded wrapper signs off |
| `FreshPassAnswersContract` | reworded contracts, `"refreeze"` | a soft pass is carried by id over a re-freeze that rewords the criterion |
| `GreenHonoursSeverity` | a soft criterion first advisory, then with its severity left out, `"refreeze"` | the carried entry keeps the old "advisory" |
| `LastRunExists` | `records_ledger` | the last entry of the timeline is an old run scored late, or an incomplete one; clean goes by first appearance and removes it, although `runs.ts:216-218` says a "last run" reference cannot dangle |
| `CrashIsSeen` | `records_ledger` | `kill -9` leaves the in-flight marker, and a marked run is not listed as incomplete, although `server.ts:3121-3127` wants the crash visible |
| `SignedRunIsProven` | `records_ledger` | the judge copies the sign-off of the card, folded from another run, into the record it scored (`judge.ts:408`) |
| `StampKeepsScores` | `records_ledger` | the provenance stamp of `record_soft_scores` puts back a record read before an await, and the score submitted meanwhile is gone (`scorecard-tools.ts:440-456`) |
| `ConfirmedOnFreshBundle` | `native_open` with `Taps = FALSE`, `Unsteady = FALSE` | `capture-native.ts:1056-1057`: "the session isn't stale (the guard above would have upgraded it)"; the guard reads the hello once (`:924`), and with a later one, or a socket that attaches later, a companion on the old bundle is re-targeted warm and confirmed |
| `AckedByItsPlatform` | `port_owners` | a call of a handle bound to one platform is acked by a companion of the other that attached meanwhile |
| `RetryWorksOnceFreed` | `port_owners` | a handle that found a stranger on the port keeps that verdict: the retry that its message asks for (`native-bridge.ts:1543-1549`) is refused |
| `PruneIsSafe` | `baselines_shared` | `verify-all.ts:1639-1641` keeps the sweep from runs "where a spec failed to render"; a web render that threw is an error of the render, not of the spec, so the sweep reports, and calls its baseline "safe to delete" |
| `RenameIsOffered` | `baselines_shared` | `baselines.ts:279-280` offers a migration "instead of silently re-establishing"; the renders have established the new key's baseline before the sweep looks for keys without one |
| `NativeBaselineIsSound` | `baselines_shared` | `server.ts:4740`: native has "a STRICTER gate than web"; it confirms a baseline of a render whose checks fail, or that is blank, which web refuses (`render.ts:162`) |
| `ComparedWithItsKind` | `baselines_shared` | a component's web, iOS and Android renders have one key (`run.ts:864-869`) and share one baseline |
| `RecordAgrees` | `baselines_shared` | `capture.ts:583` judges and `render.ts:563` compares again for the record: an accept in between, and the record shows no mismatch for a check that failed |
| `NoTornBaseline` | `baselines_shared` | `baselines.ts:201-203`: "a missing baseline just means no diff next time"; a copy killed midway leaves a file that is there and unreadable, so the key is unverifiable until people delete it |
| `NoRegressionOnProbation` | `Bulk = TRUE` | a criterion first seen failing opens a regression although the spec is on probation |

Some comments are narrower than what happens, without a property about them: the replayed
drive's ack is "harmlessly ignored" (`native-bridge.ts:1396`) only while its token has a
resolved waiter, and is retained otherwise; and the ack adopted for a render marker may
be of an earlier session that was given the same token.  `bootedDevices` is said to follow `prepared`
(`native-session-cache.ts:188`), which the readiness-first order has reversed: the first call of a session always
probes uncached.  `needsAdbReverse` is said to be true until the forward is asserted (`:235`), but
with no pinned device an entry's unset flag already equals the device, and nothing is asserted.
`accept` promotes every `.png` of a run, pre-interaction shots too (`accept.ts:52-62`), and later sweeps
call those orphans.  A native run files shots under keys made unique (`server.ts:4680`) and
confirms baselines under the plain ones (`:4782`), so what `accept` copies need not be what is compared.

## 6. Not modelled, and the plan

The components of section 1 without a module, and why, are listed in
`PROJECT.json`.  In order of what they would explain:

1. `StandingWriters`: the scorecard and the queue as two files with load and save as
   separate steps (`RunRecords` has the overlap of their writers, `Standing` what
   they compute; neither has a death between the two saves).
2. `SpecStore`: drafts, versions and concurrent read-modify-writes.
3. `TemporalBinding`, `NetworkMatch`, `SettleGate`: pure decision tables and small
   machines, checked against reference definitions.
4. Proofs: an abstract specification of the bridge that `NativeBridge` implements.

Wrapper generation, rendering of reports, exporters, bundler plugins and the
command line transform text and start programs; a model would repeat them.
