---------------------------- MODULE NativeSession ----------------------------
(***************************************************************************)
(* The warm native session of the MCP server.  A native_browse or a native *)
(* verify pins a device, asks the readiness checklist, prepares the         *)
(* companion app, brings Metro up and captures; the booted devices, the     *)
(* checklist, the prepared app and the "adb reverse is done" flag are kept  *)
(* in one cache entry per project for the next call.  A capture that is not *)
(* clean, and an explicit reload, drop the entry.                           *)
(*                                                                         *)
(* Calls overlap at every await.  A probe holds the entry it found before   *)
(* it awaited and writes to that object, which may no longer be the one in  *)
(* the map: then the write reaches nobody, as no call reads an entry it     *)
(* does not take from the map.                                              *)
(***************************************************************************)
EXTENDS Naturals, FiniteSets

CONSTANTS
    Callers,     \* tool calls that may be in flight at once
    Devices,     \* simulators and emulators
    Runs,        \* Runs[d]: the platform d runs
    Requests,    \* what a call may ask for
    NoDevice,    \* no device named, pinned or flagged
    MaxChanges,  \* bound: changes of the host project and of the devices
    MaxFaults    \* bound: probes, Metro starts and captures that fail by themselves

Platform == {"ios", "android"}
Port == {"metro", "bridge"}
Pin == Devices \cup {NoDevice}
Request == [tool : {"browse", "verify"}, platform : Platform, device : Pin, reload : BOOLEAN]

ASSUME SessionAssumption ==
    /\ Runs \in [Devices -> Platform]
    /\ NoDevice \notin Devices
    /\ Requests \subseteq Request /\ Requests # {}
    /\ MaxChanges \in Nat /\ MaxFaults \in Nat

VARIABLES
    booted,     \* the devices that are up
    forwarded,  \* forwarded[o]: those with the port o forwarded to the host
    build,      \* the binary the host project calls for: companionBuildIdentity
    built,      \* built[p]: the binary last built and installed for p, 0 if none
    sources,    \* the version of the discovered source set
    changes, faults,
    cache,      \* the project's entry; its sig is NoSig when there is none
    call,       \* call[c] of each caller
    reversed    \* history: the pins whose forwards some capture asserted

host == <<booted, forwarded, build, built, sources>>
vars == <<host, changes, faults, cache, call, reversed>>

NoSig == <<0, "none">>
NoKey == <<"none", NoDevice, 0>>
Sig == (Nat \X Platform) \cup {NoSig}
Key == (Platform \X Pin \X Nat) \cup {NoKey}

\* ProjectEntry.  devices counts when devicesOf is a platform, ready when key
\* is a key; stale is history: a fact in it was probed for before the last drop.
Entry == [sig : Sig, devicesOf : Platform \cup {"none"}, devices : SUBSET Devices,
          key : Key, ready : BOOLEAN, reversed : Pin, stale : BOOLEAN]
NoEntry == [sig |-> NoSig, devicesOf |-> "none", devices |-> {}, key |-> NoKey,
            ready |-> FALSE, reversed |-> NoDevice, stale |-> FALSE]
Present == cache.sig # NoSig

Place == {"idle", "probe", "list", "pin", "check", "gate", "metro", "open", "capture"}
Outcome == {"none", "refused", "missed", "confirmed"}
Call == [at : Place, req : Request, hash : Nat, devices : SUBSET Devices, pin : Pin,
         ready : BOOLEAN,
         linked : BOOLEAN,  \* the entry held across the await is still the map's
         stale : BOOLEAN,   \* history: the entry was dropped since the probe began
         skips : BOOLEAN,   \* adb reverse is not asserted: androidReverseAsserted
         more : BOOLEAN,    \* a verify has another target to render
         any : BOOLEAN,     \* anyConfirmed
         outcome : Outcome]

TypeOK ==
    /\ booted \subseteq Devices /\ reversed \subseteq Pin
    /\ forwarded \in [Port -> SUBSET booted]
    /\ build \in Nat \ {0} /\ sources \in Nat \ {0}
    /\ built \in [Platform -> Nat]
    /\ changes \in 0 .. MaxChanges /\ faults \in 0 .. MaxFaults
    /\ cache \in Entry /\ (Present \/ cache = NoEntry)
    /\ call \in [Callers -> Call]

Fresh(q, more) ==
    [at |-> "probe", req |-> q, hash |-> 0, devices |-> {}, pin |-> NoDevice,
     ready |-> FALSE, linked |-> FALSE, stale |-> FALSE, skips |-> FALSE,
     more |-> more, any |-> FALSE, outcome |-> "none"]

\* Of a caller between calls only the last outcome is kept.
Idle(outcome) == [Fresh(CHOOSE q \in Requests : TRUE, FALSE) EXCEPT !.at = "idle",
                                                                   !.outcome = outcome]

Init ==
    /\ booted \in SUBSET Devices /\ reversed = {}
    /\ forwarded = [o \in Port |-> {}]
    /\ build = 1 /\ sources = 1
    /\ \E b \in {0, 1} : built = [p \in Platform |-> b]
    /\ changes = 0 /\ faults = 0
    /\ cache = NoEntry
    /\ call = [c \in Callers |-> Idle("none")]

-----------------------------------------------------------------------------
\* The host project and the devices.

Change ==
    /\ changes < MaxChanges /\ changes' = changes + 1
    /\ UNCHANGED <<faults, cache, call, reversed>>

Boot(d) ==
    /\ Change
    /\ d \notin booted /\ booted' = booted \cup {d}
    /\ UNCHANGED <<forwarded, build, built, sources>>

\* A forward does not survive its device.
Unforwarded(d) == [o \in Port |-> forwarded[o] \ {d}]

ShutDown(d) ==
    /\ Change
    /\ d \in booted /\ booted' = booted \ {d} /\ forwarded' = Unforwarded(d)
    /\ UNCHANGED <<build, built, sources>>

\* A device restarts: its forwards are gone.
Restart(d) ==
    /\ Change
    /\ forwarded' = Unforwarded(d) /\ forwarded' # forwarded
    /\ UNCHANGED <<booted, build, built, sources>>

\* A native dependency is bumped: package.json is also a signature file.
BumpDeps ==
    /\ Change
    /\ build' = build + 1 /\ sources' = sources + 1
    /\ UNCHANGED <<booted, forwarded, built>>

\* A source file is added or removed.
AddSource ==
    /\ Change
    /\ sources' = sources + 1
    /\ UNCHANGED <<booted, forwarded, build, built>>

\* validity browse --native.
Rebuild(p) ==
    /\ Change
    /\ built[p] # build /\ built' = [built EXCEPT ![p] = build]
    /\ UNCHANGED <<booted, forwarded, build, sources>>

HostChanges ==
    \/ \E d \in Devices : Boot(d) \/ ShutDown(d) \/ Restart(d)
    \/ BumpDeps \/ AddSource
    \/ \E p \in Platform : Rebuild(p)

\* Something fails by itself: a spawn, a probe, adb, the bundler, the paint.
Fault == faults < MaxFaults /\ faults' = faults + 1

-----------------------------------------------------------------------------
\* The cache.

\* A new object takes the old one's place in the map.
Replace(called) == [c \in Callers |-> [called[c] EXCEPT !.linked = FALSE]]

\* The map has no entry any more: probes in flight hold one that is not in it.
Orphan(called) ==
    [c \in Callers |-> [called[c] EXCEPT !.linked = FALSE,
                                        !.stale = called[c].at \in {"list", "check"}]]

\* Mutant: the adb reverse flag outlives the entry.
InvalidateKeepsFlag(called) ==
    /\ cache' = [NoEntry EXCEPT !.reversed = cache.reversed]
    /\ call' = Orphan(called)

\* invalidate
Invalidate(called) == cache' = NoEntry /\ call' = Orphan(called)

\* bootedDevices after its await, for a caller whose entry is the map's.
KeepDevices(p, devices, stale) ==
    [cache EXCEPT !.devicesOf = p, !.devices = devices, !.stale = @ \/ stale,
                  !.reversed = IF cache.devicesOf \notin {"none", p} THEN NoDevice ELSE @]

KeepReadiness(key, ready, stale) ==
    [cache EXCEPT !.key = key, !.ready = ready, !.stale = @ \/ stale]

\* Mutant: the entry is looked up again after the await.
KeptInTheMap(c, entry) == IF Present THEN entry ELSE cache

\* What a caller's write to the entry it holds does to the map's.
Kept(c, entry) == IF call[c].linked THEN entry ELSE cache

\* prepared: a source change keeps the device facts.
Prepared(sig) == [cache EXCEPT !.sig = sig]

\* Mutant: the flag is the session's, not the device's.
NeedsOncePerEntry(pin) == ~Present

\* needsAdbReverse
NeedsAdbReverse(pin) == ~(Present /\ cache.reversed = pin)

\* Mutant: an entry of the flag alone.
MarkedWithoutEntry(pin) == [cache EXCEPT !.reversed = pin]

\* markAdbReversed asks the map again, after the capture.
Marked(pin) == IF Present THEN [cache EXCEPT !.reversed = pin] ELSE cache

-----------------------------------------------------------------------------
\* A call.

At(c, place) == call[c].at = place
Become(c, k) == [call EXCEPT ![c] = k]
Goto(c, place) == Become(c, [call[c] EXCEPT !.at = place])
End(c, outcome) == Become(c, Idle(outcome))

\* A verify holds the verify lock from here to its end.
Verifying == {c \in Callers : call[c].at # "idle" /\ call[c].req.tool = "verify"}

\* setupNativeSession begins; loadConfig is awaited.
Begin(c, q) ==
    /\ At(c, "idle")
    /\ q.tool = "verify" => Verifying = {}
    /\ \E more \in IF q.tool = "verify" THEN BOOLEAN ELSE {FALSE} :
         LET called == Become(c, Fresh(q, more))
         IN IF q.reload THEN Invalidate(called) ELSE call' = called /\ UNCHANGED cache
    /\ UNCHANGED <<host, changes, faults, reversed>>

DevicesCached(p) == Present /\ cache.devicesOf = p

\* The build hash is read, and bootedDevices called.
Probe(c) ==
    LET seen == [call[c] EXCEPT !.hash = build] IN
    /\ At(c, "probe")
    /\ \/ /\ DevicesCached(call[c].req.platform)
          /\ call' = Become(c, [seen EXCEPT !.at = "pin", !.devices = cache.devices])
       \/ /\ ~DevicesCached(call[c].req.platform)
          /\ call' = Become(c, [seen EXCEPT !.at = "list", !.linked = Present])
    /\ UNCHANGED <<host, changes, faults, cache, reversed>>

BootedOn(p) == {d \in booted : Runs[d] = p}

\* listBootedDevices answers, with nothing if the spawn fails.
List(c) ==
    LET p == call[c].req.platform IN
    /\ At(c, "list")
    /\ \E devices \in SUBSET Devices :
         /\ \/ devices = BootedOn(p) /\ UNCHANGED faults
            \/ devices = {} /\ Fault
         /\ cache' = Kept(c, KeepDevices(p, devices, call[c].stale))
         /\ call' = Become(c, [call[c] EXCEPT !.at = "pin", !.devices = devices,
                                              !.linked = FALSE, !.stale = FALSE])
    /\ UNCHANGED <<host, changes, reversed>>

\* The device asked for, else the only one there is.
Pinned(c) ==
    IF call[c].req.device # NoDevice THEN call[c].req.device
    ELSE IF call[c].devices = {} THEN NoDevice
    ELSE CHOOSE d \in call[c].devices : TRUE

\* Mutant: the platform is not in the key.
KeyOfDevice(p, pin, hash) == <<"android", pin, hash>>

\* readinessKey
KeyOf(p, pin, hash) == <<p, pin, hash>>
ReadinessCached(key) == Present /\ cache.key = key

\* Several devices and none named: refused.  Otherwise readiness is called.
PinDevice(c) ==
    LET pinned == [call[c] EXCEPT !.pin = Pinned(c), !.devices = {}]
        key == KeyOf(call[c].req.platform, Pinned(c), call[c].hash) IN
    /\ At(c, "pin")
    /\ \/ /\ call[c].req.device = NoDevice /\ Cardinality(call[c].devices) > 1
          /\ call' = End(c, "refused")
       \/ /\ call[c].req.device # NoDevice \/ Cardinality(call[c].devices) <= 1
          /\ \/ /\ ReadinessCached(key)
                /\ call' = Become(c, [pinned EXCEPT !.at = "gate", !.hash = 0,
                                                       !.ready = cache.ready])
             \/ /\ ~ReadinessCached(key)
                /\ call' = Become(c, [pinned EXCEPT !.at = "check", !.linked = Present])
    /\ UNCHANGED <<host, changes, faults, cache, reversed>>

\* The devices the driver's commands, and adb's, go to.
Reached(c) ==
    LET present == BootedOn(call[c].req.platform)
    IN IF call[c].pin # NoDevice THEN {call[c].pin} \cap present
       ELSE IF Cardinality(present) = 1 THEN present ELSE {}

\* ensureAndroidReverse, of these ports.
Forwarded(c, ports) ==
    [o \in Port |-> IF o \in ports /\ call[c].req.platform = "android"
                    THEN forwarded[o] \cup Reached(c) ELSE forwarded[o]]

\* checkNativeReadiness: adb has to be told which device it means, simctl does
\* not.
IsReady(c) ==
    LET p == call[c].req.platform IN
    /\ BootedOn(p) # {}
    /\ call[c].pin # NoDevice \/ p = "android" => Reached(c) # {}
    /\ built[p] = call[c].hash

\* The checklist is answered, and Metro's port forwarded on the way; a row may
\* be unmet for another reason.
Check(c) ==
    LET key == KeyOf(call[c].req.platform, call[c].pin, call[c].hash) IN
    /\ At(c, "check")
    /\ \E ready \in BOOLEAN :
         /\ \/ /\ ready = IsReady(c) /\ UNCHANGED faults
               /\ forwarded' = Forwarded(c, {"metro"})
            \/ /\ ready = FALSE /\ Fault
               /\ forwarded' \in {forwarded, Forwarded(c, {"metro"})}
         /\ cache' = Kept(c, KeepReadiness(key, ready, call[c].stale))
         /\ call' = Become(c, [call[c] EXCEPT !.at = "gate", !.ready = ready, !.hash = 0,
                                              !.linked = FALSE, !.stale = FALSE])
    /\ UNCHANGED <<booted, build, built, sources, changes, reversed>>

\* Not ready: the checklist is the answer.  Ready: the app is prepared unless
\* the entry has it of these sources.
Gate(c) ==
    LET sig == <<sources, call[c].req.platform>>
        passed == Become(c, [call[c] EXCEPT !.at = "metro", !.ready = FALSE]) IN
    /\ At(c, "gate")
    /\ \/ /\ ~call[c].ready
          /\ call' = End(c, "refused") /\ UNCHANGED cache
       \/ /\ call[c].ready /\ cache.sig = sig
          /\ call' = passed /\ UNCHANGED cache
       \/ /\ call[c].ready /\ cache.sig # sig
          /\ cache' = Prepared(sig) /\ call' = Replace(passed)
    /\ UNCHANGED <<host, changes, faults, reversed>>

\* ensureCompanionMetro: up, or not, or not known to be ours.
Metro(c) ==
    /\ At(c, "metro")
    /\ \/ call' = Goto(c, "open") /\ UNCHANGED <<cache, faults>>
       \/ Invalidate(End(c, "refused")) /\ Fault
    /\ UNCHANGED <<host, changes, reversed>>

\* captureNative begins: the forwards are asserted unless the flag says they
\* are.  adb may fail to make one, and nothing comes of it here.
Open(c) ==
    LET skips == ~NeedsAdbReverse(call[c].pin)
        asserts == ~skips /\ call[c].req.platform = "android" IN
    /\ At(c, "open")
    /\ \/ /\ forwarded' = IF asserts THEN Forwarded(c, Port) ELSE forwarded
          /\ UNCHANGED faults
       \/ /\ asserts /\ Fault
          /\ \E ports \in SUBSET Port : forwarded' = Forwarded(c, ports)
    /\ reversed' = IF asserts THEN reversed \cup {call[c].pin} ELSE reversed
    /\ call' = Become(c, [call[c] EXCEPT !.at = "capture", !.skips = skips])
    /\ UNCHANGED <<booted, build, built, sources, changes, cache>>

\* A companion that still runs its bundle confirms a deep link by its marker
\* alone, over no forward at all.
CanConfirm(c) ==
    /\ Reached(c) # {}
    /\ built[call[c].req.platform] # 0

Reachable(c) ==
    /\ CanConfirm(c)
    /\ call[c].req.platform = "android" => \A o \in Port : Reached(c) \subseteq forwarded[o]

\* The next target of a verify.
NextTarget(c, any) == Become(c, [call[c] EXCEPT !.at = "open", !.skips = FALSE,
                                                !.more = FALSE, !.any = any])

Confirm(c) ==
    /\ At(c, "capture")
    /\ CanConfirm(c)
    /\ cache' = Marked(call[c].pin)
    /\ call' = IF call[c].more THEN NextTarget(c, TRUE) ELSE End(c, "confirmed")
    /\ UNCHANGED <<host, changes, faults, reversed>>

\* Failed, unconfirmed or thrown.  A verify goes on with its next target, or
\* breaks off when the bridge port is held, and drops the entry only if no
\* target confirmed.
Miss(c) ==
    /\ At(c, "capture")
    /\ IF Reachable(c) THEN Fault ELSE UNCHANGED faults
    /\ \/ call[c].more /\ call' = NextTarget(c, FALSE) /\ UNCHANGED cache
       \/ call[c].any /\ call' = End(c, "confirmed") /\ UNCHANGED cache
       \/ ~call[c].any /\ Invalidate(End(c, "missed"))
    /\ UNCHANGED <<host, changes, reversed>>

Proceed(c) ==
    \/ Probe(c) \/ List(c) \/ PinDevice(c) \/ Check(c) \/ Gate(c)
    \/ Metro(c) \/ Open(c) \/ Confirm(c) \/ Miss(c)

Calls(c) == \E q \in Requests : Begin(c, q)

Next == HostChanges \/ \E c \in Callers : Calls(c) \/ Proceed(c)

Spec == Init /\ [][Next]_vars

\* Awaits return, and an agent that got no render asks again, as the checklist
\* tells it to.
Fairness == \A c \in Callers : WF_vars(Proceed(c)) /\ WF_vars(Calls(c))
FairSpec == Spec /\ Fairness

-----------------------------------------------------------------------------
(* Properties *)

\* One capture that was not clean re-derives everything: no device fact in the
\* cache was probed for before the last time the entry was dropped, not even
\* by a probe still in flight then.
FactsPostdateMiss == ~cache.stale

\* A call drives the device only past the gate, and then one of the platform
\* it asked for, although calls for both platforms share the entry and a call
\* may name a device of the other.
PinnedOnItsPlatform ==
    \A c \in Callers : call[c].at \in {"metro", "open", "capture"} /\ call[c].pin # NoDevice
                         => Runs[call[c].pin] = call[c].req.platform

\* A capture on Android leaves out adb reverse only for a device whose forwards
\* a capture has asserted, although the flag is set at the end of captures that
\* asserted nothing.
SkippedForwardWasMade ==
    \A c \in Callers :
        (call[c].at = "capture" /\ call[c].skips /\ call[c].req.platform = "android"
           /\ call[c].pin # NoDevice) => call[c].pin \in reversed

\* The request does not name a device of the other platform.
Sane(q) == q.device # NoDevice => Runs[q.device] = q.platform

\* Every sane request can be met: the device it names, or exactly one, is up and
\* carries the binary called for.
AllReady ==
    \A q \in {r \in Requests : Sane(r)} :
        /\ built[q.platform] = build
        /\ IF q.device # NoDevice THEN q.device \in booted
           ELSE Cardinality(BootedOn(q.platform)) = 1

Rendered == \E c \in Callers : call[c].outcome = "confirmed"
Tried ==
    \E c \in Callers :
        \/ call[c].at = "capture"
        \/ call[c].at = "probe" /\ call[c].req.reload /\ Sane(call[c].req)

\* The cheap safety net: once every request can be met for good, and calls
\* reach a capture or ask for a reload, calls are confirmed again and again:
\* no stale fact outlives the misses it causes.
SessionHeals == (<>[]AllReady /\ []<>Tried) => []<>Rendered

\* "Once everything is checked, re-run this tool and it deep-links +
\* screenshots automatically."
ReadyIsNoticed == <>[]AllReady => []<>Rendered
=============================================================================
