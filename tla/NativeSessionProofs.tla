------------------------- MODULE NativeSessionProofs -------------------------
(***************************************************************************)
(* What the warm session guarantees for every number of overlapping calls,  *)
(* devices, requests, changes and faults.                                   *)
(***************************************************************************)
EXTENDS NativeSession, TLAPS

(* An idle caller's record is a record of a call. *)
LEMMA FreshTyped ==
  ASSUME NEW q \in Requests, NEW more \in BOOLEAN
  PROVE  Fresh(q, more) \in Call
  BY SessionAssumption DEF Fresh, Call, Place, Outcome, Request, Pin

LEMMA IdleTyped ==
  ASSUME NEW outcome \in Outcome
  PROVE  /\ Idle(outcome) \in Call
         /\ Idle(outcome).at = "idle"
         /\ Idle(outcome).linked = FALSE
         /\ Idle(outcome).ready = FALSE
         /\ Idle(outcome).stale = FALSE
<1> DEFINE q == CHOOSE r \in Requests : TRUE
<1>1. q \in Requests
  BY SessionAssumption
<1>2. Fresh(q, FALSE) \in Call
  BY <1>1, FreshTyped
<1>3. Idle(outcome) = [Fresh(q, FALSE) EXCEPT !.at = "idle", !.outcome = outcome]
  BY DEF Idle
<1> HIDE DEF q
<1>4. /\ Fresh(q, FALSE).linked = FALSE
      /\ Fresh(q, FALSE).ready = FALSE
      /\ Fresh(q, FALSE).stale = FALSE
  BY DEF Fresh
<1> QED
  BY <1>2, <1>3, <1>4 DEF Call, Place

(* A caller's step leaves every caller a call if its own record is one. *)
LEMMA BecomeTyped ==
  ASSUME TypeOK, NEW c \in Callers, NEW k \in Call
  PROVE  Become(c, k) \in [Callers -> Call]
  BY DEF Become, TypeOK

LEMMA GotoTyped ==
  ASSUME TypeOK, NEW c \in Callers, NEW place \in Place
  PROVE  Goto(c, place) \in [Callers -> Call]
<1>1. [call[c] EXCEPT !.at = place] \in Call
  BY DEF TypeOK, Call
<1> QED
  BY <1>1, BecomeTyped DEF Goto

(* Ending a call leaves every caller a call. *)
LEMMA EndTyped ==
  ASSUME TypeOK, NEW c \in Callers, NEW outcome \in Outcome
  PROVE  End(c, outcome) \in [Callers -> Call]
  BY IdleTyped, BecomeTyped DEF End

(* So does going on with the next target of a verify. *)
LEMMA NextTyped ==
  ASSUME TypeOK, NEW c \in Callers, NEW any \in BOOLEAN
  PROVE  NextTarget(c, any) \in [Callers -> Call]
<1>1. [call[c] EXCEPT !.at = "open", !.skips = FALSE, !.more = FALSE, !.any = any] \in Call
  BY DEF TypeOK, Call, Place
<1> QED
  BY <1>1, BecomeTyped DEF NextTarget

(* A fault is counted up to the bound. *)
LEMMA FaultTyped ==
  ASSUME TypeOK, UNCHANGED faults \/ Fault
  PROVE  faults' \in 0 .. MaxFaults
  BY SessionAssumption DEF TypeOK, Fault

(* Only a device that is up is forwarded. *)
LEMMA ForwardedTyped ==
  ASSUME TypeOK, NEW c \in Callers, NEW ports
  PROVE  Forwarded(c, ports) \in [Port -> SUBSET booted]
<1>1. Reached(c) \subseteq booted
  BY DEF Reached, BootedOn
<1> QED
  BY <1>1 DEF Forwarded, TypeOK

(* Dropping the entry, or replacing it, leaves every caller a call. *)
LEMMA DroppedTyped ==
  ASSUME NEW k \in Call, NEW late \in BOOLEAN
  PROVE  [k EXCEPT !.linked = FALSE, !.stale = late] \in Call
  BY DEF Call

LEMMA OrphanTyped ==
  ASSUME NEW called \in [Callers -> Call]
  PROVE  Orphan(called) \in [Callers -> Call] /\ Replace(called) \in [Callers -> Call]
<1>1. Replace(called) \in [Callers -> Call]
  BY DEF Replace, Call
<1>2. ASSUME NEW c \in Callers
      PROVE  [called[c] EXCEPT !.linked = FALSE,
                               !.stale = called[c].at \in {"list", "check"}] \in Call
  <2>1. called[c] \in Call /\ (called[c].at \in {"list", "check"}) \in BOOLEAN
    OBVIOUS
  <2> QED
    BY <2>1, DroppedTyped, Zenon
<1>3. Orphan(called) \in [Callers -> Call]
  BY <1>2, Zenon DEF Orphan
<1> QED
  BY <1>1, <1>3

(* What the record of a call holds. *)
LEMMA CallFields ==
  ASSUME TypeOK, NEW c \in Callers
  PROVE  /\ call[c] \in Call
         /\ call[c].req.platform \in Platform
         /\ call[c].req.device \in Pin
         /\ call[c].devices \in SUBSET Devices
         /\ call[c].pin \in Pin
         /\ call[c].hash \in Nat
         /\ call[c].stale \in BOOLEAN
<1>1. call[c] \in Call
  BY DEF TypeOK
<1> QED
  BY <1>1 DEF Call, Request

LEMMA NoEntryTyped == NoEntry \in Entry
  BY DEF NoEntry, Entry, Sig, NoSig, Key, NoKey, Pin

-----------------------------------------------------------------------------

(* The inductive invariant: a caller's record says that its entry was dropped *)
(* only while it waits for the answer it will write there, and the entry it   *)
(* holds as the map's is in the map.  Were a caller linked to no entry, its    *)
(* answer would make half an entry out of none.                                *)
Waits ==
    \A c \in Callers :
        /\ call[c].stale => call[c].at \in {"list", "check"}
        /\ call[c].linked => Present /\ ~call[c].stale

FactsInv == TypeOK /\ Waits /\ FactsPostdateMiss

LEMMA FactsInit == Init => FactsInv
<1> SUFFICES ASSUME Init PROVE FactsInv
  OBVIOUS
<1>1. call \in [Callers -> Call]
  BY IdleTyped DEF Init, Outcome
<1>2. cache \in Entry /\ cache = NoEntry
  BY NoEntryTyped DEF Init
<1>3. built \in [Platform -> Nat]
  BY DEF Init
<1>4. Waits /\ FactsPostdateMiss
  BY IdleTyped DEF Init, Waits, FactsPostdateMiss, NoEntry, Outcome
<1> QED
  BY <1>1, <1>2, <1>3, <1>4, SessionAssumption DEF Init, TypeOK, FactsInv

(* One step keeps every shape. *)
LEMMA StepTyped ==
  ASSUME TypeOK, Waits, [Next]_vars
  PROVE  TypeOK'
<1>1. CASE HostChanges
  <2>1. ASSUME NEW d \in Devices, Boot(d) \/ ShutDown(d) \/ Restart(d) PROVE TypeOK'
    BY <2>1, SessionAssumption
    DEF Boot, ShutDown, Restart, Unforwarded, Change, TypeOK, Present
  <2>2. CASE BumpDeps \/ AddSource
    BY <2>2, SessionAssumption DEF BumpDeps, AddSource, Change, TypeOK, Present
  <2>3. ASSUME NEW p \in Platform, Rebuild(p) PROVE TypeOK'
    BY <2>3, SessionAssumption DEF Rebuild, Change, TypeOK, Present
  <2> QED
    BY <1>1, <2>1, <2>2, <2>3 DEF HostChanges
<1>2. ASSUME NEW c \in Callers, NEW q \in Requests, Begin(c, q) PROVE TypeOK'
  <2> PICK more \in BOOLEAN :
        LET called == Become(c, Fresh(q, more))
        IN IF q.reload THEN Invalidate(called) ELSE call' = called /\ UNCHANGED cache
    BY <1>2 DEF Begin
  <2> DEFINE called == Become(c, Fresh(q, more))
  <2>1. called \in [Callers -> Call]
    BY FreshTyped, BecomeTyped
  <2>2. call' \in [Callers -> Call]
    BY <2>1, OrphanTyped DEF Invalidate
  <2>3. cache' \in Entry /\ (Present' \/ cache' = NoEntry)
    BY NoEntryTyped DEF Invalidate, TypeOK, Present
  <2> QED
    BY <1>2, <2>2, <2>3 DEF Begin, TypeOK, host
<1>3. ASSUME NEW c \in Callers, Probe(c) PROVE TypeOK'
  <2> DEFINE seen == [call[c] EXCEPT !.hash = build]
             kept == [seen EXCEPT !.at = "pin", !.devices = cache.devices]
             asks == [seen EXCEPT !.at = "list", !.linked = Present]
  <2>1. seen \in Call
    BY DEF TypeOK, Call
  <2>2. kept \in Call
    BY <2>1 DEF TypeOK, Call, Place, Entry
  <2>3. asks \in Call
    BY <2>1 DEF TypeOK, Call, Place, Present
  <2>4. call' = Become(c, kept) \/ call' = Become(c, asks)
    BY <1>3 DEF Probe
  <2> HIDE DEF kept, asks
  <2>5. call' \in [Callers -> Call]
    BY <2>2, <2>3, <2>4, BecomeTyped
  <2> QED
    BY <1>3, <2>5 DEF Probe, TypeOK, host, Present
<1>4. ASSUME NEW c \in Callers, List(c) PROVE TypeOK'
  <2> DEFINE p == call[c].req.platform
  <2> PICK devices \in SUBSET Devices :
        /\ \/ devices = BootedOn(p) /\ UNCHANGED faults
           \/ devices = {} /\ Fault
        /\ cache' = Kept(c, KeepDevices(p, devices, call[c].stale))
        /\ call' = Become(c, [call[c] EXCEPT !.at = "pin", !.devices = devices,
                                             !.linked = FALSE, !.stale = FALSE])
    BY <1>4 DEF List
  <2> DEFINE listed == [call[c] EXCEPT !.at = "pin", !.devices = devices,
                                       !.linked = FALSE, !.stale = FALSE]
  <2>0. listed \in Call
    BY DEF TypeOK, Call, Place
  <2>1. call' \in [Callers -> Call]
    BY <2>0, BecomeTyped
  <2>2. p \in Platform /\ call[c].stale \in BOOLEAN
    BY CallFields
  <2>3. KeepDevices(p, devices, call[c].stale) \in Entry
    BY <2>2 DEF KeepDevices, TypeOK, Entry, Pin
  <2>4. KeepDevices(p, devices, call[c].stale).sig = cache.sig
    BY DEF KeepDevices, TypeOK, Entry
  <2> HIDE DEF p
  <2>5. cache' \in Entry /\ (Present' \/ cache' = NoEntry)
    BY <1>4, <2>3, <2>4 DEF Kept, TypeOK, Present, Waits
  <2>6. faults' \in 0 .. MaxFaults
    BY FaultTyped
  <2> QED
    BY <1>4, <2>1, <2>5, <2>6 DEF List, TypeOK, host
<1>5. ASSUME NEW c \in Callers, PinDevice(c) PROVE TypeOK'
  <2>1. Pinned(c) \in Pin
    BY CallFields DEF Pinned, Pin
  <2>2. End(c, "refused") \in [Callers -> Call]
    BY EndTyped DEF Outcome
  <2> DEFINE pinned == [call[c] EXCEPT !.pin = Pinned(c), !.devices = {}]
             kept == [pinned EXCEPT !.at = "gate", !.hash = 0, !.ready = cache.ready]
             asks == [pinned EXCEPT !.at = "check", !.linked = Present]
  <2>3. pinned \in Call
    BY <2>1 DEF TypeOK, Call
  <2>4. kept \in Call
    BY <2>3 DEF TypeOK, Call, Place, Entry
  <2>5. asks \in Call
    BY <2>3 DEF TypeOK, Call, Place, Present
  <2>6. \/ call' = End(c, "refused")
        \/ call' = Become(c, kept)
        \/ call' = Become(c, asks)
    BY <1>5 DEF PinDevice
  <2> HIDE DEF kept, asks
  <2>7. call' \in [Callers -> Call]
    BY <2>2, <2>4, <2>5, <2>6, BecomeTyped
  <2> QED
    BY <1>5, <2>7 DEF PinDevice, TypeOK, host, Present
<1>6. ASSUME NEW c \in Callers, Check(c) PROVE TypeOK'
  <2> DEFINE p == call[c].req.platform
             key == KeyOf(p, call[c].pin, call[c].hash)
  <2> PICK ready \in BOOLEAN :
        /\ UNCHANGED faults \/ Fault
        /\ forwarded' \in {forwarded, Forwarded(c, {"metro"})}
        /\ cache' = Kept(c, KeepReadiness(key, ready, call[c].stale))
        /\ call' = Become(c, [call[c] EXCEPT !.at = "gate", !.ready = ready, !.hash = 0,
                                             !.linked = FALSE, !.stale = FALSE])
    BY <1>6 DEF Check
  <2> DEFINE checked == [call[c] EXCEPT !.at = "gate", !.ready = ready, !.hash = 0,
                                        !.linked = FALSE, !.stale = FALSE]
  <2>0. checked \in Call
    BY DEF TypeOK, Call, Place
  <2>1. call' \in [Callers -> Call]
    BY <2>0, BecomeTyped
  <2>2. key \in Key /\ call[c].stale \in BOOLEAN
    BY CallFields DEF KeyOf, Key
  <2> HIDE DEF key
  <2>3. KeepReadiness(key, ready, call[c].stale) \in Entry
    BY <2>2 DEF KeepReadiness, TypeOK, Entry
  <2>4. KeepReadiness(key, ready, call[c].stale).sig = cache.sig
    BY DEF KeepReadiness, TypeOK, Entry
  <2>5. cache' \in Entry /\ (Present' \/ cache' = NoEntry)
    BY <1>6, <2>3, <2>4 DEF Kept, TypeOK, Present, Waits
  <2>6. faults' \in 0 .. MaxFaults
    BY FaultTyped
  <2>7. forwarded' \in [Port -> SUBSET booted]
    BY ForwardedTyped DEF TypeOK
  <2> QED
    BY <1>6, <2>1, <2>5, <2>6, <2>7 DEF Check, TypeOK
<1>7. ASSUME NEW c \in Callers, Gate(c) PROVE TypeOK'
  <2> DEFINE sig == <<sources, call[c].req.platform>>
             passed == Become(c, [call[c] EXCEPT !.at = "metro", !.ready = FALSE])
  <2>1. sig \in Sig /\ sig # NoSig
    BY CallFields DEF TypeOK, Sig, NoSig
  <2>2. passed \in [Callers -> Call]
    <3>1. [call[c] EXCEPT !.at = "metro", !.ready = FALSE] \in Call
      BY DEF TypeOK, Call, Place
    <3> QED
      BY <3>1, BecomeTyped
  <2>3. End(c, "refused") \in [Callers -> Call]
    BY EndTyped DEF Outcome
  <2>4. call' \in [Callers -> Call]
    BY <1>7, <2>2, <2>3, OrphanTyped DEF Gate
  <2>5. Prepared(sig) \in Entry /\ Prepared(sig).sig # NoSig
    BY <2>1 DEF Prepared, TypeOK, Entry
  <2> QED
    BY <1>7, <2>4, <2>5 DEF Gate, TypeOK, host, Present
<1>8. ASSUME NEW c \in Callers, Metro(c) PROVE TypeOK'
  <2>1. Goto(c, "open") \in [Callers -> Call]
    BY GotoTyped DEF Place
  <2>2. End(c, "refused") \in [Callers -> Call]
    BY EndTyped DEF Outcome
  <2>3. call' \in [Callers -> Call]
    BY <1>8, <2>1, <2>2, OrphanTyped DEF Metro, Invalidate
  <2> QED
    BY <1>8, <2>3, NoEntryTyped, SessionAssumption
    DEF Metro, Invalidate, Fault, TypeOK, host, Present
<1>9. ASSUME NEW c \in Callers, Open(c) PROVE TypeOK'
  <2> DEFINE skips == ~NeedsAdbReverse(call[c].pin)
             opened == [call[c] EXCEPT !.at = "capture", !.skips = skips]
  <2>0. skips \in BOOLEAN
    BY DEF NeedsAdbReverse
  <2>a. call' = Become(c, opened)
    BY <1>9 DEF Open
  <2> HIDE DEF skips
  <2>b. opened \in Call
    BY <2>0 DEF TypeOK, Call, Place
  <2>1. call' \in [Callers -> Call]
    BY <2>a, <2>b, BecomeTyped
  <2>2. forwarded' \in [Port -> SUBSET booted]
    BY <1>9, ForwardedTyped DEF Open, TypeOK
  <2>3. faults' \in 0 .. MaxFaults
    BY <1>9, FaultTyped DEF Open
  <2>4. reversed' \subseteq Pin
    BY <1>9, CallFields DEF Open, TypeOK
  <2> QED
    BY <1>9, <2>1, <2>2, <2>3, <2>4 DEF Open, TypeOK, Present
<1>10. ASSUME NEW c \in Callers, Confirm(c) PROVE TypeOK'
  <2>1. NextTarget(c, TRUE) \in [Callers -> Call]
    BY NextTyped
  <2>2. End(c, "confirmed") \in [Callers -> Call]
    BY EndTyped DEF Outcome
  <2>3. call' \in [Callers -> Call]
    BY <1>10, <2>1, <2>2 DEF Confirm
  <2>4. Marked(call[c].pin) \in Entry /\ Marked(call[c].pin).sig = cache.sig
    BY CallFields DEF Marked, TypeOK, Entry
  <2> QED
    BY <1>10, <2>3, <2>4 DEF Confirm, TypeOK, host, Present, Marked
<1>11. ASSUME NEW c \in Callers, Miss(c) PROVE TypeOK'
  <2>1. NextTarget(c, FALSE) \in [Callers -> Call]
    BY NextTyped
  <2>2. End(c, "confirmed") \in [Callers -> Call] /\ End(c, "missed") \in [Callers -> Call]
    BY EndTyped DEF Outcome
  <2>3. call' \in [Callers -> Call]
    BY <1>11, <2>1, <2>2, OrphanTyped DEF Miss, Invalidate
  <2>4. faults' \in 0 .. MaxFaults
    BY <1>11, FaultTyped DEF Miss
  <2> QED
    BY <1>11, <2>3, <2>4, NoEntryTyped DEF Miss, Invalidate, TypeOK, host, Present
<1>12. CASE UNCHANGED vars
  BY <1>12 DEF vars, host, TypeOK, Present
<1> QED
  BY <1>1, <1>2, <1>3, <1>4, <1>5, <1>6, <1>7, <1>8, <1>9, <1>10, <1>11, <1>12
  DEF Next, Calls, Proceed
-----------------------------------------------------------------------------
(* The entry held and the entry in the map. *)

(* A caller that keeps an entry only of the map's keeps the invariant, while  *)
(* the map's entry stays.                                                     *)
LEMMA BecomeWaits ==
  ASSUME TypeOK, Waits, NEW c \in Callers, NEW k \in Call,
         call' = Become(c, k), Present => Present',
         k.stale => k.at \in {"list", "check"},
         k.linked => Present' /\ ~k.stale
  PROVE  Waits'
  BY DEF Become, TypeOK, Waits

(* After a drop or a replacement nobody holds the map's entry. *)
LEMMA OrphanWaits ==
  ASSUME NEW called \in [Callers -> Call], call' = Orphan(called)
  PROVE  Waits'
<1>1. ASSUME NEW c \in Callers
      PROVE  /\ call'[c].linked = FALSE
             /\ call'[c].stale = (call'[c].at \in {"list", "check"})
  <2>1. called[c] \in Call
    OBVIOUS
  <2>2. call'[c] = [called[c] EXCEPT !.linked = FALSE,
                                    !.stale = called[c].at \in {"list", "check"}]
    BY Zenon DEF Orphan
  <2> DEFINE late == called[c].at \in {"list", "check"}
             after == [called[c] EXCEPT !.linked = FALSE, !.stale = late]
  <2>3. late \in BOOLEAN
    OBVIOUS
  <2> HIDE DEF late
  <2>4. after.linked = FALSE /\ after.stale = late /\ after.at = called[c].at
    BY <2>1, <2>3 DEF Call
  <2> QED
    BY <2>2, <2>4, Zenon DEF late
<1> QED
  BY <1>1, Zenon DEF Waits

LEMMA ReplaceWaits ==
  ASSUME TypeOK, Waits, NEW c \in Callers, NEW k \in Call, ~k.stale,
         call' = Replace(Become(c, k))
  PROVE  Waits'
  BY DEF Become, Replace, TypeOK, Waits, Call

LEMMA StepWaits ==
  ASSUME TypeOK, Waits, FactsPostdateMiss, [Next]_vars
  PROVE  Waits' /\ FactsPostdateMiss'
<1>1. CASE HostChanges
  BY <1>1 DEF HostChanges, Change, Boot, ShutDown, Restart, BumpDeps, AddSource, Rebuild,
              Waits, Present, FactsPostdateMiss
<1>2. ASSUME NEW c \in Callers, NEW q \in Requests, Begin(c, q)
      PROVE  Waits' /\ FactsPostdateMiss'
  <2> PICK more \in BOOLEAN :
        LET called == Become(c, Fresh(q, more))
        IN IF q.reload THEN Invalidate(called) ELSE call' = called /\ UNCHANGED cache
    BY <1>2 DEF Begin
  <2>1. Fresh(q, more) \in Call /\ Become(c, Fresh(q, more)) \in [Callers -> Call]
    BY FreshTyped, BecomeTyped
  <2>2. Fresh(q, more).stale = FALSE /\ Fresh(q, more).linked = FALSE
    BY DEF Fresh
  <2>3. CASE q.reload
    BY <2>1, <2>3, OrphanWaits DEF Invalidate, NoEntry, FactsPostdateMiss
  <2>4. CASE ~q.reload
    BY <2>1, <2>2, <2>4, BecomeWaits DEF Present, FactsPostdateMiss
  <2> QED
    BY <2>3, <2>4
<1>3. ASSUME NEW c \in Callers, Probe(c) PROVE Waits' /\ FactsPostdateMiss'
  <2> DEFINE seen == [call[c] EXCEPT !.hash = build]
             kept == [seen EXCEPT !.at = "pin", !.devices = cache.devices]
             asks == [seen EXCEPT !.at = "list", !.linked = Present]
  <2>1. \/ call' = Become(c, kept) /\ Present
        \/ call' = Become(c, asks)
    BY <1>3 DEF Probe, DevicesCached
  <2>2. cache' = cache /\ call[c].at = "probe"
    BY <1>3 DEF Probe, At
  <2>3. call[c].stale = FALSE /\ build \in Nat /\ cache.devices \in SUBSET Devices
    BY <2>2, CallFields DEF Waits, TypeOK, Entry
  <2>4. kept \in Call /\ kept.stale = FALSE /\ kept.linked = call[c].linked
    BY <2>3, CallFields DEF Call, Place
  <2>5. asks \in Call /\ asks.stale = FALSE /\ asks.linked = Present
    BY <2>3, CallFields DEF Call, Place, Present
  <2> HIDE DEF kept, asks
  <2> QED
    BY <2>1, <2>2, <2>4, <2>5, BecomeWaits DEF Present, FactsPostdateMiss
<1>4. ASSUME NEW c \in Callers, List(c) PROVE Waits' /\ FactsPostdateMiss'
  <2> DEFINE p == call[c].req.platform
  <2> PICK devices \in SUBSET Devices :
        /\ cache' = Kept(c, KeepDevices(p, devices, call[c].stale))
        /\ call' = Become(c, [call[c] EXCEPT !.at = "pin", !.devices = devices,
                                             !.linked = FALSE, !.stale = FALSE])
    BY <1>4 DEF List
  <2> DEFINE listed == [call[c] EXCEPT !.at = "pin", !.devices = devices,
                                       !.linked = FALSE, !.stale = FALSE]
             kept == KeepDevices(p, devices, call[c].stale)
  <2>1. listed \in Call /\ listed.stale = FALSE /\ listed.linked = FALSE
    BY CallFields DEF Call, Place
  <2>2. kept.sig = cache.sig /\ kept.stale = (cache.stale \/ call[c].stale)
    BY CallFields DEF KeepDevices, TypeOK, Entry
  <2>0. cache' = IF call[c].linked THEN kept ELSE cache
    BY DEF Kept
  <2> HIDE DEF listed, kept
  <2>3. Present' = Present
    BY <2>2, <2>0 DEF Present
  <2>4. FactsPostdateMiss'
    BY <2>2, <2>0 DEF FactsPostdateMiss, Waits
  <2> QED
    BY <2>1, <2>3, <2>4, BecomeWaits DEF listed
<1>5. ASSUME NEW c \in Callers, PinDevice(c) PROVE Waits' /\ FactsPostdateMiss'
  <2> DEFINE pinned == [call[c] EXCEPT !.pin = Pinned(c), !.devices = {}]
             kept == [pinned EXCEPT !.at = "gate", !.hash = 0, !.ready = cache.ready]
             asks == [pinned EXCEPT !.at = "check", !.linked = Present]
  <2>1. \/ call' = Become(c, Idle("refused"))
        \/ call' = Become(c, kept)
        \/ call' = Become(c, asks)
    BY <1>5 DEF PinDevice, End
  <2>2. cache' = cache /\ call[c].at = "pin"
    BY <1>5 DEF PinDevice, At
  <2>3. /\ call[c].stale = FALSE /\ cache.ready \in BOOLEAN
        /\ Pinned(c) \in Pin
    BY <2>2, CallFields DEF Waits, TypeOK, Entry, Pinned, Pin
  <2>4. kept \in Call /\ kept.stale = FALSE /\ kept.linked = call[c].linked
    BY <2>3, CallFields DEF Call, Place
  <2>5. asks \in Call /\ asks.stale = FALSE /\ asks.linked = Present
    BY <2>3, CallFields DEF Call, Place, Present
  <2>6. call[c].linked => Present
    BY DEF Waits
  <2> HIDE DEF kept, asks
  <2> QED
    BY <2>1, <2>2, <2>4, <2>5, <2>6, IdleTyped, BecomeWaits
    DEF Present, FactsPostdateMiss, Outcome
<1>6. ASSUME NEW c \in Callers, Check(c) PROVE Waits' /\ FactsPostdateMiss'
  <2> DEFINE key == KeyOf(call[c].req.platform, call[c].pin, call[c].hash)
  <2> PICK ready \in BOOLEAN :
        /\ cache' = Kept(c, KeepReadiness(key, ready, call[c].stale))
        /\ call' = Become(c, [call[c] EXCEPT !.at = "gate", !.ready = ready, !.hash = 0,
                                             !.linked = FALSE, !.stale = FALSE])
    BY <1>6 DEF Check
  <2> DEFINE checked == [call[c] EXCEPT !.at = "gate", !.ready = ready, !.hash = 0,
                                        !.linked = FALSE, !.stale = FALSE]
             kept == KeepReadiness(key, ready, call[c].stale)
  <2>1. checked \in Call /\ checked.stale = FALSE /\ checked.linked = FALSE
    BY CallFields DEF Call, Place
  <2>2. kept.sig = cache.sig /\ kept.stale = (cache.stale \/ call[c].stale)
    BY CallFields DEF KeepReadiness, TypeOK, Entry
  <2>0. cache' = IF call[c].linked THEN kept ELSE cache
    BY DEF Kept
  <2> HIDE DEF checked, kept
  <2>3. Present' = Present
    BY <2>2, <2>0 DEF Present
  <2>4. FactsPostdateMiss'
    BY <2>2, <2>0 DEF FactsPostdateMiss, Waits
  <2> QED
    BY <2>1, <2>3, <2>4, BecomeWaits DEF checked
<1>7. ASSUME NEW c \in Callers, Gate(c) PROVE Waits' /\ FactsPostdateMiss'
  <2> DEFINE sig == <<sources, call[c].req.platform>>
             past == [call[c] EXCEPT !.at = "metro", !.ready = FALSE]
  <2>1. \/ call' = Become(c, Idle("refused")) /\ cache' = cache
        \/ call' = Become(c, past) /\ cache' = cache
        \/ call' = Replace(Become(c, past)) /\ cache' = Prepared(sig)
    BY <1>7 DEF Gate, End
  <2>2. call[c].stale = FALSE
    BY <1>7, CallFields DEF Gate, At, Waits
  <2>3. past \in Call /\ past.stale = FALSE /\ past.linked = call[c].linked
    BY <2>2, CallFields DEF Call, Place
  <2>4. call[c].linked => Present
    BY DEF Waits
  <2>5. Prepared(sig).stale = cache.stale
    BY DEF Prepared, TypeOK, Entry
  <2> HIDE DEF past
  <2>6. CASE cache' = cache
    BY <2>1, <2>3, <2>4, <2>6, IdleTyped, BecomeWaits, ReplaceWaits
    DEF Present, FactsPostdateMiss, Outcome
  <2>7. CASE call' = Replace(Become(c, past)) /\ cache' = Prepared(sig)
    BY <2>3, <2>5, <2>7, ReplaceWaits DEF FactsPostdateMiss
  <2> QED
    BY <2>1, <2>6, <2>7
<1>8. ASSUME NEW c \in Callers, Metro(c) PROVE Waits' /\ FactsPostdateMiss'
  <2> DEFINE opens == [call[c] EXCEPT !.at = "open"]
  <2>1. CASE call' = Goto(c, "open") /\ UNCHANGED cache
    <3>1. call[c].stale = FALSE
      BY <1>8, CallFields DEF Metro, At, Waits
    <3>2. opens \in Call /\ opens.stale = FALSE /\ opens.linked = call[c].linked
      BY <3>1, CallFields DEF Call, Place
    <3>3. call[c].linked => Present
      BY DEF Waits
    <3> HIDE DEF opens
    <3> QED
      BY <2>1, <3>2, <3>3, BecomeWaits DEF Goto, opens, Present, FactsPostdateMiss
  <2>2. CASE Invalidate(End(c, "refused"))
    BY <2>2, EndTyped, OrphanWaits DEF Invalidate, NoEntry, FactsPostdateMiss, Outcome
  <2> QED
    BY <1>8, <2>1, <2>2 DEF Metro
<1>9. ASSUME NEW c \in Callers, Open(c) PROVE Waits' /\ FactsPostdateMiss'
  <2> DEFINE skips == ~NeedsAdbReverse(call[c].pin)
             opened == [call[c] EXCEPT !.at = "capture", !.skips = skips]
  <2>1. skips \in BOOLEAN
    BY DEF NeedsAdbReverse
  <2>2. call' = Become(c, opened) /\ cache' = cache /\ call[c].at = "open"
    BY <1>9 DEF Open, At
  <2> HIDE DEF skips
  <2>3. call[c].stale = FALSE /\ (call[c].linked => Present)
    BY <2>2, CallFields DEF Waits
  <2>4. opened \in Call /\ opened.stale = FALSE /\ opened.linked = call[c].linked
    BY <2>1, <2>3, CallFields DEF Call, Place
  <2> HIDE DEF opened
  <2> QED
    BY <2>2, <2>3, <2>4, BecomeWaits DEF Present, FactsPostdateMiss
<1>10. ASSUME NEW c \in Callers, Confirm(c) PROVE Waits' /\ FactsPostdateMiss'
  <2>1. PICK any \in BOOLEAN :
          call' = NextTarget(c, any) \/ call' = Become(c, Idle("confirmed"))
    BY <1>10 DEF Confirm, End
  <2> DEFINE next == [call[c] EXCEPT !.at = "open", !.skips = FALSE, !.more = FALSE, !.any = any]
  <2>2. call[c].stale = FALSE /\ (call[c].linked => Present)
    BY <1>10, CallFields DEF Confirm, At, Waits
  <2>3. next \in Call /\ next.stale = FALSE /\ next.linked = call[c].linked
    BY <2>2, CallFields DEF Call, Place
  <2>4. cache' = Marked(call[c].pin)
    BY <1>10 DEF Confirm
  <2>5. cache'.sig = cache.sig /\ cache'.stale = cache.stale
    BY <2>4 DEF Marked, TypeOK, Entry
  <2>6. call' = Become(c, next) \/ call' = Become(c, Idle("confirmed"))
    BY <2>1 DEF NextTarget
  <2> HIDE DEF next
  <2> QED
    BY <2>2, <2>3, <2>5, <2>6, IdleTyped, BecomeWaits DEF Present, FactsPostdateMiss, Outcome
<1>11. ASSUME NEW c \in Callers, Miss(c) PROVE Waits' /\ FactsPostdateMiss'
  <2> DEFINE next == [call[c] EXCEPT !.at = "open", !.skips = FALSE, !.more = FALSE, !.any = FALSE]
  <2>1. \/ call' = Become(c, next) /\ UNCHANGED cache
        \/ call' = Become(c, Idle("confirmed")) /\ UNCHANGED cache
        \/ Invalidate(End(c, "missed"))
    BY <1>11 DEF Miss, End, NextTarget
  <2>2. call[c].stale = FALSE /\ (call[c].linked => Present)
    BY <1>11, CallFields DEF Miss, At, Waits
  <2>3. next \in Call /\ next.stale = FALSE /\ next.linked = call[c].linked
    BY <2>2, CallFields DEF Call, Place
  <2> HIDE DEF next
  <2>4. CASE UNCHANGED cache
    BY <2>1, <2>2, <2>3, <2>4, IdleTyped, BecomeWaits, EndTyped, OrphanWaits
    DEF Present, FactsPostdateMiss, Outcome, Invalidate
  <2>5. CASE Invalidate(End(c, "missed"))
    BY <2>5, EndTyped, OrphanWaits DEF Invalidate, NoEntry, FactsPostdateMiss, Outcome
  <2> QED
    BY <2>1, <2>4, <2>5
<1>12. CASE UNCHANGED vars
  BY <1>12 DEF vars, Waits, Present, FactsPostdateMiss
<1> QED
  BY <1>1, <1>2, <1>3, <1>4, <1>5, <1>6, <1>7, <1>8, <1>9, <1>10, <1>11, <1>12
  DEF Next, Calls, Proceed

THEOREM FactsInvariant == Spec => []FactsInv
<1>1. FactsInv /\ [Next]_vars => FactsInv'
  BY StepTyped, StepWaits DEF FactsInv
<1> QED
  BY <1>1, FactsInit, PTL DEF Spec

(* The devices, the entry and the calls keep their shape, the entry is empty *)
(* when the map has none, and only a device that is up is forwarded.         *)
THEOREM TypeCorrect == Spec => []TypeOK
<1>1. FactsInv => TypeOK
  BY DEF FactsInv
<1> QED
  BY <1>1, FactsInvariant, PTL

(* However many calls overlap, no fact probed for before a capture that was   *)
(* not clean is in the cache after it.                                        *)
THEOREM FactsFollowMiss == Spec => []FactsPostdateMiss
<1>1. FactsInv => FactsPostdateMiss
  BY DEF FactsInv
<1> QED
  BY <1>1, FactsInvariant, PTL

-----------------------------------------------------------------------------
(* The device of a call and its platform. *)

(* Past the gate a call's device runs the platform it asked for.  A call is   *)
(* ready only at the gate: a call between two answers has none to pass on.    *)
Onward(k) ==
    /\ k.ready => k.at = "gate"
    /\ (k.ready \/ k.at \in {"metro", "open", "capture"}) /\ k.pin # NoDevice
         => Runs[k.pin] = k.req.platform

(* A checklist that says ready is of a device of the platform in its key: the *)
(* answer a call finds is as good as the one it would have got.               *)
KeyedReady ==
    cache.ready /\ cache.key[2] # NoDevice => Runs[cache.key[2]] = cache.key[1]

PlatformInv == TypeOK /\ KeyedReady /\ \A c \in Callers : Onward(call[c])

LEMMA BecomeOnward ==
  ASSUME TypeOK, \A d \in Callers : Onward(call[d]), NEW c \in Callers, NEW k, Onward(k)
  PROVE  \A d \in Callers : Onward(Become(c, k)[d])
  BY DEF Become, TypeOK

LEMMA OrphanOnward ==
  ASSUME NEW called \in [Callers -> Call], \A d \in Callers : Onward(called[d])
  PROVE  /\ \A d \in Callers : Onward(Orphan(called)[d])
         /\ \A d \in Callers : Onward(Replace(called)[d])
<1>1. ASSUME NEW k \in Call, NEW late \in BOOLEAN, Onward(k)
      PROVE  /\ Onward([k EXCEPT !.linked = FALSE, !.stale = late])
             /\ Onward([k EXCEPT !.linked = FALSE])
  BY <1>1 DEF Onward, Call
<1>2. ASSUME NEW d \in Callers PROVE (called[d].at \in {"list", "check"}) \in BOOLEAN
  OBVIOUS
<1> QED
  BY <1>1, <1>2, Zenon DEF Orphan, Replace

LEMMA IdleOnward ==
  ASSUME NEW outcome \in Outcome
  PROVE  Onward(Idle(outcome))
  BY IdleTyped DEF Onward

LEMMA PlatformInit == Init => PlatformInv
  BY FactsInit, IdleOnward DEF FactsInv, Init, PlatformInv, KeyedReady, NoEntry, Outcome

LEMMA StepPlatform ==
  ASSUME PlatformInv, TypeOK', [Next]_vars
  PROVE  KeyedReady' /\ \A c \in Callers : Onward(call[c])'
<1> USE DEF PlatformInv
<1> DEFINE Goal == KeyedReady' /\ \A c \in Callers : Onward(call[c])'
<1>1. CASE HostChanges
  BY <1>1 DEF HostChanges, Change, Boot, ShutDown, Restart, BumpDeps, AddSource, Rebuild,
              KeyedReady, Onward
<1>2. ASSUME NEW c \in Callers, NEW q \in Requests, Begin(c, q) PROVE Goal
  <2> PICK more \in BOOLEAN :
        LET called == Become(c, Fresh(q, more))
        IN IF q.reload THEN Invalidate(called) ELSE call' = called /\ UNCHANGED cache
    BY <1>2 DEF Begin
  <2>1. Fresh(q, more) \in Call /\ Become(c, Fresh(q, more)) \in [Callers -> Call]
    BY FreshTyped, BecomeTyped
  <2>2. \A d \in Callers : Onward(Become(c, Fresh(q, more))[d])
    BY BecomeOnward DEF Fresh, Onward
  <2>3. CASE q.reload
    BY <2>1, <2>2, <2>3, OrphanOnward DEF Invalidate, NoEntry, KeyedReady
  <2>4. CASE ~q.reload
    BY <2>2, <2>4 DEF KeyedReady
  <2> QED
    BY <2>3, <2>4
<1>3. ASSUME NEW c \in Callers, Probe(c) PROVE Goal
  <2> DEFINE seen == [call[c] EXCEPT !.hash = build]
             kept == [seen EXCEPT !.at = "pin", !.devices = cache.devices]
             asks == [seen EXCEPT !.at = "list", !.linked = Present]
  <2>1. (call' = Become(c, kept) \/ call' = Become(c, asks)) /\ cache' = cache
    BY <1>3 DEF Probe
  <2>2. call[c].ready = FALSE /\ Onward(call[c])
    BY <1>3, CallFields DEF Probe, At, Onward, Call
  <2>3. Onward(kept) /\ Onward(asks)
    BY <2>2, CallFields DEF Onward, Call, TypeOK, Entry, Present
  <2> HIDE DEF kept, asks
  <2> QED
    BY <2>1, <2>3, BecomeOnward DEF KeyedReady
<1>4. ASSUME NEW c \in Callers, List(c) PROVE Goal
  <2> DEFINE p == call[c].req.platform
  <2> PICK devices \in SUBSET Devices :
        /\ cache' = Kept(c, KeepDevices(p, devices, call[c].stale))
        /\ call' = Become(c, [call[c] EXCEPT !.at = "pin", !.devices = devices,
                                             !.linked = FALSE, !.stale = FALSE])
    BY <1>4 DEF List
  <2> DEFINE listed == [call[c] EXCEPT !.at = "pin", !.devices = devices,
                                       !.linked = FALSE, !.stale = FALSE]
  <2>1. call[c].ready = FALSE
    BY <1>4, CallFields DEF List, At, Onward, Call
  <2>2. Onward(listed)
    BY <2>1, CallFields DEF Onward, Call
  <2>3. cache'.key = cache.key /\ cache'.ready = cache.ready
    BY CallFields DEF Kept, KeepDevices, TypeOK, Entry
  <2> HIDE DEF listed
  <2> QED
    BY <2>2, <2>3, BecomeOnward DEF listed, KeyedReady
<1>5. ASSUME NEW c \in Callers, PinDevice(c) PROVE Goal
  <2> DEFINE pinned == [call[c] EXCEPT !.pin = Pinned(c), !.devices = {}]
             kept == [pinned EXCEPT !.at = "gate", !.hash = 0, !.ready = cache.ready]
             asks == [pinned EXCEPT !.at = "check", !.linked = Present]
             key == KeyOf(call[c].req.platform, Pinned(c), call[c].hash)
  <2>1. /\ cache' = cache
        /\ \/ call' = Become(c, Idle("refused"))
           \/ call' = Become(c, kept) /\ cache.key = key
           \/ call' = Become(c, asks)
    BY <1>5 DEF PinDevice, End, ReadinessCached
  <2>2. call[c].ready = FALSE /\ Pinned(c) \in Pin /\ cache.ready \in BOOLEAN
    BY <1>5, CallFields DEF PinDevice, At, Onward, Call, Pinned, Pin, TypeOK, Entry
  <2>3. cache.key = key => Onward(kept)
    BY <2>2, CallFields DEF Onward, Call, KeyedReady, KeyOf
  <2>4. Onward(asks)
    BY <2>2, CallFields DEF Onward, Call, Present
  <2> HIDE DEF kept, asks, key
  <2> QED
    BY <2>1, <2>3, <2>4, IdleOnward, BecomeOnward DEF KeyedReady, Outcome
<1>6. ASSUME NEW c \in Callers, Check(c) PROVE Goal
  <2> DEFINE p == call[c].req.platform
             key == KeyOf(p, call[c].pin, call[c].hash)
  <2> PICK ready \in BOOLEAN :
        /\ ready => IsReady(c)
        /\ cache' = Kept(c, KeepReadiness(key, ready, call[c].stale))
        /\ call' = Become(c, [call[c] EXCEPT !.at = "gate", !.ready = ready, !.hash = 0,
                                             !.linked = FALSE, !.stale = FALSE])
    BY <1>6 DEF Check
  <2> DEFINE checked == [call[c] EXCEPT !.at = "gate", !.ready = ready, !.hash = 0,
                                        !.linked = FALSE, !.stale = FALSE]
             kept == KeepReadiness(key, ready, call[c].stale)
  <2>1. ready /\ call[c].pin # NoDevice => Runs[call[c].pin] = p
    BY DEF IsReady, Reached, BootedOn
  <2>2. Onward(checked)
    BY <2>1, CallFields DEF Onward, Call
  <2>3. kept.key = key /\ kept.ready = ready
    BY CallFields DEF KeepReadiness, TypeOK, Entry
  <2>4. key[1] = p /\ key[2] = call[c].pin
    BY DEF KeyOf
  <2>5. cache' = IF call[c].linked THEN kept ELSE cache
    BY DEF Kept
  <2> HIDE DEF checked, kept, key, p
  <2>6. KeyedReady'
    BY <2>1, <2>3, <2>4, <2>5 DEF KeyedReady
  <2> QED
    BY <2>2, <2>6, BecomeOnward DEF checked
<1>7. ASSUME NEW c \in Callers, Gate(c) PROVE Goal
  <2> DEFINE sig == <<sources, call[c].req.platform>>
             past == [call[c] EXCEPT !.at = "metro", !.ready = FALSE]
  <2>1. \/ call' = Become(c, Idle("refused")) /\ cache' = cache
        \/ /\ call[c].ready
           /\ call' = Become(c, past) \/ call' = Replace(Become(c, past))
           /\ cache' = cache \/ cache' = Prepared(sig)
    BY <1>7 DEF Gate, End
  <2>2. call[c].ready => Onward(past)
    BY CallFields DEF Onward, Call
  <2>3. past \in Call
    BY CallFields DEF Call, Place
  <2>4. Prepared(sig).key = cache.key /\ Prepared(sig).ready = cache.ready
    BY DEF Prepared, TypeOK, Entry
  <2> HIDE DEF past
  <2>5. KeyedReady'
    BY <2>1, <2>4 DEF KeyedReady
  <2>6. CASE call' = Become(c, Idle("refused"))
    BY <2>5, <2>6, IdleOnward, BecomeOnward DEF Outcome
  <2>7. CASE call[c].ready /\ (call' = Become(c, past) \/ call' = Replace(Become(c, past)))
    BY <2>2, <2>3, <2>5, <2>7, BecomeOnward, BecomeTyped, OrphanOnward
  <2> QED
    BY <2>1, <2>6, <2>7
<1>8. ASSUME NEW c \in Callers, Metro(c) PROVE Goal
  <2> DEFINE opens == [call[c] EXCEPT !.at = "open"]
  <2>1. call[c].at = "metro" /\ Onward(call[c])
    BY <1>8 DEF Metro, At
  <2>2. Onward(opens)
    BY <2>1, CallFields DEF Onward, Call
  <2> HIDE DEF opens
  <2>3. CASE call' = Goto(c, "open") /\ UNCHANGED cache
    BY <2>2, <2>3, BecomeOnward DEF Goto, opens, KeyedReady
  <2>4. CASE Invalidate(End(c, "refused"))
    BY <2>4, EndTyped, IdleOnward, BecomeOnward, OrphanOnward
    DEF Invalidate, End, NoEntry, KeyedReady, Outcome
  <2> QED
    BY <1>8, <2>3, <2>4 DEF Metro
<1>9. ASSUME NEW c \in Callers, Open(c) PROVE Goal
  <2> DEFINE skips == ~NeedsAdbReverse(call[c].pin)
             opened == [call[c] EXCEPT !.at = "capture", !.skips = skips]
  <2>1. skips \in BOOLEAN
    BY DEF NeedsAdbReverse
  <2>2. call' = Become(c, opened) /\ cache' = cache /\ call[c].at = "open"
    BY <1>9 DEF Open, At
  <2> HIDE DEF skips
  <2>3. Onward(opened)
    BY <2>1, <2>2, CallFields DEF Onward, Call
  <2> HIDE DEF opened
  <2> QED
    BY <2>2, <2>3, BecomeOnward DEF KeyedReady
<1>10. ASSUME NEW c \in Callers, Confirm(c) PROVE Goal
  <2> DEFINE next == [call[c] EXCEPT !.at = "open", !.skips = FALSE, !.more = FALSE, !.any = TRUE]
  <2>1. call' = Become(c, next) \/ call' = Become(c, Idle("confirmed"))
    BY <1>10 DEF Confirm, NextTarget, End
  <2>2. call[c].at = "capture" /\ Onward(call[c])
    BY <1>10 DEF Confirm, At
  <2>3. Onward(next)
    BY <2>2, CallFields DEF Onward, Call
  <2>4. cache' = Marked(call[c].pin)
    BY <1>10 DEF Confirm
  <2>5. cache'.key = cache.key /\ cache'.ready = cache.ready
    BY <2>4 DEF Marked, TypeOK, Entry
  <2> HIDE DEF next
  <2> QED
    BY <2>1, <2>3, <2>5, IdleOnward, BecomeOnward DEF KeyedReady, Outcome
<1>11. ASSUME NEW c \in Callers, Miss(c) PROVE Goal
  <2> DEFINE next == [call[c] EXCEPT !.at = "open", !.skips = FALSE, !.more = FALSE, !.any = FALSE]
  <2>1. \/ call' = Become(c, next) /\ UNCHANGED cache
        \/ call' = Become(c, Idle("confirmed")) /\ UNCHANGED cache
        \/ Invalidate(End(c, "missed"))
    BY <1>11 DEF Miss, End, NextTarget
  <2>2. call[c].at = "capture" /\ Onward(call[c])
    BY <1>11 DEF Miss, At
  <2>3. Onward(next)
    BY <2>2, CallFields DEF Onward, Call
  <2> HIDE DEF next
  <2>4. CASE UNCHANGED cache /\ (call' = Become(c, next) \/ call' = Become(c, Idle("confirmed")))
    BY <2>3, <2>4, IdleOnward, BecomeOnward DEF KeyedReady, Outcome
  <2>5. CASE Invalidate(End(c, "missed"))
    BY <2>5, EndTyped, IdleOnward, BecomeOnward, OrphanOnward
    DEF Invalidate, End, NoEntry, KeyedReady, Outcome
  <2> QED
    BY <2>1, <2>4, <2>5
<1>12. CASE UNCHANGED vars
  BY <1>12 DEF vars, KeyedReady, Onward
<1> QED
  BY <1>1, <1>2, <1>3, <1>4, <1>5, <1>6, <1>7, <1>8, <1>9, <1>10, <1>11, <1>12
  DEF Next, Calls, Proceed

THEOREM PlatformInvariant == Spec => []PlatformInv
<1>1. PlatformInv /\ TypeOK' /\ [Next]_vars => PlatformInv'
  BY StepPlatform DEF PlatformInv
<1> QED
  BY <1>1, PlatformInit, TypeCorrect, PTL DEF Spec

(* Whatever device a call names and whatever checklist it finds in the cache, *)
(* it drives no device of another platform.                                   *)
THEOREM DrivesItsPlatform == Spec => []PinnedOnItsPlatform
<1>1. PlatformInv => PinnedOnItsPlatform
  BY DEF PlatformInv, Onward, PinnedOnItsPlatform
<1> QED
  BY <1>1, PlatformInvariant, PTL

-----------------------------------------------------------------------------
(* The flag in the entry and the forwards made. *)

(* The flag names an Android device only after a capture asserted its         *)
(* forwards, although it is set at the end of a capture that may have         *)
(* asserted nothing: such a capture went by a flag that named its device.     *)
FlagMade ==
    cache.reversed # NoDevice =>
        Runs[cache.reversed] = "ios" \/ cache.reversed \in reversed

Made(k) ==
    k.at = "capture" /\ k.req.platform = "android" /\ k.pin # NoDevice
      => k.pin \in reversed

ForwardInv == FlagMade /\ \A c \in Callers : Made(call[c])

LEMMA ForwardInit == Init => ForwardInv
  BY IdleTyped DEF Init, ForwardInv, FlagMade, Made, NoEntry, Outcome

(* The history only grows, and a step that puts no caller into a capture      *)
(* leaves every caller that is in one as it was.                              *)
LEMMA GrowsMade ==
  ASSUME TypeOK, TypeOK', ForwardInv, reversed \subseteq reversed',
         \A c \in Callers : call'[c].at = "capture" =>
             /\ call[c].at = "capture"
             /\ call'[c].req = call[c].req
             /\ call'[c].pin = call[c].pin
  PROVE  \A c \in Callers : Made(call[c])'
  BY DEF ForwardInv, Made

LEMMA OthersCapture ==
  ASSUME TypeOK, NEW c \in Callers, NEW k \in Call, k.at # "capture",
         \/ call' = Become(c, k)
         \/ call' = Replace(Become(c, k))
         \/ call' = Orphan(Become(c, k))
  PROVE  \A d \in Callers : call'[d].at = "capture" =>
             /\ call[d].at = "capture"
             /\ call'[d].req = call[d].req
             /\ call'[d].pin = call[d].pin
<1> DEFINE called == Become(c, k)
<1>1. called \in [Callers -> Call]
  BY BecomeTyped
<1>2. \A d \in Callers : called[d] = IF d = c THEN k ELSE call[d]
  BY DEF Become, TypeOK
<1>3. ASSUME NEW r \in Call, NEW late \in BOOLEAN
      PROVE  /\ [r EXCEPT !.linked = FALSE, !.stale = late].at = r.at
             /\ [r EXCEPT !.linked = FALSE, !.stale = late].req = r.req
             /\ [r EXCEPT !.linked = FALSE, !.stale = late].pin = r.pin
  BY DEF Call
<1> HIDE DEF called
<1>4. CASE call' = Become(c, k)
  BY <1>2, <1>4 DEF called
<1>5. CASE call' = Replace(Become(c, k))
  <2>1. ASSUME NEW d \in Callers
        PROVE  /\ call'[d].at = called[d].at
               /\ call'[d].req = called[d].req
               /\ call'[d].pin = called[d].pin
    <3>1. call'[d] = [called[d] EXCEPT !.linked = FALSE]
      BY <1>5 DEF Replace, called
    <3>2. called[d] \in Call
      BY <1>1
    <3> QED
      BY <3>1, <3>2 DEF Call
  <2> QED
    BY <1>2, <2>1
<1>6. CASE call' = Orphan(Become(c, k))
  <2>1. ASSUME NEW d \in Callers
        PROVE  /\ call'[d].at = called[d].at
               /\ call'[d].req = called[d].req
               /\ call'[d].pin = called[d].pin
    <3>1. call'[d] = [called[d] EXCEPT !.linked = FALSE,
                                      !.stale = called[d].at \in {"list", "check"}]
      BY <1>6, Zenon DEF Orphan, called
    <3> DEFINE late == called[d].at \in {"list", "check"}
    <3>2. called[d] \in Call /\ late \in BOOLEAN
      BY <1>1
    <3>3. call'[d] = [called[d] EXCEPT !.linked = FALSE, !.stale = late]
      BY <3>1, Zenon
    <3> HIDE DEF late
    <3> QED
      BY <1>3, <3>2, <3>3
  <2> QED
    BY <1>2, <2>1
<1> QED
  BY <1>4, <1>5, <1>6 DEF called

LEMMA StepForward ==
  ASSUME PlatformInv, TypeOK', ForwardInv, [Next]_vars
  PROVE  ForwardInv'
<1> USE DEF PlatformInv
<1>1. CASE HostChanges
  <2>1. reversed' = reversed /\ cache' = cache /\ call' = call
    BY <1>1 DEF HostChanges, Change, Boot, ShutDown, Restart, BumpDeps, AddSource, Rebuild
  <2> QED
    BY <2>1 DEF ForwardInv, FlagMade, Made
<1>2. ASSUME NEW c \in Callers, NEW k \in Call, k.at # "capture",
             \/ call' = Become(c, k)
             \/ call' = Replace(Become(c, k))
             \/ call' = Orphan(Become(c, k)),
             UNCHANGED reversed, FlagMade'
      PROVE  ForwardInv'
  <2>1. \A d \in Callers : Made(call[d])'
    BY <1>2, OthersCapture, GrowsMade
  <2> QED
    BY <1>2, <2>1 DEF ForwardInv
<1>3. ASSUME cache' = NoEntry \/ cache'.reversed \in {cache.reversed, NoDevice},
             UNCHANGED reversed
      PROVE  FlagMade'
  BY <1>3 DEF ForwardInv, FlagMade, NoEntry
<1>4. ASSUME NEW c \in Callers, NEW q \in Requests, Begin(c, q) PROVE ForwardInv'
  <2> PICK more \in BOOLEAN :
        LET called == Become(c, Fresh(q, more))
        IN IF q.reload THEN Invalidate(called) ELSE call' = called /\ UNCHANGED cache
    BY <1>4 DEF Begin
  <2>1. Fresh(q, more) \in Call /\ Fresh(q, more).at # "capture"
    BY FreshTyped DEF Fresh
  <2>2. UNCHANGED reversed
    BY <1>4 DEF Begin, host
  <2> QED
    BY <1>2, <1>3, <2>1, <2>2 DEF Invalidate
<1>5. ASSUME NEW c \in Callers, Probe(c) PROVE ForwardInv'
  <2> DEFINE seen == [call[c] EXCEPT !.hash = build]
             kept == [seen EXCEPT !.at = "pin", !.devices = cache.devices]
             asks == [seen EXCEPT !.at = "list", !.linked = Present]
  <2>1. call' = Become(c, kept) \/ call' = Become(c, asks)
    BY <1>5 DEF Probe
  <2>2. cache' = cache /\ UNCHANGED reversed
    BY <1>5 DEF Probe, host
  <2>3. kept \in Call /\ kept.at # "capture" /\ asks \in Call /\ asks.at # "capture"
    <3>1. seen \in Call
      BY CallFields DEF Call, TypeOK
    <3> QED
      BY <3>1 DEF Call, Place, TypeOK, Entry, Present
  <2> HIDE DEF kept, asks
  <2> QED
    BY <1>2, <1>3, <2>1, <2>2, <2>3
<1>6. ASSUME NEW c \in Callers, List(c) PROVE ForwardInv'
  <2> DEFINE p == call[c].req.platform
  <2> PICK devices \in SUBSET Devices :
        /\ cache' = Kept(c, KeepDevices(p, devices, call[c].stale))
        /\ call' = Become(c, [call[c] EXCEPT !.at = "pin", !.devices = devices,
                                             !.linked = FALSE, !.stale = FALSE])
    BY <1>6 DEF List
  <2> DEFINE listed == [call[c] EXCEPT !.at = "pin", !.devices = devices,
                                       !.linked = FALSE, !.stale = FALSE]
  <2>1. listed \in Call /\ listed.at # "capture"
    BY CallFields DEF Call, Place
  <2>2. cache'.reversed \in {cache.reversed, NoDevice}
    BY CallFields DEF Kept, KeepDevices, TypeOK, Entry
  <2>3. UNCHANGED reversed
    BY <1>6 DEF List, host
  <2> HIDE DEF listed
  <2> QED
    BY <1>2, <1>3, <2>1, <2>2, <2>3 DEF listed
<1>7. ASSUME NEW c \in Callers, PinDevice(c) PROVE ForwardInv'
  <2> DEFINE pinned == [call[c] EXCEPT !.pin = Pinned(c), !.devices = {}]
             kept == [pinned EXCEPT !.at = "gate", !.hash = 0, !.ready = cache.ready]
             asks == [pinned EXCEPT !.at = "check", !.linked = Present]
  <2>1. \/ call' = Become(c, Idle("refused"))
        \/ call' = Become(c, kept)
        \/ call' = Become(c, asks)
    BY <1>7 DEF PinDevice, End
  <2>2. cache' = cache /\ UNCHANGED reversed
    BY <1>7 DEF PinDevice, host
  <2>3. Pinned(c) \in Pin /\ cache.ready \in BOOLEAN
    BY CallFields DEF Pinned, Pin, TypeOK, Entry
  <2>4. kept \in Call /\ kept.at # "capture" /\ asks \in Call /\ asks.at # "capture"
    BY <2>3, CallFields DEF Call, Place, Present
  <2> HIDE DEF kept, asks
  <2> QED
    BY <1>2, <1>3, <2>1, <2>2, <2>4, IdleTyped DEF Outcome
<1>8. ASSUME NEW c \in Callers, Check(c) PROVE ForwardInv'
  <2> DEFINE key == KeyOf(call[c].req.platform, call[c].pin, call[c].hash)
  <2> PICK ready \in BOOLEAN :
        /\ cache' = Kept(c, KeepReadiness(key, ready, call[c].stale))
        /\ call' = Become(c, [call[c] EXCEPT !.at = "gate", !.ready = ready, !.hash = 0,
                                             !.linked = FALSE, !.stale = FALSE])
    BY <1>8 DEF Check
  <2> DEFINE checked == [call[c] EXCEPT !.at = "gate", !.ready = ready, !.hash = 0,
                                        !.linked = FALSE, !.stale = FALSE]
  <2>1. checked \in Call /\ checked.at # "capture"
    BY CallFields DEF Call, Place
  <2>2. cache'.reversed = cache.reversed
    BY CallFields DEF Kept, KeepReadiness, TypeOK, Entry
  <2>3. UNCHANGED reversed
    BY <1>8 DEF Check, host
  <2> HIDE DEF checked
  <2> QED
    BY <1>2, <1>3, <2>1, <2>2, <2>3 DEF checked
<1>9. ASSUME NEW c \in Callers, Gate(c) PROVE ForwardInv'
  <2> DEFINE past == [call[c] EXCEPT !.at = "metro", !.ready = FALSE]
  <2>1. \/ call' = Become(c, Idle("refused"))
        \/ call' = Become(c, past)
        \/ call' = Replace(Become(c, past))
    BY <1>9 DEF Gate, End
  <2>2. cache'.reversed = cache.reversed /\ UNCHANGED reversed
    BY <1>9 DEF Gate, host, Prepared, TypeOK, Entry
  <2>3. past \in Call /\ past.at # "capture"
    BY CallFields DEF Call, Place
  <2> HIDE DEF past
  <2> QED
    BY <1>2, <1>3, <2>1, <2>2, <2>3, IdleTyped DEF Outcome
<1>10. ASSUME NEW c \in Callers, Metro(c) PROVE ForwardInv'
  <2> DEFINE opens == [call[c] EXCEPT !.at = "open"]
  <2>1. \/ call' = Become(c, opens) /\ cache' = cache
        \/ call' = Orphan(Become(c, Idle("refused"))) /\ cache' = NoEntry
    BY <1>10 DEF Metro, Goto, Invalidate, End
  <2>2. UNCHANGED reversed
    BY <1>10 DEF Metro, host
  <2>3. opens \in Call /\ opens.at # "capture"
    BY CallFields DEF Call, Place
  <2> HIDE DEF opens
  <2> QED
    BY <1>2, <1>3, <2>1, <2>2, <2>3, IdleTyped DEF Outcome
<1>11. ASSUME NEW c \in Callers, Open(c) PROVE ForwardInv'
  <2> DEFINE skips == ~NeedsAdbReverse(call[c].pin)
             opened == [call[c] EXCEPT !.at = "capture", !.skips = skips]
  <2>1. skips \in BOOLEAN
    BY DEF NeedsAdbReverse
  <2>2. /\ call' = Become(c, opened) /\ cache' = cache
        /\ reversed \subseteq reversed'
    BY <1>11 DEF Open
  <2>3. call[c].req.platform = "android" => skips \/ call[c].pin \in reversed'
    BY <1>11 DEF Open
  <2>4. skips => cache.reversed = call[c].pin
    BY DEF NeedsAdbReverse
  <2>5. Onward(call[c]) /\ call[c].at = "open"
    BY <1>11 DEF Open, At
  <2> HIDE DEF skips
  <2>6. opened.pin = call[c].pin /\ opened.req = call[c].req
    BY <2>1, CallFields DEF Call
  <2>7. call[c].req.platform = "android" /\ call[c].pin # NoDevice
          => call[c].pin \in reversed'
    BY <2>2, <2>3, <2>4, <2>5 DEF Onward, ForwardInv, FlagMade
  <2> HIDE DEF opened
  <2>8. call'[c] = opened /\ \A d \in Callers \ {c} : call'[d] = call[d]
    BY <2>2 DEF Become, TypeOK
  <2>9. \A d \in Callers : Made(call[d])'
    BY <2>2, <2>6, <2>7, <2>8 DEF Made, ForwardInv
  <2> QED
    BY <2>2, <2>9 DEF ForwardInv, FlagMade
<1>12. ASSUME NEW c \in Callers, Confirm(c) PROVE ForwardInv'
  <2> DEFINE next == [call[c] EXCEPT !.at = "open", !.skips = FALSE, !.more = FALSE, !.any = TRUE]
  <2>1. call' = Become(c, next) \/ call' = Become(c, Idle("confirmed"))
    BY <1>12 DEF Confirm, NextTarget, End
  <2>2. /\ cache' = Marked(call[c].pin)
        /\ call[c].at = "capture" /\ UNCHANGED reversed
    BY <1>12 DEF Confirm, At, host
  <2>3. next \in Call /\ next.at # "capture"
    BY CallFields DEF Call, Place
  <2>4. call[c].pin # NoDevice /\ Runs[call[c].pin] # "ios" => call[c].pin \in reversed
    <3> SUFFICES ASSUME call[c].pin # NoDevice, Runs[call[c].pin] # "ios"
                 PROVE  call[c].pin \in reversed
      OBVIOUS
    <3>1. Runs[call[c].pin] = call[c].req.platform
      BY <2>2 DEF Onward
    <3>2. call[c].req.platform = "android"
      BY <3>1, CallFields DEF Platform
    <3> QED
      BY <2>2, <3>2 DEF ForwardInv, Made
  <2>5. cache'.reversed = call[c].pin \/ cache' = cache
    BY <2>2 DEF Marked, TypeOK, Entry
  <2>6. FlagMade'
    BY <1>3, <2>2, <2>4, <2>5 DEF FlagMade
  <2> HIDE DEF next
  <2> QED
    BY <1>2, <2>1, <2>2, <2>3, <2>6, IdleTyped DEF Outcome
<1>13. ASSUME NEW c \in Callers, Miss(c) PROVE ForwardInv'
  <2> DEFINE next == [call[c] EXCEPT !.at = "open", !.skips = FALSE, !.more = FALSE, !.any = FALSE]
  <2>1. \/ call' = Become(c, next) /\ cache' = cache
        \/ call' = Become(c, Idle("confirmed")) /\ cache' = cache
        \/ call' = Orphan(Become(c, Idle("missed"))) /\ cache' = NoEntry
    BY <1>13 DEF Miss, End, NextTarget, Invalidate
  <2>2. UNCHANGED reversed
    BY <1>13 DEF Miss, host
  <2>3. next \in Call /\ next.at # "capture"
    BY CallFields DEF Call, Place
  <2> HIDE DEF next
  <2> QED
    BY <1>2, <1>3, <2>1, <2>2, <2>3, IdleTyped DEF Outcome
<1>14. CASE UNCHANGED vars
  BY <1>14 DEF vars, host, ForwardInv, FlagMade, Made
<1> QED
  BY <1>1, <1>4, <1>5, <1>6, <1>7, <1>8, <1>9, <1>10, <1>11, <1>12, <1>13, <1>14
  DEF Next, Calls, Proceed

(* A capture leaves out the forwards only for a device that had them          *)
(* asserted.                                                                  *)
THEOREM SkipsOnlyMade == Spec => []SkippedForwardWasMade
<1>1. PlatformInv /\ TypeOK' /\ ForwardInv /\ [Next]_vars => ForwardInv'
  BY StepForward
<1>2. ForwardInv => SkippedForwardWasMade
  BY DEF ForwardInv, Made, SkippedForwardWasMade
<1> QED
  BY <1>1, <1>2, ForwardInit, PlatformInvariant, TypeCorrect, PTL DEF Spec
=============================================================================
