--------------------------- MODULE BridgePortProofs ---------------------------
(***************************************************************************)
(* Who owns the bridge port, for any number of processes, callers and      *)
(* kills: a handle says "local" when, and only when, it is the listener.   *)
(***************************************************************************)
EXTENDS BridgePort, TLAPS

-----------------------------------------------------------------------------
\* Types.

(* A call that waits for an ack, or got one, has the companion it was       *)
(* written to.                                                              *)
HasDevice(k) ==
    k.outcome = "ack" \/ k.at \in {"serve", "wait"} => k.by \in Platforms

CallsOK == call \in [Calls -> Call] /\ \A c \in Calls : HasDevice(call[c])

TypeInv == TypeOK /\ CallsOK

(* What a handle hears of the owner is a status. *)
LEMMA IngestTypes ==
    ASSUME TypeOK, NEW h \in Hosts, Ingest(h)
    PROVE  cache' \in [Hosts -> [connected : BOOLEAN, device : Device]]
<1>1. Heard(h) \in [connected : BOOLEAN, device : Device]
  BY DEF TypeOK, Heard, Known, Device
<1> QED
  BY <1>1 DEF TypeOK, Ingest

LEMMA OneCall ==
    ASSUME CallsOK, NEW c \in Calls, NEW k \in Call, HasDevice(k),
           call' = [call EXCEPT ![c] = k]
    PROVE  CallsOK'
  BY DEF CallsOK

LEMMA EndCall ==
    ASSUME CallsOK, NEW c \in Calls, NEW outcome \in Outcome, NEW by \in Device,
           outcome = "ack" => by \in Platforms, End(c, outcome, by)
    PROVE  CallsOK'
<1> DEFINE k == [call[c] EXCEPT !.at = "done", !.outcome = outcome, !.by = by,
                                !.server = Free]
<1>1. call[c] \in Call
  BY DEF CallsOK
<1>2. k \in Call /\ k.outcome = outcome /\ k.by = by /\ k.at = "done"
  BY <1>1 DEF Call, Place
<1>3. call' = [call EXCEPT ![c] = k]
  BY DEF End
<1> QED
  BY <1>2, <1>3, OneCall DEF HasDevice

LEMMA GotoCall ==
    ASSUME CallsOK, NEW c \in Calls, NEW place \in Place \ {"serve", "wait"},
           Goto(c, place)
    PROVE  CallsOK'
<1> DEFINE k == [call[c] EXCEPT !.at = place]
<1>1. call[c] \in Call /\ HasDevice(call[c])
  BY DEF CallsOK
<1>2. k \in Call /\ k.outcome = call[c].outcome /\ k.by = call[c].by /\ k.at = place
  BY <1>1 DEF Call
<1>3. call' = [call EXCEPT ![c] = k]
  BY DEF Goto
<1> QED
  BY <1>1, <1>2, <1>3, OneCall DEF HasDevice

LEMMA SendCall ==
    ASSUME TypeInv, NEW c \in Calls, NEW server \in Hosts, Send(c, server)
    PROVE  CallsOK' /\ lastDrive' \subseteq Calls
<1>1. CASE attached = NoDevice
  <2>1. End(c, "no-device", NoDevice) /\ lastDrive' = lastDrive
    BY <1>1 DEF Send
  <2> QED
    BY <2>1, EndCall DEF TypeInv, TypeOK, Outcome, Device
<1>2. CASE attached # NoDevice
  <2> DEFINE k == [call[c] EXCEPT !.at = IF server = Of[c] THEN "wait" ELSE "serve",
                                  !.server = server, !.by = attached]
  <2>1. call[c] \in Call /\ attached \in Platforms
    BY <1>2 DEF TypeInv, CallsOK, TypeOK, Device
  <2>2. k \in Call /\ k.by = attached
    BY <2>1 DEF Call, Place, Device
  <2>3. call' = [call EXCEPT ![c] = k] /\ lastDrive' = {c}
    BY <1>2 DEF Send
  <2> QED
    BY <2>1, <2>2, <2>3, OneCall DEF TypeInv, HasDevice
<1> QED
  BY <1>1, <1>2

(* Whoever may answer a waiting call is a companion. *)
LEMMA AcksType ==
    ASSUME TypeInv, NEW c \in Calls, call[c].at \in {"serve", "wait"}
    PROVE  Acks(c) \subseteq Platforms
  BY DEF TypeInv, TypeOK, CallsOK, HasDevice, Acks, Device

LEMMA TypeStep == TypeInv /\ [Next]_vars => TypeInv'
<1> SUFFICES ASSUME TypeInv, [Next]_vars PROVE TypeInv'
  OBVIOUS
<1> USE PortAssumption DEF deviceVars, Quiet
<1>call. ASSUME CallsOK',
              UNCHANGED crashes,
              /\ port' \in Hosts \cup {Free, Stranger}
              /\ mode' \in [Hosts -> Mode]
              /\ recovering' \subseteq Hosts
              /\ attached' \in Device /\ greeted' \in BOOLEAN
              /\ lastDrive' \subseteq Calls
              /\ cache' \in [Hosts -> [connected : BOOLEAN, device : Device]]
         PROVE TypeInv'
  BY <1>call DEF TypeInv, TypeOK, CallsOK, HasDevice
<1>same. ASSUME UNCHANGED call PROVE CallsOK'
  BY <1>same DEF TypeInv, CallsOK
<1>1. ASSUME NEW h \in Hosts, Start(h) PROVE TypeInv'
  <2>1. NoStatus \in [connected : BOOLEAN, device : Device]
    BY DEF NoStatus, Device
  <2> QED
    BY <1>1, <1>same, <2>1 DEF Start, TypeInv, TypeOK, Mode
<1>2. ASSUME NEW h \in Hosts, Bind(h) PROVE TypeInv'
  BY <1>2, <1>same DEF Bind, TypeInv, TypeOK, Mode
<1>3. ASSUME NEW h \in Hosts, Probe(h) PROVE TypeInv'
  <2>1. cache' \in [Hosts -> [connected : BOOLEAN, device : Device]]
    BY <1>3, IngestTypes DEF Probe, TypeInv, TypeOK
  <2> QED
    BY <1>3, <1>same, <2>1 DEF Probe, TypeInv, TypeOK, Mode
<1>4. ASSUME NEW h \in Hosts, Close(h) PROVE TypeInv'
  BY <1>4, <1>same DEF Close, Vacate, TypeInv, TypeOK, Mode, Device
<1>5. ASSUME NEW h \in Hosts, Crash(h) PROVE TypeInv'
  <2>1. NoCall \in Call /\ HasDevice(NoCall)
    BY DEF NoCall, Call, Place, Device, Outcome, HasDevice
  <2>2. CallsOK'
    BY <1>5, <2>1 DEF Crash, TypeInv, CallsOK
  <2>3. /\ port' \in Hosts \cup {Free, Stranger}
        /\ attached' \in Device /\ greeted' \in BOOLEAN /\ lastDrive' \subseteq Calls
    BY <1>5 DEF Crash, Vacate, TypeInv, TypeOK, Device
  <2>4. crashes' \in 0 .. MaxCrashes
    BY <1>5 DEF Crash, TypeInv, TypeOK
  <2>5. /\ mode' \in [Hosts -> Mode] /\ recovering' \subseteq Hosts
        /\ cache' \in [Hosts -> [connected : BOOLEAN, device : Device]]
    BY <1>5 DEF Crash, TypeInv, TypeOK, Mode
  <2> QED
    BY <2>2, <2>3, <2>4, <2>5 DEF TypeInv, TypeOK, CallsOK, HasDevice
<1>6. CASE StrangerLeaves
  BY <1>6, <1>same DEF StrangerLeaves, TypeInv, TypeOK
<1>7. ASSUME NEW p \in Platforms, DeviceAttaches(p) PROVE TypeInv'
  BY <1>7, <1>same DEF DeviceAttaches, TypeInv, TypeOK, Device
<1>8. CASE DeviceGreets
  BY <1>8, <1>same DEF DeviceGreets, TypeInv, TypeOK
<1>9. CASE DeviceLeaves
  BY <1>9, <1>same DEF DeviceLeaves, TypeInv, TypeOK, Device
<1>10. ASSUME NEW c \in Calls, Navigate(c) PROVE TypeInv'
  <2> DEFINE k == [NoCall EXCEPT !.at = "ready", !.freed = port = Free]
  <2>1. k \in Call /\ HasDevice(k)
    BY DEF NoCall, Call, Place, Device, Outcome, HasDevice
  <2>2. call' = [call EXCEPT ![c] = k]
    BY <1>10 DEF Navigate
  <2>3. CallsOK'
    BY <2>1, <2>2, OneCall DEF TypeInv
  <2> QED
    BY <1>10, <1>call, <2>3 DEF Navigate, TypeInv, TypeOK
<1>11. ASSUME NEW c \in Calls, Route(c) PROVE TypeInv'
  <2>1. Of[c] \in Hosts
    OBVIOUS
  <2>2. CASE End(c, "port-held", NoDevice) /\ UNCHANGED lastDrive
    <3>1. CallsOK'
      BY <2>2, EndCall DEF TypeInv, Outcome, Device
    <3> QED
      BY <1>11, <1>call, <2>2, <3>1 DEF Route, TypeInv, TypeOK
  <2>3. CASE Goto(c, "hop") /\ UNCHANGED lastDrive
    <3>1. CallsOK'
      BY <2>3, GotoCall DEF TypeInv, Place
    <3> QED
      BY <1>11, <1>call, <2>3, <3>1 DEF Route, TypeInv, TypeOK
  <2>4. CASE Send(c, Of[c])
    <3>1. CallsOK' /\ lastDrive' \subseteq Calls
      BY <2>1, <2>4, SendCall
    <3> QED
      BY <1>11, <1>call, <3>1 DEF Route, TypeInv, TypeOK
  <2>5. CASE End(c, "no-device", NoDevice) /\ UNCHANGED lastDrive
    <3>1. CallsOK'
      BY <2>5, EndCall DEF TypeInv, Outcome, Device
    <3> QED
      BY <1>11, <1>call, <2>5, <3>1 DEF Route, TypeInv, TypeOK
  <2> QED
    BY <1>11, <2>2, <2>3, <2>4, <2>5 DEF Route
<1>12. ASSUME NEW c \in Calls, Hop(c) PROVE TypeInv'
  <2>1. CallsOK' /\ lastDrive' \subseteq Calls
    <3>1. CASE port \in Hosts
      BY <1>12, <3>1, SendCall DEF Hop
    <3>2. CASE port \notin Hosts
      BY <1>12, <3>2, GotoCall DEF Hop, TypeInv, TypeOK, Place
    <3> QED
      BY <3>1, <3>2
  <2>2. cache' \in [Hosts -> [connected : BOOLEAN, device : Device]]
    BY <1>12, IngestTypes DEF Hop, TypeInv, TypeOK
  <2> QED
    BY <1>12, <1>call, <2>1, <2>2 DEF Hop, TypeInv, TypeOK
<1>13. ASSUME NEW c \in Calls, Served(c) PROVE TypeInv'
  <2>1. Acks(c) \subseteq Platforms
    BY <1>13, AcksType DEF Served, At
  <2>2. CallsOK'
    <3>1. ASSUME NEW p \in Acks(c), End(c, "ack", p) PROVE CallsOK'
      BY <2>1, <3>1, EndCall DEF TypeInv, Outcome, Device
    <3>2. CASE End(c, "ack-timeout", NoDevice)
      BY <3>2, EndCall DEF TypeInv, Outcome, Device
    <3>3. CASE Goto(c, "recover")
      BY <3>3, GotoCall DEF TypeInv, Place
    <3> QED
      BY <1>13, <3>1, <3>2, <3>3 DEF Served
  <2>3. cache' \in [Hosts -> [connected : BOOLEAN, device : Device]]
    <3>1. CASE Ingest(Of[c])
      BY <3>1, IngestTypes DEF TypeInv
    <3>2. CASE cache' = [cache EXCEPT ![Of[c]].connected = FALSE]
      BY <3>2 DEF TypeInv, TypeOK
    <3>3. CASE UNCHANGED cache
      BY <3>3 DEF TypeInv, TypeOK
    <3> QED
      BY <1>13, <3>1, <3>2, <3>3 DEF Served
  <2> QED
    BY <1>13, <1>call, <2>2, <2>3 DEF Served, TypeInv, TypeOK
<1>14. ASSUME NEW c \in Calls, Waited(c) PROVE TypeInv'
  <2>1. Acks(c) \subseteq Platforms
    BY <1>14, AcksType DEF Waited, At
  <2>2. CallsOK'
    <3>1. ASSUME NEW p \in Acks(c), End(c, "ack", p) PROVE CallsOK'
      BY <2>1, <3>1, EndCall DEF TypeInv, Outcome, Device
    <3>2. CASE End(c, "ack-timeout", NoDevice)
      BY <3>2, EndCall DEF TypeInv, Outcome, Device
    <3> QED
      BY <1>14, <3>1, <3>2 DEF Waited
  <2> QED
    BY <1>14, <1>call, <2>2 DEF Waited, TypeInv, TypeOK
<1>15. ASSUME NEW c \in Calls, Recover(c) PROVE TypeInv'
  <2>1. CallsOK'
    <3>1. CASE End(c, "port-held", NoDevice)
      BY <3>1, EndCall DEF TypeInv, Outcome, Device
    <3>2. CASE Goto(c, "ready")
      BY <3>2, GotoCall DEF TypeInv, Place
    <3>3. CASE Goto(c, "listen")
      BY <3>3, GotoCall DEF TypeInv, Place
    <3> QED
      BY <1>15, <3>1, <3>2, <3>3 DEF Recover
  <2> QED
    BY <1>15, <1>call, <2>1 DEF Recover, TypeInv, TypeOK
<1>16. ASSUME NEW c \in Calls, Listen(c) PROVE TypeInv'
  <2>1. CallsOK'
    <3>1. CASE End(c, "port-held", NoDevice)
      BY <3>1, EndCall DEF TypeInv, Outcome, Device
    <3>2. CASE Goto(c, "ready")
      BY <3>2, GotoCall DEF TypeInv, Place
    <3> QED
      BY <1>16, <3>1, <3>2 DEF Listen
  <2>2. cache' \in [Hosts -> [connected : BOOLEAN, device : Device]]
    BY <1>16, IngestTypes DEF Listen, TypeInv, TypeOK
  <2> QED
    BY <1>16, <1>call, <2>1, <2>2 DEF Listen, TypeInv, TypeOK, Mode
<1>17. CASE UNCHANGED vars
  BY <1>17, <1>same DEF vars, TypeInv, TypeOK
<1> QED
  BY <1>1, <1>2, <1>3, <1>4, <1>5, <1>6, <1>7, <1>8, <1>9, <1>10, <1>11, <1>12,
     <1>13, <1>14, <1>15, <1>16, <1>17 DEF Next, Settle, Proceed

(* Handles, calls and statuses keep their shape, and an ack always names the *)
(* companion it came from.                                                   *)
THEOREM TypeCorrect == Spec => []TypeOK
<1>1. Init => TypeInv
  <2> SUFFICES ASSUME Init PROVE TypeInv
    OBVIOUS
  <2>1. NoCall \in Call /\ HasDevice(NoCall)
    BY DEF NoCall, Call, Place, Device, Outcome, HasDevice
  <2>2. CallsOK
    BY <2>1 DEF Init, CallsOK
  <2>3. NoStatus \in [connected : BOOLEAN, device : Device]
    BY DEF NoStatus, Device
  <2>4. /\ mode \in [Hosts -> Mode]
        /\ cache \in [Hosts -> [connected : BOOLEAN, device : Device]]
    BY <2>3 DEF Init, Mode
  <2>5. crashes \in 0 .. MaxCrashes
    BY PortAssumption DEF Init
  <2>6. /\ port \in Hosts \cup {Free, Stranger} /\ recovering \subseteq Hosts
        /\ attached \in Device /\ greeted \in BOOLEAN /\ lastDrive \subseteq Calls
    BY DEF Init, Device
  <2>7. \A c \in Calls : call[c].outcome = "ack" => call[c].by \in Platforms
    BY <2>2 DEF CallsOK, HasDevice
  <2> QED
    BY <2>2, <2>4, <2>5, <2>6, <2>7 DEF TypeInv, TypeOK, CallsOK
<1>2. TypeInv => TypeOK
  BY DEF TypeInv
<1> QED
  BY <1>1, <1>2, TypeStep, PTL DEF Spec

-----------------------------------------------------------------------------
\* Ownership.

LEMMA OwnerStep == TypeOK /\ LocalOwnsPort /\ [Next]_vars => LocalOwnsPort'
<1> SUFFICES ASSUME TypeOK, LocalOwnsPort, [Next]_vars PROVE LocalOwnsPort'
  OBVIOUS
<1> USE PortAssumption DEF TypeOK, LocalOwnsPort, deviceVars, Quiet
<1>0. ASSUME UNCHANGED <<port, mode>> PROVE LocalOwnsPort'
  BY <1>0
<1>1. ASSUME NEW h \in Hosts, Start(h) PROVE LocalOwnsPort'
  BY <1>1 DEF Start
<1>2. ASSUME NEW h \in Hosts, Bind(h) PROVE LocalOwnsPort'
  BY <1>2 DEF Bind
<1>3. ASSUME NEW h \in Hosts, Probe(h) PROVE LocalOwnsPort'
  BY <1>3 DEF Probe
<1>4. ASSUME NEW h \in Hosts, Close(h) PROVE LocalOwnsPort'
  BY <1>4 DEF Close, Vacate
<1>5. ASSUME NEW h \in Hosts, Crash(h) PROVE LocalOwnsPort'
  BY <1>5 DEF Crash, Vacate
<1>6. CASE StrangerLeaves
  BY <1>6 DEF StrangerLeaves
<1>7. ASSUME NEW c \in Calls, Listen(c) PROVE LocalOwnsPort'
  BY <1>7 DEF Listen
<1>8. CASE DeviceGreets \/ DeviceLeaves \/ \E p \in Platforms : DeviceAttaches(p)
  BY <1>0, <1>8 DEF DeviceGreets, DeviceLeaves, DeviceAttaches
<1>9. ASSUME NEW c \in Calls,
             Navigate(c) \/ Route(c) \/ Hop(c) \/ Served(c) \/ Waited(c) \/ Recover(c)
      PROVE  LocalOwnsPort'
  BY <1>0, <1>9 DEF Navigate, Route, Hop, Served, Waited, Recover
<1>10. CASE UNCHANGED vars
  BY <1>0, <1>10 DEF vars
<1> QED
  BY <1>1, <1>2, <1>3, <1>4, <1>5, <1>6, <1>7, <1>8, <1>9, <1>10 DEF Next, Settle, Proceed

(* However many processes race to bind, take over or are killed: a handle    *)
(* drives its own socket exactly while it is the one that listens.           *)
THEOREM OneOwner == Spec => []LocalOwnsPort
<1>1. Init => LocalOwnsPort
  BY PortAssumption DEF Init, LocalOwnsPort
<1> QED
  BY <1>1, OwnerStep, TypeCorrect, PTL DEF Spec
=============================================================================
