------------------------------ MODULE BridgePort ------------------------------
(***************************************************************************)
(* Who owns the bridge port.  Every Validity process starts a bridge handle *)
(* on the same port: the first binds it and is local, the others probe the *)
(* holder and delegate their navigations to it over HTTP, or report the    *)
(* port held.  When the holder goes, a delegated handle binds the port.    *)
(*                                                                         *)
(* Companion apps connect to whoever owns the port; a newer one supersedes *)
(* the one attached.  Handles of a command are closed when it ends; that   *)
(* of the MCP server lives as long as the server.                          *)
(***************************************************************************)
EXTENDS Naturals, FiniteSets

CONSTANTS
    Hosts,       \* processes with a bridge handle
    LongLived,   \* those that never close it
    Calls,       \* callers of navigate
    Of,          \* Of[c]: the process c calls from
    Platforms,   \* platforms a companion runs on
    Wants,       \* Wants[h]: the platform h's handle was started for, or Unbound
    Unbound, Free, Stranger, NoDevice,
    MaxCrashes   \* bound: processes killed

ASSUME PortAssumption ==
    /\ LongLived \subseteq Hosts
    /\ Of \in [Calls -> Hosts]
    /\ Wants \in [Hosts -> Platforms \cup {Unbound}]
    /\ Free \notin Hosts /\ Stranger \notin Hosts /\ Free # Stranger
    /\ NoDevice \notin Platforms /\ Unbound \notin Platforms
    /\ MaxCrashes \in Nat

VARIABLES
    port,       \* who listens on the bridge port
    mode,       \* mode[h] of h's handle
    recovering, \* the handles with a recovery in flight
    attached,   \* the companion connected to the owner
    greeted,    \* it has said hello
    lastDrive,  \* the call whose message the owner would replay
    cache,      \* cache[h]: the owner's status as h last heard it
    call,       \* call[c]: a navigate in progress, or its outcome
    crashes

vars == <<port, mode, recovering, attached, greeted, lastDrive, cache, call, crashes>>
deviceVars == <<attached, greeted, lastDrive>>

Device == Platforms \cup {NoDevice}
Mode == {"off", "starting", "probing", "local", "delegated", "port-held", "failed"}
Outcome == {"none", "ack", "ack-timeout", "no-device", "port-held"}
Place == {"idle", "ready", "hop", "serve", "wait", "recover", "listen", "done"}
Call == [at : Place, server : Hosts \cup {Free}, by : Device, outcome : Outcome,
         freed : BOOLEAN]  \* the port was free when the call was made

TypeOK ==
    /\ port \in Hosts \cup {Free, Stranger}
    /\ mode \in [Hosts -> Mode]
    /\ recovering \subseteq Hosts
    /\ attached \in Device
    /\ greeted \in BOOLEAN
    /\ lastDrive \subseteq Calls
    /\ cache \in [Hosts -> [connected : BOOLEAN, device : Device]]
    /\ call \in [Calls -> Call]
    /\ \A c \in Calls : call[c].outcome = "ack" => call[c].by \in Platforms
    /\ crashes \in 0 .. MaxCrashes

NoStatus == [connected |-> FALSE, device |-> NoDevice]
NoCall == [at |-> "idle", server |-> Free, by |-> NoDevice, outcome |-> "none",
           freed |-> FALSE]

Init ==
    /\ port \in {Free, Stranger}
    /\ mode = [h \in Hosts |-> "off"]
    /\ recovering = {}
    /\ attached = NoDevice /\ greeted = FALSE /\ lastDrive = {}
    /\ cache = [h \in Hosts |-> NoStatus]
    /\ call = [c \in Calls |-> NoCall]
    /\ crashes = 0

Idle(h) == \A c \in Calls : Of[c] = h => call[c].at \in {"idle", "done"}

-----------------------------------------------------------------------------
(* Status *)

\* The device a status names is the one whose hello was heard; a status that
\* names none leaves the one heard of before.
Known == IF greeted THEN attached ELSE NoDevice

Heard(h) ==
    [connected |-> attached # NoDevice,
     device |-> IF Known # NoDevice THEN Known ELSE cache[h].device]

Ingest(h) == cache' = [cache EXCEPT ![h] = Heard(h)]

Mismatch(h, device) ==
    Wants[h] # Unbound /\ device # NoDevice /\ device # Wants[h]

\* The owner goes: its socket, its drive and its device are gone with it.
Vacate ==
    /\ port' = Free
    /\ attached' = NoDevice /\ greeted' = FALSE /\ lastDrive' = {}

-----------------------------------------------------------------------------
(* startNativeBridge and close *)

Start(h) ==
    /\ mode[h] = "off"
    /\ mode' = [mode EXCEPT ![h] = "starting"]
    /\ cache' = [cache EXCEPT ![h] = NoStatus]
    /\ UNCHANGED <<port, recovering, deviceVars, call, crashes>>

\* The listener, EADDRINUSE, or an error of another kind.
Bind(h) ==
    /\ mode[h] = "starting"
    /\ \/ /\ port = Free
          /\ port' = h
          /\ mode' = [mode EXCEPT ![h] = "local"]
       \/ /\ port # Free
          /\ mode' = [mode EXCEPT ![h] = "probing"]
          /\ UNCHANGED port
       \/ /\ mode' = [mode EXCEPT ![h] = "failed"]
          /\ UNCHANGED port
    /\ UNCHANGED <<recovering, deviceVars, cache, call, crashes>>

\* Whoever holds the port is asked for its status.  A holder that is gone by
\* then does not answer, like one that is no bridge.
Probe(h) ==
    /\ mode[h] = "probing"
    /\ IF port \in Hosts
       THEN /\ Ingest(h)
            /\ mode' = [mode EXCEPT ![h] =
                          IF Mismatch(h, Heard(h).device) THEN "port-held" ELSE "delegated"]
       ELSE /\ mode' = [mode EXCEPT ![h] = "port-held"]
            /\ UNCHANGED cache
    /\ UNCHANGED <<port, recovering, deviceVars, call, crashes>>

\* A command closes its handle when its calls are over, and may start another.
Close(h) ==
    /\ h \notin LongLived
    /\ mode[h] \notin {"off", "starting", "probing"}
    /\ Idle(h)
    /\ mode' = [mode EXCEPT ![h] = "off"]
    /\ IF port = h THEN Vacate ELSE UNCHANGED <<port, deviceVars>>
    /\ UNCHANGED <<recovering, cache, call, crashes>>

\* kill -9; the process may be started again.
Crash(h) ==
    /\ crashes < MaxCrashes
    /\ mode[h] # "off"
    /\ crashes' = crashes + 1
    /\ mode' = [mode EXCEPT ![h] = "off"]
    /\ recovering' = recovering \ {h}
    /\ call' = [c \in Calls |-> IF Of[c] = h THEN NoCall ELSE call[c]]
    /\ IF port = h THEN Vacate ELSE UNCHANGED <<port, deviceVars>>
    /\ UNCHANGED cache

StrangerLeaves ==
    /\ port = Stranger
    /\ port' = Free
    /\ UNCHANGED <<mode, recovering, deviceVars, cache, call, crashes>>

-----------------------------------------------------------------------------
(* Companions *)

\* The newest connection is the device; it says hello a moment later.
DeviceAttaches(p) ==
    /\ port \in Hosts
    /\ attached # p
    /\ attached' = p
    /\ greeted' = FALSE
    /\ UNCHANGED <<port, mode, recovering, lastDrive, cache, call, crashes>>

DeviceGreets ==
    /\ attached # NoDevice
    /\ ~greeted
    /\ greeted' = TRUE
    /\ UNCHANGED <<port, mode, recovering, attached, lastDrive, cache, call, crashes>>

DeviceLeaves ==
    /\ attached # NoDevice
    /\ attached' = NoDevice
    /\ greeted' = FALSE
    /\ UNCHANGED <<port, mode, recovering, lastDrive, cache, call, crashes>>

-----------------------------------------------------------------------------
(* navigate *)

At(c, place) == call[c].at = place
Goto(c, place) == call' = [call EXCEPT ![c].at = place]
End(c, outcome, by) ==
    call' = [call EXCEPT ![c].at = "done", ![c].outcome = outcome, ![c].by = by,
                         ![c].server = Free]
Quiet == UNCHANGED <<port, mode, recovering, crashes>>

Navigate(c) ==
    /\ call[c].at \in {"idle", "done"}
    /\ mode[Of[c]] # "off"
    /\ call' = [call EXCEPT ![c] = [NoCall EXCEPT !.at = "ready", !.freed = port = Free]]
    /\ Quiet /\ UNCHANGED <<deviceVars, cache>>

\* Mutated form: it is not asked whether there is one.
SendAnyway(c, server) ==
    /\ call' = [call EXCEPT ![c].at = IF server = Of[c] THEN "wait" ELSE "serve",
                            ![c].server = server, ![c].by = attached]
    /\ lastDrive' = {c}

\* The message is written to the attached companion, or there is none.
Send(c, server) ==
    IF attached = NoDevice
    THEN End(c, "no-device", NoDevice) /\ UNCHANGED lastDrive
    ELSE /\ call' = [call EXCEPT ![c].at = IF server = Of[c] THEN "wait" ELSE "serve",
                                 ![c].server = server, ![c].by = attached]
         /\ lastDrive' = {c}

\* whenReady, then by the mode the handle has now; one that could not bind
\* has no socket to send on.
Route(c) ==
    LET h == Of[c] IN
    /\ At(c, "ready")
    /\ \/ /\ mode[h] = "port-held"
          /\ End(c, "port-held", NoDevice) /\ UNCHANGED lastDrive
       \/ /\ mode[h] = "delegated"
          /\ IF Mismatch(h, cache[h].device)
             THEN End(c, "port-held", NoDevice) ELSE Goto(c, "hop")
          /\ UNCHANGED lastDrive
       \/ /\ mode[h] = "local"
          /\ Send(c, h)
       \/ /\ mode[h] = "failed"
          /\ End(c, "no-device", NoDevice) /\ UNCHANGED lastDrive
    /\ Quiet /\ UNCHANGED <<attached, greeted, cache>>

\* POST /navigate reaches the owner, or nobody who understands it.
Hop(c) ==
    /\ At(c, "hop")
    /\ IF port \in Hosts
       THEN /\ Send(c, port)
            /\ IF attached = NoDevice THEN Ingest(Of[c]) ELSE UNCHANGED cache
       ELSE Goto(c, "recover") /\ UNCHANGED <<lastDrive, cache>>
    /\ Quiet /\ UNCHANGED <<attached, greeted>>

\* An ack of this call's message: by the companion it was written to, or by
\* one that attached since and was sent it again.
Acks(c) == {call[c].by} \cup (IF c \in lastDrive /\ attached # NoDevice
                              THEN {attached} ELSE {})

\* Mutated form: the request has no time limit of its own.
ServedByTheOwner(c) ==
    /\ At(c, "serve")
    /\ port = call[c].server
    /\ \/ \E p \in Acks(c) : End(c, "ack", p)
       \/ End(c, "ack-timeout", NoDevice)
    /\ Ingest(Of[c])
    /\ Quiet /\ UNCHANGED deviceVars

\* The serving bridge answers: the ack, or its wait ran out.  A bridge that was
\* closed meanwhile lets the wait run out; one that died does not answer.
Served(c) ==
    /\ At(c, "serve")
    /\ \/ /\ port = call[c].server
          /\ \/ \E p \in Acks(c) : End(c, "ack", p)
             \/ End(c, "ack-timeout", NoDevice)
          /\ Ingest(Of[c])
       \/ /\ port # call[c].server
          /\ \/ End(c, "ack-timeout", NoDevice)
                /\ cache' = [cache EXCEPT ![Of[c]].connected = FALSE]
             \/ Goto(c, "recover") /\ UNCHANGED cache
    /\ Quiet /\ UNCHANGED deviceVars

Waited(c) ==
    /\ At(c, "wait")
    /\ \/ \E p \in Acks(c) : End(c, "ack", p)
       \/ End(c, "ack-timeout", NoDevice)
    /\ Quiet /\ UNCHANGED <<deviceVars, cache>>

\* tryRecoverLocal: one attempt of a handle at a time; another caller of the
\* same handle is told no.
Recover(c) ==
    LET h == Of[c] IN
    /\ At(c, "recover")
    /\ \/ mode[h] = "local" /\ Goto(c, "ready") /\ UNCHANGED recovering
       \/ /\ mode[h] # "local" /\ h \in recovering
          /\ End(c, "port-held", NoDevice)
          /\ UNCHANGED recovering
       \/ /\ mode[h] # "local" /\ h \notin recovering
          /\ recovering' = recovering \cup {h}
          /\ Goto(c, "listen")
    /\ UNCHANGED <<port, mode, deviceVars, cache, crashes>>

\* Mutated form: the listener is taken to be up before it is.
ListenAssumed(c) ==
    /\ At(c, "listen")
    /\ recovering' = recovering \ {Of[c]}
    /\ port' = IF port = Free THEN Of[c] ELSE port
    /\ mode' = [mode EXCEPT ![Of[c]] = "local"]
    /\ Goto(c, "ready")
    /\ UNCHANGED <<cache, deviceVars, crashes>>

\* Mutated form: the attempt in flight is not cleared when it fails.
ListenLeavesFlag(c) ==
    LET h == Of[c] IN
    /\ At(c, "listen")
    /\ \/ /\ port = Free
          /\ port' = h
          /\ mode' = [mode EXCEPT ![h] = "local"]
          /\ Goto(c, "ready")
          /\ recovering' = recovering \ {h}
          /\ UNCHANGED cache
       \/ /\ port # Free
          /\ End(c, "port-held", NoDevice)
          /\ IF port \in Hosts THEN Ingest(h) ELSE UNCHANGED cache
          /\ UNCHANGED <<port, mode, recovering>>
    /\ UNCHANGED <<deviceVars, crashes>>

\* The bind, or EADDRINUSE: then the error handler of the start also fires and
\* refreshes what is known of the new owner.
Listen(c) ==
    LET h == Of[c] IN
    /\ At(c, "listen")
    /\ recovering' = recovering \ {h}
    /\ \/ /\ port = Free
          /\ port' = h
          /\ mode' = [mode EXCEPT ![h] = "local"]
          /\ Goto(c, "ready")
          /\ UNCHANGED cache
       \/ /\ port # Free
          /\ End(c, "port-held", NoDevice)
          /\ IF port \in Hosts THEN Ingest(h) ELSE UNCHANGED cache
          /\ UNCHANGED <<port, mode>>
    /\ UNCHANGED <<deviceVars, crashes>>

-----------------------------------------------------------------------------

Settle(h) == Bind(h) \/ Probe(h)
Proceed(c) == Route(c) \/ Hop(c) \/ Served(c) \/ Waited(c) \/ Recover(c) \/ Listen(c)

Next ==
    \/ \E h \in Hosts : Start(h) \/ Settle(h) \/ Close(h) \/ Crash(h)
    \/ StrangerLeaves
    \/ \E p \in Platforms : DeviceAttaches(p)
    \/ DeviceGreets \/ DeviceLeaves
    \/ \E c \in Calls : Navigate(c) \/ Proceed(c)

\* A live process runs its callbacks and its timers fire; nothing makes a
\* process start, end or die, a device come, or a caller call.
Fairness ==
    /\ \A h \in Hosts : WF_vars(Settle(h))
    /\ \A c \in Calls : WF_vars(Proceed(c))

Spec == Init /\ [][Next]_vars /\ Fairness

-----------------------------------------------------------------------------
(* Properties *)

\* A handle drives its own socket only while it owns the port.
LocalOwnsPort == \A h \in Hosts : mode[h] = "local" <=> port = h

\* Every navigate gets its outcome, unless its process dies.
CallEnds ==
    \A c \in Calls : (call[c].at \notin {"idle", "done"}) ~> (call[c].at \in {"idle", "done"})

\* A delegated caller whose owner is gone leaves the port owned: by itself or
\* by whoever was faster.
OrphanIsAdopted ==
    \A c \in Calls : (call[c].at = "recover" /\ port = Free)
                        ~> (port # Free \/ mode[Of[c]] = "off")

\* A navigation is never acked by a companion of another platform.
AckedByItsPlatform ==
    \A c \in Calls : call[c].outcome = "ack" => ~Mismatch(Of[c], call[c].by)

\* Once the port has been freed, a navigate does not find it held.
RetryWorksOnceFreed ==
    [][\A c \in Calls : (~At(c, "done") /\ call'[c].outcome = "port-held" /\ call[c].freed)
          => port # Free]_vars

=============================================================================
