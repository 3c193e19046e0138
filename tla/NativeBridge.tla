----------------------------- MODULE NativeBridge -----------------------------
(***************************************************************************)
(* The control bridge between a host process that owns the bridge port and *)
(* the companion app on the device under test: one WebSocket at a time,    *)
(* navigation by token, a render ack per token, a replay of the last drive *)
(* on every connection, and an in-place reload of the bundle.              *)
(*                                                                         *)
(* A socket is its number.  `link` is what the device has open, active is  *)
(* what the host believes in: they differ while a half-open socket has not *)
(* been noticed, and what the host writes then is lost.  The JS context of *)
(* the companion is a session; a reload starts a new one.                  *)
(***************************************************************************)
EXTENDS Naturals, Sequences, SequencesExt, FiniteSets

CONSTANTS
    RetainedAckLimit,  \* unclaimed acks the host keeps
    MaxTokens,         \* bound: navigation tokens minted
    MaxSockets,        \* bound: sockets ever opened
    MaxSessions,       \* bound: JS contexts ever started
    MaxVersions,       \* bound: versions of the code Metro serves
    Taps               \* TRUE: a person may tap the dashboard on the device

ASSUME BridgeAssumption ==
    /\ RetainedAckLimit \in Nat \ {0}
    /\ MaxTokens \in Nat
    /\ MaxSockets \in Nat
    /\ MaxSessions \in Nat
    /\ MaxVersions \in Nat \ {0}
    /\ Taps \in BOOLEAN

VARIABLES
    host,     \* the bridge's memory
    waiter,   \* the token a caller waits for, and the ack it was given
    dev,      \* the companion app
    link,     \* the socket the device has open
    sockets,  \* sockets opened so far
    down,     \* host-to-device frames on the device's open socket
    up,       \* device-to-host frames, of any socket
    served,   \* the version of the code Metro serves
    minted    \* tokens minted so far

bridgeVars == <<host, waiter, dev, link, sockets, down, up, served, minted>>
wire == <<link, sockets, down>>

None == 0

Token == 1 .. MaxTokens
Socket == 1 .. MaxSockets
Session == 1 .. MaxSessions
Version == 1 .. MaxVersions
Maybe(S) == S \cup {None}

Ack == [token : Token, ok : BOOLEAN, bundle : Version, session : Session]
NoAck == [token |-> None]
Hello == [socket : Socket, bundle : Version]
NoHello == [socket |-> None]

DownFrame == [type : {"navigate"}, token : Token, replay : BOOLEAN]
                 \cup [type : {"reload"}]
UpFrame == [type : {"hello"}, socket : Socket, bundle : Version]
               \cup [type : {"rendered"}, socket : Socket, ack : Ack]

Host == [active : Maybe(Socket), hello : Hello \cup {NoHello},
         lastDrive : Maybe(Token), retained : Seq(Ack), epoch : 0 .. MaxSockets]

Waiter == [token : Maybe(Token), ack : Ack \cup {NoAck}]

Device == [bundle : Maybe(Version),   \* None: no bundle, the launcher is up
           session : Maybe(Session),
           applied : SUBSET Maybe(Token),  \* targets it was given
           owed : Maybe(Token),       \* the one whose paint is to be acked
           acking : Seq(Ack),         \* acks waiting for the dev menu to close
           marker : Maybe(Token),     \* the render marker in the view tree
           menu : BOOLEAN,            \* the dev menu covers the screen
           reloading : BOOLEAN]

Launcher == [bundle |-> None, session |-> None, applied |-> {},
             owed |-> None, acking |-> <<>>, marker |-> None, menu |-> FALSE,
             reloading |-> FALSE]

TypeOK ==
    /\ host \in Host /\ Len(host.retained) <= RetainedAckLimit
    /\ waiter \in Waiter
    /\ dev \in Device
    /\ link \in Maybe(Socket)
    /\ sockets \in 0 .. MaxSockets
    /\ down \in Seq(DownFrame)
    /\ up \in Seq(UpFrame)
    /\ served \in Version
    /\ minted \in 0 .. MaxTokens

NewHost == [active |-> None, hello |-> NoHello, lastDrive |-> None,
            retained |-> <<>>, epoch |-> 0]
NoWaiter == [token |-> None, ack |-> NoAck]

\* The app is not running, or still runs what an earlier host left on it.
LeftBehind == [Launcher EXCEPT !.bundle = 1, !.session = 1]

InitBridge ==
    /\ host = NewHost
    /\ waiter = NoWaiter
    /\ dev = Launcher \/ (dev = LeftBehind /\ MaxSessions > 0)
    /\ link = None /\ sockets = 0
    /\ down = <<>> /\ up = <<>>
    /\ served \in Version
    /\ minted = 0

-----------------------------------------------------------------------------
(* The socket *)

\* A message is accepted for writing as long as the host thinks it has a
\* socket; it arrives only if the device has the same one.
Connected == host.active # None
Written(frame) == IF host.active = link THEN Append(down, frame) ELSE down

\* When a socket goes, frames to the device are lost; what the device has
\* written to a socket that it closed is still on its way.
CutLink ==
    /\ link' = None
    /\ down' = <<>>

\* Mutated form: a connection replays nothing.
ReplayNothing(h) == <<>>

Replay(h) ==
    IF h.lastDrive = None THEN <<>>
    ELSE <<[type |-> "navigate", token |-> h.lastDrive, replay |-> TRUE]>>

\* The new socket supersedes the old one and starts without an identity.
Connection(h, s) ==
    [h EXCEPT !.active = s, !.hello = NoHello, !.epoch = @ + 1]

DeviceConnects ==
    /\ dev.bundle # None
    /\ link = None
    /\ sockets < MaxSockets
    /\ sockets' = sockets + 1
    /\ link' = sockets'
    /\ host' = Connection(host, sockets')
    /\ down' = Replay(host)
    /\ up' = Append(up, [type |-> "hello", socket |-> sockets', bundle |-> dev.bundle])
    /\ UNCHANGED <<waiter, dev, served, minted>>

SocketDrops ==
    /\ link # None
    /\ CutLink
    /\ up' \in {up, <<>>}
    /\ UNCHANGED <<host, waiter, dev, sockets, served, minted>>

\* The close event, or the heartbeat's terminate of a half-open socket.
HostSeesClose ==
    /\ Connected
    /\ host.active # link
    /\ host' = [host EXCEPT !.active = None, !.hello = NoHello]
    /\ UNCHANGED <<waiter, dev, wire, up, served, minted>>

\* The host process is replaced: everything it held is in memory.
HostRestarts ==
    /\ host' = NewHost
    /\ waiter' = NoWaiter
    /\ CutLink /\ up' = <<>>
    /\ UNCHANGED <<dev, sockets, served, minted>>

-----------------------------------------------------------------------------
(* What the host does with frames from the device *)

\* Mutated form: a hello is taken from any socket.
TakeAnyHello(h, f) == [h EXCEPT !.hello = [socket |-> f.socket, bundle |-> f.bundle]]

TakeHello(h, f) ==
    IF f.socket = h.active
    THEN [h EXCEPT !.hello = [socket |-> f.socket, bundle |-> f.bundle]] ELSE h

\* Where the ack of a token is on file.
Retained(h, token) == {i \in DOMAIN h.retained : h.retained[i].token = token}

\* Mutated form: an ack nobody waits for is dropped.
RetainNothing(h, ack) == h

\* A Map keyed by token: a second ack of a token replaces the first in place.
Filed(h, ack) ==
    IF Retained(h, ack.token) = {} THEN Append(h.retained, ack)
    ELSE [i \in DOMAIN h.retained |->
            IF h.retained[i].token = ack.token THEN ack ELSE h.retained[i]]

Retain(h, ack) ==
    LET kept == Filed(h, ack)
    IN [h EXCEPT !.retained = IF Len(kept) > RetainedAckLimit THEN Tail(kept) ELSE kept]

WaitsFor(ack) == waiter.token = ack.token /\ waiter.ack = NoAck

HostReceives ==
    /\ up # <<>>
    /\ up' = Tail(up)
    /\ LET f == Head(up) IN
       \/ /\ f.type = "hello"
          /\ host' = TakeHello(host, f)
          /\ UNCHANGED waiter
       \/ /\ f.type = "rendered"
          /\ IF WaitsFor(f.ack)
             THEN waiter' = [waiter EXCEPT !.ack = f.ack] /\ UNCHANGED host
             ELSE host' = Retain(host, f.ack) /\ UNCHANGED waiter
    /\ UNCHANGED <<dev, wire, served, minted>>

-----------------------------------------------------------------------------
(* What callers of the bridge do *)

Mint ==
    /\ minted < MaxTokens
    /\ minted' = minted + 1

\* navigate: the drive is recorded once the write is accepted.
Navigate(token) ==
    /\ Connected
    /\ down' = Written([type |-> "navigate", token |-> token, replay |-> FALSE])
    /\ waiter' = [token |-> token, ack |-> NoAck]
    /\ host' = [host EXCEPT !.lastDrive = token]
    /\ UNCHANGED <<dev, link, sockets, up, served>>

PushReload ==
    /\ Connected
    /\ down' = Written([type |-> "reload"])
    /\ UNCHANGED <<host, waiter, dev, link, sockets, up, served, minted>>

\* Mutated form: an ack that came before the wait is not looked up.
WaitWithoutLookup(token) ==
    /\ waiter' = [token |-> token, ack |-> NoAck]
    /\ UNCHANGED <<host, dev, wire, up, served, minted>>

\* waitForRendered: an ack on file is consumed.
WaitForRendered(token) ==
    /\ \/ /\ Retained(host, token) = {}
          /\ waiter' = [token |-> token, ack |-> NoAck]
          /\ UNCHANGED host
       \/ \E i \in Retained(host, token) :
             /\ waiter' = [token |-> token, ack |-> host.retained[i]]
             /\ host' = [host EXCEPT !.retained = RemoveAt(@, i)]
    /\ UNCHANGED <<dev, wire, up, served, minted>>

\* The wait resolved, with an ack or by its timer.
StopWaiting ==
    /\ waiter' = NoWaiter
    /\ UNCHANGED <<host, dev, wire, up, served, minted>>

-----------------------------------------------------------------------------
(* The companion *)

AckOwed(ok) == [token |-> dev.owed, ok |-> ok,
                bundle |-> dev.bundle, session |-> dev.session]

\* A target is left: an ack still owed for it is dropped, unless its second
\* frame is already scheduled.
LateAcks ==
    IF dev.owed = None THEN {<<>>}
    ELSE {<<>>} \cup {<<AckOwed(ok)>> : ok \in BOOLEAN}

\* A new target: the old subtree and its marker go.
Apply(token, menus) ==
    \E menu \in menus, late \in LateAcks :
       dev' = [dev EXCEPT
         !.applied = @ \cup {token}, !.owed = token,
         !.marker = None, !.acking = @ \o late, !.menu = menu]

\* Mutated form: a replay is applied whatever the session did before.
IgnoresNothing(f) == FALSE

Ignores(f) == f.replay /\ dev.applied # {}

DeviceReceives ==
    /\ down # <<>>
    /\ down' = Tail(down)
    /\ LET f == Head(down) IN
       \/ /\ f.type = "reload"
          /\ dev' = [dev EXCEPT !.reloading = TRUE]
       \/ /\ f.type = "navigate"
          /\ IF Ignores(f) THEN UNCHANGED dev ELSE Apply(f.token, {FALSE, dev.menu})
    /\ UNCHANGED <<host, waiter, link, sockets, up, served, minted>>

\* A deep link delivered to the running app.
DeepLink(token) ==
    /\ IF dev.bundle = None THEN UNCHANGED dev ELSE Apply(token, {dev.menu})
    /\ UNCHANGED <<host, waiter, wire, up, served, minted>>

\* A tap on the dashboard: a target for which no ack is owed.
DeviceTapped ==
    /\ Taps
    /\ dev.bundle # None
    /\ ~dev.menu
    /\ Apply(None, {dev.menu})
    /\ UNCHANGED <<host, waiter, wire, up, served, minted>>

\* Mutated form: an ack is sent whether or not one is owed.
DevicePaintsUnasked ==
    /\ dev.bundle # None
    /\ dev' = [dev EXCEPT !.owed = None, !.acking = Append(@, AckOwed(TRUE))]
    /\ UNCHANGED <<host, waiter, wire, up, served, minted>>

\* Two frames after the commit: the marker is in the tree if the bundle knows
\* the target, and the ack is on its way.
DevicePaints ==
    /\ dev.owed # None
    /\ \E ok \in BOOLEAN :
         dev' = [dev EXCEPT
           !.owed = None,
           !.marker = IF ok THEN dev.owed ELSE None,
           !.acking = Append(@, AckOwed(ok))]
    /\ UNCHANGED <<host, waiter, wire, up, served, minted>>

\* The dev menu is closed within a budget, then the ack goes out on whatever
\* socket is open by then.
DeviceAcks ==
    /\ dev.acking # <<>>
    /\ \E menu \in {FALSE, dev.menu} :
         dev' = [dev EXCEPT !.acking = Tail(@), !.menu = menu]
    /\ up' = IF link = None THEN up
             ELSE Append(up, [type |-> "rendered", socket |-> link, ack |-> Head(dev.acking)])
    /\ UNCHANGED <<host, waiter, wire, served, minted>>

\* A JS context starts on the bundle Metro serves now; the dev menu opens on
\* it unless its onboarding was finished.
StartSession ==
    /\ dev.session < MaxSessions
    /\ \E menu \in BOOLEAN :
         dev' = [Launcher EXCEPT !.bundle = served, !.session = dev.session + 1,
                                 !.menu = menu]
    /\ CutLink
    /\ UNCHANGED <<host, waiter, sockets, up, served, minted>>

DeviceReloads ==
    /\ dev.reloading
    /\ StartSession

\* The dev-client control link: the app (re)loads the bundle, or stays on the
\* launcher when it cannot fetch it.
OpenControlLink ==
    \/ StartSession
    \/ UNCHANGED bridgeVars

\* The app is killed.  The socket may linger on the host's side.
TerminateApp ==
    /\ dev' = [Launcher EXCEPT !.session = dev.session]
    /\ CutLink
    /\ UNCHANGED <<host, waiter, sockets, up, served, minted>>

CloseDevMenu ==
    /\ \E menu \in {FALSE, dev.menu} : dev' = [dev EXCEPT !.menu = menu]
    /\ UNCHANGED <<host, waiter, wire, up, served, minted>>

\* The user edits the code: the next bundle differs.
CodeEdited ==
    /\ served < MaxVersions
    /\ served' = served + 1
    /\ UNCHANGED <<host, waiter, dev, wire, up, minted>>

DeviceSteps == DeviceConnects \/ DeviceReceives \/ DeviceReloads
                   \/ DevicePaints \/ DeviceAcks

-----------------------------------------------------------------------------
(* Properties *)

\* What the host knows of the running bundle is what the socket it drives
\* through announced: a late hello of a socket that was replaced, or one kept
\* over a reconnection, would pass a stale bundle for a fresh one.
HelloIsOfTheActiveSocket ==
    /\ host.hello # NoHello => host.hello.socket = host.active
    /\ (host.hello # NoHello /\ host.active = link) => host.hello.bundle = dev.bundle

\* A session that has been given no target, with nothing on its way to it,
\* belongs to a host that has driven none: a reload never strands the device
\* on its home list.
ReloadedSessionIsRetargeted ==
    (link # None /\ host.active = link /\ down = <<>> /\ dev.applied = {})
       => host.lastDrive = None

\* No target a session has left comes back by itself: a replay or a late frame
\* never yanks the device to an older one.
NeverYankedBack ==
    [][DeviceReceives /\ dev'.owed # dev.owed => dev'.owed \notin dev.applied]_bridgeVars

=============================================================================
