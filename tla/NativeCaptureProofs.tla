------------------------ MODULE NativeCaptureProofs ------------------------
(***************************************************************************)
(* Proofs about one open over the bridge: what every step does to the      *)
(* bridge (BridgeSteps), the wire's invariants, and what the ladder may    *)
(* conclude on a steady wire.                                              *)
(***************************************************************************)
EXTENDS NativeCapture, SequenceTheorems, FiniteSetTheorems, TLAPS

-----------------------------------------------------------------------------
\* What a step does to the bridge.

Call == \/ Mint /\ UNCHANGED <<host, waiter, dev, wire, up, served>>
        \/ Mint /\ Navigate(minted')
        \/ PushReload
        \/ WaitForRendered(cap.linkToken)
        \/ StopWaiting

Drives == \/ StartSession
          \/ TerminateApp
          \/ CloseDevMenu
          \/ DeepLink(cap.linkToken) /\ (OpenTarget \/ OpenTargetCold)

Wire == \/ DeviceConnects \/ DeviceReceives \/ DevicePaints \/ DeviceAcks
        \/ HostSeesClose \/ HostReceives \/ SocketDrops \/ HostRestarts
        \/ DeviceTapped \/ CodeEdited

(* Whatever the ladder or the world does is one of these to the bridge.       *)
LEMMA BridgeSteps ==
    [Next]_vars => Call \/ Drives \/ Wire \/ UNCHANGED bridgeVars
<1>1. CASE UNCHANGED vars
  BY <1>1 DEF vars, bridgeVars
<1>2. ASSUME NEW force \in BOOLEAN, Begin(force)
      PROVE  Call
  BY <1>2 DEF Begin, Call
<1>3. CASE World
  <2>1. DeviceReloads => StartSession
    BY DEF DeviceReloads
  <2> QED
    BY <1>3, <2>1, Zenon DEF World, DeviceSteps, Receive, Wire, Drives
<1>4. CASE Climb
  <2>1. Guard \/ Redial \/ Warm \/ Bridge \/ LookAgain \/ Mark => UNCHANGED bridgeVars
    BY Zenon DEF Guard, Redial, Warm, Bridge, LookAgain, Mark
  <2>2. Reload => PushReload \/ UNCHANGED bridgeVars
    BY DEF Reload
  <2>3. Kill => TerminateApp \/ UNCHANGED bridgeVars
    BY DEF Kill
  <2>4. Boot \/ Cold => StartSession \/ UNCHANGED bridgeVars
    BY DEF Boot, Cold, ControlLink, Throws
  <2>5. Dial \/ Dismiss \/ Paint => CloseDevMenu \/ UNCHANGED bridgeVars
    BY DEF Dial, Dismiss, Paint
  <2>6. Drive => (Mint /\ Navigate(minted')) \/ UNCHANGED bridgeVars
    BY DEF Drive
  <2>7. DriveAcked \/ Adopted => StopWaiting
    BY DEF DriveAcked, Adopted
  <2>8. OpenTarget \/ OpenTargetCold =>
          (DeepLink(cap.linkToken) /\ (OpenTarget \/ OpenTargetCold)) \/ UNCHANGED bridgeVars
    BY DEF OpenTarget, OpenTargetCold, Throws
  <2>9. ColdMark => StartSession \/ UNCHANGED bridgeVars
    BY DEF ColdMark
  <2>10. Adopt => WaitForRendered(cap.linkToken) \/ UNCHANGED bridgeVars
    BY DEF Adopt
  <2> QED
    BY <1>4, <2>1, <2>2, <2>3, <2>4, <2>5, <2>6, <2>7, <2>8, <2>9, <2>10, Zenon
       DEF Climb, Call, Drives
<1> QED
  BY <1>1, <1>2, <1>3, <1>4 DEF Next

\* Types.

(* What types rest on: only a running bundle is connected, given targets and  *)
(* owes acks, and no socket is newer than the latest.                         *)
Running ==
    /\ link # None => dev.bundle # None
    /\ dev.bundle # None => dev.session # None
    /\ dev.owed # None => dev.bundle # None
    /\ down # <<>> => link # None
    /\ link <= sockets /\ host.active <= sockets
    /\ host.epoch <= sockets

TypeInv == CaptureTypeOK /\ Running

LEMMA TypeInit == Init => TypeInv
<1> SUFFICES ASSUME Init PROVE TypeInv
  OBVIOUS
<1>1. host \in Host /\ Len(host.retained) <= RetainedAckLimit /\ host.active = None /\ host.epoch = 0
  BY BridgeAssumption DEF Init, InitBridge, NewHost, Host, Maybe, None, NoHello
<1>2. Launcher \in Device
  BY DEF Launcher, Device, Maybe, None, Token, Version, Session
<1>3. 1 <= MaxSessions => LeftBehind \in Device /\ LeftBehind.owed = None /\ LeftBehind.session = 1
  <2>1. Launcher.owed = None
    BY DEF Launcher
  <2>2. 1 <= MaxSessions => 1 \in Version /\ 1 \in Session
    BY BridgeAssumption DEF Version, Session
  <2> QED
    BY <1>2, <2>1, <2>2 DEF LeftBehind, Device, Maybe
<1>4. dev \in Device /\ dev.owed = None /\ (dev.bundle # None => dev.session # None)
  <2>1. CASE dev = Launcher
    BY <1>2, <2>1 DEF Launcher
  <2>2. CASE dev # Launcher
    BY BridgeAssumption, <1>3, <2>2 DEF Init, InitBridge, None
  <2> QED
    BY <2>1, <2>2
<1>5. waiter \in Waiter
  BY DEF Init, InitBridge, NoWaiter, Waiter, Maybe, None, NoAck
<1>6. cap \in Capture
  BY BridgeAssumption DEF Init, NoCapture, Capture, Rung, Status, Version, Maybe, None, NoAck
<1>7. /\ link \in Maybe(Socket) /\ sockets \in 0 .. MaxSockets
      /\ down \in Seq(DownFrame) /\ up \in Seq(UpFrame) /\ served \in Version
      /\ minted \in 0 .. MaxTokens /\ link = None /\ sockets = 0 /\ down = <<>>
  BY BridgeAssumption DEF Init, InitBridge, Maybe, None
<1> QED
  BY <1>1, <1>4, <1>5, <1>6, <1>7 DEF TypeInv, CaptureTypeOK, TypeOK, Running, None

(* What the device writes of a paint is an ack. *)
LEMMA OwedAcks ==
    ASSUME TypeOK, Running, dev.owed # None, NEW ok \in BOOLEAN
    PROVE  AckOwed(ok) \in Ack
  BY DEF TypeOK, Running, AckOwed, Ack, Device, Maybe

(* The new targets of the device. *)
LEMMA ApplyTypes ==
    ASSUME TypeOK, Running, NEW token \in Maybe(Token), NEW menus \in SUBSET BOOLEAN, Apply(token, menus)
    PROVE  /\ dev' \in Device
           /\ dev'.bundle = dev.bundle /\ dev'.session = dev.session /\ dev'.owed = token
           /\ dev'.applied = dev.applied \cup {token} /\ dev'.marker = None
           /\ dev'.reloading = dev.reloading
<1> PICK menu \in menus, late \in LateAcks :
           dev' = [dev EXCEPT
             !.applied = @ \cup {token}, !.owed = token,
             !.marker = None, !.acking = @ \o late, !.menu = menu]
  BY DEF Apply
<1>1. late \in Seq(Ack)
  <2>1. CASE dev.owed = None
    BY <2>1 DEF LateAcks
  <2>2. CASE dev.owed # None
    <3>1. \A ok \in BOOLEAN : AckOwed(ok) \in Ack
      BY <2>2, OwedAcks
    <3>2. \A a \in Ack : <<a>> \in Seq(Ack)
      OBVIOUS
    <3>3. late = <<>> \/ \E ok \in BOOLEAN : late = <<AckOwed(ok)>>
      BY <2>2 DEF LateAcks
    <3>4. CASE late = <<>>
      BY <3>4
    <3>5. ASSUME NEW ok \in BOOLEAN, late = <<AckOwed(ok)>> PROVE late \in Seq(Ack)
      BY <3>1, <3>2, <3>5, Zenon
    <3> QED
      BY <3>3, <3>4, <3>5
  <2> QED
    BY <2>1, <2>2
<1>2. dev.acking \o late \in Seq(Ack)
  BY <1>1 DEF TypeOK, Device
<1> QED
  BY <1>2 DEF TypeOK, Device, Maybe, None

(* A tap is a target too. *)
LEMMA TapTypes ==
    ASSUME TypeOK, Running, DeviceTapped
    PROVE  /\ dev' \in Device
           /\ dev'.bundle = dev.bundle /\ dev'.session = dev.session /\ dev'.owed = None
           /\ dev'.applied = dev.applied \cup {None} /\ dev'.marker = None
           /\ dev'.reloading = dev.reloading
           /\ UNCHANGED <<host, waiter, wire, up, served, minted>>
<1>1. Apply(None, {dev.menu}) /\ UNCHANGED <<host, waiter, wire, up, served, minted>>
  BY DEF DeviceTapped
<1>2. {dev.menu} \in SUBSET BOOLEAN /\ None \in Maybe(Token)
  BY DEF TypeOK, Device, Maybe
<1> QED
  BY <1>1, <1>2, ApplyTypes

LEMMA LauncherTypes ==
    /\ Launcher \in Device
    /\ Launcher.bundle = None /\ Launcher.owed = None /\ Launcher.marker = None
    /\ Launcher.applied = {} /\ Launcher.acking = <<>> /\ ~Launcher.reloading
  BY DEF Launcher, Device, Maybe, None, Token, Version, Session

(* A JS context that starts has no target, owes no ack and has no reload to   *)
(* come; a killed app has no bundle either.                                   *)
LEMMA SessionTypes ==
    ASSUME TypeOK
    PROVE  /\ StartSession =>
                /\ dev' \in Device /\ dev'.bundle = served /\ dev'.session # None
                /\ dev'.owed = None /\ dev'.marker = None /\ dev'.applied = {}
                /\ dev'.acking = <<>> /\ ~dev'.reloading
           /\ TerminateApp =>
                /\ dev' \in Device /\ dev'.bundle = None
                /\ dev'.owed = None /\ dev'.marker = None /\ dev'.applied = {}
                /\ dev'.acking = <<>> /\ ~dev'.reloading
<1>2. ASSUME StartSession
      PROVE  /\ dev' \in Device /\ dev'.bundle = served /\ dev'.session # None
             /\ dev'.owed = None /\ dev'.marker = None /\ dev'.applied = {}
             /\ dev'.acking = <<>> /\ ~dev'.reloading
  <2>1. PICK m \in BOOLEAN : dev' = [Launcher EXCEPT !.bundle = served,
                                       !.session = dev.session + 1, !.menu = m]
    BY <1>2 DEF StartSession
  <2>2. dev.session + 1 \in Session /\ dev.session + 1 # None
    BY <1>2, BridgeAssumption DEF StartSession, TypeOK, Device, Maybe, Session, None
  <2>3. served \in Version
    BY DEF TypeOK
  <2> DEFINE s == dev.session + 1
  <2> HIDE DEF s
  <2>4. dev' = [Launcher EXCEPT !.bundle = served, !.session = s, !.menu = m]
    BY <2>1 DEF s
  <2>5. s \in Session /\ s # None
    BY <2>2 DEF s
  <2> QED
    BY LauncherTypes, <2>3, <2>4, <2>5 DEF Device, Maybe
<1>3. ASSUME TerminateApp
      PROVE  /\ dev' \in Device /\ dev'.bundle = None
             /\ dev'.owed = None /\ dev'.marker = None /\ dev'.applied = {}
             /\ dev'.acking = <<>> /\ ~dev'.reloading
  BY <1>3, LauncherTypes DEF TerminateApp, TypeOK, Device
<1> QED
  BY <1>2, <1>3

(* What the host files: at most its limit, and acks only. *)
LEMMA RetainTypes ==
    ASSUME TypeOK, NEW ack \in Ack
    PROVE  LET h == Retain(host, ack)
           IN /\ h \in Host /\ Len(h.retained) <= RetainedAckLimit
              /\ h.active = host.active /\ h.hello = host.hello
              /\ h.lastDrive = host.lastDrive /\ h.epoch = host.epoch
<1> DEFINE kept == Filed(host, ack)
           filed == IF Len(kept) > RetainedAckLimit THEN Tail(kept) ELSE kept
<1>1. host.retained \in Seq(Ack) /\ Len(host.retained) \in Nat
  BY DEF TypeOK, Host
<1>2. kept \in Seq(Ack) /\ Len(kept) <= RetainedAckLimit + 1
  <2>1. CASE Retained(host, ack.token) = {}
    BY <1>1, <2>1, BridgeAssumption DEF Filed, TypeOK
  <2>2. CASE Retained(host, ack.token) # {}
    <3>1. kept = [i \in 1 .. Len(host.retained) |->
                    IF host.retained[i].token = ack.token THEN ack ELSE host.retained[i]]
      BY <1>1, <2>2 DEF Filed
    <3> QED
      BY <1>1, <3>1, BridgeAssumption DEF TypeOK
  <2> QED
    BY <2>1, <2>2
<1> HIDE DEF kept
<1>3. filed \in Seq(Ack) /\ Len(filed) <= RetainedAckLimit
  <2>1. CASE Len(kept) > RetainedAckLimit
    BY <1>2, <2>1, BridgeAssumption, HeadTailProperties
  <2>2. CASE ~(Len(kept) > RetainedAckLimit)
    BY <1>2, <2>2, BridgeAssumption
  <2> QED
    BY <2>1, <2>2
<1>4. Retain(host, ack) = [host EXCEPT !.retained = filed]
  BY DEF Retain, kept
<1> HIDE DEF filed
<1> QED
  BY <1>3, <1>4 DEF TypeOK, Host

(* Removing an element shifts those after it. *)
LEMMA RemoveAtElements ==
    ASSUME NEW S, NEW s \in Seq(S), NEW i \in DOMAIN s
    PROVE  /\ RemoveAt(s, i) \in Seq(S)
           /\ Len(RemoveAt(s, i)) = Len(s) - 1
           /\ \A k \in 1 .. Len(s) - 1 :
                RemoveAt(s, i)[k] = IF k < i THEN s[k] ELSE s[k + 1]
<1> DEFINE front == SubSeq(s, 1, i - 1)
           back == SubSeq(s, i + 1, Len(s))
<1>1. i \in 1 .. Len(s) /\ Len(s) \in Nat
  OBVIOUS
<1>2. /\ front \in Seq(S) /\ Len(front) = i - 1
      /\ \A k \in 1 .. i - 1 : front[k] = s[k]
  BY <1>1, SubSeqProperties
<1>3. /\ back \in Seq(S) /\ Len(back) = Len(s) - i
      /\ \A k \in 1 .. Len(s) - i : back[k] = s[k + i]
  BY <1>1, SubSeqProperties
<1> HIDE DEF front, back
<1>4. RemoveAt(s, i) = front \o back
  BY DEF RemoveAt, front, back
<1>5. /\ front \o back \in Seq(S) /\ Len(front \o back) = Len(s) - 1
      /\ \A k \in 1 .. Len(s) - 1 :
           (front \o back)[k] = IF k <= Len(front) THEN front[k] ELSE back[k - Len(front)]
  BY <1>1, <1>2, <1>3, ConcatProperties
<1>6. ASSUME NEW k \in 1 .. Len(s) - 1
      PROVE  RemoveAt(s, i)[k] = IF k < i THEN s[k] ELSE s[k + 1]
  <2>1. CASE k < i
    BY <1>1, <1>2, <1>4, <1>5, <2>1
  <2>2. CASE ~(k < i)
    <3>1. k - Len(front) \in 1 .. Len(s) - i /\ ~(k <= Len(front)) /\ k - Len(front) + i = k + 1
      BY <1>1, <1>2, <2>2
    <3> QED
      BY <1>3, <1>4, <1>5, <2>2, <3>1
  <2> QED
    BY <2>1, <2>2
<1> QED
  BY <1>4, <1>5, <1>6

LEMMA BridgeTypesCall ==
    ASSUME CaptureTypeOK, Running, Call
    PROVE  TypeOK' /\ Running'
<1>1. CASE Mint /\ UNCHANGED <<host, waiter, dev, wire, up, served>>
  <2>1. minted' \in 0 .. MaxTokens
    BY <1>1, BridgeAssumption DEF Mint, CaptureTypeOK, TypeOK
  <2> QED
    BY <1>1, <2>1 DEF wire, CaptureTypeOK, TypeOK, Running
<1>2. CASE Mint /\ Navigate(minted')
  <2>1. minted' \in Token /\ minted' \in 0 .. MaxTokens
    BY <1>2, BridgeAssumption DEF Mint, CaptureTypeOK, TypeOK, Token
  <2>2. down' \in Seq(DownFrame) /\ (down' # <<>> => link # None)
    <3>1. [type |-> "navigate", token |-> minted', replay |-> FALSE] \in DownFrame
      BY <2>1 DEF DownFrame
    <3> QED
      BY <1>2, <3>1 DEF Navigate, Written, Connected, CaptureTypeOK, TypeOK, Running
  <2>3. waiter' \in Waiter
    BY <1>2, <2>1 DEF Navigate, Waiter, Maybe
  <2>4. host' \in Host /\ host'.retained = host.retained
        /\ host'.active = host.active /\ host'.epoch = host.epoch
    BY <1>2, <2>1 DEF Navigate, CaptureTypeOK, TypeOK, Host, Maybe
  <2> QED
    BY <1>2, <2>1, <2>2, <2>3, <2>4 DEF Navigate, CaptureTypeOK, TypeOK, Running
<1>3. CASE PushReload
  <2>1. down' \in Seq(DownFrame) /\ (down' # <<>> => link # None)
    <3>1. [type |-> "reload"] \in DownFrame
      BY DEF DownFrame
    <3> QED
      BY <1>3, <3>1 DEF PushReload, Written, Connected, CaptureTypeOK, TypeOK, Running
  <2> QED
    BY <1>3, <2>1 DEF PushReload, CaptureTypeOK, TypeOK, Running
<1>4. CASE WaitForRendered(cap.linkToken)
  <2>1. cap.linkToken \in Maybe(Token) /\ host.retained \in Seq(Ack)
    BY DEF CaptureTypeOK, Capture, TypeOK, Host
  <2>2. CASE UNCHANGED host /\ waiter' = [token |-> cap.linkToken, ack |-> NoAck]
    BY <1>4, <2>1, <2>2 DEF WaitForRendered, wire, Waiter, CaptureTypeOK, TypeOK, Running
  <2>3. ASSUME NEW i \in Retained(host, cap.linkToken),
               waiter' = [token |-> cap.linkToken, ack |-> host.retained[i]],
               host' = [host EXCEPT !.retained = RemoveAt(@, i)]
        PROVE  TypeOK' /\ Running'
    <3> DEFINE rest == RemoveAt(host.retained, i)
    <3>1. i \in DOMAIN host.retained
      BY <2>3 DEF Retained
    <3>2. rest \in Seq(Ack) /\ Len(rest) = Len(host.retained) - 1 /\ host.retained[i] \in Ack
      BY <2>1, <3>1, RemoveAtElements
    <3>3. Len(rest) <= RetainedAckLimit
      BY <2>1, <3>2, BridgeAssumption DEF CaptureTypeOK, TypeOK
    <3> HIDE DEF rest
    <3>4. host' = [host EXCEPT !.retained = rest]
      BY <2>3 DEF rest
    <3>5. /\ host' \in Host /\ Len(host'.retained) <= RetainedAckLimit
          /\ host'.active = host.active /\ host'.epoch = host.epoch
      BY <3>2, <3>3, <3>4 DEF CaptureTypeOK, TypeOK, Host
    <3>6. waiter' \in Waiter
      BY <2>1, <2>3, <3>2 DEF Waiter
    <3> QED
      BY <1>4, <3>5, <3>6 DEF WaitForRendered, wire, CaptureTypeOK, TypeOK, Running
  <2> QED
    BY <1>4, <2>2, <2>3 DEF WaitForRendered
<1>5. CASE StopWaiting
  BY <1>5 DEF StopWaiting, NoWaiter, Waiter, Maybe, NoAck, wire, CaptureTypeOK, TypeOK, Running
<1> QED
  BY <1>1, <1>2, <1>3, <1>4, <1>5 DEF Call

LEMMA BridgeTypesDrives ==
    ASSUME CaptureTypeOK, Running, Drives
    PROVE  TypeOK' /\ Running'
<1> USE DEF CaptureTypeOK
<1>1. CASE StartSession
  <2>1. /\ dev' \in Device /\ dev'.bundle # None /\ dev'.session # None /\ dev'.owed = None
    BY <1>1, SessionTypes, BridgeAssumption DEF TypeOK, Version, None
  <2> QED
    BY <1>1, <2>1 DEF StartSession, CutLink, TypeOK, Running, Maybe, None
<1>2. CASE TerminateApp
  <2>1. /\ dev' \in Device /\ dev'.bundle = None /\ dev'.owed = None
    BY <1>2, SessionTypes
  <2> QED
    BY <1>2, <2>1 DEF TerminateApp, CutLink, TypeOK, Running, Maybe, None
<1>3. CASE CloseDevMenu
  <2>1. /\ dev' \in Device /\ dev'.bundle = dev.bundle /\ dev'.session = dev.session
        /\ dev'.owed = dev.owed
    BY <1>3 DEF CloseDevMenu, TypeOK, Device
  <2> QED
    BY <1>3, <2>1 DEF CloseDevMenu, wire, TypeOK, Running
<1>4. CASE DeepLink(cap.linkToken)
  <2>1. CASE UNCHANGED dev
    BY <1>4, <2>1 DEF DeepLink, wire, TypeOK, Running
  <2>2. CASE dev.bundle # None /\ Apply(cap.linkToken, {dev.menu})
    <3>1. cap.linkToken \in Maybe(Token) /\ {dev.menu} \in SUBSET BOOLEAN
      BY <2>2 DEF Capture, Maybe, TypeOK, Device
    <3>2. /\ dev' \in Device /\ dev'.bundle = dev.bundle /\ dev'.session = dev.session
      BY <2>2, <3>1, ApplyTypes
    <3> QED
      BY <1>4, <2>2, <3>2 DEF DeepLink, wire, TypeOK, Running
  <2> QED
    BY <1>4, <2>1, <2>2 DEF DeepLink
<1> QED
  BY <1>1, <1>2, <1>3, <1>4 DEF Drives

LEMMA BridgeTypesWire ==
    ASSUME CaptureTypeOK, Running, Wire
    PROVE  TypeOK' /\ Running'
<1> USE DEF CaptureTypeOK
<1>1. CASE DeviceConnects
  <2>1. sockets' \in Socket /\ sockets' \in 0 .. MaxSockets /\ sockets' = sockets + 1
        /\ sockets \in Nat
    BY <1>1, BridgeAssumption DEF DeviceConnects, TypeOK, Socket
  <2>2. /\ host' \in Host /\ host'.active = sockets' /\ host'.epoch = host.epoch + 1
        /\ host'.retained = host.retained
    <3>1. host.epoch + 1 \in 0 .. MaxSockets
      BY <2>1, BridgeAssumption DEF TypeOK, Host, Running
    <3> DEFINE e == host.epoch + 1
    <3> HIDE DEF e
    <3>2. host' = [host EXCEPT !.active = sockets', !.hello = NoHello, !.epoch = e]
      BY <1>1 DEF DeviceConnects, Connection, e
    <3>3. e \in 0 .. MaxSockets
      BY <3>1 DEF e
    <3>4. host' \in Host /\ host'.active = sockets' /\ host'.epoch = e
          /\ host'.retained = host.retained
      BY <2>1, <3>2, <3>3 DEF TypeOK, Host, Maybe
    <3> QED
      BY <3>4 DEF e
  <2>3. down' \in Seq(DownFrame)
    <3>1. CASE host.lastDrive = None
      BY <1>1, <3>1 DEF DeviceConnects, Replay
    <3>2. CASE host.lastDrive # None
      <4>1. [type |-> "navigate", token |-> host.lastDrive, replay |-> TRUE] \in DownFrame
        BY <3>2 DEF TypeOK, Host, Maybe, DownFrame
      <4> QED
        BY <1>1, <3>2, <4>1 DEF DeviceConnects, Replay
    <3> QED
      BY <3>1, <3>2
  <2>4. up' \in Seq(UpFrame)
    <3>1. [type |-> "hello", socket |-> sockets', bundle |-> dev.bundle] \in UpFrame
      BY <1>1, <2>1 DEF DeviceConnects, UpFrame, TypeOK, Device, Maybe
    <3> QED
      BY <1>1, <3>1 DEF DeviceConnects, TypeOK
  <2>5. host'.epoch <= sockets' /\ link' = sockets' /\ link' # None
    BY <1>1, <2>1, <2>2, BridgeAssumption DEF DeviceConnects, Running, TypeOK, Host, None
  <2> QED
    BY <1>1, <2>1, <2>2, <2>3, <2>4, <2>5 DEF DeviceConnects, TypeOK, Running, Maybe
<1>2. CASE DeviceReceives
  <2>1. /\ Head(down) \in DownFrame /\ down' \in Seq(DownFrame)
    BY <1>2, HeadTailProperties DEF DeviceReceives, TypeOK
  <2>2. CASE UNCHANGED dev
    BY <1>2, <2>1, <2>2 DEF DeviceReceives, TypeOK, Running
  <2>3. CASE dev' = [dev EXCEPT !.reloading = TRUE]
    <3>1. /\ dev' \in Device /\ dev'.bundle = dev.bundle /\ dev'.session = dev.session
          /\ dev'.owed = dev.owed
      BY <2>3 DEF TypeOK, Device
    <3> QED
      BY <1>2, <2>1, <3>1 DEF DeviceReceives, TypeOK, Running
  <2>4. CASE Head(down).type = "navigate" /\ Apply(Head(down).token, {FALSE, dev.menu})
    <3>1. Head(down).token \in Maybe(Token) /\ {FALSE, dev.menu} \in SUBSET BOOLEAN
      BY <2>1, <2>4 DEF DownFrame, Maybe, TypeOK, Device
    <3>2. /\ dev' \in Device /\ dev'.bundle = dev.bundle /\ dev'.session = dev.session
      BY <2>4, <3>1, ApplyTypes
    <3>3. dev.bundle # None
      BY <1>2 DEF DeviceReceives, Running
    <3> QED
      BY <1>2, <2>1, <3>2, <3>3 DEF DeviceReceives, TypeOK, Running
  <2> QED
    BY <1>2, <2>2, <2>3, <2>4 DEF DeviceReceives
<1>3. CASE DevicePaints
  <2>1. PICK ok \in BOOLEAN :
          dev' = [dev EXCEPT !.owed = None, !.marker = IF ok THEN dev.owed ELSE None,
                             !.acking = Append(@, AckOwed(ok))]
    BY <1>3 DEF DevicePaints
  <2> DEFINE acking == Append(dev.acking, AckOwed(ok))
             marker == IF ok THEN dev.owed ELSE None
  <2>2. acking \in Seq(Ack) /\ marker \in Maybe(Token)
    <3>1. AckOwed(ok) \in Ack
      BY <1>3, OwedAcks DEF DevicePaints
    <3> QED
      BY <3>1 DEF TypeOK, Device, Maybe
  <2> HIDE DEF acking, marker
  <2>3. dev' = [dev EXCEPT !.owed = None, !.marker = marker, !.acking = acking]
    BY <2>1 DEF acking, marker
  <2>4. /\ dev' \in Device /\ dev'.bundle = dev.bundle /\ dev'.session = dev.session
        /\ dev'.owed = None
    BY <2>2, <2>3 DEF TypeOK, Device, Maybe
  <2> QED
    BY <1>3, <2>4 DEF DevicePaints, wire, TypeOK, Running
<1>4. CASE DeviceAcks
  <2>1. /\ Head(dev.acking) \in Ack /\ Tail(dev.acking) \in Seq(Ack)
    BY <1>4, HeadTailProperties DEF DeviceAcks, TypeOK, Device
  <2>2. up' \in Seq(UpFrame)
    <3>1. CASE link = None
      BY <1>4, <3>1 DEF DeviceAcks, TypeOK
    <3>2. CASE link # None
      <4>1. [type |-> "rendered", socket |-> link, ack |-> Head(dev.acking)] \in UpFrame
        BY <2>1, <3>2 DEF UpFrame, TypeOK, Maybe
      <4> QED
        BY <1>4, <3>2, <4>1 DEF DeviceAcks, TypeOK
    <3> QED
      BY <3>1, <3>2
  <2>3. /\ dev' \in Device /\ dev'.bundle = dev.bundle /\ dev'.session = dev.session
        /\ dev'.owed = dev.owed
    <3>1. PICK menu \in {FALSE, dev.menu} :
            dev' = [dev EXCEPT !.acking = Tail(dev.acking), !.menu = menu]
      BY <1>4 DEF DeviceAcks
    <3>2. menu \in BOOLEAN
      BY DEF TypeOK, Device
    <3> DEFINE rest == Tail(dev.acking)
    <3> HIDE DEF rest
    <3>3. dev' = [dev EXCEPT !.acking = rest, !.menu = menu] /\ rest \in Seq(Ack)
      BY <2>1, <3>1 DEF rest
    <3> QED
      BY <3>2, <3>3 DEF TypeOK, Device
  <2> QED
    BY <1>4, <2>2, <2>3 DEF DeviceAcks, wire, TypeOK, Running
<1>5. CASE HostSeesClose
  <2>1. host' \in Host /\ host'.active = None /\ host'.retained = host.retained
        /\ host'.epoch = host.epoch
    BY <1>5 DEF HostSeesClose, TypeOK, Host, Maybe
  <2> QED
    BY <1>5, <2>1 DEF HostSeesClose, wire, TypeOK, Running, None
<1>6. CASE HostReceives
  <2>1. /\ Head(up) \in UpFrame /\ up' \in Seq(UpFrame)
    BY <1>6, HeadTailProperties DEF HostReceives, TypeOK
  <2>2. CASE Head(up).type = "hello" /\ host' = TakeHello(host, Head(up)) /\ UNCHANGED waiter
    <3> DEFINE hello == [socket |-> Head(up).socket, bundle |-> Head(up).bundle]
    <3>1. hello \in Hello
      BY <2>1, <2>2 DEF UpFrame, Hello
    <3> HIDE DEF hello
    <3>2. host' = host \/ host' = [host EXCEPT !.hello = hello]
      BY <2>2 DEF TakeHello, hello
    <3>3. host' \in Host /\ host'.retained = host.retained /\ host'.active = host.active
          /\ host'.epoch = host.epoch
      BY <3>1, <3>2 DEF TypeOK, Host
    <3> QED
      BY <1>6, <2>1, <2>2, <3>3 DEF HostReceives, wire, TypeOK, Running
  <2>3. CASE Head(up).type = "rendered"
    <3>1. Head(up).ack \in Ack
      BY <2>1, <2>3 DEF UpFrame
    <3>2. CASE WaitsFor(Head(up).ack)
      <4>1. waiter' = [waiter EXCEPT !.ack = Head(up).ack] /\ UNCHANGED host
        BY <1>6, <2>3, <3>2 DEF HostReceives
      <4>2. waiter' \in Waiter
        BY <3>1, <4>1 DEF TypeOK, Waiter
      <4> QED
        BY <1>6, <2>1, <4>1, <4>2 DEF HostReceives, wire, TypeOK, Running
    <3>3. CASE ~WaitsFor(Head(up).ack)
      <4>1. host' = Retain(host, Head(up).ack) /\ UNCHANGED waiter
        BY <1>6, <2>3, <3>3 DEF HostReceives
      <4> QED
        BY <1>6, <2>1, <3>1, <4>1, RetainTypes DEF HostReceives, wire, TypeOK, Running
    <3> QED
      BY <3>2, <3>3
  <2> QED
    BY <1>6, <2>1, <2>2, <2>3 DEF HostReceives
<1>7. CASE SocketDrops
  <2>1. up' \in Seq(UpFrame)
    <3>1. CASE up' = up
      BY <3>1 DEF TypeOK
    <3>2. CASE up' = <<>>
      BY <3>2
    <3> QED
      BY <1>7, <3>1, <3>2 DEF SocketDrops
  <2> QED
    BY <1>7, <2>1 DEF SocketDrops, CutLink, TypeOK, Running, Maybe, None
<1>8. CASE HostRestarts
  <2>1. NewHost \in Host /\ Len(NewHost.retained) <= RetainedAckLimit
        /\ NewHost.active = None /\ NewHost.epoch = 0
    BY BridgeAssumption DEF NewHost, Host, Maybe, None, NoHello
  <2>2. NoWaiter \in Waiter
    BY DEF NoWaiter, Waiter, Maybe, NoAck
  <2> QED
    BY <1>8, <2>1, <2>2, BridgeAssumption
       DEF HostRestarts, CutLink, TypeOK, Running, Maybe, None
<1>9. CASE DeviceTapped
  <2> QED
    BY <1>9, TapTypes DEF wire, TypeOK, Running
<1>10. CASE CodeEdited
  <2>1. served' \in Version
    BY <1>10, BridgeAssumption DEF CodeEdited, TypeOK, Version
  <2> QED
    BY <1>10, <2>1 DEF CodeEdited, wire, TypeOK, Running
<1> QED
  BY <1>1, <1>2, <1>3, <1>4, <1>5, <1>6, <1>7, <1>8, <1>9, <1>10 DEF Wire

LEMMA NoCaptureTypes ==
    /\ NoCapture \in Capture
    /\ NoCapture.at = "idle" /\ NoCapture.linkToken = None /\ ~NoCapture.heard
    /\ ~NoCapture.steady /\ ~NoCapture.relinked /\ NoCapture.status = "none"
  BY BridgeAssumption
     DEF NoCapture, Capture, Rung, Status, Version, Maybe, None, NoAck

(* What the last step of an open leaves of it. *)
LEMMA EndsTypes ==
    ASSUME CaptureTypeOK, NEW status \in Status, NEW token \in Maybe(Token),
           NEW evidence \in Ack \cup {NoAck}, Ends(status, token, evidence)
    PROVE  /\ cap' \in Capture
           /\ cap'.at = "done" /\ cap'.status = status /\ cap'.token = token
           /\ cap'.evidence = evidence /\ cap'.bundle = dev.bundle
           /\ cap'.expected = cap.expected /\ cap'.steady = cap.steady
           /\ cap'.relinked = cap.relinked /\ cap'.linkToken = None /\ ~cap'.heard
<1>1. dev.bundle \in Maybe(Version) /\ cap.expected \in Version /\ cap.steady \in BOOLEAN
      /\ cap.relinked \in BOOLEAN /\ "done" \in Rung
  BY DEF CaptureTypeOK, TypeOK, Device, Capture, Rung
<1> QED
  BY <1>1, NoCaptureTypes DEF Ends, Capture

LEMMA CaptureTypesClimb ==
    ASSUME CaptureTypeOK, Climb
    PROVE  cap' \in Capture
<1>1. /\ cap \in Capture /\ waiter.ack \in Ack \cup {NoAck} /\ host.epoch \in 0 .. MaxSockets
      /\ cap.linkToken \in Maybe(Token) /\ cap.token \in Maybe(Token)
      /\ cap.evidence \in Ack \cup {NoAck} /\ NoAck \in Ack \cup {NoAck}
      /\ 0 \in 0 .. MaxSockets /\ None \in Maybe(Token)
      /\ {"confirmed", "failed", "unconfirmed"} \subseteq Status
  BY BridgeAssumption DEF CaptureTypeOK, TypeOK, Waiter, Host, Capture, Maybe, Status
<1>2. Rung = {"idle", "hello", "reload", "redial", "kill", "warm", "bridge", "drive",
         "ack", "paint", "look", "boot", "dial", "link", "mark", "adopt",
         "adopting", "cold", "coldlink", "dismiss", "coldmark", "done"}
  BY DEF Rung
<1>3. ASSUME NEW rung \in Rung, Goto(rung) PROVE cap' \in Capture
  BY <1>1, <1>3 DEF Goto, Capture
<1>4. ASSUME FallBack PROVE cap' \in Capture
  BY <1>1, <1>2, <1>4 DEF FallBack, Capture
<1>5. ASSUME NEW status \in {"confirmed", "failed", "unconfirmed"},
             NEW token \in {cap.token, cap.linkToken},
             NEW evidence \in {cap.evidence, waiter.ack, NoAck}, Ends(status, token, evidence)
      PROVE  cap' \in Capture
  BY <1>1, <1>5, EndsTypes
<1>6. CASE Guard
  <2> DEFINE force == cap.force \/ ReportsStaleBundle
             steady == /\ host.hello # NoHello /\ host.active = link
                       /\ down = <<>> /\ ~dev.reloading
             rung == IF force THEN "reload" ELSE "warm"
  <2>1. force \in BOOLEAN /\ steady \in BOOLEAN /\ rung \in Rung
    BY <1>1, <1>2 DEF Capture, ReportsStaleBundle
  <2>2. cap' = [cap EXCEPT !.at = rung, !.force = force, !.steady = steady]
    BY <1>6 DEF Guard
  <2> HIDE DEF force, steady, rung
  <2> QED
    BY <1>1, <2>1, <2>2 DEF Capture
<1>7. CASE Reload
  <2>1. CASE cap' = [cap EXCEPT !.at = "redial", !.epoch = host.epoch]
    <3>1. "redial" \in Rung
      BY <1>2
    <3> QED
      BY <1>1, <2>1, <3>1 DEF Capture
  <2> QED
    BY <1>2, <1>3, <1>7, <2>1 DEF Reload
<1>8. CASE Redial
  <2>1. "drive" \in Rung /\ "kill" \in Rung
    BY <1>2
  <2>2. CASE cap' = [cap EXCEPT !.at = "drive", !.back = "kill", !.epoch = 0]
    BY <1>1, <2>1, <2>2 DEF Capture
  <2>3. CASE cap' = [cap EXCEPT !.at = "kill", !.epoch = 0]
    BY <1>1, <2>1, <2>3 DEF Capture
  <2> QED
    BY <1>8, <2>2, <2>3 DEF Redial
<1>9. CASE Kill
  <2>1. "warm" \in Rung
    BY <1>2
  <2>2. CASE cap' = [cap EXCEPT !.at = "warm", !.steady = FALSE]
    BY <1>1, <2>1, <2>2 DEF Capture
  <2> QED
    BY <1>3, <1>9, <2>1, <2>2 DEF Kill
<1>10. CASE Warm
  <2>1. (~cap.force /\ Connected) \in BOOLEAN
    BY <1>1 DEF Capture, Connected
  <2> QED
    BY <1>1, <1>2, <1>10, <2>1 DEF Warm, Capture
<1>11. CASE Bridge
  BY <1>1, <1>2, <1>11 DEF Bridge, Capture
<1>12. CASE Boot \/ Cold
  <2>1. CASE Throws
    BY <2>1, NoCaptureTypes DEF Throws
  <2>2. ASSUME NEW rung \in {"dial", "coldlink"}, ControlLink(rung) PROVE cap' \in Capture
    <3>1. rung \in Rung
      BY <1>2
    <3>2. CASE cap' = [cap EXCEPT !.at = rung, !.steady = FALSE]
      BY <1>1, <3>1, <3>2 DEF Capture
    <3> QED
      BY <1>3, <2>2, <3>1, <3>2 DEF ControlLink
  <2> QED
    BY <1>12, <2>1, <2>2 DEF Boot, Cold
<1>13. CASE Dial
  BY <1>1, <1>2, <1>3, <1>13 DEF Dial, Capture
<1>14. CASE Drive
  <2>1. Mint => minted' \in Maybe(Token)
    BY BridgeAssumption DEF Mint, CaptureTypeOK, TypeOK, Token, Maybe
  <2> QED
    BY <1>1, <1>2, <1>4, <1>14, <2>1 DEF Drive, Capture
<1>15. CASE DriveAcked
  <2>1. CASE cap' = [cap EXCEPT !.at = "paint", !.back = "idle", !.evidence = waiter.ack]
    BY <1>1, <1>2, <2>1 DEF Capture
  <2> QED
    BY <1>4, <1>5, <1>15, <2>1 DEF DriveAcked
<1>16. CASE Paint
  BY <1>2, <1>3, <1>5, <1>16 DEF Paint
<1>17. CASE LookAgain
  BY <1>5, <1>17 DEF LookAgain
<1>18. CASE OpenTarget
  BY <1>2, <1>3, <1>18 DEF OpenTarget
<1>19. CASE Mark
  <2>1. CASE cap' = [cap EXCEPT !.at = "cold", !.skip = FALSE, !.relinked = TRUE]
    BY <1>1, <1>2, <2>1 DEF Capture
  <2> QED
    BY <1>2, <1>3, <1>5, <1>19, <2>1 DEF Mark, Settles
<1>20. CASE OpenTargetCold
  <2>1. CASE Throws
    BY <2>1, NoCaptureTypes DEF Throws
  <2> QED
    BY <1>2, <1>3, <1>5, <1>20, <2>1 DEF OpenTargetCold, Settles
<1>21. CASE Dismiss
  BY <1>2, <1>3, <1>21 DEF Dismiss
<1>22. CASE ColdMark
  <2>1. CASE cap' = [cap EXCEPT !.at = "coldlink", !.tapped = TRUE]
    BY <1>1, <1>2, <2>1 DEF Capture
  <2> QED
    BY <1>2, <1>3, <1>5, <1>22, <2>1 DEF ColdMark, Settles
<1>23. CASE Adopt \/ Adopted
  BY <1>2, <1>3, <1>5, <1>23 DEF Adopt, Adopted
<1> QED
  BY <1>6, <1>7, <1>8, <1>9, <1>10, <1>11, <1>12, <1>13, <1>14, <1>15, <1>16, <1>17, <1>18,
     <1>19, <1>20, <1>21, <1>22, <1>23 DEF Climb

LEMMA TypeStep == TypeInv /\ [Next]_vars => TypeInv'
<1> SUFFICES ASSUME TypeInv, [Next]_vars PROVE TypeInv'
  OBVIOUS
<1> USE DEF TypeInv
<1>1. TypeOK' /\ Running'
  <2>1. CASE UNCHANGED bridgeVars
    BY <2>1 DEF bridgeVars, CaptureTypeOK, TypeOK, Running
  <2> QED
    BY <2>1, BridgeSteps, BridgeTypesCall, BridgeTypesDrives, BridgeTypesWire
<1>2. cap' \in Capture
  <2>1. CASE UNCHANGED vars
    BY <2>1 DEF vars, CaptureTypeOK
  <2>2. ASSUME NEW force \in BOOLEAN, Begin(force) PROVE cap' \in Capture
    <3>1. minted' \in Maybe(Token) /\ served \in Version /\ "hello" \in Rung
      BY <2>2, BridgeAssumption DEF Begin, Mint, CaptureTypeOK, TypeOK, Token, Maybe, Rung
    <3> QED
      BY <2>2, <3>1, NoCaptureTypes DEF Begin, Capture
  <2>3. CASE World
    BY <2>3, NoCaptureTypes DEF World, Receive, CaptureTypeOK, Capture
  <2>4. CASE Climb
    BY <2>4, CaptureTypesClimb
  <2> QED
    BY <2>1, <2>2, <2>3, <2>4 DEF Next
<1> QED
  BY <1>1, <1>2 DEF CaptureTypeOK

(* The bridge, the device and the open in progress always have their types,   *)
(* whatever is dropped, restarted, reloaded or acked: in particular no ack is *)
(* written by a device that owes none.                                        *)
THEOREM TypeCorrect == Spec => []CaptureTypeOK
<1>1. TypeInv => CaptureTypeOK
  BY DEF TypeInv
<1> QED
  BY <1>1, TypeInit, TypeStep, PTL DEF Spec

-----------------------------------------------------------------------------
\* What is in a sequence.

LEMMA RangeAppend ==
    ASSUME NEW S, NEW s \in Seq(S), NEW e \in S
    PROVE  Range(Append(s, e)) = Range(s) \cup {e}
<1>1. /\ DOMAIN Append(s, e) = 1 .. Len(s) + 1 /\ DOMAIN s = 1 .. Len(s) /\ Len(s) \in Nat
      /\ \A i \in 1 .. Len(s) : Append(s, e)[i] = s[i]
      /\ Append(s, e)[Len(s) + 1] = e
  OBVIOUS
<1>2. ASSUME NEW x \in Range(Append(s, e)) PROVE x \in Range(s) \cup {e}
  <2>1. PICK i \in 1 .. Len(s) + 1 : x = Append(s, e)[i]
    BY <1>1, <1>2 DEF Range
  <2>2. i \in 1 .. Len(s) \/ i = Len(s) + 1
    BY <1>1
  <2> QED
    BY <1>1, <2>1, <2>2 DEF Range
<1>3. ASSUME NEW x \in Range(s) \cup {e} PROVE x \in Range(Append(s, e))
  <2>1. CASE x = e
    BY <1>1, <2>1 DEF Range
  <2>2. CASE x \in Range(s)
    <3>1. PICK i \in 1 .. Len(s) : x = s[i]
      BY <1>1, <2>2 DEF Range
    <3>2. i \in 1 .. Len(s) + 1
      BY <1>1
    <3> QED
      BY <1>1, <3>1, <3>2 DEF Range
  <2> QED
    BY <1>3, <2>1, <2>2
<1> QED
  BY <1>2, <1>3

LEMMA RangeTail ==
    ASSUME NEW S, NEW s \in Seq(S), s # <<>>
    PROVE  Head(s) \in Range(s) /\ Range(s) = {Head(s)} \cup Range(Tail(s))
<1>1. /\ DOMAIN s = 1 .. Len(s) /\ Len(s) \in Nat \ {0} /\ Head(s) = s[1]
      /\ DOMAIN Tail(s) = 1 .. Len(s) - 1
      /\ \A i \in 1 .. Len(s) - 1 : Tail(s)[i] = s[i + 1]
  BY HeadTailProperties, EmptySeq
<1>2. ASSUME NEW x \in Range(s) PROVE x \in {Head(s)} \cup Range(Tail(s))
  <2>1. PICK i \in 1 .. Len(s) : x = s[i]
    BY <1>1, <1>2 DEF Range
  <2>2. i = 1 \/ (i - 1 \in 1 .. Len(s) - 1 /\ (i - 1) + 1 = i)
    BY <1>1
  <2>3. CASE i = 1
    BY <1>1, <2>1, <2>3
  <2>4. CASE i - 1 \in 1 .. Len(s) - 1 /\ (i - 1) + 1 = i
    BY <1>1, <2>1, <2>4 DEF Range
  <2> QED
    BY <2>2, <2>3, <2>4
<1>3. ASSUME NEW x \in Range(Tail(s)) PROVE x \in Range(s)
  <2>1. PICK i \in 1 .. Len(s) - 1 : x = Tail(s)[i]
    BY <1>1, <1>3 DEF Range
  <2>2. i + 1 \in 1 .. Len(s)
    BY <1>1
  <2> QED
    BY <1>1, <2>1, <2>2 DEF Range
<1>4. Head(s) \in Range(s)
  BY <1>1 DEF Range
<1> QED
  BY <1>2, <1>3, <1>4

LEMMA RangeConcat ==
    ASSUME NEW S, NEW s \in Seq(S), NEW t \in Seq(S)
    PROVE  Range(s \o t) \subseteq Range(s) \cup Range(t)
<1>1. /\ DOMAIN (s \o t) = 1 .. Len(s) + Len(t) /\ DOMAIN s = 1 .. Len(s) /\ DOMAIN t = 1 .. Len(t)
      /\ Len(s) \in Nat /\ Len(t) \in Nat
      /\ \A i \in 1 .. Len(s) + Len(t) :
           (s \o t)[i] = IF i <= Len(s) THEN s[i] ELSE t[i - Len(s)]
  BY ConcatProperties
<1> SUFFICES ASSUME NEW x \in Range(s \o t) PROVE x \in Range(s) \cup Range(t)
  OBVIOUS
<1>2. PICK i \in 1 .. Len(s) + Len(t) : x = (s \o t)[i]
  BY <1>1 DEF Range
<1>3. CASE i <= Len(s)
  <2>1. i \in DOMAIN s
    BY <1>1, <1>3
  <2> QED
    BY <1>1, <1>2, <1>3, <2>1 DEF Range
<1>4. CASE ~(i <= Len(s))
  <2>1. i - Len(s) \in DOMAIN t
    BY <1>1, <1>4
  <2> QED
    BY <1>1, <1>2, <1>4, <2>1 DEF Range
<1> QED
  BY <1>3, <1>4

LEMMA RangeEmpty == ASSUME NEW x PROVE Range(<<>>) = {} /\ Range(<<x>>) = {x}
<1>1. Range(<<>>) = {}
  BY DEF Range
<1>2. DOMAIN <<x>> = {1} /\ <<x>>[1] = x
  OBVIOUS
<1> QED
  BY <1>1, <1>2 DEF Range

LEMMA RangeSeq == ASSUME NEW S, NEW s \in Seq(S) PROVE Range(s) \subseteq S
  BY DEF Range

-----------------------------------------------------------------------------
\* Who is believed.

(* A hello on its way names the bundle of the socket it was written to, as    *)
(* long as that socket is open.                                               *)
HelloInv ==
    /\ HelloIsOfTheActiveSocket
    /\ \A f \in Range(up) : f.type = "hello" =>
         f.socket <= sockets /\ (f.socket = link => f.bundle = dev.bundle)

LEMMA HelloStep == TypeInv /\ HelloInv /\ [Next]_vars => HelloInv'
<1> SUFFICES ASSUME TypeInv, HelloInv, [Next]_vars PROVE HelloInv'
  OBVIOUS
<1>0. /\ up \in Seq(UpFrame) /\ Range(up) \subseteq UpFrame
      /\ sockets \in 0 .. MaxSockets /\ MaxSockets \in Nat
      /\ host \in Host /\ (host.hello # NoHello => host.hello \in Hello /\ host.active # None)
  <2>1. host.hello # NoHello => host.hello \in Hello /\ host.hello.socket = host.active
    BY DEF TypeInv, CaptureTypeOK, TypeOK, Host, HelloInv, HelloIsOfTheActiveSocket
  <2>2. host.hello \in Hello => host.hello.socket # None
    BY DEF Hello, Socket, None
  <2> QED
    BY <2>1, <2>2, BridgeAssumption, RangeSeq DEF TypeInv, CaptureTypeOK, TypeOK
<1>1. ASSUME UNCHANGED <<link, up>>, dev'.bundle = dev.bundle,
             host'.hello = host.hello, host'.active = host.active, sockets' = sockets
      PROVE  HelloInv'
  BY <1>1 DEF HelloInv, HelloIsOfTheActiveSocket
<1>2. ASSUME link' = None, Range(up') \subseteq Range(up), sockets' = sockets,
             UNCHANGED host \/ host' = NewHost
      PROVE  HelloInv'
  <2>1. \A f \in Range(up') : f.type = "hello" => f.socket <= sockets /\ f.socket # None
    BY <1>0, <1>2 DEF HelloInv, UpFrame, Socket, None
  <2>2. NewHost.hello = NoHello
    BY DEF NewHost
  <2> QED
    BY <1>0, <1>2, <2>1, <2>2 DEF HelloInv, HelloIsOfTheActiveSocket
<1>3. CASE Call
  <2>1. CASE Mint /\ Navigate(minted')
    <3>1. host'.hello = host.hello /\ host'.active = host.active
      BY <1>0, <2>1 DEF Navigate, Host
    <3> QED
      BY <1>1, <2>1, <3>1 DEF Navigate
  <2>2. CASE WaitForRendered(cap.linkToken)
    <3>1. host'.hello = host.hello /\ host'.active = host.active
      BY <1>0, <2>2 DEF WaitForRendered, Host
    <3> QED
      BY <1>1, <2>2, <3>1 DEF WaitForRendered, wire
  <2> QED
    BY <1>1, <1>3, <2>1, <2>2 DEF Call, PushReload, StopWaiting, wire
<1>4. CASE Drives
  <2>1. CASE StartSession \/ TerminateApp
    BY <1>2, <2>1 DEF StartSession, TerminateApp, CutLink
  <2>2. CASE CloseDevMenu
    <3>1. dev'.bundle = dev.bundle
      BY <2>2 DEF CloseDevMenu, TypeInv, CaptureTypeOK, TypeOK, Device
    <3> QED
      BY <1>1, <2>2, <3>1 DEF CloseDevMenu, wire
  <2>3. CASE DeepLink(cap.linkToken)
    <3>1. dev'.bundle = dev.bundle
      <4>1. cap.linkToken \in Maybe(Token) /\ {dev.menu} \in SUBSET BOOLEAN
        BY DEF TypeInv, CaptureTypeOK, TypeOK, Device, Capture
      <4> QED
        BY <2>3, <4>1, ApplyTypes DEF DeepLink, TypeInv, CaptureTypeOK
    <3> QED
      BY <1>1, <2>3, <3>1 DEF DeepLink, wire
  <2> QED
    BY <1>4, <2>1, <2>2, <2>3 DEF Drives
<1>5. CASE Wire
  <2>1. CASE DeviceConnects
    <3>1. sockets' = sockets + 1 /\ link' = sockets' /\ link' # None
      BY <1>0, <2>1 DEF DeviceConnects, None
    <3>2. host'.hello = NoHello
      BY <1>0, <2>1 DEF DeviceConnects, Connection, Host
    <3>3. \A f \in Range(up) : f.type = "hello" => f.socket <= sockets /\ f.socket \in Nat
      BY <1>0 DEF HelloInv, UpFrame, Socket
    <3> DEFINE hello == [type |-> "hello", socket |-> sockets', bundle |-> dev.bundle]
    <3>4. hello \in UpFrame
      BY <1>0, <2>1, <3>1 DEF DeviceConnects, UpFrame, TypeInv, CaptureTypeOK, TypeOK, Device,
                              Maybe, Socket
    <3>5. Range(up') = Range(up) \cup {hello}
      BY <1>0, <2>1, <3>4, RangeAppend DEF DeviceConnects
    <3>6. dev' = dev
      BY <2>1 DEF DeviceConnects
    <3>7. ASSUME NEW f \in Range(up'), f.type = "hello"
          PROVE  f.socket <= sockets' /\ (f.socket = link' => f.bundle = dev'.bundle)
      <4>1. CASE f = hello
        BY <1>0, <3>1, <3>6, <4>1
      <4>2. CASE f \in Range(up)
        BY <1>0, <3>1, <3>3, <3>7, <4>2
      <4> QED
        BY <3>5, <4>1, <4>2
    <3> QED
      BY <3>2, <3>7 DEF HelloInv, HelloIsOfTheActiveSocket
  <2>2. CASE DeviceReceives
    <3>1. Head(down) \in DownFrame
      BY <2>2, HeadTailProperties DEF DeviceReceives, TypeInv, CaptureTypeOK, TypeOK
    <3>2. dev'.bundle = dev.bundle
      <4>1. CASE Head(down).type = "navigate" /\ Apply(Head(down).token, {FALSE, dev.menu})
        <5>1. Head(down).token \in Maybe(Token) /\ {FALSE, dev.menu} \in SUBSET BOOLEAN
          BY <3>1, <4>1 DEF DownFrame, Maybe, TypeInv, CaptureTypeOK, TypeOK, Device
        <5> QED
          BY <4>1, <5>1, ApplyTypes DEF TypeInv, CaptureTypeOK
      <4> QED
        BY <2>2, <4>1 DEF DeviceReceives, TypeInv, CaptureTypeOK, TypeOK, Device
    <3> QED
      BY <1>1, <2>2, <3>2 DEF DeviceReceives
  <2>3. CASE DevicePaints
    <3>1. dev'.bundle = dev.bundle
      BY <2>3 DEF DevicePaints, TypeInv, CaptureTypeOK, TypeOK, Device
    <3> QED
      BY <1>1, <2>3, <3>1 DEF DevicePaints, wire
  <2>4. CASE DeviceAcks
    <3>1. dev'.bundle = dev.bundle
      BY <2>4 DEF DeviceAcks, TypeInv, CaptureTypeOK, TypeOK, Device
    <3>2. CASE link = None
      BY <1>1, <2>4, <3>1, <3>2 DEF DeviceAcks, wire
    <3>3. CASE link # None
      <4> DEFINE ack == [type |-> "rendered", socket |-> link, ack |-> Head(dev.acking)]
      <4>1. Head(dev.acking) \in Ack
        BY <2>4, HeadTailProperties DEF DeviceAcks, TypeInv, CaptureTypeOK, TypeOK, Device
      <4>2. ack \in UpFrame
        BY <3>3, <4>1 DEF UpFrame, TypeInv, CaptureTypeOK, TypeOK, Maybe
      <4>3. Range(up') = Range(up) \cup {ack}
        BY <1>0, <2>4, <3>3, <4>2, RangeAppend DEF DeviceAcks
      <4> QED
        BY <2>4, <3>1, <4>3 DEF DeviceAcks, wire, HelloInv, HelloIsOfTheActiveSocket
    <3> QED
      BY <3>2, <3>3
  <2>5. CASE HostSeesClose
    <3>1. host'.hello = NoHello
      BY <1>0, <2>5 DEF HostSeesClose, Host
    <3> QED
      BY <2>5, <3>1 DEF HostSeesClose, wire, HelloInv, HelloIsOfTheActiveSocket
  <2>6. CASE HostReceives
    <3>1. /\ Head(up) \in Range(up) /\ Head(up) \in UpFrame /\ Range(up') \subseteq Range(up)
          /\ UNCHANGED <<dev, link, sockets>>
      BY <1>0, <2>6, RangeTail DEF HostReceives, wire
    <3>2. CASE host'.hello = host.hello /\ host'.active = host.active
      BY <3>1, <3>2 DEF HelloInv, HelloIsOfTheActiveSocket
    <3>3. CASE Head(up).type = "hello" /\ host' = TakeHello(host, Head(up))
      <4>1. CASE Head(up).socket = host.active
        <5>1. /\ host'.hello = [socket |-> Head(up).socket, bundle |-> Head(up).bundle]
              /\ host'.active = host.active
          BY <1>0, <3>3, <4>1 DEF TakeHello, Host
        <5> QED
          BY <3>1, <3>3, <4>1, <5>1 DEF HelloInv, HelloIsOfTheActiveSocket
      <4>2. CASE Head(up).socket # host.active
        BY <3>2, <3>3, <4>2 DEF TakeHello
      <4> QED
        BY <4>1, <4>2
    <3>4. CASE Head(up).type = "rendered" /\ (UNCHANGED host \/ host' = Retain(host, Head(up).ack))
      <4>1. Head(up).ack \in Ack
        BY <3>1, <3>4 DEF UpFrame
      <4> QED
        BY <3>2, <3>4, <4>1, RetainTypes DEF TypeInv, CaptureTypeOK
    <3> QED
      BY <2>6, <3>3, <3>4 DEF HostReceives
  <2>7. CASE SocketDrops \/ HostRestarts
    <3>1. up' = up \/ up' = <<>>
      BY <2>7 DEF SocketDrops, HostRestarts
    <3>2. Range(up') \subseteq Range(up)
      BY <3>1, RangeEmpty
    <3> QED
      BY <1>2, <2>7, <3>2 DEF SocketDrops, HostRestarts, CutLink
  <2>8. CASE DeviceTapped
    <3>1. dev'.bundle = dev.bundle
      BY <2>8, TapTypes DEF TypeInv, CaptureTypeOK
    <3> QED
      BY <1>1, <2>8, <3>1 DEF DeviceTapped, wire
  <2>9. CASE CodeEdited
    BY <1>1, <2>9 DEF CodeEdited, wire
  <2> QED
    BY <1>5, <2>1, <2>2, <2>3, <2>4, <2>5, <2>6, <2>7, <2>8, <2>9 DEF Wire
<1> QED
  BY <1>1, <1>3, <1>4, <1>5, BridgeSteps DEF bridgeVars

LEMMA HelloInit == Init => HelloInv
<1> SUFFICES ASSUME Init PROVE HelloInv
  OBVIOUS
<1>1. up = <<>> /\ link = None /\ host.hello = NoHello
  BY DEF Init, InitBridge, NewHost
<1>2. Range(up) = {}
  BY <1>1, RangeEmpty
<1> QED
  BY <1>1, <1>2 DEF HelloInv, HelloIsOfTheActiveSocket

(* What the host knows of the running bundle was announced through the socket *)
(* it drives through: no hello of a replaced socket and none kept over a      *)
(* reconnection is ever believed.                                             *)
THEOREM HelloIsCurrent == Spec => []HelloIsOfTheActiveSocket
<1>1. HelloInv => HelloIsOfTheActiveSocket
  BY DEF HelloInv
<1> QED
  BY <1>1, HelloInit, TypeInit, TypeStep, HelloStep, PTL DEF Spec

-----------------------------------------------------------------------------
\* Who is given a target.

(* What the host's bookkeeping of acks leaves alone. *)
LEMMA ReceiveKeeps ==
    ASSUME TypeOK, HostReceives
    PROVE  /\ host'.active = host.active /\ host'.lastDrive = host.lastDrive
           /\ host'.epoch = host.epoch
           /\ UNCHANGED <<dev, link, sockets, down, served, minted>>
<1>1. /\ Head(up) \in UpFrame
      /\ UNCHANGED <<dev, link, sockets, down, served, minted>>
  <2>1. up \in Seq(UpFrame) /\ up # <<>>
    BY DEF HostReceives, TypeOK
  <2> QED
    BY <2>1, HeadTailProperties DEF HostReceives, wire
<1>2. CASE Head(up).type = "hello" /\ host' = TakeHello(host, Head(up))
  BY <1>1, <1>2 DEF TakeHello, TypeOK, Host
<1>3. CASE Head(up).type = "rendered" /\ (UNCHANGED host \/ host' = Retain(host, Head(up).ack))
  <2>1. Head(up).ack \in Ack
    BY <1>1, <1>3 DEF UpFrame
  <2> QED
    BY <1>1, <1>3, <2>1, RetainTypes
<1> QED
  BY <1>2, <1>3 DEF HostReceives

(* A session without a target has one on its way, if its host ever drove.     *)
RetargetInv ==
    (link # None /\ host.active = link /\ host.lastDrive # None /\ dev.applied = {})
       => \E f \in Range(down) : f.type = "navigate"

LEMMA RetargetStep == TypeInv /\ RetargetInv /\ [Next]_vars => RetargetInv'
<1> SUFFICES ASSUME TypeInv, RetargetInv, [Next]_vars PROVE RetargetInv'
  OBVIOUS
<1>0. /\ TypeOK /\ host \in Host /\ dev \in Device
      /\ down \in Seq(DownFrame) /\ (dev.bundle = None => link = None)
  BY DEF TypeInv, CaptureTypeOK, TypeOK, Running
<1>1. ASSUME UNCHANGED <<link, down>>, dev'.applied = {} => dev.applied = {},
             host'.active = host.active, host'.lastDrive = host.lastDrive
      PROVE  RetargetInv'
  BY <1>1 DEF RetargetInv
<1>2. CASE link' = None
  BY <1>2 DEF RetargetInv
<1>3. CASE UNCHANGED bridgeVars
  BY <1>1, <1>3 DEF bridgeVars
<1>4. CASE Call
  <2>1. CASE Mint /\ UNCHANGED <<host, waiter, dev, wire, up, served>>
    BY <1>1, <2>1 DEF wire
  <2>2. CASE Mint /\ Navigate(minted')
    <3> DEFINE f == [type |-> "navigate", token |-> minted', replay |-> FALSE]
    <3>1. minted' \in Token
      BY <2>2, BridgeAssumption DEF Mint, TypeInv, CaptureTypeOK, TypeOK, Token
    <3>2. f \in DownFrame /\ f.type = "navigate"
      BY <3>1 DEF DownFrame
    <3>3. host'.active = host.active /\ UNCHANGED <<dev, link>>
      BY <1>0, <2>2 DEF Navigate, Host
    <3>4. CASE host.active = link
      <4>1. down' = Append(down, f)
        BY <2>2, <3>4 DEF Navigate, Written
      <4> HIDE DEF f
      <4>2. Range(down') = Range(down) \cup {f}
        BY <1>0, <3>2, <4>1, RangeAppend
      <4> QED
        BY <3>2, <4>2 DEF RetargetInv
    <3>5. CASE host.active # link
      BY <3>3, <3>5 DEF RetargetInv
    <3> QED
      BY <3>4, <3>5
  <2>3. CASE PushReload
    <3> DEFINE f == [type |-> "reload"]
    <3>1. down' = down \/ down' = Append(down, f)
      BY <2>3 DEF PushReload, Written
    <3>2. f \in DownFrame
      BY DEF DownFrame
    <3> HIDE DEF f
    <3>3. Range(down) \subseteq Range(Append(down, f))
      BY <1>0, <3>2, RangeAppend
    <3>4. Range(down) \subseteq Range(down')
      BY <3>1, <3>3
    <3> QED
      BY <2>3, <3>4 DEF PushReload, RetargetInv
  <2>4. CASE WaitForRendered(cap.linkToken)
    <3>1. host'.active = host.active /\ host'.lastDrive = host.lastDrive
      BY <1>0, <2>4 DEF WaitForRendered, Host
    <3> QED
      BY <1>1, <2>4, <3>1 DEF WaitForRendered, wire
  <2>5. CASE StopWaiting
    BY <1>1, <2>5 DEF StopWaiting, wire
  <2> QED
    BY <1>4, <2>1, <2>2, <2>3, <2>4, <2>5 DEF Call
<1>5. CASE Drives
  <2>1. CASE StartSession \/ TerminateApp
    BY <1>2, <2>1 DEF StartSession, TerminateApp, CutLink
  <2>2. CASE CloseDevMenu
    BY <1>0, <1>1, <2>2 DEF CloseDevMenu, wire, Device
  <2>3. CASE DeepLink(cap.linkToken)
    <3>1. CASE dev.bundle = None
      BY <1>0, <1>2, <2>3, <3>1 DEF DeepLink, wire
    <3>2. CASE dev.bundle # None
      <4>1. cap.linkToken \in Maybe(Token) /\ {dev.menu} \in SUBSET BOOLEAN
        BY <1>0 DEF TypeInv, CaptureTypeOK, Capture, Device
      <4>2. dev'.applied # {}
        BY <1>0, <2>3, <3>2, <4>1, ApplyTypes DEF DeepLink, TypeInv
      <4> QED
        BY <4>2 DEF RetargetInv
    <3> QED
      BY <3>1, <3>2
  <2> QED
    BY <1>5, <2>1, <2>2, <2>3 DEF Drives
<1>6. CASE Wire
  <2>1. CASE DeviceConnects
    <3> DEFINE f == [type |-> "navigate", token |-> host.lastDrive, replay |-> TRUE]
    <3>1. host'.lastDrive = host.lastDrive
      BY <1>0, <2>1 DEF DeviceConnects, Connection, Host
    <3>2. host.lastDrive # None => down' = <<f>>
      BY <2>1 DEF DeviceConnects, Replay
    <3>3. Range(<<f>>) = {f} /\ f.type = "navigate"
      BY RangeEmpty
    <3> HIDE DEF f
    <3> QED
      BY <3>1, <3>2, <3>3 DEF RetargetInv
  <2>2. CASE DeviceReceives
    <3>1. Range(down) = {Head(down)} \cup Range(down') /\ UNCHANGED <<host, link>>
      BY <1>0, <2>2, RangeTail DEF DeviceReceives
    <3>2. CASE Head(down).type = "reload" /\ dev'.applied = dev.applied
      BY <3>1, <3>2 DEF RetargetInv
    <3>3. CASE Head(down).type = "navigate" /\ dev'.applied # {}
      BY <3>3 DEF RetargetInv
    <3>4. CASE /\ Head(down).type = "navigate"
               /\ IF Ignores(Head(down)) THEN UNCHANGED dev
                  ELSE Apply(Head(down).token, {FALSE, dev.menu})
      <4>1. CASE Ignores(Head(down))
        BY <3>3, <3>4, <4>1 DEF Ignores
      <4>2. CASE ~Ignores(Head(down))
        <5>1. Head(down) \in DownFrame /\ {FALSE, dev.menu} \in SUBSET BOOLEAN
          BY <1>0, <2>2, HeadTailProperties DEF DeviceReceives, Device
        <5>2. Head(down).token \in Maybe(Token)
          BY <3>4, <5>1 DEF DownFrame, Maybe
        <5>3. dev'.applied # {}
          BY <1>0, <3>4, <4>2, <5>1, <5>2, ApplyTypes DEF TypeInv
        <5> QED
          BY <3>3, <3>4, <5>3
      <4> QED
        BY <4>1, <4>2
    <3> QED
      BY <1>0, <2>2, <3>2, <3>4 DEF DeviceReceives, Device
  <2>3. CASE DevicePaints
    <3>1. dev'.applied = dev.applied
      BY <1>0, <2>3 DEF DevicePaints, Device
    <3> QED
      BY <1>1, <2>3, <3>1 DEF DevicePaints, wire
  <2>4. CASE DeviceAcks
    <3>1. dev'.applied = dev.applied
      BY <1>0, <2>4 DEF DeviceAcks, Device
    <3> QED
      BY <1>1, <2>4, <3>1 DEF DeviceAcks, wire
  <2>5. CASE HostSeesClose
    <3>1. host'.active = None /\ UNCHANGED link
      BY <1>0, <2>5 DEF HostSeesClose, Host, wire
    <3> QED
      BY <3>1 DEF RetargetInv
  <2>6. CASE HostReceives
    BY <1>0, <1>1, <2>6, ReceiveKeeps
  <2>7. CASE SocketDrops \/ HostRestarts
    BY <1>2, <2>7 DEF SocketDrops, HostRestarts, CutLink
  <2>8. CASE DeviceTapped
    <3>1. dev'.applied # {}
      BY <1>0, <2>8, TapTypes DEF TypeInv
    <3> QED
      BY <3>1 DEF RetargetInv
  <2>9. CASE CodeEdited
    BY <1>1, <2>9 DEF CodeEdited, wire
  <2> QED
    BY <1>6, <2>1, <2>2, <2>3, <2>4, <2>5, <2>6, <2>7, <2>8, <2>9 DEF Wire
<1> QED
  BY <1>3, <1>4, <1>5, <1>6, BridgeSteps

(* A reload, or a reconnection after a drop, never strands the device on its  *)
(* home list: as long as the host is the one that drove it, the new session   *)
(* is sent the last drive again and takes it.                                 *)
THEOREM ReloadsAreRetargeted == Spec => []ReloadedSessionIsRetargeted
<1>1. Init => RetargetInv
  BY DEF Init, InitBridge, RetargetInv
<1>2. RetargetInv => ReloadedSessionIsRetargeted
  <2>1. Range(<<>>) = {}
    BY RangeEmpty
  <2> QED
    BY <2>1 DEF RetargetInv, ReloadedSessionIsRetargeted
<1> QED
  BY <1>1, <1>2, TypeInit, TypeStep, RetargetStep, PTL DEF Spec

-----------------------------------------------------------------------------
\* What a frame may say.

(* How the device takes a frame. *)
LEMMA FrameTaken ==
    ASSUME TypeOK, Running, DeviceReceives
    PROVE  LET f == Head(down)
           IN /\ f \in DownFrame /\ down \in Seq(DownFrame) /\ down # <<>> /\ down' = Tail(down)
              /\ UNCHANGED <<host, waiter, link, sockets, up, served, minted>>
              /\ \/ /\ f.type = "reload" /\ dev' = [dev EXCEPT !.reloading = TRUE]
                 \/ f.type = "navigate" /\ Ignores(f) /\ UNCHANGED dev
                 \/ /\ f.type = "navigate" /\ ~Ignores(f) /\ f.token \in Token
                    /\ Apply(f.token, {FALSE, dev.menu})
                    /\ dev'.owed = f.token /\ dev'.applied = dev.applied \cup {f.token}
                    /\ dev'.bundle = dev.bundle /\ dev'.marker = None
                    /\ dev'.reloading = dev.reloading
<1>1. /\ Head(down) \in DownFrame /\ down \in Seq(DownFrame) /\ down # <<>> /\ down' = Tail(down)
      /\ UNCHANGED <<host, waiter, link, sockets, up, served, minted>>
  BY HeadTailProperties DEF DeviceReceives, TypeOK
<1>2. {FALSE, dev.menu} \in SUBSET BOOLEAN
  BY DEF TypeOK, Device
<1>3. ASSUME Head(down).type = "navigate", ~Ignores(Head(down)), Apply(Head(down).token, {FALSE, dev.menu})
      PROVE  /\ Head(down).token \in Token
             /\ dev'.owed = Head(down).token
             /\ dev'.applied = dev.applied \cup {Head(down).token}
             /\ dev'.bundle = dev.bundle /\ dev'.marker = None
             /\ dev'.reloading = dev.reloading
  <2>1. Head(down).token \in Token /\ Head(down).token \in Maybe(Token)
    BY <1>1, <1>3 DEF DownFrame, Maybe
  <2> QED
    BY <1>2, <1>3, <2>1, ApplyTypes
<1> QED
  BY <1>1, <1>3 DEF DeviceReceives

(* What the device's own steps leave alone. *)
LEMMA DeviceKeeps ==
    ASSUME TypeOK
    PROVE  /\ DevicePaints =>
                /\ dev'.applied = dev.applied /\ dev'.bundle = dev.bundle
                /\ dev'.reloading = dev.reloading /\ dev'.owed = None
                /\ dev'.marker \in {None, dev.owed}
           /\ DeviceAcks =>
                /\ dev'.applied = dev.applied /\ dev'.bundle = dev.bundle
                /\ dev'.reloading = dev.reloading /\ dev'.owed = dev.owed
                /\ dev'.marker = dev.marker /\ dev'.acking = Tail(dev.acking)
           /\ CloseDevMenu =>
                /\ dev'.applied = dev.applied /\ dev'.bundle = dev.bundle
                /\ dev'.reloading = dev.reloading /\ dev'.owed = dev.owed
                /\ dev'.marker = dev.marker /\ dev'.acking = dev.acking
  BY DEF TypeOK, Device, DevicePaints, DeviceAcks, CloseDevMenu

(* The token of an open's deep link is minted when the open begins, kept by   *)
(* its steps and forgotten at its end.                                        *)
LEMMA LinkTokenSteps ==
    ASSUME CaptureTypeOK, [Next]_vars
    PROVE  \/ cap'.linkToken \in {cap.linkToken, None}
           \/ /\ Mint /\ cap'.linkToken = minted'
              /\ UNCHANGED <<host, waiter, dev, wire, up, served>>
<1>1. /\ cap \in Capture /\ waiter.ack \in Ack \cup {NoAck} /\ cap.evidence \in Ack \cup {NoAck}
      /\ cap.linkToken \in Maybe(Token) /\ cap.token \in Maybe(Token)
      /\ NoAck \in Ack \cup {NoAck} /\ {"confirmed", "failed", "unconfirmed"} \subseteq Status
  BY DEF CaptureTypeOK, TypeOK, Waiter, Capture, Status
<1>2. ASSUME NEW rung, Goto(rung) PROVE cap'.linkToken = cap.linkToken
  BY <1>1, <1>2 DEF Goto, Capture
<1>3. ASSUME NEW status \in {"confirmed", "failed", "unconfirmed"},
             NEW token \in {cap.token, cap.linkToken},
             NEW evidence \in {cap.evidence, waiter.ack, NoAck}, Ends(status, token, evidence)
      PROVE  cap'.linkToken = None
  BY <1>1, <1>3, EndsTypes
<1>4. ASSUME FallBack PROVE cap'.linkToken = cap.linkToken
  BY <1>1, <1>4 DEF FallBack, Capture
<1>5. Throws => cap'.linkToken = None
  BY NoCaptureTypes DEF Throws
<1>6. ASSUME NEW rung, ControlLink(rung) PROVE cap'.linkToken = cap.linkToken
  <2>1. CASE cap' = [cap EXCEPT !.at = rung, !.steady = FALSE]
    BY <1>1, <2>1 DEF Capture
  <2> QED
    BY <1>2, <1>6, <2>1 DEF ControlLink
<1>7. CASE UNCHANGED vars
  BY <1>7 DEF vars
<1>8. ASSUME NEW force \in BOOLEAN, Begin(force)
      PROVE  /\ Mint /\ cap'.linkToken = minted'
             /\ UNCHANGED <<host, waiter, dev, wire, up, served>>
  BY <1>8, NoCaptureTypes DEF Begin, Capture
<1>9. CASE World
  BY <1>1, <1>9, NoCaptureTypes DEF World, Receive, Capture
<1>10. CASE Climb
  <2>1. Guard \/ Redial \/ Warm \/ Bridge => cap'.linkToken = cap.linkToken
    BY <1>1 DEF Guard, Redial, Warm, Bridge, Capture
  <2>2. Reload \/ Kill => cap'.linkToken = cap.linkToken
    BY <1>1, <1>2 DEF Reload, Kill, Capture
  <2>3. Boot \/ Cold => cap'.linkToken \in {cap.linkToken, None}
    BY <1>5, <1>6 DEF Boot, Cold
  <2>4. Dial \/ Drive => cap'.linkToken = cap.linkToken
    BY <1>1, <1>2, <1>4 DEF Dial, Drive, Capture
  <2>5. DriveAcked => cap'.linkToken \in {cap.linkToken, None}
    BY <1>1, <1>3, <1>4 DEF DriveAcked, Capture
  <2>6. Paint \/ LookAgain => cap'.linkToken \in {cap.linkToken, None}
    BY <1>2, <1>3 DEF Paint, LookAgain
  <2>7. OpenTarget \/ OpenTargetCold \/ Dismiss => cap'.linkToken \in {cap.linkToken, None}
    BY <1>2, <1>3, <1>5 DEF OpenTarget, OpenTargetCold, Dismiss, Settles
  <2>8. Mark \/ ColdMark => cap'.linkToken \in {cap.linkToken, None}
    BY <1>1, <1>2, <1>3 DEF Mark, ColdMark, Settles, Capture
  <2>9. Adopt \/ Adopted => cap'.linkToken \in {cap.linkToken, None}
    BY <1>2, <1>3 DEF Adopt, Adopted
  <2> QED
    BY <1>10, <2>1, <2>2, <2>3, <2>4, <2>5, <2>6, <2>7, <2>8, <2>9 DEF Climb
<1> QED
  BY <1>7, <1>8, <1>9, <1>10 DEF Next

(* A frame that was not sent again names a target no session has had, and no  *)
(* two frames under way name the same one; the deep link's token travels by   *)
(* itself.                                                                    *)
FramesAreNew ==
    \A i \in 1 .. Len(down) : down[i].type = "navigate" =>
      /\ down[i].token <= minted /\ down[i].token # cap.linkToken
      /\ ~down[i].replay =>
           /\ down[i].token \notin dev.applied
           /\ \A j \in 1 .. i - 1 :
                down[j].type = "navigate" => down[j].token # down[i].token

TokenInv ==
    /\ cap.linkToken <= minted
    /\ dev.owed <= minted /\ dev.marker <= minted
    /\ \A t \in dev.applied : t <= minted
    /\ host.lastDrive <= minted
    /\ host.lastDrive # None => host.lastDrive # cap.linkToken
    /\ FramesAreNew

LEMMA TokenStep == TypeInv /\ TokenInv /\ [Next]_vars => TokenInv'
<1> SUFFICES ASSUME TypeInv, TokenInv, [Next]_vars PROVE TokenInv'
  OBVIOUS
<1>0. /\ CaptureTypeOK /\ TypeOK /\ Running /\ host \in Host /\ dev \in Device
      /\ down \in Seq(DownFrame) /\ minted \in Nat /\ MaxTokens \in Nat
      /\ cap.linkToken \in Maybe(Token) /\ host.lastDrive \in Maybe(Token)
      /\ dev.owed \in Maybe(Token) /\ dev.marker \in Maybe(Token)
      /\ \A t \in Maybe(Token) : t \in Nat
      /\ \A t \in Token : t # None
  BY BridgeAssumption
     DEF TypeInv, CaptureTypeOK, TypeOK, Capture, Host, Device, Maybe, None, Token
<1>1. /\ Len(down) \in Nat /\ \A i \in 1 .. Len(down) : down[i] \in DownFrame
      /\ \A i \in 1 .. Len(down) : down[i].type = "navigate" => down[i].token \in Token
  BY <1>0 DEF DownFrame
<1>8. \A i \in 1 .. Len(down) : down[i].type = "navigate" =>
        /\ down[i].token \in Nat /\ down[i].token <= minted
        /\ down[i].token # cap.linkToken /\ down[i].token # None
        /\ ~down[i].replay =>
             /\ down[i].token \notin dev.applied
             /\ \A j \in 1 .. i - 1 :
                  down[j].type = "navigate" => down[j].token # down[i].token
  <2>1. FramesAreNew
    BY DEF TokenInv
  <2>2. \A i \in 1 .. Len(down) : down[i].type = "navigate" =>
          down[i].token \in Nat /\ down[i].token # None
    BY <1>0, <1>1 DEF Maybe
  <2> QED
    BY <2>1, <2>2, Zenon DEF FramesAreNew
<1>9. ASSUME minted' \in Nat, minted <= minted', 
             cap'.linkToken \in {cap.linkToken, None} \/ cap'.linkToken = minted + 1,
             dev'.applied \subseteq dev.applied \cup {None, cap.linkToken},
             NEW i \in 1 .. Len(down), down[i].type = "navigate"
      PROVE  /\ down[i].token <= minted' /\ down[i].token # cap'.linkToken
             /\ ~down[i].replay =>
                  /\ down[i].token \notin dev'.applied
                  /\ \A j \in 1 .. i - 1 :
                       down[j].type = "navigate" => down[j].token # down[i].token
  <2>1. /\ down[i].token \in Nat /\ down[i].token <= minted
        /\ down[i].token # cap.linkToken /\ down[i].token # None
    BY <1>8, <1>9
  <2>2. down[i].token <= minted' /\ down[i].token # minted + 1
    BY <1>0, <1>9, <2>1
  <2>3. down[i].token # cap'.linkToken
    BY <1>9, <2>1, <2>2
  <2>4. ~down[i].replay =>
          /\ down[i].token \notin dev.applied
          /\ \A j \in 1 .. i - 1 :
               down[j].type = "navigate" => down[j].token # down[i].token
    BY <1>8, <1>9
  <2> QED
    BY <1>9, <2>1, <2>2, <2>3, <2>4
<1>10. ASSUME minted' \in Nat, minted <= minted', down' = down,
              cap'.linkToken \in {cap.linkToken, None} \/ cap'.linkToken = minted + 1,
              dev'.applied \subseteq dev.applied \cup {None, cap.linkToken}
       PROVE  FramesAreNew'
  BY <1>9, <1>10 DEF FramesAreNew
<1>11. \A t \in dev.applied : t \in Nat /\ t <= minted
  BY <1>0 DEF TokenInv, Device
<1>2. ASSUME minted' \in Nat, minted <= minted', cap'.linkToken \in {cap.linkToken, None},
             host'.lastDrive \in {host.lastDrive, None}, down' = down \/ down' = <<>>,
             dev'.owed \in {dev.owed, None}, dev'.marker \in {dev.marker, dev.owed, None},
             dev'.applied \subseteq dev.applied \cup {None}
      PROVE  TokenInv'
  <2>1. /\ cap.linkToken <= minted /\ dev.owed <= minted /\ dev.marker <= minted
        /\ host.lastDrive <= minted /\ None <= minted /\ None \in Nat
    BY <1>0 DEF TokenInv, None
  <2>2. \A t \in dev'.applied : t <= minted'
    <3> SUFFICES ASSUME NEW t \in dev'.applied PROVE t <= minted'
      OBVIOUS
    <3>1. t \in Nat /\ t <= minted
      BY <1>2, <1>11, <2>1
    <3> QED
      BY <1>0, <1>2, <3>1
  <2>3. FramesAreNew'
    <3>1. CASE down' = <<>>
      BY <3>1 DEF FramesAreNew
    <3>2. CASE down' = down
      BY <1>2, <1>10, <3>2
    <3> QED
      BY <1>2, <3>1, <3>2
  <2>4. host'.lastDrive # None => host'.lastDrive # cap'.linkToken
    BY <1>2 DEF TokenInv
  <2>5. \A t \in Nat : t <= minted => t <= minted'
    BY <1>0, <1>2
  <2>6. /\ cap'.linkToken <= minted' /\ dev'.owed <= minted' /\ dev'.marker <= minted'
        /\ host'.lastDrive <= minted'
    BY <1>0, <1>2, <2>1, <2>5
  <2> QED
    BY <2>2, <2>3, <2>4, <2>6 DEF TokenInv
<1>3. ASSUME Mint, UNCHANGED <<host, waiter, dev, wire, up, served>>, cap'.linkToken = minted'
      PROVE  TokenInv'
  <2>1. minted' = minted + 1
    BY <1>3 DEF Mint
  <2>2. UNCHANGED <<host, dev, down>>
    BY <1>3 DEF wire
  <2>3. FramesAreNew'
    BY <1>0, <1>3, <1>10, <2>1, <2>2
  <2>4. \A t \in dev.applied : t <= minted'
    BY <1>0, <2>1 DEF TokenInv, Device
  <2> QED
    BY <1>0, <1>3, <2>1, <2>2, <2>3, <2>4 DEF TokenInv
<1>4. ASSUME cap'.linkToken \in {cap.linkToken, None}, Call PROVE TokenInv'
  <2>1. CASE Mint /\ UNCHANGED <<host, waiter, dev, wire, up, served>>
    BY <1>0, <1>2, <1>4, <2>1 DEF Mint, wire
  <2>2. CASE Mint /\ Navigate(minted')
    <3> DEFINE f == [type |-> "navigate", token |-> minted', replay |-> FALSE]
    <3>1. minted' = minted + 1 /\ minted' \in Token
      BY <1>0, <2>2 DEF Mint, Token
    <3>2. f \in DownFrame /\ f.type = "navigate" /\ f.token = minted + 1
      BY <3>1 DEF DownFrame
    <3>3. host'.lastDrive = minted + 1 /\ UNCHANGED dev
      BY <1>0, <2>2, <3>1 DEF Navigate, Host
    <3>4. down' = down \/ down' = Append(down, f)
      BY <2>2 DEF Navigate, Written
    <3> HIDE DEF f
    <3>5. FramesAreNew'
      <4>1. CASE down' = down
        BY <1>0, <1>4, <1>10, <3>1, <3>3, <4>1
      <4>2. CASE down' = Append(down, f)
        <5>1. /\ Len(down') = Len(down) + 1 /\ down'[Len(down) + 1] = f
              /\ \A i \in 1 .. Len(down) : down'[i] = down[i]
          BY <1>0, <3>2, <4>2
        <5>2. ASSUME NEW i \in 1 .. Len(down), down[i].type = "navigate"
              PROVE  /\ down[i].token <= minted' /\ down[i].token # cap'.linkToken
                     /\ ~down[i].replay =>
                          /\ down[i].token \notin dev'.applied
                          /\ \A j \in 1 .. i - 1 :
                               down'[j].type = "navigate" => down'[j].token # down[i].token
          <6>1. \A j \in 1 .. i - 1 : down'[j] = down[j]
            BY <1>1, <5>1
          <6> QED
            BY <1>0, <1>4, <1>9, <3>1, <3>3, <5>2, <6>1
        <5>3. /\ f.token <= minted' /\ f.token # cap'.linkToken /\ f.token \notin dev'.applied
              /\ \A j \in 1 .. Len(down) :
                   down[j].type = "navigate" => down[j].token # f.token
          BY <1>0, <1>4, <1>8, <1>11, <3>1, <3>2, <3>3 DEF TokenInv, None
        <5> QED
          BY <1>1, <5>1, <5>2, <5>3 DEF FramesAreNew
      <4> QED
        BY <3>4, <4>1, <4>2
    <3>6. \A t \in dev.applied : t <= minted'
      BY <1>0, <3>1 DEF TokenInv, Device
    <3>7. minted + 1 # cap'.linkToken /\ cap'.linkToken <= minted + 1
      BY <1>0, <1>4 DEF TokenInv, None
    <3> QED
      BY <1>0, <3>1, <3>3, <3>5, <3>6, <3>7 DEF TokenInv
  <2>3. CASE PushReload
    <3> DEFINE f == [type |-> "reload"]
    <3>1. f \in DownFrame /\ f.type = "reload"
      BY DEF DownFrame
    <3>2. /\ UNCHANGED <<host, dev, minted>>
          /\ down' = down \/ down' = Append(down, f)
      BY <2>3 DEF PushReload, Written
    <3> HIDE DEF f
    <3>3. CASE down' = down
      BY <1>0, <1>2, <1>4, <3>2, <3>3
    <3>4. CASE down' = Append(down, f)
      <4>1. /\ Len(down') = Len(down) + 1 /\ down'[Len(down) + 1].type = "reload"
            /\ \A i \in 1 .. Len(down) : down'[i] = down[i]
        BY <1>0, <3>1, <3>4
      <4>2. FramesAreNew'
        <5>1. ASSUME NEW i \in 1 .. Len(down), down[i].type = "navigate"
              PROVE  /\ down[i].token <= minted' /\ down[i].token # cap'.linkToken
                     /\ ~down[i].replay =>
                          /\ down[i].token \notin dev'.applied
                          /\ \A j \in 1 .. i - 1 :
                               down'[j].type = "navigate" => down'[j].token # down[i].token
          <6>1. \A j \in 1 .. i - 1 : down'[j] = down[j]
            BY <1>1, <4>1
          <6> QED
            BY <1>0, <1>4, <1>9, <3>2, <5>1, <6>1
        <5>2. \A i \in 1 .. Len(down') : down'[i].type = "navigate" =>
                i \in 1 .. Len(down) /\ down'[i] = down[i]
          BY <1>1, <4>1
        <5> QED
          BY <5>1, <5>2 DEF FramesAreNew
      <4> QED
        BY <1>0, <1>4, <3>2, <4>2 DEF TokenInv, None
    <3> QED
      BY <3>2, <3>3, <3>4
  <2>4. CASE WaitForRendered(cap.linkToken)
    <3>1. host'.lastDrive = host.lastDrive
      BY <1>0, <2>4 DEF WaitForRendered, Host
    <3> QED
      BY <1>0, <1>2, <1>4, <2>4, <3>1 DEF WaitForRendered, wire
  <2>5. CASE StopWaiting
    BY <1>0, <1>2, <1>4, <2>5 DEF StopWaiting, wire
  <2> QED
    BY <1>4, <2>1, <2>2, <2>3, <2>4, <2>5 DEF Call
<1>5. ASSUME cap'.linkToken \in {cap.linkToken, None}, Drives PROVE TokenInv'
  <2>1. CASE StartSession \/ TerminateApp
    <3>1. /\ dev'.owed = None /\ dev'.marker = None /\ dev'.applied = {}
          /\ down' = <<>> /\ UNCHANGED <<host, minted>>
      BY <1>0, <2>1, SessionTypes DEF StartSession, TerminateApp, CutLink
    <3> QED
      BY <1>0, <1>2, <1>5, <3>1
  <2>2. CASE CloseDevMenu
    BY <1>0, <1>2, <1>5, <2>2, DeviceKeeps DEF CloseDevMenu, wire
  <2>3. CASE DeepLink(cap.linkToken) /\ dev.bundle = None
    BY <1>0, <1>2, <1>5, <2>3 DEF DeepLink, wire
  <2>4. CASE DeepLink(cap.linkToken) /\ dev.bundle # None
    <3>1. {dev.menu} \in SUBSET BOOLEAN
      BY <1>0 DEF Device
    <3>2. /\ dev'.owed = cap.linkToken /\ dev'.marker = None
          /\ dev'.applied = dev.applied \cup {cap.linkToken}
          /\ UNCHANGED <<host, down, minted>>
      BY <1>0, <2>4, <3>1, ApplyTypes DEF DeepLink, wire
    <3>3. FramesAreNew'
      BY <1>0, <1>5, <1>10, <3>2
    <3>4. \A t \in dev'.applied : t <= minted
      BY <3>2 DEF TokenInv
    <3> QED
      BY <1>0, <1>5, <3>2, <3>3, <3>4 DEF TokenInv, None
  <2> QED
    BY <1>5, <2>1, <2>2, <2>3, <2>4 DEF Drives
<1>6. ASSUME cap'.linkToken \in {cap.linkToken, None}, Wire PROVE TokenInv'
  <2>1. CASE DeviceConnects
    <3>1. UNCHANGED <<dev, minted>> /\ host'.lastDrive = host.lastDrive
      BY <1>0, <2>1 DEF DeviceConnects, Connection, Host
    <3>2. CASE host.lastDrive = None
      BY <1>0, <1>2, <1>6, <2>1, <3>1, <3>2 DEF DeviceConnects, Replay
    <3>3. CASE host.lastDrive # None
      <4>1. down' = <<[type |-> "navigate", token |-> host.lastDrive, replay |-> TRUE]>>
        BY <2>1, <3>3 DEF DeviceConnects, Replay
      <4>2. FramesAreNew'
        BY <1>0, <1>6, <3>1, <3>3, <4>1 DEF TokenInv, FramesAreNew
      <4> QED
        BY <1>0, <1>6, <3>1, <4>2 DEF TokenInv, None
    <3> QED
      BY <3>2, <3>3
  <2>2. CASE DeviceReceives
    <3>1. /\ UNCHANGED <<host, minted>> /\ Len(down') = Len(down) - 1 /\ Len(down) > 0
          /\ Head(down) = down[1]
          /\ \A i \in 1 .. Len(down) - 1 : down'[i] = down[i + 1]
      BY <1>0, <2>2, FrameTaken, HeadTailProperties, EmptySeq
    <3>2. ASSUME NEW i \in 1 .. Len(down) - 1, down[i + 1].type = "navigate"
          PROVE  /\ down[i + 1].token <= minted /\ down[i + 1].token # cap'.linkToken
                 /\ ~down[i + 1].replay =>
                      /\ down[i + 1].token \notin dev.applied
                      /\ \A j \in 1 .. i - 1 :
                           down'[j].type = "navigate" => down'[j].token # down[i + 1].token
                      /\ down[1].type = "navigate" => down[1].token # down[i + 1].token
      <4>1. /\ i + 1 \in 1 .. Len(down) /\ (i + 1) - 1 = i /\ 1 \in 1 .. i
            /\ \A j \in 1 .. i - 1 : j + 1 \in 1 .. i /\ down'[j] = down[j + 1]
        BY <1>1, <3>1
      <4>2. /\ down[i + 1].token <= minted /\ down[i + 1].token # cap.linkToken
            /\ down[i + 1].token # None
            /\ ~down[i + 1].replay =>
                 /\ down[i + 1].token \notin dev.applied
                 /\ \A j \in 1 .. i :
                      down[j].type = "navigate" => down[j].token # down[i + 1].token
        BY <1>0, <1>1, <3>2, <4>1 DEF TokenInv, FramesAreNew
      <4> QED
        BY <1>6, <4>1, <4>2
    <3>3. CASE dev'.applied = dev.applied /\ dev'.owed = dev.owed /\ dev'.marker = dev.marker
      <4>1. FramesAreNew'
        BY <1>1, <3>1, <3>2, <3>3 DEF FramesAreNew
      <4> QED
        BY <1>0, <1>6, <3>1, <3>3, <4>1 DEF TokenInv, None
    <3>4. CASE /\ down[1].type = "navigate" /\ dev'.owed = down[1].token /\ dev'.marker = None
               /\ dev'.applied = dev.applied \cup {down[1].token}
      <4>1. FramesAreNew'
        BY <1>1, <3>1, <3>2, <3>4 DEF FramesAreNew
      <4>2. down[1].token <= minted
        BY <1>1, <3>1, <3>4 DEF TokenInv, FramesAreNew
      <4> QED
        BY <1>0, <1>6, <3>1, <3>4, <4>1, <4>2 DEF TokenInv, None
    <3>5. CASE dev' = [dev EXCEPT !.reloading = TRUE]
      BY <1>0, <3>3, <3>5 DEF Device
    <3> QED
      BY <1>0, <2>2, <3>1, <3>3, <3>4, <3>5, FrameTaken
  <2>3. CASE DevicePaints
    <3>1. UNCHANGED <<host, down, minted>>
      BY <2>3 DEF DevicePaints, wire
    <3> QED
      BY <1>0, <1>2, <1>6, <2>3, <3>1, DeviceKeeps
  <2>4. CASE DeviceAcks
    <3>1. UNCHANGED <<host, down, minted>>
      BY <2>4 DEF DeviceAcks, wire
    <3> QED
      BY <1>0, <1>2, <1>6, <2>4, <3>1, DeviceKeeps
  <2>5. CASE HostSeesClose
    <3>1. host'.lastDrive = host.lastDrive /\ UNCHANGED <<dev, down, minted>>
      BY <1>0, <2>5 DEF HostSeesClose, Host, wire
    <3> QED
      BY <1>0, <1>2, <1>6, <3>1
  <2>6. CASE HostReceives
    BY <1>0, <1>2, <1>6, <2>6, ReceiveKeeps
  <2>7. CASE SocketDrops \/ HostRestarts
    <3>1. NewHost.lastDrive = None
      BY DEF NewHost
    <3> QED
      BY <1>0, <1>2, <1>6, <2>7, <3>1 DEF SocketDrops, HostRestarts, CutLink
  <2>8. CASE DeviceTapped
    <3>1. UNCHANGED <<host, down, minted>>
      BY <2>8 DEF DeviceTapped, wire
    <3> QED
      BY <1>0, <1>2, <1>6, <2>8, <3>1, TapTypes DEF TypeInv
  <2>9. CASE CodeEdited
    BY <1>0, <1>2, <1>6, <2>9 DEF CodeEdited, wire
  <2> QED
    BY <1>6, <2>1, <2>2, <2>3, <2>4, <2>5, <2>6, <2>7, <2>8, <2>9 DEF Wire
<1>7. ASSUME cap'.linkToken \in {cap.linkToken, None}, UNCHANGED bridgeVars PROVE TokenInv'
  BY <1>0, <1>2, <1>7 DEF bridgeVars
<1> QED
  BY <1>0, <1>3, <1>4, <1>5, <1>6, <1>7, BridgeSteps, LinkTokenSteps

LEMMA TokenInit == Init => TokenInv
<1> SUFFICES ASSUME Init PROVE TokenInv
  OBVIOUS
<1>1. dev.owed = None /\ dev.marker = None /\ dev.applied = {}
  BY LauncherTypes DEF Init, InitBridge, Launcher, LeftBehind
<1>2. host.lastDrive = None /\ down = <<>> /\ minted = 0 /\ cap.linkToken = None
  BY NoCaptureTypes DEF Init, InitBridge, NewHost
<1> QED
  BY <1>1, <1>2 DEF TokenInv, FramesAreNew, None

(* The device never goes back by itself to a target its session has had: a    *)
(* frame that was sent again is ignored by a session that already has one,    *)
(* and every other frame names a new one.                                     *)
THEOREM NoYank == Spec => NeverYankedBack
<1>1. ASSUME TypeInv, TokenInv, DeviceReceives, dev'.owed # dev.owed
      PROVE  dev'.owed \notin dev.applied
  <2>1. TypeOK /\ Running /\ dev \in Device
    BY <1>1 DEF TypeInv, CaptureTypeOK, TypeOK
  <2>2. dev' # [dev EXCEPT !.reloading = TRUE]
    BY <1>1, <2>1 DEF Device
  <2>3. /\ Head(down).type = "navigate" /\ ~Ignores(Head(down)) /\ dev'.owed = Head(down).token
        /\ Head(down) = down[1] /\ 1 \in 1 .. Len(down)
    BY <1>1, <2>1, <2>2, FrameTaken, HeadTailProperties, EmptySeq
  <2> QED
    BY <1>1, <2>3 DEF TokenInv, FramesAreNew, Ignores
<1>2. TypeInv /\ TokenInv => [DeviceReceives /\ dev'.owed # dev.owed => dev'.owed \notin dev.applied]_bridgeVars
  BY <1>1
<1> QED
  BY <1>2, TypeInit, TypeStep, TokenInit, TokenStep, PTL DEF Spec, NeverYankedBack

-----------------------------------------------------------------------------
\* The ladder.

(* Versions and tokens are only ever added. *)
LEMMA Monotone ==
    ASSUME TypeInv, [Next]_vars
    PROVE  /\ served \in Nat /\ served' \in Nat /\ served <= served'
           /\ minted \in Nat /\ minted' \in Nat /\ minted <= minted'
<1>0. served \in Nat /\ minted \in Nat
  BY BridgeAssumption DEF TypeInv, CaptureTypeOK, TypeOK, Version
<1>1. served' \in {served, served + 1}
  <2>1. Call => served' = served
    BY DEF Call, Navigate, PushReload, WaitForRendered, StopWaiting
  <2>2. Drives => served' = served
    BY DEF Drives, StartSession, TerminateApp, CloseDevMenu, DeepLink
  <2>3. Wire => served' \in {served, served + 1}
    BY DEF Wire, DeviceConnects, DeviceReceives, DevicePaints, DeviceAcks, HostSeesClose,
           HostReceives, SocketDrops, HostRestarts, DeviceTapped, CodeEdited
  <2> QED
    BY <2>1, <2>2, <2>3, BridgeSteps DEF bridgeVars
<1>2. minted' \in {minted, minted + 1}
  <2>1. Call => minted' \in {minted, minted + 1}
    BY DEF Call, Mint, PushReload, WaitForRendered, StopWaiting
  <2>2. Drives => minted' = minted
    BY DEF Drives, StartSession, TerminateApp, CloseDevMenu, DeepLink
  <2>3. Wire => minted' = minted
    BY DEF Wire, DeviceConnects, DeviceReceives, DevicePaints, DeviceAcks, HostSeesClose,
           HostReceives, SocketDrops, HostRestarts, DeviceTapped, CodeEdited
  <2> QED
    BY <2>1, <2>2, <2>3, BridgeSteps DEF bridgeVars
<1> QED
  BY <1>0, <1>1, <1>2

(* Where the ladder falls back to, and what it knows by then: it only reloads *)
(* and kills by force, has a token for its deep link, and sends that one      *)
(* again only after it gave it up.                                            *)
AfterTheColdBoot == {"cold", "coldlink", "dismiss", "coldmark"}

LadderInv ==
    /\ cap.expected <= served
    /\ cap.back # "idle" => At("drive") \/ At("ack")
    /\ At("drive") \/ At("ack") => cap.back \in {"kill", "boot", "link"}
    /\ cap.back = "kill" => cap.force
    /\ cap.at \in {"reload", "redial", "kill"} => cap.force
    /\ cap.at \notin {"idle", "done"} => cap.linkToken # None
    /\ cap.at \in AfterTheColdBoot => cap.relinked
    /\ At("bridge") /\ cap.skip => ~cap.force

LEMMA LadderStep == TypeInv /\ LadderInv /\ [Next]_vars => LadderInv'
<1> SUFFICES ASSUME TypeInv, LadderInv, [Next]_vars PROVE LadderInv'
  OBVIOUS
<1>0. /\ CaptureTypeOK /\ cap \in Capture /\ cap.expected \in Nat
      /\ waiter.ack \in Ack \cup {NoAck} /\ cap.evidence \in Ack \cup {NoAck}
      /\ cap.linkToken \in Maybe(Token) /\ cap.token \in Maybe(Token)
      /\ NoAck \in Ack \cup {NoAck} /\ {"confirmed", "failed", "unconfirmed"} \subseteq Status
  BY BridgeAssumption DEF TypeInv, CaptureTypeOK, TypeOK, Waiter, Capture, Status, Version
<1>1. /\ served \in Nat /\ served' \in Nat /\ served <= served' /\ cap.expected <= served'
  BY <1>0, Monotone DEF LadderInv
<1>2. ASSUME UNCHANGED <<cap>> PROVE LadderInv'
  BY <1>1, <1>2 DEF LadderInv, At
<1>3. ASSUME cap' = NoCapture PROVE LadderInv'
  <2>1. NoCapture.expected = 1 /\ NoCapture.back = "idle" /\ NoCapture.at = "idle"
    BY DEF NoCapture
  <2>2. 1 <= served'
    BY <1>1, BridgeAssumption DEF TypeInv, CaptureTypeOK, TypeOK, Version
  <2> QED
    BY <1>3, <2>1, <2>2 DEF LadderInv, At, AfterTheColdBoot
<1>4. ASSUME NEW status \in {"confirmed", "failed", "unconfirmed"},
             NEW token \in {cap.token, cap.linkToken},
             NEW evidence \in {cap.evidence, waiter.ack, NoAck}, Ends(status, token, evidence)
      PROVE  LadderInv'
  <2>1. cap'.at = "done" /\ cap'.expected = cap.expected
    BY <1>0, <1>4, EndsTypes
  <2>2. cap'.back = "idle"
    BY <1>4 DEF Ends, NoCapture
  <2> QED
    BY <1>1, <2>1, <2>2 DEF LadderInv, At, AfterTheColdBoot
<1>5. ASSUME NEW rung \in {"warm", "dial", "look", "mark", "adopt", "adopting", "link"}, Goto(rung),
             ~At("drive"), ~At("ack"), ~At("idle"), ~At("done")
      PROVE  LadderInv'
  BY <1>0, <1>1, <1>5 DEF Goto, LadderInv, At, AfterTheColdBoot, Capture
<1>6. ASSUME NEW rung \in AfterTheColdBoot, Goto(rung), cap.at \in AfterTheColdBoot
      PROVE  LadderInv'
  BY <1>0, <1>1, <1>6 DEF Goto, LadderInv, At, AfterTheColdBoot, Capture
<1>7. ASSUME FallBack, At("drive") \/ At("ack") PROVE LadderInv'
  BY <1>0, <1>1, <1>7 DEF FallBack, LadderInv, At, AfterTheColdBoot, Capture
<1>8. CASE UNCHANGED vars
  BY <1>2, <1>8 DEF vars
<1>9. ASSUME NEW force \in BOOLEAN, Begin(force) PROVE LadderInv'
  <2>1. minted' # None /\ served' = served /\ NoCapture.back = "idle"
    BY <1>9, BridgeAssumption
       DEF Begin, Mint, None, NoCapture, TypeInv, CaptureTypeOK, TypeOK
  <2>2. /\ cap'.at = "hello" /\ cap'.linkToken = minted' /\ cap'.expected = served
        /\ cap'.back = "idle" 
    BY <1>9, <2>1, NoCaptureTypes DEF Begin, Capture
  <2> QED
    BY <1>1, <2>1, <2>2 DEF LadderInv, At, AfterTheColdBoot
<1>10. CASE World
  <2>1. CASE cap' = [cap EXCEPT !.heard = TRUE] \/ cap' = [cap EXCEPT !.steady = FALSE]
    BY <1>0, <1>1, <2>1 DEF LadderInv, At, AfterTheColdBoot, Capture
  <2> QED
    BY <1>2, <1>3, <1>10, <2>1 DEF World, Receive
<1>11. CASE Climb
  <2>1. CASE Guard
    BY <1>0, <1>1, <2>1 DEF Guard, LadderInv, At, AfterTheColdBoot, Capture
  <2>2. CASE Reload
    BY <1>0, <1>1, <2>2 DEF Reload, Goto, LadderInv, At, AfterTheColdBoot, Capture
  <2>3. CASE Redial
    BY <1>0, <1>1, <2>3 DEF Redial, LadderInv, At, AfterTheColdBoot, Capture
  <2>4. CASE Kill
    BY <1>0, <1>1, <2>4 DEF Kill, Goto, LadderInv, At, AfterTheColdBoot, Capture
  <2>5. CASE Warm
    BY <1>0, <1>1, <2>5 DEF Warm, LadderInv, At, AfterTheColdBoot, Capture
  <2>6. CASE Bridge
    BY <1>0, <1>1, <2>6 DEF Bridge, LadderInv, At, AfterTheColdBoot, Capture
  <2>7. CASE Boot
    <3>1. CASE cap' = [cap EXCEPT !.at = "dial", !.steady = FALSE]
      BY <1>0, <1>1, <2>7, <3>1 DEF Boot, LadderInv, At, AfterTheColdBoot, Capture
    <3> QED
      BY <1>5, <2>7, <3>1 DEF Boot, ControlLink, At
  <2>8. CASE Dial
    <3>1. CASE cap' = [cap EXCEPT !.at = "drive", !.back = "link"]
      BY <1>0, <1>1, <2>8, <3>1 DEF Dial, LadderInv, At, AfterTheColdBoot, Capture
    <3> QED
      BY <1>5, <2>8, <3>1 DEF Dial, At
  <2>9. CASE Drive
    <3>1. CASE cap' = [cap EXCEPT !.at = "ack", !.token = minted']
      BY <1>0, <1>1, <2>9, <3>1 DEF Drive, LadderInv, At, AfterTheColdBoot, Capture
    <3> QED
      BY <1>7, <2>9, <3>1 DEF Drive
  <2>10. CASE DriveAcked
    <3>1. CASE cap' = [cap EXCEPT !.at = "paint", !.back = "idle", !.evidence = waiter.ack]
      BY <1>0, <1>1, <2>10, <3>1 DEF DriveAcked, LadderInv, At, AfterTheColdBoot, Capture
    <3> QED
      BY <1>4, <1>7, <2>10, <3>1 DEF DriveAcked
  <2>11. CASE Paint \/ LookAgain
    BY <1>4, <1>5, <2>11 DEF Paint, LookAgain, At
  <2>12. CASE OpenTarget
    BY <1>5, <2>12 DEF OpenTarget, At
  <2>13. CASE Mark
    <3>1. CASE cap' = [cap EXCEPT !.at = "cold", !.skip = FALSE, !.relinked = TRUE]
      BY <1>0, <1>1, <2>13, <3>1 DEF Mark, LadderInv, At, AfterTheColdBoot, Capture
    <3> QED
      BY <1>4, <1>5, <2>13, <3>1 DEF Mark, Settles, At
  <2>14. CASE Cold
    <3>1. CASE cap' = [cap EXCEPT !.at = "coldlink", !.steady = FALSE]
      BY <1>0, <1>1, <2>14, <3>1 DEF Cold, LadderInv, At, AfterTheColdBoot, Capture
    <3> QED
      BY <1>3, <1>6, <2>14, <3>1 DEF Cold, ControlLink, Throws, At, AfterTheColdBoot
  <2>15. CASE OpenTargetCold
    BY <1>3, <1>4, <1>6, <2>15 DEF OpenTargetCold, Throws, Settles, At, AfterTheColdBoot
  <2>16. CASE Dismiss
    BY <1>6, <2>16 DEF Dismiss, At, AfterTheColdBoot
  <2>17. CASE ColdMark
    <3>1. CASE cap' = [cap EXCEPT !.at = "coldlink", !.tapped = TRUE]
      BY <1>0, <1>1, <2>17, <3>1 DEF ColdMark, LadderInv, At, AfterTheColdBoot, Capture
    <3> QED
      BY <1>4, <1>5, <2>17, <3>1 DEF ColdMark, Settles, At
  <2>18. CASE Adopt \/ Adopted
    BY <1>4, <1>5, <2>18 DEF Adopt, Adopted, At
  <2> QED
    BY <1>11, <2>1, <2>2, <2>3, <2>4, <2>5, <2>6, <2>7, <2>8, <2>9, <2>10, <2>11, <2>12,
       <2>13, <2>14, <2>15, <2>16, <2>17, <2>18 DEF Climb
<1> QED
  BY <1>8, <1>9, <1>10, <1>11 DEF Next

\* A reload the device has been, or is being, told of.
ReloadPending == dev.reloading \/ \E f \in Range(down) : f.type = "reload"

\* The running bundle stays, and no reload is asked for.
Quiet ==
    /\ ReloadPending' => ReloadPending
    /\ dev'.bundle = dev.bundle /\ host'.epoch = host.epoch
    /\ link' = link
    /\ link # None /\ host.active = link => host'.active = host.active

LEMMA StaysQuiet ==
    ASSUME TypeInv
    PROVE  /\ UNCHANGED bridgeVars => Quiet
           /\ Mint /\ Navigate(minted') => Quiet
           /\ StopWaiting => Quiet
           /\ WaitForRendered(cap.linkToken) => Quiet
           /\ CloseDevMenu => Quiet
           /\ DeepLink(cap.linkToken) => Quiet
<1>0. /\ TypeOK /\ Running /\ host \in Host /\ dev \in Device /\ down \in Seq(DownFrame)
      /\ cap.linkToken \in Maybe(Token)
  BY DEF TypeInv, CaptureTypeOK, TypeOK, Capture
<1>1. ASSUME dev'.reloading = dev.reloading, dev'.bundle = dev.bundle, UNCHANGED <<link, down>>,
             host'.epoch = host.epoch, host'.active = host.active
      PROVE  Quiet
  BY <1>1 DEF Quiet, ReloadPending
<1>2. UNCHANGED bridgeVars => Quiet
  BY <1>1 DEF bridgeVars
<1>3. ASSUME Mint, Navigate(minted') PROVE Quiet
  <2> DEFINE f == [type |-> "navigate", token |-> minted', replay |-> FALSE]
  <2>1. minted' \in Token
    BY <1>3, BridgeAssumption DEF Mint, TypeInv, CaptureTypeOK, TypeOK, Token
  <2>2. f \in DownFrame /\ f.type = "navigate"
    BY <2>1 DEF DownFrame
  <2>3. down' = down \/ down' = Append(down, f)
    BY <1>3 DEF Navigate, Written
  <2> HIDE DEF f
  <2>4. Range(Append(down, f)) = Range(down) \cup {f}
    BY <1>0, <2>2, RangeAppend
  <2>5. ReloadPending' => ReloadPending
    BY <1>3, <2>2, <2>3, <2>4 DEF ReloadPending, Navigate
  <2>6. host'.epoch = host.epoch /\ host'.active = host.active /\ UNCHANGED <<dev, link>>
    BY <1>0, <1>3 DEF Navigate, Host
  <2> QED
    BY <2>5, <2>6 DEF Quiet
<1>4. StopWaiting => Quiet
  BY <1>1 DEF StopWaiting, wire
<1>5. ASSUME WaitForRendered(cap.linkToken) PROVE Quiet
  <2>1. host'.epoch = host.epoch /\ host'.active = host.active
    BY <1>0, <1>5 DEF WaitForRendered, Host
  <2> QED
    BY <1>1, <1>5, <2>1 DEF WaitForRendered, wire
<1>6. CloseDevMenu => Quiet
  BY <1>0, <1>1, DeviceKeeps DEF CloseDevMenu, wire
<1>7. ASSUME DeepLink(cap.linkToken) PROVE Quiet
  <2>1. {dev.menu} \in SUBSET BOOLEAN
    BY <1>0 DEF Device
  <2>2. dev'.bundle = dev.bundle /\ dev'.reloading = dev.reloading
    BY <1>0, <1>7, <2>1, ApplyTypes DEF DeepLink
  <2> QED
    BY <1>1, <1>7, <2>2 DEF DeepLink, wire
<1> QED
  BY <1>2, <1>3, <1>4, <1>5, <1>6, <1>7

(* A started session and a killed app have left every reload behind.          *)
LEMMA NothingPending ==
    ASSUME TypeOK, StartSession \/ TerminateApp
    PROVE  ~ReloadPending'
<1>1. ~dev'.reloading /\ down' = <<>>
  BY SessionTypes DEF StartSession, TerminateApp, CutLink
<1> QED
  BY <1>1, RangeEmpty DEF ReloadPending

(* What happens to the bundle when the ladder waits on a steady wire.         *)
LEMMA MeanwhileSteps ==
    ASSUME TypeInv,
           DeviceSteps \/ HostSeesClose \/ DeviceTapped \/ CodeEdited \/ HostReceives
    PROVE  \/ Quiet
           \/ ReloadPending /\ ~ReloadPending' /\ dev'.bundle = served /\ UNCHANGED served
           \/ link = None /\ (ReloadPending' => ReloadPending) /\ dev'.bundle = dev.bundle
<1>0. /\ TypeOK /\ Running /\ host \in Host /\ dev \in Device /\ down \in Seq(DownFrame)
  BY DEF TypeInv, CaptureTypeOK, TypeOK
<1>1. ASSUME dev'.reloading = dev.reloading, dev'.bundle = dev.bundle, UNCHANGED <<link, down>>,
             host'.epoch = host.epoch, link # None /\ host.active = link => host'.active = host.active
      PROVE  Quiet
  BY <1>1 DEF Quiet, ReloadPending
<1>2. CASE DeviceConnects
  <2>1. \A f \in Range(down') : f.type = "navigate"
    <3> DEFINE f == [type |-> "navigate", token |-> host.lastDrive, replay |-> TRUE]
    <3>1. down' = <<>> \/ down' = <<f>>
      BY <1>2 DEF DeviceConnects, Replay
    <3>2. f.type = "navigate"
      OBVIOUS
    <3> HIDE DEF f
    <3>3. Range(<<>>) = {} /\ Range(<<f>>) = {f}
      BY RangeEmpty
    <3> QED
      BY <3>1, <3>2, <3>3
  <2> QED
    BY <1>2, <2>1 DEF DeviceConnects, ReloadPending
<1>3. CASE DeviceReceives
  <2>1. Range(down) = {Head(down)} \cup Range(down') /\ UNCHANGED <<host, link>>
    BY <1>0, <1>3, RangeTail DEF DeviceReceives
  <2>2. CASE Head(down).type = "reload" /\ dev' = [dev EXCEPT !.reloading = TRUE]
    <3>1. dev'.bundle = dev.bundle
      BY <1>0, <2>2 DEF Device
    <3> QED
      BY <2>1, <2>2, <3>1 DEF Quiet, ReloadPending
  <2>3. CASE dev'.bundle = dev.bundle /\ dev'.reloading = dev.reloading
    BY <2>1, <2>3 DEF Quiet, ReloadPending
  <2> QED
    BY <1>0, <1>3, <2>2, <2>3, FrameTaken
<1>4. CASE DeviceReloads
  BY <1>0, <1>4, SessionTypes, NothingPending DEF DeviceReloads, ReloadPending, StartSession
<1>5. CASE DevicePaints \/ DeviceAcks \/ DeviceTapped
  BY <1>0, <1>1, <1>5, DeviceKeeps, TapTypes DEF DevicePaints, DeviceAcks, wire
<1>6. CASE HostSeesClose
  <2>1. host'.epoch = host.epoch /\ UNCHANGED <<dev, link, down>>
    BY <1>0, <1>6 DEF HostSeesClose, Host, wire
  <2> QED
    BY <1>1, <1>6, <2>1 DEF HostSeesClose
<1>7. CASE CodeEdited
  BY <1>1, <1>7 DEF CodeEdited, wire
<1>8. CASE HostReceives
  BY <1>0, <1>1, <1>8, ReceiveKeeps
<1> QED
  BY <1>2, <1>3, <1>4, <1>5, <1>6, <1>7, <1>8 DEF DeviceSteps

(* Once the wire is steady, a stale bundle is only met on the rungs that      *)
(* replace it: until a reload is done its socket stays and no newer one has   *)
(* been counted, and afterwards no reload is under way.                       *)
Proceeding == {"drive", "ack", "paint", "look", "dial", "link", "mark", "adopt", "adopting"}
                  \cup AfterTheColdBoot

FreshInv == cap.steady =>
    /\ ~At("idle") /\ ~At("hello")
    /\ At("reload") => link # None /\ host.active = link
    /\ ReloadPending => At("redial") \/ At("kill")
    /\ At("redial") /\ (ReloadPending \/ dev.bundle < cap.expected) =>
         link # None /\ host.epoch = cap.epoch
    /\ (At("warm") \/ At("bridge")) /\ ~cap.force => dev.bundle >= cap.expected
    /\ cap.at \in Proceeding => dev.bundle >= cap.expected
    /\ ConfirmedOnFreshBundle

LEMMA FreshStep == TypeInv /\ HelloInv /\ LadderInv /\ FreshInv /\ [Next]_vars => FreshInv'
<1> SUFFICES ASSUME TypeInv, HelloInv, LadderInv, FreshInv, [Next]_vars, cap'.steady
             PROVE FreshInv'
  BY DEF FreshInv
<1>0. /\ CaptureTypeOK /\ TypeOK /\ Running /\ cap \in Capture /\ cap.expected \in Nat
      /\ waiter.ack \in Ack \cup {NoAck} /\ cap.evidence \in Ack \cup {NoAck}
      /\ cap.linkToken \in Maybe(Token) /\ cap.token \in Maybe(Token)
      /\ NoAck \in Ack \cup {NoAck} /\ {"confirmed", "failed", "unconfirmed"} \subseteq Status
      /\ dev.bundle \in Nat /\ host.epoch \in Nat /\ cap.epoch \in Nat
      /\ cap.expected <= served /\ served \in Nat
  BY BridgeAssumption
     DEF TypeInv, CaptureTypeOK, TypeOK, Waiter, Capture, Status, Version, Maybe, None, Device,
         Host, LadderInv
<1>p. Proceeding = {"drive", "ack", "paint", "look", "dial", "link", "mark", "adopt", "adopting",
                    "cold", "coldlink", "dismiss", "coldmark"}
  BY DEF Proceeding, AfterTheColdBoot
<1>1. ASSUME cap.steady, cap'.at = cap.at, cap'.expected = cap.expected, cap'.epoch = cap.epoch,
             cap'.force = cap.force, cap'.status = cap.status, cap'.bundle = cap.bundle,
             DeviceSteps \/ HostSeesClose \/ DeviceTapped \/ CodeEdited \/ HostReceives
      PROVE  FreshInv'
  <2>0. /\ At("reload")' = At("reload") /\ At("redial")' = At("redial") /\ At("kill")' = At("kill")
        /\ At("warm")' = At("warm") /\ At("bridge")' = At("bridge") /\ At("idle")' = At("idle")
        /\ At("hello")' = At("hello") /\ ConfirmedOnFreshBundle' = ConfirmedOnFreshBundle
    BY <1>1 DEF At, ConfirmedOnFreshBundle, Confirmed
  <2>1. CASE Quiet
    BY <1>0, <1>1, <2>0, <2>1 DEF Quiet, FreshInv
  <2>2. CASE ReloadPending /\ ~ReloadPending' /\ dev'.bundle = served /\ UNCHANGED served
    BY <1>0, <1>1, <1>p, <2>0, <2>2 DEF FreshInv, At
  <2>3. CASE link = None /\ (ReloadPending' => ReloadPending) /\ dev'.bundle = dev.bundle
    BY <1>0, <1>1, <2>0, <2>3 DEF FreshInv
  <2> QED
    BY <1>1, <2>1, <2>2, <2>3, MeanwhileSteps
<1>2. ASSUME cap.steady, cap.at \in Proceeding, Quiet \/ StartSession,
             cap'.at \in Proceeding \cup {"kill", "boot"}, cap'.expected = cap.expected
      PROVE  FreshInv'
  <2>1. ~ReloadPending' /\ dev'.bundle >= cap.expected
    <3>1. CASE Quiet
      BY <1>0, <1>2, <1>p, <3>1 DEF FreshInv, Quiet, At
    <3>2. CASE StartSession
      BY <1>0, <3>2, SessionTypes, NothingPending
    <3> QED
      BY <1>2, <3>1, <3>2
  <2> QED
    BY <1>2, <1>p, <2>1 DEF FreshInv, At, ConfirmedOnFreshBundle, Confirmed
<1>3. ASSUME cap.steady, cap.at \in Proceeding, Quiet,
             NEW status \in {"confirmed", "failed", "unconfirmed"},
             NEW token \in {cap.token, cap.linkToken},
             NEW evidence \in {cap.evidence, waiter.ack, NoAck}, Ends(status, token, evidence)
      PROVE  FreshInv'
  <2>1. /\ cap'.at = "done" /\ cap'.expected = cap.expected /\ cap'.bundle = dev.bundle
    BY <1>0, <1>3, EndsTypes
  <2>2. ~ReloadPending' /\ dev.bundle >= cap.expected
    BY <1>3, <1>p DEF FreshInv, Quiet, At
  <2> QED
    BY <1>p, <2>1, <2>2 DEF FreshInv, At, ConfirmedOnFreshBundle, Confirmed
<1>4. ASSUME NEW status \in {"confirmed", "failed", "unconfirmed"},
             NEW token \in {cap.token, cap.linkToken},
             NEW evidence \in {cap.evidence, waiter.ack, NoAck}, Ends(status, token, evidence)
      PROVE  cap.steady
  BY <1>0, <1>4, EndsTypes
<1>5. ASSUME NEW rung, Goto(rung)
      PROVE  cap.steady /\ cap'.at = rung /\ cap'.expected = cap.expected /\ cap'.force = cap.force
  BY <1>0, <1>5 DEF Goto, Capture
<1>6. ASSUME FallBack
      PROVE  cap.steady /\ cap'.at = cap.back /\ cap'.expected = cap.expected
  BY <1>0, <1>6 DEF FallBack, Capture
<1>7. ASSUME NEW rung, ControlLink(rung)
      PROVE  /\ cap.steady /\ cap'.at = rung /\ cap'.expected = cap.expected
             /\ StartSession
  BY <1>0, <1>5, <1>7 DEF ControlLink, Capture
<1>8. CASE UNCHANGED vars
  <2>1. Quiet /\ UNCHANGED cap
    BY <1>8, StaysQuiet DEF vars, bridgeVars
  <2> QED
    BY <1>0, <2>1 DEF Quiet, FreshInv, At, ConfirmedOnFreshBundle, Confirmed
<1>9. ~\E force \in BOOLEAN : Begin(force)
  BY NoCaptureTypes DEF Begin, Capture
<1>10. CASE World
  <2>1. CASE cap' = [cap EXCEPT !.heard = TRUE] /\ HostReceives
    BY <1>0, <1>1, <2>1 DEF Capture
  <2>2. CASE UNCHANGED cap /\ (DeviceSteps \/ HostSeesClose \/ DeviceTapped \/ CodeEdited \/ HostReceives)
    BY <1>1, <2>2
  <2>3. cap' # NoCapture /\ cap' # [cap EXCEPT !.steady = FALSE]
    BY <1>0, NoCaptureTypes DEF Capture
  <2> QED
    BY <1>10, <2>1, <2>2, <2>3 DEF World, Receive
<1>11. CASE Climb
  <2>1. CASE Guard
    <3>1. /\ host.hello # NoHello /\ host.active = link /\ down = <<>> /\ ~dev.reloading
          /\ cap'.expected = cap.expected
          /\ cap'.at = IF cap.force \/ ReportsStaleBundle THEN "reload" ELSE "warm"
          /\ cap'.force = (cap.force \/ ReportsStaleBundle)
          /\ UNCHANGED bridgeVars
      BY <1>0, <2>1 DEF Guard, Capture
    <3>2. /\ host.hello.bundle = dev.bundle /\ link # None
      <4>1. host.hello \in Hello /\ host.hello.socket = link
        BY <1>0, <3>1 DEF TypeOK, Host, HelloInv, HelloIsOfTheActiveSocket
      <4> QED
        BY <3>1, <4>1 DEF HelloInv, HelloIsOfTheActiveSocket, Hello, Socket, None
    <3>3. ~ReloadPending' /\ dev'.bundle = dev.bundle /\ link' = link /\ host' = host
      BY <3>1, RangeEmpty DEF ReloadPending, bridgeVars
    <3>4. CASE cap.force \/ ReportsStaleBundle
      BY <1>p, <3>1, <3>2, <3>3, <3>4 DEF FreshInv, At, ConfirmedOnFreshBundle, Confirmed
    <3>5. CASE ~(cap.force \/ ReportsStaleBundle)
      <4>1. dev'.bundle = cap.expected
        BY <3>1, <3>2, <3>3, <3>5 DEF ReportsStaleBundle
      <4> QED
        BY <1>0, <1>p, <3>1, <3>3, <3>5, <4>1
           DEF FreshInv, At, ConfirmedOnFreshBundle, Confirmed
    <3> QED
      BY <3>4, <3>5
  <2>2. CASE Reload
    <3>1. CASE PushReload /\ cap' = [cap EXCEPT !.at = "redial", !.epoch = host.epoch]
      <4>1. /\ cap.steady /\ cap'.at = "redial" /\ cap'.epoch = host.epoch
        BY <1>0, <3>1 DEF Capture
      <4>2. link # None /\ UNCHANGED <<host, link>>
        BY <2>2, <3>1, <4>1 DEF Reload, FreshInv, PushReload
      <4> QED
        BY <1>p, <4>1, <4>2 DEF FreshInv, At, ConfirmedOnFreshBundle, Confirmed
    <3>2. CASE Goto("kill") /\ UNCHANGED bridgeVars
      <4>1. cap.steady /\ cap'.at = "kill"
        BY <1>5, <3>2
      <4> QED
        BY <1>p, <4>1 DEF FreshInv, At, ConfirmedOnFreshBundle, Confirmed
    <3> QED
      BY <2>2, <3>1, <3>2 DEF Reload
  <2>3. CASE Redial
    <3>1. CASE cap' = [cap EXCEPT !.at = "kill", !.epoch = 0]
      <4>1. cap'.at = "kill"
        BY <1>0, <3>1 DEF Capture
      <4> QED
        BY <1>p, <4>1 DEF FreshInv, At, ConfirmedOnFreshBundle, Confirmed
    <3>2. CASE /\ host.epoch > cap.epoch
               /\ cap' = [cap EXCEPT !.at = "drive", !.back = "kill", !.epoch = 0]
      <4>1. cap.steady /\ cap'.at = "drive" /\ cap'.expected = cap.expected
        BY <1>0, <3>2 DEF Capture
      <4>2. ~ReloadPending /\ dev.bundle >= cap.expected
        BY <1>0, <2>3, <3>2, <4>1 DEF FreshInv, Redial
      <4>3. Quiet
        BY <2>3, StaysQuiet DEF Redial
      <4> QED
        BY <1>p, <4>1, <4>2, <4>3 DEF FreshInv, Quiet, At, ConfirmedOnFreshBundle, Confirmed
    <3> QED
      BY <2>3, <3>1, <3>2 DEF Redial
  <2>4. CASE Kill
    <3>1. TerminateApp /\ Goto("warm")
      BY <1>0, <2>4 DEF Kill, Capture
    <3>2. cap'.at = "warm" /\ cap'.force
      BY <1>5, <2>4, <3>1 DEF Kill, LadderInv, At
    <3>3. ~ReloadPending'
      BY <1>0, <3>1, NothingPending
    <3> QED
      BY <1>p, <3>2, <3>3 DEF FreshInv, At, ConfirmedOnFreshBundle, Confirmed
  <2>5. CASE Warm
    <3>1. /\ cap.steady /\ cap'.at = "bridge" /\ cap'.force = cap.force
          /\ cap'.expected = cap.expected /\ cap.at = "warm" /\ Quiet
      BY <1>0, <2>5, StaysQuiet DEF Warm, Capture, At
    <3> QED
      BY <1>p, <3>1 DEF FreshInv, Quiet, At, ConfirmedOnFreshBundle, Confirmed
  <2>6. CASE Bridge
    <3>1. cap.steady /\ cap.at = "bridge" /\ cap'.expected = cap.expected /\ Quiet
      BY <1>0, <2>6, StaysQuiet DEF Bridge, Capture, At
    <3>2. \/ cap'.at = "boot"
          \/ cap'.at \in {"link", "drive"} /\ (~cap.force \/ cap.skip)
      BY <1>0, <2>6 DEF Bridge, Capture
    <3>3. cap.skip => ~cap.force
      BY <3>1 DEF LadderInv, At
    <3> QED
      BY <1>p, <3>1, <3>2, <3>3 DEF FreshInv, Quiet, At, ConfirmedOnFreshBundle, Confirmed
  <2>7. CASE Boot
    <3>1. /\ cap'.at = "dial" /\ cap'.expected = cap.expected /\ StartSession
      BY <1>7, <2>7 DEF Boot
    <3>2. ~ReloadPending' /\ dev'.bundle >= cap'.expected
      BY <1>0, <3>1, NothingPending, SessionTypes
    <3> QED
      BY <1>p, <3>1, <3>2 DEF FreshInv, At, ConfirmedOnFreshBundle, Confirmed
  <2>8. CASE Dial
    <3>1. Quiet /\ cap.at \in Proceeding
      BY <1>p, <2>8, StaysQuiet DEF Dial, At
    <3>2. CASE cap' = [cap EXCEPT !.at = "drive", !.back = "link"]
      BY <1>0, <1>2, <1>p, <3>1, <3>2 DEF Capture
    <3> QED
      BY <1>2, <1>5, <1>p, <2>8, <3>1, <3>2 DEF Dial
  <2>9. CASE Drive
    <3>1. Quiet /\ cap.at \in Proceeding /\ cap.back \in {"kill", "boot", "link"}
      BY <1>p, <2>9, StaysQuiet DEF Drive, At, LadderInv
    <3>2. CASE cap' = [cap EXCEPT !.at = "ack", !.token = minted']
      BY <1>0, <1>2, <1>p, <3>1, <3>2 DEF Capture
    <3> QED
      BY <1>2, <1>6, <1>p, <2>9, <3>1, <3>2 DEF Drive
  <2>10. CASE DriveAcked
    <3>1. Quiet /\ cap.at \in Proceeding /\ cap.back \in {"kill", "boot", "link"}
      BY <1>p, <2>10, StaysQuiet DEF DriveAcked, At, LadderInv
    <3>2. CASE cap' = [cap EXCEPT !.at = "paint", !.back = "idle", !.evidence = waiter.ack]
      BY <1>0, <1>2, <1>p, <3>1, <3>2 DEF Capture
    <3> QED
      BY <1>2, <1>3, <1>4, <1>6, <1>p, <2>10, <3>1, <3>2 DEF DriveAcked
  <2>11. CASE Paint \/ LookAgain
    <3>1. Quiet /\ cap.at \in Proceeding
      BY <1>p, <2>11, StaysQuiet DEF Paint, LookAgain, At
    <3> QED
      BY <1>2, <1>3, <1>4, <1>5, <1>p, <2>11, <3>1 DEF Paint, LookAgain
  <2>12. CASE OpenTarget
    <3>1. Quiet /\ cap.at \in Proceeding
      BY <1>p, <2>12, StaysQuiet DEF OpenTarget, At
    <3> QED
      BY <1>2, <1>5, <1>p, <2>12, <3>1 DEF OpenTarget
  <2>13. CASE Mark
    <3>1. Quiet /\ cap.at \in Proceeding
      BY <1>p, <2>13, StaysQuiet DEF Mark, At
    <3>2. CASE cap' = [cap EXCEPT !.at = "cold", !.skip = FALSE, !.relinked = TRUE]
      BY <1>0, <1>2, <1>p, <3>1, <3>2 DEF Capture
    <3> QED
      BY <1>2, <1>3, <1>4, <1>5, <1>p, <2>13, <3>1, <3>2 DEF Mark, Settles
  <2>14. CASE Cold
    <3>1. ~Throws
      BY NoCaptureTypes DEF Throws
    <3> QED
      BY <1>2, <1>7, <1>p, <2>14, <3>1 DEF Cold, At
  <2>15. CASE OpenTargetCold
    <3>1. ~Throws
      BY NoCaptureTypes DEF Throws
    <3>2. Quiet /\ cap.at \in Proceeding
      BY <1>p, <2>15, <3>1, StaysQuiet DEF OpenTargetCold, At
    <3> QED
      BY <1>2, <1>3, <1>4, <1>5, <1>p, <2>15, <3>1, <3>2 DEF OpenTargetCold, Settles
  <2>16. CASE Dismiss
    <3>1. Quiet /\ cap.at \in Proceeding
      BY <1>p, <2>16, StaysQuiet DEF Dismiss, At
    <3> QED
      BY <1>2, <1>5, <1>p, <2>16, <3>1 DEF Dismiss
  <2>17. CASE ColdMark
    <3>1. (Quiet \/ StartSession) /\ cap.at \in Proceeding
      BY <1>p, <2>17, StaysQuiet DEF ColdMark, At
    <3>2. CASE cap' = [cap EXCEPT !.at = "coldlink", !.tapped = TRUE]
      BY <1>0, <1>2, <1>p, <3>1, <3>2 DEF Capture
    <3>3. CASE Goto("adopt") /\ UNCHANGED bridgeVars
      BY <1>2, <1>5, <1>p, <3>1, <3>3
    <3>4. CASE Settles /\ UNCHANGED bridgeVars
      BY <1>3, <1>4, <3>1, <3>4, StaysQuiet DEF Settles
    <3> QED
      BY <2>17, <3>2, <3>3, <3>4 DEF ColdMark
  <2>18. CASE Adopt \/ Adopted
    <3>1. Quiet /\ cap.at \in Proceeding
      BY <1>p, <2>18, StaysQuiet DEF Adopt, Adopted, At
    <3> QED
      BY <1>2, <1>3, <1>4, <1>5, <1>p, <2>18, <3>1 DEF Adopt, Adopted
  <2> QED
    BY <1>11, <2>1, <2>2, <2>3, <2>4, <2>5, <2>6, <2>7, <2>8, <2>9, <2>10, <2>11, <2>12,
       <2>13, <2>14, <2>15, <2>16, <2>17, <2>18 DEF Climb
<1> QED
  BY <1>8, <1>9, <1>10, <1>11 DEF Next

LEMMA LadderInit == Init => LadderInv /\ FreshInv
<1> SUFFICES ASSUME Init PROVE LadderInv /\ FreshInv
  OBVIOUS
<1>1. /\ cap.at = "idle" /\ cap.back = "idle" /\ cap.expected = 1 /\ ~cap.steady
      /\ 1 <= served
  BY BridgeAssumption DEF Init, InitBridge, NoCapture, Version
<1> QED
  BY <1>1 DEF LadderInv, FreshInv, At, AfterTheColdBoot

(* A confirmed render is of the code the open was prepared for, if the guard  *)
(* knew the companion and from there on no socket dropped by itself and the   *)
(* kill and the control link did what they say, for every number of tokens,   *)
(* sockets, sessions and versions: whichever rungs were climbed, and whether  *)
(* or not the user went on editing.                                           *)
THEOREM SteadyOpensAreFresh == Spec => []FreshOnASteadyWire
<1>1. FreshInv => FreshOnASteadyWire
  BY DEF FreshInv, FreshOnASteadyWire
<1> QED
  BY <1>1, HelloInit, TypeInit, TypeStep, HelloStep, LadderInit, LadderStep, FreshStep, PTL DEF Spec

-----------------------------------------------------------------------------
\* Where an ack is.

AcksIn(frames) == {f.ack : f \in {g \in Range(frames) : g.type = "rendered"}}

Acks == Range(dev.acking) \cup AcksIn(up) \cup Range(host.retained) \cup ({waiter.ack} \ {NoAck})

AcksOf(token) == {a \in Acks : a.token = token}

LEMMA AcksAreAcks == ASSUME TypeOK PROVE Acks \subseteq Ack
<1>1. Range(dev.acking) \subseteq Ack /\ Range(host.retained) \subseteq Ack /\ Range(up) \subseteq UpFrame
  BY RangeSeq DEF TypeOK, Device, Host
<1>2. AcksIn(up) \subseteq Ack
  BY <1>1 DEF AcksIn, UpFrame
<1> QED
  BY <1>1, <1>2 DEF Acks, TypeOK, Waiter

LEMMA RemoveAtRange ==
    ASSUME NEW S, NEW s \in Seq(S), NEW i \in DOMAIN s
    PROVE  Range(RemoveAt(s, i)) \subseteq Range(s)
<1> SUFFICES ASSUME NEW x \in Range(RemoveAt(s, i)) PROVE x \in Range(s)
  OBVIOUS
<1>1. /\ RemoveAt(s, i) \in Seq(S) /\ Len(RemoveAt(s, i)) = Len(s) - 1 /\ Len(s) \in Nat
      /\ \A k \in 1 .. Len(s) - 1 : RemoveAt(s, i)[k] = IF k < i THEN s[k] ELSE s[k + 1]
  BY RemoveAtElements
<1>2. PICK k \in 1 .. Len(s) - 1 : x = RemoveAt(s, i)[k]
  BY <1>1 DEF Range
<1>3. k \in DOMAIN s /\ k + 1 \in DOMAIN s
  BY <1>1
<1> QED
  BY <1>1, <1>2, <1>3 DEF Range

(* An ack comes on file, at the cost of none but the oldest. *)
LEMMA RetainRange ==
    ASSUME TypeOK, NEW ack \in Ack
    PROVE  Range(Retain(host, ack).retained) \subseteq Range(host.retained) \cup {ack}
<1> DEFINE kept == Filed(host, ack)
           filed == IF Len(kept) > RetainedAckLimit THEN Tail(kept) ELSE kept
<1>1. host.retained \in Seq(Ack) /\ Len(host.retained) \in Nat
  BY DEF TypeOK, Host
<1>2. kept \in Seq(Ack) /\ Range(kept) \subseteq Range(host.retained) \cup {ack}
  <2>1. CASE Retained(host, ack.token) = {}
    BY <1>1, <2>1, RangeAppend DEF Filed
  <2>2. CASE Retained(host, ack.token) # {}
    <3>1. kept = [i \in 1 .. Len(host.retained) |->
                    IF host.retained[i].token = ack.token THEN ack ELSE host.retained[i]]
      BY <1>1, <2>2 DEF Filed
    <3>2. kept \in Seq(Ack)
      BY <1>1, <3>1
    <3>3. \A i \in 1 .. Len(host.retained) : kept[i] \in {host.retained[i], ack}
      BY <3>1
    <3>4. DOMAIN kept = 1 .. Len(host.retained) /\ DOMAIN host.retained = 1 .. Len(host.retained)
      BY <1>1, <3>1
    <3> HIDE DEF kept
    <3> QED
      BY <3>2, <3>3, <3>4 DEF Range
  <2> QED
    BY <2>1, <2>2
<1> HIDE DEF kept
<1>3. Range(filed) \subseteq Range(kept)
  <2>1. CASE Len(kept) > RetainedAckLimit
    <3>1. kept # <<>>
      BY <1>2, <2>1, BridgeAssumption
    <3> QED
      BY <1>2, <2>1, <3>1, RangeTail
  <2>2. CASE ~(Len(kept) > RetainedAckLimit)
    BY <2>2
  <2> QED
    BY <2>1, <2>2
<1>4. Retain(host, ack) = [host EXCEPT !.retained = filed]
  BY DEF Retain, kept
<1> HIDE DEF filed
<1>5. Retain(host, ack).retained = filed
  BY <1>4 DEF TypeOK, Host
<1> QED
  BY <1>2, <1>3, <1>5

(* A new target may find the ack of the previous one already under way. *)
LEMMA ApplyAcks ==
    ASSUME TypeOK, Running, NEW token \in Maybe(Token), NEW menus \in SUBSET BOOLEAN, Apply(token, menus)
    PROVE  \A a \in Range(dev'.acking) :
             a \in Range(dev.acking) \/ (dev.owed # None /\ \E ok \in BOOLEAN : a = AckOwed(ok))
<1> PICK menu \in menus, late \in LateAcks :
           dev' = [dev EXCEPT
             !.applied = @ \cup {token}, !.owed = token,
             !.marker = None, !.acking = @ \o late, !.menu = menu]
  BY DEF Apply
<1>1. late \in Seq(Ack) /\ (\A a \in Range(late) : dev.owed # None /\ \E ok \in BOOLEAN : a = AckOwed(ok))
  <2>1. CASE late = <<>>
    <3>1. Range(late) = {}
      BY <2>1, RangeEmpty
    <3> QED
      BY <2>1, <3>1
  <2>2. ASSUME NEW ok \in BOOLEAN, late = <<AckOwed(ok)>>, dev.owed # None
        PROVE  late \in Seq(Ack) /\ \A a \in Range(late) : dev.owed # None /\ \E k \in BOOLEAN : a = AckOwed(k)
    <3>1. AckOwed(ok) \in Ack /\ Range(<<AckOwed(ok)>>) = {AckOwed(ok)}
      BY <2>2, OwedAcks, RangeEmpty
    <3>2. \A a \in Ack : <<a>> \in Seq(Ack)
      OBVIOUS
    <3> QED
      BY <2>2, <3>1, <3>2, Zenon
  <2>3. late = <<>> \/ (dev.owed # None /\ \E ok \in BOOLEAN : late = <<AckOwed(ok)>>)
    BY DEF LateAcks
  <2> QED
    BY <2>1, <2>2, <2>3
<1> HIDE DEF AckOwed
<1>2. dev.acking \in Seq(Ack) /\ dev'.acking = dev.acking \o late
  BY DEF TypeOK, Device
<1>3. Range(dev'.acking) \subseteq Range(dev.acking) \cup Range(late)
  BY <1>1, <1>2, RangeConcat
<1> QED
  BY <1>1, <1>3

(* Acks are only written by a device that owes them, of the bundle it runs:   *)
(* once written, the token is owed no more, and it is on screen only if the   *)
(* ack says so.  Otherwise acks move, from the device over the wire to the    *)
(* host's file and to whom waits, or are lost.                                *)
NewAck(a) ==
    /\ dev.owed # None
    /\ a.token = dev.owed /\ a.bundle = dev.bundle /\ dev'.bundle = dev.bundle
    /\ dev'.marker = dev.owed => a.ok
    /\ dev'.owed = dev.owed => At("link") \/ At("coldlink") \/ dev.owed # cap.linkToken

LEMMA AckSteps ==
    ASSUME TypeInv, TokenInv, [Next]_vars
    PROVE  \A a \in Acks' : a \in Acks \/ NewAck(a)
<1>0. /\ CaptureTypeOK /\ TypeOK /\ Running /\ host \in Host /\ dev \in Device /\ up \in Seq(UpFrame)
      /\ cap.linkToken \in Maybe(Token) /\ Acks \subseteq Ack
      /\ host.retained \in Seq(Ack) /\ dev.acking \in Seq(Ack)
  BY AcksAreAcks DEF TypeInv, CaptureTypeOK, TypeOK, Capture, Host, Device
<1>1. ASSUME \A a \in Range(dev'.acking) : a \in Acks \/ NewAck(a),
             Range(up') \subseteq Range(up), Range(host'.retained) \subseteq Acks,
             waiter'.ack \in Acks \cup {waiter.ack, NoAck}
      PROVE  \A a \in Acks' : a \in Acks \/ NewAck(a)
  BY <1>1 DEF Acks, AcksIn
<1>2. ASSUME UNCHANGED up, \A a \in Range(dev'.acking) : a \in Acks \/ NewAck(a),
             UNCHANGED <<host, waiter>>
      PROVE  \A a \in Acks' : a \in Acks \/ NewAck(a)
  BY <1>1, <1>2 DEF Acks
<1>3. CASE UNCHANGED bridgeVars
  BY <1>3 DEF bridgeVars, Acks
<1>4. CASE Call
  <2>1. CASE Mint /\ UNCHANGED <<host, waiter, dev, wire, up, served>>
    BY <2>1 DEF Acks
  <2>2. CASE Mint /\ Navigate(minted')
    <3>1. host'.retained = host.retained /\ UNCHANGED <<dev, up>> /\ waiter'.ack = NoAck
      BY <1>0, <2>2 DEF Navigate, Host
    <3> QED
      BY <3>1 DEF Acks
  <2>3. CASE PushReload
    BY <2>3 DEF PushReload, Acks
  <2>4. CASE WaitForRendered(cap.linkToken)
    <3>1. CASE UNCHANGED host /\ waiter'.ack = NoAck
      BY <2>4, <3>1 DEF WaitForRendered, Acks
    <3>2. ASSUME NEW i \in Retained(host, cap.linkToken), waiter'.ack = host.retained[i],
                 host' = [host EXCEPT !.retained = RemoveAt(@, i)]
          PROVE  \A a \in Acks' : a \in Acks \/ NewAck(a)
      <4>1. i \in DOMAIN host.retained /\ host.retained[i] \in Range(host.retained)
        BY DEF Retained, Range
      <4>2. Range(RemoveAt(host.retained, i)) \subseteq Range(host.retained)
        BY <1>0, <4>1, RemoveAtRange
      <4>3. host'.retained = RemoveAt(host.retained, i)
        BY <1>0, <3>2 DEF Host
      <4> QED
        BY <2>4, <3>2, <4>1, <4>2, <4>3 DEF WaitForRendered, Acks
    <3>3. \A i \in Retained(host, cap.linkToken) :
            (waiter' = [token |-> cap.linkToken, ack |-> host.retained[i]])
               => waiter'.ack = host.retained[i]
      OBVIOUS
    <3>4. (waiter' = [token |-> cap.linkToken, ack |-> NoAck]) => waiter'.ack = NoAck
      OBVIOUS
    <3> QED
      BY <2>4, <3>1, <3>2, <3>3, <3>4 DEF WaitForRendered
  <2>5. CASE StopWaiting
    BY <2>5 DEF StopWaiting, NoWaiter, Acks
  <2> QED
    BY <1>4, <2>1, <2>2, <2>3, <2>4, <2>5 DEF Call
<1>5. ASSUME NEW token \in Maybe(Token), NEW menus \in SUBSET BOOLEAN, Apply(token, menus),
             token \in {None} \/ token # cap.linkToken \/ At("link") \/ At("coldlink")
      PROVE  \A a \in Range(dev'.acking) : a \in Acks \/ NewAck(a)
  <2>1. dev'.owed = token /\ dev'.marker = None /\ dev'.bundle = dev.bundle
    BY <1>0, <1>5, ApplyTypes
  <2>2. ASSUME NEW ok \in BOOLEAN, dev.owed # None PROVE NewAck(AckOwed(ok))
    BY <1>5, <2>1, <2>2 DEF NewAck, AckOwed
  <2>3. \A a \in Range(dev'.acking) :
          a \in Range(dev.acking) \/ (dev.owed # None /\ \E ok \in BOOLEAN : a = AckOwed(ok))
    BY <1>0, <1>5, ApplyAcks
  <2> QED
    BY <2>2, <2>3, Zenon DEF Acks
<1>6. CASE Drives
  <2>1. CASE StartSession \/ TerminateApp
    <3>1. Range(dev'.acking) = {} /\ UNCHANGED <<host, waiter, up>>
      BY <1>0, <2>1, SessionTypes, RangeEmpty DEF StartSession, TerminateApp
    <3> QED
      BY <1>2, <3>1
  <2>2. CASE CloseDevMenu
    <3>1. dev'.acking = dev.acking /\ UNCHANGED <<host, waiter, up>>
      BY <1>0, <2>2, DeviceKeeps DEF CloseDevMenu
    <3> QED
      BY <1>2, <3>1 DEF Acks
  <2>3. CASE DeepLink(cap.linkToken) /\ (OpenTarget \/ OpenTargetCold)
    <3>1. {dev.menu} \in SUBSET BOOLEAN /\ (At("link") \/ At("coldlink"))
      BY <1>0, <2>3 DEF Device, OpenTarget, OpenTargetCold
    <3>2. UNCHANGED <<host, waiter, up>>
      BY <2>3 DEF DeepLink
    <3>3. CASE UNCHANGED dev
      BY <1>2, <3>2, <3>3 DEF Acks
    <3>4. CASE Apply(cap.linkToken, {dev.menu})
      BY <1>0, <1>2, <1>5, <3>1, <3>2, <3>4
    <3> QED
      BY <2>3, <3>3, <3>4 DEF DeepLink
  <2> QED
    BY <1>6, <2>1, <2>2, <2>3 DEF Drives
<1>7. CASE Wire
  <2>1. CASE DeviceConnects
    <3> DEFINE f == [type |-> "hello", socket |-> sockets', bundle |-> dev.bundle]
    <3>1. f \in UpFrame /\ f.type = "hello"
      <4>1. sockets' \in Socket
        BY <2>1, BridgeAssumption, <1>0 DEF DeviceConnects, TypeOK, Socket
      <4>2. dev.bundle \in Version
        BY <1>0, <2>1 DEF DeviceConnects, Device, Maybe
      <4> QED
        BY <4>1, <4>2 DEF UpFrame
    <3>2. up' = Append(up, f)
      BY <2>1 DEF DeviceConnects
    <3> HIDE DEF f
    <3>3. Range(up') = Range(up) \cup {f}
      BY <1>0, <3>1, <3>2, RangeAppend
    <3>4. AcksIn(up') = AcksIn(up)
      BY <3>1, <3>3 DEF AcksIn
    <3>5. host'.retained = host.retained /\ UNCHANGED <<dev, waiter>>
      BY <1>0, <2>1 DEF DeviceConnects, Connection, Host
    <3> QED
      BY <3>4, <3>5 DEF Acks
  <2>2. CASE DeviceReceives
    <3>1. UNCHANGED <<host, waiter, up>>
      BY <1>0, <2>2, FrameTaken
    <3>2. CASE dev'.acking = dev.acking
      BY <1>2, <3>1, <3>2 DEF Acks
    <3>3. CASE /\ Head(down).type = "navigate" /\ Head(down).token \in Token
               /\ Apply(Head(down).token, {FALSE, dev.menu})
      <4>1. Head(down) = down[1] /\ 1 \in 1 .. Len(down) /\ down # <<>>
        BY <1>0, <2>2, FrameTaken, HeadTailProperties, EmptySeq
      <4>2. Head(down).token # cap.linkToken
        BY <3>3, <4>1 DEF TokenInv, FramesAreNew
      <4>3. Head(down).token \in Maybe(Token) /\ {FALSE, dev.menu} \in SUBSET BOOLEAN
        BY <1>0, <3>3 DEF Maybe, Device
      <4> QED
        BY <1>2, <1>5, <3>1, <3>3, <4>2, <4>3
    <3>4. dev' = [dev EXCEPT !.reloading = TRUE] => dev'.acking = dev.acking
      BY <1>0 DEF Device
    <3> QED
      BY <1>0, <2>2, <3>2, <3>3, <3>4, FrameTaken
  <2>3. CASE DevicePaints
    <3> PICK ok \in BOOLEAN :
           dev' = [dev EXCEPT !.owed = None, !.marker = IF ok THEN dev.owed ELSE None,
                              !.acking = Append(@, AckOwed(ok))]
      BY <2>3 DEF DevicePaints
    <3>1. dev.owed # None /\ AckOwed(ok) \in Ack
      BY <1>0, <2>3, OwedAcks DEF DevicePaints
    <3>2. /\ dev'.owed = None /\ dev'.marker = (IF ok THEN dev.owed ELSE None)
          /\ dev'.bundle = dev.bundle /\ dev'.acking = Append(dev.acking, AckOwed(ok))
      BY <1>0 DEF Device
    <3>3. NewAck(AckOwed(ok))
      BY <3>1, <3>2 DEF NewAck, AckOwed
    <3>4. Range(dev'.acking) = Range(dev.acking) \cup {AckOwed(ok)}
      BY <1>0, <3>1, <3>2, RangeAppend
    <3>5. UNCHANGED <<host, waiter, up>>
      BY <2>3 DEF DevicePaints
    <3> HIDE DEF AckOwed
    <3>6. \A a \in Range(dev'.acking) : a \in Acks \/ NewAck(a)
      BY <3>3, <3>4 DEF Acks
    <3> QED
      BY <1>2, <3>5, <3>6
  <2>4. CASE DeviceAcks
    <3> DEFINE ack == Head(dev.acking)
               f == [type |-> "rendered", socket |-> link, ack |-> Head(dev.acking)]
    <3>1. /\ dev'.acking = Tail(dev.acking) /\ UNCHANGED <<host, waiter>> /\ dev.acking # <<>>
          /\ up' = IF link = None THEN up ELSE Append(up, f)
      BY <1>0, <2>4, DeviceKeeps DEF DeviceAcks
    <3>2. ack \in Range(dev.acking) /\ Range(dev'.acking) \subseteq Range(dev.acking)
      BY <1>0, <3>1, RangeTail
    <3>3. CASE link = None
      BY <1>2, <3>1, <3>2, <3>3 DEF Acks
    <3>4. CASE link # None
      <4>1. ack \in Ack
        BY <1>0, <3>2, RangeSeq
      <4>2. f \in UpFrame /\ f.ack = ack
        BY <1>0, <3>4, <4>1 DEF UpFrame, TypeOK, Maybe
      <4> HIDE DEF f, ack
      <4>3. Range(up') = Range(up) \cup {f}
        BY <1>0, <3>1, <3>4, <4>2, RangeAppend
      <4>4. AcksIn(up') \subseteq AcksIn(up) \cup {ack}
        BY <4>2, <4>3 DEF AcksIn
      <4> QED
        BY <3>1, <3>2, <4>4 DEF Acks
    <3> QED
      BY <3>3, <3>4
  <2>5. CASE HostSeesClose
    <3>1. host'.retained = host.retained /\ UNCHANGED <<dev, waiter, up>>
      BY <1>0, <2>5 DEF HostSeesClose, Host
    <3> QED
      BY <3>1 DEF Acks
  <2>6. CASE HostReceives
    <3>1. /\ Head(up) \in Range(up) /\ Head(up) \in UpFrame /\ Range(up') \subseteq Range(up)
          /\ UNCHANGED dev
      BY <1>0, <2>6, RangeTail, RangeSeq DEF HostReceives
    <3>2. CASE Head(up).type = "hello" /\ host' = TakeHello(host, Head(up)) /\ UNCHANGED waiter
      <4>1. host'.retained = host.retained
        BY <1>0, <3>2 DEF TakeHello, Host
      <4> QED
        BY <1>1, <3>1, <3>2, <4>1 DEF Acks
    <3>3. CASE Head(up).type = "rendered"
      <4>1. Head(up).ack \in Ack /\ Head(up).ack \in Acks
        BY <3>1, <3>3 DEF UpFrame, Acks, AcksIn
      <4>2. CASE UNCHANGED host /\ waiter' = [waiter EXCEPT !.ack = Head(up).ack]
        <5>1. waiter'.ack = Head(up).ack
          BY <1>0, <4>2 DEF TypeOK, Waiter
        <5> QED
          BY <1>1, <3>1, <4>1, <4>2, <5>1 DEF Acks
      <4>3. CASE UNCHANGED waiter /\ host' = Retain(host, Head(up).ack)
        <5>1. Range(host'.retained) \subseteq Range(host.retained) \cup {Head(up).ack}
          BY <1>0, <4>1, <4>3, RetainRange
        <5> QED
          BY <1>1, <3>1, <4>1, <4>3, <5>1 DEF Acks
      <4> QED
        BY <2>6, <3>3, <4>2, <4>3 DEF HostReceives
    <3> QED
      BY <2>6, <3>2, <3>3 DEF HostReceives
  <2>7. CASE SocketDrops \/ HostRestarts
    <3>1. up' = up \/ up' = <<>>
      BY <2>7 DEF SocketDrops, HostRestarts
    <3>2. Range(<<>>) = {}
      BY RangeEmpty
    <3>3. Range(up') \subseteq Range(up) /\ UNCHANGED dev
      BY <2>7, <3>1, <3>2 DEF SocketDrops, HostRestarts
    <3>4. Range(host'.retained) \subseteq Range(host.retained) /\ waiter'.ack \in {waiter.ack, NoAck}
      BY <2>7, <3>2 DEF SocketDrops, HostRestarts, NewHost, NoWaiter
    <3> QED
      BY <1>1, <3>3, <3>4 DEF Acks
  <2>8. CASE DeviceTapped
    <3>1. {dev.menu} \in SUBSET BOOLEAN /\ None \in Maybe(Token)
      BY <1>0 DEF Device, Maybe
    <3>2. \A a \in Range(dev'.acking) : a \in Acks \/ NewAck(a)
      BY <1>5, <2>8, <3>1 DEF DeviceTapped
    <3> QED
      BY <1>0, <1>2, <2>8, <3>2, TapTypes
  <2>9. CASE CodeEdited
    BY <2>9 DEF CodeEdited, Acks
  <2> QED
    BY <1>7, <2>1, <2>2, <2>3, <2>4, <2>5, <2>6, <2>7, <2>8, <2>9 DEF Wire
<1> QED
  BY <1>3, <1>4, <1>6, <1>7, BridgeSteps

(* A marker is of the target that was owed until then, and the deep link's    *)
(* target is owed by nothing but the deep link.                               *)
LEMMA OwedSteps ==
    ASSUME TypeInv, TokenInv, [Next]_vars
    PROVE  /\ dev'.marker \in {dev.marker, None} \/ (dev'.marker = dev.owed /\ dev'.owed = None)
           /\ \/ dev'.owed \in {dev.owed, None} \/ dev'.owed # cap.linkToken
              \/ (At("link") /\ cap'.at = "mark") \/ At("coldlink")
<1>0. /\ CaptureTypeOK /\ TypeOK /\ Running /\ cap \in Capture /\ dev \in Device
      /\ cap.linkToken \in Maybe(Token)
  BY DEF TypeInv, CaptureTypeOK, TypeOK, Capture
<1> DEFINE Goal ==
             /\ dev'.marker \in {dev.marker, None} \/ (dev'.marker = dev.owed /\ dev'.owed = None)
             /\ \/ dev'.owed \in {dev.owed, None} \/ dev'.owed # cap.linkToken
                \/ (At("link") /\ cap'.at = "mark") \/ At("coldlink")
<1>1. UNCHANGED dev => Goal
  OBVIOUS
<1>2. CASE Call
  BY <1>1, <1>2 DEF Call, Navigate, PushReload, WaitForRendered, StopWaiting
<1>3. CASE StartSession \/ TerminateApp
  BY <1>0, <1>3, SessionTypes
<1>4. CASE CloseDevMenu \/ DeviceAcks \/ DeviceTapped
  BY <1>0, <1>4, DeviceKeeps, TapTypes
<1>5. CASE DeepLink(cap.linkToken) /\ (OpenTarget \/ OpenTargetCold)
  <2>1. {dev.menu} \in SUBSET BOOLEAN
    BY <1>0 DEF Device
  <2>2. UNCHANGED dev \/ dev'.marker = None
    BY <1>0, <1>5, <2>1, ApplyTypes DEF DeepLink
  <2>3. (At("link") /\ cap'.at = "mark") \/ At("coldlink")
    BY <1>0, <1>5 DEF OpenTarget, OpenTargetCold, Goto, Capture
  <2> QED
    BY <2>2, <2>3
<1>6. CASE DeviceReceives
  <2>1. Head(down) = down[1] /\ 1 \in 1 .. Len(down)
    BY <1>0, <1>6, FrameTaken, HeadTailProperties, EmptySeq
  <2>2. CASE dev' = [dev EXCEPT !.reloading = TRUE]
    BY <1>0, <2>2 DEF Device
  <2>3. CASE Head(down).type = "navigate" /\ dev'.owed = Head(down).token /\ dev'.marker = None
    BY <2>1, <2>3 DEF TokenInv, FramesAreNew
  <2> QED
    BY <1>0, <1>1, <1>6, <2>2, <2>3, FrameTaken
<1>7. CASE DevicePaints
  BY <1>0, <1>7, DeviceKeeps
<1>8. DeviceConnects \/ HostSeesClose \/ HostReceives \/ SocketDrops \/ HostRestarts \/ CodeEdited
        => UNCHANGED dev
  BY DEF DeviceConnects, HostSeesClose, HostReceives, SocketDrops, HostRestarts, CodeEdited
<1> HIDE DEF Goal
<1> QED
  BY <1>1, <1>2, <1>3, <1>4, <1>5, <1>6, <1>7, <1>8, BridgeSteps
     DEF Drives, Wire, bridgeVars, Goal

(* Whoever waits is given the ack of the token it waits for. *)
WaiterInv ==
    /\ waiter.token <= minted
    /\ waiter.ack # NoAck => waiter.ack.token = waiter.token

LEMMA WaiterSteps ==
    ASSUME TypeInv, TokenInv, WaiterInv, [Next]_vars
    PROVE  WaiterInv'
<1>0. /\ TypeOK /\ waiter \in Waiter /\ waiter.token \in Nat /\ up \in Seq(UpFrame)
      /\ minted' \in Nat /\ minted \in Nat /\ minted <= minted' /\ cap.linkToken <= minted
      /\ cap.linkToken \in Nat
  BY Monotone DEF TypeInv, CaptureTypeOK, TypeOK, Waiter, TokenInv, Maybe, Token, None, Capture
<1>1. ASSUME UNCHANGED waiter PROVE WaiterInv'
  BY <1>0, <1>1 DEF WaiterInv
<1>2. NoWaiter.token = 0 /\ NoWaiter.ack = NoAck
  BY DEF NoWaiter, None
<1>3. CASE Call
  <2>1. CASE Mint /\ Navigate(minted')
    BY <1>0, <2>1 DEF Navigate, WaiterInv
  <2>2. CASE WaitForRendered(cap.linkToken)
    <3>1. minted' = minted
      BY <2>2 DEF WaitForRendered
    <3> QED
      BY <1>0, <2>2, <3>1 DEF WaitForRendered, WaiterInv, Retained
  <2>3. CASE StopWaiting
    BY <1>0, <1>2, <2>3 DEF StopWaiting, WaiterInv
  <2> QED
    BY <1>1, <1>3, <2>1, <2>2, <2>3 DEF Call, PushReload
<1>4. CASE Drives
  BY <1>1, <1>4 DEF Drives, StartSession, TerminateApp, CloseDevMenu, DeepLink
<1>5. CASE HostReceives
  <2>1. CASE UNCHANGED waiter
    BY <1>1, <2>1
  <2>2. CASE WaitsFor(Head(up).ack) /\ waiter' = [waiter EXCEPT !.ack = Head(up).ack]
    BY <1>0, <2>2 DEF WaitsFor, WaiterInv, Waiter
  <2> QED
    BY <1>5, <2>1, <2>2 DEF HostReceives
<1>6. CASE HostRestarts
  BY <1>0, <1>2, <1>6 DEF HostRestarts, WaiterInv
<1>7. DeviceConnects \/ DeviceReceives \/ DevicePaints \/ DeviceAcks \/ HostSeesClose
        \/ SocketDrops \/ DeviceTapped \/ CodeEdited => UNCHANGED waiter
  BY DEF DeviceConnects, DeviceReceives, DevicePaints, DeviceAcks, HostSeesClose, SocketDrops,
         DeviceTapped, CodeEdited
<1> QED
  BY <1>1, <1>3, <1>4, <1>5, <1>6, <1>7, BridgeSteps DEF Wire, bridgeVars

LEMMA WaitsOn ==
    ASSUME TypeOK,
           DeviceSteps \/ HostSeesClose \/ DeviceTapped \/ CodeEdited \/ HostReceives \/ SocketDrops
    PROVE  waiter'.token = waiter.token
<1>1. CASE HostReceives
  BY <1>1 DEF HostReceives, TypeOK, Waiter
<1>2. DeviceReloads => UNCHANGED waiter
  BY DEF DeviceReloads, StartSession
<1> QED
  BY <1>1, <1>2 DEF DeviceSteps, DeviceConnects, DeviceReceives, DevicePaints, DeviceAcks,
     HostSeesClose, DeviceTapped, CodeEdited, SocketDrops

(* Every ack on its way or on file is of a token that was minted, and none is *)
(* of the deep link's before that link is opened.                             *)
Linked == {"mark", "adopt", "adopting"} \cup AfterTheColdBoot

Untouched ==
    cap.linkToken # None /\ cap.at \notin Linked =>
       dev.owed # cap.linkToken /\ dev.marker # cap.linkToken /\ AcksOf(cap.linkToken) = {}

AckInv ==
    /\ WaiterInv
    /\ \A a \in Acks : a.token <= minted
    /\ At("ack") => waiter.token = cap.token
    /\ At("adopting") => waiter.token = cap.linkToken
    /\ Untouched

LEMMA AckStep == TypeInv /\ TokenInv /\ LadderInv /\ AckInv /\ [Next]_vars => AckInv'
<1> SUFFICES ASSUME TypeInv, TokenInv, LadderInv, AckInv, [Next]_vars PROVE AckInv'
  OBVIOUS
<1>0. /\ CaptureTypeOK /\ TypeOK /\ cap \in Capture
      /\ waiter.ack \in Ack \cup {NoAck} /\ cap.evidence \in Ack \cup {NoAck}
      /\ cap.linkToken \in Maybe(Token) /\ cap.token \in Maybe(Token)
      /\ NoAck \in Ack \cup {NoAck} /\ {"confirmed", "failed", "unconfirmed"} \subseteq Status
      /\ minted \in Nat /\ minted' \in Nat /\ minted <= minted'
      /\ dev.owed \in Nat /\ dev.marker \in Nat /\ dev.owed <= minted /\ dev.marker <= minted
      /\ \A a \in Acks : a.token \in Nat
  BY Monotone, BridgeAssumption, AcksAreAcks
     DEF TypeInv, CaptureTypeOK, TypeOK, Waiter, Capture, Status, Device, Maybe, None, Token,
         TokenInv, Ack
<1>p. /\ Linked = {"mark", "adopt", "adopting", "cold", "coldlink", "dismiss", "coldmark"}
  BY DEF Linked, AfterTheColdBoot
<1>1. WaiterInv'
  BY WaiterSteps DEF AckInv
<1>2. \A a \in Acks' : a.token <= minted'
  BY <1>0, AckSteps DEF AckInv, NewAck
<1>3. ASSUME cap'.linkToken \in {cap.linkToken, None},
             cap'.linkToken # None /\ cap'.at \notin Linked => cap.at \notin Linked
      PROVE  Untouched'
  <2> SUFFICES ASSUME cap'.linkToken = cap.linkToken, cap.linkToken # None, cap'.at \notin Linked
               PROVE  /\ dev'.owed # cap.linkToken /\ dev'.marker # cap.linkToken
                      /\ \A a \in Acks' : a.token # cap.linkToken
    BY <1>3 DEF Untouched, AcksOf
  <2>1. /\ cap.at \notin Linked
        /\ dev.owed # cap.linkToken /\ dev.marker # cap.linkToken
        /\ \A a \in Acks : a.token # cap.linkToken
    BY <1>3 DEF AckInv, Untouched, AcksOf
  <2>2. \A a \in Acks' : a.token # cap.linkToken
    BY <2>1, AckSteps DEF NewAck
  <2>3. dev'.owed # cap.linkToken /\ dev'.marker # cap.linkToken
    BY <1>p, <2>1, OwedSteps DEF At
  <2> QED
    BY <2>2, <2>3
<1>4. ASSUME cap'.linkToken \in {cap.linkToken, None},
             cap'.linkToken # None /\ cap'.at \notin Linked => cap.at \notin Linked,
             cap'.at # "ack", cap'.at # "adopting"
      PROVE  AckInv'
  BY <1>1, <1>2, <1>3, <1>4 DEF AckInv, At
<1>5. ASSUME NEW status \in {"confirmed", "failed", "unconfirmed"},
             NEW token \in {cap.token, cap.linkToken},
             NEW evidence \in {cap.evidence, waiter.ack, NoAck}, Ends(status, token, evidence)
      PROVE  AckInv'
  <2>1. cap'.linkToken = None /\ cap'.at = "done"
    BY <1>0, <1>5, EndsTypes
  <2> QED
    BY <1>4, <2>1
<1>6. ASSUME NEW rung, Goto(rung)
      PROVE  cap'.at = rung /\ cap'.linkToken = cap.linkToken /\ cap'.token = cap.token
  BY <1>0, <1>6 DEF Goto, Capture
<1>7. ASSUME FallBack, cap.back \in {"kill", "boot", "link"}
      PROVE  cap'.at \in {"kill", "boot", "link"} /\ cap'.linkToken = cap.linkToken
  BY <1>0, <1>7 DEF FallBack, Capture
<1>8. ASSUME cap' = NoCapture PROVE AckInv'
  <2>1. cap'.at = "idle" /\ cap'.linkToken = None
    BY <1>8, NoCaptureTypes
  <2> QED
    BY <1>4, <2>1
<1>9. CASE UNCHANGED vars
  <2>1. waiter' = waiter /\ cap' = cap
    BY <1>9 DEF vars
  <2> QED
    BY <1>1, <1>2, <1>3, <2>1 DEF AckInv, At
<1>10. ASSUME NEW force \in BOOLEAN, Begin(force) PROVE AckInv'
  <2>1. cap'.at = "hello" /\ cap'.linkToken = minted + 1 /\ UNCHANGED dev
    BY <1>10, NoCaptureTypes DEF Begin, Mint, Capture
  <2>2. Acks' = Acks
    BY <1>10 DEF Begin, Acks
  <2>3. Untouched'
    BY <1>0, <2>1, <2>2 DEF Untouched, AcksOf, AckInv
  <2> QED
    BY <1>1, <1>2, <2>1, <2>3 DEF AckInv, At
<1>11. CASE World
  <2>1. ASSUME cap' \in {cap, [cap EXCEPT !.heard = TRUE], [cap EXCEPT !.steady = FALSE]},
               waiter'.token = waiter.token
        PROVE  AckInv'
    <3>1. cap'.at = cap.at /\ cap'.token = cap.token /\ cap'.linkToken = cap.linkToken
      BY <1>0, <2>1 DEF Capture
    <3> QED
      BY <1>1, <1>2, <1>3, <2>1, <3>1 DEF AckInv, At
  <2> QED
    BY <1>0, <1>8, <1>11, <2>1, WaitsOn DEF World, Receive
<1>12. CASE Climb
  <2>1. CASE Guard \/ Redial \/ Warm
    <3>1. /\ cap.at \notin Linked /\ cap'.linkToken = cap.linkToken
          /\ cap'.at \in {"reload", "warm", "drive", "kill", "bridge"}
      BY <1>0, <1>p, <2>1 DEF Guard, Redial, Warm, Capture, At
    <3> QED
      BY <1>4, <3>1
  <2>2. CASE Reload \/ Kill
    <3>1. /\ cap.at \notin Linked /\ cap'.linkToken = cap.linkToken
          /\ cap'.at \in {"redial", "kill", "warm"}
      BY <1>0, <1>6, <1>p, <2>2 DEF Reload, Kill, Capture, At
    <3> QED
      BY <1>4, <3>1
  <2>3. CASE Bridge \/ Dial
    <3>1. /\ cap.at \notin Linked /\ cap'.linkToken = cap.linkToken
          /\ cap'.at \in {"drive", "boot", "link"}
      BY <1>0, <1>6, <1>p, <2>3 DEF Bridge, Dial, Capture, At
    <3> QED
      BY <1>4, <3>1
  <2>4. CASE Boot
    <3>1. cap.at \notin Linked /\ cap'.linkToken = cap.linkToken /\ cap'.at = "dial"
      BY <1>0, <1>6, <1>p, <2>4 DEF Boot, ControlLink, Capture, At
    <3> QED
      BY <1>4, <3>1
  <2>5. CASE Drive
    <3>1. CASE Navigate(minted') /\ cap' = [cap EXCEPT !.at = "ack", !.token = minted']
      <4>1. /\ cap'.at = "ack" /\ cap'.token = minted' /\ cap'.linkToken = cap.linkToken
            /\ waiter'.token = minted' /\ cap.at \notin Linked
        BY <1>0, <1>p, <2>5, <3>1 DEF Navigate, Capture, Drive, At
      <4> QED
        BY <1>1, <1>2, <1>3, <4>1 DEF AckInv, At
    <3>2. CASE FallBack
      <4>1. cap.back \in {"kill", "boot", "link"} /\ cap.at \notin Linked
        BY <1>p, <2>5 DEF Drive, LadderInv, At
      <4> QED
        BY <1>4, <1>7, <3>2, <4>1
    <3> QED
      BY <2>5, <3>1, <3>2 DEF Drive
  <2>6. CASE DriveAcked
    <3>1. cap.back \in {"kill", "boot", "link"} /\ cap.at \notin Linked
      BY <1>p, <2>6 DEF DriveAcked, LadderInv, At
    <3>2. CASE cap' = [cap EXCEPT !.at = "paint", !.back = "idle", !.evidence = waiter.ack]
      <4>1. cap'.at = "paint" /\ cap'.linkToken = cap.linkToken
        BY <1>0, <3>2 DEF Capture
      <4> QED
        BY <1>4, <3>1, <4>1
    <3> QED
      BY <1>4, <1>5, <1>7, <2>6, <3>1, <3>2 DEF DriveAcked
  <2>7. CASE Paint \/ LookAgain
    <3>1. cap.at \notin Linked
      BY <1>p, <2>7 DEF Paint, LookAgain, At
    <3>2. Goto("look") => AckInv'
      BY <1>4, <1>6, <3>1
    <3> QED
      BY <1>5, <2>7, <3>2 DEF Paint, LookAgain
  <2>8. CASE OpenTarget
    <3>1. cap'.at = "mark" /\ cap'.linkToken = cap.linkToken
      BY <1>6, <2>8 DEF OpenTarget
    <3> QED
      BY <1>4, <1>p, <3>1
  <2>9. ASSUME NEW rung \in {"adopt"} \cup AfterTheColdBoot, cap'.at = rung,
               cap'.linkToken = cap.linkToken
        PROVE  AckInv'
    BY <1>4, <1>p, <2>9 DEF AfterTheColdBoot
  <2>10. CASE Mark
    <3>1. CASE cap' = [cap EXCEPT !.at = "cold", !.skip = FALSE, !.relinked = TRUE]
      <4>1. cap'.at = "cold" /\ cap'.linkToken = cap.linkToken
        BY <1>0, <3>1 DEF Capture
      <4> QED
        BY <2>9, <4>1 DEF AfterTheColdBoot
    <3> QED
      BY <1>5, <1>6, <2>9, <2>10, <3>1 DEF Mark, Settles
  <2>11. CASE Cold
    <3>1. CASE ControlLink("coldlink")
      <4>1. cap'.at = "coldlink" /\ cap'.linkToken = cap.linkToken
        BY <1>0, <1>6, <3>1 DEF ControlLink, Capture
      <4> QED
        BY <2>9, <4>1 DEF AfterTheColdBoot
    <3> QED
      BY <1>8, <2>11, <3>1 DEF Cold, Throws
  <2>12. CASE OpenTargetCold
    <3>1. Goto("dismiss") => AckInv'
      BY <1>6, <2>9 DEF AfterTheColdBoot
    <3> QED
      BY <1>5, <1>8, <2>12, <3>1 DEF OpenTargetCold, Throws, Settles
  <2>13. CASE Dismiss
    BY <1>6, <2>9, <2>13 DEF Dismiss, AfterTheColdBoot
  <2>14. CASE ColdMark
    <3>1. CASE cap' = [cap EXCEPT !.at = "coldlink", !.tapped = TRUE]
      <4>1. cap'.at = "coldlink" /\ cap'.linkToken = cap.linkToken
        BY <1>0, <3>1 DEF Capture
      <4> QED
        BY <2>9, <4>1 DEF AfterTheColdBoot
    <3> QED
      BY <1>5, <1>6, <2>9, <2>14, <3>1 DEF ColdMark, Settles
  <2>15. CASE Adopt
    <3>1. CASE WaitForRendered(cap.linkToken) /\ Goto("adopting")
      <4>1. cap'.at = "adopting" /\ cap'.linkToken = cap.linkToken /\ waiter'.token = cap.linkToken
        BY <1>6, <3>1 DEF WaitForRendered
      <4> QED
        BY <1>1, <1>2, <1>3, <1>p, <4>1 DEF AckInv, At
    <3> QED
      BY <1>5, <2>15, <3>1 DEF Adopt
  <2>16. CASE Adopted
    BY <1>5, <2>16 DEF Adopted
  <2> QED
    BY <1>12, <2>1, <2>2, <2>3, <2>4, <2>5, <2>6, <2>7, <2>8, <2>10, <2>11, <2>12, <2>13, <2>14,
       <2>15, <2>16 DEF Climb
<1> QED
  BY <1>9, <1>10, <1>11, <1>12 DEF Next

(* What the ladder may conclude from an ack, on a steady wire: while it waits *)
(* for one and looks at the picture the bundle stays, so all acks of its      *)
(* navigation are of the bundle on screen.  The deep link's target, as long   *)
(* as the link was sent once, is owed before it is painted, is painted before *)
(* it is acked, and is on screen only if its acks say so.                     *)
LinkEvidence ==
    /\ \A a \in AcksOf(cap.linkToken) : a.bundle = dev.bundle
    /\ dev.owed = cap.linkToken => AcksOf(cap.linkToken) = {} /\ dev.marker # cap.linkToken
    /\ dev.marker = cap.linkToken \/ ~At("mark") => \A a \in AcksOf(cap.linkToken) : a.ok
    /\ ~At("mark") => dev.owed # cap.linkToken

EvidenceInv == cap.steady =>
    /\ cap.at \in {"ack", "paint", "look"} => \A a \in AcksOf(cap.token) : a.bundle = dev.bundle
    /\ cap.at \in {"paint", "look"} =>
         /\ cap.evidence.ok /\ cap.evidence.token = cap.token
         /\ cap.evidence.bundle = dev.bundle
    /\ ~cap.relinked /\ cap.at \in {"mark", "adopt", "adopting"} => LinkEvidence
    /\ EvidenceOnASteadyWire

(* While nothing touches the deep link again, what is known of it stays. *)
LEMMA LinkEvidenceKept ==
    ASSUME TypeInv, TokenInv, LinkEvidence, [Next]_vars, cap.linkToken # None,
           cap.at \in {"mark", "adopt", "adopting"},
           cap'.linkToken = cap.linkToken, dev'.bundle = dev.bundle,
           At("mark")' => At("mark"),
           At("mark") /\ ~At("mark")' => dev.marker = cap.linkToken /\ UNCHANGED bridgeVars
    PROVE  LinkEvidence'
<1> DEFINE L == cap.linkToken
<1>0. ~At("link") /\ ~At("coldlink")
  BY DEF At
<1>1. \A a \in Acks' : a.token = L =>
        \/ a \in AcksOf(L)
        \/ /\ dev.owed = L /\ dev'.owed # L /\ a.bundle = dev.bundle
           /\ dev'.marker = L => a.ok
  BY <1>0, AckSteps DEF NewAck, AcksOf
<1>2. dev'.owed = L => dev.owed = L
  BY <1>0, OwedSteps
<1>3. dev'.marker = L => dev.marker = L \/ (dev.owed = L /\ dev'.owed # L)
  BY OwedSteps
<1>4. AcksOf(cap.linkToken)' = {a \in Acks' : a.token = L}
  BY DEF AcksOf
<1>5. \A a \in AcksOf(cap.linkToken)' : a.bundle = dev'.bundle
  BY <1>1, <1>4 DEF LinkEvidence
<1>6. dev'.owed = L => AcksOf(cap.linkToken)' = {} /\ dev'.marker # L
  BY <1>1, <1>2, <1>3, <1>4 DEF LinkEvidence
<1>7. ~At("mark")' => dev'.owed # L /\ \A a \in AcksOf(cap.linkToken)' : a.ok
  <2>1. CASE ~At("mark")
    BY <1>1, <1>2, <1>4, <2>1 DEF LinkEvidence
  <2>2. CASE At("mark") /\ ~At("mark")'
    <3>1. Acks' = Acks /\ dev' = dev
      BY <2>2 DEF bridgeVars, Acks
    <3> QED
      BY <1>4, <2>2, <3>1 DEF LinkEvidence, AcksOf
  <2> QED
    BY <2>1, <2>2
<1>8. dev'.marker = L => \A a \in AcksOf(cap.linkToken)' : a.ok
  <2> SUFFICES ASSUME dev'.marker = L, NEW a \in Acks', a.token = L PROVE a.ok
    BY <1>4
  <2>1. CASE a \in AcksOf(L) /\ dev.marker = L
    BY <2>1 DEF LinkEvidence
  <2>2. CASE a \in AcksOf(L) /\ dev.marker # L
    BY <1>3, <2>2 DEF LinkEvidence
  <2>3. CASE a \notin AcksOf(L)
    BY <1>1, <2>3
  <2> QED
    BY <2>1, <2>2, <2>3
<1> QED
  BY <1>5, <1>6, <1>7, <1>8 DEF LinkEvidence

LEMMA EvidenceStep ==
    TypeInv /\ TokenInv /\ LadderInv /\ FreshInv /\ AckInv /\ EvidenceInv /\ [Next]_vars
      => EvidenceInv'
<1> SUFFICES ASSUME TypeInv, TokenInv, LadderInv, FreshInv, AckInv, EvidenceInv, [Next]_vars,
                    cap'.steady
             PROVE  EvidenceInv'
  BY DEF EvidenceInv
<1>0. /\ CaptureTypeOK /\ TypeOK /\ cap \in Capture
      /\ waiter.ack \in Ack \cup {NoAck} /\ cap.evidence \in Ack \cup {NoAck}
      /\ cap.linkToken \in Maybe(Token) /\ cap.token \in Maybe(Token)
      /\ NoAck \in Ack \cup {NoAck} /\ {"confirmed", "failed", "unconfirmed"} \subseteq Status
      /\ minted \in Nat /\ dev.owed \in Nat /\ dev.owed <= minted
      /\ \A a \in Acks : a.token \in Nat /\ a.token <= minted
      /\ waiter.ack # NoAck => waiter.ack \in Acks
  BY BridgeAssumption, AcksAreAcks
     DEF TypeInv, CaptureTypeOK, TypeOK, Waiter, Capture, Status, Device, Maybe, None, Token,
         TokenInv, Ack, AckInv, Acks
<1>1. ASSUME cap'.at \notin {"ack", "paint", "look", "mark", "adopt", "adopting", "done"}
      PROVE  EvidenceInv'
  BY <1>1 DEF EvidenceInv, EvidenceOnASteadyWire, Confirmed, At
<1>2. ASSUME cap.steady, cap.at \in {"ack", "paint", "look"}, dev'.bundle = dev.bundle,
             cap'.token = cap.token
      PROVE  \A a \in AcksOf(cap.token)' : a.bundle = dev'.bundle
  BY <1>2, AckSteps DEF EvidenceInv, AcksOf, NewAck
<1>3. ASSUME cap'.at = "done", cap'.status # "confirmed" PROVE EvidenceInv'
  BY <1>3 DEF EvidenceInv, EvidenceOnASteadyWire, Confirmed
<1>4. ASSUME NEW status \in {"failed", "unconfirmed"}, NEW token \in {cap.token, cap.linkToken},
             NEW evidence \in {waiter.ack, cap.evidence, NoAck}, Ends(status, token, evidence)
      PROVE  EvidenceInv'
  <2>1. status \in Status /\ token \in Maybe(Token) /\ evidence \in Ack \cup {NoAck}
    BY <1>0, <1>4
  <2> QED
    BY <1>0, <1>3, <1>4, <2>1, EndsTypes
<1>5. ASSUME NEW rung, Goto(rung)
      PROVE  /\ cap.steady /\ cap'.at = rung /\ cap'.linkToken = cap.linkToken
             /\ cap'.token = cap.token /\ cap'.evidence = cap.evidence
             /\ cap'.relinked = cap.relinked
  BY <1>0, <1>5 DEF Goto, Capture
<1>6. ASSUME FallBack, At("drive") \/ At("ack") PROVE EvidenceInv'
  <2>1. cap'.at \in {"kill", "boot", "link"}
    BY <1>0, <1>6 DEF FallBack, Capture, LadderInv
  <2> QED
    BY <1>1, <2>1
<1>7. cap' # NoCapture
  BY NoCaptureTypes
<1>8. ASSUME NEW rung \in {"dial", "coldlink"}, ControlLink(rung) PROVE EvidenceInv'
  <2>1. cap'.at = rung
    BY <1>0, <1>5, <1>8 DEF ControlLink, Capture
  <2> QED
    BY <1>1, <2>1
<1>9. ASSUME cap.steady, ~cap.relinked, cap.at \in {"mark", "adopt", "adopting"}
      PROVE  LinkEvidence /\ cap.linkToken # None
  BY <1>9 DEF EvidenceInv, LadderInv
<1>10. CASE UNCHANGED vars
  <2>1. cap' = cap /\ dev' = dev /\ Acks' = Acks
    BY <1>10 DEF vars, Acks
  <2> QED
    BY <2>1 DEF EvidenceInv, EvidenceOnASteadyWire, EvidenceOfThePicture, Confirmed, At,
       LinkEvidence, AcksOf
<1>11. ~\E force \in BOOLEAN : Begin(force)
  BY NoCaptureTypes DEF Begin, Capture
<1>12. CASE World
  <2>1. /\ cap' = cap \/ cap' = [cap EXCEPT !.heard = TRUE]
        /\ DeviceSteps \/ HostSeesClose \/ DeviceTapped \/ CodeEdited \/ HostReceives
    <3>1. cap' # [cap EXCEPT !.steady = FALSE]
      BY <1>0 DEF Capture
    <3> QED
      BY <1>7, <1>12, <3>1 DEF World, Receive
  <2>2. /\ cap.steady /\ cap'.at = cap.at /\ cap'.token = cap.token
        /\ cap'.linkToken = cap.linkToken /\ cap'.evidence = cap.evidence
        /\ cap'.status = cap.status /\ cap'.bundle = cap.bundle
        /\ cap'.relinked = cap.relinked
    BY <1>0, <2>1 DEF Capture
  <2>3. cap.at \in {"ack", "paint", "look", "mark", "adopt", "adopting"} =>
          dev'.bundle = dev.bundle
    <3>1. cap.at \in {"ack", "paint", "look", "mark", "adopt", "adopting"} => ~ReloadPending
      BY <2>2 DEF FreshInv, At
    <3> QED
      BY <2>1, <3>1, MeanwhileSteps DEF Quiet
  <2>4. cap.at \in {"ack", "paint", "look"} =>
          \A a \in AcksOf(cap.token)' : a.bundle = dev'.bundle
    BY <1>2, <2>2, <2>3
  <2>5. ASSUME ~cap'.relinked, cap'.at \in {"mark", "adopt", "adopting"}
        PROVE  LinkEvidence'
    <3>1. LinkEvidence /\ cap.linkToken # None /\ At("mark")' = At("mark")
      BY <1>9, <2>2, <2>5 DEF At
    <3> QED
      BY <2>2, <2>3, <2>5, <3>1, LinkEvidenceKept
  <2>6. EvidenceOnASteadyWire'
    BY <2>2 DEF EvidenceInv, EvidenceOnASteadyWire, EvidenceOfThePicture, Confirmed, At
  <2>7. cap'.at \in {"paint", "look"} =>
          /\ cap'.evidence.ok /\ cap'.evidence.token = cap'.token
          /\ cap'.evidence.bundle = dev'.bundle
    BY <2>2, <2>3 DEF EvidenceInv
  <2> QED
    BY <2>2, <2>4, <2>5, <2>6, <2>7 DEF EvidenceInv
<1>13. CASE Climb
  <2>1. CASE Guard \/ Reload \/ Redial \/ Kill
    <3>1. cap'.at \in {"reload", "warm", "redial", "kill", "drive"}
      BY <1>0, <1>5, <2>1 DEF Guard, Reload, Redial, Kill, Capture
    <3> QED
      BY <1>1, <3>1
  <2>2. CASE Warm \/ Bridge \/ Boot \/ Dial
    <3>1. cap'.at \in {"bridge", "drive", "link", "boot"} => EvidenceInv'
      BY <1>1
    <3>2. Warm \/ Bridge \/ Dial => cap'.at \in {"bridge", "drive", "link", "boot"}
      BY <1>0, <1>5 DEF Warm, Bridge, Dial, Capture
    <3> QED
      BY <1>8, <2>2, <3>1, <3>2 DEF Boot
  <2>3. CASE Drive
    <3>1. CASE Mint /\ cap' = [cap EXCEPT !.at = "ack", !.token = minted'] /\ Navigate(minted')
      <4>1. cap'.at = "ack" /\ cap'.token = minted + 1
        BY <1>0, <3>1 DEF Capture, Mint
      <4>2. \A a \in Acks' : a.token # minted + 1
        BY <1>0, AckSteps DEF NewAck
      <4> QED
        BY <4>1, <4>2 DEF EvidenceInv, AcksOf, EvidenceOnASteadyWire, Confirmed, At
    <3> QED
      BY <1>6, <2>3, <3>1 DEF Drive
  <2>4. CASE DriveAcked
    <3>1. CASE /\ waiter.ack # NoAck /\ waiter.ack.ok /\ StopWaiting
               /\ cap' = [cap EXCEPT !.at = "paint", !.back = "idle", !.evidence = waiter.ack]
      <4>1. /\ cap.steady /\ cap'.at = "paint" /\ cap'.evidence = waiter.ack
            /\ cap'.token = cap.token /\ cap.at = "ack" /\ UNCHANGED dev
        BY <1>0, <2>4, <3>1 DEF Capture, DriveAcked, At, StopWaiting
      <4>2. waiter.ack.token = cap.token /\ waiter.ack \in Acks
        BY <1>0, <3>1, <4>1 DEF AckInv, WaiterInv, At
      <4>3. waiter.ack.bundle = dev.bundle
        BY <4>1, <4>2 DEF EvidenceInv, AcksOf
      <4>4. \A a \in AcksOf(cap.token)' : a.bundle = dev'.bundle
        BY <1>2, <4>1
      <4> QED
        BY <3>1, <4>1, <4>2, <4>3, <4>4 DEF EvidenceInv, EvidenceOnASteadyWire, Confirmed, At
    <3> QED
      BY <1>4, <1>6, <2>4, <3>1 DEF DriveAcked
  <2>5. CASE Paint \/ LookAgain
    <3>1. ASSUME Ends("confirmed", cap.token, cap.evidence), cap.at \in {"paint", "look"}
          PROVE  EvidenceInv'
      <4>1. /\ cap'.at = "done" /\ cap'.token = cap.token /\ cap'.evidence = cap.evidence
            /\ cap'.bundle = dev.bundle /\ cap.steady
        BY <1>0, <3>1, EndsTypes
      <4> QED
        BY <3>1, <4>1 DEF EvidenceInv, EvidenceOnASteadyWire, EvidenceOfThePicture
    <3>2. ASSUME Goto("look"), CloseDevMenu, cap.at = "paint"
          PROVE  EvidenceInv'
      <4>1. dev'.bundle = dev.bundle
        BY <1>0, <3>2, DeviceKeeps
      <4>2. /\ cap.steady /\ cap'.at = "look" /\ cap'.token = cap.token
            /\ cap'.evidence = cap.evidence
        BY <1>5, <3>2
      <4>3. \A a \in AcksOf(cap.token)' : a.bundle = dev'.bundle
        BY <1>2, <3>2, <4>1, <4>2
      <4> QED
        BY <3>2, <4>1, <4>2, <4>3 DEF EvidenceInv, EvidenceOnASteadyWire, Confirmed, At
    <3> QED
      BY <1>4, <2>5, <3>1, <3>2 DEF Paint, LookAgain, At
  <2>6. CASE OpenTarget
    <3>1. /\ cap.steady /\ cap'.at = "mark" /\ cap'.linkToken = cap.linkToken /\ At("link")
          /\ cap.linkToken # None
      BY <1>5, <2>6 DEF OpenTarget, LadderInv, At
    <3>2. /\ dev.owed # cap.linkToken /\ dev.marker # cap.linkToken
          /\ \A a \in Acks : a.token # cap.linkToken
      BY <3>1 DEF AckInv, Untouched, Linked, AfterTheColdBoot, AcksOf, At
    <3>3. \A a \in Acks' : a.token # cap.linkToken
      BY <3>2, AckSteps DEF NewAck
    <3>4. dev'.marker # cap.linkToken
      BY <3>1, <3>2, OwedSteps
    <3>5. LinkEvidence'
      BY <3>1, <3>3, <3>4 DEF LinkEvidence, AcksOf, At
    <3> QED
      BY <3>1, <3>5 DEF EvidenceInv, EvidenceOnASteadyWire, Confirmed, At
  <2>7. CASE Mark
    <3>1. CASE Shows(cap.linkToken) /\ Goto("adopt")
      <4>1. /\ cap.steady /\ cap'.at = "adopt" /\ cap'.linkToken = cap.linkToken
            /\ cap'.relinked = cap.relinked
        BY <1>5, <3>1
      <4>2. UNCHANGED bridgeVars /\ dev' = dev /\ dev.marker = cap.linkToken
        BY <2>7, <3>1 DEF Mark, Shows, bridgeVars
      <4>3. ~cap.relinked => LinkEvidence'
        BY <1>9, <2>7, <4>1, <4>2, LinkEvidenceKept DEF Mark, At
      <4> QED
        BY <4>1, <4>3 DEF EvidenceInv, EvidenceOnASteadyWire, Confirmed, At
    <3>2. CASE cap' = [cap EXCEPT !.at = "cold", !.skip = FALSE, !.relinked = TRUE]
      <4>1. cap'.at = "cold"
        BY <1>0, <3>2 DEF Capture
      <4> QED
        BY <1>1, <4>1
    <3> QED
      BY <1>4, <2>7, <3>1, <3>2 DEF Mark, Settles
  <2>8. CASE Cold
    BY <1>7, <1>8, <2>8 DEF Cold, Throws
  <2>9. CASE OpenTargetCold
    <3>1. Goto("dismiss") => EvidenceInv'
      BY <1>1, <1>5
    <3> QED
      BY <1>4, <1>7, <2>9, <3>1 DEF OpenTargetCold, Throws, Settles
  <2>10. CASE Dismiss
    BY <1>1, <1>5, <2>10 DEF Dismiss
  <2>11. CASE ColdMark
    <3>1. CASE cap' = [cap EXCEPT !.at = "coldlink", !.tapped = TRUE]
      <4>1. cap'.at = "coldlink"
        BY <1>0, <3>1 DEF Capture
      <4> QED
        BY <1>1, <4>1
    <3>2. CASE Goto("adopt")
      <4>1. cap'.at = "adopt" /\ cap'.relinked
        BY <1>5, <2>11, <3>2 DEF ColdMark, At, LadderInv, AfterTheColdBoot
      <4> QED
        BY <4>1 DEF EvidenceInv, EvidenceOnASteadyWire, Confirmed, At
    <3> QED
      BY <1>4, <2>11, <3>1, <3>2 DEF ColdMark, Settles
  <2>12. CASE Adopt
    <3>1. CASE WaitForRendered(cap.linkToken) /\ Goto("adopting")
      <4>1. /\ cap.steady /\ cap'.at = "adopting" /\ cap'.linkToken = cap.linkToken
            /\ cap'.relinked = cap.relinked /\ dev' = dev /\ cap.at = "adopt"
        BY <1>5, <2>12, <3>1 DEF WaitForRendered, Adopt, At
      <4>2. ~cap.relinked => LinkEvidence'
        BY <1>9, <4>1, LinkEvidenceKept DEF At
      <4> QED
        BY <4>1, <4>2 DEF EvidenceInv, EvidenceOnASteadyWire, Confirmed, At
    <3>2. CASE Ends("confirmed", cap.linkToken, NoAck)
      <4>1. cap'.at = "done" /\ cap'.evidence = NoAck
        BY <1>0, <3>2, EndsTypes
      <4> QED
        BY <4>1 DEF EvidenceInv, EvidenceOnASteadyWire, EvidenceOfThePicture
    <3> QED
      BY <2>12, <3>1, <3>2 DEF Adopt
  <2>13. CASE Adopted
    <3>1. /\ cap.steady /\ cap'.at = "done" /\ cap'.token = cap.linkToken
          /\ cap'.evidence = waiter.ack /\ cap'.bundle = dev.bundle
          /\ cap'.relinked = cap.relinked /\ cap.at = "adopting"
      BY <1>0, <2>13, EndsTypes DEF Adopted, At
    <3>2. ASSUME ~cap.relinked, waiter.ack # NoAck
          PROVE  waiter.ack.ok /\ waiter.ack.token = cap.linkToken /\ waiter.ack.bundle = dev.bundle
      <4>1. waiter.ack \in AcksOf(cap.linkToken) /\ waiter.ack.token = cap.linkToken
        BY <1>0, <3>1, <3>2 DEF AckInv, WaiterInv, AcksOf, At
      <4>2. LinkEvidence
        BY <1>9, <3>1, <3>2
      <4> QED
        BY <3>1, <4>1, <4>2 DEF LinkEvidence, At
    <3> QED
      BY <3>1, <3>2 DEF EvidenceInv, EvidenceOnASteadyWire, EvidenceOfThePicture
  <2> QED
    BY <1>13, <2>1, <2>2, <2>3, <2>4, <2>5, <2>6, <2>7, <2>8, <2>9, <2>10, <2>11, <2>12, <2>13
       DEF Climb
<1> QED
  BY <1>10, <1>11, <1>12, <1>13 DEF Next

LEMMA EvidenceInit == Init => AckInv /\ EvidenceInv
<1> SUFFICES ASSUME Init PROVE AckInv /\ EvidenceInv
  OBVIOUS
<1>1. dev.acking = <<>> /\ host.retained = <<>> /\ up = <<>> /\ waiter = NoWaiter /\ minted = 0
  <2>1. Launcher.acking = <<>> /\ LeftBehind.acking = <<>>
    BY LauncherTypes DEF LeftBehind, Device
  <2>2. dev.acking = <<>>
    BY <2>1 DEF Init, InitBridge
  <2> QED
    BY <2>2 DEF Init, InitBridge, NewHost
<1>2. Range(dev.acking) = {} /\ Range(host.retained) = {} /\ Range(up) = {}
  BY <1>1, RangeEmpty
<1>3. Acks = {}
  BY <1>1, <1>2 DEF Acks, AcksIn, NoWaiter
<1>4. cap.at = "idle" /\ cap.linkToken = None /\ ~cap.steady
  BY NoCaptureTypes DEF Init
<1> QED
  BY <1>1, <1>3, <1>4 DEF AckInv, EvidenceInv, WaiterInv, Untouched, NoWaiter, None, At

(* The measurement recorded beside a confirmed picture was made on it, on a   *)
(* steady wire and by a ladder that sent its deep link once: the ack is a     *)
(* good one, of the confirmed navigation, from the bundle on screen, however  *)
(* late acks came, were filed or were overtaken.                              *)
THEOREM SteadyEvidence == Spec => []EvidenceOnASteadyWire
<1>1. EvidenceInv => EvidenceOnASteadyWire
  BY DEF EvidenceInv, EvidenceOnASteadyWire
<1> QED
  BY <1>1, HelloInit, TypeInit, TypeStep, HelloStep, LadderInit, LadderStep, FreshStep,
     TokenInit, TokenStep, EvidenceInit, AckStep, EvidenceStep, PTL DEF Spec

-----------------------------------------------------------------------------
\* What the host has on file.

(* The file is full, and an ack nobody waits for pushes the oldest out. *)
Overflows ==
    /\ HostReceives
    /\ Head(up).type = "rendered"
    /\ ~WaitsFor(Head(up).ack)
    /\ Len(Filed(host, Head(up).ack)) > RetainedAckLimit

LEMMA FiledOf ==
    ASSUME TypeOK, NEW ack \in Ack
    PROVE  /\ Filed(host, ack) \in Seq(Ack)
           /\ \E i \in DOMAIN Filed(host, ack) : Filed(host, ack)[i].token = ack.token
           /\ \A i \in DOMAIN host.retained :
                 /\ i \in DOMAIN Filed(host, ack)
                 /\ Filed(host, ack)[i].token = host.retained[i].token
<1> DEFINE kept == Filed(host, ack)
           acks == host.retained
<1>1. acks \in Seq(Ack) /\ Len(acks) \in Nat /\ DOMAIN acks = 1 .. Len(acks)
  BY DEF TypeOK, Host
<1>2. /\ kept \in Seq(Ack)
      /\ \E i \in DOMAIN kept : kept[i].token = ack.token
      /\ \A i \in DOMAIN acks : i \in DOMAIN kept /\ kept[i].token = acks[i].token
  <2>1. CASE Retained(host, ack.token) = {}
    <3>1. kept = Append(acks, ack)
      BY <2>1 DEF Filed
    <3>2. /\ kept \in Seq(Ack) /\ DOMAIN kept = 1 .. Len(acks) + 1 /\ kept[Len(acks) + 1] = ack
          /\ \A i \in 1 .. Len(acks) : kept[i] = acks[i]
      BY <1>1, <3>1
    <3> HIDE DEF kept, acks
    <3>3. Len(acks) + 1 \in DOMAIN kept
      BY <1>1, <3>2
    <3>4. \E i \in DOMAIN kept : kept[i].token = ack.token
      BY <3>2, <3>3
    <3>5. \A i \in DOMAIN acks : i \in DOMAIN kept /\ kept[i].token = acks[i].token
      BY <1>1, <3>2
    <3> QED
      BY <3>2, <3>4, <3>5
  <2>2. CASE Retained(host, ack.token) # {}
    <3>1. kept = [i \in DOMAIN acks |-> IF acks[i].token = ack.token THEN ack ELSE acks[i]]
      BY <2>2 DEF Filed
    <3>2. PICK j \in DOMAIN acks : acks[j].token = ack.token
      BY <2>2 DEF Retained
    <3> HIDE DEF kept, acks
    <3>3. kept \in Seq(Ack) /\ DOMAIN kept = DOMAIN acks
      BY <1>1, <3>1
    <3>4. \A i \in DOMAIN acks : kept[i].token = acks[i].token
      BY <3>1
    <3> QED
      BY <3>2, <3>3, <3>4
  <2> QED
    BY <2>1, <2>2
<1> QED
  BY <1>2

(* What is filed without an overflow is on file, beside all that was. *)
LEMMA FiledStays ==
    ASSUME TypeOK, NEW ack \in Ack, ~(Len(Filed(host, ack)) > RetainedAckLimit),
           host' = Retain(host, ack)
    PROVE  /\ Retained(host, ack.token)' # {}
           /\ \A t : Retained(host, t) # {} => \E i \in DOMAIN host'.retained : host'.retained[i].token = t
<1> DEFINE kept == Filed(host, ack)
<1>1. /\ kept \in Seq(Ack) /\ \E i \in DOMAIN kept : kept[i].token = ack.token
      /\ \A i \in DOMAIN host.retained : i \in DOMAIN kept /\ kept[i].token = host.retained[i].token
  BY FiledOf
<1>2. host' = [host EXCEPT !.retained = kept] /\ host \in Host
  BY DEF Retain, TypeOK
<1> HIDE DEF kept
<1>3. host'.retained = kept
  BY <1>2 DEF Host
<1>4. Retained(host, ack.token)' # {}
  BY <1>1, <1>3 DEF Retained
<1>5. ASSUME NEW t, Retained(host, t) # {}
      PROVE  \E i \in DOMAIN host'.retained : host'.retained[i].token = t
  <2>1. PICK i \in DOMAIN host.retained : host.retained[i].token = t
    BY <1>5 DEF Retained
  <2> QED
    BY <1>1, <1>3, <2>1
<1> QED
  BY <1>4, <1>5

(* An ack of the deep link that reached the host is on file until it is asked *)
(* for, and whoever asks has it: nobody else waits under its token.           *)
RecordInv ==
    /\ cap.heard => cap.linkToken # None
    /\ cap.heard /\ ~At("adopting") /\ ~At("done") =>
         \E i \in DOMAIN host.retained : host.retained[i].token = cap.linkToken
    /\ MeasuredIsRecorded
    /\ cap.linkToken # None /\ waiter.token = cap.linkToken => At("adopting")

LEMMA RecordStep ==
    TypeInv /\ TokenInv /\ LadderInv /\ AckInv /\ RecordInv /\ [Next]_vars /\ [~Overflows]_vars
      => RecordInv'
<1> SUFFICES ASSUME TypeInv, TokenInv, LadderInv, AckInv, RecordInv, [Next]_vars, [~Overflows]_vars
             PROVE  RecordInv'
  OBVIOUS
<1> DEFINE OnFile(acks) == \E i \in DOMAIN acks : acks[i].token = cap.linkToken
<1>0. /\ CaptureTypeOK /\ TypeOK /\ cap \in Capture /\ host \in Host /\ waiter \in Waiter
      /\ waiter.ack \in Ack \cup {NoAck} /\ cap.evidence \in Ack \cup {NoAck}
      /\ cap.linkToken \in Maybe(Token) /\ cap.token \in Maybe(Token)
      /\ NoAck \in Ack \cup {NoAck} /\ {"confirmed", "failed", "unconfirmed"} \subseteq Status
      /\ minted \in Nat /\ waiter.token \in Nat /\ waiter.token <= minted
      /\ cap.linkToken \in Nat /\ cap.linkToken <= minted
  BY DEF TypeInv, CaptureTypeOK, TypeOK, Waiter, Capture, Status, Maybe, None, Token, TokenInv,
         AckInv, WaiterInv
<1>1. ASSUME cap' = NoCapture PROVE RecordInv'
  BY <1>1, NoCaptureTypes DEF RecordInv, MeasuredIsRecorded, At
<1>2. ASSUME NEW status \in {"confirmed", "failed", "unconfirmed"},
             NEW token \in {cap.token, cap.linkToken},
             NEW evidence \in {cap.evidence, waiter.ack, NoAck}, Ends(status, token, evidence)
      PROVE  RecordInv'
  <2>1. cap'.linkToken = None /\ ~cap'.heard
    BY <1>0, <1>2, EndsTypes
  <2> QED
    BY <2>1 DEF RecordInv, MeasuredIsRecorded
<1>3. ASSUME cap'.heard = cap.heard, cap'.linkToken = cap.linkToken, host'.retained = host.retained,
             cap.at \notin {"adopting", "done"}, cap'.at \notin {"adopting", "done"},
             \/ waiter'.token \in {waiter.token, None}
             \/ waiter'.token = minted + 1
      PROVE  RecordInv'
  BY <1>0, <1>3 DEF RecordInv, MeasuredIsRecorded, At
<1>4. ASSUME NEW rung, Goto(rung)
      PROVE  cap'.at = rung /\ cap'.linkToken = cap.linkToken /\ cap'.heard = cap.heard
  BY <1>0, <1>4 DEF Goto, Capture
<1>5. ASSUME UNCHANGED cap, host'.retained = host.retained, UNCHANGED waiter
      PROVE  RecordInv'
  BY <1>5 DEF RecordInv, MeasuredIsRecorded, At
<1>6. CASE UNCHANGED vars
  BY <1>5, <1>6 DEF vars
<1>7. ASSUME NEW force \in BOOLEAN, Begin(force) PROVE RecordInv'
  <2>1. cap'.linkToken = minted + 1 /\ ~cap'.heard /\ UNCHANGED waiter
    BY <1>7, NoCaptureTypes DEF Begin, Mint, Capture
  <2> QED
    BY <1>0, <2>1 DEF RecordInv, MeasuredIsRecorded
<1>8. CASE World
  <2>1. ASSUME DeviceSteps \/ HostSeesClose \/ DeviceTapped \/ CodeEdited, UNCHANGED cap
        PROVE  RecordInv'
    <3>1. UNCHANGED waiter
      BY <2>1 DEF DeviceSteps, DeviceConnects, DeviceReceives, DeviceReloads, StartSession,
         DevicePaints, DeviceAcks, HostSeesClose, DeviceTapped, CodeEdited
    <3>2. host'.retained = host.retained
      BY <1>0, <2>1 DEF DeviceSteps, DeviceConnects, Connection, DeviceReceives, DeviceReloads,
         StartSession, DevicePaints, DeviceAcks, HostSeesClose, DeviceTapped, CodeEdited, Host
    <3> QED
      BY <1>5, <2>1, <3>1, <3>2
  <2>2. CASE Receive
    <3>1. HostReceives /\ Head(up) \in UpFrame /\ up # <<>>
      BY <1>0, <2>2, HeadTailProperties DEF Receive, HostReceives, TypeOK
    <3>2. CASE Head(up).type = "hello"
      <4>1. UNCHANGED cap /\ UNCHANGED waiter /\ host' = TakeHello(host, Head(up))
        BY <2>2, <3>1, <3>2 DEF Receive, HostReceives
      <4>2. host'.retained = host.retained
        BY <1>0, <4>1 DEF TakeHello, Host
      <4> QED
        BY <1>5, <4>1, <4>2
    <3>3. CASE Head(up).type = "rendered"
      <4> DEFINE ack == Head(up).ack
                 hears == ack.token = cap.linkToken /\ cap.at # "done"
      <4>1. ack \in Ack /\ ack.token # None /\ ack # NoAck
        BY <3>1, <3>3 DEF UpFrame, Ack, NoAck, Token, None
      <4>2. /\ cap'.at = cap.at /\ cap'.linkToken = cap.linkToken
            /\ cap'.heard = (cap.heard \/ hears)
        BY <1>0, <2>2, <3>3 DEF Receive, Capture
      <4>3. CASE WaitsFor(ack)
        <5>1. UNCHANGED host /\ waiter' = [waiter EXCEPT !.ack = ack]
          BY <3>1, <3>3, <4>3 DEF HostReceives
        <5>2. waiter'.ack = ack /\ waiter'.token = waiter.token
          BY <1>0, <5>1 DEF Waiter
        <5>3. hears => At("adopting")
          BY <4>1, <4>3 DEF WaitsFor, RecordInv
        <5> QED
          BY <4>1, <4>2, <5>1, <5>2, <5>3 DEF RecordInv, MeasuredIsRecorded, At
      <4>4. CASE ~WaitsFor(ack)
        <5>1. UNCHANGED waiter /\ host' = Retain(host, ack)
          BY <3>1, <3>3, <4>4 DEF HostReceives
        <5>2. ~(Len(Filed(host, ack)) > RetainedAckLimit)
          <6>1. up' # up
            <7>1. up \in Seq(UpFrame) /\ Len(Tail(up)) = Len(up) - 1 /\ up' = Tail(up)
              BY <1>0, <3>1, HeadTailProperties DEF HostReceives, TypeOK
            <7> QED
              BY <7>1
          <6> QED
            BY <3>1, <3>3, <4>4, <6>1 DEF Overflows, vars
        <5>3. OnFile(host.retained) => OnFile(host'.retained)
          BY <1>0, <4>1, <5>1, <5>2, FiledStays DEF Retained
        <5>4. hears => OnFile(host'.retained)
          BY <1>0, <4>1, <5>1, <5>2, FiledStays DEF Retained
        <5>5. hears /\ At("adopting") => waiter.ack # NoAck
          BY <4>4 DEF WaitsFor, AckInv
        <5> QED
          BY <4>1, <4>2, <5>1, <5>3, <5>4, <5>5 DEF RecordInv, MeasuredIsRecorded, At
      <4> QED
        BY <4>3, <4>4
    <3> QED
      BY <3>1, <3>2, <3>3 DEF UpFrame
  <2>3. ASSUME SocketDrops, cap' = [cap EXCEPT !.steady = FALSE] PROVE RecordInv'
    <3>1. /\ cap'.at = cap.at /\ cap'.linkToken = cap.linkToken /\ cap'.heard = cap.heard
          /\ UNCHANGED <<host, waiter>>
      BY <1>0, <2>3 DEF Capture, SocketDrops
    <3> QED
      BY <3>1 DEF RecordInv, MeasuredIsRecorded, At
  <2> QED
    BY <1>1, <1>8, <2>1, <2>2, <2>3 DEF World
<1>9. CASE Climb
  <2>1. ASSUME UNCHANGED <<host, waiter>>, cap'.heard = cap.heard, cap'.linkToken = cap.linkToken,
               cap.at \notin {"adopting", "done"}, cap'.at \notin {"adopting", "done"}
        PROVE  RecordInv'
    BY <1>3, <2>1
  <2>2. UNCHANGED bridgeVars \/ StartSession \/ TerminateApp \/ CloseDevMenu \/ PushReload
          \/ DeepLink(cap.linkToken) => UNCHANGED <<host, waiter>>
    BY DEF bridgeVars, StartSession, TerminateApp, CloseDevMenu, PushReload, DeepLink
  <2>3. CASE Guard \/ Redial \/ Warm \/ Bridge
    <3>1. /\ UNCHANGED bridgeVars /\ cap'.heard = cap.heard /\ cap'.linkToken = cap.linkToken
          /\ cap.at \in {"hello", "redial", "warm", "bridge"}
          /\ cap'.at \in {"reload", "warm", "drive", "kill", "bridge", "boot", "link"}
      BY <1>0, <2>3 DEF Guard, Redial, Warm, Bridge, Capture, At
    <3> QED
      BY <2>1, <2>2, <3>1
  <2>4. CASE Reload \/ Kill
    <3>1. UNCHANGED <<host, waiter>>
      BY <2>2, <2>4 DEF Reload, Kill
    <3>2. /\ cap'.heard = cap.heard /\ cap'.linkToken = cap.linkToken
          /\ cap.at \in {"reload", "kill"} /\ cap'.at \in {"redial", "kill", "warm"}
      BY <1>0, <1>4, <2>4 DEF Reload, Kill, Capture, At
    <3> QED
      BY <2>1, <3>1, <3>2
  <2>5. ASSUME NEW rung \in {"dial", "coldlink"}, ControlLink(rung), cap.at \in {"boot", "cold"}
        PROVE  RecordInv'
    <3>1. cap'.heard = cap.heard /\ cap'.linkToken = cap.linkToken /\ cap'.at = rung
      BY <1>0, <1>4, <2>5 DEF ControlLink, Capture
    <3> QED
      BY <2>1, <2>2, <2>5, <3>1 DEF ControlLink
  <2>6. CASE Dial
    <3>1. UNCHANGED <<host, waiter>>
      BY <2>2, <2>6 DEF Dial
    <3>2. /\ cap'.heard = cap.heard /\ cap'.linkToken = cap.linkToken
          /\ cap.at = "dial" /\ cap'.at \in {"drive", "link"}
      BY <1>0, <1>4, <2>6 DEF Dial, Capture, At
    <3> QED
      BY <2>1, <3>1, <3>2
  <2>7. ASSUME FallBack, cap.at \in {"drive", "ack"}
        PROVE  /\ cap'.heard = cap.heard /\ cap'.linkToken = cap.linkToken
               /\ cap'.at \in {"kill", "boot", "link"}
    <3>1. cap.back \in {"kill", "boot", "link"}
      BY <2>7 DEF LadderInv, At
    <3> QED
      BY <1>0, <2>7, <3>1 DEF FallBack, Capture
  <2>8. CASE Drive
    <3>1. cap.at = "drive"
      BY <2>8 DEF Drive, At
    <3>2. CASE Mint /\ Navigate(minted') /\ cap' = [cap EXCEPT !.at = "ack", !.token = minted']
      <4>1. /\ cap'.heard = cap.heard /\ cap'.linkToken = cap.linkToken /\ cap'.at = "ack"
        BY <1>0, <3>2 DEF Capture
      <4>2. host'.retained = host.retained /\ waiter'.token = minted + 1
        BY <1>0, <3>2 DEF Navigate, Mint, Host
      <4> QED
        BY <1>3, <3>1, <4>1, <4>2
    <3>3. CASE FallBack /\ UNCHANGED bridgeVars
      BY <2>1, <2>2, <2>7, <3>1, <3>3
    <3> QED
      BY <2>8, <3>2, <3>3 DEF Drive
  <2>9. CASE DriveAcked
    <3>1. cap.at = "ack" /\ host' = host /\ waiter'.token = None
      BY <2>9 DEF DriveAcked, StopWaiting, NoWaiter, At
    <3>2. CASE cap' = [cap EXCEPT !.at = "paint", !.back = "idle", !.evidence = waiter.ack]
      <4>1. /\ cap'.heard = cap.heard /\ cap'.linkToken = cap.linkToken /\ cap'.at = "paint"
        BY <1>0, <3>2 DEF Capture
      <4> QED
        BY <1>3, <3>1, <4>1
    <3>3. CASE FallBack
      <4>1. /\ cap'.heard = cap.heard /\ cap'.linkToken = cap.linkToken
            /\ cap'.at \in {"kill", "boot", "link"}
        BY <2>7, <3>1, <3>3
      <4> QED
        BY <1>3, <3>1, <4>1
    <3> QED
      BY <1>2, <2>9, <3>2, <3>3 DEF DriveAcked
  <2>10. CASE Paint \/ LookAgain
    <3>1. Goto("look") /\ CloseDevMenu /\ cap.at = "paint" => RecordInv'
      BY <1>4, <2>1, <2>2
    <3> QED
      BY <1>2, <2>10, <3>1 DEF Paint, LookAgain, At
  <2>11. CASE OpenTarget
    <3>1. UNCHANGED <<host, waiter>> /\ cap.at = "link"
      BY <2>2, <2>11 DEF OpenTarget, At
    <3>2. cap'.heard = cap.heard /\ cap'.linkToken = cap.linkToken /\ cap'.at = "mark"
      BY <1>4, <2>11 DEF OpenTarget
    <3> QED
      BY <2>1, <3>1, <3>2
  <2>12. CASE Mark
    <3>1. UNCHANGED <<host, waiter>> /\ cap.at = "mark"
      BY <2>2, <2>12 DEF Mark, At
    <3>2. CASE cap' = [cap EXCEPT !.at = "cold", !.skip = FALSE, !.relinked = TRUE]
      <4>1. cap'.heard = cap.heard /\ cap'.linkToken = cap.linkToken /\ cap'.at = "cold"
        BY <1>0, <3>2 DEF Capture
      <4> QED
        BY <2>1, <3>1, <4>1
    <3>3. CASE Goto("adopt")
      <4>1. cap'.heard = cap.heard /\ cap'.linkToken = cap.linkToken /\ cap'.at = "adopt"
        BY <1>4, <3>3
      <4> QED
        BY <2>1, <3>1, <4>1
    <3> QED
      BY <1>2, <2>12, <3>2, <3>3 DEF Mark, Settles
  <2>13. CASE OpenTargetCold
    <3>1. ASSUME DeepLink(cap.linkToken), Goto("dismiss") PROVE RecordInv'
      <4>1. cap'.heard = cap.heard /\ cap'.linkToken = cap.linkToken /\ cap'.at = "dismiss"
        BY <1>4, <3>1
      <4> QED
        BY <2>1, <2>2, <2>13, <3>1, <4>1 DEF OpenTargetCold, At
    <3> QED
      BY <1>1, <1>2, <2>13, <3>1 DEF OpenTargetCold, Throws, Settles
  <2>14. CASE Dismiss
    <3>1. cap'.heard = cap.heard /\ cap'.linkToken = cap.linkToken /\ cap'.at = "coldmark"
      BY <1>4, <2>14 DEF Dismiss
    <3> QED
      BY <2>1, <2>2, <2>14, <3>1 DEF Dismiss, At
  <2>15. CASE ColdMark
    <3>1. UNCHANGED <<host, waiter>> /\ cap.at = "coldmark"
      BY <2>2, <2>15 DEF ColdMark, At
    <3>2. CASE cap' = [cap EXCEPT !.at = "coldlink", !.tapped = TRUE]
      <4>1. cap'.heard = cap.heard /\ cap'.linkToken = cap.linkToken /\ cap'.at = "coldlink"
        BY <1>0, <3>2 DEF Capture
      <4> QED
        BY <2>1, <3>1, <4>1
    <3>3. CASE Goto("adopt")
      <4>1. cap'.heard = cap.heard /\ cap'.linkToken = cap.linkToken /\ cap'.at = "adopt"
        BY <1>4, <3>3
      <4> QED
        BY <2>1, <3>1, <4>1
    <3> QED
      BY <1>2, <2>15, <3>2, <3>3 DEF ColdMark, Settles
  <2>16. CASE Adopt
    <3>1. CASE WaitForRendered(cap.linkToken) /\ Goto("adopting")
      <4>1. /\ cap.at = "adopt" /\ cap'.heard = cap.heard
            /\ cap'.linkToken = cap.linkToken /\ cap'.at = "adopting"
        BY <1>4, <2>16, <3>1 DEF Adopt, At
      <4>2. cap.heard => Retained(host, cap.linkToken) # {}
        BY <4>1 DEF RecordInv, At, Retained
      <4>3. \A i \in Retained(host, cap.linkToken) : host.retained[i] # NoAck
        BY <1>0 DEF Retained, Host, Ack, Token, NoAck, None
      <4>4. cap.heard => waiter'.ack # NoAck
        BY <3>1, <4>2, <4>3 DEF WaitForRendered
      <4> QED
        BY <4>1, <4>4 DEF RecordInv, MeasuredIsRecorded, At
    <3> QED
      BY <1>2, <2>16, <3>1 DEF Adopt
  <2>17. CASE Adopted
    BY <1>2, <2>17 DEF Adopted
  <2>18. CASE Boot \/ Cold
    BY <1>1, <2>5, <2>18 DEF Boot, Cold, Throws, At
  <2> QED
    BY <1>9, <2>3, <2>4, <2>6, <2>8, <2>9, <2>10, <2>11, <2>12, <2>13, <2>14, <2>15, <2>16, <2>17,
       <2>18 DEF Climb
<1> QED
  BY <1>6, <1>7, <1>8, <1>9 DEF Next

LEMMA RecordInit == Init => RecordInv
<1> SUFFICES ASSUME Init PROVE RecordInv
  OBVIOUS
<1> QED
  BY NoCaptureTypes DEF Init, RecordInv, MeasuredIsRecorded, NoCapture, At

(* When an open comes to claim the ack of its deep link and that ack had      *)
(* already come, the open has it, whoever heard it and in whatever order the  *)
(* acks came, as long as the host was never made to forget the oldest.        *)
THEOREM MeasurementsAreRecorded == Spec /\ [][~Overflows]_vars => []MeasuredIsRecorded
<1>1. RecordInv => MeasuredIsRecorded
  BY DEF RecordInv
<1> QED
  BY <1>1, TypeInit, TypeStep, TokenInit, TokenStep, LadderInit, LadderStep, EvidenceInit, AckStep,
     RecordInit, RecordStep, PTL DEF Spec

\* A token has one place in the file.
OnePlaceEach(acks) == \A i, j \in DOMAIN acks : acks[i].token = acks[j].token => i = j

LEMMA FiledOnce ==
    ASSUME TypeOK, OnePlaceEach(host.retained), NEW ack \in Ack
    PROVE  OnePlaceEach(Filed(host, ack))
<1> DEFINE kept == Filed(host, ack)
           acks == host.retained
<1>1. acks \in Seq(Ack) /\ Len(acks) \in Nat /\ DOMAIN acks = 1 .. Len(acks)
  BY DEF TypeOK, Host
<1>2. CASE Retained(host, ack.token) = {}
  <2>1. kept = Append(acks, ack)
    BY <1>2 DEF Filed
  <2>2. /\ DOMAIN kept = 1 .. Len(acks) + 1 /\ kept[Len(acks) + 1] = ack
        /\ \A i \in 1 .. Len(acks) : kept[i] = acks[i]
    BY <1>1, <2>1
  <2>3. \A i \in DOMAIN acks : acks[i].token # ack.token
    BY <1>2 DEF Retained
  <2>4. \A i, j \in DOMAIN acks : acks[i].token = acks[j].token => i = j
    BY DEF OnePlaceEach
  <2> HIDE DEF kept, acks
  <2>5. \A i, j \in DOMAIN kept : kept[i].token = kept[j].token => i = j
    BY <1>1, <2>2, <2>3, <2>4
  <2> QED
    BY <2>5 DEF OnePlaceEach, kept
<1>3. CASE Retained(host, ack.token) # {}
  <2>1. kept = [i \in DOMAIN acks |-> IF acks[i].token = ack.token THEN ack ELSE acks[i]]
    BY <1>3 DEF Filed
  <2>2. \A i, j \in DOMAIN acks : acks[i].token = acks[j].token => i = j
    BY DEF OnePlaceEach
  <2> HIDE DEF kept, acks
  <2>3. DOMAIN kept = DOMAIN acks /\ \A i \in DOMAIN acks : kept[i].token = acks[i].token
    BY <2>1
  <2>4. \A i, j \in DOMAIN kept : kept[i].token = kept[j].token => i = j
    BY <2>2, <2>3
  <2> QED
    BY <2>4 DEF OnePlaceEach, kept
<1> QED
  BY <1>2, <1>3

(* So a file that has room for every token minted never overflows. *)
LEMMA NoMoreThanTokens ==
    ASSUME NEW acks \in Seq(Ack), OnePlaceEach(acks)
    PROVE  Len(acks) <= MaxTokens
<1> DEFINE tokens == [i \in 1 .. Len(acks) |-> acks[i].token]
<1>1. Len(acks) \in Nat /\ DOMAIN acks = 1 .. Len(acks) /\ MaxTokens \in Nat
  BY BridgeAssumption
<1>2. \A i \in 1 .. Len(acks) : acks[i].token \in Token
  <2> TAKE i \in 1 .. Len(acks)
  <2>1. acks[i] \in Ack
    BY <1>1
  <2> HIDE DEF tokens
  <2> QED
    BY <2>1 DEF Ack
<1>3. tokens \in [1 .. Len(acks) -> Token]
  BY <1>2
<1>4. \A i, j \in 1 .. Len(acks) : tokens[i] = tokens[j] => i = j
  BY <1>1 DEF OnePlaceEach
<1> HIDE DEF tokens
<1>5. IsFiniteSet(1 .. Len(acks)) /\ Cardinality(1 .. Len(acks)) = Len(acks)
  BY <1>1, FS_Interval
<1>6. IsFiniteSet(Token) /\ Cardinality(Token) = MaxTokens
  BY <1>1, FS_Interval DEF Token
<1>7. ~(Cardinality(Token) < Cardinality(1 .. Len(acks)))
  BY <1>3, <1>4, <1>5, <1>6, FS_PigeonHole
<1> QED
  BY <1>1, <1>5, <1>6, <1>7

LEMMA TailOnce ==
    ASSUME NEW acks \in Seq(Ack), OnePlaceEach(acks)
    PROVE  acks # <<>> => OnePlaceEach(Tail(acks))
<1> SUFFICES ASSUME acks # <<>> PROVE OnePlaceEach(Tail(acks))
  OBVIOUS
<1> DEFINE rest == Tail(acks)
<1>1. /\ Len(acks) \in Nat /\ DOMAIN acks = 1 .. Len(acks) /\ DOMAIN rest = 1 .. Len(acks) - 1
      /\ \A i \in 1 .. Len(acks) - 1 : rest[i] = acks[i + 1]
  OBVIOUS
<1>2. \A i, j \in DOMAIN acks : acks[i].token = acks[j].token => i = j
  BY DEF OnePlaceEach
<1> HIDE DEF rest
<1>3. \A i, j \in DOMAIN rest : rest[i].token = rest[j].token => i = j
  BY <1>1, <1>2
<1> QED
  BY <1>3 DEF OnePlaceEach, rest

LEMMA RemoveOnce ==
    ASSUME NEW acks \in Seq(Ack), OnePlaceEach(acks), NEW k \in DOMAIN acks
    PROVE  OnePlaceEach(RemoveAt(acks, k))
<1> DEFINE rest == RemoveAt(acks, k)
<1>1. /\ Len(acks) \in Nat /\ DOMAIN acks = 1 .. Len(acks) /\ DOMAIN rest = 1 .. Len(acks) - 1
      /\ \A i \in 1 .. Len(acks) - 1 : rest[i] = IF i < k THEN acks[i] ELSE acks[i + 1]
  BY RemoveAtElements
<1>2. \A i, j \in DOMAIN acks : acks[i].token = acks[j].token => i = j
  BY DEF OnePlaceEach
<1> HIDE DEF rest
<1>3. \A i, j \in DOMAIN rest : rest[i].token = rest[j].token => i = j
  BY <1>1, <1>2
<1> QED
  BY <1>3 DEF OnePlaceEach, rest

LEMMA OnceStep ==
    ASSUME TypeInv, OnePlaceEach(host.retained), [Next]_vars
    PROVE  OnePlaceEach(host.retained)'
<1>0. /\ CaptureTypeOK /\ TypeOK /\ host \in Host /\ host.retained \in Seq(Ack)
      /\ up \in Seq(UpFrame) /\ cap.linkToken \in Maybe(Token)
  BY DEF TypeInv, CaptureTypeOK, TypeOK, Capture, Host
<1>1. ASSUME host'.retained = host.retained PROVE OnePlaceEach(host.retained)'
  BY <1>1 DEF OnePlaceEach
<1>2. CASE HostReceives
  <2>1. Head(up) \in UpFrame
    BY <1>0, <1>2, HeadTailProperties DEF HostReceives
  <2>2. ASSUME NEW ack \in Ack, host' = Retain(host, ack)
        PROVE  OnePlaceEach(host.retained)'
    <3> DEFINE kept == Filed(host, ack)
               filed == IF Len(kept) > RetainedAckLimit THEN Tail(kept) ELSE kept
    <3>1. kept \in Seq(Ack) /\ OnePlaceEach(kept)
      BY <1>0, FiledOf, FiledOnce
    <3>2. host' = [host EXCEPT !.retained = filed]
      BY <2>2 DEF Retain
    <3> HIDE DEF kept
    <3>3. OnePlaceEach(filed)
      <4>1. CASE Len(kept) > RetainedAckLimit
        <5>1. kept # <<>>
          BY <3>1, <4>1, BridgeAssumption
        <5> QED
          BY <3>1, <4>1, <5>1, TailOnce
      <4>2. CASE ~(Len(kept) > RetainedAckLimit)
        BY <3>1, <4>2
      <4> QED
        BY <4>1, <4>2
    <3> HIDE DEF filed
    <3>4. host'.retained = filed
      BY <1>0, <3>2 DEF Host
    <3> QED
      BY <3>3, <3>4 DEF OnePlaceEach
  <2>3. CASE Head(up).type = "hello" /\ host' = TakeHello(host, Head(up))
    <3>1. host'.retained = host.retained
      BY <1>0, <2>3 DEF TakeHello, Host
    <3> QED
      BY <1>1, <3>1
  <2>4. Head(up).type = "rendered" => Head(up).ack \in Ack
    BY <2>1 DEF UpFrame
  <2> QED
    BY <1>1, <1>2, <2>2, <2>3, <2>4 DEF HostReceives
<1>3. CASE WaitForRendered(cap.linkToken)
  <2>1. ASSUME NEW k \in Retained(host, cap.linkToken), host' = [host EXCEPT !.retained = RemoveAt(@, k)]
        PROVE  OnePlaceEach(host.retained)'
    <3> DEFINE rest == RemoveAt(host.retained, k)
    <3>1. OnePlaceEach(rest)
      BY <1>0, <2>1, RemoveOnce DEF Retained
    <3>2. host' = [host EXCEPT !.retained = rest]
      BY <2>1
    <3> HIDE DEF rest
    <3>3. host'.retained = rest
      BY <1>0, <3>2 DEF Host
    <3> QED
      BY <3>1, <3>3 DEF OnePlaceEach
  <2> QED
    BY <1>1, <1>3, <2>1 DEF WaitForRendered
<1>4. CASE HostRestarts
  <2>1. host'.retained = <<>>
    BY <1>4 DEF HostRestarts, NewHost
  <2> QED
    BY <2>1 DEF OnePlaceEach
<1>5. CASE Mint /\ Navigate(minted')
  <2>1. host'.retained = host.retained
    BY <1>0, <1>5 DEF Navigate, Host
  <2> QED
    BY <1>1, <2>1
<1>6. CASE DeviceConnects \/ HostSeesClose
  <2>1. host'.retained = host.retained
    BY <1>0, <1>6 DEF DeviceConnects, Connection, HostSeesClose, Host
  <2> QED
    BY <1>1, <2>1
<1>7. CASE \/ Mint /\ UNCHANGED <<host, waiter, dev, wire, up, served>>
           \/ PushReload \/ StopWaiting \/ UNCHANGED bridgeVars
  <2>1. UNCHANGED host
    BY <1>7 DEF PushReload, StopWaiting, bridgeVars
  <2> QED
    BY <1>1, <2>1
<1>8. CASE Drives
  <2>1. UNCHANGED host
    BY <1>8 DEF Drives, StartSession, TerminateApp, CloseDevMenu, DeepLink
  <2> QED
    BY <1>1, <2>1
<1>9. CASE DeviceReceives \/ DevicePaints \/ DeviceAcks \/ SocketDrops \/ DeviceTapped \/ CodeEdited
  <2>1. UNCHANGED host
    BY <1>9 DEF DeviceReceives, DevicePaints, DeviceAcks, SocketDrops, DeviceTapped, CodeEdited
  <2> QED
    BY <1>1, <2>1
<1> QED
  BY <1>2, <1>3, <1>4, <1>5, <1>6, <1>7, <1>8, <1>9, BridgeSteps DEF Call, Wire

(* Nothing is ever forgotten by a host whose file has room for every token    *)
(* minted: the claim finds the ack that had come.                             *)
THEOREM RoomForAll ==
    ASSUME MaxTokens <= RetainedAckLimit
    PROVE  Spec => []MeasuredIsRecorded
<1>1. Init => OnePlaceEach(host.retained)
  BY DEF Init, InitBridge, NewHost, OnePlaceEach
<1>2. TypeInv /\ OnePlaceEach(host.retained) => ~Overflows
  <2> SUFFICES ASSUME TypeInv, OnePlaceEach(host.retained), Overflows PROVE FALSE
    OBVIOUS
  <2>1. TypeOK /\ Head(up).ack \in Ack
    <3>1. TypeOK /\ up \in Seq(UpFrame) /\ up # <<>> /\ Head(up).type = "rendered"
      BY DEF TypeInv, CaptureTypeOK, TypeOK, Overflows, HostReceives
    <3> QED
      BY <3>1, HeadTailProperties DEF UpFrame
  <2> DEFINE kept == Filed(host, Head(up).ack)
  <2>2. kept \in Seq(Ack) /\ OnePlaceEach(kept) /\ Len(kept) > RetainedAckLimit
    BY <2>1, FiledOf, FiledOnce DEF Overflows
  <2> HIDE DEF kept
  <2>3. Len(kept) <= MaxTokens /\ Len(kept) \in Nat
    BY <2>2, NoMoreThanTokens
  <2> QED
    BY <2>2, <2>3, BridgeAssumption
<1>3. TypeInv /\ OnePlaceEach(host.retained) /\ [Next]_vars => OnePlaceEach(host.retained)'
  BY OnceStep
<1> QED
  BY <1>1, <1>2, <1>3, TypeInit, TypeStep, MeasurementsAreRecorded, PTL DEF Spec

=============================================================================
