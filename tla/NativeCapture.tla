----------------------------- MODULE NativeCapture -----------------------------
(***************************************************************************)
(* One open of a target on the device: coldOpenLadder.  The ladder prefers *)
(* the bridge (an in-place reload when the running bundle is stale, a warm *)
(* re-target, a cold boot), then the deep link, then a cold boot with the  *)
(* deep link, and ends in confirmed, failed or unconfirmed.                *)
(*                                                                         *)
(* Every await of the ladder is a step: the device, its socket, the user   *)
(* who edits code and a reload nobody asked for come in between, and every *)
(* wait may end by its timer.                                              *)
(***************************************************************************)
EXTENDS NativeBridge

CONSTANT Unsteady  \* TRUE: sockets drop, kills fail, control links do nothing

ASSUME CaptureAssumption == Unsteady \in BOOLEAN

VARIABLE cap  \* the open in progress, or the last one's result

vars == <<host, waiter, dev, link, sockets, down, up, served, minted, cap>>

Rung == {"idle", "hello", "reload", "redial", "kill", "warm", "bridge", "drive",
         "ack", "paint", "look", "boot", "dial", "link", "mark", "adopt",
         "adopting", "cold", "coldlink", "dismiss", "coldmark", "done"}
Status == {"none", "confirmed", "failed", "unconfirmed"}

Capture == [at : Rung, expected : Version, force : BOOLEAN, skip : BOOLEAN,
            linkToken : Maybe(Token), token : Maybe(Token), epoch : 0 .. MaxSockets,
            back : Rung, tapped : BOOLEAN, status : Status,
            evidence : Ack \cup {NoAck},
            bundle : Maybe(Version),  \* on screen when the status was decided
            heard : BOOLEAN,          \* an ack of linkToken reached the host
            relinked : BOOLEAN,       \* the deep link was given up and is sent again
            steady : BOOLEAN]         \* nothing went wrong since the guard knew

CaptureTypeOK == TypeOK /\ cap \in Capture

NoCapture == [at |-> "idle", expected |-> 1, force |-> FALSE, skip |-> FALSE,
              linkToken |-> None, token |-> None, epoch |-> 0, back |-> "idle",
              tapped |-> FALSE, status |-> "none", evidence |-> NoAck,
              bundle |-> None, heard |-> FALSE, relinked |-> FALSE, steady |-> FALSE]

Init == InitBridge /\ cap = NoCapture

At(rung) == cap.at = rung
Goto(rung) == cap' = [cap EXCEPT !.at = rung]

Shows(token) == dev.marker = token /\ ~dev.menu

Ends(status, token, evidence) ==
    cap' = [NoCapture EXCEPT !.at = "done", !.status = status, !.token = token,
                             !.evidence = evidence, !.bundle = dev.bundle,
                             !.expected = cap.expected, !.relinked = cap.relinked,
                             !.steady = cap.steady]

-----------------------------------------------------------------------------
(* The stale-bundle guard *)

\* prepareNative's content hash is that of the code Metro serves now.
Begin(force) ==
    /\ At("idle") \/ At("done")
    /\ Mint
    /\ cap' = [NoCapture EXCEPT !.at = "hello", !.expected = served,
                                !.force = force, !.linkToken = minted']
    /\ UNCHANGED <<host, waiter, dev, wire, up, served>>

\* Mutated form: what the companion announced is not compared.
StaleUnchecked == FALSE

ReportsStaleBundle == host.hello # NoHello /\ host.hello.bundle # cap.expected

\* After the hello wait: an identity, no socket, or the polls ran out.
Guard ==
    /\ At("hello")
    /\ LET force == cap.force \/ ReportsStaleBundle IN
       cap' = [cap EXCEPT !.at = IF force THEN "reload" ELSE "warm", !.force = force,
                          !.steady = /\ host.hello # NoHello /\ host.active = link
                                     /\ down = <<>> /\ ~dev.reloading]
    /\ UNCHANGED bridgeVars

-----------------------------------------------------------------------------
(* reloadViaBridge, and the kill it falls back to *)

\* Only a companion that said hello is known to understand a reload.
Reload ==
    /\ At("reload")
    /\ IF host.hello # NoHello
       THEN PushReload /\ cap' = [cap EXCEPT !.at = "redial", !.epoch = host.epoch]
       ELSE Goto("kill") /\ UNCHANGED bridgeVars

\* Mutated form: being connected is taken for having reloaded.
RedialWhileConnected ==
    /\ At("redial")
    /\ cap' = [cap EXCEPT !.at = IF Connected THEN "drive" ELSE "kill", !.back = "kill"]
    /\ UNCHANGED bridgeVars

\* A newer connection, or the timer.
Redial ==
    /\ At("redial")
    /\ \/ /\ host.epoch > cap.epoch
          /\ cap' = [cap EXCEPT !.at = "drive", !.back = "kill", !.epoch = 0]
       \/ cap' = [cap EXCEPT !.at = "kill", !.epoch = 0]
    /\ UNCHANGED bridgeVars

Kill ==
    /\ At("kill")
    /\ \/ TerminateApp /\ Goto("warm")
       \/ /\ Unsteady
          /\ cap' = [cap EXCEPT !.at = "warm", !.steady = FALSE]
          /\ UNCHANGED bridgeVars

-----------------------------------------------------------------------------
(* openViaBridge *)

\* A warm session, or its caller's skipPreload, pins the rest of the open to
\* the running bundle; a forced reload overrides both.
Warm ==
    /\ At("warm")
    /\ \E pinned \in BOOLEAN :
         cap' = [cap EXCEPT !.at = "bridge",
                            !.skip = ~cap.force /\ (pinned \/ Connected)]
    /\ UNCHANGED bridgeVars

Bridge ==
    /\ At("bridge")
    /\ LET next == IF cap.skip THEN "link" ELSE "boot" IN
       cap' = IF ~cap.force /\ Connected
              THEN [cap EXCEPT !.at = "drive", !.back = next]
              ELSE [cap EXCEPT !.at = next, !.force = FALSE]
    /\ UNCHANGED bridgeVars

\* A control link that answers and does nothing is not steady either.
ControlLink(rung) ==
    \/ StartSession /\ Goto(rung)
    \/ /\ Unsteady
       /\ cap' = [cap EXCEPT !.at = rung, !.steady = FALSE]
       /\ UNCHANGED bridgeVars

Boot == At("boot") /\ ControlLink("dial")

\* A device that is attached is asked to close its dev menu before the drive.
Dial ==
    /\ At("dial")
    /\ \/ /\ Connected
          /\ cap' = [cap EXCEPT !.at = "drive", !.back = "link"]
          /\ IF host.active = link THEN CloseDevMenu ELSE UNCHANGED bridgeVars
       \/ Goto("link") /\ UNCHANGED bridgeVars

FallBack == cap' = [cap EXCEPT !.at = cap.back, !.back = "idle", !.token = None]

\* navigateForResult
Drive ==
    /\ At("drive")
    /\ \/ /\ Mint
          /\ Navigate(minted')
          /\ cap' = [cap EXCEPT !.at = "ack", !.token = minted']
       \/ /\ ~Connected \/ minted = MaxTokens
          /\ FallBack
          /\ UNCHANGED bridgeVars

\* An ack, or its timer; {ok:false} is the device's verdict.
DriveAcked ==
    /\ At("ack")
    /\ StopWaiting
    /\ \/ /\ waiter.ack # NoAck
          /\ IF waiter.ack.ok
             THEN cap' = [cap EXCEPT !.at = "paint", !.back = "idle", !.evidence = waiter.ack]
             ELSE Ends("failed", cap.token, waiter.ack)
       \/ waiter.ack = NoAck /\ FallBack

\* paintConfirmed: the marker, or one more look if a menu covered it.  A driver
\* that fails to look is no evidence of a blank screen: the ack's word is kept.
Paint ==
    /\ At("paint")
    /\ \/ /\ Shows(cap.token) \/ Unsteady
          /\ Ends("confirmed", cap.token, cap.evidence)
          /\ UNCHANGED bridgeVars
       \/ /\ ~Shows(cap.token)
          /\ ~dev.menu \/ Unsteady
          /\ Ends("unconfirmed", cap.token, cap.evidence)
          /\ UNCHANGED bridgeVars
       \/ ~Shows(cap.token) /\ dev.menu /\ CloseDevMenu /\ Goto("look")

LookAgain ==
    /\ At("look")
    /\ \/ (Shows(cap.token) \/ Unsteady) /\ Ends("confirmed", cap.token, cap.evidence)
       \/ ~Shows(cap.token) /\ Ends("unconfirmed", cap.token, cap.evidence)
    /\ UNCHANGED bridgeVars

-----------------------------------------------------------------------------
(* The deep link *)

\* A link that cannot be opened is passed over; after a cold boot it is an error.
Throws == Unsteady /\ cap' = NoCapture /\ UNCHANGED bridgeVars

OpenTarget ==
    /\ At("link")
    /\ Goto("mark")
    /\ DeepLink(cap.linkToken) \/ (Unsteady /\ UNCHANGED bridgeVars)

Settles == Ends("unconfirmed", cap.linkToken, NoAck)

\* deviceOnDevLauncherHome: only an app without a bundle can be on the launcher;
\* one that is not running is not on it either.
Mark ==
    /\ At("mark")
    /\ \/ Shows(cap.linkToken) /\ Goto("adopt")
       \/ ~Shows(cap.linkToken) /\ cap.skip /\ Settles
       \/ /\ ~Shows(cap.linkToken)
          /\ cap.skip => dev.bundle = None
          /\ cap' = [cap EXCEPT !.at = "cold", !.skip = FALSE, !.relinked = TRUE]
    /\ UNCHANGED bridgeVars

Cold == At("cold") /\ (ControlLink("coldlink") \/ Throws)

OpenTargetCold ==
    /\ At("coldlink")
    /\ \/ DeepLink(cap.linkToken) /\ Goto("dismiss")
       \/ IF cap.tapped THEN Unsteady /\ Settles /\ UNCHANGED bridgeVars ELSE Throws

\* dismissAll
Dismiss == At("dismiss") /\ CloseDevMenu /\ Goto("coldmark")

\* If the launcher is still up its server row, when there is one, is tapped.
ColdMark ==
    /\ At("coldmark")
    /\ \/ Shows(cap.linkToken) /\ Goto("adopt") /\ UNCHANGED bridgeVars
       \/ ~Shows(cap.linkToken) /\ Settles /\ UNCHANGED bridgeVars
       \/ /\ dev.bundle = None
          /\ ~cap.tapped
          /\ cap' = [cap EXCEPT !.at = "coldlink", !.tapped = TRUE]
          /\ StartSession \/ UNCHANGED bridgeVars

\* adoptDeviceAckForMarker: observations only, never the status.
Adopt ==
    /\ At("adopt")
    /\ IF Connected /\ host.hello # NoHello
       THEN WaitForRendered(cap.linkToken) /\ Goto("adopting")
       ELSE Ends("confirmed", cap.linkToken, NoAck) /\ UNCHANGED bridgeVars

Adopted ==
    /\ At("adopting")
    /\ Ends("confirmed", cap.linkToken, waiter.ack)
    /\ StopWaiting

-----------------------------------------------------------------------------

Climb == \/ Guard \/ Reload \/ Redial \/ Kill
         \/ Warm \/ Bridge \/ Boot \/ Dial \/ Drive \/ DriveAcked \/ Paint \/ LookAgain
         \/ OpenTarget \/ Mark \/ Cold \/ OpenTargetCold \/ Dismiss \/ ColdMark \/ Adopt \/ Adopted

\* The host's bookkeeping of acks, with the open's own view of what came.
Receive ==
    /\ HostReceives
    /\ LET f == Head(up) IN
       cap' = IF f.type = "rendered" /\ f.ack.token = cap.linkToken /\ cap.at # "done"
              THEN [cap EXCEPT !.heard = TRUE] ELSE cap

World == \/ (DeviceSteps \/ HostSeesClose \/ DeviceTapped \/ CodeEdited) /\ UNCHANGED cap
         \/ Receive
         \/ Unsteady /\ SocketDrops /\ cap' = [cap EXCEPT !.steady = FALSE]
         \/ Unsteady /\ HostRestarts /\ cap' = NoCapture

Next == World \/ Climb \/ \E force \in BOOLEAN : Begin(force)

Spec == Init /\ [][Next]_vars

-----------------------------------------------------------------------------
(* Properties *)

Confirmed == At("done") /\ cap.status = "confirmed"

\* A confirmed render is of the code the open was prepared for.
ConfirmedOnFreshBundle == Confirmed => cap.bundle >= cap.expected

\* So it is when the guard knew the companion and, from there on, no socket
\* dropped by itself and the kill and the control link did what they say.
FreshOnASteadyWire == cap.steady => ConfirmedOnFreshBundle

\* What is recorded beside a confirmed picture was measured on that picture: a
\* positive ack of the confirmed navigation, from the bundle on screen.
EvidenceOfThePicture ==
    cap.evidence # NoAck =>
       /\ cap.evidence.ok
       /\ cap.evidence.token = cap.token
       /\ cap.evidence.bundle = cap.bundle

\* So it is on a steady wire, unless a cold boot made the ladder send its deep
\* link again: the ack of the first delivery is still on file under the same
\* token, and the second picture gets it.
EvidenceOnASteadyWire ==
    Confirmed /\ cap.steady /\ ~cap.relinked => EvidenceOfThePicture

\* The code's own words: the marker proved the paint, the ack carries what the
\* device measured while painting it.
MeasuredWhilePainting == Confirmed /\ cap.steady => EvidenceOfThePicture

\* The measurement of a deep-linked render is in hand when the result is made,
\* if it reached the host at all: before the wait for it, or during it.
MeasuredIsRecorded == At("adopting") /\ cap.heard => waiter.ack # NoAck

=============================================================================
