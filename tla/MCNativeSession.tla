--------------------------- MODULE MCNativeSession ---------------------------
(* Instances of NativeSession for TLC: what calls ask for. *)
EXTENDS NativeSession

Ask(tool, platform, device, reload) ==
    [tool |-> tool, platform |-> platform, device |-> device, reload |-> reload]

MCRuns == [d \in Devices |-> IF d = "i1" THEN "ios" ELSE "android"]

\* A verify and a reloading browse, and a browse that names a device of the
\* other platform.
Mixed == {Ask("verify", "android", NoDevice, FALSE), Ask("browse", "android", NoDevice, TRUE),
          Ask("browse", "ios", "a1", FALSE)}
\* Both platforms, turn and turn about.
Switching == {Ask("browse", "ios", NoDevice, FALSE), Ask("verify", "android", NoDevice, FALSE)}
OneBrowse == {Ask("browse", "android", NoDevice, FALSE)}
=============================================================================
