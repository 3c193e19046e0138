--------------------------- MODULE MCNativeCapture ---------------------------
(* The instance of NativeCapture for TLC: all its bounds are numbers. *)
EXTENDS NativeCapture
=============================================================================
