---------------------------- MODULE MCTimeMirror ----------------------------
(***************************************************************************)
(* Instances of TimeMirror for TLC.                                        *)
(***************************************************************************)
EXTENDS TimeMirror

CONSTANTS a, b
=============================================================================
