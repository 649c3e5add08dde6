---------------------------- MODULE MCChronicle ----------------------------
(* Two transactions, two refreshers, one frontend.                          *)
EXTENDS ChronicleFeed
=============================================================================
