------------------------------ MODULE MCStream ------------------------------
(* Instances of the stream for TLC. *)
EXTENDS Stream

MCSamples == 0..MaxFrames
=============================================================================
