-------------------------- MODULE MCStreamDemuxer --------------------------
(* The demuxer for TLC; its constant is a bound alone.                     *)
EXTENDS StreamDemuxer
=============================================================================
