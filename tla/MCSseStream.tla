---------------------------- MODULE MCSseStream ----------------------------
(* Small instances of SseStream for TLC. *)
EXTENDS SseStream
=============================================================================
