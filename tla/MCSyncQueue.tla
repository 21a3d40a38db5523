---------------------------- MODULE MCSyncQueue ----------------------------
(* A small instance of SyncQueue: two sync processes, two envelopes.       *)
EXTENDS SyncQueue

CONSTANTS s1, s2

MCSyncers == {s1, s2}
=============================================================================
