---------------------------- MODULE MCSyncControl ----------------------------
(* Two servers, and a wrong address, for TLC.                               *)
EXTENDS SyncControl

CONSTANTS s1, s2

MCServers == {s1, s2}

=============================================================================
