---------------------------- MODULE MCLiveStream ----------------------------
(* Small instances of the outbox and of the live streams for TLC.             *)
EXTENDS LiveStream, TLC

CONSTANTS u1, u2, p1, p2

(* Event 1 is for u1 alone, the others for both.                              *)
MostForBoth == [e \in Event |-> IF e = 1 THEN {u1} ELSE {u1, u2}]

NoStreams == [u \in Viewer |-> None]
FirstAtP1 == [u \in Viewer |-> p1]
=============================================================================
