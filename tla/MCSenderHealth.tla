---------------------------- MODULE MCSenderHealth ----------------------------
(* The settings' defaults in ticks of ten seconds: an interval of 30,       *)
(* timeouts of 10 for connecting and 10 for reading, thresholds of 60 and   *)
(* 180 seconds, clocks ten seconds behind and ahead.  A probe searches for  *)
(* three titles and three controls, 3.6 seconds at most: one tick.          *)
EXTENDS SenderHealth

SomeSkews == {-1, 1}

=============================================================================
