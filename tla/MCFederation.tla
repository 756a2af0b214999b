---------------------------- MODULE MCFederation ----------------------------
(***************************************************************************)
(* Instances of Federation for TLC.  Hubs a and b are each other's peer;   *)
(* the peer hub c names does not know it.  Message m1 is sent to b, in the *)
(* first moment of the first epoch, m2 in its last moment, with the same   *)
(* first bit of its hash, and m3 in the epoch after that, to a, in another *)
(* group.                                                                  *)
(***************************************************************************)
EXTENDS Federation

CONSTANTS a, b, c, g1, g2, m1, m2, m3

MCPeers == [h \in Hubs |-> IF h = a THEN {b} ELSE {a}]

MCHosts == [h \in Hubs |-> IF h = c THEN {} ELSE Groups]

MCGroupOf == [m \in Messages |-> IF m = m3 THEN g2 ELSE g1]

MCTime ==
    [m \in Messages |->
        CASE m = m1 -> 0
          [] m = m2 -> EpochLength - 1
          [] m = m3 -> EpochLength]

MCSentTo == [m \in Messages |-> IF m = m3 THEN {a} ELSE {b}]

(* Hashes that begin with 00, 01 and 10. *)
MCPrefix ==
    [m \in Messages |->
        CASE m = m1 -> [k \in 0 .. Depth |-> 0]
          [] m = m2 -> [k \in 0 .. Depth |-> IF k = 2 THEN 1 ELSE 0]
          [] m = m3 -> [k \in 0 .. Depth |-> k]]

ASSUME TreeAssumption == NodesAreSets
=============================================================================
