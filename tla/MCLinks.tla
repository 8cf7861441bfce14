------------------------------- MODULE MCLinks -------------------------------
(* A node and its network: the handshakes, the connections, the ratchet     *)
(* sessions, the search for friends, who is online, and the onion routes.   *)
(* The parts share no variable, each being the whole of what it is about     *)
(* with the rest of the node as its environment; a behaviour picks one.     *)
EXTENDS Peer, Ratchet, Handshake, Beacons, Presence, Onion

VARIABLE part

linksVars == <<peerVars, ratchetVars, handshakeVars, beaconsVars, presenceVars, onionVars>>

(* b is a friend of a and of c, which has forgotten b.  Calls for b reach   *)
(* whoever has the address.                                                *)
FriendsOf == [n \in Nodes |-> IF n = "a" THEN {"b"} ELSE IF n = "b" THEN {"a", "c"} ELSE {}]

MeantCalls ==
  {[from |-> f, to |-> "b", addr |-> x, role |-> r] :
     f \in {"a", "c"}, x \in {"b", "c"}, r \in {"public", "padding"}} \cup
  {[from |-> "a", to |-> "b", addr |-> x, role |-> "friend"] : x \in Nodes} \cup
  {[from |-> "b", to |-> t, addr |-> x, role |-> "friend"] :
     t \in {"a", "c"}, x \in {"a", "c"}}

(* s searches for f and g through r; r, q and f are on a cycle.             *)
CoreOf ==
  [n \in Hosts |-> IF n = "s" THEN {"f", "g"} ELSE IF n \in {"f", "g"} THEN {"s"} ELSE {}]
NeighboursOf ==
  [n \in Hosts |-> CASE n = "s" -> {"r"} [] n = "r" -> {"f", "q", "g"}
                     [] n = "q" -> {"r", "f"} [] n = "f" -> {"r", "q"} [] OTHER -> {"r"}]

(* j and x share an address, not the port, and i is connected with both.    *)
LinkedTo ==
  [n \in Stations |-> CASE n = "s" -> {"h", "i", "j", "x"} [] n = "h" -> {"s", "i", "x"}
                        [] n = "i" -> {"s", "h", "j", "x"} [] n = "j" -> {"s", "i"}
                        [] OTHER -> {"s", "h", "i"}]
AddressOf == [n \in Stations |-> IF n = "x" THEN "j" ELSE n]
PortOf == [n \in Stations |-> IF n = "x" THEN 2 ELSE 1]
HopsOf == [c \in {"dark", "bunker"} |-> IF c = "dark" THEN 2 ELSE 3]

Init ==
  /\ part \in {"peer", "ratchet", "handshake", "beacons", "presence", "onion"}
  /\ PeerInit /\ RatchetInit /\ HandshakeInit /\ BeaconsInit /\ PresenceInit /\ OnionInit

Next ==
  /\ UNCHANGED part
  /\ \/ /\ part = "peer" /\ PeerNext
        /\ UNCHANGED <<ratchetVars, handshakeVars, beaconsVars, presenceVars, onionVars>>
     \/ /\ part = "ratchet" /\ RatchetNext
        /\ UNCHANGED <<peerVars, handshakeVars, beaconsVars, presenceVars, onionVars>>
     \/ /\ part = "handshake" /\ HandshakeNext
        /\ UNCHANGED <<peerVars, ratchetVars, beaconsVars, presenceVars, onionVars>>
     \/ /\ part = "beacons" /\ BeaconsNext
        /\ UNCHANGED <<peerVars, ratchetVars, handshakeVars, presenceVars, onionVars>>
     \/ /\ part = "presence" /\ PresenceNext
        /\ UNCHANGED <<peerVars, ratchetVars, handshakeVars, beaconsVars, onionVars>>
     \/ /\ part = "onion" /\ OnionNext
        /\ UNCHANGED <<peerVars, ratchetVars, handshakeVars, beaconsVars, presenceVars>>

Spec == Init /\ [][Next]_<<part, linksVars>>
FairSpec == Spec /\ PeerFair /\ PresenceFair

-----------------------------------------------------------------------------
(* Every read loop ends after Shutdown, and a waiting node hears of a       *)
(* friend that is online.                                                  *)
LinksProgress == LoopsStop /\ LimboHears
=============================================================================
