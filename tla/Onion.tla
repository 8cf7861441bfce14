-------------------------------- MODULE Onion --------------------------------
(* Messages over the anonymous channels: the switch of anon/switch.go, which *)
(* SendAnonMessage reads, the paths and layers of onion/, and                *)
(* handleRouteFrame, by which a node takes off its layer and looks for the   *)
(* next hop among its own connections, by address.  A layer is the key it is *)
(* made for and, inside, where to go next.                                   *)
EXTENDS Integers, Sequences, FiniteSets, Functions

CONSTANTS Stations,
          Talker,     \* the node with the switch
          Trusted,    \* its core table
          Linked,     \* Linked[n]: the peers n is connected with
          Address,    \* Address[n], by which a hop is found: several nodes may
          Port,       \* share one, with different ports
          Lengths,    \* hops in the dark and in the bunker
          Offset,     \* added to the counter for a bunker identity
          MaxSwitches, MaxMessages  \* bounds

Channels == {"clear", "dark", "bunker"}
Erased == 0

ASSUME OnionAssumption ==
  /\ Talker \in Stations /\ Trusted \subseteq Stations \ {Talker}
  /\ Linked \in [Stations -> SUBSET Stations] /\ DOMAIN Address = Stations /\ DOMAIN Port = Stations
  /\ Lengths \in [{"dark", "bunker"} -> Nat \ {0}]
  /\ {Offset, MaxSwitches, MaxMessages} \subseteq Nat

VARIABLES channel, anonCounter, anonID, bunkerID,  \* anon.State
          assumed,   \* history: the identities taken, in order
          asked,     \* per message: the channel SendAnonMessage has read
          paths,     \* per message: its hops, <<>> when it went directly
          packets,   \* onion packets on their way
          handled,   \* history: nodes that took off a layer, per message
          arrived    \* history: where a message was delivered, in order

switchVars == <<channel, anonCounter, anonID, bunkerID, assumed>>
trafficVars == <<asked, paths, packets, handled, arrived>>
onionVars == <<switchVars, trafficVars>>

(* SwitchTo, under its mutex *)

\* To clear: the identity of the other channel stays.
EnterClear ==
  channel # "clear" /\ channel' = "clear" /\ UNCHANGED <<anonCounter, anonID, bunkerID, assumed>>

EnterDark ==
  /\ channel # "dark" /\ channel' = "dark" /\ anonCounter' = anonCounter + 1
  /\ anonID' = anonCounter' /\ assumed' = Append(assumed, anonID')
  /\ bunkerID' = IF channel = "bunker" THEN Erased ELSE bunkerID

\* EnterBunker that relies on the offset and does not count.
EnterBunkerUncounted ==
  /\ channel # "bunker" /\ channel' = "bunker" /\ UNCHANGED anonCounter
  /\ bunkerID' = anonCounter + Offset /\ assumed' = Append(assumed, bunkerID')
  /\ anonID' = IF channel = "dark" THEN Erased ELSE anonID

EnterBunker ==
  /\ channel # "bunker" /\ channel' = "bunker" /\ anonCounter' = anonCounter + 1
  /\ bunkerID' = anonCounter' + Offset /\ assumed' = Append(assumed, bunkerID')
  /\ anonID' = IF channel = "dark" THEN Erased ELSE anonID

SwitchTo ==
  /\ Len(assumed) < MaxSwitches
  /\ EnterClear \/ EnterDark \/ EnterBunker
  /\ UNCHANGED trafficVars

CurrentIdentity ==
  CASE channel = "dark" -> anonID [] channel = "bunker" -> bunkerID [] OTHER -> -1

(* SendAnonMessage *)

\* It reads the channel and lets go of the lock.
Ask ==
  /\ Len(asked) < MaxMessages /\ asked' = Append(asked, channel)
  /\ paths' = Append(paths, <<>>) /\ arrived' = Append(arrived, <<>>)
  /\ handled' = Append(handled, <<>>)
  /\ UNCHANGED <<switchVars, packets>>

CoreHops == Trusted \cap Linked[Talker]

\* SelectSecurePath with hops drawn twice.
SelectAnyPath(length) == [1..length -> CoreHops]

Endpoint(n) == <<Address[n], Port[n]>>

\* SelectSecurePath: no hop twice, no address twice with the same port.
SelectSecurePath(length) ==
  {p \in [1..length -> CoreHops] : IsInjective([i \in 1..length |-> Endpoint(p[i])])}

\* It gives up for want of hops, or when it drew an endpoint twice ten times.
SelectFails(length) ==
  \/ Cardinality(CoreHops) < length
  \/ \E a, b \in CoreHops : a # b /\ Endpoint(a) = Endpoint(b)

Layer(p, i) == [key |-> p[i], next |-> IF i = Len(p) THEN <<>> ELSE <<Address[p[i + 1]]>>]
Layers(p) == [i \in 1..Len(p) |-> Layer(p, i)]

Unsent == {m \in DOMAIN asked : paths[m] = <<>> /\ arrived[m] = <<>>}

\* sendOnionRouted.
SendOnion(m) ==
  /\ m \in Unsent /\ asked[m] # "clear"
  /\ \E p \in SelectSecurePath(Lengths[asked[m]]) :
       /\ paths' = [paths EXCEPT ![m] = p]
       /\ packets' = packets \cup {[msg |-> m, at |-> p[1], layers |-> Layers(p)]}
  /\ UNCHANGED <<switchVars, asked, handled, arrived>>

\* SendMessage: in the clear channel, and when no path is to be had.
SendDirect(m) ==
  /\ m \in Unsent
  /\ asked[m] # "clear" => SelectFails(Lengths[asked[m]])
  /\ arrived' = [arrived EXCEPT ![m] = <<"direct">>]
  /\ UNCHANGED <<switchVars, asked, paths, packets, handled>>

(* handleRouteFrame *)

\* UnwrapOne that takes any layer for its own.
UnwrapAny(n, layer) == TRUE

UnwrapOne(n, layer) == layer.key = n

\* A packet for somebody else, or with nowhere to go, is dropped.
HandleRouteFrame(k) ==
  LET n == k.at
      first == k.layers[1]
      nexts == {q \in Linked[n] : first.next = <<Address[q]>>}
      rest == packets \ {k}
  IN /\ k \in packets
     /\ handled' = IF UnwrapOne(n, first)
                   THEN [handled EXCEPT ![k.msg] = Append(@, n)] ELSE handled
     /\ IF UnwrapOne(n, first) /\ first.next = <<>>
        THEN arrived' = [arrived EXCEPT ![k.msg] = Append(@, n)] ELSE UNCHANGED arrived
     /\ IF UnwrapOne(n, first) /\ Len(k.layers) > 1 /\ nexts # {}
        THEN \E q \in nexts :
               packets' = rest \cup {[msg |-> k.msg, at |-> q, layers |-> Tail(k.layers)]}
        ELSE packets' = rest
     /\ UNCHANGED <<switchVars, asked, paths>>

\* A connection that ends, or the limit of frameWorkers.
LosePacket(k) ==
  /\ k \in packets /\ packets' = packets \ {k}
  /\ UNCHANGED <<switchVars, asked, paths, handled, arrived>>

OnionInit ==
  /\ channel = "clear" /\ anonCounter = 0 /\ anonID = Erased /\ bunkerID = Erased
  /\ assumed = <<>> /\ asked = <<>> /\ paths = <<>> /\ packets = {}
  /\ handled = <<>> /\ arrived = <<>>

OnionNext ==
  \/ SwitchTo \/ Ask
  \/ \E m \in DOMAIN asked : SendOnion(m) \/ SendDirect(m)
  \/ \E k \in packets : HandleRouteFrame(k) \/ LosePacket(k)

OnionSpec == OnionInit /\ [][OnionNext]_onionVars

-----------------------------------------------------------------------------
(* A layer is taken off by the hop it was made for, in the order of the     *)
(* path and by no node twice; the message is delivered at most once, and     *)
(* only at the last hop: a node with the address of a hop gets it nowhere.  *)
HopsInOrder ==
  \A m \in DOMAIN asked : paths[m] # <<>> =>
    /\ handled[m] = SubSeq(paths[m], 1, Len(handled[m])) /\ IsInjective(handled[m])
    /\ arrived[m] = IF handled[m] = paths[m] THEN <<paths[m][Len(paths[m])]>> ELSE <<>>
    /\ Len(paths[m]) = Lengths[asked[m]]

(* No two sessions have the same identity, and the one in use is never an   *)
(* erased one, while the counter has not reached the offset.  The offset is *)
(* there "to avoid collisions"; beyond it they begin.                       *)
IdentitiesFresh ==
  /\ anonCounter <= Offset => IsInjective(assumed)
  /\ CurrentIdentity # Erased

(* OnionSound: what the switch and the routing promise together.            *)
OnionSound == HopsInOrder /\ IdentitiesFresh
==============================================================================
