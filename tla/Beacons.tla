------------------------------- MODULE Beacons -------------------------------
(* The search for friends: a beacon with one slot per friend, which the     *)
(* nodes relay until a target recognises it, and the answers over UDP       *)
(* (beacon/builder.go, beacon/packet.go, handleBeaconFrame,                 *)
(* beaconRelayLoop, handleBeaconResponse and cleanup of node/node.go).      *)
(* Every frame is handled in a goroutine of its own, so frames overtake     *)
(* each other; at 100 of them, and at a full relay queue, they are dropped. *)
EXTENDS Integers, Sequences, FiniteSets, Functions

CONSTANTS Hosts,      \* nodes
          CoreTable,  \* CoreTable[n]: the friends of n
          Neighbours, \* Neighbours[n]: those n has connections with
          Searching,  \* nodes in limbo: they send beacons and relay none
          HopMax, SlotLimit, RelayCap,
          BeaconTTL,  \* of a tag, of a nonce and of the signature
          Window,     \* how old an answer may be
          LastTick, MaxBeacons  \* bounds

ASSUME BeaconsAssumption ==
  /\ CoreTable \in [Hosts -> SUBSET Hosts] /\ Neighbours \in [Hosts -> SUBSET Hosts]
  /\ Searching \subseteq Hosts /\ \A n \in Hosts : n \notin CoreTable[n]
  /\ {HopMax, SlotLimit, RelayCap, BeaconTTL, Window, LastTick, MaxBeacons} \subseteq Nat

VARIABLES beacons,  \* those sent: sender, time, slots; the index is tag and nonce
          beaconFrames,  \* beacon frames on their way
          seen,     \* seenBeaconTags: tag -> time it expires
          relayCh,  \* beaconRelayCh
          nonces,   \* pendingNonces: nonce -> time it expires
          answers,  \* UDP answers, which may arrive late, twice or never
          marked,   \* friends marked online by an answer
          clock,
          relayed, accepted  \* history

beaconsVars == <<beacons, beaconFrames, seen, relayCh, nonces, answers, marked, clock,
                 relayed, accepted>>

Orders(S) == {p \in [1..Cardinality(S) -> S] : IsInjective(p)}
Plus(f, x, until) == [y \in DOMAIN f \cup {x} |-> IF y = x THEN until ELSE f[y]]
Less(f, x) == [y \in DOMAIN f \ {x} |-> f[y]]
Unexpired(f) == [x \in {y \in DOMAIN f : clock <= f[y]} |-> f[x]]

\* Build and the first frame, to the public nodes.  Targets come from a map:
\* their order is another one in every beacon.
SendBeacon(n, slots) ==
  /\ n \in Searching /\ Len(beacons) < MaxBeacons /\ slots \in Orders(CoreTable[n])
  /\ LET tag == Len(beacons) + 1 IN
     /\ beacons' = Append(beacons, [sender |-> n, time |-> clock, slots |-> slots])
     /\ nonces' = [nonces EXCEPT ![n] = Plus(@, tag, clock + BeaconTTL)]
     /\ beaconFrames' = beaconFrames \cup {[tag |-> tag, hop |-> 0, at |-> m, from |-> n] :
                                   m \in Neighbours[n]}
  /\ UNCHANGED <<seen, relayCh, answers, marked, clock, relayed, accepted>>

\* A slot opens for the friend it was made for, if it is one of the first.
Slotted(n, b) == \E i \in 1..Len(b.slots) : i <= SlotLimit /\ b.slots[i] = n

\* Verify of the signature of a friend.
InTime(b) == clock - b.time <= BeaconTTL

\* Answering without Verify, for a beacon of any age.
AnswersLate(n, b) == Slotted(n, b) /\ b.sender \in CoreTable[n]

Answers(n, b) == Slotted(n, b) /\ b.sender \in CoreTable[n] /\ InTime(b)
Matches(n, b) == Slotted(n, b) /\ (b.sender \in CoreTable[n] => InTime(b))

\* Remembered without the tags.
RememberedNot(n, tag) == FALSE

Remembered(n, tag) == tag \in DOMAIN seen[n]

HandleBeaconFrame(f) ==
  LET n == f.at
      b == beacons[f.tag]
  IN /\ f \in beaconFrames /\ beaconFrames' = beaconFrames \ {f}
     /\ IF f.hop > HopMax \/ Remembered(n, f.tag)
        THEN UNCHANGED <<seen, relayCh, answers, relayed>>
        ELSE /\ seen' = [seen EXCEPT ![n] = Plus(@, f.tag, clock + BeaconTTL)]
             /\ answers' = IF Answers(n, b)
                           THEN answers \cup {[tag |-> f.tag, by |-> n, time |-> clock]}
                           ELSE answers
             /\ IF /\ ~Matches(n, b) /\ f.hop + 1 <= HopMax
                   /\ Len(relayCh[n]) < RelayCap
                THEN /\ relayCh' = [relayCh EXCEPT ![n] =
                          Append(@, [tag |-> f.tag, hop |-> f.hop + 1, except |-> f.from])]
                     /\ relayed' = relayed \cup {[node |-> n, tag |-> f.tag, time |-> clock]}
                ELSE UNCHANGED <<relayCh, relayed>>
     /\ UNCHANGED <<beacons, nonces, marked, clock, accepted>>

\* The limit of frameWorkers, or a connection that ends.
LoseFrame(f) ==
  /\ f \in beaconFrames /\ beaconFrames' = beaconFrames \ {f}
  /\ UNCHANGED <<beacons, seen, relayCh, nonces, answers, marked, clock, relayed, accepted>>

\* One round of beaconRelayLoop, which runs once the node is online.
Relay(n) ==
  /\ n \notin Searching /\ relayCh[n] # <<>>
  /\ LET t == Head(relayCh[n]) IN
     beaconFrames' = beaconFrames \cup {[tag |-> t.tag, hop |-> t.hop, at |-> m, from |-> n] :
                                m \in Neighbours[n] \ {t.except}}
  /\ relayCh' = [relayCh EXCEPT ![n] = Tail(@)]
  /\ UNCHANGED <<beacons, seen, nonces, answers, marked, clock, relayed, accepted>>

\* cleanup, of a loop that runs once the node is online.
Cleanup(n) ==
  /\ n \notin Searching /\ Unexpired(seen[n]) # seen[n]
  /\ seen' = [seen EXCEPT ![n] = Unexpired(@)] /\ nonces' = [nonces EXCEPT ![n] = Unexpired(@)]
  /\ UNCHANGED <<beacons, beaconFrames, relayCh, answers, marked, clock, relayed, accepted>>

\* UseNonce that keeps it for the next friend.
KeepNonce(n, tag) == UNCHANGED nonces

UseNonce(n, tag) == nonces' = [nonces EXCEPT ![n] = Less(@, tag)]

\* handleBeaconResponse: the nonce is used up before the time is checked.
HandleBeaconResponse(a) ==
  LET n == beacons[a.tag].sender IN
  /\ a \in answers /\ a.by \in CoreTable[n] /\ a.tag \in DOMAIN nonces[n]
  /\ UseNonce(n, a.tag)
  /\ IF clock - a.time <= Window
     THEN /\ marked' = [marked EXCEPT ![n] = @ \cup {a.by}]
          /\ accepted' = accepted \cup {[tag |-> a.tag, by |-> a.by]}
     ELSE UNCHANGED <<marked, accepted>>
  /\ UNCHANGED <<beacons, beaconFrames, seen, relayCh, answers, clock, relayed>>

\* handleDisconnect of another connection of the friend.
MarkOffline(n, f) ==
  /\ f \in marked[n] /\ marked' = [marked EXCEPT ![n] = @ \ {f}]
  /\ UNCHANGED <<beacons, beaconFrames, seen, relayCh, nonces, answers, clock, relayed, accepted>>

Pass ==
  /\ clock < LastTick /\ clock' = clock + 1
  /\ UNCHANGED <<beacons, beaconFrames, seen, relayCh, nonces, answers, marked, relayed, accepted>>

BeaconsInit ==
  /\ beacons = <<>> /\ beaconFrames = {} /\ answers = {} /\ clock = 0
  /\ seen = [n \in Hosts |-> <<>>] /\ nonces = [n \in Hosts |-> <<>>]
  /\ relayCh = [n \in Hosts |-> <<>>] /\ marked = [n \in Hosts |-> {}]
  /\ relayed = {} /\ accepted = {}

BeaconsNext ==
  \/ \E n \in Searching : \E slots \in Orders(CoreTable[n]) : SendBeacon(n, slots)
  \/ \E f \in beaconFrames : HandleBeaconFrame(f) \/ LoseFrame(f)
  \/ \E n \in Hosts : Relay(n) \/ Cleanup(n)
  \/ \E a \in answers : HandleBeaconResponse(a)
  \/ \E n \in Hosts : \E f \in marked[n] : MarkOffline(n, f)
  \/ Pass

BeaconsSpec == BeaconsInit /\ [][BeaconsNext]_beaconsVars

-----------------------------------------------------------------------------
(* A friend answers a beacon once, though frames of it keep coming by other *)
(* ways and the tag is forgotten: by then the signature is too old.         *)
AnsweredOnce ==
  \A a, b \in answers : a.tag = b.tag /\ a.by = b.by => a.time = b.time

(* One answer to a beacon is accepted, of whatever friend: late, repeated   *)
(* or further answers never mark anybody online, nor a friend that has gone *)
(* offline since.                                                           *)
AcceptedOnce ==
  /\ \A a, b \in accepted : a.tag = b.tag => a = b
  /\ \A n \in Hosts : \A f \in marked[n] :
       \E a \in accepted : a.by = f /\ beacons[a.tag].sender = n

(* A node relays a beacon once in its lifetime, over any cycle of           *)
(* connections, and not beyond the last hop.                                *)
RelayedOnce ==
  /\ \A r, s \in relayed :
       r.node = s.node /\ r.tag = s.tag /\ r.time < s.time => s.time - r.time > BeaconTTL
  /\ \A f \in beaconFrames : f.hop <= HopMax

BeaconsSound == AnsweredOnce /\ AcceptedOnce /\ RelayedOnce
==============================================================================
