------------------------------ MODULE Presence ------------------------------
(* Whether a node is online and which friends it believes online: GoOnline,  *)
(* limboSequence, waitForResponses and the callbacks of node/node.go, with   *)
(* the part of peer/peer.go that calls them.  Add starts the read loop and   *)
(* calls onConnect after it; Remove takes a connection out of the map and    *)
(* calls onDisconnect outside the lock.  The friends a caller of GoOnline    *)
(* dials have one connection per successful dial; nobody dials them again.   *)
EXTENDS Naturals, Sequences

CONSTANTS Callers,    \* goroutines that call GoOnline
          Buddies,    \* the core table
          Unmapped,
          Attempts,   \* len(retries)
          SignalCap   \* capacity of peerAddedCh

ASSUME PresenceAssumption ==
  Attempts \in Nat \ {0} /\ SignalCap \in Nat /\ Unmapped \notin Nat

VARIABLES nodeState,  \* Node.state
          cancelled,  \* Node.ctx
          at,         \* where each caller, and then its limboSequence, is
          untried,    \* the friends GoOnline has not dialed yet
          attempt,    \* attempts of limboSequence made
          loops,      \* times runOnline was started
          signals,    \* length of peerAddedCh
          openNonces, \* beacons no friend has answered
          mapped,     \* friend -> its connection in Manager.peers
          ties,       \* the connections to friends
          online,     \* CoreFriend.Online
          raced, answered,  \* history: friends whose last callback came too
                            \* late; that an answer marked last
          doubled           \* history: two callers went past the check

asking == <<at, untried, attempt>>
tables == <<mapped, ties>>
marks == <<online, raced, answered>>
presenceVars == <<nodeState, cancelled, asking, loops, signals, openNonces, tables,
                  marks, doubled>>

Waiting == {"delay", "send", "check", "wait", "won", "lost"}
Deciding == {"dial", "connect", "reached"}

Signalled == signals' = IF signals < SignalCap THEN signals + 1 ELSE signals
Goto(c, pc) == at' = [at EXCEPT ![c] = pc]

(* GoOnline *)

\* CheckOffline without the test.
CheckNothing(c) == TRUE

CheckOffline(c) == nodeState = "OFFLINE"

GoOnline(c) ==
  /\ at[c] = "idle"
  /\ Goto(c, IF CheckOffline(c) THEN "dial" ELSE "refused")
  /\ doubled' = (doubled \/ (CheckOffline(c) /\ \E d \in Callers : at[d] \in Deciding))
  /\ UNCHANGED <<nodeState, cancelled, untried, attempt, loops, signals, openNonces,
                 tables, marks>>

\* DialFriend with an answer, up to the entry in the map and the read loop.
DialFriend(c, f) ==
  /\ at[c] = "dial" /\ f \in untried[c] /\ Goto(c, "connect")
  /\ ties' = Append(ties, [friend |-> f, by |-> c, reading |-> TRUE, removed |-> "no"])
  /\ mapped' = [mapped EXCEPT ![f] = Len(ties) + 1]
  /\ UNCHANGED <<nodeState, cancelled, untried, attempt, loops, signals, openNonces,
                 marks, doubled>>

DialFails(c, f) ==
  /\ at[c] = "dial" /\ f \in untried[c] /\ untried' = [untried EXCEPT ![c] = @ \ {f}]
  /\ UNCHANGED <<nodeState, cancelled, at, attempt, loops, signals, openNonces,
                 tables, marks, doubled>>

\* The callback of Add, in the goroutine of the caller.
HandleConnect(c) ==
  /\ at[c] = "connect" /\ Goto(c, "reached") /\ Signalled
  /\ LET l == CHOOSE i \in DOMAIN ties : ties[i].by = c
         f == ties[l].friend
     IN /\ online' = [online EXCEPT ![f] = TRUE]
        /\ raced' = IF mapped[f] = l THEN raced \ {f} ELSE raced \cup {f}
        /\ answered' = answered \ {f}
  /\ UNCHANGED <<nodeState, cancelled, untried, attempt, loops, openNonces, tables, doubled>>

\* setState and go runOnline.
Reached(c) ==
  /\ at[c] = "reached" /\ Goto(c, "ended") /\ nodeState' = "ONLINE" /\ loops' = loops + 1
  /\ UNCHANGED <<cancelled, untried, attempt, signals, openNonces, tables, marks, doubled>>

\* setState and go limboSequence, whose first attempt has no delay.
EnterLimbo(c) ==
  /\ at[c] = "dial" /\ untried[c] = {} /\ Goto(c, "send") /\ nodeState' = "LIMBO"
  /\ UNCHANGED <<cancelled, untried, attempt, loops, signals, openNonces, tables, marks,
                 doubled>>

(* limboSequence *)

Next1(n) == IF n < Attempts THEN "delay" ELSE "lost"

\* The timer, or the end of the context.
Delay(c) ==
  /\ at[c] = "delay"
  /\ Goto(c, "send") \/ (cancelled /\ Goto(c, "lost"))
  /\ UNCHANGED <<nodeState, cancelled, untried, attempt, loops, signals, openNonces, tables,
                 marks, doubled>>

\* A beacon to the public nodes; building it may fail.  The connections to
\* them signal as those to friends do, and DialBootstrap may never return.
SendBeacons(c) ==
  /\ at[c] = "send" /\ attempt' = [attempt EXCEPT ![c] = @ + 1]
  /\ \/ Goto(c, "check") /\ openNonces' = openNonces + 1
     \/ Goto(c, Next1(attempt[c] + 1)) /\ UNCHANGED openNonces
  /\ UNCHANGED <<nodeState, cancelled, untried, loops, signals, tables, marks, doubled>>

SomeOnline == \E f \in Buddies : online[f]

\* waitForResponses: the test before the loop, and those in it.
CheckAtOnce(c) ==
  /\ at[c] = "check" /\ Goto(c, IF SomeOnline THEN "won" ELSE "wait")
  /\ UNCHANGED <<nodeState, cancelled, untried, attempt, loops, signals, openNonces, tables,
                 marks, doubled>>

CheckOnSignal(c) ==
  /\ at[c] = "wait" /\ signals > 0 /\ signals' = signals - 1
  /\ Goto(c, IF SomeOnline THEN "won" ELSE "wait")
  /\ UNCHANGED <<nodeState, cancelled, untried, attempt, loops, openNonces, tables, marks,
                 doubled>>

\* AtDeadline that gives up without looking again.
AtDeadlineBlind(c) == Goto(c, Next1(attempt[c]))

AtDeadline(c) == Goto(c, IF SomeOnline THEN "won" ELSE Next1(attempt[c]))

WaitEnds(c) ==
  /\ at[c] = "wait"
  /\ AtDeadline(c) \/ (cancelled /\ Goto(c, Next1(attempt[c])))
  /\ UNCHANGED <<nodeState, cancelled, untried, attempt, loops, signals, openNonces, tables,
                 marks, doubled>>

LimboWon(c) ==
  /\ at[c] = "won" /\ Goto(c, "ended") /\ nodeState' = "ONLINE" /\ loops' = loops + 1
  /\ UNCHANGED <<cancelled, untried, attempt, signals, openNonces, tables, marks, doubled>>

LimboLost(c) ==
  /\ at[c] = "lost" /\ Goto(c, "ended") /\ nodeState' = "ISOLATED"
  /\ UNCHANGED <<cancelled, untried, attempt, loops, signals, openNonces, tables, marks,
                 doubled>>

(* The other goroutines *)

\* Remove takes out whatever the friend has.
TakeOut(f, still) ==
  /\ ties' = IF mapped[f] = Unmapped THEN still
             ELSE [still EXCEPT ![mapped[f]].removed = "taken"]
  /\ mapped' = [mapped EXCEPT ![f] = Unmapped]

\* The deferred Remove of a read loop, before or after onConnect.
LoopEnds(l) ==
  /\ l \in DOMAIN ties /\ ties[l].reading
  /\ TakeOut(ties[l].friend, [ties EXCEPT ![l].reading = FALSE])
  /\ UNCHANGED <<nodeState, cancelled, asking, loops, signals, openNonces, marks, doubled>>

\* A heartbeat that cannot be written, or BanNode.
RemoveFriend(f) ==
  /\ mapped[f] # Unmapped /\ TakeOut(f, ties)
  /\ UNCHANGED <<nodeState, cancelled, asking, loops, signals, openNonces, marks, doubled>>

\* MarkOffline that marks nobody.
MarkOfflineNot(f) == UNCHANGED online

MarkFriendOffline(f) == online' = [online EXCEPT ![f] = FALSE]

HandleDisconnect(l) ==
  /\ l \in DOMAIN ties /\ ties[l].removed = "taken"
  /\ ties' = [ties EXCEPT ![l].removed = "told"]
  /\ LET f == ties[l].friend IN
     /\ MarkFriendOffline(f)
     /\ raced' = IF mapped[f] = Unmapped THEN raced \ {f} ELSE raced \cup {f}
     /\ answered' = answered \ {f}
  /\ UNCHANGED <<nodeState, cancelled, asking, loops, signals, openNonces, mapped, doubled>>

\* The UDP answer of a friend, which has no connection to it.
HandleResponse(f) ==
  /\ openNonces > 0 /\ openNonces' = openNonces - 1
  /\ online' = [online EXCEPT ![f] = TRUE] /\ answered' = answered \cup {f} /\ Signalled
  /\ UNCHANGED <<nodeState, cancelled, asking, loops, tables, raced, doubled>>

\* handleConnect of anybody else: a public node, a friend that dials this one.
HandleStranger ==
  /\ signals < SignalCap /\ Signalled
  /\ UNCHANGED <<nodeState, cancelled, asking, loops, openNonces, tables, marks, doubled>>

CancelNode ==
  /\ ~cancelled /\ cancelled' = TRUE
  /\ UNCHANGED <<nodeState, asking, loops, signals, openNonces, tables, marks, doubled>>

PresenceInit ==
  /\ nodeState = "OFFLINE" /\ cancelled = FALSE
  /\ at = [c \in Callers |-> "idle"] /\ untried = [c \in Callers |-> Buddies]
  /\ attempt = [c \in Callers |-> 0] /\ loops = 0 /\ signals = 0 /\ openNonces = 0
  /\ mapped = [f \in Buddies |-> Unmapped] /\ ties = <<>>
  /\ online = [f \in Buddies |-> FALSE] /\ raced = {} /\ answered = {} /\ doubled = FALSE

WaitForResponses(c) == CheckAtOnce(c) \/ CheckOnSignal(c) \/ WaitEnds(c)

PresenceNext ==
  \/ \E c \in Callers :
       \/ GoOnline(c) \/ HandleConnect(c) \/ Reached(c) \/ EnterLimbo(c)
       \/ \E f \in untried[c] : DialFriend(c, f) \/ DialFails(c, f)
       \/ Delay(c) \/ SendBeacons(c) \/ WaitForResponses(c) \/ LimboWon(c) \/ LimboLost(c)
  \/ \E l \in DOMAIN ties : LoopEnds(l) \/ HandleDisconnect(l)
  \/ \E f \in Buddies : RemoveFriend(f) \/ HandleResponse(f)
  \/ HandleStranger \/ CancelNode

PresenceSpec == PresenceInit /\ [][PresenceNext]_presenceVars

\* The deadline of waitForResponses is a timer; the dials have none.
PresenceFair == \A c \in Callers : WF_presenceVars(WaitForResponses(c) \/ LimboWon(c))

-----------------------------------------------------------------------------
Settled(f) ==
  \A l \in DOMAIN ties : ties[l].friend = f =>
    ties[l].removed # "taken" /\ at[ties[l].by] # "connect"

(* The mark of a friend agrees with the map when no callback is under way,  *)
(* unless the last one told of the past (a loop that ended before onConnect, *)
(* a Remove whose onDisconnect came after the next connection) or was an    *)
(* answer to a beacon, which marks a friend online without a connection.    *)
MarksMatch ==
  \A f \in Buddies : Settled(f) /\ f \notin raced \cup answered =>
    (online[f] <=> mapped[f] # Unmapped)

(* As long as one caller decides at a time, the state tells what runs: the  *)
(* loops once and exactly when ONLINE, a limbo sequence exactly in LIMBO.   *)
StateTells ==
  ~doubled => /\ loops <= 1 /\ (nodeState = "ONLINE" <=> loops = 1)
              /\ nodeState = "LIMBO" <=> \E c \in Callers : at[c] \in Waiting

(* The marks tell of the connections and the state of the goroutines.      *)
PresenceSound == MarksMatch /\ StateTells

(* A friend that is online while the sequence waits brings the node online, *)
(* also when its signal found peerAddedCh full, unless it goes offline or   *)
(* the node is stopped.                                                     *)
LimboHears ==
  (SomeOnline /\ \E c \in Callers : at[c] \in {"check", "wait"})
    ~> (nodeState = "ONLINE" \/ ~SomeOnline \/ cancelled)
==============================================================================
