-------------------------------- MODULE Peer --------------------------------
(* The direct connections of a node: the Manager of peer/peer.go with the   *)
(* callbacks of node/node.go, and the encrypted frames of frame/frame.go    *)
(* that the goroutines of the remote node write to them.  A connection is   *)
(* added when a handshake is over, also when the node has one with the same *)
(* chain ID: every anonymous caller has the chain ID of the zero key.       *)
(*                                                                         *)
(* WriteEncryptedFrame takes its nonce under a lock and then writes length, *)
(* nonce and ciphertext with three calls of Write and without the lock.     *)
EXTENDS Integers, Sequences

CONSTANTS Conns,     \* connections, each used once
          IDs,       \* chain IDs
          Writers,   \* goroutines of the remote nodes that write frames
          Busy,      \* the connections they write to
          None,
          MaxFrames  \* bound: frames written to a connection

ASSUME PeerAssumption ==
  /\ Busy \subseteq Conns
  /\ None \notin Conns /\ None \notin IDs /\ MaxFrames \in Nat
  /\ None \notin [conn : Conns, nonce : Nat, piece : Nat]

Pieces == 3  \* calls of Write for one frame

VARIABLES peers,    \* Manager.peers
          owner,    \* Info.ChainID, None before Add
          loop,     \* where readLoop is: "none" before Add, "answer" in a pong
          fate,     \* how far Remove is with a connection it took out
          shutdown, \* "cancelled" once the context is, "collected" after All
          toClose,  \* the connections Shutdown closes
          closed,   \* connections this node has closed
          stream,   \* pieces written and not read yet
          sendNonce, lastNonce,  \* of SessionKeys; lastNonce -1: hasRecv unset
          writer,   \* where each writer is
          delivered, refused, overlapped, replaced  \* history

manager == <<peers, owner, fate, replaced>>
stopping == <<shutdown, toClose>>
remote == <<sendNonce, writer, overlapped>>
reader == <<lastNonce, delivered, refused>>
peerVars == <<manager, loop, stopping, closed, stream, remote, reader>>

PeerInit ==
  /\ peers = [d \in IDs |-> None] /\ owner = [c \in Conns |-> None]
  /\ loop = [c \in Conns |-> "none"]
  /\ fate = [c \in Conns |-> "kept"]
  /\ shutdown = "no" /\ toClose = {}
  /\ closed = {} /\ stream = [c \in Conns |-> <<>>]
  /\ sendNonce = [c \in Conns |-> 0] /\ lastNonce = [c \in Conns |-> -1]
  /\ writer = [w \in Writers |-> None]
  /\ delivered = [c \in Conns |-> <<>>]
  /\ refused = {} /\ overlapped = {} /\ replaced = {}

(* The manager *)

Add(c, d) ==
  /\ owner[c] = None
  /\ owner' = [owner EXCEPT ![c] = d] /\ peers' = [peers EXCEPT ![d] = c]
  /\ loop' = [loop EXCEPT ![c] = "check"]
  /\ replaced' = replaced \cup ({peers[d]} \ {None})
  /\ UNCHANGED <<fate, stopping, closed, stream, remote, reader>>

\* Remove when it forgets to delete the entry.
TakeKeeping(d) ==
  /\ fate' = IF peers[d] = None THEN fate ELSE [fate EXCEPT ![peers[d]] = "taken"]
  /\ UNCHANGED peers
\* Remove when it deletes the entry only.
TakeUnclosed(d) == peers' = [peers EXCEPT ![d] = None] /\ UNCHANGED fate

\* The critical section of Remove.
Take(d) ==
  /\ peers' = [peers EXCEPT ![d] = None]
  /\ fate' = IF peers[d] = None THEN fate ELSE [fate EXCEPT ![peers[d]] = "taken"]

\* BanNode, the budget, a failed heartbeat, a false identity.
Remove(d) ==
  /\ peers[d] # None /\ Take(d)
  /\ UNCHANGED <<owner, replaced, loop, stopping, closed, stream,
                 remote, reader>>

CloseTaken(c) ==
  /\ fate[c] = "taken" /\ fate' = [fate EXCEPT ![c] = "closed"]
  /\ closed' = closed \cup {c}
  /\ UNCHANGED <<peers, owner, replaced, loop, stopping, stream, remote, reader>>

Cancel ==
  /\ shutdown = "no" /\ shutdown' = "cancelled"
  /\ UNCHANGED <<manager, loop, toClose, closed, stream, remote, reader>>

\* Shutdown copies the map once, after it has cancelled the context, and
\* closes one connection after another.  It writes a close frame first, with
\* no deadline: nothing says that it gets past a peer that does not read.
CollectPeers ==
  /\ shutdown = "cancelled" /\ shutdown' = "collected"
  /\ toClose' = {peers[d] : d \in IDs} \ {None}
  /\ UNCHANGED <<manager, loop, closed, stream, remote, reader>>

CloseCollected(c) ==
  /\ c \in toClose \ closed /\ closed' = closed \cup {c}
  /\ UNCHANGED <<manager, loop, stopping, stream, remote, reader>>

(* The remote writers *)

\* TakeNonce without the increment.
TakeNonceAgain(c) == UNCHANGED sendNonce

TakeNonce(c) == sendNonce' = [sendNonce EXCEPT ![c] = @ + 1]

WriteEncryptedFrame(w, c) ==
  /\ owner[c] # None /\ writer[w] = None /\ sendNonce[c] < MaxFrames
  /\ writer' = [writer EXCEPT ![w] = [conn |-> c, nonce |-> sendNonce[c], piece |-> 1]]
  /\ TakeNonce(c)
  /\ overlapped' = IF \E v \in Writers : writer[v] # None /\ writer[v].conn = c
                   THEN overlapped \cup {c} ELSE overlapped
  /\ UNCHANGED <<manager, loop, stopping, closed, stream, reader>>

AfterPiece(f) == IF f.piece = Pieces THEN None ELSE [f EXCEPT !.piece = @ + 1]

\* Somebody will read the bytes; else they are lost, or the call fails.
Heard(c) == c \notin closed /\ loop[c] \in {"check", "read", "answer"}

Write(w) ==
  /\ writer[w] # None
  /\ LET f == writer[w] IN
     \/ /\ Heard(f.conn)
        /\ stream' = [stream EXCEPT ![f.conn] =
             Append(@, [nonce |-> f.nonce, piece |-> f.piece])]
        /\ writer' = [writer EXCEPT ![w] = AfterPiece(f)]
     \/ /\ ~Heard(f.conn)
        /\ writer' = [writer EXCEPT ![w] = None] /\ UNCHANGED stream
  /\ UNCHANGED <<manager, loop, stopping, closed, reader, sendNonce, overlapped>>

(* readLoop *)

CheckContext(c) ==
  /\ loop[c] = "check"
  /\ loop' = [loop EXCEPT ![c] = IF shutdown = "no" THEN "read" ELSE "remove"]
  /\ UNCHANGED <<manager, stopping, closed, stream, remote, reader>>

\* The first bytes are a whole frame: what authentication tells.
Intact(c) ==
  \A i \in 1..Pieces : stream[c][i].piece = i /\ stream[c][i].nonce = stream[c][1].nonce
\* Fresh without the replay check.
FreshAlways(c) == TRUE

Fresh(c) == stream[c][1].nonce > lastNonce[c]

Reading(c) == loop[c] = "read" /\ c \notin closed
Consume(c) ==
  stream' = [stream EXCEPT ![c] = SubSeq(@, Pieces + 1, Len(@))]

\* The frame is for a handler, a ping, or FrameClose.
ReadFrame(c) ==
  /\ Reading(c) /\ Len(stream[c]) >= Pieces /\ Intact(c) /\ Fresh(c)
  /\ Consume(c) /\ lastNonce' = [lastNonce EXCEPT ![c] = stream[c][1].nonce]
  /\ \/ /\ delivered' = [delivered EXCEPT ![c] = Append(@, stream[c][1].nonce)]
        /\ loop' = [loop EXCEPT ![c] = "check"]
     \/ /\ loop' = [loop EXCEPT ![c] = "answer"] /\ UNCHANGED delivered
     \/ /\ loop' = [loop EXCEPT ![c] = "remove"] /\ UNCHANGED delivered
  /\ UNCHANGED <<manager, stopping, closed, remote, refused>>

\* The pong is written, or the write fails: it has no deadline, so while the
\* connection is open the peer decides whether it ends.
AnswerPing(c) ==
  /\ loop[c] = "answer" /\ loop' = [loop EXCEPT ![c] = "check"]
  /\ UNCHANGED <<manager, stopping, closed, stream, remote, reader>>

RefuseFrame(c) ==
  /\ Reading(c) /\ Len(stream[c]) >= Pieces /\ ~(Intact(c) /\ Fresh(c))
  /\ Consume(c) /\ loop' = [loop EXCEPT ![c] = "remove"]
  /\ refused' = refused \cup {c}
  /\ UNCHANGED <<manager, stopping, closed, remote, lastNonce, delivered>>

\* TimeOut of a loop that sets no read deadline.
ReadForever(c) ==
  /\ loop[c] = "read" /\ c \in closed
  /\ loop' = [loop EXCEPT ![c] = "remove"]
  /\ UNCHANGED <<manager, stopping, closed, stream, remote, reader>>

\* The read deadline of 60 seconds, and the end of a closed connection.
TimeOut(c) ==
  /\ loop[c] = "read" /\ (c \in closed \/ Len(stream[c]) < Pieces)
  /\ loop' = [loop EXCEPT ![c] = "remove"]
  /\ UNCHANGED <<manager, stopping, closed, stream, remote, reader>>

\* The deferred Remove takes out whatever has the chain ID now.
EndLoop(c) ==
  /\ loop[c] = "remove" /\ loop' = [loop EXCEPT ![c] = "ended"]
  /\ Take(owner[c]) /\ stream' = [stream EXCEPT ![c] = <<>>]
  /\ UNCHANGED <<owner, replaced, stopping, closed, remote, reader>>

ReadLoop(c) ==
  CheckContext(c) \/ ReadFrame(c) \/ RefuseFrame(c) \/ TimeOut(c) \/ EndLoop(c)

\* The peer reads nothing: a pong that is being written stays so.
Stuck(c) == loop[c] = "answer" /\ c \notin closed

PeerNext ==
  \/ \E c \in Conns : \/ \E d \in IDs : Add(c, d)
                      \/ CloseTaken(c) \/ CloseCollected(c)
                      \/ ReadLoop(c) \/ AnswerPing(c)
  \/ \E d \in IDs : Remove(d)
  \/ Cancel \/ CollectPeers
  \/ \E w \in Writers : Write(w) \/ \E c \in Busy : WriteEncryptedFrame(w, c)

PeerSpec == PeerInit /\ [][PeerNext]_peerVars
\* Read loops go on: what they wait for has a deadline, but for the pong.
PeerFair == \A c \in Conns : /\ WF_peerVars(ReadLoop(c))
                             /\ WF_peerVars(AnswerPing(c) /\ ~Stuck(c))
PeerFairSpec == PeerSpec /\ PeerFair

-----------------------------------------------------------------------------

Piece == [nonce : 0..(MaxFrames - 1), piece : 1..Pieces]

PeerTypeOK ==
  /\ peers \in [IDs -> Conns \cup {None}] /\ owner \in [Conns -> IDs \cup {None}]
  /\ loop \in [Conns -> {"none", "check", "read", "answer", "remove", "ended"}]
  /\ fate \in [Conns -> {"kept", "taken", "closed"}]
  /\ shutdown \in {"no", "cancelled", "collected"} /\ toClose \subseteq Conns
  /\ closed \subseteq Conns
  /\ stream \in [Conns -> Seq(Piece)]
  /\ sendNonce \in [Conns -> 0..MaxFrames]
  /\ lastNonce \in [Conns -> -1..(MaxFrames - 1)]
  /\ writer \in [Writers -> {None} \cup
                [conn : Conns, nonce : 0..(MaxFrames - 1), piece : 1..Pieces]]
  /\ delivered \in [Conns -> Seq(0..(MaxFrames - 1))]
  /\ refused \subseteq Conns /\ overlapped \subseteq Conns /\ replaced \subseteq Conns

(* Count and All never show a dead peer for good: a connection in the map  *)
(* has a read loop that has not made its deferred Remove, and nobody else  *)
(* has taken the connection out.                                           *)
ListedHasLoop ==
  \A d \in IDs : LET c == peers[d] IN
    c # None => /\ owner[c] = d /\ fate[c] = "kept"
                /\ loop[c] \in {"check", "read", "answer", "remove"}

(* "Remove removes and closes the connection": when the loop of a          *)
(* connection has ended, somebody closes the connection, unless another    *)
(* one of the same chain ID has replaced it.                               *)
EndedIsTaken ==
  \A c \in Conns : loop[c] = "ended" /\ c \notin replaced => fate[c] # "kept"

(* The replay check of ReadEncryptedFrame: whatever the writers' goroutines*)
(* do to each other, a handler sees no frame twice and none after a later. *)
DeliveredInOrder ==
  \A c \in Conns : \A i, j \in DOMAIN delivered[c] :
    i < j => delivered[c][i] < delivered[c][j]

(* WriteEncryptedFrame is called "safe for several goroutines".  It is safe*)
(* for one at a time: no frame is refused before two have overlapped.      *)
SoleWriterSafe == refused \subseteq overlapped

(* What ends a connection is told to everybody: the map shows no dead peer *)
(* for good, and whoever ends a connection closes it, with the exception   *)
(* that EndedIsTaken names.                                                *)
ConnectionsKept == ListedHasLoop /\ EndedIsTaken

(* The frames of a connection under writers that share its nonces.         *)
FramesInOrder == DeliveredInOrder /\ SoleWriterSafe

(* After Shutdown every read loop returns, also one added meanwhile and    *)
(* one whose connection another has replaced in the map, unless it hangs   *)
(* in a pong that the peer does not read and nobody has closed the         *)
(* connection: as loops do not begin again, at some time none is left.     *)
LoopsStop ==
  (shutdown # "no") ~> \A c \in Conns : loop[c] \in {"none", "ended"} \/ Stuck(c)
=============================================================================
