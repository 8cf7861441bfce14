---------------------------- MODULE Links_proofs ----------------------------
(***************************************************************************)
(* What holds of a node and its network for every value of the constants:  *)
(* of the connections and their frames, of the handshakes, of the search   *)
(* for friends, of who is believed online, of the onion routes and of the  *)
(* sessions of the ratchet.                                                *)
(***************************************************************************)
EXTENDS Peer, Ratchet, Handshake, Beacons, Presence, Onion, TLAPS, SequenceTheorems

InWork == [conn : Conns, nonce : 0..(MaxFrames - 1), piece : 1..Pieces]

(* A connection that was never added is as it was at the start.            *)
Untouched ==
  \A c \in Conns : owner[c] = None =>
    /\ fate[c] = "kept" /\ loop[c] = "none"
    /\ stream[c] = <<>> /\ sendNonce[c] = 0 /\ lastNonce[c] = -1
    /\ \A w \in Writers : writer[w] # None => writer[w].conn # c

(* An added connection is in the map, or was taken out, or replaced.       *)
Traced ==
  \A c \in Conns : owner[c] # None /\ c \notin replaced =>
    peers[owner[c]] = c \/ fate[c] # "kept"

-----------------------------------------------------------------------------
LEMMA InitType == PeerInit => PeerTypeOK
  BY PeerAssumption DEF PeerInit, PeerTypeOK, Piece, Pieces

LEMMA TakeType ==
  ASSUME PeerTypeOK, NEW d \in IDs, Take(d)
  PROVE  /\ peers' \in [IDs -> Conns \cup {None}]
         /\ fate' \in [Conns -> {"kept", "taken", "closed"}]
  BY DEF PeerTypeOK, Take

LEMMA TypeStep == ASSUME PeerTypeOK, Untouched, [PeerNext]_peerVars PROVE PeerTypeOK'
<1> USE DEF PeerTypeOK, manager, stopping, remote, reader
<1>1. ASSUME NEW c \in Conns, NEW d \in IDs, Add(c, d) PROVE PeerTypeOK'
  BY <1>1 DEF Add
<1>2. ASSUME NEW c \in Conns, CloseTaken(c) PROVE PeerTypeOK'
  BY <1>2 DEF CloseTaken
<1>3. ASSUME NEW c \in Conns, CloseCollected(c) PROVE PeerTypeOK'
  BY <1>3 DEF CloseCollected
<1>4. ASSUME NEW c \in Conns, CheckContext(c) PROVE PeerTypeOK'
  BY <1>4 DEF CheckContext
<1>5. ASSUME NEW c \in Conns, Len(stream[c]) >= Pieces, Consume(c)
      PROVE  /\ stream' \in [Conns -> Seq(Piece)]
             /\ stream[c][1].nonce \in 0..(MaxFrames - 1)
  <2>1. stream[c] \in Seq(Piece) OBVIOUS
  <2>2. SubSeq(stream[c], Pieces + 1, Len(stream[c])) \in Seq(Piece)
    BY <2>1 DEF Pieces
  <2>3. stream[c][1] \in Piece BY <1>5, <2>1 DEF Pieces
  <2>4. QED BY <1>5, <2>2, <2>3 DEF Consume, Piece
<1>6. ASSUME NEW c \in Conns, ReadFrame(c) PROVE PeerTypeOK'
  <2>1. Len(stream[c]) >= Pieces /\ Consume(c) BY <1>6 DEF ReadFrame
  <2>2. /\ stream' \in [Conns -> Seq(Piece)]
        /\ stream[c][1].nonce \in 0..(MaxFrames - 1)
    BY <2>1, <1>5
  <2>3. Append(delivered[c], stream[c][1].nonce) \in Seq(0..(MaxFrames - 1))
    BY <2>2
  <2>4. delivered' \in [Conns -> Seq(0..(MaxFrames - 1))]
    BY <1>6, <2>3 DEF ReadFrame
  <2>5. lastNonce' \in [Conns -> -1..(MaxFrames - 1)] BY <1>6, <2>2, PeerAssumption DEF ReadFrame
  <2>6. loop' \in [Conns -> {"none", "check", "read", "answer", "remove", "ended"}]
    BY <1>6 DEF ReadFrame
  <2>7. QED BY <1>6, <2>2, <2>4, <2>5, <2>6 DEF ReadFrame
<1>7. ASSUME NEW c \in Conns, AnswerPing(c) PROVE PeerTypeOK'
  BY <1>7 DEF AnswerPing
<1>8. ASSUME NEW c \in Conns, RefuseFrame(c) PROVE PeerTypeOK' BY <1>5, <1>8 DEF RefuseFrame
<1>9. ASSUME NEW c \in Conns, TimeOut(c) PROVE PeerTypeOK'
  BY <1>9 DEF TimeOut
<1>10. ASSUME NEW c \in Conns, EndLoop(c), owner[c] \in IDs PROVE PeerTypeOK'
  <2>1. /\ peers' \in [IDs -> Conns \cup {None}]
        /\ fate' \in [Conns -> {"kept", "taken", "closed"}]
    BY <1>10, TakeType DEF EndLoop
  <2>2. stream' \in [Conns -> Seq(Piece)] BY <1>10 DEF EndLoop
  <2>3. QED BY <1>10, <2>1, <2>2 DEF EndLoop
<1>11. ASSUME NEW d \in IDs, Remove(d) PROVE PeerTypeOK'
  BY <1>11, TakeType DEF Remove
<1>12. ASSUME Cancel PROVE PeerTypeOK' BY <1>12 DEF Cancel
<1>13. ASSUME CollectPeers PROVE PeerTypeOK' BY <1>13 DEF CollectPeers
<1>14. ASSUME NEW w \in Writers, Write(w) PROVE PeerTypeOK'
  <2> DEFINE f == writer[w]
  <2>1. f \in InWork BY <1>14 DEF Write, InWork
  <2>2. AfterPiece(f) \in {None} \cup InWork
    <3>1. f.piece # Pieces => f.piece + 1 \in 1..Pieces BY <2>1 DEF InWork, Pieces
    <3>2. f.piece # Pieces => [f EXCEPT !.piece = @ + 1] \in InWork
      BY <2>1, <3>1 DEF InWork
    <3>3. QED BY <3>2 DEF AfterPiece
  <2>3. writer' \in [Writers -> {None} \cup InWork]
    BY <1>14, <2>2 DEF Write, InWork
  <2>4. [nonce |-> f.nonce, piece |-> f.piece] \in Piece
    BY <2>1 DEF Piece, InWork
  <2>5. Append(stream[f.conn], [nonce |-> f.nonce, piece |-> f.piece]) \in Seq(Piece)
    BY <2>1, <2>4 DEF InWork
  <2>6. stream' \in [Conns -> Seq(Piece)] BY <1>14, <2>5 DEF Write
  <2>7. QED BY <1>14, <2>3, <2>6 DEF Write, InWork
<1>15. ASSUME NEW w \in Writers, NEW c \in Busy, WriteEncryptedFrame(w, c)
       PROVE PeerTypeOK'
  <2>1. c \in Conns BY PeerAssumption
  <2>2. sendNonce[c] \in 0..(MaxFrames - 1)
    BY <1>15, <2>1, PeerAssumption DEF WriteEncryptedFrame
  <2>3. sendNonce' \in [Conns -> 0..MaxFrames]
    BY <1>15, <2>1, <2>2, PeerAssumption DEF WriteEncryptedFrame, TakeNonce
  <2>4. [conn |-> c, nonce |-> sendNonce[c], piece |-> 1] \in InWork
    BY <2>1, <2>2 DEF InWork, Pieces
  <2>5. writer' \in [Writers -> {None} \cup InWork]
    BY <1>15, <2>4 DEF WriteEncryptedFrame, InWork
  <2>6. QED BY <1>15, <2>1, <2>3, <2>5 DEF WriteEncryptedFrame, InWork
<1>16. ASSUME UNCHANGED peerVars PROVE PeerTypeOK' BY <1>16 DEF peerVars
<1>17. ASSUME NEW c \in Conns, EndLoop(c) PROVE owner[c] \in IDs
  BY <1>17 DEF EndLoop, Untouched
<1>18. QED
  BY <1>1, <1>2, <1>3, <1>4, <1>6, <1>8, <1>9, <1>10, <1>11, <1>12, <1>13, <1>14,
     <1>15, <1>16, <1>17, <1>7 DEF PeerNext, ReadLoop

-----------------------------------------------------------------------------
LEMMA InitManager == PeerInit => Untouched /\ Traced /\ ListedHasLoop /\ EndedIsTaken
  BY PeerAssumption DEF PeerInit, Untouched, Traced, ListedHasLoop, EndedIsTaken

(* What is in the map was added, so a step of another connection leaves it.*)
LEMMA TakeSteps ==
  ASSUME PeerTypeOK, Untouched, Traced, ListedHasLoop, NEW d \in IDs, Take(d),
         UNCHANGED <<owner, replaced>>
  PROVE  /\ Traced'
         /\ \A c \in Conns : fate[c] # "kept" => fate'[c] # "kept"
         /\ \A c \in Conns : owner[c] = None => fate'[c] = "kept"
         /\ \A e \in IDs : peers'[e] # None =>
              e # d /\ peers'[e] = peers[e] /\ fate'[peers[e]] = "kept"
<1> USE DEF PeerTypeOK
<1>1. \A c \in Conns : fate'[c] = IF peers[d] = c THEN "taken" ELSE fate[c]
  BY PeerAssumption DEF Take
<1>2. \A e \in IDs : peers'[e] = IF e = d THEN None ELSE peers[e]
  BY DEF Take
<1>3. \A c \in Conns : peers[d] = c => owner[c] = d
  BY PeerAssumption DEF ListedHasLoop
<1>4. \A c \in Conns : fate[c] # "kept" => fate'[c] # "kept" BY <1>1
<1>5. \A c \in Conns : owner[c] = None => fate'[c] = "kept"
  BY <1>1, <1>3, PeerAssumption DEF Untouched
<1>6. Traced'
  <2>1. ASSUME NEW c \in Conns, owner[c] # None, c \notin replaced
        PROVE  peers'[owner[c]] = c \/ fate'[c] # "kept"
    <3>1. owner[c] \in IDs BY <2>1
    <3>2. peers[owner[c]] = c \/ fate[c] # "kept" BY <2>1 DEF Traced
    <3>3. CASE owner[c] = d BY <3>2, <3>3, <1>1
    <3>4. CASE owner[c] # d BY <3>1, <3>2, <3>4, <1>1, <1>2
    <3>5. QED BY <3>3, <3>4
  <2>2. QED BY <2>1 DEF Traced
<1>7. \A e \in IDs : peers'[e] # None =>
        e # d /\ peers'[e] = peers[e] /\ fate'[peers[e]] = "kept"
  BY <1>1, <1>2, <1>3 DEF ListedHasLoop
<1>8. QED BY <1>4, <1>5, <1>6, <1>7

LEMMA UntouchedStep ==
  ASSUME PeerTypeOK, Untouched, Traced, ListedHasLoop, [PeerNext]_peerVars
  PROVE  Untouched'
<1> USE DEF PeerTypeOK, manager, stopping, remote, reader
<1>1. ASSUME NEW c \in Conns, NEW d \in IDs, Add(c, d) PROVE Untouched'
  BY <1>1, PeerAssumption DEF Add, Untouched
<1>2. ASSUME NEW c \in Conns, CloseTaken(c) PROVE Untouched'
  BY <1>2 DEF CloseTaken, Untouched
<1>3. ASSUME NEW c \in Conns, CloseCollected(c) PROVE Untouched'
  BY <1>3 DEF CloseCollected, Untouched
<1>4. ASSUME NEW c \in Conns, CheckContext(c) PROVE Untouched'
  BY <1>4 DEF CheckContext, Untouched
<1>5. ASSUME NEW c \in Conns, ReadFrame(c) PROVE Untouched'
  BY <1>5 DEF ReadFrame, Reading, Consume, Untouched
<1>6. ASSUME NEW c \in Conns, RefuseFrame(c) PROVE Untouched'
  BY <1>6 DEF RefuseFrame, Reading, Consume, Untouched
<1>7. ASSUME NEW c \in Conns, TimeOut(c) PROVE Untouched'
  BY <1>7 DEF TimeOut, Untouched
<1>8. ASSUME NEW c \in Conns, EndLoop(c) PROVE Untouched'
  <2>1. owner[c] \in IDs BY <1>8 DEF EndLoop, Untouched
  <2>2. \A b \in Conns : owner[b] = None => fate'[b] = "kept"
    BY <1>8, <2>1, TakeSteps DEF EndLoop
  <2>3. QED BY <1>8, <2>1, <2>2, PeerAssumption DEF EndLoop, Untouched
<1>9. ASSUME NEW c \in Conns, AnswerPing(c) PROVE Untouched'
  BY <1>9 DEF AnswerPing, Untouched
<1>10. ASSUME NEW d \in IDs, Remove(d) PROVE Untouched'
  <2>1. \A b \in Conns : owner[b] = None => fate'[b] = "kept"
    BY <1>10, TakeSteps DEF Remove
  <2>2. QED BY <1>10, <2>1 DEF Remove, Untouched
<1>11. ASSUME Cancel \/ CollectPeers \/ UNCHANGED peerVars PROVE Untouched'
  BY <1>11 DEF Cancel, CollectPeers, peerVars, Untouched
<1>12. ASSUME NEW w \in Writers, Write(w) PROVE Untouched'
  <2> DEFINE f == writer[w]
  <2>1. f \in InWork BY <1>12 DEF Write, InWork
  <2>2. owner[f.conn] # None BY <1>12, <2>1 DEF Write, InWork, Untouched
  <2>3. AfterPiece(f) # None => AfterPiece(f).conn = f.conn
    BY <2>1 DEF AfterPiece, InWork
  <2>4. \A v \in Writers : writer'[v] # None =>
          writer[v] # None /\ writer'[v].conn = writer[v].conn
    BY <1>12, <2>3 DEF Write
  <2>5. \A b \in Conns : owner[b] = None => stream'[b] = stream[b]
    BY <1>12, <2>1, <2>2 DEF Write, InWork
  <2>6. QED BY <1>12, <2>4, <2>5 DEF Write, Untouched
<1>13. ASSUME NEW w \in Writers, NEW c \in Busy, WriteEncryptedFrame(w, c)
       PROVE Untouched'
  BY <1>13, PeerAssumption DEF WriteEncryptedFrame, TakeNonce, Untouched
<1>14. QED
  BY <1>1, <1>2, <1>3, <1>4, <1>5, <1>6, <1>7, <1>8, <1>10, <1>11, <1>12, <1>13,
     <1>9
  DEF PeerNext, ReadLoop

LEMMA ManagerStep ==
  ASSUME PeerTypeOK, Untouched, Traced, ListedHasLoop, EndedIsTaken, [PeerNext]_peerVars
  PROVE  Traced' /\ ListedHasLoop' /\ EndedIsTaken'
<1> DEFINE Goal == Traced /\ ListedHasLoop /\ EndedIsTaken
<1> USE DEF PeerTypeOK, manager, stopping, remote, reader
<1>1. ASSUME NEW c \in Conns, NEW d \in IDs, Add(c, d) PROVE Goal'
  <2>1. \A e \in IDs : peers[e] # c
    <3>1. ASSUME NEW e \in IDs, peers[e] = c PROVE FALSE BY <1>1, <3>1, PeerAssumption DEF ListedHasLoop, Add
    <3>2. QED BY <3>1
  <2>2. fate[c] = "kept" BY <1>1 DEF Add, Untouched
  <2>3. ListedHasLoop' BY <1>1, <2>1, <2>2, PeerAssumption DEF Add, ListedHasLoop
  <2>4. Traced' BY <1>1, PeerAssumption DEF Add, Traced
  <2>5. EndedIsTaken' BY <1>1 DEF Add, EndedIsTaken
  <2>6. QED BY <2>3, <2>4, <2>5
<1>2. ASSUME NEW c \in Conns, CloseTaken(c) PROVE Goal' BY <1>2 DEF CloseTaken, ListedHasLoop, Traced, EndedIsTaken
\* The steps that move the loop of a connection inside its cycle.
<1>3. ASSUME NEW c \in Conns, UNCHANGED <<peers, owner, fate, replaced>>,
             loop[c] \in {"check", "read", "answer"},
             \E l \in {"check", "read", "answer", "remove"} :
               loop' = [loop EXCEPT ![c] = l]
      PROVE Goal'
  <2>1. ListedHasLoop' BY <1>3 DEF ListedHasLoop
  <2>2. Traced' /\ EndedIsTaken' BY <1>3 DEF Traced, EndedIsTaken
  <2>3. QED BY <2>1, <2>2
<1>4. ASSUME NEW c \in Conns,
             CheckContext(c) \/ ReadFrame(c) \/ RefuseFrame(c) \/ TimeOut(c)
               \/ AnswerPing(c)
      PROVE Goal'
  <2>1. /\ UNCHANGED <<peers, owner, fate, replaced>>
        /\ loop[c] \in {"check", "read", "answer"}
        /\ \E l \in {"check", "read", "answer", "remove"} :
             loop' = [loop EXCEPT ![c] = l]
    BY <1>4 DEF CheckContext, ReadFrame, RefuseFrame, TimeOut, Reading, AnswerPing
  <2>2. QED BY <2>1, <1>3
<1>5. ASSUME NEW c \in Conns, EndLoop(c) PROVE Goal'
  <2>1. owner[c] \in IDs BY <1>5 DEF EndLoop, Untouched
  <2>2. Take(owner[c]) /\ UNCHANGED <<owner, replaced>> BY <1>5 DEF EndLoop
  <2>3. Traced' BY <2>1, <2>2, TakeSteps
  <2>4. /\ \A b \in Conns : fate[b] # "kept" => fate'[b] # "kept"
        /\ \A e \in IDs : peers'[e] # None =>
             e # owner[c] /\ peers'[e] = peers[e] /\ fate'[peers[e]] = "kept"
    BY <2>1, <2>2, TakeSteps
  <2>5. peers'[owner[c]] = None BY <2>1, <2>4
  <2>6. c \notin replaced => fate'[c] # "kept"
    BY <2>1, <2>2, <2>3, <2>5, PeerAssumption DEF Traced
  <2>7. EndedIsTaken' BY <1>5, <2>2, <2>4, <2>6 DEF EndLoop, EndedIsTaken
  <2>8. ListedHasLoop' BY <1>5, <2>2, <2>4 DEF EndLoop, ListedHasLoop
  <2>9. QED BY <2>3, <2>7, <2>8
<1>6. ASSUME NEW d \in IDs, Remove(d) PROVE Goal'
  <2>1. Take(d) /\ UNCHANGED <<owner, replaced, loop>> BY <1>6 DEF Remove
  <2>2. Traced' BY <2>1, TakeSteps
  <2>3. /\ \A b \in Conns : fate[b] # "kept" => fate'[b] # "kept"
        /\ \A e \in IDs : peers'[e] # None =>
             e # d /\ peers'[e] = peers[e] /\ fate'[peers[e]] = "kept"
    BY <2>1, TakeSteps
  <2>4. EndedIsTaken' BY <2>1, <2>3 DEF EndedIsTaken
  <2>5. ListedHasLoop' BY <2>1, <2>3 DEF ListedHasLoop
  <2>6. QED BY <2>2, <2>4, <2>5
<1>7. ASSUME UNCHANGED <<manager, loop>> PROVE Goal'
  <2>1. ListedHasLoop' BY <1>7 DEF ListedHasLoop
  <2>2. Traced' /\ EndedIsTaken' BY <1>7 DEF Traced, EndedIsTaken
  <2>3. QED BY <2>1, <2>2
<1>8. ASSUME NEW c \in Conns, CloseCollected(c) PROVE Goal'
  BY <1>8, <1>7 DEF CloseCollected
<1>9. ASSUME Cancel \/ CollectPeers \/ UNCHANGED peerVars PROVE Goal'
  <2>1. UNCHANGED <<manager, loop>> BY <1>9 DEF Cancel, CollectPeers, peerVars
  <2>2. QED BY <2>1, <1>7
<1>10. ASSUME NEW w \in Writers,
              Write(w) \/ \E c \in Busy : WriteEncryptedFrame(w, c)
       PROVE Goal'
  <2>1. UNCHANGED <<manager, loop>> BY <1>10 DEF Write, WriteEncryptedFrame
  <2>2. QED BY <2>1, <1>7
<1>11. QED
  BY <1>1, <1>2, <1>4, <1>5, <1>6, <1>8, <1>9, <1>10 DEF PeerNext, ReadLoop

-----------------------------------------------------------------------------
(* What a handler got is not later than the last nonce accepted.           *)
Recorded ==
  \A c \in Conns : \A i \in DOMAIN delivered[c] : delivered[c][i] <= lastNonce[c]

(* w is between the nonce and the last piece of a frame for c.             *)
Active(w, c) == writer[w] # None /\ writer[w].conn = c

SoleWriter ==
  \A c \in Conns \ overlapped : \A v, w \in Writers :
    Active(v, c) /\ Active(w, c) => v = w

(* Reader and writers of c agree: what is on the way are the frames after  *)
(* the last one read, and the writer continues with the next piece.        *)
Lockstep(c) ==
  LET n == Len(stream[c]) IN
  /\ \A i \in 1..n :
       stream[c][i] = [nonce |-> lastNonce[c] + 1 + (i - 1) \div 3,
                       piece |-> ((i - 1) % 3) + 1]
  /\ \A w \in Writers : Active(w, c) =>
       /\ writer[w].nonce = lastNonce[c] + 1 + n \div 3
       /\ writer[w].piece = (n % 3) + 1
       /\ sendNonce[c] = writer[w].nonce + 1
  /\ (\A w \in Writers : ~Active(w, c)) =>
       n % 3 = 0 /\ sendNonce[c] = lastNonce[c] + 1 + n \div 3

AllInStep == \A c \in Conns \ overlapped : Heard(c) => Lockstep(c)

Frames == Recorded /\ DeliveredInOrder /\ SoleWriter /\ AllInStep /\ SoleWriterSafe

LEMMA DivMod ==
  ASSUME NEW n \in Nat
  PROVE  /\ n \div 3 \in Nat /\ n % 3 \in 0..2
         /\ n < 3 => n \div 3 = 0 /\ n % 3 = n
         /\ (n + 3) \div 3 = n \div 3 + 1 /\ (n + 3) % 3 = n % 3
         /\ n % 3 = 2 => (n + 1) % 3 = 0 /\ (n + 1) \div 3 = n \div 3 + 1
         /\ n % 3 # 2 => (n + 1) % 3 = (n % 3) + 1 /\ (n + 1) \div 3 = n \div 3
  BY SMT

LEMMA InitFrames == PeerInit => Frames
  BY PeerAssumption DEF PeerInit, Frames, Recorded, DeliveredInOrder, SoleWriter,
     Active, AllInStep, Heard, SoleWriterSafe

(* Steps that touch no frame and at most end connections.                  *)
LEMMA QuietStep ==
  ASSUME Frames,
         UNCHANGED <<stream, lastNonce, sendNonce, writer, overlapped, delivered, refused>>,
         \A c \in Conns : Heard(c)' => Heard(c)
  PROVE  Frames'
<1>1. \A w, c : Active(w, c)' <=> Active(w, c) BY DEF Active
<1>2. SoleWriter' BY <1>1 DEF Frames, SoleWriter
<1>3. ASSUME NEW c \in Conns \ overlapped', Heard(c)' PROVE Lockstep(c)'
  BY <1>1, <1>3 DEF Frames, AllInStep, Lockstep
<1>4. Recorded' /\ DeliveredInOrder' /\ SoleWriterSafe'
  BY DEF Frames, Recorded, DeliveredInOrder, SoleWriterSafe
<1>5. QED BY <1>2, <1>3, <1>4 DEF Frames, AllInStep

(* The other connections, when only c has a step of its writer or reader.  *)
LEMMA OtherConnection ==
  ASSUME NEW c, NEW b \in Conns, b # c, Lockstep(b),
         stream'[b] = stream[b], lastNonce'[b] = lastNonce[b],
         sendNonce'[b] = sendNonce[b],
         \A w \in Writers : Active(w, b)' <=> Active(w, b),
         \A w \in Writers : Active(w, b) => writer'[w] = writer[w]
  PROVE  Lockstep(b)'
  BY DEF Lockstep

LEMMA AddFrames ==
  ASSUME PeerTypeOK, Untouched, Frames, NEW c \in Conns, NEW d \in IDs, Add(c, d)
  PROVE  Frames'
<1> USE DEF PeerTypeOK, manager, stopping, remote, reader
<1>1. UNCHANGED <<stream, lastNonce, sendNonce, writer, overlapped, delivered, refused, closed>>
  BY DEF Add
<1>2. \A w, b : Active(w, b)' <=> Active(w, b) BY <1>1 DEF Active
<1>3. SoleWriter' BY <1>1, <1>2 DEF Frames, SoleWriter
<1>4. Recorded' /\ DeliveredInOrder' /\ SoleWriterSafe'
  BY <1>1 DEF Frames, Recorded, DeliveredInOrder, SoleWriterSafe
<1>5. ASSUME NEW b \in Conns \ overlapped', Heard(b)' PROVE Lockstep(b)'
  <2>1. CASE b = c BY <1>1, <1>2, <2>1 DEF Add, Untouched, Active, Lockstep
  <2>2. CASE b # c BY <1>1, <1>2, <1>5, <2>2 DEF Heard, Add, Frames, AllInStep, Lockstep
  <2>3. QED BY <2>1, <2>2
<1>6. QED BY <1>3, <1>4, <1>5 DEF Frames, AllInStep

(* The numbers of a connection and of the pieces on it.                    *)
LEMMA Numbers ==
  ASSUME PeerTypeOK, NEW c \in Conns
  PROVE  /\ lastNonce[c] \in Int /\ sendNonce[c] \in Nat
         /\ stream[c] \in Seq(Piece) /\ Len(stream[c]) \in Nat
         /\ \A i \in 1..Len(stream[c]) : stream[c][i].nonce \in Int
         /\ delivered[c] \in Seq(0..(MaxFrames - 1))
         /\ \A i \in 1..Len(delivered[c]) : delivered[c][i] \in Int
<1>1. lastNonce[c] \in -1..(MaxFrames - 1) /\ sendNonce[c] \in 0..MaxFrames
  BY DEF PeerTypeOK
<1>2. stream[c] \in Seq(Piece) BY DEF PeerTypeOK
<1>3. \A x \in Piece : x.nonce \in Int BY PeerAssumption DEF Piece
<1>4. \A i \in 1..Len(stream[c]) : stream[c][i] \in Piece BY <1>2
<1>5. delivered[c] \in Seq(0..(MaxFrames - 1)) BY DEF PeerTypeOK
<1>6. \A i \in 1..Len(delivered[c]) : delivered[c][i] \in Int
  BY <1>5, PeerAssumption
<1>7. QED BY <1>1, <1>2, <1>3, <1>4, <1>5, <1>6, PeerAssumption

LEMMA ReadFrameFrames ==
  ASSUME PeerTypeOK, Frames, NEW c \in Conns, ReadFrame(c) PROVE Frames'
<1>1. PICK s : s = stream[c] OBVIOUS
<1>2. s \in Seq(Piece) /\ Len(s) >= 3 BY <1>1, Numbers DEF ReadFrame, Pieces
<1> USE DEF manager, stopping, remote, reader
<1>0. /\ stream \in [Conns -> Seq(Piece)] /\ DOMAIN lastNonce = Conns
      /\ DOMAIN loop = Conns /\ DOMAIN delivered = Conns
  BY DEF PeerTypeOK
<1>3. /\ stream' = [stream EXCEPT ![c] = SubSeq(s, 4, Len(s))]
      /\ lastNonce' = [lastNonce EXCEPT ![c] = s[1].nonce]
      /\ UNCHANGED <<sendNonce, writer, overlapped, refused, closed>>
      /\ loop[c] = "read" /\ c \notin closed
      /\ \A b \in Conns \ {c} : loop'[b] = loop[b]
      /\ s[1].nonce > lastNonce[c]
  BY <1>0, <1>1 DEF ReadFrame, Reading, Fresh, Consume, Pieces
<1>4. \A w, b : Active(w, b)' <=> Active(w, b) BY <1>3 DEF Active
<1>5. SoleWriter' BY <1>3, <1>4 DEF Frames, SoleWriter
<1>6. SoleWriterSafe' BY <1>3 DEF Frames, SoleWriterSafe
<1>7. Recorded' /\ DeliveredInOrder'
  <2>1. lastNonce[c] \in Int /\ s[1].nonce \in Int BY <1>1, <1>2, Numbers
  <2>2. PICK e : e = delivered[c] OBVIOUS
  <2>3. e \in Seq(0..(MaxFrames - 1)) /\ Len(e) \in Nat /\ DOMAIN e = 1..Len(e)
    BY <2>2, Numbers
  <2>4. /\ \A i \in DOMAIN e : e[i] <= lastNonce[c] /\ e[i] \in Int
        /\ \A i, j \in DOMAIN e : i < j => e[i] < e[j]
    BY <2>2, <2>3, Numbers DEF Frames, Recorded, DeliveredInOrder
  <2>5. \/ delivered' = delivered
        \/ delivered' = [delivered EXCEPT ![c] = Append(e, s[1].nonce)]
    BY <1>1, <2>2, <1>0 DEF ReadFrame
  <2> DEFINE g == Append(e, s[1].nonce)
  <2>6. /\ \A i \in DOMAIN e : e[i] <= s[1].nonce
        /\ \A i \in DOMAIN g : g[i] <= s[1].nonce
        /\ \A i, j \in DOMAIN g : i < j => g[i] < g[j]
    <3>1. /\ DOMAIN g = 1..(Len(e) + 1) /\ g[Len(e) + 1] = s[1].nonce
          /\ \A i \in 1..Len(e) : g[i] = e[i]
      BY <2>3, <2>1
    <3>2. \A i \in 1..Len(e) : e[i] < s[1].nonce /\ e[i] \in Int
      BY <2>1, <2>3, <2>4, <1>3
    <3> HIDE DEF g
    <3>3. \A i \in DOMAIN e : e[i] <= s[1].nonce BY <2>1, <2>3, <3>2
    <3>4. ASSUME NEW i \in DOMAIN g PROVE g[i] <= s[1].nonce BY <2>1, <2>3, <3>1, <3>2
    <3>5. ASSUME NEW i \in DOMAIN g, NEW j \in DOMAIN g, i < j PROVE g[i] < g[j]
      BY <2>1, <2>3, <2>4, <3>1, <3>2, <3>5
    <3>6. QED BY <3>3, <3>4, <3>5
  <2>7. ASSUME NEW b \in Conns
        PROVE  /\ \A i \in DOMAIN delivered'[b] : delivered'[b][i] <= lastNonce'[b]
               /\ \A i, j \in DOMAIN delivered'[b] : i < j => delivered'[b][i] < delivered'[b][j]
    <3> HIDE DEF g
    <3>1. CASE b = c BY <1>0, <1>3, <2>2, <2>4, <2>5, <2>6, <3>1 DEF g
    <3>2. CASE b # c BY <1>0, <1>3, <2>5, <3>2 DEF Frames, Recorded, DeliveredInOrder
    <3>3. QED BY <3>1, <3>2
  <2>8. QED BY <2>7 DEF Recorded, DeliveredInOrder
<1>8. ASSUME NEW b \in Conns \ overlapped', Heard(b)' PROVE Lockstep(b)'
  <2>1. Heard(b)
    BY <1>3, <1>8 DEF Heard
  <2>2. Lockstep(b) BY <1>3, <1>8, <2>1 DEF Frames, AllInStep
  <2>3. CASE b # c BY <1>0, <1>3, <1>4, <2>2, <2>3, OtherConnection
  <2>4. CASE b = c
    <3>1. PICK n : n = Len(s) OBVIOUS
    <3>2. n \in Nat /\ n >= 3 BY <1>2, <3>1
    <3>3. PICK t : t = SubSeq(s, 4, n) OBVIOUS
    <3>4. stream'[c] = t BY <1>0, <1>3, <3>1, <3>3
    <3>5. Len(t) = n - 3 /\ \A i \in 1..(n - 3) : t[i] = s[i + 3] BY <1>2, <3>1, <3>2, <3>3, SubSeqProperties
    <3>6. \A i \in 1..n : s[i] = [nonce |-> lastNonce[c] + 1 + (i - 1) \div 3,
                                  piece |-> ((i - 1) % 3) + 1]
      BY <1>1, <2>2, <2>4, <3>1 DEF Lockstep
    <3>7. lastNonce[c] \in Int BY Numbers
    <3>8. lastNonce'[c] = lastNonce[c] + 1
      <4>1. PICK i : i = 1 OBVIOUS
      <4>2. i \in 1..n BY <3>2, <4>1
      <4>3. s[i].nonce = lastNonce[c] + 1 + (i - 1) \div 3
        <5>1. PICK q : q = lastNonce[c] + 1 + (i - 1) \div 3 OBVIOUS
        <5>2. PICK r : r = ((i - 1) % 3) + 1 OBVIOUS
        <5>3. s[i] = [nonce |-> q, piece |-> r] BY <3>6, <4>2, <5>1, <5>2
        <5>4. QED BY <5>1, <5>3
      <4>4. (i - 1) \div 3 = 0 BY <4>1, DivMod
      <4>5. QED BY <1>0, <1>3, <3>7, <4>1, <4>3, <4>4
    <3>9. ASSUME NEW i \in 1..(n - 3)
          PROVE  t[i] = [nonce |-> lastNonce'[c] + 1 + (i - 1) \div 3,
                         piece |-> ((i - 1) % 3) + 1]
      <4>1. /\ (i + 2) \div 3 = (i - 1) \div 3 + 1 /\ (i + 2) % 3 = (i - 1) % 3
            /\ (i - 1) \div 3 \in Nat BY <3>2, DivMod
      <4>2. i + 3 \in 1..n /\ (i + 3) - 1 = i + 2 BY <3>2
      <4>3. t[i] = [nonce |-> lastNonce[c] + 1 + (i + 2) \div 3,
                    piece |-> ((i + 2) % 3) + 1]
        BY <3>5, <3>6, <4>2
      <4>4. lastNonce[c] + 1 + ((i - 1) \div 3 + 1) = lastNonce'[c] + 1 + (i - 1) \div 3
        BY <3>7, <3>8, <4>1
      <4>5. QED BY <4>1, <4>3, <4>4
    <3>10. /\ n \div 3 = (n - 3) \div 3 + 1 /\ n % 3 = (n - 3) % 3
           /\ (n - 3) \div 3 \in Nat BY <3>2, DivMod
    <3>11. lastNonce[c] + 1 + n \div 3 = lastNonce'[c] + 1 + (n - 3) \div 3
      BY <3>7, <3>8, <3>10
    <3>12. ASSUME NEW w \in Writers, Active(w, c)'
           PROVE  /\ writer'[w].nonce = lastNonce'[c] + 1 + (n - 3) \div 3
                  /\ writer'[w].piece = ((n - 3) % 3) + 1
                  /\ sendNonce'[c] = writer'[w].nonce + 1
      BY <1>1, <1>3, <1>4, <2>2, <2>4, <3>1, <3>10, <3>11, <3>12 DEF Lockstep
    <3>13. ASSUME \A w \in Writers : ~Active(w, c)'
           PROVE  /\ (n - 3) % 3 = 0
                  /\ sendNonce'[c] = lastNonce'[c] + 1 + (n - 3) \div 3
      BY <1>1, <1>3, <1>4, <2>2, <2>4, <3>1, <3>10, <3>11, <3>13 DEF Lockstep
    <3>14. QED BY <2>4, <3>4, <3>5, <3>9, <3>12, <3>13 DEF Lockstep
  <2>5. QED BY <2>3, <2>4
<1>9. QED BY <1>5, <1>6, <1>7, <1>8 DEF Frames, AllInStep

LEMMA RefuseFrameFrames ==
  ASSUME PeerTypeOK, Frames, NEW c \in Conns, RefuseFrame(c) PROVE Frames'
<1> USE DEF PeerTypeOK, manager, stopping, remote, reader
<1>1. /\ UNCHANGED <<sendNonce, writer, overlapped, closed, lastNonce, delivered>>
      /\ refused' = refused \cup {c} /\ loop' = [loop EXCEPT ![c] = "remove"]
      /\ \A b \in Conns \ {c} : stream'[b] = stream[b]
      /\ Reading(c) /\ Len(stream[c]) >= 3 /\ ~(Intact(c) /\ Fresh(c))
  BY DEF RefuseFrame, Consume, Pieces
<1>2. ASSUME c \notin overlapped PROVE FALSE
  <2>1. Lockstep(c) BY <1>1, <1>2 DEF Frames, AllInStep, Heard, Reading
  <2>2. Len(stream[c]) \in Nat /\ lastNonce[c] \in Int OBVIOUS
  <2>3. \A i \in 1..3 : i \in 1..Len(stream[c]) BY <1>1, <2>2
  <2>4. \A i \in 1..3 : stream[c][i] = [nonce |-> lastNonce[c] + 1, piece |-> i]
    <3>1. \A i \in 1..Len(stream[c]) :
            stream[c][i] = [nonce |-> lastNonce[c] + 1 + (i - 1) \div 3,
                            piece |-> ((i - 1) % 3) + 1]
      BY <2>1 DEF Lockstep
    <3>2. /\ stream[c][1] = [nonce |-> lastNonce[c] + 1 + 0 \div 3, piece |-> (0 % 3) + 1]
          /\ stream[c][2] = [nonce |-> lastNonce[c] + 1 + 1 \div 3, piece |-> (1 % 3) + 1]
          /\ stream[c][3] = [nonce |-> lastNonce[c] + 1 + 2 \div 3, piece |-> (2 % 3) + 1]
      BY <2>3, <3>1
    <3>3. QED BY <2>2, <3>2
  <2>5. Intact(c) BY <2>4 DEF Intact, Pieces
  <2>6. Fresh(c) BY <2>2, <2>4 DEF Fresh
  <2>7. QED BY <1>1, <2>5, <2>6
<1>3. \A w, b : Active(w, b)' <=> Active(w, b) BY <1>1 DEF Active
<1>4. SoleWriter' BY <1>1, <1>3 DEF Frames, SoleWriter
<1>5. SoleWriterSafe' BY <1>1, <1>2 DEF Frames, SoleWriterSafe
<1>6. Recorded' /\ DeliveredInOrder'
  BY <1>1 DEF Frames, Recorded, DeliveredInOrder
<1>7. ASSUME NEW b \in Conns \ overlapped', Heard(b)' PROVE Lockstep(b)'
  BY <1>1, <1>3, <1>7, OtherConnection DEF Heard, Frames, AllInStep
<1>8. QED BY <1>4, <1>5, <1>6, <1>7 DEF Frames, AllInStep

LEMMA WriteFrames ==
  ASSUME PeerTypeOK, Frames, NEW w \in Writers, Write(w) PROVE Frames'
<1> USE DEF manager, stopping, remote, reader
<1>1. PICK f : f = writer[w] OBVIOUS
<1>2. PICK c : c = f.conn OBVIOUS
<1>3. /\ writer \in [Writers -> {None} \cup InWork]
      /\ stream \in [Conns -> Seq(Piece)]
  BY DEF PeerTypeOK, InWork
<1>4. f # None /\ f \in InWork /\ c \in Conns
  BY <1>1, <1>2, <1>3 DEF Write, InWork
<1>5. UNCHANGED <<sendNonce, lastNonce, overlapped, delivered, refused, closed, loop>>
  BY DEF Write
<1>6. /\ \A v \in Writers : v # w => writer'[v] = writer[v]
      /\ \A b \in Conns : b # c => stream'[b] = stream[b]
      /\ \A b \in Conns : Heard(b)' <=> Heard(b)
  BY <1>1, <1>2, <1>3, <1>5 DEF Write, Heard
<1>7. Recorded' /\ DeliveredInOrder' /\ SoleWriterSafe'
  BY <1>5 DEF Frames, Recorded, DeliveredInOrder, SoleWriterSafe
<1>8. AfterPiece(f) # None => AfterPiece(f).conn = c
  BY <1>2, <1>4 DEF AfterPiece, InWork
<1>9. writer'[w] # None => writer'[w].conn = c
  BY <1>1, <1>3, <1>8 DEF Write
<1>10. Active(w, c) BY <1>1, <1>2, <1>4 DEF Active
<1>11. /\ \A v \in Writers, b \in Conns : Active(v, b)' => Active(v, b)
       /\ \A v \in Writers, b \in Conns : b # c => (Active(v, b)' <=> Active(v, b))
       /\ \A v \in Writers : v # w => (Active(v, c)' <=> Active(v, c))
  BY <1>1, <1>2, <1>6, <1>9, <1>10 DEF Active
<1>12. SoleWriter' BY <1>5, <1>11 DEF Frames, SoleWriter
<1>13. ASSUME NEW b \in Conns \ overlapped', Heard(b)' PROVE Lockstep(b)'
  <2>1. Heard(b) /\ Lockstep(b) BY <1>5, <1>6, <1>13 DEF Frames, AllInStep
  <2>2. CASE b # c
    <3>1. \A v \in Writers : Active(v, b) => v # w
      BY <1>1, <1>2, <2>2 DEF Active
    <3>2. QED BY <1>5, <1>6, <1>11, <2>1, <2>2, <3>1, OtherConnection
  <2>3. CASE b = c
    <3>1. PICK n : n = Len(stream[c]) OBVIOUS
    <3>2. n \in Nat /\ lastNonce[c] \in Int /\ n \div 3 \in Nat /\ n % 3 \in 0..2
      BY <1>4, <3>1, Numbers, DivMod
    <3>3. /\ f.nonce = lastNonce[c] + 1 + n \div 3 /\ f.piece = (n % 3) + 1
          /\ sendNonce[c] = f.nonce + 1
          /\ \A i \in 1..n : stream[c][i] =
               [nonce |-> lastNonce[c] + 1 + (i - 1) \div 3, piece |-> ((i - 1) % 3) + 1]
      BY <1>1, <1>10, <2>1, <2>3, <3>1 DEF Lockstep
    <3>4. PICK s : s = stream'[c] OBVIOUS
    <3>5. /\ s = Append(stream[c], [nonce |-> f.nonce, piece |-> f.piece])
          /\ writer'[w] = AfterPiece(f)
      BY <1>1, <1>2, <1>3, <1>4, <2>1, <2>3, <3>4 DEF Write
    <3>6. /\ Len(s) = n + 1 /\ s[n + 1] = [nonce |-> f.nonce, piece |-> f.piece]
          /\ \A i \in 1..n : s[i] = stream[c][i]
      BY <1>3, <1>4, <3>1, <3>5
    <3>7. ASSUME NEW i \in 1..(n + 1)
          PROVE  s[i] = [nonce |-> lastNonce[c] + 1 + (i - 1) \div 3,
                         piece |-> ((i - 1) % 3) + 1]
      <4>1. CASE i \in 1..n BY <3>3, <3>6, <4>1
      <4>2. CASE i = n + 1 BY <3>2, <3>3, <3>6, <4>2
      <4>3. QED BY <3>2, <4>1, <4>2
    <3>8. \A v \in Writers : Active(v, c)' => v = w
      BY <1>5, <1>10, <1>11, <1>13, <2>3 DEF Frames, SoleWriter
    <3>9. CASE n % 3 = 2
      <4>1. (n + 1) % 3 = 0 /\ (n + 1) \div 3 = n \div 3 + 1 BY <3>2, <3>9, DivMod
      <4>2. writer'[w] = None
        BY <3>2, <3>3, <3>5, <3>9 DEF AfterPiece, Pieces
      <4>3. \A v \in Writers : ~Active(v, c)' BY <3>8, <4>2 DEF Active
      <4>4. sendNonce[c] = lastNonce[c] + 1 + (n + 1) \div 3
        BY <3>2, <3>3, <4>1
      <4>5. QED BY <1>5, <2>3, <3>4, <3>6, <3>7, <4>1, <4>3, <4>4 DEF Lockstep
    <3>10. CASE n % 3 # 2
      <4>1. (n + 1) % 3 = (n % 3) + 1 /\ (n + 1) \div 3 = n \div 3
        BY <3>2, <3>10, DivMod
      <4>2. writer'[w] = [f EXCEPT !.piece = @ + 1]
        BY <3>2, <3>3, <3>5, <3>10 DEF AfterPiece, Pieces
      <4>3. /\ writer'[w] \in [conn : Conns, nonce : Int, piece : Int]
            /\ writer'[w].conn = c /\ writer'[w].nonce = f.nonce
            /\ writer'[w].piece = f.piece + 1
        BY <1>2, <1>4, <4>2, PeerAssumption DEF InWork
      <4>4. writer'[w] # None BY <1>4, <4>2, PeerAssumption DEF InWork
      <4>5. Active(w, c)' BY <4>3, <4>4 DEF Active
      <4>6. /\ writer'[w].nonce = lastNonce[c] + 1 + (n + 1) \div 3
            /\ writer'[w].piece = ((n + 1) % 3) + 1
            /\ sendNonce[c] = writer'[w].nonce + 1
        BY <3>2, <3>3, <4>1, <4>3
      <4>7. QED BY <1>5, <2>3, <3>4, <3>6, <3>7, <3>8, <4>5, <4>6 DEF Lockstep
    <3>11. QED BY <3>9, <3>10
  <2>4. QED BY <2>2, <2>3
<1>14. QED BY <1>7, <1>12, <1>13 DEF Frames, AllInStep

LEMMA BeginFrames ==
  ASSUME PeerTypeOK, Frames, NEW w \in Writers, NEW c \in Conns,
         WriteEncryptedFrame(w, c)
  PROVE  Frames'
<1> USE DEF manager, stopping, remote, reader
<1>1. /\ UNCHANGED <<stream, lastNonce, delivered, refused, closed, loop>>
      /\ writer[w] = None
      /\ writer' = [writer EXCEPT ![w] = [conn |-> c, nonce |-> sendNonce[c], piece |-> 1]]
      /\ sendNonce' = [sendNonce EXCEPT ![c] = @ + 1]
      /\ overlapped' = IF \E v \in Writers : Active(v, c)
                       THEN overlapped \cup {c} ELSE overlapped
  BY DEF WriteEncryptedFrame, TakeNonce, Active
<1>2. DOMAIN writer = Writers /\ DOMAIN sendNonce = Conns BY DEF PeerTypeOK
<1>3. /\ lastNonce[c] \in Int /\ sendNonce[c] \in Nat /\ Len(stream[c]) \in Nat
  BY Numbers
<1>4. PICK f : f = [conn |-> c, nonce |-> sendNonce[c], piece |-> 1] OBVIOUS
<1>5. f # None BY <1>3, <1>4, PeerAssumption
<1>6. writer'[w] = f /\ \A v \in Writers : v # w => writer'[v] = writer[v]
  BY <1>1, <1>2, <1>4
<1>7. /\ Active(w, c)' /\ \A b : ~Active(w, b)
      /\ \A b : b # c => ~Active(w, b)'
      /\ \A v, b : v \in Writers /\ v # w => (Active(v, b)' <=> Active(v, b))
  BY <1>1, <1>4, <1>5, <1>6 DEF Active
<1>8. overlapped \subseteq overlapped' BY <1>1
<1>9. SoleWriter'
  <2>1. ASSUME NEW b \in Conns \ overlapped', NEW u \in Writers, NEW v \in Writers,
               Active(u, b)', Active(v, b)'
        PROVE  u = v
    <3>1. CASE b = c BY <1>1, <1>7, <2>1, <3>1
    <3>2. CASE b # c BY <1>7, <1>8, <2>1, <3>2 DEF Frames, SoleWriter
    <3>3. QED BY <3>1, <3>2
  <2>2. QED BY <2>1 DEF SoleWriter
<1>10. Recorded' /\ DeliveredInOrder' /\ SoleWriterSafe'
  BY <1>1, <1>8 DEF Frames, Recorded, DeliveredInOrder, SoleWriterSafe
<1>11. ASSUME NEW b \in Conns \ overlapped', Heard(b)' PROVE Lockstep(b)'
  <2>1. Heard(b) BY <1>1, <1>11 DEF Heard
  <2>2. Lockstep(b) BY <1>8, <1>11, <2>1 DEF Frames, AllInStep
  <2>3. CASE b # c BY <1>1, <1>2, <1>6, <1>7, <2>2, <2>3, OtherConnection
  <2>4. CASE b = c
    <3>1. PICK n : n = Len(stream[c]) OBVIOUS
    <3>2. \A v \in Writers : ~Active(v, c) BY <1>1, <1>11, <2>4
    <3>3. n % 3 = 0 /\ sendNonce[c] = lastNonce[c] + 1 + n \div 3
      BY <2>2, <2>4, <3>1, <3>2 DEF Lockstep
    <3>4. /\ f.nonce = sendNonce[c] /\ f.piece = (n % 3) + 1
          /\ sendNonce'[c] = f.nonce + 1
      BY <1>1, <1>2, <1>3, <1>4, <3>3
    <3>5. \A v \in Writers : Active(v, c)' => v = w BY <1>7, <3>2
    <3>6. \A v \in Writers : Active(v, c)' =>
            /\ writer'[v].nonce = lastNonce[c] + 1 + n \div 3
            /\ writer'[v].piece = (n % 3) + 1
            /\ sendNonce'[c] = writer'[v].nonce + 1
      BY <1>6, <3>3, <3>4, <3>5
    <3>7. QED BY <1>1, <1>7, <2>2, <2>4, <3>1, <3>6 DEF Lockstep
  <2>5. QED BY <2>3, <2>4
<1>12. QED BY <1>9, <1>10, <1>11 DEF Frames, AllInStep

LEMMA FramesStep ==
  ASSUME PeerTypeOK, Untouched, Frames, [PeerNext]_peerVars PROVE Frames'
<1> USE DEF manager, stopping, remote, reader
<1>1. DOMAIN loop = Conns /\ DOMAIN stream = Conns BY DEF PeerTypeOK
<1>2. ASSUME NEW c \in Conns, NEW d \in IDs, Add(c, d) PROVE Frames'
  BY <1>2, AddFrames
<1>3. ASSUME NEW c \in Conns,
             CloseTaken(c) \/ CloseCollected(c) \/ CheckContext(c) \/ TimeOut(c)
      PROVE Frames' BY <1>1, <1>3, QuietStep DEF CloseTaken, CloseCollected, CheckContext, TimeOut, Heard
<1>4. ASSUME NEW c \in Conns, AnswerPing(c) PROVE Frames'
  BY <1>1, <1>4, QuietStep DEF AnswerPing, Heard
<1>5. ASSUME Cancel \/ CollectPeers \/ (\E d \in IDs : Remove(d)) \/ UNCHANGED peerVars
      PROVE Frames' BY <1>5, QuietStep DEF Cancel, CollectPeers, Remove, peerVars, Heard
<1>6. ASSUME NEW c \in Conns, EndLoop(c) PROVE Frames'
  <2>1. /\ UNCHANGED <<lastNonce, sendNonce, writer, overlapped, delivered, refused, closed>>
        /\ loop' = [loop EXCEPT ![c] = "ended"]
        /\ \A b \in Conns : b # c => stream'[b] = stream[b]
    BY <1>1, <1>6 DEF EndLoop
  <2>2. \A w, b : Active(w, b)' <=> Active(w, b) BY <2>1 DEF Active
  <2>3. SoleWriter' BY <2>1, <2>2 DEF Frames, SoleWriter
  <2>4. Recorded' /\ DeliveredInOrder' /\ SoleWriterSafe'
    BY <2>1 DEF Frames, Recorded, DeliveredInOrder, SoleWriterSafe
  <2>5. ASSUME NEW b \in Conns \ overlapped', Heard(b)' PROVE Lockstep(b)'
    BY <1>1, <2>1, <2>2, <2>5, OtherConnection DEF Heard, Frames, AllInStep
  <2>6. QED BY <2>3, <2>4, <2>5 DEF Frames, AllInStep
<1>7. ASSUME NEW c \in Conns, ReadFrame(c) \/ RefuseFrame(c) PROVE Frames'
  BY <1>7, ReadFrameFrames, RefuseFrameFrames
<1>8. ASSUME NEW w \in Writers, Write(w) PROVE Frames' BY <1>8, WriteFrames
<1>9. ASSUME NEW w \in Writers, NEW c \in Busy, WriteEncryptedFrame(w, c)
      PROVE Frames'
  BY <1>9, BeginFrames, PeerAssumption
<1>10. QED BY <1>2, <1>3, <1>5, <1>6, <1>7, <1>8, <1>9, <1>4 DEF PeerNext, ReadLoop

-----------------------------------------------------------------------------
IInv == /\ PeerTypeOK /\ Untouched /\ Traced /\ ListedHasLoop /\ EndedIsTaken
        /\ Frames

(* The invariant holds in every behaviour of the manager and its frames.   *)
THEOREM Invariant == PeerSpec => []IInv
<1>1. PeerInit => IInv BY InitType, InitManager, InitFrames DEF IInv
<1>2. IInv /\ [PeerNext]_peerVars => IInv'
  BY TypeStep, UntouchedStep, ManagerStep, FramesStep DEF IInv
<1>3. QED BY <1>1, <1>2, PTL DEF PeerSpec

(* The variables keep the shapes the code's types give them.               *)
THEOREM TypeCorrect == PeerSpec => []PeerTypeOK
<1>1. IInv => PeerTypeOK BY DEF IInv
<1>2. QED BY <1>1, Invariant, PTL

(* The map of the manager shows no connection without a read loop.         *)
THEOREM NoDeadPeer == PeerSpec => []ListedHasLoop
<1>1. IInv => ListedHasLoop BY DEF IInv
<1>2. QED BY <1>1, Invariant, PTL

(* A connection whose loop ended is closed unless it was replaced.         *)
THEOREM EndedIsClosed == PeerSpec => []EndedIsTaken
<1>1. IInv => EndedIsTaken BY DEF IInv
<1>2. QED BY <1>1, Invariant, PTL

(* Handlers get the frames of a connection once and in order, however many *)
(* writers tear each other's frames.                                       *)
THEOREM NoReplay == PeerSpec => []DeliveredInOrder
<1>1. IInv => DeliveredInOrder BY DEF IInv, Frames
<1>2. QED BY <1>1, Invariant, PTL

(* One writer at a time never makes the reader refuse a frame.             *)
THEOREM SoleWriterIsSafe == PeerSpec => []SoleWriterSafe
<1>1. IInv => SoleWriterSafe BY DEF IInv, Frames
<1>2. QED BY <1>1, Invariant, PTL

(* The map shows no dead peer for good, and ended connections are closed.  *)
THEOREM ConnectionsAreKept == PeerSpec => []ConnectionsKept
BY NoDeadPeer, EndedIsClosed, PTL DEF ConnectionsKept

(* Frames reach the handlers in order, and one writer at a time is safe.   *)
THEOREM FramesAreInOrder == PeerSpec => []FramesInOrder
BY NoReplay, SoleWriterIsSafe, PTL DEF FramesInOrder

-----------------------------------------------------------------------------
(* The handshakes of dialers and answerers.                                *)

(* The handshake of the dialer after its message, the state both ends are  *)
(* in when message 2 is encrypted, and the one after it.                   *)
Dialed(c) == First(meant[c].role, Static(meant[c].from), Static(meant[c].to),
                   Ephemeral(c, "dialer"))
Mixing(c) ==
  Mixed(Dialed(c).state, IF meant[c].role = "friend" THEN "IK" ELSE "NK",
        Ephemeral(c, "answerer"), Ephemeral(c, "answerer"), Ephemeral(c, "dialer"),
        Static(meant[c].to), Ephemeral(c, "dialer"))
Final(c) == MixHash(Mixing(c), Box(Mixing(c), "empty"))

Reply(c) == <<Ephemeral(c, "answerer"), Box(Mixing(c), "empty")>>

(* What is known of an answerer that got to its keys.                      *)
Answered(c) ==
  LET m == meant[c]
      s == session[c]["answerer"]
  IN /\ m # Nobody /\ m.to = m.addr /\ m.role # "padding"
     /\ m.role = "friend" => m.from \in Tables[m.addr]
     /\ s.remote = IF m.role = "friend" THEN m.from ELSE Nobody
     /\ s.keys = Split(Final(c), "answerer")

(* The handshake of one connection.                                        *)
Call(c) ==
  /\ meant[c] \in Meant \cup {Nobody}
  /\ meant[c] = Nobody => /\ pending[c] = NoHandshake /\ wire[c] = <<>>
                          /\ \A end \in Ends : /\ session[c][end] = NoSession
                                               /\ frames[c][end] = "none"
  /\ pending[c] # NoHandshake => pending[c] = Dialed(c).state
  /\ frames[c]["answerer"] = "none" =>
       session[c]["answerer"] = NoSession /\ (wire[c] = <<>> \/ wire[c] = Dialed(c).msg)
  /\ frames[c]["answerer"] # "none" /\ wire[c] # <<>> =>
       session[c]["answerer"] # NoSession /\ wire[c] = Reply(c)
  /\ session[c]["answerer"] # NoSession => Answered(c)
  /\ session[c]["dialer"] # NoSession =>
       session[c]["answerer"] # NoSession /\ session[c]["dialer"].keys = Split(Final(c), "dialer")

(* A function of connections and ends, and two that differ at one place.    *)
Table(f) == f = [c \in Calls |-> [end \in Ends |-> f[c][end]]]

AlikeBut(g, f, c, end) ==
  \A d \in Calls, o \in Ends : d # c \/ o # end => g[d][o] = f[d][o]

Put(g, f, c, end, x) == g = [f EXCEPT ![c][end] = x]

HInv ==
  /\ DOMAIN meant = Calls /\ DOMAIN pending = Calls /\ DOMAIN wire = Calls
  /\ Table(session) /\ Table(frames)
  /\ \A c \in Calls : Call(c)

LEMMA AppendSame ==
  ASSUME NEW x, NEW y, NEW a, NEW b, Append(<<a>>, x) = Append(<<b>>, y)
  PROVE  a = b /\ x = y
OBVIOUS

LEMMA AppendEmpty ==
  ASSUME NEW x, NEW y, Append(<<>>, x) = Append(<<>>, y)
  PROVE  x = y
OBVIOUS

(* The key of an ephemeral and a static key tells the static one.          *)
LEMMA PairTells ==
  ASSUME NEW c, NEW end, NEW a, NEW b,
         {Ephemeral(c, end), Static(a)} = {Ephemeral(c, end), Static(b)}
  PROVE  a = b
<1>1. Static(a) # Ephemeral(c, end) /\ Static(b) # Ephemeral(c, end)
  BY DEF Static, Ephemeral
<1>2. Static(a) = Static(b) BY <1>1
<1>3. QED BY <1>2 DEF Static

(* Message 1 opens, as one of a friend, only for the node it is for and    *)
(* under the name of its author, who is then in the same state.            *)
LEMMA ReadIK ==
  ASSUME NEW role \in {"friend", "public", "padding"}, NEW from, NEW to, NEW c, NEW a, NEW f,
         ReadsIK(Static(a), Static(f),
                 First(role, Static(from), Static(to), Ephemeral(c, "dialer")).msg)
  PROVE  LET one == First(role, Static(from), Static(to), Ephemeral(c, "dialer")) IN
         /\ role = "friend" /\ a = to /\ f = from
         /\ one.msg[1] = Ephemeral(c, "dialer")
         /\ MixHash(AfterSS(Static(a), Static(f), one.msg), one.msg[3]) = one.state
<1>1. PICK e : e = Ephemeral(c, "dialer") OBVIOUS
<1>2. PICK me, he : me = Static(from) /\ he = Static(to) OBVIOUS
<1>3. PICK one : one = First(role, me, he, e) OBVIOUS
<1>4. PICK es : es = MixKey(MixHash(Start(role), e), e, he) OBVIOUS
<1>5. PICK ss : ss = MixKey(MixHash(es, Box(es, me)), me, he) OBVIOUS
<1>6. PICK bes, bss, b0 : bes = Box(es, me) /\ bss = Box(ss, "empty") /\ b0 = Box(es, "empty")
  OBVIOUS
<1>7. one = IF role = "friend"
            THEN [state |-> MixHash(ss, bss), msg |-> <<e, bes, bss>>]
            ELSE [state |-> MixHash(es, b0), msg |-> <<e, b0>>]
  BY <1>3, <1>4, <1>5, <1>6 DEF First
<1>8. ReadsIK(Static(a), Static(f), one.msg) BY <1>1, <1>2, <1>3
<1>9. role = "friend" BY <1>7, <1>8 DEF ReadsIK
<1>10. one.msg = <<e, bes, bss>> /\ one.state = MixHash(ss, bss) BY <1>7, <1>9
<1>11. PICK m : m = one.msg OBVIOUS
<1>12. m[1] = e /\ m[2] = bes /\ m[3] = bss BY <1>10, <1>11
<1>13. bes.key = es.ck /\ bes.ad = es.h /\ bes.body = me BY <1>6 DEF Box
<1>14. PICK aes : aes = AfterES("friend", Static(a), m) OBVIOUS
<1>15. es.ck = Append(<<>>, {e, he}) /\ aes.ck = Append(<<>>, {e, Static(a)})
  BY <1>4, <1>12, <1>14 DEF MixKey, MixHash, Start, AfterES
<1>16. bes.key = aes.ck /\ bes.body = Static(f)
  BY <1>8, <1>11, <1>12, <1>14 DEF ReadsIK, Unboxes
<1>17. {e, he} = {e, Static(a)} BY <1>13, <1>15, <1>16, AppendEmpty
<1>18. a = to BY <1>1, <1>2, <1>17, PairTells
<1>19. f = from BY <1>2, <1>13, <1>16 DEF Static
<1>20. aes = es BY <1>2, <1>4, <1>9, <1>12, <1>14, <1>18 DEF AfterES
<1>21. AfterSS(Static(a), Static(f), m) = ss
  BY <1>2, <1>5, <1>6, <1>12, <1>14, <1>18, <1>19, <1>20 DEF AfterSS
<1>22. QED BY <1>1, <1>2, <1>3, <1>9, <1>10, <1>11, <1>12, <1>18, <1>19, <1>21

(* Message 1 opens, as one of anybody, only for the node it is for.        *)
LEMMA ReadNK ==
  ASSUME NEW role \in {"friend", "public", "padding"}, NEW from, NEW to, NEW c, NEW a,
         ReadsNK(Static(a),
                 First(role, Static(from), Static(to), Ephemeral(c, "dialer")).msg)
  PROVE  LET one == First(role, Static(from), Static(to), Ephemeral(c, "dialer")) IN
         /\ role = "public" /\ a = to
         /\ one.msg[1] = Ephemeral(c, "dialer")
         /\ MixHash(AfterES("public", Static(a), one.msg), one.msg[2]) = one.state
<1>1. PICK e : e = Ephemeral(c, "dialer") OBVIOUS
<1>2. PICK me, he : me = Static(from) /\ he = Static(to) OBVIOUS
<1>3. PICK one : one = First(role, me, he, e) OBVIOUS
<1>4. PICK es : es = MixKey(MixHash(Start(role), e), e, he) OBVIOUS
<1>5. PICK ss : ss = MixKey(MixHash(es, Box(es, me)), me, he) OBVIOUS
<1>6. PICK bes, bss, b0 : bes = Box(es, me) /\ bss = Box(ss, "empty") /\ b0 = Box(es, "empty")
  OBVIOUS
<1>7. one = IF role = "friend"
            THEN [state |-> MixHash(ss, bss), msg |-> <<e, bes, bss>>]
            ELSE [state |-> MixHash(es, b0), msg |-> <<e, b0>>]
  BY <1>3, <1>4, <1>5, <1>6 DEF First
<1>8. ReadsNK(Static(a), one.msg) BY <1>1, <1>2, <1>3
<1>9. role # "friend" BY <1>7, <1>8 DEF ReadsNK
<1>10. one.msg = <<e, b0>> /\ one.state = MixHash(es, b0) BY <1>7, <1>9
<1>11. PICK m : m = one.msg OBVIOUS
<1>12. m[1] = e /\ m[2] = b0 BY <1>10, <1>11
<1>13. b0.key = es.ck /\ b0.ad = es.h BY <1>6 DEF Box
<1>14. PICK aes : aes = AfterES("public", Static(a), m) OBVIOUS
<1>15. /\ es.ck = Append(<<>>, {e, he}) /\ aes.ck = Append(<<>>, {e, Static(a)})
       /\ es.h = Append(<<role>>, e) /\ aes.h = Append(<<"public">>, e)
  BY <1>4, <1>12, <1>14 DEF MixKey, MixHash, Start, AfterES
<1>16. b0.key = aes.ck /\ b0.ad = aes.h
  BY <1>8, <1>11, <1>12, <1>14 DEF ReadsNK, Unboxes
<1>17. {e, he} = {e, Static(a)} BY <1>13, <1>15, <1>16, AppendEmpty
<1>18. a = to BY <1>1, <1>2, <1>17, PairTells
<1>19. role = "public" BY <1>13, <1>15, <1>16, AppendSame
<1>20. aes = es BY <1>2, <1>4, <1>12, <1>14, <1>18, <1>19 DEF AfterES
<1>21. QED BY <1>1, <1>2, <1>3, <1>10, <1>11, <1>12, <1>14, <1>18, <1>19, <1>20

(* What the dialer makes of the reply is what the answerer made.           *)
LEMMA ReadReply ==
  ASSUME NEW c, pending[c] = Dialed(c).state, wire[c] = Reply(c)
  PROVE  LET two == wire[c]
             e == Ephemeral(c, "dialer")
             s == Mixed(pending[c], IF meant[c].role = "friend" THEN "IK" ELSE "NK",
                        two[1], e, two[1], e, Static(meant[c].to))
         IN s = Mixing(c) /\ two[2] = Box(s, "empty") /\ MixHash(s, two[2]) = Final(c)
<1>1. PICK e, f, st : e = Ephemeral(c, "dialer") /\ f = Ephemeral(c, "answerer")
                        /\ st = Static(meant[c].to)
  OBVIOUS
<1>2. PICK two : two = wire[c] OBVIOUS
<1>3. two[1] = f /\ two[2] = Box(Mixing(c), "empty") BY <1>1, <1>2 DEF Reply
<1>4. {e, f} = {f, e} /\ {e, st} = {st, e} OBVIOUS
<1>5. ASSUME NEW pattern
      PROVE  Mixed(pending[c], pattern, f, e, f, e, st) = Mixed(pending[c], pattern, f, f, e, st, e)
  BY <1>4 DEF Mixed, MixKey
<1>6. Mixing(c) = Mixed(pending[c], IF meant[c].role = "friend" THEN "IK" ELSE "NK", f, f, e, st, e)
  BY <1>1 DEF Mixing
<1>7. QED BY <1>1, <1>2, <1>3, <1>5, <1>6 DEF Final

LEMMA TablePut ==
  ASSUME NEW f, Table(f), NEW c \in Calls, NEW end \in Ends, NEW x,
         NEW g, Put(g, f, c, end, x)
  PROVE  Table(g) /\ g[c][end] = x /\ AlikeBut(g, f, c, end)
BY DEF Table, Put, AlikeBut

(* A step about connection c, which leaves what it was dialed for.         *)
LEMMA OnlyCall ==
  ASSUME HInv, NEW c \in Calls, meant' = meant,
         \A d \in Calls : d # c =>
           /\ pending'[d] = pending[d] /\ wire'[d] = wire[d]
           /\ \A end \in Ends : /\ session'[d][end] = session[d][end]
                                /\ frames'[d][end] = frames[d][end],
         DOMAIN pending' = Calls, DOMAIN wire' = Calls,
         Table(session'), Table(frames'), Call(c)'
  PROVE  HInv'
<1>1. "dialer" \in Ends /\ "answerer" \in Ends BY DEF Ends
<1>2. ASSUME NEW d \in Calls, d # c PROVE Call(d)'
  <2>1. Call(d) BY DEF HInv
  <2>2. /\ pending'[d] = pending[d] /\ wire'[d] = wire[d]
        /\ session'[d]["dialer"] = session[d]["dialer"]
        /\ session'[d]["answerer"] = session[d]["answerer"]
        /\ frames'[d]["answerer"] = frames[d]["answerer"]
        /\ \A end \in Ends : /\ session'[d][end] = session[d][end]
                             /\ frames'[d][end] = frames[d][end]
    BY <1>1, <1>2
  <2>3. /\ Dialed(d)' = Dialed(d) /\ Final(d)' = Final(d) /\ Reply(d)' = Reply(d)
    BY DEF Dialed, Final, Reply, Mixing
  <2>4. Answered(d) => Answered(d)' BY <2>2, <2>3 DEF Answered
  <2>5. QED BY <2>1, <2>2, <2>3, <2>4 DEF Call
<1>3. ASSUME NEW d \in Calls PROVE Call(d)' BY <1>2
<1>4. DOMAIN meant' = Calls /\ Table(session)' /\ Table(frames)' BY DEF HInv, Table
<1>5. QED BY <1>3, <1>4 DEF HInv

LEMMA DialStep == ASSUME HInv, NEW c \in Calls, NEW m \in Meant, Dial(c, m) PROVE HInv'
<1>1. /\ meant[c] = Nobody /\ meant' = [meant EXCEPT ![c] = m]
      /\ session' = session /\ frames' = frames
  BY DEF Dial
<1>2. PICK one : one = First(m.role, Static(m.from), Static(m.to), Ephemeral(c, "dialer"))
  OBVIOUS
<1>3. pending' = [pending EXCEPT ![c] = one.state] /\ wire' = [wire EXCEPT ![c] = one.msg]
  BY <1>2 DEF Dial
<1>4. /\ meant'[c] = m /\ pending'[c] = one.state /\ wire'[c] = one.msg
      /\ \A d \in Calls : d # c => /\ meant'[d] = meant[d] /\ pending'[d] = pending[d]
                                   /\ wire'[d] = wire[d]
      /\ DOMAIN meant' = Calls /\ DOMAIN pending' = Calls /\ DOMAIN wire' = Calls
  BY <1>1, <1>3 DEF HInv
<1>5. "dialer" \in Ends /\ "answerer" \in Ends BY DEF Ends
<1>6. Call(c)' BY <1>1, <1>2, <1>4, <1>5, HandshakeAssumption DEF HInv, Call, Dialed, NoSession
<1>7. ASSUME NEW d \in Calls, d # c PROVE Call(d)'
  BY <1>1, <1>4, <1>7 DEF HInv, Dialed, Final, Reply, Mixing, Answered, Call
<1>8. ASSUME NEW d \in Calls PROVE Call(d)' BY <1>6, <1>7
<1>9. QED BY <1>1, <1>4, <1>8 DEF HInv, Table

(* addPeerSession puts the keys of its state into the table.               *)
LEMMA Added ==
  ASSUME HInv, NEW c \in Calls, NEW end \in Ends, NEW id, NEW s, NEW other,
         AddPeerSession(c, end, id, s, other), Len(id) = 2
  PROVE  /\ Table(session') /\ Table(frames')
         /\ session'[c][end] # NoSession /\ session'[c][end].keys = Split(s, end)
         /\ session'[c][end].remote = other /\ frames'[c][end] = "open"
         /\ AlikeBut(session', session, c, end) /\ AlikeBut(frames', frames, c, end)
<1>1. PICK x : x = [id |-> id, keys |-> Split(s, end), framer |-> Framer(s, end),
                    remote |-> other]
  OBVIOUS
<1>2. /\ session' = [session EXCEPT ![c][end] = x]
      /\ frames' = [frames EXCEPT ![c][end] = "open"]
  BY <1>1 DEF AddPeerSession
<1>3. x # NoSession BY <1>1 DEF NoSession
<1>4. x.keys = Split(s, end) /\ x.remote = other BY <1>1
<1>5. Table(session) /\ Table(frames) BY DEF HInv
<1>6. /\ Table(session') /\ session'[c][end] = x
      /\ AlikeBut(session', session, c, end)
  <2>1. PICK g : g = session' OBVIOUS
  <2>2. Put(g, session, c, end, x) BY <1>2, <2>1 DEF Put
  <2>3. /\ Table(g) /\ g[c][end] = x
        /\ AlikeBut(g, session, c, end)
    BY <1>5, <2>2, TablePut
  <2>4. QED BY <2>1, <2>3
<1>7. /\ Table(frames') /\ frames'[c][end] = "open"
      /\ AlikeBut(frames', frames, c, end)
  <2>1. PICK g : g = frames' OBVIOUS
  <2>2. Put(g, frames, c, end, "open") BY <1>2, <2>1 DEF Put
  <2>3. /\ Table(g) /\ g[c][end] = "open"
        /\ AlikeBut(g, frames, c, end)
    BY <1>5, <2>2, TablePut
  <2>4. QED BY <2>1, <2>3
<1>8. QED BY <1>3, <1>4, <1>6, <1>7

(* An end whose frames change alone: its read loop goes on or ends.        *)
LEMMA FramesPut ==
  ASSUME HInv, NEW c \in Calls, NEW end \in Ends, NEW x,
         frames' = [frames EXCEPT ![c][end] = x]
  PROVE  /\ Table(frames') /\ frames'[c][end] = x
         /\ AlikeBut(frames', frames, c, end)
<1>1. Table(frames) BY DEF HInv
<1>2. PICK g : g = frames' OBVIOUS
<1>3. Put(g, frames, c, end, x) BY <1>2 DEF Put
<1>4. /\ Table(g) /\ g[c][end] = x
      /\ AlikeBut(g, frames, c, end)
  BY <1>1, <1>3, TablePut
<1>5. QED BY <1>2, <1>4

(* An answerer that can read message 1 gets to the keys of the dialer.      *)
LEMMA AnswererStep ==
  ASSUME HInv, NEW c \in Calls, NEW s, NEW id, NEW other,
         meant[c] # Nobody, pending[c] # NoHandshake, frames[c]["answerer"] = "none",
         meant' = meant, pending' = pending,
         meant[c].to = meant[c].addr, meant[c].role # "padding",
         meant[c].role = "friend" => meant[c].from \in Tables[meant[c].addr],
         other = IF meant[c].role = "friend" THEN meant[c].from ELSE Nobody,
         s = Mixing(c), Len(id) = 2,
         wire' = [wire EXCEPT ![c] = <<Ephemeral(c, "answerer"), Box(s, "empty")>>],
         AddPeerSession(c, "answerer", id, MixHash(s, Box(s, "empty")), other)
  PROVE  HInv'
<1>1. "dialer" \in Ends /\ "answerer" \in Ends BY DEF Ends
<1>2. PICK t : t = MixHash(s, Box(s, "empty")) OBVIOUS
<1>3. t = Final(c) BY <1>2 DEF Final
<1>4. AddPeerSession(c, "answerer", id, t, other) BY <1>2
<1>5. /\ Table(session') /\ Table(frames')
      /\ session'[c]["answerer"] # NoSession
      /\ session'[c]["answerer"].keys = Split(t, "answerer")
      /\ session'[c]["answerer"].remote = other /\ frames'[c]["answerer"] = "open"
      /\ AlikeBut(session', session, c, "answerer") /\ AlikeBut(frames', frames, c, "answerer")
  BY <1>1, <1>4, Added
<1>6. wire'[c] = Reply(c) /\ DOMAIN wire' = Calls
      /\ \A d \in Calls : d # c => wire'[d] = wire[d]
  BY DEF HInv, Reply
<1>7. /\ Final(c)' = Final(c) /\ Reply(c)' = Reply(c) /\ Dialed(c)' = Dialed(c)
  BY DEF Final, Reply, Dialed, Mixing
<1>8. Answered(c)' BY <1>3, <1>5, <1>7 DEF Answered
<1>9. Call(c) BY DEF HInv
<1>10. session'[c]["dialer"] = session[c]["dialer"] BY <1>1, <1>5 DEF AlikeBut
<1>11. session[c]["dialer"] = NoSession BY <1>9 DEF Call
<1>12. Call(c)' BY <1>5, <1>6, <1>7, <1>8, <1>9, <1>10, <1>11 DEF Call
<1>13. DOMAIN pending' = Calls BY DEF HInv
<1>14. \A d \in Calls : d # c =>
           /\ pending'[d] = pending[d] /\ wire'[d] = wire[d]
           /\ \A end \in Ends : /\ session'[d][end] = session[d][end]
                                /\ frames'[d][end] = frames[d][end]
  BY <1>5, <1>6 DEF AlikeBut
<1>15. QED BY <1>5, <1>6, <1>12, <1>13, <1>14, OnlyCall

(* A connection with a handshake under way was dialed.                     *)
LEMMA Pending ==
  ASSUME HInv, NEW c \in Calls, pending[c] # NoHandshake
  PROVE  /\ meant[c] \in Meant /\ meant[c] # Nobody /\ pending[c] = Dialed(c).state
         /\ meant[c].role \in {"friend", "public", "padding"}
         /\ meant[c].from \in Nodes /\ meant[c].to \in Nodes /\ meant[c].addr \in Nodes
BY HandshakeAssumption DEF HInv, Call

LEMMA IncomingStep == ASSUME HInv, NEW c \in Calls, HandleIncoming(c) PROVE HInv'
<1>1. /\ pending[c] # NoHandshake /\ frames[c]["answerer"] = "none" /\ wire[c] # <<>>
      /\ meant' = meant /\ pending' = pending
  BY DEF HandleIncoming
<1>2. PICK w, r, a, m : /\ w = meant[c] /\ r = w.role /\ a = w.addr /\ m = wire[c]
  OBVIOUS
<1>3. PICK e, ed : e = Ephemeral(c, "answerer") /\ ed = Ephemeral(c, "dialer") OBVIOUS
<1>4. /\ w # Nobody /\ pending[c] = Dialed(c).state
      /\ r \in {"friend", "public", "padding"} /\ a \in Nodes
  BY <1>1, <1>2, Pending
<1>5. m = Dialed(c).msg BY <1>1, <1>2 DEF HInv, Call
<1>6. PICK one : one = First(r, Static(w.from), Static(w.to), Ephemeral(c, "dialer")) OBVIOUS
<1>7. Dialed(c) = one BY <1>2, <1>6 DEF Dialed
<1>8. ASSUME NEW f \in Tables[a], ReadsIK(Static(a), Static(f), m)
      PROVE  /\ r = "friend" /\ a = w.to /\ f = w.from
             /\ Mixed(MixHash(AfterSS(Static(a), Static(f), m), m[3]), "IK",
                      e, e, m[1], Static(a), m[1]) = Mixing(c)
  BY <1>2, <1>3, <1>4, <1>5, <1>6, <1>7, <1>8, ReadIK DEF Mixing
<1>9. ASSUME ReadsNK(Static(a), m)
      PROVE  /\ r = "public" /\ a = w.to
             /\ Mixed(MixHash(AfterES("public", Static(a), m), m[2]), "NK",
                      e, e, m[1], Static(a), m[1]) = Mixing(c)
  BY <1>2, <1>3, <1>4, <1>5, <1>6, <1>7, <1>9, ReadNK DEF Mixing
<1>10. PICK F : F = {f \in Tables[a] : ReadsIK(Static(a), Static(f), m)} OBVIOUS
<1>11. CASE F # {}
  <2>1. PICK f \in F : LET s == Mixed(MixHash(AfterSS(Static(a), Static(f), m), m[3]), "IK",
                                      e, e, m[1], Static(a), m[1])
                       IN /\ wire' = [wire EXCEPT ![c] = <<e, Box(s, "empty")>>]
                          /\ AddPeerSession(c, "answerer", <<"hash", f>>,
                                            MixHash(s, Box(s, "empty")), f)
    BY <1>2, <1>3, <1>10, <1>11 DEF HandleIncoming
  <2>2. f \in Tables[a] /\ ReadsIK(Static(a), Static(f), m) BY <1>10
  <2>3. PICK s : s = Mixed(MixHash(AfterSS(Static(a), Static(f), m), m[3]), "IK",
                           e, e, m[1], Static(a), m[1])
    OBVIOUS
  <2>4. r = "friend" /\ a = w.to /\ f = w.from /\ s = Mixing(c) BY <1>8, <2>2, <2>3
  <2>5. /\ wire' = [wire EXCEPT ![c] = <<Ephemeral(c, "answerer"), Box(s, "empty")>>]
        /\ AddPeerSession(c, "answerer", <<"hash", f>>, MixHash(s, Box(s, "empty")), f)
    BY <1>3, <2>1, <2>3
  <2>6. PICK id : id = <<"hash", f>> OBVIOUS
  <2>7. Len(id) = 2 BY <2>6
  <2>8. /\ meant[c] # Nobody /\ meant[c].to = meant[c].addr /\ meant[c].role # "padding"
        /\ (meant[c].role = "friend" => meant[c].from \in Tables[meant[c].addr])
        /\ f = (IF meant[c].role = "friend" THEN meant[c].from ELSE Nobody)
    BY <1>2, <1>4, <2>2, <2>4
  <2>9. QED BY <1>1, <2>4, <2>5, <2>6, <2>7, <2>8, AnswererStep
<1>12. CASE F = {} /\ ReadsNK(Static(a), m)
  BY <1>1, <1>2, <1>3, <1>4, <1>9, <1>10, <1>12, AnswererStep DEF HandleIncoming
<1>13. CASE F = {} /\ ~ReadsNK(Static(a), m)
  <2>1. /\ frames' = [frames EXCEPT ![c]["answerer"] = "ended"]
        /\ wire' = [wire EXCEPT ![c] = <<>>] /\ session' = session
    BY <1>2, <1>10, <1>13 DEF HandleIncoming
  <2>2. "answerer" \in Ends BY DEF Ends
  <2>3. /\ Table(frames') /\ frames'[c]["answerer"] = "ended"
        /\ AlikeBut(frames', frames, c, "answerer")
    BY <2>1, <2>2, FramesPut
  <2>4. /\ DOMAIN wire' = Calls /\ wire'[c] = <<>>
        /\ \A d \in Calls : d # c => wire'[d] = wire[d]
    BY <2>1 DEF HInv
  <2>5. Call(c) BY DEF HInv
  <2>6. Dialed(c)' = Dialed(c) /\ Final(c)' = Final(c) /\ (Answered(c) => Answered(c)')
    BY <1>1, <2>1 DEF Dialed, Final, Mixing, Answered
  <2>7. Call(c)' BY <1>1, <1>2, <1>4, <2>1, <2>3, <2>4, <2>5, <2>6 DEF Call
  <2>8. Table(session') /\ DOMAIN pending' = Calls BY <1>1, <2>1 DEF HInv, Table
  <2>9. \A d \in Calls : d # c =>
           /\ pending'[d] = pending[d] /\ wire'[d] = wire[d]
           /\ \A end \in Ends : /\ session'[d][end] = session[d][end]
                                /\ frames'[d][end] = frames[d][end]
    BY <1>1, <2>1, <2>3, <2>4 DEF AlikeBut
  <2>10. QED BY <1>1, <2>3, <2>4, <2>7, <2>8, <2>9, OnlyCall
<1>14. QED BY <1>11, <1>12, <1>13

LEMMA FinishStep == ASSUME HInv, NEW c \in Calls, FinishDial(c) PROVE HInv'
<1>1. /\ pending[c] # NoHandshake /\ frames[c]["answerer"] # "none" /\ wire[c] # <<>>
      /\ meant' = meant /\ pending' = [pending EXCEPT ![c] = NoHandshake]
      /\ wire' = [wire EXCEPT ![c] = <<>>]
  BY DEF FinishDial
<1>2. /\ pending[c] = Dialed(c).state /\ meant[c] # Nobody /\ meant[c] \in Meant
  BY <1>1, Pending
<1>3. Call(c) BY DEF HInv
<1>4. session[c]["answerer"] # NoSession /\ wire[c] = Reply(c) BY <1>1, <1>3 DEF Call
<1>5. PICK m, e, two : m = meant[c] /\ e = Ephemeral(c, "dialer") /\ two = wire[c] OBVIOUS
<1>6. PICK s : s = Mixed(pending[c], IF m.role = "friend" THEN "IK" ELSE "NK",
                         two[1], e, two[1], e, Static(m.to))
  OBVIOUS
<1>7. s = Mixing(c) /\ two[2] = Box(s, "empty") /\ MixHash(s, two[2]) = Final(c)
  BY <1>2, <1>4, <1>5, <1>6, ReadReply
<1>8. Unboxes(s, two[2]) BY <1>7 DEF Unboxes, Box
<1>9. PICK id : id = IF m.role = "friend" THEN <<"chain", m.to>>
                     ELSE IF m.role = "public" THEN <<"hash", m.to>> ELSE <<"padding", c>>
  OBVIOUS
<1>10. Len(id) = 2 BY <1>9
<1>11. AddPeerSession(c, "dialer", id, MixHash(s, two[2]), m.to)
  BY <1>5, <1>6, <1>8, <1>9 DEF FinishDial
<1>12. PICK t, other : t = MixHash(s, two[2]) /\ other = m.to OBVIOUS
<1>13. AddPeerSession(c, "dialer", id, t, other) /\ t = Final(c) BY <1>7, <1>11, <1>12
<1>14. "dialer" \in Ends /\ "answerer" \in Ends /\ "dialer" # "answerer" BY DEF Ends
<1>15. /\ Table(session') /\ Table(frames')
       /\ session'[c]["dialer"] # NoSession
       /\ session'[c]["dialer"].keys = Split(t, "dialer")
       /\ AlikeBut(session', session, c, "dialer") /\ AlikeBut(frames', frames, c, "dialer")
  BY <1>10, <1>13, <1>14, Added
<1>16. /\ DOMAIN wire' = Calls /\ DOMAIN pending' = Calls /\ wire'[c] = <<>>
       /\ pending'[c] = NoHandshake
       /\ \A d \in Calls : d # c => wire'[d] = wire[d] /\ pending'[d] = pending[d]
  BY <1>1 DEF HInv
<1>17. /\ session'[c]["answerer"] = session[c]["answerer"]
       /\ frames'[c]["answerer"] = frames[c]["answerer"]
  BY <1>14, <1>15 DEF AlikeBut
<1>18. Dialed(c)' = Dialed(c) /\ Final(c)' = Final(c)
  BY <1>1 DEF Dialed, Final, Mixing
<1>19. Answered(c) => Answered(c)' BY <1>1, <1>17, <1>18 DEF Answered
<1>20. Call(c)'
  BY <1>1, <1>2, <1>3, <1>4, <1>13, <1>15, <1>16, <1>17, <1>18, <1>19 DEF Call
<1>21. \A d \in Calls : d # c =>
           /\ pending'[d] = pending[d] /\ wire'[d] = wire[d]
           /\ \A end \in Ends : /\ session'[d][end] = session[d][end]
                                /\ frames'[d][end] = frames[d][end]
  BY <1>15, <1>16 DEF AlikeBut
<1>22. QED BY <1>1, <1>15, <1>16, <1>20, <1>21, OnlyCall

(* The end of a connection, and its first frame, touch no key.             *)
LEMMA LaterStep ==
  ASSUME HInv, NEW c \in Calls, NEW end \in Ends, NEW x, x # "none",
         meant[c] # Nobody, end = "answerer" => frames[c]["answerer"] # "none",
         frames' = [frames EXCEPT ![c][end] = x], meant' = meant, session' = session,
         \/ pending' = pending /\ wire' = wire
         \/ /\ pending' = [pending EXCEPT ![c] = NoHandshake]
            /\ wire' = [wire EXCEPT ![c] = <<>>]
  PROVE  HInv'
<1>1. "dialer" \in Ends /\ "answerer" \in Ends BY DEF Ends
<1>2. /\ Table(frames') /\ frames'[c][end] = x /\ AlikeBut(frames', frames, c, end)
  BY FramesPut
<1>3. /\ DOMAIN wire' = Calls /\ DOMAIN pending' = Calls
      /\ wire'[c] \in {wire[c], <<>>} /\ pending'[c] \in {pending[c], NoHandshake}
      /\ \A d \in Calls : d # c => wire'[d] = wire[d] /\ pending'[d] = pending[d]
  BY DEF HInv
<1>4. Call(c) BY DEF HInv
<1>5. frames'[c]["answerer"] = "none" <=> frames[c]["answerer"] = "none" BY <1>1, <1>2 DEF AlikeBut
<1>6. /\ Dialed(c)' = Dialed(c) /\ Final(c)' = Final(c) /\ Reply(c)' = Reply(c)
      /\ (Answered(c) => Answered(c)')
  BY DEF Dialed, Final, Reply, Mixing, Answered
<1>7. Call(c)' BY <1>3, <1>4, <1>5, <1>6 DEF Call
<1>8. Table(session') BY DEF HInv, Table
<1>9. \A d \in Calls : d # c =>
           /\ pending'[d] = pending[d] /\ wire'[d] = wire[d]
           /\ \A o \in Ends : /\ session'[d][o] = session[d][o]
                              /\ frames'[d][o] = frames[d][o]
  BY <1>2, <1>3 DEF AlikeBut
<1>10. QED BY <1>2, <1>3, <1>7, <1>8, <1>9, OnlyCall

(* A connection with open frames was dialed.                               *)
LEMMA OpenIsMeant ==
  ASSUME HInv, NEW c \in Calls, NEW end \in Ends, frames[c][end] \in {"open", "read"}
  PROVE  meant[c] # Nobody
BY DEF HInv, Call

LEMMA EndStep == ASSUME HInv, NEW c \in Calls, NEW end \in Ends, End(c, end) PROVE HInv'
BY OpenIsMeant, Pending, LaterStep DEF End

LEMMA ReadStep == ASSUME HInv, NEW c \in Calls, NEW end \in Ends, ReadFirst(c, end) PROVE HInv'
BY OpenIsMeant, LaterStep DEF ReadFirst

(* Every step keeps the invariant.                                         *)
LEMMA HandshakeStep == HInv /\ [HandshakeNext]_handshakeVars => HInv'
<1>. SUFFICES ASSUME HInv, [HandshakeNext]_handshakeVars PROVE HInv'
  OBVIOUS
<1>1. ASSUME NEW c \in Calls, NEW m \in Meant, Dial(c, m) PROVE HInv' BY <1>1, DialStep
<1>2. ASSUME NEW c \in Calls, HandleIncoming(c) PROVE HInv' BY <1>2, IncomingStep
<1>3. ASSUME NEW c \in Calls, FinishDial(c) PROVE HInv' BY <1>3, FinishStep
<1>4. ASSUME NEW c \in Calls, NEW end \in Ends, End(c, end) PROVE HInv' BY <1>4, EndStep
<1>5. ASSUME NEW c \in Calls, NEW end \in Ends, ReadFirst(c, end) PROVE HInv'
  BY <1>5, ReadStep
<1>6. CASE UNCHANGED handshakeVars
  <2>1. /\ meant' = meant /\ wire' = wire /\ pending' = pending /\ session' = session
        /\ frames' = frames
    BY <1>6 DEF handshakeVars
  <2>2. ASSUME NEW c \in Calls PROVE Call(c)' BY <2>1 DEF HInv, Dialed, Final, Reply, Mixing, Answered, Call
  <2>3. QED BY <2>1, <2>2 DEF HInv, Table
<1>7. QED BY <1>1, <1>2, <1>3, <1>4, <1>5, <1>6 DEF HandshakeNext

LEMMA HandshakeStart == HandshakeInit => HInv
<1>. SUFFICES ASSUME HandshakeInit PROVE HInv
  OBVIOUS
<1>1. "dialer" \in Ends /\ "answerer" \in Ends BY DEF Ends
<1>2. /\ meant = [c \in Calls |-> Nobody] /\ pending = [c \in Calls |-> NoHandshake]
      /\ wire = [c \in Calls |-> <<>>]
      /\ session = [c \in Calls |-> [end \in Ends |-> NoSession]]
      /\ frames = [c \in Calls |-> [end \in Ends |-> "none"]]
  BY DEF HandshakeInit
<1>3. \A c \in Calls : Call(c) BY <1>1, <1>2 DEF Call
<1>4. QED BY <1>2, <1>3 DEF HInv, Table

(* The two ends of one state have each other's keys, and two of them.      *)
LEMMA SplitMatches ==
  ASSUME NEW s
  PROVE  /\ Split(s, "dialer").send = Split(s, "answerer").recv
         /\ Split(s, "dialer").recv = Split(s, "answerer").send
         /\ Split(s, "dialer").send # Split(s, "dialer").recv
BY DEF Split

LEMMA HandshakeShows == HInv => HandshakesAgree
<1>. SUFFICES ASSUME HInv PROVE HandshakesAgree
  OBVIOUS
<1>1. "dialer" \in Ends /\ "answerer" \in Ends BY DEF Ends
<1>2. \A end \in Ends : end = "dialer" \/ end = "answerer" BY DEF Ends
<1>3. ASSUME NEW c \in Calls, session[c]["answerer"] # NoSession PROVE Answered(c)
  BY <1>3 DEF HInv, Call
<1>4. ASSUME NEW c \in Calls, session[c]["dialer"] # NoSession
      PROVE  /\ session[c]["answerer"] # NoSession
             /\ session[c]["dialer"].keys = Split(Final(c), "dialer")
  BY <1>4 DEF HInv, Call
<1>5. KeysMatch
  BY <1>1, <1>3, <1>4, SplitMatches DEF KeysMatch, Both, Answered
<1>6. EndsAuthentic
  BY <1>3, <1>4 DEF EndsAuthentic, Done, Answered
<1>7. PaddingRefused
  BY <1>2, <1>3, <1>4 DEF PaddingRefused, Done, Answered
<1>8. QED BY <1>5, <1>6, <1>7 DEF HandshakesAgree

(* The two ends of every connection agree on keys, identities and roles,   *)
(* for every set of nodes, friends, connections and dials: dialers,        *)
(* handleIncoming and addPeerSession of node/connection.go.                *)
THEOREM HandshakesAreSound == HandshakeSpec => []HandshakesAgree
<1>1. HandshakeSpec => []HInv
  BY HandshakeStart, HandshakeStep, PTL DEF HandshakeSpec
<1>2. QED BY <1>1, HandshakeShows, PTL

-----------------------------------------------------------------------------
(* The search for friends.                                                 *)

(* The beacons sent, and the references to them in frames, queues, tables   *)
(* and histories.                                                          *)
Sent == [sender : Hosts, time : Nat, slots : UNION {Orders(CoreTable[n]) : n \in Hosts}]
Task == [tag : Nat, hop : 0..HopMax, except : Hosts]

BeaconType ==
  /\ beacons \in Seq(Sent) /\ clock \in Nat
  /\ \A t \in DOMAIN beacons : beacons[t].time <= clock
  /\ \A f \in beaconFrames : /\ f.tag \in DOMAIN beacons /\ f.hop \in 0..HopMax
                             /\ f.at \in Hosts /\ f.from \in Hosts

QueueType ==
  /\ relayCh \in [Hosts -> Seq(Task)]
  /\ \A n \in Hosts : \A i \in DOMAIN relayCh[n] : relayCh[n][i].tag \in DOMAIN beacons

(* A tag is remembered as long as the signature of its beacon is accepted.  *)
TagsInv ==
  /\ DOMAIN seen = Hosts
  /\ \A n \in Hosts : \A t \in DOMAIN seen[n] :
       /\ t \in DOMAIN beacons /\ seen[n][t] \in Nat
       /\ seen[n][t] >= beacons[t].time + BeaconTTL

(* Who has answered still knows the tag, or the beacon is too old.         *)
AnswersInv ==
  /\ \A a \in answers :
       /\ a.tag \in DOMAIN beacons /\ a.by \in Hosts
       /\ a.tag \in DOMAIN seen[a.by] \/ clock > beacons[a.tag].time + BeaconTTL
  /\ AnsweredOnce

(* Who has relayed still knows the tag, or that was a lifetime ago.        *)
RelaysInv ==
  /\ \A r \in relayed :
       /\ r.node \in Hosts /\ r.tag \in DOMAIN beacons /\ r.time \in Nat
       /\ \/ r.tag \in DOMAIN seen[r.node] /\ seen[r.node][r.tag] >= r.time + BeaconTTL
          \/ clock > r.time + BeaconTTL
  /\ \A r, s \in relayed :
       r.node = s.node /\ r.tag = s.tag /\ r.time < s.time => s.time - r.time > BeaconTTL

(* The nonce of an accepted answer is used up.                             *)
NoncesInv ==
  /\ DOMAIN nonces = Hosts /\ \A n \in Hosts : DOMAIN nonces[n] \subseteq DOMAIN beacons
  /\ DOMAIN marked = Hosts
  /\ \A a \in accepted : /\ a.tag \in DOMAIN beacons
                         /\ a.tag \notin DOMAIN nonces[beacons[a.tag].sender]
  /\ AcceptedOnce

BeaconInv == /\ BeaconType /\ QueueType /\ TagsInv /\ AnswersInv /\ RelaysInv /\ NoncesInv

LEMMA SentTypes ==
  ASSUME BeaconType, NEW t \in DOMAIN beacons
  PROVE  /\ beacons[t].sender \in Hosts /\ beacons[t].time \in Nat
         /\ t \in Nat /\ beacons[t].time <= clock
<1>1. beacons \in Seq(Sent) BY DEF BeaconType
<1>2. beacons[t] \in Sent /\ t \in Nat BY <1>1
<1>3. QED BY <1>2 DEF Sent, BeaconType

LEMMA SendStep ==
  ASSUME BeaconInv, NEW n \in Searching, NEW slots \in Orders(CoreTable[n]), SendBeacon(n, slots)
  PROVE  BeaconInv'
<1>1. n \in Hosts /\ BeaconTTL \in Nat /\ HopMax \in Nat
      /\ \A m \in Neighbours[n] : m \in Hosts
  BY BeaconsAssumption
<1>2. PICK b, tag : /\ b = [sender |-> n, time |-> clock, slots |-> slots]
                    /\ tag = Len(beacons) + 1
  OBVIOUS
<1>3. /\ beacons' = Append(beacons, b)
      /\ nonces' = [nonces EXCEPT ![n] = Plus(@, tag, clock + BeaconTTL)]
      /\ beaconFrames' = beaconFrames \cup {[tag |-> tag, hop |-> 0, at |-> m, from |-> n] :
                                            m \in Neighbours[n]}
      /\ seen' = seen /\ relayCh' = relayCh /\ answers' = answers /\ marked' = marked
      /\ clock' = clock /\ relayed' = relayed /\ accepted' = accepted
  BY <1>2 DEF SendBeacon
<1>4. beacons \in Seq(Sent) /\ clock \in Nat BY DEF BeaconInv, BeaconType
<1>5. b \in Sent /\ b.time = clock /\ b.sender = n BY <1>1, <1>2, <1>4 DEF Sent
<1>6. PICK k \in Nat : k = Len(beacons) BY <1>4
<1>7. /\ beacons' \in Seq(Sent) /\ DOMAIN beacons' = 1..(k + 1) /\ beacons'[tag] = b
      /\ DOMAIN beacons = 1..k /\ tag = k + 1 /\ \A t \in 1..k : beacons'[t] = beacons[t]
  BY <1>2, <1>3, <1>4, <1>5, <1>6
<1>8. /\ tag \in DOMAIN beacons' /\ tag \notin DOMAIN beacons
      /\ \A t \in DOMAIN beacons : t \in DOMAIN beacons' /\ beacons'[t] = beacons[t]
      /\ \A t \in DOMAIN beacons' : t \in DOMAIN beacons \/ t = tag
  BY <1>7
<1>9. BeaconType'
  <2>1. \A t \in DOMAIN beacons' : beacons'[t].time <= clock
    BY <1>4, <1>5, <1>7, <1>8, SentTypes DEF BeaconInv
  <2>2. ASSUME NEW f \in beaconFrames'
        PROVE  /\ f.tag \in DOMAIN beacons' /\ f.hop \in 0..HopMax
               /\ f.at \in Hosts /\ f.from \in Hosts
    <3>1. CASE f \in beaconFrames BY <1>8, <3>1 DEF BeaconInv, BeaconType
    <3>2. CASE f \notin beaconFrames BY <1>1, <1>3, <1>8, <3>2
    <3>3. QED BY <3>1, <3>2
  <2>3. QED BY <1>3, <1>4, <1>7, <2>1, <2>2 DEF BeaconType
<1>10. QueueType' BY <1>3, <1>8 DEF BeaconInv, QueueType
<1>11. TagsInv' BY <1>3, <1>8 DEF BeaconInv, TagsInv
<1>12. AnswersInv' BY <1>3, <1>8 DEF BeaconInv, AnswersInv, AnsweredOnce
<1>13. RelaysInv' BY <1>3, <1>8 DEF BeaconInv, RelaysInv
<1>14. NoncesInv'
  <2>1. DOMAIN nonces = Hosts /\ DOMAIN marked = Hosts
        /\ \A m \in Hosts : DOMAIN nonces[m] \subseteq DOMAIN beacons
    BY DEF BeaconInv, NoncesInv
  <2>2. /\ DOMAIN nonces' = Hosts /\ nonces'[n] = Plus(nonces[n], tag, clock + BeaconTTL)
        /\ \A m \in Hosts : m # n => nonces'[m] = nonces[m]
    BY <1>1, <1>3, <2>1
  <2>3. DOMAIN nonces'[n] = DOMAIN nonces[n] \cup {tag} BY <2>2 DEF Plus
  <2>4. \A m \in Hosts : \A t \in DOMAIN nonces'[m] : t \in DOMAIN nonces[m] \/ t = tag
    BY <2>2, <2>3
  <2>5. \A m \in Hosts : DOMAIN nonces'[m] \subseteq DOMAIN beacons' BY <1>8, <2>1, <2>4
  <2>6. ASSUME NEW a \in accepted
        PROVE  /\ a.tag \in DOMAIN beacons'
               /\ a.tag \notin DOMAIN nonces'[beacons'[a.tag].sender]
    BY <1>8, <2>4, SentTypes DEF BeaconInv, NoncesInv
  <2>7. AcceptedOnce'
    <3>1. \A a, c \in accepted : a.tag = c.tag => a = c
      BY DEF BeaconInv, NoncesInv, AcceptedOnce
    <3>2. ASSUME NEW m \in Hosts, NEW f \in marked[m]
          PROVE  \E a \in accepted : a.by = f /\ beacons'[a.tag].sender = m
      BY <1>8 DEF BeaconInv, NoncesInv, AcceptedOnce
    <3>3. QED BY <1>3, <3>1, <3>2 DEF AcceptedOnce
  <2>8. QED BY <1>3, <2>1, <2>2, <2>5, <2>6, <2>7 DEF NoncesInv
<1>15. QED BY <1>9, <1>10, <1>11, <1>12, <1>13, <1>14 DEF BeaconInv

(* What is left of the invariant by a step that keeps these.               *)
LEMMA SameTags ==
  ASSUME BeaconInv, beacons' = beacons, clock' = clock, seen' = seen
  PROVE  /\ TagsInv'
         /\ (answers' = answers => AnswersInv') /\ (relayed' = relayed => RelaysInv')
         /\ (nonces' = nonces /\ marked' = marked /\ accepted' = accepted => NoncesInv')
         /\ (relayCh' = relayCh => QueueType')
         /\ (beaconFrames' \subseteq beaconFrames => BeaconType')
BY DEF BeaconInv, TagsInv, AnswersInv, AnsweredOnce, RelaysInv, NoncesInv, AcceptedOnce, QueueType, BeaconType

LEMMA LoseStep == ASSUME BeaconInv, NEW f \in beaconFrames, LoseFrame(f) PROVE BeaconInv'
BY SameTags DEF LoseFrame, BeaconInv

LEMMA RelayStep == ASSUME BeaconInv, NEW n \in Hosts, Relay(n) PROVE BeaconInv'
<1>1. PICK t : t = Head(relayCh[n]) OBVIOUS
<1>2. /\ relayCh[n] # <<>> /\ relayCh' = [relayCh EXCEPT ![n] = Tail(@)]
      /\ beaconFrames' = beaconFrames \cup
           {[tag |-> t.tag, hop |-> t.hop, at |-> m, from |-> n] : m \in Neighbours[n] \ {t.except}}
      /\ beacons' = beacons /\ seen' = seen /\ nonces' = nonces /\ answers' = answers
      /\ marked' = marked /\ clock' = clock /\ relayed' = relayed /\ accepted' = accepted
  BY <1>1 DEF Relay
<1>3. /\ relayCh \in [Hosts -> Seq(Task)]
      /\ \A m \in Hosts : \A i \in DOMAIN relayCh[m] : relayCh[m][i].tag \in DOMAIN beacons
  BY DEF BeaconInv, QueueType
<1>4. PICK q : q = relayCh[n] OBVIOUS
<1>5. q \in Seq(Task) /\ q # <<>> /\ \A i \in DOMAIN q : q[i].tag \in DOMAIN beacons
  BY <1>2, <1>3, <1>4
<1>6. t = q[1] /\ 1 \in DOMAIN q /\ t \in Task BY <1>1, <1>4, <1>5
<1>7. t.tag \in DOMAIN beacons /\ t.hop \in 0..HopMax BY <1>5, <1>6 DEF Task
<1>8. PICK r : r = Tail(q) OBVIOUS
<1>9. r \in Seq(Task) /\ \A i \in DOMAIN r : i + 1 \in DOMAIN q /\ r[i] = q[i + 1]
  BY <1>5, <1>8
<1>10. QueueType' BY <1>2, <1>3, <1>4, <1>5, <1>8, <1>9 DEF QueueType
<1>11. BeaconType'
  <2>1. ASSUME NEW f \in beaconFrames'
        PROVE  /\ f.tag \in DOMAIN beacons /\ f.hop \in 0..HopMax
               /\ f.at \in Hosts /\ f.from \in Hosts
    <3>1. CASE f \in beaconFrames BY <3>1 DEF BeaconInv, BeaconType
    <3>2. CASE f \notin beaconFrames BY <1>2, <1>7, <3>2, BeaconsAssumption
    <3>3. QED BY <3>1, <3>2
  <2>2. QED BY <1>2, <2>1 DEF BeaconInv, BeaconType
<1>12. QED BY <1>2, <1>10, <1>11, SameTags DEF BeaconInv

LEMMA CleanupStep == ASSUME BeaconInv, NEW n \in Hosts, Cleanup(n) PROVE BeaconInv'
<1>1. /\ seen' = [seen EXCEPT ![n] = Unexpired(@)]
      /\ nonces' = [nonces EXCEPT ![n] = Unexpired(@)]
      /\ beacons' = beacons /\ beaconFrames' = beaconFrames /\ relayCh' = relayCh
      /\ answers' = answers /\ marked' = marked /\ clock' = clock /\ relayed' = relayed
      /\ accepted' = accepted
  BY DEF Cleanup
<1>2. DOMAIN seen = Hosts /\ DOMAIN nonces = Hosts BY DEF BeaconInv, TagsInv, NoncesInv
<1>3. /\ DOMAIN seen' = Hosts /\ seen'[n] = Unexpired(seen[n])
      /\ \A m \in Hosts : m # n => seen'[m] = seen[m]
      /\ DOMAIN nonces' = Hosts /\ nonces'[n] = Unexpired(nonces[n])
      /\ \A m \in Hosts : m # n => nonces'[m] = nonces[m]
  BY <1>1, <1>2
<1>4. /\ DOMAIN seen'[n] = {t \in DOMAIN seen[n] : clock <= seen[n][t]}
      /\ \A t \in DOMAIN seen'[n] : seen'[n][t] = seen[n][t]
      /\ DOMAIN nonces'[n] \subseteq DOMAIN nonces[n]
  BY <1>3 DEF Unexpired
<1>5. \A m \in Hosts : /\ \A t \in DOMAIN seen'[m] : t \in DOMAIN seen[m] /\ seen'[m][t] = seen[m][t]
                       /\ DOMAIN nonces'[m] \subseteq DOMAIN nonces[m]
                       /\ \A t \in DOMAIN seen[m] : t \in DOMAIN seen'[m] \/ ~(clock <= seen[m][t])
  BY <1>3, <1>4
<1>6. clock \in Nat /\ BeaconTTL \in Nat BY BeaconsAssumption DEF BeaconInv, BeaconType
<1>7. BeaconType' /\ QueueType' BY <1>1 DEF BeaconInv, BeaconType, QueueType
<1>8. TagsInv' BY <1>1, <1>3, <1>5 DEF BeaconInv, TagsInv
<1>9. \A m \in Hosts : \A t \in DOMAIN seen[m] :
        /\ t \in DOMAIN beacons /\ seen[m][t] \in Nat /\ beacons[t].time \in Nat
        /\ seen[m][t] >= beacons[t].time + BeaconTTL
  BY SentTypes DEF BeaconInv, TagsInv
<1>10. AnswersInv'
  <2>1. ASSUME NEW a \in answers
        PROVE  a.tag \in DOMAIN seen'[a.by] \/ clock > beacons[a.tag].time + BeaconTTL
    BY <1>5, <1>6, <1>9 DEF BeaconInv, AnswersInv
  <2>2. QED BY <1>1, <2>1 DEF BeaconInv, AnswersInv, AnsweredOnce
<1>11. RelaysInv'
  <2>1. ASSUME NEW r \in relayed
        PROVE  \/ r.tag \in DOMAIN seen'[r.node] /\ seen'[r.node][r.tag] >= r.time + BeaconTTL
               \/ clock > r.time + BeaconTTL BY <1>5, <1>6, <1>9 DEF BeaconInv, RelaysInv
  <2>2. QED BY <1>1, <2>1 DEF BeaconInv, RelaysInv
<1>12. NoncesInv'
  <2>1. ASSUME NEW a \in accepted
        PROVE  a.tag \notin DOMAIN nonces'[beacons[a.tag].sender] BY <1>5, SentTypes DEF BeaconInv, NoncesInv
  <2>2. \A m \in Hosts : DOMAIN nonces'[m] \subseteq DOMAIN beacons
    BY <1>5 DEF BeaconInv, NoncesInv
  <2>3. QED BY <1>1, <1>3, <2>1, <2>2 DEF BeaconInv, NoncesInv, AcceptedOnce
<1>13. QED BY <1>7, <1>8, <1>10, <1>11, <1>12 DEF BeaconInv

LEMMA AnswerStep ==
  ASSUME BeaconInv, NEW a \in answers, HandleBeaconResponse(a) PROVE BeaconInv'
<1>1. PICK n : n = beacons[a.tag].sender OBVIOUS
<1>2. /\ a.tag \in DOMAIN nonces[n] /\ nonces' = [nonces EXCEPT ![n] = Less(@, a.tag)]
      /\ \/ /\ marked' = [marked EXCEPT ![n] = @ \cup {a.by}]
            /\ accepted' = accepted \cup {[tag |-> a.tag, by |-> a.by]}
         \/ marked' = marked /\ accepted' = accepted
      /\ beacons' = beacons /\ beaconFrames' = beaconFrames /\ seen' = seen
      /\ relayCh' = relayCh /\ answers' = answers /\ clock' = clock /\ relayed' = relayed
  BY <1>1 DEF HandleBeaconResponse, UseNonce
<1>3. a.tag \in DOMAIN beacons BY DEF BeaconInv, AnswersInv
<1>4. n \in Hosts BY <1>1, <1>3, SentTypes DEF BeaconInv
<1>5. DOMAIN nonces = Hosts /\ DOMAIN marked = Hosts BY DEF BeaconInv, NoncesInv
<1>6. /\ DOMAIN nonces' = Hosts /\ nonces'[n] = Less(nonces[n], a.tag)
      /\ \A m \in Hosts : m # n => nonces'[m] = nonces[m]
  BY <1>2, <1>4, <1>5
<1>7. DOMAIN nonces'[n] = DOMAIN nonces[n] \ {a.tag} BY <1>6 DEF Less
<1>8. PICK x : x = [tag |-> a.tag, by |-> a.by] OBVIOUS
<1>9. x.tag = a.tag /\ x.by = a.by BY <1>8
<1>10. \A b \in accepted : /\ b.tag \in DOMAIN beacons
                           /\ b.tag \notin DOMAIN nonces[beacons[b.tag].sender]
  BY DEF BeaconInv, NoncesInv
<1>11. \A b \in accepted : b.tag # a.tag BY <1>1, <1>2, <1>10
<1>12. \A m \in Hosts : DOMAIN nonces'[m] \subseteq DOMAIN nonces[m] BY <1>6, <1>7
<1>13. accepted' \subseteq accepted \cup {x} BY <1>2, <1>8
<1>14. ASSUME NEW b \in accepted'
       PROVE  /\ b.tag \in DOMAIN beacons
              /\ b.tag \notin DOMAIN nonces'[beacons[b.tag].sender]
  <2>1. CASE b \in accepted BY <1>10, <1>12, <2>1, SentTypes DEF BeaconInv
  <2>2. CASE b = x BY <1>1, <1>3, <1>7, <1>9, <2>2
  <2>3. QED BY <1>13, <2>1, <2>2
<1>15. \A b, c \in accepted' : b.tag = c.tag => b = c BY <1>9, <1>11, <1>13 DEF BeaconInv, NoncesInv, AcceptedOnce
<1>16. DOMAIN marked' = Hosts BY <1>2, <1>5
<1>17. ASSUME NEW m \in Hosts, NEW f \in marked'[m]
       PROVE  \E b \in accepted' : b.by = f /\ beacons[b.tag].sender = m
  <2>1. CASE f \in marked[m] BY <1>2, <2>1 DEF BeaconInv, NoncesInv, AcceptedOnce
  <2>2. CASE f \notin marked[m] BY <1>1, <1>2, <1>5, <1>8, <1>9, <2>2
  <2>3. QED BY <2>1, <2>2
<1>18. AcceptedOnce' BY <1>2, <1>15, <1>17 DEF AcceptedOnce
<1>19. \A m \in Hosts : DOMAIN nonces'[m] \subseteq DOMAIN beacons
  BY <1>12 DEF BeaconInv, NoncesInv
<1>20. NoncesInv' BY <1>2, <1>6, <1>14, <1>16, <1>18, <1>19 DEF NoncesInv
<1>21. QED BY <1>2, <1>20, SameTags DEF BeaconInv

LEMMA OfflineStep ==
  ASSUME BeaconInv, NEW n \in Hosts, NEW f \in marked[n], MarkOffline(n, f) PROVE BeaconInv'
BY SameTags DEF MarkOffline, BeaconInv, NoncesInv, AcceptedOnce

LEMMA PassStep == ASSUME BeaconInv, Pass PROVE BeaconInv'
<1>1. /\ clock' = clock + 1 /\ beacons' = beacons /\ beaconFrames' = beaconFrames
      /\ seen' = seen /\ relayCh' = relayCh /\ nonces' = nonces /\ answers' = answers
      /\ marked' = marked /\ relayed' = relayed /\ accepted' = accepted
  BY DEF Pass
<1>2. clock \in Nat /\ BeaconTTL \in Nat /\ \A t \in DOMAIN beacons : beacons[t].time \in Nat
  BY BeaconsAssumption, SentTypes DEF BeaconInv, BeaconType
<1>3. BeaconType' BY <1>1, <1>2 DEF BeaconInv, BeaconType
<1>4. QueueType' /\ TagsInv' /\ NoncesInv'
  BY <1>1 DEF BeaconInv, QueueType, TagsInv, NoncesInv, AcceptedOnce
<1>5. AnswersInv' BY <1>1, <1>2 DEF BeaconInv, AnswersInv, AnsweredOnce
<1>6. RelaysInv' BY <1>1, <1>2 DEF BeaconInv, RelaysInv
<1>7. QED BY <1>3, <1>4, <1>5, <1>6 DEF BeaconInv

LEMMA FrameStep ==
  ASSUME BeaconInv, NEW f \in beaconFrames, HandleBeaconFrame(f) PROVE BeaconInv'
<1>1. PICK n, t, b : n = f.at /\ t = f.tag /\ b = beacons[t] OBVIOUS
<1>2. /\ beaconFrames' = beaconFrames \ {f} /\ beacons' = beacons /\ nonces' = nonces
      /\ marked' = marked /\ clock' = clock /\ accepted' = accepted
  BY DEF HandleBeaconFrame
<1>3. /\ t \in DOMAIN beacons /\ n \in Hosts /\ f.from \in Hosts /\ f.hop \in 0..HopMax
      /\ t \in Nat /\ b.time \in Nat /\ b.time <= clock
  BY <1>1, SentTypes DEF BeaconInv, BeaconType
<1>4. clock \in Nat /\ BeaconTTL \in Nat /\ HopMax \in Nat
  BY BeaconsAssumption DEF BeaconInv, BeaconType
<1>5. CASE f.hop > HopMax \/ Remembered(n, t) BY <1>1, <1>2, <1>5, SameTags DEF HandleBeaconFrame, BeaconInv
<1>6. CASE ~(f.hop > HopMax \/ Remembered(n, t))
  <2>1. PICK x, y, z : /\ x = [tag |-> t, by |-> n, time |-> clock]
                       /\ y = [node |-> n, tag |-> t, time |-> clock]
                       /\ z = [tag |-> t, hop |-> f.hop + 1, except |-> f.from]
    OBVIOUS
  <2>2. /\ seen' = [seen EXCEPT ![n] = Plus(@, t, clock + BeaconTTL)]
        /\ answers' = (IF Answers(n, b) THEN answers \cup {x} ELSE answers)
        /\ \/ /\ f.hop + 1 <= HopMax /\ relayCh' = [relayCh EXCEPT ![n] = Append(@, z)]
              /\ relayed' = relayed \cup {y}
           \/ relayCh' = relayCh /\ relayed' = relayed
    BY <1>1, <1>6, <2>1 DEF HandleBeaconFrame
  <2>3. t \notin DOMAIN seen[n] BY <1>6 DEF Remembered
  <2>4. /\ x.tag = t /\ x.by = n /\ x.time = clock /\ y.node = n /\ y.tag = t /\ y.time = clock
    BY <2>1
  <2>5. DOMAIN seen = Hosts BY DEF BeaconInv, TagsInv
  <2>6. /\ DOMAIN seen' = Hosts /\ seen'[n] = Plus(seen[n], t, clock + BeaconTTL)
        /\ \A m \in Hosts : m # n => seen'[m] = seen[m]
    BY <1>3, <2>2, <2>5
  <2>7. /\ DOMAIN seen'[n] = DOMAIN seen[n] \cup {t} /\ seen'[n][t] = clock + BeaconTTL
        /\ \A u \in DOMAIN seen[n] : seen'[n][u] = seen[n][u]
    BY <2>3, <2>6 DEF Plus
  <2>8. \A m \in Hosts : \A u \in DOMAIN seen[m] :
          u \in DOMAIN seen'[m] /\ seen'[m][u] = seen[m][u]
    BY <2>6, <2>7
  <2>9. BeaconType' BY <1>2 DEF BeaconInv, BeaconType
  <2>10. QueueType'
    <3>1. CASE relayCh' = relayCh BY <1>2, <3>1 DEF BeaconInv, QueueType
    <3>2. CASE f.hop + 1 <= HopMax /\ relayCh' = [relayCh EXCEPT ![n] = Append(@, z)]
      <4>1. z \in Task /\ z.tag = t BY <1>3, <2>1, <3>2 DEF Task
      <4>2. /\ relayCh \in [Hosts -> Seq(Task)]
            /\ \A m \in Hosts : \A i \in DOMAIN relayCh[m] : relayCh[m][i].tag \in DOMAIN beacons
        BY DEF BeaconInv, QueueType
      <4>3. PICK q, r : q = relayCh[n] /\ r = Append(q, z) OBVIOUS
      <4>4. q \in Seq(Task) /\ \A i \in DOMAIN q : q[i].tag \in DOMAIN beacons
        BY <1>3, <4>2, <4>3
      <4>5. /\ r \in Seq(Task) /\ DOMAIN r = 1..(Len(q) + 1) /\ r[Len(q) + 1] = z
            /\ \A i \in 1..Len(q) : r[i] = q[i]
            /\ DOMAIN q = 1..Len(q) /\ Len(q) \in Nat
        BY <4>1, <4>3, <4>4
      <4>6. \A i \in DOMAIN r : i \in DOMAIN q \/ i = Len(q) + 1 BY <4>5
      <4>7. \A i \in DOMAIN r : r[i].tag \in DOMAIN beacons
        BY <1>3, <4>1, <4>4, <4>5, <4>6
      <4>8. relayCh' = [relayCh EXCEPT ![n] = r] BY <3>2, <4>3
      <4>9. /\ relayCh' \in [Hosts -> Seq(Task)] /\ relayCh'[n] = r
            /\ \A m \in Hosts : m # n => relayCh'[m] = relayCh[m]
        BY <1>3, <4>2, <4>5, <4>8
      <4>10. QED BY <1>2, <4>2, <4>7, <4>9 DEF QueueType
    <3>3. QED BY <2>2, <3>1, <3>2
  <2>11. TagsInv'
    <3>1. ASSUME NEW m \in Hosts, NEW u \in DOMAIN seen'[m]
          PROVE  /\ u \in DOMAIN beacons /\ seen'[m][u] \in Nat
                 /\ seen'[m][u] >= beacons[u].time + BeaconTTL
      <4>1. CASE m = n /\ u = t BY <1>1, <1>3, <1>4, <2>7, <4>1
      <4>2. CASE ~(m = n /\ u = t) BY <2>6, <2>7, <2>8, <4>2 DEF BeaconInv, TagsInv
      <4>3. QED BY <4>1, <4>2
    <3>2. QED BY <1>2, <2>6, <3>1 DEF TagsInv
  <2>12. AnswersInv'
    <3>1. answers' \subseteq answers \cup {x} BY <2>2
    <3>2. \A a \in answers :
            /\ a.tag \in DOMAIN beacons /\ a.by \in Hosts
            /\ a.tag \in DOMAIN seen[a.by] \/ clock > beacons[a.tag].time + BeaconTTL
      BY DEF BeaconInv, AnswersInv
    <3>3. ASSUME NEW a \in answers'
          PROVE  /\ a.tag \in DOMAIN beacons /\ a.by \in Hosts
                 /\ a.tag \in DOMAIN seen'[a.by] \/ clock > beacons[a.tag].time + BeaconTTL
      BY <1>3, <2>4, <2>7, <2>8, <3>1, <3>2
    <3>4. ASSUME Answers(n, b), NEW a \in answers, a.tag = t, a.by = n PROVE FALSE
      BY <1>1, <1>3, <1>4, <2>3, <3>2, <3>4 DEF Answers, InTime
    <3>5. \A a, c \in answers : a.tag = c.tag /\ a.by = c.by => a.time = c.time
      BY DEF BeaconInv, AnswersInv, AnsweredOnce
    <3>6. \A a, c \in answers' : a.tag = c.tag /\ a.by = c.by => a.time = c.time BY <2>2, <2>4, <3>4, <3>5
    <3>7. QED BY <1>2, <3>3, <3>6 DEF AnswersInv, AnsweredOnce
  <2>13. RelaysInv'
    <3>1. relayed' \subseteq relayed \cup {y} BY <2>2
    <3>2. \A r \in relayed :
            /\ r.node \in Hosts /\ r.tag \in DOMAIN beacons /\ r.time \in Nat
            /\ \/ r.tag \in DOMAIN seen[r.node] /\ seen[r.node][r.tag] >= r.time + BeaconTTL
               \/ clock > r.time + BeaconTTL
      BY DEF BeaconInv, RelaysInv
    <3>3. ASSUME NEW r \in relayed'
          PROVE  /\ r.node \in Hosts /\ r.tag \in DOMAIN beacons /\ r.time \in Nat
                 /\ \/ r.tag \in DOMAIN seen'[r.node] /\ seen'[r.node][r.tag] >= r.time + BeaconTTL
                    \/ clock > r.time + BeaconTTL BY <1>3, <1>4, <2>4, <2>7, <2>8, <3>1, <3>2
    <3>4. \A r \in relayed : r.node = n /\ r.tag = t => clock - r.time > BeaconTTL /\ ~(clock < r.time)
      BY <1>4, <2>3, <3>2
    <3>5. \A r, s \in relayed :
            r.node = s.node /\ r.tag = s.tag /\ r.time < s.time => s.time - r.time > BeaconTTL
      BY DEF BeaconInv, RelaysInv
    <3>6. \A r, s \in relayed' :
            r.node = s.node /\ r.tag = s.tag /\ r.time < s.time => s.time - r.time > BeaconTTL
      BY <1>4, <2>4, <3>1, <3>4, <3>5
    <3>7. QED BY <1>2, <3>3, <3>6 DEF RelaysInv
  <2>14. NoncesInv' BY <1>2 DEF BeaconInv, NoncesInv, AcceptedOnce
  <2>15. QED BY <2>9, <2>10, <2>11, <2>12, <2>13, <2>14 DEF BeaconInv
<1>7. QED BY <1>5, <1>6

LEMMA BeaconStart == ASSUME BeaconsInit PROVE BeaconInv
<1>1. /\ beacons = <<>> /\ beaconFrames = {} /\ answers = {} /\ clock = 0
      /\ seen = [n \in Hosts |-> <<>>] /\ nonces = [n \in Hosts |-> <<>>]
      /\ relayCh = [n \in Hosts |-> <<>>] /\ marked = [n \in Hosts |-> {}]
      /\ relayed = {} /\ accepted = {}
  BY DEF BeaconsInit
<1>2. PICK none : none = <<>> OBVIOUS
<1>3. none \in Seq(Task) /\ DOMAIN none = {} /\ none \in Seq(Sent) BY <1>2
<1>4. BeaconType BY <1>1, <1>2, <1>3 DEF BeaconType
<1>5. QueueType BY <1>1, <1>2, <1>3 DEF QueueType
<1>6. TagsInv BY <1>1, <1>2, <1>3 DEF TagsInv
<1>7. AnswersInv BY <1>1 DEF AnswersInv, AnsweredOnce
<1>8. RelaysInv BY <1>1 DEF RelaysInv
<1>9. NoncesInv BY <1>1, <1>2, <1>3 DEF NoncesInv, AcceptedOnce
<1>10. QED BY <1>4, <1>5, <1>6, <1>7, <1>8, <1>9 DEF BeaconInv

LEMMA BeaconStep == ASSUME BeaconInv, [BeaconsNext]_beaconsVars PROVE BeaconInv'
BY SameTags, SendStep, FrameStep, LoseStep, RelayStep, CleanupStep, AnswerStep, OfflineStep, PassStep DEF
   beaconsVars, BeaconInv, BeaconsNext

(* For every network, every table of friends and any number of beacons and  *)
(* ticks: a friend answers a beacon once, one answer to it is accepted, and  *)
(* no node relays it twice in its lifetime or past the last hop.           *)
THEOREM BeaconsAreSound == BeaconsSpec => []BeaconsSound
<1>1. BeaconsInit => BeaconInv BY BeaconStart
<1>2. BeaconInv /\ [BeaconsNext]_beaconsVars => BeaconInv' BY BeaconStep
<1>3. BeaconInv => BeaconsSound
  BY BeaconsAssumption DEF BeaconInv, BeaconsSound, AnswersInv, NoncesInv, RelaysInv, RelayedOnce, BeaconType
<1>4. QED BY <1>1, <1>2, <1>3, PTL DEF BeaconsSpec

-----------------------------------------------------------------------------
(* Who is believed online.                                                 *)

Tie == [friend : Buddies, by : Callers, reading : BOOLEAN, removed : {"no", "taken", "told"}]

Occupied == Deciding \cup Waiting
Spots == Occupied \cup {"idle", "refused", "ended"}

(* A caller dials successfully once; before that it has no connection.     *)
TiesInv ==
  /\ at \in [Callers -> Spots]
  /\ ties \in Seq(Tie)
  /\ \A k, l \in DOMAIN ties : ties[k].by = ties[l].by => k = l
  /\ \A c \in Callers : at[c] \in {"idle", "dial"} => \A l \in DOMAIN ties : ties[l].by # c
  /\ \A c \in Callers : at[c] = "connect" => \E l \in DOMAIN ties : ties[l].by = c

(* What the map has for a friend is a connection with it.                  *)
MapInv ==
  /\ mapped \in [Buddies -> Nat \cup {Unmapped}] /\ online \in [Buddies -> BOOLEAN]
  /\ \A f \in Buddies : mapped[f] # Unmapped =>
       mapped[f] \in DOMAIN ties /\ ties[mapped[f]].friend = f
  /\ untried \in [Callers -> SUBSET Buddies]

(* As long as no caller went past the check with another one there, one at *)
(* most decides or waits, and the state tells which.                       *)
StateInv ==
  ~doubled =>
    /\ \A c, d \in Callers : at[c] \in Occupied /\ at[d] \in Occupied => c = d
    /\ \A c \in Callers : /\ at[c] \in Deciding => nodeState = "OFFLINE"
                          /\ at[c] \in Waiting => nodeState = "LIMBO"
    /\ nodeState = "LIMBO" => \E c \in Callers : at[c] \in Waiting
    /\ loops = IF nodeState = "ONLINE" THEN 1 ELSE 0

MarksInv == TiesInv /\ MapInv /\ MarksMatch

LEMMA PutTie ==
  ASSUME NEW T, NEW s \in Seq(T), NEW i \in DOMAIN s, NEW x \in T
  PROVE  LET t == [s EXCEPT ![i] = x] IN
         /\ t \in Seq(T) /\ DOMAIN t = DOMAIN s /\ t[i] = x
         /\ \A j \in DOMAIN s : j # i => t[j] = s[j]
OBVIOUS

LEMMA TieTypes ==
  ASSUME TiesInv, NEW l \in DOMAIN ties
  PROVE  /\ ties[l].friend \in Buddies /\ ties[l].by \in Callers /\ l \in Nat
         /\ ties[l].removed \in {"no", "taken", "told"} /\ ties[l] \in Tie
<1>1. ties \in Seq(Tie) BY DEF TiesInv
<1>2. ties[l] \in Tie /\ l \in Nat BY <1>1
<1>3. QED BY <1>2 DEF Tie

LEMMA Went ==
  ASSUME TiesInv, NEW c \in Callers, NEW pc \in Spots, Goto(c, pc)
  PROVE  /\ at' \in [Callers -> Spots] /\ at'[c] = pc
         /\ \A d \in Callers : d # c => at'[d] = at[d]
BY DEF Goto, TiesInv

(* A step of a caller between two places that no mark depends on.          *)
LEMMA GotoStep ==
  ASSUME MarksInv, NEW c \in Callers, NEW pc \in Spots, Goto(c, pc),
         at[c] # "connect", pc # "connect", pc # "idle", pc = "dial" => at[c] = "idle",
         untried' \in [Callers -> SUBSET Buddies],
         mapped' = mapped, ties' = ties, online' = online, raced' = raced, answered' = answered
  PROVE  MarksInv'
<1>1. TiesInv BY DEF MarksInv
<1>3. at' \in [Callers -> Spots] /\ at'[c] = pc /\ \A d \in Callers : d # c => at'[d] = at[d]
  BY <1>1, Went
<1>4. TiesInv' BY <1>3 DEF MarksInv, TiesInv
<1>5. MapInv' BY DEF MarksInv, MapInv
<1>7. \A l \in DOMAIN ties : ties[l].by \in Callers BY <1>1, TieTypes
<1>8. MarksMatch'
  <2>1. SUFFICES ASSUME NEW f \in Buddies, Settled(f)', f \notin raced \cup answered
                 PROVE  online[f] <=> mapped[f] # Unmapped
    BY DEF MarksMatch
  <2>2. ASSUME NEW l \in DOMAIN ties, ties[l].friend = f
        PROVE  ties[l].removed # "taken" /\ at[ties[l].by] # "connect" BY <1>3, <1>7, <2>1, <2>2 DEF Settled
  <2>3. Settled(f) BY <2>2 DEF Settled
  <2>4. QED BY <2>1, <2>3 DEF MarksInv, MarksMatch
<1>9. QED BY <1>4, <1>5, <1>8 DEF MarksInv

LEMMA DialFriendStep ==
  ASSUME MarksInv, NEW c \in Callers, NEW f \in untried[c], DialFriend(c, f) PROVE MarksInv'
<1>1. f \in Buddies BY DEF MarksInv, MapInv
<1>2. PICK x : x = [friend |-> f, by |-> c, reading |-> TRUE, removed |-> "no"] OBVIOUS
<1>3. /\ at[c] = "dial" /\ Goto(c, "connect") /\ ties' = Append(ties, x)
      /\ mapped' = [mapped EXCEPT ![f] = Len(ties) + 1]
      /\ untried' = untried /\ online' = online /\ raced' = raced /\ answered' = answered
  BY <1>2 DEF DialFriend, marks
<1>4. ties \in Seq(Tie) /\ at \in [Callers -> Spots] BY DEF MarksInv, TiesInv
<1>5. x \in Tie /\ x.by = c /\ x.friend = f BY <1>1, <1>2 DEF Tie
<1>6. PICK n \in Nat : n = Len(ties) BY <1>4
<1>7. /\ ties' \in Seq(Tie) /\ DOMAIN ties' = 1..(n + 1) /\ ties'[n + 1] = x
      /\ \A l \in 1..n : ties'[l] = ties[l]
      /\ DOMAIN ties = 1..n
  BY <1>3, <1>4, <1>5, <1>6
<1>8. /\ at' \in [Callers -> Spots] /\ at'[c] = "connect"
      /\ \A d \in Callers : d # c => at'[d] = at[d] BY <1>3, Went DEF MarksInv, Spots, Occupied, Deciding
<1>9. \A l \in 1..n : ties[l].by # c BY <1>3, <1>7 DEF MarksInv, TiesInv
<1>10. \A l \in 1..(n + 1) : l \in 1..n \/ l = n + 1 OBVIOUS
<1>11. n + 1 \in 1..(n + 1) /\ \A l \in 1..n : l \in 1..(n + 1) /\ l # n + 1 OBVIOUS
<1>12. TiesInv' BY <1>5, <1>7, <1>8, <1>9, <1>10, <1>11 DEF MarksInv, TiesInv
<1>13. /\ mapped \in [Buddies -> Nat \cup {Unmapped}]
       /\ \A g \in Buddies : mapped[g] # Unmapped =>
            mapped[g] \in 1..n /\ ties[mapped[g]].friend = g
  BY <1>7 DEF MarksInv, MapInv
<1>14. /\ mapped'[f] = n + 1 /\ mapped' \in [Buddies -> Nat \cup {Unmapped}]
       /\ \A g \in Buddies : g # f => mapped'[g] = mapped[g]
  BY <1>1, <1>3, <1>6, <1>13
<1>15. MapInv' BY <1>3, <1>5, <1>7, <1>11, <1>13, <1>14 DEF MarksInv, MapInv
<1>16. MarksMatch'
  <2>1. SUFFICES ASSUME NEW g \in Buddies, Settled(g)', g \notin raced \cup answered
                 PROVE  online[g] <=> mapped'[g] # Unmapped
    BY <1>3 DEF MarksMatch
  <2>2. \A l \in 1..(n + 1) : ties'[l].friend = g =>
          ties'[l].removed # "taken" /\ at'[ties'[l].by] # "connect"
    BY <1>7, <2>1 DEF Settled
  <2>3. g # f BY <1>5, <1>7, <1>8, <1>11, <2>2
  <2>4. ASSUME NEW l \in 1..n, ties[l].friend = g
        PROVE  ties[l].removed # "taken" /\ at[ties[l].by] # "connect"
    BY <1>7, <1>8, <1>9, <1>11, <2>2, <2>4, TieTypes DEF MarksInv
  <2>5. Settled(g) BY <1>7, <2>4 DEF Settled
  <2>6. online[g] <=> mapped[g] # Unmapped BY <2>1, <2>5 DEF MarksInv, MarksMatch
  <2>7. QED BY <1>14, <2>3, <2>6
<1>17. QED BY <1>12, <1>15, <1>16 DEF MarksInv

LEMMA ConnectStep ==
  ASSUME MarksInv, NEW c \in Callers, HandleConnect(c) PROVE MarksInv'
<1>1. PICK l : l = CHOOSE i \in DOMAIN ties : ties[i].by = c OBVIOUS
<1>2. /\ at[c] = "connect" /\ Goto(c, "reached")
      /\ untried' = untried /\ mapped' = mapped /\ ties' = ties
  BY DEF HandleConnect, tables
<1>3. \E i \in DOMAIN ties : ties[i].by = c BY <1>2 DEF MarksInv, TiesInv
<1>4. l \in DOMAIN ties /\ ties[l].by = c BY <1>1, <1>3
<1>5. PICK f : f = ties[l].friend OBVIOUS
<1>6. /\ online' = [online EXCEPT ![f] = TRUE] /\ answered' = answered \ {f}
      /\ raced' = IF mapped[f] = l THEN raced \ {f} ELSE raced \cup {f}
  BY <1>1, <1>5 DEF HandleConnect
<1>7. ties \in Seq(Tie) /\ at \in [Callers -> Spots] BY DEF MarksInv, TiesInv
<1>8. f \in Buddies /\ l \in Nat BY <1>4, <1>5, TieTypes DEF MarksInv
<1>9. /\ at' \in [Callers -> Spots] /\ at'[c] = "reached"
      /\ \A d \in Callers : d # c => at'[d] = at[d] BY <1>2, Went DEF MarksInv, Spots, Occupied, Deciding
<1>10. TiesInv' BY <1>2, <1>9 DEF MarksInv, TiesInv
<1>11. online \in [Buddies -> BOOLEAN] BY DEF MarksInv, MapInv
<1>12. /\ online' \in [Buddies -> BOOLEAN] /\ online'[f] = TRUE
       /\ \A g \in Buddies : g # f => online'[g] = online[g]
  BY <1>6, <1>8, <1>11
<1>13. MapInv' BY <1>2, <1>12 DEF MarksInv, MapInv
<1>14. MarksMatch'
  <2>1. SUFFICES ASSUME NEW g \in Buddies, Settled(g)', g \notin raced' \cup answered'
                 PROVE  online'[g] <=> mapped[g] # Unmapped
    BY <1>2 DEF MarksMatch
  <2>2. CASE g = f BY <1>6, <1>8, <1>12, <2>1, <2>2, PresenceAssumption
  <2>3. CASE g # f
    <3>1. ASSUME NEW k \in DOMAIN ties, ties[k].friend = g
          PROVE  ties[k].removed # "taken" /\ at[ties[k].by] # "connect"
      BY <1>2, <1>4, <1>5, <1>9, <2>1, <2>3, <3>1, TieTypes DEF MarksInv, TiesInv, Settled
    <3>2. Settled(g) BY <3>1 DEF Settled
    <3>3. g \notin raced \cup answered BY <1>6, <2>1, <2>3
    <3>4. online[g] <=> mapped[g] # Unmapped BY <3>2, <3>3 DEF MarksInv, MarksMatch
    <3>5. QED BY <1>12, <2>3, <3>4
  <2>4. QED BY <2>2, <2>3
<1>15. QED BY <1>10, <1>13, <1>14 DEF MarksInv

(* A step that touches only the connections with f and its mark, and ends   *)
(* in agreement or with a connection that was taken out.                   *)
LEMMA OneFriend ==
  ASSUME MarksInv, NEW f \in Buddies, at' = at, untried' = untried,
         ties' \in Seq(Tie), DOMAIN ties' = DOMAIN ties,
         \A l \in DOMAIN ties : ties'[l].by = ties[l].by /\ ties'[l].friend = ties[l].friend,
         \A l \in DOMAIN ties : ties[l].friend # f => ties'[l] = ties[l],
         \A g \in Buddies : g # f => mapped'[g] = mapped[g] /\ online'[g] = online[g]
                                      /\ (g \in raced' \cup answered' <=> g \in raced \cup answered),
         mapped'[f] \in {mapped[f], Unmapped},
         mapped' \in [Buddies -> Nat \cup {Unmapped}], online' \in [Buddies -> BOOLEAN],
         \/ \E l \in DOMAIN ties : ties'[l].friend = f /\ ties'[l].removed = "taken"
         \/ f \notin raced' \cup answered' => (online'[f] <=> mapped'[f] # Unmapped)
         \/ /\ \A l \in DOMAIN ties : ties'[l].removed = ties[l].removed
            /\ mapped'[f] = mapped[f] /\ online'[f] = online[f]
            /\ (f \in raced' \cup answered' <=> f \in raced \cup answered)
  PROVE  MarksInv'
<1>1. TiesInv' BY DEF MarksInv, TiesInv
<1>2. MapInv' BY DEF MarksInv, MapInv
<1>3. MarksMatch' BY DEF MarksMatch, Settled, MarksInv
<1>4. QED BY <1>1, <1>2, <1>3 DEF MarksInv

(* What still is of a connection, which is told apart only in reading.      *)
LEMMA TakeOutStep ==
  ASSUME MarksInv, NEW f \in Buddies, NEW still \in Seq(Tie), TakeOut(f, still),
         DOMAIN still = DOMAIN ties,
         \A l \in DOMAIN ties : /\ still[l].by = ties[l].by /\ still[l].friend = ties[l].friend
                                /\ still[l].removed = ties[l].removed,
         \A l \in DOMAIN ties : ties[l].friend # f => still[l] = ties[l],
         at' = at, untried' = untried, online' = online, raced' = raced, answered' = answered
  PROVE  MarksInv'
<1>1. /\ mapped \in [Buddies -> Nat \cup {Unmapped}] /\ online \in [Buddies -> BOOLEAN]
      /\ mapped[f] # Unmapped => mapped[f] \in DOMAIN ties /\ ties[mapped[f]].friend = f
  BY DEF MarksInv, MapInv
<1>2. mapped' = [mapped EXCEPT ![f] = Unmapped] BY DEF TakeOut
<1>3. /\ mapped' \in [Buddies -> Nat \cup {Unmapped}] /\ mapped'[f] = Unmapped
      /\ \A g \in Buddies : g # f => mapped'[g] = mapped[g]
  BY <1>1, <1>2
<1>4. CASE mapped[f] = Unmapped BY <1>1, <1>3, <1>4, OneFriend DEF TakeOut
<1>5. CASE mapped[f] # Unmapped
  <2>1. PICK k : k = mapped[f] OBVIOUS
  <2>2. k \in DOMAIN still /\ ties[k].friend = f BY <1>1, <1>5, <2>1
  <2>3. PICK x : x = [still[k] EXCEPT !.removed = "taken"] OBVIOUS
  <2>4. still[k] \in Tie BY <2>2
  <2>5. x \in Tie /\ x.by = still[k].by /\ x.friend = still[k].friend /\ x.removed = "taken"
    BY <2>3, <2>4 DEF Tie
  <2>6. ties' = [still EXCEPT ![k] = x] BY <1>5, <2>1, <2>3 DEF TakeOut
  <2>7. /\ ties' \in Seq(Tie) /\ DOMAIN ties' = DOMAIN still /\ ties'[k] = x
        /\ \A j \in DOMAIN still : j # k => ties'[j] = still[j]
    BY <2>2, <2>5, <2>6, PutTie
  <2>8. \A l \in DOMAIN ties : ties'[l].by = ties[l].by /\ ties'[l].friend = ties[l].friend
    <3>1. SUFFICES ASSUME NEW l \in DOMAIN ties
                   PROVE  ties'[l].by = ties[l].by /\ ties'[l].friend = ties[l].friend
      OBVIOUS
    <3>2. CASE l = k BY <2>5, <2>7, <3>2
    <3>3. CASE l # k BY <2>7, <3>3
    <3>4. QED BY <3>2, <3>3
  <2>9. \A l \in DOMAIN ties : ties[l].friend # f => ties'[l] = ties[l]
    BY <2>2, <2>7
  <2>10. \E l \in DOMAIN ties : ties'[l].friend = f /\ ties'[l].removed = "taken"
    BY <2>2, <2>5, <2>7
  <2>11. QED BY <1>1, <1>3, <2>7, <2>8, <2>9, <2>10, OneFriend
<1>6. QED BY <1>4, <1>5

LEMMA LoopEndsStep ==
  ASSUME MarksInv, NEW l \in DOMAIN ties, LoopEnds(l) PROVE MarksInv'
<1>1. ties \in Seq(Tie) BY DEF MarksInv, TiesInv
<1>2. PICK f, x : f = ties[l].friend /\ x = [ties[l] EXCEPT !.reading = FALSE] OBVIOUS
<1>3. f \in Buddies /\ ties[l] \in Tie BY <1>2, TieTypes DEF MarksInv
<1>4. /\ x \in Tie /\ x.by = ties[l].by /\ x.friend = ties[l].friend
      /\ x.removed = ties[l].removed
  BY <1>2, <1>3 DEF Tie
<1>5. PICK still : still = [ties EXCEPT ![l] = x] OBVIOUS
<1>6. /\ still \in Seq(Tie) /\ DOMAIN still = DOMAIN ties /\ still[l] = x
      /\ \A j \in DOMAIN ties : j # l => still[j] = ties[j]
  BY <1>1, <1>4, <1>5, PutTie
<1>7. /\ TakeOut(f, still) /\ at' = at /\ untried' = untried /\ online' = online
      /\ raced' = raced /\ answered' = answered
  BY <1>2, <1>5 DEF LoopEnds, asking, marks
<1>8. \A k \in DOMAIN ties : /\ still[k].by = ties[k].by /\ still[k].friend = ties[k].friend
                             /\ still[k].removed = ties[k].removed
  <2>1. SUFFICES ASSUME NEW k \in DOMAIN ties
                 PROVE  /\ still[k].by = ties[k].by /\ still[k].friend = ties[k].friend
                        /\ still[k].removed = ties[k].removed
    OBVIOUS
  <2>2. CASE k = l BY <1>4, <1>6, <2>2
  <2>3. CASE k # l BY <1>6, <2>3
  <2>4. QED BY <2>2, <2>3
<1>9. \A k \in DOMAIN ties : ties[k].friend # f => still[k] = ties[k] BY <1>2, <1>6
<1>10. QED BY <1>3, <1>6, <1>7, <1>8, <1>9, TakeOutStep

LEMMA RemoveStep ==
  ASSUME MarksInv, NEW f \in Buddies, RemoveFriend(f) PROVE MarksInv'
BY TakeOutStep DEF RemoveFriend, asking, marks, MarksInv, TiesInv

LEMMA DisconnectStep ==
  ASSUME MarksInv, NEW l \in DOMAIN ties, HandleDisconnect(l) PROVE MarksInv'
<1>1. ties \in Seq(Tie) BY DEF MarksInv, TiesInv
<1>2. PICK f, x : f = ties[l].friend /\ x = [ties[l] EXCEPT !.removed = "told"] OBVIOUS
<1>3. f \in Buddies /\ ties[l] \in Tie BY <1>2, TieTypes DEF MarksInv
<1>4. x \in Tie /\ x.by = ties[l].by /\ x.friend = ties[l].friend
  BY <1>2, <1>3 DEF Tie
<1>5. /\ ties' = [ties EXCEPT ![l] = x] /\ online' = [online EXCEPT ![f] = FALSE]
      /\ raced' = (IF mapped[f] = Unmapped THEN raced \ {f} ELSE raced \cup {f})
      /\ answered' = answered \ {f}
      /\ at' = at /\ untried' = untried /\ mapped' = mapped
  BY <1>2 DEF HandleDisconnect, MarkFriendOffline, asking
<1>6. /\ ties' \in Seq(Tie) /\ DOMAIN ties' = DOMAIN ties /\ ties'[l] = x
      /\ \A j \in DOMAIN ties : j # l => ties'[j] = ties[j]
  BY <1>1, <1>4, <1>5, PutTie
<1>7. \A k \in DOMAIN ties : ties'[k].by = ties[k].by /\ ties'[k].friend = ties[k].friend
  <2>1. SUFFICES ASSUME NEW k \in DOMAIN ties
                 PROVE  ties'[k].by = ties[k].by /\ ties'[k].friend = ties[k].friend
    OBVIOUS
  <2>2. CASE k = l BY <1>4, <1>6, <2>2
  <2>3. CASE k # l BY <1>6, <2>3
  <2>4. QED BY <2>2, <2>3
<1>8. \A k \in DOMAIN ties : ties[k].friend # f => ties'[k] = ties[k] BY <1>2, <1>6
<1>9. online \in [Buddies -> BOOLEAN] /\ mapped \in [Buddies -> Nat \cup {Unmapped}]
  BY DEF MarksInv, MapInv
<1>10. /\ online' \in [Buddies -> BOOLEAN] /\ online'[f] = FALSE
       /\ \A g \in Buddies : g # f => online'[g] = online[g]
  BY <1>3, <1>5, <1>9
<1>11. \A g \in Buddies : g # f => (g \in raced' \cup answered' <=> g \in raced \cup answered)
  BY <1>5
<1>12. f \notin raced' \cup answered' => (online'[f] <=> mapped'[f] # Unmapped)
  BY <1>5, <1>10
<1>13. QED BY <1>3, <1>5, <1>6, <1>7, <1>8, <1>9, <1>10, <1>11, <1>12, OneFriend

LEMMA ResponseStep ==
  ASSUME MarksInv, NEW f \in Buddies, HandleResponse(f) PROVE MarksInv'
BY OneFriend DEF HandleResponse, asking, tables, MarksInv, MapInv, TiesInv

(* What no mark depends on.                                                *)
LEMMA QuietMarks ==
  ASSUME MarksInv, at' = at, untried' = untried, mapped' = mapped, ties' = ties,
         online' = online, raced' = raced, answered' = answered
  PROVE  MarksInv'
BY DEF MarksInv, TiesInv, MapInv, MarksMatch, Settled

LEMMA MarksStep == ASSUME MarksInv, [PresenceNext]_presenceVars PROVE MarksInv'
<1>1. untried \in [Callers -> SUBSET Buddies] BY DEF MarksInv, MapInv
<1>2. ASSUME NEW c \in Callers, GoOnline(c) PROVE MarksInv'
  BY <1>1, <1>2, GotoStep DEF GoOnline, tables, marks, Spots, Occupied, Deciding
<1>3. ASSUME NEW c \in Callers, HandleConnect(c) PROVE MarksInv' BY <1>3, ConnectStep
<1>4. ASSUME NEW c \in Callers, Reached(c) \/ LimboWon(c) \/ LimboLost(c) PROVE MarksInv'
  BY <1>1, <1>4, GotoStep DEF Spots, Occupied, Waiting, Reached, LimboWon, LimboLost, tables, marks
<1>5. ASSUME NEW c \in Callers, EnterLimbo(c) PROVE MarksInv'
  BY <1>1, <1>5, GotoStep DEF Spots, Occupied, Waiting, EnterLimbo, tables, marks
<1>6. ASSUME NEW c \in Callers, NEW f \in untried[c], DialFriend(c, f) PROVE MarksInv'
  BY <1>6, DialFriendStep
<1>7. ASSUME NEW c \in Callers, NEW f \in untried[c], DialFails(c, f) PROVE MarksInv'
  BY <1>1, <1>7 DEF DialFails, tables, marks, MarksInv, TiesInv, MapInv, MarksMatch, Settled
<1>8. ASSUME NEW c \in Callers,
             Delay(c) \/ SendBeacons(c) \/ CheckAtOnce(c) \/ CheckOnSignal(c) \/ WaitEnds(c)
      PROVE  MarksInv'
  BY <1>1, <1>8, GotoStep DEF Delay, SendBeacons, CheckAtOnce, CheckOnSignal, WaitEnds, tables, marks, AtDeadline,
     Next1, Waiting, Spots, Occupied
<1>9. ASSUME NEW l \in DOMAIN ties, LoopEnds(l) PROVE MarksInv' BY <1>9, LoopEndsStep
<1>10. ASSUME NEW l \in DOMAIN ties, HandleDisconnect(l) PROVE MarksInv'
  BY <1>10, DisconnectStep
<1>11. ASSUME NEW f \in Buddies, RemoveFriend(f) PROVE MarksInv' BY <1>11, RemoveStep
<1>12. ASSUME NEW f \in Buddies, HandleResponse(f) PROVE MarksInv' BY <1>12, ResponseStep
<1>13. CASE HandleStranger \/ CancelNode \/ UNCHANGED presenceVars
  BY <1>13, QuietMarks
  DEF HandleStranger, CancelNode, presenceVars, asking, tables, marks
<1>14. QED
  BY <1>2, <1>3, <1>4, <1>5, <1>6, <1>7, <1>8, <1>9, <1>10, <1>11, <1>12, <1>13
  DEF PresenceNext, WaitForResponses

(* A caller that goes from one place to another.                           *)
LEMMA StateGoto ==
  ASSUME StateInv, TiesInv, NEW c \in Callers, NEW pc \in Spots, Goto(c, pc),
         \/ /\ doubled' = doubled /\ nodeState' = nodeState /\ loops' = loops
            /\ \/ at[c] \in Deciding /\ pc \in Deciding
               \/ at[c] \in Waiting /\ pc \in Waiting
               \/ at[c] \notin Occupied /\ pc \notin Occupied
         \/ /\ at[c] = "idle" /\ pc = "dial" /\ nodeState = "OFFLINE"
            /\ nodeState' = nodeState /\ loops' = loops
            /\ doubled' = (doubled \/ \E d \in Callers : at[d] \in Deciding)
         \/ /\ at[c] \in Occupied /\ pc = "ended" /\ doubled' = doubled
            /\ \/ nodeState' = "ONLINE" /\ loops' = loops + 1
               \/ nodeState' = "ISOLATED" /\ loops' = loops /\ at[c] \in Waiting
         \/ /\ at[c] = "dial" /\ pc = "send" /\ doubled' = doubled
            /\ nodeState' = "LIMBO" /\ loops' = loops
  PROVE  StateInv'
<1>1. at'[c] = pc /\ \A d \in Callers : d # c => at'[d] = at[d] BY Went
<1>2. SUFFICES ASSUME ~doubled'
               PROVE  /\ \A d, e \in Callers : at'[d] \in Occupied /\ at'[e] \in Occupied => d = e
                      /\ \A d \in Callers : /\ at'[d] \in Deciding => nodeState' = "OFFLINE"
                                            /\ at'[d] \in Waiting => nodeState' = "LIMBO"
                      /\ nodeState' = "LIMBO" => \E d \in Callers : at'[d] \in Waiting
                      /\ loops' = IF nodeState' = "ONLINE" THEN 1 ELSE 0
  BY DEF StateInv
<1>3. ~doubled BY <1>2
<1>4. /\ \A d, e \in Callers : at[d] \in Occupied /\ at[e] \in Occupied => d = e
      /\ \A d \in Callers : /\ at[d] \in Deciding => nodeState = "OFFLINE"
                            /\ at[d] \in Waiting => nodeState = "LIMBO"
      /\ nodeState = "LIMBO" => \E d \in Callers : at[d] \in Waiting
      /\ loops = IF nodeState = "ONLINE" THEN 1 ELSE 0
  BY <1>3 DEF StateInv
<1>5. CASE /\ doubled' = doubled /\ nodeState' = nodeState /\ loops' = loops
           /\ \/ at[c] \in Deciding /\ pc \in Deciding
              \/ at[c] \in Waiting /\ pc \in Waiting
              \/ at[c] \notin Occupied /\ pc \notin Occupied
  <2>1. \A x \in Deciding : x \notin Waiting BY DEF Deciding, Waiting
  <2>2. /\ (at'[c] \in Deciding) <=> (at[c] \in Deciding)
        /\ (at'[c] \in Waiting) <=> (at[c] \in Waiting)
    BY <1>1, <1>5, <2>1 DEF Occupied
  <2>3. ASSUME NEW d \in Callers
        PROVE  /\ (at'[d] \in Deciding) <=> (at[d] \in Deciding)
               /\ (at'[d] \in Waiting) <=> (at[d] \in Waiting) BY <1>1, <2>2
  <2>4. ASSUME NEW d \in Callers PROVE (at'[d] \in Occupied) <=> (at[d] \in Occupied)
    BY <2>3 DEF Occupied
  <2>5. nodeState' = nodeState /\ loops' = loops BY <1>5
  <2>6. QED BY <1>4, <2>3, <2>4, <2>5
<1>6. CASE /\ at[c] = "idle" /\ pc = "dial" /\ nodeState = "OFFLINE"
           /\ nodeState' = nodeState /\ loops' = loops
           /\ doubled' = (doubled \/ \E d \in Callers : at[d] \in Deciding)
  BY <1>1, <1>2, <1>4, <1>6 DEF Deciding, Waiting, Occupied
<1>7. CASE /\ at[c] \in Occupied /\ pc = "ended" /\ doubled' = doubled
           /\ \/ nodeState' = "ONLINE" /\ loops' = loops + 1
              \/ nodeState' = "ISOLATED" /\ loops' = loops /\ at[c] \in Waiting
  BY <1>1, <1>4, <1>7 DEF Occupied, Deciding, Waiting
<1>8. CASE /\ at[c] = "dial" /\ pc = "send" /\ doubled' = doubled
           /\ nodeState' = "LIMBO" /\ loops' = loops BY <1>1, <1>4, <1>8 DEF Deciding, Waiting, Occupied
<1>9. QED BY <1>5, <1>6, <1>7, <1>8

LEMMA StateStep ==
  ASSUME StateInv, TiesInv, [PresenceNext]_presenceVars PROVE StateInv'
<1>1. ASSUME at' = at, nodeState' = nodeState, loops' = loops, doubled' = doubled
      PROVE  StateInv'
  BY <1>1 DEF StateInv
<1>2. ASSUME NEW c \in Callers, GoOnline(c) PROVE StateInv'
  <2>1. PICK pc : pc = IF nodeState = "OFFLINE" THEN "dial" ELSE "refused" OBVIOUS
  <2>2. /\ at[c] = "idle" /\ Goto(c, pc) /\ nodeState' = nodeState /\ loops' = loops
        /\ doubled' = (doubled \/ (nodeState = "OFFLINE" /\ \E d \in Callers : at[d] \in Deciding))
    BY <1>2, <2>1 DEF GoOnline, CheckOffline
  <2>3. pc \in Spots BY <2>1 DEF Spots, Occupied, Deciding
  <2>4. CASE nodeState = "OFFLINE" BY <2>1, <2>2, <2>3, <2>4, StateGoto
  <2>5. CASE nodeState # "OFFLINE"
    <3>1. pc \notin Occupied /\ at[c] \notin Occupied
      BY <2>1, <2>2, <2>5 DEF Occupied, Deciding, Waiting
    <3>2. CASE doubled BY <2>2, <3>2 DEF StateInv
    <3>3. CASE ~doubled BY <2>2, <2>3, <2>5, <3>1, <3>3, Went DEF StateInv, Occupied
    <3>4. QED BY <3>2, <3>3
  <2>6. QED BY <2>4, <2>5
<1>3. ASSUME NEW c \in Callers, HandleConnect(c) PROVE StateInv'
  BY <1>3, StateGoto DEF HandleConnect, Deciding, Spots, Occupied
<1>4. ASSUME NEW c \in Callers, NEW f \in untried[c], DialFriend(c, f) PROVE StateInv'
  BY <1>4, StateGoto DEF DialFriend, Deciding, Spots, Occupied
<1>5. ASSUME NEW c \in Callers, Reached(c) \/ LimboWon(c) \/ LimboLost(c) PROVE StateInv'
  BY <1>5, StateGoto DEF Reached, LimboWon, LimboLost, Deciding, Waiting, Spots, Occupied
<1>6. ASSUME NEW c \in Callers, EnterLimbo(c) PROVE StateInv'
  BY <1>6, StateGoto DEF EnterLimbo, Waiting, Spots, Occupied
<1>7. ASSUME NEW c \in Callers,
             Delay(c) \/ SendBeacons(c) \/ CheckAtOnce(c) \/ CheckOnSignal(c) \/ WaitEnds(c)
      PROVE  StateInv'
  BY <1>7, StateGoto DEF Delay, SendBeacons, CheckAtOnce, CheckOnSignal, WaitEnds, Waiting, AtDeadline, Next1,
     Spots, Occupied
<1>8. ASSUME NEW c \in Callers, NEW f \in untried[c], DialFails(c, f) PROVE StateInv'
  BY <1>1, <1>8 DEF DialFails
<1>9. ASSUME NEW l \in DOMAIN ties, LoopEnds(l) \/ HandleDisconnect(l) PROVE StateInv'
  BY <1>1, <1>9 DEF LoopEnds, HandleDisconnect, asking
<1>10. ASSUME NEW f \in Buddies, RemoveFriend(f) \/ HandleResponse(f) PROVE StateInv'
  BY <1>1, <1>10 DEF RemoveFriend, HandleResponse, asking
<1>11. CASE HandleStranger \/ CancelNode \/ UNCHANGED presenceVars
  BY <1>1, <1>11 DEF HandleStranger, CancelNode, presenceVars, asking
<1>12. QED
  BY <1>2, <1>3, <1>4, <1>5, <1>6, <1>7, <1>8, <1>9, <1>10, <1>11
  DEF PresenceNext, WaitForResponses

LEMMA PresenceStart == ASSUME PresenceInit PROVE MarksInv /\ StateInv
<1>1. /\ nodeState = "OFFLINE" /\ loops = 0 /\ ties = <<>> /\ raced = {} /\ answered = {}
      /\ at = [c \in Callers |-> "idle"] /\ untried = [c \in Callers |-> Buddies]
      /\ mapped = [f \in Buddies |-> Unmapped] /\ online = [f \in Buddies |-> FALSE]
  BY DEF PresenceInit
<1>2. TiesInv BY <1>1 DEF Spots, TiesInv
<1>3. MapInv BY <1>1 DEF MapInv
<1>4. MarksMatch BY <1>1 DEF MarksMatch
<1>5. \A c \in Callers : at[c] \notin Deciding /\ at[c] \notin Waiting
  BY <1>1 DEF Deciding, Waiting
<1>6. StateInv BY <1>1, <1>5 DEF StateInv, Occupied
<1>7. QED BY <1>2, <1>3, <1>4, <1>6 DEF MarksInv

LEMMA PresenceShows == ASSUME MarksInv, StateInv PROVE PresenceSound
BY DEF MarksInv, StateInv, StateTells, PresenceSound

(* For any number of callers of GoOnline, friends and attempts: marks and   *)
(* connections agree when the last callback was not late, and the state     *)
(* tells what runs while one caller at a time goes past the check.         *)
THEOREM PresenceIsSound == PresenceSpec => []PresenceSound
<1>1. PresenceInit => MarksInv /\ StateInv BY PresenceStart
<1>2. MarksInv /\ StateInv /\ [PresenceNext]_presenceVars => (MarksInv /\ StateInv)'
  BY MarksStep, StateStep DEF MarksInv
<1>3. MarksInv /\ StateInv => PresenceSound BY PresenceShows
<1>4. QED BY <1>1, <1>2, <1>3, PTL DEF PresenceSpec

-----------------------------------------------------------------------------
(* The switch of channels and the onion routes.                            *)

(* The switch: the counter counts the identities, and an identity is the   *)
(* counter of its time, or that and the offset.                            *)
SwitchInv ==
  /\ channel \in Channels /\ anonCounter \in Nat
  /\ assumed \in Seq(Nat) /\ Len(assumed) = anonCounter
  /\ \A i \in 1..Len(assumed) : assumed[i] \in {i, i + Offset}
  /\ channel = "dark" => anonID \in Nat \ {0}
  /\ channel = "bunker" => bunkerID \in Nat \ {0}

(* A message took the first hops of its path, and has arrived when it took *)
(* them all.                                                               *)
Travelled(p, h, a, length) ==
  /\ Len(p) = length /\ IsInjective(p)
  /\ Len(h) <= Len(p) /\ \A i \in 1..Len(h) : h[i] = p[i]
  /\ a = IF Len(h) = Len(p) THEN <<p[Len(p)]>> ELSE <<>>

(* The layers that are left on a message, and a packet that is on its way. *)
LayersLeft(p, n) == [j \in 1..(Len(p) - n) |-> Layer(p, n + j)]
OnItsWay(k, p, h) == Len(h) < Len(p) /\ k.layers = LayersLeft(p, Len(h))

Places == Stations \cup {"direct"}

TrafficType ==
  /\ asked \in Seq(Channels) /\ paths \in Seq(Seq(CoreHops))
  /\ handled \in Seq(Seq(Stations)) /\ arrived \in Seq(Seq(Places))
  /\ Len(paths) = Len(asked) /\ Len(handled) = Len(asked) /\ Len(arrived) = Len(asked)
  /\ \A k \in packets : k.msg \in DOMAIN asked

MessageInv(m) ==
  /\ paths[m] = <<>> => handled[m] = <<>> /\ \A k \in packets : k.msg # m
  /\ paths[m] # <<>> => /\ Travelled(paths[m], handled[m], arrived[m], Lengths[asked[m]])
                        /\ \A k \in packets : k.msg = m => OnItsWay(k, paths[m], handled[m])
  /\ \A k, l \in packets : k.msg = m /\ l.msg = m => k = l

TrafficInv == TrafficType /\ \A m \in DOMAIN asked : MessageInv(m)

LEMMA HopsAreStations == CoreHops \subseteq Stations
BY OnionAssumption DEF CoreHops

LEMMA PutSeq ==
  ASSUME NEW T, NEW s \in Seq(T), NEW i \in DOMAIN s, NEW x \in T
  PROVE  LET t == [s EXCEPT ![i] = x] IN
         /\ t \in Seq(T) /\ Len(t) = Len(s) /\ t[i] = x
         /\ \A j \in DOMAIN s : j # i => t[j] = s[j]
OBVIOUS

(* A step that changes the message m alone.                                *)
LEMMA OneMessage ==
  ASSUME TrafficInv, NEW m \in DOMAIN asked, asked' = asked,
         NEW p \in Seq(CoreHops), NEW h \in Seq(Stations),
         NEW a \in Seq(Places),
         paths' = [paths EXCEPT ![m] = p], handled' = [handled EXCEPT ![m] = h],
         arrived' = [arrived EXCEPT ![m] = a],
         \A k : k.msg # m => (k \in packets' <=> k \in packets),
         p = <<>> => h = <<>> /\ \A k \in packets' : k.msg # m,
         p # <<>> => /\ Travelled(p, h, a, Lengths[asked[m]])
                     /\ \A k \in packets' : k.msg = m => OnItsWay(k, p, h),
         \A k, l \in packets' : k.msg = m /\ l.msg = m => k = l
  PROVE  TrafficInv'
<1>1. /\ asked \in Seq(Channels) /\ paths \in Seq(Seq(CoreHops))
      /\ handled \in Seq(Seq(Stations)) /\ arrived \in Seq(Seq(Places))
      /\ Len(paths) = Len(asked) /\ Len(handled) = Len(asked) /\ Len(arrived) = Len(asked)
  BY DEF TrafficInv, TrafficType
<1>2. /\ DOMAIN paths = DOMAIN asked /\ DOMAIN handled = DOMAIN asked
      /\ DOMAIN arrived = DOMAIN asked BY <1>1
<1>3. /\ paths' \in Seq(Seq(CoreHops)) /\ Len(paths') = Len(paths) /\ paths'[m] = p
      /\ \A q \in DOMAIN paths : q # m => paths'[q] = paths[q]
  BY <1>1, <1>2, PutSeq
<1>4. /\ handled' \in Seq(Seq(Stations)) /\ Len(handled') = Len(handled) /\ handled'[m] = h
      /\ \A q \in DOMAIN handled : q # m => handled'[q] = handled[q]
  BY <1>1, <1>2, PutSeq
<1>5. /\ arrived' \in Seq(Seq(Places)) /\ Len(arrived') = Len(arrived)
      /\ arrived'[m] = a /\ \A q \in DOMAIN arrived : q # m => arrived'[q] = arrived[q]
  BY <1>1, <1>2, PutSeq
<1>6. /\ paths'[m] = p /\ handled'[m] = h /\ arrived'[m] = a
      /\ \A q \in DOMAIN asked : q # m =>
           paths'[q] = paths[q] /\ handled'[q] = handled[q] /\ arrived'[q] = arrived[q]
  BY <1>2, <1>3, <1>4, <1>5
<1>7. \A k \in packets' : k.msg \in DOMAIN asked
  BY DEF TrafficInv, TrafficType
<1>8. MessageInv(m)' BY <1>6 DEF MessageInv
<1>9. ASSUME NEW q \in DOMAIN asked, q # m PROVE MessageInv(q)' BY <1>6, <1>9 DEF TrafficInv, MessageInv
<1>10. QED BY <1>1, <1>3, <1>4, <1>5, <1>7, <1>8, <1>9 DEF TrafficInv, TrafficType

LEMMA AskStep == ASSUME SwitchInv, TrafficInv, Ask PROVE TrafficInv'
<1>1. /\ asked \in Seq(Channels) /\ paths \in Seq(Seq(CoreHops))
      /\ handled \in Seq(Seq(Stations)) /\ arrived \in Seq(Seq(Places))
      /\ Len(paths) = Len(asked) /\ Len(handled) = Len(asked) /\ Len(arrived) = Len(asked)
      /\ channel \in Channels
  BY DEF TrafficInv, TrafficType, SwitchInv
<1>2. /\ asked' = Append(asked, channel) /\ paths' = Append(paths, <<>>)
      /\ arrived' = Append(arrived, <<>>) /\ handled' = Append(handled, <<>>)
      /\ packets' = packets
  BY DEF Ask
<1>3. PICK n \in Nat : n = Len(asked) BY <1>1
<1>4. PICK none : none = <<>> OBVIOUS
<1>5. /\ none \in Seq(CoreHops) /\ none \in Seq(Stations)
      /\ none \in Seq(Places)
  BY <1>4
<1>6. /\ asked' \in Seq(Channels) /\ Len(asked') = n + 1
      /\ \A i \in 1..n : asked'[i] = asked[i]
  BY <1>1, <1>2, <1>3
<1>7. /\ paths' \in Seq(Seq(CoreHops)) /\ Len(paths') = n + 1 /\ paths'[n + 1] = <<>>
      /\ \A i \in 1..n : paths'[i] = paths[i]
  BY <1>1, <1>2, <1>3, <1>4, <1>5
<1>8. /\ handled' \in Seq(Seq(Stations)) /\ Len(handled') = n + 1 /\ handled'[n + 1] = <<>>
      /\ \A i \in 1..n : handled'[i] = handled[i]
  BY <1>1, <1>2, <1>3, <1>4, <1>5
<1>9. /\ arrived' \in Seq(Seq(Places)) /\ Len(arrived') = n + 1
      /\ \A i \in 1..n : arrived'[i] = arrived[i]
  BY <1>1, <1>2, <1>3, <1>4, <1>5
<1>10. DOMAIN asked = 1..n /\ DOMAIN asked' = 1..(n + 1) BY <1>1, <1>3, <1>6
<1>11. \A k \in packets' : k.msg \in DOMAIN asked
  BY <1>2 DEF TrafficInv, TrafficType
<1>12. TrafficType' BY <1>6, <1>7, <1>8, <1>9, <1>10, <1>11 DEF TrafficType
<1>13. ASSUME NEW m \in 1..n PROVE MessageInv(m)' BY <1>2, <1>6, <1>7, <1>8, <1>9, <1>10 DEF TrafficInv, MessageInv
<1>14. MessageInv(n + 1)' BY <1>7, <1>8, <1>10, <1>11 DEF MessageInv
<1>15. \A m \in DOMAIN asked' : m \in 1..n \/ m = n + 1 BY <1>10
<1>16. QED BY <1>12, <1>13, <1>14, <1>15 DEF TrafficInv

LEMMA TrafficTypes ==
  ASSUME TrafficInv, NEW m \in DOMAIN asked
  PROVE  /\ asked[m] \in Channels /\ paths[m] \in Seq(CoreHops)
         /\ handled[m] \in Seq(Stations) /\ arrived[m] \in Seq(Places)
         /\ paths = [paths EXCEPT ![m] = paths[m]]
         /\ handled = [handled EXCEPT ![m] = handled[m]]
         /\ arrived = [arrived EXCEPT ![m] = arrived[m]]
BY DEF TrafficInv, TrafficType

(* Two places with two endpoints are two places.                           *)
LEMMA PathInjective ==
  ASSUME NEW n \in Nat, NEW p \in SelectSecurePath(n)
  PROVE  p \in Seq(CoreHops) /\ Len(p) = n /\ IsInjective(p)
BY DEF SelectSecurePath, IsInjective

LEMMA SendOnionStep ==
  ASSUME TrafficInv, NEW m \in DOMAIN asked, SendOnion(m) PROVE TrafficInv'
<1>1. /\ paths[m] = <<>> /\ arrived[m] = <<>> /\ asked[m] # "clear"
      /\ asked' = asked /\ handled' = handled /\ arrived' = arrived
  BY DEF SendOnion, Unsent
<1>2. asked[m] \in {"dark", "bunker"} BY <1>1, TrafficTypes DEF Channels
<1>3. PICK n : n = Lengths[asked[m]] OBVIOUS
<1>4. n \in Nat /\ n > 0 BY <1>2, <1>3, OnionAssumption
<1>5. PICK p \in SelectSecurePath(n) :
        /\ paths' = [paths EXCEPT ![m] = p]
        /\ packets' = packets \cup {[msg |-> m, at |-> p[1], layers |-> Layers(p)]}
  BY <1>3 DEF SendOnion
<1>6. p \in Seq(CoreHops) /\ Len(p) = n /\ IsInjective(p) BY <1>4, PathInjective
<1>7. PICK k : k = [msg |-> m, at |-> p[1], layers |-> Layers(p)] OBVIOUS
<1>8. k.msg = m /\ k.layers = Layers(p) BY <1>7
<1>9. handled[m] = <<>> /\ \A l \in packets : l.msg # m
  BY <1>1 DEF TrafficInv, MessageInv
<1>10. LayersLeft(p, 0) = Layers(p) BY <1>4, <1>6 DEF LayersLeft, Layers
<1>11. PICK h, a : h = handled[m] /\ a = arrived[m] OBVIOUS
<1>12. Len(h) = 0 /\ a = <<>> /\ h = <<>> BY <1>1, <1>9, <1>11
<1>13. OnItsWay(k, p, h) BY <1>4, <1>6, <1>8, <1>10, <1>12 DEF OnItsWay
<1>14. Travelled(p, h, a, Lengths[asked[m]]) BY <1>3, <1>4, <1>6, <1>12 DEF Travelled
<1>15. h \in Seq(Stations) /\ a \in Seq(Places) BY <1>11, TrafficTypes
<1>16. handled' = [handled EXCEPT ![m] = h] /\ arrived' = [arrived EXCEPT ![m] = a]
  BY <1>1, <1>11, TrafficTypes
<1>17. packets' = packets \cup {k} BY <1>5, <1>7
<1>18. \A l : l.msg # m => (l \in packets' <=> l \in packets) BY <1>8, <1>17
<1>19. \A l \in packets' : l.msg = m => l = k BY <1>9, <1>17
<1>20. p # <<>> BY <1>4, <1>6
<1>21. \A l \in packets' : l.msg = m => OnItsWay(l, p, h) BY <1>13, <1>19
<1>22. \A l, q \in packets' : l.msg = m /\ q.msg = m => l = q BY <1>19
<1>23. QED
  BY <1>1, <1>5, <1>6, <1>14, <1>15, <1>16, <1>18, <1>20, <1>21, <1>22, OneMessage

LEMMA SendDirectStep ==
  ASSUME TrafficInv, NEW m \in DOMAIN asked, SendDirect(m) PROVE TrafficInv'
<1>1. /\ paths[m] = <<>> /\ asked' = asked /\ handled' = handled /\ paths' = paths
      /\ packets' = packets /\ arrived' = [arrived EXCEPT ![m] = <<"direct">>]
  BY DEF SendDirect, Unsent
<1>2. PICK p, h, a : p = paths[m] /\ h = handled[m] /\ a = <<"direct">> OBVIOUS
<1>3. h = <<>> /\ \A l \in packets : l.msg # m
  BY <1>1, <1>2 DEF TrafficInv, MessageInv
<1>4. p \in Seq(CoreHops) /\ h \in Seq(Stations) BY <1>2, TrafficTypes
<1>5. a \in Seq(Places) BY <1>2 DEF Places
<1>6. paths' = [paths EXCEPT ![m] = p] /\ handled' = [handled EXCEPT ![m] = h]
  BY <1>1, <1>2, TrafficTypes
<1>7. arrived' = [arrived EXCEPT ![m] = a] /\ p = <<>> BY <1>1, <1>2
<1>8. /\ \A l : l.msg # m => (l \in packets' <=> l \in packets)
      /\ \A l \in packets' : l.msg # m
  BY <1>1, <1>3
<1>9. QED BY <1>1, <1>3, <1>4, <1>5, <1>6, <1>7, <1>8, OneMessage

(* A packet that is lost, or dropped on the way, changes nothing else.     *)
LEMMA DropStep ==
  ASSUME TrafficInv, NEW k \in packets, packets' = packets \ {k},
         asked' = asked, paths' = paths, handled' = handled, arrived' = arrived
  PROVE  TrafficInv'
<1>1. TrafficType' BY DEF TrafficInv, TrafficType
<1>2. ASSUME NEW m \in DOMAIN asked PROVE MessageInv(m)' BY DEF TrafficInv, MessageInv
<1>3. QED BY <1>1, <1>2 DEF TrafficInv

LEMMA HandleStep ==
  ASSUME TrafficInv, NEW k \in packets, HandleRouteFrame(k) PROVE TrafficInv'
<1>1. PICK n, first, m : n = k.at /\ first = k.layers[1] /\ m = k.msg OBVIOUS
<1>2. PICK rest : rest = packets \ {k} OBVIOUS
<1>3. PICK nexts : nexts = {q \in Linked[n] : first.next = <<Address[q]>>} OBVIOUS
<1>4. /\ asked' = asked /\ paths' = paths
      /\ handled' = IF UnwrapOne(n, first) THEN [handled EXCEPT ![m] = Append(@, n)] ELSE handled
      /\ arrived' = IF UnwrapOne(n, first) /\ first.next = <<>>
                    THEN [arrived EXCEPT ![m] = Append(@, n)] ELSE arrived
      /\ IF UnwrapOne(n, first) /\ Len(k.layers) > 1 /\ nexts # {}
         THEN \E q \in nexts :
                packets' = rest \cup {[msg |-> m, at |-> q, layers |-> Tail(k.layers)]}
         ELSE packets' = rest
  BY <1>1, <1>2, <1>3 DEF HandleRouteFrame
<1>5. CASE ~UnwrapOne(n, first)
  BY <1>2, <1>4, <1>5, DropStep
<1>6. CASE UnwrapOne(n, first)
  <2>1. m \in DOMAIN asked /\ MessageInv(m) BY <1>1 DEF TrafficInv, TrafficType
  <2>2. PICK p, h, a : p = paths[m] /\ h = handled[m] /\ a = arrived[m] OBVIOUS
  <2>3. p \in Seq(CoreHops) /\ h \in Seq(Stations) /\ a \in Seq(Places)
    BY <2>1, <2>2, TrafficTypes
  <2>4. /\ p # <<>> /\ Travelled(p, h, a, Lengths[asked[m]]) /\ OnItsWay(k, p, h)
        /\ \A l \in packets : l.msg = m => l = k
    BY <1>1, <2>1, <2>2 DEF MessageInv
  <2>5. PICK i, last : i = Len(h) /\ last = Len(p) OBVIOUS
  <2>6. i \in Nat /\ last \in Nat /\ i < last BY <2>3, <2>4, <2>5 DEF OnItsWay
  <2>7. k.layers = [j \in 1..(last - i) |-> Layer(p, i + j)]
    BY <2>4, <2>5 DEF OnItsWay, LayersLeft
  <2>8. first = Layer(p, i + 1) BY <1>1, <2>6, <2>7
  <2>9. first.key = p[i + 1] /\ (first.next = <<>> <=> i + 1 = last) BY <2>5, <2>6, <2>8 DEF Layer
  <2>10. n = p[i + 1] /\ n \in CoreHops BY <1>6, <2>3, <2>5, <2>6, <2>9 DEF UnwrapOne
  <2>11. n \in Stations /\ n \in Places BY <2>10, HopsAreStations DEF Places
  <2>12. PICK h2 : h2 = Append(h, n) OBVIOUS
  <2>13. /\ h2 \in Seq(Stations) /\ Len(h2) = i + 1
         /\ \A j \in 1..(i + 1) : h2[j] = p[j] BY <2>3, <2>4, <2>5, <2>6, <2>10, <2>11, <2>12 DEF Travelled
  <2>14. a = <<>> BY <2>4, <2>5, <2>6 DEF Travelled
  <2>15. PICK a2 : a2 = IF i + 1 = last THEN <<n>> ELSE <<>> OBVIOUS
  <2>16. Append(a, n) = <<n>> BY <2>14
  <2>17. a2 \in Seq(Places) BY <2>11, <2>15
  <2>18. arrived' = [arrived EXCEPT ![m] = a2]
    <3>1. CASE i + 1 = last BY <1>4, <1>6, <2>2, <2>9, <2>15, <2>16, <3>1
    <3>2. CASE i + 1 # last BY <1>4, <2>1, <2>2, <2>9, <2>14, <2>15, <3>2, TrafficTypes
    <3>3. QED BY <3>1, <3>2
  <2>19. handled' = [handled EXCEPT ![m] = h2] BY <1>4, <1>6, <2>2, <2>12
  <2>20. paths' = [paths EXCEPT ![m] = p] BY <1>4, <2>1, <2>2, TrafficTypes
  <2>21. Travelled(p, h2, a2, Lengths[asked[m]]) BY <2>4, <2>5, <2>6, <2>10, <2>13, <2>15 DEF Travelled
  <2>22. \A l \in packets' : l.msg = m => OnItsWay(l, p, h2)
    <3>1. CASE Len(k.layers) > 1 /\ nexts # {}
      <4>1. PICK q \in nexts :
              packets' = rest \cup {[msg |-> m, at |-> q, layers |-> Tail(k.layers)]}
        BY <1>4, <1>6, <3>1
      <4>2. PICK l : l = [msg |-> m, at |-> q, layers |-> Tail(k.layers)] OBVIOUS
      <4>3. l.layers = Tail(k.layers) BY <4>2
      <4>4. PICK T : \A j \in 1..(last - i) : Layer(p, i + j) \in T
        <5>1. \A j \in 1..(last - i) : Layer(p, i + j) \in {Layer(p, i + x) : x \in 1..(last - i)}
          OBVIOUS
        <5>2. QED BY <5>1
      <4>5. k.layers \in Seq(T) /\ Len(k.layers) = last - i BY <2>6, <2>7, <4>4
      <4>6. i + 1 < last BY <2>6, <3>1, <4>5
      <4>7. /\ Tail(k.layers) \in Seq(T) /\ Len(Tail(k.layers)) = last - i - 1
            /\ \A j \in 1..(last - i - 1) : Tail(k.layers)[j] = k.layers[j + 1]
        BY <3>1, <4>5
      <4>8. Tail(k.layers) = [j \in 1..(last - i - 1) |-> Layer(p, (i + 1) + j)]
        <5>1. ASSUME NEW j \in 1..(last - i - 1) PROVE Tail(k.layers)[j] = Layer(p, (i + 1) + j) BY <2>6, <2>7, <4>7
        <5>2. PICK t : t = Tail(k.layers) OBVIOUS
        <5>3. t = [j \in 1..(last - i - 1) |-> t[j]] BY <4>7, <5>2
        <5>4. QED BY <5>1, <5>2, <5>3
      <4>9. last - (i + 1) = last - i - 1 BY <2>6
      <4>10. OnItsWay(l, p, h2)
        BY <2>5, <2>13, <4>3, <4>6, <4>8, <4>9 DEF OnItsWay, LayersLeft
      <4>11. \A x \in packets' : x.msg = m => x = l BY <1>2, <2>4, <4>1, <4>2
      <4>12. QED BY <4>10, <4>11
    <3>2. CASE ~(Len(k.layers) > 1 /\ nexts # {})
      BY <1>2, <1>4, <2>4, <3>2
    <3>3. QED BY <3>1, <3>2
  <2>23. \A l : l.msg # m => (l \in packets' <=> l \in packets) BY <1>1, <1>2, <1>4
  <2>24. \A l, x \in packets' : l.msg = m /\ x.msg = m => l = x BY <1>2, <1>4, <2>4
  <2>25. QED
    BY <1>4, <2>1, <2>3, <2>4, <2>13, <2>17, <2>18, <2>19, <2>20, <2>21, <2>22, <2>23, <2>24,
       OneMessage
<1>7. QED BY <1>5, <1>6

LEMMA TrafficStep ==
  ASSUME SwitchInv, TrafficInv, [OnionNext]_onionVars PROVE TrafficInv'
<1>1. CASE SwitchTo \/ UNCHANGED onionVars
  BY <1>1 DEF SwitchTo, onionVars, trafficVars, TrafficInv, TrafficType, MessageInv
<1>2. CASE Ask BY <1>2, AskStep
<1>3. ASSUME NEW m \in DOMAIN asked, SendOnion(m) PROVE TrafficInv' BY <1>3, SendOnionStep
<1>4. ASSUME NEW m \in DOMAIN asked, SendDirect(m) PROVE TrafficInv' BY <1>4, SendDirectStep
<1>5. ASSUME NEW k \in packets, HandleRouteFrame(k) PROVE TrafficInv' BY <1>5, HandleStep
<1>6. ASSUME NEW k \in packets, LosePacket(k) PROVE TrafficInv'
  BY <1>6, DropStep DEF LosePacket
<1>7. QED BY <1>1, <1>2, <1>3, <1>4, <1>5, <1>6 DEF OnionNext

LEMMA SwitchStep == ASSUME SwitchInv, [OnionNext]_onionVars PROVE SwitchInv'
<1>1. /\ channel \in Channels /\ anonCounter \in Nat /\ assumed \in Seq(Nat)
      /\ Len(assumed) = anonCounter /\ Offset \in Nat
      /\ \A i \in 1..Len(assumed) : assumed[i] \in {i, i + Offset}
  BY OnionAssumption DEF SwitchInv
<1>2. ASSUME NEW x \in {anonCounter + 1, anonCounter + 1 + Offset},
             assumed' = Append(assumed, x), anonCounter' = anonCounter + 1
      PROVE  /\ anonCounter' \in Nat /\ assumed' \in Seq(Nat) /\ Len(assumed') = anonCounter'
             /\ \A i \in 1..Len(assumed') : assumed'[i] \in {i, i + Offset}
             /\ x \in Nat \ {0} BY <1>1, <1>2
<1>3. CASE UNCHANGED switchVars
  BY <1>3 DEF SwitchInv, switchVars
<1>4. CASE EnterClear
  BY <1>4 DEF EnterClear, SwitchInv, Channels
<1>5. CASE EnterDark BY <1>2, <1>5 DEF EnterDark, SwitchInv, Channels
<1>6. CASE EnterBunker BY <1>2, <1>6 DEF EnterBunker, SwitchInv, Channels
<1>7. QED
  BY <1>3, <1>4, <1>5, <1>6
  DEF OnionNext, SwitchTo, Ask, SendOnion, SendDirect, HandleRouteFrame, LosePacket, onionVars

LEMMA OnionStart == ASSUME OnionInit PROVE SwitchInv /\ TrafficInv
BY DEF OnionInit, SwitchInv, Channels, TrafficType, TrafficInv

LEMMA OnionShows == ASSUME SwitchInv, TrafficInv PROVE OnionSound
<1>1. ASSUME NEW m \in DOMAIN asked, paths[m] # <<>>
      PROVE  /\ handled[m] = SubSeq(paths[m], 1, Len(handled[m])) /\ IsInjective(handled[m])
             /\ arrived[m] = IF handled[m] = paths[m] THEN <<paths[m][Len(paths[m])]>> ELSE <<>>
             /\ Len(paths[m]) = Lengths[asked[m]]
  <2>1. PICK p, h, a : p = paths[m] /\ h = handled[m] /\ a = arrived[m] OBVIOUS
  <2>2. p \in Seq(CoreHops) /\ h \in Seq(Stations) BY <2>1, TrafficTypes
  <2>3. Travelled(p, h, a, Lengths[asked[m]]) BY <1>1, <2>1 DEF TrafficInv, MessageInv
  <2>4. /\ Len(p) = Lengths[asked[m]] /\ IsInjective(p) /\ Len(h) <= Len(p)
        /\ \A i \in 1..Len(h) : h[i] = p[i]
        /\ a = IF Len(h) = Len(p) THEN <<p[Len(p)]>> ELSE <<>>
    BY <2>3 DEF Travelled
  <2>5. PICK n \in Nat : n = Len(h) BY <2>2
  <2>6. PICK s : s = SubSeq(p, 1, n) OBVIOUS
  <2>7. s \in Seq(CoreHops) /\ Len(s) = n /\ \A i \in 1..n : s[i] = p[i]
    BY <2>2, <2>4, <2>5, <2>6
  <2>8. h = s BY <2>2, <2>4, <2>5, <2>7
  <2>9. IsInjective(h) BY <2>2, <2>4, <2>5 DEF IsInjective
  <2>10. h = p <=> Len(h) = Len(p) BY <2>2, <2>4
  <2>11. QED BY <2>1, <2>4, <2>5, <2>6, <2>8, <2>9, <2>10
<1>2. HopsInOrder BY <1>1 DEF HopsInOrder
<1>3. IdentitiesFresh
  <2>1. /\ assumed \in Seq(Nat) /\ Len(assumed) = anonCounter /\ Offset \in Nat
        /\ \A i \in 1..Len(assumed) : assumed[i] \in {i, i + Offset}
        /\ anonCounter \in Nat
    BY OnionAssumption DEF SwitchInv
  <2>2. anonCounter <= Offset => IsInjective(assumed) BY <2>1 DEF IsInjective
  <2>3. CurrentIdentity # Erased BY DEF SwitchInv, CurrentIdentity, Erased
  <2>4. QED BY <2>2, <2>3 DEF IdentitiesFresh
<1>4. QED BY <1>2, <1>3 DEF OnionSound

(* For every network, every length of the paths and every number of        *)
(* switches and messages: layers come off in order and at the hop they are  *)
(* for, a message is delivered once, at the last hop, and identities are    *)
(* fresh while the counter has not reached the offset.                     *)
THEOREM OnionIsSound == OnionSpec => []OnionSound
<1>1. OnionInit => SwitchInv /\ TrafficInv BY OnionStart
<1>2. SwitchInv /\ TrafficInv /\ [OnionNext]_onionVars => (SwitchInv /\ TrafficInv)'
  BY SwitchStep, TrafficStep
<1>3. SwitchInv /\ TrafficInv => OnionSound BY OnionShows
<1>4. QED BY <1>1, <1>2, <1>3, PTL DEF OnionSpec

-----------------------------------------------------------------------------
(***************************************************************************)
(* The ratchet: what holds of a session for any number of messages, DH     *)
(* keys and skipped keys, and whatever the network loses, repeats and      *)
(* reorders.                                                               *)
(***************************************************************************)
(* A state of one party: chains and stored keys come from roots no longer  *)
(* than the root key, a stored key of the current chain is behind it, and  *)
(* no key is stored twice.                                                 *)
Sound(s) ==
  /\ Len(s.recv.root) <= Len(s.root) /\ Len(s.send.root) <= Len(s.root)
  /\ \A e \in s.skipped :
       /\ Len(e.key.root) <= Len(s.root)
       /\ e.key.root = s.recv.root => e.key.n < s.recv.n
  /\ \A e, f \in s.skipped : e.key = f.key => e = f

(* The key was given out by the sending half of s.                         *)
Spent(s, key) ==
  /\ Len(key.root) <= Len(s.root)
  /\ key.root = s.send.root => key.n < s.send.n

(* The receiving half of s cannot make the key any more.                   *)
Gone(s, key) == Len(key.root) <= Len(s.root) /\ ~Holds(s, key)

Keys(p) ==
  /\ Sound(state[p])
  /\ \A n \in DOMAIN sent[p] : Spent(state[p], sent[p][n].key)
  /\ \A i \in DOMAIN read[p] : Gone(state[p], sent[Other(p)][read[p][i]].key)

SessionInv == RatchetTypeOK /\ \A p \in Parties : Keys(p)

-----------------------------------------------------------------------------
LEMMA SumCancels ==
  ASSUME NEW a \in Int, NEW b \in Int, NEW i \in Int, NEW n \in Int,
         a + (n - b) = a + (i - b)
  PROVE  i = n
  OBVIOUS

LEMMA OtherParty ==
  ASSUME NEW p \in Parties
  PROVE  Other(p) \in Parties /\ Other(p) # p /\ Other(Other(p)) = p
  BY DEF Parties, Other

LEMMA SecretType ==
  ASSUME NEW p \in Parties, NEW a \in 1..MaxKeys, NEW b \in 1..MaxKeys
  PROVE  Secret(p, a, b) \in Secrets
  BY DEF Secret, Secrets

LEMMA RootType ==
  ASSUME NEW root \in Seq(Secrets), NEW x \in Secrets
  PROVE  /\ Append(root, x) \in Seq(Secrets) /\ Len(root) \in Nat
         /\ Len(Append(root, x)) = Len(root) + 1
  OBVIOUS

LEMMA ChainType ==
  ASSUME NEW root \in Seq(Secrets)
  PROVE  Chain(root) \in ChainKey /\ Chain(root).root = root /\ Chain(root).n = 0
  BY DEF Chain, ChainKey

LEMMA AdvanceType ==
  ASSUME NEW k \in ChainKey, NEW i \in Nat
  PROVE  /\ Advance(k, i) \in ChainKey
         /\ Advance(k, i).root = k.root /\ Advance(k, i).n = k.n + i
  BY DEF Advance, ChainKey

LEMMA StateType ==
  ASSUME NEW s \in State
  PROVE  /\ s.dhs \in 1..MaxKeys /\ s.dhr \in 1..MaxKeys
         /\ s.root \in Seq(Secrets) /\ Len(s.root) \in Nat
         /\ s.needsDHStep \in BOOLEAN
         /\ s.send \in ChainKey /\ s.recv \in ChainKey /\ s.prevSend \in ChainKey
         /\ s.sendNum \in Nat /\ s.recvNum \in Nat
         /\ s.skipped \subseteq SkippedKey
         /\ s.recv.root \in Seq(Secrets) /\ s.send.root \in Seq(Secrets)
         /\ s.recv.n \in Nat /\ s.send.n \in Nat
         /\ \A e \in s.skipped : /\ e.key \in ChainKey /\ e.key.n \in Nat
                                 /\ e.key.root \in Seq(Secrets)
  BY DEF State, ChainKey, SkippedKey

(* skipMessageKeys stores keys that could be derived before, each once.    *)
LEMMA SkipKeeps ==
  ASSUME NEW s \in State, Sound(s), NEW u \in Nat
  PROVE  /\ Skip(s, u) \in State /\ Sound(Skip(s, u))
         /\ \A k \in ChainKey : Holds(Skip(s, u), k) => Holds(s, k)
         /\ Skip(s, u).root = s.root /\ Skip(s, u).send = s.send
         /\ Skip(s, u).dhs = s.dhs /\ Skip(s, u).dhr = s.dhr
         /\ Skip(s, u).recvNum = IF u <= s.recvNum THEN s.recvNum ELSE u
<1>1. CASE u <= s.recvNum BY <1>1 DEF Skip
<1>2. CASE ~(u <= s.recvNum)
  <2> DEFINE nums == s.recvNum..(u - 1)
             entry(n) == [dhr |-> s.dhr, num |-> n, key |-> Advance(s.recv, n - s.recvNum)]
             new == {entry(n) : n \in nums}
             old == UNION {Stored(s, n) : n \in nums}
             t == Skip(s, u)
  <2>1. PICK d : d = u - s.recvNum OBVIOUS
  <2>2. d \in Nat /\ d > 0 BY <1>2, <2>1, StateType
  <2>3. t = [s EXCEPT !.recv = Advance(@, d), !.recvNum = u,
                      !.skipped = (@ \ old) \cup new]
    BY <1>2, <2>1 DEF Skip
  <2>4. ASSUME NEW n \in nums
        PROVE  /\ entry(n) \in SkippedKey /\ entry(n).key.root = s.recv.root
               /\ entry(n).key.n = s.recv.n + (n - s.recvNum)
               /\ n - s.recvNum \in Nat /\ n - s.recvNum < d
    <3>1. n \in Nat /\ n - s.recvNum \in Nat /\ n - s.recvNum < d
      BY <1>2, <2>1, StateType
    <3>2. /\ Advance(s.recv, n - s.recvNum) \in ChainKey
          /\ Advance(s.recv, n - s.recvNum).root = s.recv.root
          /\ Advance(s.recv, n - s.recvNum).n = s.recv.n + (n - s.recvNum)
      BY <3>1, StateType, AdvanceType
    <3>3. QED BY <3>1, <3>2, StateType DEF SkippedKey
  <2>5. /\ Advance(s.recv, d) \in ChainKey /\ Advance(s.recv, d).root = s.recv.root
        /\ Advance(s.recv, d).n = s.recv.n + d
    BY <2>2, StateType, AdvanceType
  <2>6. ASSUME NEW e \in new
        PROVE  /\ e \in SkippedKey /\ e.key.root = s.recv.root /\ e.key.n \in Nat
               /\ e.key.n >= s.recv.n /\ e.key.n < s.recv.n + d
               /\ \A f \in new : e.key = f.key => e = f
    <3>1. PICK n \in nums : e = entry(n) OBVIOUS
    <3>2. /\ e \in SkippedKey /\ e.key.root = s.recv.root
          /\ e.key.n = s.recv.n + (n - s.recvNum)
          /\ n - s.recvNum \in Nat /\ n - s.recvNum < d
      BY <2>4, <3>1
    <3>3. ASSUME NEW f \in new, e.key = f.key PROVE e = f
      <4>1. PICK i \in nums : f = entry(i) BY <3>3
      <4>2. f.key.n = s.recv.n + (i - s.recvNum) BY <2>4, <4>1
      <4>3. i = n
        <5>1. /\ e.key.n = s.recv.n + (n - s.recvNum)
              /\ e.key.n = s.recv.n + (i - s.recvNum)
          BY <3>2, <3>3, <4>2
        <5>2. n \in Int /\ i \in Int /\ s.recvNum \in Int /\ s.recv.n \in Int
          BY StateType
        <5>3. s.recv.n + (n - s.recvNum) = s.recv.n + (i - s.recvNum) BY <5>1
        <5>4. QED BY <5>2, <5>3, SumCancels
      <4>4. QED BY <3>1, <4>1, <4>3
    <3>4. QED BY <2>2, <3>2, <3>3, StateType
  <2> HIDE DEF new, old, nums, entry
  <2>7. /\ t.root = s.root /\ t.send = s.send /\ t.dhs = s.dhs /\ t.dhr = s.dhr
        /\ t.recv = Advance(s.recv, d) /\ t.recvNum = u
        /\ t.skipped = (s.skipped \ old) \cup new
        /\ t.sendNum = s.sendNum /\ t.needsDHStep = s.needsDHStep
    BY <2>3 DEF State
  <2>8. t \in State BY <2>3, <2>5, <2>6, <2>7, StateType DEF State
  <2> HIDE DEF t
  <2>9. Sound(t)
    <3>1. \A e \in t.skipped : e \in new \/ e \in s.skipped BY <2>7
    <3>2. Len(t.recv.root) <= Len(t.root) /\ Len(t.send.root) <= Len(t.root)
      BY <2>5, <2>7 DEF Sound
    <3>3. ASSUME NEW e \in t.skipped
          PROVE  /\ Len(e.key.root) <= Len(t.root)
                 /\ e.key.root = t.recv.root => e.key.n < t.recv.n
      <4>1. CASE e \in new BY <2>5, <2>6, <2>7, <4>1 DEF Sound
      <4>2. CASE e \in s.skipped BY <2>2, <2>5, <2>7, <4>2, StateType DEF Sound
      <4>3. QED BY <3>1, <4>1, <4>2
    <3>4. ASSUME NEW e \in t.skipped, NEW f \in t.skipped, e.key = f.key PROVE e = f
      <4>1. \A x \in new, y \in s.skipped : x.key # y.key
        <5>1. ASSUME NEW x \in new, NEW y \in s.skipped, x.key = y.key PROVE FALSE
          <6>1. y.key.root = s.recv.root => y.key.n < s.recv.n BY DEF Sound
          <6>2. y.key.n \in Nat /\ s.recv.n \in Nat BY StateType
          <6>3. QED BY <2>6, <5>1, <6>1, <6>2
        <5>2. QED BY <5>1
      <4>2. CASE e \in new /\ f \in new BY <2>6, <3>4, <4>2
      <4>3. CASE e \in s.skipped /\ f \in s.skipped BY <3>4, <4>3 DEF Sound
      <4>4. QED BY <3>1, <3>4, <4>1, <4>2, <4>3
    <3>5. QED BY <3>2, <3>3, <3>4 DEF Sound
  <2>10. ASSUME NEW k \in ChainKey, Holds(t, k) PROVE Holds(s, k)
    <3>1. CASE t.recv.root = k.root /\ t.recv.n <= k.n BY <2>2, <2>5, <2>7, <3>1, StateType DEF ChainKey, Gives, Holds
    <3>2. CASE \E e \in t.skipped : e.key = k BY <2>6, <2>7, <3>2 DEF Gives, Holds
    <3>3. QED BY <2>10, <3>1, <3>2 DEF Gives, Holds
  <2>11. QED BY <1>2, <2>7, <2>8, <2>9, <2>10 DEF t
<1>3. QED BY <1>1, <1>2

(* dhRatchetStep: the new chains come from longer roots than all before.   *)
LEMMA DHStepKeeps ==
  ASSUME NEW p \in Parties, NEW s \in State, Sound(s), NEW dh \in 1..MaxKeys,
         s.dhs + 1 <= MaxKeys
  PROVE  LET t == DHRatchetStep(p, s, dh) IN
         /\ t \in State /\ Sound(t)
         /\ \A k \in ChainKey : Len(k.root) <= Len(s.root) /\ Holds(t, k) => Holds(s, k)
         /\ Len(t.root) = Len(s.root) + 2 /\ t.send.root = t.root
<1> DEFINE t == DHRatchetStep(p, s, dh)
<1>1. PICK root1 : root1 = Append(s.root, Secret(p, s.dhs, dh)) OBVIOUS
<1>2. PICK root2 : root2 = Append(root1, Secret(p, s.dhs + 1, dh)) OBVIOUS
<1>3. s.dhs + 1 \in 1..MaxKeys BY StateType, RatchetAssumption
<1>4. Secret(p, s.dhs, dh) \in Secrets /\ Secret(p, s.dhs + 1, dh) \in Secrets
  BY <1>3, SecretType, StateType
<1>5. /\ root1 \in Seq(Secrets) /\ root2 \in Seq(Secrets) /\ Len(s.root) \in Nat
      /\ Len(root1) = Len(s.root) + 1 /\ Len(root2) = Len(root1) + 1
  BY <1>1, <1>2, <1>4, RootType, StateType
<1>6. t = [s EXCEPT !.root = root2, !.recv = Chain(root1), !.send = Chain(root2),
               !.dhr = dh, !.dhs = @ + 1, !.recvNum = 0, !.sendNum = 0,
               !.needsDHStep = FALSE]
  BY <1>1, <1>2 DEF DHRatchetStep
<1>7. /\ Chain(root1) \in ChainKey /\ Chain(root2) \in ChainKey
      /\ Chain(root1).root = root1 /\ Chain(root2).root = root2
  BY <1>5, ChainType
<1>8. t \in State
  <2>1. t = [dhs |-> s.dhs + 1, dhr |-> dh, root |-> root2, needsDHStep |-> FALSE,
             send |-> Chain(root2), sendNum |-> 0, prevSend |-> s.prevSend,
             recv |-> Chain(root1), recvNum |-> 0, skipped |-> s.skipped]
    BY <1>6 DEF State
  <2>2. s.skipped \in SUBSET SkippedKey BY StateType
  <2>3. QED BY <1>3, <1>5, <1>7, <2>1, <2>2 DEF State
<1>9. /\ t.root = root2 /\ t.recv.root = root1 /\ t.send.root = root2
      /\ t.skipped = s.skipped
  BY <1>6, <1>7 DEF State
<1> HIDE DEF t
<1>10. \A e \in s.skipped : Len(e.key.root) <= Len(s.root) /\ e.key.root \in Seq(Secrets)
  BY StateType DEF Sound
<1>11. Sound(t)
  <2>1. ASSUME NEW e \in t.skipped
        PROVE  /\ Len(e.key.root) <= Len(t.root)
               /\ e.key.root = t.recv.root => e.key.n < t.recv.n BY <1>5, <1>9, <1>10
  <2>2. QED BY <1>5, <1>9, <2>1 DEF Sound
<1>12. ASSUME NEW k \in ChainKey, Len(k.root) <= Len(s.root), Holds(t, k)
       PROVE  Holds(s, k) BY <1>5, <1>9, <1>12 DEF ChainKey, Gives, Holds
<1>13. QED BY <1>5, <1>8, <1>9, <1>11, <1>12 DEF t

(* The state in which p looks for the key of a message.                    *)
LEMMA ReadyKeeps ==
  ASSUME NEW p \in Parties, NEW s \in State, Sound(s), NEW m \in Message,
         Ready(p, s, m).dhs <= MaxKeys
  PROVE  LET t == Ready(p, s, m) IN
         /\ t \in State /\ Sound(t) /\ Len(t.root) >= Len(s.root)
         /\ \A k \in ChainKey : Gone(s, k) => Gone(t, k)
         /\ \A k \in ChainKey : Spent(s, k) => Spent(t, k)
<1> DEFINE t == Ready(p, s, m)
<1>1. m.dh \in 1..MaxKeys /\ m.prev \in Nat BY DEF Message
<1>2. CASE m.dh = s.dhr BY <1>2, StateType DEF Ready
<1>3. CASE m.dh # s.dhr
  <2>1. PICK r : r = Skip(s, m.prev) OBVIOUS
  <2>2. /\ r \in State /\ Sound(r) /\ r.root = s.root /\ r.send = s.send
        /\ \A k \in ChainKey : Holds(r, k) => Holds(s, k)
    BY <1>1, <2>1, SkipKeeps
  <2>3. t = DHRatchetStep(p, r, m.dh) BY <1>3, <2>1 DEF Ready
  <2>4. r.dhs + 1 <= MaxKeys BY <2>2, <2>3 DEF DHRatchetStep, State
  <2>5. /\ t \in State /\ Sound(t) /\ Len(t.root) = Len(r.root) + 2
        /\ t.send.root = t.root
        /\ \A k \in ChainKey : Len(k.root) <= Len(r.root) /\ Holds(t, k) => Holds(r, k)
    BY <1>1, <2>2, <2>3, <2>4, DHStepKeeps
  <2>6. Len(r.root) \in Nat /\ Len(s.root) = Len(r.root) BY <2>2, StateType
  <2> HIDE DEF t
  <2>7. ASSUME NEW k \in ChainKey, Gone(s, k) PROVE Gone(t, k) BY <2>2, <2>5, <2>6, <2>7 DEF Gone, ChainKey
  <2>8. ASSUME NEW k \in ChainKey, Spent(s, k) PROVE Spent(t, k) BY <2>5, <2>6, <2>8 DEF Spent, ChainKey
  <2>9. QED BY <2>5, <2>6, <2>7, <2>8 DEF t
<1>4. QED BY <1>2, <1>3

LEMMA StartChainKeeps ==
  ASSUME NEW p \in Parties, NEW s \in State, Sound(s),
         StartChain(p, s).dhs <= MaxKeys
  PROVE  LET t == StartChain(p, s) IN
         /\ t \in State /\ Sound(t) /\ Len(t.root) >= Len(s.root)
         /\ t.recv = s.recv /\ t.skipped = s.skipped
         /\ \A k \in ChainKey : Spent(s, k) => Spent(t, k)
<1> DEFINE t == StartChain(p, s)
<1>1. CASE ~s.needsDHStep BY <1>1, StateType DEF StartChain
<1>2. CASE s.needsDHStep
  <2>1. PICK root : root = Append(s.root, Secret(p, s.dhs + 1, s.dhr)) OBVIOUS
  <2>2. t = [s EXCEPT !.root = root, !.send = Chain(root), !.dhs = @ + 1,
                      !.sendNum = 0, !.needsDHStep = FALSE]
    BY <1>2, <2>1 DEF StartChain
  <2>3. t = [dhs |-> s.dhs + 1, dhr |-> s.dhr, root |-> root, needsDHStep |-> FALSE,
             send |-> Chain(root), sendNum |-> 0, prevSend |-> s.prevSend,
             recv |-> s.recv, recvNum |-> s.recvNum, skipped |-> s.skipped]
    BY <2>2 DEF State
  <2>4. s.dhs + 1 \in 1..MaxKeys BY <2>3, StateType, RatchetAssumption
  <2>5. Secret(p, s.dhs + 1, s.dhr) \in Secrets BY <2>4, SecretType, StateType
  <2>6. root \in Seq(Secrets) /\ Len(root) = Len(s.root) + 1 /\ Len(s.root) \in Nat
    BY <2>1, <2>5, RootType, StateType
  <2>7. Chain(root) \in ChainKey /\ Chain(root).root = root BY <2>6, ChainType
  <2>8. t \in State BY <2>3, <2>4, <2>6, <2>7, StateType DEF State
  <2>9. /\ t.root = root /\ t.send.root = root /\ t.recv = s.recv
        /\ t.skipped = s.skipped
    BY <2>3, <2>7
  <2> HIDE DEF t
  <2>10. /\ Len(s.recv.root) \in Nat
         /\ \A e \in s.skipped : Len(e.key.root) \in Nat
    BY StateType
  <2>11. Sound(t) BY <2>6, <2>9, <2>10 DEF Sound
  <2>12. ASSUME NEW k \in ChainKey, Spent(s, k) PROVE Spent(t, k) BY <2>6, <2>9, <2>12 DEF Spent, ChainKey
  <2>13. QED BY <2>6, <2>8, <2>9, <2>11, <2>12 DEF t
<1>3. QED BY <1>1, <1>2

-----------------------------------------------------------------------------
LEMMA MessageOf ==
  ASSUME RatchetTypeOK, NEW p \in Parties
  PROVE  /\ state[p] \in State /\ sent[p] \in Seq(Message) /\ read[p] \in Seq(Nat)
         /\ \A n \in DOMAIN sent[p] : sent[p][n] \in Message /\ sent[p][n].key \in ChainKey
         /\ \A i \in DOMAIN read[p] : read[p][i] \in DOMAIN sent[Other(p)]
<1>1. sent[p] \in Seq(Message) BY DEF RatchetTypeOK
<1>2. \A n \in DOMAIN sent[p] : sent[p][n] \in Message BY <1>1
<1>3. \A m \in Message : m.key \in ChainKey BY DEF Message
<1>4. QED BY <1>1, <1>2, <1>3 DEF RatchetTypeOK

LEMMA InitKeeps == RatchetInit => SessionInv
<1> SUFFICES ASSUME RatchetInit PROVE SessionInv OBVIOUS
<1>1. \A b \in BOOLEAN : NewState(b) \in State /\ Sound(NewState(b))
  <2>1. Chain(<<>>) \in ChainKey /\ Chain(<<>>).root = <<>>
    <3>1. <<>> \in Seq(Secrets) OBVIOUS
    <3>2. QED BY <3>1, ChainType
  <2>2. ASSUME NEW b \in BOOLEAN PROVE NewState(b) \in State
    BY <2>1, RatchetAssumption DEF NewState, State
  <2>3. ASSUME NEW b \in BOOLEAN PROVE Sound(NewState(b))
    BY <2>1 DEF NewState, Sound
  <2>4. QED BY <2>2, <2>3
<1>2. ASSUME NEW p \in Parties
      PROVE  /\ state[p] \in State /\ Sound(state[p])
             /\ sent[p] = <<>> /\ read[p] = <<>>
  BY <1>1 DEF RatchetInit
<1>3. RatchetTypeOK
  <2>1. \A p \in Parties : NewState(p = "initiator") \in State BY <1>1
  <2>2. state \in [Parties -> State] BY <2>1 DEF RatchetInit
  <2>3. sent \in [Parties -> Seq(Message)] /\ read \in [Parties -> Seq(Nat)]
        /\ strayed \in BOOLEAN
    <3>1. <<>> \in Seq(Message) /\ <<>> \in Seq(Nat) OBVIOUS
    <3>2. QED BY <3>1 DEF RatchetInit
  <2>4. QED BY <1>2, <2>2, <2>3 DEF RatchetTypeOK
<1>4. ASSUME NEW p \in Parties PROVE Keys(p) BY <1>2 DEF Keys
<1>5. QED BY <1>3, <1>4 DEF SessionInv

(* A step of the receiving half of p.                                      *)
LEMMA Received ==
  ASSUME SessionInv, NEW p \in Parties, NEW t \in State, Sound(t),
         state' = [state EXCEPT ![p] = t], sent' = sent,
         strayed' \in BOOLEAN,
         \A k \in ChainKey : Gone(state[p], k) => Gone(t, k),
         \A k \in ChainKey : Spent(state[p], k) => Spent(t, k),
         \/ read' = read
         \/ \E n \in DOMAIN sent[Other(p)] :
              /\ read' = [read EXCEPT ![p] = Append(@, n)]
              /\ Gone(t, sent[Other(p)][n].key)
  PROVE  SessionInv'
<1>1. RatchetTypeOK BY DEF SessionInv
<1>2. DOMAIN state = Parties /\ DOMAIN read = Parties BY <1>1 DEF RatchetTypeOK
<1>3. /\ state'[p] = t
      /\ \A q \in Parties : q # p => state'[q] = state[q] /\ read'[q] = read[q]
  BY <1>2
<1>4. ASSUME NEW q \in Parties PROVE Sound(state'[q])
  BY <1>3 DEF SessionInv, Keys
<1>5. ASSUME NEW q \in Parties, NEW n \in DOMAIN sent'[q]
      PROVE  Spent(state'[q], sent'[q][n].key) BY <1>1, <1>3, <1>5, MessageOf DEF SessionInv, Keys
<1>6. ASSUME NEW q \in Parties, NEW i \in DOMAIN read'[q]
      PROVE  /\ read'[q][i] \in DOMAIN sent[Other(q)]
             /\ Gone(state'[q], sent[Other(q)][read'[q][i]].key)
  <2>1. CASE i \in DOMAIN read[q] /\ read'[q][i] = read[q][i]
    BY <1>1, <1>3, <2>1, MessageOf, OtherParty DEF SessionInv, Keys
  <2>2. CASE read'[q] = read[q] BY <1>6, <2>1, <2>2
  <2>3. CASE read'[q] # read[q]
    <3>1. q = p BY <1>3, <2>3
    <3>2. PICK n \in DOMAIN sent[Other(p)] :
             /\ read'[p] = Append(read[p], n) /\ Gone(t, sent[Other(p)][n].key)
      BY <1>2, <2>3, <3>1
    <3>3. read[p] \in Seq(Nat) /\ n \in Nat BY <1>1, <3>2, MessageOf, OtherParty
    <3>4. (i \in DOMAIN read[p] /\ read'[p][i] = read[p][i]) \/ read'[p][i] = n
      BY <1>6, <3>1, <3>2, <3>3
    <3>5. QED BY <1>3, <2>1, <3>1, <3>2, <3>4
  <2>4. QED BY <2>2, <2>3
<1>7. ASSUME NEW q \in Parties PROVE Keys(q)' BY <1>4, <1>5, <1>6 DEF Keys
<1>8. RatchetTypeOK'
  <2>1. state' \in [Parties -> State] BY <1>1 DEF RatchetTypeOK
  <2>2. read' \in [Parties -> Seq(Nat)]
    <3>1. ASSUME NEW n \in DOMAIN sent[Other(p)] PROVE Append(read[p], n) \in Seq(Nat)
      BY <1>1, MessageOf, OtherParty
    <3>2. QED BY <1>1, <3>1 DEF RatchetTypeOK
  <2>3. QED BY <1>1, <1>6, <2>1, <2>2 DEF RatchetTypeOK
<1>9. QED BY <1>7, <1>8 DEF SessionInv

LEMMA EncryptStep == ASSUME SessionInv, NEW p \in Parties, SendMessage(p) PROVE SessionInv'
<1>1. RatchetTypeOK BY DEF SessionInv
<1>2. PICK s : s = StartChain(p, state[p]) OBVIOUS
<1>3. s.dhs <= MaxKeys BY <1>2 DEF SendMessage
<1>4. state[p] \in State /\ Sound(state[p]) BY <1>1 DEF RatchetTypeOK, SessionInv, Keys
<1>5. /\ s \in State /\ Sound(s) /\ Len(s.root) >= Len(state[p].root)
      /\ s.recv = state[p].recv /\ s.skipped = state[p].skipped
      /\ \A k \in ChainKey : Spent(state[p], k) => Spent(s, k)
  BY <1>2, <1>3, <1>4, StartChainKeeps
<1>6. PICK t : t = [s EXCEPT !.prevSend = state[p].send,
                                !.send = Advance(@, 1), !.sendNum = @ + 1] OBVIOUS
<1>7. PICK m : m = [dh |-> s.dhs, prev |-> state[p].sendNum,
                    num |-> s.sendNum, key |-> s.send]
  OBVIOUS
<1>8. /\ state' = [state EXCEPT ![p] = t]
      /\ sent' = [sent EXCEPT ![p] = Append(@, m)]
      /\ UNCHANGED <<read, strayed>>
  BY <1>2, <1>6, <1>7 DEF SendMessage
<1>9. m \in Message /\ m.key = s.send
  BY <1>4, <1>5, <1>7, StateType DEF Message
<1>10. /\ Advance(s.send, 1) \in ChainKey /\ Advance(s.send, 1).root = s.send.root
       /\ Advance(s.send, 1).n = s.send.n + 1
  BY <1>5, AdvanceType, StateType
<1>11. t \in State
  <2>1. t = [dhs |-> s.dhs, dhr |-> s.dhr, root |-> s.root,
             needsDHStep |-> s.needsDHStep,
             send |-> Advance(s.send, 1), sendNum |-> s.sendNum + 1, prevSend |-> state[p].send,
             recv |-> s.recv, recvNum |-> s.recvNum, skipped |-> s.skipped]
    BY <1>5, <1>6 DEF State
  <2>2. s.sendNum + 1 \in Nat /\ s.skipped \in SUBSET SkippedKey BY <1>5, StateType
  <2>3. QED BY <1>4, <1>5, <1>10, <2>1, <2>2, StateType DEF State
<1>12. /\ t.root = s.root /\ t.send = Advance(s.send, 1)
       /\ t.recv = s.recv /\ t.skipped = s.skipped
  BY <1>5, <1>6 DEF State
<1>13. Sound(t) BY <1>5, <1>10, <1>12 DEF Sound
<1>14. ASSUME NEW k \in ChainKey, Gone(state[p], k) PROVE Gone(t, k)
  BY <1>4, <1>5, <1>12, <1>14, StateType DEF Gone, Gives, Holds, ChainKey
<1>15. ASSUME NEW k \in ChainKey, Spent(s, k) \/ k = s.send PROVE Spent(t, k)
  BY <1>5, <1>10, <1>12, <1>15, StateType DEF ChainKey, Spent, Sound
<1>16. DOMAIN state = Parties /\ DOMAIN sent = Parties BY <1>1 DEF RatchetTypeOK
<1>17. ASSUME NEW q \in Parties
       PROVE  /\ sent'[q] \in Seq(Message)
              /\ \A n \in DOMAIN sent[q] : n \in DOMAIN sent'[q] /\ sent'[q][n] = sent[q][n]
              /\ \A n \in DOMAIN sent'[q] :
                   n \in DOMAIN sent[q] \/ (q = p /\ sent'[q][n] = m)
  <2>1. sent[q] \in Seq(Message) BY <1>1, MessageOf
  <2>2. CASE q = p BY <1>8, <1>9, <1>16, <2>1, <2>2
  <2>3. CASE q # p BY <1>8, <1>16, <2>1, <2>3
  <2>4. QED BY <2>2, <2>3
<1>18. ASSUME NEW q \in Parties PROVE Keys(q)'
  <2>1. Sound(state'[q]) BY <1>8, <1>13, <1>16 DEF SessionInv, Keys
  <2>2. ASSUME NEW n \in DOMAIN sent'[q] PROVE Spent(state'[q], sent'[q][n].key)
    <3>1. CASE q # p BY <1>8, <1>16, <1>17, <2>2, <3>1 DEF SessionInv, Keys
    <3>2. CASE q = p
      <4>1. state'[q] = t BY <1>8, <1>16, <3>2
      <4>2. CASE n \in DOMAIN sent[q] BY <1>1, <1>5, <1>15, <1>17, <3>2, <4>1, <4>2, MessageOf DEF SessionInv, Keys
      <4>3. CASE sent'[q][n] = m BY <1>9, <1>15, <4>1, <4>3 DEF Message
      <4>4. QED BY <1>17, <2>2, <4>2, <4>3
    <3>3. QED BY <3>1, <3>2
  <2>3. ASSUME NEW i \in DOMAIN read'[q]
        PROVE  Gone(state'[q], sent'[Other(q)][read'[q][i]].key)
    BY <1>1, <1>8, <1>14, <1>16, <1>17, <2>3, MessageOf, OtherParty DEF SessionInv, Keys
  <2>4. QED BY <2>1, <2>2, <2>3 DEF Keys
<1>19. RatchetTypeOK'
  <2>1. state' \in [Parties -> State] BY <1>1, <1>8, <1>11 DEF RatchetTypeOK
  <2>2. sent' \in [Parties -> Seq(Message)] BY <1>1, <1>8, <1>9, MessageOf DEF RatchetTypeOK
  <2>3. \A q \in Parties : \A i \in DOMAIN read[q] : read[q][i] \in DOMAIN sent'[Other(q)]
    BY <1>1, <1>17, MessageOf, OtherParty
  <2>4. QED BY <1>1, <1>8, <2>1, <2>2, <2>3 DEF RatchetTypeOK
<1>20. QED BY <1>18, <1>19 DEF SessionInv

(* What a handler finds when it begins with message n: the state in which  *)
(* it looks for the key.                                                   *)
LEMMA ReadyState ==
  ASSUME SessionInv, NEW p \in Parties, NEW n \in DOMAIN sent[Other(p)],
         Arrives(p, sent[Other(p)][n])
  PROVE  LET m == sent[Other(p)][n]
             s == Ready(p, state[p], m) IN
         /\ m \in Message /\ m.key \in ChainKey /\ m.num \in Nat
         /\ s \in State /\ Sound(s)
         /\ \A k \in ChainKey : Gone(state[p], k) => Gone(s, k)
         /\ \A k \in ChainKey : Spent(state[p], k) => Spent(s, k)
         /\ strayed' \in BOOLEAN /\ sent' = sent
<1> DEFINE m == sent[Other(p)][n]
<1>1. m \in Message BY MessageOf, OtherParty DEF SessionInv
<1>2. m.key \in ChainKey /\ m.num \in Nat BY <1>1 DEF Message
<1>3. state[p] \in State /\ Sound(state[p]) BY DEF SessionInv, RatchetTypeOK, Keys
<1>4. /\ Ready(p, state[p], m).dhs <= MaxKeys /\ sent' = sent
      /\ strayed' = (strayed \/ m.dh < state[p].dhr)
  BY DEF Arrives
<1>5. strayed' \in BOOLEAN BY <1>4
<1> HIDE DEF m
<1>6. LET s == Ready(p, state[p], m) IN
      /\ s \in State /\ Sound(s)
      /\ \A k \in ChainKey : Gone(state[p], k) => Gone(s, k)
      /\ \A k \in ChainKey : Spent(state[p], k) => Spent(s, k)
  BY <1>1, <1>3, <1>4, ReadyKeeps
<1>7. QED BY <1>1, <1>2, <1>4, <1>5, <1>6 DEF m

(* The chain makes one step; i is what is added to RecvMsgNum.             *)
Moved(s, i) == [s EXCEPT !.recv = Advance(@, 1), !.recvNum = @ + i]

LEMMA ChainMoves ==
  ASSUME NEW r \in State, Sound(r), NEW u \in Nat, NEW i \in Nat
  PROVE  LET t == Moved(Skip(r, u), i) IN
         /\ t \in State /\ Sound(t) /\ Gone(t, Skip(r, u).recv)
         /\ \A k \in ChainKey : Gone(r, k) => Gone(t, k)
         /\ \A k \in ChainKey : Spent(r, k) => Spent(t, k)
<1>0. PICK s : s = Skip(r, u) OBVIOUS
<1>1. PICK t : t = Moved(s, i) OBVIOUS
<1>2. /\ s \in State /\ Sound(s) /\ s.root = r.root /\ s.send = r.send
      /\ \A k \in ChainKey : Holds(s, k) => Holds(r, k)
  BY <1>0, SkipKeeps
<1>3. PICK num : num = s.recvNum + i OBVIOUS
<1>4. /\ Advance(s.recv, 1) \in ChainKey /\ Advance(s.recv, 1).root = s.recv.root
      /\ Advance(s.recv, 1).n = s.recv.n + 1 BY <1>2, StateType, AdvanceType
<1>5. t = [dhs |-> s.dhs, dhr |-> s.dhr, root |-> s.root,
           needsDHStep |-> s.needsDHStep, send |-> s.send, sendNum |-> s.sendNum, prevSend |-> s.prevSend,
           recv |-> Advance(s.recv, 1), recvNum |-> num,
           skipped |-> s.skipped]
  BY <1>1, <1>2, <1>3 DEF Moved, State
<1>6. t \in State BY <1>2, <1>3, <1>4, <1>5, StateType DEF State
<1>7. /\ t.root = s.root /\ t.send = s.send /\ t.skipped = s.skipped
      /\ t.recv = Advance(s.recv, 1)
  BY <1>5
<1>8. s.recv \in ChainKey /\ s.recv.n \in Nat /\ \A e \in s.skipped : e.key.n \in Nat
  BY <1>2, StateType
<1>9. Sound(t) BY <1>2, <1>4, <1>7, <1>8 DEF Sound
<1>10. ASSUME NEW k \in ChainKey, Holds(t, k) PROVE Holds(s, k) /\ k # s.recv
  <2>1. k.n \in Nat BY DEF ChainKey
  <2>2. CASE t.recv.root = k.root /\ t.recv.n <= k.n
    BY <1>4, <1>7, <1>8, <2>1, <2>2 DEF Gives, Holds
  <2>3. CASE \E e \in t.skipped : e.key = k
    BY <1>2, <1>7, <1>8, <2>3 DEF Gives, Holds, Sound
  <2>4. QED BY <1>10, <2>2, <2>3 DEF Gives, Holds
<1>11. Gone(t, s.recv) BY <1>2, <1>7, <1>8, <1>10 DEF Sound, Gone
<1>12. \A k \in ChainKey : Gone(r, k) => Gone(t, k)
  BY <1>2, <1>7, <1>10 DEF Gone
<1>13. \A k \in ChainKey : Spent(r, k) => Spent(t, k)
  BY <1>2, <1>7 DEF Spent
<1>14. QED BY <1>0, <1>1, <1>6, <1>9, <1>11, <1>12, <1>13

(* A stored key is used and forgotten.                                     *)
LEMMA DropKeeps ==
  ASSUME NEW s \in State, Sound(s), NEW num, NEW key \in ChainKey,
         \E e \in Stored(s, num) : e.key = key
  PROVE  /\ Drop(s, num) \in State /\ Sound(Drop(s, num))
         /\ Gone(Drop(s, num), key)
         /\ \A k \in ChainKey : Gone(s, k) => Gone(Drop(s, num), k)
         /\ \A k \in ChainKey : Spent(s, k) => Spent(Drop(s, num), k)
<1>1. PICK e \in s.skipped : e \in Stored(s, num) /\ e.key = key
  BY DEF Stored
<1>2. PICK t : t = Drop(s, num) OBVIOUS
<1>3. t = [s EXCEPT !.skipped = @ \ Stored(s, num)] BY <1>2 DEF Drop
<1>4. t = [dhs |-> s.dhs, dhr |-> s.dhr, root |-> s.root,
           needsDHStep |-> s.needsDHStep, send |-> s.send, sendNum |-> s.sendNum, prevSend |-> s.prevSend,
           recv |-> s.recv, recvNum |-> s.recvNum,
           skipped |-> s.skipped \ Stored(s, num)]
  BY <1>3 DEF State
<1>5. t \in State BY <1>4, StateType DEF State
<1>6. /\ t.root = s.root /\ t.send = s.send /\ t.recv = s.recv
      /\ t.skipped = s.skipped \ Stored(s, num)
  BY <1>4
<1>7. Sound(t) BY <1>6 DEF Sound
<1>8. \A k \in ChainKey : Holds(t, k) => Holds(s, k) BY <1>6 DEF Gives, Holds
<1>9. Gone(t, key)
  <2>1. Len(key.root) <= Len(t.root) BY <1>1, <1>6 DEF Sound
  <2>2. ~(\E f \in t.skipped : f.key = key) BY <1>1, <1>6 DEF Sound
  <2>3. key.root = s.recv.root => key.n < s.recv.n BY <1>1 DEF Sound
  <2>4. key.n \in Nat /\ s.recv.n \in Nat BY StateType DEF ChainKey
  <2>5. QED BY <1>6, <2>1, <2>2, <2>3, <2>4 DEF Gone, Gives, Holds
<1>10. QED BY <1>2, <1>5, <1>6, <1>7, <1>8, <1>9 DEF Gone, Spent

LEMMA ReceiveStep ==
  ASSUME SessionInv, NEW p \in Parties, NEW n \in DOMAIN sent[Other(p)],
         ReadSkipped(p, n) \/ ReadNext(p, n) \/ Refuse(p, n) \/ Garble(p, n)
  PROVE  SessionInv'
<1>1. PICK m : m = sent[Other(p)][n] OBVIOUS
<1>2. PICK r : r = Ready(p, state[p], m) OBVIOUS
<1>3. /\ m \in Message /\ m.key \in ChainKey /\ m.num \in Nat
      /\ r \in State /\ Sound(r)
      /\ \A k \in ChainKey : Gone(state[p], k) => Gone(r, k)
      /\ \A k \in ChainKey : Spent(state[p], k) => Spent(r, k)
      /\ strayed' \in BOOLEAN /\ sent' = sent
  BY <1>1, <1>2, ReadyState DEF ReadSkipped, ReadNext, Refuse, Garble
<1>4. CASE ReadSkipped(p, n)
  <2>1. PICK t : t = Drop(r, m.num) OBVIOUS
  <2>2. /\ \E e \in Stored(r, m.num) : e.key = m.key
        /\ state' = [state EXCEPT ![p] = t]
        /\ read' = [read EXCEPT ![p] = Append(@, n)]
    BY <1>1, <1>2, <1>4, <2>1 DEF ReadSkipped, Become
  <2>3. /\ t \in State /\ Sound(t) /\ Gone(t, m.key)
        /\ \A k \in ChainKey : Gone(r, k) => Gone(t, k)
        /\ \A k \in ChainKey : Spent(r, k) => Spent(t, k)
    BY <1>3, <2>1, <2>2, DropKeeps
  <2>4. QED BY <1>1, <1>3, <2>2, <2>3, Received
<1>5. CASE ReadNext(p, n)
  <2>1. PICK s : s = Skip(r, m.num) OBVIOUS
  <2>2. PICK t : t = Moved(s, 1) OBVIOUS
  <2>3. /\ s.recv = m.key /\ state' = [state EXCEPT ![p] = t]
        /\ read' = [read EXCEPT ![p] = Append(@, n)]
    BY <1>1, <1>2, <1>5, <2>1, <2>2 DEF ReadNext, Become, Moved
  <2>4. /\ t \in State /\ Sound(t) /\ Gone(t, m.key)
        /\ \A k \in ChainKey : Gone(r, k) => Gone(t, k)
        /\ \A k \in ChainKey : Spent(r, k) => Spent(t, k)
    BY <1>3, <2>1, <2>2, <2>3, ChainMoves
  <2>5. QED BY <1>1, <1>3, <2>3, <2>4, Received
<1>6. CASE Refuse(p, n) BY <1>1, <1>2, <1>3, <1>6, Received DEF Refuse, Become
<1>7. CASE Garble(p, n)
  <2>1. PICK s : s = Skip(r, m.num) OBVIOUS
  <2>2. PICK t : t = [s EXCEPT !.recv = Advance(@, 1)] OBVIOUS
  <2>3. state' = [state EXCEPT ![p] = t] /\ read' = read
    BY <1>1, <1>2, <1>7, <2>1, <2>2 DEF Garble, Become
  <2>4. t = Moved(s, 0)
    <3>1. s \in State BY <1>3, <2>1, SkipKeeps
    <3>2. s.recvNum + 0 = s.recvNum BY <3>1, StateType
    <3>3. QED BY <2>2, <3>1, <3>2 DEF State, Moved
  <2>5. /\ t \in State /\ Sound(t)
        /\ \A k \in ChainKey : Gone(r, k) => Gone(t, k)
        /\ \A k \in ChainKey : Spent(r, k) => Spent(t, k)
    BY <1>3, <2>1, <2>4, ChainMoves
  <2>6. QED BY <1>3, <2>3, <2>5, Received
<1>8. QED BY <1>4, <1>5, <1>6, <1>7

(* The invariant holds in every behaviour of a session.                    *)
THEOREM SessionInvariant == RatchetSpec => []SessionInv
<1>1. SessionInv /\ [RatchetNext]_ratchetVars => SessionInv'
  BY EncryptStep, ReceiveStep DEF RatchetNext, HandleDataFrame, ratchetVars, SessionInv, RatchetTypeOK, Keys
<1>2. QED BY <1>1, InitKeeps, PTL DEF RatchetSpec

(* The variables keep the shapes the code's types give them.               *)
THEOREM SessionTypeCorrect == RatchetSpec => []RatchetTypeOK
<1>1. SessionInv => RatchetTypeOK BY DEF SessionInv
<1>2. QED BY <1>1, SessionInvariant, PTL

\* Only Encrypt moves PrevSendChainKey.
LEMMA PrevSendStays ==
  ASSUME SessionInv, NEW p \in Parties, NEW n \in DOMAIN sent[Other(p)],
         ReadSkipped(p, n) \/ ReadNext(p, n) \/ Refuse(p, n) \/ Garble(p, n),
         NEW q \in Parties
  PROVE  state'[q].prevSend = state[q].prevSend /\ sent' = sent
<1>1. PICK m : m = sent[Other(p)][n] OBVIOUS
<1>2. PICK r : r = Ready(p, state[p], m) OBVIOUS
<1>3. /\ m \in Message /\ m.num \in Nat /\ r \in State /\ Sound(r) /\ sent' = sent
      /\ state \in [Parties -> State] /\ Sound(state[p])
  BY <1>1, <1>2, ReadyState DEF ReadSkipped, ReadNext, Refuse, Garble, SessionInv, RatchetTypeOK, Keys
<1>4. ASSUME NEW s \in State, NEW u \in Nat PROVE Skip(s, u).prevSend = s.prevSend
  BY DEF Skip, State
<1>5. ASSUME NEW s \in State, NEW dh PROVE DHRatchetStep(p, s, dh).prevSend = s.prevSend
  BY DEF DHRatchetStep, State
<1>6. r.prevSend = state[p].prevSend
  <2>1. m.prev \in Nat BY <1>3 DEF Message
  <2>2. Skip(state[p], m.prev) \in State BY <1>3, <2>1, SkipKeeps
  <2>3. QED BY <1>2, <1>3, <1>4, <1>5, <2>1, <2>2 DEF Ready
<1>7. Skip(r, m.num) \in State BY <1>3, SkipKeeps
<1>8. PICK s \in State : s = Skip(r, m.num) /\ s.prevSend = r.prevSend BY <1>3, <1>4, <1>7
<1>9. \/ state' = [state EXCEPT ![p] = Drop(r, m.num)]
      \/ state' = [state EXCEPT ![p] = [s EXCEPT !.recv = Advance(@, 1), !.recvNum = @ + 1]]
      \/ state' = [state EXCEPT ![p] = r]
      \/ state' = [state EXCEPT ![p] = [s EXCEPT !.recv = Advance(@, 1)]]
  BY <1>1, <1>2, <1>8 DEF ReadSkipped, ReadNext, Refuse, Garble, Become
<1>10. Drop(r, m.num).prevSend = r.prevSend BY <1>3 DEF Drop, State
<1>11. /\ [s EXCEPT !.recv = Advance(@, 1), !.recvNum = @ + 1].prevSend = s.prevSend
       /\ [s EXCEPT !.recv = Advance(@, 1)].prevSend = s.prevSend
  BY DEF State
<1>12. state'[p].prevSend = r.prevSend BY <1>3, <1>8, <1>9, <1>10, <1>11
<1>13. q # p => state'[q] = state[q] BY <1>3, <1>9
<1>14. QED BY <1>3, <1>6, <1>12, <1>13

(* PrevSendChainKey is past the keys of all messages but the last.         *)
LastOnly ==
  \A p \in Parties : \A n \in DOMAIN sent[p] :
    n < Len(sent[p]) => ~Gives(state[p].prevSend, sent[p][n].key)

LEMMA LastOnlyStep == ASSUME SessionInv, LastOnly, [RatchetNext]_ratchetVars PROVE LastOnly'
<1>1. ASSUME NEW p \in Parties, SendMessage(p), NEW q \in Parties, NEW n \in DOMAIN sent'[q],
             n < Len(sent'[q])
      PROVE  ~Gives(state'[q].prevSend, sent'[q][n].key)
  <2>1. state \in [Parties -> State] /\ sent \in [Parties -> Seq(Message)]
    BY DEF SessionInv, RatchetTypeOK
  <2>2. CASE q # p BY <1>1, <2>1, <2>2 DEF SendMessage, LastOnly
  <2>3. CASE q = p
    <3>1. PICK s : s = StartChain(p, state[p]) OBVIOUS
    <3>2. s \in State BY <1>1, <2>1, <3>1, StartChainKeeps DEF SendMessage, SessionInv, Keys
    <3>3. PICK m : sent' = [sent EXCEPT ![p] = Append(@, m)] BY <1>1 DEF SendMessage
    <3>4. state' = [state EXCEPT ![p] = [s EXCEPT !.prevSend = state[p].send,
                 !.send = Advance(@, 1), !.sendNum = @ + 1]]
      BY <1>1, <3>1 DEF SendMessage
    <3>5. state'[p].prevSend = state[p].send BY <2>1, <3>2, <3>4 DEF State
    <3>6. n \in DOMAIN sent[p] /\ sent'[p][n] = sent[p][n]
      <4>1. PICK old, new : old = sent[p] /\ new = sent'[p] OBVIOUS
      <4>2. old \in Seq(Message) /\ new = Append(old, m) BY <2>1, <3>3, <4>1
      <4>3. /\ Len(new) = Len(old) + 1 /\ Len(old) \in Nat /\ DOMAIN new = 1..Len(new)
            /\ DOMAIN old = 1..Len(old) /\ \A i \in 1..Len(old) : new[i] = old[i]
        BY <4>2
      <4>4. QED BY <1>1, <2>3, <4>1, <4>3
    <3>7. Spent(state[p], sent[p][n].key) BY <3>6 DEF SessionInv, Keys
    <3>8. sent[p][n].key \in ChainKey BY <3>6, MessageOf DEF SessionInv
    <3>9. state[p].send.n \in Nat BY <2>1, StateType
    <3>10. QED BY <2>3, <3>5, <3>6, <3>7, <3>8, <3>9 DEF Spent, Gives, ChainKey
  <2>4. QED BY <2>2, <2>3
<1>2. ASSUME NEW p \in Parties, HandleDataFrame(p) PROVE LastOnly'
  BY <1>2, PrevSendStays DEF HandleDataFrame, LastOnly
<1>3. CASE UNCHANGED ratchetVars BY <1>3 DEF ratchetVars, LastOnly
<1>4. QED BY <1>1, <1>2, <1>3 DEF RatchetNext, LastOnly

(* A key is gone from the reader once it is used, and from the sender once *)
(* another message is sent.                                                *)
THEOREM UsedKeysErased == RatchetSpec => []KeysErased
<1>1. RatchetInit => LastOnly BY DEF RatchetInit, LastOnly
<1>2. SessionInv /\ LastOnly => KeysErased
  <2> SUFFICES ASSUME SessionInv, LastOnly PROVE KeysErased OBVIOUS
  <2>1. ASSUME NEW p \in Parties, NEW n \in DOMAIN sent[p] PROVE ~Gives(state[p].send, sent[p][n].key)
    <3>1. sent[p][n].key \in ChainKey /\ state[p] \in State BY <2>1, MessageOf DEF SessionInv
    <3>2. state[p].send.n \in Nat /\ sent[p][n].key.n \in Nat BY <3>1, StateType DEF ChainKey
    <3>3. QED BY <2>1, <3>2 DEF SessionInv, Keys, Spent, Gives
  <2>2. QED BY <2>1 DEF SessionInv, Keys, LastOnly, KeysErased, Gone
<1>3. QED BY <1>1, <1>2, LastOnlyStep, SessionInvariant, PTL DEF RatchetSpec

-----------------------------------------------------------------------------
(* A message whose key is gone is not read again.                          *)
LEMMA ReadsUnread ==
  ASSUME SessionInv, NEW p \in Parties, NEW n \in DOMAIN sent[Other(p)],
         ReadSkipped(p, n) \/ ReadNext(p, n)
  PROVE  \A i \in DOMAIN read[p] : read[p][i] # n
<1>1. PICK m : m = sent[Other(p)][n] OBVIOUS
<1>2. PICK r : r = Ready(p, state[p], m) OBVIOUS
<1>3. /\ m.key \in ChainKey /\ m.num \in Nat /\ r \in State /\ Sound(r)
      /\ \A k \in ChainKey : Gone(state[p], k) => Gone(r, k)
  BY <1>1, <1>2, ReadyState DEF ReadSkipped, ReadNext
<1>4. Holds(r, m.key)
  <2>1. CASE ReadSkipped(p, n)
    BY <1>1, <1>2, <2>1 DEF ReadSkipped, Stored, Gives, Holds
  <2>2. CASE ReadNext(p, n)
    <3>1. PICK s : s = Skip(r, m.num) OBVIOUS
    <3>2. s.recv = m.key BY <1>1, <1>2, <2>2, <3>1 DEF ReadNext
    <3>3. /\ s \in State
          /\ \A k \in ChainKey : Holds(s, k) => Holds(r, k)
      BY <1>3, <3>1, SkipKeeps
    <3>4. Holds(s, m.key) BY <3>2, <3>3, StateType DEF Gives, Holds
    <3>5. QED BY <1>3, <3>3, <3>4
  <2>3. QED BY <2>1, <2>2
<1>5. ~Gone(state[p], m.key) BY <1>3, <1>4 DEF Gone
<1>6. QED BY <1>1, <1>5 DEF SessionInv, Keys

(* The session implements the channel: each message is read at most once,  *)
(* and only what was sent.                                                 *)
THEOREM Implementation == RatchetSpec => ReadOnce
<1>1. RatchetInit => SessionChannel!Init
  BY DEF RatchetInit, SessionChannel!Init
<1>2. SessionInv /\ [RatchetNext]_ratchetVars => [SessionChannel!Next]_<<[p \in Parties |-> Len(sent[p])], read>>
  <2> DEFINE count == [p \in Parties |-> Len(sent[p])]
  <2>1. ASSUME SessionInv, NEW p \in Parties, SendMessage(p)
        PROVE  SessionChannel!Send(p)
    <3>1. PICK m : sent' = [sent EXCEPT ![p] = Append(@, m)] /\ read' = read
      BY <2>1 DEF SendMessage
    <3>2. sent \in [Parties -> Seq(Message)] BY <2>1 DEF SessionInv, RatchetTypeOK
    <3>3. Len(Append(sent[p], m)) = Len(sent[p]) + 1 BY <3>2
    <3>4. count' = [count EXCEPT ![p] = @ + 1] BY <3>1, <3>2, <3>3
    <3>5. QED BY <3>1, <3>4 DEF SessionChannel!Send
  <2>2. ASSUME SessionInv, NEW p \in Parties, NEW n \in DOMAIN sent[Other(p)],
               ReadSkipped(p, n) \/ ReadNext(p, n)
        PROVE  SessionChannel!Read(p)
    <3>1. sent' = sent /\ read' = [read EXCEPT ![p] = Append(@, n)]
      BY <2>2 DEF ReadSkipped, ReadNext, Arrives
    <3>2. \A i \in DOMAIN read[p] : read[p][i] # n BY <2>2, ReadsUnread
    <3>3. Other(p) \in Parties /\ sent[Other(p)] \in Seq(Message)
      BY <2>2, OtherParty DEF SessionInv, RatchetTypeOK
    <3>4. n \in 1..count[Other(p)] BY <3>3
    <3>5. QED BY <3>1, <3>2, <3>4 DEF SessionChannel!Read
  <2>3. ASSUME NEW p \in Parties, NEW n \in DOMAIN sent[Other(p)],
               Refuse(p, n) \/ Garble(p, n)
        PROVE  UNCHANGED <<count, read>>
    BY <2>3 DEF Refuse, Garble, Arrives
  <2>4. ASSUME UNCHANGED ratchetVars PROVE UNCHANGED <<count, read>> BY <2>4 DEF ratchetVars
  <2>5. QED BY <2>1, <2>2, <2>3, <2>4 DEF RatchetNext, HandleDataFrame, SessionChannel!Next
<1>3. QED BY <1>1, <1>2, SessionInvariant, PTL DEF RatchetSpec, ReadOnce, SessionChannel!Spec

-----------------------------------------------------------------------------
(* ChainTolerant: how the two halves of a session fit together.           *)

(* What p has encrypted: nothing under a key still to come, each number of *)
(* a chain once and in order, and the last chain under its own root.       *)
Streams(p, s) ==
  /\ s.send.n = s.sendNum
  /\ \A n \in DOMAIN sent[p] :
       LET m == sent[p][n] IN
       /\ m.dh <= s.dhs
       /\ m.dh = s.dhs => m.num < s.sendNum /\ m.key = [root |-> s.send.root, n |-> m.num]
  /\ \A n, k \in DOMAIN sent[p] :
       sent[p][n].dh = sent[p][k].dh /\ sent[p][n].num = sent[p][k].num => n = k

(* p, in state s and having read got, can still open the current chain of *)
(* the other: from the chain, or with the key it kept.                     *)
Follows(p, s, got) ==
  /\ s.recv.n = s.recvNum
  /\ \A n \in DOMAIN sent[Other(p)] :
       LET m == sent[Other(p)][n] IN
       m.dh = s.dhr =>
         /\ m.key = [root |-> s.recv.root, n |-> m.num]
         /\ n \notin got /\ m.num < s.recvNum => \E e \in Stored(s, m.num) : e.key = m.key

(* The receiving chain of t is the sending chain of s.                     *)
Feeds(s, t) ==
  /\ ~s.needsDHStep /\ s.send.root = s.root
  /\ t.dhr = s.dhs /\ t.recv.root = s.send.root /\ t.recvNum <= s.sendNum

(* p, in state s, is one DH step ahead of the other party, in state t; or  *)
(* p is the initiator and nothing has been encrypted by it.                *)
Leads(p, s, t) ==
  /\ Feeds(t, s)
  /\ IF s.needsDHStep
     THEN s.dhs = t.dhr /\ s.root = t.root /\ sent[p] = <<>>
     ELSE /\ s.dhs = t.dhr + 1 /\ s.send.root = s.root
          /\ s.root = Append(t.root, Secret(p, s.dhs, t.dhs))

Paired(p, s, t) == Leads(p, s, t) \/ Leads(Other(p), t, s)

ReadBy(p) == {read[p][i] : i \in DOMAIN read[p]}

Follower(p) ==
  /\ Streams(p, state[p]) /\ Follows(p, state[p], ReadBy(p))
  /\ Paired(p, state[p], state[Other(p)])

InStep == \A p \in Parties : Follower(p)

-----------------------------------------------------------------------------
LEMMA AdvanceIs ==
  ASSUME NEW k \in ChainKey, NEW i \in Nat
  PROVE  Advance(k, i) = [root |-> k.root, n |-> k.n + i]
  BY DEF Advance, ChainKey

(* What skipMessageKeys leaves alone and what it stores.                   *)
LEMMA SkipStores ==
  ASSUME NEW s \in State, NEW u \in Nat
  PROVE  LET t == Skip(s, u) IN
         /\ t.recv.root = s.recv.root /\ (s.recv.n = s.recvNum => t.recv.n = t.recvNum)
         /\ t.dhs = s.dhs /\ t.dhr = s.dhr /\ t.root = s.root
         /\ t.needsDHStep = s.needsDHStep /\ t.send = s.send /\ t.sendNum = s.sendNum
         /\ t.recvNum = IF u <= s.recvNum THEN s.recvNum ELSE u
         /\ \A num \in Nat : num < s.recvNum => Stored(s, num) \subseteq Stored(t, num)
         /\ \A num \in s.recvNum..(u - 1) :
              [dhr |-> s.dhr, num |-> num, key |-> Advance(s.recv, num - s.recvNum)]
                \in Stored(t, num)
<1>1. CASE u <= s.recvNum BY <1>1, StateType DEF Skip
<1>2. CASE ~(u <= s.recvNum)
  <2> DEFINE nums == s.recvNum..(u - 1)
             entry(n) == [dhr |-> s.dhr, num |-> n, key |-> Advance(s.recv, n - s.recvNum)]
             new == {entry(n) : n \in nums}
             old == UNION {Stored(s, n) : n \in nums}
  <2>1. PICK d : d = u - s.recvNum OBVIOUS
  <2>2. s.recvNum \in Nat /\ s.recv \in ChainKey /\ d \in Nat /\ s.recvNum + d = u
    BY <1>2, <2>1, StateType
  <2>3. PICK t : t = Skip(s, u) OBVIOUS
  <2>4. t = [s EXCEPT !.recv = Advance(@, d), !.recvNum = u,
                      !.skipped = (@ \ old) \cup new]
    BY <1>2, <2>1, <2>3 DEF Skip
  <2>5. t = [dhs |-> s.dhs, dhr |-> s.dhr, root |-> s.root,
             needsDHStep |-> s.needsDHStep, send |-> s.send, sendNum |-> s.sendNum, prevSend |-> s.prevSend,
             recv |-> Advance(s.recv, d), recvNum |-> u,
             skipped |-> (s.skipped \ old) \cup new]
    BY <2>4 DEF State
  <2>6. Advance(s.recv, d).root = s.recv.root /\ Advance(s.recv, d).n = s.recv.n + d
    BY <2>2, AdvanceType
  <2>7. ASSUME NEW num \in Nat, num < s.recvNum, NEW e \in Stored(s, num)
        PROVE  e \in Stored(t, num)
    <3>1. e \in s.skipped /\ e.dhr = s.dhr /\ e.num = num BY <2>7 DEF Stored
    <3>2. e \notin old
      <4>1. ASSUME NEW n \in nums, e \in Stored(s, n) PROVE FALSE BY <2>2, <2>7, <3>1, <4>1 DEF Stored
      <4>2. QED BY <4>1
    <3>3. e \in t.skipped /\ t.dhr = s.dhr BY <2>5, <3>1, <3>2
    <3>4. QED BY <3>1, <3>3 DEF Stored
  <2>8. ASSUME NEW num \in nums PROVE entry(num) \in Stored(t, num)
    <3>1. entry(num) \in t.skipped /\ t.dhr = s.dhr BY <2>5, <2>8
    <3>2. entry(num).dhr = s.dhr /\ entry(num).num = num OBVIOUS
    <3> HIDE DEF entry
    <3>3. QED BY <3>1, <3>2 DEF Stored
  <2>9. /\ t.recv.root = s.recv.root /\ (s.recv.n = s.recvNum => t.recv.n = t.recvNum)
        /\ t.dhs = s.dhs /\ t.dhr = s.dhr /\ t.root = s.root
        /\ t.needsDHStep = s.needsDHStep /\ t.send = s.send /\ t.sendNum = s.sendNum
        /\ t.recvNum = u
    BY <2>2, <2>5, <2>6
  <2>10. QED BY <1>2, <2>3, <2>7, <2>8, <2>9
<1>3. QED BY <1>1, <1>2

(* Skipping keeps what can be opened.                                      *)
LEMMA SkipFollows ==
  ASSUME RatchetTypeOK, NEW p \in Parties, NEW s \in State, NEW got,
         Follows(p, s, got), NEW u \in Nat
  PROVE  Follows(p, Skip(s, u), got)
<1>1. PICK t : t = Skip(s, u) OBVIOUS
<1>2. /\ t.recv.root = s.recv.root /\ (s.recv.n = s.recvNum => t.recv.n = t.recvNum)
      /\ t.dhr = s.dhr /\ t.recvNum = IF u <= s.recvNum THEN s.recvNum ELSE u
      /\ \A num \in Nat : num < s.recvNum => Stored(s, num) \subseteq Stored(t, num)
      /\ \A num \in s.recvNum..(u - 1) :
           [dhr |-> s.dhr, num |-> num, key |-> Advance(s.recv, num - s.recvNum)]
             \in Stored(t, num)
  BY <1>1, SkipStores
<1>3. s.recv.n = s.recvNum /\ s.recvNum \in Nat /\ s.recv \in ChainKey
  BY StateType DEF Follows
<1>4. ASSUME NEW n \in DOMAIN sent[Other(p)], sent[Other(p)][n].dh = t.dhr
      PROVE  LET m == sent[Other(p)][n] IN
             /\ m.key = [root |-> t.recv.root, n |-> m.num]
             /\ n \notin got /\ m.num < t.recvNum => \E e \in Stored(t, m.num) : e.key = m.key
  <2>1. PICK m : m = sent[Other(p)][n] OBVIOUS
  <2>2. m \in Message BY <2>1, MessageOf, OtherParty
  <2>3. m.num \in Nat BY <2>2 DEF Message
  <2>4. /\ m.key = [root |-> s.recv.root, n |-> m.num]
        /\ n \notin got /\ m.num < s.recvNum => \E e \in Stored(s, m.num) : e.key = m.key
    BY <1>2, <1>4, <2>1 DEF Follows
  <2>5. ASSUME n \notin got, m.num < t.recvNum
        PROVE  \E e \in Stored(t, m.num) : e.key = m.key
    <3>1. CASE m.num < s.recvNum BY <1>2, <2>3, <2>4, <2>5, <3>1
    <3>2. CASE ~(m.num < s.recvNum)
      <4>1. PICK i : i = m.num - s.recvNum OBVIOUS
      <4>2. i \in Nat /\ s.recv.n + i = m.num BY <1>3, <2>3, <3>2, <4>1
      <4>3. m.num \in s.recvNum..(u - 1) BY <1>2, <1>3, <2>3, <2>5, <3>2
      <4>4. [dhr |-> s.dhr, num |-> m.num, key |-> Advance(s.recv, i)] \in Stored(t, m.num)
        BY <1>2, <4>1, <4>3
      <4>5. Advance(s.recv, i) = m.key BY <1>3, <2>4, <4>2, AdvanceIs
      <4>6. QED BY <4>4, <4>5
    <3>3. QED BY <3>1, <3>2
  <2>6. QED BY <1>2, <2>1, <2>4, <2>5
<1>5. QED BY <1>1, <1>2, <1>3, <1>4 DEF Follows

(* Reading from the chain.                                                 *)
LEMMA NextFollows ==
  ASSUME RatchetTypeOK, NEW p \in Parties, NEW r \in State, NEW got,
         Follows(p, r, got), Streams(Other(p), state[Other(p)]),
         NEW n \in DOMAIN sent[Other(p)], Sound(r),
         sent[Other(p)][n].dh = r.dhr, sent[Other(p)][n].num >= r.recvNum
  PROVE  LET m == sent[Other(p)][n]
             s == Skip(r, m.num)
         IN /\ s.recv = m.key /\ s.recvNum = m.num
            /\ Follows(p, Moved(s, 1), got \cup {n})
<1>1. PICK m : m = sent[Other(p)][n] OBVIOUS
<1>2. PICK s : s = Skip(r, m.num) OBVIOUS
<1>3. m \in Message BY <1>1, MessageOf, OtherParty
<1>4. m.num \in Nat BY <1>3 DEF Message
<1>5. r.recvNum \in Nat /\ m.num >= r.recvNum BY <1>1, StateType
<1>6. s \in State BY <1>2, <1>4, SkipKeeps
<1>7. Follows(p, s, got) BY <1>2, <1>4, SkipFollows
<1>8. s.recvNum = m.num /\ s.dhr = m.dh BY <1>1, <1>2, <1>4, <1>5, SkipStores
<1>9. s.recv = [root |-> s.recv.root, n |-> s.recv.n] /\ s.recv \in ChainKey
  BY <1>6, StateType DEF ChainKey
<1>10. s.recv.n = m.num /\ m.key = [root |-> s.recv.root, n |-> m.num]
  BY <1>1, <1>7, <1>8 DEF Follows
<1>11. s.recv = m.key BY <1>9, <1>10
<1>12. PICK t : t = Moved(s, 1) OBVIOUS
<1>13. Advance(s.recv, 1) = [root |-> s.recv.root, n |-> s.recv.n + 1]
  BY <1>9, AdvanceIs
<1>14. t = [dhs |-> s.dhs, dhr |-> s.dhr, root |-> s.root,
            needsDHStep |-> s.needsDHStep, send |-> s.send, sendNum |-> s.sendNum, prevSend |-> s.prevSend,
            recv |-> [root |-> s.recv.root, n |-> s.recv.n + 1], recvNum |-> s.recvNum + 1,
            skipped |-> s.skipped]
  BY <1>6, <1>12, <1>13 DEF Moved, State
<1>15. /\ t.recv.n = t.recvNum /\ t.recv.root = s.recv.root /\ t.dhr = s.dhr
       /\ t.recvNum = m.num + 1
  BY <1>8, <1>10, <1>14
<1>16. ASSUME NEW num PROVE Stored(t, num) = Stored(s, num) BY <1>14 DEF Stored
<1>17. ASSUME NEW k \in DOMAIN sent[Other(p)], sent[Other(p)][k].dh = t.dhr
       PROVE  LET w == sent[Other(p)][k] IN
              /\ w.key = [root |-> t.recv.root, n |-> w.num]
              /\ k \notin got \cup {n} /\ w.num < t.recvNum
                   => \E e \in Stored(t, w.num) : e.key = w.key
  <2>1. PICK w : w = sent[Other(p)][k] OBVIOUS
  <2>2. w \in Message BY <2>1, MessageOf, OtherParty
  <2>3. w.num \in Nat BY <2>2 DEF Message
  <2>4. /\ w.key = [root |-> s.recv.root, n |-> w.num]
        /\ k \notin got /\ w.num < s.recvNum => \E e \in Stored(s, w.num) : e.key = w.key
    BY <1>7, <1>15, <1>17, <2>1 DEF Follows
  <2>5. ASSUME k \notin got \cup {n}, w.num < t.recvNum
        PROVE  \E e \in Stored(t, w.num) : e.key = w.key
    <3>1. w.num # m.num BY <1>1, <1>8, <1>15, <1>17, <2>1, <2>5 DEF Streams
    <3>2. w.num < s.recvNum BY <1>4, <1>8, <1>15, <2>3, <2>5, <3>1
    <3>3. QED BY <1>16, <2>4, <2>5, <3>2
  <2>6. QED BY <1>15, <2>1, <2>4, <2>5
<1>18. Follows(p, t, got \cup {n}) BY <1>15, <1>17 DEF Follows
<1>19. QED BY <1>1, <1>2, <1>8, <1>11, <1>12, <1>18

(* Reading with a key that was kept.                                       *)
LEMMA DropFollows ==
  ASSUME RatchetTypeOK, NEW p \in Parties, NEW r \in State, NEW got,
         Follows(p, r, got), Streams(Other(p), state[Other(p)]),
         NEW n \in DOMAIN sent[Other(p)], sent[Other(p)][n].dh = r.dhr
  PROVE  Follows(p, Drop(r, sent[Other(p)][n].num), got \cup {n})
<1>1. PICK m : m = sent[Other(p)][n] OBVIOUS
<1>2. PICK t : t = Drop(r, m.num) OBVIOUS
<1>3. t = [dhs |-> r.dhs, dhr |-> r.dhr, root |-> r.root,
           needsDHStep |-> r.needsDHStep, send |-> r.send, sendNum |-> r.sendNum, prevSend |-> r.prevSend,
           recv |-> r.recv, recvNum |-> r.recvNum,
           skipped |-> r.skipped \ Stored(r, m.num)]
  BY <1>2 DEF Drop, State
<1>4. t.recv = r.recv /\ t.dhr = r.dhr /\ t.recvNum = r.recvNum
      /\ t.skipped = r.skipped \ Stored(r, m.num)
  BY <1>3
<1>5. ASSUME NEW num, num # m.num PROVE Stored(r, num) \subseteq Stored(t, num)
  BY <1>4, <1>5 DEF Stored
<1>6. ASSUME NEW k \in DOMAIN sent[Other(p)], sent[Other(p)][k].dh = t.dhr
      PROVE  LET w == sent[Other(p)][k] IN
             /\ w.key = [root |-> t.recv.root, n |-> w.num]
             /\ k \notin got \cup {n} /\ w.num < t.recvNum
                  => \E e \in Stored(t, w.num) : e.key = w.key
  <2>1. PICK w : w = sent[Other(p)][k] OBVIOUS
  <2>2. /\ w.key = [root |-> r.recv.root, n |-> w.num]
        /\ k \notin got /\ w.num < r.recvNum => \E e \in Stored(r, w.num) : e.key = w.key
    BY <1>4, <1>6, <2>1 DEF Follows
  <2>3. ASSUME k \notin got \cup {n}, w.num < t.recvNum
        PROVE  \E e \in Stored(t, w.num) : e.key = w.key
    <3>1. w.num # m.num BY <1>1, <1>4, <1>6, <2>1, <2>3 DEF Streams
    <3>2. QED BY <1>4, <1>5, <2>2, <2>3, <3>1
  <2>4. QED BY <1>4, <2>1, <2>2, <2>3
<1>7. QED BY <1>1, <1>2, <1>4, <1>6 DEF Follows

LEMMA SecretSymmetric ==
  ASSUME NEW p \in Parties, NEW a, NEW b
  PROVE  Secret(p, a, b) = Secret(Other(p), b, a)
  BY DEF Secret, Parties, Other

(* A message of a chain p has not begun comes from the chain next to it.   *)
LEMMA OneAhead ==
  ASSUME SessionInv, InStep, NEW p \in Parties, NEW n \in DOMAIN sent[Other(p)],
         sent[Other(p)][n].dh > state[p].dhr
  PROVE  LET q == Other(p)
             s == state[p]
             t == state[q]
             m == sent[q][n] IN
         /\ ~t.needsDHStep /\ t.send.root = t.root
         /\ t.root = Append(s.root, Secret(q, t.dhs, s.dhs))
         /\ m.dh = t.dhs /\ t.dhr = s.dhs
<1>1. PICK q : q = Other(p) OBVIOUS
<1>2. q \in Parties /\ p = Other(q) BY <1>1, OtherParty
<1>3. PICK m : m = sent[q][n] OBVIOUS
<1>4. PICK s : s = state[p] OBVIOUS
<1>5. PICK t : t = state[q] OBVIOUS
<1>6. RatchetTypeOK BY DEF SessionInv
<1>7. s \in State /\ t \in State BY <1>2, <1>4, <1>5, <1>6, MessageOf
<1>8. m \in Message BY <1>1, <1>2, <1>3, <1>6, MessageOf
<1>9. m.dh \in Nat /\ m.dh > s.dhr BY <1>1, <1>3, <1>4, <1>8 DEF Message
<1>10. Paired(p, s, t) /\ Streams(q, t)
  BY <1>1, <1>2, <1>4, <1>5 DEF InStep, Follower
<1>11. m.dh <= t.dhs BY <1>1, <1>3, <1>10 DEF Streams
<1>12. s.dhs \in Nat /\ s.dhr \in Nat /\ t.dhs \in Nat /\ t.dhr \in Nat
  BY <1>7, StateType
<1>13. Leads(q, t, s) BY <1>1, <1>9, <1>10, <1>11, <1>12 DEF Paired, Leads, Feeds
<1>14. /\ Feeds(s, t) /\ ~t.needsDHStep /\ t.dhs = s.dhr + 1
       /\ t.send.root = t.root /\ t.root = Append(s.root, Secret(q, t.dhs, s.dhs)) BY <1>1, <1>13 DEF Leads
<1>15. t.dhr = s.dhs BY <1>14 DEF Feeds
<1>16. m.dh = t.dhs BY <1>9, <1>11, <1>12, <1>14
<1>17. QED BY <1>1, <1>3, <1>4, <1>5, <1>14, <1>15, <1>16

(* The parties stay in step when p begins with message n of the other.     *)
LEMMA ReadyInStep ==
  ASSUME SessionInv, InStep, NEW p \in Parties, NEW n \in DOMAIN sent[Other(p)],
         Arrives(p, sent[Other(p)][n]), ~strayed'
  PROVE  LET m == sent[Other(p)][n]
             r == Ready(p, state[p], m) IN
         /\ r.dhr = m.dh /\ Follows(p, r, ReadBy(p)) /\ Streams(p, r)
         /\ Paired(p, r, state[Other(p)])
<1>1. PICK q : q = Other(p) OBVIOUS
<1>2. q \in Parties /\ p = Other(q) BY <1>1, OtherParty
<1>3. PICK m : m = sent[q][n] OBVIOUS
<1>4. PICK s : s = state[p] OBVIOUS
<1>5. PICK t : t = state[q] OBVIOUS
<1>6. PICK r : r = Ready(p, s, m) OBVIOUS
<1>7. RatchetTypeOK BY DEF SessionInv
<1>8. s \in State /\ t \in State BY <1>2, <1>4, <1>5, <1>7, MessageOf
<1>9. m \in Message BY <1>1, <1>2, <1>3, <1>7, MessageOf
<1>10. m.dh \in Nat /\ m.prev \in Nat /\ m.num \in Nat BY <1>9 DEF Message
<1>11. r \in State /\ Sound(r) BY <1>1, <1>3, <1>4, <1>6, ReadyState
<1>12. /\ Follows(p, s, ReadBy(p)) /\ Streams(p, s) /\ Paired(p, s, t)
       /\ Streams(q, t)
  BY <1>1, <1>2, <1>4, <1>5 DEF InStep, Follower
<1>13. ~(m.dh < s.dhr) BY <1>1, <1>3, <1>4 DEF Arrives
<1>14. CASE m.dh = s.dhr BY <1>1, <1>3, <1>4, <1>5, <1>6, <1>12, <1>14 DEF Ready
<1>15. CASE m.dh # s.dhr
  <2>1. m.dh > s.dhr BY <1>8, <1>10, <1>13, <1>15, StateType
  <2>2. s.dhs \in Nat /\ s.dhr \in Nat /\ t.dhs \in Nat /\ t.dhr \in Nat
    BY <1>8, StateType
  <2>3. /\ ~t.needsDHStep /\ t.send.root = t.root
        /\ t.root = Append(s.root, Secret(q, t.dhs, s.dhs))
        /\ m.dh = t.dhs /\ t.dhr = s.dhs
    BY <1>1, <1>3, <1>4, <1>5, <2>1, OneAhead
  <2>4. ~t.needsDHStep /\ t.send.root = t.root BY <2>3
  <2>5. m.dh = t.dhs /\ t.dhr = s.dhs BY <2>3
  <2>6. PICK k : k = Skip(s, m.prev) OBVIOUS
  <2>7. /\ k \in State /\ k.root = s.root /\ k.dhs = s.dhs
    BY <1>4, <1>8, <1>10, <2>6, SkipKeeps DEF SessionInv, Keys
  <2>8. PICK root1 : root1 = Append(k.root, Secret(p, k.dhs, m.dh)) OBVIOUS
  <2>9. PICK root2 : root2 = Append(root1, Secret(p, k.dhs + 1, m.dh)) OBVIOUS
  <2>10. r = DHRatchetStep(p, k, m.dh) BY <1>6, <1>15, <2>6 DEF Ready
  <2>11. r = [k EXCEPT !.root = root2, !.recv = Chain(root1), !.send = Chain(root2),
               !.dhr = m.dh, !.dhs = @ + 1, !.recvNum = 0, !.sendNum = 0,
               !.needsDHStep = FALSE]
    BY <2>8, <2>9, <2>10 DEF DHRatchetStep
  <2>12. r = [dhs |-> s.dhs + 1, dhr |-> m.dh, root |-> root2, needsDHStep |-> FALSE,
              send |-> Chain(root2), sendNum |-> 0, prevSend |-> k.prevSend,
              recv |-> Chain(root1), recvNum |-> 0, skipped |-> k.skipped]
    BY <2>7, <2>11 DEF State
  <2>13. /\ Chain(root1).root = root1 /\ Chain(root2).root = root2
         /\ Chain(root1).n = 0 /\ Chain(root2).n = 0
    BY DEF Chain
  <2>14. /\ r.dhs = s.dhs + 1 /\ r.dhr = m.dh /\ r.root = root2 /\ ~r.needsDHStep
         /\ r.send.root = root2 /\ r.send.n = 0 /\ r.sendNum = 0
         /\ r.recv.root = root1 /\ r.recv.n = 0 /\ r.recvNum = 0
    BY <2>12, <2>13
  <2>15. root1 = t.root BY <1>2, <2>3, <2>5, <2>7, <2>8, SecretSymmetric
  <2>16. root2 = Append(t.root, Secret(p, r.dhs, t.dhs))
    BY <2>5, <2>7, <2>9, <2>14, <2>15
  <2>17. Streams(p, r)
    <3>1. ASSUME NEW i \in DOMAIN sent[p]
          PROVE  sent[p][i].dh <= r.dhs /\ sent[p][i].dh # r.dhs
      <4>1. sent[p][i] \in Message BY <1>7, MessageOf
      <4>2. sent[p][i].dh \in Nat BY <4>1 DEF Message
      <4>3. sent[p][i].dh <= s.dhs BY <1>12 DEF Streams
      <4>4. QED BY <2>2, <2>14, <4>2, <4>3
    <3>2. \A i, j \in DOMAIN sent[p] :
            sent[p][i].dh = sent[p][j].dh /\ sent[p][i].num = sent[p][j].num => i = j
      BY <1>12 DEF Streams
    <3>3. QED BY <2>14, <3>1, <3>2 DEF Streams
  <2>18. Follows(p, r, ReadBy(p))
    <3>1. ASSUME NEW i \in DOMAIN sent[q], sent[q][i].dh = r.dhr
          PROVE  LET w == sent[q][i] IN
                 /\ w.key = [root |-> r.recv.root, n |-> w.num]
                 /\ i \notin ReadBy(p) /\ w.num < r.recvNum
                      => \E e \in Stored(r, w.num) : e.key = w.key
      <4>1. sent[q][i] \in Message BY <1>2, <1>7, MessageOf
      <4>2. sent[q][i].num \in Nat BY <4>1 DEF Message
      <4>3. sent[q][i].key = [root |-> t.send.root, n |-> sent[q][i].num]
        BY <1>12, <2>5, <2>14, <3>1 DEF Streams
      <4>4. ~(sent[q][i].num < r.recvNum) BY <2>14, <4>2
      <4>5. QED BY <2>4, <2>14, <2>15, <4>3, <4>4
    <3>2. QED BY <1>1, <2>14, <3>1 DEF Follows
  <2>19. Feeds(t, r) BY <1>8, <2>4, <2>5, <2>14, <2>15, StateType DEF Feeds
  <2>20. Leads(p, r, t) BY <2>5, <2>14, <2>16, <2>19 DEF Leads, Feeds
  <2>21. Paired(p, r, t) BY <2>20 DEF Paired
  <2>22. QED BY <1>1, <1>3, <1>4, <1>5, <1>6, <2>14, <2>17, <2>18, <2>21
<1>16. QED BY <1>14, <1>15

(* A step of the receiving half of p leaves the parties in step: r is the  *)
(* state of p before the chain or the kept keys are touched, and t after.  *)
LEMMA StillInStep ==
  ASSUME SessionInv, InStep, NEW p \in Parties, NEW r \in State, NEW t \in State, NEW got,
         Follows(p, t, got), Streams(p, r), Paired(p, r, state[Other(p)]),
         t.dhs = r.dhs, t.dhr = r.dhr, t.root = r.root, t.needsDHStep = r.needsDHStep,
         t.send = r.send, t.sendNum = r.sendNum, t.recv.root = r.recv.root,
         r.dhr = state[Other(p)].dhs => t.recvNum <= state[Other(p)].sendNum,
         state' = [state EXCEPT ![p] = t], sent' = sent,
         ReadBy(p)' = got, ReadBy(Other(p))' = ReadBy(Other(p))
  PROVE  InStep'
<1>1. PICK q : q = Other(p) OBVIOUS
<1>2. q \in Parties /\ p = Other(q) /\ q # p BY <1>1, OtherParty
<1>3. PICK u : u = state[q] OBVIOUS
<1>4. DOMAIN state = Parties BY DEF SessionInv, RatchetTypeOK
<1>5. state'[p] = t /\ state'[q] = u BY <1>2, <1>3, <1>4
<1>6. Streams(q, u) /\ Follows(q, u, ReadBy(q))
  BY <1>2, <1>3 DEF InStep, Follower
<1>7. Streams(p, t) BY DEF Streams
<1>8. Paired(p, t, u)
  <2>1. CASE Leads(p, r, u) BY <1>1, <1>3, <2>1 DEF Leads, Feeds, Paired
  <2>2. CASE Leads(q, u, r)
    BY <1>1, <2>2 DEF Paired, Leads, Feeds
  <2>3. QED BY <1>1, <1>3, <2>1, <2>2 DEF Paired
<1>9. Paired(q, u, t) BY <1>1, <1>2, <1>8 DEF Paired
<1>10. Parties = {p, q} BY <1>1 DEF Parties, Other
<1>11. Streams(p, state[p])' /\ Streams(q, state[q])'
  BY <1>5, <1>6, <1>7 DEF Streams
<1>12. Follows(p, state[p], ReadBy(p))' BY <1>5 DEF Follows
<1>13. Follows(q, state[q], ReadBy(q))' BY <1>1, <1>5, <1>6 DEF Follows
<1>14. Paired(p, state[p], state[q])' /\ Paired(q, state[q], state[p])'
  BY <1>5, <1>8, <1>9 DEF Paired, Leads
<1>15. Follower(p)' /\ Follower(q)'
  BY <1>1, <1>2, <1>11, <1>12, <1>13, <1>14 DEF Follower
<1>16. QED BY <1>10, <1>15 DEF InStep

LEMMA ReadSet ==
  ASSUME RatchetTypeOK, NEW p \in Parties, NEW q \in Parties
  PROVE  /\ \A n \in DOMAIN sent[Other(p)] :
              read' = [read EXCEPT ![p] = Append(@, n)]
                => ReadBy(q)' = IF q = p THEN ReadBy(q) \cup {n} ELSE ReadBy(q)
         /\ read' = read => ReadBy(q)' = ReadBy(q)
<1>1. read[q] \in Seq(Nat) /\ DOMAIN read = Parties BY MessageOf DEF RatchetTypeOK
<1>2. ASSUME NEW n \in DOMAIN sent[Other(p)],
             read' = [read EXCEPT ![p] = Append(@, n)]
      PROVE  ReadBy(q)' = IF q = p THEN ReadBy(q) \cup {n} ELSE ReadBy(q)
  <2>1. CASE q # p BY <1>1, <1>2, <2>1 DEF ReadBy
  <2>2. CASE q = p
    <3>1. read'[q] = Append(read[q], n) BY <1>1, <1>2, <2>2
    <3>2. PICK old, new : old = read[q] /\ new = read'[q] OBVIOUS
    <3>3. new = Append(old, n) /\ old \in Seq(Nat) BY <1>1, <3>1, <3>2
    <3>4. n \in Nat BY MessageOf, OtherParty
    <3>5. /\ Len(new) = Len(old) + 1 /\ new[Len(old) + 1] = n /\ Len(old) \in Nat
          /\ \A i \in 1..Len(old) : new[i] = old[i]
          /\ DOMAIN new = 1..Len(new) /\ DOMAIN old = 1..Len(old)
      BY <3>3, <3>4
    <3>6. {new[i] : i \in DOMAIN new} = {old[i] : i \in DOMAIN old} \cup {n} BY <3>5
    <3>7. QED BY <2>2, <3>2, <3>6 DEF ReadBy
  <2>3. QED BY <2>1, <2>2
<1>3. read' = read => ReadBy(q)' = ReadBy(q) BY DEF ReadBy
<1>4. QED BY <1>2, <1>3

LEMMA ReceiveInStep ==
  ASSUME SessionInv, InStep, NEW p \in Parties, NEW n \in DOMAIN sent[Other(p)],
         ReadSkipped(p, n) \/ ReadNext(p, n) \/ Refuse(p, n) \/ Garble(p, n),
         ~strayed'
  PROVE  InStep'
<1>1. PICK q : q = Other(p) OBVIOUS
<1>2. q \in Parties /\ q # p BY <1>1, OtherParty
<1>3. PICK m : m = sent[q][n] OBVIOUS
<1>4. PICK r : r = Ready(p, state[p], m) OBVIOUS
<1>5. Arrives(p, sent[Other(p)][n])
  BY DEF ReadSkipped, ReadNext, Refuse, Garble
<1>6. m.num \in Nat /\ r \in State /\ Sound(r) /\ sent' = sent
  BY <1>1, <1>3, <1>4, <1>5, ReadyState
<1>7. /\ r.dhr = m.dh /\ Follows(p, r, ReadBy(p)) /\ Streams(p, r)
      /\ Paired(p, r, state[q])
  BY <1>1, <1>3, <1>4, <1>5, ReadyInStep
<1>8. RatchetTypeOK BY DEF SessionInv
<1>9. Streams(q, state[q]) BY <1>2 DEF InStep, Follower
<1>10. r.dhr = state[q].dhs => m.num < state[q].sendNum
  BY <1>1, <1>3, <1>7, <1>9 DEF Streams
<1>11. state[q] \in State BY <1>2, <1>8, MessageOf
<1>12. state[q].sendNum \in Nat BY <1>11, StateType
<1>13. r.recvNum \in Nat BY <1>6, StateType
<1>14. r.dhr = state[q].dhs => r.recvNum <= state[q].sendNum
  <2>1. CASE Leads(p, r, state[q]) BY <2>1 DEF Leads, Feeds
  <2>2. CASE Leads(q, state[q], r) BY <1>1, <1>6, <2>2, StateType DEF Leads
  <2>3. QED BY <1>1, <1>7, <2>1, <2>2 DEF Paired
<1>15. CASE ReadSkipped(p, n)
  <2>1. PICK t : t = Drop(r, m.num) OBVIOUS
  <2>2. /\ \E e \in Stored(r, m.num) : e.key = m.key
        /\ state' = [state EXCEPT ![p] = t]
        /\ read' = [read EXCEPT ![p] = Append(@, n)]
    BY <1>1, <1>3, <1>4, <1>15, <2>1 DEF ReadSkipped, Become
  <2>3. m.key \in ChainKey BY <1>1, <1>2, <1>3, <1>8, MessageOf
  <2>4. t \in State BY <1>6, <2>1, <2>2, <2>3, DropKeeps
  <2>5. Follows(p, t, ReadBy(p) \cup {n})
    BY <1>1, <1>3, <1>6, <1>7, <1>8, <1>9, <2>1, DropFollows
  <2>6. t = [r EXCEPT !.skipped = @ \ Stored(r, m.num)] BY <2>1 DEF Drop
  <2>7. /\ t.dhs = r.dhs /\ t.dhr = r.dhr /\ t.root = r.root
        /\ t.needsDHStep = r.needsDHStep /\ t.send = r.send /\ t.sendNum = r.sendNum
        /\ t.recv = r.recv /\ t.recvNum = r.recvNum
    BY <1>6, <2>6 DEF State
  <2>8. ReadBy(p)' = ReadBy(p) \cup {n} /\ ReadBy(q)' = ReadBy(q)
    BY <1>1, <1>2, <1>8, <2>2, ReadSet
  <2>9. QED
    BY <1>1, <1>6, <1>7, <1>14, <2>2, <2>4, <2>5, <2>7, <2>8, StillInStep
<1>16. CASE ReadNext(p, n) \/ Garble(p, n)
  <2>1. PICK s : s = Skip(r, m.num) OBVIOUS
  <2>2. m.num >= r.recvNum BY <1>1, <1>3, <1>4, <1>16 DEF ReadNext, Garble
  <2>3. /\ s.recv = m.key /\ s.recvNum = m.num
        /\ Follows(p, Moved(s, 1), ReadBy(p) \cup {n})
    BY <1>1, <1>3, <1>6, <1>7, <1>8, <1>9, <2>1, <2>2, NextFollows
  <2>4. PICK t : t = Moved(s, 1) OBVIOUS
  <2>5. /\ state' = [state EXCEPT ![p] = t]
        /\ read' = [read EXCEPT ![p] = Append(@, n)]
    BY <1>1, <1>3, <1>4, <1>16, <2>1, <2>3, <2>4 DEF Garble, ReadNext, Become, Moved
  <2>6. t \in State BY <1>6, <2>1, <2>4, ChainMoves
  <2>7. s \in State BY <1>6, <2>1, SkipKeeps
  <2>8. /\ s.dhs = r.dhs /\ s.dhr = r.dhr /\ s.root = r.root
        /\ s.needsDHStep = r.needsDHStep /\ s.send = r.send /\ s.sendNum = r.sendNum
        /\ s.recv.root = r.recv.root
    BY <1>6, <2>1, SkipStores
  <2>9. s.recv \in ChainKey BY <2>7, StateType
  <2>10. Advance(s.recv, 1).root = s.recv.root BY <2>9, AdvanceType
  <2>11. t = [s EXCEPT !.recv = Advance(s.recv, 1), !.recvNum = s.recvNum + 1]
    BY <2>4 DEF Moved
  <2>12. /\ t.dhs = s.dhs /\ t.dhr = s.dhr /\ t.root = s.root
         /\ t.needsDHStep = s.needsDHStep /\ t.send = s.send /\ t.sendNum = s.sendNum
         /\ t.recv = Advance(s.recv, 1) /\ t.recvNum = s.recvNum + 1
    BY <2>7, <2>11 DEF State
  <2>13. r.dhr = state[q].dhs => t.recvNum <= state[q].sendNum
    BY <1>6, <1>10, <1>12, <2>3, <2>12
  <2>14. ReadBy(p)' = ReadBy(p) \cup {n} /\ ReadBy(q)' = ReadBy(q)
    BY <1>1, <1>2, <1>8, <2>5, ReadSet
  <2>15. Follows(p, t, ReadBy(p) \cup {n}) BY <2>3, <2>4
  <2>16. QED
    BY <1>1, <1>6, <1>7, <2>5, <2>6, <2>8, <2>10, <2>12, <2>13, <2>14, <2>15, StillInStep
<1>17. CASE Refuse(p, n)
  <2>1. state' = [state EXCEPT ![p] = r] /\ read' = read
    BY <1>1, <1>3, <1>4, <1>17 DEF Refuse, Become
  <2>2. ReadBy(p)' = ReadBy(p) /\ ReadBy(q)' = ReadBy(q) BY <2>1 DEF ReadBy
  <2>3. QED BY <1>1, <1>6, <1>7, <1>14, <2>1, <2>2, StillInStep
<1>18. QED BY <1>15, <1>16, <1>17

(* The initiator's first Encrypt starts its sending chain.                 *)
LEMMA StartInStep ==
  ASSUME SessionInv, InStep, NEW p \in Parties, StartChain(p, state[p]).dhs <= MaxKeys
  PROVE  LET s == StartChain(p, state[p]) IN
         /\ ~s.needsDHStep
         /\ Streams(p, s) /\ Follows(p, s, ReadBy(p)) /\ Paired(p, s, state[Other(p)])
<1>1. PICK u : u = state[Other(p)] OBVIOUS
<1>2. PICK s : s = state[p] OBVIOUS
<1>3. s \in State /\ RatchetTypeOK BY <1>2, MessageOf DEF SessionInv
<1>4. Streams(p, s) /\ Follows(p, s, ReadBy(p)) /\ Paired(p, s, u)
  BY <1>1, <1>2 DEF InStep, Follower
<1>5. CASE ~s.needsDHStep BY <1>1, <1>2, <1>4, <1>5 DEF StartChain
<1>6. CASE s.needsDHStep
  <2>1. PICK root : root = Append(s.root, Secret(p, s.dhs + 1, s.dhr)) OBVIOUS
  <2>2. PICK t : t = StartChain(p, s) OBVIOUS
  <2>3. t = [s EXCEPT !.root = root, !.send = Chain(root), !.dhs = @ + 1,
                      !.sendNum = 0, !.needsDHStep = FALSE]
    BY <1>6, <2>1, <2>2 DEF StartChain
  <2>4. t = [dhs |-> s.dhs + 1, dhr |-> s.dhr, root |-> root, needsDHStep |-> FALSE,
             send |-> Chain(root), sendNum |-> 0, prevSend |-> s.prevSend,
             recv |-> s.recv, recvNum |-> s.recvNum, skipped |-> s.skipped]
    BY <1>3, <2>3 DEF State
  <2>5. Chain(root).root = root /\ Chain(root).n = 0 BY DEF Chain
  <2>6. /\ t.dhs = s.dhs + 1 /\ t.dhr = s.dhr /\ t.root = root /\ ~t.needsDHStep
        /\ t.send.root = root /\ t.send.n = 0 /\ t.sendNum = 0
        /\ t.recv = s.recv /\ t.recvNum = s.recvNum /\ t.skipped = s.skipped
    BY <2>4, <2>5
  <2>7. Leads(p, s, u) BY <1>4, <1>6 DEF Paired, Leads, Feeds
  <2>8. /\ Feeds(u, s) /\ s.dhs = u.dhr /\ s.root = u.root /\ sent[p] = <<>>
    BY <1>6, <2>7 DEF Leads
  <2>9. Streams(p, t) BY <2>6, <2>8 DEF Streams
  <2>10. Follows(p, t, ReadBy(p)) BY <1>4, <2>6 DEF Follows, Stored
  <2>11. Feeds(u, t) BY <2>6, <2>8 DEF Feeds
  <2>12. t.root = Append(u.root, Secret(p, t.dhs, u.dhs)) BY <2>1, <2>6, <2>8 DEF Feeds
  <2>13. Leads(p, t, u) BY <2>6, <2>8, <2>11, <2>12 DEF Leads
  <2>14. QED BY <1>1, <1>2, <2>2, <2>6, <2>9, <2>10, <2>13 DEF Paired
<1>7. s.needsDHStep \in BOOLEAN BY <1>3, StateType
<1>8. QED BY <1>5, <1>6

LEMMA SendInStep ==
  ASSUME SessionInv, InStep, NEW p \in Parties, SendMessage(p)
  PROVE  InStep'
<1>1. PICK q : q = Other(p) OBVIOUS
<1>2. q \in Parties /\ p = Other(q) /\ q # p BY <1>1, OtherParty
<1>3. PICK s : s = StartChain(p, state[p]) OBVIOUS
<1>4. PICK u : u = state[q] OBVIOUS
<1>5. PICK t : t = [s EXCEPT !.prevSend = state[p].send,
                                !.send = Advance(@, 1), !.sendNum = @ + 1] OBVIOUS
<1>6. PICK m : m = [dh |-> s.dhs, prev |-> state[p].sendNum,
                    num |-> s.sendNum, key |-> s.send]
  OBVIOUS
<1>7. /\ state' = [state EXCEPT ![p] = t] /\ s.dhs <= MaxKeys
      /\ sent' = [sent EXCEPT ![p] = Append(@, m)]
      /\ read' = read
  BY <1>3, <1>5, <1>6 DEF SendMessage
<1>8. RatchetTypeOK BY DEF SessionInv
<1>9. state[p] \in State /\ u \in State /\ Sound(state[p])
  BY <1>2, <1>4, <1>8, MessageOf DEF SessionInv, Keys
<1>10. s \in State BY <1>3, <1>7, <1>9, StartChainKeeps
<1>11. /\ ~s.needsDHStep
       /\ Streams(p, s) /\ Follows(p, s, ReadBy(p)) /\ Paired(p, s, u)
  BY <1>1, <1>3, <1>4, <1>7, StartInStep
<1>12. Streams(q, u) /\ Follows(q, u, ReadBy(q))
  BY <1>2, <1>4 DEF InStep, Follower
<1>13. /\ s.send = [root |-> s.send.root, n |-> s.send.n] /\ s.send \in ChainKey
       /\ s.sendNum \in Nat /\ s.dhs \in Nat
  BY <1>10, StateType DEF ChainKey
<1>14. Advance(s.send, 1).root = s.send.root /\ Advance(s.send, 1).n = s.send.n + 1
  BY <1>13, AdvanceType
<1>15. /\ t.dhs = s.dhs /\ t.dhr = s.dhr /\ t.root = s.root /\ ~t.needsDHStep
       /\ t.send = Advance(s.send, 1) /\ t.sendNum = s.sendNum + 1
       /\ t.recv = s.recv /\ t.recvNum = s.recvNum /\ t.skipped = s.skipped
  BY <1>5, <1>10, <1>11 DEF State
<1>16. t.send.root = s.send.root /\ t.send.n = t.sendNum
  BY <1>11, <1>14, <1>15 DEF Streams
<1>17. m.dh = s.dhs /\ m.num = s.sendNum /\ m.key = [root |-> s.send.root, n |-> m.num]
  BY <1>6, <1>11, <1>13 DEF Streams
<1>18. DOMAIN state = Parties /\ DOMAIN sent = Parties /\ Parties = {p, q}
  BY <1>1, <1>8 DEF RatchetTypeOK, Parties, Other
<1>19. state'[p] = t /\ state'[q] = u /\ sent'[q] = sent[q] /\ sent'[p] = Append(sent[p], m)
  BY <1>2, <1>4, <1>7, <1>18
<1>20. /\ \A n \in DOMAIN sent'[p] :
            (n \in DOMAIN sent[p] /\ sent'[p][n] = sent[p][n]) \/ sent'[p][n] = m
       /\ \A n, k \in DOMAIN sent'[p] :
            n \notin DOMAIN sent[p] /\ k \notin DOMAIN sent[p] => n = k
  <2>1. sent[p] \in Seq(Message) BY <1>8, MessageOf
  <2>2. PICK old, new : old = sent[p] /\ new = sent'[p] OBVIOUS
  <2>3. old \in Seq(Message) /\ new = Append(old, m) BY <1>19, <2>1, <2>2
  <2>4. m \in Message BY <1>6, <1>9, <1>10, StateType DEF Message
  <2>5. /\ Len(new) = Len(old) + 1 /\ new[Len(old) + 1] = m /\ Len(old) \in Nat
        /\ \A i \in 1..Len(old) : new[i] = old[i]
        /\ DOMAIN new = 1..Len(new) /\ DOMAIN old = 1..Len(old)
    BY <2>3, <2>4
  <2>6. QED BY <2>2, <2>5
<1>21. ASSUME NEW n \in DOMAIN sent'[p], NEW k \in DOMAIN sent'[p],
              n \in DOMAIN sent[p], k \notin DOMAIN sent[p]
       PROVE  ~(sent'[p][n].dh = sent'[p][k].dh /\ sent'[p][n].num = sent'[p][k].num)
  <2>1. sent'[p][k] = m BY <1>20, <1>21
  <2>2. sent'[p][n] = sent[p][n] BY <1>8, <1>19, <1>21, MessageOf
  <2>3. sent[p][n] \in Message BY <1>8, <1>21, MessageOf
  <2>4. sent[p][n].num \in Nat BY <2>3 DEF Message
  <2>5. sent[p][n].dh = s.dhs => sent[p][n].num < s.sendNum
    BY <1>11, <1>21 DEF Streams
  <2>6. QED BY <1>13, <1>17, <2>1, <2>2, <2>4, <2>5
<1>22. Streams(p, state[p])'
  <2>1. ASSUME NEW n \in DOMAIN sent'[p]
        PROVE  LET w == sent'[p][n] IN
               /\ w.dh <= t.dhs
               /\ w.dh = t.dhs => w.num < t.sendNum /\ w.key = [root |-> t.send.root, n |-> w.num]
    <3>1. CASE sent'[p][n] = m BY <1>13, <1>15, <1>16, <1>17, <3>1
    <3>2. CASE n \in DOMAIN sent[p] /\ sent'[p][n] = sent[p][n]
      <4>1. PICK w : w = sent[p][n] OBVIOUS
      <4>2. w \in Message BY <1>8, <3>2, <4>1, MessageOf
      <4>3. w.num \in Nat BY <4>2 DEF Message
      <4>4. /\ w.dh <= s.dhs
            /\ w.dh = s.dhs => w.num < s.sendNum /\ w.key = [root |-> s.send.root, n |-> w.num]
        BY <1>11, <3>2, <4>1 DEF Streams
      <4>5. w.dh = t.dhs => w.num < t.sendNum BY <1>13, <1>15, <4>3, <4>4
      <4>6. QED BY <1>15, <1>16, <3>2, <4>1, <4>4, <4>5
    <3>3. QED BY <1>20, <2>1, <3>1, <3>2
  <2>2. ASSUME NEW n \in DOMAIN sent'[p], NEW k \in DOMAIN sent'[p],
               sent'[p][n].dh = sent'[p][k].dh, sent'[p][n].num = sent'[p][k].num
        PROVE  n = k
    <3>1. CASE n \in DOMAIN sent[p] /\ k \in DOMAIN sent[p] BY <1>8, <1>11, <1>19, <2>2, <3>1, MessageOf DEF Streams
    <3>2. QED BY <1>20, <1>21, <2>2, <3>1
  <2>3. QED BY <1>16, <1>19, <2>1, <2>2 DEF Streams
<1>23. Streams(q, state[q])' BY <1>12, <1>19 DEF Streams
<1>24. ReadBy(p)' = ReadBy(p) /\ ReadBy(q)' = ReadBy(q) BY <1>7 DEF ReadBy
<1>25. Follows(p, state[p], ReadBy(p))'
  <2>1. Follows(p, t, ReadBy(p)) BY <1>11, <1>15 DEF Follows, Stored
  <2>2. QED BY <1>1, <1>19, <1>24, <2>1 DEF Follows
<1>26. Follows(q, state[q], ReadBy(q))'
  <2>1. ASSUME NEW n \in DOMAIN sent'[p], sent'[p][n].dh = u.dhr
        PROVE  LET w == sent'[p][n] IN
               /\ w.key = [root |-> u.recv.root, n |-> w.num]
               /\ n \notin ReadBy(q) /\ w.num < u.recvNum
                    => \E e \in Stored(u, w.num) : e.key = w.key
    <3>1. CASE n \in DOMAIN sent[p] /\ sent'[p][n] = sent[p][n]
      BY <1>2, <1>12, <2>1, <3>1 DEF Follows
    <3>2. CASE sent'[p][n] = m BY <1>9, <1>11, <1>13, <1>17, <2>1, <3>2, StateType DEF Leads, Paired, Feeds
    <3>3. QED BY <1>20, <2>1, <3>1, <3>2
  <2>2. QED BY <1>2, <1>12, <1>19, <1>24, <2>1 DEF Follows
<1>27. Paired(p, state[p], state[q])' /\ Paired(q, state[q], state[p])'
  <2>1. CASE Leads(p, s, u) BY <1>1, <1>2, <1>11, <1>15, <1>16, <1>19, <2>1 DEF Leads, Feeds, Paired
  <2>2. CASE Leads(q, u, s)
    <3>1. u.recvNum \in Nat BY <1>9, StateType
    <3>2. Feeds(t, u) BY <1>13, <1>15, <1>16, <2>2, <3>1 DEF Leads, Feeds
    <3>3. Leads(q, state[q], state[p])' BY <1>15, <1>19, <2>2, <3>2 DEF Leads, Feeds
    <3>4. QED BY <1>1, <1>2, <3>3 DEF Paired
  <2>3. QED BY <1>1, <1>11, <2>1, <2>2 DEF Paired
<1>28. Follower(p)' /\ Follower(q)'
  BY <1>1, <1>2, <1>22, <1>23, <1>25, <1>26, <1>27 DEF Follower
<1>29. QED BY <1>18, <1>28 DEF InStep

LEMMA InitInStep == RatchetInit => InStep
<1> SUFFICES ASSUME RatchetInit PROVE InStep OBVIOUS
<1>1. ASSUME NEW p \in Parties
      PROVE  /\ state[p].send = Chain(<<>>) /\ state[p].recv = Chain(<<>>)
             /\ state[p].sendNum = 0 /\ state[p].recvNum = 0 /\ state[p].root = <<>>
             /\ state[p].dhs = 1 /\ state[p].dhr = 1 /\ sent[p] = <<>>
             /\ state[p].needsDHStep <=> p = "initiator"
  BY DEF RatchetInit, NewState
<1>2. Chain(<<>>).root = <<>> /\ Chain(<<>>).n = 0 BY DEF Chain
<1>3. ASSUME NEW p \in Parties PROVE Streams(p, state[p])
  BY <1>1, <1>2 DEF Streams
<1>4. ASSUME NEW p \in Parties PROVE Follows(p, state[p], ReadBy(p))
  BY <1>1, <1>2, OtherParty DEF Follows
<1>5. ASSUME NEW p \in Parties PROVE Paired(p, state[p], state[Other(p)])
  <2>1. Leads("initiator", state["initiator"], state["responder"]) BY <1>1, <1>2 DEF Parties, Leads, Feeds
  <2>2. QED BY <2>1 DEF Paired, Parties, Other
<1>6. QED BY <1>3, <1>4, <1>5 DEF InStep, Follower

(* The parties are in step as long as no message of an abandoned chain has *)
(* been delivered.                                                         *)
THEOREM StepsAgree == RatchetSpec => [](~strayed => InStep)
<1>1. RatchetInit => (~strayed => InStep) BY InitInStep
<1>2. SessionInv /\ (~strayed => InStep) /\ [RatchetNext]_ratchetVars => (~strayed => InStep)'
  <2>1. ASSUME SessionInv, ~strayed => InStep, RatchetNext, ~strayed' PROVE InStep'
    <3>1. ASSUME strayed PROVE strayed'
      <4>1. CASE \E p \in Parties : SendMessage(p) BY <3>1, <4>1 DEF SendMessage
      <4>2. ASSUME NEW p \in Parties, NEW n \in DOMAIN sent[Other(p)],
                   Arrives(p, sent[Other(p)][n])
            PROVE  strayed'
        BY <3>1, <4>2, Zenon DEF Arrives
      <4>3. ASSUME NEW p \in Parties, HandleDataFrame(p) PROVE strayed'
        BY <4>2, <4>3 DEF HandleDataFrame, ReadSkipped, ReadNext, Refuse, Garble
      <4>4. QED BY <2>1, <4>1, <4>3 DEF RatchetNext
    <3>2. ~strayed BY <2>1, <3>1
    <3>3. QED BY <2>1, <3>2, SendInStep, ReceiveInStep DEF RatchetNext, HandleDataFrame
  <2>2. ASSUME UNCHANGED ratchetVars, InStep PROVE InStep'
    BY <2>2 DEF ratchetVars, InStep, Follower, Streams, Follows, Paired, Leads, ReadBy
  <2>3. UNCHANGED ratchetVars => strayed' = strayed BY DEF ratchetVars
  <2>4. QED BY <2>1, <2>2, <2>3
<1>3. QED BY <1>1, <1>2, SessionInvariant, PTL DEF RatchetSpec

(* Inside a session nothing is lost by loss, repetition or reordering: in  *)
(* step, every unread message of the current chain or of the next opens.   *)
LEMMA StepOpens ==
  ASSUME SessionInv, ~strayed => InStep
  PROVE  ChainTolerant
<1> SUFFICES ASSUME ~strayed, NEW p \in Parties, NEW n \in Unread(p),
                    sent[Other(p)][n].dh >= state[p].dhr
             PROVE  Opens(p, sent[Other(p)][n])
  BY DEF ChainTolerant
<1>1. PICK q : q = Other(p) OBVIOUS
<1>2. q \in Parties BY <1>1, OtherParty
<1>3. n \in DOMAIN sent[q] /\ n \notin ReadBy(p) BY <1>1 DEF Unread, ReadBy
<1>4. PICK m : m = sent[q][n] OBVIOUS
<1>5. PICK s : s = state[p] OBVIOUS
<1>6. PICK t : t = state[q] OBVIOUS
<1>7. PICK r : r = Ready(p, s, m) OBVIOUS
<1>8. RatchetTypeOK BY DEF SessionInv
<1>9. s \in State /\ t \in State /\ m \in Message
  BY <1>2, <1>3, <1>4, <1>5, <1>6, <1>8, MessageOf
<1>10. m.num \in Nat /\ m.dh \in Nat /\ m.prev \in Nat BY <1>9 DEF Message
<1>11. s.dhr \in Nat /\ s.recvNum \in Nat /\ s.recv \in ChainKey BY <1>9, StateType
<1>12. CASE m.dh = s.dhr
  <2>1. r = s BY <1>7, <1>12 DEF Ready
  <2>2. Follows(p, s, ReadBy(p)) BY <1>5 DEF InStep, Follower
  <2>3. /\ s.recv.n = s.recvNum /\ m.key = [root |-> s.recv.root, n |-> m.num]
        /\ m.num < s.recvNum => \E e \in Stored(s, m.num) : e.key = m.key
    BY <1>1, <1>3, <1>4, <1>12, <2>2 DEF Follows
  <2>4. ASSUME ~(m.num < s.recvNum)
        PROVE  Advance(s.recv, m.num - s.recvNum) = m.key BY <1>10, <1>11, <2>3, <2>4, AdvanceIs
  <2>5. QED BY <1>1, <1>4, <1>5, <1>7, <2>1, <2>3, <2>4 DEF Opens
<1>13. CASE m.dh # s.dhr
  <2>1. m.dh > s.dhr BY <1>1, <1>4, <1>5, <1>10, <1>11, <1>13
  <2>2. /\ t.send.root = t.root /\ t.root = Append(s.root, Secret(q, t.dhs, s.dhs))
        /\ m.dh = t.dhs
    BY <1>1, <1>3, <1>4, <1>5, <1>6, <2>1, OneAhead
  <2>3. PICK k : k = Skip(s, m.prev) OBVIOUS
  <2>4. k \in State /\ k.root = s.root /\ k.dhs = s.dhs
    BY <1>5, <1>9, <1>10, <2>3, SkipKeeps DEF SessionInv, Keys
  <2>5. PICK root1 : root1 = Append(k.root, Secret(p, k.dhs, m.dh)) OBVIOUS
  <2>6. root1 = t.root BY <1>1, <1>2, <2>2, <2>4, <2>5, OtherParty, SecretSymmetric
  <2>7. r = DHRatchetStep(p, k, m.dh) BY <1>7, <1>13, <2>3 DEF Ready
  <2>8. r.recv = Chain(root1) /\ r.recvNum = 0
    BY <2>4, <2>5, <2>7 DEF DHRatchetStep, State
  <2>9. Chain(root1) = [root |-> root1, n |-> 0] BY DEF Chain
  <2>10. m.key = [root |-> t.send.root, n |-> m.num] BY <1>2, <1>3, <1>4, <1>6, <2>2 DEF InStep, Follower, Streams
  <2>11. Advance(r.recv, m.num - r.recvNum) = m.key
    <3>1. m.num - r.recvNum = m.num /\ 0 + m.num = m.num BY <1>10, <2>8
    <3>2. Advance(r.recv, m.num) = [root |-> root1, n |-> 0 + m.num]
      BY <2>8, <2>9 DEF Advance
    <3>3. QED BY <2>2, <2>6, <2>10, <3>1, <3>2
  <2>12. ~(m.num < r.recvNum) BY <1>10, <2>8
  <2>13. QED BY <1>1, <1>4, <1>5, <1>7, <2>11, <2>12 DEF Opens
<1>14. QED BY <1>1, <1>4, <1>12, <1>13

(* Forward secrecy and tolerance of the network together.                  *)
THEOREM SessionsAreSound == RatchetSpec => []SessionSound
<1>1. SessionInv /\ (~strayed => InStep) /\ KeysErased => SessionSound
  BY StepOpens DEF SessionSound
<1>2. QED BY <1>1, SessionInvariant, StepsAgree, UsedKeysErased, PTL
=============================================================================
