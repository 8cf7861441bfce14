------------------------------ MODULE Handshake ------------------------------
(* How a connection comes to its keys: the Noise_IK and Noise_NK patterns   *)
(* of noise/handshake.go, the dialers and handleIncoming of                 *)
(* node/connection.go, and the keys of the frames that addPeerSession takes *)
(* from them.  Keys are names, a DH output is the set of its two keys, and  *)
(* hash, chain key and ciphertext are what went into them.  Every ciphertext *)
(* follows a mixKey, so that its nonce is 0 and is left out.                *)
EXTENDS Integers, Sequences, Functions

CONSTANTS Nodes,    \* each with one static key
          Tables,   \* Tables[n]: the friends in the core table of n
          Calls,    \* dialed connections
          Nobody,   \* the zero key, of an anonymous caller; no call yet
          Meant     \* bound: who may be dialed by whom as what, and answers

ASSUME HandshakeAssumption ==
  /\ Tables \in [Nodes -> SUBSET Nodes] /\ Nobody \notin Nodes /\ Nobody \notin Meant
  /\ Meant \subseteq [from : Nodes, to : Nodes, addr : Nodes,
                      role : {"friend", "public", "padding"}]
  /\ \A m \in Meant : m.role = "friend" => m.to \in Tables[m.from]

VARIABLES meant,    \* what a connection was dialed for, Nobody before
          wire,     \* the handshake message that was written and not read
          pending,  \* the handshake of a dialer that waits for the answer
          session,  \* per connection and end: what the peer manager got
          frames    \* per connection and end: "none", "open", "read", "ended"

handshakeVars == <<meant, wire, pending, session, frames>>

Ends == {"dialer", "answerer"}
NoHandshake == [h |-> <<>>, ck |-> <<>>]
NoSession == [id |-> <<"none">>]
Static(n) == <<"static", n>>
Ephemeral(c, end) == <<"ephemeral", c, end>>

(* The symmetric state *)

\* Start that forgets what the connection is for.
StartAlike(role) == [h |-> <<"friend">>, ck |-> <<>>]

Start(role) == [h |-> <<role>>, ck |-> <<>>]
MixHash(s, data) == [s EXCEPT !.h = Append(@, data)]
MixKey(s, a, b) == [s EXCEPT !.ck = Append(@, {a, b})]
Box(s, body) == [key |-> s.ck, ad |-> s.h, body |-> body]
Unboxes(s, box) == box.key = s.ck /\ box.ad = s.h

\* Split that gives both ends the keys in the same order.
SplitAlike(s, end) == [send |-> <<s.ck, 1>>, recv |-> <<s.ck, 2>>]

Split(s, end) ==
  IF end = "dialer" THEN [send |-> <<s.ck, 1>>, recv |-> <<s.ck, 2>>]
                    ELSE [send |-> <<s.ck, 2>>, recv |-> <<s.ck, 1>>]

(* The messages: an ephemeral key and one or two ciphertexts.              *)

First(role, me, to, e) ==
  LET es == MixKey(MixHash(Start(role), e), e, to)
      ss == MixKey(MixHash(es, Box(es, me)), me, to)
  IN IF role = "friend"
     THEN [state |-> MixHash(ss, Box(ss, "empty")),
           msg |-> <<e, Box(es, me), Box(ss, "empty")>>]
     ELSE [state |-> MixHash(es, Box(es, "empty")), msg |-> <<e, Box(es, "empty")>>]

\* The states of a reader of message 1 after es, and in IK after ss.
AfterES(role, me, m) == MixKey(MixHash(Start(role), m[1]), m[1], me)
AfterSS(me, friend, m) == MixKey(MixHash(AfterES("friend", me, m), m[2]), friend, me)

\* readIKMessage1 without the comparison of the identity.
ReadsIKAnybody(me, friend, m) ==
  /\ Len(m) = 3 /\ Unboxes(AfterES("friend", me, m), m[2])
  /\ Unboxes(AfterSS(me, m[2].body, m), m[3])

\* readIKMessage1 with one friend of the table as the expected initiator.
ReadsIK(me, friend, m) ==
  /\ Len(m) = 3 /\ Unboxes(AfterES("friend", me, m), m[2])
  /\ m[2].body = friend /\ Unboxes(AfterSS(me, friend, m), m[3])

\* readNKMessage1; the answerer knows one role.
ReadsNK(me, m) == Len(m) = 2 /\ Unboxes(AfterES("public", me, m), m[2])

\* The key of message 2, from the two ends: ee, and in IK what the code calls se.
Mixed(s, pattern, e, mine, theirs, static, other) ==
  LET ee == MixKey(MixHash(s, e), mine, theirs)
  IN IF pattern = "IK" THEN MixKey(ee, static, other) ELSE ee

-----------------------------------------------------------------------------
(* DialFriend, DialBootstrap and DialPadding up to the first write.  The    *)
(* address may be an old one, where another node answers by now.           *)
Dial(c, m) ==
  /\ meant[c] = Nobody /\ meant' = [meant EXCEPT ![c] = m]
  /\ LET one == First(m.role, Static(m.from), Static(m.to), Ephemeral(c, "dialer"))
     IN pending' = [pending EXCEPT ![c] = one.state] /\ wire' = [wire EXCEPT ![c] = one.msg]
  /\ UNCHANGED <<session, frames>>

\* addPeerSession: the framer gets two keys derived with two labels.
Framer(s, end) == [send |-> <<Split(s, end).send, "transport-send">>,
                   recv |-> <<Split(s, end).recv, "transport-recv">>]

AddPeerSession(c, end, id, s, remote) ==
  /\ session' = [session EXCEPT ![c][end] =
       [id |-> id, keys |-> Split(s, end), framer |-> Framer(s, end), remote |-> remote]]
  /\ frames' = [frames EXCEPT ![c][end] = "open"]

\* handleIncoming: IK with every friend, then NK, else the connection is closed.
HandleIncoming(c) ==
  LET me == meant[c].addr
      m == wire[c]
      e == Ephemeral(c, "answerer")
      friends == {f \in Tables[me] : ReadsIK(Static(me), Static(f), m)}
      answer(s) == wire' = [wire EXCEPT ![c] = <<e, Box(s, "empty")>>]
  IN /\ pending[c] # NoHandshake /\ frames[c]["answerer"] = "none" /\ m # <<>>
     /\ IF friends # {}
        THEN \E f \in friends :
          LET s == Mixed(MixHash(AfterSS(Static(me), Static(f), m), m[3]), "IK",
                         e, e, m[1], Static(me), m[1])
          IN answer(s) /\ AddPeerSession(c, "answerer", <<"hash", f>>,
                                         MixHash(s, Box(s, "empty")), f)
        ELSE IF ReadsNK(Static(me), m)
        THEN LET s == Mixed(MixHash(AfterES("public", Static(me), m), m[2]), "NK",
                            e, e, m[1], Static(me), m[1])
             IN answer(s) /\ AddPeerSession(c, "answerer", <<"hash", Nobody>>,
                                            MixHash(s, Box(s, "empty")), Nobody)
        ELSE /\ frames' = [frames EXCEPT ![c]["answerer"] = "ended"]
             /\ wire' = [wire EXCEPT ![c] = <<>>] /\ UNCHANGED session
     /\ UNCHANGED <<meant, pending>>

\* The dialer reads message 2.
FinishDial(c) ==
  LET m == meant[c]
      e == Ephemeral(c, "dialer")
      two == wire[c]
      s == Mixed(pending[c], IF m.role = "friend" THEN "IK" ELSE "NK",
                 two[1], e, two[1], e, Static(m.to))
      id == IF m.role = "friend" THEN <<"chain", m.to>>
            ELSE IF m.role = "public" THEN <<"hash", m.to>> ELSE <<"padding", c>>
  IN /\ pending[c] # NoHandshake /\ frames[c]["answerer"] # "none" /\ wire[c] # <<>>
     /\ IF Unboxes(s, two[2])
        THEN AddPeerSession(c, "dialer", id, MixHash(s, two[2]), m.to)
        ELSE frames' = [frames EXCEPT ![c]["dialer"] = "ended"] /\ UNCHANGED session
     /\ pending' = [pending EXCEPT ![c] = NoHandshake]
     /\ wire' = [wire EXCEPT ![c] = <<>>] /\ UNCHANGED meant

OtherEnd(end) == IF end = "dialer" THEN "answerer" ELSE "dialer"

\* Either end ends, and so does the wait of the dialer for an answer: the
\* connection broke, or the other end has closed it.
End(c, end) ==
  /\ \/ frames[c][end] \in {"open", "read"}
     \/ end = "dialer" /\ pending[c] # NoHandshake
  /\ frames' = [frames EXCEPT ![c][end] = "ended"]
  /\ IF end = "dialer"
     THEN pending' = [pending EXCEPT ![c] = NoHandshake] /\ wire' = [wire EXCEPT ![c] = <<>>]
     ELSE UNCHANGED <<pending, wire>>
  /\ UNCHANGED <<meant, session>>

\* The read loop of one end reads the first frame of the other.
ReadFirst(c, end) ==
  /\ frames[c][end] = "open" /\ frames[c][OtherEnd(end)] = "open"
  /\ frames' = [frames EXCEPT ![c][end] =
       IF session[c][end].framer.recv = session[c][OtherEnd(end)].framer.send
       THEN "read" ELSE "ended"]
  /\ UNCHANGED <<meant, wire, pending, session>>

HandshakeInit ==
  /\ meant = [c \in Calls |-> Nobody] /\ pending = [c \in Calls |-> NoHandshake]
  /\ wire = [c \in Calls |-> <<>>]
  /\ session = [c \in Calls |-> [end \in Ends |-> NoSession]]
  /\ frames = [c \in Calls |-> [end \in Ends |-> "none"]]

HandshakeNext ==
  \E c \in Calls :
    \/ \E m \in Meant : Dial(c, m)
    \/ HandleIncoming(c) \/ FinishDial(c)
    \/ \E end \in Ends : End(c, end) \/ ReadFirst(c, end)

HandshakeSpec == HandshakeInit /\ [][HandshakeNext]_handshakeVars

-----------------------------------------------------------------------------
Both(c) == \A end \in Ends : session[c][end] # NoSession
Done(c, end) == session[c][end] # NoSession

(* When both ends of a connection are through the handshake, what one sends *)
(* with the other receives with, and the two directions have two keys.     *)
KeysMatch ==
  \A c \in Calls : Both(c) =>
    LET d == session[c]["dialer"].keys
        a == session[c]["answerer"].keys
    IN d.send = a.recv /\ d.recv = a.send /\ d.send # d.recv

(* A dialer that finishes has reached the node whose key it dialed, at an   *)
(* old address too, and that node has finished before it; an answerer names *)
(* the friend that called, one of its own table, or nobody.                *)
EndsAuthentic ==
  \A c \in Calls :
    /\ Done(c, "dialer") => meant[c].to = meant[c].addr /\ Done(c, "answerer")
    /\ Done(c, "answerer") =>
         session[c]["answerer"].remote =
           IF meant[c].role = "friend" THEN meant[c].from ELSE Nobody
    /\ Done(c, "answerer") /\ meant[c].role = "friend" =>
         meant[c].from \in Tables[meant[c].addr]

(* No connection that was dialed as padding ever opens at either end: the  *)
(* dialer has the prologue of padding in its hash, and no answerer tries it. *)
PaddingRefused ==
  \A c \in Calls, end \in Ends :
    Done(c, end) => meant[c].role # "padding"

(* HandshakesAgree: keys, identities and roles of the two ends agree.       *)
HandshakesAgree == KeysMatch /\ EndsAuthentic /\ PaddingRefused

(* What one end of an open connection writes, the other one can decrypt.    *)
FramesReadable ==
  \A c \in Calls : Both(c) =>
    \A end \in Ends :
      session[c][end].framer.send = session[c][OtherEnd(end)].framer.recv
==============================================================================
