------------------------------ MODULE Ratchet ------------------------------
(* The double ratchet of ratchet/ratchet.go between two nodes, as           *)
(* SendMessage and handleDataFrame of node/ use it.  SendMessage encrypts   *)
(* under a lock and hands the message to the connection after it, and       *)
(* handleFrame decrypts every frame in a goroutine of its own, or drops it: *)
(* so messages arrive in any order, more than once or never.                *)
(*                                                                         *)
(* Keys are symbols.  The k-th DH key of a party is k; a shared secret is   *)
(* the pair of keys it comes from; a root key is the sequence of secrets    *)
(* mixed into it, and a chain key is a root and a number of steps.          *)
EXTENDS Naturals, Sequences

CONSTANTS MaxSkip,
          MaxSent,  \* bound: messages a party sends
          MaxKeys,  \* bound: DH keys a party generates
          MaxChain  \* bound: steps of a chain, when Garble makes them

ASSUME RatchetAssumption ==
  /\ MaxSkip \in Nat /\ MaxSent \in Nat
  /\ MaxKeys \in Nat \ {0} /\ MaxChain \in Nat

Parties == {"initiator", "responder"}
Other(p) == IF p = "initiator" THEN "responder" ELSE "initiator"

VARIABLES state,   \* ratchet.State of each party
          sent,    \* the messages each party has encrypted
          read,    \* history: positions in sent[Other(p)] that p decrypted
          strayed  \* history: some party got a message of an abandoned chain

ratchetVars == <<state, sent, read, strayed>>

Secret(p, mine, theirs) == [x \in Parties |-> IF x = p THEN mine ELSE theirs]
Chain(root) == [root |-> root, n |-> 0]

\* Advance without storing the new chain key.
AdvanceUnstored(chain, k) == chain

Advance(chain, k) == [chain EXCEPT !.n = @ + k]

\* A fresh State; both parties know the first public key of the other.
NewState(needs) ==
  [dhs |-> 1, dhr |-> 1, root |-> <<>>, needsDHStep |-> needs,
   send |-> Chain(<<>>), sendNum |-> 0, prevSend |-> Chain(<<>>),
   recv |-> Chain(<<>>), recvNum |-> 0, skipped |-> {}]

RatchetInit ==
  /\ state = [p \in Parties |-> NewState(p = "initiator")]
  /\ sent = [p \in Parties |-> <<>>] /\ read = [p \in Parties |-> <<>>]
  /\ strayed = FALSE

(* Encrypt *)

StartChain(p, s) ==
  LET root == Append(s.root, Secret(p, s.dhs + 1, s.dhr))
  IN IF s.needsDHStep
     THEN [s EXCEPT !.root = root, !.send = Chain(root), !.dhs = @ + 1,
                    !.sendNum = 0, !.needsDHStep = FALSE]
     ELSE s

\* PrevSendChainKey takes the chain key before the message moves it on.
SendMessage(p) ==
  LET s == StartChain(p, state[p]) IN
  /\ Len(sent[p]) < MaxSent /\ s.dhs <= MaxKeys
  /\ sent' = [sent EXCEPT ![p] = Append(@,
       [dh |-> s.dhs, prev |-> state[p].sendNum, num |-> s.sendNum, key |-> s.send])]
  /\ state' = [state EXCEPT ![p] =
       [s EXCEPT !.prevSend = state[p].send,
                 !.send = Advance(@, 1), !.sendNum = @ + 1]]
  /\ UNCHANGED <<read, strayed>>

(* Decrypt *)

TooFar(s, until) == until > s.recvNum + MaxSkip

\* SkippedMsgKeys is a map from the remote key and the number of a message
\* to its key: storing replaces what is there.
Stored(s, num) == {e \in s.skipped : e.dhr = s.dhr /\ e.num = num}

Skip(s, until) ==
  LET nums == s.recvNum..(until - 1)
      new == {[dhr |-> s.dhr, num |-> n, key |-> Advance(s.recv, n - s.recvNum)] : n \in nums}
      old == UNION {Stored(s, n) : n \in nums}
  IN IF until <= s.recvNum THEN s ELSE
     [s EXCEPT !.recv = Advance(@, until - s.recvNum), !.recvNum = until,
               !.skipped = (@ \ old) \cup new]

\* DHRatchetStep without the reset of RecvMsgNum.
DHRatchetStepCounting(p, s, dh) ==
  LET root == Append(s.root, Secret(p, s.dhs, dh))
  IN [s EXCEPT !.root = Append(root, Secret(p, s.dhs + 1, dh)), !.recv = Chain(root),
               !.send = Chain(Append(root, Secret(p, s.dhs + 1, dh))),
               !.dhr = dh, !.dhs = @ + 1, !.sendNum = 0, !.needsDHStep = FALSE]

DHRatchetStep(p, s, dh) ==
  LET root1 == Append(s.root, Secret(p, s.dhs, dh))
      root2 == Append(root1, Secret(p, s.dhs + 1, dh))
  IN [s EXCEPT !.root = root2, !.recv = Chain(root1), !.send = Chain(root2),
               !.dhr = dh, !.dhs = @ + 1, !.recvNum = 0, !.sendNum = 0,
               !.needsDHStep = FALSE]

\* The state in which p looks for the key of m.
Ready(p, s, m) ==
  IF m.dh = s.dhr THEN s ELSE DHRatchetStep(p, Skip(s, m.prev), m.dh)

Arrives(p, m) ==
  /\ m.dh # state[p].dhr => ~TooFar(state[p], m.prev)
  /\ Ready(p, state[p], m).dhs <= MaxKeys
  /\ strayed' = (strayed \/ m.dh < state[p].dhr)
  /\ UNCHANGED sent

Become(p, s) == state' = [state EXCEPT ![p] = s]
\* Drop in a Decrypt that keeps the key it used.
Keep(s, num) == s

Drop(s, num) == [s EXCEPT !.skipped = @ \ Stored(s, num)]

ReadSkipped(p, n) ==
  LET m == sent[Other(p)][n]
      s == Ready(p, state[p], m)
  IN /\ Arrives(p, m)
     /\ m.num < s.recvNum /\ \E e \in Stored(s, m.num) : e.key = m.key
     /\ Become(p, Drop(s, m.num))
     /\ read' = [read EXCEPT ![p] = Append(@, n)]

ReadNext(p, n) ==
  LET m == sent[Other(p)][n]
      r == Ready(p, state[p], m)
      s == Skip(r, m.num)
  IN /\ Arrives(p, m)
     /\ m.num >= r.recvNum /\ ~TooFar(r, m.num) /\ s.recv = m.key
     /\ Become(p, [s EXCEPT !.recv = Advance(@, 1), !.recvNum = @ + 1])
     /\ read' = [read EXCEPT ![p] = Append(@, n)]

\* An error before the receiving chain moves; a DH step already made stays.
Refuse(p, n) ==
  LET m == sent[Other(p)][n]
      s == Ready(p, state[p], m)
  IN /\ Arrives(p, m)
     /\ IF m.num < s.recvNum
        THEN \A e \in Stored(s, m.num) : e.key # m.key
        ELSE TooFar(s, m.num)
     /\ Become(p, s) /\ UNCHANGED read

\* The authentication fails after the chain has moved: RecvMsgNum has not.
Garble(p, n) ==
  LET m == sent[Other(p)][n]
      r == Ready(p, state[p], m)
      s == Skip(r, m.num)
  IN /\ Arrives(p, m)
     /\ m.num >= r.recvNum /\ ~TooFar(r, m.num) /\ s.recv # m.key
     /\ s.recv.n < MaxChain
     /\ Become(p, [s EXCEPT !.recv = Advance(@, 1)]) /\ UNCHANGED read

HandleDataFrame(p) ==
  \E n \in DOMAIN sent[Other(p)] :
    ReadSkipped(p, n) \/ ReadNext(p, n) \/ Refuse(p, n) \/ Garble(p, n)

RatchetNext == \E p \in Parties : SendMessage(p) \/ HandleDataFrame(p)
RatchetSpec == RatchetInit /\ [][RatchetNext]_ratchetVars

-----------------------------------------------------------------------------

Secrets == [Parties -> 1..MaxKeys]
ChainKey == [root : Seq(Secrets), n : Nat]
Message == [dh : 1..MaxKeys, prev : Nat, num : Nat, key : ChainKey]

SkippedKey == [dhr : 1..MaxKeys, num : Nat, key : ChainKey]
State == [dhs : 1..MaxKeys, dhr : 1..MaxKeys, root : Seq(Secrets),
          needsDHStep : BOOLEAN, send : ChainKey, sendNum : Nat, prevSend : ChainKey,
          recv : ChainKey, recvNum : Nat, skipped : SUBSET SkippedKey]

RatchetTypeOK ==
  /\ state \in [Parties -> State]
  /\ sent \in [Parties -> Seq(Message)]
  /\ read \in [Parties -> Seq(Nat)]
  /\ \A p \in Parties : \A i \in DOMAIN read[p] : read[p][i] \in DOMAIN sent[Other(p)]
  /\ strayed \in BOOLEAN

(* A key that a chain key gives, and one the receiving half of a state     *)
(* still holds or can derive.                                              *)
Gives(chain, key) == chain.root = key.root /\ chain.n <= key.n

Holds(s, key) ==
  \/ \E e \in s.skipped : e.key = key
  \/ Gives(s.recv, key)

(* "A message key is destroyed once used" (header of ratchet.go), whatever *)
(* arrives in whatever order: the party that read a message cannot derive  *)
(* its key again, and the one that encrypted it cannot once it has sent    *)
(* another one.  The last key stays within reach through PrevSendChainKey. *)
KeysErased ==
  \A p \in Parties :
    /\ \A i \in DOMAIN read[p] : ~Holds(state[p], sent[Other(p)][read[p][i]].key)
    /\ \A n \in DOMAIN sent[p] :
         /\ ~Gives(state[p].send, sent[p][n].key)
         /\ n < Len(sent[p]) => ~Gives(state[p].prevSend, sent[p][n].key)

Unread(p) == {n \in DOMAIN sent[Other(p)] : \A i \in DOMAIN read[p] : read[p][i] # n}

(* The key p would use for m is the one m was encrypted with.              *)
Opens(p, m) ==
  LET s == Ready(p, state[p], m)
  IN IF m.num < s.recvNum
     THEN \E e \in Stored(s, m.num) : e.key = m.key
     ELSE Advance(s.recv, m.num - s.recvNum) = m.key

(* Loss, repetition and reordering do no harm inside a chain, nor does the *)
(* loss of its end: as long as no message of an abandoned chain arrived,   *)
(* whatever belongs to the current chain or to the next one can be read.   *)
ChainTolerant ==
  ~strayed => \A p \in Parties : \A n \in Unread(p) :
    LET m == sent[Other(p)][n] IN m.dh >= state[p].dhr => Opens(p, m)

(* A session forgets what it must and keeps what it will need.             *)
SessionSound == KeysErased /\ ChainTolerant

(* Decrypt yields each message once and only what Encrypt was given.       *)
SessionChannel == INSTANCE Channel WITH sent <- [p \in Parties |-> Len(sent[p])]
ReadOnce == SessionChannel!Spec
=============================================================================
