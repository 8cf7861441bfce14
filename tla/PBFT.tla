-------------------------------- MODULE PBFT --------------------------------
(***************************************************************************)
(* The PBFT engine of consensus/pbft.go: one engine per validator, each    *)
(* with a loop goroutine (handlers) and an application goroutine that may  *)
(* call ProposeBlock, and a network that may lose, delay, duplicate and    *)
(* reorder what the engines broadcast.  Voting power is 1 for everybody,   *)
(* the value NewPBFTEngine gives; a block stands for its own SHA-256 hash. *)
(***************************************************************************)
EXTENDS Integers, FiniteSets

CONSTANTS Validators,  \* public keys
          KeyOrder,    \* 0..N-1 -> Validators, the keys in byte order
          Payloads,    \* transaction lists an application proposes
          NoTxs,       \* the nil list the loop proposes
          None,        \* a nil pointer
          MaxHeight,   \* bound on heights entered
          MaxRound     \* bound on rounds entered

N == Cardinality(Validators)
Quorum == (N * 2) \div 3 + 1
Proposer(h) == KeyOrder[h % N]

ASSUME PBFTAssumption ==
  /\ IsFiniteSet(Validators) /\ Validators # {}
  /\ KeyOrder \in [0..(N - 1) -> Validators]
  /\ \A v \in Validators : \E i \in 0..(N - 1) : KeyOrder[i] = v
  /\ MaxHeight \in Nat /\ MaxRound \in Nat
  /\ None \notin Validators /\ NoTxs \notin Payloads
  /\ None \notin [height : Nat, block : [height : Nat, txs : Payloads \cup {NoTxs}],
                  proposer : Validators]

Steps == {"PROPOSE", "PREVOTE", "PRECOMMIT", "COMMIT", "NEW_HEIGHT"}
Block == [height : Nat, txs : Payloads \cup {NoTxs}]
Proposal == [height : Nat, block : Block, proposer : Validators]
Vote == [height : Nat, round : Nat, step : {"PREVOTE", "PRECOMMIT"},
         block : Block, validator : Validators]

VARIABLES height, round, step, prevotes, precommits, lockedBlock,
          currentProposal,
          loop,       \* what the loop goroutine is doing
          proposing,  \* calls of ProposeBlock between their critical sections
          committed,  \* block events put on blockCh
          proposals, votes  \* everything broadcast so far

engineVars == <<height, round, step, prevotes, precommits, lockedBlock,
                currentProposal>>
vars == <<engineVars, loop, proposing, committed, proposals, votes>>

NoVotes == [v \in Validators |-> None]

Init ==
  /\ height = [n \in Validators |-> 0]
  /\ round = [n \in Validators |-> 0]
  /\ step = [n \in Validators |-> "PROPOSE"]
  /\ prevotes = [n \in Validators |-> NoVotes]
  /\ precommits = [n \in Validators |-> NoVotes]
  /\ lockedBlock = [n \in Validators |-> None]
  /\ currentProposal = [n \in Validators |-> None]
  /\ loop = [n \in Validators |-> "off"]
  /\ proposing = [n \in Validators |-> {}]
  /\ committed = [n \in Validators |-> {}]
  /\ proposals = {}
  /\ votes = {}

\* The mutex is free for the application goroutine: the loop has not blocked
\* on it while holding it (see EnterNextHeight).
MutexFree(n) == loop[n] # "deadlocked"

-----------------------------------------------------------------------------
(* Start spawns the loop, whose first act is enterNewHeight.               *)
Start(n) ==
  /\ loop[n] = "off" /\ height[n] < MaxHeight
  /\ loop' = [loop EXCEPT ![n] = "select"]
  /\ height' = [height EXCEPT ![n] = @ + 1]
  /\ round' = [round EXCEPT ![n] = 0]
  /\ step' = [step EXCEPT ![n] = "PROPOSE"]
  /\ prevotes' = [prevotes EXCEPT ![n] = NoVotes]
  /\ precommits' = [precommits EXCEPT ![n] = NoVotes]
  /\ currentProposal' = [currentProposal EXCEPT ![n] = None]
  /\ lockedBlock' = [lockedBlock EXCEPT ![n] = None]
  /\ UNCHANGED <<proposing, committed, proposals, votes>>

Stop(n) ==
  /\ loop[n] = "select"
  /\ loop' = [loop EXCEPT ![n] = "stopped"]
  /\ UNCHANGED <<engineVars, proposing, committed, proposals, votes>>

\* BeginPropose if it proposed again for the height it is at.
BeginProposeSameHeight(n, txs) ==
  /\ height[n] < MaxHeight
  /\ round' = [round EXCEPT ![n] = 0]
  /\ step' = [step EXCEPT ![n] = "PROPOSE"]
  /\ proposing' = [proposing EXCEPT ![n] = @ \cup {[height |-> height[n],
                       block |-> [height |-> height[n], txs |-> txs],
                       proposer |-> n]}]
  /\ UNCHANGED <<height, prevotes, precommits, lockedBlock, currentProposal,
                 committed, proposals, votes>>

(* ProposeBlock, first critical section: the height is taken.  Calls of the*)
(* loop and of the application may both be past it.                        *)
BeginPropose(n, txs) ==
  /\ height[n] < MaxHeight
  /\ height' = [height EXCEPT ![n] = @ + 1]
  /\ round' = [round EXCEPT ![n] = 0]
  /\ step' = [step EXCEPT ![n] = "PROPOSE"]
  /\ proposing' = [proposing EXCEPT ![n] = @ \cup {[height |-> height[n] + 1,
                       block |-> [height |-> height[n] + 1, txs |-> txs],
                       proposer |-> n]}]
  /\ UNCHANGED <<prevotes, precommits, lockedBlock, currentProposal,
                 committed, proposals, votes>>

\* The propose timer of the loop fires: the proposer of the current height is
\* looked up, the mutex released, and ProposeBlock called afterwards.
TimerFires(n) ==
  /\ loop[n] = "select"
  /\ Proposer(height[n]) = n
  /\ loop' = [loop EXCEPT ![n] = "firing"]
  /\ UNCHANGED <<engineVars, proposing, committed, proposals, votes>>

ProposeOnTimer(n) ==
  /\ loop[n] = "firing"
  /\ loop' = [loop EXCEPT ![n] = "proposing"]
  /\ BeginPropose(n, NoTxs)

\* An application goroutine calls ProposeBlock.
ProposeByApp(n) ==
  /\ MutexFree(n)
  /\ \E txs \in Payloads : BeginPropose(n, txs)
  /\ UNCHANGED loop

(* ProposeBlock, second critical section, then the broadcast.              *)
EndPropose(n, p) ==
  /\ p \in proposing[n]
  /\ MutexFree(n)
  /\ currentProposal' = [currentProposal EXCEPT ![n] = p]
  /\ proposals' = proposals \cup {p}
  /\ proposing' = [proposing EXCEPT ![n] = @ \ {p}]
  /\ loop' = [loop EXCEPT ![n] = IF p.block.txs = NoTxs THEN "select" ELSE @]
  /\ UNCHANGED <<height, round, step, prevotes, precommits, lockedBlock,
                 committed, votes>>

-----------------------------------------------------------------------------
\* VoteOf if it voted in the engine's step instead of the step asked for.
VoteOfEngineStep(n, s, b) ==
  [height |-> height[n], round |-> round[n], step |-> step[n],
   block |-> b, validator |-> n]

(* broadcastVote: the vote that is recorded and sent.                      *)
VoteOf(n, s, b) == [height |-> height[n], round |-> round[n], step |-> s,
                    block |-> b, validator |-> n]

HandleProposal(n, p) ==
  /\ loop[n] = "select"
  /\ p.height = height[n]
  /\ p.proposer = Proposer(p.height)
  /\ LET vote == VoteOf(n, "PREVOTE", p.block)
     IN /\ prevotes' = [prevotes EXCEPT ![n][n] = vote]
        /\ votes' = votes \cup {vote}
  /\ currentProposal' = [currentProposal EXCEPT ![n] = p]
  /\ step' = [step EXCEPT ![n] = "PREVOTE"]
  /\ UNCHANGED <<height, round, precommits, lockedBlock, loop, proposing,
                 committed, proposals>>

VotersFor(ballots, b) ==
  {v \in Validators : ballots[v] # None /\ ballots[v].block = b}
\* WinningBlocks with the quorum rounded down to two thirds.
WinningBlocksTwoThirds(ballots) ==
  {b \in {ballots[v].block : v \in {u \in Validators : ballots[u] # None}} :
      Cardinality(VotersFor(ballots, b)) >= Quorum - 1}

WinningBlocks(ballots) ==
  {b \in {ballots[v].block : v \in {u \in Validators : ballots[u] # None}} :
      Cardinality(VotersFor(ballots, b)) >= Quorum}

\* HandlePrevote if the lock were taken before the quorum is known.
HandlePrevoteEarlyLock(n, vote) ==
  /\ loop[n] = "select"
  /\ vote.step = "PREVOTE" /\ vote.height = height[n]
  /\ prevotes' = [prevotes EXCEPT ![n][vote.validator] = vote]
  /\ lockedBlock' = [lockedBlock EXCEPT ![n] = currentProposal[n]]
  /\ UNCHANGED <<height, round, step, precommits, currentProposal, loop,
                 proposing, committed, proposals, votes>>

\* handleVote and tryAdvanceFromPrevote: neither looks at the round, and a
\* block wins with the votes recorded at any height.
HandlePrevote(n, vote) ==
  /\ loop[n] = "select"
  /\ vote.step = "PREVOTE" /\ vote.height = height[n]
  /\ LET ballots == [prevotes[n] EXCEPT ![vote.validator] = vote]
     IN /\ prevotes' = [prevotes EXCEPT ![n] = ballots]
        /\ \/ /\ WinningBlocks(ballots) = {}
              /\ UNCHANGED <<step, lockedBlock, precommits, votes>>
           \/ \E b \in WinningBlocks(ballots) :
                /\ step' = [step EXCEPT ![n] = "PRECOMMIT"]
                /\ lockedBlock' = [lockedBlock EXCEPT ![n] =
                     IF currentProposal[n] # None /\ currentProposal[n].block = b
                     THEN currentProposal[n] ELSE @]
                /\ precommits' = [precommits EXCEPT ![n][n] =
                                    VoteOf(n, "PRECOMMIT", b)]
                /\ votes' = votes \cup {VoteOf(n, "PRECOMMIT", b)}
  /\ UNCHANGED <<height, round, currentProposal, loop, proposing, committed,
                 proposals>>

\* handleVote and the head of tryAdvanceFromPrecommit.  On a quorum the mutex
\* is released around CommitBlock; with no proposal it stays held, and the
\* call of enterNewHeight locks it a second time.
HandlePrecommit(n, vote) ==
  /\ loop[n] = "select"
  /\ vote.step = "PRECOMMIT" /\ vote.height = height[n]
  /\ LET ballots == [precommits[n] EXCEPT ![vote.validator] = vote]
     IN /\ precommits' = [precommits EXCEPT ![n] = ballots]
        /\ IF WinningBlocks(ballots) = {}
           THEN UNCHANGED <<step, loop>>
           ELSE /\ step' = [step EXCEPT ![n] = "COMMIT"]
                /\ loop' = [loop EXCEPT ![n] =
                     IF currentProposal[n] = None THEN "deadlocked"
                                                  ELSE "committing"]
  /\ UNCHANGED <<height, round, prevotes, lockedBlock, currentProposal,
                 proposing, committed, proposals, votes>>

(* The bytes of a block: its transactions, without the height; only the nil*)
(* list gives "block-h".                                                   *)
BlockData(b) == IF b.txs = NoTxs THEN b ELSE [b EXCEPT !.height = 0]

\* The rest of tryAdvanceFromPrecommit: the arguments of CommitBlock are read
\* without the mutex, then the mutex is taken again and enterNewHeight blocks
\* on it for ever.
CommitBlock(n) ==
  /\ loop[n] = "committing"
  /\ committed' = [committed EXCEPT ![n] = @ \cup
                     {[height |-> height[n], data |-> BlockData(currentProposal[n].block)]}]
  /\ loop' = [loop EXCEPT ![n] = "deadlocked"]
  /\ UNCHANGED <<engineVars, proposing, proposals, votes>>

HandleTimeout(n) ==
  /\ loop[n] = "select" /\ round[n] < MaxRound
  /\ round' = [round EXCEPT ![n] = @ + 1]
  /\ step' = [step EXCEPT ![n] = "PROPOSE"]
  /\ prevotes' = [prevotes EXCEPT ![n] = NoVotes]
  /\ precommits' = [precommits EXCEPT ![n] = NoVotes]
  /\ UNCHANGED <<height, lockedBlock, currentProposal, loop, proposing,
                 committed, proposals, votes>>

LoopStep(n) ==
  \/ TimerFires(n) \/ ProposeOnTimer(n)
  \/ \E p \in proposing[n] : EndPropose(n, p)
  \/ \E p \in proposals : HandleProposal(n, p)
  \/ \E v \in votes : HandlePrevote(n, v) \/ HandlePrecommit(n, v)
  \/ CommitBlock(n)
  \/ HandleTimeout(n)

Next == \E n \in Validators :
          Start(n) \/ Stop(n) \/ ProposeByApp(n) \/ LoopStep(n)

Spec == Init /\ [][Next]_vars

(* Engines that are left alone: each is started, its loop keeps running,   *)
(* its timers fire and what is broadcast is delivered; nobody stops an     *)
(* engine or calls it.                                                     *)
NextAlone == \E n \in Validators : Start(n) \/ LoopStep(n)

Fairness == \A n \in Validators :
  /\ WF_vars(Start(n))
  /\ WF_vars(TimerFires(n)) /\ WF_vars(ProposeOnTimer(n))
  /\ WF_vars(\E p \in proposing[n] : EndPropose(n, p)) /\ WF_vars(CommitBlock(n))
  /\ WF_vars(\E p \in proposals :
                HandleProposal(n, p) /\ p # currentProposal[n])
  /\ WF_vars(\E v \in votes : HandlePrevote(n, v))
  /\ WF_vars(\E v \in votes : HandlePrecommit(n, v))

AloneSpec == Init /\ [][NextAlone]_vars /\ Fairness

-----------------------------------------------------------------------------
TypeOK ==
  /\ height \in [Validators -> Nat] /\ round \in [Validators -> Nat]
  /\ step \in [Validators -> Steps]
  /\ prevotes \in [Validators -> [Validators -> Vote \cup {None}]]
  /\ precommits \in [Validators -> [Validators -> Vote \cup {None}]]
  /\ lockedBlock \in [Validators -> Proposal \cup {None}]
  /\ currentProposal \in [Validators -> Proposal \cup {None}]
  /\ loop \in [Validators -> {"off", "select", "firing", "proposing",
                              "committing", "deadlocked", "stopped"}]
  /\ proposing \in [Validators -> SUBSET Proposal]
  /\ committed \in [Validators -> SUBSET [height : Nat, data : Block]]
  /\ proposals \subseteq Proposal /\ votes \subseteq Vote

Supporters(s, b) ==
  {v \in Validators : \E w \in votes :
      w.step = s /\ w.block = b /\ w.validator = v}

(* A precommit is only broadcast for a block that validators with a quorum *)
(* of the power have broadcast a prevote for, whatever was lost, reordered *)
(* or left over from earlier rounds and heights (tryAdvanceFromPrevote).   *)
PrecommitBacked ==
  \A w \in votes : w.step = "PRECOMMIT" =>
     Cardinality(Supporters("PREVOTE", w.block)) >= Quorum

(* A block a validator is locked on has a quorum of prevotes.              *)
LockBacked ==
  \A n \in Validators : lockedBlock[n] # None =>
     Cardinality(Supporters("PREVOTE", lockedBlock[n].block)) >= Quorum

(* An engine emits a block event only after a quorum has broadcast         *)
(* precommits for one block (tryAdvanceFromPrecommit).                     *)
CommitBacked ==
  \A n \in Validators : committed[n] # {} =>
     \E w \in votes : Cardinality(Supporters("PRECOMMIT", w.block)) >= Quorum

(* Quorums are real, over stale votes, redelivery and timeouts: what an     *)
(* engine precommits, locks or commits was voted for by a quorum.           *)
QuorumsBacked == PrecommitBacked /\ LockBacked /\ CommitBacked

(* All prevotes of one height are for one block: the rotation gives each   *)
(* height one proposer, and ProposeBlock never uses a height twice.        *)
PrevotesAgree ==
  \A v, w \in votes :
     v.step = "PREVOTE" /\ w.step = "PREVOTE" /\ v.height = w.height
       => v.block = w.block

(* The header of pbft.go: two different blocks are never committed at the  *)
(* same height.  Blocks differ when the bytes hashed into the events do.   *)
Agreement ==
  \A m, n \in Validators : \A c \in committed[m], d \in committed[n] :
     c.height = d.height => c.data = d.data

(* The protocol of the header of pbft.go, steps 1 to 4: the running        *)
(* engines commit a block.                                                 *)
EventuallyCommits == <>(\E n \in Validators : committed[n] # {})
=============================================================================
