----------------------------- MODULE PBFT_proofs -----------------------------
(***************************************************************************)
(* What holds of the PBFT engines for any number of validators, heights,   *)
(* rounds and messages.  Invariants are proved from IInv, which adds to    *)
(* the properties where votes and proposals come from.  At the end, what a *)
(* defaulted debt does to others: provisions and shadow claims of the      *)
(* bright chain, which share no state with the engines.                    *)
(***************************************************************************)
EXTENDS PBFT, Defaults, Sums, SequenceTheorems

\* Votes an engine has recorded were broadcast by their validators.
VotesRecorded ==
  \A n, u \in Validators :
    /\ prevotes[n][u] # None => /\ prevotes[n][u] \in votes
                                /\ prevotes[n][u].step = "PREVOTE"
                                /\ prevotes[n][u].validator = u
    /\ precommits[n][u] # None => /\ precommits[n][u] \in votes
                                  /\ precommits[n][u].step = "PRECOMMIT"
                                  /\ precommits[n][u].validator = u

\* The proposals made so far, those not yet broadcast included.
Made == proposals \cup UNION {proposing[n] : n \in Validators}

ProposalsMade ==
  /\ \A n \in Validators : \A p \in proposing[n] : p.proposer = n
  /\ \A p \in Made : p.height <= height[p.proposer]
  /\ \A p, q \in Made :
       p.proposer = q.proposer /\ p.height = q.height => p = q

PrevotesJustified ==
  \A v \in votes : v.step = "PREVOTE" =>
    \E p \in proposals : /\ p.block = v.block
                         /\ p.height = v.height
                         /\ p.proposer = Proposer(v.height)

CommitsJustified ==
  \A n \in Validators :
    /\ loop[n] = "committing" => currentProposal[n] # None
    /\ loop[n] = "committing" \/ committed[n] # {} =>
         \E w \in votes : Cardinality(Supporters("PRECOMMIT", w.block)) >= Quorum

IInv == /\ TypeOK /\ VotesRecorded /\ ProposalsMade /\ PrevotesJustified
        /\ CommitsJustified /\ PrecommitBacked /\ LockBacked

-----------------------------------------------------------------------------
LEMMA QuorumType == N \in Nat /\ N > 0 /\ Quorum \in Nat
BY PBFTAssumption, FS_CardinalityType, FS_EmptySet DEF N, Quorum

(* Any two quorums share more than a third of the validators.              *)
THEOREM QuorumsIntersect ==
  ASSUME NEW S \in SUBSET Validators, NEW T \in SUBSET Validators,
         Cardinality(S) >= Quorum, Cardinality(T) >= Quorum
  PROVE  3 * Cardinality(S \cap T) > N
<1>1. IsFiniteSet(S) /\ IsFiniteSet(T) /\ IsFiniteSet(S \cup T) BY PBFTAssumption, FS_Subset
<1>2. Cardinality(S \cup T) = Cardinality(S) + Cardinality(T) - Cardinality(S \cap T)
  BY <1>1, FS_Union
<1>3. Cardinality(S \cup T) <= N
  BY PBFTAssumption, FS_Subset, S \cup T \subseteq Validators DEF N
<1>4. /\ Cardinality(S) \in Nat /\ Cardinality(T) \in Nat
      /\ Cardinality(S \cup T) \in Nat /\ Cardinality(S \cap T) \in Nat
  BY <1>1, FS_Subset, S \cap T \subseteq S, FS_CardinalityType
<1>5. QED BY <1>2, <1>3, <1>4, QuorumType DEF Quorum

LEMMA SupportersFinite ==
  ASSUME NEW s, NEW b, NEW S \in SUBSET Supporters(s, b)
  PROVE  /\ IsFiniteSet(S) /\ Cardinality(S) \in Nat
         /\ IsFiniteSet(Supporters(s, b)) /\ Cardinality(Supporters(s, b)) \in Nat
         /\ Cardinality(S) <= Cardinality(Supporters(s, b))
BY PBFTAssumption, FS_Subset, Supporters(s, b) \subseteq Validators, FS_CardinalityType DEF Supporters

LEMMA SupportersGrow ==
  ASSUME votes \subseteq votes', NEW s, NEW b,
         Cardinality(Supporters(s, b)) >= Quorum
  PROVE  Cardinality(Supporters(s, b)') >= Quorum
BY PBFTAssumption, FS_Subset, Supporters(s, b)' \subseteq Validators, FS_CardinalityType, QuorumType DEF Supporters

(* Only a proposal and a quorum of prevotes make an engine vote.           *)
LEMMA WhoVotes ==
  ASSUME [Next]_vars
  PROVE  \/ votes' = votes
         \/ \E n \in Validators, p \in proposals : HandleProposal(n, p)
         \/ \E n \in Validators, v \in votes : HandlePrevote(n, v)
BY DEF vars, Start, Stop, ProposeByApp, BeginPropose, TimerFires, ProposeOnTimer, EndPropose, CommitBlock,
   HandleTimeout, HandlePrecommit, Next, LoopStep

LEMMA VotesGrow == ASSUME [Next]_vars PROVE votes \subseteq votes' BY WhoVotes DEF HandleProposal, HandlePrevote

LEMMA VoteOfType ==
  ASSUME TypeOK, NEW n \in Validators, NEW s \in {"PREVOTE", "PRECOMMIT"},
         NEW b \in Block
  PROVE  /\ VoteOf(n, s, b) \in Vote /\ VoteOf(n, s, b).step = s
         /\ VoteOf(n, s, b).block = b /\ VoteOf(n, s, b).validator = n
         /\ VoteOf(n, s, b).height = height[n]
  BY DEF VoteOf, Vote, TypeOK

-----------------------------------------------------------------------------
LEMMA TypeInit == Init => TypeOK
  BY DEF Init, TypeOK, NoVotes, Steps

LEMMA TypeStep == ASSUME TypeOK, CommitsJustified, [Next]_vars PROVE TypeOK'
<1> USE DEF TypeOK, Steps
<1>1. CASE UNCHANGED vars BY <1>1 DEF vars, engineVars
<1>2. ASSUME NEW n \in Validators, Start(n) PROVE TypeOK'
  BY <1>2 DEF Start, NoVotes
<1>3. ASSUME NEW n \in Validators, Stop(n) PROVE TypeOK'
  BY <1>3 DEF Stop, engineVars
<1>4. ASSUME NEW n \in Validators, NEW txs \in Payloads \cup {NoTxs},
             BeginPropose(n, txs), loop' \in [Validators -> {"off", "select", "firing",
               "proposing", "committing", "deadlocked", "stopped"}]
      PROVE TypeOK' BY <1>4 DEF Proposal, Block, BeginPropose
<1>5. ASSUME NEW n \in Validators, ProposeByApp(n) PROVE TypeOK'
  BY <1>4, <1>5 DEF ProposeByApp
<1>6. ASSUME NEW n \in Validators, TimerFires(n) PROVE TypeOK'
  BY <1>6 DEF TimerFires, engineVars
<1>7. ASSUME NEW n \in Validators, ProposeOnTimer(n) PROVE TypeOK'
  BY <1>4, <1>7 DEF ProposeOnTimer
<1>8. ASSUME NEW n \in Validators, NEW p \in proposing[n], EndPropose(n, p) PROVE TypeOK'
  BY <1>8 DEF EndPropose
<1>9. ASSUME NEW n \in Validators, NEW p \in proposals, HandleProposal(n, p)
      PROVE TypeOK'
  <2>1. p \in Proposal /\ p.block \in Block BY DEF Proposal
  <2>2. VoteOf(n, "PREVOTE", p.block) \in Vote BY <2>1, VoteOfType
  <2> HIDE DEF VoteOf
  <2>3. prevotes' \in [Validators -> [Validators -> Vote \cup {None}]]
    BY <1>9, <2>2 DEF HandleProposal
  <2>4. QED BY <1>9, <2>1, <2>2, <2>3 DEF HandleProposal
<1>10. ASSUME NEW n \in Validators, NEW v \in votes, HandlePrevote(n, v)
       PROVE TypeOK'
  <2> DEFINE ballots == [prevotes[n] EXCEPT ![v.validator] = v]
  <2>1. v \in Vote /\ v.validator \in Validators BY DEF Vote
  <2>2. ballots \in [Validators -> Vote \cup {None}] BY <2>1
  <2>3. prevotes' \in [Validators -> [Validators -> Vote \cup {None}]]
    BY <1>10, <2>2 DEF HandlePrevote
  <2>4. /\ step' \in [Validators -> Steps]
        /\ lockedBlock' \in [Validators -> Proposal \cup {None}]
        /\ precommits' \in [Validators -> [Validators -> Vote \cup {None}]]
        /\ votes' \subseteq Vote
    <3>1. CASE UNCHANGED <<step, lockedBlock, precommits, votes>> BY <3>1
    <3>2. ASSUME NEW b \in WinningBlocks(ballots),
                 step' = [step EXCEPT ![n] = "PRECOMMIT"],
                 lockedBlock' = [lockedBlock EXCEPT ![n] =
                     IF currentProposal[n] # None /\ currentProposal[n].block = b
                     THEN currentProposal[n] ELSE @],
                 precommits' = [precommits EXCEPT ![n][n] = VoteOf(n, "PRECOMMIT", b)],
                 votes' = votes \cup {VoteOf(n, "PRECOMMIT", b)}
          PROVE /\ step' \in [Validators -> Steps]
                /\ lockedBlock' \in [Validators -> Proposal \cup {None}]
                /\ precommits' \in [Validators -> [Validators -> Vote \cup {None}]]
                /\ votes' \subseteq Vote BY <2>2, <3>2, VoteOfType DEF WinningBlocks, Vote
    <3>3. QED BY <1>10, <3>1, <3>2 DEF HandlePrevote
  <2>5. QED BY <1>10, <2>3, <2>4 DEF HandlePrevote
<1>11. ASSUME NEW n \in Validators, NEW v \in votes, HandlePrecommit(n, v)
       PROVE TypeOK' BY <1>11 DEF Vote, HandlePrecommit
<1>12. ASSUME NEW n \in Validators, CommitBlock(n) PROVE TypeOK'
  <2>1. currentProposal[n].block \in Block
    BY <1>12 DEF CommitBlock, CommitsJustified, Proposal
  <2>2. BlockData(currentProposal[n].block) \in Block BY <2>1 DEF BlockData, Block
  <2> HIDE DEF BlockData
  <2>3. QED BY <1>12, <2>2 DEF CommitBlock, engineVars
<1>13. ASSUME NEW n \in Validators, HandleTimeout(n) PROVE TypeOK'
  BY <1>13 DEF HandleTimeout, NoVotes
<1>14. QED
  BY <1>1, <1>2, <1>3, <1>5, <1>6, <1>7, <1>8, <1>9, <1>10, <1>11, <1>12, <1>13
  DEF Next, LoopStep

LEMMA VoteOfFields ==
  ASSUME NEW n, NEW s, NEW b
  PROVE  /\ VoteOf(n, s, b).step = s /\ VoteOf(n, s, b).validator = n
         /\ VoteOf(n, s, b).block = b /\ VoteOf(n, s, b).height = height[n]
  BY DEF VoteOf

LEMMA VotesRecordedStep ==
  ASSUME TypeOK, VotesRecorded, [Next]_vars PROVE VotesRecorded'
<1> DEFINE Untouched == UNCHANGED <<prevotes, precommits>>
<1>0. votes \subseteq votes' BY VotesGrow
<1>1. ASSUME Untouched PROVE VotesRecorded'
  BY <1>0, <1>1 DEF VotesRecorded
<1>2. CASE UNCHANGED vars BY <1>1, <1>2 DEF vars, engineVars
<1>3. ASSUME NEW n \in Validators, Start(n) \/ HandleTimeout(n) PROVE VotesRecorded'
  <2>1. /\ prevotes' = [prevotes EXCEPT ![n] = NoVotes]
        /\ precommits' = [precommits EXCEPT ![n] = NoVotes]
    BY <1>3 DEF Start, HandleTimeout
  <2>2. QED BY <1>0, <2>1 DEF VotesRecorded, NoVotes, TypeOK
<1>4. ASSUME NEW n \in Validators, Stop(n) \/ TimerFires(n) \/ CommitBlock(n)
      PROVE VotesRecorded'
  BY <1>1, <1>4 DEF Stop, TimerFires, CommitBlock, engineVars
<1>5. ASSUME NEW n \in Validators,
             ProposeByApp(n) \/ ProposeOnTimer(n) \/ \E p \in proposing[n] : EndPropose(n, p)
      PROVE VotesRecorded'
  BY <1>1, <1>5 DEF ProposeByApp, ProposeOnTimer, BeginPropose, EndPropose
<1>6. ASSUME NEW n \in Validators, NEW p \in proposals, HandleProposal(n, p)
      PROVE VotesRecorded'
  <2> DEFINE vote == VoteOf(n, "PREVOTE", p.block)
  <2>1. vote \in votes' BY <1>6 DEF HandleProposal
  <2>2. vote.step = "PREVOTE" /\ vote.validator = n BY VoteOfFields
  <2>3. /\ prevotes' = [prevotes EXCEPT ![n][n] = vote]
        /\ precommits' = precommits
    BY <1>6 DEF HandleProposal
  <2> HIDE DEF vote
  <2>4. QED BY <1>0, <2>1, <2>2, <2>3 DEF VotesRecorded, TypeOK
<1>7. ASSUME NEW n \in Validators, NEW v \in votes, HandlePrevote(n, v)
      PROVE VotesRecorded'
  <2>1. v.step = "PREVOTE" /\ v \in votes' /\ v.validator \in Validators
    BY <1>0, <1>7 DEF HandlePrevote, TypeOK, Vote
  <2>2. prevotes' = [prevotes EXCEPT ![n][v.validator] = v]
    BY <1>7 DEF HandlePrevote, TypeOK
  <2>3. \/ precommits' = precommits
        \/ \E b : /\ VoteOf(n, "PRECOMMIT", b) \in votes'
                 /\ precommits' = [precommits EXCEPT ![n][n] = VoteOf(n, "PRECOMMIT", b)]
    BY <1>7 DEF HandlePrevote
  <2>4. \A u, w \in Validators : precommits'[u][w] # None =>
           /\ precommits'[u][w] \in votes' /\ precommits'[u][w].step = "PRECOMMIT"
           /\ precommits'[u][w].validator = w
    <3>1. CASE precommits' = precommits BY <1>0, <3>1 DEF VotesRecorded
    <3>2. ASSUME NEW w, w \in votes', w.step = "PRECOMMIT", w.validator = n,
                 precommits' = [precommits EXCEPT ![n][n] = w]
          PROVE  \A u, x \in Validators : precommits'[u][x] # None =>
                   /\ precommits'[u][x] \in votes' /\ precommits'[u][x].step = "PRECOMMIT"
                   /\ precommits'[u][x].validator = x
      BY <1>0, <3>2 DEF VotesRecorded, TypeOK
    <3>3. QED BY <2>3, <3>1, <3>2, VoteOfFields
  <2>5. QED BY <1>0, <2>1, <2>2, <2>4 DEF VotesRecorded, TypeOK
<1>8. ASSUME NEW n \in Validators, NEW v \in votes, HandlePrecommit(n, v)
      PROVE VotesRecorded' BY <1>0, <1>8 DEF HandlePrecommit, TypeOK, Vote, VotesRecorded
<1>9. QED BY <1>2, <1>3, <1>4, <1>5, <1>6, <1>7, <1>8 DEF Next, LoopStep

-----------------------------------------------------------------------------
LEMMA MadeIn ==
  ASSUME NEW p
  PROVE  p \in Made <=> \/ p \in proposals
                        \/ \E n \in Validators : p \in proposing[n]
  BY DEF Made

\* ProposeBlock takes a height of its own for every proposal.
LEMMA BeginProposeMade ==
  ASSUME TypeOK, ProposalsMade, NEW n \in Validators,
         NEW txs \in Payloads \cup {NoTxs}, BeginPropose(n, txs)
  PROVE  ProposalsMade'
<1> DEFINE new == [height |-> height[n] + 1,
                   block |-> [height |-> height[n] + 1, txs |-> txs], proposer |-> n]
<1>1. /\ proposing' = [proposing EXCEPT ![n] = @ \cup {new}]
      /\ height' = [height EXCEPT ![n] = @ + 1] /\ proposals' = proposals
  BY DEF BeginPropose
<1>2. new \in Proposal BY DEF Proposal, Block, TypeOK
<1>3. new.height = height[n] + 1 /\ new.proposer = n OBVIOUS
<1> HIDE DEF new
<1>4. \A p \in Made' : p \in Made \/ p = new BY <1>1 DEF Made, TypeOK
<1>5. \A p \in Made : /\ p.proposer \in Validators /\ p.height \in Nat
                      /\ p.height <= height[p.proposer]
  BY MadeIn DEF ProposalsMade, TypeOK, Proposal
<1>6. \A m \in Validators : height[m] \in Nat /\ height'[m] \in Nat /\ height[m] <= height'[m]
  BY <1>1 DEF TypeOK
<1>7. \A m \in Validators : \A p \in proposing'[m] : p.proposer = m
  BY <1>1, <1>3 DEF ProposalsMade, TypeOK
<1>8. \A p \in Made' : p.height <= height'[p.proposer] BY <1>1, <1>3, <1>4, <1>5, <1>6 DEF TypeOK
<1>9. \A p \in Made : ~(p.proposer = n /\ p.height = height[n] + 1)
  BY <1>5, <1>6
<1>10. \A p, q \in Made' : p.proposer = q.proposer /\ p.height = q.height => p = q
  BY <1>3, <1>4, <1>9 DEF ProposalsMade
<1>11. QED BY <1>7, <1>8, <1>10 DEF ProposalsMade

LEMMA ProposalsMadeStep ==
  ASSUME TypeOK, ProposalsMade, [Next]_vars PROVE ProposalsMade'
<1> DEFINE Untouched == UNCHANGED <<height, proposals, proposing>>
<1>1. ASSUME Untouched PROVE ProposalsMade'
  BY <1>1 DEF ProposalsMade, Made
<1>2. CASE UNCHANGED vars BY <1>1, <1>2 DEF vars, engineVars
<1>3. ASSUME NEW n \in Validators, Start(n) PROVE ProposalsMade'
  <2>1. /\ height' = [height EXCEPT ![n] = @ + 1] /\ Made' = Made
        /\ proposing' = proposing
    BY <1>3 DEF Start, Made
  <2>2. \A p \in Made : p.proposer \in Validators /\ p.height \in Nat
    BY MadeIn DEF TypeOK, Proposal
  <2>3. \A p \in Made : p.height <= height'[p.proposer]
    BY <2>1, <2>2 DEF ProposalsMade, TypeOK
  <2>4. QED BY <2>1, <2>3 DEF ProposalsMade
<1>4. ASSUME NEW n \in Validators,
             Stop(n) \/ TimerFires(n) \/ CommitBlock(n) \/ HandleTimeout(n)
      PROVE ProposalsMade'
  BY <1>1, <1>4 DEF Stop, TimerFires, CommitBlock, HandleTimeout, engineVars
<1>5. ASSUME NEW n \in Validators, ProposeByApp(n) \/ ProposeOnTimer(n)
      PROVE ProposalsMade'
  BY <1>5, BeginProposeMade DEF ProposeByApp, ProposeOnTimer
<1>6. ASSUME NEW n \in Validators, NEW p \in proposing[n], EndPropose(n, p) PROVE ProposalsMade'
  <2>1. /\ height' = height /\ proposals' = proposals \cup {p}
        /\ proposing' = [proposing EXCEPT ![n] = @ \ {p}]
    BY <1>6 DEF EndPropose
  <2>2. Made' = Made BY <2>1 DEF Made, TypeOK
  <2>3. QED BY <2>1, <2>2 DEF ProposalsMade, TypeOK
<1>7. ASSUME NEW n \in Validators, NEW p \in proposals, HandleProposal(n, p)
      PROVE ProposalsMade'
  BY <1>1, <1>7 DEF HandleProposal
<1>8. ASSUME NEW n \in Validators, NEW v \in votes,
             HandlePrevote(n, v) \/ HandlePrecommit(n, v)
      PROVE ProposalsMade'
  BY <1>1, <1>8 DEF HandlePrevote, HandlePrecommit
<1>9. QED BY <1>2, <1>3, <1>4, <1>5, <1>6, <1>7, <1>8 DEF Next, LoopStep

-----------------------------------------------------------------------------
LEMMA PrevotesJustifiedStep ==
  ASSUME TypeOK, PrevotesJustified, [Next]_vars PROVE PrevotesJustified'
<1>1. proposals \subseteq proposals'
  <2>1. CASE UNCHANGED vars BY <2>1 DEF vars
  <2>2. ASSUME NEW n \in Validators, Start(n) \/ Stop(n) \/ ProposeByApp(n)
        PROVE proposals \subseteq proposals'
    BY <2>2 DEF Start, Stop, ProposeByApp, BeginPropose
  <2>3. ASSUME NEW n \in Validators, LoopStep(n) PROVE proposals \subseteq proposals'
    BY <2>3 DEF TimerFires, ProposeOnTimer, BeginPropose, EndPropose, HandleProposal, HandlePrevote,
       HandlePrecommit, CommitBlock, HandleTimeout, LoopStep
  <2>4. QED BY <2>1, <2>2, <2>3 DEF Next
<1>2. CASE votes' = votes BY <1>1, <1>2 DEF PrevotesJustified
<1>3. ASSUME NEW n \in Validators, NEW p \in proposals, HandleProposal(n, p)
      PROVE PrevotesJustified' BY <1>1, <1>3, VoteOfFields DEF HandleProposal, PrevotesJustified
<1>4. ASSUME NEW n \in Validators, NEW v \in votes, HandlePrevote(n, v)
      PROVE PrevotesJustified' BY <1>1, <1>4, VoteOfFields DEF HandlePrevote, PrevotesJustified
<1>5. QED BY <1>2, <1>3, <1>4, WhoVotes

-----------------------------------------------------------------------------
\* A block that wins an engine's ballots is supported by the votes broadcast.
LEMMA WinnersSupported ==
  ASSUME NEW ballots \in [Validators -> Vote \cup {None}], NEW s, NEW b,
         \A u \in Validators : ballots[u] # None =>
            ballots[u] \in votes /\ ballots[u].step = s /\ ballots[u].validator = u,
         b \in WinningBlocks(ballots)
  PROVE  Cardinality(Supporters(s, b)) >= Quorum
<1>1. VotersFor(ballots, b) \subseteq Supporters(s, b)
  BY DEF VotersFor, Supporters
<1>2. /\ Cardinality(VotersFor(ballots, b)) <= Cardinality(Supporters(s, b))
      /\ Cardinality(VotersFor(ballots, b)) \in Nat /\ Cardinality(Supporters(s, b)) \in Nat
  BY <1>1, SupportersFinite
<1>3. Cardinality(VotersFor(ballots, b)) >= Quorum BY DEF WinningBlocks
<1>4. QED BY <1>2, <1>3, QuorumType

\* What the two tallies of an engine show, once the new vote is recorded.
LEMMA PrevoteWinner ==
  ASSUME TypeOK, VotesRecorded, NEW n \in Validators, NEW v \in votes,
         v.step = "PREVOTE",
         NEW b \in WinningBlocks([prevotes[n] EXCEPT ![v.validator] = v])
  PROVE  Cardinality(Supporters("PREVOTE", b)) >= Quorum
<1> DEFINE ballots == [prevotes[n] EXCEPT ![v.validator] = v]
<1>1. v \in Vote /\ v.validator \in Validators BY DEF TypeOK, Vote
<1>2. ballots \in [Validators -> Vote \cup {None}] BY <1>1 DEF TypeOK
<1>3. \A u \in Validators : ballots[u] # None =>
        ballots[u] \in votes /\ ballots[u].step = "PREVOTE" /\ ballots[u].validator = u
  BY <1>1 DEF TypeOK, VotesRecorded
<1> HIDE DEF ballots
<1>4. b \in WinningBlocks(ballots) BY DEF ballots
<1>5. QED BY <1>2, <1>3, <1>4, WinnersSupported

LEMMA PrecommitWinner ==
  ASSUME TypeOK, VotesRecorded, NEW n \in Validators, NEW v \in votes,
         v.step = "PRECOMMIT",
         WinningBlocks([precommits[n] EXCEPT ![v.validator] = v]) # {}
  PROVE  \E w \in votes : Cardinality(Supporters("PRECOMMIT", w.block)) >= Quorum
<1> DEFINE ballots == [precommits[n] EXCEPT ![v.validator] = v]
<1>1. v \in Vote /\ v.validator \in Validators BY DEF TypeOK, Vote
<1>2. ballots \in [Validators -> Vote \cup {None}] BY <1>1 DEF TypeOK
<1>3. \A u \in Validators : ballots[u] # None =>
        ballots[u] \in votes /\ ballots[u].step = "PRECOMMIT" /\ ballots[u].validator = u
  BY <1>1 DEF TypeOK, VotesRecorded
<1> HIDE DEF ballots
<1>4. PICK b : b \in WinningBlocks(ballots) BY DEF ballots
<1>5. PICK u \in Validators : ballots[u] # None /\ ballots[u].block = b
  BY <1>4 DEF WinningBlocks
<1>6. Cardinality(Supporters("PRECOMMIT", b)) >= Quorum
  BY <1>2, <1>3, <1>4, WinnersSupported
<1>7. QED BY <1>3, <1>5, <1>6

LEMMA PrecommitBackedStep ==
  ASSUME TypeOK, VotesRecorded, PrecommitBacked, [Next]_vars PROVE PrecommitBacked'
<1>0. votes \subseteq votes' BY VotesGrow
<1>1. ASSUME \A w \in votes' : w.step = "PRECOMMIT" =>
               w \in votes \/ Cardinality(Supporters("PREVOTE", w.block)) >= Quorum
      PROVE PrecommitBacked' BY <1>0, <1>1, SupportersGrow DEF PrecommitBacked
<1>2. CASE votes' = votes BY <1>1, <1>2
<1>3. ASSUME NEW n \in Validators, NEW p \in proposals, HandleProposal(n, p)
      PROVE PrecommitBacked'
  BY <1>1, <1>3, VoteOfFields DEF HandleProposal
<1>4. ASSUME NEW n \in Validators, NEW v \in votes, HandlePrevote(n, v)
      PROVE PrecommitBacked'
  <2>1. v.step = "PREVOTE" BY <1>4 DEF HandlePrevote
  <2>2. \/ votes' = votes
        \/ \E b \in WinningBlocks([prevotes[n] EXCEPT ![v.validator] = v]) :
              votes' = votes \cup {VoteOf(n, "PRECOMMIT", b)}
    BY <1>4 DEF HandlePrevote
  <2>3. QED BY <1>1, <2>1, <2>2, PrevoteWinner, VoteOfFields
<1>5. QED BY <1>2, <1>3, <1>4, WhoVotes

LEMMA LockBackedStep ==
  ASSUME TypeOK, VotesRecorded, LockBacked, [Next]_vars PROVE LockBacked'
<1>0. votes \subseteq votes' BY VotesGrow
<1>1. ASSUME \A n \in Validators : lockedBlock'[n] # None =>
               \/ lockedBlock'[n] = lockedBlock[n]
               \/ Cardinality(Supporters("PREVOTE", lockedBlock'[n].block)) >= Quorum
      PROVE LockBacked' BY <1>0, <1>1, SupportersGrow DEF LockBacked
<1>2. CASE UNCHANGED lockedBlock BY <1>1, <1>2
<1>3. CASE UNCHANGED vars BY <1>2, <1>3 DEF vars, engineVars
<1>4. ASSUME NEW n \in Validators, Start(n) PROVE LockBacked'
  BY <1>1, <1>4 DEF Start, TypeOK
<1>5. ASSUME NEW n \in Validators,
             Stop(n) \/ TimerFires(n) \/ CommitBlock(n) \/ HandleTimeout(n)
      PROVE LockBacked'
  BY <1>2, <1>5 DEF Stop, TimerFires, CommitBlock, HandleTimeout, engineVars
<1>6. ASSUME NEW n \in Validators,
             ProposeByApp(n) \/ ProposeOnTimer(n) \/ \E p \in proposing[n] : EndPropose(n, p)
      PROVE LockBacked'
  BY <1>2, <1>6 DEF ProposeByApp, ProposeOnTimer, BeginPropose, EndPropose
<1>7. ASSUME NEW n \in Validators, NEW p \in proposals, HandleProposal(n, p)
      PROVE LockBacked'
  BY <1>2, <1>7 DEF HandleProposal
<1>8. ASSUME NEW n \in Validators, NEW v \in votes, HandlePrevote(n, v)
      PROVE LockBacked'
  <2>1. v.step = "PREVOTE" BY <1>8 DEF HandlePrevote
  <2>2. \/ lockedBlock' = lockedBlock
        \/ \E b \in WinningBlocks([prevotes[n] EXCEPT ![v.validator] = v]) :
              lockedBlock' = [lockedBlock EXCEPT ![n] =
                 IF currentProposal[n] # None /\ currentProposal[n].block = b
                 THEN currentProposal[n] ELSE @]
    BY <1>8 DEF HandlePrevote
  <2>3. QED BY <1>1, <2>1, <2>2, PrevoteWinner DEF TypeOK
<1>9. ASSUME NEW n \in Validators, NEW v \in votes, HandlePrecommit(n, v)
      PROVE LockBacked'
  BY <1>2, <1>9 DEF HandlePrecommit
<1>10. QED
  BY <1>3, <1>4, <1>5, <1>6, <1>7, <1>8, <1>9 DEF Next, LoopStep

LEMMA CommitsJustifiedStep ==
  ASSUME TypeOK, VotesRecorded, CommitsJustified, [Next]_vars PROVE CommitsJustified'
<1> DEFINE Quorate == \E w \in votes :
             Cardinality(Supporters("PRECOMMIT", w.block)) >= Quorum
<1>0. Quorate => Quorate' BY VotesGrow, SupportersGrow
<1> HIDE DEF Quorate
<1>1. ASSUME \A n \in Validators :
               /\ loop'[n] = "committing" => currentProposal'[n] # None
               /\ loop'[n] = "committing" \/ committed'[n] # {} =>
                    loop[n] = "committing" \/ committed[n] # {} \/ Quorate
      PROVE CommitsJustified'
  BY <1>0, <1>1 DEF CommitsJustified, Quorate
<1>2. CASE UNCHANGED vars BY <1>1, <1>2 DEF vars, engineVars, CommitsJustified
<1>3. ASSUME NEW n \in Validators, Start(n) PROVE CommitsJustified'
  BY <1>1, <1>3 DEF Start, TypeOK, CommitsJustified
<1>4. ASSUME NEW n \in Validators, Stop(n) \/ TimerFires(n) PROVE CommitsJustified'
  BY <1>1, <1>4 DEF Stop, TimerFires, engineVars, TypeOK, CommitsJustified
<1>5. ASSUME NEW n \in Validators, ProposeByApp(n) \/ ProposeOnTimer(n)
      PROVE CommitsJustified'
  BY <1>1, <1>5
  DEF ProposeByApp, ProposeOnTimer, BeginPropose, TypeOK, CommitsJustified
<1>6. ASSUME NEW n \in Validators, NEW p \in proposing[n], EndPropose(n, p) PROVE CommitsJustified'
  <2>1. /\ committed' = committed
        /\ \A m \in Validators : loop'[m] = "committing" => loop[m] = "committing"
    BY <1>6 DEF EndPropose, TypeOK
  <2>2. /\ currentProposal'[n] = p /\ p # None
        /\ \A m \in Validators : m # n => currentProposal'[m] = currentProposal[m]
    BY <1>6, PBFTAssumption DEF EndPropose, TypeOK, Proposal, Block
  <2>3. QED BY <1>1, <2>1, <2>2 DEF CommitsJustified
<1>7. ASSUME NEW n \in Validators, NEW p \in proposals, HandleProposal(n, p)
      PROVE CommitsJustified'
  BY <1>1, <1>7 DEF HandleProposal, TypeOK, CommitsJustified
<1>8. ASSUME NEW n \in Validators, NEW v \in votes, HandlePrevote(n, v)
      PROVE CommitsJustified'
  BY <1>1, <1>8 DEF HandlePrevote, CommitsJustified
<1>9. ASSUME NEW n \in Validators, NEW v \in votes, HandlePrecommit(n, v)
      PROVE CommitsJustified'
  <2>1. /\ UNCHANGED <<currentProposal, committed>>
        /\ \/ loop' = loop
           \/ /\ WinningBlocks([precommits[n] EXCEPT ![v.validator] = v]) # {}
              /\ loop' = [loop EXCEPT ![n] =
                     IF currentProposal[n] = None THEN "deadlocked" ELSE "committing"]
    BY <1>9 DEF HandlePrecommit
  <2>2. CASE loop' = loop BY <1>1, <2>1, <2>2 DEF CommitsJustified
  <2>3. CASE WinningBlocks([precommits[n] EXCEPT ![v.validator] = v]) # {}
    BY <1>1, <1>9, <2>1, <2>3, PrecommitWinner DEF HandlePrecommit, Quorate, CommitsJustified, TypeOK
  <2>4. QED BY <2>1, <2>2, <2>3
<1>10. ASSUME NEW n \in Validators, CommitBlock(n) PROVE CommitsJustified'
  BY <1>1, <1>10 DEF CommitBlock, engineVars, TypeOK, CommitsJustified
<1>11. ASSUME NEW n \in Validators, HandleTimeout(n) PROVE CommitsJustified'
  BY <1>1, <1>11 DEF HandleTimeout, CommitsJustified
<1>12. QED
  BY <1>2, <1>3, <1>4, <1>5, <1>6, <1>7, <1>8, <1>9, <1>10, <1>11 DEF Next, LoopStep

-----------------------------------------------------------------------------
LEMMA IInvInit == Init => IInv
<1> SUFFICES ASSUME Init PROVE IInv OBVIOUS
<1>1. TypeOK BY TypeInit
<1>2. Made = {} BY DEF Init, Made
<1>3. QED
  BY <1>1, <1>2 DEF Init, IInv, VotesRecorded, ProposalsMade, PrevotesJustified,
                    CommitsJustified, PrecommitBacked, LockBacked, NoVotes

(* IInv is inductive.                                                      *)
THEOREM Inductive == Spec => []IInv
<1>1. IInv /\ [Next]_vars => IInv'
  BY TypeStep, VotesRecordedStep, ProposalsMadeStep, PrevotesJustifiedStep,
     CommitsJustifiedStep, PrecommitBackedStep, LockBackedStep DEF IInv
<1>2. QED BY IInvInit, <1>1, PTL DEF Spec

(* Every variable keeps its type, whatever is delivered in whatever order. *)
THEOREM TypeCorrect == Spec => []TypeOK
<1>1. IInv => TypeOK BY DEF IInv
<1>2. QED BY Inductive, <1>1, PTL

(* A precommit always has a quorum of prevotes behind it, for any number   *)
(* of validators: what tryAdvanceFromPrevote counts was really broadcast.  *)
THEOREM PrecommitsBacked == Spec => []PrecommitBacked
<1>1. IInv => PrecommitBacked BY DEF IInv
<1>2. QED BY Inductive, <1>1, PTL

(* The block a validator is locked on has a quorum of prevotes, also after *)
(* a timeout has cleared the engine's own record of them.                  *)
THEOREM LocksBacked == Spec => []LockBacked
<1>1. IInv => LockBacked BY DEF IInv
<1>2. QED BY Inductive, <1>1, PTL

(* No block event is emitted unless a quorum broadcast precommits for one  *)
(* block.                                                                  *)
THEOREM CommitsBacked == Spec => []CommitBacked
<1>1. IInv => CommitBacked BY DEF IInv, CommitsJustified, CommitBacked
<1>2. QED BY Inductive, <1>1, PTL

(* Whatever an engine precommits, locks or commits has its quorum.         *)
THEOREM QuorumsAreBacked == Spec => []QuorumsBacked
BY PrecommitsBacked, LocksBacked, CommitsBacked, PTL DEF QuorumsBacked

(* No two blocks are prevoted at one height: rotation gives the height one *)
(* proposer, and ProposeBlock never gives two proposals the same height.   *)
THEOREM HeightsAgree == Spec => []PrevotesAgree
<1>1. IInv => PrevotesAgree BY DEF PrevotesAgree, IInv, PrevotesJustified, Made, ProposalsMade
<1>2. QED BY Inductive, <1>1, PTL

-----------------------------------------------------------------------------
(* Provisions.  What was taken of a debt is the share of its last epoch or *)
(* the first one, the first guarantor's turn lasts while something is left,*)
(* and no charge is due while an appeal waits.                             *)
RateAt(n) == Rates[IF n > Len(Rates) THEN Len(Rates) ELSE n]

LEMMA RatesGrow ==
  ASSUME NEW n \in Nat, NEW m \in Nat, 1 <= n, n <= m
  PROVE  RateAt(n) \in 0..100 /\ RateAt(m) \in 0..100 /\ RateAt(n) <= RateAt(m)
BY RecourseAssumption DEF RateAt

LEMMA Percents ==
  ASSUME NEW debt \in Nat, NEW a \in 0..100, NEW b \in 0..100, a <= b
  PROVE  /\ Percent(debt, a) \in Nat /\ Percent(debt, b) \in Nat /\ Percent(debt, b) <= debt
         /\ Percent(debt, a) <= Percent(debt, b)
<1>1. PICK x \in Nat : x = debt * a OBVIOUS
<1>2. PICK y \in Nat : y = debt * b OBVIOUS
<1>3. x <= y /\ y <= debt * 100
  <2>1. debt * (b - a) \in Nat /\ debt * (100 - b) \in Nat OBVIOUS
  <2>2. debt * (b - a) = y - x /\ debt * (100 - b) = debt * 100 - y BY <1>1, <1>2
  <2>3. QED BY <2>1, <2>2
<1>4. x \div 100 <= y \div 100 /\ y \div 100 <= debt /\ x \div 100 \in Nat /\ y \div 100 \in Nat
  BY <1>3
<1>5. QED BY <1>1, <1>2, <1>4 DEF Percent

LEMMA FirstShare ==
  ASSUME NEW debt \in Nat PROVE First(debt) \in Nat /\ First(debt) <= debt
<1>1. RateAt(1) \in 0..100 BY RatesGrow
<1>2. Rates # <<>> /\ Rates \in Seq(0..100) BY RecourseAssumption
<1>3. RateAt(1) = Rates[1] BY <1>2 DEF RateAt
<1>4. PICK r \in 0..100 : r = Rates[1] BY <1>1, <1>3
<1>5. r <= r OBVIOUS
<1>6. Percent(debt, r) \in Nat /\ Percent(debt, r) <= debt BY <1>5, Percents
<1>7. QED BY <1>4, <1>6 DEF First

Provision ==
  [debtor : Debtors, debt : Nat, left : Nat, from : Nat, epoch : Nat, at : Nat,
   chain : Seq(Guarantors), index : Nat, appeal : {"none", "pending", "upheld", "rejected"},
   status : {"pending", "active", "appealed"} \cup Settled, resolved : Nat, late : Nat]

InShare(p) == p.debt - p.left <= IF Share(p) > First(p.debt) THEN Share(p) ELSE First(p.debt)

Fair(p, today) ==
  /\ p \in Provision /\ p.left <= p.debt /\ InShare(p)
  /\ p.left > 0 => p.index = 1
  /\ p.epoch <= p.at /\ p.epoch <= today
  /\ p.status \in {"active", "pending"} => p.appeal \in {"none", "rejected"}

RecourseInv ==
  /\ block \in Nat /\ owed \in Int /\ taken \in Int /\ gone \in Int
  /\ IsFiniteSet(DOMAIN provisions)
  /\ \A i \in DOMAIN provisions : Fair(provisions[i], Epoch(block))
  /\ owed = taken + gone + SumFunctionOnSet(Left(provisions), DOMAIN provisions)

LEMMA EpochType ==
  ASSUME NEW b \in Nat PROVE Epoch(b) \in Nat /\ Epoch(b) <= Epoch(b + 1)
<1>1. BlocksPerEpoch \in Nat /\ BlocksPerEpoch # 0 BY RecourseAssumption
<1>2. PICK q \in Int, r \in Int : q = b \div BlocksPerEpoch /\ r = b % BlocksPerEpoch
                                   /\ b = BlocksPerEpoch * q + r /\ 0 <= r /\ r < BlocksPerEpoch
  BY <1>1, DivisionWithRest
<1>3. q >= 0 BY <1>1, <1>2
<1>4. PICK p \in Int : p = (b + 1) \div BlocksPerEpoch BY <1>1, DivisionWithRest
<1>5. p = q \/ p = q + 1 BY <1>1, <1>2, <1>4, NextQuotient
<1>6. QED BY <1>2, <1>3, <1>4, <1>5 DEF Epoch

LEMMA LeftType ==
  ASSUME RecourseInv
  PROVE  /\ \A i \in DOMAIN provisions : Left(provisions)[i] \in Nat
         /\ SumFunctionOnSet(Left(provisions), DOMAIN provisions) \in Int
BY SumType DEF RecourseInv, Left, Fair, Provision

LEMMA RecourseStart == RecourseInit => RecourseInv
<1>. SUFFICES ASSUME RecourseInit PROVE RecourseInv OBVIOUS
<1>1. DOMAIN provisions = {} BY DEF RecourseInit
<1>2. PICK f : f = Left(provisions) OBVIOUS
<1>3. SumFunctionOnSet(f, {}) = 0 BY SumEmpty
<1>4. QED BY <1>1, <1>2, <1>3, FS_EmptySet DEF RecourseInit, RecourseInv

LEMMA InitiateKeeps ==
  ASSUME RecourseInv, NEW d \in Debtors, NEW debt \in Debts, NEW c \in Seq(Guarantors),
         InitiateProvision(d, debt, c)
  PROVE  /\ RecourseInv' /\ DOMAIN provisions \subseteq DOMAIN provisions'
         /\ \A i \in DOMAIN provisions :
              provisions'[i] = provisions[i] \/ provisions'[i].late = 0
<1>1. debt \in Nat BY RecourseAssumption
<1>2. PICK first \in Nat : first = First(debt) /\ first <= debt BY <1>1, FirstShare
<1>3. PICK left \in Nat : left = debt - first BY <1>1, <1>2
<1>4. PICK e \in Nat : e = Epoch(block) BY EpochType DEF RecourseInv
<1>5. PICK st \in {"pending", "completed"} : st = IF debt = first THEN "completed" ELSE "pending"
  OBVIOUS
<1>6. PICK prov : prov = [debtor |-> d, debt |-> debt, left |-> left,
               from |-> block, epoch |-> e, at |-> e, chain |-> c, index |-> 1, appeal |-> "none",
               status |-> st, resolved |-> 0, late |-> 0]
  OBVIOUS
<1>7. PICK id : id = <<d, block>> OBVIOUS
<1>8. provisions' = [i \in DOMAIN provisions \cup {id} |-> IF i = id THEN prov ELSE provisions[i]]
  BY <1>2, <1>3, <1>4, <1>5, <1>6, <1>7 DEF InitiateProvision
<1>9. /\ gone' = IF id \in DOMAIN provisions THEN gone + provisions[id].left ELSE gone
      /\ owed' = owed + debt /\ taken' = taken + first /\ block' = block
  BY <1>2, <1>7 DEF InitiateProvision
<1>10. prov \in Provision BY <1>1, <1>6 DEF Provision, RecourseInv, Settled
<1>11. Fair(prov, Epoch(block'))
  <2>1. prov.debt = debt /\ prov.left = left /\ prov.index = 1 /\ prov.appeal = "none"
        /\ prov.epoch = e /\ prov.at = e
    BY <1>6
  <2>2. Share(prov) \in Int
    <3>1. Share(prov) = Percent(debt, RateAt(1)) BY <2>1 DEF Share, RateAt
    <3>2. PICK r \in 0..100 : r = RateAt(1)
      <4>1. 1 \in Nat /\ 1 <= 1 OBVIOUS
      <4>2. RateAt(1) \in 0..100 BY <4>1, RatesGrow
      <4>3. QED BY <4>2
    <3>3. r <= r OBVIOUS
    <3>4. Percent(debt, r) \in Nat BY <1>1, <3>3, Percents
    <3>5. QED BY <3>1, <3>2, <3>4
  <2>3. InShare(prov) BY <1>1, <1>2, <1>3, <2>1, <2>2 DEF InShare
  <2>4. QED BY <1>1, <1>2, <1>3, <1>4, <1>9, <1>10, <2>1, <2>3 DEF Fair
<1>12. ASSUME NEW i \in DOMAIN provisions, i # id PROVE Fair(provisions'[i], Epoch(block'))
  BY <1>8, <1>9, <1>12 DEF RecourseInv, Fair
<1>13. PICK f : f = Left(provisions) OBVIOUS
<1>14. PICK g : g = Left(provisions') OBVIOUS
<1>15. PICK D : D = DOMAIN provisions OBVIOUS
<1>16. IsFiniteSet(D) /\ \A i \in D : f[i] \in Int BY <1>13, <1>15, LeftType DEF RecourseInv
<1>17. g[id] = left /\ \A i \in D \ {id} : g[i] = f[i]
  BY <1>6, <1>8, <1>13, <1>14, <1>15 DEF Left
<1>18. PICK sum \in Int : sum = SumFunctionOnSet(f, D) /\ owed = taken + gone + sum
  BY <1>13, <1>15, LeftType DEF RecourseInv
<1>19. owed' = taken' + gone' + SumFunctionOnSet(g, D \cup {id})
  <2>1. CASE id \in D
    <3>1. D \cup {id} = D /\ f[id] = provisions[id].left /\ f[id] \in Int
      BY <1>13, <1>15, <1>16, <2>1 DEF Left
    <3>2. SumFunctionOnSet(g, D) = SumFunctionOnSet(f, D) - f[id] + g[id]
      BY <1>16, <1>17, <2>1, SumChange
    <3>3. gone' = gone + f[id] BY <1>9, <1>15, <2>1, <3>1
    <3>4. SumFunctionOnSet(g, D \cup {id}) = sum - f[id] + left BY <1>17, <1>18, <3>1, <3>2
    <3>5. taken \in Int /\ gone \in Int /\ owed \in Int BY DEF RecourseInv
    <3>6. PICK x \in Int : x = f[id] BY <3>1
    <3>7. owed' = owed + debt /\ taken' = taken + first /\ gone' = gone + x
      BY <1>9, <3>3, <3>6
    <3>8. owed = taken + gone + sum BY <1>18
    <3>9. debt = first + left BY <1>1, <1>2, <1>3
    <3>10. (taken + gone + sum) + (first + left) = (taken + first) + (gone + x) + (sum - x + left)
      BY <3>5
    <3>11. owed' = taken' + gone' + (sum - x + left) BY <3>7, <3>8, <3>9, <3>10
    <3>12. QED BY <3>4, <3>6, <3>11
  <2>2. CASE id \notin D
    <3>1. (\A i \in D : g[i] = f[i]) /\ \A i \in D \cup {id} : g[i] \in Int BY <1>16, <1>17, <2>2
    <3>2. SumFunctionOnSet(g, D \cup {id}) = g[id] + SumFunctionOnSet(g, D)
      BY <1>16, <2>2, <3>1, SumAdd
    <3>3. SumFunctionOnSet(f, D) = SumFunctionOnSet(g, D) BY <1>16, <3>1, SumSame
    <3>4. SumFunctionOnSet(g, D \cup {id}) = left + sum BY <1>17, <1>18, <3>2, <3>3
    <3>5. gone' = gone BY <1>9, <1>15, <2>2
    <3>6. taken \in Int /\ gone \in Int /\ owed \in Int BY DEF RecourseInv
    <3>7. owed' = owed + debt /\ taken' = taken + first BY <1>9
    <3>8. owed = taken + gone + sum BY <1>18
    <3>9. debt = first + left BY <1>1, <1>2, <1>3
    <3>10. (taken + gone + sum) + (first + left) = (taken + first) + gone + (left + sum)
      BY <3>6
    <3>11. owed' = taken' + gone' + (left + sum) BY <3>5, <3>7, <3>8, <3>9, <3>10
    <3>12. QED BY <3>4, <3>11
  <2>3. QED BY <2>1, <2>2
<1>20. DOMAIN provisions' = D \cup {id} /\ IsFiniteSet(D \cup {id})
  BY <1>8, <1>15, <1>16, FS_AddElement
<1>21. owed' \in Int /\ taken' \in Int /\ gone' \in Int
  <2>1. id \in DOMAIN provisions => provisions[id].left \in Int BY DEF RecourseInv, Fair, Provision
  <2>2. QED BY <1>1, <1>2, <1>9, <2>1 DEF RecourseInv
<1>22. RecourseInv'
  <2>1. ASSUME NEW i \in DOMAIN provisions' PROVE Fair(provisions'[i], Epoch(block')) BY <1>8, <1>11, <1>12, <2>1
  <2>2. QED BY <1>9, <1>14, <1>19, <1>20, <1>21, <2>1 DEF RecourseInv
<1>23. prov.late = 0 BY <1>6
<1>24. QED BY <1>8, <1>15, <1>20, <1>22, <1>23

(* A charge.                                                               *)
LEMMA ChargeFair ==
  ASSUME RecourseInv, NEW p, Fair(p, Epoch(block)), ~Waiting(p)
  PROVE  /\ Owing(p) \in Nat /\ Owing(p) <= p.left
         /\ Fair(Charged(p), Epoch(block)) /\ Charged(p).left = p.left - Owing(p)
         /\ Charged(p).from = p.from
<1>1. p \in Provision BY DEF Fair
<1>2. PICK debt \in Nat : debt = p.debt BY <1>1 DEF Provision
<1>3. PICK left \in Nat : left = p.left BY <1>1 DEF Provision
<1>4. PICK e \in Nat : e = Epoch(block) BY EpochType DEF RecourseInv
<1>5. PICK start \in Nat : start = p.epoch BY <1>1 DEF Provision
<1>6. PICK last \in Nat : last = p.at BY <1>1 DEF Provision
<1>7. left <= debt /\ start <= last /\ last < e BY <1>2, <1>3, <1>4, <1>5, <1>6 DEF Fair, Waiting
<1>8. PICK n \in Nat : n = (last - start) + 1 BY <1>7
<1>9. PICK m \in Nat : m = (e - start) + 1 BY <1>7
<1>10. 1 <= n /\ n <= m BY <1>7, <1>8, <1>9
<1>11. Rate(p) = RateAt(m) BY <1>4, <1>5, <1>9 DEF Rate, RateAt
<1>12. Share(p) = Percent(debt, RateAt(n)) BY <1>2, <1>5, <1>6, <1>8 DEF Share, RateAt
<1>13. RateAt(n) \in 0..100 /\ RateAt(m) \in 0..100 /\ RateAt(n) <= RateAt(m) BY <1>10, RatesGrow
<1>14. PICK due \in Nat : due = Percent(debt, RateAt(m)) /\ Share(p) <= due
                             /\ Share(p) \in Nat
  <2>1. PICK a \in 0..100, b \in 0..100 : a = RateAt(n) /\ b = RateAt(m) /\ a <= b BY <1>13
  <2>2. Percent(debt, a) \in Nat /\ Percent(debt, b) \in Nat /\ Percent(debt, a) <= Percent(debt, b)
    BY <2>1, Percents
  <2>3. QED BY <1>12, <2>1, <2>2
<1>15. PICK owing : owing = Owing(p) OBVIOUS
<1>16. owing = IF (IF due <= debt - left THEN 0 ELSE due - (debt - left)) > left THEN left
               ELSE IF due <= debt - left THEN 0 ELSE due - (debt - left)
  BY <1>2, <1>3, <1>11, <1>14, <1>15 DEF Owing
<1>17. owing \in Nat /\ owing <= left BY <1>7, <1>16
<1>18. PICK first \in Nat : first = First(debt) BY FirstShare
<1>19. debt - left <= IF due > first THEN due ELSE first
  BY <1>2, <1>3, <1>14, <1>18 DEF Fair, InShare
<1>20. PICK rest \in Nat : rest = left - owing BY <1>17
<1>21. debt - rest <= IF due > first THEN due ELSE first
  BY <1>16, <1>17, <1>19, <1>20, <1>7
<1>22. PICK i \in Nat : i = IF rest = 0 THEN p.index + 1 ELSE p.index BY <1>1 DEF Provision
<1>23. PICK st \in {"completed", "active"} :
         st = IF rest = 0 /\ i > Len(p.chain) THEN "completed" ELSE "active" OBVIOUS
<1>24. PICK l \in Nat : l = p.late + owing BY <1>1, <1>17 DEF Provision
<1>25. Charged(p) = [p EXCEPT !.left = rest, !.at = e, !.index = i, !.late = l, !.status = st]
  BY <1>3, <1>4, <1>15, <1>20, <1>22, <1>23, <1>24 DEF Charged
<1>26. PICK q : q = Charged(p) OBVIOUS
<1>27. q \in Provision /\ q.left = rest /\ q.at = e /\ q.index = i /\ q.status = st /\ q.debt = debt
       /\ q.epoch = start /\ q.from = p.from /\ q.appeal = p.appeal
  BY <1>1, <1>2, <1>5, <1>25, <1>26 DEF Provision, Settled
<1>28. Share(q) = due BY <1>9, <1>14, <1>27 DEF Share, RateAt
<1>29. InShare(q) BY <1>18, <1>21, <1>27, <1>28 DEF InShare
<1>30. p.status \in {"active", "pending"} /\ p.appeal \in {"none", "rejected"}
  BY DEF Waiting, Fair
<1>31. rest > 0 => i = 1 BY <1>3, <1>17, <1>20, <1>22 DEF Fair
<1>32. Fair(q, Epoch(block))
  BY <1>4, <1>7, <1>17, <1>20, <1>27, <1>29, <1>30, <1>31 DEF Fair
<1>33. QED BY <1>3, <1>15, <1>17, <1>20, <1>26, <1>27, <1>32

\* What a pass takes of one provision.
Charge(p) == IF Charges(p) THEN Owing(p) ELSE 0

LEMMA ProcessedFair ==
  ASSUME RecourseInv, NEW i \in DOMAIN provisions
  PROVE  LET p == provisions[i] IN
         /\ Charge(p) \in Nat /\ Fair(Processed(p), Epoch(block)) /\ Processed(p).left \in Nat
         /\ p.left = Processed(p).left + Charge(p)
         /\ Charges(p) \/ Processed(p).late = p.late
         /\ Processed(p).from = p.from
<1>1. PICK p : p = provisions[i] OBVIOUS
<1>2. Fair(p, Epoch(block)) /\ p \in Provision /\ p.left \in Nat BY <1>1 DEF RecourseInv, Fair, Provision
<1>3. PICK q : q = Processed(p) OBVIOUS
<1>4. CASE Waiting(p) BY <1>1, <1>2, <1>3, <1>4 DEF Processed, Charges, Charge
<1>5. CASE ~Waiting(p) /\ Exempt(p)
  <2>1. q = [p EXCEPT !.status = "exempted"] /\ Charge(p) = 0
    BY <1>3, <1>5 DEF Processed, Charges, Charge
  <2>2. q \in Provision /\ q.left = p.left /\ q.late = p.late /\ q.from = p.from /\ q.status = "exempted"
        /\ q.debt = p.debt /\ q.epoch = p.epoch /\ q.at = p.at /\ q.index = p.index
    BY <1>2, <2>1 DEF Provision, Settled
  <2>3. Share(q) = Share(p) BY <2>2 DEF Share
  <2>4. Fair(q, Epoch(block)) BY <1>2, <2>2, <2>3 DEF Fair, InShare
  <2>5. QED BY <1>1, <1>2, <1>3, <2>1, <2>2, <2>4
<1>6. CASE ~Waiting(p) /\ ~Exempt(p) BY <1>1, <1>2, <1>3, <1>6, ChargeFair DEF Processed, Charges, Charge
<1>7. QED BY <1>4, <1>5, <1>6

LEMMA ProcessKeeps ==
  ASSUME RecourseInv, ProcessEpochProvision
  PROVE  /\ RecourseInv' /\ DOMAIN provisions' \subseteq DOMAIN provisions
         /\ \A i \in DOMAIN provisions' : provisions'[i] = Processed(provisions[i])
<1>. DEFINE D == DOMAIN provisions
            after == [i \in DOMAIN provisions |-> Processed(provisions[i])]
            charged == {i \in DOMAIN provisions : Charges(provisions[i])}
            amount == [i \in DOMAIN provisions |-> Owing(provisions[i])]
<1>5. PICK keep \in Kept(after) :
        /\ provisions' = [i \in keep |-> after[i]]
        /\ taken' = taken + SumFunctionOnSet(amount, charged)
        /\ gone' = gone + SumFunctionOnSet(Left(after), DOMAIN after \ keep)
        /\ UNCHANGED <<block, clean, defaults, owed>>
  BY DEF ProcessEpochProvision
<1>1. D = DOMAIN provisions OBVIOUS
<1>2. after = [i \in D |-> Processed(provisions[i])] OBVIOUS
<1>3. charged = {i \in D : Charges(provisions[i])} OBVIOUS
<1>4. amount = [i \in D |-> Owing(provisions[i])] OBVIOUS
<1>. HIDE DEF D, after, charged, amount
<1>6. DOMAIN after = D BY <1>2
<1>7. keep \subseteq D BY <1>5, <1>6 DEF Kept
<1>8. PICK gonePart : gonePart = D \ keep OBVIOUS
<1>9. PICK idle : idle = D \ charged OBVIOUS
<1>10. /\ IsFiniteSet(D) /\ IsFiniteSet(keep) /\ IsFiniteSet(gonePart) /\ IsFiniteSet(charged)
       /\ IsFiniteSet(idle) /\ D = keep \cup gonePart /\ D = charged \cup idle
       /\ keep \cap gonePart = {} /\ charged \cap idle = {}
  BY <1>1, <1>3, <1>7, <1>8, <1>9, FS_Subset DEF RecourseInv
<1>11. PICK f : f = Left(provisions) OBVIOUS
<1>12. PICK g : g = Left(after) OBVIOUS
<1>13. PICK h : h = [i \in D |-> Charge(provisions[i])] OBVIOUS
<1>14. PICK k : k = Left(provisions') OBVIOUS
<1>15. \A i \in D : f[i] \in Nat /\ g[i] \in Nat /\ h[i] \in Nat /\ f[i] = g[i] + h[i]
  <2>1. TAKE i \in D
  <2>2. f[i] = provisions[i].left BY <1>1, <1>11 DEF Left
  <2>3. g[i] = Processed(provisions[i]).left BY <1>2, <1>12 DEF Left
  <2>4. h[i] = Charge(provisions[i]) BY <1>13
  <2>5. i \in DOMAIN provisions BY <1>1
  <2>6. PICK p : p = provisions[i] OBVIOUS
  <2>7. /\ Charge(p) \in Nat /\ Processed(p).left \in Nat
        /\ p.left = Processed(p).left + Charge(p)
    BY <2>5, <2>6, ProcessedFair
  <2>8. QED BY <2>2, <2>3, <2>4, <2>6, <2>7
<1>16. SumFunctionOnSet(f, D) = SumFunctionOnSet(g, D) + SumFunctionOnSet(h, D) BY <1>10, <1>15, SumPlus
<1>17. SumFunctionOnSet(g, keep \cup gonePart)
         = SumFunctionOnSet(g, keep) + SumFunctionOnSet(g, gonePart) BY <1>10, <1>15, SumUnion
<1>18. SumFunctionOnSet(h, charged \cup idle)
         = SumFunctionOnSet(h, charged) + SumFunctionOnSet(h, idle) BY <1>10, <1>15, SumUnion
<1>19. SumFunctionOnSet(h, idle) = 0 BY <1>3, <1>9, <1>10, <1>13, SumZero DEF Charge
<1>20. SumFunctionOnSet(h, charged) = SumFunctionOnSet(amount, charged)
  BY <1>3, <1>4, <1>10, <1>13, SumSame DEF Charge
<1>21. SumFunctionOnSet(k, keep) = SumFunctionOnSet(g, keep)
  BY <1>5, <1>6, <1>7, <1>10, <1>12, <1>14, SumSame DEF Left
<1>22. /\ SumFunctionOnSet(g, keep) \in Int /\ SumFunctionOnSet(g, gonePart) \in Int
       /\ SumFunctionOnSet(h, charged) \in Int BY <1>10, <1>15, SumType
<1>23. PICK t \in Int : t = SumFunctionOnSet(g, keep) BY <1>22
<1>24. PICK u \in Int : u = SumFunctionOnSet(g, gonePart) BY <1>22
<1>25. PICK v \in Int : v = SumFunctionOnSet(h, charged) BY <1>22
<1>26. SumFunctionOnSet(f, D) = t + u + v
  <2>1. SumFunctionOnSet(g, D) = t + u BY <1>10, <1>17, <1>23, <1>24
  <2>2. SumFunctionOnSet(h, D) = v
    <3>1. SumFunctionOnSet(h, D) = SumFunctionOnSet(h, charged \cup idle) BY <1>10
    <3>2. QED BY <3>1, <1>18, <1>19, <1>25
  <2>3. QED BY <1>16, <2>1, <2>2
<1>27. owed = taken + gone + (t + u + v) BY <1>1, <1>11, <1>26 DEF RecourseInv
<1>28. taken' = taken + v /\ gone' = gone + u /\ owed' = owed /\ block' = block
  BY <1>5, <1>6, <1>8, <1>12, <1>20, <1>24, <1>25
<1>29. owed' = taken' + gone' + t /\ taken' \in Int /\ gone' \in Int /\ owed' \in Int
  BY <1>27, <1>28 DEF RecourseInv
<1>30. DOMAIN provisions' = keep /\ \A i \in keep : provisions'[i] = Processed(provisions[i])
  BY <1>2, <1>5, <1>7
<1>31. ASSUME NEW i \in keep PROVE Fair(provisions'[i], Epoch(block'))
  BY <1>1, <1>7, <1>28, <1>30, ProcessedFair DEF Fair
<1>32. owed' = taken' + gone' + SumFunctionOnSet(k, keep) BY <1>21, <1>23, <1>29
<1>33. RecourseInv'
  BY <1>10, <1>14, <1>28, <1>29, <1>30, <1>31, <1>32 DEF RecourseInv
<1>34. QED BY <1>1, <1>7, <1>30, <1>33

(* A provision that changes without its amounts.                           *)
LEMMA SameAmounts ==
  ASSUME RecourseInv, NEW i \in DOMAIN provisions, NEW q, Fair(q, Epoch(block)), q.left = provisions[i].left,
         provisions' = [provisions EXCEPT ![i] = q],
         UNCHANGED <<block, owed, taken, gone>>
  PROVE  RecourseInv'
<1>1. PICK f : f = Left(provisions) OBVIOUS
<1>2. PICK g : g = Left(provisions') OBVIOUS
<1>3. DOMAIN provisions' = DOMAIN provisions OBVIOUS
<1>4. \A j \in DOMAIN provisions : f[j] = g[j] BY <1>1, <1>2 DEF Left
<1>5. SumFunctionOnSet(f, DOMAIN provisions) = SumFunctionOnSet(g, DOMAIN provisions)
  BY <1>4, SumSame DEF RecourseInv
<1>6. ASSUME NEW j \in DOMAIN provisions PROVE Fair(provisions'[j], Epoch(block')) BY DEF RecourseInv, Fair
<1>7. QED BY <1>1, <1>2, <1>3, <1>5, <1>6 DEF RecourseInv

LEMMA AppealKeeps ==
  ASSUME RecourseInv, NEW i \in DOMAIN provisions,
         SubmitAppeal(i) \/ \E b \in BOOLEAN : ResolveAppeal(i, b)
  PROVE  RecourseInv' /\ \A j \in DOMAIN provisions : provisions'[j].late = provisions[j].late
<1>1. PICK p : p = provisions[i] /\ p \in Provision /\ Fair(p, Epoch(block)) BY DEF RecourseInv, Fair
<1>. DEFINE Into(a, st, n) ==
        /\ a \in {"pending", "upheld", "rejected"} /\ st \in {"appealed", "cancelled", "active"}
        /\ n \in Nat /\ (st = "active" => a = "rejected")
        /\ provisions' = [provisions EXCEPT ![i] = [p EXCEPT !.appeal = a, !.status = st, !.resolved = n]]
        /\ UNCHANGED <<block, owed, taken, gone>>
<1>2. PICK a, st, n : Into(a, st, n)
  <2>1. PICK k \in Nat : k = p.resolved BY <1>1 DEF Provision
  <2>2. PICK m \in Nat : m = k + 1 BY <2>1
  <2>3. CASE SubmitAppeal(i)
    <3>1. [p EXCEPT !.appeal = "pending", !.status = "appealed"]
            = [p EXCEPT !.appeal = "pending", !.status = "appealed", !.resolved = k]
      BY <1>1, <2>1 DEF Provision
    <3>2. Into("pending", "appealed", k) BY <1>1, <2>3, <3>1 DEF SubmitAppeal
    <3>3. QED BY <3>2
  <2>4. ASSUME NEW b \in BOOLEAN, ResolveAppeal(i, b) PROVE \E a, st, n : Into(a, st, n)
    <3>1. CASE b = TRUE
      <4>1. provisions' = [provisions EXCEPT ![i] =
                             [p EXCEPT !.appeal = "upheld", !.status = "cancelled", !.resolved = m]]
        BY <1>1, <2>1, <2>2, <2>4, <3>1 DEF ResolveAppeal
      <4>2. Into("upheld", "cancelled", m) BY <2>4, <4>1 DEF ResolveAppeal
      <4>3. QED BY <4>2
    <3>2. CASE b = FALSE
      <4>1. provisions' = [provisions EXCEPT ![i] =
                             [p EXCEPT !.appeal = "rejected", !.status = "active", !.resolved = m]]
        BY <1>1, <2>1, <2>2, <2>4, <3>2 DEF ResolveAppeal
      <4>2. Into("rejected", "active", m) BY <2>4, <4>1 DEF ResolveAppeal
      <4>3. QED BY <4>2
    <3>3. QED BY <3>1, <3>2
  <2>5. QED BY <2>3, <2>4
<1>3. PICK q : q = [p EXCEPT !.appeal = a, !.status = st, !.resolved = n] OBVIOUS
<1>4. q \in Provision /\ q.left = p.left /\ q.late = p.late /\ q.status = st /\ q.appeal = a
      /\ q.debt = p.debt /\ q.epoch = p.epoch /\ q.at = p.at /\ q.index = p.index
  BY <1>1, <1>2, <1>3 DEF Provision, Settled
<1>5. Share(q) = Share(p) BY <1>4 DEF Share
<1>6. Fair(q, Epoch(block)) BY <1>1, <1>2, <1>4, <1>5 DEF Fair, InShare
<1>7. provisions' = [provisions EXCEPT ![i] = q] BY <1>2, <1>3
<1>8. RecourseInv' BY <1>1, <1>2, <1>4, <1>6, <1>7, SameAmounts
<1>9. QED BY <1>1, <1>4, <1>7, <1>8

ChargedInTime ==
  \A i \in DOMAIN provisions \cap DOMAIN provisions' :
    (provisions[i].from = provisions'[i].from /\ provisions'[i].late > provisions[i].late) =>
      /\ provisions[i].appeal \in {"none", "rejected"}
      /\ block - provisions[i].from > AppealWindow

LEMMA RecourseStep ==
  RecourseInv /\ (RecourseNext \/ UNCHANGED recourseVars) => RecourseInv' /\ ChargedInTime
<1>. SUFFICES ASSUME RecourseInv, RecourseNext \/ UNCHANGED recourseVars
              PROVE  RecourseInv' /\ ChargedInTime
  OBVIOUS
<1>1. \A i \in DOMAIN provisions : provisions[i].late \in Nat /\ provisions[i].from \in Nat
  BY DEF RecourseInv, Fair, Provision
<1>2. CASE UNCHANGED <<provisions, owed, taken, gone>> /\ (block' = block \/ block' = block + 1)
  <2>1. block \in Nat /\ Epoch(block) \in Nat /\ Epoch(block') \in Nat /\ Epoch(block) <= Epoch(block')
    BY <1>2, EpochType DEF RecourseInv
  <2>2. ASSUME NEW i \in DOMAIN provisions PROVE Fair(provisions[i], Epoch(block'))
    BY <1>2, <2>1 DEF RecourseInv, Fair, Provision
  <2>3. Left(provisions)' = Left(provisions) BY <1>2 DEF Left
  <2>4. block' \in Nat BY <1>2, <2>1
  <2>5. QED BY <1>1, <1>2, <2>2, <2>3, <2>4 DEF RecourseInv, ChargedInTime
<1>3. CASE ProcessEpochProvision
  <2>1. ASSUME NEW i \in DOMAIN provisions \cap DOMAIN provisions',
               provisions'[i].late > provisions[i].late
        PROVE  /\ provisions[i].appeal \in {"none", "rejected"}
               /\ block - provisions[i].from > AppealWindow
    <3>1. provisions'[i] = Processed(provisions[i]) BY <1>3, ProcessKeeps
    <3>2. PICK p : p = provisions[i] /\ Fair(p, Epoch(block)) BY DEF RecourseInv
    <3>3. Charges(p) BY <1>1, <2>1, <3>1, <3>2, ProcessedFair
    <3>4. ~Waiting(p) BY <3>3 DEF Charges
    <3>5. AppealWindow \in Nat /\ block \in Nat /\ p.from \in Nat
      BY <1>1, <3>2, RecourseAssumption DEF RecourseInv
    <3>6. QED BY <3>2, <3>4, <3>5 DEF Waiting, Fair
  <2>2. QED BY <1>3, <2>1, ProcessKeeps DEF ChargedInTime
<1>4. ASSUME NEW d \in Debtors, NEW debt \in Debts,
             NEW c \in {<<>>} \cup {<<g>> : g \in Guarantors} \cup
                        {<<g, h>> : g \in Guarantors, h \in Guarantors},
             InitiateProvision(d, debt, c)
      PROVE  RecourseInv' /\ ChargedInTime
  <2>1. c \in Seq(Guarantors)
    <3>1. CASE c = <<>> BY <3>1
    <3>2. CASE c \in {<<g>> : g \in Guarantors}
      <4>1. PICK g \in Guarantors : c = <<g>> BY <3>2
      <4>2. QED BY <4>1
    <3>3. CASE c \in {<<g, h>> : g \in Guarantors, h \in Guarantors}
      <4>1. PICK g \in Guarantors, h \in Guarantors : c = <<g, h>> BY <3>3
      <4>2. QED BY <4>1
    <3>4. QED BY <1>4, <3>1, <3>2, <3>3
  <2>2. RecourseInv' /\ \A i \in DOMAIN provisions :
                          provisions'[i] = provisions[i] \/ provisions'[i].late = 0
    BY <1>4, <2>1, InitiateKeeps
  <2>3. \A i \in DOMAIN provisions : ~(provisions'[i].late > provisions[i].late)
    BY <1>1, <2>2
  <2>4. QED BY <2>2, <2>3 DEF ChargedInTime
<1>5. ASSUME NEW i \in DOMAIN provisions, SubmitAppeal(i) \/ \E b \in BOOLEAN : ResolveAppeal(i, b)
      PROVE  RecourseInv' /\ ChargedInTime BY <1>1, <1>5, AppealKeeps DEF ChargedInTime
<1>6. ASSUME NEW d \in Debtors, RecordCleanEpoch(d) PROVE RecourseInv' /\ ChargedInTime
  BY <1>2, <1>6 DEF RecordCleanEpoch
<1>7. CASE PassBlock \/ UNCHANGED recourseVars BY <1>2, <1>7 DEF PassBlock, recourseVars
<1>8. QED BY <1>3, <1>4, <1>5, <1>6, <1>7 DEF RecourseNext

LEMMA RecourseIs == RecourseInv => DebtsAccounted
BY DEF RecourseInv, Fair, InShare, DebtsAccounted
-----------------------------------------------------------------------------
(* Shadow claims.  A list of an owner has what is his, and an ID more than *)
(* once only after it was issued more than once.                           *)
Once(s, x) == \A j, k \in DOMAIN s : s[j] = x /\ s[k] = x => j = k

LEMMA WithoutIs ==
  ASSUME NEW X, NEW s \in Seq(X), NEW id, NEW t, t = Without(s, id)
  PROVE  /\ t \in Seq(X)
         /\ \A k \in DOMAIN t : \E j \in DOMAIN s : t[k] = s[j]
         /\ \A k \in DOMAIN s : s[k] # id => \E j \in DOMAIN t : t[j] = s[k]
         /\ \A x : Once(s, x) => Once(t, x)
         /\ Once(s, id) => \A k \in DOMAIN t : t[k] # id
<1>1. PICK n \in Nat : n = Len(s) /\ DOMAIN s = 1..n OBVIOUS
<1>2. CASE ~\E k \in DOMAIN s : s[k] = id BY <1>2 DEF Without
<1>3. CASE \E k \in DOMAIN s : s[k] = id
  <2>1. PICK i \in 1..n : t = RemoveAt(s, i) /\ s[i] = id
    <3>0. PICK T : T = {k \in 1..n : s[k] = id} OBVIOUS
    <3>1. T \in SUBSET Nat /\ T = {k \in 1..n : s[k] = id} /\ T # {} BY <1>1, <1>3, <3>0
    <3>2. PICK k \in T : \A j \in T : k <= j BY <3>1, SmallestNumber
    <3>3. k \in 1..n /\ s[k] = id /\ \A j \in 1..k - 1 : s[j] # id
      <4>1. k \in 1..n /\ s[k] = id BY <3>1, <3>2
      <4>2. ASSUME NEW j \in 1..k - 1, s[j] = id PROVE FALSE BY <3>1, <3>2, <4>1, <4>2
      <4>3. QED BY <4>1, <4>2
    <3>4. PICK i : i = CHOOSE l \in DOMAIN s : s[l] = id /\ \A j \in 1..l - 1 : s[j] # id OBVIOUS
    <3>5. i \in DOMAIN s /\ s[i] = id BY <1>1, <3>3, <3>4
    <3>6. t = RemoveAt(s, i) BY <1>3, <3>4 DEF Without
    <3>7. QED BY <1>1, <3>5, <3>6
  <2>2. t \in Seq(X) /\ DOMAIN t = 1..(n - 1)
        /\ \A k \in 1..(n - 1) : t[k] = IF k < i THEN s[k] ELSE s[k + 1]
    <3>1. PICK a : a = SubSeq(s, 1, i - 1) OBVIOUS
    <3>2. PICK b : b = SubSeq(s, i + 1, n) OBVIOUS
    <3>3. a \in Seq(X) /\ Len(a) = i - 1 /\ \A k \in 1..(i - 1) : a[k] = s[k] BY <1>1, <3>1, SubSeqProperties
    <3>4. b \in Seq(X) /\ Len(b) = n - i /\ \A k \in 1..(n - i) : b[k] = s[i + k] BY <1>1, <3>2, SubSeqProperties
    <3>5. t = a \o b BY <1>1, <2>1, <3>1, <3>2 DEF RemoveAt
    <3>6. PICK l \in Nat, m \in Nat : l = i - 1 /\ m = n - i OBVIOUS
    <3>7. Len(a) = l /\ Len(b) = m /\ l + m = n - 1 BY <1>1, <3>3, <3>4, <3>6
    <3>8. /\ a \o b \in Seq(X) /\ Len(a \o b) = Len(a) + Len(b)
          /\ \A k \in 1..(Len(a) + Len(b)) : (a \o b)[k] = IF k <= Len(a) THEN a[k] ELSE b[k - Len(a)]
      BY <3>3, <3>4, ConcatProperties
    <3>9. t \in Seq(X) /\ Len(t) = n - 1
          /\ \A k \in 1..(n - 1) : t[k] = IF k <= l THEN a[k] ELSE b[k - l]
      BY <3>5, <3>7, <3>8
    <3>10. ASSUME NEW k \in 1..(n - 1) PROVE t[k] = IF k < i THEN s[k] ELSE s[k + 1]
      <4>1. CASE k < i BY <3>3, <3>6, <3>9, <4>1
      <4>2. CASE ~(k < i) BY <3>4, <3>6, <3>9, <4>2
      <4>3. QED BY <4>1, <4>2
    <3>11. DOMAIN t = 1..(n - 1) BY <3>9
    <3>12. QED BY <3>9, <3>10, <3>11
  <2>3. PICK up : up = [k \in 1..(n - 1) |-> IF k < i THEN k ELSE k + 1] OBVIOUS
  <2>4. \A k \in 1..(n - 1) : up[k] \in 1..n /\ up[k] # i /\ t[k] = s[up[k]] BY <2>2, <2>3
  <2>5. \A j, k \in 1..(n - 1) : up[j] = up[k] => j = k BY <2>3
  <2>6. ASSUME NEW k \in 1..n, k # i PROVE \E j \in 1..(n - 1) : up[j] = k
    <3>1. CASE k < i BY <2>3, <3>1
    <3>2. CASE k > i
      <4>1. PICK j \in 1..(n - 1) : j = k - 1 BY <3>2
      <4>2. up[j] = k BY <2>3, <3>2, <4>1
      <4>3. QED BY <4>2
    <3>3. QED BY <2>6, <3>1, <3>2
  <2>7. \A k \in DOMAIN t : \E j \in DOMAIN s : t[k] = s[j] BY <1>1, <2>2, <2>4
  <2>8. \A k \in DOMAIN s : s[k] # id => \E j \in DOMAIN t : t[j] = s[k]
    <3>1. TAKE k \in DOMAIN s
    <3>2. HAVE s[k] # id
    <3>3. PICK j \in 1..(n - 1) : up[j] = k BY <1>1, <2>1, <2>6, <3>2
    <3>4. t[j] = s[k] /\ j \in DOMAIN t BY <2>2, <2>4, <3>3
    <3>5. QED BY <3>4
  <2>9. \A x : Once(s, x) => Once(t, x) BY <1>1, <2>2, <2>4, <2>5 DEF Once
  <2>10. Once(s, id) => \A k \in DOMAIN t : t[k] # id
    BY <1>1, <2>1, <2>2, <2>4 DEF Once
  <2>11. QED BY <2>2, <2>7, <2>8, <2>9, <2>10
<1>4. QED BY <1>2, <1>3

ClaimID == Holders \X Nat
ClaimRecord ==
  [owner : Holders, face : Nat, release : Nat, lock : Locks,
   status : {"active", "redeemed", "expired"}]

Lists(s, i) == \E k \in DOMAIN s : s[k] = i

\* t is the list s with the claim id after it.
Grown(s, t, id) ==
  /\ t \in Seq(ClaimID)
  /\ \A k \in DOMAIN t : t[k] = id \/ \E j \in DOMAIN s : t[k] = s[j]
  /\ \A x : Lists(s, x) => Lists(t, x)
  /\ Lists(t, id)
  /\ \A x : Once(s, x) /\ (x # id \/ \A k \in DOMAIN s : s[k] # id) => Once(t, x)

LEMMA ClaimAppended ==
  ASSUME NEW s \in Seq(ClaimID), NEW id \in ClaimID, NEW t, t = Append(s, id)
  PROVE  Grown(s, t, id)
BY DEF Lists, Once, Grown

\* The list s of an owner, by the claims cs and the IDs re that were reused.
ListOf(s, h, cs, re) ==
  /\ s \in Seq(ClaimID)
  /\ \A k \in DOMAIN s : /\ s[k] \in DOMAIN cs
                         /\ s[k] \in re \/ cs[s[k]].owner = h
  /\ \A x \in DOMAIN cs : x \notin re => Once(s, x)

ListsKept ==
  /\ DOMAIN byOwner = Holders
  /\ \A h \in Holders : ListOf(byOwner[h], h, claims, reused)
  /\ \A i \in DOMAIN claims : Lists(byOwner[claims[i].owner], i)

ClaimsInv ==
  /\ day \in Nat /\ mint \in Nat /\ reused \subseteq DOMAIN claims
  /\ IsFiniteSet(DOMAIN claims) /\ IsFiniteSet(nullifiers)
  /\ DOMAIN claims \subseteq ClaimID
  /\ \A i \in DOMAIN claims : claims[i] \in ClaimRecord
  /\ redeemed \in Seq(Int) /\ issued \in Int /\ expired \in Int /\ lost \in Int
  /\ OneClaimPerLock /\ ListsKept /\ FaceAccounted

LEMMA ClaimsStart == ClaimsInit => ClaimsInv
<1>. SUFFICES ASSUME ClaimsInit PROVE ClaimsInv OBVIOUS
<1>1. DOMAIN claims = {} /\ nullifiers = {} /\ redeemed = <<>> BY DEF ClaimsInit
<1>2. Active = {} BY <1>1 DEF Active
<1>3. PICK f : f = Faces OBVIOUS
<1>0. DOMAIN << >> = {} /\ << >> \in Seq(Int) /\ Len(<< >>) = 0 OBVIOUS
<1>4. PICK e : e = redeemed /\ DOMAIN e = {} /\ e \in Seq(Int) /\ Len(e) = 0 BY <1>0, <1>1, Zenon
<1>5. SumFunctionOnSet(f, {}) = 0 /\ SumFunctionOnSet(e, {}) = 0 BY SumEmpty
<1>6. SumFunction(e) = 0 BY <1>4, <1>5 DEF SumFunction
<1>7. Cardinality(nullifiers) = 0 /\ IsFiniteSet(nullifiers) /\ IsFiniteSet(DOMAIN claims)
  BY <1>1, FS_EmptySet
<1>8. FaceAccounted
  BY <1>2, <1>3, <1>4, <1>5, <1>6, <1>7 DEF ClaimsInit, FaceAccounted
<1>9. ListsKept
  <2>1. ASSUME NEW h \in Holders PROVE ListOf(byOwner[h], h, claims, reused) BY <1>1 DEF ClaimsInit, ListOf
  <2>2. QED BY <1>1, <2>1 DEF ClaimsInit, ListsKept
<1>10. OneClaimPerLock BY <1>2 DEF OneClaimPerLock
<1>11. QED BY <1>1, <1>4, <1>7, <1>8, <1>9, <1>10 DEF ClaimsInit, ClaimsInv

LEMMA ActiveFaces ==
  ASSUME ClaimsInv
  PROVE  /\ IsFiniteSet(Active) /\ Active \subseteq DOMAIN claims
         /\ \A i \in DOMAIN claims : Faces[i] = claims[i].face /\ Faces[i] \in Nat
         /\ SumFunctionOnSet(Faces, Active) \in Int /\ SumFunction(redeemed) \in Int
<1>1. IsFiniteSet(Active) /\ Active \subseteq DOMAIN claims
  BY FS_Subset DEF Active, ClaimsInv
<1>2. \A i \in DOMAIN claims : Faces[i] = claims[i].face /\ Faces[i] \in Nat
  BY DEF Faces, ClaimsInv, ClaimRecord
<1>3. PICK f : f = Faces OBVIOUS
<1>4. SumFunctionOnSet(f, Active) \in Int BY <1>1, <1>2, <1>3, SumType
<1>5. PICK r : r = redeemed /\ r \in Seq(Int) BY DEF ClaimsInv
<1>6. PICK n \in Nat : n = Len(r) /\ DOMAIN r = 1..n BY <1>5
<1>11. 1 \in Int /\ n \in Int OBVIOUS
<1>12. IsFiniteSet(1..n) BY <1>11, FS_Interval, Zenon
<1>13. \A k \in 1..n : r[k] \in Int BY <1>5, <1>6
<1>7. IsFiniteSet(1..n) /\ \A k \in 1..n : r[k] \in Int BY <1>12, <1>13
<1>8. SumFunctionOnSet(r, DOMAIN r) \in Int BY <1>6, <1>7, SumType
<1>9. SumFunction(r) \in Int BY <1>8, Zenon DEF SumFunction
<1>10. QED BY <1>1, <1>2, <1>3, <1>4, <1>5, <1>9

(* What a step of a claim may do to it.                                    *)
Ended ==
  \A i \in DOMAIN claims :
    /\ claims[i].status = "active" /\ claims'[i].status = "expired" => day - claims[i].release > Week
    /\ claims[i].status # "active" => claims'[i].status = claims[i].status \/ i \in reused'

LEMMA IssueKeeps ==
  ASSUME ClaimsInv, NEW h \in Holders, NEW l \in Locks, NEW f \in FaceValues, NEW r \in Nat,
         IssueShadowClaim(h, l, f, r)
  PROVE  ClaimsInv' /\ Ended
<1>1. f \in Nat BY ClaimsAssumption
<1>0. mint \in Nat BY DEF ClaimsInv
<1>18. <<h, mint>> \in ClaimID BY <1>0, Zenon DEF ClaimID
<1>2. PICK id : id = <<h, mint>> /\ id \in ClaimID BY <1>18, Zenon
<1>3. PICK c : c = [owner |-> h, face |-> f, release |-> r, lock |-> l, status |-> "active"] OBVIOUS
<1>4. c \in ClaimRecord /\ c.owner = h /\ c.face = f /\ c.lock = l /\ c.status = "active"
  BY <1>1, <1>3 DEF ClaimRecord
<1>5. PICK D : D = DOMAIN claims OBVIOUS
<1>6. /\ claims' = [i \in D \cup {id} |-> IF i = id THEN c ELSE claims[i]]
      /\ byOwner' = [byOwner EXCEPT ![h] = Append(@, id)] /\ issued' = issued + f
      /\ lost' = (IF id \in Active THEN lost + claims[id].face ELSE lost)
      /\ reused' = (IF id \in D THEN reused \cup {id} ELSE reused)
      /\ UNCHANGED <<nullifiers, day, mint, redeemed, expired>>
      /\ \A i \in Active : claims[i].lock # l
  BY <1>2, <1>3, <1>5 DEF IssueShadowClaim, LockFree
<1>7. DOMAIN claims' = D \cup {id} /\ claims'[id] = c /\ \A i \in D : i # id => claims'[i] = claims[i]
  BY <1>6
<1>8. IsFiniteSet(D \cup {id}) BY <1>5, FS_AddElement DEF ClaimsInv
<1>9. \A i \in D \cup {id} : claims'[i] \in ClaimRecord BY <1>4, <1>5, <1>6 DEF ClaimsInv
<1>10. Active' = Active \cup {id} BY <1>4, <1>5, <1>7 DEF Active
<1>11. OneClaimPerLock'
  <2>1. ASSUME NEW i \in Active \cup {id}, NEW j \in Active \cup {id},
               claims'[i].lock = claims'[j].lock
        PROVE  i = j BY <1>4, <1>5, <1>6, <1>7, <2>1 DEF Active, ClaimsInv, OneClaimPerLock
  <2>2. QED BY <1>10, <2>1 DEF OneClaimPerLock
<1>12. ListsKept'
  <2>1. DOMAIN byOwner' = Holders BY <1>6 DEF ClaimsInv, ListsKept
  <2>2. ASSUME NEW g \in Holders PROVE ListOf(byOwner'[g], g, claims', reused')
    <3>1. PICK s : s = byOwner[g] OBVIOUS
    <3>2. ListOf(s, g, claims, reused) BY <3>1 DEF ClaimsInv, ListsKept
    <3>3. s \in Seq(ClaimID) /\ \A k \in DOMAIN s : s[k] \in D BY <1>5, <3>2 DEF ListOf
    <3>4. \A k \in DOMAIN s : s[k] \in D \cup {id} /\ (s[k] \in reused' \/ claims'[s[k]].owner = g)
      <4>1. TAKE k \in DOMAIN s
      <4>2. CASE s[k] = id BY <1>6, <3>3, <4>2
      <4>3. CASE s[k] # id BY <1>6, <1>7, <3>2, <3>3, <4>3 DEF ListOf
      <4>4. QED BY <4>2, <4>3
    <3>5. \A x \in D \cup {id} : x \notin reused' =>
            Once(s, x) /\ (x # id \/ \A k \in DOMAIN s : s[k] # id)
      <4>1. SUFFICES ASSUME NEW x \in D \cup {id}, x \notin reused'
                     PROVE  Once(s, x) /\ (x # id \/ \A k \in DOMAIN s : s[k] # id)
        OBVIOUS
      <4>2. CASE x \in D /\ x # id BY <1>5, <1>6, <3>2, <4>1, <4>2 DEF ListOf
      <4>3. CASE x = id BY <1>6, <3>3, <4>1, <4>3 DEF Once
      <4>4. QED BY <4>1, <4>2, <4>3
    <3>6. CASE g # h BY <1>6, <1>7, <3>1, <3>3, <3>4, <3>5, <3>6 DEF ClaimsInv, ListsKept, ListOf
    <3>7. CASE g = h
      <4>1. PICK t : t = Append(s, id) /\ byOwner'[g] = t
        BY <1>6, <3>1, <3>7 DEF ClaimsInv, ListsKept
      <4>2. /\ t \in Seq(ClaimID)
            /\ \A k \in DOMAIN t : t[k] = id \/ \E j \in DOMAIN s : t[k] = s[j]
            /\ \A x : Once(s, x) /\ (x # id \/ \A k \in DOMAIN s : s[k] # id) => Once(t, x)
        <5>1. Grown(s, t, id) BY <1>2, <3>3, <4>1, ClaimAppended
        <5>2. QED BY <5>1 DEF Grown
      <4>3. \A k \in DOMAIN t : t[k] \in D \cup {id} /\ (t[k] \in reused' \/ claims'[t[k]].owner = g)
        BY <1>4, <1>7, <3>4, <3>7, <4>2
      <4>4. QED BY <1>7, <3>5, <4>1, <4>2, <4>3 DEF ListOf
    <3>8. QED BY <3>6, <3>7
  <2>3. ASSUME NEW i \in D \cup {id} PROVE Lists(byOwner'[claims'[i].owner], i)
    <3>1. PICK s : s = byOwner[h] /\ s \in Seq(ClaimID)
      BY DEF ClaimsInv, ListsKept, ListOf
    <3>2. PICK t : t = Append(s, id) /\ byOwner'[h] = t BY <1>6, <3>1 DEF ClaimsInv, ListsKept
    <3>7. Grown(s, t, id) BY <1>2, <3>1, <3>2, ClaimAppended
    <3>3. (\A x : Lists(s, x) => Lists(t, x)) /\ Lists(t, id)
      BY <3>7 DEF Grown
    <3>4. CASE i = id BY <1>4, <1>7, <3>2, <3>3, <3>4
    <3>5. CASE i # id
      <4>1. PICK o \in Holders : o = claims[i].owner /\ claims'[i] = claims[i] /\ Lists(byOwner[o], i)
        BY <1>5, <1>7, <2>3, <3>5 DEF ClaimsInv, ListsKept, ClaimRecord
      <4>2. CASE o = h BY <3>1, <3>2, <3>3, <4>1, <4>2
      <4>3. CASE o # h BY <1>6, <4>1, <4>3
      <4>4. QED BY <4>2, <4>3
    <3>6. QED BY <3>4, <3>5
  <2>4. QED BY <1>7, <2>1, <2>2, <2>3 DEF ListsKept
<1>13. FaceAccounted'
  <2>1. PICK a : a = Faces OBVIOUS
  <2>2. PICK b : b = Faces' OBVIOUS
  <2>3. IsFiniteSet(Active) /\ (\A i \in Active : i \in D) /\ \A i \in Active : a[i] = claims[i].face /\ a[i] \in Int
    BY <1>5, <2>1, ActiveFaces
  <2>4. b[id] = f /\ \A i \in Active \ {id} : b[i] = a[i]
    BY <1>4, <1>7, <2>2, <2>3 DEF Faces
  <2>5. PICK sum \in Int, red \in Int :
          sum = SumFunctionOnSet(a, Active) /\ red = SumFunction(redeemed)
    BY <2>1, ActiveFaces
  <2>6. issued = sum + red + expired + lost /\ Len(redeemed) = Cardinality(nullifiers)
    BY <2>1, <2>5 DEF ClaimsInv, FaceAccounted
  <2>7. issued \in Int /\ expired \in Int /\ lost \in Int BY DEF ClaimsInv
  <2>8. issued' = SumFunctionOnSet(b, Active \cup {id}) + red + expired + lost'
    <3>1. CASE id \in Active
      <4>1. Active \cup {id} = Active BY <3>1
      <4>2. \A i \in Active : a[i] \in Int BY <2>3
      <4>3. SumFunctionOnSet(b, Active) = SumFunctionOnSet(a, Active) - a[id] + b[id]
        BY <1>1, <2>3, <2>4, <3>1, <4>2, SumChange
      <4>4. PICK x \in Int : x = a[id] BY <2>3, <3>1
      <4>5. SumFunctionOnSet(b, Active) = sum - x + f BY <2>4, <2>5, <4>3, <4>4
      <4>6. lost' = lost + x BY <1>6, <2>3, <3>1, <4>4
      <4>7. issued' = issued + f BY <1>6
      <4>8. issued' = (sum - x + f) + red + expired + lost' BY <1>1, <2>6, <2>7, <4>6, <4>7
      <4>9. QED BY <4>1, <4>5, <4>8
    <3>2. CASE id \notin Active
      <4>1. (\A i \in Active : a[i] = b[i]) /\ \A i \in Active \cup {id} : b[i] \in Int
        BY <1>1, <2>3, <2>4, <3>2
      <4>2. SumFunctionOnSet(b, Active \cup {id}) = b[id] + SumFunctionOnSet(b, Active)
        BY <2>3, <3>2, <4>1, SumAdd
      <4>3. SumFunctionOnSet(a, Active) = SumFunctionOnSet(b, Active) BY <2>3, <4>1, SumSame
      <4>4. SumFunctionOnSet(b, Active \cup {id}) = f + sum BY <2>4, <2>5, <4>2, <4>3
      <4>5. lost' = lost /\ issued' = issued + f BY <1>6, <3>2
      <4>6. issued' = (f + sum) + red + expired + lost' BY <1>1, <2>6, <2>7, <4>5
      <4>7. QED BY <4>4, <4>6
    <3>3. QED BY <3>1, <3>2
  <2>9. expired' = expired /\ redeemed' = redeemed /\ nullifiers' = nullifiers BY <1>6
  <2>10. QED BY <1>10, <2>2, <2>5, <2>6, <2>8, <2>9 DEF FaceAccounted
<1>14. issued' \in Int /\ lost' \in Int BY <1>1, <1>6 DEF Active, ClaimsInv, ClaimRecord
<1>15. reused' \subseteq D \cup {id} /\ D \cup {id} \subseteq ClaimID
  BY <1>2, <1>5, <1>6 DEF ClaimsInv
<1>16. ClaimsInv'
  BY <1>6, <1>7, <1>8, <1>9, <1>11, <1>12, <1>13, <1>14, <1>15 DEF ClaimsInv
<1>17. Ended
  <2>1. ASSUME NEW i \in D
        PROVE  /\ ~(claims[i].status = "active" /\ claims'[i].status = "expired")
               /\ claims'[i].status = claims[i].status \/ i \in reused' BY <1>4, <1>6, <1>7, <2>1
  <2>2. QED BY <1>5, <2>1 DEF Ended
<1>19. QED BY <1>16, <1>17

LEMMA TransferKeeps ==
  ASSUME ClaimsInv, NEW id \in DOMAIN claims, NEW from \in Holders, NEW to \in Holders,
         TransferShadowClaim(id, from, to)
  PROVE  ClaimsInv' /\ Ended
<1>1. PICK c : c = claims[id] /\ c \in ClaimRecord /\ c.owner = from /\ c.status = "active"
  BY DEF ClaimsInv, TransferShadowClaim, Active
<1>2. PICK D : D = DOMAIN claims OBVIOUS
<1>3. from # to /\ claims' = [claims EXCEPT ![id].owner = to]
      /\ byOwner' = [byOwner EXCEPT ![from] = Without(@, id), ![to] = Append(@, id)]
      /\ UNCHANGED <<nullifiers, day, mint, issued, redeemed, expired, lost, reused>>
  BY DEF TransferShadowClaim, Moved
<1>4. PICK n : n = [c EXCEPT !.owner = to] OBVIOUS
<1>5. n \in ClaimRecord /\ n.owner = to /\ n.face = c.face /\ n.lock = c.lock /\ n.status = c.status
  BY <1>1, <1>4 DEF ClaimRecord
<1>6. DOMAIN claims' = D /\ claims'[id] = n /\ \A i \in D : i # id => claims'[i] = claims[i]
  BY <1>1, <1>2, <1>3, <1>4
<1>7. \A i \in D : claims'[i] \in ClaimRecord /\ claims'[i].face = claims[i].face
                   /\ claims'[i].lock = claims[i].lock /\ claims'[i].status = claims[i].status
  BY <1>1, <1>2, <1>5, <1>6 DEF ClaimsInv
<1>8. Active' = Active BY <1>2, <1>6, <1>7 DEF Active
<1>9. \A i \in Active : i \in D BY <1>2 DEF Active
<1>10. OneClaimPerLock' BY <1>7, <1>8, <1>9 DEF ClaimsInv, OneClaimPerLock
<1>11. FaceAccounted'
  <2>1. PICK a : a = Faces OBVIOUS
  <2>2. PICK b : b = Faces' OBVIOUS
  <2>3. a = b BY <1>2, <1>6, <1>7, <2>1, <2>2 DEF Faces
  <2>4. QED BY <1>3, <1>8, <2>1, <2>2, <2>3 DEF ClaimsInv, FaceAccounted
<1>12. PICK s : s = byOwner[from] OBVIOUS
<1>13. PICK u : u = byOwner[to] OBVIOUS
<1>14. ListOf(s, from, claims, reused) /\ ListOf(u, to, claims, reused)
  BY <1>12, <1>13 DEF ClaimsInv, ListsKept
<1>15. s \in Seq(ClaimID) /\ u \in Seq(ClaimID) /\ id \in ClaimID
  BY <1>14 DEF ListOf, ClaimsInv
<1>16. PICK t : t = Without(s, id) OBVIOUS
<1>17. PICK v : v = Append(u, id) OBVIOUS
<1>18. /\ byOwner'[from] = t /\ byOwner'[to] = v /\ DOMAIN byOwner' = Holders
       /\ \A g \in Holders : g # from /\ g # to => byOwner'[g] = byOwner[g]
  BY <1>3, <1>12, <1>13, <1>16, <1>17 DEF ClaimsInv, ListsKept
<1>19. /\ t \in Seq(ClaimID)
       /\ \A k \in DOMAIN t : \E j \in DOMAIN s : t[k] = s[j]
       /\ \A k \in DOMAIN s : s[k] # id => \E j \in DOMAIN t : t[j] = s[k]
       /\ \A x : Once(s, x) => Once(t, x)
       /\ Once(s, id) => \A k \in DOMAIN t : t[k] # id
  BY <1>15, <1>16, WithoutIs
<1>28. Grown(u, v, id) BY <1>15, <1>17, ClaimAppended
<1>20. /\ v \in Seq(ClaimID)
       /\ \A k \in DOMAIN v : v[k] = id \/ \E j \in DOMAIN u : v[k] = u[j]
       /\ \A x : Lists(u, x) => Lists(v, x)
       /\ Lists(v, id)
       /\ \A x : Once(u, x) /\ (x # id \/ \A k \in DOMAIN u : u[k] # id) => Once(v, x)
  BY <1>28 DEF Grown
\* In the list of another the claim is only if its ID was reused.
<1>21. ASSUME NEW g \in Holders, g # from, NEW k \in DOMAIN byOwner[g], byOwner[g][k] = id
       PROVE  id \in reused
  <2>1. ListOf(byOwner[g], g, claims, reused) BY DEF ClaimsInv, ListsKept
  <2>2. id \in reused \/ claims[id].owner = g BY <1>21, <2>1 DEF ListOf
  <2>3. QED BY <1>1, <1>21, <2>2
<1>22. ASSUME NEW g \in Holders PROVE ListOf(byOwner'[g], g, claims', reused)
  <2>1. CASE g = from
    <3>1. \A k \in DOMAIN t : t[k] \in D /\ (t[k] \in reused \/ claims'[t[k]].owner = from)
      <4>1. TAKE k \in DOMAIN t
      <4>2. PICK j \in DOMAIN s : t[k] = s[j] BY <1>19
      <4>3. s[j] \in D /\ (s[j] \in reused \/ claims[s[j]].owner = from) BY <1>2, <1>14 DEF ListOf
      <4>4. CASE t[k] = id /\ id \notin reused
        <5>1. Once(s, id) BY <1>14, <4>4 DEF ListOf
        <5>2. QED BY <1>19, <4>4, <5>1
      <4>5. CASE t[k] # id BY <1>6, <4>2, <4>3, <4>5
      <4>6. QED BY <4>2, <4>3, <4>4, <4>5
    <3>2. \A x \in D : x \notin reused => Once(t, x) BY <1>2, <1>14, <1>19 DEF ListOf
    <3>3. QED BY <1>6, <1>18, <1>19, <2>1, <3>1, <3>2 DEF ListOf
  <2>2. CASE g = to
    <3>1. \A k \in DOMAIN v : v[k] \in D /\ (v[k] \in reused \/ claims'[v[k]].owner = to)
      <4>1. TAKE k \in DOMAIN v
      <4>2. CASE v[k] = id BY <1>2, <1>5, <1>6, <4>2
      <4>3. CASE v[k] # id
        <5>1. PICK j \in DOMAIN u : v[k] = u[j] BY <1>20, <4>3
        <5>2. u[j] \in D /\ (u[j] \in reused \/ claims[u[j]].owner = to) BY <1>2, <1>14 DEF ListOf
        <5>3. QED BY <1>6, <4>3, <5>1, <5>2
      <4>4. QED BY <4>2, <4>3
    <3>2. id \in reused \/ \A k \in DOMAIN u : u[k] # id BY <1>3, <1>13, <1>21
    <3>3. \A x \in D : x \notin reused => Once(v, x) BY <1>2, <1>14, <1>20, <3>2 DEF ListOf
    <3>4. QED BY <1>6, <1>18, <1>20, <2>2, <3>1, <3>3 DEF ListOf
  <2>3. CASE g # from /\ g # to
    <3>1. PICK w : w = byOwner[g] OBVIOUS
    <3>2. ListOf(w, g, claims, reused) BY <3>1 DEF ClaimsInv, ListsKept
    <3>3. \A k \in DOMAIN w : w[k] \in D /\ (w[k] \in reused \/ claims'[w[k]].owner = g)
      <4>1. TAKE k \in DOMAIN w
      <4>2. CASE w[k] = id BY <1>2, <1>21, <2>3, <3>1, <4>2
      <4>3. CASE w[k] # id BY <1>2, <1>6, <3>2, <4>3 DEF ListOf
      <4>4. QED BY <4>2, <4>3
    <3>4. QED BY <1>2, <1>6, <1>18, <2>3, <3>1, <3>2, <3>3 DEF ListOf
  <2>4. QED BY <2>1, <2>2, <2>3
<1>23. ASSUME NEW i \in D PROVE Lists(byOwner'[claims'[i].owner], i)
  <2>1. CASE i = id
    <3>1. claims'[i].owner = to BY <1>5, <1>6, <2>1
    <3>2. Lists(v, id) BY <1>20
    <3>3. QED BY <1>18, <2>1, <3>1, <3>2
  <2>2. CASE i # id
    <3>1. PICK o \in Holders : o = claims[i].owner /\ claims'[i] = claims[i] /\ Lists(byOwner[o], i)
      BY <1>2, <1>6, <2>2 DEF ClaimsInv, ListsKept, ClaimRecord
    <3>2. CASE o = from
      <4>1. PICK k \in DOMAIN s : s[k] = i BY <1>12, <3>1, <3>2 DEF Lists
      <4>2. Lists(t, i) BY <1>19, <2>2, <4>1 DEF Lists
      <4>3. QED BY <1>18, <3>1, <3>2, <4>2
    <3>3. CASE o = to
      <4>1. Lists(u, i) BY <1>13, <3>1, <3>3
      <4>2. Lists(v, i) BY <1>20, <4>1
      <4>3. QED BY <1>18, <3>1, <3>3, <4>2
    <3>4. CASE o # from /\ o # to
      <4>1. byOwner'[o] = byOwner[o] BY <1>18, <3>4
      <4>2. QED BY <3>1, <4>1
    <3>5. QED BY <3>2, <3>3, <3>4
  <2>3. QED BY <2>1, <2>2
<1>24. ListsKept' BY <1>3, <1>6, <1>18, <1>22, <1>23 DEF ListsKept
<1>25. ClaimsInv' BY <1>2, <1>3, <1>6, <1>7, <1>10, <1>11, <1>24 DEF ClaimsInv
<1>26. Ended BY <1>2, <1>7 DEF Ended
<1>27. QED BY <1>25, <1>26

(* Claims that cease to be active, their owners and lists staying.         *)
LEMMA CeaseKeeps ==
  ASSUME ClaimsInv, NEW S \in SUBSET Active,
         DOMAIN claims' = DOMAIN claims,
         \A i \in DOMAIN claims \ S : claims'[i] = claims[i],
         \A i \in S : /\ claims'[i] \in ClaimRecord /\ claims'[i].owner = claims[i].owner
                      /\ claims'[i].status # "active",
         UNCHANGED <<byOwner, day, mint, issued, lost, reused>>
  PROVE  /\ Active' = Active \ S /\ OneClaimPerLock' /\ ListsKept'
         /\ \A i \in DOMAIN claims : claims'[i] \in ClaimRecord /\ claims'[i].owner = claims[i].owner
         /\ SumFunctionOnSet(Faces, Active) = SumFunctionOnSet(Faces, S) + SumFunctionOnSet(Faces', Active')
         /\ SumFunctionOnSet(Faces, S) \in Int /\ SumFunctionOnSet(Faces', Active') \in Int
<1>1. PICK D : D = DOMAIN claims OBVIOUS
<1>2. \A i \in D : claims'[i] \in ClaimRecord /\ claims'[i].owner = claims[i].owner
  BY <1>1 DEF ClaimsInv
<1>3. Active' = Active \ S BY <1>1 DEF Active
<1>4. \A i \in Active \ S : i \in D /\ claims'[i] = claims[i] BY <1>1 DEF Active
<1>5. OneClaimPerLock' BY <1>3, <1>4 DEF ClaimsInv, OneClaimPerLock
<1>6. ListsKept'
  <2>1. ASSUME NEW g \in Holders PROVE ListOf(byOwner[g], g, claims', reused)
    BY <1>1, <1>2 DEF ClaimsInv, ListsKept, ListOf
  <2>2. QED BY <1>1, <1>2, <2>1 DEF ClaimsInv, ListsKept
<1>7. PICK a : a = Faces OBVIOUS
<1>8. PICK b : b = Faces' OBVIOUS
<1>9. PICK R : R = Active \ S OBVIOUS
<1>10. IsFiniteSet(Active) /\ \A i \in Active : a[i] \in Int BY <1>7, ActiveFaces
<1>11. IsFiniteSet(S) /\ IsFiniteSet(R) /\ S \cap R = {} /\ S \cup R = Active
  BY <1>9, <1>10, FS_Subset
<1>12. SumFunctionOnSet(a, S \cup R) = SumFunctionOnSet(a, S) + SumFunctionOnSet(a, R) BY <1>10, <1>11, SumUnion
<1>13. \A i \in R : a[i] = b[i] BY <1>1, <1>4, <1>7, <1>8, <1>9 DEF Faces
<1>14. SumFunctionOnSet(a, R) = SumFunctionOnSet(b, R) BY <1>11, <1>13, SumSame
<1>15. SumFunctionOnSet(a, S) \in Int /\ SumFunctionOnSet(a, R) \in Int BY <1>10, <1>11, SumType
<1>16. SumFunctionOnSet(Faces', Active') = SumFunctionOnSet(b, R) BY <1>3, <1>8, <1>9
<1>17. QED
  BY <1>1, <1>2, <1>3, <1>5, <1>6, <1>7, <1>11, <1>12, <1>14, <1>15, <1>16

LEMMA RedeemKeeps ==
  ASSUME ClaimsInv, NEW id \in DOMAIN claims, NEW who \in Holders, NEW n \in Nullifiers,
         RedeemShadowClaim(id, who, n)
  PROVE  ClaimsInv' /\ Ended
<1>1. PICK c : c = claims[id] /\ c \in ClaimRecord /\ c.status = "active" /\ id \in Active
  BY DEF ClaimsInv, RedeemShadowClaim, Active
<1>2. PICK x \in Int : x = c.face BY <1>1 DEF ClaimRecord
<1>3. /\ claims' = [claims EXCEPT ![id].status = "redeemed"] /\ redeemed' = Append(redeemed, x)
      /\ nullifiers' = nullifiers \cup {n} /\ n \notin nullifiers
      /\ UNCHANGED <<byOwner, day, mint, issued, expired, lost, reused>>
  BY <1>1, <1>2 DEF RedeemShadowClaim
<1>4. PICK m : m = [c EXCEPT !.status = "redeemed"] OBVIOUS
<1>5. m \in ClaimRecord /\ m.owner = c.owner /\ m.status = "redeemed" BY <1>1, <1>4 DEF ClaimRecord
<1>6. DOMAIN claims' = DOMAIN claims /\ claims'[id] = m
      /\ \A i \in DOMAIN claims \ {id} : claims'[i] = claims[i]
  BY <1>1, <1>3, <1>4
<1>7. {id} \in SUBSET Active BY <1>1
<1>8. \A i \in {id} : /\ claims'[i] \in ClaimRecord /\ claims'[i].owner = claims[i].owner
                      /\ claims'[i].status # "active"
  BY <1>1, <1>5, <1>6
<1>9. UNCHANGED <<byOwner, day, mint, issued, lost, reused>> BY <1>3
<1>10. /\ Active' = Active \ {id} /\ OneClaimPerLock' /\ ListsKept'
       /\ \A i \in DOMAIN claims : claims'[i] \in ClaimRecord
       /\ SumFunctionOnSet(Faces, Active) = SumFunctionOnSet(Faces, {id}) + SumFunctionOnSet(Faces', Active')
       /\ SumFunctionOnSet(Faces', Active') \in Int
  BY <1>6, <1>7, <1>8, <1>9, CeaseKeeps
<1>11. SumFunctionOnSet(Faces, {id}) = x BY <1>1, <1>2, SumOne DEF Faces
<1>12. redeemed \in Seq(Int) BY DEF ClaimsInv
<1>13. PICK r : r = redeemed /\ r \in Seq(Int) BY <1>12
<1>14. SumFunction(Append(r, x)) = SumFunction(r) + x BY <1>13, SumOfAppend
<1>15. Append(r, x) \in Seq(Int) /\ Len(Append(r, x)) = Len(r) + 1 /\ Len(r) \in Nat BY <1>13
<1>16. IsFiniteSet(nullifiers \cup {n}) /\ Cardinality(nullifiers \cup {n}) = Cardinality(nullifiers) + 1
  BY <1>3, FS_AddElement DEF ClaimsInv
<1>17. FaceAccounted'
  <2>1. PICK new \in Int : new = SumFunctionOnSet(Faces', Active') BY <1>10
  <2>2. PICK red \in Int : red = SumFunction(redeemed) BY ActiveFaces
  <2>3. SumFunctionOnSet(Faces, Active) = x + new BY <1>10, <1>11, <2>1
  <2>4. issued = (x + new) + red + expired + lost /\ Len(redeemed) = Cardinality(nullifiers)
    BY <2>2, <2>3 DEF ClaimsInv, FaceAccounted
  <2>5. issued \in Int /\ expired \in Int /\ lost \in Int BY DEF ClaimsInv
  <2>6. SumFunction(redeemed') = red + x BY <1>3, <1>13, <1>14, <2>2
  <2>7. issued = new + (red + x) + expired + lost BY <2>4, <2>5
  <2>8. Len(redeemed') = Cardinality(nullifiers') BY <1>3, <1>13, <1>15, <1>16, <2>4
  <2>9. issued' = issued /\ expired' = expired /\ lost' = lost BY <1>3
  <2>10. QED BY <2>1, <2>6, <2>7, <2>8, <2>9 DEF FaceAccounted
<1>18. redeemed' \in Seq(Int) BY <1>3, <1>13, <1>15
<1>19. IsFiniteSet(nullifiers') BY <1>3, <1>16
<1>20. ClaimsInv' BY <1>3, <1>6, <1>10, <1>17, <1>18, <1>19 DEF ClaimsInv
<1>21. Ended
  <2>1. ASSUME NEW i \in DOMAIN claims
        PROVE  /\ ~(claims[i].status = "active" /\ claims'[i].status = "expired")
               /\ claims[i].status # "active" => claims'[i].status = claims[i].status BY <1>1, <1>5, <1>6
  <2>2. QED BY <2>1 DEF Ended
<1>22. QED BY <1>20, <1>21

LEMMA ExpireKeeps == ASSUME ClaimsInv, ExpireClaims PROVE ClaimsInv' /\ Ended
<1>1. Old \in SUBSET Active BY DEF Old
<1>2. \A i \in Active : i \in DOMAIN claims /\ claims[i] \in ClaimRecord BY DEF Active, ClaimsInv
<1>3. /\ claims' = [i \in DOMAIN claims |->
           IF i \in Old THEN [claims[i] EXCEPT !.status = "expired"] ELSE claims[i]]
      /\ expired' = expired + SumFunctionOnSet(Faces, Old)
      /\ UNCHANGED <<byOwner, nullifiers, day, mint, issued, redeemed, lost, reused>>
  BY DEF ExpireClaims
<1>4. DOMAIN claims' = DOMAIN claims /\ \A i \in DOMAIN claims \ Old : claims'[i] = claims[i]
  BY <1>3
<1>5. \A i \in Old : /\ claims'[i] \in ClaimRecord /\ claims'[i].owner = claims[i].owner
                     /\ claims'[i].status = "expired"
  <2>1. TAKE i \in Old
  <2>2. PICK c \in ClaimRecord : c = claims[i] /\ i \in DOMAIN claims BY <1>1, <1>2
  <2>3. claims'[i] = [c EXCEPT !.status = "expired"] BY <1>3, <2>2
  <2>4. QED BY <2>2, <2>3 DEF ClaimRecord
<1>6. \A i \in Old : /\ claims'[i] \in ClaimRecord /\ claims'[i].owner = claims[i].owner
                     /\ claims'[i].status # "active"
  BY <1>5
<1>7. UNCHANGED <<byOwner, day, mint, issued, lost, reused>> BY <1>3
<1>8. /\ Active' = Active \ Old /\ OneClaimPerLock' /\ ListsKept'
      /\ \A i \in DOMAIN claims : claims'[i] \in ClaimRecord
      /\ SumFunctionOnSet(Faces, Active) = SumFunctionOnSet(Faces, Old) + SumFunctionOnSet(Faces', Active')
      /\ SumFunctionOnSet(Faces, Old) \in Int /\ SumFunctionOnSet(Faces', Active') \in Int
  BY <1>1, <1>4, <1>6, <1>7, CeaseKeeps
<1>9. FaceAccounted' /\ expired' \in Int
  <2>1. PICK new \in Int : new = SumFunctionOnSet(Faces', Active') BY <1>8
  <2>2. PICK old \in Int : old = SumFunctionOnSet(Faces, Old) BY <1>8
  <2>3. PICK red \in Int : red = SumFunction(redeemed) BY ActiveFaces
  <2>4. SumFunctionOnSet(Faces, Active) = old + new BY <1>8, <2>1, <2>2
  <2>5. issued = (old + new) + red + expired + lost /\ Len(redeemed) = Cardinality(nullifiers)
    BY <2>3, <2>4 DEF ClaimsInv, FaceAccounted
  <2>6. issued \in Int /\ expired \in Int /\ lost \in Int BY DEF ClaimsInv
  <2>7. expired' = expired + old BY <1>3, <2>2
  <2>8. issued = new + red + expired' + lost BY <2>5, <2>6, <2>7
  <2>9. issued' = issued /\ redeemed' = redeemed /\ lost' = lost /\ nullifiers' = nullifiers BY <1>3
  <2>10. FaceAccounted' BY <2>1, <2>3, <2>5, <2>8, <2>9 DEF FaceAccounted
  <2>11. QED BY <2>6, <2>7, <2>10
<1>10. ClaimsInv' BY <1>3, <1>4, <1>8, <1>9 DEF ClaimsInv
<1>11. Ended
  <2>1. ASSUME NEW i \in DOMAIN claims
        PROVE  /\ claims[i].status = "active" /\ claims'[i].status = "expired"
                    => day - claims[i].release > Week
               /\ claims[i].status # "active" => claims'[i].status = claims[i].status
    <3>1. CASE i \in Old BY <3>1, ClaimsAssumption DEF Old, Active, ClaimsInv, ClaimRecord
    <3>2. CASE i \notin Old BY <1>4, <2>1, <3>2
    <3>3. QED BY <3>1, <3>2
  <2>2. QED BY <2>1 DEF Ended
<1>12. QED BY <1>10, <1>11

LEMMA ClaimsStep == ClaimsInv /\ (ClaimsNext \/ UNCHANGED claimsVars) => ClaimsInv' /\ Ended
<1>. SUFFICES ASSUME ClaimsInv, ClaimsNext \/ UNCHANGED claimsVars PROVE ClaimsInv' /\ Ended
  OBVIOUS
<1>1. CASE /\ UNCHANGED <<claims, byOwner, nullifiers, issued, redeemed, expired, lost, reused>>
           /\ day' \in Nat /\ mint' \in Nat
  BY <1>1 DEF Active, Faces, ClaimsInv, OneClaimPerLock, ListsKept, FaceAccounted, Ended
<1>2. CASE Pass BY <1>1, <1>2 DEF Pass, ClaimsInv
<1>3. CASE UNCHANGED claimsVars BY <1>1, <1>3 DEF claimsVars, ClaimsInv
<1>4. CASE ExpireClaims BY <1>4, ExpireKeeps
<1>5. ASSUME NEW h \in Holders, NEW l \in Locks, NEW f \in FaceValues, NEW r \in 1..LastDay,
             IssueShadowClaim(h, l, f, r)
      PROVE  ClaimsInv' /\ Ended BY <1>5, ClaimsAssumption, IssueKeeps
<1>6. ASSUME NEW i \in DOMAIN claims, NEW h \in Holders, NEW g \in Holders, TransferShadowClaim(i, h, g)
      PROVE  ClaimsInv' /\ Ended
  BY <1>6, TransferKeeps
<1>7. ASSUME NEW i \in DOMAIN claims, NEW h \in Holders, NEW n \in Nullifiers, RedeemShadowClaim(i, h, n)
      PROVE  ClaimsInv' /\ Ended
  BY <1>7, RedeemKeeps
<1>8. QED BY <1>2, <1>3, <1>4, <1>5, <1>6, <1>7 DEF ClaimsNext

LEMMA ClaimsAre == ClaimsInv => OneClaimPerLock /\ OwnersListed /\ FaceAccounted
<1>. SUFFICES ASSUME ClaimsInv PROVE OwnersListed BY DEF ClaimsInv
<1>1. QED BY DEF ClaimsInv, ListsKept, ListOf, Lists, OwnersListed

(* Debts are taken once and never under appeal, and of every lock there is *)
(* one claim that its owner finds and that ends for good: for any debtors, *)
(* chains of guarantors, rates that do not fall, holders and dates.        *)
(* x/brightchain/keeper/recourse.go and shadow_claim.go.                   *)
THEOREM DefaultsAreSound == DefaultsSpec => DefaultsSound
<1>1. DefaultsInit => RecourseInv /\ ClaimsInv BY RecourseStart, ClaimsStart DEF DefaultsInit
<1>2. RecourseInv /\ ClaimsInv /\ [DefaultsNext]_<<recourseVars, claimsVars>>
        => RecourseInv' /\ ClaimsInv'
  BY RecourseStep, ClaimsStep DEF DefaultsNext
<1>3. RecourseInv => DebtsAccounted BY RecourseIs
<1>4. ClaimsInv => OneClaimPerLock /\ OwnersListed /\ FaceAccounted BY ClaimsAre
<1>5. RecourseInv /\ [DefaultsNext]_<<recourseVars, claimsVars>> => [ChargedInTime]_recourseVars
  BY RecourseStep DEF DefaultsNext
<1>6. ClaimsInv /\ [DefaultsNext]_<<recourseVars, claimsVars>> => [Ended]_claimsVars
  BY ClaimsStep DEF DefaultsNext
<1>7. DefaultsSpec => RecourseSound
  BY <1>1, <1>2, <1>3, <1>5, PTL DEF DefaultsSpec, RecourseSound, AppealHolds, ChargedInTime
<1>8. DefaultsSpec => ClaimsSound
  BY <1>1, <1>2, <1>4, <1>6, PTL DEF DefaultsSpec, ClaimsSound, ClaimsEnd, Ended
<1>9. QED BY <1>7, <1>8 DEF DefaultsSound
=============================================================================
