----------------------------- MODULE Bright_proofs ---------------------------
(***************************************************************************)
(* Proofs about the bright chain: the random beacon and the epochs of its  *)
(* validators, the votes on its parameters, its users and their governance *)
(* by the hooks of every block; and about the parties and leaderboards of  *)
(* its game.  Only the governance writes what another part, the users,     *)
(* reads.                                                                  *)
(***************************************************************************)
EXTENDS Governance, Params, Validators, Parties, Sums, SequenceTheorems

-----------------------------------------------------------------------------
(* The random beacon.  A reveal stands for a commitment made before, and   *)
(* none comes after the window; a value is what was revealed.              *)
Opened(n, f) ==
  \A p \in DOMAIN f : p \in DOMAIN committed[n] /\ f[p] = committed[n][p]

BeaconInv ==
  /\ clock \in 0..EndTime
  /\ DOMAIN committed = Keepers /\ DOMAIN revealed = Keepers /\ DOMAIN value = Keepers
  /\ DOMAIN afterwards = Keepers /\ DOMAIN finalizedAt = Keepers
  /\ \A n \in Keepers :
       /\ Opened(n, revealed[n]) /\ Opened(n, value[n])
       /\ revealed[n] # <<>> => clock >= CommitWindow
       /\ finalizedAt[n] \in Nat
       /\ Complete(n) => finalizedAt[n] <= clock
       /\ Complete(n) /\ finalizedAt[n] > CommitWindow + RevealWindow => value[n] = revealed[n]
       /\ afterwards[n] \subseteq {CommitWindow}

LEMMA BeaconStart == RandBeaconInit => BeaconInv
<1>. SUFFICES ASSUME RandBeaconInit PROVE BeaconInv OBVIOUS
<1>1. {CommitWindow, RevealWindow, EndTime} \subseteq Nat BY RandBeaconAssumption
<1>2. DOMAIN << >> = {} OBVIOUS
<1>3. QED BY <1>1, <1>2 DEF RandBeaconInit, BeaconInv, Opened, Complete, Never

LEMMA BeaconStep == BeaconInv /\ (RandBeaconNext \/ UNCHANGED beaconVars) => BeaconInv'
<1>. SUFFICES ASSUME BeaconInv, RandBeaconNext \/ UNCHANGED beaconVars PROVE BeaconInv' OBVIOUS
<1>. USE DEF BeaconInv
<1>1. CommitWindow \in Nat /\ RevealWindow \in Nat /\ EndTime \in Nat BY RandBeaconAssumption
<1>2. CASE PassTime
  BY <1>1, <1>2 DEF PassTime, Opened, Complete, Never
<1>3. ASSUME NEW n \in Keepers, Finalize(n) PROVE BeaconInv'
  <2>1. clock # Never BY <1>1 DEF Never
  <2>2. ASSUME NEW m \in Keepers
        PROVE  /\ Opened(m, revealed[m])' /\ Opened(m, value[m])'
               /\ (finalizedAt[m] \in Nat)' /\ (Complete(m) => finalizedAt[m] <= clock)'
               /\ (Complete(m) /\ finalizedAt[m] > CommitWindow + RevealWindow
                     => value[m] = revealed[m])' BY <1>1, <1>3, <2>1 DEF Finalize, Opened, Complete
  <2>3. QED BY <1>3, <2>2 DEF Finalize
<1>4. ASSUME NEW n \in Keepers, NEW p \in Participants, NEW s \in Seeds,
             SubmitCommitment(n, p, s)
      PROVE  BeaconInv'
  <2>1. ASSUME NEW m \in Keepers
        PROVE  /\ Opened(m, revealed[m])' /\ Opened(m, value[m])'
               /\ afterwards'[m] \subseteq {CommitWindow}
    <3>1. CASE m = n BY <1>1, <1>4, <3>1 DEF SubmitCommitment, Set, InTime, Opened
    <3>2. CASE m # n BY <1>4, <3>2 DEF SubmitCommitment, Opened
    <3>3. QED BY <3>1, <3>2
  <2>2. QED BY <1>4, <2>1 DEF SubmitCommitment, Complete
<1>5. ASSUME NEW n \in Keepers, NEW p \in Participants, NEW s \in Seeds, SubmitReveal(n, p, s)
      PROVE  BeaconInv'
  <2>1. ASSUME NEW m \in Keepers
        PROVE  /\ Opened(m, revealed[m])'
               /\ (revealed[m] # <<>> => clock >= CommitWindow)'
               /\ (Complete(m) /\ finalizedAt[m] > CommitWindow + RevealWindow
                     => value[m] = revealed[m])'
    <3>1. CASE m = n BY <1>1, <1>5, <3>1 DEF SubmitReveal, Opened, Set, Matches, Revealing, Complete
    <3>2. CASE m # n BY <1>5, <3>2 DEF SubmitReveal, Opened, Complete
    <3>3. QED BY <3>1, <3>2
  <2>2. QED BY <1>5, <2>1 DEF SubmitReveal, Opened, Complete
<1>6. CASE UNCHANGED beaconVars BY <1>6 DEF beaconVars, Opened, Complete
<1>7. QED BY <1>2, <1>3, <1>4, <1>5, <1>6 DEF RandBeaconNext

LEMMA BeaconIs == BeaconInv => EarlyIsTheOnlyFork /\ CommitsAreBlind /\ ValueCommitted
<1>. SUFFICES ASSUME BeaconInv PROVE EarlyIsTheOnlyFork /\ CommitsAreBlind /\ ValueCommitted
  OBVIOUS
<1>1. EarlyIsTheOnlyFork BY DEF BeaconInv, EarlyIsTheOnlyFork, DefaultParticipants
<1>2. QED BY <1>1 DEF BeaconInv, CommitsAreBlind, ValueCommitted, Opened

LEMMA ValueStays ==
  ASSUME BeaconInv, RandBeaconNext, NEW n \in Keepers, Complete(n)
  PROVE  value'[n] = value[n]
BY DEF BeaconInv, RandBeaconNext, PassTime, Finalize, SubmitCommitment, SubmitReveal

-----------------------------------------------------------------------------
(* The epochs.  A side lived in no epoch after its own, and a number on    *)
(* its way is one its side had.                                            *)
SideCount == [epoch : Nat, block : Nat, isolations : Nat, last : Nat]

EpochInv ==
  /\ counter \in [Sides -> SideCount]
  /\ DOMAIN lived = Sides
  /\ \A s \in Sides : \A e \in lived[s] : e \in Nat /\ e <= counter[s].epoch
  /\ \A m \in told : m.by \in Sides /\ m.epoch \in Nat
  /\ MergesCount /\ EpochsCountBlocks

LEMMA PerEpochType == PerEpoch \in Nat /\ PerEpoch # 0 /\ \A b \in Nat : b \div PerEpoch \in Int
BY GlobalEpochsAssumption, DivisionWithRest

LEMMA EpochStart == GlobalEpochsInit => EpochInv
<1>. SUFFICES ASSUME GlobalEpochsInit PROVE EpochInv OBVIOUS
<1>1. 0 \div PerEpoch = 0 BY PerEpochType
<1>2. QED BY <1>1 DEF GlobalEpochsInit, EpochInv, SideCount, MergesCount, EpochsCountBlocks

\* The counter of one side after a step of it.
LEMMA AdvanceCounts ==
  ASSUME EpochInv, NEW s \in Sides, AdvanceBlock(s)
  PROVE  \E b \in Nat, e \in Nat :
           /\ b = counter[s].block + 1
           /\ e = IF b % PerEpoch = 0 THEN counter[s].epoch + 1 ELSE counter[s].epoch
           /\ counter' = [counter EXCEPT ![s].block = b, ![s].epoch = e]
           /\ lived' = [lived EXCEPT ![s] = @ \cup {e}] /\ told' = told
<1>1. counter[s].block \in Nat /\ counter[s].epoch \in Nat BY DEF EpochInv, SideCount
<1>2. PICK b \in Nat : b = counter[s].block + 1 BY <1>1
<1>3. PICK e \in Nat : e = IF b % PerEpoch = 0 THEN counter[s].epoch + 1 ELSE counter[s].epoch
  BY <1>1
<1>4. QED BY <1>2, <1>3 DEF AdvanceBlock, Enter

LEMMA MergeCounts ==
  ASSUME EpochInv, NEW s \in Sides, NEW m \in told, MergeEpoch(s, m)
  PROVE  \E e \in Nat :
           /\ e > counter[s].epoch /\ e > m.epoch
           /\ counter' = [counter EXCEPT ![s].epoch = e, ![s].last = counter[s].epoch,
                                         ![s].isolations = @ + 1]
           /\ lived' = [lived EXCEPT ![s] = @ \cup {e}] /\ told' = told
<1>1. m.epoch \in Nat /\ counter[s].epoch \in Nat BY DEF EpochInv, SideCount
<1>2. PICK e \in Nat : e = After(counter[s].epoch, m.epoch) BY <1>1 DEF After
<1>3. e > counter[s].epoch /\ e > m.epoch BY <1>1, <1>2 DEF After
<1>4. QED BY <1>2, <1>3 DEF MergeEpoch, Enter

LEMMA EpochStep == EpochInv /\ (GlobalEpochsNext \/ UNCHANGED epochVars) => EpochInv'
<1>. SUFFICES ASSUME EpochInv, GlobalEpochsNext \/ UNCHANGED epochVars PROVE EpochInv' OBVIOUS
<1>1. ASSUME NEW s \in Sides, AdvanceBlock(s) PROVE EpochInv'
  <2>1. PICK b \in Nat, e \in Nat :
           /\ b = counter[s].block + 1
           /\ e = IF b % PerEpoch = 0 THEN counter[s].epoch + 1 ELSE counter[s].epoch
           /\ counter' = [counter EXCEPT ![s].block = b, ![s].epoch = e]
           /\ lived' = [lived EXCEPT ![s] = @ \cup {e}] /\ told' = told
    BY <1>1, AdvanceCounts
  <2>2. counter[s] \in SideCount BY DEF EpochInv
  <2>3. PICK c \in SideCount : c = counter[s] BY <2>2
  <2>4. counter'[s] = [c EXCEPT !.block = b, !.epoch = e] BY <2>1, <2>3 DEF EpochInv
  <2>5. counter'[s] \in SideCount /\ counter'[s].block = b /\ counter'[s].epoch = e
        /\ counter'[s].isolations = c.isolations
    BY <2>4 DEF SideCount
  <2>6. \A q \in Sides : q # s => counter'[q] = counter[q] BY <2>1 DEF EpochInv
  <2>7. c.block \in Nat /\ c.epoch \in Nat /\ c.isolations \in Nat BY DEF SideCount
  <2>8. b \div PerEpoch = IF b % PerEpoch = 0 THEN (c.block \div PerEpoch) + 1 ELSE c.block \div PerEpoch
    BY <2>1, <2>3, <2>7, PerEpochType, NextQuotient
  <2>9. PICK o \in Int : o = c.block \div PerEpoch BY <2>7, PerEpochType
  <2>10. PICK n \in Int : n = b \div PerEpoch BY PerEpochType
  <2>11. c.epoch >= o + c.isolations /\ (c.isolations = 0 => c.epoch = o)
    BY <2>3, <2>9 DEF EpochInv, MergesCount, EpochsCountBlocks
  <2>12. e >= n + c.isolations /\ (c.isolations = 0 => e = n) /\ e >= c.epoch
    BY <2>1, <2>3, <2>7, <2>8, <2>9, <2>10, <2>11
  <2>13. MergesCount' /\ EpochsCountBlocks'
    <3>1. ASSUME NEW q \in Sides
          PROVE  /\ (counter[q].epoch >= counter[q].block \div PerEpoch + counter[q].isolations)'
                 /\ (counter[q].isolations = 0 => counter[q].epoch = counter[q].block \div PerEpoch)'
      BY <2>5, <2>6, <2>10, <2>12 DEF EpochInv, MergesCount, EpochsCountBlocks
    <3>2. QED BY <3>1 DEF MergesCount, EpochsCountBlocks
  <2>14. counter' \in [Sides -> SideCount] BY <2>1, <2>5, <2>6 DEF EpochInv
  <2>15. ASSUME NEW q \in Sides, NEW x \in lived'[q] PROVE x \in Nat /\ x <= counter'[q].epoch
    <3>1. CASE q = s
      <4>1. x = e \/ x \in lived[s] BY <2>1, <2>15, <3>1 DEF EpochInv
      <4>2. CASE x = e BY <2>5, <3>1, <4>2
      <4>3. CASE x \in lived[s] BY <2>3, <2>5, <2>7, <2>12, <3>1, <4>3 DEF EpochInv
      <4>4. QED BY <4>1, <4>2, <4>3
    <3>2. CASE q # s BY <2>1, <2>6, <2>15, <3>2 DEF EpochInv
    <3>3. QED BY <3>1, <3>2
  <2>16. QED BY <2>1, <2>13, <2>14, <2>15 DEF EpochInv
<1>2. ASSUME NEW s \in Sides, Tell(s) PROVE EpochInv'
  BY <1>2 DEF Tell, EpochInv, SideCount, MergesCount, EpochsCountBlocks
<1>3. ASSUME NEW s \in Sides, NEW m \in told, MergeEpoch(s, m) PROVE EpochInv'
  <2>1. PICK e \in Nat :
           /\ e > counter[s].epoch /\ e > m.epoch
           /\ counter' = [counter EXCEPT ![s].epoch = e, ![s].last = counter[s].epoch,
                                         ![s].isolations = @ + 1]
           /\ lived' = [lived EXCEPT ![s] = @ \cup {e}] /\ told' = told
    BY <1>3, MergeCounts
  <2>2. PICK c \in SideCount : c = counter[s] BY DEF EpochInv
  <2>3. c.block \in Nat /\ c.epoch \in Nat /\ c.isolations \in Nat BY DEF SideCount
  <2>4. counter'[s] = [c EXCEPT !.epoch = e, !.last = c.epoch, !.isolations = @ + 1]
    BY <2>1, <2>2 DEF EpochInv
  <2>5. counter'[s] \in SideCount /\ counter'[s].block = c.block /\ counter'[s].epoch = e
        /\ counter'[s].isolations = c.isolations + 1
    <3>1. PICK n \in Nat : n = c.isolations + 1 BY <2>3
    <3>2. counter'[s] = [c EXCEPT !.epoch = e, !.last = c.epoch, !.isolations = n] BY <2>4, <3>1
    <3>3. QED BY <2>3, <3>1, <3>2 DEF SideCount
  <2>6. \A q \in Sides : q # s => counter'[q] = counter[q] BY <2>1 DEF EpochInv
  <2>7. PICK o \in Int : o = c.block \div PerEpoch BY <2>3, PerEpochType
  <2>8. c.epoch >= o + c.isolations BY <2>2, <2>7 DEF EpochInv, MergesCount
  <2>9. e >= o + (c.isolations + 1) /\ c.isolations + 1 # 0 BY <2>1, <2>2, <2>3, <2>8
  <2>10. ASSUME NEW q \in Sides
         PROVE  /\ (counter[q].epoch >= counter[q].block \div PerEpoch + counter[q].isolations)'
                /\ (counter[q].isolations = 0 => counter[q].epoch = counter[q].block \div PerEpoch)'
    BY <2>5, <2>6, <2>7, <2>9 DEF EpochInv, MergesCount, EpochsCountBlocks
  <2>11. ASSUME NEW q \in Sides, NEW x \in lived'[q] PROVE x \in Nat /\ x <= counter'[q].epoch
    <3>1. CASE q = s
      <4>1. x = e \/ x \in lived[s] BY <2>1, <2>11, <3>1 DEF EpochInv
      <4>2. CASE x = e BY <2>5, <3>1, <4>2
      <4>3. CASE x \in lived[s] BY <2>1, <2>2, <2>3, <2>5, <3>1, <4>3 DEF EpochInv
      <4>4. QED BY <4>1, <4>2, <4>3
    <3>2. CASE q # s BY <2>1, <2>6, <2>11, <3>2 DEF EpochInv
    <3>3. QED BY <3>1, <3>2
  <2>12. counter' \in [Sides -> SideCount] BY <2>1, <2>5, <2>6 DEF EpochInv
  <2>13. QED BY <2>1, <2>10, <2>11, <2>12 DEF EpochInv, MergesCount, EpochsCountBlocks
<1>4. CASE UNCHANGED epochVars
  BY <1>4 DEF epochVars, EpochInv, MergesCount, EpochsCountBlocks
<1>5. QED BY <1>1, <1>2, <1>3, <1>4 DEF GlobalEpochsNext

LEMMA EpochsAreFresh ==
  ASSUME EpochInv, GlobalEpochsNext, NEW s \in Sides
  PROVE  /\ counter'[s].epoch # counter[s].epoch => counter'[s].epoch \notin lived[s]
         /\ counter'[s].isolations > counter[s].isolations =>
              \E m \in told : /\ \A e \in lived[s] : e < counter'[s].epoch
                              /\ \A e \in lived[m.by] : e <= m.epoch => e < counter'[s].epoch
<1>1. counter[s] \in SideCount BY DEF EpochInv
<1>2. counter[s].epoch \in Nat /\ counter[s].isolations \in Nat BY <1>1 DEF SideCount
<1>3. \A e \in lived[s] : e \in Nat /\ e <= counter[s].epoch BY DEF EpochInv
<1>4. ASSUME NEW q \in Sides, AdvanceBlock(q)
      PROVE  counter'[s].isolations = counter[s].isolations
             /\ (counter'[s].epoch = counter[s].epoch \/ counter'[s].epoch = counter[s].epoch + 1)
  <2>1. PICK b \in Nat, e \in Nat :
           /\ e = IF b % PerEpoch = 0 THEN counter[q].epoch + 1 ELSE counter[q].epoch
           /\ counter' = [counter EXCEPT ![q].block = b, ![q].epoch = e]
    BY <1>4, AdvanceCounts
  <2>2. PICK c \in SideCount : c = counter[s] BY <1>1
  <2>3. CASE q = s BY <2>1, <2>2, <2>3 DEF EpochInv, SideCount
  <2>4. CASE q # s BY <2>1, <2>4 DEF EpochInv
  <2>5. QED BY <2>3, <2>4
<1>5. ASSUME NEW q \in Sides, NEW m \in told, MergeEpoch(q, m)
      PROVE  \/ counter'[s] = counter[s]
             \/ counter'[s].epoch \in Nat /\ counter'[s].epoch > counter[s].epoch
                /\ counter'[s].epoch > m.epoch
  <2>1. PICK e \in Nat :
           /\ e > counter[q].epoch /\ e > m.epoch
           /\ counter' = [counter EXCEPT ![q].epoch = e, ![q].last = counter[q].epoch,
                                         ![q].isolations = @ + 1]
    BY <1>5, MergeCounts
  <2>2. PICK c \in SideCount : c = counter[s] BY <1>1
  <2>3. CASE q = s BY <2>1, <2>2, <2>3 DEF EpochInv, SideCount
  <2>4. CASE q # s BY <2>1, <2>4 DEF EpochInv
  <2>5. QED BY <2>3, <2>4
<1>6. CASE \E q \in Sides : AdvanceBlock(q) \/ Tell(q) BY <1>2, <1>3, <1>4, <1>6 DEF Tell
<1>7. CASE \E q \in Sides, m \in told : MergeEpoch(q, m)
  <2>1. PICK q \in Sides, m \in told : MergeEpoch(q, m) BY <1>7
  <2>2. CASE counter'[s] = counter[s] BY <1>2, <2>2
  <2>3. CASE counter'[s].epoch \in Nat /\ counter'[s].epoch > counter[s].epoch
             /\ counter'[s].epoch > m.epoch BY <1>2, <1>3, <2>3 DEF EpochInv
  <2>4. QED BY <1>5, <2>1, <2>2, <2>3
<1>8. QED BY <1>6, <1>7 DEF GlobalEpochsNext

(* The validators agree on the random value, which was committed to, and   *)
(* no side is in an epoch twice, for any participants, windows, sides and  *)
(* merges: randbeacon/beacon.go and consensus/epoch.go.                    *)
THEOREM ValidatorsAreSound == ValidatorsSpec => ValidatorsSound
<1>1. ValidatorsInit => BeaconInv /\ EpochInv BY BeaconStart, EpochStart DEF ValidatorsInit
<1>2. BeaconInv /\ EpochInv /\ [ValidatorsNext]_<<beaconVars, epochVars>> => BeaconInv' /\ EpochInv'
  BY BeaconStep, EpochStep DEF ValidatorsNext
<1>3. BeaconInv => EarlyIsTheOnlyFork /\ CommitsAreBlind /\ ValueCommitted BY BeaconIs
<1>4. EpochInv => MergesCount /\ EpochsCountBlocks BY DEF EpochInv
<1>5. BeaconInv /\ [ValidatorsNext]_<<beaconVars, epochVars>>
        => [\A n \in Keepers : Complete(n) => value'[n] = value[n]]_beaconVars
  BY ValueStays DEF ValidatorsNext
<1>6. EpochInv /\ [ValidatorsNext]_<<beaconVars, epochVars>>
        => [\A s \in Sides : counter'[s].epoch # counter[s].epoch
                               => counter'[s].epoch \notin lived[s]]_epochVars
  BY EpochsAreFresh DEF ValidatorsNext
<1>7. EpochInv /\ [ValidatorsNext]_<<beaconVars, epochVars>>
        => [\A s \in Sides : counter'[s].isolations > counter[s].isolations =>
              \E m \in told : /\ \A e \in lived[s] : e < counter'[s].epoch
                              /\ \A e \in lived[m.by] : e <= m.epoch => e < counter'[s].epoch]_epochVars
  BY EpochsAreFresh DEF ValidatorsNext
<1>8. ValidatorsSpec => BeaconAgrees
  BY <1>1, <1>2, <1>3, <1>5, PTL DEF ValidatorsSpec, BeaconAgrees, ValueFinal
<1>9. ValidatorsSpec => GlobalEpochsSound
  BY <1>1, <1>2, <1>4, <1>6, <1>7, PTL DEF ValidatorsSpec, GlobalEpochsSound, EpochsFresh, MergesFresh
<1>10. QED BY <1>8, <1>9 DEF ValidatorsSound
-----------------------------------------------------------------------------
(* The votes on parameters: a ballot that has passed and is not yet        *)
(* executed has a tally beyond its executions.                             *)
Ballot == [value : NewValues, toggle : Toggles, start : Nat, end : Nat, yes : Nat, no : Nat,
           status : {"voting", "passed", "rejected", "executed"}, tallied : Nat, executed : Nat]

\* Each ballot's executions, with the one it has passed for, are tallied.
CountsMatch(b) == b.executed + (IF b.status = "passed" THEN 1 ELSE 0) <= b.tallied
ByVotes(b) ==
  b.status \in {"passed", "executed"} => b.yes + b.no >= Quorum /\ 2 * b.yes >= b.yes + b.no
GoodBallot(b) == b \in Ballot /\ ByVotes(b) /\ CountsMatch(b)

ParamsInv == at \in Nat /\ submitted \in Nat /\ \A i \in DOMAIN ballots : GoodBallot(ballots[i])

\* A step that changes one ballot at most.
LEMMA BallotChanged ==
  ASSUME ParamsInv, NEW i, NEW b, GoodBallot(b), at' \in Nat, submitted' \in Nat,
         DOMAIN ballots' = DOMAIN ballots \cup {i}, ballots'[i] = b,
         \A j \in DOMAIN ballots : j # i => ballots'[j] = ballots[j]
  PROVE  ParamsInv'
<1>1. ASSUME NEW j \in DOMAIN ballots' PROVE GoodBallot(ballots'[j])
  <2>1. CASE j = i BY <2>1
  <2>2. CASE j # i BY <2>2 DEF ParamsInv
  <2>3. QED BY <2>1, <2>2
<1>2. QED BY <1>1 DEF ParamsInv, GoodBallot, ByVotes, CountsMatch

LEMMA SubmitKeepsParams ==
  ASSUME ParamsInv, NEW p \in Proposers, NEW v \in NewValues, NEW t \in Toggles, SubmitProposal(p, v, t)
  PROVE  ParamsInv' /\ submitted' # submitted
<1>1. VotingDelay \in Nat /\ VotingLen \in Nat BY ParamsAssumption
<1>2. PICK b : b = [value |-> v, toggle |-> t, start |-> at + VotingDelay,
                    end |-> at + VotingDelay + VotingLen, yes |-> 0, no |-> 0, status |-> "voting",
                    tallied |-> 0, executed |-> 0]
  OBVIOUS
<1>3. GoodBallot(b) BY <1>1, <1>2 DEF Ballot, ParamsInv, GoodBallot, ByVotes, CountsMatch
<1>4. PICK id : id = <<p, at>> OBVIOUS
<1>5. ballots' = [i \in DOMAIN ballots \cup {id} |-> IF i = id THEN b ELSE ballots[i]]
  BY <1>2, <1>4 DEF SubmitProposal
<1>6. DOMAIN ballots' = DOMAIN ballots \cup {id} /\ ballots'[id] = b
      /\ \A j \in DOMAIN ballots : j # id => ballots'[j] = ballots[j]
  BY <1>5
<1>7. at' \in Nat /\ submitted' \in Nat /\ submitted' # submitted BY DEF SubmitProposal, ParamsInv
<1>8. QED BY <1>3, <1>6, <1>7, BallotChanged

LEMMA VoteKeepsParams ==
  ASSUME ParamsInv, NEW i \in DOMAIN ballots, NEW w \in Weights, NEW s \in BOOLEAN, Vote(i, s, w)
  PROVE  /\ ParamsInv' /\ at \in ballots[i].start..ballots[i].end
         /\ \A j \in DOMAIN ballots : j # i => ballots'[j] = ballots[j]
<1>1. w \in Nat BY ParamsAssumption
<1>2. PICK b \in Ballot : b = ballots[i] /\ GoodBallot(b) BY DEF ParamsInv, GoodBallot
<1>3. b.status = "voting" /\ at >= b.start /\ at <= b.end BY <1>2 DEF Vote, Open
<1>4. PICK y \in Nat : y = b.yes + w BY <1>1 DEF Ballot
<1>5. PICK n \in Nat : n = b.no + w BY <1>1 DEF Ballot
<1>6. DOMAIN ballots' = DOMAIN ballots /\ \A j \in DOMAIN ballots : j # i => ballots'[j] = ballots[j]
  BY DEF Vote
<1>7. PICK c : c = ballots'[i] OBVIOUS
<1>8. GoodBallot(c)
  <2>1. CASE s
    <3>1. c = [b EXCEPT !.yes = y] BY <1>2, <1>4, <1>7, <2>1 DEF Vote
    <3>2. QED BY <1>2, <1>3, <3>1 DEF Ballot, GoodBallot, ByVotes, CountsMatch
  <2>2. CASE ~s
    <3>1. c = [b EXCEPT !.no = n] BY <1>2, <1>5, <1>7, <2>2 DEF Vote
    <3>2. QED BY <1>2, <1>3, <3>1 DEF Ballot, GoodBallot, ByVotes, CountsMatch
  <2>3. QED BY <2>1, <2>2
<1>9. at' \in Nat /\ submitted' \in Nat BY DEF Vote, ParamsInv
<1>10. DOMAIN ballots' = DOMAIN ballots \cup {i} BY <1>6
<1>11. ParamsInv' BY <1>6, <1>7, <1>8, <1>9, <1>10, BallotChanged
<1>12. QED BY <1>2, <1>3, <1>6, <1>11 DEF ParamsInv, Ballot

\* A ballot is tallied, or executed, and its votes stay.
LEMMA DecideKeepsParams ==
  ASSUME ParamsInv, NEW i \in DOMAIN ballots, TallyProposal(i) \/ ExecuteProposal(i)
  PROVE  ParamsInv' /\ \A j \in DOMAIN ballots :
           ballots'[j].yes = ballots[j].yes /\ ballots'[j].no = ballots[j].no
<1>1. PICK b \in Ballot : b = ballots[i] /\ GoodBallot(b) BY DEF ParamsInv, GoodBallot
<1>2. PICK c : c = ballots'[i] OBVIOUS
<1>3. GoodBallot(c) /\ c.yes = b.yes /\ c.no = b.no
  <2>1. CASE TallyProposal(i)
    <3>1. PICK st \in {"passed", "rejected"} : st = (IF Passes(b) THEN "passed" ELSE "rejected") OBVIOUS
    <3>2. PICK n \in Nat : n = b.tallied + 1 BY DEF Ballot
    <3>3. c = [b EXCEPT !.status = st, !.tallied = n] BY <1>1, <1>2, <2>1, <3>1, <3>2 DEF TallyProposal
    <3>4. c \in Ballot /\ c.yes = b.yes /\ c.no = b.no /\ c.status = st /\ c.tallied = n /\ c.executed = b.executed
      BY <3>3 DEF Ballot
    <3>5. ByVotes(c) BY <3>1, <3>4 DEF ByVotes, Passes
    <3>6. CountsMatch(c)
      <4>1. PICK e \in Nat, m \in Nat : e = b.executed /\ m = b.tallied BY DEF Ballot
      <4>2. e <= m
        <5>1. CASE b.status = "passed" BY <1>1, <4>1, <5>1 DEF GoodBallot, CountsMatch
        <5>2. CASE b.status # "passed" BY <1>1, <4>1, <5>2 DEF GoodBallot, CountsMatch
        <5>3. QED BY <5>1, <5>2
      <4>3. QED BY <3>2, <3>4, <4>1, <4>2 DEF CountsMatch
    <3>7. QED BY <3>4, <3>5, <3>6 DEF GoodBallot
  <2>2. CASE ExecuteProposal(i)
    <3>1. PICK e \in Nat : e = b.executed + 1 BY DEF Ballot
    <3>2. b.status = "passed" /\ c = [b EXCEPT !.status = "executed", !.executed = e]
      BY <1>1, <1>2, <2>2, <3>1 DEF ExecuteProposal, Done
    <3>3. c \in Ballot /\ c.yes = b.yes /\ c.no = b.no /\ c.status = "executed" /\ c.executed = e
          /\ c.tallied = b.tallied
      BY <3>2 DEF Ballot
    <3>4. ByVotes(c) BY <1>1, <3>2, <3>3 DEF GoodBallot, ByVotes
    <3>5. CountsMatch(c) BY <1>1, <3>1, <3>2, <3>3 DEF GoodBallot, CountsMatch, Ballot
    <3>6. QED BY <3>3, <3>4, <3>5 DEF GoodBallot
  <2>3. QED BY <2>1, <2>2
<1>4. DOMAIN ballots' = DOMAIN ballots /\ at' \in Nat /\ submitted' \in Nat
      /\ \A j \in DOMAIN ballots : j # i => ballots'[j] = ballots[j]
  BY DEF TallyProposal, ExecuteProposal, ParamsInv
<1>5. DOMAIN ballots' = DOMAIN ballots \cup {i} BY <1>4
<1>6. ParamsInv' BY <1>2, <1>3, <1>4, <1>5, BallotChanged
<1>7. QED BY <1>1, <1>2, <1>3, <1>4, <1>6

VotesCast ==
  \A i \in DOMAIN ballots :
    (i \in DOMAIN ballots' /\ <<ballots'[i].yes, ballots'[i].no>> # <<ballots[i].yes, ballots[i].no>>) =>
      at \in ballots[i].start..ballots[i].end \/ ballots'[i].end > ballots[i].end
      \/ submitted' # submitted

LEMMA ParamsStep == ParamsInv /\ (ParamsNext \/ UNCHANGED paramsVars) => ParamsInv' /\ VotesCast
<1>. SUFFICES ASSUME ParamsInv, ParamsNext \/ UNCHANGED paramsVars PROVE ParamsInv' /\ VotesCast
  OBVIOUS
<1>1. CASE PassHeight \/ UpdateActiveUserCount \/ UNCHANGED paramsVars
  <2>1. ballots' = ballots /\ submitted' = submitted /\ at' \in Nat
    BY <1>1 DEF PassHeight, UpdateActiveUserCount, paramsVars, ParamsInv
  <2>2. QED BY <2>1 DEF ParamsInv, GoodBallot, ByVotes, CountsMatch, VotesCast
<1>2. ASSUME NEW p \in Proposers, NEW v \in NewValues, NEW t \in Toggles, SubmitProposal(p, v, t)
      PROVE  ParamsInv' /\ VotesCast
  BY <1>2, SubmitKeepsParams DEF VotesCast
<1>3. ASSUME NEW i \in DOMAIN ballots, TallyProposal(i) \/ ExecuteProposal(i)
      PROVE  ParamsInv' /\ VotesCast
  BY <1>3, DecideKeepsParams DEF VotesCast
<1>4. ASSUME NEW i \in DOMAIN ballots, NEW s \in BOOLEAN, NEW w \in Weights, Vote(i, s, w)
      PROVE  ParamsInv' /\ VotesCast
  BY <1>4, VoteKeepsParams DEF VotesCast
<1>5. QED BY <1>1, <1>2, <1>3, <1>4 DEF ParamsNext

LEMMA ParamsIs == ParamsInv => PassedByVotes /\ ExecutionsTallied
<1>. SUFFICES ASSUME ParamsInv PROVE PassedByVotes /\ ExecutionsTallied OBVIOUS
<1>1. PassedByVotes BY DEF ParamsInv, GoodBallot, ByVotes, PassedByVotes
<1>2. ASSUME NEW i \in DOMAIN ballots PROVE ballots[i].executed <= ballots[i].tallied
  <2>1. PICK b \in Ballot : b = ballots[i] /\ CountsMatch(b) BY DEF ParamsInv, GoodBallot
  <2>2. CASE b.status = "passed" BY <2>1, <2>2 DEF CountsMatch, Ballot
  <2>3. CASE b.status # "passed" BY <2>1, <2>3 DEF CountsMatch, Ballot
  <2>4. QED BY <2>1, <2>2, <2>3
<1>3. QED BY <1>1, <1>2 DEF ExecutionsTallied

(* What is executed passed by its votes, has a tally of its own, and votes *)
(* count in their time only.  For any ballots, voters and windows:         *)
(* x/brightchain/keeper/game_economy.go.                                   *)
THEOREM ParamsAreSound == ParamsSpec => ParamsSound
<1>1. ParamsInit => ParamsInv BY DEF ParamsInit, ParamsInv
<1>2. ParamsInv /\ [ParamsNext]_paramsVars => ParamsInv' BY ParamsStep
<1>3. ParamsInv => PassedByVotes /\ ExecutionsTallied BY ParamsIs
<1>4. ParamsInv /\ [ParamsNext]_paramsVars => [VotesCast]_paramsVars BY ParamsStep
<1>5. QED BY <1>1, <1>2, <1>3, <1>4, PTL DEF ParamsSpec, ParamsSound, VotesClosed, VotesCast

-----------------------------------------------------------------------------
(* Parties: as nobody who is invited joins, each is of the one who made    *)
(* it, and goes when that one leaves.                                      *)
Alone(r) ==
  \E p \in Partners : \E ks : DOMAIN ks \subseteq {p} /\ r = [leader |-> p, members |-> <<p>>, kills |-> ks]

PartiesInv ==
  /\ formed \in Nat /\ DOMAIN parties \subseteq 1..formed
  /\ \A x \in DOMAIN parties : Alone(parties[x])
  /\ \A p \in DOMAIN partyOf : partyOf[p] \in DOMAIN parties /\ parties[partyOf[p]].leader = p
  /\ \A x \in DOMAIN parties : parties[x].leader \in DOMAIN partyOf /\ partyOf[parties[x].leader] = x

LEMMA RangeOfOne == ASSUME NEW p PROVE Range(<<p>>) = {p} /\ DOMAIN <<p>> = {1} /\ Len(<<p>>) = 1
BY DEF Range

LEMMA AloneIs ==
  ASSUME NEW r, Alone(r)
  PROVE  r.leader \in Partners /\ r.members = <<r.leader>> /\ Range(r.members) = {r.leader} /\ DOMAIN r.kills \subseteq {r.leader}
         /\ Len(r.members) = 1 /\ r = [leader |-> r.leader, members |-> r.members, kills |-> r.kills]
BY RangeOfOne DEF Alone

LEMMA LastGone ==
  ASSUME NEW p, NEW i, i = CHOOSE k \in DOMAIN <<p>> : <<p>>[k] = p PROVE RemoveAt(<<p>>, i) = <<>>
<1>1. PICK s : s = <<p>> OBVIOUS
<1>2. s \in Seq({p}) /\ DOMAIN s = {1} /\ s[1] = p /\ Len(s) = 1 BY <1>1
<1>3. i \in DOMAIN s BY <1>1, <1>2
<1>4. PICK t : t = RemoveAt(s, i) OBVIOUS
<1>5. Shortened(s, t, i, {p}) BY <1>2, <1>3, <1>4, RemovedAt
<1>6. t \in Seq({p}) /\ Len(t) = 0 BY <1>2, <1>5 DEF Shortened
<1>7. t = <<>> BY <1>6, EmptySeq
<1>8. QED BY <1>1, <1>4, <1>7

\* A party that is no more, with the index of its member.
LEMMA PartyEnds ==
  ASSUME PartiesInv, NEW x \in DOMAIN parties, formed' = formed,
         DOMAIN parties' = DOMAIN parties \ {x}, \A y \in DOMAIN parties \ {x} : parties'[y] = parties[y],
         DOMAIN partyOf' = DOMAIN partyOf \ {parties[x].leader}, \A p \in DOMAIN partyOf' : partyOf'[p] = partyOf[p]
  PROVE  PartiesInv'
<1>1. ASSUME NEW p \in DOMAIN partyOf' PROVE partyOf'[p] \in DOMAIN parties' /\ parties'[partyOf'[p]].leader = p
  BY <1>1 DEF PartiesInv
<1>2. ASSUME NEW y \in DOMAIN parties'
      PROVE  /\ Alone(parties'[y]) /\ parties'[y].leader \in DOMAIN partyOf' /\ partyOf'[parties'[y].leader] = y
  BY <1>2 DEF PartiesInv
<1>3. formed' \in Nat /\ DOMAIN parties' \subseteq 1..formed' BY DEF PartiesInv
<1>4. QED BY <1>1, <1>2, <1>3 DEF PartiesInv

\* The counts of a party's kills.
LEMMA PartyCounts ==
  ASSUME PartiesInv, NEW x \in DOMAIN parties, NEW ks, DOMAIN ks \subseteq {parties[x].leader},
         parties' = [parties EXCEPT ![x].kills = ks], partyOf' = partyOf, formed' = formed
  PROVE  PartiesInv'
<1>1. Alone(parties[x]) BY DEF PartiesInv
<1>2. PICK p, r : p = parties[x].leader /\ r = [leader |-> p, members |-> <<p>>, kills |-> ks] OBVIOUS
<1>3. p \in Partners BY <1>1, <1>2, AloneIs
<1>4. Alone(r) BY <1>2, <1>3 DEF Alone
<1>5. parties'[x] = r BY <1>1, <1>2, AloneIs
<1>6. DOMAIN parties' = DOMAIN parties /\ \A y \in DOMAIN parties \ {x} : parties'[y] = parties[y] OBVIOUS
<1>7. r.leader = p BY <1>2
<1>8. \A y \in DOMAIN parties : parties'[y].leader = parties[y].leader /\ Alone(parties'[y])
  <2>1. ASSUME NEW y \in DOMAIN parties PROVE parties'[y].leader = parties[y].leader /\ Alone(parties'[y])
    BY <1>2, <1>4, <1>5, <1>6, <1>7 DEF PartiesInv
  <2>2. QED BY <2>1
<1>9. QED BY <1>6, <1>8 DEF PartiesInv

LEMMA CreatePartyKeeps == ASSUME PartiesInv, NEW p \in Partners, CreateParty(p) PROVE PartiesInv'
<1>1. PICK n \in Nat : n = formed BY DEF PartiesInv
<1>2. PICK r : r = [leader |-> p, members |-> <<p>>, kills |-> <<>>] OBVIOUS
<1>3. Alone(r)
  <2>1. PICK ks : ks = <<>> OBVIOUS
  <2>2. DOMAIN ks \subseteq {p} BY <2>1
  <2>3. r = [leader |-> p, members |-> <<p>>, kills |-> ks] BY <1>2, <2>1
  <2>4. QED BY <2>2, <2>3 DEF Alone
<1>4. r.leader = p BY <1>2
<1>5. p \notin DOMAIN partyOf /\ formed' = n + 1 BY <1>1 DEF CreateParty
<1>6. n + 1 \notin DOMAIN parties BY <1>1 DEF PartiesInv
<1>7. DOMAIN parties' = DOMAIN parties \cup {n + 1} /\ parties'[n + 1] = r /\ \A x \in DOMAIN parties : parties'[x] = parties[x]
  BY <1>1, <1>2, <1>6 DEF CreateParty
<1>8. DOMAIN partyOf' = DOMAIN partyOf \cup {p} /\ partyOf'[p] = n + 1 /\ \A q \in DOMAIN partyOf : partyOf'[q] = partyOf[q]
  BY <1>1, <1>5 DEF CreateParty
<1>9. ASSUME NEW q \in DOMAIN partyOf' PROVE partyOf'[q] \in DOMAIN parties' /\ parties'[partyOf'[q]].leader = q
  BY <1>4, <1>7, <1>8 DEF PartiesInv
<1>10. ASSUME NEW x \in DOMAIN parties'
       PROVE  Alone(parties'[x]) /\ parties'[x].leader \in DOMAIN partyOf' /\ partyOf'[parties'[x].leader] = x
  BY <1>3, <1>4, <1>7, <1>8 DEF PartiesInv
<1>11. formed' \in Nat /\ DOMAIN parties' \subseteq 1..formed' BY <1>1, <1>5, <1>7 DEF PartiesInv
<1>12. QED BY <1>9, <1>10, <1>11 DEF PartiesInv

LEMMA LeavePartyKeeps == ASSUME PartiesInv, NEW x \in DOMAIN parties, NEW p \in Partners, LeaveParty(x, p) PROVE PartiesInv'
<1>1. Alone(parties[x]) BY DEF PartiesInv
<1>2. parties[x].members = <<parties[x].leader>> /\ Range(parties[x].members) = {parties[x].leader} BY <1>1, AloneIs
<1>3. p = parties[x].leader /\ parties[x].members = <<p>> BY <1>2 DEF LeaveParty
<1>4. PICK ms : ms = parties[x].members OBVIOUS
<1>5. PICK i : i = Seat(x, p) OBVIOUS
<1>13. ms = <<p>> BY <1>3, <1>4
<1>14. i = CHOOSE k \in DOMAIN <<p>> : <<p>>[k] = p BY <1>4, <1>5, <1>13 DEF Seat
<1>15. RemoveAt(parties[x].members, i) = <<>> BY <1>4, <1>13, <1>14, LastGone
<1>6. PICK shrunk : shrunk = Shrunk(x, <<>>) OBVIOUS
<1>7. DOMAIN shrunk = DOMAIN parties \ {x} /\ \A y \in DOMAIN parties \ {x} : shrunk[y] = parties[y]
  BY <1>6 DEF Shrunk, Restrict
<1>8. parties' = [y \in DOMAIN shrunk |->
        IF y = x THEN [shrunk[y] EXCEPT !.kills = Restrict(@, DOMAIN @ \ {p})] ELSE shrunk[y]]
  BY <1>5, <1>6, <1>15 DEF LeaveParty
<1>9. DOMAIN parties' = DOMAIN parties \ {x} /\ \A y \in DOMAIN parties \ {x} : parties'[y] = parties[y] BY <1>7, <1>8
<1>10. partyOf' = Restrict(partyOf, DOMAIN partyOf \ {p}) /\ formed' = formed BY DEF LeaveParty
<1>11. DOMAIN partyOf' = DOMAIN partyOf \ {parties[x].leader} /\ \A q \in DOMAIN partyOf' : partyOf'[q] = partyOf[q]
  BY <1>3, <1>10 DEF Restrict
<1>12. QED BY <1>9, <1>10, <1>11, PartyEnds

LEMMA DisbandPartyKeeps == ASSUME PartiesInv, NEW x \in DOMAIN parties, DisbandParty(x) PROVE PartiesInv'
<1>1. Alone(parties[x]) BY DEF PartiesInv
<1>2. Range(parties[x].members) = {parties[x].leader} BY <1>1, AloneIs
<1>3. DOMAIN parties' = DOMAIN parties \ {x} /\ \A y \in DOMAIN parties \ {x} : parties'[y] = parties[y]
  BY DEF DisbandParty, Restrict
<1>4. partyOf' = Restrict(partyOf, DOMAIN partyOf \ {parties[x].leader}) /\ formed' = formed BY <1>2 DEF DisbandParty
<1>5. DOMAIN partyOf' = DOMAIN partyOf \ {parties[x].leader} /\ \A q \in DOMAIN partyOf' : partyOf'[q] = partyOf[q]
  BY <1>4 DEF Restrict
<1>6. QED BY <1>3, <1>4, <1>5, PartyEnds

LEMMA CountKeeps ==
  ASSUME PartiesInv, NEW x \in DOMAIN parties, NEW p \in Partners, NEW n, RecordKillContribution(x, p, n) PROVE PartiesInv'
<1>1. Alone(parties[x]) BY DEF PartiesInv
<1>2. Range(parties[x].members) = {parties[x].leader} /\ DOMAIN parties[x].kills \subseteq {parties[x].leader} BY <1>1, AloneIs
<1>3. p = parties[x].leader BY <1>2 DEF RecordKillContribution
<1>4. \E ks : DOMAIN ks = DOMAIN parties[x].kills \cup {p} /\ parties' = [parties EXCEPT ![x].kills = ks]
  BY DEF RecordKillContribution
<1>5. PICK ks : DOMAIN ks = DOMAIN parties[x].kills \cup {p} /\ parties' = [parties EXCEPT ![x].kills = ks] BY <1>4
<1>6. DOMAIN ks \subseteq {parties[x].leader} BY <1>2, <1>3, <1>5
<1>7. partyOf' = partyOf /\ formed' = formed BY DEF RecordKillContribution
<1>8. QED BY <1>5, <1>6, <1>7, PartyCounts

LEMMA ResetKeeps == ASSUME PartiesInv, NEW x \in DOMAIN parties, ResetKillContributions(x) PROVE PartiesInv'
<1>1. PICK ks : ks = <<>> OBVIOUS
<1>2. DOMAIN ks \subseteq {parties[x].leader} BY <1>1
<1>3. parties' = [parties EXCEPT ![x].kills = ks] /\ partyOf' = partyOf /\ formed' = formed
  BY <1>1 DEF ResetKillContributions
<1>4. QED BY <1>2, <1>3, PartyCounts

LEMMA PartiesStart == PartiesInit => PartiesInv
BY DEF PartiesInit, PartiesInv

LEMMA PartiesStep == PartiesInv /\ [PartiesNext]_partyVars => PartiesInv'
<1>1. SUFFICES ASSUME PartiesInv, [PartiesNext]_partyVars PROVE PartiesInv' OBVIOUS
<1>2. CASE UNCHANGED <<parties, partyOf, formed>> BY <1>1, <1>2 DEF PartiesInv
<1>3. ASSUME NEW p \in Partners, CreateParty(p) PROVE PartiesInv' BY <1>1, <1>3, CreatePartyKeeps
<1>4. ASSUME NEW x \in DOMAIN parties, NEW p \in Partners, LeaveParty(x, p) PROVE PartiesInv' BY <1>1, <1>4, LeavePartyKeeps
<1>5. ASSUME NEW x \in DOMAIN parties, NEW p \in Partners, RecordKillContribution(x, p, 1) PROVE PartiesInv'
  BY <1>1, <1>5, CountKeeps
<1>6. ASSUME NEW x \in DOMAIN parties, NEW p \in Partners, NEW q \in Partners, InviteToParty(x, p, q) PROVE PartiesInv'
  BY <1>2, <1>6 DEF InviteToParty
<1>7. ASSUME NEW x \in DOMAIN parties, DisbandParty(x) PROVE PartiesInv' BY <1>1, <1>7, DisbandPartyKeeps
<1>8. ASSUME NEW x \in DOMAIN parties, ResetKillContributions(x) PROVE PartiesInv' BY <1>1, <1>8, ResetKeeps
<1>9. CASE PartiesNext BY <1>3, <1>4, <1>5, <1>6, <1>7, <1>8, <1>9 DEF PartiesNext
<1>10. CASE UNCHANGED partyVars BY <1>2, <1>10 DEF partyVars
<1>11. QED BY <1>1, <1>9, <1>10

LEMMA PartiesAlone == ASSUME PartiesInv PROVE PartiesAgree
<1>1. \A x \in DOMAIN parties : Range(parties[x].members) = {parties[x].leader} /\ Len(parties[x].members) = 1
                                /\ DOMAIN parties[x].kills \subseteq {parties[x].leader}
  BY AloneIs DEF PartiesInv
<1>2. ASSUME NEW x \in DOMAIN parties
      PROVE  /\ parties[x].leader \in Range(parties[x].members)
             /\ \A p \in Range(parties[x].members) : p \in DOMAIN partyOf /\ partyOf[p] = x BY <1>1 DEF PartiesInv
<1>3. ASSUME NEW p \in DOMAIN partyOf PROVE partyOf[p] \in DOMAIN parties /\ p \in Range(parties[partyOf[p]].members)
  BY <1>1 DEF PartiesInv
<1>4. QED BY <1>1, <1>2, <1>3 DEF PartiesAgree

-----------------------------------------------------------------------------
(* The board: entries, of one name each, that a sort puts in their order.  *)
Rows == [name : Names, score : Nat, rank : Int]

Distinct(es) == \A i, j \in DOMAIN es : es[i] = es[j] => i = j

\* The place that a sort gives to the entry at k.
Ahead(es, k) ==
  {j \in DOMAIN es : \/ entries[es[j]].score > entries[es[k]].score
                     \/ entries[es[j]].score = entries[es[k]].score /\ j <= k}

LEMMA AheadShrinks ==
  ASSUME NEW n \in Nat, NEW es, DOMAIN es = 1..n, \A i \in 1..n : entries[es[i]].score \in Nat,
         NEW k \in 1..n, NEW m \in Ahead(es, k), m # k
  PROVE  Ahead(es, m) \subseteq Ahead(es, k) \ {k}
<1>1. ASSUME NEW j \in Ahead(es, m) PROVE j \in Ahead(es, k) /\ j # k BY DEF Ahead
<1>2. QED BY <1>1

LEMMA AheadCounts ==
  ASSUME NEW n \in Nat, NEW es, DOMAIN es = 1..n, \A i \in 1..n : entries[es[i]].score \in Nat
  PROVE  /\ \A k \in 1..n : IsFiniteSet(Ahead(es, k)) /\ Cardinality(Ahead(es, k)) \in 1..n
         /\ \A k, m \in 1..n : m \in Ahead(es, k) /\ m # k => Cardinality(Ahead(es, m)) < Cardinality(Ahead(es, k))
         /\ \A k, m \in 1..n : m \in Ahead(es, k) \/ k \in Ahead(es, m)
<1>1. 1 \in Int /\ n \in Int OBVIOUS
<1>2. IsFiniteSet(1..n) /\ Cardinality(1..n) = n
  <2>1. IsFiniteSet(1..n) BY <1>1, FS_Interval, Zenon
  <2>2. Cardinality(1..n) = IF 1 > n THEN 0 ELSE n - 1 + 1 BY <1>1, FS_Interval, Zenon
  <2>3. QED BY <2>1, <2>2
<1>3. ASSUME NEW k \in 1..n PROVE IsFiniteSet(Ahead(es, k)) /\ Cardinality(Ahead(es, k)) \in 1..n
  <2>1. Ahead(es, k) \in SUBSET (1..n) BY DEF Ahead
  <2>2. IsFiniteSet(Ahead(es, k)) /\ Cardinality(Ahead(es, k)) <= n BY <1>2, <2>1, FS_Subset
  <2>3. k \in Ahead(es, k) BY DEF Ahead
  <2>4. Cardinality(Ahead(es, k)) \in Nat BY <2>2, FS_CardinalityType
  <2>5. Cardinality(Ahead(es, k)) # 0 BY <2>2, <2>3, FS_EmptySet
  <2>6. QED BY <2>2, <2>4, <2>5
<1>4. ASSUME NEW k \in 1..n, NEW m \in 1..n, m \in Ahead(es, k), m # k
      PROVE  Cardinality(Ahead(es, m)) < Cardinality(Ahead(es, k))
  <2>1. Ahead(es, m) \subseteq Ahead(es, k) \ {k} BY <1>4, AheadShrinks
  <2>2. k \in Ahead(es, k) BY DEF Ahead
  <2>3. PICK A, B : A = Ahead(es, k) /\ B = Ahead(es, m) OBVIOUS
  <2>4. IsFiniteSet(A) /\ Cardinality(A) \in Nat /\ Cardinality(B) \in Nat BY <1>3, <2>3, FS_CardinalityType
  <2>5. IsFiniteSet(A \ {k}) /\ Cardinality(A \ {k}) = Cardinality(A) - 1 BY <2>2, <2>3, <2>4, FS_RemoveElement
  <2>6. B \in SUBSET (A \ {k}) BY <2>1, <2>3
  <2>7. Cardinality(B) <= Cardinality(A \ {k}) BY <2>5, <2>6, FS_Subset
  <2>8. QED BY <2>3, <2>4, <2>5, <2>7
<1>5. ASSUME NEW k \in 1..n, NEW m \in 1..n PROVE m \in Ahead(es, k) \/ k \in Ahead(es, m) BY DEF Ahead
<1>6. QED BY <1>3, <1>4, <1>5

\* What a sort makes of a list without repetitions.
InOrder(es, t, n) ==
  /\ t = [i \in 1..n |-> t[i]] /\ DOMAIN t = 1..n /\ Distinct(t)
  /\ \A i \in 1..n : t[i] \in Range(es)
  /\ \A e \in Range(es) : \E i \in 1..n : t[i] = e
  /\ \A i, j \in 1..n : i < j => entries[t[i]].score >= entries[t[j]].score

LEMMA SortedIs ==
  ASSUME NEW n \in Nat, NEW es, DOMAIN es = 1..n, \A i \in 1..n : entries[es[i]].score \in Nat, Distinct(es),
         NEW t, t = SortedByScore(es)
  PROVE  InOrder(es, t, n)
<1>1. PICK p : p = [k \in 1..n |-> Cardinality(Ahead(es, k))] OBVIOUS
<1>2. \A k \in 1..n : p[k] \in 1..n BY <1>1, AheadCounts
<1>3. \A k, m \in 1..n : m \in Ahead(es, k) /\ m # k => p[m] < p[k]
  <2>1. ASSUME NEW k \in 1..n, NEW m \in 1..n, m \in Ahead(es, k), m # k PROVE p[m] < p[k]
    BY <1>1, <2>1, AheadCounts
  <2>2. QED BY <2>1
<1>4. \A k, m \in 1..n : k # m => p[m] < p[k] \/ p[k] < p[m] BY <1>3, AheadCounts
<1>5. \A k, m \in 1..n : p[k] = p[m] => k = m BY <1>2, <1>4
<1>6. p \in Injection(1..n, 1..n) BY <1>1, <1>2, <1>5 DEF Injection, IsInjective
<1>7. 1 \in Int /\ n \in Int OBVIOUS
<1>8. IsFiniteSet(1..n) BY <1>7, FS_Interval, Zenon
<1>9. p \in Surjection(1..n, 1..n) BY <1>6, <1>8, FS_Injection
<1>10. \A i \in 1..n : \E k \in 1..n : p[k] = i BY <1>9 DEF Surjection
<1>11. \A k \in 1..n : (CHOOSE m \in DOMAIN es : es[m] = es[k]) = k
  <2>1. ASSUME NEW k \in 1..n PROVE (CHOOSE m \in DOMAIN es : es[m] = es[k]) = k BY <2>1 DEF Distinct
  <2>2. QED BY <2>1
<1>12. DOMAIN t = 1..n BY DEF SortedByScore
<1>. DEFINE Fits(i, e) == LET k == CHOOSE k \in DOMAIN es : es[k] = e IN
                          i = Cardinality({j \in DOMAIN es : \/ entries[es[j]].score > entries[e].score
                                                             \/ entries[es[j]].score = entries[e].score /\ j <= k})
<1>13. \A i \in 1..n : t[i] = CHOOSE e \in Range(es) : Fits(i, e) BY DEF SortedByScore
<1>14. ASSUME NEW i \in 1..n, NEW k \in 1..n PROVE Fits(i, es[k]) <=> p[k] = i
  <2>1. (CHOOSE m \in DOMAIN es : es[m] = es[k]) = k BY <1>11
  <2>2. p[k] = Cardinality(Ahead(es, k)) BY <1>1
  <2>3. QED BY <2>1, <2>2 DEF Ahead
<1>. HIDE DEF Fits
<1>15. ASSUME NEW i \in 1..n PROVE \E k \in 1..n : t[i] = es[k] /\ p[k] = i
  <2>1. PICK k \in 1..n : p[k] = i BY <1>10
  <2>2. Fits(i, es[k]) /\ es[k] \in Range(es) BY <1>14, <2>1 DEF Range
  <2>3. t[i] \in Range(es) /\ Fits(i, t[i]) BY <1>13, <2>2
  <2>4. PICK m \in 1..n : t[i] = es[m] BY <2>3 DEF Range
  <2>5. p[m] = i BY <1>14, <2>3, <2>4
  <2>6. QED BY <2>4, <2>5
<1>16. Distinct(t)
  <2>1. ASSUME NEW i \in 1..n, NEW j \in 1..n, t[i] = t[j] PROVE i = j
    <3>1. PICK k \in 1..n : t[i] = es[k] /\ p[k] = i BY <1>15
    <3>2. PICK m \in 1..n : t[j] = es[m] /\ p[m] = j BY <1>15
    <3>3. k = m BY <2>1, <3>1, <3>2 DEF Distinct
    <3>4. QED BY <3>1, <3>2, <3>3
  <2>2. QED BY <1>12, <2>1 DEF Distinct
<1>17. \A i \in 1..n : t[i] \in Range(es) BY <1>15 DEF Range
<1>18. ASSUME NEW e \in Range(es) PROVE \E i \in 1..n : t[i] = e
  <2>1. PICK k \in 1..n : e = es[k] BY DEF Range
  <2>2. PICK i \in 1..n : i = p[k] BY <1>2
  <2>3. PICK m \in 1..n : t[i] = es[m] /\ p[m] = i BY <1>15
  <2>4. m = k BY <1>5, <2>2, <2>3
  <2>5. QED BY <2>1, <2>3, <2>4
<1>19. ASSUME NEW i \in 1..n, NEW j \in 1..n, i < j PROVE entries[t[i]].score >= entries[t[j]].score
  <2>1. PICK k \in 1..n : t[i] = es[k] /\ p[k] = i BY <1>15
  <2>2. PICK m \in 1..n : t[j] = es[m] /\ p[m] = j BY <1>15
  <2>3. k # m BY <1>19, <2>1, <2>2
  <2>4. ~(p[m] < p[k]) BY <1>19, <2>1, <2>2
  <2>5. m \notin Ahead(es, k) BY <1>3, <2>3, <2>4
  <2>6. PICK a \in Nat, b \in Nat : a = entries[es[k]].score /\ b = entries[es[m]].score OBVIOUS
  <2>7. ~(b > a) BY <2>5, <2>6 DEF Ahead
  <2>8. QED BY <2>1, <2>2, <2>6, <2>7
<1>20. t = [i \in 1..n |-> CHOOSE e \in Range(es) : Fits(i, e)] BY DEF SortedByScore, Fits
<1>21. t = [i \in 1..n |-> t[i]] BY <1>20
<1>22. QED BY <1>12, <1>16, <1>17, <1>18, <1>19, <1>21 DEF InOrder

-----------------------------------------------------------------------------
(* The board holds entries of different names, and the ranks of those that *)
(* were not written since the last sort are in the order of their scores.  *)
RanksOf(es, b, written) ==
  \A e, f \in Range(b) \ written : es[e].score > es[f].score => es[e].rank < es[f].rank

NamesOf(es, b) == \A e, f \in Range(b) : es[e].name = es[f].name => e = f

BoardInv ==
  /\ entries \in Seq(Rows) /\ board \in Seq(DOMAIN entries) /\ Distinct(board)
  /\ NamesOf(entries, board) /\ RanksOf(entries, board, unsorted)

\* What no step of the board does: drop one that is worth more than one it keeps.
BestStay == \A e \in Range(board) \ Range(board') : \A f \in Range(board') : entries[e].score <= entries[f].score

LEMMA RowsAre ==
  ASSUME NEW es \in Seq(Rows)
  PROVE  /\ Len(es) \in Nat /\ DOMAIN es = 1..Len(es)
         /\ \A e \in DOMAIN es : es[e] \in Rows /\ es[e].name \in Names /\ es[e].score \in Nat /\ es[e].rank \in Int
<1>1. Len(es) \in Nat /\ DOMAIN es = 1..Len(es) BY LenProperties
<1>2. \A e \in DOMAIN es : es[e] \in Rows BY <1>1, ElementOfSeq
<1>3. QED BY <1>1, <1>2 DEF Rows

LEMMA BoardIs ==
  ASSUME BoardInv
  PROVE  /\ Len(board) \in Nat /\ DOMAIN board = 1..Len(board)
         /\ \A i \in 1..Len(board) : board[i] \in DOMAIN entries /\ entries[board[i]].score \in Nat
         /\ \A e \in Range(board) : e \in DOMAIN entries /\ entries[e].score \in Nat
BY LenProperties, ElementOfSeq, RowsAre DEF BoardInv, Range

\* A name that has an entry, or gets one.
LEMMA ScoreChanged ==
  ASSUME BoardInv, NEW score \in Nat, NEW e \in Range(board),
         entries' = [entries EXCEPT ![e].score = score], unsorted' = unsorted \cup {e}, board' = board
  PROVE  BoardInv' /\ BestStay
<1>1. PICK es : es = entries' OBVIOUS
<1>2. entries \in Seq(Rows) BY DEF BoardInv
<1>3. e \in DOMAIN entries BY BoardIs
<1>4. PICK r : r = entries[e] OBVIOUS
<1>5. r \in Rows BY <1>2, <1>3, <1>4, RowsAre
<1>6. PICK w : w = [r EXCEPT !.score = score] OBVIOUS
<1>7. w \in Rows /\ w.name = r.name BY <1>5, <1>6 DEF Rows
<1>8. es = [entries EXCEPT ![e] = w] BY <1>1, <1>4, <1>6
<1>9. PICK n \in Nat : DOMAIN entries = 1..n BY <1>2, RowsAre
<1>10. DOMAIN es = 1..n /\ es[e] = w /\ \A x \in 1..n \ {e} : es[x] = entries[x] BY <1>3, <1>8, <1>9
<1>11. \A x \in 1..n : es[x] \in Rows /\ es[x].name = entries[x].name
  <2>1. ASSUME NEW x \in 1..n PROVE es[x] \in Rows /\ es[x].name = entries[x].name
    <3>1. CASE x = e BY <1>4, <1>7, <1>10, <3>1
    <3>2. CASE x # e BY <1>2, <1>9, <1>10, <3>2, RowsAre
    <3>3. QED BY <3>1, <3>2
  <2>2. QED BY <2>1
<1>12. es \in Seq(Rows)
  <2>1. es = [x \in 1..n |-> es[x]] BY <1>8, <1>9
  <2>2. es \in [1..n -> Rows] BY <1>11, <2>1
  <2>3. QED BY <2>2, SeqDef
<1>13. board \in Seq(DOMAIN es) /\ Distinct(board) BY <1>9, <1>10 DEF BoardInv
<1>14. \A x \in Range(board) : x \in 1..n BY <1>9, BoardIs
<1>15. NamesOf(es, board) BY <1>11, <1>14 DEF BoardInv, NamesOf
<1>16. RanksOf(es, board, unsorted \cup {e}) BY <1>10, <1>14 DEF BoardInv, RanksOf
<1>17. BoardInv' BY <1>1, <1>12, <1>13, <1>15, <1>16 DEF BoardInv
<1>18. BestStay BY DEF BestStay
<1>19. QED BY <1>17, <1>18

LEMMA NameAdded ==
  ASSUME BoardInv, NEW name \in Names, NEW score \in Nat, Found(name) = {},
         entries' = Append(entries, [name |-> name, score |-> score, rank |-> 0]),
         board' = Append(board, Len(entries) + 1), unsorted' = unsorted \cup {Len(entries) + 1}
  PROVE  BoardInv' /\ BestStay
<1>1. PICK es, b : es = entries' /\ b = board' OBVIOUS
<1>2. entries \in Seq(Rows) /\ board \in Seq(DOMAIN entries) /\ Distinct(board) BY DEF BoardInv
<1>3. PICK n \in Nat : n = Len(entries) /\ DOMAIN entries = 1..n BY <1>2, RowsAre
<1>4. PICK w : w = [name |-> name, score |-> score, rank |-> 0] OBVIOUS
<1>5. w \in Rows /\ w.name = name BY <1>4 DEF Rows
<1>6. es \in Seq(Rows) /\ Len(es) = Len(entries) + 1 /\ es[Len(entries) + 1] = w /\ \A x \in 1..Len(entries) : es[x] = entries[x]
  BY <1>1, <1>2, <1>4, <1>5, AppendProperties
<1>7. DOMAIN es = 1..n + 1 /\ es[n + 1] = w /\ \A x \in 1..n : es[x] = entries[x] BY <1>3, <1>6, LenProperties
<1>8. PICK m \in Nat : m = Len(board) /\ DOMAIN board = 1..m BY BoardIs
<1>9. \A i \in 1..m : board[i] \in 1..n BY <1>3, <1>8, BoardIs
<1>10. board \in Seq(1..n + 1) BY <1>2, <1>3, <1>8, <1>9, SeqDef
<1>11. n + 1 \in 1..n + 1 OBVIOUS
<1>12. b \in Seq(1..n + 1) /\ Len(b) = Len(board) + 1 /\ b[Len(board) + 1] = n + 1 /\ \A i \in 1..Len(board) : b[i] = board[i]
  BY <1>1, <1>3, <1>10, <1>11, AppendProperties
<1>13. DOMAIN b = 1..m + 1 /\ b[m + 1] = n + 1 /\ \A i \in 1..m : b[i] = board[i] BY <1>8, <1>12, LenProperties
<1>14. Distinct(b)
  <2>1. ASSUME NEW i \in DOMAIN b, NEW j \in DOMAIN b, b[i] = b[j] PROVE i = j
    <3>1. (i \in 1..m \/ i = m + 1) /\ (j \in 1..m \/ j = m + 1) BY <1>13
    <3>2. CASE i \in 1..m /\ j \in 1..m BY <1>2, <1>8, <1>13, <2>1, <3>2 DEF Distinct
    <3>3. CASE i = m + 1 /\ j \in 1..m BY <1>9, <1>13, <2>1, <3>3
    <3>4. CASE j = m + 1 /\ i \in 1..m BY <1>9, <1>13, <2>1, <3>4
    <3>5. QED BY <3>1, <3>2, <3>3, <3>4
  <2>2. QED BY <2>1 DEF Distinct
<1>15. Range(b) = Range(board) \cup {n + 1}
  <2>1. ASSUME NEW x \in Range(b) PROVE x \in Range(board) \cup {n + 1} BY <1>8, <1>13 DEF Range
  <2>2. ASSUME NEW x \in Range(board) PROVE x \in Range(b) BY <1>8, <1>13 DEF Range
  <2>3. n + 1 \in Range(b) BY <1>13 DEF Range
  <2>4. QED BY <2>1, <2>2, <2>3
<1>16. \A x \in Range(board) : x \in 1..n /\ x # n + 1 /\ es[x] = entries[x] BY <1>3, <1>7, BoardIs
<1>17. NamesOf(es, b)
  <2>1. NamesOf(entries, board) BY DEF BoardInv
  <2>2. \A x \in Range(board) : entries[x].name # name BY DEF Found
  <2>3. es[n + 1].name = name BY <1>5, <1>7
  <2>4. ASSUME NEW x \in Range(b), NEW y \in Range(b), es[x].name = es[y].name PROVE x = y
    BY <1>15, <1>16, <2>1, <2>2, <2>3, <2>4 DEF NamesOf
  <2>5. QED BY <2>4 DEF NamesOf
<1>18. RanksOf(es, b, unsorted \cup {n + 1}) BY <1>15, <1>16 DEF BoardInv, RanksOf
<1>19. unsorted' = unsorted \cup {n + 1} BY <1>3
<1>20. BoardInv' BY <1>1, <1>6, <1>7, <1>12, <1>14, <1>17, <1>18, <1>19 DEF BoardInv
<1>21. BestStay BY <1>1, <1>15 DEF BestStay
<1>22. QED BY <1>20, <1>21

LEMMA UpdateKeeps ==
  ASSUME BoardInv, NEW name \in Names, NEW score \in Scores, UpdateScore(name, score) PROVE BoardInv' /\ BestStay
<1>1. score \in Nat BY PartiesAssumption
<1>2. CASE Found(name) # {} BY <1>1, <1>2, ScoreChanged DEF Found, UpdateScore
<1>3. CASE Found(name) = {} BY <1>1, <1>3, NameAdded DEF UpdateScore
<1>4. QED BY <1>2, <1>3

\* A sort, that writes the ranks.
SortedTo(t, es) ==
  /\ InOrder(board, t, Len(board)) /\ es \in Seq(Rows) /\ DOMAIN es = DOMAIN entries
  /\ \A e \in DOMAIN es : es[e].name = entries[e].name /\ es[e].score = entries[e].score
  /\ RanksOf(es, board, {})

LEMMA RankedIs == ASSUME BoardInv PROVE SortedTo(SortedByScore(board), Ranked(SortedByScore(board)))
<1>1. PICK t : t = SortedByScore(board) OBVIOUS
<1>2. PICK es : es = Ranked(t) OBVIOUS
<1>3. PICK m \in Nat : m = Len(board) /\ DOMAIN board = 1..m /\ \A i \in 1..m : entries[board[i]].score \in Nat BY BoardIs
<1>4. entries \in Seq(Rows) /\ Distinct(board) BY DEF BoardInv
<1>5. InOrder(board, t, m) BY <1>1, <1>3, <1>4, SortedIs
<1>6. DOMAIN t = 1..m /\ Distinct(t) /\ Range(t) = Range(board)
  <2>1. DOMAIN t = 1..m /\ Distinct(t) BY <1>5 DEF InOrder
  <2>2. \A e \in Range(t) : e \in Range(board) BY <1>5, <2>1 DEF InOrder, Range
  <2>3. \A e \in Range(board) : e \in Range(t)
    <3>1. ASSUME NEW e \in Range(board) PROVE e \in Range(t) BY <1>5, <2>1 DEF InOrder, Range
    <3>2. QED BY <3>1
  <2>4. QED BY <2>1, <2>2, <2>3
<1>7. PICK n \in Nat : DOMAIN entries = 1..n BY <1>4, RowsAre
<1>8. es = [e \in 1..n |->
        IF e \in Range(t) THEN [entries[e] EXCEPT !.rank = CHOOSE i \in DOMAIN t : t[i] = e] ELSE entries[e]]
  BY <1>2, <1>7 DEF Ranked
<1>9. \A i \in 1..m : (CHOOSE j \in DOMAIN t : t[j] = t[i]) = i
  <2>1. ASSUME NEW i \in 1..m PROVE (CHOOSE j \in DOMAIN t : t[j] = t[i]) = i BY <1>6, <2>1 DEF Distinct
  <2>2. QED BY <2>1
<1>10. ASSUME NEW e \in 1..n
       PROVE  es[e] \in Rows /\ es[e].name = entries[e].name /\ es[e].score = entries[e].score
              /\ (e \in Range(t) => \E i \in 1..m : t[i] = e /\ es[e].rank = i)
  <2>1. entries[e] \in Rows BY <1>4, <1>7, RowsAre
  <2>2. CASE e \in Range(t)
    <3>1. PICK i \in 1..m : e = t[i] BY <1>6, <2>2 DEF Range
    <3>2. PICK r : r = entries[e] OBVIOUS
    <3>3. (CHOOSE j \in DOMAIN t : t[j] = e) = i BY <1>9, <3>1
    <3>4. es[e] = [r EXCEPT !.rank = i] BY <1>8, <2>2, <3>2, <3>3
    <3>5. PICK w : w = [r EXCEPT !.rank = i] OBVIOUS
    <3>6. r \in Rows BY <2>1, <3>2
    <3>7. w \in Rows /\ w.name = r.name /\ w.score = r.score /\ w.rank = i BY <3>5, <3>6 DEF Rows
    <3>8. QED BY <3>1, <3>2, <3>4, <3>5, <3>7
  <2>3. CASE e \notin Range(t) BY <1>8, <2>1, <2>3
  <2>4. QED BY <2>2, <2>3
<1>11. es \in Seq(Rows) /\ DOMAIN es = 1..n
  <2>1. es = [e \in 1..n |-> es[e]] /\ DOMAIN es = 1..n BY <1>8
  <2>2. es \in [1..n -> Rows] BY <1>10, <2>1
  <2>3. QED BY <2>1, <2>2, SeqDef
<1>12. RanksOf(es, board, {})
  <2>1. ASSUME NEW e \in Range(board), NEW f \in Range(board), es[e].score > es[f].score PROVE es[e].rank < es[f].rank
    <3>1. e \in 1..n /\ f \in 1..n BY <1>7, BoardIs
    <3>2. PICK i \in 1..m : t[i] = e /\ es[e].rank = i BY <1>6, <1>10, <3>1
    <3>3. PICK j \in 1..m : t[j] = f /\ es[f].rank = j BY <1>6, <1>10, <3>1
    <3>4. PICK a \in Nat, b \in Nat : a = entries[e].score /\ b = entries[f].score BY BoardIs
    <3>5. a > b BY <1>10, <2>1, <3>1, <3>4
    <3>6. i # j BY <3>2, <3>3, <3>4, <3>5
    <3>7. j < i => entries[t[j]].score >= entries[t[i]].score BY <1>5 DEF InOrder
    <3>8. ~(j < i) BY <3>2, <3>3, <3>4, <3>5, <3>7
    <3>9. QED BY <3>2, <3>3, <3>6, <3>8
  <2>2. QED BY <2>1 DEF RanksOf
<1>13. SortedTo(t, es) BY <1>3, <1>5, <1>7, <1>10, <1>11, <1>12 DEF SortedTo
<1>14. QED BY <1>1, <1>2, <1>13

LEMMA TopKeeps == ASSUME BoardInv, NEW n, GetTopN(n) PROVE BoardInv' /\ BestStay
<1>1. PICK t : t = SortedByScore(board) OBVIOUS
<1>2. PICK es : es = Ranked(t) OBVIOUS
<1>3. SortedTo(t, es) BY <1>1, <1>2, RankedIs
<1>4. entries' = es /\ unsorted' = {} /\ board' = board BY <1>1, <1>2 DEF GetTopN
<1>5. es \in Seq(Rows) /\ DOMAIN es = DOMAIN entries /\ RanksOf(es, board, {})
      /\ \A e \in DOMAIN es : es[e].name = entries[e].name
  BY <1>3 DEF SortedTo
<1>6. \A e \in Range(board) : e \in DOMAIN es BY <1>5, BoardIs
<1>7. NamesOf(es, board) BY <1>5, <1>6 DEF NamesOf, BoardInv
<1>8. board \in Seq(DOMAIN es) /\ Distinct(board) BY <1>5 DEF BoardInv
<1>9. BoardInv' BY <1>4, <1>5, <1>7, <1>8 DEF BoardInv
<1>10. BestStay BY <1>4 DEF BestStay
<1>11. QED BY <1>9, <1>10

LEMMA RefreshKeeps == ASSUME BoardInv, RefreshLeaderboard PROVE BoardInv' /\ BestStay
<1>1. PICK t : t = SortedByScore(board) OBVIOUS
<1>2. PICK es : es = Ranked(t) OBVIOUS
<1>3. SortedTo(t, es) BY <1>1, <1>2, RankedIs
<1>4. PICK m \in Nat : m = Len(board) BY BoardIs
<1>5. InOrder(board, t, m) /\ es \in Seq(Rows) /\ DOMAIN es = DOMAIN entries /\ RanksOf(es, board, {})
      /\ \A e \in DOMAIN es : es[e].name = entries[e].name
  BY <1>3, <1>4 DEF SortedTo
<1>6. DOMAIN t = 1..m /\ Distinct(t) /\ (\A i \in 1..m : t[i] \in Range(board)) BY <1>5 DEF InOrder
<1>7. \A e \in Range(board) : e \in DOMAIN es BY <1>5, BoardIs
<1>8. t \in Seq(DOMAIN es) /\ Len(t) = m BY <1>5, <1>6, <1>7, SeqDef, LenProperties DEF InOrder
<1>9. PICK k \in Nat : k = (IF BoardSize < m THEN BoardSize ELSE m) /\ k <= m BY PartiesAssumption
<1>10. PICK b : b = SubSeq(t, 1, k) OBVIOUS
<1>11. b \in Seq(DOMAIN es) /\ DOMAIN b = 1..k /\ \A i \in 1..k : b[i] = t[i]
  BY <1>6, <1>7, <1>9, <1>10, SeqDef DEF SubSeq
<1>12. entries' = es /\ unsorted' = {} /\ board' = b
  BY <1>1, <1>2, <1>8, <1>9, <1>10 DEF RefreshLeaderboard
<1>13. Distinct(b) BY <1>6, <1>9, <1>11 DEF Distinct
<1>14. \A e \in Range(b) : e \in Range(board) /\ \E i \in 1..k : e = t[i]
  <2>1. ASSUME NEW e \in Range(b) PROVE e \in Range(board) /\ \E i \in 1..k : e = t[i]
    BY <1>6, <1>9, <1>11 DEF Range
  <2>2. QED BY <2>1
<1>15. NamesOf(es, b) BY <1>5, <1>7, <1>14 DEF NamesOf, BoardInv
<1>16. RanksOf(es, b, {}) BY <1>5, <1>14 DEF RanksOf
<1>17. BoardInv' BY <1>5, <1>11, <1>12, <1>13, <1>15, <1>16 DEF BoardInv
<1>18. ASSUME NEW e \in Range(board) \ Range(b), NEW f \in Range(b) PROVE entries[e].score <= entries[f].score
  <2>1. PICK i \in 1..k : f = t[i] BY <1>14
  <2>2. PICK j \in 1..m : t[j] = e BY <1>5 DEF InOrder
  <2>3. j \notin 1..k BY <1>11, <1>18, <2>2 DEF Range
  <2>4. i < j /\ i \in 1..m BY <1>9, <2>1, <2>2, <2>3
  <2>5. entries[t[i]].score >= entries[t[j]].score BY <1>5, <2>2, <2>4 DEF InOrder
  <2>6. f \in Range(board) BY <1>14
  <2>7. PICK a \in Nat, c \in Nat : a = entries[e].score /\ c = entries[f].score BY <2>6, BoardIs
  <2>8. QED BY <2>1, <2>2, <2>5, <2>7
<1>19. BestStay BY <1>12, <1>18 DEF BestStay
<1>20. QED BY <1>17, <1>19

LEMMA BoardStart == BoardInit => BoardInv BY EmptySeq DEF BoardInit, Range, BoardInv, Distinct, NamesOf, RanksOf

LEMMA BoardStep == BoardInv /\ [BoardNext]_boardVars => BoardInv' /\ BestStay
<1>1. SUFFICES ASSUME BoardInv, [BoardNext]_boardVars PROVE BoardInv' /\ BestStay OBVIOUS
<1>2. CASE UNCHANGED boardVars BY <1>1, <1>2 DEF boardVars, BoardInv, BestStay
<1>3. ASSUME NEW name \in Names, NEW score \in Scores, UpdateScore(name, score) PROVE BoardInv' /\ BestStay
  BY <1>1, <1>3, UpdateKeeps
<1>4. CASE GetTopN(2) BY <1>1, <1>4, TopKeeps
<1>5. CASE RefreshLeaderboard BY <1>1, <1>5, RefreshKeeps
<1>6. QED BY <1>1, <1>2, <1>3, <1>4, <1>5 DEF BoardNext

LEMMA BoardOrdered == ASSUME BoardInv PROVE OneEntry /\ RanksStale
<1>1. OneEntry BY DEF BoardInv, NamesOf, OneEntry
<1>2. RanksOf(entries, board, unsorted) BY DEF BoardInv
<1>3. \A e, f \in Range(board) \ unsorted : entries[e].score > entries[f].score => entries[e].rank < entries[f].rank
  BY <1>2 DEF RanksOf
<1>4. ASSUME NEW l \in lists, NEW i \in DOMAIN l, NEW j \in DOMAIN l, entries[l[i]].score < entries[l[j]].score,
             {l[i], l[j]} \cap unsorted = {}, {l[i], l[j]} \ Range(board) = {}
      PROVE  entries[l[i]].rank > entries[l[j]].rank BY <1>3, <1>4, BoardIs, RowsAre DEF BoardInv
<1>5. RanksStale BY <1>3, <1>4 DEF RanksStale
<1>6. QED BY <1>1, <1>5

(* In every behaviour of the parties and of a leaderboard, of any players, *)
(* names, scores and sizes: the indices of the parties agree and nobody    *)
(* but the founder is in one; a name has one entry, ranks are wrong only   *)
(* of entries written since the last sort, and a trim keeps the best.      *)
THEOREM PartiesAreSound == PartiesSpec => PartiesSound
<1>1. PartiesInit => PartiesInv BY PartiesStart
<1>2. PartiesInv /\ [PartiesNext]_partyVars => PartiesInv' BY PartiesStep
<1>3. PartiesInv => PartiesAgree BY PartiesAlone
<1>4. BoardInit => BoardInv BY BoardStart
<1>5. BoardInv /\ [BoardNext]_boardVars => BoardInv' BY BoardStep
<1>6. BoardInv => OneEntry /\ RanksStale BY BoardOrdered
<1>7. BoardInv /\ [BoardNext]_boardVars => [BestStay]_boardVars BY BoardStep
<1>8. PartiesSpec => [][BestStay]_boardVars BY <1>4, <1>5, <1>7, PTL DEF PartiesSpec
<1>9. [][BestStay]_boardVars => TrimKeepsBest BY PTL DEF BestStay, TrimKeepsBest
<1>10. QED BY <1>1, <1>2, <1>3, <1>4, <1>5, <1>6, <1>8, <1>9, PTL DEF PartiesSpec, PartiesSound

-----------------------------------------------------------------------------
(* The weights.  A step of the cascade changes the weight of one user, and *)
(* only if a guarantor sorts not after it.                                 *)
TrustWeights(S) == [S -> 0..MaxWeight]
Guaranteed(u, by) == \E i \in DOMAIN by : by[i] <= u
LEMMA LeastIs == ASSUME NEW a \in Nat PROVE Least(a, MaxWeight) \in 0..MaxWeight
BY UsersAssumption DEF Least

LEMMA StepIs ==
  ASSUME NEW S, NEW weight \in TrustWeights(S), NEW u \in S, NEW by \in Seq(Accounts)
  PROVE  /\ Step(weight, u, by) \in TrustWeights(S)
         /\ \A x \in S : Step(weight, u, by)[x] # weight[x] => x = u /\ Guaranteed(u, by)
<1>1. PICK n \in Nat : n = Len(by) /\ DOMAIN by = 1..n OBVIOUS
<1>2. PICK V : V = {w \in TrustWeights(S) : \A x \in S : w[x] # weight[x] => x = u /\ Guaranteed(u, by)} OBVIOUS
<1>3. DOMAIN weight = S BY DEF TrustWeights
<1>. DEFINE Next(i, w) == IF by[i] \in DOMAIN weight /\ by[i] <= u
                          THEN [w EXCEPT ![u] = Least(@ + (8 * w[by[i]]) \div 10, MaxWeight)]
                          ELSE w
<1>4. ASSUME NEW i \in 1..n, NEW w \in V PROVE Next(i, w) \in V
  <2>1. w \in [S -> 0..MaxWeight] BY <1>2 DEF TrustWeights
  <2>2. CASE by[i] \in S /\ by[i] <= u
    <3>1. PICK a \in Nat, b \in Nat : a = w[u] /\ b = w[by[i]] BY <2>1, <2>2, UsersAssumption
    <3>2. PICK m \in 0..MaxWeight : m = Least(a + (8 * b) \div 10, MaxWeight) BY LeastIs
    <3>3. Next(i, w) = [w EXCEPT ![u] = m] BY <1>3, <2>2, <3>1, <3>2
    <3>4. Guaranteed(u, by) BY <1>1, <2>2 DEF Guaranteed
    <3>. HIDE DEF Next
    <3>5. [w EXCEPT ![u] = m] \in TrustWeights(S) BY <2>1 DEF TrustWeights
    <3>6. \A x \in S : x # u => [w EXCEPT ![u] = m][x] = w[x] BY <2>1
    <3>7. QED BY <1>2, <3>3, <3>4, <3>5, <3>6
  <2>3. CASE ~(by[i] \in S /\ by[i] <= u) BY <1>3, <2>3
  <2>4. QED BY <2>2, <2>3
<1>5. PICK f : f = CHOOSE x : x = [i \in 0..n |-> IF i = 0 THEN weight ELSE Next(i, x[i - 1])] OBVIOUS
<1>6. Step(weight, u, by) = f[n] BY <1>1, <1>5 DEF Step
<1>. HIDE DEF Next
<1>7. f = [i \in 0..n |-> IF i = 0 THEN weight ELSE Next(i, f[i - 1])]
  <2>1. PICK st : st = [p \in (1..n) \X V |-> Next(p[1], p[2])] OBVIOUS
  <2>2. st \in [(1..n) \X V -> V] BY <1>4, <2>1
  <2>3. weight \in V BY <1>2
  <2>4. PICK g \in [0..n -> V] : Iterated(g, n, weight, st)
    BY <1>1, <2>2, <2>3, LoopDefines
  <2>5. ASSUME NEW i \in 0..n, i # 0 PROVE st[<<i, g[i - 1]>>] = Next(i, g[i - 1]) BY <2>1, <2>4, <2>5
  <2>6. g = [i \in 0..n |-> IF i = 0 THEN weight ELSE Next(i, g[i - 1])] BY <2>4, <2>5 DEF Iterated
  <2>7. QED BY <1>5, <2>6
<1>8. PICK P : P = {i \in Nat : i <= n => f[i] \in V} OBVIOUS
<1>9. 0 \in P BY <1>2, <1>7, <1>8
<1>10. ASSUME NEW i \in Nat, i \in P PROVE i + 1 \in P BY <1>4, <1>7, <1>8, <1>10
<1>11. f[n] \in V BY <1>1, <1>8, <1>9, <1>10, StepByStep
<1>12. QED BY <1>2, <1>6, <1>11

\* A round does so for every user, and three rounds on the base give the weights.
Refs(S) == [S -> Seq(Accounts)]
LEMMA SortedUsers ==
  ASSUME NEW S \in SUBSET Accounts
  PROVE  \E n \in Nat : DOMAIN Sorted(S) = 1..n /\ Len(Sorted(S)) = n /\ n = Cardinality(S)
                        /\ Different(Sorted(S)) /\ \A i \in 1..n : Sorted(S)[i] \in S
<1>1. S \in SUBSET Nat /\ IsFiniteSet(S) BY UsersAssumption, FS_Subset
<1>2. PICK n \in Nat : n = Cardinality(S) BY <1>1, FS_CardinalityType
<1>3. PICK s : s = Sorted(S) OBVIOUS
<1>4. s = ByRank(S) BY <1>3 DEF Sorted, ByRank
<1>5. DOMAIN s = 1..n /\ Different(s) /\ \A i \in 1..n : s[i] \in S BY <1>1, <1>2, <1>4, ListOfRanks
<1>6. Len(s) = n BY <1>2, <1>5, LenOfFunction
<1>7. QED BY <1>2, <1>3, <1>5, <1>6

LEMMA RoundIs ==
  ASSUME NEW S \in SUBSET Accounts, NEW weight \in TrustWeights(S), NEW by \in Refs(S)
  PROVE  /\ Round(weight, by) \in TrustWeights(S)
         /\ \A x \in S : Round(weight, by)[x] # weight[x] => Guaranteed(x, by[x])
<1>1. PICK us : us = Sorted(S) OBVIOUS
<1>2. PICK n \in Nat : Len(us) = n /\ \A i \in 1..n : us[i] \in S BY <1>1, SortedUsers
<1>3. PICK V : V = {w \in TrustWeights(S) : \A x \in S : w[x] # weight[x] => Guaranteed(x, by[x])} OBVIOUS
<1>. DEFINE Next(i, w) == Step(w, us[i], by[us[i]])
<1>4. ASSUME NEW i \in 1..n, NEW w \in V PROVE Next(i, w) \in V BY <1>2, <1>3, StepIs DEF Refs
<1>5. PICK f : f = CHOOSE x : x = [i \in 0..n |-> IF i = 0 THEN weight ELSE Next(i, x[i - 1])] OBVIOUS
<1>6. Round(weight, by) = f[n] BY <1>1, <1>2, <1>5 DEF Refs, Round
<1>. HIDE DEF Next
<1>7. f = [i \in 0..n |-> IF i = 0 THEN weight ELSE Next(i, f[i - 1])]
  <2>1. PICK st : st = [p \in (1..n) \X V |-> Next(p[1], p[2])] OBVIOUS
  <2>2. st \in [(1..n) \X V -> V] BY <1>4, <2>1
  <2>3. weight \in V BY <1>3
  <2>4. PICK g \in [0..n -> V] : Iterated(g, n, weight, st) BY <1>2, <2>2, <2>3, LoopDefines
  <2>5. ASSUME NEW i \in 0..n, i # 0 PROVE st[<<i, g[i - 1]>>] = Next(i, g[i - 1]) BY <2>1, <2>4, <2>5
  <2>6. g = [i \in 0..n |-> IF i = 0 THEN weight ELSE Next(i, g[i - 1])] BY <2>4, <2>5 DEF Iterated
  <2>7. QED BY <1>5, <2>6
<1>8. PICK P : P = {i \in Nat : i <= n => f[i] \in V} OBVIOUS
<1>9. 0 \in P BY <1>3, <1>7, <1>8
<1>10. ASSUME NEW i \in Nat, i \in P PROVE i + 1 \in P BY <1>4, <1>7, <1>8, <1>10
<1>11. f[n] \in V BY <1>2, <1>8, <1>9, <1>10, StepByStep
<1>12. QED BY <1>3, <1>6, <1>11

LEMMA RoundsAre ==
  ASSUME NEW S \in SUBSET Accounts, NEW weight \in TrustWeights(S), NEW by \in Refs(S)
  PROVE  /\ Rounds(weight, by) \in TrustWeights(S)
         /\ \A x \in S : Rounds(weight, by)[x] # weight[x] => Guaranteed(x, by[x])
BY RoundIs DEF Rounds

UserBlocks(us) == DOMAIN us \in SUBSET Accounts /\ us \in [DOMAIN us -> UserBlock]

LEMMA CascadeIs ==
  ASSUME NEW us, UserBlocks(us)
  PROVE  /\ Cascade(us) \in TrustWeights(DOMAIN us)
         /\ \A u \in DOMAIN us : Cascade(us)[u] # Base => Guaranteed(u, us[u].by)
<1>1. PICK S \in SUBSET Accounts : S = DOMAIN us BY DEF UserBlocks
<1>2. References(us) = [u \in S |-> us[u].by] BY <1>1 DEF References
<1>3. \A u \in S : us[u].by \in Seq(Accounts) BY <1>1 DEF UserBlocks, UserBlock
<1>4. PICK r \in Refs(S) : r = References(us) /\ \A u \in S : r[u] = us[u].by BY <1>2, <1>3 DEF Refs
<1>5. PICK w \in TrustWeights(S) : w = [u \in S |-> Base]
  <2>1. Base \in 0..MaxWeight BY UsersAssumption DEF Base
  <2>2. [u \in S |-> Base] \in TrustWeights(S) BY <2>1 DEF TrustWeights
  <2>3. QED BY <2>2
<1>6. PICK c : c = Rounds(w, r) OBVIOUS
<1>7. c = Cascade(us) BY <1>1, <1>4, <1>5, <1>6 DEF Cascade
<1>8. c \in TrustWeights(S) /\ \A u \in S : c[u] # w[u] => Guaranteed(u, r[u]) BY <1>6, RoundsAre
<1>9. QED BY <1>1, <1>4, <1>5, <1>7, <1>8

-----------------------------------------------------------------------------
(* The recovery of a debt: each round takes from the limits and bonds what *)
(* it takes off the debt.                                                  *)
Bond == [total : Nat, status : {"active", "released", "forfeited"}]
Block == [seed : BOOLEAN, role : Roles, by : Seq(Accounts), salary : Nat, games : Nat,
          weight : 0..MaxWeight, limit : Nat]
Limits(us) == [u \in DOMAIN us |-> us[u].limit]
Games(us) == [u \in DOMAIN us |-> us[u].games]
Totals(bs) == [b \in DOMAIN bs |-> bs[b].total]
SumOn(f) == SumFunctionOnSet(f, DOMAIN f)

Bonds(bs) == DOMAIN bs \in SUBSET (Accounts \X Accounts) /\ bs \in [DOMAIN bs -> Bond]
Blocks(us) == DOMAIN us \in SUBSET Accounts /\ us \in [DOMAIN us -> Block]
\* The users but for weights and limits.
SameBut(us, vs) == DOMAIN us = DOMAIN vs /\ References(us) = References(vs) /\ Games(us) = Games(vs)

Recovery(s, vs, sum) ==
  /\ s = [us |-> s.us, bs |-> s.bs, who |-> s.who, going |-> s.going, due |-> s.due]
  /\ Blocks(s.us) /\ Bonds(s.bs) /\ s.due \in Nat /\ SameBut(s.us, vs)
  /\ SumOn(Limits(s.us)) + SumOn(Totals(s.bs)) = sum + s.due

LEMMA SumsOfUsers ==
  ASSUME NEW us, Blocks(us)
  PROVE  /\ IsFiniteSet(DOMAIN us) /\ DOMAIN Limits(us) = DOMAIN us /\ DOMAIN Games(us) = DOMAIN us
         /\ \A u \in DOMAIN us : Limits(us)[u] \in Nat /\ Games(us)[u] \in Nat
         /\ SumOn(Limits(us)) \in Nat /\ SumOn(Games(us)) \in Nat
BY UsersAssumption, FS_Subset, SumNat DEF Blocks, Limits, Games, Block, SumOn

LEMMA SumOfBonds ==
  ASSUME NEW bs, Bonds(bs)
  PROVE  /\ IsFiniteSet(DOMAIN bs) /\ DOMAIN Totals(bs) = DOMAIN bs
         /\ \A b \in DOMAIN bs : Totals(bs)[b] \in Nat
         /\ SumOn(Totals(bs)) \in Nat
<1>1. IsFiniteSet(DOMAIN bs) BY UsersAssumption, FS_Product, FS_Subset DEF Bonds
<1>2. DOMAIN Totals(bs) = DOMAIN bs BY DEF Totals
<1>3. \A b \in DOMAIN bs : Totals(bs)[b] \in Nat BY DEF Totals, Bonds, Bond
<1>4. SumOn(Totals(bs)) \in Nat BY <1>1, <1>2, <1>3, SumNat DEF SumOn
<1>5. QED BY <1>1, <1>2, <1>3, <1>4

\* A user whose limit and weight change.
Changed(us, u, l, w) == [us EXCEPT ![u].limit = l, ![u].weight = w]
LEMMA LimitChanged ==
  ASSUME NEW us, Blocks(us), NEW u \in DOMAIN us, NEW l \in Nat, NEW w \in 0..MaxWeight, NEW vs,
         vs = Changed(us, u, l, w)
  PROVE  /\ Blocks(vs) /\ SameBut(vs, us)
         /\ SumOn(Limits(vs)) = SumOn(Limits(us)) - us[u].limit + l
<1>1. DOMAIN vs = DOMAIN us /\ vs = [x \in DOMAIN us |-> vs[x]] BY DEF Changed
<1>2. us[u] \in Block BY DEF Blocks
<1>3. vs[u] = [us[u] EXCEPT !.limit = l, !.weight = w] /\ \A x \in DOMAIN us : x # u => vs[x] = us[x]
  BY DEF Blocks, Changed
<1>4. vs[u] \in Block BY <1>2, <1>3 DEF Block
<1>5. \A x \in DOMAIN us : vs[x] \in Block BY <1>3, <1>4 DEF Blocks
<1>6. Blocks(vs) BY <1>1, <1>5 DEF Blocks
<1>7. \A x \in DOMAIN us : vs[x].by = us[x].by /\ vs[x].games = us[x].games BY <1>2, <1>3 DEF Block
<1>8. SameBut(vs, us) BY <1>1, <1>7 DEF SameBut, References, Games
<1>9. PICK S : S = DOMAIN us OBVIOUS
<1>10. PICK f : f = Limits(us) OBVIOUS
<1>11. PICK g : g = Limits(vs) OBVIOUS
<1>12. IsFiniteSet(S) /\ DOMAIN f = S /\ DOMAIN g = S BY <1>1, <1>9, <1>10, <1>11, SumsOfUsers DEF Limits
<1>13. \A x \in S : f[x] \in Nat BY <1>9, <1>10, SumsOfUsers
<1>14. f[u] = us[u].limit BY <1>10 DEF Limits
<1>15. g[u] = l BY <1>1, <1>2, <1>3, <1>11 DEF Limits, Block
<1>16. \A x \in S \ {u} : g[x] = f[x] BY <1>1, <1>3, <1>9, <1>10, <1>11 DEF Limits
<1>17. SumFunctionOnSet(g, S) = SumFunctionOnSet(f, S) - f[u] + g[u] BY <1>9, <1>12, <1>13, <1>15, <1>16, SumChange
<1>18. QED BY <1>6, <1>8, <1>10, <1>11, <1>12, <1>14, <1>15, <1>17 DEF SumOn

LEMMA TotalChanged ==
  ASSUME NEW bs, Bonds(bs), NEW b \in DOMAIN bs, NEW t \in Nat, NEW cs, cs = [bs EXCEPT ![b].total = t]
  PROVE  Bonds(cs) /\ SumOn(Totals(cs)) = SumOn(Totals(bs)) - bs[b].total + t
<1>1. DOMAIN cs = DOMAIN bs OBVIOUS
<1>2. bs[b] \in Bond BY DEF Bonds
<1>3. cs[b] = [bs[b] EXCEPT !.total = t] /\ \A x \in DOMAIN bs : x # b => cs[x] = bs[x] BY DEF Bonds
<1>4. cs[b] \in Bond BY <1>2, <1>3 DEF Bond
<1>5. \A x \in DOMAIN bs : cs[x] \in Bond BY <1>3, <1>4 DEF Bonds
<1>6. Bonds(cs) BY <1>1, <1>5 DEF Bonds
<1>9. PICK S : S = DOMAIN bs OBVIOUS
<1>10. PICK f : f = Totals(bs) OBVIOUS
<1>11. PICK g : g = Totals(cs) OBVIOUS
<1>12. IsFiniteSet(S) /\ DOMAIN f = S /\ DOMAIN g = S BY <1>1, <1>9, <1>10, <1>11, SumOfBonds DEF Totals
<1>13. \A x \in S : f[x] \in Nat BY <1>9, <1>10, SumOfBonds
<1>14. f[b] = bs[b].total BY <1>10 DEF Totals
<1>15. g[b] = t BY <1>1, <1>2, <1>3, <1>11 DEF Totals, Bond
<1>16. \A x \in S \ {b} : g[x] = f[x] BY <1>1, <1>3, <1>9, <1>10, <1>11 DEF Totals
<1>17. SumFunctionOnSet(g, S) = SumFunctionOnSet(f, S) - f[b] + g[b] BY <1>9, <1>12, <1>13, <1>15, <1>16, SumChange
<1>18. QED BY <1>6, <1>10, <1>11, <1>12, <1>14, <1>15, <1>17 DEF SumOn

LEMMA FirstForfeitedIs ==
  ASSUME NEW s, Bonds(s.bs), ForfeitedOf(s) # {} PROVE FirstForfeited(s) \in ForfeitedOf(s)
<1>1. PICK F : F = ForfeitedOf(s) OBVIOUS
<1>2. \A b \in F : b[1] \in Nat BY <1>1, UsersAssumption DEF ForfeitedOf, Bonds
<1>3. PICK N : N = {b[1] : b \in F} OBVIOUS
<1>4. N \in SUBSET Nat /\ N # {} BY <1>1, <1>2, <1>3
<1>5. PICK n \in N : \A m \in N : n <= m BY <1>4, SmallestNumber
<1>6. PICK b \in F : b[1] = n BY <1>3, <1>5
<1>7. \A c \in F : b[1] <= c[1] BY <1>3, <1>5, <1>6
<1>8. FirstForfeited(s) = CHOOSE x \in F : \A c \in F : x[1] <= c[1] BY <1>1 DEF FirstForfeited
<1>9. QED BY <1>1, <1>7, <1>8

LEMMA RecoverIs ==
  ASSUME NEW s, NEW vs, NEW sum \in Int, Recovery(s, vs, sum) PROVE Recovery(Recover(s), vs, sum)
<1>1. /\ s = [us |-> s.us, bs |-> s.bs, who |-> s.who, going |-> s.going, due |-> s.due]
      /\ Blocks(s.us) /\ Bonds(s.bs) /\ s.due \in Nat /\ SameBut(s.us, vs)
      /\ SumOn(Limits(s.us)) + SumOn(Totals(s.bs)) = sum + s.due
  BY DEF Recovery
<1>2. PICK t : t = Recover(s) OBVIOUS
<1>3. CASE ~s.going \/ s.due = 0 \/ ForfeitedOf(s) = {} BY <1>1, <1>2, <1>3 DEF Recover, Recovery
<1>4. CASE ~(~s.going \/ s.due = 0 \/ ForfeitedOf(s) = {})
  <2>1. PICK b : b = FirstForfeited(s) OBVIOUS
  <2>2. b \in DOMAIN s.bs /\ b[1] \in DOMAIN s.us BY <1>1, <1>4, <2>1, FirstForfeitedIs DEF ForfeitedOf
  <2>3. PICK g \in DOMAIN s.us : g = b[1] BY <2>2
  <2>4. PICK due \in Nat, total \in Nat, limit \in Nat, weight \in 0..MaxWeight :
          due = s.due /\ total = s.bs[b].total /\ limit = s.us[g].limit /\ weight = s.us[g].weight
    BY <1>1, <2>2, <2>3 DEF Bonds, Blocks, Bond, Block
  <2>5. PICK fromBond \in Nat : fromBond = Taken(total, due) /\ fromBond <= total /\ fromBond <= due
    BY DEF Taken, Least
  <2>6. PICK left \in Nat : left = due - fromBond BY <2>5
  <2>7. PICK fromLimit \in Nat : fromLimit = Taken(limit, left) /\ fromLimit <= limit /\ fromLimit <= left
    BY DEF Taken, Least
  <2>8. PICK w \in 0..MaxWeight : w = IF fromLimit > 0 THEN (weight * 8) \div 10 ELSE weight BY UsersAssumption
  <2>9. PICK l \in Nat, m \in Nat : l = limit - fromLimit /\ m = total - fromBond BY <2>5, <2>7
  <2>10. PICK us, bs : us = Changed(s.us, g, l, w) /\ bs = [s.bs EXCEPT ![b].total = m]
    OBVIOUS
  <2>11. /\ Blocks(us) /\ SameBut(us, s.us)
         /\ SumOn(Limits(us)) = SumOn(Limits(s.us)) - limit + l BY <1>1, <2>4, <2>10, LimitChanged
  <2>12. Bonds(bs) /\ SumOn(Totals(bs)) = SumOn(Totals(s.bs)) - total + m
    BY <1>1, <2>2, <2>4, <2>10, TotalChanged
  <2>13. t = [us |-> us, bs |-> bs, who |-> g, going |-> s.going, due |-> left - fromLimit]
    <3>1. t = [s EXCEPT !.bs[b].total = @ - fromBond, !.us[g].limit = @ - fromLimit,
                        !.us[g].weight = IF fromLimit > 0 THEN (@ * 8) \div 10 ELSE @,
                        !.due = left - fromLimit, !.who = g]
      BY <1>2, <1>4, <2>1, <2>3, <2>4, <2>5, <2>6, <2>7 DEF Recover
    <3>2. PICK c : c = s.bs[b] OBVIOUS
    <3>3. PICK v : v = s.us[g] OBVIOUS
    <3>4. c \in Bond /\ v \in Block BY <1>1, <2>2, <3>2, <3>3 DEF Bonds, Blocks
    <3>5. bs = [s.bs EXCEPT ![b].total = @ - fromBond] BY <2>4, <2>9, <2>10
    <3>6. us = [s.us EXCEPT ![g].limit = @ - fromLimit, ![g].weight = IF fromLimit > 0 THEN (@ * 8) \div 10 ELSE @]
      BY <1>1, <2>3, <2>4, <2>8, <2>9, <2>10, <3>3, <3>4 DEF Blocks, Block, Changed
    <3>7. t = [s EXCEPT !.bs = bs, !.us = us, !.due = left - fromLimit, !.who = g]
      BY <1>1, <3>1, <3>5, <3>6
    <3>8. QED BY <1>1, <3>7
  <2>14. PICK d \in Nat : d = left - fromLimit BY <2>7
  <2>15. SameBut(us, vs) BY <1>1, <2>11 DEF SameBut
  <2>16. SumOn(Limits(us)) + SumOn(Totals(bs)) = sum + d
    BY <1>1, <2>4, <2>6, <2>9, <2>11, <2>12, <2>14, SumsOfUsers, SumOfBonds
  <2>17. /\ t = [us |-> t.us, bs |-> t.bs, who |-> t.who, going |-> t.going, due |-> t.due]
         /\ t.us = us /\ t.bs = bs /\ t.due = d BY <2>13, <2>14
  <2>18. QED BY <1>2, <2>11, <2>12, <2>15, <2>16, <2>17 DEF Recovery
<1>5. QED BY <1>3, <1>4

\* What the debtor pays itself.
LEMMA DebitedIs ==
  ASSUME Blocks(users), NEW u \in DOMAIN users, NEW debt \in Nat, NEW vs, vs = Debited(u, debt)
  PROVE  /\ Blocks(vs) /\ SameBut(vs, users)
         /\ debt - Taken(users[u].limit, debt) \in Nat
         /\ SumOn(Limits(vs)) = SumOn(Limits(users)) - Taken(users[u].limit, debt)
<1>1. users[u] \in Block BY DEF Blocks
<1>2. PICK limit \in Nat, weight \in 0..MaxWeight : limit = users[u].limit /\ weight = users[u].weight
  BY <1>1 DEF Block
<1>3. PICK spent \in Nat : spent = Taken(limit, debt) /\ spent <= limit /\ spent <= debt BY DEF Taken, Least
<1>4. PICK l \in Nat, w \in 0..MaxWeight :
        l = limit - spent /\ w = IF limit >= debt THEN (weight * 9) \div 10 ELSE 0 BY <1>3, UsersAssumption
<1>5. vs = Changed(users, u, l, w)
  <2>1. CASE limit >= debt
    <3>1. spent = debt BY <1>3, <2>1 DEF Taken, Least
    <3>2. vs = [users EXCEPT ![u].limit = @ - debt, ![u].weight = (@ * 9) \div 10] BY <1>2, <2>1 DEF Debited
    <3>3. QED BY <1>1, <1>2, <1>4, <2>1, <3>1, <3>2 DEF Blocks, Block, Changed
  <2>2. CASE ~(limit >= debt)
    <3>1. spent = limit BY <1>3, <2>2 DEF Taken, Least
    <3>2. l = 0 /\ w = 0 BY <1>4, <2>2, <3>1
    <3>3. QED BY <1>2, <2>2, <3>2 DEF Debited, Changed
  <2>3. QED BY <2>1, <2>2
<1>6. Blocks(vs) /\ SameBut(vs, users) /\ SumOn(Limits(vs)) = SumOn(Limits(users)) - limit + l
  BY <1>2, <1>5, LimitChanged
<1>7. PICK x \in Nat : x = SumOn(Limits(users)) BY SumsOfUsers
<1>8. x - limit + l = x - spent BY <1>3, <1>4
<1>9. debt - spent \in Nat BY <1>3
<1>10. QED BY <1>2, <1>3, <1>6, <1>7, <1>8, <1>9

\* A debt that is recovered.
Owed(u, debt) == debt - Taken(users[u].limit, debt)
Recovering(u, debt) == [us |-> Debited(u, debt), bs |-> bonds, who |-> u, going |-> TRUE, due |-> Owed(u, debt)]
LiableTo(u, debt, end) ==
  LET covered == end.due <= pool.bad IN
  /\ u \in DOMAIN users /\ users' = end.us /\ bonds' = end.bs
  /\ pool' = IF covered THEN [pool EXCEPT !.bad = @ - end.due, !.total = Plus(@, -end.due)] ELSE pool
  /\ liability' = [id |-> liability.id + 1, debt |-> debt, covered |-> covered]
  /\ fresh' = TRUE /\ UNCHANGED <<calls, vouched, shared>>

LEMMA LiableIs ==
  ASSUME Blocks(users), Bonds(bonds), NEW u, NEW debt \in Nat, Liable(u, debt)
  PROVE  \E end : \E sum \in Int :
           /\ Recovery(end, users, sum) /\ LiableTo(u, debt, end)
           /\ SumOn(Limits(users)) + SumOn(Totals(bonds)) = sum + debt
<1>0. u \in DOMAIN users BY DEF Liable, Registered
<1>1. PICK start : start = Recovering(u, debt) OBVIOUS
<1>2. PICK x \in Nat, y \in Nat : x = SumOn(Limits(users)) /\ y = SumOn(Totals(bonds))
  BY SumsOfUsers, SumOfBonds
<1>3. PICK sum \in Int : sum = x + y - debt OBVIOUS
<1>4. Recovery(start, users, sum)
  <2>1. PICK vs : vs = Debited(u, debt) OBVIOUS
  <2>2. PICK spent \in Nat : spent = Taken(users[u].limit, debt) BY <1>0 DEF Blocks, Block, Taken, Least
  <2>3. Blocks(vs) /\ SameBut(vs, users) /\ debt - spent \in Nat /\ SumOn(Limits(vs)) = x - spent
    BY <1>0, <1>2, <2>1, <2>2, DebitedIs
  <2>4. start = [us |-> vs, bs |-> bonds, who |-> u, going |-> TRUE, due |-> debt - spent]
    BY <1>1, <2>1, <2>2 DEF Recovering, Owed
  <2>5. (x - spent) + y = sum + (debt - spent) BY <1>3
  <2>6. SumOn(Limits(start.us)) + SumOn(Totals(start.bs)) = sum + start.due BY <1>2, <2>3, <2>4, <2>5
  <2>7. QED BY <2>3, <2>4, <2>6 DEF Recovery
<1>5. PICK P : P = {n \in Nat : n <= 5 => \A f : f = [i \in 0..5 |-> IF i = 0 THEN start ELSE Recover(f[i - 1])]
                                           => Recovery(f[n], users, sum)} OBVIOUS
<1>6. 0 \in P BY <1>4, <1>5
<1>7. ASSUME NEW n \in Nat, n \in P PROVE n + 1 \in P BY <1>5, <1>7, RecoverIs
<1>8. PICK f : f = CHOOSE g : g = [i \in 0..5 |-> IF i = 0 THEN start ELSE Recover(g[i - 1])] OBVIOUS
<1>9. f = [i \in 0..5 |-> IF i = 0 THEN start ELSE Recover(f[i - 1])]
  <2>1. PICK a : a = Recover(start) OBVIOUS
  <2>2. PICK b : b = Recover(a) OBVIOUS
  <2>3. PICK c : c = Recover(b) OBVIOUS
  <2>4. PICK d : d = Recover(c) OBVIOUS
  <2>5. PICK e : e = Recover(d) OBVIOUS
  <2>6. PICK g : g = [i \in 0..5 |-> IF i = 0 THEN start ELSE IF i = 1 THEN a ELSE IF i = 2 THEN b
                                     ELSE IF i = 3 THEN c ELSE IF i = 4 THEN d ELSE e] OBVIOUS
  <2>7. \A i \in 0..5 : g[i] = IF i = 0 THEN start ELSE Recover(g[i - 1]) BY <2>1, <2>2, <2>3, <2>4, <2>5, <2>6
  <2>8. g = [i \in 0..5 |-> IF i = 0 THEN start ELSE Recover(g[i - 1])] BY <2>6, <2>7
  <2>9. QED BY <1>8, <2>8
<1>10. PICK end : end = f[5] OBVIOUS
<1>11. Recovery(end, users, sum) BY <1>5, <1>6, <1>7, <1>9, <1>10, StepByStep
<1>12. LiableTo(u, debt, end)
  BY <1>0, <1>1, <1>8, <1>10 DEF Liable, LiableTo, Recovering, Owed, Registered
<1>13. x + y = sum + debt BY <1>3
<1>14. QED BY <1>2, <1>11, <1>12, <1>13

-----------------------------------------------------------------------------
(* Words: what is added wraps, and a total follows its parts.              *)
LEMMA Wrapped == ASSUME NEW x \in Int PROVE x % Wrap \in 0..(Wrap - 1) /\ x % Wrap \in Nat
<1>1. Wrap \in Nat /\ Wrap # 0 BY UsersAssumption
<1>2. x % Wrap \in 0..(Wrap - 1) BY <1>1, DivisionWithRest
<1>3. QED BY <1>1, <1>2

LEMMA Wraps ==
  ASSUME NEW x \in Int PROVE x % Wrap \in Nat /\ \E k \in Int : x % Wrap = x + k * Wrap
<1>1. PICK W \in Nat : W = Wrap /\ W # 0 BY UsersAssumption
<1>2. x = W * (x \div W) + (x % W) /\ x \div W \in Int /\ x % W \in 0..(W - 1) BY <1>1, DivisionWithRest
<1>3. PICK q \in Int, y \in Nat : q = x \div W /\ y = x % W BY <1>1, <1>2
<1>4. PICK m \in Int : m = W * q BY <1>1, <1>3
<1>5. (-q) * W = -m BY <1>1, <1>3, <1>4
<1>6. y = x + (-m) BY <1>2, <1>3, <1>4
<1>7. -q \in Int BY <1>3
<1>8. QED BY <1>1, <1>3, <1>5, <1>6, <1>7

LEMMA PlusIs ==
  ASSUME NEW x \in Int, NEW n \in Int
  PROVE  Plus(x, n) \in Nat /\ \E k \in Int : Plus(x, n) = x + n + k * Wrap
<1>1. PICK y \in Int : y = x + n OBVIOUS
<1>2. Plus(x, n) = y % Wrap BY <1>1 DEF Plus
<1>3. QED BY <1>1, <1>2, Wraps

LEMMA SmallSum ==
  ASSUME NEW x \in Nat, NEW n \in Nat PROVE Plus(x, n) <= x + n
<1>1. PICK W \in Nat : W = Wrap /\ W # 0 BY UsersAssumption
<1>2. PICK y \in Nat : y = x + n OBVIOUS
<1>3. y = W * (y \div W) + (y % W) /\ y \div W \in Int /\ y % W \in 0..(W - 1) BY <1>1, DivisionWithRest
<1>4. PICK q \in Int, z \in 0..(W - 1) : q = y \div W /\ z = y % W BY <1>3
<1>5. q >= 0
  <2>1. SUFFICES ASSUME q < 0 PROVE FALSE BY <1>4
  <2>2. PICK m \in Nat : q = -(m + 1) BY <1>4, <2>1
  <2>3. PICK v \in Nat : v = W * m BY <1>1, <2>2
  <2>4. W * q = -(v + W) BY <1>1, <2>2, <2>3
  <2>5. QED BY <1>1, <1>2, <1>3, <1>4, <2>3, <2>4
<1>6. PICK v \in Nat : v = W * q BY <1>1, <1>4, <1>5
<1>7. z <= y BY <1>2, <1>3, <1>4, <1>6
<1>8. QED BY <1>1, <1>2, <1>4, <1>7 DEF Plus

LEMMA SameWords ==
  ASSUME NEW x \in Int, NEW y \in Int, NEW i \in Int, x = y + i * Wrap
  PROVE  x % Wrap = y % Wrap
<1>1. Wrap \in Nat /\ Wrap # 0 BY UsersAssumption
<1>2. QED BY <1>1, SameRest

LEMMA TotalFollows ==
  ASSUME NEW sum \in Int, NEW total, total = sum % Wrap, NEW d \in Int, NEW k \in Int, NEW next \in Int,
         next = sum + d + k * Wrap
  PROVE  Plus(total, d) = next % Wrap
<1>1. PICK W \in Nat : W = Wrap /\ W # 0 BY UsersAssumption
<1>9. PICK j \in Int : sum % Wrap = sum + j * Wrap BY Wraps
<1>10. PICK t \in Int : t = total BY Wraps
<1>2. t = sum + j * W BY <1>1, <1>9, <1>10
<1>3. PICK x \in Int, y \in Int : x = j * W /\ y = k * W BY <1>1, <1>9
<1>4. PICK i \in Int : i = j - k BY <1>9
<1>5. i * W = x - y BY <1>1, <1>3, <1>4, <1>9
<1>6. PICK a \in Int : a = t + d BY <1>10
<1>7. a = next + i * W BY <1>1, <1>2, <1>3, <1>5, <1>6, <1>10
<1>11. a = next + i * Wrap BY <1>1, <1>7
<1>8. a % Wrap = next % Wrap BY <1>4, <1>6, <1>11, SameWords
<1>12. QED BY <1>1, <1>6, <1>8, <1>10 DEF Plus

LEMMA Adds ==
  ASSUME NEW x \in Nat, NEW n \in Nat
  PROVE  \E y \in Nat : y = Plus(x, n) /\ \E k \in Int : y = x + n + k * Wrap
<1>1. x \in Int /\ n \in Int OBVIOUS
<1>2. Plus(x, n) \in Nat /\ \E k \in Int : Plus(x, n) = x + n + k * Wrap BY <1>1, PlusIs
<1>3. QED BY <1>2

LEMMA PlusType == ASSUME NEW x \in Int, NEW n \in Int PROVE Plus(x, n) \in Nat
BY PlusIs

-----------------------------------------------------------------------------
(* Types, the pool, and the weights of the last cascade.                   *)
Vouchings == DOMAIN vouched = DOMAIN users /\ \A u \in DOMAIN users : vouched[u] \in SUBSET DOMAIN users

\* A pool whose total is, in words, its parts, the shares and what is lost.
PartsOf(p) == p.relay + p.record + p.seed + p.bad + p.community + p.games
PoolFits(p) ==
  /\ p \in PoolRecord /\ p.total = (PartsOf(p) + p.shares + p.lost) % Wrap
  /\ p.wide \/ p.lost <= 4 * p.fees

\* What a caller holds: the user it writes earned nothing, and the pool fits.
Holds(call, U) ==
  /\ call.what \in {"register", "admitted", "described"} => call.who \in Accounts
  /\ call.what \in {"admitted", "described"} => call.by \in SUBSET U
  /\ call.what = "described" => call.user \in Block /\ call.user.games = 0
  /\ call.what = "pool" => PoolFits(call.next)
  /\ call.what \in {"pool", "earned"} => call.earned.a \in Nat /\ call.earned.s \in Nat
CallsInv == calls = [c \in Callers |-> calls[c]] /\ \A c \in Callers : Holds(calls[c], DOMAIN users)

UsersTypes ==
  /\ Blocks(users) /\ Bonds(bonds) /\ Vouchings /\ CallsInv
  /\ fresh \in BOOLEAN /\ shared \in Nat /\ liability \in [id : Nat, debt : Nat, covered : BOOLEAN]

PoolInv == PoolFits(pool) /\ SumOn(Games(users)) <= shared

WeightsInv == ~fresh => \A u \in DOMAIN users : users[u].weight = Cascade(users)[u]

UsersInv == UsersTypes /\ PoolInv /\ WeightsInv

\* A caller that holds something else while no user goes.
LEMMA CallSet ==
  ASSUME CallsInv, NEW c \in Callers, NEW call, calls' = [calls EXCEPT ![c] = call],
         DOMAIN users \subseteq DOMAIN users', Holds(call, DOMAIN users')
  PROVE  CallsInv'
<1>1. calls' = [x \in Callers |-> calls'[x]] /\ calls'[c] = call /\ \A x \in Callers : x # c => calls'[x] = calls[x]
  BY DEF CallsInv
<1>2. ASSUME NEW x \in Callers, x # c PROVE Holds(calls'[x], DOMAIN users')
  <2>1. Holds(calls[x], DOMAIN users) /\ calls'[x] = calls[x] BY <1>1, <1>2 DEF CallsInv
  <2>2. QED BY <2>1 DEF Holds
<1>3. QED BY <1>1, <1>2 DEF CallsInv

LEMMA CallKept ==
  ASSUME CallsInv, calls' = calls, DOMAIN users' = DOMAIN users PROVE CallsInv'
BY DEF CallsInv

LEMMA SameCascade ==
  ASSUME NEW us, NEW vs, DOMAIN us = DOMAIN vs, References(us) = References(vs) PROVE Cascade(us) = Cascade(vs)
BY DEF Cascade

LEMMA BlocksAreUsers == ASSUME NEW us, Blocks(us) PROVE UserBlocks(us)
<1>1. ASSUME NEW u \in DOMAIN us PROVE us[u] \in UserBlock BY UsersAssumption DEF Blocks, Block, UserBlock
<1>2. QED BY <1>1 DEF Blocks, UserBlocks

\* A user of which something else than weight, limit and references changes.
Replaced(us, u, entry) == [us EXCEPT ![u] = entry]
LEMMA BlockChanged ==
  ASSUME NEW us, NEW u, NEW old, NEW entry, NEW vs, Blocks(us), u \in DOMAIN us, old = us[u], entry \in Block,
         vs = Replaced(us, u, entry)
  PROVE  /\ Blocks(vs) /\ DOMAIN vs = DOMAIN us
         /\ SumOn(Games(vs)) = SumOn(Games(us)) - old.games + entry.games
         /\ entry.by = old.by => References(vs) = References(us)
         /\ vs[u] = entry
         /\ \A x \in DOMAIN us : x # u => vs[x] = us[x]
<1>1. DOMAIN vs = DOMAIN us /\ vs = [x \in DOMAIN us |-> vs[x]] BY DEF Replaced
<1>2. vs[u] = entry /\ \A x \in DOMAIN us : x # u => vs[x] = us[x] BY DEF Blocks, Replaced
<1>3. \A x \in DOMAIN us : vs[x] \in Block BY <1>2 DEF Blocks
<1>4. Blocks(vs) BY <1>1, <1>3 DEF Blocks
<1>5. entry.by = us[u].by => References(vs) = References(us) BY <1>1, <1>2 DEF References
<1>9. PICK S : S = DOMAIN us OBVIOUS
<1>10. PICK f : f = Games(us) OBVIOUS
<1>11. PICK g : g = Games(vs) OBVIOUS
<1>12. IsFiniteSet(S) /\ DOMAIN f = S /\ DOMAIN g = S BY <1>1, <1>9, <1>10, <1>11, SumsOfUsers DEF Games
<1>13. \A x \in S : f[x] \in Nat BY <1>9, <1>10, SumsOfUsers
<1>14. f[u] = us[u].games BY <1>10 DEF Games
<1>15. g[u] = entry.games /\ entry.games \in Nat BY <1>1, <1>2, <1>11 DEF Games, Block
<1>16. \A x \in S \ {u} : g[x] = f[x] BY <1>1, <1>2, <1>9, <1>10, <1>11 DEF Games
<1>17. SumFunctionOnSet(g, S) = SumFunctionOnSet(f, S) - f[u] + g[u] BY <1>9, <1>12, <1>13, <1>15, <1>16, SumChange
<1>18. QED BY <1>1, <1>2, <1>4, <1>5, <1>10, <1>11, <1>12, <1>14, <1>15, <1>17 DEF SumOn

\* The steps of a registration that write nothing.
LEMMA Admitting ==
  ASSUME UsersInv, NEW c \in Callers,
         (\E a \in Accounts, creds \in Seq(Credential) : RegisterUser(c, a, creds)) \/ Admit(c) \/ Describe(c)
  PROVE  UsersInv' /\ UNCHANGED <<users, bonds, pool, vouched, fresh, liability, shared>>
<1>0. CallsInv /\ Holds(calls[c], DOMAIN users) BY DEF UsersInv, UsersTypes, CallsInv
<1>1. UNCHANGED <<users, bonds, pool, vouched, fresh, liability, shared>> BY DEF RegisterUser, Admit, Describe
<1>2. ASSUME NEW a \in Accounts, NEW creds \in Seq(Credential), RegisterUser(c, a, creds) PROVE CallsInv'
  <2>1. PICK call : call = [what |-> "register", who |-> a, creds |-> creds] OBVIOUS
  <2>2. calls' = [calls EXCEPT ![c] = call] BY <1>2, <2>1 DEF RegisterUser
  <2>3. Holds(call, DOMAIN users') BY <2>1 DEF Holds
  <2>4. QED BY <1>0, <1>1, <2>2, <2>3, CallSet
<1>3. ASSUME Admit(c) PROVE CallsInv'
  <2>1. PICK creds : creds = calls[c].creds OBVIOUS
  <2>2. PICK V : V = {i \in DOMAIN creds : Valid(creds[i])} OBVIOUS
  <2>3. PICK I : I = IF GenesisPhase THEN {} ELSE {creds[i].inviter : i \in V} OBVIOUS
  <2>4. I \in SUBSET DOMAIN users BY <2>2, <2>3 DEF Valid, Registered
  <2>5. PICK call : call = IF GenesisPhase \/ Cardinality(V) >= MinGenesisUsers
                           THEN [what |-> "admitted", who |-> calls[c].who, by |-> I] ELSE Idle OBVIOUS
  <2>6. calls' = [calls EXCEPT ![c] = call] BY <1>3, <2>1, <2>2, <2>3, <2>5 DEF Admit
  <2>7. calls[c].who \in Accounts BY <1>0, <1>3 DEF Admit, Holds
  <2>8. Holds(call, DOMAIN users') BY <1>1, <2>4, <2>5, <2>7 DEF Holds, Idle
  <2>9. QED BY <1>0, <1>1, <2>6, <2>8, CallSet
<1>4. ASSUME Describe(c) PROVE CallsInv'
  <2>1. NewUser \in Block BY UsersAssumption DEF GenesisPhase, NewUser, Block, Roles
  <2>2. NewUser.games = 0 BY DEF NewUser
  <2>3. PICK call : call = [what |-> "described", who |-> calls[c].who, by |-> calls[c].by, user |-> NewUser] OBVIOUS
  <2>4. calls' = [calls EXCEPT ![c] = call] BY <1>4, <2>3 DEF Describe
  <2>5. calls[c].who \in Accounts /\ calls[c].by \in SUBSET DOMAIN users BY <1>0, <1>4 DEF Describe, Holds
  <2>6. Holds(call, DOMAIN users') BY <1>1, <2>1, <2>2, <2>3, <2>5 DEF Holds
  <2>7. QED BY <1>0, <1>1, <2>4, <2>6, CallSet
<1>5. CallsInv' BY <1>2, <1>3, <1>4
<1>6. QED BY <1>1, <1>5 DEF UsersInv, UsersTypes, Vouchings, PoolInv, WeightsInv

\* A user that earned nothing is put, over an older block of the same user.
LEMMA UserPut ==
  ASSUME NEW us, Blocks(us), NEW a \in Accounts, NEW new \in Block, new.games = 0, NEW vs, vs = Put(us, a, new)
  PROVE  Blocks(vs) /\ DOMAIN vs = DOMAIN us \cup {a} /\ SumOn(Games(vs)) <= SumOn(Games(us))
<1>3. DOMAIN vs = DOMAIN us \cup {a} /\ vs = [x \in DOMAIN vs |-> vs[x]] /\ vs[a] = new
      /\ \A x \in DOMAIN us : x # a => vs[x] = us[x]
  BY DEF Put
<1>4. Blocks(vs) BY <1>3 DEF Blocks
<1>5. SumOn(Games(vs)) <= SumOn(Games(us))
  <2>1. PICK S : S = DOMAIN us \ {a} OBVIOUS
  <2>2. PICK f : f = Games(us) OBVIOUS
  <2>3. PICK g : g = Games(vs) OBVIOUS
  <2>4. DOMAIN f = DOMAIN us /\ DOMAIN g = S \cup {a} /\ IsFiniteSet(S) /\ a \notin S
    BY <1>3, <2>1, <2>2, <2>3, SumsOfUsers, FS_Subset DEF Games
  <2>5. g[a] = 0 /\ \A x \in S : g[x] = f[x] /\ f[x] \in Nat
    BY <1>3, <2>1, <2>2, <2>3, SumsOfUsers DEF Games
  <2>6. SumFunctionOnSet(g, S \cup {a}) = g[a] + SumFunctionOnSet(g, S) BY <2>4, <2>5, SumAdd
  <2>7. SumFunctionOnSet(g, S) = SumFunctionOnSet(f, S) BY <2>4, <2>5, SumSame
  <2>8. SumFunctionOnSet(f, S) \in Nat BY <2>4, <2>5, SumNat
  <2>9. SumFunctionOnSet(f, S) <= SumOn(f)
    <3>1. CASE a \in DOMAIN us
      <4>1. DOMAIN f = S \cup {a} BY <2>1, <2>4, <3>1
      <4>2. f[a] \in Nat BY <2>2, <3>1, SumsOfUsers
      <4>5. \A x \in S \cup {a} : f[x] \in Int BY <2>5, <4>2
      <4>3. SumFunctionOnSet(f, S \cup {a}) = f[a] + SumFunctionOnSet(f, S) BY <2>4, <4>5, SumAdd
      <4>4. QED BY <2>8, <4>1, <4>2, <4>3 DEF SumOn
    <3>2. CASE a \notin DOMAIN us
      <4>1. DOMAIN f = S BY <2>1, <2>4, <3>2
      <4>2. QED BY <2>8, <4>1 DEF SumOn
    <3>3. QED BY <3>1, <3>2
  <2>10. SumOn(g) = SumFunctionOnSet(f, S) BY <2>4, <2>5, <2>6, <2>7, <2>8 DEF SumOn
  <2>11. QED BY <2>2, <2>3, <2>9, <2>10
<1>6. QED BY <1>3, <1>4, <1>5

LEMMA Registering == ASSUME UsersInv, NEW c \in Callers, PutUser(c) PROVE UsersInv'
<1>0. /\ Blocks(users) /\ CallsInv /\ Vouchings /\ shared \in Nat
      /\ Holds(calls[c], DOMAIN users) /\ calls[c].what = "described"
  BY DEF UsersInv, UsersTypes, CallsInv, PutUser
<1>1. PICK a \in Accounts, I \in SUBSET DOMAIN users : a = calls[c].who /\ I = calls[c].by BY <1>0 DEF Holds
<1>2. PICK new \in Block : new = calls[c].user /\ new.games = 0 BY <1>0 DEF Holds
<1>3. users' = Put(users, a, new) BY <1>1, <1>2 DEF PutUser
<1>4. Blocks(users') /\ DOMAIN users' = DOMAIN users \cup {a} /\ SumOn(Games(users')) <= SumOn(Games(users))
  BY <1>0, <1>2, <1>3, UserPut
<1>5. UNCHANGED <<bonds, pool, liability, shared>> /\ fresh' = TRUE BY DEF PutUser
<1>6. Vouchings'
  <2>1. vouched' = IF a \in DOMAIN users THEN vouched ELSE Put(vouched, a, I) BY <1>1 DEF PutUser, Registered
  <2>2. CASE a \in DOMAIN users BY <1>0, <1>4, <2>1, <2>2 DEF Vouchings
  <2>3. CASE a \notin DOMAIN users BY <1>0, <1>4, <2>1, <2>3 DEF Vouchings, Put
  <2>4. QED BY <2>2, <2>3
<1>7. CallsInv'
  <2>1. calls' = [calls EXCEPT ![c] = Idle] BY DEF PutUser
  <2>2. Holds(Idle, DOMAIN users') BY DEF Holds, Idle
  <2>3. QED BY <1>0, <1>4, <2>1, <2>2, CallSet
<1>8. UsersTypes' BY <1>4, <1>5, <1>6, <1>7 DEF UsersInv, UsersTypes
<1>9. PoolInv'
  <2>1. PICK x \in Nat, y \in Nat : x = SumOn(Games(users)) /\ y = SumOn(Games(users')) BY <1>0, <1>4, SumsOfUsers
  <2>2. x <= shared /\ y <= x BY <1>4, <2>1 DEF UsersInv, PoolInv
  <2>3. QED BY <1>0, <1>5, <2>1, <2>2 DEF UsersInv, PoolInv
<1>10. QED BY <1>5, <1>8, <1>9 DEF UsersInv, WeightsInv

LEMMA Bonding ==
  ASSUME UsersInv, NEW a \in Accounts, NEW e \in Accounts, NEW notes \in Nat, CreateBond(a, e, notes)
  PROVE  UsersInv'
<1>0. Blocks(users) /\ Bonds(bonds) /\ Vouchings BY DEF UsersInv, UsersTypes
<1>1. Bonds(bonds') BY <1>0 DEF Bond, Put, Bonds, CreateBond
<1>2. /\ Blocks(users') /\ DOMAIN users' = DOMAIN users /\ SumOn(Games(users')) = SumOn(Games(users))
      /\ fresh' = TRUE \/ (users' = users /\ fresh' = fresh)
  <2>1. CASE e \in DOMAIN users
    <3>1. PICK b \in Block : b = users[e] BY <1>0, <2>1 DEF Blocks
    <3>2. PICK c \in Block : c = [b EXCEPT !.by = Append(@, a)] /\ c.games = b.games
      <4>0. b.by \in Seq(Accounts) BY DEF Block
      <4>1. PICK l \in Seq(Accounts) : l = Append(b.by, a) BY <4>0, AppendProperties
      <4>2. [b EXCEPT !.by = l] \in Block /\ [b EXCEPT !.by = l].games = b.games BY DEF Block
      <4>3. QED BY <4>1, <4>2
    <3>3. users' = [users EXCEPT ![e].by = Append(@, a)] BY <2>1 DEF CreateBond, Registered
    <3>4. users' = Replaced(users, e, c) BY <3>1, <3>2, <3>3 DEF Replaced
    <3>5. /\ Blocks(users') /\ DOMAIN users' = DOMAIN users
          /\ SumOn(Games(users')) = SumOn(Games(users)) - b.games + c.games
      BY <1>0, <2>1, <3>1, <3>4, BlockChanged
    <3>6. SumOn(Games(users)) \in Nat /\ b.games \in Nat BY <1>0, SumsOfUsers DEF Block
    <3>7. fresh' = TRUE BY <2>1 DEF CreateBond, Registered
    <3>8. QED BY <3>2, <3>5, <3>6, <3>7
  <2>2. CASE e \notin DOMAIN users BY <1>0, <2>2 DEF CreateBond, Registered, UsersInv, UsersTypes
  <2>3. QED BY <2>1, <2>2
<1>3. UNCHANGED <<pool, calls, vouched, liability, shared>> BY DEF CreateBond
<1>4. UsersTypes' BY <1>1, <1>2, <1>3, CallKept DEF UsersInv, UsersTypes, Vouchings
<1>5. PoolInv' BY <1>2, <1>3 DEF UsersInv, PoolInv
<1>6. WeightsInv' BY <1>2 DEF UsersInv, WeightsInv
<1>7. QED BY <1>4, <1>5, <1>6 DEF UsersInv

LEMMA Releasing ==
  ASSUME UsersInv, NEW b, NEW status \in {"released", "forfeited"}, SetBond(b, status) PROVE UsersInv'
<1>0. Bonds(bonds) /\ b \in DOMAIN bonds BY DEF UsersInv, UsersTypes, SetBond
<1>1. PICK c \in Bond : c = [bonds[b] EXCEPT !.status = status] BY <1>0 DEF Bonds, Bond
<1>2. bonds' = [bonds EXCEPT ![b] = c] BY <1>1 DEF SetBond
<1>3. Bonds(bonds') BY <1>0, <1>1, <1>2 DEF Bonds
<1>4. UNCHANGED <<users, pool, calls, vouched, fresh, liability, shared>> BY DEF SetBond
<1>5. QED BY <1>3, <1>4, CallKept DEF UsersInv, UsersTypes, Vouchings, PoolInv, WeightsInv

LEMMA RecalculatedIs ==
  ASSUME NEW us, Blocks(us), NEW vs, vs = Recalculated(us)
  PROVE  /\ Blocks(vs) /\ SameBut(vs, us)
         /\ \A u \in DOMAIN us : vs[u].weight = Cascade(us)[u] /\ vs[u].limit = Limit(us[u])
                                 /\ vs[u].seed = us[u].seed /\ vs[u].role = us[u].role
<1>1. PICK w : w = Cascade(us) OBVIOUS
<1>2. \A u \in DOMAIN us : w[u] \in 0..MaxWeight BY <1>1, BlocksAreUsers, CascadeIs DEF TrustWeights
<1>3. vs = [u \in DOMAIN us |-> [us[u] EXCEPT !.weight = w[u], !.limit = Limit(us[u])]]
  BY <1>1 DEF Recalculated
<1>4. ASSUME NEW u \in DOMAIN us
      PROVE  /\ vs[u] \in Block /\ vs[u].by = us[u].by /\ vs[u].games = us[u].games
             /\ vs[u].weight = w[u] /\ vs[u].limit = Limit(us[u]) /\ vs[u].seed = us[u].seed /\ vs[u].role = us[u].role
  <2>1. PICK b \in Block : b = us[u] BY DEF Blocks
  <2>2. PICK l \in Nat : l = Limit(b) BY DEF Limit, Base
  <2>3. vs[u] = [b EXCEPT !.weight = w[u], !.limit = l] BY <1>3, <2>1, <2>2
  <2>4. QED BY <1>2, <2>1, <2>2, <2>3 DEF Block
<1>5. Blocks(vs) BY <1>3, <1>4 DEF Blocks
<1>6. SameBut(vs, us) BY <1>3, <1>4 DEF SameBut, References, Games
<1>7. QED BY <1>1, <1>4, <1>5, <1>6

LEMMA Recalculating == UsersInv /\ Recalculate => UsersInv'
<1>. SUFFICES ASSUME UsersInv, Recalculate PROVE UsersInv' OBVIOUS
<1>0. Blocks(users) BY DEF UsersInv, UsersTypes
<1>1. PICK vs : vs = Recalculated(users) OBVIOUS
<1>2. Blocks(vs) /\ SameBut(vs, users) /\ \A u \in DOMAIN users : vs[u].weight = Cascade(users)[u]
  BY <1>0, <1>1, RecalculatedIs
<1>3. DOMAIN vs = DOMAIN users /\ Games(vs) = Games(users) /\ Cascade(vs) = Cascade(users)
  BY <1>2, SameCascade DEF SameBut
<1>4. users' = vs /\ fresh' = FALSE /\ UNCHANGED <<bonds, pool, calls, vouched, liability, shared>> BY <1>1 DEF Recalculate
<1>5. UsersTypes' BY <1>2, <1>3, <1>4, CallKept DEF UsersInv, UsersTypes, Vouchings
<1>6. PoolInv' BY <1>3, <1>4 DEF UsersInv, PoolInv
<1>7. WeightsInv' BY <1>2, <1>3, <1>4 DEF WeightsInv
<1>8. QED BY <1>5, <1>6, <1>7 DEF UsersInv

LEMMA CutIs ==
  ASSUME NEW n \in Nat, NEW p \in Nat
  PROVE  Cut(n, p) \in Nat /\ 100 * Cut(n, p) <= n * p /\ (n * p < Wrap => 100 * Cut(n, p) + 99 >= n * p)
<1>1. PICK W \in Nat : W = Wrap /\ W # 0 BY UsersAssumption
<1>2. PICK m \in Nat : m = n * p OBVIOUS
<1>3. PICK y \in Nat : y = m % W /\ y <= m
  <2>1. m \in Int /\ 0 \in Int /\ 0 \in Nat OBVIOUS
  <2>2. PICK z \in Nat : z = Plus(m, 0) BY <2>1, PlusType
  <2>3. Plus(m, 0) <= m + 0 BY <2>1, SmallSum
  <2>4. z = m % W BY <1>1, <2>2 DEF Plus
  <2>5. QED BY <2>2, <2>3, <2>4
<1>4. m < W => y = m
  <2>1. SUFFICES ASSUME m < W PROVE y = m OBVIOUS
  <2>2. m = W * (m \div W) + (m % W) /\ m \div W \in Int /\ m % W \in 0..(W - 1) BY <1>1, DivisionWithRest
  <2>3. PICK q \in Int : q = m \div W BY <2>2
  <2>4. PICK v \in Int : v = W * q BY <1>1, <2>3
  <2>5. -W < W * q /\ W * q < W BY <1>3, <2>1, <2>2, <2>3, <2>4
  <2>6. q = 0 BY <1>1, <2>3, <2>5, SmallProduct
  <2>7. W * q = 0 BY <1>1, <2>6
  <2>8. QED BY <1>3, <2>2, <2>3, <2>7
<1>5. PICK c \in Nat : c = y \div 100 /\ 100 * c <= y /\ 100 * c + 99 >= y OBVIOUS
<1>6. Cut(n, p) = c BY <1>1, <1>2, <1>3, <1>5 DEF Cut
<1>7. QED BY <1>1, <1>2, <1>3, <1>4, <1>5, <1>6

LEMMA FiveTimes ==
  ASSUME NEW a \in Int, NEW b \in Int, NEW c \in Int, NEW d \in Int, NEW e \in Int, NEW w \in Nat
  PROVE  (a + b + c + d + e) * w = a * w + b * w + c * w + d * w + e * w
OBVIOUS

\* A fee that is collected: what its shares do not add up to is lost.
LEMMA FeeFits ==
  ASSUME NEW p, PoolFits(p), NEW n \in Nat, NEW q, q = WithFee(p, n)
  PROVE  PoolFits(q)
<1>0. PICK W \in Nat : W = Wrap /\ W # 0 BY UsersAssumption
<1>1. PICK a \in Nat, b \in Nat, c \in Nat :
        /\ a = Cut(n, 25) /\ b = Cut(n, 20) /\ c = Cut(n, 15)
        /\ 100 * a <= n * 25 /\ 100 * b <= n * 20 /\ 100 * c <= n * 15
        /\ n * 25 < W => 100 * a + 99 >= n * 25
        /\ n * 20 < W => 100 * b + 99 >= n * 20
        /\ n * 15 < W => 100 * c + 99 >= n * 15
  BY <1>0, CutIs
<1>2. PICK lost \in Nat : lost = n - (a + a + b + c + c) /\ (n * 25 < W => lost <= 4)
  <2>1. a + a + b + c + c <= n BY <1>1
  <2>2. n * 25 < W => n - (a + a + b + c + c) <= 4 BY <1>1
  <2>3. QED BY <2>1, <2>2
<1>3. Lost(n) = lost BY <1>1, <1>2 DEF Lost
<1>4. /\ p \in PoolRecord /\ p.total = (PartsOf(p) + p.shares + p.lost) % Wrap
      /\ p.wide \/ p.lost <= 4 * p.fees
  BY DEF PoolFits
<1>5. PICK re0 \in Nat, rc0 \in Nat, sd0 \in Nat, bd0 \in Nat, cm0 \in Nat :
        re0 = p.relay /\ rc0 = p.record /\ sd0 = p.seed /\ bd0 = p.bad /\ cm0 = p.community
  BY <1>4 DEF PoolRecord
<1>6. PICK gm0 \in Nat, tt0 \in Int, sh0 \in Nat, lo0 \in Nat, fe0 \in Nat :
        gm0 = p.games /\ tt0 = p.total /\ sh0 = p.shares /\ lo0 = p.lost /\ fe0 = p.fees
  BY <1>4 DEF PoolRecord
<1>7. PICK re \in Nat : re = Plus(re0, a) /\ \E k \in Int : re = re0 + a + k * Wrap
  <2>1. re0 \in Nat /\ a \in Nat BY <1>1, <1>5
  <2>2. QED BY <2>1, Adds
<1>71. PICK k1 \in Int : re = re0 + a + k1 * W BY <1>0, <1>7
<1>8. PICK rc \in Nat : rc = Plus(rc0, a) /\ \E k \in Int : rc = rc0 + a + k * Wrap
  <2>1. rc0 \in Nat /\ a \in Nat BY <1>1, <1>5
  <2>2. QED BY <2>1, Adds
<1>81. PICK k2 \in Int : rc = rc0 + a + k2 * W BY <1>0, <1>8
<1>9. PICK sd \in Nat : sd = Plus(sd0, b) /\ \E k \in Int : sd = sd0 + b + k * Wrap
  <2>1. sd0 \in Nat /\ b \in Nat BY <1>1, <1>5
  <2>2. QED BY <2>1, Adds
<1>91. PICK k3 \in Int : sd = sd0 + b + k3 * W BY <1>0, <1>9
<1>10. PICK bd \in Nat : bd = Plus(bd0, c) /\ \E k \in Int : bd = bd0 + c + k * Wrap
  <2>1. bd0 \in Nat /\ c \in Nat BY <1>1, <1>5
  <2>2. QED BY <2>1, Adds
<1>101. PICK k4 \in Int : bd = bd0 + c + k4 * W BY <1>0, <1>10
<1>11. PICK cm \in Nat : cm = Plus(cm0, c) /\ \E k \in Int : cm = cm0 + c + k * Wrap
  <2>1. cm0 \in Nat /\ c \in Nat BY <1>1, <1>5
  <2>2. QED BY <2>1, Adds
<1>111. PICK k5 \in Int : cm = cm0 + c + k5 * W BY <1>0, <1>11
<1>12. PICK tt \in Int : tt = Plus(tt0, n)
  <2>1. tt0 \in Int /\ n \in Int BY <1>6
  <2>2. QED BY <2>1, PlusType
<1>13. PICK lo \in Nat, fe \in Nat : lo = lo0 + lost /\ fe = fe0 + 1 OBVIOUS
<1>14. PICK wd \in BOOLEAN : wd = (p.wide \/ n * 25 >= W) BY <1>4 DEF PoolRecord
<1>15. q = [p EXCEPT !.relay = re, !.record = rc, !.seed = sd, !.bad = bd, !.community = cm, !.total = tt,
                     !.lost = lo, !.fees = fe, !.wide = wd]
  BY <1>0, <1>1, <1>3, <1>4, <1>5, <1>6, <1>7, <1>8, <1>9, <1>10, <1>11, <1>12, <1>13, <1>14 DEF WithFee, PoolRecord
<1>16. /\ q \in PoolRecord
       /\ q.relay = re /\ q.record = rc /\ q.seed = sd /\ q.bad = bd /\ q.community = cm /\ q.games = gm0
       /\ q.total = tt /\ q.shares = sh0 /\ q.lost = lo /\ q.fees = fe /\ q.wide = wd
  BY <1>4, <1>6, <1>15 DEF PoolRecord
<1>17. q.total = (PartsOf(q) + q.shares + q.lost) % Wrap
  <2>1. PICK sum \in Int : sum = re0 + rc0 + sd0 + bd0 + cm0 + gm0 + sh0 + lo0 OBVIOUS
  <2>2. tt0 = sum % Wrap BY <1>4, <1>5, <1>6, <2>1 DEF PartsOf
  <2>3. PICK next \in Int : next = re + rc + sd + bd + cm + gm0 + sh0 + lo OBVIOUS
  <2>4. PICK k \in Int : k = k1 + k2 + k3 + k4 + k5 BY <1>71, <1>81, <1>91, <1>101, <1>111
  <2>5. PICK x1 \in Int, x2 \in Int, x3 \in Int, x4 \in Int, x5 \in Int :
          x1 = k1 * W /\ x2 = k2 * W /\ x3 = k3 * W /\ x4 = k4 * W /\ x5 = k5 * W
    BY <1>0, <1>71, <1>81, <1>91, <1>101, <1>111
  <2>6. k * W = x1 + x2 + x3 + x4 + x5
    BY <1>0, <1>71, <1>81, <1>91, <1>101, <1>111, <2>4, <2>5, FiveTimes
  <2>7. PICK x \in Int : x = k * W OBVIOUS
  <2>8. next = sum + n + x
    BY <1>2, <1>71, <1>81, <1>91, <1>101, <1>111, <1>13, <2>1, <2>3, <2>5, <2>6, <2>7
  <2>9. next = sum + n + k * Wrap BY <1>0, <2>7, <2>8
  <2>10. Plus(tt0, n) = next % Wrap BY <2>2, <2>9, TotalFollows
  <2>11. next = PartsOf(q) + q.shares + q.lost BY <1>16, <2>3 DEF PartsOf
  <2>12. QED BY <1>12, <1>16, <2>10, <2>11
<1>18. q.wide \/ q.lost <= 4 * q.fees
  <2>1. SUFFICES ASSUME ~wd PROVE lo <= 4 * fe BY <1>16
  <2>2. lo0 <= 4 * fe0 BY <1>4, <1>6, <1>14, <2>1
  <2>4. ~(n * 25 >= W) BY <1>14, <2>1
  <2>5. n * 25 < W BY <1>0, <2>4
  <2>6. lost <= 4 BY <1>2, <2>5
  <2>3. QED BY <1>2, <1>6, <1>13, <2>2, <2>6
<1>19. QED BY <1>16, <1>17, <1>18 DEF PoolFits

LEMMA Collecting == ASSUME UsersInv, NEW c \in Callers, NEW n \in Nat, CollectFees(c, n) PROVE UsersInv'
<1>1. UNCHANGED <<users, bonds, pool, vouched, fresh, liability, shared>> BY DEF CollectFees
<1>2. PICK call : call = [what |-> "pool", next |-> WithFee(pool, n), earned |-> Nothing] OBVIOUS
<1>3. calls' = [calls EXCEPT ![c] = call] BY <1>2 DEF CollectFees
<1>4. PoolFits(WithFee(pool, n)) BY FeeFits DEF UsersInv, PoolInv
<1>5. Holds(call, DOMAIN users') BY <1>2, <1>4 DEF Holds, Nothing
<1>6. CallsInv' BY <1>1, <1>3, <1>5, CallSet DEF UsersInv, UsersTypes
<1>7. QED BY <1>1, <1>6 DEF UsersInv, UsersTypes, Vouchings, PoolInv, WeightsInv

LEMMA EarnIs ==
  ASSUME NEW us, Blocks(us), NEW who, NEW n \in Nat, NEW vs, vs = Earn(us, who, n)
  PROVE  /\ Blocks(vs) /\ DOMAIN vs = DOMAIN us /\ References(vs) = References(us)
         /\ \A u \in DOMAIN us : vs[u].weight = us[u].weight
         /\ SumOn(Games(vs)) <= SumOn(Games(us)) + n
<1>0. PICK x \in Nat : x = SumOn(Games(us)) BY SumsOfUsers
<1>1. CASE who \in DOMAIN us
  <2>0. PICK u \in DOMAIN us : u = who BY <1>1
  <2>1. PICK b \in Block : b = us[u] BY DEF Blocks
  <2>2. PICK g \in Nat : g = b.games BY DEF Block
  <2>10. g \in Int /\ n \in Int BY <2>2
  <2>11. Plus(g, n) \in Nat BY <2>10, PlusType
  <2>9. PICK m \in Nat : m = Plus(g, n) /\ m <= g + n BY <2>2, <2>11, SmallSum
  <2>3. PICK c \in Block : c = [b EXCEPT !.games = m] /\ c.by = b.by /\ c.weight = b.weight /\ c.games = m
    <3>1. [b EXCEPT !.games = m] \in Block BY DEF Block
    <3>2. QED BY <3>1 DEF Block
  <2>4. vs = Replaced(us, u, c) BY <2>0, <2>1, <2>2, <2>3, <2>9 DEF Earn, Replaced
  <2>5. /\ Blocks(vs) /\ DOMAIN vs = DOMAIN us /\ References(vs) = References(us)
        /\ SumOn(Games(vs)) = SumOn(Games(us)) - us[u].games + c.games
        /\ vs[u] = c /\ \A y \in DOMAIN us : y # u => vs[y] = us[y]
    <3>1. Blocks(vs) /\ DOMAIN vs = DOMAIN us BY <2>0, <2>1, <2>4, BlockChanged
    <3>2. SumOn(Games(vs)) = SumOn(Games(us)) - b.games + c.games BY <2>0, <2>1, <2>4, BlockChanged
    <3>3. c.by = b.by => References(vs) = References(us) BY <2>0, <2>1, <2>4, BlockChanged
    <3>4. vs[u] = c /\ \A y \in DOMAIN us : y # u => vs[y] = us[y] BY <2>0, <2>1, <2>4, BlockChanged
    <3>5. QED BY <2>1, <2>3, <3>1, <3>2, <3>3, <3>4
  <2>6. \A y \in DOMAIN us : vs[y].weight = us[y].weight BY <2>1, <2>3, <2>5
  <2>7. x - g + m <= x + n BY <2>9
  <2>8. QED BY <1>0, <2>1, <2>2, <2>3, <2>5, <2>6, <2>7
<1>2. CASE who \notin DOMAIN us BY <1>0, <1>2 DEF Earn
<1>3. QED BY <1>1, <1>2

\* What an author and a server get, the rest goes to the games.
LEMMA GameFits ==
  ASSUME NEW p, PoolFits(p), NEW fee \in Nat, NEW a \in Nat, NEW s \in Nat, a + s <= fee, NEW q,
         q = [p EXCEPT !.games = Plus(@, fee - a - s), !.total = Plus(@, fee), !.shares = @ + a + s]
  PROVE  PoolFits(q)
<1>0. PICK W \in Nat : W = Wrap /\ W # 0 BY UsersAssumption
<1>1. PICK rest \in Nat : rest = fee - a - s OBVIOUS
<1>4. /\ p \in PoolRecord /\ p.total = (PartsOf(p) + p.shares + p.lost) % Wrap
      /\ p.wide \/ p.lost <= 4 * p.fees
  BY DEF PoolFits
<1>5. PICK re0 \in Nat, rc0 \in Nat, sd0 \in Nat, bd0 \in Nat, cm0 \in Nat :
        re0 = p.relay /\ rc0 = p.record /\ sd0 = p.seed /\ bd0 = p.bad /\ cm0 = p.community
  BY <1>4 DEF PoolRecord
<1>6. PICK gm0 \in Nat, tt0 \in Int, sh0 \in Nat, lo0 \in Nat :
        gm0 = p.games /\ tt0 = p.total /\ sh0 = p.shares /\ lo0 = p.lost
  BY <1>4 DEF PoolRecord
<1>7. PICK gm \in Nat : gm = Plus(gm0, rest) /\ \E i \in Int : gm = gm0 + rest + i * Wrap
  <2>1. gm0 \in Nat /\ rest \in Nat BY <1>1, <1>6
  <2>2. QED BY <2>1, Adds
<1>71. PICK k \in Int : gm = gm0 + rest + k * W BY <1>0, <1>7
<1>8. PICK tt \in Int : tt = Plus(tt0, fee)
  <2>1. tt0 \in Int /\ fee \in Int BY <1>6
  <2>2. QED BY <2>1, PlusType
<1>9. PICK sh \in Nat : sh = sh0 + a + s OBVIOUS
<1>15. q = [p EXCEPT !.games = gm, !.total = tt, !.shares = sh]
  BY <1>1, <1>4, <1>6, <1>7, <1>8, <1>9 DEF PoolRecord
<1>16. /\ q \in PoolRecord
       /\ q.relay = re0 /\ q.record = rc0 /\ q.seed = sd0 /\ q.bad = bd0 /\ q.community = cm0 /\ q.games = gm
       /\ q.total = tt /\ q.shares = sh /\ q.lost = lo0 /\ q.fees = p.fees /\ q.wide = p.wide
  BY <1>4, <1>5, <1>6, <1>15 DEF PoolRecord
<1>17. q.total = (PartsOf(q) + q.shares + q.lost) % Wrap
  <2>1. PICK sum \in Int : sum = re0 + rc0 + sd0 + bd0 + cm0 + gm0 + sh0 + lo0 OBVIOUS
  <2>2. tt0 = sum % Wrap BY <1>4, <1>5, <1>6, <2>1 DEF PartsOf
  <2>3. PICK next \in Int : next = re0 + rc0 + sd0 + bd0 + cm0 + gm + sh + lo0 OBVIOUS
  <2>4. PICK x \in Int : x = k * W BY <1>0, <1>71
  <2>5. next = sum + fee + x BY <1>1, <1>71, <1>9, <2>1, <2>3, <2>4
  <2>9. next = sum + fee + k * Wrap BY <1>0, <2>4, <2>5
  <2>10. Plus(tt0, fee) = next % Wrap BY <2>2, <2>9, TotalFollows
  <2>11. next = PartsOf(q) + q.shares + q.lost BY <1>16, <2>3 DEF PartsOf
  <2>12. QED BY <1>8, <1>16, <2>10, <2>11
<1>18. QED BY <1>4, <1>6, <1>16, <1>17 DEF PoolFits

LEMMA Gaming ==
  ASSUME UsersInv, NEW c \in Callers, NEW author, NEW server, NEW fee \in Nat, NEW p \in Nat, NEW q \in Nat,
         p + q <= 100, RecordGameTx(c, author, server, fee, p, q)
  PROVE  UsersInv'
<1>1. PICK a \in Nat, s \in Nat : a = Cut(fee, p) /\ s = Cut(fee, q) /\ 100 * a <= fee * p /\ 100 * s <= fee * q
  BY CutIs
<1>2. a + s <= fee
  <2>1. fee * (p + q) = fee * p + fee * q OBVIOUS
  <2>2. PICK r \in Nat : 100 = (p + q) + r OBVIOUS
  <2>3. fee * ((p + q) + r) = fee * (p + q) + fee * r /\ fee * r \in Nat /\ fee * (p + q) \in Nat OBVIOUS
  <2>4. fee * (p + q) <= fee * 100 BY <2>2, <2>3
  <2>5. 100 * a + 100 * s <= fee * 100 BY <1>1, <2>1, <2>4
  <2>6. QED BY <2>5
<1>3. PICK next : next = [pool EXCEPT !.games = Plus(@, fee - a - s), !.total = Plus(@, fee), !.shares = @ + a + s]
  OBVIOUS
<1>4. PoolFits(next) BY <1>2, <1>3, GameFits DEF UsersInv, PoolInv
<1>5. PICK call : call = [what |-> "pool", earned |-> [server |-> server, s |-> s, author |-> author, a |-> a],
                          next |-> next] OBVIOUS
<1>6. calls' = [calls EXCEPT ![c] = call] /\ UNCHANGED <<users, bonds, pool, vouched, fresh, liability, shared>>
  BY <1>1, <1>3, <1>5 DEF RecordGameTx
<1>7. Holds(call, DOMAIN users') BY <1>4, <1>5 DEF Holds
<1>8. CallsInv' BY <1>6, <1>7, CallSet DEF UsersInv, UsersTypes
<1>9. QED BY <1>6, <1>8 DEF UsersInv, UsersTypes, Vouchings, PoolInv, WeightsInv

LEMMA Setting == ASSUME UsersInv, NEW c \in Callers, SetPool(c) PROVE UsersInv'
<1>1. calls[c].what = "pool" /\ pool' = calls[c].next /\ UNCHANGED <<users, bonds, vouched, fresh, liability, shared>>
  BY DEF SetPool
<1>2. PoolFits(calls[c].next) /\ calls[c].earned.a \in Nat /\ calls[c].earned.s \in Nat
  BY <1>1 DEF UsersInv, UsersTypes, CallsInv, Holds
<1>3. PICK call : call = IF calls[c].earned = Nothing THEN Idle ELSE [what |-> "earned", earned |-> calls[c].earned]
  OBVIOUS
<1>4. calls' = [calls EXCEPT ![c] = call] BY <1>3 DEF SetPool
<1>5. Holds(call, DOMAIN users') BY <1>2, <1>3 DEF Holds, Idle
<1>6. CallsInv' BY <1>1, <1>4, <1>5, CallSet DEF UsersInv, UsersTypes
<1>7. QED BY <1>1, <1>2, <1>6 DEF UsersInv, UsersTypes, Vouchings, PoolInv, WeightsInv

LEMMA Sharing == ASSUME UsersInv, NEW c \in Callers, PayShares(c) PROVE UsersInv'
<1>2. calls[c].what = "earned" BY DEF PayShares
<1>3. PICK e : e = calls[c].earned OBVIOUS
<1>1. PICK a \in Nat, s \in Nat : a = e.a /\ s = e.s
  BY <1>2, <1>3 DEF UsersInv, UsersTypes, CallsInv, Holds
<1>4. Blocks(users) /\ shared \in Nat BY DEF UsersInv, UsersTypes
<1>5. PICK x \in Nat : x = SumOn(Games(users)) BY <1>4, SumsOfUsers
<1>6. PICK us : us = Earn(users, e.server, s) OBVIOUS
<1>7. /\ Blocks(us) /\ DOMAIN us = DOMAIN users /\ References(us) = References(users)
      /\ \A u \in DOMAIN users : us[u].weight = users[u].weight
      /\ SumOn(Games(us)) <= x + s /\ SumOn(Games(us)) \in Nat
  BY <1>4, <1>5, <1>6, EarnIs, SumsOfUsers
<1>8. PICK vs : vs = IF e.author = e.server THEN us ELSE Earn(us, e.author, a) OBVIOUS
<1>9. /\ Blocks(vs) /\ DOMAIN vs = DOMAIN users /\ References(vs) = References(users)
      /\ \A u \in DOMAIN users : vs[u].weight = users[u].weight
      /\ SumOn(Games(vs)) <= x + s + a
  <2>1. CASE e.author = e.server BY <1>7, <1>8, <2>1
  <2>2. CASE e.author # e.server BY <1>7, <1>8, <2>2, EarnIs, SumsOfUsers
  <2>3. QED BY <2>1, <2>2
<1>10. /\ users' = vs /\ shared' = shared + a + s /\ calls' = [calls EXCEPT ![c] = Idle]
       /\ UNCHANGED <<bonds, pool, vouched, fresh, liability>>
  BY <1>1, <1>3, <1>6, <1>8 DEF PayShares
<1>11. Holds(Idle, DOMAIN users') BY DEF Holds, Idle
<1>12. CallsInv' BY <1>9, <1>10, <1>11, CallSet DEF UsersInv, UsersTypes
<1>16. UsersTypes' BY <1>4, <1>9, <1>10, <1>12 DEF UsersInv, UsersTypes, Vouchings
<1>17. PoolInv'
  <2>1. PICK y \in Nat : y = SumOn(Games(vs)) BY <1>9, SumsOfUsers
  <2>2. x <= shared /\ y <= x + s + a BY <1>5, <1>9, <2>1 DEF UsersInv, PoolInv
  <2>3. y <= shared + a + s BY <1>4, <2>2
  <2>4. QED BY <1>10, <2>1, <2>3 DEF UsersInv, PoolInv
<1>18. WeightsInv' BY <1>9, <1>10, SameCascade DEF UsersInv, WeightsInv
<1>19. QED BY <1>16, <1>17, <1>18 DEF UsersInv

LEMMA Binding == ASSUME UsersInv, NEW u, BindGameServer(u) PROVE UsersInv'
<1>0. Blocks(users) /\ u \in DOMAIN users BY DEF UsersInv, UsersTypes, BindGameServer, Registered
<1>1. PICK b \in Block : b = users[u] BY <1>0 DEF Blocks
<1>2. PICK c \in Block : c = [b EXCEPT !.role = "game"] /\ c.by = b.by /\ c.games = b.games /\ c.weight = b.weight
  <2>1. PICK r \in Roles : r = "game" BY DEF Roles
  <2>2. [b EXCEPT !.role = r] \in Block BY DEF Block
  <2>3. QED BY <2>1, <2>2 DEF Block
<1>3. users' = Replaced(users, u, c) BY <1>1, <1>2 DEF BindGameServer, Replaced
<1>4. /\ Blocks(users') /\ DOMAIN users' = DOMAIN users /\ References(users') = References(users)
      /\ SumOn(Games(users')) = SumOn(Games(users)) - b.games + c.games
      /\ users'[u] = c /\ \A x \in DOMAIN users : x # u => users'[x] = users[x]
  <2>1. PICK vs : vs = Replaced(users, u, c) OBVIOUS
  <2>2. Blocks(vs) /\ DOMAIN vs = DOMAIN users BY <1>0, <1>1, <2>1, BlockChanged
  <2>3. SumOn(Games(vs)) = SumOn(Games(users)) - b.games + c.games BY <1>0, <1>1, <2>1, BlockChanged
  <2>4. c.by = b.by => References(vs) = References(users) BY <1>0, <1>1, <2>1, BlockChanged
  <2>5. vs[u] = c /\ \A x \in DOMAIN users : x # u => vs[x] = users[x] BY <1>0, <1>1, <2>1, BlockChanged
  <2>6. QED BY <1>1, <1>2, <1>3, <2>1, <2>2, <2>3, <2>4, <2>5
<1>5. SumOn(Games(users')) = SumOn(Games(users)) BY <1>0, <1>2, <1>4, SumsOfUsers DEF Block
<1>6. UNCHANGED <<bonds, pool, calls, vouched, fresh, liability, shared>> BY DEF BindGameServer
<1>7. UsersTypes' BY <1>4, <1>6, CallKept DEF UsersInv, UsersTypes, Vouchings
<1>8. PoolInv' BY <1>5, <1>6 DEF UsersInv, PoolInv
<1>9. WeightsInv'
  <2>1. Cascade(users') = Cascade(users) BY <1>4, SameCascade
  <2>2. \A x \in DOMAIN users : users'[x].weight = users[x].weight BY <1>1, <1>2, <1>4
  <2>3. QED BY <1>4, <1>6, <2>1, <2>2 DEF UsersInv, WeightsInv
<1>10. QED BY <1>7, <1>8, <1>9 DEF UsersInv

\* What the limit cannot pay costs trust, and never gives any.
LEMMA DeductedIs ==
  ASSUME NEW b \in Block, NEW n \in Nat, NEW c, c = Deducted(b, n)
  PROVE  c \in Block /\ c.by = b.by /\ c.games = b.games
<1>1. PICK limit \in Nat, w0 \in 0..MaxWeight : limit = b.limit /\ w0 = b.weight BY DEF Block
<1>2. PICK spent \in Nat : spent = Taken(limit, n) /\ spent <= limit /\ spent <= n BY DEF Taken, Least
<1>3. PICK rest \in Nat : rest = n - spent BY <1>2
<1>4. PICK weight \in Nat : weight = (IF w0 < 1 THEN 1 ELSE w0) /\ weight >= 1 /\ weight <= MaxWeight
  BY UsersAssumption
<1>5. PICK penalty \in 0..100 : penalty = Least((rest * 10) \div weight, 100)
  <2>1. PICK q \in Int : q = (rest * 10) \div weight /\ rest * 10 = weight * q + ((rest * 10) % weight)
                        /\ (rest * 10) % weight \in 0..(weight - 1)
    <3>1. rest * 10 \in Int /\ weight # 0 BY <1>4
    <3>2. QED BY <3>1, DivisionWithRest
  <2>2. q >= 0 BY <2>1
  <2>3. QED BY <2>1, <2>2 DEF Least
<1>6. PICK lower \in Nat : lower = (weight * (100 - penalty)) \div 100 /\ lower <= weight OBVIOUS
<1>7. PICK l \in Nat, w \in 0..MaxWeight : c = [b EXCEPT !.limit = l, !.weight = w]
  <2>1. CASE rest = 0
    <3>1. limit - n \in Nat /\ c = [b EXCEPT !.limit = @ - n] BY <1>1, <1>2, <1>3, <2>1 DEF Deducted
    <3>2. c = [b EXCEPT !.limit = limit - n, !.weight = w0] BY <1>1, <3>1 DEF Block
    <3>3. QED BY <3>1, <3>2
  <2>2. CASE rest # 0
    <3>1. PICK w \in 0..MaxWeight : w = IF lower < 1 THEN 1 ELSE lower BY <1>4, <1>6, UsersAssumption
    <3>2. c = [b EXCEPT !.limit = 0, !.weight = w] BY <1>1, <1>2, <1>3, <1>4, <1>5, <1>6, <2>2, <3>1 DEF Deducted
    <3>3. QED BY <3>2
  <2>3. QED BY <2>1, <2>2
<1>8. QED BY <1>7 DEF Block

LEMMA Deducting == ASSUME UsersInv, NEW u, NEW n \in Nat, Deduct(u, n) PROVE UsersInv'
<1>0. Blocks(users) /\ u \in DOMAIN users BY DEF UsersInv, UsersTypes, Deduct, Registered
<1>1. PICK b \in Block : b = users[u] BY <1>0 DEF Blocks
<1>2. PICK c \in Block : c = Deducted(b, n) /\ c.by = b.by /\ c.games = b.games BY DeductedIs
<1>3. users' = Replaced(users, u, c) BY <1>1, <1>2 DEF Deduct, Replaced
<1>4. /\ Blocks(users') /\ DOMAIN users' = DOMAIN users
      /\ SumOn(Games(users')) = SumOn(Games(users)) - b.games + c.games
  BY <1>0, <1>1, <1>2, <1>3, BlockChanged
<1>5. SumOn(Games(users')) = SumOn(Games(users)) BY <1>0, <1>2, <1>4, SumsOfUsers DEF Block
<1>6. fresh' = TRUE /\ UNCHANGED <<bonds, pool, calls, vouched, liability, shared>> BY DEF Deduct
<1>7. UsersTypes' BY <1>4, <1>6, CallKept DEF UsersInv, UsersTypes, Vouchings
<1>8. PoolInv' BY <1>5, <1>6 DEF UsersInv, PoolInv
<1>9. QED BY <1>6, <1>7, <1>8 DEF UsersInv, WeightsInv

\* The reserve that pays takes it off the total too.
LEMMA ReserveFits ==
  ASSUME NEW p, PoolFits(p), NEW due \in Int, NEW b \in Nat, b = p.bad - due, NEW q,
         q = [p EXCEPT !.bad = b, !.total = Plus(@, -due)]
  PROVE  PoolFits(q)
<1>4. /\ p \in PoolRecord /\ p.total = (PartsOf(p) + p.shares + p.lost) % Wrap
      /\ p.wide \/ p.lost <= 4 * p.fees
  BY DEF PoolFits
<1>5. PICK re0 \in Nat, rc0 \in Nat, sd0 \in Nat, bd0 \in Nat, cm0 \in Nat :
        re0 = p.relay /\ rc0 = p.record /\ sd0 = p.seed /\ bd0 = p.bad /\ cm0 = p.community
  BY <1>4 DEF PoolRecord
<1>6. PICK gm0 \in Nat, tt0 \in Int, sh0 \in Nat, lo0 \in Nat :
        gm0 = p.games /\ tt0 = p.total /\ sh0 = p.shares /\ lo0 = p.lost
  BY <1>4 DEF PoolRecord
<1>7. PICK d \in Int : d = -due OBVIOUS
<1>8. PICK tt \in Int : tt = Plus(tt0, d) BY <1>6, <1>7, PlusType
<1>15. q = [p EXCEPT !.bad = b, !.total = tt] BY <1>6, <1>7, <1>8
<1>16. /\ q \in PoolRecord
       /\ q.relay = re0 /\ q.record = rc0 /\ q.seed = sd0 /\ q.bad = b /\ q.community = cm0 /\ q.games = gm0
       /\ q.total = tt /\ q.shares = sh0 /\ q.lost = lo0 /\ q.fees = p.fees /\ q.wide = p.wide
  BY <1>4, <1>5, <1>6, <1>15 DEF PoolRecord
<1>17. q.total = (PartsOf(q) + q.shares + q.lost) % Wrap
  <2>1. PICK sum \in Int : sum = re0 + rc0 + sd0 + bd0 + cm0 + gm0 + sh0 + lo0 OBVIOUS
  <2>2. tt0 = sum % Wrap BY <1>4, <1>5, <1>6, <2>1 DEF PartsOf
  <2>3. PICK next \in Int : next = re0 + rc0 + sd0 + b + cm0 + gm0 + sh0 + lo0 OBVIOUS
  <2>5. next = sum + d BY <1>5, <1>7, <2>1, <2>3
  <2>6. 0 \in Int /\ 0 * Wrap = 0 BY UsersAssumption
  <2>9. next = sum + d + 0 * Wrap BY <2>5, <2>6
  <2>10. Plus(tt0, d) = next % Wrap BY <2>2, <2>6, <2>9, TotalFollows
  <2>11. next = PartsOf(q) + q.shares + q.lost BY <1>16, <2>3 DEF PartsOf
  <2>12. QED BY <1>8, <1>16, <2>10, <2>11
<1>18. QED BY <1>4, <1>6, <1>16, <1>17 DEF PoolFits

LEMMA Paying == ASSUME UsersInv, NEW u, NEW debt \in Nat, Liable(u, debt) PROVE UsersInv'
<1>0. Blocks(users) /\ Bonds(bonds) /\ PoolFits(pool) /\ pool \in PoolRecord /\ shared \in Nat
  BY DEF UsersInv, UsersTypes, PoolInv, PoolFits
<1>1. PICK end : \E sum \in Int : Recovery(end, users, sum) /\ LiableTo(u, debt, end) BY <1>0, LiableIs
<1>2. Blocks(end.us) /\ Bonds(end.bs) /\ end.due \in Nat /\ SameBut(end.us, users) BY <1>1 DEF Recovery
<1>3. /\ users' = end.us /\ bonds' = end.bs /\ fresh' = TRUE /\ UNCHANGED <<calls, vouched, shared>>
      /\ liability' \in [id : Nat, debt : Nat, covered : BOOLEAN]
      /\ pool' = IF end.due <= pool.bad THEN [pool EXCEPT !.bad = @ - end.due, !.total = Plus(@, -end.due)] ELSE pool
  <2>1. LiableTo(u, debt, end) BY <1>1
  <2>2. liability.id + 1 \in Nat BY DEF UsersInv, UsersTypes
  <2>3. QED BY <2>1, <2>2 DEF LiableTo
<1>4. DOMAIN users' = DOMAIN users /\ Games(users') = Games(users) BY <1>2, <1>3 DEF SameBut
<1>5. PICK due \in Nat, bad \in Nat : due = end.due /\ bad = pool.bad BY <1>0, <1>2 DEF PoolRecord
<1>6. PoolFits(pool')
  <2>1. CASE due <= bad
    <3>1. PICK b \in Nat : b = bad - due BY <2>1
    <3>2. pool' = [pool EXCEPT !.bad = b, !.total = Plus(@, -due)] BY <1>3, <1>5, <2>1, <3>1
    <3>3. due \in Int /\ b = pool.bad - due BY <1>5, <3>1
    <3>4. PICK q : q = pool' OBVIOUS
    <3>5. q = [pool EXCEPT !.bad = b, !.total = Plus(@, -due)] BY <3>2, <3>4
    <3>6. PoolFits(q) BY <1>0, <3>1, <3>3, <3>5, ReserveFits
    <3>7. QED BY <3>4, <3>6
  <2>2. CASE ~(due <= bad) BY <1>0, <1>3, <1>5, <2>2
  <2>3. QED BY <2>1, <2>2
<1>7. UsersTypes' BY <1>2, <1>3, <1>4, CallKept DEF UsersInv, UsersTypes, Vouchings
<1>8. PoolInv' BY <1>3, <1>4, <1>6 DEF UsersInv, PoolInv
<1>9. QED BY <1>3, <1>7, <1>8 DEF UsersInv, WeightsInv

THEOREM UsersStep == UsersInv /\ [UsersNext]_usersVars => UsersInv'
<1>. SUFFICES ASSUME UsersInv, [UsersNext]_usersVars PROVE UsersInv' OBVIOUS
<1>0. \A n \in 0..Wrap - 1 : n \in Nat OBVIOUS
<1>1. ASSUME NEW c \in Callers,
             (\E a \in Accounts, creds \in Seq(Credential) : RegisterUser(c, a, creds)) \/ Admit(c) \/ Describe(c)
      PROVE  UsersInv'
  BY <1>1, Admitting
<1>2. ASSUME NEW c \in Callers, PutUser(c) PROVE UsersInv' BY <1>2, Registering
<1>3. ASSUME NEW c \in Callers, NEW amount \in 0..Wrap - 1, CollectFees(c, amount) PROVE UsersInv'
  BY <1>0, <1>3, Collecting
<1>4. ASSUME NEW c \in Callers, NEW author \in Accounts, NEW server \in Accounts, NEW fee \in Nat,
             NEW a \in Nat, NEW s \in Nat, a + s <= 100, RecordGameTx(c, author, server, fee, a, s)
      PROVE  UsersInv'
  BY <1>4, Gaming
<1>5. ASSUME NEW c \in Callers, SetPool(c) \/ PayShares(c) PROVE UsersInv' BY <1>5, Setting, Sharing
<1>6. ASSUME NEW a \in Accounts, NEW e \in Accounts, NEW notes \in Nat, CreateBond(a, e, notes) PROVE UsersInv'
  BY <1>6, Bonding
<1>7. ASSUME NEW b \in DOMAIN bonds, NEW status \in {"released", "forfeited"}, SetBond(b, status) PROVE UsersInv'
  BY <1>7, Releasing
<1>8. ASSUME Recalculate PROVE UsersInv' BY <1>8, Recalculating
<1>9. ASSUME NEW u \in Accounts, BindGameServer(u) PROVE UsersInv' BY <1>9, Binding
<1>10. ASSUME NEW u \in Accounts, NEW amount \in Nat, Liable(u, amount) PROVE UsersInv' BY <1>10, Paying
<1>11. ASSUME NEW u \in Accounts, NEW amount \in Nat, Deduct(u, amount) PROVE UsersInv' BY <1>11, Deducting
<1>12. CASE UNCHANGED usersVars
  BY <1>12, CallKept DEF usersVars, UsersInv, UsersTypes, Vouchings, PoolInv, WeightsInv
<1>13. QED BY <1>1, <1>2, <1>3, <1>4, <1>5, <1>6, <1>7, <1>8, <1>9, <1>10, <1>11, <1>12 DEF UsersNext

-----------------------------------------------------------------------------
(* Registration: what contains the founders, and everybody vouched for     *)
(* from within, contains all users.  A caller that was admitted without    *)
(* any voucher makes a founder more.                                       *)
Founders(v) == {u \in DOMAIN v : v[u] = {}}
From(v, X) == {u \in DOMAIN v : v[u] # {} /\ v[u] \subseteq X}
Reached(v, X) == Founders(v) \subseteq X /\ From(v, X) \subseteq X
Unvouched(cs) == {c \in Callers : cs[c].what \in {"admitted", "described"} /\ cs[c].by = {}}
FewFounders(v, cs) ==
  Cardinality(Founders(v)) + Cardinality(Unvouched(cs)) <= (MinGenesisUsers - 1) + Cardinality(Callers)
RootsInv ==
  /\ FewFounders(vouched, calls)
  /\ \A X \in SUBSET DOMAIN vouched : Reached(vouched, X) => X = DOMAIN vouched

\* One user more is reached from where those who vouched for it are.
LEMMA OneMore ==
  ASSUME NEW v, NEW a, a \notin DOMAIN v, NEW I \in SUBSET DOMAIN v, NEW w, w = Put(v, a, I),
         \A X \in SUBSET DOMAIN v : Reached(v, X) => X = DOMAIN v
  PROVE  /\ \A X \in SUBSET DOMAIN w : Reached(w, X) => X = DOMAIN w
         /\ Founders(w) = Founders(v) \cup (IF I = {} THEN {a} ELSE {})
<1>1. /\ DOMAIN w = DOMAIN v \cup {a} /\ w[a] = I /\ \A x \in DOMAIN v : w[x] = v[x] BY DEF Put
<1>2. ASSUME NEW X \in SUBSET DOMAIN w, Reached(w, X) PROVE X = DOMAIN w
  <2>1. PICK Y : Y = X \cap DOMAIN v OBVIOUS
  <2>2. Founders(v) \subseteq Y BY <1>1, <1>2, <2>1 DEF Founders, Reached
  <2>3. From(v, Y) \subseteq Y BY <1>1, <1>2, <2>1 DEF From, Reached
  <2>4. Y = DOMAIN v BY <2>1, <2>2, <2>3 DEF Reached
  <2>5. a \in X
    <3>1. CASE I = {} BY <1>1, <1>2, <3>1 DEF Founders, Reached
    <3>2. CASE I # {} BY <1>1, <1>2, <2>1, <2>4, <3>2 DEF From, Reached
    <3>3. QED BY <3>1, <3>2
  <2>6. QED BY <1>1, <2>1, <2>4, <2>5
<1>3. Founders(w) = Founders(v) \cup (IF I = {} THEN {a} ELSE {}) BY <1>1 DEF Founders
<1>4. QED BY <1>2, <1>3

\* How many founders and callers without a voucher there are.
LEMMA FoundersAre ==
  ASSUME UsersInv, NEW cs
  PROVE  /\ DOMAIN vouched = DOMAIN users /\ IsFiniteSet(Founders(vouched)) /\ IsFiniteSet(Unvouched(cs))
         /\ Cardinality(Founders(vouched)) \in Nat /\ Cardinality(Unvouched(cs)) \in Nat
         /\ Cardinality(Callers) \in Nat /\ Cardinality(Unvouched(cs)) <= Cardinality(Callers)
         /\ Cardinality(Founders(vouched)) <= Cardinality(DOMAIN users) /\ Cardinality(DOMAIN users) \in Nat
<1>1. DOMAIN vouched = DOMAIN users /\ IsFiniteSet(DOMAIN users) BY SumsOfUsers DEF UsersInv, UsersTypes, Vouchings
<1>2. Founders(vouched) \subseteq DOMAIN users BY <1>1 DEF Founders
<1>3. Unvouched(cs) \subseteq Callers /\ IsFiniteSet(Callers) BY UsersAssumption DEF Unvouched
<1>4. QED BY <1>1, <1>2, <1>3, FS_Subset, FS_CardinalityType

\* Callers that hold what they held, but for one that now holds no registration.
LEMMA Dropped ==
  ASSUME UsersInv, NEW c \in Callers, NEW call, call.what \notin {"admitted", "described"},
         NEW cs, cs = [calls EXCEPT ![c] = call]
  PROVE  Unvouched(cs) = Unvouched(calls) \ {c}
<1>1. cs[c] = call /\ \A x \in Callers : x # c => cs[x] = calls[x] BY DEF UsersInv, UsersTypes, CallsInv
<1>2. QED BY <1>1 DEF Unvouched

LEMMA FewerCallers ==
  ASSUME UsersInv, FewFounders(vouched, calls), NEW cs, Unvouched(cs) \subseteq Unvouched(calls)
  PROVE  FewFounders(vouched, cs)
<1>1. PICK f \in Nat, n \in Nat, m \in Nat, k \in Nat :
        /\ f = Cardinality(Founders(vouched)) /\ n = Cardinality(Unvouched(calls)) /\ m = Cardinality(Unvouched(cs))
        /\ k = Cardinality(Callers)
  BY FoundersAre
<1>2. m <= n BY <1>1, FoundersAre, FS_Subset
<1>3. f + n <= (MinGenesisUsers - 1) + k BY <1>1 DEF FewFounders
<1>4. f + m <= (MinGenesisUsers - 1) + k BY <1>2, <1>3, UsersAssumption
<1>5. QED BY <1>1, <1>4 DEF FewFounders

LEMMA RootsRegistering ==
  ASSUME UsersInv, RootsInv, NEW c \in Callers, PutUser(c) PROVE RootsInv'
<1>0. calls[c].what = "described" /\ calls' = [calls EXCEPT ![c] = Idle] BY DEF PutUser
<1>1. PICK a \in Accounts, I \in SUBSET DOMAIN users : a = calls[c].who /\ I = calls[c].by
  BY <1>0 DEF UsersInv, UsersTypes, CallsInv, Holds
<1>2. vouched' = IF a \in DOMAIN users THEN vouched ELSE Put(vouched, a, I) BY <1>1 DEF PutUser, Registered
<1>3. Unvouched(calls') = Unvouched(calls) \ {c}
  <2>1. Idle.what \notin {"admitted", "described"} BY DEF Idle
  <2>2. QED BY <1>0, <2>1, Dropped
<1>4. FewFounders(vouched, calls) BY DEF RootsInv
<1>5. CASE a \in DOMAIN users
  <2>1. FewFounders(vouched, calls') BY <1>3, <1>4, FewerCallers
  <2>2. QED BY <1>2, <1>5, <2>1 DEF RootsInv
<1>6. CASE a \notin DOMAIN users
  <2>1. DOMAIN vouched = DOMAIN users BY FoundersAre
  <2>2. /\ \A X \in SUBSET DOMAIN vouched' : Reached(vouched', X) => X = DOMAIN vouched'
        /\ Founders(vouched') = Founders(vouched) \cup (IF I = {} THEN {a} ELSE {})
    BY <1>2, <1>6, <2>1, OneMore DEF RootsInv
  <2>3. FewFounders(vouched', calls')
    <3>1. CASE I # {}
      <4>1. FewFounders(vouched, calls') BY <1>3, <1>4, FewerCallers
      <4>2. QED BY <2>2, <3>1, <4>1 DEF FewFounders
    <3>2. CASE I = {}
      <4>1. PICK F, U : F = Founders(vouched) /\ U = Unvouched(calls) OBVIOUS
      <4>2. c \in U BY <1>0, <1>1, <3>2, <4>1 DEF Unvouched
      <4>3. a \notin F BY <1>6, <2>1, <4>1 DEF Founders
      <4>4. IsFiniteSet(F) /\ IsFiniteSet(U) BY <4>1, FoundersAre
      <4>5. PICK f \in Nat, u \in Nat, k \in Nat : f = Cardinality(F) /\ u = Cardinality(U) /\ k = Cardinality(Callers)
        BY <4>1, FoundersAre
      <4>6. Cardinality(F \cup {a}) = f + 1 BY <4>3, <4>4, <4>5, FS_AddElement
      <4>7. Cardinality(U \ {c}) = u - 1 BY <4>2, <4>4, <4>5, FS_RemoveElement
      <4>8. f + u <= (MinGenesisUsers - 1) + k BY <1>4, <4>1, <4>5 DEF FewFounders
      <4>9. (f + 1) + (u - 1) <= (MinGenesisUsers - 1) + k BY <4>8, UsersAssumption
      <4>10. Founders(vouched') = F \cup {a} BY <2>2, <3>2, <4>1
      <4>11. QED BY <1>3, <4>1, <4>5, <4>6, <4>7, <4>9, <4>10 DEF FewFounders
    <3>3. QED BY <3>1, <3>2
  <2>4. QED BY <2>2, <2>3 DEF RootsInv
<1>7. QED BY <1>5, <1>6

LEMMA RootsAdmitting ==
  ASSUME UsersInv, RootsInv, NEW c \in Callers, Admit(c) PROVE RootsInv'
<1>1. PICK creds : creds = calls[c].creds OBVIOUS
<1>2. PICK V : V = {i \in DOMAIN creds : Valid(creds[i])} OBVIOUS
<1>3. PICK I : I = IF GenesisPhase THEN {} ELSE {creds[i].inviter : i \in V} OBVIOUS
<1>4. PICK call : call = IF GenesisPhase \/ Cardinality(V) >= MinGenesisUsers
                         THEN [what |-> "admitted", who |-> calls[c].who, by |-> I] ELSE Idle OBVIOUS
<1>5. calls' = [calls EXCEPT ![c] = call] /\ vouched' = vouched BY <1>1, <1>2, <1>3, <1>4 DEF Admit
<1>6. FewFounders(vouched, calls) BY DEF RootsInv
<1>7. FewFounders(vouched, calls')
  <2>1. CASE GenesisPhase
    <3>1. PICK f \in Nat, n \in Nat, k \in Nat, m \in Nat :
            /\ f = Cardinality(Founders(vouched)) /\ n = Cardinality(DOMAIN users)
            /\ k = Cardinality(Callers) /\ m = Cardinality(Unvouched(calls'))
      BY FoundersAre
    <3>2. f <= n /\ m <= k BY <3>1, FoundersAre
    <3>3. n < MinGenesisUsers BY <2>1, <3>1 DEF GenesisPhase, Registered
    <3>4. f + m <= (MinGenesisUsers - 1) + k BY <3>2, <3>3, UsersAssumption
    <3>5. QED BY <3>1, <3>4 DEF FewFounders
  <2>2. CASE ~GenesisPhase
    <3>1. calls'[c] = call /\ \A x \in Callers : x # c => calls'[x] = calls[x]
      BY <1>5 DEF UsersInv, UsersTypes, CallsInv
    <3>2. ~(call.what \in {"admitted", "described"} /\ call.by = {})
      <4>1. CASE Cardinality(V) >= MinGenesisUsers
        <5>1. V # {} BY <4>1, FS_EmptySet, UsersAssumption
        <5>2. call.by # {} BY <1>3, <1>4, <2>2, <4>1, <5>1
        <5>3. QED BY <5>2
      <4>2. CASE ~(Cardinality(V) >= MinGenesisUsers) BY <1>4, <2>2, <4>2 DEF Idle
      <4>3. QED BY <4>1, <4>2
    <3>3. Unvouched(calls') \subseteq Unvouched(calls) BY <3>1, <3>2 DEF Unvouched
    <3>4. QED BY <1>6, <3>3, FewerCallers
  <2>3. QED BY <2>1, <2>2
<1>8. QED BY <1>5, <1>7 DEF RootsInv

LEMMA RootsStep == ASSUME UsersInv, RootsInv, [UsersNext]_usersVars PROVE RootsInv'
<1>1. ASSUME NEW c \in Callers, PutUser(c) PROVE RootsInv' BY <1>1, RootsRegistering
<1>2. ASSUME NEW c \in Callers, Admit(c) PROVE RootsInv' BY <1>2, RootsAdmitting
<1>3. ASSUME NEW c \in Callers, Describe(c) PROVE RootsInv'
  <2>1. PICK call : call = [what |-> "described", who |-> calls[c].who, by |-> calls[c].by, user |-> NewUser] OBVIOUS
  <2>2. calls[c].what = "admitted" /\ calls' = [calls EXCEPT ![c] = call] /\ vouched' = vouched
    BY <1>3, <2>1 DEF Describe
  <2>3. calls'[c] = call /\ \A x \in Callers : x # c => calls'[x] = calls[x]
    BY <2>2 DEF UsersInv, UsersTypes, CallsInv
  <2>4. Unvouched(calls') \subseteq Unvouched(calls) BY <2>1, <2>2, <2>3 DEF Unvouched
  <2>5. QED BY <2>2, <2>4, FewerCallers DEF RootsInv
<1>4. ASSUME vouched' = vouched, NEW c \in Callers, NEW call, call.what \notin {"admitted", "described"},
             calls' = [calls EXCEPT ![c] = call]
      PROVE  RootsInv'
  <2>1. Unvouched(calls') \subseteq Unvouched(calls) BY <1>4, Dropped
  <2>2. QED BY <1>4, <2>1, FewerCallers DEF RootsInv
<1>5. ASSUME NEW c \in Callers, NEW a, NEW creds, RegisterUser(c, a, creds) PROVE RootsInv'
  <2>1. PICK call : call = [what |-> "register", who |-> a, creds |-> creds] OBVIOUS
  <2>2. QED BY <1>4, <1>5, <2>1 DEF RegisterUser
<1>6. ASSUME NEW c \in Callers, NEW n, CollectFees(c, n) PROVE RootsInv'
  <2>1. PICK call : call = [what |-> "pool", next |-> WithFee(pool, n), earned |-> Nothing] OBVIOUS
  <2>2. QED BY <1>4, <1>6, <2>1 DEF CollectFees
<1>7. ASSUME NEW c \in Callers, NEW author, NEW server, NEW fee, NEW a, NEW s,
             RecordGameTx(c, author, server, fee, a, s)
      PROVE  RootsInv'
  <2>1. PICK call : /\ call.what = "pool" /\ calls' = [calls EXCEPT ![c] = call] BY <1>7 DEF RecordGameTx
  <2>2. vouched' = vouched BY <1>7 DEF RecordGameTx
  <2>3. QED BY <1>4, <2>1, <2>2
<1>8. ASSUME NEW c \in Callers, SetPool(c) \/ PayShares(c) PROVE RootsInv'
  <2>4. PICK rest : rest = [what |-> "earned", earned |-> calls[c].earned] OBVIOUS
  <2>5. calls' = [calls EXCEPT ![c] = Idle] \/ calls' = [calls EXCEPT ![c] = rest]
    BY <1>8, <2>4 DEF SetPool, PayShares
  <2>6. Idle.what \notin {"admitted", "described"} /\ rest.what \notin {"admitted", "described"} BY <2>4 DEF Idle
  <2>1. PICK call : call.what \notin {"admitted", "described"} /\ calls' = [calls EXCEPT ![c] = call]
    BY <2>5, <2>6
  <2>2. vouched' = vouched BY <1>8 DEF SetPool, PayShares
  <2>3. QED BY <1>4, <2>1, <2>2
<1>9. ASSUME UNCHANGED <<vouched, calls>> PROVE RootsInv' BY <1>9 DEF RootsInv
<1>10. CASE UsersNext
  BY <1>1, <1>2, <1>3, <1>5, <1>6, <1>7, <1>8, <1>9, <1>10
     DEF UsersNext, CreateBond, SetBond, Recalculate, BindGameServer, Liable, Deduct
<1>11. CASE UNCHANGED usersVars BY <1>9, <1>11 DEF usersVars
<1>12. QED BY <1>10, <1>11

\* The rounds of RootedInFounders reach everybody when there are as many as users.
LEMMA RoundsReach ==
  ASSUME NEW v, IsFiniteSet(DOMAIN v), NEW N \in Nat, N = Cardinality(DOMAIN v),
         \A X \in SUBSET DOMAIN v : Reached(v, X) => X = DOMAIN v,
         NEW g, g = [n \in 0..N |-> IF n = 0 THEN Founders(v) ELSE g[n - 1] \cup From(v, g[n - 1])]
  PROVE  g[N] = DOMAIN v
<1>1. PICK P : P = {n \in Nat : n <= N => /\ g[n] \in SUBSET DOMAIN v /\ Founders(v) \subseteq g[n]
                                         /\ (Reached(v, g[n]) \/ Cardinality(g[n]) >= n)} OBVIOUS
<1>2. 0 \in P BY <1>1, FS_Subset, FS_CardinalityType DEF Founders
<1>3. ASSUME NEW n \in Nat, n \in P PROVE n + 1 \in P
  <2>0. SUFFICES ASSUME n + 1 <= N
                 PROVE /\ g[n + 1] \in SUBSET DOMAIN v /\ Founders(v) \subseteq g[n + 1]
                       /\ (Reached(v, g[n + 1]) \/ Cardinality(g[n + 1]) >= n + 1)
    BY <1>1
  <2>1. n <= N /\ n + 1 \in 0..N /\ n + 1 # 0 /\ (n + 1) - 1 = n BY <2>0
  <2>2. PICK X : X = g[n] OBVIOUS
  <2>3. X \in SUBSET DOMAIN v /\ Founders(v) \subseteq X /\ (Reached(v, X) \/ Cardinality(X) >= n)
    BY <1>1, <1>3, <2>1, <2>2
  <2>4. PICK Y : Y = X \cup From(v, X) OBVIOUS
  <2>5. g[n + 1] = Y BY <2>1, <2>2, <2>4
  <2>6. Y \in SUBSET DOMAIN v /\ Founders(v) \subseteq Y /\ X \subseteq Y BY <2>3, <2>4 DEF From
  <2>7. CASE From(v, X) \subseteq X
    <3>1. Y = X /\ Reached(v, X) BY <2>3, <2>4, <2>7 DEF Reached
    <3>2. QED BY <2>5, <2>6, <3>1
  <2>8. CASE ~(From(v, X) \subseteq X)
    <3>1. X # Y BY <2>4, <2>8
    <3>2. ~Reached(v, X) BY <2>8 DEF Reached
    <3>3. IsFiniteSet(Y) /\ IsFiniteSet(X) /\ Cardinality(X) <= Cardinality(Y) /\ Cardinality(X) # Cardinality(Y)
      BY <2>6, <3>1, FS_Subset
    <3>4. Cardinality(X) \in Nat /\ Cardinality(Y) \in Nat BY <3>3, FS_CardinalityType
    <3>5. PICK x \in Nat, y \in Nat : x = Cardinality(X) /\ y = Cardinality(Y) BY <3>4
    <3>6. x >= n /\ x <= y /\ x # y BY <2>3, <3>2, <3>3, <3>5
    <3>7. y >= n + 1 BY <3>6
    <3>8. QED BY <2>5, <2>6, <3>5, <3>7
  <2>9. QED BY <2>7, <2>8
<1>4. N \in P BY <1>2, <1>3, StepByStep
<1>5. g[N] \in SUBSET DOMAIN v /\ (Reached(v, g[N]) \/ Cardinality(g[N]) >= N) BY <1>1, <1>4
<1>6. CASE Reached(v, g[N]) BY <1>5, <1>6
<1>7. CASE Cardinality(g[N]) >= N BY <1>5, <1>7, FS_Subset, FS_CardinalityType
<1>8. QED BY <1>5, <1>6, <1>7

LEMMA RootsRooted == ASSUME UsersInv, RootsInv PROVE RootedInFounders
<1>0. DOMAIN vouched = DOMAIN users /\ IsFiniteSet(DOMAIN users) BY SumsOfUsers DEF UsersInv, UsersTypes, Vouchings
<1>1. PICK N \in Nat : N = Cardinality(DOMAIN vouched) BY <1>0, FS_CardinalityType
<1>2. PICK V : V = SUBSET DOMAIN vouched OBVIOUS
<1>3. PICK F \in V : F = Founders(vouched) BY <1>2 DEF Founders
<1>4. PICK st : st = [p \in (1..N) \X V |-> p[2] \cup From(vouched, p[2])] OBVIOUS
<1>5. st \in [(1..N) \X V -> V] BY <1>2, <1>4 DEF From
<1>6. PICK h \in [0..N -> V] : Iterated(h, N, F, st) BY <1>5, LoopDefines
<1>7. h = [n \in 0..N |-> IF n = 0 THEN Founders(vouched) ELSE h[n - 1] \cup From(vouched, h[n - 1])]
  <2>1. ASSUME NEW n \in 0..N, n # 0 PROVE st[<<n, h[n - 1]>>] = h[n - 1] \cup From(vouched, h[n - 1])
    BY <1>4, <1>6, <2>1
  <2>2. QED BY <1>3, <1>6, <2>1 DEF Iterated
<1>8. PICK g : g = CHOOSE x : x = [n \in 0..N |-> IF n = 0 THEN Founders(vouched) ELSE x[n - 1] \cup From(vouched, x[n - 1])]
  OBVIOUS
<1>9. g = [n \in 0..N |-> IF n = 0 THEN Founders(vouched) ELSE g[n - 1] \cup From(vouched, g[n - 1])]
  BY <1>7, <1>8
<1>10. g[N] = DOMAIN vouched BY <1>0, <1>1, <1>9, RoundsReach DEF RootsInv
<1>11. Founders(vouched) = {u \in DOMAIN users : vouched[u] = {}} BY <1>0 DEF Founders
<1>12. g = CHOOSE x : x = [n \in 0..Cardinality(DOMAIN users) |->
             IF n = 0 THEN {u \in DOMAIN users : vouched[u] = {}}
             ELSE x[n - 1] \cup {u \in DOMAIN users : vouched[u] # {} /\ vouched[u] \subseteq x[n - 1]}]
  BY <1>0, <1>1, <1>8, <1>11 DEF From
<1>13. Cardinality(Founders(vouched)) < MinGenesisUsers + Cardinality(Callers)
  <2>1. PICK f \in Nat, u \in Nat, k \in Nat :
          f = Cardinality(Founders(vouched)) /\ u = Cardinality(Unvouched(calls)) /\ k = Cardinality(Callers)
    BY FoundersAre
  <2>2. f + u <= (MinGenesisUsers - 1) + k BY <2>1 DEF RootsInv, FewFounders
  <2>3. f < MinGenesisUsers + k BY <2>2, UsersAssumption
  <2>4. QED BY <2>1, <2>3
<1>14. QED BY <1>0, <1>1, <1>10, <1>11, <1>12, <1>13 DEF RootedInFounders, Registered

-----------------------------------------------------------------------------
LEMMA WorthIs ==
  ASSUME NEW us, NEW bs, NEW p PROVE Worth(us, bs, p) = SumOn(Limits(us)) + SumOn(Totals(bs)) + p.bad
BY DEF Limits, Totals, SumFunction, SumOn, Worth, SumOf

LEMMA CompoundsNothing ==
  ASSUME UsersInv, fresh' = FALSE, users' = Recalculated(users), NEW u \in Registered
  PROVE  /\ users'[u].weight > Base => \E i \in DOMAIN users[u].by : users[u].by[i] <= u
         /\ ~fresh => users'[u].weight = users[u].weight
<1>0. Blocks(users) /\ u \in DOMAIN users BY DEF UsersInv, UsersTypes, Registered
<1>1. PICK vs : vs = Recalculated(users) OBVIOUS
<1>2. vs[u].weight = Cascade(users)[u] BY <1>0, <1>1, RecalculatedIs
<1>3. Cascade(users)[u] # Base => Guaranteed(u, users[u].by) BY <1>0, BlocksAreUsers, CascadeIs
<1>4. vs[u].weight > Base => Guaranteed(u, users[u].by) BY <1>2, <1>3 DEF Base
<1>5. ~fresh => users[u].weight = Cascade(users)[u] BY <1>0 DEF UsersInv, WeightsInv
<1>6. QED BY <1>1, <1>2, <1>4, <1>5 DEF Guaranteed

LEMMA LiabilitiesExact ==
  ASSUME UsersInv, [UsersNext]_usersVars, liability'.id # liability.id
  PROVE  LET spent == Worth(users, bonds, pool) - Worth(users', bonds', pool') IN
         IF liability'.covered THEN spent = liability'.debt ELSE spent < liability'.debt
<1>0. Blocks(users) /\ Bonds(bonds) /\ pool \in PoolRecord BY DEF UsersInv, UsersTypes, PoolInv, PoolFits
<1>15. liability' # liability OBVIOUS
<1>16. ASSUME NEW c \in Callers,
              \/ \E a \in Accounts, creds \in Seq(Credential) : RegisterUser(c, a, creds)
              \/ Admit(c) \/ Describe(c) \/ PutUser(c)
              \/ \E amount \in 0..Wrap - 1 : CollectFees(c, amount)
              \/ \E author, server \in Accounts, fee, a, s \in Nat :
                   a + s <= 100 /\ RecordGameTx(c, author, server, fee, a, s)
              \/ SetPool(c) \/ PayShares(c)
       PROVE  liability' = liability
  BY <1>16 DEF RegisterUser, Admit, Describe, PutUser, CollectFees, RecordGameTx, SetPool, PayShares
<1>17. UsersNext BY <1>15 DEF usersVars
<1>1. PICK u \in Accounts, debt \in Nat : Liable(u, debt)
  BY <1>15, <1>16, <1>17 DEF UsersNext, CreateBond, SetBond, Recalculate, BindGameServer, Deduct
<1>2. PICK end : \E sum \in Int :
           /\ Recovery(end, users, sum) /\ LiableTo(u, debt, end)
           /\ SumOn(Limits(users)) + SumOn(Totals(bonds)) = sum + debt
  BY <1>0, <1>1, LiableIs
<1>3. PICK sum \in Int :
           /\ Recovery(end, users, sum) /\ LiableTo(u, debt, end)
           /\ SumOn(Limits(users)) + SumOn(Totals(bonds)) = sum + debt
  BY <1>2
<1>4. PICK due \in Nat, bad \in Nat : due = end.due /\ bad = pool.bad BY <1>0, <1>3 DEF Recovery, PoolRecord
<1>5. /\ users' = end.us /\ bonds' = end.bs
      /\ pool' = IF due <= bad THEN [pool EXCEPT !.bad = @ - due, !.total = Plus(@, -due)] ELSE pool
      /\ liability'.debt = debt /\ liability'.covered = (due <= bad)
  BY <1>3, <1>4 DEF LiableTo
<1>6. PICK x \in Nat, y \in Nat, a \in Nat, b \in Nat :
        x = SumOn(Limits(users)) /\ y = SumOn(Totals(bonds)) /\ a = SumOn(Limits(users')) /\ b = SumOn(Totals(bonds'))
  BY <1>0, <1>3, <1>5, SumsOfUsers, SumOfBonds DEF Recovery
<1>7. x + y = sum + debt /\ a + b = sum + due BY <1>3, <1>4, <1>5, <1>6 DEF Recovery
<1>8. Worth(users, bonds, pool) = x + y + bad BY <1>4, <1>6, WorthIs
<1>9. PICK c \in Nat : c = pool'.bad /\ c = IF due <= bad THEN bad - due ELSE bad
  <2>1. CASE due <= bad BY <1>0, <1>4, <1>5, <2>1 DEF PoolRecord
  <2>2. CASE ~(due <= bad) BY <1>4, <1>5, <2>2
  <2>3. QED BY <2>1, <2>2
<1>10. Worth(users', bonds', pool') = a + b + c BY <1>6, <1>9, WorthIs
<1>11. (x + y + bad) - (a + b + c) = debt - due + (bad - c) BY <1>7
<1>12. CASE due <= bad
  <2>1. debt - due + (bad - c) = debt BY <1>9, <1>12
  <2>2. QED BY <1>5, <1>8, <1>10, <1>11, <1>12, <2>1
<1>13. CASE ~(due <= bad)
  <2>1. debt - due + (bad - c) < debt BY <1>9, <1>13
  <2>2. QED BY <1>5, <1>8, <1>10, <1>11, <1>13, <2>1
<1>14. QED BY <1>12, <1>13

LEMMA InvUsers == ASSUME UsersInv PROVE UsersType /\ PoolExplained
<1>0. Blocks(users) /\ DOMAIN vouched = DOMAIN users BY DEF UsersInv, UsersTypes, Vouchings
<1>1. UsersType
  <2>1. ASSUME NEW u \in DOMAIN users PROVE users[u].weight \in 0..MaxWeight /\ users[u].limit \in Nat
    BY <1>0 DEF Blocks, Block
  <2>2. QED BY <1>0, <2>1 DEF UsersType, Registered, Blocks
<1>2. SumOf(Registered, LAMBDA u : users[u].games) = SumOn(Games(users))
  BY DEF Games, SumFunction, SumOn, SumOf, Registered
<1>3. PoolExplained BY <1>2 DEF UsersInv, PoolInv, PoolFits, PoolRecord, PartsOf, PoolExplained
<1>4. QED BY <1>1, <1>3

LEMMA UsersStart == UsersInit => UsersInv /\ RootsInv
<1>. SUFFICES ASSUME UsersInit PROVE UsersInv /\ RootsInv OBVIOUS
<1>0. DOMAIN users = {} /\ DOMAIN bonds = {} /\ DOMAIN vouched = {} /\ users = <<>> /\ bonds = <<>> BY DEF UsersInit
<1>1. Blocks(users) /\ Bonds(bonds) /\ Vouchings BY <1>0 DEF Blocks, Bonds, Vouchings
<1>2. SumOn(Games(users)) = 0 BY <1>0, SumEmpty DEF Games, SumOn
<1>3. UsersTypes
  <2>1. CallsInv BY DEF UsersInit, CallsInv, Holds, Idle
  <2>2. liability \in [id : Nat, debt : Nat, covered : BOOLEAN] BY DEF UsersInit, NoLiability
  <2>3. fresh \in BOOLEAN /\ shared \in Nat BY DEF UsersInit
  <2>4. QED BY <1>1, <2>1, <2>2, <2>3 DEF UsersTypes
<1>4. PoolInv
  <2>1. pool = NoFees /\ pool \in PoolRecord BY DEF UsersInit, NoFees, PoolRecord
  <2>2. PartsOf(pool) + pool.shares + pool.lost = 0 /\ pool.total = 0 /\ pool.lost <= 4 * pool.fees
    BY <2>1 DEF NoFees, PartsOf
  <2>3. 0 % Wrap = 0 BY UsersAssumption
  <2>4. QED BY <1>2, <2>1, <2>2, <2>3 DEF UsersInit, PoolInv, PoolFits
<1>5. WeightsInv BY <1>0 DEF WeightsInv
<1>6. RootsInv
  <2>1. Founders(vouched) = {} /\ DOMAIN vouched = {} BY <1>0 DEF Founders
  <2>2. Unvouched(calls) = {} BY DEF UsersInit, Unvouched, Idle
  <2>3. PICK k \in Nat : k = Cardinality(Callers) BY FS_CardinalityType, UsersAssumption
  <2>4. FewFounders(vouched, calls) BY <2>1, <2>2, <2>3, FS_EmptySet, UsersAssumption DEF FewFounders
  <2>5. QED BY <2>1, <2>4 DEF RootsInv
<1>7. QED BY <1>3, <1>4, <1>5, <1>6 DEF UsersInv

(* Users come from founders, the pool and the limits from what paid for    *)
(* them, weights do not compound, and a liability takes exactly the debt.  *)
THEOREM UsersAreSound == UsersSpec => UsersSound
<1>1. UsersInit => UsersInv /\ RootsInv BY UsersStart
<1>2. UsersInv /\ RootsInv /\ [UsersNext]_usersVars => (UsersInv /\ RootsInv)' BY UsersStep, RootsStep
<1>3. UsersInv /\ RootsInv => UsersType /\ RootedInFounders /\ PoolExplained BY InvUsers, RootsRooted
<1>4. UsersInv => [(fresh' = FALSE /\ users' = Recalculated(users)) =>
       \A u \in Registered :
         /\ users'[u].weight > Base => \E i \in DOMAIN users[u].by : users[u].by[i] <= u
         /\ ~fresh => users'[u].weight = users[u].weight]_usersVars
  BY CompoundsNothing
<1>5. UsersInv /\ [UsersNext]_usersVars =>
        [liability'.id # liability.id =>
         LET spent == Worth(users, bonds, pool) - Worth(users', bonds', pool') IN
         IF liability'.covered THEN spent = liability'.debt ELSE spent < liability'.debt]_usersVars
  BY LiabilitiesExact
<1>6. QED BY <1>1, <1>2, <1>3, <1>4, <1>5, PTL DEF UsersSpec, UsersSound, NoCompounding, LiabilityExact

-----------------------------------------------------------------------------
(* What the steps of the governance leave alone.                           *)

LEMMA KeepsUsers ==
  ASSUME GovernanceNext
  PROVE  \/ users' = users
         \/ ExpireTerm \/ CreditSalary \/ SlashUser \/ Demote \/ Promote \/ WriteWeight \/ TakeRole
         \/ \E u \in Registered, role \in {"relay", "record"} : RegisterNode(u, role)
BY DEF GovernanceNext, BeginBlock, StartSalary, SalaryPaid, StartSlashing, FundReserve, StartRotation, Check,
       Rotated, StartWeights, EndBlock, RecordRelay, Ban, Unban, Crash, Restart, usersVars

LEMMA KeepsSlashes ==
  ASSUME GovernanceNext
  PROVE  SlashUser \/ Crash \/ UNCHANGED <<low, slashed, peak, slashedAt>>
BY DEF GovernanceNext, BeginBlock, ExpireTerm, StartSalary, CreditSalary, SalaryPaid, StartSlashing, FundReserve,
       StartRotation, Demote, Check, Promote, Rotated, StartWeights, WriteWeight, EndBlock, RecordRelay, Ban, Unban,
       RegisterNode, TakeRole, Restart, memory, ghosts

LEMMA KeepsPayouts ==
  ASSUME GovernanceNext
  PROVE  StartSalary \/ CreditSalary \/ UNCHANGED <<payouts, paid>>
BY DEF GovernanceNext, BeginBlock, ExpireTerm, SalaryPaid, StartSlashing, SlashUser, FundReserve, StartRotation,
       Demote, Check, Promote, Rotated, StartWeights, WriteWeight, EndBlock, RecordRelay, Ban, Unban, RegisterNode,
       TakeRole, Crash, Restart, memory, ghosts

LEMMA KeepsTerms ==
  ASSUME GovernanceNext
  PROVE  ExpireTerm \/ Demote \/ Promote \/ Crash \/ UNCHANGED <<terms, history, begun, replaced>>
BY DEF GovernanceNext, BeginBlock, StartSalary, CreditSalary, SalaryPaid, StartSlashing, SlashUser, FundReserve,
       StartRotation, Check, Rotated, StartWeights, WriteWeight, EndBlock, RecordRelay, Ban, Unban, RegisterNode,
       TakeRole, Restart, memory, ghosts

LEMMA KeepsBans ==
  ASSUME GovernanceNext
  PROVE  TakeRole \/ Crash \/ (\E u \in Registered : Ban(u) \/ Unban(u)) \/ UNCHANGED <<blacklist, banning>>
BY DEF GovernanceNext, BeginBlock, ExpireTerm, StartSalary, CreditSalary, SalaryPaid, StartSlashing, SlashUser,
       FundReserve, StartRotation, Demote, Check, Promote, Rotated, StartWeights, WriteWeight, EndBlock, RecordRelay,
       RegisterNode, Restart, memory

LEMMA KeepsPool ==
  ASSUME GovernanceNext PROVE FundReserve \/ pool' = pool
BY DEF GovernanceNext, BeginBlock, ExpireTerm, StartSalary, CreditSalary, SalaryPaid, StartSlashing, SlashUser,
       StartRotation, Demote, Check, Promote, Rotated, StartWeights, WriteWeight, EndBlock, RecordRelay, Ban, Unban,
       RegisterNode, TakeRole, Crash, Restart, usersVars

LEMMA KeepsFine ==
  ASSUME GovernanceNext PROVE SlashUser \/ fine' \in {fine, 0}
BY DEF GovernanceNext, BeginBlock, ExpireTerm, StartSalary, CreditSalary, SalaryPaid, StartSlashing, FundReserve,
       StartRotation, Demote, Check, Promote, Rotated, StartWeights, WriteWeight, EndBlock, RecordRelay, Ban, Unban,
       RegisterNode, TakeRole, Crash, Restart, counters

\* What the loop is doing changes only with the loop.
LEMMA KeepsLoop ==
  ASSUME GovernanceNext
  PROVE  \/ BeginBlock \/ ExpireTerm \/ StartSalary \/ CreditSalary \/ SalaryPaid
         \/ StartSlashing \/ SlashUser \/ StartRotation \/ Demote \/ Check \/ Promote \/ Rotated
         \/ StartWeights \/ WriteWeight \/ EndBlock \/ Crash \/ Restart
         \/ UNCHANGED <<pc, view, todo, height, saved, now, paidAt, stops>>
BY DEF GovernanceNext, FundReserve, RecordRelay, Ban, Unban, RegisterNode, TakeRole, memory, ghosts, loop, counters

-----------------------------------------------------------------------------
(* Lists, and what their heads and tails are.                              *)
Elements(s) == {s[i] : i \in 1..Len(s)}
LEMMA Popped ==
  ASSUME NEW X, NEW s \in Seq(X), s # <<>>
  PROVE  /\ Head(s) \in X /\ Tail(s) \in Seq(X) /\ Elements(s) = {Head(s)} \cup Elements(Tail(s))
         /\ Different(s) => Different(Tail(s)) /\ Head(s) \notin Elements(Tail(s))
<1>1. PICK n \in Nat : n = Len(s) /\ DOMAIN s = 1..n OBVIOUS
<1>2. n >= 1 BY <1>1
<1>3. PICK h, t : h = Head(s) /\ t = Tail(s) OBVIOUS
<1>4. h \in X /\ t \in Seq(X) /\ Len(t) = n - 1 /\ \A i \in 1..(n - 1) : t[i] = s[i + 1]
  BY <1>1, <1>3, HeadTailProperties
<1>5. h = s[1] BY <1>2, <1>3
<1>6. DOMAIN t = 1..(n - 1) BY <1>4
<1>7. Elements(s) = {h} \cup Elements(t)
  <2>1. ASSUME NEW x \in Elements(s) PROVE x = h \/ x \in Elements(t)
    <3>1. PICK i \in 1..n : x = s[i] BY <1>1, <2>1 DEF Elements
    <3>2. CASE i = 1 BY <1>5, <3>1, <3>2
    <3>3. CASE i # 1
      <4>1. i - 1 \in 1..(n - 1) /\ (i - 1) + 1 = i BY <3>1, <3>3
      <4>2. t[i - 1] = x BY <1>4, <3>1, <4>1
      <4>3. QED BY <1>4, <4>1, <4>2 DEF Elements
    <3>4. QED BY <3>2, <3>3
  <2>2. ASSUME NEW x \in Elements(t) PROVE x \in Elements(s) BY <1>1, <1>4, <2>2 DEF Elements
  <2>3. h \in Elements(s) BY <1>1, <1>2, <1>5 DEF Elements
  <2>4. QED BY <2>1, <2>2, <2>3
<1>8. ASSUME Different(s) PROVE Different(t) /\ h \notin Elements(t)
  <2>1. ASSUME NEW i \in 1..(n - 1), NEW j \in 1..(n - 1), t[i] = t[j] PROVE i = j
    <3>1. i + 1 \in 1..n /\ j + 1 \in 1..n /\ s[i + 1] = s[j + 1] BY <1>4, <2>1
    <3>2. i + 1 = j + 1 BY <1>1, <1>8, <3>1 DEF Different
    <3>3. QED BY <3>2
  <2>2. ASSUME h \in Elements(t) PROVE FALSE BY <1>1, <1>2, <1>4, <1>5, <1>8, <2>2 DEF Elements, Different
  <2>3. QED BY <1>6, <2>1, <2>2 DEF Different
<1>9. QED BY <1>3, <1>4, <1>7, <1>8

AtRank(S, i) == CHOOSE x \in S : Cardinality({y \in S : y < x}) = i - 1
LEMMA SortedListIs ==
  ASSUME NEW S \in SUBSET Accounts
  PROVE  Sorted(S) \in Seq(S) /\ Different(Sorted(S)) /\ Elements(Sorted(S)) = S
<1>1. S \in SUBSET Nat /\ IsFiniteSet(S) BY UsersAssumption, FS_Subset
<1>2. PICK n \in Nat : n = Cardinality(S) BY <1>1, FS_CardinalityType
<1>3. PICK s : s = Sorted(S) OBVIOUS
<1>4. s = ByRank(S) BY <1>3 DEF Sorted, ByRank
<1>5. DOMAIN s = 1..n /\ Different(s) /\ Len(s) = n /\ \A i \in 1..n : s[i] \in S BY <1>2, <1>3, SortedUsers
<1>6. s = [i \in 1..n |-> s[i]]
  <2>1. s = [i \in 1..n |-> AtRank(S, i)] BY <1>2, <1>4 DEF ByRank, AtRank
  <2>2. QED BY <2>1
<1>7. s \in [1..n -> S] BY <1>5, <1>6
<1>12. \A c \in S : \E i \in 1..n : s[i] = c
  <2>0. PICK N : N = 1..n OBVIOUS
  <2>1. s \in Injection(N, S) BY <1>5, <1>7, <2>0 DEF Different, Injection, IsInjective
  <2>2. IsFiniteSet(N) /\ Cardinality(N) = Cardinality(S) BY <1>2, <2>0, CountUpTo
  <2>3. s \in Surjection(N, S) BY <1>1, <2>1, <2>2, FS_Injection
  <2>4. QED BY <2>0, <2>3 DEF Surjection
<1>8. s \in Seq(S) BY <1>2, <1>7
<1>10. Elements(s) = S BY <1>5, <1>12 DEF Elements
<1>11. QED BY <1>3, <1>5, <1>8, <1>10

LEMMA ListOfSet == ASSUME NEW S, IsFiniteSet(S) PROVE SetToSeq(S) \in Seq(S)
BY FS_CardinalityType DEF ExistsBijection, Bijection, Injection, Surjection, IsInjective, SetToSeq

-----------------------------------------------------------------------------
(* A user who is written.                                                  *)
WithRole(us, u, role) == [us EXCEPT ![u].role = role]
LEMMA RoleSet ==
  ASSUME NEW us, UserBlocks(us), NEW u \in DOMAIN us, NEW role \in Roles, NEW vs, vs = WithRole(us, u, role)
  PROVE  /\ UserBlocks(vs) /\ DOMAIN vs = DOMAIN us
         /\ \A x \in DOMAIN us : vs[x].seed = us[x].seed /\ vs[x].limit = us[x].limit
         /\ \A x \in DOMAIN us : vs[x].role = IF x = u THEN role ELSE us[x].role
BY DEF WithRole, UserBlocks, UserBlock

LEMMA UserWritten ==
  ASSUME NEW us, UserBlocks(us), NEW u \in DOMAIN us, NEW b \in UserBlock, NEW vs, vs = Replaced(us, u, b)
  PROVE  /\ UserBlocks(vs) /\ DOMAIN vs = DOMAIN us
         /\ vs[u] = b /\ \A x \in DOMAIN us : x # u => vs[x] = us[x]
BY DEF Replaced, UserBlocks

LEMMA WeightsAre ==
  ASSUME NEW us, UserBlocks(us), NEW vs, vs = Recalculated(us)
  PROVE  /\ UserBlocks(vs) /\ DOMAIN vs = DOMAIN us
         /\ \A u \in DOMAIN us : vs[u].limit = Limit(us[u]) /\ vs[u].seed = us[u].seed /\ vs[u].role = us[u].role
<1>1. PICK w : w = Cascade(us) OBVIOUS
<1>2. \A u \in DOMAIN us : w[u] \in Nat BY <1>1, CascadeIs, UsersAssumption DEF TrustWeights
<1>3. vs = [u \in DOMAIN us |-> [us[u] EXCEPT !.weight = w[u], !.limit = Limit(us[u])]]
  BY <1>1 DEF Recalculated
<1>4. ASSUME NEW u \in DOMAIN us
      PROVE  vs[u] \in UserBlock /\ vs[u].limit = Limit(us[u]) /\ vs[u].seed = us[u].seed /\ vs[u].role = us[u].role
  <2>1. PICK b \in UserBlock : b = us[u] BY DEF UserBlocks
  <2>2. PICK l \in Nat : l = Limit(b) BY DEF Limit, Base
  <2>3. vs[u] = [b EXCEPT !.weight = w[u], !.limit = l] BY <1>3, <2>1, <2>2
  <2>4. QED BY <1>2, <2>1, <2>2, <2>3 DEF UserBlock
<1>5. UserBlocks(vs) BY <1>3, <1>4 DEF UserBlocks
<1>6. QED BY <1>3, <1>4, <1>5

-----------------------------------------------------------------------------
(* Where the block loop is: between two blocks, in one, or down.           *)
Phases == {"idle", "expire", "pay", "slash", "slashing", "rotate", "promote", "weigh", "weighing", "down"}
LoopInv ==
  /\ pc \in Phases
  /\ height \in Nat /\ saved \in Nat /\ paidAt \in Nat /\ stops \in Nat /\ now \in Nat
  /\ pc = "idle" => height = saved
  /\ pc \notin {"idle", "down"} => height = saved + 1
  /\ pc = "down" => height \in {saved, saved + 1} /\ stops > 0 /\ paidAt = 0
  /\ paidAt <= height

LEMMA LoopStep == ASSUME LoopInv, GovernanceNext PROVE LoopInv'
<1>1. ASSUME BeginBlock PROVE LoopInv'
  <2>1. pc = "idle" /\ height' = height + 1 /\ pc' = "expire" /\ UNCHANGED <<saved, paidAt, stops>>
    BY <1>1 DEF BeginBlock, Goto, memory, ghosts
  <2>2. now' \in Nat
    <3>1. PICK t \in now..MaxTime : now' = t BY <1>1 DEF BeginBlock
    <3>2. QED BY <3>1, GovernanceAssumption DEF LoopInv
  <2>3. QED BY <2>1, <2>2 DEF LoopInv, Phases
<1>2. ASSUME SalaryPaid PROVE LoopInv'
  BY <1>2 DEF SalaryPaid, Goto, counters, ghosts, LoopInv, Phases
<1>3. ASSUME EndBlock PROVE LoopInv'
  BY <1>3 DEF EndBlock, Goto, memory, ghosts, LoopInv, Phases
<1>4. ASSUME Crash PROVE LoopInv' BY <1>4 DEF Crash, Up, Goto, Memory, counters, LoopInv, Phases
<1>5. ASSUME Restart PROVE LoopInv'
  BY <1>5 DEF Restart, Goto, memory, ghosts, LoopInv, Phases
<1>6. ASSUME ExpireTerm \/ CreditSalary \/ SlashUser \/ Demote \/ WriteWeight PROVE LoopInv'
  BY <1>6 DEF ExpireTerm, CreditSalary, SlashUser, Demote, WriteWeight, memory, ghosts, counters, LoopInv
<1>7. ASSUME StartSalary \/ StartSlashing \/ StartRotation \/ Check \/ Promote \/ Rotated \/ StartWeights
      PROVE  LoopInv'
  BY <1>7 DEF StartSalary, StartSlashing, StartRotation, Check, Promote, Rotated, StartWeights, Goto, Phases,
     memory, ghosts, counters, LoopInv
<1>8. ASSUME UNCHANGED <<pc, view, todo, height, saved, now, paidAt, stops>> PROVE LoopInv'
  BY <1>8 DEF LoopInv
<1>9. QED BY <1>1, <1>2, <1>3, <1>4, <1>5, <1>6, <1>7, <1>8, KeepsLoop

-----------------------------------------------------------------------------
(* The terms: without one that was written over, those begun in this       *)
(* process are those in the history and the one that goes on.              *)
Term == [start : Nat, end : Nat]
TermsInv ==
  /\ DOMAIN terms \in SUBSET DOMAIN users /\ terms \in [DOMAIN terms -> Term]
  /\ history \in [Accounts -> Seq(Term)] /\ begun \in [Accounts -> Seq(Term)]
  /\ \A u \in Accounts \ replaced : begun[u] = Served(u)
ToRise == pc = "promote" => todo # <<>> /\ CanRenew(Head(todo).who)

\* The last k terms follow each other without a rest.
TightTo(s, k) == \A i \in (Len(s) - k) + 2..Len(s) : s[i].start - s[i - 1].end < CoolDown
LEMMA ConsecutiveIs ==
  ASSUME NEW s \in Seq(Term), s # <<>>
  PROVE  /\ Consecutive(s) \in 1..Len(s) /\ TightTo(s, Consecutive(s))
         /\ \A m \in 1..Len(s) : TightTo(s, m) => m <= Consecutive(s)
<1>1. PICK n \in Nat : n = Len(s) /\ n >= 1 /\ DOMAIN s = 1..n OBVIOUS
<1>2. PICK T : T = {n - k : k \in {m \in 1..n : TightTo(s, m)}} OBVIOUS
<1>3. T \in SUBSET Nat BY <1>2
<1>4. TightTo(s, 1) BY <1>1 DEF TightTo
<1>5. T # {} BY <1>1, <1>2, <1>4
<1>6. PICK x \in T : \A y \in T : x <= y BY <1>3, <1>5, SmallestNumber
<1>7. PICK k \in 1..n : TightTo(s, k) /\ x = n - k BY <1>2, <1>6
<1>8. ASSUME NEW m \in 1..n, TightTo(s, m) PROVE m <= k
  <2>1. n - m \in T BY <1>2, <1>8
  <2>2. n - k <= n - m BY <1>6, <1>7, <2>1
  <2>3. QED BY <2>2
<1>9. Consecutive(s) = CHOOSE c \in 1..n : TightTo(s, c) /\ \A m \in 1..n : TightTo(s, m) => m <= c
  BY <1>1 DEF Consecutive, TightTo
<1>10. QED BY <1>1, <1>7, <1>8, <1>9

LEMMA OneTermMore ==
  ASSUME NEW s \in Seq(Term), NEW t \in Term, NEW k \in Nat, s # <<>> => Consecutive(s) <= k
  PROVE  Append(s, t) # <<>> /\ Consecutive(Append(s, t)) <= k + 1
<1>1. PICK n \in Nat : n = Len(s) /\ DOMAIN s = 1..n OBVIOUS
<1>2. PICK r : r = Append(s, t) OBVIOUS
<1>3. r \in Seq(Term) /\ Len(r) = n + 1 /\ \A i \in 1..n : r[i] = s[i] BY <1>1, <1>2, AppendProperties
<1>4. r # <<>> BY <1>1, <1>3
<1>5. PICK m \in 1..(n + 1) : m = Consecutive(r) /\ TightTo(r, m) BY <1>3, <1>4, ConsecutiveIs
<1>6. CASE m = 1 BY <1>2, <1>4, <1>5, <1>6
<1>7. CASE m # 1
  <2>1. PICK j \in 1..n : j = m - 1 BY <1>5, <1>7
  <2>2. s # <<>> BY <1>1, <2>1
  <2>3. TightTo(s, j)
    <3>1. SUFFICES ASSUME NEW i \in (n - j) + 2..n PROVE s[i].start - s[i - 1].end < CoolDown BY <1>1 DEF TightTo
    <3>2. i \in 1..n /\ i - 1 \in 1..n /\ i \in ((n + 1) - m) + 2..(n + 1) BY <2>1
    <3>3. r[i].start - r[i - 1].end < CoolDown BY <1>3, <1>5, <3>2 DEF TightTo
    <3>4. r[i] = s[i] /\ r[i - 1] = s[i - 1] BY <1>3, <3>2
    <3>5. QED BY <3>3, <3>4
  <2>4. j <= Consecutive(s) /\ Consecutive(s) \in 1..n BY <1>1, <2>2, <2>3, ConsecutiveIs
  <2>5. j <= k BY <2>2, <2>4
  <2>6. QED BY <1>2, <1>4, <1>5, <2>1, <2>5
<1>8. QED BY <1>6, <1>7

-----------------------------------------------------------------------------
(* The users, and what a hook has still to write.                          *)
UsersTyped ==
  /\ UserBlocks(users) /\ UserBlocks(view) /\ DOMAIN view = DOMAIN users
  /\ pool \in PoolRecord /\ fine \in Nat
Slips(U) == [who : U, amount : Nat]
Moves(U) == [rise : BOOLEAN, who : U]
TodoInv ==
  /\ pc = "expire" => todo \in Seq(DOMAIN users)
  /\ pc = "pay" => todo \in Seq(Slips(DOMAIN users))
  /\ pc \in {"slashing", "weighing"} => todo \in Seq(DOMAIN users) /\ Different(todo)
  /\ pc \in {"rotate", "promote"} => todo \in Seq(Moves(DOMAIN users))
  /\ pc = "promote" => todo # <<>>
SlashTypes ==
  /\ low \in [Accounts -> Nat] /\ slashed \in [Accounts -> 0..(Wrap - 1)]
  /\ peak \in [Accounts -> Nat] /\ slashedAt \in [Accounts -> Int]

\* A quotient of natural numbers.
LEMMA Quotient ==
  ASSUME NEW h \in Nat, NEW s \in Nat, s # 0 PROVE h \div s \in Nat /\ (h \div s) * s <= h
<1>1. h = s * (h \div s) + (h % s) /\ h \div s \in Int /\ h % s \in 0..(s - 1) BY DivisionWithRest
<1>2. PICK c \in Int, d \in 0..(s - 1) : c = h \div s /\ d = h % s BY <1>1
<1>3. c >= 0 BY <1>1, <1>2
<1>4. s * c \in Nat /\ s * c = c * s BY <1>3
<1>5. s * c <= h BY <1>1, <1>2, <1>4
<1>6. QED BY <1>2, <1>3, <1>4, <1>5

\* A share in percent is a natural number.
LEMMA PercentIs == ASSUME NEW n \in Nat, NEW p \in Nat PROVE (n * p) \div 100 \in Nat /\ 100 * ((n * p) \div 100) <= n * p
<1>1. PICK m \in Nat : m = n * p OBVIOUS
<1>2. m \div 100 \in Nat /\ 100 * (m \div 100) <= m OBVIOUS
<1>3. QED BY <1>1, <1>2

\* An amount, and what is slashed with it of a node: below the cap of the limit.
LEMMA AmountIs ==
  ASSUME NEW u, NEW s \in 0..(Wrap - 1), s = slashed[u], NEW limit \in Nat, NEW a, a = Amount(u, limit)
  PROVE  a \in Nat /\ (a = 0 => (s + a) % Wrap = s)
         /\ (a > 0 => 100 * ((s + a) % Wrap) <= limit * CapPercent) /\ (s + a) % Wrap \in 0..(Wrap - 1)
<1>0. PICK W \in Nat : W = Wrap /\ W # 0 BY UsersAssumption
<1>9. s \in Int /\ s \in Nat /\ s < W BY <1>0
<1>1. PICK amount \in Nat : amount = (limit * SlashPercent) \div 100 BY PercentIs, GovernanceAssumption
<1>2. PICK cap \in Nat : cap = (limit * CapPercent) \div 100 /\ 100 * cap <= limit * CapPercent
  BY PercentIs, GovernanceAssumption
<1>3. PICK p \in Nat : p = limit * CapPercent BY GovernanceAssumption
<1>4. a = IF (s + amount) % Wrap > cap THEN (cap - s) % Wrap ELSE amount BY <1>1, <1>2 DEF Amount
<1>5. s % Wrap = s
  <2>1. s \in Int /\ s \in Nat /\ s < W BY <1>9
  <2>2. s % W = s
    <3>1. s = W * (s \div W) + (s % W) /\ s \div W \in Int /\ s % W \in 0..(W - 1) BY <1>0, <2>1, DivisionWithRest
    <3>2. PICK q \in Int, r \in 0..(W - 1) : q = s \div W /\ r = s % W BY <3>1
    <3>6. s = W * q + r /\ W * q \in Int BY <3>1, <3>2
    <3>7. PICK y \in Int : y = W * q BY <3>6
    <3>8. 0 <= r /\ r < W BY <1>0, <3>2
    <3>3. -W < W * q /\ W * q < W BY <2>1, <3>6, <3>7, <3>8
    <3>4. q = 0 BY <1>0, <3>3, SmallProduct
    <3>5. QED BY <3>1, <3>2, <3>4
  <2>3. QED BY <1>0, <2>2
<1>6. CASE (s + amount) % Wrap > cap
  <2>11. PICK b \in Int : b = cap - s BY <1>9
  <2>12. b \div W \in Int BY <1>0, DivisionWithRest
  <2>1. PICK q \in Int : b = cap - s /\ q = b \div W BY <2>11, <2>12
  <2>2. b = W * q + (b % W) /\ b % W \in Nat
    <3>1. W \in Nat /\ W # 0 BY <1>0
    <3>2. b = W * (b \div W) + (b % W) /\ b % W \in 0..(W - 1) BY <3>1, DivisionWithRest
    <3>3. QED BY <2>1, <3>2
  <2>3. a = b % W BY <1>0, <1>4, <1>6, <2>1
  <2>4. PICK k \in Int : k = -q OBVIOUS
  <2>5. s + a = cap + k * W
    <3>1. PICK x \in Int : x = W * q OBVIOUS
    <3>2. k * W = -x BY <2>4, <3>1
    <3>3. PICK c \in Nat : c = a BY <2>2, <2>3
    <3>4. b = x + c BY <2>2, <2>3, <3>1, <3>3
    <3>5. s + c = cap - x BY <1>2, <1>9, <2>1, <2>11, <3>1, <3>3, <3>4
    <3>6. QED BY <3>2, <3>3, <3>5
  <2>6. (s + a) % W = cap % W
    <3>1. s + a \in Int BY <1>9, <2>2, <2>3
    <3>2. PICK y \in Int : y = s + a BY <3>1
    <3>3. y = cap + k * W BY <2>5, <3>2
    <3>6. cap \in Int /\ W \in Nat /\ W # 0 BY <1>0
    <3>4. y % W = cap % W BY <2>4, <3>2, <3>3, <3>6, SameRest
    <3>5. QED BY <3>2, <3>4
  <2>7. PICK r \in Nat : r = cap % W /\ r <= cap /\ r \in 0..(W - 1)
    <3>1. cap = W * (cap \div W) + (cap % W) /\ cap \div W \in Int /\ cap % W \in 0..(W - 1) BY <1>0, DivisionWithRest
    <3>2. PICK c \in Int, d \in 0..(W - 1) : c = cap \div W /\ d = cap % W BY <3>1
    <3>3. c >= 0 BY <3>1, <3>2
    <3>4. W * c \in Nat BY <3>3
    <3>5. QED BY <3>1, <3>2, <3>4
  <2>8. 100 * r <= p BY <1>2, <1>3, <2>7
  <2>9. a = 0 => (s + a) % Wrap = s BY <1>5
  <2>10. QED BY <1>0, <1>3, <2>2, <2>3, <2>6, <2>7, <2>8, <2>9
<1>7. CASE ~((s + amount) % Wrap > cap) BY <1>2, <1>3, <1>4, <1>5, <1>7, Wrapped
<1>8. QED BY <1>6, <1>7

-----------------------------------------------------------------------------
(* Salaries: the slips of a month are together no more than the budget.    *)
Half == (pool.relay + pool.record) \div 2
WeightsOf(role) == [v \in Of(role) |-> users[v].weight]
WeightOf(role) == SumFunctionOnSet(WeightsOf(role), Of(role))
LEMMA SalaryIs ==
  ASSUME UsersTyped
  PROVE  /\ Half \in Nat /\ 2 * Half <= pool.relay + pool.record
         /\ \A role : /\ IsFiniteSet(Of(role)) /\ WeightOf(role) \in Nat
                      /\ \A v \in Of(role) : WeightsOf(role)[v] \in Nat
         /\ \A u \in DOMAIN users : Salary(u) =
              IF WeightOf(users[u].role) = 0 THEN 0 ELSE (Half \div WeightOf(users[u].role)) * users[u].weight
         /\ \A u \in DOMAIN users : Salary(u) \in Nat
<1>1. Half \in Nat /\ 2 * Half <= pool.relay + pool.record BY DEF UsersTyped, PoolRecord, Half
<1>2. ASSUME NEW role
      PROVE  IsFiniteSet(Of(role)) /\ WeightOf(role) \in Nat /\ \A v \in Of(role) : WeightsOf(role)[v] \in Nat
  <2>1. Of(role) \subseteq DOMAIN users BY DEF Of, Registered
  <2>2. IsFiniteSet(DOMAIN users) BY UsersAssumption, FS_Subset DEF UsersTyped, UserBlocks
  <2>3. IsFiniteSet(Of(role)) BY <2>1, <2>2, FS_Subset
  <2>4. \A v \in Of(role) : WeightsOf(role)[v] \in Nat BY <2>1 DEF WeightsOf, UsersTyped, UserBlocks, UserBlock
  <2>5. QED BY <2>3, <2>4, SumNat DEF WeightOf
<1>3. ASSUME NEW u \in DOMAIN users
      PROVE  Salary(u) = IF WeightOf(users[u].role) = 0 THEN 0
                         ELSE (Half \div WeightOf(users[u].role)) * users[u].weight
  <2>1. PICK role : role = users[u].role OBVIOUS
  <2>2. SumOf(Of(role), LAMBDA v : users[v].weight) = WeightOf(role) BY DEF SumOf, WeightsOf, SumFunction, WeightOf
  <2>3. QED BY <2>1, <2>2 DEF Salary, Half
<1>4. ASSUME NEW u \in DOMAIN users PROVE Salary(u) \in Nat
  <2>1. PICK w \in Nat : w = users[u].weight BY DEF UsersTyped, UserBlocks, UserBlock
  <2>2. PICK h \in Nat, s \in Nat : h = Half /\ s = WeightOf(users[u].role) BY <1>1, <1>2
  <2>3. CASE s = 0 BY <1>3, <2>2, <2>3
  <2>4. CASE s # 0 BY <1>3, <2>1, <2>2, <2>4, Quotient
  <2>5. QED BY <2>3, <2>4
<1>5. QED BY <1>1, <1>2, <1>3, <1>4

Salaries(S) == [u \in S |-> Salary(u)]
LEMMA RoleShare ==
  ASSUME UsersTyped, NEW role, NEW f, f = Salaries(DOMAIN users)
  PROVE  SumFunctionOnSet(f, Of(role)) <= Half /\ SumFunctionOnSet(f, Of(role)) \in Nat
<1>1. PICK R : R = Of(role) OBVIOUS
<1>2. R \subseteq DOMAIN users /\ \A v \in R : users[v].role = role BY <1>1 DEF Of, Registered
<1>3. PICK g : g = WeightsOf(role) OBVIOUS
<1>4. PICK s \in Nat : s = WeightOf(role) /\ s = SumFunctionOnSet(g, R) BY <1>1, <1>3, SalaryIs DEF WeightOf
<1>5. IsFiniteSet(R) /\ \A v \in R : g[v] \in Nat /\ g[v] = users[v].weight BY <1>1, <1>3, SalaryIs DEF WeightsOf
<1>6. \A v \in R : f[v] = Salary(v) /\ f[v] \in Nat BY <1>2, SalaryIs DEF Salaries
<1>7. PICK h \in Nat : h = Half BY SalaryIs
<1>8. CASE s = 0
  <2>1. \A v \in R : f[v] = 0 BY <1>2, <1>4, <1>6, <1>8, SalaryIs
  <2>2. SumFunctionOnSet(f, R) = 0 BY <1>5, <2>1, SumZero
  <2>3. QED BY <1>1, <1>7, <2>2
<1>9. CASE s # 0
  <2>1. PICK q \in Nat : q = h \div s /\ q * s <= h BY <1>9, Quotient
  <2>2. \A v \in R : f[v] = q * g[v] BY <1>2, <1>4, <1>5, <1>6, <1>7, <1>9, <2>1, SalaryIs
  <2>3. SumFunctionOnSet(f, R) = q * s
    <3>1. q \in Int /\ \A v \in R : g[v] \in Int BY <1>5
    <3>2. SumFunctionOnSet(f, R) = q * SumFunctionOnSet(g, R) BY <1>5, <2>2, <3>1, SumTimes
    <3>3. QED BY <1>4, <3>2
  <2>4. q * s \in Nat OBVIOUS
  <2>5. QED BY <1>1, <1>7, <2>1, <2>3, <2>4
<1>10. QED BY <1>8, <1>9

\* The sum of the slips in a list.
Amounts(s) == [i \in 1..Len(s) |-> s[i].amount]
Together(s) == SumFunctionOnSet(Amounts(s), 1..Len(s))
LEMMA SlipsLeft ==
  ASSUME NEW U, NEW s \in Seq(Slips(U))
  PROVE  /\ Together(s) \in Nat
         /\ s # <<>> => /\ Head(s).amount \in Nat /\ Together(Tail(s)) \in Nat
                        /\ Together(s) = Head(s).amount + Together(Tail(s))
<1>1. PICK n \in Nat : n = Len(s) /\ DOMAIN s = 1..n OBVIOUS
<1>2. PICK f : f = Amounts(s) OBVIOUS
<1>3. DOMAIN f = 1..n /\ \A i \in 1..n : f[i] = s[i].amount /\ f[i] \in Nat
  <2>1. \A i \in 1..n : s[i] \in Slips(U) BY <1>1
  <2>2. QED BY <1>1, <1>2, <2>1 DEF Amounts, Slips
<1>4. IsFiniteSet(1..n) BY CountUpTo
<1>5. Together(s) \in Nat BY <1>1, <1>2, <1>3, <1>4, SumNat DEF Together
<1>6. ASSUME s # <<>>
      PROVE  /\ Head(s).amount \in Nat /\ Together(Tail(s)) \in Nat
             /\ Together(s) = Head(s).amount + Together(Tail(s))
  <2>1. n >= 1 BY <1>1, <1>6
  <2>2. PICK t : t = Tail(s) OBVIOUS
  <2>3. t \in Seq(Slips(U)) /\ Len(t) = n - 1 /\ \A i \in 1..(n - 1) : t[i] = s[i + 1]
    BY <1>1, <1>6, <2>2, HeadTailProperties
  <2>4. Head(s) = s[1] BY <1>6
  <2>5. PICK m \in Nat : m = n - 1 BY <2>1
  <2>6. PICK A : A = 1..m OBVIOUS
  <2>7. PICK e : e = [i \in A |-> i + 1] OBVIOUS
  <2>8. PICK g : g = [i \in A |-> f[e[i]]] OBVIOUS
  <2>9. \A i \in A : e[i] = i + 1 /\ e[i] \in 1..n /\ g[i] = f[i + 1] BY <2>5, <2>6, <2>7, <2>8
  <2>10. SumFunctionOnSet(f, {e[i] : i \in A}) = SumFunctionOnSet(g, A)
    <3>1. IsFiniteSet(A) BY <2>6, CountUpTo
    <3>2. \A x, y \in A : e[x] = e[y] => x = y BY <2>6, <2>9
    <3>3. \A x \in A : f[e[x]] \in Int BY <1>3, <2>9
    <3>4. QED BY <2>8, <3>1, <3>2, <3>3, SumImage
  <2>11. {e[i] : i \in A} = (1..n) \ {1}
    <3>1. \A i \in A : e[i] \in (1..n) \ {1} BY <2>6, <2>9
    <3>2. \A j \in (1..n) \ {1} : j - 1 \in A /\ e[j - 1] = j BY <2>5, <2>6, <2>9
    <3>3. QED BY <3>1, <3>2
  <2>12. SumFunctionOnSet(f, 1..n) = f[1] + SumFunctionOnSet(f, (1..n) \ {1})
    <3>1. 1 \in 1..n /\ \A i \in 1..n : f[i] \in Int BY <1>3, <2>1
    <3>2. QED BY <1>4, <3>1, SumRemove
  <2>13. g = Amounts(t)
    <3>1. \A i \in A : g[i] = t[i].amount BY <1>3, <2>3, <2>5, <2>6, <2>9
    <3>2. Len(t) = m BY <2>3, <2>5
    <3>3. QED BY <2>6, <2>8, <3>1, <3>2 DEF Amounts
  <2>14. Together(t) = SumFunctionOnSet(g, A) BY <2>3, <2>5, <2>6, <2>13 DEF Together
  <2>15. Together(t) \in Nat
    <3>1. \A i \in A : g[i] \in Nat BY <1>3, <2>9
    <3>2. IsFiniteSet(A) BY <2>6, CountUpTo
    <3>3. QED BY <2>14, <3>1, <3>2, SumNat
  <2>16. f[1] = Head(s).amount /\ f[1] \in Nat BY <1>3, <2>1, <2>4
  <2>17. Together(s) = SumFunctionOnSet(f, 1..n) BY <1>1, <1>2 DEF Together
  <2>18. QED BY <2>2, <2>10, <2>11, <2>12, <2>14, <2>15, <2>16, <2>17
<1>7. QED BY <1>5, <1>6

LEMMA PayslipsAre ==
  ASSUME UsersTyped
  PROVE  Payslips \in Seq(Slips(DOMAIN users)) /\ Together(Payslips) <= pool.relay + pool.record
<1>1. PICK S : S = {u \in DOMAIN users : Official(users, u) /\ Salary(u) > 0} OBVIOUS
<1>2. S \in SUBSET Accounts /\ IsFiniteSet(DOMAIN users)
  BY <1>1, UsersAssumption, FS_Subset DEF UsersTyped, UserBlocks
<1>3. PICK us : us = Sorted(S) OBVIOUS
<1>4. us \in Seq(S) /\ Different(us) /\ Elements(us) = S BY <1>2, <1>3, SortedListIs
<1>5. PICK n \in Nat : n = Len(us) /\ DOMAIN us = 1..n BY <1>4
<1>6. PICK f : f = Salaries(DOMAIN users) OBVIOUS
<1>7. \A u \in DOMAIN users : f[u] = Salary(u) /\ f[u] \in Nat BY <1>6, SalaryIs DEF Salaries
<1>8. PICK p : p = Payslips OBVIOUS
<1>9. p = [i \in 1..n |-> [who |-> us[i], amount |-> Salary(us[i])]] BY <1>1, <1>3, <1>5, <1>8 DEF Payslips, Registered
<1>10. \A i \in 1..n : us[i] \in S /\ us[i] \in DOMAIN users BY <1>1, <1>4, <1>5
<1>11. \A i \in 1..n : p[i] \in Slips(DOMAIN users) /\ p[i].amount = f[us[i]] BY <1>7, <1>9, <1>10 DEF Slips
<1>12. p \in [1..n -> Slips(DOMAIN users)] BY <1>9, <1>11
<1>13. p \in Seq(Slips(DOMAIN users)) /\ Len(p) = n BY <1>12
<1>14. Together(p) = SumFunctionOnSet(f, S)
  <2>1. PICK A : A = 1..n OBVIOUS
  <2>2. PICK g : g = [i \in A |-> f[us[i]]] OBVIOUS
  <2>3. SumFunctionOnSet(f, {us[i] : i \in A}) = SumFunctionOnSet(g, A)
    <3>1. IsFiniteSet(A) BY <2>1, CountUpTo
    <3>2. \A x, y \in A : us[x] = us[y] => x = y BY <1>4, <1>5, <2>1 DEF Different
    <3>3. \A x \in A : f[us[x]] \in Int BY <1>7, <1>10, <2>1
    <3>4. QED BY <2>2, <3>1, <3>2, <3>3, SumImage
  <2>4. {us[i] : i \in A} = S BY <1>4, <1>5, <2>1 DEF Elements
  <2>5. g = Amounts(p) BY <1>11, <1>13, <2>1, <2>2 DEF Amounts
  <2>6. QED BY <1>13, <2>1, <2>3, <2>4, <2>5 DEF Together
<1>15. PICK X, Y : X = Of("relay") /\ Y = Of("record") OBVIOUS
<1>16. X \cap Y = {} /\ S \subseteq X \cup Y /\ X \cup Y \subseteq DOMAIN users
  BY <1>1, <1>15 DEF Of, Registered, Official
<1>17. IsFiniteSet(X) /\ IsFiniteSet(Y) /\ IsFiniteSet(X \cup Y) BY <1>2, <1>16, FS_Subset
<1>18. SumFunctionOnSet(f, S) <= SumFunctionOnSet(f, X \cup Y) BY <1>7, <1>16, <1>17, SumSubset
<1>19. SumFunctionOnSet(f, X \cup Y) = SumFunctionOnSet(f, X) + SumFunctionOnSet(f, Y)
  BY <1>7, <1>16, <1>17, SumUnion
<1>20. PICK x \in Nat, y \in Nat, h \in Nat : x = SumFunctionOnSet(f, X) /\ y = SumFunctionOnSet(f, Y) /\ h = Half
                                            /\ x <= h /\ y <= h /\ 2 * h <= pool.relay + pool.record
  BY <1>6, <1>15, RoleShare, SalaryIs
<1>21. PICK z \in Nat : z = SumFunctionOnSet(f, S) BY <1>1, <1>2, <1>7, FS_Subset, SumNat
<1>22. PICK b \in Nat : b = pool.relay + pool.record BY DEF UsersTyped, PoolRecord
<1>23. z <= x + y BY <1>18, <1>19, <1>20, <1>21
<1>24. z <= b BY <1>20, <1>22, <1>23
<1>25. QED BY <1>8, <1>13, <1>14, <1>21, <1>22, <1>24

-----------------------------------------------------------------------------
(* A slash, or a block that only counts for the streak.                    *)
SlashOf(u, amount) == (slashed[u] + amount) % Wrap
SlashedBy(u, amount, count, user) ==
  /\ pc = "slashing" /\ todo # <<>> /\ u = Head(todo) /\ todo' = Tail(todo) /\ pc' = pc /\ view' = view
  /\ user.role = view[u].role
  /\ count <= low[u] + 1
  /\ amount > 0 => count >= Lows
  /\ low' = [low EXCEPT ![u] = Streak(u, count)]
  /\ slashed' = [slashed EXCEPT ![u] = SlashOf(u, amount)]
  /\ SlashOf(u, amount) \in 0..(Wrap - 1)
  /\ amount = 0 => SlashOf(u, amount) = slashed[u]
  /\ amount > 0 => 100 * SlashOf(u, amount) <= view[u].limit * CapPercent
  /\ fine' = amount
  /\ IF amount > 0
     THEN /\ users' = Replaced(users, u, user)
          /\ overtaken' = IF Restores(u, user) THEN overtaken \cup {u} ELSE overtaken
          /\ slashedAt' = [slashedAt EXCEPT ![u] = height]
          /\ peak' = [peak EXCEPT ![u] = IF view[u].limit > @ THEN view[u].limit ELSE @]
     ELSE UNCHANGED <<users, overtaken, slashedAt, peak>>

LEMMA SlashIs ==
  ASSUME UsersTyped, TodoInv, SlashTypes, SlashUser
  PROVE  \E u \in DOMAIN users, amount \in Nat, count \in Nat, user \in UserBlock : SlashedBy(u, amount, count, user)
<1>1. pc = "slashing" /\ todo # <<>> /\ todo' = Tail(todo) /\ pc' = pc /\ view' = view BY DEF SlashUser
<1>2. PICK u \in DOMAIN users : u = Head(todo) BY <1>1, Popped DEF TodoInv
<1>3. u \in Accounts BY <1>2 DEF UsersTyped, UserBlocks
<1>4. PICK b \in UserBlock : b = view[u] BY <1>2 DEF UsersTyped, UserBlocks
<1>5. PICK limit \in Nat, weight \in Nat : limit = b.limit /\ weight = b.weight BY <1>4 DEF UserBlock
<1>6. PICK l \in Nat : l = low[u] BY <1>3 DEF SlashTypes
<1>7. PICK s \in 0..(Wrap - 1) : s = slashed[u] BY <1>3 DEF SlashTypes
<1>8. PICK count \in Nat : count = (IF Score(u, weight) < LowScore THEN l + 1 ELSE 0) /\ count <= l + 1 OBVIOUS
<1>9. PICK a : a = Amount(u, limit) OBVIOUS
<1>10. /\ a \in Nat /\ (a = 0 => (s + a) % Wrap = s)
       /\ (a > 0 => 100 * ((s + a) % Wrap) <= limit * CapPercent) /\ (s + a) % Wrap \in 0..(Wrap - 1)
  BY <1>7, <1>9, AmountIs
<1>11. PICK amount \in Nat :
         /\ amount = IF count >= Lows THEN a ELSE 0
         /\ amount > 0 => count >= Lows
         /\ amount = 0 => (s + amount) % Wrap = s
         /\ amount > 0 => 100 * ((s + amount) % Wrap) <= limit * CapPercent
         /\ (s + amount) % Wrap \in 0..(Wrap - 1)
  <2>1. CASE count >= Lows BY <1>10, <2>1
  <2>2. CASE ~(count >= Lows)
    <3>1. (s + 0) % Wrap \in 0..(Wrap - 1) /\ (s + 0) % Wrap = s
      <4>1. PICK W \in Nat : W = Wrap /\ W # 0 BY UsersAssumption
      <4>2. s \in Int /\ s + 0 = s /\ 0 <= s /\ s < W BY <1>7, <4>1
      <4>3. s = W * (s \div W) + (s % W) /\ s \div W \in Int /\ s % W \in 0..(W - 1) BY <4>1, <4>2, DivisionWithRest
      <4>4. PICK q \in Int, r \in 0..(W - 1) : q = s \div W /\ r = s % W BY <4>3
      <4>5. s = W * q + r /\ W * q \in Int /\ 0 <= r /\ r < W BY <4>1, <4>3, <4>4
      <4>6. PICK y \in Int : y = W * q BY <4>5
      <4>7. -W < W * q /\ W * q < W BY <4>2, <4>5, <4>6
      <4>8. q = 0 BY <4>1, <4>4, <4>7, SmallProduct
      <4>9. W * q = 0 BY <4>8
      <4>10. s = r BY <4>4, <4>5, <4>9
      <4>11. QED BY <4>1, <4>2, <4>4, <4>10
    <3>2. QED BY <2>2, <3>1
  <2>3. QED BY <2>1, <2>2
<1>12. PICK m \in Nat, w \in Nat : m = (IF limit >= amount THEN limit - amount ELSE 0) /\ w = (weight * 9) \div 10
  OBVIOUS
<1>13. PICK user \in UserBlock : user = [b EXCEPT !.limit = m, !.weight = w] /\ user.role = b.role
  <2>1. PICK c : c = [b EXCEPT !.limit = m, !.weight = w] OBVIOUS
  <2>2. c \in UserBlock /\ c.role = b.role BY <2>1 DEF UserBlock
  <2>3. QED BY <2>1, <2>2
<1>14. PICK old : old = [b EXCEPT !.limit = IF @ >= amount THEN @ - amount ELSE 0, !.weight = (@ * 9) \div 10] OBVIOUS
<1>15. old = user BY <1>5, <1>12, <1>13, <1>14 DEF UserBlock
<1>16. /\ low' = [low EXCEPT ![u] = Streak(u, count)]
       /\ slashed' = [slashed EXCEPT ![u] = SlashOf(u, amount)]
  BY <1>2, <1>4, <1>5, <1>6, <1>7, <1>8, <1>9, <1>11 DEF SlashUser, SlashOf, SlashTypes
<1>17. IF amount > 0
       THEN /\ users' = [users EXCEPT ![u] = old]
            /\ overtaken' = IF Restores(u, old) THEN overtaken \cup {u} ELSE overtaken
            /\ slashedAt' = [slashedAt EXCEPT ![u] = height]
            /\ peak' = [peak EXCEPT ![u] = IF b.limit > @ THEN b.limit ELSE @]
       ELSE UNCHANGED <<users, overtaken, slashedAt, peak>>
  BY <1>2, <1>4, <1>5, <1>6, <1>8, <1>9, <1>11, <1>14 DEF SlashUser
<1>18. fine' = amount BY <1>2, <1>4, <1>5, <1>6, <1>8, <1>9, <1>11 DEF SlashUser
<1>19. SlashedBy(u, amount, count, user)
  BY <1>1, <1>2, <1>4, <1>5, <1>6, <1>7, <1>8, <1>11, <1>13, <1>15, <1>16, <1>17, <1>18 DEF SlashedBy, SlashOf, Replaced
<1>20. QED BY <1>19

LEMMA RoleTaken ==
  ASSUME UsersTyped, NEW u \in DOMAIN users, NEW role \in Roles, SetRole(u, role)
  PROVE  /\ UserBlocks(users') /\ DOMAIN users' = DOMAIN users
         /\ \A x \in DOMAIN users : users'[x].seed = users[x].seed /\ users'[x].limit = users[x].limit
         /\ \A x \in DOMAIN users : users'[x].role = IF x = u THEN role ELSE users[x].role
<1>1. PICK vs : vs = WithRole(users, u, role) OBVIOUS
<1>2. users' = vs BY <1>1 DEF SetRole, WithRole
<1>3. /\ UserBlocks(vs) /\ DOMAIN vs = DOMAIN users
      /\ \A x \in DOMAIN users : vs[x].seed = users[x].seed /\ vs[x].limit = users[x].limit
      /\ \A x \in DOMAIN users : vs[x].role = IF x = u THEN role ELSE users[x].role
  BY <1>1, RoleSet DEF UsersTyped
<1>4. QED BY <1>2, <1>3

-----------------------------------------------------------------------------
(* Every step leaves the same users, well formed.                          *)
BansTyped ==
  /\ blacklist \in SUBSET DOMAIN users /\ banning \in SUBSET DOMAIN users
  /\ \A x, y \in banning : x = y

LEMMA CreditIs ==
  ASSUME UsersTyped, TodoInv, CreditSalary
  PROVE  UserBlocks(users') /\ DOMAIN users' = DOMAIN users
<1>1. pc = "pay" /\ todo # <<>> BY DEF CreditSalary
<1>2. PICK slip \in Slips(DOMAIN users) : slip = Head(todo) BY <1>1, Popped DEF TodoInv
<1>3. PICK u \in DOMAIN users, amount \in Nat : u = slip.who /\ amount = slip.amount BY DEF Slips
<1>4. PICK b \in UserBlock : b = users[u] BY <1>3 DEF UsersTyped, UserBlocks
<1>5. PICK salary \in Nat, limit \in Nat : salary = b.salary + amount /\ limit = b.limit + amount
  BY <1>3 DEF UserBlock
<1>6. PICK c \in UserBlock : c = [b EXCEPT !.salary = salary, !.limit = limit] BY DEF UserBlock
<1>7. users' = Replaced(users, u, c)
  BY <1>2, <1>3, <1>4, <1>5, <1>6 DEF CreditSalary, Replaced, UserBlock, UsersTyped, UserBlocks
<1>8. PICK vs : vs = Replaced(users, u, c) OBVIOUS
<1>9. UserBlocks(vs) /\ DOMAIN vs = DOMAIN users BY <1>8, UserWritten DEF UsersTyped
<1>10. QED BY <1>7, <1>8, <1>9

\* Whose role a step sets, and to what.
LEMMA RolesSet ==
  ASSUME UsersTyped, TodoInv, BansTyped
  PROVE  /\ ExpireTerm => Head(todo) \in DOMAIN users /\ SetRole(Head(todo), "none")
         /\ Demote => Head(todo).who \in DOMAIN users /\ SetRole(Head(todo).who, "none")
         /\ Promote => Head(todo).who \in DOMAIN users /\ SetRole(Head(todo).who, "relay")
         /\ TakeRole => \E u \in banning : u \in DOMAIN users /\ SetRole(u, "none") /\ overtaken' = overtaken \ {u}
<1>1. ASSUME ExpireTerm PROVE Head(todo) \in DOMAIN users /\ SetRole(Head(todo), "none")
  BY <1>1, Popped DEF ExpireTerm, TodoInv
<1>2. ASSUME Demote PROVE Head(todo).who \in DOMAIN users /\ SetRole(Head(todo).who, "none")
  <2>1. pc = "rotate" /\ todo # <<>> BY <1>2 DEF Demote
  <2>2. Head(todo) \in Moves(DOMAIN users) BY <2>1, Popped DEF TodoInv
  <2>3. Head(todo).who \in DOMAIN users BY <2>2 DEF Moves
  <2>4. QED BY <1>2, <2>3 DEF Demote
<1>3. ASSUME Promote PROVE Head(todo).who \in DOMAIN users /\ SetRole(Head(todo).who, "relay")
  <2>1. pc = "promote" BY <1>3 DEF Promote
  <2>2. Head(todo) \in Moves(DOMAIN users) BY <2>1, Popped DEF TodoInv
  <2>3. Head(todo).who \in DOMAIN users BY <2>2 DEF Moves
  <2>4. QED BY <1>3, <2>3 DEF Promote
<1>4. ASSUME TakeRole
      PROVE  \E u \in banning : u \in DOMAIN users /\ SetRole(u, "none") /\ overtaken' = overtaken \ {u}
  BY <1>4 DEF TakeRole, BansTyped
<1>5. QED BY <1>1, <1>2, <1>3, <1>4

LEMMA WriteIs ==
  ASSUME UsersTyped, TodoInv, WriteWeight
  PROVE  \E u \in DOMAIN users :
           /\ u = Head(todo) /\ users' = Replaced(users, u, view[u]) /\ view[u] \in UserBlock
           /\ UserBlocks(users') /\ DOMAIN users' = DOMAIN users
           /\ users'[u] = view[u] /\ \A x \in DOMAIN users : x # u => users'[x] = users[x]
           /\ overtaken' = IF Restores(u, view[u]) THEN overtaken \cup {u} ELSE overtaken
BY Popped, UserWritten DEF WriteWeight, TodoInv, UsersTyped, UserBlocks, Replaced

LEMMA FundIs ==
  ASSUME UsersTyped, FundReserve
  PROVE  pool' \in PoolRecord /\ pool'.relay = pool.relay /\ pool'.record = pool.record
<1>0. pool \in PoolRecord /\ fine \in Int BY DEF UsersTyped
<1>1. pool.bad \in Int /\ pool.total \in Int BY <1>0 DEF PoolRecord
<1>2. PICK x \in Nat, y \in Nat : x = Plus(pool.bad, fine) /\ y = Plus(pool.total, fine) BY <1>0, <1>1, PlusType
<1>3. PICK p \in PoolRecord : p = pool BY <1>0
<1>4. PICK q : q = [p EXCEPT !.bad = x, !.total = y] OBVIOUS
<1>5. q \in PoolRecord /\ q.relay = p.relay /\ q.record = p.record
  <2>1. q.relay = p.relay /\ q.record = p.record BY <1>3, <1>4 DEF PoolRecord
  <2>2. PICK w \in Int : w = y BY <1>2
  <2>3. q = [p EXCEPT !.bad = x, !.total = w] BY <1>4, <2>2
  <2>4. q \in PoolRecord BY <1>2, <1>3, <2>2, <2>3 DEF PoolRecord
  <2>5. QED BY <2>1, <2>4
<1>6. pool' = q BY <1>2, <1>3, <1>4 DEF FundReserve
<1>7. QED BY <1>3, <1>5, <1>6

LEMMA UsersStay ==
  ASSUME UsersTyped, TodoInv, BansTyped, SlashTypes, GovernanceNext
  PROVE  UsersTyped' /\ DOMAIN users' = DOMAIN users
<1>1. UserBlocks(users') /\ DOMAIN users' = DOMAIN users
  <2>0. Roles = {"none", "relay", "record", "game"} BY DEF Roles
  <2>1. ASSUME NEW u \in DOMAIN users, NEW role \in {"none", "relay", "record"}, SetRole(u, role)
        PROVE  UserBlocks(users') /\ DOMAIN users' = DOMAIN users
    BY <2>0, <2>1, RoleTaken
  <2>2. CASE users' = users BY <2>2 DEF UsersTyped
  <2>3. CASE ExpireTerm \/ Demote \/ Promote \/ TakeRole BY <2>1, <2>3, RolesSet
  <2>4. CASE \E u \in Registered, role \in {"relay", "record"} : RegisterNode(u, role)
    BY <2>1, <2>4 DEF RegisterNode, Registered
  <2>5. CASE CreditSalary BY <2>5, CreditIs
  <2>6. CASE WriteWeight BY <2>6, WriteIs
  <2>7. CASE SlashUser
    <3>1. PICK u \in DOMAIN users, amount \in Nat, count \in Nat, user \in UserBlock : SlashedBy(u, amount, count, user)
      BY <2>7, SlashIs
    <3>2. CASE amount > 0 BY <3>1, <3>2, UserWritten DEF UsersTyped, SlashedBy
    <3>3. CASE ~(amount > 0) BY <3>1, <3>3 DEF SlashedBy, UsersTyped
    <3>4. QED BY <3>2, <3>3
  <2>8. QED BY <2>2, <2>3, <2>4, <2>5, <2>6, <2>7, KeepsUsers
<1>2. pool' \in PoolRecord
  <2>1. CASE FundReserve BY <2>1, FundIs
  <2>2. CASE pool' = pool BY <2>2 DEF UsersTyped
  <2>3. QED BY <2>1, <2>2, KeepsPool
<1>3. UserBlocks(view') /\ DOMAIN view' = DOMAIN users
  <2>1. CASE view' = view BY <2>1 DEF UsersTyped
  <2>2. CASE view' = users BY <2>2 DEF UsersTyped
  <2>3. CASE view' = Recalculated(users) BY <2>3, WeightsAre DEF UsersTyped
  <2>4. view' = view \/ view' = users \/ view' = Recalculated(users)
    BY DEF GovernanceNext, BeginBlock, ExpireTerm, StartSalary, CreditSalary, SalaryPaid, StartSlashing, SlashUser,
       FundReserve, StartRotation, Demote, Check, Promote, Rotated, StartWeights, WriteWeight, EndBlock, RecordRelay,
       Ban, Unban, RegisterNode, TakeRole, Crash, Restart, loop
  <2>5. QED BY <2>1, <2>2, <2>3, <2>4
<1>4. fine' \in Nat
  <2>1. CASE SlashUser BY <2>1, SlashIs DEF SlashedBy
  <2>2. CASE fine' \in {fine, 0} BY <2>2 DEF UsersTyped
  <2>3. QED BY <2>1, <2>2, KeepsFine
<1>5. QED BY <1>1, <1>2, <1>3, <1>4 DEF UsersTyped

-----------------------------------------------------------------------------
(* What the loop has to write is of the right kind in every phase.         *)
LEMMA WiderList == ASSUME NEW S, NEW T, S \subseteq T, NEW s \in Seq(S) PROVE s \in Seq(T)
<1>1. PICK n \in Nat : n = Len(s) /\ DOMAIN s = 1..n OBVIOUS
<1>2. s \in [1..n -> T] BY <1>1
<1>3. QED BY <1>1, <1>2

LEMMA RotationIs ==
  ASSUME NEW S, NEW R, NEW U, S \subseteq U, R \subseteq U, IsFiniteSet(U),
         NEW s \in Rankings(users, S), NEW r \in Rankings(users, R)
  PROVE  Falling(s) \o Rising(r) \in Seq(Moves(U))
<1>0. IsFiniteSet(S) /\ IsFiniteSet(R) BY FS_Subset
<1>1. PICK n \in Nat, m \in Nat : n = Cardinality(S) /\ m = Cardinality(R) BY <1>0, FS_CardinalityType
<1>2. s \in [1..n -> S] /\ r \in [1..m -> R] BY <1>1 DEF Rankings, SetToSeqs
<1>3. Len(s) = n /\ Len(r) = m BY <1>1, <1>2
<1>4. PICK k \in Nat, l \in Nat : k = ShareOf(s) /\ l = ShareOf(r) /\ k <= n /\ l <= m
  <2>1. PICK d \in Nat : d = Tenth /\ d # 0 BY GovernanceAssumption
  <2>2. \A x \in Nat : x \div d \in Nat /\ x \div d <= x BY <2>1, Quotient
  <2>3. QED BY <1>1, <1>3, <2>1, <2>2 DEF ShareOf
<1>5. Falling(s) \in Seq(Moves(U))
  <2>1. \A i \in 1..k : (n - k) + i \in 1..n BY <1>4
  <2>2. \A i \in 1..k : [rise |-> FALSE, who |-> s[(n - k) + i]] \in Moves(U) BY <1>2, <2>1 DEF Moves
  <2>3. Falling(s) = [i \in 1..k |-> [rise |-> FALSE, who |-> s[(n - k) + i]]] BY <1>3, <1>4 DEF Falling
  <2>4. Falling(s) \in [1..k -> Moves(U)] BY <2>2, <2>3
  <2>5. QED BY <1>4, <2>4
<1>6. Rising(r) \in Seq(Moves(U))
  <2>1. \A i \in 1..l : [rise |-> TRUE, who |-> r[i]] \in Moves(U) BY <1>2, <1>4 DEF Moves
  <2>2. Rising(r) = [i \in 1..l |-> [rise |-> TRUE, who |-> r[i]]] BY <1>4 DEF Rising
  <2>3. Rising(r) \in [1..l -> Moves(U)] BY <2>1, <2>2
  <2>4. QED BY <1>4, <2>3
<1>7. PICK a, b : a = Falling(s) /\ b = Rising(r) OBVIOUS
<1>8. a \o b \in Seq(Moves(U)) BY <1>5, <1>6, <1>7, ConcatProperties
<1>9. QED BY <1>7, <1>8

LEMMA TodoStep ==
  ASSUME LoopInv, UsersTyped, TodoInv, DOMAIN terms \in SUBSET DOMAIN users, GovernanceNext,
         DOMAIN users' = DOMAIN users
  PROVE  TodoInv'
<1>0. DOMAIN users \in SUBSET Accounts /\ IsFiniteSet(DOMAIN users)
  BY UsersAssumption, FS_Subset DEF UsersTyped, UserBlocks
<1>1. ASSUME BeginBlock PROVE TodoInv'
  <2>1. PICK S : S = {u \in DOMAIN terms : now' >= terms[u].end} OBVIOUS
  <2>2. S \subseteq DOMAIN users /\ IsFiniteSet(S) BY <1>0, <2>1, FS_Subset
  <2>3. SetToSeq(S) \in Seq(DOMAIN users) BY <2>2, ListOfSet, WiderList
  <2>4. <<>> \in Seq(DOMAIN users) OBVIOUS
  <2>5. pc' = "expire" /\ (todo' = SetToSeq(S) \/ todo' = <<>>) BY <1>1, <2>1 DEF BeginBlock, Goto
  <2>6. todo' \in Seq(DOMAIN users) BY <2>3, <2>4, <2>5
  <2>7. QED BY <2>5, <2>6 DEF TodoInv
<1>2. ASSUME ExpireTerm \/ SlashUser \/ WriteWeight PROVE TodoInv'
  <2>1. pc \in {"expire", "slashing", "weighing"} /\ todo # <<>> /\ todo' = Tail(todo) /\ pc' = pc
    BY <1>2 DEF ExpireTerm, SlashUser, WriteWeight
  <2>2. todo \in Seq(DOMAIN users) BY <2>1 DEF TodoInv
  <2>3. PICK t : t = Tail(todo) OBVIOUS
  <2>4. t \in Seq(DOMAIN users) /\ (Different(todo) => Different(t)) BY <2>1, <2>2, <2>3, Popped
  <2>5. QED BY <2>1, <2>3, <2>4 DEF TodoInv
<1>3. ASSUME StartSalary PROVE TodoInv' BY <1>3, PayslipsAre DEF StartSalary, Goto, TodoInv
<1>4. ASSUME CreditSalary PROVE TodoInv' BY <1>4, Popped DEF CreditSalary, TodoInv
<1>5. ASSUME SalaryPaid \/ Rotated \/ EndBlock \/ Crash \/ Restart PROVE TodoInv'
  BY <1>5 DEF SalaryPaid, Rotated, EndBlock, Crash, Restart, Goto, TodoInv
<1>6. ASSUME StartSlashing \/ StartWeights PROVE TodoInv'
  BY <1>0, <1>6, SortedListIs, WiderList DEF StartSlashing, StartWeights, Goto, Registered, TodoInv
<1>7. ASSUME StartRotation PROVE TodoInv'
  <2>1. PICK S : S = {u \in Registered : Official(users, u)} OBVIOUS
  <2>2. \/ pc' = "weigh"
        \/ pc' = "rotate" /\ \E s \in Rankings(users, S), r \in Rankings(users, Registered \ S) :
                               todo' = Falling(s) \o Rising(r)
    BY <1>7, <2>1 DEF StartRotation, Goto
  <2>3. ASSUME NEW s \in Rankings(users, S), NEW r \in Rankings(users, Registered \ S)
        PROVE  Falling(s) \o Rising(r) \in Seq(Moves(DOMAIN users)) BY <1>0, <2>1, RotationIs DEF Registered
  <2>4. QED BY <2>2, <2>3 DEF TodoInv
<1>8. ASSUME Demote \/ Promote \/ Check PROVE TodoInv'
  <2>1. /\ pc \in {"rotate", "promote"} /\ todo # <<>>
        /\ (pc' = "rotate" /\ todo' = Tail(todo)) \/ (pc' = "promote" /\ todo' = todo)
    BY <1>8 DEF Demote, Promote, TodoInv, Goto, Check
  <2>2. todo \in Seq(Moves(DOMAIN users)) BY <2>1 DEF TodoInv
  <2>3. Tail(todo) \in Seq(Moves(DOMAIN users)) BY <2>1, <2>2, Popped
  <2>4. QED BY <2>1, <2>2, <2>3 DEF TodoInv
<1>9. ASSUME UNCHANGED <<pc, view, todo, height, saved, now, paidAt, stops>> PROVE TodoInv'
  BY <1>9 DEF TodoInv
<1>10. QED BY <1>1, <1>2, <1>3, <1>4, <1>5, <1>6, <1>7, <1>8, <1>9, KeepsLoop

-----------------------------------------------------------------------------
(* The terms.                                                              *)
LEMMA EndIs ==
  ASSUME TermsInv, NEW u, u \in Accounts, End(u), begun' = begun, replaced' = replaced, DOMAIN users' = DOMAIN users
  PROVE  TermsInv' /\ \A x \in Accounts : Served(x)' = Served(x)
<1>1. terms' = [x \in DOMAIN terms \ {u} |-> terms[x]] BY DEF End, Restrict
<1>2. DOMAIN terms' = DOMAIN terms \ {u} /\ \A x \in DOMAIN terms \ {u} : terms'[x] = terms[x] BY <1>1
<1>3. history' = IF u \in DOMAIN terms THEN [history EXCEPT ![u] = Append(@, terms[u])] ELSE history BY DEF End
<1>4. /\ history' \in [Accounts -> Seq(Term)]
      /\ \A x \in Accounts : x # u => history'[x] = history[x]
      /\ history'[u] = Served(u)
  <2>1. CASE u \in DOMAIN terms BY <1>3, <2>1, AppendProperties DEF TermsInv, Served
  <2>2. CASE u \notin DOMAIN terms BY <1>3, <2>2 DEF TermsInv, Served
  <2>3. QED BY <2>1, <2>2
<1>5. ASSUME NEW x \in Accounts PROVE Served(x)' = Served(x) BY <1>2, <1>4, <1>5 DEF Served
<1>6. DOMAIN terms' \in SUBSET DOMAIN users /\ terms' \in [DOMAIN terms' -> Term] BY <1>1, <1>2 DEF TermsInv
<1>7. QED BY <1>4, <1>5, <1>6 DEF TermsInv

LEMMA TermsStep ==
  ASSUME LoopInv, UsersTyped, TodoInv, BansTyped, TermsInv, ToRise, TermsLimited, GovernanceNext,
         DOMAIN users' = DOMAIN users
  PROVE  TermsInv' /\ TermsLimited'
<1>0. DOMAIN users \in SUBSET Accounts BY DEF UsersTyped, UserBlocks
<1>1. ASSUME ExpireTerm \/ Demote PROVE TermsInv' /\ TermsLimited'
  <2>1. PICK u \in DOMAIN users : End(u) /\ begun' = begun /\ replaced' = replaced
    BY <1>1, RolesSet DEF ExpireTerm, ghosts, Demote
  <2>2. TermsInv' BY <1>0, <2>1, EndIs
  <2>3. TermsLimited' BY <2>1 DEF TermsLimited
  <2>4. QED BY <2>2, <2>3
<1>2. ASSUME Promote PROVE TermsInv' /\ TermsLimited'
  <2>1. PICK u \in DOMAIN users : u = Head(todo).who BY <1>2, RolesSet
  <2>2. u \in Accounts /\ CanRenew(u) BY <1>0, <1>2, <2>1 DEF Promote, ToRise
  <2>3. PICK term \in Term : term = [start |-> now, end |-> now + TermLen]
    <3>1. now \in Nat /\ now + TermLen \in Nat BY GovernanceAssumption DEF LoopInv
    <3>2. [start |-> now, end |-> now + TermLen] \in Term BY <3>1 DEF Term
    <3>3. QED BY <3>2
  <2>4. PICK b \in Seq(Term) : b = begun[u] BY <2>2 DEF TermsInv
  <2>5. PICK r \in Seq(Term) : r = Append(b, term) BY AppendProperties
  <2>6. /\ terms' = Put(terms, u, term) /\ begun' = [begun EXCEPT ![u] = r] /\ history' = history
        /\ replaced' = IF u \in DOMAIN terms THEN replaced \cup {u} ELSE replaced
    BY <1>2, <2>1, <2>3, <2>4, <2>5 DEF Promote
  <2>7. /\ DOMAIN terms' = DOMAIN terms \cup {u} /\ terms'[u] = term
        /\ \A x \in DOMAIN terms : x # u => terms'[x] = terms[x]
        /\ terms' = [x \in DOMAIN terms' |-> terms'[x]]
    BY <2>6 DEF Put
  <2>8. DOMAIN terms' \in SUBSET DOMAIN users /\ terms' \in [DOMAIN terms' -> Term] BY <2>7 DEF TermsInv
  <2>9. begun' \in [Accounts -> Seq(Term)] /\ begun'[u] = r /\ \A x \in Accounts : x # u => begun'[x] = begun[x]
    BY <2>2, <2>6 DEF TermsInv
  <2>10. ASSUME u \notin replaced'
         PROVE  b = history[u] /\ u \notin DOMAIN terms /\ Served(u) = b /\ begun'[u] = Served(u)'
    BY <2>2, <2>4, <2>5, <2>6, <2>7, <2>9, <2>10 DEF TermsInv, Served
  <2>11. ASSUME NEW x \in Accounts \ replaced' PROVE begun'[x] = Served(x)'
    <3>1. CASE x = u BY <2>10, <2>11, <3>1
    <3>2. CASE x # u BY <2>6, <2>7, <2>9, <2>11, <3>2 DEF Served, TermsInv
    <3>3. QED BY <3>1, <3>2
  <2>12. TermsInv' BY <2>6, <2>8, <2>9, <2>11 DEF TermsInv
  <2>13. ASSUME NEW x \in Accounts \ replaced' PROVE begun'[x] = <<>> \/ Consecutive(begun'[x]) <= MaxTerms
    <3>1. CASE x = u
      <4>1. Served(u) = b BY <2>10, <2>11, <3>1
      <4>2. PICK k \in Nat : k = MaxTerms - 1
        <5>1. MaxTerms \in Nat /\ MaxTerms # 0 BY GovernanceAssumption
        <5>2. MaxTerms - 1 \in Nat BY <5>1
        <5>3. QED BY <5>2
      <4>3. b # <<>> => Consecutive(b) <= k
        <5>1. SUFFICES ASSUME b # <<>> PROVE Consecutive(b) <= k OBVIOUS
        <5>2. Consecutive(b) < MaxTerms BY <2>2, <4>1, <5>1 DEF CanRenew
        <5>3. Consecutive(b) \in 1..Len(b) BY <5>1, ConsecutiveIs
        <5>4. PICK c \in Nat : c = Consecutive(b) BY <5>3
        <5>5. MaxTerms \in Nat BY GovernanceAssumption
        <5>6. QED BY <4>2, <5>2, <5>4, <5>5
      <4>4. Consecutive(r) <= k + 1 BY <2>3, <2>4, <2>5, <4>2, <4>3, OneTermMore
      <4>5. k + 1 = MaxTerms
        <5>1. PICK m \in Nat : m = MaxTerms /\ m # 0 BY GovernanceAssumption
        <5>2. k = m - 1 BY <4>2, <5>1
        <5>3. QED BY <4>2, <5>1, <5>2
      <4>6. QED BY <2>9, <3>1, <4>4, <4>5
    <3>2. CASE x # u BY <2>6, <2>9, <2>13, <3>2 DEF TermsLimited
    <3>3. QED BY <3>1, <3>2
  <2>14. QED BY <2>12, <2>13 DEF TermsLimited
<1>3. ASSUME Crash PROVE TermsInv' /\ TermsLimited'
  BY <1>3 DEF Crash, Memory, NoTerms, Served, TermsInv, TermsLimited
<1>4. ASSUME UNCHANGED <<terms, history, begun, replaced>> PROVE TermsInv' /\ TermsLimited'
  BY <1>4 DEF TermsInv, TermsLimited, Served
<1>5. QED BY <1>1, <1>2, <1>3, <1>4, KeepsTerms

LEMMA ToRiseStep ==
  ASSUME LoopInv, ToRise, GovernanceNext PROVE ToRise'
<1>1. SUFFICES ASSUME pc' = "promote" PROVE (todo # <<>> /\ CanRenew(Head(todo).who))' BY DEF ToRise
<1>2. CASE Check BY <1>1, <1>2 DEF Check, Goto, memory, CanRenew, Served
<1>3. CASE ~Check
  BY <1>1, <1>3, KeepsLoop, KeepsTerms DEF BeginBlock, ExpireTerm, StartSalary, CreditSalary, SalaryPaid,
     StartSlashing, SlashUser, StartRotation, Demote, Promote, Rotated, StartWeights, WriteWeight, EndBlock, Crash,
     Restart, Goto, ToRise, CanRenew, Served
<1>4. QED BY <1>2, <1>3

-----------------------------------------------------------------------------
(* Bans and terms: who is an official after a step was one before, or he   *)
(* was promoted, appointed, or his role came back; and as long as he is    *)
(* one he keeps his term and his marks.                                    *)
LEMMA KeepsMarks ==
  ASSUME GovernanceNext
  PROVE  \/ SlashUser \/ Promote \/ WriteWeight \/ TakeRole \/ Crash
         \/ \E u \in Registered, role \in {"relay", "record"} : RegisterNode(u, role)
         \/ UNCHANGED <<overtaken, appointed>>
BY DEF GovernanceNext, BeginBlock, ExpireTerm, StartSalary, CreditSalary, SalaryPaid, StartSlashing, FundReserve,
       StartRotation, Demote, Check, Rotated, StartWeights, EndBlock, RecordRelay, Ban, Unban, Restart, ghosts

\* An official keeps his term and his marks.
Keeps(x) ==
  /\ x \in DOMAIN terms => x \in DOMAIN terms'
  /\ x \in overtaken => x \in overtaken'
  /\ x \in appointed => x \in appointed'
\* Whoever is an official after a step was one before, or the step says why.
Explained(x) == Official(users, x) \/ x \in overtaken' \cup appointed' \/ (x \notin blacklist' /\ x \in DOMAIN terms')

LEMMA Written ==
  ASSUME NEW u \in DOMAIN users, NEW entry, UserBlocks(users), DOMAIN users' = DOMAIN users,
         users'[u] = entry, \A x \in DOMAIN users : x # u => users'[x] = users[x],
         entry.role = view[u].role,
         overtaken' = IF Restores(u, entry) THEN overtaken \cup {u} ELSE overtaken,
         terms' = terms, appointed' = appointed
  PROVE  \A x \in DOMAIN users : Official(users', x) => Keeps(x) /\ Explained(x)
<1>1. SUFFICES ASSUME NEW x \in DOMAIN users, Official(users', x) PROVE Keeps(x) /\ Explained(x) OBVIOUS
<1>2. Keeps(x) BY DEF Keeps
<1>3. CASE x # u BY <1>1, <1>2, <1>3 DEF Explained, Official
<1>4. CASE x = u
  <2>1. entry.role \in {"relay", "record"} BY <1>1, <1>4 DEF Official
  <2>2. CASE entry.role = users[u].role BY <1>2, <1>4, <2>1, <2>2 DEF Explained, Official
  <2>3. CASE entry.role # users[u].role BY <1>2, <1>4, <2>1, <2>3 DEF Restores, Official, Explained
  <2>4. QED BY <2>2, <2>3
<1>5. QED BY <1>2, <1>3, <1>4

LEMMA RoleChanges ==
  ASSUME UsersTyped, TodoInv, BansTyped, SlashTypes, GovernanceNext
  PROVE  Crash \/ \A x \in DOMAIN users : Official(users', x) => Keeps(x) /\ Explained(x)
<1> DEFINE Goal == \A x \in DOMAIN users : Official(users', x) => Keeps(x) /\ Explained(x)
<1>0. {"none", "relay", "record"} \subseteq Roles BY DEF Roles
<1>1. ASSUME ExpireTerm \/ Demote PROVE Goal
  <2>1. PICK u \in DOMAIN users : SetRole(u, "none") /\ End(u) BY <1>1, RolesSet DEF ExpireTerm, Demote
  <2>2. \A x \in DOMAIN users : users'[x].role = IF x = u THEN "none" ELSE users[x].role BY <1>0, <2>1, RoleTaken
  <2>3. UNCHANGED <<overtaken, appointed>> BY <1>1 DEF ExpireTerm, Demote, ghosts
  <2>4. DOMAIN terms' = DOMAIN terms \ {u} BY <2>1 DEF End, Restrict
  <2>5. QED BY <2>2, <2>3, <2>4 DEF Official, Keeps, Explained
<1>2. ASSUME Promote PROVE Goal BY <1>0, <1>2, RolesSet, RoleTaken DEF Promote, Put, Official, Keeps, Explained
<1>3. ASSUME TakeRole PROVE Goal BY <1>0, <1>3, RolesSet, RoleTaken DEF TakeRole, memory, Official, Keeps, Explained
<1>4. ASSUME \E u \in Registered, role \in {"relay", "record"} : RegisterNode(u, role) PROVE Goal
  BY <1>0, <1>4, RoleTaken DEF Registered, RegisterNode, memory, Official, Keeps, Explained
<1>5. ASSUME WriteWeight PROVE Goal BY <1>5, WriteIs, Written DEF WriteWeight, memory, UsersTyped
<1>6. ASSUME SlashUser PROVE Goal
  <2>1. PICK u \in DOMAIN users, amount \in Nat, count \in Nat, user \in UserBlock : SlashedBy(u, amount, count, user)
    BY <1>6, SlashIs
  <2>2. terms' = terms /\ appointed' = appointed BY <1>6 DEF SlashUser
  <2>3. CASE amount > 0
    <3>1. PICK vs : vs = Replaced(users, u, user) OBVIOUS
    <3>2. DOMAIN vs = DOMAIN users /\ vs[u] = user /\ \A x \in DOMAIN users : x # u => vs[x] = users[x]
      BY <3>1, UserWritten DEF UsersTyped
    <3>3. users' = vs /\ user.role = view[u].role
          /\ overtaken' = IF Restores(u, user) THEN overtaken \cup {u} ELSE overtaken
      BY <2>1, <2>3, <3>1 DEF SlashedBy
    <3>4. QED BY <2>2, <3>2, <3>3, Written DEF UsersTyped
  <2>4. CASE ~(amount > 0) BY <2>1, <2>2, <2>4 DEF SlashedBy, Keeps, Explained
  <2>5. QED BY <2>3, <2>4
<1>7. ASSUME users' = users, UNCHANGED <<overtaken, appointed>>, terms' = terms PROVE Goal
  BY <1>7 DEF Keeps, Explained
<1>8. ASSUME CreditSalary PROVE Goal
  <2>1. \A x \in DOMAIN users : users'[x].role = users[x].role
    <3>1. pc = "pay" /\ todo # <<>> BY <1>8 DEF CreditSalary
    <3>2. Head(todo) \in Slips(DOMAIN users) BY <3>1, Popped DEF TodoInv
    <3>3. PICK u \in DOMAIN users, amount \in Nat : u = Head(todo).who /\ amount = Head(todo).amount
      BY <3>2 DEF Slips
    <3>4. PICK b \in UserBlock : b = users[u] BY DEF UsersTyped, UserBlocks
    <3>5. users' = [users EXCEPT ![u].salary = @ + amount, ![u].limit = @ + amount] BY <1>8, <3>3 DEF CreditSalary
    <3>6. PICK c, d : c = [b EXCEPT !.salary = @ + amount] /\ d = [c EXCEPT !.limit = @ + amount] OBVIOUS
    <3>7. d.role = b.role BY <3>6 DEF UserBlock
    <3>8. users'[u] = d /\ \A x \in DOMAIN users : x # u => users'[x] = users[x]
      BY <3>4, <3>5, <3>6 DEF UsersTyped, UserBlocks, UserBlock
    <3>9. QED BY <3>4, <3>7, <3>8
  <2>2. UNCHANGED <<terms, overtaken, appointed>> BY <1>8 DEF CreditSalary, memory
  <2>3. QED BY <2>1, <2>2 DEF Official, Keeps, Explained
<1> HIDE DEF Goal
<1>9. Crash \/ Goal BY <1>1, <1>2, <1>3, <1>4, <1>5, <1>6, <1>7, <1>8, KeepsUsers, KeepsTerms, KeepsMarks
<1>10. QED BY <1>9 DEF Goal

LEMMA BansStep ==
  ASSUME BansTyped, GovernanceNext, DOMAIN users' = DOMAIN users PROVE BansTyped'
BY KeepsBans DEF TakeRole, memory, BansTyped, Crash, Memory, Ban, Unban, Registered

LEMMA OutStep ==
  ASSUME UsersTyped, TodoInv, BansTyped, SlashTypes, BannedStaysOut, GovernanceNext, DOMAIN users' = DOMAIN users
  PROVE  BannedStaysOut'
<1>0. BansTyped' BY BansStep
<1>1. SUFFICES ASSUME NEW x \in blacklist', x \notin banning' \cup overtaken' \cup appointed', Official(users', x)
      PROVE  FALSE
  BY DEF BannedStaysOut, Official
<1>2. x \in DOMAIN users BY <1>0 DEF BansTyped
<1>3. ~Crash BY DEF Crash, Memory
<1>4. Keeps(x) /\ Explained(x) BY <1>1, <1>2, <1>3, RoleChanges
<1>5. Official(users, x) BY <1>1, <1>4 DEF Explained
<1>6. x \notin overtaken \cup appointed BY <1>1, <1>4 DEF Keeps
<1>7. x \notin blacklist \/ x \in banning BY <1>5, <1>6 DEF BannedStaysOut
<1>8. CASE TakeRole BY <1>1, <1>7, <1>8, RolesSet, RoleTaken DEF Roles, Official, BansTyped, TakeRole, memory
<1>9. CASE \E u \in Registered : Ban(u) \/ Unban(u) BY <1>1, <1>7, <1>9 DEF Ban, Unban
<1>10. CASE UNCHANGED <<blacklist, banning>> BY <1>1, <1>7, <1>10
<1>11. QED BY <1>3, <1>8, <1>9, <1>10, KeepsBans

Serve == \A u \in DOMAIN users : Official(users, u) => u \in DOMAIN terms \cup appointed \cup overtaken
LEMMA ServeStep ==
  ASSUME UsersTyped, TodoInv, BansTyped, SlashTypes, Serve, GovernanceNext, DOMAIN users' = DOMAIN users
  PROVE  Serve'
<1>1. CASE Crash BY <1>1 DEF Crash, usersVars, Registered, Serve
<1>2. CASE ~Crash BY <1>2, RoleChanges DEF Serve, Official, Keeps, Explained
<1>3. QED BY <1>1, <1>2

-----------------------------------------------------------------------------
(* Slashes: what was slashed stays below the cap of the largest limit, and *)
(* the streak is not longer than the blocks since the last slash.          *)
LEMMA CappedStep ==
  ASSUME LoopInv, UsersTyped, TodoInv, SlashTypes, SlashesCapped, GovernanceNext
  PROVE  SlashTypes' /\ SlashesCapped'
<1>0. PICK C \in Nat : C = CapPercent BY GovernanceAssumption
<1>00. PICK W \in Nat : W = Wrap /\ W # 0 BY UsersAssumption
<1>1. ASSUME SlashUser PROVE SlashTypes' /\ SlashesCapped'
  <2>1. PICK u \in DOMAIN users, amount \in Nat, count \in Nat, user \in UserBlock : SlashedBy(u, amount, count, user)
    BY <1>1, SlashIs
  <2>2. u \in Accounts BY DEF UsersTyped, UserBlocks
  <2>3. PICK n \in Nat : n = Streak(u, count) BY DEF Streak
  <2>4. PICK s \in 0..(Wrap - 1) : s = SlashOf(u, amount) BY <2>1 DEF SlashedBy
  <2>5. low' = [low EXCEPT ![u] = n] /\ slashed' = [slashed EXCEPT ![u] = s] BY <2>1, <2>3, <2>4 DEF SlashedBy
  <2>6. low' \in [Accounts -> Nat] /\ slashed' \in [Accounts -> 0..(Wrap - 1)] BY <2>5 DEF SlashTypes
  <2>7. slashed'[u] = s /\ \A x \in Accounts : x # u => slashed'[x] = slashed[x] BY <2>2, <2>5 DEF SlashTypes
  <2>8. CASE amount > 0
    <3>1. PICK limit \in Nat : limit = view[u].limit BY DEF UsersTyped, UserBlocks, UserBlock
    <3>2. PICK p \in Nat : p = peak[u] BY <2>2 DEF SlashTypes
    <3>3. PICK q \in Nat : q = (IF limit > p THEN limit ELSE p) /\ limit <= q OBVIOUS
    <3>4. peak' = [peak EXCEPT ![u] = q] /\ slashedAt' = [slashedAt EXCEPT ![u] = height]
      BY <2>1, <2>2, <2>8, <3>1, <3>2, <3>3 DEF SlashedBy, SlashTypes
    <3>5. peak' \in [Accounts -> Nat] /\ peak'[u] = q /\ \A x \in Accounts : x # u => peak'[x] = peak[x]
      BY <2>2, <3>4 DEF SlashTypes
    <3>6. 100 * s <= C * q
      <4>1. PICK a \in Nat, b \in Nat : a = limit * C /\ b = C * q OBVIOUS
      <4>2. 100 * s <= a BY <1>0, <2>1, <2>4, <2>8, <3>1, <4>1 DEF SlashedBy
      <4>3. a <= b
        <5>1. PICK d \in Nat : q = limit + d
          <6>1. q - limit \in Nat /\ q = limit + (q - limit) BY <3>3
          <6>2. QED BY <6>1
        <5>2. C * d \in Nat /\ C * q = C * limit + C * d BY <5>1
        <5>3. QED BY <4>1, <5>2
      <4>4. s \in Int BY <1>00, <2>4
      <4>5. QED BY <4>1, <4>2, <4>3, <4>4
    <3>7. slashedAt' \in [Accounts -> Int]
      <4>1. height \in Int BY DEF LoopInv
      <4>2. QED BY <3>4, <4>1 DEF SlashTypes
    <3>8. QED BY <1>0, <2>6, <2>7, <3>5, <3>6, <3>7 DEF SlashTypes, SlashesCapped
  <2>9. CASE ~(amount > 0)
    <3>1. peak' = peak /\ slashedAt' = slashedAt BY <2>1, <2>9 DEF SlashedBy
    <3>2. amount = 0 BY <2>9
    <3>3. s = slashed[u] BY <2>1, <2>4, <3>2 DEF SlashedBy
    <3>4. QED BY <2>2, <2>6, <2>7, <3>1, <3>3 DEF SlashTypes, SlashesCapped
  <2>10. QED BY <2>8, <2>9
<1>2. ASSUME Crash PROVE SlashTypes' /\ SlashesCapped'
  <2>1. low' = Zeros /\ slashed' = Zeros /\ peak' = Zeros /\ slashedAt' = [a \in Accounts |-> -1]
    BY <1>2 DEF Crash, Memory
  <2>2. Zeros \in [Accounts -> Nat] /\ (\A a \in Accounts : Zeros[a] = 0) /\ Zeros \in [Accounts -> 0..(Wrap - 1)]
    BY <1>00 DEF Zeros
  <2>3. 100 * 0 <= C * 0 OBVIOUS
  <2>4. QED BY <1>0, <2>1, <2>2, <2>3 DEF SlashTypes, SlashesCapped
<1>3. ASSUME UNCHANGED <<low, slashed, peak, slashedAt>> PROVE SlashTypes' /\ SlashesCapped'
  BY <1>3 DEF SlashTypes, SlashesCapped
<1>4. QED BY <1>1, <1>2, <1>3, KeepsSlashes

\* The last block whose slashing of a user is done.
SlashedUpTo(u) ==
  IF pc \in {"idle", "rotate", "promote", "weigh", "weighing"} \/ (pc = "slashing" /\ u \notin Elements(todo))
  THEN height ELSE height - 1
ApartInv ==
  /\ pc = "down" => \A u \in Accounts : slashedAt[u] = -1
  /\ \A u \in Accounts : slashedAt[u] >= 0 => slashedAt[u] + low[u] <= SlashedUpTo(u)
\* Two slashes of a node are so many blocks apart as the streak is long.
Apart == \A u \in Accounts : (slashedAt[u] >= 0 /\ slashedAt'[u] > slashedAt[u]) => slashedAt'[u] - slashedAt[u] >= Lows

LEMMA DoneGrows ==
  ASSUME LoopInv, GovernanceNext, ~SlashUser, ~Crash, pc # "down", NEW u
  PROVE  SlashedUpTo(u)' >= SlashedUpTo(u) /\ pc' # "down"
<1>0. height \in Nat /\ pc \in Phases BY DEF LoopInv
<1>1. ASSUME BeginBlock PROVE SlashedUpTo(u)' >= SlashedUpTo(u) /\ pc' # "down"
  BY <1>0, <1>1 DEF BeginBlock, Goto, SlashedUpTo
<1>2. ASSUME ExpireTerm \/ CreditSalary \/ Demote \/ WriteWeight PROVE SlashedUpTo(u)' >= SlashedUpTo(u) /\ pc' # "down"
  BY <1>0, <1>2 DEF ExpireTerm, CreditSalary, Demote, WriteWeight, counters, SlashedUpTo
<1>3. ASSUME StartSalary \/ SalaryPaid \/ StartSlashing PROVE SlashedUpTo(u)' >= SlashedUpTo(u) /\ pc' # "down"
  BY <1>0, <1>3 DEF StartSalary, SalaryPaid, StartSlashing, Goto, counters, SlashedUpTo
<1>4. ASSUME StartRotation \/ Check \/ Promote \/ Rotated \/ StartWeights \/ EndBlock
      PROVE  SlashedUpTo(u)' >= SlashedUpTo(u) /\ pc' # "down"
  <2>1. pc' \in {"rotate", "promote", "weigh", "weighing", "idle"} /\ height' = height
    BY <1>4 DEF StartRotation, Check, Promote, Rotated, StartWeights, EndBlock, Goto, counters
  <2>2. SlashedUpTo(u)' = height BY <2>1 DEF SlashedUpTo
  <2>3. SlashedUpTo(u) \in {height, height - 1} BY DEF SlashedUpTo
  <2>4. QED BY <1>0, <2>1, <2>2, <2>3
<1>5. ASSUME UNCHANGED <<pc, view, todo, height, saved, now, paidAt, stops>> PROVE SlashedUpTo(u)' >= SlashedUpTo(u) /\ pc' # "down"
  BY <1>0, <1>5 DEF SlashedUpTo
<1>6. ~Restart BY DEF Restart
<1>7. QED BY <1>1, <1>2, <1>3, <1>4, <1>5, <1>6, KeepsLoop

LEMMA ApartStep ==
  ASSUME LoopInv, UsersTyped, TodoInv, SlashTypes, ApartInv, GovernanceNext
  PROVE  ApartInv' /\ Apart
<1>0. height \in Nat BY DEF LoopInv
<1>1. ASSUME SlashUser PROVE ApartInv' /\ Apart
  <2>1. PICK u \in DOMAIN users, amount \in Nat, count \in Nat, user \in UserBlock : SlashedBy(u, amount, count, user)
    BY <1>1, SlashIs
  <2>2. u \in Accounts BY DEF UsersTyped, UserBlocks
  <2>3. pc = "slashing" /\ pc' = pc /\ todo # <<>> /\ u = Head(todo) /\ todo' = Tail(todo) BY <2>1 DEF SlashedBy
  <2>4. height' = height BY <1>1 DEF SlashUser, counters
  <2>5. Elements(todo) = {u} \cup Elements(todo') /\ u \notin Elements(todo') BY <2>3, Popped DEF TodoInv
  <2>6. SlashedUpTo(u) = height - 1 /\ SlashedUpTo(u)' = height BY <2>3, <2>4, <2>5 DEF SlashedUpTo
  <2>7. \A x \in Accounts : x # u => SlashedUpTo(x)' = SlashedUpTo(x) BY <2>3, <2>4, <2>5 DEF SlashedUpTo
  <2>8. PICK l \in Nat : l = low[u] BY <2>2 DEF SlashTypes
  <2>9. PICK n \in Nat : n = Streak(u, count) /\ n <= count /\ (count >= Lows => n = 0) BY DEF Streak
  <2>10. count <= l + 1 /\ (amount > 0 => count >= Lows) BY <2>1, <2>8 DEF SlashedBy
  <2>11. low'[u] = n /\ \A x \in Accounts : x # u => low'[x] = low[x] BY <2>1, <2>2, <2>9 DEF SlashedBy, SlashTypes
  <2>12. PICK a \in Int : a = slashedAt[u] BY <2>2 DEF SlashTypes
  <2>13. a >= 0 => a + l <= height - 1 BY <2>2, <2>6, <2>8, <2>12 DEF ApartInv
  <2>14. \A x \in Accounts : x # u => slashedAt'[x] = slashedAt[x]
    BY <2>1, <2>2 DEF SlashedBy, SlashTypes
  <2>15. slashedAt'[u] = IF amount > 0 THEN height ELSE a BY <2>1, <2>2, <2>12 DEF SlashedBy, SlashTypes
  <2>16. slashedAt'[u] >= 0 => slashedAt'[u] + low'[u] <= SlashedUpTo(u)'
    BY <1>0, <2>6, <2>9, <2>10, <2>11, <2>13, <2>15
  <2>17. ApartInv'
    <3>1. \A x \in Accounts : slashedAt'[x] >= 0 => slashedAt'[x] + low'[x] <= SlashedUpTo(x)'
      BY <2>7, <2>11, <2>14, <2>16 DEF ApartInv
    <3>2. QED BY <2>3, <3>1 DEF ApartInv
  <2>18. Apart
    <3>1. ASSUME slashedAt[u] >= 0, slashedAt'[u] > slashedAt[u] PROVE slashedAt'[u] - slashedAt[u] >= Lows
      BY <1>0, <2>10, <2>12, <2>13, <2>15, <3>1, GovernanceAssumption
    <3>2. \A x \in Accounts : x # u => ~(slashedAt'[x] > slashedAt[x]) BY <2>14 DEF SlashTypes
    <3>3. QED BY <3>1, <3>2 DEF Apart
  <2>19. QED BY <2>17, <2>18
<1>2. ASSUME Crash PROVE ApartInv' /\ Apart
  <2>1. slashedAt' = [a \in Accounts |-> -1] BY <1>2 DEF Crash
  <2>2. \A u \in Accounts : slashedAt'[u] = -1 BY <2>1
  <2>3. ApartInv' BY <2>2 DEF ApartInv
  <2>4. ASSUME NEW u \in Accounts, slashedAt[u] >= 0 PROVE ~(slashedAt'[u] > slashedAt[u])
    BY <2>2, <2>4 DEF SlashTypes
  <2>5. QED BY <2>3, <2>4 DEF Apart
<1>3. ASSUME ~SlashUser, ~Crash PROVE ApartInv' /\ Apart
  <2>1. low' = low /\ slashedAt' = slashedAt BY <1>3, KeepsSlashes
  <2>2. \A u \in Accounts : slashedAt[u] \in Int /\ low[u] \in Nat BY DEF SlashTypes
  <2>3. Apart
    <3>1. \A u \in Accounts : ~(slashedAt'[u] > slashedAt[u]) BY <2>1, <2>2
    <3>2. QED BY <3>1 DEF Apart
  <2>4. CASE pc = "down" BY <2>1, <2>3, <2>4 DEF ApartInv
  <2>5. CASE pc # "down"
    <3>1. pc' # "down" BY <1>3, <2>5, DoneGrows
    <3>2. ASSUME NEW u \in Accounts, slashedAt'[u] >= 0 PROVE slashedAt'[u] + low'[u] <= SlashedUpTo(u)'
      <4>1. slashedAt[u] + low[u] <= SlashedUpTo(u) BY <2>1, <3>2 DEF ApartInv
      <4>2. SlashedUpTo(u) \in Int BY <1>0 DEF SlashedUpTo
      <4>3. PICK d \in Int, a \in Int, l \in Nat : d = SlashedUpTo(u) /\ a = slashedAt[u] /\ l = low[u] BY <2>2, <4>2
      <4>4. SlashedUpTo(u)' \in Int BY LoopStep DEF LoopInv, SlashedUpTo
      <4>5. PICK e \in Int : e = SlashedUpTo(u)' BY <4>4
      <4>6. e >= d BY <1>3, <2>5, <4>3, <4>5, DoneGrows
      <4>7. a + l <= e BY <4>1, <4>3, <4>6
      <4>8. QED BY <2>1, <4>3, <4>5, <4>7
    <3>3. QED BY <2>3, <3>1, <3>2 DEF ApartInv
  <2>6. QED BY <2>4, <2>5
<1>4. QED BY <1>1, <1>2, <1>3

-----------------------------------------------------------------------------
(* Salaries: the payouts are counted by months, and each one stays within  *)
(* the budget.                                                             *)
Months(h) == h \div Month
LEMMA MonthsGrow ==
  ASSUME NEW a \in Nat, NEW b \in Nat
  PROVE  /\ Months(a) \in Nat
         /\ a <= b => Months(a) <= Months(b)
         /\ a + Month <= b => Months(a) + 1 <= Months(b)
         /\ Months(a + 1) <= Months(a) + 1
<1>1. PICK m \in Nat : m = Month /\ m # 0 /\ m >= 1 BY GovernanceAssumption
<1>2. \A n \in Nat : n \div m \in Nat /\ (n \div m) * m <= n BY <1>1, Quotient
<1>3. ASSUME NEW n \in Nat, NEW c \in Nat, c * m <= n PROVE c <= n \div m
  <2>1. n = m * (n \div m) + (n % m) /\ n % m \in 0..(m - 1) BY <1>1, DivisionWithRest
  <2>2. PICK p \in Nat, r \in 0..(m - 1) : p = n \div m /\ r = n % m BY <1>2, <2>1
  <2>3. n = m * p + r /\ r < m BY <1>1, <2>1, <2>2
  <2>4. SUFFICES ASSUME c > p PROVE FALSE BY <2>2
  <2>5. PICK d \in Nat : c = (p + 1) + d BY <2>4
  <2>6. c * m = m * p + m + d * m /\ d * m \in Nat /\ m * p \in Nat BY <2>5
  <2>7. QED BY <1>3, <2>3, <2>6
<1>4. PICK q \in Nat, p \in Nat, o \in Nat : q = a \div m /\ p = b \div m /\ o = (a + 1) \div m BY <1>2
<1>5. q * m <= a /\ q * m \in Nat /\ o * m <= a + 1 /\ o * m \in Nat BY <1>2, <1>4
<1>6. a <= b => q <= p BY <1>3, <1>4, <1>5
<1>7. a + m <= b => q + 1 <= p BY <1>3, <1>4, <1>5
<1>8. o <= q + 1
  <2>1. CASE o = 0 BY <2>1
  <2>2. CASE o # 0
    <3>1. PICK e \in Nat : o = e + 1 BY <2>2
    <3>2. o * m = e * m + m /\ e * m \in Nat BY <3>1
    <3>3. e * m <= a BY <1>1, <1>5, <3>2
    <3>4. e <= q BY <1>3, <1>4, <3>3
    <3>5. QED BY <3>1, <3>4
  <2>3. QED BY <2>1, <2>2
<1>9. QED BY <1>1, <1>4, <1>6, <1>7, <1>8 DEF Months

Budget == pool.relay + pool.record
Unpaid == IF pc = "pay" THEN Together(todo) ELSE 0
\* The payouts so far, whatever a restart forgot of them.
Counted ==
  IF pc = "pay" THEN payouts <= Months(height) + 2 * stops
  ELSE IF paidAt = 0 /\ stops > 0 THEN payouts + 1 <= Months(saved) + 2 * stops
       ELSE payouts <= Months(paidAt) + 2 * stops
PayInv == payouts \in Nat /\ paid \in Nat /\ paid + Unpaid <= payouts * Budget /\ Counted

LEMMA PaysAre ==
  ASSUME LoopInv, UsersTyped, TodoInv, PayInv PROVE PaysBounded
<1>1. payouts <= Months(height) + 2 * stops BY MonthsGrow DEF LoopInv, Phases, PayInv, Counted
<1>2. paid <= payouts * Budget
  <2>1. Unpaid \in Nat
    <3>1. CASE pc = "pay" BY <3>1, SlipsLeft DEF TodoInv, Unpaid
    <3>2. CASE pc # "pay" BY <3>2 DEF Unpaid
    <3>3. QED BY <3>1, <3>2
  <2>2. PICK b \in Nat : b = Budget BY DEF UsersTyped, PoolRecord, Budget
  <2>3. PICK n \in Nat, q \in Nat, x \in Nat : n = payouts /\ q = paid /\ x = n * b BY DEF PayInv
  <2>4. QED BY <2>1, <2>2, <2>3 DEF PayInv
<1>3. QED BY <1>1, <1>2 DEF PaysBounded, Months, Budget

\* The budget stays what it is.
LEMMA BudgetStays ==
  ASSUME UsersTyped, TodoInv, SlashTypes, GovernanceNext PROVE Budget' = Budget /\ Budget \in Nat
<1>1. Budget \in Nat BY DEF UsersTyped, PoolRecord, Budget
<1>2. CASE FundReserve BY <1>1, <1>2, FundIs DEF Budget
<1>3. CASE pool' = pool BY <1>1, <1>3 DEF Budget
<1>4. QED BY <1>2, <1>3, KeepsPool

LEMMA PayStep ==
  ASSUME LoopInv, UsersTyped, TodoInv, SlashTypes, PayInv, GovernanceNext PROVE PayInv'
<1>0. PICK b \in Nat : b = Budget /\ b = Budget' BY BudgetStays
<1>1. PICK n \in Nat, q \in Nat, h \in Nat, s \in Nat, p \in Nat, k \in Nat :
        n = payouts /\ q = paid /\ h = height /\ s = saved /\ p = paidAt /\ k = stops /\ h <= s + 1 /\ s <= h /\ p <= h
  BY DEF PayInv, LoopInv, Phases
<1>2. PICK x \in Nat : x = n * b OBVIOUS
<1>3. PICK l \in Nat : l = Unpaid
  <2>1. CASE pc = "pay" BY <2>1, SlipsLeft DEF TodoInv, Unpaid
  <2>2. CASE pc # "pay" BY <2>2 DEF Unpaid
  <2>3. QED BY <2>1, <2>2
<1>4. q + l <= x BY <1>0, <1>1, <1>2, <1>3 DEF PayInv
<1>5. PICK mh \in Nat, ms \in Nat, mp \in Nat :
        mh = Months(h) /\ ms = Months(s) /\ mp = Months(p) /\ mh <= ms + 1 /\ ms <= mh /\ mp <= mh
  BY <1>1, MonthsGrow
<1>6. /\ pc = "pay" => n <= mh + 2 * k
      /\ pc # "pay" /\ p = 0 /\ k > 0 => n + 1 <= ms + 2 * k
      /\ pc # "pay" /\ ~(p = 0 /\ k > 0) => n <= mp + 2 * k
  BY <1>1, <1>5 DEF PayInv, Counted
<1>7. CASE StartSalary
  <2>1. pc = "expire" /\ UNCHANGED <<height, saved, paidAt, stops, paid>> BY <1>7 DEF StartSalary, counters
  <2>2. h = s + 1 BY <1>1, <2>1 DEF LoopInv
  <2>3. CASE ~Due
    BY <1>0, <1>1, <1>2, <1>3, <1>4, <1>5, <1>6, <1>7, <2>1, <2>3 DEF StartSalary, Goto, Counted, Unpaid, PayInv
  <2>4. CASE Due
    <3>1. pc' = "pay" /\ payouts' = payouts + 1 /\ todo' = Payslips BY <1>7, <2>4 DEF StartSalary, Goto
    <3>2. PICK m \in Nat : m = Month /\ m # 0 BY GovernanceAssumption
    <3>3. p + m <= h BY <1>1, <2>4, <3>2 DEF Due
    <3>4. mp + 1 <= mh BY <1>5, <3>2, <3>3, MonthsGrow
    <3>5. n + 1 <= mh + 2 * k BY <1>5, <1>6, <2>1, <3>4
    <3>6. Counted' BY <1>1, <1>5, <2>1, <3>1, <3>5 DEF Counted
    <3>7. PICK t \in Nat : t = Together(Payslips) /\ t <= b BY <1>0, PayslipsAre, SlipsLeft DEF Budget
    <3>8. Unpaid' = t BY <3>1, <3>7 DEF Unpaid
    <3>9. (n + 1) * b = x + b BY <1>2
    <3>10. Unpaid = 0 BY <2>1 DEF Unpaid
    <3>11. q + t <= (n + 1) * b BY <1>3, <1>4, <3>7, <3>9, <3>10
    <3>12. paid' + Unpaid' <= payouts' * Budget' BY <1>0, <1>1, <2>1, <3>1, <3>8, <3>11
    <3>13. payouts' \in Nat /\ paid' \in Nat BY <1>1, <2>1, <3>1
    <3>14. QED BY <3>6, <3>12, <3>13 DEF PayInv
  <2>5. QED BY <2>3, <2>4
<1>8. CASE CreditSalary
  <2>1. /\ pc = "pay" /\ todo # <<>> /\ todo' = Tail(todo) /\ paid' = paid + Head(todo).amount
        /\ UNCHANGED <<pc, height, saved, paidAt, stops, payouts>>
    BY <1>8 DEF CreditSalary, counters, memory
  <2>2. todo \in Seq(Slips(DOMAIN users)) BY <2>1 DEF TodoInv
  <2>3. PICK a \in Nat, t \in Nat : a = Head(todo).amount /\ t = Together(Tail(todo)) /\ Together(todo) = a + t
    BY <2>1, <2>2, SlipsLeft
  <2>4. l = a + t BY <1>3, <2>1, <2>3 DEF Unpaid
  <2>5. Unpaid' = t BY <2>1, <2>3 DEF Unpaid
  <2>6. paid' = q + a BY <1>1, <2>1, <2>3
  <2>7. (q + a) + t <= x BY <1>4, <2>4
  <2>8. paid' + Unpaid' <= payouts' * Budget' BY <1>0, <1>1, <1>2, <2>1, <2>5, <2>6, <2>7
  <2>9. Counted' BY <2>1 DEF PayInv, Counted
  <2>10. payouts' \in Nat /\ paid' \in Nat BY <1>1, <2>1, <2>6
  <2>11. QED BY <2>8, <2>9, <2>10 DEF PayInv
<1>9. CASE UNCHANGED <<payouts, paid>>
  <2>0. ~(StartSalary /\ Due) /\ (CreditSalary => todo # <<>>)
    <3>1. ASSUME StartSalary, Due PROVE FALSE BY <1>1, <1>9, <3>1 DEF StartSalary
    <3>2. QED BY <3>1 DEF CreditSalary
  <2>1. ASSUME Unpaid' = 0, Counted' PROVE PayInv'
    <3>1. paid' + Unpaid' <= payouts' * Budget'
      <4>1. paid' = q /\ payouts' = n /\ Budget' = b BY <1>0, <1>1, <1>9
      <4>2. payouts' * Budget' = x BY <1>2, <4>1
      <4>3. q + 0 <= x BY <1>3, <1>4
      <4>4. paid' + Unpaid' = q + 0 BY <2>1, <4>1
      <4>5. QED BY <4>2, <4>3, <4>4
    <3>2. QED BY <1>1, <1>9, <2>1, <3>1 DEF PayInv
  <2>2. ASSUME BeginBlock \/ EndBlock \/ Restart PROVE Unpaid' = 0 /\ Counted'
    <3>1. pc # "pay" /\ pc' # "pay" /\ paidAt' = paidAt /\ stops' = stops
      BY <2>2 DEF BeginBlock, EndBlock, Restart, Goto, memory, ghosts
    <3>2. saved' = s \/ saved' = h BY <1>1, <2>2 DEF BeginBlock, EndBlock, Restart
    <3>3. PICK m \in Nat : m = Months(saved') /\ ms <= m BY <1>5, <3>2
    <3>4. QED BY <1>1, <1>5, <1>6, <1>9, <3>1, <3>3 DEF Unpaid, Counted
  <2>3. ASSUME SalaryPaid PROVE Unpaid' = 0 /\ Counted'
    BY <1>1, <1>5, <1>6, <1>9, <2>3 DEF SalaryPaid, Goto, counters, ghosts, LoopInv, Unpaid, Counted
  <2>4. ASSUME Crash PROVE Unpaid' = 0 /\ Counted'
    <3>1. pc' = "down" /\ stops' = stops + 1 /\ paidAt' = 0 /\ UNCHANGED <<height, saved>>
      BY <2>4 DEF Crash, Goto, Memory, counters
    <3>2. n + 1 <= ms + 2 * (k + 1) BY <1>5, <1>6
    <3>3. payouts' + 1 <= Months(saved') + 2 * stops' BY <1>1, <1>5, <1>9, <3>1, <3>2
    <3>4. stops' > 0 BY <1>1, <3>1
    <3>5. QED BY <3>1, <3>3, <3>4 DEF Unpaid, Counted
  <2>5. ASSUME \/ ExpireTerm \/ StartSalary \/ StartSlashing \/ SlashUser \/ StartRotation \/ Demote \/ Check
               \/ Promote \/ Rotated \/ StartWeights \/ WriteWeight
        PROVE  Unpaid' = 0 /\ Counted'
    <3>1. pc # "pay" /\ pc' # "pay" /\ UNCHANGED <<height, saved, paidAt, stops>>
      BY <2>0, <2>5 DEF ExpireTerm, StartSalary, StartSlashing, SlashUser, StartRotation, Demote, Check,
         Promote, Rotated, StartWeights, WriteWeight, Goto, memory, ghosts, counters
    <3>2. QED BY <1>1, <1>5, <1>6, <1>9, <3>1 DEF Unpaid, Counted
  <2>6. ASSUME UNCHANGED <<pc, view, todo, height, saved, now, paidAt, stops>> PROVE PayInv'
    BY <1>0, <1>1, <1>2, <1>3, <1>4, <1>9, <2>6 DEF PayInv, Unpaid, Counted
  <2>7. ASSUME CreditSalary PROVE PayInv' BY <1>8, <2>7
  <2>8. QED BY <2>1, <2>2, <2>3, <2>4, <2>5, <2>6, <2>7, KeepsLoop
<1>10. QED BY <1>7, <1>8, <1>9, KeepsPayouts

-----------------------------------------------------------------------------
(* The limits: when the last hook of a block is done, every limit is what  *)
(* the seed gives.                                                         *)
LimitsInv ==
  stops = 0 =>
    /\ pc = "idle" /\ height > 0 => \A u \in DOMAIN users : users[u].limit = Limit(users[u])
    /\ pc = "weighing" => \A u \in DOMAIN users :
         /\ view[u].limit = Limit(view[u])
         /\ u \notin Elements(todo) => users[u].limit = Limit(users[u])

LEMMA LimitsAre ==
  ASSUME LimitsInv PROVE LimitsForgotten
BY DEF LimitsInv, LimitsForgotten, Limit, Registered

\* A step that leaves limits and seeds.
LimitsStay == \A x \in DOMAIN users : users'[x].limit = users[x].limit /\ users'[x].seed = users[x].seed
LEMMA LimitsAlone ==
  ASSUME UsersTyped, TodoInv, BansTyped, GovernanceNext
  PROVE  CreditSalary \/ SlashUser \/ WriteWeight \/ LimitsStay
BY RoleTaken, RolesSet, KeepsUsers DEF Roles, LimitsStay, RegisterNode, Registered

LEMMA LimitsStep ==
  ASSUME LoopInv, UsersTyped, TodoInv, BansTyped, LimitsInv, GovernanceNext, DOMAIN users' = DOMAIN users
  PROVE  LimitsInv'
<1>0. DOMAIN users \in SUBSET Accounts BY DEF UsersTyped, UserBlocks
<1>1. CASE Crash BY <1>1 DEF Crash, LoopInv, LimitsInv
<1>2. CASE Restart BY <1>2 DEF Restart, ghosts, LoopInv, LimitsInv
<1>3. CASE StartWeights
  BY <1>0, <1>3, WeightsAre, SortedListIs DEF StartWeights, Goto, Registered, usersVars, UsersTyped, Limit,
     LimitsInv
<1>4. CASE WriteWeight
  <2>1. PICK u \in DOMAIN users :
          /\ u = Head(todo) /\ users'[u] = view[u] /\ \A x \in DOMAIN users : x # u => users'[x] = users[x]
    BY <1>4, WriteIs
  <2>2. pc = "weighing" /\ pc' = "weighing" /\ todo # <<>> /\ todo' = Tail(todo) /\ UNCHANGED <<view, stops>>
    BY <1>4 DEF WriteWeight
  <2>3. Elements(todo) = {u} \cup Elements(todo') BY <2>1, <2>2, Popped DEF TodoInv
  <2>4. SUFFICES ASSUME stops = 0
                 PROVE  \A x \in DOMAIN users :
                          /\ view[x].limit = Limit(view[x])
                          /\ x \notin Elements(todo') => users'[x].limit = Limit(users'[x])
    BY <2>2 DEF LimitsInv, Limit
  <2>5. \A x \in DOMAIN users :
          view[x].limit = Limit(view[x]) /\ (x \notin Elements(todo) => users[x].limit = Limit(users[x]))
    BY <2>2, <2>4 DEF LimitsInv
  <2>6. ASSUME NEW x \in DOMAIN users, x \notin Elements(todo') PROVE users'[x].limit = Limit(users'[x])
    BY <2>1, <2>3, <2>5, <2>6
  <2>7. QED BY <2>5, <2>6
<1>5. CASE EndBlock BY <1>5 DEF EndBlock, Goto, usersVars, ghosts, Elements, LimitsInv
<1>6. CASE \/ BeginBlock \/ ExpireTerm \/ StartSalary \/ CreditSalary \/ SalaryPaid \/ StartSlashing \/ SlashUser
           \/ StartRotation \/ Demote \/ Check \/ Promote \/ Rotated
  BY <1>6 DEF BeginBlock, ExpireTerm, StartSalary, CreditSalary, SalaryPaid, StartSlashing, SlashUser,
     StartRotation, Demote, Check, Promote, Rotated, Goto, LimitsInv
<1>7. CASE UNCHANGED <<pc, view, todo, height, saved, now, paidAt, stops>>
  <2>1. CASE pc \in {"idle", "weighing"}
    BY <1>4, <1>7, <2>1, LimitsAlone DEF CreditSalary, SlashUser, LimitsStay, LimitsInv, Limit
  <2>2. CASE pc \notin {"idle", "weighing"} BY <1>7, <2>2 DEF LimitsInv
  <2>3. QED BY <2>1, <2>2
<1>8. QED BY <1>1, <1>2, <1>3, <1>4, <1>5, <1>6, <1>7, KeepsLoop

-----------------------------------------------------------------------------
(* All of it together.                                                     *)
GovernanceInv ==
  /\ LoopInv /\ UsersTyped /\ TodoInv /\ BansTyped /\ SlashTypes /\ TermsInv /\ ToRise /\ Serve
  /\ TermsLimited /\ BannedStaysOut /\ SlashesCapped /\ ApartInv /\ PayInv /\ LimitsInv

LEMMA GovernanceStarts == ASSUME UsersGiven, GovernanceInit PROVE GovernanceInv
<1>0. pc = "idle" /\ height = 0 /\ saved = 0 /\ paidAt = 0 /\ stops = 0 /\ now = 0 /\ todo = <<>>
  BY DEF GovernanceInit
<1>1. LoopInv BY <1>0 DEF LoopInv, Phases
<1>2. UsersTyped BY DEF UsersGiven, GovernanceInit, Registered, UsersTyped, UserBlocks
<1>3. TodoInv BY <1>0 DEF TodoInv
<1>4. BansTyped BY DEF GovernanceInit, BansTyped
<1>5. SlashTypes
  <2>1. PICK W \in Nat : W = Wrap /\ W # 0 BY UsersAssumption
  <2>2. 0 \in 0..(Wrap - 1) BY <2>1
  <2>3. QED BY <2>2 DEF GovernanceInit, SlashTypes, Zeros
<1>6. TermsInv BY DEF GovernanceInit, NoTerms, TermsInv, Served
<1>7. ToRise BY <1>0 DEF ToRise
<1>8. Serve BY DEF GovernanceInit, Serve, Registered
<1>9. TermsLimited BY DEF GovernanceInit, TermsLimited, NoTerms
<1>10. BannedStaysOut BY DEF GovernanceInit, BannedStaysOut
<1>11. SlashesCapped
  <2>1. PICK C \in Nat : C = CapPercent BY GovernanceAssumption
  <2>2. 100 * 0 <= C * 0 OBVIOUS
  <2>3. QED BY <2>1, <2>2 DEF GovernanceInit, SlashesCapped, Zeros
<1>12. ApartInv BY DEF GovernanceInit, ApartInv
<1>13. PayInv
  <2>1. payouts = 0 /\ paid = 0 BY DEF GovernanceInit
  <2>2. PICK b \in Nat : b = Budget BY DEF UsersGiven, PoolRecord, Budget
  <2>3. Unpaid = 0 BY <1>0 DEF Unpaid
  <2>4. 0 * b = 0 OBVIOUS
  <2>5. Months(0) \in Nat BY MonthsGrow
  <2>6. Counted BY <1>0, <2>1, <2>5 DEF Counted
  <2>7. QED BY <2>1, <2>2, <2>3, <2>4, <2>6 DEF PayInv
<1>14. LimitsInv BY <1>0 DEF LimitsInv
<1>15. QED BY <1>1, <1>2, <1>3, <1>4, <1>5, <1>6, <1>7, <1>8, <1>9, <1>10, <1>11, <1>12, <1>13, <1>14 DEF GovernanceInv

LEMMA GovernanceStep == ASSUME GovernanceInv, GovernanceNext PROVE GovernanceInv' /\ Apart
<1>0. /\ LoopInv /\ UsersTyped /\ TodoInv /\ BansTyped /\ SlashTypes /\ TermsInv /\ ToRise /\ Serve
      /\ TermsLimited /\ BannedStaysOut /\ SlashesCapped /\ ApartInv /\ PayInv /\ LimitsInv
  BY DEF GovernanceInv
<1>1. LoopInv' BY <1>0, LoopStep
<1>2. UsersTyped' /\ DOMAIN users' = DOMAIN users BY <1>0, UsersStay
<1>3. TodoInv' BY <1>0, <1>2, TodoStep DEF TermsInv
<1>4. BansTyped' BY <1>0, <1>2, BansStep
<1>5. SlashTypes' /\ SlashesCapped' BY <1>0, CappedStep
<1>6. TermsInv' /\ TermsLimited' BY <1>0, <1>2, TermsStep
<1>7. ToRise' BY <1>0, ToRiseStep
<1>8. Serve' BY <1>0, <1>2, ServeStep
<1>9. BannedStaysOut' BY <1>0, <1>2, OutStep
<1>10. ApartInv' /\ Apart BY <1>0, ApartStep
<1>11. PayInv' BY <1>0, PayStep
<1>12. LimitsInv' BY <1>0, <1>2, LimitsStep
<1>13. QED BY <1>1, <1>2, <1>3, <1>4, <1>5, <1>6, <1>7, <1>8, <1>9, <1>10, <1>11, <1>12 DEF GovernanceInv

LEMMA GovernanceStutters ==
  ASSUME GovernanceInv, UNCHANGED <<usersVars, governVars>> PROVE GovernanceInv' /\ Apart
<1>1. UNCHANGED <<users, pool, pc, height, saved, paidAt, now, view, todo, terms, history, low, slashed, blacklist,
                  fine, banning, payouts, paid, stops, peak, slashedAt, begun, overtaken, replaced, appointed>>
  BY DEF usersVars, governVars, ghosts
<1>2. GovernanceInv'
  <2>1. LoopInv' /\ UsersTyped' /\ TodoInv' /\ BansTyped' /\ SlashTypes'
    BY <1>1 DEF GovernanceInv, LoopInv, UsersTyped, TodoInv, BansTyped, SlashTypes
  <2>2. TermsInv' /\ ToRise' /\ Serve' /\ TermsLimited' /\ BannedStaysOut'
    BY <1>1 DEF GovernanceInv, TermsInv, ToRise, Serve, TermsLimited, BannedStaysOut, Served, CanRenew
  <2>3. SlashesCapped' /\ ApartInv' /\ PayInv' /\ LimitsInv'
    BY <1>1 DEF GovernanceInv, SlashesCapped, ApartInv, SlashedUpTo, PayInv, Unpaid, Budget, Counted, LimitsInv
  <2>4. QED BY <2>1, <2>2, <2>3 DEF GovernanceInv
<1>3. \A u \in Accounts : ~(slashedAt'[u] > slashedAt[u]) BY <1>1 DEF GovernanceInv, SlashTypes
<1>4. QED BY <1>2, <1>3 DEF Apart

(* Limits, payouts, slashes, bans and terms hold in every state, and the   *)
(* distance of two slashes in every step: governor.go and the hooks of     *)
(* app.go, for all users and every length of a month and of a term.        *)
THEOREM GovernanceIsSound == GovernanceSpec => GovernanceSound
<1>1. UsersGiven /\ GovernanceInit => GovernanceInv BY GovernanceStarts
<1>2. GovernanceInv /\ [GovernanceNext]_<<usersVars, governVars>> => GovernanceInv' /\ Apart
  BY GovernanceStep, GovernanceStutters
<1>3. GovernanceInv => /\ LimitsForgotten /\ PaysBounded /\ SlashesCapped
                       /\ BannedStaysOut /\ TermsLimited /\ OfficialsServe
  BY LimitsAre, PaysAre DEF GovernanceInv, OfficialsServe, Serve, Registered
<1>4. GovernanceSpec => [](/\ LimitsForgotten /\ PaysBounded /\ SlashesCapped
                           /\ BannedStaysOut /\ TermsLimited /\ OfficialsServe)
  BY <1>1, <1>2, <1>3, PTL DEF GovernanceSpec
<1>5. GovernanceSpec => SlashesApart
  <2>1. [Apart]_governVars
          => [\A u \in Accounts : (slashedAt[u] >= 0 /\ slashedAt'[u] > slashedAt[u])
                                    => slashedAt'[u] - slashedAt[u] >= Lows]_governVars
    BY DEF Apart
  <2>2. GovernanceSpec => [][Apart]_governVars BY <1>1, <1>2, PTL DEF GovernanceSpec
  <2>3. QED BY <2>1, <2>2, PTL DEF SlashesApart
<1>6. QED BY <1>4, <1>5 DEF GovernanceSound
=============================================================================
