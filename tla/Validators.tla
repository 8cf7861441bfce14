----------------------------- MODULE Validators -----------------------------
(* What the validators have to agree on beside the blocks: a random value  *)
(* in each round, and the number of the epoch after a split.               *)
EXTENDS Integers, FiniteSets

(***************************************************************************)
(* A round of randbeacon/beacon.go on several nodes, each with a Round of  *)
(* its own: commitments and reveals reach them at different times.         *)
(***************************************************************************)

CONSTANTS Keepers,      \* nodes that keep the round
          Participants, Seeds,
          CommitWindow, RevealWindow,
          EndTime       \* bound of the model

ASSUME RandBeaconAssumption == {CommitWindow, RevealWindow, EndTime} \subseteq Nat

VARIABLES clock, committed, revealed, value,
          \* history: when commitments came to a node that had a reveal, and
          \* when the round was finalized there
          afterwards, finalizedAt

beaconVars == <<clock, committed, revealed, value, afterwards, finalizedAt>>

Never == EndTime + 1

RandBeaconInit ==
  /\ clock = 0
  /\ committed = [n \in Keepers |-> <<>>] /\ revealed = [n \in Keepers |-> <<>>]
  /\ value = [n \in Keepers |-> <<>>]
  /\ afterwards = [n \in Keepers |-> {}] /\ finalizedAt = [n \in Keepers |-> Never]

Set(f, k, v) == [x \in DOMAIN f \cup {k} |-> IF x = k THEN v ELSE f[x]]

PassTime ==
  /\ clock < EndTime /\ clock' = clock + 1
  /\ UNCHANGED <<committed, revealed, value, afterwards, finalizedAt>>

Complete(n) == finalizedAt[n] # Never

\* A commitment that comes while others reveal.
InTimeLate == clock <= CommitWindow + RevealWindow

InTime == clock <= CommitWindow

SubmitCommitment(n, p, s) ==
  /\ ~Complete(n) /\ InTime /\ p \notin DOMAIN committed[n]
  /\ committed' = [committed EXCEPT ![n] = Set(@, p, s)]
  /\ afterwards' = IF revealed[n] = <<>> THEN afterwards
                   ELSE [afterwards EXCEPT ![n] = @ \cup {clock}]
  /\ UNCHANGED <<clock, revealed, value, finalizedAt>>

\* A reveal that is not compared with the commitment.
MatchesAny(n, p, s) == p \in DOMAIN committed[n]

Matches(n, p, s) == p \in DOMAIN committed[n] /\ committed[n][p] = s

\* A window of reveals that never closes.
RevealingOn == clock >= CommitWindow

Revealing == clock >= CommitWindow /\ clock <= CommitWindow + RevealWindow

(* A reveal is taken in its window, also when the round is complete.       *)
SubmitReveal(n, p, s) ==
  /\ Matches(n, p, s) /\ Revealing
  /\ revealed' = [revealed EXCEPT ![n] = Set(@, p, s)]
  /\ UNCHANGED <<clock, committed, value, afterwards, finalizedAt>>

\* Finalize on every call.
FinalizeAgain(n) ==
  /\ Cardinality(DOMAIN revealed[n]) >= 2
  /\ value' = [value EXCEPT ![n] = revealed[n]]
  /\ finalizedAt' = [finalizedAt EXCEPT ![n] = clock]
  /\ UNCHANGED <<clock, committed, revealed, afterwards>>

(* Finalize does not look at the clock.                                    *)
Finalize(n) ==
  /\ ~Complete(n) /\ Cardinality(DOMAIN revealed[n]) >= 2
  /\ value' = [value EXCEPT ![n] = revealed[n]]
  /\ finalizedAt' = [finalizedAt EXCEPT ![n] = clock]
  /\ UNCHANGED <<clock, committed, revealed, afterwards>>

RandBeaconNext ==
  \/ PassTime
  \/ \E n \in Keepers : Finalize(n)
  \/ \E n \in Keepers, p \in Participants, s \in Seeds :
       SubmitCommitment(n, p, s) \/ SubmitReveal(n, p, s)

-----------------------------------------------------------------------------
DefaultParticipants(n) == DOMAIN committed[n] \ DOMAIN revealed[n]

(* Two nodes with the same reveals have the same value, unless one of them *)
(* finalized while the window was open; only then is somebody in the list  *)
(* of defaulters, or out of it, whom the value does not tell.              *)
EarlyIsTheOnlyFork ==
  LET Late(n) == Complete(n) /\ finalizedAt[n] > CommitWindow + RevealWindow IN
  \A n, m \in Keepers :
    /\ (Late(n) /\ Late(m) /\ revealed[n] = revealed[m]) => value[n] = value[m]
    /\ Late(n) => DefaultParticipants(n) = DOMAIN committed[n] \ DOMAIN value[n]

(* Nobody commits at a node that has seen a reveal, but for the instant in *)
(* which one window ends and the other begins.                             *)
CommitsAreBlind ==
  \A n \in Keepers : afterwards[n] \subseteq {CommitWindow}

(* Every seed of the value is one its participant committed to, and the    *)
(* value does not change, though reveals still come in.                    *)
ValueCommitted ==
  \A n \in Keepers : \A p \in DOMAIN value[n] :
    p \in DOMAIN committed[n] /\ value[n][p] = committed[n][p]
ValueFinal == [][\A n \in Keepers : Complete(n) => value'[n] = value[n]]_beaconVars

(* The random value was committed to blindly and is one for all keepers     *)
(* but for one that finalizes early.                                        *)
BeaconAgrees ==
  [](EarlyIsTheOnlyFork /\ CommitsAreBlind /\ ValueCommitted) /\ ValueFinal

-----------------------------------------------------------------------------
(***************************************************************************)
(* The epoch counters of consensus/epoch.go on several sides of a network  *)
(* that was split: each counts its blocks, and merges the number that it   *)
(* hears from another side, which may be old by then.                      *)
(***************************************************************************)

CONSTANTS Sides, PerEpoch,       \* 100 blocks
          MaxBlocks, MaxMerges   \* bounds of the model

ASSUME GlobalEpochsAssumption == PerEpoch \in Nat \ {0} /\ {MaxBlocks, MaxMerges} \subseteq Nat

VARIABLES counter, \* [epoch, block, isolations, last] of each side
          told,    \* numbers on their way: [by, epoch]
          lived    \* history: the epochs each side has been in

epochVars == <<counter, told, lived>>

GlobalEpochsInit ==
  /\ counter = [s \in Sides |-> [epoch |-> 0, block |-> 0, isolations |-> 0, last |-> 0]]
  /\ told = {} /\ lived = [s \in Sides |-> {0}]

Enter(s, epoch) == lived' = [lived EXCEPT ![s] = @ \cup {epoch}]

AdvanceBlock(s) ==
  LET block == counter[s].block + 1
      epoch == IF block % PerEpoch = 0 THEN counter[s].epoch + 1 ELSE counter[s].epoch IN
  /\ block <= MaxBlocks
  /\ counter' = [counter EXCEPT ![s].block = block, ![s].epoch = epoch]
  /\ Enter(s, epoch) /\ UNCHANGED told

Tell(s) ==
  /\ told' = told \cup {[by |-> s, epoch |-> counter[s].epoch]}
  /\ UNCHANGED <<counter, lived>>

\* The larger number itself.
AfterBoth(mine, theirs) == IF theirs > mine THEN theirs ELSE mine

\* The other's number alone.
AfterTheirs(mine, theirs) == theirs + 1

After(mine, theirs) == (IF theirs > mine THEN theirs ELSE mine) + 1

MergeEpoch(s, m) ==
  LET epoch == After(counter[s].epoch, m.epoch) IN
  /\ m.by # s /\ counter[s].isolations < MaxMerges
  /\ counter' = [counter EXCEPT ![s].epoch = epoch, ![s].last = counter[s].epoch,
                                ![s].isolations = @ + 1]
  /\ Enter(s, epoch) /\ UNCHANGED told

GlobalEpochsNext ==
  \E s \in Sides : AdvanceBlock(s) \/ Tell(s) \/ \E m \in told : MergeEpoch(s, m)

\* The round and the epochs, each by themselves.
ValidatorsInit == RandBeaconInit /\ GlobalEpochsInit
ValidatorsNext ==
  (RandBeaconNext /\ UNCHANGED epochVars) \/ (GlobalEpochsNext /\ UNCHANGED beaconVars)
ValidatorsSpec == ValidatorsInit /\ [][ValidatorsNext]_<<beaconVars, epochVars>>

-----------------------------------------------------------------------------
(* No side is in an epoch twice, and what a merge begins is an epoch that  *)
(* neither side had been in when the other told its number: receipts that  *)
(* are bound to an epoch are not bound to a second one of the same number. *)
EpochsFresh ==
  [][\A s \in Sides : counter'[s].epoch # counter[s].epoch => counter'[s].epoch \notin lived[s]]_epochVars
MergesFresh ==
  [][\A s \in Sides : counter'[s].isolations > counter[s].isolations =>
       \E m \in told : /\ \A e \in lived[s] : e < counter'[s].epoch
                       /\ \A e \in lived[m.by] : e <= m.epoch => e < counter'[s].epoch]_epochVars

(* The epochs are at least what the blocks give and the merges jumped: a   *)
(* count of blocks alone no longer tells the epoch once a side has merged. *)
MergesCount ==
  \A s \in Sides :
    counter[s].epoch >= counter[s].block \div PerEpoch + counter[s].isolations

(* The epoch of a side that never merged is what its blocks give.          *)
EpochsCountBlocks ==
  \A s \in Sides :
    counter[s].isolations = 0 => counter[s].epoch = counter[s].block \div PerEpoch

(* Epochs follow the blocks, and no block or merge makes one again.         *)
GlobalEpochsSound == [](MergesCount /\ EpochsCountBlocks) /\ EpochsFresh /\ MergesFresh

(* The validators agree on the random value and on the epoch it is for.    *)
ValidatorsSound == BeaconAgrees /\ GlobalEpochsSound
=============================================================================
