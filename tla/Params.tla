-------------------------------- MODULE Params -------------------------------
(***************************************************************************)
(* The economic parameters of x/brightchain/keeper/game_economy.go and the *)
(* votes on them.  UpdateActiveUserCount computes the new value under the  *)
(* lock by a function that takes the same lock again: the caller hangs,    *)
(* and so does everybody who needs the lock afterwards.                    *)
(***************************************************************************)
EXTENDS Integers, Sequences, FiniteSets

CONSTANTS Proposers,   \* by the prefix of their name an ID has room for
          PBase,                 \* 1000
          UpdateInterval,        \* 14400 blocks
          VotingDelay, VotingLen, TransitionBlocks,  \* 14400, 100800, 432000
          Quorum,                \* 500
          Weights,               \* trust weights that votes name
          NewValues,             \* proposed values, 0 for none
          EndHeight, MaxVotes, MaxProposals, MaxTallies  \* bounds of the model

ASSUME ParamsAssumption ==
  /\ {PBase, UpdateInterval, VotingDelay, VotingLen, TransitionBlocks, Quorum, EndHeight,
      MaxVotes, MaxProposals, MaxTallies} \subseteq Nat
  /\ Weights \subseteq Nat /\ NewValues \subseteq Nat

VARIABLES at,        \* the height callers pass
          pValue, target, transition, updated, adaptive,
          hung,      \* a caller of UpdateActiveUserCount holds the lock for ever
          ballots,   \* proposals by proposer and height, each with the number
                     \* of its tallies and executions
          votes, submitted

paramsVars == <<at, pValue, target, transition, updated, adaptive, hung, ballots, votes, submitted>>
values == <<pValue, target, transition, updated, adaptive>>

ParamsInit ==
  /\ at = 0 /\ pValue = PBase /\ target = 0 /\ transition = <<0, 0>> /\ updated = 0
  /\ adaptive = TRUE /\ hung = FALSE /\ ballots = <<>> /\ votes = 0 /\ submitted = 0

PassHeight ==
  /\ at < EndHeight /\ at' = at + 1
  /\ UNCHANGED <<values, hung, ballots, votes, submitted>>

-----------------------------------------------------------------------------
(* The caller waits for itself before a value is assigned: after the first *)
(* interval, in which the value is only read.                              *)
UpdateActiveUserCount ==
  /\ ~hung /\ at - updated >= UpdateInterval
  /\ updated' = at /\ hung' = TRUE
  /\ UNCHANGED <<at, pValue, target, transition, adaptive, ballots, votes, submitted>>

-----------------------------------------------------------------------------
(* SubmitProposal: a second one in the same block takes the first's place. *)
SubmitProposal(p, value, toggle) ==
  /\ ~hung /\ submitted < MaxProposals /\ submitted' = submitted + 1
  /\ LET b == [value |-> value, toggle |-> toggle, start |-> at + VotingDelay,
               end |-> at + VotingDelay + VotingLen, yes |-> 0, no |-> 0, status |-> "voting",
               tallied |-> 0, executed |-> 0] IN
     ballots' = [i \in DOMAIN ballots \cup {<<p, at>>} |-> IF i = <<p, at>> THEN b ELSE ballots[i]]
  /\ UNCHANGED <<at, values, hung, votes>>

\* A vote without a look at the dates.
OpenAlways(b) == b.status = "voting"

Open(b) == b.status = "voting" /\ at >= b.start /\ at <= b.end

(* Vote: the weight is the caller's, and nobody notes who has voted.       *)
Vote(i, support, weight) ==
  /\ ~hung /\ Open(ballots[i]) /\ votes < MaxVotes /\ votes' = votes + 1
  /\ ballots' = IF support THEN [ballots EXCEPT ![i].yes = @ + weight]
                ELSE [ballots EXCEPT ![i].no = @ + weight]
  /\ UNCHANGED <<at, values, hung, submitted>>

\* A tally that does not ask for a quorum.
PassesAnyway(b) == 2 * b.yes >= b.yes + b.no

Passes(b) == b.yes + b.no >= Quorum /\ 2 * b.yes >= b.yes + b.no

(* TallyProposal looks at the date only: what was executed is tallied again.*)
TallyProposal(i) ==
  /\ ~hung /\ at > ballots[i].end /\ ballots[i].tallied < MaxTallies
  /\ ballots' = [ballots EXCEPT
       ![i].status = IF Passes(ballots[i]) THEN "passed" ELSE "rejected", ![i].tallied = @ + 1]
  /\ UNCHANGED <<at, values, hung, votes, submitted>>

\* An execution that leaves the status.
Executed(b) == [b EXCEPT !.executed = @ + 1]

Done(b) == [b EXCEPT !.status = "executed", !.executed = @ + 1]

(* ExecuteProposal; of the values only the first one goes anywhere.        *)
ExecuteProposal(i) ==
  /\ ~hung /\ ballots[i].status = "passed"
  /\ transition' = <<at, at + TransitionBlocks>>
  /\ target' = IF ballots[i].value > 0 THEN ballots[i].value ELSE pValue
  /\ adaptive' = IF ballots[i].toggle = "keep" THEN adaptive ELSE ballots[i].toggle = "on"
  /\ ballots' = [ballots EXCEPT ![i] = Done(@)]
  /\ UNCHANGED <<at, pValue, updated, hung, votes, submitted>>

Toggles == {"keep", "on", "off"}
ParamsNext ==
  \/ PassHeight
  \/ UpdateActiveUserCount
  \/ \E p \in Proposers, v \in NewValues, t \in Toggles : SubmitProposal(p, v, t)
  \/ \E i \in DOMAIN ballots :
       \/ TallyProposal(i) \/ ExecuteProposal(i)
       \/ \E s \in BOOLEAN, w \in Weights : Vote(i, s, w)

ParamsSpec == ParamsInit /\ [][ParamsNext]_paramsVars

-----------------------------------------------------------------------------
(* What has passed or was executed has a quorum and half of the votes, at  *)
(* the time and as long as it stands.                                      *)
PassedByVotes ==
  \A i \in DOMAIN ballots : ballots[i].status \in {"passed", "executed"} =>
    /\ ballots[i].yes + ballots[i].no >= Quorum
    /\ 2 * ballots[i].yes >= ballots[i].yes + ballots[i].no

(* The votes of a ballot change in its voting time only, unless a proposal *)
(* of the same ID has taken its place.                                     *)
VotesClosed ==
  [][\A i \in DOMAIN ballots :
       (i \in DOMAIN ballots' /\ <<ballots'[i].yes, ballots'[i].no>> # <<ballots[i].yes, ballots[i].no>>) =>
         at \in ballots[i].start..ballots[i].end \/ ballots'[i].end > ballots[i].end
         \/ submitted' # submitted]_paramsVars

(* Every execution follows a tally of the same ballot, one for each: what  *)
(* was executed and tallied again is executed again, and its transition    *)
(* begins anew.                                                            *)
ExecutionsTallied == \A i \in DOMAIN ballots : ballots[i].executed <= ballots[i].tallied

(* Parameters change by votes that were counted and closed, if ever.       *)
ParamsSound ==
  [](PassedByVotes /\ ExecutionsTallied) /\ VotesClosed
==============================================================================
