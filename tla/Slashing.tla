------------------------------ MODULE Slashing -------------------------------
(***************************************************************************)
(* Slashing of a whole community (x/vrg/slashing.go): its bond, a share of *)
(* the bonds of its ancestors, its edges, the blacklist and the appeal.    *)
(* The manager's lock covers a slashing, but not the edges, whose manager  *)
(* has its own: it lists them and severs them one by one while others      *)
(* freeze, thaw and propose.                                               *)
(***************************************************************************)
EXTENDS Topology

CONSTANTS Reasons, Cooldown(_), Final,  \* Final: reasons without appeal
          Offenders  \* bound of the model: who may be slashed

ASSUME SlashingAssumption == Final \subseteq Reasons /\ \A r \in Reasons : Cooldown(r) \in Nat

VARIABLES blacklist,       \* [reason, until] by community
          slashing,        \* the slashing under way
          totalForfeited,
          deposited,       \* history: bonds that were brought into the tree
          excused          \* history: <<community, edge>>, edges that were not
                           \* active at their turn or proposed too late for it

slashVars == <<blacklist, slashing, totalForfeited, deposited, excused>>
slashingVars == <<treeVars, edgesVars, slashVars>>

NoSlashing == [pc |-> "none"]

SlashingInit ==
  /\ TreeInit /\ EdgesInit
  /\ blacklist = <<>> /\ slashing = NoSlashing /\ totalForfeited = 0
  /\ deposited = 0 /\ excused = {}

Join(c, p, amount) ==
  /\ AddCommunity(c, p, amount) /\ deposited' = deposited + amount
  /\ UNCHANGED <<edgesVars, blacklist, slashing, totalForfeited, excused>>

Percent(level) == IF level = 1 THEN 30 ELSE IF level = 2 THEN 15 ELSE 5

(* The level is the place in the chain that starts at the root: the root   *)
(* itself is skipped, and level 1 is its child, not the inviter.           *)
Levels(c) == 1..(IF depth[c] < 3 THEN depth[c] ELSE 3)
AtLevel(c, level) == AncestorChain(c)[level + 1]

Share(x, level) == (bond[x] * Percent(level)) \div 100

\* The shares taken in both passes.
ForfeitTwice(c, x) ==
  IF x = c THEN bond[c]
  ELSE SumFunction([level \in Levels(c) |-> IF AtLevel(c, level) = x THEN 2 * Share(x, level) ELSE 0])

(* What x loses when c is slashed.                                         *)
Forfeit(c, x) ==
  IF x = c THEN bond[c]
  ELSE SumFunction([level \in Levels(c) |-> IF AtLevel(c, level) = x THEN Share(x, level) ELSE 0])

\* The bond of c is still there when the walk comes to c itself.
CollectedTwice(c) ==
  bond[c] + SumFunction([level \in Levels(c) |-> Share(AtLevel(c, level), level)])

(* What is counted: the walk ends at c, whose bond is zero by then.        *)
Collected(c) ==
  bond[c] + SumFunction([level \in Levels(c) |->
                           IF AtLevel(c, level) = c THEN 0 ELSE Share(AtLevel(c, level), level)])

\* Only the edges that c proposed.
EdgesOfProposer(c) == {id \in DOMAIN edges : id[1] = c}

EdgesOf(c) == {id \in DOMAIN edges : c \in PartiesOf(id)}

(* The bonds, and the edges with the ancestors.                            *)
SlashBegin(c, reason) ==
  /\ slashing = NoSlashing /\ c \in Known \ DOMAIN blacklist
  /\ bond' = [x \in Known |-> bond[x] - Forfeit(c, x)]
  /\ totalForfeited' = totalForfeited + Collected(c)
  /\ slashing' = [pc |-> "ancestors", c |-> c, reason |-> reason, at |-> now,
                  todo |-> {id \in EdgesOf(c) : \E level \in Levels(c) :
                              AtLevel(c, level) \in PartiesOf(id)}]
  /\ excused' = {x \in excused : x[1] # c}
  /\ UNCHANGED <<parent, depth, children, edgesVars, blacklist, deposited>>

Cuts(id) == Status(id) = "active"

SlashEdge(id) ==
  /\ slashing.pc \in {"ancestors", "own"} /\ id \in slashing.todo
  /\ slashing' = [slashing EXCEPT !.todo = @ \ {id}]
  /\ IF Cuts(id) THEN SeverEdge(id, slashing.c) /\ UNCHANGED excused
     ELSE UNCHANGED edgesVars /\ excused' = excused \cup {<<slashing.c, id>>}
  /\ UNCHANGED <<treeVars, blacklist, totalForfeited, deposited>>

SlashOwnEdges ==
  /\ slashing.pc = "ancestors" /\ slashing.todo = {}
  /\ slashing' = [slashing EXCEPT !.pc = "own", !.todo = EdgesOf(slashing.c)]
  /\ UNCHANGED <<treeVars, edgesVars, blacklist, totalForfeited, deposited, excused>>

SlashEnd ==
  /\ slashing.pc = "own" /\ slashing.todo = {}
  /\ blacklist' = [c \in DOMAIN blacklist \cup {slashing.c} |->
                     IF c = slashing.c
                     THEN [reason |-> slashing.reason, until |-> slashing.at + Cooldown(slashing.reason)]
                     ELSE blacklist[c]]
  /\ slashing' = NoSlashing
  /\ UNCHANGED <<treeVars, edgesVars, totalForfeited, deposited, excused>>

MayReturn(c) == blacklist[c].reason \notin Final /\ now >= blacklist[c].until

RemoveFromBlacklist(c) ==
  /\ slashing = NoSlashing /\ MayReturn(c)
  /\ blacklist' = [x \in DOMAIN blacklist \ {c} |-> blacklist[x]]
  /\ UNCHANGED <<treeVars, edgesVars, slashing, totalForfeited, deposited, excused>>

(* An edge that is proposed after the list of the edges was made.          *)
Diplomacy ==
  /\ EdgeOps
  /\ excused' = excused \cup
       {x \in Communities \X DOMAIN edges' :
          /\ proposals' # proposals /\ x[1] \in PartiesOf(x[2])
          /\ x[2] \notin DOMAIN edges \/ edges'[x[2]] # edges[x[2]]
          /\ x[1] \in DOMAIN blacklist \/ (slashing.pc = "own" /\ slashing.c = x[1])}
  /\ UNCHANGED <<treeVars, blacklist, slashing, totalForfeited, deposited>>

SlashingNext ==
  \/ \E c, p \in Communities, amount \in Bonds : Join(c, p, amount)
  \/ \E c \in Offenders, reason \in Reasons : SlashBegin(c, reason)
  \/ \E id \in DOMAIN edges : SlashEdge(id)
  \/ SlashOwnEdges \/ SlashEnd
  \/ \E c \in DOMAIN blacklist : RemoveFromBlacklist(c)
  \/ Diplomacy

SlashingSpec == SlashingInit /\ [][SlashingNext]_slashingVars

-----------------------------------------------------------------------------
(* Every unit of a bond is with its community or counted as forfeited.     *)
BondsConserved ==
  deposited = totalForfeited + SumFunction(bond)

(* A blacklisted community has no active edge but those that were frozen   *)
(* or not active yet when it was slashed, or that it got afterwards:       *)
(* slashing passes over frozen edges, and they can be thawed.              *)
BlacklistCut ==
  \A c \in DOMAIN blacklist : \A id \in DOMAIN edges :
    c \in PartiesOf(id) /\ Status(id) = "active" => <<c, id>> \in excused

(* Nobody loses a bond but the slashed community, all of it, and its       *)
(* ancestors below the root, at most 30 percent.                           *)
LiableOnly ==
  [][\A x \in Known : bond'[x] # bond[x] =>
       LET c == slashing'.c IN
       \/ x = c /\ bond'[x] = 0
       \/ /\ x \in Ancestors(c) \ {Root}
          /\ 100 * (bond[x] - bond'[x]) <= 30 * bond[x]]_slashingVars

(* A slashing, which takes several steps, loses no bond, leaves the one it *)
(* is about no edge it could cut, and takes nothing from bystanders.       *)
SlashingSound == [](BondsConserved /\ BlacklistCut) /\ LiableOnly
=============================================================================
