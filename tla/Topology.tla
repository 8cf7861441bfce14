------------------------------ MODULE Topology -------------------------------
(***************************************************************************)
(* The tree of invitations between communities (x/vrg/topology.go): who    *)
(* invited whom, the bonds, and what is computed from them, the lowest     *)
(* common ancestor, the distance and who may clear with whom.  The climbs  *)
(* of the code are recursive functions here.                               *)
(***************************************************************************)
EXTENDS Integers, Sequences, FiniteSets, FiniteSetsExt, SequencesExt

CONSTANTS Communities, Root, Bonds,
          MaxDistance, MinSecurityCoeff  \* TrustThreshold

ASSUME TopologyAssumption ==
  /\ Root \in Communities /\ Bonds \subseteq Nat
  /\ MaxDistance \in Nat /\ MinSecurityCoeff \in Nat

VARIABLES parent, depth, children, bond  \* of the communities in the tree

treeVars == <<parent, depth, children, bond>>

Known == DOMAIN bond

TreeInit ==
  /\ parent = [c \in {Root} |-> Root] /\ depth = [c \in {Root} |-> 0]
  /\ children = [c \in {Root} |-> <<>>] /\ bond = [c \in {Root} |-> 0]

With(f, c, v) == [x \in DOMAIN f \cup {c} |-> IF x = c THEN v ELSE f[x]]

\* A node that is put at its inviter's own depth.
BelowSame(p) == depth[p]

Below(p) == depth[p] + 1

AddCommunity(c, p, amount) ==
  /\ p \in Known /\ c \notin Known
  /\ parent' = With(parent, c, p) /\ bond' = With(bond, c, amount)
  /\ depth' = With(depth, c, Below(p))
  /\ children' = With([children EXCEPT ![p] = Append(@, c)], c, <<>>)

-----------------------------------------------------------------------------
(* From the root to c, c included.                                         *)
AncestorChain(c) ==
  LET chain[x \in Known] == IF depth[x] = 0 THEN <<x>> ELSE Append(chain[parent[x]], x)
  IN  chain[c]

\* The climb when it does not level the depths first.
LCAUnlevelled(a, b) ==
  LET climb[p \in Known \X Known] ==
        IF p[1] = p[2] \/ Root \in {p[1], p[2]} THEN p[1]
        ELSE climb[<<parent[p[1]], parent[p[2]]>>]
  IN  climb[<<a, b>>]

(* The deeper one climbs to the depth of the other, then both climb.       *)
Up(p) ==
  IF depth[p[1]] > depth[p[2]] THEN <<parent[p[1]], p[2]>>
  ELSE IF depth[p[2]] > depth[p[1]] THEN <<p[1], parent[p[2]]>>
  ELSE <<parent[p[1]], parent[p[2]]>>

LCA(a, b) ==
  LET climb[p \in Known \X Known] == IF p[1] = p[2] THEN p[1] ELSE climb[Up(p)]
  IN  climb[<<a, b>>]

Distance(a, b) == depth[a] + depth[b] - 2 * depth[LCA(a, b)]

MinBond(a, b) == IF bond[a] < bond[b] THEN bond[a] ELSE bond[b]

Spread(a, b) == LET d == 1 + Distance(a, b) IN d * d

\* The coefficient of the larger bond.
SecureByMax(a, b) ==
  bond[a] + bond[b] - MinBond(a, b) >= MinSecurityCoeff * Spread(a, b)

(* The security coefficient is the smaller bond over (1 + distance)^2.     *)
Secure(a, b) == MinBond(a, b) >= MinSecurityCoeff * Spread(a, b)

CanClearMacro(a, b) == Distance(a, b) <= MaxDistance \/ Secure(a, b)

Subtree(c) ==
  LET sub[n \in 0..Cardinality(Known)] ==
        [x \in Known |-> {x} \cup (IF n = 0 THEN {} ELSE UNION {sub[n - 1][y] : y \in ToSet(children[x])})]
  IN  sub[Cardinality(Known)][c]

-----------------------------------------------------------------------------
Ancestors(c) == ToSet(AncestorChain(c))

(* For every tree and every pair the climb finds the deepest of the        *)
(* ancestors they share, and the subtree of a community is those who have  *)
(* it for an ancestor: the two directions of the links agree.              *)
LCACorrect ==
  LET above == [a \in Known |-> Ancestors(a)]
      below == [a \in Known |-> Subtree(a)]
  IN  /\ above \in [Known -> SUBSET Known] /\ below \in [Known -> SUBSET Known]
      /\ \A a, b \in Known :
           LET shared == above[a] \cap above[b]
               lca == LCA(a, b)
           IN  /\ lca \in shared /\ \A x \in shared : depth[x] <= depth[lca]
               /\ b \in below[a] <=> a \in above[b]

(* The distance is one of a graph: it is zero only from a community to     *)
(* itself, one along an invitation, and no detour is shorter.              *)
DistanceMetric ==
  LET d == [pair \in Known \X Known |-> Distance(pair[1], pair[2])]
  IN  /\ d \in [Known \X Known -> Nat]
      /\ \A a, b \in Known :
           /\ d[<<a, b>>] = 0 <=> a = b
           /\ parent[a] = b /\ a # Root => d[<<a, b>>] = 1
      /\ \A a, b, c \in Known : d[<<a, c>>] <= d[<<a, b>>] + d[<<b, c>>]

(* A pair that is at least as near and has at least the bonds of a pair    *)
(* that may clear may clear as well.                                       *)
NearerClears ==
  LET pairs == {[d |-> Distance(a, b), bond |-> MinBond(a, b), clears |-> CanClearMacro(a, b)] :
                  a \in Known, b \in Known}
  IN  \A p, q \in pairs : p.clears /\ q.d <= p.d /\ q.bond >= p.bond => q.clears

-----------------------------------------------------------------------------
(* The diplomatic edges of x/vrg/namespace.go: proposed, activated,        *)
(* frozen, thawed and severed, each under the manager's lock.  The ID of   *)
(* an edge is made of its parties and of the second it is proposed in, so  *)
(* a second proposal within a second replaces the first.                   *)
CONSTANTS Parties, Stakes,
          MaxTime, MaxEdges  \* bounds of the model: seconds and proposals

ASSUME EdgesAssumption ==
  Stakes \subseteq Nat /\ IsFiniteSet(Parties) /\ MaxTime \in Nat /\ MaxEdges \in Nat

VARIABLES now, edges,     \* by ID <<party A, party B, second>>
          proposals,      \* history: how many there were
          openAt,         \* history: by ID, edges of the same parties that were
                          \* open, but not active, when it was proposed
          staked, slashed, displaced  \* history: stakes proposed, slashed, and
                                      \* gone with an edge that was replaced

edgeHistory == <<proposals, openAt, staked, slashed, displaced>>
edgesVars == <<now, edges, edgeHistory>>

EdgesInit ==
  /\ now = 0 /\ edges = <<>> /\ proposals = 0 /\ openAt = <<>>
  /\ staked = 0 /\ slashed = 0 /\ displaced = 0

Tick == now < MaxTime /\ now' = now + 1 /\ UNCHANGED <<edges, edgeHistory>>

Status(id) == edges[id].status
Total(id) == edges[id].bondA + edges[id].bondB
PartiesOf(id) == {id[1], id[2]}

\* Edges the other party proposed are not looked at.
BetweenOneWay(a, b) == {id \in DOMAIN edges : id[1] = a /\ id[2] = b}

Between(a, b) == {id \in DOMAIN edges : PartiesOf(id) = {a, b}}

ProposeEdge(a, b, bondA, bondB) ==
  /\ proposals < MaxEdges /\ proposals' = proposals + 1
  /\ \A id \in Between(a, b) : Status(id) # "active"
  /\ LET new == <<a, b, now>>
         open == {id \in DOMAIN edges \ {new} :
                    PartiesOf(id) = {a, b} /\ Status(id) \in {"proposed", "frozen"}}
     IN  /\ edges' = [id \in DOMAIN edges \cup {new} |->
                        IF id = new THEN [bondA |-> bondA, bondB |-> bondB, status |-> "proposed"]
                        ELSE edges[id]]
         /\ openAt' = [id \in DOMAIN edges' |-> IF id = new THEN open ELSE openAt[id]]
         /\ displaced' = displaced + (IF new \in DOMAIN edges THEN Total(new) ELSE 0)
  /\ staked' = staked + bondA + bondB
  /\ UNCHANGED <<now, slashed>>

SetEdge(id, status) ==
  edges' = [edges EXCEPT ![id].status = status] /\ UNCHANGED <<now, edgeHistory>>

\* Both must have staked something.
ActivateEdge(id) ==
  /\ Status(id) = "proposed" /\ edges[id].bondA > 0 /\ edges[id].bondB > 0
  /\ SetEdge(id, "active")

FreezeEdge(id) == Status(id) = "active" /\ SetEdge(id, "frozen")

ThawEdge(id) == Status(id) = "frozen" /\ SetEdge(id, "active")

MaySever(id) == Status(id) \in {"active", "frozen"}

\* The stake of the violating party is slashed and stays with the edge.
SeveredKeeps(id, party) == [edges[id] EXCEPT !.status = "severed"]

Severed(id, party) ==
  [edges[id] EXCEPT !.status = "severed",
                    !.bondA = IF party = id[1] THEN 0 ELSE @,
                    !.bondB = IF party = id[1] THEN @ ELSE 0]

SeverEdge(id, party) ==
  /\ MaySever(id) /\ party \in PartiesOf(id)
  /\ edges' = [edges EXCEPT ![id] = Severed(id, party)]
  /\ slashed' = slashed + (IF party = id[1] THEN edges[id].bondA ELSE edges[id].bondB)
  /\ UNCHANGED <<now, proposals, openAt, staked, displaced>>

EdgeOps ==
  \/ Tick
  \/ \E a, b \in Parties : a # b /\ \E bondA, bondB \in Stakes : ProposeEdge(a, b, bondA, bondB)
  \/ \E id \in DOMAIN edges :
       \/ ActivateEdge(id) \/ FreezeEdge(id) \/ ThawEdge(id)
       \/ \E party \in PartiesOf(id) : SeverEdge(id, party)

-----------------------------------------------------------------------------
(* Two edges between the same parties are active only if one of them was   *)
(* proposed while the other was open: frozen, or proposed and not active   *)
(* yet.  Proposals look for active edges only, and activation and thawing  *)
(* look for none.                                                          *)
TwinsExplained ==
  \A e, f \in DOMAIN edges :
    e # f /\ PartiesOf(e) = PartiesOf(f) /\ Status(e) = "active" /\ Status(f) = "active" =>
      e \in openAt[f] \/ f \in openAt[e]

(* No stake is lost but by a proposal that replaces one of the same        *)
(* second, and none is slashed twice.                                      *)
StakesConserved ==
  staked = slashed + displaced + SumFunction([id \in DOMAIN edges |-> Total(id)])

(* The climbs through the tree agree with the graph they are about, and    *)
(* the edges between the communities keep their stakes.                    *)
GraphSound ==
  /\ LCACorrect /\ DistanceMetric /\ NearerClears
  /\ TwinsExplained /\ StakesConserved
=============================================================================
