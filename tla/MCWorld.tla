------------------------------- MODULE MCWorld -------------------------------
(* The virtual root graph of the communities and the world of the players:  *)
(* managers that share no variable but the edges of the graph.  A step of   *)
(* one changes nothing another reads, so a behaviour picks a part and runs  *)
(* it alone.                                                                *)
EXTENDS Slashing, Bridge, Identity, Game, Guilds, Parties, Economy, TLC

CONSTANTS p1, p2, p3, p4, c1, c2, r1, r2, r3

VARIABLE part

graphVars == <<slashingVars, bridgeOnly, namesVars, avatarVars>>
boardsVars == <<partyVars, boardVars>>
trade == <<goldVars, hour, params, cells>>
societyVars == <<gameVars, guildVars, boardsVars, trade, authorVars>>

Short(reason) == 1

\* Of a transfer of 1 the second is kept, of longer ones not even the amount.
Kept32(amount, sec) == IF amount = 1 THEN <<1, sec>> ELSE <<2, 0>>

(* g invited d, d invited a, and a invited b, who invites c later.         *)
Branch ==
  /\ parent = [g |-> "g", d |-> "g", a |-> "d", b |-> "a"]
  /\ depth = [g |-> 0, d |-> 1, a |-> 2, b |-> 3]
  /\ children = [g |-> <<"d">>, d |-> <<"a">>, a |-> <<"b">>, b |-> <<>>]
  /\ bond = [g |-> 0, d |-> 90, a |-> 90, b |-> 90] /\ deposited = 270

GraphInit ==
  /\ IF part = "slashing" THEN Branch ELSE TreeInit /\ deposited = 0
  /\ EdgesInit /\ NamesInit /\ AvatarInit
  /\ blacklist = <<>> /\ slashing = NoSlashing /\ totalForfeited = 0 /\ excused = {}
  /\ chaosPool = [p \in Parties |-> 0] /\ moves = <<>> /\ asking = [c \in Callers |-> <<>>]
  /\ started = [p \in Parties |-> 0] /\ stuck = [p \in Parties |-> 0]
  /\ finished = [p \in Parties |-> 0]

GraphNext ==
  \/ /\ part = "tree" /\ \E c, p \in Communities, amount \in Bonds : Join(c, p, amount)
     /\ UNCHANGED <<bridgeOnly, namesVars, avatarVars>>
  \/ /\ part = "slashing" /\ SlashingNext
     /\ staked' = 2 * proposals'
     /\ "c" \in DOMAIN bond' => parent'["c"] = "b" /\ bond'["c"] = 90
     /\ UNCHANGED <<bridgeOnly, namesVars, avatarVars>>
  \/ /\ part = "bridge" /\ BridgeNext /\ proposals' <= 1
     /\ UNCHANGED <<treeVars, slashVars, namesVars, avatarVars>>
  \/ /\ part = "names" /\ NamesNext
     /\ UNCHANGED <<slashingVars, bridgeOnly, avatarVars>>
  \/ /\ \/ part = "avatar" /\ AvatarNext /\ roots' = <<>>
        \/ part = "roots" /\ AvatarNext
           /\ \A i \in DOMAIN requests' :
                requests'[i].data.op = "root" \/ (i = 1 /\ requests'[i].data = Adding(1))
     /\ UNCHANGED <<slashingVars, bridgeOnly, namesVars>>

SocietyInit ==
  /\ GameInit /\ GuildsInit /\ PartiesInit /\ BoardInit /\ GoldInit /\ AuthorInit
  /\ part = "gold" \/ params = [recharge |-> 4, withdraw |-> 4, cooldown |-> 0, limit |-> 3, mall |-> 1]

(* In one part the changes differ in the limit alone and meet no gold; in   *)
(* the other one announced change of all the parameters meets some gold.   *)
AuthorBound == \A c \in checked' : c.new.recharge = 4 /\ c.new.withdraw = 4 /\ c.new.cooldown = 0

EconomyBound ==
  /\ goldOps' <= 3 /\ proposed' <= 1 /\ dropped' = {} /\ repriced' = {}
  /\ \A c \in checked' : ~c.emergency /\ c.new.mall = params.mall

(* Who belongs to a guild, and as what, changes while it votes, and its    *)
(* officers spend what its proposals count on.                             *)
CouncilMembers ==
  \/ \E p \in Citizens : CreateGuild("cats", p)
  \/ \E g \in DOMAIN guilds, p \in Citizens :
       \/ JoinGuild(g, p) \/ LeaveGuild(g, p) \/ DepositToTreasury(g, p, 2) \/ WithdrawFromTreasury(g, p, 2)
       \/ \E q \in Citizens : PromoteMember(g, p, q, "officer")

(* Guilds that are made and named by a vote.                               *)
Naming ==
  /\ \/ \E p \in Citizens, name \in GuildNames : CreateGuild(name, p)
     \/ \E g \in DOMAIN guilds, p \in Citizens : JoinGuild(g, p) \/ DisbandGuild(g, p)
     \/ Council
  /\ \A g \in DOMAIN guilds' : \A k \in DOMAIN guilds'[g].proposals : guilds'[g].proposals[k].what.kind = "name"

WealthMembers ==
  \/ \E p \in Citizens : CreateGuild("cats", p)
  \/ \E g \in DOMAIN guilds, p \in Citizens :
       JoinGuild(g, p) \/ DisbandGuild(g, p) \/ \E q \in Citizens : PromoteMember(g, p, q, "officer")

SocietyNext ==
  \/ /\ \/ part = "market" /\ (Apply \/ Market) /\ Cardinality(DOMAIN players') <= 2
        \/ part = "asset" /\ (Apply \/ Market) /\ made' <= 1
        \/ part = "monsters" /\ Apply /\ Cardinality(DOMAIN players') <= 1
        \/ part = "places" /\ Gather
     /\ part \in {"market", "asset"} =>
          kills' = 0 /\ Len(listings') <= 2
     /\ UNCHANGED <<guildVars, boardsVars, trade, authorVars>>
  \/ /\ \/ part = "members" /\ Membership
        \/ part = "council" /\ (CouncilMembers \/ Council) /\ Len(deposits') <= 1
        \/ part = "naming" /\ Naming
        \/ part = "wealth" /\ (WealthMembers \/ Wealth) /\ Cardinality(DOMAIN guildOf') <= 2
     /\ part \in {"council", "wealth"} => founded' <= 1
     /\ UNCHANGED <<gameVars, boardsVars, trade, authorVars>>
  \/ /\ part = "parties" /\ PartiesNext
     /\ UNCHANGED <<gameVars, guildVars, boardVars, trade, authorVars>>
  \/ /\ part = "boards" /\ BoardNext
     /\ UNCHANGED <<gameVars, guildVars, partyVars, trade, authorVars>>
  \/ /\ part = "gold" /\ GoldNext
     /\ UNCHANGED <<gameVars, guildVars, boardsVars, authorVars>>
  \/ /\ \/ part = "author" /\ AuthorNext /\ AuthorBound /\ UNCHANGED goldVars
        \/ part = "economy" /\ EconomyNext /\ EconomyBound
     /\ UNCHANGED <<gameVars, guildVars, boardsVars>>

Init ==
  /\ part \in {"tree", "slashing", "bridge", "names", "avatar", "roots",
               "market", "asset", "monsters", "places", "members", "council", "naming", "wealth",
               "parties", "boards", "gold", "author", "economy"}
  /\ GraphInit /\ SocietyInit

Next ==
  /\ UNCHANGED part
  /\ \/ GraphNext /\ UNCHANGED societyVars
     \/ SocietyNext /\ UNCHANGED graphVars

Spec == Init /\ [][Next]_<<part, graphVars, societyVars>>

Sym == Permutations({p1, p2, p3}) \cup Permutations({c1, c2})
=============================================================================
