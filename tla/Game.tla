--------------------------------- MODULE Game --------------------------------
(***************************************************************************)
(* The players' state machine of app/game/state/machine.go, under its one  *)
(* mutex: gold, levels, inventories and the market.  Direct trades go by   *)
(* the owner of an asset, the market by the inventory it was listed from,  *)
(* and an inventory that is full takes nothing in.  An asset is named by   *)
(* the nanosecond of its making, one number here.                          *)
(***************************************************************************)
EXTENDS Integers, Sequences, FiniteSets, SequencesExt, FiniteSetsExt, Functions

CONSTANTS Players, Regions, Activities,
          StartGold, MaxGold, MaxSlots, RegionLimit, MaxLevel, XPPerLevel,
          MonsterXP, MonsterGold,    \* by level: 10 and 5
          CraftCost, MallCost,       \* for no amount: 50 and 100
          Brief,                     \* the players whose names have less than eight bytes
          XPWidth,                   \* 2^64
          Timeout,                   \* ActivityTimeoutSecs
          Prices, Gains,             \* amounts of the callers: prices; XP of a monster
          MaxAssets, MaxKills, MaxSeconds  \* bounds of the model

ASSUME GameAssumption ==
  /\ IsFiniteSet(Players) /\ Prices \subseteq Nat /\ Gains \subseteq Nat /\ XPWidth \in Nat \ {0}
  /\ {StartGold, MaxGold, MaxSlots, RegionLimit, MaxLevel, XPPerLevel, MonsterXP, MonsterGold, CraftCost,
      MallCost, Timeout, MaxAssets, MaxKills, MaxSeconds} \subseteq Nat

VARIABLES players,    \* [gold, level, xp, inventory] of those that were seen
          owner,      \* by asset: 1, 2, ..., as they were made
          listings, regions, activities, second,
          \* history: gold given and gold spent on items, lost at the limit;
          \* payments for nothing; XP given; kills; payments for items;
          \* assets that were traded while they were listed
          earned, spent, capped, vain, gained, kills, made, crossed

gameWorld == <<regions, activities, second>>
gameVars == <<players, owner, listings, gameWorld, earned, spent, capped, vain, gained, kills, made, crossed>>

GameInit ==
  /\ players = <<>> /\ owner = <<>> /\ listings = <<>> /\ second = 0
  /\ regions = <<>> /\ activities = <<>>
  /\ earned = 0 /\ spent = 0 /\ capped = 0 /\ vain = {} /\ kills = 0 /\ made = 0
  /\ gained = [p \in Players |-> 0] /\ crossed = {}

Ensured(p) ==
  [q \in DOMAIN players \cup {p} |->
     IF q \in DOMAIN players THEN players[q] ELSE [gold |-> StartGold, level |-> 1, xp |-> 0, inventory |-> <<>>]]

\* addGold: what is above the limit is lost.
Excess(gold) == IF gold > MaxGold THEN gold - MaxGold ELSE 0
Credit(ps, p, n) == [ps EXCEPT ![p].gold = @ + n - Excess(@ + n)]

\* The gold is looked at and not taken.
DebitNothing(ps, p, n) == ps

Debit(ps, p, n) == [ps EXCEPT ![p].gold = @ - n]

\* A level whose XP are taken at the rate of the next one.
RaisedLate(one, n) ==
  LET xp == (one.xp + n) % XPWidth IN
  IF xp >= one.level * XPPerLevel /\ one.level < MaxLevel
  THEN [one EXCEPT !.level = @ + 1, !.xp = xp - (one.level + 1) * XPPerLevel]
  ELSE [one EXCEPT !.xp = xp]

\* addXP: one level at most.
Raised(one, n) ==
  LET xp == (one.xp + n) % XPWidth IN
  IF xp >= one.level * XPPerLevel /\ one.level < MaxLevel
  THEN [one EXCEPT !.level = @ + 1, !.xp = xp - one.level * XPPerLevel]
  ELSE [one EXCEPT !.xp = xp]

AddPlayer(p) ==
  /\ p \notin DOMAIN players /\ players' = Ensured(p)
  /\ UNCHANGED <<owner, listings, gameWorld, earned, spent, capped, vain, gained, kills, made, crossed>>

KillMonster(p, amount) ==
  LET before == Ensured(p)
      xp == IF amount = 0 THEN before[p].level * MonsterXP ELSE amount
      up == [before EXCEPT ![p] = Raised(@, xp)]
      gold == up[p].level * MonsterGold IN
  /\ kills < MaxKills /\ kills' = kills + 1
  /\ players' = Credit(up, p, gold)
  /\ gained' = [gained EXCEPT ![p] = @ + xp]
  /\ earned' = earned + gold /\ capped' = capped + Excess(up[p].gold + gold)
  /\ UNCHANGED <<owner, listings, gameWorld, spent, vain, made, crossed>>

\* An asset that goes into the inventory of p when there is room.
Taken(ps, p, a) == IF Len(ps[p].inventory) < MaxSlots THEN [ps EXCEPT ![p].inventory = Append(@, a)] ELSE ps

\* The loop that keeps every other asset.
Others(inventory, a) ==
  LET kept[i \in 0..Len(inventory)] ==
        IF i = 0 THEN <<>> ELSE IF inventory[i] = a THEN kept[i - 1] ELSE Append(kept[i - 1], inventory[i]) IN
  kept[Len(inventory)]

Dropped(ps, p, a) == [ps EXCEPT ![p].inventory = Others(@, a)]

\* No record of an asset that finds no slot.
MadeIfRoom(p, a) ==
  [b \in DOMAIN owner \cup (IF Len(Ensured(p)[p].inventory) < MaxSlots THEN {a} ELSE {}) |-> IF b = a THEN p ELSE owner[b]]

Made(p, a) == [b \in DOMAIN owner \cup {a} |-> IF b = a THEN p ELSE owner[b]]

(* The name of the asset begins with eight bytes of the player's, and the  *)
(* slice of a shorter name panics: the gold is gone, the lock released.    *)
Pay(p, cost) ==
  LET before == Ensured(p) paid == Debit(before, p, cost) a == made + 1 IN
  /\ made < MaxAssets
  /\ \/ /\ before[p].gold < cost
        /\ players' = before /\ UNCHANGED <<owner, made, spent, vain>>
     \/ /\ before[p].gold >= cost
        /\ made' = a /\ spent' = spent + cost
        /\ IF p \in Brief THEN players' = paid /\ vain' = vain \cup {a} /\ UNCHANGED owner
           ELSE players' = Taken(paid, p, a) /\ owner' = Made(p, a) /\ UNCHANGED vain
  /\ UNCHANGED <<listings, gameWorld, earned, capped, gained, kills, crossed>>

\* Each takes the caller's price, and its own for no price.
CraftMaterial(p, amount) == Pay(p, IF amount = 0 THEN CraftCost ELSE amount)

PurchaseMall(p, amount) == Pay(p, IF amount = 0 THEN MallCost ELSE amount)

Listed == {listings[i].asset : i \in DOMAIN listings}

\* The asset leaves no inventory.
TradedTwice(ps, p, q, a) == Taken(ps, q, a)

Traded(ps, p, q, a) == Taken(Dropped(ps, p, a), q, a)

\* The buyer is created even when nothing comes of the trade.
Trade(p, q, a, price) ==
  LET before == Ensured(q) IN
  /\ p \in DOMAIN players
  /\ IF a \in DOMAIN owner /\ owner[a] = p /\ before[q].gold >= price
     THEN LET paid == Debit(before, q, price) IN
          /\ players' = Traded(Credit(paid, p, price), p, q, a)
          /\ owner' = [owner EXCEPT ![a] = q]
          /\ capped' = capped + Excess(paid[p].gold + price)
          /\ crossed' = IF a \in Listed THEN crossed \cup {a} ELSE crossed
     ELSE players' = before /\ UNCHANGED <<owner, capped, crossed>>
  /\ UNCHANGED <<listings, gameWorld, earned, spent, vain, gained, kills, made>>

\* Listed from no inventory but by the owner alone.
MayListOwned(p, a) == a \in DOMAIN owner /\ owner[a] = p

MayList(p, a) == a \in DOMAIN owner /\ owner[a] = p /\ \E i \in DOMAIN players[p].inventory : players[p].inventory[i] = a

ListMarketItem(p, a, price) ==
  /\ price > 0 /\ p \in DOMAIN players /\ MayList(p, a)
  /\ players' = Dropped(players, p, a)
  /\ listings' = Append(listings, [asset |-> a, seller |-> p, price |-> price])
  /\ UNCHANGED <<owner, gameWorld, earned, spent, capped, vain, gained, kills, made, crossed>>

FindListing(a) == CHOOSE i \in DOMAIN listings : listings[i].asset = a /\ \A j \in 1..i - 1 : listings[j].asset # a

BuyMarketItem(p, a) ==
  /\ p \in DOMAIN players /\ a \in Listed
  /\ LET i == FindListing(a) l == listings[i] paid == Debit(players, p, l.price) IN
     /\ p # l.seller /\ players[p].gold >= l.price
     /\ players' = Taken(Credit(paid, l.seller, l.price), p, a)
     /\ owner' = [owner EXCEPT ![a] = p]
     /\ capped' = capped + Excess(players[l.seller].gold + l.price)
     /\ listings' = RemoveAt(listings, i)
  /\ UNCHANGED <<gameWorld, earned, spent, vain, gained, kills, made, crossed>>

CancelMarketListing(p, a) ==
  /\ p \in DOMAIN players /\ a \in Listed
  /\ LET i == FindListing(a) IN
     /\ listings[i].seller = p
     /\ players' = Taken(players, p, a)
     /\ listings' = RemoveAt(listings, i)
  /\ UNCHANGED <<owner, gameWorld, earned, spent, capped, vain, gained, kills, made, crossed>>

-----------------------------------------------------------------------------
(* Regions and activities: lists of players that nothing else reads.       *)

Inside(r) == IF r \in DOMAIN regions THEN regions[r] ELSE <<>>
PlacedIn(r, list) == regions' = [s \in DOMAIN regions \cup {r} |-> IF s = r THEN list ELSE regions[s]]
worldSame == <<owner, listings, earned, spent, capped, vain, gained, kills, made, crossed>>

\* The place is taken though the player has one.
EnteredAgain(r, p) == IF Len(Inside(r)) < RegionLimit THEN Append(Inside(r), p) ELSE Inside(r)

Entered(r, p) ==
  IF Len(Inside(r)) < RegionLimit /\ p \notin Range(Inside(r)) THEN Append(Inside(r), p) ELSE Inside(r)

EnterRegion(p, r) ==
  /\ players' = Ensured(p) /\ PlacedIn(r, Entered(r, p)) /\ UNCHANGED <<activities, second, worldSame>>

\* The first of several, if there were several.
Left(list, p) ==
  IF p \in Range(list) THEN RemoveAt(list, CHOOSE i \in DOMAIN list : list[i] = p /\ \A j \in 1..i - 1 : list[j] # p) ELSE list

LeaveRegion(p, r) ==
  /\ players' = Ensured(p)
  /\ regions' = [s \in DOMAIN regions |-> IF s = r THEN Left(regions[s], p) ELSE regions[s]]
  /\ UNCHANGED <<activities, second, worldSame>>

Second ==
  /\ second < MaxSeconds /\ second' = second + 1 /\ UNCHANGED <<players, regions, activities, worldSame>>

\* With the caller's second, or the clock's when it is zero.
CreateActivity(x, started) ==
  /\ x \notin DOMAIN activities
  /\ activities' = [y \in DOMAIN activities \cup {x} |->
       IF y = x THEN [since |-> IF started = 0 THEN second ELSE started, who |-> {}] ELSE activities[y]]
  /\ UNCHANGED <<players, regions, second, worldSame>>

JoinActivity(x, p) ==
  /\ x \in DOMAIN activities /\ p \notin activities[x].who
  /\ activities' = [activities EXCEPT ![x].who = @ \cup {p}]
  /\ UNCHANGED <<players, regions, second, worldSame>>

CompleteActivity(x) ==
  /\ x \in DOMAIN activities /\ activities' = Restrict(activities, DOMAIN activities \ {x})
  /\ UNCHANGED <<players, regions, second, worldSame>>

CleanupExpiredActivities ==
  /\ activities' = Restrict(activities, {x \in DOMAIN activities : second - activities[x].since <= Timeout})
  /\ UNCHANGED <<players, regions, second, worldSame>>

Apply ==
  \E p \in Players :
    \/ AddPlayer(p) \/ \E n \in Gains : KillMonster(p, n)
    \/ \E n \in Prices : CraftMaterial(p, n) \/ PurchaseMall(p, n)
    \/ \E q \in Players, a \in 1..made, n \in Prices : Trade(p, q, a, n)

Market ==
  \E p \in Players, a \in 1..made :
    (\E n \in Prices : ListMarketItem(p, a, n)) \/ BuyMarketItem(p, a) \/ CancelMarketListing(p, a)

Gather ==
  \/ \E p \in Players, r \in Regions : EnterRegion(p, r) \/ LeaveRegion(p, r)
  \/ Second \/ CleanupExpiredActivities
  \/ \E x \in Activities : \/ \E n \in {0, 1} : CreateActivity(x, n)
                           \/ \E p \in Players : JoinActivity(x, p)
                           \/ CompleteActivity(x)

GameSpec == GameInit /\ [][Apply \/ Market \/ Gather]_gameVars

-----------------------------------------------------------------------------
(* Every piece of gold is a start's or a monster's, less what was spent on *)
(* items and what the limit of a purse destroyed: trades and the market    *)
(* only move it, also when a player trades with himself.                   *)
GoldAccounted ==
  SumFunction([p \in DOMAIN players |-> players[p].gold]) + spent + capped
    = StartGold * Cardinality(DOMAIN players) + earned

(* An asset is in one place at most, an inventory or the market, and its   *)
(* owner is who holds or lists it, unless it was traded while it was       *)
(* listed: then the market still sells it for the one who no longer has it.*)
OnePlace ==
  \A a \in DOMAIN owner \ crossed :
    LET held == {h \in (DOMAIN players) \X (1..MaxSlots) :
                   h[2] \in DOMAIN players[h[1]].inventory /\ players[h[1]].inventory[h[2]] = a}
        sold == {i \in DOMAIN listings : listings[i].asset = a} IN
    /\ Cardinality(held) + Cardinality(sold) <= 1
    /\ \A h \in held : h[1] = owner[a]
    /\ \A i \in sold : listings[i].seller = owner[a]

(* The XP a player was given are those he has and those of his levels, up  *)
(* to the words that went over, though a large gain raises him by one      *)
(* level only.                                                             *)
LevelsPaid ==
  \A p \in DOMAIN players :
    gained[p] % XPWidth = (players[p].xp + ((XPPerLevel * players[p].level * (players[p].level - 1)) \div 2)) % XPWidth

(* Every payment made something, in a full inventory too, but those of the *)
(* players whose names are too brief.                                      *)
PaidFor == DOMAIN owner = (1..made) \ vain

(* Nobody is twice in a region, and none is above its limit.               *)
RegionsHold ==
  \A r \in DOMAIN regions : Len(regions[r]) <= RegionLimit /\ Cardinality(Range(regions[r])) = Len(regions[r])

(* Gold, things, places and levels of the players add up, over kills,       *)
(* crafts, sales and moves in any order.                                    *)
GameSound == GoldAccounted /\ OnePlace /\ LevelsPaid /\ PaidFor /\ RegionsHold
==============================================================================
