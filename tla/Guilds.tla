-------------------------------- MODULE Guilds -------------------------------
(***************************************************************************)
(* Guilds of app/game/social/guild.go: members with roles, a treasury, and *)
(* proposals that a majority of votes carries.  The votes stay when their  *)
(* voters leave; the majority is of the members there are at the end.      *)
(***************************************************************************)
EXTENDS Integers, Sequences, FiniteSets, SequencesExt, FiniteSetsExt, Functions

CONSTANTS Citizens, GuildNames,
          GuildWidth,                \* 2^64
          GuildXP, SkillCost,        \* 10000 by level, 5000
          ProposalLife,              \* a day
          Deposits, GuildGains,      \* inputs
          MaxGuilds, MaxMotions, MaxDays, MaxDeposits, MaxGains  \* bounds of the model

ASSUME GuildsAssumption ==
  /\ GuildWidth \in Nat \ {0} /\ Deposits \subseteq 1..(GuildWidth - 1) /\ GuildGains \subseteq 0..(GuildWidth - 1)
  /\ IsFiniteSet(Citizens)
  /\ {GuildXP, SkillCost} \subseteq Nat \ {0}
  /\ {ProposalLife, MaxGuilds, MaxMotions, MaxDays, MaxDeposits, MaxGains} \subseteq Nat

VARIABLES guilds,      \* by number, in the order they were made
          guildOf,     \* byPlayer
          today,
          \* history: guilds and proposals ever made, deposits, what came
          \* out of the treasuries, what nobody got (in a guild that was
          \* disbanded, or the words that sums went over), XP, guilds that
          \* changed their name
          founded, motions, deposits, paidOut, forfeited, guildGains, renamed

guildVars == <<guilds, guildOf, today, founded, motions, deposits, paidOut, forfeited, guildGains, renamed>>

GuildsInit ==
  /\ guilds = <<>> /\ guildOf = <<>> /\ today = 0
  /\ founded = 0 /\ motions = 0 /\ deposits = <<>> /\ paidOut = 0 /\ forfeited = 0
  /\ guildGains = <<>> /\ renamed = {}

MembersOf(g) == {guilds[g].members[i].id : i \in DOMAIN guilds[g].members}
At(g, p) == CHOOSE i \in DOMAIN guilds[g].members : guilds[g].members[i].id = p
RoleOf(g, p) == guilds[g].members[At(g, p)].role
Without(f, p) == Restrict(f, DOMAIN f \ {p})
Having(f, x, y) == [z \in DOMAIN f \cup {x} |-> IF z = x THEN y ELSE f[z]]
Member(p, role) == [id |-> p, role |-> role]

\* The index by player is left as it is.
GoneFromList(g, p) ==
  /\ guilds' = [guilds EXCEPT ![g].members = RemoveAt(@, At(g, p))]
  /\ UNCHANGED guildOf

Gone(g, p) ==
  /\ guilds' = [guilds EXCEPT ![g].members = RemoveAt(@, At(g, p))]
  /\ guildOf' = Without(guildOf, p)

\* The names are not looked at.
NameFreeAlways(name) == TRUE

NameFree(name) == \A g \in DOMAIN guilds : guilds[g].name # name

CreateGuild(name, p) ==
  /\ founded < MaxGuilds /\ p \notin DOMAIN guildOf /\ NameFree(name)
  /\ founded' = founded + 1
  /\ guilds' = Having(guilds, founded + 1,
                 [name |-> name, leader |-> p, members |-> <<Member(p, "leader")>>, treasury |-> 0,
                  level |-> 1, xp |-> 0, skills |-> <<>>, proposals |-> <<>>])
  /\ guildOf' = Having(guildOf, p, founded + 1)
  /\ UNCHANGED <<today, motions, deposits, paidOut, forfeited, guildGains, renamed>>

JoinGuild(g, p) ==
  /\ p \notin DOMAIN guildOf /\ p \notin MembersOf(g)
  /\ guilds' = [guilds EXCEPT ![g].members = Append(@, Member(p, "member"))]
  /\ guildOf' = Having(guildOf, p, g)
  /\ UNCHANGED <<today, founded, motions, deposits, paidOut, forfeited, guildGains, renamed>>

LeaveGuild(g, p) ==
  /\ guilds[g].leader # p /\ p \in MembersOf(g) /\ Gone(g, p)
  /\ UNCHANGED <<today, founded, motions, deposits, paidOut, forfeited, guildGains, renamed>>

DisbandGuild(g, p) ==
  /\ guilds[g].leader = p
  /\ guilds' = Without(guilds, g)
  /\ guildOf' = Restrict(guildOf, DOMAIN guildOf \ MembersOf(g))
  /\ forfeited' = forfeited + guilds[g].treasury
  /\ UNCHANGED <<today, founded, motions, deposits, paidOut, guildGains, renamed>>

\* The old leader keeps the role.
HandedOver(ms, i, j) == [ms EXCEPT ![j].role = "leader"]

Handed(ms, i, j) == [ms EXCEPT ![i].role = "member", ![j].role = "leader"]

TransferLeadership(g, p, q) ==
  /\ guilds[g].leader = p /\ p # q /\ {p, q} \subseteq MembersOf(g)
  /\ guilds' = [guilds EXCEPT ![g].members = Handed(@, At(g, p), At(g, q)), ![g].leader = q]
  /\ UNCHANGED <<guildOf, today, founded, motions, deposits, paidOut, forfeited, guildGains, renamed>>

\* What PromoteMember and KickMember ask of the one who acts and the other.
MayAct(g, p, q) ==
  /\ p # q /\ {p, q} \subseteq MembersOf(g) /\ RoleOf(g, q) # "leader"
  /\ RoleOf(g, p) = "leader" \/ (RoleOf(g, p) = "officer" /\ RoleOf(g, q) = "member")

PromoteMember(g, p, q, role) ==
  /\ MayAct(g, p, q)
  /\ guilds' = [guilds EXCEPT ![g].members[At(g, q)].role = role]
  /\ UNCHANGED <<guildOf, today, founded, motions, deposits, paidOut, forfeited, guildGains, renamed>>

KickMember(g, p, q) ==
  /\ MayAct(g, p, q) /\ Gone(g, q)
  /\ UNCHANGED <<today, founded, motions, deposits, paidOut, forfeited, guildGains, renamed>>

\* What a sum in a word loses.
Overflow(x, n) == IF x + n >= GuildWidth THEN GuildWidth ELSE 0

DepositToTreasury(g, p, n) ==
  /\ p \in MembersOf(g) /\ Len(deposits) < MaxDeposits
  /\ LET over == Overflow(guilds[g].treasury, n) IN
     guilds' = [guilds EXCEPT ![g].treasury = @ + n - over] /\ forfeited' = forfeited + over
  /\ deposits' = Append(deposits, n)
  /\ UNCHANGED <<guildOf, today, founded, motions, paidOut, guildGains, renamed>>

\* A balance that exists, of any size.
CoveredAny(g, n) == guilds[g].treasury > 0

Covered(g, n) == guilds[g].treasury >= n

WithdrawFromTreasury(g, p, n) ==
  /\ Covered(g, n) /\ p \in MembersOf(g) /\ RoleOf(g, p) # "member"
  /\ guilds' = [guilds EXCEPT ![g].treasury = @ - n] /\ paidOut' = paidOut + n
  /\ UNCHANGED <<guildOf, today, founded, motions, deposits, forfeited, guildGains, renamed>>

Day ==
  /\ today < MaxDays /\ today' = today + 1
  /\ UNCHANGED <<guilds, guildOf, founded, motions, deposits, paidOut, forfeited, guildGains, renamed>>

\* what: [kind, ...] with the target, the role, the quantity or the name.
CreateProposal(g, p, what) ==
  /\ p \in MembersOf(g) /\ motions < MaxMotions /\ motions' = motions + 1
  /\ guilds' = [guilds EXCEPT ![g].proposals =
       Append(@, [what |-> what, votes |-> [q \in {p} |-> TRUE], expires |-> today + ProposalLife, done |-> FALSE])]
  /\ UNCHANGED <<guildOf, today, founded, deposits, paidOut, forfeited, guildGains, renamed>>

Alive(m) == ~m.done /\ today <= m.expires

VoteOnProposal(g, p, k, approve) ==
  /\ p \in MembersOf(g) /\ Alive(guilds[g].proposals[k])
  /\ guilds' = [guilds EXCEPT ![g].proposals[k].votes = Having(@, p, approve)]
  /\ UNCHANGED <<guildOf, today, founded, motions, deposits, paidOut, forfeited, guildGains, renamed>>

Approvals(m) == {p \in DOMAIN m.votes : m.votes[p]}

\* Half of the members.
CarriedByHalf(g, m) == Cardinality(Approvals(m)) >= Len(guilds[g].members) \div 2

Carried(g, m) == Cardinality(Approvals(m)) >= (Len(guilds[g].members) \div 2) + 1

ExecuteProposal(g, k) ==
  LET m == guilds[g].proposals[k] w == m.what t == w.target
      marked == [guilds EXCEPT ![g].proposals[k].done = TRUE] IN
  /\ Alive(m) /\ Carried(g, m)
  /\ \/ /\ w.kind = "kick" /\ t \in MembersOf(g) /\ RoleOf(g, t) # "leader"
        /\ guilds' = [marked EXCEPT ![g].members = RemoveAt(@, At(g, t))]
        /\ guildOf' = Without(guildOf, t) /\ UNCHANGED <<paidOut, renamed>>
     \/ /\ w.kind = "promote" /\ t \in MembersOf(g) /\ RoleOf(g, t) # "leader"
        /\ guilds' = [marked EXCEPT ![g].members[At(g, t)].role = w.role]
        /\ UNCHANGED <<guildOf, paidOut, renamed>>
     \/ /\ w.kind = "spend" /\ Covered(g, w.n)
        /\ guilds' = [marked EXCEPT ![g].treasury = @ - w.n] /\ paidOut' = paidOut + w.n
        /\ UNCHANGED <<guildOf, renamed>>
     \/ /\ w.kind = "name"
        /\ guilds' = [marked EXCEPT ![g].name = w.name] /\ renamed' = renamed \cup {g}
        /\ UNCHANGED <<guildOf, paidOut>>
  /\ UNCHANGED <<today, founded, motions, deposits, forfeited, guildGains>>

\* One level for all the XP.
SettledOnce(level, xp) ==
  IF xp < level * GuildXP THEN [level |-> level, xp |-> xp] ELSE [level |-> level + 1, xp |-> xp - level * GuildXP]

\* As many levels as the XP pay for.
Settled(level, xp) ==
  LET Paid(n) == GuildXP * (n * level + ((n * (n - 1)) \div 2))
      n == CHOOSE n \in 0..xp : Paid(n) <= xp /\ xp < Paid(n + 1) IN
  [level |-> level + n, xp |-> xp - Paid(n)]

AddXP(g, n) ==
  LET kept == n - Overflow(guilds[g].xp, n)  after == Settled(guilds[g].level, guilds[g].xp + kept) IN
  /\ Len(guildGains) < MaxGains /\ guildGains' = Append(guildGains, [guild |-> g, n |-> kept])
  /\ guilds' = [guilds EXCEPT ![g].level = after.level, ![g].xp = after.xp]
  /\ UNCHANGED <<guildOf, today, founded, motions, deposits, paidOut, forfeited, renamed>>

AddGuildSkill(g, p) ==
  /\ guilds[g].leader = p /\ Len(guilds[g].skills) < 1
  /\ guilds' = [guilds EXCEPT ![g].skills = Append(@, 1)]
  /\ UNCHANGED <<guildOf, today, founded, motions, deposits, paidOut, forfeited, guildGains, renamed>>

LevelUpGuildSkill(g, p, s) ==
  /\ guilds[g].leader = p /\ guilds[g].xp >= SkillCost /\ s \in DOMAIN guilds[g].skills
  /\ guilds' = [guilds EXCEPT ![g].xp = @ - SkillCost, ![g].skills[s] = @ + 1]
  /\ UNCHANGED <<guildOf, today, founded, motions, deposits, paidOut, forfeited, guildGains, renamed>>

Membership ==
  \/ \E p \in Citizens, name \in GuildNames : CreateGuild(name, p)
  \/ \E g \in DOMAIN guilds, p \in Citizens :
       \/ JoinGuild(g, p) \/ LeaveGuild(g, p) \/ DisbandGuild(g, p)
       \/ \E q \in Citizens : \/ TransferLeadership(g, p, q) \/ KickMember(g, p, q)
                              \/ \E role \in {"officer", "member"} : PromoteMember(g, p, q, role)

Whats ==
  [kind : {"kick"}, target : Citizens] \cup [kind : {"promote"}, target : Citizens, role : {"officer"}]
  \cup [kind : {"spend"}, target : {0}, n : Deposits] \cup [kind : {"name"}, target : {0}, name : GuildNames]

Council ==
  \/ Day
  \/ \E g \in DOMAIN guilds, p \in Citizens :
       \/ \E w \in Whats : CreateProposal(g, p, w)
       \/ \E k \in DOMAIN guilds[g].proposals, v \in BOOLEAN : VoteOnProposal(g, p, k, v)
  \/ \E g \in DOMAIN guilds : \E k \in DOMAIN guilds[g].proposals : ExecuteProposal(g, k)

Wealth ==
  \E g \in DOMAIN guilds :
    \/ \E p \in Citizens, n \in Deposits : DepositToTreasury(g, p, n) \/ WithdrawFromTreasury(g, p, n)
    \/ \E n \in GuildGains : AddXP(g, n)
    \/ \E p \in Citizens : AddGuildSkill(g, p) \/ \E s \in {1} : LevelUpGuildSkill(g, p, s)

GuildsSpec == GuildsInit /\ [][Membership \/ Council \/ Wealth]_guildVars

-----------------------------------------------------------------------------
(* A player is in the list of the one guild the index gives and in no      *)
(* other, whoever left, was kicked by a member or by a vote, or saw the    *)
(* guild forfeited.                                                        *)
OneGuild ==
  \A p \in Citizens :
    /\ p \in DOMAIN guildOf => guildOf[p] \in DOMAIN guilds
    /\ \A g \in DOMAIN guilds :
         Cardinality({i \in DOMAIN guilds[g].members : guilds[g].members[i].id = p})
           = (IF p \in DOMAIN guildOf /\ guildOf[p] = g THEN 1 ELSE 0)

(* A guild has one leader, the one that it names.                          *)
OneLeader ==
  \A g \in DOMAIN guilds :
    {i \in DOMAIN guilds[g].members : guilds[g].members[i].role = "leader"} = {At(g, guilds[g].leader)}

(* What was deposited is in a treasury, was paid out, or nobody got it: it *)
(* was in a guild that its leader disbanded, or the sum went over a word.  *)
(* No treasury goes below nothing, by an officer and a proposal that both  *)
(* count on the same.                                                      *)
TreasuriesBalance ==
  /\ \A g \in DOMAIN guilds : guilds[g].treasury >= 0
  /\ SumFunction(deposits)
    = SumFunction([g \in DOMAIN guilds |-> guilds[g].treasury]) + paidOut + forfeited

(* Two guilds have the same name only where a proposal renamed one: the    *)
(* vote does not look at the names that are taken.                         *)
NamesTaken ==
  \A g, h \in DOMAIN guilds : g # h /\ guilds[g].name = guilds[h].name => {g, h} \cap renamed # {}

(* A proposal is carried out once, and when those who approved and are     *)
(* still members are no majority, then some of the votes are of players    *)
(* who left.                                                               *)
CarriedByMembers ==
  [][\A g \in DOMAIN guilds \cap DOMAIN guilds' :
       \A k \in DOMAIN guilds[g].proposals :
         LET m == guilds[g].proposals[k] IN
         /\ m.done => guilds'[g].proposals[k] = m
         /\ (~m.done /\ guilds'[g].proposals[k].done) =>
              \/ 2 * Cardinality(Approvals(m) \cap MembersOf(g)) > Cardinality(MembersOf(g))
              \/ Approvals(m) \ MembersOf(g) # {}]_guildVars

(* A guild's XP are below its next level at all times, and with its levels *)
(* and its skills they are all it was given and a word could hold.         *)
LevelsSettled ==
  \A g \in DOMAIN guilds :
    LET one == guilds[g] IN
    /\ one.xp < one.level * GuildXP
    /\ SumFunction([i \in DOMAIN guildGains |-> IF guildGains[i].guild = g THEN guildGains[i].n ELSE 0])
         = one.xp + ((GuildXP * one.level * (one.level - 1)) \div 2)
           + SkillCost * SumFunction([s \in DOMAIN one.skills |-> one.skills[s] - 1])

(* Guilds keep one leader, their members, names and treasuries, and what    *)
(* they decide was decided by members.                                      *)
GuildsSound ==
  [](OneGuild /\ OneLeader /\ TreasuriesBalance /\ NamesTaken /\ LevelsSettled) /\ CarriedByMembers
==============================================================================
