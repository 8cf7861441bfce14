-------------------------------- MODULE Parties ------------------------------
(***************************************************************************)
(* Parties and leaderboards of app/game/social.  An invitation is only     *)
(* looked at: nothing puts the invited player into the party.  A list that *)
(* GetTopN returned shares its entries with the board, whose scores change *)
(* under the reader.                                                       *)
(***************************************************************************)
EXTENDS Integers, Sequences, FiniteSets, SequencesExt, Functions

CONSTANTS Partners, Names, Scores,
          PartySize, BoardSize,     \* 5; MaxEntries, 100
          MaxParties, MaxContribution, MaxUpdates, MaxLists  \* bounds of the model

ASSUME PartiesAssumption ==
  /\ Scores \subseteq Nat /\ {PartySize, BoardSize} \subseteq Nat \ {0}
  /\ {MaxParties, MaxContribution, MaxUpdates, MaxLists} \subseteq Nat

VARIABLES parties,    \* [leader, members, kills] by number
          partyOf,    \* byPlayer
          formed,     \* history: parties ever made
          invited     \* history: <<party, player>>, invitations that were in order

partyVars == <<parties, partyOf, formed, invited>>

PartiesInit == parties = <<>> /\ partyOf = <<>> /\ formed = 0 /\ invited = {}

CreateParty(p) ==
  /\ formed < MaxParties /\ p \notin DOMAIN partyOf /\ formed' = formed + 1
  /\ parties' = [x \in DOMAIN parties \cup {formed + 1} |->
       IF x = formed + 1 THEN [leader |-> p, members |-> <<p>>, kills |-> <<>>] ELSE parties[x]]
  /\ partyOf' = [q \in DOMAIN partyOf \cup {p} |-> IF q = p THEN formed + 1 ELSE partyOf[q]]
  /\ UNCHANGED invited

InviteToParty(x, p, q) ==
  /\ parties[x].leader = p /\ p # q /\ q \notin DOMAIN partyOf
  /\ Len(parties[x].members) < PartySize
  /\ invited' = invited \cup {<<x, q>>} /\ UNCHANGED <<parties, partyOf, formed>>

\* The party stays when its last member has gone.
EmptyKept(x, rest) == [parties EXCEPT ![x].members = rest]

Shrunk(x, rest) ==
  IF rest = <<>> THEN Restrict(parties, DOMAIN parties \ {x})
  ELSE [parties EXCEPT ![x].members = rest, ![x].leader = IF @ \in Range(rest) THEN @ ELSE rest[1]]

Seat(x, p) == CHOOSE i \in DOMAIN parties[x].members : parties[x].members[i] = p

LeaveParty(x, p) ==
  /\ p \in Range(parties[x].members)
  /\ LET shrunk == Shrunk(x, RemoveAt(parties[x].members, Seat(x, p))) IN
     parties' = [y \in DOMAIN shrunk |->
       IF y = x THEN [shrunk[y] EXCEPT !.kills = Restrict(@, DOMAIN @ \ {p})] ELSE shrunk[y]]
  /\ partyOf' = Restrict(partyOf, DOMAIN partyOf \ {p})
  /\ UNCHANGED <<formed, invited>>

DisbandParty(x) ==
  /\ parties' = Restrict(parties, DOMAIN parties \ {x})
  /\ partyOf' = Restrict(partyOf, DOMAIN partyOf \ Range(parties[x].members))
  /\ UNCHANGED <<formed, invited>>

RecordKillContribution(x, p, n) ==
  /\ p \in Range(parties[x].members)
  /\ LET kills == parties[x].kills had == IF p \in DOMAIN kills THEN kills[p] ELSE 0 IN
     /\ had + n <= MaxContribution
     /\ parties' = [parties EXCEPT ![x].kills = [q \in DOMAIN kills \cup {p} |-> IF q = p THEN had + n ELSE kills[q]]]
  /\ UNCHANGED <<partyOf, formed, invited>>

ResetKillContributions(x) ==
  /\ parties' = [parties EXCEPT ![x].kills = <<>>] /\ UNCHANGED <<partyOf, formed, invited>>

PartiesNext ==
  \/ \E p \in Partners : CreateParty(p)
  \/ \E x \in DOMAIN parties, p \in Partners :
       \/ LeaveParty(x, p) \/ RecordKillContribution(x, p, 1)
       \/ \E q \in Partners : InviteToParty(x, p, q)
  \/ \E x \in DOMAIN parties : DisbandParty(x) \/ ResetKillContributions(x)

-----------------------------------------------------------------------------
(* One category of the leaderboards.  An entry that the trim dropped is    *)
(* another one when its name comes back.                                   *)

VARIABLES entries,   \* [name, score, rank] of each entry that was ever made
          board,     \* Entries: numbers of entries, in order
          lists,     \* lists that GetTopN returned: numbers of entries
          updates,   \* history: how many there were
          unsorted   \* history: entries written since the last sort

boardVars == <<entries, board, lists, updates, unsorted>>

BoardInit == entries = <<>> /\ board = <<>> /\ lists = {} /\ updates = 0 /\ unsorted = {}

\* A new entry every time.
FoundNone(name) == {}

Found(name) == {e \in Range(board) : entries[e].name = name}

UpdateScore(name, score) ==
  /\ updates < MaxUpdates /\ updates' = updates + 1
  /\ IF Found(name) # {}
     THEN LET e == CHOOSE e \in Found(name) : TRUE IN
          /\ entries' = [entries EXCEPT ![e].score = score]
          /\ unsorted' = unsorted \cup {e} /\ UNCHANGED board
     ELSE /\ entries' = Append(entries, [name |-> name, score |-> score, rank |-> 0])
          /\ board' = Append(board, Len(entries) + 1)
          /\ unsorted' = unsorted \cup {Len(entries) + 1}
  /\ UNCHANGED lists

\* The order of the board, whatever the scores.
SortedNot(es) == es

\* A stable sort by score, the highest first.
SortedByScore(es) ==
  [i \in DOMAIN es |->
     CHOOSE e \in Range(es) :
       LET k == CHOOSE k \in DOMAIN es : es[k] = e IN
       i = Cardinality({j \in DOMAIN es : \/ entries[es[j]].score > entries[e].score
                                          \/ entries[es[j]].score = entries[e].score /\ j <= k})]

Ranked(es) ==
  [e \in DOMAIN entries |->
     IF e \in Range(es) THEN [entries[e] EXCEPT !.rank = CHOOSE i \in DOMAIN es : es[i] = e] ELSE entries[e]]

(* GetTopN and GetRank write the ranks while they hold the lock for        *)
(* reading, with other readers that write the same.                        *)
GetTopN(n) ==
  LET sorted == SortedByScore(board) IN
  /\ entries' = Ranked(sorted) /\ unsorted' = {}
  /\ lists' = lists \cup {SubSeq(sorted, 1, IF n < Len(sorted) THEN n ELSE Len(sorted))}
  /\ Cardinality(lists') <= MaxLists
  /\ UNCHANGED <<board, updates>>

RefreshLeaderboard ==
  LET sorted == SortedByScore(board) IN
  /\ entries' = Ranked(sorted) /\ unsorted' = {}
  /\ board' = SubSeq(sorted, 1, IF BoardSize < Len(sorted) THEN BoardSize ELSE Len(sorted))
  /\ UNCHANGED <<lists, updates>>

BoardNext ==
  \/ \E name \in Names, s \in Scores : UpdateScore(name, s)
  \/ GetTopN(2) \/ RefreshLeaderboard

PartiesSpec == PartiesInit /\ [][PartiesNext]_partyVars /\ BoardInit /\ [][BoardNext]_boardVars

-----------------------------------------------------------------------------
(* The index and the lists agree, a party that exists has its leader among *)
(* its members, and whoever was invited, a party has the one who made it.  *)
PartiesAgree ==
  /\ \A p \in DOMAIN partyOf : partyOf[p] \in DOMAIN parties /\ p \in Range(parties[partyOf[p]].members)
  /\ \A x \in DOMAIN parties :
       /\ parties[x].leader \in Range(parties[x].members)
       /\ \A p \in Range(parties[x].members) : p \in DOMAIN partyOf /\ partyOf[p] = x
       /\ Len(parties[x].members) = 1 /\ DOMAIN parties[x].kills \subseteq {parties[x].leader}

(* A name has one entry on the board, though the trim drops entries and an *)
(* update brings them back.                                                *)
OneEntry == \A e, f \in Range(board) : entries[e].name = entries[f].name => e = f

(* Ranks disagree with scores only at entries written since the last sort, *)
(* and a list that was returned is in order but for entries written since. *)
RanksStale ==
  /\ \A e, f \in Range(board) \ unsorted :
       entries[e].score > entries[f].score => entries[e].rank < entries[f].rank
  /\ \A l \in lists : \A i, j \in DOMAIN l :
       (i < j /\ entries[l[i]].score < entries[l[j]].score) =>
         \/ {l[i], l[j]} \cap unsorted # {}
         \/ entries[l[i]].rank > entries[l[j]].rank
         \/ {l[i], l[j]} \ Range(board) # {}

(* Who is dropped from the board has no more than anybody who stays.       *)
TrimKeepsBest ==
  [][\A e \in Range(board) \ Range(board') : \A f \in Range(board') : entries[e].score <= entries[f].score]_boardVars

(* The two indices of the parties agree, and the boards keep the best.      *)
PartiesSound == [](PartiesAgree /\ OneEntry /\ RanksStale) /\ TrimKeepsBest
==============================================================================
