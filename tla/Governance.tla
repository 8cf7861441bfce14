----------------------------- MODULE Governance ------------------------------
(***************************************************************************)
(* The governance of nodes: the hooks of app/app.go that every block runs  *)
(* over the users, with terms, slashing states and blacklist of            *)
(* x/node/governor.go, while others call BanNode, RegisterNode and         *)
(* RecordRelay.  A hook reads all users first and writes them back one by  *)
(* one; the process may stop between any two writes and only the store is  *)
(* left.                                                                   *)
(***************************************************************************)
EXTENDS Users, SequencesExt

CONSTANTS Month,         \* 43200 blocks: salaries, and the check of terms
          Tenth,         \* 10: one in so many rises or falls
          LowScore, Lows,            \* 30 and 3
          SlashPercent, CapPercent,  \* 5 and 30
          TermLen, CoolDown, MaxTerms,  \* 90 and 30 days, and 3
          Busy,          \* relays that RecordRelay counts
          MaxHeight, MaxTime, MaxStops, MaxBans  \* bounds of the model

ASSUME GovernanceAssumption ==
  /\ {Month, Tenth, MaxTerms} \subseteq Nat \ {0}
  /\ {LowScore, Lows, SlashPercent, CapPercent, TermLen, CoolDown, Busy,
      MaxHeight, MaxTime, MaxStops, MaxBans} \subseteq Nat

VARIABLES pc,      \* where the block loop is; "down": no process
          height, saved, paidAt, now,
          view,    \* the users as a hook read them
          todo,    \* what it has still to write
          terms, history,         \* TermManager
          low, slashed,           \* SlashingManager
          blacklist, banning,     \* Blacklist; whom a caller is banning
          relays, recorded,       \* nodePerformance: relays, and the blocks
                                  \* of a node, all and those it was online in
          fine,    \* what a slash has still to give to the reserve
          \* history: payouts and their sum, stops, the largest limit and the
          \* last block a node was slashed at, terms begun in this process,
          \* and whose role or term was written over
          payouts, paid, stops, peak, slashedAt, begun, overtaken, replaced, bans,
          appointed

memory == <<paidAt, terms, history, low, slashed, blacklist, relays, recorded>>
ghosts == <<payouts, paid, stops, peak, slashedAt, begun, overtaken, replaced, bans, appointed>>
counters == <<height, saved, now, fine>>
loop == <<pc, view, todo>>
governVars == <<pc, height, saved, paidAt, now, view, todo, terms, history, low, slashed,
                blacklist, banning, relays, recorded, fine, ghosts>>
unusual == <<bonds, calls, vouched, fresh, liability, shared>>

Official(us, u) == us[u].role \in {"relay", "record"}
Zeros == [a \in Accounts |-> 0]
NoTerms == [a \in Accounts |-> <<>>]
NoBlocks == [a \in Accounts |-> [total |-> 0, online |-> 0]]

Memory ==
  /\ paidAt' = 0 /\ terms' = <<>> /\ history' = NoTerms
  /\ low' = Zeros /\ slashed' = Zeros /\ blacklist' = {}
  /\ relays' = Zeros /\ recorded' = NoBlocks

GovernanceInit ==
  /\ pc = "idle" /\ height = 0 /\ saved = 0 /\ paidAt = 0 /\ now = 0
  /\ view = users /\ todo = <<>> /\ terms = <<>> /\ history = NoTerms
  /\ low = Zeros /\ slashed = Zeros /\ blacklist = {} /\ banning = {}
  /\ relays = Zeros /\ recorded = NoBlocks /\ fine = 0
  /\ payouts = 0 /\ paid = 0 /\ stops = 0 /\ peak = Zeros
  /\ slashedAt = [a \in Accounts |-> -1]
  /\ begun = NoTerms /\ overtaken = {} /\ replaced = {} /\ bans = 0
  /\ appointed = {u \in Registered : Official(users, u)}

Goto(step) == pc' = step
SetRole(u, role) == users' = [users EXCEPT ![u].role = role]
\* A stale record is written back: a role that was taken away returns.
Restores(u, user) == user.role # users[u].role /\ Official(view, u)

-----------------------------------------------------------------------------
(* BeginBlocker counts the block; once a day it lists the expired terms.   *)
BeginBlock ==
  /\ pc = "idle" /\ height < MaxHeight
  /\ height' = height + 1
  /\ \E t \in now..MaxTime : t <= now + 1 /\ now' = t
  /\ todo' = IF height' % Month = 0
             THEN SetToSeq({u \in DOMAIN terms : now' >= terms[u].end}) ELSE <<>>
  /\ Goto("expire")
  /\ UNCHANGED <<usersVars, saved, view, memory, banning, fine, ghosts>>

End(u) == /\ terms' = Restrict(terms, DOMAIN terms \ {u})
          /\ history' = IF u \in DOMAIN terms THEN [history EXCEPT ![u] = Append(@, terms[u])]
                        ELSE history

\* An expired term is ended, and its holder stays what he is.
ExpireKeepsRole ==
  /\ pc = "expire" /\ todo # <<>>
  /\ End(Head(todo)) /\ todo' = Tail(todo)
  /\ UNCHANGED <<usersVars, pc, counters, view, paidAt, low, slashed, blacklist, relays,
                 recorded, banning, ghosts>>

ExpireTerm ==
  /\ pc = "expire" /\ todo # <<>>
  /\ SetRole(Head(todo), "none") /\ End(Head(todo))
  /\ todo' = Tail(todo)
  /\ UNCHANGED <<unusual, pool, pc, counters, view, paidAt, low, slashed, blacklist, relays,
                 recorded, banning, ghosts>>

(* processMonthlySalary: half of the budget to each kind, by weight.  What *)
(* is taken from the pool is not written back.                             *)
Of(role) == {u \in Registered : users[u].role = role}
\* Salaries if each kind shared the whole budget.
SalaryOfWhole(u) ==
  LET budget == pool.relay + pool.record
      weights == SumOf(Of(users[u].role), LAMBDA v : users[v].weight) IN
  IF weights = 0 THEN 0 ELSE (budget \div weights) * users[u].weight

Salary(u) ==
  LET budget == (pool.relay + pool.record) \div 2
      weights == SumOf(Of(users[u].role), LAMBDA v : users[v].weight) IN
  IF weights = 0 THEN 0 ELSE (budget \div weights) * users[u].weight

Payslips ==
  LET us == Sorted({u \in Registered : Official(users, u) /\ Salary(u) > 0}) IN
  [i \in DOMAIN us |-> [who |-> us[i], amount |-> Salary(us[i])]]

Due == height - paidAt >= Month

(* recordNodePerformance: whoever has a role has one block more, and was   *)
(* online in it or not, as the callback of the node says.                  *)
Recorded(u, online) ==
  IF u \notin Registered \/ users[u].role = "none" THEN recorded[u]
  ELSE [total |-> recorded[u].total + 1,
        online |-> IF online THEN recorded[u].online + 1 ELSE recorded[u].online]

StartSalary ==
  /\ pc = "expire" /\ todo = <<>>
  /\ \E online \in SUBSET Accounts :
       recorded' = [u \in Accounts |-> Recorded(u, u \in online)]
  /\ IF Due THEN todo' = Payslips /\ Goto("pay") /\ payouts' = payouts + 1
     ELSE UNCHANGED <<todo, payouts>> /\ Goto("slash")
  /\ UNCHANGED <<usersVars, counters, view, paidAt, terms, history, low, slashed, blacklist,
                 relays, banning, paid, stops, peak, slashedAt, begun, overtaken, replaced, bans,
                 appointed>>

CreditSalary ==
  LET slip == Head(todo) IN
  /\ pc = "pay" /\ todo # <<>>
  /\ users' = [users EXCEPT ![slip.who].salary = @ + slip.amount,
                            ![slip.who].limit = @ + slip.amount]
  /\ todo' = Tail(todo) /\ paid' = paid + slip.amount
  /\ UNCHANGED <<unusual, pool, pc, counters, view, memory, banning, payouts, stops, peak,
                 slashedAt, begun, overtaken, replaced, bans, appointed>>

SalaryPaid ==
  /\ pc = "pay" /\ todo = <<>>
  /\ paidAt' = height /\ Goto("slash")
  /\ UNCHANGED <<usersVars, counters, view, todo, terms, history, low, slashed, blacklist, relays,
                 recorded, banning, ghosts>>

-----------------------------------------------------------------------------
(* processSlashing, in every block.                                        *)
StartSlashing ==
  /\ pc = "slash" /\ view' = users
  /\ todo' = Sorted({u \in Registered : Official(users, u)})
  /\ Goto("slashing")
  /\ UNCHANGED <<usersVars, counters, memory, banning, ghosts>>

(* Four tenths of the weight, three of it by the part of the blocks the    *)
(* node was online in, and three tenths of the relays; half the blocks and *)
(* no relays if no block of the node is recorded.                          *)
Score(u, weight) ==
  LET r == IF recorded[u].total = 0 THEN [total |-> 2, online |-> 1] ELSE recorded[u]
      relayed == IF recorded[u].total = 0 THEN 0 ELSE relays[u] IN
  ((4 * weight + 3 * relayed) * r.total + 3 * weight * r.online) \div (10 * r.total)

\* The amount without the cap on all slashes of a node.
AmountUncapped(u, limit) == (limit * SlashPercent) \div 100

(* The cap is a share of the limit of today: it may be below what was      *)
(* slashed before, and the difference wraps.                               *)
Amount(u, limit) ==
  LET amount == (limit * SlashPercent) \div 100
      cap == (limit * CapPercent) \div 100 IN
  IF (slashed[u] + amount) % Wrap > cap THEN (cap - slashed[u]) % Wrap ELSE amount

\* The streak if a slash did not end it.
StreakKept(u, count) == count

Streak(u, count) == IF count >= Lows THEN 0 ELSE count

SlashUser ==
  LET u == Head(todo)
      block == view[u]
      count == IF Score(u, block.weight) < LowScore THEN low[u] + 1 ELSE 0
      amount == IF count >= Lows THEN Amount(u, block.limit) ELSE 0
      user == [block EXCEPT !.limit = IF @ >= amount THEN @ - amount ELSE 0,
                            !.weight = (@ * 9) \div 10] IN
  /\ pc = "slashing" /\ todo # <<>> /\ fine = 0
  /\ todo' = Tail(todo) /\ fine' = amount
  /\ low' = [low EXCEPT ![u] = Streak(u, count)]
  /\ slashed' = [slashed EXCEPT ![u] = (@ + amount) % Wrap]
  /\ IF amount > 0
     THEN /\ users' = [users EXCEPT ![u] = user]
          /\ overtaken' = IF Restores(u, user) THEN overtaken \cup {u} ELSE overtaken
          /\ slashedAt' = [slashedAt EXCEPT ![u] = height]
          /\ peak' = [peak EXCEPT ![u] = IF block.limit > @ THEN block.limit ELSE @]
     ELSE UNCHANGED <<users, overtaken, slashedAt, peak>>
  /\ UNCHANGED <<unusual, pool, pc, height, saved, now, view, paidAt, terms, history, blacklist,
                 relays, recorded, banning, payouts, paid, stops, begun, replaced, bans, appointed>>

(* The second write of a slash: a stop before it leaves the reserve as it  *)
(* was.                                                                    *)
FundReserve ==
  /\ pc = "slashing" /\ fine > 0 /\ fine' = 0
  /\ pool' = [pool EXCEPT !.bad = Plus(@, fine), !.total = Plus(@, fine)]
  /\ UNCHANGED <<users, unusual, loop, height, saved, now, memory, banning, ghosts>>

-----------------------------------------------------------------------------
(* processQuarterlyRotation: by score, ties in any order, the last tenth   *)
(* of the officials falls and the first tenth of the others rises.         *)
RankedByScore(us, s) ==
  \A i, j \in DOMAIN s : i < j => Score(s[i], us[s[i]].weight) >= Score(s[j], us[s[j]].weight)
Rankings(us, S) == {s \in SetToSeqs(S) : RankedByScore(us, s)}
ShareOf(s) == Len(s) \div Tenth
Falling(s) == [i \in 1..ShareOf(s) |-> [rise |-> FALSE, who |-> s[(Len(s) - ShareOf(s)) + i]]]
Rising(s) == [i \in 1..ShareOf(s) |-> [rise |-> TRUE, who |-> s[i]]]

StartRotation ==
  LET officials == {u \in Registered : Official(users, u)} IN
  /\ pc = "slashing" /\ todo = <<>> /\ fine = 0
  /\ IF height % (3 * Month) = 0
     THEN \E s \in Rankings(users, officials), r \in Rankings(users, Registered \ officials) :
            todo' = Falling(s) \o Rising(r) /\ Goto("rotate")
     ELSE UNCHANGED todo /\ Goto("weigh")
  /\ UNCHANGED <<usersVars, counters, view, memory, banning, ghosts>>

Demote ==
  LET u == Head(todo).who IN
  /\ pc = "rotate" /\ todo # <<>> /\ ~Head(todo).rise
  /\ SetRole(u, "none") /\ End(u)
  /\ todo' = Tail(todo)
  /\ UNCHANGED <<unusual, pool, pc, counters, view, paidAt, low, slashed, blacklist, relays,
                 recorded, banning, ghosts>>

(* How many terms, from the last one back, follow each other without a     *)
(* rest; a term that was ended early still counts to its planned end.      *)
Consecutive(s) ==
  LET Tight(k) == \A i \in (Len(s) - k) + 2..Len(s) : s[i].start - s[i - 1].end < CoolDown IN
  CHOOSE k \in 1..Len(s) : Tight(k) /\ \A m \in 1..Len(s) : Tight(m) => m <= k
Served(u) == IF u \in DOMAIN terms THEN Append(history[u], terms[u]) ELSE history[u]

\* One term more than the limit.
CanRenewOnce(u) == Served(u) = <<>> \/ Consecutive(Served(u)) <= MaxTerms

CanRenew(u) == Served(u) = <<>> \/ Consecutive(Served(u)) < MaxTerms

Check ==
  LET u == Head(todo).who IN
  /\ pc = "rotate" /\ todo # <<>> /\ Head(todo).rise
  /\ IF u \in blacklist \/ ~CanRenew(u) THEN todo' = Tail(todo) /\ UNCHANGED pc
     ELSE Goto("promote") /\ UNCHANGED todo
  /\ UNCHANGED <<usersVars, counters, view, memory, banning, ghosts>>

(* StartTerm writes over a term that goes on.                              *)
Promote ==
  LET u == Head(todo).who
      term == [start |-> now, end |-> now + TermLen] IN
  /\ pc = "promote"
  /\ SetRole(u, "relay") /\ terms' = Put(terms, u, term)
  /\ begun' = [begun EXCEPT ![u] = Append(@, term)]
  /\ replaced' = IF u \in DOMAIN terms THEN replaced \cup {u} ELSE replaced
  /\ overtaken' = IF u \in blacklist THEN overtaken \cup {u} ELSE overtaken
  /\ todo' = Tail(todo) /\ Goto("rotate")
  /\ UNCHANGED <<unusual, pool, counters, view, paidAt, history, low, slashed, blacklist, relays,
                 recorded, banning, payouts, paid, stops, peak, slashedAt, bans, appointed>>

Rotated ==
  /\ pc = "rotate" /\ todo = <<>>
  /\ relays' = Zeros /\ recorded' = NoBlocks /\ Goto("weigh")
  /\ UNCHANGED <<usersVars, counters, view, todo, paidAt, terms, history, low, slashed, blacklist,
                 banning, ghosts>>

-----------------------------------------------------------------------------
(* RecalculateTrustWeights reads all users, computes, and writes them all. *)
StartWeights ==
  /\ pc = "weigh" /\ view' = Recalculated(users)
  /\ todo' = Sorted(Registered) /\ Goto("weighing")
  /\ UNCHANGED <<usersVars, counters, memory, banning, ghosts>>

WriteWeight ==
  LET u == Head(todo) IN
  /\ pc = "weighing" /\ todo # <<>>
  /\ users' = [users EXCEPT ![u] = view[u]]
  /\ overtaken' = IF Restores(u, view[u]) THEN overtaken \cup {u} ELSE overtaken
  /\ todo' = Tail(todo)
  /\ UNCHANGED <<unusual, pool, pc, counters, view, memory, banning, payouts, paid, stops, peak,
                 slashedAt, begun, replaced, bans, appointed>>

EndBlock ==
  /\ pc = "weighing" /\ todo = <<>>
  /\ saved' = height /\ view' = users /\ Goto("idle")
  /\ UNCHANGED <<usersVars, height, now, todo, memory, banning, fine, ghosts>>

-----------------------------------------------------------------------------
(* The other callers.                                                      *)
Up == pc # "down"

RecordRelay(u) ==
  /\ Up /\ relays[u] = 0
  /\ relays' = [relays EXCEPT ![u] = Busy]
  /\ UNCHANGED <<usersVars, loop, counters, paidAt, terms, history, low, slashed, blacklist,
                 recorded, banning, ghosts>>

(* BanNode: the blacklist first, then the role; the term goes on.          *)
Ban(u) ==
  /\ Up /\ banning = {} /\ u \notin blacklist /\ bans < MaxBans
  /\ blacklist' = blacklist \cup {u} /\ banning' = {u} /\ bans' = bans + 1
  /\ UNCHANGED <<usersVars, loop, counters, paidAt, terms, history, low, slashed, relays,
                 recorded, payouts, paid, stops, peak, slashedAt, begun, overtaken, replaced,
                 appointed>>

\* BanNode without the second half.
BanKeepsRole ==
  /\ Up /\ banning # {} /\ banning' = {}
  /\ UNCHANGED <<usersVars, loop, counters, memory, ghosts>>

TakeRole ==
  /\ Up /\ banning # {} /\ banning' = {}
  /\ \E u \in banning : SetRole(u, "none") /\ overtaken' = overtaken \ {u}
  /\ UNCHANGED <<unusual, pool, loop, counters, memory, payouts, paid, stops, peak, slashedAt,
                 begun, replaced, bans, appointed>>

(* Unban, or a ban that has expired.                                       *)
Unban(u) ==
  /\ Up /\ u \in blacklist
  /\ blacklist' = blacklist \ {u}
  /\ UNCHANGED <<usersVars, loop, counters, paidAt, terms, history, low, slashed, relays,
                 recorded, banning, ghosts>>

(* RegisterNode of the message server: any user, at any time; not even the *)
(* blacklist is looked at.                                                 *)
RegisterNode(u, role) ==
  /\ Up /\ ~Official(users, u)
  /\ SetRole(u, role) /\ appointed' = appointed \cup {u}
  /\ UNCHANGED <<unusual, pool, loop, counters, memory, banning, payouts, paid, stops, peak,
                 slashedAt, begun, overtaken, replaced, bans>>

Crash ==
  /\ Up /\ stops < MaxStops /\ stops' = stops + 1
  /\ Goto("down") /\ todo' = <<>> /\ view' = users /\ Memory /\ banning' = {} /\ fine' = 0
  /\ begun' = NoTerms /\ replaced' = {} /\ overtaken' = {}
  \* Officials keep their role without a term.
  /\ appointed' = appointed \cup {u \in Registered : Official(users, u)}
  /\ peak' = Zeros /\ slashedAt' = [a \in Accounts |-> -1]
  /\ UNCHANGED <<usersVars, height, saved, now, payouts, paid, bans>>

Restart ==
  /\ pc = "down" /\ Goto("idle") /\ height' = saved
  /\ UNCHANGED <<usersVars, saved, now, view, todo, memory, banning, fine, ghosts>>

GovernanceNext ==
  \/ BeginBlock \/ ExpireTerm \/ StartSalary \/ CreditSalary \/ SalaryPaid
  \/ StartSlashing \/ SlashUser \/ FundReserve \/ StartRotation \/ Demote \/ Check \/ Promote \/ Rotated
  \/ StartWeights \/ WriteWeight \/ EndBlock
  \/ \E u \in Registered : RecordRelay(u) \/ Ban(u) \/ Unban(u)
  \/ \E u \in Registered, role \in {"relay", "record"} : RegisterNode(u, role)
  \/ TakeRole \/ Crash \/ Restart

\* The users and the pool of the store are what the keeper left there.
UsersGiven ==
  /\ Registered \subseteq Accounts /\ users \in [Registered -> UserBlock]
  /\ pool \in PoolRecord
GovernanceSpec ==
  UsersGiven /\ GovernanceInit /\ [][GovernanceNext]_<<usersVars, governVars>>

-----------------------------------------------------------------------------
(* A salary or a penalty counts for the limit only within its block: at    *)
(* the end of every block the limit is what the repayments give.           *)
LimitsForgotten ==
  (pc = "idle" /\ height > 0 /\ stops = 0) => \A u \in Registered : users[u].limit = IF users[u].seed THEN Base ELSE 0

(* The budget is never used up, yet each payout stays within it; and there *)
(* is one payout a month and, since the date is in memory only, one more   *)
(* after every restart.                                                    *)
PaysBounded ==
  /\ paid <= payouts * (pool.relay + pool.record)
  /\ payouts <= (height \div Month) + 2 * stops

(* All slashes of a node together stay below the cap of the largest limit  *)
(* it was slashed at, whatever the difference to the cap of a day wraps to.*)
SlashesCapped == \A u \in Accounts : 100 * slashed[u] <= CapPercent * peak[u]

(* Two slashes of a node are so many blocks apart as the streak is long:   *)
(* blocks, though the configuration speaks of quarters.                    *)
SlashesApart ==
  [][\A u \in Accounts :
       (slashedAt[u] >= 0 /\ slashedAt'[u] > slashedAt[u]) => slashedAt'[u] - slashedAt[u] >= Lows]_governVars

(* A banned node whose ban was finished is no official, unless the loop    *)
(* wrote an older record over the ban or the message server did.           *)
BannedStaysOut ==
  \A u \in blacklist \ (banning \cup overtaken \cup appointed) : ~Official(users, u)

(* Nobody begins more terms in a row than the limit allows, unless one of  *)
(* his terms was written over or lost with the process.                    *)
TermsLimited ==
  \A u \in Accounts \ replaced : begun[u] = <<>> \/ Consecutive(begun[u]) <= MaxTerms

(* An official serves a term, so that he can be voted out by time, unless  *)
(* the message server appointed him, the process stopped since, or his     *)
(* role came back from an older record.                                    *)
OfficialsServe ==
  pc \in {"idle", "expire"} =>
    \A u \in Registered : Official(users, u) => u \in DOMAIN terms \cup appointed \cup overtaken

(* Salaries, slashes, bans, exams and terms hold to their limits, but for   *)
(* what a restart forgets.                                                  *)
GovernanceSound ==
  /\ [](/\ LimitsForgotten /\ PaysBounded /\ SlashesCapped
        /\ BannedStaysOut /\ TermsLimited /\ OfficialsServe)
  /\ SlashesApart
==============================================================================
