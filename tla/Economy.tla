-------------------------------- MODULE Economy ------------------------------
(***************************************************************************)
(* The gold of a game, app/game/economy/economy.go, and the author's       *)
(* changes of its parameters, app/game/author/governance.go.  Prices are a *)
(* map that UpdateParams takes over as it is and GetParams hands out: the  *)
(* model has the maps as cells, so that two owners may hold one.           *)
(***************************************************************************)
EXTENDS Integers, Sequences, FiniteSets, Functions

CONSTANTS Customers, Authors, Pleas,
          GoldWidth,                 \* 2^64
          Shares, Rates,             \* rates are in shares of gold per outside unit
          Cooldowns, DailyLimits,    \* what else the parameters may be
          Announcement,              \* 72 hours
          Golds, Units, MallPrices,  \* inputs
          MaxHours, MaxGoldOps, MaxChanges  \* bounds of the model

ASSUME EconomyAssumption ==
  /\ GoldWidth \in Nat \ {0} /\ Shares \in Nat \ {0} /\ Rates \subseteq Nat \ {0}
  /\ Golds \subseteq Nat \ {0} /\ Units \subseteq Nat \ {0}
  /\ Cooldowns \subseteq Nat /\ DailyLimits \subseteq Nat /\ MallPrices \subseteq Nat
  /\ {Announcement, MaxHours, MaxGoldOps, MaxChanges} \subseteq Nat

VARIABLES circulation, reserve, daily, lastAt, hour,
          params,    \* [recharge, withdraw, cooldown, limit, mall: a cell]
          cells,     \* the price in each map
          \* history: operations; gold that came and went by each way; the
          \* shares of what was paid out at the rates of then, and of the
          \* units paid for less than their gold
          goldOps, recharged, withdrawn, added, issued, burned, paid, small,
          \* history: by customer, withdrawals since the last reset
          sinceReset

goldVars == <<circulation, reserve, daily, lastAt, goldOps, recharged, withdrawn, added, issued, burned, paid, small,
              sinceReset>>

\* What a proposal may bring, with a map of prices.
Terms(mall) == [recharge : Rates, withdraw : Rates, cooldown : Cooldowns, limit : DailyLimits, mall : {mall}]

GoldInit ==
  /\ circulation = 0 /\ reserve = 0 /\ daily = <<>> /\ lastAt = <<>> /\ hour = 0
  /\ params \in Terms(1) /\ cells = <<0>>
  /\ goldOps = 0 /\ recharged = 0 /\ withdrawn = 0 /\ added = 0 /\ issued = 0 /\ burned = 0
  /\ paid = 0 /\ small = 0
  /\ sinceReset = [c \in Customers |-> <<>>]

Spend == goldOps < MaxGoldOps /\ goldOps' = goldOps + 1

AtLeastOne(n) == IF n = 0 THEN 1 ELSE n

(* The reserve and the circulation have the gold, both; only the reserve   *)
(* is looked at for a word that goes over.  Gold past a word, for which Go *)
(* leaves the conversion from float64 open, is left out.                   *)
Recharge(units) ==
  LET gold == AtLeastOne((units * params.recharge) \div Shares) IN
  /\ reserve + gold < GoldWidth
  /\ Spend /\ reserve' = reserve + gold /\ circulation' = (circulation + gold) % GoldWidth
  /\ recharged' = recharged + gold
  /\ UNCHANGED <<daily, lastAt, withdrawn, added, issued, burned, paid, small, sinceReset>>

Drawn(c) == IF c \in DOMAIN daily THEN daily[c] ELSE 0
Set(f, x, y) == [z \in DOMAIN f \cup {x} |-> IF z = x THEN y ELSE f[z]]

\* The gold in circulation is not looked at.
WithinUnchecked(gold) == TRUE

Within(gold) == gold <= circulation

\* What was withdrawn before does not count.
MayWithdrawOnce(c, gold) == params.limit > 0 => gold <= params.limit

MayWithdraw(c, gold) == params.limit > 0 => (Drawn(c) + gold) % GoldWidth <= params.limit

Rested(c) == (params.cooldown > 0 /\ c \in DOMAIN lastAt) => hour - lastAt[c] >= params.cooldown

Withdraw(c, gold) ==
  LET whole == (gold * Shares) \div params.withdraw  units == AtLeastOne(whole) IN
  /\ MayWithdraw(c, gold) /\ Rested(c) /\ Within(gold)
  /\ Spend /\ circulation' = circulation - gold
  /\ daily' = Set(daily, c, (Drawn(c) + gold) % GoldWidth) /\ lastAt' = Set(lastAt, c, hour)
  /\ withdrawn' = withdrawn + gold /\ paid' = paid + units * params.withdraw
  /\ small' = IF whole = 0 THEN small + params.withdraw ELSE small
  /\ sinceReset' = [sinceReset EXCEPT ![c] = Append(@, [gold |-> gold, limit |-> params.limit])]
  /\ UNCHANGED <<reserve, recharged, added, issued, burned>>

ResetDailyWithdraws ==
  /\ daily' = <<>> /\ sinceReset' = [c \in Customers |-> <<>>]
  /\ UNCHANGED <<circulation, reserve, lastAt, goldOps, recharged, withdrawn, added, issued, burned, paid, small>>

AddGoldReserve(n) ==
  /\ reserve + n < GoldWidth
  /\ Spend /\ reserve' = reserve + n /\ added' = added + n
  /\ UNCHANGED <<circulation, daily, lastAt, recharged, withdrawn, issued, burned, paid, small, sinceReset>>

\* The reserve is not looked at.
InReserveUnchecked(n) == TRUE

InReserve(n) == n <= reserve

IssueGold(n) ==
  /\ Spend /\ InReserve(n)
  /\ reserve' = reserve - n /\ circulation' = (circulation + n) % GoldWidth /\ issued' = issued + n
  /\ UNCHANGED <<daily, lastAt, recharged, withdrawn, added, burned, paid, small, sinceReset>>

BurnGold(n) ==
  /\ Spend /\ n <= circulation
  /\ circulation' = circulation - n /\ burned' = burned + n
  /\ UNCHANGED <<reserve, daily, lastAt, recharged, withdrawn, added, issued, paid, small, sinceReset>>

Hour == hour < MaxHours /\ hour' = hour + 1

GoldNext ==
  \/ /\ \/ \E n \in Units : Recharge(n)
        \/ \E c \in Customers, n \in Golds : Withdraw(c, n)
        \/ ResetDailyWithdraws
        \/ \E n \in Golds : AddGoldReserve(n) \/ IssueGold(n) \/ BurnGold(n)
     /\ UNCHANGED <<hour, params, cells>>
  \/ Hour /\ UNCHANGED <<goldVars, params, cells>>

-----------------------------------------------------------------------------
(* The author's changes.  The check of the author and the change are under *)
(* two locks; an ID is the author, the hour (the second of the code) and   *)
(* the reason.                                                             *)

VARIABLES author,     \* of the game: a sequence of none or one
          checked,    \* proposals between the two locks
          pending,    \* changes by ID
          log,        \* auditLogs: [change, at, by, prices: those of then]
          proposed,   \* history: how many there were
          dropped,    \* history: changes that were cancelled or replaced
          repriced    \* history: cells that SetMallPrice wrote to

authorVars == <<author, checked, pending, log, proposed, dropped, repriced>>

AuthorInit ==
  author = <<>> /\ checked = {} /\ pending = <<>> /\ log = <<>> /\ proposed = 0 /\ dropped = {} /\ repriced = {}

\* The last one to register.
MayRegisterAlways(a) == TRUE

MayRegister(a) == author = <<>> \/ author = <<a>>

RegisterGameAuthor(a) ==
  /\ MayRegister(a) /\ author' = <<a>>
  /\ UNCHANGED <<checked, pending, log, proposed, dropped, repriced>>

(* checkAuthor.  The new parameters have prices of their own, or the map   *)
(* of the copy that GetParams gave.                                        *)
Propose(a, reason, emergency, price) ==
  /\ author = <<a>> /\ proposed < MaxChanges /\ proposed' = proposed + 1
  /\ \E own \in BOOLEAN :
       LET mall == IF own THEN Len(cells) + 1 ELSE params.mall IN
       /\ cells' = IF own THEN Append(cells, price) ELSE cells
       /\ \E new \in Terms(mall) :
            checked' = checked \cup
              {[by |-> a, reason |-> reason, emergency |-> emergency, new |-> new, price |-> cells'[mall],
                number |-> proposed + 1, at |-> hour]}
  /\ UNCHANGED <<author, pending, log, dropped, repriced>>

Id(c) == <<c.by, c.at, c.reason>>

\* The day it is announced.
DueAtOnce(c) == c.at

Due(c) == IF c.emergency THEN c.at ELSE c.at + Announcement

CreatePendingChange(c) ==
  /\ c \in checked /\ checked' = checked \ {c}
  /\ dropped' = IF Id(c) \in DOMAIN pending THEN dropped \cup {pending[Id(c)].number} ELSE dropped
  /\ pending' = Set(pending, Id(c), c)
  /\ UNCHANGED <<author, log, proposed, repriced, cells>>

CancelChange(a, id) ==
  /\ pending[id].by = a
  /\ pending' = Restrict(pending, DOMAIN pending \ {id}) /\ dropped' = dropped \cup {pending[id].number}
  /\ UNCHANGED <<author, checked, log, proposed, repriced, cells>>

\* The prices in force.
LoggedOld(c, at, by) == [change |-> c, at |-> at, by |-> by, price |-> cells[params.mall]]

\* The prices of the log are a copy.
Logged(c, at, by) == [change |-> c, at |-> at, by |-> by, price |-> cells[c.new.mall]]

(* ExecuteChange: the caller's time; it logs the change and leaves the     *)
(* parameters alone.                                                       *)
ExecuteChange(id, at) ==
  /\ pending[id].emergency \/ at >= Due(pending[id])
  /\ log' = Append(log, Logged(pending[id], at, "execute"))
  /\ pending' = Restrict(pending, DOMAIN pending \ {id})
  /\ UNCHANGED <<author, checked, proposed, dropped, repriced, cells, params>>

\* Emergency changes too.
ExpiredAll(id, at) == at >= Due(pending[id])

Expired(id, at) == ~pending[id].emergency /\ at >= Due(pending[id])

(* ProcessExpiredChanges: those that are due, in an order that the map     *)
(* gives; UpdateParams takes over all of each, and the last one stays.     *)
ProcessExpiredChanges(at) ==
  LET due == {id \in DOMAIN pending : Expired(id, at)} IN
  /\ due # {}
  /\ \E order \in [1..Cardinality(due) -> due] :
       /\ Range(order) = due
       /\ params' = pending[order[Len(order)]].new
       /\ log' = log \o [i \in DOMAIN order |-> Logged(pending[order[i]], at, "process")]
  /\ pending' = Restrict(pending, DOMAIN pending \ due)
  /\ UNCHANGED <<author, checked, proposed, dropped, repriced, cells>>

SetMallPrice(n) ==
  /\ cells' = [cells EXCEPT ![params.mall] = n] /\ repriced' = repriced \cup {params.mall}
  /\ UNCHANGED <<author, checked, pending, log, proposed, dropped, params>>

AuthorNext ==
  \/ /\ \/ \E a \in Authors : RegisterGameAuthor(a) /\ UNCHANGED cells
        \/ \E a \in Authors, r \in Pleas, e \in BOOLEAN, n \in MallPrices : Propose(a, r, e, n)
        \/ \E c \in checked : CreatePendingChange(c)
        \/ \E id \in DOMAIN pending, a \in Authors : CancelChange(a, id)
     /\ UNCHANGED <<params, hour>>
  \/ /\ \/ \E id \in DOMAIN pending : ExecuteChange(id, hour)
        \/ ProcessExpiredChanges(hour)
        \/ \E n \in MallPrices : SetMallPrice(n)
     /\ UNCHANGED hour
  \/ Hour /\ UNCHANGED <<params, cells, authorVars>>

\* The gold and the author's changes together, on one clock.
EconomyInit == GoldInit /\ AuthorInit
EconomyNext == (GoldNext /\ UNCHANGED authorVars) \/ (AuthorNext /\ UNCHANGED goldVars)
economyVars == <<goldVars, hour, params, cells, authorVars>>
EconomySpec == EconomyInit /\ [][EconomyNext]_economyVars

-----------------------------------------------------------------------------
(* The gold in circulation came in by a recharge or an issue and has not   *)
(* gone, in words: only the reserve is guarded against going over one.  A  *)
(* recharge counts in the reserve as well, and an issue may hand the same  *)
(* gold out a second time.  No more leaves than ever came.                 *)
GoldTraced ==
  /\ circulation = (recharged + issued - withdrawn - burned) % GoldWidth
  /\ reserve = recharged + added - issued
  /\ reserve >= 0 /\ withdrawn + burned <= recharged + issued

(* What is paid out to the outside, at the rates of its time, is worth no  *)
(* more than the gold that came in and what was issued over it, and the    *)
(* units for withdrawals that are too small for one, though the two rates  *)
(* are changed in between.                                                 *)
PayoutsBacked == paid <= Shares * (recharged + issued) + small

(* Between two resets a customer withdraws no more than the limit he met,  *)
(* or so much that the sum of the day went over a word.                    *)
DailyLimited ==
  \A c \in Customers :
    LET own == sinceReset[c]
        golds == [i \in DOMAIN own |-> own[i].gold] IN
    \A k \in DOMAIN own : own[k].limit > 0 => SumFunctionOnSet(golds, 1..k) % GoldWidth <= own[k].limit

(* The parameters in force are the first ones or those of a change that    *)
(* was announced long enough, never of an emergency: that is logged as     *)
(* executed and not applied by anything.                                   *)
AnnouncedBeforeForce ==
  [][params' # params =>
       \E i \in DOMAIN log' \ DOMAIN log :
         /\ params' = log'[i].change.new
         /\ ~log'[i].change.emergency /\ hour >= log'[i].change.at + Announcement]_<<params, log>>

(* A change is of the author that the game has, and what was proposed is   *)
(* on its way, pending, logged once or dropped: cancelled, or replaced by  *)
(* a proposal of the same second and reason.                               *)
ChangesTraced ==
  LET alive == {c.number : c \in checked} \cup {pending[id].number : id \in DOMAIN pending}
      logged == {log[i].change.number : i \in DOMAIN log} IN
  /\ \A id \in DOMAIN pending : author = <<pending[id].by>>
  /\ alive \cup logged \cup dropped = 1..proposed
  /\ Cardinality(logged) = Len(log)
  /\ alive \cap logged = {} /\ dropped \cap (alive \cup logged) = {}

(* The prices that a change logs are those it was proposed with, unless    *)
(* SetMallPrice wrote to the map that it shares with the parameters.       *)
PricesAsProposed == \A i \in DOMAIN log : log[i].price # log[i].change.price => log[i].change.new.mall \in repriced

(* Gold, payouts, limits, prices and changes of parameters can be traced    *)
(* to what caused them.                                                     *)
EconomySound ==
  /\ [](GoldTraced /\ PayoutsBacked /\ DailyLimited /\ ChangesTraced /\ PricesAsProposed)
  /\ AnnouncedBeforeForce
==============================================================================
