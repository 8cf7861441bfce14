-------------------------------- MODULE Users --------------------------------
(***************************************************************************)
(* The users, bonds and pool of x/brightchain/keeper/keeper.go, and the    *)
(* shares of game fees of app/app.go.  Users are numbered in the order of  *)
(* their keys, in which the store lists them.  The block loop and the      *)
(* message server call the keeper at once: a registration and a payment    *)
(* into the pool read in one transaction of the store and write in another.*)
(***************************************************************************)
EXTENDS Integers, Sequences, FiniteSets, Functions

CONSTANTS Accounts,         \* \subseteq Nat, in the order of the keys
          Callers,          \* the block loop and the message server
          MinGenesisUsers,  \* 3
          MaxWeight,        \* hard limit of a trust weight
          Wrap              \* 2^64

ASSUME UsersAssumption ==
  /\ Accounts \subseteq Nat /\ IsFiniteSet(Accounts) /\ IsFiniteSet(Callers)
  /\ Wrap \in Nat \ {0}
  /\ MinGenesisUsers \in Nat \ {0} /\ MaxWeight \in Nat /\ MaxWeight >= 50

VARIABLES users,   \* the stored user blocks
          bonds,   \* bond by its two parties: [total, status]
          pool,    \* the parts of the pool and its total; and, as history
                   \* that a stale write takes back too: the shares of
                   \* authors and servers, what rounding lost, the fees, and
                   \* whether the products of one of them wrapped
          calls,   \* what a caller has read and has still to write
          \* history: who vouched for a user when it was registered first,
          \* whether references or weights changed since the last cascade,
          \* the last liability, and all shares of authors and servers
          vouched, fresh, liability, shared

usersVars == <<users, bonds, pool, calls, vouched, fresh, liability, shared>>

Registered == DOMAIN users
Sorted(S) ==
  [i \in 1..Cardinality(S) |-> CHOOSE x \in S : Cardinality({y \in S : y < x}) = i - 1]
SumOf(S, f(_)) == SumFunction([x \in S |-> f(x)])
Least(a, b) == IF a < b THEN a ELSE b
NoLiability == [id |-> 0, debt |-> 0, covered |-> TRUE]
Plus(x, n) == (x + n) % Wrap
Idle == [what |-> "idle"]
NoFees == [relay |-> 0, record |-> 0, seed |-> 0, bad |-> 0, community |-> 0, games |-> 0,
           total |-> 0, shares |-> 0, lost |-> 0, fees |-> 0, wide |-> FALSE]

UsersInit ==
  /\ users = <<>> /\ bonds = <<>>
  /\ pool = NoFees /\ calls = [c \in Callers |-> Idle]
  /\ vouched = <<>> /\ fresh = FALSE /\ liability = NoLiability /\ shared = 0

Put(f, k, v) == [x \in DOMAIN f \cup {k} |-> IF x = k THEN v ELSE f[x]]

-----------------------------------------------------------------------------
\* A credential of anybody with a key counts.
ValidAny(c) == c.genuine

(* A credential: its signature, by an inviter who is registered.  Neither  *)
(* the invitee in it nor its expiry is looked at.                          *)
Valid(c) == c.genuine /\ c.inviter \in Registered

GenesisPhase == Cardinality(Registered) < MinGenesisUsers

NewUser ==
  [seed |-> ~GenesisPhase, role |-> "none", by |-> <<>>, salary |-> 0, games |-> 0,
   weight |-> IF GenesisPhase THEN 50 ELSE 10,
   limit |-> IF GenesisPhase THEN 100 ELSE 10]

(* RegisterUser in four transactions: the user is looked up, the phase and *)
(* the credentials are looked at (users are never removed, so that what    *)
(* they show stays), the phase is read again for the new block, and the    *)
(* block is put, over that of another registration of the same user.       *)
RegisterUser(c, a, creds) ==
  /\ calls[c] = Idle /\ a \notin Registered
  /\ calls' = [calls EXCEPT ![c] = [what |-> "register", who |-> a, creds |-> creds]]
  /\ UNCHANGED <<users, bonds, pool, vouched, fresh, liability, shared>>

Admit(c) ==
  LET creds == calls[c].creds
      valid == {i \in DOMAIN creds : Valid(creds[i])} IN
  /\ calls[c].what = "register"
  /\ calls' = [calls EXCEPT ![c] =
       IF GenesisPhase \/ Cardinality(valid) >= MinGenesisUsers
       THEN [what |-> "admitted", who |-> calls[c].who,
             by |-> IF GenesisPhase THEN {} ELSE {creds[i].inviter : i \in valid}]
       ELSE Idle]
  /\ UNCHANGED <<users, bonds, pool, vouched, fresh, liability, shared>>

Describe(c) ==
  /\ calls[c].what = "admitted"
  /\ calls' = [calls EXCEPT ![c] = [what |-> "described", who |-> calls[c].who,
                                    by |-> calls[c].by, user |-> NewUser]]
  /\ UNCHANGED <<users, bonds, pool, vouched, fresh, liability, shared>>

PutUser(c) ==
  LET a == calls[c].who IN
  /\ calls[c].what = "described"
  /\ users' = Put(users, a, calls[c].user)
  /\ vouched' = IF a \in Registered THEN vouched ELSE Put(vouched, a, calls[c].by)
  /\ fresh' = TRUE /\ calls' = [calls EXCEPT ![c] = Idle]
  /\ UNCHANGED <<bonds, pool, liability, shared>>

(* CreateBond: a second bond of the same two replaces the first one, and   *)
(* its reference is listed once more.                                      *)
CreateBond(inviter, invitee, notes) ==
  /\ bonds' = Put(bonds, <<inviter, invitee>>, [total |-> 100 * notes, status |-> "active"])
  /\ users' = IF invitee \in Registered
              THEN [users EXCEPT ![invitee].by = Append(@, inviter)] ELSE users
  /\ fresh' = (fresh \/ invitee \in Registered)
  /\ UNCHANGED <<pool, calls, vouched, liability, shared>>

(* ReleaseBond and ForfeitBond, whatever the status was.                   *)
SetBond(b, status) ==
  /\ b \in DOMAIN bonds
  /\ bonds' = [bonds EXCEPT ![b].status = status]
  /\ UNCHANGED <<users, pool, calls, vouched, fresh, liability, shared>>

-----------------------------------------------------------------------------
(* RecalculateTrustWeights.  The map of a round is filled as the users are *)
(* walked: only guarantors up to the user's own key are found in it.       *)
Base == 10
Step(weight, u, by) ==
  LET w[i \in 0..Len(by)] ==
        IF i = 0 THEN weight
        ELSE IF by[i] \in DOMAIN weight /\ by[i] <= u
             THEN [w[i - 1] EXCEPT ![u] = Least(@ + (8 * w[i - 1][by[i]]) \div 10, MaxWeight)]
             ELSE w[i - 1]
  IN  w[Len(by)]
Round(weight, by) ==
  LET us == Sorted(DOMAIN by)
      w[i \in 0..Len(us)] == IF i = 0 THEN weight ELSE Step(w[i - 1], us[i], by[us[i]])
  IN  w[Len(us)]
References(us) == [u \in DOMAIN us |-> us[u].by]
Rounds(weight, by) == Round(Round(Round(weight, by), by), by)

\* The cascade if it started from the weights of the last block.
CascadeOn(us) == Rounds([u \in DOMAIN us |-> us[u].weight], References(us))

Cascade(us) == Rounds([u \in DOMAIN us |-> Base], References(us))

\* A limit that keeps the salaries.
LimitAndSalary(u) == (IF u.seed THEN Base ELSE 0) + u.salary

\* Nothing in the program adds to the sum of repayments, which is 0.
Limit(u) == IF u.seed THEN Base ELSE 0
Recalculated(us) ==
  LET weight == Cascade(us) IN
  [u \in DOMAIN us |-> [us[u] EXCEPT !.weight = weight[u], !.limit = Limit(us[u])]]

Recalculate ==
  /\ users' = Recalculated(users)
  /\ fresh' = FALSE
  /\ UNCHANGED <<bonds, pool, calls, vouched, liability, shared>>

-----------------------------------------------------------------------------
\* A share of which the author of the fee keeps the remainder.
CutUp(amount, percent) == ((amount * percent + 99) % Wrap) \div 100

Cut(amount, percent) == ((amount * percent) % Wrap) \div 100

\* A share that is rounded off is given to nobody: the ghost counts it.
Lost(amount) ==
  amount - (Cut(amount, 25) + Cut(amount, 25) + Cut(amount, 20) + Cut(amount, 15) + Cut(amount, 15))

\* The fees if the community's share were left out.
WithFeeDropped(p, amount) ==
  [p EXCEPT !.relay = Plus(@, Cut(amount, 25)), !.record = Plus(@, Cut(amount, 25)),
            !.seed = Plus(@, Cut(amount, 20)), !.bad = Plus(@, Cut(amount, 15)),
            !.total = Plus(@, amount),
            !.lost = @ + Lost(amount), !.fees = @ + 1,
            !.wide = @ \/ amount * 25 >= Wrap]

(* What CollectFees makes of the pool it has read.                         *)
WithFee(p, amount) ==
  [p EXCEPT !.relay = Plus(@, Cut(amount, 25)), !.record = Plus(@, Cut(amount, 25)),
            !.seed = Plus(@, Cut(amount, 20)), !.bad = Plus(@, Cut(amount, 15)),
            !.community = Plus(@, Cut(amount, 15)), !.total = Plus(@, amount),
            !.lost = @ + Lost(amount), !.fees = @ + 1,
            !.wide = @ \/ amount * 25 >= Wrap]

Nothing == [server |-> 0, s |-> 0, author |-> 0, a |-> 0]

(* CollectFees, and RecordGameTx up to its write: the pool is read.        *)
CollectFees(c, amount) ==
  /\ calls[c] = Idle
  /\ calls' = [calls EXCEPT ![c] = [what |-> "pool", next |-> WithFee(pool, amount), earned |-> Nothing]]
  /\ UNCHANGED <<users, bonds, pool, vouched, fresh, liability, shared>>

(* The fee of a game has four bytes, its products do not wrap.             *)
RecordGameTx(c, author, server, fee, authorShare, serverShare) ==
  LET a == Cut(fee, authorShare)
      s == Cut(fee, serverShare) IN
  /\ calls[c] = Idle /\ fee > 0 /\ fee * 100 < Wrap
  /\ calls' = [calls EXCEPT ![c] =
       [what |-> "pool", earned |-> [server |-> server, s |-> s, author |-> author, a |-> a],
        next |-> [pool EXCEPT !.games = Plus(@, fee - a - s), !.total = Plus(@, fee),
                              !.shares = @ + a + s]]]
  /\ UNCHANGED <<users, bonds, pool, vouched, fresh, liability, shared>>

SetPool(c) ==
  /\ calls[c].what = "pool"
  /\ pool' = calls[c].next
  /\ calls' = [calls EXCEPT ![c] = IF calls[c].earned = Nothing THEN Idle
                                   ELSE [what |-> "earned", earned |-> calls[c].earned]]
  /\ UNCHANGED <<users, bonds, vouched, fresh, liability, shared>>

Earn(us, who, amount) ==
  IF who \in DOMAIN us THEN [us EXCEPT ![who].games = Plus(@, amount)] ELSE us

(* The end of RecordGameTx: the author who runs the server gets one of the *)
(* shares.                                                                 *)
PayShares(c) ==
  LET e == calls[c].earned IN
  /\ calls[c].what = "earned"
  /\ users' = IF e.author = e.server THEN Earn(users, e.server, e.s)
              ELSE Earn(Earn(users, e.server, e.s), e.author, e.a)
  /\ shared' = shared + e.a + e.s
  /\ calls' = [calls EXCEPT ![c] = Idle]
  /\ UNCHANGED <<bonds, pool, vouched, fresh, liability>>

BindGameServer(u) ==
  /\ u \in Registered /\ users[u].role = "none"
  /\ users' = [users EXCEPT ![u].role = "game"]
  /\ UNCHANGED <<bonds, pool, calls, vouched, fresh, liability, shared>>

-----------------------------------------------------------------------------
(* ProcessRecursiveLiabilityInstant: s = [us, bs, due, who, going]; each   *)
(* round takes from the first forfeited bond of the debtor, then from its  *)
(* guarantor, who is the next debtor.                                      *)
Taken(have, due) == Least(have, due)
ForfeitedOf(s) ==
  {b \in DOMAIN s.bs : s.bs[b].status = "forfeited" /\ b[2] = s.who /\ b[1] \in DOMAIN s.us}
FirstForfeited(s) == CHOOSE b \in ForfeitedOf(s) : \A c \in ForfeitedOf(s) : b[1] <= c[1]

\* A round if what the guarantor gave were not taken off the debt.
RecoverTwice(s) ==
  IF ~s.going \/ s.due = 0 \/ ForfeitedOf(s) = {} THEN [s EXCEPT !.going = FALSE]
  ELSE LET b == FirstForfeited(s)
           fromBond == Taken(s.bs[b].total, s.due)
           left == s.due - fromBond
           fromLimit == Taken(s.us[b[1]].limit, left) IN
       [s EXCEPT !.bs[b].total = @ - fromBond, !.us[b[1]].limit = @ - fromLimit,
                 !.due = left, !.who = b[1]]

Recover(s) ==
  IF ~s.going \/ s.due = 0 \/ ForfeitedOf(s) = {} THEN [s EXCEPT !.going = FALSE]
  ELSE LET b == FirstForfeited(s)
           fromBond == Taken(s.bs[b].total, s.due)
           left == s.due - fromBond
           fromLimit == Taken(s.us[b[1]].limit, left) IN
       [s EXCEPT !.bs[b].total = @ - fromBond, !.us[b[1]].limit = @ - fromLimit,
                 !.us[b[1]].weight = IF fromLimit > 0 THEN (@ * 8) \div 10 ELSE @,
                 !.due = left - fromLimit, !.who = b[1]]

\* The debit of a limit that may go below zero.
DebitedBelow(u, debt) == [users EXCEPT ![u].limit = @ - debt, ![u].weight = (@ * 9) \div 10]

Debited(u, debt) ==
  IF users[u].limit >= debt
  THEN [users EXCEPT ![u].limit = @ - debt, ![u].weight = (@ * 9) \div 10]
  ELSE [users EXCEPT ![u].limit = 0, ![u].weight = 0]

Liable(u, debt) ==
  LET start == [us |-> Debited(u, debt), bs |-> bonds, who |-> u, going |-> TRUE,
                due |-> debt - Taken(users[u].limit, debt)]
      after[i \in 0..5] == IF i = 0 THEN start ELSE Recover(after[i - 1])
      end == after[5]
      covered == end.due <= pool.bad IN
  /\ u \in Registered
  /\ users' = end.us /\ bonds' = end.bs
  /\ pool' = IF covered THEN [pool EXCEPT !.bad = @ - end.due, !.total = Plus(@, -end.due)] ELSE pool
  /\ liability' = [id |-> liability.id + 1, debt |-> debt, covered |-> covered]
  /\ fresh' = TRUE
  /\ UNCHANGED <<calls, vouched, shared>>

(* applyProvisionDeduction: what the limit cannot pay costs trust.         *)
Deducted(u, amount) ==
  LET rest == amount - Taken(u.limit, amount)
      weight == IF u.weight < 1 THEN 1 ELSE u.weight
      penalty == Least((rest * 10) \div weight, 100)
      lower == (weight * (100 - penalty)) \div 100 IN
  IF rest = 0 THEN [u EXCEPT !.limit = @ - amount]
  ELSE [u EXCEPT !.limit = 0, !.weight = IF lower < 1 THEN 1 ELSE lower]

Deduct(u, amount) ==
  /\ u \in Registered
  /\ users' = [users EXCEPT ![u] = Deducted(@, amount)]
  /\ fresh' = TRUE
  /\ UNCHANGED <<bonds, pool, calls, vouched, liability, shared>>

Roles == {"none", "relay", "record", "game"}
UserBlock == [seed : BOOLEAN, role : Roles, by : Seq(Accounts), salary : Nat, games : Nat,
              weight : Nat, limit : Nat]
PoolRecord == [relay : Nat, record : Nat, seed : Nat, bad : Nat, community : Nat, games : Nat,
               total : Int, shares : Nat, lost : Nat, fees : Nat, wide : BOOLEAN]
Credential == [inviter : Accounts, genuine : BOOLEAN]

\* The shares of a game are no more than the fee: RegisterGame.
UsersNext ==
  \/ \E c \in Callers :
       \/ \E a \in Accounts, creds \in Seq(Credential) : RegisterUser(c, a, creds)
       \/ Admit(c) \/ Describe(c) \/ PutUser(c)
       \/ \E amount \in 0..Wrap - 1 : CollectFees(c, amount)
       \/ \E author, server \in Accounts, fee, a, s \in Nat :
            a + s <= 100 /\ RecordGameTx(c, author, server, fee, a, s)
       \/ SetPool(c) \/ PayShares(c)
  \/ \E a, b \in Accounts, notes \in Nat : CreateBond(a, b, notes)
  \/ \E b \in DOMAIN bonds, status \in {"released", "forfeited"} : SetBond(b, status)
  \/ Recalculate
  \/ \E u \in Accounts : BindGameServer(u)
  \/ \E u \in Accounts, amount \in Nat : Liable(u, amount) \/ Deduct(u, amount)

UsersSpec == UsersInit /\ [][UsersNext]_usersVars

-----------------------------------------------------------------------------
UsersType ==
  /\ Registered \subseteq Accounts
  /\ \A u \in Registered : users[u].weight \in 0..MaxWeight /\ users[u].limit \in Nat
  /\ DOMAIN vouched = Registered

(* Registration is rooted in the founders: whoever registered later was    *)
(* vouched for by users who were there before him, and so on down to them. *)
(* The calls that were admitted together before the last founder was put   *)
(* are founders too, so that there may be one more for every other caller. *)
(* That the three credentials are of three inviters is not checked.        *)
RootedInFounders ==
  LET Before(S) == {u \in Registered : vouched[u] # {} /\ vouched[u] \subseteq S}
      founders == {u \in Registered : vouched[u] = {}}
      grown[n \in 0..Cardinality(Registered)] ==
        IF n = 0 THEN founders ELSE grown[n - 1] \cup Before(grown[n - 1]) IN
  /\ Cardinality(founders) < MinGenesisUsers + Cardinality(Callers)
  /\ grown[Cardinality(Registered)] = Registered

(* The cascade of every block starts anew: without a new reference or user *)
(* the weights stay what they were, they do not grow block by block, and   *)
(* only references to guarantors that sort not after the user raise them.  *)
NoCompounding ==
  [][(fresh' = FALSE /\ users' = Recalculated(users)) =>
       \A u \in Registered :
         /\ users'[u].weight > Base => \E i \in DOMAIN users[u].by : users[u].by[i] <= u
         /\ ~fresh => users'[u].weight = users[u].weight]_usersVars

(* The total of the pool is, in words, its parts with what went to authors *)
(* and servers, whether such users exist or not, and what rounding lost of *)
(* the fees, less than five units each until the products of a fee wrap;   *)
(* a write of what was read before other calls takes back all of what they *)
(* did.  The users never earned more than went to authors and servers.     *)
PoolExplained ==
  LET parts == pool.relay + pool.record + pool.seed + pool.bad + pool.community + pool.games IN
  /\ pool.total = (parts + pool.shares + pool.lost) % Wrap
  /\ pool.lost >= 0 /\ (pool.wide \/ pool.lost <= 4 * pool.fees)
  /\ SumOf(Registered, LAMBDA u : users[u].games) <= shared

(* Recovering a debt at once takes exactly the debt from limits, bonds and *)
(* the reserve when it succeeds; when the reserve is too small what was    *)
(* taken from the others before is less than the debt, and stays taken.    *)
Worth(us, bs, p) ==
  SumOf(DOMAIN us, LAMBDA u : us[u].limit) + SumOf(DOMAIN bs, LAMBDA b : bs[b].total) + p.bad
LiabilityExact ==
  [][liability'.id # liability.id =>
       LET taken == Worth(users, bonds, pool) - Worth(users', bonds', pool') IN
       IF liability'.covered THEN taken = liability'.debt ELSE taken < liability'.debt]_usersVars

(* Users come from founders, pools and limits from what paid for them, and  *)
(* a liability is shared once and exactly.                                  *)
UsersSound ==
  [](UsersType /\ RootedInFounders /\ PoolExplained) /\ NoCompounding /\ LiabilityExact
==============================================================================
