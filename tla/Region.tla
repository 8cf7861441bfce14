------------------------------- MODULE Region -------------------------------
(***************************************************************************)
(* The region nodes of region/node.go and region/protocol.go, driven by    *)
(* node/region_integration.go: callers of SubmitRegionTx, the ProcessLoop  *)
(* of each node, monthly settlement, snapshots and a restart from them.    *)
(* A node has two locks: chainMu, held through a local transaction, and    *)
(* mu, held for one access to a balance and through SaveSnapshot.          *)
(***************************************************************************)
EXTENDS Integers, Sequences, FiniteSets, Functions

CONSTANTS Nodes,      \* region nodes of the process
          Origins,    \* those that SubmitRegionTx sends from
          Users, Home, \* Home[u]: the nodes u may become a member of
          Clients,    \* goroutines in SubmitRegionTx
          None,
          W,          \* 2^64 in the code
          Balances,   \* what a new member is registered with
          Amounts,    \* what is sent
          Base, LocalRate, CrossRate,  \* fee rates over Base
          QueueCap,   \* capacity of TxQueue
          Budgets     \* bounds: how often the environment does what

Chores == {"submit", "settle", "save", "restart"}

ASSUME RegionAssumption ==
  /\ Origins \subseteq Nodes /\ Home \in [Users -> SUBSET Nodes]
  /\ W \in Nat \ {0} /\ Base \in Nat \ {0}
  /\ LocalRate \in Nat /\ CrossRate \in Nat /\ QueueCap \in Nat \ {0}
  /\ Balances \subseteq 0..(W - 1) /\ Amounts \subseteq 0..(W - 1)
  /\ Budgets \subseteq [Chores -> Nat]
  /\ None \notin Nodes /\ None \notin Clients
  /\ None \notin [region : Nodes, number : Nat]
  /\ IsFiniteSet(Nodes) /\ IsFiniteSet(Users) /\ IsFiniteSet(Clients)

Plus(a, b) == (a + b) % W
LocalFee(a) == ((a * LocalRate) % W) \div Base
CrossFee(a) == ((a * CrossRate) % W) \div Base
HalfFee(a) == CrossFee(a) \div 2
\* OtherHalf without the remainder of the division.
OtherHalfEqual(a) == CrossFee(a) \div 2

OtherHalf(a) == CrossFee(a) - HalfFee(a)

VARIABLES members, balance, locked,
          txSeq, chain, queue, chainMu,
          earnings, crossEarnings,
          saving,     \* SaveSnapshot holds mu and waits for chainMu
          saved,      \* the last snapshot of each node
          txs,        \* the Transaction objects, by ID
          client,     \* where each goroutine is in SubmitRegionTx
          left,       \* what is left of a budget
          issued, fees, settled, \* history: registered, charged, paid out
          wrapped     \* history: members whose LockedAmt went past 64 bits

money == <<members, balance, locked>>
ledger == <<txSeq, chain, queue, txs>>
history == <<issued, fees, wrapped>>
vars == <<money, ledger, history, chainMu, earnings, crossEarnings, saving,
          saved, client, left, settled>>

ID(g, n) == [region |-> g, number |-> n]
Task(step, g, dest, from, to, a) ==
  [at |-> step, node |-> g, dest |-> dest, from |-> from, to |-> to,
   amount |-> a, id |-> None, read |-> 0]
Idle == Task("idle", None, None, None, None, 0)
Total(c) == IF client[c].at \in {"local", "lock", "unlock", "credit", "fee", "append"}
            THEN Plus(client[c].amount, LocalFee(client[c].amount))
            ELSE Plus(client[c].amount, CrossFee(client[c].amount))

Init ==
  /\ members = [g \in Nodes |-> {}]
  /\ balance = [g \in Nodes |-> [u \in Users |-> 0]]
  /\ locked = [g \in Nodes |-> [u \in Users |-> 0]]
  /\ txSeq = [g \in Nodes |-> 0]
  /\ chain = [g \in Nodes |-> <<>>]
  /\ queue = [g \in Nodes |-> <<>>]
  /\ chainMu = [g \in Nodes |-> None]
  /\ earnings = [g \in Nodes |-> 0]
  /\ crossEarnings = [g \in Nodes |-> 0]
  /\ saving = [g \in Nodes |-> FALSE]
  /\ saved = [g \in Nodes |-> None]
  /\ txs = <<>>
  /\ client = [c \in Clients |-> Idle]
  /\ left \in Budgets
  /\ issued = 0 /\ fees = 0 /\ settled = 0 /\ wrapped = {}

MuFree(g) == ~saving[g]
ChainFree(g) == chainMu[g] = None
At(c, step) == client[c].at = step
Goto(c, step) == client' = [client EXCEPT ![c].at = step]
Return(c) == client' = [client EXCEPT ![c] = Idle]
Record(id, tx) ==
  txs' = [i \in DOMAIN txs \cup {id} |-> IF i = id THEN tx ELSE txs[i]]
Spend(chore) == left[chore] > 0 /\ left' = [left EXCEPT ![chore] = @ - 1]

-----------------------------------------------------------------------------
(* AddRegionMember, called for new users.                                  *)
AddMember(g, u, b) ==
  /\ MuFree(g) /\ g \in Home[u] /\ u \notin members[g]
  /\ members' = [members EXCEPT ![g] = @ \cup {u}]
  /\ balance' = [balance EXCEPT ![g][u] = b]
  /\ locked' = [locked EXCEPT ![g][u] = 0]
  /\ issued' = issued + b
  /\ UNCHANGED <<ledger, fees, wrapped, chainMu, earnings, crossEarnings, saving,
                 saved, client, left, settled>>

\* LockBalance without the comparison with the balance.
CanPayAlways(g, u, a) == u \in members[g]

\* LockBalance returns an error when a member has too little.
CanPay(g, u, a) == u \in members[g] /\ balance[g][u] >= a

LockBalance(g, u, a) ==
  /\ balance' = [balance EXCEPT ![g][u] = @ - a]
  /\ locked' = [locked EXCEPT ![g][u] = Plus(@, a)]
  /\ wrapped' = IF locked[g][u] + a < W THEN wrapped ELSE wrapped \cup {<<g, u>>}

\* UnlockBalance returns an error when the lock is not there.
Unlocks(g, u, a) == u \in members[g] /\ locked[g][u] >= a
\* UnlockBalance if it released every lock of the member.
UnlockEverything(g, u, a) == locked' = [locked EXCEPT ![g][u] = 0]

UnlockBalance(g, u, a) == locked' = [locked EXCEPT ![g][u] = @ - a]

\* CreditBalance with an assignment for the addition.
CreditBalanceSet(g, u, a) == balance' = [balance EXCEPT ![g][u] = a]

CreditBalance(g, u, a) == balance' = [balance EXCEPT ![g][u] = Plus(@, a)]

(* SubmitRegionTx chooses the protocol from where the recipient is.        *)
Submit(c, g, from, to, a) ==
  /\ At(c, "idle") /\ Spend("submit")
  /\ LET elsewhere == {h \in Nodes \ {g} : to \in members[h]}
         send(step, dest) ==
           client' = [client EXCEPT ![c] = Task(step, g, dest, from, to, a)]
     IN IF to \in members[g] THEN send("local", g)
        ELSE IF elsewhere = {} THEN send("cross", None)
        ELSE \E h \in elsewhere : send("cross", h)
  /\ UNCHANGED <<money, ledger, history, chainMu, earnings, crossEarnings,
                 saving, saved, settled>>

-----------------------------------------------------------------------------
(* ExecuteLocalTx: chainMu is held from TakeChain to AppendLocal, mu only  *)
(* inside LockBalance, UnlockBalance and CreditBalance.                    *)
TakeChain(c) ==
  LET g == client[c].node IN
  /\ At(c, "local") /\ ChainFree(g)
  /\ chainMu' = [chainMu EXCEPT ![g] = c]
  /\ Goto(c, "lock")
  /\ UNCHANGED <<money, ledger, history, earnings, crossEarnings, saving,
                 saved, left, settled>>

\* LocalLock if the early return left chainMu locked.
LocalLockKeepsChain(c) ==
  LET g == client[c].node
      from == client[c].from
  IN /\ At(c, "lock") /\ MuFree(g)
     /\ IF CanPay(g, from, Total(c))
        THEN /\ LockBalance(g, from, Total(c))
             /\ txSeq' = [txSeq EXCEPT ![g] = @ + 1]
             /\ Goto(c, "unlock")
        ELSE Return(c) /\ UNCHANGED <<balance, locked, wrapped, txSeq>>
     /\ UNCHANGED <<members, chainMu, chain, queue, txs, issued, fees, earnings,
                    crossEarnings, saving, saved, left, settled>>

LocalLock(c) ==
  LET g == client[c].node
      from == client[c].from
  IN /\ At(c, "lock") /\ MuFree(g)
     /\ IF CanPay(g, from, Total(c))
        THEN /\ LockBalance(g, from, Total(c))
             /\ txSeq' = [txSeq EXCEPT ![g] = @ + 1]
             /\ Goto(c, "unlock")
             /\ UNCHANGED chainMu
        ELSE /\ chainMu' = [chainMu EXCEPT ![g] = None]
             /\ Return(c)
             /\ UNCHANGED <<balance, locked, wrapped, txSeq>>
     /\ UNCHANGED <<members, chain, queue, txs, issued, fees, earnings,
                    crossEarnings, saving, saved, left, settled>>

LocalUnlock(c) ==
  LET g == client[c].node
      from == client[c].from
  IN /\ At(c, "unlock") /\ MuFree(g)
     /\ IF Unlocks(g, from, Total(c))
        THEN /\ UnlockBalance(g, from, Total(c))
             /\ Goto(c, "credit")
             /\ UNCHANGED chainMu
        ELSE /\ chainMu' = [chainMu EXCEPT ![g] = None]
             /\ Return(c)
             /\ UNCHANGED locked
     /\ UNCHANGED <<members, balance, ledger, history, earnings,
                    crossEarnings, saving, saved, left, settled>>

LocalCredit(c) ==
  LET g == client[c].node IN
  /\ At(c, "credit") /\ MuFree(g)
  /\ CreditBalance(g, client[c].to, client[c].amount)
  /\ Goto(c, "fee")
  /\ UNCHANGED <<members, locked, ledger, history, chainMu, earnings,
                 crossEarnings, saving, saved, left, settled>>

\* r.Earnings += fee, without mu: the sum is read here and written below.
ReadEarnings(c) ==
  /\ At(c, "fee")
  /\ client' = [client EXCEPT ![c].at = "append",
                              ![c].read = earnings[client[c].node]]
  /\ UNCHANGED <<money, ledger, history, chainMu, earnings, crossEarnings,
                 saving, saved, left, settled>>

AppendLocal(c) ==
  LET g == client[c].node
      id == ID(g, txSeq[g])
      fee == LocalFee(client[c].amount)
  IN /\ At(c, "append")
     /\ earnings' = [earnings EXCEPT ![g] = Plus(client[c].read, fee)]
     /\ fees' = fees + fee
     /\ Record(id, [from |-> client[c].from, amount |-> client[c].amount,
                    seq |-> txSeq[g], status |-> "confirmed"])
     /\ chain' = [chain EXCEPT ![g] = Append(@, id)]
     /\ chainMu' = [chainMu EXCEPT ![g] = None]
     /\ Return(c)
     /\ UNCHANGED <<money, txSeq, queue, issued, wrapped, crossEarnings, saving,
                    saved, left, settled>>

-----------------------------------------------------------------------------
(* InitiateCrossRegion.                                                    *)
CrossLock(c) ==
  LET g == client[c].node
      from == client[c].from
  IN /\ At(c, "cross") /\ MuFree(g)
     /\ IF CanPay(g, from, Total(c))
        THEN LockBalance(g, from, Total(c)) /\ Goto(c, "number")
        ELSE Return(c) /\ UNCHANGED <<balance, locked, wrapped>>
     /\ UNCHANGED <<members, ledger, issued, fees, chainMu, earnings,
                    crossEarnings, saving, saved, left, settled>>

\* CrossNumber if it read the sequence number without incrementing it.
CrossNumberStale(c) ==
  LET g == client[c].node
      id == ID(g, txSeq[g])
  IN /\ At(c, "number") /\ ChainFree(g)
     /\ Record(id, [from |-> client[c].from, amount |-> client[c].amount,
                    seq |-> txSeq[g], status |-> "locked"])
     /\ client' = [client EXCEPT ![c].at = "enqueue", ![c].id = id]
     /\ UNCHANGED <<money, txSeq, chain, queue, history, chainMu, earnings,
                    crossEarnings, saving, saved, left, settled>>

CrossNumber(c) ==
  LET g == client[c].node
      id == ID(g, txSeq[g] + 1)
  IN /\ At(c, "number") /\ ChainFree(g)
     /\ txSeq' = [txSeq EXCEPT ![g] = @ + 1]
     /\ Record(id, [from |-> client[c].from, amount |-> client[c].amount,
                    seq |-> txSeq[g] + 1, status |-> "locked"])
     /\ client' = [client EXCEPT ![c].at = "enqueue", ![c].id = id]
     /\ UNCHANGED <<money, chain, queue, history, chainMu, earnings,
                    crossEarnings, saving, saved, left, settled>>

\* The transaction enters TxQueue.  For a recipient in no region of this
\* process SubmitRegionTx then returns: sendCrossRegionRequest sends nothing.
Enqueue(c) ==
  LET g == client[c].node IN
  /\ At(c, "enqueue") /\ Len(queue[g]) < QueueCap
  /\ queue' = [queue EXCEPT ![g] = Append(@, client[c].id)]
  /\ IF client[c].dest = None THEN Return(c) ELSE Goto(c, "verify")
  /\ UNCHANGED <<money, txSeq, chain, txs, history, chainMu, earnings,
                 crossEarnings, saving, saved, left, settled>>

VerifyCrossRegion(c) ==
  /\ At(c, "verify")
  /\ IF client[c].to \in members[client[c].dest]
     THEN Goto(c, "release") ELSE Return(c)
  /\ UNCHANGED <<money, ledger, history, chainMu, earnings, crossEarnings,
                 saving, saved, left, settled>>

(* FinalizeCrossRegion, one step for each call that takes mu.              *)
ReleaseLock(c) ==
  LET g == client[c].node
      from == client[c].from
  IN /\ At(c, "release") /\ MuFree(g)
     /\ IF Unlocks(g, from, Total(c))
        THEN UnlockBalance(g, from, Total(c)) /\ Goto(c, "pay") /\ UNCHANGED txs
        ELSE /\ txs' = [txs EXCEPT ![client[c].id].status = "failed"]
             /\ Return(c) /\ UNCHANGED locked
     /\ UNCHANGED <<members, balance, txSeq, chain, queue, history, chainMu,
                    earnings, crossEarnings, saving, saved, left, settled>>

PayRecipient(c) ==
  /\ At(c, "pay") /\ MuFree(client[c].dest)
  /\ CreditBalance(client[c].dest, client[c].to, client[c].amount)
  /\ Goto(c, "fee1")
  /\ UNCHANGED <<members, locked, ledger, history, chainMu, earnings,
                 crossEarnings, saving, saved, left, settled>>

\* AddCrossEarnings of the two nodes: the remainder goes to the recipient's.
EarnHere(c) ==
  LET g == client[c].node IN
  /\ At(c, "fee1") /\ MuFree(g)
  /\ crossEarnings' = [crossEarnings EXCEPT ![g] = Plus(@, HalfFee(client[c].amount))]
  /\ fees' = fees + HalfFee(client[c].amount)
  /\ Goto(c, "fee2")
  /\ UNCHANGED <<money, ledger, issued, wrapped, chainMu, earnings, saving,
                 saved, left, settled>>

EarnThere(c) ==
  LET h == client[c].dest
      rest == OtherHalf(client[c].amount)
  IN /\ At(c, "fee2") /\ MuFree(h)
     /\ crossEarnings' = [crossEarnings EXCEPT ![h] = Plus(@, rest)]
     /\ fees' = fees + CrossFee(client[c].amount) - HalfFee(client[c].amount)
     /\ txs' = [txs EXCEPT ![client[c].id].status = "confirmed"]
     /\ Return(c)
     /\ UNCHANGED <<money, txSeq, chain, queue, issued, wrapped, chainMu,
                    earnings, saving, saved, left, settled>>

-----------------------------------------------------------------------------
\* processTx if it kept the number the transaction already has.
ProcessTxKeepsSeq(g) ==
  /\ queue[g] # <<>> /\ ChainFree(g)
  /\ chain' = [chain EXCEPT ![g] = Append(@, Head(queue[g]))]
  /\ queue' = [queue EXCEPT ![g] = Tail(@)]
  /\ UNCHANGED <<money, txSeq, txs, history, chainMu, earnings, crossEarnings,
                 saving, saved, client, left, settled>>

(* ProcessLoop and processTx: the queued transaction is numbered again.    *)
ProcessTx(g) ==
  /\ queue[g] # <<>> /\ ChainFree(g)
  /\ txSeq' = [txSeq EXCEPT ![g] = @ + 1]
  /\ txs' = [txs EXCEPT ![Head(queue[g])].seq = txSeq[g] + 1]
  /\ chain' = [chain EXCEPT ![g] = Append(@, Head(queue[g]))]
  /\ queue' = [queue EXCEPT ![g] = Tail(@)]
  /\ UNCHANGED <<money, history, chainMu, earnings, crossEarnings, saving,
                 saved, client, left, settled>>

\* MonthlySettle; BatchFeesPaid is 0, nothing calls PayBatchFee.
MonthlySettle(g) ==
  /\ MuFree(g) /\ Spend("settle")
  /\ settled' = settled + Plus(earnings[g], crossEarnings[g])
  /\ earnings' = [earnings EXCEPT ![g] = 0]
  /\ crossEarnings' = [crossEarnings EXCEPT ![g] = 0]
  /\ UNCHANGED <<money, ledger, history, chainMu, saving, saved, client>>

(* SaveSnapshot takes mu, then waits for chainMu.                          *)
BeginSave(g) ==
  /\ ~saving[g] /\ Spend("save")
  /\ saving' = [saving EXCEPT ![g] = TRUE]
  /\ UNCHANGED <<money, ledger, history, chainMu, earnings, crossEarnings,
                 saved, client, settled>>

EndSave(g) ==
  /\ saving[g] /\ ChainFree(g)
  /\ saving' = [saving EXCEPT ![g] = FALSE]
  /\ saved' = [saved EXCEPT ![g] =
       [members |-> members[g], balance |-> balance[g], txSeq |-> txSeq[g],
        earnings |-> earnings[g], crossEarnings |-> crossEarnings[g]]]
  /\ UNCHANGED <<money, ledger, history, chainMu, earnings, crossEarnings,
                 client, left, settled>>

Sum2(f) == SumFunctionOnSet([g \in Nodes |-> SumFunctionOnSet(f[g], Users)], Nodes)
Earned == SumFunctionOnSet(earnings, Nodes) + SumFunctionOnSet(crossEarnings, Nodes)

(* The process stops and a new one loads the snapshots (LoadSnapshot into  *)
(* nodes fresh from NewRegionNode); the history starts again from them.    *)
Restart ==
  /\ Spend("restart") /\ \A g \in Nodes : saved[g] # None
  /\ members' = [g \in Nodes |-> saved[g].members]
  /\ balance' = [g \in Nodes |-> saved[g].balance]
  /\ locked' = [g \in Nodes |-> [u \in Users |-> 0]]
  /\ txSeq' = [g \in Nodes |-> saved[g].txSeq]
  /\ earnings' = [g \in Nodes |-> saved[g].earnings]
  /\ crossEarnings' = [g \in Nodes |-> saved[g].crossEarnings]
  /\ chain' = [g \in Nodes |-> <<>>] /\ queue' = [g \in Nodes |-> <<>>]
  /\ chainMu' = [g \in Nodes |-> None]
  /\ saving' = [g \in Nodes |-> FALSE]
  /\ txs' = <<>>
  /\ client' = [c \in Clients |-> Idle]
  /\ fees' = Earned'
  /\ issued' = Sum2(balance') + fees'
  /\ settled' = 0 /\ wrapped' = {}
  /\ UNCHANGED saved

ClientStep(c) ==
  \/ TakeChain(c) \/ LocalLock(c) \/ LocalUnlock(c) \/ LocalCredit(c)
  \/ ReadEarnings(c) \/ AppendLocal(c)
  \/ CrossLock(c) \/ CrossNumber(c) \/ Enqueue(c) \/ VerifyCrossRegion(c)
  \/ ReleaseLock(c) \/ PayRecipient(c) \/ EarnHere(c) \/ EarnThere(c)

Next ==
  \/ \E g \in Nodes, u \in Users, b \in Balances : AddMember(g, u, b)
  \/ \E c \in Clients, g \in Origins, u, v \in Users, a \in Amounts :
       Submit(c, g, u, v, a)
  \/ \E c \in Clients : ClientStep(c)
  \/ \E g \in Nodes : ProcessTx(g) \/ MonthlySettle(g) \/ BeginSave(g) \/ EndSave(g)
  \/ Restart

Spec == Init /\ [][Next]_vars

\* Goroutines that can run do run; whether anybody registers, submits,
\* settles, saves or restarts is up to the environment.
Fairness ==
  /\ \A c \in Clients : WF_vars(ClientStep(c))
  /\ \A g \in Nodes : WF_vars(ProcessTx(g)) /\ WF_vars(EndSave(g))

FairSpec == Spec /\ Fairness

-----------------------------------------------------------------------------
Sums == 0..(W - 1)
IDs == [region : Nodes, number : Nat]
Tx == [from : Users, amount : Amounts, seq : Nat,
       status : {"locked", "confirmed", "failed"}]
Steps == {"idle", "local", "lock", "unlock", "credit", "fee", "append",
          "cross", "number", "enqueue", "verify", "release", "pay", "fee1", "fee2"}
Client == [at : Steps,
           node : Nodes \cup {None}, dest : Nodes \cup {None},
           from : Users \cup {None}, to : Users \cup {None},
           amount : Sums, id : IDs \cup {None}, read : Sums]
Snapshot == [members : SUBSET Users, balance : [Users -> Sums], txSeq : Nat,
             earnings : Sums, crossEarnings : Sums]

TypeOK ==
  /\ members \in [Nodes -> SUBSET Users]
  /\ balance \in [Nodes -> [Users -> Sums]]
  /\ locked \in [Nodes -> [Users -> Sums]]
  /\ txSeq \in [Nodes -> Nat]
  /\ chain \in [Nodes -> Seq(IDs)] /\ queue \in [Nodes -> Seq(IDs)]
  /\ chainMu \in [Nodes -> Clients \cup {None}]
  /\ earnings \in [Nodes -> Sums] /\ crossEarnings \in [Nodes -> Sums]
  /\ saving \in [Nodes -> BOOLEAN]
  /\ saved \in [Nodes -> Snapshot \cup {None}]
  /\ DOMAIN txs \subseteq IDs /\ txs \in [DOMAIN txs -> Tx]
  /\ client \in [Clients -> Client]
  /\ left \in [Chores -> Nat]

\* What a transaction has taken from its sender and not yet given to anybody.
InTransit(c) ==
  CASE client[c].at \in {"credit", "pay"} -> Total(c)
    [] client[c].at \in {"fee", "append"} -> LocalFee(client[c].amount)
    [] client[c].at = "fee1" -> CrossFee(client[c].amount)
    [] client[c].at = "fee2" -> OtherHalf(client[c].amount)
    [] OTHER -> 0

Held == Sum2(balance) + Sum2(locked) + fees
          + SumFunctionOnSet([c \in Clients |-> InTransit(c)], Clients)

(* No interleaving of transfers creates or loses money: what members hold  *)
(* or have locked, what is between two calls of a transaction and the fees *)
(* add up to what was registered, in 64-bit arithmetic.                    *)
Conservation == Held % W = issued % W

\* Transactions that still have their lock: those of a goroutine that has
\* not released it, and those that were forwarded.
Locking(g, u) == {c \in Clients :
  /\ client[c].node = g /\ client[c].from = u
  /\ client[c].at \in {"unlock", "number", "enqueue", "verify", "release"}}
Forwarded(g, u) == {id \in DOMAIN txs :
  /\ id.region = g /\ txs[id].from = u /\ txs[id].status = "locked"
  /\ \A c \in Clients : client[c].id # id}

ForwardedCost == [id \in DOMAIN txs |-> Plus(txs[id].amount, CrossFee(txs[id].amount))]

(* LockedAmt is exactly what the member's open transactions have locked,   *)
(* so that UnlockBalance never fails and never takes another one's lock,   *)
(* unless the locks of the member once went past 64 bits.                  *)
LockedBacked ==
  \A g \in Nodes, u \in Users : <<g, u>> \notin wrapped =>
    locked[g][u] = SumFunctionOnSet([c \in Clients |-> Total(c)], Locking(g, u))
                     + SumFunctionOnSet(ForwardedCost, Forwarded(g, u))

(* The numbers of a region chain increase from block to block and stay     *)
(* below the node's counter, though a cross-region transaction waits in    *)
(* the queue while later local ones enter the chain.                       *)
ChainOrdered ==
  \A g \in Nodes :
    /\ \A i, j \in 1..Len(chain[g]) :
         i < j => txs[chain[g][i]].seq < txs[chain[g][j]].seq
    /\ \A i \in 1..Len(chain[g]) : txs[chain[g][i]].seq <= txSeq[g]

(* A transaction ID is never given twice: no two blocks or waiting         *)
(* transactions of a node have the same one.                               *)
IDsUnique == \A g \in Nodes : IsInjective(chain[g] \o queue[g])

(* The blocks of a region are in order and none is there twice, though two *)
(* paths give out the numbers of its transactions.                         *)
ChainSound == ChainOrdered /\ IDsUnique

(* What the nodes have earned is what was charged: no fee is lost or       *)
(* counted twice between the two locks, before a first settlement and as   *)
(* long as the fees fit into 64 bits.                                      *)
FeesAccounted == settled = 0 /\ fees < W => Earned = fees

(* Money, locks and fees agree in every interleaving of transactions,      *)
(* snapshots and a restart from one that may be old.                       *)
MoneyKept == Conservation /\ LockedBacked /\ FeesAccounted

\* SaveSnapshot has mu and waits for a transaction that waits for mu.
LockedOut == \E g \in Nodes : saving[g] /\ chainMu[g] # None

(* SubmitRegionTx returns: nothing but the order of the two locks blocks a *)
(* transaction for ever, neither the queue nor another goroutine.          *)
SubmitReturns ==
  \A c \in Clients : client[c].at # "idle" ~> (client[c].at = "idle" \/ LockedOut)

(* SaveSnapshot returns.                                                   *)
SaveReturns == \A g \in Nodes : saving[g] ~> ~saving[g]
=============================================================================
