---------------------------- MODULE Region_proofs ----------------------------
(***************************************************************************)
(* What holds of the region nodes for any number of nodes, users and       *)
(* goroutines and any amounts, rates, queue capacity and word size.        *)
(***************************************************************************)
EXTENDS Region, Sums, SequenceTheorems

LocalSteps == {"lock", "unlock", "credit", "fee", "append"}

\* A goroutine's record says what its step needs, and one that is inside
\* ExecuteLocalTx holds chainMu of its node.
ClientOK(c) == client[c].at # "idle" =>
    /\ client[c].node \in Nodes
    /\ client[c].from \in Users /\ client[c].to \in Users
    /\ client[c].amount \in Amounts
    /\ client[c].at \in {"verify", "release", "pay", "fee1", "fee2"} =>
         client[c].dest \in Nodes
    /\ client[c].at \in LocalSteps => chainMu[client[c].node] = c
    /\ client[c].at = "enqueue" => client[c].id \in DOMAIN txs

ClientsOK == \A c \in Clients : ClientOK(c)

-----------------------------------------------------------------------------
LEMMA PlusType == ASSUME NEW a \in Int, NEW b \in Int PROVE Plus(a, b) \in Sums
  BY RegionAssumption DEF Plus, Sums

LEMMA FeeType ==
  ASSUME NEW a \in Sums
  PROVE  /\ LocalFee(a) \in Nat /\ CrossFee(a) \in Nat
         /\ HalfFee(a) \in Nat /\ OtherHalf(a) \in Int
BY RegionAssumption DEF Sums, LocalFee, CrossFee, HalfFee, OtherHalf

LEMMA TotalType == ASSUME TypeOK, NEW c \in Clients PROVE Total(c) \in Sums
BY FeeType, PlusType DEF TypeOK, Client, Sums, Total

\* The calls that change a balance keep the types.
LEMMA BalanceTypes ==
  ASSUME TypeOK, NEW g \in Nodes, NEW u \in Users, NEW a \in Sums
  PROVE  /\ CanPay(g, u, a) /\ LockBalance(g, u, a) =>
              /\ balance' \in [Nodes -> [Users -> Sums]]
              /\ locked' \in [Nodes -> [Users -> Sums]]
         /\ Unlocks(g, u, a) /\ UnlockBalance(g, u, a) =>
              locked' \in [Nodes -> [Users -> Sums]]
         /\ CreditBalance(g, u, a) => balance' \in [Nodes -> [Users -> Sums]]
<1> USE DEF TypeOK
<1>1. balance[g][u] \in Sums /\ locked[g][u] \in Sums /\ a \in Int
  BY DEF Sums
<1>2. Plus(locked[g][u], a) \in Sums /\ Plus(balance[g][u], a) \in Sums
  BY <1>1, PlusType DEF Sums
<1>3. ASSUME CanPay(g, u, a), LockBalance(g, u, a)
      PROVE  /\ balance' \in [Nodes -> [Users -> Sums]]
             /\ locked' \in [Nodes -> [Users -> Sums]]
  <2>1. balance[g][u] - a \in Sums BY <1>1, <1>3, RegionAssumption DEF CanPay, Sums
  <2>2. QED BY <1>2, <1>3, <2>1 DEF LockBalance
<1>4. ASSUME Unlocks(g, u, a), UnlockBalance(g, u, a)
      PROVE  locked' \in [Nodes -> [Users -> Sums]]
  <2>1. locked[g][u] - a \in Sums BY <1>1, <1>4, RegionAssumption DEF Unlocks, Sums
  <2>2. QED BY <1>4, <2>1 DEF UnlockBalance
<1>5. ASSUME CreditBalance(g, u, a) PROVE balance' \in [Nodes -> [Users -> Sums]]
  BY <1>2, <1>5 DEF CreditBalance
<1>6. QED BY <1>3, <1>4, <1>5

LEMMA ClientTypes ==
  ASSUME TypeOK, NEW c \in Clients
  PROVE  /\ \A step \in Steps : Goto(c, step) => client' \in [Clients -> Client]
         /\ Return(c) => client' \in [Clients -> Client]
<1>1. Idle \in Client BY RegionAssumption DEF Idle, Task, Client, Sums, Steps
<1>2. \A step \in Steps : [client[c] EXCEPT !.at = step] \in Client
  BY DEF TypeOK, Client
<1>3. \A r \in Client : [client EXCEPT ![c] = r] \in [Clients -> Client]
  BY DEF TypeOK
<1>4. \A step : Goto(c, step) => client' = [client EXCEPT ![c] = [client[c] EXCEPT !.at = step]]
  BY DEF Goto, TypeOK
<1>5. QED BY <1>1, <1>2, <1>3, <1>4 DEF Return

\* The parts of TypeOK that most actions leave alone.
LEMMA TypeMoney ==
  ASSUME TypeOK, UNCHANGED <<members, txSeq, chain, queue, chainMu, saving, saved, txs, left>>,
         balance' \in [Nodes -> [Users -> Sums]],
         locked' \in [Nodes -> [Users -> Sums]],
         earnings' \in [Nodes -> Sums], crossEarnings' \in [Nodes -> Sums],
         client' \in [Clients -> Client]
  PROVE  TypeOK'
  BY DEF TypeOK

LEMMA ClientUpdate ==
  ASSUME TypeOK, NEW c \in Clients, NEW r \in Client, client' = [client EXCEPT ![c] = r]
  PROVE  client' \in [Clients -> Client]
  BY DEF TypeOK

LEMMA StatusUpdate ==
  ASSUME TypeOK, NEW id, NEW s \in {"locked", "confirmed", "failed"},
         txs' = [txs EXCEPT ![id].status = s]
  PROVE  DOMAIN txs' \subseteq IDs /\ txs' \in [DOMAIN txs' -> Tx]
<1>1. \A i \in DOMAIN txs : [txs[i] EXCEPT !.status = s] \in Tx
  BY DEF TypeOK, Tx
<1>2. QED BY <1>1 DEF TypeOK

LEMMA SpendType ==
  ASSUME TypeOK, NEW chore \in Chores, Spend(chore) PROVE left' \in [Chores -> Nat]
BY DEF TypeOK, Spend

-----------------------------------------------------------------------------
LEMMA TypeInit == Init => TypeOK
<1> SUFFICES ASSUME Init PROVE TypeOK OBVIOUS
<1>1. 0 \in Sums BY RegionAssumption DEF Sums
<1>2. Idle \in Client BY <1>1 DEF Idle, Task, Client, Steps
<1>3. DOMAIN txs = {} /\ txs \in [DOMAIN txs -> Tx] BY DEF Init
<1>4. QED BY <1>1, <1>2, <1>3, RegionAssumption DEF Init, TypeOK

LEMMA LocalTypes ==
  ASSUME TypeOK, ClientsOK, NEW c \in Clients,
         \/ TakeChain(c) \/ LocalLock(c) \/ LocalUnlock(c) \/ LocalCredit(c)
         \/ ReadEarnings(c) \/ AppendLocal(c)
  PROVE  TypeOK'
<1> DEFINE g == client[c].node
           from == client[c].from
<1>0. client[c].at # "idle" BY DEF TakeChain, LocalLock, LocalUnlock, LocalCredit,
                                   ReadEarnings, AppendLocal, At
<1>1. /\ g \in Nodes /\ from \in Users /\ client[c].to \in Users
      /\ client[c].amount \in Amounts /\ client[c].amount \in Sums
      /\ Total(c) \in Sums
  BY <1>0, TotalType, RegionAssumption DEF ClientsOK, ClientOK, Sums
<1> HIDE DEF g, from
<1>2. CASE TakeChain(c) BY <1>1, <1>2, ClientTypes DEF TakeChain, Steps, TypeOK, g, money, ledger, history
<1>3. CASE LocalLock(c)
  <2>1. client' \in [Clients -> Client] BY <1>3, ClientTypes DEF LocalLock, Steps
  <2>2. /\ balance' \in [Nodes -> [Users -> Sums]]
        /\ locked' \in [Nodes -> [Users -> Sums]]
    BY <1>1, <1>3, BalanceTypes DEF LocalLock, g, from, TypeOK
  <2>3. txSeq' \in [Nodes -> Nat] /\ chainMu' \in [Nodes -> Clients \cup {None}]
    <3>1. /\ txSeq' = [txSeq EXCEPT ![g] = @ + 1] \/ txSeq' = txSeq
          /\ chainMu' = [chainMu EXCEPT ![g] = None] \/ chainMu' = chainMu
      BY <1>3 DEF LocalLock, g
    <3>2. txSeq[g] + 1 \in Nat BY <1>1 DEF TypeOK
    <3>3. QED BY <3>1, <3>2 DEF TypeOK
  <2>4. UNCHANGED <<members, chain, queue, saving, saved, txs, left, earnings, crossEarnings>>
    BY <1>3 DEF LocalLock
  <2>5. QED BY <2>1, <2>2, <2>3, <2>4 DEF TypeOK
<1>4. CASE LocalUnlock(c) BY <1>1, <1>4, ClientTypes, BalanceTypes DEF LocalUnlock, Steps, g, from, TypeOK, ledger
<1>5. CASE LocalCredit(c)
  BY <1>1, <1>5, ClientTypes, BalanceTypes, TypeMoney DEF LocalCredit, Steps, g, ledger, TypeOK
<1>6. CASE ReadEarnings(c)
  <2>1. earnings[g] \in Sums BY <1>1 DEF TypeOK
  <2>2. client' \in [Clients -> Client]
    <3>1. [client[c] EXCEPT !.at = "append", !.read = earnings[g]] \in Client
      BY <2>1 DEF TypeOK, Client, Steps
    <3>2. client' = [client EXCEPT ![c] = [client[c] EXCEPT !.at = "append", !.read = earnings[g]]]
      BY <1>6 DEF ReadEarnings, TypeOK, g
    <3>3. QED BY <3>1, <3>2 DEF TypeOK
  <2>3. QED BY <1>6, <2>2, TypeMoney DEF ReadEarnings, money, ledger, TypeOK
<1>7. CASE AppendLocal(c)
  <2> DEFINE id == ID(g, txSeq[g])
             tx == [from |-> from, amount |-> client[c].amount,
                    seq |-> txSeq[g], status |-> "confirmed"]
  <2>1. id \in IDs /\ tx \in Tx BY <1>1 DEF TypeOK, ID, IDs, Tx
  <2>2. txs' = [i \in DOMAIN txs \cup {id} |-> IF i = id THEN tx ELSE txs[i]]
    BY <1>7 DEF AppendLocal, Record, g, from
  <2> HIDE DEF id, tx
  <2>3. DOMAIN txs' \subseteq IDs /\ txs' \in [DOMAIN txs' -> Tx]
    BY <2>1, <2>2 DEF TypeOK
  <2>4. chain' = [chain EXCEPT ![g] = Append(@, id)] BY <1>7 DEF AppendLocal, g, id
  <2>5. chain' \in [Nodes -> Seq(IDs)] BY <1>1, <2>1, <2>4 DEF TypeOK
  <2>6. client[c].read \in Int /\ LocalFee(client[c].amount) \in Int
    <3>1. client[c].read \in Sums BY DEF TypeOK, Client
    <3>2. QED BY <1>1, <3>1, FeeType DEF Sums
  <2>7. earnings' \in [Nodes -> Sums]
    BY <1>7, <2>6, PlusType DEF AppendLocal, TypeOK
  <2>8. client' \in [Clients -> Client] BY <1>7, ClientTypes DEF AppendLocal
  <2>9. QED BY <1>7, <2>3, <2>5, <2>7, <2>8 DEF AppendLocal, TypeOK, money
<1>8. QED BY <1>2, <1>3, <1>4, <1>5, <1>6, <1>7


LEMMA CrossTypes ==
  ASSUME TypeOK, ClientsOK, NEW c \in Clients,
         \/ CrossLock(c) \/ CrossNumber(c) \/ Enqueue(c) \/ VerifyCrossRegion(c)
         \/ ReleaseLock(c) \/ PayRecipient(c) \/ EarnHere(c) \/ EarnThere(c)
  PROVE  TypeOK'
<1> DEFINE g == client[c].node
           h == client[c].dest
           from == client[c].from
<1>0. client[c].at # "idle"
  BY DEF CrossLock, CrossNumber, Enqueue, VerifyCrossRegion, ReleaseLock,
         PayRecipient, EarnHere, EarnThere, At
<1>1. /\ g \in Nodes /\ from \in Users /\ client[c].to \in Users
      /\ client[c].amount \in Amounts /\ client[c].amount \in Sums
      /\ Total(c) \in Sums
  BY <1>0, TotalType, RegionAssumption DEF ClientsOK, ClientOK, Sums
<1>h. PayRecipient(c) \/ EarnThere(c) => h \in Nodes
  BY <1>0 DEF ClientsOK, ClientOK, PayRecipient, EarnThere, At
<1> HIDE DEF g, h, from
<1>2. CASE CrossLock(c)
  BY <1>1, <1>2, ClientTypes, BalanceTypes, TypeMoney DEF CrossLock, Steps, g, from, TypeOK, ledger
<1>3. CASE CrossNumber(c)
  <2> DEFINE id == ID(g, txSeq[g] + 1)
             tx == [from |-> from, amount |-> client[c].amount,
                    seq |-> txSeq[g] + 1, status |-> "locked"]
  <2>1. id \in IDs /\ tx \in Tx BY <1>1 DEF TypeOK, ID, IDs, Tx
  <2>2. txs' = [i \in DOMAIN txs \cup {id} |-> IF i = id THEN tx ELSE txs[i]]
    BY <1>3 DEF CrossNumber, Record, g, from
  <2>3. client' = [client EXCEPT ![c] = [client[c] EXCEPT !.at = "enqueue", !.id = id]]
    BY <1>3 DEF CrossNumber, TypeOK, g
  <2>4. txSeq' = [txSeq EXCEPT ![g] = @ + 1] /\ txSeq[g] + 1 \in Nat
    BY <1>1, <1>3 DEF CrossNumber, g, TypeOK
  <2> HIDE DEF id, tx
  <2>5. DOMAIN txs' \subseteq IDs /\ txs' \in [DOMAIN txs' -> Tx]
    BY <2>1, <2>2 DEF TypeOK
  <2>6. client' \in [Clients -> Client]
    <3>1. client[c] \in Client /\ "enqueue" \in Steps BY DEF TypeOK, Steps
    <3>2. [client[c] EXCEPT !.at = "enqueue", !.id = id] \in Client
      BY <2>1, <3>1 DEF Client
    <3>3. QED BY <2>3, <3>2, ClientUpdate
  <2>7. txSeq' \in [Nodes -> Nat] BY <2>4 DEF TypeOK
  <2>8. UNCHANGED <<members, balance, locked, chain, queue, chainMu, earnings,
                    crossEarnings, saving, saved, left>>
    BY <1>3 DEF CrossNumber, money
  <2>9. QED BY <2>5, <2>6, <2>7, <2>8 DEF TypeOK
<1>4. CASE Enqueue(c)
  <2>1. client' \in [Clients -> Client] BY <1>4, ClientTypes DEF Enqueue, Steps
  <2>2. queue' \in [Nodes -> Seq(IDs)] BY <1>1, <1>4 DEF Enqueue, g, TypeOK, ClientsOK, ClientOK, At
  <2>3. QED BY <1>4, <2>1, <2>2 DEF Enqueue, TypeOK, money
<1>5. CASE VerifyCrossRegion(c) BY <1>5, ClientTypes, TypeMoney DEF VerifyCrossRegion, Steps, money, ledger, TypeOK
<1>6. CASE ReleaseLock(c)
  <2>1. client' \in [Clients -> Client] BY <1>6, ClientTypes DEF ReleaseLock, Steps
  <2>2. locked' \in [Nodes -> [Users -> Sums]]
    BY <1>1, <1>6, BalanceTypes DEF ReleaseLock, g, from, TypeOK
  <2>3. DOMAIN txs' \subseteq IDs /\ txs' \in [DOMAIN txs' -> Tx] BY <1>6, StatusUpdate DEF ReleaseLock, TypeOK
  <2>4. UNCHANGED <<members, balance, txSeq, chain, queue, chainMu, earnings,
                    crossEarnings, saving, saved, left>>
    BY <1>6 DEF ReleaseLock
  <2>5. QED BY <2>1, <2>2, <2>3, <2>4 DEF TypeOK
<1>7. CASE PayRecipient(c)
  BY <1>1, <1>7, ClientTypes, <1>h, BalanceTypes, TypeMoney DEF PayRecipient, Steps, h, ledger, TypeOK
<1>8. CASE EarnHere(c)
  <2>1. client' \in [Clients -> Client] BY <1>8, ClientTypes DEF EarnHere, Steps
  <2>2. crossEarnings' \in [Nodes -> Sums]
    <3>1. crossEarnings[g] \in Int /\ HalfFee(client[c].amount) \in Int
      <4>1. crossEarnings[g] \in Sums BY <1>1 DEF TypeOK
      <4>2. QED BY <1>1, <4>1, FeeType DEF Sums
    <3>2. Plus(crossEarnings[g], HalfFee(client[c].amount)) \in Sums BY <3>1, PlusType
    <3>3. QED BY <1>8, <3>2 DEF EarnHere, g, TypeOK
  <2>3. QED BY <1>8, <2>1, <2>2, TypeMoney DEF EarnHere, money, ledger, TypeOK
<1>9. CASE EarnThere(c)
  <2>1. client' \in [Clients -> Client] BY <1>9, ClientTypes DEF EarnThere
  <2>2. crossEarnings' \in [Nodes -> Sums]
    <3>1. crossEarnings[h] \in Int /\ OtherHalf(client[c].amount) \in Int
      <4>1. crossEarnings[h] \in Sums BY <1>h, <1>9 DEF TypeOK
      <4>2. QED BY <1>1, <4>1, FeeType DEF Sums
    <3>2. Plus(crossEarnings[h], OtherHalf(client[c].amount)) \in Sums
      BY <3>1, PlusType
    <3>3. QED BY <1>9, <3>2 DEF EarnThere, h, TypeOK
  <2>3. DOMAIN txs' \subseteq IDs /\ txs' \in [DOMAIN txs' -> Tx] BY <1>9, StatusUpdate DEF EarnThere
  <2>4. QED BY <1>9, <2>1, <2>2, <2>3 DEF EarnThere, TypeOK, money
<1>10. QED BY <1>2, <1>3, <1>4, <1>5, <1>6, <1>7, <1>8, <1>9

LEMMA TypeStep == ASSUME TypeOK, ClientsOK, [Next]_vars PROVE TypeOK'
<1> USE DEF TypeOK
<1>1. CASE UNCHANGED vars BY <1>1 DEF vars, money, ledger, history
<1>2. ASSUME NEW g \in Nodes, NEW u \in Users, NEW b \in Balances, AddMember(g, u, b)
      PROVE  TypeOK'
  <2>1. b \in Sums /\ 0 \in Sums BY RegionAssumption DEF Sums
  <2>2. balance' \in [Nodes -> [Users -> Sums]] /\ locked' \in [Nodes -> [Users -> Sums]]
    BY <1>2, <2>1 DEF AddMember
  <2>3. members' \in [Nodes -> SUBSET Users] BY <1>2 DEF AddMember
  <2>4. QED BY <1>2, <2>2, <2>3 DEF AddMember, ledger
<1>3. ASSUME NEW c \in Clients, NEW g \in Origins, NEW u \in Users, NEW v \in Users,
             NEW a \in Amounts, Submit(c, g, u, v, a)
      PROVE  TypeOK'
  <2>1. \A step \in {"local", "cross"}, dest \in Nodes \cup {None} :
          Task(step, g, dest, u, v, a) \in Client
    <3>1. a \in Sums /\ 0 \in Sums /\ g \in Nodes BY RegionAssumption DEF Sums
    <3>2. QED BY <3>1 DEF Task, Client, Steps
  <2>2. \E r \in Client : client' = [client EXCEPT ![c] = r]
    BY <1>3, <2>1, RegionAssumption DEF Submit
  <2>3. client' \in [Clients -> Client] BY <2>2
  <2>4. left' \in [Chores -> Nat] BY <1>3, SpendType DEF Submit, Chores
  <2>5. QED BY <1>3, <2>3, <2>4 DEF Submit, money, ledger
<1>4. ASSUME NEW c \in Clients, ClientStep(c) PROVE TypeOK'
  BY <1>4, LocalTypes, CrossTypes DEF ClientStep
<1>5. ASSUME NEW g \in Nodes, ProcessTx(g) PROVE TypeOK'
  <2>1. queue[g] # <<>> /\ queue[g] \in Seq(IDs) /\ chain[g] \in Seq(IDs)
    BY <1>5 DEF ProcessTx
  <2>2. Head(queue[g]) \in IDs /\ Tail(queue[g]) \in Seq(IDs) BY <2>1
  <2>3. Append(chain[g], Head(queue[g])) \in Seq(IDs) BY <2>1, <2>2
  <2>4. txSeq[g] + 1 \in Nat OBVIOUS
  <2>5. DOMAIN txs' \subseteq IDs /\ txs' \in [DOMAIN txs' -> Tx]
    BY <1>5, <2>4 DEF ProcessTx, Tx
  <2>6. QED BY <1>5, <2>2, <2>3, <2>4, <2>5 DEF ProcessTx, money
<1>6. ASSUME NEW g \in Nodes, MonthlySettle(g) PROVE TypeOK'
  <2>1. 0 \in Sums BY RegionAssumption DEF Sums
  <2>2. earnings' \in [Nodes -> Sums] /\ crossEarnings' \in [Nodes -> Sums]
    BY <1>6, <2>1 DEF MonthlySettle
  <2>3. left' \in [Chores -> Nat] BY <1>6, SpendType DEF MonthlySettle, Chores
  <2>4. QED BY <1>6, <2>2, <2>3 DEF MonthlySettle, money, ledger
<1>7. ASSUME NEW g \in Nodes, BeginSave(g) PROVE TypeOK' BY <1>7, SpendType DEF BeginSave, Chores, money, ledger
<1>8. ASSUME NEW g \in Nodes, EndSave(g) PROVE TypeOK' BY <1>8 DEF Snapshot, EndSave, money, ledger
<1>9. ASSUME Restart PROVE TypeOK'
  <2>1. \A g \in Nodes : saved[g] \in Snapshot BY <1>9 DEF Restart
  <2>2. 0 \in Sums /\ Idle \in Client
    BY RegionAssumption DEF Sums, Idle, Task, Client, Steps
  <2>3. members' \in [Nodes -> SUBSET Users] /\ txSeq' \in [Nodes -> Nat]
    BY <1>9, <2>1 DEF Restart, Snapshot
  <2>4. /\ balance' \in [Nodes -> [Users -> Sums]] /\ locked' \in [Nodes -> [Users -> Sums]]
        /\ earnings' \in [Nodes -> Sums] /\ crossEarnings' \in [Nodes -> Sums]
    BY <1>9, <2>1, <2>2 DEF Restart, Snapshot
  <2>5. left' \in [Chores -> Nat] BY <1>9, SpendType DEF Restart, Chores
  <2>6. /\ chain' \in [Nodes -> Seq(IDs)] /\ queue' \in [Nodes -> Seq(IDs)]
        /\ DOMAIN txs' \subseteq IDs /\ txs' \in [DOMAIN txs' -> Tx]
        /\ client' \in [Clients -> Client]
    BY <1>9, <2>2 DEF Restart
  <2>7. /\ chainMu' \in [Nodes -> Clients \cup {None}] /\ saving' \in [Nodes -> BOOLEAN]
        /\ saved' = saved
    BY <1>9 DEF Restart
  <2>8. QED BY <2>3, <2>4, <2>5, <2>6, <2>7
<1>10. QED BY <1>1, <1>2, <1>3, <1>4, <1>5, <1>6, <1>7, <1>8, <1>9 DEF Next

-----------------------------------------------------------------------------
\* A step of one goroutine does not disturb what the others rely on, as long
\* as it leaves them chainMu and the transactions.
LEMMA OthersOK ==
  ASSUME ClientsOK, NEW c \in Clients,
         \A d \in Clients \ {c} : client'[d] = client[d],
         \A d \in Clients \ {c}, g \in Nodes : chainMu[g] = d => chainMu'[g] = d,
         DOMAIN txs \subseteq DOMAIN txs',
         ClientOK(c)'
  PROVE  ClientsOK'
<1> SUFFICES ASSUME NEW d \in Clients, d # c PROVE ClientOK(d)'
  BY DEF ClientsOK
<1>1. ClientOK(d) /\ client'[d] = client[d] BY DEF ClientsOK
<1>2. QED BY <1>1 DEF ClientOK

LEMMA GotoIs ==
  ASSUME TypeOK, NEW c \in Clients, NEW step, Goto(c, step)
  PROVE  /\ client'[c] = [client[c] EXCEPT !.at = step]
         /\ client'[c].at = step /\ client'[c].node = client[c].node
         /\ client'[c].dest = client[c].dest /\ client'[c].id = client[c].id
         /\ client'[c].from = client[c].from /\ client'[c].to = client[c].to
         /\ client'[c].amount = client[c].amount
         /\ \A d \in Clients \ {c} : client'[d] = client[d]
BY DEF Goto, TypeOK, Client

LEMMA ReturnIs ==
  ASSUME TypeOK, NEW c \in Clients, Return(c)
  PROVE  /\ client'[c].at = "idle" /\ client'[c].id = None
         /\ ClientOK(c)'
         /\ \A d \in Clients \ {c} : client'[d] = client[d]
BY DEF Return, TypeOK, ClientOK, Idle, Task

LEMMA LocalClients ==
  ASSUME TypeOK, ClientsOK, NEW c \in Clients,
         \/ TakeChain(c) \/ LocalLock(c) \/ LocalUnlock(c) \/ LocalCredit(c)
         \/ ReadEarnings(c) \/ AppendLocal(c)
  PROVE  ClientsOK'
<1> DEFINE g == client[c].node
<1>0. ClientOK(c) BY DEF ClientsOK
<1>1. g \in Nodes BY <1>0 DEF TakeChain, LocalLock, LocalUnlock, LocalCredit,
                             ReadEarnings, AppendLocal, At, ClientOK
<1>2. CASE TakeChain(c)
  <2>1. /\ Goto(c, "lock") /\ txs' = txs /\ chainMu[g] = None
        /\ chainMu' = [chainMu EXCEPT ![g] = c]
    BY <1>2 DEF TakeChain, ChainFree, ledger
  <2>2. \A d \in Clients \ {c}, h \in Nodes : chainMu[h] = d => chainMu'[h] = d
    BY <1>1, <2>1, RegionAssumption DEF TypeOK
  <2>3. chainMu'[g] = c BY <1>1, <2>1 DEF TypeOK
  <2>4. ClientOK(c)'
    BY <1>0, <1>2, <2>1, <2>3, GotoIs DEF ClientOK, TakeChain, At
  <2>5. QED BY <2>1, <2>2, <2>4, GotoIs, OthersOK
<1>3. ASSUME chainMu[g] = c, Return(c), chainMu' = [chainMu EXCEPT ![g] = None],
             DOMAIN txs \subseteq DOMAIN txs'
      PROVE  ClientsOK' BY <1>1, <1>3, ReturnIs, OthersOK DEF TypeOK
<1>4. ASSUME NEW step \in LocalSteps, Goto(c, step), client[c].at \in LocalSteps,
             chainMu' = chainMu, txs' = txs
      PROVE  ClientsOK'
  <2>1. ClientOK(c)' BY <1>0, <1>4, GotoIs DEF ClientOK, LocalSteps
  <2>2. QED BY <1>4, <2>1, GotoIs, OthersOK
<1>5. CASE LocalLock(c) BY <1>0, <1>3, <1>4, <1>5 DEF ClientOK, LocalLock, At, LocalSteps
<1>6. CASE LocalUnlock(c) BY <1>0, <1>3, <1>4, <1>6 DEF ClientOK, LocalUnlock, At, LocalSteps, ledger
<1>7. CASE LocalCredit(c)
  BY <1>4, <1>7 DEF LocalCredit, At, LocalSteps, ledger
<1>8. CASE ReadEarnings(c)
  BY <1>0, <1>8, OthersOK DEF ReadEarnings, TypeOK, At, ledger, ClientOK, Client, LocalSteps
<1>9. CASE AppendLocal(c) BY <1>0, <1>3, <1>9 DEF ClientOK, AppendLocal, At, LocalSteps, Record
<1>10. QED BY <1>2, <1>5, <1>6, <1>7, <1>8, <1>9

CrossSteps == {"cross", "number", "enqueue", "verify", "release", "pay", "fee1", "fee2"}

LEMMA CrossClients ==
  ASSUME TypeOK, ClientsOK, NEW c \in Clients,
         \/ CrossLock(c) \/ CrossNumber(c) \/ Enqueue(c) \/ VerifyCrossRegion(c)
         \/ ReleaseLock(c) \/ PayRecipient(c) \/ EarnHere(c) \/ EarnThere(c)
  PROVE  ClientsOK'
<1>0. ClientOK(c) BY DEF ClientsOK
<1>1. ASSUME NEW step \in CrossSteps, step # "enqueue", Goto(c, step),
             client[c].at \in CrossSteps,
             step \in {"verify", "release", "pay", "fee1", "fee2"} => client[c].dest \in Nodes,
             chainMu' = chainMu, DOMAIN txs \subseteq DOMAIN txs'
      PROVE  ClientsOK' BY <1>0, <1>1, GotoIs, OthersOK DEF ClientOK, CrossSteps, LocalSteps
<1>2. ASSUME Return(c), chainMu' = chainMu, DOMAIN txs \subseteq DOMAIN txs'
      PROVE  ClientsOK'
  BY <1>2, ReturnIs, OthersOK
<1>3. CASE CrossLock(c)
  BY <1>1, <1>2, <1>3 DEF CrossLock, At, CrossSteps, ledger
<1>4. CASE CrossNumber(c)
  <2> DEFINE id == ID(client[c].node, txSeq[client[c].node] + 1)
  <2>1. /\ client' = [client EXCEPT ![c] = [client[c] EXCEPT !.at = "enqueue", !.id = id]]
        /\ client[c].at = "number" /\ chainMu' = chainMu
    BY <1>4 DEF CrossNumber, At, TypeOK
  <2>2. DOMAIN txs' = DOMAIN txs \cup {id} BY <1>4 DEF CrossNumber, Record
  <2> HIDE DEF id
  <2>3. client'[c] = [client[c] EXCEPT !.at = "enqueue", !.id = id] BY <2>1 DEF TypeOK
  <2>4. client[c] \in Client BY DEF TypeOK
  <2>5. ClientOK(c)'
    BY <1>0, <2>1, <2>2, <2>3, <2>4 DEF ClientOK, Client, LocalSteps
  <2>6. \A d \in Clients \ {c} : client'[d] = client[d] BY <2>1 DEF TypeOK
  <2>7. QED BY <2>1, <2>2, <2>5, <2>6, OthersOK
<1>5. CASE Enqueue(c) BY <1>1, <1>2, <1>5 DEF TypeOK, Client, Enqueue, At, CrossSteps
<1>6. CASE VerifyCrossRegion(c) BY <1>0, <1>1, <1>2, <1>6 DEF ClientOK, VerifyCrossRegion, At, CrossSteps, ledger
<1>7. CASE ReleaseLock(c) BY <1>0, <1>1, <1>2, <1>7 DEF ClientOK, ReleaseLock, At, CrossSteps
<1>8. CASE PayRecipient(c) BY <1>0, <1>1, <1>8 DEF ClientOK, PayRecipient, At, CrossSteps, ledger
<1>9. CASE EarnHere(c) BY <1>0, <1>1, <1>9 DEF ClientOK, EarnHere, At, CrossSteps, ledger
<1>10. CASE EarnThere(c) BY <1>2, <1>10 DEF EarnThere
<1>11. QED BY <1>3, <1>4, <1>5, <1>6, <1>7, <1>8, <1>9, <1>10

LEMMA ClientsStep == ASSUME TypeOK, ClientsOK, [Next]_vars PROVE ClientsOK'
<1>1. ASSUME client' = client, chainMu' = chainMu, DOMAIN txs \subseteq DOMAIN txs'
      PROVE  ClientsOK'
  BY <1>1 DEF ClientsOK, ClientOK
<1>2. CASE UNCHANGED vars BY <1>1, <1>2 DEF vars, ledger
<1>3. ASSUME NEW g \in Nodes, NEW u \in Users, NEW b \in Balances, AddMember(g, u, b)
      PROVE  ClientsOK'
  BY <1>1, <1>3 DEF AddMember, ledger
<1>4. ASSUME NEW c \in Clients, NEW g \in Origins, NEW u \in Users, NEW v \in Users,
             NEW a \in Amounts, Submit(c, g, u, v, a)
      PROVE  ClientsOK'
  <2>1. g \in Nodes /\ txs' = txs /\ chainMu' = chainMu
    BY <1>4, RegionAssumption DEF Submit, ledger
  <2>2. PICK step \in {"local", "cross"}, dest \in Nodes \cup {None} :
          client' = [client EXCEPT ![c] = Task(step, g, dest, u, v, a)]
    BY <1>4, <2>1 DEF Submit
  <2>3. client'[c] = Task(step, g, dest, u, v, a) BY <2>2 DEF TypeOK
  <2>4. ClientOK(c)' BY <2>1, <2>3 DEF ClientOK, Task, LocalSteps
  <2>5. \A d \in Clients \ {c} : client'[d] = client[d] BY <2>2 DEF TypeOK
  <2>6. QED BY <2>1, <2>4, <2>5, OthersOK
<1>5. ASSUME NEW c \in Clients, ClientStep(c) PROVE ClientsOK'
  BY <1>5, LocalClients, CrossClients DEF ClientStep
<1>6. ASSUME NEW g \in Nodes, ProcessTx(g) PROVE ClientsOK'
  BY <1>1, <1>6 DEF ProcessTx
<1>7. ASSUME NEW g \in Nodes, MonthlySettle(g) \/ BeginSave(g) \/ EndSave(g)
      PROVE  ClientsOK'
  BY <1>1, <1>7 DEF MonthlySettle, BeginSave, EndSave, ledger
<1>8. ASSUME Restart PROVE ClientsOK'
  BY <1>8 DEF Restart, ClientsOK, ClientOK, Idle, Task
<1>9. QED BY <1>2, <1>3, <1>4, <1>5, <1>6, <1>7, <1>8 DEF Next

-----------------------------------------------------------------------------
(* The IDs and numbers of a node.                                          *)

\* An ID of the node belongs to it and names a transaction.
Owned(g) ==
  /\ \A i \in 1..Len(chain[g]) : chain[g][i].region = g /\ chain[g][i] \in DOMAIN txs
  /\ \A i \in 1..Len(queue[g]) : queue[g][i].region = g /\ queue[g][i] \in DOMAIN txs

\* A goroutine about to enqueue has an ID of its node.
Pending(c) == At(c, "enqueue") => client[c].id.region = client[c].node

\* No number given so far exceeds n.
Below(g, n) ==
  /\ \A i \in 1..Len(chain[g]) : chain[g][i].number <= n /\ txs[chain[g][i]].seq <= n
  /\ \A i \in 1..Len(queue[g]) : queue[g][i].number <= n
  /\ \A c \in Clients : At(c, "enqueue") /\ client[c].node = g => client[c].id.number <= n

\* No ID is twice in the chain, in the queue, or with the goroutines.
Distinct(g) ==
  /\ \A i, j \in 1..Len(chain[g]) : chain[g][i] = chain[g][j] => i = j
  /\ \A i, j \in 1..Len(queue[g]) : queue[g][i] = queue[g][j] => i = j
  /\ \A i \in 1..Len(chain[g]), j \in 1..Len(queue[g]) : chain[g][i] # queue[g][j]
Fresh(c) == At(c, "enqueue") =>
  /\ \A i \in 1..Len(chain[client[c].node]) : chain[client[c].node][i] # client[c].id
  /\ \A i \in 1..Len(queue[client[c].node]) : queue[client[c].node][i] # client[c].id
  /\ \A d \in Clients : At(d, "enqueue") /\ client[d].id = client[c].id => d = c

Increasing(g) ==
  \A i, j \in 1..Len(chain[g]) : i < j => txs[chain[g][i]].seq < txs[chain[g][j]].seq

\* A goroutine that has taken a number under chainMu will use it itself.
Taken == LocalSteps \ {"lock"}
Numbered(c) == client[c].at \in Taken =>
  txSeq[client[c].node] - 1 \in Nat /\ Below(client[c].node, txSeq[client[c].node] - 1)

NumberInv ==
  /\ \A g \in Nodes : Owned(g) /\ Below(g, txSeq[g]) /\ Distinct(g) /\ Increasing(g)
  /\ \A c \in Clients : Pending(c) /\ Fresh(c) /\ Numbered(c)

Inv == TypeOK /\ ClientsOK /\ NumberInv

\* Steps that leave chain, queue and counter alone.
LEMMA Quiet ==
  ASSUME TypeOK, ClientsOK, NumberInv, UNCHANGED <<chain, queue, txSeq>>,
         DOMAIN txs \subseteq DOMAIN txs',
         \A id \in DOMAIN txs : txs'[id].seq = txs[id].seq,
         \A c \in Clients : client'[c].at = "enqueue" => client'[c] = client[c],
         \A c \in Clients : client'[c].at \in Taken =>
           client[c].at \in Taken /\ client'[c].node = client[c].node
  PROVE  NumberInv'
<1>1. ASSUME NEW g \in Nodes PROVE Owned(g)' /\ Distinct(g)' /\ Increasing(g)'
  <2>1. Owned(g) /\ Distinct(g) /\ Increasing(g) BY DEF NumberInv
  <2>2. Owned(g)' /\ Distinct(g)' BY <2>1 DEF Owned, Distinct
  <2>3. QED BY <2>1, <2>2 DEF Owned, Increasing
<1>2. ASSUME NEW g \in Nodes, NEW n, Below(g, n) PROVE Below(g, n)' BY <1>2 DEF NumberInv, Below, Owned, At
<1>3. ASSUME NEW g \in Nodes PROVE Below(g, txSeq[g])'
  <2> DEFINE n == txSeq[g]
  <2>1. Below(g, n) /\ n' = n BY DEF NumberInv
  <2> HIDE DEF n
  <2>2. Below(g, n)' BY <1>2, <2>1 DEF Below
  <2>3. QED BY <2>2 DEF n
<1>4. ASSUME NEW c \in Clients PROVE Pending(c)' /\ Fresh(c)' BY DEF NumberInv, Pending, Fresh, At
<1>5. ASSUME NEW c \in Clients PROVE Numbered(c)'
  <2> SUFFICES ASSUME client'[c].at \in Taken
               PROVE  /\ txSeq'[client'[c].node] - 1 \in Nat
                      /\ Below(client[c].node, txSeq[client[c].node] - 1)'
    BY DEF Numbered
  <2>1. Numbered(c) /\ client[c].at \in Taken /\ client'[c].node = client[c].node
    BY DEF NumberInv
  <2>2. client[c].node \in Nodes
    BY <2>1 DEF ClientsOK, ClientOK, Taken, LocalSteps
  <2>3. Below(client[c].node, txSeq[client[c].node] - 1) BY <2>1 DEF Numbered
  <2>4. PICK g \in Nodes, n \in Nat :
          g = client[c].node /\ n = txSeq[g] - 1 /\ Below(g, n)
    BY <2>1, <2>2, <2>3 DEF Numbered
  <2>5. Below(g, n)' BY <1>2, <2>4
  <2>6. QED BY <2>1, <2>4, <2>5 DEF Below
<1>6. QED BY <1>1, <1>3, <1>4, <1>5 DEF NumberInv

\* What Append and Tail do to the entries of a sequence.
LEMMA AppendAt ==
  ASSUME NEW S, NEW s \in Seq(S), NEW x \in S
  PROVE  /\ Len(Append(s, x)) = Len(s) + 1 /\ Len(s) \in Nat
         /\ Append(s, x)[Len(s) + 1] = x
         /\ \A i \in 1..Len(s) : Append(s, x)[i] = s[i]
  OBVIOUS

LEMMA TailAt ==
  ASSUME NEW S, NEW s \in Seq(S), s # <<>>
  PROVE  /\ Len(Tail(s)) = Len(s) - 1 /\ Len(s) \in Nat \ {0}
         /\ Head(s) = s[1]
         /\ \A i \in 1..Len(Tail(s)) : Tail(s)[i] = s[i + 1] /\ i + 1 \in 1..Len(s)
  OBVIOUS

LEMMA ConcatInjective ==
  ASSUME NEW S, NEW s \in Seq(S), NEW t \in Seq(S),
         \A i, j \in 1..Len(s) : s[i] = s[j] => i = j,
         \A i, j \in 1..Len(t) : t[i] = t[j] => i = j,
         \A i \in 1..Len(s), j \in 1..Len(t) : s[i] # t[j]
  PROVE  IsInjective(s \o t)
<1> DEFINE u == s \o t
<1>1. Len(s) \in Nat /\ Len(t) \in Nat OBVIOUS
<1>2. u \in Seq(S) /\ Len(u) = Len(s) + Len(t) BY ConcatProperties
<1>3. DOMAIN u = 1..(Len(s) + Len(t)) BY <1>2
<1>4. \A i \in 1..Len(s) : u[i] = s[i] BY <1>1, ConcatProperties
<1>5. \A i \in DOMAIN u \ 1..Len(s) : i - Len(s) \in 1..Len(t) /\ u[i] = t[i - Len(s)]
  BY <1>1, <1>3, ConcatProperties
<1> HIDE DEF u
<1>6. ASSUME NEW i \in DOMAIN u, NEW j \in DOMAIN u, u[i] = u[j] PROVE i = j
  <2>1. CASE i \in 1..Len(s) BY <1>1, <1>3, <1>4, <1>5, <1>6, <2>1
  <2>2. CASE i \notin 1..Len(s) /\ j \in 1..Len(s) BY <1>1, <1>3, <1>4, <1>5, <1>6, <2>2
  <2>3. CASE i \notin 1..Len(s) /\ j \notin 1..Len(s) BY <1>1, <1>3, <1>5, <1>6, <2>3
  <2>4. QED BY <2>1, <2>2, <2>3
<1>7. QED BY <1>6 DEF IsInjective, u

\* Under chainMu nobody else has taken a number of the node.
LEMMA OnlyHolder ==
  ASSUME TypeOK, ClientsOK, NEW g \in Nodes, NEW d \in Clients, client[d].at \in Taken,
         chainMu[g] # d
  PROVE  client[d].node # g /\ client[d].node \in Nodes
BY DEF ClientsOK, ClientOK, Taken, LocalSteps

LEMMA BelowMore ==
  ASSUME TypeOK, ClientsOK, NumberInv, NEW h \in Nodes, NEW n \in Nat, NEW m \in Nat,
         n <= m, Below(h, n)
  PROVE  Below(h, m)
<1>1. /\ \A i \in 1..Len(chain[h]) : chain[h][i] \in IDs /\ chain[h][i] \in DOMAIN txs
      /\ \A i \in 1..Len(queue[h]) : queue[h][i] \in IDs
  BY DEF TypeOK, NumberInv, Owned
<1>2. \A i \in 1..Len(chain[h]) : chain[h][i].number \in Nat /\ txs[chain[h][i]].seq \in Nat
  BY <1>1 DEF TypeOK, IDs, Tx
<1>3. \A i \in 1..Len(queue[h]) : queue[h][i].number \in Nat BY <1>1 DEF IDs
<1>4. \A d \in Clients : At(d, "enqueue") => client[d].id.number \in Nat
  BY DEF ClientsOK, ClientOK, At, TypeOK, IDs
<1>5. QED BY <1>2, <1>3, <1>4 DEF Below

LEMMA NumbersLock ==
  ASSUME TypeOK, ClientsOK, NumberInv, NEW c \in Clients, LocalLock(c),
         CanPay(client[c].node, client[c].from, Total(c))
  PROVE  NumberInv'
<1>1. PICK g \in Nodes :
      /\ g = client[c].node /\ chainMu[g] = c /\ client[c].at = "lock"
      /\ Goto(c, "unlock") /\ txSeq' = [txSeq EXCEPT ![g] = @ + 1]
      /\ UNCHANGED <<chain, queue, txs>>
  BY DEF ClientsOK, ClientOK, LocalLock, At, LocalSteps
<1>2. \A h \in Nodes : txSeq'[h] \in Nat /\ txSeq[h] \in Nat /\ txSeq[h] <= txSeq'[h]
  BY <1>1 DEF TypeOK
<1>3. /\ client'[c].at = "unlock" /\ client'[c].node = g
      /\ \A d \in Clients \ {c} : client'[d] = client[d]
  BY <1>1, GotoIs
<1>4. txSeq'[g] = txSeq[g] + 1 /\ \A h \in Nodes \ {g} : txSeq'[h] = txSeq[h]
  BY <1>1 DEF TypeOK
<1>5. ASSUME NEW h \in Nodes, NEW n \in Nat, Below(h, n) PROVE Below(h, n)'
  BY <1>1, <1>3, <1>5 DEF Below, At
<1>6. ASSUME NEW h \in Nodes
      PROVE  Owned(h)' /\ Distinct(h)' /\ Increasing(h)' /\ Below(h, txSeq[h])'
  <2>1. Owned(h) /\ Distinct(h) /\ Increasing(h) /\ Below(h, txSeq[h]) BY DEF NumberInv
  <2>2. Owned(h)' /\ Distinct(h)' /\ Increasing(h)'
    BY <1>1, <2>1 DEF Owned, Distinct, Increasing
  <2>3. PICK n \in Nat, m \in Nat : n = txSeq[h] /\ m = txSeq'[h] /\ n <= m BY <1>2
  <2>4. Below(h, m)' BY <1>5, <2>1, <2>3, BelowMore
  <2>5. QED BY <2>2, <2>3, <2>4 DEF Below
<1>7. ASSUME NEW d \in Clients PROVE Pending(d)' /\ Fresh(d)' BY <1>1, <1>3 DEF NumberInv, Pending, Fresh, At
<1>8. ASSUME NEW d \in Clients PROVE Numbered(d)'
  <2> SUFFICES ASSUME client'[d].at \in Taken PROVE Numbered(d)' BY DEF Numbered
  <2>1. CASE d = c
    <3>1. g \in Nodes /\ Below(g, txSeq[g]) BY <1>1 DEF NumberInv
    <3>2. PICK n \in Nat : n = txSeq[g] /\ Below(g, n) BY <1>2, <3>1
    <3>3. Below(g, n)' BY <1>5, <3>1, <3>2
    <3>4. txSeq'[g] - 1 = n BY <1>4, <3>2
    <3>5. QED BY <1>3, <2>1, <3>2, <3>3, <3>4 DEF Numbered, Below
  <2>2. CASE d # c
    <3>1. client'[d] = client[d] /\ client[d].at \in Taken BY <1>3, <2>2
    <3>2. client[d].node # g /\ client[d].node \in Nodes
      BY <1>1, <2>2, <3>1, OnlyHolder
    <3>3. txSeq[client[d].node] - 1 \in Nat
          /\ Below(client[d].node, txSeq[client[d].node] - 1)
      BY <3>1 DEF NumberInv, Numbered
    <3>4. PICK h \in Nodes, n \in Nat :
            h = client[d].node /\ n = txSeq[h] - 1 /\ Below(h, n) BY <3>2, <3>3
    <3>5. Below(h, n)' BY <1>5, <3>4
    <3>6. txSeq'[h] = txSeq[h] BY <1>4, <3>2, <3>4
    <3>7. QED BY <3>1, <3>4, <3>5, <3>6 DEF Numbered, Below
  <2>3. QED BY <2>1, <2>2
<1>9. QED BY <1>6, <1>7, <1>8 DEF NumberInv

\* The IDs and numbers of a node are numbers.
LEMMA NumberTypes ==
  ASSUME TypeOK, ClientsOK, NumberInv
  PROVE  /\ \A h \in Nodes : txSeq[h] \in Nat
         /\ \A h \in Nodes : \A i \in 1..Len(chain[h]) :
              /\ chain[h][i] \in IDs /\ chain[h][i] \in DOMAIN txs
              /\ chain[h][i].region = h /\ chain[h][i].number \in Nat
              /\ txs[chain[h][i]].seq \in Nat
         /\ \A h \in Nodes : \A i \in 1..Len(queue[h]) :
              /\ queue[h][i] \in IDs /\ queue[h][i] \in DOMAIN txs
              /\ queue[h][i].region = h /\ queue[h][i].number \in Nat
         /\ \A d \in Clients : At(d, "enqueue") =>
              /\ client[d].id \in DOMAIN txs /\ client[d].id.number \in Nat
              /\ client[d].id.region = client[d].node /\ client[d].node \in Nodes
<1>1. /\ \A h \in Nodes : \A i \in 1..Len(chain[h]) :
           chain[h][i] \in IDs /\ chain[h][i] \in DOMAIN txs /\ chain[h][i].region = h
      /\ \A h \in Nodes : \A i \in 1..Len(queue[h]) :
           queue[h][i] \in IDs /\ queue[h][i] \in DOMAIN txs /\ queue[h][i].region = h
  BY DEF TypeOK, NumberInv, Owned
<1>2. \A id \in IDs : id.number \in Nat BY DEF IDs
<1>3. \A id \in DOMAIN txs : id \in IDs /\ txs[id].seq \in Nat BY DEF TypeOK, Tx
<1>4. \A d \in Clients : At(d, "enqueue") =>
        /\ client[d].id \in DOMAIN txs /\ client[d].node \in Nodes
        /\ client[d].id.region = client[d].node
  BY DEF ClientsOK, ClientOK, At, NumberInv, Pending
<1>5. \A h \in Nodes : txSeq[h] \in Nat BY DEF TypeOK
<1>6. QED BY <1>1, <1>2, <1>3, <1>4, <1>5

LEMMA NumbersAppend ==
  ASSUME TypeOK, ClientsOK, NumberInv, NEW c \in Clients, AppendLocal(c)
  PROVE  NumberInv'
<1>1. PICK g \in Nodes, n \in Nat, id \in IDs :
      /\ g = client[c].node /\ chainMu[g] = c /\ client[c].at = "append"
      /\ n = txSeq[g] /\ id = ID(g, n) BY DEF ClientsOK, ClientOK, AppendLocal, At, LocalSteps, TypeOK, ID, IDs
<1>2. id.region = g /\ id.number = n BY <1>1 DEF ID
<1>3. PICK tx \in Tx :
        txs' = [i \in DOMAIN txs \cup {id} |-> IF i = id THEN tx ELSE txs[i]] /\ tx.seq = n
  <2> DEFINE tx == [from |-> client[c].from, amount |-> client[c].amount,
                    seq |-> n, status |-> "confirmed"]
  <2>1. tx \in Tx BY <1>1 DEF ClientsOK, ClientOK, Tx
  <2>2. Record(id, tx) BY <1>1 DEF AppendLocal
  <2>3. QED BY <2>1, <2>2 DEF Record
<1>4. /\ chain' = [chain EXCEPT ![g] = Append(@, id)] /\ queue' = queue /\ txSeq' = txSeq
      /\ Return(c)
  BY <1>1 DEF AppendLocal
<1>5. n - 1 \in Nat /\ Below(g, n - 1)
  BY <1>1 DEF NumberInv, Numbered, Taken, LocalSteps
<1>6. /\ Len(chain'[g]) = Len(chain[g]) + 1 /\ Len(chain[g]) \in Nat
      /\ chain'[g][Len(chain[g]) + 1] = id
      /\ \A i \in 1..Len(chain[g]) : chain'[g][i] = chain[g][i]
      /\ \A h \in Nodes \ {g} : chain'[h] = chain[h] BY <1>4, AppendAt DEF TypeOK
\* The new ID is not in use.
<1>7. /\ \A h \in Nodes : \A i \in 1..Len(chain[h]) : chain[h][i] # id
      /\ \A h \in Nodes : \A i \in 1..Len(queue[h]) : queue[h][i] # id
      /\ \A d \in Clients : At(d, "enqueue") => client[d].id # id
  <2>1. ~(n <= n - 1) OBVIOUS
  <2>2. ASSUME NEW h \in Nodes, NEW i \in 1..Len(chain[h]) PROVE chain[h][i] # id
    <3>1. chain[h][i].region = h BY NumberTypes
    <3>2. h = g => chain[h][i].number <= n - 1 BY <1>5 DEF Below
    <3>3. QED BY <1>2, <2>1, <3>1, <3>2
  <2>3. ASSUME NEW h \in Nodes, NEW i \in 1..Len(queue[h]) PROVE queue[h][i] # id
    <3>1. queue[h][i].region = h BY NumberTypes
    <3>2. h = g => queue[h][i].number <= n - 1 BY <1>5 DEF Below
    <3>3. QED BY <1>2, <2>1, <3>1, <3>2
  <2>4. ASSUME NEW d \in Clients, At(d, "enqueue") PROVE client[d].id # id
    <3>1. client[d].id.region = client[d].node BY <2>4 DEF NumberInv, Pending
    <3>2. client[d].node = g => client[d].id.number <= n - 1 BY <2>4, <1>5 DEF Below
    <3>3. QED BY <1>2, <2>1, <3>1, <3>2
  <2>5. QED BY <2>2, <2>3, <2>4
<1>8. /\ \A i \in DOMAIN txs : i \in DOMAIN txs' /\ (i # id => txs'[i] = txs[i])
      /\ id \in DOMAIN txs' /\ txs'[id].seq = n
  BY <1>3
<1>9. /\ client'[c].at = "idle" /\ \A d \in Clients \ {c} : client'[d] = client[d]
  BY <1>4, ReturnIs
<1>10. \A h \in Nodes : \A i \in 1..Len(chain'[h]) :
         \/ i \in 1..Len(chain[h]) /\ chain'[h][i] = chain[h][i]
         \/ h = g /\ i = Len(chain[g]) + 1 /\ chain'[h][i] = id
  BY <1>6
<1>11. ASSUME NEW h \in Nodes PROVE Owned(h)' /\ Distinct(h)' /\ Increasing(h)'
  <2>1. Owned(h) /\ Distinct(h) /\ Increasing(h) BY DEF NumberInv
  <2>2. Owned(h)' BY <1>2, <1>4, <1>8, <1>10, <2>1 DEF Owned
  <2>3. Distinct(h)' BY <1>4, <1>7, <1>10, <2>1 DEF Distinct
  <2>4. ASSUME NEW i \in 1..Len(chain'[h]), NEW j \in 1..Len(chain'[h]), i < j
        PROVE  txs'[chain'[h][i]].seq < txs'[chain'[h][j]].seq
    <3>1. i \in 1..Len(chain[h]) /\ chain'[h][i] = chain[h][i]
      BY <1>6, <1>10, <2>4
    <3>2. chain[h][i] # id /\ chain[h][i] \in DOMAIN txs BY <1>7, <3>1, NumberTypes
    <3>3. txs'[chain'[h][i]].seq = txs[chain[h][i]].seq BY <1>8, <3>1, <3>2
    <3>4. CASE j \in 1..Len(chain[h]) /\ chain'[h][j] = chain[h][j]
      <4>1. chain[h][j] # id /\ chain[h][j] \in DOMAIN txs BY <1>7, <3>4, NumberTypes
      <4>2. txs'[chain'[h][j]].seq = txs[chain[h][j]].seq BY <1>8, <3>4, <4>1
      <4>3. QED BY <2>1, <2>4, <3>1, <3>3, <3>4, <4>2 DEF Increasing
    <3>5. CASE h = g /\ chain'[h][j] = id
      <4>1. txs[chain[h][i]].seq <= n - 1 /\ txs[chain[h][i]].seq \in Nat
        BY <1>5, <3>1, <3>5, NumberTypes DEF Below
      <4>2. QED BY <1>8, <3>3, <3>5, <4>1
    <3>6. QED BY <1>10, <3>4, <3>5
  <2>5. QED BY <2>2, <2>3, <2>4 DEF Increasing
<1>12. ASSUME NEW h \in Nodes, NEW m \in Nat, Below(h, m), h = g => n <= m
       PROVE  Below(h, m)'
  <2>1. \A i \in 1..Len(chain'[h]) : chain'[h][i].number <= m /\ txs'[chain'[h][i]].seq <= m
    <3>1. ASSUME NEW i \in 1..Len(chain[h]), chain'[h][i] = chain[h][i]
          PROVE  chain'[h][i].number <= m /\ txs'[chain'[h][i]].seq <= m
      <4>1. chain[h][i] # id /\ chain[h][i] \in DOMAIN txs BY <1>7, NumberTypes
      <4>2. QED BY <1>8, <1>12, <3>1, <4>1 DEF Below
    <3>2. QED BY <1>2, <1>8, <1>10, <1>12, <3>1
  <2>2. QED BY <1>4, <1>9, <1>12, <2>1 DEF Below, At
<1>13. ASSUME NEW h \in Nodes PROVE Below(h, txSeq[h])'
  <2>1. PICK m \in Nat : m = txSeq[h] /\ Below(h, m) BY NumberTypes DEF NumberInv
  <2>2. h = g => n <= m BY <1>1, <2>1
  <2>3. Below(h, m)' BY <1>12, <2>1, <2>2
  <2>4. QED BY <1>4, <2>1, <2>3 DEF Below
<1>14. ASSUME NEW d \in Clients PROVE Pending(d)' /\ Fresh(d)' /\ Numbered(d)'
  <2>1. Pending(d) /\ Fresh(d) /\ Numbered(d) BY DEF NumberInv
  <2>2. CASE d = c BY <1>9, <2>2 DEF Pending, Fresh, Numbered, At, Taken, LocalSteps
  <2>3. CASE d # c
    <3>1. client'[d] = client[d] BY <1>9, <2>3
    <3>2. Pending(d)' BY <2>1, <3>1 DEF Pending, At
    <3>3. Fresh(d)'
      BY <1>4, <1>7, <1>9, <1>10, <2>1, <3>1, NumberTypes DEF Fresh, At
    <3>4. ASSUME client[d].at \in Taken PROVE Numbered(d)'
      <4>1. client[d].node # g /\ client[d].node \in Nodes BY <1>1, <2>3, <3>4, OnlyHolder
      <4>2. PICK h \in Nodes, m \in Nat :
              h = client[d].node /\ m = txSeq[h] - 1 /\ Below(h, m)
        BY <2>1, <3>4, <4>1 DEF Numbered
      <4>3. Below(h, m)' BY <1>12, <4>1, <4>2
      <4>4. QED BY <1>4, <3>1, <4>2, <4>3 DEF Numbered, Below
    <3>5. QED BY <3>1, <3>2, <3>3, <3>4 DEF Numbered
  <2>4. QED BY <2>2, <2>3
<1>15. QED BY <1>11, <1>13, <1>14 DEF NumberInv

LEMMA NumbersCross ==
  ASSUME TypeOK, ClientsOK, NumberInv, NEW c \in Clients, CrossNumber(c)
  PROVE  NumberInv'
<1>1. PICK g \in Nodes, n \in Nat, id \in IDs :
      /\ g = client[c].node /\ chainMu[g] = None /\ client[c].at = "number"
      /\ n = txSeq[g] /\ id = ID(g, n + 1) BY DEF ClientsOK, ClientOK, CrossNumber, At, ChainFree, TypeOK, ID, IDs
<1>2. id.region = g /\ id.number = n + 1 BY <1>1 DEF ID
<1>3. PICK tx :
        txs' = [i \in DOMAIN txs \cup {id} |-> IF i = id THEN tx ELSE txs[i]]
  BY <1>1 DEF CrossNumber, Record
<1>4. /\ txSeq' = [txSeq EXCEPT ![g] = @ + 1] /\ UNCHANGED <<chain, queue>>
      /\ client' = [client EXCEPT ![c] = [client[c] EXCEPT !.at = "enqueue", !.id = id]]
  BY <1>1 DEF CrossNumber, TypeOK
<1>5. /\ client'[c].at = "enqueue" /\ client'[c].id = id /\ client'[c].node = g
      /\ \A d \in Clients \ {c} : client'[d] = client[d] BY <1>1, <1>4 DEF TypeOK, Client
<1>6. txSeq'[g] = n + 1 /\ \A h \in Nodes \ {g} : txSeq'[h] = txSeq[h]
  BY <1>1, <1>4 DEF TypeOK
\* The new ID is not in use.
<1>7. /\ \A h \in Nodes : \A i \in 1..Len(chain[h]) : chain[h][i] # id
      /\ \A h \in Nodes : \A i \in 1..Len(queue[h]) : queue[h][i] # id
      /\ \A d \in Clients : At(d, "enqueue") => client[d].id # id
  <2>1. ~(n + 1 <= n) /\ Below(g, n) BY <1>1 DEF NumberInv
  <2>2. QED BY <1>2, <2>1, NumberTypes DEF Below
<1>8. \A i \in DOMAIN txs : i \in DOMAIN txs' /\ (i # id => txs'[i] = txs[i])
  BY <1>3
<1>9. \A h \in Nodes : \A i \in 1..Len(chain[h]) : txs'[chain[h][i]] = txs[chain[h][i]]
  BY <1>7, <1>8, NumberTypes
<1>10. ASSUME NEW h \in Nodes PROVE Owned(h)' /\ Distinct(h)' /\ Increasing(h)'
  <2>1. Owned(h) /\ Distinct(h) /\ Increasing(h) BY DEF NumberInv
  <2>2. Owned(h)' BY <1>4, <1>8, <2>1 DEF Owned
  <2>3. Distinct(h)' BY <1>4, <2>1 DEF Distinct
  <2>4. Increasing(h)' BY <1>4, <1>9, <2>1 DEF Increasing
  <2>5. QED BY <2>2, <2>3, <2>4
<1>11. ASSUME NEW h \in Nodes, NEW m \in Nat, Below(h, m), h = g => n + 1 <= m
       PROVE  Below(h, m)'
  <2>1. \A i \in 1..Len(chain'[h]) : chain'[h][i].number <= m /\ txs'[chain'[h][i]].seq <= m
    BY <1>4, <1>9, <1>11 DEF Below
  <2>2. \A i \in 1..Len(queue'[h]) : queue'[h][i].number <= m
    BY <1>4, <1>11 DEF Below
  <2>3. \A d \in Clients : At(d, "enqueue")' /\ client'[d].node = h => client'[d].id.number <= m
    BY <1>2, <1>5, <1>11 DEF Below, At
  <2>4. QED BY <2>1, <2>2, <2>3 DEF Below
<1>12. ASSUME NEW h \in Nodes PROVE Below(h, txSeq[h])'
  <2>1. PICK m \in Nat, k \in Nat :
          /\ k = txSeq[h] /\ Below(h, k) /\ m = IF h = g THEN n + 1 ELSE k
    BY <1>1, NumberTypes DEF NumberInv
  <2>2. k <= m /\ m = txSeq'[h] /\ (h = g => n + 1 <= m) BY <1>1, <1>6, <2>1
  <2>3. Below(h, m)' BY <1>11, <2>1, <2>2, BelowMore
  <2>4. QED BY <2>2, <2>3 DEF Below
<1>13. ASSUME NEW d \in Clients PROVE Pending(d)' /\ Fresh(d)' /\ Numbered(d)'
  <2>1. Pending(d) /\ Fresh(d) /\ Numbered(d) BY DEF NumberInv
  <2>2. CASE d = c
    <3>1. Pending(d)' BY <1>2, <1>5, <2>2 DEF Pending
    <3>2. Fresh(d)' BY <1>1, <1>4, <1>5, <1>7, <2>2 DEF Fresh, At
    <3>3. QED BY <1>5, <2>2, <3>1, <3>2 DEF Numbered, Taken, LocalSteps
  <2>3. CASE d # c
    <3>1. client'[d] = client[d] BY <1>5, <2>3
    <3>2. Pending(d)' BY <2>1, <3>1 DEF Pending, At
    <3>3. Fresh(d)' BY <1>4, <1>5, <1>7, <2>1, <3>1 DEF Fresh, At
    <3>4. ASSUME client[d].at \in Taken PROVE Numbered(d)'
      <4>1. client[d].node # g /\ client[d].node \in Nodes
        BY <1>1, <3>4, OnlyHolder, RegionAssumption
      <4>2. PICK h \in Nodes, m \in Nat :
              h = client[d].node /\ m = txSeq[h] - 1 /\ Below(h, m)
        BY <2>1, <3>4, <4>1 DEF Numbered
      <4>3. Below(h, m)' BY <1>11, <4>1, <4>2
      <4>4. QED BY <1>6, <3>1, <4>1, <4>2, <4>3 DEF Numbered, Below
    <3>5. QED BY <3>1, <3>2, <3>3, <3>4 DEF Numbered
  <2>4. QED BY <2>2, <2>3
<1>14. QED BY <1>10, <1>12, <1>13 DEF NumberInv

LEMMA NumbersEnqueue ==
  ASSUME TypeOK, ClientsOK, NumberInv, NEW c \in Clients, Enqueue(c)
  PROVE  NumberInv'
<1>1. PICK g \in Nodes, id \in IDs :
      g = client[c].node /\ id = client[c].id /\ At(c, "enqueue")
  BY DEF ClientsOK, ClientOK, TypeOK, Enqueue, At
<1>2. /\ id \in DOMAIN txs /\ id.region = g /\ id.number \in Nat
  BY <1>1, NumberTypes
<1>3. /\ queue' = [queue EXCEPT ![g] = Append(@, id)] /\ UNCHANGED <<chain, txSeq, txs>>
      /\ Return(c) \/ Goto(c, "verify")
  BY <1>1 DEF Enqueue
<1>4. /\ Len(queue'[g]) = Len(queue[g]) + 1 /\ Len(queue[g]) \in Nat
      /\ queue'[g][Len(queue[g]) + 1] = id
      /\ \A i \in 1..Len(queue[g]) : queue'[g][i] = queue[g][i]
      /\ \A h \in Nodes \ {g} : queue'[h] = queue[h] BY <1>3, AppendAt DEF TypeOK
<1>5. \A h \in Nodes : \A i \in 1..Len(queue'[h]) :
         \/ i \in 1..Len(queue[h]) /\ queue'[h][i] = queue[h][i]
         \/ h = g /\ i = Len(queue[g]) + 1 /\ queue'[h][i] = id
  BY <1>4
<1>6. /\ client'[c].at \in {"idle", "verify"}
      /\ \A d \in Clients \ {c} : client'[d] = client[d]
  BY <1>3, ReturnIs, GotoIs
<1>7. /\ \A i \in 1..Len(chain[g]) : chain[g][i] # id
      /\ \A i \in 1..Len(queue[g]) : queue[g][i] # id
      /\ \A d \in Clients \ {c} : At(d, "enqueue") => client[d].id # id
  BY <1>1 DEF NumberInv, Fresh
<1>8. ASSUME NEW h \in Nodes PROVE Owned(h)' /\ Distinct(h)' /\ Increasing(h)'
  <2>1. Owned(h) /\ Distinct(h) /\ Increasing(h) BY DEF NumberInv
  <2>2. Owned(h)' BY <1>2, <1>3, <1>5, <2>1 DEF Owned
  <2>3. Distinct(h)' BY <1>3, <1>5, <1>7, <2>1 DEF Distinct
  <2>4. Increasing(h)' BY <1>3, <2>1 DEF Increasing
  <2>5. QED BY <2>2, <2>3, <2>4
<1>9. ASSUME NEW h \in Nodes, NEW m \in Nat, Below(h, m) PROVE Below(h, m)'
  BY <1>1, <1>3, <1>5, <1>6, <1>9 DEF Below, At
<1>10. ASSUME NEW h \in Nodes PROVE Below(h, txSeq[h])' BY <1>3, <1>9, NumberTypes DEF NumberInv, Below
<1>11. ASSUME NEW d \in Clients PROVE Pending(d)' /\ Fresh(d)' /\ Numbered(d)'
  <2>1. Pending(d) /\ Fresh(d) /\ Numbered(d) BY DEF NumberInv
  <2>2. CASE d = c BY <1>6, <2>2 DEF Pending, Fresh, Numbered, At, Taken, LocalSteps
  <2>3. CASE d # c
    <3>1. client'[d] = client[d] BY <1>6, <2>3
    <3>2. Pending(d)' BY <2>1, <3>1 DEF Pending, At
    <3>3. Fresh(d)'
      BY <1>3, <1>5, <1>6, <1>7, <2>1, <2>3, <3>1, NumberTypes DEF Fresh, At
    <3>4. ASSUME client[d].at \in Taken PROVE Numbered(d)'
      <4>1. client[d].node \in Nodes
        BY <3>4 DEF ClientsOK, ClientOK, Taken, LocalSteps
      <4>2. PICK h \in Nodes, m \in Nat :
              h = client[d].node /\ m = txSeq[h] - 1 /\ Below(h, m)
        BY <2>1, <3>4, <4>1 DEF Numbered
      <4>3. Below(h, m)' BY <1>9, <4>2
      <4>4. QED BY <1>3, <3>1, <4>2, <4>3 DEF Numbered, Below
    <3>5. QED BY <3>1, <3>2, <3>3, <3>4 DEF Numbered
  <2>4. QED BY <2>2, <2>3
<1>12. QED BY <1>8, <1>10, <1>11 DEF NumberInv

LEMMA NumbersProcess ==
  ASSUME TypeOK, ClientsOK, NumberInv, NEW g \in Nodes, ProcessTx(g)
  PROVE  NumberInv'
<1>1. queue[g] \in Seq(IDs) /\ queue[g] # <<>> /\ chain[g] \in Seq(IDs)
  BY DEF ProcessTx, TypeOK
<1>2. PICK id \in IDs, n \in Nat :
        id = Head(queue[g]) /\ id = queue[g][1] /\ n = txSeq[g] BY <1>1, TailAt DEF TypeOK
<1>3. /\ txSeq' = [txSeq EXCEPT ![g] = @ + 1] /\ chainMu[g] = None
      /\ txs' = [txs EXCEPT ![id].seq = n + 1]
      /\ chain' = [chain EXCEPT ![g] = Append(@, id)]
      /\ queue' = [queue EXCEPT ![g] = Tail(@)]
      /\ client' = client
  BY <1>2 DEF ProcessTx, ChainFree
<1>4. txSeq'[g] = n + 1 /\ \A h \in Nodes \ {g} : txSeq'[h] = txSeq[h]
  BY <1>2, <1>3 DEF TypeOK
<1>5. /\ Len(chain'[g]) = Len(chain[g]) + 1 /\ Len(chain[g]) \in Nat
      /\ chain'[g][Len(chain[g]) + 1] = id
      /\ \A i \in 1..Len(chain[g]) : chain'[g][i] = chain[g][i]
      /\ \A h \in Nodes \ {g} : chain'[h] = chain[h] BY <1>1, <1>3, AppendAt DEF TypeOK
<1>6. \A h \in Nodes : \A i \in 1..Len(chain'[h]) :
         \/ i \in 1..Len(chain[h]) /\ chain'[h][i] = chain[h][i]
         \/ h = g /\ i = Len(chain[g]) + 1 /\ chain'[h][i] = id
  BY <1>5
<1>7. /\ \A i \in 1..Len(queue'[g]) :
           queue'[g][i] = queue[g][i + 1] /\ i + 1 \in 1..Len(queue[g])
      /\ 1 \in 1..Len(queue[g])
      /\ \A h \in Nodes \ {g} : queue'[h] = queue[h] BY <1>1, <1>3, TailAt DEF TypeOK
<1>q. \A h \in Nodes : \A i \in 1..Len(queue'[h]) :
        \E k \in 1..Len(queue[h]) : queue'[h][i] = queue[h][k]
  <2> SUFFICES ASSUME NEW h \in Nodes, NEW i \in 1..Len(queue'[h])
               PROVE  \E k \in 1..Len(queue[h]) : queue'[h][i] = queue[h][k]
    OBVIOUS
  <2>1. CASE h = g BY <1>7, <2>1
  <2>2. CASE h # g BY <1>7, <2>2
  <2>3. QED BY <2>1, <2>2
<1>8. id \in DOMAIN txs /\ id.region = g /\ id.number \in Nat /\ id.number <= n
  BY <1>2, <1>7, NumberTypes DEF NumberInv, Below
\* The dequeued transaction is in no chain and nowhere else in the queue.
<1>9. /\ \A h \in Nodes : \A i \in 1..Len(chain[h]) : chain[h][i] # id
      /\ \A i \in 1..Len(queue'[g]) : queue'[g][i] # id
      /\ \A d \in Clients : At(d, "enqueue") => client[d].id # id
  <2>1. \A h \in Nodes : \A i \in 1..Len(chain[h]) : chain[h][i] # id
    <3>1. ASSUME NEW h \in Nodes, NEW i \in 1..Len(chain[h]), chain[h][i] = id PROVE FALSE
      <4>1. h = g BY <1>8, <3>1, NumberTypes
      <4>2. Distinct(g) BY DEF NumberInv
      <4>3. QED BY <1>2, <1>7, <3>1, <4>1, <4>2 DEF Distinct
    <3>2. QED BY <3>1
  <2>2. \A i \in 1..Len(queue'[g]) : queue'[g][i] # id
    <3>1. Distinct(g) BY DEF NumberInv
    <3>2. ASSUME NEW i \in 1..Len(queue'[g]), queue'[g][i] = id PROVE FALSE
      <4>1. i + 1 = 1 BY <1>2, <1>7, <3>1, <3>2 DEF Distinct
      <4>2. QED BY <4>1
    <3>3. QED BY <3>2
  <2>3. ASSUME NEW d \in Clients, At(d, "enqueue") PROVE client[d].id # id
    <3>1. CASE client[d].node = g BY <1>2, <1>7, <2>3, <3>1 DEF NumberInv, Fresh
    <3>2. CASE client[d].node # g BY <1>8, <2>3, <3>2, NumberTypes
    <3>3. QED BY <3>1, <3>2
  <2>4. QED BY <2>1, <2>2, <2>3
<1>10. /\ DOMAIN txs' = DOMAIN txs /\ txs'[id].seq = n + 1
       /\ \A i \in DOMAIN txs : i # id => txs'[i] = txs[i]
  <2>1. txs[id] \in Tx BY <1>8 DEF TypeOK
  <2>2. QED BY <1>3, <1>8, <2>1 DEF Tx
<1>11. \A h \in Nodes : \A i \in 1..Len(chain[h]) : txs'[chain[h][i]] = txs[chain[h][i]]
  BY <1>9, <1>10, NumberTypes
<1>12. ASSUME NEW h \in Nodes PROVE Owned(h)' /\ Distinct(h)' /\ Increasing(h)'
  <2>1. Owned(h) /\ Distinct(h) /\ Increasing(h) BY DEF NumberInv
  <2>2. Owned(h)'
    <3>1. ASSUME NEW i \in 1..Len(chain'[h])
          PROVE  chain'[h][i].region = h /\ chain'[h][i] \in DOMAIN txs'
      <4>1. CASE i \in 1..Len(chain[h]) /\ chain'[h][i] = chain[h][i]
        BY <1>10, <2>1, <4>1 DEF Owned
      <4>2. CASE h = g /\ chain'[h][i] = id BY <1>8, <1>10, <4>2
      <4>3. QED BY <1>6, <4>1, <4>2
    <3>2. ASSUME NEW i \in 1..Len(queue'[h])
          PROVE  queue'[h][i].region = h /\ queue'[h][i] \in DOMAIN txs'
      <4>1. PICK k \in 1..Len(queue[h]) : queue'[h][i] = queue[h][k] BY <1>q
      <4>2. QED BY <1>10, <2>1, <4>1 DEF Owned
    <3>3. QED BY <3>1, <3>2 DEF Owned
  <2>3. Distinct(h)'
    <3>1. \A i, j \in 1..Len(chain'[h]) : chain'[h][i] = chain'[h][j] => i = j
      BY <1>6, <1>9, <2>1 DEF Distinct
    <3>2. \A i, j \in 1..Len(queue'[h]) : queue'[h][i] = queue'[h][j] => i = j
      <4>1. CASE h # g BY <1>7, <2>1, <4>1 DEF Distinct
      <4>2. CASE h = g
        <5>1. ASSUME NEW i \in 1..Len(queue'[g]), NEW j \in 1..Len(queue'[g]),
                     queue'[g][i] = queue'[g][j]
              PROVE  i = j
          <6>1. i + 1 = j + 1 BY <1>7, <2>1, <4>2, <5>1 DEF Distinct
          <6>2. QED BY <6>1
        <5>2. QED BY <4>2, <5>1
      <4>3. QED BY <4>1, <4>2
    <3>3. \A i \in 1..Len(chain'[h]), j \in 1..Len(queue'[h]) : chain'[h][i] # queue'[h][j]
      <4> SUFFICES ASSUME NEW i \in 1..Len(chain'[h]), NEW j \in 1..Len(queue'[h])
                   PROVE  chain'[h][i] # queue'[h][j]
        OBVIOUS
      <4>1. PICK k \in 1..Len(queue[h]) : queue'[h][j] = queue[h][k] BY <1>q
      <4>2. CASE i \in 1..Len(chain[h]) /\ chain'[h][i] = chain[h][i]
        BY <2>1, <4>1, <4>2 DEF Distinct
      <4>3. CASE h = g /\ chain'[h][i] = id BY <1>9, <4>3
      <4>4. QED BY <1>6, <4>2, <4>3
    <3>4. QED BY <3>1, <3>2, <3>3 DEF Distinct
  <2>4. ASSUME NEW i \in 1..Len(chain'[h]), NEW j \in 1..Len(chain'[h]), i < j
        PROVE  txs'[chain'[h][i]].seq < txs'[chain'[h][j]].seq
    <3>1. i \in 1..Len(chain[h]) /\ chain'[h][i] = chain[h][i] BY <1>5, <1>6, <2>4
    <3>2. CASE j \in 1..Len(chain[h]) /\ chain'[h][j] = chain[h][j]
      BY <1>11, <2>1, <2>4, <3>1, <3>2 DEF Increasing
    <3>3. CASE h = g /\ chain'[h][j] = id
      <4>1. Below(g, n) BY <1>2 DEF NumberInv
      <4>2. txs[chain[h][i]].seq <= n /\ txs[chain[h][i]].seq \in Nat
        BY <3>1, <3>3, <4>1, NumberTypes DEF Below
      <4>3. QED BY <1>10, <1>11, <3>1, <3>3, <4>2
    <3>4. QED BY <1>6, <3>2, <3>3
  <2>5. QED BY <2>2, <2>3, <2>4 DEF Increasing
<1>13. ASSUME NEW h \in Nodes, NEW m \in Nat, Below(h, m), h = g => n + 1 <= m
       PROVE  Below(h, m)'
  <2>1. \A i \in 1..Len(chain'[h]) : chain'[h][i].number <= m /\ txs'[chain'[h][i]].seq <= m
    <3>1. ASSUME NEW i \in 1..Len(chain[h]), chain'[h][i] = chain[h][i]
          PROVE  chain'[h][i].number <= m /\ txs'[chain'[h][i]].seq <= m
      BY <1>11, <1>13, <3>1 DEF Below
    <3>2. h = g => id.number <= m /\ txs'[id].seq <= m BY <1>8, <1>10, <1>13
    <3>3. QED BY <1>6, <3>1, <3>2
  <2>2. \A i \in 1..Len(queue'[h]) : queue'[h][i].number <= m
    BY <1>q, <1>13 DEF Below
  <2>3. QED BY <1>3, <1>13, <2>1, <2>2 DEF Below, At
<1>14. ASSUME NEW h \in Nodes PROVE Below(h, txSeq[h])'
  <2>1. PICK m \in Nat, k \in Nat :
          /\ k = txSeq[h] /\ Below(h, k) /\ m = IF h = g THEN n + 1 ELSE k
    BY <1>2, NumberTypes DEF NumberInv
  <2>2. k <= m /\ m = txSeq'[h] /\ (h = g => n + 1 <= m) BY <1>2, <1>4, <2>1
  <2>3. Below(h, m)' BY <1>13, <2>1, <2>2, BelowMore
  <2>4. QED BY <2>2, <2>3 DEF Below
<1>15. ASSUME NEW d \in Clients PROVE Pending(d)' /\ Fresh(d)' /\ Numbered(d)'
  <2>1. Pending(d) /\ Fresh(d) /\ Numbered(d) BY DEF NumberInv
  <2>2. Pending(d)' BY <1>3, <2>1 DEF Pending, At
  <2>3. Fresh(d)'
    <3> SUFFICES ASSUME At(d, "enqueue") PROVE Fresh(d)' BY <1>3 DEF Fresh, At
    <3>1. PICK h \in Nodes : h = client[d].node BY NumberTypes
    <3>2. \A i \in 1..Len(chain'[h]) : chain'[h][i] # client[d].id
      BY <1>6, <1>9, <2>1, <3>1 DEF Fresh
    <3>3. \A i \in 1..Len(queue'[h]) : queue'[h][i] # client[d].id
      BY <1>q, <2>1, <3>1 DEF Fresh
    <3>4. QED BY <1>3, <2>1, <3>1, <3>2, <3>3 DEF Fresh, At
  <2>4. ASSUME client[d].at \in Taken PROVE Numbered(d)'
    <3>1. client[d].node # g /\ client[d].node \in Nodes
      BY <1>3, <2>4, OnlyHolder, RegionAssumption
    <3>2. PICK h \in Nodes, m \in Nat :
            h = client[d].node /\ m = txSeq[h] - 1 /\ Below(h, m)
      BY <2>1, <2>4, <3>1 DEF Numbered
    <3>3. Below(h, m)' BY <1>13, <3>1, <3>2
    <3>4. QED BY <1>3, <1>4, <3>1, <3>2, <3>3 DEF Numbered, Below
  <2>5. QED BY <1>3, <2>2, <2>3, <2>4 DEF Numbered
<1>16. QED BY <1>12, <1>14, <1>15 DEF NumberInv

-----------------------------------------------------------------------------
\* A goroutine that goes on to another step of its own without taking a
\* number or an ID, or returns.
LEMMA QuietClient ==
  ASSUME TypeOK, ClientsOK, NumberInv, NEW c \in Clients,
         UNCHANGED <<chain, queue, txSeq>>,
         DOMAIN txs' = DOMAIN txs, \A id \in DOMAIN txs : txs'[id].seq = txs[id].seq,
         \/ Return(c)
         \/ \E step \in Steps \ {"enqueue"} :
              Goto(c, step) /\ (step \in Taken => client[c].at \in Taken)
  PROVE  NumberInv'
<1>1. /\ \A d \in Clients \ {c} : client'[d] = client[d]
      /\ client'[c].at # "enqueue"
      /\ client'[c].at \in Taken =>
           client[c].at \in Taken /\ client'[c].node = client[c].node
  BY ReturnIs, GotoIs DEF Taken, LocalSteps
<1>2. QED BY <1>1, Quiet

LEMMA NumbersClient ==
  ASSUME TypeOK, ClientsOK, NumberInv, NEW c \in Clients, ClientStep(c)
  PROVE  NumberInv'
<1> USE DEF At, Steps, Taken, LocalSteps, ledger
<1>1. CASE TakeChain(c) BY <1>1, QuietClient DEF TakeChain
<1>2. CASE LocalLock(c) BY <1>2, NumbersLock, QuietClient DEF LocalLock
<1>3. CASE LocalUnlock(c) BY <1>3, QuietClient DEF LocalUnlock
<1>4. CASE LocalCredit(c) BY <1>4, QuietClient DEF LocalCredit
<1>5. CASE ReadEarnings(c) BY <1>5, Quiet DEF ReadEarnings, TypeOK, Client
<1>6. CASE AppendLocal(c) BY <1>6, NumbersAppend
<1>7. CASE CrossLock(c) BY <1>7, QuietClient DEF CrossLock
<1>8. CASE CrossNumber(c) BY <1>8, NumbersCross
<1>9. CASE Enqueue(c) BY <1>9, NumbersEnqueue
<1>10. CASE VerifyCrossRegion(c) BY <1>10, QuietClient DEF VerifyCrossRegion
<1>s. ASSUME NEW s, txs' = [txs EXCEPT ![client[c].id].status = s]
      PROVE  DOMAIN txs' = DOMAIN txs /\ \A id \in DOMAIN txs : txs'[id].seq = txs[id].seq BY <1>s DEF TypeOK, Tx
<1>11. CASE ReleaseLock(c) BY <1>11, <1>s, QuietClient DEF ReleaseLock
<1>12. CASE PayRecipient(c) BY <1>12, QuietClient DEF PayRecipient
<1>13. CASE EarnHere(c) BY <1>13, QuietClient DEF EarnHere
<1>14. CASE EarnThere(c) BY <1>14, <1>s, QuietClient DEF EarnThere
<1>15. QED
  BY <1>1, <1>2, <1>3, <1>4, <1>5, <1>6, <1>7, <1>8, <1>9, <1>10, <1>11, <1>12,
     <1>13, <1>14 DEF ClientStep

LEMMA NumbersStep ==
  ASSUME TypeOK, ClientsOK, NumberInv, [Next]_vars PROVE NumberInv'
<1>1. CASE UNCHANGED vars BY <1>1, Quiet DEF vars, ledger
<1>2. ASSUME NEW g \in Nodes, NEW u \in Users, NEW b \in Balances, AddMember(g, u, b)
      PROVE  NumberInv'
  BY <1>2, Quiet DEF AddMember, ledger
<1>3. ASSUME NEW c \in Clients, NEW g \in Origins, NEW u \in Users, NEW v \in Users,
             NEW a \in Amounts, Submit(c, g, u, v, a)
      PROVE  NumberInv'
  <2>1. g \in Nodes /\ UNCHANGED ledger BY <1>3, RegionAssumption DEF Submit
  <2>2. PICK step \in {"local", "cross"}, dest \in Nodes \cup {None} :
          client' = [client EXCEPT ![c] = Task(step, g, dest, u, v, a)]
    BY <1>3, <2>1 DEF Submit
  <2>3. client'[c].at = step /\ \A d \in Clients \ {c} : client'[d] = client[d]
    BY <2>2 DEF TypeOK, Task
  <2>4. QED BY <2>1, <2>3, Quiet DEF ledger, Taken, LocalSteps
<1>4. ASSUME NEW c \in Clients, ClientStep(c) PROVE NumberInv'
  BY <1>4, NumbersClient
<1>5. ASSUME NEW g \in Nodes, ProcessTx(g) PROVE NumberInv'
  BY <1>5, NumbersProcess
<1>6. ASSUME NEW g \in Nodes, MonthlySettle(g) \/ BeginSave(g) \/ EndSave(g)
      PROVE  NumberInv'
  BY <1>6, Quiet DEF MonthlySettle, BeginSave, EndSave, ledger
<1>7. ASSUME Restart PROVE NumberInv'
  <2>1. /\ \A h \in Nodes : Len(chain'[h]) = 0 /\ Len(queue'[h]) = 0
        /\ \A c \in Clients : client'[c].at = "idle"
    BY <1>7 DEF Restart, Idle, Task
  <2>2. QED BY <2>1 DEF NumberInv, Owned, Below, Distinct, Increasing, Pending, Fresh,
                        Numbered, At, Taken, LocalSteps
<1>8. QED BY <1>1, <1>2, <1>3, <1>4, <1>5, <1>6, <1>7 DEF Next

(* The inductive invariant: types, the ownership of chainMu, and where IDs *)
(* and numbers are.                                                        *)
THEOREM Inductive == Spec => []Inv
<1>1. Init => Inv
  <2> SUFFICES ASSUME Init PROVE Inv OBVIOUS
  <2>1. /\ \A h \in Nodes : Len(chain[h]) = 0 /\ Len(queue[h]) = 0
        /\ \A c \in Clients : client[c].at = "idle"
    BY DEF Init, Idle, Task
  <2>2. ClientsOK BY <2>1 DEF ClientsOK, ClientOK
  <2>3. NumberInv BY <2>1 DEF NumberInv, Owned, Below, Distinct, Increasing, Pending,
                             Fresh, Numbered, At, Taken, LocalSteps
  <2>4. QED BY <2>2, <2>3, TypeInit DEF Inv
<1>2. Inv /\ [Next]_vars => Inv' BY TypeStep, ClientsStep, NumbersStep DEF Inv
<1>3. QED BY <1>1, <1>2, PTL DEF Spec

(* Amounts, balances and sequence numbers stay in range, so that balances  *)
(* and locks never become negative (the comparisons in LockBalance and     *)
(* UnlockBalance).                                                         *)
THEOREM TypeCorrect == Spec => []TypeOK
<1>1. Inv => TypeOK BY DEF Inv
<1>2. QED BY <1>1, Inductive, PTL

(* At most one goroutine of a node is between Lock and Unlock of chainMu   *)
(* in ExecuteLocalTx.                                                      *)
MutualExclusion == \A c, d \in Clients :
  client[c].at \in LocalSteps /\ client[d].at \in LocalSteps /\ c # d
    => client[c].node # client[d].node
THEOREM ChainMuExcludes == Spec => []MutualExclusion
<1>1. Inv => MutualExclusion
  BY DEF Inv, ClientsOK, ClientOK, MutualExclusion, LocalSteps
<1>2. QED BY <1>1, Inductive, PTL

(* GenerateTxID never gives an ID twice: the blocks and the waiting        *)
(* transactions of a node have different ones, restarts included.          *)
THEOREM NoDuplicateIDs == Spec => []IDsUnique
<1>1. Inv => IDsUnique
  <2> SUFFICES ASSUME Inv, NEW g \in Nodes PROVE IsInjective(chain[g] \o queue[g])
    BY DEF IDsUnique
  <2>1. chain[g] \in Seq(IDs) /\ queue[g] \in Seq(IDs) /\ Distinct(g)
    BY DEF Inv, TypeOK, NumberInv
  <2>2. QED BY <2>1, ConcatInjective DEF Distinct
<1>2. QED BY <1>1, Inductive, PTL

(* The sequence numbers of a region chain increase from block to block and *)
(* stay below the counter, although processTx numbers a queued             *)
(* transaction again and local transactions pass it.                       *)
THEOREM NumbersIncrease == Spec => []ChainOrdered
<1>1. Inv => ChainOrdered
  BY DEF Inv, NumberInv, Increasing, Below, ChainOrdered
<1>2. QED BY <1>1, Inductive, PTL

(* The blocks of a region are in order and none is there twice.            *)
THEOREM ChainIsSound == Spec => []ChainSound
BY NoDuplicateIDs, NumbersIncrease, PTL DEF ChainSound

-----------------------------------------------------------------------------
(* Money.  Congruent(a, b): equal but for multiples of 2^64.               *)
LEMMA PlusIs ==
  ASSUME NEW a \in Int, NEW b \in Int PROVE \E q \in Int : Plus(a, b) = a + b + q * W
<1>1. W \in Nat /\ W # 0 BY RegionAssumption
<1>2. PICK n \in Int : n = a + b OBVIOUS
<1>3. PICK d \in Int : d = n \div W BY <1>1, DivisionWithRest
<1>4. PICK r \in Int : r = n % W BY <1>1, DivisionWithRest
<1>5. n = W * d + r BY <1>1, <1>3, <1>4, DivisionWithRest
<1>6. (-d) * W = -(W * d) /\ W * d \in Int BY <1>1
<1>7. r = n + (-d) * W BY <1>5, <1>6
<1>8. Plus(a, b) = r BY <1>2, <1>4 DEF Plus
<1>9. -d \in Int OBVIOUS
<1>10. QED BY <1>2, <1>7, <1>8, <1>9

\* A multiple of 2^64, by which 64-bit sums drift from the exact ones.
Drift(x) == \E k \in Int : x = k * W

LEMMA PlusDrifts == ASSUME NEW a \in Int, NEW b \in Int PROVE Drift(Plus(a, b) - a - b)
<1>1. PICK q \in Int : Plus(a, b) = a + b + q * W BY PlusIs
<1>2. q * W \in Int BY RegionAssumption
<1>3. Plus(a, b) - a - b = q * W BY <1>1, <1>2
<1>4. QED BY <1>3 DEF Drift

LEMMA DriftsAdd ==
  ASSUME NEW x \in Int, NEW y \in Int, Drift(x), Drift(y)
  PROVE  Drift(x + y) /\ Drift(x - y)
<1>1. PICK k \in Int, m \in Int : x = k * W /\ y = m * W BY DEF Drift
<1>2. (k + m) * W = k * W + m * W /\ (k - m) * W = k * W - m * W BY RegionAssumption
<1>3. k + m \in Int /\ k - m \in Int OBVIOUS
<1>4. QED BY <1>1, <1>2, <1>3 DEF Drift

LEMMA NoDrift == Drift(0)
<1>1. 0 * W = 0 BY RegionAssumption
<1>2. QED BY <1>1 DEF Drift

LEMMA Sum2Type ==
  ASSUME NEW f \in [Nodes -> [Users -> Sums]] PROVE Sum2(f) \in Nat
<1>1. \A g \in Nodes : SumFunctionOnSet(f[g], Users) \in Nat BY SumNat, RegionAssumption DEF Sums
<1>. DEFINE h == [g \in Nodes |-> SumFunctionOnSet(f[g], Users)]
<1>2. \A g \in Nodes : h[g] \in Nat BY <1>1
<1>. HIDE DEF h
<1>3. SumFunctionOnSet(h, Nodes) \in Nat BY <1>2, SumNat, RegionAssumption
<1>4. QED BY <1>3 DEF Sum2, h

\* The sums of the money of the nodes.
Table == [Nodes -> [Users -> Sums]]

LEMMA Sum2Change ==
  ASSUME NEW f \in Table, NEW g \in Nodes, NEW u \in Users,
         NEW n \in Sums, NEW e \in Table, e[g][u] = n,
         \A h \in Nodes \ {g} : e[h] = f[h], \A v \in Users \ {u} : e[g][v] = f[g][v]
  PROVE  Sum2(e) = Sum2(f) - f[g][u] + n
<1>. DEFINE F(x) == [y \in Nodes |-> SumFunctionOnSet(x[y], Users)]
<1>1. /\ \A h \in Nodes : \A v \in Users : f[h][v] \in Int /\ e[h][v] \in Int
      /\ \A h \in Nodes \ {g} : e[h] = f[h]
      /\ e[g][u] = n /\ f[g][u] \in Int /\ n \in Int
      /\ \A v \in Users \ {u} : e[g][v] = f[g][v]
  BY DEF Sums, Table
<1>2. SumFunctionOnSet(e[g], Users) = SumFunctionOnSet(f[g], Users) - f[g][u] + n
  BY <1>1, RegionAssumption, SumChange
<1>3. \A h \in Nodes : SumFunctionOnSet(f[h], Users) \in Int
                       /\ SumFunctionOnSet(e[h], Users) \in Int BY <1>1, SumType, RegionAssumption
<1>4. /\ \A h \in Nodes : F(f)[h] \in Int
      /\ \A h \in Nodes \ {g} : F(e)[h] = F(f)[h]
      /\ F(e)[g] \in Int /\ F(e)[g] = F(f)[g] - f[g][u] + n
  BY <1>1, <1>2, <1>3
<1>5. Sum2(e) = SumFunctionOnSet(F(e), Nodes) /\ Sum2(f) = SumFunctionOnSet(F(f), Nodes)
  BY DEF Sum2
<1>. HIDE DEF F
<1>6. SumFunctionOnSet(F(e), Nodes) = SumFunctionOnSet(F(f), Nodes) - F(f)[g] + F(e)[g]
  BY <1>4, RegionAssumption, SumChange
<1>7. SumFunctionOnSet(F(f), Nodes) \in Int BY <1>4, SumType, RegionAssumption
<1>8. QED BY <1>1, <1>4, <1>5, <1>6, <1>7

-----------------------------------------------------------------------------
Transit == SumFunctionOnSet([c \in Clients |-> InTransit(c)], Clients)

MoneyTypes ==
  /\ issued \in Nat /\ fees \in Nat /\ settled \in Nat
  /\ wrapped \subseteq Nodes \X Users

LEMMA HalvesType ==
  ASSUME NEW a \in Sums PROVE OtherHalf(a) \in Nat /\ HalfFee(a) + OtherHalf(a) = CrossFee(a)
BY FeeType DEF HalfFee, OtherHalf

LEMMA TransitNat == TypeOK => \A c \in Clients : InTransit(c) \in Nat
<1>. SUFFICES ASSUME TypeOK, NEW c \in Clients PROVE InTransit(c) \in Nat OBVIOUS
<1>1. client[c].amount \in Sums BY DEF TypeOK, Client
<1>2. Total(c) \in Nat BY TotalType DEF Sums
<1>3. QED BY <1>1, <1>2, FeeType, HalvesType DEF InTransit

LEMMA TransitNatNext == (TypeOK => \A c \in Clients : InTransit(c) \in Nat)'
BY TransitNat, PTL

LEMMA TransitType == TypeOK => Transit \in Nat
<1>. SUFFICES ASSUME TypeOK PROVE Transit \in Nat OBVIOUS
<1>1. PICK f : f = [c \in Clients |-> InTransit(c)] OBVIOUS
<1>2. \A c \in Clients : f[c] \in Nat BY <1>1, TransitNat
<1>3. SumFunctionOnSet(f, Clients) \in Nat BY <1>2, SumNat, RegionAssumption
<1>4. QED BY <1>1, <1>3 DEF Transit

LEMMA TransitStep ==
  ASSUME TypeOK, TypeOK', NEW c \in Clients,
         \A d \in Clients \ {c} : client'[d] = client[d]
  PROVE  Transit' = Transit - InTransit(c) + InTransit(c)'
BY TransitNat, TransitNatNext, SumChange, RegionAssumption DEF InTransit, Total, Transit

(* How far the money is from what was registered, up to multiples of 2^64. *)
LEMMA HeldStep ==
  ASSUME TypeOK, TypeOK', NEW c \in Clients,
         \A d \in Clients \ {c} : client'[d] = client[d],
         fees \in Int, fees' \in Int, issued \in Int, issued' \in Int,
         Drift(Held - issued),
         Drift((Sum2(balance)' - Sum2(balance)) + (Sum2(locked)' - Sum2(locked))
                 + (fees' - fees) + (InTransit(c)' - InTransit(c)) - (issued' - issued))
  PROVE  Drift(Held' - issued')
<1>1. Sum2(balance) \in Int /\ Sum2(locked) \in Int
      /\ Sum2(balance)' \in Int /\ Sum2(locked)' \in Int
  BY Sum2Type DEF TypeOK
<1>2. Transit \in Int BY TransitType
<1>3. InTransit(c) \in Int BY TransitNat
<1>4. InTransit(c)' \in Int BY TransitNatNext
<1>5. Transit' = Transit - InTransit(c) + InTransit(c)' BY TransitStep
<1>6. Held = Sum2(balance) + Sum2(locked) + fees + Transit BY DEF Held, Transit
<1>7. Held' = Sum2(balance)' + Sum2(locked)' + fees' + Transit' BY DEF Held, Transit
<1>8. PICK x \in Int : x = Held - issued BY <1>1, <1>2, <1>6
<1>9. PICK y \in Int :
        y = (Sum2(balance)' - Sum2(balance)) + (Sum2(locked)' - Sum2(locked))
              + (fees' - fees) + (InTransit(c)' - InTransit(c)) - (issued' - issued)
  BY <1>1, <1>3, <1>4
<1>10. Drift(x + y) BY <1>8, <1>9, DriftsAdd
<1>11. Held' - issued' = x + y BY <1>1, <1>2, <1>3, <1>4, <1>5, <1>6, <1>7, <1>8, <1>9
<1>12. QED BY <1>10, <1>11

-----------------------------------------------------------------------------
(* Who may have money: members, and those a transaction has found there.   *)
FromSteps == Steps \ {"idle", "local", "lock", "cross"}
Found(c) ==
  /\ client[c].at \in {"local", "lock", "unlock", "credit"} =>
       client[c].to \in members[client[c].node]
  /\ client[c].at \in {"release", "pay"} => client[c].to \in members[client[c].dest]
  /\ client[c].at \in FromSteps => client[c].from \in members[client[c].node]
OnlyMembers ==
  /\ \A g \in Nodes, u \in Users :
       u \notin members[g] => balance[g][u] = 0 /\ locked[g][u] = 0
  /\ \A g \in Nodes : saved[g] # None =>
       \A u \in Users : u \notin saved[g].members => saved[g].balance[u] = 0
  /\ \A c \in Clients : Found(c)

LEMMA EntryChange ==
  ASSUME NEW f \in [Nodes -> [Users -> Sums]], NEW g \in Nodes, NEW u \in Users, NEW n,
         NEW e, e = [f EXCEPT ![g][u] = n]
  PROVE  e[g][u] = n /\ \A h \in Nodes, v \in Users : h # g \/ v # u => e[h][v] = f[h][v]
OBVIOUS

\* Money of a member changes, and one goroutine goes on.
LEMMA MembersStep ==
  ASSUME TypeOK, ClientsOK, OnlyMembers, UNCHANGED <<members, saved>>,
         \A g \in Nodes, u \in Users :
           u \notin members[g] => balance'[g][u] = balance[g][u] /\ locked'[g][u] = locked[g][u],
         NEW c \in Clients, \A d \in Clients \ {c} : client'[d] = client[d],
         \/ client'[c].at = "idle"
         \/ /\ client'[c].node = client[c].node /\ client'[c].dest = client[c].dest
            /\ client'[c].from = client[c].from /\ client'[c].to = client[c].to
            /\ client'[c].at \in FromSteps =>
                 client[c].at \in FromSteps \/ client[c].from \in members[client[c].node]
            /\ client'[c].at \in {"local", "lock", "unlock", "credit"} =>
                 client[c].at \in {"local", "lock", "unlock", "credit"}
            /\ client'[c].at \in {"release", "pay"} =>
                 \/ client[c].at \in {"release", "pay"}
                 \/ client[c].to \in members[client[c].dest]
  PROVE  OnlyMembers'
BY DEF OnlyMembers, Found, FromSteps

LEMMA MembersGoto ==
  ASSUME TypeOK, ClientsOK, OnlyMembers, UNCHANGED <<members, saved>>,
         \A g \in Nodes, u \in Users :
           u \notin members[g] => balance'[g][u] = balance[g][u] /\ locked'[g][u] = locked[g][u],
         NEW c \in Clients,
         \/ Return(c)
         \/ \E step \in Steps :
              /\ Goto(c, step)
              /\ step \in FromSteps =>
                   client[c].at \in FromSteps \/ client[c].from \in members[client[c].node]
              /\ step \in {"local", "lock", "unlock", "credit"} =>
                   client[c].at \in {"local", "lock", "unlock", "credit"}
              /\ step \in {"release", "pay"} =>
                   \/ client[c].at \in {"release", "pay"}
                   \/ client[c].to \in members[client[c].dest]
  PROVE  OnlyMembers'
<1>1. CASE Return(c) BY <1>1, ReturnIs, MembersStep
<1>2. CASE ~Return(c)
  <2>1. PICK step \in Steps :
              /\ Goto(c, step)
              /\ step \in FromSteps =>
                   client[c].at \in FromSteps \/ client[c].from \in members[client[c].node]
              /\ step \in {"local", "lock", "unlock", "credit"} =>
                   client[c].at \in {"local", "lock", "unlock", "credit"}
              /\ step \in {"release", "pay"} =>
                   \/ client[c].at \in {"release", "pay"}
                   \/ client[c].to \in members[client[c].dest]
    BY <1>2
  <2>2. \A d \in Clients \ {c} : client'[d] = client[d] BY <2>1 DEF Goto, TypeOK
  <2>3. /\ client'[c].at = step /\ client'[c].node = client[c].node
        /\ client'[c].dest = client[c].dest /\ client'[c].from = client[c].from
        /\ client'[c].to = client[c].to
    BY <2>1, GotoIs
  <2>4. QED BY <2>1, <2>2, <2>3, MembersStep
<1>3. QED BY <1>1, <1>2

LEMMA LocksOfMembers ==
  ASSUME TypeOK, NEW g \in Nodes, NEW v \in members[g], NEW a,
         \/ LockBalance(g, v, a)
         \/ UnlockBalance(g, v, a) /\ UNCHANGED balance
         \/ UNCHANGED <<balance, locked>>
  PROVE  \A h \in Nodes, u \in Users : u \notin members[h] =>
           balance'[h][u] = balance[h][u] /\ locked'[h][u] = locked[h][u]
BY DEF TypeOK, LockBalance, UnlockBalance

LEMMA MembersClient ==
  ASSUME TypeOK, ClientsOK, OnlyMembers, NEW c \in Clients, ClientStep(c)
  PROVE  OnlyMembers'
<1>0. /\ client[c].at # "idle" => client[c].node \in Nodes /\ client[c].from \in Users
                                  /\ client[c].to \in Users
      /\ client[c].at \in {"verify", "release", "pay", "fee1", "fee2"} =>
           client[c].dest \in Nodes
      /\ Found(c)
  BY DEF ClientsOK, ClientOK, OnlyMembers
<1>t. \A g \in Nodes, u \in Users :
        /\ balance[g] \in [Users -> Sums] /\ locked[g] \in [Users -> Sums]
  BY DEF TypeOK
<1> USE DEF At, Steps, FromSteps, money
<1>1. CASE TakeChain(c) BY <1>1, MembersGoto DEF TakeChain
<1>2. CASE LocalLock(c)
  <2>1. client[c].at = "lock" /\ UNCHANGED <<members, saved>> BY <1>2 DEF LocalLock
  <2>2. CASE CanPay(client[c].node, client[c].from, Total(c))
    BY <1>0, <1>2, <2>1, <2>2, LocksOfMembers, MembersGoto DEF LocalLock, CanPay
  <2>3. CASE ~CanPay(client[c].node, client[c].from, Total(c))
    BY <1>2, <2>1, <2>3, MembersGoto DEF LocalLock
  <2>4. QED BY <2>2, <2>3
<1>3. CASE LocalUnlock(c)
  <2>1. client[c].at = "unlock" /\ UNCHANGED <<members, saved>> BY <1>3 DEF LocalUnlock
  <2>2. CASE Unlocks(client[c].node, client[c].from, Total(c))
    BY <1>0, <1>3, <2>1, <2>2, LocksOfMembers, MembersGoto DEF LocalUnlock, Unlocks
  <2>3. CASE ~Unlocks(client[c].node, client[c].from, Total(c))
    BY <1>3, <2>1, <2>3, MembersGoto DEF LocalUnlock
  <2>4. QED BY <2>2, <2>3
<1>4. CASE LocalCredit(c)
  BY <1>0, <1>4, MembersGoto DEF LocalCredit, CreditBalance, TypeOK, Found
<1>5. CASE ReadEarnings(c)
  <2>1. client' = [client EXCEPT ![c] =
                     [client[c] EXCEPT !.at = "append", !.read = earnings[client[c].node]]]
    BY <1>5 DEF ReadEarnings, TypeOK
  <2>2. client[c] \in Client /\ client[c].at = "fee"
    BY <1>5 DEF TypeOK, ReadEarnings
  <2>3. /\ client'[c].at = "append" /\ client'[c].node = client[c].node
        /\ client'[c].dest = client[c].dest /\ client'[c].from = client[c].from
        /\ client'[c].to = client[c].to
    BY <2>1, <2>2 DEF TypeOK, Client
  <2>4. \A d \in Clients \ {c} : client'[d] = client[d] BY <2>1 DEF TypeOK
  <2>5. UNCHANGED <<members, balance, locked, saved>> BY <1>5 DEF ReadEarnings
  <2>6. QED BY <2>2, <2>3, <2>4, <2>5, MembersStep
<1>6. CASE AppendLocal(c) BY <1>6, MembersGoto DEF AppendLocal
<1>7. CASE CrossLock(c)
  <2>1. client[c].at = "cross" /\ UNCHANGED <<members, saved>> BY <1>7 DEF CrossLock
  <2>2. CASE CanPay(client[c].node, client[c].from, Total(c))
    BY <1>0, <1>7, <2>1, <2>2, LocksOfMembers, MembersGoto DEF CrossLock, CanPay
  <2>3. CASE ~CanPay(client[c].node, client[c].from, Total(c))
    BY <1>7, <2>1, <2>3, MembersGoto DEF CrossLock
  <2>4. QED BY <2>2, <2>3
<1>8. CASE CrossNumber(c)
  <2>1. client' = [client EXCEPT ![c] =
                     [client[c] EXCEPT !.at = "enqueue",
                                       !.id = ID(client[c].node, txSeq[client[c].node] + 1)]]
    BY <1>8 DEF CrossNumber, TypeOK
  <2>2. client[c] \in Client /\ client[c].at = "number"
    BY <1>8 DEF TypeOK, CrossNumber
  <2>3. /\ client'[c].at = "enqueue" /\ client'[c].node = client[c].node
        /\ client'[c].dest = client[c].dest /\ client'[c].from = client[c].from
        /\ client'[c].to = client[c].to
    BY <2>1, <2>2 DEF TypeOK, Client
  <2>4. \A d \in Clients \ {c} : client'[d] = client[d] BY <2>1 DEF TypeOK
  <2>5. UNCHANGED <<members, balance, locked, saved>> BY <1>8 DEF CrossNumber
  <2>6. QED BY <2>2, <2>3, <2>4, <2>5, MembersStep
<1>9. CASE Enqueue(c) BY <1>9, MembersGoto DEF Enqueue
<1>10. CASE VerifyCrossRegion(c) BY <1>10, MembersGoto DEF VerifyCrossRegion
<1>11. CASE ReleaseLock(c)
  <2>1. client[c].at = "release" /\ UNCHANGED <<members, saved>> BY <1>11 DEF ReleaseLock
  <2>2. CASE Unlocks(client[c].node, client[c].from, Total(c))
    BY <1>0, <1>11, <2>1, <2>2, LocksOfMembers, MembersGoto DEF ReleaseLock, Unlocks
  <2>3. CASE ~Unlocks(client[c].node, client[c].from, Total(c))
    BY <1>11, <2>1, <2>3, MembersGoto DEF ReleaseLock
  <2>4. QED BY <2>2, <2>3
<1>12. CASE PayRecipient(c)
  BY <1>0, <1>12, MembersGoto DEF PayRecipient, CreditBalance, TypeOK, Found
<1>13. CASE EarnHere(c) BY <1>13, MembersGoto DEF EarnHere
<1>14. CASE EarnThere(c) BY <1>14, MembersGoto DEF EarnThere
<1>15. QED
  BY <1>1, <1>2, <1>3, <1>4, <1>5, <1>6, <1>7, <1>8, <1>9, <1>10, <1>11, <1>12,
     <1>13, <1>14 DEF ClientStep

LEMMA MembersNext ==
  ASSUME TypeOK, ClientsOK, OnlyMembers, [Next]_vars PROVE OnlyMembers'
<1>1. CASE UNCHANGED vars BY <1>1 DEF vars, money, OnlyMembers, Found
<1>2. ASSUME NEW g \in Nodes, NEW u \in Users, NEW b \in Balances, AddMember(g, u, b)
      PROVE  OnlyMembers'
  <2>1. \A h \in Nodes : members[h] \subseteq members'[h] BY <1>2 DEF AddMember, TypeOK
  <2>2. client' = client /\ saved' = saved BY <1>2 DEF AddMember
  <2>3. \A h \in Nodes, v \in Users : v \notin members'[h] =>
          balance'[h][v] = 0 /\ locked'[h][v] = 0
    BY <1>2 DEF AddMember, TypeOK, OnlyMembers
  <2>4. \A c \in Clients : Found(c)' BY <2>1, <2>2 DEF OnlyMembers, ClientsOK, Found, ClientOK, FromSteps, Steps
  <2>5. QED BY <2>2, <2>3, <2>4 DEF OnlyMembers
<1>3. ASSUME NEW c \in Clients, NEW g \in Origins, NEW u \in Users, NEW v \in Users,
             NEW a \in Amounts, Submit(c, g, u, v, a)
      PROVE  OnlyMembers'
  <2>1. g \in Nodes /\ UNCHANGED <<members, balance, locked, saved>>
    BY <1>3, RegionAssumption DEF Submit, money
  <2>2. PICK step \in {"local", "cross"}, dest \in Nodes \cup {None} :
          /\ client' = [client EXCEPT ![c] = Task(step, g, dest, u, v, a)]
          /\ step = "local" => v \in members[g]
    BY <1>3, <2>1 DEF Submit
  <2>3. /\ client'[c].at = step /\ client'[c].node = g /\ client'[c].to = v
        /\ \A d \in Clients \ {c} : client'[d] = client[d]
    BY <2>2 DEF TypeOK, Task
  <2>4. Found(c)' BY <2>1, <2>2, <2>3 DEF Found, FromSteps, Steps
  <2>5. QED BY <2>1, <2>3, <2>4 DEF OnlyMembers, Found
<1>4. ASSUME NEW c \in Clients, ClientStep(c) PROVE OnlyMembers' BY <1>4, MembersClient
<1>5. ASSUME NEW g \in Nodes, ProcessTx(g) \/ MonthlySettle(g) \/ BeginSave(g)
      PROVE  OnlyMembers'
  BY <1>5 DEF ProcessTx, MonthlySettle, BeginSave, money, OnlyMembers, Found
<1>6. ASSUME NEW g \in Nodes, EndSave(g) PROVE OnlyMembers' BY <1>6 DEF EndSave, money, TypeOK, OnlyMembers, Found
<1>7. ASSUME Restart PROVE OnlyMembers' BY <1>7 DEF Restart, Idle, Task, Found, FromSteps, OnlyMembers
<1>8. QED BY <1>1, <1>2, <1>3, <1>4, <1>5, <1>6, <1>7 DEF Next

-----------------------------------------------------------------------------
(* Conservation.                                                           *)
\* The same with names for the terms, as the updates below need it.
SumsTo(f, s) == Sum2(f) = s
Updated(f, e, g, u, o, n) == f[g][u] = o /\ e = [f EXCEPT ![g][u] = n]

LEMMA Sum2Update ==
  ASSUME NEW f \in Table, NEW g \in Nodes, NEW u \in Users, NEW e,
         NEW o \in Int, NEW n \in Sums, NEW s \in Int, SumsTo(f, s), Updated(f, e, g, u, o, n)
  PROVE  SumsTo(e, s - o + n)
<1>1. /\ e \in Table /\ e[g][u] = n
      /\ \A h \in Nodes \ {g} : e[h] = f[h]
      /\ \A v \in Users \ {u} : e[g][v] = f[g][v]
  BY DEF Table, Updated
<1>2. Sum2(e) = Sum2(f) - f[g][u] + n BY <1>1, Sum2Change
<1>3. QED BY <1>2 DEF SumsTo, Updated

LEMMA Sum2Next ==
  ASSUME TypeOK, NEW g \in Nodes, NEW u \in Users, NEW n \in Sums
  PROVE  /\ balance' = [balance EXCEPT ![g][u] = n] =>
              Sum2(balance)' = Sum2(balance) - balance[g][u] + n
         /\ locked' = [locked EXCEPT ![g][u] = n] =>
              Sum2(locked)' = Sum2(locked) - locked[g][u] + n
<1>1. PICK b, l, bb, ll : b = balance /\ l = locked /\ bb = balance' /\ ll = locked' OBVIOUS
<1>2. b \in Table /\ l \in Table BY <1>1 DEF TypeOK, Table
<1>3. Sum2(balance)' = Sum2(bb) /\ Sum2(locked)' = Sum2(ll) BY <1>1 DEF Sum2
<1>4. PICK x \in Int, y \in Int : x = Sum2(b) /\ y = Sum2(l)
  BY <1>1, Sum2Type DEF TypeOK
<1>5. PICK o \in Int, p \in Int : o = b[g][u] /\ p = l[g][u]
  BY <1>2, RegionAssumption DEF Table, Sums
<1>6. SumsTo(b, x) /\ SumsTo(l, y) BY <1>4 DEF SumsTo
<1>7. ASSUME balance' = [balance EXCEPT ![g][u] = n]
      PROVE  Sum2(balance)' = Sum2(balance) - balance[g][u] + n
  <2>1. Updated(b, bb, g, u, o, n) BY <1>1, <1>5, <1>7 DEF Updated
  <2>2. SumsTo(bb, x - o + n) BY <1>2, <1>6, <2>1, Sum2Update
  <2>3. QED BY <1>1, <1>3, <1>4, <1>5, <2>2 DEF SumsTo
<1>8. ASSUME locked' = [locked EXCEPT ![g][u] = n]
      PROVE  Sum2(locked)' = Sum2(locked) - locked[g][u] + n
  <2>1. Updated(l, ll, g, u, p, n) BY <1>1, <1>5, <1>8 DEF Updated
  <2>2. SumsTo(ll, y - p + n) BY <1>2, <1>6, <2>1, Sum2Update
  <2>3. QED BY <1>1, <1>3, <1>4, <1>5, <2>2 DEF SumsTo
<1>9. QED BY <1>7, <1>8

LEMMA LockEffect ==
  ASSUME TypeOK, NEW g \in Nodes, NEW u \in Users, NEW a \in Sums,
         CanPay(g, u, a), LockBalance(g, u, a)
  PROVE  Drift((Sum2(balance)' - Sum2(balance)) + (Sum2(locked)' - Sum2(locked)))
<1>1. PICK b \in Sums, l \in Sums : b = balance[g][u] /\ l = locked[g][u] BY DEF TypeOK
<1>2. b - a \in Sums BY <1>1, RegionAssumption DEF CanPay, Sums
<1>3. a \in Int /\ b \in Int /\ l \in Int BY <1>1, RegionAssumption DEF Sums
<1>4. Plus(l, a) \in Sums BY <1>3, PlusType
<1>5. balance' = [balance EXCEPT ![g][u] = b - a] /\ locked' = [locked EXCEPT ![g][u] = Plus(l, a)]
  BY <1>1 DEF LockBalance, TypeOK
<1>6. balance \in [Nodes -> [Users -> Sums]] /\ locked \in [Nodes -> [Users -> Sums]]
  BY DEF TypeOK
<1>7. Sum2(balance)' = Sum2(balance) - b + (b - a) BY <1>1, <1>2, <1>5, Sum2Next
<1>8. Sum2(locked)' = Sum2(locked) - l + Plus(l, a) BY <1>1, <1>4, <1>5, Sum2Next
<1>9. Sum2(balance) \in Int /\ Sum2(locked) \in Int BY <1>6, Sum2Type
<1>10. PICK p \in Int : p = Plus(l, a) BY <1>4, RegionAssumption DEF Sums
<1>11. (Sum2(balance)' - Sum2(balance)) + (Sum2(locked)' - Sum2(locked)) = p - l - a
  BY <1>3, <1>7, <1>8, <1>9, <1>10
<1>12. QED BY <1>3, <1>10, <1>11, PlusDrifts

LEMMA UnlockEffect ==
  ASSUME TypeOK, NEW g \in Nodes, NEW u \in Users, NEW a \in Sums,
         Unlocks(g, u, a), UnlockBalance(g, u, a)
  PROVE  Sum2(locked)' - Sum2(locked) = -a
<1>1. PICK l \in Sums : l = locked[g][u] BY DEF TypeOK
<1>2. l - a \in Sums BY <1>1, RegionAssumption DEF Unlocks, Sums
<1>3. a \in Int /\ l \in Int BY <1>1, RegionAssumption DEF Sums
<1>4. locked' = [locked EXCEPT ![g][u] = l - a] BY <1>1 DEF UnlockBalance, TypeOK
<1>5. locked \in [Nodes -> [Users -> Sums]] BY DEF TypeOK
<1>8. Sum2(locked)' = Sum2(locked) - l + (l - a) BY <1>1, <1>2, <1>4, Sum2Next
<1>9. Sum2(locked) \in Int BY <1>5, Sum2Type
<1>10. QED BY <1>3, <1>8, <1>9

LEMMA CreditEffect ==
  ASSUME TypeOK, NEW g \in Nodes, NEW u \in Users, NEW a \in Sums, CreditBalance(g, u, a)
  PROVE  Drift((Sum2(balance)' - Sum2(balance)) - a)
<1>1. PICK b \in Sums : b = balance[g][u] BY DEF TypeOK
<1>2. a \in Int /\ b \in Int BY <1>1, RegionAssumption DEF Sums
<1>3. Plus(b, a) \in Sums BY <1>2, PlusType
<1>4. balance' = [balance EXCEPT ![g][u] = Plus(b, a)] BY <1>1 DEF CreditBalance, TypeOK
<1>5. balance \in [Nodes -> [Users -> Sums]] BY DEF TypeOK
<1>8. Sum2(balance)' = Sum2(balance) - b + Plus(b, a) BY <1>1, <1>3, <1>4, Sum2Next
<1>9. Sum2(balance) \in Int BY <1>5, Sum2Type
<1>10. PICK p \in Int : p = Plus(b, a) BY <1>3, RegionAssumption DEF Sums
<1>11. (Sum2(balance)' - Sum2(balance)) - a = p - b - a BY <1>2, <1>8, <1>9, <1>10
<1>12. QED BY <1>2, <1>10, <1>11, PlusDrifts

\* What is in transit at each step.
LEMMA TransitAt ==
  ASSUME NEW c \in Clients
  PROVE  /\ client[c].at \notin {"credit", "pay", "fee", "append", "fee1", "fee2"} =>
              InTransit(c) = 0
         /\ client[c].at = "credit" =>
              InTransit(c) = Plus(client[c].amount, LocalFee(client[c].amount))
         /\ client[c].at = "pay" =>
              InTransit(c) = Plus(client[c].amount, CrossFee(client[c].amount))
         /\ client[c].at \in {"fee", "append"} => InTransit(c) = LocalFee(client[c].amount)
         /\ client[c].at = "fee1" => InTransit(c) = CrossFee(client[c].amount)
         /\ client[c].at = "fee2" => InTransit(c) = OtherHalf(client[c].amount)
BY DEF InTransit, Total

LEMMA TransitAtNext ==
  \A c \in Clients :
   (/\ client[c].at \notin {"credit", "pay", "fee", "append", "fee1", "fee2"} =>
              InTransit(c) = 0
    /\ client[c].at = "credit" =>
              InTransit(c) = Plus(client[c].amount, LocalFee(client[c].amount))
    /\ client[c].at = "pay" =>
              InTransit(c) = Plus(client[c].amount, CrossFee(client[c].amount))
    /\ client[c].at \in {"fee", "append"} => InTransit(c) = LocalFee(client[c].amount)
    /\ client[c].at = "fee1" => InTransit(c) = CrossFee(client[c].amount)
    /\ client[c].at = "fee2" => InTransit(c) = OtherHalf(client[c].amount))'
BY DEF InTransit, Total, Plus, LocalFee, CrossFee, OtherHalf, HalfFee

\* A step between two calls that move money.
LEMMA NothingMoves ==
  ASSUME TypeOK, TypeOK', MoneyTypes, Drift(Held - issued), NEW c \in Clients,
         \A d \in Clients \ {c} : client'[d] = client[d],
         UNCHANGED <<balance, locked, fees, issued>>, InTransit(c)' = InTransit(c)
  PROVE  Drift(Held' - issued')
<1>1. Sum2(balance)' = Sum2(balance) /\ Sum2(locked)' = Sum2(locked) BY DEF Sum2
<1>2. Sum2(balance) \in Int /\ Sum2(locked) \in Int BY Sum2Type DEF TypeOK
<1>3. InTransit(c) \in Int BY TransitNat
<1>4. (Sum2(balance)' - Sum2(balance)) + (Sum2(locked)' - Sum2(locked))
        + (fees' - fees) + (InTransit(c)' - InTransit(c)) - (issued' - issued) = 0
  BY <1>1, <1>2, <1>3 DEF MoneyTypes
<1>5. QED BY <1>4, NoDrift, HeldStep DEF MoneyTypes

\* The cases of HeldStep: a lock, the release of one, a credit, a fee.
LEMMA HeldByLock ==
  ASSUME TypeOK, TypeOK', MoneyTypes, Drift(Held - issued), NEW c \in Clients,
         \A d \in Clients \ {c} : client'[d] = client[d],
         UNCHANGED <<fees, issued>>, InTransit(c) = 0, InTransit(c)' = 0,
         Drift((Sum2(balance)' - Sum2(balance)) + (Sum2(locked)' - Sum2(locked)))
  PROVE  Drift(Held' - issued')
<1>1. Sum2(balance) \in Int /\ Sum2(locked) \in Int
      /\ Sum2(balance)' \in Int /\ Sum2(locked)' \in Int
  BY Sum2Type DEF TypeOK
<1>2. (Sum2(balance)' - Sum2(balance)) + (Sum2(locked)' - Sum2(locked))
        + (fees' - fees) + (InTransit(c)' - InTransit(c)) - (issued' - issued)
      = (Sum2(balance)' - Sum2(balance)) + (Sum2(locked)' - Sum2(locked))
  BY <1>1 DEF MoneyTypes
<1>3. Drift((Sum2(balance)' - Sum2(balance)) + (Sum2(locked)' - Sum2(locked))
        + (fees' - fees) + (InTransit(c)' - InTransit(c)) - (issued' - issued))
  BY <1>2
<1>4. fees \in Int /\ fees' \in Int /\ issued \in Int /\ issued' \in Int BY DEF MoneyTypes
<1>5. QED BY <1>3, <1>4, HeldStep

LEMMA HeldByRelease ==
  ASSUME TypeOK, TypeOK', MoneyTypes, Drift(Held - issued), NEW c \in Clients,
         \A d \in Clients \ {c} : client'[d] = client[d],
         UNCHANGED <<balance, fees, issued>>, NEW a \in Int,
         InTransit(c) = 0, InTransit(c)' = a, Sum2(locked)' - Sum2(locked) = -a
  PROVE  Drift(Held' - issued')
<1>0. Sum2(balance)' = Sum2(balance) BY DEF Sum2
<1>1. Sum2(balance) \in Int BY Sum2Type DEF TypeOK
<1>2. fees \in Int /\ fees' \in Int /\ issued \in Int /\ issued' \in Int BY DEF MoneyTypes
<1>3. (Sum2(balance)' - Sum2(balance)) + (Sum2(locked)' - Sum2(locked))
        + (fees' - fees) + (InTransit(c)' - InTransit(c)) - (issued' - issued) = 0
  BY <1>0, <1>1, <1>2
<1>4. QED BY <1>2, <1>3, NoDrift, HeldStep

LEMMA HeldByCredit ==
  ASSUME TypeOK, TypeOK', MoneyTypes, Drift(Held - issued), NEW c \in Clients,
         \A d \in Clients \ {c} : client'[d] = client[d],
         UNCHANGED <<locked, fees, issued>>, NEW a \in Int, NEW fee \in Int,
         InTransit(c) = Plus(a, fee), InTransit(c)' = fee,
         Drift((Sum2(balance)' - Sum2(balance)) - a)
  PROVE  Drift(Held' - issued')
<1>0. Sum2(locked)' = Sum2(locked) BY DEF Sum2
<1>1. Sum2(balance) \in Int /\ Sum2(balance)' \in Int /\ Sum2(locked) \in Int
  BY Sum2Type DEF TypeOK
<1>2. fees \in Int /\ fees' \in Int /\ issued \in Int /\ issued' \in Int BY DEF MoneyTypes
<1>3. PICK t \in Int : t = Plus(a, fee) BY PlusType, RegionAssumption DEF Sums
<1>4. Drift(t - a - fee) BY <1>3, PlusDrifts
<1>5. PICK x \in Int : x = (Sum2(balance)' - Sum2(balance)) - a BY <1>1
<1>6. PICK y \in Int : y = t - a - fee OBVIOUS
<1>7. Drift(x - y) BY <1>4, <1>5, <1>6, DriftsAdd
<1>8. (Sum2(balance)' - Sum2(balance)) + (Sum2(locked)' - Sum2(locked))
        + (fees' - fees) + (InTransit(c)' - InTransit(c)) - (issued' - issued) = x - y
  BY <1>0, <1>1, <1>2, <1>3, <1>5, <1>6
<1>9. QED BY <1>2, <1>7, <1>8, HeldStep

LEMMA HeldByFee ==
  ASSUME TypeOK, TypeOK', MoneyTypes, Drift(Held - issued), NEW c \in Clients,
         \A d \in Clients \ {c} : client'[d] = client[d],
         UNCHANGED <<balance, locked, issued>>, NEW fee \in Int,
         InTransit(c)' = InTransit(c) - fee, fees' = fees + fee
  PROVE  Drift(Held' - issued')
<1>0. Sum2(balance)' = Sum2(balance) /\ Sum2(locked)' = Sum2(locked) BY DEF Sum2
<1>1. Sum2(balance) \in Int /\ Sum2(locked) \in Int BY Sum2Type DEF TypeOK
<1>2. fees \in Int /\ fees' \in Int /\ issued \in Int /\ issued' \in Int BY DEF MoneyTypes
<1>3. InTransit(c) \in Int BY TransitNat
<1>4. (Sum2(balance)' - Sum2(balance)) + (Sum2(locked)' - Sum2(locked))
        + (fees' - fees) + (InTransit(c)' - InTransit(c)) - (issued' - issued) = 0
  BY <1>0, <1>1, <1>2, <1>3
<1>5. QED BY <1>2, <1>4, NoDrift, HeldStep

LEMMA HeldClient ==
  ASSUME TypeOK, TypeOK', ClientsOK, MoneyTypes, Drift(Held - issued),
         NEW c \in Clients, ClientStep(c)
  PROVE  Drift(Held' - issued')
<1>0. /\ client[c].at # "idle" => client[c].node \in Nodes /\ client[c].from \in Users
                                  /\ client[c].to \in Users
      /\ client[c].at \in {"verify", "release", "pay", "fee1", "fee2"} =>
           client[c].dest \in Nodes
      /\ client[c].amount \in Sums
  BY DEF ClientsOK, ClientOK, TypeOK, Client
<1>m. /\ fees \in Int /\ issued \in Int
      /\ Sum2(balance) \in Int /\ Sum2(locked) \in Int /\ Sum2(balance)' \in Int
      /\ Sum2(locked)' \in Int
  BY Sum2Type DEF TypeOK, MoneyTypes
<1>f. PICK a \in Int, lf \in Nat, cf \in Nat, hf \in Nat, oh \in Nat, tt \in Nat :
        /\ a = client[c].amount /\ lf = LocalFee(client[c].amount)
        /\ cf = CrossFee(client[c].amount) /\ hf = HalfFee(client[c].amount)
        /\ oh = OtherHalf(client[c].amount) /\ hf + oh = cf /\ tt = Total(c)
  <2>1. /\ client[c].amount \in Int /\ LocalFee(client[c].amount) \in Nat
        /\ CrossFee(client[c].amount) \in Nat /\ HalfFee(client[c].amount) \in Nat
    BY <1>0, FeeType DEF Sums
  <2>2. /\ OtherHalf(client[c].amount) \in Nat
        /\ HalfFee(client[c].amount) + OtherHalf(client[c].amount) = CrossFee(client[c].amount)
    BY <1>0, HalvesType
  <2>3. Total(c) \in Nat BY TotalType DEF Sums
  <2>4. QED BY <2>1, <2>2, <2>3
<1>t. Total(c) \in Sums BY TotalType
<1>g. ASSUME NEW step, Goto(c, step)
      PROVE  /\ client'[c].at = step /\ client'[c].amount = client[c].amount
             /\ \A d \in Clients \ {c} : client'[d] = client[d]
  BY <1>g, GotoIs DEF Goto, TypeOK
<1>r. ASSUME Return(c)
      PROVE  client'[c].at = "idle" /\ \A d \in Clients \ {c} : client'[d] = client[d]
  BY <1>r, ReturnIs
<1>z. 0 \in Int OBVIOUS
<1> USE DEF At, money, history
<1>1. CASE TakeChain(c)
  BY <1>1, <1>g, NothingMoves, TransitAt, TransitAtNext DEF TakeChain
<1>2. CASE LocalLock(c)
  <2>1. CASE CanPay(client[c].node, client[c].from, Total(c))
    BY <1>0, <1>2, <2>1, <1>t, LockEffect, <1>g, TransitAt, TransitAtNext, <1>m, HeldByLock DEF LocalLock
  <2>2. CASE ~CanPay(client[c].node, client[c].from, Total(c))
    BY <1>2, <2>2, <1>r, NothingMoves, TransitAt, TransitAtNext DEF LocalLock
  <2>3. QED BY <2>1, <2>2
<1>3. CASE LocalUnlock(c)
  <2>1. CASE Unlocks(client[c].node, client[c].from, Total(c))
    <3>1. /\ UnlockBalance(client[c].node, client[c].from, Total(c)) /\ Goto(c, "credit")
          /\ UNCHANGED <<balance, fees, issued>> /\ client[c].at = "unlock"
      BY <1>3, <2>1 DEF LocalUnlock
    <3>2. Sum2(locked)' - Sum2(locked) = -tt
      BY <1>0, <1>t, <1>f, <2>1, <3>1, UnlockEffect
    <3>3. /\ client'[c].at = "credit" /\ client'[c].amount = client[c].amount
          /\ \A d \in Clients \ {c} : client'[d] = client[d]
      BY <3>1, <1>g
    <3>4. InTransit(c) = 0 BY <3>1, TransitAt
    <3>5. InTransit(c)' = Plus(client[c].amount, LocalFee(client[c].amount))
      BY <3>3, TransitAtNext DEF Plus, LocalFee
    <3>6. tt = Plus(client[c].amount, LocalFee(client[c].amount)) BY <1>f, <3>1 DEF Total
    <3>7. QED BY <3>1, <3>2, <3>3, <3>4, <3>5, <3>6, HeldByRelease
  <2>2. CASE ~Unlocks(client[c].node, client[c].from, Total(c))
    BY <1>3, <2>2, <1>r, NothingMoves, TransitAt, TransitAtNext DEF LocalUnlock
  <2>3. QED BY <2>1, <2>2
<1>4. CASE LocalCredit(c)
  BY <1>0, <1>4, <1>g, <1>f, TransitAt, TransitAtNext, CreditEffect, HeldByCredit DEF LocalCredit, LocalFee
<1>5. CASE ReadEarnings(c)
  <2>1. client' = [client EXCEPT ![c] =
                     [client[c] EXCEPT !.at = "append", !.read = earnings[client[c].node]]]
    BY <1>5 DEF ReadEarnings, TypeOK
  <2>2. client[c] \in Client /\ client[c].at = "fee" /\ UNCHANGED <<balance, locked, fees, issued>>
    BY <1>5 DEF TypeOK, ReadEarnings
  <2>3. client'[c].at = "append" /\ client'[c].amount = client[c].amount
    BY <2>1, <2>2 DEF TypeOK, Client
  <2>4. \A d \in Clients \ {c} : client'[d] = client[d] BY <2>1 DEF TypeOK
  <2>5. InTransit(c)' = InTransit(c)
    BY <2>2, <2>3, TransitAt, TransitAtNext DEF LocalFee
  <2>6. QED BY <2>2, <2>4, <2>5, NothingMoves
<1>6. CASE AppendLocal(c)
  <2>1. /\ UNCHANGED <<balance, locked, issued>> /\ client[c].at = "append" /\ Return(c)
        /\ fees' = fees + lf
    BY <1>6, <1>f DEF AppendLocal
  <2>2. client'[c].at = "idle" /\ \A d \in Clients \ {c} : client'[d] = client[d]
    BY <2>1, <1>r
  <2>3. InTransit(c) = lf /\ InTransit(c)' = 0
    BY <1>f, <2>1, <2>2, TransitAt, TransitAtNext
  <2>4. InTransit(c)' = InTransit(c) - lf BY <2>3
  <2>5. QED BY <2>1, <2>2, <2>4, HeldByFee
<1>7. CASE CrossLock(c)
  <2>1. CASE CanPay(client[c].node, client[c].from, Total(c))
    BY <1>0, <1>7, <2>1, <1>t, LockEffect, <1>g, TransitAt, TransitAtNext, <1>m, HeldByLock DEF CrossLock
  <2>2. CASE ~CanPay(client[c].node, client[c].from, Total(c))
    BY <1>7, <2>2, <1>r, NothingMoves, TransitAt, TransitAtNext DEF CrossLock
  <2>3. QED BY <2>1, <2>2
<1>8. CASE CrossNumber(c)
  <2>1. client' = [client EXCEPT ![c] =
                     [client[c] EXCEPT !.at = "enqueue",
                                       !.id = ID(client[c].node, txSeq[client[c].node] + 1)]]
    BY <1>8 DEF CrossNumber, TypeOK
  <2>2. client[c] \in Client /\ client[c].at = "number" /\ UNCHANGED <<balance, locked, fees, issued>>
    BY <1>8 DEF TypeOK, CrossNumber
  <2>3. client'[c].at = "enqueue" BY <2>1, <2>2 DEF TypeOK, Client
  <2>4. \A d \in Clients \ {c} : client'[d] = client[d] BY <2>1 DEF TypeOK
  <2>5. QED BY <2>2, <2>3, <2>4, NothingMoves, TransitAt, TransitAtNext
<1>9. CASE Enqueue(c)
  BY <1>9, <1>g, <1>r, NothingMoves, TransitAt, TransitAtNext DEF Enqueue
<1>10. CASE VerifyCrossRegion(c)
  BY <1>10, <1>g, <1>r, NothingMoves, TransitAt, TransitAtNext DEF VerifyCrossRegion
<1>11. CASE ReleaseLock(c)
  <2>1. CASE Unlocks(client[c].node, client[c].from, Total(c))
    <3>1. /\ UnlockBalance(client[c].node, client[c].from, Total(c)) /\ Goto(c, "pay")
          /\ UNCHANGED <<balance, fees, issued>> /\ client[c].at = "release"
      BY <1>11, <2>1 DEF ReleaseLock
    <3>2. Sum2(locked)' - Sum2(locked) = -tt
      BY <1>0, <1>t, <1>f, <2>1, <3>1, UnlockEffect
    <3>3. /\ client'[c].at = "pay" /\ client'[c].amount = client[c].amount
          /\ \A d \in Clients \ {c} : client'[d] = client[d]
      BY <3>1, <1>g
    <3>4. InTransit(c) = 0 BY <3>1, TransitAt
    <3>5. InTransit(c)' = Plus(client[c].amount, CrossFee(client[c].amount))
      BY <3>3, TransitAtNext DEF Plus, CrossFee
    <3>6. tt = Plus(client[c].amount, CrossFee(client[c].amount)) BY <1>f, <3>1 DEF Total
    <3>7. QED BY <3>1, <3>2, <3>3, <3>4, <3>5, <3>6, HeldByRelease
  <2>2. CASE ~Unlocks(client[c].node, client[c].from, Total(c))
    BY <1>11, <2>2, <1>r, NothingMoves, TransitAt, TransitAtNext DEF ReleaseLock
  <2>3. QED BY <2>1, <2>2
<1>12. CASE PayRecipient(c)
  BY <1>0, <1>12, <1>g, <1>f, TransitAt, TransitAtNext, CreditEffect, HeldByCredit DEF PayRecipient, CrossFee
<1>13. CASE EarnHere(c)
  <2>1. /\ UNCHANGED <<balance, locked, issued>> /\ client[c].at = "fee1" /\ Goto(c, "fee2")
        /\ fees' = fees + hf
    BY <1>13, <1>f DEF EarnHere
  <2>2. /\ client'[c].at = "fee2" /\ client'[c].amount = client[c].amount
        /\ \A d \in Clients \ {c} : client'[d] = client[d]
    BY <2>1, <1>g
  <2>3. InTransit(c) = cf /\ InTransit(c)' = oh
    BY <1>f, <2>1, <2>2, TransitAt, TransitAtNext DEF OtherHalf, CrossFee, HalfFee
  <2>4. InTransit(c)' = InTransit(c) - hf BY <1>f, <2>3
  <2>5. QED BY <2>1, <2>2, <2>4, HeldByFee
<1>14. CASE EarnThere(c) BY <1>14, <1>f, <1>r, TransitAt, TransitAtNext, <1>m, HeldByFee DEF EarnThere
<1>15. QED
  BY <1>1, <1>2, <1>3, <1>4, <1>5, <1>6, <1>7, <1>8, <1>9, <1>10, <1>11, <1>12,
     <1>13, <1>14 DEF ClientStep

-----------------------------------------------------------------------------
LEMMA Sum2Zero ==
  ASSUME NEW f, \A g \in Nodes : \A u \in Users : f[g][u] = 0 PROVE Sum2(f) = 0
<1>1. \A g \in Nodes : SumFunctionOnSet(f[g], Users) = 0 BY SumZero, RegionAssumption
<1>2. PICK h : h = [g \in Nodes |-> SumFunctionOnSet(f[g], Users)] OBVIOUS
<1>3. \A g \in Nodes : h[g] = 0 BY <1>1, <1>2
<1>4. SumFunctionOnSet(h, Nodes) = 0 BY <1>3, SumZero, RegionAssumption
<1>5. QED BY <1>2, <1>4 DEF Sum2

LEMMA EarnedType == TypeOK => Earned \in Nat
<1>. SUFFICES ASSUME TypeOK PROVE Earned \in Nat OBVIOUS
<1>1. \A g \in Nodes : earnings[g] \in Nat /\ crossEarnings[g] \in Nat BY DEF TypeOK, Sums
<1>2. SumFunctionOnSet(earnings, Nodes) \in Nat /\ SumFunctionOnSet(crossEarnings, Nodes) \in Nat
  BY <1>1, SumNat, RegionAssumption
<1>3. QED BY <1>2 DEF Earned

LEMMA EarnedTypeNext == (TypeOK => Earned \in Nat)'
BY EarnedType, PTL

LEMMA MoneyTypesStep ==
  ASSUME TypeOK, TypeOK', ClientsOK, MoneyTypes, [Next]_vars PROVE MoneyTypes'
<1> USE DEF MoneyTypes, money, ledger, history
<1>1. CASE UNCHANGED vars BY <1>1 DEF vars
<1>2. ASSUME NEW g \in Nodes, NEW u \in Users, NEW b \in Balances, AddMember(g, u, b)
      PROVE  MoneyTypes' BY <1>2, RegionAssumption DEF AddMember
<1>3. ASSUME NEW c \in Clients, NEW g \in Origins, NEW u \in Users, NEW v \in Users,
             NEW a \in Amounts, Submit(c, g, u, v, a)
      PROVE  MoneyTypes'
  BY <1>3 DEF Submit
<1>4. ASSUME NEW c \in Clients, ClientStep(c) PROVE MoneyTypes'
  <2>0. /\ client[c].at # "idle" => client[c].node \in Nodes /\ client[c].from \in Users
        /\ client[c].amount \in Sums
    BY DEF ClientsOK, ClientOK, TypeOK, Client
  <2>f. /\ LocalFee(client[c].amount) \in Nat /\ CrossFee(client[c].amount) \in Nat
        /\ HalfFee(client[c].amount) \in Nat /\ OtherHalf(client[c].amount) \in Nat
    BY <2>0, FeeType, HalvesType
  <2>g. fees + CrossFee(client[c].amount) - HalfFee(client[c].amount) \in Nat
    BY <2>0, <2>f, HalvesType
  <2>l. ASSUME LockBalance(client[c].node, client[c].from, Total(c)), client[c].at # "idle"
        PROVE  wrapped' \subseteq Nodes \X Users
    BY <2>0, <2>l DEF LockBalance
  <2>1. CASE LocalLock(c) \/ CrossLock(c) BY <2>1, <2>l DEF LocalLock, CrossLock, At
  <2>2. CASE AppendLocal(c) BY <2>2, <2>f DEF AppendLocal
  <2>3. CASE EarnHere(c) BY <2>3, <2>f DEF EarnHere
  <2>4. CASE EarnThere(c) BY <2>4, <2>g DEF EarnThere
  <2>5. CASE \/ TakeChain(c) \/ LocalUnlock(c) \/ LocalCredit(c) \/ ReadEarnings(c)
             \/ CrossNumber(c) \/ Enqueue(c) \/ VerifyCrossRegion(c)
             \/ ReleaseLock(c) \/ PayRecipient(c)
    BY <2>5 DEF TakeChain, LocalUnlock, LocalCredit, ReadEarnings, CrossNumber, Enqueue,
                VerifyCrossRegion, ReleaseLock, PayRecipient
  <2>6. QED BY <1>4, <2>1, <2>2, <2>3, <2>4, <2>5 DEF ClientStep
<1>5. ASSUME NEW g \in Nodes, ProcessTx(g) \/ BeginSave(g) \/ EndSave(g)
      PROVE  MoneyTypes'
  BY <1>5 DEF ProcessTx, BeginSave, EndSave
<1>6. ASSUME NEW g \in Nodes, MonthlySettle(g) PROVE MoneyTypes'
  <2>1. earnings[g] \in Int /\ crossEarnings[g] \in Int BY RegionAssumption DEF TypeOK, Sums
  <2>2. Plus(earnings[g], crossEarnings[g]) \in Nat BY <2>1, PlusType, RegionAssumption DEF Sums
  <2>3. QED BY <1>6, <2>2 DEF MonthlySettle
<1>7. ASSUME Restart PROVE MoneyTypes'
  <2>1. fees' = Earned' /\ issued' = Sum2(balance') + fees' /\ settled' = 0 /\ wrapped' = {}
    BY <1>7 DEF Restart
  <2>2. Earned' \in Nat BY EarnedTypeNext
  <2>3. balance' \in [Nodes -> [Users -> Sums]] BY DEF TypeOK
  <2>4. Sum2(balance') \in Nat BY <2>3, Sum2Type
  <2>5. QED BY <2>1, <2>2, <2>4
<1>8. QED BY <1>1, <1>2, <1>3, <1>4, <1>5, <1>6, <1>7 DEF Next

\* The steps that are not a goroutine's.
LEMMA HeldStays ==
  ASSUME Drift(Held - issued), UNCHANGED <<balance, locked, fees, issued, client>>
  PROVE  Drift(Held' - issued')
BY DEF Held, Sum2, InTransit, Total, Plus

LEMMA HeldAdd ==
  ASSUME TypeOK, TypeOK', OnlyMembers, MoneyTypes, Drift(Held - issued),
         NEW g \in Nodes, NEW u \in Users, NEW b \in Balances, AddMember(g, u, b)
  PROVE  Drift(Held' - issued')
<1>1. b \in Sums /\ 0 \in Sums /\ b \in Int BY RegionAssumption DEF Sums
<1>2. balance[g][u] = 0 /\ locked[g][u] = 0 BY DEF OnlyMembers, AddMember
<1>3. Sum2(balance)' = Sum2(balance) - 0 + b BY <1>1, <1>2, Sum2Next DEF AddMember
<1>4. Sum2(locked)' = Sum2(locked) - 0 + 0 BY <1>1, <1>2, Sum2Next DEF AddMember
<1>5. Sum2(balance) \in Int /\ Sum2(locked) \in Int BY Sum2Type DEF TypeOK
<1>6. Transit' = Transit BY DEF AddMember, Transit, InTransit, Total, Plus
<1>7. Transit \in Int BY TransitType
<1>8. fees' = fees /\ issued' = issued + b /\ fees \in Int /\ issued \in Int
  BY DEF AddMember, MoneyTypes
<1>9. /\ Held = Sum2(balance) + Sum2(locked) + fees + Transit
      /\ Held' = Sum2(balance)' + Sum2(locked)' + fees' + Transit'
  BY DEF Held, Transit
<1>10. Held' - issued' = Held - issued BY <1>1, <1>3, <1>4, <1>5, <1>6, <1>7, <1>8, <1>9
<1>11. QED BY <1>10

LEMMA HeldRestart ==
  ASSUME TypeOK', MoneyTypes', Restart PROVE Drift(Held' - issued')
<1>1. \A c \in Clients : client'[c].at = "idle" BY DEF Restart, Idle, Task
<1>2. PICK f : f = [c \in Clients |-> InTransit(c)'] OBVIOUS
<1>3. \A c \in Clients : f[c] = 0 BY <1>1, <1>2, TransitAtNext
<1>4. SumFunctionOnSet(f, Clients) = 0 BY <1>3, SumZero, RegionAssumption
<1>5. Transit' = 0 BY <1>2, <1>4 DEF Transit
<1>6. Sum2(locked)' = 0
  <2>1. \A g \in Nodes : \A u \in Users : locked'[g][u] = 0 BY DEF Restart
  <2>2. Sum2(locked') = 0 BY <2>1, Sum2Zero
  <2>3. QED BY <2>2 DEF Sum2
<1>7. issued' = Sum2(balance)' + fees' BY DEF Restart, Sum2
<1>8. Held' = Sum2(balance)' + Sum2(locked)' + fees' + Transit' BY DEF Held, Transit
<1>9. fees' \in Int BY DEF MoneyTypes
<1>10. Sum2(balance)' \in Int BY Sum2Type DEF TypeOK
<1>11. Held' - issued' = 0 BY <1>5, <1>6, <1>7, <1>8, <1>9, <1>10
<1>12. QED BY <1>11, NoDrift

LEMMA HeldNext ==
  ASSUME TypeOK, TypeOK', ClientsOK, OnlyMembers, MoneyTypes, MoneyTypes',
         Drift(Held - issued), [Next]_vars
  PROVE  Drift(Held' - issued')
<1>1. CASE UNCHANGED vars BY <1>1, HeldStays DEF vars, money, history
<1>2. ASSUME NEW g \in Nodes, NEW u \in Users, NEW b \in Balances, AddMember(g, u, b)
      PROVE  Drift(Held' - issued')
  BY <1>2, HeldAdd
<1>3. ASSUME NEW c \in Clients, NEW g \in Origins, NEW u \in Users, NEW v \in Users,
             NEW a \in Amounts, Submit(c, g, u, v, a)
      PROVE  Drift(Held' - issued')
  <2>1. client[c].at = "idle" /\ UNCHANGED <<balance, locked, fees, issued>>
    BY <1>3 DEF Submit, At, money, history
  <2>2. PICK step \in {"local", "cross"}, dest \in Nodes \cup {None} :
          client' = [client EXCEPT ![c] = Task(step, g, dest, u, v, a)]
    BY <1>3, RegionAssumption DEF Submit
  <2>3. client'[c].at = step /\ \A d \in Clients \ {c} : client'[d] = client[d]
    BY <2>2 DEF TypeOK, Task
  <2>4. InTransit(c) = 0 /\ InTransit(c)' = 0 BY <2>1, <2>3, TransitAt, TransitAtNext
  <2>5. QED BY <2>1, <2>3, <2>4, NothingMoves
<1>4. ASSUME NEW c \in Clients, ClientStep(c) PROVE Drift(Held' - issued')
  BY <1>4, HeldClient
<1>5. ASSUME NEW g \in Nodes, ProcessTx(g) \/ BeginSave(g) \/ EndSave(g) \/ MonthlySettle(g)
      PROVE  Drift(Held' - issued')
  BY <1>5, HeldStays DEF ProcessTx, BeginSave, EndSave, MonthlySettle, money, history
<1>6. ASSUME Restart PROVE Drift(Held' - issued') BY <1>6, HeldRestart
<1>7. QED BY <1>1, <1>2, <1>3, <1>4, <1>5, <1>6 DEF Next

DriftInv == OnlyMembers /\ MoneyTypes /\ Drift(Held - issued)

LEMMA DriftInit == Init => DriftInv
<1>. SUFFICES ASSUME Init PROVE DriftInv OBVIOUS
<1>1. OnlyMembers BY DEF Init, OnlyMembers, Found, Idle, Task, FromSteps, Steps
<1>2. MoneyTypes BY DEF Init, MoneyTypes
<1>3. Sum2(balance) = 0 /\ Sum2(locked) = 0 BY Sum2Zero DEF Init
<1>4. PICK f : f = [c \in Clients |-> InTransit(c)] OBVIOUS
<1>5. \A c \in Clients : f[c] = 0 BY <1>4, TransitAt DEF Init, Idle, Task
<1>6. SumFunctionOnSet(f, Clients) = 0 BY <1>5, SumZero, RegionAssumption
<1>7. Held = 0 + 0 + 0 + 0 BY <1>3, <1>4, <1>6 DEF Held, Init
<1>8. Held - issued = 0 BY <1>7 DEF Init
<1>9. QED BY <1>1, <1>2, <1>8, NoDrift DEF DriftInv

(* What Held and the register differ by is a multiple of the word size, in *)
(* every behaviour of the regions.                                         *)
THEOREM DriftInductive == Spec => []DriftInv
<1>1. Inv /\ Inv' /\ DriftInv /\ [Next]_vars => DriftInv'
  BY MembersNext, MoneyTypesStep, HeldNext DEF Inv, DriftInv
<1>2. QED BY <1>1, DriftInit, Inductive, PTL DEF Spec

(* Transfers of processor.go and the integration create and lose no money. *)
THEOREM MoneyIsConserved == Spec => []Conservation
<1>1. Inv /\ DriftInv => Conservation
  <2>. SUFFICES ASSUME Inv, DriftInv PROVE Conservation OBVIOUS
  <2>1. Sum2(balance) \in Int /\ Sum2(locked) \in Int /\ Transit \in Int
    BY Sum2Type, TransitType DEF TypeOK, Inv
  <2>2. fees \in Int /\ issued \in Int BY DEF DriftInv, MoneyTypes
  <2>3. PICK h \in Int : h = Held BY <2>1, <2>2 DEF Held, Transit
  <2>4. PICK k \in Int : h - issued = k * W BY <2>3 DEF DriftInv, Drift
  <2>5. PICK i \in Int : i = issued BY <2>2
  <2>6. k * W \in Int BY RegionAssumption
  <2>7. h = i + k * W BY <2>4, <2>5, <2>6
  <2>8. W \in Nat /\ W # 0 BY RegionAssumption
  <2>9. h % W = i % W BY <2>7, <2>8, SameRest
  <2>10. QED BY <2>3, <2>5, <2>9 DEF Conservation
<1>2. QED BY <1>1, Inductive, DriftInductive, PTL

-----------------------------------------------------------------------------
(* Who holds which transaction: a goroutine between CrossNumber and its    *)
(* return is the only one with its ID.                                     *)
Holding == {"enqueue", "verify", "release", "pay", "fee1", "fee2"}
Holds(c) ==
  /\ client[c].id \in DOMAIN txs /\ client[c].id.region = client[c].node
  /\ txs[client[c].id].from = client[c].from
  /\ txs[client[c].id].amount = client[c].amount
  /\ txs[client[c].id].status = "locked"
  /\ \A d \in Clients \ {c} : client[d].id # client[c].id
HoldOK(c) ==
  /\ client[c].at \in Holding => Holds(c)
  /\ client[c].at \notin Holding => client[c].id = None
  /\ client[c].at \in Taken => ID(client[c].node, txSeq[client[c].node]) \notin DOMAIN txs
HoldInv ==
  /\ IsFiniteSet(DOMAIN txs)
  /\ \A id \in DOMAIN txs : id.number <= txSeq[id.region]
  /\ \A c \in Clients : HoldOK(c)

\* A goroutine goes on; what it holds does not change, or it returns.
LEMMA HoldQuiet ==
  ASSUME HoldInv, UNCHANGED <<txSeq, txs>>,
         NEW c \in Clients, \A d \in Clients \ {c} : client'[d] = client[d],
         \/ client'[c].at = "idle" /\ client'[c].id = None
         \/ /\ client'[c].id = client[c].id /\ client'[c].node = client[c].node
            /\ client'[c].from = client[c].from /\ client'[c].amount = client[c].amount
            /\ client'[c].at \in Holding <=> client[c].at \in Holding
            /\ client'[c].at \in Taken => client[c].at \in Taken,
         None \notin DOMAIN txs
  PROVE  HoldInv'
<1>1. HoldOK(c)' BY DEF HoldInv, HoldOK, Holds, Holding, Taken, LocalSteps
<1>2. ASSUME NEW d \in Clients \ {c} PROVE HoldOK(d)' BY DEF HoldInv, HoldOK, Holds
<1>3. QED BY <1>1, <1>2 DEF HoldInv

LEMMA NoneIsNoID == ASSUME TypeOK PROVE None \notin DOMAIN txs /\ None \notin IDs
BY RegionAssumption DEF TypeOK, IDs

LEMMA HoldGoto ==
  ASSUME TypeOK, HoldInv, UNCHANGED <<txSeq, txs>>, NEW c \in Clients,
         \/ Return(c)
         \/ \E step \in Steps :
              /\ Goto(c, step)
              /\ step \in Holding <=> client[c].at \in Holding
              /\ step \in Taken => client[c].at \in Taken
  PROVE  HoldInv'
<1>1. CASE Return(c) BY <1>1, ReturnIs, HoldQuiet, NoneIsNoID
<1>2. ASSUME NEW step \in Steps, Goto(c, step),
             step \in Holding <=> client[c].at \in Holding,
             step \in Taken => client[c].at \in Taken
      PROVE  HoldInv'
  <2>1. \A d \in Clients \ {c} : client'[d] = client[d] BY <1>2 DEF Goto, TypeOK
  <2>2. /\ client'[c].at = step /\ client'[c].node = client[c].node
        /\ client'[c].id = client[c].id /\ client'[c].from = client[c].from
        /\ client'[c].amount = client[c].amount
    BY <1>2, GotoIs
  <2>3. QED BY <1>2, <2>1, <2>2, HoldQuiet, NoneIsNoID
<1>3. QED BY <1>1, <1>2

\* A number is taken at a node where nobody is inside ExecuteLocalTx, or by
\* the goroutine that is.
LEMMA NumberIsNew ==
  ASSUME TypeOK, HoldInv, NEW g \in Nodes PROVE ID(g, txSeq[g] + 1) \notin DOMAIN txs
BY DEF TypeOK, ID, HoldInv

LEMMA HoldLock ==
  ASSUME TypeOK, ClientsOK, HoldInv, NEW c \in Clients, LocalLock(c),
         CanPay(client[c].node, client[c].from, Total(c))
  PROVE  HoldInv'
<1>1. PICK g \in Nodes : g = client[c].node /\ chainMu[g] = c
  BY DEF LocalLock, At, ClientsOK, ClientOK, LocalSteps
<1>2. /\ client[c].at = "lock" /\ txSeq' = [txSeq EXCEPT ![g] = @ + 1] /\ txs' = txs
      /\ Goto(c, "unlock")
  BY <1>1 DEF LocalLock, At
<1>3. /\ client'[c].at = "unlock" /\ client'[c].node = g /\ client'[c].id = client[c].id
      /\ \A d \in Clients \ {c} : client'[d] = client[d]
  BY <1>1, <1>2, GotoIs DEF Goto, TypeOK
<1>4. txSeq[g] \in Nat /\ txSeq'[g] = txSeq[g] + 1 /\ \A h \in Nodes \ {g} : txSeq'[h] = txSeq[h]
  BY <1>2 DEF TypeOK
<1>5. \A id \in DOMAIN txs' : id.number <= txSeq'[id.region] BY <1>2, <1>4 DEF TypeOK, IDs, HoldInv
<1>6. HoldOK(c)' BY <1>2, <1>3, <1>4, NumberIsNew DEF HoldInv, HoldOK, Holding, ID
<1>7. ASSUME NEW d \in Clients \ {c} PROVE HoldOK(d)'
  <2>1. HoldOK(d) /\ client'[d] = client[d] BY <1>3 DEF HoldInv
  <2>2. client[d].at \in Taken => client[d].node # g /\ client[d].node \in Nodes
    BY <1>1, <1>7, OnlyHolder
  <2>3. client[d].at \in Taken => txSeq'[client[d].node] = txSeq[client[d].node]
    BY <2>2, <1>4
  <2>4. client[d].at \in Holding => Holds(d)'
    BY <2>1, <1>2, <1>3 DEF HoldOK, Holds
  <2>5. QED BY <2>1, <2>3, <2>4, <1>2 DEF HoldOK, ID
<1>8. QED BY <1>2, <1>5, <1>6, <1>7 DEF HoldInv

\* A transaction with a new ID.
LEMMA Recorded ==
  ASSUME NEW id, NEW tx, Record(id, tx), id \notin DOMAIN txs
  PROVE  /\ DOMAIN txs' = DOMAIN txs \cup {id} /\ txs'[id] = tx
         /\ \A i \in DOMAIN txs : txs'[i] = txs[i]
BY DEF Record

LEMMA HoldAppend ==
  ASSUME TypeOK, ClientsOK, HoldInv, NEW c \in Clients, AppendLocal(c)
  PROVE  HoldInv'
<1>1. PICK g \in Nodes, id \in IDs :
        g = client[c].node /\ chainMu[g] = c /\ id = ID(g, txSeq[g])
  BY DEF AppendLocal, At, ClientsOK, ClientOK, LocalSteps, IDs, ID, TypeOK
<1>2. /\ client[c].at = "append" /\ txSeq' = txSeq /\ Return(c)
      /\ Record(id, [from |-> client[c].from, amount |-> client[c].amount,
                     seq |-> txSeq[g], status |-> "confirmed"])
  BY <1>1 DEF AppendLocal, At
<1>3. id \notin DOMAIN txs BY <1>1, <1>2 DEF HoldInv, HoldOK, Taken, LocalSteps
<1>4. /\ DOMAIN txs' = DOMAIN txs \cup {id} /\ \A i \in DOMAIN txs : txs'[i] = txs[i]
  BY <1>2, <1>3, Recorded
<1>5. /\ client'[c].at = "idle" /\ client'[c].id = None
      /\ \A d \in Clients \ {c} : client'[d] = client[d]
  BY <1>2, ReturnIs
<1>6. IsFiniteSet(DOMAIN txs') BY <1>4, FS_AddElement DEF HoldInv
<1>7. \A i \in DOMAIN txs' : i.number <= txSeq'[i.region] BY <1>1, <1>2, <1>4 DEF ID, TypeOK, HoldInv
<1>8. HoldOK(c)' BY <1>5 DEF HoldOK, Holding, Taken, LocalSteps
<1>9. ASSUME NEW d \in Clients \ {c} PROVE HoldOK(d)'
  <2>1. HoldOK(d) /\ client'[d] = client[d] BY <1>5 DEF HoldInv
  <2>2. client[d].at \in Taken => client[d].node # g
    BY <1>1, <1>9, OnlyHolder
  <2>3. client[d].at \in Taken => ID(client[d].node, txSeq[client[d].node]) # id
    BY <2>2, <1>1 DEF ID
  <2>4. client[d].at \in Taken => (ID(client[d].node, txSeq[client[d].node]) \notin DOMAIN txs)'
    BY <2>1, <2>3, <1>2, <1>4 DEF HoldOK, ID
  <2>5. client[d].at \in Holding => Holds(d)' BY <1>4, <1>5, <2>1, NoneIsNoID DEF HoldOK, Holds
  <2>6. QED BY <2>1, <2>4, <2>5 DEF HoldOK
<1>10. QED BY <1>6, <1>7, <1>8, <1>9 DEF HoldInv

LEMMA HoldNumber ==
  ASSUME TypeOK, ClientsOK, HoldInv, NEW c \in Clients, CrossNumber(c)
  PROVE  HoldInv'
<1>1. PICK g \in Nodes, id \in IDs :
        g = client[c].node /\ chainMu[g] = None /\ id = ID(g, txSeq[g] + 1)
  BY DEF CrossNumber, ChainFree, At, ClientsOK, ClientOK, IDs, ID, TypeOK
<1>2. /\ client[c].at = "number" /\ txSeq' = [txSeq EXCEPT ![g] = @ + 1]
      /\ Record(id, [from |-> client[c].from, amount |-> client[c].amount,
                     seq |-> txSeq[g] + 1, status |-> "locked"])
      /\ client' = [client EXCEPT ![c].at = "enqueue", ![c].id = id]
  BY <1>1 DEF CrossNumber, At
<1>3. id \notin DOMAIN txs BY <1>1, NumberIsNew
<1>4. /\ DOMAIN txs' = DOMAIN txs \cup {id} /\ \A i \in DOMAIN txs : txs'[i] = txs[i]
      /\ txs'[id].from = client[c].from /\ txs'[id].amount = client[c].amount
      /\ txs'[id].status = "locked"
  <2>1. PICK tx : tx = [from |-> client[c].from, amount |-> client[c].amount,
                        seq |-> txSeq[g] + 1, status |-> "locked"]
    OBVIOUS
  <2>2. /\ DOMAIN txs' = DOMAIN txs \cup {id} /\ txs'[id] = tx
        /\ \A i \in DOMAIN txs : txs'[i] = txs[i]
    BY <1>2, <1>3, <2>1, Recorded
  <2>3. QED BY <2>1, <2>2
<1>5. /\ client'[c].at = "enqueue" /\ client'[c].id = id
      /\ client'[c].node = g /\ client'[c].from = client[c].from
      /\ client'[c].amount = client[c].amount
      /\ \A d \in Clients \ {c} : client'[d] = client[d] BY <1>1, <1>2 DEF TypeOK, Client
<1>6. IsFiniteSet(DOMAIN txs') BY <1>4, FS_AddElement DEF HoldInv
<1>s. txSeq[g] \in Nat /\ txSeq'[g] = txSeq[g] + 1 /\ \A h \in Nodes \ {g} : txSeq'[h] = txSeq[h]
  BY <1>2 DEF TypeOK
<1>r. id.region = g /\ id.number = txSeq[g] + 1 BY <1>1 DEF ID
<1>7. \A i \in DOMAIN txs' : i.number <= txSeq'[i.region]
  <2>1. SUFFICES ASSUME NEW i \in DOMAIN txs' PROVE i.number <= txSeq'[i.region] OBVIOUS
  <2>2. CASE i = id BY <2>2, <1>r, <1>s
  <2>3. CASE i \in DOMAIN txs
    <3>1. i.number \in Nat /\ i.region \in Nodes /\ i.number <= txSeq[i.region]
      BY <2>3 DEF TypeOK, IDs, HoldInv
    <3>2. txSeq[i.region] \in Nat BY <3>1 DEF TypeOK
    <3>3. QED BY <1>s, <3>1, <3>2
  <2>4. QED BY <1>4, <2>2, <2>3
<1>h. ASSUME NEW d \in Clients \ {c} PROVE client[d].id # id BY <1>1, <1>3, NoneIsNoID DEF HoldInv, HoldOK, Holds
<1>8. HoldOK(c)' BY <1>4, <1>5, <1>h, <1>r DEF Holds, HoldOK, Holding, Taken, LocalSteps
<1>9. ASSUME NEW d \in Clients \ {c} PROVE HoldOK(d)'
  <2>1. HoldOK(d) /\ client'[d] = client[d] BY <1>5 DEF HoldInv
  <2>n. None \notin Clients BY RegionAssumption
  <2>2. client[d].at \in Taken => client[d].node # g /\ client[d].node \in Nodes
    BY <1>1, <1>9, <2>n, OnlyHolder
  <2>3. client[d].at \in Taken => (ID(client[d].node, txSeq[client[d].node]) \notin DOMAIN txs)'
    BY <2>1, <2>2, <1>1, <1>s, <1>4 DEF HoldOK, ID
  <2>4. client[d].at \in Holding => Holds(d)' BY <1>4, <1>5, <2>1, <1>h DEF HoldOK, Holds
  <2>5. QED BY <2>1, <2>3, <2>4 DEF HoldOK
<1>10. QED BY <1>6, <1>7, <1>8, <1>9 DEF HoldInv

\* A transaction ends, and the goroutine that held it returns.
LEMMA HoldEnd ==
  ASSUME TypeOK, HoldInv, NEW c \in Clients, client[c].at \in Holding, txSeq' = txSeq,
         NEW s, txs' = [txs EXCEPT ![client[c].id].status = s], Return(c)
  PROVE  HoldInv'
<1>1. Holds(c) BY DEF HoldInv, HoldOK
<1>2. PICK id : id = client[c].id OBVIOUS
<1>3. /\ DOMAIN txs' = DOMAIN txs /\ \A i \in DOMAIN txs \ {id} : txs'[i] = txs[i]
  BY <1>2
<1>4. /\ client'[c].at = "idle" /\ client'[c].id = None
      /\ \A d \in Clients \ {c} : client'[d] = client[d]
  BY ReturnIs
<1>5. HoldOK(c)' BY <1>4 DEF HoldOK, Holding, Taken, LocalSteps
<1>6. ASSUME NEW d \in Clients \ {c} PROVE HoldOK(d)'
  <2>1. HoldOK(d) /\ client'[d] = client[d] BY <1>4 DEF HoldInv
  <2>2. client[d].id # id BY <1>1, <1>2 DEF Holds
  <2>3. client[d].at \in Holding => Holds(d)' BY <1>3, <1>4, <2>1, <2>2, NoneIsNoID DEF HoldOK, Holds
  <2>4. QED BY <2>1, <2>3, <1>3 DEF HoldOK, ID
<1>7. QED BY <1>3, <1>5, <1>6 DEF HoldInv

LEMMA HoldProcess ==
  ASSUME TypeOK, ClientsOK, HoldInv, NEW g \in Nodes, ProcessTx(g) PROVE HoldInv'
<1>1. /\ txSeq' = [txSeq EXCEPT ![g] = @ + 1] /\ client' = client /\ chainMu[g] = None
      /\ txs' = [txs EXCEPT ![Head(queue[g])].seq = txSeq[g] + 1]
  BY DEF ProcessTx, ChainFree
<1>2. txSeq[g] \in Nat /\ txSeq'[g] = txSeq[g] + 1 /\ \A h \in Nodes \ {g} : txSeq'[h] = txSeq[h]
  BY <1>1 DEF TypeOK
<1>3. /\ DOMAIN txs' = DOMAIN txs
      /\ \A i \in DOMAIN txs : /\ txs'[i].from = txs[i].from /\ txs'[i].amount = txs[i].amount
                               /\ txs'[i].status = txs[i].status BY <1>1 DEF TypeOK, Tx
<1>4. \A i \in DOMAIN txs' : i.number <= txSeq'[i.region]
  <2>1. SUFFICES ASSUME NEW i \in DOMAIN txs PROVE i.number <= txSeq'[i.region] BY <1>3
  <2>2. i.number \in Nat /\ i.region \in Nodes /\ i.number <= txSeq[i.region]
    BY DEF TypeOK, IDs, HoldInv
  <2>3. txSeq[i.region] \in Nat BY <2>2 DEF TypeOK
  <2>4. QED BY <1>2, <2>2, <2>3
<1>5. ASSUME NEW d \in Clients PROVE HoldOK(d)'
  <2>1. HoldOK(d) /\ client'[d] = client[d] BY <1>1 DEF HoldInv
  <2>2. client[d].at \in Taken => client[d].node # g /\ client[d].node \in Nodes
    BY <1>1, OnlyHolder, RegionAssumption
  <2>3. client[d].at \in Taken => (ID(client[d].node, txSeq[client[d].node]) \notin DOMAIN txs)'
    BY <2>1, <2>2, <1>2, <1>3 DEF HoldOK, ID
  <2>4. client[d].at \in Holding => Holds(d)'
    BY <2>1, <1>1, <1>3 DEF HoldOK, Holds
  <2>5. QED BY <2>1, <2>3, <2>4 DEF HoldOK
<1>6. QED BY <1>3, <1>4, <1>5 DEF HoldInv

LEMMA HoldClient ==
  ASSUME TypeOK, ClientsOK, HoldInv, NEW c \in Clients, ClientStep(c) PROVE HoldInv'
<1> USE DEF At, Steps, Holding, Taken, LocalSteps, ledger
<1>1. CASE TakeChain(c) BY <1>1, HoldGoto DEF TakeChain
<1>2. CASE LocalLock(c) BY <1>2, HoldLock, HoldGoto DEF LocalLock
<1>3. CASE LocalUnlock(c) BY <1>3, HoldGoto DEF LocalUnlock
<1>4. CASE LocalCredit(c) BY <1>4, HoldGoto DEF LocalCredit
<1>5. CASE ReadEarnings(c) BY <1>5, HoldQuiet, NoneIsNoID DEF ReadEarnings, TypeOK, Client
<1>6. CASE AppendLocal(c) BY <1>6, HoldAppend
<1>7. CASE CrossLock(c) BY <1>7, HoldGoto DEF CrossLock
<1>8. CASE CrossNumber(c) BY <1>8, HoldNumber
<1>9. CASE Enqueue(c) BY <1>9, HoldGoto DEF Enqueue
<1>10. CASE VerifyCrossRegion(c) BY <1>10, HoldGoto DEF VerifyCrossRegion
<1>11. CASE ReleaseLock(c) BY <1>11, HoldGoto, HoldEnd DEF ReleaseLock
<1>12. CASE PayRecipient(c) BY <1>12, HoldGoto DEF PayRecipient
<1>13. CASE EarnHere(c) BY <1>13, HoldGoto DEF EarnHere
<1>14. CASE EarnThere(c) BY <1>14, HoldEnd DEF EarnThere
<1>15. QED
  BY <1>1, <1>2, <1>3, <1>4, <1>5, <1>6, <1>7, <1>8, <1>9, <1>10, <1>11, <1>12,
     <1>13, <1>14 DEF ClientStep

LEMMA HoldNext ==
  ASSUME TypeOK, ClientsOK, HoldInv, [Next]_vars PROVE HoldInv'
<1>1. ASSUME UNCHANGED <<txSeq, txs, client>> PROVE HoldInv'
  BY <1>1 DEF HoldInv, HoldOK, Holds
<1>2. CASE UNCHANGED vars BY <1>1, <1>2 DEF vars, ledger
<1>3. ASSUME NEW g \in Nodes, NEW u \in Users, NEW b \in Balances, AddMember(g, u, b)
      PROVE  HoldInv'
  BY <1>1, <1>3 DEF AddMember, ledger
<1>4. ASSUME NEW c \in Clients, NEW g \in Origins, NEW u \in Users, NEW v \in Users,
             NEW a \in Amounts, Submit(c, g, u, v, a)
      PROVE  HoldInv'
  <2>1. UNCHANGED <<txSeq, txs>> BY <1>4 DEF Submit, ledger
  <2>2. PICK step \in {"local", "cross"}, dest \in Nodes \cup {None} :
          client' = [client EXCEPT ![c] = Task(step, g, dest, u, v, a)]
    BY <1>4, RegionAssumption DEF Submit
  <2>3. /\ client'[c].at = step /\ client'[c].id = None
        /\ \A d \in Clients \ {c} : client'[d] = client[d]
    BY <2>2 DEF TypeOK, Task
  <2>4. HoldOK(c)' BY <2>3 DEF HoldOK, Holding, Taken, LocalSteps
  <2>5. ASSUME NEW d \in Clients \ {c} PROVE HoldOK(d)' BY <2>1, <2>3, NoneIsNoID DEF HoldInv, HoldOK, Holds
  <2>6. QED BY <2>1, <2>4, <2>5 DEF HoldInv
<1>5. ASSUME NEW c \in Clients, ClientStep(c) PROVE HoldInv' BY <1>5, HoldClient
<1>6. ASSUME NEW g \in Nodes, ProcessTx(g) PROVE HoldInv' BY <1>6, HoldProcess
<1>7. ASSUME NEW g \in Nodes, MonthlySettle(g) \/ BeginSave(g) \/ EndSave(g)
      PROVE  HoldInv'
  BY <1>1, <1>7 DEF MonthlySettle, BeginSave, EndSave, ledger
<1>8. ASSUME Restart PROVE HoldInv'
  BY <1>8, FS_EmptySet DEF Restart, Idle, Task, HoldInv, HoldOK, Holding, Taken, LocalSteps
<1>9. QED BY <1>2, <1>3, <1>4, <1>5, <1>6, <1>7, <1>8 DEF Next

LEMMA HoldInit == Init => HoldInv
<1>. SUFFICES ASSUME Init PROVE HoldInv OBVIOUS
<1>1. DOMAIN txs = {} /\ \A c \in Clients : client[c].at = "idle" /\ client[c].id = None
  BY DEF Init, Idle, Task
<1>2. IsFiniteSet(DOMAIN txs) BY <1>1, FS_EmptySet
<1>3. QED BY <1>1, <1>2 DEF HoldInv, HoldOK, Holding, Taken, LocalSteps

-----------------------------------------------------------------------------
(* The locks of a member, and how they change.                             *)
LockSum(g, u) == SumFunctionOnSet([c \in Clients |-> Total(c)], Locking(g, u))
FwdSum(g, u) == SumFunctionOnSet(ForwardedCost, Forwarded(g, u))
BackedAt(g, u) == <<g, u>> \notin wrapped => locked[g][u] = LockSum(g, u) + FwdSum(g, u)
Backed == \A g \in Nodes, u \in Users : BackedAt(g, u)

LockSteps == {"unlock", "number", "enqueue", "verify", "release"}
Mine(c, g, u) ==
  IF client[c].node = g /\ client[c].from = u /\ client[c].at \in LockSteps THEN Total(c) ELSE 0
\* A transaction that was forwarded and is not settled.
Open(id) == txs[id].status = "locked" /\ \A c \in Clients : client[c].id # id

LEMMA TotalTypeNext == (TypeOK => \A c \in Clients : Total(c) \in Nat)'
<1>1. TypeOK => \A c \in Clients : Total(c) \in Nat BY TotalType, RegionAssumption DEF Sums
<1>2. QED BY <1>1, PTL

LEMMA LockSumStep ==
  ASSUME TypeOK, TypeOK', NEW c \in Clients, \A d \in Clients \ {c} : client'[d] = client[d],
         NEW g \in Nodes, NEW u \in Users
  PROVE  \E rest \in Nat : /\ LockSum(g, u) = Mine(c, g, u) + rest
                           /\ LockSum(g, u)' = Mine(c, g, u)' + rest
<1>1. PICK f, h : f = [d \in Clients |-> Total(d)] /\ h = [d \in Clients |-> Total(d)'] OBVIOUS
<1>2. PICK S : S = Locking(g, u) \ {c} OBVIOUS
<1>3. S = Locking(g, u)' \ {c} BY <1>2 DEF Locking
<1>4. \A d \in Clients : f[d] \in Nat /\ h[d] \in Nat
  BY <1>1, TotalType, TotalTypeNext, RegionAssumption DEF Sums
<1>5. \A d \in S : d \in Clients /\ f[d] = h[d] BY <1>1, <1>2 DEF Locking, Total, Plus, LocalFee, CrossFee
<1>6. S \subseteq Clients BY <1>5
<1>7. IsFiniteSet(S) BY <1>6, FS_Subset, RegionAssumption
<1>8. SumFunctionOnSet(f, S) = SumFunctionOnSet(h, S) BY <1>5, <1>7, SumSame
<1>9. \A d \in S : f[d] \in Nat BY <1>4, <1>5
<1>10. PICK rest \in Nat : rest = SumFunctionOnSet(f, S) BY <1>7, <1>9, SumNat
<1>11. LockSum(g, u) = SumFunctionOnSet(f, Locking(g, u)) BY <1>1 DEF LockSum
<1>12. LockSum(g, u)' = SumFunctionOnSet(h, Locking(g, u)') BY <1>1 DEF LockSum
<1>13. c \notin S BY <1>2
<1>14. (\A d \in S \cup {c} : f[d] \in Int) /\ (\A d \in S \cup {c} : h[d] \in Int)
  BY <1>4, <1>5
<1>15. /\ SumFunctionOnSet(f, S \cup {c}) = f[c] + rest
       /\ SumFunctionOnSet(h, S \cup {c}) = h[c] + rest
  BY <1>7, <1>8, <1>10, <1>13, <1>14, SumAdd
<1>16. LockSum(g, u) = Mine(c, g, u) + rest
  <2>1. CASE c \in Locking(g, u) BY <1>1, <1>2, <1>11, <1>15, <2>1 DEF Locking, Mine, LockSteps
  <2>2. CASE c \notin Locking(g, u)
    <3>1. Locking(g, u) = S /\ Mine(c, g, u) = 0
      BY <1>2, <2>2 DEF Locking, Mine, LockSteps
    <3>2. QED BY <3>1, <1>10, <1>11
  <2>3. QED BY <2>1, <2>2
<1>17. LockSum(g, u)' = Mine(c, g, u)' + rest
  <2>1. CASE c \in Locking(g, u)'
    BY <1>1, <1>3, <1>12, <1>15, <2>1 DEF Locking, Mine, LockSteps, Total, Plus, LocalFee, CrossFee
  <2>2. CASE c \notin Locking(g, u)'
    <3>1. Locking(g, u)' = S /\ Mine(c, g, u)' = 0
      BY <1>3, <2>2 DEF Locking, Mine, LockSteps
    <3>2. QED BY <3>1, <1>8, <1>10, <1>12
  <2>3. QED BY <2>1, <2>2
<1>18. QED BY <1>16, <1>17

LEMMA FwdType ==
  ASSUME TypeOK, HoldInv, NEW g \in Nodes, NEW u \in Users
  PROVE  /\ FwdSum(g, u) \in Nat /\ IsFiniteSet(Forwarded(g, u))
         /\ \A id \in DOMAIN txs : ForwardedCost[id] \in Nat
<1>1. Forwarded(g, u) \subseteq DOMAIN txs BY DEF Forwarded
<1>2. IsFiniteSet(Forwarded(g, u)) BY <1>1, FS_Subset DEF HoldInv
<1>3. \A id \in DOMAIN txs : ForwardedCost[id] \in Nat
  <2>1. SUFFICES ASSUME NEW id \in DOMAIN txs PROVE ForwardedCost[id] \in Nat OBVIOUS
  <2>2. txs[id] \in Tx BY DEF TypeOK
  <2>3. txs[id].amount \in Sums BY <2>2, RegionAssumption DEF Tx, Sums
  <2>4. CrossFee(txs[id].amount) \in Int /\ txs[id].amount \in Int BY <2>3, FeeType DEF Sums
  <2>5. Plus(txs[id].amount, CrossFee(txs[id].amount)) \in Nat
    BY <2>4, PlusType, RegionAssumption DEF Sums
  <2>6. QED BY <2>5 DEF ForwardedCost
<1>4. \A id \in Forwarded(g, u) : ForwardedCost[id] \in Nat BY <1>1, <1>3
<1>5. QED BY <1>2, <1>3, <1>4, SumNat DEF FwdSum

LEMMA FwdTypeNext ==
  (TypeOK /\ HoldInv => \A g \in Nodes, u \in Users :
     /\ FwdSum(g, u) \in Nat /\ IsFiniteSet(Forwarded(g, u))
     /\ \A id \in DOMAIN txs : ForwardedCost[id] \in Nat)'
<1>1. TypeOK /\ HoldInv => \A g \in Nodes, u \in Users :
     /\ FwdSum(g, u) \in Nat /\ IsFiniteSet(Forwarded(g, u))
     /\ \A id \in DOMAIN txs : ForwardedCost[id] \in Nat
  BY FwdType
<1>2. QED BY <1>1, PTL

LEMMA FwdSame ==
  ASSUME TypeOK, HoldInv, DOMAIN txs \subseteq DOMAIN txs',
         \A id \in DOMAIN txs : txs'[id].from = txs[id].from /\ txs'[id].amount = txs[id].amount,
         \A id \in DOMAIN txs : Open(id)' <=> Open(id),
         \A id \in DOMAIN txs' \ DOMAIN txs : ~Open(id)',
         NEW g \in Nodes, NEW u \in Users
  PROVE  FwdSum(g, u)' = FwdSum(g, u)
<1>1. Forwarded(g, u)' = Forwarded(g, u) BY DEF Forwarded, Open
<1>2. PICK f, h : f = ForwardedCost /\ h = ForwardedCost' OBVIOUS
<1>3. \A id \in Forwarded(g, u) : f[id] = h[id]
  BY <1>2 DEF Forwarded, ForwardedCost, Plus, CrossFee
<1>4. SumFunctionOnSet(f, Forwarded(g, u)) = SumFunctionOnSet(h, Forwarded(g, u))
  BY <1>3, FwdType, SumSame
<1>5. QED BY <1>1, <1>2, <1>4 DEF FwdSum

\* A goroutine that returns before the release leaves its transaction open.
LEMMA FwdLeft ==
  ASSUME TypeOK, HoldInv, UNCHANGED txs, NEW c \in Clients, client[c].at \in Holding, Return(c),
         NEW g \in Nodes, NEW u \in Users
  PROVE  FwdSum(g, u)' =
           IF g = client[c].node /\ u = client[c].from
           THEN FwdSum(g, u) + Plus(client[c].amount, CrossFee(client[c].amount))
           ELSE FwdSum(g, u)
<1>1. PICK id : id = client[c].id OBVIOUS
<1>2. Holds(c) BY DEF HoldInv, HoldOK
<1>3. client'[c].id = None /\ \A d \in Clients \ {c} : client'[d] = client[d] BY ReturnIs
<1>4. id \in DOMAIN txs /\ id # None BY <1>1, <1>2, NoneIsNoID DEF Holds
<1>5. Open(id)' /\ ~Open(id) BY <1>1, <1>2, <1>3, <1>4 DEF Holds, Open
<1>6. \A i \in DOMAIN txs \ {id} : Open(i)' <=> Open(i) BY <1>1, <1>3, NoneIsNoID DEF Open
<1>7. ForwardedCost' = ForwardedCost BY DEF ForwardedCost, Plus, CrossFee
<1>8. CASE g = client[c].node /\ u = client[c].from
  <2>1. Forwarded(g, u)' = Forwarded(g, u) \cup {id} /\ id \notin Forwarded(g, u)
    BY <1>1, <1>2, <1>4, <1>5, <1>6, <1>8 DEF Forwarded, Open, Holds
  <2>2. PICK f : f = ForwardedCost OBVIOUS
  <2>3. \A i \in Forwarded(g, u) \cup {id} : f[i] \in Int
    <3>1. \A i \in DOMAIN txs : f[i] \in Nat BY <2>2, FwdType
    <3>2. Forwarded(g, u) \cup {id} \subseteq DOMAIN txs BY <1>4 DEF Forwarded
    <3>3. QED BY <3>1, <3>2
  <2>4. SumFunctionOnSet(f, Forwarded(g, u) \cup {id}) = f[id] + SumFunctionOnSet(f, Forwarded(g, u))
    BY <2>1, <2>3, FwdType, SumAdd
  <2>5. f[id] = Plus(client[c].amount, CrossFee(client[c].amount))
    BY <2>2, <1>1, <1>2, <1>4 DEF ForwardedCost, Holds
  <2>6. FwdSum(g, u)' = f[id] + FwdSum(g, u) BY <1>7, <2>1, <2>2, <2>4 DEF FwdSum
  <2>7. f[id] \in Int /\ FwdSum(g, u) \in Int BY <2>2, <1>4, FwdType
  <2>8. QED BY <1>8, <2>5, <2>6, <2>7
<1>9. CASE ~(g = client[c].node /\ u = client[c].from)
  <2>1. Forwarded(g, u)' = Forwarded(g, u)
    BY <1>1, <1>2, <1>4, <1>5, <1>6, <1>9 DEF Forwarded, Open, Holds
  <2>2. QED BY <1>7, <1>9, <2>1 DEF FwdSum
<1>10. QED BY <1>8, <1>9

-----------------------------------------------------------------------------
\* What is locked changes as what the goroutine has locked, and what has
\* been forwarded.
LEMMA BackedStep ==
  ASSUME TypeOK, TypeOK', HoldInv, HoldInv', Backed, NEW c \in Clients,
         \A d \in Clients \ {c} : client'[d] = client[d], wrapped \subseteq wrapped',
         \A g \in Nodes, u \in Users : <<g, u>> \notin wrapped' =>
           locked'[g][u] = locked[g][u] + (Mine(c, g, u)' - Mine(c, g, u))
                                        + (FwdSum(g, u)' - FwdSum(g, u))
  PROVE  Backed'
<1>1. SUFFICES ASSUME NEW g \in Nodes, NEW u \in Users, <<g, u>> \notin wrapped'
               PROVE  locked'[g][u] = LockSum(g, u)' + FwdSum(g, u)'
  BY DEF Backed, BackedAt
<1>2. locked[g][u] = LockSum(g, u) + FwdSum(g, u) BY <1>1 DEF Backed, BackedAt
<1>3. PICK rest \in Nat : LockSum(g, u) = Mine(c, g, u) + rest
                          /\ LockSum(g, u)' = Mine(c, g, u)' + rest
  BY LockSumStep
<1>4. Mine(c, g, u) \in Int BY TotalType, RegionAssumption DEF Mine, Sums
<1>5. Mine(c, g, u)' \in Int BY TotalTypeNext DEF Mine, Total, Plus, LocalFee, CrossFee
<1>6. FwdSum(g, u) \in Int BY FwdType
<1>7. FwdSum(g, u)' \in Int BY FwdTypeNext
<1>8. QED BY <1>1, <1>2, <1>3, <1>4, <1>5, <1>6, <1>7

\* The goroutine keeps the lock it has, or has none before and after.
LEMMA MineSame ==
  ASSUME NEW c \in Clients,
         \/ client[c].at \notin LockSteps /\ client'[c].at \notin LockSteps
         \/ /\ client[c].at \in LockSteps /\ client'[c].at \in LockSteps
            /\ client[c].at = "unlock" <=> client'[c].at = "unlock"
            /\ client'[c].node = client[c].node /\ client'[c].from = client[c].from
            /\ client'[c].amount = client[c].amount
  PROVE  \A g, u : Mine(c, g, u)' = Mine(c, g, u)
BY DEF Mine, Total, LockSteps, Plus, LocalFee, CrossFee

LEMMA BackedQuiet ==
  ASSUME TypeOK, TypeOK', HoldInv, HoldInv', Backed, NEW c \in Clients,
         \A d \in Clients \ {c} : client'[d] = client[d], UNCHANGED <<locked, wrapped>>,
         \A g, u : Mine(c, g, u)' = Mine(c, g, u),
         DOMAIN txs \subseteq DOMAIN txs',
         \A id \in DOMAIN txs : txs'[id].from = txs[id].from /\ txs'[id].amount = txs[id].amount,
         \A id \in DOMAIN txs : Open(id)' <=> Open(id),
         \A id \in DOMAIN txs' \ DOMAIN txs : ~Open(id)'
  PROVE  Backed'
<1>1. SUFFICES ASSUME NEW g \in Nodes, NEW u \in Users
               PROVE  locked'[g][u] = locked[g][u] + (Mine(c, g, u)' - Mine(c, g, u))
                                                   + (FwdSum(g, u)' - FwdSum(g, u))
  BY BackedStep
<1>2. FwdSum(g, u)' = FwdSum(g, u) BY FwdSame
<1>3. FwdSum(g, u) \in Int BY FwdType
<1>4. Mine(c, g, u) \in Int BY TotalType, RegionAssumption DEF Mine, Sums
<1>5. locked[g][u] \in Int BY RegionAssumption DEF TypeOK, Sums
<1>6. Mine(c, g, u)' = Mine(c, g, u) OBVIOUS
<1>7. QED BY <1>2, <1>3, <1>4, <1>5, <1>6

\* Transactions do not change, and no goroutine lets go of its own.
LEMMA BackedCalm ==
  ASSUME TypeOK, TypeOK', HoldInv, HoldInv', Backed, NEW c \in Clients,
         \A d \in Clients \ {c} : client'[d] = client[d], UNCHANGED <<locked, wrapped, txs>>,
         \A g, u : Mine(c, g, u)' = Mine(c, g, u),
         client'[c].id = client[c].id
  PROVE  Backed'
BY BackedQuiet DEF Open

LEMMA BackedGoto ==
  ASSUME TypeOK, TypeOK', HoldInv, HoldInv', Backed, NEW c \in Clients,
         UNCHANGED <<locked, wrapped, txs>>,
         \/ Return(c) /\ client[c].at \notin Holding /\ client[c].at \notin LockSteps
         \/ \E step \in Steps :
              /\ Goto(c, step)
              /\ \/ step \notin LockSteps /\ client[c].at \notin LockSteps
                 \/ /\ step \in LockSteps \ {"unlock"}
                    /\ client[c].at \in LockSteps \ {"unlock"}
  PROVE  Backed'
<1>1. CASE Return(c) /\ client[c].at \notin Holding /\ client[c].at \notin LockSteps
  BY <1>1, ReturnIs, MineSame, BackedCalm DEF HoldInv, HoldOK, LockSteps
<1>2. ASSUME NEW step \in Steps, Goto(c, step),
             \/ step \notin LockSteps /\ client[c].at \notin LockSteps
             \/ /\ step \in LockSteps \ {"unlock"}
                /\ client[c].at \in LockSteps \ {"unlock"}
      PROVE  Backed'
  <2>1. /\ client'[c].at = step /\ client'[c].node = client[c].node
        /\ client'[c].id = client[c].id /\ client'[c].from = client[c].from
        /\ client'[c].amount = client[c].amount
    BY <1>2, GotoIs
  <2>2. \A d \in Clients \ {c} : client'[d] = client[d] BY <1>2 DEF Goto, TypeOK
  <2>3. \A g, u : Mine(c, g, u)' = Mine(c, g, u) BY <1>2, <2>1, MineSame
  <2>4. QED BY <2>1, <2>2, <2>3, BackedCalm
<1>3. QED BY <1>1, <1>2

\* A lock is taken: Goto(c, step) with step one that has it.
LEMMA BackedLock ==
  ASSUME TypeOK, TypeOK', HoldInv, HoldInv', Backed, NEW c \in Clients, client[c].at # "idle",
         client[c].at \notin LockSteps, client[c].node \in Nodes, client[c].from \in Users,
         NEW step \in LockSteps, Goto(c, step), Total(c)' = Total(c), UNCHANGED txs,
         LockBalance(client[c].node, client[c].from, Total(c))
  PROVE  Backed'
<1>1. PICK G \in Nodes, U \in Users : G = client[c].node /\ U = client[c].from OBVIOUS
<1>2. PICK t \in Sums : t = Total(c) BY TotalType
<1>3. PICK l \in Sums : l = locked[G][U] BY DEF TypeOK
<1>4. /\ client'[c].at = step /\ client'[c].node = G /\ client'[c].from = U
      /\ client'[c].id = client[c].id
  BY <1>1, GotoIs
<1>5. \A d \in Clients \ {c} : client'[d] = client[d] BY DEF Goto, TypeOK
<1>6. \A id \in DOMAIN txs : Open(id)' <=> Open(id) BY <1>4, <1>5 DEF Open
<1>7. wrapped \subseteq wrapped' BY DEF LockBalance
<1>8. locked' = [locked EXCEPT ![G][U] = Plus(l, t)] BY <1>1, <1>2, <1>3 DEF LockBalance, TypeOK
<1>9. ASSUME NEW g \in Nodes, NEW u \in Users, <<g, u>> \notin wrapped'
      PROVE  locked'[g][u] = locked[g][u] + (Mine(c, g, u)' - Mine(c, g, u))
                                          + (FwdSum(g, u)' - FwdSum(g, u))
  <2>1. FwdSum(g, u)' = FwdSum(g, u) BY <1>6, FwdSame
  <2>2. FwdSum(g, u) \in Int BY FwdType
  <2>3. Mine(c, g, u) = 0 BY DEF Mine
  <2>4. locked[g][u] \in Int /\ l \in Nat /\ t \in Nat BY RegionAssumption DEF TypeOK, Sums
  <2>5. CASE g = G /\ u = U
    <3>1. Mine(c, g, u)' = t BY <1>2, <1>4, <2>5 DEF Mine, Total, Plus, LocalFee, CrossFee
    <3>2. l + t < W BY <1>1, <1>2, <1>3, <1>9, <2>5 DEF LockBalance
    <3>3. PICK n \in Nat : n = l + t /\ n < W BY <2>4, <3>2
    <3>4. n % W = n BY <3>3, RegionAssumption
    <3>5. Plus(l, t) = n BY <3>3, <3>4 DEF Plus
    <3>6. locked'[g][u] = n BY <1>8, <2>5, <3>5 DEF TypeOK
    <3>7. QED BY <1>3, <2>1, <2>2, <2>3, <2>4, <2>5, <3>1, <3>3, <3>6
  <2>6. CASE ~(g = G /\ u = U)
    <3>1. Mine(c, g, u)' = 0 BY <1>4, <2>6 DEF Mine
    <3>2. locked'[g][u] = locked[g][u] BY <1>8, <2>6 DEF TypeOK
    <3>3. QED BY <2>1, <2>2, <2>3, <2>4, <3>1, <3>2
  <2>7. QED BY <2>5, <2>6
<1>10. QED BY <1>5, <1>7, <1>9, BackedStep

\* A lock is released.
LEMMA BackedUnlock ==
  ASSUME TypeOK, TypeOK', HoldInv, HoldInv', Backed, NEW c \in Clients,
         client[c].at \in LockSteps, client[c].node \in Nodes, client[c].from \in Users,
         NEW step \in Steps \ LockSteps, Goto(c, step), UNCHANGED <<txs, wrapped>>,
         UnlockBalance(client[c].node, client[c].from, Total(c))
  PROVE  Backed'
<1>1. PICK G \in Nodes, U \in Users : G = client[c].node /\ U = client[c].from OBVIOUS
<1>2. PICK t \in Sums : t = Total(c) BY TotalType
<1>3. PICK l \in Sums : l = locked[G][U] BY DEF TypeOK
<1>4. client'[c].at = step /\ client'[c].id = client[c].id BY GotoIs
<1>5. \A d \in Clients \ {c} : client'[d] = client[d] BY DEF Goto, TypeOK
<1>6. \A id \in DOMAIN txs : Open(id)' <=> Open(id) BY <1>4, <1>5 DEF Open
<1>8. locked' = [locked EXCEPT ![G][U] = l - t]
  BY <1>1, <1>2, <1>3 DEF UnlockBalance, TypeOK
<1>9. ASSUME NEW g \in Nodes, NEW u \in Users
      PROVE  locked'[g][u] = locked[g][u] + (Mine(c, g, u)' - Mine(c, g, u))
                                          + (FwdSum(g, u)' - FwdSum(g, u))
  <2>1. FwdSum(g, u)' = FwdSum(g, u) BY <1>6, FwdSame
  <2>2. FwdSum(g, u) \in Int BY FwdType
  <2>3. Mine(c, g, u)' = 0 BY <1>4 DEF Mine
  <2>4. locked[g][u] \in Int /\ l \in Nat /\ t \in Nat BY RegionAssumption DEF TypeOK, Sums
  <2>5. CASE g = G /\ u = U BY <1>1, <1>2, <1>3, <1>8, <2>1, <2>2, <2>3, <2>4, <2>5 DEF Mine, TypeOK
  <2>6. CASE ~(g = G /\ u = U)
    <3>1. Mine(c, g, u) = 0 BY <1>1, <2>6 DEF Mine
    <3>2. locked'[g][u] = locked[g][u] BY <1>8, <2>6 DEF TypeOK
    <3>3. QED BY <2>1, <2>2, <2>3, <2>4, <3>1, <3>2
  <2>7. QED BY <2>5, <2>6
<1>10. QED BY <1>5, <1>9, BackedStep

\* UnlockBalance finds the lock of a goroutine that has one.
LEMMA UnlockFinds ==
  ASSUME TypeOK, TypeOK', HoldInv, OnlyMembers, Backed, NEW c \in Clients,
         \A d \in Clients \ {c} : client'[d] = client[d],
         client[c].at \in LockSteps, client[c].node \in Nodes, client[c].from \in Users,
         <<client[c].node, client[c].from>> \notin wrapped
  PROVE  Unlocks(client[c].node, client[c].from, Total(c))
BY LockSumStep, FwdType, TotalType, RegionAssumption DEF Backed, BackedAt, Mine, Sums, OnlyMembers, Found,
   FromSteps, Steps, LockSteps, Unlocks

\* The lock is not there: then the member's locks are past 64 bits.
LEMMA BackedLost ==
  ASSUME TypeOK, TypeOK', HoldInv, HoldInv', OnlyMembers, Backed, NEW c \in Clients,
         client[c].at \in LockSteps, client[c].node \in Nodes, client[c].from \in Users,
         Return(c), UNCHANGED <<locked, wrapped>>,
         ~Unlocks(client[c].node, client[c].from, Total(c)),
         DOMAIN txs' = DOMAIN txs,
         \A id \in DOMAIN txs : txs'[id].from = txs[id].from /\ txs'[id].amount = txs[id].amount,
         \A id \in DOMAIN txs : Open(id)' <=> Open(id)
  PROVE  Backed'
<1>1. \A d \in Clients \ {c} : client'[d] = client[d] BY ReturnIs
<1>2. <<client[c].node, client[c].from>> \in wrapped BY <1>1, UnlockFinds
<1>3. ASSUME NEW g \in Nodes, NEW u \in Users, <<g, u>> \notin wrapped'
      PROVE  locked'[g][u] = locked[g][u] + (Mine(c, g, u)' - Mine(c, g, u))
                                          + (FwdSum(g, u)' - FwdSum(g, u))
  <2>1. FwdSum(g, u)' = FwdSum(g, u) BY FwdSame
  <2>2. FwdSum(g, u) \in Int BY FwdType
  <2>3. Mine(c, g, u) = 0 BY <1>2, <1>3 DEF Mine
  <2>4. Mine(c, g, u)' = 0 BY ReturnIs DEF Mine, LockSteps
  <2>5. locked[g][u] \in Int BY RegionAssumption DEF TypeOK, Sums
  <2>6. QED BY <2>1, <2>2, <2>3, <2>4, <2>5
<1>4. QED BY <1>1, <1>3, BackedStep

\* A goroutine returns without release: its transaction stays forwarded.
LEMMA BackedLeft ==
  ASSUME TypeOK, TypeOK', HoldInv, HoldInv', Backed, NEW c \in Clients,
         client[c].at \in {"enqueue", "verify"}, client[c].node \in Nodes,
         client[c].from \in Users, Return(c), UNCHANGED <<locked, wrapped, txs>>
  PROVE  Backed'
<1>1. \A d \in Clients \ {c} : client'[d] = client[d] BY ReturnIs
<1>2. PICK t \in Int : t = Total(c) BY TotalType, RegionAssumption DEF Sums
<1>3. t = Plus(client[c].amount, CrossFee(client[c].amount)) BY <1>2 DEF Total
<1>4. ASSUME NEW g \in Nodes, NEW u \in Users
      PROVE  locked'[g][u] = locked[g][u] + (Mine(c, g, u)' - Mine(c, g, u))
                                          + (FwdSum(g, u)' - FwdSum(g, u))
  <2>1. FwdSum(g, u)' = IF g = client[c].node /\ u = client[c].from
                        THEN FwdSum(g, u) + t ELSE FwdSum(g, u)
    BY <1>3, FwdLeft DEF Holding
  <2>2. FwdSum(g, u) \in Int BY FwdType
  <2>3. Mine(c, g, u) = IF g = client[c].node /\ u = client[c].from THEN t ELSE 0
    BY <1>2 DEF Mine, LockSteps
  <2>4. Mine(c, g, u)' = 0 BY ReturnIs DEF Mine, LockSteps
  <2>5. locked[g][u] \in Int BY RegionAssumption DEF TypeOK, Sums
  <2>6. QED BY <2>1, <2>2, <2>3, <2>4, <2>5
<1>5. QED BY <1>1, <1>4, BackedStep

-----------------------------------------------------------------------------
LEMMA BackedClient ==
  ASSUME TypeOK, TypeOK', ClientsOK, HoldInv, HoldInv', OnlyMembers, Backed,
         NEW c \in Clients, ClientStep(c)
  PROVE  Backed'
<1>0. /\ client[c].at # "idle" => client[c].node \in Nodes /\ client[c].from \in Users
      /\ HoldOK(c)
  BY DEF ClientsOK, ClientOK, HoldInv
<1>e. ASSUME client[c].at \in Holding, Return(c), NEW s \in {"failed", "confirmed"},
             txs' = [txs EXCEPT ![client[c].id].status = s]
      PROVE  /\ DOMAIN txs' = DOMAIN txs
             /\ \A id \in DOMAIN txs : txs'[id].from = txs[id].from
                                       /\ txs'[id].amount = txs[id].amount
             /\ \A id \in DOMAIN txs : Open(id)' <=> Open(id)
  <2>1. Holds(c) BY <1>0, <1>e DEF HoldOK
  <2>2. PICK k : k = client[c].id OBVIOUS
  <2>3. client'[c].id = None /\ \A d \in Clients \ {c} : client'[d] = client[d]
    BY <1>e, ReturnIs
  <2>4. \A id \in DOMAIN txs : txs[id] \in Tx /\ id # None BY NoneIsNoID DEF TypeOK
  <2>5. /\ DOMAIN txs' = DOMAIN txs /\ \A id \in DOMAIN txs \ {k} : txs'[id] = txs[id]
        /\ k \in DOMAIN txs /\ txs'[k].status = s
        /\ txs'[k].from = txs[k].from /\ txs'[k].amount = txs[k].amount
    BY <1>e, <2>1, <2>2, <2>4 DEF Holds, Tx
  <2>6. ~Open(k)' /\ ~Open(k) BY <2>2, <2>5 DEF Open
  <2>7. \A id \in DOMAIN txs \ {k} : Open(id)' <=> Open(id)
    BY <2>2, <2>3, <2>4, <2>5 DEF Open
  <2>8. QED BY <2>5, <2>6, <2>7
<1> USE DEF At, Steps, LockSteps, Holding, ledger, history, money
<1>1. CASE TakeChain(c) BY <1>1, BackedGoto DEF TakeChain
<1>2. CASE LocalLock(c)
  <2>1. CASE CanPay(client[c].node, client[c].from, Total(c))
    BY <1>0, <1>2, <2>1, GotoIs, BackedLock DEF LocalLock, Total, Plus, LocalFee
  <2>2. CASE ~CanPay(client[c].node, client[c].from, Total(c))
    BY <1>2, <2>2, BackedGoto DEF LocalLock
  <2>3. QED BY <2>1, <2>2
<1>3. CASE LocalUnlock(c)
  <2>1. CASE Unlocks(client[c].node, client[c].from, Total(c)) BY <1>0, <1>3, <2>1, BackedUnlock DEF LocalUnlock
  <2>2. CASE ~Unlocks(client[c].node, client[c].from, Total(c))
    BY <1>0, <1>3, <2>2, ReturnIs, BackedLost DEF LocalUnlock, HoldOK, Open
  <2>3. QED BY <2>1, <2>2
<1>4. CASE LocalCredit(c) BY <1>4, BackedGoto DEF LocalCredit
<1>5. CASE ReadEarnings(c)
  <2>1. client' = [client EXCEPT ![c] =
                     [client[c] EXCEPT !.at = "append", !.read = earnings[client[c].node]]]
    BY <1>5 DEF ReadEarnings, TypeOK
  <2>2. client[c] \in Client /\ client[c].at = "fee" /\ UNCHANGED <<locked, wrapped, txs>>
    BY <1>5 DEF TypeOK, ReadEarnings
  <2>3. client'[c].at = "append" /\ client'[c].id = client[c].id
    BY <2>1, <2>2 DEF TypeOK, Client
  <2>4. \A d \in Clients \ {c} : client'[d] = client[d] BY <2>1 DEF TypeOK
  <2>5. \A g, u : Mine(c, g, u)' = Mine(c, g, u) BY <2>2, <2>3, MineSame
  <2>6. QED BY <2>2, <2>3, <2>4, <2>5, BackedCalm
<1>6. CASE AppendLocal(c)
  <2>1. PICK id, tx :
          /\ id = ID(client[c].node, txSeq[client[c].node]) /\ tx.status = "confirmed"
          /\ Record(id, tx) /\ client[c].at = "append" /\ Return(c)
          /\ UNCHANGED <<locked, wrapped>>
    BY <1>6 DEF AppendLocal
  <2>2. id \notin DOMAIN txs BY <1>0, <2>1 DEF HoldOK, Taken, LocalSteps
  <2>3. /\ DOMAIN txs' = DOMAIN txs \cup {id} /\ txs'[id] = tx
        /\ \A i \in DOMAIN txs : txs'[i] = txs[i]
    BY <2>1, <2>2, Recorded
  <2>4. /\ client'[c].at = "idle" /\ client'[c].id = client[c].id
        /\ \A d \in Clients \ {c} : client'[d] = client[d]
    BY <1>0, <2>1, ReturnIs DEF HoldOK
  <2>5. \A i \in DOMAIN txs : Open(i)' <=> Open(i) BY <2>3, <2>4 DEF Open
  <2>6. ~Open(id)' BY <2>1, <2>3 DEF Open
  <2>7. \A g, u : Mine(c, g, u)' = Mine(c, g, u) BY <2>1, <2>4, MineSame
  <2>8. QED BY <2>1, <2>3, <2>4, <2>5, <2>6, <2>7, BackedQuiet
<1>7. CASE CrossLock(c)
  <2>1. CASE CanPay(client[c].node, client[c].from, Total(c))
    <3>1. /\ client[c].at = "cross" /\ Goto(c, "number") /\ txs' = txs
          /\ LockBalance(client[c].node, client[c].from, Total(c))
      BY <1>7, <2>1 DEF CrossLock
    <3>2. client'[c].at = "number" /\ client'[c].amount = client[c].amount BY <3>1, GotoIs
    <3>3. Total(c)' = Total(c) BY <3>1, <3>2 DEF Total, Plus, CrossFee
    <3>4. QED BY <1>0, <3>1, <3>3, BackedLock
  <2>2. CASE ~CanPay(client[c].node, client[c].from, Total(c))
    BY <1>7, <2>2, BackedGoto DEF CrossLock
  <2>3. QED BY <2>1, <2>2
<1>8. CASE CrossNumber(c)
  <2>1. PICK id, tx :
          /\ id = ID(client[c].node, txSeq[client[c].node] + 1)
          /\ Record(id, tx) /\ client[c].at = "number"
          /\ client' = [client EXCEPT ![c].at = "enqueue", ![c].id = id]
          /\ UNCHANGED <<locked, wrapped>>
    BY <1>8 DEF CrossNumber
  <2>2. id \notin DOMAIN txs BY <1>0, <2>1, NumberIsNew
  <2>3. /\ DOMAIN txs' = DOMAIN txs \cup {id} /\ \A i \in DOMAIN txs : txs'[i] = txs[i]
    BY <2>1, <2>2, Recorded
  <2>4. /\ client'[c].at = "enqueue" /\ client'[c].id = id
        /\ client'[c].node = client[c].node /\ client'[c].from = client[c].from
        /\ client'[c].amount = client[c].amount
        /\ \A d \in Clients \ {c} : client'[d] = client[d] BY <2>1 DEF TypeOK, Client
  <2>5. client[c].id = None BY <1>0, <2>1 DEF HoldOK
  <2>6. \A i \in DOMAIN txs : Open(i)' <=> Open(i)
    BY <2>2, <2>3, <2>4, <2>5, NoneIsNoID DEF Open
  <2>7. ~Open(id)' BY <2>4 DEF Open
  <2>8. \A g, u : Mine(c, g, u)' = Mine(c, g, u) BY <2>1, <2>4, MineSame
  <2>9. QED BY <2>1, <2>3, <2>4, <2>6, <2>7, <2>8, BackedQuiet
<1>9. CASE Enqueue(c) BY <1>0, <1>9, BackedLeft, BackedGoto DEF Enqueue
<1>10. CASE VerifyCrossRegion(c) BY <1>0, <1>10, BackedGoto, BackedLeft DEF VerifyCrossRegion
<1>11. CASE ReleaseLock(c)
  <2>1. CASE Unlocks(client[c].node, client[c].from, Total(c)) BY <1>0, <1>11, <2>1, BackedUnlock DEF ReleaseLock
  <2>2. CASE ~Unlocks(client[c].node, client[c].from, Total(c))
    BY <1>0, <1>11, <2>2, <1>e, BackedLost DEF ReleaseLock
  <2>3. QED BY <2>1, <2>2
<1>12. CASE PayRecipient(c) BY <1>12, BackedGoto DEF PayRecipient
<1>13. CASE EarnHere(c) BY <1>13, BackedGoto DEF EarnHere
<1>14. CASE EarnThere(c) BY <1>14, ReturnIs, MineSame, <1>e, BackedQuiet DEF EarnThere
<1>15. QED
  BY <1>1, <1>2, <1>3, <1>4, <1>5, <1>6, <1>7, <1>8, <1>9, <1>10, <1>11, <1>12,
     <1>13, <1>14 DEF ClientStep

\* The steps that are not a goroutine's.
LEMMA BackedStays ==
  ASSUME Backed, UNCHANGED <<locked, wrapped, txs, client>> PROVE Backed'
BY DEF Backed, BackedAt, LockSum, FwdSum, Locking, Forwarded, ForwardedCost, Total,
       Plus, LocalFee, CrossFee

LEMMA BackedNext ==
  ASSUME TypeOK, TypeOK', ClientsOK, HoldInv, HoldInv', OnlyMembers, Backed, [Next]_vars
  PROVE  Backed'
<1>1. CASE UNCHANGED vars BY <1>1, BackedStays DEF vars, money, history, ledger
<1>2. ASSUME NEW g \in Nodes, NEW u \in Users, NEW b \in Balances, AddMember(g, u, b)
      PROVE  Backed'
  <2>1. UNCHANGED <<wrapped, txs, client>> BY <1>2 DEF AddMember, ledger
  <2>2. locked' = locked BY <1>2 DEF AddMember, OnlyMembers, TypeOK
  <2>3. QED BY <2>1, <2>2, BackedStays
<1>3. ASSUME NEW c \in Clients, NEW g \in Origins, NEW u \in Users, NEW v \in Users,
             NEW a \in Amounts, Submit(c, g, u, v, a)
      PROVE  Backed'
  <2>1. client[c].at = "idle" /\ UNCHANGED <<locked, wrapped, txs>>
    BY <1>3 DEF Submit, At, money, history, ledger
  <2>2. PICK step \in {"local", "cross"}, dest \in Nodes \cup {None} :
          client' = [client EXCEPT ![c] = Task(step, g, dest, u, v, a)]
    BY <1>3, RegionAssumption DEF Submit
  <2>3. /\ client'[c].at = step /\ client'[c].id = None
        /\ \A d \in Clients \ {c} : client'[d] = client[d]
    BY <2>2 DEF TypeOK, Task
  <2>4. client[c].id = None BY <2>1 DEF HoldInv, HoldOK, Holding
  <2>5. \A h, w : Mine(c, h, w)' = Mine(c, h, w) BY <2>1, <2>3, MineSame DEF LockSteps
  <2>6. QED BY <2>1, <2>3, <2>4, <2>5, BackedCalm
<1>4. ASSUME NEW c \in Clients, ClientStep(c) PROVE Backed' BY <1>4, BackedClient
<1>5. ASSUME NEW g \in Nodes, ProcessTx(g) PROVE Backed'
  <2>1. /\ UNCHANGED <<locked, wrapped, client>>
        /\ txs' = [txs EXCEPT ![Head(queue[g])].seq = txSeq[g] + 1]
    BY <1>5 DEF ProcessTx, money, history
  <2>2. /\ DOMAIN txs' = DOMAIN txs
        /\ \A i \in DOMAIN txs : /\ txs'[i].from = txs[i].from /\ txs'[i].amount = txs[i].amount
                                 /\ txs'[i].status = txs[i].status BY <2>1 DEF TypeOK, Tx
  <2>3. \A i \in DOMAIN txs : Open(i)' <=> Open(i) BY <2>1, <2>2 DEF Open
  <2>4. ASSUME NEW h \in Nodes, NEW u \in Users PROVE BackedAt(h, u)'
    BY <2>1, <2>2, <2>3, FwdSame DEF LockSum, Locking, Total, Plus, LocalFee, CrossFee, Backed, BackedAt
  <2>5. QED BY <2>4 DEF Backed
<1>6. ASSUME NEW g \in Nodes, MonthlySettle(g) \/ BeginSave(g) \/ EndSave(g)
      PROVE  Backed'
  BY <1>6, BackedStays DEF MonthlySettle, BeginSave, EndSave, money, history, ledger
<1>7. ASSUME Restart PROVE Backed'
  <2>1. /\ DOMAIN txs' = {} /\ \A c \in Clients : client'[c].at = "idle"
        /\ \A h \in Nodes, u \in Users : locked'[h][u] = 0
    BY <1>7 DEF Restart, Idle, Task
  <2>2. ASSUME NEW h \in Nodes, NEW u \in Users PROVE BackedAt(h, u)'
    <3>1. Locking(h, u)' = {} /\ Forwarded(h, u)' = {}
      BY <2>1 DEF Locking, Forwarded
    <3>2. LockSum(h, u)' = 0 /\ FwdSum(h, u)' = 0 BY <3>1, SumEmpty DEF LockSum, FwdSum
    <3>3. QED BY <2>1, <3>2 DEF BackedAt
  <2>3. QED BY <2>2 DEF Backed
<1>8. QED BY <1>1, <1>2, <1>3, <1>4, <1>5, <1>6, <1>7 DEF Next

LEMMA BackedInit == Init => Backed
<1>. SUFFICES ASSUME Init, NEW g \in Nodes, NEW u \in Users PROVE BackedAt(g, u) BY DEF Backed
<1>1. DOMAIN txs = {} /\ (\A c \in Clients : client[c].at = "idle") /\ locked[g][u] = 0
  BY DEF Init, Idle, Task
<1>2. Locking(g, u) = {} /\ Forwarded(g, u) = {} BY <1>1 DEF Locking, Forwarded
<1>3. LockSum(g, u) = 0 /\ FwdSum(g, u) = 0 BY <1>2, SumEmpty DEF LockSum, FwdSum
<1>4. QED BY <1>1, <1>3 DEF BackedAt

(* LockedAmt of node.go is what the member's open transactions hold.       *)
THEOREM LocksAreBacked == Spec => []LockedBacked
<1>1. Spec => []HoldInv
  <2>1. Inv /\ HoldInv /\ [Next]_vars => HoldInv' BY HoldNext DEF Inv
  <2>2. QED BY <2>1, HoldInit, Inductive, PTL DEF Spec
<1>2. Inv /\ Inv' /\ DriftInv /\ HoldInv /\ HoldInv' /\ Backed /\ [Next]_vars => Backed'
  BY BackedNext DEF Inv, DriftInv
<1>3. Spec => []Backed BY <1>1, <1>2, BackedInit, Inductive, DriftInductive, PTL DEF Spec
<1>4. Backed => LockedBacked BY DEF Backed, BackedAt, LockedBacked, LockSum, FwdSum
<1>5. QED BY <1>3, <1>4, PTL

-----------------------------------------------------------------------------
(* Fees.  What ReadEarnings read is still there when AppendLocal writes.    *)
Young == settled = 0 /\ fees < W
FeesInv == Young =>
  /\ Earned = fees
  /\ \A c \in Clients : client[c].at = "append" => client[c].read = earnings[client[c].node]

LEMMA PlusExact ==
  ASSUME NEW a \in Nat, NEW b \in Nat, a + b < W PROVE Plus(a, b) = a + b
BY RegionAssumption DEF Plus

LEMMA EarnedParts ==
  ASSUME TypeOK
  PROVE  /\ SumFunctionOnSet(earnings, Nodes) \in Nat
         /\ SumFunctionOnSet(crossEarnings, Nodes) \in Nat
         /\ \A g \in Nodes : /\ earnings[g] \in Nat /\ crossEarnings[g] \in Nat
                             /\ earnings[g] <= SumFunctionOnSet(earnings, Nodes)
                             /\ crossEarnings[g] <= SumFunctionOnSet(crossEarnings, Nodes)
BY RegionAssumption, SumNat, SumBounds DEF TypeOK, Sums

\* A node earns something that still fits.
LEMMA EarnedAdds ==
  ASSUME TypeOK, TypeOK', NEW g \in Nodes, NEW a \in Nat, Earned + a < W,
         \/ earnings' = [earnings EXCEPT ![g] = Plus(earnings[g], a)] /\ UNCHANGED crossEarnings
         \/ crossEarnings' = [crossEarnings EXCEPT ![g] = Plus(@, a)] /\ UNCHANGED earnings
  PROVE  Earned' = Earned + a
<1>1. PICK e, x, ee, xx :
        e = earnings /\ x = crossEarnings /\ ee = earnings' /\ xx = crossEarnings'
  OBVIOUS
<1>2. PICK E \in Nat, X \in Nat :
        E = SumFunctionOnSet(e, Nodes) /\ X = SumFunctionOnSet(x, Nodes)
  BY <1>1, EarnedParts
<1>3. /\ e[g] \in Nat /\ x[g] \in Nat /\ e[g] <= E /\ x[g] <= X
      /\ \A h \in Nodes : e[h] \in Int /\ x[h] \in Int
  BY <1>1, <1>2, EarnedParts
<1>4. Earned = E + X BY <1>1, <1>2 DEF Earned
<1>5. Plus(e[g], a) = e[g] + a /\ Plus(x[g], a) = x[g] + a
  <2>1. E + X + a < W /\ W \in Nat BY <1>4, RegionAssumption
  <2>2. e[g] + a < W /\ x[g] + a < W BY <1>3, <2>1
  <2>3. QED BY <1>3, <2>2, PlusExact
<1>6. Earned' = SumFunctionOnSet(ee, Nodes) + SumFunctionOnSet(xx, Nodes) BY <1>1 DEF Earned
<1>7. CASE earnings' = [earnings EXCEPT ![g] = Plus(earnings[g], a)] /\ UNCHANGED crossEarnings
  <2>1. ee[g] = e[g] + a /\ xx = x /\ \A h \in Nodes \ {g} : ee[h] = e[h]
    BY <1>1, <1>5, <1>7 DEF TypeOK
  <2>2. ee[g] \in Int BY <1>3, <2>1
  <2>3. SumFunctionOnSet(ee, Nodes) = SumFunctionOnSet(e, Nodes) - e[g] + ee[g]
    BY <1>3, <2>1, <2>2, SumChange, RegionAssumption
  <2>4. QED BY <1>2, <1>3, <1>4, <1>6, <2>1, <2>3
<1>8. CASE crossEarnings' = [crossEarnings EXCEPT ![g] = Plus(@, a)] /\ UNCHANGED earnings
  <2>1. xx[g] = x[g] + a /\ ee = e /\ \A h \in Nodes \ {g} : xx[h] = x[h]
    BY <1>1, <1>5, <1>8 DEF TypeOK
  <2>2. xx[g] \in Int BY <1>3, <2>1
  <2>3. SumFunctionOnSet(xx, Nodes) = SumFunctionOnSet(x, Nodes) - x[g] + xx[g]
    BY <1>3, <2>1, <2>2, SumChange, RegionAssumption
  <2>4. QED BY <1>2, <1>3, <1>4, <1>6, <2>1, <2>3
<1>9. QED BY <1>7, <1>8

LEMMA FeesCalm ==
  ASSUME TypeOK, FeesInv, UNCHANGED <<earnings, crossEarnings, fees, settled>>,
         \A c \in Clients : client'[c].at = "append" =>
           /\ client[c].at = "append" /\ client'[c].read = client[c].read
           /\ client'[c].node = client[c].node
  PROVE  FeesInv'
BY DEF Earned, FeesInv, Young

LEMMA FeesGoto ==
  ASSUME TypeOK, FeesInv, UNCHANGED <<earnings, crossEarnings, fees, settled>>,
         NEW c \in Clients, Return(c) \/ \E step \in Steps \ {"append"} : Goto(c, step)
  PROVE  FeesInv'
<1>1. client'[c].at # "append" /\ \A d \in Clients \ {c} : client'[d] = client[d]
  <2>1. CASE Return(c) BY <2>1, ReturnIs
  <2>2. ASSUME NEW step \in Steps \ {"append"}, Goto(c, step)
        PROVE  client'[c].at # "append" /\ \A d \in Clients \ {c} : client'[d] = client[d]
    BY <2>2, GotoIs DEF Goto, TypeOK
  <2>3. QED BY <2>1, <2>2
<1>2. QED BY <1>1, FeesCalm

LEMMA FeesClient ==
  ASSUME TypeOK, TypeOK', ClientsOK, MoneyTypes, FeesInv, NEW c \in Clients, ClientStep(c)
  PROVE  FeesInv'
<1>0. /\ client[c].at # "idle" => client[c].node \in Nodes
      /\ client[c].at \in {"verify", "release", "pay", "fee1", "fee2"} =>
           client[c].dest \in Nodes
      /\ client[c].at \in LocalSteps => chainMu[client[c].node] = c
      /\ client[c].amount \in Sums BY DEF ClientsOK, TypeOK, ClientOK, Client, LocalSteps
<1>f. PICK lf \in Nat, cf \in Nat, hf \in Nat, oh \in Nat :
        /\ lf = LocalFee(client[c].amount) /\ cf = CrossFee(client[c].amount)
        /\ hf = HalfFee(client[c].amount) /\ oh = OtherHalf(client[c].amount) /\ hf + oh = cf
  BY <1>0, FeeType, HalvesType
<1>m. fees \in Nat BY DEF MoneyTypes
<1> USE DEF At, Steps, history, money, ledger
<1>1. CASE TakeChain(c) BY <1>1, FeesGoto DEF TakeChain
<1>2. CASE LocalLock(c) BY <1>2, FeesGoto DEF LocalLock
<1>3. CASE LocalUnlock(c) BY <1>3, FeesGoto DEF LocalUnlock
<1>4. CASE LocalCredit(c) BY <1>4, FeesGoto DEF LocalCredit
<1>5. CASE ReadEarnings(c)
  <2>1. client' = [client EXCEPT ![c] =
                     [client[c] EXCEPT !.at = "append", !.read = earnings[client[c].node]]]
    BY <1>5 DEF ReadEarnings, TypeOK
  <2>2. client[c] \in Client /\ UNCHANGED <<earnings, crossEarnings, fees, settled>>
    BY <1>5 DEF TypeOK, ReadEarnings
  <2>3. client'[c].node = client[c].node /\ client'[c].read = earnings[client[c].node]
    BY <2>1, <2>2 DEF TypeOK, Client
  <2>4. \A d \in Clients \ {c} : client'[d] = client[d] BY <2>1 DEF TypeOK
  <2>5. Earned' = Earned BY <2>2 DEF Earned
  <2>6. QED BY <2>2, <2>3, <2>4, <2>5 DEF FeesInv, Young
<1>6. CASE AppendLocal(c)
  <2>1. PICK g \in Nodes : g = client[c].node /\ chainMu[g] = c
    BY <1>0, <1>6 DEF AppendLocal, LocalSteps
  <2>2. /\ client[c].at = "append" /\ Return(c) /\ fees' = fees + lf
        /\ UNCHANGED <<crossEarnings, settled>>
        /\ earnings' = [earnings EXCEPT ![g] = Plus(client[c].read, lf)]
    BY <1>6, <1>f, <2>1 DEF AppendLocal
  <2>3. client'[c].at = "idle" /\ \A d \in Clients \ {c} : client'[d] = client[d]
    BY <2>2, ReturnIs
  <2>4. SUFFICES ASSUME Young'
                 PROVE  /\ Earned' = fees'
                        /\ \A d \in Clients : client'[d].at = "append" =>
                             client'[d].read = earnings'[client'[d].node]
    BY DEF FeesInv
  <2>5. Young BY <1>m, <2>2, <2>4, RegionAssumption DEF Young
  <2>6. client[c].read = earnings[g] /\ Earned = fees BY <2>1, <2>2, <2>5 DEF FeesInv
  <2>7. Earned + lf < W BY <2>2, <2>4, <2>6 DEF Young
  <2>8. Earned' = Earned + lf BY <2>1, <2>2, <2>6, <2>7, EarnedAdds
  <2>9. ASSUME NEW d \in Clients \ {c}, client[d].at = "append"
        PROVE  client[d].read = earnings'[client[d].node]
    BY <2>1, <2>2, <2>5, <2>9, OnlyHolder DEF Taken, LocalSteps, FeesInv, TypeOK
  <2>10. QED BY <2>2, <2>3, <2>6, <2>8, <2>9
<1>7. CASE CrossLock(c) BY <1>7, FeesGoto DEF CrossLock
<1>8. CASE CrossNumber(c)
  <2>1. client' = [client EXCEPT ![c] =
                     [client[c] EXCEPT !.at = "enqueue",
                                       !.id = ID(client[c].node, txSeq[client[c].node] + 1)]]
    BY <1>8 DEF CrossNumber, TypeOK
  <2>2. client[c] \in Client /\ UNCHANGED <<earnings, crossEarnings, fees, settled>>
    BY <1>8 DEF TypeOK, CrossNumber
  <2>3. client'[c].at = "enqueue" BY <2>1, <2>2 DEF TypeOK, Client
  <2>4. \A d \in Clients \ {c} : client'[d] = client[d] BY <2>1 DEF TypeOK
  <2>5. QED BY <2>2, <2>3, <2>4, FeesCalm
<1>9. CASE Enqueue(c) BY <1>9, FeesGoto DEF Enqueue
<1>10. CASE VerifyCrossRegion(c) BY <1>10, FeesGoto DEF VerifyCrossRegion
<1>11. CASE ReleaseLock(c) BY <1>11, FeesGoto DEF ReleaseLock
<1>12. CASE PayRecipient(c) BY <1>12, FeesGoto DEF PayRecipient
<1>x. ASSUME NEW g \in Nodes, NEW a \in Nat, client'[c].at # "append",
             \A d \in Clients \ {c} : client'[d] = client[d],
             fees' = fees + a, UNCHANGED <<earnings, settled>>,
             crossEarnings' = [crossEarnings EXCEPT ![g] = Plus(@, a)]
      PROVE  FeesInv'
  <2>1. SUFFICES ASSUME Young'
                 PROVE  /\ Earned' = fees'
                        /\ \A d \in Clients : client'[d].at = "append" =>
                             client'[d].read = earnings'[client'[d].node]
    BY DEF FeesInv
  <2>2. Young BY <1>m, <1>x, <2>1, RegionAssumption DEF Young
  <2>3. Earned = fees BY <2>2 DEF FeesInv
  <2>4. Earned + a < W BY <1>x, <2>1, <2>3 DEF Young
  <2>5. Earned' = Earned + a BY <1>x, <2>4, EarnedAdds
  <2>6. QED BY <1>x, <2>2, <2>3, <2>5 DEF FeesInv
<1>13. CASE EarnHere(c)
  <2>1. /\ client[c].at = "fee1" /\ Goto(c, "fee2") /\ fees' = fees + hf
        /\ crossEarnings' = [crossEarnings EXCEPT ![client[c].node] = Plus(@, hf)]
        /\ UNCHANGED <<earnings, settled>>
    BY <1>13, <1>f DEF EarnHere
  <2>2. client'[c].at = "fee2" /\ \A d \in Clients \ {c} : client'[d] = client[d]
    BY <2>1, GotoIs DEF Goto, TypeOK
  <2>3. QED BY <1>0, <1>x, <2>1, <2>2
<1>14. CASE EarnThere(c)
  <2>1. /\ client[c].at = "fee2" /\ Return(c) /\ fees' = fees + cf - hf
        /\ crossEarnings' = [crossEarnings EXCEPT ![client[c].dest] = Plus(@, oh)]
        /\ UNCHANGED <<earnings, settled>>
    BY <1>14, <1>f DEF EarnThere
  <2>2. fees' = fees + oh BY <1>f, <1>m, <2>1
  <2>3. client'[c].at = "idle" /\ \A d \in Clients \ {c} : client'[d] = client[d]
    BY <2>1, ReturnIs
  <2>4. QED BY <1>0, <1>x, <2>1, <2>2, <2>3
<1>15. QED
  BY <1>1, <1>2, <1>3, <1>4, <1>5, <1>6, <1>7, <1>8, <1>9, <1>10, <1>11, <1>12,
     <1>13, <1>14 DEF ClientStep

LEMMA FeesNext ==
  ASSUME TypeOK, TypeOK', ClientsOK, MoneyTypes, FeesInv, [Next]_vars PROVE FeesInv'
<1> USE DEF history, money, ledger
<1>1. CASE UNCHANGED vars BY <1>1, FeesCalm DEF vars
<1>2. ASSUME NEW g \in Nodes, NEW u \in Users, NEW b \in Balances, AddMember(g, u, b)
      PROVE  FeesInv'
  BY <1>2, FeesCalm DEF AddMember
<1>3. ASSUME NEW c \in Clients, NEW g \in Origins, NEW u \in Users, NEW v \in Users,
             NEW a \in Amounts, Submit(c, g, u, v, a)
      PROVE  FeesInv'
  <2>1. UNCHANGED <<earnings, crossEarnings, fees, settled>> BY <1>3 DEF Submit
  <2>2. PICK step \in {"local", "cross"}, dest \in Nodes \cup {None} :
          client' = [client EXCEPT ![c] = Task(step, g, dest, u, v, a)]
    BY <1>3, RegionAssumption DEF Submit
  <2>3. client'[c].at = step /\ \A d \in Clients \ {c} : client'[d] = client[d]
    BY <2>2 DEF TypeOK, Task
  <2>4. QED BY <2>1, <2>3, FeesCalm
<1>4. ASSUME NEW c \in Clients, ClientStep(c) PROVE FeesInv' BY <1>4, FeesClient
<1>5. ASSUME NEW g \in Nodes, ProcessTx(g) \/ BeginSave(g) \/ EndSave(g)
      PROVE  FeesInv'
  BY <1>5, FeesCalm DEF ProcessTx, BeginSave, EndSave
<1>6. ASSUME NEW g \in Nodes, MonthlySettle(g) PROVE FeesInv'
  <2>1. /\ UNCHANGED <<fees, client>> /\ settled' = settled + Plus(earnings[g], crossEarnings[g])
        /\ earnings' = [earnings EXCEPT ![g] = 0]
        /\ crossEarnings' = [crossEarnings EXCEPT ![g] = 0]
    BY <1>6 DEF MonthlySettle
  <2>2. PICK e \in Nat, x \in Nat, E \in Nat, X \in Nat :
          /\ e = earnings[g] /\ x = crossEarnings[g] /\ e <= E /\ x <= X
          /\ E = SumFunctionOnSet(earnings, Nodes) /\ X = SumFunctionOnSet(crossEarnings, Nodes)
    BY EarnedParts
  <2>3. Plus(e, x) \in Nat
    <3>1. Plus(e, x) \in Sums BY <2>2, PlusType
    <3>2. QED BY <3>1, RegionAssumption DEF Sums
  <2>4. SUFFICES ASSUME Young'
                 PROVE  UNCHANGED <<earnings, crossEarnings>> /\ settled' = settled
    BY <2>1, FeesCalm DEF FeesInv
  <2>5. Young /\ Plus(e, x) = 0 BY <2>1, <2>2, <2>3, <2>4 DEF Young, MoneyTypes
  <2>6. E + X = fees /\ fees < W BY <2>2, <2>5 DEF FeesInv, Earned, Young
  <2>7. e + x < W BY <2>2, <2>6, RegionAssumption
  <2>8. e + x = 0 BY <2>5, <2>7, PlusExact
  <2>9. e = 0 /\ x = 0 BY <2>2, <2>8
  <2>10. UNCHANGED <<earnings, crossEarnings>> BY <2>1, <2>2, <2>9 DEF TypeOK
  <2>11. settled' = settled BY <2>4, <2>5 DEF Young
  <2>12. QED BY <2>10, <2>11
<1>7. ASSUME Restart PROVE FeesInv' BY <1>7 DEF Restart, Idle, Task, FeesInv
<1>8. QED BY <1>1, <1>2, <1>3, <1>4, <1>5, <1>6, <1>7 DEF Next

LEMMA FeesInit == Init => FeesInv
<1>. SUFFICES ASSUME Init PROVE FeesInv OBVIOUS
<1>1. (\A g \in Nodes : earnings[g] = 0) /\ (\A g \in Nodes : crossEarnings[g] = 0)
      /\ \A c \in Clients : client[c].at = "idle"
  BY DEF Init, Idle, Task
<1>2. PICK e, x : e = earnings /\ x = crossEarnings OBVIOUS
<1>3. SumFunctionOnSet(e, Nodes) = 0 /\ SumFunctionOnSet(x, Nodes) = 0
  BY <1>1, <1>2, SumZero, RegionAssumption
<1>4. QED BY <1>1, <1>2, <1>3 DEF FeesInv, Earned, Init

(* The unlocked updates of Earnings lose no fee and count none twice.      *)
THEOREM FeesAreAccounted == Spec => []FeesAccounted
<1>1. Inv /\ Inv' /\ DriftInv /\ FeesInv /\ [Next]_vars => FeesInv'
  BY FeesNext DEF Inv, DriftInv
<1>2. FeesInv => FeesAccounted BY DEF FeesInv, Young, FeesAccounted
<1>3. QED BY <1>1, <1>2, FeesInit, Inductive, DriftInductive, PTL DEF Spec

(* Money, locks and fees agree in every interleaving of transactions,      *)
(* snapshots and a restart.                                                *)
THEOREM MoneyIsKept == Spec => []MoneyKept
BY MoneyIsConserved, LocksAreBacked, FeesAreAccounted, PTL DEF MoneyKept
=============================================================================
