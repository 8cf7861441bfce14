------------------------------- MODULE Chain --------------------------------
(***************************************************************************)
(* The block loop of app/chain.go and app/app.go over the mempool of       *)
(* app/mempool.go: goroutines in SubmitTx, the engine that ticks, one      *)
(* goroutine in RunChain, the process that may stop at any step, and the   *)
(* store that survives it.  The transactions are "repay" and "loan"; with  *)
(* no registered user the loops over users in the block hooks are empty.   *)
(***************************************************************************)
EXTENDS Integers, Sequences, FiniteSets

CONSTANTS Clients,    \* goroutines in SubmitTx
          Data,       \* transaction data: [bytes, amount, loan]
          Payloads,   \* what is submitted: [type, data]
          W,          \* 2^64 in the code
          MaxBatch,   \* what Drain is asked for (100)
          EventCap,   \* capacity of blockCh (10)
          HistoryCap, \* entries of txHistory (100)
          CacheCap, CacheKeep,  \* 10000 and 8000 of executedTxIDs
          MaxTx, MaxHeight, MaxStops  \* bounds of the model

Types == {"repay", "loan"}

ASSUME ChainAssumption ==
  /\ IsFiniteSet(Clients) /\ IsFiniteSet(Data)
  /\ \A d \in Data : d \in [bytes : Nat, amount : Nat, loan : Nat]
  /\ Payloads \subseteq [type : Types, data : Data]
  /\ W \in Nat \ {0} /\ MaxBatch \in Nat \ {0} /\ EventCap \in Nat \ {0}
  /\ HistoryCap \in Nat \ {0} /\ CacheCap \in Nat /\ CacheKeep \in 1..CacheCap
  /\ MaxTx \in Nat /\ MaxHeight \in Nat /\ MaxStops \in Nat

Parts == {"SalaryRelay", "SalaryRecord", "SeedLoanReserve", "BadDebtReserve",
          "Community", "TotalBalance"}

VARIABLES txs,      \* the Tx objects, in the order they entered the mempool
          mempool, client, history,
          pc,       \* where the block loop is; "down": no process
          batch, next, todo,
          events,   \* block events waiting in blockCh
          executed, \* executedTxIDs
          height,   \* currentHeight
          saved, pool, loans,  \* the store
          stops,    \* how often the process has stopped
          ran, forgot  \* history: executions, and IDs lost from executed

store == <<saved, pool, loans>>
inputs == <<txs, mempool, client, history>>
block == <<batch, next, todo>>
ghosts == <<ran, forgot>>
vars == <<inputs, pc, block, events, executed, height, store, stops, ghosts>>

Forgotten == [d \in Data |-> 0]
NewPool == [p \in Parts |-> 0]

Init ==
  /\ txs = <<>> /\ mempool = <<>> /\ history = <<>>
  /\ client = [c \in Clients |-> 0]
  /\ pc = "idle" /\ batch = <<>> /\ next = 1 /\ todo = {}
  /\ events = 0 /\ executed = {} /\ height = 0
  /\ saved = 0 /\ pool = NewPool /\ loans = <<>>
  /\ stops = 0 /\ ran = <<>> /\ forgot = Forgotten

Up == pc # "down"
Goto(step) == pc' = step
Last(s, n) == IF Len(s) > n THEN SubSeq(s, Len(s) - n + 1, Len(s)) ELSE s
\* The ID is the hash of the data: the same data has the same ID.
ID(n) == txs[n].data

-----------------------------------------------------------------------------
(* SubmitTx: the transaction enters the mempool, then the history.         *)
Submit(c, p) ==
  /\ Up /\ client[c] = 0 /\ Len(txs) < MaxTx
  /\ txs' = Append(txs, [type |-> p.type, data |-> p.data,
                         status |-> "pending", block |-> 0])
  /\ mempool' = Append(mempool, Len(txs) + 1)
  /\ client' = [client EXCEPT ![c] = Len(txs) + 1]
  /\ UNCHANGED <<history, pc, block, events, executed, height, store, stops,
                 ghosts>>

RecordTx(c) ==
  /\ Up /\ client[c] # 0
  /\ history' = Last(Append(history, client[c]), HistoryCap)
  /\ client' = [client EXCEPT ![c] = 0]
  /\ UNCHANGED <<txs, mempool, pc, block, events, executed, height, store,
                 stops, ghosts>>

\* Tick if the events were kept for a slow consumer.
TickKeepsEvents ==
  /\ Up /\ events <= EventCap
  /\ events' = events + 1
  /\ UNCHANGED <<inputs, pc, block, executed, height, store, stops, ghosts>>

(* The engine's loop: an event nobody has room for is dropped.             *)
Tick ==
  /\ Up
  /\ events' = IF events < EventCap THEN events + 1 ELSE events
  /\ UNCHANGED <<inputs, pc, block, executed, height, store, stops, ghosts>>

-----------------------------------------------------------------------------
\* GetOverdueLoans with the wrong status.
OverduePending == {i \in DOMAIN loans : loans[i].status = "pending" /\ loans[i].late}

Overdue == {i \in DOMAIN loans : loans[i].status = "active" /\ loans[i].late}

\* Heights are counted up to MaxHeight.
NextHeight == IF height < MaxHeight THEN height + 1 ELSE height

(* RunChain takes an event; BeginBlocker counts the block and lists the    *)
(* overdue loans, then marks them one by one.                              *)
BeginBlock ==
  /\ pc = "idle" /\ events > 0
  /\ events' = events - 1
  /\ height' = NextHeight
  /\ todo' = Overdue
  /\ Goto("begin")
  /\ UNCHANGED <<inputs, batch, next, executed, store, stops, ghosts>>

SetLoan(i, status) == loans' = [loans EXCEPT ![i].status = status]

DefaultLoan(i) ==
  /\ pc = "begin" /\ i \in todo
  /\ SetLoan(i, "defaulted")
  /\ todo' = todo \ {i}
  /\ UNCHANGED <<inputs, pc, batch, next, events, executed, height, saved,
                 pool, stops, ghosts>>

\* Drain if it took nothing from a pool larger than a batch.
DrainCountAll(n) == IF n > MaxBatch THEN 0 ELSE n

\* How many of n waiting transactions Drain takes.
DrainCount(n) == IF n > MaxBatch THEN MaxBatch ELSE n

\* Drain from the end that Submit appends to.
DrainNewest ==
  LET rest == Len(mempool) - DrainCount(Len(mempool)) IN
  /\ pc = "begin" /\ todo = {}
  /\ batch' = SubSeq(mempool, rest + 1, Len(mempool))
  /\ mempool' = SubSeq(mempool, 1, rest)
  /\ next' = 1
  /\ Goto("exec")
  /\ UNCHANGED <<txs, client, history, todo, events, executed, height, store,
                 stops, ghosts>>

Drain ==
  LET k == DrainCount(Len(mempool)) IN
  /\ pc = "begin" /\ todo = {}
  /\ batch' = SubSeq(mempool, 1, k)
  /\ mempool' = SubSeq(mempool, k + 1, Len(mempool))
  /\ next' = 1
  /\ Goto("exec")
  /\ UNCHANGED <<txs, client, history, todo, events, executed, height, store,
                 stops, ghosts>>

-----------------------------------------------------------------------------
\* A share of a fee, rounded up.
FeeRoundedUp(percent, amount) == ((amount * percent + 99) % W) \div 100

Fee(percent, amount) == ((amount * percent) % W) \div 100
\* CollectFees.
Share(part, amount) ==
  CASE part \in {"SalaryRelay", "SalaryRecord"} -> Fee(25, amount)
    [] part = "SeedLoanReserve" -> Fee(20, amount)
    [] part \in {"BadDebtReserve", "Community"} -> Fee(15, amount)
    [] part = "TotalBalance" -> amount
CollectFees(amount) ==
  pool' = [p \in Parts |-> (pool[p] + Share(p, amount)) % W]

\* The members of executedTxIDs that are left when one more is marked:
\* beyond the cap an arbitrary choice of CacheKeep.
Marked(id) ==
  LET all == executed \cup {id} IN
  IF Cardinality(all) <= CacheCap THEN {all}
  ELSE {s \in SUBSET all : Cardinality(s) = CacheKeep}

MarkTxExecuted(n) ==
  \E s \in Marked(ID(n)) :
    /\ executed' = s
    /\ forgot' = [d \in Data |-> IF d \in (executed \cup {ID(n)}) \ s
                                 THEN forgot[d] + 1 ELSE forgot[d]]
    /\ ran' = Append(ran, [tx |-> n, data |-> ID(n), block |-> height])

InHistory(n) == \E i \in DOMAIN history : history[i] = n
\* The replay guard if it asked the history.
IsTxReplayInHistory(n) ==
  \E m \in DOMAIN txs :
    InHistory(m) /\ txs[m].status = "confirmed" /\ ID(m) = ID(n)

IsTxReplay(n) == ID(n) \in executed

(* executeTx up to the first write of the store.  Done is where the loop   *)
(* goes on with the next transaction.                                      *)
Done == next' = next + 1 /\ Goto("exec")

SkipReplay ==
  /\ pc = "exec" /\ next <= Len(batch) /\ IsTxReplay(batch[next])
  /\ Done
  /\ UNCHANGED <<inputs, batch, todo, events, executed, height, store, stops,
                 ghosts>>

Executing(type) ==
  /\ pc = "exec" /\ next <= Len(batch) /\ ~IsTxReplay(batch[next])
  /\ txs[batch[next]].type = type

Repay ==
  LET d == ID(batch[next]) IN
  /\ Executing("repay")
  /\ MarkTxExecuted(batch[next])
  /\ IF d.bytes >= 40 THEN CollectFees(d.amount) ELSE UNCHANGED pool
  /\ IF d.bytes >= 72 THEN Goto("settle") /\ UNCHANGED next ELSE Done
  /\ UNCHANGED <<inputs, batch, todo, events, height, saved, loans, stops>>

\* A loan is stored under its whole ID, which has 45 bytes; the data of a
\* repayment has room for 32 of them.
LoanID(i) == [loan |-> i, bytes |-> 45]
LoanField(d) == [loan |-> d.loan, bytes |-> 32]

SettleLoan ==
  LET id == LoanField(ID(batch[next])) IN
  /\ pc = "settle"
  /\ loans' = [i \in DOMAIN loans |->
       IF LoanID(i) = id /\ loans[i].status = "active"
       THEN [loans[i] EXCEPT !.status = "settled"] ELSE loans[i]]
  /\ Done
  /\ UNCHANGED <<inputs, batch, todo, events, executed, height, saved, pool,
                 stops, ghosts>>

RequestLoan ==
  /\ Executing("loan") /\ ID(batch[next]).bytes >= 32
  /\ MarkTxExecuted(batch[next])
  /\ loans' = Append(loans, [status |-> "pending", late |-> FALSE])
  /\ Goto("approve")
  /\ UNCHANGED <<inputs, block, events, height, saved, pool, stops>>

ApproveLoan ==
  /\ pc = "approve"
  /\ SetLoan(Len(loans), "active")
  /\ Done
  /\ UNCHANGED <<inputs, batch, todo, events, executed, height, saved, pool,
                 stops, ghosts>>

-----------------------------------------------------------------------------
(* ConfirmTxs: every pending entry of the history with an ID of the batch. *)
InBatch(n) == \E i \in DOMAIN batch : ID(batch[i]) = ID(n)
\* ConfirmTxs without the comparison of IDs.
ConfirmsAll(n) == InHistory(n) /\ txs[n].status = "pending"

Confirms(n) == InHistory(n) /\ txs[n].status = "pending" /\ InBatch(n)

ConfirmTxs ==
  /\ pc = "exec" /\ next > Len(batch)
  /\ txs' = [n \in DOMAIN txs |->
       IF Confirms(n)
       THEN [txs[n] EXCEPT !.status = "confirmed", !.block = height]
       ELSE txs[n]]
  /\ Goto("end")
  /\ UNCHANGED <<mempool, client, history, block, events, executed, height,
                 store, stops, ghosts>>

\* EndBlocker without SetHeight.
EndBlockUnsaved ==
  /\ pc = "end"
  /\ batch' = <<>> /\ next' = 1
  /\ Goto("idle")
  /\ UNCHANGED <<inputs, todo, events, executed, height, store, stops, ghosts>>

\* EndBlocker: both keepers write the height under the same key.
EndBlock ==
  /\ pc = "end"
  /\ saved' = height
  /\ batch' = <<>> /\ next' = 1
  /\ Goto("idle")
  /\ UNCHANGED <<inputs, todo, events, executed, height, pool, loans,
                 stops, ghosts>>

(* Time passes the due date of a loan.                                     *)
FallDue(i) ==
  /\ i \in DOMAIN loans /\ ~loans[i].late
  /\ loans' = [loans EXCEPT ![i].late = TRUE]
  /\ UNCHANGED <<inputs, pc, block, events, executed, height, saved, pool,
                 stops, ghosts>>

-----------------------------------------------------------------------------
\* What a stopped process leaves: its memory is gone, with the marks of ids.
Down(ids) ==
  /\ pc' = "down" /\ stops' = stops + 1
  /\ mempool' = <<>> /\ history' = <<>>
  /\ client' = [c \in Clients |-> 0]
  /\ batch' = <<>> /\ next' = 1 /\ todo' = {}
  /\ events' = 0 /\ executed' = {}
  /\ forgot' = [d \in Data |-> IF d \in ids THEN forgot[d] + 1 ELSE forgot[d]]

Crash ==
  /\ Up /\ stops < MaxStops /\ Down(executed)
  /\ UNCHANGED <<txs, height, store, ran>>

\* A "loan" of less than 32 bytes panics after its ID was marked.
PanicLoan ==
  /\ Executing("loan") /\ ID(batch[next]).bytes < 32
  /\ Down(executed \cup {ID(batch[next])})
  /\ ran' = Append(ran, [tx |-> batch[next], data |-> ID(batch[next]),
                         block |-> height])
  /\ UNCHANGED <<txs, height, store>>

\* Shutdown writes the height; RunChain may be inside a block.
Shutdown ==
  /\ Up /\ stops < MaxStops /\ Down(executed)
  /\ saved' = height
  /\ UNCHANGED <<txs, height, pool, loans, ran>>

(* NewNekoApp and RunChain in a new process.                               *)
Restart ==
  /\ pc = "down"
  /\ pc' = "idle" /\ height' = saved
  /\ UNCHANGED <<inputs, block, events, executed, store, stops, ghosts>>

BlockStep ==
  \/ BeginBlock \/ Drain
  \/ SkipReplay \/ Repay \/ SettleLoan \/ RequestLoan \/ ApproveLoan \/ PanicLoan
  \/ ConfirmTxs \/ EndBlock
  \/ \E i \in todo : DefaultLoan(i)

Next ==
  \/ \E c \in Clients, p \in Payloads : Submit(c, p)
  \/ \E c \in Clients : RecordTx(c)
  \/ Tick \/ BlockStep
  \/ \E i \in DOMAIN loans : FallDue(i)
  \/ Crash \/ Shutdown \/ Restart

Spec == Init /\ [][Next]_vars

\* The engine ticks, the block loop goes on and SubmitTx returns; stops and
\* restarts are up to the environment.
Fairness ==
  /\ WF_vars(Tick) /\ WF_vars(BlockStep)
  /\ \A c \in Clients : WF_vars(RecordTx(c))

FairSpec == Spec /\ Fairness

-----------------------------------------------------------------------------
Tx == [type : Types, data : Data, status : {"pending", "confirmed"}, block : Nat]
Loan == [status : {"pending", "active", "settled", "defaulted"}, late : BOOLEAN]
Execution == [tx : Nat, data : Data, block : Nat]

TypeOK ==
  /\ txs \in Seq(Tx)
  /\ mempool \in Seq(DOMAIN txs) /\ history \in Seq(DOMAIN txs)
  /\ client \in [Clients -> DOMAIN txs \cup {0}]
  /\ pc \in {"idle", "begin", "exec", "settle", "approve", "end", "down"}
  /\ batch \in Seq(DOMAIN txs) /\ next \in 1..(Len(batch) + 1)
  /\ todo \subseteq DOMAIN loans
  /\ events \in 0..EventCap /\ executed \subseteq Data
  /\ height \in 0..MaxHeight /\ saved \in 0..MaxHeight
  /\ pool \in [Parts -> 0..(W - 1)] /\ loans \in Seq(Loan)
  /\ stops \in Nat /\ ran \in Seq(Execution) /\ forgot \in [Data -> Nat]

(* The replay guard of executeTx: a transaction is executed again only     *)
(* after its ID was lost, to an eviction or with the process.  Every       *)
(* execution is accounted for by a loss or by the ID that is still there.  *)
ExecutedOnce ==
  \A d \in Data : Cardinality({i \in DOMAIN ran : ran[i].data = d}) =
                     forgot[d] + (IF d \in executed THEN 1 ELSE 0)

(* Transactions are executed in the order they entered the mempool and     *)
(* each of them at most once, over blocks and over restarts.               *)
OrderKept ==
  \A i, j \in DOMAIN ran : i < j => ran[i].tx < ran[j].tx

(* What runs, runs once and in order, unless its ID was lost.              *)
RunsSound == ExecutedOnce /\ OrderKept

(* A transaction the history calls confirmed in a block was executed in    *)
(* that block or one before, itself or another one of the same ID: also    *)
(* one that still waits in the mempool.                                    *)
ConfirmedRan ==
  \A n \in DOMAIN txs : txs[n].status = "confirmed" =>
    \E i \in DOMAIN ran : ran[i].data = ID(n) /\ ran[i].block <= txs[n].block

(* "Persist the height in every block": a block that the history shows is  *)
(* in the stored height once it ends, so no restart counts it again.       *)
HistoryDurable ==
  pc # "end" => \A n \in DOMAIN txs :
    InHistory(n) /\ txs[n].status = "confirmed" => txs[n].block <= saved

(* What the history shows has happened and survives a restart.             *)
HistorySound == ConfirmedRan /\ HistoryDurable

Repayments == {i \in DOMAIN ran : txs[ran[i].tx].type = "repay"}
Allocated == pool["SalaryRelay"] + pool["SalaryRecord"] + pool["SeedLoanReserve"]
               + pool["BadDebtReserve"] + pool["Community"]

(* CollectFees divides what it takes in, and rounding keeps less than 5    *)
(* units of each repayment back, over crashes, replays and sums that wrap: *)
(* until a repayment comes whose amount, 8 bytes of the client's, wraps    *)
(* the product with its percentage.                                        *)
Divisible(i) == LET d == ID(ran[i].tx) IN d.bytes >= 40 => 25 * d.amount < W
PoolParts ==
  (\A i \in Repayments : Divisible(i)) =>
    (pool["TotalBalance"] - Allocated) % W <= 4 * Cardinality(Repayments)

InPool(n) == \E i \in DOMAIN mempool : mempool[i] = n

(* A transaction does not stay in the mempool while blocks are made.       *)
Handled == \A n \in 1..MaxTx : InPool(n) ~> ~InPool(n)

Late(i) == i \in DOMAIN loans /\ loans[i].status = "active" /\ loans[i].late

(* An overdue loan is marked as defaulted by a later block.                *)
LateDefaults == \A i \in 1..MaxTx : Late(i) ~> ~Late(i) \/ pc = "down"

(* Transactions leave the mempool and overdue loans are marked, though the *)
(* engine drops events and the process may stop and start again.           *)
BlocksProgress == Handled /\ LateDefaults

IsPending(n) == n \in DOMAIN txs /\ txs[n].status = "pending"

(* "ConfirmTxs marks the executed transactions as confirmed": no           *)
(* transaction stays pending for ever.                                     *)
PendingResolved ==
  \A n \in 1..MaxTx : IsPending(n) ~> ~IsPending(n) \/ pc = "down"
=============================================================================
