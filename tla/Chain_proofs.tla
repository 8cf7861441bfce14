---------------------------- MODULE Chain_proofs ----------------------------
(***************************************************************************)
(* What holds of the block loop for any submitters, transaction data and   *)
(* caps, and any number of blocks, crashes and restarts.                   *)
(***************************************************************************)
EXTENDS Chain, TLAPS, SequenceTheorems, FiniteSetTheorems

\* Where the block loop is in its batch, and what a stopped process has left.
Placed ==
  /\ pc \in {"settle", "approve"} => next <= Len(batch)
  /\ pc = "down" => /\ executed = {} /\ batch = <<>> /\ history = <<>>
                    /\ \A c \in Clients : client[c] = 0

\* The first transaction of the batch that has not been executed.
First == IF pc \in {"settle", "approve"} THEN next + 1 ELSE next

\* What was executed, what is left of the batch and what waits in the
\* mempool are in the order of submission.
Queued ==
  /\ \A i, j \in 1..Len(mempool) : i < j => mempool[i] < mempool[j]
  /\ \A i, j \in 1..Len(batch) : i < j => batch[i] < batch[j]
  /\ \A i \in 1..Len(batch), j \in 1..Len(mempool) : batch[i] < mempool[j]
  /\ \A i \in 1..Len(ran) : ran[i].tx \in 1..Len(txs)
  /\ \A i \in 1..Len(ran), j \in 1..Len(mempool) : ran[i].tx < mempool[j]
  /\ \A i \in 1..Len(ran), j \in 1..Len(batch) :
       First <= j => ran[i].tx < batch[j]

\* A marked ID was executed by this process, at a height not above its own.
RanHere(d) == \E i \in 1..Len(ran) : ran[i].data = d /\ ran[i].block <= height
Remembered ==
  /\ \A d \in executed : RanHere(d)
  /\ \A j \in 1..Len(batch) : j < First => RanHere(ID(batch[j]))

\* A transaction between Submit and RecordTx is in the history of nobody.
Unrecorded ==
  \A c \in Clients : client[c] # 0 =>
    /\ txs[client[c]].status = "pending" /\ ~InHistory(client[c])
    /\ \A d \in Clients : d # c => client[d] # client[c]

\* Blocks in the history are not above the height of the process.
HistoryBounded ==
  \A n \in DOMAIN txs :
    InHistory(n) /\ txs[n].status = "confirmed" => txs[n].block <= height

IInv == /\ TypeOK /\ Placed /\ ExecutedOnce /\ Queued /\ OrderKept /\ Remembered
        /\ ConfirmedRan /\ Unrecorded /\ HistoryBounded /\ HistoryDurable

-----------------------------------------------------------------------------
LEMMA AppendAt ==
  ASSUME NEW S, NEW s \in Seq(S), NEW x \in S
  PROVE  /\ Append(s, x) \in Seq(S)
         /\ Len(Append(s, x)) = Len(s) + 1 /\ Len(s) \in Nat
         /\ Append(s, x)[Len(s) + 1] = x
         /\ \A i \in 1..Len(s) : Append(s, x)[i] = s[i]
  OBVIOUS

LEMMA SeqGrows ==
  ASSUME NEW S, NEW T, S \subseteq T, NEW s \in Seq(S) PROVE s \in Seq(T)
  OBVIOUS

LEMMA SeqOfFunction ==
  ASSUME NEW S, NEW n \in Nat, NEW f \in [1..n -> S]
  PROVE  f \in Seq(S) /\ Len(f) = n
  OBVIOUS

LEMMA LastType ==
  ASSUME NEW S, NEW s \in Seq(S), NEW n \in Nat \ {0}
  PROVE  /\ Last(s, n) \in Seq(S)
         /\ \A i \in 1..Len(Last(s, n)) : \E j \in 1..Len(s) : Last(s, n)[i] = s[j]
<1>1. CASE Len(s) > n
  <2> DEFINE m == Len(s) - n + 1
  <2>1. Len(s) \in Nat /\ m \in Int /\ m > 0 BY <1>1
  <2>2. \A i \in m..Len(s) : s[i] \in S BY <2>1
  <2>3. /\ SubSeq(s, m, Len(s)) \in Seq(S) /\ Len(SubSeq(s, m, Len(s))) = Len(s) - m + 1
        /\ \A i \in 1..(Len(s) - m + 1) : SubSeq(s, m, Len(s))[i] = s[m + i - 1]
    BY <2>1, <2>2, <1>1, SubSeqProperties
  <2>4. \A i \in 1..(Len(s) - m + 1) : m + i - 1 \in 1..Len(s) BY <2>1
  <2>5. QED BY <1>1, <2>3, <2>4 DEF Last
<1>2. CASE ~(Len(s) > n) BY <1>2 DEF Last
<1>3. QED BY <1>1, <1>2

LEMMA FeeType ==
  ASSUME NEW k \in Nat, NEW a \in Nat PROVE Fee(k, a) \in Nat
BY ChainAssumption DEF Fee

LEMMA PoolType ==
  ASSUME NEW a \in Nat, pool \in [Parts -> 0..(W - 1)], CollectFees(a)
  PROVE  pool' \in [Parts -> 0..(W - 1)]
<1>1. \A p \in Parts : Share(p, a) \in Nat BY FeeType DEF Share, Parts
<1>2. \A p \in Parts : (pool[p] + Share(p, a)) % W \in 0..(W - 1)
  BY <1>1, ChainAssumption
<1>3. QED BY <1>2 DEF CollectFees

\* The transaction that is about to be executed.
LEMMA BatchType ==
  ASSUME TypeOK, next <= Len(batch)
  PROVE  /\ next \in 1..Len(batch) /\ batch[next] \in 1..Len(txs)
         /\ txs[batch[next]] \in Tx /\ ID(batch[next]) \in Data
         /\ ID(batch[next]).amount \in Nat /\ ID(batch[next]).bytes \in Nat
<1>1. /\ txs \in Seq(Tx) /\ batch \in Seq(1..Len(txs)) /\ next \in 1..Len(batch)
  BY DEF TypeOK
<1>2. batch[next] \in 1..Len(txs) BY <1>1
<1>3. txs[batch[next]] \in Tx BY <1>1, <1>2
<1>4. ID(batch[next]) \in Data BY <1>3 DEF Tx, ID
<1>5. ID(batch[next]) \in [bytes : Nat, amount : Nat, loan : Nat]
  BY <1>4, ChainAssumption
<1>6. QED BY <1>1, <1>2, <1>3, <1>4, <1>5

\* Marking an ID: what is left are IDs of data, and one execution is added.
LEMMA MarkType ==
  ASSUME TypeOK, next <= Len(batch), MarkTxExecuted(batch[next])
  PROVE  /\ executed' \subseteq Data /\ forgot' \in [Data -> Nat]
         /\ ran' \in Seq(Execution)
<1> DEFINE n == batch[next]
<1>1. n \in Nat /\ ID(n) \in Data BY BatchType
<1>2. executed \cup {ID(n)} \subseteq Data BY <1>1 DEF TypeOK
<1>3. \A s \in Marked(ID(n)) : s \subseteq Data BY <1>2 DEF Marked
<1>4. PICK s \in Marked(ID(n)) :
        /\ executed' = s
        /\ forgot' = [d \in Data |-> IF d \in (executed \cup {ID(n)}) \ s
                                     THEN forgot[d] + 1 ELSE forgot[d]]
        /\ ran' = Append(ran, [tx |-> n, data |-> ID(n), block |-> height])
  BY DEF MarkTxExecuted
<1>5. height \in Nat BY ChainAssumption DEF TypeOK
<1>6. [tx |-> n, data |-> ID(n), block |-> height] \in Execution
  BY <1>1, <1>5 DEF Execution
<1>7. ran' \in Seq(Execution) BY <1>4, <1>6, AppendAt DEF TypeOK
<1>8. forgot' \in [Data -> Nat] BY <1>4 DEF TypeOK
<1>9. QED BY <1>3, <1>4, <1>7, <1>8

\* What a stopped process leaves has the types of a new one.
LEMMA DownType ==
  ASSUME TypeOK, NEW ids, Down(ids), stops' = stops + 1, UNCHANGED txs
  PROVE  /\ mempool' \in Seq(DOMAIN txs') /\ history' \in Seq(DOMAIN txs')
         /\ client' \in [Clients -> DOMAIN txs' \cup {0}]
         /\ pc' = "down" /\ batch' \in Seq(DOMAIN txs')
         /\ next' \in 1..(Len(batch') + 1) /\ todo' = {}
         /\ events' \in 0..EventCap /\ executed' = {} /\ stops' \in Nat
         /\ forgot' \in [Data -> Nat]
BY ChainAssumption DEF Down, TypeOK

LEMMA LoanStatusType ==
  ASSUME loans \in Seq(Loan), NEW i,
         NEW s \in {"pending", "active", "settled", "defaulted"}, SetLoan(i, s)
  PROVE  loans' \in Seq(Loan) /\ DOMAIN loans' = DOMAIN loans
<1>1. Len(loans) \in Nat /\ loans \in [1..Len(loans) -> Loan] OBVIOUS
<1>2. \A l \in Loan : [l EXCEPT !.status = s] \in Loan BY DEF Loan
<1>3. loans' \in [1..Len(loans) -> Loan] BY <1>1, <1>2 DEF SetLoan
<1>4. QED BY <1>1, <1>3, SeqOfFunction

LEMMA TypeInit == Init => TypeOK
<1> SUFFICES ASSUME Init PROVE TypeOK OBVIOUS
<1>1. pool \in [Parts -> 0..(W - 1)] /\ events \in 0..EventCap
  BY ChainAssumption DEF Init, NewPool
<1>2. height \in 0..MaxHeight /\ saved \in 0..MaxHeight BY ChainAssumption DEF Init
<1>3. next \in 1..(Len(batch) + 1) BY DEF Init
<1>4. QED BY <1>1, <1>2, <1>3 DEF Init, TypeOK, Forgotten

-----------------------------------------------------------------------------
\* The steps of submitters, of the engine and of the environment.
LEMMA TypeOutside ==
  ASSUME TypeOK,
         \/ \E c \in Clients, p \in Payloads : Submit(c, p)
         \/ \E c \in Clients : RecordTx(c)
         \/ Tick \/ (\E i \in DOMAIN loans : FallDue(i))
         \/ Crash \/ Shutdown \/ Restart
  PROVE  TypeOK'
<1> USE DEF inputs, block, store, ghosts
<1>1. ASSUME NEW c \in Clients, NEW p \in Payloads, Submit(c, p) PROVE TypeOK'
  <2> DEFINE t == [type |-> p.type, data |-> p.data, status |-> "pending", block |-> 0]
  <2>1. t \in Tx BY ChainAssumption DEF Tx
  <2>2. /\ txs' \in Seq(Tx) /\ Len(txs') = Len(txs) + 1 /\ Len(txs) \in Nat
    BY <1>1, <2>1, AppendAt DEF Submit, TypeOK
  <2>3. DOMAIN txs = 1..Len(txs) /\ DOMAIN txs' = 1..(Len(txs) + 1) BY <2>2 DEF TypeOK
  <2>4. DOMAIN txs \subseteq DOMAIN txs' /\ Len(txs) + 1 \in DOMAIN txs' BY <2>2, <2>3
  <2>5. mempool \in Seq(DOMAIN txs') /\ history \in Seq(DOMAIN txs')
        /\ batch \in Seq(DOMAIN txs')
    BY <2>4, SeqGrows DEF TypeOK
  <2>6. mempool' \in Seq(DOMAIN txs') BY <1>1, <2>4, <2>5, AppendAt DEF Submit
  <2>7. client' \in [Clients -> DOMAIN txs' \cup {0}] BY <1>1, <2>4 DEF Submit, TypeOK
  <2>8. QED BY <1>1, <2>2, <2>5, <2>6, <2>7 DEF Submit, TypeOK
<1>2. ASSUME NEW c \in Clients, RecordTx(c) PROVE TypeOK'
  <2>1. client[c] \in DOMAIN txs BY <1>2 DEF RecordTx, TypeOK
  <2>2. Append(history, client[c]) \in Seq(DOMAIN txs) BY <2>1, AppendAt DEF TypeOK
  <2>3. history' \in Seq(DOMAIN txs)
    BY <1>2, <2>2, LastType, ChainAssumption DEF RecordTx
  <2>4. client' \in [Clients -> DOMAIN txs \cup {0}] BY <1>2 DEF RecordTx, TypeOK
  <2>5. QED BY <1>2, <2>3, <2>4 DEF RecordTx, TypeOK
<1>3. CASE Tick BY <1>3, ChainAssumption DEF Tick, TypeOK
<1>4. ASSUME NEW i \in DOMAIN loans, FallDue(i) PROVE TypeOK'
  <2>1. Len(loans) \in Nat /\ loans \in [1..Len(loans) -> Loan] BY DEF TypeOK
  <2>2. \A l \in Loan : [l EXCEPT !.late = TRUE] \in Loan BY DEF Loan
  <2>3. loans' \in [1..Len(loans) -> Loan] BY <1>4, <2>1, <2>2 DEF FallDue
  <2>4. loans' \in Seq(Loan) /\ DOMAIN loans' = DOMAIN loans
    BY <2>1, <2>3, SeqOfFunction
  <2>5. QED BY <1>4, <2>4 DEF FallDue, TypeOK
<1>5. CASE Crash BY <1>5, DownType DEF Crash, TypeOK, Down
<1>6. CASE Shutdown BY <1>6, DownType DEF Shutdown, TypeOK, Down
<1>7. CASE Restart BY <1>7 DEF Restart, TypeOK
<1>8. QED BY <1>1, <1>2, <1>3, <1>4, <1>5, <1>6, <1>7

\* The steps of the block loop.
LEMMA TypeBlock == ASSUME TypeOK, Placed, BlockStep PROVE TypeOK'
<1> USE DEF inputs, block, store, ghosts
<1>1. CASE BeginBlock
  <2>1. height' \in 0..MaxHeight BY <1>1, ChainAssumption DEF BeginBlock, NextHeight, TypeOK
  <2>2. events' \in 0..EventCap BY <1>1, ChainAssumption DEF BeginBlock, TypeOK
  <2>3. todo' \subseteq DOMAIN loans BY <1>1 DEF BeginBlock, Overdue
  <2>4. pc' = "begin" BY <1>1 DEF BeginBlock, Goto
  <2>5. QED BY <1>1, <2>1, <2>2, <2>3, <2>4 DEF BeginBlock, TypeOK
<1>2. CASE Drain
  <2> DEFINE k == DrainCount(Len(mempool))
  <2>1. mempool \in Seq(DOMAIN txs) /\ Len(mempool) \in Nat BY DEF TypeOK
  <2>2. k \in Nat /\ k <= Len(mempool) BY <2>1, ChainAssumption DEF DrainCount
  <2>3. \A i \in 1..Len(mempool) : mempool[i] \in DOMAIN txs BY <2>1
  <2> HIDE DEF k
  <2>4. SubSeq(mempool, 1, k) \in Seq(DOMAIN txs) BY <2>1, <2>2, <2>3, SubSeqProperties
  <2>5. SubSeq(mempool, k + 1, Len(mempool)) \in Seq(DOMAIN txs) BY <2>1, <2>2, <2>3, SubSeqProperties
  <2>6. batch' \in Seq(DOMAIN txs) /\ mempool' \in Seq(DOMAIN txs) /\ next' = 1 /\ pc' = "exec"
    BY <1>2, <2>4, <2>5 DEF Drain, Goto, k
  <2>7. next' \in 1..(Len(batch') + 1) BY <2>6
  <2>8. QED BY <1>2, <2>6, <2>7 DEF Drain, TypeOK
<1>3. CASE SkipReplay
  <2>1. next' \in 1..(Len(batch) + 1) /\ pc' = "exec"
    BY <1>3, BatchType DEF SkipReplay, Done, Goto
  <2>2. QED BY <1>3, <2>1 DEF SkipReplay, TypeOK
<1>4. CASE Repay
  <2>1. next <= Len(batch) /\ MarkTxExecuted(batch[next]) BY <1>4 DEF Repay, Executing
  <2>2. pool' \in [Parts -> 0..(W - 1)]
    BY <1>4, <2>1, BatchType, PoolType DEF Repay, TypeOK
  <2>3. next' \in 1..(Len(batch) + 1) /\ pc' \in {"settle", "exec"}
    BY <1>4, <2>1, BatchType DEF Repay, Done, Goto
  <2>4. QED BY <1>4, <2>1, <2>2, <2>3, MarkType DEF Repay, TypeOK
<1>5. CASE SettleLoan
  <2>1. next <= Len(batch) BY <1>5 DEF SettleLoan, Placed
  <2>2. next' \in 1..(Len(batch) + 1) /\ pc' = "exec"
    BY <1>5, <2>1, BatchType DEF SettleLoan, Done, Goto
  <2>3. Len(loans) \in Nat /\ loans \in [1..Len(loans) -> Loan] BY DEF TypeOK
  <2>4. \A l \in Loan : [l EXCEPT !.status = "settled"] \in Loan BY DEF Loan
  <2>5. loans' \in [1..Len(loans) -> Loan] BY <1>5, <2>3, <2>4 DEF SettleLoan
  <2>6. loans' \in Seq(Loan) /\ DOMAIN loans' = DOMAIN loans BY <2>3, <2>5, SeqOfFunction
  <2>7. QED BY <1>5, <2>2, <2>6 DEF SettleLoan, TypeOK
<1>6. CASE RequestLoan
  <2>1. next <= Len(batch) /\ MarkTxExecuted(batch[next]) BY <1>6 DEF RequestLoan, Executing
  <2>2. [status |-> "pending", late |-> FALSE] \in Loan BY DEF Loan
  <2>3. loans' \in Seq(Loan) /\ Len(loans') = Len(loans) + 1 /\ Len(loans) \in Nat
    BY <1>6, <2>2, AppendAt DEF RequestLoan, TypeOK
  <2>4. DOMAIN loans \subseteq DOMAIN loans' BY <2>3 DEF TypeOK
  <2>5. pc' = "approve" BY <1>6 DEF RequestLoan, Goto
  <2>6. QED BY <1>6, <2>1, <2>3, <2>4, <2>5, MarkType DEF RequestLoan, TypeOK
<1>7. CASE ApproveLoan
  <2>1. next <= Len(batch) BY <1>7 DEF ApproveLoan, Placed
  <2>2. next' \in 1..(Len(batch) + 1) /\ pc' = "exec"
    BY <1>7, <2>1, BatchType DEF ApproveLoan, Done, Goto
  <2>3. loans' \in Seq(Loan) /\ DOMAIN loans' = DOMAIN loans
    BY <1>7, LoanStatusType DEF ApproveLoan, TypeOK
  <2>4. QED BY <1>7, <2>2, <2>3 DEF ApproveLoan, TypeOK
<1>8. CASE PanicLoan
  <2> DEFINE id == ID(batch[next])
  <2>1. /\ next <= Len(batch) /\ Down(executed \cup {id})
        /\ ran' = Append(ran, [tx |-> batch[next], data |-> id, block |-> height])
        /\ UNCHANGED <<txs, height, store>>
    BY <1>8 DEF PanicLoan, Executing
  <2>2. [tx |-> batch[next], data |-> id, block |-> height] \in Execution
    <3>1. batch[next] \in Nat /\ id \in Data BY <2>1, BatchType
    <3>2. height \in Nat BY ChainAssumption DEF TypeOK
    <3>3. QED BY <3>1, <3>2 DEF Execution
  <2>3. ran' \in Seq(Execution) BY <2>1, <2>2, AppendAt DEF TypeOK
  <2>4. stops' = stops + 1 BY <2>1 DEF Down
  <2> HIDE DEF id
  <2>5. QED BY <2>1, <2>3, <2>4, DownType DEF TypeOK
<1>9. CASE ConfirmTxs
  <2>1. Len(txs) \in Nat /\ txs \in [1..Len(txs) -> Tx] /\ height \in Nat
    BY ChainAssumption DEF TypeOK
  <2>2. \A t \in Tx : [t EXCEPT !.status = "confirmed", !.block = height] \in Tx
    BY <2>1 DEF Tx
  <2>3. txs' \in [1..Len(txs) -> Tx] BY <1>9, <2>1, <2>2 DEF ConfirmTxs
  <2>4. txs' \in Seq(Tx) /\ DOMAIN txs' = DOMAIN txs BY <2>1, <2>3, SeqOfFunction
  <2>5. pc' = "end" BY <1>9 DEF ConfirmTxs, Goto
  <2>6. QED BY <1>9, <2>4, <2>5 DEF ConfirmTxs, TypeOK
<1>10. CASE EndBlock BY <1>10 DEF EndBlock, Goto, TypeOK
<1>11. ASSUME NEW i \in todo, DefaultLoan(i) PROVE TypeOK' BY <1>11, LoanStatusType DEF DefaultLoan, TypeOK
<1>12. QED
  BY <1>1, <1>2, <1>3, <1>4, <1>5, <1>6, <1>7, <1>8, <1>9, <1>10, <1>11 DEF BlockStep

LEMMA TypeStep == ASSUME TypeOK, Placed, [Next]_vars PROVE TypeOK'
BY TypeOutside, TypeBlock DEF vars, inputs, block, store, ghosts, TypeOK, Next

-----------------------------------------------------------------------------
\* A stopped process has lost its memory, and a batch is worked off in order.
LEMMA PlacedStep == ASSUME TypeOK, Placed, [Next]_vars PROVE Placed'
<1> USE DEF inputs, block, store, ghosts, Placed
<1>1. CASE Crash \/ Shutdown \/ PanicLoan
  BY <1>1 DEF Crash, Shutdown, PanicLoan, Down
<1>2. CASE UNCHANGED vars BY <1>2 DEF vars
<1>3. ASSUME NEW c \in Clients, NEW p \in Payloads, Submit(c, p) PROVE Placed'
  BY <1>3 DEF Submit, Up
<1>4. ASSUME NEW c \in Clients, RecordTx(c) PROVE Placed' BY <1>4 DEF RecordTx, Up
<1>5. CASE Tick \/ (\E i \in DOMAIN loans : FallDue(i)) BY <1>5 DEF Tick, FallDue
<1>6. CASE Restart BY <1>6 DEF Restart
<1>7. CASE BeginBlock \/ Drain \/ SkipReplay BY <1>7 DEF BeginBlock, Drain, SkipReplay, Done, Goto
<1>8. CASE Repay \/ RequestLoan BY <1>8 DEF Repay, RequestLoan, Executing, Done, Goto
<1>9. CASE SettleLoan \/ ApproveLoan BY <1>9 DEF SettleLoan, ApproveLoan, Done, Goto
<1>10. CASE ConfirmTxs \/ EndBlock BY <1>10 DEF ConfirmTxs, EndBlock, Goto
<1>11. ASSUME NEW i \in todo, DefaultLoan(i) PROVE Placed' BY <1>11 DEF DefaultLoan
<1>12. QED
  BY <1>1, <1>2, <1>3, <1>4, <1>5, <1>6, <1>7, <1>8, <1>9, <1>10, <1>11
  DEF Next, BlockStep

\* What each step does to the executions and to the marks: it adds the next
\* transaction of the batch, loses the marks, or leaves both alone.
Adds(n) ==
  /\ ran' = Append(ran, [tx |-> n, data |-> ID(n), block |-> height])
  /\ \E s \in SUBSET (executed \cup {ID(n)}) :
       /\ executed' = s
       /\ forgot' = [d \in Data |-> IF d \in (executed \cup {ID(n)}) \ s
                                    THEN forgot[d] + 1 ELSE forgot[d]]
Loses ==
  /\ ran' = ran /\ executed' = {}
  /\ forgot' = [d \in Data |-> IF d \in executed THEN forgot[d] + 1 ELSE forgot[d]]

LEMMA MarkAdds == ASSUME NEW n, MarkTxExecuted(n) PROVE Adds(n) BY DEF Marked, MarkTxExecuted, Adds

LEMMA WhatRuns ==
  ASSUME [Next]_vars
  PROVE  \/ /\ pc = "exec" /\ next <= Len(batch) /\ ID(batch[next]) \notin executed
            /\ Adds(batch[next])
            /\ Repay \/ RequestLoan \/ PanicLoan
         \/ Loses /\ (Crash \/ Shutdown)
         \/ UNCHANGED <<ran, executed, forgot>> /\ ~PanicLoan
<1> USE DEF inputs, block, store, ghosts
<1>1. CASE Crash \/ Shutdown BY <1>1 DEF Crash, Shutdown, Down, Loses
<1>2. CASE Repay \/ RequestLoan BY <1>2, MarkAdds DEF Repay, RequestLoan, Executing, IsTxReplay
<1>3. CASE PanicLoan
  <2> DEFINE n == batch[next]
  <2>1. /\ pc = "exec" /\ next <= Len(batch) /\ ID(n) \notin executed
        /\ Down(executed \cup {ID(n)})
        /\ ran' = Append(ran, [tx |-> n, data |-> ID(n), block |-> height])
    BY <1>3 DEF PanicLoan, Executing, IsTxReplay
  <2>2. Adds(n)
    <3> DEFINE s == {}
    <3>1. s \in SUBSET (executed \cup {ID(n)}) /\ executed' = s BY <2>1 DEF Down
    <3>2. (executed \cup {ID(n)}) \ s = executed \cup {ID(n)} OBVIOUS
    <3>3. forgot' = [d \in Data |-> IF d \in (executed \cup {ID(n)}) \ s
                                   THEN forgot[d] + 1 ELSE forgot[d]]
      BY <2>1, <3>2 DEF Down
    <3> HIDE DEF s
    <3>4. QED BY <2>1, <3>1, <3>3 DEF Adds
  <2>3. QED BY <1>3, <2>1, <2>2
<1>4. CASE UNCHANGED <<ran, executed, forgot>> /\ ~PanicLoan BY <1>4
<1>5. CASE PanicLoan BY <1>3, <1>5
<1>6. CASE UNCHANGED vars BY <1>4, <1>5, <1>6 DEF vars
<1>7. CASE (\E c \in Clients, p \in Payloads : Submit(c, p)) \/ (\E c \in Clients : RecordTx(c))
  BY <1>4, <1>5, <1>7 DEF Submit, RecordTx
<1>8. CASE Tick \/ (\E i \in DOMAIN loans : FallDue(i)) \/ Restart
  BY <1>4, <1>5, <1>8 DEF Tick, FallDue, Restart
<1>9. CASE BeginBlock \/ Drain \/ SkipReplay \/ ConfirmTxs \/ EndBlock
  BY <1>4, <1>5, <1>9 DEF BeginBlock, Drain, SkipReplay, ConfirmTxs, EndBlock
<1>10. CASE SettleLoan \/ ApproveLoan \/ (\E i \in todo : DefaultLoan(i))
  BY <1>4, <1>5, <1>10 DEF SettleLoan, ApproveLoan, DefaultLoan
<1>11. QED BY <1>1, <1>2, <1>3, <1>6, <1>7, <1>8, <1>9, <1>10 DEF Next, BlockStep

\* The execution that Adds appends.
LEMMA AddsAt ==
  ASSUME TypeOK, NEW n, n \in 1..Len(txs), ID(n) \in Data, Adds(n)
  PROVE  /\ Len(ran) \in Nat /\ Len(ran') = Len(ran) + 1
         /\ DOMAIN ran = 1..Len(ran) /\ DOMAIN ran' = 1..(Len(ran) + 1)
         /\ \A i \in 1..Len(ran) : ran'[i] = ran[i]
         /\ ran'[Len(ran) + 1] = [tx |-> n, data |-> ID(n), block |-> height]
<1>1. height \in Nat /\ n \in Nat BY ChainAssumption DEF TypeOK
<1>2. [tx |-> n, data |-> ID(n), block |-> height] \in Execution BY <1>1 DEF Execution
<1>3. ran \in Seq(Execution) BY DEF TypeOK
<1>4. ran' = Append(ran, [tx |-> n, data |-> ID(n), block |-> height]) BY DEF Adds
<1>5. /\ ran' \in Seq(Execution) /\ Len(ran') = Len(ran) + 1 /\ Len(ran) \in Nat
      /\ ran'[Len(ran) + 1] = [tx |-> n, data |-> ID(n), block |-> height]
      /\ \A i \in 1..Len(ran) : ran'[i] = ran[i]
  BY <1>2, <1>3, <1>4, AppendAt
<1>6. QED BY <1>3, <1>5

-----------------------------------------------------------------------------
\* How often data was executed.
Runs(d) == {i \in DOMAIN ran : ran[i].data = d}

LEMMA RunsFinite ==
  ASSUME TypeOK, NEW d PROVE IsFiniteSet(Runs(d)) /\ Cardinality(Runs(d)) \in Nat
<1>1. Len(ran) \in Nat /\ DOMAIN ran = 1..Len(ran) BY DEF TypeOK
<1>2. IsFiniteSet(DOMAIN ran) BY <1>1, FS_Interval
<1>3. Runs(d) \subseteq DOMAIN ran BY DEF Runs
<1>4. QED BY <1>2, <1>3, FS_Subset, FS_CardinalityType

\* An execution counts for its own data only.
LEMMA RunsAdd ==
  ASSUME TypeOK, NEW n, n \in 1..Len(txs), ID(n) \in Data, Adds(n), NEW d \in Data
  PROVE  Cardinality(Runs(d)') = Cardinality(Runs(d)) + (IF d = ID(n) THEN 1 ELSE 0)
<1> DEFINE k == Len(ran) + 1
<1>1. /\ DOMAIN ran = 1..Len(ran) /\ DOMAIN ran' = 1..k /\ Len(ran) \in Nat
      /\ \A i \in 1..Len(ran) : ran'[i] = ran[i]
      /\ ran'[k].data = ID(n)
  <2>1. /\ DOMAIN ran = 1..Len(ran) /\ DOMAIN ran' = 1..k /\ Len(ran) \in Nat
        /\ \A i \in 1..Len(ran) : ran'[i] = ran[i]
        /\ ran'[k] = [tx |-> n, data |-> ID(n), block |-> height]
    BY AddsAt
  <2>2. QED BY <2>1
<1>2. 1..k = 1..Len(ran) \cup {k} /\ k \notin 1..Len(ran) BY <1>1
<1>3. CASE d = ID(n)
  <2>1. Runs(d)' = Runs(d) \cup {k} BY <1>1, <1>2, <1>3 DEF Runs
  <2>2. k \notin Runs(d) BY <1>1, <1>2 DEF Runs
  <2>3. QED BY <1>3, <2>1, <2>2, RunsFinite, FS_AddElement
<1>4. CASE d # ID(n)
  <2>1. Runs(d)' = Runs(d) BY <1>1, <1>2, <1>4 DEF Runs
  <2>2. QED BY <1>4, <2>1, RunsFinite
<1>5. QED BY <1>3, <1>4

LEMMA OnceStep ==
  ASSUME TypeOK, ExecutedOnce, [Next]_vars PROVE ExecutedOnce'
<1> SUFFICES ASSUME NEW d \in Data
             PROVE  Cardinality(Runs(d)') = forgot'[d] + (IF d \in executed' THEN 1 ELSE 0)
  BY DEF ExecutedOnce, Runs
<1>1. /\ Cardinality(Runs(d)) = forgot[d] + (IF d \in executed THEN 1 ELSE 0)
      /\ forgot[d] \in Nat /\ Cardinality(Runs(d)) \in Nat
  BY RunsFinite DEF ExecutedOnce, Runs, TypeOK
<1>2. CASE /\ next <= Len(batch) /\ ID(batch[next]) \notin executed
           /\ Adds(batch[next])
  <2> DEFINE n == batch[next]
  <2>1. n \in 1..Len(txs) /\ ID(n) \in Data BY <1>2, BatchType
  <2>2. Cardinality(Runs(d)') = Cardinality(Runs(d)) + (IF d = ID(n) THEN 1 ELSE 0)
    BY <1>2, <2>1, RunsAdd
  <2>3. PICK s \in SUBSET (executed \cup {ID(n)}) :
          /\ executed' = s
          /\ forgot' = [e \in Data |-> IF e \in (executed \cup {ID(n)}) \ s
                                       THEN forgot[e] + 1 ELSE forgot[e]]
    BY <1>2 DEF Adds
  <2>4. forgot'[d] = IF d \in executed \cup {ID(n)} /\ d \notin s
                     THEN forgot[d] + 1 ELSE forgot[d]
    BY <2>3
  <2> HIDE DEF n
  <2>5. CASE d = ID(n) BY <1>1, <1>2, <2>2, <2>3, <2>4, <2>5 DEF n
  <2>6. CASE d # ID(n) BY <1>1, <2>2, <2>3, <2>4, <2>6
  <2>7. QED BY <2>5, <2>6
<1>3. CASE Loses BY <1>1, <1>3 DEF Loses, Runs
<1>4. CASE UNCHANGED <<ran, executed, forgot>> BY <1>1, <1>4 DEF Runs
<1>5. QED BY <1>2, <1>3, <1>4, WhatRuns

-----------------------------------------------------------------------------
LEMMA QueueTypes ==
  ASSUME TypeOK
  PROVE  /\ Len(mempool) \in Nat /\ Len(batch) \in Nat /\ Len(ran) \in Nat /\ Len(txs) \in Nat
         /\ DOMAIN ran = 1..Len(ran) /\ DOMAIN txs = 1..Len(txs)
         /\ \A i \in 1..Len(mempool) : mempool[i] \in 1..Len(txs)
         /\ \A i \in 1..Len(batch) : batch[i] \in 1..Len(txs)
         /\ \A i \in 1..Len(ran) : ran[i] \in Execution /\ ran[i].tx \in Nat
         /\ next \in Nat \ {0} /\ First \in Nat
<1>1. \A i \in 1..Len(ran) : ran[i] \in Execution BY DEF TypeOK
<1>2. next \in Nat \ {0} BY DEF TypeOK
<1>3. First \in Nat BY <1>2 DEF First
<1>4. \A i \in 1..Len(ran) : ran[i].tx \in Nat BY <1>1 DEF Execution
<1>5. Len(ran) \in Nat /\ DOMAIN ran = 1..Len(ran) BY DEF TypeOK
<1>6. /\ Len(mempool) \in Nat /\ Len(batch) \in Nat /\ Len(txs) \in Nat
      /\ DOMAIN txs = 1..Len(txs)
      /\ \A i \in 1..Len(mempool) : mempool[i] \in 1..Len(txs)
      /\ \A i \in 1..Len(batch) : batch[i] \in 1..Len(txs)
  <2>1. Len(txs) \in Nat /\ DOMAIN txs = 1..Len(txs) BY DEF TypeOK
  <2>2. mempool \in Seq(1..Len(txs)) /\ batch \in Seq(1..Len(txs)) BY <2>1 DEF TypeOK
  <2>3. QED BY <2>1, <2>2
<1>7. QED BY <1>1, <1>2, <1>3, <1>4, <1>5, <1>6

\* The queues are as they were and no more of the batch is left.
LEMMA QueuedQuiet ==
  ASSUME TypeOK, Queued, UNCHANGED <<mempool, batch, ran>>, Len(txs') = Len(txs),
         First' \in Nat, First <= First'
  PROVE  Queued'
<1>1. First \in Nat /\ Len(batch) \in Nat BY QueueTypes
<1>2. \A j \in 1..Len(batch) : First' <= j => First <= j BY <1>1
<1>3. QED BY <1>2 DEF Queued

\* A stopped process has nothing left to execute.
LEMMA QueuedEmpty ==
  ASSUME mempool' = <<>>, batch' = <<>>, Len(txs') = Len(txs),
         \A i \in 1..Len(ran') : ran'[i].tx \in 1..Len(txs)
  PROVE  Queued'
BY DEF Queued

LEMMA QueuedSubmit ==
  ASSUME TypeOK, Queued, NEW c \in Clients, NEW p \in Payloads, Submit(c, p)
  PROVE  Queued'
<1> DEFINE m == Len(txs) + 1
           k == Len(mempool)
<1>1. /\ UNCHANGED <<batch, ran, next, pc>> /\ mempool' = Append(mempool, m)
      /\ Len(txs') = m /\ First' = First BY ChainAssumption, AppendAt DEF Tx, Submit, block, ghosts, First, TypeOK
<1>2. /\ k \in Nat /\ m \in Nat /\ mempool \in Seq(Nat)
      /\ \A i \in 1..k : mempool[i] < m
      /\ \A i \in 1..Len(batch) : batch[i] < m
      /\ \A i \in 1..Len(ran) : ran[i].tx < m /\ ran[i].tx \in 1..m
  <2>1. mempool \in Seq(Nat) BY QueueTypes, SeqGrows DEF TypeOK
  <2>2. PICK n \in Nat : n = Len(txs) /\ m = n + 1 BY QueueTypes
  <2>3. k \in Nat /\ m \in Nat BY <2>2, QueueTypes
  <2>4. \A i \in 1..k : mempool[i] < m
    <3>1. \A i \in 1..k : mempool[i] \in 1..n BY <2>2, QueueTypes
    <3>2. QED BY <2>2, <3>1
  <2>5. \A i \in 1..Len(batch) : batch[i] < m
    <3>1. \A i \in 1..Len(batch) : batch[i] \in 1..n BY <2>2, QueueTypes
    <3>2. QED BY <2>2, <3>1
  <2>6. \A i \in 1..Len(ran) : ran[i].tx < m /\ ran[i].tx \in 1..m
    <3>1. \A i \in 1..Len(ran) : ran[i].tx \in 1..n BY <2>2, QueueTypes DEF Queued
    <3>2. QED BY <2>2, <3>1
  <2>7. QED BY <2>1, <2>3, <2>4, <2>5, <2>6
<1>3. /\ Len(mempool') = k + 1 /\ mempool'[k + 1] = m
      /\ \A i \in 1..k : mempool'[i] = mempool[i]
  BY <1>1, <1>2, AppendAt
<1>4. \A i \in 1..(k + 1) : i \in 1..k \/ i = k + 1 BY <1>2
<1> HIDE DEF m, k
<1>5. ASSUME NEW i \in 1..(k + 1), NEW j \in 1..(k + 1), i < j
      PROVE  mempool'[i] < mempool'[j] BY <1>2, <1>3, <1>4, <1>5 DEF Queued, k
<1>6. \A i \in 1..Len(batch), j \in 1..(k + 1) : batch[i] < mempool'[j]
  BY <1>2, <1>3, <1>4 DEF Queued, k
<1>7. \A i \in 1..Len(ran), j \in 1..(k + 1) : ran[i].tx < mempool'[j]
  BY <1>2, <1>3, <1>4 DEF Queued, k
<1>8. QED BY <1>1, <1>2, <1>3, <1>5, <1>6, <1>7 DEF Queued

LEMMA QueuedDrain == ASSUME TypeOK, Queued, Drain PROVE Queued'
<1> DEFINE k == DrainCount(Len(mempool))
           m == Len(mempool)
<1>1. m \in Nat /\ k \in Nat /\ k <= m BY QueueTypes, ChainAssumption DEF DrainCount
<1>2. /\ batch' = SubSeq(mempool, 1, k) /\ mempool' = SubSeq(mempool, k + 1, m)
      /\ UNCHANGED <<txs, ran>>
  BY DEF Drain, ghosts
<1>3. \A i \in 1..m : mempool[i] \in Nat BY QueueTypes
<1> HIDE DEF k, m
<1>4. /\ Len(batch') = k
      /\ \A i \in 1..k : batch'[i] = mempool[i] /\ i \in 1..m
  <2>1. \A i \in 1..k : mempool[i] \in Nat /\ i \in 1..m BY <1>1, <1>3
  <2>2. /\ Len(SubSeq(mempool, 1, k)) = IF 1 <= k THEN k - 1 + 1 ELSE 0
        /\ \A i \in 1..(k - 1 + 1) : SubSeq(mempool, 1, k)[i] = mempool[1 + i - 1]
    BY <1>1, <2>1, SubSeqProperties
  <2>3. Len(batch') = k BY <1>1, <1>2, <2>2
  <2>4. ASSUME NEW i \in 1..k PROVE batch'[i] = mempool[i] BY <1>1, <1>2, <2>2
  <2>5. QED BY <2>1, <2>3, <2>4
<1>5. /\ Len(mempool') = m - k
      /\ \A i \in 1..(m - k) : mempool'[i] = mempool[k + i] /\ k + i \in 1..m
  <2>1. \A i \in (k + 1)..m : mempool[i] \in Nat BY <1>1, <1>3
  <2>2. /\ Len(SubSeq(mempool, k + 1, m)) = IF k + 1 <= m THEN m - (k + 1) + 1 ELSE 0
        /\ \A i \in 1..(m - (k + 1) + 1) :
             SubSeq(mempool, k + 1, m)[i] = mempool[k + 1 + i - 1]
    BY <1>1, <2>1, SubSeqProperties
  <2>3. Len(mempool') = m - k BY <1>1, <1>2, <2>2
  <2>4. ASSUME NEW i \in 1..(m - k) PROVE mempool'[i] = mempool[k + i] /\ k + i \in 1..m BY <1>1, <1>2, <2>2
  <2>5. QED BY <2>3, <2>4
<1>6. \A i, j \in 1..m : i < j => mempool[i] < mempool[j] BY DEF Queued, m
<1>7. \A i \in 1..Len(ran), j \in 1..m : ran[i].tx < mempool[j] BY DEF Queued, m
<1>8. \A i, j \in 1..(m - k) : i < j => mempool'[i] < mempool'[j]
  BY <1>1, <1>5, <1>6
<1>9. \A i, j \in 1..k : i < j => batch'[i] < batch'[j] BY <1>4, <1>6
<1>10. \A i \in 1..k, j \in 1..(m - k) : batch'[i] < mempool'[j]
  BY <1>1, <1>4, <1>5, <1>6
<1>11. /\ \A i \in 1..Len(ran), j \in 1..(m - k) : ran[i].tx < mempool'[j]
       /\ \A i \in 1..Len(ran), j \in 1..k : ran[i].tx < batch'[j]
  BY <1>4, <1>5, <1>7
<1>12. QED BY <1>2, <1>4, <1>5, <1>8, <1>9, <1>10, <1>11 DEF Queued

\* The next transaction of the batch is executed and leaves the queue.
LEMMA QueuedExecute ==
  ASSUME TypeOK, Queued, pc = "exec", next <= Len(batch), Adds(batch[next]),
         UNCHANGED <<txs, mempool, batch>>, First' = next + 1
  PROVE  Queued'
<1> DEFINE n == batch[next]
<1>1. n \in 1..Len(txs) /\ ID(n) \in Data /\ next \in 1..Len(batch) BY BatchType
<1>2. /\ Len(ran) \in Nat /\ Len(ran') = Len(ran) + 1
      /\ \A i \in 1..Len(ran) : ran'[i] = ran[i]
      /\ ran'[Len(ran) + 1] = [tx |-> n, data |-> ID(n), block |-> height]
  BY <1>1, AddsAt
<1>3. ran'[Len(ran) + 1].tx = n BY <1>2
<1>4. \A i \in 1..Len(ran') : i \in 1..Len(ran) \/ i = Len(ran) + 1 BY <1>2
<1>5. First = next /\ Len(batch) \in Nat BY QueueTypes DEF First
<1>6. \A j \in 1..Len(batch) : next + 1 <= j => First <= j /\ next < j BY <1>1, <1>5
<1>7. \A i \in 1..Len(ran') : ran'[i].tx \in 1..Len(txs)
  BY <1>1, <1>2, <1>3, <1>4 DEF Queued
<1>8. \A i \in 1..Len(ran'), j \in 1..Len(mempool) : ran'[i].tx < mempool[j]
  BY <1>1, <1>2, <1>3, <1>4 DEF Queued
<1>9. \A i \in 1..Len(ran'), j \in 1..Len(batch) :
        next + 1 <= j => ran'[i].tx < batch[j]
  BY <1>1, <1>2, <1>3, <1>4, <1>6 DEF Queued
<1>10. QED BY <1>7, <1>8, <1>9 DEF Queued

LEMMA QueuedStep == ASSUME TypeOK, Placed, Queued, [Next]_vars PROVE Queued'
<1> USE DEF inputs, block, store, ghosts
<1>1. First \in Nat /\ next \in Nat BY QueueTypes
<1>2. \A i \in 1..Len(ran) : ran[i].tx \in 1..Len(txs) BY DEF Queued
<1>3. CASE Crash \/ Shutdown BY <1>2, <1>3, QueuedEmpty DEF Crash, Shutdown, Down
<1>4. CASE PanicLoan
  BY <1>2, <1>4, WhatRuns, BatchType, AddsAt, QueuedEmpty DEF PanicLoan, Executing, Down, Crash, Shutdown
<1>5. CASE \E c \in Clients, p \in Payloads : Submit(c, p) BY <1>5, QueuedSubmit
<1>6. CASE Drain BY <1>6, QueuedDrain
<1>7. CASE Repay \/ RequestLoan
  BY <1>7, MarkAdds, QueuedExecute DEF Repay, RequestLoan, Executing, Done, Goto, First
<1>8. CASE SkipReplay BY <1>1, <1>8, QueuedQuiet DEF SkipReplay, Done, Goto, First
<1>9. CASE SettleLoan \/ ApproveLoan BY <1>1, <1>9, QueuedQuiet DEF SettleLoan, ApproveLoan, Done, Goto, First
<1>10. CASE ConfirmTxs
  <2>1. UNCHANGED <<mempool, batch, ran>> /\ First' = First
    BY <1>10 DEF ConfirmTxs, Goto, First
  <2>2. Len(txs') = Len(txs)
    <3>1. Len(txs) \in Nat /\ DOMAIN txs = 1..Len(txs) BY QueueTypes
    <3>2. TypeOK' BY TypeStep
    <3>3. txs' \in Seq(Tx) /\ DOMAIN txs' = DOMAIN txs BY <1>10, <3>2 DEF TypeOK, ConfirmTxs
    <3>4. QED BY <3>1, <3>3
  <2>3. QED BY <1>1, <2>1, <2>2, QueuedQuiet
<1>11. CASE EndBlock BY <1>11 DEF EndBlock, Queued
<1>12. CASE UNCHANGED <<mempool, batch, ran, txs, First>>
  BY <1>1, <1>12, QueuedQuiet
<1>13. CASE UNCHANGED vars BY <1>12, <1>13 DEF vars, First
<1>14. CASE (\E c \in Clients : RecordTx(c)) \/ Tick \/ (\E i \in DOMAIN loans : FallDue(i))
  BY <1>12, <1>14 DEF RecordTx, Tick, FallDue, First
<1>15. CASE Restart \/ BeginBlock \/ (\E i \in todo : DefaultLoan(i))
  BY <1>12, <1>15 DEF Restart, BeginBlock, DefaultLoan, Goto, First
<1>16. QED
  BY <1>3, <1>4, <1>5, <1>6, <1>7, <1>8, <1>9, <1>10, <1>11, <1>13, <1>14, <1>15
  DEF Next, BlockStep

LEMMA OrderStep == ASSUME TypeOK, Queued, OrderKept, [Next]_vars PROVE OrderKept'
<1>1. CASE /\ pc = "exec" /\ next <= Len(batch) /\ Adds(batch[next])
  <2> DEFINE n == batch[next]
  <2>1. n \in 1..Len(txs) /\ ID(n) \in Data /\ next \in 1..Len(batch) BY <1>1, BatchType
  <2>2. /\ Len(ran) \in Nat /\ DOMAIN ran = 1..Len(ran) /\ DOMAIN ran' = 1..(Len(ran) + 1)
        /\ \A i \in 1..Len(ran) : ran'[i] = ran[i]
        /\ ran'[Len(ran) + 1] = [tx |-> n, data |-> ID(n), block |-> height]
    BY <1>1, <2>1, AddsAt
  <2>3. ran'[Len(ran) + 1].tx = n BY <2>2
  <2>4. First = next /\ next \in Nat BY <1>1, QueueTypes DEF First
  <2>5. \A i \in 1..Len(ran) : ran[i].tx < n BY <2>1, <2>4 DEF Queued
  <2> HIDE DEF n
  <2>6. ASSUME NEW i \in 1..(Len(ran) + 1), NEW j \in 1..(Len(ran) + 1), i < j
        PROVE  ran'[i].tx < ran'[j].tx BY <2>2, <2>3, <2>5, <2>6 DEF OrderKept
  <2>7. QED BY <2>2, <2>6 DEF OrderKept
<1>2. CASE ran' = ran BY <1>2 DEF OrderKept
<1>3. QED BY <1>1, <1>2, WhatRuns DEF Loses

-----------------------------------------------------------------------------
\* Executions are only ever added.
LEMMA RanGrows ==
  ASSUME TypeOK, [Next]_vars
  PROVE  /\ Len(ran) \in Nat /\ Len(ran') \in Nat /\ Len(ran) <= Len(ran')
         /\ DOMAIN ran = 1..Len(ran) /\ DOMAIN ran' = 1..Len(ran')
         /\ \A i \in 1..Len(ran) : ran'[i] = ran[i] /\ i \in 1..Len(ran')
<1>0. Len(ran) \in Nat /\ DOMAIN ran = 1..Len(ran) BY QueueTypes
<1>1. CASE next <= Len(batch) /\ Adds(batch[next])
  <2>1. batch[next] \in 1..Len(txs) /\ ID(batch[next]) \in Data BY <1>1, BatchType
  <2>2. /\ Len(ran') = Len(ran) + 1 /\ DOMAIN ran' = 1..(Len(ran) + 1)
        /\ \A i \in 1..Len(ran) : ran'[i] = ran[i]
    BY <1>1, <2>1, AddsAt
  <2>3. QED BY <1>0, <2>2
<1>2. CASE ran' = ran BY <1>0, <1>2
<1>3. QED BY <1>1, <1>2, WhatRuns DEF Loses

LEMMA RanHereStays ==
  ASSUME TypeOK, [Next]_vars, height <= height', height' \in Nat, NEW d, RanHere(d)
  PROVE  RanHere(d)'
<1>1. PICK i \in 1..Len(ran) : ran[i].data = d /\ ran[i].block <= height BY DEF RanHere
<1>2. ran'[i] = ran[i] /\ i \in 1..Len(ran') BY RanGrows
<1>3. ran[i].block \in Nat /\ height \in Nat
  <2>1. ran[i] \in Execution BY QueueTypes
  <2>2. height \in Nat BY ChainAssumption DEF TypeOK
  <2>3. QED BY <2>1, <2>2 DEF Execution
<1>4. ran'[i].block <= height' BY <1>1, <1>2, <1>3
<1>5. QED BY <1>1, <1>2, <1>4 DEF RanHere

\* A confirmation changes the status and the block of a transaction only.
LEMMA ConfirmAt ==
  ASSUME TypeOK, ConfirmTxs
  PROVE  /\ DOMAIN txs' = DOMAIN txs
         /\ \A n \in DOMAIN txs :
              /\ txs'[n].data = txs[n].data /\ txs'[n].type = txs[n].type
              /\ Confirms(n) => txs'[n].status = "confirmed" /\ txs'[n].block = height
              /\ ~Confirms(n) => txs'[n] = txs[n]
<1>1. \A n \in DOMAIN txs : txs[n] \in Tx BY DEF TypeOK
<1>2. \A t \in Tx : LET u == [t EXCEPT !.status = "confirmed", !.block = height]
                    IN u.data = t.data /\ u.type = t.type /\ u.status = "confirmed" /\ u.block = height
  BY DEF Tx
<1>3. QED BY <1>1, <1>2 DEF ConfirmTxs

\* Transactions keep their data, and stay confirmed in their block.
LEMMA SubmitAt ==
  ASSUME TypeOK, NEW c \in Clients, NEW p \in Payloads, Submit(c, p)
  PROVE  /\ Len(txs) \in Nat /\ DOMAIN txs = 1..Len(txs)
         /\ DOMAIN txs' = 1..(Len(txs) + 1)
         /\ \A n \in DOMAIN txs : txs'[n] = txs[n]
         /\ txs'[Len(txs) + 1].status = "pending"
<1> DEFINE t == [type |-> p.type, data |-> p.data, status |-> "pending", block |-> 0]
<1>1. t \in Tx /\ t.status = "pending" BY ChainAssumption DEF Tx
<1>2. txs \in Seq(Tx) /\ txs' = Append(txs, t) BY DEF Submit, TypeOK
<1> HIDE DEF t
<1>3. /\ txs' \in Seq(Tx) /\ Len(txs') = Len(txs) + 1 /\ Len(txs) \in Nat
      /\ txs'[Len(txs) + 1] = t /\ \A n \in 1..Len(txs) : txs'[n] = txs[n]
  BY <1>1, <1>2, AppendAt
<1>4. DOMAIN txs = 1..Len(txs) /\ DOMAIN txs' = 1..(Len(txs) + 1) BY <1>2, <1>3
<1>5. QED BY <1>1, <1>3, <1>4

LEMMA RememberedStep ==
  ASSUME TypeOK, Placed, Remembered, [Next]_vars PROVE Remembered'
<1> USE DEF inputs, block, store, ghosts
<1>1. /\ height \in Nat /\ First \in Nat /\ Len(batch) \in Nat
      /\ \A j \in 1..Len(batch) : batch[j] \in DOMAIN txs
  BY QueueTypes, ChainAssumption DEF TypeOK
<1>2. CASE Crash \/ Shutdown \/ PanicLoan BY <1>2 DEF Crash, Shutdown, PanicLoan, Down, Remembered
<1>3. CASE Drain BY <1>3 DEF Drain, Goto, First, Remembered, RanHere
<1>4. CASE EndBlock BY <1>4 DEF EndBlock, Remembered, RanHere
<1>5. CASE Restart BY <1>5 DEF Restart, Placed, Remembered
<1>6. CASE Repay \/ RequestLoan
  <2>0. PICK id : id = ID(batch[next]) OBVIOUS
  <2>1. /\ next <= Len(batch) /\ MarkTxExecuted(batch[next]) /\ pc = "exec"
        /\ UNCHANGED <<txs, batch, height>>
    BY <1>6 DEF Repay, RequestLoan, Executing
  <2>2. First = next /\ First' = next + 1
    BY <1>6 DEF Repay, RequestLoan, Executing, Done, Goto, First
  <2>3. Adds(batch[next]) BY <2>1, MarkAdds
  <2>4. batch[next] \in 1..Len(txs) /\ id \in Data BY <2>0, <2>1, BatchType
  <2>5. /\ Len(ran) \in Nat /\ Len(ran') = Len(ran) + 1
        /\ ran'[Len(ran) + 1] = [tx |-> batch[next], data |-> id, block |-> height]
    BY <2>0, <2>3, <2>4, AddsAt
  <2>6. /\ ran'[Len(ran) + 1].data = id /\ ran'[Len(ran) + 1].block = height
        /\ Len(ran) + 1 \in 1..Len(ran')
    BY <2>5
  <2>7. RanHere(id)' BY <1>1, <2>1, <2>6 DEF RanHere
  <2>8. executed' \subseteq executed \cup {id} BY <2>0, <2>3 DEF Adds
  <2>9. \A d : RanHere(d) => RanHere(d)' BY <1>1, <2>1, RanHereStays
  <2>10. \A d \in executed' : RanHere(d)' BY <2>7, <2>8, <2>9 DEF Remembered
  <2>11. \A j \in 1..Len(batch) : j < next + 1 => j < First \/ j = next BY <2>2, <1>1
  <2>12. ASSUME NEW j \in 1..Len(batch), j < next + 1 PROVE RanHere(ID(batch[j]))'
    <3>1. CASE j = next BY <2>0, <2>1, <2>7, <3>1 DEF ID, RanHere
    <3>2. CASE j < First BY <2>1, <2>9, <3>2 DEF Remembered, ID, RanHere
    <3>3. QED BY <2>11, <2>12, <3>1, <3>2
  <2>13. QED BY <2>1, <2>2, <2>10, <2>12 DEF Remembered, ID, RanHere
<1>7. ASSUME UNCHANGED <<batch, ran, executed>>, height <= height', height' \in Nat,
             \A j \in 1..Len(batch) : txs'[batch[j]].data = txs[batch[j]].data,
             \A j \in 1..Len(batch) : j < First' => j < First \/ RanHere(ID(batch[j]))
      PROVE  Remembered'
  <2>1. \A d : RanHere(d) => RanHere(d)' BY <1>7, RanHereStays
  <2>2. \A d \in executed' : RanHere(d)' BY <1>7, <2>1 DEF Remembered
  <2>3. ASSUME NEW j \in 1..Len(batch), j < First' PROVE RanHere(ID(batch[j]))'
    <3>1. RanHere(ID(batch[j])) BY <1>7, <2>3 DEF Remembered
    <3>2. PICK e : e = ID(batch[j]) OBVIOUS
    <3>3. RanHere(e)' BY <2>1, <3>1, <3>2
    <3>4. QED BY <1>7, <3>2, <3>3 DEF ID, RanHere
  <2>4. QED BY <1>7, <2>2, <2>3 DEF Remembered, ID, RanHere
<1>8. CASE SkipReplay BY <1>1, <1>7, <1>8 DEF SkipReplay, IsTxReplay, Done, Goto, First, Remembered
<1>9. CASE SettleLoan \/ ApproveLoan BY <1>1, <1>7, <1>9 DEF SettleLoan, ApproveLoan, Done, Goto, First
<1>10. CASE ConfirmTxs
  <2>1. UNCHANGED <<batch, ran, executed, height>> /\ First' = First
    BY <1>10 DEF ConfirmTxs, Goto, First
  <2>2. \A j \in 1..Len(batch) : txs'[batch[j]].data = txs[batch[j]].data
    BY <1>1, <1>10, ConfirmAt
  <2>3. QED BY <1>1, <1>7, <2>1, <2>2
<1>11. ASSUME NEW c \in Clients, NEW p \in Payloads, Submit(c, p) PROVE Remembered'
  BY <1>1, <1>7, <1>11, SubmitAt DEF Submit, First
<1>12. CASE BeginBlock BY <1>1, <1>7, <1>12, ChainAssumption DEF BeginBlock, Goto, First, NextHeight
<1>13. CASE UNCHANGED <<txs, batch, ran, executed, height, First>>
  BY <1>1, <1>7, <1>13
<1>14. CASE UNCHANGED vars BY <1>13, <1>14 DEF vars, First
<1>15. CASE (\E c \in Clients : RecordTx(c)) \/ Tick \/ (\E i \in DOMAIN loans : FallDue(i))
  BY <1>13, <1>15 DEF RecordTx, Tick, FallDue, First
<1>16. CASE \E i \in todo : DefaultLoan(i) BY <1>13, <1>16 DEF DefaultLoan, First
<1>17. QED
  BY <1>2, <1>3, <1>4, <1>5, <1>6, <1>8, <1>9, <1>10, <1>11, <1>12, <1>14, <1>15, <1>16
  DEF Next, BlockStep

-----------------------------------------------------------------------------
\* What a step may do to the transactions: a new one is pending, and only
\* ConfirmTxs changes the others.
LEMMA TxsKept ==
  ASSUME TypeOK, [Next]_vars
  PROVE  \/ ConfirmTxs
         \/ \E c \in Clients, p \in Payloads : Submit(c, p)
         \/ UNCHANGED txs
<1> USE DEF inputs, block, store, ghosts
<1>1. CASE UNCHANGED vars BY <1>1 DEF vars
<1>2. CASE Crash \/ Shutdown \/ Restart \/ Tick BY <1>2 DEF Crash, Shutdown, Restart, Tick
<1>3. CASE (\E c \in Clients : RecordTx(c)) \/ (\E i \in DOMAIN loans : FallDue(i))
  BY <1>3 DEF RecordTx, FallDue
<1>4. CASE BeginBlock \/ Drain \/ SkipReplay \/ Repay \/ SettleLoan
  BY <1>4 DEF BeginBlock, Drain, SkipReplay, Repay, SettleLoan
<1>5. CASE RequestLoan \/ ApproveLoan \/ PanicLoan \/ EndBlock
           \/ (\E i \in todo : DefaultLoan(i))
  BY <1>5 DEF RequestLoan, ApproveLoan, PanicLoan, EndBlock, DefaultLoan
<1>6. QED BY <1>1, <1>2, <1>3, <1>4, <1>5 DEF Next, BlockStep

LEMMA ConfirmedStep ==
  ASSUME TypeOK, Remembered, ConfirmedRan, [Next]_vars PROVE ConfirmedRan'
<1>1. \A d, b : (\E i \in DOMAIN ran : ran[i].data = d /\ ran[i].block <= b)
              => (\E i \in DOMAIN ran' : ran'[i].data = d /\ ran'[i].block <= b)
  BY RanGrows
<1>2. ASSUME NEW n \in DOMAIN txs, txs[n].status = "confirmed", txs'[n] = txs[n]
      PROVE  \E i \in DOMAIN ran' : ran'[i].data = txs'[n].data /\ ran'[i].block <= txs'[n].block
  BY <1>1, <1>2 DEF ConfirmedRan, ID
<1>3. CASE ConfirmTxs
  <2>1. DOMAIN txs' = DOMAIN txs BY <1>3, ConfirmAt
  <2> SUFFICES ASSUME NEW n \in DOMAIN txs, txs'[n].status = "confirmed"
               PROVE  \E i \in DOMAIN ran' :
                        ran'[i].data = txs'[n].data /\ ran'[i].block <= txs'[n].block
    BY <2>1 DEF ConfirmedRan, ID
  <2>2. CASE ~Confirms(n) BY <1>2, <1>3, <2>2, ConfirmAt
  <2>3. CASE Confirms(n)
    <3>1. txs'[n].data = txs[n].data /\ txs'[n].block = height BY <1>3, <2>3, ConfirmAt
    <3>2. PICK j \in 1..Len(batch) : ID(batch[j]) = ID(n)
      <4>1. DOMAIN batch = 1..Len(batch) BY DEF TypeOK
      <4>2. QED BY <2>3, <4>1 DEF Confirms, InBatch
    <3>3. j < First
      <4>1. next > Len(batch) /\ First = next BY <1>3 DEF ConfirmTxs, First
      <4>2. next \in Nat /\ Len(batch) \in Nat BY QueueTypes
      <4>3. QED BY <4>1, <4>2
    <3>4. RanHere(ID(n)) BY <3>2, <3>3 DEF Remembered
    <3>5. PICK i \in 1..Len(ran) : ran[i].data = txs[n].data /\ ran[i].block <= height
      BY <3>4 DEF RanHere, ID
    <3>6. i \in DOMAIN ran' /\ ran'[i] = ran[i] BY RanGrows
    <3>7. QED BY <3>1, <3>5, <3>6
  <2>4. QED BY <2>2, <2>3
<1>4. ASSUME NEW c \in Clients, NEW p \in Payloads, Submit(c, p) PROVE ConfirmedRan'
  BY <1>2, <1>4, SubmitAt DEF ConfirmedRan, ID
<1>5. CASE UNCHANGED txs BY <1>2, <1>5 DEF ConfirmedRan, ID
<1>6. QED BY <1>3, <1>4, <1>5, TxsKept

-----------------------------------------------------------------------------
\* What a step may do to the history and to the submitters.
LEMMA Recorded ==
  ASSUME TypeOK, NEW c \in Clients, RecordTx(c)
  PROVE  /\ UNCHANGED <<txs, height, saved, pc>>
         /\ client' = [client EXCEPT ![c] = 0] /\ client[c] \in DOMAIN txs
         /\ \A n : InHistory(n)' => InHistory(n) \/ n = client[c]
<1>1. client[c] \in DOMAIN txs BY DEF RecordTx, TypeOK
<1>2. history \in Seq(DOMAIN txs) BY DEF TypeOK
<1> DEFINE s == Append(history, client[c])
<1>3. /\ s \in Seq(DOMAIN txs) /\ Len(s) = Len(history) + 1 /\ Len(history) \in Nat
      /\ s[Len(history) + 1] = client[c]
      /\ \A i \in 1..Len(history) : s[i] = history[i]
  BY <1>1, <1>2, AppendAt
<1>4. history' = Last(s, HistoryCap) BY DEF RecordTx
<1> HIDE DEF s
<1>5. /\ history' \in Seq(DOMAIN txs)
      /\ \A i \in 1..Len(history') : \E j \in 1..Len(s) : history'[i] = s[j]
  BY <1>3, <1>4, ChainAssumption, LastType
<1>6. DOMAIN history' = 1..Len(history') /\ DOMAIN history = 1..Len(history)
  BY <1>2, <1>5
<1>7. \A j \in 1..Len(s) : j \in 1..Len(history) \/ j = Len(history) + 1 BY <1>3
<1>8. ASSUME NEW n, InHistory(n)' PROVE InHistory(n) \/ n = client[c] BY <1>3, <1>5, <1>6, <1>7, <1>8 DEF InHistory
<1>9. QED BY <1>1, <1>8 DEF RecordTx, store

LEMMA HistoryKept ==
  ASSUME [Next]_vars
  PROVE  \/ \E c \in Clients : RecordTx(c)
         \/ \E c \in Clients, p \in Payloads : Submit(c, p)
         \/ history' = <<>> /\ client' = [c \in Clients |-> 0]
         \/ UNCHANGED <<history, client>>
<1> USE DEF inputs, block, store, ghosts
<1>1. CASE UNCHANGED vars BY <1>1 DEF vars
<1>2. CASE Crash \/ Shutdown \/ PanicLoan BY <1>2 DEF Crash, Shutdown, PanicLoan, Down
<1>3. CASE Restart \/ Tick \/ (\E i \in DOMAIN loans : FallDue(i))
  BY <1>3 DEF Restart, Tick, FallDue
<1>4. CASE BeginBlock \/ Drain \/ SkipReplay \/ Repay \/ SettleLoan
  BY <1>4 DEF BeginBlock, Drain, SkipReplay, Repay, SettleLoan
<1>5. CASE RequestLoan \/ ApproveLoan \/ ConfirmTxs \/ EndBlock
           \/ (\E i \in todo : DefaultLoan(i))
  BY <1>5 DEF RequestLoan, ApproveLoan, ConfirmTxs, EndBlock, DefaultLoan
<1>6. QED BY <1>1, <1>2, <1>3, <1>4, <1>5 DEF Next, BlockStep

LEMMA UnrecordedStep == ASSUME TypeOK, Unrecorded, [Next]_vars PROVE Unrecorded'
<1> USE DEF Unrecorded
<1>0. /\ \A c \in Clients : client[c] # 0 => client[c] \in 1..Len(txs)
      /\ Len(txs) \in Nat /\ DOMAIN txs = 1..Len(txs)
  BY DEF TypeOK
<1>1. ASSUME NEW r \in Clients, RecordTx(r) PROVE Unrecorded'
  <2>1. /\ UNCHANGED txs /\ client' = [client EXCEPT ![r] = 0]
        /\ \A n : InHistory(n)' => InHistory(n) \/ n = client[r]
    BY <1>1, Recorded
  <2>2. \A c \in Clients : client'[c] # 0 => c # r /\ client'[c] = client[c]
    BY <2>1 DEF TypeOK
  <2>3. ASSUME NEW c \in Clients, client'[c] # 0 PROVE ~InHistory(client[c])'
                                                      /\ client'[c] = client[c] BY <2>1, <2>2, <2>3 DEF InHistory
  <2>4. QED BY <2>1, <2>2, <2>3 DEF InHistory
<1>2. ASSUME NEW s \in Clients, NEW p \in Payloads, Submit(s, p) PROVE Unrecorded'
  <2> DEFINE k == Len(txs) + 1
  <2>1. /\ \A n \in DOMAIN txs : txs'[n] = txs[n]
        /\ txs'[k].status = "pending"
    BY <1>2, SubmitAt
  <2>2. history' = history /\ client' = [client EXCEPT ![s] = k] BY <1>2 DEF Submit
  <2>3. ~InHistory(k) BY <1>0 DEF InHistory, TypeOK
  <2>4. \A c \in Clients : client'[c] = IF c = s THEN k ELSE client[c] BY <2>2 DEF TypeOK
  <2>5. k # 0 /\ \A c \in Clients : client[c] # k BY <1>0
  <2> HIDE DEF k
  <2>6. ASSUME NEW c \in Clients, client'[c] # 0
        PROVE  /\ txs'[client'[c]].status = "pending" /\ ~InHistory(client[c])'
               /\ \A d \in Clients : d # c => client'[d] # client'[c]
    <3>1. CASE c = s BY <2>1, <2>2, <2>3, <2>4, <2>5, <3>1 DEF InHistory
    <3>2. CASE c # s BY <1>0, <2>1, <2>2, <2>4, <2>5, <2>6, <3>2 DEF InHistory
    <3>3. QED BY <3>1, <3>2
  <2>7. QED BY <2>6 DEF InHistory
<1>3. CASE history' = <<>> /\ client' = [c \in Clients |-> 0] BY <1>3
<1>4. CASE UNCHANGED <<history, client>> /\ UNCHANGED txs BY <1>4 DEF InHistory
<1>5. CASE ConfirmTxs
  <2>1. UNCHANGED <<history, client>> BY <1>5 DEF ConfirmTxs
  <2>2. \A c \in Clients : client[c] # 0 => txs'[client[c]] = txs[client[c]]
    BY <1>0, <1>5, ConfirmAt DEF Confirms
  <2>3. QED BY <2>1, <2>2 DEF InHistory
<1>6. QED BY <1>1, <1>2, <1>3, <1>4, <1>5, HistoryKept, TxsKept

\* Only a restart lowers the height, and it finds an empty history.
LEMMA HeightKept ==
  ASSUME TypeOK, Placed, [Next]_vars
  PROVE  /\ height <= height' \/ history' = <<>>
         /\ \/ history' = <<>>
            \/ EndBlock
            \/ saved' = saved /\ (pc = "end" => pc' = "end")
<1> USE DEF inputs, block, store, ghosts
<1>0. height \in Nat BY ChainAssumption DEF TypeOK
<1>1. CASE UNCHANGED vars BY <1>0, <1>1 DEF vars
<1>2. CASE Crash \/ Shutdown \/ PanicLoan BY <1>2 DEF Crash, Shutdown, PanicLoan, Down
<1>3. CASE Restart BY <1>3 DEF Restart, Placed
<1>4. CASE Tick \/ (\E i \in DOMAIN loans : FallDue(i)) \/ (\E c \in Clients : RecordTx(c))
           \/ (\E c \in Clients, p \in Payloads : Submit(c, p))
  <2>1. UNCHANGED <<height, saved, pc>> BY <1>4 DEF Tick, FallDue, RecordTx, Submit
  <2>2. QED BY <1>0, <2>1
<1>5. CASE BeginBlock BY <1>0, <1>5, ChainAssumption DEF BeginBlock, NextHeight
<1>6. CASE Drain \/ SkipReplay \/ Repay \/ SettleLoan
  BY <1>0, <1>6 DEF Drain, SkipReplay, Repay, SettleLoan, Executing
<1>7. CASE RequestLoan \/ ApproveLoan \/ ConfirmTxs \/ (\E i \in todo : DefaultLoan(i))
  <2>1. UNCHANGED <<height, saved>> /\ pc # "end"
    BY <1>7 DEF RequestLoan, ApproveLoan, ConfirmTxs, DefaultLoan, Executing
  <2>2. QED BY <1>0, <2>1
<1>8. CASE EndBlock BY <1>0, <1>8 DEF EndBlock
<1>9. QED BY <1>1, <1>2, <1>3, <1>4, <1>5, <1>6, <1>7, <1>8 DEF Next, BlockStep

\* What the history shows as confirmed after a step was there before it, or
\* has just been confirmed at the height of the process.
LEMMA ConfirmedBefore ==
  ASSUME TypeOK, Unrecorded, [Next]_vars, ~ConfirmTxs,
         NEW n \in DOMAIN txs', InHistory(n)', txs'[n].status = "confirmed"
  PROVE  /\ n \in DOMAIN txs /\ InHistory(n) /\ txs[n].status = "confirmed"
         /\ txs'[n].block = txs[n].block
<1>1. ASSUME NEW r \in Clients, RecordTx(r)
      PROVE  UNCHANGED txs /\ InHistory(n) BY <1>1, Recorded DEF RecordTx, Unrecorded
<1>2. ASSUME NEW c \in Clients, NEW p \in Payloads, Submit(c, p)
      PROVE  n \in DOMAIN txs /\ txs'[n] = txs[n] /\ InHistory(n) BY <1>2, SubmitAt DEF Submit, InHistory
<1>3. CASE history' = <<>> BY <1>3 DEF InHistory
<1>4. CASE UNCHANGED <<history, txs>> BY <1>4 DEF InHistory
<1>5. QED BY <1>1, <1>2, <1>3, <1>4, HistoryKept, TxsKept

LEMMA BoundedStep ==
  ASSUME TypeOK, Placed, Unrecorded, HistoryBounded, [Next]_vars PROVE HistoryBounded'
<1> SUFFICES ASSUME NEW n \in DOMAIN txs', InHistory(n)', txs'[n].status = "confirmed"
             PROVE  txs'[n].block <= height'
  BY DEF HistoryBounded
<1>1. history' # <<>> BY DEF InHistory
<1>2. height <= height' BY <1>1, HeightKept
<1>3. CASE ConfirmTxs
  <2>1. /\ n \in DOMAIN txs /\ history' = history /\ height' = height
    BY <1>3, ConfirmAt DEF ConfirmTxs
  <2>2. InHistory(n) BY <2>1 DEF InHistory
  <2>3. CASE Confirms(n) BY <1>2, <1>3, <2>1, <2>3, ConfirmAt
  <2>4. CASE ~Confirms(n) BY <1>3, <2>1, <2>2, <2>4, ConfirmAt DEF HistoryBounded
  <2>5. QED BY <2>3, <2>4
<1>4. CASE ~ConfirmTxs
  <2>1. n \in DOMAIN txs /\ txs[n].block <= height /\ txs'[n].block = txs[n].block
    BY <1>4, ConfirmedBefore DEF HistoryBounded
  <2>2. txs[n].block \in Nat /\ height \in Nat /\ height' \in Nat
    <3>1. txs[n] \in Tx /\ height \in Nat BY <2>1, ChainAssumption DEF TypeOK
    <3>2. height' \in Nat BY TypeStep, ChainAssumption DEF TypeOK
    <3>3. QED BY <3>1, <3>2 DEF Tx
  <2>3. QED BY <1>2, <2>1, <2>2
<1>5. QED BY <1>3, <1>4

LEMMA DurableStep ==
  ASSUME TypeOK, Placed, Unrecorded, HistoryBounded, HistoryDurable, [Next]_vars
  PROVE  HistoryDurable'
<1> SUFFICES ASSUME pc' # "end", NEW n \in DOMAIN txs', InHistory(n)',
                    txs'[n].status = "confirmed"
             PROVE  txs'[n].block <= saved'
  BY DEF HistoryDurable, InHistory
<1>1. history' # <<>> BY DEF InHistory
<1>2. ~ConfirmTxs BY DEF ConfirmTxs, Goto
<1>3. /\ n \in DOMAIN txs /\ InHistory(n) /\ txs[n].status = "confirmed"
      /\ txs'[n].block = txs[n].block
  BY <1>2, ConfirmedBefore
<1>4. CASE EndBlock BY <1>3, <1>4 DEF EndBlock, HistoryBounded
<1>5. CASE saved' = saved /\ pc # "end" BY <1>3, <1>5 DEF HistoryDurable
<1>6. QED BY <1>1, <1>4, <1>5, HeightKept

-----------------------------------------------------------------------------
(* The fees.  The pool counts in words, so what is kept of a sum is its    *)
(* rest: it grows by what rounding keeps back, whatever wraps in between.   *)
Rests == INSTANCE Sums

LEMMA SameWord ==
  ASSUME NEW a \in Int, NEW b \in Int, NEW k \in Int, NEW m \in Int, m = k * W, a = b + m
  PROVE  a % W = b % W
BY ChainAssumption, Rests!SameRest

LEMMA RestGrows ==
  ASSUME NEW d \in Int, NEW e \in Nat, NEW n \in Nat, d % W <= n
  PROVE  (d + e) % W <= n + e
<1>1. W \in Nat /\ W # 0 BY ChainAssumption
<1>2. PICK q \in Int, y \in Nat : q = d \div W /\ y = d % W /\ d = W * q + y
  BY <1>1, Rests!DivisionWithRest
<1>3. PICK s \in Int, z \in Nat : s = d + e /\ z = y + e BY <1>2
<1>4. PICK m \in Int : m = q * W BY <1>1, <1>2
<1>5. s = z + m BY <1>1, <1>2, <1>3, <1>4
<1>6. s % W = z % W BY <1>5, <1>4, SameWord
<1>7. PICK p \in Int, v \in Nat : p = z \div W /\ v = z % W /\ z = W * p + v /\ v < W
  BY <1>1, <1>3, Rests!DivisionWithRest
<1>8. p >= 0
  <2>1. SUFFICES ASSUME p <= -1 PROVE FALSE BY <1>7
  <2>2. W * p <= -W BY <1>1, <1>7, <2>1
  <2>3. QED BY <1>1, <1>3, <1>7, <2>2
<1>9. W * p >= 0 BY <1>1, <1>7, <1>8
<1>10. v <= z BY <1>1, <1>7, <1>9
<1>11. s % W = v BY <1>6, <1>7
<1>12. y <= n BY <1>2
<1>13. v <= n + e BY <1>3, <1>10, <1>12
<1>14. QED BY <1>3, <1>11, <1>13

\* What a word keeps of a sum.
LEMMA Wrapped ==
  ASSUME NEW x \in Nat
  PROVE  \E k, m \in Int : m = k * W /\ x % W = x - m
<1>1. W \in Nat /\ W # 0 BY ChainAssumption
<1>2. PICK k \in Int : k = x \div W BY <1>1, Rests!DivisionWithRest
<1>3. x = W * k + (x % W) /\ x % W \in Int BY <1>1, <1>2, Rests!DivisionWithRest
<1>4. PICK y \in Int : y = x % W /\ x = W * k + y BY <1>3
<1>5. PICK m \in Int : m = W * k BY <1>1
<1>6. m = k * W BY <1>1, <1>5
<1>7. y = x - m BY <1>4, <1>5
<1>8. QED BY <1>4, <1>6, <1>7

\* What a repayment leaves undivided: less than 5 units.
LEMMA SharesOf ==
  ASSUME NEW x \in Nat, 25 * x < W
  PROVE  \E a, b, c \in Nat :
           /\ \A p \in {"SalaryRelay", "SalaryRecord"} : Share(p, x) = a
           /\ Share("SeedLoanReserve", x) = b
           /\ \A p \in {"BadDebtReserve", "Community"} : Share(p, x) = c
           /\ Share("TotalBalance", x) = x
           /\ a + a + b + c + c <= x /\ x <= a + a + b + c + c + 4
<1>1. W \in Nat BY ChainAssumption
<1>2. PICK u \in Nat, v \in Nat, w \in Nat : u = x * 25 /\ v = x * 20 /\ w = x * 15 OBVIOUS
<1>3. u % W = u /\ v % W = v /\ w % W = w BY <1>1, <1>2
<1>4. PICK a \in Nat : a = u \div 100 BY <1>2
<1>5. PICK b \in Nat : b = v \div 100 BY <1>2
<1>6. PICK c \in Nat : c = w \div 100 BY <1>2
<1>7. Fee(25, x) = a /\ Fee(20, x) = b /\ Fee(15, x) = c BY <1>2, <1>3, <1>4, <1>5, <1>6 DEF Fee
<1>8. 100 * a <= 25 * x /\ 25 * x <= 100 * a + 99 BY <1>2, <1>4
<1>9. 100 * b <= 20 * x /\ 20 * x <= 100 * b + 99 BY <1>2, <1>5
<1>10. 100 * c <= 15 * x /\ 15 * x <= 100 * c + 99 BY <1>2, <1>6
<1>11. a + a + b + c + c <= x /\ x <= a + a + b + c + c + 4 BY <1>8, <1>9, <1>10
<1>12. /\ \A p \in {"SalaryRelay", "SalaryRecord"} : Share(p, x) = a
       /\ Share("SeedLoanReserve", x) = b
       /\ \A p \in {"BadDebtReserve", "Community"} : Share(p, x) = c
       /\ Share("TotalBalance", x) = x
  BY <1>7 DEF Share
<1>13. QED BY <1>11, <1>12

LEMMA PoolGrows ==
  ASSUME TypeOK, NEW x \in Nat, NEW n \in Nat, 25 * x < W, CollectFees(x),
         (pool["TotalBalance"] - Allocated) % W <= n
  PROVE  (pool'["TotalBalance"] - Allocated') % W <= n + 4
<1>1. PICK a, b, c \in Nat :
           /\ \A p \in {"SalaryRelay", "SalaryRecord"} : Share(p, x) = a
           /\ Share("SeedLoanReserve", x) = b
           /\ \A p \in {"BadDebtReserve", "Community"} : Share(p, x) = c
           /\ Share("TotalBalance", x) = x
           /\ a + a + b + c + c <= x /\ x <= a + a + b + c + c + 4
  BY SharesOf
<1>2. \A p \in Parts : pool[p] \in Nat BY ChainAssumption DEF TypeOK
<1>3. PICK t \in Nat : t = pool["TotalBalance"] BY <1>2 DEF Parts
<1>4. PICK p1 \in Nat, p2 \in Nat, p3 \in Nat, p4 \in Nat, p5 \in Nat :
        /\ p1 = pool["SalaryRelay"] /\ p2 = pool["SalaryRecord"] /\ p3 = pool["SeedLoanReserve"]
        /\ p4 = pool["BadDebtReserve"] /\ p5 = pool["Community"]
  BY <1>2 DEF Parts
<1>5. PICK y0 \in Nat, y1 \in Nat, y2 \in Nat : y0 = t + x /\ y1 = p1 + a /\ y2 = p2 + a
  OBVIOUS
<1>6. PICK y3 \in Nat, y4 \in Nat, y5 \in Nat : y3 = p3 + b /\ y4 = p4 + c /\ y5 = p5 + c
  OBVIOUS
<1>7. PICK k0 \in Int, m0 \in Int : m0 = k0 * W /\ y0 % W = y0 - m0 BY Wrapped
<1>8. PICK k1 \in Int, m1 \in Int : m1 = k1 * W /\ y1 % W = y1 - m1 BY Wrapped
<1>9. PICK k2 \in Int, m2 \in Int : m2 = k2 * W /\ y2 % W = y2 - m2 BY Wrapped
<1>10. PICK k3 \in Int, m3 \in Int : m3 = k3 * W /\ y3 % W = y3 - m3 BY Wrapped
<1>11. PICK k4 \in Int, m4 \in Int : m4 = k4 * W /\ y4 % W = y4 - m4 BY Wrapped
<1>12. PICK k5 \in Int, m5 \in Int : m5 = k5 * W /\ y5 % W = y5 - m5 BY Wrapped
<1>13. /\ pool'["SalaryRelay"] = y1 % W /\ pool'["SalaryRecord"] = y2 % W
      /\ pool'["SeedLoanReserve"] = y3 % W /\ pool'["BadDebtReserve"] = y4 % W
      /\ pool'["Community"] = y5 % W /\ pool'["TotalBalance"] = y0 % W
  BY <1>1, <1>3, <1>4, <1>6, <1>5 DEF CollectFees, Parts
<1>14. PICK d \in Int, e \in Nat, k \in Int :
        /\ d = t - (p1 + p2 + p3 + p4 + p5) /\ e = x - (a + a + b + c + c) /\ e <= 4
        /\ k = (k1 + k2 + k3 + k4 + k5) - k0
  BY <1>1
<1>15. PICK m \in Int : m = k * W BY ChainAssumption
<1>16. m = (m1 + m2 + m3 + m4 + m5) - m0
  BY <1>7, <1>14, <1>15, <1>8, <1>9, <1>10, <1>11, <1>12, ChainAssumption
<1>17. pool'["TotalBalance"] - Allocated' =
         (y0 - m0) - ((y1 - m1) + (y2 - m2) + (y3 - m3) + (y4 - m4) + (y5 - m5))
  BY <1>7, <1>13, <1>8, <1>9, <1>10, <1>11, <1>12 DEF Allocated
<1>18. d % W <= n BY <1>3, <1>4, <1>14 DEF Allocated
<1>19. (d + e) % W <= n + e BY <1>18, RestGrows
<1>20. PICK g \in Int, h \in Int : g = pool'["TotalBalance"] - Allocated' /\ h = d + e BY <1>17
<1>21. g = h + m BY <1>1, <1>6, <1>5, <1>14, <1>16, <1>17, <1>20
<1>22. g % W = h % W BY <1>15, <1>21, SameWord
<1>23. PICK v \in Int : v = h % W BY ChainAssumption, Rests!DivisionWithRest
<1>24. v <= n + e BY <1>19, <1>20, <1>23
<1>25. QED BY <1>14, <1>20, <1>22, <1>23, <1>24

\* Transactions keep their types and data; only a repayment moves the pool.
LEMMA TypesStay ==
  ASSUME TypeOK, [Next]_vars
  PROVE  \A n \in DOMAIN txs : /\ n \in DOMAIN txs' /\ txs'[n].type = txs[n].type
                               /\ txs'[n].data = txs[n].data
BY ConfirmAt, SubmitAt, TxsKept

LEMMA PoolMoves == ASSUME [Next]_vars PROVE Repay \/ UNCHANGED pool
<1> USE DEF inputs, block, store, ghosts
<1>1. CASE UNCHANGED vars BY <1>1 DEF vars
<1>2. CASE Crash \/ Shutdown \/ Restart \/ Tick BY <1>2 DEF Crash, Shutdown, Restart, Tick
<1>3. CASE (\E c \in Clients, p \in Payloads : Submit(c, p)) \/ (\E c \in Clients : RecordTx(c))
           \/ (\E i \in DOMAIN loans : FallDue(i))
  BY <1>3 DEF Submit, RecordTx, FallDue
<1>4. CASE BeginBlock \/ Drain \/ SkipReplay \/ ConfirmTxs \/ SettleLoan
  BY <1>4 DEF BeginBlock, Drain, SkipReplay, ConfirmTxs, SettleLoan
<1>5. CASE RequestLoan \/ ApproveLoan \/ PanicLoan \/ EndBlock \/ (\E i \in todo : DefaultLoan(i))
  BY <1>5 DEF RequestLoan, ApproveLoan, PanicLoan, EndBlock, DefaultLoan
<1>6. QED BY <1>1, <1>2, <1>3, <1>4, <1>5 DEF Next, BlockStep

\* What the executions add to the repayments.
LEMMA RepaymentsGrow ==
  ASSUME TypeOK, Queued, [Next]_vars
  PROVE  /\ Cardinality(Repayments) \in Nat /\ Cardinality(Repayments') \in Nat
         /\ Cardinality(Repayments) <= Cardinality(Repayments')
         /\ Repay => Cardinality(Repayments') = Cardinality(Repayments) + 1
<1>1. /\ Len(ran) \in Nat /\ Len(ran') \in Nat /\ Len(ran) <= Len(ran')
      /\ DOMAIN ran = 1..Len(ran) /\ DOMAIN ran' = 1..Len(ran')
      /\ \A i \in 1..Len(ran) : ran'[i] = ran[i] /\ i \in 1..Len(ran')
  BY RanGrows
<1>2. \A i \in DOMAIN ran : ran[i].tx \in DOMAIN txs BY <1>1, QueueTypes DEF Queued
<1>3. \A i \in DOMAIN ran : txs'[ran'[i].tx].type = txs[ran[i].tx].type BY <1>1, <1>2, TypesStay
<1>4. Repayments \subseteq Repayments' BY <1>1, <1>3 DEF Repayments
<1>5. IsFiniteSet(Repayments') /\ IsFiniteSet(Repayments)
  <2>1. 1 \in Int /\ Len(ran') \in Int BY <1>1
  <2>2. IsFiniteSet(1..Len(ran')) BY <2>1, FS_Interval, Zenon
  <2>3. Repayments' \subseteq 1..Len(ran') BY <1>1 DEF Repayments
  <2>4. QED BY <1>4, <2>2, <2>3, FS_Subset
<1>6. Cardinality(Repayments) \in Nat /\ Cardinality(Repayments') \in Nat
      /\ Cardinality(Repayments) <= Cardinality(Repayments')
  BY <1>4, <1>5, FS_Subset, FS_CardinalityType
<1>7. ASSUME Repay PROVE Cardinality(Repayments') = Cardinality(Repayments) + 1
  <2>1. PICK n : n = batch[next] OBVIOUS
  <2>2. next <= Len(batch) /\ txs[n].type = "repay" /\ Adds(n) BY <1>7, <2>1, MarkAdds DEF Repay, Executing
  <2>3. n \in 1..Len(txs) /\ ID(n) \in Data BY <2>1, <2>2, BatchType
  <2>4. PICK k \in Nat : k = Len(ran) + 1 BY <1>1
  <2>5. DOMAIN ran' = 1..k /\ ran'[k] = [tx |-> n, data |-> ID(n), block |-> height]
    BY <2>2, <2>3, <2>4, AddsAt
  <2>6. ran'[k].tx = n BY <2>5
  <2>7. txs'[n].type = "repay" BY <2>2, <2>3, QueueTypes, TypesStay
  <2>8. k \in DOMAIN ran' /\ \A i \in DOMAIN ran' : i \in DOMAIN ran \/ i = k BY <1>1, <2>4, <2>5
  <2>9. k \in Repayments' BY <2>6, <2>7, <2>8 DEF Repayments
  <2>10. Repayments' \subseteq Repayments \cup {k} BY <1>3, <2>8 DEF Repayments
  <2>11. k \notin Repayments BY <1>1, <2>4 DEF Repayments
  <2>12. Repayments' = Repayments \cup {k} BY <1>4, <2>9, <2>10
  <2>13. QED BY <1>5, <2>11, <2>12, FS_AddElement
<1>8. QED BY <1>6, <1>7

LEMMA PoolStep ==
  ASSUME TypeOK, Queued, PoolParts, [Next]_vars
  PROVE  PoolParts'
<1>1. PICK m \in Nat, k \in Nat : m = Cardinality(Repayments) /\ k = Cardinality(Repayments') BY RepaymentsGrow
<1>2. m <= k BY <1>1, RepaymentsGrow
<1>3. SUFFICES ASSUME \A i \in Repayments' : Divisible(i)'
               PROVE  (pool'["TotalBalance"] - Allocated') % W <= 4 * k
  BY <1>1 DEF PoolParts
<1>4. /\ Len(ran) \in Nat /\ Len(ran') \in Nat /\ Len(ran) <= Len(ran')
      /\ DOMAIN ran = 1..Len(ran) /\ DOMAIN ran' = 1..Len(ran')
      /\ \A i \in 1..Len(ran) : ran'[i] = ran[i] /\ i \in 1..Len(ran')
  BY RanGrows
<1>5. ASSUME NEW i \in Repayments PROVE Divisible(i)
  <2>1. i \in DOMAIN ran /\ i \in DOMAIN ran' /\ ran'[i] = ran[i] BY <1>4 DEF Repayments
  <2>2. ran[i].tx \in DOMAIN txs BY <1>4, <2>1, QueueTypes DEF Queued
  <2>3. txs'[ran'[i].tx] .type = txs[ran[i].tx].type /\ txs'[ran'[i].tx].data = txs[ran[i].tx].data
    BY <2>1, <2>2, TypesStay
  <2>4. i \in Repayments' BY <2>1, <2>3 DEF Repayments
  <2>5. Divisible(i)' BY <1>3, <2>4
  <2>6. QED BY <2>3, <2>5 DEF Divisible, ID
<1>6. (pool["TotalBalance"] - Allocated) % W <= 4 * m BY <1>1, <1>5 DEF PoolParts
<1>7. \A p \in Parts : pool[p] \in Nat BY ChainAssumption DEF TypeOK
<1>8. CASE UNCHANGED pool
  <2>1. pool["TotalBalance"] - Allocated \in Int BY <1>7 DEF Allocated, Parts
  <2>2. PICK r \in Nat : r = (pool["TotalBalance"] - Allocated) % W
    BY <2>1, ChainAssumption, Rests!DivisionWithRest
  <2>3. r <= 4 * k BY <1>2, <1>6, <2>2
  <2>4. QED BY <1>8, <2>2, <2>3 DEF Allocated
<1>9. ASSUME Repay, ~UNCHANGED pool PROVE (pool'["TotalBalance"] - Allocated') % W <= 4 * k
  <2>1. PICK n : n = batch[next] OBVIOUS
  <2>2. /\ next <= Len(batch) /\ Adds(n) /\ txs[n].type = "repay" /\ txs' = txs
        /\ ID(n).bytes >= 40 /\ CollectFees(ID(n).amount)
    BY <1>9, <2>1, MarkAdds DEF Repay, Executing, inputs
  <2>3. n \in 1..Len(txs) /\ ID(n) \in Data /\ ID(n).amount \in Nat BY <2>1, <2>2, BatchType
  <2>4. PICK x \in Nat : x = ID(n).amount BY <2>3
  <2>5. PICK j \in Nat : j = Len(ran) + 1 BY <1>4
  <2>6. DOMAIN ran' = 1..j /\ ran'[j] = [tx |-> n, data |-> ID(n), block |-> height]
    BY <2>2, <2>3, <2>5, AddsAt
  <2>7. j \in DOMAIN ran' /\ ran'[j].tx = n
    <3>1. j >= 1 BY <1>4, <2>5
    <3>2. QED BY <2>6, <3>1
  <2>8. j \in Repayments' BY <2>2, <2>7 DEF Repayments
  <2>9. Divisible(j)' BY <1>3, <2>8
  <2>10. 25 * x < W BY <2>2, <2>4, <2>7, <2>9 DEF Divisible, ID
  <2>11. 4 * m \in Nat /\ k = m + 1 BY <1>1, <1>9, RepaymentsGrow
  <2>12. (pool'["TotalBalance"] - Allocated') % W <= 4 * m + 4
    BY <1>6, <2>2, <2>4, <2>10, <2>11, PoolGrows
  <2>13. QED BY <2>11, <2>12
<1>10. QED BY <1>8, <1>9, PoolMoves

LEMMA PoolStart == ASSUME Init PROVE PoolParts
<1>1. pool["TotalBalance"] - Allocated = 0 /\ Repayments = {}
  BY DEF Init, NewPool, Parts, Allocated, Repayments
<1>2. 0 % W = 0 BY ChainAssumption
<1>3. QED BY <1>1, <1>2, FS_EmptySet DEF PoolParts

-----------------------------------------------------------------------------
LEMMA IInvInit == Init => IInv
<1> SUFFICES ASSUME Init PROVE IInv OBVIOUS
<1>1. TypeOK BY TypeInit
<1>2. /\ Len(ran) = 0 /\ Len(mempool) = 0 /\ Len(batch) = 0 /\ DOMAIN ran = {}
      /\ DOMAIN txs = {}
  BY DEF Init
<1>3. Placed BY DEF Init, Placed
<1>4. ExecutedOnce BY <1>2, FS_EmptySet DEF Init, Forgotten, ExecutedOnce
<1>5. Queued /\ OrderKept BY <1>2 DEF Queued, OrderKept
<1>6. Remembered BY <1>2 DEF Init, Remembered
<1>7. ConfirmedRan /\ HistoryBounded /\ HistoryDurable
  BY <1>2 DEF ConfirmedRan, HistoryBounded, HistoryDurable
<1>8. Unrecorded BY DEF Init, Unrecorded
<1>9. QED BY <1>1, <1>3, <1>4, <1>5, <1>6, <1>7, <1>8 DEF IInv

(* IInv is inductive.                                                      *)
THEOREM Inductive == Spec => []IInv
<1>1. IInv /\ [Next]_vars => IInv'
  BY TypeStep, PlacedStep, OnceStep, QueuedStep, OrderStep, RememberedStep,
     ConfirmedStep, UnrecordedStep, BoundedStep, DurableStep DEF IInv
<1>2. QED BY IInvInit, <1>1, PTL DEF Spec

(* Every variable keeps its type, over crashes, panics and restarts.       *)
THEOREM TypeCorrect == Spec => []TypeOK
<1>1. IInv => TypeOK BY DEF IInv
<1>2. QED BY <1>1, Inductive, PTL

(* The replay guard: data is executed once more than its mark was lost, to *)
(* an eviction or with the process, or exactly as often (executeTx).       *)
THEOREM OnceUnlessForgotten == Spec => []ExecutedOnce
<1>1. IInv => ExecutedOnce BY DEF IInv
<1>2. QED BY <1>1, Inductive, PTL

(* Drain and the block loop execute transactions in the order of Submit,   *)
(* each at most once, for any batch size and any number of restarts.       *)
THEOREM InOrder == Spec => []OrderKept
<1>1. IInv => OrderKept BY DEF IInv
<1>2. QED BY <1>1, Inductive, PTL

(* What ConfirmTxs reports as confirmed was executed, in the block it      *)
(* names or before it.                                                     *)
THEOREM ConfirmedMeansRan == Spec => []ConfirmedRan
<1>1. IInv => ConfirmedRan BY DEF IInv
<1>2. QED BY <1>1, Inductive, PTL

(* Between blocks the stored height covers every block of the history.     *)
THEOREM HeightsDurable == Spec => []HistoryDurable
<1>1. IInv => HistoryDurable BY DEF IInv
<1>2. QED BY <1>1, Inductive, PTL

(* What runs, runs once and in order, unless its ID was lost.              *)
THEOREM RunsAreSound == Spec => []RunsSound
BY OnceUnlessForgotten, InOrder, PTL DEF RunsSound

(* What the history shows has happened and survives a restart.             *)
THEOREM HistoryIsSound == Spec => []HistorySound
BY ConfirmedMeansRan, HeightsDurable, PTL DEF HistorySound

(* CollectFees divides what comes in, and keeps less than 5 units of each  *)
(* repayment back, however often the counters of the pool wrap, until the  *)
(* product of an amount and its percentage does.                           *)
THEOREM PoolIsDivided == Spec => []PoolParts
<1>1. IInv /\ PoolParts /\ [Next]_vars => PoolParts' BY PoolStep DEF IInv
<1>2. QED BY <1>1, PoolStart, Inductive, PTL DEF Spec
=============================================================================
