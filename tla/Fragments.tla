------------------------------ MODULE Fragments ------------------------------
(***************************************************************************)
(* Repayment in fragments: splitAmount and the plan of inkwell/inkwell.go, *)
(* the scheduler of inkwell/scheduler.go, and payers who ask for the next  *)
(* fragment, pay it and record the payment.  The random weights are        *)
(* arbitrary; so is the jitter, within its half interval, so fragments     *)
(* fall due in the order of the plan.                                      *)
(***************************************************************************)
EXTENDS Integers, Sequences, FiniteSets, SequencesExt, Functions

CONSTANTS Totals, Counts,  \* debts and numbers of fragments (3 to 7)
          Weights,         \* 1 to 1000 in the code
          Payers,          \* goroutines that repay the loan
          FragmentWidth,   \* 2^64 in the code
          MaxPayments      \* bound of the model

\* A debt is a word, and so is what the weights of a split sum to.
ASSUME FragmentsAssumption ==
  /\ FragmentWidth \in Nat /\ Totals \subseteq 0..(FragmentWidth - 1)
  /\ Weights \subseteq Nat \ {0} /\ Counts \subseteq Nat \ {0} /\ MaxPayments \in Nat
  /\ \E m \in Weights \cup {0} : \A w \in Weights, n \in Counts : w <= m /\ n * m < FragmentWidth

VARIABLES total, fragments,  \* Params
          due,               \* how many fragments are past their due time
          payments,          \* what the scheduler recorded, by index
          paying,            \* the fragment each payer is about to pay, 0 if none
          met                \* history: fragments that two payers had at a time

fragmentsVars == <<total, fragments, due, payments, paying, met>>

SumOf(s) == SumFunction(s) % FragmentWidth

Proportional(t, ws) ==
  [i \in DOMAIN ws |-> ((t * ws[i]) % FragmentWidth) \div SumOf(ws)]

\* The rounding error goes to the last fragment.
Rounded(t, f) ==
  IF t > SumOf(f) THEN [f EXCEPT ![Len(f)] = @ + t - SumOf(f)] ELSE f

First(is) == CHOOSE i \in is : \A j \in is : i <= j

(* The last fragment when none is larger, else the first of the largest.   *)
Largest(f) ==
  LET tops == {j \in DOMAIN f : \A k \in DOMAIN f : f[k] <= f[j]} IN
  IF Len(f) \in tops THEN Len(f) ELSE First(tops)

\* A zero fragment gets one without taking it from another.
TopUpFree(f, i) == IF f[i] = 0 THEN [f EXCEPT ![i] = 1] ELSE f

(* A zero fragment borrows one from the largest.                           *)
TopUp(f, i) ==
  IF f[i] # 0 THEN f
  ELSE LET one == [f EXCEPT ![i] = 1]
           m == Largest(one)
       IN  IF m # i /\ one[m] > 1 THEN [one EXCEPT ![m] = @ - 1] ELSE one

\* The loop over the fragments.
AllToppedUp(f) ==
  LET after[n \in 0..Len(f)] == IF n = 0 THEN f ELSE TopUp(after[n - 1], n)
  IN  after[Len(f)]

SplitAmount(t, ws) ==
  IF Len(ws) = 1 THEN <<t>>
  ELSE IF t = 0 THEN [i \in DOMAIN ws |-> 0]
  ELSE LET f == Rounded(t, Proportional(t, ws))
       IN  IF t > Len(f) THEN AllToppedUp(f) ELSE f

FragmentsInit ==
  /\ total \in Totals
  /\ \E n \in Counts : \E ws \in [1..n -> Weights] : fragments = SplitAmount(total, ws)
  /\ due = 0 /\ payments = <<>> /\ paying = [p \in Payers |-> 0] /\ met = {}

-----------------------------------------------------------------------------
Indices == DOMAIN fragments
Unpaid == Indices \ ToSet(payments)

FallDueNext == due < Len(fragments) /\ due' = due + 1
               /\ UNCHANGED <<total, fragments, payments, paying, met>>

\* The last one past its time, paid or not.
NextDueLast == IF due > 0 THEN due ELSE First(Unpaid)

\* The earliest of those past their time, or else the earliest.
NextDue == First(Unpaid)

GetNextDue(p) ==
  /\ paying[p] = 0 /\ Unpaid # {}
  /\ LET i == NextDue IN
     /\ paying' = [paying EXCEPT ![p] = i]
     /\ met' = IF \E q \in Payers : paying[q] = i THEN met \cup {i} ELSE met
  /\ UNCHANGED <<total, fragments, due, payments>>

\* The search for the earliest starts at plan[0], paid or not.
Earliest == 1

(* GetNextFragment of Params: any of those past their time, or else what   *)
(* it takes for the earliest.                                              *)
GetNextFragment(p, i) ==
  /\ paying[p] = 0 /\ Unpaid # {}
  /\ IF Unpaid \cap 1..due # {} THEN i \in Unpaid \cap 1..due ELSE i = Earliest
  /\ paying' = [paying EXCEPT ![p] = i]
  /\ met' = IF \E q \in Payers : paying[q] = i THEN met \cup {i} ELSE met
  /\ UNCHANGED <<total, fragments, due, payments>>

(* The payer paid and records it: RecordPayment does not look whether the  *)
(* fragment is recorded already.                                           *)
RecordPayment(p) ==
  /\ paying[p] # 0 /\ Len(payments) < MaxPayments
  /\ payments' = Append(payments, paying[p])
  /\ paying' = [paying EXCEPT ![p] = 0]
  /\ UNCHANGED <<total, fragments, due, met>>

FragmentsNext ==
  \/ FallDueNext
  \/ \E p \in Payers : GetNextDue(p) \/ RecordPayment(p)
                        \/ \E i \in Indices : GetNextFragment(p, i)

FragmentsSpec == FragmentsInit /\ [][FragmentsNext]_fragmentsVars

-----------------------------------------------------------------------------
RemainingAmount == SumOf([i \in Indices |-> IF i \in Unpaid THEN fragments[i] ELSE 0])
IsFullyPaidEarly == Len(payments) + 1 >= Len(fragments)
IsFullyPaid == Len(payments) >= Len(fragments)

(* "the sum is exact and there are no zero fragments" (inkwell.go), even   *)
(* when a product wraps; no zero fragments for debts above their number.   *)
SplitExact ==
  /\ SumOf(fragments) = total /\ \A i \in Indices : fragments[i] <= total
  /\ total > Len(fragments) => \A i \in Indices : fragments[i] > 0

Twice == {i \in Indices : Cardinality({k \in DOMAIN payments : payments[k] = i}) > 1}

(* The loan counts as fully paid while something remains only after a      *)
(* fragment was paid twice; and a loan whose fragments are all paid counts *)
(* as fully paid.                                                          *)
FullyPaidSound ==
  /\ IsFullyPaid /\ RemainingAmount > 0 => Twice # {}
  /\ Unpaid = {} => IsFullyPaid /\ RemainingAmount = 0

(* A fragment is paid twice only when two payers had it at a time, or when *)
(* it is the first of the plan, which GetNextFragment offers again before  *)
(* the next one is due.                                                    *)
PaidTwiceExplained == Twice \subseteq met \cup {1}

(* A debt is split exactly and counts as paid when it is, but for what two *)
(* payers do at a time.                                                    *)
FragmentsSound == SplitExact /\ FullyPaidSound /\ PaidTwiceExplained
=============================================================================
