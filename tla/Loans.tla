-------------------------------- MODULE Loans --------------------------------
(***************************************************************************)
(* The life of a loan in x/darkchain/keeper/keeper.go under concurrent     *)
(* callers: the block loop, which grants loans, takes repayments and marks *)
(* overdue loans, and the callers of the message server.  A handler reads  *)
(* the loan in one transaction of the store and writes the whole record in *)
(* another.  A seed is a model value that stands for its commitment too;   *)
(* the combined seed is the pair that was hashed.                          *)
(***************************************************************************)
EXTENDS Integers, Sequences, FiniteSets

CONSTANTS Actors,         \* goroutines in a handler
          Loop,           \* the block loop, one of Actors
          BorrowerSeeds, LenderSeeds, NoSeed,
          MaxLoans, MaxCrashes  \* bounds of the model

ASSUME LoansAssumption ==
  /\ Loop \in Actors /\ NoSeed \notin BorrowerSeeds \cup LenderSeeds
  /\ MaxLoans \in Nat /\ MaxCrashes \in Nat

VARIABLES loans,    \* the store: every loan, by number
          overdue,  \* loans whose due date has passed
          at,       \* where each actor is
          crashes,
          \* history, by loan
          ended,    \* the first status that ended it, "open" before
          revealed, \* its borrower's seed has been sent
          lost,     \* "update": a record was written over a change its writer had not
                    \* read; "list": it ended while it was listed as overdue; "crash"
          issued    \* shadow claims issued

history == <<ended, revealed, lost, issued>>
loansVars == <<loans, overdue, at, crashes, history>>

Over == {"settled", "defaulted"}
Free == [pc |-> "idle"]

LoansInit ==
  /\ loans = <<>> /\ overdue = {} /\ at = [a \in Actors |-> Free] /\ crashes = 0
  /\ ended = <<>> /\ revealed = <<>> /\ lost = <<>> /\ issued = <<>>

-----------------------------------------------------------------------------
(* RequestLoan writes the new loan; the block loop approves it at once.    *)
RequestLoan(a, seed) ==
  /\ at[a].pc = "idle" /\ Len(loans) < MaxLoans
  /\ a = Loop => seed = NoSeed
  /\ loans' = Append(loans, [status |-> "pending", borrower |-> seed, lender |-> NoSeed,
                             combined |-> <<>>, blind |-> FALSE])
  /\ ended' = Append(ended, "open") /\ revealed' = Append(revealed, FALSE)
  /\ lost' = Append(lost, {}) /\ issued' = Append(issued, 0)
  /\ at' = [at EXCEPT ![a] = IF a = Loop THEN [pc |-> "approve", id |-> Len(loans) + 1]
                             ELSE Free]
  /\ UNCHANGED <<overdue, crashes>>

\* The handler has read loan id and will write rec; then it goes on as next.
Reads(a, id, rec, next) ==
  at' = [at EXCEPT ![a] = [pc |-> "write", id |-> id, read |-> loans[id], rec |-> rec,
                           next |-> next]]

\* ApproveLoan that only looks whether the loan is over.
MayApproveActive(id) == loans[id].status \notin Over

\* GetLoan and the status test of ApproveLoan.
MayApprove(id) == loans[id].status = "pending"

(* The lender's seed comes with its own commitment; without a borrower's   *)
(* commitment it is not looked at.                                         *)
ApproveLoan(a, id, seed) ==
  /\ at[a].pc = "idle" \/ at[a] = [pc |-> "approve", id |-> id]
  /\ a = Loop => at[a].pc = "approve"
  /\ MayApprove(id)
  /\ seed = NoSeed <=> loans[id].borrower = NoSeed
  /\ Reads(a, id, [loans[id] EXCEPT !.status = "active", !.lender = seed,
                                    !.blind = ~revealed[id]], [pc |-> "issue", id |-> id])
  /\ UNCHANGED <<loans, overdue, crashes, history>>

\* The block loop goes on when its loan was approved by somebody else.
ApproveRefused ==
  /\ at[Loop].pc = "approve" /\ ~MayApprove(at[Loop].id)
  /\ at' = [at EXCEPT ![Loop] = Free]
  /\ UNCHANGED <<loans, overdue, crashes, history>>

(* The borrower sends its seed when it sees the lender's in an active loan.*)
RevealBorrowerSeed(a, id) ==
  /\ a # Loop /\ at[a].pc = "idle"
  /\ loans[id].status = "active"
  /\ loans[id].borrower # NoSeed /\ loans[id].lender # NoSeed
  /\ revealed' = [revealed EXCEPT ![id] = TRUE]
  /\ Reads(a, id, [loans[id] EXCEPT !.combined = <<loans[id].borrower, loans[id].lender>>],
           Free)
  /\ UNCHANGED <<loans, overdue, crashes, ended, lost, issued>>

\* SettleLoan for a loan that is not over.
SettleUnapproved(a, id) ==
  /\ at[a].pc = "idle" /\ loans[id].status \notin Over
  /\ Reads(a, id, [loans[id] EXCEPT !.status = "settled"], Free)
  /\ UNCHANGED <<loans, overdue, crashes, history>>

SettleLoan(a, id) ==
  /\ at[a].pc = "idle" /\ loans[id].status = "active"
  /\ Reads(a, id, [loans[id] EXCEPT !.status = "settled"], Free)
  /\ UNCHANGED <<loans, overdue, crashes, history>>

\* GetOverdueLoans that does not look at the status.
IsOverdueAny(id) == id \in overdue

IsOverdue(id) == id \in overdue /\ loans[id].status = "active"

GetOverdueLoans == {id \in DOMAIN loans : IsOverdue(id)}

(* BeginBlock and CheckOverdueLoans: the list, then one loan after the     *)
(* other (any order here), each read again but not tested again.           *)
CheckOverdueLoans(a) ==
  /\ at[a].pc = "idle" /\ GetOverdueLoans # {}
  /\ at' = [at EXCEPT ![a] = [pc |-> "default", list |-> GetOverdueLoans]]
  /\ UNCHANGED <<loans, overdue, crashes, history>>

DefaultLoan(a, id) ==
  /\ at[a].pc = "default" /\ id \in at[a].list
  /\ Reads(a, id, [loans[id] EXCEPT !.status = "defaulted"],
           IF at[a].list = {id} THEN Free
           ELSE [pc |-> "default", list |-> at[a].list \ {id}])
  /\ UNCHANGED <<loans, overdue, crashes, history>>

\* An overdue list holds the loan, to be marked later.
Lists(then, id) == then.pc = "default" /\ id \in then.list
Listed(id) ==
  \E b \in Actors : Lists(at[b], id) \/ (at[b].pc = "write" /\ Lists(at[b].next, id))

(* The second transaction of a handler.                                    *)
PutLoan(a) ==
  /\ at[a].pc = "write"
  /\ LET id == at[a].id IN
     /\ loans' = [loans EXCEPT ![id] = at[a].rec]
     /\ ended' = [ended EXCEPT ![id] = IF @ = "open" /\ at[a].rec.status \in Over
                                       THEN at[a].rec.status ELSE @]
     /\ lost' = [lost EXCEPT ![id] =
                   @ \cup (IF at[a].read = loans[id] THEN {} ELSE {"update"})
                     \cup (IF at[a].rec.status \in Over /\ Listed(id) THEN {"list"} ELSE {})]
  /\ at' = [at EXCEPT ![a] = at[a].next]
  /\ UNCHANGED <<overdue, crashes, revealed, issued>>

(* ApproveLoan ends with the callback that issues the shadow claim.        *)
ShadowClaimCallback(a) ==
  /\ at[a].pc = "issue"
  /\ issued' = [issued EXCEPT ![at[a].id] = @ + 1]
  /\ at' = [at EXCEPT ![a] = Free]
  /\ UNCHANGED <<loans, overdue, crashes, ended, revealed, lost>>

FallDue(id) ==
  /\ id \notin overdue /\ overdue' = overdue \cup {id}
  /\ UNCHANGED <<loans, at, crashes, history>>

\* The loans that an actor still has to do something about.
Pending(id) == {a \in Actors : at[a].pc \in {"approve", "issue"} /\ at[a].id = id}
                 \cup {a \in Actors : at[a].pc = "write" /\ at[a].id = id /\ at[a].next.pc = "issue"}

(* The process stops between any two steps: only the store is left.        *)
Crash ==
  /\ crashes < MaxCrashes /\ crashes' = crashes + 1
  /\ at' = [a \in Actors |-> Free]
  /\ lost' = [id \in DOMAIN lost |-> IF Pending(id) = {} THEN lost[id]
                                     ELSE lost[id] \cup {"crash"}]
  /\ UNCHANGED <<loans, overdue, ended, revealed, issued>>

LoansNext ==
  \/ \E a \in Actors :
       \/ \E seed \in BorrowerSeeds \cup {NoSeed} : RequestLoan(a, seed)
       \/ \E id \in DOMAIN loans :
            \/ \E seed \in LenderSeeds \cup {NoSeed} : ApproveLoan(a, id, seed)
            \/ RevealBorrowerSeed(a, id) \/ SettleLoan(a, id) \/ DefaultLoan(a, id)
       \/ CheckOverdueLoans(a) \/ PutLoan(a) \/ ShadowClaimCallback(a)
  \/ ApproveRefused
  \/ \E id \in DOMAIN loans : FallDue(id)
  \/ Crash

LoansSpec == LoansInit /\ [][LoansNext]_loansVars

-----------------------------------------------------------------------------
(* "commit-reveal" (keeper.go): the combined seed is that of the two seeds *)
(* in the record, and the lender chose its own before the borrower's was   *)
(* sent, however approvals and reveals overlap.                            *)
SeedsFair ==
  \A id \in DOMAIN loans : loans[id].combined # <<>> =>
    loans[id].combined = <<loans[id].borrower, loans[id].lender>> /\ loans[id].blind

(* A loan that ended stays so unless a handler wrote over a change it had  *)
(* not read; and a repaid one becomes a defaulted one only if it was       *)
(* listed as overdue before it was repaid.                                 *)
EndIsFinal ==
  \A id \in DOMAIN loans : ended[id] # "open" /\ "update" \notin lost[id] =>
    \/ loans[id].status = ended[id]
    \/ "list" \in lost[id] /\ loans[id].status = "defaulted"

(* No loan ends unapproved, and none gets two shadow claims, but for       *)
(* handlers that wrote over each other; an approved loan has its claim     *)
(* unless its approval is under way or a crash cut it off.                 *)
ClaimPerLoan ==
  \A id \in DOMAIN loans :
    /\ issued[id] > 1 => "update" \in lost[id]
    /\ loans[id].status # "pending" => issued[id] >= 1 \/ Pending(id) # {} \/ lost[id] # {}

(* What handlers, the overdue check and crashes make of a loan between     *)
(* their reads and writes.                                                 *)
LoansSound == SeedsFair /\ EndIsFinal /\ ClaimPerLoan
=============================================================================
