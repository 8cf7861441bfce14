------------------------------ MODULE Defaults -------------------------------
(* What a defaulted debt does to others: to those who vouched for it, and  *)
(* to those who hold claims on it.                                         *)
EXTENDS Integers, Sequences, FiniteSets, SequencesExt, Functions

(***************************************************************************)
(* Deferred provisions of x/brightchain/keeper/recourse.go: a debt is      *)
(* taken in steps, one an epoch, from the debtor and then from a chain of  *)
(* guarantors; an appeal holds the steps up.                               *)
(***************************************************************************)
CONSTANTS Debtors,       \* by the prefix of their name an ID has room for
          Guarantors, Debts,
          BlocksPerEpoch, AppealWindow,  \* 14400 and 10000 blocks
          Rates,         \* <<30, 70, 100>> percent
          GoodEpochs,    \* 50
          MaxProvisions, KeepSettled,    \* 1000 and 100
          LastBlock, MaxDefaults         \* bounds of the model

ASSUME RecourseAssumption ==
  /\ IsFiniteSet(Debtors) /\ Debts \subseteq Nat
  /\ {BlocksPerEpoch, AppealWindow, GoodEpochs, MaxProvisions, KeepSettled, LastBlock, MaxDefaults} \subseteq Nat
  /\ BlocksPerEpoch > 0 /\ Rates \in Seq(0..100) /\ Rates # <<>>
  /\ \A i, j \in DOMAIN Rates : i <= j => Rates[i] <= Rates[j]

VARIABLES block,       \* the height the manager was told last
          provisions,  \* by debtor and block
          clean,       \* epochs without a default, by debtor
          provisioned, \* TotalProvisioned of the histories
          \* history: defaults, their sum, what was taken, and what was
          \* forgiven, overwritten or dropped with its record
          defaults, owed, taken, gone

recourseVars == <<block, provisions, clean, provisioned, defaults, owed, taken, gone>>

Everyone == Debtors \cup Guarantors
Epoch(b) == b \div BlocksPerEpoch
Settled == {"completed", "cancelled", "exempted"}

RecourseInit ==
  /\ block = 0 /\ provisions = <<>>
  /\ clean = [d \in Debtors |-> 0] /\ provisioned = [p \in Everyone |-> 0]
  /\ defaults = 0 /\ owed = 0 /\ taken = 0 /\ gone = 0

PassBlock ==
  /\ block < LastBlock /\ block' = block + 1
  /\ UNCHANGED <<provisions, clean, provisioned, defaults, owed, taken, gone>>

-----------------------------------------------------------------------------
Percent(debt, rate) == (debt * rate) \div 100
First(debt) == IF Percent(debt, Rates[1]) = 0 /\ debt > 0 THEN 1 ELSE Percent(debt, Rates[1])

(* InitiateProvision: a second default of a debtor in the same block takes *)
(* the place of the first one.                                             *)
InitiateProvision(d, debt, chain) ==
  LET id == <<d, block>>
      prov == [debtor |-> d, debt |-> debt, left |-> debt - First(debt),
               from |-> block, epoch |-> Epoch(block), at |-> Epoch(block),
               chain |-> chain, index |-> 1, appeal |-> "none",
               status |-> IF debt = First(debt) THEN "completed" ELSE "pending",
               resolved |-> 0, late |-> 0] IN
  /\ defaults < MaxDefaults /\ defaults' = defaults + 1
  /\ gone' = IF id \in DOMAIN provisions THEN gone + provisions[id].left ELSE gone
  /\ provisions' = [i \in DOMAIN provisions \cup {id} |-> IF i = id THEN prov ELSE provisions[i]]
  /\ clean' = [clean EXCEPT ![d] = 0]
  /\ owed' = owed + debt /\ taken' = taken + First(debt)
  /\ UNCHANGED <<block, provisioned>>

RecordCleanEpoch(d) ==
  /\ clean[d] < GoodEpochs
  /\ clean' = [clean EXCEPT ![d] = @ + 1]
  /\ UNCHANGED <<block, provisions, provisioned, defaults, owed, taken, gone>>

-----------------------------------------------------------------------------
(* ProcessEpochProvision over one provision.                               *)
Waiting(p) ==
  \/ p.status \notin {"active", "pending"}
  \/ Epoch(block) <= p.at
  \/ block - p.from <= AppealWindow
Exempt(p) == clean[p.debtor] >= GoodEpochs

Rate(p) ==
  LET steps == (Epoch(block) - p.epoch) + 1 IN
  Rates[IF steps > Len(Rates) THEN Len(Rates) ELSE steps]

\* The share of the whole debt without what was taken before.
OwingWhole(p) ==
  LET target == Percent(p.debt, Rate(p)) IN IF target > p.left THEN p.left ELSE target

Owing(p) ==
  LET target == Percent(p.debt, Rate(p))
      before == p.debt - p.left
      more == IF target <= before THEN 0 ELSE target - before IN
  IF more > p.left THEN p.left ELSE more

Target(p) == IF p.index <= Len(p.chain) THEN p.chain[p.index] ELSE p.debtor

(* The turn passes to the next guarantor when nothing is left to take.     *)
Charged(p) ==
  LET left == p.left - Owing(p)
      index == IF left = 0 THEN p.index + 1 ELSE p.index IN
  [p EXCEPT !.left = left, !.at = Epoch(block), !.index = index,
            !.late = @ + Owing(p),
            !.status = IF left = 0 /\ index > Len(p.chain) THEN "completed" ELSE "active"]

Processed(p) ==
  IF Waiting(p) THEN p ELSE IF Exempt(p) THEN [p EXCEPT !.status = "exempted"] ELSE Charged(p)
Charges(p) == ~Waiting(p) /\ ~Exempt(p)

\* Beyond the limit only some of the settled ones are kept.
Kept(ps) ==
  LET over == {i \in DOMAIN ps : ps[i].status \in Settled} IN
  IF Cardinality(DOMAIN ps) <= MaxProvisions \/ Cardinality(over) <= KeepSettled THEN {DOMAIN ps}
  ELSE {DOMAIN ps \ S : S \in {T \in SUBSET over : Cardinality(T) = Cardinality(over) - KeepSettled}}

\* What is still to be taken.
Left(ps) == [i \in DOMAIN ps |-> ps[i].left]

ProcessEpochProvision ==
  LET after == [i \in DOMAIN provisions |-> Processed(provisions[i])]
      charged == {i \in DOMAIN provisions : Charges(provisions[i])}
      amount == [i \in DOMAIN provisions |-> Owing(provisions[i])]
      By(p) == {i \in charged : Target(after[i]) = p} IN
  \E keep \in Kept(after) :
    /\ provisions' = [i \in keep |-> after[i]]
    \* The history of whose turn it is now gets the amount.
    /\ provisioned' = [p \in Everyone |-> provisioned[p] + SumFunctionOnSet(amount, By(p))]
    /\ taken' = taken + SumFunctionOnSet(amount, charged)
    /\ gone' = gone + SumFunctionOnSet(Left(after), DOMAIN after \ keep)
    /\ UNCHANGED <<block, clean, defaults, owed>>

-----------------------------------------------------------------------------
\* The charges go on while an appeal is pending.
SubmitAppealOnly(i) ==
  /\ block - provisions[i].from <= AppealWindow /\ provisions[i].appeal = "none"
  /\ provisions' = [provisions EXCEPT ![i].appeal = "pending"]
  /\ UNCHANGED <<block, clean, provisioned, defaults, owed, taken, gone>>

(* An appeal of a provision in any status.                                 *)
SubmitAppeal(i) ==
  /\ block - provisions[i].from <= AppealWindow /\ provisions[i].appeal = "none"
  /\ provisions' = [provisions EXCEPT ![i].appeal = "pending", ![i].status = "appealed"]
  /\ UNCHANGED <<block, clean, provisioned, defaults, owed, taken, gone>>

\* Whatever was resolved before may be resolved again.
ResolveAppeal(i, upheld) ==
  /\ provisions[i].appeal # "none" /\ provisions[i].resolved < 2
  /\ provisions' = [provisions EXCEPT
       ![i].appeal = IF upheld THEN "upheld" ELSE "rejected",
       ![i].status = IF upheld THEN "cancelled" ELSE "active", ![i].resolved = @ + 1]
  /\ UNCHANGED <<block, clean, provisioned, defaults, owed, taken, gone>>

RecourseNext ==
  \/ PassBlock \/ ProcessEpochProvision
  \/ \E d \in Debtors : RecordCleanEpoch(d)
       \/ \E debt \in Debts, c \in {<<>>} \cup {<<g>> : g \in Guarantors} \cup
                                  {<<g, h>> : g \in Guarantors, h \in Guarantors} :
            InitiateProvision(d, debt, c)
  \/ \E i \in DOMAIN provisions : SubmitAppeal(i) \/ \E b \in BOOLEAN : ResolveAppeal(i, b)

-----------------------------------------------------------------------------
(* Nobody pays for the same twice: whatever epochs are missed, appeals     *)
(* resolved and turns passed, what was taken of a debt is at most the share*)
(* of its last epoch; and every unit of all debts is taken, still to be    *)
(* taken, or gone with a record that was overwritten or dropped.           *)
Share(p) ==
  LET steps == (p.at - p.epoch) + 1 IN
  Percent(p.debt, Rates[IF steps > Len(Rates) THEN Len(Rates) ELSE steps])
DebtsAccounted ==
  /\ \A i \in DOMAIN provisions :
       LET p == provisions[i] IN p.debt - p.left <= IF Share(p) > First(p.debt) THEN Share(p) ELSE First(p.debt)
  /\ owed = taken + gone + SumFunctionOnSet(Left(provisions), DOMAIN provisions)

(* While an appeal waits, and after it was upheld unless it is resolved    *)
(* once more, nothing is taken; nor inside the window of appeal.           *)
AppealHolds ==
  [][\A i \in DOMAIN provisions \cap DOMAIN provisions' :
       (provisions[i].from = provisions'[i].from /\ provisions'[i].late > provisions[i].late) =>
         /\ provisions[i].appeal \in {"none", "rejected"}
         /\ block - provisions[i].from > AppealWindow]_recourseVars

(* A debt is taken once, in its shares, and waits for appeals.             *)
RecourseSound == []DebtsAccounted /\ AppealHolds

-----------------------------------------------------------------------------
(***************************************************************************)
(* Shadow claims of x/brightchain/keeper/shadow_claim.go: claims on locked *)
(* credit that change hands until their date, are redeemed after it or     *)
(* expire a week later.                                                    *)
(***************************************************************************)
CONSTANTS Holders,   \* by the prefix of their name an ID has room for
          Locks, Nullifiers, FaceValues,
          Week,      \* seven days
          LastDay, MaxIssues  \* bounds of the model

ASSUME ClaimsAssumption ==
  IsFiniteSet(Holders) /\ FaceValues \subseteq Nat /\ {Week, LastDay, MaxIssues} \subseteq Nat

VARIABLES claims,    \* by issuer and block
          byOwner, nullifiers, day, mint,
          \* history: issues, their face values, what was redeemed and
          \* expired, and what a claim of the same ID wrote over
          issues, issued, redeemed, expired, lost, reused

claimsVars == <<claims, byOwner, nullifiers, day, mint, issues, issued, redeemed, expired, lost, reused>>

ClaimsInit ==
  /\ claims = <<>> /\ byOwner = [h \in Holders |-> <<>>] /\ nullifiers = {}
  /\ day = 0 /\ mint = 0
  /\ issues = 0 /\ issued = 0 /\ redeemed = <<>> /\ expired = 0 /\ lost = 0 /\ reused = {}

Pass ==
  /\ \/ day < LastDay /\ day' = day + 1 /\ UNCHANGED mint
     \/ mint < 1 /\ mint' = mint + 1 /\ UNCHANGED day
  /\ UNCHANGED <<claims, byOwner, nullifiers, issues, issued, redeemed, expired, lost, reused>>

Active == {i \in DOMAIN claims : claims[i].status = "active"}

Faces == [i \in DOMAIN claims |-> claims[i].face]

\* The lock is not looked at.
LockFreeAlways(lock) == TRUE

LockFree(lock) == \A i \in Active : claims[i].lock # lock

(* IssueShadowClaim: the ID has the issuer and the block; a second claim   *)
(* of a block takes the place of the first one, whoever holds it.          *)
IssueShadowClaim(h, lock, face, release) ==
  LET id == <<h, mint>> IN
  /\ issues < MaxIssues /\ issues' = issues + 1
  /\ LockFree(lock) /\ release > day /\ face > 0
  /\ claims' = [i \in DOMAIN claims \cup {id} |->
       IF i = id THEN [owner |-> h, face |-> face, release |-> release, lock |-> lock,
                       status |-> "active"]
       ELSE claims[i]]
  /\ byOwner' = [byOwner EXCEPT ![h] = Append(@, id)]
  /\ issued' = issued + face
  /\ lost' = IF id \in Active THEN lost + claims[id].face ELSE lost
  /\ reused' = IF id \in DOMAIN claims THEN reused \cup {id} ELSE reused
  /\ UNCHANGED <<nullifiers, day, mint, redeemed, expired>>

\* removeOwnerClaim: the first entry of the ID.
Without(s, id) ==
  IF \E k \in DOMAIN s : s[k] = id
  THEN RemoveAt(s, CHOOSE k \in DOMAIN s : s[k] = id /\ \A j \in 1..k - 1 : s[j] # id)
  ELSE s

\* A transfer that leaves the list of the new owner alone.
MovedOut(id, from, to) == [byOwner EXCEPT ![from] = Without(@, id)]

Moved(id, from, to) == [byOwner EXCEPT ![from] = Without(@, id), ![to] = Append(@, id)]

TransferShadowClaim(id, from, to) ==
  /\ id \in Active /\ claims[id].owner = from /\ from # to
  /\ claims' = [claims EXCEPT ![id].owner = to]
  /\ byOwner' = Moved(id, from, to)
  /\ UNCHANGED <<nullifiers, day, mint, issues, issued, redeemed, expired, lost, reused>>

\* A redemption that does not ask for the nullifier.
RedeemAgain(id, who, n) ==
  /\ id \in Active /\ claims[id].owner = who /\ day >= claims[id].release
  /\ nullifiers' = nullifiers \cup {n}
  /\ claims' = [claims EXCEPT ![id].status = "redeemed"]
  /\ redeemed' = Append(redeemed, claims[id].face)
  /\ UNCHANGED <<byOwner, day, mint, issues, issued, expired, lost, reused>>

RedeemShadowClaim(id, who, n) ==
  /\ id \in Active /\ claims[id].owner = who /\ day >= claims[id].release
  /\ n \notin nullifiers
  /\ nullifiers' = nullifiers \cup {n}
  /\ claims' = [claims EXCEPT ![id].status = "redeemed"]
  /\ redeemed' = Append(redeemed, claims[id].face)
  /\ UNCHANGED <<byOwner, day, mint, issues, issued, expired, lost, reused>>

\* Claims that expire on the day of their release.
OldAtOnce == {i \in Active : day > claims[i].release}

Old == {i \in Active : day > claims[i].release + Week}

ExpireClaims ==
  /\ claims' = [i \in DOMAIN claims |->
       IF i \in Old THEN [claims[i] EXCEPT !.status = "expired"] ELSE claims[i]]
  /\ expired' = expired + SumFunctionOnSet(Faces, Old)
  /\ UNCHANGED <<byOwner, nullifiers, day, mint, issues, issued, redeemed, lost, reused>>

ClaimsNext ==
  \/ Pass \/ ExpireClaims
  \/ \E h \in Holders, l \in Locks, f \in FaceValues, r \in 1..LastDay : IssueShadowClaim(h, l, f, r)
  \/ \E i \in DOMAIN claims, h, g \in Holders : TransferShadowClaim(i, h, g)
  \/ \E i \in DOMAIN claims, h \in Holders, n \in Nullifiers : RedeemShadowClaim(i, h, n)

\* Provisions and claims, each by themselves.
DefaultsInit == RecourseInit /\ ClaimsInit
DefaultsNext == (RecourseNext /\ UNCHANGED claimsVars) \/ (ClaimsNext /\ UNCHANGED recourseVars)
DefaultsSpec == DefaultsInit /\ [][DefaultsNext]_<<recourseVars, claimsVars>>

-----------------------------------------------------------------------------
(* A lock stands behind one active claim at most, though claims come back  *)
(* under an ID that was used before.                                       *)
OneClaimPerLock == \A i, j \in Active : claims[i].lock = claims[j].lock => i = j

(* Whoever owns a claim finds it in his list, and only an ID issued twice  *)
(* is in a list of somebody else.                                          *)
OwnersListed ==
  /\ \A i \in DOMAIN claims : \E k \in DOMAIN byOwner[claims[i].owner] : byOwner[claims[i].owner][k] = i
  /\ \A h \in Holders : \A k \in DOMAIN byOwner[h] :
       byOwner[h][k] \in reused \/ claims[byOwner[h][k]].owner = h

(* Every face value issued is active, redeemed under a nullifier of its    *)
(* own, expired, or lost under a second claim of the same ID.              *)
FaceAccounted ==
  /\ issued = SumFunctionOnSet(Faces, Active)
              + SumFunction(redeemed) + expired + lost
  /\ Len(redeemed) = Cardinality(nullifiers)

(* A claim expires only when its owner could redeem it for a whole week,   *)
(* and neither a redeemed nor an expired claim is ever active again unless *)
(* its ID was issued once more.                                            *)
ClaimsEnd ==
  [][\A i \in DOMAIN claims :
       /\ claims[i].status = "active" /\ claims'[i].status = "expired" =>
            day - claims[i].release > Week
       /\ claims[i].status # "active" => claims'[i].status = claims[i].status \/ i \in reused']_claimsVars

(* Shadow claims are of one owner, backed by one lock, and end for good.    *)
ClaimsSound ==
  [](OneClaimPerLock /\ OwnersListed /\ FaceAccounted) /\ ClaimsEnd

(* What a defaulted debt does to others: to those who vouched for it and to *)
(* those who hold claims on it.                                             *)
DefaultsSound == RecourseSound /\ ClaimsSound
==============================================================================
