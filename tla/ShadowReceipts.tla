--------------------------- MODULE ShadowReceipts ---------------------------
(* Shadow receipts: the ferries that carry them from one community to      *)
(* another, and the epochs they are bound to.                              *)
EXTENDS FiniteSets, Functions, Integers, Sequences

(***************************************************************************)
(* Ferry nodes of x/vrg/ferry_node.go and the shadow receipts they carry   *)
(* (shadow_receipt.go).  A receipt is shared by everybody who holds it and *)
(* has no lock: its status is tested and then set, and each ferry has a    *)
(* lock of its own, which InjectReceipts holds only around its loop.  A    *)
(* ferry carries receipts by their ID, the hash of source, target and      *)
(* epoch.  The loop and a writer of its map may also end the process: then *)
(* nothing more happens.                                                   *)
(***************************************************************************)

CONSTANTS FerryNodes, Receipts,
          ReceiptID,    \* the ID of each receipt
          Forged,       \* receipts whose signature does not verify
          Injectors, Expiring, Storing
            \* bounds of the model: ferries that run InjectReceipts, receipts
            \* that expire, and which ferry StoreReceipt gives which, once

ASSUME FerryAssumption == IsFiniteSet(Receipts) /\ Forged \subseteq Receipts

VARIABLES status, bearer,    \* of the receipts; bearer is FerryNodeID
          expired,
          carrying,          \* by ferry: the receipt it has under an ID
          locked, injecting, \* by ferry: what the holder of its lock, and what
                             \* InjectReceipts, is about to do
          delivered, \* by receipt: how often TotalDeliveries of a ferry counts it
          raced,     \* history: receipts whose status two had tested and not yet set
          replaced,  \* history: receipts whose place in a ferry another one took
          given     \* history: who was given which receipt by StoreReceipt

ferryVars ==
  <<status, bearer, expired, carrying, locked, injecting, delivered, raced, replaced, given>>

None == [pc |-> "none"]
Ended == {"accepted", "rejected", "settled"}

FerryInit ==
  /\ status = [r \in Receipts |-> "pending"] /\ bearer = [r \in Receipts |-> {}]
  /\ expired = {} /\ carrying = [f \in FerryNodes |-> <<>>]
  /\ locked = [f \in FerryNodes |-> None] /\ injecting = [f \in FerryNodes |-> None]
  /\ delivered = [r \in Receipts |-> 0] /\ raced = {} /\ replaced = {} /\ given = {}

\* Somebody has tested the status of r and not set it yet.
Holds(step, r) ==
  step.pc \in {"carry", "mark", "accept", "reject", "accepting", "rejecting"} /\ step.r = r
InHand(r) == \E f \in FerryNodes : Holds(locked[f], r) \/ Holds(injecting[f], r)
Race(r) == raced' = IF InHand(r) THEN raced \cup {r} ELSE raced

Carried(f) == Range(carrying[f])
Load(f, r) ==
  carrying' = [carrying EXCEPT ![f] = [i \in DOMAIN @ \cup {ReceiptID[r]} |->
                                         IF i = ReceiptID[r] THEN r ELSE @[i]]]
\* The receipts that the place of r in f is taken from.
Ousts(f, r) ==
  replaced' = replaced \cup {q \in Carried(f) \ {r} : ReceiptID[q] = ReceiptID[r]}
Unload(f, ids) == carrying' = [carrying EXCEPT ![f] = Restrict(@, DOMAIN @ \ ids)]

-----------------------------------------------------------------------------
\* PickupReceipt that leaves the test to MarkInTransit.
MayPickupAny(r) == status[r] \in {"pending", "in transit"}

MayPickup(r) == status[r] = "pending"

(* PickupReceipt puts the receipt in its map, and then marks it.           *)
PickupReceipt(f, r) ==
  /\ locked[f] = None /\ MayPickup(r)
  /\ locked' = [locked EXCEPT ![f] = [pc |-> "carry", r |-> r]]
  /\ Load(f, r) /\ Race(r) /\ Ousts(f, r)
  /\ UNCHANGED <<status, bearer, expired, injecting, delivered, given>>

(* StoreReceipt puts any receipt in the map, whatever its status is and    *)
(* whoever else carries it.                                                *)
StoreReceipt(f, r) ==
  /\ <<f, r>> \in Storing \ given /\ locked[f] = None
  /\ Load(f, r) /\ Ousts(f, r) /\ given' = given \cup {<<f, r>>}
  /\ UNCHANGED <<status, bearer, expired, locked, injecting, delivered, raced>>

(* MarkInTransit tests the status again; if that fails the receipt stays   *)
(* in the map.                                                             *)
TestPending(f) ==
  /\ locked[f].pc = "carry"
  /\ locked' = [locked EXCEPT ![f] =
                  IF status[@.r] = "pending" THEN [pc |-> "mark", r |-> @.r] ELSE None]
  /\ UNCHANGED <<status, bearer, expired, carrying, injecting, delivered, raced, replaced, given>>

MarkInTransit(f) ==
  /\ locked[f].pc = "mark"
  /\ status' = [status EXCEPT ![locked[f].r] = "in transit"]
  /\ bearer' = [bearer EXCEPT ![locked[f].r] = {f}]
  /\ locked' = [locked EXCEPT ![f] = None]
  /\ UNCHANGED <<expired, carrying, injecting, delivered, raced, replaced, given>>

\* DeliverReceipt that does not look at the status.
MayDeliverAny(r) == TRUE

\* MarkAccepted and MarkRejected.
MayDeliver(r) == status[r] = "in transit"

DeliverReceipt(f, r, accepted) ==
  /\ locked[f] = None /\ r \in Carried(f) /\ MayDeliver(r)
  /\ locked' = [locked EXCEPT ![f] = [pc |-> IF accepted THEN "accept" ELSE "reject", r |-> r]]
  /\ Race(r)
  /\ UNCHANGED <<status, bearer, expired, carrying, injecting, delivered, replaced, given>>

\* A rejection that is refused drops the receipt all the same.
Drop(f, r) ==
  /\ locked[f] = None /\ r \in Carried(f) /\ ~MayDeliver(r)
  /\ Unload(f, {ReceiptID[r]})
  /\ UNCHANGED <<status, bearer, expired, locked, injecting, delivered, raced, replaced, given>>

SetStatus(r, st) == status' = [status EXCEPT ![r] = st]

(* The end of DeliverReceipt: who accepts an expired receipt gets an error *)
(* and keeps it.                                                           *)
Deliver(f) ==
  /\ locked[f].pc \in {"accept", "reject"}
  /\ locked' = [locked EXCEPT ![f] = None]
  /\ LET r == locked[f].r IN
     \/ /\ locked[f].pc = "accept" /\ r \in expired
        /\ SetStatus(r, "rejected") /\ UNCHANGED <<carrying, delivered>>
     \/ /\ locked[f].pc = "accept" /\ r \notin expired
        /\ SetStatus(r, "accepted") /\ Unload(f, {ReceiptID[r]})
        /\ delivered' = [delivered EXCEPT ![r] = @ + 1]
     \/ /\ locked[f].pc = "reject"
        /\ SetStatus(r, "rejected") /\ Unload(f, {ReceiptID[r]})
        /\ UNCHANGED delivered
  /\ UNCHANGED <<bearer, expired, injecting, raced, replaced, given>>

InjectReceipts(f) ==
  /\ f \in Injectors /\ locked[f] = None /\ injecting[f] = None /\ Carried(f) # {}
  /\ injecting' = [injecting EXCEPT ![f] = [pc |-> "loop", left |-> Carried(f)]]
  /\ UNCHANGED <<status, bearer, expired, carrying, locked, delivered, raced, replaced, given>>

(* The loop tests one of the receipts that were there and still are, in    *)
(* any order; it may skip one that is added meanwhile.                     *)
InjectTest(f, r) ==
  /\ injecting[f].pc = "loop" /\ r \in injecting[f].left \cap Carried(f)
  /\ LET left == injecting[f].left \ {r}
         verdict == IF r \in Forged \cup expired THEN "reject" ELSE "accept"
     IN  IF MayDeliver(r)
         THEN /\ injecting' = [injecting EXCEPT ![f] = [pc |-> verdict, r |-> r, left |-> left]]
              /\ Race(r)
         ELSE injecting' = [injecting EXCEPT ![f].left = left] /\ UNCHANGED raced
  /\ UNCHANGED <<status, bearer, expired, carrying, locked, delivered, replaced, given>>

(* MarkAccepted and MarkRejected test the status again.  The error of      *)
(* MarkAccepted is ignored here: a receipt that somebody else took to its  *)
(* end after the first test, or that expired, is counted all the same.     *)
InjectMark(f) ==
  /\ injecting[f].pc \in {"accept", "reject"}
  /\ LET step == injecting[f]
         sure == IF step.pc = "accept" THEN "accepting" ELSE "rejecting"
     IN  IF MayDeliver(step.r)
         THEN injecting' = [injecting EXCEPT ![f].pc = sure] /\ UNCHANGED delivered
         ELSE /\ injecting' = [injecting EXCEPT ![f] = [pc |-> "loop", left |-> step.left]]
              /\ delivered' = [delivered EXCEPT ![step.r] = @ + (IF step.pc = "accept" THEN 1 ELSE 0)]
  /\ UNCHANGED <<status, bearer, expired, carrying, locked, raced, replaced, given>>

InjectOne(f) ==
  /\ injecting[f].pc \in {"accepting", "rejecting"}
  /\ injecting' = [injecting EXCEPT ![f] = [pc |-> "loop", left |-> @.left]]
  /\ LET r == injecting[f].r
         accept == injecting[f].pc = "accepting"
     IN  /\ SetStatus(r, IF accept /\ r \notin expired THEN "accepted" ELSE "rejected")
         /\ delivered' = [delivered EXCEPT ![r] = @ + (IF accept THEN 1 ELSE 0)]
  /\ UNCHANGED <<bearer, expired, carrying, locked, raced, replaced, given>>

InjectDone(f) ==
  /\ injecting[f].pc = "loop" /\ injecting[f].left \cap Carried(f) = {} /\ locked[f] = None
  /\ injecting' = [injecting EXCEPT ![f] = None]
  /\ UNCHANGED <<status, bearer, expired, carrying, locked, delivered, raced, replaced, given>>

\* A purge of everything that is not pending.
PurgeableAny(r) == status[r] # "pending"

Purgeable(r) == status[r] \in Ended

PurgeDelivered(f) ==
  /\ locked[f] = None
  /\ LET done == {i \in DOMAIN carrying[f] : Purgeable(carrying[f][i])}
     IN  done # {} /\ Unload(f, done)
  /\ UNCHANGED <<status, bearer, expired, locked, injecting, delivered, raced, replaced, given>>

\* MarkSettled that settles a rejected receipt.
MaySettleAny(r) == status[r] \in Ended

MaySettle(r) == status[r] = "accepted"

(* The target community settles what it accepted.                          *)
MarkSettled(r) ==
  /\ MaySettle(r) /\ SetStatus(r, "settled")
  /\ UNCHANGED <<bearer, expired, carrying, locked, injecting, delivered, raced, replaced, given>>

Expire(r) ==
  /\ r \in Expiring \ expired /\ expired' = expired \cup {r}
  /\ UNCHANGED <<status, bearer, carrying, locked, injecting, delivered, raced, replaced, given>>

FerryNext ==
  \/ \E f \in FerryNodes :
       \/ \E r \in Receipts :
            \/ PickupReceipt(f, r) \/ StoreReceipt(f, r) \/ Drop(f, r) \/ InjectTest(f, r)
            \/ \E accepted \in BOOLEAN : DeliverReceipt(f, r, accepted)
       \/ TestPending(f) \/ MarkInTransit(f) \/ Deliver(f)
       \/ InjectReceipts(f) \/ InjectMark(f) \/ InjectOne(f) \/ InjectDone(f) \/ PurgeDelivered(f)
  \/ \E r \in Receipts : MarkSettled(r) \/ Expire(r)

-----------------------------------------------------------------------------
(* A receipt in transit is carried by the ferry that it names and by no    *)
(* other, unless two ferries had tested it at a time or another receipt of *)
(* the same source, target and epoch took its place; who else carries it   *)
(* was given it by StoreReceipt.                                           *)
SoleBearer ==
  \A r \in Receipts \ raced : status[r] = "in transit" =>
    /\ \A f \in FerryNodes : r \in Carried(f) => bearer[r] = {f} \/ <<f, r>> \in given
    /\ r \in replaced \/ \E f \in FerryNodes : r \in Carried(f)

(* Without such a race a receipt is counted as delivered once, and only if *)
(* it was accepted or expired under the hand of InjectReceipts.            *)
CountedOnce ==
  \A r \in Receipts \ raced :
    /\ delivered[r] <= 1
    /\ status[r] \in {"accepted", "settled"} => delivered[r] = 1
    /\ delivered[r] = 1 => status[r] \in {"accepted", "settled"} \/ r \in expired

(* Without such a race an accepted or rejected receipt stays so, and only  *)
(* an accepted one is settled.                                             *)
FinalStays ==
  [][\A r \in Receipts : r \notin raced' /\ status[r] \in Ended =>
       status'[r] = status[r] \/ (status[r] = "accepted" /\ status'[r] = "settled")]_ferryVars

(* Receipts that ferries carry at a time have one bearer, are counted once *)
(* and stay delivered, unless two ferries raced for them.                  *)
FerriesSound == [](SoleBearer /\ CountedOnce) /\ FinalStays

-----------------------------------------------------------------------------
(***************************************************************************)
(* The epoch counter and the double-spend detector of x/vrg/epoch.go: a    *)
(* receipt is bound to the epoch that is current, and later, perhaps much  *)
(* later or more than once, registered for its asset in that epoch, while  *)
(* blocks, merges with isolated networks and prunes go on.  The log of     *)
(* events, which nothing reads, is left out.                               *)
(***************************************************************************)

CONSTANTS Bound,          \* receipts that may be bound
          Assets, AssetOf,  \* and the asset of each
          BlocksPerEpoch, KeepEpochs,
          MaxBlocks, MaxEpoch, MaxTries  \* bounds of the model

ASSUME EpochsAssumption ==
  /\ BlocksPerEpoch \in Nat \ {0} /\ KeepEpochs \in Nat
  /\ AssetOf \in [Bound -> Assets]
  /\ MaxBlocks \in Nat /\ MaxEpoch \in Nat /\ MaxTries \in Nat

VARIABLES currentEpoch, blocksInEpoch,
          boundTo,    \* by receipt: its epoch, -1 before it is bound
          bindings,   \* the detector: receipt by asset and epoch
          collisions, \* the detector: what it reported
          blocks, jumps,  \* history: blocks, and epochs gained by merges
          tries,      \* history: registrations of each receipt
          accepted,   \* history: receipts that were registered
          late,       \* history: those registered after their epoch was prunable
          asked       \* history: <<asset, epoch>> somebody resolved

epochHistory == <<blocks, jumps, tries, accepted, late, asked>>
epochsVars == <<currentEpoch, blocksInEpoch, boundTo, bindings, collisions, epochHistory>>

EpochsInit ==
  /\ currentEpoch = 0 /\ blocksInEpoch = 0 /\ boundTo = [r \in Bound |-> -1]
  /\ bindings = <<>> /\ collisions = <<>>
  /\ blocks = 0 /\ jumps = 0 /\ tries = [r \in Bound |-> 0]
  /\ accepted = {} /\ late = {} /\ asked = {}

AdvanceBlock ==
  /\ blocks < MaxBlocks /\ currentEpoch < MaxEpoch
  /\ blocks' = blocks + 1
  /\ IF blocksInEpoch + 1 >= BlocksPerEpoch
     THEN currentEpoch' = currentEpoch + 1 /\ blocksInEpoch' = 0
     ELSE blocksInEpoch' = blocksInEpoch + 1 /\ UNCHANGED currentEpoch
  /\ UNCHANGED <<boundTo, bindings, collisions, jumps, tries, accepted, late, asked>>

Merged(remote) == 1 + (IF remote > currentEpoch THEN remote ELSE currentEpoch)

\* A merge that starts a whole epoch.
MergeResets(remote) ==
  /\ Merged(remote) <= MaxEpoch
  /\ currentEpoch' = Merged(remote) /\ blocksInEpoch' = 0
  /\ jumps' = jumps + Merged(remote) - currentEpoch
  /\ UNCHANGED <<boundTo, bindings, collisions, blocks, tries, accepted, late, asked>>

(* The blocks of the epoch that the merge ends count for the new one.      *)
MergeEpoch(remote) ==
  /\ Merged(remote) <= MaxEpoch
  /\ currentEpoch' = Merged(remote)
  /\ jumps' = jumps + Merged(remote) - currentEpoch
  /\ UNCHANGED <<blocksInEpoch, boundTo, bindings, collisions, blocks, tries, accepted,
                 late, asked>>

BindReceipt(r) ==
  /\ boundTo[r] = -1
  /\ boundTo' = [boundTo EXCEPT ![r] = currentEpoch]
  /\ UNCHANGED <<currentEpoch, blocksInEpoch, bindings, collisions, epochHistory>>

Threshold == currentEpoch - KeepEpochs

Key(r) == <<AssetOf[r], boundTo[r]>>

\* Only another receipt is taken for a double spend.
TakenByOther(r) == Key(r) \in DOMAIN bindings /\ bindings[Key(r)] # r
Taken(r) == Key(r) \in DOMAIN bindings

(* RegisterReceipt, for whoever brings the receipt, again after an answer  *)
(* that was lost.                                                          *)
RegisterReceipt(r) ==
  /\ boundTo[r] # -1 /\ tries[r] < MaxTries
  /\ tries' = [tries EXCEPT ![r] = @ + 1]
  /\ IF Taken(r)
     THEN /\ collisions' = Append(collisions, [key |-> Key(r), a |-> bindings[Key(r)], b |-> r,
                                               resolved |-> FALSE])
          /\ UNCHANGED <<bindings, accepted, late>>
     ELSE /\ bindings' = [k \in DOMAIN bindings \cup {Key(r)} |->
                            IF k = Key(r) THEN r ELSE bindings[k]]
          /\ accepted' = accepted \cup {r}
          /\ late' = IF boundTo[r] < Threshold THEN late \cup {r} ELSE late
          /\ UNCHANGED collisions
  /\ UNCHANGED <<currentEpoch, blocksInEpoch, boundTo, blocks, jumps, asked>>

\* The last of the collisions instead of the first.
Found(key) ==
  {i \in DOMAIN collisions : collisions[i].key = key}
PickLast(key) == CHOOSE i \in Found(key) : \A j \in Found(key) : j <= i
Pick(key) == CHOOSE i \in Found(key) : \A j \in Found(key) : i <= j

ResolveCollision(key) ==
  /\ Found(key) # {}
  /\ collisions' = [collisions EXCEPT ![Pick(key)].resolved = TRUE]
  /\ asked' = asked \cup {key}
  /\ UNCHANGED <<currentEpoch, blocksInEpoch, boundTo, bindings, blocks, jumps, tries,
                 accepted, late>>

\* An epoch that is still to be kept counts as old.
OldTooSoon(e) == e <= Threshold
Old(e) == e < Threshold

PruneEpochs ==
  /\ currentEpoch > KeepEpochs
  /\ LET kept == {k \in DOMAIN bindings : ~Old(k[2])} IN
     /\ kept # DOMAIN bindings
     /\ bindings' = [k \in kept |-> bindings[k]]
  /\ UNCHANGED <<currentEpoch, blocksInEpoch, boundTo, collisions, epochHistory>>

EpochsNext ==
  \/ AdvanceBlock \/ PruneEpochs
  \/ \E remote \in 0..MaxEpoch : MergeEpoch(remote)
  \/ \E r \in Bound : BindReceipt(r) \/ RegisterReceipt(r)
  \/ \E key \in Assets \X (0..MaxEpoch) : ResolveCollision(key)

\* The ferries and the epochs, each by itself.
ReceiptsInit == FerryInit /\ EpochsInit
ReceiptsNext ==
  (FerryNext /\ UNCHANGED epochsVars) \/ (EpochsNext /\ UNCHANGED ferryVars)
ReceiptsSpec == ReceiptsInit /\ [][ReceiptsNext]_<<ferryVars, epochsVars>>

-----------------------------------------------------------------------------
(* "an asset is bound to one receipt per epoch" (epoch.go): a second one   *)
(* is registered without an alarm only when it comes so late that its      *)
(* epoch could be pruned.                                                  *)
OneReceiptPerEpoch ==
  \A q, r \in accepted : q # r /\ AssetOf[q] = AssetOf[r] /\ boundTo[q] = boundTo[r] =>
    q \in late \/ r \in late

(* Every registration is accepted or reported; a report that names one     *)
(* receipt twice means that it was registered twice.                       *)
RefusalsReported ==
  \A r \in Bound :
    LET reports == {i \in DOMAIN collisions : collisions[i].b = r} IN
    /\ r \notin late =>
         tries[r] = Cardinality(reports) + (IF r \in accepted THEN 1 ELSE 0)
    /\ \A i \in reports : collisions[i].a = r => tries[r] > 1

(* Blocks alone advance the epoch between merges, and merges never disturb *)
(* their count: an epoch that a merge begins lasts as long as the rest of  *)
(* the one it ends.                                                        *)
EpochTracksBlocks ==
  /\ currentEpoch = jumps + (blocks \div BlocksPerEpoch)
  /\ blocksInEpoch = blocks % BlocksPerEpoch

(* Of the collisions of an asset in an epoch only the first is ever        *)
(* resolved: once somebody resolved it, it is, and no other one is.        *)
FirstResolved ==
  \A i \in DOMAIN collisions :
    collisions[i].resolved <=> collisions[i].key \in asked /\ i = Pick(collisions[i].key)

(* A receipt is carried by one ferry and bound to one epoch: what ferries   *)
(* and communities know of it agrees, but for the races named.              *)
ReceiptsSound ==
  /\ FerriesSound
  /\ [](OneReceiptPerEpoch /\ RefusalsReported /\ EpochTracksBlocks /\ FirstResolved)
=============================================================================
