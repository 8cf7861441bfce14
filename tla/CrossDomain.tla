----------------------------- MODULE CrossDomain -----------------------------
(***************************************************************************)
(* The cross-domain router of inkwell/cross_domain.go: transfers locked in *)
(* a source domain, carried by a ferry, released in the target domain,     *)
(* refunded or marked as failed, by callers in any order.  Every operation *)
(* holds the router's lock.  The ID of a transfer is the hash of source,   *)
(* user, amount and epoch: it does not name the target.                    *)
(***************************************************************************)
EXTENDS Integers, FiniteSets, Functions

CONSTANTS Domains, Users, TransferAmounts, Epochs,
          Communities, Ferries,
          PoolWidth  \* 2^64 in the code

ASSUME CrossDomainAssumption ==
  /\ PoolWidth \in Nat \ {0} /\ TransferAmounts \subseteq 1..(PoolWidth - 1)
  /\ IsFiniteSet(Domains \X Users \X TransferAmounts \X Epochs)

VARIABLES transfers,                  \* by ID
          poolBalance, feeCollected,
          released                    \* history: what was handed out in the targets

routerVars == <<transfers, poolBalance, feeCollected, released>>

TransferIDs == [source : Domains, user : Users, amount : TransferAmounts, epoch : Epochs]

RouterInit ==
  transfers = <<>> /\ poolBalance = 0 /\ feeCollected = 0 /\ released = 0

PoolFee(amount) == amount \div 200

Put(id, rec) == transfers' = [i \in DOMAIN transfers \cup {id} |->
                                IF i = id THEN rec ELSE transfers[i]]

LockAndTransfer(id, target, community) ==
  /\ id.source # target /\ id \notin DOMAIN transfers
  /\ Put(id, [status |-> "in pool", target |-> target, community |-> community, ferry |-> {}])
  /\ poolBalance' = (poolBalance + id.amount) % PoolWidth
  /\ UNCHANGED <<feeCollected, released>>

AssignFerry(id, ferry) ==
  /\ transfers[id].status = "in pool"
  /\ Put(id, [transfers[id] EXCEPT !.status = "in transit", !.ferry = {ferry}])
  /\ UNCHANGED <<poolBalance, feeCollected, released>>

\* A release that only looks whether the transfer was already released.
MayReleaseLate(id, community) ==
  transfers[id].status # "released" /\ transfers[id].community = community

MayRelease(id, community) ==
  transfers[id].status = "in transit" /\ transfers[id].community = community

(* The caller hands out the net amount that is returned.                   *)
ReleaseOnTarget(id, community) ==
  /\ MayRelease(id, community)
  /\ Put(id, [transfers[id] EXCEPT !.status = "released"])
  /\ poolBalance' = (poolBalance - id.amount) % PoolWidth
  /\ feeCollected' = (feeCollected + PoolFee(id.amount)) % PoolWidth
  /\ released' = released + id.amount - PoolFee(id.amount)

RefundOnSource(id) ==
  /\ transfers[id].status \notin {"released", "refunded"}
  /\ Put(id, [transfers[id] EXCEPT !.status = "refunded"])
  /\ poolBalance' = (poolBalance - id.amount) % PoolWidth
  /\ UNCHANGED <<feeCollected, released>>

\* MarkFailed that takes the amount out of the pool, as a refund does.
MarkFailedDebits(id) ==
  /\ transfers[id].status \notin {"released", "refunded"}
  /\ Put(id, [transfers[id] EXCEPT !.status = "failed"])
  /\ poolBalance' = (poolBalance - id.amount) % PoolWidth
  /\ UNCHANGED <<feeCollected, released>>

(* The amount stays in the pool until a refund.                            *)
MarkFailed(id) ==
  /\ transfers[id].status \notin {"released", "refunded"}
  /\ Put(id, [transfers[id] EXCEPT !.status = "failed"])
  /\ UNCHANGED <<poolBalance, feeCollected, released>>

RouterNext ==
  \/ \E id \in TransferIDs, target \in Domains, community \in Communities :
       LockAndTransfer(id, target, community)
  \/ \E id \in DOMAIN transfers :
       \/ \E ferry \in Ferries : AssignFerry(id, ferry)
       \/ \E community \in Communities : ReleaseOnTarget(id, community)
       \/ RefundOnSource(id) \/ MarkFailed(id)

RouterSpec == RouterInit /\ [][RouterNext]_routerVars

-----------------------------------------------------------------------------
In(statuses) == {id \in DOMAIN transfers : transfers[id].status \in statuses}
AmountOf(id) == id.amount
TransferAmount == [id \in TransferIDs |-> id.amount]
TransferFee == [id \in TransferIDs |-> PoolFee(id.amount)]
TransferNet == [id \in TransferIDs |-> id.amount - PoolFee(id.amount)]
InPool == In({"in pool", "in transit", "failed"})

(* Not a unit is lost: the pool has what is neither released nor refunded, *)
(* failed transfers included, even when it wraps.                          *)
PoolHolds ==
  poolBalance = SumFunctionOnSet(TransferAmount, InPool) % PoolWidth

(* Not a unit is made: what was handed out, and the fees, are those of the *)
(* released transfers.                                                     *)
PayoutsCovered ==
  /\ feeCollected = SumFunctionOnSet(TransferFee, In({"released"})) % PoolWidth
  /\ released = SumFunctionOnSet(TransferNet, In({"released"}))

(* A transfer is paid out or refunded, never both and never twice,         *)
(* whatever a late ferry and an early refund do: the router implements an  *)
(* escrow.                                                                 *)
Escrow == INSTANCE Escrow WITH
            Transfers <- TransferIDs, Amount <- AmountOf,
            held <- InPool, paid <- In({"released"}), returned <- In({"refunded"}),
            pool <- poolBalance, W <- PoolWidth
ImplementsEscrow == Escrow!EscrowSpec

(* The router conserves value and is an escrow.                            *)
RouterSound == [](PoolHolds /\ PayoutsCovered) /\ ImplementsEscrow
=============================================================================
