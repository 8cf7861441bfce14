------------------------------- MODULE Bridge --------------------------------
(***************************************************************************)
(* Transfers between namespaces (app/vrg_bridge.go over the router of      *)
(* x/vrg/namespace.go): a caller looks for an active edge under the lock   *)
(* of the edges and then locks the amount under the router's.  The ID is a *)
(* text of source, target, amount and second cut to 32 bytes: a transfer   *)
(* takes the place of one with the same ID, which is an equal one of that  *)
(* second, or of any second when the amount is long, and even one of       *)
(* another amount.  The namespace of a community is its own.               *)
(***************************************************************************)
EXTENDS Topology

CONSTANTS Callers, TransferAmounts,
          Kept(_, _),   \* what an ID keeps of amount and second
          PoolWidth,    \* 2^64 in the code
          MaxTransfers  \* bound of the model

ASSUME BridgeAssumption ==
  /\ PoolWidth \in Nat \ {0} /\ TransferAmounts \subseteq 1..(PoolWidth - 1)
  /\ MaxTransfers \in Nat

VARIABLES chaosPool,  \* by source
          moves,      \* [status, amount] of the transfers, by ID
          asking,     \* by caller: the pair it found an edge for
          started,    \* history: amounts locked, by source
          stuck,      \* history: amounts of locked transfers that were replaced
          finished    \* history: amounts released, by source

bridgeOnly == <<chaosPool, moves, asking, started, stuck, finished>>
bridgeVars == <<edgesVars, bridgeOnly>>

BridgeInit ==
  /\ EdgesInit
  /\ chaosPool = [p \in Parties |-> 0] /\ moves = <<>>
  /\ asking = [c \in Callers |-> <<>>]
  /\ started = [p \in Parties |-> 0] /\ stuck = [p \in Parties |-> 0]
  /\ finished = [p \in Parties |-> 0]

ActiveEdge(a, b) == \E id \in Between(a, b) : Status(id) = "active"

FindEdge(c, a, b) ==
  /\ asking[c] = <<>> /\ ActiveEdge(a, b)
  /\ asking' = [asking EXCEPT ![c] = <<a, b>>]
  /\ UNCHANGED <<edgesVars, chaosPool, moves, started, stuck, finished>>

\* The amount is locked once per ID.
LockedOnce(id, amount) == IF id \in DOMAIN moves THEN 0 ELSE amount

Locked(id, amount) == amount

InitiateTransfer(c, amount) ==
  /\ asking[c] # <<>> /\ asking' = [asking EXCEPT ![c] = <<>>]
  /\ LET id == <<asking[c][1], asking[c][2], Kept(amount, now)>> IN
     /\ amount + SumFunctionOnSet(started, Parties) <= MaxTransfers
     /\ moves' = [i \in DOMAIN moves \cup {id} |->
                    IF i = id THEN [status |-> "locked", amount |-> amount] ELSE moves[i]]
     /\ chaosPool' = [chaosPool EXCEPT ![id[1]] = (@ + Locked(id, amount)) % PoolWidth]
     /\ started' = [started EXCEPT ![id[1]] = @ + amount]
     /\ stuck' = IF id \in DOMAIN moves /\ moves[id].status = "locked"
                 THEN [stuck EXCEPT ![id[1]] = @ + moves[id].amount] ELSE stuck
  /\ UNCHANGED <<edgesVars, finished>>

\* Only from a pool that keeps something.
MayCompleteLess(id) == moves[id].status = "locked" /\ chaosPool[id[1]] > moves[id].amount

(* No transfer is ever in transit: only locked ones are completed.         *)
MayComplete(id) == moves[id].status = "locked" /\ chaosPool[id[1]] >= moves[id].amount

CompleteTransfer(id) ==
  /\ MayComplete(id)
  /\ chaosPool' = [chaosPool EXCEPT ![id[1]] = @ - moves[id].amount]
  /\ moves' = [moves EXCEPT ![id].status = "released"]
  /\ finished' = [finished EXCEPT ![id[1]] = @ + moves[id].amount]
  /\ UNCHANGED <<edgesVars, asking, started, stuck>>

BridgeNext ==
  \/ EdgeOps /\ UNCHANGED bridgeOnly
  \/ \E c \in Callers :
       \/ \E a, b \in Parties : FindEdge(c, a, b)
       \/ \E amount \in TransferAmounts : InitiateTransfer(c, amount)
  \/ \E id \in DOMAIN moves : CompleteTransfer(id)

BridgeSpec == BridgeInit /\ [][BridgeNext]_bridgeVars

-----------------------------------------------------------------------------
LockedFrom(p) == {id \in DOMAIN moves : id[1] = p /\ moves[id].status = "locked"}
HeldFrom(p) == SumFunctionOnSet([id \in DOMAIN moves |-> moves[id].amount], LockedFrom(p))

(* The pool of a namespace is what its locked transfers hold and what was  *)
(* stuck by transfers that took the place of a locked one, even when it    *)
(* wraps; and what was locked and is not stuck is locked or released.      *)
PoolBacked ==
  \A p \in Parties :
    /\ chaosPool[p] = (HeldFrom(p) + stuck[p]) % PoolWidth
    /\ started[p] = HeldFrom(p) + stuck[p] + finished[p]

(* "insufficient chaos pool funds" is answered only when the pool wrapped. *)
ReleaseRefused ==
  \A p \in Parties : \A id \in LockedFrom(p) :
    ~MayComplete(id) => started[p] - finished[p] >= PoolWidth

(* Callers that race for the transfers of two namespaces leave the pools   *)
(* backed, and no release is refused by a pool that should cover it.       *)
BridgeSound == PoolBacked /\ ReleaseRefused
=============================================================================
