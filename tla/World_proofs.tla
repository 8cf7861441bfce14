----------------------------- MODULE World_proofs ----------------------------
(***************************************************************************)
(* Proofs about the world of communities and players: transfers over the   *)
(* bridge, the gold and the changes of a game, the names and avatars of    *)
(* communities, the players and their guilds, and the tree of communities  *)
(* with its edges and slashings.  None reads what another one writes, so   *)
(* each has its own specification and its own inductive invariant.         *)
(***************************************************************************)
EXTENDS Slashing, Bridge, Identity, Economy, Game, Guilds, Sums, SequenceTheorems

-----------------------------------------------------------------------------
(* What a step adds to a number modulo w can be added to the number.       *)
LEMMA RestOfSum ==
  ASSUME NEW w \in Nat, w # 0, NEW x \in Int, NEW a \in Int
  PROVE  ((x % w) + a) % w = (x + a) % w
<1>1. PICK k \in Int : k = x \div w BY DivisionWithRest
<1>2. PICK r \in Int : r = x % w BY DivisionWithRest
<1>3. x = w * k + r BY <1>1, <1>2, DivisionWithRest
<1>4. PICK q \in Int : q = w * k OBVIOUS
<1>5. k * w = q BY <1>4
<1>6. PICK c \in Int, d \in Int : c = x + a /\ d = r + a OBVIOUS
<1>7. c = d + k * w BY <1>3, <1>4, <1>5, <1>6
<1>8. c % w = d % w BY <1>7, SameRest
<1>9. QED BY <1>2, <1>6, <1>8

LEMMA RestOfSmall ==
  ASSUME NEW w \in Nat, NEW x \in Nat, x < w PROVE x % w = x
OBVIOUS

-----------------------------------------------------------------------------
LEMMA Widths ==
  PoolWidth \in Nat /\ PoolWidth # 0 /\ \A amount \in TransferAmounts : amount \in Nat
BY BridgeAssumption

MovedUnits == [id \in DOMAIN moves |-> moves[id].amount]

BridgeTypes ==
  /\ DOMAIN chaosPool = Parties /\ DOMAIN started = Parties
  /\ DOMAIN stuck = Parties /\ DOMAIN finished = Parties
  /\ \A p \in Parties : /\ chaosPool[p] \in 0..(PoolWidth - 1)
                        /\ started[p] \in Nat /\ stuck[p] \in Nat /\ finished[p] \in Nat
  /\ DOMAIN asking = Callers
  /\ \A c \in Callers : asking[c] # <<>> => asking[c][1] \in Parties
  /\ IsFiniteSet(DOMAIN moves)
  /\ \A id \in DOMAIN moves :
       id[1] \in Parties /\ moves[id] \in [status : {"locked", "released"}, amount : TransferAmounts]

BridgeInv == BridgeTypes /\ PoolBacked

LEMMA LockedFinite ==
  ASSUME BridgeTypes, NEW p \in Parties
  PROVE  /\ IsFiniteSet(LockedFrom(p)) /\ LockedFrom(p) \subseteq DOMAIN moves
         /\ \A id \in LockedFrom(p) : MovedUnits[id] \in Nat /\ MovedUnits[id] = moves[id].amount
         /\ HeldFrom(p) \in Nat
<1>1. IsFiniteSet(LockedFrom(p)) /\ LockedFrom(p) \subseteq DOMAIN moves
  BY FS_Subset DEF LockedFrom, BridgeTypes
<1>2. \A id \in LockedFrom(p) : MovedUnits[id] \in Nat /\ MovedUnits[id] = moves[id].amount
  BY <1>1, Widths DEF BridgeTypes, MovedUnits
<1>3. HeldFrom(p) \in Nat BY <1>1, <1>2, SumNat DEF HeldFrom, MovedUnits
<1>4. QED BY <1>1, <1>2, <1>3

LEMMA HeldOf ==
  ASSUME NEW p PROVE HeldFrom(p) = SumFunctionOnSet(MovedUnits, LockedFrom(p))
BY DEF HeldFrom, MovedUnits

(* The held amounts after a step, from the locked transfers after it.      *)
LEMMA HeldSame ==
  ASSUME BridgeTypes, BridgeTypes', NEW p \in Parties, LockedFrom(p)' = LockedFrom(p),
         \A id \in LockedFrom(p) : moves'[id].amount = moves[id].amount
  PROVE  HeldFrom(p)' = HeldFrom(p)
<1>1. PICK s : s = LockedFrom(p) OBVIOUS
<1>2. PICK f : f = MovedUnits OBVIOUS
<1>3. PICK g : g = MovedUnits' OBVIOUS
<1>4. IsFiniteSet(s) /\ \A id \in s : f[id] = moves[id].amount BY <1>1, <1>2, LockedFinite
<1>5. \A id \in s : id \in DOMAIN moves' BY <1>1 DEF LockedFrom
<1>6. \A id \in s : g[id] = f[id] BY <1>1, <1>3, <1>4, <1>5 DEF MovedUnits
<1>7. SumFunctionOnSet(f, s) = SumFunctionOnSet(g, s) BY <1>4, <1>6, SumSame
<1>8. HeldFrom(p)' = SumFunctionOnSet(g, s) BY <1>1, <1>3 DEF HeldFrom, MovedUnits
<1>9. QED BY <1>1, <1>2, <1>7, <1>8, HeldOf

LEMMA HeldMore ==
  ASSUME BridgeTypes, BridgeTypes', NEW p \in Parties, NEW new, new \notin LockedFrom(p),
         LockedFrom(p)' = LockedFrom(p) \cup {new},
         \A id \in LockedFrom(p) : moves'[id].amount = moves[id].amount
  PROVE  HeldFrom(p)' = HeldFrom(p) + moves'[new].amount /\ moves'[new].amount \in Nat
<1>1. PICK s : s = LockedFrom(p) OBVIOUS
<1>2. PICK f : f = MovedUnits OBVIOUS
<1>3. PICK g : g = MovedUnits' OBVIOUS
<1>4. IsFiniteSet(s) /\ \A id \in s : f[id] = moves[id].amount /\ f[id] \in Nat
  BY <1>1, <1>2, LockedFinite
<1>5. \A id \in s \cup {new} : id \in DOMAIN moves' BY <1>1 DEF LockedFrom
<1>6. \A id \in s \cup {new} : g[id] = moves'[id].amount BY <1>3, <1>5 DEF MovedUnits
<1>6a. \A id \in s : g[id] = f[id] BY <1>1, <1>4, <1>6
<1>7. SumFunctionOnSet(f, s) = SumFunctionOnSet(g, s) BY <1>4, <1>6a, SumSame
<1>8. moves'[new].amount \in Nat BY <1>5, Widths DEF BridgeTypes
<1>9. \A id \in s \cup {new} : g[id] \in Int BY <1>4, <1>6, <1>6a, <1>8
<1>10. SumFunctionOnSet(g, s \cup {new}) = g[new] + SumFunctionOnSet(g, s)
  BY <1>1, <1>4, <1>9, SumAdd
<1>11. HeldFrom(p)' = SumFunctionOnSet(g, s \cup {new})
  BY <1>1, <1>3 DEF HeldFrom, MovedUnits
<1>12. HeldFrom(p) = SumFunctionOnSet(f, s) /\ HeldFrom(p) \in Nat
  BY <1>1, <1>2, HeldOf, LockedFinite
<1>13. PICK h \in Nat : h = HeldFrom(p) BY <1>12
<1>14. PICK k \in Nat : k = moves'[new].amount BY <1>8
<1>15. HeldFrom(p)' = k + h BY <1>6, <1>7, <1>10, <1>11, <1>12, <1>13, <1>14
<1>16. QED BY <1>13, <1>14, <1>15

\* One locked transfer has another amount.
LEMMA HeldOther ==
  ASSUME BridgeTypes, BridgeTypes', NEW p \in Parties, NEW id \in LockedFrom(p),
         LockedFrom(p)' = LockedFrom(p),
         \A x \in LockedFrom(p) \ {id} : moves'[x].amount = moves[x].amount
  PROVE  /\ HeldFrom(p)' = HeldFrom(p) - moves[id].amount + moves'[id].amount
         /\ moves[id].amount \in Nat /\ moves'[id].amount \in Nat
<1>1. PICK s : s = LockedFrom(p) OBVIOUS
<1>2. PICK f : f = MovedUnits OBVIOUS
<1>3. PICK g : g = MovedUnits' OBVIOUS
<1>4. IsFiniteSet(s) /\ \A x \in s : f[x] = moves[x].amount /\ f[x] \in Nat
  BY <1>1, <1>2, LockedFinite
<1>5. \A x \in s : x \in DOMAIN moves' BY <1>1 DEF LockedFrom
<1>6. \A x \in s : g[x] = moves'[x].amount BY <1>3, <1>5 DEF MovedUnits
<1>7. \A x \in s \ {id} : g[x] = f[x] BY <1>1, <1>4, <1>6
<1>8. g[id] = moves'[id].amount /\ g[id] \in Nat BY <1>1, <1>5, <1>6, Widths DEF BridgeTypes
<1>9. f[id] = moves[id].amount /\ f[id] \in Nat BY <1>1, <1>4
<1>10. SumFunctionOnSet(g, s) = SumFunctionOnSet(f, s) - f[id] + g[id]
  BY <1>1, <1>4, <1>7, <1>8, SumChange
<1>11. HeldFrom(p)' = SumFunctionOnSet(g, s) BY <1>1, <1>3 DEF HeldFrom, MovedUnits
<1>12. HeldFrom(p) = SumFunctionOnSet(f, s) BY <1>1, <1>2, HeldOf
<1>13. QED BY <1>8, <1>9, <1>10, <1>11, <1>12

LEMMA HeldLess ==
  ASSUME BridgeTypes, BridgeTypes', NEW p \in Parties, NEW id \in LockedFrom(p),
         LockedFrom(p)' = LockedFrom(p) \ {id},
         \A x \in LockedFrom(p) \ {id} : moves'[x].amount = moves[x].amount
  PROVE  /\ HeldFrom(p) = HeldFrom(p)' + moves[id].amount /\ moves[id].amount \in Nat
         /\ HeldFrom(p)' \in Nat
<1>1. PICK s : s = LockedFrom(p) OBVIOUS
<1>2. PICK f : f = MovedUnits OBVIOUS
<1>3. PICK g : g = MovedUnits' OBVIOUS
<1>4. IsFiniteSet(s) /\ \A x \in s : f[x] = moves[x].amount /\ f[x] \in Nat
  BY <1>1, <1>2, LockedFinite
<1>5. \A x \in s \ {id} : x \in DOMAIN moves' BY <1>1 DEF LockedFrom
<1>6. \A x \in s \ {id} : g[x] = f[x] BY <1>1, <1>3, <1>4, <1>5 DEF MovedUnits
<1>7. IsFiniteSet(s \ {id}) BY <1>4, FS_RemoveElement
<1>8. SumFunctionOnSet(f, s \ {id}) = SumFunctionOnSet(g, s \ {id})
  BY <1>4, <1>6, <1>7, SumSame
<1>9. SumFunctionOnSet(f, s) = f[id] + SumFunctionOnSet(f, s \ {id})
  BY <1>1, <1>4, SumRemove
<1>10. SumFunctionOnSet(f, s \ {id}) \in Nat BY <1>4, <1>7, SumNat
<1>11. HeldFrom(p)' = SumFunctionOnSet(g, s \ {id})
  BY <1>1, <1>3 DEF HeldFrom, MovedUnits
<1>12. HeldFrom(p) = SumFunctionOnSet(f, s) BY <1>1, <1>2, HeldOf
<1>13. PICK h \in Nat : h = HeldFrom(p)' BY <1>8, <1>10, <1>11
<1>14. PICK k \in Nat : k = moves[id].amount BY <1>1, <1>4
<1>15. HeldFrom(p) = k + h BY <1>1, <1>4, <1>8, <1>9, <1>11, <1>12, <1>13, <1>14
<1>16. QED BY <1>13, <1>14, <1>15

-----------------------------------------------------------------------------
LEMMA BridgeStart == BridgeInit => BridgeInv
<1>. SUFFICES ASSUME BridgeInit PROVE BridgeInv OBVIOUS
<1>1. DOMAIN moves = {} BY DEF BridgeInit
<1>2. BridgeTypes BY <1>1, FS_EmptySet, Widths DEF BridgeInit, BridgeTypes
<1>3. ASSUME NEW p \in Parties
      PROVE  chaosPool[p] = 0 /\ started[p] = 0 /\ stuck[p] = 0 /\ finished[p] = 0
  BY DEF BridgeInit
<1>4. ASSUME NEW p \in Parties PROVE HeldFrom(p) = 0 BY <1>1, SumEmpty DEF LockedFrom, HeldFrom
<1>5. 0 % PoolWidth = 0 BY Widths
<1>6. PoolBacked BY <1>3, <1>4, <1>5 DEF PoolBacked
<1>7. QED BY <1>2, <1>6 DEF BridgeInv

LEMMA FindKeeps ==
  ASSUME BridgeInv, NEW c \in Callers, NEW a \in Parties, NEW b \in Parties, FindEdge(c, a, b)
  PROVE  BridgeInv'
<1>1. BridgeTypes' BY DEF FindEdge, BridgeInv, BridgeTypes
<1>2. ASSUME NEW p \in Parties PROVE HeldFrom(p)' = HeldFrom(p)
  BY <1>1, HeldSame DEF LockedFrom, FindEdge, BridgeInv
<1>3. PoolBacked' BY <1>2 DEF PoolBacked, BridgeInv, FindEdge
<1>4. QED BY <1>1, <1>3 DEF BridgeInv

LEMMA InitiateKeeps ==
  ASSUME BridgeInv, NEW c \in Callers, NEW amount \in TransferAmounts, InitiateTransfer(c, amount)
  PROVE  BridgeInv'
<1>. PICK id : id = <<asking[c][1], asking[c][2], Kept(amount, now)>> OBVIOUS
<1>. PICK move : move = [status |-> "locked", amount |-> amount] OBVIOUS
<1>. PICK a : a = asking[c][1] OBVIOUS
<1>1. id[1] = a /\ move.status = "locked" /\ move.amount = amount OBVIOUS
<1>2. a \in Parties BY DEF InitiateTransfer, BridgeInv, BridgeTypes
<1>3. amount \in Nat BY Widths
<1>4. /\ moves' = [i \in DOMAIN moves \cup {id} |-> IF i = id THEN move ELSE moves[i]]
      /\ chaosPool' = [chaosPool EXCEPT ![id[1]] = (@ + Locked(id, amount)) % PoolWidth]
      /\ started' = [started EXCEPT ![id[1]] = @ + amount]
      /\ stuck' = IF id \in DOMAIN moves /\ moves[id].status = "locked"
                  THEN [stuck EXCEPT ![id[1]] = @ + moves[id].amount] ELSE stuck
      /\ asking' = [asking EXCEPT ![c] = <<>>] /\ finished' = finished
  BY DEF InitiateTransfer
<1>5. Locked(id, amount) = amount BY DEF Locked
<1>6. /\ chaosPool' = [chaosPool EXCEPT ![a] = (@ + amount) % PoolWidth]
      /\ started' = [started EXCEPT ![a] = @ + amount]
  BY <1>1, <1>4, <1>5
<1>7. BridgeTypes BY DEF BridgeInv
<1>8. BridgeTypes'
  <2>1. ASSUME NEW p \in Parties PROVE chaosPool'[p] \in 0..(PoolWidth - 1)
    <3>1. chaosPool[p] \in 0..(PoolWidth - 1) /\ DOMAIN chaosPool = Parties
      BY <1>7 DEF BridgeTypes
    <3>2. (chaosPool[p] + amount) % PoolWidth \in 0..(PoolWidth - 1)
      BY <1>3, <3>1, Widths
    <3>3. chaosPool'[p] = IF p = a THEN (chaosPool[p] + amount) % PoolWidth ELSE chaosPool[p]
      BY <1>2, <1>6, <3>1
    <3>4. QED BY <3>1, <3>2, <3>3
  <2>2. ASSUME NEW p \in Parties
        PROVE  started'[p] \in Nat /\ stuck'[p] \in Nat /\ finished'[p] \in Nat
    <3>1. /\ started[p] \in Nat /\ stuck[p] \in Nat /\ finished[p] \in Nat
          /\ DOMAIN started = Parties /\ DOMAIN stuck = Parties
      BY <1>7 DEF BridgeTypes
    <3>2. /\ started'[p] = IF p = a THEN started[p] + amount ELSE started[p]
          /\ \/ id \in DOMAIN moves /\ stuck'[p] = stuck[p] + moves[id].amount
             \/ stuck'[p] = stuck[p]
      BY <1>1, <1>2, <1>4, <1>6, <3>1
    <3>2a. id \in DOMAIN moves => moves[id].amount \in Nat BY <1>7, Widths DEF BridgeTypes
    <3>3. QED BY <1>3, <1>4, <3>1, <3>2, <3>2a
  <2>3. /\ DOMAIN chaosPool' = Parties /\ DOMAIN started' = Parties
        /\ DOMAIN stuck' = Parties /\ DOMAIN finished' = Parties
    BY <1>4, <1>6, <1>7 DEF BridgeTypes
  <2>4. DOMAIN asking' = Callers /\ \A d \in Callers : asking'[d] # <<>> => asking'[d][1] \in Parties
    BY <1>4, <1>7 DEF BridgeTypes
  <2>5. DOMAIN moves' = DOMAIN moves \cup {id} BY <1>4
  <2>6. IsFiniteSet(DOMAIN moves')
    <3>1. IsFiniteSet(DOMAIN moves) BY <1>7 DEF BridgeTypes
    <3>2. IsFiniteSet(DOMAIN moves \cup {id}) BY <3>1, FS_AddElement
    <3>3. QED BY <2>5, <3>2
  <2>7. ASSUME NEW i \in DOMAIN moves'
        PROVE  /\ i[1] \in Parties
               /\ moves'[i] \in [status : {"locked", "released"}, amount : TransferAmounts]
    <3>1. moves'[i] = IF i = id THEN move ELSE moves[i] BY <1>4, <2>5
    <3>2. move \in [status : {"locked", "released"}, amount : TransferAmounts] OBVIOUS
    <3>3. QED BY <1>1, <1>2, <1>7, <2>5, <3>1, <3>2 DEF BridgeTypes
  <2>8. QED BY <2>1, <2>2, <2>3, <2>4, <2>6, <2>7 DEF BridgeTypes
<1>9. ASSUME NEW p \in Parties
      PROVE  LockedFrom(p)' = IF p = a THEN LockedFrom(p) \cup {id} ELSE LockedFrom(p)
  BY <1>1, <1>4 DEF LockedFrom
<1>9a. \A i \in DOMAIN moves : i # id => moves'[i] = moves[i] BY <1>4
<1>9b. moves'[id] = move BY <1>4
<1>10. ASSUME NEW p \in Parties, p # a
       PROVE  /\ HeldFrom(p)' = HeldFrom(p) /\ chaosPool'[p] = chaosPool[p]
              /\ stuck'[p] = stuck[p] /\ started'[p] = started[p]
  <2>1. LockedFrom(p)' = LockedFrom(p) BY <1>9, <1>10
  <2>2. \A i \in LockedFrom(p) : moves'[i].amount = moves[i].amount BY <1>1, <1>9a, <1>10 DEF LockedFrom
  <2>3. HeldFrom(p)' = HeldFrom(p) BY <1>7, <1>8, <2>1, <2>2, HeldSame
  <2>4. QED BY <1>1, <1>4, <1>6, <1>7, <1>10, <2>3 DEF BridgeTypes
<1>11. PICK h \in Nat : h = HeldFrom(a) BY <1>2, <1>7, LockedFinite
<1>12. PICK s \in Nat, t \in Nat, f \in Nat : s = stuck[a] /\ t = started[a] /\ f = finished[a]
  BY <1>2, <1>7 DEF BridgeTypes
<1>13. chaosPool[a] = (h + s) % PoolWidth /\ t = h + s + f
  BY <1>2, <1>11, <1>12 DEF BridgeInv, PoolBacked
<1>14. chaosPool'[a] = ((h + s) + amount) % PoolWidth
  <2>1. chaosPool'[a] = (chaosPool[a] + amount) % PoolWidth BY <1>2, <1>6, <1>7 DEF BridgeTypes
  <2>2. chaosPool'[a] = (((h + s) % PoolWidth) + amount) % PoolWidth BY <1>13, <2>1
  <2>3. PICK x \in Int, n \in Int : x = h + s /\ n = amount BY <1>3
  <2>4. ((x % PoolWidth) + n) % PoolWidth = (x + n) % PoolWidth BY RestOfSum, Widths
  <2>5. QED BY <2>2, <2>3, <2>4
<1>15. started'[a] = t + amount /\ finished'[a] = f BY <1>2, <1>4, <1>6, <1>7, <1>12 DEF BridgeTypes
<1>16. CASE id \in LockedFrom(a)
  <2>1. LockedFrom(a)' = LockedFrom(a) BY <1>2, <1>9, <1>16
  <2>1a. \A i \in LockedFrom(a) \ {id} : moves'[i].amount = moves[i].amount BY <1>9a DEF LockedFrom
  <2>1b. HeldFrom(a)' = HeldFrom(a) - moves[id].amount + moves'[id].amount /\ moves[id].amount \in Nat
    BY <1>2, <1>7, <1>8, <1>16, <2>1, <2>1a, HeldOther
  <2>1c. PICK k \in Nat : k = moves[id].amount BY <2>1b
  <2>2. HeldFrom(a)' = h - k + amount BY <1>1, <1>3, <1>9b, <1>11, <2>1b, <2>1c
  <2>3. id \in DOMAIN moves /\ moves[id].status = "locked" BY <1>16 DEF LockedFrom
  <2>4. stuck'[a] = s + k BY <1>1, <1>2, <1>4, <1>7, <1>12, <2>1c, <2>3 DEF BridgeTypes
  <2>5. /\ chaosPool'[a] = (HeldFrom(a)' + stuck'[a]) % PoolWidth
        /\ started'[a] = HeldFrom(a)' + stuck'[a] + finished'[a] BY <1>3, <1>13, <1>14, <1>15, <2>2, <2>4
  <2>6. PoolBacked' BY <1>4, <1>10, <2>5 DEF PoolBacked, BridgeInv
  <2>7. QED BY <1>8, <2>6 DEF BridgeInv
<1>17. CASE id \notin LockedFrom(a)
  <2>1. LockedFrom(a)' = LockedFrom(a) \cup {id} BY <1>2, <1>9
  <2>1a. \A i \in LockedFrom(a) : moves'[i].amount = moves[i].amount BY <1>9a, <1>17 DEF LockedFrom
  <2>2. HeldFrom(a)' = h + amount
    BY <1>1, <1>2, <1>7, <1>8, <1>9b, <1>11, <1>17, <2>1, <2>1a, HeldMore
  <2>3. ~(id \in DOMAIN moves /\ moves[id].status = "locked") BY <1>1, <1>17 DEF LockedFrom
  <2>4. stuck'[a] = s BY <1>4, <1>12, <2>3
  <2>5. /\ chaosPool'[a] = (HeldFrom(a)' + stuck'[a]) % PoolWidth
        /\ started'[a] = HeldFrom(a)' + stuck'[a] + finished'[a] BY <1>3, <1>13, <1>14, <1>15, <2>2, <2>4
  <2>6. PoolBacked' BY <1>4, <1>10, <2>5 DEF PoolBacked, BridgeInv
  <2>7. QED BY <1>8, <2>6 DEF BridgeInv
<1>18. QED BY <1>16, <1>17

LEMMA CompleteKeeps ==
  ASSUME BridgeInv, NEW id \in DOMAIN moves, CompleteTransfer(id)
  PROVE  BridgeInv'
<1>. PICK a : a = id[1] OBVIOUS
<1>. PICK k : k = moves[id].amount OBVIOUS
<1>1. BridgeTypes BY DEF BridgeInv
<1>2. a \in Parties /\ k \in Nat BY <1>1, Widths DEF BridgeTypes
<1>3. moves[id].status = "locked" /\ chaosPool[a] >= k BY DEF CompleteTransfer, MayComplete
<1>4. /\ chaosPool' = [chaosPool EXCEPT ![a] = @ - k]
      /\ moves' = [moves EXCEPT ![id].status = "released"]
      /\ finished' = [finished EXCEPT ![a] = @ + k]
      /\ asking' = asking /\ started' = started /\ stuck' = stuck
  BY DEF CompleteTransfer
<1>5. BridgeTypes'
  <2>1. \A p \in Parties : chaosPool'[p] \in 0..(PoolWidth - 1)
    BY <1>1, <1>2, <1>3, <1>4, Widths DEF BridgeTypes
  <2>2. \A p \in Parties : started'[p] \in Nat /\ stuck'[p] \in Nat /\ finished'[p] \in Nat
    BY <1>1, <1>2, <1>4 DEF BridgeTypes
  <2>3. DOMAIN moves' = DOMAIN moves /\ DOMAIN chaosPool' = Parties /\ DOMAIN finished' = Parties
    BY <1>1, <1>4 DEF BridgeTypes
  <2>4. \A i \in DOMAIN moves :
          moves'[i] \in [status : {"locked", "released"}, amount : TransferAmounts]
    BY <1>1, <1>4 DEF BridgeTypes
  <2>5. QED BY <1>1, <1>4, <2>1, <2>2, <2>3, <2>4 DEF BridgeTypes
<1>5a. \A i \in DOMAIN moves : moves'[i].amount = moves[i].amount
  <2>1. ASSUME NEW i \in DOMAIN moves PROVE moves'[i].amount = moves[i].amount
    <3>1. moves[i] \in [status : {"locked", "released"}, amount : TransferAmounts]
      BY <1>1 DEF BridgeTypes
    <3>2. moves'[i] = IF i = id THEN [moves[i] EXCEPT !.status = "released"] ELSE moves[i] BY <1>4
    <3>3. QED BY <3>1, <3>2
  <2>2. QED BY <2>1
<1>5b. \A i \in DOMAIN moves : moves'[i].status = IF i = id THEN "released" ELSE moves[i].status
  <2>1. ASSUME NEW i \in DOMAIN moves PROVE moves'[i].status = IF i = id THEN "released" ELSE moves[i].status
    <3>1. moves[i] \in [status : {"locked", "released"}, amount : TransferAmounts]
      BY <1>1 DEF BridgeTypes
    <3>2. moves'[i] = IF i = id THEN [moves[i] EXCEPT !.status = "released"] ELSE moves[i] BY <1>4
    <3>3. QED BY <3>1, <3>2
  <2>2. QED BY <2>1
<1>6. ASSUME NEW p \in Parties
      PROVE  LockedFrom(p)' = IF p = a THEN LockedFrom(p) \ {id} ELSE LockedFrom(p)
  BY <1>4, <1>5b DEF LockedFrom
<1>7. id \in LockedFrom(a) BY <1>3 DEF LockedFrom
<1>8. ASSUME NEW p \in Parties, p # a
      PROVE  /\ HeldFrom(p)' = HeldFrom(p) /\ chaosPool'[p] = chaosPool[p]
             /\ finished'[p] = finished[p]
  <2>1. LockedFrom(p)' = LockedFrom(p) BY <1>6, <1>8
  <2>2. HeldFrom(p)' = HeldFrom(p) BY <1>1, <1>5, <1>5a, <2>1, HeldSame DEF LockedFrom
  <2>3. QED BY <1>1, <1>4, <1>8, <2>2 DEF BridgeTypes
<1>9. LockedFrom(a)' = LockedFrom(a) \ {id} BY <1>2, <1>6
<1>10. PICK h \in Nat : h = HeldFrom(a)' /\ HeldFrom(a) = h + k
  BY <1>1, <1>2, <1>5, <1>5a, <1>7, <1>9, HeldLess DEF LockedFrom
<1>11. PICK s \in Nat, t \in Nat, f \in Nat : s = stuck[a] /\ t = started[a] /\ f = finished[a]
  BY <1>1, <1>2 DEF BridgeTypes
<1>12. chaosPool[a] = ((h + k) + s) % PoolWidth /\ t = (h + k) + s + f
  BY <1>2, <1>10, <1>11 DEF BridgeInv, PoolBacked
<1>13. chaosPool'[a] = chaosPool[a] - k /\ finished'[a] = f + k
  BY <1>1, <1>2, <1>4, <1>11 DEF BridgeTypes
<1>14. chaosPool'[a] = (h + s) % PoolWidth
  <2>1. PICK c \in 0..(PoolWidth - 1) : c = chaosPool'[a] BY <1>2, <1>5 DEF BridgeTypes
  <2>2. c = c % PoolWidth BY <2>1, RestOfSmall, Widths
  <2>3. c = (((h + k) + s) % PoolWidth) + (-k) BY <1>2, <1>12, <1>13, <2>1, Widths
  <2>4. (\E x \in Int : x = (h + k) + s) /\ (\E n \in Int : n = -k) BY <1>2
  <2>4a. PICK x \in Int : x = (h + k) + s BY <2>4
  <2>4b. PICK n \in Int : n = -k BY <2>4
  <2>5. ((x % PoolWidth) + n) % PoolWidth = (x + n) % PoolWidth BY RestOfSum, Widths
  <2>6. c = (x % PoolWidth) + n BY <2>3, <2>4a, <2>4b
  <2>7. x + n = h + s BY <1>2, <2>4a, <2>4b
  <2>8. QED BY <2>1, <2>2, <2>5, <2>6, <2>7
<1>15. t = h + s + (f + k) BY <1>2, <1>12
<1>16. /\ chaosPool'[a] = (HeldFrom(a)' + stuck'[a]) % PoolWidth
       /\ started'[a] = HeldFrom(a)' + stuck'[a] + finished'[a]
  BY <1>4, <1>10, <1>11, <1>13, <1>14, <1>15
<1>17. PoolBacked' BY <1>4, <1>8, <1>16 DEF PoolBacked, BridgeInv
<1>18. QED BY <1>5, <1>17 DEF BridgeInv

LEMMA BridgeStep == BridgeInv /\ [BridgeNext]_bridgeVars => BridgeInv'
<1>. SUFFICES ASSUME BridgeInv, [BridgeNext]_bridgeVars PROVE BridgeInv' OBVIOUS
<1>1. ASSUME UNCHANGED bridgeOnly PROVE BridgeInv'
  <2>1. BridgeTypes' BY <1>1 DEF bridgeOnly, BridgeInv, BridgeTypes
  <2>2. ASSUME NEW p \in Parties PROVE HeldFrom(p)' = HeldFrom(p)
    BY <1>1, <2>1, HeldSame DEF LockedFrom, bridgeOnly, BridgeInv
  <2>3. PoolBacked' BY <1>1, <2>2 DEF PoolBacked, BridgeInv, bridgeOnly
  <2>4. QED BY <2>1, <2>3 DEF BridgeInv
<1>2. ASSUME UNCHANGED bridgeVars PROVE UNCHANGED bridgeOnly BY <1>2 DEF bridgeVars
<1>3. QED BY <1>1, <1>2, FindKeeps, InitiateKeeps, CompleteKeeps DEF BridgeNext

LEMMA NeverRefused == BridgeInv => ReleaseRefused
<1>. SUFFICES ASSUME BridgeInv, NEW p \in Parties, NEW id \in LockedFrom(p), ~MayComplete(id),
                     started[p] - finished[p] < PoolWidth
              PROVE  FALSE
  <2>1. ASSUME BridgeInv, NEW q \in Parties PROVE started[q] - finished[q] \in Int
    BY <2>1 DEF BridgeInv, BridgeTypes
  <2>2. QED BY <2>1, Widths DEF ReleaseRefused
<1>1. BridgeTypes BY DEF BridgeInv
<1>2. /\ IsFiniteSet(LockedFrom(p)) /\ HeldFrom(p) \in Nat
      /\ \A x \in LockedFrom(p) : MovedUnits[x] \in Nat /\ MovedUnits[x] = moves[x].amount
  BY <1>1, LockedFinite
<1>3. PICK u : u = MovedUnits OBVIOUS
<1>4. u[id] <= SumFunctionOnSet(u, LockedFrom(p)) BY <1>2, <1>3, SumBounds
<1>5. PICK h \in Nat : h = HeldFrom(p) BY <1>2
<1>6. PICK k \in Nat : k = moves[id].amount BY <1>2
<1>7. k <= h BY <1>2, <1>3, <1>4, <1>5, <1>6, HeldOf
<1>8. moves[id].status = "locked" /\ id[1] = p BY DEF LockedFrom
<1>9. PICK c \in Nat, s \in Nat, t \in Nat, f \in Nat :
        c = chaosPool[p] /\ s = stuck[p] /\ t = started[p] /\ f = finished[p]
  BY <1>1 DEF BridgeTypes
<1>10. c = (h + s) % PoolWidth /\ t = h + s + f BY <1>5, <1>9 DEF BridgeInv, PoolBacked
<1>11. h + s < PoolWidth BY <1>9, <1>10, Widths
<1>12. c = h + s BY <1>10, <1>11, RestOfSmall, Widths
<1>13. c < k BY <1>6, <1>8, <1>9 DEF MayComplete
<1>14. QED BY <1>7, <1>12, <1>13

(* x/vrg/namespace.go under app/vrg_bridge.go: for any callers, parties,   *)
(* amounts, edges and width, the pool of a namespace is what its locked    *)
(* transfers hold and what those stuck that a transfer of the same ID      *)
(* replaced, and a release is refused only after the pool wrapped.         *)
THEOREM BridgeIsSound == BridgeSpec => []BridgeSound
<1>1. BridgeInv => BridgeSound BY NeverRefused DEF BridgeInv, BridgeSound
<1>2. QED BY <1>1, BridgeStart, BridgeStep, PTL DEF BridgeSpec

-----------------------------------------------------------------------------
(* Gold: what is where, and the equations about what came and went.        *)
GoldTypes ==
  {circulation, reserve, paid, recharged, withdrawn, added, issued, burned, small} \subseteq Nat

GoldInv == GoldTypes /\ GoldTraced /\ paid <= Shares * withdrawn + small

LEMMA Inputs ==
  /\ GoldWidth \in Nat /\ GoldWidth # 0 /\ Shares \in Nat /\ Shares # 0 /\ Announcement \in Nat
  /\ \A n \in Golds : n \in Nat /\ n # 0
  /\ \A n \in Rates : n \in Nat /\ n # 0
  /\ \A n \in Units : n \in Nat
  /\ \A n \in Cooldowns : n \in Nat
  /\ \A n \in DailyLimits : n \in Nat
  /\ \A n \in MallPrices : n \in Nat
BY EconomyAssumption

LEMMA GoldTermed ==
  ASSUME GoldInv
  PROVE  /\ circulation \in Nat /\ paid \in Nat /\ withdrawn \in Nat /\ small \in Nat
         /\ reserve \in Nat /\ recharged \in Nat /\ added \in Nat /\ issued \in Nat /\ burned \in Nat
BY DEF GoldInv, GoldTypes

LEMMA GoldStart == EconomyInit => GoldInv
<1>. SUFFICES ASSUME EconomyInit PROVE GoldInv OBVIOUS
<1>1. /\ circulation = 0 /\ reserve = 0 /\ paid = 0 /\ recharged = 0
      /\ withdrawn = 0 /\ added = 0 /\ issued = 0 /\ burned = 0 /\ small = 0
  BY DEF EconomyInit, GoldInit
<1>2. GoldTypes BY <1>1 DEF GoldTypes
<1>3. 0 = (0 + 0 - 0 - 0) % GoldWidth BY Inputs, RestOfSmall
<1>4. GoldTraced BY <1>1, <1>3 DEF GoldTraced
<1>5. Shares * 0 = 0 BY Inputs
<1>6. QED BY <1>1, <1>2, <1>4, <1>5 DEF GoldInv

LEMMA WholesOf ==
  ASSUME NEW w \in Nat, w # 0, NEW q \in Int, NEW r \in 0..(w - 1), NEW x \in Nat, x = w * q + r
  PROVE  w * q >= 0
<1>1. SUFFICES ASSUME q < 0 PROVE FALSE OBVIOUS
<1>2. PICK k \in Int : k = w * q OBVIOUS
<1>3. PICK p \in Nat : q = -1 - p BY <1>1
<1>4. PICK m \in Nat : m = w * p OBVIOUS
<1>5. k = -w - m BY <1>2, <1>3, <1>4
<1>6. QED BY <1>2, <1>4, <1>5

\* What comes in, and what goes of what a word shows.
LEMMA WordGains ==
  ASSUME NEW w \in Nat, w # 0, NEW x \in Int, NEW n \in Int, NEW c, c = (x % w)
  PROVE  (c + n) % w = (x + n) % w /\ (c + n) % w \in Nat
<1>1. ((x % w) + n) % w = (x + n) % w BY RestOfSum
<1>2. PICK y \in Int : y = x + n OBVIOUS
<1>3. y % w \in Nat BY DivisionWithRest
<1>4. QED BY <1>1, <1>2, <1>3

LEMMA WordLoses ==
  ASSUME NEW w \in Nat, w # 0, NEW x \in Nat, NEW n \in Nat, NEW c, c = (x % w), n <= c
  PROVE  x - n \in Nat /\ c - n = (x - n) % w
<1>1. PICK q \in Int : q = x \div w BY DivisionWithRest
<1>2. PICK r \in 0..(w - 1) : r = (x % w) BY DivisionWithRest
<1>3. PICK k \in Int : k = w * q OBVIOUS
<1>4. x = k + r BY <1>1, <1>2, <1>3, DivisionWithRest
<1>5. k >= 0 BY <1>2, <1>3, <1>4, WholesOf
<1>6. PICK s : s = r - n OBVIOUS
<1>7. s \in Nat /\ s < w BY <1>2, <1>6
<1>8. PICK y : y = x - n OBVIOUS
<1>9. y \in Nat BY <1>4, <1>5, <1>6, <1>7, <1>8
<1>10. y = s + q * w BY <1>3, <1>4, <1>6, <1>8
<1>11. y % w = s % w
  <2>1. y \in Int /\ s \in Int BY <1>7, <1>9
  <2>2. QED BY <1>1, <1>10, <2>1, SameRest, Zenon
<1>12. s % w = s BY <1>7, RestOfSmall
<1>13. QED BY <1>2, <1>6, <1>8, <1>9, <1>11, <1>12

(* Paying the whole units of an amount pays no more than the amount is     *)
(* worth; less than a unit counts as one.                                  *)
LEMMA UnitsPaid ==
  ASSUME NEW worth \in Nat, NEW rate \in Nat, rate # 0, NEW whole, whole = worth \div rate
  PROVE  AtLeastOne(whole) * rate \in Nat
         /\ AtLeastOne(whole) * rate <= worth + (IF whole = 0 THEN rate ELSE 0)
<1>1. whole \in Nat /\ worth = rate * whole + (worth % rate) /\ (worth % rate) \in 0..(rate - 1)
  BY DivisionWithRest
<1>2. CASE whole = 0 BY <1>2 DEF AtLeastOne
<1>3. CASE whole # 0
  <2>1. PICK n \in Nat : n = whole /\ n # 0 BY <1>1, <1>3
  <2>2. n * rate \in Nat /\ n * rate = rate * n BY <2>1
  <2>3. PICK k \in Nat, s \in Nat : k = rate * n /\ s = (worth % rate) BY <1>1, <2>1, <2>2
  <2>4. worth = k + s BY <1>1, <2>1, <2>3
  <2>5. AtLeastOne(whole) * rate = k BY <2>1, <2>2, <2>3 DEF AtLeastOne
  <2>6. QED BY <1>3, <2>3, <2>4, <2>5
<1>4. QED BY <1>2, <1>3

LEMMA WholeShares ==
  ASSUME NEW x \in Nat, NEW w \in Nat, w # 0 PROVE x \div w \in Nat
OBVIOUS

Rated == params.recharge \in Nat \ {0} /\ params.withdraw \in Nat \ {0}

LEMMA GoldShown ==
  ASSUME GoldInv
  PROVE  \E x \in Nat : x = recharged + issued - withdrawn - burned /\ circulation = (x % GoldWidth)
<1>1. withdrawn + burned <= recharged + issued BY DEF GoldInv, GoldTraced
<1>2. PICK x \in Nat : x = recharged + issued - withdrawn - burned BY <1>1, GoldTermed
<1>3. circulation = (x % GoldWidth) BY <1>2 DEF GoldInv, GoldTraced
<1>4. QED BY <1>2, <1>3

LEMMA WithdrawKeepsGold ==
  ASSUME GoldInv, Rated, NEW c \in Customers, NEW gold \in Golds, Withdraw(c, gold)
  PROVE  GoldInv'
<1>1. gold \in Nat /\ Shares \in Nat BY Inputs
<1>2. PICK rate \in Nat : rate = params.withdraw /\ rate # 0 BY DEF Rated
<1>3. PICK worth \in Nat : worth = gold * Shares BY <1>1
<1>4. PICK whole : whole = worth \div rate OBVIOUS
<1>5. PICK pay \in Nat : pay = AtLeastOne(whole) * rate BY <1>2, <1>4, UnitsPaid
<1>6. PICK lost \in Nat : lost = (IF whole = 0 THEN rate ELSE 0) OBVIOUS
<1>7. pay <= worth + lost BY <1>2, <1>4, <1>5, <1>6, UnitsPaid
<1>8. gold <= circulation /\ circulation' = circulation - gold /\ withdrawn' = withdrawn + gold
      /\ reserve' = reserve /\ recharged' = recharged
      /\ added' = added /\ issued' = issued /\ burned' = burned
  BY DEF Withdraw, Within
<1>9. paid' = paid + pay BY <1>2, <1>3, <1>4, <1>5 DEF Withdraw
<1>10. small' = IF whole = 0 THEN small + rate ELSE small BY <1>2, <1>3, <1>4 DEF Withdraw
<1>11. small' = small + lost BY <1>6, <1>10, GoldTermed
<1>12. GoldTypes' BY <1>1, <1>8, <1>9, <1>11, GoldTermed DEF GoldTypes
<1>13. GoldTraced'
  <2>1. PICK x \in Nat : x = recharged + issued - withdrawn - burned /\ circulation = (x % GoldWidth)
    BY GoldShown
  <2>2. x - gold \in Nat /\ circulation - gold = (x - gold) % GoldWidth
    <3>1. PICK w \in Nat, y \in Nat : w = GoldWidth /\ w # 0 /\ y = circulation BY Inputs, GoldTermed
    <3>2. gold <= y /\ y = (x % w) BY <1>8, <2>1, <3>1
    <3>3. w \in Nat /\ w # 0 /\ x \in Nat /\ gold \in Nat BY <1>1, <2>1, <3>1
    <3>4. x - gold \in Nat /\ y - gold = (x - gold) % w BY <3>2, <3>3, WordLoses, Zenon
    <3>5. QED BY <3>1, <3>4
  <2>3. recharged' + issued' - withdrawn' - burned' = x - gold BY <1>1, <1>8, <2>1, GoldTermed
  <2>4. withdrawn' + burned' <= recharged' + issued' BY <1>1, <1>8, <2>1, <2>2, GoldTermed
  <2>5. QED BY <1>8, <2>2, <2>3, <2>4 DEF GoldTraced, GoldInv
<1>14. PICK k \in Nat : k = Shares * withdrawn BY <1>1, GoldTermed
<1>15. Shares * withdrawn' = k + worth BY <1>1, <1>3, <1>8, <1>14, GoldTermed
<1>16. paid <= k + small BY <1>14 DEF GoldInv
<1>17. paid + pay <= (k + worth) + (small + lost) BY <1>7, <1>16, GoldTermed
<1>18. paid' <= Shares * withdrawn' + small' BY <1>9, <1>11, <1>15, <1>17
<1>19. QED BY <1>12, <1>13, <1>18 DEF GoldInv

LEMMA GoldComes ==
  ASSUME GoldInv, NEW n \in Nat, UNCHANGED <<withdrawn, burned, paid, small>>,
         circulation' = (circulation + n) % GoldWidth,
         \/ recharged' = recharged + n /\ reserve' = reserve + n /\ UNCHANGED <<added, issued>>
         \/ issued' = issued + n /\ n <= reserve /\ reserve' = reserve - n /\ UNCHANGED <<recharged, added>>
  PROVE  GoldInv'
<1>1. reserve = recharged + added - issued /\ reserve >= 0 /\ withdrawn + burned <= recharged + issued
  BY DEF GoldInv, GoldTraced
<1>2. PICK x \in Nat : x = recharged + issued - withdrawn - burned /\ circulation = (x % GoldWidth)
  BY GoldShown
<1>3. (circulation + n) % GoldWidth = (x + n) % GoldWidth /\ (circulation + n) % GoldWidth \in Nat
  <2>1. PICK w \in Nat, c \in Nat : w = GoldWidth /\ w # 0 /\ c = circulation BY Inputs, GoldTermed
  <2>2. c = (x % w) BY <1>2, <2>1
  <2>3. x \in Int /\ n \in Int BY <1>2
  <2>4. (c + n) % w = (x + n) % w /\ (c + n) % w \in Nat BY <2>1, <2>2, <2>3, WordGains, Zenon
  <2>5. QED BY <2>1, <2>4
<1>4. PICK t \in Nat : t = (circulation + n) % GoldWidth BY <1>3
<1>5. circulation' = t BY <1>4
<1>6. GoldTypes' BY <1>5, GoldTermed DEF GoldTypes
<1>7. recharged' + issued' - withdrawn' - burned' = x + n BY <1>2, GoldTermed
<1>8. withdrawn' + burned' <= recharged' + issued' BY <1>1, GoldTermed
<1>9. reserve' = recharged' + added' - issued' /\ reserve' >= 0 BY <1>1, GoldTermed
<1>10. GoldTraced' BY <1>3, <1>7, <1>8, <1>9 DEF GoldTraced
<1>11. QED BY <1>6, <1>10 DEF GoldInv

LEMMA GoldStep == GoldInv /\ Rated /\ [EconomyNext]_economyVars => GoldInv'
<1>. SUFFICES ASSUME GoldInv, Rated, [EconomyNext]_economyVars PROVE GoldInv' OBVIOUS
<1>1. ASSUME UNCHANGED <<circulation, reserve, paid, recharged, withdrawn, added, issued, burned, small>>
      PROVE  GoldInv'
  BY <1>1 DEF GoldInv, GoldTypes, GoldTraced
<1>2. ASSUME NEW n \in Units, Recharge(n) PROVE GoldInv'
  <2>1. n \in Nat /\ params.recharge \in Nat /\ Shares \in Nat /\ Shares # 0 BY Inputs DEF Rated
  <2>2. PICK x \in Nat : x = n * params.recharge BY <2>1
  <2>3. x \div Shares \in Nat BY <2>1, WholeShares
  <2>4. PICK g \in Nat : g = AtLeastOne(x \div Shares) BY <2>3 DEF AtLeastOne
  <2>5. /\ reserve' = reserve + g /\ circulation' = (circulation + g) % GoldWidth
        /\ recharged' = recharged + g /\ UNCHANGED <<paid, withdrawn, added, issued, burned, small>>
    BY <1>2, <2>2, <2>4 DEF Recharge
  <2>6. QED BY <2>5, GoldComes
<1>3. ASSUME NEW n \in Golds, IssueGold(n) PROVE GoldInv'
  <2>1. n \in Nat BY Inputs
  <2>2. /\ n <= reserve /\ reserve' = reserve - n /\ circulation' = (circulation + n) % GoldWidth
        /\ issued' = issued + n /\ UNCHANGED <<recharged, paid, withdrawn, added, burned, small>>
    BY <1>3 DEF IssueGold, InReserve
  <2>3. QED BY <2>1, <2>2, GoldComes
<1>4. ASSUME NEW n \in Golds, AddGoldReserve(n) PROVE GoldInv'
  BY <1>4, Inputs, GoldTermed DEF AddGoldReserve, GoldTypes, GoldTraced, GoldInv
<1>5. ASSUME NEW n \in Golds, BurnGold(n) PROVE GoldInv'
  <2>1. n \in Nat BY Inputs
  <2>2. /\ n <= circulation /\ circulation' = circulation - n /\ burned' = burned + n
        /\ UNCHANGED <<reserve, recharged, issued, paid, withdrawn, added, small>>
    BY <1>5 DEF BurnGold
  <2>3. GoldTypes' BY <2>1, <2>2, GoldTermed DEF GoldTypes
  <2>4. PICK x \in Nat : x = recharged + issued - withdrawn - burned /\ circulation = (x % GoldWidth)
    BY GoldShown
  <2>5. x - n \in Nat /\ circulation - n = (x - n) % GoldWidth
    <3>1. PICK w \in Nat, c \in Nat : w = GoldWidth /\ w # 0 /\ c = circulation BY Inputs, GoldTermed
    <3>2. n <= c /\ c = (x % w) BY <2>2, <2>4, <3>1
    <3>3. w \in Nat /\ w # 0 /\ x \in Nat /\ n \in Nat BY <2>1, <2>4, <3>1
    <3>4. x - n \in Nat /\ c - n = (x - n) % w BY <3>2, <3>3, WordLoses, Zenon
    <3>5. QED BY <3>1, <3>4
  <2>6. recharged' + issued' - withdrawn' - burned' = x - n BY <2>1, <2>2, <2>4, GoldTermed
  <2>7. withdrawn' + burned' <= recharged' + issued' BY <2>1, <2>2, <2>4, <2>5, GoldTermed
  <2>8. GoldTraced' BY <2>2, <2>5, <2>6, <2>7 DEF GoldTraced, GoldInv
  <2>9. QED BY <2>2, <2>3, <2>8 DEF GoldInv
<1>6. CASE GoldNext /\ UNCHANGED authorVars
  BY <1>1, <1>2, <1>3, <1>4, <1>5, <1>6, WithdrawKeepsGold DEF GoldNext, ResetDailyWithdraws, goldVars
<1>7. CASE UNCHANGED goldVars BY <1>1, <1>7 DEF goldVars
<1>8. QED BY <1>6, <1>7 DEF EconomyNext, economyVars

LEMMA GoldPays == GoldInv => GoldTraced /\ PayoutsBacked
<1>. SUFFICES ASSUME GoldInv PROVE PayoutsBacked BY DEF GoldInv
<1>1. PICK r \in Nat, w \in Nat, s \in Nat : r = recharged + issued /\ w = withdrawn /\ s = small BY GoldTermed
<1>2. w <= r BY <1>1, GoldTermed DEF GoldInv, GoldTraced
<1>3. Shares * w <= Shares * r
  <2>1. PICK d \in Nat : r = w + d BY <1>2
  <2>2. Shares * r = Shares * w + Shares * d /\ Shares * d >= 0 /\ Shares * w \in Nat /\ Shares * d \in Nat
    BY <2>1, Inputs
  <2>3. QED BY <2>2
<1>4. Shares * w \in Nat /\ Shares * r \in Nat BY Inputs
<1>5. paid <= Shares * w + s BY <1>1 DEF GoldInv
<1>6. paid <= Shares * r + s BY <1>3, <1>4, <1>5, GoldTermed
<1>7. QED BY <1>1, <1>6 DEF PayoutsBacked

-----------------------------------------------------------------------------
(* Daily limits: what is noted for a customer is the sum of what was       *)
(* withdrawn since the reset, and each withdrawal met its limit.           *)
Withdrawal == [gold : Nat, limit : Nat]
Amounts(own) == [i \in DOMAIN own |-> own[i].gold]
UpTo(own, k) == SumFunctionOnSet(Amounts(own), 1..k)
Limited(own) == \A k \in DOMAIN own : own[k].limit > 0 => UpTo(own, k) % GoldWidth <= own[k].limit

DailyInv ==
  /\ params.limit \in Nat
  /\ sinceReset \in [Customers -> Seq(Withdrawal)]
  /\ \A c \in Customers : /\ Drawn(c) = UpTo(sinceReset[c], Len(sinceReset[c])) % GoldWidth
                          /\ Limited(sinceReset[c])

LEMMA UpToInt ==
  ASSUME NEW own \in Seq(Withdrawal), NEW k \in 0..Len(own)
  PROVE  UpTo(own, k) \in Int
<1>1. PICK f : f = Amounts(own) OBVIOUS
<1>2. \A i \in 1..Len(own) : f[i] \in Nat
  <2>1. SUFFICES ASSUME NEW i \in 1..Len(own) PROVE f[i] \in Nat OBVIOUS
  <2>2. DOMAIN own = 1..Len(own) /\ own[i] \in Withdrawal OBVIOUS
  <2>3. f[i] = own[i].gold BY <1>1, <2>2 DEF Amounts
  <2>4. QED BY <2>2, <2>3 DEF Withdrawal
<1>3. \A i \in 1..k : f[i] \in Int BY <1>2
<1>4. IsFiniteSet(1..k) BY FS_Interval
<1>5. SumFunctionOnSet(f, 1..k) \in Int BY <1>3, <1>4, SumType
<1>6. QED BY <1>1, <1>5 DEF UpTo

LEMMA OneMore ==
  ASSUME NEW own \in Seq(Withdrawal), NEW x \in Withdrawal, NEW later, later = Append(own, x)
  PROVE  /\ \A k \in 0..Len(own) : UpTo(later, k) = UpTo(own, k)
         /\ UpTo(later, Len(own) + 1) = UpTo(own, Len(own)) + x.gold
<1>1. PICK n \in Nat : n = Len(own) OBVIOUS
<1>2. /\ Len(later) = n + 1 /\ later \in Seq(Withdrawal)
      /\ \A i \in 1..n : later[i] = own[i]
      /\ later[n + 1] = x
  BY <1>1
<1>3. PICK f : f = Amounts(own) OBVIOUS
<1>4. PICK g : g = Amounts(later) OBVIOUS
<1>5. DOMAIN own = 1..n /\ DOMAIN later = 1..(n + 1) BY <1>1, <1>2
<1>6. \A i \in 1..n : f[i] = g[i] BY <1>2, <1>3, <1>4, <1>5 DEF Amounts
<1>7. \A i \in 1..(n + 1) : g[i] \in Int
  <2>1. SUFFICES ASSUME NEW i \in 1..(n + 1) PROVE g[i] \in Int OBVIOUS
  <2>2. PICK w \in Withdrawal : w = later[i] BY <1>2, <1>5
  <2>3. g[i] = w.gold BY <1>4, <1>5, <2>2 DEF Amounts
  <2>4. w.gold \in Nat BY DEF Withdrawal
  <2>5. QED BY <2>3, <2>4
<1>8. ASSUME NEW k \in 0..n PROVE SumFunctionOnSet(g, 1..k) = SumFunctionOnSet(f, 1..k)
  <2>1. IsFiniteSet(1..k) BY <1>1, FS_Interval
  <2>2. \A i \in 1..k : g[i] = f[i] BY <1>1, <1>6
  <2>3. QED BY <2>1, <2>2, SumSame
<1>9. PICK s : s = 1..n OBVIOUS
<1>10. IsFiniteSet(s) /\ n + 1 \notin s /\ 1..(n + 1) = s \cup {n + 1}
  <2>1. IsFiniteSet(s) BY <1>1, <1>9, FS_Interval
  <2>2. n + 1 \notin s /\ 1..(n + 1) = s \cup {n + 1} BY <1>1, <1>9
  <2>3. QED BY <2>1, <2>2
<1>11. SumFunctionOnSet(g, s \cup {n + 1}) = g[n + 1] + SumFunctionOnSet(g, s)
  BY <1>7, <1>10, SumAdd
<1>12. g[n + 1] = x.gold BY <1>2, <1>4, <1>5 DEF Amounts
<1>13. n \in 0..n BY <1>1
<1>14. SumFunctionOnSet(g, 1..(n + 1)) = x.gold + SumFunctionOnSet(f, 1..n)
  BY <1>8, <1>9, <1>10, <1>11, <1>12, <1>13
<1>15. SumFunctionOnSet(f, 1..n) \in Int BY <1>1, <1>3, <1>13, UpToInt DEF UpTo
<1>16. x.gold \in Int BY DEF Withdrawal
<1>17. PICK a \in Int, b \in Int : a = SumFunctionOnSet(f, 1..n) /\ b = x.gold BY <1>15, <1>16
<1>18. SumFunctionOnSet(g, 1..(n + 1)) = a + b BY <1>14, <1>17
<1>19. QED BY <1>1, <1>3, <1>4, <1>8, <1>17, <1>18 DEF UpTo

LEMMA DailyStart == EconomyInit => DailyInv
<1>. SUFFICES ASSUME EconomyInit PROVE DailyInv OBVIOUS
<1>1. params.limit \in Nat BY Inputs DEF EconomyInit, GoldInit, Terms
<1>2. sinceReset = [c \in Customers |-> <<>>] /\ daily = <<>> BY DEF EconomyInit, GoldInit
<1>3. sinceReset \in [Customers -> Seq(Withdrawal)] BY <1>2
<1>4. ASSUME NEW c \in Customers
      PROVE  Drawn(c) = UpTo(sinceReset[c], Len(sinceReset[c])) % GoldWidth /\ Limited(sinceReset[c])
  <2>1. sinceReset[c] = <<>> /\ Drawn(c) = 0 BY <1>2 DEF Drawn
  <2>2. UpTo(<<>>, 0) = 0 BY SumEmpty DEF UpTo
  <2>3. 0 % GoldWidth = 0 BY Inputs, RestOfSmall
  <2>4. QED BY <2>1, <2>2, <2>3 DEF Limited
<1>5. QED BY <1>1, <1>3, <1>4 DEF DailyInv

LEMMA DailySame ==
  ASSUME DailyInv, UNCHANGED <<sinceReset, daily>>, params'.limit \in Nat PROVE DailyInv'
BY DEF DailyInv, Drawn, UpTo, Amounts, Limited

LEMMA WithdrawKeepsDaily ==
  ASSUME DailyInv, NEW c \in Customers, NEW gold \in Golds, Withdraw(c, gold), params' = params
  PROVE  DailyInv'
<1>1. gold \in Nat BY Inputs
<1>2. /\ daily' = Set(daily, c, (Drawn(c) + gold) % GoldWidth)
      /\ sinceReset' = [sinceReset EXCEPT ![c] = Append(@, [gold |-> gold, limit |-> params.limit])]
      /\ params.limit > 0 => (Drawn(c) + gold) % GoldWidth <= params.limit
  BY DEF Withdraw, MayWithdraw
<1>3. PICK l \in Nat : l = params.limit BY DEF DailyInv
<1>4. PICK x : x = [gold |-> gold, limit |-> l] OBVIOUS
<1>5. x \in Withdrawal /\ x.gold = gold /\ x.limit = l BY <1>1, <1>4 DEF Withdrawal
<1>6. PICK own \in Seq(Withdrawal) : own = sinceReset[c] BY DEF DailyInv
<1>7. PICK later : later = Append(own, x) OBVIOUS
<1>8. sinceReset' = [sinceReset EXCEPT ![c] = later] BY <1>2, <1>3, <1>4, <1>6, <1>7
<1>9. later \in Seq(Withdrawal) BY <1>5, <1>7
<1>10. sinceReset' \in [Customers -> Seq(Withdrawal)] BY <1>8, <1>9 DEF DailyInv
<1>11. ASSUME NEW d \in Customers, d # c
       PROVE  Drawn(d)' = UpTo(sinceReset'[d], Len(sinceReset'[d])) % GoldWidth /\ Limited(sinceReset'[d])
  BY <1>2, <1>8, <1>11 DEF DailyInv, Drawn, Set
<1>12. PICK n \in Nat : n = Len(own) OBVIOUS
<1>13. /\ \A k \in 0..n : UpTo(later, k) = UpTo(own, k)
       /\ UpTo(later, n + 1) = UpTo(own, n) + gold
  BY <1>5, <1>7, <1>12, OneMore
<1>14. Drawn(c) = UpTo(own, n) % GoldWidth BY <1>6, <1>12 DEF DailyInv
<1>15. Drawn(c)' = (Drawn(c) + gold) % GoldWidth BY <1>2 DEF Drawn, Set
<1>16. (Drawn(c) + gold) % GoldWidth = UpTo(later, n + 1) % GoldWidth
  <2>1. PICK x1 \in Int : x1 = UpTo(own, n) BY <1>12, UpToInt
  <2>2. PICK w \in Nat : w = GoldWidth /\ w # 0 BY Inputs
  <2>3. gold \in Int BY <1>1
  <2>4. ((x1 % w) + gold) % w = (x1 + gold) % w BY <2>1, <2>2, <2>3, RestOfSum, Zenon
  <2>5. UpTo(later, n + 1) = x1 + gold BY <1>13, <2>1
  <2>6. QED BY <1>14, <2>1, <2>2, <2>4, <2>5, Zenon
<1>17. sinceReset'[c] = later /\ Len(later) = n + 1 BY <1>7, <1>8, <1>12 DEF DailyInv
<1>18. Limited(later)
  <2>1. SUFFICES ASSUME NEW k \in 1..(n + 1), later[k].limit > 0
                 PROVE  UpTo(later, k) % GoldWidth <= later[k].limit
    BY <1>9, <1>17 DEF Limited
  <2>2. CASE k \in 1..n
    <3>1. own[k] = later[k] /\ k \in DOMAIN own BY <1>6, <1>7, <1>12, <2>2
    <3>2. UpTo(later, k) = UpTo(own, k) BY <1>12, <1>13, <2>2
    <3>3. UpTo(own, k) % GoldWidth <= own[k].limit BY <1>6, <2>1, <3>1 DEF DailyInv, Limited
    <3>4. QED BY <3>1, <3>2, <3>3
  <2>3. CASE k = n + 1
    <3>1. later[k].limit = l BY <1>5, <1>7, <1>12, <2>3
    <3>2. (Drawn(c) + gold) % GoldWidth <= l BY <1>2, <1>3, <2>1, <3>1
    <3>3. QED BY <1>16, <2>3, <3>1, <3>2
  <2>4. QED BY <1>12, <2>2, <2>3
<1>19. Drawn(c)' = UpTo(later, n + 1) % GoldWidth BY <1>15, <1>16
<1>20. ASSUME NEW d \in Customers
       PROVE  Drawn(d)' = UpTo(sinceReset'[d], Len(sinceReset'[d])) % GoldWidth /\ Limited(sinceReset'[d])
  BY <1>11, <1>17, <1>18, <1>19
<1>21. params'.limit \in Nat BY DEF DailyInv
<1>22. QED BY <1>10, <1>20, <1>21 DEF DailyInv, Drawn, UpTo, Amounts, Limited

LEMMA DailyOf == DailyInv => DailyLimited
<1>. SUFFICES ASSUME DailyInv, NEW c \in Customers
              PROVE  \A k \in DOMAIN sinceReset[c] : sinceReset[c][k].limit > 0 =>
                       UpTo(sinceReset[c], k) % GoldWidth <= sinceReset[c][k].limit
  BY DEF DailyLimited, UpTo, Amounts
<1>1. QED BY DEF DailyInv, Limited

-----------------------------------------------------------------------------
(* The author's changes: each number is at one place, and a change that is *)
(* on its way is of the author and has the prices that its map holds.      *)
ParamSet == [recharge : Nat \ {0}, withdraw : Nat \ {0}, cooldown : Nat, limit : Nat, mall : Nat]
Change == [by : Authors, reason : Pleas, emergency : BOOLEAN, new : ParamSet, price : Nat,
           number : Nat, at : Nat]
Entry == [change : Change, at : Nat, by : {"execute", "process"}, price : Nat]

AuthorTypes ==
  /\ hour \in Nat /\ proposed \in Nat
  /\ params \in ParamSet
  /\ cells \in Seq(Nat) /\ params.mall \in DOMAIN cells
  /\ checked \subseteq Change
  /\ IsFiniteSet(DOMAIN pending) /\ \A id \in DOMAIN pending : pending[id] \in Change
  /\ log \in Seq(Entry)

Attached(c) ==
  /\ author = <<c.by>> /\ c.new.mall \in DOMAIN cells
  /\ cells[c.new.mall] # c.price => c.new.mall \in repriced

OnTheWay == (\A c \in checked : Attached(c)) /\ (\A id \in DOMAIN pending : Attached(pending[id]))

CheckedOnes == {c.number : c \in checked}
PendingOnes == {pending[id].number : id \in DOMAIN pending}
LoggedOnes == {log[i].change.number : i \in DOMAIN log}

Numbered ==
  /\ \A c, d \in checked : c.number = d.number => c = d
  /\ \A i, j \in DOMAIN pending : pending[i].number = pending[j].number => i = j
  /\ \A i, j \in DOMAIN log : log[i].change.number = log[j].change.number => i = j

Apart ==
  /\ CheckedOnes \cap PendingOnes = {}
  /\ (CheckedOnes \cup PendingOnes) \cap LoggedOnes = {}
  /\ dropped \cap (CheckedOnes \cup PendingOnes \cup LoggedOnes) = {}
  /\ CheckedOnes \cup PendingOnes \cup LoggedOnes \cup dropped = 1..proposed

AuthorInv == AuthorTypes /\ OnTheWay /\ Numbered /\ Apart /\ PricesAsProposed

LEMMA AuthorStart == EconomyInit => AuthorInv
<1>. SUFFICES ASSUME EconomyInit PROVE AuthorInv OBVIOUS
<1>1. /\ author = <<>> /\ checked = {} /\ pending = <<>> /\ log = <<>> /\ proposed = 0
      /\ dropped = {} /\ repriced = {} /\ hour = 0 /\ cells = <<0>>
  BY DEF EconomyInit, GoldInit, AuthorInit
<1>2. DOMAIN pending = {} /\ DOMAIN log = {} /\ DOMAIN cells = {1} BY <1>1
<1>3. params \in ParamSet /\ params.mall = 1
  BY Inputs DEF EconomyInit, GoldInit, Terms, ParamSet
<1>4. AuthorTypes BY <1>1, <1>2, <1>3, FS_EmptySet DEF AuthorTypes
<1>5. OnTheWay BY <1>1, <1>2 DEF OnTheWay
<1>6. Numbered BY <1>1, <1>2 DEF Numbered
<1>7. Apart BY <1>1, <1>2 DEF CheckedOnes, PendingOnes, LoggedOnes, Apart
<1>8. PricesAsProposed BY <1>2 DEF PricesAsProposed
<1>9. QED BY <1>4, <1>5, <1>6, <1>7, <1>8 DEF AuthorInv

LEMMA ProposeGives ==
  ASSUME AuthorInv, NEW a \in Authors, NEW r \in Pleas, NEW e \in BOOLEAN, NEW n \in MallPrices,
         Propose(a, r, e, n)
  PROVE  /\ cells' \in Seq(Nat) /\ \A i \in DOMAIN cells : i \in DOMAIN cells' /\ cells'[i] = cells[i]
         /\ \E c \in Change :
              /\ checked' = checked \cup {c} /\ c.number = proposed + 1 /\ author = <<c.by>>
              /\ c.new.mall \in DOMAIN cells' /\ cells'[c.new.mall] = c.price
<1>1. n \in Nat BY Inputs
<1>2. /\ hour \in Nat /\ proposed \in Nat /\ cells \in Seq(Nat) /\ params.mall \in DOMAIN cells
      /\ params.mall \in Nat
  BY DEF AuthorInv, AuthorTypes, ParamSet
<1>3. author = <<a>> BY DEF Propose
<1>4. PICK own, m, new :
        /\ own \in BOOLEAN /\ m = IF own THEN Len(cells) + 1 ELSE params.mall
        /\ cells' = IF own THEN Append(cells, n) ELSE cells
        /\ new \in Terms(m)
        /\ checked' = checked \cup
              {[by |-> a, reason |-> r, emergency |-> e, new |-> new, price |-> cells'[m],
                number |-> proposed + 1, at |-> hour]}
  BY DEF Propose
<1>5. m \in Nat BY <1>2, <1>4
<1>6. new \in ParamSet /\ new.mall = m BY <1>4, <1>5, Inputs DEF Terms, ParamSet
<1>7. /\ cells' \in Seq(Nat) /\ \A i \in DOMAIN cells : i \in DOMAIN cells' /\ cells'[i] = cells[i]
      /\ m \in DOMAIN cells'
  <2>1. CASE own
    <3>1. cells' = Append(cells, n) /\ m = Len(cells) + 1 BY <1>4, <2>1
    <3>2. cells' \in Seq(Nat) /\ Len(cells') = Len(cells) + 1 /\ \A i \in 1..Len(cells) : cells'[i] = cells[i]
      BY <1>1, <1>2, <3>1
    <3>3. PICK k \in Nat : k = Len(cells) BY <1>2
    <3>4. DOMAIN cells = 1..k /\ DOMAIN cells' = 1..(k + 1) BY <1>2, <3>2, <3>3
    <3>5. m = k + 1 BY <3>1, <3>3
    <3>6. QED BY <3>2, <3>3, <3>4, <3>5
  <2>2. CASE ~own
    <3>1. cells' = cells /\ m = params.mall BY <1>4, <2>2
    <3>2. QED BY <1>2, <3>1
  <2>3. QED BY <2>1, <2>2
<1>8. PICK p \in Nat : p = cells'[m] BY <1>7
<1>9. PICK c : c = [by |-> a, reason |-> r, emergency |-> e, new |-> new, price |-> p,
                    number |-> proposed + 1, at |-> hour]
  OBVIOUS
<1>10. c \in Change /\ c.number = proposed + 1 /\ c.by = a /\ c.new = new /\ c.price = p
  BY <1>2, <1>6, <1>8, <1>9 DEF Change
<1>11. checked' = checked \cup {c} BY <1>4, <1>8, <1>9
<1>12. c.new.mall \in DOMAIN cells' /\ cells'[c.new.mall] = c.price BY <1>6, <1>7, <1>8, <1>10
<1>13. QED BY <1>3, <1>7, <1>10, <1>11, <1>12

LEMMA ProposeKeepsAuthor ==
  ASSUME AuthorInv, NEW a \in Authors, NEW r \in Pleas, NEW e \in BOOLEAN, NEW n \in MallPrices,
         Propose(a, r, e, n), UNCHANGED <<params, hour>>
  PROVE  AuthorInv'
<1>1. /\ cells' \in Seq(Nat) /\ \A i \in DOMAIN cells : i \in DOMAIN cells' /\ cells'[i] = cells[i]
  BY ProposeGives
<1>2. PICK c \in Change :
        /\ checked' = checked \cup {c} /\ c.number = proposed + 1 /\ author = <<c.by>>
        /\ c.new.mall \in DOMAIN cells' /\ cells'[c.new.mall] = c.price
  BY ProposeGives
<1>3. /\ proposed' = proposed + 1 /\ author' = author /\ pending' = pending /\ log' = log
      /\ dropped' = dropped /\ repriced' = repriced
  BY DEF Propose
<1>4. AuthorTypes' BY <1>1, <1>2, <1>3 DEF AuthorTypes, AuthorInv
<1>5. OnTheWay' BY <1>1, <1>2, <1>3 DEF Attached, OnTheWay, AuthorInv
<1>6. proposed \in Nat BY DEF AuthorInv, AuthorTypes
<1>7. /\ CheckedOnes' = CheckedOnes \cup {proposed + 1} /\ PendingOnes' = PendingOnes /\ LoggedOnes' = LoggedOnes
  BY <1>2, <1>3 DEF CheckedOnes, PendingOnes, LoggedOnes
<1>8. proposed + 1 \notin CheckedOnes \cup PendingOnes \cup LoggedOnes \cup dropped
  BY <1>6 DEF AuthorInv, Apart
<1>9. Numbered' BY <1>2, <1>3, <1>8 DEF Numbered, AuthorInv, CheckedOnes
<1>10. 1..(proposed + 1) = 1..proposed \cup {proposed + 1} BY <1>6
<1>11. Apart' BY <1>3, <1>7, <1>8, <1>10 DEF Apart, AuthorInv
<1>12. PricesAsProposed' BY <1>3 DEF PricesAsProposed, AuthorInv
<1>13. QED BY <1>4, <1>5, <1>9, <1>11, <1>12 DEF AuthorInv

LEMMA CreateKeepsAuthor ==
  ASSUME AuthorInv, NEW c, CreatePendingChange(c), UNCHANGED <<params, hour>>
  PROVE  AuthorInv'
<1>1. PICK new : new = Id(c) OBVIOUS
<1>2. /\ c \in checked /\ checked' = checked \ {c} /\ UNCHANGED <<author, log, proposed, repriced, cells>>
      /\ DOMAIN pending' = DOMAIN pending \cup {new} /\ pending'[new] = c
      /\ \A id \in DOMAIN pending : id # new => pending'[id] = pending[id]
      /\ dropped' = IF new \in DOMAIN pending THEN dropped \cup {pending[new].number} ELSE dropped
  BY <1>1 DEF CreatePendingChange, Set
<1>3. c \in Change /\ Attached(c) BY <1>2 DEF AuthorInv, AuthorTypes, OnTheWay
<1>4. AuthorTypes' BY <1>2, <1>3, FS_AddElement DEF AuthorInv, AuthorTypes
<1>5. OnTheWay' BY <1>2, <1>3 DEF Attached, OnTheWay, AuthorInv
<1>6. \A d \in checked : d # c => d.number # c.number BY <1>2 DEF Numbered, AuthorInv
<1>7. CheckedOnes' = CheckedOnes \ {c.number} /\ c.number \in CheckedOnes /\ LoggedOnes' = LoggedOnes
  BY <1>2, <1>6 DEF CheckedOnes, LoggedOnes
<1>8. \A id \in DOMAIN pending : pending[id].number # c.number
  BY <1>7 DEF PendingOnes, Apart, AuthorInv
<1>9. Numbered' BY <1>2, <1>8 DEF Numbered, AuthorInv
<1>10. ASSUME new \in DOMAIN pending PROVE Apart' BY <1>2, <1>7, <1>10 DEF Numbered, AuthorInv, PendingOnes, Apart
<1>11. ASSUME new \notin DOMAIN pending PROVE Apart' BY <1>2, <1>7, <1>11 DEF PendingOnes, Apart, AuthorInv
<1>12. Apart' BY <1>10, <1>11
<1>13. PricesAsProposed' BY <1>2 DEF PricesAsProposed, AuthorInv
<1>14. QED BY <1>4, <1>5, <1>9, <1>12, <1>13 DEF AuthorInv

\* What leaves the pending changes.
LEMMA PendingWithout ==
  ASSUME AuthorInv, NEW S \in SUBSET DOMAIN pending, pending' = Restrict(pending, DOMAIN pending \ S)
  PROVE  /\ DOMAIN pending' = DOMAIN pending \ S
         /\ \A id \in DOMAIN pending \ S : pending'[id] = pending[id]
         /\ IsFiniteSet(DOMAIN pending')
         /\ PendingOnes' = PendingOnes \ {pending[id].number : id \in S}
BY FS_Subset DEF Restrict, AuthorInv, AuthorTypes, Numbered, PendingOnes

LEMMA CancelKeepsAuthor ==
  ASSUME AuthorInv, NEW id \in DOMAIN pending, NEW a, CancelChange(a, id), UNCHANGED <<params, hour>>
  PROVE  AuthorInv'
<1>1. PICK k : k = pending[id].number OBVIOUS
<1>2. /\ pending' = Restrict(pending, DOMAIN pending \ {id}) /\ dropped' = dropped \cup {k}
      /\ UNCHANGED <<author, checked, log, proposed, repriced, cells>>
  BY <1>1 DEF CancelChange
<1>3. /\ DOMAIN pending' = DOMAIN pending \ {id}
      /\ \A i \in DOMAIN pending \ {id} : pending'[i] = pending[i]
      /\ IsFiniteSet(DOMAIN pending')
      /\ PendingOnes' = PendingOnes \ {k}
  <2>1. PICK S : S = {id} OBVIOUS
  <2>2. {pending[i].number : i \in S} = {k} BY <1>1, <2>1
  <2>3. S \in SUBSET DOMAIN pending /\ pending' = Restrict(pending, DOMAIN pending \ S) BY <1>2, <2>1
  <2>4. QED BY <2>1, <2>2, <2>3, PendingWithout
<1>4. AuthorTypes' BY <1>2, <1>3 DEF AuthorTypes, AuthorInv
<1>5. OnTheWay' BY <1>2, <1>3 DEF OnTheWay, Attached, AuthorInv
<1>6. Numbered'
  <2>1. \A i, j \in DOMAIN pending' : pending'[i].number = pending'[j].number => i = j
    BY <1>3 DEF Numbered, AuthorInv
  <2>2. checked' = checked /\ log' = log BY <1>2
  <2>3. QED BY <2>1, <2>2 DEF Numbered, AuthorInv
<1>7. CheckedOnes' = CheckedOnes /\ LoggedOnes' = LoggedOnes /\ k \in PendingOnes
  BY <1>1, <1>2 DEF CheckedOnes, LoggedOnes, PendingOnes
<1>8. Apart' BY <1>2, <1>3, <1>7 DEF Apart, AuthorInv
<1>9. PricesAsProposed' BY <1>2 DEF PricesAsProposed, AuthorInv
<1>10. QED BY <1>4, <1>5, <1>6, <1>8, <1>9 DEF AuthorInv

(* Changes of S, in any order, are logged with the prices of now and leave *)
(* the pending ones.                                                       *)
Logs(S, es, order) ==
  /\ log' = log \o es
  /\ order \in [1..Len(es) -> S] /\ \A i, j \in 1..Len(es) : order[i] = order[j] => i = j
  /\ \A id \in S : \E i \in 1..Len(es) : order[i] = id
  /\ \A i \in 1..Len(es) : es[i].change = pending[order[i]] /\ es[i].price = cells[es[i].change.new.mall]
  /\ pending' = Restrict(pending, DOMAIN pending \ S)
  /\ UNCHANGED <<author, checked, proposed, dropped, repriced, cells, hour>>

LEMMA LogsKeepsAuthor ==
  ASSUME AuthorInv, NEW S \in SUBSET DOMAIN pending, NEW es \in Seq(Entry), NEW order, Logs(S, es, order),
         params' \in ParamSet, params'.mall \in DOMAIN cells
  PROVE  AuthorInv'
<1>1. PICK gone : gone = {pending[id].number : id \in S} OBVIOUS
<1>2. /\ DOMAIN pending' = DOMAIN pending \ S
      /\ \A i \in DOMAIN pending \ S : pending'[i] = pending[i]
      /\ IsFiniteSet(DOMAIN pending')
      /\ PendingOnes' = PendingOnes \ gone
  BY <1>1, PendingWithout DEF Logs
<1>3. UNCHANGED <<author, checked, proposed, dropped, repriced, cells, hour>> BY DEF Logs
<1>4. log \in Seq(Entry) BY DEF AuthorInv, AuthorTypes
<1>5. PICK n \in Nat, m \in Nat : n = Len(log) /\ m = Len(es) BY <1>4
<1>6. /\ log' \in Seq(Entry) /\ DOMAIN log' = 1..(n + m) /\ DOMAIN log = 1..n
      /\ \A i \in 1..n : log'[i] = log[i]
      /\ \A i \in 1..(n + m) : i > n => i - n \in 1..m /\ log'[i] = es[i - n]
  BY <1>4, <1>5 DEF Logs
<1>7. ASSUME NEW i \in 1..m PROVE n + i \in 1..(n + m) /\ log'[n + i] = es[i]
  <2>1. PICK h : h = n + i OBVIOUS
  <2>2. h \in 1..(n + m) /\ h > n /\ h - n = i BY <1>5, <2>1
  <2>3. log'[h] = es[i] BY <1>6, <2>2
  <2>4. QED BY <2>1, <2>2, <2>3
<1>8. AuthorTypes' BY <1>2, <1>3, <1>6 DEF AuthorTypes, AuthorInv
<1>9. OnTheWay' BY <1>2, <1>3 DEF OnTheWay, Attached, AuthorInv
<1>10. LoggedOnes' = LoggedOnes \cup gone
  <2>1. ASSUME NEW i \in 1..(n + m) PROVE log'[i].change.number \in LoggedOnes \cup gone
    <3>1. CASE i \in 1..n BY <1>6, <3>1 DEF LoggedOnes
    <3>2. CASE i > n
      <4>1. PICK j \in 1..m : log'[i] = es[j] BY <1>6, <3>2
      <4>2. order[j] \in S /\ es[j].change = pending[order[j]] BY <1>5 DEF Logs
      <4>3. QED BY <1>1, <4>1, <4>2
    <3>3. QED BY <1>5, <3>1, <3>2
  <2>2. LoggedOnes = {log[i].change.number : i \in 1..n}
        /\ LoggedOnes' = {log'[i].change.number : i \in 1..(n + m)}
    BY <1>6 DEF LoggedOnes
  <2>3. ASSUME NEW i \in 1..n PROVE log[i].change.number \in LoggedOnes' BY <1>5, <1>6, <2>2
  <2>4. ASSUME NEW id \in S PROVE pending[id].number \in LoggedOnes'
    <3>1. PICK j \in 1..m : order[j] = id BY <1>5 DEF Logs
    <3>2. es[j].change = pending[id] BY <1>5, <3>1 DEF Logs
    <3>3. PICK h \in 1..(n + m) : log'[h] = es[j] BY <1>7
    <3>4. QED BY <2>2, <3>2, <3>3
  <2>5. QED BY <1>1, <2>1, <2>2, <2>3, <2>4
<1>11. gone \subseteq PendingOnes BY <1>1 DEF PendingOnes
<1>12. CheckedOnes' = CheckedOnes BY <1>3 DEF CheckedOnes
<1>13. Apart' BY <1>2, <1>3, <1>10, <1>11, <1>12 DEF Apart, AuthorInv
<1>14. Numbered'
  <2>1. SUFFICES ASSUME NEW i \in 1..(n + m), NEW j \in 1..(n + m),
                        log'[i].change.number = log'[j].change.number
                 PROVE  i = j
    BY <1>2, <1>3, <1>6 DEF Numbered, AuthorInv
  <2>2. ASSUME NEW h \in 1..(n + m), h > n
        PROVE  /\ h - n \in 1..m /\ order[h - n] \in S
               /\ log'[h].change = pending[order[h - n]] /\ log'[h].change.number \in gone
    <3>1. PICK k \in 1..m : k = h - n /\ log'[h] = es[k] BY <1>6, <2>2
    <3>2. order[k] \in S /\ es[k].change = pending[order[k]] BY <1>5 DEF Logs
    <3>3. QED BY <1>1, <3>1, <3>2
  <2>3. \A h \in 1..n : log'[h].change.number \in LoggedOnes BY <1>6 DEF LoggedOnes
  <2>4. gone \cap LoggedOnes = {} BY <1>11 DEF Apart, AuthorInv
  <2>5. CASE i \in 1..n /\ j \in 1..n BY <1>6, <2>1, <2>5 DEF Numbered, AuthorInv
  <2>6. CASE i > n /\ j > n
    <3>1. order[i - n] = order[j - n] BY <2>1, <2>2, <2>6 DEF Numbered, AuthorInv
    <3>2. i - n = j - n BY <1>5, <2>2, <2>6, <3>1 DEF Logs
    <3>3. QED BY <1>5, <3>2
  <2>7. (i \in 1..n \/ i > n) /\ (j \in 1..n \/ j > n) BY <1>5
  <2>8. QED BY <2>1, <2>2, <2>3, <2>4, <2>5, <2>6, <2>7
<1>15. PricesAsProposed'
  <2>1. SUFFICES ASSUME NEW i \in 1..(n + m), log'[i].price # log'[i].change.price
                 PROVE  log'[i].change.new.mall \in repriced
    BY <1>3, <1>6 DEF PricesAsProposed
  <2>2. CASE i \in 1..n BY <1>6, <2>1, <2>2 DEF PricesAsProposed, AuthorInv
  <2>3. CASE i > n
    <3>1. PICK j \in 1..m : log'[i] = es[j] BY <1>6, <2>3
    <3>2. es[j].change = pending[order[j]] /\ order[j] \in DOMAIN pending
          /\ es[j].price = cells[es[j].change.new.mall]
      BY <1>5 DEF Logs
    <3>3. Attached(es[j].change) BY <3>2 DEF AuthorInv, OnTheWay
    <3>4. QED BY <2>1, <3>1, <3>2, <3>3 DEF Attached
  <2>4. QED BY <1>5, <2>2, <2>3
<1>16. QED BY <1>8, <1>9, <1>13, <1>14, <1>15 DEF AuthorInv

LEMMA ExecuteKeepsAuthor ==
  ASSUME AuthorInv, NEW id \in DOMAIN pending, ExecuteChange(id, hour), UNCHANGED hour
  PROVE  AuthorInv'
<1>1. /\ hour \in Nat /\ log \in Seq(Entry) /\ pending[id] \in Change /\ cells \in Seq(Nat)
      /\ pending[id].new.mall \in DOMAIN cells
  BY DEF AuthorInv, AuthorTypes, OnTheWay, Attached
<1>2. PICK p \in Nat : p = cells[pending[id].new.mall] BY <1>1
<1>3. PICK c \in Change : c = pending[id] BY <1>1
<1>4. PICK e : e = [change |-> c, at |-> hour, by |-> "execute", price |-> p] OBVIOUS
<1>5. e \in Entry /\ e.change = c /\ e.price = p BY <1>1, <1>4 DEF Entry
<1>6. log' = Append(log, e) BY <1>2, <1>3, <1>4 DEF ExecuteChange, Logged
<1>7. PICK es : es = <<e>> OBVIOUS
<1>8. es \in Seq(Entry) /\ Len(es) = 1 /\ es[1] = e /\ log' = log \o es BY <1>1, <1>5, <1>6, <1>7
<1>9. PICK S : S = {id} OBVIOUS
<1>10. PICK order : order = [i \in 1..1 |-> id] OBVIOUS
<1>11. order \in [1..Len(es) -> S] /\ order[1] = id /\ 1..Len(es) = {1} BY <1>8, <1>9, <1>10
<1>12. /\ \A i, j \in 1..Len(es) : order[i] = order[j] => i = j
       /\ \A x \in S : \E i \in 1..Len(es) : order[i] = x
  BY <1>9, <1>11
<1>13. \A i \in 1..Len(es) : es[i].change = pending[order[i]] /\ es[i].price = cells[es[i].change.new.mall]
  BY <1>2, <1>3, <1>5, <1>8, <1>11
<1>14. /\ pending' = Restrict(pending, DOMAIN pending \ S)
       /\ UNCHANGED <<author, checked, proposed, dropped, repriced, cells, hour, params>>
  BY <1>9 DEF ExecuteChange
<1>15. Logs(S, es, order) BY <1>8, <1>11, <1>12, <1>13, <1>14 DEF Logs
<1>16. params' \in ParamSet /\ params'.mall \in DOMAIN cells
  BY <1>14 DEF AuthorInv, AuthorTypes
<1>17. S \in SUBSET DOMAIN pending BY <1>9
<1>18. QED BY <1>8, <1>15, <1>16, <1>17, LogsKeepsAuthor

DueNow == {id \in DOMAIN pending : Expired(id, hour)}

(* The changes that are due are logged, each once, and the last one logged *)
(* gives the parameters.                                                   *)
LEMMA ProcessGives ==
  ASSUME AuthorInv, ProcessExpiredChanges(hour), UNCHANGED hour
  PROVE  \E es, order :
           /\ es \in Seq(Entry) /\ Logs(DueNow, es, order) /\ Len(es) > 0
           /\ params' = pending[order[Len(es)]].new
<1>1. /\ hour \in Nat /\ log \in Seq(Entry) /\ cells \in Seq(Nat)
      /\ \A id \in DOMAIN pending : pending[id] \in Change /\ pending[id].new.mall \in DOMAIN cells
  BY DEF AuthorInv, AuthorTypes, OnTheWay, Attached
<1>2. PICK due : due = DueNow OBVIOUS
<1>3. due \subseteq DOMAIN pending /\ due # {} /\ IsFiniteSet(due)
  BY <1>2, FS_Subset DEF DueNow, ProcessExpiredChanges, AuthorInv, AuthorTypes
<1>4. PICK n \in Nat : n = Cardinality(due) /\ n # 0 BY <1>3, FS_CardinalityType, FS_EmptySet
<1>5. PICK order \in [1..n -> due] :
        /\ Range(order) = due
        /\ params' = pending[order[Len(order)]].new
        /\ log' = log \o [i \in DOMAIN order |-> Logged(pending[order[i]], hour, "process")]
  BY <1>2, <1>4 DEF ProcessExpiredChanges, DueNow
<1>6. PICK es : es = [i \in 1..n |-> Logged(pending[order[i]], hour, "process")] OBVIOUS
<1>7. DOMAIN order = 1..n /\ Len(order) = n BY <1>5
<1>8. log' = log \o es BY <1>5, <1>6, <1>7
<1>9. ASSUME NEW i \in 1..n
      PROVE  es[i] \in Entry /\ es[i].change = pending[order[i]] /\ es[i].price = cells[es[i].change.new.mall]
  <2>1. order[i] \in DOMAIN pending BY <1>3, <1>5
  <2>2. PICK c \in Change : c = pending[order[i]] /\ c.new.mall \in DOMAIN cells BY <1>1, <2>1
  <2>3. PICK p \in Nat : p = cells[c.new.mall] BY <1>1, <2>2
  <2>4. es[i] = [change |-> c, at |-> hour, by |-> "process", price |-> p] BY <1>6, <2>2, <2>3 DEF Logged
  <2>5. QED BY <1>1, <2>2, <2>3, <2>4 DEF Entry
<1>10. es \in Seq(Entry) /\ Len(es) = n BY <1>4, <1>6, <1>9
<1>11. \A id \in due : \E i \in 1..n : order[i] = id BY <1>5, <1>7 DEF Range
<1>12. \A i, j \in 1..n : order[i] = order[j] => i = j
  <2>1. PICK s : s = 1..n OBVIOUS
  <2>2. order \in Surjection(s, due) BY <1>5, <1>11, <2>1 DEF Surjection
  <2>3. IsFiniteSet(s) /\ Cardinality(s) = n BY <1>4, <2>1, FS_Interval
  <2>4. order \in Injection(s, due) BY <1>4, <2>2, <2>3, FS_SurjSameCardinalityImpliesInj
  <2>5. QED BY <2>1, <2>4 DEF Injection, IsInjective
<1>13. /\ pending' = Restrict(pending, DOMAIN pending \ due)
       /\ UNCHANGED <<author, checked, proposed, dropped, repriced, cells, hour>>
  BY <1>2 DEF ProcessExpiredChanges, DueNow
<1>14. Logs(due, es, order) BY <1>5, <1>8, <1>9, <1>10, <1>11, <1>12, <1>13 DEF Logs
<1>15. Logs(DueNow, es, order) /\ Len(es) > 0 BY <1>2, <1>4, <1>10, <1>14
<1>16. params' = pending[order[Len(es)]].new
  BY <1>5, <1>7, <1>10
<1>17. QED BY <1>10, <1>15, <1>16

LEMMA ProcessKeepsAuthor ==
  ASSUME AuthorInv, ProcessExpiredChanges(hour), UNCHANGED hour PROVE AuthorInv'
<1>1. PICK es, order :
        /\ es \in Seq(Entry) /\ Logs(DueNow, es, order) /\ Len(es) > 0
        /\ params' = pending[order[Len(es)]].new
  BY ProcessGives
<1>2. DueNow \in SUBSET DOMAIN pending BY DEF DueNow
<1>3. Len(es) \in 1..Len(es) BY <1>1
<1>4. PICK id \in DOMAIN pending : id = order[Len(es)] BY <1>1, <1>2, <1>3 DEF Logs
<1>5. PICK c \in Change : c = pending[id] /\ c.new.mall \in DOMAIN cells
  BY DEF AuthorInv, AuthorTypes, OnTheWay, Attached
<1>6. params' = c.new BY <1>1, <1>4, <1>5
<1>7. params' \in ParamSet /\ params'.mall \in DOMAIN cells BY <1>5, <1>6 DEF Change
<1>8. QED BY <1>1, <1>2, <1>7, LogsKeepsAuthor

LEMMA AuthorSame ==
  ASSUME AuthorInv, UNCHANGED <<params, cells, authorVars>>, hour' \in Nat PROVE AuthorInv'
<1>1. /\ UNCHANGED <<params, cells>>
      /\ UNCHANGED <<author, checked, pending, log>> /\ UNCHANGED <<proposed, dropped, repriced>>
  BY DEF authorVars
<1>2. AuthorTypes' BY <1>1 DEF AuthorInv, AuthorTypes
<1>3. OnTheWay' BY <1>1 DEF AuthorInv, OnTheWay, Attached
<1>4. Numbered' BY <1>1 DEF AuthorInv, Numbered
<1>5. Apart'
  <2>1. CheckedOnes' = CheckedOnes /\ PendingOnes' = PendingOnes /\ LoggedOnes' = LoggedOnes
    BY <1>1 DEF CheckedOnes, PendingOnes, LoggedOnes
  <2>2. QED BY <1>1, <2>1 DEF AuthorInv, Apart
<1>6. PricesAsProposed' BY <1>1 DEF AuthorInv, PricesAsProposed
<1>7. QED BY <1>2, <1>3, <1>4, <1>5, <1>6 DEF AuthorInv

LEMMA RegisterKeepsAuthor ==
  ASSUME AuthorInv, NEW a, RegisterGameAuthor(a), UNCHANGED <<cells, params, hour>> PROVE AuthorInv'
<1>1. /\ author' = <<a>> /\ (author = <<>> \/ author = <<a>>)
      /\ UNCHANGED <<checked, pending, log>> /\ UNCHANGED <<proposed, dropped, repriced>>
      /\ UNCHANGED <<cells, params, hour>>
  BY DEF RegisterGameAuthor, MayRegister
<1>2. AuthorTypes' BY <1>1 DEF AuthorInv, AuthorTypes
<1>3. \A c : Attached(c) => Attached(c)' BY <1>1 DEF Attached
<1>4. OnTheWay' BY <1>1, <1>3 DEF AuthorInv, OnTheWay, Attached
<1>5. Numbered' BY <1>1 DEF AuthorInv, Numbered
<1>6. Apart'
  <2>1. CheckedOnes' = CheckedOnes /\ PendingOnes' = PendingOnes /\ LoggedOnes' = LoggedOnes
    BY <1>1 DEF CheckedOnes, PendingOnes, LoggedOnes
  <2>2. QED BY <1>1, <2>1 DEF AuthorInv, Apart
<1>7. PricesAsProposed' BY <1>1 DEF AuthorInv, PricesAsProposed
<1>8. QED BY <1>2, <1>4, <1>5, <1>6, <1>7 DEF AuthorInv

LEMMA RepriceKeepsAuthor ==
  ASSUME AuthorInv, NEW n \in MallPrices, SetMallPrice(n), UNCHANGED hour PROVE AuthorInv'
<1>1. /\ cells' = [cells EXCEPT ![params.mall] = n] /\ repriced' = repriced \cup {params.mall}
      /\ UNCHANGED <<author, checked, pending, log>> /\ UNCHANGED <<proposed, dropped, params, hour>>
  BY DEF SetMallPrice
<1>2. n \in Nat /\ cells \in Seq(Nat) /\ params.mall \in DOMAIN cells BY Inputs DEF AuthorInv, AuthorTypes
<1>3. /\ cells' \in Seq(Nat) /\ DOMAIN cells' = DOMAIN cells
      /\ \A m \in DOMAIN cells : m # params.mall => cells'[m] = cells[m]
  BY <1>1, <1>2
<1>4. AuthorTypes' BY <1>1, <1>3 DEF AuthorInv, AuthorTypes
<1>5. \A c : Attached(c) => Attached(c)' BY <1>1, <1>3 DEF Attached
<1>6. OnTheWay' BY <1>1, <1>5 DEF AuthorInv, OnTheWay, Attached
<1>7. Numbered' BY <1>1 DEF AuthorInv, Numbered
<1>8. Apart'
  <2>1. CheckedOnes' = CheckedOnes /\ PendingOnes' = PendingOnes /\ LoggedOnes' = LoggedOnes
    BY <1>1 DEF CheckedOnes, PendingOnes, LoggedOnes
  <2>2. QED BY <1>1, <2>1 DEF AuthorInv, Apart
<1>9. PricesAsProposed' BY <1>1 DEF AuthorInv, PricesAsProposed
<1>10. QED BY <1>4, <1>6, <1>7, <1>8, <1>9 DEF AuthorInv

LEMMA AuthorStep == AuthorInv /\ [EconomyNext]_economyVars => AuthorInv'
<1>. SUFFICES ASSUME AuthorInv, [EconomyNext]_economyVars PROVE AuthorInv' OBVIOUS
<1>1. hour \in Nat BY DEF AuthorInv, AuthorTypes
<1>2. ASSUME UNCHANGED <<params, cells, authorVars>>, hour' = hour \/ hour' = hour + 1 PROVE AuthorInv'
  BY <1>1, <1>2, AuthorSame
<1>3. CASE GoldNext /\ UNCHANGED authorVars BY <1>2, <1>3 DEF GoldNext, Hour
<1>4. CASE AuthorNext
  BY <1>2, <1>4, RegisterKeepsAuthor, ProposeKeepsAuthor, CreateKeepsAuthor, CancelKeepsAuthor,
     ExecuteKeepsAuthor, ProcessKeepsAuthor, RepriceKeepsAuthor DEF AuthorNext, Hour
<1>5. CASE UNCHANGED economyVars BY <1>2, <1>5 DEF economyVars
<1>6. QED BY <1>3, <1>4, <1>5 DEF EconomyNext

LEMMA AuthorTraced == AuthorInv => ChangesTraced /\ PricesAsProposed
<1>. SUFFICES ASSUME AuthorInv PROVE ChangesTraced BY DEF AuthorInv
<1>1. \A id \in DOMAIN pending : author = <<pending[id].by>> BY DEF AuthorInv, OnTheWay, Attached
<1>2. log \in Seq(Entry) BY DEF AuthorInv, AuthorTypes
<1>3. PICK n \in Nat : n = Len(log) BY <1>2
<1>4. PICK s : s = 1..n OBVIOUS
<1>5. PICK f : f = [i \in s |-> log[i].change.number] OBVIOUS
<1>6. DOMAIN log = s BY <1>2, <1>3, <1>4
<1>7. f \in [s -> LoggedOnes] /\ \A x \in LoggedOnes : \E i \in s : f[i] = x BY <1>5, <1>6 DEF LoggedOnes
<1>8. \A i, j \in s : f[i] = f[j] => i = j BY <1>5, <1>6 DEF AuthorInv, Numbered
<1>9. f \in Bijection(s, LoggedOnes)
  BY <1>7, <1>8 DEF Bijection, Injection, Surjection, IsInjective
<1>10. IsFiniteSet(s) /\ Cardinality(s) = n BY <1>4, FS_Interval
<1>11. Cardinality(LoggedOnes) = Len(log) BY <1>3, <1>9, <1>10, FS_Bijection DEF ExistsBijection
<1>12. QED BY <1>1, <1>11 DEF AuthorInv, Apart, ChangesTraced, CheckedOnes, PendingOnes, LoggedOnes

-----------------------------------------------------------------------------
(* A step that changes the parameters.                                     *)
LEMMA AnnouncedStep ==
  ASSUME AuthorInv, [EconomyNext]_economyVars, params' # params
  PROVE  \E i \in DOMAIN log' \ DOMAIN log :
           /\ params' = log'[i].change.new
           /\ ~log'[i].change.emergency /\ hour >= log'[i].change.at + Announcement
<1>1. ProcessExpiredChanges(hour) /\ UNCHANGED hour
  BY DEF EconomyNext, GoldNext, AuthorNext, ExecuteChange, SetMallPrice, economyVars
<1>2. PICK es, order :
        /\ es \in Seq(Entry) /\ Logs(DueNow, es, order) /\ Len(es) > 0
        /\ params' = pending[order[Len(es)]].new
  BY <1>1, ProcessGives
<1>3. log \in Seq(Entry) BY DEF AuthorInv, AuthorTypes
<1>4. PICK n \in Nat, m \in Nat : n = Len(log) /\ m = Len(es) BY <1>2, <1>3
<1>5. m \in 1..m BY <1>2, <1>4
<1>6. PICK id \in DueNow : id = order[m] BY <1>2, <1>4, <1>5 DEF Logs
<1>7. PICK c \in Change : c = pending[id] /\ ~c.emergency /\ hour >= Due(c)
  BY DEF DueNow, Expired, AuthorInv, AuthorTypes
<1>8. es[m].change = c BY <1>2, <1>4, <1>5, <1>6, <1>7 DEF Logs
<1>9. PICK i : i = n + m OBVIOUS
<1>10. i \in DOMAIN log' \ DOMAIN log /\ log'[i] = es[m] BY <1>2, <1>3, <1>4, <1>5, <1>9 DEF Logs
<1>11. params' = c.new BY <1>2, <1>4, <1>6, <1>7
<1>12. ~c.emergency /\ hour >= c.at + Announcement BY <1>7 DEF Due
<1>13. QED BY <1>8, <1>10, <1>11, <1>12

LEMMA DailyStep == DailyInv /\ AuthorInv /\ AuthorInv' /\ [EconomyNext]_economyVars => DailyInv'
<1>. SUFFICES ASSUME DailyInv, AuthorInv', [EconomyNext]_economyVars PROVE DailyInv' OBVIOUS
<1>1. params'.limit \in Nat BY DEF AuthorInv, AuthorTypes, ParamSet
<1>2. ASSUME UNCHANGED <<sinceReset, daily>> PROVE DailyInv' BY <1>1, <1>2, DailySame
<1>3. ASSUME ResetDailyWithdraws PROVE DailyInv'
  <2>1. sinceReset' = [c \in Customers |-> <<>>] /\ daily' = <<>> BY <1>3 DEF ResetDailyWithdraws
  <2>2. sinceReset' \in [Customers -> Seq(Withdrawal)] BY <2>1
  <2>3. ASSUME NEW c \in Customers
        PROVE  Drawn(c)' = UpTo(sinceReset'[c], Len(sinceReset'[c])) % GoldWidth /\ Limited(sinceReset'[c])
    <3>1. sinceReset'[c] = <<>> /\ Drawn(c)' = 0 BY <2>1 DEF Drawn
    <3>2. UpTo(<<>>, 0) = 0 BY SumEmpty DEF UpTo
    <3>3. 0 % GoldWidth = 0 BY Inputs, RestOfSmall
    <3>4. QED BY <3>1, <3>2, <3>3 DEF Limited
  <2>4. QED BY <1>1, <2>2, <2>3 DEF DailyInv, UpTo, Amounts, Limited, Drawn
<1>4. CASE GoldNext /\ UNCHANGED authorVars
  BY <1>2, <1>3, <1>4, WithdrawKeepsDaily DEF Recharge, AddGoldReserve, IssueGold, BurnGold, goldVars, GoldNext
<1>5. CASE UNCHANGED goldVars BY <1>2, <1>5 DEF goldVars
<1>6. QED BY <1>4, <1>5 DEF EconomyNext, economyVars

(* Gold is where it was accounted for and no more goes out than came in    *)
(* or was issued; daily limits hold; and the author's changes are traced   *)
(* to their announcements, whatever the customers, the rates, the prices   *)
(* and the hours of app/game/economy and app/game/author are.              *)
THEOREM EconomyIsSound == EconomySpec => EconomySound
<1> DEFINE Inv == GoldInv /\ DailyInv /\ AuthorInv
<1>1. EconomyInit => Inv BY GoldStart, DailyStart, AuthorStart
<1>2. AuthorInv => Rated BY DEF AuthorInv, AuthorTypes, ParamSet, Rated
<1>3. Inv /\ [EconomyNext]_economyVars => Inv' BY <1>2, GoldStep, DailyStep, AuthorStep
<1>4. Inv => GoldTraced /\ PayoutsBacked /\ DailyLimited /\ ChangesTraced /\ PricesAsProposed
  BY GoldPays, DailyOf, AuthorTraced
<1>5. Inv /\ [EconomyNext]_economyVars
        => [params' # params =>
             \E i \in DOMAIN log' \ DOMAIN log :
               /\ params' = log'[i].change.new
               /\ ~log'[i].change.emergency /\ hour >= log'[i].change.at + Announcement]_<<params, log>>
  BY AnnouncedStep
<1>. HIDE DEF Inv
<1>6. QED BY <1>1, <1>3, <1>4, <1>5, PTL DEF EconomySpec, EconomySound, AnnouncedBeforeForce

-----------------------------------------------------------------------------
(* Namespaces: the n-th one has the ID IdOf(n), which it keeps until the   *)
(* counter comes round.                                                    *)
IdOf(n) == (FirstID + n - 1) % IDWidth

LEMMA IdWidths == IDWidth \in Nat /\ IDWidth # 0 /\ FirstID \in Nat /\ FirstID < IDWidth
BY NamespacesAssumption

LEMMA IdApart ==
  ASSUME NEW a \in Nat, NEW b \in Nat, a < b, b < a + IDWidth PROVE IdOf(a) # IdOf(b)
<1>1. PICK w \in Nat : w = IDWidth /\ w # 0 BY IdWidths
<1>2. PICK x \in Int, y \in Int : x = FirstID + a - 1 /\ y = FirstID + b - 1 BY IdWidths
<1>3. PICK p \in Int, q \in Int : p = x \div w /\ q = y \div w BY <1>1, DivisionWithRest
<1>4. PICK r \in Int, s \in Int : r = x % w /\ s = y % w BY <1>1, DivisionWithRest
<1>5. x = w * p + r /\ y = w * q + s BY <1>1, <1>3, <1>4, DivisionWithRest
<1>6. SUFFICES ASSUME r = s PROVE FALSE BY <1>1, <1>2, <1>4 DEF IdOf
<1>7. PICK k \in Int : k = q - p OBVIOUS
<1>8. PICK wp \in Int, wq \in Int : wp = w * p /\ wq = w * q OBVIOUS
<1>9. w * k = wq - wp BY <1>7, <1>8
<1>10. y - x = b - a BY <1>2, IdWidths
<1>11. w * k = b - a BY <1>5, <1>6, <1>8, <1>9, <1>10
<1>12. k = 0 BY <1>1, <1>11, SmallProduct
<1>13. w * k = 0 BY <1>12
<1>14. QED BY <1>11, <1>13

LEMMA IdRound == ASSUME NEW n \in Nat PROVE IdOf(n + IDWidth) = IdOf(n)
<1>1. PICK w \in Nat : w = IDWidth /\ w # 0 BY IdWidths
<1>2. PICK x \in Int, y \in Int : x = FirstID + n - 1 /\ y = FirstID + (n + w) - 1 BY IdWidths
<1>3. PICK k \in Int : k = 1 /\ y = x + k * w BY <1>2, IdWidths
<1>4. y % w = x % w BY <1>1, <1>3, SameRest
<1>5. QED BY <1>1, <1>2, <1>4 DEF IdOf

LEMMA IdNext == ASSUME NEW n \in Nat PROVE IdOf(n) \in Nat /\ (IdOf(n) + 1) % IDWidth = IdOf(n + 1)
<1>1. PICK w \in Nat : w = IDWidth /\ w # 0 BY IdWidths
<1>2. PICK x \in Int : x = FirstID + n - 1 BY IdWidths
<1>3. PICK q \in Int : q = x \div w BY <1>1, DivisionWithRest
<1>4. PICK r \in Nat : r = x % w BY <1>1, DivisionWithRest
<1>5. x = w * q + r BY <1>1, <1>3, <1>4, DivisionWithRest
<1>6. PICK qw \in Int : qw = q * w /\ qw = w * q OBVIOUS
<1>7. PICK u \in Int, v \in Int : u = x + 1 /\ v = r + 1 /\ u = v + q * w BY <1>5, <1>6
<1>8. u % w = v % w
  <2>1. w # 0 /\ u = v + q * w BY <1>1, <1>7
  <2>2. \A k \in Int : u = v + k * w => u % w = v % w BY <2>1, SameRest
  <2>3. QED BY <2>1, <2>2
<1>9. FirstID + (n + 1) - 1 = x + 1 BY <1>2, IdWidths
<1>10. QED BY <1>1, <1>2, <1>4, <1>7, <1>8, <1>9 DEF IdOf

Namespace == [owner : Owners, name : Nat, height : Nat]

NamesInv ==
  /\ registered \in Seq(Owners) /\ nextID = IdOf(Len(registered) + 1)
  /\ \A id \in DOMAIN namespaces :
       /\ namespaces[id] \in Namespace
       /\ namespaces[id].name \in 1..Len(registered)
       /\ namespaces[id].name + IDWidth > Len(registered)
       /\ id = IdOf(namespaces[id].name)
  /\ \A n \in 1..Len(registered) :
       /\ IdOf(n) \in DOMAIN namespaces
       /\ n + IDWidth > Len(registered) => namespaces[IdOf(n)].name = n
  /\ byOwner \in [Owners -> Seq(Nat)]
  /\ \A o \in Owners : ToSet(byOwner[o]) = {IdOf(n) : n \in {i \in DOMAIN registered : registered[i] = o}}

LEMMA NamesStart == NamesInit => NamesInv
<1>. SUFFICES ASSUME NamesInit PROVE NamesInv OBVIOUS
<1>1. /\ nextID = FirstID /\ namespaces = <<>> /\ registered = <<>>
      /\ byOwner = [o \in Owners |-> <<>>]
  BY DEF NamesInit
<1>2. registered \in Seq(Owners) /\ Len(registered) = 0 /\ DOMAIN registered = {} /\ DOMAIN namespaces = {}
  BY <1>1
<1>3. nextID = IdOf(1) BY <1>1, IdWidths DEF IdOf
<1>4. byOwner \in [Owners -> Seq(Nat)] BY <1>1
<1>5. \A o \in Owners : ToSet(byOwner[o]) = {} BY <1>1 DEF ToSet
<1>6. 1..0 = {} OBVIOUS
<1>7. nextID = IdOf(Len(registered) + 1) BY <1>2, <1>3
<1>8. QED BY <1>2, <1>4, <1>5, <1>6, <1>7 DEF NamesInv

LEMMA RegisterKeepsNames ==
  ASSUME NamesInv, NEW o \in Owners, RegisterNamespace(o) PROVE NamesInv'
<1>1. PICK len \in Nat : len = Len(registered) BY DEF NamesInv
<1>2. PICK w \in Nat : w = IDWidth /\ w # 0 BY IdWidths
<1>3. PICK new \in Nat : new = nextID /\ new = IdOf(len + 1)
  <2>1. PICK m \in Nat : m = len + 1 OBVIOUS
  <2>2. IdOf(m) \in Nat /\ nextID = IdOf(m) BY <1>1, <2>1, IdNext DEF NamesInv
  <2>3. QED BY <2>1, <2>2
<1>4. PICK x : x = [owner |-> o, name |-> len + 1, height |-> 0] OBVIOUS
<1>4a. x \in Namespace /\ x.name = len + 1 BY <1>4 DEF Namespace
<1>5. /\ DOMAIN namespaces' = DOMAIN namespaces \cup {new}
      /\ namespaces'[new] = x
      /\ \A id \in DOMAIN namespaces : id # new => namespaces'[id] = namespaces[id]
  BY <1>1, <1>3, <1>4 DEF RegisterNamespace
<1>6. nextID' = (new + 1) % IDWidth /\ byOwner' = [byOwner EXCEPT ![o] = Append(@, new)]
      /\ registered' = Append(registered, o)
  BY <1>3 DEF RegisterNamespace, Following
<1>7. /\ registered' \in Seq(Owners) /\ Len(registered') = len + 1
      /\ DOMAIN registered' = 1..(len + 1) /\ DOMAIN registered = 1..len
      /\ registered'[len + 1] = o /\ \A n \in 1..len : registered'[n] = registered[n]
  BY <1>1, <1>6 DEF NamesInv
<1>8. nextID' = IdOf(Len(registered') + 1) BY <1>3, <1>6, <1>7, IdNext
<1>9. ASSUME NEW id \in DOMAIN namespaces'
      PROVE  /\ namespaces'[id] \in Namespace
             /\ namespaces'[id].name \in 1..(len + 1)
             /\ namespaces'[id].name + w > len + 1
             /\ id = IdOf(namespaces'[id].name)
  <2>1. CASE id = new BY <1>2, <1>3, <1>5, <1>4a, <2>1
  <2>2. CASE id # new
    <3>1. id \in DOMAIN namespaces /\ namespaces'[id] = namespaces[id] BY <1>5, <2>2
    <3>2. PICK m \in 1..len : m = namespaces[id].name /\ m + w > len /\ id = IdOf(m)
      BY <1>1, <1>2, <3>1 DEF NamesInv
    <3>3. m + w # len + 1 BY <1>2, <1>3, <2>2, <3>2, IdRound
    <3>4. m + w > len + 1 /\ m \in 1..(len + 1) BY <3>2, <3>3
    <3>5. namespaces'[id] \in Namespace BY <3>1 DEF NamesInv
    <3>6. QED BY <3>1, <3>2, <3>4, <3>5
  <2>3. QED BY <2>1, <2>2
<1>10. ASSUME NEW n \in 1..(len + 1)
       PROVE  /\ IdOf(n) \in DOMAIN namespaces'
              /\ n + w > len + 1 => namespaces'[IdOf(n)].name = n
  <2>1. CASE n = len + 1 BY <1>3, <1>5, <1>4a, <2>1
  <2>2. CASE n # len + 1
    <3>1. n \in 1..len BY <2>2
    <3>2. IdOf(n) \in DOMAIN namespaces /\ (n + w > len => namespaces[IdOf(n)].name = n)
      BY <1>1, <1>2, <3>1 DEF NamesInv
    <3>3. ASSUME n + w > len + 1 PROVE IdOf(n) # new
      BY <1>2, <1>3, <3>1, <3>3, IdApart
    <3>4. ASSUME n + w > len + 1 PROVE n + w > len BY <3>4, <1>2
    <3>5. QED BY <1>5, <3>2, <3>3, <3>4
  <2>3. QED BY <2>1, <2>2
<1>11. byOwner' \in [Owners -> Seq(Nat)] /\ byOwner'[o] = Append(byOwner[o], new)
       /\ \A q \in Owners : q # o => byOwner'[q] = byOwner[q]
  BY <1>6 DEF NamesInv
<1>12. ASSUME NEW q \in Owners
       PROVE  ToSet(byOwner'[q]) = {IdOf(n) : n \in {i \in DOMAIN registered' : registered'[i] = q}}
  <2>1. ToSet(byOwner[q]) = {IdOf(n) : n \in {i \in 1..len : registered[i] = q}}
    BY <1>7 DEF NamesInv
  <2>2. 1..(len + 1) = 1..len \cup {len + 1} OBVIOUS
  <2>3. CASE q # o BY <1>7, <1>11, <2>1, <2>2, <2>3
  <2>4. CASE q = o
    <3>1. {i \in 1..(len + 1) : registered'[i] = q} = {i \in 1..len : registered[i] = q} \cup {len + 1}
      BY <1>7, <2>2, <2>4
    <3>2. byOwner[q] \in Seq(Nat) BY DEF NamesInv
    <3>3. ToSet(Append(byOwner[q], new)) = ToSet(byOwner[q]) \cup {new}
      <4>1. PICK s \in Seq(Nat) : s = byOwner[q] BY <3>2
      <4>2. PICK t : t = Append(s, new) OBVIOUS
      <4>3. /\ DOMAIN s = 1..Len(s) /\ DOMAIN t = 1..Len(s) \cup {Len(s) + 1}
            /\ t[Len(s) + 1] = new /\ \A i \in 1..Len(s) : t[i] = s[i]
        BY <4>2
      <4>4. ToSet(t) = ToSet(s) \cup {new} BY <4>3 DEF ToSet
      <4>5. QED BY <4>1, <4>2, <4>4
    <3>4. ToSet(byOwner'[q]) = {IdOf(n) : n \in {i \in 1..len : registered[i] = q}} \cup {IdOf(len + 1)}
      BY <1>3, <1>11, <2>1, <2>4, <3>3
    <3>5. {IdOf(n) : n \in {i \in 1..(len + 1) : registered'[i] = q}} = ToSet(byOwner'[q]) BY <3>1, <3>4
    <3>6. QED BY <1>7, <3>5
  <2>5. QED BY <2>3, <2>4
<1>13. QED BY <1>2, <1>7, <1>8, <1>9, <1>10, <1>11, <1>12 DEF NamesInv

LEMMA NamesSame ==
  ASSUME NamesInv, UNCHANGED <<nextID, byOwner, registered>>, DOMAIN namespaces' = DOMAIN namespaces,
         \A id \in DOMAIN namespaces : namespaces'[id] \in Namespace /\ namespaces'[id].name = namespaces[id].name
  PROVE  NamesInv'
BY DEF NamesInv

LEMMA NamesStep == NamesInv /\ (NamesNext \/ UNCHANGED namesVars) => NamesInv'
<1>. SUFFICES ASSUME NamesInv, NamesNext \/ UNCHANGED namesVars PROVE NamesInv' OBVIOUS
<1>1. ASSUME NEW o \in Owners, RegisterNamespace(o) PROVE NamesInv' BY <1>1, RegisterKeepsNames
<1>2. ASSUME NEW id \in DOMAIN namespaces, NEW h \in 1..MaxHeight, UpdateStateRoot(id, h) PROVE NamesInv'
  <2>1. /\ namespaces' = [namespaces EXCEPT ![id].height = h]
        /\ UNCHANGED <<nextID, byOwner, registered>>
    BY <1>2 DEF UpdateStateRoot
  <2>2. h \in Nat BY NamespacesAssumption
  <2>3. \A i \in DOMAIN namespaces :
          namespaces'[i] \in Namespace /\ namespaces'[i].name = namespaces[i].name
    BY <2>1, <2>2 DEF NamesInv, Namespace
  <2>4. DOMAIN namespaces' = DOMAIN namespaces BY <2>1
  <2>5. QED BY <2>1, <2>3, <2>4, NamesSame
<1>3. CASE UNCHANGED namesVars BY <1>3, NamesSame DEF namesVars, NamesInv
<1>4. QED BY <1>1, <1>2, <1>3 DEF NamesNext

LEMMA NamesFound == NamesInv => OwnersFindTheirs
<1>. SUFFICES ASSUME NamesInv, NEW o \in Owners
              PROVE  LET own == {i \in DOMAIN registered : registered[i] = o}
                         last == {i \in DOMAIN registered : i + IDWidth > Len(registered)}
                     IN  /\ Len(registered) <= IDWidth => NamespacesOf(o) = own
                         /\ own \cap last \subseteq NamespacesOf(o)
                         /\ NamespacesOf(o) \subseteq last
  BY DEF OwnersFindTheirs
<1>1. PICK len \in Nat : len = Len(registered) /\ DOMAIN registered = 1..len BY DEF NamesInv
<1>2. PICK w \in Nat : w = IDWidth /\ w # 0 BY IdWidths
<1>3. PICK own : own = {i \in DOMAIN registered : registered[i] = o} OBVIOUS
<1>4. PICK last : last = {i \in DOMAIN registered : i + IDWidth > Len(registered)} OBVIOUS
<1>5. NamespacesOf(o) = {namespaces[IdOf(n)].name : n \in own} BY <1>3 DEF NamesInv, NamespacesOf
<1>6. NamespacesOf(o) \subseteq last BY <1>1, <1>3, <1>4, <1>5 DEF NamesInv
<1>7. \A n \in own : n + w > len => namespaces[IdOf(n)].name = n BY <1>1, <1>2, <1>3 DEF NamesInv
<1>8. own \cap last \subseteq NamespacesOf(o) BY <1>1, <1>2, <1>4, <1>5, <1>7
<1>9. ASSUME len <= w PROVE NamespacesOf(o) = own BY <1>1, <1>2, <1>3, <1>5, <1>7, <1>9
<1>10. QED BY <1>1, <1>2, <1>3, <1>4, <1>6, <1>8, <1>9

-----------------------------------------------------------------------------
(* The avatar.                                                             *)
Data ==
  [op : {"add", "remove"}, key : Keys] \cup [op : {"rotate"}, key : Keys, new : Keys]
    \cup [op : {"root"}, hash : Hashes, prev : Hashes \cup {0}]
Asked == [data : Data, entries : SUBSET (Nat \X Keys), after : Nat]

ListedOnes ==
  /\ members \in Seq(Keys) /\ members # <<>> /\ threshold = Threshold(Len(members))
  /\ doubled \in BOOLEAN
  /\ ~doubled => IsInjective(members)

RootBefore(n) == IF n = 0 THEN 0 ELSE roots[n].hash

Rooted ==
  /\ requests \in Seq(Asked) /\ roots \in Seq(Data) /\ finalized \in Seq(Nat)
  /\ Len(finalized) = Len(roots)
  /\ \A r \in DOMAIN requests :
       requests[r].data.op = "root" =>
         requests[r].after <= Len(roots) /\ requests[r].data.prev = RootBefore(requests[r].after)
  /\ \A i \in DOMAIN roots :
       /\ roots[i].op = "root"
       /\ finalized[i] # 0 =>
            /\ finalized[i] \in DOMAIN requests /\ roots[i] = requests[finalized[i]].data
            /\ requests[finalized[i]].after <= i - 1

AvatarInv == ListedOnes /\ Rooted /\ TwoThirds

\* Sorting loses no key and doubles none.
LEMMA SortedKeys ==
  ASSUME NEW s \in Seq(Keys), NEW t \in Sorted(s)
  PROVE  t \in Seq(Keys) /\ Len(t) = Len(s) /\ (IsInjective(s) => IsInjective(t))
<1>1. PICK n \in Nat : n = Len(s) /\ DOMAIN s = 1..n OBVIOUS
<1>2. PICK p \in Orders(n) : t = [i \in 1..n |-> s[p[i]]] BY <1>1 DEF Sorted
<1>3. p \in [1..n -> 1..n] /\ \A i, j \in 1..n : p[i] = p[j] => i = j BY <1>2 DEF Orders, IsInjective
<1>4. t \in [1..n -> Keys] BY <1>1, <1>2, <1>3
<1>5. t \in Seq(Keys) /\ Len(t) = n /\ DOMAIN t = 1..n BY <1>4
<1>6. ASSUME IsInjective(s) PROVE IsInjective(t)
  <2>1. \A a, b \in 1..n : s[a] = s[b] => a = b BY <1>1, <1>6 DEF IsInjective
  <2>2. \A i \in 1..n : t[i] = s[p[i]] /\ p[i] \in 1..n BY <1>2, <1>3
  <2>3. ASSUME NEW i \in 1..n, NEW j \in 1..n, t[i] = t[j] PROVE i = j
    <3>1. s[p[i]] = s[p[j]] BY <2>2, <2>3
    <3>2. p[i] = p[j] BY <2>1, <2>2, <3>1
    <3>3. QED BY <1>3, <3>2
  <2>4. QED BY <1>5, <2>3 DEF IsInjective
<1>7. QED BY <1>1, <1>5, <1>6

LEMMA AvatarStart == AvatarInit => AvatarInv
<1>. SUFFICES ASSUME AvatarInit PROVE AvatarInv OBVIOUS
<1>1. /\ members \in Sorted(SetToSeq(Founders)) /\ threshold = Threshold(Cardinality(Founders))
      /\ requests = <<>> /\ roots = <<>> /\ doubled = FALSE /\ weighed = {} /\ finalized = <<>>
  BY DEF AvatarInit
<1>2. PICK n \in Nat : n = Cardinality(Founders) /\ n # 0 /\ ExistsBijection(1..n, Founders)
  BY AvatarsAssumption, FS_Subset, FS_CardinalityType, FS_EmptySet
<1>3. PICK s : s = SetToSeq(Founders) OBVIOUS
<1>4. s \in [1..n -> Founders] /\ IsInjective(s) BY <1>2, <1>3 DEF ExistsBijection, Bijection, Injection, SetToSeq
<1>5. s \in [1..n -> Keys] BY <1>4, AvatarsAssumption
<1>6. s \in Seq(Keys) /\ Len(s) = n BY <1>5
<1>7. members \in Seq(Keys) /\ Len(members) = n /\ IsInjective(members)
  BY <1>1, <1>3, <1>4, <1>6, SortedKeys
<1>8. members # <<>> BY <1>2, <1>7
<1>9. ListedOnes BY <1>1, <1>2, <1>7, <1>8 DEF ListedOnes
<1>10. Rooted BY <1>1 DEF Rooted
<1>11. TwoThirds BY <1>1 DEF TwoThirds
<1>12. QED BY <1>9, <1>10, <1>11 DEF AvatarInv

LEMMA ThresholdIs == ASSUME NEW n \in Nat PROVE Threshold(n) \in Nat /\ 3 * Threshold(n) >= 2 * n
BY DEF Threshold

(* As long as no key is twice in the list, each signature that counts is   *)
(* of a key of its own.                                                    *)
LEMMA SignersEnough ==
  ASSUME AvatarInv, NEW r \in DOMAIN requests, VerifyThresholdSignature(r),
         Weighed(r)
  PROVE  TwoThirds'
<1>1. members \in Seq(Keys) /\ threshold = Threshold(Len(members)) /\ requests \in Seq(Asked)
  BY DEF AvatarInv, ListedOnes, Rooted
<1>2. PICK n \in Nat : n = Len(members) /\ DOMAIN members = 1..n BY <1>1
<1>3. PICK V : V = Valid(r) OBVIOUS
<1>4. requests[r] \in Asked BY <1>1
<1>5. requests[r].entries \in SUBSET (Nat \X Keys) BY <1>4 DEF Asked
<1>6. \A e \in V : e = <<e[1], e[2]>> /\ e[1] \in 1..n /\ e[2] = members[e[1]]
  BY <1>2, <1>3, <1>5 DEF Valid
<1>7. IsFiniteSet(V)
  <2>1. PICK f : f = [i \in 1..n |-> <<i, members[i]>>] OBVIOUS
  <2>2. PICK W : W = {f[i] : i \in 1..n} OBVIOUS
  <2>3. f \in Surjection(1..n, W) BY <2>1, <2>2 DEF Surjection
  <2>4. IsFiniteSet(1..n) BY FS_Interval
  <2>5. IsFiniteSet(W) BY <2>3, <2>4, FS_Surjection
  <2>6. V \subseteq W BY <1>6, <2>1, <2>2
  <2>7. QED BY <2>5, <2>6, FS_Subset
<1>8. ASSUME ~doubled PROVE Cardinality(Signers(r)) = Cardinality(V)
  <2>1. PICK f : f = [e \in V |-> e[2]] OBVIOUS
  <2>2. \A i, j \in 1..n : members[i] = members[j] => i = j
    BY <1>2, <1>8 DEF AvatarInv, ListedOnes, IsInjective
  <2>3. \A d, e \in V : d[2] = e[2] => d = e BY <1>6, <2>2
  <2>4. f \in Bijection(V, Signers(r))
    BY <1>3, <2>1, <2>3 DEF Signers, Bijection, Injection, Surjection, IsInjective
  <2>5. QED BY <1>7, <2>4, FS_Bijection DEF ExistsBijection
<1>9. Cardinality(V) \in Nat BY <1>7, FS_CardinalityType
<1>10. Cardinality(V) >= Threshold(n) BY <1>1, <1>2, <1>3 DEF VerifyThresholdSignature
<1>11. Threshold(n) \in Nat /\ 3 * Threshold(n) >= 2 * n BY ThresholdIs
<1>12. PICK c \in Nat, h \in Nat : c = Cardinality(V) /\ h = Threshold(n) BY <1>9, <1>11
<1>13. 3 * c >= 2 * n BY <1>10, <1>11, <1>12
<1>14. PICK w : w = <<Cardinality(Signers(r)), Len(members), doubled>> OBVIOUS
<1>15. w[3] \/ 3 * w[1] >= 2 * w[2] BY <1>2, <1>8, <1>12, <1>13, <1>14
<1>16. weighed' = {w} BY <1>14 DEF Weighed
<1>17. QED BY <1>15, <1>16 DEF TwoThirds

\* Requests keep their data, and roots are as they were.
LEMMA RootedSame ==
  ASSUME Rooted, requests' \in Seq(Asked), DOMAIN requests' = DOMAIN requests,
         \A r \in DOMAIN requests :
           requests'[r].data = requests[r].data /\ requests'[r].after = requests[r].after,
         UNCHANGED <<roots, finalized>>
  PROVE  Rooted'
BY DEF Rooted, RootBefore

LEMMA AskedFields ==
  ASSUME Rooted, NEW r \in DOMAIN requests PROVE requests[r].data \in Data /\ requests[r].after \in Nat
<1>1. requests \in Seq(Asked) BY DEF Rooted
<1>2. requests[r] \in Asked BY <1>1
<1>3. QED BY <1>2 DEF Asked

\* The place of a key in the list.
LEMMA FirstPlace ==
  ASSUME members \in Seq(Keys), NEW k \in ToSet(members)
  PROVE  LET i == CHOOSE j \in DOMAIN members : members[j] = k /\ \A h \in 1..(j - 1) : members[h] # k
         IN  i \in 1..Len(members) /\ members[i] = k
<1>1. PICK n \in Nat : n = Len(members) /\ DOMAIN members = 1..n OBVIOUS
<1>2. PICK T : T = {j \in 1..n : members[j] = k} OBVIOUS
<1>3. T \in SUBSET Nat /\ T # {} BY <1>1, <1>2 DEF ToSet
<1>4. PICK j \in T : \A h \in T : j <= h BY <1>3, SmallestNumber
<1>5. \A h \in 1..(j - 1) : members[h] # k BY <1>2, <1>4
<1>6. QED BY <1>1, <1>2, <1>4, <1>5

LEMMA WithoutPlace ==
  ASSUME NEW s \in Seq(Keys), NEW i \in 1..Len(s)
  PROVE  /\ RemoveAt(s, i) \in Seq(Keys) /\ Len(RemoveAt(s, i)) = Len(s) - 1
         /\ IsInjective(s) => IsInjective(RemoveAt(s, i))
<1>1. PICK n \in Nat : n = Len(s) /\ DOMAIN s = 1..n OBVIOUS
<1>2. PICK a : a = SubSeq(s, 1, i - 1) OBVIOUS
<1>3. PICK b : b = SubSeq(s, i + 1, n) OBVIOUS
<1>4. /\ a \in Seq(Keys) /\ Len(a) = i - 1 /\ \A j \in 1..(i - 1) : a[j] = s[j] BY <1>1, <1>2, SubSeqProperties
<1>5. /\ b \in Seq(Keys) /\ Len(b) = n - i /\ \A j \in 1..(n - i) : b[j] = s[i + j] BY <1>1, <1>3, SubSeqProperties
<1>6. PICK t : t = RemoveAt(s, i) /\ t = a \o b BY <1>1, <1>2, <1>3 DEF RemoveAt
<1>7. /\ t \in Seq(Keys) /\ Len(t) = n - 1
      /\ \A j \in 1..(n - 1) : t[j] = IF j <= i - 1 THEN a[j] ELSE b[j - (i - 1)]
  <2>1. PICK k \in Nat : k = i - 1 BY <1>1
  <2>2. PICK m \in Nat : m = n - i
    <3>1. i \in 1..n BY <1>1
    <3>2. n - i \in Nat BY <3>1
    <3>3. QED BY <3>2
  <2>3. Len(a) = k /\ Len(b) = m /\ k + m = n - 1 BY <1>1, <1>4, <1>5, <2>1, <2>2
  <2>4. /\ a \o b \in Seq(Keys) /\ Len(a \o b) = Len(a) + Len(b)
        /\ \A j \in 1..(Len(a) + Len(b)) : (a \o b)[j] = IF j <= Len(a) THEN a[j] ELSE b[j - Len(a)]
    BY <1>4, <1>5, ConcatProperties
  <2>5. /\ t \in Seq(Keys) /\ Len(t) = k + m
        /\ \A j \in 1..(k + m) : t[j] = IF j <= k THEN a[j] ELSE b[j - k]
    BY <1>6, <2>3, <2>4
  <2>6. QED BY <2>1, <2>3, <2>5
<1>8. PICK at : at = [j \in 1..(n - 1) |-> IF j < i THEN j ELSE j + 1] OBVIOUS
<1>9. ASSUME NEW j \in 1..(n - 1) PROVE at[j] \in 1..n /\ t[j] = s[at[j]]
  <2>1. CASE j < i BY <1>1, <1>4, <1>7, <1>8, <2>1
  <2>2. CASE ~(j < i) BY <1>1, <1>5, <1>7, <1>8, <2>2
  <2>3. QED BY <2>1, <2>2
<1>10. \A j, h \in 1..(n - 1) : at[j] = at[h] => j = h BY <1>1, <1>8
<1>11. ASSUME IsInjective(s) PROVE IsInjective(t)
  <2>1. \A x, y \in 1..n : s[x] = s[y] => x = y BY <1>1, <1>11 DEF IsInjective
  <2>2. DOMAIN t = 1..(n - 1) BY <1>7
  <2>3. ASSUME NEW j \in 1..(n - 1), NEW h \in 1..(n - 1), t[j] = t[h] PROVE j = h
    <3>1. at[j] = at[h] BY <1>9, <2>1, <2>3
    <3>2. QED BY <1>10, <3>1
  <2>4. QED BY <2>2, <2>3 DEF IsInjective
<1>12. QED BY <1>1, <1>6, <1>7, <1>11

LEMMA WithKey ==
  ASSUME NEW s \in Seq(Keys), NEW k \in Keys, k \notin ToSet(s), IsInjective(s)
  PROVE  IsInjective(Append(s, k))
BY DEF IsInjective, ToSet

LEMMA WithOther ==
  ASSUME NEW s \in Seq(Keys), NEW k \in Keys, NEW i \in 1..Len(s), k \notin ToSet(s), IsInjective(s)
  PROVE  IsInjective([s EXCEPT ![i] = k])
BY DEF IsInjective, ToSet

\* What is left to show when a change is carried out.
LEMMA CarryKeeps ==
  ASSUME AvatarInv, NEW r \in DOMAIN requests, NEW keys \in Seq(Keys), Carry(r, keys), keys # <<>>,
         doubled' \in BOOLEAN, ~doubled' => IsInjective(keys), threshold' = Threshold(Len(keys))
  PROVE  AvatarInv'
<1>1. /\ VerifyThresholdSignature(r) /\ Weighed(r)
      /\ members' \in Sorted(keys) /\ UNCHANGED <<requests, roots, finalized>>
  BY DEF Carry
<1>2. TwoThirds' BY <1>1, SignersEnough
<1>3. Rooted' BY <1>1 DEF AvatarInv, Rooted, RootBefore
<1>4. members' \in Seq(Keys) /\ Len(members') = Len(keys) /\ (IsInjective(keys) => IsInjective(members'))
  BY <1>1, SortedKeys
<1>5. members' # <<>> BY <1>4
<1>6. ListedOnes' BY <1>4, <1>5 DEF ListedOnes
<1>7. QED BY <1>2, <1>3, <1>6 DEF AvatarInv

LEMMA AskKeepsAvatar ==
  ASSUME AvatarInv, NEW data \in Data, Request(data),
         data.op = "root" => data.prev = RootBefore(Len(roots))
  PROVE  AvatarInv'
<1>1. requests \in Seq(Asked) /\ roots \in Seq(Data) BY DEF AvatarInv, Rooted
<1>2. threshold \in Nat BY ThresholdIs DEF AvatarInv, ListedOnes
<1>3. PICK n \in Nat, m \in Nat : n = Len(requests) /\ m = Len(roots) /\ DOMAIN requests = 1..n /\ DOMAIN roots = 1..m
  BY <1>1
<1>4. PICK x : x = [data |-> data, entries |-> {}, after |-> m] OBVIOUS
<1>5. x \in Asked /\ x.data = data /\ x.after = m BY <1>2, <1>4 DEF Asked
<1>6. requests' = Append(requests, x) /\ UNCHANGED <<members, threshold, roots, doubled, weighed, finalized>>
  BY <1>3, <1>4 DEF Request
<1>7. /\ requests' \in Seq(Asked) /\ DOMAIN requests' = 1..(n + 1)
      /\ requests'[n + 1] = x /\ \A r \in 1..n : requests'[r] = requests[r]
  BY <1>1, <1>3, <1>5, <1>6
<1>8. Rooted'
  <2>1. ASSUME NEW r \in DOMAIN requests', requests'[r].data.op = "root"
        PROVE  requests'[r].after <= m /\ requests'[r].data.prev = RootBefore(requests'[r].after)
    <3>1. CASE r \in 1..n BY <1>3, <1>7, <2>1, <3>1 DEF AvatarInv, Rooted
    <3>2. CASE r = n + 1 BY <1>3, <1>5, <1>7, <2>1, <3>2
    <3>3. QED BY <1>7, <3>1, <3>2
  <2>2. ASSUME NEW i \in DOMAIN roots
        PROVE  /\ roots[i].op = "root"
               /\ finalized[i] # 0 =>
                    /\ finalized[i] \in DOMAIN requests' /\ roots[i] = requests'[finalized[i]].data
                    /\ requests'[finalized[i]].after <= i - 1
    BY <1>3, <1>7 DEF AvatarInv, Rooted
  <2>3. roots' = roots /\ finalized' = finalized BY <1>6
  <2>4. QED BY <1>3, <1>7, <2>1, <2>2, <2>3 DEF AvatarInv, Rooted, RootBefore
<1>9. ListedOnes' BY <1>6 DEF AvatarInv, ListedOnes
<1>10. TwoThirds' BY <1>6 DEF AvatarInv, TwoThirds
<1>11. QED BY <1>8, <1>9, <1>10 DEF AvatarInv

LEMMA SignKeepsAvatar ==
  ASSUME AvatarInv, NEW r \in DOMAIN requests, NEW i \in DOMAIN members, SignThreshold(r, i)
  PROVE  AvatarInv'
<1>1. requests \in Seq(Asked) /\ members \in Seq(Keys) BY DEF AvatarInv, Rooted, ListedOnes
<1>2. i \in Nat /\ members[i] \in Keys /\ requests[r] \in Asked /\ r \in 1..Len(requests) BY <1>1
<1>3. PICK x : x = [requests[r] EXCEPT !.entries = @ \cup {<<i, members[i]>>}] OBVIOUS
<1>4. x \in Asked /\ x.data = requests[r].data /\ x.after = requests[r].after BY <1>2, <1>3 DEF Asked
<1>5. /\ requests' = [requests EXCEPT ![r] = x]
      /\ UNCHANGED <<members, threshold, roots, doubled, weighed, finalized>>
  BY <1>3 DEF SignThreshold
<1>6. requests' \in Seq(Asked) /\ DOMAIN requests' = DOMAIN requests BY <1>1, <1>2, <1>4, <1>5, ExceptSeq
<1>7. \A q \in DOMAIN requests : requests'[q] = IF q = r THEN x ELSE requests[q] BY <1>5
<1>8. Rooted' BY <1>4, <1>5, <1>6, <1>7, RootedSame DEF AvatarInv
<1>9. ListedOnes' BY <1>5 DEF AvatarInv, ListedOnes
<1>10. TwoThirds' BY <1>5 DEF AvatarInv, TwoThirds
<1>11. QED BY <1>8, <1>9, <1>10 DEF AvatarInv

LEMMA AddKeepsAvatar ==
  ASSUME AvatarInv, NEW r \in DOMAIN requests, AddMember(r) PROVE AvatarInv'
<1>1. members \in Seq(Keys) /\ requests[r].data \in Data
  BY AskedFields DEF AvatarInv, ListedOnes
<1>2. PICK k : k = requests[r].data.key OBVIOUS
<1>3. /\ requests[r].data.op = "add" /\ k \notin ToSet(members) /\ Carry(r, Append(members, k))
      /\ threshold' = Threshold(Len(members) + 1) /\ doubled' = doubled
  BY <1>2 DEF AddMember, MayAdd
<1>4. k \in Keys BY <1>1, <1>2, <1>3 DEF Data
<1>5. PICK s : s = Append(members, k) OBVIOUS
<1>6. s \in Seq(Keys) /\ s # <<>> /\ Len(s) = Len(members) + 1 BY <1>1, <1>4, <1>5
<1>7. ~doubled => IsInjective(s) BY <1>1, <1>3, <1>4, <1>5, WithKey DEF AvatarInv, ListedOnes
<1>8. doubled' \in BOOLEAN BY <1>3 DEF AvatarInv, ListedOnes
<1>9. QED BY <1>3, <1>5, <1>6, <1>7, <1>8, CarryKeeps

LEMMA RemoveKeepsAvatar ==
  ASSUME AvatarInv, NEW r \in DOMAIN requests, RemoveMember(r) PROVE AvatarInv'
<1>1. members \in Seq(Keys) BY DEF AvatarInv, ListedOnes
<1>2. PICK k : k = requests[r].data.key OBVIOUS
<1>3. PICK i : i = CHOOSE j \in DOMAIN members : members[j] = k /\ \A h \in 1..(j - 1) : members[h] # k
  OBVIOUS
<1>4. /\ k \in ToSet(members) /\ Len(members) > 1 /\ Carry(r, RemoveAt(members, i))
      /\ threshold' = Threshold(Len(members) - 1) /\ doubled' = doubled
  BY <1>2, <1>3 DEF RemoveMember
<1>5. i \in 1..Len(members) BY <1>1, <1>3, <1>4, FirstPlace
<1>6. PICK s : s = RemoveAt(members, i) OBVIOUS
<1>7. s \in Seq(Keys) /\ Len(s) = Len(members) - 1 /\ (IsInjective(members) => IsInjective(s))
  BY <1>1, <1>5, <1>6, WithoutPlace
<1>8. s # <<>> BY <1>1, <1>4, <1>7
<1>9. ~doubled' => IsInjective(s) BY <1>4, <1>7 DEF AvatarInv, ListedOnes
<1>10. doubled' \in BOOLEAN BY <1>4 DEF AvatarInv, ListedOnes
<1>11. QED BY <1>4, <1>6, <1>7, <1>8, <1>9, <1>10, CarryKeeps

LEMMA RotateKeepsAvatar ==
  ASSUME AvatarInv, NEW r \in DOMAIN requests, RotateMemberKey(r) PROVE AvatarInv'
<1>1. members \in Seq(Keys) /\ requests[r].data \in Data
  BY AskedFields DEF AvatarInv, ListedOnes
<1>2. PICK k, new : k = requests[r].data.key /\ new = requests[r].data.new OBVIOUS
<1>3. PICK i : i = CHOOSE j \in DOMAIN members : members[j] = k /\ \A h \in 1..(j - 1) : members[h] # k
  OBVIOUS
<1>4. /\ requests[r].data.op = "rotate" /\ k \in ToSet(members) /\ Carry(r, [members EXCEPT ![i] = new])
      /\ threshold' = threshold /\ doubled' = (doubled \/ new \in ToSet(members))
  BY <1>2, <1>3 DEF RotateMemberKey
<1>5. new \in Keys BY <1>1, <1>2, <1>4 DEF Data
<1>6. i \in 1..Len(members) BY <1>1, <1>3, <1>4, FirstPlace
<1>7. PICK s : s = [members EXCEPT ![i] = new] OBVIOUS
<1>8. s \in Seq(Keys) /\ Len(s) = Len(members) BY <1>1, <1>5, <1>6, <1>7, ExceptSeq
<1>9. s # <<>> BY <1>6, <1>8
<1>10. ~doubled' => IsInjective(s)
  BY <1>1, <1>4, <1>5, <1>6, <1>7, WithOther DEF AvatarInv, ListedOnes
<1>11. doubled' \in BOOLEAN BY <1>4 DEF AvatarInv, ListedOnes
<1>12. threshold' = Threshold(Len(s)) BY <1>4, <1>8 DEF AvatarInv, ListedOnes
<1>13. QED BY <1>4, <1>7, <1>8, <1>9, <1>10, <1>11, <1>12, CarryKeeps

LEMMA FinalizeKeepsAvatar ==
  ASSUME AvatarInv, NEW h \in Hashes, NEW p \in Hashes \cup {0}, NEW r \in DOMAIN requests,
         FinalizeStateRoot(StateRoot(h, p), r)
  PROVE  AvatarInv'
<1>1. PICK d : d = StateRoot(h, p) OBVIOUS
<1>2. d \in Data /\ d.op = "root" BY <1>1 DEF StateRoot, Data
<1>3. /\ VerifyThresholdSignature(r) /\ Weighed(r) /\ roots' = Append(roots, d)
      /\ UNCHANGED <<members, threshold, requests, doubled>>
  BY <1>1 DEF FinalizeStateRoot
<1>4. PICK q : /\ q \in IF ProposalsOf(d) = {} THEN {0} ELSE ProposalsOf(d)
               /\ finalized' = Append(finalized, q)
  BY <1>1 DEF FinalizeStateRoot
<1>5. q # 0 => q \in DOMAIN requests /\ requests[q].data = d BY <1>4 DEF ProposalsOf
<1>6. /\ requests \in Seq(Asked) /\ roots \in Seq(Data) /\ finalized \in Seq(Nat)
      /\ Len(finalized) = Len(roots)
  BY DEF AvatarInv, Rooted
<1>7. PICK m \in Nat : m = Len(roots) /\ DOMAIN roots = 1..m BY <1>6
<1>8. /\ roots' \in Seq(Data) /\ DOMAIN roots' = 1..(m + 1) /\ Len(roots') = m + 1
      /\ roots'[m + 1] = d /\ \A i \in 1..m : roots'[i] = roots[i]
  BY <1>2, <1>3, <1>6, <1>7
<1>9. q \in Nat BY <1>5, <1>6
<1>10. /\ finalized' \in Seq(Nat) /\ Len(finalized') = m + 1
       /\ finalized'[m + 1] = q /\ \A i \in 1..m : finalized'[i] = finalized[i]
  BY <1>4, <1>6, <1>7, <1>9
<1>11. ASSUME NEW o \in DOMAIN requests, requests[o].data.op = "root"
       PROVE  /\ requests[o].after <= m + 1
              /\ requests[o].data.prev =
                   IF requests[o].after = 0 THEN 0 ELSE roots'[requests[o].after].hash
  <2>1. PICK a : a = requests[o].after OBVIOUS
  <2>2. a <= m /\ requests[o].data.prev = RootBefore(a) BY <1>7, <1>11, <2>1 DEF AvatarInv, Rooted
  <2>3. a \in Nat BY <1>11, <2>1, AskedFields DEF AvatarInv
  <2>4. a <= m + 1 BY <2>2, <2>3
  <2>5. CASE a = 0 BY <2>1, <2>2, <2>4, <2>5 DEF RootBefore
  <2>6. CASE a # 0 BY <1>8, <2>1, <2>2, <2>3, <2>4, <2>6 DEF RootBefore
  <2>7. QED BY <2>5, <2>6
<1>12. ASSUME NEW i \in DOMAIN roots'
       PROVE  /\ roots'[i].op = "root"
              /\ finalized'[i] # 0 =>
                   /\ finalized'[i] \in DOMAIN requests /\ roots'[i] = requests[finalized'[i]].data
                   /\ requests[finalized'[i]].after <= i - 1
  <2>1. CASE i \in 1..m
    <3>1. /\ roots[i].op = "root"
          /\ finalized[i] # 0 =>
               /\ finalized[i] \in DOMAIN requests /\ roots[i] = requests[finalized[i]].data
               /\ requests[finalized[i]].after <= i - 1
      BY <1>7, <2>1 DEF AvatarInv, Rooted
    <3>2. finalized'[i] = finalized[i] /\ roots'[i] = roots[i] BY <1>8, <1>10, <2>1
    <3>3. QED BY <3>1, <3>2
  <2>2. CASE i = m + 1
    <3>1. finalized'[i] = q /\ roots'[i] = d BY <1>8, <1>10, <2>2
    <3>2. q # 0 => requests[q].after <= m BY <1>2, <1>5, <1>7 DEF AvatarInv, Rooted
    <3>3. q # 0 => requests[q].after \in Nat BY <1>5, AskedFields DEF AvatarInv
    <3>4. QED BY <1>2, <1>5, <2>2, <3>1, <3>2, <3>3
  <2>3. QED BY <1>8, <2>1, <2>2
<1>13. Rooted' BY <1>3, <1>6, <1>8, <1>10, <1>11, <1>12 DEF Rooted, RootBefore
<1>14. ListedOnes' BY <1>3 DEF AvatarInv, ListedOnes
<1>15. TwoThirds' BY <1>3, SignersEnough
<1>16. QED BY <1>13, <1>14, <1>15 DEF AvatarInv

LEMMA AvatarStep == AvatarInv /\ (AvatarNext \/ UNCHANGED avatarVars) => AvatarInv'
<1>. SUFFICES ASSUME AvatarInv, AvatarNext \/ UNCHANGED avatarVars PROVE AvatarInv' OBVIOUS
<1>1. ASSUME NEW k \in Keys, Request(Adding(k)) \/ Request(Removing(k)) PROVE AvatarInv'
  BY <1>1, AskKeepsAvatar DEF Adding, Removing, Data
<1>2. ASSUME NEW k \in Keys, NEW new \in Keys \ {k}, Request(Rotating(k, new)) PROVE AvatarInv'
  BY <1>2, AskKeepsAvatar DEF Rotating, Data
<1>3. ASSUME NEW h \in Hashes, ProposeStateRoot(h) PROVE AvatarInv'
  <2>1. roots \in Seq(Data) BY DEF AvatarInv, Rooted
  <2>2. Previous = RootBefore(Len(roots)) /\ Previous \in Hashes \cup {0}
    <3>1. CASE roots = <<>> BY <3>1 DEF Previous, CurrentHash, RootBefore
    <3>2. CASE roots # <<>>
      <4>1. PICK n \in DOMAIN roots : n = Len(roots) /\ n # 0 BY <2>1, <3>2
      <4>2. roots[n] \in Data /\ roots[n].op = "root" BY <2>1, <4>1 DEF AvatarInv, Rooted
      <4>3. roots[n].hash \in Hashes BY <4>2 DEF Data
      <4>4. QED BY <3>2, <4>1, <4>3 DEF Previous, CurrentHash, Last, RootBefore
    <3>3. QED BY <3>1, <3>2
  <2>3. PICK p \in Hashes \cup {0} : p = Previous BY <2>2
  <2>4. PICK data : data = StateRoot(h, p) OBVIOUS
  <2>5. data \in Data /\ data.prev = p BY <2>4 DEF StateRoot, Data
  <2>6. Request(data) BY <1>3, <2>3, <2>4 DEF ProposeStateRoot
  <2>7. QED BY <2>2, <2>3, <2>5, <2>6, AskKeepsAvatar
<1>4. CASE UNCHANGED avatarVars
  BY <1>4 DEF avatarVars, AvatarInv, ListedOnes, Rooted, RootBefore, TwoThirds
<1>5. QED
  BY <1>1, <1>2, <1>3, <1>4, SignKeepsAvatar, AddKeepsAvatar, RemoveKeepsAvatar, RotateKeepsAvatar,
     FinalizeKeepsAvatar DEF AvatarNext

LEMMA AvatarIs == AvatarInv => AvatarSound
<1>. SUFFICES ASSUME AvatarInv PROVE KeysDistinct /\ ForkExplained BY DEF AvatarInv, AvatarSound
<1>1. KeysDistinct BY DEF AvatarInv, ListedOnes, KeysDistinct
<1>2. ASSUME NEW i \in DOMAIN roots, roots[i].prev # (IF i = 1 THEN 0 ELSE roots[i - 1].hash),
             finalized[i] # 0
      PROVE  requests[finalized[i]].after < i - 1
  <2>1. requests \in Seq(Asked) /\ roots \in Seq(Data) BY DEF AvatarInv, Rooted
  <2>2. PICK r \in DOMAIN requests : r = finalized[i] /\ roots[i] = requests[r].data
                                     /\ roots[i].op = "root" /\ requests[r].after <= i - 1
    BY <1>2 DEF AvatarInv, Rooted
  <2>3. PICK a \in Nat : a = requests[r].after BY <2>2, AskedFields DEF AvatarInv
  <2>4. roots[i].prev = RootBefore(a) BY <2>2, <2>3 DEF AvatarInv, Rooted
  <2>5. i \in Nat BY <2>1
  <2>6. a # i - 1 BY <1>2, <2>4, <2>5 DEF RootBefore
  <2>7. QED BY <2>2, <2>3, <2>5, <2>6
<1>3. QED BY <1>1, <1>2 DEF ForkExplained

(* Communities find their names as long as the 16 bits of an ID last, and  *)
(* what an avatar approves is of two thirds of its members at the time,    *)
(* however many owners, keys and requests there are: x/vrg/namespace.go    *)
(* and x/vrg/community_avatar.go.                                          *)
THEOREM NamespacesAreSound == IdentitySpec => []NamespacesSound
<1>1. IdentityInit => NamesInv /\ AvatarInv BY NamesStart, AvatarStart DEF IdentityInit
<1>2. NamesInv /\ AvatarInv /\ [IdentityNext]_<<namesVars, avatarVars>> => NamesInv' /\ AvatarInv'
  BY NamesStep, AvatarStep DEF IdentityNext
<1>3. NamesInv /\ AvatarInv => NamespacesSound BY NamesFound, AvatarIs DEF NamespacesSound
<1>4. QED BY <1>1, <1>2, <1>3, PTL DEF IdentitySpec

-----------------------------------------------------------------------------
(* What is left of an inventory without an asset.                          *)
Singly(s, x) == \A j, k \in DOMAIN s : s[j] = x /\ s[k] = x => j = k

Fewer(s, t, a) ==
  /\ t \in Seq(Nat)
  /\ \A k \in DOMAIN t : t[k] # a /\ \E j \in DOMAIN s : s[j] = t[k]
  /\ \A b : Singly(s, b) => Singly(t, b)

Keeping(g, s, a, m) ==
  g = [i \in 0..m |-> IF i = 0 THEN <<>> ELSE IF s[i] = a THEN g[i - 1] ELSE Append(g[i - 1], s[i])]

LEMMA KeepingExists ==
  ASSUME NEW s \in Seq(Nat), NEW a, NEW n \in Nat
  PROVE  \E g : Keeping(g, s, a, n)
<1>. DEFINE Bad == {m \in 0..n : ~\E g : Keeping(g, s, a, m)}
<1>1. SUFFICES ASSUME Bad # {} PROVE FALSE
  <2>1. Bad = {} => n \notin Bad OBVIOUS
  <2>2. n \in 0..n OBVIOUS
  <2>3. QED BY <2>1, <2>2
<1>2. PICK m \in Bad : \A l \in Bad : m <= l
  <2>1. Bad \in SUBSET Nat OBVIOUS
  <2>. HIDE DEF Bad
  <2>2. QED BY <1>1, <2>1, SmallestNumber
<1>3. m \in 0..n /\ ~\E g : Keeping(g, s, a, m) OBVIOUS
<1>4. CASE m = 0
  <2>1. Keeping([i \in 0..0 |-> <<>>], s, a, m) BY <1>4 DEF Keeping
  <2>2. QED BY <1>3, <2>1
<1>5. CASE m # 0
  <2>1. m - 1 \in 0..n /\ m - 1 \notin Bad
    <3>1. m - 1 \in 0..n /\ ~(m <= m - 1) BY <1>3, <1>5
    <3>. HIDE DEF Bad
    <3>2. QED BY <1>2, <3>1
  <2>2. PICK g : Keeping(g, s, a, m - 1) BY <2>1
  <2>3. PICK h : h = [i \in 0..m |-> IF i = m THEN (IF s[m] = a THEN g[m - 1] ELSE Append(g[m - 1], s[m]))
                                     ELSE g[i]] OBVIOUS
  <2>4. ASSUME NEW i \in 0..m
        PROVE  h[i] = IF i = 0 THEN <<>> ELSE IF s[i] = a THEN h[i - 1] ELSE Append(h[i - 1], s[i])
    <3>1. CASE i = m BY <1>3, <1>5, <2>3, <3>1
    <3>2. CASE i # m
      <4>1. i \in 0..(m - 1) BY <1>3, <3>2
      <4>2. g[i] = IF i = 0 THEN <<>> ELSE IF s[i] = a THEN g[i - 1] ELSE Append(g[i - 1], s[i])
        BY <2>2, <4>1 DEF Keeping
      <4>3. h[i] = g[i] BY <2>3, <3>2
      <4>4. i # 0 => h[i - 1] = g[i - 1] BY <1>3, <2>3, <4>1
      <4>5. QED BY <4>2, <4>3, <4>4
    <3>3. QED BY <3>1, <3>2
  <2>5. Keeping(h, s, a, m) BY <2>3, <2>4 DEF Keeping
  <2>6. QED BY <1>3, <2>5
<1>6. QED BY <1>4, <1>5

\* What is kept of the first m of s.
FewerOf(s, t, a, m) ==
  /\ t \in Seq(Nat)
  /\ \A k \in DOMAIN t : t[k] # a /\ \E j \in 1..m : s[j] = t[k]
  /\ \A k, l \in DOMAIN t : k < l => \E i, j \in 1..m : i < j /\ s[i] = t[k] /\ s[j] = t[l]

LEMMA FewerGrows ==
  ASSUME NEW s \in Seq(Nat), NEW a, NEW m \in Nat, m + 1 \in DOMAIN s, NEW t, FewerOf(s, t, a, m), s[m + 1] # a
  PROVE  FewerOf(s, Append(t, s[m + 1]), a, m + 1)
<1>1. PICK x \in Nat : x = s[m + 1] OBVIOUS
<1>2. t \in Seq(Nat) BY DEF FewerOf
<1>3. PICK n \in Nat : n = Len(t) /\ DOMAIN t = 1..n BY <1>2
<1>4. PICK u : u = Append(t, x) OBVIOUS
<1>5. u \in Seq(Nat) /\ DOMAIN u = 1..(n + 1) /\ u[n + 1] = x /\ \A k \in 1..n : u[k] = t[k]
  BY <1>1, <1>2, <1>3, <1>4, AppendProperties
<1>6. ASSUME NEW k \in 1..(n + 1) PROVE u[k] # a /\ \E j \in 1..(m + 1) : s[j] = u[k]
  <2>1. CASE k = n + 1 BY <1>1, <1>5, <2>1
  <2>2. CASE k # n + 1
    <3>1. k \in DOMAIN t BY <1>3, <2>2
    <3>2. t[k] # a /\ \E j \in 1..m : s[j] = t[k] BY <3>1 DEF FewerOf
    <3>3. QED BY <1>3, <1>5, <3>1, <3>2
  <2>3. QED BY <2>1, <2>2
<1>7. ASSUME NEW k \in 1..(n + 1), NEW l \in 1..(n + 1), k < l
      PROVE  \E i, j \in 1..(m + 1) : i < j /\ s[i] = u[k] /\ s[j] = u[l]
  <2>0. k \in DOMAIN t /\ u[k] = t[k] BY <1>3, <1>5, <1>7
  <2>1. CASE l = n + 1 BY <1>1, <1>5, <2>0, <2>1 DEF FewerOf
  <2>2. CASE l # n + 1
    <3>1. l \in DOMAIN t /\ u[l] = t[l] BY <1>3, <1>5, <2>2
    <3>2. PICK i \in 1..m, j \in 1..m : i < j /\ s[i] = t[k] /\ s[j] = t[l] BY <1>7, <2>0, <3>1 DEF FewerOf
    <3>3. i \in 1..(m + 1) /\ j \in 1..(m + 1) OBVIOUS
    <3>4. QED BY <2>0, <3>1, <3>2, <3>3
  <2>3. QED BY <2>1, <2>2
<1>8. FewerOf(s, u, a, m + 1)
  <2>1. \A k \in DOMAIN u : u[k] # a /\ \E j \in 1..(m + 1) : s[j] = u[k] BY <1>5, <1>6
  <2>2. \A k, l \in DOMAIN u : k < l => \E i, j \in 1..(m + 1) : i < j /\ s[i] = u[k] /\ s[j] = u[l]
    <3>1. DOMAIN u = 1..(n + 1) BY <1>5
    <3>2. ASSUME NEW k \in DOMAIN u, NEW l \in DOMAIN u, k < l
          PROVE  \E i, j \in 1..(m + 1) : i < j /\ s[i] = u[k] /\ s[j] = u[l]
      <4>1. k \in 1..(n + 1) /\ l \in 1..(n + 1) BY <3>1
      <4>2. QED BY <1>7, <3>2, <4>1
    <3>3. QED BY <3>2
  <2>3. QED BY <1>5, <2>1, <2>2 DEF FewerOf
<1>9. QED BY <1>1, <1>4, <1>8

LEMMA FewerMore ==
  ASSUME NEW s, NEW a, NEW m \in Nat, NEW t, FewerOf(s, t, a, m) PROVE FewerOf(s, t, a, m + 1)
<1>1. \A j \in 1..m : j \in 1..(m + 1) OBVIOUS
<1>2. t \in Seq(Nat) BY DEF FewerOf
<1>3. ASSUME NEW k \in DOMAIN t PROVE t[k] # a /\ \E j \in 1..(m + 1) : s[j] = t[k]
  BY <1>1 DEF FewerOf
<1>4. ASSUME NEW k \in DOMAIN t, NEW l \in DOMAIN t, k < l
      PROVE  \E i, j \in 1..(m + 1) : i < j /\ s[i] = t[k] /\ s[j] = t[l] BY <1>1, <1>4 DEF FewerOf
<1>5. QED BY <1>2, <1>3, <1>4 DEF FewerOf

LEMMA OthersAre ==
  ASSUME NEW s \in Seq(Nat), NEW a PROVE Fewer(s, Others(s, a), a)
<1>1. PICK n \in Nat : n = Len(s) /\ DOMAIN s = 1..n OBVIOUS
<1>2. PICK g : g = CHOOSE h : Keeping(h, s, a, n) OBVIOUS
<1>3. Keeping(g, s, a, n) BY <1>2, KeepingExists
<1>4. Others(s, a) = g[n] BY <1>1, <1>2 DEF Others, Keeping
<1>5. g[0] = <<>> /\ \A i \in 1..n : g[i] = IF s[i] = a THEN g[i - 1] ELSE Append(g[i - 1], s[i])
  <2>1. \A i \in 0..n : g[i] = IF i = 0 THEN <<>> ELSE IF s[i] = a THEN g[i - 1] ELSE Append(g[i - 1], s[i])
    BY <1>3 DEF Keeping
  <2>2. 0 \in 0..n /\ \A i \in 1..n : i \in 0..n /\ i # 0 OBVIOUS
  <2>3. QED BY <2>1, <2>2
<1>6. \A i \in 0..n : FewerOf(s, g[i], a, i)
  <2>. DEFINE Bad == {i \in 0..n : ~FewerOf(s, g[i], a, i)}
  <2>1. SUFFICES ASSUME Bad # {} PROVE FALSE OBVIOUS
  <2>2. PICK m \in Bad : \A l \in Bad : m <= l
    <3>1. Bad \in SUBSET Nat OBVIOUS
    <3>. HIDE DEF Bad
    <3>2. QED BY <2>1, <3>1, SmallestNumber
  <2>3. m \in 0..n /\ ~FewerOf(s, g[m], a, m) OBVIOUS
  <2>4. CASE m = 0
    <3>1. FewerOf(s, <<>>, a, 0) BY DEF FewerOf
    <3>2. QED BY <1>5, <2>3, <2>4, <3>1
  <2>5. CASE m # 0
    <3>1. PICK i \in Nat : m = i + 1 BY <2>3, <2>5
    <3>2. i \in 0..n /\ i \notin Bad
      <4>1. i \in 0..n /\ ~(m <= i) BY <2>3, <3>1
      <4>. HIDE DEF Bad
      <4>2. QED BY <2>2, <4>1
    <3>3. FewerOf(s, g[i], a, i) BY <3>2
    <3>4. m \in 1..n /\ m - 1 = i BY <2>3, <3>1
    <3>5. g[m] = IF s[m] = a THEN g[i] ELSE Append(g[i], s[m]) BY <1>5, <3>4
    <3>6. FewerOf(s, g[m], a, m)
      <4>1. CASE s[m] = a BY <3>1, <3>3, <3>5, <4>1, FewerMore
      <4>2. CASE s[m] # a BY <1>1, <3>1, <3>3, <3>4, <3>5, <4>2, FewerGrows
      <4>3. QED BY <4>1, <4>2
    <3>7. QED BY <2>3, <3>6
  <2>6. QED BY <2>4, <2>5
<1>7. PICK t : t = g[n] OBVIOUS
<1>8. FewerOf(s, t, a, n) BY <1>6, <1>7
<1>9. t \in Seq(Nat) BY <1>8 DEF FewerOf
<1>10. \A k \in DOMAIN t : t[k] # a /\ \E j \in DOMAIN s : s[j] = t[k] BY <1>1, <1>8 DEF FewerOf
<1>11. ASSUME NEW b, Singly(s, b) PROVE Singly(t, b)
  <2>1. SUFFICES ASSUME NEW k \in DOMAIN t, NEW l \in DOMAIN t, t[k] = b, t[l] = b, k # l PROVE FALSE
    BY DEF Singly
  <2>2. DOMAIN t = 1..Len(t) /\ Len(t) \in Nat BY <1>9
  <2>3. CASE k < l
    <3>1. PICK i \in 1..n, j \in 1..n : i < j /\ s[i] = t[k] /\ s[j] = t[l] BY <1>8, <2>1, <2>3 DEF FewerOf
    <3>2. i = j BY <1>1, <1>11, <2>1, <3>1 DEF Singly
    <3>3. QED BY <3>1, <3>2
  <2>4. CASE l < k
    <3>1. PICK i \in 1..n, j \in 1..n : i < j /\ s[i] = t[l] /\ s[j] = t[k] BY <1>8, <2>1, <2>4 DEF FewerOf
    <3>2. i = j BY <1>1, <1>11, <2>1, <3>1 DEF Singly
    <3>3. QED BY <3>1, <3>2
  <2>5. QED BY <2>1, <2>2, <2>3, <2>4
<1>12. Fewer(s, t, a) BY <1>9, <1>10, <1>11 DEF Fewer
<1>13. QED BY <1>4, <1>7, <1>12

-----------------------------------------------------------------------------
(* Players as a function of their own, for the states between two changes. *)
Persons(ps) ==
  /\ DOMAIN ps \subseteq Players
  /\ ps = [p \in DOMAIN ps |-> ps[p]]
  /\ \A p \in DOMAIN ps : ps[p] \in [gold : Int, level : Int, xp : Int, inventory : Seq(Nat)]

TotalGold(ps) == SumFunction([p \in DOMAIN ps |-> ps[p].gold])

SameGold(ps, qs) == DOMAIN qs = DOMAIN ps /\ \A p \in DOMAIN ps : qs[p].gold = ps[p].gold
SameLevels(ps, qs) ==
  DOMAIN qs = DOMAIN ps /\ \A p \in DOMAIN ps : qs[p].level = ps[p].level /\ qs[p].xp = ps[p].xp
SameBags(ps, qs) == DOMAIN qs = DOMAIN ps /\ \A p \in DOMAIN ps : qs[p].inventory = ps[p].inventory

\* One player's gold has changed by d and nothing else.
Moved(ps, qs, p, d) ==
  Persons(qs) /\ SameLevels(ps, qs) /\ SameBags(ps, qs) /\ qs[p].gold = ps[p].gold + d /\ TotalGold(qs) = TotalGold(ps) + d

Numbers ==
  /\ {StartGold, MaxGold, MaxSlots, RegionLimit, MaxLevel, XPPerLevel, MonsterXP, MonsterGold, CraftCost,
       MallCost} \subseteq Nat
  /\ XPWidth \in Nat \ {0}
  /\ Prices \subseteq Nat /\ Gains \subseteq Nat /\ IsFiniteSet(Players)

LEMMA GameNumbers == Numbers
BY GameAssumption DEF Numbers

LEMMA PersonsFinite == ASSUME NEW ps, Persons(ps) PROVE IsFiniteSet(DOMAIN ps) /\ Cardinality(DOMAIN ps) \in Nat
BY GameNumbers, FS_Subset, FS_CardinalityType DEF Persons, Numbers

LEMMA TotalType == ASSUME NEW ps, Persons(ps) PROVE TotalGold(ps) \in Int
BY PersonsFinite, SumType DEF Persons, TotalGold, SumFunction

LEMMA TotalOf ==
  ASSUME NEW ps PROVE TotalGold(ps) = SumFunctionOnSet([p \in DOMAIN ps |-> ps[p].gold], DOMAIN ps)
BY DEF TotalGold, SumFunction

LEMMA SameGoldTotal ==
  ASSUME NEW ps, NEW qs, Persons(ps), SameGold(ps, qs) PROVE TotalGold(qs) = TotalGold(ps)
BY DEF SameGold, TotalGold

LEMMA GoldChanged ==
  ASSUME NEW ps, Persons(ps), NEW p \in DOMAIN ps, NEW n \in Int,
         NEW qs, qs = [ps EXCEPT ![p].gold = n]
  PROVE  Moved(ps, qs, p, n - ps[p].gold)
<1>1. PICK S : S = DOMAIN ps OBVIOUS
<1>2. DOMAIN qs = S BY <1>1
<1>3. ASSUME NEW q \in S
      PROVE  /\ qs[q] \in [gold : Int, level : Int, xp : Int, inventory : Seq(Nat)]
             /\ qs[q].level = ps[q].level /\ qs[q].xp = ps[q].xp /\ qs[q].inventory = ps[q].inventory
             /\ qs[q].gold = IF q = p THEN n ELSE ps[q].gold
  <2>1. PICK r \in [gold : Int, level : Int, xp : Int, inventory : Seq(Nat)] : r = ps[q] BY <1>1 DEF Persons
  <2>2. CASE q = p BY <1>1, <2>1, <2>2
  <2>3. CASE q # p BY <1>1, <2>1, <2>3
  <2>4. QED BY <2>2, <2>3
<1>4. Persons(qs)
  <2>1. qs = [q \in S |-> qs[q]] BY <1>1
  <2>2. S \subseteq Players BY <1>1 DEF Persons
  <2>3. QED BY <1>2, <1>3, <2>1, <2>2 DEF Persons
<1>5. SameLevels(ps, qs) /\ SameBags(ps, qs) BY <1>1, <1>2, <1>3 DEF SameLevels, SameBags
<1>6. PICK f, g : f = [q \in DOMAIN ps |-> ps[q].gold] /\ g = [q \in DOMAIN qs |-> qs[q].gold] OBVIOUS
<1>7. PICK old \in Int : old = ps[p].gold BY DEF Persons
<1>8. \A q \in S : f[q] \in Int BY <1>1, <1>6 DEF Persons
<1>9. \A q \in S \ {p} : g[q] = f[q] BY <1>1, <1>2, <1>3, <1>6
<1>10. g[p] = n /\ f[p] = old BY <1>1, <1>2, <1>3, <1>6, <1>7
<1>11. IsFiniteSet(S) /\ p \in S BY <1>1, PersonsFinite
<1>12. SumFunctionOnSet(g, S) = SumFunctionOnSet(f, S) - f[p] + g[p]
  BY <1>8, <1>9, <1>10, <1>11, SumChange
<1>13. PICK t \in Int : t = SumFunctionOnSet(f, S) BY <1>8, <1>11, SumType
<1>14. SumFunctionOnSet(g, S) = t + (n - old) BY <1>10, <1>12, <1>13
<1>15. TotalGold(ps) = t /\ TotalGold(qs) = SumFunctionOnSet(g, S) BY <1>1, <1>2, <1>6, <1>13, TotalOf
<1>16. qs[p].gold = old + (n - old) BY <1>1, <1>3, <1>7
<1>17. QED BY <1>4, <1>5, <1>7, <1>14, <1>15, <1>16 DEF Moved

LEMMA DebitIs ==
  ASSUME NEW ps, Persons(ps), NEW p \in DOMAIN ps, NEW n \in Int
  PROVE  Moved(ps, Debit(ps, p, n), p, -n)
<1>1. PICK old \in Int : old = ps[p].gold BY DEF Persons
<1>2. PICK k \in Int : k = old - n OBVIOUS
<1>3. PICK qs : qs = [ps EXCEPT ![p].gold = k] OBVIOUS
<1>4. Debit(ps, p, n) = qs BY <1>1, <1>2, <1>3 DEF Debit
<1>5. Moved(ps, qs, p, k - ps[p].gold) BY <1>3, GoldChanged
<1>6. k - ps[p].gold = -n BY <1>1, <1>2
<1>7. QED BY <1>4, <1>5, <1>6

LEMMA ExcessType == ASSUME NEW k \in Int PROVE Excess(k) \in Int BY GameNumbers DEF Numbers, Excess

LEMMA CreditIs ==
  ASSUME NEW ps, Persons(ps), NEW p \in DOMAIN ps, NEW n \in Int
  PROVE  Moved(ps, Credit(ps, p, n), p, n - Excess(ps[p].gold + n))
<1>1. PICK old \in Int : old = ps[p].gold BY DEF Persons
<1>2. PICK x \in Int : x = Excess(old + n) BY ExcessType
<1>3. PICK k \in Int : k = old + n - x OBVIOUS
<1>4. PICK qs : qs = [ps EXCEPT ![p].gold = k] OBVIOUS
<1>5. Credit(ps, p, n) = qs BY <1>1, <1>2, <1>3, <1>4 DEF Credit
<1>6. Moved(ps, qs, p, k - ps[p].gold) BY <1>4, GoldChanged
<1>7. k - ps[p].gold = n - x BY <1>1, <1>3
<1>8. QED BY <1>1, <1>2, <1>5, <1>6, <1>7

-----------------------------------------------------------------------------
(* Where an asset may be after a change: nowhere new, or with p now.       *)
Holds(ps, p, a) == p \in DOMAIN ps /\ \E i \in DOMAIN ps[p].inventory : ps[p].inventory[i] = a

NotMore(ps, qs, p, a) ==
  /\ Holds(qs, p, a) => Holds(ps, p, a)
  /\ Singly(ps[p].inventory, a) => Singly(qs[p].inventory, a)

Added(ps, qs, p, a) ==
  /\ \A r \in DOMAIN ps : \A b : r # p \/ b # a => NotMore(ps, qs, r, b)
  /\ ~Holds(ps, p, a) => Singly(qs[p].inventory, a)

Removed(ps, qs, p, a) ==
  (\A r \in DOMAIN ps : \A b : NotMore(ps, qs, r, b)) /\ ~Holds(qs, p, a)

SamePurse(ps, qs) == Persons(qs) /\ SameGold(ps, qs) /\ SameLevels(ps, qs)

BagSet(ps, qs, p, s) ==
  SamePurse(ps, qs) /\ qs[p].inventory = s /\ \A q \in DOMAIN ps \ {p} : qs[q] = ps[q]

LEMMA BagChanged ==
  ASSUME NEW ps, Persons(ps), NEW p \in DOMAIN ps, NEW s \in Seq(Nat)
  PROVE  BagSet(ps, [ps EXCEPT ![p].inventory = s], p, s)
<1>0. PICK qs : qs = [ps EXCEPT ![p].inventory = s] OBVIOUS
<1>1. PICK S : S = DOMAIN ps OBVIOUS
<1>2. DOMAIN qs = S BY <1>0, <1>1
<1>3. ASSUME NEW q \in S
      PROVE  /\ qs[q] \in [gold : Int, level : Int, xp : Int, inventory : Seq(Nat)]
             /\ qs[q].level = ps[q].level /\ qs[q].xp = ps[q].xp /\ qs[q].gold = ps[q].gold
             /\ qs[q].inventory = IF q = p THEN s ELSE ps[q].inventory
  <2>1. PICK r \in [gold : Int, level : Int, xp : Int, inventory : Seq(Nat)] : r = ps[q] BY <1>1 DEF Persons
  <2>2. CASE q = p BY <1>0, <1>1, <2>1, <2>2
  <2>3. CASE q # p BY <1>0, <1>1, <2>1, <2>3
  <2>4. QED BY <2>2, <2>3
<1>4. Persons(qs)
  <2>1. qs = [q \in S |-> qs[q]] BY <1>0, <1>1
  <2>2. S \subseteq Players BY <1>1 DEF Persons
  <2>3. QED BY <1>2, <1>3, <2>1, <2>2 DEF Persons
<1>5. SameLevels(ps, qs) /\ SameGold(ps, qs) BY <1>1, <1>2, <1>3 DEF SameLevels, SameGold
<1>6. qs[p].inventory = s BY <1>1, <1>3
<1>7. \A q \in DOMAIN ps \ {p} : qs[q] = ps[q] BY <1>0
<1>8. QED BY <1>0, <1>4, <1>5, <1>6, <1>7 DEF SamePurse, BagSet

LEMMA NotMoreSame ==
  ASSUME NEW ps, NEW qs, DOMAIN qs = DOMAIN ps, NEW p, qs[p].inventory = ps[p].inventory, NEW a
  PROVE  NotMore(ps, qs, p, a)
BY DEF NotMore, Holds

LEMMA AppendedIs ==
  ASSUME NEW ps, Persons(ps), NEW p \in DOMAIN ps, NEW a \in Nat, NEW qs,
         qs = [ps EXCEPT ![p].inventory = Append(@, a)]
  PROVE  SamePurse(ps, qs) /\ Added(ps, qs, p, a)
<1>1. PICK s \in Seq(Nat) : s = ps[p].inventory BY DEF Persons
<1>2. PICK t : t = Append(s, a) OBVIOUS
<1>3. PICK n \in Nat : n = Len(s) /\ DOMAIN s = 1..n OBVIOUS
<1>4. t \in Seq(Nat) /\ DOMAIN t = 1..(n + 1) /\ t[n + 1] = a /\ \A k \in 1..n : t[k] = s[k]
  BY <1>2, <1>3, AppendProperties
<1>5. qs = [ps EXCEPT ![p].inventory = t] BY <1>1, <1>2
<1>6. SamePurse(ps, qs) /\ qs[p].inventory = t /\ \A q \in DOMAIN ps \ {p} : qs[q] = ps[q]
  <2>0. t \in Seq(Nat) BY <1>4
  <2>1. BagSet(ps, [ps EXCEPT ![p].inventory = t], p, t) BY <2>0, BagChanged
  <2>3. BagSet(ps, qs, p, t) BY <1>5, <2>1
  <2>2. QED BY <2>3 DEF BagSet
<1>7. DOMAIN qs = DOMAIN ps BY <1>5
<1>8. ASSUME NEW b, b # a PROVE NotMore(ps, qs, p, b)
  <2>1. ASSUME NEW k \in 1..(n + 1), t[k] = b PROVE k \in 1..n /\ s[k] = b BY <1>4, <1>8, <2>1
  <2>2. Holds(qs, p, b) => Holds(ps, p, b) BY <1>1, <1>3, <1>4, <1>6, <1>7, <2>1 DEF Holds
  <2>3. Singly(s, b) => Singly(t, b) BY <1>3, <1>4, <2>1 DEF Singly
  <2>4. QED BY <1>1, <1>6, <2>2, <2>3 DEF NotMore
<1>9. ASSUME ~Holds(ps, p, a) PROVE Singly(t, a)
  <2>1. \A k \in 1..n : s[k] # a BY <1>1, <1>3, <1>9 DEF Holds
  <2>2. ASSUME NEW k \in 1..(n + 1), t[k] = a PROVE k = n + 1 BY <1>4, <2>1, <2>2
  <2>3. QED BY <1>4, <2>2 DEF Singly
<1>10. ASSUME NEW r \in DOMAIN ps, NEW b, r # p \/ b # a PROVE NotMore(ps, qs, r, b)
  <2>1. CASE r = p BY <1>8, <1>10, <2>1
  <2>2. CASE r # p BY <1>6, <1>7, <2>2, NotMoreSame
  <2>3. QED BY <2>1, <2>2
<1>11. QED BY <1>6, <1>9, <1>10 DEF Added

LEMMA TakenIs ==
  ASSUME NEW ps, Persons(ps), NEW p \in DOMAIN ps, NEW a \in Nat
  PROVE  SamePurse(ps, Taken(ps, p, a)) /\ Added(ps, Taken(ps, p, a), p, a)
<1>1. CASE Len(ps[p].inventory) < MaxSlots BY <1>1, AppendedIs DEF Taken
<1>2. CASE ~(Len(ps[p].inventory) < MaxSlots)
  BY <1>2 DEF Taken, SamePurse, SameGold, SameLevels, Added, NotMore, Singly, Holds
<1>3. QED BY <1>1, <1>2

LEMMA DroppedIs ==
  ASSUME NEW ps, Persons(ps), NEW p \in DOMAIN ps, NEW a
  PROVE  SamePurse(ps, Dropped(ps, p, a)) /\ Removed(ps, Dropped(ps, p, a), p, a)
<1>1. PICK s \in Seq(Nat) : s = ps[p].inventory BY DEF Persons
<1>2. PICK t : t = Others(s, a) OBVIOUS
<1>3. Fewer(s, t, a) BY <1>2, OthersAre
<1>4. t \in Seq(Nat) BY <1>3 DEF Fewer
<1>5. PICK qs : qs = [ps EXCEPT ![p].inventory = t] OBVIOUS
<1>6. Dropped(ps, p, a) = qs BY <1>1, <1>2, <1>5 DEF Dropped
<1>7. SamePurse(ps, qs) /\ qs[p].inventory = t /\ \A q \in DOMAIN ps \ {p} : qs[q] = ps[q]
  BY <1>4, <1>5, BagChanged DEF BagSet
<1>8. DOMAIN qs = DOMAIN ps BY <1>5
<1>9. ASSUME NEW b PROVE NotMore(ps, qs, p, b) BY <1>1, <1>3, <1>7, <1>8 DEF Holds, Fewer, NotMore
<1>10. ASSUME NEW r \in DOMAIN ps, NEW b PROVE NotMore(ps, qs, r, b)
  <2>1. CASE r = p BY <1>9, <2>1
  <2>2. CASE r # p BY <1>7, <1>8, <2>2, NotMoreSame
  <2>3. QED BY <2>1, <2>2
<1>11. ~Holds(qs, p, a) BY <1>3, <1>7 DEF Holds, Fewer
<1>12. QED BY <1>6, <1>7, <1>10, <1>11 DEF Removed

-----------------------------------------------------------------------------
(* Assets: what is known of each, and where the one that nobody traded     *)
(* while it was listed may be.                                             *)
Offers == [asset : Nat, seller : Players, price : Nat]

InOne(ps, own, ls, a) ==
  /\ \A p \in DOMAIN ps : Holds(ps, p, a) => p = own[a] /\ Singly(ps[p].inventory, a)
  /\ \A i, j \in DOMAIN ls : ls[i].asset = a /\ ls[j].asset = a => i = j
  /\ \A i \in DOMAIN ls : ls[i].asset = a => ls[i].seller = own[a] /\ \A p \in DOMAIN ps : ~Holds(ps, p, a)

AssetTypes(ps, own, ls, m) ==
  /\ m \in Nat /\ own = [a \in DOMAIN own |-> own[a]] /\ DOMAIN own \subseteq 1..m
  /\ \A p \in DOMAIN ps : \A b : Holds(ps, p, b) => b \in 1..m
  /\ ls \in Seq(Offers)
  /\ \A i \in DOMAIN ls : ls[i].asset \in DOMAIN own /\ ls[i].seller \in DOMAIN ps

Assets(ps, own, ls, cr, m) ==
  AssetTypes(ps, own, ls, m) /\ \A a \in DOMAIN own \ cr : InOne(ps, own, ls, a)

\* A list of offers that has none that was not there.
FewerOffers(ls, lt) ==
  /\ \A i \in DOMAIN lt : \E k \in DOMAIN ls : lt[i] = ls[k]
  /\ \A i, j \in DOMAIN lt : i # j => \E k, l \in DOMAIN ls : k # l /\ lt[i] = ls[k] /\ lt[j] = ls[l]

LEMMA SameOffers == ASSUME NEW ls PROVE FewerOffers(ls, ls)
BY DEF FewerOffers

LEMMA InOneKept ==
  ASSUME NEW ps, NEW qs, NEW own, NEW new, NEW ls, NEW lt, NEW b, InOne(ps, own, ls, b),
         FewerOffers(ls, lt), new[b] = own[b],
         \A r \in DOMAIN qs : Holds(qs, r, b) => r \in DOMAIN ps /\ NotMore(ps, qs, r, b)
  PROVE  InOne(qs, new, lt, b)
<1>1. ASSUME NEW r \in DOMAIN qs, Holds(qs, r, b)
      PROVE  r \in DOMAIN ps /\ Holds(ps, r, b) /\ r = new[b] /\ Singly(qs[r].inventory, b)
  BY <1>1 DEF NotMore, InOne
<1>2. ASSUME NEW i \in DOMAIN lt, NEW j \in DOMAIN lt, lt[i].asset = b, lt[j].asset = b, i # j PROVE FALSE
  BY <1>2 DEF FewerOffers, InOne
<1>3. ASSUME NEW i \in DOMAIN lt, lt[i].asset = b
      PROVE  lt[i].seller = new[b] /\ \A p \in DOMAIN qs : ~Holds(qs, p, b) BY <1>1, <1>3 DEF FewerOffers, InOne
<1>4. QED BY <1>1, <1>2, <1>3 DEF InOne

\* Nothing has gone to another inventory.
LEMMA AssetsSame ==
  ASSUME NEW ps, NEW qs, NEW own, NEW ls, NEW cr, NEW m, Assets(ps, own, ls, cr, m),
         DOMAIN ps \subseteq DOMAIN qs,
         \A r \in DOMAIN qs : \A b : Holds(qs, r, b) => r \in DOMAIN ps /\ NotMore(ps, qs, r, b)
  PROVE  Assets(qs, own, ls, cr, m)
<1>1. AssetTypes(ps, own, ls, m) BY DEF Assets
<1>2. ASSUME NEW r \in DOMAIN qs, NEW b, Holds(qs, r, b) PROVE b \in 1..m BY <1>1, <1>2 DEF NotMore, AssetTypes
<1>3. AssetTypes(qs, own, ls, m) BY <1>1, <1>2 DEF AssetTypes
<1>4. ASSUME NEW a \in DOMAIN own \ cr PROVE InOne(qs, own, ls, a) BY SameOffers, InOneKept DEF Assets
<1>5. QED BY <1>3, <1>4 DEF Assets

LEMMA AssetsBags ==
  ASSUME NEW ps, NEW qs, NEW own, NEW ls, NEW cr, NEW m, Assets(ps, own, ls, cr, m), SameBags(ps, qs)
  PROVE  Assets(qs, own, ls, cr, m)
BY NotMoreSame, AssetsSame DEF SameBags

\* Something new that belongs to p.
LEMMA AssetsNew ==
  ASSUME NEW ps, NEW qs, NEW own, NEW ls, NEW cr, NEW m, Assets(ps, own, ls, cr, m),
         DOMAIN qs = DOMAIN ps, NEW p \in DOMAIN ps, Added(ps, qs, p, m + 1),
         NEW new, new = [b \in DOMAIN own \cup {m + 1} |-> IF b = m + 1 THEN p ELSE own[b]]
  PROVE  Assets(qs, new, ls, cr, m + 1)
<1>1. AssetTypes(ps, own, ls, m) BY DEF Assets
<1>2. m \in Nat /\ m + 1 \notin 1..m /\ m + 1 \notin DOMAIN own BY <1>1 DEF AssetTypes
<1>3. ASSUME NEW r \in DOMAIN ps PROVE ~Holds(ps, r, m + 1) BY <1>1, <1>2 DEF AssetTypes
<1>4. ASSUME NEW r \in DOMAIN ps, NEW b, Holds(qs, r, b), r # p \/ b # m + 1 PROVE b \in 1..m
  BY <1>1, <1>4 DEF Added, NotMore, AssetTypes
<1>5. AssetTypes(qs, new, ls, m + 1) BY <1>1, <1>2, <1>4 DEF AssetTypes
<1>6. ASSUME NEW a \in DOMAIN new \ cr PROVE InOne(qs, new, ls, a)
  <2>1. CASE a = m + 1
    <3>1. new[a] = p BY <1>2, <2>1
    <3>2. ASSUME NEW r \in DOMAIN qs, Holds(qs, r, a) PROVE r = p
      <4>1. CASE r # p BY <1>2, <1>4, <2>1, <3>2, <4>1
      <4>2. QED BY <4>1
    <3>3. Singly(qs[p].inventory, a) BY <1>3, <2>1 DEF Added
    <3>4. \A i \in DOMAIN ls : ls[i].asset # a BY <1>1, <1>2, <2>1 DEF AssetTypes
    <3>5. QED BY <3>1, <3>2, <3>3, <3>4 DEF InOne
  <2>2. CASE a # m + 1 BY <2>2, SameOffers, InOneKept DEF Assets, Added
  <2>3. QED BY <2>1, <2>2
<1>7. QED BY <1>5, <1>6 DEF Assets

\* A trade that leaves the offers alone.
LEMMA AssetsTraded ==
  ASSUME NEW ps, NEW qs, NEW rs, NEW own, NEW ls, NEW cr, NEW m, Assets(ps, own, ls, cr, m),
         DOMAIN qs = DOMAIN ps, DOMAIN rs = DOMAIN ps, NEW p \in DOMAIN ps, NEW q \in DOMAIN ps,
         NEW a \in DOMAIN own, own[a] = p, Removed(ps, qs, p, a), Added(qs, rs, q, a),
         NEW cs, cs = IF \E i \in DOMAIN ls : ls[i].asset = a THEN cr \cup {a} ELSE cr
  PROVE  Assets(rs, [own EXCEPT ![a] = q], ls, cs, m)
<1>1. AssetTypes(ps, own, ls, m) BY DEF Assets
<1>2. PICK new : new = [own EXCEPT ![a] = q] OBVIOUS
<1>3. DOMAIN new = DOMAIN own /\ new[a] = q /\ \A b \in DOMAIN own \ {a} : new[b] = own[b] BY <1>2
<1>4. ASSUME NEW r \in DOMAIN ps, NEW b, Holds(rs, r, b), r # q \/ b # a
      PROVE  Holds(qs, r, b) /\ Holds(ps, r, b) BY <1>4 DEF Added, NotMore, Removed
<1>5. AssetTypes(rs, new, ls, m)
  <2>1. new = [b \in DOMAIN new |-> new[b]] BY <1>2
  <2>2. a \in 1..m BY <1>1 DEF AssetTypes
  <2>3. ASSUME NEW r \in DOMAIN rs, NEW b, Holds(rs, r, b) PROVE b \in 1..m
    <3>1. CASE r = q /\ b = a BY <2>2, <3>1
    <3>2. CASE r # q \/ b # a BY <1>1, <1>4, <2>3, <3>2 DEF AssetTypes
    <3>3. QED BY <3>1, <3>2
  <2>4. QED BY <1>1, <1>3, <2>1, <2>3 DEF AssetTypes
<1>6. ASSUME NEW b \in DOMAIN own \ cs PROVE InOne(rs, new, ls, b)
  <2>0. b \in DOMAIN own \ cr OBVIOUS
  <2>1. InOne(ps, own, ls, b) BY <2>0 DEF Assets
  <2>2. CASE b = a
    <3>1. \A i \in DOMAIN ls : ls[i].asset # a BY <2>2
    <3>2. ASSUME NEW r \in DOMAIN ps PROVE ~Holds(qs, r, a)
      <4>1. CASE r = p BY <4>1 DEF Removed
      <4>2. CASE r # p BY <2>1, <2>2, <4>2 DEF InOne, Removed, NotMore
      <4>3. QED BY <4>1, <4>2
    <3>3. ASSUME NEW r \in DOMAIN rs, Holds(rs, r, a) PROVE r = q BY <1>4, <3>2, <3>3
    <3>4. Singly(rs[q].inventory, a) BY <3>2 DEF Added
    <3>5. QED BY <1>3, <2>2, <3>1, <3>3, <3>4 DEF InOne
  <2>3. CASE b # a
    <3>1. ASSUME NEW r \in DOMAIN rs PROVE r \in DOMAIN ps /\ NotMore(ps, rs, r, b)
      BY <2>3 DEF Removed, Added, NotMore
    <3>2. new[b] = own[b] BY <1>3, <2>3
    <3>3. QED BY <2>1, <3>1, <3>2, SameOffers, InOneKept
  <2>4. QED BY <2>2, <2>3
<1>7. Assets(rs, new, ls, cs, m) BY <1>3, <1>5, <1>6 DEF Assets
<1>8. QED BY <1>2, <1>7

\* An asset goes from the inventory of its owner to the offers.
LEMMA AssetsListed ==
  ASSUME NEW ps, NEW qs, NEW own, NEW ls, NEW cr, NEW m, Assets(ps, own, ls, cr, m), Persons(ps),
         DOMAIN qs = DOMAIN ps, NEW p \in DOMAIN ps, NEW a \in DOMAIN own, own[a] = p,
         Holds(ps, p, a), Removed(ps, qs, p, a), NEW price \in Nat
  PROVE  Assets(qs, own, Append(ls, [asset |-> a, seller |-> p, price |-> price]), cr, m)
<1>1. AssetTypes(ps, own, ls, m) BY DEF Assets
<1>2. a \in Nat /\ p \in Players BY <1>1 DEF AssetTypes, Persons
<1>3. PICK l \in Offers : l = [asset |-> a, seller |-> p, price |-> price] BY <1>2 DEF Offers
<1>4. l.asset = a /\ l.seller = p BY <1>3
<1>5. PICK lt : lt = Append(ls, l) OBVIOUS
<1>6. ls \in Seq(Offers) BY <1>1 DEF AssetTypes
<1>7. PICK n \in Nat : n = Len(ls) /\ DOMAIN ls = 1..n BY <1>6
<1>8. lt \in Seq(Offers) /\ DOMAIN lt = 1..(n + 1) /\ lt[n + 1] = l /\ \A k \in 1..n : lt[k] = ls[k]
  BY <1>5, <1>6, <1>7, AppendProperties
<1>9. ASSUME NEW k \in 1..(n + 1) PROVE k = n + 1 \/ k \in 1..n OBVIOUS
<1>10. ASSUME NEW r \in DOMAIN ps, NEW b PROVE NotMore(ps, qs, r, b) BY DEF Removed
<1>11. AssetTypes(qs, own, lt, m)
  <2>1. \A r \in DOMAIN qs : \A b : Holds(qs, r, b) => b \in 1..m BY <1>1, <1>10 DEF NotMore, AssetTypes
  <2>2. ASSUME NEW i \in DOMAIN lt PROVE lt[i].asset \in DOMAIN own /\ lt[i].seller \in DOMAIN qs
    <3>1. CASE i = n + 1 BY <1>4, <1>8, <3>1
    <3>2. CASE i \in 1..n BY <1>1, <1>7, <1>8, <3>2 DEF AssetTypes
    <3>3. QED BY <1>8, <1>9, <3>1, <3>2
  <2>3. QED BY <1>1, <1>8, <2>1, <2>2 DEF AssetTypes
<1>12. ASSUME NEW b \in DOMAIN own \ cr PROVE InOne(qs, own, lt, b)
  <2>1. InOne(ps, own, ls, b) BY DEF Assets
  <2>2. ASSUME NEW r \in DOMAIN qs, Holds(qs, r, b)
        PROVE  Holds(ps, r, b) /\ r = own[b] /\ Singly(qs[r].inventory, b) BY <1>10, <2>1, <2>2 DEF NotMore, InOne
  <2>3. CASE b = a
    <3>1. \A i \in DOMAIN ls : ls[i].asset # a BY <2>1, <2>3 DEF InOne
    <3>2. ASSUME NEW k \in DOMAIN lt, lt[k].asset = a PROVE k = n + 1 BY <1>7, <1>8, <1>9, <3>1, <3>2
    <3>3. ASSUME NEW r \in DOMAIN qs PROVE ~Holds(qs, r, a) BY <2>2, <2>3 DEF Removed
    <3>4. QED BY <1>4, <1>8, <2>3, <3>2, <3>3 DEF InOne
  <2>4. CASE b # a
    <3>1. ASSUME NEW k \in DOMAIN lt, lt[k].asset = b PROVE k \in DOMAIN ls /\ lt[k] = ls[k]
      BY <1>4, <1>7, <1>8, <1>9, <2>4, <3>1
    <3>2. ASSUME NEW i \in DOMAIN lt, lt[i].asset = b
          PROVE  lt[i].seller = own[b] /\ \A r \in DOMAIN qs : ~Holds(qs, r, b) BY <2>1, <2>2, <3>1, <3>2 DEF InOne
    <3>3. ASSUME NEW i \in DOMAIN lt, NEW j \in DOMAIN lt, lt[i].asset = b, lt[j].asset = b PROVE i = j
      BY <2>1, <3>1, <3>3 DEF InOne
    <3>4. QED BY <2>2, <3>2, <3>3 DEF InOne
  <2>5. QED BY <2>3, <2>4
<1>13. QED BY <1>3, <1>5, <1>11, <1>12 DEF Assets

LEMMA FewerAfterRemoval ==
  ASSUME NEW ls \in Seq(Offers), NEW i \in DOMAIN ls, NEW lt, Shortened(ls, lt, i, Offers)
  PROVE  /\ FewerOffers(ls, lt)
         /\ \A b : (b = ls[i].asset /\ \A j, k \in DOMAIN ls : ls[j].asset = b /\ ls[k].asset = b => j = k)
                     => \A k \in DOMAIN lt : lt[k].asset # b
<1>1. PICK n \in Nat : n = Len(ls) /\ DOMAIN ls = 1..n OBVIOUS
<1>2. n - 1 \in Nat /\ i \in 1..n BY <1>1
<1>3. DOMAIN lt = 1..(n - 1) /\ \A k \in 1..(n - 1) : lt[k] = ls[IF k < i THEN k ELSE k + 1]
  BY <1>1, <1>2 DEF Shortened
<1>4. ASSUME NEW k \in 1..(n - 1)
      PROVE  (IF k < i THEN k ELSE k + 1) \in 1..n /\ (IF k < i THEN k ELSE k + 1) # i
  BY <1>2
<1>5. ASSUME NEW k \in 1..(n - 1), NEW l \in 1..(n - 1), k # l
      PROVE  (IF k < i THEN k ELSE k + 1) # (IF l < i THEN l ELSE l + 1)
  BY <1>2, <1>5
<1>6. \A k \in DOMAIN lt : \E j \in DOMAIN ls : j # i /\ lt[k] = ls[j] BY <1>1, <1>3, <1>4
<1>7. ASSUME NEW k \in DOMAIN lt, NEW l \in DOMAIN lt, k # l
      PROVE  \E g, h \in DOMAIN ls : g # h /\ lt[k] = ls[g] /\ lt[l] = ls[h]
  <2>1. k \in 1..(n - 1) /\ l \in 1..(n - 1) BY <1>3
  <2>2. PICK g, h : g = (IF k < i THEN k ELSE k + 1) /\ h = (IF l < i THEN l ELSE l + 1) OBVIOUS
  <2>3. g \in DOMAIN ls /\ h \in DOMAIN ls /\ g # h BY <1>1, <1>4, <1>5, <1>7, <2>1, <2>2
  <2>4. lt[k] = ls[g] /\ lt[l] = ls[h] BY <1>3, <2>1, <2>2
  <2>5. QED BY <2>3, <2>4
<1>8. FewerOffers(ls, lt) BY <1>6, <1>7 DEF FewerOffers
<1>9. ASSUME NEW b, b = ls[i].asset, \A j, k \in DOMAIN ls : ls[j].asset = b /\ ls[k].asset = b => j = k,
             NEW k \in DOMAIN lt PROVE lt[k].asset # b
  BY <1>6, <1>9
<1>10. QED BY <1>8, <1>9

\* An offer goes away, and its asset to the buyer, or back.
LEMMA AssetsUnlisted ==
  ASSUME NEW ps, NEW qs, NEW own, NEW ls, NEW cr, NEW m, Assets(ps, own, ls, cr, m),
         DOMAIN qs = DOMAIN ps, NEW p \in DOMAIN ps, NEW i \in DOMAIN ls,
         NEW a, a = ls[i].asset, Added(ps, qs, p, a), NEW lt, Shortened(ls, lt, i, Offers),
         NEW new, new = [own EXCEPT ![a] = p] \/ (new = own /\ p = ls[i].seller)
  PROVE  Assets(qs, new, lt, cr, m)
<1>1. AssetTypes(ps, own, ls, m) BY DEF Assets
<1>2. a \in DOMAIN own /\ a \in 1..m /\ ls \in Seq(Offers) BY <1>1 DEF AssetTypes
<1>3. PICK own2 : own2 = new OBVIOUS
<1>4. DOMAIN own2 = DOMAIN own /\ own2 = [b \in DOMAIN own2 |-> own2[b]] /\ \A b \in DOMAIN own \ {a} : own2[b] = own[b]
  BY <1>1, <1>3 DEF AssetTypes
<1>5. FewerOffers(ls, lt) BY <1>2, FewerAfterRemoval
<1>6. ASSUME NEW r \in DOMAIN ps, NEW b, Holds(qs, r, b), r # p \/ b # a PROVE Holds(ps, r, b)
  BY <1>6 DEF Added, NotMore
<1>7. AssetTypes(qs, own2, lt, m)
  <2>1. ASSUME NEW r \in DOMAIN qs, NEW b, Holds(qs, r, b) PROVE b \in 1..m
    <3>1. CASE r = p /\ b = a BY <1>2, <3>1
    <3>2. CASE r # p \/ b # a BY <1>1, <1>6, <2>1, <3>2 DEF AssetTypes
    <3>3. QED BY <3>1, <3>2
  <2>2. lt \in Seq(Offers) BY DEF Shortened
  <2>3. \A k \in DOMAIN lt : lt[k].asset \in DOMAIN own /\ lt[k].seller \in DOMAIN ps
    BY <1>1, <1>5 DEF FewerOffers, AssetTypes
  <2>4. QED BY <1>1, <1>4, <2>1, <2>2, <2>3 DEF AssetTypes
<1>8. ASSUME NEW b \in DOMAIN own \ cr PROVE InOne(qs, own2, lt, b)
  <2>1. InOne(ps, own, ls, b) BY DEF Assets
  <2>2. CASE b = a
    <3>1. \A r \in DOMAIN ps : ~Holds(ps, r, a) BY <2>1, <2>2 DEF InOne
    <3>2. ls[i].seller = own[a] BY <2>1, <2>2 DEF InOne
    <3>3. own2[a] = p BY <1>2, <1>3, <3>2
    <3>4. ASSUME NEW r \in DOMAIN qs, Holds(qs, r, a) PROVE r = p BY <1>6, <3>1, <3>4
    <3>5. Singly(qs[p].inventory, a) BY <3>1 DEF Added
    <3>6. \A j, k \in DOMAIN ls : ls[j].asset = a /\ ls[k].asset = a => j = k BY <2>1, <2>2 DEF InOne
    <3>7. \A k \in DOMAIN lt : lt[k].asset # a BY <1>2, <3>6, FewerAfterRemoval
    <3>8. QED BY <2>2, <3>3, <3>4, <3>5, <3>7 DEF InOne
  <2>3. CASE b # a BY <1>4, <1>5, <2>1, <2>3, InOneKept DEF Added
  <2>4. QED BY <2>2, <2>3
<1>9. QED BY <1>3, <1>4, <1>7, <1>8 DEF Assets

-----------------------------------------------------------------------------
(* Gold and levels.                                                        *)
Balanced(ps, e, s, c) ==
  e \in Int /\ s \in Int /\ c \in Int /\ TotalGold(ps) + s + c = StartGold * Cardinality(DOMAIN ps) + e

Leveled(ps, gn) ==
  /\ gn = [p \in Players |-> gn[p]]
  /\ \A p \in Players : gn[p] \in Int /\ (p \notin DOMAIN ps => gn[p] = 0)
  /\ \A p \in DOMAIN ps :
       gn[p] % XPWidth = (ps[p].xp + ((XPPerLevel * ps[p].level * (ps[p].level - 1)) \div 2)) % XPWidth

LEMMA LeveledSame ==
  ASSUME NEW ps, NEW qs, NEW gn, Leveled(ps, gn), SameLevels(ps, qs) PROVE Leveled(qs, gn)
BY DEF Leveled, SameLevels

LEMMA BalancedSame ==
  ASSUME NEW ps, NEW qs, NEW e, NEW s, NEW c, Persons(ps), Balanced(ps, e, s, c), SameGold(ps, qs)
  PROVE  Balanced(qs, e, s, c)
BY SameGoldTotal DEF SameGold, Balanced

LEMMA BalancedMoved ==
  ASSUME NEW ps, NEW qs, NEW e, NEW s, NEW c, Persons(ps), Balanced(ps, e, s, c),
         NEW p, NEW d \in Int, Moved(ps, qs, p, d),
         NEW f \in Int, NEW t \in Int, NEW g \in Int, (t - s) + (g - c) + d = f - e
  PROVE  Balanced(qs, f, t, g)
<1>1. DOMAIN qs = DOMAIN ps BY DEF Moved, SameLevels
<1>2. PICK k \in Int : k = TotalGold(ps) BY TotalType
<1>3. PICK w \in Int : w = StartGold * Cardinality(DOMAIN ps) BY GameNumbers, PersonsFinite DEF Numbers
<1>4. TotalGold(qs) = k + d BY <1>2 DEF Moved
<1>5. e \in Int /\ s \in Int /\ c \in Int /\ k + s + c = w + e BY <1>2, <1>3 DEF Balanced
<1>6. k + d + t + g = w + f BY <1>5
<1>7. QED BY <1>1, <1>3, <1>4, <1>6 DEF Balanced

(* A player that is seen for the first time.                               *)
NewPlayer == [gold |-> StartGold, level |-> 1, xp |-> 0, inventory |-> <<>>]

LEMMA EnsuredIs ==
  ASSUME Persons(players), NEW p \in Players, NEW qs, qs = Ensured(p)
  PROVE  /\ Persons(qs) /\ DOMAIN qs = DOMAIN players \cup {p}
         /\ \A q \in DOMAIN players : qs[q] = players[q]
         /\ p \notin DOMAIN players => qs[p] = NewPlayer
<1>1. DOMAIN qs = DOMAIN players \cup {p} BY DEF Ensured
<1>2. \A q \in DOMAIN players : qs[q] = players[q] BY DEF Ensured
<1>3. p \notin DOMAIN players => qs[p] = NewPlayer BY DEF Ensured, NewPlayer
<1>4. NewPlayer \in [gold : Int, level : Int, xp : Int, inventory : Seq(Nat)] BY GameNumbers DEF Numbers, NewPlayer
<1>5. qs = [q \in DOMAIN qs |-> qs[q]] BY DEF Ensured
<1>6. \A q \in DOMAIN qs : qs[q] \in [gold : Int, level : Int, xp : Int, inventory : Seq(Nat)]
  BY <1>1, <1>2, <1>3, <1>4 DEF Persons
<1>7. Persons(qs) BY <1>1, <1>5, <1>6 DEF Persons
<1>8. QED BY <1>1, <1>2, <1>3, <1>7

LEMMA EnsuredBalanced ==
  ASSUME Persons(players), NEW p \in Players, NEW e, NEW s, NEW c, Balanced(players, e, s, c)
  PROVE  Balanced(Ensured(p), e, s, c)
<1>0. PICK qs : qs = Ensured(p) OBVIOUS
<1>1. /\ Persons(qs) /\ DOMAIN qs = DOMAIN players \cup {p}
      /\ \A q \in DOMAIN players : qs[q] = players[q]
      /\ p \notin DOMAIN players => qs[p] = NewPlayer
  BY <1>0, EnsuredIs
<1>2. CASE p \in DOMAIN players BY <1>0, <1>1, <1>2, BalancedSame DEF SameGold
<1>3. CASE p \notin DOMAIN players
  <2>1. PICK S : S = DOMAIN players OBVIOUS
  <2>2. IsFiniteSet(S) /\ p \notin S /\ DOMAIN qs = S \cup {p} BY <1>1, <1>3, <2>1, PersonsFinite
  <2>3. PICK f : f = [q \in DOMAIN players |-> players[q].gold] OBVIOUS
  <2>4. PICK g : g = [q \in DOMAIN qs |-> qs[q].gold] OBVIOUS
  <2>5. PICK start \in Nat : start = StartGold BY GameNumbers DEF Numbers
  <2>6. g[p] = start BY <1>1, <1>3, <2>4, <2>5 DEF NewPlayer
  <2>7. \A q \in S : g[q] = f[q] BY <1>1, <2>1, <2>3, <2>4
  <2>8. \A q \in S : f[q] \in Int BY <2>1, <2>3 DEF Persons
  <2>9. \A q \in S \cup {p} : g[q] \in Int BY <2>5, <2>6, <2>7, <2>8
  <2>10. SumFunctionOnSet(g, S \cup {p}) = g[p] + SumFunctionOnSet(g, S) BY <2>2, <2>9, SumAdd
  <2>11. SumFunctionOnSet(g, S) = SumFunctionOnSet(f, S) BY <2>2, <2>7, SumSame
  <2>12. TotalGold(qs) = start + TotalGold(players)
    BY <2>1, <2>2, <2>3, <2>4, <2>6, <2>10, <2>11, TotalOf
  <2>13. PICK k \in Int, n \in Nat : k = TotalGold(players) /\ n = Cardinality(S)
    BY <2>1, TotalType, PersonsFinite
  <2>14. Cardinality(DOMAIN qs) = n + 1 BY <2>2, <2>13, FS_AddElement
  <2>15. e \in Int /\ s \in Int /\ c \in Int /\ k + s + c = start * n + e
    BY <2>1, <2>5, <2>13 DEF Balanced
  <2>16. start * (n + 1) = start * n + start OBVIOUS
  <2>17. PICK w \in Int, v \in Int : w = start * n /\ v = start * (n + 1) OBVIOUS
  <2>18. start + k + s + c = v + e BY <2>15, <2>16, <2>17
  <2>19. QED BY <1>0, <2>5, <2>12, <2>13, <2>14, <2>15, <2>17, <2>18 DEF Balanced
<1>4. QED BY <1>2, <1>3

LEMMA EnsuredLeveled ==
  ASSUME Persons(players), NEW p \in Players, NEW gn, Leveled(players, gn)
  PROVE  Leveled(Ensured(p), gn)
<1>0. PICK qs : qs = Ensured(p) OBVIOUS
<1>1. /\ Persons(qs) /\ DOMAIN qs = DOMAIN players \cup {p}
      /\ \A q \in DOMAIN players : qs[q] = players[q]
      /\ p \notin DOMAIN players => qs[p] = NewPlayer
  BY <1>0, EnsuredIs
<1>2. ASSUME NEW q \in DOMAIN qs
      PROVE  gn[q] % XPWidth
               = (qs[q].xp + ((XPPerLevel * qs[q].level * (qs[q].level - 1)) \div 2)) % XPWidth
  <2>1. CASE q \in DOMAIN players BY <1>1, <2>1 DEF Leveled
  <2>2. CASE q \notin DOMAIN players BY <1>1, <2>2, GameNumbers DEF Leveled, NewPlayer, Numbers
  <2>3. QED BY <2>1, <2>2
<1>3. \A q \in Players : gn[q] \in Int /\ (q \notin DOMAIN qs => gn[q] = 0) BY <1>1 DEF Leveled
<1>4. gn = [q \in Players |-> gn[q]] BY DEF Leveled
<1>5. QED BY <1>0, <1>2, <1>3, <1>4 DEF Leveled

LEMMA EnsuredAssets ==
  ASSUME Persons(players), NEW p \in Players, NEW own, NEW ls, NEW cr, NEW m,
         Assets(players, own, ls, cr, m)
  PROVE  Assets(Ensured(p), own, ls, cr, m)
<1>0. PICK qs : qs = Ensured(p) OBVIOUS
<1>1. /\ Persons(qs) /\ DOMAIN qs = DOMAIN players \cup {p}
      /\ \A q \in DOMAIN players : qs[q] = players[q]
      /\ p \notin DOMAIN players => qs[p] = NewPlayer
  BY <1>0, EnsuredIs
<1>2. ASSUME NEW r \in DOMAIN qs, NEW b, Holds(qs, r, b) PROVE r \in DOMAIN players /\ NotMore(players, qs, r, b)
  <2>1. r \in DOMAIN players
    <3>1. CASE r \notin DOMAIN players BY <1>1, <1>2, <3>1 DEF NewPlayer, Holds
    <3>2. QED BY <3>1
  <2>2. qs[r].inventory = players[r].inventory BY <1>1, <2>1
  <2>3. NotMore(players, qs, r, b) BY <2>1, <2>2 DEF NotMore, Holds
  <2>4. QED BY <2>1, <2>3
<1>3. QED BY <1>0, <1>1, <1>2, AssetsSame

(* A gain of XP, with one level for it at most.                            *)
LEMMA HalfStep ==
  ASSUME NEW a \in Int, NEW l \in Int
  PROVE  (a * (l + 1) * ((l + 1) - 1)) \div 2 = ((a * l * (l - 1)) \div 2) + l * a
OBVIOUS

LEMMA RestAfterGain ==
  ASSUME NEW w \in Nat, w # 0, NEW g \in Int, NEW y \in Int, NEW h \in Int, NEW n \in Int, NEW x \in Int,
         g % w = (y + h) % w, x = (y + n) % w
  PROVE  (g + n) % w = (x + h) % w
<1>1. PICK u \in Int : u = y + h OBVIOUS
<1>2. PICK v \in Int : v = y + n OBVIOUS
<1>3. ((g % w) + n) % w = (g + n) % w BY RestOfSum
<1>4. ((u % w) + n) % w = (u + n) % w BY RestOfSum
<1>5. ((v % w) + h) % w = (v + h) % w BY RestOfSum
<1>6. u + n = v + h BY <1>1, <1>2
<1>7. g % w = u % w /\ x = v % w BY <1>1, <1>2
<1>8. QED BY <1>3, <1>4, <1>5, <1>6, <1>7

LEMMA RaisedIs ==
  ASSUME NEW ps, Persons(ps), NEW p \in DOMAIN ps, NEW n \in Int, NEW gn, Leveled(ps, gn),
         NEW qs, qs = [ps EXCEPT ![p] = Raised(@, n)]
  PROVE  Persons(qs) /\ SameGold(ps, qs) /\ SameBags(ps, qs) /\ Leveled(qs, [gn EXCEPT ![p] = @ + n])
<1>1. PICK S : S = DOMAIN ps OBVIOUS
<1>2. DOMAIN qs = S /\ S \subseteq Players BY <1>1 DEF Persons
<1>3. XPPerLevel \in Nat /\ MaxLevel \in Nat BY GameNumbers DEF Numbers
<1>4. PICK one \in [gold : Int, level : Int, xp : Int, inventory : Seq(Nat)] : one = ps[p] BY DEF Persons
<1>5. PICK l \in Int, x \in Int, less \in Int :
        l = one.level /\ x = (one.xp + n) % XPWidth /\ less = l * XPPerLevel
  <2>1. (one.xp + n) % XPWidth \in Int BY GameNumbers, DivisionWithRest DEF Numbers
  <2>2. QED BY <1>3, <2>1
<1>6. PICK two : two = Raised(one, n) OBVIOUS
<1>7. two = (IF x >= less /\ l < MaxLevel THEN [one EXCEPT !.level = @ + 1, !.xp = x - less] ELSE [one EXCEPT !.xp = x])
  BY <1>5, <1>6 DEF Raised
<1>8. two \in [gold : Int, level : Int, xp : Int, inventory : Seq(Nat)]
      /\ two.gold = one.gold /\ two.inventory = one.inventory
  <2>1. l + 1 \in Int /\ x - less \in Int OBVIOUS
  <2>2. CASE x >= less /\ l < MaxLevel BY <1>5, <1>7, <2>1, <2>2
  <2>3. CASE ~(x >= less /\ l < MaxLevel) BY <1>7, <2>3
  <2>4. QED BY <2>2, <2>3
<1>9. qs[p] = two /\ \A q \in S \ {p} : qs[q] = ps[q] BY <1>1, <1>4, <1>6
<1>10. Persons(qs) BY <1>1, <1>2, <1>8, <1>9 DEF Persons
<1>11. SameGold(ps, qs) /\ SameBags(ps, qs) BY <1>1, <1>2, <1>4, <1>8, <1>9 DEF SameGold, SameBags
<1>12. PICK new : new = [gn EXCEPT ![p] = @ + n] OBVIOUS
<1>13. PICK g \in Int : g = gn[p] BY <1>1, <1>2 DEF Leveled
<1>14. gn = [q \in Players |-> gn[q]] /\ p \in Players BY <1>1, <1>2 DEF Leveled
<1>15. new[p] = g + n /\ new = [q \in Players |-> new[q]] /\ \A q \in Players \ {p} : new[q] = gn[q]
  BY <1>12, <1>13, <1>14
<1>16. PICK h \in Int : h = (XPPerLevel * l * (l - 1)) \div 2 BY <1>3
<1>17. PICK u \in Int : u = (XPPerLevel * two.level * (two.level - 1)) \div 2 BY <1>3, <1>8
<1>18. two.xp + u = x + h
  <2>1. CASE x >= less /\ l < MaxLevel
    <3>1. two.level = l + 1 /\ two.xp = x - less BY <1>5, <1>7, <2>1
    <3>2. (XPPerLevel * (l + 1) * ((l + 1) - 1)) \div 2 = h + less BY <1>3, <1>5, <1>16, HalfStep
    <3>3. QED BY <1>17, <3>1, <3>2
  <2>2. CASE ~(x >= less /\ l < MaxLevel) BY <1>5, <1>7, <1>16, <1>17, <2>2
  <2>3. QED BY <2>1, <2>2
<1>19. (g + n) % XPWidth = (two.xp + u) % XPWidth
  <2>1. PICK w \in Nat \ {0} : w = XPWidth BY GameNumbers DEF Numbers
  <2>2. PICK y \in Int : y = one.xp OBVIOUS
  <2>3. g % w = (y + h) % w BY <1>4, <1>5, <1>13, <1>16, <2>1, <2>2 DEF Leveled
  <2>4. x = (y + n) % w BY <1>5, <2>1, <2>2
  <2>5. (g + n) % w = (x + h) % w BY <2>1, <2>3, <2>4, RestAfterGain
  <2>6. QED BY <1>18, <2>1, <2>5
<1>20. Leveled(qs, new)
  <2>1. \A q \in Players : new[q] \in Int /\ (q \notin DOMAIN qs => new[q] = 0)
    BY <1>1, <1>2, <1>15 DEF Leveled
  <2>2. ASSUME NEW q \in DOMAIN qs
        PROVE  new[q] % XPWidth
                 = (qs[q].xp + ((XPPerLevel * qs[q].level * (qs[q].level - 1)) \div 2)) % XPWidth
    <3>1. CASE q = p BY <1>9, <1>15, <1>17, <1>19, <3>1
    <3>2. CASE q # p BY <1>1, <1>2, <1>9, <1>15, <3>2 DEF Leveled
    <3>3. QED BY <3>1, <3>2
  <2>3. QED BY <1>15, <2>1, <2>2 DEF Leveled
<1>21. QED BY <1>10, <1>11, <1>12, <1>20

-----------------------------------------------------------------------------
(* What was less, and who is where.                                        *)
Paid(own, m, v) == DOMAIN own = (1..m) \ v /\ v \subseteq 1..m

Placed(rs) ==
  /\ rs = [r \in DOMAIN rs |-> rs[r]]
  /\ \A r \in DOMAIN rs :
       /\ rs[r] \in Seq(Players) /\ Len(rs[r]) <= RegionLimit
       /\ \A i, j \in DOMAIN rs[r] : rs[r][i] = rs[r][j] => i = j

GameInv ==
  /\ Persons(players)
  /\ Balanced(players, earned, spent, capped)
  /\ Leveled(players, gained)
  /\ Assets(players, owner, listings, crossed, made)
  /\ Paid(owner, made, vain)
  /\ Placed(regions)

LEMMA GameStart == GameInit => GameInv
<1>1. SUFFICES ASSUME GameInit PROVE GameInv OBVIOUS
<1>2. players = <<>> /\ owner = <<>> /\ listings = <<>> /\ regions = <<>> /\ crossed = {}
      /\ earned = 0 /\ spent = 0 /\ capped = 0 /\ vain = {} /\ made = 0 /\ gained = [p \in Players |-> 0]
  BY <1>1 DEF GameInit
<1>3. DOMAIN <<>> = {} /\ <<>> = [x \in {} |-> x] OBVIOUS
<1>4. Persons(players) BY <1>2, <1>3 DEF Persons
<1>5. StartGold \in Nat BY GameNumbers DEF Numbers
<1>6. Balanced(players, earned, spent, capped)
  <2>1. TotalGold(players) = 0 BY <1>2, <1>3, SumEmpty, TotalOf
  <2>2. Cardinality(DOMAIN players) = 0 BY <1>2, <1>3, FS_EmptySet
  <2>3. StartGold * 0 = 0 BY <1>5
  <2>4. QED BY <1>2, <2>1, <2>2, <2>3 DEF Balanced
<1>7. Leveled(players, gained) BY <1>2, <1>3 DEF Leveled
<1>8. Assets(players, owner, listings, crossed, made) BY <1>2, <1>3 DEF AssetTypes, Assets
<1>9. Paid(owner, made, vain) BY <1>2, <1>3 DEF Paid
<1>10. Placed(regions) BY <1>2, <1>3 DEF Placed
<1>11. QED BY <1>4, <1>6, <1>7, <1>8, <1>9, <1>10 DEF GameInv

-----------------------------------------------------------------------------
(* What each operation keeps.                                              *)
LEMMA AddKeepsGame == ASSUME GameInv, NEW p \in Players, AddPlayer(p) PROVE GameInv'
BY EnsuredIs, EnsuredBalanced, EnsuredLeveled, EnsuredAssets DEF AddPlayer, gameWorld, GameInv

LEMMA KillKeepsGame == ASSUME GameInv, NEW p \in Players, NEW n \in Gains, KillMonster(p, n) PROVE GameInv'
<1>1. PICK before : before = Ensured(p) OBVIOUS
<1>2. PICK xp : xp = IF n = 0 THEN before[p].level * MonsterXP ELSE n OBVIOUS
<1>3. PICK up : up = [before EXCEPT ![p] = Raised(@, xp)] OBVIOUS
<1>4. PICK gold : gold = up[p].level * MonsterGold OBVIOUS
<1>5. /\ players' = Credit(up, p, gold) /\ gained' = [gained EXCEPT ![p] = @ + xp]
      /\ earned' = earned + gold /\ capped' = capped + Excess(up[p].gold + gold)
      /\ UNCHANGED <<owner, listings, regions, spent, vain, made, crossed>>
  BY <1>1, <1>2, <1>3, <1>4 DEF KillMonster, gameWorld
<1>6. Persons(players) BY DEF GameInv
<1>7. Persons(before) /\ p \in DOMAIN before BY <1>1, <1>6, EnsuredIs
<1>8. Balanced(before, earned, spent, capped) BY <1>1, <1>6, EnsuredBalanced DEF GameInv
<1>9. Leveled(before, gained) BY <1>1, <1>6, EnsuredLeveled DEF GameInv
<1>10. Assets(before, owner, listings, crossed, made) BY <1>1, <1>6, EnsuredAssets DEF GameInv
<1>11. MonsterXP \in Nat /\ MonsterGold \in Nat /\ n \in Nat BY GameNumbers DEF Numbers
<1>12. xp \in Int BY <1>2, <1>7, <1>11 DEF Persons
<1>13. Persons(up) /\ SameGold(before, up) /\ SameBags(before, up) /\ Leveled(up, [gained EXCEPT ![p] = @ + xp])
  BY <1>3, <1>7, <1>9, <1>12, RaisedIs
<1>14. p \in DOMAIN up BY <1>7, <1>13 DEF SameGold
<1>15. gold \in Int BY <1>4, <1>11, <1>13, <1>14 DEF Persons
<1>16. PICK x \in Int : x = Excess(up[p].gold + gold) BY <1>13, <1>14, <1>15, ExcessType DEF Persons
<1>17. PICK qs : qs = Credit(up, p, gold) OBVIOUS
<1>18. Moved(up, qs, p, gold - x) BY <1>13, <1>14, <1>15, <1>16, <1>17, CreditIs
<1>19. Balanced(up, earned, spent, capped) BY <1>7, <1>8, <1>13, BalancedSame
<1>20. earned \in Int /\ spent \in Int /\ capped \in Int BY DEF GameInv, Balanced
<1>21. Balanced(qs, earned + gold, spent, capped + x)
  <2>1. PICK f \in Int, g \in Int, d \in Int : f = earned + gold /\ g = capped + x /\ d = gold - x
    BY <1>15, <1>20
  <2>2. (spent - spent) + (g - capped) + d = f - earned BY <1>15, <1>20, <2>1
  <2>3. Moved(up, qs, p, d) BY <1>18, <2>1
  <2>4. Balanced(qs, f, spent, g) BY <1>13, <1>19, <1>20, <2>2, <2>3, BalancedMoved
  <2>5. QED BY <2>1, <2>4
<1>22. Persons(qs) /\ SameLevels(up, qs) /\ SameBags(up, qs) BY <1>18 DEF Moved
<1>23. Leveled(qs, [gained EXCEPT ![p] = @ + xp]) BY <1>13, <1>22, LeveledSame
<1>24. Assets(up, owner, listings, crossed, made) BY <1>10, <1>13, AssetsBags
<1>25. Assets(qs, owner, listings, crossed, made) BY <1>22, <1>24, AssetsBags
<1>26. QED BY <1>5, <1>16, <1>17, <1>21, <1>22, <1>23, <1>25 DEF GameInv

LEMMA PayKeepsGame == ASSUME GameInv, NEW p \in Players, NEW cost \in Nat, Pay(p, cost) PROVE GameInv'
<1>1. PICK before : before = Ensured(p) OBVIOUS
<1>2. PICK a : a = made + 1 OBVIOUS
<1>3. UNCHANGED <<listings, regions, earned, capped, gained, crossed>> BY DEF Pay, gameWorld
<1>4. Persons(players) BY DEF GameInv
<1>5. Persons(before) /\ p \in DOMAIN before BY <1>1, <1>4, EnsuredIs
<1>6. Balanced(before, earned, spent, capped) BY <1>1, <1>4, EnsuredBalanced DEF GameInv
<1>7. Leveled(before, gained) BY <1>1, <1>4, EnsuredLeveled DEF GameInv
<1>8. Assets(before, owner, listings, crossed, made) BY <1>1, <1>4, EnsuredAssets DEF GameInv
<1>9. CASE before[p].gold >= cost
  <2>1. PICK ps : ps = Debit(before, p, cost) OBVIOUS
  <2>2. /\ made' = a /\ spent' = spent + cost
        /\ IF p \in Brief THEN players' = ps /\ vain' = vain \cup {a} /\ owner' = owner
           ELSE players' = Taken(ps, p, a) /\ owner' = Made(p, a) /\ vain' = vain
    <3>1. before[p].gold \in Int BY <1>5 DEF Persons
    <3>2. ~(before[p].gold < cost) BY <1>9, <3>1
    <3>3. QED BY <1>1, <1>2, <2>1, <3>2 DEF Pay
  <2>3. Moved(before, ps, p, -cost) BY <1>5, <2>1, DebitIs
  <2>4. Persons(ps) /\ SameLevels(before, ps) /\ SameBags(before, ps) BY <2>3 DEF Moved
  <2>5. p \in DOMAIN ps BY <1>5, <2>4 DEF SameLevels
  <2>6. made \in Nat /\ Paid(owner, made, vain) BY DEF GameInv, Assets, AssetTypes
  <2>7. a \in Nat /\ a \notin 1..made /\ 1..a = (1..made) \cup {a} BY <1>2, <2>6
  <2>8. earned \in Int /\ spent \in Int /\ capped \in Int BY DEF GameInv, Balanced
  <2>9. Balanced(ps, earned, spent + cost, capped)
    <3>1. PICK t \in Int, d \in Int : t = spent + cost /\ d = -cost BY <2>8
    <3>2. (t - spent) + (capped - capped) + d = earned - earned BY <2>8, <3>1
    <3>3. Moved(before, ps, p, d) BY <2>3, <3>1
    <3>4. Balanced(ps, earned, t, capped) BY <1>5, <1>6, <2>8, <3>1, <3>2, <3>3, BalancedMoved
    <3>5. QED BY <3>1, <3>4
  <2>10. Leveled(ps, gained) BY <1>7, <2>4, LeveledSame
  <2>11. Assets(ps, owner, listings, crossed, made) BY <1>8, <2>4, AssetsBags
  <2>12. CASE p \in Brief
    <3>1. Assets(ps, owner, listings, crossed, a)
      BY <1>2, <2>7, <2>11 DEF Assets, AssetTypes
    <3>2. Paid(owner, a, vain \cup {a}) BY <2>6, <2>7 DEF Paid
    <3>3. QED BY <1>3, <2>2, <2>4, <2>9, <2>10, <2>12, <3>1, <3>2 DEF GameInv
  <2>13. CASE p \notin Brief
    <3>1. PICK qs : qs = Taken(ps, p, a) OBVIOUS
    <3>2. SamePurse(ps, qs) /\ Added(ps, qs, p, a) BY <2>4, <2>5, <2>7, <3>1, TakenIs
    <3>3. Persons(qs) /\ SameGold(ps, qs) /\ SameLevels(ps, qs) BY <3>2 DEF SamePurse
    <3>4. Balanced(qs, earned, spent + cost, capped) BY <2>4, <2>9, <3>3, BalancedSame
    <3>5. Leveled(qs, gained) BY <2>10, <3>3, LeveledSame
    <3>6. DOMAIN qs = DOMAIN ps BY <3>3 DEF SameGold
    <3>7. PICK new : new = Made(p, a) OBVIOUS
    <3>8. new = [b \in DOMAIN owner \cup {made + 1} |-> IF b = made + 1 THEN p ELSE owner[b]]
      BY <1>2, <3>7 DEF Made
    <3>9. Assets(qs, new, listings, crossed, made + 1)
      BY <1>2, <2>5, <2>11, <3>2, <3>6, <3>8, AssetsNew
    <3>10. DOMAIN new = DOMAIN owner \cup {a} BY <1>2, <3>8
    <3>11. Paid(new, a, vain)
      <4>1. a \notin vain BY <2>6, <2>7 DEF Paid
      <4>2. QED BY <2>6, <2>7, <3>10, <4>1 DEF Paid
    <3>12. QED BY <1>2, <1>3, <2>2, <2>13, <3>1, <3>3, <3>4, <3>5, <3>7, <3>9, <3>11 DEF GameInv
  <2>14. QED BY <2>12, <2>13
<1>10. CASE ~(before[p].gold >= cost)
  BY <1>1, <1>3, <1>5, <1>6, <1>7, <1>8, <1>10 DEF Pay, GameInv
<1>11. QED BY <1>9, <1>10

LEMMA BuyingKeepsGame ==
  ASSUME GameInv, NEW p \in Players, NEW n \in Prices, CraftMaterial(p, n) \/ PurchaseMall(p, n) PROVE GameInv'
<1>1. n \in Nat /\ CraftCost \in Nat /\ MallCost \in Nat BY GameNumbers DEF Numbers
<1>2. PICK c \in Nat, d \in Nat : c = (IF n = 0 THEN CraftCost ELSE n) /\ d = IF n = 0 THEN MallCost ELSE n BY <1>1
<1>3. Pay(p, c) \/ Pay(p, d) BY <1>2 DEF CraftMaterial, PurchaseMall
<1>4. QED BY <1>3, PayKeepsGame

\* Gold that goes from q to p, who may be q.
LEMMA PurchaseIs ==
  ASSUME NEW ps, Persons(ps), NEW p \in DOMAIN ps, NEW q \in DOMAIN ps, NEW n \in Nat,
         NEW mid, mid = Debit(ps, q, n), NEW qs, qs = Credit(mid, p, n), NEW x, x = Excess(mid[p].gold + n),
         NEW e, NEW s, NEW c, Balanced(ps, e, s, c)
  PROVE  /\ Persons(qs) /\ SameLevels(ps, qs) /\ SameBags(ps, qs) /\ DOMAIN qs = DOMAIN ps
         /\ Balanced(qs, e, s, c + x)
<1>1. Moved(ps, mid, q, -n) BY DebitIs
<1>2. Persons(mid) /\ SameLevels(ps, mid) /\ SameBags(ps, mid) BY <1>1 DEF Moved
<1>3. p \in DOMAIN mid BY <1>2 DEF SameLevels
<1>4. Moved(mid, qs, p, n - x) BY <1>2, <1>3, CreditIs
<1>5. Persons(qs) /\ SameLevels(mid, qs) /\ SameBags(mid, qs) BY <1>4 DEF Moved
<1>6. SameLevels(ps, qs) /\ SameBags(ps, qs) /\ DOMAIN qs = DOMAIN ps BY <1>2, <1>5 DEF SameLevels, SameBags
<1>7. x \in Int BY <1>2, <1>3, ExcessType DEF Persons
<1>8. e \in Int /\ s \in Int /\ c \in Int BY DEF Balanced
<1>9. PICK d \in Int, k \in Int, g \in Int, h \in Int : d = -n /\ k = n - x /\ g = c + n /\ h = c + x
  BY <1>7, <1>8
<1>10. Balanced(mid, e, s, g)
  <2>1. (s - s) + (g - c) + d = e - e BY <1>8, <1>9
  <2>2. Moved(ps, mid, q, d) BY <1>1, <1>9
  <2>3. QED BY <1>8, <1>9, <2>1, <2>2, BalancedMoved
<1>11. Balanced(qs, e, s, h)
  <2>1. (s - s) + (h - g) + k = e - e BY <1>7, <1>8, <1>9
  <2>2. Moved(mid, qs, p, k) BY <1>4, <1>9
  <2>3. g \in Int /\ h \in Int /\ k \in Int OBVIOUS
  <2>4. Persons(mid) /\ Balanced(mid, e, s, g) BY <1>2, <1>10
  <2>5. QED BY <1>8, <2>1, <2>2, <2>3, <2>4, BalancedMoved
<1>12. QED BY <1>5, <1>6, <1>9, <1>11

LEMMA TradeKeepsGame ==
  ASSUME GameInv, NEW p \in Players, NEW q \in Players, NEW a, NEW price \in Prices, Trade(p, q, a, price)
  PROVE  GameInv'
<1>1. PICK before : before = Ensured(q) OBVIOUS
<1>2. p \in DOMAIN players /\ UNCHANGED <<listings, regions, earned, spent, vain, gained, made>>
  BY DEF Trade, gameWorld
<1>3. Persons(players) BY DEF GameInv
<1>4. Persons(before) /\ q \in DOMAIN before /\ p \in DOMAIN before BY <1>1, <1>2, <1>3, EnsuredIs
<1>5. Balanced(before, earned, spent, capped) BY <1>1, <1>3, EnsuredBalanced DEF GameInv
<1>6. Leveled(before, gained) BY <1>1, <1>3, EnsuredLeveled DEF GameInv
<1>7. Assets(before, owner, listings, crossed, made) BY <1>1, <1>3, EnsuredAssets DEF GameInv
<1>8. CASE a \in DOMAIN owner /\ owner[a] = p /\ before[q].gold >= price
  <2>1. PICK less : less = Debit(before, q, price) OBVIOUS
  <2>2. PICK ps : ps = Credit(less, p, price) OBVIOUS
  <2>3. PICK qs : qs = Dropped(ps, p, a) OBVIOUS
  <2>4. PICK rs : rs = Taken(qs, q, a) OBVIOUS
  <2>5. PICK x : x = Excess(less[p].gold + price) OBVIOUS
  <2>6. /\ players' = rs /\ owner' = [owner EXCEPT ![a] = q] /\ capped' = capped + x
        /\ crossed' = IF a \in Listed THEN crossed \cup {a} ELSE crossed
    BY <1>1, <1>8, <2>1, <2>2, <2>3, <2>4, <2>5 DEF Trade, Traded
  <2>7. price \in Nat BY GameNumbers DEF Numbers
  <2>8. /\ Persons(ps) /\ SameLevels(before, ps) /\ SameBags(before, ps) /\ DOMAIN ps = DOMAIN before
        /\ Balanced(ps, earned, spent, capped + x)
    BY <1>4, <1>5, <2>1, <2>2, <2>5, <2>7, PurchaseIs
  <2>9. made \in Nat /\ DOMAIN owner \subseteq 1..made BY DEF GameInv, Assets, AssetTypes
  <2>10. a \in Nat BY <1>8, <2>9
  <2>11. p \in DOMAIN ps /\ q \in DOMAIN ps BY <1>4, <2>8
  <2>12. SamePurse(ps, qs) /\ Removed(ps, qs, p, a) BY <2>3, <2>8, <2>11, DroppedIs
  <2>13. Persons(qs) /\ SameGold(ps, qs) /\ SameLevels(ps, qs) BY <2>12 DEF SamePurse
  <2>14. DOMAIN qs = DOMAIN ps BY <2>13 DEF SameGold
  <2>15. SamePurse(qs, rs) /\ Added(qs, rs, q, a) BY <2>4, <2>10, <2>11, <2>13, <2>14, TakenIs
  <2>16. Persons(rs) /\ SameGold(qs, rs) /\ SameLevels(qs, rs) BY <2>15 DEF SamePurse
  <2>17. DOMAIN rs = DOMAIN ps BY <2>14, <2>16 DEF SameGold
  <2>18. Balanced(qs, earned, spent, capped + x) BY <2>8, <2>13, BalancedSame
  <2>19. Balanced(rs, earned, spent, capped + x) BY <2>13, <2>16, <2>18, BalancedSame
  <2>20. Leveled(ps, gained) BY <1>6, <2>8, LeveledSame
  <2>21. Leveled(qs, gained) BY <2>13, <2>20, LeveledSame
  <2>22. Leveled(rs, gained) BY <2>16, <2>21, LeveledSame
  <2>23. Assets(ps, owner, listings, crossed, made) BY <1>7, <2>8, AssetsBags
  <2>24. a \in Listed <=> \E i \in DOMAIN listings : listings[i].asset = a BY DEF Listed
  <2>25. PICK cs : cs = IF \E i \in DOMAIN listings : listings[i].asset = a THEN crossed \cup {a} ELSE crossed
    OBVIOUS
  <2>26. Assets(rs, [owner EXCEPT ![a] = q], listings, cs, made)
    BY <1>8, <2>11, <2>12, <2>14, <2>15, <2>17, <2>23, <2>25, AssetsTraded
  <2>27. crossed' = cs BY <2>6, <2>24, <2>25
  <2>28. Paid(owner', made, vain) BY <2>6 DEF GameInv, Paid
  <2>29. QED BY <1>2, <2>6, <2>16, <2>19, <2>22, <2>26, <2>27, <2>28 DEF GameInv
<1>9. CASE ~(a \in DOMAIN owner /\ owner[a] = p /\ before[q].gold >= price)
  BY <1>1, <1>2, <1>4, <1>5, <1>6, <1>7, <1>9 DEF Trade, GameInv
<1>10. QED BY <1>8, <1>9

LEMMA ListKeepsGame ==
  ASSUME GameInv, NEW p \in Players, NEW a, NEW price \in Prices, ListMarketItem(p, a, price) PROVE GameInv'
<1>1. PICK qs : qs = Dropped(players, p, a) OBVIOUS
<1>2. /\ p \in DOMAIN players /\ MayList(p, a) /\ players' = qs
      /\ listings' = Append(listings, [asset |-> a, seller |-> p, price |-> price])
      /\ UNCHANGED <<owner, regions, earned, spent, capped, vain, gained, made, crossed>>
  BY <1>1 DEF ListMarketItem, gameWorld
<1>3. Persons(players) BY DEF GameInv
<1>4. SamePurse(players, qs) /\ Removed(players, qs, p, a) BY <1>1, <1>2, <1>3, DroppedIs
<1>5. Persons(qs) /\ SameGold(players, qs) /\ SameLevels(players, qs) BY <1>4 DEF SamePurse
<1>6. DOMAIN qs = DOMAIN players BY <1>5 DEF SameGold
<1>7. Balanced(qs, earned, spent, capped) BY <1>3, <1>5, BalancedSame DEF GameInv
<1>8. Leveled(qs, gained) BY <1>5, LeveledSame DEF GameInv
<1>9. a \in DOMAIN owner /\ owner[a] = p /\ Holds(players, p, a) BY <1>2 DEF MayList, Holds
<1>10. price \in Nat BY GameNumbers DEF Numbers
<1>11. Assets(players, owner, listings, crossed, made) BY DEF GameInv
<1>12. Assets(qs, owner, Append(listings, [asset |-> a, seller |-> p, price |-> price]), crossed, made)
  BY <1>2, <1>3, <1>4, <1>6, <1>9, <1>10, <1>11, AssetsListed
<1>13. QED BY <1>2, <1>5, <1>7, <1>8, <1>12 DEF GameInv

LEMMA FoundListing ==
  ASSUME listings \in Seq(Offers), NEW a \in Listed
  PROVE  FindListing(a) \in DOMAIN listings /\ listings[FindListing(a)].asset = a
<1>1. PICK n \in Nat : n = Len(listings) /\ DOMAIN listings = 1..n OBVIOUS
<1>2. PICK T : T = {i \in 1..n : listings[i].asset = a} OBVIOUS
<1>3. T \in SUBSET Nat /\ T # {} BY <1>1, <1>2 DEF Listed
<1>4. PICK i \in T : \A j \in T : i <= j BY <1>3, SmallestNumber
<1>5. i \in DOMAIN listings /\ listings[i].asset = a /\ \A j \in 1..i - 1 : listings[j].asset # a
  <2>1. i \in 1..n /\ listings[i].asset = a BY <1>2
  <2>2. ASSUME NEW j \in 1..i - 1, listings[j].asset = a PROVE FALSE BY <1>2, <1>4, <2>1, <2>2
  <2>3. QED BY <1>1, <2>1, <2>2
<1>6. PICK k : k = FindListing(a) OBVIOUS
<1>7. k = CHOOSE l \in DOMAIN listings : listings[l].asset = a /\ \A j \in 1..l - 1 : listings[j].asset # a
  BY <1>6 DEF FindListing
<1>8. k \in DOMAIN listings /\ listings[k].asset = a BY <1>5, <1>7
<1>9. QED BY <1>6, <1>8

LEMMA BuyKeepsGame == ASSUME GameInv, NEW p \in Players, NEW a, BuyMarketItem(p, a) PROVE GameInv'
<1>1. a \in Listed /\ p \in DOMAIN players BY DEF BuyMarketItem
<1>2. PICK i : i = FindListing(a) OBVIOUS
<1>3. PICK l : l = listings[i] OBVIOUS
<1>4. PICK less : less = Debit(players, p, l.price) OBVIOUS
<1>5. PICK ps : ps = Credit(less, l.seller, l.price) OBVIOUS
<1>6. PICK qs : qs = Taken(ps, p, a) OBVIOUS
<1>7. PICK lt : lt = RemoveAt(listings, i) OBVIOUS
<1>8. PICK x : x = Excess(players[l.seller].gold + l.price) OBVIOUS
<1>9. /\ p # l.seller /\ players' = qs /\ owner' = [owner EXCEPT ![a] = p] /\ capped' = capped + x
      /\ listings' = lt /\ UNCHANGED <<regions, earned, spent, vain, gained, made, crossed>>
  BY <1>2, <1>3, <1>4, <1>5, <1>6, <1>7, <1>8 DEF BuyMarketItem, gameWorld
<1>10. Persons(players) /\ Assets(players, owner, listings, crossed, made)
       /\ AssetTypes(players, owner, listings, made)
  BY DEF GameInv, Assets
<1>11. listings \in Seq(Offers) BY <1>10 DEF AssetTypes
<1>12. i \in DOMAIN listings /\ l.asset = a BY <1>1, <1>2, <1>3, <1>11, FoundListing
<1>13. l \in Offers /\ l.seller \in DOMAIN players /\ a \in DOMAIN owner BY <1>3, <1>10, <1>11, <1>12 DEF AssetTypes
<1>14. PICK price \in Nat : price = l.price BY <1>13 DEF Offers
<1>15. a \in Nat BY <1>12, <1>13 DEF Offers
<1>16. less[l.seller].gold = players[l.seller].gold BY <1>4, <1>9, <1>13 DEF Debit
<1>17. x = Excess(less[l.seller].gold + price) BY <1>8, <1>14, <1>16
<1>18. Balanced(players, earned, spent, capped) BY DEF GameInv
<1>19. /\ Persons(ps) /\ SameLevels(players, ps) /\ SameBags(players, ps) /\ DOMAIN ps = DOMAIN players
       /\ Balanced(ps, earned, spent, capped + x)
  BY <1>1, <1>4, <1>5, <1>10, <1>13, <1>14, <1>17, <1>18, PurchaseIs
<1>20. SamePurse(ps, qs) /\ Added(ps, qs, p, a) BY <1>1, <1>6, <1>15, <1>19, TakenIs
<1>21. Persons(qs) /\ SameGold(ps, qs) /\ SameLevels(ps, qs) BY <1>20 DEF SamePurse
<1>22. DOMAIN qs = DOMAIN ps BY <1>21 DEF SameGold
<1>23. Balanced(qs, earned, spent, capped + x) BY <1>19, <1>21, BalancedSame
<1>24. Leveled(ps, gained) BY <1>19, LeveledSame DEF GameInv
<1>25. Leveled(qs, gained) BY <1>21, <1>24, LeveledSame
<1>26. Assets(ps, owner, listings, crossed, made) BY <1>10, <1>19, AssetsBags
<1>27. Shortened(listings, lt, i, Offers) BY <1>7, <1>11, <1>12, RemovedAt
<1>28. p \in DOMAIN ps BY <1>1, <1>19
<1>29. Assets(qs, [owner EXCEPT ![a] = p], lt, crossed, made)
  BY <1>3, <1>12, <1>20, <1>22, <1>26, <1>27, <1>28, AssetsUnlisted
<1>30. Paid(owner', made, vain) BY <1>9 DEF GameInv, Paid
<1>31. QED BY <1>9, <1>21, <1>23, <1>25, <1>29, <1>30 DEF GameInv

LEMMA CancelKeepsGame == ASSUME GameInv, NEW p \in Players, NEW a, CancelMarketListing(p, a) PROVE GameInv'
<1>1. a \in Listed /\ p \in DOMAIN players BY DEF CancelMarketListing
<1>2. PICK i : i = FindListing(a) OBVIOUS
<1>3. PICK qs : qs = Taken(players, p, a) OBVIOUS
<1>4. PICK lt : lt = RemoveAt(listings, i) OBVIOUS
<1>5. /\ listings[i].seller = p /\ players' = qs /\ listings' = lt
      /\ UNCHANGED <<owner, regions, earned, spent, capped, vain, gained, made, crossed>>
  BY <1>2, <1>3, <1>4 DEF CancelMarketListing, gameWorld
<1>6. Persons(players) /\ Assets(players, owner, listings, crossed, made)
      /\ AssetTypes(players, owner, listings, made)
  BY DEF GameInv, Assets
<1>7. listings \in Seq(Offers) BY <1>6 DEF AssetTypes
<1>8. i \in DOMAIN listings /\ listings[i].asset = a BY <1>1, <1>2, <1>7, FoundListing
<1>9. a \in Nat
  <2>1. listings[i] \in Offers BY <1>7, <1>8
  <2>2. QED BY <1>8, <2>1 DEF Offers
<1>10. SamePurse(players, qs) /\ Added(players, qs, p, a) BY <1>1, <1>3, <1>6, <1>9, TakenIs
<1>11. Persons(qs) /\ SameGold(players, qs) /\ SameLevels(players, qs) BY <1>10 DEF SamePurse
<1>12. DOMAIN qs = DOMAIN players BY <1>11 DEF SameGold
<1>13. Balanced(qs, earned, spent, capped) BY <1>6, <1>11, BalancedSame DEF GameInv
<1>14. Leveled(qs, gained) BY <1>11, LeveledSame DEF GameInv
<1>15. Shortened(listings, lt, i, Offers) BY <1>4, <1>7, <1>8, RemovedAt
<1>16. Assets(qs, owner, lt, crossed, made)
  BY <1>1, <1>5, <1>6, <1>8, <1>10, <1>12, <1>15, AssetsUnlisted
<1>17. QED BY <1>5, <1>11, <1>13, <1>14, <1>16 DEF GameInv

-----------------------------------------------------------------------------
(* Who is in a region.                                                     *)
Visitors(list) ==
  /\ list \in Seq(Players) /\ Len(list) <= RegionLimit
  /\ \A i, j \in DOMAIN list : list[i] = list[j] => i = j

LEMMA PlacedSet ==
  ASSUME NEW rs, Placed(rs), NEW r, NEW list, Visitors(list),
         NEW S, S \in {DOMAIN rs, DOMAIN rs \cup {r}},
         NEW qs, qs = [s \in S |-> IF s = r THEN list ELSE rs[s]]
  PROVE  Placed(qs)
<1>1. DOMAIN qs = S /\ qs = [s \in S |-> qs[s]] OBVIOUS
<1>2. ASSUME NEW s \in S PROVE Visitors(qs[s])
  <2>1. CASE s = r BY <2>1
  <2>2. CASE s # r BY <2>2 DEF Placed, Visitors
  <2>3. QED BY <2>1, <2>2
<1>3. QED BY <1>1, <1>2 DEF Placed, Visitors

LEMMA InsideIs == ASSUME Placed(regions), NEW r PROVE Visitors(Inside(r))
<1>1. CASE r \in DOMAIN regions BY <1>1 DEF Inside, Placed, Visitors
<1>2. CASE r \notin DOMAIN regions BY <1>2, GameNumbers DEF Inside, Numbers, Visitors
<1>3. QED BY <1>1, <1>2

LEMMA EnteredIs == ASSUME Placed(regions), NEW r, NEW p \in Players PROVE Visitors(Entered(r, p))
<1>1. PICK s : s = Inside(r) OBVIOUS
<1>2. Visitors(s) BY <1>1, InsideIs
<1>3. CASE Len(s) < RegionLimit /\ p \notin Range(s)
  <2>1. s \in Seq(Players) BY <1>2 DEF Visitors
  <2>2. PICK n \in Nat : n = Len(s) /\ DOMAIN s = 1..n BY <2>1
  <2>3. PICK t : t = Append(s, p) OBVIOUS
  <2>4. t \in Seq(Players) /\ Len(t) = n + 1 /\ DOMAIN t = 1..(n + 1) /\ t[n + 1] = p /\ \A k \in 1..n : t[k] = s[k]
    BY <2>1, <2>2, <2>3, AppendProperties
  <2>5. \A k \in 1..n : s[k] # p BY <1>3, <2>2 DEF Range
  <2>6. RegionLimit \in Nat BY GameNumbers DEF Numbers
  <2>7. Len(t) <= RegionLimit BY <1>3, <2>2, <2>4, <2>6
  <2>8. ASSUME NEW i \in 1..(n + 1), NEW j \in 1..(n + 1), t[i] = t[j] PROVE i = j
    BY <1>2, <2>2, <2>4, <2>5, <2>8 DEF Visitors
  <2>9. Visitors(t) BY <2>4, <2>7, <2>8 DEF Visitors
  <2>10. Entered(r, p) = t BY <1>1, <1>3, <2>3 DEF Entered
  <2>11. QED BY <2>9, <2>10
<1>4. CASE ~(Len(s) < RegionLimit /\ p \notin Range(s)) BY <1>1, <1>2, <1>4 DEF Entered
<1>5. QED BY <1>3, <1>4

LEMMA LeftIs == ASSUME NEW s, Visitors(s), NEW p PROVE Visitors(Left(s, p))
<1>0. s \in Seq(Players) BY DEF Visitors
<1>1. PICK n \in Nat : n = Len(s) /\ DOMAIN s = 1..n BY <1>0
<1>2. CASE p \in Range(s)
  <2>1. PICK T : T = {i \in 1..n : s[i] = p} OBVIOUS
  <2>2. T \in SUBSET Nat /\ T # {} BY <1>1, <1>2, <2>1 DEF Range
  <2>3. PICK i \in T : \A j \in T : i <= j BY <2>2, SmallestNumber
  <2>4. i \in DOMAIN s /\ s[i] = p /\ \A j \in 1..i - 1 : s[j] # p
    <3>1. i \in 1..n /\ s[i] = p BY <2>1
    <3>2. ASSUME NEW j \in 1..i - 1, s[j] = p PROVE FALSE BY <2>1, <2>3, <3>1, <3>2
    <3>3. QED BY <1>1, <3>1, <3>2
  <2>5. PICK k : k = CHOOSE l \in DOMAIN s : s[l] = p /\ \A j \in 1..l - 1 : s[j] # p OBVIOUS
  <2>6. k \in DOMAIN s BY <2>4, <2>5
  <2>7. PICK t : t = RemoveAt(s, k) OBVIOUS
  <2>8. Shortened(s, t, k, Players) BY <1>0, <2>6, <2>7, RemovedAt
  <2>9. k \in 1..n /\ n - 1 \in Nat BY <1>1, <2>6
  <2>10. t \in Seq(Players) /\ Len(t) = n - 1 /\ DOMAIN t = 1..(n - 1)
         /\ \A h \in 1..(n - 1) : t[h] = s[IF h < k THEN h ELSE h + 1]
    BY <1>1, <2>8, <2>9 DEF Shortened
  <2>11. RegionLimit \in Nat BY GameNumbers DEF Numbers
  <2>12. Len(t) <= RegionLimit BY <1>1, <2>10, <2>11 DEF Visitors
  <2>13. ASSUME NEW i1 \in 1..(n - 1), NEW j1 \in 1..(n - 1), t[i1] = t[j1] PROVE i1 = j1
    <3>1. PICK g : g = IF i1 < k THEN i1 ELSE i1 + 1 OBVIOUS
    <3>2. PICK h : h = IF j1 < k THEN j1 ELSE j1 + 1 OBVIOUS
    <3>3. g \in 1..n /\ h \in 1..n BY <2>9, <3>1, <3>2
    <3>4. s[g] = s[h] BY <2>10, <2>13, <3>1, <3>2
    <3>5. g = h BY <1>1, <3>3, <3>4 DEF Visitors
    <3>6. QED BY <2>9, <3>1, <3>2, <3>5
  <2>14. Visitors(t) BY <2>10, <2>12, <2>13 DEF Visitors
  <2>15. Left(s, p) = t BY <1>2, <2>5, <2>7 DEF Left
  <2>16. QED BY <2>14, <2>15
<1>3. CASE p \notin Range(s) BY <1>3 DEF Left
<1>4. QED BY <1>2, <1>3

LEMMA WelcomeKeepsGame ==
  ASSUME GameInv, NEW p \in Players, players' = Ensured(p), UNCHANGED worldSame, Placed(regions')
  PROVE  GameInv'
BY EnsuredIs, EnsuredBalanced, EnsuredLeveled, EnsuredAssets DEF worldSame, GameInv

LEMMA EnterKeepsGame == ASSUME GameInv, NEW p \in Players, NEW r, EnterRegion(p, r) PROVE GameInv'
BY EnteredIs, PlacedSet, WelcomeKeepsGame DEF EnterRegion, GameInv, PlacedIn

LEMMA LeaveKeepsGame == ASSUME GameInv, NEW p \in Players, NEW r, LeaveRegion(p, r) PROVE GameInv'
<1>1. players' = Ensured(p) /\ UNCHANGED worldSame BY DEF LeaveRegion
<1>2. Placed(regions) BY DEF GameInv
<1>3. PICK qs : qs = [s \in DOMAIN regions |-> IF s = r THEN Left(regions[s], p) ELSE regions[s]] OBVIOUS
<1>4. regions' = qs BY <1>3 DEF LeaveRegion
<1>5. DOMAIN qs = DOMAIN regions /\ qs = [s \in DOMAIN qs |-> qs[s]] BY <1>3
<1>6. ASSUME NEW s \in DOMAIN regions PROVE Visitors(qs[s])
  <2>1. Visitors(regions[s]) BY <1>2 DEF Placed, Visitors
  <2>2. CASE s = r BY <1>3, <2>1, <2>2, LeftIs
  <2>3. CASE s # r BY <1>3, <2>1, <2>3
  <2>4. QED BY <2>2, <2>3
<1>7. Placed(qs) BY <1>5, <1>6 DEF Placed, Visitors
<1>8. QED BY <1>1, <1>4, <1>7, WelcomeKeepsGame

LEMMA GameStep == GameInv /\ [Apply \/ Market \/ Gather]_gameVars => GameInv'
<1>1. SUFFICES ASSUME GameInv, [Apply \/ Market \/ Gather]_gameVars PROVE GameInv' OBVIOUS
<1>2. CASE Apply
  BY <1>1, <1>2, AddKeepsGame, KillKeepsGame, BuyingKeepsGame, TradeKeepsGame DEF Apply
<1>3. CASE Market BY <1>1, <1>3, ListKeepsGame, BuyKeepsGame, CancelKeepsGame DEF Market
<1>4. ASSUME UNCHANGED <<players, regions, owner, listings, earned, spent, capped, vain, gained, made, crossed>>
      PROVE  GameInv'
  BY <1>1, <1>4 DEF GameInv
<1>5. CASE Gather
  BY <1>1, <1>4, <1>5, EnterKeepsGame, LeaveKeepsGame DEF Second, CleanupExpiredActivities, worldSame,
     CreateActivity, JoinActivity, CompleteActivity, Gather
<1>6. CASE UNCHANGED gameVars BY <1>4, <1>6 DEF gameVars, gameWorld
<1>7. QED BY <1>1, <1>2, <1>3, <1>5, <1>6

LEMMA PlacesAre == ASSUME GameInv PROVE OnePlace
<1>1. Persons(players) /\ Assets(players, owner, listings, crossed, made) BY DEF GameInv
<1>2. SUFFICES ASSUME NEW a \in DOMAIN owner \ crossed,
                      NEW held, held = {h \in (DOMAIN players) \X (1..MaxSlots) :
                         h[2] \in DOMAIN players[h[1]].inventory /\ players[h[1]].inventory[h[2]] = a},
                      NEW sold, sold = {i \in DOMAIN listings : listings[i].asset = a}
               PROVE  /\ Cardinality(held) + Cardinality(sold) <= 1
                      /\ \A h \in held : h[1] = owner[a]
                      /\ \A i \in sold : listings[i].seller = owner[a]
  BY DEF OnePlace
<1>3. InOne(players, owner, listings, a) BY <1>1 DEF Assets
<1>4. ASSUME NEW h \in held
      PROVE  /\ h[1] \in DOMAIN players /\ Holds(players, h[1], a) /\ h[1] = owner[a]
             /\ h[2] \in DOMAIN players[h[1]].inventory /\ players[h[1]].inventory[h[2]] = a /\ h = <<h[1], h[2]>>
  BY <1>2, <1>3 DEF Holds, InOne
<1>5. ASSUME NEW g \in held, NEW h \in held PROVE g = h BY <1>3, <1>4 DEF InOne, Singly
<1>6. \A i, j \in sold : i = j BY <1>2, <1>3 DEF InOne
<1>7. held # {} => sold = {} BY <1>2, <1>3, <1>4 DEF InOne
<1>8. Cardinality(held) = 0 \/ Cardinality(held) = 1
  <2>1. CASE held = {} BY <2>1, FS_EmptySet
  <2>2. CASE held # {} BY <1>5, <2>2, FS_Singleton
  <2>3. QED BY <2>1, <2>2
<1>9. Cardinality(sold) = 0 \/ Cardinality(sold) = 1
  <2>1. CASE sold = {} BY <2>1, FS_EmptySet
  <2>2. CASE sold # {} BY <1>6, <2>2, FS_Singleton
  <2>3. QED BY <2>1, <2>2
<1>10. Cardinality(held) + Cardinality(sold) <= 1
  <2>1. CASE held = {} BY <1>9, <2>1, FS_EmptySet
  <2>2. CASE held # {} BY <1>7, <1>8, <2>2, FS_EmptySet
  <2>3. QED BY <2>1, <2>2
<1>11. \A i \in sold : listings[i].seller = owner[a] BY <1>2, <1>3 DEF InOne
<1>12. QED BY <1>4, <1>10, <1>11

LEMMA RegionsAre == ASSUME GameInv PROVE RegionsHold
<1>1. SUFFICES ASSUME NEW r \in DOMAIN regions
               PROVE  Len(regions[r]) <= RegionLimit /\ Cardinality(Range(regions[r])) = Len(regions[r])
  BY DEF RegionsHold
<1>2. PICK s : s = regions[r] OBVIOUS
<1>3. s \in Seq(Players) /\ Len(s) <= RegionLimit /\ \A i, j \in DOMAIN s : s[i] = s[j] => i = j
  BY <1>2 DEF GameInv, Placed
<1>4. PICK n \in Nat : n = Len(s) /\ DOMAIN s = 1..n BY <1>3
<1>5. PICK R : R = Range(s) OBVIOUS
<1>6. IsFiniteSet(1..n) /\ Cardinality(1..n) = n
  <2>1. 1 \in Int /\ n \in Int OBVIOUS
  <2>2. IsFiniteSet(1..n) /\ Cardinality(1..n) = IF 1 > n THEN 0 ELSE n - 1 + 1 BY <2>1, FS_Interval, Zenon
  <2>3. QED BY <2>2
<1>7. s \in Bijection(1..n, R) BY <1>3, <1>4, <1>5 DEF Range, IsInjective, Bijection, Injection, Surjection
<1>8. Cardinality(1..n) = Cardinality(R) BY <1>6, <1>7, FS_Bijection DEF ExistsBijection
<1>9. QED BY <1>2, <1>3, <1>4, <1>5, <1>6, <1>8

(* app/game/state/machine.go: for any players, names, prices, gains,       *)
(* limits and costs, gold, things and levels add up over kills, crafts,    *)
(* trades and sales, an asset that was not traded while it was listed is   *)
(* in one place, and nobody is twice in a region.                          *)
THEOREM GameIsSound == GameSpec => []GameSound
<1>1. GameInv => GameSound
  BY PlacesAre, RegionsAre DEF GameInv, Balanced, GoldAccounted, TotalGold, Leveled, LevelsPaid, Paid, PaidFor,
     GameSound
<1>2. QED BY <1>1, GameStart, GameStep, PTL DEF GameSpec

-----------------------------------------------------------------------------
(* The tree of invitations: links of both directions agree, every one but  *)
(* the root is one deeper than who invited it, and no depth exceeds the    *)
(* number of communities.                                                  *)
Linked ==
  /\ \A c \in Known : depth[c] = 0 <=> c = Root
  /\ \A c \in Known : c # Root => depth[c] = depth[parent[c]] + 1
  /\ \A c, y \in Known : y \in ToSet(children[c]) <=> (y # Root /\ parent[y] = c)

Tree ==
  /\ IsFiniteSet(Known) /\ Root \in Known /\ Known \subseteq Communities
  /\ parent \in [Known -> Known] /\ depth \in [Known -> Nat]
  /\ children \in [Known -> Seq(Known)] /\ bond \in [Known -> Nat]
  /\ \A c \in Known : depth[c] < Cardinality(Known)
  /\ Linked

LEMMA TreeTypes ==
  ASSUME Tree
  PROVE  /\ Root \in Known /\ IsFiniteSet(Known) /\ Cardinality(Known) \in Nat
         /\ \A c \in Known : parent[c] \in Known /\ depth[c] \in Nat /\ bond[c] \in Nat /\ depth[c] < Cardinality(Known)
         /\ \A c \in Known : depth[c] = 0 <=> c = Root
         /\ \A c \in Known : c # Root => depth[c] = depth[parent[c]] + 1
BY FS_CardinalityType DEF Tree, Linked

\* What holds of the root, and of a community when it holds of its inviter.
LEMMA DownTheTree ==
  ASSUME Tree, NEW P, Root \in P, \A c \in Known : c # Root /\ parent[c] \in P => c \in P
  PROVE  \A c \in Known : c \in P
<1>1. \A c \in Known : depth[c] \in Nat BY TreeTypes
<1>2. ASSUME NEW c \in Known, \A y \in Known : depth[y] < depth[c] => y \in P PROVE c \in P
  <2>1. CASE c = Root BY <2>1
  <2>2. CASE c # Root BY <1>2, <2>2, TreeTypes
  <2>3. QED BY <2>1, <2>2
<1>3. QED BY <1>1, <1>2, RankInduction

-----------------------------------------------------------------------------
Chaining(f) == f = [x \in Known |-> IF depth[x] = 0 THEN <<x>> ELSE Append(f[parent[x]], x)]

LEMMA ChainExists == ASSUME Tree PROVE \E f \in [Known -> Seq(Known)] : Chaining(f)
<1>1. PICK n : n = Cardinality(Known) OBVIOUS
<1>2. PICK stop : stop = {x \in Known : depth[x] = 0} OBVIOUS
<1>3. PICK b : b = [x \in Known |-> <<x>>] OBVIOUS
<1>4. PICK st : st = [p \in Known \X Seq(Known) |-> Append(p[2], p[1])] OBVIOUS
<1>5. n \in Nat /\ \A x \in Known : depth[x] \in 0..n BY <1>1, TreeTypes
<1>6. \A x \in Known \cap stop : b[x] \in Seq(Known) BY <1>3
<1>7. \A x \in Known \ stop : parent[x] \in Known /\ depth[parent[x]] < depth[x] BY <1>2, TreeTypes
<1>8. \A x \in Known, s \in Seq(Known) : st[<<x, s>>] = Append(s, x) BY <1>4
<1>9. st \in [Known \X Seq(Known) -> Seq(Known)]
  <2>1. ASSUME NEW p \in Known \X Seq(Known) PROVE Append(p[2], p[1]) \in Seq(Known) BY AppendProperties
  <2>2. QED BY <1>4, <2>1
<1>10. \E f \in [Known -> Seq(Known)] : Recursive(f, Known, stop, b, parent, st)
  BY <1>5, <1>6, <1>7, <1>9, RecursionDefines
<1>11. PICK f \in [Known -> Seq(Known)] : Recursive(f, Known, stop, b, parent, st) BY <1>10
<1>12. ASSUME NEW x \in Known PROVE f[x] = IF depth[x] = 0 THEN <<x>> ELSE Append(f[parent[x]], x)
  <2>1. f[x] = IF x \in stop THEN b[x] ELSE st[<<x, f[parent[x]]>>] BY <1>11 DEF Recursive
  <2>2. CASE depth[x] = 0 BY <1>2, <1>3, <2>1, <2>2
  <2>3. CASE depth[x] # 0 BY <1>2, <1>8, <1>11, <2>1, <2>3, TreeTypes
  <2>4. QED BY <2>2, <2>3
<1>13. Chaining(f) BY <1>12 DEF Chaining
<1>14. QED BY <1>13

LEMMA ChainUnfolds ==
  ASSUME Tree, NEW c \in Known
  PROVE  AncestorChain(c) = IF c = Root THEN <<c>> ELSE Append(AncestorChain(parent[c]), c)
<1>1. PICK f : f = CHOOSE g : Chaining(g) OBVIOUS
<1>2. Chaining(f) BY <1>1, ChainExists
<1>3. \A x : AncestorChain(x) = f[x] BY <1>1 DEF AncestorChain, Chaining
<1>4. f[c] = IF depth[c] = 0 THEN <<c>> ELSE Append(f[parent[c]], c) BY <1>2 DEF Chaining
<1>5. QED BY <1>3, <1>4, TreeTypes

\* The k-th in the chain is at depth k - 1, and the last is c itself.
Shaped(c) ==
  LET chain == AncestorChain(c) IN
  /\ chain \in Seq(Known) /\ Len(chain) = depth[c] + 1 /\ chain[depth[c] + 1] = c
  /\ \A k \in 1..(depth[c] + 1) : depth[chain[k]] = k - 1

LEMMA ChainShaped == ASSUME Tree PROVE \A c \in Known : Shaped(c)
<1>1. PICK P : P = {c \in Known : Shaped(c)} OBVIOUS
<1>2. Root \in P
  <2>1. AncestorChain(Root) = <<Root>> /\ depth[Root] = 0 /\ Root \in Known BY TreeTypes, ChainUnfolds
  <2>2. PICK s : s = AncestorChain(Root) OBVIOUS
  <2>3. s = <<Root>> BY <2>1, <2>2
  <2>4. s \in Seq(Known) /\ Len(s) = 1 /\ s[1] = Root BY <2>1, <2>3
  <2>5. \A k \in 1..1 : depth[s[k]] = k - 1 BY <2>1, <2>4
  <2>6. Shaped(Root) BY <2>1, <2>2, <2>4, <2>5 DEF Shaped
  <2>7. QED BY <1>1, <2>1, <2>6
<1>3. ASSUME NEW c \in Known, c # Root, parent[c] \in P PROVE c \in P
  <2>1. PICK p : p = parent[c] OBVIOUS
  <2>2. p \in Known /\ Shaped(p) BY <1>1, <1>3, <2>1
  <2>3. PICK s : s = AncestorChain(p) OBVIOUS
  <2>4. PICK t : t = AncestorChain(c) OBVIOUS
  <2>5. PICK n : n = depth[p] OBVIOUS
  <2>6. n \in Nat /\ depth[c] = n + 1 BY <1>3, <2>1, <2>2, <2>5, TreeTypes
  <2>7. s \in Seq(Known) /\ Len(s) = n + 1 /\ \A k \in 1..(n + 1) : depth[s[k]] = k - 1
    BY <2>2, <2>3, <2>5 DEF Shaped
  <2>8. t = Append(s, c) BY <1>3, <2>1, <2>3, <2>4, ChainUnfolds
  <2>9. t \in Seq(Known) /\ Len(t) = n + 2 /\ t[n + 2] = c /\ \A k \in 1..(n + 1) : t[k] = s[k]
    BY <2>6, <2>7, <2>8, AppendProperties
  <2>10. \A k \in 1..(n + 2) : depth[t[k]] = k - 1
    <3>1. SUFFICES ASSUME NEW k \in 1..(n + 2) PROVE depth[t[k]] = k - 1 OBVIOUS
    <3>2. CASE k \in 1..(n + 1) BY <2>7, <2>9, <3>2
    <3>3. CASE k = n + 2 BY <2>6, <2>9, <3>3
    <3>4. QED BY <2>6, <3>2, <3>3
  <2>11. depth[c] + 1 = n + 2 BY <2>6
  <2>12. Shaped(c) BY <2>4, <2>9, <2>10, <2>11 DEF Shaped
  <2>13. QED BY <1>1, <2>12
<1>4. \A c \in Known : c \in P BY <1>2, <1>3, DownTheTree
<1>5. QED BY <1>1, <1>4

LEMMA AncestorsAre ==
  ASSUME Tree
  PROVE  /\ Ancestors(Root) = {Root}
         /\ \A c \in Known : c # Root => Ancestors(c) = Ancestors(parent[c]) \cup {c}
         /\ \A c \in Known : c \in Ancestors(c) /\ Ancestors(c) \subseteq Known
<1>1. ASSUME NEW s \in Seq(Known), NEW c \in Known PROVE ToSet(Append(s, c)) = ToSet(s) \cup {c}
  BY AppendProperties, LenProperties DEF ToSet
<1>2. \A c \in Known : AncestorChain(c) \in Seq(Known) BY ChainShaped DEF Shaped
<1>3. Ancestors(Root) = {Root} BY TreeTypes, ChainUnfolds DEF ToSet, Ancestors
<1>4. ASSUME NEW c \in Known, c # Root PROVE Ancestors(c) = Ancestors(parent[c]) \cup {c}
  BY <1>1, <1>2, <1>4, TreeTypes, ChainUnfolds DEF Ancestors
<1>5. ASSUME NEW c \in Known PROVE Ancestors(c) \subseteq Known
  BY <1>2, ElementOfSeq, LenProperties DEF Ancestors, ToSet
<1>6. QED BY <1>3, <1>4, <1>5

-----------------------------------------------------------------------------
(* Ancestors of one community: each depth has one, and they are ancestors  *)
(* of one another.                                                         *)
LEMMA AncestorsAbove ==
  ASSUME Tree
  PROVE  \A c \in Known : \A x \in Ancestors(c) : depth[x] <= depth[c] /\ (depth[x] = depth[c] => x = c)
<1>1. PICK P : P = {c \in Known : \A x \in Ancestors(c) : depth[x] <= depth[c] /\ (depth[x] = depth[c] => x = c)}
  OBVIOUS
<1>2. Root \in P BY <1>1, TreeTypes, AncestorsAre
<1>3. ASSUME NEW c \in Known, c # Root, parent[c] \in P PROVE c \in P
  <2>1. parent[c] \in Known /\ depth[c] = depth[parent[c]] + 1 /\ depth[parent[c]] \in Nat /\ depth[c] \in Nat BY <1>3, TreeTypes
  <2>2. ASSUME NEW x \in Ancestors(c) PROVE depth[x] <= depth[c] /\ (depth[x] = depth[c] => x = c)
    <3>1. CASE x = c BY <2>1, <3>1
    <3>2. CASE x # c BY <1>1, <1>3, <2>1, <3>2, AncestorsAre, TreeTypes
    <3>3. QED BY <3>1, <3>2
  <2>3. QED BY <1>1, <2>2
<1>4. \A c \in Known : c \in P BY <1>2, <1>3, DownTheTree
<1>5. QED BY <1>1, <1>4

\* The chain from x down to b goes through a child of x.
LEMMA NextBelow ==
  ASSUME Tree
  PROVE  \A b \in Known : \A x \in Ancestors(b) : x # b =>
           \E y \in Known : y # Root /\ parent[y] = x /\ y \in Ancestors(b)
<1>1. PICK P : P = {b \in Known : \A x \in Ancestors(b) : x # b =>
                      \E y \in Known : y # Root /\ parent[y] = x /\ y \in Ancestors(b)} OBVIOUS
<1>2. Root \in P BY <1>1, TreeTypes, AncestorsAre
<1>3. ASSUME NEW b \in Known, b # Root, parent[b] \in P PROVE b \in P
  <2>1. Ancestors(b) = Ancestors(parent[b]) \cup {b} BY <1>3, AncestorsAre
  <2>2. ASSUME NEW x \in Ancestors(b), x # b
        PROVE  \E y \in Known : y # Root /\ parent[y] = x /\ y \in Ancestors(b)
    <3>1. CASE x = parent[b] BY <1>3, <2>1, <3>1
    <3>2. CASE x # parent[b] BY <1>1, <1>3, <2>1, <2>2, <3>2
    <3>3. QED BY <3>1, <3>2
  <2>3. QED BY <1>1, <2>2
<1>4. \A c \in Known : c \in P BY <1>2, <1>3, DownTheTree
<1>5. QED BY <1>1, <1>4

LEMMA AncestorsNest ==
  ASSUME Tree
  PROVE  \A b \in Known : \A y \in Ancestors(b) : Ancestors(y) \subseteq Ancestors(b)
<1>1. PICK P : P = {b \in Known : \A y \in Ancestors(b) : Ancestors(y) \subseteq Ancestors(b)} OBVIOUS
<1>2. Root \in P BY <1>1, TreeTypes, AncestorsAre
<1>3. ASSUME NEW b \in Known, b # Root, parent[b] \in P PROVE b \in P BY <1>1, <1>3, AncestorsAre
<1>4. \A c \in Known : c \in P BY <1>2, <1>3, DownTheTree
<1>5. QED BY <1>1, <1>4

LEMMA AncestorsLine ==
  ASSUME Tree
  PROVE  \A b \in Known : \A x, y \in Ancestors(b) : depth[x] <= depth[y] => x \in Ancestors(y)
<1>1. PICK P : P = {b \in Known : \A x, y \in Ancestors(b) : depth[x] <= depth[y] => x \in Ancestors(y)} OBVIOUS
<1>2. Root \in P BY <1>1, TreeTypes, AncestorsAre
<1>3. ASSUME NEW b \in Known, b # Root, parent[b] \in P PROVE b \in P
  <2>1. Ancestors(b) = Ancestors(parent[b]) \cup {b} BY <1>3, AncestorsAre
  <2>2. parent[b] \in Known /\ depth[b] = depth[parent[b]] + 1 /\ depth[parent[b]] \in Nat BY <1>3, TreeTypes
  <2>3. ASSUME NEW x \in Ancestors(b), NEW y \in Ancestors(b), depth[x] <= depth[y] PROVE x \in Ancestors(y)
    <3>1. CASE y = b BY <3>1, <2>3
    <3>2. CASE y # b
      <4>1. y \in Ancestors(parent[b]) BY <2>1, <3>2
      <4>2. y \in Known /\ depth[y] \in Nat /\ depth[y] <= depth[parent[b]]
        BY <2>2, <4>1, AncestorsAbove, AncestorsAre, TreeTypes
      <4>3. x # b BY <2>2, <2>3, <4>2
      <4>4. x \in Ancestors(parent[b]) BY <2>1, <2>3, <4>3
      <4>5. QED BY <1>1, <1>3, <2>3, <4>1, <4>4
    <3>3. QED BY <3>1, <3>2
  <2>4. QED BY <1>1, <2>3
<1>4. \A c \in Known : c \in P BY <1>2, <1>3, DownTheTree
<1>5. QED BY <1>1, <1>4

-----------------------------------------------------------------------------
(* The climb of two communities to where they meet.                        *)
Climbing(f) == f = [p \in Known \X Known |-> IF p[1] = p[2] THEN p[1] ELSE f[Up(p)]]

LEMMA UpIs ==
  ASSUME Tree, NEW p \in Known \X Known, p[1] # p[2]
  PROVE  /\ Up(p) \in Known \X Known
         /\ depth[Up(p)[1]] + depth[Up(p)[2]] < depth[p[1]] + depth[p[2]]
         /\ Ancestors(Up(p)[1]) \cap Ancestors(Up(p)[2]) = Ancestors(p[1]) \cap Ancestors(p[2])
<1>1. PICK x \in Known, y \in Known : x = p[1] /\ y = p[2] OBVIOUS
<1>2. x # y BY <1>1
<1>3. depth[x] \in Nat /\ depth[y] \in Nat /\ parent[x] \in Known /\ parent[y] \in Known BY TreeTypes
<1>4. depth[parent[x]] \in Nat /\ depth[parent[y]] \in Nat BY <1>3, TreeTypes
<1>5. /\ x # Root => depth[x] = depth[parent[x]] + 1 /\ Ancestors(x) = Ancestors(parent[x]) \cup {x}
      /\ y # Root => depth[y] = depth[parent[y]] + 1 /\ Ancestors(y) = Ancestors(parent[y]) \cup {y}
  BY TreeTypes, AncestorsAre
<1>6. (x = Root <=> depth[x] = 0) /\ (y = Root <=> depth[y] = 0) BY TreeTypes
<1>7. /\ x \in Ancestors(y) => depth[x] <= depth[y] /\ depth[x] # depth[y]
      /\ y \in Ancestors(x) => depth[y] <= depth[x] /\ depth[x] # depth[y]
  BY <1>2, AncestorsAbove
<1>8. CASE depth[x] > depth[y] BY <1>1, <1>3, <1>4, <1>5, <1>6, <1>7, <1>8 DEF Up
<1>9. CASE depth[y] > depth[x] BY <1>1, <1>3, <1>4, <1>5, <1>6, <1>7, <1>9 DEF Up
<1>10. CASE depth[x] = depth[y] BY <1>1, <1>2, <1>3, <1>4, <1>5, <1>6, <1>7, <1>10 DEF Up
<1>11. QED BY <1>3, <1>8, <1>9, <1>10

Height == [p \in Known \X Known |-> depth[p[1]] + depth[p[2]]]

LEMMA HeightIs ==
  ASSUME Tree
  PROVE  \A p \in Known \X Known : Height[p] \in 0..(2 * Cardinality(Known)) /\ Height[p] = depth[p[1]] + depth[p[2]]
BY TreeTypes DEF Height

LEMMA ClimbExists == ASSUME Tree PROVE \E f \in [Known \X Known -> Known] : Climbing(f)
<1>1. PICK S : S = Known \X Known OBVIOUS
<1>2. PICK stop : stop = {p \in S : p[1] = p[2]} OBVIOUS
<1>3. PICK b : b = [p \in S |-> p[1]] OBVIOUS
<1>4. PICK nx : nx = [p \in S |-> Up(p)] OBVIOUS
<1>5. PICK st : st = [q \in S \X Known |-> q[2]] OBVIOUS
<1>6. PICK r : r = Height OBVIOUS
<1>7. PICK n : n = 2 * Cardinality(Known) OBVIOUS
<1>8. n \in Nat BY <1>7, TreeTypes
<1>9. \A p \in S : r[p] \in 0..n BY <1>1, <1>6, <1>7, HeightIs
<1>10. \A p \in S \cap stop : b[p] \in Known BY <1>1, <1>3
<1>11. \A p \in S \ stop : nx[p] \in S /\ r[nx[p]] < r[p] BY <1>1, <1>2, <1>4, <1>6, UpIs, HeightIs
<1>12. \A p \in S, v \in Known : st[<<p, v>>] = v BY <1>5
<1>13. st \in [S \X Known -> Known] BY <1>5
<1>14. \E f \in [S -> Known] : Recursive(f, S, stop, b, nx, st)
  BY <1>8, <1>9, <1>10, <1>11, <1>13, RecursionDefines
<1>15. PICK f \in [S -> Known] : Recursive(f, S, stop, b, nx, st) BY <1>14
<1>16. ASSUME NEW p \in S PROVE f[p] = IF p[1] = p[2] THEN p[1] ELSE f[Up(p)]
  <2>1. f[p] = IF p \in stop THEN b[p] ELSE st[<<p, f[nx[p]]>>] BY <1>15 DEF Recursive
  <2>2. CASE p[1] = p[2] BY <1>2, <1>3, <2>1, <2>2
  <2>3. CASE p[1] # p[2] BY <1>1, <1>2, <1>4, <1>12, <1>15, <2>1, <2>3, UpIs
  <2>4. QED BY <2>2, <2>3
<1>17. Climbing(f) BY <1>1, <1>15, <1>16 DEF Climbing
<1>18. QED BY <1>1, <1>17

Meeting(a, b, m) ==
  /\ m \in Ancestors(a) /\ m \in Ancestors(b)
  /\ \A x \in Ancestors(a) \cap Ancestors(b) : depth[x] <= depth[m]

LEMMA LCAIs == ASSUME Tree PROVE \A a, b \in Known : Meeting(a, b, LCA(a, b))
<1>1. PICK f : f = CHOOSE g : Climbing(g) OBVIOUS
<1>2. Climbing(f) BY <1>1, ClimbExists
<1>3. \A x, y : LCA(x, y) = f[<<x, y>>] BY <1>1 DEF LCA, Climbing
<1>4. \A p \in Known \X Known : f[p] = IF p[1] = p[2] THEN p[1] ELSE f[Up(p)] BY <1>2 DEF Climbing
<1>5. PICK S : S = Known \X Known OBVIOUS
<1>6. PICK P : P = {p \in S : Meeting(p[1], p[2], f[p])} OBVIOUS
<1>7. PICK r : r = Height OBVIOUS
<1>8. \A p \in S : r[p] \in Nat /\ r[p] = depth[p[1]] + depth[p[2]] BY <1>5, <1>7, HeightIs, TreeTypes
<1>9. ASSUME NEW p \in S, \A q \in S : r[q] < r[p] => q \in P PROVE p \in P
  <2>1. p \in Known \X Known /\ p[1] \in Known /\ p[2] \in Known BY <1>5
  <2>2. CASE p[1] = p[2] BY <1>4, <1>6, <2>1, <2>2, AncestorsAre, AncestorsAbove DEF Meeting
  <2>3. CASE p[1] # p[2] BY <1>4, <1>5, <1>6, <1>8, <1>9, <2>1, <2>3, UpIs DEF Meeting
  <2>4. QED BY <2>2, <2>3
<1>10. \A p \in S : r[p] \in Nat BY <1>8
<1>11. \A p \in S : p \in P BY <1>9, <1>10, RankInduction
<1>12. SUFFICES ASSUME NEW a \in Known, NEW b \in Known PROVE Meeting(a, b, LCA(a, b)) OBVIOUS
<1>13. PICK p : p = <<a, b>> OBVIOUS
<1>14. p \in S /\ p[1] = a /\ p[2] = b BY <1>5, <1>13
<1>15. Meeting(p[1], p[2], f[p]) BY <1>6, <1>11, <1>14
<1>16. LCA(a, b) = f[p] BY <1>3, <1>13
<1>17. QED BY <1>14, <1>15, <1>16

-----------------------------------------------------------------------------
(* The subtree, walked down the links to the children, is who has the      *)
(* community for an ancestor.                                              *)
Growing(f) ==
  f = [n \in 0..Cardinality(Known) |->
        [x \in Known |-> {x} \cup (IF n = 0 THEN {} ELSE UNION {f[n - 1][y] : y \in ToSet(children[x])})]]

LEMMA ChildrenAre ==
  ASSUME Tree, NEW x \in Known
  PROVE  ToSet(children[x]) = {y \in Known : y # Root /\ parent[y] = x}
BY ElementOfSeq, LenProperties DEF Tree, ToSet, Linked

LEMMA GrowthExists ==
  ASSUME Tree
  PROVE  \E f \in [0..Cardinality(Known) -> [Known -> SUBSET Known]] : Growing(f)
<1>1. PICK n : n = Cardinality(Known) OBVIOUS
<1>2. n \in Nat BY <1>1, TreeTypes
<1>3. PICK S : S = 0..n OBVIOUS
<1>4. PICK V : V = [Known -> SUBSET Known] OBVIOUS
<1>5. PICK b : b = [k \in S |-> [x \in Known |-> {x}]] OBVIOUS
<1>6. PICK r : r = [k \in S |-> k] OBVIOUS
<1>7. PICK nx : nx = [k \in S |-> k - 1] OBVIOUS
<1>8. PICK st : st = [q \in S \X V |-> [x \in Known |-> {x} \cup UNION {q[2][y] : y \in ToSet(children[x])}]] OBVIOUS
<1>9. PICK stop : stop = {0} OBVIOUS
<1>10. \A k \in S : r[k] \in 0..n BY <1>3, <1>6
<1>11. \A k \in S \cap stop : b[k] \in V BY <1>4, <1>5
<1>12. \A k \in S \ stop : nx[k] \in S /\ r[nx[k]] < r[k] BY <1>2, <1>3, <1>6, <1>7, <1>9
<1>13. ASSUME NEW k \in S, NEW g \in V
       PROVE  st[<<k, g>>] = [x \in Known |-> {x} \cup UNION {g[y] : y \in ToSet(children[x])}]
  BY <1>8
<1>14. ASSUME NEW g \in V
       PROVE  [x \in Known |-> {x} \cup UNION {g[y] : y \in ToSet(children[x])}] \in V
  <2>1. ASSUME NEW x \in Known PROVE {x} \cup UNION {g[y] : y \in ToSet(children[x])} \subseteq Known
    BY <1>4, ChildrenAre
  <2>2. QED BY <1>4, <2>1
<1>15. st \in [S \X V -> V]
  <2>1. ASSUME NEW q \in S \X V PROVE [x \in Known |-> {x} \cup UNION {q[2][y] : y \in ToSet(children[x])}] \in V
    BY <1>14
  <2>2. QED BY <1>8, <2>1
<1>16. \E f \in [S -> V] : Recursive(f, S, stop, b, nx, st)
  BY <1>2, <1>10, <1>11, <1>12, <1>15, RecursionDefines
<1>17. PICK f \in [S -> V] : Recursive(f, S, stop, b, nx, st) BY <1>16
<1>18. ASSUME NEW k \in S
       PROVE f[k] = [x \in Known |-> {x} \cup (IF k = 0 THEN {} ELSE UNION {f[k - 1][y] : y \in ToSet(children[x])})]
  <2>1. f[k] = IF k \in stop THEN b[k] ELSE st[<<k, f[nx[k]]>>] BY <1>17 DEF Recursive
  <2>2. CASE k = 0 BY <1>5, <1>9, <2>1, <2>2
  <2>3. CASE k # 0
    <3>1. f[k] = st[<<k, f[k - 1]>>] BY <1>7, <1>9, <2>1, <2>3
    <3>2. k - 1 \in S BY <1>2, <1>3, <2>3
    <3>3. f[k - 1] \in V BY <1>17, <3>2
    <3>4. PICK g \in V : g = f[k - 1] BY <3>3
    <3>5. f[k] = [x \in Known |-> {x} \cup UNION {g[y] : y \in ToSet(children[x])}] BY <1>13, <3>1, <3>4
    <3>6. QED BY <2>3, <3>4, <3>5
  <2>4. QED BY <2>2, <2>3
<1>19. Growing(f) BY <1>1, <1>3, <1>17, <1>18 DEF Growing
<1>20. QED BY <1>1, <1>3, <1>4, <1>19

LEMMA SubtreeIs ==
  ASSUME Tree
  PROVE  \A x \in Known : Subtree(x) \subseteq Known /\ \A b \in Known : b \in Subtree(x) <=> x \in Ancestors(b)
<1>1. PICK n : n = Cardinality(Known) OBVIOUS
<1>2. n \in Nat BY <1>1, TreeTypes
<1>3. PICK f : f = CHOOSE g : Growing(g) OBVIOUS
<1>4. Growing(f) BY <1>3, GrowthExists
<1>5. \A x : Subtree(x) = f[n][x] BY <1>1, <1>3 DEF Subtree, Growing
<1>6. ASSUME NEW k \in 0..n, NEW x \in Known
      PROVE  f[k][x] = {x} \cup (IF k = 0 THEN {} ELSE UNION {f[k - 1][y] : y \in ToSet(children[x])})
  <2>1. f = [i \in 0..n |-> [z \in Known |-> {z} \cup (IF i = 0 THEN {} ELSE UNION {f[i - 1][y] : y \in ToSet(children[z])})]]
    BY <1>1, <1>4 DEF Growing
  <2>2. f[k] = [z \in Known |-> {z} \cup (IF k = 0 THEN {} ELSE UNION {f[k - 1][y] : y \in ToSet(children[z])})]
    BY <2>1, Zenon
  <2>3. QED BY <2>2, Zenon
<1>7. PICK S : S = 0..n OBVIOUS
<1>8. PICK r : r = [k \in S |-> k] OBVIOUS
<1>9. PICK P : P = {k \in S : \A x \in Known : /\ f[k][x] \subseteq Known
                                                /\ \A b \in Known : b \in f[k][x] <=> (x \in Ancestors(b) /\ depth[b] <= depth[x] + k)}
  OBVIOUS
<1>10. ASSUME NEW k \in S, \A j \in S : r[j] < r[k] => j \in P PROVE k \in P
  <2>1. SUFFICES ASSUME NEW x \in Known
        PROVE  /\ f[k][x] \subseteq Known
               /\ \A b \in Known : b \in f[k][x] <=> (x \in Ancestors(b) /\ depth[b] <= depth[x] + k)
    BY <1>9
  <2>2. CASE k = 0
    <3>1. f[k][x] = {x} BY <1>6, <1>7, <2>2
    <3>2. ASSUME NEW b \in Known PROVE b = x <=> (x \in Ancestors(b) /\ depth[b] <= depth[x] + k)
      <4>1. depth[b] \in Nat /\ depth[x] \in Nat BY TreeTypes
      <4>2. b = x => x \in Ancestors(b) BY AncestorsAre
      <4>3. b = x => depth[b] <= depth[x] + k BY <2>2, <4>1
      <4>4. ASSUME x \in Ancestors(b), depth[b] <= depth[x] + k PROVE b = x BY <2>2, <4>1, <4>4, AncestorsAbove
      <4>5. QED BY <4>2, <4>3, <4>4
    <3>3. QED BY <3>1, <3>2
  <2>3. CASE k # 0
    <3>1. k - 1 \in S /\ r[k - 1] < r[k] /\ k \in Nat BY <1>2, <1>7, <1>8, <2>3
    <3>2. k - 1 \in P BY <1>10, <3>1
    <3>3. PICK C : C = ToSet(children[x]) OBVIOUS
    <3>4. C = {y \in Known : y # Root /\ parent[y] = x} BY <3>3, ChildrenAre
    <3>5. f[k][x] = {x} \cup UNION {f[k - 1][y] : y \in C} BY <1>6, <1>7, <2>3, <3>3
    <3>6. \A y \in C : f[k - 1][y] \subseteq Known BY <1>9, <3>2, <3>4
    <3>7. ASSUME NEW b \in Known PROVE b \in f[k][x] <=> (x \in Ancestors(b) /\ depth[b] <= depth[x] + k)
      <4>1. depth[b] \in Nat /\ depth[x] \in Nat BY TreeTypes
      <4>2. ASSUME NEW y \in C
            PROVE  b \in f[k - 1][y] <=> (y \in Ancestors(b) /\ depth[b] <= depth[x] + k)
        BY <1>9, <3>1, <3>2, <3>4, <4>1, TreeTypes
      <4>3. ASSUME b \in f[k][x] PROVE x \in Ancestors(b) /\ depth[b] <= depth[x] + k
        <5>1. CASE b = x BY <3>1, <4>1, <5>1, AncestorsAre
        <5>2. CASE b # x BY <3>4, <3>5, <4>2, <4>3, <5>2, AncestorsAre, AncestorsNest
        <5>3. QED BY <5>1, <5>2
      <4>4. ASSUME x \in Ancestors(b), depth[b] <= depth[x] + k PROVE b \in f[k][x]
        <5>1. CASE b = x BY <3>5, <5>1
        <5>2. CASE b # x BY <3>4, <3>5, <4>2, <4>4, <5>2, NextBelow
        <5>3. QED BY <5>1, <5>2
      <4>5. QED BY <4>3, <4>4
    <3>8. f[k][x] \subseteq Known BY <3>5, <3>6
    <3>9. QED BY <3>7, <3>8
  <2>4. QED BY <2>2, <2>3
<1>11. \A k \in S : r[k] \in Nat BY <1>7, <1>8
<1>12. n \in P
  <2>1. n \in S BY <1>2, <1>7
  <2>2. \A k \in S : k \in P BY <1>10, <1>11, RankInduction
  <2>3. QED BY <2>1, <2>2
<1>13. ASSUME NEW x \in Known, NEW b \in Known PROVE depth[b] <= depth[x] + n BY <1>1, <1>2, TreeTypes
<1>14. QED BY <1>5, <1>9, <1>12, <1>13

LEMMA TreeMeets == ASSUME Tree PROVE LCACorrect
<1>1. PICK above, below : above = [a \in Known |-> Ancestors(a)] /\ below = [a \in Known |-> Subtree(a)] OBVIOUS
<1>2. above \in [Known -> SUBSET Known] /\ below \in [Known -> SUBSET Known] BY <1>1, AncestorsAre, SubtreeIs
<1>3. ASSUME NEW a \in Known, NEW b \in Known
      PROVE  /\ LCA(a, b) \in above[a] \cap above[b]
             /\ \A x \in above[a] \cap above[b] : depth[x] <= depth[LCA(a, b)]
             /\ b \in below[a] <=> a \in above[b] BY <1>1, LCAIs, SubtreeIs DEF Meeting
<1>4. QED BY <1>1, <1>2, <1>3 DEF LCACorrect

-----------------------------------------------------------------------------
Reached(a, b) ==
  /\ depth[a] \in Nat /\ depth[b] \in Nat /\ depth[LCA(a, b)] \in Nat /\ LCA(a, b) \in Known
  /\ depth[LCA(a, b)] <= depth[a] /\ depth[LCA(a, b)] <= depth[b]

LEMMA MeetingNumbers == ASSUME Tree, NEW a \in Known, NEW b \in Known PROVE Reached(a, b)
BY LCAIs, AncestorsAre, AncestorsAbove, TreeTypes DEF Meeting, Reached

LEMMA DistanceType == ASSUME Tree, NEW a \in Known, NEW b \in Known PROVE Distance(a, b) \in Nat
BY MeetingNumbers DEF Reached, Distance

LEMMA DistanceZero == ASSUME Tree, NEW a \in Known, NEW b \in Known PROVE Distance(a, b) = 0 <=> a = b
<1>1. PICK m : m = LCA(a, b) OBVIOUS
<1>2. m \in Ancestors(a) /\ m \in Ancestors(b) BY <1>1, LCAIs DEF Meeting
<1>3. PICK i, j, k : i = depth[a] /\ j = depth[b] /\ k = depth[m] OBVIOUS
<1>4. i \in Nat /\ j \in Nat /\ k \in Nat /\ k <= i /\ k <= j BY <1>1, <1>3, MeetingNumbers DEF Reached
<1>5. Distance(a, b) = i + j - 2 * k BY <1>1, <1>3 DEF Distance
<1>6. Distance(a, b) = 0 => k = i /\ k = j BY <1>4, <1>5
<1>7. Distance(a, b) = 0 => a = b BY <1>2, <1>3, <1>6, AncestorsAbove
<1>8. ASSUME a = b PROVE Distance(a, b) = 0
  <2>1. a \in Ancestors(a) \cap Ancestors(b) BY <1>8, AncestorsAre
  <2>2. i <= k BY <1>1, <1>3, <2>1, LCAIs DEF Meeting
  <2>3. i = j BY <1>3, <1>8
  <2>4. QED BY <1>4, <1>5, <2>2, <2>3
<1>9. QED BY <1>7, <1>8

LEMMA DistanceOne ==
  ASSUME Tree, NEW a \in Known, NEW b \in Known, parent[a] = b, a # Root PROVE Distance(a, b) = 1
<1>1. PICK m : m = LCA(a, b) OBVIOUS
<1>2. Ancestors(a) = Ancestors(b) \cup {a} /\ b \in Ancestors(b) BY AncestorsAre
<1>3. PICK i, j, k : i = depth[a] /\ j = depth[b] /\ k = depth[m] OBVIOUS
<1>4. i \in Nat /\ j \in Nat /\ k \in Nat /\ k <= i /\ k <= j BY <1>1, <1>3, MeetingNumbers DEF Reached
<1>5. Distance(a, b) = i + j - 2 * k BY <1>1, <1>3 DEF Distance
<1>6. i = j + 1 BY <1>3, TreeTypes
<1>7. j <= k BY <1>1, <1>2, <1>3, LCAIs DEF Meeting
<1>8. QED BY <1>4, <1>5, <1>6, <1>7

\* Two places where b meets others are one above the other.
LEMMA NoShorterDetour ==
  ASSUME Tree, NEW a \in Known, NEW b \in Known, NEW c \in Known
  PROVE  Distance(a, c) <= Distance(a, b) + Distance(b, c)
<1>1. PICK m : m = LCA(a, b) OBVIOUS
<1>2. PICK n : n = LCA(b, c) OBVIOUS
<1>3. PICK l : l = LCA(a, c) OBVIOUS
<1>4. /\ m \in Ancestors(a) /\ m \in Ancestors(b) /\ n \in Ancestors(b) /\ n \in Ancestors(c)
      /\ \A x \in Ancestors(a) \cap Ancestors(c) : depth[x] <= depth[l]
  BY <1>1, <1>2, <1>3, LCAIs DEF Meeting
<1>5. PICK da, db, dc, dm, dn, dl : /\ da = depth[a] /\ db = depth[b] /\ dc = depth[c]
                                    /\ dm = depth[m] /\ dn = depth[n] /\ dl = depth[l] OBVIOUS
<1>6. /\ da \in Nat /\ db \in Nat /\ dc \in Nat /\ dm \in Nat /\ dn \in Nat /\ dl \in Nat
      /\ dm <= db /\ dn <= db
  BY <1>1, <1>2, <1>3, <1>5, MeetingNumbers DEF Reached
<1>7. /\ Distance(a, c) = da + dc - 2 * dl /\ Distance(a, b) = da + db - 2 * dm
      /\ Distance(b, c) = db + dc - 2 * dn
  BY <1>1, <1>2, <1>3, <1>5 DEF Distance
<1>8. CASE dm <= dn BY <1>4, <1>5, <1>6, <1>7, <1>8, AncestorsLine, AncestorsNest
<1>9. CASE dn <= dm BY <1>4, <1>5, <1>6, <1>7, <1>9, AncestorsLine, AncestorsNest
<1>10. QED BY <1>6, <1>8, <1>9

LEMMA TreeMetric == ASSUME Tree PROVE DistanceMetric
<1>1. PICK d : d = [pair \in Known \X Known |-> Distance(pair[1], pair[2])] OBVIOUS
<1>2. \A a, b \in Known : d[<<a, b>>] = Distance(a, b) BY <1>1
<1>3. d \in [Known \X Known -> Nat] BY <1>1, DistanceType
<1>4. ASSUME NEW a \in Known, NEW b \in Known PROVE d[<<a, b>>] = 0 <=> a = b BY <1>2, DistanceZero
<1>5. \A a, b \in Known : parent[a] = b /\ a # Root => d[<<a, b>>] = 1 BY <1>2, DistanceOne
<1>6. \A a, b, c \in Known : d[<<a, c>>] <= d[<<a, b>>] + d[<<b, c>>] BY <1>2, NoShorterDetour
<1>7. QED BY <1>1, <1>3, <1>4, <1>5, <1>6 DEF DistanceMetric

LEMMA LargerProduct ==
  ASSUME NEW k \in Nat, NEW i \in Nat, NEW j \in Nat, i <= j
  PROVE  k * (i * i) <= k * (j * j)
<1>1. PICK n \in Nat : j = i + n OBVIOUS
<1>2. j * j = i * i + (2 * (i * n) + n * n) BY <1>1
<1>3. PICK e \in Nat : e = 2 * (i * n) + n * n OBVIOUS
<1>4. PICK s \in Nat : s = i * i OBVIOUS
<1>5. k * (s + e) = k * s + k * e /\ k * e \in Nat /\ k * s \in Nat BY <1>3, <1>4
<1>6. QED BY <1>2, <1>3, <1>4, <1>5

LEMMA TreeClears == ASSUME Tree PROVE NearerClears
<1>1. MinSecurityCoeff \in Nat /\ MaxDistance \in Nat BY TopologyAssumption
<1>2. SUFFICES ASSUME NEW a \in Known, NEW b \in Known, NEW c \in Known, NEW e \in Known,
                      CanClearMacro(a, b), Distance(c, e) <= Distance(a, b), MinBond(c, e) >= MinBond(a, b)
               PROVE  CanClearMacro(c, e)
  BY DEF NearerClears
<1>3. PICK i, j : i = Distance(a, b) /\ j = Distance(c, e) OBVIOUS
<1>4. i \in Nat /\ j \in Nat /\ j <= i BY <1>2, <1>3, DistanceType
<1>5. MinBond(a, b) \in Nat /\ MinBond(c, e) \in Nat BY TreeTypes DEF MinBond
<1>6. Spread(a, b) = (1 + i) * (1 + i) /\ Spread(c, e) = (1 + j) * (1 + j) BY <1>3 DEF Spread
<1>7. MinSecurityCoeff * ((1 + j) * (1 + j)) <= MinSecurityCoeff * ((1 + i) * (1 + i)) BY <1>1, <1>4, LargerProduct
<1>8. CASE i <= MaxDistance BY <1>1, <1>3, <1>4, <1>8 DEF CanClearMacro
<1>9. CASE Secure(a, b)
  <2>1. PICK u, v : u = MinSecurityCoeff * ((1 + j) * (1 + j)) /\ v = MinSecurityCoeff * ((1 + i) * (1 + i)) OBVIOUS
  <2>2. u \in Nat /\ v \in Nat /\ u <= v BY <1>1, <1>4, <1>7, <2>1
  <2>3. MinBond(a, b) >= v BY <1>6, <1>9, <2>1 DEF Secure
  <2>4. MinBond(c, e) >= u BY <1>2, <1>5, <2>2, <2>3
  <2>5. Secure(c, e) BY <1>6, <2>1, <2>4 DEF Secure
  <2>6. QED BY <2>5 DEF CanClearMacro
<1>10. QED BY <1>2, <1>3, <1>8, <1>9 DEF CanClearMacro

-----------------------------------------------------------------------------
(* A community that joins is a leaf.                                       *)
LEMMA TreeStart == TreeInit => Tree
<1>. SUFFICES ASSUME TreeInit PROVE Tree OBVIOUS
<1>1. /\ parent = [c \in {Root} |-> Root] /\ depth = [c \in {Root} |-> 0]
      /\ children = [c \in {Root} |-> <<>>] /\ bond = [c \in {Root} |-> 0]
  BY DEF TreeInit
<1>2. Known = {Root} BY <1>1 DEF Known
<1>3. IsFiniteSet(Known) /\ Cardinality(Known) = 1 BY <1>2, FS_Singleton
<1>4. /\ parent[Root] = Root /\ depth[Root] = 0 /\ children[Root] = <<>> BY <1>1
<1>5. ToSet(children[Root]) = {} BY <1>4 DEF ToSet
<1>6. Linked BY <1>2, <1>4, <1>5 DEF Linked
<1>7. /\ parent \in [Known -> Known] /\ depth \in [Known -> Nat]
      /\ children \in [Known -> Seq(Known)] /\ bond \in [Known -> Nat] BY <1>1, <1>2
<1>8. Known \subseteq Communities BY <1>2, TopologyAssumption
<1>9. \A c \in Known : depth[c] < Cardinality(Known) BY <1>2, <1>3, <1>4
<1>10. QED BY <1>2, <1>3, <1>6, <1>7, <1>8, <1>9 DEF Tree

LEMMA AddedIs ==
  ASSUME Tree, NEW c \in Communities, NEW p, NEW amount \in Bonds, AddCommunity(c, p, amount)
  PROVE  /\ p \in Known /\ c \notin Known /\ c # Root /\ c # p /\ Known' = Known \cup {c}
         /\ DOMAIN parent' = Known' /\ DOMAIN depth' = Known' /\ DOMAIN children' = Known' /\ DOMAIN bond' = Known'
         /\ parent'[c] = p /\ depth'[c] = depth[p] + 1 /\ children'[c] = <<>> /\ bond'[c] = amount
         /\ children'[p] = Append(children[p], c)
         /\ \A x \in Known : parent'[x] = parent[x] /\ depth'[x] = depth[x] /\ bond'[x] = bond[x]
         /\ \A x \in Known : x # p => children'[x] = children[x]
BY DEF Tree, AddCommunity, With, Below, Known

LEMMA AddKeepsTree ==
  ASSUME Tree, NEW c \in Communities, NEW p, NEW amount \in Bonds, AddCommunity(c, p, amount)
  PROVE  Tree'
<1>1. PICK K : K = Known OBVIOUS
<1>2. PICK L : L = Known' OBVIOUS
<1>3. /\ p \in K /\ c \notin K /\ c # Root /\ c # p /\ L = K \cup {c}
      /\ DOMAIN parent' = L /\ DOMAIN depth' = L /\ DOMAIN children' = L /\ DOMAIN bond' = L
      /\ parent'[c] = p /\ depth'[c] = depth[p] + 1 /\ children'[c] = <<>> /\ bond'[c] = amount
      /\ children'[p] = Append(children[p], c)
      /\ \A x \in K : parent'[x] = parent[x] /\ depth'[x] = depth[x] /\ bond'[x] = bond[x]
      /\ \A x \in K : x # p => children'[x] = children[x]
  BY <1>1, <1>2, AddedIs
<1>4. /\ IsFiniteSet(K) /\ Root \in K /\ K \subseteq Communities /\ Cardinality(K) \in Nat
      /\ \A x \in K : parent[x] \in K /\ depth[x] \in Nat /\ bond[x] \in Nat /\ depth[x] < Cardinality(K) /\ children[x] \in Seq(K)
      /\ \A x \in K : depth[x] = 0 <=> x = Root
      /\ \A x \in K : x # Root => depth[x] = depth[parent[x]] + 1
      /\ \A x, y \in K : y \in ToSet(children[x]) <=> (y # Root /\ parent[y] = x)
  BY <1>1, TreeTypes DEF Tree, Linked
<1>5. IsFiniteSet(L) /\ Cardinality(L) = Cardinality(K) + 1 BY <1>3, <1>4, FS_AddElement
<1>6. parent' \in [L -> L] /\ depth' \in [L -> Nat] /\ bond' \in [L -> Nat]
  <2>1. amount \in Nat BY TopologyAssumption
  <2>2. ASSUME NEW x \in L PROVE parent'[x] \in L /\ depth'[x] \in Nat /\ bond'[x] \in Nat
    <3>1. CASE x = c BY <1>3, <1>4, <2>1, <3>1
    <3>2. CASE x \in K BY <1>3, <1>4, <3>2
    <3>3. QED BY <1>3, <3>1, <3>2
  <2>3. parent' = [x \in L |-> parent'[x]] /\ depth' = [x \in L |-> depth'[x]] /\ bond' = [x \in L |-> bond'[x]]
    BY <1>2, <1>3 DEF AddCommunity, With
  <2>4. QED BY <2>2, <2>3
<1>7. \A s \in Seq(K) : s \in Seq(L) BY <1>3, ElementOfSeq, LenProperties, SeqDef
<1>8. children' \in [L -> Seq(L)]
  <2>1. ASSUME NEW x \in L PROVE children'[x] \in Seq(L)
    <3>1. CASE x = c BY <1>3, <3>1
    <3>2. CASE x = p
      <4>1. children[p] \in Seq(L) BY <1>3, <1>4, <1>7
      <4>2. Append(children[p], c) \in Seq(L) BY <1>3, <4>1, AppendProperties
      <4>3. QED BY <1>3, <3>2, <4>2
    <3>3. CASE x \in K /\ x # p BY <1>3, <1>4, <1>7, <3>3
    <3>4. QED BY <1>3, <3>1, <3>2, <3>3
  <2>2. children' = [x \in DOMAIN children' |-> children'[x]] BY DEF AddCommunity, With
  <2>3. children' = [x \in L |-> children'[x]] BY <1>3, <2>2
  <2>4. QED BY <2>1, <2>3
<1>9. \A x \in L : depth'[x] < Cardinality(L) BY <1>3, <1>4, <1>5
<1>10. \A x \in L : depth'[x] = 0 <=> x = Root BY <1>3, <1>4
<1>11. \A x \in L : x # Root => depth'[x] = depth'[parent'[x]] + 1 BY <1>3, <1>4
<1>12. \A x, y \in L : y \in ToSet(children'[x]) <=> (y # Root /\ parent'[y] = x)
  <2>1. ASSUME NEW s \in Seq(K) PROVE ToSet(s) \subseteq K /\ ToSet(Append(s, c)) = ToSet(s) \cup {c}
    <3>1. PICK t : t = Append(s, c) OBVIOUS
    <3>2. s \in Seq(L) BY <1>7
    <3>3. Len(t) = Len(s) + 1 /\ t[Len(s) + 1] = c /\ (\A k \in 1..Len(s) : t[k] = s[k]) /\ t \in Seq(L)
      BY <1>3, <3>1, <3>2, AppendProperties
    <3>4. DOMAIN s = 1..Len(s) /\ DOMAIN t = 1..Len(t) /\ Len(s) \in Nat BY <3>2, <3>3, LenProperties
    <3>5. DOMAIN t = DOMAIN s \cup {Len(s) + 1} BY <3>3, <3>4
    <3>6. {t[k] : k \in DOMAIN t} = {s[k] : k \in DOMAIN s} \cup {c} BY <3>3, <3>4, <3>5
    <3>7. \A k \in DOMAIN s : s[k] \in K BY <3>4, ElementOfSeq
    <3>8. QED BY <3>1, <3>6, <3>7 DEF ToSet
  <2>2. SUFFICES ASSUME NEW x \in L, NEW y \in L PROVE y \in ToSet(children'[x]) <=> (y # Root /\ parent'[y] = x) OBVIOUS
  <2>3. CASE x = c
    <3>1. ToSet(children'[x]) = {} BY <1>3, <2>3 DEF ToSet
    <3>2. \A z \in L : parent'[z] # c BY <1>3, <1>4
    <3>3. QED BY <2>3, <3>1, <3>2
  <2>4. CASE x = p
    <3>1. ToSet(children'[x]) = ToSet(children[p]) \cup {c} /\ ToSet(children[p]) \subseteq K BY <1>3, <1>4, <2>1, <2>4
    <3>2. CASE y = c BY <1>3, <2>4, <3>1, <3>2
    <3>3. CASE y \in K BY <1>3, <1>4, <2>4, <3>1, <3>3
    <3>4. QED BY <1>3, <3>2, <3>3
  <2>5. CASE x \in K /\ x # p BY <1>3, <1>4, <2>1, <2>5
  <2>6. QED BY <1>3, <2>3, <2>4, <2>5
<1>13. Linked' BY <1>2, <1>10, <1>11, <1>12 DEF Linked
<1>14. Root \in L /\ L \subseteq Communities BY <1>3, <1>4
<1>15. QED BY <1>2, <1>5, <1>6, <1>8, <1>9, <1>13, <1>14 DEF Tree

-----------------------------------------------------------------------------
(* What a slashing takes: each of the levels is another ancestor, below    *)
(* the root, and loses one share.                                          *)
LEMMA LevelsAre ==
  ASSUME Tree, NEW c \in Known
  PROVE  /\ IsFiniteSet(Levels(c)) /\ Levels(c) \subseteq 1..depth[c] /\ Levels(c) \subseteq Nat
         /\ \A l \in Levels(c) : /\ AtLevel(c, l) \in Known /\ AtLevel(c, l) \in Ancestors(c) \ {Root}
                                 /\ depth[AtLevel(c, l)] = l
<1>1. depth[c] \in Nat BY TreeTypes
<1>2. PICK n \in Nat : Levels(c) = 1..n /\ n <= depth[c]
  <2>1. CASE depth[c] < 3 BY <1>1, <2>1 DEF Levels
  <2>2. CASE ~(depth[c] < 3) BY <1>1, <2>2 DEF Levels
  <2>3. QED BY <2>1, <2>2
<1>3. IsFiniteSet(Levels(c))
  <2>1. 1 \in Int /\ n \in Int OBVIOUS
  <2>2. IsFiniteSet(1..n) BY <2>1, FS_Interval, Zenon
  <2>3. QED BY <1>2, <2>2
<1>4. Levels(c) \subseteq 1..depth[c] /\ Levels(c) \subseteq Nat BY <1>1, <1>2
<1>5. PICK s : s = AncestorChain(c) OBVIOUS
<1>6. s \in Seq(Known) /\ Len(s) = depth[c] + 1 /\ \A k \in 1..(depth[c] + 1) : depth[s[k]] = k - 1
  BY <1>5, ChainShaped DEF Shaped
<1>7. ASSUME NEW l \in Levels(c)
      PROVE  AtLevel(c, l) \in Known /\ AtLevel(c, l) \in Ancestors(c) \ {Root} /\ depth[AtLevel(c, l)] = l
  <2>1. PICK k : k = l + 1 OBVIOUS
  <2>2. l \in Nat /\ l # 0 /\ k \in 1..Len(s) /\ k - 1 = l BY <1>1, <1>4, <1>6, <2>1
  <2>3. AtLevel(c, l) = s[k] BY <1>5, <2>1 DEF AtLevel
  <2>4. s[k] \in Known BY <1>6, <2>2, ElementOfSeq
  <2>5. depth[s[k]] = l BY <1>6, <2>2
  <2>6. k \in DOMAIN s BY <1>6, <2>2, LenProperties
  <2>7. s[k] \in Ancestors(c) BY <1>5, <2>6 DEF Ancestors, ToSet
  <2>8. s[k] # Root BY <2>2, <2>5, TreeTypes
  <2>9. QED BY <2>3, <2>4, <2>5, <2>7, <2>8
<1>8. QED BY <1>3, <1>4, <1>7

LEMMA ShareBounds ==
  ASSUME Tree, NEW x \in Known, NEW l
  PROVE  Share(x, l) \in Nat /\ Share(x, l) <= bond[x] /\ 100 * Share(x, l) <= 30 * bond[x]
<1>1. PICK p : p = Percent(l) OBVIOUS
<1>2. p \in Nat /\ p <= 30 BY <1>1 DEF Percent
<1>3. PICK b \in Nat : b = bond[x] BY TreeTypes
<1>4. PICK z \in Nat : z = b * p BY <1>2, <1>3
<1>5. z <= 30 * b
  <2>1. PICK e \in Nat : 30 = p + e BY <1>2
  <2>2. 30 * b = (p + e) * b BY <2>1
  <2>3. (p + e) * b = b * p + b * e /\ b * e \in Nat BY <1>2, <1>3, <2>1
  <2>4. QED BY <1>3, <1>4, <2>2, <2>3
<1>6. PICK q, r : q = z \div 100 /\ r = z % 100 OBVIOUS
<1>7. z = 100 * q + r /\ q \in Int /\ r \in 0..99 BY <1>6, DivisionWithRest
<1>8. q \in Nat /\ 100 * q <= 30 * b /\ q <= b BY <1>3, <1>4, <1>5, <1>7
<1>9. Share(x, l) = q BY <1>1, <1>3, <1>4, <1>6 DEF Share
<1>10. QED BY <1>3, <1>8, <1>9

LEMMA ForfeitAtLevel ==
  ASSUME Tree, NEW c \in Known, NEW x \in Known, x # c,
         NEW l \in Levels(c), AtLevel(c, l) = x
  PROVE  Forfeit(c, x) = Share(x, l)
<1>1. PICK F : F = [k \in Levels(c) |-> IF AtLevel(c, k) = x THEN Share(x, k) ELSE 0] OBVIOUS
<1>2. Forfeit(c, x) = SumFunctionOnSet(F, Levels(c)) BY <1>1 DEF Forfeit, SumFunction
<1>3. IsFiniteSet(Levels(c)) BY LevelsAre
<1>4. \A k \in Levels(c) : F[k] \in Int BY <1>1, ShareBounds
<1>5. SumFunctionOnSet(F, Levels(c)) = F[l] + SumFunctionOnSet(F, Levels(c) \ {l}) BY <1>3, <1>4, SumRemove
<1>6. \A k \in Levels(c) \ {l} : F[k] = 0 BY <1>1, LevelsAre
<1>7. IsFiniteSet(Levels(c) \ {l}) BY <1>3, FS_Difference
<1>8. SumFunctionOnSet(F, Levels(c) \ {l}) = 0 BY <1>6, <1>7, SumZero
<1>9. F[l] = Share(x, l) /\ Share(x, l) \in Nat BY <1>1, ShareBounds
<1>10. QED BY <1>2, <1>5, <1>8, <1>9

LEMMA ForfeitElsewhere ==
  ASSUME Tree, NEW c \in Known, NEW x \in Known, x # c, \A l \in Levels(c) : AtLevel(c, l) # x
  PROVE  Forfeit(c, x) = 0
BY LevelsAre, SumZero DEF Forfeit, SumFunction

LEMMA ForfeitBounds ==
  ASSUME Tree, NEW c \in Known, NEW x \in Known
  PROVE  /\ Forfeit(c, x) \in Nat /\ Forfeit(c, x) <= bond[x]
         /\ x # c /\ Forfeit(c, x) # 0 => x \in Ancestors(c) \ {Root} /\ 100 * Forfeit(c, x) <= 30 * bond[x]
         /\ x = c => Forfeit(c, x) = bond[x]
<1>1. bond[x] \in Nat BY TreeTypes
<1>2. CASE x = c BY <1>1, <1>2 DEF Forfeit
<1>3. CASE x # c /\ \E l \in Levels(c) : AtLevel(c, l) = x BY <1>3, ForfeitAtLevel, LevelsAre, ShareBounds
<1>4. CASE x # c /\ \A l \in Levels(c) : AtLevel(c, l) # x BY <1>1, <1>4, ForfeitElsewhere
<1>5. QED BY <1>2, <1>3, <1>4

\* What is counted is what was taken.
LEMMA CollectedIs ==
  ASSUME Tree, NEW c \in Known, NEW F, F = [x \in Known |-> Forfeit(c, x)]
  PROVE  Collected(c) = SumFunctionOnSet(F, Known) /\ Collected(c) \in Int
<1>1. PICK L : L = Levels(c) OBVIOUS
<1>2. PICK V : V = [l \in L |-> IF AtLevel(c, l) = c THEN 0 ELSE Share(AtLevel(c, l), l)] OBVIOUS
<1>3. Collected(c) = bond[c] + SumFunctionOnSet(V, L) BY <1>1, <1>2 DEF Collected, SumFunction
<1>4. PICK e : e = [l \in L |-> AtLevel(c, l)] OBVIOUS
<1>5. IsFiniteSet(L) /\ \A l \in L : e[l] \in Known /\ depth[e[l]] = l /\ e[l] = AtLevel(c, l) BY <1>1, <1>4, LevelsAre
<1>6. PICK M : M = {l \in L : e[l] # c} OBVIOUS
<1>7. PICK Q : Q = {e[l] : l \in M} OBVIOUS
<1>8. IsFiniteSet(M) /\ IsFiniteSet(L \ M) /\ L = M \cup (L \ M) /\ M \cap (L \ M) = {}
  BY <1>5, <1>6, FS_Subset, FS_Difference
<1>9. Q \subseteq Known \ {c} BY <1>5, <1>6, <1>7
<1>10. IsFiniteSet(Known) BY TreeTypes
<1>11. \A x \in Known : F[x] \in Nat BY ForfeitBounds
<1>12. SumFunctionOnSet(F, Known) = F[c] + SumFunctionOnSet(F, Known \ {c}) BY <1>10, <1>11, SumRemove
<1>13. F[c] = bond[c] BY DEF Forfeit
<1>14. PICK R : R = (Known \ {c}) \ Q OBVIOUS
<1>15. Known \ {c} = Q \cup R /\ Q \cap R = {} /\ IsFiniteSet(Q) /\ IsFiniteSet(R)
  BY <1>9, <1>10, <1>14, FS_Subset
<1>16. SumFunctionOnSet(F, Known \ {c}) = SumFunctionOnSet(F, Q) + SumFunctionOnSet(F, R) BY <1>11, <1>15, SumUnion
<1>17. SumFunctionOnSet(F, R) = 0
  <2>1. ASSUME NEW x \in R PROVE F[x] = 0 BY <1>1, <1>5, <1>6, <1>7, <1>14, <2>1, ForfeitElsewhere
  <2>2. QED BY <1>15, <2>1, SumZero
<1>18. PICK W : W = [l \in M |-> F[e[l]]] OBVIOUS
<1>19. SumFunctionOnSet(F, Q) = SumFunctionOnSet(W, M) BY <1>5, <1>6, <1>7, <1>8, <1>11, <1>18, SumImage
<1>20. ASSUME NEW l \in M PROVE W[l] = V[l] /\ V[l] \in Int
  BY <1>1, <1>2, <1>5, <1>6, <1>18, ForfeitAtLevel, ShareBounds
<1>21. SumFunctionOnSet(W, M) = SumFunctionOnSet(V, M) BY <1>8, <1>20, SumSame
<1>22. \A l \in L \ M : V[l] = 0 BY <1>2, <1>5, <1>6
<1>23. SumFunctionOnSet(V, L \ M) = 0 BY <1>8, <1>22, SumZero
<1>24. SumFunctionOnSet(V, L) = SumFunctionOnSet(V, M) + SumFunctionOnSet(V, L \ M) BY <1>8, <1>20, <1>22, SumUnion
<1>25. SumFunctionOnSet(V, M) \in Int BY <1>8, <1>20, SumType
<1>26. bond[c] \in Int BY TreeTypes
<1>27. QED BY <1>3, <1>12, <1>13, <1>16, <1>17, <1>19, <1>21, <1>23, <1>24, <1>25, <1>26

-----------------------------------------------------------------------------
(* The bonds: with the communities, or counted.                            *)
Bonded ==
  /\ Tree /\ totalForfeited \in Int /\ deposited \in Int
  /\ deposited = totalForfeited + SumFunctionOnSet(bond, Known)

LEMMA BondedStart == SlashingInit => Bonded
<1>. SUFFICES ASSUME SlashingInit PROVE Bonded OBVIOUS
<1>1. Tree BY TreeStart DEF SlashingInit
<1>2. totalForfeited = 0 /\ deposited = 0 BY DEF SlashingInit
<1>3. \A x \in Known : bond[x] = 0 BY DEF SlashingInit, TreeInit, Known
<1>4. SumFunctionOnSet(bond, Known) = 0 BY <1>1, <1>3, SumZero DEF Tree
<1>5. QED BY <1>1, <1>2, <1>4 DEF Bonded

LEMMA JoinKeepsBonded ==
  ASSUME Bonded, NEW c \in Communities, NEW p, NEW amount \in Bonds, Join(c, p, amount)
  PROVE  Bonded'
<1>1. AddCommunity(c, p, amount) /\ deposited' = deposited + amount /\ totalForfeited' = totalForfeited BY DEF Join
<1>2. Tree BY DEF Bonded
<1>3. Tree' BY <1>1, <1>2, AddKeepsTree
<1>4. c \notin Known /\ Known' = Known \cup {c} /\ bond'[c] = amount /\ \A x \in Known : bond'[x] = bond[x]
  BY <1>1, <1>2, AddedIs
<1>5. amount \in Nat BY TopologyAssumption
<1>6. PICK K, L, f, g : K = Known /\ L = Known' /\ f = bond /\ g = bond' OBVIOUS
<1>7. IsFiniteSet(K) /\ c \notin K /\ L = K \cup {c} /\ g[c] = amount /\ \A x \in K : g[x] = f[x] /\ f[x] \in Int
  BY <1>2, <1>4, <1>6, TreeTypes
<1>8. \A x \in K \cup {c} : g[x] \in Int BY <1>5, <1>7
<1>9. SumFunctionOnSet(g, K \cup {c}) = g[c] + SumFunctionOnSet(g, K) BY <1>7, <1>8, SumAdd
<1>10. SumFunctionOnSet(g, K) = SumFunctionOnSet(f, K) BY <1>7, SumSame
<1>11. SumFunctionOnSet(f, K) \in Int BY <1>7, SumType
<1>12. totalForfeited \in Int /\ deposited \in Int /\ deposited = totalForfeited + SumFunctionOnSet(f, K)
  BY <1>6 DEF Bonded
<1>13. deposited' \in Int /\ deposited' = totalForfeited + SumFunctionOnSet(g, L)
  BY <1>1, <1>5, <1>7, <1>9, <1>10, <1>11, <1>12
<1>14. QED BY <1>1, <1>3, <1>6, <1>12, <1>13 DEF Bonded

LEMMA BeginIs ==
  ASSUME Tree, NEW c, NEW reason, SlashBegin(c, reason)
  PROVE  /\ c \in Known /\ Known' = Known /\ bond' \in [Known -> Nat]
         /\ \A x \in Known : bond'[x] = bond[x] - Forfeit(c, x)
<1>1. c \in Known /\ bond' = [x \in Known |-> bond[x] - Forfeit(c, x)] BY DEF SlashBegin
<1>2. Known' = Known BY <1>1 DEF Known
<1>3. ASSUME NEW x \in Known PROVE bond[x] - Forfeit(c, x) \in Nat BY <1>1, ForfeitBounds, TreeTypes
<1>4. QED BY <1>1, <1>2, <1>3

LEMMA SameTree ==
  ASSUME Tree, UNCHANGED <<parent, depth, children>>, Known' = Known, bond' \in [Known -> Nat] PROVE Tree'
BY DEF Tree, Linked

LEMMA BeginKeepsBonded ==
  ASSUME Bonded, NEW c, NEW reason, SlashBegin(c, reason) PROVE Bonded'
<1>1. Tree BY DEF Bonded
<1>2. /\ c \in Known /\ Known' = Known /\ bond' \in [Known -> Nat]
      /\ \A x \in Known : bond'[x] = bond[x] - Forfeit(c, x)
  BY <1>1, BeginIs
<1>3. totalForfeited' = totalForfeited + Collected(c) /\ UNCHANGED <<parent, depth, children, deposited>> BY DEF SlashBegin
<1>4. Tree' BY <1>1, <1>2, <1>3, SameTree
<1>5. PICK F : F = [x \in Known |-> Forfeit(c, x)] OBVIOUS
<1>6. Collected(c) = SumFunctionOnSet(F, Known) /\ Collected(c) \in Int BY <1>1, <1>2, <1>5, CollectedIs
<1>7. PICK K, f, g : K = Known /\ f = bond /\ g = bond' OBVIOUS
<1>8. IsFiniteSet(K) /\ \A x \in K : f[x] \in Int /\ F[x] \in Int /\ g[x] \in Int /\ f[x] = g[x] + F[x]
  <2>1. IsFiniteSet(K) BY <1>1, <1>7, TreeTypes
  <2>2. ASSUME NEW x \in K PROVE f[x] \in Int /\ F[x] \in Int /\ g[x] \in Int /\ f[x] = g[x] + F[x]
    BY <1>1, <1>2, <1>5, <1>7, ForfeitBounds, TreeTypes
  <2>3. QED BY <2>1, <2>2
<1>9. SumFunctionOnSet(f, K) = SumFunctionOnSet(g, K) + SumFunctionOnSet(F, K) BY <1>8, SumPlus
<1>10. SumFunctionOnSet(g, K) \in Int /\ SumFunctionOnSet(F, K) \in Int BY <1>8, SumType
<1>11. totalForfeited \in Int /\ deposited \in Int /\ deposited = totalForfeited + SumFunctionOnSet(f, K)
  BY <1>7 DEF Bonded
<1>12. deposited = totalForfeited' + SumFunctionOnSet(g, K) /\ totalForfeited' \in Int
  BY <1>3, <1>6, <1>7, <1>9, <1>10, <1>11
<1>13. QED BY <1>2, <1>3, <1>4, <1>7, <1>11, <1>12 DEF Bonded

LEMMA SameBonded ==
  ASSUME Bonded, UNCHANGED treeVars, UNCHANGED <<totalForfeited, deposited>> PROVE Bonded'
BY SameTree DEF treeVars, Known, Bonded, Tree

LEMMA SlashingStepKinds ==
  ASSUME [SlashingNext]_slashingVars
  PROVE  \/ \E c, p \in Communities, amount \in Bonds : Join(c, p, amount)
         \/ \E c \in Offenders, reason \in Reasons : SlashBegin(c, reason)
         \/ UNCHANGED <<treeVars, totalForfeited, deposited>>
<1>1. CASE SlashingNext BY <1>1 DEF SlashEdge, SlashOwnEdges, SlashEnd, RemoveFromBlacklist, Diplomacy, SlashingNext
<1>2. CASE UNCHANGED slashingVars BY <1>2 DEF slashingVars, slashVars
<1>3. QED BY <1>1, <1>2

LEMMA BondedStep == Bonded /\ [SlashingNext]_slashingVars => Bonded'
BY JoinKeepsBonded, BeginKeepsBonded, SameBonded, SlashingStepKinds

LEMMA LiableStep ==
  ASSUME Bonded, [SlashingNext]_slashingVars
  PROVE  \A x \in Known : bond'[x] # bond[x] =>
           LET c == slashing'.c IN
           \/ x = c /\ bond'[x] = 0
           \/ /\ x \in Ancestors(c) \ {Root}
              /\ 100 * (bond[x] - bond'[x]) <= 30 * bond[x]
<1>1. Tree BY DEF Bonded
<1>2. CASE \E c, p \in Communities, amount \in Bonds : Join(c, p, amount) BY <1>1, <1>2, AddedIs DEF Join
<1>3. CASE \E c \in Offenders, reason \in Reasons : SlashBegin(c, reason)
  <2>1. PICK c \in Offenders, reason \in Reasons : SlashBegin(c, reason) BY <1>3
  <2>2. slashing'.c = c BY <2>1 DEF SlashBegin
  <2>3. c \in Known /\ \A x \in Known : bond'[x] = bond[x] - Forfeit(c, x) BY <1>1, <2>1, BeginIs
  <2>4. ASSUME NEW x \in Known, bond'[x] # bond[x]
        PROVE  \/ x = c /\ bond'[x] = 0
               \/ x \in Ancestors(c) \ {Root} /\ 100 * (bond[x] - bond'[x]) <= 30 * bond[x]
    <3>1. PICK i, j : i = bond[x] /\ j = Forfeit(c, x) OBVIOUS
    <3>2. i \in Nat /\ j \in Nat BY <1>1, <2>3, <3>1, ForfeitBounds, TreeTypes
    <3>3. bond'[x] = i - j BY <2>3, <3>1
    <3>4. j # 0 BY <2>4, <3>1, <3>2, <3>3
    <3>5. i - (i - j) = j BY <3>2
    <3>6. CASE x = c BY <1>1, <2>3, <3>1, <3>2, <3>3, <3>6, ForfeitBounds
    <3>7. CASE x # c BY <1>1, <2>3, <3>1, <3>3, <3>4, <3>5, <3>7, ForfeitBounds
    <3>8. QED BY <3>6, <3>7
  <2>5. QED BY <2>2, <2>4
<1>4. CASE UNCHANGED <<treeVars, totalForfeited, deposited>> BY <1>4 DEF treeVars
<1>5. QED BY <1>2, <1>3, <1>4, SlashingStepKinds

-----------------------------------------------------------------------------
(* The edges.  Of two edges of the same parties that are not severed, one  *)
(* was open when the other was proposed: that is kept by every step, which *)
(* the same of two active edges is not.                                    *)
EdgeRecord == [bondA : Nat, bondB : Nat, status : {"proposed", "active", "frozen", "severed"}]
Totals(es) == [id \in DOMAIN es |-> es[id].bondA + es[id].bondB]

Paired ==
  \A e, f \in DOMAIN edges :
    e # f /\ PartiesOf(e) = PartiesOf(f) /\ Status(e) # "severed" /\ Status(f) # "severed" =>
      e \in openAt[f] \/ f \in openAt[e]

Edged ==
  /\ IsFiniteSet(DOMAIN edges) /\ DOMAIN openAt = DOMAIN edges /\ proposals \in Nat
  /\ \A id \in DOMAIN edges : edges[id] \in EdgeRecord
  /\ staked \in Int /\ slashed \in Int /\ displaced \in Int
  /\ staked = slashed + displaced + SumFunctionOnSet(Totals(edges), DOMAIN edges)
  /\ Paired

LEMMA EdgedStart == EdgesInit => Edged
<1>. SUFFICES ASSUME EdgesInit PROVE Edged OBVIOUS
<1>1. edges = <<>> /\ openAt = <<>> /\ proposals = 0 /\ staked = 0 /\ slashed = 0 /\ displaced = 0 BY DEF EdgesInit
<1>2. DOMAIN edges = {} /\ DOMAIN openAt = {} BY <1>1
<1>3. IsFiniteSet(DOMAIN edges) BY <1>2, FS_EmptySet
<1>4. SumFunctionOnSet(Totals(edges), DOMAIN edges) = 0 BY <1>2, SumEmpty
<1>5. QED BY <1>1, <1>2, <1>3, <1>4 DEF Edged, Paired

LEMMA TotalsType ==
  ASSUME NEW es, \A id \in DOMAIN es : es[id] \in EdgeRecord
  PROVE  \A id \in DOMAIN es : Totals(es)[id] = es[id].bondA + es[id].bondB /\ Totals(es)[id] \in Nat
BY DEF Totals, EdgeRecord

\* One edge changes, and what it no longer holds was slashed.
LEMMA EdgeKept ==
  ASSUME Edged, NEW id \in DOMAIN edges, NEW rec \in EdgeRecord,
         DOMAIN edges' = DOMAIN edges, edges'[id] = rec,
         \A e \in DOMAIN edges : e # id => edges'[e] = edges[e],
         UNCHANGED <<proposals, openAt, staked, displaced>>,
         slashed' = slashed + (edges[id].bondA + edges[id].bondB) - (rec.bondA + rec.bondB),
         rec.status # "severed" => Status(id) # "severed"
  PROVE  Edged'
<1>1. \A e \in DOMAIN edges' : edges'[e] \in EdgeRecord BY DEF Edged
<1>2. PICK D, f, g : D = DOMAIN edges /\ f = Totals(edges) /\ g = Totals(edges') OBVIOUS
<1>3. /\ IsFiniteSet(D) /\ \A e \in D : f[e] \in Int
      /\ f[id] = edges[id].bondA + edges[id].bondB /\ f[id] \in Int
      /\ g[id] = rec.bondA + rec.bondB /\ g[id] \in Int
  BY <1>1, <1>2, TotalsType DEF Edged
<1>4. \A e \in D \ {id} : g[e] = f[e] BY <1>1, <1>2, TotalsType DEF Edged
<1>5. SumFunctionOnSet(g, D) = SumFunctionOnSet(f, D) - f[id] + g[id] BY <1>2, <1>3, <1>4, SumChange
<1>6. SumFunctionOnSet(f, D) \in Int BY <1>3, SumType
<1>7. /\ staked \in Int /\ slashed \in Int /\ displaced \in Int
      /\ staked = slashed + displaced + SumFunctionOnSet(f, D)
  BY <1>2 DEF Edged
<1>8. slashed' = slashed + f[id] - g[id] BY <1>3
<1>9. slashed' \in Int /\ staked = slashed' + displaced + SumFunctionOnSet(g, D) BY <1>3, <1>5, <1>6, <1>7, <1>8
<1>10. \A e \in DOMAIN edges : edges'[e].status # "severed" => Status(e) # "severed" BY DEF Status
<1>11. Paired' BY <1>10 DEF Edged, Paired, Status, PartiesOf
<1>12. QED BY <1>1, <1>2, <1>7, <1>9, <1>11 DEF Edged

LEMMA SetKeepsEdged ==
  ASSUME Edged, NEW id \in DOMAIN edges, NEW s \in {"active", "frozen"},
         Status(id) # "severed", SetEdge(id, s)
  PROVE  Edged'
<1>1. edges' = [edges EXCEPT ![id].status = s] /\ UNCHANGED <<proposals, openAt, staked, slashed, displaced>>
  BY DEF SetEdge, edgeHistory
<1>2. PICK rec : rec = [edges[id] EXCEPT !.status = s] OBVIOUS
<1>3. edges[id] \in EdgeRecord BY DEF Edged
<1>4. rec \in EdgeRecord /\ rec.bondA = edges[id].bondA /\ rec.bondB = edges[id].bondB BY <1>2, <1>3 DEF EdgeRecord
<1>5. DOMAIN edges' = DOMAIN edges /\ edges'[id] = rec /\ \A e \in DOMAIN edges : e # id => edges'[e] = edges[e]
  BY <1>1, <1>2
<1>6. PICK i, j : i = edges[id].bondA /\ j = edges[id].bondB OBVIOUS
<1>7. i \in Nat /\ j \in Nat /\ slashed \in Int BY <1>3, <1>6 DEF EdgeRecord, Edged
<1>8. slashed = slashed + (i + j) - (i + j) BY <1>7
<1>9. slashed' = slashed + (edges[id].bondA + edges[id].bondB) - (rec.bondA + rec.bondB) BY <1>1, <1>4, <1>6, <1>8
<1>10. QED BY <1>1, <1>4, <1>5, <1>9, EdgeKept

LEMMA SeveredIs ==
  ASSUME Edged, NEW id \in DOMAIN edges, NEW party, SeverEdge(id, party)
  PROVE  /\ DOMAIN edges' = DOMAIN edges /\ edges'[id] = Severed(id, party) /\ Severed(id, party).status = "severed"
         /\ \A e \in DOMAIN edges : e # id => edges'[e] = edges[e]
BY DEF SeverEdge, Edged, Severed, EdgeRecord

LEMMA SeverKeepsEdged ==
  ASSUME Edged, NEW id \in DOMAIN edges, NEW party, SeverEdge(id, party)
  PROVE  Edged'
<1>1. PICK rec : rec = Severed(id, party) OBVIOUS
<1>2. PICK old : old = edges[id] OBVIOUS
<1>3. old \in EdgeRecord BY <1>2 DEF Edged
<1>4. rec \in EdgeRecord /\ rec.status = "severed"
      /\ rec.bondA = (IF party = id[1] THEN 0 ELSE old.bondA) /\ rec.bondB = (IF party = id[1] THEN old.bondB ELSE 0)
  BY <1>1, <1>2, <1>3 DEF Severed, EdgeRecord
<1>5. /\ DOMAIN edges' = DOMAIN edges /\ edges'[id] = rec
      /\ \A e \in DOMAIN edges : e # id => edges'[e] = edges[e]
  BY <1>1, SeveredIs
<1>6. /\ slashed' = slashed + (IF party = id[1] THEN old.bondA ELSE old.bondB)
      /\ UNCHANGED <<proposals, openAt, staked, displaced>>
  BY <1>2 DEF SeverEdge
<1>7. old.bondA \in Nat /\ old.bondB \in Nat /\ slashed \in Int BY <1>3 DEF EdgeRecord, Edged
<1>8. slashed' = slashed + (old.bondA + old.bondB) - (rec.bondA + rec.bondB)
  <2>1. PICK i, j \in Nat : i = old.bondA /\ j = old.bondB BY <1>7
  <2>2. CASE party = id[1] BY <1>4, <1>6, <1>7, <2>1, <2>2
  <2>3. CASE party # id[1] BY <1>4, <1>6, <1>7, <2>1, <2>3
  <2>4. QED BY <2>2, <2>3
<1>9. slashed' = slashed + (edges[id].bondA + edges[id].bondB) - (rec.bondA + rec.bondB) BY <1>2, <1>8
<1>10. rec.status # "severed" => Status(id) # "severed" BY <1>4
<1>11. QED BY <1>4, <1>5, <1>6, <1>9, <1>10, EdgeKept

LEMMA ProposalIs ==
  ASSUME Edged, NEW p \in Parties, NEW q \in Parties, NEW i \in Stakes, NEW j \in Stakes, ProposeEdge(p, q, i, j),
         NEW id, id = <<p, q, now>>
  PROVE  /\ DOMAIN edges' = DOMAIN edges \cup {id} /\ DOMAIN openAt' = DOMAIN edges \cup {id}
         /\ edges'[id] = [bondA |-> i, bondB |-> j, status |-> "proposed"]
         /\ edges'[id] \in EdgeRecord
         /\ \A e \in DOMAIN edges : e # id => edges'[e] = edges[e] /\ openAt'[e] = openAt[e]
         /\ openAt'[id] = {e \in DOMAIN edges \ {id} : PartiesOf(e) = PartiesOf(id) /\ Status(e) \in {"proposed", "frozen"}}
         /\ \A e \in DOMAIN edges : PartiesOf(e) = PartiesOf(id) => Status(e) # "active"
         /\ displaced' = displaced + (IF id \in DOMAIN edges THEN Total(id) ELSE 0)
         /\ staked' = staked + i + j /\ slashed' = slashed /\ proposals' = proposals + 1
<1>1. PICK rec : rec = [bondA |-> i, bondB |-> j, status |-> "proposed"] OBVIOUS
<1>2. PartiesOf(id) = {p, q} BY DEF PartiesOf
<1>3. PICK open : open = {e \in DOMAIN edges \ {id} : PartiesOf(e) = {p, q} /\ Status(e) \in {"proposed", "frozen"}} OBVIOUS
<1>4. /\ edges' = [e \in DOMAIN edges \cup {id} |-> IF e = id THEN rec ELSE edges[e]]
      /\ openAt' = [e \in DOMAIN edges' |-> IF e = id THEN open ELSE openAt[e]]
      /\ displaced' = displaced + (IF id \in DOMAIN edges THEN Total(id) ELSE 0)
      /\ staked' = staked + i + j /\ slashed' = slashed /\ proposals' = proposals + 1
      /\ \A e \in Between(p, q) : Status(e) # "active"
  BY <1>1, <1>3 DEF ProposeEdge
<1>5. DOMAIN edges' = DOMAIN edges \cup {id} /\ DOMAIN openAt' = DOMAIN edges \cup {id} BY <1>4
<1>6. edges'[id] = rec /\ openAt'[id] = open BY <1>4, <1>5
<1>7. \A e \in DOMAIN edges : e # id => edges'[e] = edges[e] /\ openAt'[e] = openAt[e] BY <1>4, <1>5
<1>8. rec \in EdgeRecord BY <1>1, EdgesAssumption DEF EdgeRecord
<1>9. \A e \in DOMAIN edges : PartiesOf(e) = PartiesOf(id) => Status(e) # "active" BY <1>2, <1>4 DEF Between
<1>10. QED BY <1>1, <1>2, <1>3, <1>4, <1>5, <1>6, <1>7, <1>8, <1>9

LEMMA ProposeKeepsEdged ==
  ASSUME Edged, NEW p \in Parties, NEW q \in Parties, NEW i \in Stakes, NEW j \in Stakes, ProposeEdge(p, q, i, j)
  PROVE  Edged'
<1>1. PICK id : id = <<p, q, now>> OBVIOUS
<1>2. PICK D, E : D = DOMAIN edges /\ E = DOMAIN edges' OBVIOUS
<1>3. /\ E = D \cup {id} /\ DOMAIN openAt' = E
      /\ edges'[id] = [bondA |-> i, bondB |-> j, status |-> "proposed"] /\ edges'[id] \in EdgeRecord
      /\ \A e \in D : e # id => edges'[e] = edges[e] /\ openAt'[e] = openAt[e]
      /\ openAt'[id] = {e \in D \ {id} : PartiesOf(e) = PartiesOf(id) /\ Status(e) \in {"proposed", "frozen"}}
      /\ \A e \in D : PartiesOf(e) = PartiesOf(id) => Status(e) # "active"
      /\ displaced' = displaced + (IF id \in D THEN Total(id) ELSE 0)
      /\ staked' = staked + i + j /\ slashed' = slashed /\ proposals' = proposals + 1
  BY <1>1, <1>2, ProposalIs
<1>4. IsFiniteSet(D) /\ IsFiniteSet(E) BY <1>2, <1>3, FS_AddElement DEF Edged
<1>5. \A e \in E : edges'[e] \in EdgeRecord BY <1>2, <1>3 DEF Edged
<1>6. PICK f, g : f = Totals(edges) /\ g = Totals(edges') OBVIOUS
<1>7. \A e \in D : f[e] = edges[e].bondA + edges[e].bondB /\ f[e] \in Int BY <1>2, <1>6, TotalsType DEF Edged
<1>8. \A e \in E : g[e] = edges'[e].bondA + edges'[e].bondB /\ g[e] \in Int BY <1>2, <1>5, <1>6, TotalsType
<1>9. g[id] = i + j /\ i \in Nat /\ j \in Nat BY <1>3, <1>8, EdgesAssumption
<1>10. \A e \in D : e # id => g[e] = f[e] BY <1>3, <1>7, <1>8
<1>11. PICK s, t : s = SumFunctionOnSet(f, D) /\ t = SumFunctionOnSet(g, E) OBVIOUS
<1>12. s \in Int BY <1>4, <1>7, <1>11, SumType
<1>13. t = s + (i + j) - (IF id \in D THEN f[id] ELSE 0)
  <2>1. CASE id \in D
    <3>1. E = D /\ \A e \in D \ {id} : g[e] = f[e] BY <1>3, <1>10, <2>1
    <3>2. SumFunctionOnSet(g, D) = SumFunctionOnSet(f, D) - f[id] + g[id] BY <1>4, <1>7, <1>8, <2>1, <3>1, SumChange
    <3>3. f[id] \in Int BY <1>7, <2>1
    <3>4. t = s - f[id] + (i + j) BY <1>9, <1>11, <3>1, <3>2
    <3>5. QED BY <1>9, <1>12, <2>1, <3>3, <3>4
  <2>2. CASE id \notin D
    <3>1. SumFunctionOnSet(g, D \cup {id}) = g[id] + SumFunctionOnSet(g, D) BY <1>3, <1>4, <1>8, <2>2, SumAdd
    <3>2. SumFunctionOnSet(g, D) = SumFunctionOnSet(f, D) BY <1>4, <1>10, <2>2, SumSame
    <3>3. t = (i + j) + s BY <1>3, <1>9, <1>11, <3>1, <3>2
    <3>4. QED BY <1>9, <1>12, <2>2, <3>3
  <2>3. QED BY <2>1, <2>2
<1>14. id \in D => f[id] = Total(id) BY <1>7 DEF Total
<1>15. staked \in Int /\ slashed \in Int /\ displaced \in Int /\ staked = slashed + displaced + s /\ proposals \in Nat
  BY <1>2, <1>6, <1>11 DEF Edged
<1>16. PICK x \in Int : x = IF id \in D THEN f[id] ELSE 0 BY <1>7
<1>17. displaced' = displaced + x BY <1>3, <1>14, <1>16
<1>18. staked' = slashed' + displaced' + t /\ staked' \in Int /\ slashed' \in Int /\ displaced' \in Int /\ proposals' \in Nat
  BY <1>3, <1>9, <1>12, <1>13, <1>15, <1>16, <1>17
<1>19. \A e \in D : e # id /\ PartiesOf(e) = PartiesOf(id) /\ Status(e) # "severed" => e \in openAt'[id]
  BY <1>2, <1>3 DEF Edged, EdgeRecord, Status
<1>20. \A e, h \in E : e # h /\ PartiesOf(e) = PartiesOf(h) /\ edges'[e].status # "severed" /\ edges'[h].status # "severed"
                       => e \in openAt'[h] \/ h \in openAt'[e]
  <2>1. SUFFICES ASSUME NEW e \in E, NEW h \in E, e # h, PartiesOf(e) = PartiesOf(h),
                        edges'[e].status # "severed", edges'[h].status # "severed"
                 PROVE  e \in openAt'[h] \/ h \in openAt'[e] OBVIOUS
  <2>2. CASE e = id BY <1>3, <1>19, <2>1, <2>2 DEF Status
  <2>3. CASE h = id BY <1>3, <1>19, <2>1, <2>3 DEF Status
  <2>4. CASE e # id /\ h # id BY <1>2, <1>3, <2>1, <2>4 DEF Status, Edged, Paired
  <2>5. QED BY <2>2, <2>3, <2>4
<1>21. Paired' BY <1>2, <1>20 DEF Paired, Status, PartiesOf
<1>22. QED BY <1>2, <1>3, <1>4, <1>5, <1>6, <1>11, <1>18, <1>21 DEF Edged

LEMMA OpsKeepEdged == ASSUME Edged, EdgeOps PROVE Edged'
<1>1. ASSUME Tick PROVE Edged' BY <1>1 DEF Tick, edgeHistory, Edged, Paired, Status, PartiesOf
<1>2. ASSUME NEW p \in Parties, NEW q \in Parties, NEW i \in Stakes, NEW j \in Stakes, ProposeEdge(p, q, i, j) PROVE Edged'
  BY <1>2, ProposeKeepsEdged
<1>3. ASSUME NEW id \in DOMAIN edges, ActivateEdge(id) \/ FreezeEdge(id) \/ ThawEdge(id) PROVE Edged'
  BY <1>3, SetKeepsEdged DEF ActivateEdge, FreezeEdge, ThawEdge
<1>4. ASSUME NEW id \in DOMAIN edges, NEW party, SeverEdge(id, party) PROVE Edged' BY <1>4, SeverKeepsEdged
<1>5. QED BY <1>1, <1>2, <1>3, <1>4 DEF EdgeOps

-----------------------------------------------------------------------------
(* The blacklisted, and the one whose own edges are being severed, have no *)
(* edge that is not severed, but those it was excused of or has yet to     *)
(* come to.                                                                *)
Underway ==
  \/ slashing = NoSlashing
  \/ /\ slashing = [pc |-> slashing.pc, c |-> slashing.c, reason |-> slashing.reason,
                    at |-> slashing.at, todo |-> slashing.todo]
     /\ slashing.pc \in {"ancestors", "own"} /\ slashing.c \in Communities

Cut ==
  /\ Underway /\ DOMAIN blacklist \subseteq Communities
  /\ \A c \in DOMAIN blacklist, id \in DOMAIN edges :
       c \in PartiesOf(id) /\ Status(id) # "severed" => <<c, id>> \in excused
  /\ slashing.pc = "own" =>
       \A id \in DOMAIN edges :
         slashing.c \in PartiesOf(id) /\ Status(id) # "severed" /\ id \notin slashing.todo =>
           <<slashing.c, id>> \in excused

\* Edges that were not severed before, and those of a proposal.
Fresh(id) == proposals' # proposals /\ (id \notin DOMAIN edges \/ edges'[id] # edges[id])

LEMMA ProposalOpens ==
  ASSUME Edged, NEW p \in Parties, NEW q \in Parties, NEW i \in Stakes, NEW j \in Stakes, ProposeEdge(p, q, i, j)
  PROVE  \A e \in DOMAIN edges' : edges'[e].status # "severed" =>
           (e \in DOMAIN edges /\ Status(e) # "severed") \/ Fresh(e)
<1>1. PICK id : id = <<p, q, now>> OBVIOUS
<1>2. /\ DOMAIN edges' = DOMAIN edges \cup {id} /\ DOMAIN openAt' = DOMAIN edges \cup {id}
      /\ edges'[id] = [bondA |-> i, bondB |-> j, status |-> "proposed"]
      /\ edges'[id] \in EdgeRecord
      /\ \A e \in DOMAIN edges : e # id => edges'[e] = edges[e] /\ openAt'[e] = openAt[e]
      /\ openAt'[id] = {e \in DOMAIN edges \ {id} : PartiesOf(e) = PartiesOf(id) /\ Status(e) \in {"proposed", "frozen"}}
      /\ \A e \in DOMAIN edges : PartiesOf(e) = PartiesOf(id) => Status(e) # "active"
      /\ displaced' = displaced + (IF id \in DOMAIN edges THEN Total(id) ELSE 0)
      /\ staked' = staked + i + j /\ slashed' = slashed /\ proposals' = proposals + 1
  BY <1>1, ProposalIs
<1>3. proposals' # proposals BY <1>2 DEF Edged
<1>4. ASSUME NEW e \in DOMAIN edges', edges'[e].status # "severed"
      PROVE  (e \in DOMAIN edges /\ Status(e) # "severed") \/ Fresh(e) BY <1>3, <1>4 DEF Status, Fresh
<1>5. QED BY <1>4

LEMMA OpsOpen ==
  ASSUME Edged, EdgeOps
  PROVE  \A id \in DOMAIN edges' : edges'[id].status # "severed" =>
           (id \in DOMAIN edges /\ Status(id) # "severed") \/ Fresh(id)
<1>1. CASE Tick BY <1>1 DEF Tick, Status
<1>2. ASSUME NEW p \in Parties, NEW q \in Parties, NEW i \in Stakes, NEW j \in Stakes, ProposeEdge(p, q, i, j)
      PROVE  \A e \in DOMAIN edges' : edges'[e].status # "severed" =>
               (e \in DOMAIN edges /\ Status(e) # "severed") \/ Fresh(e)
  BY <1>2, ProposalOpens
<1>3. ASSUME NEW id \in DOMAIN edges, NEW s, Status(id) # "severed", SetEdge(id, s)
      PROVE  \A e \in DOMAIN edges' : edges'[e].status # "severed" => e \in DOMAIN edges /\ Status(e) # "severed"
  BY <1>3 DEF SetEdge, Status
<1>4. ASSUME NEW id \in DOMAIN edges, ActivateEdge(id) \/ FreezeEdge(id) \/ ThawEdge(id)
      PROVE  \A e \in DOMAIN edges' : edges'[e].status # "severed" => e \in DOMAIN edges /\ Status(e) # "severed"
  BY <1>3, <1>4 DEF ActivateEdge, FreezeEdge, ThawEdge
<1>5. ASSUME NEW id \in DOMAIN edges, NEW party, SeverEdge(id, party)
      PROVE  \A e \in DOMAIN edges' : edges'[e].status # "severed" => e \in DOMAIN edges /\ Status(e) # "severed"
  BY <1>5, SeveredIs DEF Status
<1>6. QED BY <1>1, <1>2, <1>4, <1>5 DEF EdgeOps

LEMMA CutStart == SlashingInit => Cut
<1>. SUFFICES ASSUME SlashingInit PROVE Cut OBVIOUS
<1>1. blacklist = <<>> /\ slashing = NoSlashing BY DEF SlashingInit
<1>2. DOMAIN blacklist = {} /\ slashing.pc = "none" BY <1>1 DEF NoSlashing
<1>3. Underway BY <1>1 DEF Underway
<1>4. QED BY <1>2, <1>3 DEF Cut

LEMMA BeginKeepsCut ==
  ASSUME Tree, Cut, NEW c, NEW reason, SlashBegin(c, reason) PROVE Cut'
<1>1. /\ c \in Known /\ c \notin DOMAIN blacklist /\ UNCHANGED <<edgesVars, blacklist>>
      /\ excused' = {x \in excused : x[1] # c}
  BY DEF SlashBegin
<1>2. PICK t : slashing' = [pc |-> "ancestors", c |-> c, reason |-> reason, at |-> now, todo |-> t] BY DEF SlashBegin
<1>3. slashing'.pc = "ancestors" /\ slashing'.c = c /\ slashing'.reason = reason /\ slashing'.at = now /\ slashing'.todo = t
  BY <1>2
<1>4. c \in Communities BY <1>1 DEF Tree
<1>5. Underway' BY <1>2, <1>3, <1>4 DEF Underway
<1>6. edges' = edges BY <1>1 DEF edgesVars
<1>7. ASSUME NEW z \in DOMAIN blacklist, NEW id \in DOMAIN edges, z \in PartiesOf(id), Status(id) # "severed"
      PROVE  <<z, id>> \in excused' BY <1>1, <1>7 DEF Cut
<1>8. QED BY <1>1, <1>3, <1>5, <1>6, <1>7 DEF Cut, Status, PartiesOf

LEMMA EdgeKeepsCut ==
  ASSUME Edged, Cut, NEW id \in DOMAIN edges, SlashEdge(id) PROVE Cut' /\ Edged'
<1>1. /\ slashing.pc \in {"ancestors", "own"} /\ id \in slashing.todo /\ UNCHANGED blacklist
      /\ slashing' = [slashing EXCEPT !.todo = @ \ {id}]
      /\ \/ Cuts(id) /\ SeverEdge(id, slashing.c) /\ UNCHANGED excused
         \/ ~Cuts(id) /\ UNCHANGED edgesVars /\ excused' = excused \cup {<<slashing.c, id>>}
  BY DEF SlashEdge
<1>2. slashing # NoSlashing BY <1>1 DEF NoSlashing
<1>3. /\ slashing = [pc |-> slashing.pc, c |-> slashing.c, reason |-> slashing.reason,
                     at |-> slashing.at, todo |-> slashing.todo]
      /\ slashing.c \in Communities
  BY <1>2 DEF Cut, Underway
<1>4. PICK p, c, r, a, t : /\ p = slashing.pc /\ c = slashing.c /\ r = slashing.reason
                           /\ a = slashing.at /\ t = slashing.todo OBVIOUS
<1>5. slashing = [pc |-> p, c |-> c, reason |-> r, at |-> a, todo |-> t] BY <1>3, <1>4
<1>6. slashing' = [pc |-> p, c |-> c, reason |-> r, at |-> a, todo |-> t \ {id}] BY <1>1, <1>5
<1>7. slashing'.pc = p /\ slashing'.c = c /\ slashing'.reason = r /\ slashing'.at = a /\ slashing'.todo = t \ {id}
  BY <1>6
<1>8. Underway' BY <1>1, <1>3, <1>4, <1>6, <1>7 DEF Underway
<1>9. /\ DOMAIN edges' = DOMAIN edges /\ excused \subseteq excused'
      /\ \A e \in DOMAIN edges : edges'[e].status # "severed" => Status(e) # "severed"
      /\ edges'[id].status # "severed" => <<c, id>> \in excused'
      /\ Edged'
  <2>1. CASE Cuts(id) /\ SeverEdge(id, slashing.c) /\ UNCHANGED excused
    BY <2>1, SeveredIs, SeverKeepsEdged DEF Status
  <2>2. CASE UNCHANGED edgesVars /\ excused' = excused \cup {<<slashing.c, id>>}
    BY <1>4, <2>2 DEF edgesVars, edgeHistory, Edged, Paired, Status, PartiesOf
  <2>3. QED BY <1>1, <2>1, <2>2
<1>10. ASSUME NEW z \in DOMAIN blacklist', NEW e \in DOMAIN edges', z \in PartiesOf(e), edges'[e].status # "severed"
       PROVE  <<z, e>> \in excused'
  BY <1>1, <1>9, <1>10 DEF Cut
<1>11. ASSUME p = "own", NEW e \in DOMAIN edges', c \in PartiesOf(e), edges'[e].status # "severed", e \notin t \ {id}
       PROVE  <<c, e>> \in excused'
  <2>1. CASE e = id BY <1>9, <1>11, <2>1
  <2>2. CASE e # id BY <1>4, <1>9, <1>11, <2>2 DEF Cut
  <2>3. QED BY <2>1, <2>2
<1>12. DOMAIN blacklist' \subseteq Communities BY <1>1 DEF Cut
<1>13. Cut' BY <1>7, <1>8, <1>10, <1>11, <1>12 DEF Cut, Status, PartiesOf
<1>14. QED BY <1>9, <1>13

LEMMA OwnKeepsCut == ASSUME Cut, SlashOwnEdges PROVE Cut'
<1>1. /\ slashing.pc = "ancestors" /\ UNCHANGED <<edgesVars, blacklist, excused>>
      /\ slashing' = [slashing EXCEPT !.pc = "own", !.todo = EdgesOf(slashing.c)]
  BY DEF SlashOwnEdges
<1>2. slashing # NoSlashing BY <1>1 DEF NoSlashing
<1>3. /\ slashing = [pc |-> slashing.pc, c |-> slashing.c, reason |-> slashing.reason,
                     at |-> slashing.at, todo |-> slashing.todo]
      /\ slashing.c \in Communities
  BY <1>2 DEF Cut, Underway
<1>4. PICK p, c, r, a, t, own : /\ p = slashing.pc /\ c = slashing.c /\ r = slashing.reason
                                /\ a = slashing.at /\ t = slashing.todo /\ own = EdgesOf(c) OBVIOUS
<1>5. slashing = [pc |-> p, c |-> c, reason |-> r, at |-> a, todo |-> t] BY <1>3, <1>4
<1>6. slashing' = [pc |-> "own", c |-> c, reason |-> r, at |-> a, todo |-> own] BY <1>1, <1>4, <1>5
<1>7. slashing'.pc = "own" /\ slashing'.c = c /\ slashing'.reason = r /\ slashing'.at = a /\ slashing'.todo = own
  BY <1>6
<1>8. Underway' BY <1>3, <1>4, <1>6, <1>7 DEF Underway
<1>9. edges' = edges BY <1>1 DEF edgesVars
<1>10. \A e \in DOMAIN edges : c \in PartiesOf(e) => e \in own BY <1>4 DEF EdgesOf
<1>11. QED BY <1>1, <1>7, <1>8, <1>9, <1>10 DEF Cut, Status, PartiesOf

LEMMA EndKeepsCut == ASSUME Cut, SlashEnd PROVE Cut'
BY DEF SlashEnd, NoSlashing, Cut, Underway, edgesVars, Status, PartiesOf

LEMMA RemoveKeepsCut == ASSUME Cut, NEW c, RemoveFromBlacklist(c) PROVE Cut'
BY DEF RemoveFromBlacklist, edgesVars, Cut, Underway, Status, PartiesOf

LEMMA DiplomacyKeepsCut == ASSUME Edged, Cut, Diplomacy PROVE Cut'
<1>1. /\ EdgeOps /\ UNCHANGED <<blacklist, slashing>>
      /\ excused' = excused \cup
           {x \in Communities \X DOMAIN edges' :
              /\ proposals' # proposals /\ x[1] \in PartiesOf(x[2])
              /\ x[2] \notin DOMAIN edges \/ edges'[x[2]] # edges[x[2]]
              /\ x[1] \in DOMAIN blacklist \/ (slashing.pc = "own" /\ slashing.c = x[1])}
  BY DEF Diplomacy
<1>2. ASSUME NEW z \in Communities, NEW id \in DOMAIN edges', z \in PartiesOf(id), Fresh(id),
             z \in DOMAIN blacklist \/ (slashing.pc = "own" /\ slashing.c = z)
      PROVE  <<z, id>> \in excused' BY <1>1, <1>2 DEF Fresh
<1>3. \A id \in DOMAIN edges' : edges'[id].status # "severed" =>
        (id \in DOMAIN edges /\ Status(id) # "severed") \/ Fresh(id)
  BY <1>1, OpsOpen
<1>4. ASSUME NEW z \in DOMAIN blacklist, NEW id \in DOMAIN edges', z \in PartiesOf(id), edges'[id].status # "severed"
      PROVE  <<z, id>> \in excused'
  <2>1. CASE id \in DOMAIN edges /\ Status(id) # "severed" BY <1>1, <1>4, <2>1 DEF Cut
  <2>2. CASE Fresh(id) BY <1>2, <1>4, <2>2 DEF Cut
  <2>3. QED BY <1>3, <1>4, <2>1, <2>2
<1>5. ASSUME slashing.pc = "own", NEW id \in DOMAIN edges', slashing.c \in PartiesOf(id),
             edges'[id].status # "severed", id \notin slashing.todo
      PROVE  <<slashing.c, id>> \in excused'
  <2>1. CASE id \in DOMAIN edges /\ Status(id) # "severed" BY <1>1, <1>5, <2>1 DEF Cut
  <2>2. CASE Fresh(id) BY <1>2, <1>5, <2>2 DEF NoSlashing, Cut, Underway
  <2>3. QED BY <1>3, <1>5, <2>1, <2>2
<1>6. Underway' /\ DOMAIN blacklist' \subseteq Communities BY <1>1 DEF Cut, Underway
<1>7. QED BY <1>1, <1>4, <1>5, <1>6 DEF Cut, Status, PartiesOf

GraphInv == Bonded /\ Edged /\ Cut

LEMMA GraphStart == SlashingInit => GraphInv
BY BondedStart, EdgedStart, CutStart DEF GraphInv, SlashingInit

LEMMA SameEdged == ASSUME Edged, UNCHANGED edgesVars PROVE Edged'
BY DEF edgesVars, edgeHistory, Edged, Paired, Status, PartiesOf

LEMMA GraphStep == GraphInv /\ [SlashingNext]_slashingVars => GraphInv'
<1>1. SUFFICES ASSUME GraphInv, [SlashingNext]_slashingVars PROVE GraphInv' OBVIOUS
<1>2. Bonded /\ Tree /\ Edged /\ Cut BY <1>1 DEF GraphInv, Bonded
<1>3. Bonded' BY <1>1, <1>2, BondedStep
<1>4. Edged' /\ Cut'
  <2>1. ASSUME NEW c, NEW p, NEW amount, Join(c, p, amount) PROVE Edged' /\ Cut'
    BY <1>2, <2>1, SameEdged DEF Join, edgesVars, Cut, Underway, Status, PartiesOf
  <2>2. ASSUME NEW c, NEW reason, SlashBegin(c, reason) PROVE Edged' /\ Cut'
    BY <1>2, <2>2, SameEdged, BeginKeepsCut DEF SlashBegin
  <2>3. ASSUME NEW id \in DOMAIN edges, SlashEdge(id) PROVE Edged' /\ Cut' BY <1>2, <2>3, EdgeKeepsCut
  <2>4. ASSUME SlashOwnEdges PROVE Edged' /\ Cut' BY <1>2, <2>4, SameEdged, OwnKeepsCut DEF SlashOwnEdges
  <2>5. ASSUME SlashEnd PROVE Edged' /\ Cut' BY <1>2, <2>5, SameEdged, EndKeepsCut DEF SlashEnd
  <2>6. ASSUME NEW c, RemoveFromBlacklist(c) PROVE Edged' /\ Cut'
    BY <1>2, <2>6, SameEdged, RemoveKeepsCut DEF RemoveFromBlacklist
  <2>7. ASSUME Diplomacy PROVE Edged' /\ Cut' BY <1>2, <2>7, OpsKeepEdged, DiplomacyKeepsCut DEF Diplomacy
  <2>8. ASSUME UNCHANGED slashingVars PROVE Edged' /\ Cut'
    BY <1>2, <2>8, SameEdged DEF slashingVars, slashVars, edgesVars, Cut, Underway, Status, PartiesOf
  <2>9. CASE SlashingNext BY <2>1, <2>2, <2>3, <2>4, <2>5, <2>6, <2>7, <2>9 DEF SlashingNext
  <2>10. QED BY <1>1, <2>8, <2>9
<1>5. QED BY <1>3, <1>4 DEF GraphInv

LEMMA GraphIs == GraphInv => GraphSound /\ BondsConserved /\ BlacklistCut
<1>1. SUFFICES ASSUME GraphInv PROVE GraphSound /\ BondsConserved /\ BlacklistCut OBVIOUS
<1>2. Bonded /\ Tree /\ Edged /\ Cut BY <1>1 DEF GraphInv, Bonded
<1>3. LCACorrect /\ DistanceMetric /\ NearerClears BY <1>2, TreeMeets, TreeMetric, TreeClears
<1>4. TwinsExplained BY <1>2 DEF Edged, Paired, TwinsExplained
<1>5. StakesConserved BY <1>2 DEF Totals, Total, SumFunction, StakesConserved, Edged
<1>6. BondsConserved BY <1>2 DEF SumFunction, Known, BondsConserved, Bonded
<1>7. BlacklistCut BY <1>2 DEF BlacklistCut, Cut
<1>8. QED BY <1>3, <1>4, <1>5, <1>6, <1>7 DEF GraphSound

(* For any communities, bonds, edges, stakes and reasons: the climbs of    *)
(* the tree find the deepest ancestor that two share, the distances are    *)
(* those of a graph, and of two active edges of the same parties one was   *)
(* open when the other was proposed.                                       *)
THEOREM GraphIsSound == SlashingSpec => []GraphSound
<1>1. GraphInv => GraphSound BY GraphIs
<1>2. QED BY <1>1, GraphStart, GraphStep, PTL DEF SlashingSpec

(* A slashing loses no bond, takes nothing from bystanders and at most 30  *)
(* percent from an ancestor, and cuts off who is blacklisted, but for      *)
(* frozen and later edges.                                                 *)
THEOREM SlashingIsSound == SlashingSpec => SlashingSound
<1>1. GraphInv => BondsConserved /\ BlacklistCut BY GraphIs
<1>2. GraphInv /\ [SlashingNext]_slashingVars =>
        [\A x \in Known : bond'[x] # bond[x] =>
           LET c == slashing'.c IN
           \/ x = c /\ bond'[x] = 0
           \/ /\ x \in Ancestors(c) \ {Root}
              /\ 100 * (bond[x] - bond'[x]) <= 30 * bond[x]]_slashingVars
  BY LiableStep DEF GraphInv
<1>3. QED BY <1>1, <1>2, GraphStart, GraphStep, PTL DEF SlashingSpec, SlashingSound, LiableOnly

-----------------------------------------------------------------------------
(* The list of the members of a guild: no player twice, and the one with   *)
(* the role of the leader is the leader.                                   *)
Ranks == {"leader", "officer", "member"}
People == [id : Citizens, role : Ranks]

IdsOf(ms) == {ms[i].id : i \in DOMAIN ms}

Led(ms, l) ==
  /\ ms \in Seq(People) /\ l \in Citizens
  /\ \A i, j \in DOMAIN ms : ms[i].id = ms[j].id => i = j
  /\ l \in IdsOf(ms)
  /\ \A i \in DOMAIN ms : ms[i].role = "leader" <=> ms[i].id = l

LEMMA LedElements ==
  ASSUME NEW ms, NEW l, Led(ms, l)
  PROVE  /\ Len(ms) \in Nat /\ DOMAIN ms = 1..Len(ms) /\ \A i \in DOMAIN ms : ms[i] \in People
         /\ \A i \in DOMAIN ms : ms[i].id \in Citizens /\ ms[i].role \in Ranks /\ ms[i] = [id |-> ms[i].id, role |-> ms[i].role]
<1>1. ms \in Seq(People) BY DEF Led
<1>2. Len(ms) \in Nat /\ DOMAIN ms = 1..Len(ms) BY <1>1, LenProperties
<1>3. \A i \in DOMAIN ms : ms[i] \in People BY <1>1, <1>2, ElementOfSeq
<1>4. QED BY <1>2, <1>3 DEF People

Joined(ms, t, l, p) == Led(t, l) /\ IdsOf(t) = IdsOf(ms) \cup {p}

LEMMA ListAppended ==
  ASSUME NEW ms, NEW l, Led(ms, l), NEW p \in Citizens, p \notin IdsOf(ms),
         NEW t, t = Append(ms, Member(p, "member"))
  PROVE  Joined(ms, t, l, p)
<1>1. PICK n \in Nat : n = Len(ms) /\ DOMAIN ms = 1..n BY LedElements
<1>2. PICK one : one = Member(p, "member") OBVIOUS
<1>3. one.id = p /\ one.role = "member" /\ one \in People BY <1>2 DEF Member, People, Ranks
<1>4. ms \in Seq(People) BY DEF Led
<1>5. t \in Seq(People) /\ Len(t) = n + 1 /\ t[n + 1] = one /\ \A k \in 1..n : t[k] = ms[k]
  BY <1>1, <1>2, <1>3, <1>4, AppendProperties
<1>6. DOMAIN t = 1..n + 1 BY <1>5, LenProperties
<1>7. \A k \in DOMAIN t : k \in DOMAIN ms \/ k = n + 1 BY <1>1, <1>6
<1>8. \A k \in DOMAIN ms : k \in DOMAIN t /\ t[k] = ms[k] /\ k # n + 1 BY <1>1, <1>5, <1>6
<1>9. n + 1 \in DOMAIN t BY <1>6
<1>10. IdsOf(t) = IdsOf(ms) \cup {p} BY <1>3, <1>5, <1>7, <1>8, <1>9 DEF IdsOf
<1>11. ASSUME NEW i \in DOMAIN t, NEW j \in DOMAIN t, t[i].id = t[j].id PROVE i = j
  BY <1>3, <1>5, <1>7, <1>8, <1>11 DEF IdsOf, Led
<1>12. ASSUME NEW i \in DOMAIN t PROVE t[i].role = "leader" <=> t[i].id = l BY <1>3, <1>5, <1>7, <1>8 DEF Led
<1>13. l \in IdsOf(t) /\ l \in Citizens BY <1>10 DEF Led
<1>14. Led(t, l) BY <1>5, <1>11, <1>12, <1>13 DEF Led
<1>15. QED BY <1>10, <1>14 DEF Joined

Parted(ms, t, l, p) == Led(t, l) /\ IdsOf(t) = IdsOf(ms) \ {p}

LEMMA ListRemoved ==
  ASSUME NEW ms, NEW l, Led(ms, l), NEW i \in DOMAIN ms, ms[i].id # l, NEW t, t = RemoveAt(ms, i)
  PROVE  Parted(ms, t, l, ms[i].id)
<1>1. PICK n \in Nat : n = Len(ms) /\ DOMAIN ms = 1..n BY LedElements
<1>2. ms \in Seq(People) BY DEF Led
<1>3. Shortened(ms, RemoveAt(ms, i), i, People) BY <1>2, RemovedAt
<1>4. Shortened(ms, t, i, People) BY <1>3
<1>5. t \in Seq(People) /\ Len(t) = n - 1 /\ \A k \in 1..n - 1 : t[k] = ms[IF k < i THEN k ELSE k + 1]
  BY <1>1, <1>4 DEF Shortened
<1>6. DOMAIN t = 1..n - 1 BY <1>5, LenProperties
<1>7. i \in 1..n BY <1>1
<1>8. ASSUME NEW k \in DOMAIN t PROVE \E m \in DOMAIN ms : m # i /\ m = (IF k < i THEN k ELSE k + 1) /\ t[k] = ms[m]
  BY <1>1, <1>5, <1>6, <1>7
<1>9. ASSUME NEW m \in DOMAIN ms, m # i PROVE \E k \in DOMAIN t : t[k] = ms[m]
  <2>1. PICK k : k = IF m < i THEN m ELSE m - 1 OBVIOUS
  <2>2. m \in 1..n BY <1>1
  <2>3. k \in 1..n - 1 /\ m = IF k < i THEN k ELSE k + 1 BY <1>7, <1>9, <2>1, <2>2
  <2>4. QED BY <1>5, <1>6, <2>3
<1>10. IdsOf(t) = IdsOf(ms) \ {ms[i].id}
  <2>1. ASSUME NEW x \in IdsOf(t) PROVE x \in IdsOf(ms) /\ x # ms[i].id BY <1>8 DEF IdsOf, Led
  <2>2. ASSUME NEW x \in IdsOf(ms), x # ms[i].id PROVE x \in IdsOf(t) BY <1>9, <2>2 DEF IdsOf
  <2>3. QED BY <2>1, <2>2
<1>11. ASSUME NEW x \in DOMAIN t, NEW y \in DOMAIN t, t[x].id = t[y].id PROVE x = y
  BY <1>6, <1>7, <1>8, <1>11 DEF Led
<1>12. \A k \in DOMAIN t : t[k].role = "leader" <=> t[k].id = l BY <1>8 DEF Led
<1>13. l \in IdsOf(t) /\ l \in Citizens BY <1>10 DEF Led
<1>14. Led(t, l) BY <1>5, <1>11, <1>12, <1>13 DEF Led
<1>15. QED BY <1>10, <1>14 DEF Parted

\* Roles change, the members stay.
Reranked(ms, t, l) == Led(t, l) /\ IdsOf(t) = IdsOf(ms)

LEMMA ListReranked ==
  ASSUME NEW ms, NEW l, Led(ms, l), NEW t, NEW q \in IdsOf(ms),
         t = [k \in DOMAIN ms |-> t[k]],
         \A k \in DOMAIN ms : t[k].id = ms[k].id /\ t[k] \in People /\ (t[k].role = "leader" <=> ms[k].id = q)
  PROVE  Reranked(ms, t, q)
<1>1. PICK n \in Nat : n = Len(ms) /\ DOMAIN ms = 1..n BY LedElements
<1>2. DOMAIN t = DOMAIN ms OBVIOUS
<1>3. t \in [1..n -> People] BY <1>1, <1>2
<1>4. t \in Seq(People) BY <1>3, SeqDef
<1>5. IdsOf(t) = IdsOf(ms) BY <1>2 DEF IdsOf
<1>6. q \in Citizens BY LedElements DEF IdsOf
<1>7. Led(t, q) BY <1>2, <1>4, <1>5, <1>6 DEF Led
<1>8. QED BY <1>5, <1>7 DEF Reranked

LEMMA ListHanded ==
  ASSUME NEW ms, NEW l, Led(ms, l), NEW i \in DOMAIN ms, NEW j \in DOMAIN ms, ms[i].id = l, ms[j].id # l,
         NEW t, t = Handed(ms, i, j)
  PROVE  Reranked(ms, t, ms[j].id)
<1>1. i # j OBVIOUS
<1>2. t = [[ms EXCEPT ![i].role = "member"] EXCEPT ![j].role = "leader"] BY <1>1 DEF Handed
<1>3. PICK s : s = [ms EXCEPT ![i].role = "member"] OBVIOUS
<1>4. DOMAIN s = DOMAIN ms /\ DOMAIN t = DOMAIN ms /\ t = [k \in DOMAIN ms |-> t[k]] BY <1>2, <1>3
<1>5. ASSUME NEW k \in DOMAIN ms
      PROVE  t[k].id = ms[k].id /\ t[k] \in People /\ (t[k].role = "leader" <=> ms[k].id = ms[j].id)
  <2>1. PICK x \in Citizens, r \in Ranks : ms[k] = [id |-> x, role |-> r] BY LedElements
  <2>2. CASE k = j BY <1>1, <1>2, <1>3, <1>4, <2>1, <2>2 DEF People, Ranks
  <2>3. CASE k = i BY <1>1, <1>2, <1>3, <1>4, <2>1, <2>3 DEF People, Ranks
  <2>4. CASE k # i /\ k # j BY <1>2, <1>3, <1>4, <2>1, <2>4 DEF Led, People
  <2>5. QED BY <2>2, <2>3, <2>4
<1>6. ms[j].id \in IdsOf(ms) BY DEF IdsOf
<1>7. QED BY <1>4, <1>5, <1>6, ListReranked

LEMMA ListPromoted ==
  ASSUME NEW ms, NEW l, Led(ms, l), NEW j \in DOMAIN ms, ms[j].id # l, NEW role \in {"officer", "member"},
         NEW t, t = [ms EXCEPT ![j].role = role]
  PROVE  Reranked(ms, t, l)
<1>1. DOMAIN t = DOMAIN ms /\ t = [k \in DOMAIN ms |-> t[k]] OBVIOUS
<1>2. ASSUME NEW k \in DOMAIN ms
      PROVE  t[k].id = ms[k].id /\ t[k] \in People /\ (t[k].role = "leader" <=> ms[k].id = l)
  <2>1. PICK x \in Citizens, r \in Ranks : ms[k] = [id |-> x, role |-> r] BY LedElements
  <2>2. CASE k = j BY <2>1, <2>2 DEF People, Ranks
  <2>3. CASE k # j BY <2>1, <2>3 DEF People, Led
  <2>4. QED BY <2>2, <2>3
<1>3. l \in IdsOf(ms) BY DEF Led
<1>4. QED BY <1>1, <1>2, <1>3, ListReranked

LEMMA ListNew ==
  ASSUME NEW p \in Citizens, NEW t, t = <<Member(p, "leader")>> PROVE Led(t, p) /\ IdsOf(t) = {p}
BY DEF Member, People, Ranks, IdsOf, Led

-----------------------------------------------------------------------------
(* Half of n * (n - 1), and the level that some XP make.                   *)
Half(n) == (n * (n - 1)) \div 2

LEMMA HalfOfTwice == ASSUME NEW x \in Int PROVE (2 * x) \div 2 = x
OBVIOUS

LEMMA HalfIs == ASSUME NEW n \in Nat PROVE Half(n) \in Nat /\ 2 * Half(n) = n * (n - 1)
<1>1. PICK k \in Nat : n = 2 * k \/ n = 2 * k + 1
  <2>1. n = 2 * (n \div 2) + (n % 2) /\ n \div 2 \in Nat /\ n % 2 \in 0..1 OBVIOUS
  <2>2. PICK k \in Nat, r \in 0..1 : n = 2 * k + r BY <2>1
  <2>3. r = 0 \/ r = 1 BY <2>2
  <2>4. n = 2 * k \/ n = 2 * k + 1 BY <2>2, <2>3
  <2>5. QED BY <2>4
<1>2. \E x \in Nat : n * (n - 1) = 2 * x
  <2>1. CASE n = 0 BY <2>1
  <2>2. CASE n # 0 /\ n = 2 * k
    <3>1. PICK x : x = k * (n - 1) OBVIOUS
    <3>2. k >= 0 /\ n - 1 >= 0 /\ n - 1 \in Nat BY <2>2
    <3>3. x \in Nat BY <3>1, <3>2
    <3>4. n * (n - 1) = 2 * x BY <2>2, <3>1
    <3>5. QED BY <3>3, <3>4
  <2>3. CASE n = 2 * k + 1 BY <2>3
  <2>4. QED BY <1>1, <2>1, <2>2, <2>3
<1>3. PICK x \in Nat : n * (n - 1) = 2 * x BY <1>2
<1>4. Half(n) = (2 * x) \div 2 BY <1>3 DEF Half
<1>5. Half(n) = x BY <1>4, HalfOfTwice
<1>6. QED BY <1>3, <1>5

\* What the levels below cost.
LEMMA CostIs == ASSUME NEW n \in Nat, NEW c \in Nat PROVE (c * n * (n - 1)) \div 2 = c * Half(n) /\ c * Half(n) \in Nat
<1>1. PICK h \in Nat : h = Half(n) /\ 2 * h = n * (n - 1) BY HalfIs
<1>2. PICK x : x = c * h OBVIOUS
<1>3. x \in Nat BY <1>2
<1>4. PICK y : y = n * (n - 1) OBVIOUS
<1>5. y \in Int /\ y = 2 * h BY <1>1, <1>4
<1>6. c * n * (n - 1) = c * y BY <1>4
<1>7. c * y = 2 * x BY <1>2, <1>5
<1>8. (c * n * (n - 1)) \div 2 = (2 * x) \div 2 BY <1>6, <1>7
<1>9. (2 * x) \div 2 = x BY <1>3, HalfOfTwice
<1>10. QED BY <1>1, <1>2, <1>3, <1>8, <1>9

LEMMA HalfOfSum ==
  ASSUME NEW l \in Nat, NEW n \in Nat PROVE Half(l + n) = Half(l) + Half(n) + n * l
<1>1. 2 * Half(l) = l * (l - 1) /\ Half(l) \in Nat BY HalfIs
<1>2. 2 * Half(n) = n * (n - 1) /\ Half(n) \in Nat BY HalfIs
<1>3. l + n \in Nat OBVIOUS
<1>4. 2 * Half(l + n) = (l + n) * (l + n - 1) /\ Half(l + n) \in Nat BY <1>3, HalfIs
<1>5. (l + n) * (l + n - 1) = l * (l - 1) + n * (n - 1) + 2 * (n * l) OBVIOUS
<1>6. n * l \in Int OBVIOUS
<1>7. QED BY <1>1, <1>2, <1>4, <1>5, <1>6

CostOf(l, n) == GuildXP * (n * l + Half(n))

LEMMA PaidStep ==
  ASSUME NEW l \in Nat, NEW n \in Nat
  PROVE  /\ CostOf(l, n) \in Nat /\ CostOf(l, n + 1) \in Nat
         /\ CostOf(l, n + 1) = CostOf(l, n) + (l + n) * GuildXP
<1>1. GuildXP \in Nat BY GuildsAssumption
<1>2. PICK h \in Nat : h = Half(n) BY HalfIs
<1>3. Half(1) = 0 BY HalfIs
<1>4. Half(n + 1) = h + n BY <1>2, <1>3, HalfOfSum
<1>5. PICK a \in Nat : a = n * l OBVIOUS
<1>6. (n + 1) * l = a + l BY <1>5
<1>7. CostOf(l, n) = GuildXP * (a + h) BY <1>2, <1>5 DEF CostOf
<1>8. CostOf(l, n + 1) = GuildXP * ((a + l) + (h + n)) BY <1>4, <1>6 DEF CostOf
<1>9. GuildXP * ((a + l) + (h + n)) = GuildXP * (a + h) + (l + n) * GuildXP BY <1>1
<1>10. GuildXP * (a + h) \in Nat /\ GuildXP * ((a + l) + (h + n)) \in Nat BY <1>1
<1>11. QED BY <1>7, <1>8, <1>9, <1>10

LEMMA PaidLarge ==
  ASSUME NEW l \in Nat, l >= 1, NEW n \in Nat PROVE CostOf(l, n) >= n
<1>1. GuildXP \in Nat /\ GuildXP >= 1 BY GuildsAssumption
<1>2. PICK h \in Nat : h = Half(n) BY HalfIs
<1>3. PICK a : a = n * l + h OBVIOUS
<1>4. n * l >= n /\ n * l \in Nat OBVIOUS
<1>5. a \in Nat /\ a >= n BY <1>3, <1>4
<1>6. GuildXP * a >= a BY <1>1, <1>5
<1>7. CostOf(l, n) = GuildXP * a BY <1>2, <1>3 DEF CostOf
<1>8. GuildXP * a \in Nat BY <1>1, <1>5
<1>9. QED BY <1>5, <1>6, <1>7, <1>8

LEMMA SettledIs ==
  ASSUME NEW l \in Nat, l >= 1, NEW x \in Nat, NEW s, s = Settled(l, x)
  PROVE  /\ s.level \in Nat /\ s.level >= 1 /\ s.xp \in Nat /\ s.xp < s.level * GuildXP
         /\ s.xp + ((GuildXP * s.level * (s.level - 1)) \div 2) = x + ((GuildXP * l * (l - 1)) \div 2)
<1>. DEFINE Fits(n) == CostOf(l, n) <= x /\ x < CostOf(l, n + 1)
<1>1. GuildXP \in Nat /\ GuildXP >= 1 BY GuildsAssumption
<1>2. \E n \in 0..x : Fits(n)
  <2>. DEFINE Over == {n \in Nat : x < CostOf(l, n)}
  <2>1. x + 1 \in Over BY PaidLarge, PaidStep
  <2>2. 0 \notin Over BY <1>1, HalfIs DEF CostOf
  <2>3. Over \in SUBSET Nat OBVIOUS
  <2>. HIDE DEF Over
  <2>4. PICK k \in Over : \A y \in Over : k <= y BY <2>1, <2>3, SmallestNumber
  <2>. USE DEF Over
  <2>5. k \in Nat /\ k # 0 /\ k - 1 \in Nat BY <2>2, <2>4
  <2>6. k - 1 \notin Over BY <2>4, <2>5
  <2>7. CostOf(l, k - 1) <= x BY <2>5, <2>6, PaidStep
  <2>8. CostOf(l, (k - 1) + 1) = CostOf(l, k) BY <2>5
  <2>9. k - 1 \in 0..x BY <2>5, <2>7, PaidLarge, PaidStep
  <2>10. x < CostOf(l, (k - 1) + 1) BY <2>4, <2>8
  <2>11. QED BY <2>7, <2>9, <2>10
<1>3. PICK n : n = CHOOSE m \in 0..x : Fits(m) OBVIOUS
<1>4. n \in 0..x /\ Fits(n) BY <1>2, <1>3
<1>5. s = [level |-> l + n, xp |-> x - CostOf(l, n)]
  BY <1>3 DEF Settled, CostOf, Half
<1>6. n \in Nat BY <1>4
<1>7. PICK a \in Nat, b \in Nat : a = CostOf(l, n) /\ b = CostOf(l, n + 1) /\ b = a + (l + n) * GuildXP
  BY <1>6, PaidStep
<1>8. a <= x /\ x < b BY <1>4, <1>7
<1>9. s.level = l + n /\ s.xp = x - a BY <1>5, <1>7
<1>10. (l + n) * GuildXP \in Nat BY <1>1, <1>6
<1>11. s.xp \in Nat /\ s.xp < (l + n) * GuildXP BY <1>7, <1>8, <1>9, <1>10
<1>12. l + n \in Nat BY <1>6
<1>13. PICK u \in Nat, v \in Nat, w \in Nat : u = Half(l) /\ v = Half(n) /\ w = Half(l + n)
  BY <1>6, <1>12, HalfIs
<1>14. PICK m \in Nat : m = n * l BY <1>6
<1>15. w = u + v + m BY <1>6, <1>13, <1>14, HalfOfSum
<1>16. a = GuildXP * (m + v) BY <1>7, <1>13, <1>14 DEF CostOf
<1>17. (GuildXP * (l + n) * ((l + n) - 1)) \div 2 = GuildXP * w BY <1>1, <1>12, <1>13, CostIs
<1>18. (GuildXP * l * (l - 1)) \div 2 = GuildXP * u BY <1>1, <1>13, CostIs
<1>19. GuildXP * w = a + GuildXP * u BY <1>1, <1>13, <1>14, <1>15, <1>16
<1>20. GuildXP * w \in Nat /\ GuildXP * u \in Nat BY <1>1
<1>21. s.xp + GuildXP * w = x + GuildXP * u BY <1>7, <1>9, <1>19, <1>20
<1>22. QED BY <1>6, <1>9, <1>11, <1>17, <1>18, <1>21

-----------------------------------------------------------------------------
(* What a guild was given, and what its skills took.                       *)
LEMMA SumLonger ==
  ASSUME NEW n \in Nat, NEW f, NEW h, DOMAIN f = 1..n, DOMAIN h = 1..n + 1,
         \A i \in 1..n : h[i] = f[i] /\ f[i] \in Int, h[n + 1] \in Int
  PROVE  SumFunction(h) = SumFunction(f) + h[n + 1] /\ SumFunction(f) \in Int
<1>1. 1 \in Int /\ n \in Int OBVIOUS
<1>2. IsFiniteSet(1..n) BY <1>1, FS_Interval, Zenon
<1>3. n + 1 \notin 1..n /\ 1..n + 1 = 1..n \cup {n + 1} OBVIOUS
<1>4. \A i \in 1..n \cup {n + 1} : h[i] \in Int
  <2>1. ASSUME NEW i \in 1..n \cup {n + 1} PROVE h[i] \in Int OBVIOUS
  <2>2. QED BY <2>1
<1>5. SumFunctionOnSet(h, 1..n \cup {n + 1}) = h[n + 1] + SumFunctionOnSet(h, 1..n)
  BY <1>2, <1>3, <1>4, SumAdd
<1>6. SumFunctionOnSet(h, 1..n) = SumFunctionOnSet(f, 1..n)
  BY <1>2, SumSame
<1>7. SumFunctionOnSet(f, 1..n) \in Int BY <1>2, SumType
<1>8. SumFunction(h) = SumFunctionOnSet(h, 1..n \cup {n + 1}) /\ SumFunction(f) = SumFunctionOnSet(f, 1..n)
  BY <1>3 DEF SumFunction
<1>9. QED BY <1>5, <1>6, <1>7, <1>8

Gifts == [guild : Nat, n : Int]
Gained(gs, g) == SumFunction([i \in DOMAIN gs |-> IF gs[i].guild = g THEN gs[i].n ELSE 0])

LEMMA GainedMore ==
  ASSUME NEW gs \in Seq(Gifts), NEW one \in Gifts, NEW g, NEW hs, hs = Append(gs, one)
  PROVE  hs \in Seq(Gifts) /\ Gained(hs, g) = Gained(gs, g) + (IF one.guild = g THEN one.n ELSE 0) /\ Gained(gs, g) \in Int
<1>1. one.n \in Int BY DEF Gifts
<1>3. hs \in Seq(Gifts) /\ Len(hs) = Len(gs) + 1 /\ hs[Len(gs) + 1] = one /\ \A i \in 1..Len(gs) : hs[i] = gs[i]
  BY AppendProperties
<1>4. PICK k \in Nat : k = Len(gs) /\ DOMAIN gs = 1..k BY LenProperties
<1>5. DOMAIN hs = 1..k + 1 BY <1>3, <1>4, LenProperties
<1>6. \A i \in 1..k : gs[i] \in Gifts BY <1>4, ElementOfSeq
<1>7. PICK f : f = [i \in DOMAIN gs |-> IF gs[i].guild = g THEN gs[i].n ELSE 0] OBVIOUS
<1>8. PICK e : e = [i \in DOMAIN hs |-> IF hs[i].guild = g THEN hs[i].n ELSE 0] OBVIOUS
<1>9. \A i \in 1..k : e[i] = f[i] /\ f[i] \in Int
  <2>1. ASSUME NEW i \in 1..k PROVE e[i] = f[i] /\ f[i] \in Int BY <1>3, <1>4, <1>5, <1>6, <1>7, <1>8 DEF Gifts
  <2>2. QED BY <2>1
<1>10. k + 1 \in DOMAIN hs BY <1>5
<1>11. e[k + 1] = (IF one.guild = g THEN one.n ELSE 0) /\ e[k + 1] \in Int BY <1>1, <1>3, <1>4, <1>8, <1>10
<1>12. DOMAIN f = 1..k /\ DOMAIN e = 1..k + 1 BY <1>4, <1>5, <1>7, <1>8
<1>13. SumFunction(e) = SumFunction(f) + e[k + 1] /\ SumFunction(f) \in Int BY <1>9, <1>11, <1>12, SumLonger
<1>14. Gained(hs, g) = SumFunction(e) /\ Gained(gs, g) = SumFunction(f) BY <1>7, <1>8 DEF Gained
<1>15. QED BY <1>3, <1>11, <1>13, <1>14

LEMMA GainedNone ==
  ASSUME NEW gs \in Seq(Gifts), NEW g, \A i \in DOMAIN gs : gs[i].guild # g PROVE Gained(gs, g) = 0
<1>1. PICK k \in Nat : DOMAIN gs = 1..k BY LenProperties
<1>2. 1 \in Int /\ k \in Int OBVIOUS
<1>3. IsFiniteSet(1..k) BY <1>2, FS_Interval, Zenon
<1>4. PICK f : f = [i \in DOMAIN gs |-> IF gs[i].guild = g THEN gs[i].n ELSE 0] OBVIOUS
<1>5. \A i \in 1..k : f[i] = 0 BY <1>1, <1>4
<1>6. SumFunctionOnSet(f, 1..k) = 0 BY <1>3, <1>5, SumZero
<1>7. QED BY <1>1, <1>4, <1>6 DEF Gained, SumFunction

Skilled(ss) == SumFunction([s \in DOMAIN ss |-> ss[s] - 1])

LEMMA SkilledMore ==
  ASSUME NEW ss \in Seq(Int), NEW t, t = Append(ss, 1)
  PROVE  t \in Seq(Int) /\ Skilled(t) = Skilled(ss)
<1>1. 1 \in Int OBVIOUS
<1>2. t \in Seq(Int) /\ Len(t) = Len(ss) + 1 /\ t[Len(ss) + 1] = 1 /\ \A i \in 1..Len(ss) : t[i] = ss[i]
  BY <1>1, AppendProperties
<1>3. PICK k \in Nat : k = Len(ss) /\ DOMAIN ss = 1..k BY LenProperties
<1>4. DOMAIN t = 1..k + 1 BY <1>2, <1>3, LenProperties
<1>5. \A i \in 1..k : ss[i] \in Int BY <1>3, ElementOfSeq
<1>6. PICK f : f = [s \in DOMAIN ss |-> ss[s] - 1] OBVIOUS
<1>7. PICK e : e = [s \in DOMAIN t |-> t[s] - 1] OBVIOUS
<1>8. \A i \in 1..k : e[i] = f[i] /\ f[i] \in Int
  <2>1. ASSUME NEW i \in 1..k PROVE e[i] = f[i] /\ f[i] \in Int BY <1>2, <1>3, <1>4, <1>5, <1>6, <1>7
  <2>2. QED BY <2>1
<1>9. k + 1 \in DOMAIN t BY <1>4
<1>10. e[k + 1] = 0 BY <1>2, <1>3, <1>7, <1>9
<1>11. DOMAIN f = 1..k /\ DOMAIN e = 1..k + 1 BY <1>3, <1>4, <1>6, <1>7
<1>12. SumFunction(e) = SumFunction(f) + e[k + 1] /\ SumFunction(f) \in Int BY <1>8, <1>10, <1>11, SumLonger
<1>13. Skilled(t) = SumFunction(e) /\ Skilled(ss) = SumFunction(f) BY <1>6, <1>7 DEF Skilled
<1>14. QED BY <1>2, <1>10, <1>12, <1>13

LEMMA SkilledRaised ==
  ASSUME NEW ss \in Seq(Int), NEW i \in DOMAIN ss, NEW t, t = [ss EXCEPT ![i] = @ + 1]
  PROVE  t \in Seq(Int) /\ Skilled(t) = Skilled(ss) + 1 /\ Skilled(ss) \in Int
<1>1. PICK k \in Nat : DOMAIN ss = 1..k BY LenProperties
<1>2. \A j \in 1..k : ss[j] \in Int BY <1>1, ElementOfSeq
<1>3. DOMAIN t = 1..k /\ t[i] = ss[i] + 1 /\ \A j \in 1..k \ {i} : t[j] = ss[j] BY <1>1
<1>4. t \in Seq(Int) BY <1>1, <1>2, <1>3, SeqDef
<1>5. PICK f : f = [s \in DOMAIN ss |-> ss[s] - 1] OBVIOUS
<1>6. PICK e : e = [s \in DOMAIN t |-> t[s] - 1] OBVIOUS
<1>7. DOMAIN f = 1..k /\ DOMAIN e = 1..k BY <1>1, <1>3, <1>5, <1>6
<1>8. \A j \in 1..k : f[j] \in Int BY <1>1, <1>2, <1>5
<1>9. \A j \in 1..k \ {i} : e[j] = f[j] BY <1>1, <1>3, <1>5, <1>6
<1>10. e[i] = f[i] + 1 /\ e[i] \in Int /\ f[i] \in Int BY <1>1, <1>2, <1>3, <1>5, <1>6
<1>11. 1 \in Int /\ k \in Int OBVIOUS
<1>12. IsFiniteSet(1..k) BY <1>11, FS_Interval, Zenon
<1>13. i \in 1..k BY <1>1
<1>14. SumFunctionOnSet(e, 1..k) = SumFunctionOnSet(f, 1..k) - f[i] + e[i]
  <2>1. PICK T : T = 1..k OBVIOUS
  <2>2. e[i] \in Int BY <1>10
  <2>3. IsFiniteSet(T) /\ i \in T /\ (\A j \in T : f[j] \in Int) /\ \A j \in T \ {i} : e[j] = f[j]
    BY <1>8, <1>9, <1>12, <1>13, <2>1
  <2>4. SumFunctionOnSet(e, T) = SumFunctionOnSet(f, T) - f[i] + e[i] BY <2>2, <2>3, SumChange
  <2>5. QED BY <2>1, <2>4
<1>15. SumFunctionOnSet(f, 1..k) \in Int BY <1>8, <1>12, SumType
<1>16. Skilled(t) = SumFunctionOnSet(e, 1..k) /\ Skilled(ss) = SumFunctionOnSet(f, 1..k)
  BY <1>5, <1>6, <1>7 DEF Skilled, SumFunction
<1>17. QED BY <1>4, <1>10, <1>14, <1>15, <1>16

LEMMA SkilledType == ASSUME NEW ss \in Seq(Int) PROVE Skilled(ss) \in Int
<1>1. PICK k \in Nat : DOMAIN ss = 1..k BY LenProperties
<1>2. 1 \in Int /\ k \in Int OBVIOUS
<1>3. IsFiniteSet(1..k) BY <1>2, FS_Interval, Zenon
<1>4. PICK f : f = [s \in DOMAIN ss |-> ss[s] - 1] OBVIOUS
<1>5. \A j \in 1..k : f[j] \in Int BY <1>1, <1>4, ElementOfSeq
<1>6. SumFunctionOnSet(f, 1..k) \in Int BY <1>3, <1>5, SumType
<1>7. QED BY <1>1, <1>4, <1>6 DEF Skilled, SumFunction

LEMMA SkilledNone == ASSUME NEW ss, ss = <<>> PROVE Skilled(ss) = 0 BY SumEmpty DEF Skilled, SumFunction

-----------------------------------------------------------------------------
(* The guilds as a function to records, of which an action changes one.    *)
Ballots == UNION {[S -> BOOLEAN] : S \in SUBSET Citizens}
Motions == [what : Whats, votes : Ballots, expires : Int, done : BOOLEAN]
GuildRecord ==
  [name : GuildNames, leader : Citizens, members : Seq(People), treasury : Int,
   level : Int, xp : Int, skills : Seq(Int), proposals : Seq(Motions)]

Changed(gs, hs, g, q) ==
  /\ g \in DOMAIN gs /\ DOMAIN hs = DOMAIN gs /\ hs[g] = q
  /\ \A x \in DOMAIN gs \ {g} : hs[x] = gs[x]

Recorded(gs) == \A g \in DOMAIN gs : gs[g] \in GuildRecord

LEMMA FieldsOf ==
  ASSUME NEW r \in GuildRecord
  PROVE  /\ r.name \in GuildNames /\ r.leader \in Citizens /\ r.members \in Seq(People) /\ r.treasury \in Int
         /\ r.level \in Int /\ r.xp \in Int /\ r.skills \in Seq(Int) /\ r.proposals \in Seq(Motions)
BY DEF GuildRecord

SameWealth(r, q) == q.treasury = r.treasury /\ q.level = r.level /\ q.xp = r.xp /\ q.skills = r.skills
SamePeople(r, q) == q.leader = r.leader /\ q.members = r.members

LEMMA WithMembers ==
  ASSUME NEW r \in GuildRecord, NEW v \in Seq(People), NEW q, q = [r EXCEPT !.members = v]
  PROVE  q \in GuildRecord /\ q.members = v /\ q.leader = r.leader /\ q.name = r.name /\ q.proposals = r.proposals
         /\ SameWealth(r, q)
BY DEF GuildRecord, SameWealth

LEMMA WithTreasury ==
  ASSUME NEW r \in GuildRecord, NEW v \in Int, NEW q, q = [r EXCEPT !.treasury = v]
  PROVE  q \in GuildRecord /\ q.treasury = v /\ q.name = r.name /\ q.proposals = r.proposals
         /\ q.level = r.level /\ q.xp = r.xp /\ q.skills = r.skills /\ SamePeople(r, q)
BY DEF GuildRecord, SamePeople

LEMMA WithProposals ==
  ASSUME NEW r \in GuildRecord, NEW v \in Seq(Motions), NEW q, q = [r EXCEPT !.proposals = v]
  PROVE  q \in GuildRecord /\ q.proposals = v /\ q.name = r.name /\ SameWealth(r, q) /\ SamePeople(r, q)
BY DEF GuildRecord, SameWealth, SamePeople

LEMMA WithName ==
  ASSUME NEW r \in GuildRecord, NEW v \in GuildNames, NEW q, q = [r EXCEPT !.name = v]
  PROVE  q \in GuildRecord /\ q.name = v /\ q.proposals = r.proposals /\ SameWealth(r, q) /\ SamePeople(r, q)
BY DEF GuildRecord, SameWealth, SamePeople

LEMMA WithLevel ==
  ASSUME NEW r \in GuildRecord, NEW v \in Int, NEW w \in Int, NEW q, q = [r EXCEPT !.level = v, !.xp = w]
  PROVE  q \in GuildRecord /\ q.level = v /\ q.xp = w /\ q.name = r.name /\ q.proposals = r.proposals
         /\ q.treasury = r.treasury /\ q.skills = r.skills /\ SamePeople(r, q)
BY DEF GuildRecord, SamePeople

LEMMA WithSkills ==
  ASSUME NEW r \in GuildRecord, NEW v \in Seq(Int), NEW w \in Int, NEW q, q = [r EXCEPT !.xp = w, !.skills = v]
  PROVE  q \in GuildRecord /\ q.skills = v /\ q.xp = w /\ q.name = r.name /\ q.proposals = r.proposals
         /\ q.treasury = r.treasury /\ q.level = r.level /\ SamePeople(r, q)
BY DEF GuildRecord, SamePeople

LEMMA OneChanged ==
  ASSUME NEW gs, NEW g \in DOMAIN gs, NEW q, NEW hs, hs = [gs EXCEPT ![g] = q]
  PROVE  Changed(gs, hs, g, q)
BY DEF Changed

-----------------------------------------------------------------------------
(* The index of the players.                                               *)
Indexes(gs, f) ==
  /\ \A p \in DOMAIN f : p \in Citizens /\ f[p] \in DOMAIN gs /\ p \in IdsOf(gs[f[p]].members)
  /\ \A g \in DOMAIN gs : \A p \in IdsOf(gs[g].members) : p \in DOMAIN f /\ f[p] = g

LEMMA IndexSame ==
  ASSUME NEW gs, NEW hs, NEW g, NEW q, NEW f, Indexes(gs, f), Changed(gs, hs, g, q),
         IdsOf(q.members) = IdsOf(gs[g].members)
  PROVE  Indexes(hs, f)
<1>1. \A x \in DOMAIN gs : IdsOf(hs[x].members) = IdsOf(gs[x].members)
  <2>1. ASSUME NEW x \in DOMAIN gs PROVE IdsOf(hs[x].members) = IdsOf(gs[x].members) BY DEF Changed
  <2>2. QED BY <2>1
<1>2. DOMAIN hs = DOMAIN gs BY DEF Changed
<1>3. QED BY <1>1, <1>2 DEF Indexes

LEMMA IndexLess ==
  ASSUME NEW gs, NEW hs, NEW g, NEW q, NEW f, NEW p, Indexes(gs, f), Changed(gs, hs, g, q),
         p \in IdsOf(gs[g].members), IdsOf(q.members) = IdsOf(gs[g].members) \ {p}
  PROVE  Indexes(hs, Without(f, p))
<1>1. PICK e : e = Without(f, p) OBVIOUS
<1>2. DOMAIN e = DOMAIN f \ {p} /\ \A x \in DOMAIN f \ {p} : e[x] = f[x] BY <1>1 DEF Without, Restrict
<1>3. g \in DOMAIN gs /\ DOMAIN hs = DOMAIN gs /\ hs[g] = q BY DEF Changed
<1>4. p \in DOMAIN f /\ f[p] = g BY <1>3 DEF Indexes
<1>5. \A x \in DOMAIN gs : IdsOf(hs[x].members) = IdsOf(gs[x].members) \ {p}
  <2>1. ASSUME NEW x \in DOMAIN gs PROVE IdsOf(hs[x].members) = IdsOf(gs[x].members) \ {p}
    <3>1. CASE x = g BY <1>3, <3>1
    <3>2. CASE x # g BY <1>4, <3>2 DEF Changed, Indexes
    <3>3. QED BY <3>1, <3>2
  <2>2. QED BY <2>1
<1>6. Indexes(hs, e) BY <1>2, <1>3, <1>5 DEF Indexes
<1>7. QED BY <1>1, <1>6

LEMMA IndexMore ==
  ASSUME NEW gs, NEW hs, NEW g, NEW q, NEW f, NEW p \in Citizens, Indexes(gs, f), Changed(gs, hs, g, q),
         p \notin DOMAIN f, IdsOf(q.members) = IdsOf(gs[g].members) \cup {p}
  PROVE  Indexes(hs, Having(f, p, g))
<1>1. PICK e : e = Having(f, p, g) OBVIOUS
<1>2. DOMAIN e = DOMAIN f \cup {p} /\ e[p] = g /\ \A x \in DOMAIN f : e[x] = f[x] BY <1>1 DEF Having
<1>3. g \in DOMAIN gs /\ DOMAIN hs = DOMAIN gs /\ hs[g] = q BY DEF Changed
<1>4. \A x \in DOMAIN gs : p \notin IdsOf(gs[x].members) BY DEF Indexes
<1>5. \A x \in DOMAIN gs \ {g} : hs[x] = gs[x] BY DEF Changed
<1>6. ASSUME NEW x \in DOMAIN e PROVE x \in Citizens /\ e[x] \in DOMAIN hs /\ x \in IdsOf(hs[e[x]].members)
  <2>1. CASE x = p BY <1>2, <1>3, <2>1
  <2>2. CASE x # p BY <1>2, <1>3, <1>5, <2>2 DEF Indexes
  <2>3. QED BY <2>1, <2>2
<1>7. ASSUME NEW y \in DOMAIN hs, NEW x \in IdsOf(hs[y].members) PROVE x \in DOMAIN e /\ e[x] = y
  <2>1. CASE y = g /\ x = p BY <1>2, <2>1
  <2>2. CASE y = g /\ x # p BY <1>2, <1>3, <1>7, <2>2 DEF Indexes
  <2>3. CASE y # g BY <1>2, <1>3, <1>5, <1>7, <2>3 DEF Indexes
  <2>4. QED BY <2>1, <2>2, <2>3
<1>8. Indexes(hs, e) BY <1>6, <1>7 DEF Indexes
<1>9. QED BY <1>1, <1>8

LEMMA IndexNew ==
  ASSUME NEW gs, NEW hs, NEW g, NEW q, NEW f, NEW p \in Citizens, Indexes(gs, f), g \notin DOMAIN gs,
         hs = Having(gs, g, q), p \notin DOMAIN f, IdsOf(q.members) = {p}
  PROVE  Indexes(hs, Having(f, p, g))
<1>1. PICK e : e = Having(f, p, g) OBVIOUS
<1>2. DOMAIN e = DOMAIN f \cup {p} /\ e[p] = g /\ \A x \in DOMAIN f : e[x] = f[x] BY <1>1 DEF Having
<1>3. DOMAIN hs = DOMAIN gs \cup {g} /\ hs[g] = q /\ \A x \in DOMAIN gs : hs[x] = gs[x] BY DEF Having
<1>4. ASSUME NEW x \in DOMAIN e PROVE x \in Citizens /\ e[x] \in DOMAIN hs /\ x \in IdsOf(hs[e[x]].members)
  <2>1. CASE x = p BY <1>2, <1>3, <2>1
  <2>2. CASE x # p BY <1>2, <1>3, <2>2 DEF Indexes
  <2>3. QED BY <2>1, <2>2
<1>5. ASSUME NEW y \in DOMAIN hs, NEW x \in IdsOf(hs[y].members) PROVE x \in DOMAIN e /\ e[x] = y
  <2>1. CASE y = g BY <1>2, <1>3, <1>5, <2>1
  <2>2. CASE y # g BY <1>2, <1>3, <1>5, <2>2 DEF Indexes
  <2>3. QED BY <2>1, <2>2
<1>6. Indexes(hs, e) BY <1>4, <1>5 DEF Indexes
<1>7. QED BY <1>1, <1>6

LEMMA IndexGone ==
  ASSUME NEW gs, NEW hs, NEW g \in DOMAIN gs, NEW f, Indexes(gs, f), hs = Without(gs, g)
  PROVE  Indexes(hs, Restrict(f, DOMAIN f \ IdsOf(gs[g].members)))
<1>1. PICK e : e = Restrict(f, DOMAIN f \ IdsOf(gs[g].members)) OBVIOUS
<1>2. DOMAIN e = DOMAIN f \ IdsOf(gs[g].members) /\ \A x \in DOMAIN e : e[x] = f[x] BY <1>1 DEF Restrict
<1>3. DOMAIN hs = DOMAIN gs \ {g} /\ \A x \in DOMAIN hs : hs[x] = gs[x] BY DEF Without, Restrict
<1>4. ASSUME NEW x \in DOMAIN e PROVE x \in Citizens /\ e[x] \in DOMAIN hs /\ x \in IdsOf(hs[e[x]].members)
  BY <1>2, <1>3 DEF Indexes
<1>5. ASSUME NEW y \in DOMAIN hs, NEW x \in IdsOf(hs[y].members) PROVE x \in DOMAIN e /\ e[x] = y
  BY <1>2, <1>3, <1>5 DEF Indexes
<1>6. Indexes(hs, e) BY <1>4, <1>5 DEF Indexes
<1>7. QED BY <1>1, <1>6

-----------------------------------------------------------------------------
(* What is in the treasuries.                                              *)
Treasure(gs) == SumFunction([g \in DOMAIN gs |-> gs[g].treasury])

LEMMA TreasureOf ==
  ASSUME NEW gs, IsFiniteSet(DOMAIN gs), Recorded(gs)
  PROVE  \E F : /\ DOMAIN F = DOMAIN gs /\ \A x \in DOMAIN gs : F[x] = gs[x].treasury /\ F[x] \in Int
                /\ Treasure(gs) = SumFunctionOnSet(F, DOMAIN gs) /\ Treasure(gs) \in Int
<1>1. PICK F : F = [g \in DOMAIN gs |-> gs[g].treasury] OBVIOUS
<1>2. \A x \in DOMAIN gs : F[x] = gs[x].treasury /\ F[x] \in Int BY <1>1, FieldsOf DEF Recorded
<1>3. DOMAIN F = DOMAIN gs BY <1>1
<1>4. Treasure(gs) = SumFunctionOnSet(F, DOMAIN gs) BY <1>1, <1>3 DEF Treasure, SumFunction
<1>5. SumFunctionOnSet(F, DOMAIN gs) \in Int BY <1>2, SumType
<1>6. QED BY <1>2, <1>3, <1>4, <1>5

LEMMA TreasureChanged ==
  ASSUME NEW gs, IsFiniteSet(DOMAIN gs), Recorded(gs), NEW g, NEW q \in GuildRecord, NEW hs, Changed(gs, hs, g, q)
  PROVE  Treasure(hs) = Treasure(gs) - gs[g].treasury + q.treasury /\ Recorded(hs)
<1>1. g \in DOMAIN gs /\ DOMAIN hs = DOMAIN gs /\ hs[g] = q /\ \A x \in DOMAIN gs \ {g} : hs[x] = gs[x] BY DEF Changed
<1>2. Recorded(hs)
  <2>1. ASSUME NEW x \in DOMAIN hs PROVE hs[x] \in GuildRecord BY <1>1 DEF Recorded
  <2>2. QED BY <2>1 DEF Recorded
<1>3. PICK F : /\ DOMAIN F = DOMAIN gs /\ \A x \in DOMAIN gs : F[x] = gs[x].treasury /\ F[x] \in Int
               /\ Treasure(gs) = SumFunctionOnSet(F, DOMAIN gs) /\ Treasure(gs) \in Int
  BY TreasureOf
<1>4. IsFiniteSet(DOMAIN hs) BY <1>1
<1>5. PICK H : /\ DOMAIN H = DOMAIN hs /\ \A x \in DOMAIN hs : H[x] = hs[x].treasury /\ H[x] \in Int
               /\ Treasure(hs) = SumFunctionOnSet(H, DOMAIN hs) /\ Treasure(hs) \in Int
  BY <1>2, <1>4, TreasureOf
<1>6. PICK T : T = DOMAIN gs OBVIOUS
<1>7. IsFiniteSet(T) /\ g \in T /\ (\A x \in T : F[x] \in Int) /\ (\A x \in T \ {g} : H[x] = F[x])
  BY <1>1, <1>3, <1>5, <1>6
<1>8. H[g] \in Int BY <1>1, <1>5
<1>9. SumFunctionOnSet(H, T) = SumFunctionOnSet(F, T) - F[g] + H[g] BY <1>7, <1>8, SumChange
<1>10. F[g] = gs[g].treasury /\ H[g] = q.treasury BY <1>1, <1>3, <1>5
<1>11. QED BY <1>1, <1>2, <1>3, <1>5, <1>6, <1>9, <1>10

LEMMA TreasureNew ==
  ASSUME NEW gs, IsFiniteSet(DOMAIN gs), Recorded(gs), NEW g, g \notin DOMAIN gs, NEW q \in GuildRecord,
         NEW hs, hs = Having(gs, g, q)
  PROVE  Treasure(hs) = Treasure(gs) + q.treasury /\ Recorded(hs)
<1>1. DOMAIN hs = DOMAIN gs \cup {g} /\ hs[g] = q /\ \A x \in DOMAIN gs : hs[x] = gs[x] BY DEF Having
<1>2. Recorded(hs)
  <2>1. ASSUME NEW x \in DOMAIN hs PROVE hs[x] \in GuildRecord BY <1>1 DEF Recorded
  <2>2. QED BY <2>1 DEF Recorded
<1>3. PICK F : /\ DOMAIN F = DOMAIN gs /\ \A x \in DOMAIN gs : F[x] = gs[x].treasury /\ F[x] \in Int
               /\ Treasure(gs) = SumFunctionOnSet(F, DOMAIN gs) /\ Treasure(gs) \in Int
  BY TreasureOf
<1>4. IsFiniteSet(DOMAIN hs) BY <1>1, FS_AddElement
<1>5. PICK H : /\ DOMAIN H = DOMAIN hs /\ \A x \in DOMAIN hs : H[x] = hs[x].treasury /\ H[x] \in Int
               /\ Treasure(hs) = SumFunctionOnSet(H, DOMAIN hs) /\ Treasure(hs) \in Int
  BY <1>2, <1>4, TreasureOf
<1>6. PICK T : T = DOMAIN gs OBVIOUS
<1>7. IsFiniteSet(T) /\ g \notin T /\ (\A x \in T \cup {g} : H[x] \in Int) /\ (\A x \in T : H[x] = F[x])
  BY <1>1, <1>3, <1>5, <1>6
<1>8. SumFunctionOnSet(H, T \cup {g}) = H[g] + SumFunctionOnSet(H, T) BY <1>7, SumAdd
<1>9. SumFunctionOnSet(H, T) = SumFunctionOnSet(F, T) BY <1>7, SumSame
<1>10. H[g] = q.treasury /\ H[g] \in Int BY <1>1, <1>5
<1>11. QED BY <1>1, <1>2, <1>3, <1>5, <1>6, <1>8, <1>9, <1>10

LEMMA TreasureGone ==
  ASSUME NEW gs, IsFiniteSet(DOMAIN gs), Recorded(gs), NEW g \in DOMAIN gs, NEW hs, hs = Without(gs, g)
  PROVE  Treasure(hs) = Treasure(gs) - gs[g].treasury /\ Recorded(hs)
<1>1. DOMAIN hs = DOMAIN gs \ {g} /\ \A x \in DOMAIN hs : hs[x] = gs[x] BY DEF Without, Restrict
<1>2. Recorded(hs) BY <1>1 DEF Recorded
<1>3. PICK F : /\ DOMAIN F = DOMAIN gs /\ \A x \in DOMAIN gs : F[x] = gs[x].treasury /\ F[x] \in Int
               /\ Treasure(gs) = SumFunctionOnSet(F, DOMAIN gs) /\ Treasure(gs) \in Int
  BY TreasureOf
<1>4. IsFiniteSet(DOMAIN hs) BY <1>1, FS_RemoveElement
<1>5. PICK H : /\ DOMAIN H = DOMAIN hs /\ \A x \in DOMAIN hs : H[x] = hs[x].treasury /\ H[x] \in Int
               /\ Treasure(hs) = SumFunctionOnSet(H, DOMAIN hs) /\ Treasure(hs) \in Int
  BY <1>2, <1>4, TreasureOf
<1>6. PICK T : T = DOMAIN hs OBVIOUS
<1>7. IsFiniteSet(T) /\ \A x \in T : H[x] = F[x] BY <1>1, <1>3, <1>4, <1>5, <1>6
<1>8. SumFunctionOnSet(H, T) = SumFunctionOnSet(F, T) BY <1>7, SumSame
<1>9. SumFunctionOnSet(F, DOMAIN gs) = F[g] + SumFunctionOnSet(F, DOMAIN gs \ {g}) BY <1>3, SumRemove
<1>10. F[g] = gs[g].treasury /\ F[g] \in Int BY <1>3
<1>11. QED BY <1>1, <1>2, <1>3, <1>5, <1>6, <1>8, <1>9, <1>10

-----------------------------------------------------------------------------
(* The invariant of the guilds: what each record is, who leads it, where   *)
(* the index points, and the accounts of money and of XP.                  *)
Established(gs, n) == n \in Nat /\ DOMAIN gs \subseteq 1..n /\ Recorded(gs)

AllLed(gs) == \A g \in DOMAIN gs : Led(gs[g].members, gs[g].leader)

Banked(gs, ds, out, gone) ==
  /\ ds \in Seq(Int) /\ out \in Int /\ gone \in Int
  /\ \A g \in DOMAIN gs : gs[g].treasury >= 0
  /\ SumFunction(ds) = Treasure(gs) + out + gone

NamedApart(gs, rs) == \A g, h \in DOMAIN gs : g # h /\ gs[g].name = gs[h].name => {g, h} \cap rs # {}

Earned(g, r, gifts) ==
  /\ r.level >= 1 /\ r.xp >= 0 /\ r.xp < r.level * GuildXP
  /\ Gained(gifts, g) = r.xp + ((GuildXP * r.level * (r.level - 1)) \div 2) + SkillCost * Skilled(r.skills)

AllEarned(gs, gifts, n) ==
  /\ gifts \in Seq(Gifts) /\ \A i \in DOMAIN gifts : gifts[i].guild \in 1..n
  /\ \A g \in DOMAIN gs : Earned(g, gs[g], gifts)

GuildsInv ==
  /\ today \in Int /\ Established(guilds, founded) /\ AllLed(guilds) /\ Indexes(guilds, guildOf)
  /\ Banked(guilds, deposits, paidOut, forfeited) /\ NamedApart(guilds, renamed)
  /\ AllEarned(guilds, guildGains, founded)

\* What a step does to the proposals.
CarriedStep ==
  \A g \in DOMAIN guilds \cap DOMAIN guilds' :
    \A k \in DOMAIN guilds[g].proposals :
      LET m == guilds[g].proposals[k] IN
      /\ m.done => guilds'[g].proposals[k] = m
      /\ (~m.done /\ guilds'[g].proposals[k].done) =>
           \/ 2 * Cardinality(Approvals(m) \cap MembersOf(g)) > Cardinality(MembersOf(g))
           \/ Approvals(m) \ MembersOf(g) # {}

LEMMA ProposalsStay ==
  ASSUME \A g \in DOMAIN guilds \cap DOMAIN guilds' : guilds'[g].proposals = guilds[g].proposals
  PROVE  CarriedStep
BY DEF CarriedStep

LEMMA EstablishedFinite ==
  ASSUME NEW gs, NEW n, Established(gs, n) PROVE IsFiniteSet(DOMAIN gs) /\ Recorded(gs)
<1>1. n \in Nat /\ DOMAIN gs \subseteq 1..n /\ Recorded(gs) BY DEF Established
<1>2. 1 \in Int /\ n \in Int BY <1>1
<1>3. IsFiniteSet(1..n) BY <1>2, FS_Interval, Zenon
<1>4. QED BY <1>1, <1>3, FS_Subset

LEMMA EstablishedChanged ==
  ASSUME NEW gs, NEW n, Established(gs, n), NEW g, NEW q \in GuildRecord, NEW hs, Changed(gs, hs, g, q)
  PROVE  Established(hs, n)
BY EstablishedFinite, TreasureChanged DEF Established, Changed

LEMMA LedChanged ==
  ASSUME NEW gs, AllLed(gs), NEW g, NEW q, Led(q.members, q.leader), NEW hs, Changed(gs, hs, g, q)
  PROVE  AllLed(hs)
<1>1. ASSUME NEW x \in DOMAIN hs PROVE Led(hs[x].members, hs[x].leader) BY DEF Changed, AllLed
<1>2. QED BY <1>1 DEF AllLed

LEMMA BankedChanged ==
  ASSUME NEW gs, NEW n, Established(gs, n), NEW g, NEW q \in GuildRecord, NEW hs, Changed(gs, hs, g, q),
         NEW ds, NEW out, NEW gone, Banked(gs, ds, out, gone),
         NEW es \in Seq(Int), NEW o \in Int, q.treasury >= 0,
         SumFunction(es) = SumFunction(ds) + (q.treasury - gs[g].treasury) + (o - out)
  PROVE  Banked(hs, es, o, gone)
<1>1. Treasure(hs) = Treasure(gs) - gs[g].treasury + q.treasury BY EstablishedFinite, TreasureChanged
<1>2. Treasure(gs) \in Int BY EstablishedFinite, TreasureOf
<1>3. g \in DOMAIN gs BY DEF Changed
<1>4. gs[g].treasury \in Int BY <1>3, EstablishedFinite, FieldsOf DEF Recorded
<1>5. q.treasury \in Int BY FieldsOf
<1>6. out \in Int /\ gone \in Int /\ SumFunction(ds) = Treasure(gs) + out + gone BY DEF Banked
<1>7. SumFunction(es) = Treasure(hs) + o + gone BY <1>1, <1>2, <1>4, <1>5, <1>6
<1>8. ASSUME NEW x \in DOMAIN hs PROVE hs[x].treasury >= 0 BY DEF Changed, Banked
<1>9. QED BY <1>6, <1>7, <1>8 DEF Banked

LEMMA ApartChanged ==
  ASSUME NEW gs, NEW rs, NamedApart(gs, rs), NEW g, NEW q, NEW hs, Changed(gs, hs, g, q),
         NEW ts, rs \subseteq ts, q.name = gs[g].name \/ g \in ts
  PROVE  NamedApart(hs, ts)
<1>1. DOMAIN hs = DOMAIN gs /\ g \in DOMAIN gs /\ hs[g] = q /\ \A x \in DOMAIN gs \ {g} : hs[x] = gs[x] BY DEF Changed
<1>2. ASSUME NEW x \in DOMAIN hs, NEW y \in DOMAIN hs, x # y, hs[x].name = hs[y].name PROVE {x, y} \cap ts # {}
  <2>1. CASE g \in ts /\ (x = g \/ y = g) BY <2>1
  <2>2. CASE q.name = gs[g].name BY <1>1, <1>2, <2>2 DEF NamedApart
  <2>3. CASE x # g /\ y # g BY <1>1, <1>2, <2>3 DEF NamedApart
  <2>4. QED BY <2>1, <2>2, <2>3
<1>3. QED BY <1>2 DEF NamedApart

LEMMA EarnedChanged ==
  ASSUME NEW gs, NEW n, NEW a, AllEarned(gs, a, n), NEW g, NEW q, NEW hs, Changed(gs, hs, g, q),
         NEW b \in Seq(Gifts), \A i \in DOMAIN b : b[i].guild \in 1..n,
         \A x \in DOMAIN gs \ {g} : Gained(b, x) = Gained(a, x), Earned(g, q, b)
  PROVE  AllEarned(hs, b, n)
<1>1. DOMAIN hs = DOMAIN gs /\ hs[g] = q /\ \A x \in DOMAIN gs \ {g} : hs[x] = gs[x] BY DEF Changed
<1>2. ASSUME NEW x \in DOMAIN hs PROVE Earned(x, hs[x], b)
  <2>1. CASE x = g BY <1>1, <2>1
  <2>2. CASE x # g BY <1>1, <2>2 DEF AllEarned, Earned
  <2>3. QED BY <2>1, <2>2
<1>3. QED BY <1>2 DEF AllEarned

\* XP stay as they are.
LEMMA EarnedSame ==
  ASSUME NEW gs, NEW n, NEW a, AllEarned(gs, a, n), NEW g, NEW q, NEW hs, Changed(gs, hs, g, q),
         q.level = gs[g].level, q.xp = gs[g].xp, q.skills = gs[g].skills
  PROVE  AllEarned(hs, a, n)
BY EarnedChanged DEF Changed, AllEarned, Earned

-----------------------------------------------------------------------------
(* Steps that change the members or the proposals of one guild.            *)
LEMMA PlainChange ==
  ASSUME GuildsInv, NEW g, NEW q \in GuildRecord, Changed(guilds, guilds', g, q),
         SameWealth(guilds[g], q), q.name = guilds[g].name, Led(q.members, q.leader), Indexes(guilds', guildOf'),
         UNCHANGED <<today, founded, deposits, paidOut, forfeited, guildGains, renamed>>
  PROVE  GuildsInv'
<1>1. Established(guilds, founded) /\ AllLed(guilds) /\ Banked(guilds, deposits, paidOut, forfeited) /\ NamedApart(guilds, renamed)
      /\ AllEarned(guilds, guildGains, founded) /\ today \in Int
  BY DEF GuildsInv
<1>2. q.treasury = guilds[g].treasury /\ q.level = guilds[g].level /\ q.xp = guilds[g].xp /\ q.skills = guilds[g].skills
  BY DEF SameWealth
<1>3. Established(guilds', founded) BY <1>1, EstablishedChanged
<1>4. AllLed(guilds') BY <1>1, LedChanged
<1>5. g \in DOMAIN guilds BY DEF Changed
<1>6. guilds[g].treasury >= 0 /\ guilds[g].treasury \in Int /\ SumFunction(deposits) \in Int /\ paidOut \in Int
      /\ deposits \in Seq(Int) BY <1>1, <1>2, <1>5, EstablishedFinite, TreasureOf, FieldsOf DEF Banked
<1>7. SumFunction(deposits) = SumFunction(deposits) + (q.treasury - guilds[g].treasury) + (paidOut - paidOut)
  BY <1>2, <1>6
<1>8. q.treasury >= 0 BY <1>2, <1>6
<1>9. Banked(guilds', deposits, paidOut, forfeited) BY <1>1, <1>6, <1>7, <1>8, BankedChanged
<1>10. NamedApart(guilds', renamed) BY <1>1, ApartChanged
<1>11. AllEarned(guilds', guildGains, founded) BY <1>1, <1>2, EarnedSame
<1>12. QED BY <1>1, <1>3, <1>4, <1>9, <1>10, <1>11 DEF GuildsInv

LEMMA AtIs ==
  ASSUME GuildsInv, NEW g \in DOMAIN guilds, NEW p \in MembersOf(g)
  PROVE  /\ At(g, p) \in DOMAIN guilds[g].members /\ guilds[g].members[At(g, p)].id = p
         /\ RoleOf(g, p) = guilds[g].members[At(g, p)].role
         /\ (RoleOf(g, p) = "leader" <=> p = guilds[g].leader)
         /\ p \in IdsOf(guilds[g].members)
BY DEF MembersOf, At, GuildsInv, AllLed, RoleOf, Led, IdsOf

LEMMA GuildIs ==
  ASSUME GuildsInv, NEW g \in DOMAIN guilds
  PROVE  /\ guilds[g] \in GuildRecord /\ Led(guilds[g].members, guilds[g].leader) /\ Indexes(guilds, guildOf)
         /\ MembersOf(g) = IdsOf(guilds[g].members)
BY DEF GuildsInv, AllLed, Established, Recorded, MembersOf, IdsOf

\* A step that gives one guild other members, and the index that goes with them.
LEMMA MembersChange ==
  ASSUME GuildsInv, NEW g \in DOMAIN guilds, NEW v, NEW q, q = [guilds[g] EXCEPT !.members = v],
         guilds' = [guilds EXCEPT ![g] = q], Led(v, guilds[g].leader),
         \/ IdsOf(v) = IdsOf(guilds[g].members) /\ guildOf' = guildOf
         \/ \E p \in IdsOf(guilds[g].members) :
              IdsOf(v) = IdsOf(guilds[g].members) \ {p} /\ guildOf' = Without(guildOf, p)
         \/ \E p \in Citizens : p \notin DOMAIN guildOf /\ IdsOf(v) = IdsOf(guilds[g].members) \cup {p}
                                /\ guildOf' = Having(guildOf, p, g),
         UNCHANGED <<today, founded, deposits, paidOut, forfeited, guildGains, renamed>>
  PROVE  GuildsInv' /\ CarriedStep
<1>1. guilds[g] \in GuildRecord /\ Led(guilds[g].members, guilds[g].leader) /\ Indexes(guilds, guildOf) BY GuildIs
<1>2. v \in Seq(People) BY DEF Led
<1>3. q \in GuildRecord /\ q.members = v /\ q.leader = guilds[g].leader /\ q.name = guilds[g].name
      /\ q.proposals = guilds[g].proposals /\ SameWealth(guilds[g], q)
  BY <1>1, <1>2, WithMembers
<1>4. Changed(guilds, guilds', g, q) BY OneChanged
<1>5. Led(q.members, q.leader) BY <1>3
<1>6. Indexes(guilds', guildOf')
  <2>1. CASE IdsOf(v) = IdsOf(guilds[g].members) /\ guildOf' = guildOf BY <1>1, <1>3, <1>4, <2>1, IndexSame
  <2>2. ASSUME NEW p \in IdsOf(guilds[g].members), IdsOf(v) = IdsOf(guilds[g].members) \ {p}, guildOf' = Without(guildOf, p)
        PROVE  Indexes(guilds', guildOf')
    BY <1>1, <1>3, <1>4, <2>2, IndexLess
  <2>3. ASSUME NEW p \in Citizens, p \notin DOMAIN guildOf, IdsOf(v) = IdsOf(guilds[g].members) \cup {p},
               guildOf' = Having(guildOf, p, g)
        PROVE  Indexes(guilds', guildOf')
    BY <1>1, <1>3, <1>4, <2>3, IndexMore
  <2>4. QED BY <2>1, <2>2, <2>3
<1>7. GuildsInv' BY <1>3, <1>4, <1>5, <1>6, PlainChange
<1>8. \A x \in DOMAIN guilds \cap DOMAIN guilds' : guilds'[x].proposals = guilds[x].proposals
  <2>1. ASSUME NEW x \in DOMAIN guilds PROVE guilds'[x].proposals = guilds[x].proposals BY <1>3, <1>4 DEF Changed
  <2>2. QED BY <2>1
<1>9. CarriedStep BY <1>8, ProposalsStay
<1>10. QED BY <1>7, <1>9

\* How one part of one record reads as the record.
LEMMA MembersOnly ==
  ASSUME NEW gs, NEW g \in DOMAIN gs, NEW v
  PROVE  [gs EXCEPT ![g].members = v] = [gs EXCEPT ![g] = [gs[g] EXCEPT !.members = v]]
OBVIOUS

LEMMA JoinKeeps ==
  ASSUME GuildsInv, NEW g \in DOMAIN guilds, NEW p \in Citizens, JoinGuild(g, p) PROVE GuildsInv' /\ CarriedStep
<1>1. PICK v : v = Append(guilds[g].members, Member(p, "member")) OBVIOUS
<1>2. p \notin DOMAIN guildOf /\ p \notin MembersOf(g) /\ guildOf' = Having(guildOf, p, g)
      /\ UNCHANGED <<today, founded, deposits, paidOut, forfeited, guildGains, renamed>>
  BY DEF JoinGuild
<1>3. guilds' = [guilds EXCEPT ![g].members = v] BY <1>1 DEF JoinGuild
<1>4. guilds' = [guilds EXCEPT ![g] = [guilds[g] EXCEPT !.members = v]] BY <1>3, MembersOnly
<1>5. Led(guilds[g].members, guilds[g].leader) /\ MembersOf(g) = IdsOf(guilds[g].members) BY GuildIs
<1>6. Joined(guilds[g].members, v, guilds[g].leader, p) BY <1>1, <1>2, <1>5, ListAppended
<1>7. Led(v, guilds[g].leader) /\ IdsOf(v) = IdsOf(guilds[g].members) \cup {p} BY <1>6 DEF Joined
<1>8. QED BY <1>2, <1>4, <1>7, MembersChange

LEMMA GoneKeeps ==
  ASSUME GuildsInv, NEW g \in DOMAIN guilds, NEW p \in MembersOf(g), p # guilds[g].leader, Gone(g, p),
         UNCHANGED <<today, founded, deposits, paidOut, forfeited, guildGains, renamed>>
  PROVE  GuildsInv' /\ CarriedStep
<1>1. PICK i \in DOMAIN guilds[g].members : i = At(g, p) /\ guilds[g].members[i].id = p BY AtIs
<1>2. PICK v : v = RemoveAt(guilds[g].members, i) OBVIOUS
<1>3. guilds' = [guilds EXCEPT ![g].members = v] /\ guildOf' = Without(guildOf, p) BY <1>1, <1>2 DEF Gone
<1>4. guilds' = [guilds EXCEPT ![g] = [guilds[g] EXCEPT !.members = v]] BY <1>3, MembersOnly
<1>5. Led(guilds[g].members, guilds[g].leader) /\ MembersOf(g) = IdsOf(guilds[g].members) BY GuildIs
<1>6. Parted(guilds[g].members, v, guilds[g].leader, guilds[g].members[i].id) BY <1>1, <1>2, <1>5, ListRemoved
<1>7. Led(v, guilds[g].leader) /\ IdsOf(v) = IdsOf(guilds[g].members) \ {p} BY <1>1, <1>6 DEF Parted
<1>8. p \in IdsOf(guilds[g].members) BY <1>5
<1>9. QED BY <1>3, <1>4, <1>7, <1>8, MembersChange

LEMMA LeaveKeeps ==
  ASSUME GuildsInv, NEW g \in DOMAIN guilds, NEW p \in Citizens, LeaveGuild(g, p) PROVE GuildsInv' /\ CarriedStep
BY GoneKeeps DEF LeaveGuild

LEMMA KickKeeps ==
  ASSUME GuildsInv, NEW g \in DOMAIN guilds, NEW p \in Citizens, NEW q \in Citizens, KickMember(g, p, q)
  PROVE  GuildsInv' /\ CarriedStep
BY AtIs, GoneKeeps DEF KickMember, MayAct

LEMMA PromoteKeeps ==
  ASSUME GuildsInv, NEW g \in DOMAIN guilds, NEW p \in Citizens, NEW q \in Citizens, NEW role \in {"officer", "member"},
         PromoteMember(g, p, q, role)
  PROVE  GuildsInv' /\ CarriedStep
<1>1. q \in MembersOf(g) /\ RoleOf(g, q) # "leader" /\ guildOf' = guildOf
      /\ UNCHANGED <<today, founded, deposits, paidOut, forfeited, guildGains, renamed>>
  BY DEF PromoteMember, MayAct
<1>2. PICK i \in DOMAIN guilds[g].members : i = At(g, q) /\ guilds[g].members[i].id = q BY <1>1, AtIs
<1>3. q # guilds[g].leader BY <1>1, AtIs
<1>4. PICK v : v = [guilds[g].members EXCEPT ![i].role = role] OBVIOUS
<1>5. guilds' = [guilds EXCEPT ![g].members[i].role = role] BY <1>2 DEF PromoteMember
<1>6. guilds' = [guilds EXCEPT ![g] = [guilds[g] EXCEPT !.members = v]] BY <1>4, <1>5
<1>7. Led(guilds[g].members, guilds[g].leader) BY GuildIs
<1>8. Reranked(guilds[g].members, v, guilds[g].leader) BY <1>2, <1>3, <1>4, <1>7, ListPromoted
<1>9. Led(v, guilds[g].leader) /\ IdsOf(v) = IdsOf(guilds[g].members) BY <1>8 DEF Reranked
<1>10. QED BY <1>1, <1>6, <1>9, MembersChange

LEMMA TransferKeeps ==
  ASSUME GuildsInv, NEW g \in DOMAIN guilds, NEW p \in Citizens, NEW l \in Citizens, TransferLeadership(g, p, l)
  PROVE  GuildsInv' /\ CarriedStep
<1>1. guilds[g].leader = p /\ p # l /\ p \in MembersOf(g) /\ l \in MembersOf(g)
      /\ UNCHANGED <<guildOf, today, founded, deposits, paidOut, forfeited, guildGains, renamed>>
  BY DEF TransferLeadership
<1>2. PICK i \in DOMAIN guilds[g].members : i = At(g, p) /\ guilds[g].members[i].id = p BY <1>1, AtIs
<1>3. PICK j \in DOMAIN guilds[g].members : j = At(g, l) /\ guilds[g].members[j].id = l BY <1>1, AtIs
<1>4. PICK v : v = Handed(guilds[g].members, i, j) OBVIOUS
<1>5. PICK q : q = [guilds[g] EXCEPT !.members = v, !.leader = l] OBVIOUS
<1>6. guilds' = [guilds EXCEPT ![g].members = v, ![g].leader = l] BY <1>2, <1>3, <1>4 DEF TransferLeadership
<1>7. guilds' = [guilds EXCEPT ![g] = q] BY <1>5, <1>6
<1>8. guilds[g] \in GuildRecord /\ Led(guilds[g].members, guilds[g].leader) /\ Indexes(guilds, guildOf) BY GuildIs
<1>9. Reranked(guilds[g].members, v, l) BY <1>1, <1>2, <1>3, <1>4, <1>8, ListHanded
<1>10. Led(v, l) /\ IdsOf(v) = IdsOf(guilds[g].members) BY <1>9 DEF Reranked
<1>11. v \in Seq(People) BY <1>10 DEF Led
<1>12. q \in GuildRecord /\ q.members = v /\ q.leader = l /\ q.name = guilds[g].name
       /\ q.proposals = guilds[g].proposals /\ SameWealth(guilds[g], q)
  BY <1>5, <1>8, <1>11 DEF GuildRecord, SameWealth
<1>13. Changed(guilds, guilds', g, q) BY <1>7, OneChanged
<1>14. Led(q.members, q.leader) BY <1>10, <1>12
<1>15. Indexes(guilds', guildOf') BY <1>1, <1>8, <1>10, <1>12, <1>13, IndexSame
<1>16. GuildsInv' BY <1>1, <1>12, <1>13, <1>14, <1>15, PlainChange
<1>17. \A x \in DOMAIN guilds \cap DOMAIN guilds' : guilds'[x].proposals = guilds[x].proposals
  <2>1. ASSUME NEW x \in DOMAIN guilds PROVE guilds'[x].proposals = guilds[x].proposals BY <1>12, <1>13 DEF Changed
  <2>2. QED BY <2>1
<1>18. CarriedStep BY <1>17, ProposalsStay
<1>19. QED BY <1>16, <1>18

LEMMA CreateKeeps ==
  ASSUME GuildsInv, NEW name \in GuildNames, NEW p \in Citizens, CreateGuild(name, p) PROVE GuildsInv' /\ CarriedStep
<1>1. PICK n \in Nat : n = founded BY DEF GuildsInv, Established
<1>2. PICK v : v = <<Member(p, "leader")>> OBVIOUS
<1>3. PICK q : q = [name |-> name, leader |-> p, members |-> v, treasury |-> 0,
                    level |-> 1, xp |-> 0, skills |-> <<>>, proposals |-> <<>>]
  OBVIOUS
<1>4. PICK hs : hs = Having(guilds, n + 1, q) OBVIOUS
<1>5. guilds' = hs BY <1>1, <1>2, <1>3, <1>4 DEF CreateGuild
<1>6. p \notin DOMAIN guildOf /\ NameFree(name) /\ founded' = n + 1 /\ guildOf' = Having(guildOf, p, n + 1)
      /\ UNCHANGED <<today, deposits, paidOut, forfeited, guildGains, renamed>>
  BY <1>1 DEF CreateGuild
<1>7. Led(v, p) /\ IdsOf(v) = {p} BY <1>2, ListNew
<1>8. v \in Seq(People) BY <1>7 DEF Led
<1>9. <<>> \in Seq(Int) /\ <<>> \in Seq(Motions) BY EmptySeq
<1>10. q \in GuildRecord BY <1>3, <1>8, <1>9 DEF GuildRecord
<1>11. q.name = name /\ q.leader = p /\ q.members = v /\ q.treasury = 0 /\ q.level = 1 /\ q.xp = 0 /\ q.skills = <<>> BY <1>3
<1>12. Established(guilds, n) /\ AllLed(guilds) /\ Banked(guilds, deposits, paidOut, forfeited) /\ NamedApart(guilds, renamed)
       /\ AllEarned(guilds, guildGains, n) /\ today \in Int /\ Indexes(guilds, guildOf)
  BY <1>1 DEF GuildsInv
<1>13. n + 1 \notin DOMAIN guilds BY <1>12 DEF Established
<1>14. DOMAIN hs = DOMAIN guilds \cup {n + 1} /\ hs[n + 1] = q /\ \A x \in DOMAIN guilds : hs[x] = guilds[x]
  BY <1>4, <1>13 DEF Having
<1>15. IsFiniteSet(DOMAIN guilds) /\ Recorded(guilds) BY <1>12, EstablishedFinite
<1>16. Treasure(hs) = Treasure(guilds) + q.treasury /\ Recorded(hs) BY <1>4, <1>10, <1>13, <1>15, TreasureNew
<1>17. Established(hs, n + 1) BY <1>1, <1>12, <1>14, <1>16 DEF Established
<1>18. AllLed(hs)
  <2>1. ASSUME NEW x \in DOMAIN hs PROVE Led(hs[x].members, hs[x].leader) BY <1>7, <1>11, <1>12, <1>14 DEF AllLed
  <2>2. QED BY <2>1 DEF AllLed
<1>19. Indexes(hs, guildOf') BY <1>4, <1>6, <1>7, <1>11, <1>12, <1>13, IndexNew
<1>20. Banked(hs, deposits, paidOut, forfeited)
  <2>1. Treasure(guilds) \in Int BY <1>15, TreasureOf
  <2>2. Treasure(hs) = Treasure(guilds) BY <1>11, <1>16, <2>1
  <2>3. ASSUME NEW x \in DOMAIN hs PROVE hs[x].treasury >= 0 BY <1>11, <1>12, <1>14 DEF Banked
  <2>4. QED BY <1>12, <2>2, <2>3 DEF Banked
<1>21. NamedApart(hs, renamed)
  <2>1. \A x \in DOMAIN guilds : guilds[x].name # name BY <1>6 DEF NameFree
  <2>2. ASSUME NEW x \in DOMAIN hs, NEW y \in DOMAIN hs, x # y, hs[x].name = hs[y].name PROVE {x, y} \cap renamed # {}
    <3>1. x # n + 1 BY <1>11, <1>14, <2>1, <2>2
    <3>2. y # n + 1 BY <1>11, <1>14, <2>1, <2>2
    <3>3. x \in DOMAIN guilds /\ y \in DOMAIN guilds /\ guilds[x].name = guilds[y].name BY <1>14, <2>2, <3>1, <3>2
    <3>4. QED BY <1>12, <2>2, <3>3 DEF NamedApart
  <2>3. QED BY <2>2 DEF NamedApart
<1>22. AllEarned(hs, guildGains, n + 1)
  <2>1. guildGains \in Seq(Gifts) /\ \A i \in DOMAIN guildGains : guildGains[i].guild \in 1..n
    BY <1>12 DEF AllEarned
  <2>2. \A i \in DOMAIN guildGains : guildGains[i].guild # n + 1 /\ guildGains[i].guild \in 1..n + 1 BY <2>1
  <2>3. Gained(guildGains, n + 1) = 0 BY <2>1, <2>2, GainedNone
  <2>4. Skilled(q.skills) = 0 BY <1>11, SkilledNone
  <2>5. GuildXP \in Nat /\ GuildXP >= 1 /\ SkillCost \in Nat BY GuildsAssumption
  <2>6. (GuildXP * 1 * (1 - 1)) \div 2 = 0 BY <2>5
  <2>7. Earned(n + 1, q, guildGains) BY <1>11, <2>3, <2>4, <2>5, <2>6 DEF Earned
  <2>8. ASSUME NEW x \in DOMAIN hs PROVE Earned(x, hs[x], guildGains) BY <1>12, <1>14, <2>7 DEF AllEarned
  <2>9. QED BY <2>1, <2>2, <2>8 DEF AllEarned
<1>23. GuildsInv' BY <1>5, <1>6, <1>12, <1>17, <1>18, <1>19, <1>20, <1>21, <1>22 DEF GuildsInv
<1>24. \A x \in DOMAIN guilds \cap DOMAIN guilds' : guilds'[x].proposals = guilds[x].proposals BY <1>5, <1>14
<1>25. CarriedStep BY <1>24, ProposalsStay
<1>26. QED BY <1>23, <1>25

LEMMA DisbandKeeps ==
  ASSUME GuildsInv, NEW g \in DOMAIN guilds, NEW p \in Citizens, DisbandGuild(g, p) PROVE GuildsInv' /\ CarriedStep
<1>1. PICK hs : hs = Without(guilds, g) OBVIOUS
<1>2. guilds' = hs /\ guildOf' = Restrict(guildOf, DOMAIN guildOf \ MembersOf(g))
      /\ forfeited' = forfeited + guilds[g].treasury
      /\ UNCHANGED <<today, founded, deposits, paidOut, guildGains, renamed>>
  BY <1>1 DEF DisbandGuild
<1>3. Established(guilds, founded) /\ AllLed(guilds) /\ Banked(guilds, deposits, paidOut, forfeited) /\ NamedApart(guilds, renamed)
      /\ AllEarned(guilds, guildGains, founded) /\ today \in Int /\ Indexes(guilds, guildOf)
  BY DEF GuildsInv
<1>4. DOMAIN hs = DOMAIN guilds \ {g} /\ \A x \in DOMAIN hs : hs[x] = guilds[x] BY <1>1 DEF Without, Restrict
<1>5. IsFiniteSet(DOMAIN guilds) /\ Recorded(guilds) BY <1>3, EstablishedFinite
<1>6. Treasure(hs) = Treasure(guilds) - guilds[g].treasury /\ Recorded(hs) BY <1>1, <1>5, TreasureGone
<1>7. MembersOf(g) = IdsOf(guilds[g].members) BY GuildIs
<1>8. Indexes(hs, guildOf') BY <1>1, <1>2, <1>3, <1>7, IndexGone
<1>9. Established(hs, founded) BY <1>3, <1>4, <1>6 DEF Established
<1>10. AllLed(hs) BY <1>3, <1>4 DEF AllLed
<1>11. Banked(hs, deposits, paidOut, forfeited + guilds[g].treasury)
  BY <1>3, <1>4, <1>5, <1>6, TreasureOf, FieldsOf DEF Recorded, Banked
<1>12. NamedApart(hs, renamed) BY <1>3, <1>4 DEF NamedApart
<1>13. AllEarned(hs, guildGains, founded) BY <1>3, <1>4 DEF AllEarned
<1>14. GuildsInv' BY <1>2, <1>3, <1>8, <1>9, <1>10, <1>11, <1>12, <1>13 DEF GuildsInv
<1>15. \A x \in DOMAIN guilds \cap DOMAIN guilds' : guilds'[x].proposals = guilds[x].proposals BY <1>2, <1>4
<1>16. CarriedStep BY <1>15, ProposalsStay
<1>17. QED BY <1>14, <1>16

-----------------------------------------------------------------------------
(* Proposals and votes.                                                    *)
CarriedWell(g, m, w) ==
  /\ m.done => w = m
  /\ (~m.done /\ w.done) =>
       \/ 2 * Cardinality(Approvals(m) \cap MembersOf(g)) > Cardinality(MembersOf(g))
       \/ Approvals(m) \ MembersOf(g) # {}

LEMMA CarriedOne ==
  ASSUME NEW g, NEW q, Changed(guilds, guilds', g, q),
         \A k \in DOMAIN guilds[g].proposals : CarriedWell(g, guilds[g].proposals[k], q.proposals[k])
  PROVE  CarriedStep
<1>1. guilds'[g] = q /\ \A x \in DOMAIN guilds \ {g} : guilds'[x] = guilds[x] BY DEF Changed
<1>2. ASSUME NEW x \in DOMAIN guilds \cap DOMAIN guilds', NEW k \in DOMAIN guilds[x].proposals
      PROVE  CarriedWell(x, guilds[x].proposals[k], guilds'[x].proposals[k])
  <2>1. CASE x = g BY <1>1, <2>1
  <2>2. CASE x # g BY <1>1, <1>2, <2>2 DEF CarriedWell
  <2>3. QED BY <2>1, <2>2
<1>3. QED BY <1>2 DEF CarriedStep, CarriedWell

LEMMA BallotIs ==
  ASSUME NEW f \in Ballots PROVE DOMAIN f \in SUBSET Citizens /\ f = [x \in DOMAIN f |-> f[x]] /\ \A x \in DOMAIN f : f[x] \in BOOLEAN
BY DEF Ballots

LEMMA BallotMore ==
  ASSUME NEW f \in Ballots, NEW p \in Citizens, NEW v \in BOOLEAN PROVE Having(f, p, v) \in Ballots
<1>1. PICK e : e = Having(f, p, v) OBVIOUS
<1>2. PICK S : S = DOMAIN f \cup {p} OBVIOUS
<1>3. S \in SUBSET Citizens BY <1>2, BallotIs
<1>4. e = [z \in S |-> IF z = p THEN v ELSE f[z]] BY <1>1, <1>2 DEF Having
<1>5. \A z \in S : (IF z = p THEN v ELSE f[z]) \in BOOLEAN BY <1>2, BallotIs
<1>6. e \in [S -> BOOLEAN] BY <1>4, <1>5
<1>7. e \in Ballots BY <1>3, <1>6 DEF Ballots
<1>8. QED BY <1>1, <1>7

LEMMA BallotNew == ASSUME NEW p \in Citizens PROVE [x \in {p} |-> TRUE] \in Ballots
<1>1. PICK e : e = [x \in {p} |-> TRUE] OBVIOUS
<1>2. e \in [{p} -> BOOLEAN] BY <1>1
<1>3. {p} \in SUBSET Citizens OBVIOUS
<1>4. e \in Ballots BY <1>2, <1>3 DEF Ballots
<1>5. QED BY <1>1, <1>4

LEMMA MotionIs ==
  ASSUME NEW m \in Motions
  PROVE  m.what \in Whats /\ m.votes \in Ballots /\ m.expires \in Int /\ m.done \in BOOLEAN
BY DEF Motions

\* One proposal becomes another.
LEMMA MotionPut ==
  ASSUME NEW ms \in Seq(Motions), NEW k \in DOMAIN ms, NEW w \in Motions, NEW v, v = [ms EXCEPT ![k] = w]
  PROVE  v \in Seq(Motions) /\ v[k] = w /\ \A j \in DOMAIN ms \ {k} : v[j] = ms[j]
BY LenProperties, ElementOfSeq, SeqDef

LEMMA MotionMarked ==
  ASSUME NEW m \in Motions, NEW w, w = [m EXCEPT !.done = TRUE] PROVE w \in Motions /\ w.done
BY DEF Motions

LEMMA MotionVoted ==
  ASSUME NEW m \in Motions, NEW f \in Ballots, NEW w, w = [m EXCEPT !.votes = f] PROVE w \in Motions /\ w.done = m.done
BY DEF Motions

\* A step that gives one guild other proposals.
LEMMA ProposalsChange ==
  ASSUME GuildsInv, NEW g \in DOMAIN guilds, NEW v \in Seq(Motions),
         guilds' = [guilds EXCEPT ![g] = [guilds[g] EXCEPT !.proposals = v]],
         UNCHANGED <<guildOf, today, founded, deposits, paidOut, forfeited, guildGains, renamed>>,
         \A k \in DOMAIN guilds[g].proposals : CarriedWell(g, guilds[g].proposals[k], v[k])
  PROVE  GuildsInv' /\ CarriedStep
<1>1. guilds[g] \in GuildRecord /\ Led(guilds[g].members, guilds[g].leader) /\ Indexes(guilds, guildOf) BY GuildIs
<1>2. PICK q : q = [guilds[g] EXCEPT !.proposals = v] OBVIOUS
<1>3. q \in GuildRecord /\ q.proposals = v /\ q.name = guilds[g].name /\ SameWealth(guilds[g], q) /\ SamePeople(guilds[g], q)
  BY <1>1, <1>2, WithProposals
<1>4. Changed(guilds, guilds', g, q) BY <1>2, OneChanged
<1>5. q.members = guilds[g].members /\ q.leader = guilds[g].leader BY <1>3 DEF SamePeople
<1>6. Led(q.members, q.leader) BY <1>1, <1>5
<1>7. Indexes(guilds', guildOf') BY <1>1, <1>4, <1>5, IndexSame
<1>8. GuildsInv' BY <1>3, <1>4, <1>6, <1>7, PlainChange
<1>9. CarriedStep BY <1>3, <1>4, CarriedOne
<1>10. QED BY <1>8, <1>9

LEMMA CreateProposalKeeps ==
  ASSUME GuildsInv, NEW g \in DOMAIN guilds, NEW p \in Citizens, NEW w \in Whats, CreateProposal(g, p, w)
  PROVE  GuildsInv' /\ CarriedStep
<1>1. PICK m : m = [what |-> w, votes |-> [x \in {p} |-> TRUE], expires |-> today + ProposalLife, done |-> FALSE] OBVIOUS
<1>2. today + ProposalLife \in Int BY GuildsAssumption DEF GuildsInv
<1>3. PICK f \in Ballots : f = [x \in {p} |-> TRUE] BY BallotNew
<1>4. m \in Motions BY <1>1, <1>2, <1>3 DEF Motions
<1>5. PICK ms : ms = guilds[g].proposals OBVIOUS
<1>6. ms \in Seq(Motions) BY <1>5, GuildIs, FieldsOf
<1>7. PICK v : v = Append(ms, m) OBVIOUS
<1>8. v \in Seq(Motions) /\ \A k \in 1..Len(ms) : v[k] = ms[k] BY <1>4, <1>6, <1>7, AppendProperties
<1>9. DOMAIN ms = 1..Len(ms) BY <1>6, LenProperties
<1>10. guilds' = [guilds EXCEPT ![g].proposals = v] BY <1>1, <1>5, <1>7 DEF CreateProposal
<1>11. guilds' = [guilds EXCEPT ![g] = [guilds[g] EXCEPT !.proposals = v]] BY <1>10
<1>12. \A k \in DOMAIN guilds[g].proposals : CarriedWell(g, guilds[g].proposals[k], v[k])
  BY <1>5, <1>8, <1>9 DEF CarriedWell
<1>13. UNCHANGED <<guildOf, today, founded, deposits, paidOut, forfeited, guildGains, renamed>> BY DEF CreateProposal
<1>14. QED BY <1>8, <1>11, <1>12, <1>13, ProposalsChange

LEMMA VoteKeeps ==
  ASSUME GuildsInv, NEW g \in DOMAIN guilds, NEW p \in Citizens, NEW k \in DOMAIN guilds[g].proposals, NEW a \in BOOLEAN,
         VoteOnProposal(g, p, k, a)
  PROVE  GuildsInv' /\ CarriedStep
<1>1. PICK ms : ms = guilds[g].proposals OBVIOUS
<1>2. ms \in Seq(Motions) BY <1>1, GuildIs, FieldsOf
<1>3. ms[k] \in Motions BY <1>1, <1>2, ElementOfSeq, LenProperties
<1>4. PICK f : f = Having(ms[k].votes, p, a) OBVIOUS
<1>5. f \in Ballots BY <1>3, <1>4, MotionIs, BallotMore
<1>6. PICK w : w = [ms[k] EXCEPT !.votes = f] OBVIOUS
<1>7. w \in Motions /\ w.done = ms[k].done BY <1>3, <1>5, <1>6, MotionVoted
<1>8. PICK v : v = [ms EXCEPT ![k] = w] OBVIOUS
<1>9. v \in Seq(Motions) /\ v[k] = w /\ \A j \in DOMAIN ms \ {k} : v[j] = ms[j] BY <1>1, <1>2, <1>7, <1>8, MotionPut
<1>10. ~ms[k].done BY <1>1 DEF VoteOnProposal, Alive
<1>11. guilds' = [guilds EXCEPT ![g].proposals[k].votes = f] BY <1>1, <1>4 DEF VoteOnProposal
<1>12. guilds' = [guilds EXCEPT ![g] = [guilds[g] EXCEPT !.proposals = v]] BY <1>1, <1>6, <1>8, <1>11
<1>13. ASSUME NEW j \in DOMAIN guilds[g].proposals PROVE CarriedWell(g, guilds[g].proposals[j], v[j])
  BY <1>1, <1>7, <1>9, <1>10 DEF CarriedWell
<1>14. UNCHANGED <<guildOf, today, founded, deposits, paidOut, forfeited, guildGains, renamed>> BY DEF VoteOnProposal
<1>15. QED BY <1>9, <1>12, <1>13, <1>14, ProposalsChange

-----------------------------------------------------------------------------
(* More than half of the members, or somebody who is no member any more.   *)
LEMMA MembersFewer ==
  ASSUME GuildsInv, NEW g \in DOMAIN guilds
  PROVE  /\ IsFiniteSet(MembersOf(g)) /\ Cardinality(MembersOf(g)) \in Nat /\ Len(guilds[g].members) \in Nat
         /\ Cardinality(MembersOf(g)) <= Len(guilds[g].members)
<1>1. PICK ms : ms = guilds[g].members OBVIOUS
<1>2. Led(ms, guilds[g].leader) BY <1>1, GuildIs
<1>3. PICK n \in Nat : n = Len(ms) /\ DOMAIN ms = 1..n BY <1>2, LedElements
<1>4. PICK S : S = MembersOf(g) OBVIOUS
<1>5. S = {ms[i].id : i \in 1..n} BY <1>1, <1>3, <1>4 DEF MembersOf
<1>6. PICK f : f = [i \in 1..n |-> ms[i].id] OBVIOUS
<1>7. f \in Surjection(1..n, S) BY <1>5, <1>6 DEF Surjection
<1>8. 1 \in Int /\ n \in Int OBVIOUS
<1>9. IsFiniteSet(1..n) /\ Cardinality(1..n) = n
  <2>1. IsFiniteSet(1..n) BY <1>8, FS_Interval, Zenon
  <2>2. Cardinality(1..n) = IF 1 > n THEN 0 ELSE n - 1 + 1 BY <1>8, FS_Interval, Zenon
  <2>3. QED BY <2>1, <2>2
<1>10. IsFiniteSet(S) /\ Cardinality(S) <= n BY <1>7, <1>9, FS_Surjection
<1>11. Cardinality(S) \in Nat BY <1>10, FS_CardinalityType
<1>12. QED BY <1>1, <1>3, <1>4, <1>10, <1>11

LEMMA MajorityOfMembers ==
  ASSUME GuildsInv, NEW g \in DOMAIN guilds, NEW m \in Motions, Carried(g, m)
  PROVE  \/ 2 * Cardinality(Approvals(m) \cap MembersOf(g)) > Cardinality(MembersOf(g))
         \/ Approvals(m) \ MembersOf(g) # {}
<1>1. SUFFICES ASSUME Approvals(m) \ MembersOf(g) = {}
               PROVE  2 * Cardinality(Approvals(m) \cap MembersOf(g)) > Cardinality(MembersOf(g))
  OBVIOUS
<1>2. PICK A : A = Approvals(m) OBVIOUS
<1>3. A \cap MembersOf(g) = A BY <1>1, <1>2
<1>4. A \in SUBSET Citizens BY <1>2, MotionIs, BallotIs DEF Approvals
<1>5. IsFiniteSet(A) BY <1>4, GuildsAssumption, FS_Subset
<1>6. PICK a \in Nat : a = Cardinality(A) BY <1>5, FS_CardinalityType
<1>7. PICK n \in Nat, c \in Nat : n = Len(guilds[g].members) /\ c = Cardinality(MembersOf(g)) /\ c <= n
  BY MembersFewer
<1>8. a >= (n \div 2) + 1 BY <1>2, <1>6, <1>7 DEF Carried
<1>9. 2 * a > c
  <2>1. n = 2 * (n \div 2) + (n % 2) /\ n \div 2 \in Nat /\ n % 2 \in 0..1 OBVIOUS
  <2>2. PICK d \in Nat, r \in 0..1 : d = n \div 2 /\ n = 2 * d + r BY <2>1
  <2>3. a >= d + 1 BY <1>8, <2>2
  <2>4. 2 * a >= 2 * d + 2 BY <1>6, <2>2, <2>3
  <2>5. r <= 1 /\ 2 * d + 2 > n BY <2>2
  <2>6. 2 * a \in Int BY <1>6
  <2>7. 2 * d + 2 \in Int BY <2>2
  <2>8. n \in Int /\ c \in Int /\ c <= n BY <1>7
  <2>9. QED BY <2>4, <2>5, <2>6, <2>7, <2>8
<1>10. QED BY <1>2, <1>3, <1>6, <1>7, <1>9

\* A step that leaves the people of a guild as they are.
LEMMA WealthChange ==
  ASSUME GuildsInv, NEW g, NEW q \in GuildRecord, Changed(guilds, guilds', g, q), SamePeople(guilds[g], q),
         NamedApart(guilds', renamed'), Banked(guilds', deposits', paidOut', forfeited'),
         AllEarned(guilds', guildGains', founded), UNCHANGED <<guildOf, today, founded>>
  PROVE  GuildsInv'
BY GuildIs, EstablishedChanged, LedChanged, IndexSame DEF Changed, GuildsInv, SamePeople

LEMMA BankOf ==
  ASSUME GuildsInv, NEW g \in DOMAIN guilds
  PROVE  /\ guilds[g].treasury >= 0 /\ guilds[g].treasury \in Int /\ SumFunction(deposits) \in Int
         /\ paidOut \in Int /\ forfeited \in Int /\ deposits \in Seq(Int)
         /\ Banked(guilds, deposits, paidOut, forfeited) /\ Established(guilds, founded)
BY EstablishedFinite, TreasureOf, GuildIs, FieldsOf DEF GuildsInv, Banked

\* What a guild pays out, by an officer or by a proposal, with what else
\* changes in its record.
LEMMA PaidOutKeeps ==
  ASSUME GuildsInv, NEW g, NEW q \in GuildRecord, Changed(guilds, guilds', g, q), SamePeople(guilds[g], q),
         NEW n \in Int, guilds[g].treasury >= n, q.treasury = guilds[g].treasury - n, q.name = guilds[g].name,
         q.level = guilds[g].level, q.xp = guilds[g].xp, q.skills = guilds[g].skills,
         paidOut' = paidOut + n, UNCHANGED <<guildOf, today, founded, deposits, forfeited, guildGains, renamed>>
  PROVE  GuildsInv'
<1>1. g \in DOMAIN guilds BY DEF Changed
<1>2. guilds[g].treasury \in Int /\ SumFunction(deposits) \in Int /\ paidOut \in Int /\ deposits \in Seq(Int)
      /\ Banked(guilds, deposits, paidOut, forfeited) /\ Established(guilds, founded)
  BY <1>1, BankOf
<1>3. PICK o \in Int : o = paidOut + n BY <1>2
<1>4. q.treasury >= 0 BY <1>2
<1>5. SumFunction(deposits) = SumFunction(deposits) + (q.treasury - guilds[g].treasury) + (o - paidOut) BY <1>2, <1>3
<1>6. Banked(guilds', deposits, o, forfeited) BY <1>2, <1>4, <1>5, BankedChanged
<1>7. Banked(guilds', deposits', paidOut', forfeited') BY <1>3, <1>6
<1>8. NamedApart(guilds, renamed) /\ AllEarned(guilds, guildGains, founded) BY DEF GuildsInv
<1>9. NamedApart(guilds', renamed) BY <1>8, ApartChanged
<1>10. AllEarned(guilds', guildGains, founded) BY <1>8, EarnedSame
<1>11. QED BY <1>7, <1>9, <1>10, WealthChange

LEMMA BankedSame ==
  ASSUME GuildsInv, NEW g, NEW q \in GuildRecord, Changed(guilds, guilds', g, q), q.treasury = guilds[g].treasury,
         UNCHANGED <<deposits, paidOut, forfeited>>
  PROVE  Banked(guilds', deposits', paidOut', forfeited')
BY BankOf, BankedChanged DEF Changed

\* What a step that leaves the proposals does not disturb.
LEMMA CarriedSame ==
  ASSUME NEW g, NEW q, Changed(guilds, guilds', g, q), q.proposals = guilds[g].proposals PROVE CarriedStep
BY CarriedOne DEF CarriedWell

LEMMA WithdrawKeepsGuilds ==
  ASSUME GuildsInv, NEW g \in DOMAIN guilds, NEW p \in Citizens, NEW n \in Deposits, WithdrawFromTreasury(g, p, n)
  PROVE  GuildsInv' /\ CarriedStep
<1>1. PICK v : v = guilds[g].treasury - n OBVIOUS
<1>2. PICK q : q = [guilds[g] EXCEPT !.treasury = v] OBVIOUS
<1>3. guilds' = [guilds EXCEPT ![g].treasury = v] BY <1>1 DEF WithdrawFromTreasury
<1>4. guilds' = [guilds EXCEPT ![g] = q] BY <1>2, <1>3
<1>5. n \in Int BY GuildsAssumption
<1>6. guilds[g].treasury \in Int BY BankOf
<1>7. v \in Int BY <1>1, <1>5, <1>6
<1>8. guilds[g] \in GuildRecord BY GuildIs
<1>9. q \in GuildRecord /\ q.treasury = v /\ q.name = guilds[g].name /\ q.proposals = guilds[g].proposals
      /\ q.level = guilds[g].level /\ q.xp = guilds[g].xp /\ q.skills = guilds[g].skills /\ SamePeople(guilds[g], q)
  BY <1>2, <1>7, <1>8, WithTreasury
<1>10. Changed(guilds, guilds', g, q) BY <1>4, OneChanged
<1>11. guilds[g].treasury >= n BY DEF WithdrawFromTreasury, Covered
<1>12. paidOut' = paidOut + n /\ UNCHANGED <<guildOf, today, founded, deposits, forfeited, guildGains, renamed>>
  BY DEF WithdrawFromTreasury
<1>13. GuildsInv' BY <1>1, <1>5, <1>9, <1>10, <1>11, <1>12, PaidOutKeeps
<1>14. CarriedStep BY <1>9, <1>10, CarriedSame
<1>15. QED BY <1>13, <1>14

\* What is not there may have been paid out, or be nobody's.
LEMMA BankedMoved ==
  ASSUME NEW gs, NEW ds, NEW out, NEW gone, Banked(gs, ds, out, gone), NEW o \in Int, NEW h \in Int,
         Treasure(gs) \in Int, o + h = out + gone
  PROVE  Banked(gs, ds, o, h)
<1>1. /\ ds \in Seq(Int) /\ out \in Int /\ gone \in Int
      /\ \A g \in DOMAIN gs : gs[g].treasury >= 0
      /\ SumFunction(ds) = Treasure(gs) + out + gone
  BY DEF Banked
<1>2. PICK t \in Int : t = Treasure(gs) OBVIOUS
<1>3. out \in Int /\ gone \in Int BY <1>1
<1>4. t + out + gone = t + o + h BY <1>3
<1>5. SumFunction(ds) = Treasure(gs) + o + h BY <1>1, <1>2, <1>4, Zenon
<1>6. QED BY <1>1, <1>5 DEF Banked

LEMMA DepositKeepsGuilds ==
  ASSUME GuildsInv, NEW g \in DOMAIN guilds, NEW p \in Citizens, NEW n \in Deposits, DepositToTreasury(g, p, n)
  PROVE  GuildsInv' /\ CarriedStep
<1>1. PICK over : over = Overflow(guilds[g].treasury, n) OBVIOUS
<1>2. PICK v : v = guilds[g].treasury + n - over OBVIOUS
<1>3. PICK q : q = [guilds[g] EXCEPT !.treasury = v] OBVIOUS
<1>4. guilds' = [guilds EXCEPT ![g].treasury = v] BY <1>1, <1>2 DEF DepositToTreasury
<1>5. guilds' = [guilds EXCEPT ![g] = q] BY <1>3, <1>4
<1>6. n \in Int /\ n >= 0 /\ GuildWidth \in Int BY GuildsAssumption
<1>7. guilds[g].treasury \in Int /\ SumFunction(deposits) \in Int /\ paidOut \in Int /\ deposits \in Seq(Int)
      /\ Banked(guilds, deposits, paidOut, forfeited) /\ Established(guilds, founded) /\ guilds[g].treasury >= 0
      /\ forfeited \in Int
  BY BankOf
<1>8. over \in Int /\ over <= guilds[g].treasury + n BY <1>1, <1>6, <1>7 DEF Overflow
<1>9. v \in Int /\ v >= 0
  <2>1. PICK t \in Int : t = guilds[g].treasury BY <1>7
  <2>2. v = t + n - over /\ over <= t + n BY <1>2, <1>8, <2>1
  <2>3. QED BY <1>6, <1>8, <2>2
<1>10. guilds[g] \in GuildRecord BY GuildIs
<1>11. q \in GuildRecord /\ q.treasury = v /\ q.name = guilds[g].name /\ q.proposals = guilds[g].proposals
       /\ q.level = guilds[g].level /\ q.xp = guilds[g].xp /\ q.skills = guilds[g].skills /\ SamePeople(guilds[g], q)
  BY <1>3, <1>9, <1>10, WithTreasury
<1>12. Changed(guilds, guilds', g, q) BY <1>5, OneChanged
<1>13. PICK ds : ds = Append(deposits, n) OBVIOUS
<1>14. ds \in Seq(Int) BY <1>6, <1>7, <1>13, AppendProperties
<1>15. SumFunction(ds) = SumFunction(deposits) + n BY <1>6, <1>7, <1>13, SumOfAppend
<1>16. PICK o \in Int : o = paidOut + over BY <1>7, <1>8
<1>17. SumFunction(ds) = SumFunction(deposits) + (q.treasury - guilds[g].treasury) + (o - paidOut)
  <2>1. PICK t \in Int, u \in Int, f \in Int :
          t = guilds[g].treasury /\ u = SumFunction(deposits) /\ f = paidOut
    BY <1>7
  <2>2. q.treasury = t + n - over /\ o = f + over BY <1>2, <1>11, <1>16, <2>1
  <2>3. u + n = u + ((t + n - over) - t) + ((f + over) - f) BY <1>6, <1>8
  <2>4. QED BY <1>15, <2>1, <2>2, <2>3
<1>18. Banked(guilds', ds, o, forfeited) BY <1>7, <1>9, <1>11, <1>12, <1>14, <1>16, <1>17, BankedChanged
<1>19. PICK h \in Int : h = forfeited + over BY <1>7, <1>8
<1>20. paidOut + h = o + forfeited BY <1>7, <1>8, <1>16, <1>19
<1>21. Banked(guilds', ds, paidOut, h)
  <2>1. Treasure(guilds') \in Int BY <1>7, <1>11, <1>12, EstablishedChanged, EstablishedFinite, TreasureOf
  <2>2. QED BY <1>7, <1>18, <1>19, <1>20, <2>1, BankedMoved
<1>22. deposits' = ds /\ forfeited' = h /\ UNCHANGED <<guildOf, today, founded, paidOut, guildGains, renamed>>
  BY <1>1, <1>13, <1>19 DEF DepositToTreasury
<1>23. Banked(guilds', deposits', paidOut', forfeited') BY <1>21, <1>22
<1>24. NamedApart(guilds, renamed) /\ AllEarned(guilds, guildGains, founded) BY DEF GuildsInv
<1>25. NamedApart(guilds', renamed) BY <1>11, <1>12, <1>24, ApartChanged
<1>26. AllEarned(guilds', guildGains, founded) BY <1>11, <1>12, <1>24, EarnedSame
<1>27. GuildsInv' BY <1>11, <1>12, <1>22, <1>23, <1>25, <1>26, WealthChange
<1>28. CarriedStep BY <1>11, <1>12, CarriedSame
<1>29. QED BY <1>27, <1>28

-----------------------------------------------------------------------------
(* XP and skills.                                                          *)
LEMMA EarnedOf ==
  ASSUME GuildsInv, NEW g \in DOMAIN guilds
  PROVE  /\ guildGains \in Seq(Gifts) /\ (\A i \in DOMAIN guildGains : guildGains[i].guild \in 1..founded)
         /\ founded \in Nat /\ g \in 1..founded
         /\ guilds[g].level \in Nat /\ guilds[g].level >= 1 /\ guilds[g].xp \in Nat
         /\ guilds[g].xp < guilds[g].level * GuildXP /\ guilds[g].skills \in Seq(Int)
         /\ Gained(guildGains, g) = guilds[g].xp + ((GuildXP * guilds[g].level * (guilds[g].level - 1)) \div 2)
                                    + SkillCost * Skilled(guilds[g].skills)
         /\ AllEarned(guilds, guildGains, founded) /\ NamedApart(guilds, renamed)
BY GuildIs, FieldsOf DEF GuildsInv, AllEarned, Established, Earned

LEMMA AddXPKeeps ==
  ASSUME GuildsInv, NEW g \in DOMAIN guilds, NEW n \in GuildGains, AddXP(g, n) PROVE GuildsInv' /\ CarriedStep
<1>1. guildGains \in Seq(Gifts) /\ (\A i \in DOMAIN guildGains : guildGains[i].guild \in 1..founded)
      /\ founded \in Nat /\ g \in 1..founded
      /\ guilds[g].level \in Nat /\ guilds[g].level >= 1 /\ guilds[g].xp \in Nat
      /\ guilds[g].xp < guilds[g].level * GuildXP /\ guilds[g].skills \in Seq(Int)
      /\ Gained(guildGains, g) = guilds[g].xp + ((GuildXP * guilds[g].level * (guilds[g].level - 1)) \div 2)
                                 + SkillCost * Skilled(guilds[g].skills)
      /\ AllEarned(guilds, guildGains, founded) /\ NamedApart(guilds, renamed)
  BY EarnedOf
<1>2. PICK l \in Nat, x \in Nat : l = guilds[g].level /\ x = guilds[g].xp BY <1>1
<1>3. PICK k \in Int : k = n - Overflow(guilds[g].xp, n) /\ x + k \in Nat
  <2>1. n \in Nat /\ GuildWidth \in Nat BY GuildsAssumption
  <2>2. Overflow(guilds[g].xp, n) = IF x + n >= GuildWidth THEN GuildWidth ELSE 0 BY <1>2 DEF Overflow
  <2>3. QED BY <2>1, <2>2
<1>4. PICK s : s = Settled(l, x + k) OBVIOUS
<1>5. x + k \in Nat /\ l >= 1 BY <1>1, <1>2, <1>3
<1>6. /\ s.level \in Nat /\ s.level >= 1 /\ s.xp \in Nat /\ s.xp < s.level * GuildXP
      /\ s.xp + ((GuildXP * s.level * (s.level - 1)) \div 2) = (x + k) + ((GuildXP * l * (l - 1)) \div 2)
  BY <1>4, <1>5, SettledIs
<1>7. PICK q : q = [guilds[g] EXCEPT !.level = s.level, !.xp = s.xp] OBVIOUS
<1>8. guilds' = [guilds EXCEPT ![g].level = s.level, ![g].xp = s.xp] BY <1>2, <1>3, <1>4 DEF AddXP
<1>9. guilds' = [guilds EXCEPT ![g] = q] BY <1>7, <1>8
<1>10. guilds[g] \in GuildRecord BY GuildIs
<1>11. s.level \in Int /\ s.xp \in Int BY <1>6
<1>12. q \in GuildRecord /\ q.level = s.level /\ q.xp = s.xp /\ q.name = guilds[g].name /\ q.proposals = guilds[g].proposals
       /\ q.treasury = guilds[g].treasury /\ q.skills = guilds[g].skills /\ SamePeople(guilds[g], q)
  BY <1>7, <1>10, <1>11 DEF GuildRecord, SamePeople
<1>13. Changed(guilds, guilds', g, q) BY <1>9, OneChanged
<1>14. PICK gifts : gifts = Append(guildGains, [guild |-> g, n |-> k]) OBVIOUS
<1>15. guildGains' = gifts /\ UNCHANGED <<guildOf, today, founded, deposits, paidOut, forfeited, renamed>>
  BY <1>3, <1>14 DEF AddXP
<1>16. g \in Nat BY <1>1
<1>17. \A y : gifts \in Seq(Gifts) /\ Gained(gifts, y) = Gained(guildGains, y) + (IF g = y THEN k ELSE 0)
              /\ Gained(guildGains, y) \in Int
  <2>1. ASSUME NEW y
        PROVE  gifts \in Seq(Gifts) /\ Gained(gifts, y) = Gained(guildGains, y) + (IF g = y THEN k ELSE 0)
               /\ Gained(guildGains, y) \in Int
    <3>1. guildGains \in Seq(Gifts) BY <1>1
    <3>2. PICK one : one = [guild |-> g, n |-> k] OBVIOUS
    <3>3. one \in Gifts /\ one.guild = g /\ one.n = k BY <1>3, <1>16, <3>2 DEF Gifts
    <3>4. gifts = Append(guildGains, one) BY <1>14, <3>2
    <3>5. one \in Gifts BY <3>3
    <3>6. gifts \in Seq(Gifts) /\ Gained(gifts, y) = Gained(guildGains, y) + (IF one.guild = y THEN one.n ELSE 0)
          /\ Gained(guildGains, y) \in Int
      BY <3>1, <3>4, <3>5, GainedMore, Zenon
    <3>7. QED BY <3>3, <3>6
  <2>2. QED BY <2>1
<1>18. \A y \in DOMAIN guilds \ {g} : Gained(gifts, y) = Gained(guildGains, y) BY <1>17
<1>19. \A i \in DOMAIN gifts : gifts[i].guild \in 1..founded
  <2>1. PICK one : one = [guild |-> g, n |-> k] OBVIOUS
  <2>2. one \in Gifts /\ one.guild = g BY <1>3, <1>16, <2>1 DEF Gifts
  <2>3. gifts \in Seq(Gifts) /\ Len(gifts) = Len(guildGains) + 1 /\ gifts[Len(guildGains) + 1] = one
        /\ \A i \in 1..Len(guildGains) : gifts[i] = guildGains[i]
    BY <1>1, <1>14, <2>1, <2>2, AppendProperties
  <2>4. PICK m \in Nat : m = Len(guildGains) /\ DOMAIN guildGains = 1..m BY <1>1, LenProperties
  <2>5. DOMAIN gifts = 1..m + 1 BY <2>3, <2>4, LenProperties
  <2>6. ASSUME NEW i \in DOMAIN gifts PROVE gifts[i].guild \in 1..founded
    <3>1. CASE i \in 1..m BY <1>1, <2>3, <2>4, <3>1
    <3>2. CASE i = m + 1 BY <1>1, <2>2, <2>3, <2>4, <3>2
    <3>3. QED BY <2>5, <3>1, <3>2
  <2>7. QED BY <2>6
<1>20. Earned(g, q, gifts)
  <2>1. GuildXP \in Nat /\ SkillCost \in Nat BY GuildsAssumption
  <2>2. PICK a : a = (GuildXP * l * (l - 1)) \div 2 OBVIOUS
  <2>3. PICK b : b = (GuildXP * s.level * (s.level - 1)) \div 2 OBVIOUS
  <2>4. a \in Int BY <1>2, <2>1, <2>2, CostIs
  <2>5. b \in Int BY <1>6, <2>1, <2>3, CostIs
  <2>6. PICK c : c = SkillCost * Skilled(guilds[g].skills) OBVIOUS
  <2>7. PICK d : d = Gained(guildGains, g) OBVIOUS
  <2>8. d = x + a + c /\ d \in Int BY <1>1, <1>2, <1>17, <2>2, <2>6, <2>7
  <2>9. c \in Int
    <3>1. PICK k1 \in Int : k1 = Skilled(guilds[g].skills) BY <1>1, SkilledType
    <3>2. QED BY <2>1, <2>6, <3>1
  <2>10. Gained(gifts, g) = d + k BY <1>17, <2>7
  <2>11. s.xp + b = (x + k) + a BY <1>6, <2>2, <2>3
  <2>12. Gained(gifts, g) = s.xp + b + c BY <1>2, <1>3, <1>11, <2>4, <2>5, <2>8, <2>9, <2>10, <2>11
  <2>13. q.level >= 1 /\ q.xp >= 0 /\ q.xp < q.level * GuildXP BY <1>6, <1>12
  <2>14. QED BY <1>12, <2>3, <2>6, <2>12, <2>13 DEF Earned
<1>21. AllEarned(guilds', gifts, founded) BY <1>1, <1>13, <1>17, <1>18, <1>19, <1>20, EarnedChanged
<1>22. NamedApart(guilds', renamed) BY <1>1, <1>12, <1>13, ApartChanged
<1>23. Banked(guilds', deposits', paidOut', forfeited') BY <1>12, <1>13, <1>15, BankedSame
<1>24. GuildsInv' BY <1>12, <1>13, <1>15, <1>21, <1>22, <1>23, WealthChange
<1>25. CarriedStep BY <1>12, <1>13, CarriedSame
<1>26. QED BY <1>24, <1>25

LEMMA AddSkillKeeps ==
  ASSUME GuildsInv, NEW g \in DOMAIN guilds, NEW p \in Citizens, AddGuildSkill(g, p) PROVE GuildsInv' /\ CarriedStep
<1>1. PICK ss \in Seq(Int) : ss = guilds[g].skills BY EarnedOf
<1>2. PICK v : v = Append(ss, 1) OBVIOUS
<1>3. v \in Seq(Int) /\ Skilled(v) = Skilled(ss) BY <1>2, SkilledMore
<1>4. PICK x \in Int : x = guilds[g].xp BY EarnedOf
<1>5. PICK q : q = [guilds[g] EXCEPT !.xp = x, !.skills = v] OBVIOUS
<1>6. guilds[g] \in GuildRecord BY GuildIs
<1>7. guilds' = [guilds EXCEPT ![g].skills = v] BY <1>1, <1>2 DEF AddGuildSkill
<1>8. q = [guilds[g] EXCEPT !.skills = v] BY <1>4, <1>5, <1>6 DEF GuildRecord
<1>9. guilds' = [guilds EXCEPT ![g] = q] BY <1>7, <1>8
<1>10. q \in GuildRecord /\ q.skills = v /\ q.xp = x /\ q.name = guilds[g].name /\ q.proposals = guilds[g].proposals
       /\ q.treasury = guilds[g].treasury /\ q.level = guilds[g].level /\ SamePeople(guilds[g], q)
  BY <1>3, <1>5, <1>6 DEF GuildRecord, SamePeople
<1>11. Changed(guilds, guilds', g, q) BY <1>9, OneChanged
<1>12. UNCHANGED <<guildOf, today, founded, deposits, paidOut, forfeited, guildGains, renamed>> BY DEF AddGuildSkill
<1>13. AllEarned(guilds, guildGains, founded) /\ NamedApart(guilds, renamed) BY EarnedOf
<1>14. Earned(g, guilds[g], guildGains) BY <1>13 DEF AllEarned
<1>15. Earned(g, q, guildGains) BY <1>1, <1>3, <1>4, <1>10, <1>14 DEF Earned
<1>16. guildGains \in Seq(Gifts) /\ (\A i \in DOMAIN guildGains : guildGains[i].guild \in 1..founded) BY <1>13 DEF AllEarned
<1>17. AllEarned(guilds', guildGains, founded) BY <1>11, <1>13, <1>15, <1>16, EarnedChanged
<1>18. NamedApart(guilds', renamed) BY <1>10, <1>11, <1>13, ApartChanged
<1>19. Banked(guilds', deposits', paidOut', forfeited') BY <1>10, <1>11, <1>12, BankedSame
<1>20. GuildsInv' BY <1>10, <1>11, <1>12, <1>17, <1>18, <1>19, WealthChange
<1>21. CarriedStep BY <1>10, <1>11, CarriedSame
<1>22. QED BY <1>20, <1>21

LEMMA LevelUpKeeps ==
  ASSUME GuildsInv, NEW g \in DOMAIN guilds, NEW p \in Citizens, NEW k, LevelUpGuildSkill(g, p, k)
  PROVE  GuildsInv' /\ CarriedStep
<1>1. PICK ss \in Seq(Int) : ss = guilds[g].skills BY EarnedOf
<1>2. PICK v : v = [ss EXCEPT ![k] = @ + 1] OBVIOUS
<1>3. k \in DOMAIN ss /\ guilds[g].xp >= SkillCost BY <1>1 DEF LevelUpGuildSkill
<1>4. v \in Seq(Int) /\ Skilled(v) = Skilled(ss) + 1 /\ Skilled(ss) \in Int BY <1>2, <1>3, SkilledRaised
<1>5. PICK x \in Nat, l \in Nat : x = guilds[g].xp /\ l = guilds[g].level /\ x < l * GuildXP /\ l >= 1 BY EarnedOf
<1>6. SkillCost \in Nat /\ GuildXP \in Nat BY GuildsAssumption
<1>7. PICK y \in Int : y = x - SkillCost BY <1>6
<1>8. PICK q : q = [guilds[g] EXCEPT !.xp = y, !.skills = v] OBVIOUS
<1>9. guilds[g] \in GuildRecord BY GuildIs
<1>10. guilds' = [guilds EXCEPT ![g].xp = y, ![g].skills[k] = @ + 1] BY <1>5, <1>7 DEF LevelUpGuildSkill
<1>11. guilds' = [guilds EXCEPT ![g] = q] BY <1>1, <1>2, <1>8, <1>9, <1>10 DEF GuildRecord
<1>12. q \in GuildRecord /\ q.skills = v /\ q.xp = y /\ q.name = guilds[g].name /\ q.proposals = guilds[g].proposals
       /\ q.treasury = guilds[g].treasury /\ q.level = guilds[g].level /\ SamePeople(guilds[g], q)
  BY <1>4, <1>8, <1>9 DEF GuildRecord, SamePeople
<1>13. Changed(guilds, guilds', g, q) BY <1>11, OneChanged
<1>14. UNCHANGED <<guildOf, today, founded, deposits, paidOut, forfeited, guildGains, renamed>> BY DEF LevelUpGuildSkill
<1>15. AllEarned(guilds, guildGains, founded) /\ NamedApart(guilds, renamed) BY EarnedOf
<1>16. Earned(g, guilds[g], guildGains) BY <1>15 DEF AllEarned
<1>17. Earned(g, q, guildGains)
  <2>1. PICK a : a = (GuildXP * l * (l - 1)) \div 2 OBVIOUS
  <2>2. a \in Int BY <1>5, <1>6, <2>1, CostIs
  <2>3. PICK z \in Int : z = Skilled(ss) BY <1>4
  <2>4. PICK c \in Int : c = SkillCost * z BY <1>6, <2>3
  <2>5. SkillCost * (z + 1) = c + SkillCost BY <1>6, <2>3, <2>4
  <2>6. Gained(guildGains, g) = x + a + c BY <1>1, <1>5, <1>16, <2>1, <2>3, <2>4 DEF Earned
  <2>7. x + a + c = y + a + (c + SkillCost) BY <1>5, <1>6, <1>7, <2>2, <2>4
  <2>8. Gained(guildGains, g) = y + a + SkillCost * Skilled(v) BY <1>4, <2>3, <2>5, <2>6, <2>7
  <2>9. y >= 0 /\ y < l * GuildXP
    <3>1. PICK h \in Int : h = l * GuildXP BY <1>5, <1>6
    <3>2. x >= SkillCost /\ x < h BY <1>3, <1>5, <3>1
    <3>3. y >= 0 /\ y < h BY <1>5, <1>6, <1>7, <3>1, <3>2
    <3>4. QED BY <3>1, <3>3
  <2>10. QED BY <1>5, <1>12, <2>1, <2>8, <2>9 DEF Earned
<1>18. guildGains \in Seq(Gifts) /\ (\A i \in DOMAIN guildGains : guildGains[i].guild \in 1..founded) BY <1>15 DEF AllEarned
<1>19. AllEarned(guilds', guildGains, founded) BY <1>13, <1>15, <1>17, <1>18, EarnedChanged
<1>20. NamedApart(guilds', renamed) BY <1>12, <1>13, <1>15, ApartChanged
<1>21. Banked(guilds', deposits', paidOut', forfeited') BY <1>12, <1>13, <1>14, BankedSame
<1>22. GuildsInv' BY <1>12, <1>13, <1>14, <1>19, <1>20, <1>21, WealthChange
<1>23. CarriedStep BY <1>12, <1>13, CarriedSame
<1>24. QED BY <1>22, <1>23

LEMMA DayKeeps == ASSUME GuildsInv, Day PROVE GuildsInv' /\ CarriedStep BY ProposalsStay DEF GuildsInv, Day

-----------------------------------------------------------------------------
(* A proposal that is carried out: its mark, and what it changes.          *)
Marks(g, k, r) ==
  /\ r \in GuildRecord /\ r.name = guilds[g].name
  /\ r.members = guilds[g].members /\ r.leader = guilds[g].leader
  /\ r.treasury = guilds[g].treasury /\ r.level = guilds[g].level /\ r.xp = guilds[g].xp /\ r.skills = guilds[g].skills
  /\ [guilds EXCEPT ![g].proposals[k].done = TRUE] = [guilds EXCEPT ![g] = r]
  /\ \A j \in DOMAIN guilds[g].proposals : CarriedWell(g, guilds[g].proposals[j], r.proposals[j])

LEMMA Marked ==
  ASSUME GuildsInv, NEW g \in DOMAIN guilds, NEW k \in DOMAIN guilds[g].proposals,
         ~guilds[g].proposals[k].done, Carried(g, guilds[g].proposals[k])
  PROVE  /\ \E r : Marks(g, k, r)
         /\ guilds[g].proposals[k] \in Motions
<1>1. PICK ms : ms = guilds[g].proposals OBVIOUS
<1>2. ms \in Seq(Motions) BY <1>1, GuildIs, FieldsOf
<1>3. ms[k] \in Motions BY <1>1, <1>2, ElementOfSeq, LenProperties
<1>4. PICK w : w = [ms[k] EXCEPT !.done = TRUE] OBVIOUS
<1>5. w \in Motions /\ w.done BY <1>3, <1>4, MotionMarked
<1>6. PICK v : v = [ms EXCEPT ![k] = w] OBVIOUS
<1>7. v \in Seq(Motions) /\ v[k] = w /\ \A j \in DOMAIN ms \ {k} : v[j] = ms[j] BY <1>1, <1>2, <1>5, <1>6, MotionPut
<1>8. PICK r : r = [guilds[g] EXCEPT !.proposals = v] OBVIOUS
<1>9. guilds[g] \in GuildRecord BY GuildIs
<1>10. r \in GuildRecord /\ r.proposals = v /\ r.name = guilds[g].name /\ SameWealth(guilds[g], r) /\ SamePeople(guilds[g], r)
  BY <1>7, <1>8, <1>9, WithProposals
<1>11. [guilds EXCEPT ![g].proposals[k].done = TRUE] = [guilds EXCEPT ![g] = r] BY <1>1, <1>4, <1>6, <1>8
<1>12. ASSUME NEW j \in DOMAIN guilds[g].proposals PROVE CarriedWell(g, guilds[g].proposals[j], r.proposals[j])
  <2>1. CASE j = k BY <1>1, <1>3, <2>1, MajorityOfMembers DEF CarriedWell
  <2>2. CASE j # k BY <1>1, <1>7, <1>10, <2>2 DEF CarriedWell
  <2>3. QED BY <2>1, <2>2
<1>13. Marks(g, k, r) BY <1>10, <1>11, <1>12 DEF Marks, SameWealth, SamePeople
<1>14. QED BY <1>1, <1>3, <1>13

LEMMA WhatIs ==
  ASSUME NEW w \in Whats
  PROVE  /\ w.kind = "promote" => w.role = "officer"
         /\ w.kind = "spend" => w.n \in Deposits
         /\ w.kind = "name" => w.name \in GuildNames
BY DEF Whats

\* A vote that changes the members.
LEMMA MarkedMembers ==
  ASSUME GuildsInv, NEW g \in DOMAIN guilds, NEW k, NEW r, Marks(g, k, r), NEW v,
         guilds' = [guilds EXCEPT ![g] = [r EXCEPT !.members = v]], Led(v, guilds[g].leader),
         \/ IdsOf(v) = IdsOf(guilds[g].members) /\ guildOf' = guildOf
         \/ \E p \in IdsOf(guilds[g].members) :
              IdsOf(v) = IdsOf(guilds[g].members) \ {p} /\ guildOf' = Without(guildOf, p),
         UNCHANGED <<today, founded, deposits, paidOut, forfeited, guildGains, renamed>>
  PROVE  GuildsInv' /\ CarriedStep
<1>1. PICK q : q = [r EXCEPT !.members = v] OBVIOUS
<1>2. r \in GuildRecord BY DEF Marks
<1>3. v \in Seq(People) BY DEF Led
<1>4. q \in GuildRecord /\ q.members = v /\ q.leader = r.leader /\ q.name = r.name
      /\ q.proposals = r.proposals /\ SameWealth(r, q)
  BY <1>1, <1>2, <1>3, WithMembers
<1>5. SameWealth(guilds[g], q) /\ q.name = guilds[g].name /\ q.leader = guilds[g].leader BY <1>4 DEF Marks, SameWealth
<1>6. guilds' = [guilds EXCEPT ![g] = q] BY <1>1
<1>7. Changed(guilds, guilds', g, q) BY <1>6, OneChanged
<1>8. Led(q.members, q.leader) BY <1>4, <1>5
<1>9. Indexes(guilds, guildOf) BY GuildIs
<1>10. Indexes(guilds', guildOf') BY <1>4, <1>7, <1>9, IndexSame, IndexLess
<1>11. GuildsInv' BY <1>4, <1>5, <1>7, <1>8, <1>10, PlainChange
<1>12. \A j \in DOMAIN guilds[g].proposals : CarriedWell(g, guilds[g].proposals[j], q.proposals[j]) BY <1>4 DEF Marks
<1>13. CarriedStep BY <1>7, <1>12, CarriedOne
<1>14. QED BY <1>11, <1>13

\* What a proposal of each kind does.
VotedKick(g, w, marked) ==
  /\ w.kind = "kick" /\ w.target \in MembersOf(g) /\ RoleOf(g, w.target) # "leader"
  /\ guilds' = [marked EXCEPT ![g].members = RemoveAt(@, At(g, w.target))]
  /\ guildOf' = Without(guildOf, w.target) /\ UNCHANGED <<paidOut, renamed>>

VotedPromotion(g, w, marked) ==
  /\ w.kind = "promote" /\ w.target \in MembersOf(g) /\ RoleOf(g, w.target) # "leader"
  /\ guilds' = [marked EXCEPT ![g].members[At(g, w.target)].role = w.role]
  /\ UNCHANGED <<guildOf, paidOut, renamed>>

VotedPayment(g, w, marked) ==
  /\ w.kind = "spend" /\ Covered(g, w.n)
  /\ guilds' = [marked EXCEPT ![g].treasury = @ - w.n] /\ paidOut' = paidOut + w.n
  /\ UNCHANGED <<guildOf, renamed>>

VotedName(g, w, marked) ==
  /\ w.kind = "name"
  /\ guilds' = [marked EXCEPT ![g].name = w.name] /\ renamed' = renamed \cup {g}
  /\ UNCHANGED <<guildOf, paidOut>>

Idle == UNCHANGED <<today, founded, motions, deposits, forfeited, guildGains>>

LEMMA VotedKickKeeps ==
  ASSUME GuildsInv, NEW g \in DOMAIN guilds, NEW k, NEW r, Marks(g, k, r), NEW w,
         NEW marked, marked = [guilds EXCEPT ![g] = r], VotedKick(g, w, marked), Idle
  PROVE  GuildsInv' /\ CarriedStep
<1>1. PICK p : p = w.target OBVIOUS
<1>2. p \in MembersOf(g) /\ RoleOf(g, p) # "leader" BY <1>1 DEF VotedKick
<1>3. PICK i \in DOMAIN guilds[g].members : i = At(g, p) /\ guilds[g].members[i].id = p BY <1>2, AtIs
<1>4. p # guilds[g].leader BY <1>2, AtIs
<1>5. PICK v : v = RemoveAt(guilds[g].members, i) OBVIOUS
<1>6. marked[g].members = guilds[g].members BY DEF Marks
<1>7. guilds' = [marked EXCEPT ![g].members = v] BY <1>1, <1>3, <1>5, <1>6 DEF VotedKick
<1>8. guilds' = [guilds EXCEPT ![g] = [r EXCEPT !.members = v]] BY <1>7
<1>9. Led(guilds[g].members, guilds[g].leader) /\ MembersOf(g) = IdsOf(guilds[g].members) BY GuildIs
<1>10. Parted(guilds[g].members, v, guilds[g].leader, guilds[g].members[i].id) BY <1>3, <1>4, <1>5, <1>9, ListRemoved
<1>11. Led(v, guilds[g].leader) /\ IdsOf(v) = IdsOf(guilds[g].members) \ {p} BY <1>3, <1>10 DEF Parted
<1>12. guildOf' = Without(guildOf, p) /\ UNCHANGED <<paidOut, renamed>> BY <1>1 DEF VotedKick
<1>13. p \in IdsOf(guilds[g].members) BY <1>2, <1>9
<1>14. UNCHANGED <<today, founded, deposits, paidOut, forfeited, guildGains, renamed>> BY <1>12 DEF Idle
<1>15. QED BY <1>8, <1>11, <1>12, <1>13, <1>14, MarkedMembers

LEMMA VotedPromotionKeeps ==
  ASSUME GuildsInv, NEW g \in DOMAIN guilds, NEW k, NEW r, Marks(g, k, r), NEW w \in Whats,
         NEW marked, marked = [guilds EXCEPT ![g] = r], VotedPromotion(g, w, marked), Idle
  PROVE  GuildsInv' /\ CarriedStep
<1>1. PICK p : p = w.target OBVIOUS
<1>2. p \in MembersOf(g) /\ RoleOf(g, p) # "leader" BY <1>1 DEF VotedPromotion
<1>3. PICK i \in DOMAIN guilds[g].members : i = At(g, p) /\ guilds[g].members[i].id = p BY <1>2, AtIs
<1>4. p # guilds[g].leader BY <1>2, AtIs
<1>5. PICK role : role = w.role OBVIOUS
<1>6. role = "officer" BY <1>5, WhatIs DEF VotedPromotion
<1>7. role \in {"officer", "member"} BY <1>6
<1>8. PICK v : v = [guilds[g].members EXCEPT ![i].role = role] OBVIOUS
<1>9. r.members = guilds[g].members BY DEF Marks
<1>10. guilds' = [marked EXCEPT ![g].members[i].role = role] BY <1>1, <1>3, <1>5 DEF VotedPromotion
<1>11. guilds' = [guilds EXCEPT ![g] = [r EXCEPT !.members = v]] BY <1>8, <1>9, <1>10
<1>12. Led(guilds[g].members, guilds[g].leader) BY GuildIs
<1>13. Reranked(guilds[g].members, v, guilds[g].leader) BY <1>3, <1>4, <1>7, <1>8, <1>12, ListPromoted
<1>14. Led(v, guilds[g].leader) /\ IdsOf(v) = IdsOf(guilds[g].members) BY <1>13 DEF Reranked
<1>15. guildOf' = guildOf /\ UNCHANGED <<paidOut, renamed>> BY DEF VotedPromotion
<1>16. UNCHANGED <<today, founded, deposits, paidOut, forfeited, guildGains, renamed>> BY <1>15 DEF Idle
<1>17. QED BY <1>11, <1>14, <1>15, <1>16, MarkedMembers

LEMMA VotedPaymentKeeps ==
  ASSUME GuildsInv, NEW g \in DOMAIN guilds, NEW k, NEW r, Marks(g, k, r), NEW w \in Whats,
         NEW marked, marked = [guilds EXCEPT ![g] = r], VotedPayment(g, w, marked), Idle
  PROVE  GuildsInv' /\ CarriedStep
<1>1. PICK n : n = w.n OBVIOUS
<1>2. n \in Deposits BY <1>1, WhatIs DEF VotedPayment
<1>3. n \in Int BY <1>2, GuildsAssumption
<1>4. guilds[g].treasury >= n BY <1>1 DEF VotedPayment, Covered
<1>5. r \in GuildRecord /\ r.treasury = guilds[g].treasury /\ r.treasury \in Int BY FieldsOf DEF Marks
<1>6. PICK v \in Int : v = r.treasury - n BY <1>3, <1>5
<1>7. PICK q : q = [r EXCEPT !.treasury = v] OBVIOUS
<1>8. guilds' = [marked EXCEPT ![g].treasury = v] BY <1>1, <1>6 DEF VotedPayment
<1>9. guilds' = [guilds EXCEPT ![g] = q] BY <1>7, <1>8
<1>10. q \in GuildRecord /\ q.treasury = v /\ q.name = r.name /\ q.proposals = r.proposals
       /\ q.level = r.level /\ q.xp = r.xp /\ q.skills = r.skills /\ SamePeople(r, q)
  BY <1>5, <1>7, WithTreasury
<1>11. SamePeople(guilds[g], q) /\ q.name = guilds[g].name /\ q.level = guilds[g].level /\ q.xp = guilds[g].xp
       /\ q.skills = guilds[g].skills /\ q.treasury = guilds[g].treasury - n
  BY <1>5, <1>6, <1>10 DEF Marks, SamePeople
<1>12. Changed(guilds, guilds', g, q) BY <1>9, OneChanged
<1>13. paidOut' = paidOut + n /\ UNCHANGED <<guildOf, renamed>> BY <1>1 DEF VotedPayment
<1>14. UNCHANGED <<guildOf, today, founded, deposits, forfeited, guildGains, renamed>> BY <1>13 DEF Idle
<1>15. GuildsInv' BY <1>3, <1>4, <1>10, <1>11, <1>12, <1>13, <1>14, PaidOutKeeps
<1>16. \A j \in DOMAIN guilds[g].proposals : CarriedWell(g, guilds[g].proposals[j], q.proposals[j]) BY <1>10 DEF Marks
<1>17. CarriedStep BY <1>12, <1>16, CarriedOne
<1>18. QED BY <1>15, <1>17

LEMMA VotedNameKeeps ==
  ASSUME GuildsInv, NEW g \in DOMAIN guilds, NEW k, NEW r, Marks(g, k, r), NEW w \in Whats,
         NEW marked, marked = [guilds EXCEPT ![g] = r], VotedName(g, w, marked), Idle
  PROVE  GuildsInv' /\ CarriedStep
<1>1. PICK v : v = w.name OBVIOUS
<1>2. v \in GuildNames BY <1>1, WhatIs DEF VotedName
<1>3. PICK q : q = [r EXCEPT !.name = v] OBVIOUS
<1>4. r \in GuildRecord BY DEF Marks
<1>5. q \in GuildRecord /\ q.name = v /\ q.proposals = r.proposals /\ SameWealth(r, q) /\ SamePeople(r, q)
  BY <1>2, <1>3, <1>4, WithName
<1>6. guilds' = [marked EXCEPT ![g].name = v] BY <1>1 DEF VotedName
<1>7. guilds' = [guilds EXCEPT ![g] = q] BY <1>3, <1>6
<1>8. Changed(guilds, guilds', g, q) BY <1>7, OneChanged
<1>9. renamed' = renamed \cup {g} /\ UNCHANGED <<guildOf, paidOut>> BY DEF VotedName
<1>10. UNCHANGED <<guildOf, today, founded, deposits, paidOut, forfeited, guildGains>> BY <1>9 DEF Idle
<1>11. SamePeople(guilds[g], q) /\ q.treasury = guilds[g].treasury /\ q.level = guilds[g].level /\ q.xp = guilds[g].xp
       /\ q.skills = guilds[g].skills
  BY <1>5 DEF Marks, SamePeople, SameWealth
<1>12. NamedApart(guilds, renamed) /\ AllEarned(guilds, guildGains, founded) BY DEF GuildsInv
<1>13. renamed \subseteq renamed' /\ g \in renamed' BY <1>9
<1>14. NamedApart(guilds', renamed') BY <1>8, <1>12, <1>13, ApartChanged
<1>15. AllEarned(guilds', guildGains, founded) BY <1>8, <1>11, <1>12, EarnedSame
<1>16. AllEarned(guilds', guildGains', founded) BY <1>10, <1>15
<1>17. Banked(guilds', deposits', paidOut', forfeited') BY <1>5, <1>8, <1>10, <1>11, BankedSame
<1>18. GuildsInv' BY <1>5, <1>8, <1>10, <1>11, <1>14, <1>16, <1>17, WealthChange
<1>19. \A j \in DOMAIN guilds[g].proposals : CarriedWell(g, guilds[g].proposals[j], q.proposals[j]) BY <1>5 DEF Marks
<1>20. CarriedStep BY <1>8, <1>19, CarriedOne
<1>21. QED BY <1>18, <1>20

LEMMA ExecuteProposalKeeps ==
  ASSUME GuildsInv, NEW g \in DOMAIN guilds, NEW k \in DOMAIN guilds[g].proposals, ExecuteProposal(g, k)
  PROVE  GuildsInv' /\ CarriedStep
<1>1. PICK w : w = guilds[g].proposals[k].what OBVIOUS
<1>2. PICK marked : marked = [guilds EXCEPT ![g].proposals[k].done = TRUE] OBVIOUS
<1>3. ~guilds[g].proposals[k].done /\ Carried(g, guilds[g].proposals[k]) BY DEF ExecuteProposal, Alive
<1>4. VotedKick(g, w, marked) \/ VotedPromotion(g, w, marked) \/ VotedPayment(g, w, marked) \/ VotedName(g, w, marked)
  BY <1>1, <1>2 DEF ExecuteProposal, VotedKick, VotedPromotion, VotedPayment, VotedName
<1>5. Idle BY DEF ExecuteProposal, Idle
<1>6. (\E r : Marks(g, k, r)) /\ guilds[g].proposals[k] \in Motions BY <1>3, Marked
<1>7. PICK r : Marks(g, k, r) BY <1>6
<1>8. marked = [guilds EXCEPT ![g] = r] BY <1>2, <1>7 DEF Marks
<1>9. w \in Whats BY <1>1, <1>6, MotionIs
<1>10. CASE VotedKick(g, w, marked) BY <1>5, <1>7, <1>8, <1>10, VotedKickKeeps
<1>11. CASE VotedPromotion(g, w, marked) BY <1>5, <1>7, <1>8, <1>9, <1>11, VotedPromotionKeeps
<1>12. CASE VotedPayment(g, w, marked) BY <1>5, <1>7, <1>8, <1>9, <1>12, VotedPaymentKeeps
<1>13. CASE VotedName(g, w, marked) BY <1>5, <1>7, <1>8, <1>9, <1>13, VotedNameKeeps
<1>14. QED BY <1>4, <1>10, <1>11, <1>12, <1>13

-----------------------------------------------------------------------------
LEMMA GuildsStart == GuildsInit => GuildsInv
<1>1. SUFFICES ASSUME GuildsInit PROVE GuildsInv OBVIOUS
<1>2. guilds = <<>> /\ guildOf = <<>> /\ today = 0 /\ founded = 0 /\ deposits = <<>> /\ paidOut = 0 /\ forfeited = 0
      /\ guildGains = <<>> /\ renamed = {}
  BY <1>1 DEF GuildsInit
<1>3. DOMAIN guilds = {} /\ DOMAIN guildOf = {} /\ DOMAIN guildGains = {} BY <1>2
<1>4. deposits \in Seq(Int) /\ guildGains \in Seq(Gifts) BY <1>2, EmptySeq
<1>5. Established(guilds, founded) BY <1>2, <1>3 DEF Established, Recorded
<1>6. AllLed(guilds) /\ Indexes(guilds, guildOf) /\ NamedApart(guilds, renamed) BY <1>3 DEF AllLed, Indexes, NamedApart
<1>7. SumFunction(deposits) = 0 BY <1>2, SumEmpty DEF SumFunction
<1>8. Treasure(guilds) = 0 BY <1>3, SumEmpty DEF Treasure, SumFunction
<1>9. Banked(guilds, deposits, paidOut, forfeited) BY <1>2, <1>3, <1>4, <1>7, <1>8 DEF Banked
<1>10. AllEarned(guilds, guildGains, founded) BY <1>3, <1>4 DEF AllEarned
<1>11. QED BY <1>2, <1>5, <1>6, <1>9, <1>10 DEF GuildsInv

LEMMA GuildsStep == GuildsInv /\ [Membership \/ Council \/ Wealth]_guildVars => GuildsInv' /\ CarriedStep
<1>1. SUFFICES ASSUME GuildsInv, [Membership \/ Council \/ Wealth]_guildVars PROVE GuildsInv' /\ CarriedStep OBVIOUS
<1>2. CASE Membership
  BY <1>1, <1>2, CreateKeeps, JoinKeeps, LeaveKeeps, DisbandKeeps, TransferKeeps, KickKeeps, PromoteKeeps DEF
     Membership
<1>3. CASE Council BY <1>1, <1>3, DayKeeps, CreateProposalKeeps, VoteKeeps, ExecuteProposalKeeps DEF Council
<1>4. CASE Wealth
  BY <1>1, <1>4, DepositKeepsGuilds, WithdrawKeepsGuilds, AddXPKeeps, AddSkillKeeps, LevelUpKeeps DEF Wealth
<1>5. CASE UNCHANGED guildVars BY <1>1, <1>5, ProposalsStay DEF guildVars, GuildsInv
<1>6. QED BY <1>1, <1>2, <1>3, <1>4, <1>5

-----------------------------------------------------------------------------
LEMMA PlacesInList ==
  ASSUME NEW ms, NEW l, Led(ms, l), NEW p
  PROVE  Cardinality({i \in DOMAIN ms : ms[i].id = p}) = IF p \in IdsOf(ms) THEN 1 ELSE 0
<1>1. PICK S : S = {i \in DOMAIN ms : ms[i].id = p} OBVIOUS
<1>2. CASE p \in IdsOf(ms)
  <2>1. PICK i \in DOMAIN ms : ms[i].id = p BY <1>2 DEF IdsOf
  <2>2. S = {i} BY <1>1, <2>1 DEF Led
  <2>3. Cardinality(S) = 1 BY <2>2, FS_Singleton
  <2>4. QED BY <1>1, <1>2, <2>3
<1>3. CASE p \notin IdsOf(ms) BY <1>1, <1>3, FS_EmptySet DEF IdsOf
<1>4. QED BY <1>2, <1>3

LEMMA OneGuildEach == ASSUME GuildsInv PROVE OneGuild
<1>1. Indexes(guilds, guildOf) BY DEF GuildsInv
<1>2. ASSUME NEW p \in Citizens, NEW g \in DOMAIN guilds
      PROVE  Cardinality({i \in DOMAIN guilds[g].members : guilds[g].members[i].id = p})
               = (IF p \in DOMAIN guildOf /\ guildOf[p] = g THEN 1 ELSE 0)
  BY <1>1, GuildIs, PlacesInList DEF Indexes
<1>3. \A p \in Citizens : p \in DOMAIN guildOf => guildOf[p] \in DOMAIN guilds BY <1>1 DEF Indexes
<1>4. QED BY <1>2, <1>3 DEF OneGuild

LEMMA OneLeaderEach == ASSUME GuildsInv PROVE OneLeader
<1>1. ASSUME NEW g \in DOMAIN guilds
      PROVE  {i \in DOMAIN guilds[g].members : guilds[g].members[i].role = "leader"} = {At(g, guilds[g].leader)}
  BY GuildIs, AtIs DEF Led
<1>2. QED BY <1>1 DEF OneLeader

LEMMA GuildsAccounts == ASSUME GuildsInv PROVE TreasuriesBalance /\ NamesTaken /\ LevelsSettled
BY DEF GuildsInv, Banked, Treasure, TreasuriesBalance, NamedApart, NamesTaken, AllEarned, Earned, Gained, Skilled,
   LevelsSettled

(* In every behaviour of the guilds, of any players, names and amounts: a  *)
(* player is in the one list that the index gives, a guild has one leader, *)
(* deposits are in a treasury, paid out or lost with a guild that was      *)
(* disbanded, levels and skills are worth the XP they cost, and nothing is *)
(* carried out twice, or by votes of members that are no majority.         *)
THEOREM GuildsAreSound == GuildsSpec => GuildsSound
<1>1. GuildsInit => GuildsInv BY GuildsStart
<1>2. GuildsInv /\ [Membership \/ Council \/ Wealth]_guildVars => GuildsInv' BY GuildsStep
<1>3. GuildsInv => OneGuild /\ OneLeader /\ TreasuriesBalance /\ NamesTaken /\ LevelsSettled
  BY OneGuildEach, OneLeaderEach, GuildsAccounts
<1>4. GuildsInv /\ [Membership \/ Council \/ Wealth]_guildVars => [CarriedStep]_guildVars BY GuildsStep
<1>5. GuildsSpec => [][CarriedStep]_guildVars BY <1>1, <1>2, <1>4, PTL DEF GuildsSpec
<1>6. [][CarriedStep]_guildVars => CarriedByMembers BY PTL DEF CarriedStep, CarriedByMembers
<1>7. QED BY <1>1, <1>2, <1>3, <1>5, <1>6, PTL DEF GuildsSpec, GuildsSound
=============================================================================
