---------------------------- MODULE Ledger_proofs ----------------------------
(***************************************************************************)
(* What holds of the credit of the dark chain for any number of callers,   *)
(* notes, loans and transfers and any amounts: the notes (Notes), the      *)
(* loans (Loans), the cross-domain router (CrossDomain), the receipts that *)
(* ferries carry (ShadowReceipts), the repayment of a debt in fragments    *)
(* (Fragments), and the tree of commitments behind the notes (Merkle).     *)
(***************************************************************************)
EXTENDS Notes, Loans, CrossDomain, ShadowReceipts, Fragments, Merkle, Sums, SequenceTheorems

-----------------------------------------------------------------------------
(* Notes.  What a caller has taken out of the tree counts as its own until *)
(* it has paid for it, and a change note is in nobody's hands before its   *)
(* call ends: what somebody can spend or is spending never grows but by    *)
(* the genesis credit.                                                     *)

PCs == {"idle", "store change", "proof", "root", "mark", "remove", "delete",
        "undo", "undo store", "spent", "refused"}
Call == [pc : PCs, notes : Seq(Nat), secret : Secrets \cup {0}, amount : Nat, change : Nat,
         i : Nat, proof : SUBSET Nat, met : BOOLEAN]

\* How many of its notes a caller has taken out of the tree, and which.
TakenBy(c) == IF c.pc = "delete" THEN c.i
            ELSE IF c.pc \in {"store change", "proof", "root", "mark", "remove"} THEN c.i - 1 ELSE 0
Own(s) == {call[s].notes[j] : j \in 1..TakenBy(call[s])}
Owned == UNION {Own(s) : s \in Spenders}

\* The change note of a caller is in nobody's hands before it ends.
Keeps(c) == c.change # 0 /\ c.pc \in {"store change", "proof", "root", "mark", "remove", "delete", "undo"}
Rolls(c) == c.change # 0 /\ c.pc = "undo store"
ChangeOf(c) == IF c.change = 0 THEN 0 ELSE value[c.change]

NotesTypes ==
  /\ value \in Seq(1..(W - 1)) /\ granted \in 0..Len(Genesis)
  /\ commitments \subseteq DOMAIN value /\ stored \subseteq DOMAIN value
  /\ known \subseteq DOMAIN value /\ nullifiers \subseteq Secrets \X known
  /\ call \in [Spenders -> Call] /\ paid \in Nat /\ calls \in Nat /\ stops \in Nat
  /\ uses \in [DOMAIN value -> Nat] /\ torn \in [DOMAIN value -> Nat]

CallsInv ==
  \A s \in Spenders : call[s].pc # "idle" =>
    /\ call[s].notes \in Seq(known) /\ call[s].i \in DOMAIN call[s].notes
    /\ call[s].secret \in Secrets
    /\ call[s].change \in {0} \cup DOMAIN value
    /\ call[s].pc \in {"store change", "undo", "undo store"} => call[s].change # 0
    /\ call[s].amount + ChangeOf(call[s]) = TotalInput(call[s].notes)

OwnInv ==
  /\ \A s \in Spenders :
       /\ Own(s) \cap commitments = {}
       /\ \A j, k \in 1..TakenBy(call[s]) : call[s].notes[j] = call[s].notes[k] => j = k
  /\ \A s, t \in Spenders : s # t => Own(s) \cap Own(t) = {}

ChangeInv ==
  /\ \A s \in Spenders :
       /\ Keeps(call[s]) => call[s].change \in commitments \ known
       /\ Rolls(call[s]) => call[s].change \notin commitments \cup known
  /\ \A s, t \in Spenders :
       s # t /\ (Keeps(call[s]) \/ Rolls(call[s])) /\ (Keeps(call[t]) \/ Rolls(call[t]))
         => call[s].change # call[t].change

\* What somebody can spend, or is spending.
Live == (known \cap commitments) \cup Owned
MoneyInv ==
  paid + SumFunctionOnSet(value, Live) <= SumFunctionOnSet(Genesis, 1..granted)

UsesInv ==
  \A n \in DOMAIN value : uses[n] # 0 =>
    uses[n] = 1 /\ n \in known /\ n \notin commitments \cup stored \cup Owned

MetInv ==
  /\ calls = 0 => Busy = {} /\ nullifiers = {}
  /\ \A s, t \in Busy : s # t => call[s].met /\ call[t].met
  /\ \A s \in Busy : call[s].pc = "root" /\ ~call[s].met => call[s].proof = commitments

Once(notes) == \A j, k \in DOMAIN notes : notes[j] = notes[k] => j = k

Looks == {"store change", "proof", "root", "mark", "remove", "delete"}
Fails == {"undo", "undo store", "refused"}

\* A caller that met nobody finds its notes in the tree.
FindsInv ==
  \A s \in Busy :
    call[s].pc \in Looks /\ ~call[s].met /\ Once(call[s].notes) =>
        \A j \in DOMAIN call[s].notes : j > TakenBy(call[s]) => call[s].notes[j] \in commitments

\* A nullifier whose note is in the tree is being spent, or was when a crash came.
NullifiersInv ==
  \A p \in nullifiers :
    \/ p[2] \notin commitments \/ torn[p[2]] > 0
    \/ \E s \in Spenders : call[s].pc = "remove" /\ Current(s) = p[2]

LossInv ==
  \A s \in Spenders : call[s].pc \in Fails =>
    call[s].met \/ ~Once(call[s].notes) \/ torn[Current(s)] > 0

NotesInv == /\ NotesTypes /\ CallsInv /\ OwnInv /\ ChangeInv /\ TreeStored /\ MoneyInv
            /\ UsesInv /\ MetInv /\ FindsInv /\ NullifiersInv /\ LossInv

\* What the invariant says of one caller.
LEMMA CallFacts ==
  ASSUME NotesInv, NEW s \in Spenders
  PROVE  /\ call[s] \in Call /\ call[s].pc \in PCs /\ call[s].i \in Nat
         /\ call[s].notes \in Seq(Nat) /\ call[s].met \in BOOLEAN
         /\ call[s].amount \in Nat /\ call[s].change \in Nat /\ call[s].proof \in SUBSET Nat
         /\ call[s].pc # "idle" =>
              /\ call[s].notes \in Seq(known) /\ Len(call[s].notes) \in Nat
              /\ DOMAIN call[s].notes = 1..Len(call[s].notes)
              /\ call[s].i \in 1..Len(call[s].notes)
              /\ \A j \in 1..Len(call[s].notes) : call[s].notes[j] \in known
              /\ Current(s) \in known
         /\ TakenBy(call[s]) \in 0..Len(call[s].notes)
         /\ call[s].pc = "idle" => TakenBy(call[s]) = 0
<1>1. call[s] \in Call
  BY DEF NotesInv, NotesTypes
<1>2. /\ call[s].pc \in PCs /\ call[s].i \in Nat /\ call[s].notes \in Seq(Nat) /\ call[s].met \in BOOLEAN
      /\ call[s].amount \in Nat /\ call[s].change \in Nat /\ call[s].proof \in SUBSET Nat
  BY <1>1 DEF Call
<1>3. Len(call[s].notes) \in Nat /\ DOMAIN call[s].notes = 1..Len(call[s].notes)
  BY <1>2, LenProperties
<1>4. call[s].pc # "idle" =>
              /\ call[s].notes \in Seq(known)
              /\ call[s].i \in 1..Len(call[s].notes)
              /\ \A j \in 1..Len(call[s].notes) : call[s].notes[j] \in known
  BY <1>3, ElementOfSeq DEF NotesInv, CallsInv
<1>5. TakenBy(call[s]) \in 0..Len(call[s].notes) /\ (call[s].pc = "idle" => TakenBy(call[s]) = 0)
  <2>0. PICK m : m \in Nat /\ m = Len(call[s].notes)
    BY <1>3
  <2>1. CASE call[s].pc \notin Looks
    <3>1. TakenBy(call[s]) = 0
      BY <2>1 DEF TakenBy, Looks
    <3>2. QED
      BY <2>0, <3>1
  <2>2. CASE call[s].pc \in Looks
    <3>0. call[s].pc # "idle"
      BY <2>2 DEF Looks
    <3>1. PICK i : i = call[s].i /\ i \in 1..m
      BY <1>4, <2>0, <3>0
    <3>2. TakenBy(call[s]) = i \/ TakenBy(call[s]) = i - 1
      BY <2>2, <3>1 DEF TakenBy, Looks
    <3>3. TakenBy(call[s]) \in 0..m
      BY <2>0, <3>1, <3>2
    <3>4. QED
      BY <2>0, <3>0, <3>3
  <2>3. QED
    BY <2>1, <2>2
<1>6. call[s].pc # "idle" => Current(s) \in known
  BY <1>4 DEF Current
<1>7. QED
  BY <1>1, <1>2, <1>3, <1>4, <1>5, <1>6

LEMMA OwnKnown ==
  ASSUME NotesInv, NEW s \in Spenders
  PROVE  Own(s) \subseteq known /\ (call[s].pc = "idle" => Own(s) = {})
<1>1. CASE call[s].pc = "idle" BY <1>1, CallFacts DEF Own
<1>2. CASE call[s].pc # "idle" BY <1>2, CallFacts DEF Own
<1>3. QED
  BY <1>1, <1>2

LEMMA GenesisFacts ==
  /\ Len(Genesis) \in Nat /\ DOMAIN Genesis = 1..Len(Genesis)
  /\ \A i \in 1..Len(Genesis) : Genesis[i] \in 1..(W - 1)
  /\ W \in Nat \ {0}
  /\ \A k \in 0..Len(Genesis) : SumFunctionOnSet(Genesis, 1..k) \in Nat
<1>1. W \in Nat \ {0} /\ Genesis \in Seq(1..(W - 1))
  BY NotesAssumption
<1>2. Len(Genesis) \in Nat /\ DOMAIN Genesis = 1..Len(Genesis)
  BY <1>1, LenProperties
<1>3. \A i \in 1..Len(Genesis) : Genesis[i] \in 1..(W - 1)
  BY <1>1, <1>2, ElementOfSeq
<1>4. ASSUME NEW k \in 0..Len(Genesis)
      PROVE  SumFunctionOnSet(Genesis, 1..k) \in Nat
  <2>1. PICK m : m = Len(Genesis) /\ m \in Nat /\ k \in 0..m
    BY <1>2
  <2>2. \A i \in 1..k : Genesis[i] \in Nat
    BY <1>1, <1>3, <2>1
  <2>3. IsFiniteSet(1..k)
    BY <2>1, FS_Interval
  <2>4. QED
    BY <2>2, <2>3, SumNat
<1>5. QED
  BY <1>1, <1>2, <1>3, <1>4

LEMMA ValueTypes ==
  ASSUME NotesInv
  PROVE  /\ Len(value) \in Nat /\ DOMAIN value = 1..Len(value)
         /\ \A n \in DOMAIN value : value[n] \in Nat /\ value[n] > 0
         /\ IsFiniteSet(DOMAIN value)
         /\ known \subseteq DOMAIN value /\ Owned \subseteq known
         /\ Live \subseteq DOMAIN value /\ IsFiniteSet(Live)
         /\ SumFunctionOnSet(value, Live) \in Nat /\ paid \in Nat
         /\ SumFunctionOnSet(Genesis, 1..granted) \in Nat
<1>1. value \in Seq(1..(W - 1)) /\ known \subseteq DOMAIN value
  BY DEF NotesInv, NotesTypes
<1>2. Len(value) \in Nat /\ DOMAIN value = 1..Len(value)
  BY <1>1, LenProperties
<1>3. \A n \in DOMAIN value : value[n] \in 1..(W - 1)
  BY <1>1, <1>2, ElementOfSeq
<1>4. W \in Nat
  BY NotesAssumption
<1>5. \A n \in DOMAIN value : value[n] \in Nat /\ value[n] > 0
  BY <1>3, <1>4
<1>6. IsFiniteSet(DOMAIN value)
  BY <1>2, FS_Interval
<1>7. Owned \subseteq known
  BY OwnKnown DEF Owned
<1>8. Live \subseteq DOMAIN value /\ IsFiniteSet(Live)
  BY <1>1, <1>6, <1>7, FS_Subset DEF Live
<1>9. SumFunctionOnSet(value, Live) \in Nat
  BY <1>5, <1>8, SumNat
<1>10. SumFunctionOnSet(Genesis, 1..granted) \in Nat
  BY GenesisFacts DEF NotesInv, NotesTypes
<1>11. QED
  BY <1>1, <1>2, <1>5, <1>6, <1>7, <1>8, <1>9, <1>10 DEF NotesInv, NotesTypes

\* A step that pays nothing and gives nobody a note.
LEMMA MoneyShrinks ==
  ASSUME NotesInv, Live' \subseteq Live, UNCHANGED <<value, paid, granted>>
  PROVE  MoneyInv'
<1>1. SumFunctionOnSet(value, Live') <= SumFunctionOnSet(value, Live)
  BY ValueTypes, SumSubset
<1>2. SumFunctionOnSet(value, Live') \in Nat BY ValueTypes, FS_Subset, SumNat
<1>3. PICK p, a, b, g : p = paid /\ a = SumFunctionOnSet(value, Live') /\ b = SumFunctionOnSet(value, Live)
                          /\ g = SumFunctionOnSet(Genesis, 1..granted)
  OBVIOUS
<1>4. p \in Nat /\ a \in Nat /\ b \in Nat /\ g \in Nat /\ a <= b /\ p + b <= g
  BY <1>1, <1>2, <1>3, ValueTypes DEF NotesInv, MoneyInv
<1>5. p + a <= g
  BY <1>4
<1>6. SumFunctionOnSet(value', Live') = a /\ paid' = p /\ SumFunctionOnSet(Genesis, 1..granted') = g
  BY <1>3, Zenon
<1>7. QED
  BY <1>5, <1>6 DEF MoneyInv

\* The step goes on with the call, or ends it.
Goes(r, c) ==
  /\ r.notes = c.notes /\ r.secret = c.secret /\ r.amount = c.amount /\ r.change = c.change
  /\ r.met = c.met /\ r.i \in DOMAIN r.notes /\ r.pc # "idle"
  /\ r.pc \in {"store change", "undo", "undo store"} => r.change # 0

\* A step of one caller that takes no note and pays nothing.
Local(s, rec) ==
  /\ call[s].pc # "idle" /\ rec \in Call /\ Step(s, rec)
  /\ UNCHANGED <<value, known, granted, calls, stops, ghosts>>
  /\ rec = Idle \/ Goes(rec, call[s])
  /\ TakenBy(rec) \in {0, TakenBy(call[s])}
  /\ commitments' \subseteq commitments
  /\ \A n \in commitments : n \in commitments'
       \/ (n = call[s].change /\ Keeps(call[s]) /\ rec.pc = "undo store")
  /\ \A n \in stored' : n \in stored \/ (n = call[s].change /\ call[s].pc = "store change")
  /\ \A n \in stored : n \in stored' \/ n \notin commitments'
  /\ nullifiers' \subseteq Secrets \X known
  /\ \A p \in nullifiers' : p \in nullifiers \/ (p[2] = rec.notes[rec.i] /\ rec.pc = "remove")
  \* what is left behind
  /\ call[s].pc = "store change" => call[s].change \in stored'
  /\ call[s].pc = "undo store" => call[s].change \notin stored'
  /\ call[s].pc = "delete" => Current(s) \notin stored'
  /\ call[s].pc = "remove" => Current(s) \notin commitments'
  /\ Keeps(rec) => Keeps(call[s])
  /\ Rolls(rec) => Keeps(call[s]) /\ rec.change \notin commitments'
  \* what the step finds
  /\ rec.pc \in {"idle", "proof", "root", "mark", "remove", "undo", "undo store", "spent", "refused"}
  /\ rec.pc = "root" => rec.proof = commitments'
  /\ rec.pc \in Looks => call[s].pc \in Looks /\ TakenBy(rec) = TakenBy(call[s])
  /\ rec.pc \in Fails =>
       \/ call[s].pc \in Fails /\ rec.i = call[s].i
       \/ rec.met \/ ~Once(rec.notes) \/ torn[rec.notes[rec.i]] > 0

LEMMA LocalCalls ==
  ASSUME NotesInv, NEW s \in Spenders, NEW rec, Local(s, rec)
  PROVE  /\ call' \in [Spenders -> Call] /\ call'[s] = rec
         /\ \A t \in Spenders : t # s => call'[t] = call[t]
         /\ rec.pc = "idle" <=> rec = Idle
         /\ rec.pc # "idle" => Goes(rec, call[s])
         /\ Idle.pc = "idle" /\ TakenBy(Idle) = 0 /\ ~Keeps(Idle) /\ ~Rolls(Idle)
         /\ UNCHANGED <<value, known, granted, calls, stops, paid, uses, torn>>
<1>1. call \in [Spenders -> Call]
  BY DEF NotesInv, NotesTypes
<1>2. rec \in Call /\ call' = [call EXCEPT ![s] = rec]
  BY DEF Local, Step
<1>3. Idle.pc = "idle" /\ TakenBy(Idle) = 0 /\ ~Keeps(Idle) /\ ~Rolls(Idle)
  BY DEF Idle, TakenBy, Keeps, Rolls
<1>4. rec = Idle \/ Goes(rec, call[s])
  BY DEF Local
<1>5. QED
  BY <1>1, <1>2, <1>3, <1>4 DEF Goes, Local, ghosts

LEMMA LocalTypes ==
  ASSUME NotesInv, NEW s \in Spenders, NEW rec, Local(s, rec)
  PROVE  NotesTypes' /\ CallsInv'
<1>1. NotesTypes'
  <2>1. commitments' \subseteq DOMAIN value
    BY DEF Local, NotesInv, NotesTypes
  <2>2. stored' \subseteq DOMAIN value BY DEF NotesInv, CallsInv, Local, NotesTypes
  <2>3. nullifiers' \subseteq Secrets \X known
    BY DEF Local
  <2>4. QED
    BY <2>1, <2>2, <2>3, LocalCalls DEF NotesInv, NotesTypes
<1>2. CallsInv'
  <2>1. SUFFICES ASSUME NEW t \in Spenders, call'[t].pc # "idle"
                 PROVE  /\ call'[t].notes \in Seq(known) /\ call'[t].i \in DOMAIN call'[t].notes
                        /\ call'[t].secret \in Secrets
                        /\ call'[t].change \in {0} \cup DOMAIN value
                        /\ call'[t].pc \in {"store change", "undo", "undo store"} => call'[t].change # 0
                        /\ call'[t].amount + ChangeOf(call'[t]) = TotalInput(call'[t].notes)
    BY LocalCalls DEF CallsInv, ChangeOf, TotalInput
  <2>2. CASE t # s
    BY <2>1, <2>2, LocalCalls DEF NotesInv, CallsInv
  <2>3. CASE t = s
    <3>0. call'[t] = rec
      BY <2>3, LocalCalls
    <3>1. Goes(call'[t], call[s]) /\ call[s].pc # "idle"
      <4>1. rec.pc # "idle"
        BY <2>1, <3>0
      <4>2. Goes(rec, call[s]) /\ call[s].pc # "idle"
        BY <4>1, LocalCalls DEF Local
      <4>3. QED
        BY <3>0, <4>2
    <3>2. /\ call[s].notes \in Seq(known)
          /\ call[s].secret \in Secrets
          /\ call[s].change \in {0} \cup DOMAIN value
          /\ call[s].amount + ChangeOf(call[s]) = TotalInput(call[s].notes)
      BY <3>1 DEF NotesInv, CallsInv
    <3>3. QED
      BY <3>1, <3>2 DEF Goes, ChangeOf
  <2>4. QED
    BY <2>2, <2>3
<1>3. QED
  BY <1>1, <1>2

LEMMA LocalOwn ==
  ASSUME NotesInv, NEW s \in Spenders, NEW rec, Local(s, rec)
  PROVE  /\ \A t \in Spenders : Own(t)' \subseteq Own(t)
         /\ OwnInv' /\ Owned' \subseteq Owned
<1>1. \A t \in Spenders : t # s => Own(t)' = Own(t) /\ call'[t] = call[t]
  BY LocalCalls DEF Own
<1>2. /\ Own(s)' \subseteq Own(s)
      /\ \A j, k \in 1..TakenBy(rec) : rec.notes[j] = rec.notes[k] => j = k
  <2>1. CASE rec = Idle BY <2>1, LocalCalls DEF Own
  <2>2. CASE Goes(rec, call[s])
    <3>0. TakenBy(call[s]) \in Nat /\ TakenBy(rec) <= TakenBy(call[s]) /\ rec.i \in Nat
      <4>1. TakenBy(call[s]) \in 0..Len(call[s].notes) /\ Len(call[s].notes) \in Nat
        BY CallFacts DEF Local
      <4>2. rec.i \in Nat /\ TakenBy(rec) \in {0, TakenBy(call[s])}
        BY DEF Local, Call
      <4>3. PICK m, k : m = Len(call[s].notes) /\ m \in Nat /\ k = TakenBy(call[s]) /\ k \in 0..m
        BY <4>1
      <4>4. k \in Nat /\ (TakenBy(rec) = 0 \/ TakenBy(rec) = k)
        BY <4>2, <4>3
      <4>5. TakenBy(rec) <= k
        BY <4>4
      <4>6. QED
        BY <4>2, <4>3, <4>4, <4>5
    <3>1. PICK k, m : k = TakenBy(rec) /\ m = TakenBy(call[s]) /\ m \in Nat /\ k <= m
      BY <3>0
    <3>2. k \in Int
      <4>1. PICK i : i = rec.i /\ i \in Nat
        BY <3>0
      <4>2. k = i \/ k = i - 1 \/ k = 0
        BY <3>1, <4>1 DEF TakenBy
      <4>3. QED
        BY <4>1, <4>2
    <3>3. 1..k \subseteq 1..m
      BY <3>1, <3>2
    <3>4. Own(s)' = {call[s].notes[j] : j \in 1..k}
      <4>1. Own(s)' = {call'[s].notes[j] : j \in 1..TakenBy(call'[s])}
        BY DEF Own
      <4>2. Own(s)' = {rec.notes[j] : j \in 1..TakenBy(rec)} BY <4>1, LocalCalls
      <4>3. rec.notes = call[s].notes
        BY <2>2 DEF Goes
      <4>4. QED
        BY <3>1, <4>2, <4>3, Zenon
    <3>5. Own(s) = {call[s].notes[j] : j \in 1..m}
      BY <3>1 DEF Own
    <3>6. \A i, j \in 1..m : call[s].notes[i] = call[s].notes[j] => i = j
      BY <3>1 DEF NotesInv, OwnInv
    <3>7. QED
      BY <2>2, <3>1, <3>3, <3>4, <3>5, <3>6 DEF Goes
  <2>3. QED
    BY <2>1, <2>2 DEF Local
<1>3. \A t \in Spenders : Own(t)' \subseteq Own(t)
  BY <1>1, <1>2
<1>4. \A t \in Spenders : \A j, k \in 1..TakenBy(call'[t]) : call'[t].notes[j] = call'[t].notes[k] => j = k
  BY <1>1, <1>2, LocalCalls DEF NotesInv, OwnInv
<1>5. commitments' \subseteq commitments
  BY DEF Local
<1>6. OwnInv' BY <1>3, <1>4, <1>5 DEF NotesInv, OwnInv
<1>7. Owned' \subseteq Owned
  BY <1>3 DEF Owned
<1>8. QED
  BY <1>3, <1>6, <1>7

LEMMA LocalChange ==
  ASSUME NotesInv, NEW s \in Spenders, NEW rec, Local(s, rec)
  PROVE  ChangeInv'
<1>1. /\ rec.pc # "idle" => rec.change = call[s].change
      /\ Keeps(rec) => Keeps(call[s])
      /\ Rolls(rec) => Keeps(call[s]) /\ rec.change \notin commitments'
      /\ ~(Keeps(rec) /\ rec.pc = "undo store")
      /\ Keeps(rec) \/ Rolls(rec) => rec.pc # "idle"
  BY LocalCalls DEF Local, Goes, Keeps, Rolls
<1>2. /\ \A n \in commitments : n \in commitments'
            \/ (n = call[s].change /\ Keeps(call[s]) /\ rec.pc = "undo store")
      /\ known' = known /\ commitments' \subseteq commitments
  BY LocalCalls DEF Local
<1>3. \A t \in Spenders : Keeps(call'[t]) => call'[t].change \in commitments' \ known'
  <2>1. SUFFICES ASSUME NEW t \in Spenders, Keeps(call'[t])
                 PROVE  call'[t].change \in commitments' \ known'
    OBVIOUS
  <2>2. CASE t = s BY <1>1, <1>2, <2>1, <2>2, LocalCalls DEF NotesInv, ChangeInv
  <2>3. CASE t # s
    <3>1. call'[t] = call[t]
      BY <2>3, LocalCalls
    <3>2. QED
      BY <1>2, <2>1, <2>3, <3>1 DEF NotesInv, ChangeInv
  <2>4. QED
    BY <2>2, <2>3
<1>4. \A t \in Spenders : Rolls(call'[t]) => call'[t].change \notin commitments' \cup known'
  <2>1. SUFFICES ASSUME NEW t \in Spenders, Rolls(call'[t])
                 PROVE  call'[t].change \notin commitments' \cup known'
    OBVIOUS
  <2>2. CASE t = s BY <1>1, <1>2, <2>1, <2>2, LocalCalls DEF NotesInv, ChangeInv
  <2>3. CASE t # s BY <1>2, <2>1, <2>3, LocalCalls DEF NotesInv, ChangeInv
  <2>4. QED
    BY <2>2, <2>3
<1>5. \A t \in Spenders : Keeps(call'[t]) \/ Rolls(call'[t]) =>
        (Keeps(call[t]) \/ Rolls(call[t])) /\ call'[t].change = call[t].change
  BY <1>1, LocalCalls
<1>6. \A t, u \in Spenders :
        t # u /\ (Keeps(call'[t]) \/ Rolls(call'[t])) /\ (Keeps(call'[u]) \/ Rolls(call'[u]))
          => call'[t].change # call'[u].change
  BY <1>5 DEF NotesInv, ChangeInv
<1>7. QED
  BY <1>3, <1>4, <1>6 DEF ChangeInv

LEMMA LocalTree ==
  ASSUME NotesInv, NEW s \in Spenders, NEW rec, Local(s, rec)
  PROVE  TreeStored'
<1>0. /\ commitments' \subseteq commitments
      /\ \A n \in commitments : n \in commitments'
            \/ (n = call[s].change /\ Keeps(call[s]) /\ rec.pc = "undo store")
      /\ \A n \in stored' : n \in stored \/ (n = call[s].change /\ call[s].pc = "store change")
      /\ \A n \in stored : n \in stored' \/ n \notin commitments'
      /\ call[s].pc = "store change" => call[s].change \in stored'
      /\ call[s].pc = "undo store" => call[s].change \notin stored'
      /\ call[s].pc = "delete" => Current(s) \notin stored'
      /\ rec.pc = "undo store" => rec.change = call[s].change
  BY LocalCalls DEF Local, Goes
<1>1. ASSUME NEW n \in commitments' \ stored'
      PROVE  \E t \in Spenders : call'[t].pc = "store change" /\ n = call'[t].change
  <2>1. n \in commitments \ stored
    BY <1>0, <1>1
  <2>2. PICK t \in Spenders : call[t].pc = "store change" /\ n = call[t].change
    BY <2>1 DEF NotesInv, TreeStored
  <2>3. t # s
    BY <1>0, <1>1, <2>2
  <2>4. QED
    BY <2>2, <2>3, LocalCalls
<1>2. ASSUME NEW n \in stored' \ commitments'
      PROVE  \/ \E t \in Spenders : call'[t].pc = "undo store" /\ n = call'[t].change
             \/ n \in DOMAIN value /\ \E t \in Spenders : call'[t].pc = "delete" /\ call'[t].notes[call'[t].i] = n
  <2>1. CASE n \in commitments BY <1>0, <1>2, <2>1, LocalCalls
  <2>2. CASE n \notin commitments
    <3>1. n \in stored BY <1>0, <1>2, <2>2 DEF NotesInv, CallsInv, Keeps, ChangeInv
    <3>2. \/ \E t \in Spenders : call[t].pc = "undo store" /\ n = call[t].change
          \/ n \in DOMAIN value /\ \E t \in Spenders : call[t].pc = "delete" /\ Current(t) = n
      BY <2>2, <3>1 DEF NotesInv, TreeStored, Deleting
    <3>3. CASE \E t \in Spenders : call[t].pc = "undo store" /\ n = call[t].change
      <4>1. PICK t \in Spenders : call[t].pc = "undo store" /\ n = call[t].change
        BY <3>3
      <4>2. t # s
        BY <1>0, <1>2, <4>1
      <4>3. QED
        BY <4>1, <4>2, LocalCalls
    <3>4. CASE n \in DOMAIN value /\ \E t \in Spenders : call[t].pc = "delete" /\ Current(t) = n
      <4>1. PICK t \in Spenders : call[t].pc = "delete" /\ Current(t) = n
        BY <3>4
      <4>2. t # s
        BY <1>0, <1>2, <4>1
      <4>3. call'[t] = call[t]
        BY <4>2, LocalCalls
      <4>4. call'[t].pc = "delete" /\ call'[t].notes[call'[t].i] = n
        BY <4>1, <4>3 DEF Current
      <4>5. QED
        BY <3>4, <4>4
    <3>5. QED
      BY <3>2, <3>3, <3>4
  <2>3. QED
    BY <2>1, <2>2
<1>3. commitments' \ stored' \subseteq
        {call'[t].change : t \in {u \in Spenders : call'[u].pc = "store change"}}
  BY <1>1
<1>4. \A n \in DOMAIN value' :
        (\E t \in Spenders : call'[t].pc = "delete" /\ call'[t].notes[call'[t].i] = n)
          => Deleting(n)' # {}
  BY DEF Deleting, Current
<1>5. DOMAIN value' = DOMAIN value
  BY LocalCalls
<1>6. stored' \ commitments' \subseteq
        {call'[t].change : t \in {u \in Spenders : call'[u].pc = "undo store"}}
          \cup {n \in DOMAIN value' : Deleting(n)' # {}}
  <2>1. SUFFICES ASSUME NEW n \in stored' \ commitments'
                 PROVE  \/ \E t \in Spenders : call'[t].pc = "undo store" /\ n = call'[t].change
                        \/ n \in DOMAIN value' /\ Deleting(n)' # {}
    OBVIOUS
  <2>2. QED
    BY <1>2, <1>4, <1>5
<1>7. QED
  BY <1>3, <1>6 DEF TreeStored

LEMMA LocalMoney ==
  ASSUME NotesInv, NEW s \in Spenders, NEW rec, Local(s, rec)
  PROVE  MoneyInv' /\ UsesInv'
<1>1. Owned' \subseteq Owned /\ commitments' \subseteq commitments
  BY LocalOwn DEF Local
<1>2. UNCHANGED <<value, known, paid, granted, uses>>
  BY LocalCalls
<1>3. Live' \subseteq Live
  BY <1>1, <1>2 DEF Live
<1>4. MoneyInv'
  BY <1>2, <1>3, MoneyShrinks
<1>5. stored' \subseteq stored \cup commitments BY DEF NotesInv, CallsInv, Keeps, ChangeInv, Local
<1>6. UsesInv'
  BY <1>1, <1>2, <1>5 DEF NotesInv, UsesInv
<1>7. QED
  BY <1>4, <1>6

LEMMA LocalMet ==
  ASSUME NotesInv, NEW s \in Spenders, NEW rec, Local(s, rec)
  PROVE  MetInv' /\ FindsInv'
<1>1. /\ \A t \in Busy' : t \in Busy /\ call'[t].met = call[t].met
      /\ s \in Busy
  <2>1. call[s].pc # "idle"
    BY DEF Local
  <2>2. QED
    BY <2>1, LocalCalls DEF Busy, Goes
<1>2. \A t, u \in Busy' : t # u => call'[t].met /\ call'[u].met
  BY <1>1 DEF NotesInv, MetInv
<1>3. \A t \in Busy' : t # s => call'[t].met
  BY <1>1 DEF NotesInv, MetInv
<1>4. ASSUME NEW t \in Busy', call'[t].pc = "root", ~call'[t].met PROVE call'[t].proof = commitments'
  <2>1. t = s
    BY <1>3, <1>4
  <2>2. QED
    BY <1>4, <2>1, LocalCalls DEF Local
<1>5. MetInv' BY <1>1, <1>2, <1>4, LocalCalls DEF NotesInv, MetInv
<1>6. ASSUME NEW t \in Busy', call'[t].pc \in Looks, ~call'[t].met, Once(call'[t].notes),
             NEW j \in DOMAIN call'[t].notes, j > TakenBy(call'[t])
      PROVE  call'[t].notes[j] \in commitments'
  <2>1. t = s /\ call'[t] = rec /\ rec.pc # "idle"
    BY <1>3, <1>6, LocalCalls DEF Looks
  <2>2. rec.notes = call[s].notes /\ rec.met = call[s].met
    BY <2>1, LocalCalls DEF Goes
  <2>3. call[s].pc \in Looks /\ TakenBy(rec) = TakenBy(call[s])
    BY <1>6, <2>1 DEF Local
  <2>4. call[s].notes[j] \in commitments
    BY <1>1, <1>6, <2>1, <2>2, <2>3 DEF NotesInv, FindsInv
  <2>5. rec.pc # "undo store"
    BY <1>6, <2>1 DEF Looks
  <2>6. QED
    BY <2>1, <2>2, <2>4, <2>5 DEF Local
<1>7. FindsInv'
  BY <1>6 DEF FindsInv
<1>8. QED
  BY <1>5, <1>7

LEMMA LocalNullifiers ==
  ASSUME NotesInv, NEW s \in Spenders, NEW rec, Local(s, rec)
  PROVE  NullifiersInv' /\ LossInv'
<1>1. torn' = torn /\ commitments' \subseteq commitments
  BY LocalCalls DEF Local
<1>2. ASSUME NEW p \in nullifiers'
      PROVE  \/ p[2] \notin commitments' \/ torn[p[2]] > 0
             \/ \E t \in Spenders : call'[t].pc = "remove" /\ call'[t].notes[call'[t].i] = p[2]
  <2>1. CASE p[2] = rec.notes[rec.i] /\ rec.pc = "remove"
    BY <2>1, LocalCalls
  <2>2. CASE p \in nullifiers
    <3>1. SUFFICES ASSUME NEW t \in Spenders, call[t].pc = "remove", Current(t) = p[2],
                          p[2] \in commitments'
                   PROVE  \E u \in Spenders : call'[u].pc = "remove" /\ call'[u].notes[call'[u].i] = p[2]
      BY <1>1, <2>2 DEF NotesInv, NullifiersInv
    <3>2. t # s
      BY <3>1 DEF Local
    <3>3. call'[t] = call[t]
      BY <3>2, LocalCalls
    <3>4. QED
      BY <3>1, <3>3 DEF Current
  <2>3. QED
    BY <2>1, <2>2 DEF Local
<1>3. NullifiersInv' BY <1>1, <1>2 DEF Current, NullifiersInv
<1>4. ASSUME NEW t \in Spenders, call'[t].pc \in Fails
      PROVE  call'[t].met \/ ~Once(call'[t].notes) \/ torn[call'[t].notes[call'[t].i]] > 0
  <2>1. CASE t # s
    BY <1>4, <2>1, LocalCalls DEF NotesInv, LossInv, Current
  <2>2. CASE t = s
    <3>1. call'[t] = rec /\ rec.pc \in Fails
      BY <1>4, <2>2, LocalCalls
    <3>2. Goes(rec, call[s])
      BY <3>1, LocalCalls DEF Fails
    <3>3. CASE call[s].pc \in Fails /\ rec.i = call[s].i
      BY <3>1, <3>2, <3>3 DEF NotesInv, LossInv, Current, Goes
    <3>4. CASE rec.met \/ ~Once(rec.notes) \/ torn[rec.notes[rec.i]] > 0
      BY <3>1, <3>4
    <3>5. QED
      BY <3>1, <3>3, <3>4 DEF Local
  <2>3. QED
    BY <2>1, <2>2
<1>5. LossInv' BY <1>1, <1>4 DEF Current, LossInv
<1>6. QED
  BY <1>3, <1>5

\* Such a step keeps the invariant.
LEMMA LocalStep ==
  ASSUME NotesInv, NEW s \in Spenders, NEW rec, Local(s, rec)
  PROVE  NotesInv'
BY LocalTypes, LocalOwn, LocalChange, LocalTree, LocalMoney, LocalMet, LocalNullifiers DEF NotesInv

\* What an error in the loop leaves.
LEMMA FailFacts ==
  ASSUME NotesInv, NEW s \in Spenders, call[s].pc \in {"proof", "root", "mark", "remove"}
  PROVE  /\ Fail(s) \in Call /\ Goes(Fail(s), call[s]) /\ Fail(s).i = call[s].i
         /\ Fail(s).pc \in {"undo", "refused"} /\ TakenBy(Fail(s)) = 0
         /\ TakenBy(call[s]) = call[s].i - 1 /\ TakenBy(call[s]) >= 0
         /\ Keeps(Fail(s)) => Keeps(call[s])
         /\ ~Rolls(Fail(s))
<1>1. Fail(s) \in Call
  BY CallFacts DEF Fail, Call, PCs
<1>2. /\ Fail(s).notes = call[s].notes /\ Fail(s).secret = call[s].secret
      /\ Fail(s).amount = call[s].amount /\ Fail(s).change = call[s].change
      /\ Fail(s).met = call[s].met /\ Fail(s).i = call[s].i
      /\ Fail(s).pc = IF call[s].change # 0 THEN "undo" ELSE "refused"
  BY CallFacts DEF Fail, Call
<1>3. Goes(Fail(s), call[s])
  BY <1>2 DEF Goes, NotesInv, CallsInv
<1>4. TakenBy(Fail(s)) = 0
  BY <1>2 DEF TakenBy
<1>5. TakenBy(call[s]) = call[s].i - 1 /\ TakenBy(call[s]) >= 0
  <2>1. PICK m, k : m = Len(call[s].notes) /\ m \in Nat /\ k = TakenBy(call[s]) /\ k \in 0..m
    BY CallFacts
  <2>2. TakenBy(call[s]) = call[s].i - 1
    BY DEF TakenBy
  <2>3. QED
    BY <2>1, <2>2
<1>6. (Keeps(Fail(s)) => Keeps(call[s])) /\ ~Rolls(Fail(s))
  BY <1>2 DEF Keeps, Rolls
<1>7. QED
  BY <1>1, <1>2, <1>3, <1>4, <1>5, <1>6

\* A caller that fails without a reason had its note in the tree.
LEMMA FoundInTree ==
  ASSUME NotesInv, NEW s \in Spenders, call[s].pc \in {"proof", "root", "mark", "remove"},
         Current(s) \notin commitments
  PROVE  call[s].met \/ ~Once(call[s].notes)
<1>1. PICK i, m : i = call[s].i /\ m = Len(call[s].notes) /\ m \in Nat /\ i \in 1..m
                    /\ DOMAIN call[s].notes = 1..m
  BY CallFacts
<1>2. TakenBy(call[s]) = i - 1
  BY <1>1, FailFacts
<1>3. i > TakenBy(call[s]) /\ i \in DOMAIN call[s].notes
  BY <1>1, <1>2
<1>4. s \in Busy /\ call[s].pc \in Looks
  BY DEF Busy, Looks
<1>5. SUFFICES ASSUME ~call[s].met, Once(call[s].notes) PROVE FALSE
  OBVIOUS
<1>6. call[s].notes[i] \in commitments
  BY <1>3, <1>4, <1>5 DEF NotesInv, FindsInv
<1>7. QED
  BY <1>1, <1>6 DEF Current

\* A caller fails, and nothing else changes.
LEMMA FailStep ==
  ASSUME NotesInv, NEW s \in Spenders, call[s].pc \in {"proof", "root", "mark", "remove"},
         Step(s, Fail(s)), call[s].pc = "remove" => Current(s) \notin commitments,
         call[s].met \/ ~Once(call[s].notes) \/ torn[Current(s)] > 0,
         UNCHANGED <<commitments, store, value, known, granted, calls, stops, ghosts>>
  PROVE  NotesInv'
<1>1. Local(s, Fail(s)) BY FailFacts DEF Current, Goes, NotesInv, NotesTypes, Fails, Looks, Local, store
<1>2. QED
  BY <1>1, LocalStep

LEMMA GenerateCreditProofStep ==
  ASSUME NotesInv, NEW s \in Spenders, GenerateCreditProof(s)
  PROVE  NotesInv'
<1>1. CASE Current(s) \in commitments
  <2>1. PICK rec : rec = [call[s] EXCEPT !.pc = "root", !.proof = commitments]
    OBVIOUS
  <2>2. call[s].pc = "proof"
    BY DEF GenerateCreditProof
  <2>3. commitments \in SUBSET Nat
    BY ValueTypes DEF NotesInv, NotesTypes
  <2>4. /\ rec \in Call /\ rec.pc = "root" /\ rec.proof = commitments /\ rec.i = call[s].i
        /\ rec.notes = call[s].notes /\ rec.change = call[s].change /\ rec.met = call[s].met
        /\ rec.secret = call[s].secret /\ rec.amount = call[s].amount
    BY <2>1, <2>3, CallFacts DEF Call, PCs
  <2>5. Goes(rec, call[s]) /\ TakenBy(rec) = TakenBy(call[s]) /\ TakenBy(rec) \in Int
    <3>1. PICK i : i = call[s].i /\ i \in Nat
      BY CallFacts
    <3>2. TakenBy(rec) = i - 1 /\ TakenBy(call[s]) = i - 1
      BY <2>2, <2>4, <3>1 DEF TakenBy
    <3>3. rec.i \in DOMAIN rec.notes
      BY <2>2, <2>4 DEF NotesInv, CallsInv
    <3>4. QED
      BY <2>4, <3>1, <3>2, <3>3 DEF Goes
  <2>6. Keeps(rec) => Keeps(call[s])
    BY <2>2, <2>4 DEF Keeps
  <2>7. ~Rolls(rec)
    BY <2>4 DEF Rolls
  <2>8. Step(s, rec) /\ UNCHANGED <<commitments, stored, nullifiers, value, known, granted, calls, stops, ghosts>>
    BY <1>1, <2>1 DEF GenerateCreditProof, store
  <2>9. nullifiers \subseteq Secrets \X known
    BY DEF NotesInv, NotesTypes
  <2>10. Local(s, rec)
    BY <2>2, <2>4, <2>5, <2>6, <2>7, <2>8, <2>9 DEF Local, Looks, Fails
  <2>11. QED
    BY <2>10, LocalStep
<1>2. CASE Current(s) \notin commitments BY <1>2, FoundInTree, FailStep DEF GenerateCreditProof
<1>3. QED
  BY <1>1, <1>2

LEMMA AddCreditCommitmentStep ==
  ASSUME NotesInv, NEW s \in Spenders, AddCreditCommitment(s)
  PROVE  NotesInv'
<1>1. PICK rec : rec = [call[s] EXCEPT !.pc = "proof"]
  OBVIOUS
<1>2. call[s].pc = "store change"
  BY DEF AddCreditCommitment
<1>3. /\ rec \in Call /\ rec.pc = "proof" /\ rec.i = call[s].i
      /\ rec.notes = call[s].notes /\ rec.change = call[s].change /\ rec.met = call[s].met
      /\ rec.secret = call[s].secret /\ rec.amount = call[s].amount
  BY <1>1, CallFacts DEF Call, PCs
<1>4. Goes(rec, call[s]) /\ TakenBy(rec) = TakenBy(call[s]) /\ TakenBy(rec) \in Int
  <2>1. PICK i : i = call[s].i /\ i \in Nat
    BY CallFacts
  <2>2. TakenBy(rec) = i - 1 /\ TakenBy(call[s]) = i - 1
    BY <1>2, <1>3, <2>1 DEF TakenBy
  <2>3. rec.i \in DOMAIN rec.notes
    BY <1>2, <1>3 DEF NotesInv, CallsInv
  <2>4. QED
    BY <1>3, <2>1, <2>2, <2>3 DEF Goes
<1>5. (Keeps(rec) => Keeps(call[s])) /\ ~Rolls(rec)
  BY <1>2, <1>3 DEF Keeps, Rolls
<1>6. /\ Step(s, rec) /\ stored' = stored \cup {call[s].change}
      /\ UNCHANGED <<commitments, nullifiers, value, known, granted, calls, stops, ghosts>>
  BY <1>1 DEF AddCreditCommitment
<1>7. nullifiers \subseteq Secrets \X known
  BY DEF NotesInv, NotesTypes
<1>8. /\ \A n \in stored' : n \in stored \/ (n = call[s].change /\ call[s].pc = "store change")
      /\ \A n \in stored : n \in stored'
      /\ call[s].change \in stored'
  BY <1>2, <1>6
<1>9. Local(s, rec)
  BY <1>2, <1>3, <1>4, <1>5, <1>6, <1>7, <1>8 DEF Local, Looks, Fails
<1>10. QED
  BY <1>9, LocalStep

LEMMA CheckRootStep ==
  ASSUME NotesInv, NEW s \in Spenders, CheckRoot(s)
  PROVE  NotesInv'
<1>0. call[s].pc = "root"
  BY DEF CheckRoot
<1>1. CASE call[s].proof = commitments
  <2>1. PICK rec : rec = [call[s] EXCEPT !.pc = "mark", !.proof = {}]
    OBVIOUS
  <2>4. /\ rec \in Call /\ rec.pc = "mark" /\ rec.i = call[s].i
        /\ rec.notes = call[s].notes /\ rec.change = call[s].change /\ rec.met = call[s].met
        /\ rec.secret = call[s].secret /\ rec.amount = call[s].amount
    BY <2>1, CallFacts DEF Call, PCs
  <2>5. Goes(rec, call[s]) /\ TakenBy(rec) = TakenBy(call[s]) /\ TakenBy(rec) \in Int
    <3>1. PICK i : i = call[s].i /\ i \in Nat
      BY CallFacts
    <3>2. TakenBy(rec) = i - 1 /\ TakenBy(call[s]) = i - 1
      BY <1>0, <2>4, <3>1 DEF TakenBy
    <3>3. rec.i \in DOMAIN rec.notes
      BY <1>0, <2>4 DEF NotesInv, CallsInv
    <3>4. QED
      BY <2>4, <3>1, <3>2, <3>3 DEF Goes
  <2>6. (Keeps(rec) => Keeps(call[s])) /\ ~Rolls(rec)
    BY <1>0, <2>4 DEF Keeps, Rolls
  <2>8. Step(s, rec) /\ UNCHANGED <<commitments, stored, nullifiers, value, known, granted, calls, stops, ghosts>>
    BY <1>1, <2>1 DEF CheckRoot, store
  <2>9. nullifiers \subseteq Secrets \X known
    BY DEF NotesInv, NotesTypes
  <2>10. Local(s, rec)
    BY <1>0, <2>4, <2>5, <2>6, <2>8, <2>9 DEF Local, Looks, Fails
  <2>11. QED
    BY <2>10, LocalStep
<1>2. CASE call[s].proof # commitments BY <1>0, <1>2, FailStep DEF CheckRoot, NotesInv, MetInv, Busy
<1>3. QED
  BY <1>1, <1>2

LEMMA MarkNullifierStep ==
  ASSUME NotesInv, NEW s \in Spenders, MarkNullifier(s)
  PROVE  NotesInv'
<1>0. call[s].pc = "mark"
  BY DEF MarkNullifier
<1>1. CASE Nullifier(s) \notin nullifiers
  <2>1. PICK rec : rec = [call[s] EXCEPT !.pc = "remove"]
    OBVIOUS
  <2>4. /\ rec \in Call /\ rec.pc = "remove" /\ rec.i = call[s].i
        /\ rec.notes = call[s].notes /\ rec.change = call[s].change /\ rec.met = call[s].met
        /\ rec.secret = call[s].secret /\ rec.amount = call[s].amount
    BY <2>1, CallFacts DEF Call, PCs
  <2>5. Goes(rec, call[s]) /\ TakenBy(rec) = TakenBy(call[s]) /\ TakenBy(rec) \in Int
    <3>1. PICK i : i = call[s].i /\ i \in Nat
      BY CallFacts
    <3>2. TakenBy(rec) = i - 1 /\ TakenBy(call[s]) = i - 1
      BY <1>0, <2>4, <3>1 DEF TakenBy
    <3>3. rec.i \in DOMAIN rec.notes
      BY <1>0, <2>4 DEF NotesInv, CallsInv
    <3>4. QED
      BY <2>4, <3>1, <3>2, <3>3 DEF Goes
  <2>6. (Keeps(rec) => Keeps(call[s])) /\ ~Rolls(rec)
    BY <1>0, <2>4 DEF Keeps, Rolls
  <2>7. Nullifier(s) \in Secrets \X known /\ Nullifier(s)[2] = rec.notes[rec.i]
    BY <1>0, <2>4, CallFacts DEF NotesInv, CallsInv, Nullifier, Current
  <2>8. /\ Step(s, rec) /\ nullifiers' = nullifiers \cup {Nullifier(s)}
        /\ UNCHANGED <<commitments, stored, value, known, granted, calls, stops, ghosts>>
    BY <1>1, <2>1 DEF MarkNullifier
  <2>9. nullifiers' \subseteq Secrets \X known
    BY <2>7, <2>8 DEF NotesInv, NotesTypes
  <2>10. Local(s, rec)
    BY <1>0, <2>4, <2>5, <2>6, <2>7, <2>8, <2>9 DEF Local, Looks, Fails
  <2>11. QED
    BY <2>10, LocalStep
<1>2. CASE Nullifier(s) \in nullifiers
  <2>1. Step(s, Fail(s)) /\ nullifiers' = nullifiers
        /\ UNCHANGED <<commitments, stored, value, known, granted, calls, stops, ghosts>>
    BY <1>2 DEF MarkNullifier
  <2>2. call[s].met \/ ~Once(call[s].notes) \/ torn[Current(s)] > 0
    BY <1>0, <1>2, FoundInTree DEF Nullifier, NotesInv, MetInv, Busy, NullifiersInv
  <2>3. QED
    BY <1>0, <2>1, <2>2, FailStep DEF store
<1>3. QED
  BY <1>1, <1>2

LEMMA SpendFailsStep ==
  ASSUME NotesInv, NEW s \in Spenders, SpendCreditCommitment(s), Current(s) \notin commitments
  PROVE  NotesInv'
BY FoundInTree, FailStep DEF SpendCreditCommitment

\* A note that is taken out of the store is out of the tree.
LEMMA DeleteMoreStep ==
  ASSUME NotesInv, NEW s \in Spenders, DeleteCreditCommitment(s), call[s].i < Len(call[s].notes)
  PROVE  NotesInv'
<1>1. PICK rec : rec = [call[s] EXCEPT !.pc = "proof", !.i = @ + 1]
  OBVIOUS
<1>2. call[s].pc = "delete"
  BY DEF DeleteCreditCommitment
<1>3. PICK i, m : /\ i = call[s].i /\ m = Len(call[s].notes) /\ m \in Nat /\ i \in 1..m /\ i < m
                  /\ DOMAIN call[s].notes = 1..m
  BY <1>2, CallFacts
<1>4. /\ rec \in Call /\ rec.pc = "proof" /\ rec.i = i + 1
      /\ rec.notes = call[s].notes /\ rec.change = call[s].change /\ rec.met = call[s].met
      /\ rec.secret = call[s].secret /\ rec.amount = call[s].amount
  <2>1. call[s].i + 1 = i + 1 /\ i + 1 \in Nat
    BY <1>3
  <2>2. rec = [call[s] EXCEPT !.pc = "proof", !.i = i + 1]
    BY <1>1, <2>1
  <2>3. QED
    BY <2>1, <2>2, CallFacts DEF Call, PCs
<1>5. TakenBy(rec) = i /\ TakenBy(call[s]) = i
  BY <1>2, <1>3, <1>4 DEF TakenBy
<1>6. Goes(rec, call[s])
  BY <1>3, <1>4 DEF Goes
<1>7. Keeps(rec) => Keeps(call[s])
  BY <1>2, <1>4 DEF Keeps
<1>8. ~Rolls(rec)
  BY <1>4 DEF Rolls
<1>9. Current(s) \notin commitments BY <1>3, <1>5 DEF Own, Current, NotesInv, OwnInv
<1>10. /\ Step(s, rec) /\ stored' = stored \ {Current(s)}
       /\ UNCHANGED <<commitments, nullifiers, value, known, granted, calls, stops, ghosts>>
  BY <1>1 DEF DeleteCreditCommitment
<1>11. nullifiers \subseteq Secrets \X known
  BY DEF NotesInv, NotesTypes
<1>12. Local(s, rec)
  BY <1>2, <1>3, <1>4, <1>5, <1>6, <1>7, <1>8, <1>9, <1>10, <1>11 DEF Local, Looks, Fails
<1>13. QED
  BY <1>12, LocalStep

\* rollbackChangeNotes: the change note that nobody was given.
LEMMA RollbackTreeStep ==
  ASSUME NotesInv, NEW s \in Spenders, RollbackTree(s)
  PROVE  NotesInv'
<1>1. PICK rec : rec = [call[s] EXCEPT !.pc = "undo store"]
  OBVIOUS
<1>2. call[s].pc = "undo" /\ call[s].change # 0
  BY DEF RollbackTree, NotesInv, CallsInv
<1>3. /\ rec \in Call /\ rec.pc = "undo store" /\ rec.i = call[s].i
      /\ rec.notes = call[s].notes /\ rec.change = call[s].change /\ rec.met = call[s].met
      /\ rec.secret = call[s].secret /\ rec.amount = call[s].amount
  BY <1>1, CallFacts DEF Call, PCs
<1>4. TakenBy(rec) = 0 /\ TakenBy(call[s]) = 0
  BY <1>2, <1>3 DEF TakenBy
<1>5. Goes(rec, call[s])
  BY <1>2, <1>3 DEF Goes, NotesInv, CallsInv
<1>6. Keeps(call[s]) /\ ~Keeps(rec)
  BY <1>2, <1>3 DEF Keeps
<1>7. /\ Step(s, rec) /\ commitments' = commitments \ {call[s].change}
      /\ UNCHANGED <<stored, nullifiers, value, known, granted, calls, stops, ghosts>>
  BY <1>1 DEF RollbackTree, store
<1>8. nullifiers \subseteq Secrets \X known
  BY DEF NotesInv, NotesTypes
<1>9. Local(s, rec)
  BY <1>2, <1>3, <1>4, <1>5, <1>6, <1>7, <1>8 DEF Local, Looks, Fails
<1>10. QED
  BY <1>9, LocalStep

LEMMA RollbackStoreStep ==
  ASSUME NotesInv, NEW s \in Spenders, RollbackStore(s)
  PROVE  NotesInv'
<1>1. PICK rec : rec = [call[s] EXCEPT !.pc = "refused"]
  OBVIOUS
<1>2. call[s].pc = "undo store" /\ call[s].change # 0
  BY DEF RollbackStore, NotesInv, CallsInv
<1>3. /\ rec \in Call /\ rec.pc = "refused" /\ rec.i = call[s].i
      /\ rec.notes = call[s].notes /\ rec.change = call[s].change /\ rec.met = call[s].met
      /\ rec.secret = call[s].secret /\ rec.amount = call[s].amount
  BY <1>1, CallFacts DEF Call, PCs
<1>4. TakenBy(rec) = 0 /\ TakenBy(call[s]) = 0
  BY <1>2, <1>3 DEF TakenBy
<1>5. Goes(rec, call[s])
  BY <1>2, <1>3 DEF Goes, NotesInv, CallsInv
<1>6. ~Keeps(rec) /\ ~Rolls(rec)
  BY <1>3 DEF Keeps, Rolls
<1>7. /\ Step(s, rec) /\ stored' = stored \ {call[s].change}
      /\ UNCHANGED <<commitments, nullifiers, value, known, granted, calls, stops, ghosts>>
  BY <1>1 DEF RollbackStore
<1>8. nullifiers \subseteq Secrets \X known
  BY DEF NotesInv, NotesTypes
<1>9. call[s].change \notin commitments
  BY <1>2 DEF NotesInv, ChangeInv, Rolls
<1>10. Local(s, rec)
  BY <1>2, <1>3, <1>4, <1>5, <1>6, <1>7, <1>8, <1>9 DEF Local, Looks, Fails
<1>11. QED
  BY <1>10, LocalStep

LEMMA ReturnStep ==
  ASSUME NotesInv, NEW s \in Spenders, Return(s)
  PROVE  NotesInv'
<1>1. /\ Idle \in Call /\ Idle.pc = "idle" /\ TakenBy(Idle) = 0 /\ ~Keeps(Idle) /\ ~Rolls(Idle)
  BY DEF Idle, Call, PCs, TakenBy, Keeps, Rolls
<1>2. call[s].pc \in {"spent", "refused"} /\ Step(s, Idle)
      /\ UNCHANGED <<commitments, stored, nullifiers, value, known, granted, calls, stops, ghosts>>
  BY DEF Return, store
<1>3. TakenBy(call[s]) = 0
  BY <1>2 DEF TakenBy
<1>4. nullifiers \subseteq Secrets \X known
  BY DEF NotesInv, NotesTypes
<1>5. Local(s, Idle)
  BY <1>1, <1>2, <1>3, <1>4 DEF Local, Looks, Fails
<1>6. QED
  BY <1>5, LocalStep

\* A note goes from the tree to its caller.
LEMMA SpendCreditCommitmentStep ==
  ASSUME NotesInv, NEW s \in Spenders, SpendCreditCommitment(s), Current(s) \in commitments
  PROVE  NotesInv'
<1>1. PICK rec : rec = [call[s] EXCEPT !.pc = "delete"]
  OBVIOUS
<1>2. call[s].pc = "remove"
  BY DEF SpendCreditCommitment
<1>3. /\ rec \in Call /\ rec.pc = "delete" /\ rec.i = call[s].i
      /\ rec.notes = call[s].notes /\ rec.change = call[s].change /\ rec.met = call[s].met
      /\ rec.secret = call[s].secret /\ rec.amount = call[s].amount
  BY <1>1, CallFacts DEF Call, PCs
<1>4. /\ commitments' = commitments \ {Current(s)}
      /\ UNCHANGED <<stored, nullifiers, value, known, granted, calls, stops, paid, uses, torn>>
  BY DEF SpendCreditCommitment, store, ghosts
<1>5. /\ call' \in [Spenders -> Call] /\ call'[s] = rec
      /\ \A t \in Spenders : t # s => call'[t] = call[t]
  BY <1>1, <1>3 DEF SpendCreditCommitment, Step, NotesInv, NotesTypes
<1>6. PICK i, m : /\ i = call[s].i /\ m = Len(call[s].notes) /\ m \in Nat /\ i \in 1..m
                  /\ DOMAIN call[s].notes = 1..m
  BY <1>2, CallFacts
<1>7. TakenBy(rec) = i /\ TakenBy(call[s]) = i - 1
  BY <1>2, <1>3, <1>6 DEF TakenBy
<1>8. PICK c : c = Current(s) /\ c = call[s].notes[i] /\ c \in known /\ c \in commitments
  BY <1>2, <1>6, CallFacts DEF Current
<1>9. /\ Own(s)' = Own(s) \cup {c}
      /\ \A t \in Spenders : t # s => Own(t)' = Own(t)
  <2>1. Own(s)' = {call[s].notes[j] : j \in 1..i}
    BY <1>3, <1>5, <1>7 DEF Own
  <2>2. Own(s) = {call[s].notes[j] : j \in 1..(i - 1)}
    BY <1>7 DEF Own
  <2>3. 1..i = 1..(i - 1) \cup {i}
    BY <1>6
  <2>4. QED
    BY <1>5, <1>8, <2>1, <2>2, <2>3 DEF Own
<1>10. \A t \in Spenders : Own(t) \cap commitments = {}
  BY DEF NotesInv, OwnInv
<1>11. NotesTypes'
  BY <1>4, <1>5 DEF NotesInv, NotesTypes
<1>12. CallsInv'
  <2>1. SUFFICES ASSUME NEW t \in Spenders, call'[t].pc # "idle"
                 PROVE  /\ call'[t].notes \in Seq(known) /\ call'[t].i \in DOMAIN call'[t].notes
                        /\ call'[t].secret \in Secrets
                        /\ call'[t].change \in {0} \cup DOMAIN value
                        /\ call'[t].pc \in {"store change", "undo", "undo store"} => call'[t].change # 0
                        /\ call'[t].amount + ChangeOf(call'[t]) = TotalInput(call'[t].notes)
    BY <1>4 DEF CallsInv, ChangeOf, TotalInput
  <2>2. CASE t = s
    BY <1>2, <1>3, <1>5, <2>2 DEF NotesInv, CallsInv, ChangeOf
  <2>3. CASE t # s
    BY <1>5, <2>1, <2>3 DEF NotesInv, CallsInv
  <2>4. QED
    BY <2>2, <2>3
<1>13. OwnInv'
  <2>1. \A t \in Spenders : Own(t)' \cap commitments' = {}
    BY <1>4, <1>8, <1>9, <1>10
  <2>2. \A j, k \in 1..i : call[s].notes[j] = call[s].notes[k] => j = k
    BY <1>6, <1>7, <1>8, <1>10 DEF Own, NotesInv, OwnInv
  <2>3. \A t \in Spenders : \A j, k \in 1..TakenBy(call'[t]) : call'[t].notes[j] = call'[t].notes[k] => j = k
    <3>1. SUFFICES ASSUME NEW t \in Spenders
                   PROVE  \A j, k \in 1..TakenBy(call'[t]) : call'[t].notes[j] = call'[t].notes[k] => j = k
      OBVIOUS
    <3>2. CASE t = s
      BY <1>3, <1>5, <1>7, <2>2, <3>2
    <3>3. CASE t # s BY <1>5, <3>3 DEF NotesInv, OwnInv
    <3>4. QED
      BY <3>2, <3>3
  <2>4. \A t, u \in Spenders : t # u => Own(t)' \cap Own(u)' = {} BY <1>8, <1>9, <1>10 DEF NotesInv, OwnInv
  <2>5. QED
    BY <2>1, <2>3, <2>4 DEF OwnInv
<1>14. ChangeInv'
  <2>1. /\ (Keeps(rec) => Keeps(call[s])) /\ ~Rolls(rec)
    BY <1>2, <1>3 DEF Keeps, Rolls
  <2>2. \A t \in Spenders : /\ call'[t].change = call[t].change
                            /\ Keeps(call'[t]) => Keeps(call[t])
                            /\ Rolls(call'[t]) => Rolls(call[t])
    BY <1>3, <1>5, <2>1
  <2>3. QED
    BY <1>4, <1>8, <2>2 DEF NotesInv, ChangeInv
<1>15. TreeStored'
  <2>1. \A t \in Spenders : call[t].pc \in {"store change", "undo store", "delete"} => call'[t] = call[t]
    BY <1>2, <1>5
  <2>2. commitments' \ stored' \subseteq
          {call'[t].change : t \in {u \in Spenders : call'[u].pc = "store change"}}
    <3>1. SUFFICES ASSUME NEW n \in commitments' \ stored'
                   PROVE  n \in {call'[t].change : t \in {u \in Spenders : call'[u].pc = "store change"}}
      OBVIOUS
    <3>2. n \in commitments \ stored
      BY <1>4, <3>1
    <3>3. n \in {call[t].change : t \in {u \in Spenders : call[u].pc = "store change"}}
      BY <3>2 DEF NotesInv, TreeStored
    <3>4. QED
      BY <2>1, <3>3
  <2>3. \A n \in DOMAIN value : Deleting(n) # {} => Deleting(n)' # {}
    BY <2>1 DEF Deleting, Current
  <2>4. Deleting(c)' # {}
    BY <1>3, <1>5, <1>6, <1>8 DEF Deleting, Current
  <2>5. c \in DOMAIN value
    BY <1>8, ValueTypes
  <2>6. stored' \ commitments' \subseteq
          {call'[t].change : t \in {u \in Spenders : call'[u].pc = "undo store"}}
            \cup {n \in DOMAIN value' : Deleting(n)' # {}}
    <3>1. SUFFICES ASSUME NEW n \in stored' \ commitments', n # c
                   PROVE  n \in {call'[t].change : t \in {u \in Spenders : call'[u].pc = "undo store"}}
                                  \cup {k \in DOMAIN value : Deleting(k)' # {}}
      BY <1>4, <2>4, <2>5
    <3>2. n \in stored \ commitments
      BY <1>4, <1>8, <3>1
    <3>3. n \in {call[t].change : t \in {u \in Spenders : call[u].pc = "undo store"}}
                 \cup {k \in DOMAIN value : Deleting(k) # {}}
      BY <3>2 DEF NotesInv, TreeStored
    <3>4. QED
      BY <2>1, <2>3, <3>3
  <2>7. QED
    BY <2>2, <2>6 DEF TreeStored
<1>16. Owned' = Owned \cup {c}
  BY <1>9 DEF Owned
<1>17. MoneyInv' BY <1>4, <1>8, <1>16, MoneyShrinks DEF Live
<1>18. UsesInv'
  BY <1>4, <1>8, <1>16 DEF NotesInv, UsesInv
<1>19. Busy' = Busy /\ \A t \in Busy : call'[t].met = call[t].met
  BY <1>2, <1>3, <1>5 DEF Busy
<1>20. \A t \in Busy : t # s => call[t].met
  BY <1>2 DEF NotesInv, MetInv, Busy
<1>21. MetInv'
  <2>1. calls' # 0 BY <1>2, <1>4 DEF Busy, NotesInv, MetInv
  <2>2. QED
    BY <1>3, <1>4, <1>5, <1>19, <1>20, <2>1 DEF NotesInv, MetInv
<1>22. FindsInv'
  <2>1. SUFFICES ASSUME ~call[s].met, Once(call[s].notes), NEW j \in 1..m, j > i
                 PROVE  call[s].notes[j] \in commitments'
    BY <1>3, <1>5, <1>6, <1>7, <1>19, <1>20 DEF FindsInv
  <2>2. s \in Busy /\ call[s].pc \in Looks
    BY <1>2 DEF Busy, Looks
  <2>3. j > TakenBy(call[s])
    BY <1>6, <1>7, <2>1
  <2>4. call[s].notes[j] \in commitments
    BY <1>6, <2>1, <2>2, <2>3 DEF NotesInv, FindsInv
  <2>5. call[s].notes[j] # call[s].notes[i]
    BY <1>6, <2>1 DEF Once
  <2>6. QED
    BY <1>4, <1>8, <2>4, <2>5
<1>23. NullifiersInv' BY <1>4, <1>5 DEF NullifiersInv, NotesInv, Current
<1>24. LossInv'
  BY <1>3, <1>4, <1>5 DEF NotesInv, LossInv, Current, Fails
<1>25. QED
  BY <1>11, <1>12, <1>13, <1>14, <1>15, <1>17, <1>18, <1>21, <1>22, <1>23, <1>24 DEF NotesInv

LEMMA SeqGrows ==
  ASSUME NEW S, NEW T, S \subseteq T
  PROVE  Seq(S) \subseteq Seq(T)
BY LenProperties, ElementOfSeq

\* A note that a call names once, or not at all.
LEMMA TimesOnce ==
  ASSUME NEW notes, Once(notes), NEW n
  PROVE  Times(n, notes) = IF \E j \in DOMAIN notes : notes[j] = n THEN 1 ELSE 0
<1>1. CASE \E j \in DOMAIN notes : notes[j] = n BY <1>1, FS_Singleton DEF Once, Times
<1>2. CASE ~\E j \in DOMAIN notes : notes[j] = n BY <1>2, FS_EmptySet DEF Times
<1>3. QED
  BY <1>1, <1>2

\* The notes of a call that ends are worth what it paid and its change.
LEMMA OwnPays ==
  ASSUME NotesInv, NEW s \in Spenders, call[s].pc = "delete", ~(call[s].i < Len(call[s].notes))
  PROVE  /\ Once(call[s].notes)
         /\ Own(s) = {call[s].notes[j] : j \in DOMAIN call[s].notes}
         /\ Current(s) \in Own(s)
         /\ call[s].amount + ChangeOf(call[s]) <= SumFunctionOnSet(value, Own(s))
<1>1. PICK i, m, e : /\ e = call[s].notes
                     /\ i = call[s].i /\ m = Len(call[s].notes) /\ m \in Nat /\ i \in 1..m
                     /\ DOMAIN e = 1..m
  BY CallFacts
<1>2. TakenBy(call[s]) = i /\ i = m
  BY <1>1 DEF TakenBy
<1>3. Own(s) = {e[j] : j \in 1..m}
  BY <1>1, <1>2 DEF Own
<1>4. \A j, k \in 1..m : e[j] = e[k] => j = k
  BY <1>1, <1>2 DEF NotesInv, OwnInv
<1>5. \A j \in 1..m : e[j] \in known
  BY <1>1, CallFacts
<1>6. \A j \in 1..m : value[e[j]] \in Nat
  BY <1>5, ValueTypes
<1>. DEFINE g == [j \in 1..m |-> value[e[j]]]
<1>7. IsFiniteSet(1..m)
  <2>1. 1 \in Int /\ m \in Int
    BY <1>1
  <2>2. QED
    BY <2>1, FS_Interval, Zenon
<1>8. SumFunctionOnSet(value, {e[j] : j \in 1..m}) = SumFunctionOnSet(g, 1..m)
  <2>1. \A j \in 1..m : value[e[j]] \in Int
    BY <1>6
  <2>2. QED
    BY <1>4, <1>7, <2>1, SumImage
<1>9. SumFunctionOnSet(g, 1..m) \in Nat BY <1>6, <1>7, SumNat
<1>10. TotalInput(e) = SumFunctionOnSet(g, 1..m) % W BY <1>1 DEF TotalInput, SumFunction
<1>11. PICK t : t = SumFunctionOnSet(g, 1..m)
  OBVIOUS
<1>12. t \in Nat /\ W \in Nat /\ W # 0
  BY <1>9, <1>11, GenesisFacts
<1>13. t % W <= t
  BY <1>12
<1>14. call[s].amount + ChangeOf(call[s]) = t % W
  BY <1>1, <1>10, <1>11 DEF NotesInv, CallsInv
<1>15. SumFunctionOnSet(value, Own(s)) = t
  BY <1>3, <1>8, <1>11
<1>16. Current(s) \in Own(s)
  BY <1>1, <1>3 DEF Current
<1>17. Once(call[s].notes) /\ Own(s) = {call[s].notes[j] : j \in DOMAIN call[s].notes}
  BY <1>1, <1>3, <1>4 DEF Once
<1>18. QED
  BY <1>13, <1>14, <1>15, <1>16, <1>17

\* The last note of a call: it is paid, and its change note is handed out.
LEMMA DeleteLastStep ==
  ASSUME NotesInv, NEW s \in Spenders, DeleteCreditCommitment(s), ~(call[s].i < Len(call[s].notes))
  PROVE  NotesInv'
<1>1. PICK rec : rec = [call[s] EXCEPT !.pc = "spent"]
  OBVIOUS
<1>2. call[s].pc = "delete"
  BY DEF DeleteCreditCommitment
<1>3. /\ rec \in Call /\ rec.pc = "spent" /\ rec.i = call[s].i
      /\ rec.notes = call[s].notes /\ rec.change = call[s].change /\ rec.met = call[s].met
      /\ rec.secret = call[s].secret /\ rec.amount = call[s].amount
  BY <1>1, CallFacts DEF Call, PCs
<1>. DEFINE C == IF call[s].change = 0 THEN {} ELSE {call[s].change}
<1>4. /\ stored' = stored \ {Current(s)}
      /\ known' = known \cup C
      /\ paid' = paid + call[s].amount
      /\ uses' = [n \in DOMAIN uses |-> uses[n] + Times(n, call[s].notes)]
      /\ UNCHANGED <<commitments, nullifiers, value, granted, calls, stops, torn>>
  BY DEF DeleteCreditCommitment
<1>5. /\ call' \in [Spenders -> Call] /\ call'[s] = rec
      /\ \A t \in Spenders : t # s => call'[t] = call[t]
  BY <1>1, <1>3 DEF DeleteCreditCommitment, Step, NotesInv, NotesTypes
<1>6. /\ TakenBy(rec) = 0 /\ ~Keeps(rec) /\ ~Rolls(rec)
  BY <1>3 DEF TakenBy, Keeps, Rolls
<1>7. /\ Once(call[s].notes) /\ Current(s) \in Own(s)
      /\ Own(s) = {call[s].notes[j] : j \in DOMAIN call[s].notes}
      /\ call[s].amount + ChangeOf(call[s]) <= SumFunctionOnSet(value, Own(s))
  BY <1>2, OwnPays
<1>8. \A n : Times(n, call[s].notes) = IF n \in Own(s) THEN 1 ELSE 0
  BY <1>7, TimesOnce
<1>9. /\ Own(s)' = {}
      /\ \A t \in Spenders : t # s => Own(t)' = Own(t) BY <1>5, <1>6 DEF Own
<1>10. /\ \A t \in Spenders : Own(t) \cap commitments = {}
       /\ \A t, u \in Spenders : t # u => Own(t) \cap Own(u) = {}
  BY DEF NotesInv, OwnInv
<1>11. C \subseteq commitments /\ C \cap known = {} /\ C \subseteq DOMAIN value
  BY <1>2 DEF Keeps, NotesInv, ChangeInv, NotesTypes
<1>12. call[s].amount \in Nat /\ paid \in Nat
  BY CallFacts DEF NotesInv, NotesTypes
<1>13. NotesTypes'
  <2>1. uses' \in [DOMAIN value -> Nat]
    <3>1. uses \in [DOMAIN value -> Nat]
      BY DEF NotesInv, NotesTypes
    <3>2. \A n \in DOMAIN value : uses[n] + Times(n, call[s].notes) \in Nat BY <1>8, <3>1
    <3>3. QED
      BY <1>4, <3>1, <3>2
  <2>2. paid' \in Nat
    BY <1>4, <1>12
  <2>3. QED
    BY <1>4, <1>5, <1>11, <2>1, <2>2 DEF NotesInv, NotesTypes
<1>14. CallsInv'
  <2>0. Seq(known) \subseteq Seq(known')
    BY <1>4, SeqGrows
  <2>1. SUFFICES ASSUME NEW t \in Spenders, call'[t].pc # "idle"
                 PROVE  /\ call'[t].notes \in Seq(known) /\ call'[t].i \in DOMAIN call'[t].notes
                        /\ call'[t].secret \in Secrets
                        /\ call'[t].change \in {0} \cup DOMAIN value
                        /\ call'[t].pc \in {"store change", "undo", "undo store"} => call'[t].change # 0
                        /\ call'[t].amount + ChangeOf(call'[t]) = TotalInput(call'[t].notes)
    BY <1>4, <2>0 DEF CallsInv, ChangeOf, TotalInput
  <2>2. CASE t = s
    BY <1>2, <1>3, <1>5, <2>2 DEF NotesInv, CallsInv, ChangeOf
  <2>3. CASE t # s
    BY <1>5, <2>1, <2>3 DEF NotesInv, CallsInv
  <2>4. QED
    BY <2>2, <2>3
<1>15. OwnInv'
  <2>1. \A t \in Spenders : Own(t)' \cap commitments' = {}
    BY <1>4, <1>9, <1>10
  <2>2. \A t \in Spenders : \A j, k \in 1..TakenBy(call'[t]) : call'[t].notes[j] = call'[t].notes[k] => j = k
    <3>1. SUFFICES ASSUME NEW t \in Spenders
                   PROVE  \A j, k \in 1..TakenBy(call'[t]) : call'[t].notes[j] = call'[t].notes[k] => j = k
      OBVIOUS
    <3>2. CASE t = s BY <1>5, <1>6, <3>2
    <3>3. CASE t # s BY <1>5, <3>3 DEF NotesInv, OwnInv
    <3>4. QED
      BY <3>2, <3>3
  <2>3. \A t, u \in Spenders : t # u => Own(t)' \cap Own(u)' = {}
    BY <1>9, <1>10
  <2>4. QED
    BY <2>1, <2>2, <2>3 DEF OwnInv
<1>16. ChangeInv'
  <2>1. \A t \in Spenders : Keeps(call'[t]) \/ Rolls(call'[t]) =>
          t # s /\ call'[t] = call[t]
    BY <1>5, <1>6
  <2>2. \A t \in Spenders : Keeps(call'[t]) \/ Rolls(call'[t]) => call[t].change \notin C
    BY <1>2, <2>1 DEF Keeps, NotesInv, ChangeInv
  <2>3. \A t \in Spenders : /\ Keeps(call'[t]) => call'[t].change \in commitments' \ known'
                            /\ Rolls(call'[t]) => call'[t].change \notin commitments' \cup known'
    BY <1>4, <2>1, <2>2 DEF NotesInv, ChangeInv
  <2>4. \A t, u \in Spenders :
          t # u /\ (Keeps(call'[t]) \/ Rolls(call'[t])) /\ (Keeps(call'[u]) \/ Rolls(call'[u]))
            => call'[t].change # call'[u].change
    BY <2>1 DEF NotesInv, ChangeInv
  <2>5. QED
    BY <2>3, <2>4 DEF ChangeInv
<1>17. TreeStored'
  <2>1. \A t \in Spenders : call[t].pc \in {"store change", "undo store"} => call'[t] = call[t]
    BY <1>2, <1>5
  <2>2. Current(s) \notin commitments
    BY <1>7, <1>10
  <2>3. commitments' \ stored' \subseteq
          {call'[t].change : t \in {u \in Spenders : call'[u].pc = "store change"}}
    <3>1. SUFFICES ASSUME NEW n \in commitments' \ stored'
                   PROVE  n \in {call'[t].change : t \in {u \in Spenders : call'[u].pc = "store change"}}
      OBVIOUS
    <3>2. n \in commitments \ stored
      BY <1>4, <2>2, <3>1
    <3>3. n \in {call[t].change : t \in {u \in Spenders : call[u].pc = "store change"}}
      BY <3>2 DEF NotesInv, TreeStored
    <3>4. QED
      BY <2>1, <3>3
  <2>4. stored' \ commitments' \subseteq
          {call'[t].change : t \in {u \in Spenders : call'[u].pc = "undo store"}}
            \cup {n \in DOMAIN value' : Deleting(n)' # {}}
    <3>1. SUFFICES ASSUME NEW n \in stored' \ commitments'
                   PROVE  n \in {call'[t].change : t \in {u \in Spenders : call'[u].pc = "undo store"}}
                                  \cup {k \in DOMAIN value : Deleting(k)' # {}}
      BY <1>4
    <3>2. n \in stored \ commitments /\ n # Current(s)
      BY <1>4, <3>1
    <3>3. n \in {call[t].change : t \in {u \in Spenders : call[u].pc = "undo store"}}
                 \cup {k \in DOMAIN value : Deleting(k) # {}}
      BY <3>2 DEF NotesInv, TreeStored
    <3>4. Deleting(n) # {} => Deleting(n)' # {}
      BY <1>5, <3>2 DEF Deleting, Current
    <3>5. QED
      BY <2>1, <3>3, <3>4
  <2>5. QED
    BY <2>3, <2>4 DEF TreeStored
<1>. DEFINE Rest == Live \ Own(s)
<1>18. Live = Rest \cup Own(s) /\ Rest \cap Own(s) = {}
  BY DEF Live, Owned
<1>19. Live' = Rest \cup C /\ Rest \cap C = {} BY <1>4, <1>9, <1>10, <1>11, ValueTypes DEF Owned, Live
<1>20. MoneyInv'
  <2>1. IsFiniteSet(Rest) /\ IsFiniteSet(Own(s)) /\ IsFiniteSet(C)
    BY <1>11, <1>18, ValueTypes, FS_Subset
  <2>2. \A n \in Rest \cup Own(s) \cup C : value[n] \in Int /\ value[n] \in Nat
    BY <1>11, <1>18, ValueTypes
  <2>3. SumFunctionOnSet(value, Rest \cup Own(s)) = SumFunctionOnSet(value, Rest) + SumFunctionOnSet(value, Own(s))
    BY <1>18, <2>1, <2>2, SumUnion
  <2>4. SumFunctionOnSet(value, Rest \cup C) = SumFunctionOnSet(value, Rest) + SumFunctionOnSet(value, C)
    BY <1>19, <2>1, <2>2, SumUnion
  <2>5. SumFunctionOnSet(value, C) = ChangeOf(call[s])
    <3>1. CASE call[s].change = 0
      BY <3>1, SumEmpty DEF ChangeOf
    <3>2. CASE call[s].change # 0 BY <2>2, <3>2, SumOne DEF ChangeOf
    <3>3. QED
      BY <3>1, <3>2
  <2>6. SumFunctionOnSet(value, Rest) \in Nat /\ SumFunctionOnSet(value, Own(s)) \in Nat
        /\ SumFunctionOnSet(value, C) \in Nat
    BY <2>1, <2>2, SumNat
  <2>7. PICK p, a, r, o, c, g :
          /\ p = paid /\ a = call[s].amount /\ r = SumFunctionOnSet(value, Rest)
          /\ o = SumFunctionOnSet(value, Own(s)) /\ c = SumFunctionOnSet(value, C)
          /\ g = SumFunctionOnSet(Genesis, 1..granted)
    OBVIOUS
  <2>8. SumFunctionOnSet(value, Live) = r + o /\ SumFunctionOnSet(value', Live') = r + c
    <3>1. SumFunctionOnSet(value, Live) = SumFunctionOnSet(value, Rest \cup Own(s))
      BY <1>18, Zenon
    <3>2. SumFunctionOnSet(value', Live') = SumFunctionOnSet(value, Rest \cup C)
      <4>1. value' = value
        BY <1>4
      <4>2. QED
        BY <1>19, <4>1, Zenon
    <3>3. QED
      BY <2>3, <2>4, <2>7, <3>1, <3>2
  <2>9. p \in Nat /\ a \in Nat /\ r \in Nat /\ o \in Nat /\ c \in Nat /\ g \in Nat
    BY <1>12, <2>6, <2>7, ValueTypes
  <2>10. p + (r + o) <= g
    BY <2>7, <2>8 DEF NotesInv, MoneyInv
  <2>11. a + c <= o
    BY <1>7, <2>5, <2>7
  <2>12. (p + a) + (r + c) <= g
    BY <2>9, <2>10, <2>11
  <2>13. paid' = p + a /\ SumFunctionOnSet(Genesis, 1..granted') = g
    BY <1>4, <2>7
  <2>14. QED
    BY <2>8, <2>12, <2>13 DEF MoneyInv
<1>21. \A n \in Own(s) : n \notin stored'
  <2>1. SUFFICES ASSUME NEW n \in Own(s), n \in stored, n # Current(s) PROVE FALSE
    BY <1>4
  <2>2. n \in stored \ commitments /\ n \in known
    BY <1>10, <2>1, OwnKnown
  <2>3. n \in {call[t].change : t \in {u \in Spenders : call[u].pc = "undo store"}}
                 \cup {k \in DOMAIN value : Deleting(k) # {}}
    BY <2>2 DEF NotesInv, TreeStored
  <2>4. CASE n \in {call[t].change : t \in {u \in Spenders : call[u].pc = "undo store"}}
    BY <2>2, <2>4 DEF Rolls, NotesInv, CallsInv, ChangeInv
  <2>5. CASE Deleting(n) # {}
    <3>1. PICK t \in Spenders : call[t].pc = "delete" /\ Current(t) = n
      BY <2>5 DEF Deleting
    <3>2. n \in Own(t)
      <4>1. PICK i, m : i = call[t].i /\ m = Len(call[t].notes) /\ m \in Nat /\ i \in 1..m
        BY <3>1, CallFacts
      <4>2. TakenBy(call[t]) = i /\ i \in 1..i
        BY <3>1, <4>1 DEF TakenBy
      <4>3. QED
        BY <3>1, <4>1, <4>2 DEF Own, Current
    <3>3. QED
      BY <1>10, <2>1, <3>1, <3>2
  <2>6. QED
    BY <2>3, <2>4, <2>5
<1>22. Owned' = Owned \ Own(s)
  BY <1>9, <1>10 DEF Owned
<1>23. UsesInv'
  <2>1. SUFFICES ASSUME NEW n \in DOMAIN value, uses'[n] # 0
                 PROVE  uses'[n] = 1 /\ n \in known' /\ n \notin commitments' \cup stored' \cup Owned'
    BY <1>4 DEF UsesInv
  <2>2. uses'[n] = uses[n] + Times(n, call[s].notes) /\ uses[n] \in Nat
    BY <1>4 DEF NotesInv, NotesTypes
  <2>3. CASE n \in Own(s) BY <1>4, <1>8, <1>10, <1>21, <1>22, <2>2, <2>3, OwnKnown DEF NotesInv, UsesInv, Owned
  <2>4. CASE n \notin Own(s) BY <1>4, <1>8, <1>22, <2>1, <2>2, <2>4 DEF NotesInv, UsesInv
  <2>5. QED
    BY <2>3, <2>4
<1>24. Busy' = Busy /\ \A t \in Busy : call'[t].met = call[t].met
  BY <1>2, <1>3, <1>5 DEF Busy
<1>30. \A t \in Busy : t # s => call[t].met
  BY <1>2 DEF NotesInv, MetInv, Busy
<1>25. MetInv'
  <2>1. \A t, u \in Busy : t # u => call'[t].met /\ call'[u].met
    BY <1>24 DEF NotesInv, MetInv
  <2>2. \A t \in Busy : call'[t].pc = "root" => call'[t].met
    BY <1>3, <1>5, <1>24, <1>30
  <2>3. calls' # 0 BY <1>2, <1>4 DEF Busy, NotesInv, MetInv
  <2>4. QED
    BY <1>24, <2>1, <2>2, <2>3 DEF MetInv
<1>26. FindsInv' BY <1>3, <1>5, <1>24, <1>30 DEF Looks, FindsInv
<1>27. NullifiersInv' BY <1>2, <1>4, <1>5 DEF NullifiersInv, NotesInv, Current
<1>28. LossInv'
  BY <1>3, <1>4, <1>5 DEF NotesInv, LossInv, Current, Fails
<1>29. QED
  BY <1>13, <1>14, <1>15, <1>16, <1>17, <1>20, <1>23, <1>25, <1>26, <1>27, <1>28 DEF NotesInv

\* New notes are made, and enter the tree.
Grows(N) ==
  /\ value' \in Seq(1..(W - 1)) /\ DOMAIN value' = DOMAIN value \cup N /\ N \cap DOMAIN value = {}
  /\ commitments' = commitments \cup N
  /\ \A n \in DOMAIN value : value'[n] = value[n]

\* What the notes that were there are worth stays.
LEMMA GrowsFacts ==
  ASSUME NotesInv, NEW N, Grows(N)
  PROVE  /\ \A n \in known : value'[n] = value[n]
         /\ \A notes \in Seq(known) :
              SumFunction([j \in DOMAIN notes |-> value'[notes[j]]]) % W = TotalInput(notes)
         /\ \A c : c.change \in {0} \cup DOMAIN value =>
              (IF c.change = 0 THEN 0 ELSE value'[c.change]) = ChangeOf(c)
         /\ SumFunctionOnSet(value', Live) = SumFunctionOnSet(value, Live)
<1>1. \A n \in DOMAIN value : value'[n] = value[n]
  BY DEF Grows
<1>2. known \subseteq DOMAIN value
  BY ValueTypes
<1>3. ASSUME NEW notes \in Seq(known)
      PROVE  SumFunction([j \in DOMAIN notes |-> value'[notes[j]]]) % W = TotalInput(notes)
  <2>1. \A j \in DOMAIN notes : notes[j] \in known
    BY LenProperties, ElementOfSeq
  <2>2. [j \in DOMAIN notes |-> value'[notes[j]]] = [j \in DOMAIN notes |-> value[notes[j]]]
    BY <1>1, <1>2, <2>1
  <2>3. QED
    BY <2>2, Zenon DEF TotalInput
<1>4. SumFunctionOnSet(value', Live) = SumFunctionOnSet(value, Live) BY <1>1, ValueTypes, SumSame
<1>5. \A c : c.change \in {0} \cup DOMAIN value =>
              (IF c.change = 0 THEN 0 ELSE value'[c.change]) = ChangeOf(c)
  BY <1>1 DEF ChangeOf
<1>6. QED
  BY <1>1, <1>2, <1>3, <1>4, <1>5

\* How a call begins: what it makes, and where it stands.
Begins(s, rec, N) ==
  /\ call[s].pc = "idle" /\ Begin(s, rec) /\ Grows(N)
  /\ rec \in Call /\ rec.notes \in Seq(known) /\ 1 \in DOMAIN rec.notes /\ rec.i = 1
  /\ rec.secret \in Secrets
  /\ \/ N = {} /\ rec.change = 0 /\ rec.pc = "proof"
        /\ rec.amount = TotalInput(rec.notes)
     \/ N = {rec.change} /\ rec.change # 0 /\ rec.pc = "store change"
        /\ rec.amount + value'[rec.change] = TotalInput(rec.notes)
  /\ calls' = calls + 1
  /\ UNCHANGED <<stored, nullifiers, known, granted, stops, paid>>
  /\ \A n \in DOMAIN value : uses'[n] = uses[n] /\ torn'[n] = torn[n]
  /\ uses' \in [DOMAIN value' -> Nat] /\ torn' \in [DOMAIN value' -> Nat]
  /\ \A n \in N : uses'[n] = 0

LEMMA AppendZero ==
  ASSUME NEW len \in Nat, NEW f \in [1..len -> Nat]
  PROVE  /\ Append(f, 0) \in [1..(len + 1) -> Nat] /\ Append(f, 0)[len + 1] = 0
         /\ \A n \in 1..len : Append(f, 0)[n] = f[n]
<1>1. f \in Seq(Nat) /\ Len(f) = len
  OBVIOUS
<1>2. Append(f, 0) \in Seq(Nat) /\ Len(Append(f, 0)) = len + 1
  BY <1>1, AppendProperties
<1>3. \A n \in 1..len : Append(f, 0)[n] = f[n]
  BY <1>1, AppendProperties
<1>4. Append(f, 0)[len + 1] = 0
  BY <1>1, AppendProperties
<1>5. PICK g : g = Append(f, 0)
  OBVIOUS
<1>6. g \in Seq(Nat) /\ Len(g) = len + 1
  BY <1>2, <1>5
<1>7. g \in [1..(len + 1) -> Nat]
  BY <1>6
<1>8. QED
  BY <1>3, <1>4, <1>5, <1>7

LEMMA SpendCreditNotesBegins ==
  ASSUME NotesInv, NEW s \in Spenders, NEW notes \in Inputs, NEW secret \in Secrets,
         NEW amount \in Amounts, SpendCreditNotes(s, notes, secret, amount)
  PROVE  \E rec, N : Begins(s, rec, N)
<1>1. PICK k \in 1..MaxInputs : notes \in [1..k -> known]
  BY DEF Inputs
<1>2. k \in Nat /\ k >= 1
  BY <1>1, NotesAssumption
<1>3. notes \in Seq(known) /\ DOMAIN notes = 1..k /\ 1 \in DOMAIN notes /\ notes \in Seq(Nat)
  BY <1>1, <1>2, ValueTypes, SeqGrows
<1>4. TotalInput(notes) \in 0..(W - 1) /\ W \in Nat /\ W # 0
  <2>. DEFINE g == [j \in DOMAIN notes |-> value[notes[j]]]
  <2>1. \A j \in 1..k : g[j] \in Nat /\ DOMAIN g = 1..k
    BY <1>1, <1>3, ValueTypes
  <2>2. IsFiniteSet(1..k)
    BY <1>2, FS_Interval
  <2>3. SumFunctionOnSet(g, 1..k) \in Nat
    BY <2>1, <2>2, SumNat
  <2>4. SumFunction(g) \in Nat BY <1>3, <2>3 DEF SumFunction
  <2>5. W \in Nat /\ W # 0
    BY GenesisFacts
  <2>6. SumFunction(g) % W \in 0..(W - 1)
    BY <2>4, <2>5
  <2>7. QED
    BY <2>5, <2>6 DEF TotalInput
<1>5. amount \in 1..(W - 1) /\ amount <= TotalInput(notes)
  BY NotesAssumption DEF SpendCreditNotes
<1>6. PICK inputs, change : /\ inputs = TotalInput(notes) /\ change = inputs - amount
                           /\ inputs \in 0..(W - 1) /\ change \in 0..(W - 1)
                           /\ amount \in Nat /\ amount + change = inputs
  <2>1. PICK inputs : inputs = TotalInput(notes)
    OBVIOUS
  <2>2. inputs - amount \in 0..(W - 1) /\ amount + (inputs - amount) = inputs /\ amount \in Nat
    BY <1>4, <1>5, <2>1
  <2>3. QED
    BY <1>4, <2>1, <2>2
<1>. DEFINE begun == [Idle EXCEPT !.notes = notes, !.secret = secret, !.amount = amount]
<1>7. PICK len : len = Len(value) /\ len \in Nat /\ DOMAIN value = 1..len /\ Fresh = len + 1
  BY ValueTypes DEF Fresh
<1>8. CASE change > 0
  <2>1. PICK rec : rec = [begun EXCEPT !.pc = "store change", !.change = Fresh]
    OBVIOUS
  <2>2. /\ rec.pc = "store change" /\ rec.change = len + 1 /\ rec.i = 1 /\ rec.notes = notes
        /\ rec.secret = secret /\ rec.amount = amount /\ rec \in Call
    <3>1. rec = [pc |-> "store change", notes |-> notes, secret |-> secret, amount |-> amount,
                 change |-> Fresh, i |-> 1, proof |-> {}, met |-> FALSE]
      BY <2>1 DEF Idle
    <3>2. Fresh \in Nat /\ Fresh = len + 1
      BY <1>7
    <3>3. QED
      BY <1>3, <1>6, <3>1, <3>2 DEF Call, PCs
  <2>3. /\ call[s].pc = "idle" /\ Begin(s, rec)
        /\ value' = Append(value, change)
        /\ uses' = Append(uses, 0) /\ torn' = Append(torn, 0)
        /\ commitments' = commitments \cup {Fresh} /\ calls' = calls + 1
        /\ UNCHANGED <<stored, nullifiers, known, granted, stops, paid>>
    BY <1>6, <1>8, <2>1 DEF SpendCreditNotes, store
  <2>4. /\ value \in Seq(1..(W - 1)) /\ uses \in [1..len -> Nat] /\ torn \in [1..len -> Nat]
    BY <1>7 DEF NotesInv, NotesTypes
  <2>5. change \in 1..(W - 1)
    BY <1>4, <1>6, <1>8
  <2>6. /\ value' \in Seq(1..(W - 1)) /\ DOMAIN value' = 1..(len + 1) /\ value'[len + 1] = change
        /\ \A n \in 1..len : value'[n] = value[n]
    BY <1>7, <2>3, <2>4, <2>5, AppendProperties
  <2>8. /\ uses' \in [1..(len + 1) -> Nat] /\ uses'[len + 1] = 0
        /\ torn' \in [1..(len + 1) -> Nat]
        /\ \A n \in 1..len : uses'[n] = uses[n] /\ torn'[n] = torn[n]
    BY <1>7, <2>3, <2>4, AppendZero
  <2>9. Grows({len + 1}) BY <1>7, <2>3, <2>6 DEF Grows
  <2>10. Begins(s, rec, {len + 1})
    <3>1. value'[rec.change] = change /\ rec.amount = amount
      BY <2>2, <2>6
    <3>2. rec.amount + value'[rec.change] = TotalInput(rec.notes)
      BY <1>6, <2>2, <3>1
    <3>3. rec.change # 0
      <4>1. len + 1 # 0
        BY <1>7
      <4>2. QED
        BY <2>2, <4>1
    <3>4. QED
      BY <1>3, <1>7, <2>2, <2>3, <2>6, <2>8, <2>9, <3>2, <3>3 DEF Begins
  <2>11. QED
    BY <2>10
<1>9. CASE ~(change > 0)
  <2>1. PICK rec : rec = [begun EXCEPT !.pc = "proof"]
    OBVIOUS
  <2>2. /\ rec.pc = "proof" /\ rec.change = 0 /\ rec.i = 1 /\ rec.notes = notes
        /\ rec.secret = secret /\ rec.amount = amount /\ rec \in Call
    BY <1>3, <1>6, <2>1 DEF Idle, Call, PCs
  <2>3. /\ call[s].pc = "idle" /\ Begin(s, rec) /\ calls' = calls + 1
        /\ UNCHANGED <<value, uses, torn, commitments, stored, nullifiers, known, granted, stops, paid>>
    BY <1>6, <1>9, <2>1 DEF SpendCreditNotes, store
  <2>4. Grows({})
    BY <2>3 DEF Grows, NotesInv, NotesTypes
  <2>5. amount = inputs
    BY <1>4, <1>6, <1>9
  <2>6. Begins(s, rec, {})
    BY <1>3, <1>6, <2>2, <2>3, <2>4, <2>5 DEF Begins, NotesInv, NotesTypes
  <2>7. QED
    BY <2>6
<1>10. QED
  BY <1>8, <1>9

\* A call begins: its notes are those somebody holds, its change is new.
LEMMA BeginsStep ==
  ASSUME NotesInv, NEW s \in Spenders, NEW rec, NEW N, Begins(s, rec, N)
  PROVE  NotesInv'
<1>1. /\ call[s].pc = "idle" /\ rec \in Call /\ rec.notes \in Seq(known)
      /\ 1 \in DOMAIN rec.notes /\ rec.i = 1 /\ rec.secret \in Secrets
      /\ rec.pc \in {"proof", "store change"}
      /\ UNCHANGED <<stored, nullifiers, known, granted, stops, paid>>
      /\ calls' = calls + 1 /\ commitments' = commitments \cup N
      /\ DOMAIN value' = DOMAIN value \cup N /\ N \cap DOMAIN value = {}
      /\ \A n \in DOMAIN value : value'[n] = value[n] /\ uses'[n] = uses[n] /\ torn'[n] = torn[n]
  BY DEF Begins, Grows
<1>2. \/ N = {} /\ rec.change = 0 /\ rec.pc = "proof"
      \/ N = {rec.change} /\ rec.change # 0 /\ rec.pc = "store change"
  BY DEF Begins
<1>. DEFINE busy == Busy # {} \/ ~ToSet(rec.notes) \subseteq commitments
            new == [rec EXCEPT !.met = busy]
<1>3. /\ call' = [t \in Spenders |-> IF t # s THEN [call[t] EXCEPT !.met = t \in Busy] ELSE new]
  BY DEF Begins, Begin
<1>4. \A t \in Spenders : t # s =>
        /\ call'[t] \in Call /\ call'[t].pc = call[t].pc /\ call'[t].notes = call[t].notes
        /\ call'[t].secret = call[t].secret /\ call'[t].amount = call[t].amount
        /\ call'[t].change = call[t].change /\ call'[t].i = call[t].i
        /\ call'[t].proof = call[t].proof /\ (t \in Busy => call'[t].met)
  <2>1. SUFFICES ASSUME NEW t \in Spenders, t # s
                 PROVE  /\ call'[t] \in Call /\ call'[t].pc = call[t].pc /\ call'[t].notes = call[t].notes
                        /\ call'[t].secret = call[t].secret /\ call'[t].amount = call[t].amount
                        /\ call'[t].change = call[t].change /\ call'[t].i = call[t].i
                        /\ call'[t].proof = call[t].proof /\ (t \in Busy => call'[t].met)
    OBVIOUS
  <2>2. PICK b : b \in BOOLEAN /\ (t \in Busy => b) /\ call'[t] = [call[t] EXCEPT !.met = b]
    <3>1. call'[t] = [call[t] EXCEPT !.met = t \in Busy]
      BY <1>3, <2>1
    <3>2. CASE t \in Busy BY <3>1, <3>2
    <3>3. CASE t \notin Busy
      <4>1. (t \in Busy) = FALSE
        BY <3>3
      <4>2. call'[t] = [call[t] EXCEPT !.met = FALSE]
        BY <3>1, <4>1
      <4>3. QED
        BY <3>3, <4>2
    <3>4. QED
      BY <3>2, <3>3
  <2>4. call[t] \in Call
    BY CallFacts
  <2>5. QED
    BY <2>2, <2>4 DEF Call
<1>5. /\ call'[s] \in Call /\ call'[s].pc = rec.pc /\ call'[s].notes = rec.notes
      /\ call'[s].secret = rec.secret /\ call'[s].amount = rec.amount
      /\ call'[s].change = rec.change /\ call'[s].i = 1 /\ call'[s].met = busy BY <1>1, <1>3 DEF Call
<1>. HIDE DEF busy, new
<1>30. \A t \in Spenders : call[t].pc # "idle" =>
         /\ call'[t].pc = call[t].pc /\ call'[t].change = call[t].change
         /\ call'[t].notes[call'[t].i] = call[t].notes[call[t].i]
  BY <1>1, <1>4
<1>31. calls' = calls + 1
  BY <1>1
<1>32. DOMAIN value \subseteq DOMAIN value'
  BY <1>1
<1>6. /\ \A t \in Spenders : t # s => TakenBy(call'[t]) = TakenBy(call[t])
      /\ TakenBy(call'[s]) = 0
      /\ \A t \in Spenders : t # s =>
           (Keeps(call'[t]) <=> Keeps(call[t])) /\ (Rolls(call'[t]) <=> Rolls(call[t]))
      /\ ~Rolls(call'[s]) /\ (Keeps(call'[s]) <=> rec.change # 0)
  <2>1. \A t \in Spenders : t # s => TakenBy(call'[t]) = TakenBy(call[t])
    BY <1>4 DEF TakenBy
  <2>2. TakenBy(call'[s]) = 0
    <3>1. call'[s].pc \in {"proof", "store change"} /\ call'[s].i = 1
      BY <1>1, <1>5
    <3>2. TakenBy(call'[s]) = 1 - 1
      BY <3>1 DEF TakenBy
    <3>3. QED
      BY <3>2
  <2>3. \A t \in Spenders : t # s =>
           (Keeps(call'[t]) <=> Keeps(call[t])) /\ (Rolls(call'[t]) <=> Rolls(call[t]))
    BY <1>4 DEF Keeps, Rolls
  <2>4. ~Rolls(call'[s]) /\ (Keeps(call'[s]) <=> rec.change # 0)
    BY <1>1, <1>5 DEF Keeps, Rolls
  <2>5. QED
    BY <2>1, <2>2, <2>3, <2>4
<1>7. \A t \in Spenders : Own(t)' = Own(t)
  <2>1. Own(s)' = {} /\ Own(s) = {}
    <3>1. 1..TakenBy(call'[s]) = {}
      BY <1>6
    <3>2. QED
      BY <1>1, <3>1, OwnKnown DEF Own
  <2>2. ASSUME NEW t \in Spenders, t # s PROVE Own(t)' = Own(t) BY <1>4, <1>6, <2>2 DEF Own
  <2>3. QED
    BY <2>1, <2>2
<1>8. Owned' = Owned
  BY <1>7 DEF Owned
<1>9. known \subseteq DOMAIN value /\ Owned \subseteq known /\ Live \subseteq DOMAIN value
  BY ValueTypes
<1>10. /\ \A notes \in Seq(known) :
              SumFunction([j \in DOMAIN notes |-> value'[notes[j]]]) % W = TotalInput(notes)
       /\ \A c : c.change \in {0} \cup DOMAIN value =>
              (IF c.change = 0 THEN 0 ELSE value'[c.change]) = ChangeOf(c)
       /\ SumFunctionOnSet(value', Live) = SumFunctionOnSet(value, Live)
  BY GrowsFacts DEF Begins
<1>11. NotesTypes'
  <2>1. call' \in [Spenders -> Call]
    BY <1>3, <1>4, <1>5
  <2>2. calls' \in Nat BY <1>31 DEF NotesInv, NotesTypes
  <2>3. /\ value' \in Seq(1..(W - 1)) /\ uses' \in [DOMAIN value' -> Nat] /\ torn' \in [DOMAIN value' -> Nat]
    BY DEF Begins, Grows
  <2>4. QED
    BY <1>1, <2>1, <2>2, <2>3 DEF NotesInv, NotesTypes
<1>12. CallsInv'
  <2>1. SUFFICES ASSUME NEW t \in Spenders, call'[t].pc # "idle"
                 PROVE  /\ call'[t].notes \in Seq(known) /\ call'[t].i \in DOMAIN call'[t].notes
                        /\ call'[t].secret \in Secrets
                        /\ call'[t].change \in {0} \cup DOMAIN value'
                        /\ call'[t].pc \in {"store change", "undo", "undo store"} => call'[t].change # 0
                        /\ call'[t].amount + (IF call'[t].change = 0 THEN 0 ELSE value'[call'[t].change])
                             = SumFunction([j \in DOMAIN call'[t].notes |-> value'[call'[t].notes[j]]]) % W
    BY <1>1 DEF CallsInv, ChangeOf, TotalInput
  <2>2. CASE t = s
    <3>1. rec.amount + (IF rec.change = 0 THEN 0 ELSE value'[rec.change]) = TotalInput(rec.notes)
      <4>1. rec.amount \in Nat
        BY <1>1 DEF Call
      <4>2. CASE rec.change = 0 BY <4>1, <4>2 DEF Begins
      <4>3. CASE rec.change # 0
        BY <4>3 DEF Begins
      <4>4. QED
        BY <4>2, <4>3
    <3>2. rec.change \in {0} \cup DOMAIN value'
      BY <1>1, <1>2
    <3>3. SumFunction([j \in DOMAIN rec.notes |-> value'[rec.notes[j]]]) % W = TotalInput(rec.notes)
      BY <1>1, <1>10
    <3>4. PICK e : e = rec.notes
      OBVIOUS
    <3>5. call'[t].notes = e
      BY <1>5, <2>2, <3>4
    <3>6. QED
      BY <1>1, <1>2, <1>5, <2>2, <3>1, <3>2, <3>3, <3>4, <3>5
  <2>3. CASE t # s
    <3>1. call[t].pc # "idle"
      BY <1>4, <2>1, <2>3
    <3>2. /\ call[t].notes \in Seq(known) /\ call[t].i \in DOMAIN call[t].notes
          /\ call[t].secret \in Secrets
          /\ call[t].change \in {0} \cup DOMAIN value
          /\ call[t].pc \in {"store change", "undo", "undo store"} => call[t].change # 0
          /\ call[t].amount + ChangeOf(call[t]) = TotalInput(call[t].notes)
      BY <3>1 DEF NotesInv, CallsInv
    <3>3. PICK e : e = call[t].notes
      OBVIOUS
    <3>4. call'[t].notes = e /\ SumFunction([j \in DOMAIN e |-> value'[e[j]]]) % W = TotalInput(e)
      BY <1>4, <1>10, <2>3, <3>2, <3>3
    <3>5. (IF call[t].change = 0 THEN 0 ELSE value'[call[t].change]) = ChangeOf(call[t])
      BY <1>10, <3>2
    <3>6. PICK c : c = call'[t] /\ c.pc = call[t].pc /\ c.notes = e /\ c.i = call[t].i
                   /\ c.secret = call[t].secret /\ c.amount = call[t].amount /\ c.change = call[t].change
      BY <1>4, <2>3, <3>3
    <3>7. c.amount + (IF c.change = 0 THEN 0 ELSE value'[c.change])
            = SumFunction([j \in DOMAIN e |-> value'[e[j]]]) % W
      BY <3>2, <3>3, <3>4, <3>5, <3>6
    <3>8. /\ c.notes \in Seq(known) /\ c.i \in DOMAIN c.notes /\ c.secret \in Secrets
          /\ c.change \in {0} \cup DOMAIN value'
          /\ c.pc \in {"store change", "undo", "undo store"} => c.change # 0
      BY <1>32, <3>2, <3>3, <3>6
    <3>9. SumFunction([j \in DOMAIN call'[t].notes |-> value'[call'[t].notes[j]]]) % W
            = SumFunction([j \in DOMAIN e |-> value'[e[j]]]) % W
      BY <3>4
    <3>10. QED
      BY <3>6, <3>7, <3>8, <3>9
  <2>4. QED
    BY <2>2, <2>3
<1>13. OwnInv'
  <2>1. \A t \in Spenders : Own(t)' \cap commitments' = {}
    <3>1. \A t \in Spenders : Own(t) \subseteq known /\ Own(t) \cap commitments = {}
      BY OwnKnown DEF NotesInv, OwnInv
    <3>2. QED
      BY <1>1, <1>7, <1>9, <3>1
  <2>2. \A t \in Spenders : \A j, k \in 1..TakenBy(call'[t]) : call'[t].notes[j] = call'[t].notes[k] => j = k
    <3>1. SUFFICES ASSUME NEW t \in Spenders
                   PROVE  \A j, k \in 1..TakenBy(call'[t]) : call'[t].notes[j] = call'[t].notes[k] => j = k
      OBVIOUS
    <3>2. CASE t = s BY <1>6, <3>2
    <3>3. CASE t # s
      BY <1>4, <1>6, <3>3 DEF NotesInv, OwnInv
    <3>4. QED
      BY <3>2, <3>3
  <2>3. \A t, u \in Spenders : t # u => Own(t)' \cap Own(u)' = {}
    BY <1>7 DEF NotesInv, OwnInv
  <2>4. QED
    BY <2>1, <2>2, <2>3 DEF OwnInv
<1>14. ChangeInv'
  <2>1. \A t \in Spenders : Keeps(call[t]) \/ Rolls(call[t]) => call[t].change \in DOMAIN value
    BY DEF NotesInv, CallsInv, Keeps, Rolls
  <2>2. Keeps(call'[s]) => N = {rec.change} /\ rec.change \notin DOMAIN value
    BY <1>1, <1>2, <1>6
  <2>3. ASSUME NEW t \in Spenders
        PROVE  /\ Keeps(call'[t]) => call'[t].change \in commitments' \ known'
               /\ Rolls(call'[t]) => call'[t].change \notin commitments' \cup known'
    <3>1. CASE t = s
      BY <1>1, <1>5, <1>6, <1>9, <2>2, <3>1
    <3>2. CASE t # s
      BY <1>1, <1>4, <1>6, <2>1, <3>2 DEF NotesInv, ChangeInv
    <3>3. QED
      BY <3>1, <3>2
  <2>4. ASSUME NEW t \in Spenders, NEW u \in Spenders, t # u,
               Keeps(call'[t]) \/ Rolls(call'[t]), Keeps(call'[u]) \/ Rolls(call'[u])
        PROVE  call'[t].change # call'[u].change BY <1>4, <1>5, <1>6, <2>1, <2>2, <2>4 DEF NotesInv, ChangeInv
  <2>5. QED
    BY <2>3, <2>4 DEF ChangeInv
<1>15. TreeStored'
  <2>1. ASSUME NEW n \in commitments' \ stored'
        PROVE  n \in {call'[t].change : t \in {u \in Spenders : call'[u].pc = "store change"}}
    <3>1. CASE n \in N
      BY <1>2, <1>5, <3>1
    <3>2. CASE n \notin N
      <4>1. n \in {call[t].change : t \in {u \in Spenders : call[u].pc = "store change"}}
        BY <1>1, <2>1, <3>2 DEF NotesInv, TreeStored
      <4>2. QED
        BY <1>30, <4>1
    <3>3. QED
      BY <3>1, <3>2
  <2>2. ASSUME NEW n \in stored' \ commitments'
        PROVE  n \in {call'[t].change : t \in {u \in Spenders : call'[u].pc = "undo store"}}
                       \cup {k \in DOMAIN value' : Deleting(k)' # {}}
    <3>1. n \in {call[t].change : t \in {u \in Spenders : call[u].pc = "undo store"}}
                  \cup {k \in DOMAIN value : Deleting(k) # {}}
      BY <1>1, <2>2 DEF NotesInv, TreeStored
    <3>2. Deleting(n) # {} => Deleting(n)' # {}
      BY <1>30 DEF Deleting, Current
    <3>3. CASE n \in {call[t].change : t \in {u \in Spenders : call[u].pc = "undo store"}}
      BY <1>30, <3>3
    <3>4. CASE n \in DOMAIN value /\ Deleting(n) # {} BY <1>32, <3>2, <3>4
    <3>5. QED
      BY <3>1, <3>3, <3>4
  <2>3. QED
    BY <2>1, <2>2 DEF TreeStored
<1>16. MoneyInv'
  <2>1. Live' = Live
    BY <1>1, <1>8, <1>9 DEF Live
  <2>2. SumFunctionOnSet(value', Live') = SumFunctionOnSet(value, Live)
    BY <1>10, <2>1, Zenon
  <2>3. paid' = paid /\ granted' = granted
    BY <1>1
  <2>4. QED
    BY <2>2, <2>3 DEF NotesInv, MoneyInv
<1>17. UsesInv' BY <1>1, <1>8 DEF UsesInv, Begins, Grows, NotesInv
<1>18. Busy' = Busy \cup {s} /\ s \notin Busy
  BY <1>1, <1>4, <1>5 DEF Busy
<1>19. \A t \in Busy' : t # s => call'[t].met
  BY <1>4, <1>18 DEF Busy
<1>20. MetInv'
  <2>1. calls' # 0
    <3>1. calls \in Nat
      BY DEF NotesInv, NotesTypes
    <3>2. calls' = calls + 1
      BY <1>1
    <3>3. QED
      BY <3>1, <3>2
  <2>2. \A t \in Busy' : t # s => call'[s].met
    BY <1>5, <1>18 DEF busy
  <2>3. call'[s].pc # "root"
    BY <1>1, <1>5
  <2>4. QED
    BY <1>18, <1>19, <2>1, <2>2, <2>3 DEF MetInv
<1>21. FindsInv'
  <2>1. SUFFICES ASSUME ~call'[s].met, NEW j \in DOMAIN call'[s].notes
                 PROVE  call'[s].notes[j] \in commitments'
    BY <1>18, <1>19 DEF FindsInv
  <2>2. ToSet(rec.notes) \subseteq commitments
    BY <1>5, <2>1 DEF busy
  <2>3. QED
    BY <1>1, <1>5, <2>1, <2>2 DEF ToSet
<1>22. NullifiersInv'
  <2>1. SUFFICES ASSUME NEW p \in nullifiers, p[2] \in commitments', ~(torn'[p[2]] > 0)
                 PROVE  \E t \in Spenders : call'[t].pc = "remove" /\ Current(t)' = p[2]
    BY <1>1 DEF NullifiersInv
  <2>2. p[2] \in known
    BY DEF NotesInv, NotesTypes
  <2>3. p[2] \in commitments /\ torn'[p[2]] = torn[p[2]]
    BY <1>1, <1>9, <2>1, <2>2
  <2>4. PICK t \in Spenders : call[t].pc = "remove" /\ Current(t) = p[2]
    BY <2>1, <2>3 DEF NotesInv, NullifiersInv
  <2>5. t # s
    BY <1>1, <2>4
  <2>6. QED
    BY <1>4, <2>4, <2>5 DEF Current
<1>23. LossInv' BY <1>1, <1>4, <1>5, <1>18, <1>19 DEF Fails, Busy, LossInv
<1>24. QED
  BY <1>11, <1>12, <1>13, <1>14, <1>15, <1>16, <1>17, <1>20, <1>21, <1>22, <1>23 DEF NotesInv

\* What holds while nobody calls.
Quiet ==
  /\ CallsInv /\ OwnInv /\ ChangeInv /\ FindsInv /\ LossInv
  /\ Busy = {} /\ Owned = {} /\ \A n \in DOMAIN value : Deleting(n) = {}

LEMMA NobodyCalls == (\A s \in Spenders : call[s].pc = "idle") => Quiet
<1>1. SUFFICES ASSUME \A s \in Spenders : call[s].pc = "idle" PROVE Quiet
  OBVIOUS
<1>2. Busy = {} /\ \A n \in DOMAIN value : Deleting(n) = {}
  BY <1>1 DEF Busy, Deleting
<1>3. \A s \in Spenders : Own(s) = {} /\ 1..TakenBy(call[s]) = {}
  <2>1. \A s \in Spenders : 1..TakenBy(call[s]) = {}
    <3>1. \A s \in Spenders : TakenBy(call[s]) = 0
      BY <1>1 DEF TakenBy
    <3>2. 1..0 = {}
      OBVIOUS
    <3>3. QED
      BY <3>1, <3>2
  <2>2. QED
    BY <2>1 DEF Own
<1>4. OwnInv /\ Owned = {}
  BY <1>3 DEF OwnInv, Owned
<1>5. CallsInv /\ ChangeInv /\ LossInv
  BY <1>1 DEF CallsInv, ChangeInv, LossInv, Keeps, Rolls, Fails
<1>6. FindsInv
  BY <1>2 DEF FindsInv
<1>7. QED
  BY <1>2, <1>4, <1>5, <1>6 DEF Quiet

\* What the store has and the tree has not is being deleted, or nobody was given it.
LEMMA StoredFacts ==
  ASSUME NotesInv, NEW n \in stored \ commitments, n \in known
  PROVE  Deleting(n) # {} /\ Marked(n) # {} /\ n \in Owned
<1>1. Deleting(n) # {}
  <2>1. CASE n \in {call[t].change : t \in {u \in Spenders : call[u].pc = "undo store"}}
    BY <2>1 DEF Rolls, NotesInv, CallsInv, ChangeInv
  <2>2. QED
    BY <2>1 DEF NotesInv, TreeStored
<1>2. PICK t \in Spenders : call[t].pc = "delete" /\ Current(t) = n
  BY <1>1 DEF Deleting
<1>3. t \in Marked(n)
  BY <1>2 DEF Marked
<1>4. n \in Own(t)
  <2>1. PICK i, m : i = call[t].i /\ m = Len(call[t].notes) /\ m \in Nat /\ i \in 1..m
    BY <1>2, CallFacts
  <2>2. TakenBy(call[t]) = i /\ i \in 1..i
    BY <1>2, <2>1 DEF TakenBy
  <2>3. QED
    BY <1>2, <2>1, <2>2 DEF Own, Current
<1>5. QED
  BY <1>1, <1>3, <1>4 DEF Owned

LEMMA RestartStep ==
  ASSUME NotesInv, Restart
  PROVE  NotesInv'
<1>1. /\ commitments' = stored /\ stops' = stops + 1
      /\ torn' = [n \in DOMAIN torn |-> torn[n] + Cardinality(Marked(n))]
      /\ call' = [s \in Spenders |-> Idle]
      /\ UNCHANGED <<stored, nullifiers, value, known, granted, calls, paid, uses>>
  BY DEF Restart, store
<1>2. \A s \in Spenders : call'[s].pc = "idle" /\ Idle \in Call
  BY <1>1 DEF Idle, Call, PCs
<1>3. ((\A s \in Spenders : call[s].pc = "idle") => Quiet)'
  BY NobodyCalls, PTL
<1>4. CallsInv' /\ OwnInv' /\ ChangeInv' /\ FindsInv' /\ LossInv' /\ Busy' = {} /\ Owned' = {}
  BY <1>2, <1>3 DEF Quiet
<1>5. \A n : Cardinality(Marked(n)) \in Nat /\ (Marked(n) # {} => Cardinality(Marked(n)) > 0)
  <2>1. SUFFICES ASSUME NEW n
                 PROVE  Cardinality(Marked(n)) \in Nat /\ (Marked(n) # {} => Cardinality(Marked(n)) > 0)
    OBVIOUS
  <2>2. IsFiniteSet(Marked(n)) BY NotesAssumption, FS_Subset DEF Marked
  <2>3. Cardinality(Marked(n)) \in Nat /\ (Cardinality(Marked(n)) = 0 <=> Marked(n) = {})
    BY <2>2, FS_CardinalityType, FS_EmptySet
  <2>4. QED
    BY <2>3
<1>6. torn \in [DOMAIN value -> Nat]
  BY DEF NotesInv, NotesTypes
<1>7. \A n \in DOMAIN value : /\ torn'[n] \in Nat
                              /\ torn[n] > 0 \/ Marked(n) # {} => torn'[n] > 0 BY <1>1, <1>5, <1>6
<1>8. NotesTypes'
  <2>1. torn' \in [DOMAIN value -> Nat]
    BY <1>1, <1>6, <1>7
  <2>2. stops' \in Nat BY <1>1 DEF NotesInv, NotesTypes
  <2>3. call' \in [Spenders -> Call]
    BY <1>1, <1>2
  <2>4. QED
    BY <1>1, <2>1, <2>2, <2>3 DEF NotesInv, NotesTypes
<1>9. TreeStored'
  BY <1>1 DEF TreeStored
<1>10. MoneyInv'
  <2>1. Live' \subseteq Live BY <1>1, <1>4, StoredFacts DEF Live
  <2>2. QED
    BY <1>1, <2>1, MoneyShrinks
<1>11. UsesInv'
  BY <1>1, <1>4 DEF NotesInv, UsesInv
<1>12. MetInv'
  BY <1>1, <1>4 DEF NotesInv, MetInv
<1>13. NullifiersInv'
  <2>1. SUFFICES ASSUME NEW p \in nullifiers, p[2] \in stored PROVE torn'[p[2]] > 0
    BY <1>1 DEF NullifiersInv
  <2>2. p[2] \in known /\ p[2] \in DOMAIN value
    BY ValueTypes DEF NotesInv, NotesTypes
  <2>3. CASE p[2] \notin commitments
    BY <1>7, <2>1, <2>2, <2>3, StoredFacts
  <2>4. CASE torn[p[2]] > 0
    BY <1>7, <2>2, <2>4
  <2>5. CASE \E t \in Spenders : call[t].pc = "remove" /\ Current(t) = p[2] BY <1>7, <2>2, <2>5 DEF Marked
  <2>6. QED
    BY <2>3, <2>4, <2>5 DEF NotesInv, NullifiersInv
<1>14. QED
  BY <1>4, <1>8, <1>9, <1>10, <1>11, <1>12, <1>13 DEF NotesInv

\* The seed users' notes: one, or three that are worth what was given.
LEMMA SplitFacts ==
  ASSUME NEW a \in Nat, NEW n \in {1, 3}, a >= n
  PROVE  /\ SplitEvenly(a, n) \in [1..n -> 1..a]
         /\ SumFunctionOnSet(SplitEvenly(a, n), 1..n) = a
<1>. DEFINE f == SplitEvenly(a, n)
<1>1. PICK q, r : q = a \div n /\ r = a % n
  OBVIOUS
<1>2. n \in Nat /\ n # 0 /\ a \in Int
  OBVIOUS
<1>3. a = n * q + r /\ q \in Int /\ r \in 0..(n - 1)
  BY <1>1, <1>2, DivisionWithRest
<1>4. f = [i \in 1..n |-> q + (IF i <= r THEN 1 ELSE 0)]
  BY <1>1 DEF SplitEvenly
<1>0. SUFFICES f \in [1..n -> 1..a] /\ SumFunctionOnSet(f, 1..n) = a
  OBVIOUS
<1>. HIDE DEF f
<1>5. CASE n = 1
  <2>1. q = a /\ r = 0
    BY <1>3, <1>5
  <2>2. 1..n = {1} /\ f[1] = a BY <1>4, <1>5, <2>1
  <2>3. SumFunctionOnSet(f, {1}) = a BY <2>2, SumOne
  <2>4. f \in [1..n -> 1..a] BY <1>4, <1>5, <2>2
  <2>5. QED
    BY <2>2, <2>3, <2>4
<1>6. CASE n = 3
  <2>1. a = 3 * q + r /\ r \in 0..2 /\ q >= 1 /\ q \in Nat
    BY <1>3, <1>6
  <2>2. 1..n = {1, 2, 3}
    BY <1>6
  <2>3. /\ f[1] = q + (IF 1 <= r THEN 1 ELSE 0)
        /\ f[2] = q + (IF 2 <= r THEN 1 ELSE 0)
        /\ f[3] = q + (IF 3 <= r THEN 1 ELSE 0)
    BY <1>4, <2>2
  <2>4. f[1] + f[2] + f[3] = a /\ f[1] \in 1..a /\ f[2] \in 1..a /\ f[3] \in 1..a
    BY <2>1, <2>3
  <2>5. f \in [1..n -> 1..a] BY <1>4, <2>2, <2>4
  <2>6. SumFunctionOnSet(f, {1, 2, 3}) = a
    <3>1. SumFunctionOnSet(f, {1}) = f[1] /\ SumFunctionOnSet(f, {2}) = f[2] /\ SumFunctionOnSet(f, {3}) = f[3]
      <4>1. f[1] \in Int /\ f[2] \in Int /\ f[3] \in Int
        BY <2>4
      <4>2. QED
        BY <4>1, SumOne
    <3>2. IsFiniteSet({1}) /\ IsFiniteSet({2}) /\ IsFiniteSet({3}) /\ IsFiniteSet({2, 3})
      <4>1. {2, 3} = {2} \cup {3}
        OBVIOUS
      <4>2. IsFiniteSet({1}) /\ IsFiniteSet({2}) /\ IsFiniteSet({3})
        BY FS_Singleton
      <4>3. IsFiniteSet({2} \cup {3})
        BY <4>2, FS_AddElement
      <4>4. QED
        BY <4>1, <4>2, <4>3
    <3>3. \A i \in {1, 2, 3} : f[i] \in Int
      BY <2>4
    <3>4. {2, 3} = {2} \cup {3} /\ {1, 2, 3} = {1} \cup {2, 3} /\ {2} \cap {3} = {} /\ {1} \cap {2, 3} = {}
      OBVIOUS
    <3>5. SumFunctionOnSet(f, {2} \cup {3}) = SumFunctionOnSet(f, {2}) + SumFunctionOnSet(f, {3})
      BY <3>2, <3>3, <3>4, SumUnion
    <3>6. SumFunctionOnSet(f, {1} \cup {2, 3}) = SumFunctionOnSet(f, {1}) + SumFunctionOnSet(f, {2, 3})
      BY <3>2, <3>3, <3>4, SumUnion
    <3>7. SumFunctionOnSet(f, {2, 3}) = f[2] + f[3]
      BY <3>1, <3>4, <3>5
    <3>8. SumFunctionOnSet(f, {1, 2, 3}) = f[1] + (f[2] + f[3])
      BY <3>1, <3>4, <3>6, <3>7
    <3>9. QED
      BY <2>4, <3>8
  <2>7. QED
    BY <2>2, <2>5, <2>6
<1>7. QED
  BY <1>5, <1>6

LEMMA GenesisStep ==
  ASSUME NotesInv, InitializeGenesisCredits
  PROVE  NotesInv'
<1>. DEFINE N == DOMAIN value' \ DOMAIN value
<1>1. /\ granted < Len(Genesis) /\ calls = 0 /\ granted' = granted + 1
      /\ value' = value \o GenesisNotes(Genesis[granted + 1])
      /\ commitments' = commitments \cup N /\ known' = known \cup N /\ stored' = stored \cup N
      /\ uses' = [n \in DOMAIN value' |-> 0] /\ torn' = [n \in DOMAIN value' |-> 0]
      /\ UNCHANGED <<nullifiers, call, calls, stops, paid>>
  BY DEF InitializeGenesisCredits
<1>2. PICK g, m : g = granted /\ m = Len(Genesis) /\ m \in Nat /\ g \in 0..m /\ g < m
  BY <1>1, GenesisFacts DEF NotesInv, NotesTypes
<1>3. PICK a : a = Genesis[g + 1] /\ a \in 1..(W - 1) /\ W \in Nat
  BY <1>2, GenesisFacts
<1>4. PICK n \in {1, 3} : GenesisNotes(a) = SplitEvenly(a, n) /\ a >= n BY <1>3, NotesAssumption DEF GenesisNotes
<1>. DEFINE f == SplitEvenly(a, n)
<1>5. f \in [1..n -> 1..a] /\ SumFunctionOnSet(f, 1..n) = a /\ n \in Nat
  <2>1. a \in Nat /\ n \in Nat
    BY <1>3, <1>4
  <2>2. QED
    BY <1>4, <2>1, SplitFacts
<1>. HIDE DEF f
<1>6. f \in Seq(1..(W - 1)) /\ Len(f) = n BY <1>3, <1>5
<1>7. PICK len : len = Len(value) /\ len \in Nat /\ DOMAIN value = 1..len
  BY ValueTypes
<1>8. value' = value \o f
  BY <1>1, <1>2, <1>3, <1>4 DEF f
<1>9. value \in Seq(1..(W - 1))
  BY DEF NotesInv, NotesTypes
<1>10. /\ value' \in Seq(1..(W - 1)) /\ Len(value') = len + n
       /\ \A i \in 1..(len + n) : value'[i] = IF i <= len THEN value[i] ELSE f[i - len]
  BY <1>6, <1>7, <1>8, <1>9, ConcatProperties
<1>11. DOMAIN value' = 1..(len + n)
  BY <1>10, LenProperties
<1>12. N = (len + 1)..(len + n)
  BY <1>5, <1>7, <1>11
<1>13. Grows(N) BY <1>1, <1>5, <1>7, <1>10, <1>11 DEF Grows
<1>14. /\ SumFunctionOnSet(value', N) = a
  <2>. DEFINE e == [i \in 1..n |-> len + i]
              h == [i \in 1..n |-> value'[e[i]]]
  <2>1. IsFiniteSet(1..n)
    BY <1>5, FS_Interval
  <2>2. \A i, j \in 1..n : e[i] = e[j] => i = j
    BY <1>5, <1>7
  <2>3. \A i \in 1..n : value'[e[i]] = f[i]
    BY <1>5, <1>7, <1>10
  <2>4. \A i \in 1..n : f[i] \in Int
    BY <1>3, <1>5
  <2>5. \A i \in 1..n : value'[e[i]] \in Int
    BY <2>3, <2>4
  <2>6. SumFunctionOnSet(value', {e[i] : i \in 1..n}) = SumFunctionOnSet(h, 1..n)
    <3>. HIDE DEF e
    <3>1. QED
      BY <2>1, <2>2, <2>5, SumImage
  <2>7. SumFunctionOnSet(h, 1..n) = SumFunctionOnSet(f, 1..n) BY <2>1, <2>3, SumSame
  <2>8. N = {e[i] : i \in 1..n}
    <3>1. \A i \in 1..n : e[i] \in N
      BY <1>5, <1>7, <1>12
    <3>2. ASSUME NEW x \in N PROVE x \in {e[i] : i \in 1..n}
      <4>1. x - len \in 1..n /\ len + (x - len) = x
        BY <1>5, <1>7, <1>12
      <4>2. e[x - len] = x
        BY <4>1
      <4>3. QED
        BY <4>1, <4>2
    <3>3. QED
      BY <3>1, <3>2
  <2>9. QED
    BY <1>5, <2>6, <2>7, <2>8
<1>15. \A s \in Spenders : call'[s].pc = "idle" /\ call[s].pc = "idle"
  BY <1>1 DEF NotesInv, MetInv, Busy
<1>16. ((\A s \in Spenders : call[s].pc = "idle") => Quiet)'
  BY NobodyCalls, PTL
<1>17. CallsInv' /\ OwnInv' /\ ChangeInv' /\ FindsInv' /\ LossInv' /\ Busy' = {} /\ Owned' = {}
  BY <1>15, <1>16 DEF Quiet
<1>18. Owned = {} /\ \A k \in DOMAIN value : Deleting(k) = {}
  BY <1>15, NobodyCalls DEF Quiet
<1>19. NotesTypes'
  <2>1. granted' \in 0..Len(Genesis)
    BY <1>1, <1>2
  <2>2. /\ uses' \in [DOMAIN value' -> Nat] /\ torn' \in [DOMAIN value' -> Nat]
    BY <1>1
  <2>3. DOMAIN value \subseteq DOMAIN value' /\ N \subseteq DOMAIN value'
    BY <1>13 DEF Grows
  <2>. HIDE DEF N
  <2>4. QED
    BY <1>1, <1>10, <2>1, <2>2, <2>3 DEF NotesInv, NotesTypes
<1>20. TreeStored'
  <2>1. commitments = stored BY <1>15, <1>18 DEF NotesInv, TreeStored
  <2>2. commitments' = stored'
    BY <1>1, <2>1
  <2>3. QED
    BY <2>2 DEF TreeStored
<1>21. MoneyInv'
  <2>1. Live' = Live \cup N /\ Live \cap N = {}
    <3>. HIDE DEF N
    <3>1. N \cap DOMAIN value = {} /\ known \subseteq DOMAIN value /\ commitments \subseteq DOMAIN value
      BY <1>13 DEF Grows, NotesInv, NotesTypes
    <3>2. QED
      BY <1>1, <1>17, <1>18, <3>1 DEF Live
  <2>2. IsFiniteSet(N)
    <3>1. len + 1 \in Int /\ len + n \in Int
      BY <1>5, <1>7
    <3>2. IsFiniteSet((len + 1)..(len + n))
      BY <3>1, FS_Interval
    <3>3. QED
      BY <1>12, <3>2
  <2>3. \A k \in Live \cup N : value'[k] \in Int BY <1>3, <1>10, <1>11, <1>13, ElementOfSeq, ValueTypes DEF Grows
  <2>4. SumFunctionOnSet(value', Live \cup N) = SumFunctionOnSet(value', Live) + SumFunctionOnSet(value', N)
    <3>. HIDE DEF N
    <3>1. QED
      BY <2>1, <2>2, <2>3, ValueTypes, SumUnion
  <2>5. SumFunctionOnSet(value', Live) = SumFunctionOnSet(value, Live)
    BY <1>13, GrowsFacts
  <2>6. SumFunctionOnSet(Genesis, 1..(g + 1)) = a + SumFunctionOnSet(Genesis, 1..g)
    <3>1. 1..(g + 1) = 1..g \cup {g + 1} /\ g + 1 \notin 1..g
      BY <1>2
    <3>2. IsFiniteSet(1..g)
      BY <1>2, FS_Interval
    <3>3. \A i \in 1..g \cup {g + 1} : Genesis[i] \in Int BY <1>2, <1>3, GenesisFacts
    <3>4. QED
      BY <1>3, <3>1, <3>2, <3>3, SumAdd
  <2>7. PICK p, l, t : p = paid /\ l = SumFunctionOnSet(value, Live) /\ t = SumFunctionOnSet(Genesis, 1..g)
    OBVIOUS
  <2>8. p \in Nat /\ l \in Nat /\ t \in Nat /\ p + l <= t /\ a \in Nat
    BY <1>2, <1>3, <2>7, ValueTypes DEF NotesInv, MoneyInv
  <2>9. p + (l + a) <= a + t
    BY <2>8
  <2>10. SumFunctionOnSet(value', Live') = l + a
    <3>. HIDE DEF N
    <3>1. SumFunctionOnSet(value', Live') = SumFunctionOnSet(value', Live \cup N)
      BY <2>1, Zenon
    <3>2. QED
      BY <1>14, <2>4, <2>5, <2>7, <3>1
  <2>11. paid' = p /\ SumFunctionOnSet(Genesis, 1..granted') = a + t
    BY <1>1, <1>2, <2>6, <2>7
  <2>12. QED
    BY <2>9, <2>10, <2>11 DEF MoneyInv
<1>22. UsesInv' /\ MetInv' /\ NullifiersInv' BY <1>1, <1>17 DEF NotesInv, MetInv, UsesInv, NullifiersInv
<1>23. QED
  BY <1>17, <1>19, <1>20, <1>21, <1>22 DEF NotesInv

LEMMA NotesStart == NotesInit => NotesInv
<1>1. SUFFICES ASSUME NotesInit PROVE NotesInv
  OBVIOUS
<1>2. /\ value = <<>> /\ uses = <<>> /\ torn = <<>>
      /\ commitments = {} /\ known = {} /\ stored = {} /\ nullifiers = {}
      /\ call = [s \in Spenders |-> Idle] /\ granted = 0 /\ calls = 0 /\ stops = 0 /\ paid = 0
  BY <1>1 DEF NotesInit
<1>3. Idle \in Call /\ \A s \in Spenders : call[s].pc = "idle"
  BY <1>2 DEF Idle, Call, PCs
<1>4. Quiet
  BY <1>3, NobodyCalls
<1>5. DOMAIN value = {}
  BY <1>2
<1>6. NotesTypes BY <1>2, <1>3, GenesisFacts DEF NotesTypes
<1>7. TreeStored
  BY <1>2 DEF TreeStored
<1>8. MoneyInv BY <1>2, <1>4, SumEmpty DEF Live, Quiet, MoneyInv
<1>9. UsesInv /\ NullifiersInv /\ MetInv
  BY <1>2, <1>4, <1>5 DEF UsesInv, NullifiersInv, MetInv, Quiet
<1>10. QED
  BY <1>4, <1>6, <1>7, <1>8, <1>9 DEF NotesInv, Quiet

LEMMA NotesStep == NotesInv /\ [NotesNext]_notesVars => NotesInv'
<1>1. SUFFICES ASSUME NotesInv, [NotesNext]_notesVars PROVE NotesInv'
  OBVIOUS
<1>2. ASSUME NEW s \in Spenders, NEW notes \in Inputs, NEW secret \in Secrets, NEW amount \in Amounts,
             SpendCreditNotes(s, notes, secret, amount)
      PROVE  NotesInv'
  BY <1>1, <1>2, SpendCreditNotesBegins, BeginsStep
<1>3. ASSUME NEW s \in Spenders, AddCreditCommitment(s) PROVE NotesInv'
  BY <1>1, <1>3, AddCreditCommitmentStep
<1>4. ASSUME NEW s \in Spenders, GenerateCreditProof(s) PROVE NotesInv'
  BY <1>1, <1>4, GenerateCreditProofStep
<1>5. ASSUME NEW s \in Spenders, CheckRoot(s) PROVE NotesInv'
  BY <1>1, <1>5, CheckRootStep
<1>6. ASSUME NEW s \in Spenders, MarkNullifier(s) PROVE NotesInv'
  BY <1>1, <1>6, MarkNullifierStep
<1>7. ASSUME NEW s \in Spenders, SpendCreditCommitment(s) PROVE NotesInv'
  BY <1>1, <1>7, SpendFailsStep, SpendCreditCommitmentStep
<1>8. ASSUME NEW s \in Spenders, DeleteCreditCommitment(s) PROVE NotesInv'
  BY <1>1, <1>8, DeleteMoreStep, DeleteLastStep
<1>9. ASSUME NEW s \in Spenders, RollbackTree(s) PROVE NotesInv'
  BY <1>1, <1>9, RollbackTreeStep
<1>10. ASSUME NEW s \in Spenders, RollbackStore(s) PROVE NotesInv'
  BY <1>1, <1>10, RollbackStoreStep
<1>11. ASSUME NEW s \in Spenders, Return(s) PROVE NotesInv'
  BY <1>1, <1>11, ReturnStep
<1>12. ASSUME InitializeGenesisCredits PROVE NotesInv'
  BY <1>1, <1>12, GenesisStep
<1>13. ASSUME Restart PROVE NotesInv'
  BY <1>1, <1>13, RestartStep
<1>14. ASSUME UNCHANGED notesVars PROVE NotesInv'
  <2>1. UNCHANGED <<commitments, stored, nullifiers, value, known, granted, call, calls, stops, paid, uses, torn>>
    BY <1>14 DEF notesVars, store, ghosts
  <2>2. NotesTypes' /\ CallsInv'
    BY <1>1, <2>1 DEF NotesInv, NotesTypes, CallsInv, ChangeOf, TotalInput
  <2>3. (\A s \in Spenders : Own(s)' = Own(s)) /\ Owned' = Owned
    BY <2>1 DEF Own, Owned
  <2>4. OwnInv'
    BY <1>1, <2>1, <2>3 DEF NotesInv, OwnInv
  <2>5. ChangeInv' /\ LossInv' /\ NullifiersInv'
    BY <1>1, <2>1 DEF NotesInv, ChangeInv, LossInv, NullifiersInv, Current
  <2>6. TreeStored'
    <3>1. \A n \in DOMAIN value : Deleting(n)' = Deleting(n)
      BY <2>1 DEF Deleting, Current
    <3>2. {n \in DOMAIN value' : Deleting(n)' # {}} = {n \in DOMAIN value : Deleting(n) # {}}
      BY <2>1, <3>1
    <3>3. {call'[s].change : s \in {t \in Spenders : call'[t].pc = "undo store"}}
            = {call[s].change : s \in {t \in Spenders : call[t].pc = "undo store"}}
      BY <2>1
    <3>4. {call'[s].change : s \in {t \in Spenders : call'[t].pc = "store change"}}
            = {call[s].change : s \in {t \in Spenders : call[t].pc = "store change"}}
      BY <2>1
    <3>5. QED
      BY <1>1, <2>1, <3>2, <3>3, <3>4 DEF NotesInv, TreeStored
  <2>7. UsesInv'
    BY <1>1, <2>1, <2>3 DEF NotesInv, UsesInv
  <2>8. MoneyInv' BY <1>1, <2>1, <2>3, MoneyShrinks DEF Live
  <2>9. MetInv' /\ FindsInv'
    BY <1>1, <2>1 DEF NotesInv, MetInv, FindsInv, Busy
  <2>10. QED
    BY <1>1, <2>2, <2>4, <2>5, <2>6, <2>7, <2>8, <2>9 DEF NotesInv
<1>15. QED
  BY <1>1, <1>2, <1>3, <1>4, <1>5, <1>6, <1>7, <1>8, <1>9, <1>10, <1>11, <1>12, <1>13, <1>14
     DEF NotesNext

LEMMA NamedTwice ==
  ASSUME NotesInv, NEW s \in Spenders, call[s].pc # "idle", ~Once(call[s].notes)
  PROVE  \E n \in known : Times(n, call[s].notes) > 1
<1>1. PICK m, e : e = call[s].notes /\ m \in Nat /\ DOMAIN e = 1..m /\ \A j \in 1..m : e[j] \in known
  BY CallFacts
<1>2. PICK j, k \in 1..m : e[j] = e[k] /\ j # k
  BY <1>1 DEF Once
<1>3. PICK T : T = {i \in DOMAIN e : e[i] = e[j]}
  OBVIOUS
<1>4. IsFiniteSet(T)
  <2>1. IsFiniteSet(1..m)
    BY <1>1, FS_Interval
  <2>2. T \subseteq 1..m
    BY <1>1, <1>3
  <2>3. QED
    BY <2>1, <2>2, FS_Subset
<1>5. Cardinality({j} \cup {k}) = 2 /\ {j} \cup {k} \subseteq T
  <2>1. Cardinality({j}) = 1 /\ IsFiniteSet({j})
    BY FS_Singleton
  <2>2. k \notin {j}
    BY <1>2
  <2>3. Cardinality({j} \cup {k}) = Cardinality({j}) + 1
    BY <2>1, <2>2, FS_AddElement
  <2>4. Cardinality({j} \cup {k}) = 2
    BY <2>1, <2>3
  <2>5. {j} \cup {k} \subseteq T
    BY <1>1, <1>2, <1>3
  <2>6. QED
    BY <2>4, <2>5
<1>6. 2 <= Cardinality(T) /\ Cardinality(T) \in Nat
  BY <1>4, <1>5, FS_Subset, FS_CardinalityType
<1>7. Times(e[j], call[s].notes) = Cardinality(T)
  BY <1>1, <1>3 DEF Times
<1>8. e[j] \in known
  BY <1>1, <1>2
<1>9. Times(e[j], call[s].notes) > 1
  BY <1>6, <1>7
<1>10. QED
  BY <1>8, <1>9

LEMMA InvSound == NotesInv => NotesSound
<1>1. SUFFICES ASSUME NotesInv PROVE NotesSound
  OBVIOUS
<1>2. NotesTypeOK BY <1>1, ValueTypes, CallFacts DEF NotesInv, NotesTypes, NotesTypeOK, PCs
<1>3. SpentOnce
  <2>1. SUFFICES ASSUME NEW n \in DOMAIN uses PROVE uses[n] <= 1
    BY DEF SpentOnce
  <2>2. uses[n] \in Nat /\ n \in DOMAIN value
    BY <1>1 DEF NotesInv, NotesTypes
  <2>3. uses[n] = 0 \/ uses[n] = 1
    BY <1>1, <2>2 DEF NotesInv, UsesInv
  <2>4. QED
    BY <2>3
<1>4. NoInflation
  <2>1. PICK S : S = known \cap commitments
    OBVIOUS
  <2>2. S \subseteq Live
    BY <2>1 DEF Live
  <2>3. SumFunctionOnSet(value, S) <= SumFunctionOnSet(value, Live)
    BY <1>1, <2>2, ValueTypes, SumSubset
  <2>4. SumFunctionOnSet(value, S) \in Nat BY <1>1, <2>2, ValueTypes, FS_Subset, SumNat
  <2>5. PICK p, a, b, g : /\ p = paid /\ a = SumFunctionOnSet(value, S) /\ b = SumFunctionOnSet(value, Live)
                          /\ g = SumFunctionOnSet(Genesis, 1..granted)
    OBVIOUS
  <2>6. p \in Nat /\ a \in Nat /\ b \in Nat /\ g \in Nat /\ a <= b /\ p + b <= g
    BY <1>1, <2>3, <2>4, <2>5, ValueTypes DEF NotesInv, MoneyInv
  <2>7. p + a <= g
    BY <2>6
  <2>8. QED
    BY <2>1, <2>5, <2>7 DEF NoInflation
<1>5. LossExplained BY <1>1, NamedTwice DEF LossExplained, Fails, NotesInv, LossInv
<1>6. QED
  BY <1>1, <1>2, <1>3, <1>4, <1>5 DEF NotesSound, NotesInv

(* credit_utxo.go: a note is spent at most once, the tree in memory and    *)
(* its copy in the store differ only by what a caller is about to write,   *)
(* notes and payments never exceed the genesis credit, and a call that     *)
(* loses notes met another one, named a note twice, or came after a crash. *)
THEOREM NotesAreSound == NotesSpec => []NotesSound
<1>1. NotesInit => NotesInv
  BY NotesStart
<1>2. NotesInv /\ [NotesNext]_notesVars => NotesInv'
  BY NotesStep
<1>3. NotesInv => NotesSound
  BY InvSound
<1>4. QED
  BY <1>1, <1>2, <1>3, PTL DEF NotesSpec

-----------------------------------------------------------------------------
(* Loans.  A handler that writes over a change it has not read is recorded *)
(* as a loss; what no handler wrote over has ended once, has one claim and *)
(* shows no seed before its approval.                                      *)

Loan == [status : {"pending", "active", "settled", "defaulted"},
         borrower : BorrowerSeeds \cup {NoSeed}, lender : LenderSeeds \cup {NoSeed},
         combined : {<<>>} \cup ((BorrowerSeeds \cup {NoSeed}) \X (LenderSeeds \cup {NoSeed})),
         blind : BOOLEAN]
Losses == {"update", "list", "crash"}

\* Where an actor is between two writes, and in front of one.
Places(ids) == {Free} \cup [pc : {"approve", "issue"}, id : ids]
                      \cup [pc : {"default"}, list : SUBSET ids]
Writes(ids) == [pc : {"write"}, id : ids, read : Loan, rec : Loan, next : Places(ids)]

LoansTypeOK ==
  /\ loans \in Seq(Loan)
  /\ at \in [Actors -> Places(DOMAIN loans) \cup Writes(DOMAIN loans)]
  /\ ended \in [DOMAIN loans -> {"open", "settled", "defaulted"}]
  /\ revealed \in [DOMAIN loans -> BOOLEAN]
  /\ lost \in [DOMAIN loans -> SUBSET Losses]
  /\ issued \in [DOMAIN loans -> Nat]
  /\ overdue \subseteq DOMAIN loans /\ crashes \in Nat

\* A loan that was approved was so before the borrower's seed was sent.
LoanOK(loan) ==
  /\ loan.status = "pending" => loan.combined = <<>>
  /\ loan.status # "pending" => loan.blind
  /\ loan.combined # <<>> => loan.combined = <<loan.borrower, loan.lender>>

SeedsInv ==
  /\ \A id \in DOMAIN loans :
       LoanOK(loans[id]) /\ (loans[id].status = "pending" => ~revealed[id])
  /\ \A a \in Actors : at[a].pc = "write" => LoanOK(at[a].rec)

\* What a handler makes of the loan that it read.
WritesInv ==
  \A a \in Actors : at[a].pc = "write" =>
    /\ at[a].rec.status # "pending"
    /\ at[a].read.status \in Over => at[a].rec.status = "defaulted"
    /\ at[a].next.pc # "approve"
    /\ at[a].next.pc = "issue" => at[a].next.id = at[a].id
    /\ at[a].next.pc = "issue" <=> at[a].read.status = "pending"
    
ListsInv == \A id \in DOMAIN loans : Listed(id) => loans[id].status # "pending"

Kept(id) == "update" \notin lost[id]

EndInv ==
  \A id \in DOMAIN loans :
    /\ loans[id].status \in Over => ended[id] # "open"
    /\ Kept(id) /\ ended[id] # "open" =>
         /\ loans[id].status = ended[id] \/ ("list" \in lost[id] /\ loans[id].status = "defaulted")
         /\ Listed(id) => "list" \in lost[id]

ReadInv ==
  \A a \in Actors :
    at[a].pc = "write" /\ at[a].read.status \in Over /\ Kept(at[a].id) => "list" \in lost[at[a].id]

Issuing(a, id) == at[a].pc = "issue" /\ at[a].id = id

ClaimsInv ==
  \A id \in DOMAIN loans :
    /\ Kept(id) =>
         /\ issued[id] <= 1
         /\ \A a \in Actors : Issuing(a, id) =>
              /\ issued[id] = 0 /\ loans[id].status # "pending"
              /\ \A b \in Actors : Issuing(b, id) => b = a
         /\ loans[id].status = "pending" => issued[id] = 0
    /\ loans[id].status # "pending" =>
         issued[id] >= 1 \/ (\E a \in Actors : Issuing(a, id)) \/ lost[id] # {}

LoansInv == LoansTypeOK /\ SeedsInv /\ WritesInv /\ ListsInv /\ EndInv /\ ReadInv /\ ClaimsInv
\* What the place of an actor says about it.
LEMMA PlaceTypes ==
  ASSUME NEW ids, NEW p \in Places(ids) \cup Writes(ids)
  PROVE  /\ p.pc \in {"idle", "approve", "issue", "default", "write"}
         /\ p.pc \in {"approve", "issue"} => p.id \in ids
         /\ p.pc = "default" => p.list \subseteq ids
         /\ p.pc = "write" => /\ p.id \in ids /\ p.read \in Loan /\ p.rec \in Loan
                             /\ p.next \in Places(ids)
         /\ p.pc = "idle" => p = Free
         /\ p.pc # "write" => p \in Places(ids)
BY DEF Places, Writes, Free

LEMMA PlaceList ==
  ASSUME NEW ids, NEW p \in Places(ids)
  PROVE  /\ p.pc \in {"idle", "approve", "issue", "default"}
         /\ p.pc = "default" => p.list \subseteq ids
         /\ p.pc \in {"approve", "issue"} => p.id \in ids
BY DEF Places, Free

LEMMA PlacesGrow ==
  ASSUME NEW ids, NEW more, ids \subseteq more
  PROVE  Places(ids) \subseteq Places(more) /\ Writes(ids) \subseteq Writes(more)
BY DEF Places, Writes

LEMMA AppendTo ==
  ASSUME NEW S, NEW s \in Seq(S), NEW x \in S
  PROVE  /\ Append(s, x) \in [1..(Len(s) + 1) -> S]
         /\ Append(s, x)[Len(s) + 1] = x /\ \A i \in 1..Len(s) : Append(s, x)[i] = s[i]
<1>. PICK t : t = Append(s, x)
  OBVIOUS
<1>2. /\ t \in Seq(S) /\ Len(t) = Len(s) + 1 /\ t[Len(s) + 1] = x
      /\ \A i \in 1..Len(s) : t[i] = s[i]
  BY AppendProperties
<1>3. t \in [1..Len(t) -> S]
  BY <1>2, LenProperties
<1>4. QED
  BY <1>2, <1>3

LEMMA LoanType ==
  ASSUME LoansInv, NEW id \in DOMAIN loans
  PROVE  loans[id] \in Loan
BY ElementOfSeq, LenProperties DEF LoansInv, LoansTypeOK

LEMMA LoansStart == LoansInit => LoansInv
BY DEF LoansInit, Free, Places, LoansTypeOK, LoansInv, SeedsInv, WritesInv, ListsInv, EndInv, ReadInv, ClaimsInv

\* A handler reads a loan: nothing but its own place changes, and revealed.
LEMMA ReadsStep ==
  ASSUME LoansInv, NEW a \in Actors, NEW id \in DOMAIN loans, NEW rec \in Loan,
         NEW next \in Places(DOMAIN loans), Reads(a, id, rec, next),
         UNCHANGED <<loans, overdue, crashes, ended, lost, issued>>,
         revealed' \in [DOMAIN loans -> BOOLEAN],
         \A i \in DOMAIN loans : loans[i].status = "pending" => ~revealed'[i],
         LoanOK(rec), rec.status # "pending",
         loans[id].status \in Over => rec.status = "defaulted" /\ Listed(id),
         next.pc # "approve", next.pc = "issue" => next.id = id,
         next.pc = "issue" <=> loans[id].status = "pending",
         at[a].pc # "issue",
         \A i \in DOMAIN loans : Lists(next, i) => Listed(i)
  PROVE  LoansInv'
<1>. DEFINE w == [pc |-> "write", id |-> id, read |-> loans[id], rec |-> rec, next |-> next]
<1>1. at' = [at EXCEPT ![a] = w] /\ loans[id] \in Loan
  BY LoanType DEF Reads
<1>2. w \in Writes(DOMAIN loans)
  BY <1>1 DEF Writes
<1>3. /\ w.pc = "write" /\ w.id = id /\ w.read = loans[id] /\ w.rec = rec /\ w.next = next
  OBVIOUS
<1>. HIDE DEF w
<1>4. LoansTypeOK'
  BY <1>1, <1>2 DEF LoansInv, LoansTypeOK
<1>5. at \in [Actors -> Places(DOMAIN loans) \cup Writes(DOMAIN loans)]
  BY DEF LoansInv, LoansTypeOK
<1>6. at'[a] = w /\ \A b \in Actors : b # a => at'[b] = at[b]
  BY <1>1, <1>5
<1>7. \A i \in DOMAIN loans : Listed(i)' => Listed(i) BY <1>3, <1>6 DEF Listed, Lists
<1>8. SeedsInv'
  BY <1>3, <1>6 DEF LoansInv, SeedsInv
<1>9. WritesInv'
  BY <1>3, <1>6 DEF LoansInv, WritesInv
<1>10. ListsInv' /\ EndInv'
  BY <1>7 DEF LoansInv, ListsInv, EndInv, Kept
<1>11. ReadInv' BY <1>3, <1>6 DEF ReadInv, Kept, LoansInv, EndInv
<1>12. ClaimsInv' BY <1>3, <1>6 DEF Issuing, LoansInv, ClaimsInv, Kept
<1>13. QED
  BY <1>4, <1>8, <1>9, <1>10, <1>11, <1>12 DEF LoansInv

LEMMA ApproveStep ==
  ASSUME LoansInv, NEW a \in Actors, NEW id \in DOMAIN loans,
         NEW seed \in LenderSeeds \cup {NoSeed}, ApproveLoan(a, id, seed)
  PROVE  LoansInv'
<1>. DEFINE rec == [loans[id] EXCEPT !.status = "active", !.lender = seed,
                                     !.blind = ~revealed[id]]
            next == [pc |-> "issue", id |-> id]
<1>1. loans[id] \in Loan /\ loans[id].status = "pending" /\ ~revealed[id]
      /\ revealed \in [DOMAIN loans -> BOOLEAN]
  BY LoanType DEF LoansInv, LoansTypeOK, SeedsInv, ApproveLoan, MayApprove
<1>2. rec \in Loan /\ rec.status = "active" /\ rec.blind = TRUE /\ rec.combined = loans[id].combined
  BY <1>1 DEF Loan
<1>3. next \in Places(DOMAIN loans) /\ next.pc = "issue" /\ next.id = id
  BY DEF Places
<1>4. LoanOK(rec)
  BY <1>1, <1>2 DEF LoanOK, LoansInv, SeedsInv
<1>5. Reads(a, id, rec, next) /\ UNCHANGED <<loans, overdue, crashes, history>>
      /\ at[a].pc # "issue" BY DEF ApproveLoan
<1>. HIDE DEF rec, next
<1>6. \A i \in DOMAIN loans : loans[i].status = "pending" => ~revealed[i]
  BY DEF LoansInv, SeedsInv
<1>7. QED
  BY <1>1, <1>2, <1>3, <1>4, <1>5, <1>6, ReadsStep DEF Lists, history, Over

LEMMA RevealStep ==
  ASSUME LoansInv, NEW a \in Actors, NEW id \in DOMAIN loans, RevealBorrowerSeed(a, id)
  PROVE  LoansInv'
<1>. DEFINE rec == [loans[id] EXCEPT !.combined = <<loans[id].borrower, loans[id].lender>>]
<1>1. loans[id] \in Loan /\ loans[id].status = "active"
      /\ revealed \in [DOMAIN loans -> BOOLEAN] /\ revealed' = [revealed EXCEPT ![id] = TRUE]
  BY LoanType DEF LoansInv, LoansTypeOK, RevealBorrowerSeed
<1>2. /\ rec \in Loan /\ rec.status = "active" /\ rec.blind = loans[id].blind
      /\ rec.borrower = loans[id].borrower /\ rec.lender = loans[id].lender
      /\ rec.combined = <<rec.borrower, rec.lender>>
  BY <1>1 DEF Loan
<1>3. Free \in Places(DOMAIN loans) /\ Free.pc = "idle"
  BY DEF Places, Free
<1>4. LoanOK(rec)
  BY <1>1, <1>2 DEF LoanOK, LoansInv, SeedsInv
<1>5. Reads(a, id, rec, Free) /\ UNCHANGED <<loans, overdue, crashes, ended, lost, issued>>
      /\ at[a].pc = "idle"
  BY DEF RevealBorrowerSeed
<1>. HIDE DEF rec
<1>6. \A i \in DOMAIN loans : loans[i].status = "pending" => ~revealed'[i]
  BY <1>1 DEF LoansInv, SeedsInv
<1>7. revealed' \in [DOMAIN loans -> BOOLEAN]
  BY <1>1
<1>8. QED
  BY <1>1, <1>2, <1>3, <1>4, <1>5, <1>6, <1>7, ReadsStep DEF Lists, Over

LEMMA SettleStep ==
  ASSUME LoansInv, NEW a \in Actors, NEW id \in DOMAIN loans, SettleLoan(a, id)
  PROVE  LoansInv'
<1>. DEFINE rec == [loans[id] EXCEPT !.status = "settled"]
<1>1. loans[id] \in Loan /\ loans[id].status = "active"
      /\ revealed \in [DOMAIN loans -> BOOLEAN]
  BY LoanType DEF LoansInv, LoansTypeOK, SettleLoan
<1>2. /\ rec \in Loan /\ rec.status = "settled" /\ rec.blind = loans[id].blind
      /\ rec.borrower = loans[id].borrower /\ rec.lender = loans[id].lender
      /\ rec.combined = loans[id].combined
  BY <1>1 DEF Loan
<1>3. Free \in Places(DOMAIN loans) /\ Free.pc = "idle"
  BY DEF Places, Free
<1>4. LoanOK(rec)
  BY <1>1, <1>2 DEF LoanOK, LoansInv, SeedsInv
<1>5. Reads(a, id, rec, Free) /\ UNCHANGED <<loans, overdue, crashes, history>>
      /\ at[a].pc = "idle"
  BY DEF SettleLoan
<1>. HIDE DEF rec
<1>6. \A i \in DOMAIN loans : loans[i].status = "pending" => ~revealed[i]
  BY DEF LoansInv, SeedsInv
<1>7. QED
  BY <1>1, <1>2, <1>3, <1>4, <1>5, <1>6, ReadsStep DEF Lists, Over, history

LEMMA DefaultStep ==
  ASSUME LoansInv, NEW a \in Actors, NEW id \in DOMAIN loans, DefaultLoan(a, id)
  PROVE  LoansInv'
<1>. DEFINE rec == [loans[id] EXCEPT !.status = "defaulted"]
            next == IF at[a].list = {id} THEN Free
                    ELSE [pc |-> "default", list |-> at[a].list \ {id}]
<1>1. /\ loans[id] \in Loan /\ revealed \in [DOMAIN loans -> BOOLEAN]
      /\ at[a] \in Places(DOMAIN loans) \cup Writes(DOMAIN loans)
      /\ at[a].pc = "default" /\ id \in at[a].list
  BY LoanType DEF LoansInv, LoansTypeOK, DefaultLoan
<1>2. at[a].list \subseteq DOMAIN loans
  BY <1>1, PlaceTypes
<1>3. Listed(id) /\ loans[id].status # "pending" BY <1>1 DEF Listed, Lists, LoansInv, ListsInv
<1>4. /\ rec \in Loan /\ rec.status = "defaulted" /\ rec.blind = loans[id].blind
      /\ rec.borrower = loans[id].borrower /\ rec.lender = loans[id].lender
      /\ rec.combined = loans[id].combined
  BY <1>1 DEF Loan
<1>5. /\ next \in Places(DOMAIN loans) /\ next.pc \in {"idle", "default"}
      /\ next.pc = "default" => next.list \subseteq at[a].list
  BY <1>2 DEF Places, Free
<1>6. LoanOK(rec)
  BY <1>3, <1>4 DEF LoanOK, LoansInv, SeedsInv
<1>7. Reads(a, id, rec, next) /\ UNCHANGED <<loans, overdue, crashes, history>>
  BY DEF DefaultLoan
<1>. HIDE DEF rec, next
<1>8. \A i \in DOMAIN loans : loans[i].status = "pending" => ~revealed[i]
  BY DEF LoansInv, SeedsInv
<1>9. \A i \in DOMAIN loans : Lists(next, i) => Listed(i)
  BY <1>1, <1>5 DEF Lists, Listed
<1>10. QED
  BY <1>1, <1>3, <1>4, <1>5, <1>6, <1>7, <1>8, <1>9, ReadsStep DEF Over, history

\* A step that writes no loan and leaves every list and every claim alone.
LEMMA PlaceStep ==
  ASSUME LoansInv, UNCHANGED <<loans, ended, revealed, lost, issued>>,
         at' \in [Actors -> Places(DOMAIN loans) \cup Writes(DOMAIN loans)],
         overdue' \subseteq DOMAIN loans, crashes' \in Nat,
         \A b \in Actors : at'[b] = at[b] \/ at'[b].pc \in {"idle", "default"},
         \A b \in Actors : at[b].pc = "issue" => at'[b] = at[b],
         \A i \in DOMAIN loans :
           Listed(i)' => Listed(i) \/ loans[i].status = "active"
  PROVE  LoansInv'
<1>1. LoansTypeOK'
  BY DEF LoansInv, LoansTypeOK
<1>2. SeedsInv' /\ WritesInv' /\ ListsInv' /\ ReadInv'
  BY DEF LoansInv, SeedsInv, WritesInv, ListsInv, ReadInv, Kept
<1>3. EndInv'
  <2>1. \A i \in DOMAIN loans : ended[i] # "open" /\ Kept(i) /\ Listed(i)' => "list" \in lost[i]
    <3>1. SUFFICES ASSUME NEW i \in DOMAIN loans, ended[i] # "open", Kept(i), Listed(i)'
                   PROVE  "list" \in lost[i]
      OBVIOUS
    <3>2. CASE Listed(i)
      BY <3>1, <3>2 DEF LoansInv, EndInv
    <3>3. CASE loans[i].status = "active" BY <3>1, <3>3 DEF LoansInv, LoansTypeOK, EndInv
    <3>4. QED
      BY <3>1, <3>2, <3>3
  <2>2. QED
    BY <2>1 DEF LoansInv, EndInv, Kept
<1>4. ClaimsInv' BY DEF Issuing, LoansInv, ClaimsInv, Kept
<1>5. QED
  BY <1>1, <1>2, <1>3, <1>4 DEF LoansInv

LEMMA RefusedStep ==
  ASSUME LoansInv, ApproveRefused
  PROVE  LoansInv'
BY LoansAssumption, PlaceStep DEF Free, Places, LoansInv, LoansTypeOK, ApproveRefused, Listed, Lists, history

LEMMA CheckStep ==
  ASSUME LoansInv, NEW a \in Actors, CheckOverdueLoans(a)
  PROVE  LoansInv'
<1>. DEFINE p == [pc |-> "default", list |-> GetOverdueLoans]
<1>1. p \in Places(DOMAIN loans) /\ p.pc = "default" /\ p.list = GetOverdueLoans
  BY DEF Places, GetOverdueLoans
<1>2. at \in [Actors -> Places(DOMAIN loans) \cup Writes(DOMAIN loans)]
  BY DEF LoansInv, LoansTypeOK
<1>3. at' = [at EXCEPT ![a] = p] /\ at[a].pc = "idle"
      /\ UNCHANGED <<loans, overdue, crashes, history>>
  BY DEF CheckOverdueLoans
<1>. HIDE DEF p
<1>4. /\ at' \in [Actors -> Places(DOMAIN loans) \cup Writes(DOMAIN loans)]
      /\ at'[a] = p /\ \A b \in Actors : b # a => at'[b] = at[b]
  BY <1>1, <1>2, <1>3
<1>5. \A i \in DOMAIN loans : Listed(i)' => Listed(i) \/ loans[i].status = "active"
  BY <1>1, <1>4 DEF Listed, Lists, GetOverdueLoans, IsOverdue
<1>6. QED
  BY <1>1, <1>3, <1>4, <1>5, PlaceStep DEF LoansInv, LoansTypeOK, history

LEMMA DueStep ==
  ASSUME LoansInv, NEW id \in DOMAIN loans, FallDue(id)
  PROVE  LoansInv'
BY PlaceStep DEF FallDue, Listed, Lists, LoansInv, LoansTypeOK, history

LEMMA CallbackStep ==
  ASSUME LoansInv, NEW a \in Actors, ShadowClaimCallback(a)
  PROVE  LoansInv'
<1>1. Free.pc = "idle" /\ Free \in Places(DOMAIN loans)
  BY DEF Free, Places
<1>2. PICK id \in DOMAIN loans : id = at[a].id /\ at[a].pc = "issue"
  BY PlaceTypes DEF LoansInv, LoansTypeOK, ShadowClaimCallback
<1>3. at \in [Actors -> Places(DOMAIN loans) \cup Writes(DOMAIN loans)]
  BY DEF LoansInv, LoansTypeOK
<1>4. /\ at' \in [Actors -> Places(DOMAIN loans) \cup Writes(DOMAIN loans)]
      /\ at'[a] = Free /\ \A b \in Actors : b # a => at'[b] = at[b]
  BY <1>1, <1>3 DEF ShadowClaimCallback
<1>5. /\ issued' \in [DOMAIN loans -> Nat] /\ issued'[id] = issued[id] + 1
      /\ issued[id] \in Nat
      /\ \A i \in DOMAIN loans : i # id => issued'[i] = issued[i]
  BY <1>2 DEF LoansInv, LoansTypeOK, ShadowClaimCallback
<1>6. LoansTypeOK'
  BY <1>4, <1>5 DEF LoansInv, LoansTypeOK, ShadowClaimCallback
<1>7. \A i \in DOMAIN loans : Listed(i)' => Listed(i)
  BY <1>1, <1>4 DEF Listed, Lists
<1>8. SeedsInv' /\ WritesInv' /\ ReadInv'
  BY <1>1, <1>4 DEF LoansInv, SeedsInv, WritesInv, ReadInv, Kept, ShadowClaimCallback
<1>9. ListsInv' /\ EndInv'
  BY <1>7 DEF LoansInv, ListsInv, EndInv, Kept, ShadowClaimCallback
<1>10. /\ \A b \in Actors, i \in DOMAIN loans :
            Issuing(b, i)' <=> (b # a /\ Issuing(b, i))
       /\ Issuing(a, id) /\ \A i \in DOMAIN loans : Issuing(a, i) => i = id
  BY <1>1, <1>2, <1>4 DEF Issuing
<1>11. ClaimsInv' BY <1>5, <1>10 DEF ClaimsInv, Kept, ShadowClaimCallback, LoansInv
<1>12. QED
  BY <1>6, <1>8, <1>9, <1>11 DEF LoansInv

LEMMA CrashStep ==
  ASSUME LoansInv, Crash
  PROVE  LoansInv'
<1>1. Free.pc = "idle" /\ Free \in Places(DOMAIN loans)
  BY DEF Free, Places
<1>2. \A b \in Actors : at'[b] = Free
  BY DEF Crash
<1>3. /\ lost' \in [DOMAIN loans -> SUBSET Losses]
      /\ \A i \in DOMAIN loans : lost[i] \subseteq lost'[i]
      /\ \A i \in DOMAIN loans : ("update" \in lost'[i] => "update" \in lost[i])
      /\ \A i \in DOMAIN loans : Pending(i) # {} => lost'[i] # {}
  BY DEF LoansInv, LoansTypeOK, Crash, Losses
<1>4. LoansTypeOK'
  <2>0. crashes' = crashes + 1
    BY DEF Crash
  <2>1. crashes' \in Nat
    BY <2>0 DEF LoansInv, LoansTypeOK
  <2>4. at' \in [Actors -> Places(DOMAIN loans)]
    BY <1>1 DEF Crash
  <2>2. UNCHANGED <<loans, overdue, ended, revealed, issued>>
    BY DEF Crash
  <2>3. QED
    BY <1>3, <2>1, <2>2, <2>4 DEF LoansInv, LoansTypeOK
<1>5. SeedsInv' /\ WritesInv' /\ ListsInv' /\ ReadInv'
  BY <1>1, <1>2 DEF LoansInv, SeedsInv, WritesInv, ListsInv, ReadInv, Crash, Listed, Lists
<1>6. EndInv'
  BY <1>1, <1>2, <1>3 DEF LoansInv, EndInv, Kept, Crash, Listed, Lists
<1>7. ClaimsInv' BY <1>1, <1>2, <1>3 DEF Issuing, Pending, LoansInv, ClaimsInv, Kept, Crash
<1>8. QED
  BY <1>4, <1>5, <1>6, <1>7 DEF LoansInv

LEMMA RequestStep ==
  ASSUME LoansInv, NEW a \in Actors, NEW seed \in BorrowerSeeds \cup {NoSeed},
         RequestLoan(a, seed)
  PROVE  LoansInv'
<1>. DEFINE new == [status |-> "pending", borrower |-> seed, lender |-> NoSeed,
                    combined |-> <<>>, blind |-> FALSE]
            n == Len(loans) + 1
            p == IF a = Loop THEN [pc |-> "approve", id |-> n] ELSE Free
<1>1. new \in Loan /\ LoanOK(new) /\ new.status = "pending"
  BY DEF Loan, LoanOK
<1>2. /\ loans \in Seq(Loan) /\ Len(loans) \in Nat /\ DOMAIN loans = 1..Len(loans)
      /\ loans' = Append(loans, new)
      /\ at' = [at EXCEPT ![a] = p] /\ at[a].pc = "idle"
      /\ ended' = Append(ended, "open") /\ revealed' = Append(revealed, FALSE)
      /\ lost' = Append(lost, {}) /\ issued' = Append(issued, 0)
      /\ UNCHANGED <<overdue, crashes>> BY LenProperties DEF LoansInv, LoansTypeOK, RequestLoan
<1>. HIDE DEF new
<1>3. /\ loans' \in Seq(Loan) /\ DOMAIN loans' = 1..n /\ n \in Nat
      /\ loans'[n] = new /\ \A i \in DOMAIN loans : loans'[i] = loans[i]
  BY <1>1, <1>2, LenProperties, AppendProperties
<1>4. \A i \in DOMAIN loans : i # n
  BY <1>2
<1>5. DOMAIN loans' = DOMAIN loans \cup {n} /\ n \notin DOMAIN loans
  BY <1>2, <1>3
<1>6. /\ ended' \in [1..n -> {"open", "settled", "defaulted"}]
      /\ ended'[n] = "open" /\ \A i \in DOMAIN loans : ended'[i] = ended[i]
  <2>1. ended \in [1..Len(loans) -> {"open", "settled", "defaulted"}]
    BY <1>2 DEF LoansInv, LoansTypeOK
  <2>2. ended' = Append(ended, "open") /\ "open" \in {"open", "settled", "defaulted"} /\ Len(loans) \in Nat
    BY <1>2
  <2>3. PICK m, S, y : m = Len(loans) /\ m \in Nat /\ y \in S /\ S = {"open", "settled", "defaulted"} /\ y = "open"
    BY <2>2
  <2>4. ended \in Seq(S) /\ Len(ended) = m /\ ended' = Append(ended, y)
    BY <2>1, <2>2, <2>3
  <2>5. /\ ended' \in [1..(m + 1) -> S]
        /\ ended'[m + 1] = y /\ \A i \in 1..m : ended'[i] = ended[i]
    BY <2>3, <2>4, AppendTo
  <2>6. QED
    BY <1>2, <2>3, <2>5
<1>7. /\ revealed' \in [1..n -> BOOLEAN]
      /\ revealed'[n] = FALSE /\ \A i \in DOMAIN loans : revealed'[i] = revealed[i]
  <2>1. revealed \in [1..Len(loans) -> BOOLEAN]
    BY <1>2 DEF LoansInv, LoansTypeOK
  <2>2. revealed' = Append(revealed, FALSE) /\ FALSE \in BOOLEAN /\ Len(loans) \in Nat
    BY <1>2
  <2>3. PICK m, S, y : m = Len(loans) /\ m \in Nat /\ y \in S /\ S = BOOLEAN /\ y = FALSE
    BY <2>2
  <2>4. revealed \in Seq(S) /\ Len(revealed) = m /\ revealed' = Append(revealed, y)
    <3>1. revealed \in [1..m -> S] /\ revealed' = Append(revealed, y)
      BY <2>1, <2>2, <2>3
    <3>2. m \in Nat
      BY <2>3
    <3>. HIDE <2>3
    <3>3. QED
      BY <3>1, <3>2
  <2>5. /\ revealed' \in [1..(m + 1) -> S]
        /\ revealed'[m + 1] = y /\ \A i \in 1..m : revealed'[i] = revealed[i]
    BY <2>3, <2>4, AppendTo
  <2>6. QED
    BY <1>2, <2>3, <2>5
<1>8. /\ lost' \in [1..n -> (SUBSET Losses)]
      /\ lost'[n] = {} /\ \A i \in DOMAIN loans : lost'[i] = lost[i]
  <2>1. lost \in [1..Len(loans) -> (SUBSET Losses)]
    BY <1>2 DEF LoansInv, LoansTypeOK
  <2>2. lost' = Append(lost, {}) /\ {} \in (SUBSET Losses) /\ Len(loans) \in Nat
    BY <1>2
  <2>3. PICK m, S, y : m = Len(loans) /\ m \in Nat /\ y \in S /\ S = (SUBSET Losses) /\ y = {}
    BY <2>2
  <2>4. lost \in Seq(S) /\ Len(lost) = m /\ lost' = Append(lost, y)
    BY <2>1, <2>2, <2>3
  <2>5. /\ lost' \in [1..(m + 1) -> S]
        /\ lost'[m + 1] = y /\ \A i \in 1..m : lost'[i] = lost[i] BY <2>3, <2>4, AppendTo
  <2>6. QED
    BY <1>2, <2>3, <2>5
<1>9. /\ issued' \in [1..n -> Nat]
      /\ issued'[n] = 0 /\ \A i \in DOMAIN loans : issued'[i] = issued[i]
  <2>1. issued \in [1..Len(loans) -> Nat]
    BY <1>2 DEF LoansInv, LoansTypeOK
  <2>2. issued' = Append(issued, 0) /\ 0 \in Nat /\ Len(loans) \in Nat
    BY <1>2
  <2>3. PICK m, S, y : m = Len(loans) /\ m \in Nat /\ y \in S /\ S = Nat /\ y = 0
    BY <2>2
  <2>4. issued \in Seq(S) /\ Len(issued) = m /\ issued' = Append(issued, y)
    BY <2>1, <2>2, <2>3
  <2>5. /\ issued' \in [1..(m + 1) -> S]
        /\ issued'[m + 1] = y /\ \A i \in 1..m : issued'[i] = issued[i] BY <2>3, <2>4, AppendTo
  <2>6. QED
    BY <1>2, <2>3, <2>5
<1>10. p \in Places(DOMAIN loans') /\ p.pc \in {"idle", "approve"}
  BY <1>5 DEF Places, Free
<1>. HIDE DEF p, n
<1>11. at \in [Actors -> Places(DOMAIN loans) \cup Writes(DOMAIN loans)]
  BY DEF LoansInv, LoansTypeOK
<1>12. /\ at' \in [Actors -> Places(DOMAIN loans') \cup Writes(DOMAIN loans')]
       /\ at'[a] = p /\ \A b \in Actors : b # a => at'[b] = at[b] BY <1>2, <1>5, <1>10, <1>11, PlacesGrow
<1>13. LoansTypeOK'
  BY <1>2, <1>3, <1>5, <1>6, <1>7, <1>8, <1>9, <1>12 DEF LoansInv, LoansTypeOK
<1>14. \A b \in Actors : at'[b].pc \in {"write", "issue", "default"} => at'[b] = at[b] /\ b # a
  BY <1>10, <1>12
<1>15. \A i \in DOMAIN loans' : Listed(i)' => i \in DOMAIN loans /\ Listed(i)
  BY <1>11, <1>14, PlaceTypes, PlaceList DEF Listed, Lists
<1>16. \A b \in Actors, i \in DOMAIN loans' :
         Issuing(b, i)' <=> (i \in DOMAIN loans /\ Issuing(b, i))
  <2>1. TAKE b \in Actors, i \in DOMAIN loans'
  <2>2. Issuing(b, i) => i \in DOMAIN loans
    BY <1>11, PlaceTypes DEF Issuing
  <2>3. Issuing(b, i) => b # a
    BY <1>2 DEF Issuing
  <2>4. QED
    BY <1>12, <1>14, <2>2, <2>3 DEF Issuing
<1>17. \A b \in Actors : at'[b].pc = "write" => at'[b].id \in DOMAIN loans
  BY <1>11, <1>14, PlaceTypes
<1>18. SeedsInv'
  BY <1>1, <1>3, <1>5, <1>7, <1>14 DEF LoansInv, SeedsInv
<1>19. WritesInv'
  BY <1>14 DEF LoansInv, WritesInv
<1>20. ListsInv'
  BY <1>3, <1>15 DEF LoansInv, ListsInv
<1>21. EndInv' BY <1>1, <1>3, <1>5, <1>6, <1>8, <1>15 DEF EndInv, Kept, Over, LoansInv
<1>22. ReadInv'
  BY <1>8, <1>14, <1>17 DEF LoansInv, ReadInv, Kept
<1>23. ClaimsInv'
  <2>1. SUFFICES ASSUME NEW i \in DOMAIN loans'
                 PROVE  /\ "update" \notin lost'[i] =>
                             /\ issued'[i] <= 1
                             /\ \A b \in Actors : Issuing(b, i)' =>
                                  /\ issued'[i] = 0 /\ loans'[i].status # "pending"
                                  /\ \A c \in Actors : Issuing(c, i)' => c = b
                             /\ loans'[i].status = "pending" => issued'[i] = 0
                        /\ loans'[i].status # "pending" =>
                             issued'[i] >= 1 \/ (\E b \in Actors : Issuing(b, i)') \/ lost'[i] # {}
    BY DEF ClaimsInv, Kept
  <2>2. CASE i = n
    BY <1>1, <1>3, <1>5, <1>9, <1>16, <2>2
  <2>3. CASE i \in DOMAIN loans
    BY <1>3, <1>8, <1>9, <1>16, <2>3 DEF LoansInv, ClaimsInv, Kept
  <2>4. QED
    BY <1>5, <2>2, <2>3
<1>24. QED
  BY <1>13, <1>18, <1>19, <1>20, <1>21, <1>22, <1>23 DEF LoansInv

LEMMA PutStep ==
  ASSUME LoansInv, NEW a \in Actors, PutLoan(a)
  PROVE  LoansInv'
<1>1. PICK w \in Writes(DOMAIN loans) : w = at[a] BY PlaceList DEF LoansInv, LoansTypeOK, PutLoan
<1>2. PICK id \in DOMAIN loans, rec \in Loan, next \in Places(DOMAIN loans) :
         id = w.id /\ rec = w.rec /\ next = w.next
  BY <1>1, PlaceTypes DEF Writes
<1>3. at[a].pc = "write" /\ at[a].id = id /\ at[a].rec = rec /\ at[a].next = next
      /\ loans[id] \in Loan
  BY <1>1, <1>2, LoanType DEF PutLoan
<1>4. /\ rec.status # "pending" /\ LoanOK(rec)
      /\ at[a].read.status \in Over => rec.status = "defaulted"
      /\ next.pc # "approve"
      /\ next.pc = "issue" => next.id = id
      /\ next.pc = "issue" <=> at[a].read.status = "pending"
  BY <1>3 DEF LoansInv, WritesInv, SeedsInv
<1>5. rec.status \in {"active", "settled", "defaulted"}
      /\ loans[id].status \in {"pending", "active", "settled", "defaulted"}
  BY <1>3, <1>4 DEF Loan
<1>6. PICK same \in BOOLEAN : same <=> at[a].read = loans[id]
  OBVIOUS
<1>7. /\ loans' \in Seq(Loan) /\ DOMAIN loans' = DOMAIN loans
      /\ loans'[id] = rec /\ \A i \in DOMAIN loans : i # id => loans'[i] = loans[i]
  BY <1>3, ExceptSeq DEF PutLoan, LoansInv, LoansTypeOK
<1>8. /\ ended' \in [DOMAIN loans -> {"open", "settled", "defaulted"}]
      /\ ended'[id] = IF ended[id] = "open" /\ rec.status \in Over THEN rec.status ELSE ended[id]
      /\ \A i \in DOMAIN loans : i # id => ended'[i] = ended[i]
  BY <1>3, <1>5 DEF LoansInv, LoansTypeOK, PutLoan, Over
<1>9. /\ lost' \in [DOMAIN loans -> SUBSET Losses]
      /\ lost'[id] = lost[id] \cup (IF same THEN {} ELSE {"update"})
                       \cup (IF rec.status \in Over /\ Listed(id) THEN {"list"} ELSE {})
      /\ \A i \in DOMAIN loans : i # id => lost'[i] = lost[i]
  BY <1>3, <1>6 DEF LoansInv, LoansTypeOK, PutLoan, Losses
<1>10. at \in [Actors -> Places(DOMAIN loans) \cup Writes(DOMAIN loans)]
  BY DEF LoansInv, LoansTypeOK
<1>11. /\ at' \in [Actors -> Places(DOMAIN loans) \cup Writes(DOMAIN loans)]
       /\ at'[a] = next /\ \A b \in Actors : b # a => at'[b] = at[b]
  BY <1>3, <1>10 DEF PutLoan
<1>12. next.pc \in {"idle", "issue", "default"}
  BY <1>4, PlaceList
<1>13. UNCHANGED <<overdue, crashes, revealed, issued>>
  BY DEF PutLoan
<1>14. LoansTypeOK'
  BY <1>7, <1>8, <1>9, <1>11, <1>13 DEF LoansInv, LoansTypeOK
<1>15. \A i \in DOMAIN loans : Listed(i)' => Listed(i) BY <1>3, <1>11, <1>12 DEF Listed, Lists
<1>16. SeedsInv'
  BY <1>4, <1>7, <1>11, <1>12, <1>13 DEF LoansInv, SeedsInv
<1>17. WritesInv'
  BY <1>11, <1>12 DEF LoansInv, WritesInv
<1>18. ListsInv'
  BY <1>4, <1>7, <1>15 DEF LoansInv, ListsInv
<1>19. EndInv'
  <2>1. SUFFICES ASSUME NEW i \in DOMAIN loans
                 PROVE  /\ loans'[i].status \in Over => ended'[i] # "open"
                        /\ "update" \notin lost'[i] /\ ended'[i] # "open" =>
                             /\ loans'[i].status = ended'[i]
                                \/ ("list" \in lost'[i] /\ loans'[i].status = "defaulted")
                             /\ Listed(i)' => "list" \in lost'[i]
    BY <1>7 DEF EndInv, Kept
  <2>2. CASE i # id
    BY <1>7, <1>8, <1>9, <1>15, <2>2 DEF LoansInv, EndInv, Kept
  <2>3. CASE i = id
    <3>1. rec.status \in Over => ended'[id] # "open"
      BY <1>8 DEF Over
    <3>2. ASSUME "update" \notin lost'[id], ended'[id] # "open"
          PROVE  /\ rec.status = ended'[id] \/ ("list" \in lost'[id] /\ rec.status = "defaulted")
                 /\ Listed(id)' => "list" \in lost'[id]
      <4>1. same /\ "update" \notin lost[id]
        BY <1>9, <3>2
      <4>2. CASE ended[id] = "open"
        BY <1>8, <1>9, <1>15, <3>2, <4>2
      <4>3. CASE ended[id] # "open"
        <5>1. ended[id] \in Over /\ Kept(id)
          BY <4>1, <4>3 DEF LoansInv, LoansTypeOK, Over, Kept
        <5>2. /\ loans[id].status = ended[id] \/ loans[id].status = "defaulted"
              /\ Listed(id) => "list" \in lost[id]
          BY <4>3, <5>1 DEF LoansInv, EndInv
        <5>3. at[a].read.status \in Over
          BY <1>6, <4>1, <5>1, <5>2 DEF Over
        <5>4. rec.status = "defaulted" /\ "list" \in lost[id]
          BY <1>3, <1>4, <5>1, <5>3 DEF LoansInv, ReadInv
        <5>5. QED
          BY <1>9, <5>4
      <4>4. QED
        BY <4>2, <4>3
    <3>3. QED
      BY <1>7, <2>3, <3>1, <3>2
  <2>4. QED
    BY <2>2, <2>3
<1>20. ReadInv' BY <1>9, <1>10, <1>11, <1>12, PlaceTypes DEF ReadInv, Kept, LoansInv
<1>21. \A b \in Actors, i \in DOMAIN loans :
         Issuing(b, i)' <=> IF b = a THEN i = id /\ next.pc = "issue" ELSE Issuing(b, i)
  BY <1>4, <1>11 DEF Issuing
<1>22. \A i \in DOMAIN loans : ~Issuing(a, i)
  BY <1>3 DEF Issuing
<1>23. ClaimsInv'
  <2>1. SUFFICES ASSUME NEW i \in DOMAIN loans
                 PROVE  /\ "update" \notin lost'[i] =>
                             /\ issued[i] <= 1
                             /\ \A b \in Actors : Issuing(b, i)' =>
                                  /\ issued[i] = 0 /\ loans'[i].status # "pending"
                                  /\ \A c \in Actors : Issuing(c, i)' => c = b
                             /\ loans'[i].status = "pending" => issued[i] = 0
                        /\ loans'[i].status # "pending" =>
                             issued[i] >= 1 \/ (\E b \in Actors : Issuing(b, i)') \/ lost'[i] # {}
    BY <1>7, <1>13 DEF ClaimsInv, Kept
  <2>2. CASE i # id BY <1>7, <1>9, <1>21, <1>22, <2>2 DEF LoansInv, ClaimsInv, Kept
  <2>3. CASE i = id
    <3>1. CASE ~same
      BY <1>9, <2>3, <3>1
    <3>2. CASE same /\ loans[id].status = "pending"
      BY <1>4, <1>6, <1>7, <1>9, <1>21, <2>3, <3>2 DEF LoansInv, ClaimsInv, Kept
    <3>3. CASE same /\ loans[id].status # "pending"
      BY <1>4, <1>6, <1>7, <1>9, <1>21, <1>22, <2>3, <3>3 DEF LoansInv, ClaimsInv, Kept
    <3>4. QED
      BY <3>1, <3>2, <3>3
  <2>4. QED
    BY <2>2, <2>3
<1>24. QED
  BY <1>14, <1>16, <1>17, <1>18, <1>19, <1>20, <1>23 DEF LoansInv

LEMMA LoansStep == LoansInv /\ [LoansNext]_loansVars => LoansInv'
<1>1. SUFFICES ASSUME LoansInv, [LoansNext]_loansVars PROVE LoansInv'
  OBVIOUS
<1>2. CASE UNCHANGED loansVars
  BY <1>1, <1>2 DEF loansVars, history, LoansInv, LoansTypeOK, SeedsInv, WritesInv, ListsInv, EndInv, ReadInv,
     ClaimsInv, Listed, Lists, Kept, Issuing
<1>3. CASE LoansNext
  BY <1>1, <1>3, RequestStep, ApproveStep, RevealStep, SettleStep, DefaultStep, CheckStep, PutStep,
     CallbackStep, RefusedStep, DueStep, CrashStep DEF LoansNext
<1>4. QED
  BY <1>1, <1>2, <1>3

LEMMA LoansInvSound == LoansInv => LoansSound
<1>1. SUFFICES ASSUME LoansInv PROVE LoansSound
  OBVIOUS
<1>2. SeedsFair
  BY <1>1 DEF LoansInv, SeedsInv, SeedsFair, LoanOK
<1>3. EndIsFinal
  BY <1>1 DEF LoansInv, EndInv, EndIsFinal, Kept
<1>4. ClaimPerLoan
  <2>1. \A id \in DOMAIN loans : (\E a \in Actors : Issuing(a, id)) => Pending(id) # {}
    BY DEF Issuing, Pending
  <2>2. \A id \in DOMAIN loans : issued[id] > 1 => "update" \in lost[id]
    BY <1>1 DEF LoansInv, LoansTypeOK, ClaimsInv, Kept
  <2>3. QED
    BY <1>1, <2>1, <2>2 DEF LoansInv, ClaimsInv, ClaimPerLoan
<1>5. QED
  BY <1>2, <1>3, <1>4 DEF LoansSound

(* keeper.go: the lender chose its seed before it saw the borrower's, a    *)
(* loan ends once and has one shadow claim, unless a handler wrote over    *)
(* what it had not read, a loan ended while it was listed as overdue, or a *)
(* crash cut an approval off.                                              *)
THEOREM LoansAreSound == LoansSpec => []LoansSound
BY LoansStart, LoansStep, LoansInvSound, PTL DEF LoansSpec

-----------------------------------------------------------------------------
(* The cross-domain router.  Pool and fees are the sums over the transfers *)
(* in each state, to the width of the counter, and every step is one of    *)
(* Escrow.                                                                 *)

\* The states of the router.
Statuses == {"in pool", "in transit", "released", "refunded", "failed"}
Transfer == [status : Statuses, target : Domains, community : Communities,
             ferry : SUBSET Ferries]
TransfersOK ==
  /\ DOMAIN transfers \subseteq TransferIDs
  /\ transfers \in [DOMAIN transfers -> Transfer]

RouterInv ==
  /\ TransfersOK
  /\ poolBalance = SumFunctionOnSet(TransferAmount, InPool) % PoolWidth
  /\ feeCollected = SumFunctionOnSet(TransferFee, In({"released"})) % PoolWidth
  /\ released = SumFunctionOnSet(TransferNet, In({"released"}))

LEMMA TransferIDsFinite == IsFiniteSet(TransferIDs)
<1>. DEFINE Tuples == Domains \X Users \X TransferAmounts \X Epochs
            rec == [t \in Tuples |-> [source |-> t[1], user |-> t[2], amount |-> t[3], epoch |-> t[4]]]
<1>1. IsFiniteSet(Tuples)
  BY CrossDomainAssumption
<1>2. \A id \in TransferIDs : \E t \in Tuples : id = rec[t]
  <2>1. SUFFICES ASSUME NEW id \in TransferIDs
                 PROVE  \E t \in Tuples : id = rec[t]
    OBVIOUS
  <2>2. <<id.source, id.user, id.amount, id.epoch>> \in Tuples
    BY DEF TransferIDs
  <2>3. id = rec[<<id.source, id.user, id.amount, id.epoch>>]
    BY <2>2 DEF TransferIDs
  <2>4. QED
    BY <2>2, <2>3
<1>3. rec \in [Tuples -> TransferIDs]
  BY DEF TransferIDs
<1>. HIDE DEF rec, Tuples
<1>4. rec \in Surjection(Tuples, TransferIDs)
  BY <1>2, <1>3 DEF Surjection
<1>5. QED
  BY <1>1, <1>4, FS_Surjection

LEMMA AmountsAreNumbers ==
  ASSUME NEW id \in TransferIDs
  PROVE  /\ id.amount \in Nat /\ PoolFee(id.amount) \in Nat
         /\ TransferAmount[id] = id.amount /\ TransferAmount[id] \in Nat
         /\ TransferFee[id] = PoolFee(id.amount) /\ TransferFee[id] \in Nat
         /\ TransferNet[id] = id.amount - PoolFee(id.amount) /\ TransferNet[id] \in Nat
<1>1. id.amount \in Nat
  <2>1. id.amount \in TransferAmounts
    BY DEF TransferIDs
  <2>2. PoolWidth \in Nat /\ TransferAmounts \subseteq 1..(PoolWidth - 1)
    BY CrossDomainAssumption
  <2>3. PICK a : a = id.amount
    OBVIOUS
  <2>4. a \in 1..(PoolWidth - 1)
    BY <2>1, <2>2, <2>3
  <2>5. a \in Nat
    BY <2>2, <2>4
  <2>6. QED
    BY <2>3, <2>5
<1>2. PoolFee(id.amount) \in Nat /\ PoolFee(id.amount) <= id.amount
  BY <1>1 DEF PoolFee
<1>3. QED
  BY <1>1, <1>2 DEF TransferAmount, TransferFee, TransferNet

\* A transfer that changes its status changes the sums by its own part.
LEMMA SumsGrow ==
  ASSUME NEW f, \A id \in TransferIDs : f[id] \in Nat,
         NEW S \in SUBSET TransferIDs, NEW id \in TransferIDs, id \notin S
  PROVE  /\ SumFunctionOnSet(f, S) \in Nat
         /\ SumFunctionOnSet(f, S \cup {id}) = SumFunctionOnSet(f, S) + f[id]
<1>1. IsFiniteSet(S) /\ (\A y \in S \cup {id} : f[y] \in Int) /\ (\A y \in S : f[y] \in Nat)
  BY TransferIDsFinite, FS_Subset
<1>2. SumFunctionOnSet(f, S) \in Nat
  BY <1>1, SumNat
<1>3. SumFunctionOnSet(f, S \cup {id}) = f[id] + SumFunctionOnSet(f, S)
  BY <1>1, SumAdd
<1>4. QED
  BY <1>2, <1>3

LEMMA SumsShrink ==
  ASSUME NEW f, \A id \in TransferIDs : f[id] \in Nat,
         NEW S \in SUBSET TransferIDs, NEW id \in S
  PROVE  /\ SumFunctionOnSet(f, S \ {id}) \in Nat
         /\ SumFunctionOnSet(f, S) = SumFunctionOnSet(f, S \ {id}) + f[id]
<1>1. IsFiniteSet(S) /\ (\A y \in S : f[y] \in Int) /\ (\A y \in S \ {id} : f[y] \in Nat)
      /\ IsFiniteSet(S \ {id})
  BY TransferIDsFinite, FS_Subset
<1>2. SumFunctionOnSet(f, S \ {id}) \in Nat
  BY <1>1, SumNat
<1>3. SumFunctionOnSet(f, S) = f[id] + SumFunctionOnSet(f, S \ {id})
  BY <1>1, SumRemove
<1>4. QED
  BY <1>2, <1>3

\* Counting modulo the width, a step at a time.
LEMMA CountsUp ==
  ASSUME NEW s \in Nat, NEW a \in Nat
  PROVE  ((s % PoolWidth) + a) % PoolWidth = (s + a) % PoolWidth
<1>1. PoolWidth \in Nat /\ PoolWidth # 0
  BY CrossDomainAssumption
<1>2. PICK q \in Int, r \in Int : q = s \div PoolWidth /\ r = s % PoolWidth /\ s = PoolWidth * q + r
  BY <1>1, DivisionWithRest
<1>3. s + a = (r + a) + q * PoolWidth
  BY <1>1, <1>2
<1>4. (s + a) % PoolWidth = (r + a) % PoolWidth
  <2>1. s + a \in Int /\ r + a \in Int
    BY <1>2
  <2>2. QED
    BY <1>1, <1>3, <2>1, SameRest
<1>5. QED
  BY <1>2, <1>4

LEMMA CountsDown ==
  ASSUME NEW s \in Nat, NEW a \in Nat
  PROVE  (((s + a) % PoolWidth) - a) % PoolWidth = s % PoolWidth
<1>1. PoolWidth \in Nat /\ PoolWidth # 0
  BY CrossDomainAssumption
<1>2. PICK q \in Int, r \in Int : q = (s + a) \div PoolWidth /\ r = (s + a) % PoolWidth
                                  /\ s + a = PoolWidth * q + r
  BY <1>1, DivisionWithRest
<1>3. s = (r - a) + q * PoolWidth
  BY <1>1, <1>2
<1>4. s % PoolWidth = (r - a) % PoolWidth
  <2>1. s \in Int /\ r - a \in Int
    BY <1>2
  <2>2. QED
    BY <1>1, <1>3, <2>1, SameRest
<1>5. QED
  BY <1>2, <1>4
\* The IDs with a status in a set, after the transfer id got a new record.
LEMMA PutMoves ==
  ASSUME TransfersOK, NEW id \in TransferIDs, NEW rec \in Transfer, Put(id, rec),
         NEW statuses
  PROVE  /\ TransfersOK'
         /\ In(statuses) \subseteq TransferIDs
         /\ rec.status \in statuses => In(statuses)' = In(statuses) \cup {id}
         /\ rec.status \notin statuses => In(statuses)' = In(statuses) \ {id}
BY DEF TransfersOK, Put, In, Transfer

LEMMA RouterStarts == RouterInit => RouterInv
BY CrossDomainAssumption, SumEmpty DEF RouterInit, TransfersOK, InPool, In, RouterInv

LEMMA LockStep ==
  ASSUME RouterInv, NEW id \in TransferIDs, NEW target \in Domains, NEW community \in Communities,
         LockAndTransfer(id, target, community)
  PROVE  RouterInv' /\ Escrow!Hold(id)
<1>. DEFINE rec == [status |-> "in pool", target |-> target, community |-> community, ferry |-> {}]
<1>1. rec \in Transfer /\ Put(id, rec) /\ TransfersOK /\ id \notin DOMAIN transfers
  BY DEF RouterInv, LockAndTransfer, Transfer, Statuses
<1>2. rec.status = "in pool"
  OBVIOUS
<1>. HIDE DEF rec
<1>3. /\ TransfersOK' /\ InPool' = InPool \cup {id} /\ InPool \subseteq TransferIDs
  BY <1>1, <1>2, PutMoves DEF InPool
<1>4. In({"released"})' = In({"released"}) \ {id} /\ In({"refunded"})' = In({"refunded"}) \ {id}
  BY <1>1, <1>2, PutMoves
<1>5. id \notin InPool /\ id \notin In({"released"}) /\ id \notin In({"refunded"})
  BY <1>1 DEF In, InPool
<1>6. PICK s : s = SumFunctionOnSet(TransferAmount, InPool)
  OBVIOUS
<1>7. s \in Nat /\ SumFunctionOnSet(TransferAmount, InPool') = s + TransferAmount[id]
      /\ TransferAmount[id] = id.amount /\ id.amount \in Nat
  BY <1>3, <1>5, <1>6, SumsGrow, AmountsAreNumbers
<1>8. poolBalance' = (s + id.amount) % PoolWidth
  BY <1>6, <1>7, CountsUp DEF RouterInv, LockAndTransfer
<1>9. QED
  BY <1>3, <1>4, <1>5, <1>7, <1>8 DEF RouterInv, LockAndTransfer, Escrow!Hold, AmountOf
\* A transfer that stays in the pool.
LEMMA StayStep ==
  ASSUME RouterInv, NEW id \in DOMAIN transfers, NEW rec \in Transfer, Put(id, rec),
         id \in InPool, rec.status \in {"in pool", "in transit", "failed"},
         UNCHANGED <<poolBalance, feeCollected, released>>
  PROVE  RouterInv' /\ UNCHANGED <<InPool, In({"released"}), In({"refunded"}), poolBalance>>
<1>1. id \in TransferIDs /\ TransfersOK
  BY DEF RouterInv, TransfersOK
<1>2. /\ TransfersOK' /\ InPool' = InPool \cup {id}
  BY <1>1, PutMoves DEF InPool
<1>3. In({"released"})' = In({"released"}) \ {id} /\ In({"refunded"})' = In({"refunded"}) \ {id}
  BY <1>1, PutMoves
<1>4. id \notin In({"released"}) /\ id \notin In({"refunded"})
  BY DEF In, InPool
<1>5. QED
  BY <1>2, <1>3, <1>4 DEF RouterInv

\* A transfer that leaves the pool.
LEMMA LeaveStep ==
  ASSUME RouterInv, NEW id \in DOMAIN transfers, NEW rec \in Transfer, Put(id, rec),
         id \in InPool, rec.status \notin {"in pool", "in transit", "failed"},
         poolBalance' = (poolBalance - id.amount) % PoolWidth
  PROVE  /\ TransfersOK' /\ Escrow!Free(id) /\ id \in TransferIDs
         /\ poolBalance' = SumFunctionOnSet(TransferAmount, InPool') % PoolWidth
<1>1. id \in TransferIDs /\ TransfersOK
  BY DEF RouterInv, TransfersOK
<1>2. /\ TransfersOK' /\ InPool' = InPool \ {id} /\ InPool \subseteq TransferIDs
  BY <1>1, PutMoves DEF InPool
<1>3. PICK s : s = SumFunctionOnSet(TransferAmount, InPool \ {id})
  OBVIOUS
<1>4. s \in Nat /\ SumFunctionOnSet(TransferAmount, InPool) = s + TransferAmount[id]
      /\ TransferAmount[id] = id.amount /\ id.amount \in Nat
  BY <1>2, <1>3, SumsShrink, AmountsAreNumbers
<1>5. poolBalance' = s % PoolWidth
  BY <1>4, CountsDown DEF RouterInv
<1>6. QED
  BY <1>1, <1>2, <1>3, <1>5 DEF RouterInv, Escrow!Free, AmountOf

LEMMA AssignStep ==
  ASSUME RouterInv, NEW id \in DOMAIN transfers, NEW ferry \in Ferries, AssignFerry(id, ferry)
  PROVE  RouterInv' /\ UNCHANGED <<InPool, In({"released"}), In({"refunded"}), poolBalance>>
<1>. DEFINE rec == [transfers[id] EXCEPT !.status = "in transit", !.ferry = {ferry}]
<1>1. rec \in Transfer /\ rec.status = "in transit" /\ id \in InPool
  BY DEF RouterInv, TransfersOK, AssignFerry, Transfer, Statuses, InPool, In
<1>2. Put(id, rec) /\ UNCHANGED <<poolBalance, feeCollected, released>>
  BY DEF AssignFerry
<1>. HIDE DEF rec
<1>3. QED
  BY <1>1, <1>2, StayStep

LEMMA RouterFails ==
  ASSUME RouterInv, NEW id \in DOMAIN transfers, MarkFailed(id)
  PROVE  RouterInv' /\ UNCHANGED <<InPool, In({"released"}), In({"refunded"}), poolBalance>>
<1>. DEFINE rec == [transfers[id] EXCEPT !.status = "failed"]
<1>1. rec \in Transfer /\ rec.status = "failed" /\ id \in InPool
  BY DEF RouterInv, TransfersOK, MarkFailed, Transfer, Statuses, InPool, In
<1>2. Put(id, rec) /\ UNCHANGED <<poolBalance, feeCollected, released>>
  BY DEF MarkFailed
<1>. HIDE DEF rec
<1>3. QED
  BY <1>1, <1>2, StayStep

LEMMA RefundStep ==
  ASSUME RouterInv, NEW id \in DOMAIN transfers, RefundOnSource(id)
  PROVE  RouterInv' /\ Escrow!Return(id) /\ id \in TransferIDs
<1>. DEFINE rec == [transfers[id] EXCEPT !.status = "refunded"]
<1>1. rec \in Transfer /\ rec.status = "refunded" /\ id \in InPool
  BY DEF RouterInv, TransfersOK, RefundOnSource, Transfer, Statuses, InPool, In
<1>2. Put(id, rec) /\ poolBalance' = (poolBalance - id.amount) % PoolWidth
  BY DEF RefundOnSource
<1>. HIDE DEF rec
<1>3. /\ TransfersOK' /\ Escrow!Free(id) /\ id \in TransferIDs
      /\ poolBalance' = SumFunctionOnSet(TransferAmount, InPool') % PoolWidth
  BY <1>1, <1>2, LeaveStep
<1>4. In({"released"})' = In({"released"}) \ {id} /\ In({"refunded"})' = In({"refunded"}) \cup {id}
  BY <1>1, <1>2, <1>3, PutMoves DEF RouterInv
<1>5. id \notin In({"released"})
  BY <1>1 DEF In, InPool
<1>6. QED
  BY <1>3, <1>4, <1>5 DEF RouterInv, RefundOnSource, Escrow!Return

LEMMA ReleaseStep ==
  ASSUME RouterInv, NEW id \in DOMAIN transfers, NEW community \in Communities,
         ReleaseOnTarget(id, community)
  PROVE  RouterInv' /\ Escrow!Pay(id) /\ id \in TransferIDs
<1>. DEFINE rec == [transfers[id] EXCEPT !.status = "released"]
            Paid == In({"released"})
<1>1. rec \in Transfer /\ rec.status = "released" /\ id \in InPool
  BY DEF RouterInv, TransfersOK, ReleaseOnTarget, MayRelease, Transfer, Statuses, InPool, In
<1>2. Put(id, rec) /\ poolBalance' = (poolBalance - id.amount) % PoolWidth
  BY DEF ReleaseOnTarget
<1>3. id \notin Paid
  BY <1>1 DEF In, InPool
<1>. HIDE DEF rec
<1>4. /\ TransfersOK' /\ Escrow!Free(id) /\ id \in TransferIDs
      /\ poolBalance' = SumFunctionOnSet(TransferAmount, InPool') % PoolWidth
  BY <1>1, <1>2, LeaveStep
<1>5. Paid' = Paid \cup {id} /\ In({"refunded"})' = In({"refunded"}) \ {id} /\ Paid \subseteq TransferIDs
  BY <1>1, <1>2, <1>4, PutMoves DEF RouterInv
<1>6. id \notin In({"refunded"})
  BY <1>1 DEF In, InPool
<1>. HIDE DEF Paid
<1>7. PICK fees, nets : fees = SumFunctionOnSet(TransferFee, Paid) /\ nets = SumFunctionOnSet(TransferNet, Paid)
  OBVIOUS
<1>8. /\ fees \in Nat /\ SumFunctionOnSet(TransferFee, Paid') = fees + TransferFee[id]
      /\ nets \in Nat /\ SumFunctionOnSet(TransferNet, Paid') = nets + TransferNet[id]
      /\ TransferFee[id] = PoolFee(id.amount) /\ PoolFee(id.amount) \in Nat
      /\ TransferNet[id] = id.amount - PoolFee(id.amount) /\ id.amount \in Nat
  BY <1>3, <1>4, <1>5, <1>7, SumsGrow, AmountsAreNumbers
<1>9. feeCollected = fees % PoolWidth /\ released = nets
  BY <1>7 DEF RouterInv, Paid
<1>10. feeCollected' = (feeCollected + PoolFee(id.amount)) % PoolWidth
       /\ released' = released + id.amount - PoolFee(id.amount)
  BY DEF ReleaseOnTarget
<1>11. feeCollected' = (fees + PoolFee(id.amount)) % PoolWidth
  BY <1>8, <1>9, <1>10, CountsUp
<1>12. released' = nets + (id.amount - PoolFee(id.amount))
  BY <1>8, <1>9, <1>10
<1>13. /\ feeCollected' = SumFunctionOnSet(TransferFee, Paid') % PoolWidth
       /\ released' = SumFunctionOnSet(TransferNet, Paid')
  BY <1>8, <1>11, <1>12
<1>14. QED
  BY <1>4, <1>5, <1>6, <1>13 DEF RouterInv, Escrow!Pay, Paid

\* Every step of the router keeps the sums and is one of the escrow.
LEMMA RouterStep ==
  ASSUME RouterInv, [RouterNext]_routerVars
  PROVE  RouterInv' /\ [Escrow!EscrowNext]_(Escrow!escrowVars)
<1>1. CASE \E id \in TransferIDs, target \in Domains, community \in Communities :
             LockAndTransfer(id, target, community) BY <1>1, LockStep DEF Escrow!EscrowNext
<1>2. CASE \E id \in DOMAIN transfers :
            (\E ferry \in Ferries : AssignFerry(id, ferry)) \/ MarkFailed(id)
  BY <1>2, AssignStep, RouterFails DEF Escrow!escrowVars
<1>3. CASE \E id \in DOMAIN transfers : \E community \in Communities : ReleaseOnTarget(id, community)
  BY <1>3, ReleaseStep DEF Escrow!EscrowNext
<1>4. CASE \E id \in DOMAIN transfers : RefundOnSource(id) BY <1>4, RefundStep DEF Escrow!EscrowNext
<1>5. CASE UNCHANGED routerVars
  BY <1>5 DEF routerVars, RouterInv, TransfersOK, InPool, In, Escrow!escrowVars
<1>6. QED
  BY <1>1, <1>2, <1>3, <1>4, <1>5 DEF RouterNext

LEMMA RouterStart == RouterInit => Escrow!EscrowInit BY DEF RouterInit, Escrow!EscrowInit, InPool, In

(* cross_domain.go: the pool holds what was locked and neither released    *)
(* nor refunded, and the fees are those of the released transfers, both to *)
(* the width of the counters; and every step is one of an escrow.          *)
THEOREM RouterIsSound == RouterSpec => RouterSound
<1>1. RouterInv => PoolHolds /\ PayoutsCovered
  BY DEF RouterInv, PoolHolds, PayoutsCovered
<1>2. RouterInv /\ [RouterNext]_routerVars => RouterInv' /\ [Escrow!EscrowNext]_(Escrow!escrowVars)
  BY RouterStep
<1>3. QED
  BY RouterStarts, RouterStart, <1>1, <1>2, PTL
     DEF RouterSpec, RouterSound, ImplementsEscrow, Escrow!EscrowSpec

-----------------------------------------------------------------------------
(* Ferries.  A receipt nobody raced for is in one hand at a time, which    *)
(* knows its status; while it is pending nobody else carries it.           *)

ReceiptStatuses == {"pending", "in transit", "accepted", "rejected", "settled"}
LockSteps == {None} \cup [pc : {"carry", "mark", "accept", "reject"}, r : Receipts]
InjectSteps == {None} \cup [pc : {"loop"}, left : SUBSET Receipts]
                 \cup [pc : {"accept", "reject", "accepting", "rejecting"}, r : Receipts,
                       left : SUBSET Receipts]

\* What a ferry carries is filed under its ID.
Filed(m) == \A i \in DOMAIN m : m[i] \in Receipts /\ ReceiptID[m[i]] = i

CarryingTypes ==
  /\ carrying = [f \in FerryNodes |-> carrying[f]]
  /\ \A f \in FerryNodes : Filed(carrying[f])

FerryTypes ==
  /\ status \in [Receipts -> ReceiptStatuses] /\ bearer \in [Receipts -> SUBSET FerryNodes]
  /\ expired \subseteq Receipts /\ raced \subseteq Receipts /\ replaced \subseteq Receipts
  /\ locked \in [FerryNodes -> LockSteps] /\ injecting \in [FerryNodes -> InjectSteps]
  /\ delivered \in [Receipts -> Nat]
  /\ CarryingTypes

\* Who holds the lock of a ferry for a receipt carries it.
HeldIsCarried ==
  \A f \in FerryNodes : locked[f] # None => locked[f].r \in Carried(f)

\* Without a race one hand at a time holds a receipt.
OneHand ==
  \A r \in Receipts \ raced : \A f, g \in FerryNodes :
    /\ Holds(locked[f], r) /\ Holds(locked[g], r) => f = g
    /\ Holds(injecting[f], r) /\ Holds(injecting[g], r) => f = g
    /\ ~(Holds(locked[f], r) /\ Holds(injecting[g], r))

\* It knows the status of what it holds, and a pending receipt is carried by
\* nobody else who was not given it.
KnowsStatus ==
  \A r \in Receipts \ raced : \A f \in FerryNodes :
    /\ Holds(locked[f], r) =>
         status[r] = IF locked[f].pc \in {"carry", "mark"} THEN "pending" ELSE "in transit"
    /\ Holds(injecting[f], r) => status[r] = "in transit"
    /\ status[r] = "pending" /\ r \in Carried(f) => Holds(locked[f], r) \/ <<f, r>> \in given

Undelivered ==
  \A r \in Receipts \ raced : status[r] \in {"pending", "in transit"} => delivered[r] = 0

FerryInv ==
  /\ FerryTypes /\ HeldIsCarried /\ OneHand /\ KnowsStatus /\ Undelivered
  /\ SoleBearer /\ CountedOnce

LEMMA LoadCarries ==
  ASSUME CarryingTypes, NEW f \in FerryNodes, NEW r \in Receipts, Load(f, r)
  PROVE  /\ CarryingTypes'
         /\ Carried(f)' = {q \in Carried(f) : ReceiptID[q] # ReceiptID[r]} \cup {r}
         /\ \A g \in FerryNodes \ {f} : Carried(g)' = Carried(g)
<1>. DEFINE m == [i \in DOMAIN carrying[f] \cup {ReceiptID[r]} |->
                    IF i = ReceiptID[r] THEN r ELSE carrying[f][i]]
<1>1. carrying' = [carrying EXCEPT ![f] = m]
  BY DEF Load
<1>2. carrying' = [g \in FerryNodes |-> IF g = f THEN m ELSE carrying[g]]
  BY <1>1 DEF CarryingTypes
<1>3. carrying'[f] = m /\ \A g \in FerryNodes \ {f} : carrying'[g] = carrying[g]
  BY <1>2
<1>4. Filed(m)
  BY DEF Filed, CarryingTypes
<1>5. Range(m) = {q \in Carried(f) : ReceiptID[q] # ReceiptID[r]} \cup {r}
  <2>1. ASSUME NEW q \in Range(m) PROVE q \in {p \in Carried(f) : ReceiptID[p] # ReceiptID[r]} \cup {r}
    BY DEF Range, Carried, Filed, CarryingTypes
  <2>2. r \in Range(m) BY DEF Range
  <2>3. ASSUME NEW q \in Carried(f), ReceiptID[q] # ReceiptID[r] PROVE q \in Range(m)
    BY <2>3 DEF Carried, Range, CarryingTypes, Filed
  <2>4. QED
    BY <2>1, <2>2, <2>3
<1>. HIDE DEF m
<1>6. CarryingTypes'
  BY <1>2, <1>4 DEF CarryingTypes
<1>7. QED
  BY <1>3, <1>5, <1>6 DEF Carried

LEMMA UnloadCarries ==
  ASSUME CarryingTypes, NEW f \in FerryNodes, NEW ids, Unload(f, ids)
  PROVE  /\ CarryingTypes'
         /\ Carried(f)' = {q \in Carried(f) : ReceiptID[q] \notin ids}
         /\ \A g \in FerryNodes \ {f} : Carried(g)' = Carried(g)
<1>. DEFINE m == [i \in DOMAIN carrying[f] \ ids |-> carrying[f][i]]
<1>1. carrying' = [carrying EXCEPT ![f] = m]
  BY DEF Unload, Restrict
<1>2. carrying' = [g \in FerryNodes |-> IF g = f THEN m ELSE carrying[g]]
  BY <1>1 DEF CarryingTypes
<1>3. carrying'[f] = m /\ \A g \in FerryNodes \ {f} : carrying'[g] = carrying[g]
  BY <1>2
<1>4. Filed(m)
  BY DEF Filed, CarryingTypes
<1>5. Range(m) = {q \in Carried(f) : ReceiptID[q] \notin ids}
  <2>1. ASSUME NEW q \in Range(m) PROVE q \in {p \in Carried(f) : ReceiptID[p] \notin ids}
    BY DEF Range, Carried, Filed, CarryingTypes
  <2>3. ASSUME NEW q \in Carried(f), ReceiptID[q] \notin ids PROVE q \in Range(m)
    BY <2>3 DEF Carried, Range, CarryingTypes, Filed
  <2>4. QED
    BY <2>1, <2>3
<1>. HIDE DEF m
<1>6. CarryingTypes'
  BY <1>2, <1>4 DEF CarryingTypes
<1>7. QED
  BY <1>3, <1>5, <1>6 DEF Carried

\* A ferry has one receipt under an ID.
LEMMA SameFile ==
  ASSUME CarryingTypes, NEW f \in FerryNodes, NEW q \in Carried(f), NEW r \in Carried(f),
         ReceiptID[q] = ReceiptID[r]
  PROVE  q = r
BY DEF Carried, Range, CarryingTypes, Filed

LEMMA NothingHeld == None.pc = "none" /\ \A q : ~Holds(None, q)
BY DEF None, Holds

\* What happens to a receipt that has reached its end.
FinalStep ==
  \A r \in Receipts : r \notin raced' /\ status[r] \in Ended =>
    status'[r] = status[r] \/ (status[r] = "accepted" /\ status'[r] = "settled")

LEMMA PickupKeeps ==
  ASSUME FerryInv, NEW f \in FerryNodes, NEW r \in Receipts, PickupReceipt(f, r)
  PROVE  FerryInv' /\ FinalStep
<1>1. status[r] = "pending" /\ locked[f] = None
  BY DEF PickupReceipt, MayPickup
<1>2. /\ CarryingTypes'
      /\ Carried(f)' = {q \in Carried(f) : ReceiptID[q] # ReceiptID[r]} \cup {r}
      /\ \A g \in FerryNodes \ {f} : Carried(g)' = Carried(g)
  BY LoadCarries DEF PickupReceipt, FerryInv, FerryTypes
<1>3. /\ locked'[f] = [pc |-> "carry", r |-> r]
      /\ \A g \in FerryNodes \ {f} : locked'[g] = locked[g]
      /\ UNCHANGED <<status, bearer, expired, injecting, delivered, given>>
      /\ replaced' = replaced \cup {q \in Carried(f) \ {r} : ReceiptID[q] = ReceiptID[r]}
  BY DEF PickupReceipt, Ousts, FerryInv, FerryTypes
<1>4. ASSUME NEW q \in Receipts
      PROVE  /\ Holds(locked'[f], q) <=> q = r
             /\ ~Holds(locked[f], q)
             /\ \A g \in FerryNodes \ {f} : Holds(locked'[g], q) <=> Holds(locked[g], q)
             /\ \A g \in FerryNodes : Holds(injecting'[g], q) <=> Holds(injecting[g], q)
  BY <1>1, <1>3 DEF Holds, None
<1>5. /\ raced \subseteq raced'
      /\ r \notin raced' =>
           \A g \in FerryNodes : ~Holds(locked[g], r) /\ ~Holds(injecting[g], r)
  BY DEF PickupReceipt, Race, InHand
<1>6. FerryTypes'
  <2>1. locked' \in [FerryNodes -> LockSteps]
    BY DEF PickupReceipt, FerryInv, FerryTypes, LockSteps
  <2>2. raced' \subseteq Receipts
    BY DEF PickupReceipt, Race, FerryInv, FerryTypes
  <2>3. Carried(f) \subseteq Receipts
    BY DEF Carried, Range, FerryInv, FerryTypes, CarryingTypes, Filed
  <2>4. QED
    BY <1>2, <1>3, <2>1, <2>2, <2>3 DEF FerryInv, FerryTypes
<1>7. HeldIsCarried'
  BY <1>2, <1>3 DEF FerryInv, HeldIsCarried, None
<1>8. OneHand'
  BY <1>4, <1>5 DEF FerryInv, OneHand
<1>9. KnowsStatus'
  <2>1. SUFFICES ASSUME NEW q \in Receipts \ raced', NEW g \in FerryNodes
        PROVE /\ Holds(locked'[g], q) =>
                   status'[q] = IF locked'[g].pc \in {"carry", "mark"} THEN "pending" ELSE "in transit"
              /\ Holds(injecting'[g], q) => status'[q] = "in transit"
              /\ status'[q] = "pending" /\ q \in Carried(g)' => Holds(locked'[g], q) \/ <<g, q>> \in given'
    BY DEF KnowsStatus
  <2>2. /\ Holds(locked[g], q) =>
             status[q] = IF locked[g].pc \in {"carry", "mark"} THEN "pending" ELSE "in transit"
        /\ Holds(injecting[g], q) => status[q] = "in transit"
        /\ status[q] = "pending" /\ q \in Carried(g) => Holds(locked[g], q) \/ <<g, q>> \in given
    BY <1>5 DEF FerryInv, KnowsStatus
  <2>3. CASE g = f
    <3>1. Holds(locked'[f], q) <=> q = r
      BY <1>4
    <3>2. q = r => status'[q] = "pending" /\ locked'[f].pc \in {"carry", "mark"}
      BY <1>1, <1>3
    <3>3. q \in Carried(f)' => q \in Carried(f) \/ q = r
      BY <1>2
    <3>4. ~Holds(locked[f], q)
      BY <1>4
    <3>5. Holds(injecting'[f], q) => status'[q] = "in transit"
      BY <1>3, <1>4, <2>2, <2>3
    <3>6. status'[q] = status[q]
      BY <1>3
    <3>7. QED
      BY <1>3, <2>2, <2>3, <3>1, <3>2, <3>3, <3>4, <3>5, <3>6
  <2>4. CASE g # f
    BY <1>2, <1>3, <1>4, <2>2, <2>4
  <2>5. QED
    BY <2>3, <2>4
<1>10. Undelivered' /\ CountedOnce' /\ FinalStep
  BY <1>3, <1>5 DEF FerryInv, Undelivered, CountedOnce, FinalStep
<1>11. SoleBearer'
  <2>1. SUFFICES ASSUME NEW q \in Receipts \ raced', status'[q] = "in transit"
        PROVE /\ \A g \in FerryNodes : q \in Carried(g)' => bearer'[q] = {g} \/ <<g, q>> \in given'
              /\ q \in replaced' \/ \E g \in FerryNodes : q \in Carried(g)'
    BY DEF SoleBearer
  <2>2. q # r /\ status[q] = "in transit"
    BY <1>1, <1>3, <2>1
  <2>3. /\ \A g \in FerryNodes : q \in Carried(g) => bearer[q] = {g} \/ <<g, q>> \in given
        /\ q \in replaced \/ \E g \in FerryNodes : q \in Carried(g)
    BY <1>5, <2>2 DEF FerryInv, SoleBearer
  <2>4. \A g \in FerryNodes : q \in Carried(g)' => q \in Carried(g)
    BY <1>2, <2>2
  <2>5. ASSUME NEW g \in FerryNodes, q \in Carried(g), q \notin Carried(g)'
        PROVE  q \in replaced'
    BY <1>2, <1>3, <2>2, <2>5
  <2>6. QED
    BY <1>3, <2>3, <2>4, <2>5
<1>12. QED
  BY <1>6, <1>7, <1>8, <1>9, <1>10, <1>11 DEF FerryInv

\* A step that takes nothing into a hand and sets no status.
LEMMA QuietKeeps ==
  ASSUME FerryInv, FerryTypes', HeldIsCarried',
         UNCHANGED <<status, bearer>>, replaced \subseteq replaced', given \subseteq given',
         expired \subseteq expired', raced \subseteq raced',
         \A q \in Receipts \ raced' : delivered'[q] = delivered[q],
         \A q \in Receipts, g \in FerryNodes :
           /\ Holds(locked'[g], q) =>
                /\ Holds(locked[g], q)
                /\ locked'[g].pc \in {"carry", "mark"} <=> locked[g].pc \in {"carry", "mark"}
           /\ Holds(injecting'[g], q) => Holds(injecting[g], q)
           /\ q \in Carried(g)' => q \in Carried(g) \/ <<g, q>> \in given'
           /\ q \in Carried(g) /\ q \notin Carried(g)' => status[q] # "in transit" \/ q \in replaced'
           /\ status[q] = "pending" /\ Holds(locked[g], q) => Holds(locked'[g], q)
  PROVE  FerryInv' /\ FinalStep
<1>1. OneHand' BY DEF OneHand, FerryInv
<1>2. KnowsStatus' BY DEF KnowsStatus, FerryInv
<1>3. Undelivered' /\ CountedOnce' /\ FinalStep
  BY DEF FerryInv, Undelivered, CountedOnce, FinalStep
<1>4. SoleBearer' BY DEF SoleBearer, FerryInv
<1>5. QED
  BY <1>1, <1>2, <1>3, <1>4 DEF FerryInv

LEMMA TestPendingKeeps ==
  ASSUME FerryInv, NEW f \in FerryNodes, TestPending(f)
  PROVE  FerryInv' /\ FinalStep
<1>1. /\ UNCHANGED <<status, bearer, expired, carrying, injecting, delivered, raced, replaced, given>>
      /\ \A g \in FerryNodes \ {f} : locked'[g] = locked[g]
      /\ locked'[f] = IF status[locked[f].r] = "pending"
                      THEN [pc |-> "mark", r |-> locked[f].r] ELSE None
      /\ locked[f].pc = "carry" /\ locked[f].r \in Receipts
  BY DEF TestPending, FerryInv, FerryTypes, LockSteps, None
<1>2. FerryTypes' BY <1>1 DEF TestPending, FerryInv, FerryTypes, LockSteps, CarryingTypes
<1>3. \A g \in FerryNodes : Carried(g)' = Carried(g)
  BY <1>1 DEF Carried
<1>4. HeldIsCarried'
  BY <1>1, <1>3 DEF FerryInv, HeldIsCarried, None
<1>5. ASSUME NEW q \in Receipts, NEW g \in FerryNodes
      PROVE  /\ Holds(locked'[g], q) =>
                  /\ Holds(locked[g], q)
                  /\ locked'[g].pc \in {"carry", "mark"} <=> locked[g].pc \in {"carry", "mark"}
             /\ status[q] = "pending" /\ Holds(locked[g], q) => Holds(locked'[g], q)
  BY <1>1 DEF Holds, None
<1>6. QED
  BY <1>1, <1>2, <1>3, <1>4, <1>5, QuietKeeps

LEMMA StoreKeeps ==
  ASSUME FerryInv, NEW f \in FerryNodes, NEW r \in Receipts, StoreReceipt(f, r)
  PROVE  FerryInv' /\ FinalStep
<1>1. /\ UNCHANGED <<status, bearer, expired, locked, injecting, delivered, raced>>
      /\ locked[f] = None /\ given' = given \cup {<<f, r>>}
      /\ replaced' = replaced \cup {q \in Carried(f) \ {r} : ReceiptID[q] = ReceiptID[r]}
  BY DEF StoreReceipt, Ousts
<1>2. /\ CarryingTypes'
      /\ Carried(f)' = {q \in Carried(f) : ReceiptID[q] # ReceiptID[r]} \cup {r}
      /\ \A g \in FerryNodes \ {f} : Carried(g)' = Carried(g)
  BY LoadCarries DEF StoreReceipt, FerryInv, FerryTypes
<1>3. FerryTypes'
  <2>1. Carried(f) \subseteq Receipts
    BY DEF Carried, Range, FerryInv, FerryTypes, CarryingTypes, Filed
  <2>2. QED
    BY <1>1, <1>2, <2>1 DEF FerryInv, FerryTypes
<1>4. HeldIsCarried'
  BY <1>1, <1>2 DEF FerryInv, HeldIsCarried
<1>5. ASSUME NEW q \in Receipts, NEW g \in FerryNodes
      PROVE  /\ q \in Carried(g)' => q \in Carried(g) \/ <<g, q>> \in given'
             /\ q \in Carried(g) /\ q \notin Carried(g)' => q \in replaced'
  BY <1>1, <1>2
<1>6. QED
  BY <1>1, <1>3, <1>4, <1>5, QuietKeeps

LEMMA DropKeeps ==
  ASSUME FerryInv, NEW f \in FerryNodes, NEW r \in Receipts, Drop(f, r)
  PROVE  FerryInv' /\ FinalStep
<1>1. /\ UNCHANGED <<status, bearer, expired, locked, injecting, delivered, raced, replaced, given>>
      /\ locked[f] = None /\ r \in Carried(f) /\ status[r] # "in transit"
  BY DEF Drop, MayDeliver
<1>2. /\ CarryingTypes'
      /\ Carried(f)' = {q \in Carried(f) : ReceiptID[q] \notin {ReceiptID[r]}}
      /\ \A g \in FerryNodes \ {f} : Carried(g)' = Carried(g)
  BY UnloadCarries DEF Drop, FerryInv, FerryTypes
<1>3. FerryTypes'
  BY <1>1, <1>2 DEF FerryInv, FerryTypes
<1>4. HeldIsCarried'
  BY <1>1, <1>2 DEF FerryInv, HeldIsCarried, None
<1>5. ASSUME NEW q \in Carried(f), ReceiptID[q] = ReceiptID[r] PROVE q = r
  BY <1>1, <1>5, SameFile DEF FerryInv, FerryTypes
<1>6. ASSUME NEW q \in Receipts, NEW g \in FerryNodes
      PROVE  /\ q \in Carried(g)' => q \in Carried(g)
             /\ q \in Carried(g) /\ q \notin Carried(g)' => status[q] # "in transit"
  BY <1>1, <1>2, <1>5
<1>7. QED
  BY <1>1, <1>3, <1>4, <1>6, QuietKeeps

LEMMA PurgeKeeps ==
  ASSUME FerryInv, NEW f \in FerryNodes, PurgeDelivered(f)
  PROVE  FerryInv' /\ FinalStep
<1>. DEFINE done == {i \in DOMAIN carrying[f] : Purgeable(carrying[f][i])}
<1>1. /\ UNCHANGED <<status, bearer, expired, locked, injecting, delivered, raced, replaced, given>>
      /\ locked[f] = None /\ Unload(f, done)
  BY DEF PurgeDelivered
<1>2. ASSUME NEW q \in Carried(f), ReceiptID[q] \in done PROVE status[q] # "in transit"
  <2>1. PICK i \in DOMAIN carrying[f] : carrying[f][i] = q
    BY DEF Carried, Range
  <2>2. ReceiptID[q] = i
    BY <2>1 DEF FerryInv, FerryTypes, CarryingTypes, Filed
  <2>3. QED
    BY <1>2, <2>1, <2>2 DEF Purgeable, Ended
<1>. HIDE DEF done
<1>3. /\ CarryingTypes'
      /\ Carried(f)' = {q \in Carried(f) : ReceiptID[q] \notin done}
      /\ \A g \in FerryNodes \ {f} : Carried(g)' = Carried(g)
  BY <1>1, UnloadCarries DEF FerryInv, FerryTypes
<1>4. FerryTypes'
  BY <1>1, <1>3 DEF FerryInv, FerryTypes
<1>5. HeldIsCarried'
  BY <1>1, <1>3 DEF FerryInv, HeldIsCarried, None
<1>6. ASSUME NEW q \in Receipts, NEW g \in FerryNodes
      PROVE  /\ q \in Carried(g)' => q \in Carried(g)
             /\ q \in Carried(g) /\ q \notin Carried(g)' => status[q] # "in transit"
  BY <1>2, <1>3
<1>7. QED
  BY <1>1, <1>4, <1>5, <1>6, QuietKeeps

LEMMA InjectReceiptsKeeps ==
  ASSUME FerryInv, NEW f \in FerryNodes, InjectReceipts(f) \/ InjectDone(f)
  PROVE  FerryInv' /\ FinalStep
<1>1. /\ UNCHANGED <<status, bearer, expired, carrying, locked, delivered, raced, replaced, given>>
      /\ \A g \in FerryNodes \ {f} : injecting'[g] = injecting[g]
      /\ injecting'[f].pc \in {"none", "loop"}
  BY DEF InjectReceipts, InjectDone, FerryInv, FerryTypes, None
<1>2. \A g \in FerryNodes : Carried(g)' = Carried(g)
  BY <1>1 DEF Carried
<1>3. FerryTypes'
  BY <1>1 DEF Carried, Range, FerryInv, FerryTypes, CarryingTypes, Filed, InjectSteps, InjectReceipts, InjectDone
<1>4. HeldIsCarried'
  BY <1>1, <1>2 DEF FerryInv, HeldIsCarried
<1>5. ASSUME NEW q \in Receipts, NEW g \in FerryNodes
      PROVE  Holds(injecting'[g], q) => Holds(injecting[g], q)
  BY <1>1 DEF Holds
<1>6. QED
  BY <1>1, <1>2, <1>3, <1>4, <1>5, QuietKeeps

LEMMA ExpireKeeps ==
  ASSUME FerryInv, NEW r \in Receipts, Expire(r)
  PROVE  FerryInv' /\ FinalStep
BY QuietKeeps DEF Expire, Carried, FerryInv, FerryTypes, CarryingTypes, HeldIsCarried

\* A step that takes a receipt in transit into a hand.
LEMMA TakeKeeps ==
  ASSUME FerryInv, FerryTypes', HeldIsCarried', NEW f \in FerryNodes, NEW r \in Receipts,
         UNCHANGED <<status, bearer, expired, carrying, delivered, replaced, given>>,
         status[r] = "in transit", Race(r),
         \A q \in Receipts, g \in FerryNodes :
           /\ Holds(locked'[g], q) =>
                \/ Holds(locked[g], q) /\ locked'[g] = locked[g]
                \/ q = r /\ g = f /\ locked'[g].pc \notin {"carry", "mark"}
           /\ Holds(injecting'[g], q) => Holds(injecting[g], q) \/ (q = r /\ g = f)
           /\ Holds(locked[g], q) => Holds(locked'[g], q),
         ~(Holds(locked'[f], r) /\ ~Holds(locked[f], r)
             /\ Holds(injecting'[f], r) /\ ~Holds(injecting[f], r))
  PROVE  FerryInv' /\ FinalStep
<1>1. /\ raced \subseteq raced'
      /\ r \notin raced' =>
           \A g \in FerryNodes : ~Holds(locked[g], r) /\ ~Holds(injecting[g], r)
  BY DEF Race, InHand
<1>2. \A g \in FerryNodes : Carried(g)' = Carried(g)
  BY DEF Carried
<1>3. OneHand'
  <2>1. SUFFICES ASSUME NEW q \in Receipts \ raced', NEW g \in FerryNodes, NEW h \in FerryNodes
        PROVE /\ Holds(locked'[h], q) /\ Holds(locked'[g], q) => h = g
              /\ Holds(injecting'[h], q) /\ Holds(injecting'[g], q) => h = g
              /\ ~(Holds(locked'[h], q) /\ Holds(injecting'[g], q))
    BY DEF OneHand
  <2>2. q \in Receipts \ raced
    BY <1>1
  <2>3. CASE q = r BY <1>1, <2>3
  <2>4. CASE q # r BY <2>2, <2>4 DEF FerryInv, OneHand
  <2>5. QED
    BY <2>3, <2>4
<1>4. KnowsStatus'
  <2>1. SUFFICES ASSUME NEW q \in Receipts \ raced', NEW g \in FerryNodes
        PROVE /\ Holds(locked'[g], q) =>
                   status'[q] = IF locked'[g].pc \in {"carry", "mark"} THEN "pending" ELSE "in transit"
              /\ Holds(injecting'[g], q) => status'[q] = "in transit"
              /\ status'[q] = "pending" /\ q \in Carried(g)' => Holds(locked'[g], q) \/ <<g, q>> \in given'
    BY DEF KnowsStatus
  <2>2. /\ Holds(locked[g], q) =>
             status[q] = IF locked[g].pc \in {"carry", "mark"} THEN "pending" ELSE "in transit"
        /\ Holds(injecting[g], q) => status[q] = "in transit"
        /\ status[q] = "pending" /\ q \in Carried(g) => Holds(locked[g], q) \/ <<g, q>> \in given
    BY <1>1 DEF FerryInv, KnowsStatus
  <2>3. Holds(locked'[g], q) =>
          status'[q] = IF locked'[g].pc \in {"carry", "mark"} THEN "pending" ELSE "in transit" BY <2>2
  <2>4. Holds(injecting'[g], q) => status'[q] = "in transit"
    BY <2>2
  <2>5. status'[q] = "pending" /\ q \in Carried(g)' => Holds(locked'[g], q) \/ <<g, q>> \in given'
    BY <1>2, <2>2
  <2>6. QED
    BY <2>3, <2>4, <2>5
<1>5. Undelivered' /\ CountedOnce' /\ FinalStep
  BY <1>1 DEF FerryInv, Undelivered, CountedOnce, FinalStep
<1>6. SoleBearer'
  <2>1. SUFFICES ASSUME NEW q \in Receipts \ raced', status'[q] = "in transit"
        PROVE /\ \A g \in FerryNodes : q \in Carried(g)' => bearer'[q] = {g} \/ <<g, q>> \in given'
              /\ q \in replaced' \/ \E g \in FerryNodes : q \in Carried(g)'
    BY DEF SoleBearer
  <2>2. /\ \A g \in FerryNodes : q \in Carried(g) => bearer[q] = {g} \/ <<g, q>> \in given
        /\ q \in replaced \/ \E g \in FerryNodes : q \in Carried(g)
    BY <1>1, <2>1 DEF FerryInv, SoleBearer
  <2>3. bearer' = bearer /\ replaced' = replaced /\ given' = given
    OBVIOUS
  <2>4. ASSUME NEW g \in FerryNodes, q \in Carried(g)' PROVE bearer'[q] = {g} \/ <<g, q>> \in given'
    BY <1>2, <2>2, <2>3, <2>4
  <2>5. q \in replaced' \/ \E g \in FerryNodes : q \in Carried(g)'
    <3>1. CASE q \in replaced
      BY <2>3, <3>1
    <3>2. CASE q \notin replaced
      <4>1. PICK g \in FerryNodes : q \in Carried(g)
        BY <2>2, <3>2
      <4>2. q \in Carried(g)'
        BY <1>2, <4>1
      <4>3. QED
        BY <4>2
    <3>3. QED
      BY <3>1, <3>2
  <2>6. QED
    BY <2>4, <2>5
<1>7. QED
  BY <1>3, <1>4, <1>5, <1>6 DEF FerryInv

LEMMA DeliverReceiptKeeps ==
  ASSUME FerryInv, NEW f \in FerryNodes, NEW r \in Receipts, NEW ok \in BOOLEAN,
         DeliverReceipt(f, r, ok)
  PROVE  FerryInv' /\ FinalStep
<1>1. /\ UNCHANGED <<status, bearer, expired, carrying, injecting, delivered, replaced, given>>
      /\ status[r] = "in transit" /\ Race(r) /\ locked[f] = None /\ r \in Carried(f)
      /\ locked'[f].pc \in {"accept", "reject"} /\ locked'[f].r = r
      /\ \A g \in FerryNodes \ {f} : locked'[g] = locked[g]
  BY DEF DeliverReceipt, MayDeliver, FerryInv, FerryTypes
<1>2. \A g \in FerryNodes : Carried(g)' = Carried(g)
  BY <1>1 DEF Carried
<1>3. FerryTypes' BY <1>1 DEF DeliverReceipt, FerryInv, FerryTypes, LockSteps, Race, CarryingTypes
<1>4. HeldIsCarried'
  BY <1>1, <1>2 DEF FerryInv, HeldIsCarried
<1>5. ASSUME NEW q \in Receipts, NEW g \in FerryNodes
      PROVE  /\ Holds(locked'[g], q) =>
                  \/ Holds(locked[g], q) /\ locked'[g] = locked[g]
                  \/ q = r /\ g = f /\ locked'[g].pc \notin {"carry", "mark"}
             /\ Holds(locked[g], q) => Holds(locked'[g], q)
  <2>1. CASE g = f BY <1>1, <2>1, NothingHeld DEF Holds
  <2>2. CASE g # f
    BY <1>1, <2>2
  <2>3. QED
    BY <2>1, <2>2
<1>6. QED
  BY <1>1, <1>3, <1>4, <1>5, TakeKeeps

LEMMA InjectTestKeeps ==
  ASSUME FerryInv, NEW f \in FerryNodes, NEW r \in Receipts, InjectTest(f, r)
  PROVE  FerryInv' /\ FinalStep
<1>1. /\ UNCHANGED <<status, bearer, expired, carrying, locked, delivered, replaced, given>>
      /\ injecting[f].pc = "loop"
      /\ \A g \in FerryNodes \ {f} : injecting'[g] = injecting[g]
  BY DEF InjectTest, FerryInv, FerryTypes
<1>2. \A g \in FerryNodes : Carried(g)' = Carried(g)
  BY <1>1 DEF Carried
<1>3. injecting[f].left \subseteq Receipts
  BY <1>1 DEF FerryInv, FerryTypes, InjectSteps, None
<1>4. HeldIsCarried'
  BY <1>1, <1>2 DEF FerryInv, HeldIsCarried
<1>5. CASE MayDeliver(r)
  <2>1. /\ injecting'[f].pc \in {"accept", "reject"} /\ injecting'[f].r = r
        /\ Race(r) /\ status[r] = "in transit"
    <3>1. PICK v \in {"accept", "reject"} :
            injecting' = [injecting EXCEPT ![f] = [pc |-> v, r |-> r, left |-> injecting[f].left \ {r}]]
      BY <1>5 DEF InjectTest
    <3>2. Race(r) /\ status[r] = "in transit"
      BY <1>5 DEF InjectTest, MayDeliver
    <3>3. QED
      BY <3>1, <3>2 DEF FerryInv, FerryTypes
  <2>2. injecting' \in [FerryNodes -> InjectSteps]
    BY <1>3, <1>5 DEF InjectTest, FerryInv, FerryTypes, InjectSteps
  <2>3. raced' \subseteq Receipts
    BY <2>1 DEF Race, FerryInv, FerryTypes
  <2>4. FerryTypes'
    BY <1>1, <2>2, <2>3 DEF FerryInv, FerryTypes, CarryingTypes
  <2>5. ASSUME NEW q \in Receipts, NEW g \in FerryNodes
        PROVE  Holds(injecting'[g], q) => Holds(injecting[g], q) \/ (q = r /\ g = f)
    BY <1>1, <2>1 DEF Holds
  <2>6. QED
    BY <1>1, <1>4, <2>1, <2>4, <2>5, TakeKeeps
<1>6. CASE ~MayDeliver(r)
  <2>1. /\ injecting' = [injecting EXCEPT ![f].left = injecting[f].left \ {r}]
        /\ UNCHANGED raced
    BY <1>6 DEF InjectTest
  <2>2. injecting[f] \in [pc : {"loop"}, left : SUBSET Receipts]
    BY <1>1 DEF FerryInv, FerryTypes, InjectSteps, None
  <2>3. injecting' \in [FerryNodes -> InjectSteps] /\ injecting'[f].pc = "loop"
    BY <2>1, <2>2 DEF FerryInv, FerryTypes, InjectSteps
  <2>4. FerryTypes'
    BY <1>1, <2>1, <2>3 DEF FerryInv, FerryTypes, CarryingTypes
  <2>5. ASSUME NEW q \in Receipts, NEW g \in FerryNodes
        PROVE  Holds(injecting'[g], q) => Holds(injecting[g], q)
    BY <1>1, <2>3 DEF Holds
  <2>6. QED
    BY <1>1, <1>2, <1>4, <2>1, <2>4, <2>5, QuietKeeps
<1>7. QED
  BY <1>5, <1>6

LEMMA InjectMarkKeeps ==
  ASSUME FerryInv, NEW f \in FerryNodes, InjectMark(f)
  PROVE  FerryInv' /\ FinalStep
<1>. PICK r : r = injecting[f].r
  OBVIOUS
<1>1. /\ UNCHANGED <<status, bearer, expired, carrying, locked, raced, replaced, given>>
      /\ injecting[f].pc \in {"accept", "reject"}
  BY DEF InjectMark
<1>2. /\ injecting[f] \in [pc : {"accept", "reject", "accepting", "rejecting"}, r : Receipts,
                            left : SUBSET Receipts]
      /\ r \in Receipts /\ injecting[f].left \subseteq Receipts /\ Holds(injecting[f], r)
  BY <1>1, NothingHeld DEF FerryInv, FerryTypes, InjectSteps, Holds
<1>3. \A g \in FerryNodes : Carried(g)' = Carried(g)
  BY <1>1 DEF Carried
<1>4. HeldIsCarried'
  BY <1>1, <1>3 DEF FerryInv, HeldIsCarried
<1>5. CASE MayDeliver(r)
  <2>1. PICK sure \in {"accepting", "rejecting"} :
          injecting' = [injecting EXCEPT ![f].pc = sure] /\ UNCHANGED delivered
    BY <1>5 DEF InjectMark
  <2>2. /\ injecting'[f].r = r
        /\ injecting'[f] \in [pc : {"accept", "reject", "accepting", "rejecting"}, r : Receipts,
                              left : SUBSET Receipts]
        /\ injecting' = [g \in FerryNodes |-> IF g = f THEN injecting'[f] ELSE injecting[g]]
    BY <1>2, <2>1 DEF FerryInv, FerryTypes
  <2>3. FerryTypes'
    BY <1>1, <2>1, <2>2 DEF FerryInv, FerryTypes, CarryingTypes, InjectSteps
  <2>4. ASSUME NEW q \in Receipts, NEW g \in FerryNodes
        PROVE  Holds(injecting'[g], q) => Holds(injecting[g], q)
    BY <1>2, <2>2 DEF Holds
  <2>5. QED
    BY <1>1, <1>3, <1>4, <2>1, <2>3, <2>4, QuietKeeps
<1>6. CASE ~MayDeliver(r)
  <2>1. PICK n \in {0, 1} :
          /\ injecting' = [injecting EXCEPT ![f] = [pc |-> "loop", left |-> injecting[f].left]]
          /\ delivered' = [delivered EXCEPT ![r] = @ + n]
    BY <1>6 DEF InjectMark
  <2>2. r \in raced
    BY <1>2, <1>6 DEF FerryInv, KnowsStatus, MayDeliver
  <2>3. [pc |-> "loop", left |-> injecting[f].left] \in InjectSteps
    BY <1>2 DEF InjectSteps
  <2>4. /\ injecting' \in [FerryNodes -> InjectSteps] /\ injecting'[f].pc = "loop"
        /\ \A g \in FerryNodes \ {f} : injecting'[g] = injecting[g]
    BY <2>1, <2>3 DEF FerryInv, FerryTypes
  <2>5. /\ delivered' \in [Receipts -> Nat]
        /\ \A q \in Receipts \ raced' : delivered'[q] = delivered[q]
    BY <1>1, <1>2, <2>1, <2>2 DEF FerryInv, FerryTypes
  <2>6. FerryTypes'
    BY <1>1, <2>4, <2>5 DEF FerryInv, FerryTypes, CarryingTypes
  <2>7. ASSUME NEW q \in Receipts, NEW g \in FerryNodes
        PROVE  Holds(injecting'[g], q) => Holds(injecting[g], q)
    BY <2>4 DEF Holds
  <2>8. QED
    BY <1>1, <1>3, <1>4, <2>5, <2>6, <2>7, QuietKeeps
<1>7. QED
  BY <1>5, <1>6

LEMMA MarkInTransitKeeps ==
  ASSUME FerryInv, NEW f \in FerryNodes, MarkInTransit(f)
  PROVE  FerryInv' /\ FinalStep
<1>. PICK r : r = locked[f].r
  OBVIOUS
<1>1. /\ UNCHANGED <<expired, carrying, injecting, delivered, raced, replaced, given>>
      /\ status' = [status EXCEPT ![r] = "in transit"]
      /\ bearer' = [bearer EXCEPT ![r] = {f}]
      /\ locked'[f] = None
      /\ \A g \in FerryNodes \ {f} : locked'[g] = locked[g]
      /\ locked[f].pc = "mark" /\ r \in Receipts
  <2>1. locked[f] \in LockSteps /\ locked[f].pc = "mark"
    BY DEF MarkInTransit, FerryInv, FerryTypes
  <2>2. locked[f].r \in Receipts
    BY <2>1 DEF LockSteps, None
  <2>3. QED
    BY <2>1, <2>2 DEF MarkInTransit, FerryInv, FerryTypes
<1>2. Holds(locked[f], r) /\ r \in Carried(f)
  <2>1. locked[f].pc # None.pc
    BY <1>1 DEF None
  <2>2. QED
    BY <1>1, <2>1 DEF Holds, FerryInv, HeldIsCarried
<1>3. \A g \in FerryNodes : Carried(g)' = Carried(g)
  BY <1>1 DEF Carried
<1>4. FerryTypes'
  <2>1. locked' \in [FerryNodes -> LockSteps]
    BY DEF MarkInTransit, FerryInv, FerryTypes, LockSteps
  <2>2. status' \in [Receipts -> ReceiptStatuses] /\ bearer' \in [Receipts -> SUBSET FerryNodes]
    BY <1>1 DEF FerryInv, FerryTypes, ReceiptStatuses
  <2>3. QED
    BY <1>1, <2>1, <2>2 DEF FerryInv, FerryTypes, CarryingTypes
<1>5. HeldIsCarried'
  BY <1>1, <1>3 DEF FerryInv, HeldIsCarried
<1>6. ASSUME NEW q \in Receipts
      PROVE  /\ ~Holds(locked'[f], q) /\ Holds(locked[f], q) => q = r
             /\ \A g \in FerryNodes : Holds(locked'[g], q) => Holds(locked[g], q) /\ g # f
  BY <1>1, NothingHeld DEF Holds
<1>7. r \notin raced => status[r] = "pending"
  BY <1>1, <1>2 DEF FerryInv, KnowsStatus
<1>8. /\ status'[r] = "in transit" /\ bearer'[r] = {f}
      /\ \A q \in Receipts \ {r} : status'[q] = status[q] /\ bearer'[q] = bearer[q]
  BY <1>1 DEF FerryInv, FerryTypes
<1>9. OneHand' BY <1>1, <1>6 DEF OneHand, FerryInv
<1>10. KnowsStatus'
  <2>1. SUFFICES ASSUME NEW q \in Receipts \ raced', NEW g \in FerryNodes
        PROVE /\ Holds(locked'[g], q) =>
                   status'[q] = IF locked'[g].pc \in {"carry", "mark"} THEN "pending" ELSE "in transit"
              /\ Holds(injecting'[g], q) => status'[q] = "in transit"
              /\ status'[q] = "pending" /\ q \in Carried(g)' => Holds(locked'[g], q) \/ <<g, q>> \in given'
    BY DEF KnowsStatus
  <2>2. q \in Receipts \ raced
    BY <1>1
  <2>3. CASE q = r BY <1>1, <1>2, <1>6, <1>8, <2>2, <2>3 DEF FerryInv, OneHand
  <2>4. CASE q # r
    <3>1. /\ Holds(locked[g], q) =>
               status[q] = IF locked[g].pc \in {"carry", "mark"} THEN "pending" ELSE "in transit"
          /\ Holds(injecting[g], q) => status[q] = "in transit"
          /\ status[q] = "pending" /\ q \in Carried(g) => Holds(locked[g], q) \/ <<g, q>> \in given
      BY <2>2 DEF FerryInv, KnowsStatus
    <3>2. Holds(locked[g], q) => g # f
      BY <1>6, <2>4
    <3>3. Holds(locked'[g], q) => Holds(locked[g], q) /\ locked'[g] = locked[g]
      BY <1>1, <1>6
    <3>4. g # f => locked'[g] = locked[g]
      BY <1>1
    <3>5. /\ injecting' = injecting /\ status'[q] = status[q] /\ Carried(g)' = Carried(g)
          /\ given' = given
      BY <1>1, <1>3, <1>8, <2>4
    <3>6. QED
      BY <3>1, <3>2, <3>3, <3>4, <3>5
  <2>5. QED
    BY <2>3, <2>4
<1>11. Undelivered' /\ CountedOnce' /\ FinalStep
  BY <1>1, <1>7, <1>8 DEF FerryInv, Undelivered, CountedOnce, FinalStep, Ended
<1>12. SoleBearer'
  <2>1. SUFFICES ASSUME NEW q \in Receipts \ raced', status'[q] = "in transit"
        PROVE /\ \A g \in FerryNodes : q \in Carried(g)' => bearer'[q] = {g} \/ <<g, q>> \in given'
              /\ q \in replaced' \/ \E g \in FerryNodes : q \in Carried(g)'
    BY DEF SoleBearer
  <2>2. CASE q = r
    <3>1. ASSUME NEW g \in FerryNodes, r \in Carried(g) PROVE g = f \/ <<g, r>> \in given
      BY <1>1, <1>2, <1>7, <2>2, <3>1 DEF FerryInv, KnowsStatus, OneHand
    <3>2. bearer'[q] = {f} /\ q \in Carried(f)'
      BY <1>2, <1>3, <1>8, <2>2
    <3>3. QED
      BY <1>1, <1>3, <2>2, <3>1, <3>2
  <2>3. CASE q # r
    <3>1. /\ \A g \in FerryNodes : q \in Carried(g) => bearer[q] = {g} \/ <<g, q>> \in given
          /\ q \in replaced \/ \E g \in FerryNodes : q \in Carried(g)
      BY <1>1, <1>8, <2>1, <2>3 DEF FerryInv, SoleBearer
    <3>2. bearer'[q] = bearer[q] /\ replaced' = replaced /\ given' = given
      BY <1>1, <1>8, <2>3
    <3>3. ASSUME NEW g \in FerryNodes, q \in Carried(g)' PROVE bearer'[q] = {g} \/ <<g, q>> \in given'
      BY <1>3, <3>1, <3>2, <3>3
    <3>4. q \in replaced' \/ \E g \in FerryNodes : q \in Carried(g)'
      BY <1>3, <3>1, <3>2
    <3>5. QED
      BY <3>3, <3>4
  <2>4. QED
    BY <2>2, <2>3
<1>13. QED
  BY <1>4, <1>5, <1>9, <1>10, <1>11, <1>12 DEF FerryInv

\* A hand that ends what it holds.
LEMMA EndKeeps ==
  ASSUME FerryInv, FerryTypes', HeldIsCarried', NEW f \in FerryNodes, NEW r \in Receipts,
         \/ Holds(locked[f], r) /\ locked[f].pc \notin {"carry", "mark"} /\ ~Holds(locked'[f], r)
         \/ Holds(injecting[f], r) /\ ~Holds(injecting'[f], r),
         UNCHANGED <<bearer, expired, raced, replaced, given>>,
         NEW st \in {"accepted", "rejected"}, status' = [status EXCEPT ![r] = st],
         NEW d \in {0, 1}, delivered' = [delivered EXCEPT ![r] = @ + d],
         st = "accepted" => d = 1, d = 1 => st = "accepted" \/ r \in expired,
         \A q \in Receipts, g \in FerryNodes :
           /\ Holds(locked'[g], q) => Holds(locked[g], q) /\ locked'[g] = locked[g]
           /\ Holds(injecting'[g], q) => Holds(injecting[g], q)
           /\ q # r /\ Holds(locked[g], q) => Holds(locked'[g], q)
           /\ q \in Carried(g)' => q \in Carried(g)
           /\ q # r /\ q \in Carried(g) => q \in Carried(g)'
  PROVE  FerryInv' /\ FinalStep
<1>1. /\ status'[r] = st /\ delivered'[r] = delivered[r] + d
      /\ \A q \in Receipts \ {r} : status'[q] = status[q] /\ delivered'[q] = delivered[q]
      /\ delivered[r] \in Nat
  BY DEF FerryInv, FerryTypes
<1>2. r \notin raced => status[r] = "in transit" /\ delivered[r] = 0 BY DEF FerryInv, KnowsStatus, Undelivered
<1>3. r \notin raced => \A g \in FerryNodes : ~Holds(locked'[g], r) /\ ~Holds(injecting'[g], r)
  BY DEF FerryInv, OneHand
<1>4. OneHand' BY DEF OneHand, FerryInv
<1>5. KnowsStatus'
  <2>1. SUFFICES ASSUME NEW q \in Receipts \ raced', NEW g \in FerryNodes
        PROVE /\ Holds(locked'[g], q) =>
                   status'[q] = IF locked'[g].pc \in {"carry", "mark"} THEN "pending" ELSE "in transit"
              /\ Holds(injecting'[g], q) => status'[q] = "in transit"
              /\ status'[q] = "pending" /\ q \in Carried(g)' => Holds(locked'[g], q) \/ <<g, q>> \in given'
    BY DEF KnowsStatus
  <2>2. CASE q = r
    BY <1>1, <1>3, <2>2
  <2>3. CASE q # r
    <3>1. /\ Holds(locked[g], q) =>
               status[q] = IF locked[g].pc \in {"carry", "mark"} THEN "pending" ELSE "in transit"
          /\ Holds(injecting[g], q) => status[q] = "in transit"
          /\ status[q] = "pending" /\ q \in Carried(g) => Holds(locked[g], q) \/ <<g, q>> \in given
      BY DEF FerryInv, KnowsStatus
    <3>2. status'[q] = status[q]
      BY <1>1, <2>3
    <3>3. Holds(locked'[g], q) => Holds(locked[g], q) /\ locked'[g] = locked[g]
      OBVIOUS
    <3>4. QED
      BY <2>3, <3>1, <3>2, <3>3
  <2>4. QED
    BY <2>2, <2>3
<1>6. Undelivered'
  BY <1>1 DEF FerryInv, Undelivered
<1>7. CountedOnce'
  <2>1. SUFFICES ASSUME NEW q \in Receipts \ raced'
        PROVE /\ delivered'[q] <= 1
              /\ status'[q] \in {"accepted", "settled"} => delivered'[q] = 1
              /\ delivered'[q] = 1 => status'[q] \in {"accepted", "settled"} \/ q \in expired'
    BY DEF CountedOnce
  <2>2. CASE q = r
    <3>1. delivered[r] = 0 /\ delivered'[r] = d /\ status'[r] = st
      <4>1. delivered[r] = 0
        BY <1>2, <2>2
      <4>2. 0 + d = d
        OBVIOUS
      <4>3. QED
        BY <1>1, <4>1, <4>2
    <3>2. QED
      BY <2>2, <3>1
  <2>3. CASE q # r BY <1>1, <2>3 DEF FerryInv, CountedOnce
  <2>4. QED
    BY <2>2, <2>3
<1>8. FinalStep
  BY <1>1, <1>2 DEF FinalStep, Ended
<1>9. SoleBearer'
  <2>1. SUFFICES ASSUME NEW q \in Receipts \ raced', status'[q] = "in transit"
        PROVE /\ \A g \in FerryNodes : q \in Carried(g)' => bearer'[q] = {g} \/ <<g, q>> \in given'
              /\ q \in replaced' \/ \E g \in FerryNodes : q \in Carried(g)'
    BY DEF SoleBearer
  <2>2. q # r /\ status[q] = "in transit" /\ bearer' = bearer /\ replaced' = replaced /\ given' = given
    BY <1>1, <2>1
  <2>3. /\ \A g \in FerryNodes : q \in Carried(g) => bearer[q] = {g} \/ <<g, q>> \in given
        /\ q \in replaced \/ \E g \in FerryNodes : q \in Carried(g)
    BY <2>2 DEF FerryInv, SoleBearer
  <2>4. ASSUME NEW g \in FerryNodes, q \in Carried(g)' PROVE bearer'[q] = {g} \/ <<g, q>> \in given'
    BY <2>2, <2>3, <2>4
  <2>5. q \in replaced' \/ \E g \in FerryNodes : q \in Carried(g)'
    <3>1. CASE q \in replaced
      BY <2>2, <3>1
    <3>2. CASE q \notin replaced BY <2>2, <2>3, <3>2
    <3>3. QED
      BY <3>1, <3>2
  <2>6. QED
    BY <2>4, <2>5
<1>10. QED
  BY <1>4, <1>5, <1>6, <1>7, <1>8, <1>9 DEF FerryInv

LEMMA DeliverKeeps ==
  ASSUME FerryInv, NEW f \in FerryNodes, Deliver(f)
  PROVE  FerryInv' /\ FinalStep
<1>. PICK r : r = locked[f].r
  OBVIOUS
<1>1. /\ UNCHANGED <<bearer, expired, injecting, raced, replaced, given>>
      /\ locked' = [locked EXCEPT ![f] = None]
      /\ locked[f].pc \in {"accept", "reject"}
      /\ \/ SetStatus(r, "rejected") /\ r \in expired /\ UNCHANGED <<carrying, delivered>>
         \/ /\ SetStatus(r, "accepted") /\ Unload(f, {ReceiptID[r]})
            /\ delivered' = [delivered EXCEPT ![r] = @ + 1]
         \/ SetStatus(r, "rejected") /\ Unload(f, {ReceiptID[r]}) /\ UNCHANGED delivered
  BY DEF Deliver
<1>2. r \in Receipts /\ locked[f] # None /\ Holds(locked[f], r) /\ r \in Carried(f)
  BY <1>1, NothingHeld DEF FerryInv, FerryTypes, LockSteps, Holds, HeldIsCarried
<1>3. PICK st \in {"accepted", "rejected"}, d \in {0, 1} :
        /\ status' = [status EXCEPT ![r] = st] /\ delivered' = [delivered EXCEPT ![r] = @ + d]
        /\ (st = "accepted" => d = 1) /\ (d = 1 => st = "accepted")
  BY <1>1, <1>2 DEF FerryInv, FerryTypes, SetStatus
<1>4. /\ CarryingTypes'
      /\ \A q \in Receipts, g \in FerryNodes :
           /\ q \in Carried(g)' => q \in Carried(g)
           /\ q # r /\ q \in Carried(g) => q \in Carried(g)'
      /\ \A g \in FerryNodes \ {f} : Carried(g)' = Carried(g)
  <2>1. CASE UNCHANGED carrying
    BY <2>1 DEF Carried, FerryInv, FerryTypes, CarryingTypes
  <2>2. CASE Unload(f, {ReceiptID[r]}) BY <1>2, <2>2, UnloadCarries, SameFile DEF FerryInv, FerryTypes
  <2>3. QED
    BY <1>1, <2>1, <2>2
<1>5. locked'[f] = None /\ \A g \in FerryNodes \ {f} : locked'[g] = locked[g]
  BY <1>1 DEF FerryInv, FerryTypes
<1>6. FerryTypes'
  <2>1. locked' \in [FerryNodes -> LockSteps]
    BY <1>1 DEF FerryInv, FerryTypes, LockSteps
  <2>2. status' \in [Receipts -> ReceiptStatuses]
    BY <1>3 DEF FerryInv, FerryTypes, ReceiptStatuses
  <2>3. delivered' \in [Receipts -> Nat] BY <1>2, <1>3 DEF FerryInv, FerryTypes
  <2>4. QED
    BY <1>1, <1>4, <2>1, <2>2, <2>3 DEF FerryInv, FerryTypes
<1>7. HeldIsCarried'
  BY <1>4, <1>5 DEF FerryInv, HeldIsCarried
<1>8. ASSUME NEW q \in Receipts, NEW g \in FerryNodes
      PROVE  /\ Holds(locked'[g], q) => Holds(locked[g], q) /\ locked'[g] = locked[g]
             /\ q # r /\ Holds(locked[g], q) => Holds(locked'[g], q) BY <1>5, NothingHeld DEF Holds
<1>9. ~Holds(locked'[f], r)
  BY <1>5, NothingHeld
<1>10. QED
  BY <1>1, <1>2, <1>3, <1>4, <1>6, <1>7, <1>8, <1>9, EndKeeps

LEMMA InjectOneKeeps ==
  ASSUME FerryInv, NEW f \in FerryNodes, InjectOne(f)
  PROVE  FerryInv' /\ FinalStep
<1>. PICK r, accept : r = injecting[f].r /\ accept = (injecting[f].pc = "accepting")
  OBVIOUS
<1>1. /\ UNCHANGED <<bearer, expired, carrying, locked, raced, replaced, given>>
      /\ injecting' = [injecting EXCEPT ![f] = [pc |-> "loop", left |-> injecting[f].left]]
      /\ injecting[f].pc \in {"accepting", "rejecting"}
      /\ SetStatus(r, IF accept /\ r \notin expired THEN "accepted" ELSE "rejected")
      /\ delivered' = [delivered EXCEPT ![r] = @ + (IF accept THEN 1 ELSE 0)]
  BY DEF InjectOne
<1>2. r \in Receipts /\ Holds(injecting[f], r) /\ injecting[f].left \subseteq Receipts
  BY <1>1, NothingHeld DEF FerryInv, FerryTypes, InjectSteps, Holds
<1>3. PICK st \in {"accepted", "rejected"}, d \in {0, 1} :
        /\ status' = [status EXCEPT ![r] = st] /\ delivered' = [delivered EXCEPT ![r] = @ + d]
        /\ (st = "accepted" => d = 1) /\ (d = 1 => st = "accepted" \/ r \in expired)
  <2>1. CASE accept /\ r \notin expired
    BY <1>1, <2>1 DEF SetStatus
  <2>2. CASE accept /\ r \in expired
    BY <1>1, <2>2 DEF SetStatus
  <2>3. CASE ~accept
    BY <1>1, <2>3 DEF SetStatus
  <2>4. QED
    BY <2>1, <2>2, <2>3
<1>4. \A g \in FerryNodes : Carried(g)' = Carried(g)
  BY <1>1 DEF Carried
<1>5. /\ injecting'[f].pc = "loop" /\ \A g \in FerryNodes \ {f} : injecting'[g] = injecting[g]
  BY <1>1 DEF FerryInv, FerryTypes
<1>6. FerryTypes'
  <2>1. [pc |-> "loop", left |-> injecting[f].left] \in InjectSteps
    BY <1>2 DEF InjectSteps
  <2>2. injecting' \in [FerryNodes -> InjectSteps]
    BY <1>1, <2>1 DEF FerryInv, FerryTypes
  <2>3. status' \in [Receipts -> ReceiptStatuses]
    BY <1>3 DEF FerryInv, FerryTypes, ReceiptStatuses
  <2>4. delivered' \in [Receipts -> Nat] BY <1>2, <1>3 DEF FerryInv, FerryTypes
  <2>5. QED
    BY <1>1, <2>2, <2>3, <2>4 DEF FerryInv, FerryTypes, CarryingTypes
<1>7. HeldIsCarried'
  BY <1>1, <1>4 DEF FerryInv, HeldIsCarried
<1>8. \A q : ~Holds(injecting'[f], q)
  BY <1>5 DEF Holds
<1>9. ASSUME NEW q \in Receipts, NEW g \in FerryNodes
      PROVE  Holds(injecting'[g], q) => Holds(injecting[g], q)
  BY <1>5, <1>8
<1>10. \A g \in FerryNodes : locked'[g] = locked[g]
  BY <1>1
<1>11. UNCHANGED <<bearer, expired, raced, replaced, given>>
  BY <1>1
<1>12. QED
  BY <1>2, <1>3, <1>4, <1>6, <1>7, <1>8, <1>9, <1>10, <1>11, EndKeeps

LEMMA MarkSettledKeeps ==
  ASSUME FerryInv, NEW r \in Receipts, MarkSettled(r)
  PROVE  FerryInv' /\ FinalStep
<1>1. /\ UNCHANGED <<bearer, expired, carrying, locked, injecting, delivered, raced, replaced, given>>
      /\ status[r] = "accepted" /\ status' = [status EXCEPT ![r] = "settled"]
  BY DEF MarkSettled, MaySettle, SetStatus
<1>2. \A g \in FerryNodes : Carried(g)' = Carried(g)
  BY <1>1 DEF Carried
<1>3. FerryTypes' BY <1>1 DEF FerryInv, FerryTypes, ReceiptStatuses, CarryingTypes
<1>4. HeldIsCarried' /\ OneHand'
  BY <1>1, <1>2 DEF FerryInv, HeldIsCarried, OneHand
<1>5. status'[r] = "settled" /\ \A q \in Receipts \ {r} : status'[q] = status[q]
  BY <1>1 DEF FerryInv, FerryTypes
<1>6. KnowsStatus' BY <1>1, <1>2, <1>5 DEF KnowsStatus, FerryInv
<1>7. Undelivered' /\ CountedOnce' /\ FinalStep
  BY <1>1, <1>5 DEF FerryInv, Undelivered, CountedOnce, FinalStep, Ended
<1>8. SoleBearer'
  <2>1. SUFFICES ASSUME NEW q \in Receipts \ raced', status'[q] = "in transit"
        PROVE /\ \A g \in FerryNodes : q \in Carried(g)' => bearer'[q] = {g} \/ <<g, q>> \in given'
              /\ q \in replaced' \/ \E g \in FerryNodes : q \in Carried(g)'
    BY DEF SoleBearer
  <2>2. q \notin raced /\ status[q] = "in transit" /\ bearer' = bearer /\ replaced' = replaced /\ given' = given
    BY <1>1, <1>5, <2>1
  <2>3. /\ \A g \in FerryNodes : q \in Carried(g) => bearer[q] = {g} \/ <<g, q>> \in given
        /\ q \in replaced \/ \E g \in FerryNodes : q \in Carried(g)
    BY <2>2 DEF FerryInv, SoleBearer
  <2>4. ASSUME NEW g \in FerryNodes, q \in Carried(g)' PROVE bearer'[q] = {g} \/ <<g, q>> \in given'
    BY <1>2, <2>2, <2>3, <2>4
  <2>5. q \in replaced' \/ \E g \in FerryNodes : q \in Carried(g)'
    BY <1>2, <2>2, <2>3
  <2>6. QED
    BY <2>4, <2>5
<1>9. QED
  BY <1>3, <1>4, <1>6, <1>7, <1>8 DEF FerryInv

LEMMA FerryStutters ==
  ASSUME FerryInv, UNCHANGED ferryVars
  PROVE  FerryInv' /\ FinalStep
BY QuietKeeps DEF ferryVars, Carried, FerryInv, FerryTypes, CarryingTypes, HeldIsCarried

LEMMA FerryStarts == FerryInit => FerryInv
BY NothingHeld DEF FerryInit, Carried, Range, FerryTypes, CarryingTypes, Filed, ReceiptStatuses, LockSteps,
   InjectSteps, HeldIsCarried, OneHand, KnowsStatus, SoleBearer, Undelivered, CountedOnce, FerryInv

LEMMA FerryStep ==
  ASSUME FerryInv, [FerryNext]_ferryVars
  PROVE  FerryInv' /\ FinalStep
BY PickupKeeps, StoreKeeps, DropKeeps, InjectMarkKeeps, InjectTestKeeps, DeliverReceiptKeeps, TestPendingKeeps, MarkInTransitKeeps, DeliverKeeps,
   InjectReceiptsKeeps, InjectOneKeeps, PurgeKeeps, MarkSettledKeeps, ExpireKeeps, FerryStutters DEF FerryNext

-----------------------------------------------------------------------------
(* Epochs.  What was accepted stays registered until its epoch can be      *)
(* pruned, and every registration left a report or an acceptance.          *)

EpochKeys == Assets \X Nat
Report == [key : EpochKeys, a : Bound, b : Bound, resolved : BOOLEAN]

EpochsTypes ==
  /\ currentEpoch \in Nat /\ blocksInEpoch \in Nat /\ blocks \in Nat /\ jumps \in Nat
  /\ boundTo \in [Bound -> Nat \cup {-1}] /\ tries \in [Bound -> Nat]
  /\ collisions \in Seq(Report)
  /\ accepted \subseteq Bound /\ late \subseteq Bound

\* What is registered in an epoch is bound to it, and was brought once.
BindingsInv ==
  \A k \in DOMAIN bindings :
    /\ bindings[k] \in Bound /\ boundTo[bindings[k]] # -1 /\ Key(bindings[k]) = k
    /\ tries[bindings[k]] >= 1

\* What was accepted is registered until its epoch can be pruned.
AcceptedInv ==
  \A r \in accepted :
    /\ boundTo[r] # -1
    /\ boundTo[r] < Threshold \/ (Key(r) \in DOMAIN bindings /\ bindings[Key(r)] = r)

AskedInv == \A key \in asked : Found(key) # {}

\* The first report of a place is resolved once somebody asked for it.
FirstAsked ==
  \A i \in DOMAIN collisions :
    collisions[i].resolved <=>
      /\ collisions[i].key \in asked
      /\ \A j \in DOMAIN collisions : collisions[j].key = collisions[i].key => i <= j

EpochsInv ==
  /\ EpochsTypes /\ BindingsInv /\ AcceptedInv /\ AskedInv /\ FirstAsked
  /\ OneReceiptPerEpoch /\ RefusalsReported /\ EpochTracksBlocks

LEMMA QuotientIs ==
  ASSUME NEW w \in Nat, w # 0, NEW x \in Int, NEW q \in Int, NEW r \in 0..(w - 1), x = w * q + r
  PROVE  x \div w = q /\ x % w = r
<1>1. PICK p : p = x \div w
  OBVIOUS
<1>2. PICK y : y = x % w
  OBVIOUS
<1>3. x = w * p + y /\ p \in Int /\ y \in 0..(w - 1)
  BY <1>1, <1>2, DivisionWithRest
<1>4. PICK k \in Int : k = p - q
  BY <1>3
<1>5. w * k = w * p - w * q
  BY <1>3, <1>4
<1>6. w * p \in Int /\ w * q \in Int
  BY <1>3
<1>7. w * k = r - y
  BY <1>3, <1>5, <1>6
<1>8. -w < r - y /\ r - y < w
  BY <1>3
<1>9. k = 0
  BY <1>7, <1>8, SmallProduct
<1>10. p = q
  BY <1>3, <1>4, <1>9
<1>11. y = r
  BY <1>3, <1>6, <1>10
<1>12. QED
  BY <1>1, <1>2, <1>10, <1>11

\* One more block.
LEMMA NextBlock ==
  ASSUME NEW w \in Nat, w # 0, NEW n \in Nat
  PROVE  /\ n \div w \in Int /\ n % w \in 0..(w - 1)
         /\ (n % w) + 1 >= w => (n + 1) \div w = (n \div w) + 1 /\ (n + 1) % w = 0
         /\ (n % w) + 1 < w => (n + 1) \div w = n \div w /\ (n + 1) % w = (n % w) + 1
<1>1. PICK q : q = n \div w
  OBVIOUS
<1>2. PICK r : r = n % w
  OBVIOUS
<1>3. n = w * q + r /\ q \in Int /\ r \in 0..(w - 1)
  BY <1>1, <1>2, DivisionWithRest
<1>4. PICK z \in Int : z = w * q
  BY <1>3
<1>5. ASSUME r + 1 >= w PROVE (n + 1) \div w = q + 1 /\ (n + 1) % w = 0 BY <1>3, <1>4, <1>5, QuotientIs
<1>6. ASSUME r + 1 < w PROVE (n + 1) \div w = q /\ (n + 1) % w = r + 1 BY <1>3, <1>4, <1>6, QuotientIs
<1>7. QED
  BY <1>1, <1>2, <1>3, <1>5, <1>6

\* The epoch goes on and nothing is registered or bound.
LEMMA EpochGrows ==
  ASSUME EpochsInv, UNCHANGED <<boundTo, bindings, collisions, tries, accepted, late, asked>>,
         currentEpoch' \in Nat, currentEpoch' >= currentEpoch,
         blocksInEpoch' \in Nat, blocks' \in Nat, jumps' \in Nat, EpochTracksBlocks'
  PROVE  EpochsInv'
<1>1. EpochsTypes'
  BY DEF EpochsInv, EpochsTypes
<1>2. \A r : Key(r)' = Key(r)
  BY DEF Key
<1>3. \A k : Found(k)' = Found(k)
  BY DEF Found
<1>4. BindingsInv'
  BY <1>2 DEF EpochsInv, BindingsInv
<1>5. AcceptedInv'
  <2>1. KeepEpochs \in Nat /\ currentEpoch \in Nat /\ \A r \in accepted : boundTo[r] \in Int
    BY EpochsAssumption DEF EpochsInv, EpochsTypes
  <2>2. \A r \in accepted : boundTo[r] < Threshold => boundTo[r] < Threshold'
    BY <2>1 DEF Threshold
  <2>3. QED
    BY <1>2, <2>2 DEF EpochsInv, AcceptedInv
<1>6. AskedInv'
  BY <1>3 DEF EpochsInv, AskedInv
<1>7. OneReceiptPerEpoch' /\ RefusalsReported'
  BY DEF EpochsInv, OneReceiptPerEpoch, RefusalsReported
<1>8. FirstAsked'
  BY DEF EpochsInv, FirstAsked
<1>9. QED
  BY <1>1, <1>4, <1>5, <1>6, <1>7, <1>8 DEF EpochsInv

LEMMA AdvanceBlockKeeps ==
  ASSUME EpochsInv, AdvanceBlock PROVE EpochsInv'
<1>1. /\ UNCHANGED <<boundTo, bindings, collisions, tries, accepted, late, asked, jumps>>
      /\ blocks' = blocks + 1
      /\ IF blocksInEpoch + 1 >= BlocksPerEpoch
         THEN currentEpoch' = currentEpoch + 1 /\ blocksInEpoch' = 0
         ELSE blocksInEpoch' = blocksInEpoch + 1 /\ currentEpoch' = currentEpoch
  BY DEF AdvanceBlock
<1>2. /\ currentEpoch \in Nat /\ blocksInEpoch \in Nat /\ blocks \in Nat /\ jumps \in Nat
      /\ BlocksPerEpoch \in Nat /\ BlocksPerEpoch # 0
  BY EpochsAssumption DEF EpochsInv, EpochsTypes
<1>3. PICK q : q = blocks \div BlocksPerEpoch
  OBVIOUS
<1>4. PICK q1 : q1 = (blocks + 1) \div BlocksPerEpoch
  OBVIOUS
<1>5. PICK r : r = blocks % BlocksPerEpoch
  OBVIOUS
<1>6. PICK r1 : r1 = (blocks + 1) % BlocksPerEpoch
  OBVIOUS
<1>7. /\ q \in Int /\ r \in 0..(BlocksPerEpoch - 1)
      /\ r + 1 >= BlocksPerEpoch => q1 = q + 1 /\ r1 = 0
      /\ r + 1 < BlocksPerEpoch => q1 = q /\ r1 = r + 1
  BY <1>2, <1>3, <1>4, <1>5, <1>6, NextBlock
<1>8. currentEpoch = jumps + q /\ blocksInEpoch = r
  BY <1>3, <1>5 DEF EpochsInv, EpochTracksBlocks
<1>9. currentEpoch' = jumps + q1 /\ blocksInEpoch' = r1
  BY <1>1, <1>2, <1>7, <1>8
<1>10. EpochTracksBlocks'
  BY <1>1, <1>4, <1>6, <1>9 DEF EpochTracksBlocks
<1>11. /\ currentEpoch' \in Nat /\ currentEpoch' >= currentEpoch
       /\ blocksInEpoch' \in Nat /\ blocks' \in Nat /\ jumps' \in Nat
  BY <1>1, <1>2
<1>12. QED
  BY <1>1, <1>10, <1>11, EpochGrows

LEMMA MergeEpochKeeps ==
  ASSUME EpochsInv, NEW remote \in 0..MaxEpoch, MergeEpoch(remote) PROVE EpochsInv'
<1>1. PICK m : m = Merged(remote)
  OBVIOUS
<1>2. /\ UNCHANGED <<boundTo, bindings, collisions, tries, accepted, late, asked>>
      /\ currentEpoch' = m /\ jumps' = jumps + m - currentEpoch
      /\ UNCHANGED <<blocksInEpoch, blocks>>
  BY <1>1 DEF MergeEpoch
<1>3. currentEpoch \in Nat /\ blocksInEpoch \in Nat /\ blocks \in Nat /\ jumps \in Nat
  BY DEF EpochsInv, EpochsTypes
<1>4. m \in Nat /\ m > currentEpoch
  BY <1>1, <1>3, EpochsAssumption DEF Merged
<1>5. PICK q : q = blocks \div BlocksPerEpoch
  OBVIOUS
<1>6. q \in Int
  BY <1>3, <1>5, EpochsAssumption, DivisionWithRest
<1>7. currentEpoch = jumps + q
  BY <1>5 DEF EpochsInv, EpochTracksBlocks
<1>8. m = (jumps + m - currentEpoch) + q
  BY <1>3, <1>4, <1>6, <1>7
<1>9. EpochTracksBlocks'
  BY <1>2, <1>5, <1>8 DEF EpochsInv, EpochTracksBlocks
<1>10. /\ currentEpoch' \in Nat /\ currentEpoch' >= currentEpoch /\ jumps' \in Nat
  BY <1>2, <1>3, <1>4
<1>11. QED
  BY <1>2, <1>3, <1>9, <1>10, EpochGrows

LEMMA PruneKeeps ==
  ASSUME EpochsInv, PruneEpochs PROVE EpochsInv'
<1>. DEFINE kept == {k \in DOMAIN bindings : ~Old(k[2])}
<1>1. /\ UNCHANGED <<currentEpoch, blocksInEpoch, boundTo, collisions, epochHistory>>
      /\ bindings' = [k \in kept |-> bindings[k]]
  BY DEF PruneEpochs
<1>2. UNCHANGED <<blocks, jumps, tries, accepted, late, asked>>
  BY <1>1 DEF epochHistory
<1>3. EpochsTypes'
  BY <1>1, <1>2 DEF EpochsInv, EpochsTypes
<1>4. \A r : Key(r)' = Key(r)
  BY <1>1 DEF Key
<1>5. BindingsInv'
  BY <1>1, <1>2, <1>4 DEF EpochsInv, BindingsInv
<1>6. AcceptedInv' BY <1>1, <1>2, <1>4 DEF AcceptedInv, Threshold, EpochsInv, Key, Old
<1>7. AskedInv' /\ FirstAsked'
  BY <1>1, <1>2 DEF EpochsInv, AskedInv, FirstAsked, Found
<1>8. OneReceiptPerEpoch' /\ RefusalsReported' /\ EpochTracksBlocks'
  BY <1>1, <1>2 DEF EpochsInv, OneReceiptPerEpoch, RefusalsReported, EpochTracksBlocks
<1>9. QED
  BY <1>3, <1>5, <1>6, <1>7, <1>8 DEF EpochsInv

LEMMA BindKeeps ==
  ASSUME EpochsInv, NEW r \in Bound, BindReceipt(r) PROVE EpochsInv'
<1>1. /\ UNCHANGED <<currentEpoch, blocksInEpoch, bindings, collisions, epochHistory>>
      /\ boundTo[r] = -1 /\ boundTo' = [boundTo EXCEPT ![r] = currentEpoch]
  BY DEF BindReceipt
<1>2. UNCHANGED <<blocks, jumps, tries, accepted, late, asked>>
  BY <1>1 DEF epochHistory
<1>3. EpochsTypes'
  BY <1>1, <1>2 DEF EpochsInv, EpochsTypes
<1>4. \A q \in Bound \ {r} : boundTo'[q] = boundTo[q] /\ Key(q)' = Key(q)
  BY <1>1 DEF Key, EpochsInv, EpochsTypes
<1>5. r \notin accepted /\ \A k \in DOMAIN bindings : bindings[k] # r
  BY <1>1 DEF EpochsInv, AcceptedInv, BindingsInv
<1>6. accepted \subseteq Bound
  BY DEF EpochsInv, EpochsTypes
<1>7. BindingsInv'
  BY <1>1, <1>2, <1>4, <1>5 DEF EpochsInv, BindingsInv
<1>8. AcceptedInv' BY <1>1, <1>2, <1>4, <1>5, <1>6 DEF AcceptedInv, Threshold, EpochsInv
<1>9. OneReceiptPerEpoch' BY <1>2, <1>4, <1>5, <1>6 DEF EpochsInv, OneReceiptPerEpoch
<1>10. AskedInv' /\ FirstAsked'
  BY <1>1, <1>2 DEF EpochsInv, AskedInv, FirstAsked, Found
<1>11. RefusalsReported' /\ EpochTracksBlocks'
  BY <1>1, <1>2 DEF EpochsInv, RefusalsReported, EpochTracksBlocks
<1>12. QED
  BY <1>3, <1>7, <1>8, <1>9, <1>10, <1>11 DEF EpochsInv

\* The first report of a place.
LEMMA PickIs ==
  ASSUME EpochsTypes, NEW k, Found(k) # {}
  PROVE  Pick(k) \in Found(k) /\ \A j \in Found(k) : Pick(k) <= j
<1>1. Found(k) \in SUBSET Nat
  BY DEF Found, EpochsTypes
<1>2. \E i \in Found(k) : \A j \in Found(k) : i <= j
  BY <1>1, SmallestNumber
<1>3. QED
  BY <1>2 DEF Pick

LEMMA RegisterTakenKeeps ==
  ASSUME EpochsInv, NEW r \in Bound, RegisterReceipt(r), Taken(r) PROVE EpochsInv'
<1>. PICK q, n, rep : /\ q = bindings[Key(r)] /\ n = Len(collisions)
                      /\ rep = [key |-> Key(r), a |-> q, b |-> r, resolved |-> FALSE]
  OBVIOUS
<1>1. /\ UNCHANGED <<currentEpoch, blocksInEpoch, boundTo, blocks, jumps, asked, bindings, accepted, late>>
      /\ boundTo[r] # -1 /\ tries' = [tries EXCEPT ![r] = @ + 1]
      /\ collisions' = Append(collisions, rep)
  BY DEF RegisterReceipt
<1>2. q \in Bound /\ tries[q] >= 1 /\ Key(q) = Key(r)
  BY DEF Taken, EpochsInv, BindingsInv
<1>3. Key(r) \in EpochKeys BY <1>1, EpochsAssumption DEF EpochsInv, EpochsTypes, Key, EpochKeys
<1>4. rep \in Report
  BY <1>2, <1>3 DEF Report
<1>5. /\ collisions \in Seq(Report) /\ collisions' \in Seq(Report) /\ n \in Nat
      /\ DOMAIN collisions = 1..n /\ DOMAIN collisions' = 1..(n + 1)
      /\ \A i \in 1..n : collisions'[i] = collisions[i]
      /\ collisions'[n + 1] = rep
  BY <1>1, <1>4 DEF EpochsInv, EpochsTypes
<1>6. /\ tries \in [Bound -> Nat] /\ tries' \in [Bound -> Nat] /\ tries'[r] = tries[r] + 1
      /\ \A p \in Bound \ {r} : tries'[p] = tries[p]
  BY <1>1 DEF EpochsInv, EpochsTypes
<1>7. EpochsTypes'
  BY <1>1, <1>5, <1>6 DEF EpochsInv, EpochsTypes
<1>8. \A p : Key(p)' = Key(p)
  BY <1>1 DEF Key
<1>9. \A p \in Bound : tries'[p] >= tries[p]
  BY <1>6
<1>10. BindingsInv' BY <1>1, <1>6, <1>8, <1>9 DEF BindingsInv, EpochsInv
<1>11. AcceptedInv' /\ OneReceiptPerEpoch' /\ EpochTracksBlocks'
  BY <1>1, <1>8 DEF EpochsInv, AcceptedInv, OneReceiptPerEpoch, EpochTracksBlocks, Threshold
<1>12. \A k : Found(k)' = {i \in 1..(n + 1) : collisions'[i].key = k}
  BY <1>5 DEF Found
<1>13. \A k : Found(k) \subseteq Found(k)' /\ Found(k)' \subseteq Found(k) \cup {n + 1}
  BY <1>5, <1>12 DEF Found
<1>14. AskedInv'
  BY <1>1, <1>13 DEF EpochsInv, AskedInv
<1>15. \A k \in asked : \E j \in 1..n : collisions[j].key = k
  BY <1>5 DEF EpochsInv, AskedInv, Found
<1>16. FirstAsked'
  <2>1. SUFFICES ASSUME NEW i \in 1..(n + 1)
        PROVE collisions'[i].resolved <=>
                /\ collisions'[i].key \in asked
                /\ \A j \in 1..(n + 1) : collisions'[j].key = collisions'[i].key => i <= j
    BY <1>1, <1>5 DEF FirstAsked
  <2>2. CASE i \in 1..n BY <1>5, <2>2 DEF EpochsInv, FirstAsked
  <2>3. CASE i = n + 1
    <3>1. collisions'[i].resolved = FALSE /\ collisions'[i].key = Key(r)
      BY <1>5, <2>3
    <3>2. ASSUME Key(r) \in asked
          PROVE \E j \in 1..(n + 1) : collisions'[j].key = Key(r) /\ ~(n + 1 <= j) BY <1>5, <1>15, <3>2
    <3>3. QED
      BY <2>3, <3>1, <3>2
  <2>4. QED
    BY <1>5, <2>2, <2>3
<1>17. RefusalsReported'
  <2>1. SUFFICES ASSUME NEW p \in Bound
        PROVE /\ p \notin late => tries'[p] = Cardinality({i \in 1..(n + 1) : collisions'[i].b = p})
                                             + (IF p \in accepted THEN 1 ELSE 0)
              /\ \A i \in 1..(n + 1) : collisions'[i].b = p /\ collisions'[i].a = p => tries'[p] > 1
    BY <1>1, <1>5 DEF RefusalsReported
  <2>2. PICK old : old = {i \in 1..n : collisions[i].b = p}
    OBVIOUS
  <2>3. /\ p \notin late => tries[p] = Cardinality(old) + (IF p \in accepted THEN 1 ELSE 0)
        /\ \A i \in old : collisions[i].a = p => tries[p] > 1
    BY <1>5, <2>2 DEF EpochsInv, RefusalsReported
  <2>4. IsFiniteSet(old) /\ Cardinality(old) \in Nat /\ n + 1 \notin old
    <3>1. IsFiniteSet(1..n) /\ old \subseteq 1..n
      BY <1>5, <2>2, FS_Interval
    <3>2. IsFiniteSet(old)
      BY <3>1, FS_Subset
    <3>3. Cardinality(old) \in Nat
      BY <3>2, FS_CardinalityType
    <3>4. n + 1 \notin 1..n
      BY <1>5
    <3>5. QED
      BY <3>1, <3>2, <3>3, <3>4
  <2>5. CASE p = r
    <3>1. {i \in 1..(n + 1) : collisions'[i].b = p} = old \cup {n + 1}
      BY <1>5, <2>2, <2>5
    <3>2. Cardinality(old \cup {n + 1}) = Cardinality(old) + 1
      BY <2>4, FS_AddElement
    <3>3. \A i \in 1..(n + 1) : collisions'[i].b = p /\ collisions'[i].a = p => tries'[p] > 1
      <4>1. SUFFICES ASSUME NEW i \in 1..(n + 1), collisions'[i].b = p, collisions'[i].a = p
            PROVE tries'[p] > 1
        OBVIOUS
      <4>2. CASE i \in 1..n BY <1>5, <1>6, <2>2, <2>3, <2>5, <4>1, <4>2
      <4>3. CASE i = n + 1 BY <1>2, <1>5, <1>6, <2>5, <4>1, <4>3
      <4>4. QED
        BY <1>5, <4>2, <4>3
    <3>4. p \notin late => tries'[p] = (Cardinality(old) + 1) + (IF p \in accepted THEN 1 ELSE 0)
      BY <1>6, <2>3, <2>4, <2>5
    <3>5. QED
      BY <3>1, <3>2, <3>3, <3>4
  <2>6. CASE p # r
    <3>1. {i \in 1..(n + 1) : collisions'[i].b = p} = old
      BY <1>5, <2>2, <2>6
    <3>2. \A i \in 1..(n + 1) : collisions'[i].b = p /\ collisions'[i].a = p => tries'[p] > 1
      BY <1>5, <1>6, <2>2, <2>3, <2>6
    <3>3. QED
      BY <1>6, <2>3, <2>6, <3>1, <3>2
  <2>7. QED
    BY <2>5, <2>6
<1>18. QED
  BY <1>7, <1>10, <1>11, <1>14, <1>16, <1>17 DEF EpochsInv

LEMMA RegisterFreeKeeps ==
  ASSUME EpochsInv, NEW r \in Bound, RegisterReceipt(r), ~Taken(r) PROVE EpochsInv'
<1>1. /\ UNCHANGED <<currentEpoch, blocksInEpoch, boundTo, blocks, jumps, asked, collisions>>
      /\ boundTo[r] # -1 /\ tries' = [tries EXCEPT ![r] = @ + 1]
      /\ bindings' = [k \in DOMAIN bindings \cup {Key(r)} |-> IF k = Key(r) THEN r ELSE bindings[k]]
      /\ accepted' = accepted \cup {r}
      /\ late' = IF boundTo[r] < Threshold THEN late \cup {r} ELSE late
      /\ Key(r) \notin DOMAIN bindings
  BY DEF RegisterReceipt, Taken
<1>2. /\ tries \in [Bound -> Nat] /\ tries' \in [Bound -> Nat] /\ tries'[r] = tries[r] + 1
      /\ \A p \in Bound \ {r} : tries'[p] = tries[p]
  BY <1>1 DEF EpochsInv, EpochsTypes
<1>3. EpochsTypes'
  BY <1>1, <1>2 DEF EpochsInv, EpochsTypes
<1>4. \A p : Key(p)' = Key(p)
  BY <1>1 DEF Key
<1>5. \A k \in DOMAIN bindings : k # Key(r) /\ bindings'[k] = bindings[k]
  BY <1>1
<1>6. Key(r) \in DOMAIN bindings' /\ bindings'[Key(r)] = r
  BY <1>1
<1>7. BindingsInv'
  <2>1. SUFFICES ASSUME NEW k \in DOMAIN bindings'
        PROVE /\ bindings'[k] \in Bound /\ boundTo[bindings'[k]] # -1 /\ Key(bindings'[k]) = k
              /\ tries'[bindings'[k]] >= 1
    BY <1>1, <1>4 DEF BindingsInv
  <2>2. CASE k = Key(r)
    BY <1>1, <1>2, <1>6, <2>2
  <2>3. CASE k \in DOMAIN bindings BY <1>2, <1>5, <2>3 DEF EpochsInv, BindingsInv
  <2>4. QED
    BY <1>1, <2>2, <2>3
<1>8. AcceptedInv'
  <2>1. SUFFICES ASSUME NEW p \in accepted'
        PROVE /\ boundTo[p] # -1
              /\ boundTo[p] < Threshold \/ (Key(p) \in DOMAIN bindings' /\ bindings'[Key(p)] = p)
    BY <1>1, <1>4 DEF AcceptedInv, Threshold
  <2>2. CASE p = r
    BY <1>1, <1>6, <2>2
  <2>3. CASE p \in accepted BY <1>1, <1>5, <2>3 DEF EpochsInv, AcceptedInv
  <2>4. QED
    BY <1>1, <2>2, <2>3
<1>9. ASSUME NEW p \in accepted, Key(p) = Key(r) PROVE boundTo[r] < Threshold
  BY <1>1, <1>9 DEF EpochsInv, AcceptedInv, Key
<1>10. OneReceiptPerEpoch'
  <2>1. SUFFICES ASSUME NEW p \in accepted', NEW q \in accepted', p # q,
                        AssetOf[p] = AssetOf[q], boundTo[p] = boundTo[q]
        PROVE  p \in late' \/ q \in late'
    BY <1>1 DEF OneReceiptPerEpoch
  <2>2. Key(p) = Key(q)
    BY <2>1 DEF Key
  <2>3. CASE p \in accepted /\ q \in accepted BY <1>1, <2>1, <2>3 DEF EpochsInv, OneReceiptPerEpoch
  <2>4. CASE p = r /\ q \in accepted BY <1>1, <1>9, <2>2, <2>4
  <2>5. CASE q = r /\ p \in accepted BY <1>1, <1>9, <2>2, <2>5
  <2>6. QED
    BY <1>1, <2>1, <2>3, <2>4, <2>5
<1>11. RefusalsReported'
  <2>1. SUFFICES ASSUME NEW p \in Bound
        PROVE /\ p \notin late' => tries'[p] = Cardinality({i \in DOMAIN collisions : collisions[i].b = p})
                                              + (IF p \in accepted' THEN 1 ELSE 0)
              /\ \A i \in DOMAIN collisions :
                   collisions[i].b = p /\ collisions[i].a = p => tries'[p] > 1
    BY <1>1 DEF RefusalsReported
  <2>2. PICK c : c = Cardinality({i \in DOMAIN collisions : collisions[i].b = p})
    OBVIOUS
  <2>3. /\ p \notin late => tries[p] = c + (IF p \in accepted THEN 1 ELSE 0)
        /\ \A i \in DOMAIN collisions : collisions[i].b = p /\ collisions[i].a = p => tries[p] > 1
    BY <2>2 DEF EpochsInv, RefusalsReported
  <2>4. c \in Nat
    <3>1. PICK n \in Nat : DOMAIN collisions = 1..n
      BY DEF EpochsInv, EpochsTypes
    <3>2. IsFiniteSet(1..n) /\ {i \in DOMAIN collisions : collisions[i].b = p} \subseteq 1..n
      BY <3>1, FS_Interval
    <3>3. QED
      BY <2>2, <3>2, FS_Subset, FS_CardinalityType
  <2>5. \A i \in DOMAIN collisions : collisions[i].b = p /\ collisions[i].a = p => tries'[p] > 1
    BY <1>2, <2>3
  <2>6. p \notin late' => tries'[p] = c + (IF p \in accepted' THEN 1 ELSE 0)
    <3>1. CASE p = r BY <1>1, <1>2, <1>9, <2>3, <2>4, <3>1
    <3>2. CASE p # r
      BY <1>1, <1>2, <2>3, <3>2
    <3>3. QED
      BY <3>1, <3>2
  <2>7. QED
    BY <2>2, <2>5, <2>6
<1>12. AskedInv' /\ FirstAsked' /\ EpochTracksBlocks'
  BY <1>1 DEF EpochsInv, AskedInv, FirstAsked, EpochTracksBlocks, Found
<1>13. QED
  BY <1>3, <1>7, <1>8, <1>10, <1>11, <1>12 DEF EpochsInv

LEMMA ResolveKeeps ==
  ASSUME EpochsInv, NEW key, ResolveCollision(key) PROVE EpochsInv'
<1>. PICK n, x : n = Len(collisions) /\ x = Pick(key)
  OBVIOUS
<1>1. /\ UNCHANGED <<currentEpoch, blocksInEpoch, boundTo, bindings, blocks, jumps, tries, accepted, late>>
      /\ collisions' = [collisions EXCEPT ![x].resolved = TRUE]
      /\ asked' = asked \cup {key} /\ Found(key) # {}
  BY DEF ResolveCollision
<1>2. n \in Nat /\ DOMAIN collisions = 1..n /\ \A i \in 1..n : collisions[i] \in Report
  BY DEF EpochsInv, EpochsTypes
<1>3. x \in 1..n /\ collisions[x].key = key /\ \A j \in 1..n : collisions[j].key = key => x <= j
  BY <1>1, <1>2, PickIs DEF EpochsInv, Found
<1>4. /\ collisions' \in Seq(Report) /\ DOMAIN collisions' = 1..n
      /\ \A i \in 1..n : /\ collisions'[i].key = collisions[i].key
                         /\ collisions'[i].a = collisions[i].a /\ collisions'[i].b = collisions[i].b
                         /\ collisions'[i].resolved = IF i = x THEN TRUE ELSE collisions[i].resolved
  <2>1. PICK rep : rep = [collisions[x] EXCEPT !.resolved = TRUE]
    OBVIOUS
  <2>2. /\ rep \in Report /\ rep.key = collisions[x].key /\ rep.a = collisions[x].a
        /\ rep.b = collisions[x].b /\ rep.resolved = TRUE
    BY <1>2, <1>3, <2>1 DEF Report
  <2>3. collisions' = [collisions EXCEPT ![x] = rep]
    BY <1>1, <2>1
  <2>4. collisions' \in Seq(Report) /\ DOMAIN collisions' = 1..n
    BY <1>2, <1>3, <2>2, <2>3 DEF EpochsInv, EpochsTypes
  <2>5. \A i \in 1..n : collisions'[i] = IF i = x THEN rep ELSE collisions[i]
    BY <1>2, <1>3, <2>3
  <2>6. QED
    BY <2>2, <2>4, <2>5
<1>5. EpochsTypes'
  BY <1>1, <1>4 DEF EpochsInv, EpochsTypes
<1>6. BindingsInv' /\ AcceptedInv' /\ OneReceiptPerEpoch' /\ EpochTracksBlocks'
  BY <1>1 DEF EpochsInv, BindingsInv, AcceptedInv, OneReceiptPerEpoch, EpochTracksBlocks, Key, Threshold
<1>7. \A k : Found(k)' = Found(k)
  BY <1>2, <1>4 DEF Found
<1>8. AskedInv'
  BY <1>1, <1>7 DEF EpochsInv, AskedInv
<1>9. FirstAsked'
  <2>1. SUFFICES ASSUME NEW i \in 1..n
        PROVE collisions'[i].resolved <=>
                /\ collisions[i].key \in asked'
                /\ \A j \in 1..n : collisions[j].key = collisions[i].key => i <= j
    <3>1. SUFFICES ASSUME NEW i \in 1..n
          PROVE collisions'[i].resolved <=>
                  /\ collisions'[i].key \in asked'
                  /\ \A j \in 1..n : collisions'[j].key = collisions'[i].key => i <= j
      BY <1>4 DEF FirstAsked
    <3>2. /\ collisions'[i].key = collisions[i].key
          /\ \A j \in 1..n : collisions'[j].key = collisions[j].key
      BY <1>4
    <3>3. QED
      BY <3>2
  <2>2. collisions[i].resolved <=>
          /\ collisions[i].key \in asked
          /\ \A j \in 1..n : collisions[j].key = collisions[i].key => i <= j
    BY <1>2 DEF EpochsInv, FirstAsked
  <2>3. CASE i = x
    BY <1>1, <1>3, <1>4, <2>3
  <2>4. CASE i # x BY <1>1, <1>2, <1>3, <1>4, <2>2, <2>4
  <2>5. QED
    BY <2>3, <2>4
<1>10. RefusalsReported'
  <2>1. \A p : {i \in DOMAIN collisions' : collisions'[i].b = p} = {i \in DOMAIN collisions : collisions[i].b = p}
    BY <1>2, <1>4
  <2>2. QED
    <3>1. SUFFICES ASSUME NEW p \in Bound
          PROVE /\ p \notin late => tries[p] = Cardinality({i \in DOMAIN collisions' : collisions'[i].b = p})
                                               + (IF p \in accepted THEN 1 ELSE 0)
                /\ \A i \in DOMAIN collisions' :
                     collisions'[i].b = p /\ collisions'[i].a = p => tries[p] > 1
      BY <1>1 DEF RefusalsReported
    <3>2. /\ p \notin late => tries[p] = Cardinality({i \in DOMAIN collisions : collisions[i].b = p})
                                         + (IF p \in accepted THEN 1 ELSE 0)
          /\ \A i \in DOMAIN collisions :
               collisions[i].b = p /\ collisions[i].a = p => tries[p] > 1
      BY DEF EpochsInv, RefusalsReported
    <3>3. QED
      BY <1>2, <1>4, <2>1, <3>2
<1>11. QED
  BY <1>5, <1>6, <1>8, <1>9, <1>10 DEF EpochsInv

LEMMA EpochsStutter ==
  ASSUME EpochsInv, UNCHANGED epochsVars PROVE EpochsInv'
BY EpochGrows DEF epochsVars, epochHistory, EpochsInv, EpochsTypes, EpochTracksBlocks

LEMMA EpochsStart == EpochsInit => EpochsInv
<1>1. SUFFICES ASSUME EpochsInit PROVE EpochsInv
  OBVIOUS
<1>2. /\ currentEpoch = 0 /\ blocksInEpoch = 0 /\ boundTo = [r \in Bound |-> -1]
      /\ bindings = <<>> /\ collisions = <<>>
      /\ blocks = 0 /\ jumps = 0 /\ tries = [r \in Bound |-> 0]
      /\ accepted = {} /\ late = {} /\ asked = {}
  BY <1>1 DEF EpochsInit
<1>3. DOMAIN bindings = {} /\ DOMAIN collisions = {} /\ collisions \in Seq(Report)
  BY <1>2
<1>4. EpochsTypes
  BY <1>2, <1>3 DEF EpochsTypes
<1>5. BindingsInv /\ AcceptedInv /\ AskedInv /\ FirstAsked /\ OneReceiptPerEpoch
  BY <1>2, <1>3 DEF BindingsInv, AcceptedInv, AskedInv, FirstAsked, OneReceiptPerEpoch
<1>6. RefusalsReported BY <1>2, <1>3, FS_EmptySet DEF RefusalsReported
<1>7. EpochTracksBlocks BY <1>2, EpochsAssumption, QuotientIs DEF EpochTracksBlocks
<1>8. QED
  BY <1>4, <1>5, <1>6, <1>7 DEF EpochsInv

LEMMA FirstIsResolved == EpochsInv => FirstResolved
<1>1. SUFFICES ASSUME EpochsInv, NEW i \in DOMAIN collisions
      PROVE collisions[i].resolved <=> collisions[i].key \in asked /\ i = Pick(collisions[i].key)
  BY DEF FirstResolved
<1>2. PICK k : k = collisions[i].key
  OBVIOUS
<1>3. i \in Found(k)
  BY <1>2 DEF Found
<1>4. Pick(k) \in Found(k) /\ \A j \in Found(k) : Pick(k) <= j
  BY <1>1, <1>3, PickIs DEF EpochsInv
<1>5. \A j \in Found(k) : j \in Nat
  BY <1>1 DEF Found, EpochsInv, EpochsTypes
<1>6. (\A j \in Found(k) : i <= j) <=> i = Pick(k)
  BY <1>3, <1>4, <1>5
<1>7. collisions[i].resolved <=> k \in asked /\ \A j \in Found(k) : i <= j
  BY <1>1, <1>2 DEF EpochsInv, FirstAsked, Found
<1>8. QED
  BY <1>2, <1>6, <1>7

LEMMA EpochsStep ==
  ASSUME EpochsInv, [EpochsNext]_epochsVars PROVE EpochsInv'
BY RegisterTakenKeeps, RegisterFreeKeeps, AdvanceBlockKeeps, PruneKeeps, MergeEpochKeeps, BindKeeps, ResolveKeeps,
   EpochsStutter DEF EpochsNext

\* Shadow receipts: for any ferries, receipts, IDs that collide, forgeries and
\* expiries, and for any blocks, merges, prunes and repeated registrations, a
\* receipt that was not raced for has the bearer it names, is counted once and
\* keeps its end; a second receipt of an asset in an epoch is reported unless
\* it comes after the epoch could be pruned.
THEOREM ReceiptsAreSound == ReceiptsSpec => ReceiptsSound
<1>1. FerryInv => SoleBearer /\ CountedOnce
  BY DEF FerryInv
<1>2. ReceiptsInit => FerryInv /\ EpochsInv
  BY FerryStarts, EpochsStart DEF ReceiptsInit
<1>3. [ReceiptsNext]_<<ferryVars, epochsVars>> => [FerryNext]_ferryVars /\ [EpochsNext]_epochsVars
  BY DEF ReceiptsNext
<1>4. FerryInv /\ [FerryNext]_ferryVars => FerryInv'
  BY FerryStep
<1>5. FerryInv /\ [FerryNext]_ferryVars =>
        [\A r \in Receipts : r \notin raced' /\ status[r] \in Ended =>
           status'[r] = status[r] \/ (status[r] = "accepted" /\ status'[r] = "settled")]_ferryVars
  BY FerryStep DEF FinalStep
<1>6. EpochsInv => OneReceiptPerEpoch /\ RefusalsReported /\ EpochTracksBlocks /\ FirstResolved
  BY FirstIsResolved DEF EpochsInv
<1>7. EpochsInv /\ [EpochsNext]_epochsVars => EpochsInv'
  BY EpochsStep
<1>8. QED
  BY <1>1, <1>2, <1>3, <1>4, <1>5, <1>6, <1>7, PTL
     DEF ReceiptsSpec, ReceiptsSound, FerriesSound, FinalStays

-----------------------------------------------------------------------------
(* The split of a debt.                                                    *)
Split(n, t, f) == f \in [1..n -> Nat] /\ SumFunctionOnSet(f, 1..n) = t

LEMMA SumOfWord ==
  ASSUME NEW n \in Nat, NEW t \in Nat, t < FragmentWidth, NEW f, Split(n, t, f) PROVE SumOf(f) = t
BY FragmentsAssumption DEF Split, SumFunction, SumOf

\* No fragment is above the debt.
LEMMA SplitBounds == ASSUME NEW n \in Nat, NEW t \in Nat, NEW f, Split(n, t, f) PROVE \A i \in 1..n : f[i] <= t
BY CountUpTo, SumBounds DEF Split

\* A fragment changed from u to v changes the sum by what is between them.
Changed(n, f, g, i, u, v) ==
  /\ g \in [1..n -> Nat] /\ i \in 1..n /\ f[i] = u /\ g[i] = v
  /\ \A j \in 1..n : j # i => g[j] = f[j]

LEMMA SplitChange ==
  ASSUME NEW n \in Nat, NEW t \in Nat, NEW u \in Nat, NEW v \in Nat, NEW w \in Nat, w = t - u + v,
         NEW f, NEW g, NEW i, Split(n, t, f), Changed(n, f, g, i, u, v)
  PROVE  Split(n, w, g)
<1>1. f \in [1..n -> Nat] BY DEF Split
<1>2. g \in [1..n -> Nat] /\ g[i] = v /\ f[i] = u /\ i \in 1..n /\ \A j \in 1..n : j # i => g[j] = f[j] BY DEF Changed
<1>3. PICK S : S = 1..n OBVIOUS
<1>4. IsFiniteSet(S) /\ i \in S BY <1>2, <1>3, CountUpTo
<1>5. \A j \in S : f[j] \in Int /\ g[j] \in Int BY <1>1, <1>2, <1>3
<1>6. PICK R : R = S \ {i} OBVIOUS
<1>7. SumFunctionOnSet(f, S) = f[i] + SumFunctionOnSet(f, R) BY <1>4, <1>5, <1>6, SumRemove
<1>8. SumFunctionOnSet(g, S) = g[i] + SumFunctionOnSet(g, R) BY <1>4, <1>5, <1>6, SumRemove
<1>9. IsFiniteSet(R) /\ \A j \in R : f[j] \in Int /\ g[j] = f[j]
  BY <1>2, <1>3, <1>4, <1>5, <1>6, FS_RemoveElement
<1>10. SumFunctionOnSet(g, R) = SumFunctionOnSet(f, R) BY <1>9, SumSame
<1>11. SumFunctionOnSet(f, R) \in Int BY <1>9, SumType
<1>12. SumFunctionOnSet(f, S) = t BY <1>3 DEF Split
<1>13. SumFunctionOnSet(g, S) = w BY <1>2, <1>7, <1>8, <1>10, <1>11, <1>12
<1>14. QED BY <1>2, <1>3, <1>13 DEF Split

LEMMA FloorIs ==
  ASSUME NEW s \in Nat, s # 0, NEW q \in Nat PROVE q \div s \in Nat /\ s * (q \div s) <= q
BY DivisionWithRest

\* Rounding down never gives out more than the debt, also when products wrap.
LEMMA ProportionalIs ==
  ASSUME NEW n \in Nat, n # 0, NEW t \in Nat, t < FragmentWidth, NEW ws \in [1..n -> Nat \ {0}],
         SumFunctionOnSet(ws, 1..n) < FragmentWidth, NEW f, f = Proportional(t, ws)
  PROVE  \E a \in Nat : a <= t /\ Split(n, a, f)
<1>0. FragmentWidth \in Nat BY FragmentsAssumption
<1>1. IsFiniteSet(1..n) /\ 1 \in 1..n BY CountUpTo
<1>2. PICK s \in Nat : s = SumFunctionOnSet(ws, 1..n) BY <1>1, SumNat
<1>3. s # 0 /\ Split(n, s, ws) BY <1>1, <1>2, SumBounds DEF Split
<1>4. SumOf(ws) = s BY <1>2, <1>3, SumOfWord
<1>5. f = [i \in 1..n |-> ((t * ws[i]) % FragmentWidth) \div s] BY <1>4 DEF Proportional
<1>6. ASSUME NEW i \in 1..n PROVE f[i] \in Nat /\ s * f[i] <= t * ws[i]
  <2>1. PICK p \in Nat : p = t * ws[i] OBVIOUS
  <2>2. PICK q \in Nat : q = p % FragmentWidth /\ q <= p
    <3>1. p % FragmentWidth \in Nat /\ p % FragmentWidth <= p
      <4>0. FragmentWidth # 0 BY <1>0
      <4>1. CASE p < FragmentWidth BY <1>0, <4>1
      <4>2. CASE ~(p < FragmentWidth) BY <1>0, <2>1, <4>2
      <4>3. QED BY <4>1, <4>2
    <3>2. QED BY <3>1
  <2>3. PICK d \in Nat : d = q \div s /\ s * d <= q
    <3>1. QED BY <1>3, FloorIs
  <2>4. f[i] = d BY <1>5, <2>1, <2>2, <2>3
  <2>5. s * d <= p BY <1>3, <2>2, <2>3
  <2>6. QED BY <2>1, <2>4, <2>5
<1>7. PICK a : a = SumFunctionOnSet(f, 1..n) OBVIOUS
<1>8. a \in Nat BY <1>1, <1>6, <1>7, SumNat
<1>9. PICK g : g = [i \in 1..n |-> s * f[i]] OBVIOUS
<1>10. PICK h : h = [i \in 1..n |-> t * ws[i]] OBVIOUS
<1>11. SumFunctionOnSet(g, 1..n) = s * a
  <2>1. \A i \in 1..n : f[i] \in Int /\ g[i] = s * f[i] BY <1>6, <1>9
  <2>2. QED BY <1>1, <1>3, <1>7, <2>1, SumTimes
<1>12. SumFunctionOnSet(h, 1..n) = t * s BY <1>1, <1>2, <1>10, SumTimes
<1>13. s * a <= t * s
  <2>1. \A i \in 1..n : g[i] \in Int /\ h[i] \in Int /\ g[i] <= h[i]
    <3>1. ASSUME NEW i \in 1..n PROVE g[i] \in Int /\ h[i] \in Int /\ g[i] <= h[i] BY <1>3, <1>6, <1>9, <1>10
    <3>2. QED BY <3>1
  <2>2. QED BY <1>1, <1>11, <1>12, <2>1, SumOrder
<1>14. a <= t
  <2>1. SUFFICES ASSUME a > t PROVE FALSE BY <1>8
  <2>2. PICK e \in Nat : a = t + e /\ e # 0 BY <1>8, <2>1
  <2>3. s * (t + e) = t * s + s * e BY <1>3
  <2>4. s * e > 0 BY <1>3, <2>2
  <2>5. t * s \in Nat /\ s * e \in Nat BY <1>3
  <2>6. QED BY <1>13, <2>2, <2>3, <2>4, <2>5
<1>15. f \in [1..n -> Nat] BY <1>5, <1>6
<1>16. QED BY <1>7, <1>8, <1>14, <1>15 DEF Split

\* The last fragment makes the sum exact.
LEMMA RoundedIs ==
  ASSUME NEW n \in Nat, n # 0, NEW t \in Nat, t < FragmentWidth, NEW a \in Nat, a <= t,
         NEW f, Split(n, a, f), NEW g, g = Rounded(t, f)
  PROVE  Split(n, t, g)
<1>1. FragmentWidth \in Nat /\ a < FragmentWidth BY FragmentsAssumption
<1>2. SumOf(f) = a BY <1>1, SumOfWord
<1>3. DOMAIN f = 1..n /\ f \in [1..n -> Nat] BY DEF Split
<1>4. Len(f) = n /\ n \in 1..n BY <1>3, LenOfFunction
<1>5. CASE t > a
  <2>1. g = [f EXCEPT ![n] = @ + t - a] BY <1>2, <1>4, <1>5 DEF Rounded
  <2>2. PICK v \in Nat : v = f[n] BY <1>3, <1>4
  <2>3. PICK w \in Nat : w = v + t - a BY <1>5
  <2>4. g = [f EXCEPT ![n] = w] BY <2>1, <2>2, <2>3
  <2>5. t = a - v + w BY <2>3
  <2>6. Changed(n, f, g, n, v, w) BY <1>3, <1>4, <2>2, <2>4 DEF Changed
  <2>7. QED BY <2>5, <2>6, SplitChange
<1>6. CASE ~(t > a) BY <1>2, <1>6 DEF Rounded
<1>7. QED BY <1>5, <1>6

\* The largest of a list that is not empty.
LEMMA LargestIs ==
  ASSUME NEW n \in Nat, n # 0, NEW f \in [1..n -> Nat], NEW m, m = Largest(f)
  PROVE  m \in 1..n /\ \A i \in 1..n : f[i] <= f[m]
<1>1. PICK tops : tops = {j \in 1..n : \A k \in 1..n : f[k] <= f[j]} OBVIOUS
<1>2. DOMAIN f = 1..n /\ Len(f) = n BY LenOfFunction
<1>3. m = IF n \in tops THEN n ELSE First(tops) BY <1>1, <1>2 DEF Largest
<1>4. CASE n \in tops BY <1>1, <1>3, <1>4
<1>5. CASE n \notin tops
  <2>1. tops # {}
    <3>. DEFINE Above == {k \in Nat : \A i \in 1..n : f[i] <= k}
    <3>1. PICK t \in Nat : t = SumFunctionOnSet(f, 1..n) BY CountUpTo, SumNat
    <3>2. Split(n, t, f) BY <3>1 DEF Split
    <3>3. t \in Above BY <3>1, <3>2, SplitBounds
    <3>4. PICK b \in Above : \A k \in Above : b <= k
      <4>1. Above \in SUBSET Nat /\ Above # {} BY <3>3
      <4>. HIDE DEF Above
      <4>2. QED BY <4>1, SmallestNumber
    <3>5. \E j \in 1..n : f[j] = b
      <4>1. SUFFICES ASSUME \A j \in 1..n : f[j] # b PROVE FALSE OBVIOUS
      <4>2. b \in Nat /\ f[1] \in Nat /\ f[1] <= b /\ f[1] # b BY <3>4, <4>1
      <4>3. PICK c \in Nat : b = c + 1 BY <4>2
      <4>4. \A i \in 1..n : f[i] <= c
        <5>1. ASSUME NEW i \in 1..n PROVE f[i] <= c BY <3>4, <4>1, <4>3
        <5>2. QED BY <5>1
      <4>5. c \in Above BY <4>4
      <4>6. b <= c
        <5>. HIDE DEF Above
        <5>1. QED BY <3>4, <4>5
      <4>7. QED BY <4>3, <4>6
    <3>6. PICK j \in 1..n : f[j] = b BY <3>5
    <3>7. \A k \in 1..n : f[k] <= f[j] BY <3>4, <3>6
    <3>8. QED BY <1>1, <3>7
  <2>2. \E i \in tops : \A j \in tops : i <= j
    <3>1. tops \in SUBSET Nat BY <1>1
    <3>2. QED BY <2>1, <3>1, SmallestNumber
  <2>3. First(tops) \in tops BY <2>2 DEF First
  <2>4. QED BY <1>1, <1>3, <1>5, <2>3
<1>6. QED BY <1>4, <1>5

\* One step of the loop: as the debt is above the number of fragments, one
\* of them has more than 1 and lends it.
LEMMA TopUpIs ==
  ASSUME NEW n \in Nat, NEW t \in Nat, t > n, NEW f, Split(n, t, f), NEW i \in 1..n,
         NEW g, g = TopUp(f, i)
  PROVE  Split(n, t, g) /\ g[i] > 0 /\ \A j \in 1..n : f[j] > 0 => g[j] > 0
<1>1. f \in [1..n -> Nat] BY DEF Split
<1>2. CASE f[i] # 0 BY <1>1, <1>2 DEF TopUp
<1>3. CASE f[i] = 0
  <2>1. PICK one : one = [f EXCEPT ![i] = 1] OBVIOUS
  <2>2. PICK k \in Nat : k = t + 1 OBVIOUS
  <2>3. Split(n, k, one) /\ one[i] = 1 /\ \A j \in 1..n : j # i => one[j] = f[j]
    <3>1. k = t - 0 + 1 BY <2>2
    <3>2. Changed(n, f, one, i, 0, 1) BY <1>1, <1>3, <2>1 DEF Changed
    <3>3. Split(n, k, one) BY <3>1, <3>2, SplitChange
    <3>4. QED BY <3>2, <3>3 DEF Changed
  <2>20. one \in [1..n -> Nat] BY <2>3 DEF Split
  <2>4. PICK m : m = Largest(one) OBVIOUS
  <2>5. n # 0 OBVIOUS
  <2>6. m \in 1..n /\ \A j \in 1..n : one[j] <= one[m] BY <2>4, <2>5, <2>20, LargestIs
  <2>7. PICK v \in Nat : v = one[m] BY <2>6, <2>20
  <2>8. v > 1
    <3>1. SUFFICES ASSUME ~(v > 1) PROVE FALSE OBVIOUS
    <3>2. \A j \in 1..n : one[j] \in Int /\ one[j] <= 1
      <4>1. ASSUME NEW j \in 1..n PROVE one[j] \in Int /\ one[j] <= 1 BY <2>6, <2>7, <2>20, <3>1
      <4>2. QED BY <4>1
    <3>3. IsFiniteSet(1..n) /\ Cardinality(1..n) = n BY CountUpTo
    <3>4. SumFunctionOnSet(one, 1..n) <= 1 * Cardinality(1..n) BY <3>2, <3>3, SumMost
    <3>5. k <= n BY <2>3, <3>3, <3>4 DEF Split
    <3>6. QED BY <2>2, <3>5
  <2>9. m # i BY <2>3, <2>7, <2>8
  <2>10. g = [one EXCEPT ![m] = one[m] - 1] BY <1>3, <2>1, <2>4, <2>7, <2>8, <2>9 DEF TopUp
  <2>11. PICK w \in Nat : w = v - 1 /\ w > 0 BY <2>8
  <2>12. g = [one EXCEPT ![m] = w] BY <2>7, <2>10, <2>11
  <2>13. Split(n, t, g) /\ g[m] = w /\ \A j \in 1..n : j # m => g[j] = one[j]
    <3>1. t = k - v + w BY <2>2, <2>11
    <3>2. Changed(n, one, g, m, v, w) BY <2>6, <2>7, <2>12, <2>20 DEF Changed
    <3>3. Split(n, t, g) BY <2>3, <3>1, <3>2, SplitChange
    <3>4. QED BY <3>2, <3>3 DEF Changed
  <2>15. g[i] > 0 BY <2>3, <2>9, <2>13
  <2>16. ASSUME NEW j \in 1..n, f[j] > 0 PROVE g[j] > 0 BY <1>3, <2>3, <2>11, <2>13, <2>16
  <2>17. QED BY <2>13, <2>15, <2>16
<1>4. QED BY <1>2, <1>3

\* The loop: a function of the number of steps done.
Topping(h, f, n) == h = [k \in 0..n |-> IF k = 0 THEN f ELSE TopUp(h[k - 1], k)]

LEMMA ToppingExists ==
  ASSUME NEW n \in Nat, NEW t \in Nat, t > n, NEW f, Split(n, t, f) PROVE \E h : Topping(h, f, n)
<1>1. PICK S : S = 0..n OBVIOUS
<1>2. PICK V : V = {g \in [1..n -> Nat] : Split(n, t, g)} OBVIOUS
<1>3. PICK r : r = [k \in S |-> k] OBVIOUS
<1>4. PICK b : b = [k \in S |-> f] OBVIOUS
<1>5. PICK nx : nx = [k \in S |-> k - 1] OBVIOUS
<1>6. PICK st : st = [p \in S \X V |-> IF p[1] = 0 THEN p[2] ELSE TopUp(p[2], p[1])] OBVIOUS
<1>7. \A k \in S : r[k] \in 0..n BY <1>1, <1>3
<1>8. \A k \in S \cap {0} : b[k] \in V BY <1>2, <1>4 DEF Split
<1>9. \A k \in S \ {0} : nx[k] \in S /\ r[nx[k]] < r[k]
  <2>1. ASSUME NEW k \in S, k # 0 PROVE nx[k] \in S /\ r[nx[k]] < r[k] BY <1>1, <1>3, <1>5, <2>1
  <2>2. QED BY <2>1
<1>10. \A k \in S, g \in V : st[<<k, g>>] = IF k = 0 THEN g ELSE TopUp(g, k) BY <1>6
<1>11. st \in [S \X V -> V]
  <2>1. ASSUME NEW p \in S \X V PROVE (IF p[1] = 0 THEN p[2] ELSE TopUp(p[2], p[1])) \in V
    <3>1. PICK k \in S, g \in V : k = p[1] /\ g = p[2] OBVIOUS
    <3>2. CASE k = 0 BY <3>1, <3>2
    <3>3. CASE k # 0
      <4>1. k \in 1..n BY <1>1, <3>3
      <4>2. Split(n, t, g) BY <1>2
      <4>3. PICK x : x = TopUp(g, k) OBVIOUS
      <4>4. Split(n, t, x) BY <4>1, <4>2, <4>3, TopUpIs
      <4>5. x \in V BY <1>2, <4>4 DEF Split
      <4>6. QED BY <3>1, <3>3, <4>3, <4>5
    <3>4. QED BY <3>2, <3>3
  <2>2. QED BY <1>6, <2>1
<1>12. \E h \in [S -> V] : Recursive(h, S, {0}, b, nx, st)
  BY <1>7, <1>8, <1>9, <1>11, RecursionDefines
<1>13. PICK h \in [S -> V] : Recursive(h, S, {0}, b, nx, st) BY <1>12
<1>14. ASSUME NEW k \in S PROVE h[k] = IF k = 0 THEN f ELSE TopUp(h[k - 1], k)
  <2>1. h[k] = IF k \in {0} THEN b[k] ELSE st[<<k, h[nx[k]]>>] BY <1>13 DEF Recursive
  <2>2. CASE k = 0 BY <1>4, <2>1, <2>2
  <2>3. CASE k # 0 BY <1>5, <1>9, <1>10, <1>13, <2>1, <2>3
  <2>4. QED BY <2>2, <2>3
<1>15. h = [k \in S |-> IF k = 0 THEN f ELSE TopUp(h[k - 1], k)] BY <1>13, <1>14
<1>16. QED BY <1>1, <1>15 DEF Topping

LEMMA AllToppedUpIs ==
  ASSUME NEW n \in Nat, NEW t \in Nat, t > n, NEW f, Split(n, t, f), NEW g, g = AllToppedUp(f)
  PROVE  Split(n, t, g) /\ \A i \in 1..n : g[i] > 0
<1>1. DOMAIN f = 1..n /\ Len(f) = n BY LenOfFunction DEF Split
<1>2. PICK h : h = CHOOSE x : Topping(x, f, n) OBVIOUS
<1>3. Topping(h, f, n) BY <1>2, ToppingExists
<1>4. g = h[n] BY <1>1, <1>2 DEF AllToppedUp, Topping
<1>5. PICK P : P = {k \in 0..n : Split(n, t, h[k]) /\ \A i \in 1..k : h[k][i] > 0} OBVIOUS
<1>6. ASSUME NEW k \in 0..n, \A j \in 0..n : j < k => j \in P PROVE k \in P
  <2>1. h[k] = IF k = 0 THEN f ELSE TopUp(h[k - 1], k) BY <1>3 DEF Topping
  <2>2. CASE k = 0 BY <1>5, <2>1, <2>2
  <2>3. CASE k # 0
    <3>1. PICK j \in 0..n : j = k - 1 /\ j < k /\ k \in 1..n BY <2>3
    <3>2. PICK a, b : a = h[j] /\ b = h[k] OBVIOUS
    <3>3. Split(n, t, a) /\ \A i \in 1..j : a[i] > 0 BY <1>5, <1>6, <3>1, <3>2
    <3>4. b = TopUp(a, k) BY <2>1, <2>3, <3>1, <3>2
    <3>5. Split(n, t, b) /\ b[k] > 0 /\ \A i \in 1..n : a[i] > 0 => b[i] > 0 BY <3>1, <3>3, <3>4, TopUpIs
    <3>6. ASSUME NEW i \in 1..k PROVE b[i] > 0
      <4>1. CASE i = k BY <3>5, <4>1
      <4>2. CASE i # k BY <3>1, <3>3, <3>5, <4>2
      <4>3. QED BY <4>1, <4>2
    <3>7. QED BY <1>5, <3>2, <3>5, <3>6
  <2>4. QED BY <2>2, <2>3
<1>7. PICK S, r : S = 0..n /\ r = [k \in S |-> k] OBVIOUS
<1>8. n \in P
  <2>1. \A k \in S : r[k] \in Nat BY <1>7
  <2>2. ASSUME NEW k \in S, \A j \in S : r[j] < r[k] => j \in P PROVE k \in P BY <1>6, <1>7, <2>2
  <2>3. \A k \in S : k \in P BY <2>1, <2>2, RankInduction
  <2>4. QED BY <1>7, <2>3
<1>9. QED BY <1>4, <1>5, <1>8

\* What splitAmount returns.
Exact(n, t, f) == Split(n, t, f) /\ (t > n => \A i \in 1..n : f[i] > 0)

LEMMA SplitAmountIs ==
  ASSUME NEW n \in Nat, n # 0, NEW t \in Nat, t < FragmentWidth, NEW ws \in [1..n -> Nat \ {0}],
         SumFunctionOnSet(ws, 1..n) < FragmentWidth, NEW f, f = SplitAmount(t, ws)
  PROVE  Exact(n, t, f)
<1>1. DOMAIN ws = 1..n /\ Len(ws) = n BY LenOfFunction
<1>2. CASE n = 1 BY <1>1, <1>2, SumOne DEF SplitAmount, Exact, Split
<1>3. CASE n # 1 /\ t = 0 BY <1>1, <1>3, CountUpTo, SumZero DEF SplitAmount, Exact, Split
<1>4. CASE n # 1 /\ t # 0
  <2>1. PICK p : p = Proportional(t, ws) OBVIOUS
  <2>2. PICK a \in Nat : a <= t /\ Split(n, a, p) BY <2>1, ProportionalIs
  <2>3. PICK g : g = Rounded(t, p) OBVIOUS
  <2>4. Split(n, t, g) BY <2>2, <2>3, RoundedIs
  <2>5. Len(g) = n BY <2>4, LenOfFunction DEF Split
  <2>6. f = IF t > n THEN AllToppedUp(g) ELSE g BY <1>1, <1>4, <2>1, <2>3, <2>5 DEF SplitAmount
  <2>7. CASE t > n BY <2>4, <2>6, <2>7, AllToppedUpIs DEF Exact
  <2>8. CASE ~(t > n) BY <2>4, <2>6, <2>8 DEF Exact
  <2>9. QED BY <2>7, <2>8
<1>5. QED BY <1>2, <1>3, <1>4

LEMMA SplitStart ==
  ASSUME FragmentsInit
  PROVE  \E n \in Nat : n # 0 /\ Exact(n, total, fragments) /\ total \in Nat /\ total < FragmentWidth
<1>1. PICK n \in Counts : \E ws \in [1..n -> Weights] : fragments = SplitAmount(total, ws) BY DEF FragmentsInit
<1>2. PICK ws \in [1..n -> Weights] : fragments = SplitAmount(total, ws) BY <1>1
<1>3. n \in Nat /\ n # 0 /\ FragmentWidth \in Nat /\ Weights \subseteq Nat \ {0} BY FragmentsAssumption
<1>4. total \in Nat /\ total < FragmentWidth BY <1>3, FragmentsAssumption DEF FragmentsInit
<1>5. PICK m \in Weights \cup {0} : \A w \in Weights, k \in Counts : w <= m /\ k * m < FragmentWidth
  BY FragmentsAssumption
<1>6. ws \in [1..n -> Nat \ {0}] BY <1>3
<1>7. m \in Nat BY <1>3
<1>8. SumFunctionOnSet(ws, 1..n) < FragmentWidth
  <2>1. IsFiniteSet(1..n) /\ Cardinality(1..n) = n BY <1>3, CountUpTo
  <2>2. \A i \in 1..n : ws[i] \in Int /\ ws[i] <= m
    <3>1. \A w \in Weights : w <= m /\ w \in Int BY <1>3, <1>5
    <3>2. \A i \in 1..n : ws[i] \in Weights OBVIOUS
    <3>3. QED BY <3>1, <3>2
  <2>3. SumFunctionOnSet(ws, 1..n) <= m * n BY <1>7, <2>1, <2>2, SumMost
  <2>4. SumFunctionOnSet(ws, 1..n) \in Int BY <2>1, <2>2, SumType
  <2>5. 1 \in 1..n BY <1>3
  <2>6. n * m < FragmentWidth BY <1>5, <2>5
  <2>7. m * n = n * m /\ n * m \in Nat BY <1>3, <1>7
  <2>8. QED BY <1>3, <2>3, <2>4, <2>6, <2>7
<1>9. Exact(n, total, fragments) BY <1>2, <1>3, <1>4, <1>6, <1>8, SplitAmountIs
<1>10. QED BY <1>3, <1>4, <1>9

LEMMA ExactIs ==
  ASSUME NEW n \in Nat, total \in Nat, total < FragmentWidth, Exact(n, total, fragments) PROVE SplitExact
BY LenOfFunction, SumOfWord, SplitBounds DEF Exact, Split, SplitExact, Indices

-----------------------------------------------------------------------------
(* The payments of a debt in n fragments.  A fragment that two payers      *)
(* never had at a time, and that is not the first, has one payer or one    *)
(* record.                                                                 *)
Carries(p, i) == paying[p] = i
Recorded(k, i) == k \in 1..Len(payments) /\ payments[k] = i

PaidOnce(i) ==
  /\ \A p, q \in Payers : Carries(p, i) /\ Carries(q, i) => p = q
  /\ \A p \in Payers : \A k \in Nat : Carries(p, i) => ~Recorded(k, i)
  /\ \A k, l \in Nat : Recorded(k, i) /\ Recorded(l, i) => k = l

FragmentsInv ==
  /\ \E n \in Nat : n # 0 /\ Exact(n, total, fragments) /\ total \in Nat /\ total < FragmentWidth
  /\ payments \in Seq(Indices)
  /\ paying \in [Payers -> Indices \cup {0}]
  /\ \A i \in Indices : i \notin met \cup {1} => PaidOnce(i)

LEMMA PlanIs ==
  ASSUME FragmentsInv
  PROVE  \E n \in Nat : n # 0 /\ Indices = 1..n /\ Len(fragments) = n
BY LenOfFunction DEF FragmentsInv, Exact, Split, Indices

LEMMA UnpaidIs ==
  ASSUME FragmentsInv, NEW i \in Unpaid PROVE i \in Indices /\ \A k \in Nat : ~Recorded(k, i)
BY DEF Unpaid, ToSet, Recorded, FragmentsInv

LEMMA FirstUnpaid ==
  ASSUME FragmentsInv, Unpaid # {} PROVE NextDue \in Unpaid
<1>1. PICK U : U = Unpaid OBVIOUS
<1>2. PICK n \in Nat : Indices = 1..n BY PlanIs
<1>3. U \in SUBSET Nat /\ U # {} BY <1>1, <1>2 DEF Unpaid
<1>4. \E x \in U : \A y \in U : x <= y BY <1>3, SmallestNumber
<1>5. First(U) \in U BY <1>4 DEF First
<1>6. QED BY <1>1, <1>5 DEF NextDue

LEMMA FragmentsStart == FragmentsInit => FragmentsInv
<1>1. SUFFICES ASSUME FragmentsInit PROVE FragmentsInv OBVIOUS
<1>2. payments = <<>> /\ paying = [p \in Payers |-> 0] BY <1>1 DEF FragmentsInit
<1>3. \A p \in Payers, i \in Indices : ~Carries(p, i) BY <1>1, <1>2, SplitStart DEF Exact, Split, Indices, Carries
<1>4. \A k \in Nat, i \in Indices : ~Recorded(k, i) BY <1>2 DEF Recorded
<1>5. \A i \in Indices : PaidOnce(i) BY <1>3, <1>4 DEF PaidOnce
<1>6. QED BY <1>1, <1>2, <1>5, SplitStart DEF FragmentsInv

\* A payer is told to pay a fragment that is not paid, or the first.
Takes(p, i) ==
  /\ i \in Indices /\ (i \in Unpaid \/ i = 1) /\ paying[p] = 0
  /\ paying' = [paying EXCEPT ![p] = i]
  /\ met' = IF \E q \in Payers : paying[q] = i THEN met \cup {i} ELSE met
  /\ UNCHANGED <<total, fragments, due, payments>>

LEMMA NextDueTakes ==
  ASSUME FragmentsInv, NEW p \in Payers, GetNextDue(p) PROVE \E i : Takes(p, i)
BY FirstUnpaid DEF GetNextDue, Unpaid, Takes

LEMMA NextFragmentTakes ==
  ASSUME FragmentsInv, NEW p \in Payers, NEW i \in Indices, GetNextFragment(p, i) PROVE Takes(p, i)
BY DEF GetNextFragment, Takes, Earliest

LEMMA TakesKeeps ==
  ASSUME FragmentsInv, NEW p \in Payers, NEW i, Takes(p, i) PROVE FragmentsInv'
<1>1. PICK n \in Nat : n # 0 /\ Indices = 1..n BY PlanIs
<1>2. fragments' = fragments /\ total' = total /\ payments' = payments BY DEF Takes
<1>3. Indices' = Indices BY <1>2 DEF Indices
<1>4. paying \in [Payers -> Indices \cup {0}] /\ i \in Indices /\ paying[p] = 0
  BY DEF FragmentsInv, Takes
<1>5. paying' = [paying EXCEPT ![p] = i] BY DEF Takes
<1>6. paying' \in [Payers -> Indices' \cup {0}] BY <1>3, <1>4, <1>5
<1>7. ASSUME NEW j \in Indices, j \notin met' \cup {1} PROVE PaidOnce(j)'
  <2>1. j \notin met \cup {1} BY <1>7 DEF Takes
  <2>2. PaidOnce(j) BY <2>1 DEF FragmentsInv
  <2>3. \A k \in Nat : Recorded(k, j)' <=> Recorded(k, j) BY <1>2 DEF Recorded
  <2>4. CASE j # i
    <3>1. \A q \in Payers : Carries(q, j)' <=> Carries(q, j) BY <1>1, <1>4, <1>5, <2>4 DEF Carries
    <3>2. QED BY <2>2, <2>3, <3>1 DEF PaidOnce
  <2>5. CASE j = i BY <1>4, <1>5, <1>7, <2>3, <2>5, UnpaidIs DEF Takes, Carries, PaidOnce
  <2>6. QED BY <2>4, <2>5
<1>8. QED BY <1>2, <1>3, <1>6, <1>7 DEF FragmentsInv

LEMMA RecordPaymentKeeps ==
  ASSUME FragmentsInv, NEW p \in Payers, RecordPayment(p) PROVE FragmentsInv'
<1>1. PICK n \in Nat : n # 0 /\ Indices = 1..n BY PlanIs
<1>2. fragments' = fragments /\ total' = total /\ met' = met BY DEF RecordPayment
<1>3. Indices' = Indices BY <1>2 DEF Indices
<1>4. PICK i : i = paying[p] OBVIOUS
<1>5. paying \in [Payers -> Indices \cup {0}] /\ payments \in Seq(Indices) BY DEF FragmentsInv
<1>6. i \in Indices BY <1>4, <1>5 DEF RecordPayment
<1>7. payments' = Append(payments, i) /\ paying' = [paying EXCEPT ![p] = 0] BY <1>4 DEF RecordPayment
<1>8. payments' \in Seq(Indices') /\ paying' \in [Payers -> Indices' \cup {0}] BY <1>3, <1>5, <1>6, <1>7
<1>9. PICK len \in Nat : len = Len(payments) /\ Len(payments') = len + 1 /\ payments'[len + 1] = i
                        /\ \A k \in 1..len : payments'[k] = payments[k]
  BY <1>5, <1>6, <1>7
<1>10. ASSUME NEW j \in Indices, j \notin met \cup {1} PROVE PaidOnce(j)'
  <2>1. PaidOnce(j) BY <1>10 DEF FragmentsInv
  <2>2. \A q \in Payers : Carries(q, j)' => Carries(q, j) /\ q # p BY <1>1, <1>5, <1>7 DEF Carries
  <2>3. \A k \in Nat : Recorded(k, j)' => Recorded(k, j) \/ (k = len + 1 /\ j = i) BY <1>9 DEF Recorded
  <2>4. CASE j # i BY <2>1, <2>2, <2>3, <2>4 DEF PaidOnce
  <2>5. CASE j = i BY <1>4, <2>1, <2>2, <2>3, <2>5 DEF Carries, PaidOnce
  <2>6. QED BY <2>4, <2>5
<1>11. QED BY <1>2, <1>3, <1>8, <1>10 DEF FragmentsInv

LEMMA FragmentsStep == FragmentsInv /\ [FragmentsNext]_fragmentsVars => FragmentsInv'
<1>1. SUFFICES ASSUME FragmentsInv, [FragmentsNext]_fragmentsVars PROVE FragmentsInv' OBVIOUS
<1>2. ASSUME UNCHANGED <<total, fragments, payments, paying, met>> PROVE FragmentsInv'
  BY <1>1, <1>2 DEF Indices, PaidOnce, Carries, Recorded, FragmentsInv
<1>3. CASE UNCHANGED fragmentsVars BY <1>2, <1>3 DEF fragmentsVars
<1>4. CASE FallDueNext BY <1>2, <1>4 DEF FallDueNext
<1>5. ASSUME NEW p \in Payers, GetNextDue(p) PROVE FragmentsInv' BY <1>1, <1>5, NextDueTakes, TakesKeeps
<1>6. ASSUME NEW p \in Payers, RecordPayment(p) PROVE FragmentsInv' BY <1>1, <1>6, RecordPaymentKeeps
<1>7. ASSUME NEW p \in Payers, NEW i \in Indices, GetNextFragment(p, i) PROVE FragmentsInv'
  BY <1>1, <1>7, NextFragmentTakes, TakesKeeps
<1>8. QED BY <1>1, <1>3, <1>4, <1>5, <1>6, <1>7 DEF FragmentsNext

-----------------------------------------------------------------------------
LEMMA TwiceIs ==
  ASSUME NEW i \in Indices, Indices \subseteq Nat, payments \in Seq(Indices)
  PROVE  i \in Twice <=> \E k, l \in Nat : Recorded(k, i) /\ Recorded(l, i) /\ k # l
<1>1. PICK A : A = {k \in DOMAIN payments : payments[k] = i} OBVIOUS
<1>2. PICK len \in Nat : len = Len(payments) /\ DOMAIN payments = 1..len OBVIOUS
<1>3. A = {k \in 1..len : payments[k] = i} BY <1>1, <1>2
<1>4. IsFiniteSet(A) BY <1>3, CountUpTo, FS_Subset
<1>5. Cardinality(A) \in Nat BY <1>4, FS_CardinalityType
<1>6. i \in Twice <=> Cardinality(A) > 1 BY <1>1 DEF Twice
<1>7. \A k : k \in A <=> k \in Nat /\ Recorded(k, i) BY <1>2, <1>3 DEF Recorded
<1>8. ASSUME Cardinality(A) > 1 PROVE \E k, l \in A : k # l
  <2>1. PICK k : k \in A BY <1>4, <1>5, <1>8, FS_EmptySet
  <2>2. Cardinality(A \ {k}) = Cardinality(A) - 1 /\ IsFiniteSet(A \ {k}) BY <1>4, <2>1, FS_RemoveElement
  <2>3. A \ {k} # {} BY <1>5, <1>8, <2>2, FS_EmptySet
  <2>4. QED BY <2>1, <2>3
<1>9. ASSUME NEW k \in A, NEW l \in A, k # l PROVE Cardinality(A) > 1
  <2>1. Cardinality(A \ {k}) = Cardinality(A) - 1 /\ IsFiniteSet(A \ {k}) BY <1>4, FS_RemoveElement
  <2>2. l \in A \ {k} BY <1>9
  <2>3. Cardinality(A \ {k}) # 0 BY <2>1, <2>2, FS_EmptySet
  <2>4. Cardinality(A \ {k}) \in Nat BY <2>1, FS_CardinalityType
  <2>5. QED BY <1>5, <2>1, <2>3, <2>4
<1>10. QED BY <1>6, <1>7, <1>8, <1>9

LEMMA PaidTwiceIs == FragmentsInv => PaidTwiceExplained
BY PlanIs, TwiceIs DEF PaidTwiceExplained, Twice, FragmentsInv, PaidOnce

\* As many different payments as there are fragments are all of them.
LEMMA AllRecorded ==
  ASSUME FragmentsInv, IsFullyPaid, Twice = {} PROVE Unpaid = {}
<1>1. PICK n \in Nat : Indices = 1..n /\ Len(fragments) = n BY PlanIs
<1>2. payments \in Seq(Indices) BY DEF FragmentsInv
<1>3. PICK len \in Nat : len = Len(payments) /\ payments \in [1..len -> 1..n] BY <1>1, <1>2
<1>4. len >= n BY <1>1, <1>3 DEF IsFullyPaid
<1>5. ASSUME NEW k \in 1..len, NEW l \in 1..len, payments[k] = payments[l] PROVE k = l
  BY <1>1, <1>2, <1>3, <1>5, TwiceIs DEF Recorded
<1>6. payments \in Injection(1..len, 1..n) BY <1>3, <1>5 DEF Injection, IsInjective
<1>7. /\ IsFiniteSet(1..n) /\ Cardinality(1..n) = n /\ Cardinality(1..len) = len BY CountUpTo
<1>8. payments \in Surjection(1..len, 1..n) BY <1>4, <1>6, <1>7, FS_Injection
<1>9. \A i \in 1..n : \E k \in 1..len : payments[k] = i BY <1>8 DEF Surjection
<1>10. QED BY <1>1, <1>3, <1>9 DEF Unpaid, ToSet

LEMMA AllPaid ==
  ASSUME FragmentsInv, Unpaid = {} PROVE IsFullyPaid /\ RemainingAmount = 0
<1>1. PICK n \in Nat : Indices = 1..n /\ Len(fragments) = n BY PlanIs
<1>2. PICK f : f = [i \in Indices |-> IF i \in Unpaid THEN fragments[i] ELSE 0] OBVIOUS
<1>3. f \in [1..n -> Nat] /\ \A i \in 1..n : f[i] = 0 BY <1>1, <1>2
<1>4. SumFunctionOnSet(f, 1..n) = 0 BY <1>3, CountUpTo, SumZero
<1>5. 0 < FragmentWidth BY FragmentsAssumption DEF FragmentsInv
<1>6. SumOf(f) = 0 BY <1>3, <1>4, <1>5, SumOfWord DEF Split
<1>7. RemainingAmount = 0 BY <1>2, <1>6 DEF RemainingAmount
<1>8. IsFullyPaid
  <2>1. payments \in Seq(Indices) BY DEF FragmentsInv
  <2>2. PICK len \in Nat : len = Len(payments) /\ payments \in [1..len -> 1..n] BY <1>1, <2>1
  <2>3. \A i \in 1..n : \E k \in 1..len : payments[k] = i BY <1>1, <2>2 DEF Unpaid, ToSet
  <2>4. payments \in Surjection(1..len, 1..n) BY <2>2, <2>3 DEF Surjection
  <2>5. IsFiniteSet(1..len) /\ Cardinality(1..len) = len /\ Cardinality(1..n) = n BY CountUpTo
  <2>6. Cardinality(1..n) <= Cardinality(1..len) BY <2>4, <2>5, FS_Surjection
  <2>7. QED BY <1>1, <2>2, <2>5, <2>6 DEF IsFullyPaid
<1>9. QED BY <1>7, <1>8

(* For any debts, weights and payers: a debt is split exactly, and counts  *)
(* as paid when its fragments are, but for what two payers do at a time.   *)
THEOREM FragmentsAreSound == FragmentsSpec => []FragmentsSound
<1>1. FragmentsInv => FragmentsSound
  <2>1. SUFFICES ASSUME FragmentsInv PROVE FragmentsSound OBVIOUS
  <2>2. SplitExact BY <2>1, ExactIs DEF FragmentsInv
  <2>3. IsFullyPaid /\ RemainingAmount > 0 => Twice # {}
    <3>1. ASSUME IsFullyPaid, RemainingAmount > 0, Twice = {} PROVE FALSE BY <2>1, <3>1, AllRecorded, AllPaid
    <3>2. QED BY <3>1
  <2>4. FullyPaidSound BY <2>1, <2>3, AllPaid DEF FullyPaidSound
  <2>5. QED BY <2>1, <2>2, <2>4, PaidTwiceIs DEF FragmentsSound
<1>2. QED BY <1>1, FragmentsStart, FragmentsStep, PTL DEF FragmentsSpec

-----------------------------------------------------------------------------
(* The commitment tree.  Its levels, the positions of a leaf and the       *)
(* hashes of a path are recursive functions: they exist, as every number   *)
(* of steps can be followed by one more.                                   *)
Halved(f, index, n) == f = [k \in 0..n |-> IF k = 0 THEN index ELSE f[k - 1] \div 2]
Climbed(f, list, n) == f = [k \in 0..n |-> IF k = 0 THEN list ELSE NextLevel(f[k - 1])]
Hashed(f, proof, c, n) ==
  f = [k \in 0..n |->
         IF k = 0 THEN HashLeaf(c)
         ELSE IF At(proof.index, k - 1) % 2 = 0 THEN HashPair(f[k - 1], proof.siblings[k])
         ELSE HashPair(proof.siblings[k], f[k - 1])]

LEMMA HalvedExists == ASSUME NEW index PROVE \A n \in Nat : \E f : Halved(f, index, n)
<1>1. PICK P : P = {n \in Nat : \E f : Halved(f, index, n)} OBVIOUS
<1>2. 0 \in P
  <2>1. PICK f : f = [k \in 0..0 |-> index] OBVIOUS
  <2>2. f = [k \in 0..0 |-> IF k = 0 THEN index ELSE f[k - 1] \div 2] BY <2>1
  <2>3. QED BY <1>1, <2>2 DEF Halved
<1>3. ASSUME NEW n \in Nat, n \in P PROVE n + 1 \in P
  <2>1. PICK f : Halved(f, index, n) BY <1>1, <1>3
  <2>2. PICK g : g = [k \in 0..(n + 1) |-> IF k = n + 1 THEN f[n] \div 2 ELSE f[k]] OBVIOUS
  <2>3. ASSUME NEW k \in 0..(n + 1) PROVE g[k] = IF k = 0 THEN index ELSE g[k - 1] \div 2
    <3>1. CASE k = n + 1 BY <2>2, <3>1
    <3>2. CASE k # n + 1 BY <2>1, <2>2, <3>2 DEF Halved
    <3>3. QED BY <3>1, <3>2
  <2>4. g = [k \in 0..(n + 1) |-> IF k = 0 THEN index ELSE g[k - 1] \div 2] BY <2>2, <2>3
  <2>5. n + 1 \in Nat OBVIOUS
  <2>6. QED BY <1>1, <2>4, <2>5 DEF Halved
<1>4. QED BY <1>1, <1>2, <1>3, StepByStep

LEMMA ClimbedExists == ASSUME NEW list PROVE \A n \in Nat : \E f : Climbed(f, list, n)
<1>1. PICK P : P = {n \in Nat : \E f : Climbed(f, list, n)} OBVIOUS
<1>2. 0 \in P
  <2>1. PICK f : f = [k \in 0..0 |-> list] OBVIOUS
  <2>2. f = [k \in 0..0 |-> IF k = 0 THEN list ELSE NextLevel(f[k - 1])] BY <2>1
  <2>3. QED BY <1>1, <2>2 DEF Climbed
<1>3. ASSUME NEW n \in Nat, n \in P PROVE n + 1 \in P
  <2>1. PICK f : Climbed(f, list, n) BY <1>1, <1>3
  <2>2. PICK g : g = [k \in 0..(n + 1) |-> IF k = n + 1 THEN NextLevel(f[n]) ELSE f[k]] OBVIOUS
  <2>3. ASSUME NEW k \in 0..(n + 1) PROVE g[k] = IF k = 0 THEN list ELSE NextLevel(g[k - 1])
    <3>1. CASE k = n + 1 BY <2>2, <3>1
    <3>2. CASE k # n + 1 BY <2>1, <2>2, <3>2 DEF Climbed
    <3>3. QED BY <3>1, <3>2
  <2>4. g = [k \in 0..(n + 1) |-> IF k = 0 THEN list ELSE NextLevel(g[k - 1])] BY <2>2, <2>3
  <2>5. n + 1 \in Nat OBVIOUS
  <2>6. QED BY <1>1, <2>4, <2>5 DEF Climbed
<1>4. QED BY <1>1, <1>2, <1>3, StepByStep

LEMMA HashedExists == ASSUME NEW proof, NEW c PROVE \A n \in Nat : \E f : Hashed(f, proof, c, n)
<1>. DEFINE Up(h, k) == IF At(proof.index, k - 1) % 2 = 0 THEN HashPair(h, proof.siblings[k])
                        ELSE HashPair(proof.siblings[k], h)
<1>0. \A f, n : Hashed(f, proof, c, n) <=> f = [k \in 0..n |-> IF k = 0 THEN HashLeaf(c) ELSE Up(f[k - 1], k)]
  BY DEF Hashed
<1>. HIDE DEF Up
<1>1. PICK P : P = {n \in Nat : \E f : Hashed(f, proof, c, n)} OBVIOUS
<1>2. 0 \in P
  <2>1. PICK f : f = [k \in 0..0 |-> HashLeaf(c)] OBVIOUS
  <2>2. f = [k \in 0..0 |-> IF k = 0 THEN HashLeaf(c) ELSE Up(f[k - 1], k)] BY <2>1
  <2>3. QED BY <1>0, <1>1, <2>2
<1>3. ASSUME NEW n \in Nat, n \in P PROVE n + 1 \in P
  <2>1. PICK f : f = [k \in 0..n |-> IF k = 0 THEN HashLeaf(c) ELSE Up(f[k - 1], k)] BY <1>0, <1>1, <1>3
  <2>2. PICK g : g = [k \in 0..(n + 1) |-> IF k = n + 1 THEN Up(f[n], k) ELSE f[k]] OBVIOUS
  <2>3. ASSUME NEW k \in 0..(n + 1) PROVE g[k] = IF k = 0 THEN HashLeaf(c) ELSE Up(g[k - 1], k)
    <3>1. CASE k = n + 1 BY <2>2, <3>1
    <3>2. CASE k # n + 1 BY <2>1, <2>2, <3>2
    <3>3. QED BY <3>1, <3>2
  <2>4. g = [k \in 0..(n + 1) |-> IF k = 0 THEN HashLeaf(c) ELSE Up(g[k - 1], k)] BY <2>2, <2>3
  <2>5. n + 1 \in Nat OBVIOUS
  <2>6. QED BY <1>0, <1>1, <2>4, <2>5
<1>4. \A n \in Nat : n \in P BY <1>2, <1>3, StepByStep
<1>5. QED BY <1>1, <1>4

\* The positions of a leaf are halved from level to level.
LEMMA AtHalves ==
  ASSUME NEW index \in Nat
  PROVE  At(index, 0) = index /\ \A n \in Nat : At(index, n) \in Nat /\ At(index, n + 1) = At(index, n) \div 2
<1>1. \A n \in Nat : \E f : Halved(f, index, n) /\ At(index, n) = f[n]
  <2>1. SUFFICES ASSUME NEW n \in Nat PROVE \E f : Halved(f, index, n) /\ At(index, n) = f[n] OBVIOUS
  <2>2. PICK f : f = CHOOSE x : Halved(x, index, n) OBVIOUS
  <2>3. Halved(f, index, n) BY <2>2, HalvedExists
  <2>4. At(index, n) = (CHOOSE x : x = [k \in 0..n |-> IF k = 0 THEN index ELSE x[k - 1] \div 2])[n]
    BY DEF At
  <2>5. At(index, n) = f[n] BY <2>2, <2>4 DEF Halved
  <2>6. QED BY <2>3, <2>5
<1>2. \A n, m \in Nat : \A f, g : Halved(f, index, n) /\ Halved(g, index, m) => \A k \in Nat : k <= n /\ k <= m => f[k] = g[k]
  <2>1. SUFFICES ASSUME NEW n \in Nat, NEW m \in Nat, NEW f, NEW g, Halved(f, index, n), Halved(g, index, m)
                 PROVE  \A k \in Nat : k <= n /\ k <= m => f[k] = g[k] OBVIOUS
  <2>2. PICK P : P = {k \in Nat : k <= n /\ k <= m => f[k] = g[k]} OBVIOUS
  <2>3. f[0] = index /\ g[0] = index BY <2>1 DEF Halved
  <2>4. ASSUME NEW k \in Nat, k \in P, k + 1 <= n, k + 1 <= m PROVE f[k + 1] = g[k + 1]
    BY <2>1, <2>2, <2>4 DEF Halved
  <2>5. \A k \in Nat : k \in P BY <2>2, <2>3, <2>4, StepByStep
  <2>6. QED BY <2>2, <2>5
<1>3. At(index, 0) = index BY <1>1 DEF Halved
<1>4. ASSUME NEW n \in Nat PROVE At(index, n + 1) = At(index, n) \div 2
  <2>1. PICK f : Halved(f, index, n) /\ At(index, n) = f[n] BY <1>1
  <2>2. n + 1 \in Nat /\ n <= n + 1 /\ n <= n OBVIOUS
  <2>3. PICK g : Halved(g, index, n + 1) /\ At(index, n + 1) = g[n + 1] BY <1>1, <2>2
  <2>4. f[n] = g[n] BY <1>2, <2>1, <2>2, <2>3
  <2>5. n + 1 \in 0..(n + 1) /\ n + 1 # 0 /\ (n + 1) - 1 = n OBVIOUS
  <2>6. g[n + 1] = g[n] \div 2 BY <2>3, <2>5 DEF Halved
  <2>7. QED BY <2>1, <2>3, <2>4, <2>6
<1>5. \A n \in Nat : At(index, n) \in Nat
  <2>1. PICK P : P = {n \in Nat : At(index, n) \in Nat} OBVIOUS
  <2>2. 0 \in P BY <1>3, <2>1
  <2>3. \A n \in Nat : n \in P => n + 1 \in P BY <1>4, <2>1
  <2>4. QED BY <2>1, <2>2, <2>3, StepByStep
<1>6. QED BY <1>3, <1>4, <1>5

-----------------------------------------------------------------------------
(* A level is a list; one level up, each node stands for two neighbours.   *)
ListOf(s, n) == n \in Nat /\ n # 0 /\ DOMAIN s = 1..n /\ s = [i \in 1..n |-> s[i]]

LEMMA NextLevelIs ==
  ASSUME NEW s, NEW n, ListOf(s, n), NEW t, t = NextLevel(s)
  PROVE  /\ ListOf(t, (n + 1) \div 2)
         /\ \A i \in 1..((n + 1) \div 2) : t[i] = HashPair(s[2 * i - 1], IF 2 * i <= n THEN s[2 * i] ELSE s[2 * i - 1])
BY LenOfFunction DEF ListOf, NextLevel

LEMMA PairIs ==
  ASSUME NEW a, NEW b, NEW c, NEW d, HashPair(a, b) = HashPair(c, d) PROVE a = c /\ b = d
BY DEF HashPair

LEMMA LeafIsNoPair == \A c, a, b : HashLeaf(c) # HashPair(a, b) /\ HashLeaf(c) # ZeroHash /\ HashPair(a, b) # ZeroHash
BY DEF HashLeaf, HashPair, ZeroHash

LEMMA NextDifferent ==
  ASSUME NEW s, NEW n, ListOf(s, n), Different(s) PROVE Different(NextLevel(s))
<1>1. PICK t : t = NextLevel(s) OBVIOUS
<1>2. PICK m \in Nat : m = (n + 1) \div 2 /\ DOMAIN t = 1..m BY <1>1, NextLevelIs DEF ListOf
<1>3. n \in Nat /\ DOMAIN s = 1..n BY DEF ListOf
<1>4. ASSUME NEW i \in 1..m, NEW j \in 1..m, t[i] = t[j] PROVE i = j
  <2>1. s[2 * i - 1] = s[2 * j - 1] BY <1>1, <1>2, <1>4, NextLevelIs, PairIs
  <2>2. 2 * i - 1 \in 1..n /\ 2 * j - 1 \in 1..n BY <1>2, <1>3
  <2>3. 2 * i - 1 = 2 * j - 1 BY <1>3, <2>1, <2>2 DEF Different
  <2>4. QED BY <2>3
<1>5. QED BY <1>1, <1>2, <1>4 DEF Different

\* Lists without repetitions with the same level above are equal: a last
\* node that was paired with itself is no pair of two.
LEMMA NextLevelTells ==
  ASSUME NEW s, NEW n, ListOf(s, n), Different(s), NEW t, NEW k, ListOf(t, k), Different(t),
         NextLevel(s) = NextLevel(t)
  PROVE  s = t
<1>1. PICK u : u = NextLevel(s) /\ u = NextLevel(t) OBVIOUS
<1>2. n \in Nat /\ k \in Nat /\ DOMAIN s = 1..n /\ DOMAIN t = 1..k BY DEF ListOf
<1>3. PICK m \in Nat : m = (n + 1) \div 2 /\ m = (k + 1) \div 2
  <2>1. DOMAIN u = 1..((n + 1) \div 2) /\ DOMAIN u = 1..((k + 1) \div 2) BY <1>1, NextLevelIs DEF ListOf
  <2>2. PICK a \in Nat, b \in Nat : a = (n + 1) \div 2 /\ b = (k + 1) \div 2 BY <1>2
  <2>3. 1..a = 1..b BY <2>1, <2>2
  <2>4. a = b BY <2>3
  <2>5. QED BY <2>2, <2>4
<1>4. ASSUME NEW i \in 1..m
      PROVE  /\ s[2 * i - 1] = t[2 * i - 1]
             /\ (IF 2 * i <= n THEN s[2 * i] ELSE s[2 * i - 1]) = IF 2 * i <= k THEN t[2 * i] ELSE t[2 * i - 1]
  BY <1>1, <1>3, NextLevelIs, PairIs
<1>5. n = k
  <2>1. m # 0 /\ n \in {2 * m, 2 * m - 1} /\ k \in {2 * m, 2 * m - 1}
    <3>1. n # 0 BY DEF ListOf
    <3>2. QED BY <1>2, <1>3, <3>1
  <2>2. m \in 1..m BY <2>1
  <2>3. CASE n = 2 * m /\ k = 2 * m - 1 BY <1>2, <1>4, <2>1, <2>2, <2>3 DEF Different
  <2>4. CASE k = 2 * m /\ n = 2 * m - 1 BY <1>2, <1>4, <2>1, <2>2, <2>4 DEF Different
  <2>5. QED BY <2>1, <2>3, <2>4
<1>6. ASSUME NEW j \in 1..n PROVE s[j] = t[j]
  <2>1. PICK i \in 1..m : j = 2 * i - 1 \/ j = 2 * i
    <3>1. (j + 1) \div 2 \in 1..m /\ (j = 2 * ((j + 1) \div 2) - 1 \/ j = 2 * ((j + 1) \div 2)) BY <1>2, <1>3
    <3>2. QED BY <3>1
  <2>2. CASE j = 2 * i - 1 BY <1>4, <2>2
  <2>3. CASE j = 2 * i BY <1>4, <1>5, <2>3
  <2>4. QED BY <2>1, <2>2, <2>3
<1>7. s = [i \in 1..n |-> s[i]] /\ t = [i \in 1..n |-> t[i]] BY <1>5 DEF ListOf
<1>8. QED BY <1>6, <1>7

-----------------------------------------------------------------------------
(* The list of the commitments: each at its rank.                          *)
LEMMA SortedIs ==
  ASSUME NEW cs \in SUBSET Nat, IsFiniteSet(cs), NEW n \in Nat, n = Cardinality(cs), NEW s, s = Sorted(cs)
  PROVE  /\ DOMAIN s = 1..n /\ s = [i \in 1..n |-> s[i]] /\ Different(s)
         /\ \A i \in 1..n : s[i] \in cs
         /\ \A c \in cs : RankOf(cs, c) + 1 \in 1..n /\ s[RankOf(cs, c) + 1] = c
<1>1. s = ByRank(cs) BY DEF Sorted, ByRank
<1>2. QED BY <1>1, ListOfRanks

-----------------------------------------------------------------------------
(* The levels of a tree with a commitment at least.                        *)
TreeOf(cs, n) == cs \in SUBSET Nat /\ IsFiniteSet(cs) /\ n \in Nat /\ n # 0 /\ n = Cardinality(cs)
BottomOf(cs, n) == [i \in 1..n |-> HashLeaf(Sorted(cs)[i])]

\* A level of at most so many nodes, all different.
Level(s, most) == \E w : ListOf(s, w) /\ Different(s) /\ (w = 1 \/ w <= most)

LEMMA BottomIs == ASSUME NEW cs, NEW n, TreeOf(cs, n) PROVE Level(BottomOf(cs, n), n)
<1>1. PICK s : s = Sorted(cs) OBVIOUS
<1>2. n \in Nat /\ n # 0 /\ Different(s) /\ DOMAIN s = 1..n BY <1>1, SortedIs DEF TreeOf
<1>3. PICK b : b = BottomOf(cs, n) OBVIOUS
<1>4. DOMAIN b = 1..n /\ b = [i \in 1..n |-> b[i]] /\ \A i \in 1..n : b[i] = HashLeaf(s[i]) BY <1>1, <1>3 DEF BottomOf
<1>5. ASSUME NEW i \in 1..n, NEW j \in 1..n, b[i] = b[j] PROVE i = j BY <1>2, <1>4, <1>5 DEF HashLeaf, Different
<1>6. Different(b) BY <1>4, <1>5 DEF Different
<1>7. ListOf(b, n) BY <1>2, <1>4 DEF ListOf
<1>8. n <= n BY <1>2
<1>9. QED BY <1>3, <1>6, <1>7, <1>8 DEF Level

LEMMA LevelUp ==
  ASSUME NEW s, NEW most \in Nat, Level(s, most) PROVE Level(NextLevel(s), most - 1)
<1>1. PICK w : ListOf(s, w) /\ Different(s) /\ (w = 1 \/ w <= most) BY DEF Level
<1>2. PICK m : m = (w + 1) \div 2 OBVIOUS
<1>3. ListOf(NextLevel(s), m) /\ Different(NextLevel(s)) BY <1>1, <1>2, NextLevelIs, NextDifferent
<1>4. m = 1 \/ m <= most - 1
  <2>1. w \in Nat /\ w # 0 BY <1>1 DEF ListOf
  <2>2. CASE w \in {1, 2} BY <1>2, <2>2
  <2>3. CASE w > 2 BY <1>1, <1>2, <2>1, <2>3
  <2>4. QED BY <2>1, <2>2, <2>3
<1>5. QED BY <1>3, <1>4 DEF Level

LEMMA LevelsAre ==
  ASSUME NEW cs, NEW n, TreeOf(cs, n), NEW f, f = Levels(cs)
  PROVE  /\ f[0] = BottomOf(cs, n)
         /\ \A k \in Nat : k < n => f[k + 1] = NextLevel(f[k])
         /\ \A k \in Nat : k <= n => Level(f[k], n - k)
<1>1. PICK b : b = BottomOf(cs, n) OBVIOUS
<1>2. n \in Nat BY DEF TreeOf
<1>3. Climbed(f, b, n)
  <2>1. PICK l : l = Sorted(cs) OBVIOUS
  <2>2. DOMAIN l = 1..n BY <2>1, SortedIs DEF TreeOf
  <2>3. b = [i \in DOMAIN l |-> HashLeaf(l[i])] BY <1>1, <2>1, <2>2 DEF BottomOf
  <2>4. f = CHOOSE x : x = [k \in 0..n |-> IF k = 0 THEN b ELSE NextLevel(x[k - 1])]
    BY <2>1, <2>3 DEF Levels, TreeOf
  <2>5. f = CHOOSE x : Climbed(x, b, n) BY <2>4 DEF Climbed
  <2>6. \E x : Climbed(x, b, n) BY <1>2, ClimbedExists
  <2>7. QED BY <2>5, <2>6
<1>4. f[0] = b BY <1>2, <1>3 DEF Climbed
<1>5. ASSUME NEW k \in Nat, k < n PROVE f[k + 1] = NextLevel(f[k])
  <2>1. k + 1 \in 0..n /\ k + 1 # 0 /\ (k + 1) - 1 = k BY <1>2, <1>5
  <2>2. QED BY <1>3, <2>1 DEF Climbed
<1>6. PICK P : P = {k \in Nat : k <= n => Level(f[k], n - k)} OBVIOUS
<1>7. 0 \in P BY <1>1, <1>2, <1>4, <1>6, BottomIs
<1>8. ASSUME NEW k \in Nat, k \in P PROVE k + 1 \in P BY <1>2, <1>5, <1>6, <1>8, LevelUp
<1>9. \A k \in Nat : k \in P BY <1>7, <1>8, StepByStep
<1>10. QED BY <1>1, <1>4, <1>5, <1>6, <1>9

\* The tree ends in one node.
LEMMA HeightIs ==
  ASSUME NEW cs, NEW n, TreeOf(cs, n), NEW f, f = Levels(cs), NEW h, h = Height(cs)
  PROVE  h \in 0..n /\ ListOf(f[h], 1) /\ ComputeMerkleRoot(cs) = f[h][1]
<1>1. n \in Nat /\ n # 0 /\ n = Cardinality(cs) BY DEF TreeOf
<1>2. \A k \in Nat : k <= n => \E w \in Nat : w # 0 /\ ListOf(f[k], w) /\ Len(f[k]) = w
  <2>1. SUFFICES ASSUME NEW k \in Nat, k <= n PROVE \E w \in Nat : w # 0 /\ ListOf(f[k], w) /\ Len(f[k]) = w OBVIOUS
  <2>2. Level(f[k], n - k) BY <2>1, LevelsAre
  <2>3. PICK w : ListOf(f[k], w) BY <2>2 DEF Level
  <2>4. QED BY <2>3, LenOfFunction DEF ListOf
<1>3. PICK T : T = {k \in 0..n : Len(f[k]) = 1} OBVIOUS
<1>4. n \in T
  <2>1. Level(f[n], n - n) BY <1>1, LevelsAre
  <2>2. PICK w : ListOf(f[n], w) /\ (w = 1 \/ w <= n - n) BY <2>1 DEF Level
  <2>3. w \in Nat /\ w # 0 /\ n - n = 0 BY <1>1, <2>2 DEF ListOf
  <2>4. w = 1 BY <2>2, <2>3
  <2>5. Len(f[n]) = 1 BY <2>2, <2>3, <2>4, LenOfFunction DEF ListOf
  <2>6. QED BY <1>1, <1>3, <2>5
<1>5. PICK k \in T : \A j \in T : k <= j BY <1>1, <1>3, <1>4, SmallestNumber
<1>6. k \in 0..n /\ Len(f[k]) = 1 BY <1>3
<1>7. ASSUME NEW j \in 0..(k - 1) PROVE Len(f[j]) > 1
  <2>1. j \in Nat /\ j <= n /\ j \in 0..n /\ ~(k <= j) BY <1>1, <1>6
  <2>2. PICK w \in Nat : w # 0 /\ Len(f[j]) = w BY <1>2, <2>1
  <2>3. j \notin T BY <1>5, <2>1
  <2>4. Len(f[j]) # 1 BY <1>3, <2>1, <2>3
  <2>5. QED BY <2>2, <2>4
<1>8. h = CHOOSE x \in 0..n : Len(f[x]) = 1 /\ \A j \in 0..(x - 1) : Len(f[j]) > 1 BY <1>1 DEF Height
<1>9. h \in 0..n /\ Len(f[h]) = 1 BY <1>6, <1>7, <1>8
<1>10. ListOf(f[h], 1)
  <2>1. h \in Nat /\ h <= n BY <1>1, <1>9
  <2>2. PICK w \in Nat : ListOf(f[h], w) /\ Len(f[h]) = w BY <1>2, <2>1
  <2>3. QED BY <1>9, <2>2
<1>11. cs # {} BY <1>1, FS_EmptySet
<1>12. QED BY <1>9, <1>10, <1>11 DEF ComputeMerkleRoot

-----------------------------------------------------------------------------
(* A root tells its tree.                                                  *)
LEMMA SamePeels ==
  ASSUME NEW cs, NEW n, TreeOf(cs, n), NEW ds, NEW m, TreeOf(ds, m),
         ComputeMerkleRoot(cs) = ComputeMerkleRoot(ds),
         NEW f, f = Levels(cs), NEW g, g = Levels(ds),
         NEW h \in Nat, h = Height(cs), NEW e \in Nat, e = Height(ds), h <= e
  PROVE  f[0] = g[e - h] /\ h <= n /\ e <= m
<1>1. n \in Nat /\ m \in Nat BY DEF TreeOf
<1>2. h \in 0..n /\ ListOf(f[h], 1) /\ ComputeMerkleRoot(cs) = f[h][1] BY HeightIs
<1>3. e \in 0..m /\ ListOf(g[e], 1) /\ ComputeMerkleRoot(ds) = g[e][1] BY HeightIs
<1>4. f[h] = g[e]
  <2>1. f[h] = [i \in 1..1 |-> f[h][i]] /\ g[e] = [i \in 1..1 |-> g[e][i]] BY <1>2, <1>3 DEF ListOf
  <2>2. f[h][1] = g[e][1] BY <1>2, <1>3
  <2>3. \A i \in 1..1 : f[h][i] = g[e][i] BY <2>2
  <2>4. QED BY <2>1, <2>3
<1>5. PICK P : P = {k \in Nat : k <= h => f[h - k] = g[e - k]} OBVIOUS
<1>6. 0 \in P BY <1>4, <1>5
<1>7. ASSUME NEW k \in Nat, k \in P PROVE k + 1 \in P
  <2>1. SUFFICES ASSUME k + 1 <= h PROVE f[h - (k + 1)] = g[e - (k + 1)] BY <1>5
  <2>2. PICK i \in Nat : i = h - (k + 1) /\ i + 1 = h - k /\ i < n /\ i <= n BY <1>1, <1>2, <2>1
  <2>3. PICK j \in Nat : j = e - (k + 1) /\ j + 1 = e - k /\ j < m /\ j <= m BY <1>1, <1>3, <2>1
  <2>4. k <= h BY <2>1
  <2>5. f[h - k] = g[e - k] BY <1>5, <1>7, <2>4
  <2>6. f[i + 1] = g[j + 1] BY <2>2, <2>3, <2>5
  <2>7. f[i + 1] = NextLevel(f[i]) /\ Level(f[i], n - i) BY <2>2, LevelsAre
  <2>8. g[j + 1] = NextLevel(g[j]) /\ Level(g[j], m - j) BY <2>3, LevelsAre
  <2>9. PICK v : ListOf(f[i], v) /\ Different(f[i]) BY <2>7 DEF Level
  <2>10. PICK w : ListOf(g[j], w) /\ Different(g[j]) BY <2>8 DEF Level
  <2>11. f[i] = g[j] BY <2>6, <2>7, <2>8, <2>9, <2>10, NextLevelTells
  <2>12. QED BY <2>2, <2>3, <2>11
<1>8. \A k \in Nat : k \in P BY <1>6, <1>7, StepByStep
<1>9. f[h - h] = g[e - h] BY <1>5, <1>8
<1>10. h - h = 0 OBVIOUS
<1>11. QED BY <1>1, <1>2, <1>3, <1>9, <1>10

LEMMA NodeIsPair ==
  ASSUME NEW cs, NEW n, TreeOf(cs, n), NEW f, f = Levels(cs), NEW k \in Nat, k < n, NEW i \in DOMAIN f[k + 1]
  PROVE  \E a \in DOMAIN f[k], b \in DOMAIN f[k] : f[k + 1][i] = HashPair(f[k][a], f[k][b])
<1>1. n \in Nat BY DEF TreeOf
<1>2. f[k + 1] = NextLevel(f[k]) /\ Level(f[k], n - k) BY <1>1, LevelsAre
<1>3. PICK w : ListOf(f[k], w) BY <1>2 DEF Level
<1>4. w \in Nat /\ DOMAIN f[k] = 1..w BY <1>3 DEF ListOf
<1>5. PICK t : t = NextLevel(f[k]) OBVIOUS
<1>6. DOMAIN t = 1..((w + 1) \div 2) BY <1>3, <1>5, NextLevelIs DEF ListOf
<1>7. PICK q \in 1..((w + 1) \div 2) : q = i BY <1>2, <1>5, <1>6
<1>8. t[q] = HashPair(f[k][2 * q - 1], IF 2 * q <= w THEN f[k][2 * q] ELSE f[k][2 * q - 1]) BY <1>3, <1>5, NextLevelIs
<1>9. PICK a \in 1..w : a = 2 * q - 1 BY <1>4
<1>10. PICK b \in 1..w : b = IF 2 * q <= w THEN 2 * q ELSE a BY <1>4, <1>9
<1>11. t[q] = HashPair(f[k][a], f[k][b]) BY <1>8, <1>9, <1>10
<1>12. QED BY <1>2, <1>4, <1>5, <1>7, <1>11

\* Trees with the same root are of one height.
LEMMA NotHigher ==
  ASSUME NEW cs, NEW n, TreeOf(cs, n), NEW ds, NEW m, TreeOf(ds, m),
         ComputeMerkleRoot(cs) = ComputeMerkleRoot(ds),
         NEW h \in Nat, h = Height(cs), NEW e \in Nat, e = Height(ds), h <= e
  PROVE  h = e
<1>1. PICK f, g : f = Levels(cs) /\ g = Levels(ds) OBVIOUS
<1>2. f[0] = g[e - h] /\ e <= m BY <1>1, SamePeels
<1>3. SUFFICES ASSUME h < e PROVE FALSE OBVIOUS
<1>4. n \in Nat /\ n # 0 /\ m \in Nat BY DEF TreeOf
<1>5. PICK k \in Nat : k + 1 = e - h /\ k < m BY <1>2, <1>3, <1>4
<1>6. f[0] = BottomOf(cs, n) BY <1>1, LevelsAre
<1>7. 1 \in DOMAIN f[0] /\ f[0][1] = HashLeaf(Sorted(cs)[1]) BY <1>4, <1>6 DEF BottomOf
<1>8. 1 \in DOMAIN g[k + 1] /\ g[k + 1][1] = HashLeaf(Sorted(cs)[1]) BY <1>2, <1>5, <1>7
<1>9. \E a, b : g[k + 1][1] = HashPair(a, b) BY <1>1, <1>5, <1>8, NodeIsPair
<1>10. QED BY <1>8, <1>9, LeafIsNoPair

LEMMA BottomTells ==
  ASSUME NEW cs, NEW n, TreeOf(cs, n), NEW ds, NEW m, TreeOf(ds, m), BottomOf(cs, n) = BottomOf(ds, m)
  PROVE  cs \subseteq ds
<1>1. PICK s, t : s = Sorted(cs) /\ t = Sorted(ds) OBVIOUS
<1>2. PICK b : b = BottomOf(cs, n) /\ b = BottomOf(ds, m) OBVIOUS
<1>3. b = [i \in 1..n |-> HashLeaf(s[i])] /\ b = [i \in 1..m |-> HashLeaf(t[i])] BY <1>1, <1>2 DEF BottomOf
<1>4. ASSUME NEW c \in cs PROVE c \in ds
  <2>1. PICK i : i \in 1..n /\ s[i] = c BY <1>1, SortedIs DEF TreeOf
  <2>2. b[i] = HashLeaf(c) BY <1>3, <2>1
  <2>3. i \in 1..m BY <1>3, <2>1
  <2>4. b[i] = HashLeaf(t[i]) BY <1>3, <2>3
  <2>5. HashLeaf(c).leaf = HashLeaf(t[i]).leaf BY <2>2, <2>4
  <2>6. c = t[i] BY <2>5 DEF HashLeaf
  <2>7. t[i] \in ds BY <1>1, <2>3, SortedIs DEF TreeOf
  <2>8. QED BY <2>6, <2>7
<1>5. QED BY <1>4

(* As hashes do not collide, no two sets of commitments have one root.     *)
LEMMA RootTells ==
  ASSUME NEW cs \in SUBSET Nat, IsFiniteSet(cs), NEW ds \in SUBSET Nat, IsFiniteSet(ds),
         ComputeMerkleRoot(cs) = ComputeMerkleRoot(ds)
  PROVE  cs = ds
<1>1. \A xs \in SUBSET Nat : IsFiniteSet(xs) /\ xs # {} => \E n : TreeOf(xs, n)
  BY FS_CardinalityType, FS_EmptySet DEF TreeOf
<1>2. ASSUME NEW xs, NEW n, TreeOf(xs, n) PROVE ComputeMerkleRoot(xs) # ZeroHash
  <2>1. PICK f, h : f = Levels(xs) /\ h = Height(xs) OBVIOUS
  <2>2. h \in 0..n /\ ListOf(f[h], 1) /\ ComputeMerkleRoot(xs) = f[h][1] BY <1>2, <2>1, HeightIs
  <2>3. n \in Nat /\ n # 0 BY <1>2 DEF TreeOf
  <2>4. 1 \in DOMAIN f[h] BY <2>2 DEF ListOf
  <2>5. CASE h = 0
    <3>1. f[0] = BottomOf(xs, n) /\ 1 \in 1..n BY <1>2, <2>1, <2>3, LevelsAre
    <3>2. f[0][1] = HashLeaf(Sorted(xs)[1]) BY <3>1 DEF BottomOf
    <3>3. QED BY <2>2, <2>5, <3>2, LeafIsNoPair
  <2>6. CASE h # 0
    <3>1. PICK k \in Nat : h = k + 1 /\ k < n
      <4>1. h - 1 \in Nat /\ h = (h - 1) + 1 /\ h - 1 < n BY <2>2, <2>3, <2>6
      <4>2. QED BY <4>1
    <3>2. \E a, b : f[k + 1][1] = HashPair(a, b) BY <1>2, <2>1, <2>4, <3>1, NodeIsPair
    <3>3. QED BY <2>2, <3>1, <3>2, LeafIsNoPair
  <2>7. QED BY <2>5, <2>6
<1>3. ComputeMerkleRoot({}) = ZeroHash BY DEF ComputeMerkleRoot
<1>4. CASE cs = {} \/ ds = {} BY <1>1, <1>2, <1>3, <1>4
<1>5. CASE cs # {} /\ ds # {}
  <2>1. PICK n : TreeOf(cs, n) BY <1>1, <1>5
  <2>2. PICK m : TreeOf(ds, m) BY <1>1, <1>5
  <2>3. PICK f, g : f = Levels(cs) /\ g = Levels(ds) OBVIOUS
  <2>4. PICK h \in Nat, e \in Nat : h = Height(cs) /\ e = Height(ds)
    <3>1. Height(cs) \in 0..n /\ Height(ds) \in 0..m BY <2>1, <2>2, HeightIs
    <3>2. n \in Nat /\ m \in Nat BY <2>1, <2>2 DEF TreeOf
    <3>3. QED BY <3>1, <3>2
  <2>5. h = e BY <2>1, <2>2, <2>4, NotHigher
  <2>6. f[0] = g[0]
    <3>1. h <= e /\ h \in Nat /\ e \in Nat /\ e - h = 0 BY <2>5
    <3>2. f[0] = g[e - h] BY <2>1, <2>2, <2>3, <2>4, <3>1, SamePeels
    <3>3. QED BY <3>1, <3>2
  <2>7. BottomOf(cs, n) = BottomOf(ds, m) BY <2>1, <2>2, <2>3, <2>6, LevelsAre
  <2>8. QED BY <2>1, <2>2, <2>7, BottomTells
<1>6. QED BY <1>4, <1>5

-----------------------------------------------------------------------------
(* Proofs of inclusion.                                                    *)
LEMMA HashedSteps ==
  ASSUME NEW H, NEW proof, NEW c, NEW m \in Nat, Hashed(H, proof, c, m)
  PROVE  /\ H[0] = HashLeaf(c)
         /\ \A k \in Nat : k < m =>
              H[k + 1] = IF At(proof.index, k) % 2 = 0 THEN HashPair(H[k], proof.siblings[k + 1])
                         ELSE HashPair(proof.siblings[k + 1], H[k])
<1>1. H[0] = HashLeaf(c) BY DEF Hashed
<1>2. ASSUME NEW k \in Nat, k < m
      PROVE  H[k + 1] = IF At(proof.index, k) % 2 = 0 THEN HashPair(H[k], proof.siblings[k + 1])
                        ELSE HashPair(proof.siblings[k + 1], H[k]) BY <1>2 DEF Hashed
<1>3. QED BY <1>1, <1>2

LEMMA VerifyIs ==
  ASSUME NEW r, NEW proof, NEW c, NEW m \in Nat, m = Len(proof.siblings)
  PROVE  \E H : Hashed(H, proof, c, m) /\ (VerifyProof(r, proof, c) <=> H[m] = r)
<1>1. PICK H : H = CHOOSE x : Hashed(x, proof, c, m) OBVIOUS
<1>2. Hashed(H, proof, c, m) BY <1>1, HashedExists
<1>3. H = CHOOSE x : x = [k \in 0..m |->
         IF k = 0 THEN HashLeaf(c)
         ELSE IF At(proof.index, k - 1) % 2 = 0 THEN HashPair(x[k - 1], proof.siblings[k])
         ELSE HashPair(proof.siblings[k], x[k - 1])]
  BY <1>1 DEF Hashed
<1>4. VerifyProof(r, proof, c) <=> H[m] = r BY <1>3 DEF VerifyProof
<1>5. QED BY <1>2, <1>4

\* The node above the one at i is made of it and its sibling.
Sibling(l, i) ==
  IF (IF i % 2 = 0 THEN i + 1 ELSE i - 1) < Len(l)
  THEN l[(IF i % 2 = 0 THEN i + 1 ELSE i - 1) + 1] ELSE l[i + 1]

LEMMA NodeAbove ==
  ASSUME NEW l, NEW w, ListOf(l, w), NEW i \in Nat, i + 1 \in 1..w, NEW t, t = NextLevel(l)
  PROVE  /\ (i \div 2) + 1 \in DOMAIN t
         /\ t[(i \div 2) + 1] = IF i % 2 = 0 THEN HashPair(l[i + 1], Sibling(l, i)) ELSE HashPair(Sibling(l, i), l[i + 1])
<1>1. w \in Nat /\ Len(l) = w BY LenOfFunction DEF ListOf
<1>2. DOMAIN t = 1..((w + 1) \div 2) BY NextLevelIs DEF ListOf
<1>3. PICK j \in 1..((w + 1) \div 2) : j = (i \div 2) + 1 BY <1>1
<1>4. t[j] = HashPair(l[2 * j - 1], IF 2 * j <= w THEN l[2 * j] ELSE l[2 * j - 1]) BY NextLevelIs
<1>5. CASE i % 2 = 0 BY <1>1, <1>2, <1>3, <1>4, <1>5 DEF Sibling
<1>6. CASE i % 2 # 0 BY <1>1, <1>2, <1>3, <1>4, <1>6 DEF Sibling
<1>7. QED BY <1>5, <1>6

LEMMA ProofIs ==
  ASSUME NEW cs, NEW n, TreeOf(cs, n), NEW c \in cs, NEW h \in Nat, h = Height(cs), NEW f, f = Levels(cs),
         NEW proof, proof = GenerateProof(cs, c)
  PROVE  /\ proof.index = RankOf(cs, c) /\ Len(proof.siblings) = h
         /\ \A k \in Nat : k < h => proof.siblings[k + 1] = Sibling(f[k], At(proof.index, k))
<1>1. PICK a : a = RankOf(cs, c) OBVIOUS
<1>2. proof = [index |-> a, siblings |-> [k \in 1..h |-> Sibling(f[k - 1], At(a, k - 1))]]
  BY <1>1 DEF GenerateProof, Sibling, RankOf
<1>3. proof.index = a /\ proof.siblings = [k \in 1..h |-> Sibling(f[k - 1], At(a, k - 1))] BY <1>2
<1>4. Len(proof.siblings) = h BY <1>3, LenOfFunction
<1>5. ASSUME NEW k \in Nat, k < h PROVE proof.siblings[k + 1] = Sibling(f[k], At(a, k)) BY <1>3, <1>5
<1>6. QED BY <1>1, <1>3, <1>4, <1>5

LEMMA ProofFits ==
  ASSUME NEW cs, NEW n, TreeOf(cs, n), NEW c \in cs, NEW r
  PROVE  VerifyProof(r, GenerateProof(cs, c), c) <=> r = ComputeMerkleRoot(cs)
<1>1. PICK f, proof : f = Levels(cs) /\ proof = GenerateProof(cs, c) OBVIOUS
<1>2. n \in Nat BY DEF TreeOf
<1>3. PICK h \in Nat : h = Height(cs) /\ h <= n /\ ListOf(f[h], 1) /\ ComputeMerkleRoot(cs) = f[h][1]
  BY <1>1, <1>2, HeightIs
<1>4. PICK a \in Nat : a = RankOf(cs, c) /\ a + 1 \in 1..n BY <1>2, RankBound DEF TreeOf
<1>5. proof.index = a /\ Len(proof.siblings) = h BY <1>1, <1>3, <1>4, ProofIs
<1>6. PICK H : Hashed(H, proof, c, h) /\ (VerifyProof(r, proof, c) <=> H[h] = r) BY <1>5, VerifyIs
<1>7. PICK P : P = {k \in Nat : k <= h => At(a, k) + 1 \in DOMAIN f[k] /\ H[k] = f[k][At(a, k) + 1]} OBVIOUS
<1>8. 0 \in P
  <2>1. At(a, 0) = a BY AtHalves
  <2>2. f[0] = [i \in 1..n |-> HashLeaf(Sorted(cs)[i])] BY <1>1, LevelsAre DEF BottomOf
  <2>3. Sorted(cs)[RankOf(cs, c) + 1] = c BY SortedIs DEF TreeOf
  <2>4. PICK i \in 1..n : i = a + 1 BY <1>4
  <2>5. f[0][i] = HashLeaf(c) /\ i \in DOMAIN f[0] BY <1>4, <2>2, <2>3, <2>4
  <2>6. H[0] = HashLeaf(c) BY <1>6, HashedSteps
  <2>7. QED BY <1>7, <2>1, <2>4, <2>5, <2>6
<1>9. ASSUME NEW k \in Nat, k \in P PROVE k + 1 \in P
  <2>1. SUFFICES ASSUME k + 1 <= h PROVE At(a, k + 1) + 1 \in DOMAIN f[k + 1] /\ H[k + 1] = f[k + 1][At(a, k + 1) + 1]
    BY <1>7
  <2>2. k < h /\ k <= h /\ k < n /\ k <= n BY <1>2, <1>3, <2>1
  <2>3. PICK i \in Nat : i = At(a, k) /\ At(a, k + 1) = i \div 2 BY AtHalves
  <2>4. i + 1 \in DOMAIN f[k] /\ H[k] = f[k][i + 1] BY <1>7, <1>9, <2>2, <2>3
  <2>5. f[k + 1] = NextLevel(f[k]) /\ Level(f[k], n - k) BY <1>1, <2>2, LevelsAre
  <2>6. PICK w : ListOf(f[k], w) BY <2>5 DEF Level
  <2>7. i + 1 \in 1..w BY <2>4, <2>6 DEF ListOf
  <2>8. /\ (i \div 2) + 1 \in DOMAIN f[k + 1]
        /\ f[k + 1][(i \div 2) + 1] = IF i % 2 = 0 THEN HashPair(f[k][i + 1], Sibling(f[k], i))
                                      ELSE HashPair(Sibling(f[k], i), f[k][i + 1])
    BY <2>5, <2>6, <2>7, NodeAbove
  <2>9. proof.siblings[k + 1] = Sibling(f[k], i) BY <1>1, <1>3, <1>5, <2>2, <2>3, ProofIs
  <2>10. H[k + 1] = IF i % 2 = 0 THEN HashPair(H[k], proof.siblings[k + 1]) ELSE HashPair(proof.siblings[k + 1], H[k])
    BY <1>5, <1>6, <2>2, <2>3, HashedSteps
  <2>11. QED BY <2>3, <2>4, <2>8, <2>9, <2>10
<1>10. \A k \in Nat : k \in P BY <1>8, <1>9, StepByStep
<1>11. At(a, h) + 1 \in DOMAIN f[h] /\ H[h] = f[h][At(a, h) + 1] BY <1>7, <1>10
<1>12. At(a, h) + 1 = 1 BY <1>3, <1>11 DEF ListOf
<1>13. H[h] = ComputeMerkleRoot(cs) BY <1>3, <1>11, <1>12
<1>14. QED BY <1>1, <1>6, <1>13

LEMMA ProofOfNone ==
  ASSUME NEW ds \in SUBSET Nat, IsFiniteSet(ds), NEW proof, NEW m \in Nat, m = Len(proof.siblings), NEW d,
         VerifyProof(ComputeMerkleRoot(ds), proof, d)
  PROVE  d \in ds
<1>1. PICK r : r = ComputeMerkleRoot(ds) OBVIOUS
<1>2. PICK H : Hashed(H, proof, d, m) /\ H[m] = r BY <1>1, VerifyIs
<1>3. H[0] = HashLeaf(d) BY <1>2, HashedSteps
<1>4. \A k \in Nat : k < m => \E x : H[k + 1] = HashPair(H[k], x) \/ H[k + 1] = HashPair(x, H[k])
  BY <1>2, HashedSteps
<1>5. \A k \in Nat : k # 0 /\ k <= m => \E a, b : H[k] = HashPair(a, b)
  <2>1. SUFFICES ASSUME NEW k \in Nat, k # 0, k <= m PROVE \E a, b : H[k] = HashPair(a, b) OBVIOUS
  <2>2. PICK j \in Nat : k = j + 1 /\ j < m BY <2>1
  <2>3. QED BY <1>4, <2>2
<1>6. ds # {}
  <2>1. SUFFICES ASSUME ds = {} PROVE FALSE OBVIOUS
  <2>2. H[m] = ZeroHash BY <1>1, <1>2, <2>1 DEF ComputeMerkleRoot
  <2>3. CASE m = 0 BY <1>3, <2>2, <2>3, LeafIsNoPair
  <2>4. CASE m # 0 BY <1>5, <2>2, <2>4, LeafIsNoPair
  <2>5. QED BY <2>3, <2>4
<1>7. PICK n : TreeOf(ds, n) BY <1>6, FS_CardinalityType, FS_EmptySet DEF TreeOf
<1>8. n \in Nat BY <1>7 DEF TreeOf
<1>9. PICK g : g = Levels(ds) OBVIOUS
<1>10. PICK e \in Nat : e = Height(ds) /\ e <= n /\ ListOf(g[e], 1) /\ r = g[e][1]
  BY <1>1, <1>7, <1>8, <1>9, HeightIs
<1>11. PICK P : P = {k \in Nat : k <= m /\ k <= e => \E i \in DOMAIN g[e - k] : H[m - k] = g[e - k][i]} OBVIOUS
<1>12. 0 \in P BY <1>2, <1>10, <1>11 DEF ListOf
<1>13. ASSUME NEW k \in Nat, k \in P PROVE k + 1 \in P
  <2>1. SUFFICES ASSUME k + 1 <= m, k + 1 <= e
                 PROVE  \E i \in DOMAIN g[e - (k + 1)] : H[m - (k + 1)] = g[e - (k + 1)][i]
    BY <1>11
  <2>2. PICK p \in Nat : p = m - (k + 1) /\ p + 1 = m - k /\ p < m
    <3>1. m - (k + 1) \in Nat /\ (m - (k + 1)) + 1 = m - k /\ m - (k + 1) < m BY <2>1
    <3>2. QED BY <3>1
  <2>3. PICK q \in Nat : q = e - (k + 1) /\ q + 1 = e - k /\ q < n BY <1>8, <1>10, <2>1
  <2>4. k <= m /\ k <= e BY <2>1
  <2>5. PICK i \in DOMAIN g[e - k] : H[m - k] = g[e - k][i] BY <1>11, <1>13, <2>4
  <2>6. i \in DOMAIN g[q + 1] /\ H[p + 1] = g[q + 1][i] BY <2>2, <2>3, <2>5
  <2>7. PICK a \in DOMAIN g[q], b \in DOMAIN g[q] : g[q + 1][i] = HashPair(g[q][a], g[q][b])
    BY <1>7, <1>9, <2>3, <2>6, NodeIsPair
  <2>8. PICK x : H[p + 1] = HashPair(H[p], x) \/ H[p + 1] = HashPair(x, H[p]) BY <1>4, <2>2
  <2>9. H[p] = g[q][a] \/ H[p] = g[q][b] BY <2>6, <2>7, <2>8, PairIs
  <2>10. QED BY <2>2, <2>3, <2>9
<1>14. \A k \in Nat : k \in P BY <1>12, <1>13, StepByStep
<1>15. g[0] = [i \in 1..n |-> HashLeaf(Sorted(ds)[i])] BY <1>7, <1>9, LevelsAre DEF BottomOf
<1>16. CASE m = e
  <2>1. m <= m /\ m <= e /\ e - m = 0 /\ m - m = 0 BY <1>16
  <2>2. PICK i \in DOMAIN g[e - m] : H[m - m] = g[e - m][i] BY <1>11, <1>14, <2>1
  <2>3. PICK j \in 1..n : j = i BY <1>15, <2>1, <2>2
  <2>4. HashLeaf(d) = HashLeaf(Sorted(ds)[j]) BY <1>3, <1>15, <2>1, <2>2, <2>3
  <2>5. HashLeaf(d).leaf = HashLeaf(Sorted(ds)[j]).leaf BY <2>4
  <2>6. d = Sorted(ds)[j] BY <2>5 DEF HashLeaf
  <2>7. Sorted(ds)[j] \in ds BY <1>7, SortedIs DEF TreeOf
  <2>8. QED BY <2>6, <2>7
<1>17. CASE m < e
  <2>1. m <= m /\ m <= e /\ m - m = 0 BY <1>17
  <2>2. PICK i \in DOMAIN g[e - m] : H[m - m] = g[e - m][i] BY <1>11, <1>14, <2>1
  <2>3. PICK q \in Nat : e - m = q + 1 /\ q < n
    <3>1. (e - m) - 1 \in Nat /\ e - m = ((e - m) - 1) + 1 /\ (e - m) - 1 < n BY <1>8, <1>10, <1>17
    <3>2. QED BY <3>1
  <2>4. \E a, b : g[q + 1][i] = HashPair(a, b) BY <1>7, <1>9, <2>2, <2>3, NodeIsPair
  <2>5. QED BY <1>3, <2>1, <2>2, <2>3, <2>4, LeafIsNoPair
<1>18. CASE e < m
  <2>1. e <= m /\ e <= e /\ e - e = 0 /\ m - e \in Nat /\ m - e # 0 /\ m - e <= m BY <1>18
  <2>2. PICK i \in DOMAIN g[e - e] : H[m - e] = g[e - e][i] BY <1>11, <1>14, <2>1
  <2>3. PICK j \in 1..n : j = i BY <1>15, <2>1, <2>2
  <2>4. H[m - e] = HashLeaf(Sorted(ds)[j]) BY <1>15, <2>1, <2>2, <2>3
  <2>5. \E a, b : H[m - e] = HashPair(a, b) BY <1>5, <2>1
  <2>6. QED BY <2>4, <2>5, LeafIsNoPair
<1>19. QED BY <1>16, <1>17, <1>18

-----------------------------------------------------------------------------
(* The cache: a clean root is that of the commitments.                     *)
MadeOf(e) == \E T \in SUBSET Commitments : \E c \in T : e = [proof |-> GenerateProof(T, c), of |-> c, tree |-> T]

MerkleInv ==
  /\ leaves \subseteq Commitments
  /\ ~dirty => root = ComputeMerkleRoot(leaves)
  /\ \A i \in DOMAIN held : MadeOf(held[i])

LEMMA MerkleStep == MerkleInv /\ [MerkleNext]_merkleVars => MerkleInv'
<1>1. SUFFICES ASSUME MerkleInv, [MerkleNext]_merkleVars PROVE MerkleInv' OBVIOUS
<1>2. CASE UNCHANGED merkleVars BY <1>1, <1>2 DEF merkleVars, MerkleInv, MadeOf
<1>3. ASSUME NEW c \in Commitments, AddCommitment(c) PROVE MerkleInv'
  <2>1. leaves' \subseteq Commitments /\ held' = held BY <1>1, <1>3 DEF AddCommitment, MerkleInv
  <2>2. ~dirty' => root' = ComputeMerkleRoot(leaves') BY <1>1, <1>3 DEF AddCommitment, MerkleInv
  <2>3. QED BY <1>1, <2>1, <2>2 DEF MerkleInv
<1>4. ASSUME NEW c \in Commitments, RemoveCommitment(c) PROVE MerkleInv'
  BY <1>1, <1>4 DEF RemoveCommitment, MerkleInv
<1>5. ASSUME NEW c \in Commitments, TakeProof(c) PROVE MerkleInv' BY <1>1, <1>5 DEF TakeProof, MerkleInv, MadeOf
<1>6. CASE ReadRoot BY <1>1, <1>6 DEF ReadRoot, Root, MerkleInv
<1>7. CASE Restore BY <1>1, <1>7 DEF Restore, MerkleInv
<1>8. QED BY <1>1, <1>2, <1>3, <1>4, <1>5, <1>6, <1>7 DEF MerkleNext

LEMMA MerkleAnswers == MerkleInv => TreeSound
<1>1. SUFFICES ASSUME MerkleInv PROVE TreeSound OBVIOUS
<1>2. PICK r : r = Root OBVIOUS
<1>3. r = ComputeMerkleRoot(leaves) BY <1>1, <1>2 DEF Root, MerkleInv
<1>4. \A T \in SUBSET Commitments : T \in SUBSET Nat /\ IsFiniteSet(T) BY MerkleAssumption, FS_Subset
<1>5. leaves \in SUBSET Nat /\ IsFiniteSet(leaves) BY <1>1, <1>4 DEF MerkleInv
<1>6. ASSUME NEW i \in DOMAIN held
      PROVE  /\ VerifyProof(r, held[i].proof, held[i].of) <=> leaves = held[i].tree
             /\ \A d \in Commitments : VerifyProof(r, held[i].proof, d) => d \in leaves
  <2>1. MadeOf(held[i]) BY <1>1 DEF MerkleInv
  <2>2. PICK T \in SUBSET Commitments : \E c \in T : held[i] = [proof |-> GenerateProof(T, c), of |-> c, tree |-> T]
    BY <2>1 DEF MadeOf
  <2>3. PICK c \in T : held[i] = [proof |-> GenerateProof(T, c), of |-> c, tree |-> T] BY <2>2
  <2>4. PICK p : p = GenerateProof(T, c) OBVIOUS
  <2>5. held[i].proof = p /\ held[i].of = c /\ held[i].tree = T BY <2>3, <2>4
  <2>6. T \in SUBSET Nat /\ IsFiniteSet(T) BY <1>4
  <2>7. PICK n : TreeOf(T, n) BY <2>6, FS_CardinalityType, FS_EmptySet DEF TreeOf
  <2>8. VerifyProof(r, p, c) <=> r = ComputeMerkleRoot(T) BY <2>4, <2>7, ProofFits
  <2>9. r = ComputeMerkleRoot(T) <=> leaves = T BY <1>3, <1>5, <2>6, RootTells
  <2>10. PICK m \in Nat : m = Len(p.siblings)
    <3>1. Height(T) \in 0..n BY <2>7, HeightIs
    <3>2. n \in Nat BY <2>7 DEF TreeOf
    <3>3. PICK h \in Nat : h = Height(T) BY <3>1, <3>2
    <3>4. Len(p.siblings) = h BY <2>4, <2>7, <3>3, ProofIs
    <3>5. QED BY <3>4
  <2>11. \A d : VerifyProof(r, p, d) => d \in leaves BY <1>3, <1>5, <2>10, ProofOfNone
  <2>12. QED BY <2>5, <2>8, <2>9, <2>11
<1>7. RootFresh BY <1>2, <1>3 DEF RootFresh
<1>8. ProofsVerify BY <1>2, <1>6 DEF ProofsVerify
<1>9. QED BY <1>7, <1>8 DEF TreeSound

(* For any commitments and any order of additions, removals, readings,     *)
(* proofs and restarts: the cached root is that of the commitments, and a  *)
(* proof verifies just for the tree it was made from, for no stranger.     *)
THEOREM TreeIsSound == MerkleSpec => []TreeSound
<1>1. MerkleInit => MerkleInv BY DEF MerkleInit, MerkleInv
<1>2. QED BY <1>1, MerkleStep, MerkleAnswers, PTL DEF MerkleSpec

=============================================================================
