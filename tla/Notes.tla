-------------------------------- MODULE Notes --------------------------------
(***************************************************************************)
(* Credit notes of x/darkchain/keeper/credit_utxo.go: callers of           *)
(* SpendCreditNotes over one commitment tree in memory, its copy in the    *)
(* store and the nullifiers, and restarts.  A note is the number of its    *)
(* serial, which stands for its commitment too.  The tree has a lock of    *)
(* its own and each Write of the store is a transaction of its own, so a   *)
(* caller's steps between them interleave with those of others.  A proof   *)
(* is the tree it was made from, and verifies as long as the tree is the   *)
(* same: ProofsVerify of Merkle.                                           *)
(***************************************************************************)
EXTENDS Integers, Sequences, FiniteSets, Functions, SequencesExt

CONSTANTS Spenders,  \* goroutines in SpendCreditNotes
          Secrets,   \* master secrets that callers pass
          Genesis,   \* credit of the seed users
          SplitFrom, \* credit that is split into three notes (300)
          Amounts,   \* what callers ask for
          W,         \* 2^64 in the code
          MaxInputs, MaxCalls, MaxStops  \* bounds of the model

ASSUME NotesAssumption ==
  /\ IsFiniteSet(Spenders) /\ IsFiniteSet(Secrets) /\ W \in Nat \ {0}
  /\ Amounts \subseteq 1..(W - 1) /\ Genesis \in Seq(1..(W - 1))
  /\ SplitFrom \in Nat \ 0..2 /\ MaxInputs \in Nat /\ MaxCalls \in Nat /\ MaxStops \in Nat

VARIABLES commitments,        \* of CreditMerkleTree
          stored, nullifiers, \* the store
          value,    \* of every note ever made, by serial
          known,    \* notes that somebody was given
          granted,  \* how many of the seed users have their credit
          call,     \* where each caller is
          calls, stops,
          paid,     \* history: sum of the amounts of successful calls
          uses,     \* history: by serial, successful calls that spent it
          torn      \* history: nullifiers marked whose note a crash left in the store

store == <<stored, nullifiers>>
ghosts == <<paid, uses, torn>>
notesVars == <<commitments, store, value, known, granted, call, calls, stops, ghosts>>

\* One too many when the remainder is counted from 0 to itself.
SplitEvenlyOver(total, n) ==
  [i \in 1..n |-> (total \div n) + (IF i <= (total % n) + 1 THEN 1 ELSE 0)]

SplitEvenly(total, n) ==
  [i \in 1..n |-> (total \div n) + (IF i <= total % n THEN 1 ELSE 0)]

GenesisNotes(amount) ==
  SplitEvenly(amount, IF amount < SplitFrom THEN 1 ELSE 3)

Idle == [pc |-> "idle", notes |-> <<>>, secret |-> 0,
         amount |-> 0, change |-> 0, i |-> 1, proof |-> {}, met |-> FALSE]

NotesInit ==
  /\ value = <<>> /\ uses = <<>> /\ torn = <<>>
  /\ commitments = {} /\ known = {} /\ stored = {} /\ nullifiers = {}
  /\ call = [s \in Spenders |-> Idle] /\ granted = 0 /\ calls = 0 /\ stops = 0 /\ paid = 0

\* The number of a new note.
Fresh == Len(value) + 1
Current(s) == call[s].notes[call[s].i]
\* The PRF of the secret without the serial.
NullifierOfSecret(s) == <<call[s].secret, 1>>
Nullifier(s) == <<call[s].secret, Current(s)>>

-----------------------------------------------------------------------------
Step(s, rec) == call' = [call EXCEPT ![s] = rec]
Busy == {s \in Spenders : call[s].pc # "idle"}

\* Calls that overlap have met; so has one that names a note spent before it.
Begin(s, rec) ==
  call' = [t \in Spenders |->
             IF t # s THEN [call[t] EXCEPT !.met = t \in Busy]
             ELSE [rec EXCEPT !.met = Busy # {} \/ ~ToSet(rec.notes) \subseteq commitments]]

-----------------------------------------------------------------------------
(* The next seed user gets notes, before anybody spends one.               *)
InitializeGenesisCredits ==
  /\ granted < Len(Genesis) /\ calls = 0
  /\ granted' = granted + 1
  /\ value' = value \o GenesisNotes(Genesis[granted + 1])
  /\ commitments' = commitments \cup (DOMAIN value' \ DOMAIN value)
  /\ known' = known \cup (DOMAIN value' \ DOMAIN value)
  /\ stored' = stored \cup (DOMAIN value' \ DOMAIN value)
  /\ uses' = [n \in DOMAIN value' |-> 0] /\ torn' = [n \in DOMAIN value' |-> 0]
  /\ UNCHANGED <<nullifiers, call, calls, stops, paid>>

TotalInput(notes) == SumFunction([j \in DOMAIN notes |-> value[notes[j]]]) % W

(* A call: what is missing or zero is refused at once, without a trace.    *)
(* The change note enters the tree before any input is spent.              *)
SpendCreditNotes(s, notes, secret, amount) ==
  /\ call[s].pc = "idle" /\ calls < MaxCalls
  /\ amount <= TotalInput(notes)
  /\ calls' = calls + 1
  /\ LET change == TotalInput(notes) - amount
         begun == [Idle EXCEPT !.notes = notes, !.secret = secret, !.amount = amount]
     IN  IF change > 0
         THEN /\ Begin(s, [begun EXCEPT !.pc = "store change", !.change = Fresh])
              /\ value' = Append(value, change)
              /\ uses' = Append(uses, 0) /\ torn' = Append(torn, 0)
              /\ commitments' = commitments \cup {Fresh}
         ELSE /\ Begin(s, [begun EXCEPT !.pc = "proof"])
              /\ UNCHANGED <<value, uses, torn, commitments>>
  /\ UNCHANGED <<store, known, granted, stops, paid>>

(* AddCreditCommitment's second half.                                      *)
AddCreditCommitment(s) ==
  /\ call[s].pc = "store change"
  /\ stored' = stored \cup {call[s].change}
  /\ Step(s, [call[s] EXCEPT !.pc = "proof"])
  /\ UNCHANGED <<commitments, nullifiers, value, known, granted, calls, stops, ghosts>>

\* An error in the loop: the change note is rolled back, if there is one.
Fail(s) ==
  [call[s] EXCEPT !.proof = {},
                  !.pc = IF call[s].change # 0 THEN "undo" ELSE "refused"]

GenerateCreditProof(s) ==
  /\ call[s].pc = "proof"
  /\ Step(s, IF Current(s) \in commitments
             THEN [call[s] EXCEPT !.pc = "root",
                                  !.proof = commitments]
             ELSE Fail(s))
  /\ UNCHANGED <<commitments, store, value, known, granted, calls, stops, ghosts>>

(* CreditTreeRoot takes the tree's lock again.                             *)
CheckRoot(s) ==
  /\ call[s].pc = "root"
  /\ Step(s, IF call[s].proof = commitments
             THEN [call[s] EXCEPT !.pc = "mark", !.proof = {}] ELSE Fail(s))
  /\ UNCHANGED <<commitments, store, value, known, granted, calls, stops, ghosts>>

(* MarkNullifier tests and writes in one transaction; a nullifier seen by  *)
(* IsNullifierSpent just before fails in the same way.                     *)
MarkNullifier(s) ==
  /\ call[s].pc = "mark"
  /\ nullifiers' = nullifiers \cup {Nullifier(s)}
  /\ Step(s, IF Nullifier(s) \in nullifiers THEN Fail(s)
             ELSE [call[s] EXCEPT !.pc = "remove"])
  /\ UNCHANGED <<commitments, stored, value, known, granted, calls, stops, ghosts>>

\* SpendCreditCommitment that does not look whether the commitment is there.
SpendCreditCommitmentBlind(s) ==
  /\ call[s].pc = "remove"
  /\ commitments' = commitments \ {Current(s)}
  /\ Step(s, [call[s] EXCEPT !.pc = "delete"])
  /\ UNCHANGED <<store, value, known, granted, calls, stops, ghosts>>

(* SpendCreditCommitment: out of the tree, then out of the store.          *)
SpendCreditCommitment(s) ==
  /\ call[s].pc = "remove"
  /\ IF Current(s) \in commitments
     THEN /\ commitments' = commitments \ {Current(s)}
          /\ Step(s, [call[s] EXCEPT !.pc = "delete"])
     ELSE Step(s, Fail(s)) /\ UNCHANGED commitments
  /\ UNCHANGED <<store, value, known, granted, calls, stops, ghosts>>

Times(n, notes) == Cardinality({j \in DOMAIN notes : notes[j] = n})

\* A loop that runs once more than there are notes.
DeleteOneMore(s) ==
  /\ call[s].pc = "delete"
  /\ stored' = stored \ {Current(s)}
  /\ Step(s, [call[s] EXCEPT !.pc = "proof", !.i = @ + 1])
  /\ UNCHANGED <<commitments, nullifiers, value, known, granted, calls, stops, ghosts>>

(* The last note ends the call: the result names the change note.          *)
DeleteCreditCommitment(s) ==
  /\ call[s].pc = "delete"
  /\ stored' = stored \ {Current(s)}
  /\ IF call[s].i < Len(call[s].notes)
     THEN /\ Step(s, [call[s] EXCEPT !.pc = "proof", !.i = @ + 1])
          /\ UNCHANGED <<known, ghosts>>
     ELSE /\ Step(s, [call[s] EXCEPT !.pc = "spent"])
          /\ known' = known \cup (IF call[s].change = 0 THEN {} ELSE {call[s].change})
          /\ paid' = paid + call[s].amount
          /\ uses' = [n \in DOMAIN uses |-> uses[n] + Times(n, call[s].notes)]
          /\ UNCHANGED torn
  /\ UNCHANGED <<commitments, nullifiers, value, granted, calls, stops>>

\* rollbackChangeNotes that leaves the store alone.
RollbackTreeOnly(s) ==
  /\ call[s].pc = "undo"
  /\ commitments' = commitments \ {call[s].change}
  /\ Step(s, [call[s] EXCEPT !.pc = "refused"])
  /\ UNCHANGED <<store, value, known, granted, calls, stops, ghosts>>

RollbackTree(s) ==
  /\ call[s].pc = "undo"
  /\ commitments' = commitments \ {call[s].change}
  /\ Step(s, [call[s] EXCEPT !.pc = "undo store"])
  /\ UNCHANGED <<store, value, known, granted, calls, stops, ghosts>>

RollbackStore(s) ==
  /\ call[s].pc = "undo store"
  /\ stored' = stored \ {call[s].change}
  /\ Step(s, [call[s] EXCEPT !.pc = "refused"])
  /\ UNCHANGED <<commitments, nullifiers, value, known, granted, calls, stops, ghosts>>

\* RequestLoan takes the result, or reports the error.
Return(s) ==
  /\ call[s].pc \in {"spent", "refused"}
  /\ Step(s, Idle)
  /\ UNCHANGED <<commitments, store, value, known, granted, calls, stops, ghosts>>

Deleting(n) == {s \in Spenders : call[s].pc = "delete" /\ Current(s) = n}
Marked(n) == {s \in Spenders : call[s].pc \in {"remove", "delete"} /\ Current(s) = n}

(* The process stops between any two steps; NewKeeper restores the tree    *)
(* from the store.                                                         *)
Restart ==
  /\ stops < MaxStops
  /\ stops' = stops + 1
  /\ commitments' = stored
  /\ torn' = [n \in DOMAIN torn |-> torn[n] + Cardinality(Marked(n))]
  /\ call' = [s \in Spenders |-> Idle]
  /\ UNCHANGED <<store, value, known, granted, calls, paid, uses>>

Inputs == UNION {[1..k -> known] : k \in 1..MaxInputs}

NotesNext ==
  \/ \E s \in Spenders :
       \/ \E notes \in Inputs, secret \in Secrets, amount \in Amounts :
            SpendCreditNotes(s, notes, secret, amount)
       \/ AddCreditCommitment(s) \/ GenerateCreditProof(s) \/ CheckRoot(s)
       \/ MarkNullifier(s) \/ SpendCreditCommitment(s) \/ DeleteCreditCommitment(s)
       \/ RollbackTree(s) \/ RollbackStore(s) \/ Return(s)
  \/ InitializeGenesisCredits \/ Restart

NotesSpec == NotesInit /\ [][NotesNext]_notesVars

-----------------------------------------------------------------------------
NotesTypeOK ==
  /\ value \in Seq(1..(W - 1))
  /\ commitments \subseteq DOMAIN value /\ stored \subseteq DOMAIN value
  /\ known \subseteq DOMAIN value /\ nullifiers \subseteq Secrets \X DOMAIN value
  /\ \A s \in Spenders :
       /\ call[s].pc \in {"idle", "store change", "proof", "root", "mark", "remove",
                          "delete", "undo", "undo store", "spent", "refused"}
       /\ call[s].pc # "idle" => call[s].i \in DOMAIN call[s].notes

(* The tree in memory and its copy in the store differ only by what a      *)
(* caller is about to write: a restart loses no note and revives no spent  *)
(* one but for those.                                                      *)
TreeStored ==
  /\ commitments \ stored \subseteq
       {call[s].change : s \in {t \in Spenders : call[t].pc = "store change"}}
  /\ stored \ commitments \subseteq
       {call[s].change : s \in {t \in Spenders : call[t].pc = "undo store"}}
         \cup {n \in DOMAIN value : Deleting(n) # {}}

(* Every note pays for one successful call, once, whatever secrets the     *)
(* callers pass, however they overlap and over restarts.                   *)
SpentOnce == \A n \in DOMAIN uses : uses[n] <= 1

(* "Total notes = loans + change" (credit_utxo.go): what holders can still *)
(* spend and what was paid never exceed the genesis credit.                *)
NoInflation ==
  paid + SumFunctionOnSet(value, known \cap commitments)
    <= SumFunctionOnSet(Genesis, 1..granted)

(* A call that fails after it spent some of its notes (they are lost)      *)
(* overlapped with another one, or names a note twice or one spent before, *)
(* or a crash had left a nullifier without its removal.                    *)
LossExplained ==
  \A s \in Spenders :
    call[s].pc \in {"undo", "undo store", "refused"} /\ call[s].i > 1 =>
      \/ call[s].met
      \/ \E n \in known : Times(n, call[s].notes) > 1
      \/ torn[Current(s)] > 0

(* Notes are spent once and none is made or lost but for a reason, through *)
(* overlapping calls that take up to eight steps each, and crashes.        *)
NotesSound == NotesTypeOK /\ TreeStored /\ SpentOnce /\ NoInflation /\ LossExplained
=============================================================================
