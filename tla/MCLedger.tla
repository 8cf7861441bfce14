------------------------------- MODULE MCLedger ------------------------------
(* Where value is kept and how it crosses from one domain to another: the  *)
(* dark chain keeper, the router, repayment in fragments, the ferries and   *)
(* the bindings of their receipts.  They share no variable, so every        *)
(* interleaving of two of them is one of each: a behaviour picks a part     *)
(* and runs it alone.                                                       *)
EXTENDS Notes, Merkle, Loans, CrossDomain, Fragments, ShadowReceipts, TLC

CONSTANTS s1, s2, k1, k2, loop

VARIABLE part

Seeds == <<6, 5>>
SameID == [r \in Receipts |-> 1]
OneGift == {<<"f1", "a">>}
SameAsset == [r \in Bound |-> "asset"]

darkVars == <<notesVars, merkleVars, loansVars>>
carriedVars == <<ferryVars, epochsVars>>
crossingVars == <<routerVars, fragmentsVars, carriedVars>>

Init ==
  /\ part \in {"notes", "tree", "loans", "router", "fragments", "ferry", "epochs"}
  /\ NotesInit /\ MerkleInit /\ LoansInit
  /\ RouterInit /\ FragmentsInit /\ FerryInit /\ EpochsInit
  /\ part # "fragments" =>
       total = 30 /\ fragments = SplitAmount(30, <<1, 1, 1>>)

Next ==
  /\ UNCHANGED part
  /\ \/ /\ \/ part = "notes" /\ NotesNext /\ UNCHANGED <<merkleVars, loansVars>>
           \/ part = "tree" /\ MerkleNext /\ UNCHANGED <<notesVars, loansVars>>
           \/ part = "loans" /\ LoansNext /\ UNCHANGED <<notesVars, merkleVars>>
        /\ UNCHANGED crossingVars
     \/ /\ \/ part = "router" /\ RouterNext /\ UNCHANGED <<fragmentsVars, carriedVars>>
           \/ part = "fragments" /\ FragmentsNext /\ UNCHANGED <<routerVars, carriedVars>>
           \/ /\ part = "ferry" /\ FerryNext
              /\ UNCHANGED <<routerVars, fragmentsVars, epochsVars>>
           \/ /\ part = "epochs" /\ EpochsNext
              /\ UNCHANGED <<routerVars, fragmentsVars, ferryVars>>
        /\ UNCHANGED darkVars

Spec == Init /\ [][Next]_<<part, darkVars, crossingVars>>

Sym == Permutations({s1, s2}) \cup Permutations({k1, k2})
=============================================================================
