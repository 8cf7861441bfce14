------------------------------ MODULE MCRegion ------------------------------
(* An instance of Region for TLC: two nodes, users that live in the regions *)
(* of this process or elsewhere, and what the environment may do: many      *)
(* transfers, or fewer of them with settlement, snapshots and a restart.    *)
EXTENDS Region, TLC
CONSTANTS g1, g2, alice, bob, carol

HomeInside == alice :> {g1} @@ bob :> {g1, g2}
HomeOutside == alice :> {g1} @@ bob :> {g2} @@ carol :> {}
TransfersOnly == [submit |-> 3, settle |-> 0, save |-> 0, restart |-> 0]
WithSettlement == [submit |-> 2, settle |-> 1, save |-> 0, restart |-> 0]
WithRestart == [submit |-> 2, settle |-> 0, save |-> 2, restart |-> 1]
WithSave == [submit |-> 2, settle |-> 0, save |-> 1, restart |-> 0]
AllPlans == {TransfersOnly, WithSettlement, WithRestart}
OnlySave == {WithSave}

\* Where snapshots are taken transactions start at one node and wrap nothing.
Snapshots == \/ left["save"] > 0
             \/ \E g \in Nodes : saving[g] \/ saved[g] # None
Planned ==
  Snapshots => \A c \in Clients : client'[c].amount < W \div 2 /\ client'[c].node # g2
PlannedSpec == Init /\ [][Next /\ Planned]_vars /\ Fairness
=============================================================================
