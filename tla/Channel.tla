------------------------------ MODULE Channel ------------------------------
(* What a session between two parties promises its users: each message is  *)
(* read at most once by the other party, and nothing is read that was not  *)
(* sent.  Messages of a party are numbered from 1; any order and any loss  *)
(* is allowed.  Ratchet implements it.                                     *)
EXTENDS Naturals, Sequences

CONSTANTS Parties, Other(_)

VARIABLES sent,  \* sent[p]: how many messages p has sent
          read   \* read[p]: the numbers of the messages p has read, in order

Init == sent = [p \in Parties |-> 0] /\ read = [p \in Parties |-> <<>>]

Send(p) ==
  /\ sent' = [sent EXCEPT ![p] = @ + 1]
  /\ UNCHANGED read

Read(p) ==
  \E n \in 1..sent[Other(p)] :
    /\ \A i \in DOMAIN read[p] : read[p][i] # n
    /\ read' = [read EXCEPT ![p] = Append(@, n)]
    /\ UNCHANGED sent

Next == \E p \in Parties : Send(p) \/ Read(p)
Spec == Init /\ [][Next]_<<sent, read>>
=============================================================================
