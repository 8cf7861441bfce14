------------------------------- MODULE Escrow --------------------------------
(***************************************************************************)
(* What a transfer between two domains promises: an amount is held once,   *)
(* and what is held is paid in the target or returned in the source, never *)
(* both and never twice; the pool is what is held.                         *)
(***************************************************************************)
EXTENDS Integers

CONSTANTS Transfers, Amount(_),  \* every possible transfer and its amount
          W                      \* the pool is counted modulo W

VARIABLES held, paid, returned, pool

escrowVars == <<held, paid, returned, pool>>

EscrowInit == held = {} /\ paid = {} /\ returned = {} /\ pool = 0

Hold(t) ==
  /\ t \notin held \cup paid \cup returned
  /\ held' = held \cup {t} /\ pool' = (pool + Amount(t)) % W
  /\ UNCHANGED <<paid, returned>>

Free(t) == t \in held /\ held' = held \ {t} /\ pool' = (pool - Amount(t)) % W

Pay(t) == Free(t) /\ paid' = paid \cup {t} /\ UNCHANGED returned

Return(t) == Free(t) /\ returned' = returned \cup {t} /\ UNCHANGED paid

EscrowNext == \E t \in Transfers : Hold(t) \/ Pay(t) \/ Return(t)

EscrowSpec == EscrowInit /\ [][EscrowNext]_escrowVars
=============================================================================
