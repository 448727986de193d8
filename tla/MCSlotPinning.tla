--------------------------- MODULE MCSlotPinning ---------------------------
(***************************************************************************)
(* Five requests over two slots and three conversations, made in every     *)
(* order.  The turns are dealt to conversations in a few ways that between *)
(* them make a turn wait for its own slot, a new conversation wait for any *)
(* slot, and an eviction choose between two owners of which the older one  *)
(* has been used again.                                                    *)
(***************************************************************************)
EXTENDS SlotPinning, TLC

CONSTANTS r1, r2, r3, r4, r5, ka, kb, kc

Turns(k1, k2, k3, k4) ==
  r1 :> k1 @@ r2 :> k2 @@ r3 :> k3 @@ r4 :> k4 @@ r5 :> NoKey

Deals ==
  { Turns(ka, kb, ka, NoKey), Turns(ka, kb, kc, ka),
    Turns(ka, ka, ka, kb), Turns(ka, kb, NoKey, NoKey) }

MCInit == Init /\ key \in Deals
MCSpec == MCInit /\ [][Next]_vars /\ Fairness
============================================================================
