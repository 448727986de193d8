----------------------------- MODULE SlotLease -----------------------------
(***************************************************************************)
(* What pinning promises, without saying how (slots.py, lines 11-21): the  *)
(* engine has a fixed number of slots, a request that holds one holds it   *)
(* alone, and a request that asks for one is granted it or gives up.       *)
(***************************************************************************)
CONSTANTS Requests, Slots, NoSlot

VARIABLES
  phase,  \* "out": has not asked; "asking"; "has": holds a slot; "left"
  has     \* the slot each request holds, or NoSlot

vars == <<phase, has>>

Phases == {"out", "asking", "has", "left"}

\* The types of a lease.
TypeOK ==
  /\ phase \in [Requests -> Phases]
  /\ has \in [Requests -> Slots \cup {NoSlot}]

Init ==
  /\ phase = [r \in Requests |-> "out"]
  /\ has = [r \in Requests |-> NoSlot]

Move(r, to) == phase' = [phase EXCEPT ![r] = to]

Ask(r) ==
  /\ phase[r] = "out"
  /\ Move(r, "asking")
  /\ UNCHANGED has

\* A free slot is granted, to a request that asks now or asked before.
Grant(r, s) ==
  /\ phase[r] \in {"out", "asking"}
  /\ \A q \in Requests : has[q] # s
  /\ Move(r, "has")
  /\ has' = [has EXCEPT ![r] = s]

\* The request ends, however it ends.
Return(r) ==
  /\ phase[r] = "has"
  /\ Move(r, "left")
  /\ has' = [has EXCEPT ![r] = NoSlot]

\* The request leaves without a slot: cancelled, or served without one.
Leave(r) ==
  /\ phase[r] \in {"out", "asking"}
  /\ Move(r, "left")
  /\ UNCHANGED has

Next ==
  \E r \in Requests :
    \/ Ask(r)
    \/ \E s \in Slots : Grant(r, s)
    \/ Return(r)
    \/ Leave(r)

\* Who asks is granted a slot or leaves, and who has a slot returns it.
Fairness ==
  \A r \in Requests :
    /\ WF_vars(phase[r] = "asking" /\ (Leave(r) \/ \E s \in Slots : Grant(r, s)))
    /\ WF_vars(Return(r))

Spec == Init /\ [][Next]_vars /\ Fairness

Safety == Init /\ [][Next]_vars

Exclusive ==
  \A q, r \in Requests : q # r /\ has[q] # NoSlot => has[q] # has[r]
============================================================================
