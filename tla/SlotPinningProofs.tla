------------------------- MODULE SlotPinningProofs -------------------------
(***************************************************************************)
(* Theorems about SlotPinning for every number of requests, conversations  *)
(* and slots.  The inductive invariant is IInv: two requests could share a *)
(* slot only if _busy or _owners disagreed with the requests in flight, so *)
(* mutual exclusion needs MapAgrees, and a waiter's claim on its slot is   *)
(* disturbed by the claims of others only in ways MapAgrees rules out.     *)
(***************************************************************************)
EXTENDS SlotPinning, TLAPS

IInv ==
  /\ TypeOK
  /\ HoldersExclusive
  /\ MapAgrees
  /\ WaitersBlocked

\* What stays true of a step that leaves the map alone: nobody comes to hold
\* a slot, to change it, or to wait.
OutsideMap ==
  /\ UNCHANGED <<key, map>>
  /\ \A q \in Requests :
       /\ Holding(q)' <=> Holding(q)
       /\ Holding(q) => at'[q] = at[q]
       /\ pc'[q] = "waiting" => pc[q] = "waiting"

-----------------------------------------------------------------------------
\* _choose never returns a busy slot (slots.py, lines 48-73).
LEMMA ChoiceIsIdle ==
  ASSUME TypeOK, NEW k \in Keys \cup {NoKey}, NEW s \in Choice(k)
  PROVE  s \in Slots \ busy
<1>1. CASE Owns(k)
  BY <1>1 DEF TypeOK, Choice, Owns
<1>2. CASE ~Owns(k)
  BY <1>2 DEF Choice, Unowned, LeastRecent, Idle
<1> QED BY <1>1, <1>2

\* A slot _choose returns to a request belongs to its conversation or to an
\* idle one, never to a conversation whose slot is busy.
LEMMA OwnerAfterClaim ==
  ASSUME TypeOK, MapAgrees, NEW k \in Keys \cup {NoKey}, NEW s \in Choice(k)
  PROVE  /\ OwnerAfter(k, s) \in [Keys -> Slots \cup {NoSlot}]
         /\ k \in Keys => OwnerAfter(k, s)[k] = s
         /\ k = NoKey => \A j \in Keys : OwnerAfter(k, s)[j] # s
         /\ \A j \in Keys : owner[j] \in busy => OwnerAfter(k, s)[j] = owner[j]
         /\ \A j \in Keys : j # k => OwnerAfter(k, s)[j] \in {owner[j], NoSlot} \ {s}
<1>1. s \in Slots \ busy
  BY ChoiceIsIdle
<1>2. k = NoKey => k \notin Keys
  BY PinningAssumptions
<1>3. NoSlot \notin Slots
  BY PinningAssumptions DEF Slots
<1>4. Owns(k) => owner[k] = s
  BY DEF Choice
<1>5. k \in Keys /\ owner[k] \in busy => FALSE
  <2>1. SUFFICES ASSUME k \in Keys, owner[k] \in busy PROVE FALSE
    OBVIOUS
  <2>2. Owns(k)
    BY <2>1, <1>3 DEF Owns, TypeOK
  <2> QED BY <2>1, <2>2, <1>1, <1>4
<1> QED BY <1>1, <1>2, <1>3, <1>5 DEF OwnerAfter, TypeOK

-----------------------------------------------------------------------------
LEMMA OutsideMapKeeps ==
  ASSUME IInv, OutsideMap, TypeOK'
  PROVE  IInv'
<1> USE DEF IInv, OutsideMap, map
<1>1. HoldersExclusive'
  BY DEF HoldersExclusive
<1>2. MapAgrees'
  <2>1. {at'[r] : r \in {q \in Requests : Holding(q)'}} = {at[r] : r \in {q \in Requests : Holding(q)}}
    OBVIOUS
  <2>2. (busy = {at[r] : r \in {q \in Requests : Holding(q)}})'
    BY <2>1 DEF MapAgrees
  <2>3. (\A j, k \in Keys : Owns(j) /\ owner[j] = owner[k] => j = k)'
    BY DEF MapAgrees, Owns
  <2>4. ASSUME NEW r \in Requests, Holding(r)'
        PROVE  (/\ key[r] \in Keys => owner[key[r]] = at[r]
                /\ key[r] = NoKey => \A k \in Keys : owner[k] # at[r])'
    BY <2>4 DEF MapAgrees
  <2> QED BY <2>2, <2>3, <2>4 DEF MapAgrees
<1>3. WaitersBlocked'
  BY DEF WaitersBlocked, MustWait, Owns, Idle
<1> QED BY <1>1, <1>2, <1>3

LEMMA WaitKeeps ==
  ASSUME IInv, NEW r \in Requests, pc[r] \in {"new", "props", "woken"},
         Wait(r), UNCHANGED key, TypeOK'
  PROVE  IInv'
<1> USE DEF IInv, Wait
<1>1. \A q \in Requests : Holding(q)' <=> Holding(q)
  BY DEF Holding, TypeOK
<1>2. HoldersExclusive'
  BY <1>1 DEF HoldersExclusive
<1>3. MapAgrees'
  BY <1>1 DEF MapAgrees, Owns
<1>4. WaitersBlocked'
  BY DEF WaitersBlocked, MustWait, Owns, Idle, TypeOK
<1> QED BY <1>2, <1>3, <1>4

LEMMA ClaimKeeps ==
  ASSUME IInv, NEW r \in Requests, pc[r] \in {"new", "props", "woken"},
         NEW s \in Choice(key[r]), Claim(r, s), UNCHANGED key, TypeOK'
  PROVE  IInv'
<1> USE DEF IInv
<1>1. key[r] \in Keys \cup {NoKey}
  BY DEF TypeOK
<1>2. s \in Slots \ busy
  BY <1>1, ChoiceIsIdle
<1>3. /\ key[r] \in Keys => owner'[key[r]] = s
      /\ key[r] = NoKey => \A j \in Keys : owner'[j] # s
      /\ \A j \in Keys : owner[j] \in busy => owner'[j] = owner[j]
      /\ \A j \in Keys : j # key[r] => owner'[j] \in {owner[j], NoSlot} \ {s}
  BY <1>1, OwnerAfterClaim DEF Claim
<1>4. ~Holding(r) /\ Holding(r)' /\ at'[r] = s
  BY DEF Claim, Holding, TypeOK
<1>5. \A q \in Requests \ {r} : (Holding(q)' <=> Holding(q)) /\ at'[q] = at[q]
  BY DEF Claim, Holding, TypeOK
<1>6. \A q \in Requests : Holding(q) => at[q] \in busy
  BY DEF MapAgrees
<1>7. HoldersExclusive'
  BY <1>2, <1>4, <1>5, <1>6 DEF HoldersExclusive
<1>8. NoSlot \notin Slots /\ NoKey \notin Keys
  BY PinningAssumptions DEF Slots
<1>9. MapAgrees'
  <2>1. (busy = {at[q] : q \in {p \in Requests : Holding(p)}})'
    <3>1. busy' = busy \cup {s}
      BY DEF Claim
    <3>2. busy = {at[q] : q \in {p \in Requests : Holding(p)}}
      BY DEF MapAgrees
    <3> QED BY <3>1, <3>2, <1>4, <1>5
  <2>2. (\A j, k \in Keys : Owns(j) /\ owner[j] = owner[k] => j = k)'
    <3>1. SUFFICES ASSUME NEW j \in Keys, NEW k \in Keys, owner'[j] # NoSlot,
                          owner'[j] = owner'[k]
                   PROVE  j = k
      BY DEF Owns
    <3>2. CASE j # key[r] /\ k # key[r]
      BY <3>1, <3>2, <1>3 DEF MapAgrees, Owns
    <3>3. CASE j = key[r] \/ k = key[r]
      BY <3>1, <3>3, <1>3
    <3> QED BY <3>2, <3>3
  <2>3. ASSUME NEW q \in Requests, Holding(q)'
        PROVE  (/\ key[q] \in Keys => owner[key[q]] = at[q]
                /\ key[q] = NoKey => \A k \in Keys : owner[k] # at[q])'
    <3>1. CASE q = r
      BY <3>1, <1>3, <1>4
    <3>2. CASE q # r
      <4>1. Holding(q) /\ at'[q] = at[q] /\ at[q] \in busy /\ at[q] # s
        BY <2>3, <3>2, <1>2, <1>5, <1>6
      <4>2. key[q] \in Keys => owner'[key[q]] = at[q]
        BY <4>1, <1>3 DEF MapAgrees
      <4>3. key[q] = NoKey => \A k \in Keys : owner'[k] # at[q]
        <5>1. SUFFICES ASSUME key[q] = NoKey, NEW k \in Keys PROVE owner'[k] # at[q]
          OBVIOUS
        <5>2. owner[k] # at[q] /\ at[q] \in Slots
          BY <5>1, <4>1 DEF MapAgrees, TypeOK
        <5>3. k = key[r] => owner'[k] = s
          BY <1>3
        <5>4. k # key[r] => owner'[k] \in {owner[k], NoSlot}
          BY <1>3
        <5> QED BY <5>2, <5>3, <5>4, <4>1, <1>8
      <4> QED BY <4>1, <4>2, <4>3
    <3> QED BY <3>1, <3>2
  <2> QED BY <2>1, <2>2, <2>3 DEF MapAgrees
<1>10. WaitersBlocked'
  <2>1. SUFFICES ASSUME NEW q \in Requests, pc'[q] = "waiting"
                 PROVE  freed' /\ MustWait(key[q])'
    BY DEF WaitersBlocked
  <2>2. pc[q] = "waiting"
    BY <2>1 DEF Claim, TypeOK
  <2>3. freed /\ MustWait(key[q])
    BY <2>2 DEF WaitersBlocked
  <2>4. Owns(key[q])
    \* were every slot busy, nothing could have been claimed
    BY <2>3, <1>2 DEF MustWait, Idle
  <2>5. owner[key[q]] \in busy /\ key[q] \in Keys
    BY <2>3, <2>4 DEF MustWait, Owns
  <2>6. owner'[key[q]] = owner[key[q]] /\ busy \subseteq busy'
    BY <2>5, <1>3 DEF Claim
  <2> QED BY <2>3, <2>4, <2>5, <2>6 DEF MustWait, Owns, Claim
<1> QED BY <1>7, <1>9, <1>10

LEMMA AttemptKeeps ==
  ASSUME IInv, NEW r \in Requests, pc[r] \in {"new", "props", "woken"},
         Attempt(r), UNCHANGED key, TypeOK'
  PROVE  IInv'
BY WaitKeeps, ClaimKeeps DEF Attempt

LEMMA ReleaseKeeps ==
  ASSUME IInv, NEW r \in Requests, Holding(r), Release(r), UNCHANGED key, TypeOK'
  PROVE  IInv'
<1> USE DEF IInv
<1>1. ~Holding(r)' /\ \A q \in Requests \ {r} : (Holding(q)' <=> Holding(q)) /\ at'[q] = at[q]
  BY DEF Release, Holding, TypeOK
<1>2. UNCHANGED owner
  BY DEF Release
<1>3. HoldersExclusive'
  BY <1>1 DEF HoldersExclusive
<1>4. MapAgrees'
  <2>1. (busy = {at[q] : q \in {p \in Requests : Holding(p)}})'
    <3>1. busy' = busy \ {at[r]}
      BY DEF Release
    <3>2. busy = {at[q] : q \in {p \in Requests : Holding(p)}}
      BY DEF MapAgrees
    <3>3. \A q \in Requests : q # r /\ Holding(q) => at[q] # at[r]
      BY DEF HoldersExclusive
    <3> QED BY <3>1, <3>2, <3>3, <1>1
  <2>2. (\A j, k \in Keys : Owns(j) /\ owner[j] = owner[k] => j = k)'
    BY <1>2 DEF MapAgrees, Owns
  <2>3. ASSUME NEW q \in Requests, Holding(q)'
        PROVE  (/\ key[q] \in Keys => owner[key[q]] = at[q]
                /\ key[q] = NoKey => \A k \in Keys : owner[k] # at[q])'
    BY <2>3, <1>1, <1>2 DEF MapAgrees
  <2> QED BY <2>1, <2>2, <2>3 DEF MapAgrees
<1>5. WaitersBlocked'
  <2>1. \A q \in Requests : pc'[q] # "waiting"
    BY DEF Release, TypeOK
  <2> QED BY <2>1 DEF WaitersBlocked
<1> QED BY <1>3, <1>4, <1>5

-----------------------------------------------------------------------------
LEMMA AttemptTypes ==
  ASSUME TypeOK, NEW r \in Requests, Attempt(r)
  PROVE  /\ pc' \in [Requests -> PCs]
         /\ at' \in [Requests -> Slots \cup {NoSlot}]
         /\ owner' \in [Keys -> Slots \cup {NoSlot}]
         /\ older' \in SUBSET (Keys \X Keys)
         /\ busy' \in SUBSET Slots
         /\ freed' \in BOOLEAN
<1>1. CASE Wait(r)
  BY <1>1 DEF Wait, TypeOK, PCs
<1>2. CASE \E s \in Choice(key[r]) : Claim(r, s)
  <2>1. PICK s \in Choice(key[r]) : Claim(r, s)
    BY <1>2
  <2>2. key[r] \in Keys \cup {NoKey}
    BY DEF TypeOK
  <2>3. s \in Slots
    BY <2>2, ChoiceIsIdle
  <2>4. owner' \in [Keys -> Slots \cup {NoSlot}]
    BY <2>1, <2>3 DEF Claim, OwnerAfter, TypeOK
  <2>5. older' \in SUBSET (Keys \X Keys)
    BY <2>1, <2>2 DEF Claim, OlderAfter, TypeOK
  <2> QED BY <2>1, <2>3, <2>4, <2>5 DEF Claim, TypeOK, PCs
<1> QED BY <1>1, <1>2 DEF Attempt

\* A step keeps every variable in its type.
LEMMA StepTypes ==
  ASSUME TypeOK, Next
  PROVE  TypeOK'
<1>1. ASSUME NEW r \in Requests, Attempt(r), UNCHANGED key, pinsRead' = pinsRead,
             mapped' \in BOOLEAN
      PROVE  TypeOK'
  BY <1>1, AttemptTypes DEF TypeOK
<1>2. ASSUME NEW r \in Requests, EnterAudio(r) PROVE TypeOK'
  BY <1>2 DEF EnterAudio, GoUnpinned, map, TypeOK, PCs
<1>3. ASSUME NEW r \in Requests, EnterReadProps(r) PROVE TypeOK'
  BY <1>3 DEF EnterReadProps, map, TypeOK, PCs
<1>4. ASSUME NEW r \in Requests, EnterWithoutMap(r) PROVE TypeOK'
  BY <1>4 DEF EnterWithoutMap, GoUnpinned, map, TypeOK, PCs
<1>5. ASSUME NEW r \in Requests, EnterWithMap(r) PROVE TypeOK'
  BY <1>1, <1>5 DEF EnterWithMap, TypeOK
<1>6. ASSUME NEW r \in Requests, PropsAnswered(r) PROVE TypeOK'
  BY <1>1, <1>6 DEF PropsAnswered
<1>7. ASSUME NEW r \in Requests, PropsFailed(r) PROVE TypeOK'
  BY <1>7 DEF PropsFailed, GoUnpinned, map, TypeOK, PCs
<1>8. ASSUME NEW r \in Requests, Retry(r) PROVE TypeOK'
  BY <1>1, <1>8 DEF Retry, TypeOK
<1>9. ASSUME NEW r \in Requests, FinishHeld(r) PROVE TypeOK'
  BY <1>9 DEF FinishHeld, Release, TypeOK, PCs
<1>10. ASSUME NEW r \in Requests, EnginePlaces(r) PROVE TypeOK'
  BY <1>10 DEF EnginePlaces, map, TypeOK, PCs
<1>11. ASSUME NEW r \in Requests, FinishUnpinned(r) PROVE TypeOK'
  BY <1>11 DEF FinishUnpinned, map, TypeOK, PCs
<1>12. ASSUME NEW r \in Requests, Cancel(r) PROVE TypeOK'
  BY <1>12 DEF Cancel, map, TypeOK, PCs
<1>13. ASSUME AllDone PROVE TypeOK'
  BY <1>13 DEF AllDone, vars, map, TypeOK
<1> QED
  BY <1>2, <1>3, <1>4, <1>5, <1>6, <1>7, <1>8, <1>9, <1>10, <1>11, <1>12, <1>13
  DEF Next

LEMMA InitHolds == Init => IInv
<1> SUFFICES ASSUME Init PROVE IInv
  OBVIOUS
<1>1. TypeOK
  BY DEF Init, TypeOK, PCs
<1>2. \A r \in Requests : ~Holding(r) /\ pc[r] # "waiting"
  BY DEF Init, Holding
<1>3. HoldersExclusive /\ WaitersBlocked
  BY <1>2 DEF HoldersExclusive, WaitersBlocked
<1>4. MapAgrees
  BY <1>2 DEF MapAgrees, Init, Owns
<1> QED BY <1>1, <1>3, <1>4 DEF IInv

\* IInv is preserved by every step.
LEMMA StepKeeps ==
  ASSUME IInv, [Next]_vars
  PROVE  IInv'
<1>1. CASE UNCHANGED vars
  BY <1>1 DEF vars, map, IInv, TypeOK, HoldersExclusive, MapAgrees, WaitersBlocked,
              MustWait, Owns, Idle, Holding
<1>2. CASE Next
  <2> USE <1>2
  <2>1. TypeOK'
    BY StepTypes DEF IInv
  <2>2. ASSUME NEW r \in Requests, EnterAudio(r) PROVE IInv'
    <3>1. OutsideMap
      BY <2>2 DEF OutsideMap, EnterAudio, GoUnpinned, Holding, map, IInv, TypeOK
    <3> QED BY <3>1, <2>1, OutsideMapKeeps
  <2>3. ASSUME NEW r \in Requests, EnterReadProps(r) PROVE IInv'
    <3>1. OutsideMap
      BY <2>3 DEF OutsideMap, EnterReadProps, Holding, map, IInv, TypeOK
    <3> QED BY <3>1, <2>1, OutsideMapKeeps
  <2>4. ASSUME NEW r \in Requests, EnterWithoutMap(r) PROVE IInv'
    <3>1. OutsideMap
      BY <2>4 DEF OutsideMap, EnterWithoutMap, GoUnpinned, Holding, map, IInv, TypeOK
    <3> QED BY <3>1, <2>1, OutsideMapKeeps
  <2>5. ASSUME NEW r \in Requests, EnterWithMap(r) PROVE IInv'
    BY <2>5, <2>1, AttemptKeeps DEF EnterWithMap
  <2>6. ASSUME NEW r \in Requests, PropsAnswered(r) PROVE IInv'
    BY <2>6, <2>1, AttemptKeeps DEF PropsAnswered
  <2>7. ASSUME NEW r \in Requests, PropsFailed(r) PROVE IInv'
    <3>1. OutsideMap
      BY <2>7 DEF OutsideMap, PropsFailed, GoUnpinned, Holding, map, IInv, TypeOK
    <3> QED BY <3>1, <2>1, OutsideMapKeeps
  <2>8. ASSUME NEW r \in Requests, Retry(r) PROVE IInv'
    BY <2>8, <2>1, AttemptKeeps DEF Retry
  <2>9. ASSUME NEW r \in Requests, FinishHeld(r) PROVE IInv'
    BY <2>9, <2>1, ReleaseKeeps DEF FinishHeld, Holding
  <2>10. ASSUME NEW r \in Requests, EnginePlaces(r) PROVE IInv'
    <3>1. OutsideMap
      BY <2>10 DEF OutsideMap, EnginePlaces, Holding, map, IInv, TypeOK
    <3> QED BY <3>1, <2>1, OutsideMapKeeps
  <2>11. ASSUME NEW r \in Requests, FinishUnpinned(r) PROVE IInv'
    <3>1. OutsideMap
      BY <2>11 DEF OutsideMap, FinishUnpinned, Holding, map, IInv, TypeOK
    <3> QED BY <3>1, <2>1, OutsideMapKeeps
  <2>12. ASSUME NEW r \in Requests, Cancel(r) PROVE IInv'
    <3>1. OutsideMap
      BY <2>12 DEF OutsideMap, Cancel, Holding, map, IInv, TypeOK
    <3> QED BY <3>1, <2>1, OutsideMapKeeps
  <2>13. ASSUME AllDone PROVE IInv'
    <3>1. OutsideMap
      BY <2>13 DEF OutsideMap, AllDone, Holding, vars, map
    <3> QED BY <3>1, <2>1, OutsideMapKeeps
  <2> QED
    BY <2>2, <2>3, <2>4, <2>5, <2>6, <2>7, <2>8, <2>9, <2>10, <2>11, <2>12, <2>13
    DEF Next
<1> QED BY <1>1, <1>2

-----------------------------------------------------------------------------
\* The variables keep their types (slots.py, SlotPins, and _slot_map).
THEOREM TypeCorrect == Safety => []TypeOK
<1>1. Init => TypeOK
  BY DEF Init, TypeOK, PCs
<1>2. TypeOK /\ [Next]_vars => TypeOK'
  BY StepTypes DEF TypeOK, vars, map
<1> QED BY <1>1, <1>2, PTL DEF Safety

\* The inductive invariant holds of every reachable state.
THEOREM Invariance == Safety => []IInv
BY InitHolds, StepKeeps, PTL DEF Safety

\* No two requests that go through the map are in one slot (slots.py, line 11).
THEOREM MutualExclusion == Safety => []HoldersExclusive
<1>1. IInv => HoldersExclusive
  BY DEF IInv
<1> QED BY <1>1, Invariance, PTL

\* The map's books agree with the requests in flight (slots.py, SlotPins).
THEOREM Agreement == Safety => []MapAgrees
<1>1. IInv => MapAgrees
  BY DEF IInv
<1> QED BY <1>1, Invariance, PTL

\* Two turns of one conversation are never in flight together (slots.py, line 1).
THEOREM Serial == Safety => []ConversationSerial
<1>1. IInv => ConversationSerial
  BY DEF IInv, HoldersExclusive, MapAgrees, ConversationSerial
<1> QED BY <1>1, Invariance, PTL

\* A sleeper's Event is the current one, and its slot is busy (slots.py, hold).
THEOREM NoLostWakeup == Safety => []WaitersBlocked
<1>1. IInv => WaitersBlocked
  BY DEF IInv
<1> QED BY <1>1, Invariance, PTL

-----------------------------------------------------------------------------
(***************************************************************************)
(* SlotPinning implements SlotLease.                                       *)
(***************************************************************************)
\* A step that changes the phase and the slot of one request at most.
LEMMA OneMoves ==
  ASSUME NEW r \in Requests,
         \A q \in Requests \ {r} : PhaseOf(q)' = PhaseOf(q) /\ (Holding(q)' <=> Holding(q))
                                    /\ (Holding(q) => at'[q] = at[q])
  PROVE  /\ Lease!Move(r, PhaseOf(r)')
         /\ LET has == [q \in Requests |-> IF Holding(q) THEN at[q] ELSE NoSlot]
            IN  has' = [has EXCEPT ![r] = IF Holding(r)' THEN at'[r] ELSE NoSlot]
BY DEF Lease!Move

LEMMA AttemptLeases ==
  ASSUME IInv, NEW r \in Requests, pc[r] \in {"new", "props", "woken"}, Attempt(r)
  PROVE  Lease!Next \/ UNCHANGED Lease!vars
<1>1. \A q \in Requests \ {r} : pc'[q] = pc[q] /\ at'[q] = at[q]
  BY DEF Attempt, Wait, Claim, IInv, TypeOK
<1>2. \A q \in Requests \ {r} : PhaseOf(q)' = PhaseOf(q) /\ (Holding(q)' <=> Holding(q))
  BY <1>1 DEF PhaseOf, Holding
<1>3. /\ Lease!Move(r, PhaseOf(r)')
      /\ LET has == [q \in Requests |-> IF Holding(q) THEN at[q] ELSE NoSlot]
         IN  has' = [has EXCEPT ![r] = IF Holding(r)' THEN at'[r] ELSE NoSlot]
  BY <1>1, <1>2, OneMoves
<1>4. PhaseOf(r) \in {"out", "asking"} /\ ~Holding(r)
  BY DEF PhaseOf, Holding
<1>5. CASE Wait(r)
  <2>1. PhaseOf(r)' = "asking" /\ ~Holding(r)'
    BY <1>5 DEF Wait, PhaseOf, Holding, IInv, TypeOK
  <2>2. UNCHANGED [q \in Requests |-> IF Holding(q) THEN at[q] ELSE NoSlot]
    BY <2>1, <1>1, <1>2, <1>4
  <2>3. CASE PhaseOf(r) = "out"
    <3>1. Lease!Ask(r)
      BY <2>1, <2>2, <2>3, <1>3 DEF Lease!Ask
    <3> QED BY <3>1 DEF Lease!Next
  <2>4. CASE PhaseOf(r) = "asking"
    <3>1. \A q \in Requests : PhaseOf(q)' = PhaseOf(q)
      BY <2>1, <2>4, <1>2
    <3> QED BY <3>1, <2>2 DEF Lease!vars
  <2> QED BY <2>3, <2>4, <1>4
<1>6. CASE \E s \in Choice(key[r]) : Claim(r, s)
  <2>1. PICK s \in Choice(key[r]) : Claim(r, s)
    BY <1>6
  <2>2. s \in Slots \ busy
    BY ChoiceIsIdle DEF IInv, TypeOK
  <2>3. PhaseOf(r)' = "has" /\ Holding(r)' /\ at'[r] = s
    BY <2>1 DEF Claim, PhaseOf, Holding, IInv, TypeOK
  <2>4. \A q \in Requests : (IF Holding(q) THEN at[q] ELSE NoSlot) # s
    BY <2>2, PinningAssumptions DEF IInv, MapAgrees, Slots
  <2>5. Lease!Grant(r, s)
    BY <2>3, <2>4, <1>3, <1>4 DEF Lease!Grant
  <2> QED BY <2>2, <2>5 DEF Lease!Next
<1> QED BY <1>5, <1>6 DEF Attempt

\* A request that goes unpinned, or is cancelled before it held a slot, leaves.
LEMMA LeavingLeases ==
  ASSUME IInv, NEW r \in Requests, NEW to \in {"queued", "done"},
         pc[r] \in {"new", "props", "waiting", "woken"},
         pc' = [pc EXCEPT ![r] = to], UNCHANGED at
  PROVE  Lease!Next
<1>1. \A q \in Requests \ {r} : pc'[q] = pc[q]
  BY DEF IInv, TypeOK
<1>2. \A q \in Requests \ {r} : PhaseOf(q)' = PhaseOf(q) /\ (Holding(q)' <=> Holding(q))
  BY <1>1 DEF PhaseOf, Holding
<1>3. PhaseOf(r)' = "left" /\ ~Holding(r)' /\ ~Holding(r) /\ PhaseOf(r) \in {"out", "asking"}
  BY DEF PhaseOf, Holding, IInv, TypeOK
<1>4. Lease!Move(r, "left")
  BY <1>2, <1>3, OneMoves
<1>5. UNCHANGED [q \in Requests |-> IF Holding(q) THEN at[q] ELSE NoSlot]
  BY <1>2, <1>3
<1>6. Lease!Leave(r)
  BY <1>3, <1>4, <1>5 DEF Lease!Leave
<1> QED BY <1>6 DEF Lease!Next

\* A step in which no request changes phase, or holds another slot, stutters.
LEMMA Stutters ==
  ASSUME \A q \in Requests :
           PhaseOf(q)' = PhaseOf(q) /\ (Holding(q)' <=> Holding(q)) /\ (Holding(q) => at'[q] = at[q])
  PROVE  UNCHANGED Lease!vars
BY DEF Lease!vars

LEMMA StepLeases ==
  ASSUME IInv, [Next]_vars
  PROVE  Lease!Next \/ UNCHANGED Lease!vars
<1> USE DEF IInv
<1>1. CASE UNCHANGED vars
  BY <1>1, Stutters DEF vars, PhaseOf, Holding
<1>2. ASSUME NEW r \in Requests, EnterAudio(r) \/ EnterWithoutMap(r) \/ PropsFailed(r)
      PROVE  Lease!Next
  BY <1>2, LeavingLeases DEF EnterAudio, EnterWithoutMap, PropsFailed, GoUnpinned
<1>3. ASSUME NEW r \in Requests, EnterReadProps(r) PROVE UNCHANGED Lease!vars
  BY <1>3, Stutters DEF EnterReadProps, PhaseOf, Holding, TypeOK
<1>4. ASSUME NEW r \in Requests, EnterWithMap(r) \/ PropsAnswered(r) \/ Retry(r)
      PROVE  Lease!Next \/ UNCHANGED Lease!vars
  BY <1>4, AttemptLeases DEF EnterWithMap, PropsAnswered, Retry
<1>5. ASSUME NEW r \in Requests, FinishHeld(r) PROVE Lease!Next
  <2>1. \A q \in Requests \ {r} : PhaseOf(q)' = PhaseOf(q) /\ (Holding(q)' <=> Holding(q))
                                  /\ at'[q] = at[q]
    BY <1>5 DEF FinishHeld, Release, PhaseOf, Holding, TypeOK
  <2>2. PhaseOf(r) = "has" /\ PhaseOf(r)' = "left" /\ ~Holding(r)'
    BY <1>5 DEF FinishHeld, Release, PhaseOf, Holding, TypeOK
  <2>3. Lease!Return(r)
    BY <2>1, <2>2, OneMoves DEF Lease!Return
  <2> QED BY <2>3 DEF Lease!Next
<1>6. ASSUME NEW r \in Requests, EnginePlaces(r) \/ FinishUnpinned(r)
      PROVE  UNCHANGED Lease!vars
  BY <1>6, Stutters DEF EnginePlaces, FinishUnpinned, PhaseOf, Holding, TypeOK
<1>7. ASSUME NEW r \in Requests, Cancel(r) PROVE Lease!Next \/ UNCHANGED Lease!vars
  <2>1. CASE pc[r] = "queued"
    BY <1>7, <2>1, Stutters DEF Cancel, PhaseOf, Holding, TypeOK
  <2>2. CASE pc[r] # "queued"
    BY <1>7, <2>2, LeavingLeases DEF Cancel
  <2> QED BY <2>1, <2>2
<1>8. ASSUME AllDone PROVE Lease!Next \/ UNCHANGED Lease!vars
  BY <1>8, <1>1 DEF AllDone
<1> QED BY <1>1, <1>2, <1>3, <1>4, <1>5, <1>6, <1>7, <1>8 DEF Next

\* The requests and the map together do what a lease of slots promises
\* (slots.py, lines 11-21): every step is a step of SlotLease or stutters.
THEOREM Implements == Safety => Lease!Safety
<1>1. Init => Lease!Init
  BY DEF Init, Lease!Init, PhaseOf, Holding
<1>2. IInv /\ [Next]_vars => [Lease!Next]_Lease!vars
  BY StepLeases
<1> QED BY <1>1, <1>2, Invariance, PTL DEF Safety, Lease!Safety
============================================================================
