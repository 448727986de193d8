---------------------------- MODULE SlotPinning ----------------------------
(***************************************************************************)
(* Pinning conversations to llama-server slots: slots.py (SlotPins) and    *)
(* its caller in engines/openai_compat_http.py (_slot_map, generate,       *)
(* stream, _complete).  One asyncio event loop runs every request, so an   *)
(* action is what runs between two awaits.                                 *)
(*                                                                         *)
(* The setting slotPinning is on.  A request is generate() or stream():    *)
(* both hold their slot until they end, however they end.  The engine is   *)
(* external: a request that names a slot is in that slot from its POST,    *)
(* and one that names none is placed by the engine in a slot it has idle.  *)
(***************************************************************************)
EXTENDS Integers, FiniteSets

CONSTANTS
  Requests,       \* requests, each made once
  AudioRequests,  \* those that ask for spoken audio: they bypass the map
  Keys,           \* conversation keys
  NoKey,          \* a request that belongs to no conversation
  Total,          \* total_slots of the engine's /props
  NoSlot          \* none of the slots

ASSUME PinningAssumptions ==
  /\ Total \in Nat \ {0}
  /\ AudioRequests \subseteq Requests
  /\ NoKey \notin Keys
  /\ NoSlot \notin 0 .. (Total - 1)

Slots == 0 .. (Total - 1)

VARIABLES
  key,       \* conversationKey of each request
  pc,        \* where each request is
  at,        \* the engine slot each request occupies
  pinsRead,  \* _pins_read: somebody set out to read /props
  mapped,    \* _pins is not None
  owner,     \* SlotPins._owners: the slot each conversation owns, or NoSlot
  older,     \* the order of _owners: <<j, k>> when j was used before k
  busy,      \* SlotPins._busy
  freed      \* SlotPins._freed is an Event somebody may wait on

map == <<owner, older, busy, freed>>
vars == <<key, pc, at, pinsRead, mapped, map>>

(***************************************************************************)
(* "new": not begun;  "props": awaits GET /props;  "waiting": awaits       *)
(* _freed;  "woken": _freed was set and the task is due to run;            *)
(* "holding": inside hold() with a request to the engine in flight;        *)
(* "queued": sent unpinned, not yet in a slot;  "placed": unpinned, in a   *)
(* slot of the engine's choice;  "done": ended.                            *)
(***************************************************************************)
PCs == {"new", "props", "waiting", "woken", "holding", "queued", "placed", "done"}

\* The types of the map and of the requests.
TypeOK ==
  /\ key \in [Requests -> Keys \cup {NoKey}]
  /\ pc \in [Requests -> PCs]
  /\ at \in [Requests -> Slots \cup {NoSlot}]
  /\ pinsRead \in BOOLEAN
  /\ mapped \in BOOLEAN
  /\ owner \in [Keys -> Slots \cup {NoSlot}]
  /\ older \in SUBSET (Keys \X Keys)
  /\ busy \in SUBSET Slots
  /\ freed \in BOOLEAN

Init ==
  /\ key \in [Requests -> Keys \cup {NoKey}]
  /\ pc = [r \in Requests |-> "new"]
  /\ at = [r \in Requests |-> NoSlot]
  /\ pinsRead = FALSE
  /\ mapped = FALSE
  /\ owner = [k \in Keys |-> NoSlot]
  /\ older = {}
  /\ busy = {}
  /\ freed = FALSE

(***************************************************************************)
(* SlotPins._choose                                                        *)
(***************************************************************************)
Owns(k) == k \in Keys /\ owner[k] # NoSlot
\* Fault: range(total + 1).
IdleOneMore == (0 .. Total) \ busy

Idle == Slots \ busy
Unowned == {s \in Idle : \A k \in Keys : owner[k] # s}

\* The idle slot whose conversation was used before every other idle slot's.
LeastRecent ==
  {s \in Idle : \E k \in Keys :
     /\ owner[k] = s
     /\ \A j \in Keys \ {k} : owner[j] \in Idle => <<k, j>> \in older}

\* Fault: the conversation's own slot is named although it is busy.
ChoiceIgnoringBusy(k) ==
  IF Owns(k) THEN {owner[k]}
  ELSE IF Unowned # {} THEN {s \in Unowned : \A t \in Unowned : s <= t}
  ELSE LeastRecent

\* The slot _choose(k) returns, as a set of at most one; {} is None.
Choice(k) ==
  IF Owns(k) THEN {owner[k]} \ busy
  ELSE IF Unowned # {} THEN {s \in Unowned : \A t \in Unowned : s <= t}
  ELSE LeastRecent

\* When _choose(k) returns None.
MustWait(k) == IF Owns(k) THEN owner[k] \in busy ELSE Idle = {}

\* _owners after _choose(k) returned s: s changes hands, nobody else's moves.
OwnerAfter(k, s) ==
  [j \in Keys |-> CASE j = k -> s
                    [] j # k /\ owner[j] = s -> NoSlot
                    [] OTHER -> owner[j]]

\* move_to_end, del and insertion, on the order of the conversations left.
OlderAfter(k, s) ==
  LET kept == {j \in Keys \ {k} : owner[j] \notin {s, NoSlot}}
  IN  (older \cap (kept \X kept)) \cup (IF k \in Keys THEN kept \X {k} ELSE {})

(***************************************************************************)
(* SlotPins.hold: the loop up to its await or its yield.  A slot taken is  *)
(* named in the request sent to the engine, in the same step.              *)
(***************************************************************************)
Claim(r, s) ==
  /\ owner' = OwnerAfter(key[r], s)
  /\ older' = OlderAfter(key[r], s)
  /\ busy' = busy \cup {s}
  /\ at' = [at EXCEPT ![r] = s]
  /\ pc' = [pc EXCEPT ![r] = "holding"]
  /\ UNCHANGED freed

Wait(r) ==
  /\ MustWait(key[r])
  /\ freed' = TRUE
  /\ pc' = [pc EXCEPT ![r] = "waiting"]
  /\ UNCHANGED <<at, owner, older, busy>>

Attempt(r) == Wait(r) \/ \E s \in Choice(key[r]) : Claim(r, s)

\* Fault: the Event is dropped without being set.
ReleaseSilently(r) ==
  /\ busy' = busy \ {at[r]}
  /\ freed' = FALSE
  /\ pc' = [pc EXCEPT ![r] = "done"]
  /\ at' = [at EXCEPT ![r] = NoSlot]
  /\ UNCHANGED <<owner, older>>

\* hold's finally: the slot is idle again and every waiter is due to run.
Release(r) ==
  /\ busy' = busy \ {at[r]}
  /\ freed' = FALSE
  /\ pc' = [q \in Requests |-> CASE q = r -> "done"
                                 [] q # r /\ pc[q] = "waiting" -> "woken"
                                 [] OTHER -> pc[q]]
  /\ at' = [at EXCEPT ![r] = NoSlot]
  /\ UNCHANGED <<owner, older>>

(***************************************************************************)
(* generate() and stream()                                                 *)
(***************************************************************************)
\* Sent without id_slot.
GoUnpinned(r) == pc' = [pc EXCEPT ![r] = "queued"] /\ UNCHANGED <<at, map>>

\* audioOutput is set: pins is None without looking.
EnterAudio(r) ==
  /\ pc[r] = "new" /\ r \in AudioRequests
  /\ GoUnpinned(r)
  /\ UNCHANGED <<key, pinsRead, mapped>>

\* The first request marks /props read and then awaits it.
EnterReadProps(r) ==
  /\ pc[r] = "new" /\ r \notin AudioRequests
  /\ ~pinsRead
  /\ pinsRead' = TRUE
  /\ pc' = [pc EXCEPT ![r] = "props"]
  /\ UNCHANGED <<key, at, mapped, map>>

\* Somebody set out to read it, and there is no map: read, failed or not yet.
EnterWithoutMap(r) ==
  /\ pc[r] = "new" /\ r \notin AudioRequests
  /\ pinsRead /\ ~mapped
  /\ GoUnpinned(r)
  /\ UNCHANGED <<key, pinsRead, mapped>>

EnterWithMap(r) ==
  /\ pc[r] = "new" /\ r \notin AudioRequests
  /\ pinsRead /\ mapped
  /\ Attempt(r)
  /\ UNCHANGED <<key, pinsRead, mapped>>

\* /props told the slot count: a fresh map, and on into hold.
PropsAnswered(r) ==
  /\ pc[r] = "props"
  /\ mapped' = TRUE
  /\ Attempt(r)
  /\ UNCHANGED <<key, pinsRead>>

\* A transport error, a status or a body that holds no slot count.
PropsFailed(r) ==
  /\ pc[r] = "props"
  /\ GoUnpinned(r)
  /\ UNCHANGED <<key, pinsRead, mapped>>

\* A waiter runs after the Event was set, and looks again.
Retry(r) ==
  /\ pc[r] = "woken"
  /\ Attempt(r)
  /\ UNCHANGED <<key, pinsRead, mapped>>

\* The engine answered, failed, or the request was cancelled while it held.
FinishHeld(r) ==
  /\ pc[r] = "holding"
  /\ Release(r)
  /\ UNCHANGED <<key, pinsRead, mapped>>

\* External: the engine puts a request that named no slot in an idle one.
EnginePlaces(r) ==
  /\ pc[r] = "queued"
  /\ \E s \in Slots :
       /\ \A q \in Requests : at[q] # s
       /\ at' = [at EXCEPT ![r] = s]
  /\ pc' = [pc EXCEPT ![r] = "placed"]
  /\ UNCHANGED <<key, pinsRead, mapped, map>>

FinishUnpinned(r) ==
  /\ pc[r] = "placed"
  /\ pc' = [pc EXCEPT ![r] = "done"]
  /\ at' = [at EXCEPT ![r] = NoSlot]
  /\ UNCHANGED <<key, pinsRead, mapped, map>>

\* A closed tab, at an await other than the engine's answer.
Cancel(r) ==
  /\ pc[r] \in {"props", "waiting", "woken", "queued"}
  /\ pc' = [pc EXCEPT ![r] = "done"]
  /\ UNCHANGED <<key, at, pinsRead, mapped, map>>

AllDone == (\A r \in Requests : pc[r] = "done") /\ UNCHANGED vars

Next ==
  \/ \E r \in Requests :
       \/ EnterAudio(r) \/ EnterReadProps(r) \/ EnterWithoutMap(r) \/ EnterWithMap(r)
       \/ PropsAnswered(r) \/ PropsFailed(r)
       \/ Retry(r) \/ FinishHeld(r)
       \/ EnginePlaces(r) \/ FinishUnpinned(r)
       \/ Cancel(r)
  \/ AllDone

(***************************************************************************)
(* The event loop runs a task that is due; the HTTP client's timeouts end  *)
(* every request in flight.  Nobody has to make a request or cancel one.   *)
(***************************************************************************)
Fairness ==
  \A r \in Requests :
    /\ WF_vars(PropsAnswered(r) \/ PropsFailed(r))
    /\ WF_vars(Retry(r))
    /\ WF_vars(FinishHeld(r))
    /\ WF_vars(EnginePlaces(r))
    /\ WF_vars(FinishUnpinned(r))

Safety == Init /\ [][Next]_vars
Spec == Safety /\ Fairness

-----------------------------------------------------------------------------
(***************************************************************************)
(* Properties                                                              *)
(***************************************************************************)
Holding(r) == pc[r] = "holding"

\* "Never name a slot that is busy" (slots.py, lines 11-17), among the requests
\* that go through the map: no two of them are in one slot at a time.
HoldersExclusive ==
  \A q, r \in Requests : q # r /\ Holding(q) /\ Holding(r) => at[q] # at[r]

\* "Each conversation in one llama-server slot" (slots.py, line 1): two turns of
\* one conversation are never in flight together, in one slot or in two.
ConversationSerial ==
  \A q, r \in Requests :
    q # r /\ Holding(q) /\ Holding(r) /\ key[q] \in Keys => key[q] # key[r]

\* The map's books agree with the requests in flight: the busy slots are those
\* held, no two conversations own one slot, and the slot a request holds belongs
\* to its conversation (or to none) until it ends, so eviction passes it by.
MapAgrees ==
  /\ busy = {at[r] : r \in {q \in Requests : Holding(q)}}
  /\ \A j, k \in Keys : Owns(j) /\ owner[j] = owner[k] => j = k
  /\ \A r \in Requests : Holding(r) =>
       /\ key[r] \in Keys => owner[key[r]] = at[r]
       /\ key[r] = NoKey => \A k \in Keys : owner[k] # at[r]

\* No lost wake-up (slots.py, hold): a request sleeps only on an Event that a
\* release will set, and only while the slot it needs is busy.
WaitersBlocked ==
  \A r \in Requests : pc[r] = "waiting" => freed /\ MustWait(key[r])

\* Every request made ends: nobody sleeps for ever on a slot (slots.py, hold).
EveryRequestEnds ==
  \A r \in Requests : pc[r] # "new" ~> pc[r] = "done"

\* What pinning promises: slots are leased, one request each.
PhaseOf(r) ==
  CASE pc[r] \in {"new", "props"} -> "out"
    [] pc[r] \in {"waiting", "woken"} -> "asking"
    [] pc[r] = "holding" -> "has"
    [] OTHER -> "left"

Lease == INSTANCE SlotLease WITH
  phase <- [r \in Requests |-> PhaseOf(r)],
  has <- [r \in Requests |-> IF Holding(r) THEN at[r] ELSE NoSlot]

LeaseSpec == Lease!Spec

\* "Every request that takes a slot goes through this map while pinning is on
\* [...] because one the engine placed itself could be in a slot the map
\* believes idle" (slots.py, lines 19-21): a request that named its slot is
\* alone there.
NamedSlotIsIdle ==
  \A q, r \in Requests : q # r /\ Holding(r) => at[q] # at[r]
============================================================================
